------------------------- MODULE OpportunitiesProofs -------------------------
(***************************************************************************)
(* The profile counter and the cached feed of Opportunities, for any       *)
(* number of opportunities and requests and any lifetimes.                 *)
(***************************************************************************)
EXTENDS Opportunities, FiniteSetTheorems, TLAPS

LEMMA Times ==
    /\ TTL \in Nat /\ TTL > 0 /\ MaxQuery \in Nat /\ LongAgo \in Nat
    /\ LongAgo = TTL + MaxQuery + 1
BY TimesAssumption DEF LongAgo

-----------------------------------------------------------------------------
(* Types *)

\* The rows that requests have read stay there.
Known == \A s \in Slots : request[s].pc \in {"update", "remove"} => request[s].opp \in Rows

TypeInv == TypeOK /\ Known

\* The fields of a request, by its pc
LEMMA SlotFields ==
    ASSUME TypeOK, NEW s \in Slots
    PROVE  /\ request[s].pc \in {"idle", "update", "remove", "after", "page"}
           /\ request[s] = Idle <=> request[s].pc = "idle"
           /\ request[s].pc \in {"update", "remove"} => request[s].opp \in Opps
           /\ request[s].pc = "update" => request[s].new \in Statuses
           /\ request[s].pc = "after" =>
                 request[s].todo \in (SUBSET {"decrement", "invalidate"}) \ {{}}
           /\ request[s].pc = "page" =>
                 request[s].items \in SUBSET Opps /\ request[s].age \in 0 .. MaxQuery
<1>1. request[s] \in Request
  BY DEF TypeOK
<1> QED
  BY <1>1 DEF Request, Idle

LEMMA TypesInitially == Init => TypeInv
<1> SUFFICES ASSUME Init PROVE TypeInv
  OBVIOUS
<1>1. Idle \in Request /\ Idle.pc = "idle"
  BY DEF Request, Idle
<1>2. request \in [Slots -> Request] /\ Known
  BY <1>1 DEF Init, Known
<1>3. status \in [Opps -> Statuses \union {"NONE"}] /\ deleted \subseteq Rows
      /\ count \in Int /\ drift \in Int
  BY DEF Init, Rows
<1>4. feed \in [items : SUBSET Opps, left : 0 .. TTL] /\ since \in [Opps -> 0 .. LongAgo]
  BY Times DEF Init, NoPage
<1>5. recount \in {NoRecount} \union [pc : {"write"}, total : Nat]
  BY DEF Init
<1> QED
  BY <1>2, <1>3, <1>4, <1>5 DEF TypeInv, TypeOK

\* What a step of a request may do to the requests
LEMMA OneRequest ==
    ASSUME TypeInv, NEW s \in Slots, NEW r \in Request, Continue(s, r), Rows \subseteq Rows',
           r.pc \in {"update", "remove"} => r.opp \in Rows
    PROVE  /\ request' \in [Slots -> Request]
           /\ Known'
           /\ \A u \in Slots : request'[u] = IF u = s THEN r ELSE request[u]
BY DEF Continue, TypeInv, TypeOK, Known

LEMMA ObserveTypes ==
    ASSUME TypeOK, Observe
    PROVE  since' \in [Opps -> 0 .. LongAgo]
BY Times DEF Observe, TypeOK

LEMMA RowsStay ==
    ASSUME TypeInv, [Next]_vars
    PROVE  Rows \subseteq Rows'
<1>1. ASSUME NEW s \in Slots, CommitUpdate(s)
      PROVE  Rows \subseteq Rows'
  <2>1. status' = [status EXCEPT ![request[s].opp] = request[s].new] /\ request[s].new \in Statuses
    BY <1>1, SlotFields DEF CommitUpdate, TypeInv
  <2> QED
    BY <2>1 DEF Rows, Statuses, TypeInv, TypeOK
<1>2. ASSUME NEW s \in Slots, NEW o \in Opps, NEW new \in Statuses, Create(s, o, new)
      PROVE  Rows \subseteq Rows'
  BY <1>2 DEF Create, Rows, TypeInv, TypeOK
<1>3. ASSUME NEW some \in SUBSET Opps, Archive(some)
      PROVE  Rows \subseteq Rows'
  BY <1>3 DEF Archive, Rows
<1>4. CASE UNCHANGED status
  BY <1>4 DEF Rows
<1> QED
  BY <1>1, <1>2, <1>3, <1>4
  DEF Next, Arrive, Proceed, Cron, Begin, BeginUpdate, BeginRemove, ReadPage, CommitRemove,
      Decrement, Invalidate, Lose, WritePage, LosePage, CleanupDrafts, RecountRead, RecountWrite,
      Tick, vars, rows

LEMMA TypesStep == TypeInv /\ [Next]_vars => TypeInv'
<1> SUFFICES ASSUME TypeInv, [Next]_vars PROVE TypeInv'
  OBVIOUS
<1>0. Rows \subseteq Rows' /\ TypeOK
  BY RowsStay DEF TypeInv
<1>1. CASE UNCHANGED vars
  BY <1>1 DEF vars, rows, TypeInv, TypeOK, Known, Rows
<1>2. Idle \in Request /\ Idle.pc = "idle"
  BY DEF Request, Idle
<1>3. ASSUME NEW todo \in (SUBSET {"decrement", "invalidate"}) \ {{}}
      PROVE  After(todo) \in Request /\ After(todo).pc = "after"
  BY DEF Request, After
<1>4. ASSUME NEW s \in Slots, NEW o \in Opps, NEW new \in Statuses, Create(s, o, new)
      PROVE  TypeInv'
  <2>1. /\ status' = [status EXCEPT ![o] = new] /\ count' = count + 1
        /\ Continue(s, After({"invalidate"})) /\ Observe
        /\ UNCHANGED <<deleted, feed, recount, drift>>
    BY <1>4 DEF Create, Added
  <2>2. request' \in [Slots -> Request] /\ Known'
    BY <1>0, <1>3, <2>1, OneRequest
  <2>3. status' \in [Opps -> Statuses \union {"NONE"}] /\ deleted' \subseteq Rows' /\ count' \in Int
    BY <1>0, <2>1 DEF TypeOK
  <2> QED
    BY <1>0, <2>1, <2>2, <2>3, ObserveTypes DEF TypeInv, TypeOK
<1>5. ASSUME NEW s \in Slots, NEW o \in Opps,
             NEW r \in [pc : {"update"}, opp : {o}, new : Statuses] \union [pc : {"remove"}, opp : {o}],
             Begin(s, o, r)
      PROVE  TypeInv'
  <2>1. Continue(s, r) /\ o \in Rows /\ UNCHANGED <<rows, count, feed, recount, drift, since>>
    BY <1>5 DEF Begin, Live
  <2>2. r \in Request /\ r.opp = o
    BY DEF Request
  <2>3. request' \in [Slots -> Request] /\ Known'
    BY <1>0, <2>1, <2>2, OneRequest
  <2> QED
    BY <1>0, <2>1, <2>3 DEF rows, TypeInv, TypeOK, Rows
<1>6. ASSUME NEW s \in Slots, CommitUpdate(s)
      PROVE  TypeInv'
  <2> DEFINE r == request[s]
  <2>1. /\ r.pc = "update" /\ status' = [status EXCEPT ![r.opp] = r.new]
        /\ Continue(s, After({"invalidate"})) /\ Observe
        /\ UNCHANGED <<deleted, count, feed, recount, drift>>
    BY <1>6 DEF CommitUpdate
  <2>2. request' \in [Slots -> Request] /\ Known'
    BY <1>0, <1>3, <2>1, OneRequest
  <2>3. status' \in [Opps -> Statuses \union {"NONE"}] /\ deleted' \subseteq Rows'
    BY <1>0, <2>1, SlotFields DEF TypeOK
  <2> QED
    BY <1>0, <2>1, <2>2, <2>3, ObserveTypes DEF TypeInv, TypeOK
<1>7. ASSUME NEW s \in Slots, CommitRemove(s)
      PROVE  TypeInv'
  <2> DEFINE o == request[s].opp
  <2>1. /\ request[s].pc = "remove" /\ deleted' = deleted \union {o}
        /\ drift' \in {drift, drift - 1}
        /\ Continue(s, After({"decrement", "invalidate"})) /\ Observe
        /\ UNCHANGED <<status, count, feed, recount>>
    BY <1>7 DEF CommitRemove
  <2>2. request' \in [Slots -> Request] /\ Known'
    BY <1>0, <1>3, <2>1, OneRequest
  <2>3. o \in Rows
    BY <2>1 DEF TypeInv, Known
  <2>4. drift' \in Int /\ deleted' \subseteq Rows'
    BY <1>0, <2>1, <2>3 DEF TypeOK
  <2> QED
    BY <1>0, <2>1, <2>2, <2>4, ObserveTypes DEF TypeInv, TypeOK
<1>8. ASSUME NEW s \in Slots, NEW effect \in {"decrement", "invalidate"}, Done(s, effect)
      PROVE  request' \in [Slots -> Request] /\ Known'
  <2> DEFINE rest == request[s].todo \ {effect}
  <2>1. request[s].todo \in (SUBSET {"decrement", "invalidate"}) \ {{}}
    BY <1>0, <1>8, SlotFields DEF Done
  <2>2. CASE request[s].todo = {effect}
    <3>1. Continue(s, Idle)
      BY <1>8, <2>2 DEF Done
    <3> QED
      BY <1>0, <1>2, <3>1, OneRequest
  <2>3. CASE request[s].todo # {effect}
    <3>1. Continue(s, After(rest))
      BY <1>8, <2>3 DEF Done
    <3>2. rest \in (SUBSET {"decrement", "invalidate"}) \ {{}}
      BY <1>8, <2>1, <2>3 DEF Done
    <3>3. After(rest) \in Request /\ After(rest).pc = "after"
      BY <1>3, <3>2
    <3> QED
      BY <1>0, <3>1, <3>3, OneRequest
  <2> QED
    BY <2>2, <2>3
<1>9. ASSUME NEW s \in Slots,
             Decrement(s) \/ Invalidate(s)
                \/ \E effect \in {"decrement", "invalidate"} : Lose(s, effect)
      PROVE  TypeInv'
  <2>1. PICK effect \in {"decrement", "invalidate"} : Done(s, effect)
    BY <1>9 DEF Decrement, Invalidate, Lose
  <2>2. /\ count' \in {count, count - 1} /\ drift' \in {drift, drift + 1}
        /\ feed' \in {feed, NoPage} /\ UNCHANGED <<rows, recount, since>>
    BY <1>9 DEF Decrement, Invalidate, Lose
  <2>3. count' \in Int /\ drift' \in Int
    BY <1>0, <2>2 DEF TypeOK
  <2>4. feed' \in [items : SUBSET Opps, left : 0 .. TTL]
    BY <1>0, <2>2, Times DEF TypeOK, NoPage
  <2> QED
    BY <1>0, <1>8, <2>1, <2>2, <2>3, <2>4 DEF rows, TypeInv, TypeOK, Rows
<1>10. ASSUME NEW s \in Slots, ReadPage(s)
       PROVE  TypeInv'
  <2> DEFINE r == [pc |-> "page", items |-> Visible, age |-> 0]
  <2>1. Continue(s, r) /\ UNCHANGED <<rows, count, feed, recount, drift, since>>
    BY <1>10 DEF ReadPage
  <2>2. r \in Request /\ r.pc = "page"
    BY Times DEF Request, Visible, Live, Rows
  <2> HIDE DEF r
  <2>3. request' \in [Slots -> Request] /\ Known'
    BY <1>0, <2>1, <2>2, OneRequest
  <2> QED
    BY <1>0, <2>1, <2>3 DEF rows, TypeInv, TypeOK, Rows
<1>11. ASSUME NEW s \in Slots, WritePage(s) \/ LosePage(s)
       PROVE  TypeInv'
  <2>1. /\ request[s].pc = "page" /\ Continue(s, Idle)
        /\ UNCHANGED <<rows, count, recount, drift, since>>
        /\ feed' \in {feed, [items |-> request[s].items, left |-> TTL]}
    BY <1>11 DEF WritePage, LosePage, Life
  <2>2. request' \in [Slots -> Request] /\ Known'
    BY <1>0, <1>2, <2>1, OneRequest
  <2>3. feed' \in [items : SUBSET Opps, left : 0 .. TTL]
    BY <1>0, <2>1, SlotFields, Times DEF TypeOK
  <2> QED
    BY <1>0, <2>1, <2>2, <2>3 DEF rows, TypeInv, TypeOK, Rows
<1>12. ASSUME NEW some \in SUBSET Opps, Archive(some)
       PROVE  TypeInv'
  <2>1. /\ status' = [o \in Opps |-> IF o \in some THEN "ARCHIVED" ELSE status[o]] /\ Observe
        /\ UNCHANGED <<deleted, count, feed, request, recount, drift>>
    BY <1>12 DEF Archive
  <2>2. status' \in [Opps -> Statuses \union {"NONE"}] /\ deleted' \subseteq Rows'
    BY <1>0, <2>1 DEF TypeOK, Statuses
  <2>3. Known'
    BY <1>0, <2>1 DEF TypeInv, Known
  <2> QED
    BY <1>0, <2>1, <2>2, <2>3, ObserveTypes DEF TypeInv, TypeOK
<1>13. ASSUME NEW some \in SUBSET Opps, CleanupDrafts(some)
       PROVE  TypeInv'
  <2>1. /\ deleted' = deleted \union some /\ drift' = drift + Cardinality(some)
        /\ \A o \in some : o \in Live
        /\ UNCHANGED <<status, count, feed, request, recount, since>>
    BY <1>13 DEF CleanupDrafts
  <2>2. Cardinality(some) \in Nat
    BY TablesAssumption, FS_Subset, FS_CardinalityType
  <2>3. deleted' \subseteq Rows' /\ drift' \in Int
    BY <1>0, <2>1, <2>2 DEF TypeOK, Live
  <2>4. Known'
    BY <1>0, <2>1 DEF TypeInv, Known
  <2> QED
    BY <1>0, <2>1, <2>3, <2>4 DEF TypeInv, TypeOK
<1>14. CASE RecountRead \/ RecountWrite
  <2>1. UNCHANGED <<rows, feed, request, since>>
    BY <1>14 DEF RecountRead, RecountWrite
  <2>2. /\ Cardinality(Rows) \in Nat /\ Cardinality(Live) \in Nat /\ Cardinality(Pending) \in Nat
    BY TablesAssumption, FS_Subset, FS_CardinalityType DEF Rows, Live, Pending
  <2>3. recount' \in {NoRecount} \union [pc : {"write"}, total : Nat]
    BY <1>14, <2>2 DEF RecountRead, RecountWrite
  <2>4. recount.pc = "write" => recount.total \in Nat
    BY <1>0 DEF TypeOK, NoRecount
  <2>5. count' \in Int /\ drift' \in Int
    BY <1>0, <1>14, <2>2, <2>4 DEF RecountRead, RecountWrite, TypeOK
  <2> QED
    BY <1>0, <2>1, <2>3, <2>5 DEF rows, TypeInv, TypeOK, Rows, Known
<1>15. CASE Tick
  <2>1. UNCHANGED <<rows, count, recount, drift>>
    BY <1>15 DEF Tick
  <2>2. ASSUME NEW s \in Slots
        PROVE  /\ request'[s] \in Request /\ request'[s].pc = request[s].pc
               /\ request[s].pc # "page" => request'[s] = request[s]
    <3>1. CASE request[s].pc = "page"
      <4>1. request'[s] = [request[s] EXCEPT !.age = @ + 1] /\ request[s].age < MaxQuery
        BY <1>15, <3>1 DEF Tick
      <4>2. request[s] \in [pc : {"page"}, items : SUBSET Opps, age : 0 .. MaxQuery]
        BY <1>0, <3>1 DEF TypeOK, Request, Idle
      <4>3. request'[s] \in [pc : {"page"}, items : SUBSET Opps, age : 0 .. MaxQuery]
        BY <4>1, <4>2, Times
      <4> QED
        BY <3>1, <4>3 DEF Request
    <3>2. CASE request[s].pc # "page"
      BY <1>0, <1>15, <3>2 DEF Tick, TypeOK
    <3> QED
      BY <3>1, <3>2
  <2>3. request' \in [Slots -> Request]
    BY <1>15, <2>2 DEF Tick
  <2>4. Known'
    BY <1>0, <2>2 DEF TypeInv, Known
  <2>5. feed' \in [items : SUBSET Opps, left : 0 .. TTL]
    BY <1>0, <1>15, Times DEF Tick, TypeOK, NoPage
  <2>6. since' \in [Opps -> 0 .. LongAgo]
    BY <1>0, <1>15, Times DEF Tick, TypeOK
  <2> QED
    BY <1>0, <2>1, <2>3, <2>4, <2>5, <2>6 DEF rows, TypeInv, TypeOK, Rows
<1>16. ASSUME NEW s \in Slots, NEW o \in Opps,
              BeginRemove(s, o) \/ \E new \in Statuses : BeginUpdate(s, o, new)
       PROVE  TypeInv'
  <2>1. PICK r \in [pc : {"update"}, opp : {o}, new : Statuses] \union [pc : {"remove"}, opp : {o}] :
            Begin(s, o, r)
    BY <1>16 DEF BeginRemove, BeginUpdate
  <2> QED
    BY <1>5, <2>1
<1> QED
  BY <1>1, <1>4, <1>6, <1>7, <1>9, <1>10, <1>11, <1>12, <1>13, <1>14, <1>15, <1>16
  DEF Next, Arrive, Proceed, Cron

LEMMA TypesHold == Spec => []TypeInv
BY TypesInitially, TypesStep, PTL DEF Spec

\* Rows, counter, feed, requests and recount keep their types, and only rows are marked deleted.
THEOREM TypeCorrect == Spec => []TypeOK
BY TypesHold, PTL DEF TypeInv

-----------------------------------------------------------------------------
(* The counter of the profile *)

LEMMA TablesFinite ==
    ASSUME NEW S, S \subseteq Opps \/ S \subseteq Slots
    PROVE  IsFiniteSet(S) /\ Cardinality(S) \in Nat
BY TablesAssumption, FS_Subset, FS_CardinalityType

LEMMA CountInitially == Init => CountAccounting
<1> SUFFICES ASSUME Init PROVE CountAccounting
  OBVIOUS
<1>1. Live = {}
  BY DEF Init, Live, Rows
<1>2. Pending = {}
  BY DEF Init, Pending, Idle
<1> QED
  BY <1>1, <1>2, FS_EmptySet DEF Init, CountAccounting

\* A request that begins knows what it is about to write.
LEMMA BeginIsKnown ==
  ASSUME NEW s, NEW o,
         BeginRemove(s, o) \/ \E new \in Statuses : BeginUpdate(s, o, new)
  PROVE  \E r : Continue(s, r) /\ r.pc # "after" /\ r.pc # "page"
<1>1. CASE BeginRemove(s, o)
  <2> DEFINE r == [pc |-> "remove", opp |-> o]
  <2>1. Continue(s, r)
    BY <1>1 DEF BeginRemove, Begin
  <2>2. r.pc # "after" /\ r.pc # "page"
    OBVIOUS
  <2> HIDE DEF r
  <2> QED
    BY <2>1, <2>2
<1>2. ASSUME NEW new \in Statuses, BeginUpdate(s, o, new)
      PROVE  \E r : Continue(s, r) /\ r.pc # "after" /\ r.pc # "page"
  <2> DEFINE r == [pc |-> "update", opp |-> o, new |-> new]
  <2>1. Continue(s, r)
    BY <1>2 DEF BeginUpdate, Begin
  <2>2. r.pc # "after" /\ r.pc # "page"
    OBVIOUS
  <2> HIDE DEF r
  <2> QED
    BY <2>1, <2>2
<1> QED
  BY <1>1, <1>2

\* The other requests keep their decrements.
LEMMA PendingChanges ==
    ASSUME TypeInv, NEW s \in Slots, NEW r, Continue(s, r)
    PROVE  Pending' = IF r.pc = "after" /\ "decrement" \in r.todo
                      THEN Pending \union {s} ELSE Pending \ {s}
<1>1. \A u \in Slots : request'[u] = IF u = s THEN r ELSE request[u]
  BY DEF Continue, TypeInv, TypeOK
<1> QED
  BY <1>1 DEF Pending

LEMMA LiveSubset == Live \subseteq Opps /\ Pending \subseteq Slots
BY DEF Live, Rows, Pending

LEMMA CountStep == TypeInv /\ CountAccounting /\ [Next]_vars => CountAccounting'
<1> SUFFICES ASSUME TypeInv, CountAccounting, [Next]_vars PROVE CountAccounting'
  OBVIOUS
<1> DEFINE live == Cardinality(Live)
           pending == Cardinality(Pending)
<1>0. /\ live \in Nat /\ pending \in Nat /\ count \in Int /\ drift \in Int
      /\ IsFiniteSet(Live) /\ IsFiniteSet(Pending) /\ TypeOK
  BY LiveSubset, TablesFinite DEF TypeInv, TypeOK
<1>1. ASSUME Live' = Live, Pending' = Pending, count' - drift' = count - drift,
             count' \in Int, drift' \in Int
      PROVE  CountAccounting'
  BY <1>0, <1>1 DEF CountAccounting
<1>2. ASSUME NEW s \in Slots, request[s].pc # "after", NEW r, Continue(s, r), r.pc # "after"
      PROVE  Pending' = Pending
  <2>1. s \notin Pending
    BY <1>2 DEF Pending
  <2> QED
    BY <1>2, <2>1, PendingChanges
<1>3. Idle.pc # "after"
  BY DEF Idle
<1>4. ASSUME NEW s \in Slots, NEW o \in Opps, NEW new \in Statuses, Create(s, o, new)
      PROVE  CountAccounting'
  <2>1. /\ status' = [status EXCEPT ![o] = new] /\ count' = count + 1 /\ status[o] = "NONE"
        /\ Continue(s, After({"invalidate"})) /\ request[s] = Idle
        /\ UNCHANGED <<deleted, drift>>
    BY <1>4 DEF Create, Added
  <2>2. o \notin deleted /\ o \notin Live /\ new # "NONE"
    BY <1>0, <2>1 DEF TypeOK, Rows, Live, Statuses
  <2>3. Live' = Live \union {o}
    BY <1>0, <2>1, <2>2 DEF Live, Rows, TypeOK
  <2>4. Pending' = Pending
    <3>1. ~("decrement" \in After({"invalidate"}).todo)
      BY DEF After
    <3>2. s \notin Pending
      BY <1>3, <2>1 DEF Pending
    <3> QED
      BY <2>1, <3>1, <3>2, PendingChanges
  <2>5. Cardinality(Live') = live + 1
    BY <1>0, <2>2, <2>3, FS_AddElement
  <2> QED
    BY <1>0, <2>1, <2>4, <2>5 DEF CountAccounting
<1>5. ASSUME NEW s \in Slots, NEW o \in Opps,
             BeginRemove(s, o) \/ \E new \in Statuses : BeginUpdate(s, o, new)
      PROVE  CountAccounting'
  <2>1. PICK r : Continue(s, r) /\ r.pc # "after"
    BY <1>5, BeginIsKnown
  <2>2. request[s] = Idle /\ UNCHANGED <<rows, count, drift>>
    BY <1>5 DEF BeginRemove, BeginUpdate, Begin
  <2>3. Pending' = Pending
    BY <1>2, <1>3, <2>1, <2>2
  <2>4. Live' = Live
    BY <2>2 DEF rows, Live, Rows
  <2> QED
    BY <1>0, <1>1, <2>2, <2>3, <2>4
<1>6. ASSUME NEW s \in Slots, CommitUpdate(s)
      PROVE  CountAccounting'
  <2> DEFINE o == request[s].opp
  <2>1. /\ request[s].pc = "update" /\ status' = [status EXCEPT ![o] = request[s].new]
        /\ Continue(s, After({"invalidate"})) /\ UNCHANGED <<deleted, count, drift>>
    BY <1>6 DEF CommitUpdate
  <2>2. o \in Rows /\ request[s].new # "NONE"
    BY <1>0, <2>1, SlotFields DEF TypeInv, Known, Statuses
  <2>3. Live' = Live
    BY <1>0, <2>1, <2>2 DEF Live, Rows, TypeOK
  <2>4. Pending' = Pending
    <3>1. ~("decrement" \in After({"invalidate"}).todo)
      BY DEF After
    <3>2. s \notin Pending
      BY <2>1 DEF Pending
    <3> QED
      BY <2>1, <3>1, <3>2, PendingChanges
  <2> QED
    BY <1>0, <1>1, <2>1, <2>3, <2>4
<1>7. ASSUME NEW s \in Slots, CommitRemove(s)
      PROVE  CountAccounting'
  <2> DEFINE o == request[s].opp
  <2>1. /\ request[s].pc = "remove" /\ deleted' = deleted \union {o}
        /\ drift' = IF o \in deleted THEN drift - 1 ELSE drift
        /\ Continue(s, After({"decrement", "invalidate"})) /\ UNCHANGED <<status, count>>
    BY <1>7 DEF CommitRemove
  <2>2. o \in Rows
    BY <2>1 DEF TypeInv, Known
  <2>3. Pending' = Pending \union {s} /\ s \notin Pending
    <3>1. After({"decrement", "invalidate"}).pc = "after"
          /\ "decrement" \in After({"decrement", "invalidate"}).todo
      BY DEF After
    <3>2. s \notin Pending
      BY <2>1 DEF Pending
    <3> QED
      BY <2>1, <3>1, <3>2, PendingChanges
  <2>4. Cardinality(Pending') = pending + 1
    BY <1>0, <2>3, FS_AddElement
  <2>5. Live' = Live \ {o}
    BY <2>1 DEF Live, Rows
  <2>6. CASE o \in deleted
    <3>1. Live' = Live
      BY <2>5, <2>6 DEF Live
    <3> QED
      BY <1>0, <2>1, <2>4, <2>6, <3>1 DEF CountAccounting
  <2>7. CASE o \notin deleted
    <3>1. o \in Live
      BY <2>2, <2>7 DEF Live
    <3>2. Cardinality(Live') = live - 1
      BY <1>0, <2>5, <3>1, FS_RemoveElement
    <3> QED
      BY <1>0, <2>1, <2>4, <2>7, <3>2 DEF CountAccounting
  <2> QED
    BY <2>6, <2>7
<1>8. ASSUME NEW s \in Slots, NEW effect \in {"decrement", "invalidate"}, Done(s, effect)
      PROVE  Pending' = IF effect = "decrement" THEN Pending \ {s} ELSE Pending
  <2> DEFINE todo == request[s].todo
  <2>1. PICK r : Continue(s, r) /\ r = IF todo = {effect} THEN Idle ELSE After(todo \ {effect})
    BY <1>8 DEF Done
  <2>2. request[s].pc = "after" /\ effect \in todo
    BY <1>8 DEF Done
  <2>3. r.pc = "after" /\ "decrement" \in r.todo <=> "decrement" \in todo \ {effect}
    BY <1>3, <2>1 DEF After
  <2>4. s \in Pending <=> "decrement" \in todo
    BY <2>2 DEF Pending
  <2> QED
    BY <2>1, <2>3, <2>4, PendingChanges
<1>9. ASSUME NEW s \in Slots, NEW effect \in {"decrement", "invalidate"}, Done(s, effect),
             UNCHANGED rows, count' \in Int, drift' \in Int,
             count' - drift' = (count - drift) - (IF effect = "decrement" THEN 1 ELSE 0)
      PROVE  CountAccounting'
  <2>1. Live' = Live
    BY <1>9 DEF rows, Live, Rows
  <2>2. CASE effect = "decrement"
    <3>1. s \in Pending
      BY <1>9, <2>2 DEF Done, Pending
    <3>2. Cardinality(Pending') = pending - 1
      BY <1>0, <1>8, <1>9, <2>2, <3>1, FS_RemoveElement
    <3> QED
      BY <1>0, <1>9, <2>1, <2>2, <3>2 DEF CountAccounting
  <2>3. CASE effect = "invalidate"
    BY <1>0, <1>1, <1>8, <1>9, <2>1, <2>3
  <2> QED
    BY <2>2, <2>3
<1>10. ASSUME NEW s \in Slots,
              Decrement(s) \/ Invalidate(s)
                 \/ \E effect \in {"decrement", "invalidate"} : Lose(s, effect)
       PROVE  CountAccounting'
  <2>1. CASE Decrement(s)
    BY <1>0, <1>9, <2>1 DEF Decrement
  <2>2. CASE Invalidate(s)
    BY <1>0, <1>9, <2>2 DEF Invalidate
  <2>3. ASSUME NEW effect \in {"decrement", "invalidate"}, Lose(s, effect)
        PROVE  CountAccounting'
    BY <1>0, <1>9, <2>3 DEF Lose
  <2> QED
    BY <1>10, <2>1, <2>2, <2>3
<1>11. ASSUME NEW s \in Slots, ReadPage(s) \/ WritePage(s) \/ LosePage(s)
       PROVE  CountAccounting'
  <2>1. PICK r : Continue(s, r) /\ r.pc # "after"
    BY <1>3, <1>11 DEF ReadPage, WritePage, LosePage
  <2>2. request[s].pc # "after" /\ UNCHANGED <<rows, count, drift>>
    BY <1>3, <1>11 DEF ReadPage, WritePage, LosePage
  <2>3. Pending' = Pending /\ Live' = Live
    BY <1>2, <2>1, <2>2 DEF rows, Live, Rows
  <2> QED
    BY <1>0, <1>1, <2>2, <2>3
<1>12. ASSUME NEW some \in SUBSET Opps, Archive(some)
       PROVE  CountAccounting'
  <2>1. /\ status' = [o \in Opps |-> IF o \in some THEN "ARCHIVED" ELSE status[o]]
        /\ \A o \in some : status[o] = "ACTIVE"
        /\ UNCHANGED <<deleted, count, request, drift>>
    BY <1>12 DEF Archive, Expired
  <2>2. Live' = Live /\ Pending' = Pending
    BY <2>1 DEF Live, Rows, Pending
  <2> QED
    BY <1>0, <1>1, <2>1, <2>2
<1>13. ASSUME NEW some \in SUBSET Opps, CleanupDrafts(some)
       PROVE  CountAccounting'
  <2>1. /\ deleted' = deleted \union some /\ drift' = drift + Cardinality(some)
        /\ some \subseteq Live /\ UNCHANGED <<status, count, request>>
    BY <1>13 DEF CleanupDrafts
  <2>2. Live' = Live \ some /\ Pending' = Pending
    BY <2>1 DEF Live, Rows, Pending
  <2>3. Cardinality(Live') = live - Cardinality(some) /\ Cardinality(some) \in Nat
    <3>1. Live \intersect some = some
      BY <2>1
    <3>2. IsFiniteSet(some) /\ Cardinality(some) \in Nat
      BY TablesFinite
    <3> QED
      <4>1. Cardinality(Live \ some) = Cardinality(Live) - Cardinality(Live \intersect some)
        BY <1>0, FS_Difference, TablesFinite
      <4> QED
        BY <1>0, <2>2, <3>1, <3>2, <4>1
  <2> QED
    BY <1>0, <2>1, <2>2, <2>3 DEF CountAccounting
<1>14. CASE RecountRead \/ RecountWrite
  <2>1. UNCHANGED <<rows, request>>
    BY <1>14 DEF RecountRead, RecountWrite
  <2>2. Live' = Live /\ Pending' = Pending
    BY <2>1 DEF rows, Live, Rows, Pending
  <2>3. recount.pc = "write" => recount.total \in Nat
    BY <1>0 DEF TypeOK, NoRecount
  <2> QED
    BY <1>0, <1>14, <2>2, <2>3 DEF RecountRead, RecountWrite, CountAccounting
<1>15. CASE Tick
  <2>1. UNCHANGED <<rows, count, drift>>
    BY <1>15 DEF Tick
  <2>2. \A s \in Slots : /\ request[s].pc = "page" => request'[s].pc = "page"
                         /\ request[s].pc # "page" => request'[s] = request[s]
    <3>1. ASSUME NEW s \in Slots, request[s].pc = "page"
          PROVE  request'[s].pc = "page"
      <4>1. request'[s] = [request[s] EXCEPT !.age = @ + 1]
        BY <1>15, <3>1 DEF Tick
      <4>2. request[s] \in [pc : {"page"}, items : SUBSET Opps, age : 0 .. MaxQuery]
        BY <1>0, <3>1 DEF TypeOK, Request, Idle
      <4> QED
        BY <4>1, <4>2
    <3> QED
      BY <1>15, <3>1 DEF Tick
  <2>3. Pending' = Pending
    BY <2>2 DEF Pending
  <2>4. Live' = Live
    BY <2>1 DEF rows, Live, Rows
  <2> QED
    BY <1>0, <1>1, <2>1, <2>3, <2>4
<1>16. CASE UNCHANGED vars
  BY <1>0, <1>1, <1>16 DEF vars, rows, Live, Rows, Pending
<1> QED
  BY <1>4, <1>5, <1>6, <1>7, <1>10, <1>11, <1>12, <1>13, <1>14, <1>15, <1>16
  DEF Next, Arrive, Proceed, Cron

\* For any number of opportunities and requests, the counter of the profile differs from the live
\* rows by the decrements on their way and by what the listed events have brought, and by nothing
\* else.
THEOREM CountCorrect == Spec => []CountAccounting
BY TypesHold, CountInitially, CountStep, PTL DEF Spec

-----------------------------------------------------------------------------
(* The cached feed *)

Differs(items, o) == (o \in items) # (o \in InFeed)

\* A page, read or cached, is wrong about an opportunity only if that changed after the read.
FeedInv ==
    /\ \A s \in Slots : request[s].pc = "page" =>
           \A o \in Opps : Differs(request[s].items, o) => since[o] <= request[s].age
    /\ feed # NoPage =>
           /\ feed.left > 0
           /\ \A o \in Opps : Differs(feed.items, o) => since[o] <= TTL + MaxQuery - feed.left

\* What appears in the feed or disappears from it did so just now.
Observed ==
    \A o \in Opps : \/ since'[o] = 0
                    \/ since'[o] = since[o] /\ ((o \in InFeed') <=> (o \in InFeed))

LEMMA FeedInitially == Init => FeedInv
BY DEF Init, FeedInv, Idle

LEMMA ObserveShows ==
    ASSUME Observe
    PROVE  Observed
BY DEF Observe, Observed

LEMMA RowsShow ==
    ASSUME UNCHANGED <<rows, since>>
    PROVE  Observed
BY DEF rows, Observed, InFeed, Live, Rows

\* The pages that requests hold and the cache stay, or go.
LEMMA PagesAge ==
    ASSUME TypeInv, FeedInv, Observed, feed' \in {feed, NoPage},
           \A s \in Slots : request'[s].pc = "page" => request'[s] = request[s]
    PROVE  FeedInv'
<1>1. ASSUME NEW items, NEW o \in Opps, NEW n \in Nat,
             Differs(items, o) => since[o] <= n, (o \in items) # (o \in InFeed')
      PROVE  since'[o] <= n
  BY <1>1 DEF Observed, Differs
<1>2. ASSUME NEW s \in Slots, request'[s].pc = "page", NEW o \in Opps,
             (o \in request'[s].items) # (o \in InFeed')
      PROVE  since'[o] <= request'[s].age
  <2>1. request'[s] = request[s] /\ request[s].age \in Nat
    BY <1>2, SlotFields, Times DEF TypeInv
  <2> QED
    BY <1>1, <1>2, <2>1 DEF FeedInv
<1>3. ASSUME feed' # NoPage, NEW o \in Opps, (o \in feed'.items) # (o \in InFeed')
      PROVE  since'[o] <= TTL + MaxQuery - feed'.left
  <2>1. feed' = feed /\ TTL + MaxQuery - feed.left \in Nat
    BY <1>3, Times DEF TypeInv, TypeOK
  <2> QED
    BY <1>1, <1>3, <2>1 DEF FeedInv
<1>4. feed' # NoPage => feed'.left > 0
  BY DEF FeedInv
<1> QED
  BY <1>2, <1>3, <1>4 DEF FeedInv, Differs

LEMMA FeedStep == TypeInv /\ FeedInv /\ [Next]_vars => FeedInv'
<1> SUFFICES ASSUME TypeInv, FeedInv, [Next]_vars PROVE FeedInv'
  OBVIOUS
<1>0. TypeOK
  BY DEF TypeInv
<1>1. ASSUME NEW s \in Slots, NEW r, Continue(s, r)
      PROVE  \A u \in Slots : request'[u] = IF u = s THEN r ELSE request[u]
  BY <1>0, <1>1 DEF Continue, TypeOK
<1>2. ASSUME NEW s \in Slots, NEW r, Continue(s, r), r.pc # "page", Observed, feed' \in {feed, NoPage}
      PROVE  FeedInv'
  BY <1>1, <1>2, PagesAge
<1>3. Idle.pc # "page" /\ \A todo : After(todo).pc # "page"
  BY DEF Idle, After
<1>4. ASSUME NEW s \in Slots, NEW o \in Opps, NEW new \in Statuses, Create(s, o, new)
      PROVE  FeedInv'
  <2>1. Continue(s, After({"invalidate"})) /\ Observe /\ feed' = feed
    BY <1>4 DEF Create
  <2> QED
    BY <1>2, <1>3, <2>1, ObserveShows
<1>5. ASSUME NEW s \in Slots, NEW o \in Opps,
             BeginRemove(s, o) \/ \E new \in Statuses : BeginUpdate(s, o, new)
      PROVE  FeedInv'
  <2>1. PICK r : Continue(s, r) /\ r.pc # "page"
    BY <1>5, BeginIsKnown
  <2>2. UNCHANGED <<rows, since>> /\ feed' = feed
    BY <1>5 DEF BeginRemove, BeginUpdate, Begin
  <2> QED
    BY <1>2, <2>1, <2>2, RowsShow
<1>6. ASSUME NEW s \in Slots, CommitUpdate(s) \/ CommitRemove(s)
      PROVE  FeedInv'
  <2>1. PICK todo : Continue(s, After(todo))
    BY <1>6 DEF CommitUpdate, CommitRemove
  <2>2. Observe /\ feed' = feed
    BY <1>6 DEF CommitUpdate, CommitRemove
  <2> QED
    BY <1>2, <1>3, <2>1, <2>2, ObserveShows
<1>7. ASSUME NEW s \in Slots,
             Decrement(s) \/ Invalidate(s)
                \/ \E effect \in {"decrement", "invalidate"} : Lose(s, effect)
      PROVE  FeedInv'
  <2>1. PICK effect \in {"decrement", "invalidate"} : Done(s, effect)
    BY <1>7 DEF Decrement, Invalidate, Lose
  <2>2. PICK r : Continue(s, r) /\ r.pc # "page"
    BY <1>3, <2>1 DEF Done
  <2>3. UNCHANGED <<rows, since>> /\ feed' \in {feed, NoPage}
    BY <1>7 DEF Decrement, Invalidate, Lose
  <2> QED
    BY <1>2, <2>2, <2>3, RowsShow
<1>8. ASSUME NEW s \in Slots, ReadPage(s)
      PROVE  FeedInv'
  <2> DEFINE r == [pc |-> "page", items |-> Visible, age |-> 0]
  <2>1. Continue(s, r) /\ UNCHANGED <<rows, since>> /\ feed' = feed
    BY <1>8 DEF ReadPage
  <2>2. InFeed' = InFeed /\ since' = since
    BY <2>1 DEF rows, InFeed, Live, Rows
  <2>3. Visible = InFeed
    BY DEF Visible, InFeed
  <2>4. \A u \in Slots : request'[u] = IF u = s THEN r ELSE request[u]
    BY <1>1, <2>1
  <2> QED
    BY <2>1, <2>2, <2>3, <2>4 DEF FeedInv, Differs
<1>9. ASSUME NEW s \in Slots, WritePage(s)
      PROVE  FeedInv'
  <2>1. /\ request[s].pc = "page" /\ Continue(s, Idle) /\ UNCHANGED <<rows, since>>
        /\ feed' = [items |-> request[s].items, left |-> TTL]
    BY <1>9 DEF WritePage, Life
  <2>2. InFeed' = InFeed /\ since' = since
    BY <2>1 DEF rows, InFeed, Live, Rows
  <2>3. \A u \in Slots : request'[u] = IF u = s THEN Idle ELSE request[u]
    BY <1>1, <2>1
  <2>4. request[s].age <= TTL + MaxQuery - TTL /\ request[s].age \in Nat
    BY <1>0, <2>1, SlotFields, Times
  <2>5. \A o \in Opps : since[o] \in Nat
    BY <1>0, Times DEF TypeOK
  <2>6. \A o \in Opps : Differs(request[s].items, o) => since[o] <= TTL + MaxQuery - TTL
    BY <2>1, <2>4, <2>5, Times DEF FeedInv
  <2>7. feed'.items = request[s].items /\ feed'.left = TTL
    BY <2>1
  <2> QED
    BY <1>3, <2>2, <2>3, <2>6, <2>7, Times DEF FeedInv, Differs
<1>10. ASSUME NEW s \in Slots, LosePage(s)
       PROVE  FeedInv'
  BY <1>2, <1>3, <1>10, RowsShow DEF LosePage
<1>11. ASSUME NEW some \in SUBSET Opps, Archive(some)
       PROVE  FeedInv'
  BY <1>11, ObserveShows, PagesAge DEF Archive
<1>12. ASSUME NEW some \in SUBSET Opps, CleanupDrafts(some)
       PROVE  FeedInv'
  <2>1. /\ deleted' = deleted \union some /\ \A o \in some : status[o] = "DRAFT"
        /\ UNCHANGED <<status, feed, request, since>>
    BY <1>12 DEF CleanupDrafts
  <2>2. InFeed' = InFeed
    BY <2>1 DEF InFeed, Live, Rows
  <2>3. Observed
    BY <2>1, <2>2 DEF Observed
  <2> QED
    BY <2>1, <2>3, PagesAge
<1>13. CASE RecountRead \/ RecountWrite \/ UNCHANGED vars
  <2>1. UNCHANGED <<rows, since, feed, request>>
    BY <1>13 DEF RecountRead, RecountWrite, vars
  <2> QED
    BY <2>1, RowsShow, PagesAge
<1>14. CASE Tick
  <2>1. InFeed' = InFeed
    BY <1>14 DEF Tick, rows, InFeed, Live, Rows
  <2>2. ASSUME NEW o \in Opps, NEW n \in Nat, n < LongAgo, since[o] <= n
        PROVE  since'[o] <= n + 1
    BY <1>0, <1>14, <2>2, Times DEF Tick, TypeOK
  <2>3. ASSUME NEW s \in Slots, request'[s].pc = "page", NEW o \in Opps,
               (o \in request'[s].items) # (o \in InFeed')
        PROVE  since'[o] <= request'[s].age
    <3>1. request[s].pc = "page"
      BY <1>0, <1>14, <2>3 DEF Tick
    <3>2. request'[s] = [request[s] EXCEPT !.age = @ + 1] /\ request[s].age < MaxQuery
      BY <1>14, <3>1 DEF Tick
    <3>3. request[s] \in [pc : {"page"}, items : SUBSET Opps, age : 0 .. MaxQuery]
      BY <1>0, <3>1 DEF TypeOK, Request, Idle
    <3>4. request'[s].items = request[s].items /\ request'[s].age = request[s].age + 1
      BY <3>2, <3>3
    <3>5. since[o] <= request[s].age
      BY <2>1, <2>3, <3>1, <3>4 DEF FeedInv, Differs
    <3> QED
      BY <2>2, <3>2, <3>3, <3>4, <3>5, Times
  <2>4. ASSUME feed' # NoPage
        PROVE  /\ feed'.left > 0
               /\ \A o \in Opps : (o \in feed'.items) # (o \in InFeed')
                                     => since'[o] <= TTL + MaxQuery - feed'.left
    <3>1. feed' = [feed EXCEPT !.left = @ - 1] /\ ~(feed.left <= 1)
      BY <1>14, <2>4 DEF Tick
    <3>2. feed \in [items : SUBSET Opps, left : 0 .. TTL]
      BY <1>0 DEF TypeOK
    <3>3. feed'.items = feed.items /\ feed'.left = feed.left - 1
      BY <3>1, <3>2
    <3>4. feed # NoPage /\ feed.left > 1 /\ feed.left \in 0 .. TTL
      BY <3>1, <3>2, Times DEF NoPage
    <3>5. ASSUME NEW o \in Opps, (o \in feed'.items) # (o \in InFeed')
          PROVE  since'[o] <= TTL + MaxQuery - feed'.left
      <4>1. since[o] <= TTL + MaxQuery - feed.left
        BY <2>1, <3>3, <3>4, <3>5 DEF FeedInv, Differs
      <4> QED
        BY <2>2, <3>3, <3>4, <4>1, Times
    <3> QED
      BY <3>3, <3>4, <3>5, Times
  <2> QED
    BY <2>3, <2>4 DEF FeedInv, Differs
<1> QED
  BY <1>4, <1>5, <1>6, <1>7, <1>8, <1>9, <1>10, <1>11, <1>12, <1>13, <1>14
  DEF Next, Arrive, Proceed, Cron

\* For any lifetimes and whatever reads, changes, invalidations and cron jobs cross each other, the
\* cached feed is never wrong about an opportunity for longer than a page lives and takes to read.
THEOREM FeedCorrect == Spec => []FeedIsRecent
<1>1. TypeInv /\ FeedInv => FeedIsRecent
  <2> SUFFICES ASSUME TypeInv, FeedInv, feed # NoPage, NEW o \in Opps,
                      (o \in feed.items) # (o \in InFeed)
               PROVE  since[o] < TTL + MaxQuery
    BY DEF FeedIsRecent
  <2>1. feed.left > 0 /\ since[o] <= TTL + MaxQuery - feed.left
    BY DEF FeedInv, Differs
  <2>2. feed.left \in 0 .. TTL /\ since[o] \in 0 .. LongAgo
    BY DEF TypeInv, TypeOK
  <2> QED
    BY <2>1, <2>2, Times
<1> QED
  BY <1>1, TypesHold, FeedInitially, FeedStep, PTL DEF Spec
=============================================================================
