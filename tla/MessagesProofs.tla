--------------------------- MODULE MessagesProofs ---------------------------
(***************************************************************************)
(* What private discussions guarantee for any number of users,             *)
(* discussions, messages and concurrent requests.                          *)
(***************************************************************************)
EXTENDS Messages, FiniteSetTheorems, TLAPS

Slot == {Idle} \union Opening \union Sending \union Reading

-----------------------------------------------------------------------------
(* Types *)

\* The position of a request tells which kind of slot it has.
LEMMA SlotKinds ==
    ASSUME NEW q \in Slot
    PROVE  /\ q.pc = "create" => q \in Opening
           /\ q.pc \in {"commit", "broadcast", "notify"} => q \in Sending
           /\ q.pc \in {"reset", "clear"} => q \in Reading
BY DEF Slot, Idle, Opening, Sending, Reading

LEMMA BecomeType ==
    ASSUME request \in [Requests -> Slot], NEW r \in Requests, NEW q \in Slot, Become(r, q)
    PROVE  request' \in [Requests -> Slot] /\ quiet' \in BOOLEAN
BY DEF Become

LEMMA FinishType ==
    ASSUME request \in [Requests -> Slot], NEW r \in Requests, Finish(r)
    PROVE  request' \in [Requests -> Slot] /\ quiet' \in BOOLEAN
BY BecomeType DEF Finish, Slot

LEMMA SendOnType ==
    ASSUME request \in [Requests -> Slot], NEW r \in Requests, request[r] \in Sending,
           NEW pc \in {"broadcast", "notify"}, Goto(r, pc)
    PROVE  request' \in [Requests -> Slot] /\ quiet' \in BOOLEAN
<1>1. [request[r] EXCEPT !.pc = pc] \in Slot
  BY DEF Sending, Slot
<1> QED
  BY <1>1, BecomeType DEF Goto

LEMMA ReadOnType ==
    ASSUME request \in [Requests -> Slot], NEW r \in Requests, request[r] \in Reading,
           Goto(r, "clear")
    PROVE  request' \in [Requests -> Slot] /\ quiet' \in BOOLEAN
<1>1. [request[r] EXCEPT !.pc = "clear"] \in Slot
  BY DEF Reading, Slot
<1> QED
  BY <1>1, BecomeType DEF Goto

LEMMA IncomingFinite ==
    ASSUME NEW p
    PROVE  IsFiniteSet(Incoming(p)) /\ Cardinality(Incoming(p)) \in Nat
<1>1. Incoming(p) \subseteq ClientIds
  BY DEF Incoming
<1> QED
  BY <1>1, FiniteAssumption, FS_Subset, FS_CardinalityType

\* A cursor leaves out some of the incoming messages.
LEMMA NewerBounded ==
    ASSUME NEW p, NEW cursor
    PROVE  Cardinality(Newer(p, cursor)) \in Nat
           /\ Cardinality(Newer(p, cursor)) <= Cardinality(Incoming(p))
<1>1. Newer(p, cursor) \subseteq Incoming(p)
  BY DEF Newer
<1> QED
  BY <1>1, IncomingFinite, FS_Subset, FS_CardinalityType

LEMMA InitType == Init => TypeOK
<1> SUFFICES ASSUME Init PROVE TypeOK
  OBVIOUS
<1>1. recount \in [pc : {"idle", "counting"}, cursor : [Participants -> 0 .. MaxTime],
                   todo : SUBSET Participants, counted : [Participants -> Nat \union {-1}]]
  BY TimeAssumption DEF Init, Resting
<1>2. request \in [Requests -> {Idle} \union Opening \union Sending \union Reading]
  BY DEF Init
<1>3. quiet \in BOOLEAN
  BY DEF Init
<1> QED
  BY <1>1, <1>2, <1>3, TimeAssumption DEF Init, TypeOK, Times

\* The type of every table, slot and history variable is kept by every step.
LEMMA StepType ==
    ASSUME TypeOK, [Next]_vars
    PROVE  TypeOK'
<1> USE TimeAssumption, OriginAssumption DEF Times
<1>1. request \in [Requests -> Slot]
  BY DEF TypeOK, Slot
<1> USE DEF TypeOK, tables
<1>2. ASSUME NEW r \in Requests, NEW u \in Users, NEW v \in Users, FindDiscussion(r, u, v)
      PROVE  TypeOK'
  <2>1. [pc |-> "create", pair |-> {u, v}] \in Slot
    BY DEF Slot, Opening, Pairs
  <2> QED
    BY <1>1, <1>2, <2>1, BecomeType DEF FindDiscussion, Slot
<1>3. ASSUME NEW r \in Requests, NEW d \in Discussions, CreateDiscussion(r, d)
      PROVE  TypeOK'
  <2>1. request[r].pair \subseteq Users
    BY <1>1, <1>3, SlotKinds DEF CreateDiscussion, Opening, Pairs
  <2> QED
    BY <1>1, <1>3, <2>1, FinishType DEF CreateDiscussion, Slot
<1>4. ASSUME NEW r \in Requests, NEW id \in ClientIds, BeginSend(r, id)
      PROVE  TypeOK'
  <2>1. [pc |-> "commit", id |-> id, at |-> now] \in Slot
    BY DEF Slot, Sending
  <2> QED
    BY <1>1, <1>4, <2>1, BecomeType DEF BeginSend, Slot
<1>5. ASSUME NEW r \in Requests, CommitMessage(r)
      PROVE  TypeOK'
  <2>1. request[r] \in Sending
    BY <1>1, <1>5, SlotKinds DEF CommitMessage
  <2>2. createdAt' \in [ClientIds -> 0 .. MaxTime] /\ unread' \in [Participants -> Nat]
    BY <1>5, <2>1 DEF CommitMessage, Sending
  <2>3. request' \in [Requests -> Slot] /\ quiet' \in BOOLEAN
    BY <1>1, <1>5, <2>1, SendOnType, FinishType DEF CommitMessage
  <2> QED
    BY <1>5, <2>2, <2>3 DEF CommitMessage, Slot
<1>6. ASSUME NEW r \in Requests, Broadcast(r)
      PROVE  TypeOK'
  <2>1. request[r] \in Sending
    BY <1>1, <1>6, SlotKinds DEF Broadcast
  <2> QED
    BY <1>1, <1>6, <2>1, SendOnType DEF Broadcast, Sending, Slot
<1>7. ASSUME NEW r \in Requests, NotifyRecipient(r)
      PROVE  TypeOK'
  BY <1>1, <1>7, FinishType DEF NotifyRecipient, Recipients, Slot
<1>8. ASSUME NEW r \in Requests, NEW p \in Participants, BeginRead(r, p)
      PROVE  TypeOK'
  <2>1. [pc |-> "reset", p |-> p, at |-> now] \in Slot
    BY DEF Slot, Reading
  <2> QED
    BY <1>1, <1>8, <2>1, BecomeType DEF BeginRead, Slot
<1>9. ASSUME NEW r \in Requests, ResetUnread(r)
      PROVE  TypeOK'
  <2>1. request[r] \in Reading
    BY <1>1, <1>9, SlotKinds DEF ResetUnread
  <2> QED
    BY <1>1, <1>9, <2>1, ReadOnType DEF ResetUnread, Reading, Slot
<1>10. ASSUME NEW r \in Requests, ClearBell(r)
       PROVE  TypeOK'
  BY <1>1, <1>10, FinishType DEF ClearBell, Slot
<1>11. ASSUME NEW r \in Requests, Abort(r)
       PROVE  TypeOK'
  BY <1>1, <1>11, FinishType DEF Abort, Slot
<1>12. CASE RecountRead
  <2>1. quiet' \in BOOLEAN
    BY <1>12 DEF RecountRead
  <2> QED
    BY <1>12, <2>1 DEF RecountRead
<1>13. ASSUME NEW p \in Participants, RecountCount(p)
       PROVE  TypeOK'
  BY <1>13, NewerBounded DEF RecountCount
<1>14. ASSUME NEW p \in Participants, RecountWrite(p)
       PROVE  TypeOK'
  <2>1. recount.counted[p] \in Nat
    BY <1>14 DEF RecountWrite, Counted
  <2> QED
    BY <1>14, <2>1 DEF RecountWrite
<1>15. CASE RecountEnd
  <2>1. quiet' \in BOOLEAN
    BY <1>15 DEF RecountEnd
  <2> QED
    BY <1>15, <2>1 DEF RecountEnd, Resting
<1>16. CASE Tick
  <2>1. quiet' \in BOOLEAN
    BY <1>16 DEF Tick
  <2> QED
    BY <1>16, <2>1 DEF Tick
<1>17. CASE UNCHANGED vars
  <2>1. quiet' \in BOOLEAN
    BY <1>17 DEF vars
  <2> QED
    BY <1>17, <2>1 DEF vars
<1> QED
  BY <1>2, <1>3, <1>4, <1>5, <1>6, <1>7, <1>8, <1>9, <1>10, <1>11, <1>12, <1>13, <1>14, <1>15,
     <1>16, <1>17 DEF Next, Open, Send, Read, Recount, Slot

\* In every interleaving of requests, of the recount and of the clock the tables, the
\* slots and the job keep their types.
THEOREM TypeCorrect == Spec => []TypeOK
BY InitType, StepType, PTL DEF Spec

-----------------------------------------------------------------------------
(* The badge *)

\* Stored messages are neither changed nor removed.
LEMMA StoredStays ==
    ASSUME TypeOK, [Next]_vars, NEW id \in ClientIds, Stored(id)
    PROVE  createdAt'[id] = createdAt[id]
<1>1. ASSUME NEW r \in Requests, CommitMessage(r)
      PROVE  createdAt'[id] = createdAt[id]
  BY <1>1 DEF CommitMessage, Insertable, Stored, TypeOK
<1> QED
  BY <1>1 DEF Next, Open, FindDiscussion, CreateDiscussion, Send, BeginSend, Broadcast,
     NotifyRecipient, Read, BeginRead, ResetUnread, ClearBell, Abort, Recount, RecountRead,
     RecountCount, RecountWrite, RecountEnd, Tick, vars, tables

\* So what there is to read only grows.
LEMMA IncomingGrows ==
    ASSUME TypeOK, [Next]_vars, NEW p
    PROVE  /\ Incoming(p) \subseteq Incoming(p)'
           /\ Cardinality(Incoming(p)) <= Cardinality(Incoming(p)')
<1>1. Incoming(p) \subseteq Incoming(p)'
  BY StoredStays DEF Incoming, Stored
<1>2. Incoming(p)' \subseteq ClientIds
  BY DEF Incoming
<1>3. IsFiniteSet(Incoming(p)')
  BY <1>2, FiniteAssumption, FS_Subset
<1> QED
  BY <1>1, <1>3, FS_Subset

\* The message a send commits is new for each of its recipients.
LEMMA CommitAdds ==
    ASSUME TypeOK, [Next]_vars, NEW r \in Requests, CommitMessage(r), Insertable(request[r].id),
           NEW p \in Recipients(request[r].id)
    PROVE  Cardinality(Incoming(p)') >= Cardinality(Incoming(p)) + 1
<1> DEFINE id == request[r].id
<1>1. request[r] \in Sending
  BY SlotKinds DEF CommitMessage, TypeOK, Slot
<1>2. id \in ClientIds /\ createdAt'[id] > 0
  BY <1>1 DEF CommitMessage, Insertable, Stored, TypeOK, Sending, Times
<1>3. id \notin Incoming(p) /\ id \in Incoming(p)'
  BY <1>2 DEF Incoming, Recipients, Insertable, Stored
<1>4. Incoming(p) \union {id} \subseteq Incoming(p)'
  BY <1>3, IncomingGrows
<1>5. IsFiniteSet(Incoming(p)) /\ Cardinality(Incoming(p)) \in Nat
  BY IncomingFinite
<1>6. Cardinality(Incoming(p) \union {id}) = Cardinality(Incoming(p)) + 1
  BY <1>3, <1>5, FS_AddElement
<1>7. Incoming(p)' \subseteq ClientIds
  BY DEF Incoming
<1>8. IsFiniteSet(Incoming(p)')
  BY <1>7, FiniteAssumption, FS_Subset
<1> QED
  BY <1>4, <1>5, <1>6, <1>8, FS_Subset, FS_CardinalityType

\* What the recount has counted and not yet written is bounded as well.
CountsBacked ==
    \A p \in Participants : recount.counted[p] <= Cardinality(Incoming(p))

BadgeInv == UnreadIsBacked /\ CountsBacked

LEMMA BadgeInit == Init => BadgeInv
<1> SUFFICES ASSUME Init, NEW p \in Participants
             PROVE  unread[p] <= Cardinality(Incoming(p))
                    /\ recount.counted[p] <= Cardinality(Incoming(p))
  BY DEF BadgeInv, UnreadIsBacked, CountsBacked
<1> QED
  BY IncomingFinite DEF Init, Resting

LEMMA BadgeStep ==
    ASSUME TypeOK, BadgeInv, [Next]_vars
    PROVE  BadgeInv'
<1> SUFFICES ASSUME NEW p \in Participants
             PROVE  unread'[p] <= Cardinality(Incoming(p)')
                    /\ recount'.counted[p] <= Cardinality(Incoming(p)')
  BY DEF BadgeInv, UnreadIsBacked, CountsBacked
<1> DEFINE before == Cardinality(Incoming(p))
           after == Cardinality(Incoming(p)')
<1>1. before \in Nat /\ after \in Nat /\ before <= after
  <2>1. Incoming(p)' \subseteq ClientIds
    BY DEF Incoming
  <2>2. after \in Nat
    BY <2>1, FiniteAssumption, FS_Subset, FS_CardinalityType
  <2> QED
    BY <2>2, IncomingFinite, IncomingGrows
<1>2. /\ unread[p] \in Nat /\ unread[p] <= before
      /\ recount.counted[p] \in Nat \union {-1} /\ recount.counted[p] <= before
  BY DEF BadgeInv, UnreadIsBacked, CountsBacked, TypeOK
<1>3. CASE unread'[p] = unread[p] /\ recount'.counted[p] = recount.counted[p]
  BY <1>1, <1>2, <1>3
<1>4. ASSUME NEW r \in Requests, CommitMessage(r)
      PROVE  unread'[p] <= after /\ recount'.counted[p] <= after
  <2>1. CASE Insertable(request[r].id) /\ p \in Recipients(request[r].id)
    <3>1. unread'[p] = unread[p] + 1 /\ recount' = recount
      BY <1>4, <2>1 DEF CommitMessage
    <3>2. after >= before + 1
      BY <1>4, <2>1, CommitAdds
    <3> QED
      BY <1>1, <1>2, <3>1, <3>2
  <2>2. CASE ~(Insertable(request[r].id) /\ p \in Recipients(request[r].id))
    BY <1>3, <1>4, <2>2 DEF CommitMessage, TypeOK
  <2> QED
    BY <2>1, <2>2
<1>5. ASSUME NEW r \in Requests, ResetUnread(r)
      PROVE  unread'[p] <= after /\ recount'.counted[p] <= after
  <2>1. unread'[p] \in {0, unread[p]} /\ recount' = recount
    BY <1>5 DEF ResetUnread, TypeOK
  <2> QED
    BY <1>1, <1>2, <2>1
<1>6. ASSUME NEW q \in Participants, RecountCount(q)
      PROVE  unread'[p] <= after /\ recount'.counted[p] <= after
  <2>1. /\ unread' = unread
        /\ recount'.counted[p] \in {recount.counted[p], Cardinality(Newer(p, recount.cursor[p]))}
    BY <1>6 DEF RecountCount, TypeOK, tables
  <2> QED
    BY <1>1, <1>2, <2>1, NewerBounded
<1>7. ASSUME NEW q \in Participants, RecountWrite(q)
      PROVE  unread'[p] <= after /\ recount'.counted[p] <= after
  <2>1. unread'[p] \in {unread[p], recount.counted[p]} /\ recount'.counted = recount.counted
    BY <1>7 DEF RecountWrite, TypeOK
  <2> QED
    BY <1>1, <1>2, <2>1
<1>8. CASE RecountRead \/ RecountEnd
  <2>1. unread' = unread
    BY <1>8 DEF RecountRead, RecountEnd, tables
  <2>2. recount'.counted = [q \in Participants |-> -1]
    <3>1. CASE RecountRead
      BY <3>1 DEF RecountRead
    <3>2. CASE RecountEnd
      BY <3>2 DEF RecountEnd, Resting
    <3> QED
      BY <1>8, <3>1, <3>2
  <2> QED
    BY <1>1, <1>2, <2>1, <2>2
<1>9. ASSUME NEW r \in Requests, Open(r) \/ Send(r) \/ Read(r) \/ Abort(r)
      PROVE  unread'[p] <= after /\ recount'.counted[p] <= after
  <2>1. CommitMessage(r) \/ ResetUnread(r) \/ (unread' = unread /\ recount' = recount)
    BY <1>9 DEF Open, FindDiscussion, CreateDiscussion, Send, BeginSend, Broadcast,
       NotifyRecipient, Read, BeginRead, ClearBell, Abort, tables
  <2> QED
    BY <1>3, <1>4, <1>5, <2>1
<1>10. CASE Tick \/ UNCHANGED vars
  BY <1>3, <1>10 DEF Tick, vars, tables
<1> QED
  BY <1>6, <1>7, <1>8, <1>9, <1>10 DEF Next, Recount

\* For any number of users, retries, concurrent mark-as-read calls and recounts, the badge
\* never shows more than there is to read.
THEOREM BadgeCorrect == Spec => []UnreadIsBacked
<1>1. BadgeInv => UnreadIsBacked
  BY DEF BadgeInv
<1> QED
  BY <1>1, TypeCorrect, BadgeInit, BadgeStep, PTL DEF Spec

-----------------------------------------------------------------------------
(* What is told *)

\* A send on its way to the broadcast has stored its message, which nobody has broadcast
\* yet, and is alone there; one on its way to the bell has stored its message.
Committed ==
    /\ \A r \in Requests :
          /\ request[r].pc \in {"broadcast", "notify"} => Stored(request[r].id)
          /\ request[r].pc = "broadcast" => broadcast[request[r].id] = 0
    /\ \A r, q \in Requests :
          request[r].pc = "broadcast" /\ request[q].pc = "broadcast"
          /\ request[r].id = request[q].id => r = q

ToldInv == ToldOnceAndStored /\ Committed

LEMMA ToldInit == Init => ToldInv
BY DEF Init, ToldInv, ToldOnceAndStored, Committed, Stored, Idle

LEMMA ToldStep ==
    ASSUME TypeOK, ToldInv, [Next]_vars
    PROVE  ToldInv'
<1>1. \A id \in ClientIds : Stored(id) => Stored(id)'
  BY StoredStays DEF Stored
<1>2. \A p \in Participants : Incoming(p) # {} => Incoming(p)' # {}
  BY IncomingGrows
<1>3. \A r \in Requests : request[r].pc \in {"commit", "broadcast", "notify"}
                            => request[r] \in Sending
  BY SlotKinds DEF TypeOK, Slot
<1>4. ASSUME UNCHANGED <<broadcast, bell>>,
             \A r \in Requests : \/ request'[r] = request[r]
                                 \/ request'[r].pc \notin {"broadcast", "notify"}
      PROVE  ToldInv'
  <2>1. ToldOnceAndStored'
    BY <1>1, <1>2, <1>4 DEF ToldInv, ToldOnceAndStored, TypeOK
  <2>2. Committed'
    BY <1>1, <1>3, <1>4 DEF ToldInv, Committed, Sending
  <2> QED
    BY <2>1, <2>2 DEF ToldInv
<1>5. ASSUME NEW r \in Requests, CommitMessage(r)
      PROVE  ToldInv'
  <2>1. request[r] \in Sending /\ request[r].at > 0
    BY <1>3, <1>5 DEF CommitMessage, Sending, Times
  <2>2. CASE ~Insertable(request[r].id)
    BY <1>4, <1>5, <2>2 DEF CommitMessage, Finish, Become, Idle, TypeOK
  <2>3. CASE Insertable(request[r].id)
    <3> DEFINE id == request[r].id
    <3>1. /\ createdAt' = [createdAt EXCEPT ![id] = request[r].at]
          /\ request' = [request EXCEPT ![r] = [request[r] EXCEPT !.pc = "broadcast"]]
          /\ UNCHANGED <<broadcast, bell>>
      BY <1>5, <2>3 DEF CommitMessage, Goto, Become
    <3>2. Stored(id)' /\ broadcast[id] = 0 /\ id \in ClientIds
      BY <2>1, <2>3, <3>1 DEF Insertable, Stored, Sending, TypeOK, ToldInv, ToldOnceAndStored
    <3>3. ToldOnceAndStored'
      BY <1>1, <1>2, <3>1 DEF ToldInv, ToldOnceAndStored, TypeOK
    <3>4. \A q \in Requests : request[q].pc = "broadcast" => request[q].id # id
      BY <2>3 DEF Insertable, ToldInv, Committed
    <3>5. request'[r].pc = "broadcast" /\ request'[r].id = id
      BY <2>1, <3>1 DEF Sending, TypeOK
    <3>6. \A q \in Requests \ {r} : request'[q] = request[q]
      BY <3>1 DEF TypeOK
    <3>7. Committed'
      BY <1>1, <1>3, <3>1, <3>2, <3>4, <3>5, <3>6 DEF ToldInv, Committed, Sending
    <3> QED
      BY <3>3, <3>7 DEF ToldInv
  <2> QED
    BY <2>2, <2>3
<1>6. ASSUME NEW r \in Requests, Broadcast(r)
      PROVE  ToldInv'
  <2> DEFINE id == request[r].id
  <2>1. /\ request[r].pc = "broadcast"
        /\ broadcast' = [broadcast EXCEPT ![id] = @ + 1]
        /\ request' = [request EXCEPT ![r] = [request[r] EXCEPT !.pc = "notify"]]
        /\ UNCHANGED <<bell, createdAt>>
    BY <1>6 DEF Broadcast, Goto, Become, tables
  <2>2. request[r] \in Sending /\ id \in ClientIds /\ Stored(id) /\ broadcast[id] = 0
    BY <1>3, <2>1 DEF ToldInv, Committed, Sending
  <2>3. ToldOnceAndStored'
    BY <1>2, <2>1, <2>2 DEF ToldInv, ToldOnceAndStored, Stored, TypeOK
  <2>4. request'[r].pc = "notify" /\ request'[r].id = id
    BY <2>1, <2>2 DEF Sending, TypeOK
  <2>5. \A q \in Requests \ {r} : request'[q] = request[q]
    BY <2>1 DEF TypeOK
  <2>6. \A q \in Requests \ {r} : request[q].pc = "broadcast" => request[q].id # id
    BY <2>1 DEF ToldInv, Committed
  <2>7. Committed'
    BY <1>1, <1>3, <2>1, <2>2, <2>4, <2>5, <2>6 DEF ToldInv, Committed, Sending, TypeOK
  <2> QED
    BY <2>3, <2>7 DEF ToldInv
<1>7. ASSUME NEW r \in Requests, NotifyRecipient(r)
      PROVE  ToldInv'
  <2>1. request[r] \in Sending /\ Stored(request[r].id)
    BY <1>3, <1>7 DEF NotifyRecipient, ToldInv, Committed
  <2>2. \A p \in Recipients(request[r].id) : request[r].id \in Incoming(p)
    BY <2>1 DEF Recipients, Incoming, Sending
  <2>3. ToldOnceAndStored'
    BY <1>1, <1>2, <1>7, <2>2 DEF NotifyRecipient, ToldInv, ToldOnceAndStored, TypeOK, Recipients
  <2>4. \A q \in Requests : request'[q] = request[q] \/ request'[q] = Idle
    BY <1>7 DEF NotifyRecipient, Finish, Become, TypeOK
  <2>5. Committed'
    BY <1>1, <1>3, <1>7, <2>4 DEF NotifyRecipient, ToldInv, Committed, Sending, Idle
  <2> QED
    BY <2>3, <2>5 DEF ToldInv
<1>8. ASSUME NEW r \in Requests, ClearBell(r)
      PROVE  ToldInv'
  <2>1. \A q \in Requests : request'[q] = request[q] \/ request'[q] = Idle
    BY <1>8 DEF ClearBell, Finish, Become, TypeOK
  <2>2. ToldOnceAndStored'
    BY <1>1, <1>2, <1>8 DEF ClearBell, ToldInv, ToldOnceAndStored, TypeOK
  <2>3. Committed'
    BY <1>1, <1>3, <1>8, <2>1 DEF ClearBell, ToldInv, Committed, Sending, Idle
  <2> QED
    BY <2>2, <2>3 DEF ToldInv
<1>9. ASSUME NEW r \in Requests, Open(r) \/ Send(r) \/ Read(r) \/ Abort(r),
             ~CommitMessage(r), ~Broadcast(r), ~NotifyRecipient(r), ~ClearBell(r)
      PROVE  ToldInv'
  <2>1. UNCHANGED <<broadcast, bell>>
    BY <1>9 DEF Open, FindDiscussion, CreateDiscussion, Send, BeginSend, Read, BeginRead,
       ResetUnread, Abort, tables
  <2>2. /\ \A q \in Requests \ {r} : request'[q] = request[q]
        /\ request'[r].pc \notin {"broadcast", "notify"}
    <3>1. CASE ResetUnread(r)
      <4>1. request[r] \in Reading
        BY <3>1, SlotKinds DEF ResetUnread, TypeOK, Slot
      <4> QED
        BY <3>1, <4>1 DEF ResetUnread, Goto, Become, Reading, TypeOK
    <3>2. ASSUME NEW q, Become(r, q), q.pc \in {"create", "commit", "reset"}
          PROVE  /\ \A i \in Requests \ {r} : request'[i] = request[i]
                 /\ request'[r].pc \notin {"broadcast", "notify"}
      BY <3>2 DEF Become, TypeOK
    <3>4. CASE \E u, v \in Users : FindDiscussion(r, u, v)
      BY <3>2, <3>4 DEF FindDiscussion
    <3>5. CASE \E id \in ClientIds : BeginSend(r, id)
      BY <3>2, <3>5 DEF BeginSend
    <3>6. CASE \E p \in Participants : BeginRead(r, p)
      BY <3>2, <3>6 DEF BeginRead
    <3>3. CASE Abort(r) \/ \E d \in Discussions : CreateDiscussion(r, d)
      BY <3>3 DEF CreateDiscussion, Abort, Finish, Become, Idle, TypeOK
    <3> QED
      BY <1>9, <3>1, <3>3, <3>4, <3>5, <3>6 DEF Open, Send, Read
  <2> QED
    BY <1>4, <2>1, <2>2
<1>10. CASE Recount \/ Tick \/ UNCHANGED vars
  BY <1>4, <1>10 DEF Recount, RecountRead, RecountCount, RecountWrite, RecountEnd, Tick, vars,
     tables
<1> QED
  BY <1>5, <1>6, <1>7, <1>8, <1>9, <1>10 DEF Next

\* For any number of retries and concurrent requests, no message is broadcast twice, and
\* neither the room nor the bell is told of a message that is not stored.
THEOREM ToldCorrect == Spec => []ToldOnceAndStored
<1>1. ToldInv => ToldOnceAndStored
  BY DEF ToldInv
<1> QED
  BY <1>1, TypeCorrect, ToldInit, ToldStep, PTL DEF Spec

-----------------------------------------------------------------------------
(* The inbox *)

LEMMA InboxInit == Init => Promise!Init
BY DEF Init, Promise!Init, Log, Stored

\* An instance has its own copy of what it extends.
LEMMA SameCardinality ==
    ASSUME NEW S
    PROVE  Promise!Cardinality(S) = Cardinality(S)
BY DEF Promise!Cardinality, Cardinality

LEMMA BacklogIsIncoming ==
    ASSUME NEW p \in Participants
    PROVE  Promise!Backlog(p) = Incoming(p)
BY DEF Promise!Backlog, Addressees, Log, Incoming

LEMMA RecipientsAddressed ==
    ASSUME NEW id \in ClientIds
    PROVE  Recipients(id) \subseteq Addressees[id]
BY DEF Recipients, Addressees

\* The insert is the step at which the message enters the log.
LEMMA CommitSends ==
    ASSUME TypeOK, NEW r \in Requests, CommitMessage(r)
    PROVE  [Promise!Next]_(Promise!vars)
<1> DEFINE id == request[r].id
<1>1. request[r] \in Sending
  BY SlotKinds DEF CommitMessage, TypeOK, Slot
<1>2. id \in ClientIds /\ request[r].at > 0
  BY <1>1 DEF Sending, Times
<1>3. CASE Insertable(id)
  <2>1. /\ createdAt' = [createdAt EXCEPT ![id] = request[r].at]
        /\ unread' = [p \in Participants |->
                         IF p \in Recipients(id) THEN unread[p] + 1 ELSE unread[p]]
        /\ UNCHANGED <<broadcast, bell>>
    BY <1>3 DEF CommitMessage
  <2>2. id \notin Log /\ Log' = Log \union {id}
    BY <1>2, <1>3, <2>1 DEF Log, Stored, Insertable, TypeOK
  <2>3. Promise!Send(id)
    BY <1>2, <2>1, <2>2, RecipientsAddressed DEF Promise!Send
  <2> QED
    BY <1>2, <2>3 DEF Promise!Next
<1>4. CASE ~Insertable(id)
  BY <1>4 DEF CommitMessage, Promise!vars, Log, Stored
<1> QED
  BY <1>3, <1>4

\* A send reaches its broadcast with its message stored and not told.
LEMMA BroadcastTells ==
    ASSUME TypeOK, ToldInv, NEW r \in Requests, Broadcast(r)
    PROVE  [Promise!Next]_(Promise!vars)
<1> DEFINE id == request[r].id
<1>1. request[r] \in Sending
  BY SlotKinds DEF Broadcast, TypeOK, Slot
<1>2. id \in ClientIds /\ id \in Log /\ broadcast[id] = 0
  BY <1>1 DEF Sending, Broadcast, ToldInv, Committed, Log
<1>3. /\ broadcast' = [broadcast EXCEPT ![id] = 1]
      /\ UNCHANGED <<createdAt, unread, bell>>
  BY <1>2 DEF Broadcast, tables, TypeOK
<1>4. Log' = Log
  BY <1>3 DEF Log, Stored
<1>5. Promise!Tell(id)
  BY <1>2, <1>3, <1>4 DEF Promise!Tell
<1> QED
  BY <1>2, <1>5 DEF Promise!Next

LEMMA NotifyRings ==
    ASSUME TypeOK, ToldInv, NEW r \in Requests, NotifyRecipient(r)
    PROVE  [Promise!Next]_(Promise!vars)
<1> DEFINE id == request[r].id
           S == Recipients(id)
<1>1. request[r] \in Sending /\ Stored(id)
  BY SlotKinds DEF NotifyRecipient, TypeOK, Slot, ToldInv, Committed
<1>2. S \subseteq {p \in Participants : Incoming(p) # {}}
  BY <1>1 DEF Recipients, Incoming, Sending
<1>3. S \subseteq {p \in Participants : Promise!Backlog(p) # {}}
  BY <1>2, BacklogIsIncoming
<1>4. UNCHANGED <<createdAt, unread, broadcast>>
  BY DEF NotifyRecipient
<1>5. Log' = Log
  BY <1>4 DEF Log, Stored
<1>6. CASE bell' = bell \union S
  BY <1>3, <1>4, <1>5, <1>6 DEF Promise!Ring, Promise!Next
<1>7. CASE bell' = bell
  BY <1>4, <1>5, <1>7 DEF Promise!vars
<1> QED
  BY <1>6, <1>7 DEF NotifyRecipient

\* Whatever the recount has counted is still there when it is written.
LEMMA BadgeSettles ==
    ASSUME TypeOK, NEW p \in Participants, NEW n \in Nat, n <= Cardinality(Incoming(p)),
           unread' = [unread EXCEPT ![p] = n], UNCHANGED <<createdAt, broadcast, bell>>
    PROVE  [Promise!Next]_(Promise!vars)
<1>1. Log' = Log
  BY DEF Log, Stored
<1>2. n \in 0 .. Promise!Cardinality(Promise!Backlog(p))
  BY BacklogIsIncoming, IncomingFinite, SameCardinality
<1>3. Promise!Settle(p)
  BY <1>1, <1>2 DEF Promise!Settle
<1> QED
  BY <1>3 DEF Promise!Next

LEMMA InboxStep ==
    ASSUME TypeOK, BadgeInv, ToldInv, [Next]_vars
    PROVE  [Promise!Next]_(Promise!vars)
<1>1. CASE UNCHANGED <<createdAt, unread, broadcast, bell>>
  BY <1>1 DEF Promise!vars, Log, Stored
<1>2. ASSUME NEW r \in Requests, ResetUnread(r)
      PROVE  [Promise!Next]_(Promise!vars)
  <2>1. request[r] \in Reading
    BY <1>2, SlotKinds DEF ResetUnread, TypeOK, Slot
  <2>2. request[r].p \in Participants
    BY <2>1 DEF Reading
  <2>3. /\ unread' = [unread EXCEPT ![request[r].p] = 0]
        /\ UNCHANGED <<createdAt, broadcast, bell>>
    BY <1>2 DEF ResetUnread
  <2>4. 0 <= Cardinality(Incoming(request[r].p))
    BY IncomingFinite
  <2> QED
    BY <2>2, <2>3, <2>4, BadgeSettles
<1>3. ASSUME NEW r \in Requests, ClearBell(r)
      PROVE  [Promise!Next]_(Promise!vars)
  <2>1. request[r] \in Reading
    BY <1>3, SlotKinds DEF ClearBell, TypeOK, Slot
  <2>2. request[r].p \in Participants
    BY <2>1 DEF Reading
  <2>3. Log' = Log
    BY <1>3 DEF ClearBell, Log, Stored
  <2>4. Promise!Clear(request[r].p)
    BY <1>3, <2>3 DEF ClearBell, Promise!Clear
  <2> QED
    BY <2>2, <2>4 DEF Promise!Next
<1>4. ASSUME NEW p \in Participants, RecountWrite(p)
      PROVE  [Promise!Next]_(Promise!vars)
  <2>1. recount.counted[p] \in Nat /\ recount.counted[p] <= Cardinality(Incoming(p))
    BY <1>4 DEF RecountWrite, Counted, TypeOK, BadgeInv, CountsBacked
  <2> QED
    BY <1>4, <2>1, BadgeSettles DEF RecountWrite
<1>5. ASSUME NEW r \in Requests, Open(r) \/ Send(r) \/ Read(r) \/ Abort(r)
      PROVE  [Promise!Next]_(Promise!vars)
  <2>1. \/ CommitMessage(r) \/ Broadcast(r) \/ NotifyRecipient(r)
        \/ ResetUnread(r) \/ ClearBell(r)
        \/ UNCHANGED <<createdAt, unread, broadcast, bell>>
    BY <1>5 DEF Open, FindDiscussion, CreateDiscussion, Send, BeginSend, Read, BeginRead, Abort,
       tables
  <2> QED
    BY <1>1, <1>2, <1>3, <2>1, CommitSends, BroadcastTells, NotifyRings
<1>6. CASE Recount \/ Tick \/ UNCHANGED vars
  <2>1. \/ \E p \in Participants : RecountWrite(p)
        \/ UNCHANGED <<createdAt, unread, broadcast, bell>>
    BY <1>6 DEF Recount, RecountRead, RecountCount, RecountEnd, Tick, vars, tables
  <2> QED
    BY <1>1, <1>4, <2>1
<1> QED
  BY <1>5, <1>6 DEF Next

\* For any number of users, messages and concurrent requests, the service implements the inbox:
\* every step of a request or of the recount is a step of the inbox or none.
THEOREM InboxImplemented == Spec => ImplementsInbox
BY TypeCorrect, BadgeInit, BadgeStep, ToldInit, ToldStep, InboxInit, InboxStep, PTL
  DEF Spec, ImplementsInbox, Promise!Spec

-----------------------------------------------------------------------------
(* The recount *)

\* What the job holds while it counts.  As long as no request has taken a step since it read the
\* participants, its cursors and its counts are those of the tables.
RecountInv ==
    /\ recount.pc = "idle" => recount.todo = {}
    /\ recount.pc = "counting" /\ quiet =>
          \A p \in Participants :
             /\ recount.cursor[p] = lastReadAt[p]
             /\ Counted(p) => recount.counted[p] = Cardinality(Newer(p, lastReadAt[p]))

LEMMA RecountInitially == Init => RecountInv
BY DEF Init, Resting, RecountInv

\* Every step of a request ends the quiet.
LEMMA RequestsAreLoud ==
    ASSUME NEW r \in Requests, Open(r) \/ Send(r) \/ Read(r) \/ Abort(r)
    PROVE  quiet' = FALSE /\ UNCHANGED recount
<1>1. CASE Open(r)
  BY <1>1 DEF Open, FindDiscussion, CreateDiscussion, Finish, Become
<1>2. CASE Send(r)
  BY <1>2 DEF Send, BeginSend, CommitMessage, Broadcast, NotifyRecipient, Goto, Finish, Become
<1>3. CASE Read(r)
  BY <1>3 DEF Read, BeginRead, ResetUnread, ClearBell, Goto, Finish, Become
<1>4. CASE Abort(r)
  BY <1>4 DEF Abort, Finish, Become
<1> QED
  BY <1>1, <1>2, <1>3, <1>4

LEMMA RecountStep ==
    ASSUME TypeOK, RecountInv, [Next]_vars
    PROVE  RecountInv'
<1>0. /\ recount.cursor \in [Participants -> 0 .. MaxTime]
      /\ recount.counted \in [Participants -> Nat \union {-1}]
      /\ recount \in [pc : {"idle", "counting"}, cursor : [Participants -> 0 .. MaxTime],
                     todo : SUBSET Participants, counted : [Participants -> Nat \union {-1}]]
  BY DEF TypeOK
<1>1. ASSUME NEW r \in Requests, Open(r) \/ Send(r) \/ Read(r) \/ Abort(r) PROVE RecountInv'
  BY <1>1, RequestsAreLoud DEF RecountInv
<1>2. ASSUME UNCHANGED <<createdAt, lastReadAt>>
      PROVE  \A p \in Participants :
                Newer(p, lastReadAt[p])' = Newer(p, lastReadAt[p])
  BY <1>2 DEF Newer, Incoming, Stored
<1>3. ASSUME UNCHANGED <<createdAt, lastReadAt, recount, quiet>> PROVE RecountInv'
  BY <1>2, <1>3 DEF RecountInv, Counted
<1>4. CASE RecountRead
  <2>1. recount' = [pc |-> "counting", cursor |-> lastReadAt,
                    todo |-> {p \in Participants : p[2] \in members[p[1]]},
                    counted |-> [p \in Participants |-> -1]]
    BY <1>4 DEF RecountRead
  <2>2. UNCHANGED lastReadAt
    BY <1>4 DEF RecountRead, tables
  <2>3. \A p \in Participants : ~Counted(p)' /\ recount'.cursor[p] = lastReadAt'[p]
    BY <2>1, <2>2 DEF Counted
  <2> QED
    BY <2>1, <2>3 DEF RecountInv
<1>5. ASSUME NEW p \in Participants, RecountCount(p) PROVE RecountInv'
  <2>1. /\ p \in recount.todo
        /\ recount' = [recount EXCEPT !.counted[p] = Cardinality(Newer(p, recount.cursor[p]))]
        /\ UNCHANGED <<createdAt, lastReadAt, quiet>>
    BY <1>5 DEF RecountCount, tables
  <2>2. /\ recount'.pc = recount.pc /\ recount'.cursor = recount.cursor
        /\ recount'.counted[p] = Cardinality(Newer(p, recount.cursor[p]))
        /\ \A q \in Participants \ {p} : recount'.counted[q] = recount.counted[q]
    BY <1>0, <2>1
  <2>3. \A q \in Participants : Newer(q, lastReadAt[q])' = Newer(q, lastReadAt[q])
    BY <1>2, <2>1
  <2>4. recount.pc # "idle"
    BY <2>1 DEF RecountInv
  <2> QED
    BY <2>1, <2>2, <2>3, <2>4 DEF RecountInv, Counted
<1>6. ASSUME NEW p \in Participants, RecountWrite(p) PROVE RecountInv'
  <2>1. /\ p \in recount.todo /\ recount' = [recount EXCEPT !.todo = @ \ {p}]
        /\ UNCHANGED <<createdAt, lastReadAt, quiet>>
    BY <1>6 DEF RecountWrite
  <2>2. /\ recount'.pc = recount.pc /\ recount'.cursor = recount.cursor
        /\ recount'.counted = recount.counted
    BY <1>0, <2>1
  <2>3. \A q \in Participants : Newer(q, lastReadAt[q])' = Newer(q, lastReadAt[q])
    BY <1>2, <2>1
  <2>4. recount.pc # "idle"
    BY <2>1 DEF RecountInv
  <2> QED
    BY <2>1, <2>2, <2>3, <2>4 DEF RecountInv, Counted
<1>7. CASE RecountEnd
  <2>1. recount'.pc = "idle" /\ recount'.todo = {}
    BY <1>7 DEF RecountEnd, Resting
  <2> QED
    BY <2>1 DEF RecountInv
<1>8. CASE Tick \/ UNCHANGED vars
  BY <1>3, <1>8 DEF Tick, vars, tables
<1> QED
  BY <1>1, <1>4, <1>5, <1>6, <1>7, <1>8 DEF Next, Recount

\* What the job writes while no request takes a step is what there is to read.
LEMMA QuietWriteExact ==
    ASSUME TypeOK, RecountInv, [Next]_vars, NEW p \in Participants,
           p \in recount.todo, recount'.pc = "counting", p \notin recount'.todo, quiet
    PROVE  unread'[p] = Cardinality({id \in Incoming(p) : createdAt[id] > lastReadAt[p]})
<1>1. recount.pc = "counting"
  BY DEF RecountInv, TypeOK
<1>2. PICK q \in Participants : RecountWrite(q)
  <2>1. recount' # recount
    OBVIOUS
  <2>2. \A r \in Requests : ~(Open(r) \/ Send(r) \/ Read(r) \/ Abort(r))
    BY <2>1, RequestsAreLoud
  <2>3. ~RecountRead /\ ~RecountEnd
    <3>1. Resting.pc = "idle"
      BY DEF Resting
    <3> QED
      BY <1>1, <3>1 DEF RecountRead, RecountEnd
  <2>4. ASSUME NEW q \in Participants, RecountCount(q) PROVE FALSE
    <3>1. recount' = [recount EXCEPT !.counted[q] = Cardinality(Newer(q, recount.cursor[q]))]
      BY <2>4 DEF RecountCount
    <3>2. recount'.todo = recount.todo
      BY <3>1 DEF TypeOK
    <3> QED
      BY <3>2
  <2>5. ~Tick /\ ~UNCHANGED vars
    BY <2>1 DEF Tick, vars
  <2> QED
    BY <2>2, <2>3, <2>4, <2>5 DEF Next, Recount
<1>3. q = p
  BY <1>2 DEF RecountWrite, TypeOK
<1>4. Counted(p) /\ unread'[p] = recount.counted[p]
  BY <1>2, <1>3 DEF RecountWrite, TypeOK
<1>5. recount.counted[p] = Cardinality(Newer(p, lastReadAt[p]))
  BY <1>1, <1>4 DEF RecountInv
<1> QED
  BY <1>4, <1>5 DEF Newer

\* For any number of users, discussions and messages: a recount of unread messages that no request
\* overlaps leaves each participant with the messages newer than the last mark-as-read.
THEOREM RecountExact == Spec => RecountUnreadIsExact
<1> DEFINE Exact ==
              \A p \in Participants :
                 p \in recount.todo /\ recount'.pc = "counting" /\ p \notin recount'.todo /\ quiet
                    => unread'[p] = Cardinality({id \in Incoming(p) : createdAt[id] > lastReadAt[p]})
<1>1. TypeOK /\ RecountInv /\ [Next]_vars => RecountInv'
  BY RecountStep
<1>2. TypeOK /\ RecountInv /\ [Next]_vars => [Exact]_vars
  BY QuietWriteExact
<1> QED
  BY <1>1, <1>2, RecountInitially, TypeCorrect, PTL DEF Spec, RecountUnreadIsExact
=============================================================================
