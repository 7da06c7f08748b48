------------------------- MODULE ApplicationsProofs -------------------------
(***************************************************************************)
(* What the application workflow guarantees for any number of              *)
(* opportunities, candidates, codes and concurrent requests: the rows and  *)
(* their transitions, then the denormalised counters, which are accounted  *)
(* for in every interleaving (applicationsCount against the table,         *)
(* usesCount against the submissions committed), and the nightly recount.  *)
(***************************************************************************)
EXTENDS ApplicationsRecount, FiniteSetTheorems, TLAPS

Slots == [Requests -> Running \union {Idle}]

-----------------------------------------------------------------------------
(* The request slots *)

\* A slot that is not idle holds a complete request.
LEMMA BusySlot ==
    ASSUME request \in Slots, NEW r \in Requests, request[r].pc # "idle"
    PROVE  request[r] \in Running
BY DEF Slots, Idle

LEMMA StartedType ==
    ASSUME NEW op \in Operations, NEW pc \in {"lookup", "commit", "referral"},
           NEW k \in Keys, NEW c \in Codes \union {NoCode}
    PROVE  Started(op, pc, k, c) \in Running
BY DEF Started, Running, Stages

LEMMA BecomeType ==
    ASSUME request \in Slots, NEW r \in Requests, NEW q \in Running \union {Idle}, Become(r, q)
    PROVE  request' \in Slots
BY DEF Become, Slots

LEMMA FinishType ==
    ASSUME request \in Slots, NEW r \in Requests, Finish(r)
    PROVE  request' \in Slots
BY BecomeType DEF Finish

LEMMA GotoType ==
    ASSUME request \in Slots, NEW r \in Requests, request[r] \in Running,
           NEW pc \in {"insert", "restore", "commit"}, Goto(r, pc)
    PROVE  request' \in Slots
<1>1. [request[r] EXCEPT !.pc = pc] \in Running
  BY DEF Running
<1> QED
  BY <1>1, BecomeType DEF Goto

LEMMA AfterwardsType ==
    ASSUME request \in Slots, NEW r \in Requests, request[r] \in Running,
           NEW todo \in SUBSET {"count", "notify"}, Afterwards(r, todo)
    PROVE  request' \in Slots
<1>1. [request[r] EXCEPT !.pc = "after", !.todo = todo] \in Running
  BY DEF Running
<1>2. CASE todo = {}
  BY <1>2, FinishType DEF Afterwards
<1>3. CASE todo # {}
  BY <1>1, <1>3, BecomeType DEF Afterwards
<1> QED
  BY <1>2, <1>3

-----------------------------------------------------------------------------
(* Types *)

LEMMA KeyParts ==
    ASSUME NEW k \in Keys
    PROVE  k[1] \in Opportunities
BY DEF Keys

LEMMA FreshType ==
    ASSUME NEW k \in Keys, NEW c \in Codes \union {NoCode}
    PROVE  Fresh(k, c) \in Row
BY DEF Fresh, Row, Stages

LEMMA ReviewedType ==
    ASSUME NEW a \in Row, NEW target \in Stages
    PROVE  Reviewed(a, target) \in Row
<1> DEFINE closed == target \in {"SUCCESS", "ARCHIVED"}
<1>1. closed \in BOOLEAN
  OBVIOUS
<1>2. Reviewed(a, target) = [a EXCEPT !.stage = target, !.isClosed = closed]
  BY DEF Reviewed
<1> HIDE DEF closed
<1> QED
  BY <1>1, <1>2 DEF Row

LEMMA InitType == Init => TypeOK
<1> SUFFICES ASSUME Init PROVE TypeOK
  OBVIOUS
<1>1. NoRow \in Row
  BY DEF NoRow, Row
<1> QED
  BY <1>1, BoundAssumption DEF Init, TypeOK, OpportunityStates, ReferralStates

\* The first statement of every request only fills its slot.
LEMMA ArriveType ==
    ASSUME TypeOK, NEW r \in Requests, Arrive(r)
    PROVE  TypeOK'
<1> SUFFICES request' \in Slots
  BY DEF Arrive, BeginCreate, BeginUpdate, BeginSubmit, BeginReview, BeginWithdraw,
         tables, history, TypeOK, Slots
<1> PICK k \in Keys :
        \/ \E c \in Codes \union {NoCode} : BeginCreate(r, k, c) \/ BeginUpdate(r, k, c)
        \/ BeginSubmit(r, k)
        \/ \E target \in Stages : BeginReview(r, k, target)
        \/ BeginWithdraw(r, k)
  BY DEF Arrive
<1>0. request \in Slots
  BY DEF TypeOK, Slots
<1>1. application[k].code \in Codes \union {NoCode}
  BY DEF TypeOK, Row
<1>2. ASSUME NEW c \in Codes \union {NoCode}, BeginCreate(r, k, c) \/ BeginUpdate(r, k, c)
      PROVE  request' \in Slots
  <2>1. Started("create", "lookup", k, c) \in Running /\ Started("update", "commit", k, c) \in Running
    BY StartedType DEF Operations
  <2> QED
    BY <1>0, <1>2, <2>1, BecomeType DEF BeginCreate, BeginUpdate
<1>3. CASE BeginSubmit(r, k)
  <2>1. \A pc \in {"commit", "referral"} : Started("submit", pc, k, application[k].code) \in Running
    BY <1>1, StartedType DEF Operations
  <2> QED
    BY <1>0, <1>3, <2>1, BecomeType DEF BeginSubmit
<1>4. ASSUME NEW target \in Stages, BeginReview(r, k, target)
      PROVE  request' \in Slots
  <2>1. [Started("review", "commit", k, application[k].code) EXCEPT !.target = target] \in Running
    BY <1>1, StartedType DEF Operations, Running
  <2> QED
    BY <1>0, <1>4, <2>1, BecomeType DEF BeginReview
<1>5. CASE BeginWithdraw(r, k)
  <2> DEFINE counted == application[k].stage # "DRAFT"
  <2>1. Started("withdraw", "commit", k, NoCode) \in Running
    BY StartedType DEF Operations
  <2>2. counted \in BOOLEAN
    OBVIOUS
  <2>3. [Started("withdraw", "commit", k, NoCode) EXCEPT !.counted = counted] \in Running
    <3> HIDE DEF counted
    <3> QED
      BY <2>1, <2>2 DEF Running
  <2> QED
    BY <1>0, <1>5, <2>3, BecomeType DEF BeginWithdraw
<1> QED
  BY <1>2, <1>3, <1>4, <1>5

\* The later statements of a request.
LEMMA ProceedType ==
    ASSUME TypeOK, NEW r \in Requests, Proceed(r)
    PROVE  TypeOK'
<1>0. request \in Slots /\ request[r] \in Running
  <2>1. request[r].pc # "idle"
    BY DEF Proceed, FindExisting, Insert, Restore, CommitUpdate, CheckReferral, CommitSubmit,
           CommitReview, CommitWithdraw, ApplyCount, LoseCount, Notify, SkipNotify, Abort,
           At, Pending
  <2>2. request \in Slots
    BY DEF TypeOK, Slots
  <2> QED
    BY <2>1, <2>2, BusySlot
<1> DEFINE q == request[r]
           k == q.key
<1>1. /\ k \in Keys /\ k[1] \in Opportunities
      /\ q.code \in Codes \union {NoCode} /\ q.target \in Stages
      /\ q.todo \in SUBSET {"count", "notify"}
      /\ application[k] \in Row
  BY <1>0, KeyParts DEF Running, TypeOK
<1>2. Fresh(k, q.code) \in Row
  BY <1>1, FreshType
<1>3. NothingMatched \in SUBSET {"count", "notify"}
  BY DEF NothingMatched
<1>4. <<"RECEIVED", k>> \in {"RECEIVED", "ACCEPTED", "REVIEWED"} \X Keys
      /\ \A t \in Stages : <<Verdict(t), k>> \in {"RECEIVED", "ACCEPTED", "REVIEWED"} \X Keys
  BY <1>1 DEF Verdict
<1> HIDE DEF q, k
<1>5. CASE FindExisting(r)
  BY <1>0, <1>5, FinishType, GotoType DEF FindExisting, tables, history, TypeOK, Slots
<1>6. CASE Insert(r)
  <2>1. request' \in Slots
    BY <1>0, <1>6, FinishType DEF Insert
  <2> QED
    BY <1>1, <1>2, <1>6, <2>1, BoundAssumption DEF Insert, TypeOK, Slots, q, k
<1>7. CASE Restore(r)
  <2>1. request' \in Slots
    BY <1>0, <1>7, FinishType DEF Restore
  <2> QED
    BY <1>1, <1>2, <1>7, <2>1, BoundAssumption DEF Restore, TypeOK, Slots, q, k
<1>8. CASE CommitUpdate(r)
  <2>1. request' \in Slots
    BY <1>0, <1>8, FinishType DEF CommitUpdate
  <2>2. [application[k] EXCEPT !.code = q.code] \in Row
    BY <1>1 DEF Row
  <2>3. application' \in [Keys -> Row]
    BY <1>1, <1>8, <2>2 DEF CommitUpdate, TypeOK, q, k
  <2> QED
    BY <1>8, <2>1, <2>3 DEF CommitUpdate, history, TypeOK, Slots
<1>9. CASE CheckReferral(r)
  BY <1>0, <1>9, FinishType, GotoType DEF CheckReferral, tables, history, TypeOK, Slots
<1>10. CASE CommitSubmit(r)
  <2>1. request' \in Slots
    BY <1>0, <1>3, <1>10, AfterwardsType DEF CommitSubmit
  <2>2. [application[k] EXCEPT !.stage = "SUBMITTED", !.isDraft = FALSE] \in Row
    BY <1>1 DEF Row, Stages
  <2>3. CASE SubmitFilter(application[k])
    <3>1. application' \in [Keys -> Row]
      BY <1>1, <1>10, <2>2, <2>3 DEF CommitSubmit, TypeOK, q, k
    <3>2. drift' \in [Opportunities -> Int]
      BY <1>1, <1>10, <2>3 DEF CommitSubmit, TypeOK, q, k
    <3>3. uses' \in [Codes -> Nat]
      BY <1>1, <1>10, <2>3 DEF CommitSubmit, TypeOK, q, k
    <3>4. outcomes' \subseteq {"RECEIVED", "ACCEPTED", "REVIEWED"} \X Keys
      BY <1>4, <1>10, <2>3 DEF CommitSubmit, TypeOK, q, k
    <3> QED
      BY <1>10, <2>1, <3>1, <3>2, <3>3, <3>4 DEF CommitSubmit, TypeOK, Slots
  <2>4. CASE ~SubmitFilter(application[k])
    BY <1>10, <2>1, <2>4 DEF CommitSubmit, TypeOK, Slots, q, k
  <2> QED
    BY <2>3, <2>4
<1>11. CASE CommitReview(r)
  <2>1. request' \in Slots
    BY <1>0, <1>3, <1>11, AfterwardsType DEF CommitReview
  <2>2. Reviewed(application[k], q.target) \in Row
    BY <1>1, ReviewedType
  <2>3. CASE ReviewFilter(application[k])
    <3>1. application' \in [Keys -> Row]
      BY <1>1, <1>11, <2>2, <2>3 DEF CommitReview, TypeOK, q, k
    <3>2. referral' \in [Codes -> ReferralStates]
      BY <1>11, <2>3 DEF CommitReview, TypeOK, ReferralStates, q, k
    <3>3. outcomes' \subseteq {"RECEIVED", "ACCEPTED", "REVIEWED"} \X Keys
      BY <1>1, <1>4, <1>11, <2>3 DEF CommitReview, TypeOK, q, k
    <3> QED
      BY <1>11, <2>1, <3>1, <3>2, <3>3 DEF CommitReview, TypeOK, Slots
  <2>4. CASE ~ReviewFilter(application[k])
    BY <1>11, <2>1, <2>4 DEF CommitReview, TypeOK, Slots, q, k
  <2> QED
    BY <2>3, <2>4
<1>12. CASE CommitWithdraw(r)
  <2>1. request' \in Slots
    BY <1>0, <1>3, <1>12, AfterwardsType DEF CommitWithdraw
  <2>2. [application[k] EXCEPT !.deleted = TRUE] \in Row
    BY <1>1 DEF Row
  <2>3. Miscounted(application[k], q.counted) \in Int
    BY DEF Miscounted
  <2>4. CASE WithdrawFilter(application[k])
    BY <1>1, <1>12, <2>1, <2>2, <2>3, <2>4 DEF CommitWithdraw, TypeOK, Slots, q, k
  <2>5. CASE ~WithdrawFilter(application[k])
    BY <1>12, <2>1, <2>5 DEF CommitWithdraw, TypeOK, Slots, q, k
  <2> QED
    BY <2>4, <2>5
<1>13. CASE ApplyCount(r)
  <2>1. request' \in Slots
    BY <1>0, <1>1, <1>13, AfterwardsType DEF ApplyCount, Without, q
  <2> QED
    BY <1>1, <1>13, <2>1 DEF ApplyCount, Step, history, TypeOK, Slots, q, k
<1>14. CASE LoseCount(r)
  <2>1. request' \in Slots
    BY <1>0, <1>1, <1>14, AfterwardsType DEF LoseCount, Without, q
  <2> QED
    BY <1>1, <1>14, <2>1 DEF LoseCount, Step, tables, TypeOK, Slots, q, k
<1>15. CASE Notify(r)
  <2>1. request' \in Slots
    BY <1>0, <1>1, <1>15, AfterwardsType DEF Notify, Without, q
  <2>2. Notice(q) \in {"RECEIVED", "ACCEPTED", "REVIEWED"} \X Keys
    BY <1>1, <1>4 DEF Notice, k
  <2> QED
    BY <1>15, <2>1, <2>2 DEF Notify, history, TypeOK, Slots, q
<1>16. CASE SkipNotify(r)
  <2>1. request' \in Slots
    BY <1>0, <1>1, <1>16, AfterwardsType DEF SkipNotify, Without, q
  <2> QED
    BY <1>16, <2>1 DEF SkipNotify, tables, history, TypeOK, Slots
<1>17. CASE Abort(r)
  BY <1>0, <1>17, FinishType DEF Abort, tables, history, TypeOK, Slots
<1> QED
  BY <1>5, <1>6, <1>7, <1>8, <1>9, <1>10, <1>11, <1>12, <1>13, <1>14, <1>15, <1>16, <1>17
  DEF Proceed

LEMMA EnvironmentType ==
    ASSUME TypeOK, Environment
    PROVE  TypeOK'
BY DEF Environment, ToggleOpportunity, RemoveOpportunity, ExpireReferral, history,
       TypeOK, OpportunityStates, ReferralStates

LEMMA TypeStep ==
    ASSUME TypeOK, [Next]_vars
    PROVE  TypeOK'
<1>1. ASSUME UNCHANGED vars PROVE TypeOK'
  BY <1>1 DEF vars, tables, history, TypeOK
<1> QED
  BY <1>1, ArriveType, ProceedType, EnvironmentType DEF Next

\* The tables, the requests and the history keep their types.
THEOREM TypeCorrect == Spec => []TypeOK
<1>1. TypeOK /\ [Next]_vars => TypeOK'
  BY TypeStep
<1> QED
  BY <1>1, InitType, PTL DEF Spec

-----------------------------------------------------------------------------
(* What a request in progress is about to do *)

ReviewTargets == {"OWNER_REVIEW", "SUCCESS", "ARCHIVED"}

\* A review asks for a reviewable stage, a withdrawal carries no code, only submit and
\* withdraw count, and what is about to be notified was committed.
SlotOK(q, committed) ==
    /\ q.op = "review" => q.target \in ReviewTargets
    /\ q.op = "withdraw" => q.code = NoCode
    /\ q.pc = "after" =>
          /\ "count" \in q.todo => q.op \in {"submit", "withdraw"}
          /\ "notify" \in q.todo => Notice(q) \in committed

SlotInv == \A r \in Requests : request[r] = Idle \/ SlotOK(request[r], outcomes)

LEMMA OutcomesGrow ==
    ASSUME [Next]_vars
    PROVE  outcomes \subseteq outcomes'
BY DEF Next, Arrive, BeginCreate, BeginUpdate, BeginSubmit, BeginReview, BeginWithdraw,
       Proceed, FindExisting, Insert, Restore, CommitUpdate, CheckReferral, CommitSubmit,
       CommitReview, CommitWithdraw, ApplyCount, LoseCount, Notify, SkipNotify, Abort,
       Environment, ToggleOpportunity, RemoveOpportunity, ExpireReferral, vars, tables, history

\* A step of one slot leaves the others alone.
LEMMA OneSlotMoves ==
    ASSUME TypeOK, NEW r \in Requests, Arrive(r) \/ Proceed(r)
    PROVE  \A p \in Requests \ {r} : request'[p] = request[p]
BY DEF Arrive, BeginCreate, BeginUpdate, BeginSubmit, BeginReview, BeginWithdraw,
       Proceed, FindExisting, Insert, Restore, CommitUpdate, CheckReferral, CommitSubmit,
       CommitReview, CommitWithdraw, ApplyCount, LoseCount, Notify, SkipNotify, Abort,
       Afterwards, Finish, Goto, Become, TypeOK

LEMMA ArriveSlot ==
    ASSUME TypeOK, NEW r \in Requests, Arrive(r)
    PROVE  SlotOK(request'[r], outcomes')
<1> PICK k \in Keys :
        \/ \E c \in Codes \union {NoCode} : BeginCreate(r, k, c) \/ BeginUpdate(r, k, c)
        \/ BeginSubmit(r, k)
        \/ \E target \in Stages : BeginReview(r, k, target)
        \/ BeginWithdraw(r, k)
  BY DEF Arrive
<1> USE DEF Become, Started, SlotOK, TypeOK
<1>1. ASSUME NEW c \in Codes \union {NoCode}, BeginCreate(r, k, c) \/ BeginUpdate(r, k, c)
      PROVE  SlotOK(request'[r], outcomes')
  BY <1>1 DEF BeginCreate, BeginUpdate
<1>2. CASE BeginSubmit(r, k)
  BY <1>2 DEF BeginSubmit
<1>3. ASSUME NEW target \in Stages, BeginReview(r, k, target)
      PROVE  SlotOK(request'[r], outcomes')
  <2>1. target \in ReviewTargets
    BY <1>3 DEF BeginReview, ValidTransitions, ReviewTargets
  <2> QED
    BY <1>3, <2>1 DEF BeginReview
<1>4. CASE BeginWithdraw(r, k)
  BY <1>4 DEF BeginWithdraw
<1> QED
  BY <1>1, <1>2, <1>3, <1>4

LEMMA ProceedSlot ==
    ASSUME TypeOK, SlotInv, NEW r \in Requests, Proceed(r)
    PROVE  request'[r] = Idle \/ SlotOK(request'[r], outcomes')
<1>0. request \in Slots /\ request[r] # Idle /\ request[r] \in Running
  <2>1. request[r].pc # "idle"
    BY DEF Proceed, FindExisting, Insert, Restore, CommitUpdate, CheckReferral, CommitSubmit,
           CommitReview, CommitWithdraw, ApplyCount, LoseCount, Notify, SkipNotify, Abort,
           At, Pending
  <2> QED
    BY <2>1, BusySlot DEF TypeOK, Slots, Idle
<1> DEFINE q == request[r]
<1>1. SlotOK(q, outcomes) /\ outcomes \subseteq outcomes'
  BY <1>0, OutcomesGrow DEF SlotInv, Next
<1>2. ASSUME Finish(r) PROVE request'[r] = Idle
  BY <1>0, <1>2 DEF Finish, Become, Slots
<1>3. ASSUME NEW pc \in {"insert", "restore", "commit"}, Goto(r, pc)
      PROVE  SlotOK(request'[r], outcomes')
  <2>1. request'[r] = [q EXCEPT !.pc = pc]
    BY <1>0, <1>3 DEF Goto, Become, Slots
  <2> QED
    BY <1>0, <1>1, <2>1 DEF SlotOK, Running
<1>4. ASSUME NEW todo \in SUBSET {"count", "notify"}, Afterwards(r, todo),
             "count" \in todo => q.op \in {"submit", "withdraw"},
             "notify" \in todo => Notice(q) \in outcomes'
      PROVE  request'[r] = Idle \/ SlotOK(request'[r], outcomes')
  <2>1. CASE todo = {}
    BY <1>2, <1>4, <2>1 DEF Afterwards
  <2>2. CASE todo # {}
    <3>1. request'[r] = [q EXCEPT !.pc = "after", !.todo = todo]
      BY <1>0, <1>4, <2>2 DEF Afterwards, Become, Slots
    <3>2. Notice(request'[r]) = Notice(q)
      BY <1>0, <3>1 DEF Notice, Running
    <3> QED
      BY <1>0, <1>1, <1>4, <3>1, <3>2 DEF SlotOK, Running
  <2> QED
    BY <2>1, <2>2
<1> HIDE DEF q
<1>5. CASE FindExisting(r)
  BY <1>2, <1>3, <1>5 DEF FindExisting
<1>6. CASE Insert(r) \/ Restore(r) \/ CommitUpdate(r) \/ Abort(r)
  BY <1>2, <1>6 DEF Insert, Restore, CommitUpdate, Abort
<1>7. CASE CheckReferral(r)
  BY <1>2, <1>3, <1>7 DEF CheckReferral
<1>8. CASE CommitSubmit(r)
  <2>1. q.op = "submit"
    BY <1>8 DEF CommitSubmit, At, q
  <2>2. CASE SubmitFilter(application[q.key])
    <3>1. Notice(q) \in outcomes'
      BY <1>8, <2>1, <2>2 DEF CommitSubmit, Notice, q
    <3> QED
      BY <1>4, <1>8, <2>1, <2>2, <3>1 DEF CommitSubmit, q
  <2>3. CASE ~SubmitFilter(application[q.key])
    BY <1>2, <1>8, <2>3 DEF CommitSubmit, Afterwards, NothingMatched, q
  <2> QED
    BY <2>2, <2>3
<1>9. CASE CommitReview(r)
  <2>1. q.op = "review"
    BY <1>9 DEF CommitReview, At, q
  <2>2. CASE ReviewFilter(application[q.key])
    <3>1. Notice(q) \in outcomes'
      BY <1>9, <2>1, <2>2 DEF CommitReview, Notice, q
    <3> QED
      BY <1>4, <1>9, <2>1, <2>2, <3>1 DEF CommitReview, q
  <2>3. CASE ~ReviewFilter(application[q.key])
    BY <1>2, <1>9, <2>3 DEF CommitReview, Afterwards, NothingMatched, q
  <2> QED
    BY <2>2, <2>3
<1>10. CASE CommitWithdraw(r)
  <2>1. q.op = "withdraw"
    BY <1>10 DEF CommitWithdraw, At, q
  <2>2. CASE WithdrawFilter(application[q.key])
    BY <1>4, <1>10, <2>1, <2>2 DEF CommitWithdraw, q
  <2>3. CASE ~WithdrawFilter(application[q.key])
    BY <1>2, <1>10, <2>3 DEF CommitWithdraw, Afterwards, NothingMatched, q
  <2> QED
    BY <2>2, <2>3
<1>11. CASE ApplyCount(r) \/ LoseCount(r) \/ Notify(r) \/ SkipNotify(r)
  <2>1. PICK task \in {"count", "notify"} : Afterwards(r, Without(q, task)) /\ q.pc = "after"
    BY <1>11 DEF ApplyCount, LoseCount, Notify, SkipNotify, Pending, q
  <2>2. Without(q, task) \subseteq q.todo /\ q.todo \subseteq {"count", "notify"}
    BY <1>0 DEF Without, Running, q
  <2>3. /\ "count" \in Without(q, task) => q.op \in {"submit", "withdraw"}
        /\ "notify" \in Without(q, task) => Notice(q) \in outcomes'
    BY <1>1, <2>1, <2>2 DEF SlotOK
  <2> QED
    BY <1>4, <2>1, <2>2, <2>3
<1> QED
  BY <1>5, <1>6, <1>7, <1>8, <1>9, <1>10, <1>11 DEF Proceed

LEMMA SlotInductive ==
    ASSUME TypeOK, SlotInv, [Next]_vars
    PROVE  SlotInv'
<1>1. ASSUME UNCHANGED <<request, outcomes>> PROVE SlotInv'
  BY <1>1 DEF SlotInv, SlotOK, Notice, Verdict
<1>2. ASSUME NEW r \in Requests, Arrive(r) \/ Proceed(r) PROVE SlotInv'
  <2>1. request'[r] = Idle \/ SlotOK(request'[r], outcomes')
    BY <1>2, ArriveSlot, ProceedSlot
  <2>2. ASSUME NEW p \in Requests \ {r}
        PROVE  request'[p] = Idle \/ SlotOK(request'[p], outcomes')
    <3>1. request'[p] = request[p] /\ outcomes \subseteq outcomes'
      BY <1>2, OneSlotMoves, OutcomesGrow
    <3> QED
      BY <3>1 DEF SlotInv, SlotOK
  <2> QED
    BY <2>1, <2>2 DEF SlotInv
<1>3. CASE Environment
  BY <1>1, <1>3 DEF Environment, ToggleOpportunity, RemoveOpportunity, ExpireReferral, history
<1>4. CASE UNCHANGED vars
  BY <1>1, <1>4 DEF vars, history
<1> QED
  BY <1>2, <1>3, <1>4 DEF Next

LEMMA SlotInit == Init => SlotInv
BY DEF Init, SlotInv

\* What every reachable state satisfies of its requests.
THEOREM SlotsCorrect == Spec => [](TypeOK /\ SlotInv)
<1>1. TypeOK /\ SlotInv /\ [Next]_vars => SlotInv'
  BY SlotInductive
<1> QED
  BY <1>1, SlotInit, TypeCorrect, PTL DEF Spec

-----------------------------------------------------------------------------
(* Notifications *)

LEMMA InboxStep ==
    ASSUME TypeOK, SlotInv, NoticesAreTrue, [Next]_vars
    PROVE  NoticesAreTrue'
<1>0. outcomes \subseteq outcomes'
  BY OutcomesGrow
<1>1. CASE UNCHANGED inbox
  BY <1>0, <1>1 DEF NoticesAreTrue
<1>2. ASSUME NEW r \in Requests, Notify(r) PROVE NoticesAreTrue'
  <2>1. request[r] # Idle /\ request[r].pc = "after" /\ "notify" \in request[r].todo
    BY <1>2 DEF Notify, Pending, Idle
  <2>2. Notice(request[r]) \in outcomes
    BY <2>1 DEF SlotInv, SlotOK
  <2> QED
    BY <1>0, <1>2, <2>2 DEF Notify, NoticesAreTrue
<1>3. (\E r \in Requests : Notify(r)) \/ UNCHANGED inbox
  BY DEF Next, Arrive, BeginCreate, BeginUpdate, BeginSubmit, BeginReview, BeginWithdraw,
         Proceed, FindExisting, Insert, Restore, CommitUpdate, CheckReferral, CommitSubmit,
         CommitReview, CommitWithdraw, ApplyCount, LoseCount, SkipNotify, Abort,
         Environment, ToggleOpportunity, RemoveOpportunity, ExpireReferral, vars, tables, history
<1> QED
  BY <1>1, <1>2, <1>3

\* Nobody is told of an outcome that was not committed.
THEOREM NoticesCorrect == Spec => []NoticesAreTrue
<1>1. Init => NoticesAreTrue
  BY DEF Init, NoticesAreTrue
<1>2. TypeOK /\ SlotInv /\ NoticesAreTrue /\ [Next]_vars => NoticesAreTrue'
  BY InboxStep
<1> QED
  BY <1>1, <1>2, SlotsCorrect, PTL DEF Spec

-----------------------------------------------------------------------------
(* What one step may do to one row *)

RowStep(a, b) ==
    \/ b = a
    \/ \E k \in Keys, c \in Codes \union {NoCode} : b = Fresh(k, c)
    \/ \E c \in Codes \union {NoCode} : b = [a EXCEPT !.code = c]
    \/ a.stage = "DRAFT" /\ b = [a EXCEPT !.stage = "SUBMITTED", !.isDraft = FALSE]
    \/ ~a.deleted /\ \E t \in ReviewTargets : b = Reviewed(a, t)
    \/ ~a.deleted /\ b = [a EXCEPT !.deleted = TRUE]

LEMMA EveryRowStep ==
    ASSUME TypeOK, SlotInv, [Next]_vars, NEW k \in Keys
    PROVE  RowStep(application[k], application'[k])
<1>1. CASE UNCHANGED application
  BY <1>1 DEF RowStep
<1>2. ASSUME NEW r \in Requests,
             \/ Insert(r) \/ Restore(r) \/ CommitUpdate(r)
             \/ CommitSubmit(r) \/ CommitReview(r) \/ CommitWithdraw(r)
      PROVE  RowStep(application[k], application'[k])
  <2> DEFINE q == request[r]
  <2>1. /\ q \in Running /\ q # Idle
        /\ application \in [Keys -> Row]
    <3>1. q.pc # "idle"
      BY <1>2 DEF Insert, Restore, CommitUpdate, CommitSubmit, CommitReview, CommitWithdraw, At
    <3> QED
      BY <3>1, BusySlot DEF TypeOK, Slots, Idle
  <2>2. q.key \in Keys /\ q.code \in Codes \union {NoCode}
    BY <2>1 DEF Running
  <2>3. q.op = "review" => q.target \in ReviewTargets
    BY <2>1 DEF SlotInv, SlotOK
  <2> HIDE DEF q
  <2>4. CASE k # q.key
    <3>1. application'[k] = application[k]
      BY <1>2, <2>1, <2>4
      DEF Insert, Restore, CommitUpdate, CommitSubmit, CommitReview, CommitWithdraw, q
    <3> QED
      BY <3>1 DEF RowStep
  <2>5. CASE k = q.key
    <3> USE <2>1, <2>2, <2>5
    <3>1. CASE Insert(r)
      BY <3>1 DEF Insert, RowStep, q
    <3>2. CASE Restore(r)
      BY <3>2 DEF Restore, RowStep, q
    <3>3. CASE CommitUpdate(r)
      BY <3>3 DEF CommitUpdate, RowStep, q
    <3>4. CASE CommitSubmit(r)
      BY <3>4 DEF CommitSubmit, SubmitFilter, RowStep, q
    <3>5. CASE CommitReview(r)
      BY <2>3, <3>5 DEF CommitReview, ReviewFilter, RowStep, At, q
    <3>6. CASE CommitWithdraw(r)
      BY <3>6 DEF CommitWithdraw, WithdrawFilter, RowStep, q
    <3> QED
      BY <1>2, <3>1, <3>2, <3>3, <3>4, <3>5, <3>6
  <2> QED
    BY <2>4, <2>5
<1>3. \/ UNCHANGED application
      \/ \E r \in Requests : \/ Insert(r) \/ Restore(r) \/ CommitUpdate(r)
                             \/ CommitSubmit(r) \/ CommitReview(r) \/ CommitWithdraw(r)
  BY DEF Next, Arrive, BeginCreate, BeginUpdate, BeginSubmit, BeginReview, BeginWithdraw,
         Proceed, FindExisting, CheckReferral, ApplyCount, LoseCount, Notify, SkipNotify, Abort,
         Environment, ToggleOpportunity, RemoveOpportunity, ExpireReferral, vars, tables, history
<1> QED
  BY <1>1, <1>2, <1>3

\* The two flags of one row against its stage.
RowFlags(a) ==
    /\ a.isClosed <=> a.stage \in {"SUCCESS", "ARCHIVED"}
    /\ a.stage = "DRAFT" => a.isDraft

LEMMA ReviewedFlags ==
    ASSUME NEW a \in Row, NEW t \in ReviewTargets
    PROVE  RowFlags(Reviewed(a, t)) /\ Reviewed(a, t).stage = t
           /\ Reviewed(a, t).deleted = a.deleted
<1> DEFINE closed == t \in {"SUCCESS", "ARCHIVED"}
           b == Reviewed(a, t)
<1>1. closed \in BOOLEAN
  OBVIOUS
<1>2. b = [a EXCEPT !.stage = t, !.isClosed = closed]
  BY DEF Reviewed
<1>3. b.stage = t /\ b.isClosed = closed /\ b.deleted = a.deleted
  <2> HIDE DEF closed, b
  <2> QED
    BY <1>1, <1>2 DEF Row
<1> QED
  BY <1>3 DEF RowFlags, ReviewTargets

LEMMA FlagsStep ==
    ASSUME NEW a \in Row, NEW b \in Row, RowStep(a, b), RowFlags(a)
    PROVE  RowFlags(b)
<1>1. CASE b = a
  BY <1>1
<1>2. CASE \E k \in Keys, c \in Codes \union {NoCode} : b = Fresh(k, c)
  BY <1>2 DEF Fresh, RowFlags
<1>3. CASE \E c \in Codes \union {NoCode} : b = [a EXCEPT !.code = c]
  <2>1. b.isClosed = a.isClosed /\ b.stage = a.stage /\ b.isDraft = a.isDraft
    BY <1>3 DEF Row
  <2> QED
    BY <2>1 DEF RowFlags
<1>4. CASE a.stage = "DRAFT" /\ b = [a EXCEPT !.stage = "SUBMITTED", !.isDraft = FALSE]
  <2>1. b.isClosed = a.isClosed /\ b.stage = "SUBMITTED"
    BY <1>4 DEF Row
  <2> QED
    BY <1>4, <2>1 DEF RowFlags
<1>5. CASE \E t \in ReviewTargets : b = Reviewed(a, t)
  BY <1>5, ReviewedFlags
<1>6. CASE b = [a EXCEPT !.deleted = TRUE]
  <2>1. b.isClosed = a.isClosed /\ b.stage = a.stage /\ b.isDraft = a.isDraft
    BY <1>6 DEF Row
  <2> QED
    BY <2>1 DEF RowFlags
<1> QED
  BY <1>1, <1>2, <1>3, <1>4, <1>5, <1>6 DEF RowStep

LEMMA FlagsInitially == Init => FlagsFollowStage
BY DEF Init, FlagsFollowStage, NoRow

LEMMA FlagsInductive ==
    ASSUME TypeOK, TypeOK', SlotInv, FlagsFollowStage, [Next]_vars
    PROVE  FlagsFollowStage'
<1> SUFFICES ASSUME NEW k \in Keys PROVE RowFlags(application'[k])
  BY DEF FlagsFollowStage, RowFlags
<1>1. application[k] \in Row /\ application'[k] \in Row
  BY DEF TypeOK
<1>2. RowFlags(application[k])
  BY DEF FlagsFollowStage, RowFlags
<1> QED
  BY <1>1, <1>2, EveryRowStep, FlagsStep

\* A row is closed exactly in a terminal stage, and a DRAFT is flagged isDraft.
THEOREM FlagsCorrect == Spec => []FlagsFollowStage
BY FlagsInitially, FlagsInductive, SlotsCorrect, PTL DEF Spec

-----------------------------------------------------------------------------
(* Action properties *)

LEMMA StageStep ==
    ASSUME NEW a \in Row, NEW b \in Row, RowStep(a, b)
    PROVE  /\ a.stage # b.stage /\ b.stage = "SUBMITTED" => a.stage = "DRAFT"
           /\ a.deleted /\ b.deleted =>
                 /\ b.isClosed = a.isClosed
                 /\ b.stage \in {a.stage, "SUBMITTED"}
<1>1. CASE b = a
  BY <1>1
<1>2. CASE \E k \in Keys, c \in Codes \union {NoCode} : b = Fresh(k, c)
  BY <1>2 DEF Fresh
<1>3. CASE \E c \in Codes \union {NoCode} : b = [a EXCEPT !.code = c]
  BY <1>3 DEF Row
<1>4. CASE a.stage = "DRAFT" /\ b = [a EXCEPT !.stage = "SUBMITTED", !.isDraft = FALSE]
  BY <1>4 DEF Row
<1>5. CASE ~a.deleted /\ \E t \in ReviewTargets : b = Reviewed(a, t)
  <2>1. b.stage # "SUBMITTED" /\ ~b.deleted
    BY <1>5, ReviewedFlags DEF ReviewTargets
  <2> QED
    BY <2>1
<1>6. CASE ~a.deleted /\ b = [a EXCEPT !.deleted = TRUE]
  BY <1>6 DEF Row
<1> QED
  BY <1>1, <1>2, <1>3, <1>4, <1>5, <1>6 DEF RowStep

\* What a step may do to a row and to a code
DraftsOnly ==
    \A k \in Keys :
        application[k].stage # application'[k].stage /\ application'[k].stage = "SUBMITTED"
           => application[k].stage = "DRAFT"

WithdrawnUndecided ==
    \A k \in Keys :
        application[k].deleted /\ application'[k].deleted
           => /\ application'[k].isClosed = application[k].isClosed
              /\ application'[k].stage \in {application[k].stage, "SUBMITTED"}

CompletedKept == \A c \in Codes : referral[c] = "COMPLETED" => referral'[c] = "COMPLETED"

LEMMA RowRules ==
    TypeOK /\ TypeOK' /\ SlotInv /\ [Next]_vars
        => [DraftsOnly]_application /\ [WithdrawnUndecided]_application
<1> SUFFICES ASSUME TypeOK, TypeOK', SlotInv, [Next]_vars
             PROVE  DraftsOnly /\ WithdrawnUndecided
  OBVIOUS
<1>1. DraftsOnly
  BY EveryRowStep, StageStep DEF TypeOK, DraftsOnly
<1>2. WithdrawnUndecided
  BY EveryRowStep, StageStep DEF TypeOK, WithdrawnUndecided
<1> QED
  BY <1>1, <1>2

LEMMA CodeRule == TypeOK /\ [Next]_vars => CompletedKept
<1> SUFFICES ASSUME TypeOK, [Next]_vars, NEW c \in Codes, referral[c] = "COMPLETED"
             PROVE  referral'[c] = "COMPLETED"
  BY DEF CompletedKept
<1>1. CASE UNCHANGED referral
  BY <1>1
<1>2. ASSUME NEW r \in Requests, CommitReview(r) PROVE referral'[c] = "COMPLETED"
  BY <1>2 DEF CommitReview
<1>3. ASSUME NEW d \in Codes, ExpireReferral(d) PROVE referral'[c] = "COMPLETED"
  BY <1>3 DEF ExpireReferral, Expirable, TypeOK
<1>4. \/ UNCHANGED referral
      \/ \E r \in Requests : CommitReview(r)
      \/ \E d \in Codes : ExpireReferral(d)
  BY DEF Next, Arrive, BeginCreate, BeginUpdate, BeginSubmit, BeginReview, BeginWithdraw,
         Proceed, FindExisting, Insert, Restore, CommitUpdate, CheckReferral, CommitSubmit,
         CommitWithdraw, ApplyCount, LoseCount, Notify, SkipNotify, Abort,
         Environment, ToggleOpportunity, RemoveOpportunity, vars, tables, history
<1> QED
  BY <1>1, <1>2, <1>3, <1>4

\* An application becomes SUBMITTED only from DRAFT.
THEOREM SubmitsDraftsOnly == Spec => SubmittedFromDraftOnly
BY RowRules, SlotsCorrect, PTL DEF Spec, SubmittedFromDraftOnly, DraftsOnly

\* The owner's decision never lands on an application that stays withdrawn.
THEOREM DecisionsOnActiveOnly == Spec => NoDecisionAfterWithdrawal
BY RowRules, SlotsCorrect, PTL DEF Spec, NoDecisionAfterWithdrawal, WithdrawnUndecided

\* COMPLETED is the last status of a referral code.
THEOREM CompletedStays == Spec => CompletedIsFinal
BY CodeRule, TypeCorrect, PTL DEF Spec, CompletedIsFinal, CompletedKept

-----------------------------------------------------------------------------
Bit(b) == IF b THEN 1 ELSE 0

-----------------------------------------------------------------------------
(* Sets that differ in one element *)

\* The cardinality of a set after one element may have entered or left it.
LEMMA OneElement ==
    ASSUME NEW S, NEW T, NEW x, IsFiniteSet(S), T \ {x} = S \ {x}
    PROVE  /\ IsFiniteSet(T)
           /\ Cardinality(S) \in Nat /\ Cardinality(T) \in Nat
           /\ Cardinality(T) = Cardinality(S) + Bit(x \in T) - Bit(x \in S)
<1>0. Cardinality(S) \in Nat
  BY FS_CardinalityType
<1>1. CASE x \in S /\ x \in T
  <2>1. T = S
    BY <1>1
  <2> QED
    BY <1>0, <1>1, <2>1 DEF Bit
<1>2. CASE x \notin S /\ x \notin T
  <2>1. T = S
    BY <1>2
  <2> QED
    BY <1>0, <1>2, <2>1 DEF Bit
<1>3. CASE x \notin S /\ x \in T
  <2>1. T = S \union {x}
    BY <1>3
  <2>2. IsFiniteSet(T) /\ Cardinality(T) = Cardinality(S) + 1
    BY <1>3, <2>1, FS_AddElement
  <2> QED
    BY <1>0, <1>3, <2>2 DEF Bit
<1>4. CASE x \in S /\ x \notin T
  <2>1. T = S \ {x}
    BY <1>4
  <2>2. IsFiniteSet(T) /\ Cardinality(T) = Cardinality(S) - 1
    BY <1>4, <2>1, FS_RemoveElement
  <2>3. Cardinality(T) \in Nat
    BY <2>2, FS_CardinalityType
  <2> QED
    BY <1>0, <1>4, <2>2, <2>3 DEF Bit
<1> QED
  BY <1>1, <1>2, <1>3, <1>4

-----------------------------------------------------------------------------
(* What is counted *)

Counts(q) == q.pc = "after" /\ "count" \in q.todo

CountsFor(q, op, o) == Counts(q) /\ q.op = op /\ q.key[1] = o

\* The live submissions of an opportunity when one row changes.
LEMMA LiveChange ==
    ASSUME TypeOK, NEW k \in Keys, NEW b \in Row,
           application' = [application EXCEPT ![k] = b],
           NEW o \in Opportunities
    PROVE  /\ Cardinality(LiveOf(o)) \in Nat /\ Cardinality(LiveOf(o)') \in Nat
           /\ o = k[1] => Cardinality(LiveOf(o)') =
                             Cardinality(LiveOf(o)) + Bit(Live(b)) - Bit(Live(application[k]))
           /\ o # k[1] => Cardinality(LiveOf(o)') = Cardinality(LiveOf(o))
<1>1. IsFiniteSet(LiveOf(o))
  <2>1. LiveOf(o) \subseteq Candidates
    BY DEF LiveOf
  <2> QED
    BY <2>1, FiniteAssumption, FS_Subset
<1>2. k = <<k[1], k[2]>> /\ k[2] \in Candidates
  BY DEF Keys
<1>3. \A c \in Candidates : <<o, c>> # k => application'[<<o, c>>] = application[<<o, c>>]
  BY DEF TypeOK, Keys
<1>4. application'[k] = b
  BY DEF TypeOK
<1>5. CASE o = k[1]
  <2>1. LiveOf(o)' \ {k[2]} = LiveOf(o) \ {k[2]}
    <3>1. \A c \in Candidates : c # k[2] => <<o, c>> # k
      BY <1>2
    <3> QED
      BY <1>3, <3>1 DEF LiveOf, Live
  <2>2. (k[2] \in LiveOf(o)' <=> Live(b)) /\ (k[2] \in LiveOf(o) <=> Live(application[k]))
    BY <1>2, <1>4, <1>5 DEF LiveOf, Live
  <2>3. /\ Cardinality(LiveOf(o)) \in Nat /\ Cardinality(LiveOf(o)') \in Nat
        /\ Cardinality(LiveOf(o)') = Cardinality(LiveOf(o))
              + Bit(k[2] \in LiveOf(o)') - Bit(k[2] \in LiveOf(o))
    BY <1>1, <2>1, OneElement
  <2> QED
    BY <1>5, <2>2, <2>3 DEF Bit
<1>6. CASE o # k[1]
  <2>1. \A c \in Candidates : <<o, c>> # k
    BY <1>2, <1>6
  <2>2. LiveOf(o)' = LiveOf(o)
    BY <1>3, <2>1 DEF LiveOf, Live
  <2> QED
    BY <1>1, <1>6, <2>2, FS_CardinalityType
<1> QED
  BY <1>5, <1>6

\* The requests about to count when one slot changes.
LEMMA CountingChange ==
    ASSUME NEW r \in Requests, \A p \in Requests \ {r} : request'[p] = request[p],
           NEW o \in Opportunities, NEW op
    PROVE  /\ Cardinality(Counting(o, op)) \in Nat /\ Cardinality(Counting(o, op)') \in Nat
           /\ Cardinality(Counting(o, op)') = Cardinality(Counting(o, op))
                + Bit(CountsFor(request'[r], op, o))
                - Bit(CountsFor(request[r], op, o))
<1>1. IsFiniteSet(Counting(o, op))
  <2>1. Counting(o, op) \subseteq Requests
    BY DEF Counting
  <2> QED
    BY <2>1, FiniteAssumption, FS_Subset
<1>2. Counting(o, op)' \ {r} = Counting(o, op) \ {r}
  BY DEF Counting, Pending
<1>3. /\ r \in Counting(o, op)' <=>
            CountsFor(request'[r], op, o)
      /\ r \in Counting(o, op) <=>
            CountsFor(request[r], op, o)
  BY DEF Counting, Pending, Counts, CountsFor
<1>4. /\ Cardinality(Counting(o, op)) \in Nat /\ Cardinality(Counting(o, op)') \in Nat
      /\ Cardinality(Counting(o, op)') = Cardinality(Counting(o, op))
            + Bit(r \in Counting(o, op)') - Bit(r \in Counting(o, op))
  BY <1>1, <1>2, OneElement
<1> QED
  BY <1>3, <1>4 DEF Bit

LEMMA CodeChange ==
    ASSUME NEW r \in Requests, \A p \in Requests \ {r} : request'[p] = request[p],
           NEW c \in Codes
    PROVE  /\ Cardinality(CountingCode(c)) \in Nat /\ Cardinality(CountingCode(c)') \in Nat
           /\ Cardinality(CountingCode(c)') = Cardinality(CountingCode(c))
                + Bit(Counts(request'[r]) /\ request'[r].code = c)
                - Bit(Counts(request[r]) /\ request[r].code = c)
<1>1. IsFiniteSet(CountingCode(c))
  <2>1. CountingCode(c) \subseteq Requests
    BY DEF CountingCode
  <2> QED
    BY <2>1, FiniteAssumption, FS_Subset
<1>2. CountingCode(c)' \ {r} = CountingCode(c) \ {r}
  BY DEF CountingCode, Pending
<1>3. /\ r \in CountingCode(c)' <=> Counts(request'[r]) /\ request'[r].code = c
      /\ r \in CountingCode(c) <=> Counts(request[r]) /\ request[r].code = c
  BY DEF CountingCode, Pending, Counts
<1>4. /\ Cardinality(CountingCode(c)) \in Nat /\ Cardinality(CountingCode(c)') \in Nat
      /\ Cardinality(CountingCode(c)') = Cardinality(CountingCode(c))
            + Bit(r \in CountingCode(c)') - Bit(r \in CountingCode(c))
  BY <1>1, <1>2, OneElement
<1> QED
  BY <1>3, <1>4 DEF Bit

-----------------------------------------------------------------------------
(* How a step changes what its slot is about to count *)

LEMMA FinishCounts ==
    ASSUME request \in Slots, NEW r \in Requests, Finish(r)
    PROVE  ~Counts(request'[r])
BY DEF Finish, Become, Slots, Counts, Idle

LEMMA AfterwardsCounts ==
    ASSUME request \in Slots, NEW r \in Requests, request[r] \in Running,
           NEW todo \in SUBSET {"count", "notify"}, Afterwards(r, todo)
    PROVE  /\ Counts(request'[r]) <=> "count" \in todo
           /\ "count" \in todo => /\ request'[r].op = request[r].op
                                  /\ request'[r].key = request[r].key
                                  /\ request'[r].code = request[r].code
<1>1. CASE todo = {}
  BY <1>1, FinishCounts DEF Afterwards
<1>2. CASE todo # {}
  <2>1. request'[r] = [request[r] EXCEPT !.pc = "after", !.todo = todo]
    BY <1>2 DEF Afterwards, Become, Slots
  <2> QED
    BY <2>1 DEF Running, Counts
<1> QED
  BY <1>1, <1>2

\* Only these statements touch what is about to be counted; all others, before and after,
\* leave the slot with nothing to count.
TouchesCount(r) == CommitSubmit(r) \/ CommitWithdraw(r) \/ ApplyCount(r) \/ LoseCount(r)
                \/ Notify(r) \/ SkipNotify(r)

LEMMA QuietSlot ==
    ASSUME TypeOK, NEW r \in Requests, Arrive(r) \/ Proceed(r), ~TouchesCount(r)
    PROVE  ~Counts(request[r]) /\ ~Counts(request'[r])
<1>0. request \in Slots
  BY DEF TypeOK, Slots
<1>1. CASE Arrive(r)
  <2>1. PICK k \in Keys :
           \/ \E c \in Codes \union {NoCode} : BeginCreate(r, k, c) \/ BeginUpdate(r, k, c)
           \/ BeginSubmit(r, k)
           \/ \E target \in Stages : BeginReview(r, k, target)
           \/ BeginWithdraw(r, k)
    BY <1>1 DEF Arrive
  <2>2. request[r] = Idle
    BY <2>1 DEF BeginCreate, BeginUpdate, BeginSubmit, BeginReview, BeginWithdraw
  <2> USE <1>0 DEF Become, Started, Slots
  <2>3. CASE \E c \in Codes \union {NoCode} : BeginCreate(r, k, c) \/ BeginUpdate(r, k, c)
    BY <2>2, <2>3 DEF BeginCreate, BeginUpdate, Counts, Idle
  <2>4. CASE BeginSubmit(r, k)
    BY <2>2, <2>4 DEF BeginSubmit, Counts, Idle
  <2>5. CASE \E target \in Stages : BeginReview(r, k, target)
    BY <2>2, <2>5 DEF BeginReview, Counts, Idle
  <2>6. CASE BeginWithdraw(r, k)
    BY <2>2, <2>6 DEF BeginWithdraw, Counts, Idle
  <2> QED
    BY <2>1, <2>3, <2>4, <2>5, <2>6
<1>2. CASE FindExisting(r) \/ Insert(r) \/ Restore(r) \/ CommitUpdate(r) \/ CheckReferral(r) \/ Abort(r)
  <2>1. request[r].pc \notin {"idle", "after"}
    BY <1>2 DEF FindExisting, Insert, Restore, CommitUpdate, CheckReferral, Abort, At
  <2>2. request[r] \in Running
    BY <1>0, <2>1, BusySlot
  <2>3. Finish(r) \/ \E pc \in {"insert", "restore", "commit"} : Goto(r, pc)
    BY <1>2 DEF FindExisting, Insert, Restore, CommitUpdate, CheckReferral, Abort
  <2>4. ASSUME NEW pc \in {"insert", "restore", "commit"}, Goto(r, pc)
        PROVE  ~Counts(request'[r])
    <3>1. request'[r] = [request[r] EXCEPT !.pc = pc]
      BY <1>0, <2>4 DEF Goto, Become, Slots
    <3> QED
      BY <2>2, <3>1 DEF Running, Counts
  <2> QED
    BY <1>0, <2>1, <2>3, <2>4, FinishCounts DEF Counts
<1>3. CASE CommitReview(r)
  <2>1. request[r].pc = "commit" /\ request[r] \in Running
    BY <1>0, <1>3, BusySlot DEF CommitReview, At
  <2>2. Afterwards(r, {"notify"}) \/ Afterwards(r, {})
    BY <1>3 DEF CommitReview, NothingMatched
  <2> QED
    BY <1>0, <2>1, <2>2, AfterwardsCounts DEF Counts
<1> QED
  BY <1>1, <1>2, <1>3 DEF Proceed, TouchesCount

-----------------------------------------------------------------------------
(* Rows that were not submitted *)

\* A row that does not exist or is a DRAFT is flagged isDraft, so it is not live.
DraftRow(a) == a.stage \in {"NONE", "DRAFT"} => a.isDraft

DraftRows == \A k \in Keys : DraftRow(application[k])

LEMMA DraftStep ==
    ASSUME NEW a \in Row, NEW b \in Row, RowStep(a, b), DraftRow(a)
    PROVE  DraftRow(b)
<1>1. CASE \E k \in Keys, c \in Codes \union {NoCode} : b = Fresh(k, c)
  BY <1>1 DEF Fresh, DraftRow
<1>2. CASE a.stage = "DRAFT" /\ b = [a EXCEPT !.stage = "SUBMITTED", !.isDraft = FALSE]
  BY <1>2 DEF Row, DraftRow
<1>3. CASE \E t \in ReviewTargets : b = Reviewed(a, t)
  BY <1>3, ReviewedFlags DEF ReviewTargets, DraftRow
<1>4. CASE \/ b = a
           \/ \E c \in Codes \union {NoCode} : b = [a EXCEPT !.code = c]
           \/ b = [a EXCEPT !.deleted = TRUE]
  <2>1. b.stage = a.stage /\ b.isDraft = a.isDraft
    BY <1>4 DEF Row
  <2> QED
    BY <2>1 DEF DraftRow
<1> QED
  BY <1>1, <1>2, <1>3, <1>4 DEF RowStep

\* What the proofs about the counters rest on.
Base == TypeOK /\ SlotInv /\ DraftRows

LEMMA DraftRowsStep ==
    ASSUME TypeOK, TypeOK', SlotInv, DraftRows, [Next]_vars
    PROVE  DraftRows'
<1> SUFFICES ASSUME NEW k \in Keys PROVE DraftRow(application'[k])
  BY DEF DraftRows, DraftRow
<1>1. application[k] \in Row /\ application'[k] \in Row /\ DraftRow(application[k])
  BY DEF TypeOK, DraftRows
<1> QED
  BY <1>1, EveryRowStep, DraftStep

LEMMA BaseInitially == Init => Base
<1>1. Init => DraftRows
  BY DEF Init, DraftRows, DraftRow, NoRow
<1> QED
  BY <1>1, SlotInit, InitType DEF Base

LEMMA BaseStep ==
    ASSUME Base, [Next]_vars
    PROVE  Base'
<1>1. TypeOK' /\ SlotInv'
  BY TypeStep, SlotInductive DEF Base
<1> QED
  BY <1>1, DraftRowsStep DEF Base

LEMMA BaseCorrect == Spec => []Base
<1>1. Base /\ [Next]_vars => Base'
  BY BaseStep
<1> QED
  BY <1>1, BaseInitially, PTL DEF Spec

-----------------------------------------------------------------------------
(* applicationsCount *)

\* The balance of one opportunity.
Balanced(o) ==
    applicationsCount[o] =
        Cardinality(LiveOf(o)) + drift[o]
        - Cardinality(Counting(o, "submit")) + Cardinality(Counting(o, "withdraw"))

LEMMA LiveNumber ==
    ASSUME NEW o \in Opportunities
    PROVE  Cardinality(LiveOf(o)) \in Nat /\ Cardinality(LiveOf(o)') \in Nat
<1>1. LiveOf(o) \subseteq Candidates /\ LiveOf(o)' \subseteq Candidates
  BY DEF LiveOf
<1> QED
  BY <1>1, FiniteAssumption, FS_Subset, FS_CardinalityType

\* A step that leaves the counter, the drift and the number of live rows, and whose slot
\* has nothing to count before and after, keeps the balance.
LEMMA QuietBalance ==
    ASSUME NEW o \in Opportunities, Balanced(o), drift[o] \in Int, drift'[o] \in Int,
           NEW r \in Requests, \A p \in Requests \ {r} : request'[p] = request[p],
           ~Counts(request[r]), ~Counts(request'[r]),
           applicationsCount'[o] = applicationsCount[o],
           Cardinality(LiveOf(o)') + drift'[o] = Cardinality(LiveOf(o)) + drift[o]
    PROVE  Balanced(o)'
<1>1. ASSUME NEW op
      PROVE  /\ Cardinality(Counting(o, op)) \in Nat
             /\ Cardinality(Counting(o, op)') = Cardinality(Counting(o, op))
  <2>1. /\ Cardinality(Counting(o, op)) \in Nat /\ Cardinality(Counting(o, op)') \in Nat
        /\ Cardinality(Counting(o, op)') = Cardinality(Counting(o, op))
             + Bit(CountsFor(request'[r], op, o))
             - Bit(CountsFor(request[r], op, o))
    BY CountingChange
  <2> QED
    BY <2>1 DEF Bit, CountsFor
<1>2. /\ Cardinality(Counting(o, "submit")) \in Nat
      /\ Cardinality(Counting(o, "submit")') = Cardinality(Counting(o, "submit"))
      /\ Cardinality(Counting(o, "withdraw")) \in Nat
      /\ Cardinality(Counting(o, "withdraw")') = Cardinality(Counting(o, "withdraw"))
  BY <1>1
<1> QED
  BY <1>2, LiveNumber DEF Balanced

LEMMA LiveUnchanged ==
    ASSUME NEW o \in Opportunities, UNCHANGED application
    PROVE  LiveOf(o)' = LiveOf(o)
BY DEF LiveOf, Live

\* The statements of a request that write the row, outside submit and withdraw.
LEMMA QuietCounter ==
    ASSUME Base, NEW o \in Opportunities, Balanced(o), NEW r \in Requests,
           Arrive(r) \/ Proceed(r), ~TouchesCount(r)
    PROVE  Balanced(o)'
<1>0. /\ TypeOK /\ request \in Slots
      /\ \A p \in Requests \ {r} : request'[p] = request[p]
      /\ ~Counts(request[r]) /\ ~Counts(request'[r])
      /\ drift[o] \in Int /\ drift'[o] \in Int
  <2>1. TypeOK /\ TypeOK'
    BY ArriveType, ProceedType DEF Base
  <2> QED
    BY <2>1, QuietSlot, OneSlotMoves DEF TypeOK, Slots
<1>1. CASE UNCHANGED <<application, applicationsCount, drift>>
  <2>1. Cardinality(LiveOf(o)') + drift'[o] = Cardinality(LiveOf(o)) + drift[o]
    BY <1>1, LiveUnchanged
  <2> QED
    BY <1>0, <1>1, <2>1, QuietBalance
<1>2. CASE Insert(r) \/ Restore(r) \/ CommitUpdate(r) \/ CommitReview(r)
  <2> DEFINE q == request[r]
             k == q.key
  <2>1. q \in Running /\ q # Idle
    <3>1. q.pc # "idle"
      BY <1>2 DEF Insert, Restore, CommitUpdate, CommitReview, At
    <3> QED
      BY <1>0, <3>1, BusySlot DEF Idle
  <2>2. /\ k \in Keys /\ k[1] \in Opportunities
        /\ q.code \in Codes \union {NoCode} /\ q.target \in Stages
        /\ application[k] \in Row /\ application \in [Keys -> Row]
        /\ DraftRow(application[k])
        /\ drift \in [Opportunities -> Int]
    BY <1>0, <2>1, KeyParts DEF Running, TypeOK, Base, DraftRows
  <2>3. Fresh(k, q.code) \in Row /\ ~Live(Fresh(k, q.code))
    BY <2>2, FreshType DEF Fresh, Live
  <2> HIDE DEF q, k
  <2>4. ASSUME NEW b \in Row, application' = [application EXCEPT ![k] = b],
               applicationsCount'[o] = applicationsCount[o],
               drift'[o] = drift[o] + (IF o = k[1] THEN Bit(Live(application[k])) - Bit(Live(b)) ELSE 0)
        PROVE  Balanced(o)'
    <3>1. /\ Cardinality(LiveOf(o)) \in Nat /\ Cardinality(LiveOf(o)') \in Nat
          /\ o = k[1] => Cardinality(LiveOf(o)') =
                            Cardinality(LiveOf(o)) + Bit(Live(b)) - Bit(Live(application[k]))
          /\ o # k[1] => Cardinality(LiveOf(o)') = Cardinality(LiveOf(o))
      BY <1>0, <2>2, <2>4, LiveChange
    <3>2. drift[o] \in Int /\ Bit(Live(b)) \in Int /\ Bit(Live(application[k])) \in Int
      BY <2>2 DEF Bit
    <3>3. Cardinality(LiveOf(o)') + drift'[o] = Cardinality(LiveOf(o)) + drift[o]
      BY <2>4, <3>1, <3>2
    <3> QED
      BY <1>0, <2>4, <3>3, QuietBalance
  <2>5. CASE Insert(r) /\ ~Exists(k)
    <3>1. ~Live(application[k])
      BY <2>2, <2>5 DEF Exists, Live, DraftRow
    <3>2. /\ application' = [application EXCEPT ![k] = Fresh(k, q.code)]
          /\ UNCHANGED <<applicationsCount, drift>>
      BY <2>5 DEF Insert, q, k
    <3>3. drift'[o] = drift[o] + (IF o = k[1] THEN Bit(Live(application[k])) - Bit(Live(Fresh(k, q.code))) ELSE 0)
      BY <2>2, <2>3, <3>1, <3>2 DEF Bit
    <3> QED
      BY <2>3, <2>4, <3>2, <3>3
  <2>6. CASE Insert(r) /\ Exists(k)
    BY <1>1, <2>6 DEF Insert, k, q
  <2>7. CASE Restore(r)
    <3>1. /\ application' = [application EXCEPT ![k] = Fresh(k, q.code)]
          /\ UNCHANGED <<applicationsCount>>
          /\ drift' = [drift EXCEPT ![k[1]] = @ + (IF Live(application[k]) THEN 1 ELSE 0)]
      BY <2>7 DEF Restore, q, k
    <3>2. drift'[o] = drift[o] + (IF o = k[1] THEN Bit(Live(application[k])) - Bit(Live(Fresh(k, q.code))) ELSE 0)
      BY <2>2, <2>3, <3>1 DEF Bit
    <3> QED
      BY <2>3, <2>4, <3>1, <3>2
  <2>8. CASE CommitUpdate(r)
    <3> DEFINE b == [application[k] EXCEPT !.code = q.code]
    <3>1. b \in Row /\ (Live(b) <=> Live(application[k]))
      BY <2>2 DEF Row, Live
    <3>2. \/ application' = [application EXCEPT ![k] = b]
          \/ UNCHANGED application
      BY <2>2, <2>8 DEF CommitUpdate, q, k
    <3>3. UNCHANGED <<applicationsCount, drift>>
      BY <2>8 DEF CommitUpdate, history
    <3>4. drift'[o] = drift[o] + (IF o = k[1] THEN Bit(Live(application[k])) - Bit(Live(b)) ELSE 0)
      BY <2>2, <3>1, <3>3 DEF Bit
    <3> HIDE DEF b
    <3> QED
      BY <1>1, <2>4, <3>1, <3>2, <3>3, <3>4
  <2>9. CASE CommitReview(r)
    <3> DEFINE b == Reviewed(application[k], q.target)
    <3>1. b \in Row
      BY <2>2, ReviewedType
    <3>2. Live(b) <=> Live(application[k])
      <4> DEFINE closed == q.target \in {"SUCCESS", "ARCHIVED"}
      <4>1. b = [application[k] EXCEPT !.stage = q.target, !.isClosed = closed]
        BY DEF Reviewed
      <4> HIDE DEF closed, b
      <4> QED
        BY <2>2, <4>1 DEF Row, Live
    <3>3. /\ \/ application' = [application EXCEPT ![k] = b]
             \/ UNCHANGED application
          /\ UNCHANGED <<applicationsCount, drift>>
      BY <2>9 DEF CommitReview, q, k
    <3>4. drift'[o] = drift[o] + (IF o = k[1] THEN Bit(Live(application[k])) - Bit(Live(b)) ELSE 0)
      BY <2>2, <3>2, <3>3 DEF Bit
    <3> HIDE DEF b
    <3> QED
      BY <1>1, <2>4, <3>1, <3>3, <3>4
  <2> QED
    BY <1>2, <2>5, <2>6, <2>7, <2>8, <2>9
<1>3. \/ UNCHANGED <<application, applicationsCount, drift>>
      \/ Insert(r) \/ Restore(r) \/ CommitUpdate(r) \/ CommitReview(r)
  BY DEF Arrive, BeginCreate, BeginUpdate, BeginSubmit, BeginReview, BeginWithdraw,
         Proceed, FindExisting, CheckReferral, Abort, TouchesCount, tables, history
<1> QED
  BY <1>1, <1>2, <1>3

\* The counter moves by d and by what the slot starts and stops to count.
CounterMoves(r, o, d) ==
    applicationsCount'[o] =
        applicationsCount[o] + d
          - Bit(CountsFor(request'[r], "submit", o)) + Bit(CountsFor(request[r], "submit", o))
          + Bit(CountsFor(request'[r], "withdraw", o)) - Bit(CountsFor(request[r], "withdraw", o))

\* The same, for a step whose slot may start or stop to count: what it moves must add up.
LEMMA MovingBalance ==
    ASSUME NEW o \in Opportunities, Balanced(o), TypeOK, TypeOK', NEW r \in Requests,
           \A p \in Requests \ {r} : request'[p] = request[p],
           NEW d \in Int, Cardinality(LiveOf(o)') + drift'[o] = Cardinality(LiveOf(o)) + drift[o] + d,
           CounterMoves(r, o, d)
    PROVE  Balanced(o)'
<1> DEFINE s0 == Bit(CountsFor(request[r], "submit", o))
           s1 == Bit(CountsFor(request'[r], "submit", o))
           w0 == Bit(CountsFor(request[r], "withdraw", o))
           w1 == Bit(CountsFor(request'[r], "withdraw", o))
<1>1. /\ drift[o] \in Int /\ drift'[o] \in Int
      /\ applicationsCount[o] \in Int /\ applicationsCount'[o] \in Int
  BY DEF TypeOK
<1>2. s0 \in Int /\ s1 \in Int /\ w0 \in Int /\ w1 \in Int
  BY DEF Bit
<1>3. /\ Cardinality(Counting(o, "submit")) \in Nat /\ Cardinality(Counting(o, "submit")') \in Nat
      /\ Cardinality(Counting(o, "submit")') = Cardinality(Counting(o, "submit")) + s1 - s0
  BY CountingChange
<1>4. /\ Cardinality(Counting(o, "withdraw")) \in Nat /\ Cardinality(Counting(o, "withdraw")') \in Nat
      /\ Cardinality(Counting(o, "withdraw")') = Cardinality(Counting(o, "withdraw")) + w1 - w0
  BY CountingChange
<1>5. applicationsCount'[o] = applicationsCount[o] + d - s1 + s0 + w1 - w0
  BY DEF CounterMoves
<1> HIDE DEF s0, s1, w0, w1
<1>6. Cardinality(LiveOf(o)) \in Nat /\ Cardinality(LiveOf(o)') \in Nat
  BY LiveNumber
<1>7. applicationsCount[o] = Cardinality(LiveOf(o)) + drift[o]
        - Cardinality(Counting(o, "submit")) + Cardinality(Counting(o, "withdraw"))
  BY DEF Balanced
<1>8. applicationsCount'[o] = Cardinality(LiveOf(o)') + drift'[o]
        - Cardinality(Counting(o, "submit")') + Cardinality(Counting(o, "withdraw")')
  <2> DEFINE a0 == applicationsCount[o]
             a1 == applicationsCount'[o]
             l0 == Cardinality(LiveOf(o))
             l1 == Cardinality(LiveOf(o)')
             d0 == drift[o]
             d1 == drift'[o]
             c0 == Cardinality(Counting(o, "submit"))
             c1 == Cardinality(Counting(o, "submit")')
             e0 == Cardinality(Counting(o, "withdraw"))
             e1 == Cardinality(Counting(o, "withdraw")')
  <2>1. /\ a0 \in Int /\ a1 \in Int /\ l0 \in Int /\ l1 \in Int /\ d0 \in Int /\ d1 \in Int
        /\ c0 \in Int /\ c1 \in Int /\ e0 \in Int /\ e1 \in Int
    BY <1>1, <1>3, <1>4, <1>6
  <2>2. /\ a0 = l0 + d0 - c0 + e0 /\ a1 = a0 + d - s1 + s0 + w1 - w0
        /\ c1 = c0 + s1 - s0 /\ e1 = e0 + w1 - w0 /\ l1 + d1 = l0 + d0 + d
    BY <1>3, <1>4, <1>5, <1>7
  <2> HIDE DEF a0, a1, l0, l1, d0, d1, c0, c1, e0, e1
  <2>3. a1 = l1 + d1 - c1 + e1
    BY <1>2, <2>1, <2>2
  <2> QED
    BY <2>3 DEF a1, l1, d1, c1, e1
<1> QED
  BY <1>8 DEF Balanced

\* Where a statement of submit or withdraw, or one that follows a write, comes from.
LEMMA TouchingSlot ==
    ASSUME Base, NEW r \in Requests, TouchesCount(r)
    PROVE  /\ TypeOK /\ TypeOK' /\ request \in Slots /\ request[r] \in Running
           /\ \A p \in Requests \ {r} : request'[p] = request[p]
           /\ request[r].key \in Keys /\ request[r].key[1] \in Opportunities
           /\ application[request[r].key] \in Row /\ DraftRow(application[request[r].key])
           /\ SlotOK(request[r], outcomes)
<1>1. request[r].pc # "idle"
  BY DEF TouchesCount, CommitSubmit, CommitWithdraw, ApplyCount, LoseCount, Notify, SkipNotify,
         At, Pending
<1>2. TypeOK /\ TypeOK' /\ request \in Slots
  BY ProceedType DEF Proceed, TouchesCount, Base, TypeOK, Slots
<1>3. request[r] \in Running /\ request[r] # Idle
  BY <1>1, <1>2, BusySlot DEF Idle
<1>4. \A p \in Requests \ {r} : request'[p] = request[p]
  BY <1>2, OneSlotMoves DEF Proceed, TouchesCount
<1>5. request[r].key \in Keys /\ request[r].key[1] \in Opportunities
  BY <1>3, KeyParts DEF Running
<1> QED
  BY <1>2, <1>3, <1>4, <1>5 DEF Base, SlotInv, DraftRows, TypeOK

LEMMA SubmitCounter ==
    ASSUME Base, NEW o \in Opportunities, Balanced(o), NEW r \in Requests, CommitSubmit(r)
    PROVE  Balanced(o)'
<1> DEFINE q == request[r]
           k == q.key
           a == application[k]
<1>1. /\ TypeOK /\ TypeOK' /\ request \in Slots /\ q \in Running
      /\ \A p \in Requests \ {r} : request'[p] = request[p]
      /\ k \in Keys /\ k[1] \in Opportunities /\ a \in Row /\ DraftRow(a)
  BY TouchingSlot DEF TouchesCount
<1>2. ~Counts(q) /\ q.op = "submit"
  BY DEF CommitSubmit, At, Counts
<1>3. drift[o] \in Int /\ drift'[o] \in Int /\ applicationsCount \in [Opportunities -> Int]
      /\ drift \in [Opportunities -> Int]
  BY <1>1 DEF TypeOK
<1> HIDE DEF q, k, a
<1>4. CASE SubmitFilter(a)
  <2> DEFINE b == [a EXCEPT !.stage = "SUBMITTED", !.isDraft = FALSE]
  <2>1. b \in Row /\ (Live(b) <=> ~a.deleted) /\ ~Live(a)
    BY <1>1, <1>4 DEF Row, Stages, Live, SubmitFilter, DraftRow
  <2>2. application' = [application EXCEPT ![k] = b]
    BY <1>1, <1>4 DEF CommitSubmit, TypeOK, q, k, a
  <2>3. /\ drift' = [drift EXCEPT ![k[1]] = @ + (IF a.deleted THEN 1 ELSE 0)]
        /\ Afterwards(r, {"count", "notify"})
        /\ UNCHANGED applicationsCount
    BY <1>4 DEF CommitSubmit, q, k, a
  <2>4. /\ Counts(request'[r])
        /\ request'[r].op = "submit" /\ request'[r].key = k
    BY <1>1, <1>2, <2>3, AfterwardsCounts DEF q, k
  <2> HIDE DEF b
  <2>5. /\ Cardinality(LiveOf(o)) \in Nat /\ Cardinality(LiveOf(o)') \in Nat
        /\ o = k[1] => Cardinality(LiveOf(o)') =
                          Cardinality(LiveOf(o)) + Bit(Live(b)) - Bit(Live(application[k]))
        /\ o # k[1] => Cardinality(LiveOf(o)') = Cardinality(LiveOf(o))
    BY <1>1, <2>1, <2>2, LiveChange
  <2>6. CASE o = k[1]
    <3>1. Cardinality(LiveOf(o)') + drift'[o] = Cardinality(LiveOf(o)) + drift[o] + 1
      BY <1>1, <1>3, <2>1, <2>3, <2>5, <2>6 DEF Bit, a
    <3>2. CounterMoves(r, o, 1)
      BY <1>2, <1>3, <2>3, <2>4, <2>6 DEF CounterMoves, CountsFor, Bit, q
    <3> QED
      BY <1>1, <3>1, <3>2, MovingBalance
  <2>7. CASE o # k[1]
    <3>1. Cardinality(LiveOf(o)') + drift'[o] = Cardinality(LiveOf(o)) + drift[o] + 0
      BY <1>1, <1>3, <2>3, <2>5, <2>7
    <3>2. CounterMoves(r, o, 0)
      BY <1>2, <1>3, <2>3, <2>4, <2>7 DEF CounterMoves, CountsFor, Bit, q
    <3> QED
      BY <1>1, <3>1, <3>2, MovingBalance
  <2> QED
    BY <2>6, <2>7
<1>5. CASE ~SubmitFilter(a)
  <2>1. Finish(r) /\ UNCHANGED <<application, applicationsCount, drift>>
    BY <1>5 DEF CommitSubmit, Afterwards, NothingMatched, q, k, a
  <2>2. ~Counts(request'[r])
    BY <1>1, <2>1, FinishCounts
  <2>3. Cardinality(LiveOf(o)') + drift'[o] = Cardinality(LiveOf(o)) + drift[o]
    BY <2>1, LiveUnchanged
  <2> QED
    BY <1>1, <1>2, <1>3, <2>1, <2>2, <2>3, QuietBalance DEF q
<1> QED
  BY <1>4, <1>5

LEMMA WithdrawCounter ==
    ASSUME Base, NEW o \in Opportunities, Balanced(o), NEW r \in Requests, CommitWithdraw(r)
    PROVE  Balanced(o)'
<1> DEFINE q == request[r]
           k == q.key
           a == application[k]
<1>1. /\ TypeOK /\ TypeOK' /\ request \in Slots /\ q \in Running
      /\ \A p \in Requests \ {r} : request'[p] = request[p]
      /\ k \in Keys /\ k[1] \in Opportunities /\ a \in Row
  BY TouchingSlot DEF TouchesCount
<1>2. ~Counts(q) /\ q.op = "withdraw"
  BY DEF CommitWithdraw, At, Counts
<1>3. drift[o] \in Int /\ drift'[o] \in Int /\ applicationsCount \in [Opportunities -> Int]
      /\ drift \in [Opportunities -> Int] /\ q.counted \in BOOLEAN
  BY <1>1 DEF TypeOK, Running
<1> HIDE DEF q, k, a
<1>4. CASE WithdrawFilter(a)
  <2> DEFINE b == [a EXCEPT !.deleted = TRUE]
  <2>1. b \in Row /\ ~Live(b)
    BY <1>1 DEF Row, Live
  <2>2. application' = [application EXCEPT ![k] = b]
    BY <1>1, <1>4 DEF CommitWithdraw, TypeOK, q, k, a
  <2>3. /\ drift' = [drift EXCEPT ![k[1]] = @ + Miscounted(a, q.counted)]
        /\ Afterwards(r, IF q.counted THEN {"count"} ELSE {})
        /\ UNCHANGED applicationsCount
    BY <1>4 DEF CommitWithdraw, q, k, a
  <2>4. /\ Counts(request'[r]) <=> q.counted
        /\ q.counted => request'[r].op = "withdraw" /\ request'[r].key = k
    <3>1. (IF q.counted THEN {"count"} ELSE {}) \in SUBSET {"count", "notify"}
      OBVIOUS
    <3> QED
      BY <1>1, <1>2, <2>3, <3>1, AfterwardsCounts DEF q, k
  <2>5. Miscounted(a, q.counted) = Bit(Live(a)) - Bit(q.counted)
    BY <1>3 DEF Miscounted, Bit
  <2> HIDE DEF b
  <2>6. /\ Cardinality(LiveOf(o)) \in Nat /\ Cardinality(LiveOf(o)') \in Nat
        /\ o = k[1] => Cardinality(LiveOf(o)') =
                          Cardinality(LiveOf(o)) + Bit(Live(b)) - Bit(Live(application[k]))
        /\ o # k[1] => Cardinality(LiveOf(o)') = Cardinality(LiveOf(o))
    BY <1>1, <2>1, <2>2, LiveChange
  <2>7. CASE o = k[1]
    <3>1. Bit(q.counted) \in Int /\ Bit(Live(a)) \in Int /\ Bit(Live(b)) = 0
      BY <2>1 DEF Bit
    <3>2. drift'[o] = drift[o] + (Bit(Live(a)) - Bit(q.counted))
      BY <1>1, <1>3, <2>3, <2>5, <2>7
    <3>3. Cardinality(LiveOf(o)') + drift'[o] = Cardinality(LiveOf(o)) + drift[o] + (0 - Bit(q.counted))
      BY <1>1, <1>3, <2>6, <2>7, <3>1, <3>2 DEF a
    <3>4. CounterMoves(r, o, 0 - Bit(q.counted))
      BY <1>2, <1>3, <2>3, <2>4, <2>7 DEF CounterMoves, CountsFor, Bit, q
    <3> QED
      BY <1>1, <3>1, <3>3, <3>4, MovingBalance
  <2>8. CASE o # k[1]
    <3>1. Cardinality(LiveOf(o)') + drift'[o] = Cardinality(LiveOf(o)) + drift[o] + 0
      BY <1>1, <1>3, <2>3, <2>6, <2>8
    <3>2. CounterMoves(r, o, 0)
      BY <1>2, <1>3, <2>3, <2>4, <2>8 DEF CounterMoves, CountsFor, Bit, q
    <3> QED
      BY <1>1, <3>1, <3>2, MovingBalance
  <2> QED
    BY <2>7, <2>8
<1>5. CASE ~WithdrawFilter(a)
  <2>1. Finish(r) /\ UNCHANGED <<application, applicationsCount, drift>>
    BY <1>5 DEF CommitWithdraw, Afterwards, NothingMatched, q, k, a
  <2>2. ~Counts(request'[r])
    BY <1>1, <2>1, FinishCounts
  <2>3. Cardinality(LiveOf(o)') + drift'[o] = Cardinality(LiveOf(o)) + drift[o]
    BY <2>1, LiveUnchanged
  <2> QED
    BY <1>1, <1>2, <1>3, <2>1, <2>2, <2>3, QuietBalance DEF q
<1> QED
  BY <1>4, <1>5

\* The statements after the write: counting once, losing the count, notifying or not.
LEMMA AfterCounter ==
    ASSUME Base, NEW o \in Opportunities, Balanced(o), NEW r \in Requests,
           ApplyCount(r) \/ LoseCount(r) \/ Notify(r) \/ SkipNotify(r)
    PROVE  Balanced(o)'
<1> DEFINE q == request[r]
           k == q.key
<1>1. /\ TypeOK /\ TypeOK' /\ request \in Slots /\ q \in Running
      /\ \A p \in Requests \ {r} : request'[p] = request[p]
      /\ k \in Keys /\ k[1] \in Opportunities /\ SlotOK(q, outcomes)
  BY TouchingSlot DEF TouchesCount
<1>2. drift[o] \in Int /\ drift'[o] \in Int /\ applicationsCount \in [Opportunities -> Int]
      /\ drift \in [Opportunities -> Int] /\ q.todo \in SUBSET {"count", "notify"}
  BY <1>1 DEF TypeOK, Running
<1>3. UNCHANGED application /\ Cardinality(LiveOf(o)') = Cardinality(LiveOf(o))
  <2>1. UNCHANGED application
    BY DEF ApplyCount, LoseCount, Notify, SkipNotify, tables
  <2> QED
    BY <2>1, LiveUnchanged
<1> HIDE DEF q, k
<1>4. CASE ApplyCount(r) \/ LoseCount(r)
  <2>1. q.pc = "after" /\ "count" \in q.todo /\ Afterwards(r, q.todo \ {"count"})
    BY <1>4 DEF ApplyCount, LoseCount, Pending, Without, q
  <2>2. Counts(q) /\ q.op \in {"submit", "withdraw"}
    BY <1>1, <2>1 DEF SlotOK, Counts
  <2>3. ~Counts(request'[r])
    BY <1>1, <1>2, <2>1, AfterwardsCounts DEF q
  <2>4. CASE ApplyCount(r)
    <3>1. /\ applicationsCount' = [applicationsCount EXCEPT ![k[1]] = @ + Step(q)]
          /\ UNCHANGED drift
      BY <2>4 DEF ApplyCount, history, q, k
    <3>2. CounterMoves(r, o, 0)
      BY <1>1, <1>2, <2>2, <2>3, <3>1 DEF CounterMoves, CountsFor, Bit, Step, q, k
    <3>3. Cardinality(LiveOf(o)') + drift'[o] = Cardinality(LiveOf(o)) + drift[o] + 0
      BY <1>2, <1>3, <3>1, LiveNumber
    <3> QED
      BY <1>1, <3>2, <3>3, MovingBalance
  <2>5. CASE LoseCount(r)
    <3>1. /\ drift' = [drift EXCEPT ![k[1]] = @ - Step(q)]
          /\ UNCHANGED applicationsCount
      BY <2>5 DEF LoseCount, tables, q, k
    <3> DEFINE d == IF o = k[1] THEN 0 - Step(q) ELSE 0
    <3>2. Step(q) \in Int /\ d \in Int
      BY DEF Step
    <3>3. CounterMoves(r, o, d)
      BY <1>1, <1>2, <2>2, <2>3, <3>1 DEF CounterMoves, CountsFor, Bit, Step, q, k
    <3>4. drift'[o] = drift[o] + d
      BY <1>1, <1>2, <3>1, <3>2
    <3> HIDE DEF d
    <3>5. Cardinality(LiveOf(o)') + drift'[o] = Cardinality(LiveOf(o)) + drift[o] + d
      BY <1>2, <1>3, <3>2, <3>4, LiveNumber
    <3> QED
      BY <1>1, <3>2, <3>3, <3>5, MovingBalance
  <2> QED
    BY <1>4, <2>4, <2>5
<1>5. CASE Notify(r) \/ SkipNotify(r)
  <2>1. q.pc = "after" /\ Afterwards(r, q.todo \ {"notify"}) /\ UNCHANGED <<applicationsCount, drift>>
    BY <1>5 DEF Notify, SkipNotify, Pending, Without, tables, history, q
  <2>2. /\ Counts(request'[r]) <=> Counts(q)
        /\ Counts(q) => request'[r].op = q.op /\ request'[r].key = q.key
    <3>1. q.todo \ {"notify"} \in SUBSET {"count", "notify"}
      BY <1>2
    <3> QED
      BY <1>1, <2>1, <3>1, AfterwardsCounts DEF q, Counts
  <2>3. CounterMoves(r, o, 0)
    BY <1>2, <2>1, <2>2 DEF CounterMoves, CountsFor, Bit, q
  <2>4. Cardinality(LiveOf(o)') + drift'[o] = Cardinality(LiveOf(o)) + drift[o] + 0
    BY <1>2, <1>3, <2>1, LiveNumber
  <2> QED
    BY <1>1, <2>3, <2>4, MovingBalance
<1> QED
  BY <1>4, <1>5

LEMMA CounterInitially == Init => CounterAccounting
<1> SUFFICES ASSUME Init, NEW o \in Opportunities PROVE Balanced(o)
  BY DEF CounterAccounting, Balanced
<1>1. LiveOf(o) = {} /\ Counting(o, "submit") = {} /\ Counting(o, "withdraw") = {}
  BY DEF Init, LiveOf, Live, NoRow, Counting, Pending, Idle, Keys
<1>2. applicationsCount[o] = 0 /\ drift[o] = 0
  BY DEF Init
<1> QED
  BY <1>1, <1>2, FS_EmptySet DEF Balanced

LEMMA CounterStep ==
    ASSUME Base, CounterAccounting, [Next]_vars
    PROVE  CounterAccounting'
<1> SUFFICES ASSUME NEW o \in Opportunities PROVE Balanced(o)'
  BY DEF CounterAccounting, Balanced
<1>1. Balanced(o)
  BY DEF CounterAccounting, Balanced
<1>2. ASSUME NEW r \in Requests, Arrive(r) \/ Proceed(r) PROVE Balanced(o)'
  BY <1>1, <1>2, QuietCounter, SubmitCounter, WithdrawCounter, AfterCounter DEF TouchesCount
<1>3. ASSUME UNCHANGED <<application, applicationsCount, drift, request>> PROVE Balanced(o)'
  BY <1>1, <1>3 DEF Balanced, LiveOf, Live, Counting, Pending
<1>4. CASE Environment
  BY <1>3, <1>4 DEF Environment, ToggleOpportunity, RemoveOpportunity, ExpireReferral, history
<1>5. CASE UNCHANGED vars
  BY <1>3, <1>5 DEF vars, tables, history
<1> QED
  BY <1>2, <1>4, <1>5 DEF Next

\* In every interleaving the counter differs from the number of live submissions only by
\* the updates in flight and by what the listed events leave behind.
THEOREM CounterCorrect == Spec => []CounterAccounting
<1>1. Base /\ CounterAccounting /\ [Next]_vars => CounterAccounting'
  BY CounterStep
<1> QED
  BY <1>1, CounterInitially, BaseCorrect, PTL DEF Spec

-----------------------------------------------------------------------------
(* usesCount *)

Credited(c) == usesCount[c] + Cardinality(CountingCode(c)) <= uses[c]

\* A step credits a code at most by what its slot stops to count, and its slot starts to
\* count only for a submission committed with the code.
LEMMA CreditStep ==
    ASSUME NEW c \in Codes, Credited(c), TypeOK, TypeOK', NEW r \in Requests,
           \A p \in Requests \ {r} : request'[p] = request[p],
           NEW d \in Int, NEW u \in Int,
           usesCount'[c] = usesCount[c] + d, uses'[c] = uses[c] + u,
           d + Bit(Counts(request'[r]) /\ request'[r].code = c)
              <= u + Bit(Counts(request[r]) /\ request[r].code = c)
    PROVE  Credited(c)'
<1> DEFINE before == Bit(Counts(request[r]) /\ request[r].code = c)
           then == Bit(Counts(request'[r]) /\ request'[r].code = c)
<1>1. /\ Cardinality(CountingCode(c)) \in Nat /\ Cardinality(CountingCode(c)') \in Nat
      /\ Cardinality(CountingCode(c)') = Cardinality(CountingCode(c)) + then - before
  BY CodeChange
<1>2. before \in Int /\ then \in Int /\ d + then <= u + before
  BY DEF Bit
<1>3. /\ usesCount[c] \in Int /\ usesCount'[c] \in Int /\ uses[c] \in Int /\ uses'[c] \in Int
  BY DEF TypeOK
<1> HIDE DEF before, then
<1> QED
  BY <1>1, <1>2, <1>3 DEF Credited

LEMMA TouchingCredit ==
    ASSUME Base, NEW c \in Codes, Credited(c), NEW r \in Requests, TouchesCount(r)
    PROVE  Credited(c)'
<1> DEFINE q == request[r]
<1>1. /\ TypeOK /\ TypeOK' /\ request \in Slots /\ q \in Running
      /\ \A p \in Requests \ {r} : request'[p] = request[p]
      /\ SlotOK(q, outcomes)
  BY TouchingSlot
<1>2. /\ q.todo \in SUBSET {"count", "notify"}
      /\ usesCount \in [Codes -> Nat] /\ uses \in [Codes -> Nat]
      /\ NoCode # c
  BY <1>1, CodesAssumption DEF TypeOK, Running
<1> HIDE DEF q
<1>3. CASE CommitSubmit(r) /\ SubmitFilter(application[q.key])
  <2>1. /\ ~Counts(q) /\ Afterwards(r, {"count", "notify"})
        /\ uses' = [d \in Codes |-> uses[d] + (IF d = q.code THEN 1 ELSE 0)]
        /\ UNCHANGED usesCount
    BY <1>3 DEF CommitSubmit, At, Counts, q
  <2>2. Counts(request'[r]) /\ request'[r].code = q.code
    BY <1>1, <2>1, AfterwardsCounts DEF q
  <2> DEFINE u == IF c = q.code THEN 1 ELSE 0
  <2>3. usesCount'[c] = usesCount[c] + 0 /\ uses'[c] = uses[c] + u /\ u \in Int
    BY <1>2, <2>1
  <2>4. 0 + Bit(Counts(request'[r]) /\ request'[r].code = c)
           <= u + Bit(Counts(request[r]) /\ request[r].code = c)
    BY <2>1, <2>2 DEF Bit, q
  <2> HIDE DEF u
  <2> QED
    BY <1>1, <2>3, <2>4, CreditStep
<1>4. CASE \/ CommitSubmit(r) /\ ~SubmitFilter(application[q.key])
           \/ CommitWithdraw(r)
  <2>1. /\ Afterwards(r, {}) \/ (Afterwards(r, {"count"}) /\ q.op = "withdraw")
        /\ UNCHANGED <<usesCount, uses>>
    BY <1>4 DEF CommitSubmit, CommitWithdraw, NothingMatched, At, q
  <2>2. ~(Counts(request'[r]) /\ request'[r].code = c)
    <3>1. CASE Afterwards(r, {})
      BY <1>1, <3>1, AfterwardsCounts DEF q
    <3>2. CASE Afterwards(r, {"count"}) /\ q.op = "withdraw"
      <4>1. request'[r].code = q.code
        BY <1>1, <3>2, AfterwardsCounts DEF q
      <4> QED
        BY <1>1, <1>2, <3>2, <4>1 DEF SlotOK
    <3> QED
      BY <2>1, <3>1, <3>2
  <2>3. usesCount'[c] = usesCount[c] + 0 /\ uses'[c] = uses[c] + 0
    BY <1>2, <2>1
  <2>4. 0 + Bit(Counts(request'[r]) /\ request'[r].code = c)
           <= 0 + Bit(Counts(request[r]) /\ request[r].code = c)
    BY <2>2 DEF Bit
  <2> QED
    BY <1>1, <2>3, <2>4, CreditStep
<1>5. CASE ApplyCount(r) \/ LoseCount(r)
  <2>1. /\ Counts(q) /\ Afterwards(r, q.todo \ {"count"})
        /\ UNCHANGED uses
    BY <1>5 DEF ApplyCount, LoseCount, Pending, Without, Counts, history, q
  <2>2. ~Counts(request'[r])
    BY <1>1, <1>2, <2>1, AfterwardsCounts DEF q
  <2>3. \/ usesCount' = [d \in Codes |-> usesCount[d] + (IF d = q.code THEN 1 ELSE 0)]
        \/ UNCHANGED usesCount
    BY <1>5 DEF ApplyCount, LoseCount, tables, q
  <2>4. PICK d \in Int : usesCount'[c] = usesCount[c] + d /\ d <= Bit(q.code = c)
    BY <1>2, <2>3 DEF Bit
  <2>5. uses'[c] = uses[c] + 0
    BY <1>2, <2>1
  <2>6. d + Bit(Counts(request'[r]) /\ request'[r].code = c)
           <= 0 + Bit(Counts(request[r]) /\ request[r].code = c)
    BY <2>1, <2>2, <2>4 DEF Bit, q
  <2> QED
    BY <1>1, <2>4, <2>5, <2>6, CreditStep
<1>6. CASE Notify(r) \/ SkipNotify(r)
  <2>1. q.pc = "after" /\ Afterwards(r, q.todo \ {"notify"}) /\ UNCHANGED <<usesCount, uses>>
    BY <1>6 DEF Notify, SkipNotify, Pending, Without, tables, history, q
  <2>2. /\ Counts(request'[r]) <=> Counts(q)
        /\ Counts(q) => request'[r].code = q.code
    <3>1. q.todo \ {"notify"} \in SUBSET {"count", "notify"}
      BY <1>2
    <3> QED
      BY <1>1, <2>1, <3>1, AfterwardsCounts DEF q, Counts
  <2>3. usesCount'[c] = usesCount[c] + 0 /\ uses'[c] = uses[c] + 0
    BY <1>2, <2>1
  <2>4. 0 + Bit(Counts(request'[r]) /\ request'[r].code = c)
           <= 0 + Bit(Counts(request[r]) /\ request[r].code = c)
    BY <2>2 DEF Bit, q
  <2> QED
    BY <1>1, <2>3, <2>4, CreditStep
<1> QED
  BY <1>3, <1>4, <1>5, <1>6 DEF TouchesCount

LEMMA QuietCredit ==
    ASSUME Base, NEW c \in Codes, Credited(c), NEW r \in Requests,
           Arrive(r) \/ Proceed(r), ~TouchesCount(r)
    PROVE  Credited(c)'
<1>1. /\ TypeOK /\ TypeOK'
      /\ \A p \in Requests \ {r} : request'[p] = request[p]
      /\ ~Counts(request[r]) /\ ~Counts(request'[r])
  BY ArriveType, ProceedType, QuietSlot, OneSlotMoves DEF Base
<1>2. UNCHANGED <<usesCount, uses>>
  BY DEF Arrive, BeginCreate, BeginUpdate, BeginSubmit, BeginReview, BeginWithdraw,
         Proceed, FindExisting, Insert, Restore, CommitUpdate, CheckReferral, CommitReview,
         Abort, TouchesCount, tables, history
<1>3. usesCount'[c] = usesCount[c] + 0 /\ uses'[c] = uses[c] + 0
  BY <1>1, <1>2 DEF TypeOK
<1>4. 0 + Bit(Counts(request'[r]) /\ request'[r].code = c)
         <= 0 + Bit(Counts(request[r]) /\ request[r].code = c)
  BY <1>1 DEF Bit
<1> QED
  BY <1>1, <1>3, <1>4, CreditStep

LEMMA UsesInitially == Init => UsesAccounting
<1> SUFFICES ASSUME Init, NEW c \in Codes PROVE Credited(c)
  BY DEF UsesAccounting, Credited
<1>1. CountingCode(c) = {} /\ usesCount[c] = 0 /\ uses[c] = 0
  BY DEF Init, CountingCode, Pending, Idle
<1> QED
  BY <1>1, FS_EmptySet DEF Credited

LEMMA UsesInductive ==
    ASSUME Base, UsesAccounting, [Next]_vars
    PROVE  UsesAccounting'
<1> SUFFICES ASSUME NEW c \in Codes PROVE Credited(c)'
  BY DEF UsesAccounting, Credited
<1>1. Credited(c)
  BY DEF UsesAccounting, Credited
<1>2. ASSUME NEW r \in Requests, Arrive(r) \/ Proceed(r) PROVE Credited(c)'
  BY <1>1, <1>2, QuietCredit, TouchingCredit
<1>3. ASSUME UNCHANGED <<usesCount, uses, request>> PROVE Credited(c)'
  BY <1>1, <1>3 DEF Credited, CountingCode, Pending
<1>4. CASE Environment
  BY <1>3, <1>4 DEF Environment, ToggleOpportunity, RemoveOpportunity, ExpireReferral, history
<1>5. CASE UNCHANGED vars
  BY <1>3, <1>5 DEF vars, tables, history
<1> QED
  BY <1>2, <1>4, <1>5 DEF Next

\* A referral code is never credited with more uses than submissions were committed with it.
THEOREM UsesCorrect == Spec => []UsesAccounting
BY UsesInitially, UsesInductive, BaseCorrect, PTL DEF Spec

-----------------------------------------------------------------------------
(* The nightly recount *)

\* What the recount holds while it writes.  As long as no request has run since it read the
\* tables, its numbers are those of the tables.
RecountInv ==
    /\ recount \in [pc : {"idle", "writing"}, counts : [Opportunities -> Nat],
                    todo : SUBSET Opportunities]
    /\ recount.pc = "idle" => recount.todo = {}
    /\ recount.pc = "writing" /\ quiet =>
          NoRequest /\ \A o \in Opportunities : recount.counts[o] = Cardinality(LiveOf(o))

LEMMA CountedAreLive ==
    ASSUME NEW o \in Opportunities
    PROVE  CountedOf(o) = LiveOf(o)
BY DEF CountedOf, LiveOf, Counted, Live

\* With no request in progress nothing is in flight: only the drift tells the counter from
\* the table.
LEMMA QuietlyBalanced ==
    ASSUME TypeOK, NoRequest, CounterAccounting, NEW o \in Opportunities
    PROVE  applicationsCount[o] = Cardinality(LiveOf(o)) + drift[o]
<1>1. Counting(o, "submit") = {} /\ Counting(o, "withdraw") = {}
  BY DEF NoRequest, Counting, Pending, Idle
<1>2. drift[o] \in Int /\ Cardinality(LiveOf(o)) \in Nat
  BY LiveNumber DEF TypeOK
<1>3. Cardinality(Counting(o, "submit")) = 0 /\ Cardinality(Counting(o, "withdraw")) = 0
  BY <1>1, FS_EmptySet
<1>4. applicationsCount[o] = Cardinality(LiveOf(o)) + drift[o]
        - Cardinality(Counting(o, "submit")) + Cardinality(Counting(o, "withdraw"))
  BY DEF CounterAccounting
<1> QED
  BY <1>2, <1>3, <1>4

\* Writing a number into the counter leaves its account in balance: the drift takes up the
\* difference.
LEMMA WriteBalanced ==
    ASSUME Base, CounterAccounting, RecountInv, NEW o \in Opportunities, RecountWrite(o)
    PROVE  Base' /\ CounterAccounting'
<1>1. UNCHANGED <<application, opportunity, referral, usesCount, inbox, request, born, uses, outcomes>>
  BY DEF RecountWrite
<1>2. recount.counts[o] \in Int /\ applicationsCount \in [Opportunities -> Int]
      /\ drift \in [Opportunities -> Int]
  BY DEF RecountInv, Base, TypeOK
<1>3. /\ applicationsCount' = [applicationsCount EXCEPT ![o] = recount.counts[o]]
      /\ drift' = [drift EXCEPT ![o] = @ + recount.counts[o] - applicationsCount[o]]
  BY DEF RecountWrite
<1>4. applicationsCount' \in [Opportunities -> Int] /\ drift' \in [Opportunities -> Int]
  BY <1>2, <1>3
<1>5. TypeOK'
  BY <1>1, <1>4 DEF Base, TypeOK
<1>6. SlotInv' /\ DraftRows'
  BY <1>1 DEF Base, SlotInv, DraftRows, DraftRow
<1>7. ASSUME NEW p \in Opportunities PROVE Balanced(p)'
  <2>1. Balanced(p)
    BY DEF CounterAccounting, Balanced
  <2>2. /\ LiveOf(p)' = LiveOf(p)
        /\ Counting(p, "submit")' = Counting(p, "submit")
        /\ Counting(p, "withdraw")' = Counting(p, "withdraw")
    BY <1>1 DEF LiveOf, Live, Counting, Pending
  <2>3. /\ Cardinality(LiveOf(p)) \in Int
        /\ Cardinality(Counting(p, "submit")) \in Int
        /\ Cardinality(Counting(p, "withdraw")) \in Int
    <3>1. Counting(p, "submit") \subseteq Requests /\ Counting(p, "withdraw") \subseteq Requests
      BY DEF Counting
    <3> QED
      BY <3>1, LiveNumber, FiniteAssumption, FS_Subset, FS_CardinalityType
  <2>4. applicationsCount'[p] - drift'[p] = applicationsCount[p] - drift[p]
    BY <1>2, <1>3
  <2>5. /\ applicationsCount[p] \in Int /\ applicationsCount'[p] \in Int
        /\ drift[p] \in Int /\ drift'[p] \in Int
    BY <1>2, <1>4
  <2> QED
    BY <2>1, <2>2, <2>3, <2>4, <2>5 DEF Balanced
<1> QED
  BY <1>5, <1>6, <1>7 DEF Base, CounterAccounting, Balanced

LEMMA RecountInductive ==
    ASSUME Base, CounterAccounting, RecountInv, [RecountNext]_allVars
    PROVE  Base' /\ CounterAccounting' /\ RecountInv'
<1>1. CASE Workflow
  <2>1. UNCHANGED recount /\ [Next]_vars
    BY <1>1 DEF Workflow, Next
  <2>2. Base' /\ CounterAccounting'
    BY <2>1, BaseStep, CounterStep
  <2>3. CASE \E r \in Requests : Arrive(r) \/ Proceed(r)
    <3>1. CASE quiet' = FALSE
      BY <2>1, <2>2, <3>1 DEF RecountInv
    <3>2. CASE quiet' # FALSE
      <4>1. Environment /\ UNCHANGED quiet
        BY <1>1, <3>2 DEF Workflow
      <4>2. UNCHANGED <<request, application>>
        BY <4>1 DEF Environment, ToggleOpportunity, RemoveOpportunity, ExpireReferral
      <4>3. NoRequest' <=> NoRequest
        BY <4>2 DEF NoRequest
      <4>4. \A o \in Opportunities : LiveOf(o)' = LiveOf(o)
        BY <4>2, LiveUnchanged
      <4> QED
        BY <2>1, <2>2, <4>1, <4>3, <4>4 DEF RecountInv
    <3> QED
      BY <3>1, <3>2
  <2>4. CASE Environment /\ UNCHANGED quiet
    <3>1. UNCHANGED <<request, application>>
      BY <2>4 DEF Environment, ToggleOpportunity, RemoveOpportunity, ExpireReferral
    <3>2. NoRequest' <=> NoRequest
      BY <3>1 DEF NoRequest
    <3>3. \A o \in Opportunities : LiveOf(o)' = LiveOf(o)
      BY <3>1, LiveUnchanged
    <3> QED
      BY <2>1, <2>2, <2>4, <3>2, <3>3 DEF RecountInv
  <2> QED
    BY <1>1, <2>3, <2>4 DEF Workflow
<1>2. ASSUME UNCHANGED vars PROVE Base' /\ CounterAccounting'
  BY <1>2, BaseStep, CounterStep
<1>3. ASSUME NEW engaged \in SUBSET Opportunities, RecountRead(engaged)
      PROVE  Base' /\ CounterAccounting' /\ RecountInv'
  <2>1. UNCHANGED vars /\ quiet' = NoRequest
    BY <1>3 DEF RecountRead
  <2>2. Base' /\ CounterAccounting' /\ NoRequest' = NoRequest
    BY <1>2, <2>1 DEF NoRequest, vars
  <2>3. recount' = [pc |-> "writing",
                    counts |-> [o \in Opportunities |-> Cardinality(CountedOf(o))],
                    todo |-> {o \in Opportunities : CountedOf(o) # {}} \union engaged]
    BY <1>3 DEF RecountRead
  <2>4. \A o \in Opportunities : /\ CountedOf(o) = LiveOf(o) /\ LiveOf(o)' = LiveOf(o)
                                /\ Cardinality(LiveOf(o)) \in Nat
    BY <2>1, CountedAreLive, LiveUnchanged, LiveNumber DEF vars, tables
  <2>5. /\ recount'.pc = "writing"
        /\ recount' \in [pc : {"idle", "writing"}, counts : [Opportunities -> Nat],
                         todo : SUBSET Opportunities]
    BY <2>3, <2>4
  <2>6. \A o \in Opportunities : recount'.counts[o] = Cardinality(LiveOf(o)')
    BY <2>3, <2>4
  <2> QED
    BY <2>1, <2>2, <2>5, <2>6 DEF RecountInv
<1>4. ASSUME NEW o \in Opportunities, RecountWrite(o)
      PROVE  Base' /\ CounterAccounting' /\ RecountInv'
  <2>1. Base' /\ CounterAccounting'
    BY <1>4, WriteBalanced
  <2>2. /\ recount' = [recount EXCEPT !.todo = @ \ {o}] /\ recount.pc = "writing"
        /\ UNCHANGED <<application, request, quiet>>
    BY <1>4 DEF RecountWrite
  <2>3. recount'.pc = "writing" /\ recount'.counts = recount.counts
        /\ recount' \in [pc : {"idle", "writing"}, counts : [Opportunities -> Nat],
                         todo : SUBSET Opportunities]
    BY <2>2 DEF RecountInv
  <2>4. NoRequest' <=> NoRequest
    BY <2>2 DEF NoRequest
  <2>5. \A p \in Opportunities : LiveOf(p)' = LiveOf(p)
    BY <2>2, LiveUnchanged
  <2> QED
    BY <2>1, <2>2, <2>3, <2>4, <2>5 DEF RecountInv
<1>5. CASE RecountDone \/ RecountAbort
  <2>1. UNCHANGED vars /\ recount' = Resting
    BY <1>5 DEF RecountDone, RecountAbort
  <2>2. recount'.pc = "idle" /\ recount'.todo = {}
        /\ recount' \in [pc : {"idle", "writing"}, counts : [Opportunities -> Nat],
                         todo : SUBSET Opportunities]
    BY <2>1 DEF Resting
  <2> QED
    BY <1>2, <2>1, <2>2 DEF RecountInv
<1>6. CASE UNCHANGED allVars
  <2>1. UNCHANGED <<recount, quiet, request, application>> /\ UNCHANGED vars
    BY <1>6 DEF allVars, vars, tables
  <2>2. NoRequest' <=> NoRequest
    BY <2>1 DEF NoRequest
  <2>3. \A p \in Opportunities : LiveOf(p)' = LiveOf(p)
    BY <2>1, LiveUnchanged
  <2> QED
    BY <1>2, <2>1, <2>2, <2>3 DEF RecountInv
<1> QED
  BY <1>1, <1>3, <1>4, <1>5, <1>6 DEF RecountNext

\* The numbers that the recount writes when no request runs meanwhile are exact, and all that
\* the counter owed is settled.
LEMMA QuietWriteExact ==
    ASSUME Base, CounterAccounting, RecountInv, [RecountNext]_allVars, NEW o \in Opportunities,
           o \in recount.todo, o \notin recount'.todo, recount'.pc = "writing", quiet
    PROVE  applicationsCount'[o] = Cardinality(LiveOf(o)) /\ drift'[o] = 0
<1>1. recount.pc # "idle"
  BY DEF RecountInv
<1>2. PICK p \in Opportunities : RecountWrite(p)
  <2>1. ~ UNCHANGED recount
    OBVIOUS
  <2>2. ~Workflow /\ ~ UNCHANGED allVars
    BY <2>1 DEF Workflow, allVars
  <2>3. ~RecountDone /\ ~RecountAbort
    <3>1. Resting.pc = "idle"
      BY DEF Resting
    <3> QED
      BY <3>1 DEF RecountDone, RecountAbort
  <2>4. \A engaged \in SUBSET Opportunities : ~RecountRead(engaged)
    BY <1>1 DEF RecountRead
  <2> QED
    BY <2>2, <2>3, <2>4 DEF RecountNext
<1>3. p = o
  BY <1>2 DEF RecountWrite, RecountInv
<1>4. /\ applicationsCount \in [Opportunities -> Int] /\ drift \in [Opportunities -> Int]
      /\ Cardinality(LiveOf(o)) \in Nat
  BY LiveNumber DEF Base, TypeOK
<1>5. NoRequest /\ recount.counts[o] = Cardinality(LiveOf(o))
  BY <1>2 DEF RecountInv, RecountWrite
<1>6. applicationsCount[o] = Cardinality(LiveOf(o)) + drift[o]
  BY <1>5, QuietlyBalanced DEF Base
<1>7. applicationsCount'[o] = recount.counts[o]
      /\ drift'[o] = drift[o] + recount.counts[o] - applicationsCount[o]
  BY <1>2, <1>3, <1>4 DEF RecountWrite
<1> QED
  BY <1>4, <1>5, <1>6, <1>7

\* For any number of opportunities, candidates and requests, whatever the counters have drifted:
\* a recount that no request overlaps leaves every counter that it writes exact.
THEOREM RecountExact == RecountSpec => RecountIsExact
<1> DEFINE Inv == Base /\ CounterAccounting /\ RecountInv
           Exact == \A o \in Opportunities :
                       o \in recount.todo /\ o \notin recount'.todo /\ recount'.pc = "writing" /\ quiet
                          => applicationsCount'[o] = Cardinality(LiveOf(o)) /\ drift'[o] = 0
<1>1. RecountInit => Inv
  <2>1. recount = Resting => RecountInv
    BY DEF RecountInv, Resting
  <2> QED
    BY <2>1, BaseInitially, CounterInitially DEF RecountInit
<1>2. Inv /\ [RecountNext]_allVars => Inv'
  BY RecountInductive
<1>3. Inv /\ [RecountNext]_allVars => [Exact]_allVars
  BY QuietWriteExact
<1> QED
  BY <1>1, <1>2, <1>3, PTL DEF RecountSpec, RecountIsExact

\* What a step of the recount may touch: the counter and, with it, the drift.
LEMMA RecountTouches ==
    ASSUME [RecountNext]_allVars
    PROVE  \/ [Next]_vars
           \/ UNCHANGED <<application, opportunity, referral, usesCount, inbox, request,
                          born, uses, outcomes>>
BY DEF RecountNext, Workflow, RecountRead, RecountWrite, RecountDone, RecountAbort, allVars, Next

LEMMA RecountKeeps ==
    ASSUME Base, Base', FlagsFollowStage, NoticesAreTrue, UsesAccounting, [RecountNext]_allVars
    PROVE  FlagsFollowStage' /\ NoticesAreTrue' /\ UsesAccounting'
<1>1. CASE [Next]_vars
  BY <1>1, FlagsInductive, InboxStep, UsesInductive DEF Base
<1>2. CASE UNCHANGED <<application, opportunity, referral, usesCount, inbox, request,
                       born, uses, outcomes>>
  BY <1>2 DEF FlagsFollowStage, NoticesAreTrue, UsesAccounting, CountingCode, Pending
<1> QED
  BY <1>1, <1>2, RecountTouches

\* The recount runs next to the workflow without any synchronisation, and yet everything that
\* holds of the workflow alone holds of the two together: rows, notifications and codes are
\* untouched, and the counter stays in account with the drift that the recount leaves.
THEOREM RecountSafe ==
    RecountSpec => [](/\ TypeOK /\ FlagsFollowStage /\ NoticesAreTrue
                      /\ CounterAccounting /\ UsesAccounting)
<1> DEFINE Inv == Base /\ CounterAccounting /\ RecountInv
           Kept == FlagsFollowStage /\ NoticesAreTrue /\ UsesAccounting
<1>1. RecountInit => Inv
  <2>1. recount = Resting => RecountInv
    BY DEF RecountInv, Resting
  <2> QED
    BY <2>1, BaseInitially, CounterInitially DEF RecountInit
<1>2. RecountInit => Kept
  <2>1. Init => NoticesAreTrue
    BY DEF Init, NoticesAreTrue
  <2> QED
    BY <2>1, FlagsInitially, UsesInitially DEF RecountInit
<1>3. Inv /\ [RecountNext]_allVars => Inv'
  BY RecountInductive
<1>4. Inv /\ Inv' /\ Kept /\ [RecountNext]_allVars => Kept'
  BY RecountKeeps
<1>5. Inv /\ Kept => /\ TypeOK /\ FlagsFollowStage /\ NoticesAreTrue
                     /\ CounterAccounting /\ UsesAccounting
  BY DEF Base
<1> QED
  BY <1>1, <1>2, <1>3, <1>4, <1>5, PTL DEF RecountSpec

\* Nor does it disturb the order of events in a row or a code, although it may run between any
\* two statements of a request.
THEOREM RecountKeepsOrder ==
    RecountSpec => SubmittedFromDraftOnly /\ NoDecisionAfterWithdrawal /\ CompletedIsFinal
<1> DEFINE Inv == Base /\ CounterAccounting /\ RecountInv
<1>1. RecountInit => Inv
  <2>1. recount = Resting => RecountInv
    BY DEF RecountInv, Resting
  <2> QED
    BY <2>1, BaseInitially, CounterInitially DEF RecountInit
<1>2. Inv /\ [RecountNext]_allVars => Inv'
  BY RecountInductive
<1>3. Inv /\ Inv' /\ [RecountNext]_allVars =>
          [DraftsOnly]_application /\ [WithdrawnUndecided]_application /\ [CompletedKept]_referral
  <2> SUFFICES ASSUME Base, Base', [RecountNext]_allVars
               PROVE  [DraftsOnly]_application /\ [WithdrawnUndecided]_application
                      /\ [CompletedKept]_referral
    OBVIOUS
  <2>1. CASE [Next]_vars
    BY <2>1, RowRules, CodeRule DEF Base
  <2>2. CASE UNCHANGED <<application, referral>>
    BY <2>2
  <2> QED
    BY <2>1, <2>2, RecountTouches
<1> QED
  BY <1>1, <1>2, <1>3, PTL DEF RecountSpec, SubmittedFromDraftOnly, NoDecisionAfterWithdrawal,
     CompletedIsFinal, DraftsOnly, WithdrawnUndecided, CompletedKept
=============================================================================
