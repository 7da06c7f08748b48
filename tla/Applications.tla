---------------------------- MODULE Applications ----------------------------
(***************************************************************************)
(* The application workflow of ApplicationsService: a candidate creates,   *)
(* edits, submits and withdraws an application to an opportunity, and the  *)
(* owner of the opportunity reviews it.                                    *)
(*                                                                         *)
(* Every request is a sequence of database statements with an await        *)
(* between them; one action is one statement.  A request keeps what it     *)
(* read (the snapshot its later statements use) in its slot, and any other *)
(* request, on this or another instance, may run between two statements.   *)
(* The counter update that submit and withdraw start without awaiting it,  *)
(* and the in-app notification, run after the write in any order, and      *)
(* either may be lost (a failed statement is only logged, a stopped        *)
(* instance forgets it).                                                   *)
(*                                                                         *)
(* A request whose first read rejects it (not found, wrong user, wrong     *)
(* stage) changes nothing: its first action is simply not enabled.         *)
(***************************************************************************)
EXTENDS Integers, FiniteSets

CONSTANTS
    Opportunities,
    Candidates,
    Codes,            \* referral codes that exist
    NoCode,           \* referralCodeUsed = null
    Eligible,         \* the pairs <<code, key>> where the code is not the candidate's
                      \* own and is not bound to another opportunity
    Requests,         \* slots for requests in progress
    MaxIncarnations   \* bound on the times one row is created or restored

Keys == Opportunities \X Candidates    \* @@unique([opportunityId, candidateId])

ASSUME CodesAssumption == NoCode \notin Codes /\ Eligible \subseteq Codes \X Keys
ASSUME BoundAssumption == MaxIncarnations \in Nat
ASSUME FiniteAssumption == IsFiniteSet(Candidates) /\ IsFiniteSet(Requests)

VARIABLES
    application,        \* the applications table
    opportunity,        \* what submit and create read of the opportunity
    applicationsCount,  \* Opportunity.applicationsCount
    referral,           \* ReferralCode.status
    usesCount,          \* ReferralCode.usesCount
    inbox,              \* in-app notifications written
    request,            \* the requests in progress
    (***********************************************************************)
    (* History: what happened, read by no action                           *)
    (***********************************************************************)
    born,               \* how often the row was created or restored
    drift,              \* what the counter owes to races and lost updates
    uses,               \* submissions committed with the code
    outcomes            \* what was committed and may be notified

tables == <<application, opportunity, applicationsCount, referral, usesCount, inbox>>
history == <<born, drift, uses, outcomes>>
vars == <<tables, request, history>>

-----------------------------------------------------------------------------
(* The tables *)

Stages == {"DRAFT", "SUBMITTED", "OWNER_REVIEW", "READY_TO_SUBMIT", "SUCCESS", "ARCHIVED"}

Row == [stage : Stages \union {"NONE"}, isDraft : BOOLEAN, isClosed : BOOLEAN,
        deleted : BOOLEAN, code : Codes \union {NoCode}]

NoRow == [stage |-> "NONE", isDraft |-> TRUE, isClosed |-> FALSE,
          deleted |-> FALSE, code |-> NoCode]

Exists(k) == application[k].stage # "NONE"

\* OPEN: ACTIVE and before its deadline; CLOSED: any other status or past the deadline;
\* DELETED: deletedAt is set.
OpportunityStates == {"OPEN", "CLOSED", "DELETED"}

ReferralStates == {"ACTIVE", "EXPIRED", "COMPLETED"}

-----------------------------------------------------------------------------
(* The requests *)

Operations == {"create", "update", "submit", "review", "withdraw"}

Idle == [pc |-> "idle"]

\* code: the referral code of the payload (create, update) or of the snapshot (submit, review);
\* target: the stage a review asks for; counted: the snapshot's wasCounted (withdraw).
Running == [pc : {"lookup", "insert", "restore", "referral", "commit", "after"},
            op : Operations, key : Keys, code : Codes \union {NoCode},
            target : Stages, counted : BOOLEAN, todo : SUBSET {"count", "notify"}]

Started(op, pc, k, c) ==
    [pc |-> pc, op |-> op, key |-> k, code |-> c,
     target |-> "DRAFT", counted |-> FALSE, todo |-> {}]

At(r, op, pc) == request[r].pc = pc /\ request[r].op = op

Become(r, record) == request' = [request EXCEPT ![r] = record]

Goto(r, pc) == Become(r, [request[r] EXCEPT !.pc = pc])

Finish(r) == Become(r, Idle)

\* What is still to run after the request's write: nothing left frees the slot.
Afterwards(r, todo) ==
    IF todo = {} THEN Finish(r)
    ELSE Become(r, [request[r] EXCEPT !.pc = "after", !.todo = todo])

\* Variant of NothingMatched: the affected-row count is not looked at.
CountUnchecked == {"count", "notify"}

\* What follows an updateMany whose filter matched no row (count = 0): an error response.
NothingMatched == {}

-----------------------------------------------------------------------------
(* create *)

\* Variant of Fresh: the restoration forgets to reset isClosed.
ClosedFlagKept(k, c) ==
    [stage |-> "DRAFT", isDraft |-> TRUE, isClosed |-> application[k].isClosed,
     deleted |-> FALSE, code |-> c]

\* The row create leaves behind, new or restored.
Fresh(k, c) ==
    [stage |-> "DRAFT", isDraft |-> TRUE, isClosed |-> FALSE, deleted |-> FALSE, code |-> c]

Live(a) == ~a.isDraft /\ ~a.deleted

BeginCreate(r, k, c) ==
    /\ request[r] = Idle
    /\ opportunity[k[1]] # "DELETED"
    /\ Become(r, Started("create", "lookup", k, c))
    /\ UNCHANGED <<tables, history>>

FindExisting(r) ==
    LET k == request[r].key IN
    /\ At(r, "create", "lookup")
    /\ \/ ~Exists(k) /\ Goto(r, "insert")
       \/ Exists(k) /\ application[k].deleted /\ Goto(r, "restore")
       \/ Exists(k) /\ ~application[k].deleted /\ Finish(r)    \* Conflict
    /\ UNCHANGED <<tables, history>>

\* The unique constraint turns the second of two concurrent inserts into a Conflict.
Insert(r) ==
    LET k == request[r].key IN
    /\ At(r, "create", "insert")
    /\ \/ /\ ~Exists(k)
          /\ born[k] < MaxIncarnations
          /\ application' = [application EXCEPT ![k] = Fresh(k, request[r].code)]
          /\ born' = [born EXCEPT ![k] = @ + 1]
       \/ Exists(k) /\ UNCHANGED <<application, born>>
    /\ Finish(r)
    /\ UNCHANGED <<opportunity, applicationsCount, referral, usesCount, inbox,
                   drift, uses, outcomes>>

\* The restoring update is filtered by id only: whatever the row has become since it was
\* read as withdrawn is overwritten.
Restore(r) ==
    LET k == request[r].key IN
    /\ At(r, "create", "restore")
    /\ born[k] < MaxIncarnations
    /\ application' = [application EXCEPT ![k] = Fresh(k, request[r].code)]
    /\ born' = [born EXCEPT ![k] = @ + 1]
    /\ drift' = [drift EXCEPT ![k[1]] = @ + (IF Live(application[k]) THEN 1 ELSE 0)]
    /\ Finish(r)
    /\ UNCHANGED <<opportunity, applicationsCount, referral, usesCount, inbox, uses, outcomes>>

-----------------------------------------------------------------------------
(* update: only the referral code of the payload matters to the other operations *)

BeginUpdate(r, k, c) ==
    /\ request[r] = Idle
    /\ application[k].stage = "DRAFT"
    /\ Become(r, Started("update", "commit", k, c))
    /\ UNCHANGED <<tables, history>>

\* The update is filtered by id only.  A payload without a code leaves the code alone.
CommitUpdate(r) ==
    /\ At(r, "update", "commit")
    /\ \/ application' = [application EXCEPT ![request[r].key].code = request[r].code]
       \/ UNCHANGED application
    /\ Finish(r)
    /\ UNCHANGED <<opportunity, applicationsCount, referral, usesCount, inbox, history>>

-----------------------------------------------------------------------------
(* submit *)

BeginSubmit(r, k) ==
    LET a == application[k] IN
    /\ request[r] = Idle
    /\ a.stage = "DRAFT"
    /\ opportunity[k[1]] = "OPEN"
    /\ Become(r, Started("submit", IF a.code = NoCode THEN "commit" ELSE "referral", k, a.code))
    /\ UNCHANGED <<tables, history>>

CheckReferral(r) ==
    LET q == request[r] IN
    /\ At(r, "submit", "referral")
    /\ IF referral[q.code] = "ACTIVE" /\ <<q.code, q.key>> \in Eligible
       THEN Goto(r, "commit")
       ELSE Finish(r)
    /\ UNCHANGED <<tables, history>>

\* Variant of the three where clauses below: the row is filtered by its id alone.
AnyRow(a) == a = a

\* The where clause of submit's updateMany.
SubmitFilter(a) == a.stage = "DRAFT"

CommitSubmit(r) ==
    LET k == request[r].key
        a == application[k]
        c == request[r].code
    IN
    /\ At(r, "submit", "commit")
    /\ \/ /\ SubmitFilter(a)
          /\ application' = [application EXCEPT ![k].stage = "SUBMITTED", ![k].isDraft = FALSE]
          /\ drift' = [drift EXCEPT ![k[1]] = @ + (IF a.deleted THEN 1 ELSE 0)]
          /\ uses' = [d \in Codes |-> uses[d] + (IF d = c THEN 1 ELSE 0)]
          /\ outcomes' = outcomes \union {<<"RECEIVED", k>>}
          /\ Afterwards(r, {"count", "notify"})
       \/ /\ ~SubmitFilter(a)
          /\ Afterwards(r, NothingMatched)
          /\ UNCHANGED <<application, drift, uses, outcomes>>
    /\ UNCHANGED <<opportunity, applicationsCount, referral, usesCount, inbox, born>>

-----------------------------------------------------------------------------
(* review *)

ValidTransitions ==
    {<<"SUBMITTED", "OWNER_REVIEW">>, <<"SUBMITTED", "ARCHIVED">>,
     <<"OWNER_REVIEW", "SUCCESS">>, <<"OWNER_REVIEW", "ARCHIVED">>,
     <<"READY_TO_SUBMIT", "SUCCESS">>, <<"READY_TO_SUBMIT", "ARCHIVED">>}

BeginReview(r, k, target) ==
    LET a == application[k] IN
    /\ request[r] = Idle
    /\ ~a.deleted
    /\ <<a.stage, target>> \in ValidTransitions
    /\ Become(r, [Started("review", "commit", k, a.code) EXCEPT !.target = target])
    /\ UNCHANGED <<tables, history>>

\* The where clause of review's updateMany: the stage is not in it.
ReviewFilter(a) == ~a.deleted

Verdict(target) == IF target = "SUCCESS" THEN "ACCEPTED" ELSE "REVIEWED"

\* Variant of Reviewed: the notification type is written into the stage.
VerdictAsStage(a, target) ==
    [a EXCEPT !.stage = Verdict(target), !.isClosed = target \in {"SUCCESS", "ARCHIVED"}]

Reviewed(a, target) ==
    [a EXCEPT !.stage = target, !.isClosed = target \in {"SUCCESS", "ARCHIVED"}]

\* The referral codes an accepted application completes (status not COMPLETED already).
Completed(q) == IF q.target = "SUCCESS" THEN {q.code} ELSE {}

CommitReview(r) ==
    LET q == request[r]
        k == q.key
    IN
    /\ At(r, "review", "commit")
    /\ \/ /\ ReviewFilter(application[k])
          /\ application' = [application EXCEPT ![k] = Reviewed(@, q.target)]
          /\ referral' = [c \in Codes |-> IF c \in Completed(q) THEN "COMPLETED" ELSE referral[c]]
          /\ outcomes' = outcomes \union {<<Verdict(q.target), k>>}
          /\ Afterwards(r, {"notify"})
       \/ /\ ~ReviewFilter(application[k])
          /\ Afterwards(r, NothingMatched)
          /\ UNCHANGED <<application, referral, outcomes>>
    /\ UNCHANGED <<opportunity, applicationsCount, usesCount, inbox, born, drift, uses>>

-----------------------------------------------------------------------------
(* withdraw *)

NonWithdrawable == {"OWNER_REVIEW", "SUCCESS", "ARCHIVED"}

BeginWithdraw(r, k) ==
    LET a == application[k] IN
    /\ request[r] = Idle
    /\ Exists(k)
    /\ ~a.deleted
    /\ a.stage \notin NonWithdrawable
    /\ Become(r, [Started("withdraw", "commit", k, NoCode) EXCEPT !.counted = a.stage # "DRAFT"])
    /\ UNCHANGED <<tables, history>>

\* The where clause of withdraw's updateMany: the stage is not in it.
WithdrawFilter(a) == ~a.deleted

\* What a withdrawal leaves in the counter when wasCounted is stale.
Miscounted(a, counted) ==
    CASE Live(a) /\ ~counted -> 1
      [] ~Live(a) /\ counted -> -1
      [] OTHER -> 0

CommitWithdraw(r) ==
    LET q == request[r]
        k == q.key
    IN
    /\ At(r, "withdraw", "commit")
    /\ \/ /\ WithdrawFilter(application[k])
          /\ application' = [application EXCEPT ![k].deleted = TRUE]
          /\ drift' = [drift EXCEPT ![k[1]] = @ + Miscounted(application[k], q.counted)]
          /\ Afterwards(r, IF q.counted THEN {"count"} ELSE {})
       \/ /\ ~WithdrawFilter(application[k])
          /\ Afterwards(r, NothingMatched)
          /\ UNCHANGED <<application, drift>>
    /\ UNCHANGED <<opportunity, applicationsCount, referral, usesCount, inbox,
                   born, uses, outcomes>>

-----------------------------------------------------------------------------
(* After the write: the counter transaction and the notification *)

Step(q) == IF q.op = "submit" THEN 1 ELSE -1

Pending(r, task) == request[r].pc = "after" /\ task \in request[r].todo

\* Variant of Without: the task stays pending and runs again.
Repeated(q, task) == q.todo

\* Each of the two runs once; nothing retries it.
Without(q, task) == q.todo \ {task}

\* One transaction: the opportunity's counter and, for a submission with a code, its uses.
ApplyCount(r) ==
    LET q == request[r] IN
    /\ Pending(r, "count")
    /\ applicationsCount' = [applicationsCount EXCEPT ![q.key[1]] = @ + Step(q)]
    /\ usesCount' = [c \in Codes |-> usesCount[c] + (IF c = q.code THEN 1 ELSE 0)]
    /\ Afterwards(r, Without(q, "count"))
    /\ UNCHANGED <<application, opportunity, referral, inbox, history>>

\* The transaction fails and is only logged, or the instance stops before it ran.
LoseCount(r) ==
    LET q == request[r] IN
    /\ Pending(r, "count")
    /\ drift' = [drift EXCEPT ![q.key[1]] = @ - Step(q)]
    /\ Afterwards(r, Without(q, "count"))
    /\ UNCHANGED <<tables, born, uses, outcomes>>

Notice(q) == <<IF q.op = "submit" THEN "RECEIVED" ELSE Verdict(q.target), q.key>>

Notify(r) ==
    LET q == request[r] IN
    /\ Pending(r, "notify")
    /\ inbox' = inbox \union {Notice(q)}
    /\ Afterwards(r, Without(q, "notify"))
    /\ UNCHANGED <<application, opportunity, applicationsCount, referral, usesCount, history>>

\* Muted by a preference, deduplicated, failed, or the instance stopped.
SkipNotify(r) ==
    /\ Pending(r, "notify")
    /\ Afterwards(r, Without(request[r], "notify"))
    /\ UNCHANGED <<tables, history>>

\* A statement before the write fails, or the instance stops.
Abort(r) ==
    /\ request[r].pc \notin {"idle", "after"}
    /\ Finish(r)
    /\ UNCHANGED <<tables, history>>

-----------------------------------------------------------------------------
(* What the rest of the system does to the rows this workflow reads *)

\* The owner, an admin, the deadline or the archival cron closes it; an admin reopens it.
ToggleOpportunity(o) ==
    /\ opportunity[o] # "DELETED"
    /\ opportunity' = [opportunity EXCEPT ![o] = IF @ = "OPEN" THEN "CLOSED" ELSE "OPEN"]
    /\ UNCHANGED <<application, applicationsCount, referral, usesCount, inbox, request, history>>

RemoveOpportunity(o) ==
    /\ opportunity[o] # "DELETED"
    /\ opportunity' = [opportunity EXCEPT ![o] = "DELETED"]
    /\ UNCHANGED <<application, applicationsCount, referral, usesCount, inbox, request, history>>

\* Variant of Expirable: the status is not in the where clause.
OfAnyStatus(c) == referral[c] \in ReferralStates

\* The where clause of expireReferralCodes (the age of the code is left open).
Expirable(c) == referral[c] = "ACTIVE"

ExpireReferral(c) ==
    /\ Expirable(c)
    /\ referral' = [referral EXCEPT ![c] = "EXPIRED"]
    /\ UNCHANGED <<application, opportunity, applicationsCount, usesCount, inbox, request, history>>

-----------------------------------------------------------------------------

Init ==
    /\ application = [k \in Keys |-> NoRow]
    /\ opportunity = [o \in Opportunities |-> "OPEN"]
    /\ applicationsCount = [o \in Opportunities |-> 0]
    /\ referral = [c \in Codes |-> "ACTIVE"]
    /\ usesCount = [c \in Codes |-> 0]
    /\ inbox = {}
    /\ request = [r \in Requests |-> Idle]
    /\ born = [k \in Keys |-> 0]
    /\ drift = [o \in Opportunities |-> 0]
    /\ uses = [c \in Codes |-> 0]
    /\ outcomes = {}

Arrive(r) ==
    \E k \in Keys :
        \/ \E c \in Codes \union {NoCode} : BeginCreate(r, k, c) \/ BeginUpdate(r, k, c)
        \/ BeginSubmit(r, k)
        \/ \E target \in Stages : BeginReview(r, k, target)
        \/ BeginWithdraw(r, k)

Proceed(r) ==
    \/ FindExisting(r) \/ Insert(r) \/ Restore(r)
    \/ CommitUpdate(r)
    \/ CheckReferral(r) \/ CommitSubmit(r)
    \/ CommitReview(r)
    \/ CommitWithdraw(r)
    \/ ApplyCount(r) \/ LoseCount(r) \/ Notify(r) \/ SkipNotify(r)
    \/ Abort(r)

Environment ==
    \/ \E o \in Opportunities : ToggleOpportunity(o) \/ RemoveOpportunity(o)
    \/ \E c \in Codes : ExpireReferral(c)

Next ==
    \/ \E r \in Requests : Arrive(r) \/ Proceed(r)
    \/ Environment

Spec == Init /\ [][Next]_vars

-----------------------------------------------------------------------------
(* What the workflow guarantees in every interleaving *)

TypeOK ==
    /\ application \in [Keys -> Row]
    /\ opportunity \in [Opportunities -> OpportunityStates]
    /\ applicationsCount \in [Opportunities -> Int]
    /\ referral \in [Codes -> ReferralStates]
    /\ usesCount \in [Codes -> Nat]
    /\ inbox \subseteq {"RECEIVED", "ACCEPTED", "REVIEWED"} \X Keys
    /\ request \in [Requests -> Running \union {Idle}]
    /\ born \in [Keys -> 0 .. MaxIncarnations]
    /\ drift \in [Opportunities -> Int]
    /\ uses \in [Codes -> Nat]
    /\ outcomes \subseteq {"RECEIVED", "ACCEPTED", "REVIEWED"} \X Keys

\* The flags the lists and the recount read agree with the stage, whatever stale review,
\* withdrawal or restoration interleaves: a row is closed exactly in a terminal stage, and
\* a DRAFT is flagged isDraft.
FlagsFollowStage ==
    \A k \in Keys :
        /\ application[k].isClosed <=> application[k].stage \in {"SUCCESS", "ARCHIVED"}
        /\ application[k].stage = "DRAFT" => application[k].isDraft

LiveOf(o) == {c \in Candidates : Live(application[<<o, c>>])}

Counting(o, op) ==
    {r \in Requests : Pending(r, "count") /\ request[r].op = op /\ request[r].key[1] = o}

\* applicationsCount against the applications table: apart from the updates in flight it
\* differs from the number of live submissions only by what these events leave behind
\* (drift): a withdrawn draft that is submitted, a withdrawal whose wasCounted is stale, a
\* restoration over a submitted row, and lost updates.  No other interleaving of create,
\* submit, review and withdraw miscounts.
CounterAccounting ==
    \A o \in Opportunities :
        applicationsCount[o] =
            Cardinality(LiveOf(o)) + drift[o]
            - Cardinality(Counting(o, "submit")) + Cardinality(Counting(o, "withdraw"))

CountingCode(c) == {r \in Requests : Pending(r, "count") /\ request[r].code = c}

\* A referral code is never credited with more uses than submissions were committed with
\* it: a request that lost the race to submit credits nothing.
UsesAccounting ==
    \A c \in Codes : usesCount[c] + Cardinality(CountingCode(c)) <= uses[c]

\* Nobody is told of an outcome that was not committed, also when the row was withdrawn
\* or submitted by another request after this one read it.
NoticesAreTrue == inbox \subseteq outcomes

\* An application becomes SUBMITTED only from DRAFT, so a submission that was read as a
\* draft before another request submitted it never pulls it back from the owner's review.
SubmittedFromDraftOnly ==
    [][\A k \in Keys :
          application[k].stage # application'[k].stage /\ application'[k].stage = "SUBMITTED"
             => application[k].stage = "DRAFT"]_application

\* The owner's decision never lands on an application that stays withdrawn: only the
\* candidate's own submit moves its stage.
NoDecisionAfterWithdrawal ==
    [][\A k \in Keys :
          application[k].deleted /\ application'[k].deleted
             => /\ application'[k].isClosed = application[k].isClosed
                /\ application'[k].stage \in {application[k].stage, "SUBMITTED"}]_application

\* COMPLETED is the last status of a referral code, also when the expiry cron selects it
\* while an acceptance completes it.
CompletedIsFinal ==
    [][\A c \in Codes : referral[c] = "COMPLETED" => referral'[c] = "COMPLETED"]_referral

=============================================================================
