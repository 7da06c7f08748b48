------------------------ MODULE ApplicationsRecount -------------------------
(***************************************************************************)
(* The application workflow together with the nightly recount of its       *)
(* counters (CronService._recountOpportunityCounters, the step of          *)
(* recountAllCounters that concerns applicationsCount).                    *)
(*                                                                         *)
(* The recount first groups the tables, then writes the opportunities it   *)
(* found one statement at a time, while requests keep running.  It is not  *)
(* synchronised with them in any way.                                      *)
(***************************************************************************)
EXTENDS Applications

VARIABLES
    recount,   \* the job: what it read and what it has left to write
    quiet      \* history: no request ran since the recount read the tables

allVars == <<vars, recount, quiet>>

Resting == [pc |-> "idle", counts |-> [o \in Opportunities |-> 0], todo |-> {}]

NoRequest == \A r \in Requests : request[r] = Idle

\* Variant of Counted, the count scripts/resync-counters.ts takes: withdrawn rows included.
WithdrawnToo(a) == ~a.isDraft

\* The applications an opportunity is credited with: isDraft false and deletedAt null.
Counted(a) == ~a.isDraft /\ ~a.deleted

CountedOf(o) == {c \in Candidates : Counted(application[<<o, c>>])}

\* groupBy returns no group for an opportunity without rows, so allIds holds only those
\* with a counted application or with a like or a save (engaged, which is another
\* component's state and arbitrary here).
RecountRead(engaged) ==
    /\ recount.pc = "idle"
    /\ recount' = [pc |-> "writing",
                   counts |-> [o \in Opportunities |-> Cardinality(CountedOf(o))],
                   todo |-> {o \in Opportunities : CountedOf(o) # {}} \union engaged]
    /\ quiet' = NoRequest
    /\ UNCHANGED vars

RecountWrite(o) ==
    /\ recount.pc = "writing"
    /\ o \in recount.todo
    /\ applicationsCount' = [applicationsCount EXCEPT ![o] = recount.counts[o]]
    /\ drift' = [drift EXCEPT ![o] = @ + recount.counts[o] - applicationsCount[o]]
    /\ recount' = [recount EXCEPT !.todo = @ \ {o}]
    /\ UNCHANGED <<application, opportunity, referral, usesCount, inbox, request,
                   born, uses, outcomes, quiet>>

RecountDone ==
    /\ recount.pc = "writing"
    /\ recount.todo = {}
    /\ recount' = Resting
    /\ UNCHANGED <<vars, quiet>>

\* The job fails (logged only) or its instance stops: what is written stays.
RecountAbort ==
    /\ recount.pc = "writing"
    /\ recount.todo # {}
    /\ recount' = Resting
    /\ UNCHANGED <<vars, quiet>>

Workflow ==
    \/ /\ \E r \in Requests : Arrive(r) \/ Proceed(r)
       /\ quiet' = FALSE
       /\ UNCHANGED recount
    \/ Environment /\ UNCHANGED <<recount, quiet>>

RecountInit == Init /\ recount = Resting /\ quiet = FALSE

RecountNext ==
    \/ Workflow
    \/ \E engaged \in SUBSET Opportunities : RecountRead(engaged)
    \/ \E o \in Opportunities : RecountWrite(o)
    \/ RecountDone \/ RecountAbort

RecountSpec == RecountInit /\ [][RecountNext]_allVars

-----------------------------------------------------------------------------

\* When no request runs between the read and the write, an opportunity the recount writes
\* gets the number of its live submissions, and all earlier drift of its counter is gone.
RecountIsExact ==
    [][\A o \in Opportunities :
          o \in recount.todo /\ o \notin recount'.todo /\ recount'.pc = "writing" /\ quiet
             => applicationsCount'[o] = Cardinality(LiveOf(o)) /\ drift'[o] = 0]_allVars
=============================================================================
