------------------------------- MODULE Email -------------------------------
(***************************************************************************)
(* Emails that EmailService sends asynchronously: the BullMQ queue in      *)
(* Redis, which EmailProcessor of every instance works on one job at a     *)
(* time, the fallback of the instance that could not enqueue, and the      *)
(* provider, which may answer, refuse, or not answer within ten seconds.   *)
(*                                                                         *)
(* An attempt is one call of sendEmail.  Its sender is an instance, for a  *)
(* job of the queue, or the email itself, for the fallback, which lives on *)
(* the instance that was asked to send it.  A crash is followed by a       *)
(* restart; Redis keeps what it has stored.                                *)
(***************************************************************************)
EXTENDS Integers, FiniteSets

CONSTANTS
    Instances,
    Emails,
    Attempts,       \* defaultJobOptions.attempts: 5
    Retries,        \* MAX_RETRIES of the fallback: 2
    MaxStalled,     \* how often BullMQ gives a stalled job back: 1
    MaxCrashes,     \* bound
    MaxOptOuts      \* bound

\* "none" is no job; the state of an active job is the instance that works on it.
JobStates == {"none", "waiting", "delayed", "completed", "failed"}

ASSUME SendersAssumption ==
    /\ IsFiniteSet(Instances)
    /\ Instances \intersect (Emails \union JobStates) = {}
ASSUME BoundsAssumption ==
    /\ Attempts \in Nat \ {0} /\ Retries \in Nat
    /\ MaxStalled \in Nat /\ MaxCrashes \in Nat /\ MaxOptOuts \in Nat

VARIABLES
    request,    \* the call of queue.add for an email and its instance
    job,        \* the job in Redis
    fallback,   \* the attempts that the fallback has left when its timer fires, or None
    attempt,    \* what each sender is doing
    copies,     \* how many copies the recipient has got
    late,       \* requests that the provider may still act on, answer or not
    optOut,     \* User.emailOptOut of the recipient
    crashes, optOuts,
    (***********************************************************************)
    (* History: read by no action                                          *)
    (***********************************************************************)
    doubt,      \* failures after which the email may have been sent or may yet be
    excuse      \* why an email need not arrive

bounds == <<crashes, optOuts>>
mail == <<copies, late>>
history == <<doubt, excuse>>
vars == <<request, job, fallback, attempt, mail, optOut, bounds, history>>

-----------------------------------------------------------------------------

Senders == Instances \union Emails

\* No fallback is under way.
None == Retries + 1

NoJob == [state |-> "none", made |-> 0, stalls |-> 0]

Idle == [pc |-> "idle"]

\* An attempt that begins after its recipient has opted out ought to be quiet.
Begun(e) == [pc |-> "lookup", email |-> e, quiet |-> optOut[e]]

Busy(s, pc) == attempt[s].pc = pc

At(s, pc) == attempt' = [attempt EXCEPT ![s].pc = pc]

MoreDoubt(e) == doubt' = [doubt EXCEPT ![e] = @ + 1]

Excuse(e, why) == excuse' = [excuse EXCEPT ![e] = @ \union {why}]

-----------------------------------------------------------------------------
(* sendEmailAsync *)

Request(e, i) ==
    /\ request[e].pc = "new"
    /\ request' = [request EXCEPT ![e] = [pc |-> "adding", at |-> i]]
    /\ UNCHANGED <<job, fallback, attempt, mail, optOut, bounds, history>>

Store(e) ==
    /\ request[e].pc = "adding"
    /\ job[e] = NoJob
    /\ job' = [job EXCEPT ![e].state = "waiting"]
    /\ UNCHANGED <<request, fallback, attempt, mail, optOut, bounds, history>>

\* Variant of FallsBack: the fallback starts in any case.
FallsBackAlways(added) == TRUE

\* Only a rejection of queue.add starts the fallback.
FallsBack(added) == ~added

\* queue.add resolves, or it rejects: also when the job was stored and the connection was lost.
AddEnds(e, added) ==
    /\ request[e].pc = "adding"
    /\ added => job[e] # NoJob
    /\ request' = [request EXCEPT ![e].pc = "done"]
    /\ fallback' = IF FallsBack(added) THEN [fallback EXCEPT ![e] = Retries] ELSE fallback
    /\ IF ~added /\ job[e] # NoJob THEN MoreDoubt(e) ELSE UNCHANGED doubt
    /\ UNCHANGED <<job, attempt, mail, optOut, bounds, excuse>>

\* setImmediate, or the timer of the backoff
BeginFallback(e) ==
    /\ fallback[e] # None /\ attempt[e] = Idle
    /\ attempt' = [attempt EXCEPT ![e] = Begun(e)]
    /\ UNCHANGED <<request, job, fallback, mail, optOut, bounds, history>>

-----------------------------------------------------------------------------
(* The queue *)

\* A worker processes one job at a time.
TakeJob(i, e) ==
    /\ attempt[i] = Idle
    /\ job[e].state = "waiting"
    /\ job' = [job EXCEPT ![e].state = i]
    /\ attempt' = [attempt EXCEPT ![i] = Begun(e)]
    /\ UNCHANGED <<request, fallback, mail, optOut, bounds, history>>

\* The backoff is over.
Promote(e) ==
    /\ job[e].state = "delayed"
    /\ job' = [job EXCEPT ![e].state = "waiting"]
    /\ UNCHANGED <<request, fallback, attempt, mail, optOut, bounds, history>>

Owned(e) == job[e].state \in Instances

Working(i, e) == attempt[i] # Idle /\ attempt[i].email = e

\* Its worker has not renewed the lock of the job: it is gone, or it was cut off from Redis and
\* goes on without it.
Stall(e) ==
    /\ Owned(e)
    /\ LET again == job[e].stalls < MaxStalled
       IN  /\ job' = [job EXCEPT ![e].state = IF again THEN "waiting" ELSE "failed",
                                 ![e].stalls = IF again THEN @ + 1 ELSE @]
           /\ IF again THEN UNCHANGED excuse ELSE Excuse(e, "exhausted")
    /\ MoreDoubt(e)
    /\ UNCHANGED <<request, fallback, attempt, mail, optOut, bounds>>

-----------------------------------------------------------------------------
(* The end of an attempt *)

\* Variant of Reported: the processor logs the error and returns.
Swallowed(ok) == TRUE

\* The processor throws the error again.
Reported(ok) == ok

\* What BullMQ makes of it, if the worker still owns the job
JobAfter(i, ok) ==
    LET e == attempt[i].email
        made == job[e].made + 1
        next == IF Reported(ok) THEN "completed"
                ELSE IF made < Attempts THEN "delayed" ELSE "failed"
    IN  IF job[e].state = i
        THEN [job EXCEPT ![e] = [@ EXCEPT !.state = next, !.made = made]]
        ELSE job

\* Variant of HasMore: one too many.
HasOneMore(remaining) == remaining >= 0

HasMore(remaining) == remaining > 0

FallbackAfter(e, ok) ==
    [fallback EXCEPT ![e] = IF ~ok /\ HasMore(@) THEN @ - 1 ELSE None]

\* The attempt was the last one of its kind.
GivesUp(s) ==
    IF s \in Instances THEN JobAfter(s, FALSE)[attempt[s].email].state = "failed"
                       ELSE ~HasMore(fallback[s])

End(s, ok) ==
    /\ IF s \in Instances
       THEN job' = JobAfter(s, ok) /\ UNCHANGED fallback
       ELSE fallback' = FallbackAfter(s, ok) /\ UNCHANGED job
    /\ attempt' = [attempt EXCEPT ![s] = Idle]
    /\ UNCHANGED <<request, optOut, bounds>>

-----------------------------------------------------------------------------
(* sendEmail *)

\* Variant of OptedOut: only a first attempt looks.
OptedOutAtFirst(e) == optOut[e] /\ job[e].made = 0

OptedOut(e) == optOut[e]

Skip(s) ==
    /\ Busy(s, "lookup")
    /\ OptedOut(attempt[s].email)
    /\ Excuse(attempt[s].email, "optedOut")
    /\ End(s, TRUE)
    /\ UNCHANGED <<mail, doubt>>

Send(s) ==
    /\ Busy(s, "lookup")
    /\ ~OptedOut(attempt[s].email)
    /\ At(s, "sending")
    /\ UNCHANGED <<request, job, fallback, mail, optOut, bounds, history>>

\* A lookup that fails does not stop the email.
SendUnseen(s) ==
    /\ Busy(s, "lookup")
    /\ attempt' = [attempt EXCEPT ![s] = [@ EXCEPT !.pc = "sending", !.quiet = FALSE]]
    /\ UNCHANGED <<request, job, fallback, mail, optOut, bounds, history>>

Accept(s) ==
    /\ Busy(s, "sending")
    /\ copies' = [copies EXCEPT ![attempt[s].email] = @ + 1]
    /\ At(s, "accepted")
    /\ UNCHANGED <<request, job, fallback, late, optOut, bounds, history>>

Confirm(s) ==
    /\ Busy(s, "accepted")
    /\ End(s, TRUE)
    /\ UNCHANGED <<mail, history>>

FailureExcuse(s) ==
    IF GivesUp(s) THEN Excuse(attempt[s].email, "exhausted") ELSE UNCHANGED excuse

\* result.error, or an exception: the provider has not taken it.
Refuse(s) ==
    /\ Busy(s, "sending")
    /\ FailureExcuse(s)
    /\ End(s, FALSE)
    /\ UNCHANGED <<mail, doubt>>

\* Variant of TimesOut: the request alone is awaited.
Waits(s) == FALSE

\* The race with the timer, wherever the request is
TimesOut(s) == Busy(s, "sending") \/ Busy(s, "accepted")

StillOut(e, s) == IF Busy(s, "sending") THEN [late EXCEPT ![e] = @ + 1] ELSE late

TimeOut(s) ==
    /\ TimesOut(s)
    /\ late' = StillOut(attempt[s].email, s)
    /\ MoreDoubt(attempt[s].email)
    /\ FailureExcuse(s)
    /\ End(s, FALSE)
    /\ UNCHANGED copies

\* The provider acts on a request that nobody waits for any more, or drops it.
SettleLate(e) ==
    /\ late[e] > 0
    /\ late' = [late EXCEPT ![e] = @ - 1]
    /\ copies' \in {copies, [copies EXCEPT ![e] = @ + 1]}
    /\ UNCHANGED <<request, job, fallback, attempt, optOut, bounds, history>>

-----------------------------------------------------------------------------
(* Recipients and crashes *)

\* unsubscribe, resubscribe
ChangeOptOut(e) ==
    /\ optOuts < MaxOptOuts
    /\ optOuts' = optOuts + 1
    /\ optOut' = [optOut EXCEPT ![e] = ~@]
    /\ attempt' = [s \in Senders |-> IF optOut[e] /\ attempt[s] # Idle /\ attempt[s].email = e
                                     THEN [attempt[s] EXCEPT !.quiet = FALSE] ELSE attempt[s]]
    /\ UNCHANGED <<request, job, fallback, mail, crashes, history>>

\* What lives in the process: the call of queue.add and the fallback
InProcess(e, i) == request[e].pc # "new" /\ request[e].at = i

OutOn(e, i) ==
    {s \in Senders : /\ s = i \/ (s = e /\ InProcess(e, i))
                     /\ Busy(s, "sending") /\ attempt[s].email = e}

Crash(i) ==
    /\ crashes < MaxCrashes
    /\ crashes' = crashes + 1
    /\ request' = [e \in Emails |-> IF InProcess(e, i) THEN [request[e] EXCEPT !.pc = "done"]
                                                       ELSE request[e]]
    /\ fallback' = [e \in Emails |-> IF InProcess(e, i) THEN None ELSE fallback[e]]
    /\ attempt' = [s \in Senders |-> IF s = i \/ (s \in Emails /\ InProcess(s, i))
                                     THEN Idle ELSE attempt[s]]
    /\ late' = [e \in Emails |-> late[e] + Cardinality(OutOn(e, i))]
    /\ excuse' = [e \in Emails |-> IF InProcess(e, i) /\ job[e] = NoJob
                                   THEN excuse[e] \union {"crashed"} ELSE excuse[e]]
    /\ UNCHANGED <<job, copies, optOut, optOuts, doubt>>

-----------------------------------------------------------------------------

Init ==
    /\ request = [e \in Emails |-> [pc |-> "new"]]
    /\ job = [e \in Emails |-> NoJob]
    /\ fallback = [e \in Emails |-> None]
    /\ attempt = [s \in Senders |-> Idle]
    /\ copies = [e \in Emails |-> 0]
    /\ late = [e \in Emails |-> 0]
    /\ optOut \in [Emails -> BOOLEAN]
    /\ crashes = 0 /\ optOuts = 0
    /\ doubt = [e \in Emails |-> 0]
    /\ excuse = [e \in Emails |-> {}]

Enqueue(e) ==
    \/ \E i \in Instances : Request(e, i)
    \/ Store(e)
    \/ \E added \in BOOLEAN : AddEnds(e, added)

Queue(e) == (\E i \in Instances : TakeJob(i, e)) \/ Promote(e) \/ Stall(e)

Attempt(s) ==
    \/ Skip(s) \/ Send(s) \/ SendUnseen(s)
    \/ Accept(s) \/ Confirm(s) \/ Refuse(s) \/ TimeOut(s)

Next ==
    \/ \E e \in Emails : Enqueue(e) \/ BeginFallback(e) \/ Queue(e)
    \/ \E s \in Senders : Attempt(s)
    \/ \E e \in Emails : SettleLate(e) \/ ChangeOptOut(e)
    \/ \E i \in Instances : Crash(i)

Abandoned(e) == Owned(e) /\ ~Working(job[e].state, e)

\* Timers fire, the lookup returns and the process goes on, Redis answers or the connection
\* breaks, and BullMQ hands out jobs and finds those whose worker is gone.  The provider owes
\* nothing.
Fairness ==
    /\ \A e \in Emails :
        /\ WF_vars(\E added \in BOOLEAN : AddEnds(e, added))
        /\ WF_vars(BeginFallback(e))
        /\ WF_vars(\E i \in Instances : TakeJob(i, e))
        /\ WF_vars(Promote(e))
        /\ WF_vars(Abandoned(e) /\ Stall(e))
    /\ \A s \in Senders :
        /\ WF_vars(Skip(s) \/ Send(s) \/ SendUnseen(s))
        /\ WF_vars(TimeOut(s) \/ Confirm(s))

Spec == Init /\ [][Next]_vars /\ Fairness

-----------------------------------------------------------------------------

TypeOK ==
    /\ request \in [Emails -> [pc : {"new"}] \union [pc : {"adding", "done"}, at : Instances]]
    /\ job \in [Emails -> [state : JobStates \union Instances,
                           made : 0 .. Attempts, stalls : 0 .. MaxStalled]]
    /\ fallback \in [Emails -> 0 .. None]
    /\ attempt \in [Senders -> {Idle} \union [pc : {"lookup", "sending", "accepted"},
                                              email : Emails, quiet : BOOLEAN]]
    /\ \A e \in Emails : attempt[e] # Idle => attempt[e].email = e /\ fallback[e] # None
    /\ copies \in [Emails -> Nat] /\ late \in [Emails -> Nat]
    /\ optOut \in [Emails -> BOOLEAN]
    /\ crashes \in 0 .. MaxCrashes /\ optOuts \in 0 .. MaxOptOuts
    /\ doubt \in [Emails -> Nat]
    /\ excuse \in [Emails -> SUBSET {"optedOut", "exhausted", "crashed"}]

\* A recipient gets a second copy of an email only after a failure that left open whether the
\* first one had been sent: a timeout, a stalled job, or an add of which the answer was lost.
CopiesAreJustified == \A e \in Emails : copies[e] <= 1 + doubt[e]

Over(e) ==
    /\ request[e].pc = "done"
    /\ job[e].state \in {"none", "completed", "failed"}
    /\ fallback[e] = None

\* An email that nobody works on any more was delivered, unless its recipient had opted out, all
\* attempts had failed, or the process stopped before the job was in Redis.
NothingLost == \A e \in Emails : Over(e) => copies[e] > 0 \/ excuse[e] # {}

\* Once a recipient has opted out, no attempt that begins afterwards sends anything, the retries of
\* an email from before included, except when the lookup fails.
OptOutHonoured == \A s \in Senders : attempt[s] # Idle /\ attempt[s].quiet => Busy(s, "lookup")

\* Every email that was asked for is over at last, also if the provider never answers.
EveryEmailSettles == \A e \in Emails : request[e].pc = "adding" ~> Over(e)
=============================================================================
