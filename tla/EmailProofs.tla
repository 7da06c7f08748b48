---------------------------- MODULE EmailProofs -----------------------------
(***************************************************************************)
(* The promises of the email service, for any number of instances and      *)
(* emails, of attempts and retries, and of crashes.                        *)
(***************************************************************************)
EXTENDS Email, FiniteSetTheorems, TLAPS

-----------------------------------------------------------------------------
(* Types *)

JobRecord == [state : JobStates \union Instances, made : 0 .. Attempts, stalls : 0 .. MaxStalled]

Begins == [pc : {"lookup", "sending", "accepted"}, email : Emails, quiet : BOOLEAN]

Open(e) == job[e].state \in {"waiting", "delayed"} \union Instances

\* A job that may be worked on has attempts left.
JobsOpen ==
    \A e \in Emails : /\ Open(e) => job[e].made < Attempts
                      /\ job[e].state = "none" => job[e] = NoJob

Queued == job \in [Emails -> JobRecord] /\ JobsOpen

Tried ==
    /\ attempt \in [Senders -> {Idle} \union Begins]
    /\ fallback \in [Emails -> 0 .. None]
    /\ \A e \in Emails : attempt[e] # Idle => attempt[e].email = e /\ fallback[e] # None

Counted ==
    /\ copies \in [Emails -> Nat] /\ late \in [Emails -> Nat]
    /\ doubt \in [Emails -> Nat]

Recorded ==
    /\ request \in [Emails -> [pc : {"new"}] \union [pc : {"adding", "done"}, at : Instances]]
    /\ optOut \in [Emails -> BOOLEAN]
    /\ crashes \in 0 .. MaxCrashes /\ optOuts \in 0 .. MaxOptOuts
    /\ excuse \in [Emails -> SUBSET {"optedOut", "exhausted", "crashed"}]

TypeInv == Queued /\ Tried /\ Counted /\ Recorded

LEMMA TypesSplit == TypeInv => TypeOK
BY DEF TypeInv, TypeOK, Queued, Tried, Counted, Recorded, JobRecord, Begins

LEMMA Bounds ==
    /\ Attempts \in Nat /\ Attempts > 0 /\ Retries \in Nat /\ None \in Nat /\ None = Retries + 1
    /\ MaxStalled \in Nat /\ MaxCrashes \in Nat /\ MaxOptOuts \in Nat
BY BoundsAssumption DEF None

\* An instance is neither an email nor a state of a job.
LEMMA Distinct ==
    /\ \A i \in Instances : i \notin Emails /\ i \notin JobStates
    /\ Instances \subseteq Senders /\ Emails \subseteq Senders
    /\ \A s \in Senders : s \notin Instances => s \in Emails
BY SendersAssumption DEF Senders

LEMMA StatesApart ==
    \A i \in Instances : /\ i # "none" /\ i # "waiting" /\ i # "delayed"
                         /\ i # "completed" /\ i # "failed"
BY Distinct DEF JobStates

\* What a sender at work is doing
LEMMA AtWork ==
    ASSUME Tried, NEW s \in Senders, attempt[s] # Idle
    PROVE  /\ attempt[s] \in Begins
           /\ attempt[s].email \in Emails
           /\ attempt[s].pc \in {"lookup", "sending", "accepted"}
           /\ attempt[s].quiet \in BOOLEAN
           /\ s \in Emails => attempt[s].email = s /\ fallback[s] # None
<1>1. attempt[s] \in Begins
  BY DEF Tried
<1> QED
  BY <1>1 DEF Tried, Begins

LEMMA BusyWorks ==
    ASSUME NEW s, NEW pc \in {"lookup", "sending", "accepted"}, Busy(s, pc)
    PROVE  attempt[s] # Idle
BY DEF Busy, Idle

LEMMA TypesInitially == Init => TypeInv
<1> SUFFICES ASSUME Init PROVE TypeInv
  OBVIOUS
<1> USE Bounds
<1>1. Queued
  <2>1. NoJob \in JobRecord /\ NoJob.state = "none"
    BY DEF NoJob, JobRecord, JobStates
  <2>2. \A e \in Emails : job[e] = NoJob
    BY DEF Init
  <2>3. job \in [Emails -> JobRecord]
    BY <2>1 DEF Init
  <2> QED
    BY <2>1, <2>2, <2>3, StatesApart DEF Queued, JobsOpen, Open
<1>2. Tried
  BY Distinct DEF Init, Tried
<1>3. Counted
  BY DEF Init, Counted
<1>4. Recorded
  <2>1. request \in [Emails -> [pc : {"new"}] \union [pc : {"adding", "done"}, at : Instances]]
    BY DEF Init
  <2>2. excuse \in [Emails -> SUBSET {"optedOut", "exhausted", "crashed"}]
    BY DEF Init
  <2>3. optOut \in [Emails -> BOOLEAN]
    BY DEF Init
  <2>4. crashes \in 0 .. MaxCrashes /\ optOuts \in 0 .. MaxOptOuts
    BY DEF Init
  <2> QED
    BY <2>1, <2>2, <2>3, <2>4 DEF Recorded
<1> QED
  BY <1>1, <1>2, <1>3, <1>4 DEF TypeInv

\* One job changes.
LEMMA QueuedStep ==
    ASSUME Queued, NEW e \in Emails, NEW j \in JobRecord,
           job' = [job EXCEPT ![e] = j],
           j.state \in {"waiting", "delayed"} \union Instances => j.made < Attempts,
           j.state # "none"
    PROVE  Queued'
<1>1. \A x \in Emails : job'[x] = IF x = e THEN j ELSE job[x]
  BY DEF Queued
<1>2. job' \in [Emails -> JobRecord]
  BY DEF Queued
<1> QED
  BY <1>1, <1>2 DEF Queued, JobsOpen, Open

LEMMA QueuedStays == ASSUME Queued, UNCHANGED job PROVE Queued'
BY DEF Queued, JobsOpen, Open

LEMMA TriedStays == ASSUME Tried, UNCHANGED <<attempt, fallback>> PROVE Tried'
BY DEF Tried

LEMMA CountedStays == ASSUME Counted, UNCHANGED <<copies, late, doubt>> PROVE Counted'
BY DEF Counted

LEMMA RecordedStays ==
    ASSUME Recorded, UNCHANGED <<request, optOut, crashes, optOuts, excuse>>
    PROVE  Recorded'
BY DEF Recorded

\* One sender moves on while its fallback goes on.
LEMMA TriedStep ==
    ASSUME Tried, NEW s \in Senders, NEW a \in Begins,
           attempt' = [attempt EXCEPT ![s] = a], UNCHANGED fallback,
           s \in Emails => a.email = s /\ fallback[s] # None
    PROVE  Tried'
<1>1. \A t \in Senders : attempt'[t] = IF t = s THEN a ELSE attempt[t]
  BY DEF Tried
<1>2. attempt' \in [Senders -> {Idle} \union Begins]
  BY DEF Tried
<1> QED
  BY <1>1, <1>2, Distinct DEF Tried

\* The end of an attempt, for the queue and for the fallback
LEMMA EndTypes ==
    ASSUME TypeInv, NEW s \in Senders, attempt[s] # Idle, NEW ok \in BOOLEAN, End(s, ok)
    PROVE  Queued' /\ Tried'
<1> DEFINE e == attempt[s].email
<1>1. Queued /\ Tried
  BY DEF TypeInv
<1>2. e \in Emails /\ (s \in Emails => e = s /\ fallback[s] # None)
  BY <1>1, AtWork
<1>3. attempt' = [attempt EXCEPT ![s] = Idle]
  BY DEF End
<1>4. \A t \in Senders : attempt'[t] = IF t = s THEN Idle ELSE attempt[t]
  BY <1>1, <1>3 DEF Tried
<1>5. attempt' \in [Senders -> {Idle} \union Begins]
  BY <1>1, <1>3 DEF Tried
<1>6. CASE s \in Instances
  <2>1. job' = JobAfter(s, ok) /\ UNCHANGED fallback
    BY <1>6 DEF End
  <2>2. CASE job[e].state = s
    <3> DEFINE made == job[e].made + 1
               next == IF Reported(ok) THEN "completed"
                       ELSE IF made < Attempts THEN "delayed" ELSE "failed"
               j == [job[e] EXCEPT !.state = next, !.made = made]
    <3>1. job' = [job EXCEPT ![e] = j]
      BY <1>2, <2>1, <2>2 DEF JobAfter
    <3>2. job[e] \in JobRecord /\ job[e].made \in 0 .. Attempts /\ job[e].made < Attempts
      BY <1>1, <1>2, <1>6, <2>2 DEF Queued, JobsOpen, Open, JobRecord
    <3>3. made \in 0 .. Attempts /\ next \in JobStates
      BY <3>2, Bounds DEF JobStates
    <3>4. next = "delayed" => made < Attempts
      OBVIOUS
    <3>5. next \in {"completed", "delayed", "failed"}
      OBVIOUS
    <3> HIDE DEF made, next
    <3>6. j \in JobRecord /\ j.state = next /\ j.made = made
      BY <3>2, <3>3 DEF JobRecord
    <3> HIDE DEF j
    <3>7. Queued'
      BY <1>1, <1>2, <3>1, <3>4, <3>5, <3>6, StatesApart, QueuedStep
    <3> QED
      BY <1>1, <1>4, <1>5, <2>1, <3>7, Distinct DEF Tried
  <2>3. CASE job[e].state # s
    <3>1. UNCHANGED job
      BY <2>1, <2>3 DEF JobAfter
    <3> QED
      BY <1>1, <1>4, <1>5, <2>1, <3>1, Distinct, QueuedStays DEF Tried
  <2> QED
    BY <2>2, <2>3
<1>7. CASE s \notin Instances
  <2>1. fallback' = FallbackAfter(s, ok) /\ UNCHANGED job /\ s \in Emails
    BY <1>7, Distinct DEF End
  <2>2. fallback[s] \in 0 .. None /\ fallback[s] # None
    BY <1>1, <1>2, <2>1 DEF Tried
  <2>3. fallback' = [fallback EXCEPT ![s] = IF ~ok /\ HasMore(@) THEN @ - 1 ELSE None]
    BY <2>1 DEF FallbackAfter
  <2>4. fallback' \in [Emails -> 0 .. None] /\ \A x \in Emails : x # s => fallback'[x] = fallback[x]
    BY <1>1, <2>1, <2>2, <2>3, Bounds DEF Tried, HasMore
  <2> QED
    BY <1>1, <1>4, <1>5, <2>1, <2>4, Distinct, QueuedStays DEF Tried
<1> QED
  BY <1>6, <1>7

LEMMA ExcuseTypes ==
    ASSUME Recorded, NEW e \in Emails, NEW why \in {"optedOut", "exhausted", "crashed"},
           Excuse(e, why) \/ UNCHANGED excuse,
           UNCHANGED <<request, optOut, crashes, optOuts>>
    PROVE  Recorded'
<1>1. excuse' \in [Emails -> SUBSET {"optedOut", "exhausted", "crashed"}]
  BY DEF Recorded, Excuse
<1> QED
  BY <1>1 DEF Recorded

LEMMA DoubtTypes ==
    ASSUME Counted, NEW e \in Emails, MoreDoubt(e), copies' \in [Emails -> Nat], late' \in [Emails -> Nat]
    PROVE  Counted'
<1>1. doubt' \in [Emails -> Nat]
  BY DEF Counted, MoreDoubt
<1> QED
  BY <1>1 DEF Counted

\* The requests that a crash leaves with the provider
LEMMA OutFinite ==
    ASSUME NEW e, NEW i
    PROVE  OutOn(e, i) \subseteq {i, e} /\ IsFiniteSet(OutOn(e, i)) /\ Cardinality(OutOn(e, i)) \in Nat
<1>1. OutOn(e, i) \subseteq {i, e}
  BY DEF OutOn
<1>2. IsFiniteSet({i, e})
  <2>1. IsFiniteSet({i})
    BY FS_Singleton
  <2>2. IsFiniteSet({i} \union {e})
    BY <2>1, FS_AddElement
  <2> QED
    BY <2>2
<1> QED
  BY <1>1, <1>2, FS_Subset, FS_CardinalityType

LEMMA TypesStep == TypeInv /\ [Next]_vars => TypeInv'
<1> SUFFICES ASSUME TypeInv, [Next]_vars PROVE TypeInv'
  OBVIOUS
<1> USE Bounds
<1>0. Queued /\ Tried /\ Counted /\ Recorded
  BY DEF TypeInv
<1>1. CASE UNCHANGED vars
  <2>1. /\ UNCHANGED job /\ UNCHANGED <<attempt, fallback>> /\ UNCHANGED <<copies, late, doubt>>
        /\ UNCHANGED <<request, optOut, crashes, optOuts, excuse>>
    BY <1>1 DEF vars, mail, bounds, history
  <2> QED
    BY <1>0, <2>1, QueuedStays, TriedStays, CountedStays, RecordedStays DEF TypeInv
<1>2. ASSUME NEW e \in Emails, NEW i \in Instances, Request(e, i)
      PROVE  TypeInv'
  <2>1. /\ UNCHANGED job /\ UNCHANGED <<attempt, fallback>> /\ UNCHANGED <<copies, late, doubt>>
        /\ UNCHANGED <<optOut, crashes, optOuts, excuse>>
    BY <1>2 DEF Request, mail, bounds, history
  <2>2. request' \in [Emails -> [pc : {"new"}] \union [pc : {"adding", "done"}, at : Instances]]
    BY <1>0, <1>2 DEF Request, Recorded
  <2>3. Recorded'
    BY <1>0, <2>1, <2>2 DEF Recorded
  <2> QED
    BY <1>0, <2>1, <2>3, QueuedStays, TriedStays, CountedStays DEF TypeInv
<1>3. ASSUME NEW e \in Emails, Store(e) \/ Promote(e)
      PROVE  TypeInv'
  <2> DEFINE j == [job[e] EXCEPT !.state = "waiting"]
  <2>1. /\ job' = [job EXCEPT ![e] = j] /\ UNCHANGED <<attempt, fallback>>
        /\ UNCHANGED <<copies, late, doubt>> /\ UNCHANGED <<request, optOut, crashes, optOuts, excuse>>
        /\ job[e] = NoJob \/ job[e].state = "delayed"
    BY <1>3 DEF Store, Promote, mail, bounds, history
  <2>2. job[e] \in JobRecord /\ job[e].made < Attempts
    BY <1>0, <2>1 DEF Queued, JobsOpen, Open, NoJob
  <2>3. j \in JobRecord /\ j.state = "waiting" /\ j.made < Attempts
    BY <2>2 DEF JobRecord, JobStates
  <2> HIDE DEF j
  <2>4. Queued'
    BY <1>0, <2>1, <2>3, QueuedStep
  <2> QED
    BY <1>0, <2>1, <2>4, TriedStays, CountedStays, RecordedStays DEF TypeInv
<1>4. ASSUME NEW e \in Emails, NEW added \in BOOLEAN, AddEnds(e, added)
      PROVE  TypeInv'
  <2>1. /\ UNCHANGED <<job, attempt, mail, optOut, bounds, excuse>> /\ request[e].pc = "adding"
        /\ request' = [request EXCEPT ![e].pc = "done"]
    BY <1>4 DEF AddEnds
  <2>2. fallback' = fallback \/ fallback' = [fallback EXCEPT ![e] = Retries]
    BY <1>4 DEF AddEnds
  <2>3. Tried'
    <3>1. /\ fallback' \in [Emails -> 0 .. None]
          /\ \A x \in Emails : fallback[x] # None => fallback'[x] # None
      BY <1>0, <2>2 DEF Tried
    <3> QED
      BY <1>0, <2>1, <3>1 DEF Tried
  <2>4. Counted'
    <3>1. UNCHANGED <<copies, late>> /\ (MoreDoubt(e) \/ UNCHANGED doubt)
      BY <1>4 DEF AddEnds, mail
    <3> QED
      BY <1>0, <3>1 DEF Counted, MoreDoubt
  <2>5. request[e] \in [pc : {"adding", "done"}, at : Instances]
    BY <1>0, <2>1 DEF Recorded
  <2>6. request' \in [Emails -> [pc : {"new"}] \union [pc : {"adding", "done"}, at : Instances]]
    BY <1>0, <2>1, <2>5 DEF Recorded
  <2>7. Recorded'
    BY <1>0, <2>1, <2>6 DEF Recorded, bounds
  <2> QED
    BY <1>0, <2>1, <2>3, <2>4, <2>7, QueuedStays DEF TypeInv
<1>5. ASSUME NEW e \in Emails, BeginFallback(e)
      PROVE  TypeInv'
  <2>1. /\ UNCHANGED <<job, fallback, copies, late, doubt>> /\ fallback[e] # None
        /\ UNCHANGED <<request, optOut, crashes, optOuts, excuse>>
        /\ attempt' = [attempt EXCEPT ![e] = Begun(e)]
    BY <1>5 DEF BeginFallback, mail, bounds, history
  <2>2. Begun(e) \in Begins /\ Begun(e).email = e
    BY <1>0 DEF Begun, Begins, Recorded
  <2>3. Tried'
    BY <1>0, <2>1, <2>2, Distinct, TriedStep
  <2> QED
    BY <1>0, <2>1, <2>3, QueuedStays, CountedStays, RecordedStays DEF TypeInv
<1>6. ASSUME NEW e \in Emails, NEW i \in Instances, TakeJob(i, e)
      PROVE  TypeInv'
  <2> DEFINE j == [job[e] EXCEPT !.state = i]
  <2>1. /\ UNCHANGED <<fallback, copies, late, doubt>> /\ job[e].state = "waiting"
        /\ UNCHANGED <<request, optOut, crashes, optOuts, excuse>>
        /\ attempt' = [attempt EXCEPT ![i] = Begun(e)] /\ job' = [job EXCEPT ![e] = j]
    BY <1>6 DEF TakeJob, mail, bounds, history
  <2>2. Begun(e) \in Begins
    BY <1>0 DEF Begun, Begins, Recorded
  <2>3. Tried'
    BY <1>0, <2>1, <2>2, Distinct, TriedStep
  <2>4. job[e] \in JobRecord /\ job[e].made < Attempts
    BY <1>0, <2>1 DEF Queued, JobsOpen, Open
  <2>5. j \in JobRecord /\ j.state = i /\ j.made < Attempts
    BY <2>4 DEF JobRecord
  <2> HIDE DEF j
  <2>6. Queued'
    BY <1>0, <2>1, <2>5, StatesApart, QueuedStep
  <2> QED
    BY <1>0, <2>1, <2>3, <2>6, CountedStays, RecordedStays DEF TypeInv
<1>7. ASSUME NEW e \in Emails, Stall(e)
      PROVE  TypeInv'
  <2> DEFINE again == job[e].stalls < MaxStalled
             j == [job[e] EXCEPT !.state = IF again THEN "waiting" ELSE "failed",
                                 !.stalls = IF again THEN @ + 1 ELSE @]
  <2>1. /\ UNCHANGED <<attempt, fallback>> /\ UNCHANGED <<copies, late>> /\ MoreDoubt(e)
        /\ UNCHANGED <<request, optOut, crashes, optOuts>> /\ Owned(e)
        /\ Excuse(e, "exhausted") \/ UNCHANGED excuse
    BY <1>7 DEF Stall, mail, bounds
  <2>2. job' = [job EXCEPT ![e] = j]
    BY <1>7 DEF Stall
  <2>3. job[e] \in JobRecord /\ job[e].made < Attempts
    BY <1>0, <2>1 DEF Queued, JobsOpen, Open, Owned
  <2>4. (IF again THEN "waiting" ELSE "failed") \in JobStates
        /\ (IF again THEN job[e].stalls + 1 ELSE job[e].stalls) \in 0 .. MaxStalled
    BY <2>3 DEF JobRecord, JobStates
  <2>5. j \in JobRecord /\ j.state \in {"waiting", "failed"} /\ j.made < Attempts
    BY <2>3, <2>4 DEF JobRecord
  <2> HIDE DEF j, again
  <2>6. Queued'
    BY <1>0, <2>2, <2>5, QueuedStep
  <2>7. Counted' /\ Recorded'
    BY <1>0, <2>1, DoubtTypes, ExcuseTypes DEF Counted
  <2> QED
    BY <1>0, <2>1, <2>6, <2>7, TriedStays DEF TypeInv
<1>8. ASSUME NEW s \in Senders, Skip(s)
      PROVE  TypeInv'
  <2>1. /\ attempt[s] # Idle /\ End(s, TRUE) /\ UNCHANGED <<copies, late, doubt>>
        /\ Excuse(attempt[s].email, "optedOut")
    BY <1>8, BusyWorks DEF Skip, mail
  <2>2. attempt[s].email \in Emails
    BY <1>0, <2>1, AtWork
  <2>3. UNCHANGED <<request, optOut, crashes, optOuts>>
    BY <2>1 DEF End, bounds
  <2> QED
    BY <1>0, <2>1, <2>2, <2>3, EndTypes, CountedStays, ExcuseTypes DEF TypeInv
<1>9. ASSUME NEW s \in Senders, Send(s) \/ SendUnseen(s) \/ Accept(s)
      PROVE  TypeInv'
  <2> DEFINE e == attempt[s].email
  <2>1. attempt[s] # Idle /\ UNCHANGED <<job, fallback, late, doubt>>
        /\ UNCHANGED <<request, optOut, crashes, optOuts, excuse>>
    BY <1>9, BusyWorks DEF Send, SendUnseen, Accept, mail, bounds, history
  <2>2. attempt[s] \in Begins /\ e \in Emails /\ (s \in Emails => e = s /\ fallback[s] # None)
    BY <1>0, <2>1, AtWork
  <2>3. PICK a \in Begins : attempt' = [attempt EXCEPT ![s] = a] /\ a.email = e
    <3>1. CASE Send(s)
      <4> DEFINE a == [attempt[s] EXCEPT !.pc = "sending"]
      <4>1. a \in Begins /\ a.email = e
        BY <2>2 DEF Begins
      <4>2. attempt' = [attempt EXCEPT ![s] = a]
        BY <3>1 DEF Send, At
      <4> HIDE DEF a
      <4> QED
        BY <4>1, <4>2
    <3>2. CASE SendUnseen(s)
      <4> DEFINE a == [attempt[s] EXCEPT !.pc = "sending", !.quiet = FALSE]
      <4>1. a \in Begins /\ a.email = e
        BY <2>2 DEF Begins
      <4>2. attempt' = [attempt EXCEPT ![s] = a]
        BY <3>2 DEF SendUnseen
      <4> HIDE DEF a
      <4> QED
        BY <4>1, <4>2
    <3>3. CASE Accept(s)
      <4> DEFINE a == [attempt[s] EXCEPT !.pc = "accepted"]
      <4>1. a \in Begins /\ a.email = e
        BY <2>2 DEF Begins
      <4>2. attempt' = [attempt EXCEPT ![s] = a]
        BY <3>3 DEF Accept, At
      <4> HIDE DEF a
      <4> QED
        BY <4>1, <4>2
    <3> QED
      BY <1>9, <3>1, <3>2, <3>3
  <2>5. Tried'
    BY <1>0, <2>1, <2>2, <2>3, TriedStep
  <2>6. Counted'
    <3>1. copies' \in [Emails -> Nat]
      BY <1>0, <1>9, <2>2 DEF Send, SendUnseen, Accept, mail, Counted
    <3> QED
      BY <1>0, <2>1, <3>1 DEF Counted
  <2> QED
    BY <1>0, <2>1, <2>5, <2>6, QueuedStays, RecordedStays DEF TypeInv
<1>10. ASSUME NEW s \in Senders, Confirm(s)
       PROVE  TypeInv'
  <2>1. /\ attempt[s] # Idle /\ End(s, TRUE)
        /\ UNCHANGED <<copies, late, doubt>> /\ UNCHANGED excuse
    BY <1>10, BusyWorks DEF Confirm, mail, history
  <2>2. UNCHANGED <<request, optOut, crashes, optOuts>>
    BY <2>1 DEF End, bounds
  <2> QED
    BY <1>0, <2>1, <2>2, EndTypes, CountedStays, RecordedStays DEF TypeInv
<1>11. ASSUME NEW s \in Senders, Refuse(s) \/ TimeOut(s)
       PROVE  TypeInv'
  <2>1. attempt[s] # Idle /\ End(s, FALSE) /\ UNCHANGED copies
    BY <1>11, BusyWorks DEF Refuse, TimeOut, TimesOut, mail
  <2>2. attempt[s].email \in Emails
    BY <1>0, <2>1, AtWork
  <2>3. UNCHANGED <<request, optOut, crashes, optOuts>>
    BY <2>1 DEF End, bounds
  <2>4. Excuse(attempt[s].email, "exhausted") \/ UNCHANGED excuse
    BY <1>11 DEF Refuse, TimeOut, FailureExcuse
  <2>5. late' \in [Emails -> Nat]
    <3>1. late' = late \/ late' = [late EXCEPT ![attempt[s].email] = @ + 1]
      BY <1>11 DEF Refuse, TimeOut, StillOut, mail
    <3>2. late \in [Emails -> Nat]
      BY <1>0 DEF Counted
    <3> QED
      BY <2>2, <3>1, <3>2
  <2>6. Counted'
    <3>1. UNCHANGED doubt \/ MoreDoubt(attempt[s].email)
      BY <1>11 DEF Refuse, TimeOut
    <3> QED
      BY <1>0, <2>1, <2>2, <2>5, <3>1, DoubtTypes DEF Counted
  <2> QED
    BY <1>0, <2>1, <2>2, <2>3, <2>4, <2>6, EndTypes, ExcuseTypes DEF TypeInv
<1>12. ASSUME NEW e \in Emails, SettleLate(e)
       PROVE  TypeInv'
  <2>1. /\ UNCHANGED job /\ UNCHANGED <<attempt, fallback>> /\ UNCHANGED doubt
        /\ UNCHANGED <<request, optOut, crashes, optOuts, excuse>>
    BY <1>12 DEF SettleLate, bounds, history
  <2>2. copies' \in [Emails -> Nat] /\ late' \in [Emails -> Nat]
    BY <1>0, <1>12 DEF SettleLate, Counted
  <2>3. Counted'
    BY <1>0, <2>1, <2>2 DEF Counted
  <2> QED
    BY <1>0, <2>1, <2>3, QueuedStays, TriedStays, RecordedStays DEF TypeInv
<1>13. ASSUME NEW e \in Emails, ChangeOptOut(e)
       PROVE  TypeInv'
  <2>1. /\ UNCHANGED <<job, fallback>> /\ UNCHANGED <<copies, late, doubt>>
        /\ UNCHANGED <<request, crashes, excuse>>
        /\ optOuts < MaxOptOuts /\ optOuts' = optOuts + 1
        /\ optOut' = [optOut EXCEPT ![e] = ~@]
    BY <1>13 DEF ChangeOptOut, mail, history
  <2>2. Tried'
    <3>1. attempt' = [s \in Senders |-> IF optOut[e] /\ attempt[s] # Idle /\ attempt[s].email = e
                                        THEN [attempt[s] EXCEPT !.quiet = FALSE] ELSE attempt[s]]
      BY <1>13 DEF ChangeOptOut
    <3>2. \A s \in Senders : attempt[s] # Idle =>
            [attempt[s] EXCEPT !.quiet = FALSE] \in Begins
            /\ [attempt[s] EXCEPT !.quiet = FALSE].email = attempt[s].email
      BY <1>0, AtWork DEF Begins
    <3>3. attempt' \in [Senders -> {Idle} \union Begins]
      BY <1>0, <3>1, <3>2 DEF Tried
    <3>4. \A x \in Emails : attempt'[x] # Idle =>
             attempt[x] # Idle /\ attempt'[x].email = attempt[x].email
      BY <3>1, <3>2, Distinct
    <3> QED
      BY <1>0, <2>1, <3>3, <3>4 DEF Tried
  <2>3. Recorded'
    <3>1. optOut' \in [Emails -> BOOLEAN]
      BY <1>0, <2>1, Zenon DEF Recorded
    <3>2. optOuts' \in 0 .. MaxOptOuts /\ crashes' \in 0 .. MaxCrashes
      BY <1>0, <2>1 DEF Recorded
    <3> QED
      BY <1>0, <2>1, <3>1, <3>2 DEF Recorded
  <2> QED
    BY <1>0, <2>1, <2>2, <2>3, QueuedStays, CountedStays DEF TypeInv
<1>14. ASSUME NEW i \in Instances, Crash(i)
       PROVE  TypeInv'
  <2>1. UNCHANGED job /\ UNCHANGED <<copies, doubt, optOut, optOuts>>
        /\ crashes < MaxCrashes /\ crashes' = crashes + 1
    BY <1>14 DEF Crash
  <2>2. /\ request' = [e \in Emails |-> IF InProcess(e, i) THEN [request[e] EXCEPT !.pc = "done"]
                                                           ELSE request[e]]
        /\ fallback' = [e \in Emails |-> IF InProcess(e, i) THEN None ELSE fallback[e]]
        /\ attempt' = [s \in Senders |-> IF s = i \/ (s \in Emails /\ InProcess(s, i))
                                         THEN Idle ELSE attempt[s]]
        /\ late' = [e \in Emails |-> late[e] + Cardinality(OutOn(e, i))]
        /\ excuse' = [e \in Emails |-> IF InProcess(e, i) /\ job[e] = NoJob
                                       THEN excuse[e] \union {"crashed"} ELSE excuse[e]]
    BY <1>14 DEF Crash
  <2>3. Tried'
    <3>1. attempt' \in [Senders -> {Idle} \union Begins]
      BY <1>0, <2>2 DEF Tried
    <3>2. fallback' \in [Emails -> 0 .. None]
      BY <1>0, <2>2 DEF Tried
    <3>3. \A x \in Emails : attempt'[x] # Idle =>
             attempt'[x] = attempt[x] /\ fallback'[x] = fallback[x]
      BY <2>2, Distinct
    <3> QED
      BY <1>0, <3>1, <3>2, <3>3 DEF Tried
  <2>4. Counted'
    <3>1. \A e \in Emails : Cardinality(OutOn(e, i)) \in Nat
      BY OutFinite
    <3>2. late' \in [Emails -> Nat]
      BY <1>0, <2>2, <3>1 DEF Counted
    <3> QED
      BY <1>0, <2>1, <3>2 DEF Counted
  <2>5. Recorded'
    <3>1. \A e \in Emails : InProcess(e, i) => request[e] \in [pc : {"adding", "done"}, at : Instances]
      BY <1>0 DEF Recorded, InProcess
    <3>2. \A e \in Emails : InProcess(e, i) =>
            [request[e] EXCEPT !.pc = "done"] \in [pc : {"adding", "done"}, at : Instances]
      BY <3>1
    <3>3. request' \in [Emails -> [pc : {"new"}] \union [pc : {"adding", "done"}, at : Instances]]
      BY <1>0, <2>2, <3>2 DEF Recorded
    <3>4. excuse' \in [Emails -> SUBSET {"optedOut", "exhausted", "crashed"}]
      BY <1>0, <2>2 DEF Recorded
    <3> QED
      BY <1>0, <2>1, <3>3, <3>4 DEF Recorded
  <2> QED
    BY <1>0, <2>1, <2>3, <2>4, <2>5, QueuedStays DEF TypeInv
<1> QED
  BY <1>1, <1>2, <1>3, <1>4, <1>5, <1>6, <1>7, <1>8, <1>9, <1>10, <1>11, <1>12, <1>13, <1>14
  DEF Next, Enqueue, Queue, Attempt

LEMMA TypesHold == Spec => []TypeInv
BY TypesInitially, TypesStep, PTL DEF Spec

\* Requests, jobs, attempts and their history keep their types, and an attempt of the fallback is
\* always one for its own email and one that the fallback has left.
THEOREM TypeCorrect == Spec => []TypeOK
BY TypesHold, TypesSplit, PTL

-----------------------------------------------------------------------------
(* Recipients who have opted out *)

\* An attempt that ought to be quiet has yet to look, and will see why.
QuietInv ==
    \A s \in Senders : attempt[s] # Idle /\ attempt[s].quiet =>
        Busy(s, "lookup") /\ optOut[attempt[s].email]

LEMMA QuietStep == TypeInv /\ QuietInv /\ [Next]_vars => QuietInv'
<1> SUFFICES ASSUME TypeInv, QuietInv, [Next]_vars PROVE QuietInv'
  OBVIOUS
<1> USE DEF Busy
<1>0. Tried
  BY DEF TypeInv
<1>1. CASE UNCHANGED <<attempt, optOut>>
  BY <1>1 DEF QuietInv
<1>2. ASSUME NEW s \in Senders, NEW a, attempt' = [attempt EXCEPT ![s] = a], UNCHANGED optOut,
             a = Idle \/ (a.quiet => a.pc = "lookup" /\ optOut[a.email])
      PROVE  QuietInv'
  <2>1. \A t \in Senders : attempt'[t] = IF t = s THEN a ELSE attempt[t]
    BY <1>0, <1>2 DEF Tried
  <2>2. CASE a = Idle
    BY <1>2, <2>1, <2>2 DEF QuietInv
  <2>3. CASE a.quiet => a.pc = "lookup" /\ optOut[a.email]
    BY <1>2, <2>1, <2>3, Zenon DEF QuietInv
  <2> QED
    BY <1>2, <2>2, <2>3
<1>3. ASSUME NEW s \in Senders, NEW ok \in BOOLEAN, End(s, ok) PROVE QuietInv'
  BY <1>2, <1>3 DEF End
<1>4. ASSUME NEW e \in Emails, NEW s \in Senders, attempt' = [attempt EXCEPT ![s] = Begun(e)],
             UNCHANGED optOut
      PROVE  QuietInv'
  <2>1. Begun(e).pc = "lookup" /\ Begun(e).email = e /\ Begun(e).quiet = optOut[e]
    BY DEF Begun
  <2>2. Begun(e).quiet => Begun(e).pc = "lookup" /\ optOut[Begun(e).email]
    BY <2>1, Zenon
  <2> QED
    BY <1>2, <1>4, <2>2
<1>5. ASSUME NEW s \in Senders, Send(s) \/ SendUnseen(s) \/ Accept(s)
      PROVE  QuietInv'
  <2>1. attempt[s] # Idle /\ attempt[s] \in Begins /\ UNCHANGED optOut
    BY <1>0, <1>5, AtWork, BusyWorks DEF Send, SendUnseen, Accept
  <2>2. CASE Send(s)
    <3> DEFINE a == [attempt[s] EXCEPT !.pc = "sending"]
    <3>1. a.quiet = attempt[s].quiet
      BY <2>1 DEF Begins
    <3>2. ~attempt[s].quiet
      BY <2>1, <2>2, Zenon DEF Send, OptedOut, QuietInv
    <3>3. ~a.quiet
      BY <3>1, <3>2, Zenon
    <3>4. attempt' = [attempt EXCEPT ![s] = a]
      BY <2>2 DEF Send, At
    <3> HIDE DEF a
    <3> QED
      BY <1>2, <2>1, <3>3, <3>4
  <2>3. CASE SendUnseen(s)
    <3> DEFINE a == [attempt[s] EXCEPT !.pc = "sending", !.quiet = FALSE]
    <3>1. ~a.quiet
      BY <2>1 DEF Begins
    <3>2. attempt' = [attempt EXCEPT ![s] = a]
      BY <2>3 DEF SendUnseen
    <3> HIDE DEF a
    <3> QED
      BY <1>2, <2>1, <3>1, <3>2
  <2>4. CASE Accept(s)
    <3> DEFINE a == [attempt[s] EXCEPT !.pc = "accepted"]
    <3>1. a.quiet = attempt[s].quiet
      BY <2>1 DEF Begins
    <3>2. ~attempt[s].quiet
      BY <2>1, <2>4 DEF Accept, QuietInv
    <3>3. ~a.quiet
      BY <3>1, <3>2, Zenon
    <3>4. attempt' = [attempt EXCEPT ![s] = a]
      BY <2>4 DEF Accept, At
    <3> HIDE DEF a
    <3> QED
      BY <1>2, <2>1, <3>3, <3>4
  <2> QED
    BY <1>5, <2>2, <2>3, <2>4
<1>6. ASSUME NEW e \in Emails, ChangeOptOut(e)
      PROVE  QuietInv'
  <2>1. optOut' = [optOut EXCEPT ![e] = ~@] /\ optOut \in [Emails -> BOOLEAN]
    BY <1>6 DEF ChangeOptOut, TypeInv, Recorded
  <2>2. attempt' = [s \in Senders |-> IF optOut[e] /\ attempt[s] # Idle /\ attempt[s].email = e
                                      THEN [attempt[s] EXCEPT !.quiet = FALSE] ELSE attempt[s]]
    BY <1>6 DEF ChangeOptOut
  <2> SUFFICES ASSUME NEW s \in Senders, attempt'[s] # Idle, attempt'[s].quiet
               PROVE  attempt'[s].pc = "lookup" /\ optOut'[attempt'[s].email]
    BY Zenon DEF QuietInv
  <2>3. CASE optOut[e] /\ attempt[s] # Idle /\ attempt[s].email = e
    <3>1. attempt'[s] = [attempt[s] EXCEPT !.quiet = FALSE] /\ attempt[s] \in Begins
      BY <1>0, <2>2, <2>3, AtWork
    <3>2. ~attempt'[s].quiet
      BY <3>1 DEF Begins
    <3> QED
      BY <3>2
  <2>4. CASE ~(optOut[e] /\ attempt[s] # Idle /\ attempt[s].email = e)
    <3>1. attempt'[s] = attempt[s]
      BY <2>2, <2>4
    <3>2. attempt[s].email \in Emails /\ attempt[s].pc = "lookup" /\ optOut[attempt[s].email]
      BY <1>0, <3>1, AtWork DEF QuietInv
    <3>3. attempt[s].email # e
      BY <2>4, <3>1, <3>2
    <3>4. optOut'[attempt[s].email] = optOut[attempt[s].email]
      BY <2>1, <3>2, <3>3
    <3> QED
      BY <3>1, <3>2, <3>4, Zenon
  <2> QED
    BY <2>3, <2>4
<1>7. ASSUME NEW i \in Instances, Crash(i)
      PROVE  QuietInv'
  BY <1>7 DEF Crash, QuietInv
<1>8. ASSUME NEW e \in Emails, Enqueue(e) \/ BeginFallback(e) \/ Queue(e)
      PROVE  QuietInv'
  <2>1. CASE BeginFallback(e)
    BY <1>4, <2>1, Distinct DEF BeginFallback
  <2>2. CASE \E i \in Instances : TakeJob(i, e)
    BY <1>4, <2>2, Distinct DEF TakeJob
  <2>3. CASE Enqueue(e) \/ Promote(e) \/ Stall(e)
    BY <1>1, <2>3 DEF Enqueue, Request, Store, AddEnds, Promote, Stall
  <2> QED
    BY <1>8, <2>1, <2>2, <2>3 DEF Queue
<1>9. ASSUME NEW s \in Senders, Attempt(s)
      PROVE  QuietInv'
  <2>1. CASE Skip(s) \/ Confirm(s)
    BY <1>3, <2>1 DEF Skip, Confirm
  <2>2. CASE Refuse(s) \/ TimeOut(s)
    BY <1>3, <2>2 DEF Refuse, TimeOut
  <2> QED
    BY <1>5, <1>9, <2>1, <2>2 DEF Attempt
<1>10. CASE UNCHANGED vars \/ \E e \in Emails : SettleLate(e)
  BY <1>1, <1>10 DEF vars, SettleLate
<1> QED
  BY <1>6, <1>7, <1>8, <1>9, <1>10 DEF Next

\* For any number of retries and instances: no attempt that begins after the recipient has opted
\* out sends anything, unless the lookup fails.
THEOREM OptOutsHold == Spec => []OptOutHonoured
<1>1. Init => QuietInv
  BY DEF Init, QuietInv
<1>2. QuietInv => OptOutHonoured
  BY DEF QuietInv, OptOutHonoured
<1> QED
  BY <1>1, <1>2, TypesHold, QuietStep, PTL DEF Spec

-----------------------------------------------------------------------------
(* No email is lost *)

Closed(e) == job[e].state \in {"completed", "failed"}

\* It was delivered, or it is known why it need not be.
Answered(e) == copies[e] > 0 \/ excuse[e] # {}

\* An email that was asked for is answered, or somebody will go on with it.
LossInv ==
    /\ \A s \in Senders : Busy(s, "accepted") => copies[attempt[s].email] > 0
    /\ \A e \in Emails : Closed(e) => Answered(e)
    /\ \A e \in Emails : request[e].pc = "done" => Answered(e) \/ Open(e) \/ fallback[e] # None

\* Nothing that was delivered or excused is taken back.
Grows == \A e \in Emails : copies[e] <= copies'[e] /\ excuse[e] \subseteq excuse'[e]

LEMMA GrowsSame ==
    ASSUME TypeInv, copies' = copies,
           excuse' = excuse \/ \E e \in Emails, why \in {"optedOut", "exhausted", "crashed"} :
                                  Excuse(e, why)
    PROVE  Grows
<1>1. copies \in [Emails -> Nat] /\ excuse \in [Emails -> SUBSET {"optedOut", "exhausted", "crashed"}]
  BY DEF TypeInv, Counted, Recorded
<1>2. \A e \in Emails : copies[e] <= copies'[e]
  BY <1>1
<1>3. \A e \in Emails : excuse[e] \subseteq excuse'[e]
  BY <1>1 DEF Excuse
<1> QED
  BY <1>2, <1>3 DEF Grows

LEMMA GrowsAnswers ==
    ASSUME TypeInv, TypeInv', Grows, NEW e \in Emails, Answered(e)
    PROVE  Answered(e)'
<1>1. copies[e] \in Nat /\ copies'[e] \in Nat
  BY DEF TypeInv, Counted
<1> QED
  BY <1>1 DEF Grows, Answered

\* A step that leaves the jobs, the attempts and the requests alone, or moves them without an end
LEMMA LossKept ==
    ASSUME TypeInv, TypeInv', LossInv, Grows,
           \A s \in Senders : attempt'[s] # Idle /\ attempt'[s].pc = "accepted" =>
               attempt'[s] = attempt[s] \/ copies'[attempt'[s].email] > 0,
           \A e \in Emails : Closed(e)' => Closed(e) \/ Answered(e)',
           \A e \in Emails : Open(e) => Open(e)' \/ Answered(e)',
           \A e \in Emails : request'[e].pc = "done" /\ request[e].pc # "done" =>
               Answered(e)' \/ Open(e)' \/ fallback'[e] # None,
           \A e \in Emails : fallback[e] # None => fallback'[e] # None \/ Answered(e)' \/ Open(e)'
    PROVE  LossInv'
<1>1. \A e \in Emails : Answered(e) => Answered(e)'
  BY GrowsAnswers
<1>2. ASSUME NEW s \in Senders, attempt'[s].pc = "accepted"
      PROVE  copies'[attempt'[s].email] > 0
  <2>1. attempt'[s] # Idle
    BY <1>2 DEF Idle
  <2>2. CASE attempt'[s] = attempt[s]
    <3>1. attempt[s].email \in Emails
      BY <2>1, <2>2, AtWork DEF TypeInv
    <3>2. copies[attempt[s].email] > 0
      BY <1>2, <2>2 DEF LossInv, Busy
    <3>3. copies[attempt[s].email] \in Nat /\ copies'[attempt[s].email] \in Nat
      BY <3>1 DEF TypeInv, Counted
    <3> QED
      BY <2>2, <3>1, <3>2, <3>3 DEF Grows
  <2> QED
    BY <1>2, <2>1, <2>2
<1>3. \A e \in Emails : Closed(e)' => Answered(e)'
  BY <1>1 DEF LossInv
<1>4. \A e \in Emails : request'[e].pc = "done" => Answered(e)' \/ Open(e)' \/ fallback'[e] # None
  BY <1>1 DEF LossInv
<1> QED
  BY <1>2, <1>3, <1>4 DEF LossInv, Busy

LEMMA LossEnd ==
    ASSUME TypeInv, TypeInv', LossInv, Grows,
           NEW s \in Senders, attempt[s] # Idle, NEW ok \in BOOLEAN, End(s, ok),
           NEW e \in Emails, attempt[s].email = e,
           ok => Answered(e)',
           ~ok /\ GivesUp(s) => Answered(e)'
    PROVE  LossInv'
<1>1. s \in Emails => e = s
  BY AtWork DEF TypeInv
<1>2. \A t \in Senders : attempt'[t] = IF t = s THEN Idle ELSE attempt[t]
  BY DEF End, TypeInv, Tried
<1>3. UNCHANGED request
  BY DEF End
<1>4. CASE s \in Instances
  <2>1. job' = JobAfter(s, ok) /\ UNCHANGED fallback
    BY <1>4 DEF End
  <2>2. CASE job[e].state # s
    <3>1. UNCHANGED job
      BY <2>1, <2>2 DEF JobAfter
    <3> QED
      BY <1>2, <1>3, <2>1, <3>1, LossKept DEF Closed, Open, Idle
  <2>3. CASE job[e].state = s
    <3> DEFINE made == job[e].made + 1
               next(o) == IF o THEN "completed" ELSE IF made < Attempts THEN "delayed" ELSE "failed"
               j(o) == [job[e] EXCEPT !.state = next(o), !.made = made]
    <3>1. \A o \in BOOLEAN : JobAfter(s, o) = [job EXCEPT ![e] = j(o)]
      BY <1>1, <1>4, <2>3 DEF JobAfter, Reported
    <3>2. job \in [Emails -> JobRecord] /\ job[e] \in JobRecord
      BY <1>1 DEF TypeInv, Queued
    <3>3. \A o \in BOOLEAN : j(o).state = next(o)
      BY <3>2 DEF JobRecord
    <3>4. \A o \in BOOLEAN : JobAfter(s, o)[e].state = next(o)
      BY <1>1, <3>1, <3>2, <3>3
    <3>5. \A x \in Emails : x # e => job'[x] = job[x]
      BY <2>1, <3>1, <3>2
    <3>6. Answered(e)' \/ job'[e].state = "delayed"
      BY <1>4, <2>1, <3>4 DEF GivesUp
    <3>7. \A x \in Emails : /\ Closed(x)' => Closed(x) \/ Answered(x)'
                            /\ Open(x) => Open(x)' \/ Answered(x)'
      BY <3>5, <3>6 DEF Closed, Open
    <3> QED
      BY <1>2, <1>3, <2>1, <3>7, LossKept DEF Idle
  <2> QED
    BY <2>2, <2>3
<1>5. CASE s \notin Instances
  <2>1. fallback' = FallbackAfter(s, ok) /\ UNCHANGED job /\ s \in Emails
    BY <1>5, Distinct DEF End
  <2>2. fallback[s] \in 0 .. None /\ fallback \in [Emails -> 0 .. None]
    BY <2>1 DEF TypeInv, Tried
  <2>3. \A x \in Emails : x # s => fallback'[x] = fallback[x]
    BY <2>1, <2>2 DEF FallbackAfter
  <2>4. Answered(s)' \/ fallback'[s] # None
    <3>1. CASE ok \/ GivesUp(s)
      BY <1>1, <2>1, <3>1
    <3>2. CASE ~ok /\ ~GivesUp(s)
      <4>1. HasMore(fallback[s])
        BY <1>5, <3>2 DEF GivesUp
      <4>2. fallback'[s] = fallback[s] - 1
        BY <2>1, <2>2, <3>2, <4>1 DEF FallbackAfter
      <4> QED
        BY <2>2, <4>2, Bounds
    <3> QED
      BY <3>1, <3>2
  <2>5. \A x \in Emails : fallback[x] # None => fallback'[x] # None \/ Answered(x)'
    BY <2>3, <2>4
  <2> QED
    BY <1>2, <1>3, <2>1, <2>5, LossKept DEF Closed, Open, Idle
<1> QED
  BY <1>4, <1>5

LEMMA LossStep == TypeInv /\ TypeInv' /\ LossInv /\ [Next]_vars => LossInv'
<1> SUFFICES ASSUME TypeInv, TypeInv', LossInv, [Next]_vars PROVE LossInv'
  OBVIOUS
<1>0. /\ Queued /\ Tried /\ Counted /\ Recorded
      /\ Queued' /\ Tried' /\ Counted' /\ Recorded'
  BY DEF TypeInv
<1>1. CASE UNCHANGED vars
  <2>1. UNCHANGED <<request, job, fallback, attempt, copies, excuse>>
    BY <1>1 DEF vars, mail, history
  <2>2. Grows
    BY <2>1, GrowsSame
  <2> QED
    BY <2>1, <2>2, LossKept DEF Closed, Open
<1>2. ASSUME NEW e \in Emails, NEW i \in Instances, Request(e, i)
      PROVE  LossInv'
  <2>1. UNCHANGED <<job, fallback, attempt, copies, excuse>>
    BY <1>2 DEF Request, mail, history
  <2>2. Grows
    BY <2>1, GrowsSame
  <2>3. \A x \in Emails : request'[x].pc = "done" => request[x].pc = "done"
    BY <1>0, <1>2 DEF Request, Recorded
  <2> QED
    BY <2>1, <2>2, <2>3, LossKept DEF Closed, Open
<1>3. ASSUME NEW e \in Emails, Store(e) \/ Promote(e)
      PROVE  LossInv'
  <2>1. UNCHANGED <<request, fallback, attempt, copies, excuse>>
        /\ job' = [job EXCEPT ![e].state = "waiting"]
    BY <1>3 DEF Store, Promote, mail, history
  <2>2. Grows
    BY <2>1, GrowsSame
  <2>3. job[e] \in JobRecord
    BY <1>0 DEF Queued
  <2>4. job'[e].state = "waiting" /\ \A x \in Emails : x # e => job'[x] = job[x]
    BY <1>0, <2>1, <2>3 DEF Queued, JobRecord
  <2> QED
    BY <2>1, <2>2, <2>4, LossKept DEF Closed, Open
<1>4. ASSUME NEW e \in Emails, NEW added \in BOOLEAN, AddEnds(e, added)
      PROVE  LossInv'
  <2>1. UNCHANGED <<job, attempt, copies, excuse>>
    BY <1>4 DEF AddEnds, mail
  <2>2. Grows
    BY <2>1, GrowsSame
  <2>3. fallback' = IF ~added THEN [fallback EXCEPT ![e] = Retries] ELSE fallback
    BY <1>4 DEF AddEnds, FallsBack
  <2>4. \A x \in Emails : fallback[x] # None => fallback'[x] # None
    BY <1>0, <2>3, Bounds DEF Tried
  <2>5. \A x \in Emails : x # e => request'[x] = request[x]
    BY <1>0, <1>4 DEF AddEnds, Recorded
  <2>6. Answered(e) \/ Open(e) \/ fallback'[e] # None
    <3>1. CASE added
      <4>1. job[e] # NoJob
        BY <1>4, <3>1 DEF AddEnds
      <4>2. Open(e) \/ Closed(e)
        <5>1. job[e].state # "none" /\ job[e] \in JobRecord
          BY <1>0, <4>1 DEF Queued, JobsOpen
        <5> QED
          BY <5>1 DEF JobRecord, JobStates, Open, Closed
      <4> QED
        BY <4>2 DEF LossInv
    <3>2. CASE ~added
      BY <1>0, <2>3, <3>2, Bounds DEF Tried
    <3> QED
      BY <3>1, <3>2
  <2> QED
    BY <2>1, <2>2, <2>4, <2>5, <2>6, LossKept DEF Closed, Open, Answered
<1>5. ASSUME NEW e \in Emails, NEW s \in Senders, attempt' = [attempt EXCEPT ![s] = Begun(e)],
             UNCHANGED <<request, fallback, copies, excuse>>,
             \A x \in Emails : Closed(x)' => Closed(x), \A x \in Emails : Open(x) => Open(x)'
      PROVE  LossInv'
  <2>1. Grows
    BY <1>5, GrowsSame
  <2>2. \A t \in Senders : attempt'[t] = IF t = s THEN Begun(e) ELSE attempt[t]
    BY <1>0, <1>5 DEF Tried
  <2>3. Begun(e).pc = "lookup"
    BY DEF Begun
  <2> QED
    BY <1>5, <2>1, <2>2, <2>3, LossKept
<1>6. ASSUME NEW e \in Emails, BeginFallback(e)
      PROVE  LossInv'
  <2>1. /\ UNCHANGED <<request, job, fallback, copies, excuse>>
        /\ attempt' = [attempt EXCEPT ![e] = Begun(e)] /\ e \in Senders
    BY <1>6, Distinct DEF BeginFallback, mail, history
  <2> QED
    BY <1>5, <2>1 DEF Closed, Open
<1>7. ASSUME NEW e \in Emails, NEW i \in Instances, TakeJob(i, e)
      PROVE  LossInv'
  <2>1. /\ UNCHANGED <<request, fallback, copies, excuse>>
        /\ attempt' = [attempt EXCEPT ![i] = Begun(e)] /\ i \in Senders
        /\ job' = [job EXCEPT ![e].state = i]
    BY <1>7, Distinct DEF TakeJob, mail, history
  <2>2. job[e] \in JobRecord
    BY <1>0 DEF Queued
  <2>3. job'[e].state = i /\ \A x \in Emails : x # e => job'[x] = job[x]
    BY <1>0, <2>1, <2>2 DEF Queued, JobRecord
  <2> QED
    BY <1>5, <2>1, <2>3, StatesApart DEF Closed, Open
<1>8. ASSUME NEW e \in Emails, Stall(e)
      PROVE  LossInv'
  <2> DEFINE again == job[e].stalls < MaxStalled
             j == [job[e] EXCEPT !.state = IF again THEN "waiting" ELSE "failed",
                                 !.stalls = IF again THEN @ + 1 ELSE @]
  <2>1. UNCHANGED <<request, fallback, attempt, copies>> /\ job' = [job EXCEPT ![e] = j]
    BY <1>8 DEF Stall, mail
  <2>2. IF again THEN UNCHANGED excuse ELSE Excuse(e, "exhausted")
    BY <1>8 DEF Stall
  <2>3. Grows
    BY <2>1, <2>2, GrowsSame
  <2>4. job[e] \in JobRecord
    BY <1>0 DEF Queued
  <2>5. j.state = IF again THEN "waiting" ELSE "failed"
    BY <2>4 DEF JobRecord
  <2>6. job'[e] = j /\ \A x \in Emails : x # e => job'[x] = job[x]
    BY <1>0, <2>1 DEF Queued
  <2>7. ~again => Answered(e)'
    <3> SUFFICES ASSUME ~again PROVE excuse'[e] # {}
      BY DEF Answered
    <3>1. excuse' = [excuse EXCEPT ![e] = @ \union {"exhausted"}]
      BY <2>2 DEF Excuse
    <3> QED
      BY <1>0, <3>1 DEF Recorded
  <2> HIDE DEF again, j
  <2>8. \A x \in Emails : /\ Closed(x)' => Closed(x) \/ Answered(x)'
                          /\ Open(x) => Open(x)' \/ Answered(x)'
    BY <2>5, <2>6, <2>7 DEF Closed, Open
  <2> QED
    BY <2>1, <2>3, <2>8, LossKept
<1>9. ASSUME NEW s \in Senders, Skip(s)
      PROVE  LossInv'
  <2>1. attempt[s] # Idle /\ End(s, TRUE) /\ copies' = copies /\ Excuse(attempt[s].email, "optedOut")
    BY <1>9, BusyWorks DEF Skip, mail
  <2>2. PICK e \in Emails : e = attempt[s].email
    BY <1>0, <2>1, AtWork
  <2>3. Grows
    BY <2>1, <2>2, GrowsSame
  <2>4. Answered(e)'
    BY <1>0, <2>1, <2>2 DEF Excuse, Recorded, Answered
  <2> QED
    BY <2>1, <2>2, <2>3, <2>4, LossEnd
<1>10. ASSUME NEW s \in Senders, Send(s) \/ SendUnseen(s) \/ Accept(s)
       PROVE  LossInv'
  <2> DEFINE e == attempt[s].email
  <2>1. attempt[s] # Idle /\ UNCHANGED <<request, job, fallback, excuse>>
    BY <1>10, BusyWorks DEF Send, SendUnseen, Accept, mail, history
  <2>2. attempt[s] \in Begins /\ e \in Emails
    BY <1>0, <2>1, AtWork
  <2>3. copies' = copies \/ copies' = [copies EXCEPT ![e] = @ + 1]
    BY <1>10 DEF Send, SendUnseen, Accept, mail
  <2>4. Grows
    <3>1. \A x \in Emails : copies[x] <= copies'[x]
      BY <1>0, <2>2, <2>3 DEF Counted
    <3> QED
      BY <2>1, <3>1 DEF Grows
  <2>5. \A t \in Senders : t # s => attempt'[t] = attempt[t]
    BY <1>0, <1>10 DEF Tried, Send, SendUnseen, Accept, At
  <2>6. attempt'[s].pc # "accepted" \/ (attempt'[s].email = e /\ copies'[e] > 0)
    <3>1. CASE Send(s)
      <4>1. attempt'[s].pc = "sending"
        BY <1>0, <2>2, <3>1 DEF Tried, Send, At, Begins
      <4> QED
        BY <4>1
    <3>2. CASE SendUnseen(s)
      <4>1. attempt'[s].pc = "sending"
        BY <1>0, <2>2, <3>2 DEF Tried, SendUnseen, Begins
      <4> QED
        BY <4>1
    <3>3. CASE Accept(s)
      <4>1. attempt'[s].email = e
        BY <1>0, <2>2, <3>3 DEF Tried, Accept, At, Begins
      <4>2. copies'[e] = copies[e] + 1 /\ copies[e] \in Nat
        BY <1>0, <2>2, <3>3 DEF Accept, Counted
      <4> QED
        BY <4>1, <4>2
    <3> QED
      BY <1>10, <3>1, <3>2, <3>3
  <2> QED
    BY <2>1, <2>4, <2>5, <2>6, LossKept DEF Closed, Open
<1>11. ASSUME NEW s \in Senders, Confirm(s)
       PROVE  LossInv'
  <2>1. attempt[s] # Idle /\ End(s, TRUE) /\ UNCHANGED <<copies, excuse>>
    BY <1>11, BusyWorks DEF Confirm, mail, history
  <2>2. Grows
    BY <2>1, GrowsSame
  <2>3. PICK e \in Emails : e = attempt[s].email
    BY <1>0, <2>1, AtWork
  <2>4. Answered(e)'
    BY <1>11, <2>1, <2>3 DEF Confirm, LossInv, Answered
  <2> QED
    BY <2>1, <2>2, <2>3, <2>4, LossEnd
<1>12. ASSUME NEW s \in Senders, Refuse(s) \/ TimeOut(s)
       PROVE  LossInv'
  <2>1. attempt[s] # Idle /\ End(s, FALSE) /\ copies' = copies /\ FailureExcuse(s)
    BY <1>12, BusyWorks DEF Refuse, TimeOut, TimesOut, mail
  <2>2. PICK e \in Emails : e = attempt[s].email
    BY <1>0, <2>1, AtWork
  <2>3. Grows
    BY <2>1, <2>2, GrowsSame DEF FailureExcuse
  <2>4. GivesUp(s) => Answered(e)'
    <3> SUFFICES ASSUME GivesUp(s) PROVE excuse'[e] # {}
      BY DEF Answered
    <3>1. excuse' = [excuse EXCEPT ![e] = @ \union {"exhausted"}]
      BY <2>1, <2>2 DEF FailureExcuse, Excuse
    <3> QED
      BY <1>0, <3>1 DEF Recorded
  <2> QED
    BY <2>1, <2>2, <2>3, <2>4, LossEnd
<1>13. ASSUME NEW e \in Emails, SettleLate(e)
       PROVE  LossInv'
  <2>1. UNCHANGED <<request, job, fallback, attempt, excuse>>
        /\ copies' \in {copies, [copies EXCEPT ![e] = @ + 1]}
    BY <1>13 DEF SettleLate, history
  <2>2. Grows
    <3>1. \A x \in Emails : copies[x] <= copies'[x]
      BY <1>0, <2>1 DEF Counted
    <3> QED
      BY <2>1, <3>1 DEF Grows
  <2> QED
    BY <2>1, <2>2, LossKept DEF Closed, Open
<1>14. ASSUME NEW e \in Emails, ChangeOptOut(e)
       PROVE  LossInv'
  <2>1. UNCHANGED <<request, job, fallback, copies, excuse>>
    BY <1>14 DEF ChangeOptOut, mail, history
  <2>2. Grows
    BY <2>1, GrowsSame
  <2>3. ASSUME NEW s \in Senders, attempt'[s] # Idle, attempt'[s].pc = "accepted"
        PROVE  copies'[attempt'[s].email] > 0
    <3>1. attempt'[s] = attempt[s] \/ (attempt[s] # Idle /\ attempt'[s] = [attempt[s] EXCEPT !.quiet = FALSE])
      BY <1>14, <2>3 DEF ChangeOptOut
    <3>2. attempt[s] # Idle
      BY <2>3, <3>1
    <3>3. attempt[s] \in Begins
      BY <1>0, <3>2, AtWork
    <3>4. attempt'[s].pc = attempt[s].pc /\ attempt'[s].email = attempt[s].email
      BY <3>1, <3>3 DEF Begins
    <3> QED
      BY <2>1, <2>3, <3>4 DEF LossInv, Busy
  <2> QED
    BY <2>1, <2>2, <2>3, LossKept DEF Closed, Open
<1>15. ASSUME NEW i \in Instances, Crash(i)
       PROVE  LossInv'
  <2>1. UNCHANGED <<job, copies>>
    BY <1>15 DEF Crash
  <2>2. /\ request' = [e \in Emails |-> IF InProcess(e, i) THEN [request[e] EXCEPT !.pc = "done"]
                                                           ELSE request[e]]
        /\ fallback' = [e \in Emails |-> IF InProcess(e, i) THEN None ELSE fallback[e]]
        /\ attempt' = [s \in Senders |-> IF s = i \/ (s \in Emails /\ InProcess(s, i))
                                         THEN Idle ELSE attempt[s]]
        /\ excuse' = [e \in Emails |-> IF InProcess(e, i) /\ job[e] = NoJob
                                       THEN excuse[e] \union {"crashed"} ELSE excuse[e]]
    BY <1>15 DEF Crash
  <2>3. Grows
    <3>1. \A x \in Emails : copies[x] <= copies'[x]
      BY <1>0, <2>1 DEF Counted
    <3>2. \A x \in Emails : excuse[x] \subseteq excuse'[x]
      BY <2>2
    <3> QED
      BY <3>1, <3>2 DEF Grows
  <2>4. ASSUME NEW x \in Emails, InProcess(x, i)
        PROVE  Answered(x)' \/ Open(x)'
    <3>1. CASE job[x] = NoJob
      BY <2>2, <2>4, <3>1 DEF Answered
    <3>2. CASE job[x] # NoJob
      <4>1. job[x].state # "none" /\ job[x] \in JobRecord
        BY <1>0, <3>2 DEF Queued, JobsOpen
      <4>2. Open(x) \/ Closed(x)
        BY <4>1 DEF JobRecord, JobStates, Open, Closed
      <4>3. Open(x)' \/ Answered(x)
        BY <2>1, <4>2 DEF LossInv, Open
      <4> QED
        BY <2>3, <4>3, GrowsAnswers
    <3> QED
      BY <3>1, <3>2
  <2>5. \A x \in Emails : ~InProcess(x, i) => fallback'[x] = fallback[x] /\ request'[x] = request[x]
    BY <2>2
  <2>6. \A s \in Senders : attempt'[s] # Idle => attempt'[s] = attempt[s]
    BY <2>2
  <2> QED
    BY <2>1, <2>3, <2>4, <2>5, <2>6, LossKept DEF Closed, Open
<1> QED
  BY <1>1, <1>2, <1>3, <1>4, <1>6, <1>7, <1>8, <1>9, <1>10, <1>11, <1>12, <1>13, <1>14, <1>15
  DEF Next, Enqueue, Queue, Attempt

\* For any number of crashes, stalls and failures, an email that nobody works on any more was
\* delivered or has one of the three excuses.
THEOREM NoneIsLost == Spec => []NothingLost
<1>1. Init => LossInv
  <2> SUFFICES ASSUME Init PROVE LossInv
    OBVIOUS
  <2>1. \A s \in Senders : ~Busy(s, "accepted")
    BY DEF Init, Busy, Idle
  <2>2. \A e \in Emails : ~Closed(e) /\ request[e].pc = "new"
    BY DEF Init, Closed, NoJob
  <2> QED
    BY <2>1, <2>2 DEF LossInv
<1>2. TypeInv /\ LossInv => NothingLost
  <2> SUFFICES ASSUME TypeInv, LossInv, NEW e \in Emails, Over(e)
               PROVE  copies[e] > 0 \/ excuse[e] # {}
    BY DEF NothingLost
  <2>1. ~Open(e)
    BY StatesApart DEF Over, Open
  <2> QED
    BY <2>1 DEF Over, LossInv, Answered
<1> QED
  BY <1>1, <1>2, TypesHold, LossStep, PTL DEF Spec

-----------------------------------------------------------------------------
(* Copies *)

\* The attempts that may still send the email
Active(e) ==
    {s \in Senders : attempt[s] # Idle /\ attempt[s].email = e /\ attempt[s].pc # "accepted"}

\* One more attempt may begin: from the queue, from the fallback, or because the call of
\* queue.add is not decided.
Ready(e) == IF job[e].state \in {"waiting", "delayed"} THEN 1 ELSE 0
Armed(e) == IF fallback[e] # None /\ attempt[e] = Idle THEN 1 ELSE 0
Asked(e) == IF request[e].pc # "done" /\ job[e] = NoJob THEN 1 ELSE 0

Possible(e) == copies[e] + late[e] + Cardinality(Active(e)) + Ready(e) + Armed(e) + Asked(e)

\* What may ever arrive grows only with the doubtful failures.
CopyInv == \A e \in Emails : Possible(e) <= 1 + doubt[e]

LEMMA ActiveFinite ==
    ASSUME Tried, NEW e \in Emails
    PROVE  /\ Active(e) \subseteq Instances \union {e}
           /\ IsFiniteSet(Active(e)) /\ Cardinality(Active(e)) \in Nat
<1>1. Active(e) \subseteq Instances \union {e}
  BY Distinct DEF Active, Tried
<1>2. IsFiniteSet(Instances \union {e})
  BY SendersAssumption, FS_AddElement
<1> QED
  BY <1>1, <1>2, FS_Subset, FS_CardinalityType

Numeric ==
    \A e \in Emails :
        /\ copies[e] \in Nat /\ late[e] \in Nat /\ doubt[e] \in Nat
        /\ Cardinality(Active(e)) \in Nat
        /\ Ready(e) \in 0 .. 1 /\ Armed(e) \in 0 .. 1 /\ Asked(e) \in 0 .. 1

LEMMA Numbers == TypeInv => Numeric
BY ActiveFinite DEF TypeInv, Counted, Ready, Armed, Asked, Numeric

LEMMA NumbersAfter == TypeInv' => Numeric'
BY Numbers, PTL

\* The steps of a sender on the email e change what is possible by their own parts only.
LEMMA ActiveOthers ==
    ASSUME Tried, NEW s \in Senders, NEW a, attempt' = [attempt EXCEPT ![s] = a],
           NEW x \in Emails, attempt[s] = Idle \/ attempt[s].email # x, a = Idle \/ a.email # x
    PROVE  Active(x)' = Active(x)
BY DEF Active, Tried

LEMMA ActiveBegins ==
    ASSUME Tried, NEW s \in Senders, NEW e \in Emails, attempt[s] = Idle,
           attempt' = [attempt EXCEPT ![s] = Begun(e)]
    PROVE  Cardinality(Active(e)') = Cardinality(Active(e)) + 1
<1>1. Begun(e) # Idle /\ Begun(e).email = e /\ Begun(e).pc # "accepted"
  BY DEF Begun, Idle
<1>2. Active(e)' = Active(e) \union {s} /\ s \notin Active(e)
  BY <1>1 DEF Active, Tried
<1> QED
  BY <1>2, ActiveFinite, FS_AddElement

\* An attempt that ends, or that the provider accepts, sends no more.
LEMMA ActiveEnds ==
    ASSUME Tried, NEW s \in Senders, NEW e \in Emails, attempt[s] # Idle, attempt[s].email = e,
           NEW a, attempt' = [attempt EXCEPT ![s] = a], a = Idle \/ a.pc = "accepted"
    PROVE  Cardinality(Active(e)') =
               Cardinality(Active(e)) - (IF attempt[s].pc = "accepted" THEN 0 ELSE 1)
<1>1. CASE attempt[s].pc = "accepted"
  <2>1. Active(e)' = Active(e)
    BY <1>1 DEF Active, Tried
  <2> QED
    BY <1>1, <2>1, ActiveFinite
<1>2. CASE attempt[s].pc # "accepted"
  <2>1. Active(e)' = Active(e) \ {s} /\ s \in Active(e)
    BY <1>2 DEF Active, Tried
  <2>2. Cardinality(Active(e) \ {s}) = Cardinality(Active(e)) - 1
    BY <2>1, ActiveFinite, FS_RemoveElement
  <2> QED
    BY <1>2, <2>1, <2>2
<1> QED
  BY <1>1, <1>2

\* A step that makes nothing more possible for any email
LEMMA CopiesKept ==
    ASSUME CopyInv, TypeInv, TypeInv',
           \A x \in Emails : Possible(x)' - doubt'[x] <= Possible(x) - doubt[x]
    PROVE  CopyInv'
<1>1. \A x \in Emails : Possible(x) \in Int /\ doubt[x] \in Nat
  BY Numbers DEF Numeric, Possible
<1>2. \A x \in Emails : Possible(x)' \in Int /\ doubt'[x] \in Nat
  BY NumbersAfter DEF Numeric, Possible
<1> QED
  BY <1>1, <1>2 DEF CopyInv

\* A step about one email
LEMMA OneEmail ==
    ASSUME CopyInv, TypeInv, TypeInv', NEW e \in Emails,
           Possible(e)' - doubt'[e] <= Possible(e) - doubt[e],
           \A x \in Emails : x # e =>
               /\ copies'[x] = copies[x] /\ late'[x] = late[x] /\ doubt'[x] = doubt[x]
               /\ job'[x] = job[x] /\ request'[x] = request[x] /\ fallback'[x] = fallback[x]
               /\ attempt'[x] = attempt[x] /\ Active(x)' = Active(x)
    PROVE  CopyInv'
<1>1. \A x \in Emails : x # e => Possible(x)' = Possible(x) /\ doubt'[x] = doubt[x]
  BY DEF Possible, Ready, Armed, Asked
<1>2. \A x \in Emails : Possible(x) \in Int /\ doubt[x] \in Nat
  BY Numbers DEF Numeric, Possible
<1>3. \A x \in Emails : Possible(x)' - doubt'[x] <= Possible(x) - doubt[x]
  BY <1>1, <1>2
<1> QED
  BY <1>3, CopiesKept

\* The end of an attempt leaves room for one more attempt at most, and only after a failure.
LEMMA EndCounts ==
    ASSUME TypeInv, NEW s \in Senders, attempt[s] # Idle, NEW ok \in BOOLEAN, End(s, ok),
           NEW e \in Emails, attempt[s].email = e
    PROVE  /\ Asked(e)' = Asked(e)
           /\ Ready(e)' + Armed(e)' <= Ready(e) + Armed(e) + (IF ok THEN 0 ELSE 1)
           /\ Cardinality(Active(e)') =
                  Cardinality(Active(e)) - (IF attempt[s].pc = "accepted" THEN 0 ELSE 1)
           /\ \A x \in Emails : x # e =>
                  /\ job'[x] = job[x] /\ request'[x] = request[x] /\ fallback'[x] = fallback[x]
                  /\ attempt'[x] = attempt[x] /\ Active(x)' = Active(x)
<1>1. s \in Emails => e = s /\ fallback[s] # None
  BY AtWork DEF TypeInv
<1>2. Tried /\ Queued /\ attempt' = [attempt EXCEPT ![s] = Idle] /\ UNCHANGED request
  BY DEF End, TypeInv
<1>3. /\ Cardinality(Active(e)') =
             Cardinality(Active(e)) - (IF attempt[s].pc = "accepted" THEN 0 ELSE 1)
      /\ \A x \in Emails : x # e => attempt'[x] = attempt[x] /\ Active(x)' = Active(x)
  <2>1. Cardinality(Active(e)') =
             Cardinality(Active(e)) - (IF attempt[s].pc = "accepted" THEN 0 ELSE 1)
    BY <1>2, ActiveEnds
  <2>2. \A x \in Emails : x # e => Active(x)' = Active(x)
    BY <1>2, ActiveOthers
  <2>3. \A x \in Emails : x # e => attempt'[x] = attempt[x]
    BY <1>1, <1>2 DEF Tried
  <2> QED
    BY <2>1, <2>2, <2>3
<1>4. CASE s \in Instances
  <2>1. job' = JobAfter(s, ok) /\ UNCHANGED fallback
    BY <1>4 DEF End
  <2>2. Armed(e)' = Armed(e)
    BY <1>2, <1>4, <2>1, Distinct DEF Armed, Tried
  <2>3. CASE job[e].state # s
    <3>1. UNCHANGED job
      BY <2>1, <2>3 DEF JobAfter
    <3> QED
      BY <1>2, <1>3, <2>1, <2>2, <3>1 DEF Ready, Asked, Armed
  <2>4. CASE job[e].state = s
    <3> DEFINE made == job[e].made + 1
               next == IF ok THEN "completed" ELSE IF made < Attempts THEN "delayed" ELSE "failed"
               j == [job[e] EXCEPT !.state = next, !.made = made]
    <3>1. job' = [job EXCEPT ![e] = j]
      BY <2>1, <2>4 DEF JobAfter, Reported
    <3>2. job \in [Emails -> JobRecord] /\ job[e] \in JobRecord
      BY <1>2 DEF Queued
    <3>3. j.state = next
      BY <3>2 DEF JobRecord
    <3>4. job'[e] = j /\ \A x \in Emails : x # e => job'[x] = job[x]
      BY <3>1, <3>2
    <3>5. job'[e].state \in {"completed", "delayed", "failed"} /\ (ok => job'[e].state = "completed")
      BY <3>3, <3>4
    <3> HIDE DEF j, next
    <3>6. Ready(e) = 0 /\ job[e] # NoJob
      BY <1>4, <2>4, StatesApart DEF Ready, NoJob
    <3>7. Ready(e)' <= (IF ok THEN 0 ELSE 1) /\ Ready(e)' \in 0 .. 1 /\ job'[e] # NoJob
      BY <3>5 DEF Ready, NoJob
    <3>8. Asked(e)' = Asked(e)
      BY <3>6, <3>7 DEF Asked
    <3>9. Armed(e) \in 0 .. 1
      BY DEF Armed
    <3>10. Ready(e)' + Armed(e)' <= Ready(e) + Armed(e) + (IF ok THEN 0 ELSE 1)
      BY <2>2, <3>6, <3>7, <3>9
    <3> QED
      BY <1>2, <1>3, <2>1, <3>4, <3>8, <3>10
  <2> QED
    BY <2>3, <2>4
<1>5. CASE s \notin Instances
  <2>1. fallback' = FallbackAfter(s, ok) /\ UNCHANGED job /\ s \in Emails /\ e = s
    BY <1>1, <1>5, Distinct DEF End
  <2>2. fallback' = [fallback EXCEPT ![s] = IF ~ok /\ HasMore(@) THEN @ - 1 ELSE None]
    BY <2>1 DEF FallbackAfter
  <2>3. Armed(e) = 0
    BY <2>1 DEF Armed
  <2>4. ok => fallback'[e] = None
    BY <1>2, <2>1, <2>2 DEF Tried
  <2>5. Armed(e)' \in 0 .. 1 /\ (ok => Armed(e)' = 0)
    BY <2>4 DEF Armed
  <2>6. Ready(e)' = Ready(e) /\ Asked(e)' = Asked(e) /\ Ready(e) \in 0 .. 1
    BY <1>2, <2>1 DEF Ready, Asked
  <2>7. \A x \in Emails : x # e => fallback'[x] = fallback[x]
    BY <1>2, <2>1, <2>2 DEF Tried
  <2>8. Ready(e)' + Armed(e)' <= Ready(e) + Armed(e) + (IF ok THEN 0 ELSE 1)
    BY <2>3, <2>5, <2>6
  <2> QED
    BY <1>2, <1>3, <2>1, <2>6, <2>7, <2>8
<1> QED
  BY <1>4, <1>5

LEMMA EndCopies ==
    ASSUME TypeInv, TypeInv', CopyInv,
           NEW s \in Senders, attempt[s] # Idle, NEW ok \in BOOLEAN, End(s, ok),
           NEW e \in Emails, attempt[s].email = e,
           \A x \in Emails : x # e =>
               copies'[x] = copies[x] /\ late'[x] = late[x] /\ doubt'[x] = doubt[x],
           copies'[e] = copies[e],
           late'[e] + (IF ok THEN 0 ELSE 1) - doubt'[e]
               <= late[e] + (IF attempt[s].pc = "accepted" THEN 0 ELSE 1) - doubt[e]
    PROVE  CopyInv'
<1>1. Numeric /\ Numeric'
  BY Numbers, NumbersAfter
<1>2. Possible(e)' - doubt'[e] <= Possible(e) - doubt[e]
  <2>1. /\ Asked(e)' = Asked(e)
        /\ Ready(e)' + Armed(e)' <= Ready(e) + Armed(e) + (IF ok THEN 0 ELSE 1)
        /\ Cardinality(Active(e)') =
               Cardinality(Active(e)) - (IF attempt[s].pc = "accepted" THEN 0 ELSE 1)
    BY EndCounts
  <2> QED
    BY <1>1, <2>1 DEF Possible, Numeric
<1>3. \A x \in Emails : x # e =>
        /\ job'[x] = job[x] /\ request'[x] = request[x] /\ fallback'[x] = fallback[x]
        /\ attempt'[x] = attempt[x] /\ Active(x)' = Active(x)
  BY EndCounts
<1> QED
  BY <1>2, <1>3, OneEmail

LEMMA CopyStep == TypeInv /\ TypeInv' /\ CopyInv /\ [Next]_vars => CopyInv'
<1> SUFFICES ASSUME TypeInv, TypeInv', CopyInv, [Next]_vars PROVE CopyInv'
  OBVIOUS
<1>0. /\ Queued /\ Tried /\ Counted /\ Recorded /\ Numeric
      /\ Queued' /\ Tried' /\ Counted' /\ Recorded' /\ Numeric'
  BY Numbers, NumbersAfter DEF TypeInv
<1>1. ASSUME UNCHANGED <<copies, late, doubt, job, fallback>>,
             \A x \in Emails : Asked(x)' = Asked(x) /\ Active(x)' = Active(x) /\ Armed(x)' = Armed(x)
      PROVE  CopyInv'
  BY <1>1 DEF CopyInv, Possible, Ready
<1>2. CASE UNCHANGED vars
  BY <1>1, <1>2 DEF vars, mail, history, Asked, Active, Armed
<1>3. ASSUME NEW e \in Emails, NEW i \in Instances, Request(e, i)
      PROVE  CopyInv'
  <2>1. UNCHANGED <<copies, late, doubt, job, fallback, attempt>> /\ request[e].pc = "new"
    BY <1>3 DEF Request, mail, history
  <2>2. request'[e].pc = "adding" /\ \A x \in Emails : x # e => request'[x] = request[x]
    BY <1>0, <1>3 DEF Request, Recorded
  <2>3. \A x \in Emails : Asked(x)' = Asked(x)
    BY <2>1, <2>2 DEF Asked
  <2> QED
    BY <1>1, <2>1, <2>3 DEF Active, Armed
<1>4. ASSUME NEW e \in Emails, Store(e) \/ Promote(e)
      PROVE  CopyInv'
  <2>1. UNCHANGED <<request, fallback, attempt, copies, late, doubt>>
        /\ job' = [job EXCEPT ![e].state = "waiting"]
    BY <1>4 DEF Store, Promote, mail, history
  <2>2. job[e] \in JobRecord
    BY <1>0 DEF Queued
  <2>3. job'[e].state = "waiting" /\ \A x \in Emails : x # e => job'[x] = job[x]
    BY <1>0, <2>1, <2>2 DEF Queued, JobRecord
  <2>4. Ready(e)' + Asked(e)' = Ready(e) + Asked(e)
    <3>1. Ready(e)' = 1 /\ Asked(e)' = 0
      BY <2>3 DEF Ready, Asked, NoJob
    <3>2. CASE Store(e)
      BY <3>1, <3>2 DEF Store, Ready, Asked, NoJob
    <3>3. CASE Promote(e)
      BY <3>1, <3>3 DEF Promote, Ready, Asked, NoJob
    <3> QED
      BY <1>4, <3>2, <3>3
  <2>5. \A x \in Emails : Active(x)' = Active(x) /\ Armed(x)' = Armed(x)
    BY <2>1 DEF Active, Armed
  <2>6. Possible(e)' - doubt'[e] <= Possible(e) - doubt[e]
    BY <1>0, <2>1, <2>4, <2>5 DEF Possible, Numeric
  <2> QED
    BY <2>1, <2>3, <2>5, <2>6, OneEmail
<1>5. ASSUME NEW e \in Emails, NEW added \in BOOLEAN, AddEnds(e, added)
      PROVE  CopyInv'
  <2>1. UNCHANGED <<job, attempt, copies, late>> /\ request[e].pc = "adding"
    BY <1>5 DEF AddEnds, mail
  <2>2. fallback' = IF ~added THEN [fallback EXCEPT ![e] = Retries] ELSE fallback
    BY <1>5 DEF AddEnds, FallsBack
  <2>3. request'[e].pc = "done" /\ \A x \in Emails : x # e => request'[x] = request[x]
    <3>1. request[e] \in [pc : {"adding", "done"}, at : Instances]
      BY <1>0, <2>1 DEF Recorded
    <3> QED
      BY <1>0, <1>5, <3>1 DEF AddEnds, Recorded
  <2>4. \A x \in Emails : x # e => fallback'[x] = fallback[x]
    BY <1>0, <2>2 DEF Tried
  <2>5. IF ~added /\ job[e] # NoJob THEN MoreDoubt(e) ELSE UNCHANGED doubt
    BY <1>5 DEF AddEnds
  <2>6. \A x \in Emails : x # e => doubt'[x] = doubt[x]
    BY <1>0, <2>5 DEF MoreDoubt, Counted
  <2>7. Asked(e)' = 0
    BY <2>3 DEF Asked
  <2>8. \A x \in Emails : Active(x)' = Active(x) /\ Ready(x)' = Ready(x)
    BY <2>1 DEF Active, Ready
  <2>9. Armed(e)' + Asked(e)' - doubt'[e] <= Armed(e) + Asked(e) - doubt[e]
    <3>1. CASE added
      <4>1. Armed(e)' = Armed(e) /\ doubt' = doubt
        BY <2>1, <2>2, <2>5, <3>1 DEF Armed
      <4> QED
        BY <1>0, <2>7, <4>1 DEF Numeric
    <3>2. CASE ~added /\ job[e] = NoJob
      <4>1. Asked(e) = 1 /\ doubt' = doubt
        BY <2>1, <2>5, <3>2 DEF Asked
      <4> QED
        BY <1>0, <2>7, <4>1 DEF Numeric
    <3>3. CASE ~added /\ job[e] # NoJob
      <4>1. doubt'[e] = doubt[e] + 1
        BY <1>0, <2>5, <3>3 DEF MoreDoubt, Counted
      <4> QED
        BY <1>0, <2>7, <4>1 DEF Numeric
    <3> QED
      BY <3>1, <3>2, <3>3
  <2>10. Possible(e)' - doubt'[e] <= Possible(e) - doubt[e]
    BY <1>0, <2>1, <2>8, <2>9 DEF Possible, Numeric
  <2> QED
    BY <2>1, <2>3, <2>4, <2>6, <2>8, <2>10, OneEmail
<1>6. ASSUME NEW e \in Emails, BeginFallback(e)
      PROVE  CopyInv'
  <2>1. /\ UNCHANGED <<request, job, fallback, copies, late, doubt>>
        /\ attempt' = [attempt EXCEPT ![e] = Begun(e)] /\ e \in Senders
        /\ attempt[e] = Idle /\ fallback[e] # None
    BY <1>6, Distinct DEF BeginFallback, mail, history
  <2>2. Cardinality(Active(e)') = Cardinality(Active(e)) + 1
    BY <1>0, <2>1, ActiveBegins
  <2>3. Begun(e).email = e /\ Begun(e) # Idle
    BY DEF Begun, Idle
  <2>4. \A x \in Emails : x # e => Active(x)' = Active(x) /\ attempt'[x] = attempt[x]
    <3>1. \A x \in Emails : x # e => Active(x)' = Active(x)
      BY <1>0, <2>1, <2>3, ActiveOthers
    <3>2. \A x \in Emails : x # e => attempt'[x] = attempt[x]
      BY <1>0, <2>1 DEF Tried
    <3> QED
      BY <3>1, <3>2
  <2>5. Armed(e) = 1 /\ Armed(e)' = 0
    BY <1>0, <2>1, <2>3 DEF Armed, Tried
  <2>6. Possible(e)' - doubt'[e] <= Possible(e) - doubt[e]
    BY <1>0, <2>1, <2>2, <2>5 DEF Possible, Numeric, Ready, Asked
  <2> QED
    BY <2>1, <2>4, <2>6, OneEmail
<1>7. ASSUME NEW e \in Emails, NEW i \in Instances, TakeJob(i, e)
      PROVE  CopyInv'
  <2>1. /\ UNCHANGED <<request, fallback, copies, late, doubt>>
        /\ attempt' = [attempt EXCEPT ![i] = Begun(e)] /\ i \in Senders /\ i \notin Emails
        /\ attempt[i] = Idle /\ job[e].state = "waiting" /\ job' = [job EXCEPT ![e].state = i]
    BY <1>7, Distinct DEF TakeJob, mail, history
  <2>2. job[e] \in JobRecord
    BY <1>0 DEF Queued
  <2>3. job'[e].state = i /\ \A x \in Emails : x # e => job'[x] = job[x]
    BY <1>0, <2>1, <2>2 DEF Queued, JobRecord
  <2>4. Ready(e) = 1 /\ Ready(e)' = 0 /\ Asked(e) = 0 /\ Asked(e)' = 0
    BY <2>1, <2>3, StatesApart DEF Ready, Asked, NoJob
  <2>5. Cardinality(Active(e)') = Cardinality(Active(e)) + 1
    BY <1>0, <2>1, ActiveBegins
  <2>6. Begun(e).email = e
    BY DEF Begun
  <2>7. \A x \in Emails : /\ x # e => Active(x)' = Active(x)
                          /\ attempt'[x] = attempt[x]
    <3>1. \A x \in Emails : x # e => Active(x)' = Active(x)
      BY <1>0, <2>1, <2>6, ActiveOthers
    <3>2. \A x \in Emails : attempt'[x] = attempt[x]
      BY <1>0, <2>1 DEF Tried
    <3> QED
      BY <3>1, <3>2
  <2>8. Armed(e)' = Armed(e)
    BY <2>1, <2>7 DEF Armed
  <2>9. Possible(e)' - doubt'[e] <= Possible(e) - doubt[e]
    BY <1>0, <2>1, <2>4, <2>5, <2>8 DEF Possible, Numeric
  <2> QED
    BY <2>1, <2>3, <2>7, <2>9, OneEmail
<1>8. ASSUME NEW e \in Emails, Stall(e)
      PROVE  CopyInv'
  <2> DEFINE again == job[e].stalls < MaxStalled
             j == [job[e] EXCEPT !.state = IF again THEN "waiting" ELSE "failed",
                                 !.stalls = IF again THEN @ + 1 ELSE @]
  <2>1. UNCHANGED <<request, fallback, attempt, copies, late>> /\ MoreDoubt(e) /\ Owned(e)
    BY <1>8 DEF Stall, mail
  <2>2. job' = [job EXCEPT ![e] = j]
    BY <1>8 DEF Stall
  <2>3. job[e] \in JobRecord
    BY <1>0 DEF Queued
  <2>4. j.state \in {"waiting", "failed"}
    BY <2>3 DEF JobRecord
  <2>5. job'[e] = j /\ \A x \in Emails : x # e => job'[x] = job[x]
    BY <1>0, <2>2 DEF Queued
  <2> HIDE DEF j
  <2>6. Ready(e) = 0 /\ Asked(e) = 0 /\ Asked(e)' = 0
    BY <2>1, <2>4, <2>5, StatesApart DEF Ready, Asked, NoJob, Owned
  <2>7. doubt'[e] = doubt[e] + 1 /\ \A x \in Emails : x # e => doubt'[x] = doubt[x]
    BY <1>0, <2>1 DEF MoreDoubt, Counted
  <2>8. \A x \in Emails : Active(x)' = Active(x) /\ Armed(x)' = Armed(x)
    BY <2>1 DEF Active, Armed
  <2>9. Possible(e)' - doubt'[e] <= Possible(e) - doubt[e]
    BY <1>0, <2>1, <2>6, <2>7, <2>8 DEF Possible, Numeric
  <2> QED
    BY <2>1, <2>5, <2>7, <2>8, <2>9, OneEmail
<1>9. ASSUME NEW s \in Senders, Skip(s) \/ Confirm(s)
      PROVE  CopyInv'
  <2>1. attempt[s] # Idle /\ End(s, TRUE) /\ UNCHANGED <<copies, late, doubt>>
    BY <1>9, BusyWorks DEF Skip, Confirm, mail, history
  <2>2. PICK e \in Emails : e = attempt[s].email
    BY <1>0, <2>1, AtWork
  <2>3. /\ \A x \in Emails : x # e =>
               copies'[x] = copies[x] /\ late'[x] = late[x] /\ doubt'[x] = doubt[x]
        /\ copies'[e] = copies[e]
        /\ late'[e] + (IF TRUE THEN 0 ELSE 1) - doubt'[e]
               <= late[e] + (IF attempt[s].pc = "accepted" THEN 0 ELSE 1) - doubt[e]
    BY <1>0, <2>1 DEF Numeric
  <2> QED
    BY <2>1, <2>2, <2>3, EndCopies
<1>10. ASSUME NEW s \in Senders, Refuse(s) \/ TimeOut(s)
       PROVE  CopyInv'
  <2>1. attempt[s] # Idle /\ End(s, FALSE) /\ copies' = copies
    BY <1>10, BusyWorks DEF Refuse, TimeOut, TimesOut, mail
  <2>2. PICK e \in Emails : e = attempt[s].email
    BY <1>0, <2>1, AtWork
  <2>3. /\ \A x \in Emails : x # e => late'[x] = late[x] /\ doubt'[x] = doubt[x]
        /\ late'[e] + 1 - doubt'[e]
               <= late[e] + (IF attempt[s].pc = "accepted" THEN 0 ELSE 1) - doubt[e]
    <3>1. CASE Refuse(s)
      <4>1. UNCHANGED <<late, doubt>> /\ attempt[s].pc = "sending"
        BY <3>1 DEF Refuse, mail, Busy
      <4> QED
        BY <1>0, <4>1 DEF Numeric
    <3>2. CASE TimeOut(s)
      <4>1. doubt'[e] = doubt[e] + 1 /\ \A x \in Emails : x # e => doubt'[x] = doubt[x]
        BY <1>0, <2>2, <3>2 DEF TimeOut, MoreDoubt, Counted
      <4>2. late' = StillOut(e, s)
        BY <2>2, <3>2 DEF TimeOut
      <4>3. CASE attempt[s].pc = "sending"
        <5>1. late'[e] = late[e] + 1 /\ \A x \in Emails : x # e => late'[x] = late[x]
          BY <1>0, <4>2, <4>3 DEF StillOut, Busy, Counted
        <5> QED
          BY <1>0, <4>1, <4>3, <5>1 DEF Numeric
      <4>4. CASE attempt[s].pc # "sending"
        <5>1. late' = late
          BY <4>2, <4>4 DEF StillOut, Busy
        <5> QED
          BY <1>0, <4>1, <5>1 DEF Numeric
      <4> QED
        BY <4>3, <4>4
    <3> QED
      BY <1>10, <3>1, <3>2
  <2> QED
    BY <2>1, <2>2, <2>3, EndCopies
<1>11. ASSUME NEW s \in Senders, Send(s) \/ SendUnseen(s)
       PROVE  CopyInv'
  <2>1. attempt[s] # Idle /\ UNCHANGED <<request, job, fallback, copies, late, doubt>>
        /\ attempt[s].pc = "lookup"
    BY <1>11, BusyWorks DEF Send, SendUnseen, mail, history, Busy
  <2>2. attempt[s] \in Begins
    BY <1>0, <2>1, AtWork
  <2>3. attempt'[s].pc = "sending" /\ attempt'[s].email = attempt[s].email
    <3>1. CASE Send(s)
      BY <1>0, <2>2, <3>1 DEF Tried, Send, At, Begins
    <3>2. CASE SendUnseen(s)
      BY <1>0, <2>2, <3>2 DEF Tried, SendUnseen, Begins
    <3> QED
      BY <1>11, <3>1, <3>2
  <2>4. \A t \in Senders : t # s => attempt'[t] = attempt[t]
    BY <1>0, <1>11 DEF Tried, Send, SendUnseen, At
  <2>5. attempt'[s] # Idle
    BY <2>3 DEF Idle
  <2>6. \A x \in Emails : Active(x)' = Active(x)
    BY <2>1, <2>3, <2>4, <2>5 DEF Active
  <2>7. \A x \in Emails : Armed(x)' = Armed(x)
    BY <2>1, <2>4, <2>5, Distinct DEF Armed
  <2> QED
    BY <1>1, <2>1, <2>6, <2>7 DEF Asked
<1>12. ASSUME NEW s \in Senders, Accept(s)
       PROVE  CopyInv'
  <2> DEFINE a == [attempt[s] EXCEPT !.pc = "accepted"]
  <2>1. attempt[s] # Idle /\ UNCHANGED <<request, job, fallback, late, doubt>>
        /\ attempt[s].pc = "sending" /\ attempt' = [attempt EXCEPT ![s] = a]
    BY <1>12, BusyWorks DEF Accept, At, history, Busy
  <2>2. PICK e \in Emails : e = attempt[s].email
    BY <1>0, <2>1, AtWork
  <2>3. attempt[s] \in Begins
    BY <1>0, <2>1, AtWork
  <2>4. a.pc = "accepted" /\ a.email = e /\ a # Idle
    BY <2>2, <2>3 DEF Begins, Idle
  <2> HIDE DEF a
  <2>5. Cardinality(Active(e)') = Cardinality(Active(e)) - 1
    BY <1>0, <2>1, <2>2, <2>4, ActiveEnds
  <2>6. \A x \in Emails : x # e => Active(x)' = Active(x)
    BY <1>0, <2>1, <2>2, <2>4, ActiveOthers
  <2>7. copies'[e] = copies[e] + 1 /\ \A x \in Emails : x # e => copies'[x] = copies[x]
    BY <1>0, <1>12, <2>2 DEF Accept, Counted
  <2>8. \A x \in Emails : Armed(x)' = Armed(x)
    BY <1>0, <2>1, <2>4 DEF Armed, Tried
  <2>9. \A x \in Emails : x # e => attempt'[x] = attempt[x]
    BY <1>0, <2>1, <2>2 DEF Tried
  <2>10. Possible(e)' - doubt'[e] <= Possible(e) - doubt[e]
    BY <1>0, <2>1, <2>5, <2>7, <2>8 DEF Possible, Numeric, Ready, Asked
  <2> QED
    BY <2>1, <2>6, <2>7, <2>9, <2>10, OneEmail
<1>13. ASSUME NEW e \in Emails, SettleLate(e)
       PROVE  CopyInv'
  <2>1. UNCHANGED <<request, job, fallback, attempt, doubt>> /\ late[e] > 0
        /\ late' = [late EXCEPT ![e] = @ - 1] /\ copies' \in {copies, [copies EXCEPT ![e] = @ + 1]}
    BY <1>13 DEF SettleLate, history
  <2>2. late'[e] = late[e] - 1 /\ copies'[e] <= copies[e] + 1
        /\ \A x \in Emails : x # e => late'[x] = late[x] /\ copies'[x] = copies[x]
    BY <1>0, <2>1 DEF Counted
  <2>3. \A x \in Emails : /\ Active(x)' = Active(x) /\ Ready(x)' = Ready(x)
                          /\ Armed(x)' = Armed(x) /\ Asked(x)' = Asked(x)
    BY <2>1 DEF Active, Ready, Armed, Asked
  <2>4. Possible(e)' - doubt'[e] <= Possible(e) - doubt[e]
    BY <1>0, <2>1, <2>2, <2>3 DEF Possible, Numeric
  <2> QED
    BY <2>1, <2>2, <2>3, <2>4, OneEmail
<1>14. ASSUME NEW e \in Emails, ChangeOptOut(e)
       PROVE  CopyInv'
  <2>1. UNCHANGED <<request, job, fallback, copies, late, doubt>>
    BY <1>14 DEF ChangeOptOut, mail, history
  <2>2. \A s \in Senders : attempt[s] = Idle => attempt'[s] = Idle
    BY <1>14 DEF ChangeOptOut
  <2>3. \A s \in Senders : attempt[s] # Idle =>
          attempt'[s] # Idle /\ attempt'[s].pc = attempt[s].pc /\ attempt'[s].email = attempt[s].email
    <3> SUFFICES ASSUME NEW s \in Senders, attempt[s] # Idle
                 PROVE  /\ attempt'[s].pc = attempt[s].pc /\ attempt'[s].email = attempt[s].email
                        /\ attempt'[s] # Idle
      OBVIOUS
    <3>1. attempt[s] \in Begins
      BY <1>0, AtWork
    <3>2. attempt'[s] = attempt[s] \/ attempt'[s] = [attempt[s] EXCEPT !.quiet = FALSE]
      BY <1>14 DEF ChangeOptOut
    <3>3. attempt'[s].pc = attempt[s].pc /\ attempt'[s].email = attempt[s].email
      BY <3>1, <3>2 DEF Begins
    <3>4. attempt'[s].pc # "idle"
      BY <3>1, <3>3 DEF Begins
    <3> QED
      BY <3>3, <3>4 DEF Idle
  <2>4. \A x \in Emails : Active(x)' = Active(x)
    BY <2>2, <2>3 DEF Active
  <2>5. \A x \in Emails : Armed(x)' = Armed(x) /\ Asked(x)' = Asked(x)
    BY <2>1, <2>2, <2>3, Distinct DEF Armed, Asked
  <2> QED
    BY <1>1, <2>1, <2>4, <2>5
<1>15. ASSUME NEW i \in Instances, Crash(i)
       PROVE  CopyInv'
  <2>1. UNCHANGED <<job, copies, doubt>>
    BY <1>15 DEF Crash
  <2>2. /\ request' = [e \in Emails |-> IF InProcess(e, i) THEN [request[e] EXCEPT !.pc = "done"]
                                                           ELSE request[e]]
        /\ fallback' = [e \in Emails |-> IF InProcess(e, i) THEN None ELSE fallback[e]]
        /\ attempt' = [s \in Senders |-> IF s = i \/ (s \in Emails /\ InProcess(s, i))
                                         THEN Idle ELSE attempt[s]]
        /\ late' = [e \in Emails |-> late[e] + Cardinality(OutOn(e, i))]
    BY <1>15 DEF Crash
  <2> SUFFICES ASSUME NEW x \in Emails
               PROVE  Possible(x)' - doubt'[x] <= Possible(x) - doubt[x]
    BY CopiesKept
  <2>3. Cardinality(Active(x)') <= Cardinality(Active(x)) - Cardinality(OutOn(x, i))
    <3>1. OutOn(x, i) \subseteq Active(x)
      BY DEF OutOn, Active, Busy, Idle
    <3>2. Active(x)' \subseteq Active(x) \ OutOn(x, i)
      BY <2>2 DEF OutOn, Active
    <3>3. /\ IsFiniteSet(Active(x) \ OutOn(x, i))
          /\ Cardinality(Active(x) \ OutOn(x, i)) =
                 Cardinality(Active(x)) - Cardinality(Active(x) \intersect OutOn(x, i))
      BY <1>0, ActiveFinite, FS_Difference
    <3>4. Active(x) \intersect OutOn(x, i) = OutOn(x, i)
      BY <3>1
    <3>5. Cardinality(Active(x)') <= Cardinality(Active(x) \ OutOn(x, i))
      BY <3>2, <3>3, FS_Subset
    <3> QED
      BY <3>3, <3>4, <3>5
  <2>4. Armed(x)' <= Armed(x)
    <3>1. CASE InProcess(x, i)
      BY <1>0, <2>2, <3>1 DEF Armed, Numeric
    <3>2. CASE ~InProcess(x, i)
      BY <2>2, <3>2, Distinct DEF Armed
    <3> QED
      BY <3>1, <3>2
  <2>5. Asked(x)' <= Asked(x)
    <3>1. CASE InProcess(x, i)
      <4>1. request[x] \in [pc : {"adding", "done"}, at : Instances]
        BY <1>0, <3>1 DEF Recorded, InProcess
      <4>2. request'[x].pc = "done"
        BY <2>2, <3>1, <4>1
      <4> QED
        BY <1>0, <4>2 DEF Asked, Numeric
    <3>2. CASE ~InProcess(x, i)
      BY <2>1, <2>2, <3>2 DEF Asked
    <3> QED
      BY <3>1, <3>2
  <2>6. late'[x] = late[x] + Cardinality(OutOn(x, i)) /\ Cardinality(OutOn(x, i)) \in Nat
    BY <2>2, OutFinite
  <2>7. Ready(x)' = Ready(x)
    BY <2>1 DEF Ready
  <2> QED
    BY <1>0, <2>1, <2>3, <2>4, <2>5, <2>6, <2>7 DEF Possible, Numeric
<1> QED
  BY <1>2, <1>3, <1>4, <1>5, <1>6, <1>7, <1>8, <1>9, <1>10, <1>11, <1>12, <1>13, <1>14, <1>15
  DEF Next, Enqueue, Queue, Attempt

\* For any number of attempts, retries, stalls and crashes, a recipient gets at most one copy more
\* than there were failures that left open whether the email had been sent.
THEOREM CopiesHold == Spec => []CopiesAreJustified
<1>1. Init => CopyInv
  <2> SUFFICES ASSUME Init, NEW e \in Emails PROVE Possible(e) <= 1 + doubt[e]
    BY DEF CopyInv
  <2>1. Active(e) = {}
    BY DEF Init, Active
  <2>2. Cardinality(Active(e)) = 0
    BY <2>1, FS_EmptySet
  <2>3. Ready(e) = 0 /\ Armed(e) = 0 /\ Asked(e) \in 0 .. 1
    BY DEF Init, Ready, Armed, Asked, NoJob
  <2> QED
    BY <2>2, <2>3 DEF Init, Possible
<1>2. TypeInv /\ CopyInv => CopiesAreJustified
  BY Numbers DEF Numeric, CopyInv, Possible, CopiesAreJustified
<1> QED
  BY <1>1, <1>2, TypesHold, CopyStep, PTL DEF Spec

-----------------------------------------------------------------------------
(* An end to the work *)

\* What an email may still cost.  Before queue.add the fallback and the job are both possible;
\* each try of the job takes at most five steps (the backoff, the worker, the lookup, the request,
\* the answer) and each try of the fallback four.
RequestWork(e) ==
    IF request[e].pc = "new" THEN 4 * None + 2
    ELSE IF request[e].pc = "adding" THEN 4 * None + 1 ELSE 0

Rounds(e) == (Attempts - job[e].made) + (MaxStalled - job[e].stalls)

Phase(e) == IF job[e].state = "delayed" THEN 6 ELSE IF job[e].state = "waiting" THEN 5 ELSE 1

JobWork(e) ==
    IF Open(e) THEN 5 * Rounds(e) + Phase(e)
    ELSE IF job[e].state = "none" /\ request[e].pc # "done"
         THEN 5 * (Attempts + MaxStalled) + 6 ELSE 0

FallbackWork(e) ==
    IF fallback[e] = None THEN 0 ELSE 4 * fallback[e] + (IF attempt[e] = Idle THEN 4 ELSE 0)

\* The attempt a is one for the email e, and no further than pcs.
Has(a, e, pcs) == a # Idle /\ a.email = e /\ a.pc \in pcs

Doing(e, pcs) == {s \in Senders : Has(attempt[s], e, pcs)}

\* Three steps from the lookup, two from the request, one from the answer
SendWork(e) ==
    Cardinality(Doing(e, {"lookup"})) + Cardinality(Doing(e, {"lookup", "sending"}))
        + Cardinality(Doing(e, {"lookup", "sending", "accepted"}))

Work(e) == RequestWork(e) + JobWork(e) + FallbackWork(e) + SendWork(e)

MostWork == 5 * (Attempts + MaxStalled) + 4 * None + 8

\* Somebody works on the email.
Works(e) ==
    \/ Enqueue(e) \/ BeginFallback(e) \/ Queue(e)
    \/ \E s \in Senders : attempt[s] # Idle /\ attempt[s].email = e /\ Attempt(s)

LEMMA DoingFinite ==
    ASSUME Tried, NEW e \in Emails, NEW CONSTANT pcs
    PROVE  IsFiniteSet(Doing(e, pcs)) /\ Cardinality(Doing(e, pcs)) \in Nat
<1>1. Doing(e, pcs) \subseteq Instances \union {e}
  BY Distinct DEF Doing, Has, Tried
<1>2. IsFiniteSet(Instances \union {e})
  BY SendersAssumption, FS_AddElement
<1> QED
  BY <1>1, <1>2, FS_Subset, FS_CardinalityType

\* One sender goes on to a.
LEMMA DoingChanges ==
    ASSUME Tried, NEW s \in Senders, NEW a, attempt' = [attempt EXCEPT ![s] = a],
           NEW e \in Emails, NEW CONSTANT pcs
    PROVE  Cardinality(Doing(e, pcs)') = Cardinality(Doing(e, pcs))
               - (IF Has(attempt[s], e, pcs) THEN 1 ELSE 0) + (IF Has(a, e, pcs) THEN 1 ELSE 0)
<1>1. \A t \in Senders : attempt'[t] = IF t = s THEN a ELSE attempt[t]
  BY DEF Tried
<1>2. IsFiniteSet(Doing(e, pcs)) /\ Cardinality(Doing(e, pcs)) \in Nat
  BY DoingFinite
<1>3. (s \in Doing(e, pcs)) <=> Has(attempt[s], e, pcs)
  BY DEF Doing
<1>4. CASE Has(attempt[s], e, pcs) <=> Has(a, e, pcs)
  <2>1. Doing(e, pcs)' = Doing(e, pcs)
    BY <1>1, <1>4 DEF Doing
  <2> QED
    BY <1>2, <1>4, <2>1
<1>5. CASE Has(attempt[s], e, pcs) /\ ~Has(a, e, pcs)
  <2>1. Doing(e, pcs)' = Doing(e, pcs) \ {s}
    BY <1>1, <1>5 DEF Doing
  <2>2. Cardinality(Doing(e, pcs) \ {s}) = Cardinality(Doing(e, pcs)) - 1
    BY <1>2, <1>3, <1>5, FS_RemoveElement
  <2> QED
    BY <1>2, <1>5, <2>1, <2>2
<1>6. CASE ~Has(attempt[s], e, pcs) /\ Has(a, e, pcs)
  <2>1. Doing(e, pcs)' = Doing(e, pcs) \union {s}
    BY <1>1, <1>6 DEF Doing
  <2> QED
    BY <1>2, <1>3, <1>6, <2>1, FS_AddElement
<1> QED
  BY <1>4, <1>5, <1>6

Steps(a, e) ==
    IF a # Idle /\ a.email = e
    THEN IF a.pc = "lookup" THEN 3 ELSE IF a.pc = "sending" THEN 2 ELSE 1
    ELSE 0

LEMMA SendNumbers == ASSUME Tried, NEW e \in Emails PROVE SendWork(e) \in Nat
BY DoingFinite DEF SendWork

LEMMA SendChanges ==
    ASSUME Tried, NEW s \in Senders, NEW a \in {Idle} \union Begins,
           attempt' = [attempt EXCEPT ![s] = a], NEW e \in Emails
    PROVE  SendWork(e)' = SendWork(e) - Steps(attempt[s], e) + Steps(a, e)
<1> DEFINE First == {"lookup"}
           Second == {"lookup", "sending"}
           Third == {"lookup", "sending", "accepted"}
           Is(b, pcs) == IF Has(b, e, pcs) THEN 1 ELSE 0
<1>1. attempt[s] \in {Idle} \union Begins
  BY DEF Tried
<1>2. \A b \in {Idle} \union Begins : Is(b, First) + Is(b, Second) + Is(b, Third) = Steps(b, e)
  BY DEF Has, Steps, Begins, Idle
<1>3. /\ Cardinality(Doing(e, First)) \in Nat /\ Cardinality(Doing(e, Second)) \in Nat
      /\ Cardinality(Doing(e, Third)) \in Nat
  BY DoingFinite
<1>4. ASSUME NEW CONSTANT pcs
      PROVE  Cardinality(Doing(e, pcs)') =
                 Cardinality(Doing(e, pcs)) - Is(attempt[s], pcs) + Is(a, pcs)
  BY DoingChanges
<1>5. Cardinality(Doing(e, First)') =
          Cardinality(Doing(e, First)) - Is(attempt[s], First) + Is(a, First)
  BY <1>4
<1>6. Cardinality(Doing(e, Second)') =
          Cardinality(Doing(e, Second)) - Is(attempt[s], Second) + Is(a, Second)
  BY <1>4
<1>7. Cardinality(Doing(e, Third)') =
          Cardinality(Doing(e, Third)) - Is(attempt[s], Third) + Is(a, Third)
  BY <1>4
<1>8. \A b, pcs : Is(b, pcs) \in 0 .. 1
  OBVIOUS
<1>9. /\ SendWork(e) = Cardinality(Doing(e, First)) + Cardinality(Doing(e, Second))
                           + Cardinality(Doing(e, Third))
      /\ SendWork(e)' = Cardinality(Doing(e, First)') + Cardinality(Doing(e, Second)')
                           + Cardinality(Doing(e, Third)')
  BY DEF SendWork
<1>10. /\ Is(attempt[s], First) + Is(attempt[s], Second) + Is(attempt[s], Third)
             = Steps(attempt[s], e)
      /\ Is(a, First) + Is(a, Second) + Is(a, Third) = Steps(a, e)
  BY <1>1, <1>2
<1> HIDE DEF First, Second, Third, Is
<1> QED
  BY <1>3, <1>5, <1>6, <1>7, <1>8, <1>9, <1>10

Whole ==
    \A e \in Emails :
        /\ RequestWork(e) \in Nat /\ JobWork(e) \in Nat
        /\ FallbackWork(e) \in Nat /\ SendWork(e) \in Nat

LEMMA WholeWork == TypeInv => Whole
<1> SUFFICES ASSUME TypeInv, NEW e \in Emails
             PROVE  /\ RequestWork(e) \in Nat /\ JobWork(e) \in Nat
                    /\ FallbackWork(e) \in Nat /\ SendWork(e) \in Nat
  BY DEF Whole
<1>1. Tried /\ Queued
  BY DEF TypeInv
<1>2. RequestWork(e) \in Nat
  BY Bounds DEF RequestWork
<1>3. JobWork(e) \in Nat
  <2>1. job[e].made \in 0 .. Attempts /\ job[e].stalls \in 0 .. MaxStalled
    BY <1>1 DEF Queued, JobRecord
  <2>2. Rounds(e) \in Nat
    BY <2>1, Bounds DEF Rounds
  <2>3. Phase(e) \in Nat
    BY DEF Phase
  <2> QED
    BY <2>2, <2>3, Bounds DEF JobWork
<1>4. FallbackWork(e) \in Nat
  BY <1>1, Bounds DEF FallbackWork, Tried
<1> QED
  BY <1>1, <1>2, <1>3, <1>4, SendNumbers

LEMMA WholeAfter == TypeInv' => Whole'
BY WholeWork, PTL

\* Others keep their work when nothing of theirs changes.
LEMMA WorkKept ==
    ASSUME NEW x \in Emails, SendWork(x)' = SendWork(x),
           job'[x] = job[x], request'[x] = request[x], fallback'[x] = fallback[x],
           attempt'[x] = attempt[x]
    PROVE  Work(x)' = Work(x)
BY DEF Work, RequestWork, JobWork, FallbackWork, Rounds, Phase, Open

\* The end of an attempt may leave another one to do, but less than there was.
LEMMA EndShrinks ==
    ASSUME TypeInv, TypeInv', NEW s \in Senders, attempt[s] # Idle, NEW ok \in BOOLEAN, End(s, ok),
           NEW e \in Emails, attempt[s].email = e
    PROVE  Work(e)' < Work(e) /\ \A x \in Emails : x # e => Work(x)' = Work(x)
<1> DEFINE some == {Idle} \union Begins
<1>1. Tried /\ Queued /\ Whole /\ Whole'
  BY WholeWork, WholeAfter DEF TypeInv
<1>2. attempt[s] \in Begins /\ (s \in Emails => e = s /\ fallback[s] # None)
  BY <1>1, AtWork
<1>3. attempt' = [attempt EXCEPT ![s] = Idle] /\ UNCHANGED request
  BY DEF End
<1>4. \A t \in Senders : attempt'[t] = IF t = s THEN Idle ELSE attempt[t]
  BY <1>1, <1>3 DEF Tried
<1>5. \A x \in Emails : SendWork(x)' = SendWork(x) - Steps(attempt[s], x) + Steps(Idle, x)
  BY <1>1, <1>3, SendChanges
<1>6. Steps(attempt[s], e) >= 1 /\ Steps(Idle, e) = 0 /\ Steps(attempt[s], e) \in Nat
      /\ \A x \in Emails : x # e => Steps(attempt[s], x) = 0 /\ Steps(Idle, x) = 0
  BY DEF Steps
<1>7. /\ SendWork(e)' < SendWork(e)
      /\ \A x \in Emails : x # e => SendWork(x)' = SendWork(x)
  BY <1>1, <1>5, <1>6 DEF Whole
<1>8. RequestWork(e)' = RequestWork(e)
  BY <1>3 DEF RequestWork
<1>9. CASE s \in Instances
  <2>1. job' = JobAfter(s, ok) /\ UNCHANGED fallback
    BY <1>9 DEF End
  <2>2. s \notin Emails /\ \A x \in Emails : attempt'[x] = attempt[x]
    BY <1>4, <1>9, Distinct
  <2>3. FallbackWork(e)' = FallbackWork(e)
    BY <2>1, <2>2 DEF FallbackWork
  <2>4. JobWork(e)' <= JobWork(e) /\ \A x \in Emails : x # e => job'[x] = job[x]
    <3>1. CASE job[e].state = s
      <4> DEFINE made == job[e].made + 1
                 next == IF Reported(ok) THEN "completed"
                         ELSE IF made < Attempts THEN "delayed" ELSE "failed"
                 j == [job[e] EXCEPT !.state = next, !.made = made]
      <4>1. job' = [job EXCEPT ![e] = j]
        BY <2>1, <3>1 DEF JobAfter
      <4>2. job[e] \in JobRecord /\ job[e].made \in 0 .. Attempts
            /\ job[e].stalls \in 0 .. MaxStalled
        BY <1>1 DEF Queued, JobRecord
      <4>3. next \in {"completed", "delayed", "failed"} /\ made = job[e].made + 1
        OBVIOUS
      <4> HIDE DEF made, next
      <4>4. j.state = next /\ j.made = made /\ j.stalls = job[e].stalls
        BY <4>2 DEF JobRecord
      <4> HIDE DEF j
      <4>5. job'[e] = j /\ \A x \in Emails : x # e => job'[x] = job[x]
        BY <1>1, <4>1 DEF Queued
      <4>6. Rounds(e)' = Rounds(e) - 1 /\ Rounds(e) \in Int
        BY <4>2, <4>3, <4>4, <4>5, Bounds DEF Rounds
      <4>7. JobWork(e) = 5 * Rounds(e) + 1
        BY <1>9, <3>1, StatesApart DEF JobWork, Open, Phase
      <4>8. CASE next = "delayed"
        <5>1. JobWork(e)' = 5 * Rounds(e)' + 6
          BY <4>4, <4>5, <4>8 DEF JobWork, Open, Phase
        <5> QED
          BY <4>5, <4>6, <4>7, <5>1
      <4>9. CASE next # "delayed"
        <5>1. JobWork(e)' = 0
          BY <4>3, <4>4, <4>5, <4>9, StatesApart DEF JobWork, Open
        <5> QED
          BY <1>1, <4>5, <5>1 DEF Whole
      <4> QED
        BY <4>8, <4>9
    <3>2. CASE job[e].state # s
      <4>1. UNCHANGED job
        BY <2>1, <3>2 DEF JobAfter
      <4>2. JobWork(e)' = JobWork(e)
        BY <1>3, <4>1 DEF JobWork, Open, Rounds, Phase
      <4> QED
        BY <1>1, <4>1, <4>2 DEF Whole
    <3> QED
      BY <3>1, <3>2
  <2>5. Work(e)' < Work(e)
    BY <1>1, <1>7, <1>8, <2>3, <2>4 DEF Work, Whole
  <2> QED
    BY <1>3, <1>7, <2>1, <2>2, <2>4, <2>5, WorkKept
<1>10. CASE s \notin Instances
  <2>1. fallback' = FallbackAfter(s, ok) /\ UNCHANGED job /\ s \in Emails /\ e = s
    BY <1>2, <1>10, Distinct DEF End
  <2>2. fallback[e] \in 0 .. None /\ fallback[e] # None /\ attempt'[e] = Idle
    BY <1>1, <1>2, <1>4, <2>1 DEF Tried
  <2>3. fallback'[e] = (IF ~ok /\ HasMore(fallback[e]) THEN fallback[e] - 1 ELSE None)
        /\ \A x \in Emails : x # e => fallback'[x] = fallback[x] /\ attempt'[x] = attempt[x]
    BY <1>1, <1>4, <2>1, Distinct DEF FallbackAfter, Tried
  <2>4. FallbackWork(e) = 4 * fallback[e]
    BY <2>1, <2>2 DEF FallbackWork
  <2>5. FallbackWork(e)' <= FallbackWork(e)
    BY <2>2, <2>3, <2>4, Bounds DEF FallbackWork, HasMore
  <2>6. JobWork(e)' = JobWork(e)
    BY <1>3, <2>1 DEF JobWork, Open, Rounds, Phase
  <2>7. Work(e)' < Work(e)
    BY <1>1, <1>7, <1>8, <2>5, <2>6 DEF Work, Whole
  <2> QED
    BY <1>3, <1>7, <2>1, <2>3, <2>7, WorkKept
<1> QED
  BY <1>9, <1>10

\* An attempt under way that goes on to a later point
LEMMA MoveShrinks ==
    ASSUME TypeInv, TypeInv', NEW s \in Senders, attempt[s] # Idle,
           NEW a \in Begins, attempt' = [attempt EXCEPT ![s] = a],
           NEW e \in Emails, attempt[s].email = e, a.email = e,
           Steps(a, e) < Steps(attempt[s], e), UNCHANGED <<request, job, fallback>>
    PROVE  Work(e)' < Work(e) /\ \A x \in Emails : x # e => Work(x)' = Work(x)
<1>1. Tried /\ Whole /\ Whole'
  BY WholeWork, WholeAfter DEF TypeInv
<1>2. \A x \in Emails : SendWork(x)' = SendWork(x) - Steps(attempt[s], x) + Steps(a, x)
  BY <1>1, SendChanges
<1>3. /\ \A x \in Emails : x # e => Steps(attempt[s], x) = 0 /\ Steps(a, x) = 0
      /\ Steps(a, e) \in Nat /\ Steps(attempt[s], e) \in Nat
  BY DEF Steps
<1>4. /\ SendWork(e)' < SendWork(e)
      /\ \A x \in Emails : x # e => SendWork(x)' = SendWork(x)
  BY <1>1, <1>2, <1>3 DEF Whole
<1>5. a # Idle
  BY DEF Begins, Idle
<1>6. \A x \in Emails : (attempt'[x] = Idle) <=> (attempt[x] = Idle)
  BY <1>1, <1>5 DEF Tried
<1>7. \A x \in Emails : /\ RequestWork(x)' = RequestWork(x) /\ JobWork(x)' = JobWork(x)
                        /\ FallbackWork(x)' = FallbackWork(x)
  BY <1>6 DEF RequestWork, JobWork, FallbackWork, Open, Rounds, Phase
<1> QED
  BY <1>1, <1>4, <1>7 DEF Work, Whole

\* A new attempt at the email costs less than what made room for it.
LEMMA BeginsAttempt ==
    ASSUME Tried, NEW s \in Senders, attempt[s] = Idle, NEW e \in Emails,
           attempt' = [attempt EXCEPT ![s] = Begun(e)], optOut[e] \in BOOLEAN
    PROVE  SendWork(e)' = SendWork(e) + 3 /\ \A x \in Emails : x # e => SendWork(x)' = SendWork(x)
<1>1. Begun(e) \in Begins /\ Begun(e).email = e /\ Begun(e).pc = "lookup" /\ Begun(e) # Idle
  BY DEF Begun, Begins, Idle
<1>2. \A x \in Emails : SendWork(x)' = SendWork(x) - Steps(attempt[s], x) + Steps(Begun(e), x)
  BY <1>1, SendChanges
<1>3. /\ Steps(Begun(e), e) = 3
      /\ \A x \in Emails : Steps(attempt[s], x) = 0 /\ (x # e => Steps(Begun(e), x) = 0)
  BY <1>1 DEF Steps
<1> QED
  BY <1>2, <1>3, SendNumbers

LEMMA EnqueueShrinks ==
    ASSUME TypeInv, TypeInv', NEW e \in Emails, Enqueue(e)
    PROVE  Work(e)' < Work(e) /\ \A x \in Emails : x # e => Work(x)' = Work(x)
<1>1. Tried /\ Queued /\ Recorded /\ Whole /\ Whole'
  BY WholeWork, WholeAfter DEF TypeInv
<1>2. UNCHANGED attempt
  BY DEF Enqueue, Request, Store, AddEnds
<1>3. \A x \in Emails : SendWork(x)' = SendWork(x)
  BY <1>2 DEF SendWork, Doing
<1>4. ASSUME NEW i \in Instances, Request(e, i)
      PROVE  Work(e)' < Work(e) /\ \A x \in Emails : x # e => Work(x)' = Work(x)
  <2>1. request[e].pc = "new" /\ UNCHANGED <<job, fallback>>
        /\ request' = [request EXCEPT ![e] = [pc |-> "adding", at |-> i]]
    BY <1>4 DEF Request
  <2>2. request'[e].pc = "adding" /\ \A x \in Emails : x # e => request'[x] = request[x]
    BY <1>1, <2>1 DEF Recorded
  <2>3. RequestWork(e)' < RequestWork(e)
    BY <2>1, <2>2, Bounds DEF RequestWork
  <2>4. JobWork(e)' = JobWork(e) /\ FallbackWork(e)' = FallbackWork(e)
    BY <1>2, <2>1, <2>2 DEF JobWork, FallbackWork, Open, Rounds, Phase
  <2>5. Work(e)' < Work(e)
    BY <1>1, <1>3, <2>3, <2>4 DEF Work, Whole
  <2> QED
    BY <1>2, <1>3, <2>1, <2>2, <2>5, WorkKept
<1>5. CASE Store(e)
  <2>1. request[e].pc = "adding" /\ job[e] = NoJob /\ UNCHANGED <<request, fallback>>
        /\ job' = [job EXCEPT ![e].state = "waiting"]
    BY <1>5 DEF Store
  <2>2. job'[e].state = "waiting" /\ job'[e].made = 0 /\ job'[e].stalls = 0
        /\ \A x \in Emails : x # e => job'[x] = job[x]
    BY <1>1, <2>1 DEF Queued, NoJob
  <2>3. JobWork(e)' = 5 * (Attempts + MaxStalled) + 5
    BY <2>2, Bounds DEF JobWork, Open, Rounds, Phase
  <2>4. JobWork(e) = 5 * (Attempts + MaxStalled) + 6
    BY <2>1, StatesApart DEF JobWork, Open, NoJob
  <2>5. RequestWork(e)' = RequestWork(e) /\ FallbackWork(e)' = FallbackWork(e)
    BY <1>2, <2>1 DEF RequestWork, FallbackWork
  <2>6. Work(e)' < Work(e)
    BY <1>1, <1>3, <2>3, <2>4, <2>5, Bounds DEF Work, Whole
  <2> QED
    BY <1>2, <1>3, <2>1, <2>2, <2>6, WorkKept
<1>6. ASSUME NEW added \in BOOLEAN, AddEnds(e, added)
      PROVE  Work(e)' < Work(e) /\ \A x \in Emails : x # e => Work(x)' = Work(x)
  <2>1. request[e].pc = "adding" /\ UNCHANGED job
        /\ request' = [request EXCEPT ![e].pc = "done"]
        /\ (fallback' = [fallback EXCEPT ![e] = Retries] \/ fallback' = fallback)
    BY <1>6 DEF AddEnds
  <2>2. request'[e].pc = "done" /\ \A x \in Emails : x # e => request'[x] = request[x]
    <3>1. request[e] \in [pc : {"adding", "done"}, at : Instances]
      BY <1>1, <2>1 DEF Recorded
    <3> QED
      BY <1>1, <2>1, <3>1 DEF Recorded
  <2>3. (fallback'[e] = Retries \/ fallback'[e] = fallback[e])
        /\ \A x \in Emails : x # e => fallback'[x] = fallback[x]
    BY <1>1, <2>1 DEF Tried
  <2>4. RequestWork(e) = 4 * None + 1 /\ RequestWork(e)' = 0
    BY <2>1, <2>2 DEF RequestWork
  <2>5. FallbackWork(e)' <= 4 * None + FallbackWork(e)
    <3>1. CASE fallback'[e] = Retries
      BY <1>1, <3>1, Bounds DEF FallbackWork, Whole
    <3>2. CASE fallback'[e] = fallback[e]
      <4>1. FallbackWork(e)' = FallbackWork(e)
        BY <1>2, <3>2 DEF FallbackWork
      <4> QED
        BY <1>1, <4>1, Bounds DEF Whole
    <3> QED
      BY <2>3, <3>1, <3>2
  <2>6. JobWork(e)' <= JobWork(e)
    <3>1. CASE Open(e)
      <4>1. JobWork(e)' = JobWork(e)
        BY <2>1, <3>1 DEF JobWork, Open, Rounds, Phase
      <4> QED
        BY <1>1, <4>1 DEF Whole
    <3>2. CASE ~Open(e)
      <4>1. JobWork(e)' = 0
        BY <2>1, <2>2, <3>2 DEF JobWork, Open
      <4> QED
        BY <1>1, <4>1 DEF Whole
    <3> QED
      BY <3>1, <3>2
  <2>7. Work(e)' < Work(e)
    BY <1>1, <1>3, <2>4, <2>5, <2>6, Bounds DEF Work, Whole
  <2> QED
    BY <1>2, <1>3, <2>1, <2>2, <2>3, <2>7, WorkKept
<1> QED
  BY <1>4, <1>5, <1>6 DEF Enqueue

LEMMA FallbackShrinks ==
    ASSUME TypeInv, TypeInv', NEW e \in Emails, BeginFallback(e)
    PROVE  Work(e)' < Work(e) /\ \A x \in Emails : x # e => Work(x)' = Work(x)
<1>1. Tried /\ Recorded /\ Whole /\ Whole'
  BY WholeWork, WholeAfter DEF TypeInv
<1>2. UNCHANGED <<request, job, fallback>> /\ attempt' = [attempt EXCEPT ![e] = Begun(e)]
      /\ attempt[e] = Idle /\ fallback[e] # None /\ e \in Senders
  BY Distinct DEF BeginFallback
<1>3. optOut[e] \in BOOLEAN
  BY <1>1 DEF Recorded
<1>4. SendWork(e)' = SendWork(e) + 3 /\ \A x \in Emails : x # e => SendWork(x)' = SendWork(x)
  BY <1>1, <1>2, <1>3, BeginsAttempt
<1>5. attempt'[e] # Idle /\ \A x \in Emails : x # e => attempt'[x] = attempt[x]
  BY <1>1, <1>2 DEF Tried, Begun, Idle
<1>6. fallback[e] \in Nat
  BY <1>1, Bounds DEF Tried
<1>7. FallbackWork(e)' = FallbackWork(e) - 4
  BY <1>2, <1>5, <1>6 DEF FallbackWork
<1>8. RequestWork(e)' = RequestWork(e) /\ JobWork(e)' = JobWork(e)
  BY <1>2 DEF RequestWork, JobWork, Open, Rounds, Phase
<1>9. Work(e)' < Work(e)
  BY <1>1, <1>4, <1>7, <1>8 DEF Work, Whole
<1> QED
  BY <1>2, <1>4, <1>5, <1>9, WorkKept

LEMMA QueueShrinks ==
    ASSUME TypeInv, TypeInv', NEW e \in Emails, Queue(e)
    PROVE  Work(e)' < Work(e) /\ \A x \in Emails : x # e => Work(x)' = Work(x)
<1>1. Tried /\ Queued /\ Recorded /\ Whole /\ Whole'
  BY WholeWork, WholeAfter DEF TypeInv
<1>2. UNCHANGED <<request, fallback>>
  BY DEF Queue, TakeJob, Promote, Stall
<1>3. job[e] \in JobRecord /\ job[e].made \in 0 .. Attempts /\ job[e].stalls \in 0 .. MaxStalled
      /\ (Open(e) => job[e].made < Attempts)
  BY <1>1 DEF Queued, JobRecord, JobsOpen
<1>4. RequestWork(e)' = RequestWork(e)
  BY <1>2 DEF RequestWork
<1>5. ASSUME NEW i \in Instances, TakeJob(i, e)
      PROVE  Work(e)' < Work(e) /\ \A x \in Emails : x # e => Work(x)' = Work(x)
  <2>1. attempt[i] = Idle /\ job[e].state = "waiting" /\ i \in Senders
        /\ job' = [job EXCEPT ![e].state = i] /\ attempt' = [attempt EXCEPT ![i] = Begun(e)]
    BY <1>5, Distinct DEF TakeJob
  <2>2. optOut[e] \in BOOLEAN
    BY <1>1 DEF Recorded
  <2>3. SendWork(e)' = SendWork(e) + 3 /\ \A x \in Emails : x # e => SendWork(x)' = SendWork(x)
    BY <1>1, <2>1, <2>2, BeginsAttempt
  <2>4. job'[e].state = i /\ job'[e].made = job[e].made /\ job'[e].stalls = job[e].stalls
        /\ \A x \in Emails : x # e => job'[x] = job[x]
    BY <1>1, <1>3, <2>1 DEF Queued, JobRecord
  <2>5. \A x \in Emails : attempt'[x] = attempt[x]
    BY <1>1, <2>1, Distinct DEF Tried
  <2>6. Rounds(e)' = Rounds(e) /\ Rounds(e) \in Int
    BY <1>3, <2>4, Bounds DEF Rounds
  <2>7. JobWork(e) = 5 * Rounds(e) + 5
    BY <2>1 DEF JobWork, Open, Phase
  <2>8. JobWork(e)' = 5 * Rounds(e)' + 1
    BY <2>4, StatesApart DEF JobWork, Open, Phase
  <2>9. FallbackWork(e)' = FallbackWork(e)
    BY <1>2, <2>5 DEF FallbackWork
  <2>10. Work(e)' < Work(e)
    BY <1>1, <1>4, <2>3, <2>6, <2>7, <2>8, <2>9 DEF Work, Whole
  <2> QED
    BY <1>2, <2>3, <2>4, <2>5, <2>10, WorkKept
<1>6. CASE Promote(e) \/ Stall(e)
  <2>1. UNCHANGED attempt
    BY <1>6 DEF Promote, Stall
  <2>2. \A x \in Emails : SendWork(x)' = SendWork(x) /\ FallbackWork(x)' = FallbackWork(x)
    BY <1>2, <2>1 DEF SendWork, Doing, FallbackWork
  <2>3. CASE Promote(e)
    <3>1. job[e].state = "delayed" /\ job' = [job EXCEPT ![e].state = "waiting"]
      BY <2>3 DEF Promote
    <3>2. job'[e].state = "waiting" /\ job'[e].made = job[e].made
          /\ job'[e].stalls = job[e].stalls /\ \A x \in Emails : x # e => job'[x] = job[x]
      BY <1>1, <1>3, <3>1 DEF Queued, JobRecord
    <3>3. Rounds(e)' = Rounds(e) /\ Rounds(e) \in Int
      BY <1>3, <3>2, Bounds DEF Rounds
    <3>4. JobWork(e) = 5 * Rounds(e) + 6 /\ JobWork(e)' = 5 * Rounds(e)' + 5
      BY <3>1, <3>2 DEF JobWork, Open, Phase
    <3>5. Work(e)' < Work(e)
      BY <1>1, <1>4, <2>2, <3>3, <3>4 DEF Work, Whole
    <3> QED
      BY <1>2, <2>1, <2>2, <3>2, <3>5, WorkKept
  <2>4. CASE Stall(e)
    <3> DEFINE again == job[e].stalls < MaxStalled
               j == [job[e] EXCEPT !.state = IF again THEN "waiting" ELSE "failed",
                                   !.stalls = IF again THEN @ + 1 ELSE @]
    <3>1. job' = [job EXCEPT ![e] = j] /\ job[e].state \in Instances
      BY <2>4 DEF Stall, Owned
    <3>2. j.made = job[e].made
          /\ (again => j.state = "waiting" /\ j.stalls = job[e].stalls + 1)
          /\ (~again => j.state = "failed")
      BY <1>3 DEF JobRecord
    <3>3. job'[e] = j /\ \A x \in Emails : x # e => job'[x] = job[x]
      BY <1>1, <3>1 DEF Queued
    <3> HIDE DEF j
    <3>4. Rounds(e) \in Int /\ Rounds(e) > 0
      BY <1>3, <3>1, Bounds DEF Rounds, Open
    <3>5. JobWork(e) = 5 * Rounds(e) + 1
      BY <3>1, StatesApart DEF JobWork, Open, Phase
    <3>6. JobWork(e)' < JobWork(e)
      <4>1. CASE again
        <5>1. Rounds(e)' = Rounds(e) - 1
          BY <1>3, <3>2, <3>3, <4>1, Bounds DEF Rounds
        <5>2. JobWork(e)' = 5 * Rounds(e)' + 5
          BY <3>2, <3>3, <4>1 DEF JobWork, Open, Phase
        <5> QED
          BY <3>4, <3>5, <5>1, <5>2
      <4>2. CASE ~again
        <5>1. JobWork(e)' = 0
          BY <3>2, <3>3, <4>2, StatesApart DEF JobWork, Open
        <5> QED
          BY <3>4, <3>5, <5>1
      <4> QED
        BY <4>1, <4>2
    <3>7. Work(e)' < Work(e)
      BY <1>1, <1>4, <2>2, <3>6 DEF Work, Whole
    <3> QED
      BY <1>2, <2>1, <2>2, <3>3, <3>7, WorkKept
  <2> QED
    BY <1>6, <2>3, <2>4
<1> QED
  BY <1>5, <1>6 DEF Queue

LEMMA AttemptShrinks ==
    ASSUME TypeInv, TypeInv', NEW s \in Senders, Attempt(s)
    PROVE  /\ attempt[s] # Idle /\ attempt[s].email \in Emails
           /\ \A e \in Emails : IF e = attempt[s].email THEN Work(e)' < Work(e)
                                                        ELSE Work(e)' = Work(e)
<1>1. Tried
  BY DEF TypeInv
<1>2. attempt[s] # Idle
  BY BusyWorks DEF Attempt, Skip, Send, SendUnseen, Accept, Confirm, Refuse, TimeOut, TimesOut
<1>3. attempt[s] \in Begins /\ attempt[s].email \in Emails
  BY <1>1, <1>2, AtWork
<1>4. PICK e \in Emails : e = attempt[s].email
  BY <1>3
<1>5. ASSUME NEW ok \in BOOLEAN, End(s, ok)
      PROVE  Work(e)' < Work(e) /\ \A x \in Emails : x # e => Work(x)' = Work(x)
  BY <1>2, <1>4, <1>5, EndShrinks
<1>6. ASSUME Skip(s) \/ Confirm(s) \/ Refuse(s) \/ TimeOut(s)
      PROVE  Work(e)' < Work(e) /\ \A x \in Emails : x # e => Work(x)' = Work(x)
  <2>1. End(s, TRUE) \/ End(s, FALSE)
    BY <1>6 DEF Skip, Confirm, Refuse, TimeOut
  <2> QED
    BY <1>5, <2>1
<1>7. ASSUME Send(s) \/ SendUnseen(s) \/ Accept(s)
      PROVE  Work(e)' < Work(e) /\ \A x \in Emails : x # e => Work(x)' = Work(x)
  <2>1. UNCHANGED <<request, job, fallback>>
    BY <1>7 DEF Send, SendUnseen, Accept
  <2>2. PICK a \in Begins : /\ attempt' = [attempt EXCEPT ![s] = a] /\ a.email = attempt[s].email
                            /\ Steps(a, e) < Steps(attempt[s], e)
    <3>1. CASE Send(s)
      <4> DEFINE a == [attempt[s] EXCEPT !.pc = "sending"]
      <4>1. a \in Begins /\ a.email = e /\ a.pc = "sending" /\ attempt[s].pc = "lookup"
            /\ attempt' = [attempt EXCEPT ![s] = a]
        BY <1>3, <1>4, <3>1 DEF Send, At, Busy, Begins
      <4>2. a # Idle
        BY <4>1 DEF Idle
      <4> HIDE DEF a
      <4>3. Steps(a, e) < Steps(attempt[s], e)
        BY <1>2, <1>4, <4>1, <4>2 DEF Steps
      <4> QED
        BY <1>4, <4>1, <4>3
    <3>2. CASE SendUnseen(s)
      <4> DEFINE a == [attempt[s] EXCEPT !.pc = "sending", !.quiet = FALSE]
      <4>1. a \in Begins /\ a.email = e /\ a.pc = "sending" /\ attempt[s].pc = "lookup"
            /\ attempt' = [attempt EXCEPT ![s] = a]
        BY <1>3, <1>4, <3>2 DEF SendUnseen, Busy, Begins
      <4>2. a # Idle
        BY <4>1 DEF Idle
      <4> HIDE DEF a
      <4>3. Steps(a, e) < Steps(attempt[s], e)
        BY <1>2, <1>4, <4>1, <4>2 DEF Steps
      <4> QED
        BY <1>4, <4>1, <4>3
    <3>3. CASE Accept(s)
      <4> DEFINE a == [attempt[s] EXCEPT !.pc = "accepted"]
      <4>1. a \in Begins /\ a.email = e /\ a.pc = "accepted" /\ attempt[s].pc = "sending"
            /\ attempt' = [attempt EXCEPT ![s] = a]
        BY <1>3, <1>4, <3>3 DEF Accept, At, Busy, Begins
      <4>2. a # Idle
        BY <4>1 DEF Idle
      <4> HIDE DEF a
      <4>3. Steps(a, e) < Steps(attempt[s], e)
        BY <1>2, <1>4, <4>1, <4>2 DEF Steps
      <4> QED
        BY <1>4, <4>1, <4>3
    <3> QED
      BY <1>7, <3>1, <3>2, <3>3
  <2> QED
    BY <1>2, <1>4, <2>1, <2>2, MoveShrinks
<1>8. Work(e)' < Work(e) /\ \A x \in Emails : x # e => Work(x)' = Work(x)
  BY <1>6, <1>7 DEF Attempt
<1> QED
  BY <1>2, <1>3, <1>4, <1>8

\* What the provider and the recipient do costs nothing, and a crash only ends work.
LEMMA OthersKeep ==
    ASSUME TypeInv, TypeInv', NEW e \in Emails, SettleLate(e) \/ ChangeOptOut(e), NEW x \in Emails
    PROVE  Work(x)' = Work(x)
<1>1. Tried
  BY DEF TypeInv
<1>2. UNCHANGED <<request, job, fallback>>
  BY DEF SettleLate, ChangeOptOut
<1>3. \A s \in Senders : /\ attempt'[s] = Idle <=> attempt[s] = Idle
                         /\ attempt[s] # Idle => /\ attempt'[s].pc = attempt[s].pc
                                                 /\ attempt'[s].email = attempt[s].email
  <2>1. CASE SettleLate(e)
    BY <2>1 DEF SettleLate
  <2>2. CASE ChangeOptOut(e)
    <3> SUFFICES ASSUME NEW s \in Senders
                 PROVE  /\ attempt'[s] = Idle <=> attempt[s] = Idle
                        /\ attempt[s] # Idle => /\ attempt'[s].pc = attempt[s].pc
                                                /\ attempt'[s].email = attempt[s].email
      OBVIOUS
    <3>1. CASE attempt[s] = Idle
      BY <2>2, <3>1 DEF ChangeOptOut
    <3>2. CASE attempt[s] # Idle
      <4>1. attempt[s] \in Begins
        BY <1>1, <3>2, AtWork
      <4>2. attempt'[s] = attempt[s] \/ attempt'[s] = [attempt[s] EXCEPT !.quiet = FALSE]
        BY <2>2 DEF ChangeOptOut
      <4>3. attempt'[s].pc = attempt[s].pc /\ attempt'[s].email = attempt[s].email
        BY <4>1, <4>2 DEF Begins
      <4>4. attempt'[s].pc # "idle"
        BY <4>1, <4>3 DEF Begins
      <4> QED
        BY <3>2, <4>3, <4>4 DEF Idle
    <3> QED
      BY <3>1, <3>2
  <2> QED
    BY <2>1, <2>2
<1>4. SendWork(x)' = SendWork(x)
  <2>1. \A pcs : \A s \in Senders : Has(attempt[s], x, pcs)' <=> Has(attempt[s], x, pcs)
    BY <1>3 DEF Has
  <2> QED
    BY <2>1 DEF SendWork, Doing
<1>5. RequestWork(x)' = RequestWork(x) /\ JobWork(x)' = JobWork(x)
  BY <1>2 DEF RequestWork, JobWork, Open, Rounds, Phase
<1>6. FallbackWork(x)' = FallbackWork(x)
  BY <1>2, <1>3, Distinct DEF FallbackWork
<1> QED
  BY <1>4, <1>5, <1>6 DEF Work

LEMMA CrashEnds ==
    ASSUME TypeInv, TypeInv', NEW i \in Instances, Crash(i), NEW x \in Emails
    PROVE  Work(x)' <= Work(x)
<1>1. Tried /\ Recorded /\ Whole /\ Whole'
  BY WholeWork, WholeAfter DEF TypeInv
<1>2. /\ UNCHANGED job
      /\ request'[x] = IF InProcess(x, i) THEN [request[x] EXCEPT !.pc = "done"] ELSE request[x]
      /\ fallback'[x] = IF InProcess(x, i) THEN None ELSE fallback[x]
      /\ \A s \in Senders : attempt'[s] = IF s = i \/ (s \in Emails /\ InProcess(s, i))
                                          THEN Idle ELSE attempt[s]
  BY DEF Crash
<1>3. ASSUME NEW CONSTANT pcs
      PROVE  Cardinality(Doing(x, pcs)') <= Cardinality(Doing(x, pcs))
             /\ Cardinality(Doing(x, pcs)) \in Nat /\ Cardinality(Doing(x, pcs)') \in Nat
  <2>1. Doing(x, pcs)' \subseteq Doing(x, pcs)
    BY <1>2 DEF Doing, Has
  <2>2. IsFiniteSet(Doing(x, pcs)) /\ Cardinality(Doing(x, pcs)) \in Nat
    BY <1>1, DoingFinite
  <2> QED
    BY <2>1, <2>2, FS_Subset, FS_CardinalityType
<1>4. SendWork(x)' <= SendWork(x)
  <2>1. /\ Cardinality(Doing(x, {"lookup"})') <= Cardinality(Doing(x, {"lookup"}))
        /\ Cardinality(Doing(x, {"lookup"})) \in Nat /\ Cardinality(Doing(x, {"lookup"})') \in Nat
    BY <1>3
  <2>2. /\ Cardinality(Doing(x, {"lookup", "sending"})')
               <= Cardinality(Doing(x, {"lookup", "sending"}))
        /\ Cardinality(Doing(x, {"lookup", "sending"})) \in Nat
        /\ Cardinality(Doing(x, {"lookup", "sending"})') \in Nat
    BY <1>3
  <2>3. /\ Cardinality(Doing(x, {"lookup", "sending", "accepted"})')
               <= Cardinality(Doing(x, {"lookup", "sending", "accepted"}))
        /\ Cardinality(Doing(x, {"lookup", "sending", "accepted"})) \in Nat
        /\ Cardinality(Doing(x, {"lookup", "sending", "accepted"})') \in Nat
    BY <1>3
  <2>4. SendWork(x)' = Cardinality(Doing(x, {"lookup"})')
          + Cardinality(Doing(x, {"lookup", "sending"})')
          + Cardinality(Doing(x, {"lookup", "sending", "accepted"})')
    BY DEF SendWork
  <2> QED
    BY <2>1, <2>2, <2>3, <2>4 DEF SendWork
<1>5. CASE InProcess(x, i)
  <2>1. request'[x].pc = "done"
    <3>1. request[x] \in [pc : {"adding", "done"}, at : Instances]
      BY <1>1, <1>5 DEF Recorded, InProcess
    <3> QED
      BY <1>2, <1>5, <3>1
  <2>2. RequestWork(x)' = 0 /\ FallbackWork(x)' = 0
    BY <1>2, <1>5, <2>1 DEF RequestWork, FallbackWork
  <2>3. JobWork(x)' <= JobWork(x)
    <3>1. CASE Open(x)
      <4>1. JobWork(x)' = JobWork(x)
        BY <1>2, <3>1 DEF JobWork, Open, Rounds, Phase
      <4> QED
        BY <1>1, <4>1 DEF Whole
    <3>2. CASE ~Open(x)
      <4>1. JobWork(x)' = 0
        BY <1>2, <2>1, <3>2 DEF JobWork, Open
      <4> QED
        BY <1>1, <4>1 DEF Whole
    <3> QED
      BY <3>1, <3>2
  <2> QED
    BY <1>1, <1>4, <2>2, <2>3 DEF Work, Whole
<1>6. CASE ~InProcess(x, i)
  <2>1. request'[x] = request[x] /\ fallback'[x] = fallback[x] /\ attempt'[x] = attempt[x]
    BY <1>2, <1>6, Distinct
  <2>2. RequestWork(x)' = RequestWork(x) /\ FallbackWork(x)' = FallbackWork(x)
        /\ JobWork(x)' = JobWork(x)
    BY <1>2, <2>1 DEF RequestWork, FallbackWork, JobWork, Open, Rounds, Phase
  <2> QED
    BY <1>1, <1>4, <2>2 DEF Work, Whole
<1> QED
  BY <1>5, <1>6

LEMMA WorksShrinks ==
    ASSUME TypeInv, TypeInv', NEW e \in Emails, Works(e)
    PROVE  Work(e)' < Work(e) /\ \A x \in Emails : x # e => Work(x)' = Work(x)
<1>1. CASE \E s \in Senders : attempt[s] # Idle /\ attempt[s].email = e /\ Attempt(s)
  BY <1>1, AttemptShrinks
<1> QED
  BY <1>1, EnqueueShrinks, FallbackShrinks, QueueShrinks DEF Works

\* No step makes more work of an email, and each step of the queue, of the fallback and of an
\* attempt makes less of the email it is about.
WorkShrinks ==
    \A e \in Emails : Work(e)' <= Work(e) /\ (Works(e) => Work(e)' < Work(e))

LEMMA ShrinkStep == TypeInv /\ TypeInv' /\ [Next]_vars => WorkShrinks
<1> SUFFICES ASSUME TypeInv, TypeInv', [Next]_vars, NEW x \in Emails
             PROVE  Work(x)' <= Work(x) /\ (Works(x) => Work(x)' < Work(x))
  BY DEF WorkShrinks
<1>1. Work(x) \in Nat /\ Work(x)' \in Nat
  BY WholeWork, WholeAfter DEF Whole, Work
<1>2. Works(x) => Work(x)' < Work(x)
  BY WorksShrinks
<1>3. Work(x)' <= Work(x)
  <2>1. ASSUME NEW e \in Emails, Enqueue(e) \/ BeginFallback(e) \/ Queue(e)
        PROVE  Work(x)' <= Work(x)
    <3>1. Works(e)
      BY <2>1 DEF Works
    <3>2. Work(e)' < Work(e) /\ (x # e => Work(x)' = Work(x))
      BY <3>1, WorksShrinks
    <3> QED
      BY <1>1, <3>2
  <2>2. ASSUME NEW s \in Senders, Attempt(s)
        PROVE  Work(x)' <= Work(x)
    <3>1. IF x = attempt[s].email THEN Work(x)' < Work(x) ELSE Work(x)' = Work(x)
      BY <2>2, AttemptShrinks
    <3> QED
      BY <1>1, <3>1
  <2>3. ASSUME NEW e \in Emails, SettleLate(e) \/ ChangeOptOut(e)
        PROVE  Work(x)' <= Work(x)
    <3>1. Work(x)' = Work(x)
      BY <2>3, OthersKeep
    <3> QED
      BY <1>1, <3>1
  <2>4. ASSUME NEW i \in Instances, Crash(i)
        PROVE  Work(x)' <= Work(x)
    BY <2>4, CrashEnds
  <2>5. CASE UNCHANGED vars
    <3>1. UNCHANGED <<request, job, fallback, attempt>>
      BY <2>5 DEF vars
    <3>2. SendWork(x)' = SendWork(x)
      BY <3>1 DEF SendWork, Doing
    <3>3. Work(x)' = Work(x)
      BY <3>1, <3>2, WorkKept
    <3> QED
      BY <1>1, <3>3
  <2> QED
    BY <2>1, <2>2, <2>3, <2>4, <2>5 DEF Next
<1> QED
  BY <1>2, <1>3

\* There is no livelock between the retries of the queue and those of the fallback: whatever
\* the provider, the crashes and the stalls do, every step of the service for an email makes a
\* measure smaller that nothing makes larger.
THEOREM WorkShrinksCorrect == Spec => [][WorkShrinks]_vars
<1>1. TypeInv /\ TypeInv' /\ [Next]_vars => [WorkShrinks]_vars
  BY ShrinkStep
<1> QED
  BY <1>1, TypesHold, PTL DEF Spec

\* An email takes at most this many steps of the service.
WorkBounded == \A e \in Emails : Work(e) \in 0 .. MostWork

\* The measure is never negative and never above its first value: the attempts, the stalls and the
\* retries together bound the steps that one email takes.
THEOREM WorkBoundedCorrect == Spec => []WorkBounded
<1>1. Init => WorkBounded
  <2> SUFFICES ASSUME Init, NEW e \in Emails PROVE Work(e) \in 0 .. MostWork
    BY DEF WorkBounded
  <2>1. RequestWork(e) = 4 * None + 2 /\ JobWork(e) = 5 * (Attempts + MaxStalled) + 6
        /\ FallbackWork(e) = 0
    BY StatesApart DEF Init, RequestWork, JobWork, FallbackWork, Open, NoJob
  <2>2. \A pcs : Doing(e, pcs) = {}
    BY DEF Init, Doing, Has
  <2>3. SendWork(e) = 0
    BY <2>2, FS_EmptySet DEF SendWork
  <2> QED
    BY <2>1, <2>3, Bounds DEF Work, MostWork
<1>2. TypeInv /\ TypeInv' /\ WorkBounded /\ [Next]_vars => WorkBounded'
  <2> SUFFICES ASSUME TypeInv, TypeInv', WorkBounded, [Next]_vars, NEW e \in Emails
               PROVE  Work(e)' \in 0 .. MostWork
    BY DEF WorkBounded
  <2>1. Work(e)' <= Work(e)
    BY ShrinkStep DEF WorkShrinks
  <2>2. Work(e)' \in Nat
    BY WholeAfter DEF Whole, Work
  <2>3. Work(e) \in 0 .. MostWork /\ MostWork \in Nat
    BY Bounds DEF WorkBounded, MostWork
  <2> QED
    BY <2>1, <2>2, <2>3
<1> QED
  BY <1>1, <1>2, TypesHold, PTL DEF Spec

\* What fairness makes a busy sender do
CanGoOn(s) == Busy(s, "lookup") \/ TimesOut(s)

\* Something that fairness brings about and that is a step for the email e: the answer of
\* queue.add, the timer of the fallback, the backoff, the recovery of a job without a worker, a
\* worker that takes the job or has to end another attempt first, or an attempt at the email.
Pending(e) ==
    \/ request[e].pc = "adding"
    \/ fallback[e] # None /\ attempt[e] = Idle
    \/ job[e].state = "delayed"
    \/ Abandoned(e)
    \/ job[e].state = "waiting" /\ \E i \in Instances : attempt[i] = Idle \/ CanGoOn(i)
    \/ \E s \in Senders : attempt[s] # Idle /\ attempt[s].email = e /\ CanGoOn(s)

NobodyStuck == \A e \in Emails : request[e].pc # "new" => Over(e) \/ Pending(e)

LEMMA BusyGoesOn == ASSUME Tried, NEW s \in Senders, attempt[s] # Idle PROVE CanGoOn(s)
BY AtWork DEF CanGoOn, TimesOut, Busy

\* An email that was asked for is over, or one of the steps that fairness promises is due: no
\* crash, stall or lost answer leaves it with nobody to go on.
THEOREM NobodyStuckCorrect == Spec => []NobodyStuck
<1>1. TypeInv => NobodyStuck
  <2> SUFFICES ASSUME TypeInv, NEW e \in Emails, request[e].pc # "new", ~Over(e)
               PROVE  Pending(e)
    BY DEF NobodyStuck
  <2>1. Tried /\ Queued /\ Recorded
    BY DEF TypeInv
  <2>2. request[e] \in [pc : {"adding", "done"}, at : Instances]
    BY <2>1 DEF Recorded
  <2>3. CASE request[e].pc = "adding"
    BY <2>3 DEF Pending
  <2>4. CASE fallback[e] # None
    <3>1. CASE attempt[e] = Idle
      BY <2>4, <3>1 DEF Pending
    <3>2. CASE attempt[e] # Idle
      BY <2>1, <3>2, Distinct, AtWork, BusyGoesOn DEF Pending
    <3> QED
      BY <3>1, <3>2
  <2>5. CASE request[e].pc = "done" /\ fallback[e] = None
    <3>1. job[e].state \in {"waiting", "delayed"} \union Instances
      <4>1. job[e].state \in JobStates \union Instances
        BY <2>1 DEF Queued, JobRecord
      <4> QED
        BY <2>5, <4>1 DEF Over, JobStates
    <3>2. CASE job[e].state = "waiting"
      <4>1. request[e].at \in Instances /\ request[e].at \in Senders
        BY <2>2, Distinct
      <4>2. attempt[request[e].at] = Idle \/ CanGoOn(request[e].at)
        BY <2>1, <4>1, BusyGoesOn
      <4> QED
        BY <3>2, <4>1, <4>2 DEF Pending
    <3>3. CASE job[e].state = "delayed"
      BY <3>3 DEF Pending
    <3>4. CASE job[e].state \in Instances
      <4>1. CASE Working(job[e].state, e)
        BY <2>1, <3>4, <4>1, Distinct, BusyGoesOn DEF Working, Pending
      <4>2. CASE ~Working(job[e].state, e)
        BY <3>4, <4>2 DEF Abandoned, Owned, Pending
      <4> QED
        BY <4>1, <4>2
    <3> QED
      BY <3>1, <3>2, <3>3, <3>4
  <2> QED
    BY <2>2, <2>3, <2>4, <2>5
<1> QED
  BY <1>1, TypesHold, PTL

\* No step takes an email up again.
OverStays == \A e \in Emails : Over(e) => Over(e)'

LEMMA OverStep == TypeInv /\ [Next]_vars => OverStays
<1> SUFFICES ASSUME TypeInv, [Next]_vars, NEW x \in Emails, Over(x) PROVE Over(x)'
  BY DEF OverStays
<1>1. Tried /\ Queued /\ Recorded
  BY DEF TypeInv
<1>2. /\ request[x].pc = "done" /\ fallback[x] = None
      /\ job[x].state \in {"none", "completed", "failed"}
  BY DEF Over
<1>3. attempt[x] = Idle /\ job[x].state \notin Instances
  BY <1>1, <1>2, StatesApart DEF Tried
<1>4. ASSUME request'[x] = request[x], job'[x] = job[x], fallback'[x] = fallback[x]
      PROVE  Over(x)'
  BY <1>2, <1>4 DEF Over
<1>5. CASE UNCHANGED vars
  BY <1>4, <1>5 DEF vars
<1>6. ASSUME NEW e \in Emails, Enqueue(e)
      PROVE  Over(x)'
  <2>1. request[e].pc \in {"new", "adding"}
    BY <1>6 DEF Enqueue, Request, Store, AddEnds
  <2>2. x # e
    BY <1>2, <2>1
  <2>3. request'[x] = request[x]
    BY <1>1, <1>6, <2>2 DEF Enqueue, Request, Store, AddEnds, Recorded
  <2>4. job'[x] = job[x]
    BY <1>1, <1>6, <2>2 DEF Enqueue, Request, Store, AddEnds, Queued
  <2>5. fallback'[x] = fallback[x]
    <3>1. fallback' = fallback \/ fallback' = [fallback EXCEPT ![e] = Retries]
      BY <1>6 DEF Enqueue, Request, Store, AddEnds
    <3> QED
      BY <1>1, <2>2, <3>1 DEF Tried
  <2> QED
    BY <1>4, <2>3, <2>4, <2>5
<1>7. ASSUME NEW e \in Emails, BeginFallback(e)
      PROVE  Over(x)'
  BY <1>4, <1>7 DEF BeginFallback
<1>8. ASSUME NEW e \in Emails, Queue(e)
      PROVE  Over(x)'
  <2>1. job[e].state \in {"waiting", "delayed"} \union Instances
    BY <1>8 DEF Queue, TakeJob, Promote, Stall, Owned
  <2>2. x # e
    BY <1>2, <1>3, <2>1
  <2>3. UNCHANGED <<request, fallback>>
    BY <1>8 DEF Queue, TakeJob, Promote, Stall
  <2>4. job'[x] = job[x]
    BY <1>1, <1>8, <2>2 DEF Queue, TakeJob, Promote, Stall, Queued
  <2> QED
    BY <1>4, <2>3, <2>4
<1>9. ASSUME NEW s \in Senders, Attempt(s)
      PROVE  Over(x)'
  <2>1. attempt[s] # Idle
    BY <1>9, BusyWorks
    DEF Attempt, Skip, Send, SendUnseen, Accept, Confirm, Refuse, TimeOut, TimesOut
  <2>2. CASE Send(s) \/ SendUnseen(s) \/ Accept(s)
    BY <1>4, <2>2 DEF Send, SendUnseen, Accept
  <2>3. ASSUME NEW ok \in BOOLEAN, End(s, ok)
        PROVE  Over(x)'
    <3>1. UNCHANGED request
      BY <2>3 DEF End
    <3>2. CASE s \in Instances
      <4>1. job' = JobAfter(s, ok) /\ UNCHANGED fallback
        BY <2>3, <3>2 DEF End
      <4>2. CASE job[attempt[s].email].state = s
        <5>1. x # attempt[s].email
          BY <1>3, <3>2, <4>2
        <5>2. job'[x] = job[x]
          BY <1>1, <4>1, <4>2, <5>1 DEF JobAfter, Queued
        <5> QED
          BY <1>4, <3>1, <4>1, <5>2
      <4>3. CASE job[attempt[s].email].state # s
        <5>1. job' = job
          BY <4>1, <4>3 DEF JobAfter
        <5> QED
          BY <1>4, <3>1, <4>1, <5>1
      <4> QED
        BY <4>2, <4>3
    <3>3. CASE s \notin Instances
      <4>1. fallback' = FallbackAfter(s, ok) /\ UNCHANGED job /\ x # s
        BY <1>3, <2>1, <2>3, <3>3 DEF End
      <4>2. fallback'[x] = fallback[x]
        BY <1>1, <4>1 DEF FallbackAfter, Tried
      <4> QED
        BY <1>4, <3>1, <4>1, <4>2
    <3> QED
      BY <3>2, <3>3
  <2>4. CASE Skip(s) \/ Confirm(s) \/ Refuse(s) \/ TimeOut(s)
    <3>1. End(s, TRUE) \/ End(s, FALSE)
      BY <2>4 DEF Skip, Confirm, Refuse, TimeOut
    <3> QED
      BY <2>3, <3>1
  <2> QED
    BY <1>9, <2>2, <2>4 DEF Attempt
<1>10. ASSUME NEW e \in Emails, SettleLate(e) \/ ChangeOptOut(e)
       PROVE  Over(x)'
  BY <1>4, <1>10 DEF SettleLate, ChangeOptOut
<1>11. ASSUME NEW i \in Instances, Crash(i)
       PROVE  Over(x)'
  <2>1. /\ UNCHANGED job
        /\ request'[x] = IF InProcess(x, i) THEN [request[x] EXCEPT !.pc = "done"] ELSE request[x]
        /\ fallback'[x] = IF InProcess(x, i) THEN None ELSE fallback[x]
    BY <1>11 DEF Crash
  <2>2. request[x] \in [pc : {"adding", "done"}, at : Instances]
    BY <1>1, <1>2 DEF Recorded
  <2>3. [request[x] EXCEPT !.pc = "done"] = request[x]
    BY <1>2, <2>2
  <2> QED
    BY <1>2, <1>4, <2>1, <2>3
<1> QED
  BY <1>5, <1>6, <1>7, <1>8, <1>9, <1>10, <1>11 DEF Next

\* An email that is over stays over: neither a worker that comes back from a stall nor a crash
\* starts its queue or its fallback again.
THEOREM OverStaysCorrect == Spec => [][OverStays]_vars
<1>1. TypeInv /\ [Next]_vars => [OverStays]_vars
  BY OverStep
<1> QED
  BY <1>1, TypesHold, PTL DEF Spec

=============================================================================
