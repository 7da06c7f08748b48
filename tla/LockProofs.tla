------------------------------ MODULE LockProofs ------------------------------
(***************************************************************************)
(* What the two locks of the system give: the key in Redis that keeps a    *)
(* scheduled job on one instance, and the Web Lock that keeps the tabs of  *)
(* a browser from racing for a refresh token.                              *)
(*                                                                         *)
(* The lock of the jobs, for any number of instances and all durations     *)
(* that satisfy TimesAssumption.  Two facts are needed beside the          *)
(* properties themselves.  Everything a cycle starts is over when the next *)
(* one begins (CycleInv): a timer fires within Skew, so the key it sets is *)
(* gone and the run it starts has ended by Skew + TTL, which is at most    *)
(* Period.  And while no SET has failed the key's remaining life and the   *)
(* age of the run that set it add up to TTL (ReleasesOwnKey); since no run *)
(* is older than MaxRun < TTL the key exists as long as the run does, so   *)
(* no second SET NX wins.                                                  *)
(*                                                                         *)
(* The lock of the tabs, for any number of tabs and calls.  Its queue      *)
(* holds the tabs that refresh, each once, and only the first one has a    *)
(* request under way (QueueInv).  So there is one refresh token in the     *)
(* browser, in the jar or in the answer that replaces it, and nobody has   *)
(* consumed it, until something that excuses a logout happens (Calm): no   *)
(* refresh is denied and no tab is sent to the login page.  And while      *)
(* anybody waits the first tab in the queue can act, which brings every    *)
(* other one closer to its answer (HeadCanAct, QueueDrains).               *)
(***************************************************************************)
EXTENDS CronLock, Sessions, SequenceTheorems, TLAPS

\* The durations and the state of the lock keep their types.
THEOREM CronTypeCorrect == CronSpec => []CronTypeOK
<1>1. CronInit => CronTypeOK
  <2> SUFFICES ASSUME CronInit PROVE CronTypeOK
    OBVIOUS
  <2>1. blind \in BOOLEAN
    BY DEF CronInit
  <2> QED
    BY <2>1, TimesAssumption DEF CronInit, CronTypeOK, States
<1>2. CronTypeOK /\ [CronNext]_cronVars => CronTypeOK'
  <2> SUFFICES ASSUME CronTypeOK, [CronNext]_cronVars PROVE CronTypeOK'
    OBVIOUS
  <2> USE TimesAssumption DEF CronTypeOK, States
  <2>1. ASSUME NEW i \in Instances, Acquire(i) PROVE CronTypeOK'
    BY <2>1 DEF Acquire, Run, KeyLife
  <2>2. ASSUME NEW i \in Instances, Skip(i) PROVE CronTypeOK'
    BY <2>2 DEF Skip
  <2>3. ASSUME NEW i \in Instances, EndJob(i) PROVE CronTypeOK'
    BY <2>3 DEF EndJob, Set
  <2>4. ASSUME NEW i \in Instances, Release(i) PROVE CronTypeOK'
    BY <2>4 DEF Release
  <2>5. CASE CronTick
    BY <2>5 DEF CronTick, Older, Active
  <2>6. CASE NextCycle
    <3>1. blind' \in BOOLEAN
      BY <2>6 DEF NextCycle
    <3> QED
      BY <2>6, <3>1 DEF NextCycle
  <2>7. ASSUME NEW i \in Instances, AcquireFails(i) PROVE CronTypeOK'
    BY <2>7 DEF AcquireFails, Run
  <2>8. ASSUME NEW i \in Instances, ReleaseFails(i) PROVE CronTypeOK'
    BY <2>8 DEF ReleaseFails
  <2>9. ASSUME NEW i \in Instances, Crash(i) PROVE CronTypeOK'
    BY <2>9 DEF Crash
  <2>10. ASSUME NEW i \in Instances, Restart(i) PROVE CronTypeOK'
    BY <2>10 DEF Restart, Set
  <2>11. CASE UNCHANGED cronVars
    BY <2>11 DEF cronVars
  <2> QED
    BY <2>1, <2>2, <2>3, <2>4, <2>5, <2>6, <2>7, <2>8, <2>9, <2>10, <2>11
    DEF CronNext, System, Failures
<1> QED
  BY <1>1, <1>2, PTL DEF CronSpec

-----------------------------------------------------------------------------
(* A cycle leaves nothing behind *)

CycleInv ==
    /\ due # {} => elapsed <= Skew
    /\ ttl > 0 => ttl + elapsed <= Skew + TTL /\ executed > 0
    /\ \A i \in Instances : Active(i) => elapsed <= job[i].age + Skew

\* When the next cycle begins no key and no run is left.
LEMMA CycleEnds ==
    ASSUME CronTypeOK, CycleInv, elapsed = Period
    PROVE  ttl = 0 /\ due = {} /\ \A i \in Instances : ~Active(i)
BY TimesAssumption DEF CronTypeOK, CycleInv

LEMMA CycleInductive ==
    ASSUME CronTypeOK, CycleInv, [CronNext]_cronVars
    PROVE  CycleInv'
<1> USE TimesAssumption DEF CronTypeOK, States, CycleInv, Active
<1>1. ASSUME NEW i \in Instances, Acquire(i) \/ AcquireFails(i) PROVE CycleInv'
  BY <1>1 DEF Acquire, AcquireFails, Run, KeyLife
<1>2. ASSUME NEW i \in Instances, Skip(i) PROVE CycleInv'
  BY <1>2 DEF Skip
<1>3. ASSUME NEW i \in Instances, EndJob(i) PROVE CycleInv'
  BY <1>3 DEF EndJob, Set
<1>4. ASSUME NEW i \in Instances, Release(i) \/ ReleaseFails(i) PROVE CycleInv'
  BY <1>4 DEF Release, ReleaseFails
<1>5. CASE CronTick
  BY <1>5 DEF CronTick, Older
<1>6. CASE NextCycle
  BY <1>6, CycleEnds DEF NextCycle
<1>7. ASSUME NEW i \in Instances, Crash(i) \/ Restart(i) PROVE CycleInv'
  BY <1>7 DEF Crash, Restart, Set
<1>8. CASE UNCHANGED cronVars
  BY <1>8 DEF cronVars
<1> QED
  BY <1>1, <1>2, <1>3, <1>4, <1>5, <1>6, <1>7, <1>8 DEF CronNext, System, Failures

\* Whatever one cycle starts is over when the next one begins.
THEOREM CycleCorrect == CronSpec => [](CronTypeOK /\ CycleInv)
<1>1. CronInit => CycleInv
  BY TimesAssumption DEF CronInit, CycleInv, Active
<1>2. CronTypeOK /\ CycleInv /\ [CronNext]_cronVars => CycleInv'
  BY CycleInductive
<1> QED
  BY <1>1, <1>2, CronTypeCorrect, PTL DEF CronSpec

\* A key left behind never costs the next cycle: an instance skips a cycle only when the
\* job was started in that very cycle.
THEOREM SkipsCorrect == CronSpec => SkipsOnlyStartedCycle
<1> DEFINE A == \A i \in Instances :
                   i \in due /\ i \notin due' /\ job'[i].state = "idle" => executed > 0
<1>1. CronTypeOK /\ CycleInv /\ [CronNext]_cronVars => [A]_cronVars
  <2> SUFFICES ASSUME CronTypeOK, CycleInv, CronNext, NEW i \in Instances,
                      i \in due, i \notin due', job'[i].state = "idle"
               PROVE  executed > 0
    BY DEF cronVars
  <2> USE DEF CronTypeOK, States
  <2>1. ASSUME NEW p \in Instances, Acquire(p) \/ AcquireFails(p) PROVE FALSE
    BY <2>1 DEF Acquire, AcquireFails, Run
  <2>2. ASSUME NEW p \in Instances, Skip(p) PROVE executed > 0
    BY <2>2 DEF Skip, Winnable, CycleInv
  <2>3. ASSUME NEW p \in Instances, Crash(p) PROVE FALSE
    BY <2>3 DEF Crash
  <2>4. CASE NextCycle
    BY <2>4, CycleEnds DEF NextCycle
  <2>5. CASE UNCHANGED due
    BY <2>5
  <2> QED
    BY <2>1, <2>2, <2>3, <2>4, <2>5
    DEF CronNext, System, Failures, EndJob, Release, ReleaseFails, Restart, CronTick
<1> QED
  BY <1>1, CycleCorrect, PTL DEF CronSpec, SkipsOnlyStartedCycle

-----------------------------------------------------------------------------
(* Mutual exclusion *)

LockInv == CronTypeOK /\ CycleInv /\ MutualExclusion /\ ReleasesOwnKey

\* A run in progress keeps the key in existence.
LEMMA KeyWhileActive ==
    ASSUME LockInv, ~blind, NEW i \in Instances, Active(i)
    PROVE  ttl > 0
BY TimesAssumption DEF LockInv, CronTypeOK, ReleasesOwnKey

\* No step but a failing SET breaks the lock, and the next cycle repairs it.
LEMMA LockInductive ==
    ASSUME LockInv, [CronNext]_cronVars
    PROVE  MutualExclusion' /\ ReleasesOwnKey'
<1> USE TimesAssumption DEF MutualExclusion, ReleasesOwnKey, Active
<1>1. ASSUME NEW i \in Instances, Acquire(i) PROVE MutualExclusion' /\ ReleasesOwnKey'
  <2>1. ~blind => \A j \in Instances : ~Active(j)
    BY <1>1, KeyWhileActive DEF Acquire, Winnable
  <2> QED
    BY <1>1, <2>1 DEF Acquire, Run, KeyLife, LockInv, CronTypeOK
<1>2. ASSUME NEW i \in Instances, Skip(i) PROVE MutualExclusion' /\ ReleasesOwnKey'
  BY <1>2 DEF Skip, LockInv
<1>3. ASSUME NEW i \in Instances, EndJob(i) PROVE MutualExclusion' /\ ReleasesOwnKey'
  BY <1>3 DEF EndJob, Set, LockInv, CronTypeOK
<1>4. ASSUME NEW i \in Instances, Release(i) PROVE MutualExclusion' /\ ReleasesOwnKey'
  BY <1>4 DEF Release, LockInv, CronTypeOK
<1>5. ASSUME CronTick PROVE MutualExclusion' /\ ReleasesOwnKey'
  <2>1. \A i \in Instances : Active(i)' <=> Active(i)
    BY <1>5 DEF CronTick, Older, LockInv, CronTypeOK, States
  <2>2. ASSUME ~blind, NEW i \in Instances, Active(i) PROVE ttl' = TTL - job'[i].age
    <3>1. ttl > 0 /\ ttl \in Nat
      BY <2>2, KeyWhileActive DEF LockInv, CronTypeOK
    <3>2. ttl' = ttl - 1 /\ job'[i].age = job[i].age + 1 /\ job[i].age \in Nat
      BY <1>5, <2>2, <3>1 DEF CronTick, Older, LockInv, CronTypeOK, States
    <3> QED
      BY <2>2, <3>1, <3>2 DEF LockInv
  <2>3. UNCHANGED blind
    BY <1>5 DEF CronTick
  <2> QED
    BY <2>1, <2>2, <2>3 DEF LockInv
<1>6. ASSUME NextCycle PROVE MutualExclusion' /\ ReleasesOwnKey'
  <2>1. \A i \in Instances : ~Active(i)
    BY <1>6, CycleEnds DEF NextCycle, LockInv
  <2> QED
    BY <1>6, <2>1 DEF NextCycle
<1>7. ASSUME NEW i \in Instances, AcquireFails(i) PROVE MutualExclusion' /\ ReleasesOwnKey'
  BY <1>7 DEF AcquireFails
<1>8. ASSUME NEW i \in Instances, ReleaseFails(i) PROVE MutualExclusion' /\ ReleasesOwnKey'
  BY <1>8 DEF ReleaseFails, LockInv, CronTypeOK
<1>9. ASSUME NEW i \in Instances, Crash(i) PROVE MutualExclusion' /\ ReleasesOwnKey'
  BY <1>9 DEF Crash, LockInv, CronTypeOK
<1>10. ASSUME NEW i \in Instances, Restart(i) PROVE MutualExclusion' /\ ReleasesOwnKey'
  BY <1>10 DEF Restart, Set, LockInv, CronTypeOK
<1>11. CASE UNCHANGED cronVars
  BY <1>11 DEF cronVars, LockInv
<1> QED
  BY <1>1, <1>2, <1>3, <1>4, <1>5, <1>6, <1>7, <1>8, <1>9, <1>10, <1>11
  DEF CronNext, System, Failures

\* Unless a SET failed in this cycle a job never runs on two instances at once, and no
\* instance deletes the key of another run.
THEOREM LockCorrect == CronSpec => [](MutualExclusion /\ ReleasesOwnKey)
<1>1. CronInit => MutualExclusion /\ ReleasesOwnKey
  BY DEF CronInit, MutualExclusion, ReleasesOwnKey, Active
<1>2. CronTypeOK /\ CycleInv /\ (MutualExclusion /\ ReleasesOwnKey) /\ [CronNext]_cronVars
        => (MutualExclusion /\ ReleasesOwnKey)'
  BY LockInductive DEF LockInv
<1> QED
  BY <1>1, <1>2, CycleCorrect, PTL DEF CronSpec

\* A run never deletes the key of another run, as long as no SET has failed in the cycle.
THEOREM KeyReleased == CronSpec => []ReleasesOwnKey
BY LockCorrect, PTL

-----------------------------------------------------------------------------
(* The lock of the tabs: what the parts of the invariant of Sessions say *)

\* The types in TypeOK.
Typed ==
    /\ now \in 1 .. MaxTime
    /\ jar \in [access : BOOLEAN, refresh : Token]
    /\ shown \in [Tabs -> BOOLEAN]
    /\ req \in [AllSlots -> Request]
    /\ refresh \in [Tabs -> Refreshing]
    /\ channel \in [Tabs -> Seq({"login", "logout"})]
    /\ consumed \subseteq 1 .. now /\ stray \subseteq 1 .. now
    /\ reissued \in BOOLEAN /\ excused \in BOOLEAN

\* No token is younger than the clock: what is consumed was signed.
TokensKnown ==
    /\ jar.refresh \in 0 .. now
    /\ \A c \in AllSlots : req[c].pc = "answered" => req[c].token \in 0 .. now
    /\ \A t \in Tabs : refresh[t].pc \in {"sent", "answered"} => refresh[t].token \in 0 .. now

\* The queue of the lock holds the tabs that refresh, each once, and the first one alone has
\* a request under way.
QueueInv ==
    /\ locks \in Seq(Tabs)
    /\ \A i, j \in 1 .. Len(locks) : locks[i] = locks[j] => i = j
    /\ \A t \in Tabs :
          /\ refresh[t] # None <=> \E i \in 1 .. Len(locks) : locks[i] = t
          /\ refresh[t].pc \in {"sent", "answered"} => t = Head(locks)

\* Who waits has a refresh to wait for, and a refresh somebody who waits for it.
WaitInv == \A t \in Tabs : Waiting(t) # {} <=> refresh[t] # None

SessionInv == Typed /\ TokensKnown /\ QueueInv /\ WaitInv

\* Together they say what TypeOK says.
LEMMA TypeOKFollows == SessionInv => TypeOK
BY LenProperties DEF SessionInv, TypeOK, Typed, QueueInv, WaitInv

-----------------------------------------------------------------------------
(* The records of requests *)

LEMMA SlotTab == ASSUME NEW c \in AllSlots PROVE c[1] \in Tabs
BY SlotsAssumption

LEMMA SentRequest ==
    ASSUME NEW kind \in Kinds, NEW valid \in BOOLEAN, NEW again \in BOOLEAN
    PROVE  /\ Sent(kind, valid, again) \in Request
           /\ Sent(kind, valid, again).pc = "sent"
BY DEF Sent, Request

LEMMA IdleRequest == Idle \in Request /\ Idle.pc = "idle"
BY DEF Idle, Request

LEMMA SentFields ==
    ASSUME NEW r \in Request, r.pc = "sent"
    PROVE  r.kind \in Kinds /\ r.valid \in BOOLEAN /\ r.again \in BOOLEAN
BY DEF Request, Idle

LEMMA AnsweredFields ==
    ASSUME NEW r \in Request, r.pc = "answered"
    PROVE  /\ r.kind \in Kinds /\ r.again \in BOOLEAN
           /\ r.status \in {"ok", "denied"} /\ r.token \in Token
BY DEF Request, Idle

LEMMA WaitingFields ==
    ASSUME NEW r \in Request, r.pc = "waiting"
    PROVE  r.kind \in Kinds
BY DEF Request, Idle

LEMMA NoneRefreshing ==
    ASSUME NEW f \in Refreshing
    PROVE  /\ f # None <=> f.pc # "none"
           /\ f.pc = "sent" => f.token \in Token
           /\ f.pc = "answered" =>
                 f.token \in Token /\ f.result \in {"ok", "expired", "server-error"}
           /\ f.pc \in {"none", "queued", "sent", "answered"}
BY DEF Refreshing, None

LEMMA RefreshingRecords ==
    /\ None \in Refreshing /\ None.pc = "none"
    /\ [pc |-> "queued"] \in Refreshing
    /\ \A token \in Token : [pc |-> "sent", token |-> token] \in Refreshing
    /\ \A token \in Token, result \in {"ok", "expired", "server-error"} :
          [pc |-> "answered", result |-> result, token |-> token] \in Refreshing
BY DEF Refreshing, None

-----------------------------------------------------------------------------
(* The queue of the lock *)

LEMMA QueueJoin ==
    ASSUME Typed, QueueInv, NEW t \in Tabs, refresh[t] = None,
           refresh' = [refresh EXCEPT ![t] = [pc |-> "queued"]],
           locks' = Append(locks, t)
    PROVE  QueueInv'
<1>1. /\ locks' \in Seq(Tabs) /\ Len(locks') = Len(locks) + 1 /\ Len(locks) \in Nat
      /\ \A i \in 1 .. Len(locks) : locks'[i] = locks[i]
      /\ locks'[Len(locks) + 1] = t
  BY AppendProperties, LenProperties DEF QueueInv
<1>2. \A i \in 1 .. Len(locks) : locks[i] # t /\ locks[i] \in Tabs
  BY LenProperties, ElementOfSeq DEF QueueInv
<1>3. \A i, j \in 1 .. Len(locks') : locks'[i] = locks'[j] => i = j
  BY <1>1, <1>2 DEF QueueInv
<1>4. \A o \in Tabs : refresh'[o] # None <=> o = t \/ refresh[o] # None
  BY NoneRefreshing DEF Typed, None
<1>5. \A o \in Tabs : (\E i \in 1 .. Len(locks') : locks'[i] = o)
                         <=> o = t \/ \E i \in 1 .. Len(locks) : locks[i] = o
  BY <1>1
<1>6. ASSUME NEW o \in Tabs, refresh'[o].pc \in {"sent", "answered"} PROVE o = Head(locks')
  <2>1. o # t /\ refresh'[o] = refresh[o]
    BY <1>6 DEF Typed
  <2>2. o = Head(locks) /\ refresh[o] # None
    BY <1>6, <2>1, NoneRefreshing DEF QueueInv, Typed
  <2>3. Len(locks) # 0
    BY <2>2, <1>1 DEF QueueInv
  <2> QED
    BY <2>2, <2>3, <1>1, HeadTailProperties, EmptySeq DEF QueueInv
<1> QED
  BY <1>1, <1>3, <1>4, <1>5, <1>6 DEF QueueInv

LEMMA QueueProgress ==
    ASSUME Typed, QueueInv, NEW t \in Tabs, refresh[t] # None, t = Head(locks),
           NEW f \in Refreshing, f.pc \in {"sent", "answered"},
           refresh' = [refresh EXCEPT ![t] = f],
           locks' = locks
    PROVE  QueueInv'
<1>1. f # None
  BY DEF None
<1>2. refresh'[t] = f /\ \A o \in Tabs : o # t => refresh'[o] = refresh[o]
  BY DEF Typed
<1>3. \A o \in Tabs : refresh'[o] # None <=> refresh[o] # None
  BY <1>1, <1>2
<1> QED
  BY <1>2, <1>3 DEF QueueInv

LEMMA QueueLeave ==
    ASSUME Typed, QueueInv, NEW t \in Tabs, refresh[t].pc \in {"sent", "answered"}, Resolve(t)
    PROVE  QueueInv'
<1>1. refresh' = [refresh EXCEPT ![t] = None] /\ locks' = Tail(locks)
  BY DEF Resolve, Progress
<1>2. t = Head(locks) /\ refresh[t] # None
  BY NoneRefreshing DEF QueueInv, Typed
<1>3. /\ locks # <<>> /\ Len(locks) \in Nat /\ Len(locks) # 0
      /\ t = locks[1]
  BY <1>2, LenProperties, EmptySeq DEF QueueInv
<1>4. /\ locks' \in Seq(Tabs) /\ Len(locks') = Len(locks) - 1
      /\ \A i \in 1 .. Len(locks') : locks'[i] = locks[i + 1]
  BY <1>1, <1>3, HeadTailProperties DEF QueueInv
<1>5. \A i, j \in 1 .. Len(locks') : locks'[i] = locks'[j] => i = j
  <2> SUFFICES ASSUME NEW i \in 1 .. Len(locks'), NEW j \in 1 .. Len(locks'), locks'[i] = locks'[j]
               PROVE  i = j
    OBVIOUS
  <2>1. i + 1 \in 1 .. Len(locks) /\ j + 1 \in 1 .. Len(locks) /\ locks[i + 1] = locks[j + 1]
    BY <1>3, <1>4
  <2> QED
    BY <2>1 DEF QueueInv
<1>6. refresh'[t] = None /\ \A o \in Tabs : o # t => refresh'[o] = refresh[o]
  BY <1>1 DEF Typed
<1>7. ASSUME NEW o \in Tabs
      PROVE  (\E i \in 1 .. Len(locks') : locks'[i] = o)
                <=> o # t /\ \E i \in 1 .. Len(locks) : locks[i] = o
  <2>1. ASSUME NEW i \in 1 .. Len(locks'), locks'[i] = o
        PROVE  o # t /\ \E j \in 1 .. Len(locks) : locks[j] = o
    <3>1. i + 1 \in 1 .. Len(locks) /\ 1 \in 1 .. Len(locks) /\ locks[i + 1] = o /\ i + 1 # 1
      BY <1>3, <1>4, <2>1
    <3> QED
      BY <1>3, <3>1 DEF QueueInv
  <2>2. ASSUME o # t, NEW j \in 1 .. Len(locks), locks[j] = o
        PROVE  \E i \in 1 .. Len(locks') : locks'[i] = o
    <3>1. j # 1
      BY <1>3, <2>2
    <3>2. j - 1 \in 1 .. Len(locks') /\ locks'[j - 1] = o
      BY <1>3, <1>4, <2>2, <3>1
    <3> QED
      BY <3>2
  <2> QED
    BY <2>1, <2>2
<1>8. \A o \in Tabs : refresh'[o].pc \notin {"sent", "answered"}
  BY <1>2, <1>6, RefreshingRecords DEF QueueInv
<1>9. \A o \in Tabs : refresh'[o] # None <=> \E i \in 1 .. Len(locks') : locks'[i] = o
  <2> SUFFICES ASSUME NEW o \in Tabs
               PROVE  refresh'[o] # None <=> \E i \in 1 .. Len(locks') : locks'[i] = o
    OBVIOUS
  <2>1. refresh'[o] # None <=> o # t /\ refresh[o] # None
    BY <1>6
  <2> QED
    BY <2>1, <1>7 DEF QueueInv
<1> QED
  BY <1>4, <1>5, <1>8, <1>9 DEF QueueInv

-----------------------------------------------------------------------------
(* The waiting callers *)

\* A step that makes no call wait and none stop waiting leaves the callers of a tab alone.
LEMMA SameWaiting ==
    ASSUME \A c \in AllSlots : req'[c].pc = "waiting" <=> req[c].pc = "waiting"
    PROVE  \A t \in Tabs : Waiting(t)' = Waiting(t)
BY DEF Waiting

LEMMA OneRequest ==
    ASSUME Typed, NEW c \in AllSlots, NEW r, req' = [req EXCEPT ![c] = r],
           req[c].pc # "waiting", r.pc # "waiting"
    PROVE  \A d \in AllSlots : req'[d].pc = "waiting" <=> req[d].pc = "waiting"
<1>1. req'[c] = r /\ \A d \in AllSlots : d # c => req'[d] = req[d]
  BY DEF Typed
<1> QED
  BY <1>1

\* A step that leaves the lock, the refreshes and the set of the callers alone.
LEMMA QueueAlone ==
    ASSUME Typed, QueueInv, WaitInv, UNCHANGED <<refresh, locks>>,
           \A c \in AllSlots : req'[c].pc = "waiting" <=> req[c].pc = "waiting"
    PROVE  QueueInv' /\ WaitInv'
<1>1. \A t \in Tabs : Waiting(t)' = Waiting(t)
  BY SameWaiting
<1> QED
  BY <1>1 DEF QueueInv, WaitInv

\* The head of the queue goes one step on.
LEMMA ProgressAlone ==
    ASSUME Typed, QueueInv, WaitInv, NEW t \in Tabs, refresh[t] # None, t = Head(locks),
           NEW f \in Refreshing, f.pc \in {"sent", "answered"}, Progress(t, f),
           UNCHANGED <<req, locks>>
    PROVE  QueueInv' /\ WaitInv'
<1> refresh' = [refresh EXCEPT ![t] = f] /\ locks' = locks
  BY DEF Progress
<1>1. QueueInv'
  BY QueueProgress
<1>2. f # None
  BY DEF None
<1>3. \A o \in Tabs : refresh'[o] # None <=> refresh[o] # None
  BY <1>2 DEF Progress, Typed
<1>4. \A o \in Tabs : Waiting(o)' = Waiting(o)
  BY SameWaiting
<1> QED
  BY <1>1, <1>3, <1>4 DEF WaitInv

\* The head of the queue leaves it, and with it all the callers of its tab.
LEMMA ResolveAlone ==
    ASSUME Typed, QueueInv, WaitInv, NEW t \in Tabs, refresh[t].pc \in {"sent", "answered"},
           Resolve(t),
           \A c \in AllSlots : req'[c].pc = "waiting" <=> req[c].pc = "waiting" /\ c[1] # t
    PROVE  QueueInv' /\ WaitInv'
<1>1. QueueInv'
  BY QueueLeave
<1>2. refresh'[t] = None /\ \A o \in Tabs : o # t => refresh'[o] = refresh[o]
  BY DEF Resolve, Progress, Typed
<1>3. \A o \in Tabs : Waiting(o)' = IF o = t THEN {} ELSE Waiting(o)
  BY DEF Waiting
<1>4. WaitInv'
  <2> SUFFICES ASSUME NEW o \in Tabs PROVE Waiting(o)' # {} <=> refresh'[o] # None
    BY DEF WaitInv
  <2>1. CASE o = t
    BY <1>2, <1>3, <2>1
  <2>2. CASE o # t
    BY <1>2, <1>3, <2>2 DEF WaitInv
  <2> QED
    BY <2>1, <2>2
<1> QED
  BY <1>1, <1>4

-----------------------------------------------------------------------------
(* Every step keeps the invariant *)

\* A call is sent.
LEMMA StartStep ==
    ASSUME SessionInv, NEW c \in AllSlots, req[c] = Idle, NEW r \in Request, r.pc = "sent",
           req' = [req EXCEPT ![c] = r], excused' \in BOOLEAN,
           UNCHANGED <<now, jar, shown, refresh, locks, channel, consumed, stray, reissued>>
    PROVE  SessionInv'
<1>1. QueueInv' /\ WaitInv'
  BY OneRequest, QueueAlone, IdleRequest DEF SessionInv
<1>2. req' \in [AllSlots -> Request]
  BY DEF SessionInv, Typed
<1>3. Typed'
  BY <1>2 DEF SessionInv, Typed
<1>4. req'[c] = r /\ \A d \in AllSlots : d # c => req'[d] = req[d]
  BY DEF SessionInv, Typed
<1>5. TokensKnown'
  BY <1>4 DEF SessionInv, TokensKnown
<1> QED
  BY <1>1, <1>3, <1>5 DEF SessionInv

LEMMA RefreshUserStep ==
    ASSUME SessionInv, NEW t \in Tabs, RefreshUser(t)
    PROVE  SessionInv'
<1> DEFINE c == <<t, "me">>
<1>1. /\ c \in AllSlots /\ req[c] = Idle /\ req' = [req EXCEPT ![c] = Sent("me", jar.access, FALSE)]
      /\ UNCHANGED <<now, jar, shown, refresh, locks, channel, consumed, stray, history>>
  BY DEF RefreshUser, Free, Start
<1>2. "me" \in Kinds /\ jar.access \in BOOLEAN /\ FALSE \in BOOLEAN
  BY DEF SessionInv, Typed, Kinds
<1>3. PICK r \in Request : req' = [req EXCEPT ![c] = r] /\ r.pc = "sent"
  BY <1>1, <1>2, SentRequest
<1>4. excused' \in BOOLEAN
  BY <1>1 DEF history, SessionInv, Typed
<1>5. UNCHANGED <<now, jar, shown, refresh, locks, channel, consumed, stray, reissued>>
  BY <1>1 DEF history
<1> QED
  BY <1>1, <1>3, <1>4, <1>5, StartStep

LEMMA CallStep ==
    ASSUME SessionInv, NEW t \in Tabs, NEW kind \in {"query", "login", "logout"}, Call(t, kind)
    PROVE  SessionInv'
<1> DEFINE c == <<t, "call">>
<1>1. /\ c \in AllSlots /\ req[c] = Idle /\ req' = [req EXCEPT ![c] = Sent(kind, jar.access, FALSE)]
      /\ UNCHANGED <<now, jar, shown, refresh, locks, channel, consumed, stray, reissued>>
  BY DEF Call, Free, Start
<1>2. kind \in Kinds /\ jar.access \in BOOLEAN /\ FALSE \in BOOLEAN
  BY DEF SessionInv, Typed, Kinds
<1>3. PICK r \in Request : req' = [req EXCEPT ![c] = r] /\ r.pc = "sent"
  BY <1>1, <1>2, SentRequest
<1>4. excused' \in BOOLEAN
  BY DEF Call
<1> QED
  BY <1>1, <1>3, <1>4, StartStep

\* A call is answered: with a token that is at most now, or none.
LEMMA ServeStep ==
    ASSUME SessionInv, NEW c \in AllSlots, Serve(c)
    PROVE  SessionInv'
<1>1. /\ req[c].pc = "sent" /\ req[c] \in Request
      /\ UNCHANGED <<now, jar, shown, refresh, locks, channel, consumed, stray, excused>>
  BY DEF Serve, SessionInv, Typed
<1>2. reissued' \in BOOLEAN
  BY DEF Serve, Sign, SessionInv, Typed
<1>3. now \in Token /\ 0 \in Token /\ 0 \in 0 .. now /\ now \in 0 .. now
  BY BoundsAssumption DEF SessionInv, Typed, Token
<1>4. PICK status \in {"ok", "denied"}, token \in {0, now} : Answer(c, status, token)
  BY DEF Serve
<1>5. DEFINE r == [pc |-> "answered", kind |-> req[c].kind, again |-> req[c].again,
                   status |-> status, token |-> token]
<1>6. req' = [req EXCEPT ![c] = r]
  BY <1>4 DEF Answer
<1>7. req[c].kind \in Kinds /\ req[c].again \in BOOLEAN /\ token \in Token
  BY <1>1, <1>3, SentFields
<1>8. r \in Request /\ r.pc = "answered" /\ r.token \in 0 .. now
  BY <1>3, <1>7 DEF Request
<1> HIDE DEF r
<1>9. req' \in [AllSlots -> Request]
  BY <1>6, <1>8 DEF SessionInv, Typed
<1>10. Typed'
  BY <1>1, <1>2, <1>9 DEF SessionInv, Typed
<1>11. req'[c] = r /\ \A d \in AllSlots : d # c => req'[d] = req[d]
  BY <1>6 DEF SessionInv, Typed
<1>12. TokensKnown'
  BY <1>1, <1>8, <1>11 DEF SessionInv, TokensKnown
<1>13. \A d \in AllSlots : req'[d].pc = "waiting" <=> req[d].pc = "waiting"
  BY <1>1, <1>8, <1>11
<1>14. UNCHANGED <<refresh, locks>>
  BY <1>1
<1>15. QueueInv' /\ WaitInv'
  BY <1>13, <1>14, QueueAlone DEF SessionInv
<1> QED
  BY <1>10, <1>12, <1>15 DEF SessionInv

\* A call is over; its tab may learn something.
LEMMA FinishStep ==
    ASSUME SessionInv, NEW c \in AllSlots, req[c].pc \in {"sent", "answered"}, Finished(c),
           jar' \in [access : BOOLEAN, refresh : Token], jar'.refresh \in 0 .. now,
           shown' \in [Tabs -> BOOLEAN], channel' \in [Tabs -> Seq({"login", "logout"})],
           excused' \in BOOLEAN,
           UNCHANGED <<now, consumed, stray, reissued>>
    PROVE  SessionInv'
<1>1. req' = [req EXCEPT ![c] = Idle] /\ UNCHANGED <<refresh, locks>>
  BY DEF Finished
<1>2. req' \in [AllSlots -> Request]
  BY <1>1, IdleRequest DEF SessionInv, Typed
<1>3. Typed'
  BY <1>1, <1>2 DEF SessionInv, Typed
<1>4. req'[c] = Idle /\ \A d \in AllSlots : d # c => req'[d] = req[d]
  BY <1>1 DEF SessionInv, Typed
<1>5. TokensKnown'
  BY <1>1, <1>4, IdleRequest DEF SessionInv, TokensKnown
<1>6. \A d \in AllSlots : req'[d].pc = "waiting" <=> req[d].pc = "waiting"
  BY <1>4, IdleRequest
<1>7. QueueInv' /\ WaitInv'
  BY <1>1, <1>6, QueueAlone DEF SessionInv
<1> QED
  BY <1>3, <1>5, <1>7 DEF SessionInv

LEMMA ShowTyped ==
    ASSUME Typed, NEW t \in Tabs, NEW user \in BOOLEAN, Show(t, user)
    PROVE  shown' \in [Tabs -> BOOLEAN]
BY DEF Typed, Show

LEMMA TellTyped ==
    ASSUME Typed, NEW t \in Tabs, NEW message \in {"login", "logout"}, Tell(t, message)
    PROVE  channel' \in [Tabs -> Seq({"login", "logout"})]
<1>1. \A o \in Tabs : channel[o] \in Seq({"login", "logout"})
  BY DEF Typed
<1>2. \A o \in Tabs : Append(channel[o], message) \in Seq({"login", "logout"})
  BY <1>1, AppendProperties
<1> QED
  BY <1>1, <1>2 DEF Tell

\* Without a change of jar, what is shown and what is told.
LEMMA Untouched ==
    ASSUME SessionInv
    PROVE  /\ UNCHANGED jar =>
                 jar' \in [access : BOOLEAN, refresh : Token] /\ jar'.refresh \in 0 .. now
           /\ UNCHANGED shown => shown' \in [Tabs -> BOOLEAN]
           /\ UNCHANGED channel => channel' \in [Tabs -> Seq({"login", "logout"})]
           /\ UNCHANGED excused => excused' \in BOOLEAN
BY DEF SessionInv, Typed, TokensKnown

\* A rejected call waits for the refresh of its tab, which it starts if there is none.
LEMMA JoinStep ==
    ASSUME SessionInv, NEW c \in AllSlots, req[c].pc = "answered", JoinRefresh(c),
           UNCHANGED <<now, consumed, stray, history>>
    PROVE  SessionInv'
<1> DEFINE t == c[1]
           r == [pc |-> "waiting", kind |-> req[c].kind]
<1> t \in Tabs
  BY SlotTab
<1>1. /\ req' = [req EXCEPT ![c] = r]
      /\ UNCHANGED <<now, jar, shown, channel, consumed, stray, reissued, excused>>
  BY DEF JoinRefresh, history
<1>2. \/ refresh[t] # None /\ UNCHANGED <<refresh, locks>>
      \/ /\ refresh[t] = None
         /\ refresh' = [refresh EXCEPT ![t] = [pc |-> "queued"]]
         /\ locks' = Append(locks, t)
  BY DEF JoinRefresh
<1>3. r \in Request /\ r.pc = "waiting"
  BY AnsweredFields DEF SessionInv, Typed, Request
<1> HIDE DEF r
<1>4. req' \in [AllSlots -> Request]
  BY <1>1, <1>3 DEF SessionInv, Typed
<1>5. refresh' \in [Tabs -> Refreshing]
  BY <1>2, RefreshingRecords DEF SessionInv, Typed
<1>6. Typed'
  BY <1>1, <1>4, <1>5 DEF SessionInv, Typed
<1>7. req'[c] = r /\ \A d \in AllSlots : d # c => req'[d] = req[d]
  BY <1>1 DEF SessionInv, Typed
<1>8. \A o \in Tabs : o # t => refresh'[o] = refresh[o]
  BY <1>2 DEF SessionInv, Typed
<1>9. refresh[t] = None => refresh'[t].pc = "queued"
  BY <1>2 DEF SessionInv, Typed
<1>10. refresh'[t] # None /\ (refresh[t] # None => refresh'[t] = refresh[t])
  BY <1>2, <1>9, RefreshingRecords
<1>11. \A o \in Tabs : refresh'[o].pc \in {"sent", "answered"} => refresh'[o] = refresh[o]
  BY <1>8, <1>9, <1>10
<1>12. TokensKnown'
  <2>1. \A d \in AllSlots : req'[d].pc = "answered" => req'[d] = req[d]
    BY <1>3, <1>7
  <2> QED
    BY <1>1, <1>11, <2>1 DEF SessionInv, TokensKnown
<1>13. QueueInv'
  <2>1. CASE refresh[t] = None
    BY <1>2, <2>1, QueueJoin DEF SessionInv
  <2>2. CASE refresh[t] # None
    BY <1>2, <2>2 DEF SessionInv, QueueInv
  <2> QED
    BY <2>1, <2>2
<1>14. \A o \in Tabs : Waiting(o)' = IF o = t THEN Waiting(o) \union {c} ELSE Waiting(o)
  BY <1>3, <1>7 DEF Waiting
<1>15. WaitInv'
  <2> SUFFICES ASSUME NEW o \in Tabs PROVE Waiting(o)' # {} <=> refresh'[o] # None
    BY DEF WaitInv
  <2>1. CASE o = t
    BY <1>10, <1>14, <2>1
  <2>2. CASE o # t
    BY <1>8, <1>14, <2>2 DEF SessionInv, WaitInv
  <2> QED
    BY <2>1, <2>2
<1> QED
  BY <1>6, <1>12, <1>13, <1>15 DEF SessionInv

LEMMA ReceiveStep ==
    ASSUME SessionInv, NEW c \in AllSlots, Receive(c)
    PROVE  SessionInv'
<1> c[1] \in Tabs
  BY SlotTab
<1>1. req[c].pc = "answered" /\ UNCHANGED <<now, consumed, stray, history>>
  BY DEF Receive
<1>2. UNCHANGED <<now, consumed, stray, reissued>> /\ UNCHANGED excused
  BY <1>1 DEF history
<1>9. excused' \in BOOLEAN
  BY <1>2, Untouched
<1>10. req[c].token \in Token /\ req[c].token \in 0 .. now /\ 0 \in Token /\ 0 \in 0 .. now
  BY <1>1, AnsweredFields, BoundsAssumption DEF SessionInv, Typed, TokensKnown, Token
<1>3. /\ req[c].token \in Token /\ req[c].token \in 0 .. now /\ excused' \in BOOLEAN
      /\ 0 \in Token /\ 0 \in 0 .. now
  BY <1>9, <1>10
<1>4. CASE ReceiveOk(c)
  <2>1. Finished(c)
    BY <1>4 DEF ReceiveOk
  <2>2. CASE Show(c[1], TRUE) /\ UNCHANGED <<jar, channel>>
    <3>1. UNCHANGED jar /\ UNCHANGED channel /\ shown' \in [Tabs -> BOOLEAN]
      BY <2>2, ShowTyped DEF SessionInv
    <3> QED
      BY <1>1, <1>2, <1>3, <2>1, <3>1, Untouched, FinishStep
  <2>3. CASE UNCHANGED <<jar, shown, channel>>
    <3>1. UNCHANGED jar /\ UNCHANGED channel /\ UNCHANGED shown
      BY <2>3
    <3> QED
      BY <1>1, <1>2, <1>3, <2>1, <3>1, Untouched, FinishStep
  <2>4. CASE jar' = Cookies(req[c].token) /\ Show(c[1], TRUE) /\ Tell(c[1], "login")
    <3>1. shown' \in [Tabs -> BOOLEAN] /\ channel' \in [Tabs -> Seq({"login", "logout"})]
      BY <2>4, ShowTyped, TellTyped DEF SessionInv
    <3>2. jar' \in [access : BOOLEAN, refresh : Token] /\ jar'.refresh \in 0 .. now
      BY <1>3, <2>4 DEF Cookies
    <3> QED
      BY <1>1, <1>2, <1>3, <2>1, <3>1, <3>2, FinishStep
  <2>5. CASE jar' = NoCookies /\ Show(c[1], FALSE) /\ Tell(c[1], "logout")
    <3>1. shown' \in [Tabs -> BOOLEAN] /\ channel' \in [Tabs -> Seq({"login", "logout"})]
      BY <2>5, ShowTyped, TellTyped DEF SessionInv
    <3>2. jar' \in [access : BOOLEAN, refresh : Token] /\ jar'.refresh \in 0 .. now
      BY <1>3, <2>5 DEF NoCookies
    <3> QED
      BY <1>1, <1>2, <1>3, <2>1, <3>1, <3>2, FinishStep
  <2> QED
    BY <1>4, <2>2, <2>3, <2>4, <2>5 DEF ReceiveOk
<1>5. CASE JoinRefresh(c)
  BY <1>1, <1>5, JoinStep
<1>6. CASE ReceiveFinalDenial(c)
  <2>1. Finished(c) /\ UNCHANGED jar /\ UNCHANGED channel
    BY <1>6 DEF ReceiveFinalDenial
  <2>2. shown' \in [Tabs -> BOOLEAN]
    BY <1>6, ShowTyped, Untouched DEF ReceiveFinalDenial, SessionInv
  <2> QED
    BY <1>1, <1>2, <1>3, <2>1, <2>2, Untouched, FinishStep
<1> QED
  BY <1>4, <1>5, <1>6 DEF Receive

LEMMA LostStep ==
    ASSUME SessionInv, NEW c \in AllSlots, Lost(c)
    PROVE  SessionInv'
<1> c[1] \in Tabs
  BY SlotTab
<1>1. /\ req[c].pc \in {"sent", "answered"} /\ Finished(c) /\ excused' = TRUE
      /\ UNCHANGED <<now, consumed, stray, reissued>> /\ UNCHANGED jar
  BY DEF Lost
<1>2. \/ Show(c[1], FALSE) /\ Tell(c[1], "logout")
      \/ UNCHANGED shown /\ UNCHANGED channel
  BY DEF Lost
<1>3. shown' \in [Tabs -> BOOLEAN] /\ channel' \in [Tabs -> Seq({"login", "logout"})]
  BY <1>2, ShowTyped, TellTyped, Untouched DEF SessionInv
<1>4. excused' \in BOOLEAN
  BY <1>1
<1> QED
  BY <1>1, <1>3, <1>4, Untouched, FinishStep

\* The head of the queue goes on: its record has a known token, and what is consumed is known.
LEMMA ProgressStep ==
    ASSUME SessionInv, NEW t \in Tabs, refresh[t] # None, t = Head(locks),
           NEW f \in Refreshing, f.pc \in {"sent", "answered"}, f.token \in 0 .. now,
           Progress(t, f), consumed' \subseteq 1 .. now,
           reissued' \in BOOLEAN, excused' \in BOOLEAN,
           UNCHANGED <<now, jar, shown, req, locks, channel, stray>>
    PROVE  SessionInv'
<1>1. UNCHANGED <<req, locks>>
  OBVIOUS
<1>2. QueueInv' /\ WaitInv'
  BY <1>1, ProgressAlone DEF SessionInv
<1>3. refresh'[t] = f /\ \A o \in Tabs : o # t => refresh'[o] = refresh[o]
  BY DEF SessionInv, Typed, Progress
<1>4. refresh' \in [Tabs -> Refreshing]
  BY DEF SessionInv, Typed, Progress
<1>5. Typed'
  BY <1>4 DEF SessionInv, Typed
<1>6. TokensKnown'
  BY <1>3 DEF SessionInv, TokensKnown
<1> QED
  BY <1>2, <1>5, <1>6 DEF SessionInv

LEMMA GrantStep ==
    ASSUME SessionInv, NEW t \in Tabs, Grant(t)
    PROVE  SessionInv'
<1> DEFINE f == [pc |-> "sent", token |-> jar.refresh]
<1>1. /\ refresh[t].pc = "queued" /\ t = Head(locks) /\ Progress(t, f)
      /\ UNCHANGED <<now, jar, shown, req, locks, channel, stray>>
      /\ UNCHANGED <<consumed, reissued, excused>>
  BY DEF Grant, HoldsLock, history
<1>2. refresh[t] # None
  BY <1>1, RefreshingRecords
<1>3. f \in Refreshing /\ f.pc \in {"sent", "answered"} /\ f.token \in 0 .. now
  BY RefreshingRecords DEF SessionInv, Typed, TokensKnown
<1>4. consumed' \subseteq 1 .. now
  BY <1>1 DEF SessionInv, Typed
<1>5. reissued' \in BOOLEAN /\ excused' \in BOOLEAN
  BY <1>1 DEF SessionInv, Typed
<1> HIDE DEF f
<1> QED
  BY <1>1, <1>2, <1>3, <1>4, <1>5, ProgressStep

LEMMA ServeRefreshStep ==
    ASSUME SessionInv, NEW t \in Tabs, ServeRefresh(t)
    PROVE  SessionInv'
<1> DEFINE token == refresh[t].token
<1>1. /\ refresh[t].pc = "sent"
      /\ UNCHANGED <<now, jar, shown, req, locks, channel, stray>>
  BY DEF ServeRefresh
<1>2. refresh[t] # None /\ t = Head(locks)
  BY <1>1, RefreshingRecords DEF SessionInv, QueueInv
<1>3. token \in 0 .. now /\ now \in Token /\ 0 \in Token /\ now \in 0 .. now /\ 0 \in 0 .. now
  BY <1>1, BoundsAssumption DEF SessionInv, Typed, TokensKnown, Token
<1>4. PICK result \in {"ok", "expired", "server-error"}, signed \in {0, now} :
         Result(t, result, signed)
  BY DEF ServeRefresh
<1>5. consumed' \subseteq 1 .. now
  <2>1. consumed' \subseteq consumed \union ({token} \ {0})
    BY DEF ServeRefresh, Unused
  <2> QED
    BY <1>3, <2>1 DEF SessionInv, Typed
<1>6. reissued' \in BOOLEAN
  BY DEF ServeRefresh, Sign, SessionInv, Typed
<1>7. excused' \in BOOLEAN
  BY DEF ServeRefresh, SessionInv, Typed
<1> DEFINE f == [pc |-> "answered", result |-> result, token |-> signed]
<1>8. f \in Refreshing /\ f.pc \in {"sent", "answered"} /\ f.token \in 0 .. now
  BY <1>3, RefreshingRecords
<1>9. Progress(t, f)
  BY <1>4 DEF Result
<1> HIDE DEF f
<1> QED
  BY <1>1, <1>2, <1>5, <1>6, <1>7, <1>8, <1>9, ProgressStep

\* The refresh of a tab is over, and each of its callers goes on or gets an error.
LEMMA ResolveStep ==
    ASSUME SessionInv, NEW t \in Tabs, refresh[t].pc \in {"sent", "answered"}, Resolve(t),
           req' \in [AllSlots -> Request],
           \A c \in AllSlots : IF c \in Waiting(t) THEN req'[c].pc \in {"idle", "sent"}
                               ELSE req'[c] = req[c],
           jar' \in [access : BOOLEAN, refresh : Token], jar'.refresh \in 0 .. now,
           shown' \in [Tabs -> BOOLEAN], stray' \subseteq 1 .. now, excused' \in BOOLEAN,
           UNCHANGED <<now, channel, consumed, reissued>>
    PROVE  SessionInv'
<1>1. \A c \in AllSlots : req'[c].pc = "waiting" <=> req[c].pc = "waiting" /\ c[1] # t
  BY DEF Waiting
<1>2. QueueInv' /\ WaitInv'
  BY <1>1, ResolveAlone DEF SessionInv
<1>3. refresh'[t] = None /\ \A o \in Tabs : o # t => refresh'[o] = refresh[o]
  BY DEF Resolve, Progress, SessionInv, Typed
<1>4. refresh' \in [Tabs -> Refreshing]
  BY RefreshingRecords DEF Resolve, Progress, SessionInv, Typed
<1>5. Typed'
  BY <1>4 DEF SessionInv, Typed
<1>6. \A c \in AllSlots : req'[c].pc = "answered" => req'[c] = req[c]
  OBVIOUS
<1>7. TokensKnown'
  BY <1>3, <1>6, RefreshingRecords DEF SessionInv, TokensKnown
<1> QED
  BY <1>2, <1>5, <1>7 DEF SessionInv

LEMMA GiveUpRequests ==
    ASSUME SessionInv, NEW t \in Tabs, NEW gone, GiveUp(t, gone)
    PROVE  /\ req' \in [AllSlots -> Request]
           /\ \A c \in AllSlots : IF c \in Waiting(t) THEN req'[c].pc \in {"idle", "sent"}
                                  ELSE req'[c] = req[c]
           /\ shown' \in [Tabs -> BOOLEAN]
           /\ UNCHANGED jar
<1>1. req' = [c \in AllSlots |-> IF c \in Waiting(t) THEN Idle ELSE req[c]] /\ UNCHANGED jar
  BY DEF GiveUp
<1>2. Show(t, FALSE) \/ UNCHANGED shown
  BY DEF GiveUp
<1>3. shown' \in [Tabs -> BOOLEAN]
  BY <1>2, ShowTyped, Untouched DEF SessionInv
<1>4. \A c \in AllSlots : req'[c] = IF c \in Waiting(t) THEN Idle ELSE req[c]
  BY <1>1
<1> QED
  BY <1>1, <1>3, <1>4, IdleRequest DEF SessionInv, Typed

LEMMA ReceiveRefreshStep ==
    ASSUME SessionInv, NEW t \in Tabs, ReceiveRefresh(t)
    PROVE  SessionInv'
<1>1. /\ refresh[t].pc = "answered" /\ Resolve(t)
      /\ UNCHANGED <<now, channel, consumed, reissued>> /\ UNCHANGED stray /\ UNCHANGED excused
  BY DEF ReceiveRefresh, history
<1>2. excused' \in BOOLEAN
  BY <1>1, Untouched
<1>3. stray' \subseteq 1 .. now
  BY <1>1 DEF SessionInv, Typed
<1>4. refresh[t].token \in Token /\ refresh[t].token \in 0 .. now
  BY <1>1, NoneRefreshing DEF SessionInv, Typed, TokensKnown
<1>5. CASE /\ jar' = Cookies(refresh[t].token)
           /\ req' = [c \in AllSlots |-> IF c \in Waiting(t) THEN Sent(req[c].kind, TRUE, TRUE)
                                         ELSE req[c]]
           /\ UNCHANGED shown
  <2>1. \A c \in Waiting(t) : c \in AllSlots /\ req[c].kind \in Kinds
    BY WaitingFields DEF SessionInv, Typed, Waiting
  <2>2. \A c \in Waiting(t) : /\ Sent(req[c].kind, TRUE, TRUE) \in Request
                              /\ Sent(req[c].kind, TRUE, TRUE).pc = "sent"
    BY <2>1, SentRequest
  <2>3. \A c \in AllSlots :
           req'[c] = IF c \in Waiting(t) THEN Sent(req[c].kind, TRUE, TRUE) ELSE req[c]
    BY <1>5
  <2>4. req' \in [AllSlots -> Request]
    BY <1>5, <2>2 DEF SessionInv, Typed
  <2>5. jar' \in [access : BOOLEAN, refresh : Token] /\ jar'.refresh \in 0 .. now
    BY <1>4, <1>5 DEF Cookies
  <2>6. shown' \in [Tabs -> BOOLEAN]
    BY <1>5, Untouched
  <2>7. \A c \in AllSlots : IF c \in Waiting(t) THEN req'[c].pc \in {"idle", "sent"}
                            ELSE req'[c] = req[c]
    BY <2>2, <2>3
  <2> QED
    BY <1>1, <1>2, <1>3, <2>4, <2>5, <2>6, <2>7, ResolveStep
<1>6. ASSUME NEW gone \in BOOLEAN, GiveUp(t, gone) PROVE SessionInv'
  BY <1>1, <1>2, <1>3, <1>6, GiveUpRequests, Untouched, ResolveStep
<1> QED
  BY <1>5, <1>6 DEF ReceiveRefresh

LEMMA RefreshLostStep ==
    ASSUME SessionInv, NEW t \in Tabs, RefreshLost(t)
    PROVE  SessionInv'
<1>1. /\ refresh[t].pc \in {"sent", "answered"} /\ Resolve(t) /\ GiveUp(t, FALSE)
      /\ UNCHANGED <<now, channel, consumed, reissued>> /\ excused' = TRUE
  BY DEF RefreshLost, Abortable
<1>2. refresh[t].token \in 0 .. now
  BY <1>1 DEF SessionInv, TokensKnown
<1>3. stray' \subseteq 1 .. now
  <2>1. stray' \subseteq stray \union ({refresh[t].token} \ {0})
    BY DEF RefreshLost
  <2> QED
    BY <1>2, <2>1 DEF SessionInv, Typed
<1>4. excused' \in BOOLEAN
  BY <1>1
<1> QED
  BY <1>1, <1>3, <1>4, GiveUpRequests, Untouched, ResolveStep

LEMMA ServeStrayStep ==
    ASSUME SessionInv, NEW token \in stray, ServeStray(token)
    PROVE  SessionInv'
<1>1. /\ stray' = stray \ {token} /\ consumed' = consumed \union {token}
      /\ UNCHANGED <<now, jar, shown, req, refresh, locks, channel, reissued, excused>>
  BY DEF ServeStray, history
<1>2. Typed'
  BY <1>1 DEF SessionInv, Typed
<1>3. TokensKnown'
  BY <1>1 DEF SessionInv, TokensKnown
<1>4. QueueInv' /\ WaitInv'
  BY <1>1, QueueAlone DEF SessionInv
<1> QED
  BY <1>2, <1>3, <1>4 DEF SessionInv

LEMMA DeliverStep ==
    ASSUME SessionInv, NEW t \in Tabs, Deliver(t)
    PROVE  SessionInv'
<1>1. /\ channel[t] # <<>> /\ channel' = [channel EXCEPT ![t] = Tail(channel[t])]
      /\ UNCHANGED <<now, jar, refresh, locks, consumed, stray, reissued>> /\ UNCHANGED excused
  BY DEF Deliver, history
<1>2. channel' \in [Tabs -> Seq({"login", "logout"})]
  <2>1. Tail(channel[t]) \in Seq({"login", "logout"})
    BY <1>1, HeadTailProperties DEF SessionInv, Typed
  <2> QED
    BY <1>1, <2>1 DEF SessionInv, Typed
<1>3. excused' \in BOOLEAN
  BY <1>1, Untouched
<1>4. \/ Show(t, FALSE) /\ UNCHANGED req
      \/ Free(t, "me") /\ Start(t, "me", "me") /\ UNCHANGED shown
      \/ UNCHANGED req /\ UNCHANGED shown
  BY DEF Deliver
<1>5. shown' \in [Tabs -> BOOLEAN]
  BY <1>4, ShowTyped, Untouched DEF SessionInv
<1> DEFINE c == <<t, "me">>
<1>6. \/ UNCHANGED req
      \/ /\ c \in AllSlots /\ req[c] = Idle
         /\ \E r \in Request : req' = [req EXCEPT ![c] = r] /\ r.pc = "sent"
  <2>1. "me" \in Kinds /\ jar.access \in BOOLEAN /\ FALSE \in BOOLEAN
    BY DEF SessionInv, Typed, Kinds
  <2>2. /\ Sent("me", jar.access, FALSE) \in Request
        /\ Sent("me", jar.access, FALSE).pc = "sent"
    BY <2>1, SentRequest
  <2> QED
    BY <1>4, <2>2 DEF Free, Start
<1>7. /\ req' \in [AllSlots -> Request]
      /\ \A d \in AllSlots : /\ req'[d].pc = "waiting" <=> req[d].pc = "waiting"
                             /\ req'[d].pc = "answered" => req'[d] = req[d]
  <2>1. CASE UNCHANGED req
    BY <2>1 DEF SessionInv, Typed
  <2>2. CASE /\ c \in AllSlots /\ req[c] = Idle
             /\ \E r \in Request : req' = [req EXCEPT ![c] = r] /\ r.pc = "sent"
    <3>1. PICK r \in Request : req' = [req EXCEPT ![c] = r] /\ r.pc = "sent"
      BY <2>2
    <3>2. req'[c] = r /\ \A d \in AllSlots : d # c => req'[d] = req[d]
      BY <2>2, <3>1 DEF SessionInv, Typed
    <3>3. req' \in [AllSlots -> Request]
      BY <3>1 DEF SessionInv, Typed
    <3> QED
      BY <2>2, <3>1, <3>2, <3>3, IdleRequest
  <2> QED
    BY <1>6, <2>1, <2>2
<1>8. Typed'
  BY <1>1, <1>2, <1>3, <1>5, <1>7 DEF SessionInv, Typed
<1>9. TokensKnown'
  BY <1>1, <1>7 DEF SessionInv, TokensKnown
<1>10. QueueInv' /\ WaitInv'
  BY <1>1, <1>7, QueueAlone DEF SessionInv
<1> QED
  BY <1>8, <1>9, <1>10 DEF SessionInv

LEMMA TickStep ==
    ASSUME SessionInv, Tick
    PROVE  SessionInv'
<1>1. /\ now < MaxTime /\ now' = now + 1
      /\ jar' \in {jar, [jar EXCEPT !.access = FALSE]}
      /\ UNCHANGED <<shown, req, refresh, locks, channel, consumed, stray, reissued, excused>>
  BY DEF Tick, history
<1>2. jar' \in [access : BOOLEAN, refresh : Token] /\ jar'.refresh = jar.refresh
  BY <1>1 DEF SessionInv, Typed
<1>3. now' \in 1 .. MaxTime /\ now \in Nat
  BY <1>1, BoundsAssumption DEF SessionInv, Typed
<1>4. Typed'
  BY <1>1, <1>2, <1>3 DEF SessionInv, Typed
<1>5. \A n \in 0 .. now : n \in 0 .. now'
  BY <1>1, <1>3
<1>6. TokensKnown'
  BY <1>1, <1>2, <1>5 DEF SessionInv, TokensKnown
<1>7. QueueInv' /\ WaitInv'
  BY <1>1, QueueAlone DEF SessionInv
<1> QED
  BY <1>4, <1>6, <1>7 DEF SessionInv

LEMMA SessionInductive ==
    ASSUME SessionInv, [Next]_vars
    PROVE  SessionInv'
<1>1. CASE UNCHANGED vars
  <2>1. /\ UNCHANGED <<now, jar, shown, req, refresh, locks, channel>>
        /\ UNCHANGED <<consumed, stray, reissued, excused>>
    BY <1>1 DEF vars, history
  <2> QED
    BY <2>1 DEF SessionInv, Typed, TokensKnown, QueueInv, WaitInv, Waiting
<1> QED
  BY <1>1, RefreshUserStep, CallStep, ServeStep, ReceiveStep, LostStep, GrantStep,
     ServeRefreshStep, ReceiveRefreshStep, RefreshLostStep, ServeStrayStep, DeliverStep,
     TickStep DEF Next, User, Network

LEMMA SessionInitially == Init => SessionInv
<1> SUFFICES ASSUME Init PROVE SessionInv
  OBVIOUS
<1>1. reissued \in BOOLEAN /\ excused \in BOOLEAN
  BY DEF Init
<1>2. /\ jar \in [access : BOOLEAN, refresh : Token] /\ jar.refresh \in 0 .. now
      /\ now \in 1 .. MaxTime
  BY BoundsAssumption DEF Init, Cookies, Token
<1>3. /\ req \in [AllSlots -> Request] /\ refresh \in [Tabs -> Refreshing]
      /\ \A c \in AllSlots : req[c].pc = "idle"
      /\ \A t \in Tabs : refresh[t] = None /\ refresh[t].pc = "none"
  BY IdleRequest, RefreshingRecords DEF Init
<1>4. Typed
  BY <1>1, <1>2, <1>3, EmptySeq DEF Init, Typed
<1>5. TokensKnown
  BY <1>2, <1>3 DEF TokensKnown
<1>6. QueueInv
  <2>1. locks \in Seq(Tabs) /\ Len(locks) = 0
    BY EmptySeq DEF Init
  <2> QED
    BY <1>3, <2>1 DEF QueueInv
<1>7. WaitInv
  BY <1>3 DEF WaitInv, Waiting
<1> QED
  BY <1>4, <1>5, <1>6, <1>7 DEF SessionInv

\* The queue of the lock, the refreshes and the callers that wait for them fit together.
THEOREM SessionCorrect == Spec => []SessionInv
BY SessionInitially, SessionInductive, PTL DEF Spec

\* The browser and the server keep their types; the tabs in the queue are those that refresh,
\* the first alone has a request under way, and whoever waits has a refresh to wait for.
THEOREM SessionTypeCorrect == Spec => []TypeOK
BY SessionCorrect, TypeOKFollows, PTL
-----------------------------------------------------------------------------
(* The tabs never race each other *)

\* Nobody asked to log out, no answer was lost, the server did not fail, and no pair was
\* issued whose refresh token was consumed already.
Undisturbed == ~excused /\ ~reissued

CalmRequest(r) ==
    /\ r.pc # "idle" => r.kind \in {"me", "query"}
    /\ r.pc = "sent" /\ r.again => r.valid
    /\ r.pc = "answered" /\ r.again => r.status = "ok"

CalmRefresh(f) ==
    /\ f.pc = "sent" => f.token = jar.refresh
    /\ f.pc = "answered" => f.result = "ok" /\ Unused(f.token)

CalmState ==
    /\ \A t \in Tabs : shown[t] /\ channel[t] = <<>>
    /\ stray = {}
    /\ \A c \in AllSlots : CalmRequest(req[c])
    /\ \A t \in Tabs : CalmRefresh(refresh[t])
    /\ (\A t \in Tabs : refresh[t].pc # "answered") => Unused(jar.refresh)

\* The cookie in the jar, or the one that an answer brings, is the only token in the browser,
\* and it is not on the blocklist.
Calm == Undisturbed => CalmState

LEMMA SignGrows == Sign \/ UNCHANGED reissued => (reissued => reissued')
<1>1. Sign => (reissued => reissued')
  BY Zenon DEF Sign
<1>2. UNCHANGED reissued => (reissued => reissued')
  OBVIOUS
<1> QED
  BY <1>1, <1>2

LEMMA UndisturbedBefore ==
    ASSUME [Next]_vars, Undisturbed'
    PROVE  Undisturbed
<1>1. ASSUME NEW t \in Tabs, User(t) PROVE Undisturbed
  <2>1. CASE RefreshUser(t)
    BY <2>1 DEF RefreshUser, history, Undisturbed
  <2>2. ASSUME NEW kind \in {"query", "login", "logout"}, Call(t, kind) PROVE Undisturbed
    BY <2>2, Zenon DEF Call, Undisturbed
  <2> QED
    BY <1>1, <2>1, <2>2 DEF User
<1>2. ASSUME NEW c \in AllSlots, Serve(c) \/ Receive(c) \/ Lost(c) PROVE Undisturbed
  <2>1. CASE Serve(c)
    <3>1. excused' = excused /\ (Sign \/ UNCHANGED reissued)
      BY <2>1 DEF Serve
    <3> QED
      BY <3>1, SignGrows DEF Undisturbed
  <2>2. CASE Receive(c)
    BY <2>2 DEF Receive, history, Undisturbed
  <2>3. CASE Lost(c)
    BY <2>3 DEF Lost, Undisturbed
  <2> QED
    BY <1>2, <2>1, <2>2, <2>3
<1>3. ASSUME NEW t \in Tabs, ServeRefresh(t) PROVE Undisturbed
  <2>1. (excused' = excused \/ excused' = TRUE) /\ (Sign \/ UNCHANGED reissued)
    BY <1>3 DEF ServeRefresh
  <2> QED
    BY <2>1, SignGrows DEF Undisturbed
<1>4. ASSUME NEW t \in Tabs, RefreshLost(t) PROVE Undisturbed
  BY <1>4 DEF RefreshLost, Undisturbed
<1>5. ASSUME UNCHANGED <<reissued, excused>> PROVE Undisturbed
  BY <1>5 DEF Undisturbed
<1> QED
  BY <1>1, <1>2, <1>3, <1>4, <1>5
  DEF vars, history, Next, Network, Grant, ReceiveRefresh, Deliver, ServeStray, Tick

LEMMA SentCalm == \A kind \in {"me", "query"}, valid \in BOOLEAN :
                     CalmRequest(Sent(kind, valid, FALSE)) /\ CalmRequest(Sent(kind, TRUE, TRUE))
BY DEF CalmRequest, Sent

\* A step that leaves the tokens alone and gives one call a calm record.
LEMMA CalmOne ==
    ASSUME Typed, CalmState, NEW c \in AllSlots, NEW r \in Request, CalmRequest(r),
           req' = [req EXCEPT ![c] = r],
           \A t \in Tabs : shown'[t] /\ channel'[t] = <<>>,
           \A t \in Tabs : \/ refresh'[t] = refresh[t]
                           \/ /\ refresh[t].pc \notin {"sent", "answered"}
                              /\ refresh'[t].pc = "queued",
           UNCHANGED <<jar, stray, consumed>>
    PROVE  CalmState'
<1>1. \A d \in AllSlots : CalmRequest(req[d])'
  BY DEF Typed, CalmState, CalmRequest
<1>2. \A t \in Tabs : CalmRefresh(refresh[t])'
  BY DEF CalmState, CalmRefresh, Unused
<1>3. (\A t \in Tabs : refresh'[t].pc # "answered") => \A t \in Tabs : refresh[t].pc # "answered"
  OBVIOUS
<1>4. (\A t \in Tabs : refresh'[t].pc # "answered") => Unused(jar.refresh)'
  BY <1>3 DEF CalmState, Unused
<1> QED
  BY <1>1, <1>2, <1>4 DEF CalmState

LEMMA CalmSend ==
    ASSUME SessionInv, CalmState, Undisturbed', NEW t \in Tabs,
           RefreshUser(t) \/ \E kind \in {"query", "login", "logout"} : Call(t, kind)
    PROVE  CalmState'
<1>1. PICK c \in AllSlots, kind \in {"me", "query"} :
         req' = [req EXCEPT ![c] = Sent(kind, jar.access, FALSE)]
  <2>1. ~excused' /\ shown[t]
    BY DEF Undisturbed, CalmState
  <2> QED
    BY <2>1 DEF RefreshUser, Call, Free, Start
<1>2. UNCHANGED <<jar, shown, channel, refresh, stray, consumed>>
  BY DEF RefreshUser, Call
<1>3. jar.access \in BOOLEAN /\ kind \in Kinds /\ FALSE \in BOOLEAN
  BY DEF SessionInv, Typed, Kinds
<1>4. PICK r \in Request : req' = [req EXCEPT ![c] = r] /\ CalmRequest(r)
  BY <1>1, <1>3, SentRequest, SentCalm
<1>5. \A o \in Tabs : shown'[o] /\ channel'[o] = <<>>
  BY <1>2 DEF CalmState
<1> QED
  BY <1>2, <1>4, <1>5, CalmOne DEF SessionInv

LEMMA CalmServe ==
    ASSUME SessionInv, CalmState, NEW c \in AllSlots, Serve(c)
    PROVE  CalmState'
<1>1. /\ req[c].pc = "sent" /\ req[c] \in Request
      /\ UNCHANGED <<jar, shown, channel, refresh, stray, consumed>>
  BY DEF Serve, SessionInv, Typed
<1>2. /\ req[c].kind \in {"me", "query"} /\ req[c].valid \in BOOLEAN /\ req[c].again \in BOOLEAN
      /\ req[c].kind \in Kinds
      /\ req[c].again => req[c].valid
  BY <1>1, SentFields DEF CalmState, CalmRequest, Kinds
<1>3. Answer(c, IF req[c].valid THEN "ok" ELSE "denied", 0)
  BY <1>2 DEF Serve
<1>4. PICK status \in {"ok", "denied"} : Answer(c, status, 0) /\ (req[c].again => status = "ok")
  BY <1>2, <1>3
<1> DEFINE r == [pc |-> "answered", kind |-> req[c].kind, again |-> req[c].again,
                 status |-> status, token |-> 0]
<1>5. req' = [req EXCEPT ![c] = r]
  BY <1>4 DEF Answer
<1>6. r \in Request
  BY <1>2, BoundsAssumption DEF Request, Token
<1>7. CalmRequest(r)
  BY <1>2, <1>4 DEF CalmRequest
<1> HIDE DEF r
<1>8. \A o \in Tabs : shown'[o] /\ channel'[o] = <<>>
  BY <1>1 DEF CalmState
<1> QED
  BY <1>1, <1>5, <1>6, <1>7, <1>8, CalmOne DEF SessionInv

LEMMA CalmReceive ==
    ASSUME SessionInv, CalmState, NEW c \in AllSlots, Receive(c)
    PROVE  CalmState'
<1> c[1] \in Tabs
  BY SlotTab
<1>1. /\ req[c].pc = "answered" /\ UNCHANGED <<stray, consumed>>
      /\ req[c] \in Request
  BY DEF Receive, SessionInv, Typed
<1>2. req[c].kind \in {"me", "query"} /\ (req[c].again => req[c].status = "ok")
  BY <1>1 DEF CalmState, CalmRequest
<1>3. CASE ReceiveOk(c)
  <2>1. UNCHANGED jar /\ UNCHANGED channel /\ (Show(c[1], TRUE) \/ UNCHANGED shown)
    BY <1>2, <1>3 DEF ReceiveOk
  <2>2. \A o \in Tabs : shown'[o]
    BY <2>1 DEF Show, SessionInv, Typed, CalmState
  <2>3. \A o \in Tabs : shown'[o] /\ channel'[o] = <<>>
    BY <2>1, <2>2 DEF CalmState
  <2>4. /\ req' = [req EXCEPT ![c] = Idle] /\ UNCHANGED refresh
        /\ CalmRequest(Idle) /\ Idle \in Request
    BY <1>3, IdleRequest DEF ReceiveOk, Finished, CalmRequest
  <2> QED
    BY <1>1, <2>1, <2>3, <2>4, CalmOne DEF SessionInv
<1>4. CASE JoinRefresh(c)
  <2> DEFINE r == [pc |-> "waiting", kind |-> req[c].kind]
  <2>1. req' = [req EXCEPT ![c] = r] /\ UNCHANGED <<jar, shown, channel>>
    BY <1>4 DEF JoinRefresh
  <2>2. r \in Request /\ CalmRequest(r)
    BY <1>2 DEF Request, CalmRequest, Kinds
  <2>3. \/ UNCHANGED refresh
        \/ refresh[c[1]] = None /\ refresh' = [refresh EXCEPT ![c[1]] = [pc |-> "queued"]]
    BY <1>4 DEF JoinRefresh
  <2>4. \A o \in Tabs : \/ refresh'[o] = refresh[o]
                        \/ refresh[o].pc \notin {"sent", "answered"} /\ refresh'[o].pc = "queued"
    BY <2>3, RefreshingRecords DEF SessionInv, Typed
  <2>5. \A o \in Tabs : shown'[o] /\ channel'[o] = <<>>
    BY <2>1 DEF CalmState
  <2> HIDE DEF r
  <2> QED
    BY <1>1, <2>1, <2>2, <2>4, <2>5, CalmOne DEF SessionInv
<1> QED
  BY <1>2, <1>3, <1>4 DEF Receive

LEMMA CalmGrant ==
    ASSUME SessionInv, CalmState, NEW t \in Tabs, Grant(t)
    PROVE  CalmState'
<1>1. /\ refresh[t].pc = "queued"
      /\ refresh' = [refresh EXCEPT ![t] = [pc |-> "sent", token |-> jar.refresh]]
      /\ UNCHANGED <<jar, shown, req, channel, consumed, stray>>
  BY DEF Grant, Progress
<1>2. /\ refresh'[t] = [pc |-> "sent", token |-> jar.refresh]
      /\ \A o \in Tabs : o # t => refresh'[o] = refresh[o]
  BY <1>1 DEF SessionInv, Typed
<1>3. \A o \in Tabs : CalmRefresh(refresh[o])'
  BY <1>1, <1>2 DEF CalmState, CalmRefresh, Unused
<1>4. \A o \in Tabs : refresh'[o].pc # "answered" => refresh[o].pc # "answered"
  BY <1>1, <1>2
<1>5. \A c \in AllSlots : CalmRequest(req[c])'
  BY <1>1 DEF CalmState, CalmRequest
<1>6. (\A o \in Tabs : refresh'[o].pc # "answered") => Unused(jar.refresh)'
  BY <1>1, <1>4 DEF CalmState, Unused
<1> QED
  BY <1>1, <1>3, <1>5, <1>6 DEF CalmState

\* The request of the head is the only one, and its token is the unused one of the jar.
LEMMA CalmServeRefresh ==
    ASSUME SessionInv, CalmState, Undisturbed', NEW t \in Tabs, ServeRefresh(t)
    PROVE  CalmState'
<1> DEFINE token == refresh[t].token
<1>1. /\ refresh[t].pc = "sent"
      /\ UNCHANGED <<now, jar, shown, req, channel, stray>>
  BY DEF ServeRefresh
<1>2. \A o \in Tabs : o # t => refresh[o].pc \notin {"sent", "answered"}
  BY <1>1 DEF SessionInv, QueueInv
<1>3. token = jar.refresh /\ Unused(token)
  BY <1>1, <1>2 DEF CalmState, CalmRefresh
<1>4. consumed' = consumed \union {token} /\ Result(t, "ok", now) /\ Sign
  BY <1>3 DEF ServeRefresh, Undisturbed
<1>9. now \notin consumed'
  BY <1>4, Zenon DEF Sign, Undisturbed
<1>5. now \notin consumed' /\ now # 0
  BY <1>9 DEF SessionInv, Typed
<1>6. /\ refresh'[t] = [pc |-> "answered", result |-> "ok", token |-> now]
      /\ \A o \in Tabs : o # t => refresh'[o] = refresh[o]
  BY <1>4 DEF Result, Progress, SessionInv, Typed
<1>7. \A o \in Tabs : CalmRefresh(refresh[o])'
  <2> SUFFICES ASSUME NEW o \in Tabs PROVE CalmRefresh(refresh[o])'
    OBVIOUS
  <2>1. CASE o = t
    BY <1>5, <1>6, <2>1 DEF CalmRefresh, Unused
  <2>2. CASE o # t
    BY <1>2, <1>6, <2>2 DEF CalmRefresh
  <2> QED
    BY <2>1, <2>2
<1>8. \A c \in AllSlots : CalmRequest(req[c])'
  BY <1>1 DEF CalmState, CalmRequest
<1> QED
  BY <1>1, <1>6, <1>7, <1>8 DEF CalmState

LEMMA CalmReceiveRefresh ==
    ASSUME SessionInv, CalmState, NEW t \in Tabs, ReceiveRefresh(t)
    PROVE  CalmState'
<1>1. /\ refresh[t].pc = "answered" /\ Resolve(t)
      /\ UNCHANGED <<channel, consumed, stray>>
  BY DEF ReceiveRefresh
<1>2. refresh[t].result = "ok" /\ Unused(refresh[t].token)
  BY <1>1 DEF CalmState, CalmRefresh
<1>3. /\ jar' = Cookies(refresh[t].token)
      /\ req' = [c \in AllSlots |-> IF c \in Waiting(t) THEN Sent(req[c].kind, TRUE, TRUE)
                                    ELSE req[c]]
      /\ UNCHANGED shown
  BY <1>2 DEF ReceiveRefresh
<1>4. refresh'[t] = None /\ \A o \in Tabs : o # t => refresh'[o] = refresh[o]
  BY <1>1 DEF Resolve, Progress, SessionInv, Typed
<1>5. \A o \in Tabs : refresh'[o].pc \notin {"sent", "answered"}
  BY <1>1, <1>4, RefreshingRecords DEF SessionInv, QueueInv
<1>6. \A c \in AllSlots : CalmRequest(req[c])'
  <2> SUFFICES ASSUME NEW c \in AllSlots PROVE CalmRequest(req'[c])
    BY DEF CalmRequest
  <2>1. CASE c \in Waiting(t)
    <3>1. req[c].kind \in {"me", "query"} /\ req'[c] = Sent(req[c].kind, TRUE, TRUE)
      BY <1>3, <2>1 DEF Waiting, CalmState, CalmRequest
    <3> QED
      BY <3>1, SentCalm
  <2>2. CASE c \notin Waiting(t)
    BY <1>3, <2>2 DEF CalmState
  <2> QED
    BY <2>1, <2>2
<1>7. \A o \in Tabs : CalmRefresh(refresh[o])'
  BY <1>5 DEF CalmRefresh
<1>8. Unused(jar.refresh)'
  BY <1>1, <1>2, <1>3 DEF Unused, Cookies
<1> QED
  BY <1>1, <1>3, <1>6, <1>7, <1>8 DEF CalmState

LEMMA CalmInductive ==
    ASSUME SessionInv, Calm, [Next]_vars
    PROVE  Calm'
<1> SUFFICES ASSUME Undisturbed' PROVE CalmState'
  BY DEF Calm
<1>1. CalmState
  BY UndisturbedBefore DEF Calm
<1>2. ASSUME NEW c \in AllSlots, Lost(c) PROVE FALSE
  BY <1>2 DEF Lost, Undisturbed
<1>3. ASSUME NEW t \in Tabs, RefreshLost(t) PROVE FALSE
  BY <1>3 DEF RefreshLost, Undisturbed
<1>4. ASSUME NEW t \in Tabs, Deliver(t) PROVE FALSE
  BY <1>1, <1>4 DEF Deliver, CalmState
<1>5. ASSUME NEW token \in stray PROVE FALSE
  BY <1>1, <1>5 DEF CalmState
<1>6. CASE Tick
  <2>1. jar'.refresh = jar.refresh /\ UNCHANGED <<shown, req, refresh, channel, consumed, stray>>
    BY <1>6 DEF Tick, SessionInv, Typed
  <2> QED
    BY <1>1, <2>1 DEF CalmState, CalmRequest, CalmRefresh, Unused
<1>7. CASE UNCHANGED vars
  BY <1>1, <1>7 DEF vars, CalmState, CalmRequest, CalmRefresh, Unused
<1> QED
  BY <1>1, <1>2, <1>3, <1>4, <1>5, <1>6, <1>7, CalmSend, CalmServe, CalmReceive, CalmGrant,
     CalmServeRefresh, CalmReceiveRefresh DEF Next, User, Network

LEMMA CalmInitially == Init => Calm
<1> SUFFICES ASSUME Init PROVE CalmState
  BY DEF Calm
<1>1. \A c \in AllSlots : req[c].pc = "idle"
  BY IdleRequest DEF Init
<1>2. \A t \in Tabs : refresh[t].pc = "none"
  BY RefreshingRecords DEF Init
<1> QED
  BY <1>1, <1>2 DEF Init, CalmState, CalmRequest, CalmRefresh, Unused, Cookies

\* Until something excuses a logout there is one refresh token in the browser, and nobody has
\* consumed it.
THEOREM CalmCorrect == Spec => [](SessionInv /\ Calm)
BY SessionCorrect, CalmInitially, CalmInductive, PTL DEF Spec

\* For any number of tabs and calls: a user who did not log out is sent to the login page only
\* after a lost answer, a server failure or a pair reissued in the second of its consumption.
THEOREM NoRaceCorrect == Spec => NoRaceLogout
<1> DEFINE A == \A t \in Tabs : shown[t] /\ ~shown'[t] => (excused \/ reissued)'
<1>1. SessionInv /\ Calm /\ [Next]_vars => [A]_vars
  <2> SUFFICES ASSUME SessionInv, Calm, [Next]_vars, NEW t \in Tabs, ~shown'[t], Undisturbed'
               PROVE  FALSE
    BY DEF Undisturbed
  <2>1. CalmState'
    BY CalmInductive DEF Calm
  <2> QED
    BY <2>1 DEF CalmState
<1> QED
  BY <1>1, CalmCorrect, PTL DEF Spec, NoRaceLogout
-----------------------------------------------------------------------------
(* Why every wait ends: somebody can act, and every such step brings it closer *)

\* The guards of Grant and of RefreshLost, which are weakly fair for every tab: while anybody
\* waits, one of them holds for the first tab in the queue.
HeadCanAct ==
    \A t \in Tabs : Waiting(t) # {} =>
        \E h \in Tabs : \/ refresh[h].pc = "queued" /\ HoldsLock(h)
                       \/ Abortable(h)

\* Whoever holds the lock can go on or give up, whatever the other tabs and the server do.
THEOREM HeadActs == Spec => []HeadCanAct
<1>1. SessionInv => HeadCanAct
  <2> SUFFICES ASSUME SessionInv, NEW t \in Tabs, Waiting(t) # {}
               PROVE  \E h \in Tabs : \/ refresh[h].pc = "queued" /\ HoldsLock(h)
                                     \/ Abortable(h)
    BY DEF HeadCanAct
  <2>1. PICK i \in 1 .. Len(locks) : locks[i] = t
    BY DEF SessionInv, WaitInv, QueueInv
  <2>2. Len(locks) \in Nat /\ 1 \in 1 .. Len(locks) /\ locks # <<>>
    BY <2>1, LenProperties, EmptySeq DEF SessionInv, QueueInv
  <2> DEFINE h == locks[1]
  <2>3. h \in Tabs /\ h = Head(locks)
    BY <2>2, ElementOfSeq DEF SessionInv, QueueInv
  <2>4. refresh[h] # None
    BY <2>2, <2>3 DEF SessionInv, QueueInv
  <2>5. refresh[h].pc \in {"queued", "sent", "answered"}
    BY <2>3, <2>4, NoneRefreshing DEF SessionInv, Typed
  <2> QED
    BY <2>3, <2>5 DEF HoldsLock, Abortable
<1> QED
  BY <1>1, SessionCorrect, PTL

\* What the browser does for the first tab in the queue.
HeadStep(h) == Grant(h) \/ ReceiveRefresh(h) \/ RefreshLost(h)

\* The steps of that kind until the tab at place i of the queue has its answer.
StepsLeft(i) == 2 * i - (IF refresh[Head(locks)].pc = "queued" THEN 0 ELSE 1)

\* Every one of them brings each tab in the queue closer to its answer, nothing else moves it
\* back, and nobody in a tab waits any longer when the tab leaves the queue.
QueueDrains ==
    [][\A t \in Tabs, i \in 1 .. Len(locks) :
          locks[i] = t =>
              \/ i = 1 /\ HeadStep(t) /\ Waiting(t)' = {}
              \/ \E j \in 1 .. Len(locks') :
                    /\ locks'[j] = t
                    /\ StepsLeft(j)' <= StepsLeft(i)
                    /\ (\E h \in Tabs : HeadStep(h)) => StepsLeft(j)' < StepsLeft(i)]_vars

LEMMA HeadOfQueue ==
    ASSUME SessionInv, NEW i \in 1 .. Len(locks)
    PROVE  /\ Len(locks) \in Nat /\ i \in Nat /\ locks # <<>>
           /\ Head(locks) = locks[1] /\ Head(locks) \in Tabs
           /\ locks[i] \in Tabs
<1>1. Len(locks) \in Nat /\ 1 \in 1 .. Len(locks) /\ locks # <<>>
  BY LenProperties, EmptySeq DEF SessionInv, QueueInv
<1> QED
  BY <1>1, ElementOfSeq DEF SessionInv, QueueInv

LEMMA HeadStepDrains ==
    ASSUME SessionInv, [Next]_vars, NEW h \in Tabs, HeadStep(h),
           NEW t \in Tabs, NEW i \in 1 .. Len(locks), locks[i] = t
    PROVE  \/ i = 1 /\ HeadStep(t) /\ Waiting(t)' = {}
           \/ \E j \in 1 .. Len(locks') : locks'[j] = t /\ StepsLeft(j)' < StepsLeft(i)
<1>1. /\ Len(locks) \in Nat /\ i \in Nat /\ locks # <<>>
      /\ Head(locks) = locks[1] /\ Head(locks) \in Tabs
  BY HeadOfQueue
<1>2. CASE Grant(h)
  <2>1. /\ refresh[h].pc = "queued" /\ h = Head(locks) /\ locks' = locks
        /\ refresh' = [refresh EXCEPT ![h] = [pc |-> "sent", token |-> jar.refresh]]
    BY <1>2 DEF Grant, HoldsLock, Progress
  <2>2. refresh'[Head(locks')].pc = "sent"
    BY <1>1, <2>1 DEF SessionInv, Typed
  <2>3. StepsLeft(i)' = 2 * i - 1 /\ StepsLeft(i) = 2 * i
    BY <2>1, <2>2 DEF StepsLeft
  <2> QED
    BY <1>1, <2>1, <2>3
<1>3. CASE ReceiveRefresh(h) \/ RefreshLost(h)
  <2>1. refresh[h].pc \in {"sent", "answered"} /\ Resolve(h)
    BY <1>3 DEF ReceiveRefresh, RefreshLost, Abortable
  <2>2. h = locks[1] /\ locks' = Tail(locks)
    BY <1>1, <2>1 DEF SessionInv, QueueInv, Resolve
  <2>3. refresh'[h] = None /\ \A o \in Tabs : o # h => refresh'[o] = refresh[o]
    BY <2>1 DEF Resolve, Progress, SessionInv, Typed
  <2>4. CASE i = 1
    <3>1. SessionInv'
      BY SessionInductive
    <3>2. Waiting(t)' = {}
      BY <2>2, <2>3, <2>4, <3>1 DEF SessionInv, WaitInv
    <3> QED
      BY <2>2, <2>4, <3>2
  <2>5. CASE i # 1
    <3>1. /\ locks' \in Seq(Tabs) /\ Len(locks') = Len(locks) - 1
          /\ \A k \in 1 .. Len(locks') : locks'[k] = locks[k + 1]
      BY <1>1, <2>2, HeadTailProperties DEF SessionInv, QueueInv
    <3>2. i - 1 \in 1 .. Len(locks') /\ 1 \in 1 .. Len(locks') /\ 2 \in 1 .. Len(locks)
      BY <1>1, <2>5, <3>1
    <3>3. locks'[i - 1] = t /\ locks'[1] = locks[2]
      BY <1>1, <3>1, <3>2
    <3>4. locks[2] \in Tabs /\ locks[2] # h /\ refresh[locks[2]] # None
      BY <1>1, <2>2, <3>2, HeadOfQueue DEF SessionInv, QueueInv
    <3>5. refresh[locks[2]].pc = "queued"
      BY <1>1, <2>2, <3>4, NoneRefreshing DEF SessionInv, QueueInv, Typed
    <3>6. Head(locks') = locks[2] /\ refresh'[Head(locks')].pc = "queued"
      BY <2>3, <3>1, <3>2, <3>3, <3>4, <3>5
    <3>7. StepsLeft(i - 1)' = 2 * (i - 1) /\ StepsLeft(i) = 2 * i - 1
      BY <1>1, <2>1, <2>2, <3>6 DEF StepsLeft
    <3> QED
      BY <1>1, <3>2, <3>3, <3>7
  <2> QED
    BY <2>4, <2>5
<1> QED
  BY <1>2, <1>3 DEF HeadStep

LEMMA OtherStepDrains ==
    ASSUME SessionInv, [Next]_vars, \A h \in Tabs : ~HeadStep(h),
           NEW i \in 1 .. Len(locks)
    PROVE  i \in 1 .. Len(locks') /\ locks'[i] = locks[i] /\ StepsLeft(i)' = StepsLeft(i)
<1>1. /\ Len(locks) \in Nat /\ i \in Nat /\ locks # <<>>
      /\ Head(locks) = locks[1] /\ Head(locks) \in Tabs /\ 1 \in 1 .. Len(locks)
  BY HeadOfQueue
<1>2. ASSUME UNCHANGED <<refresh, locks>>
      PROVE  i \in 1 .. Len(locks') /\ locks'[i] = locks[i] /\ StepsLeft(i)' = StepsLeft(i)
  BY <1>2 DEF StepsLeft
<1>3. ASSUME NEW c \in AllSlots, JoinRefresh(c)
      PROVE  i \in 1 .. Len(locks') /\ locks'[i] = locks[i] /\ StepsLeft(i)' = StepsLeft(i)
  <2> DEFINE t == c[1]
  <2> t \in Tabs
    BY SlotTab
  <2>1. CASE refresh[t] # None
    BY <1>2, <1>3, <2>1 DEF JoinRefresh
  <2>2. CASE refresh[t] = None
    <3>1. refresh' = [refresh EXCEPT ![t] = [pc |-> "queued"]] /\ locks' = Append(locks, t)
      BY <1>3, <2>2 DEF JoinRefresh
    <3>2. /\ locks' \in Seq(Tabs) /\ Len(locks') = Len(locks) + 1
          /\ \A k \in 1 .. Len(locks) : locks'[k] = locks[k]
      BY <3>1, AppendProperties DEF SessionInv, QueueInv
    <3>3. Head(locks) # t
      BY <1>1, <2>2 DEF SessionInv, QueueInv
    <3>4. Head(locks') = Head(locks) /\ refresh'[Head(locks)] = refresh[Head(locks)]
      BY <1>1, <3>1, <3>2, <3>3, EmptySeq DEF SessionInv, Typed
    <3> QED
      BY <1>1, <3>2, <3>4 DEF StepsLeft
  <2> QED
    BY <2>1, <2>2
<1>4. ASSUME NEW t \in Tabs, ServeRefresh(t)
      PROVE  i \in 1 .. Len(locks') /\ locks'[i] = locks[i] /\ StepsLeft(i)' = StepsLeft(i)
  <2>1. refresh[t].pc = "sent" /\ locks' = locks
    BY <1>4 DEF ServeRefresh
  <2>2. PICK result, token : Result(t, result, token)
    BY <1>4 DEF ServeRefresh
  <2>3. t = Head(locks)
    BY <2>1 DEF SessionInv, QueueInv
  <2>4. refresh'[t].pc = "answered"
    BY <2>2 DEF Result, Progress, SessionInv, Typed
  <2> QED
    BY <2>1, <2>3, <2>4 DEF StepsLeft
<1>5. ASSUME NEW c \in AllSlots, Receive(c)
      PROVE  JoinRefresh(c) \/ UNCHANGED <<refresh, locks>>
  BY <1>5 DEF Receive, ReceiveOk, ReceiveFinalDenial, Finished
<1> QED
  BY <1>2, <1>3, <1>4, <1>5
  DEF HeadStep, vars, Next, User, Network, RefreshUser, Call, Serve, Lost, Finished, Deliver,
      ServeStray, Tick

\* The number of steps that a tab is away from its answer never grows, and shrinks with every
\* step for the head of the queue: nobody overtakes, and nobody is forgotten in the queue.
THEOREM QueueDrainsCorrect == Spec => QueueDrains
<1> DEFINE A == \A t \in Tabs, i \in 1 .. Len(locks) :
                   locks[i] = t =>
                       \/ i = 1 /\ HeadStep(t) /\ Waiting(t)' = {}
                       \/ \E j \in 1 .. Len(locks') :
                             /\ locks'[j] = t
                             /\ StepsLeft(j)' <= StepsLeft(i)
                             /\ (\E h \in Tabs : HeadStep(h)) => StepsLeft(j)' < StepsLeft(i)
<1>1. SessionInv /\ [Next]_vars => [A]_vars
  <2> SUFFICES ASSUME SessionInv, [Next]_vars,
                      NEW t \in Tabs, NEW i \in 1 .. Len(locks), locks[i] = t
               PROVE  \/ i = 1 /\ HeadStep(t) /\ Waiting(t)' = {}
                      \/ \E j \in 1 .. Len(locks') :
                            /\ locks'[j] = t
                            /\ StepsLeft(j)' <= StepsLeft(i)
                            /\ (\E h \in Tabs : HeadStep(h)) => StepsLeft(j)' < StepsLeft(i)
    OBVIOUS
  <2>1. CASE \E h \in Tabs : HeadStep(h)
    <3>1. ASSUME NEW j \in 1 .. Len(locks'), StepsLeft(j)' < StepsLeft(i)
          PROVE  StepsLeft(j)' <= StepsLeft(i)
      <4>1. Len(locks') \in Nat
        BY SessionInductive, LenProperties DEF SessionInv, QueueInv
      <4>2. j \in Int /\ i \in Int
        OBVIOUS
      <4>3. StepsLeft(j)' \in Int /\ StepsLeft(i) \in Int
        BY <4>2 DEF StepsLeft
      <4> QED
        BY <3>1, <4>3
    <3> QED
      BY <2>1, <3>1, HeadStepDrains
  <2>2. CASE \A h \in Tabs : ~HeadStep(h)
    <3>1. StepsLeft(i) \in Int
      BY DEF StepsLeft
    <3> QED
      BY <2>2, <3>1, OtherStepDrains
  <2> QED
    BY <2>1, <2>2
<1> QED
  BY <1>1, SessionCorrect, PTL DEF Spec, QueueDrains
=============================================================================
