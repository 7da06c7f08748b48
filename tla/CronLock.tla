------------------------------ MODULE CronLock ------------------------------
(***************************************************************************)
(* The distributed lock around every scheduled job of CronService.         *)
(*                                                                         *)
(* Every backend instance runs the scheduler.  At each cycle of a job's    *)
(* schedule every instance that is up fires once, within Skew of the       *)
(* others; it runs the job if SET NX EX wins the key, skips the cycle if   *)
(* the key exists, and runs without the lock if the command fails.  The    *)
(* key carries no owner: DEL removes whatever key is there.                *)
(***************************************************************************)
EXTENDS Integers, FiniteSets

CONSTANTS
    Instances,
    TTL,              \* life of the key, in ticks
    MaxRun,           \* longest time from SET to DEL
    Period,           \* time between two cycles of the schedule
    Skew              \* largest delay between two instances' timers

ASSUME TimesAssumption ==
    /\ TTL \in Nat \ {0} /\ MaxRun \in Nat /\ Skew \in Nat /\ Period \in Nat
    /\ MaxRun < TTL           \* the lock's lifetime was chosen to cover the job
    /\ Skew + TTL <= Period   \* minutes, against a schedule of an hour or a day

VARIABLES
    ttl,        \* remaining life of the key; 0 when there is no key
    job,        \* what each instance does
    due,        \* the instances whose timer has not fired in this cycle
    elapsed,    \* time since the cycle began
    executed,   \* history: the runs started in this cycle
    blind       \* history: a run of this cycle started without the lock

cronVars == <<ttl, job, due, elapsed, executed, blind>>

States == {"idle", "running", "releasing", "down"}

Active(i) == job[i].state \in {"running", "releasing"}

Set(i, state) == job' = [job EXCEPT ![i].state = state]

\* Variants of KeyLife: a lifetime beyond the schedule, and one shorter than a run.
KeyTooLong == TTL + Period

KeyTooShort == TTL - 2

\* EX ttlSeconds: the life of a key that was just set.
KeyLife == TTL

\* The remaining life of the key a tick later.
Older == IF ttl > 0 THEN ttl - 1 ELSE 0

-----------------------------------------------------------------------------
(* acquireLock *)

Run(i) ==
    /\ job' = [job EXCEPT ![i] = [state |-> "running", age |-> 0]]
    /\ due' = due \ {i}
    /\ executed' = executed + 1
    /\ UNCHANGED elapsed

\* Variant of Winnable: no NX.
Unconditional == ttl >= 0

\* SET NX: only when the key does not exist.
Winnable == ttl = 0

Acquire(i) ==
    /\ i \in due
    /\ Winnable
    /\ ttl' = KeyLife
    /\ Run(i)
    /\ UNCHANGED blind

Skip(i) ==
    /\ i \in due
    /\ ~Winnable
    /\ due' = due \ {i}
    /\ UNCHANGED <<ttl, job, elapsed, executed, blind>>

\* The command fails before or after Redis applied it; the job runs in either case.
AcquireFails(i) ==
    /\ i \in due
    /\ ttl' \in {ttl, IF ttl = 0 THEN TTL ELSE ttl}
    /\ Run(i)
    /\ blind' = TRUE

-----------------------------------------------------------------------------
(* withLock: the job ends, by returning or throwing, and the key is deleted *)

EndJob(i) ==
    /\ job[i].state = "running"
    /\ Set(i, "releasing")
    /\ UNCHANGED <<ttl, due, elapsed, executed, blind>>

Release(i) ==
    /\ job[i].state = "releasing"
    /\ ttl' = 0
    /\ job' = [job EXCEPT ![i] = [state |-> "idle", age |-> 0]]
    /\ UNCHANGED <<due, elapsed, executed, blind>>

\* DEL fails (only a warning is logged).
ReleaseFails(i) ==
    /\ job[i].state = "releasing"
    /\ job' = [job EXCEPT ![i] = [state |-> "idle", age |-> 0]]
    /\ UNCHANGED <<ttl, due, elapsed, executed, blind>>

-----------------------------------------------------------------------------
(* Instances stop and start; time passes; the schedule goes on *)

Crash(i) ==
    /\ job[i].state # "down"
    /\ job' = [job EXCEPT ![i] = [state |-> "down", age |-> 0]]
    /\ due' = due \ {i}
    /\ UNCHANGED <<ttl, elapsed, executed, blind>>

Restart(i) ==
    /\ job[i].state = "down"
    /\ Set(i, "idle")
    /\ UNCHANGED <<ttl, due, elapsed, executed, blind>>

\* A tick waits for the timers that must have fired and the jobs that must have ended.
CronTick ==
    /\ elapsed < Period
    /\ elapsed >= Skew => due = {}
    /\ \A i \in Instances : Active(i) => job[i].age < MaxRun
    /\ ttl' = Older
    /\ job' = [i \in Instances |->
                  IF Active(i) THEN [job[i] EXCEPT !.age = @ + 1] ELSE job[i]]
    /\ elapsed' = elapsed + 1
    /\ UNCHANGED <<due, executed, blind>>

NextCycle ==
    /\ elapsed = Period
    /\ elapsed' = 0
    /\ due' = {i \in Instances : job[i].state # "down"}
    /\ executed' = 0
    /\ blind' = FALSE
    /\ UNCHANGED <<ttl, job>>

-----------------------------------------------------------------------------

CronInit ==
    /\ ttl = 0
    /\ job = [i \in Instances |-> [state |-> "idle", age |-> 0]]
    /\ due = Instances
    /\ elapsed = 0
    /\ executed = 0
    /\ blind = FALSE

System ==
    \/ \E i \in Instances :
          Acquire(i) \/ Skip(i) \/ EndJob(i) \/ Release(i)
    \/ CronTick
    \/ NextCycle

Failures ==
    \E i \in Instances : AcquireFails(i) \/ ReleaseFails(i) \/ Crash(i) \/ Restart(i)

CronNext == System \/ Failures

CronSpec == CronInit /\ [][CronNext]_cronVars

-----------------------------------------------------------------------------

CronTypeOK ==
    /\ ttl \in 0 .. TTL
    /\ job \in [Instances -> [state : States, age : 0 .. MaxRun]]
    /\ due \subseteq Instances
    /\ elapsed \in 0 .. Period
    /\ executed \in Nat
    /\ blind \in BOOLEAN

\* Unless a SET failed in this cycle, a job never runs on two instances at once, whatever
\* crashes, failed DELs and late timers occur and whatever failed in earlier cycles.
MutualExclusion ==
    ~blind => \A i, j \in Instances : Active(i) /\ Active(j) => i = j

\* Nor does DEL remove the key of another run: the key it finds is exactly as old as its
\* own run.
ReleasesOwnKey ==
    ~blind => \A i \in Instances : Active(i) => ttl = TTL - job[i].age

\* "even if the job crashes without releasing, the lock auto-expires so the next schedule
\* cycle runs normally": a key left behind by a crash or a failed DEL never costs the next
\* cycle, since an instance skips a cycle only when the job was started in that very cycle.
SkipsOnlyStartedCycle ==
    [][\A i \in Instances :
          i \in due /\ i \notin due' /\ job'[i].state = "idle" => executed > 0]_cronVars
=============================================================================
