------------------------------- MODULE Inbox -------------------------------
(***************************************************************************)
(* What private messages promise to their readers.  A message enters the   *)
(* log once, whatever is retried, and in the same step counts for those it *)
(* is addressed to; it is broadcast at most once, and only after that; a   *)
(* bell rings only for a reader who has been sent something; and a badge   *)
(* goes up by one with a message, down to zero when its reader looks, and  *)
(* to some number of the messages in the log when it is recounted.         *)
(***************************************************************************)
EXTENDS Naturals, FiniteSets

CONSTANTS
    Ids,
    Readers,
    To          \* the readers each message is addressed to

VARIABLES
    log,        \* the messages that are stored
    told,       \* how often each message was broadcast
    badge,      \* of each reader
    bell        \* the readers whose bell has rung

vars == <<log, told, badge, bell>>

Backlog(p) == {id \in log : p \in To[id]}

Send(id) ==
    /\ id \notin log
    /\ log' = log \union {id}
    /\ \E S \in SUBSET To[id] :
           badge' = [p \in Readers |-> IF p \in S THEN badge[p] + 1 ELSE badge[p]]
    /\ UNCHANGED <<told, bell>>

Tell(id) ==
    /\ id \in log
    /\ told[id] = 0
    /\ told' = [told EXCEPT ![id] = 1]
    /\ UNCHANGED <<log, badge, bell>>

Ring ==
    /\ \E S \in SUBSET {p \in Readers : Backlog(p) # {}} : bell' = bell \union S
    /\ UNCHANGED <<log, told, badge>>

Settle(p) ==
    /\ \E n \in 0 .. Cardinality(Backlog(p)) : badge' = [badge EXCEPT ![p] = n]
    /\ UNCHANGED <<log, told, bell>>

Clear(p) ==
    /\ bell' = bell \ {p}
    /\ UNCHANGED <<log, told, badge>>

Init ==
    /\ log = {}
    /\ told = [id \in Ids |-> 0]
    /\ badge = [p \in Readers |-> 0]
    /\ bell = {}

Next ==
    \/ \E id \in Ids : Send(id) \/ Tell(id)
    \/ Ring
    \/ \E p \in Readers : Settle(p) \/ Clear(p)

Spec == Init /\ [][Next]_vars
=============================================================================
