---------------------------- MODULE SocialToggle ----------------------------
(***************************************************************************)
(* One user's browser against the marks of Social: the like and follow     *)
(* buttons show the next state before the server has answered.             *)
(*                                                                         *)
(* A request is sent, served, and answered; it may fail without effect,    *)
(* its answer may get lost, and the client may give up (API_TIMEOUT_MS)    *)
(* while the request still reaches the server.  The mounted view disables  *)
(* its button while its own request is pending; a view that is mounted     *)
(* anew does not know of the requests of the one before.                   *)
(***************************************************************************)
EXTENDS Social

CONSTANTS
    Me,
    Slots       \* bound on the requests under way

ASSUME MeAssumption == Me \in Users

VARIABLES
    cache,      \* isLiked or following in the query cache
    local,      \* localLiked, or whether likedIds has the discussion; "none": null
    request,
    fetch,      \* the query that refreshes the cache
    (***********************************************************************)
    (* History: read by no action                                          *)
    (***********************************************************************)
    excused     \* something happened that this client cannot settle

browserVars == <<cache, local, request, fetch, excused>>
vars == <<serverVars, browserVars>>

-----------------------------------------------------------------------------

State == {"on", "off"}

Not(state) == IF state = "on" THEN "off" ELSE "on"

Truth == IF Me \in marks THEN "on" ELSE "off"

\* What the button shows.  The list of discussions knows only the likes of this session.
Shown ==
    CASE kind = "follow"     -> cache
      [] kind = "like"       -> IF local = "none" THEN cache ELSE local
      [] kind = "discussion" -> IF local = "on" THEN "on" ELSE "off"

Idle == [pc |-> "idle"]

NoFetch == [pc |-> "none"]

Due == [pc |-> "due"]

UnderWay == {s \in Slots : request[s] # Idle}

Mine == {s \in UnderWay : request[s].pc # "late" /\ request[s].mine}

-----------------------------------------------------------------------------
(* The buttons *)

\* Variant of Clickable: the button is not disabled.
AlwaysClickable == TRUE

\* isPending of the mounted view
Clickable == Mine = {}

\* onMutate, and the request.  A follow cancels the query first.
Click(s) ==
    /\ request[s] = Idle
    /\ Clickable
    /\ request' = [request EXCEPT ![s] = [pc |-> "sent", next |-> Not(Shown), mine |-> TRUE]]
    /\ IF kind = "follow"
       THEN cache' = Not(Shown) /\ fetch' = NoFetch /\ UNCHANGED local
       ELSE local' = Not(Shown) /\ UNCHANGED <<cache, fetch>>
    /\ excused' = (excused \/ (kind # "follow" /\ (UnderWay # {} \/ fetch # NoFetch)))
    /\ UNCHANGED serverVars

\* Another page is opened that shows the same thing.
Remount ==
    /\ local' = "none"
    /\ request' = [s \in Slots |-> IF s \in Mine THEN [request[s] EXCEPT !.mine = FALSE]
                                   ELSE request[s]]
    /\ excused' = (excused \/ kind = "discussion")
    /\ UNCHANGED <<serverVars, cache, fetch>>

\* Variant of Restored: the optimistic value is kept after an error.
KeptLocal(s) == local

\* onError of the two hooks and of the list of discussions, for a view that is still mounted
Restored(s) ==
    IF ~request[s].mine THEN local
    ELSE IF kind = "like" THEN "none" ELSE Not(request[s].next)

\* onSuccess patches the caches with the context of this request.
Succeed(s) ==
    /\ cache' = IF kind = "like" THEN request[s].next ELSE cache
    /\ fetch' = IF kind = "follow" THEN Due ELSE fetch
    /\ UNCHANGED local

\* A follow restores what it found and, as after a success, asks again.
Fail(s) ==
    /\ cache' = IF kind = "follow" THEN Not(request[s].next) ELSE cache
    /\ fetch' = IF kind = "follow" THEN Due ELSE fetch
    /\ local' = IF kind = "follow" THEN local ELSE Restored(s)

-----------------------------------------------------------------------------
(* The requests *)

Apply(next) ==
    \/ next = "on" /\ Mark(Me)
    \/ next = "off" /\ Unmark(Me)

Served(s, result) ==
    request' = [request EXCEPT ![s] = [pc |-> "served", next |-> request[s].next,
                                       mine |-> request[s].mine, result |-> result]]

Serve(s) ==
    /\ request[s].pc = "sent"
    /\ \/ Apply(request[s].next) /\ Served(s, "ok")
       \/ /\ request[s].next = "on" /\ Me \in marks
          /\ Served(s, "conflict")
          /\ UNCHANGED serverVars
    /\ UNCHANGED <<cache, local, fetch, excused>>

Forget(s) == request' = [request EXCEPT ![s] = Idle]

Answer(s) ==
    /\ request[s].pc = "served"
    /\ IF request[s].result = "ok" THEN Succeed(s) ELSE Fail(s)
    /\ Forget(s)
    /\ UNCHANGED <<serverVars, excused>>

\* It does not get there, or the transaction is rolled back.
FailWithoutEffect(s) ==
    /\ request[s].pc = "sent"
    /\ Fail(s)
    /\ Forget(s)
    /\ UNCHANGED <<serverVars, excused>>

LoseAnswer(s) ==
    /\ request[s].pc = "served"
    /\ Fail(s)
    /\ Forget(s)
    /\ excused' = (excused \/ kind # "follow")
    /\ UNCHANGED serverVars

GiveUp(s) ==
    /\ request[s].pc = "sent"
    /\ Fail(s)
    /\ request' = [request EXCEPT ![s] = [pc |-> "late", next |-> request[s].next]]
    /\ excused' = (excused \/ kind # "follow")
    /\ UNCHANGED serverVars

ServeLate(s) ==
    /\ request[s].pc = "late"
    /\ Apply(request[s].next) \/ UNCHANGED serverVars
    /\ Forget(s)
    /\ excused' = TRUE
    /\ UNCHANGED <<cache, local, fetch>>

-----------------------------------------------------------------------------
(* The query *)

\* The data is older than staleTime when a view is mounted.
Refetch ==
    /\ fetch = NoFetch
    /\ fetch' = Due
    /\ excused' = (excused \/ (kind # "follow" /\ UnderWay # {}))
    /\ UNCHANGED <<serverVars, cache, local, request>>

FetchRead ==
    /\ fetch = Due
    /\ fetch' = [pc |-> "read", value |-> Truth]
    /\ excused' = (excused /\ (kind = "discussion" \/ UnderWay # {} \/ local # "none"))
    /\ UNCHANGED <<serverVars, cache, local, request>>

FetchArrives ==
    /\ fetch.pc = "read"
    /\ cache' = fetch.value
    /\ fetch' = NoFetch
    /\ UNCHANGED <<serverVars, local, request, excused>>

FetchFails ==
    /\ fetch # NoFetch
    /\ fetch' = NoFetch
    /\ excused' = TRUE
    /\ UNCHANGED <<serverVars, cache, local, request>>

-----------------------------------------------------------------------------

Init ==
    /\ ServerInit
    /\ cache = "off"
    /\ local = "none"
    /\ request = [s \in Slots |-> Idle]
    /\ fetch = NoFetch
    /\ excused = FALSE

Others ==
    /\ Recount \/ CreateProfile \/ \E u \in Users \ {Me} : Mark(u) \/ Unmark(u)
    /\ UNCHANGED browserVars

Transport(s) ==
    \/ Serve(s)
    \/ Answer(s)
    \/ FailWithoutEffect(s)
    \/ LoseAnswer(s)
    \/ GiveUp(s)
    \/ ServeLate(s)

Next ==
    \/ \E s \in Slots : Click(s) \/ Transport(s)
    \/ Remount
    \/ Refetch
    \/ FetchRead
    \/ FetchArrives
    \/ FetchFails
    \/ Others

Spec == Init /\ [][Next]_vars

-----------------------------------------------------------------------------

Request ==
    {Idle}
      \union [pc : {"sent"}, next : State, mine : BOOLEAN]
      \union [pc : {"served"}, next : State, mine : BOOLEAN, result : {"ok", "conflict"}]
      \union [pc : {"late"}, next : State]

\* The mounted view has at most one request that it waits for.
TypeOK ==
    /\ ServerTypeOK
    /\ cache \in State
    /\ local \in State \union {"none"}
    /\ request \in [Slots -> Request]
    /\ Cardinality(Mine) <= 1
    /\ fetch \in {NoFetch, Due} \union [pc : {"read"}, value : State]
    /\ excused \in BOOLEAN

\* When nothing is under way any more, the button shows what the server holds.  A follow comes
\* to that whatever answers were lost or crossed each other, unless its last query failed or a
\* request that was given up took effect after it.  A like needs that no answer was lost, and
\* that its requests and queries did not overlap.
SettledAgrees == UnderWay = {} /\ fetch = NoFetch /\ ~excused => Shown = Truth
=============================================================================
