------------------------- MODULE SocialToggleProofs -------------------------
(***************************************************************************)
(* The counters of Social under SocialToggle, for any number of users and  *)
(* of requests.  The browser's requests are first shown to be steps of the *)
(* server of Social; the rest is about the server alone.                   *)
(***************************************************************************)
EXTENDS SocialToggle, FiniteSetTheorems, TLAPS

\* What the server does in a step of the whole.
ServerStep == ServerNext \/ UNCHANGED serverVars

LEMMA ApplyIsServerStep ==
    ASSUME NEW next, Apply(next)
    PROVE  ServerNext
BY MeAssumption DEF Apply, ServerNext

LEMMA TransportServes ==
    ASSUME NEW s \in Slots, Transport(s)
    PROVE  ServerStep
<1>1. CASE Serve(s)
  BY <1>1, ApplyIsServerStep DEF Serve, ServerStep
<1>2. CASE ServeLate(s)
  BY <1>2, ApplyIsServerStep DEF ServeLate, ServerStep
<1>3. CASE Answer(s) \/ FailWithoutEffect(s) \/ LoseAnswer(s) \/ GiveUp(s)
  BY <1>3 DEF Answer, FailWithoutEffect, LoseAnswer, GiveUp, ServerStep
<1> QED
  BY <1>1, <1>2, <1>3 DEF Transport

LEMMA EveryServerStep ==
    ASSUME [Next]_vars
    PROVE  ServerStep
<1>1. CASE UNCHANGED vars
  BY <1>1 DEF vars, ServerStep
<1>2. ASSUME NEW s \in Slots, Click(s) \/ Transport(s)
      PROVE  ServerStep
  BY <1>2, TransportServes DEF Click, ServerStep
<1>3. CASE Remount \/ Refetch \/ FetchRead \/ FetchArrives \/ FetchFails
  BY <1>3 DEF Remount, Refetch, FetchRead, FetchArrives, FetchFails, ServerStep
<1>4. CASE Others
  BY <1>4 DEF Others, ServerNext, ServerStep
<1> QED
  BY <1>1, <1>2, <1>3, <1>4 DEF Next

\* A browser that retries, gives up and is answered late drives the server through nothing but
\* what the server does for any client.
THEOREM ServerImplemented == Spec => ServerSpec
<1>1. Init => ServerInit
  BY DEF Init
<1>2. [Next]_vars => [ServerNext]_serverVars
  BY EveryServerStep DEF ServerStep
<1> QED
  BY <1>1, <1>2, PTL DEF Spec, ServerSpec

-----------------------------------------------------------------------------
(* The counter *)

\* A recount that nothing disturbed has counted the rows of now.
QuietTotal == recount.pc = "write" /\ quiet => recount.total = Cardinality(marks)

\* Without a profile there is nothing to be wrong.
NoProfile == ~profile => counter = 0 /\ ~raced /\ missed = 0

\* A counter of likes is there from the beginning.
LikesMissNothing == kind # "follow" => missed = 0

ServerInv ==
    /\ ServerTypeOK
    /\ QuietTotal
    /\ NoProfile
    /\ LikesMissNothing
    /\ ErrorIsExplained
    /\ LikesNeverNegative
    /\ ErrorIsBounded

LEMMA MarksBounded ==
    ASSUME NEW S \in SUBSET Users
    PROVE  /\ IsFiniteSet(S)
           /\ Cardinality(S) \in Nat /\ Cardinality(Users) \in Nat
           /\ Cardinality(S) <= Cardinality(Users)
BY UsersAssumption, FS_Subset, FS_CardinalityType

LEMMA ServerInitially == ServerInit => ServerInv
<1> SUFFICES ASSUME ServerInit PROVE ServerInv
  OBVIOUS
<1>1. Cardinality(marks) = 0
  BY FS_EmptySet DEF ServerInit
<1>2. Cardinality(Users) \in Nat
  BY UsersAssumption, FS_CardinalityType
<1>3. ServerTypeOK
  <2>1. marks \subseteq Users /\ counter \in Int
    BY DEF ServerInit
  <2>2. recount \in {NoRecount} \union [pc : {"write"}, total : 0 .. Cardinality(Users)]
    BY DEF ServerInit
  <2>3. kind \in Kinds /\ quiet \in BOOLEAN /\ raced \in BOOLEAN
    BY DEF ServerInit
  <2>4. profile \in BOOLEAN /\ (kind # "follow" => profile)
    BY Zenon DEF ServerInit
  <2>5. missed \in 0 .. Cardinality(Users)
    BY <1>2 DEF ServerInit
  <2> QED
    BY <2>1, <2>2, <2>3, <2>4, <2>5, Zenon DEF ServerTypeOK
<1>4. recount.pc = "idle" /\ counter = 0 /\ missed = 0 /\ ~raced
  BY Zenon DEF ServerInit, NoRecount
<1> QED
  BY <1>1, <1>2, <1>3, <1>4
  DEF ServerInv, QuietTotal, NoProfile, LikesMissNothing, ErrorIsExplained,
      LikesNeverNegative, ErrorIsBounded, ServerInit

\* A step that changes the counter as it changes the number of rows, where there is a profile
LEMMA ChangeKeeps ==
    ASSUME ServerInv, NEW d \in {-1, 1}, marks' \in SUBSET Users,
           Cardinality(marks') = Cardinality(marks) + d,
           counter' = IfThere(counter + d), quiet' = FALSE,
           kind # "follow" => counter + d >= 0,
           UNCHANGED <<kind, profile, recount, raced, missed>>
    PROVE  ServerInv'
<1>1. marks \in SUBSET Users /\ counter \in Int /\ missed \in Nat
  BY MarksBounded DEF ServerInv, ServerTypeOK
<1>2. ServerTypeOK'
  <2>1. counter' \in Int
    BY <1>1 DEF IfThere
  <2>2. quiet' \in BOOLEAN
    BY Zenon
  <2> QED
    BY <2>1, <2>2 DEF ServerInv, ServerTypeOK
<1>3. QuietTotal' /\ NoProfile' /\ LikesMissNothing'
  BY DEF IfThere, ServerInv, QuietTotal, NoProfile, LikesMissNothing
<1>4. ErrorIsExplained'
  BY <1>1, MarksBounded DEF IfThere, ServerInv, ErrorIsExplained
<1>5. LikesNeverNegative'
  BY DEF IfThere, ServerInv, LikesNeverNegative
<1>6. ErrorIsBounded'
  <2>1. CASE profile
    BY <1>1, <2>1, MarksBounded DEF IfThere, ServerInv, ErrorIsBounded
  <2>2. CASE ~profile
    BY <1>1, <2>2, MarksBounded DEF IfThere, ServerInv, NoProfile, ErrorIsBounded
  <2> QED
    BY <2>1, <2>2
<1> QED
  BY <1>2, <1>3, <1>4, <1>5, <1>6 DEF ServerInv

LEMMA MarkKeeps ==
    ASSUME ServerInv, NEW u \in Users, Mark(u)
    PROVE  ServerInv'
<1>1. /\ marks \in SUBSET Users /\ counter \in Int /\ u \notin marks
      /\ marks' = marks \union {u} /\ counter' = IfThere(counter + 1) /\ quiet' = FALSE
      /\ UNCHANGED <<kind, profile, recount, raced, missed>>
  BY DEF ServerInv, ServerTypeOK, Mark
<1>2. Cardinality(marks') = Cardinality(marks) + 1 /\ marks' \in SUBSET Users
  BY <1>1, MarksBounded, FS_AddElement
<1>3. kind # "follow" => counter + 1 >= 0
  BY <1>1 DEF ServerInv, LikesNeverNegative
<1> QED
  BY <1>1, <1>2, <1>3, ChangeKeeps

LEMMA UnmarkKeeps ==
    ASSUME ServerInv, NEW u \in Users, Unmark(u)
    PROVE  ServerInv'
<1>1. /\ marks \in SUBSET Users /\ marks' \in SUBSET Users /\ counter \in Int
      /\ marks' = marks \ {u} /\ quiet' = (quiet /\ u \notin marks)
      /\ UNCHANGED <<kind, profile, recount, raced, missed>>
  BY DEF ServerInv, ServerTypeOK, Unmark
<1>2. CASE u \notin marks
  <2>1. marks' = marks /\ counter' = counter /\ quiet' = quiet
    BY <1>1, <1>2 DEF Unmark, Removed, ServerInv, ServerTypeOK
  <2> QED
    BY <1>1, <2>1 DEF ServerInv, ServerTypeOK, QuietTotal, NoProfile, LikesMissNothing,
       ErrorIsExplained, LikesNeverNegative, ErrorIsBounded
<1>3. CASE u \in marks
  <2>1. Cardinality(marks') = Cardinality(marks) - 1 /\ Cardinality(marks) \in Nat
        /\ Cardinality(marks') \in Nat
    BY <1>1, <1>3, MarksBounded, FS_RemoveElement
  <2>2. quiet' = FALSE
    BY <1>1, <1>3
  <2>3. counter' = IfThere(Lowered(counter))
    BY <1>3 DEF Unmark, Removed
  <2>4. CASE kind = "follow" \/ counter > 0
    <3>1. Lowered(counter) = counter + (-1) /\ (kind # "follow" => counter + (-1) >= 0)
      BY <1>1, <2>4 DEF Lowered
    <3>2. Cardinality(marks') = Cardinality(marks) + (-1)
      BY <2>1
    <3> QED
      BY <1>1, <2>2, <2>3, <3>1, <3>2, ChangeKeeps
  <2>5. CASE kind # "follow" /\ counter = 0
    <3>1. counter' = counter /\ profile /\ missed = 0
      BY <2>3, <2>5 DEF Lowered, IfThere, ServerInv, ServerTypeOK, LikesMissNothing
    <3>2. ServerTypeOK' /\ QuietTotal'
      BY <1>1, <2>2, <3>1 DEF ServerInv, ServerTypeOK, QuietTotal
    <3>3. ErrorIsExplained'
      BY <1>1, <2>1, <2>5, <3>1 DEF ServerInv, ErrorIsExplained
    <3>4. ErrorIsBounded'
      BY <1>1, <2>1, <2>5, <3>1, MarksBounded DEF ErrorIsBounded
    <3> QED
      BY <1>1, <3>1, <3>2, <3>3, <3>4
      DEF ServerInv, NoProfile, LikesMissNothing, LikesNeverNegative
  <2> QED
    BY <1>1, <2>4, <2>5 DEF ServerInv, LikesNeverNegative
<1> QED
  BY <1>2, <1>3

LEMMA CreateProfileKeeps ==
    ASSUME ServerInv, CreateProfile
    PROVE  ServerInv'
<1>1. /\ marks \in SUBSET Users /\ ~profile /\ profile' = TRUE /\ missed' = Cardinality(marks)
      /\ UNCHANGED <<kind, marks, counter, recount, quiet, raced>>
  BY DEF ServerInv, ServerTypeOK, CreateProfile
<1>2. counter = 0 /\ kind = "follow"
  BY <1>1 DEF ServerInv, ServerTypeOK, NoProfile
<1>3. ServerTypeOK'
  <2>1. missed' \in 0 .. Cardinality(Users)
    BY <1>1, MarksBounded
  <2>2. profile' \in BOOLEAN /\ profile'
    BY <1>1, Zenon
  <2> QED
    BY <1>1, <2>1, <2>2 DEF ServerInv, ServerTypeOK
<1>4. ErrorIsExplained'
  BY <1>1, <1>2, MarksBounded DEF ErrorIsExplained
<1> QED
  BY <1>1, <1>2, <1>3, <1>4
  DEF ServerInv, QuietTotal, NoProfile, LikesMissNothing, LikesNeverNegative, ErrorIsBounded

LEMMA RecountKeeps ==
    ASSUME ServerInv, Recount
    PROVE  ServerInv'
<1>1. marks \in SUBSET Users /\ counter \in Int
  BY DEF ServerInv, ServerTypeOK
<1>2. CASE \E others \in BOOLEAN : RecountRead(others)
  <2>1. /\ recount' = [pc |-> "write", total |-> Cardinality(marks)] /\ quiet' = TRUE
        /\ UNCHANGED <<kind, marks, profile, counter, raced, missed>>
    BY <1>2 DEF RecountRead
  <2>2. Cardinality(marks) \in 0 .. Cardinality(Users)
    BY <1>1, MarksBounded
  <2>3. ServerTypeOK'
    BY <2>1, <2>2 DEF ServerInv, ServerTypeOK
  <2> QED
    BY <2>1, <2>3
    DEF ServerInv, QuietTotal, NoProfile, LikesMissNothing, ErrorIsExplained,
        LikesNeverNegative, ErrorIsBounded
<1>3. CASE RecountWrite
  <2>1. /\ recount.pc = "write" /\ counter' = recount.total /\ raced' = ~quiet /\ missed' = 0
        /\ recount' = NoRecount /\ profile /\ UNCHANGED <<kind, marks, profile, quiet>>
    BY <1>3 DEF RecountWrite
  <2>2. recount.total \in 0 .. Cardinality(Users)
    BY <2>1 DEF ServerInv, ServerTypeOK, NoRecount
  <2>3. ServerTypeOK'
    BY <2>1, <2>2, MarksBounded DEF ServerInv, ServerTypeOK
  <2>4. recount'.pc # "write"
    BY <2>1 DEF NoRecount
  <2>5. ErrorIsExplained'
    <3>1. CASE quiet
      <4>1. recount.total = Cardinality(marks) /\ Cardinality(marks) \in Nat
        BY <1>1, <2>1, <3>1, MarksBounded DEF ServerInv, QuietTotal
      <4> QED
        BY <2>1, <4>1 DEF ErrorIsExplained
    <3>2. CASE ~quiet
      <4>1. raced'
        BY <2>1, <3>2, Zenon
      <4> QED
        BY <4>1 DEF ErrorIsExplained
    <3> QED
      BY <3>1, <3>2
  <2>6. LikesNeverNegative' /\ ErrorIsBounded'
    BY <1>1, <2>1, <2>2, MarksBounded DEF LikesNeverNegative, ErrorIsBounded
  <2> QED
    BY <2>1, <2>3, <2>4, <2>5, <2>6 DEF ServerInv, QuietTotal, NoProfile, LikesMissNothing
<1>4. CASE RecountAbort
  <2>1. recount' = NoRecount /\ UNCHANGED <<kind, marks, profile, counter, quiet, raced, missed>>
    BY <1>4 DEF RecountAbort
  <2>2. recount'.pc # "write"
    BY <2>1 DEF NoRecount
  <2> QED
    BY <2>1, <2>2 DEF ServerInv, ServerTypeOK, QuietTotal, NoProfile, LikesMissNothing,
       ErrorIsExplained, LikesNeverNegative, ErrorIsBounded
<1> QED
  BY <1>2, <1>3, <1>4 DEF Recount

LEMMA ServerKeeps == ServerInv /\ [ServerNext]_serverVars => ServerInv'
<1>1. ASSUME ServerInv, UNCHANGED serverVars
      PROVE  ServerInv'
  BY <1>1 DEF serverVars, ServerInv, ServerTypeOK, QuietTotal, NoProfile, LikesMissNothing,
     ErrorIsExplained, LikesNeverNegative, ErrorIsBounded
<1> QED
  BY <1>1, MarkKeeps, UnmarkKeeps, CreateProfileKeeps, RecountKeeps DEF ServerNext

LEMMA ServerCorrect == Spec => []ServerInv
BY ServerImplemented, ServerInitially, ServerKeeps, PTL DEF ServerSpec

\* Retries, conflicts, answers that cross and requests that come late leave the counter right.  It
\* lacks exactly the rows that a late profile found, and beyond them it is wrong only after a
\* recount that wrote over a change; a quiet recount puts both right.
THEOREM CounterExplained == Spec => []ErrorIsExplained
BY ServerCorrect, PTL DEF ServerInv

\* However often recounts race with likes and follows, and however late a profile is created, the
\* counter is never further from the truth than there are users.
THEOREM ErrorBounded == Spec => []ErrorIsBounded
BY ServerCorrect, PTL DEF ServerInv

\* The counters of likes do not go below zero, raced recounts included.
THEOREM LikesStayNatural == Spec => []LikesNeverNegative
BY ServerCorrect, PTL DEF ServerInv

-----------------------------------------------------------------------------
(* Types of the browser *)

BrowserTypes ==
    /\ kind \in {"follow", "like", "discussion"}
    /\ cache \in State
    /\ local \in State \union {"none"}
    /\ request \in [Slots -> Request]
    /\ fetch \in {NoFetch, Due} \union [pc : {"read"}, value : State]
    /\ excused \in BOOLEAN

\* Requests and queries are told apart by their pc.
LEMMA RecordKinds ==
    ASSUME BrowserTypes
    PROVE  /\ \A s \in Slots : request[s].pc \in {"idle", "sent", "served", "late"}
           /\ \A s \in Slots : request[s] = Idle <=> request[s].pc = "idle"
           /\ \A s \in Slots : request[s].pc # "idle" => request[s].next \in State
           /\ \A s \in Slots : request[s].pc \in {"sent", "served"} => request[s].mine \in BOOLEAN
           /\ \A s \in Slots : request[s].pc = "served" => request[s].result \in {"ok", "conflict"}
           /\ fetch.pc \in {"none", "due", "read"}
           /\ fetch = NoFetch <=> fetch.pc = "none"
           /\ fetch = Due <=> fetch.pc = "due"
           /\ fetch.pc = "read" => fetch.value \in State
BY DEF BrowserTypes, Request, Idle, NoFetch, Due

LEMMA TypesInitially == Init => BrowserTypes
BY KindsAssumption DEF Init, ServerInit, BrowserTypes, State, Request, NoFetch

LEMMA Becomes ==
    ASSUME BrowserTypes, NEW s \in Slots, NEW r \in Request, request' = [request EXCEPT ![s] = r]
    PROVE  request' \in [Slots -> Request]
BY DEF BrowserTypes

LEMMA TypesStep == BrowserTypes /\ [Next]_vars => BrowserTypes'
<1> SUFFICES ASSUME BrowserTypes, [Next]_vars PROVE BrowserTypes'
  OBVIOUS
<1>0. kind' = kind
  BY EveryServerStep
  DEF ServerStep, ServerNext, serverVars, Mark, Unmark, CreateProfile, Recount, RecountRead,
      RecountWrite, RecountAbort
<1>1. CASE UNCHANGED browserVars
  BY <1>0, <1>1 DEF browserVars, BrowserTypes
<1>2. ASSUME NEW s \in Slots, Click(s)
      PROVE  BrowserTypes'
  <2>1. Not(Shown) \in State
    BY DEF Not, State
  <2>2. [pc |-> "sent", next |-> Not(Shown), mine |-> TRUE] \in Request
    BY <2>1 DEF Request
  <2>3. request' \in [Slots -> Request]
    BY <1>2, <2>2, Becomes DEF Click
  <2>4. cache' \in State /\ local' \in State \union {"none"}
        /\ fetch' \in {NoFetch, Due} \union [pc : {"read"}, value : State]
    BY <1>2, <2>1 DEF Click, BrowserTypes
  <2>5. excused' \in BOOLEAN
    BY <1>2, Zenon DEF Click, BrowserTypes
  <2> QED
    BY <1>0, <2>3, <2>4, <2>5 DEF BrowserTypes
<1>3. ASSUME NEW s \in Slots, Transport(s)
      PROVE  BrowserTypes'
  <2> DEFINE r == request[s]
  <2>1. CASE Serve(s)
    <3>1. r.next \in State /\ r.mine \in BOOLEAN
      BY <2>1, RecordKinds DEF Serve
    <3>2. PICK result \in {"ok", "conflict"} : Served(s, result)
      BY <2>1 DEF Serve
    <3>3. [pc |-> "served", next |-> r.next, mine |-> r.mine, result |-> result] \in Request
      BY <3>1 DEF Request
    <3>4. request' \in [Slots -> Request]
      BY <3>2, <3>3, Becomes DEF Served
    <3> QED
      BY <1>0, <2>1, <3>4 DEF Serve, BrowserTypes
  <2>2. ASSUME Succeed(s) \/ Fail(s), r.pc \in {"sent", "served"}
        PROVE  /\ cache' \in State /\ local' \in State \union {"none"}
               /\ fetch' \in {NoFetch, Due} \union [pc : {"read"}, value : State]
    <3>1. r.next \in State /\ Not(r.next) \in State
      BY <2>2, RecordKinds DEF Not, State
    <3> QED
      BY <2>2, <3>1 DEF Succeed, Fail, Restored, BrowserTypes
  <2>3. Idle \in Request
    BY DEF Request
  <2>4. CASE Answer(s) \/ FailWithoutEffect(s) \/ LoseAnswer(s)
    <3>1. request' \in [Slots -> Request]
      BY <2>3, <2>4, Becomes DEF Answer, FailWithoutEffect, LoseAnswer, Forget
    <3>2. excused' \in BOOLEAN
      BY <2>4, Zenon DEF Answer, FailWithoutEffect, LoseAnswer, BrowserTypes
    <3>3. (Succeed(s) \/ Fail(s)) /\ r.pc \in {"sent", "served"}
      BY <2>4 DEF Answer, FailWithoutEffect, LoseAnswer
    <3> QED
      BY <1>0, <2>2, <3>1, <3>2, <3>3 DEF BrowserTypes
  <2>5. CASE GiveUp(s)
    <3>1. r.next \in State
      BY <2>5, RecordKinds DEF GiveUp
    <3>2. [pc |-> "late", next |-> r.next] \in Request
      BY <3>1 DEF Request
    <3>3. request' \in [Slots -> Request]
      BY <2>5, <3>2, Becomes DEF GiveUp
    <3>4. excused' \in BOOLEAN
      BY <2>5, Zenon DEF GiveUp, BrowserTypes
    <3> QED
      BY <1>0, <2>2, <2>5, <3>3, <3>4 DEF GiveUp, BrowserTypes
  <2>6. CASE ServeLate(s)
    <3>1. request' \in [Slots -> Request]
      BY <2>3, <2>6, Becomes DEF ServeLate, Forget
    <3> QED
      BY <1>0, <2>6, <3>1 DEF ServeLate, BrowserTypes
  <2> QED
    BY <1>3, <2>1, <2>4, <2>5, <2>6 DEF Transport
<1>4. CASE Remount
  <2>1. ASSUME NEW s \in Slots, s \in Mine
        PROVE  [request[s] EXCEPT !.mine = FALSE] \in Request
    <3>1. request[s].pc \in {"sent", "served"}
      BY <2>1, RecordKinds DEF Mine, UnderWay
    <3>2. request[s] \in Request
      BY DEF BrowserTypes
    <3> QED
      BY <3>1, <3>2 DEF Request, Idle
  <2>2. request' \in [Slots -> Request]
    BY <1>4, <2>1 DEF Remount, BrowserTypes
  <2>3. excused' \in BOOLEAN
    BY <1>4, Zenon DEF Remount, BrowserTypes
  <2> QED
    BY <1>0, <1>4, <2>2, <2>3 DEF Remount, BrowserTypes
<1>5. CASE Refetch \/ FetchRead \/ FetchArrives \/ FetchFails
  <2>1. Truth \in State
    BY DEF Truth, State
  <2>2. UNCHANGED <<local, request>>
    BY <1>5 DEF Refetch, FetchRead, FetchArrives, FetchFails
  <2>3. cache' \in State
    BY <1>5, RecordKinds DEF Refetch, FetchRead, FetchArrives, FetchFails, BrowserTypes
  <2>4. fetch' \in {NoFetch, Due} \union [pc : {"read"}, value : State]
    BY <1>5, <2>1 DEF Refetch, FetchRead, FetchArrives, FetchFails, BrowserTypes
  <2>5. excused' \in BOOLEAN
    BY <1>5, Zenon DEF Refetch, FetchRead, FetchArrives, FetchFails, BrowserTypes
  <2> QED
    BY <1>0, <2>2, <2>3, <2>4, <2>5 DEF BrowserTypes
<1> QED
  BY <1>1, <1>2, <1>3, <1>4, <1>5 DEF Next, Others, vars

-----------------------------------------------------------------------------
(* Requests under way *)

LEMMA UnderWayIs ==
    ASSUME BrowserTypes
    PROVE  /\ UnderWay = {s \in Slots : request[s].pc # "idle"}
           /\ Mine = {s \in UnderWay : request[s].pc # "late" /\ request[s].mine}
BY RecordKinds DEF UnderWay, Mine

\* At most one request is the mounted view's.
OneMine == \A s, t \in Mine : s = t

LEMMA OneMineBounds == OneMine => Cardinality(Mine) <= 1
<1> SUFFICES ASSUME OneMine PROVE Cardinality(Mine) <= 1
  OBVIOUS
<1>1. CASE Mine = {}
  BY <1>1, FS_EmptySet
<1>2. CASE Mine # {}
  <2>1. PICK s \in Mine : TRUE
    BY <1>2
  <2>2. Mine = {s}
    BY <2>1 DEF OneMine
  <2> QED
    BY <2>2, FS_Singleton
<1> QED
  BY <1>1, <1>2

LEMMA OneMineStep == BrowserTypes /\ OneMine /\ [Next]_vars => OneMine'
<1> SUFFICES ASSUME BrowserTypes, OneMine, [Next]_vars PROVE OneMine'
  OBVIOUS
<1>1. ASSUME Mine' \subseteq Mine
      PROVE  OneMine'
  BY <1>1 DEF OneMine
<1>2. ASSUME UNCHANGED request
      PROVE  OneMine'
  <2>1. Mine' = Mine
    BY <1>2 DEF Mine, UnderWay
  <2> QED
    BY <1>1, <2>1
<1>3. ASSUME NEW s \in Slots, Click(s)
      PROVE  OneMine'
  <2>1. Mine = {}
    BY <1>3 DEF Click, Clickable
  <2>2. \A t \in Slots \ {s} : request'[t] = request[t]
    BY <1>3 DEF Click, BrowserTypes
  <2>3. Mine' \subseteq {s}
    BY <2>1, <2>2 DEF Mine, UnderWay
  <2> QED
    BY <2>3 DEF OneMine
<1>4. ASSUME NEW s \in Slots, Transport(s)
      PROVE  OneMine'
  <2>1. \A t \in Slots \ {s} : request'[t] = request[t]
    BY <1>4 DEF Transport, Serve, Served, Answer, FailWithoutEffect, LoseAnswer, Forget, GiveUp,
       ServeLate, BrowserTypes
  <2>2. \/ request'[s] = Idle \/ request'[s].pc = "late"
        \/ request[s].pc = "sent" /\ request'[s].pc = "served" /\ request'[s].mine = request[s].mine
    BY <1>4 DEF Transport, Serve, Served, Answer, FailWithoutEffect, LoseAnswer, Forget, GiveUp,
       ServeLate, BrowserTypes, Idle
  <2>3. ASSUME s \in Mine' PROVE s \in Mine
    <3>1. request'[s] # Idle /\ request'[s].pc # "late" /\ request'[s].mine
      BY <2>3 DEF Mine, UnderWay
    <3>2. request[s].pc = "sent" /\ request[s].mine
      BY <2>2, <3>1, Zenon
    <3> QED
      BY <3>2, UnderWayIs
  <2>4. Mine' \subseteq Mine
    BY <2>1, <2>3 DEF Mine, UnderWay
  <2> QED
    BY <1>1, <2>4
<1>5. CASE Remount
  <2>1. \A s \in Slots : s \in Mine => request'[s].mine = FALSE /\ request'[s].pc # "late"
    BY <1>5, RecordKinds DEF Remount, Mine, UnderWay, BrowserTypes, Request, Idle
  <2>2. \A s \in Slots : s \notin Mine => request'[s] = request[s]
    BY <1>5 DEF Remount
  <2>3. Mine' = {}
    BY <2>1, <2>2 DEF Mine, UnderWay
  <2> QED
    BY <1>1, <2>3
<1>6. CASE Refetch \/ FetchRead \/ FetchArrives \/ FetchFails \/ Others \/ UNCHANGED vars
  BY <1>2, <1>6 DEF Refetch, FetchRead, FetchArrives, FetchFails, Others, browserVars, vars
<1> QED
  BY <1>3, <1>4, <1>5, <1>6 DEF Next

\* The types of the server and the browser, and at most one request that the view waits for.
THEOREM TypeCorrect == Spec => []TypeOK
<1>1. Init => BrowserTypes /\ OneMine
  BY TypesInitially DEF Init, OneMine, Mine, UnderWay
<1>2. BrowserTypes /\ OneMine /\ [Next]_vars => (BrowserTypes /\ OneMine)'
  BY TypesStep, OneMineStep
<1>3. ServerInv /\ BrowserTypes /\ OneMine => TypeOK
  BY OneMineBounds DEF ServerInv, BrowserTypes, TypeOK
<1> QED
  BY <1>1, <1>2, <1>3, ServerCorrect, PTL DEF Spec

-----------------------------------------------------------------------------
(* What the browser shows *)

\* A follow: the last thing that was asked will be read again.
FollowInv ==
    kind = "follow" /\ ~excused =>
        /\ fetch.pc = "read" => fetch.value = Truth \/ UnderWay # {}
        /\ fetch = NoFetch => cache = Truth \/ UnderWay # {}

\* The one request under way has changed the rows when it was served, and will change back what
\* the page shows if it fails.
Alone(s) ==
    LET r == request[s] IN
    /\ r.pc \in {"sent", "served"}
    /\ fetch = NoFetch
    /\ \A t \in UnderWay : t = s
    /\ r.pc = "sent" => Truth = Not(r.next)
    /\ r.pc = "served" => r.result = "ok" /\ Truth = r.next
    /\ kind = "like" => cache = Not(r.next) /\ local = IF r.mine THEN r.next ELSE "none"
    /\ kind = "discussion" => r.mine /\ local = r.next

Still ==
    IF kind = "discussion" THEN Shown = Truth
    ELSE /\ local \in {"none", Truth}
         /\ IF fetch.pc = "read" THEN fetch.value = Truth ELSE cache = Truth

LikeInv ==
    kind # "follow" /\ ~excused =>
        /\ \A s \in UnderWay : Alone(s)
        /\ UnderWay = {} => Still

LEMMA Opposite == \A x \in State : Not(x) \in State /\ Not(x) # x /\ Not(Not(x)) = x
BY DEF State, Not

LEMMA TruthApplied ==
    ASSUME NEW next \in State, Apply(next)
    PROVE  Truth' = next
<1>1. CASE next = "on"
  BY <1>1 DEF Apply, Mark, Truth
<1>2. CASE next = "off"
  BY <1>2 DEF Apply, Unmark, Truth
<1> QED
  BY <1>1, <1>2 DEF State

\* Nothing but the requests of this browser touches its own mark.
LEMMA TruthKept ==
    ASSUME Others \/ UNCHANGED serverVars
    PROVE  Truth' = Truth
<1>1. CASE UNCHANGED serverVars
  BY <1>1 DEF serverVars, Truth
<1>2. ASSUME NEW u \in Users \ {Me}, Mark(u) \/ Unmark(u)
      PROVE  Truth' = Truth
  BY <1>2 DEF Mark, Unmark, Truth
<1>3. CASE Recount \/ CreateProfile
  BY <1>3 DEF CreateProfile, Recount, RecountRead, RecountWrite, RecountAbort, Truth
<1> QED
  BY <1>1, <1>2, <1>3 DEF Others

LEMMA KindKept == [Next]_vars => kind' = kind
BY EveryServerStep
DEF ServerStep, ServerNext, serverVars, Mark, Unmark, CreateProfile, Recount, RecountRead,
    RecountWrite, RecountAbort

LEMMA FollowStep == BrowserTypes /\ FollowInv /\ [Next]_vars => FollowInv'
<1> SUFFICES ASSUME BrowserTypes, FollowInv, [Next]_vars, kind' = "follow", ~excused'
             PROVE  /\ fetch'.pc = "read" => fetch'.value = Truth' \/ UnderWay' # {}
                    /\ fetch' = NoFetch => cache' = Truth' \/ UnderWay' # {}
  BY DEF FollowInv
<1>0. kind = "follow"
  BY KindKept
<1>1. ASSUME fetch' = Due
      PROVE  fetch'.pc # "read" /\ fetch' # NoFetch
  BY <1>1 DEF Due, NoFetch
<1>2. ASSUME NEW s \in Slots, Click(s) \/ Serve(s)
      PROVE  UnderWay' # {}
  <2>1. request'[s] # Idle
    BY <1>2 DEF Click, Serve, Served, BrowserTypes, Idle
  <2> QED
    BY <2>1 DEF UnderWay
<1>3. ASSUME NEW s \in Slots, Answer(s) \/ FailWithoutEffect(s) \/ LoseAnswer(s) \/ GiveUp(s)
      PROVE  fetch' = Due
  BY <1>0, <1>3 DEF Answer, FailWithoutEffect, LoseAnswer, GiveUp, Succeed, Fail
<1>4. ASSUME NEW s \in Slots
      PROVE  ~ServeLate(s)
  BY DEF ServeLate
<1>5. CASE Remount
  <2>1. ~excused /\ UNCHANGED <<fetch, cache>> /\ Truth' = Truth
    BY <1>5, TruthKept DEF Remount
  <2>2. ASSUME NEW s \in UnderWay
        PROVE  s \in UnderWay'
    <3>1. request[s].pc # "idle" /\ s \in Slots
      BY RecordKinds DEF UnderWay
    <3>2. request'[s].pc = request[s].pc
      BY <1>5, <3>1, RecordKinds DEF Remount, BrowserTypes, Request, Idle
    <3> QED
      BY <3>1, <3>2 DEF UnderWay, Idle
  <2> QED
    BY <1>0, <2>1, <2>2 DEF FollowInv
<1>6. CASE Refetch
  BY <1>1, <1>6 DEF Refetch
<1>7. CASE FetchRead
  <2>1. fetch' = [pc |-> "read", value |-> Truth] /\ Truth' = Truth
    BY <1>7, TruthKept DEF FetchRead
  <2> QED
    BY <2>1 DEF NoFetch
<1>8. CASE FetchArrives
  <2>1. /\ fetch.pc = "read" /\ ~excused /\ cache' = fetch.value /\ fetch' = NoFetch
        /\ UnderWay' = UnderWay /\ Truth' = Truth
    BY <1>8, TruthKept DEF FetchArrives, UnderWay
  <2> QED
    BY <1>0, <2>1 DEF FollowInv, NoFetch
<1>9. CASE Others \/ UNCHANGED vars
  <2>1. UNCHANGED <<cache, request, fetch, excused>> /\ Truth' = Truth
    BY <1>9, TruthKept DEF Others, browserVars, vars
  <2> QED
    BY <1>0, <2>1 DEF FollowInv, UnderWay
<1>10. ~FetchFails
  BY DEF FetchFails
<1> QED
  BY <1>1, <1>2, <1>3, <1>4, <1>5, <1>6, <1>7, <1>8, <1>9, <1>10 DEF Next, Transport

\* The request that is answered leaves nothing under way.
LEMMA NoneLeft ==
    ASSUME BrowserTypes, NEW s \in Slots, Alone(s), Forget(s)
    PROVE  UnderWay' = {}
BY DEF Alone, Forget, BrowserTypes, UnderWay

LEMMA LikeClick ==
    ASSUME BrowserTypes, LikeInv, kind # "follow", NEW s \in Slots, Click(s), ~excused'
    PROVE  (\A t \in UnderWay : Alone(t))' /\ UnderWay' # {}
<1> DEFINE r == [pc |-> "sent", next |-> Not(Shown), mine |-> TRUE]
<1>1. ~excused /\ UnderWay = {} /\ fetch = NoFetch
  BY DEF Click
<1>2. Still
  BY <1>1 DEF LikeInv
<1>3. Truth \in State
  BY DEF Truth, State
<1>4. Shown = Truth /\ (kind = "like" => cache = Truth)
  BY <1>1, <1>2, <1>3 DEF Still, Shown, BrowserTypes, NoFetch, State
<1>5. Truth' = Truth /\ kind' = kind
  BY TruthKept DEF Click, serverVars
<1>6. request'[s] = r /\ \A t \in Slots \ {s} : request'[t] = Idle
  BY <1>1 DEF Click, BrowserTypes, UnderWay
<1>7. UnderWay' = {s}
  <2>1. r # Idle
    BY DEF Idle
  <2> QED
    BY <1>6, <2>1 DEF UnderWay
<1>8. fetch' = NoFetch /\ cache' = cache /\ local' = Not(Truth)
  BY <1>1, <1>4 DEF Click
<1>9. Truth = Not(Not(Truth))
  BY <1>3, Opposite
<1>10. Alone(s)'
  <2>1. /\ request'[s].pc = "sent" /\ request'[s].next = Not(Truth) /\ request'[s].mine = TRUE
    BY <1>4, <1>6
  <2> QED
    BY <1>4, <1>5, <1>7, <1>8, <1>9, <2>1 DEF Alone
<1> QED
  BY <1>7, <1>10

LEMMA LikeServe ==
    ASSUME BrowserTypes, LikeInv, kind # "follow", NEW s \in Slots, Serve(s), ~excused'
    PROVE  (\A t \in UnderWay : Alone(t))' /\ UnderWay' # {}
<1> DEFINE r == request[s]
<1>1. ~excused /\ r.pc = "sent" /\ UNCHANGED <<cache, local, fetch>>
  BY DEF Serve
<1>2. s \in UnderWay /\ r.next \in State /\ r.mine \in BOOLEAN
  BY <1>1, RecordKinds, UnderWayIs
<1>3. Alone(s)
  BY <1>1, <1>2 DEF LikeInv
<1>4. Apply(r.next) /\ Served(s, "ok")
  <2>1. ~(r.next = "on" /\ Me \in marks)
    BY <1>1, <1>3 DEF Alone, Truth, Not
  <2> QED
    BY <2>1 DEF Serve
<1>5. Truth' = r.next
  BY <1>2, <1>4, TruthApplied
<1>6. kind' = kind
  BY <1>4 DEF Apply, Mark, Unmark
<1>7. /\ request'[s] = [pc |-> "served", next |-> r.next, mine |-> r.mine, result |-> "ok"]
      /\ \A t \in Slots \ {s} : request'[t] = request[t]
  BY <1>4 DEF Served, BrowserTypes
<1>8. UnderWay' = {s}
  <2>1. request'[s] # Idle
    BY <1>7 DEF Idle
  <2> QED
    BY <1>3, <1>7, <2>1 DEF Alone, UnderWay
<1>9. Alone(s)'
  <2>1. /\ request'[s].pc = "served" /\ request'[s].next = r.next
        /\ request'[s].mine = r.mine /\ request'[s].result = "ok"
    BY <1>7
  <2> QED
    BY <1>1, <1>3, <1>5, <1>6, <1>8, <2>1 DEF Alone
<1> QED
  BY <1>8, <1>9

LEMMA LikeEnds ==
    ASSUME BrowserTypes, LikeInv, kind # "follow", NEW s \in Slots,
           Answer(s) \/ FailWithoutEffect(s), ~excused'
    PROVE  UnderWay' = {} /\ Still'
<1> DEFINE r == request[s]
<1>1. ~excused /\ Forget(s) /\ UNCHANGED serverVars
  BY DEF Answer, FailWithoutEffect
<1>2. r.pc \in {"sent", "served"}
  BY DEF Answer, FailWithoutEffect
<1>3. s \in UnderWay /\ r.next \in State /\ r.mine \in BOOLEAN
  BY <1>2, RecordKinds, UnderWayIs
<1>4. Alone(s)
  BY <1>1, <1>3 DEF LikeInv
<1>5. UnderWay' = {}
  BY <1>1, <1>4, NoneLeft
<1>6. Truth' = Truth /\ kind' = kind /\ Truth \in State
  BY <1>1, TruthKept DEF serverVars, Truth, State
<1>7. kind \in {"like", "discussion"}
  BY DEF BrowserTypes
<1>8. CASE Answer(s)
  <2>1. Succeed(s) /\ Truth = r.next
    BY <1>4, <1>8 DEF Answer, Alone
  <2>2. fetch' = NoFetch /\ local' = local /\ (kind = "like" => cache' = Truth)
    BY <1>4, <1>7, <2>1 DEF Succeed, Alone
  <2>3. kind = "like" => local' \in {"none", Truth}
    BY <1>3, <1>4, <2>1, <2>2 DEF Alone
  <2>4. kind = "discussion" => local' = Truth
    BY <1>4, <2>1, <2>2 DEF Alone
  <2> QED
    BY <1>5, <1>6, <1>7, <2>2, <2>3, <2>4 DEF Still, Shown, NoFetch, State
<1>9. CASE FailWithoutEffect(s)
  <2>1. Fail(s) /\ Truth = Not(r.next)
    BY <1>4, <1>9 DEF FailWithoutEffect, Alone
  <2>2. fetch' = NoFetch /\ cache' = cache /\ local' = Restored(s)
    BY <1>4, <2>1 DEF Fail, Alone
  <2>3. kind = "like" => local' = "none" /\ cache' = Truth
    BY <1>4, <2>1, <2>2 DEF Alone, Restored
  <2>4. kind = "discussion" => local' = Truth
    BY <1>4, <2>1, <2>2 DEF Alone, Restored
  <2> QED
    BY <1>5, <1>6, <1>7, <2>2, <2>3, <2>4 DEF Still, Shown, NoFetch, State
<1> QED
  BY <1>8, <1>9

LEMMA LikeRemount ==
    ASSUME BrowserTypes, LikeInv, kind # "follow", Remount, ~excused'
    PROVE  (\A t \in UnderWay : Alone(t))' /\ (UnderWay' = {} => Still')
<1>1. ~excused /\ kind = "like" /\ kind' = kind /\ local' = "none" /\ UNCHANGED <<cache, fetch>>
  BY DEF Remount, BrowserTypes, serverVars
<1>2. Truth' = Truth
  BY TruthKept DEF Remount
<1>3. CASE UnderWay = {}
  <2>1. \A s \in Slots : request'[s] = request[s]
    BY <1>3 DEF Remount, Mine
  <2>2. UnderWay' = {}
    BY <1>3, <2>1 DEF UnderWay
  <2> QED
    BY <1>1, <1>2, <1>3, <2>2 DEF LikeInv, Still
<1>4. CASE UnderWay # {}
  <2>1. PICK s \in UnderWay : TRUE
    BY <1>4
  <2>2. s \in Slots /\ Alone(s) /\ request[s].mine \in BOOLEAN
    BY <1>1, <2>1, RecordKinds DEF LikeInv, UnderWay, Alone
  <2>3. /\ request'[s].pc = request[s].pc /\ request'[s].next = request[s].next
        /\ request[s].pc = "served" => request'[s].result = request[s].result
        /\ request'[s].mine = FALSE
    <3>1. CASE s \in Mine
      <4>1. request'[s] = [request[s] EXCEPT !.mine = FALSE]
        BY <2>2, <3>1 DEF Remount
      <4>2. request[s] \in Request /\ request[s].pc \in {"sent", "served"}
        BY <2>2 DEF BrowserTypes, Alone
      <4> QED
        BY <4>1, <4>2 DEF Request, Idle
    <3>2. CASE s \notin Mine
      <4>1. request'[s] = request[s]
        BY <2>2, <3>2 DEF Remount
      <4>2. request[s].mine = FALSE
        BY <2>1, <2>2, <3>2 DEF Mine, Alone
      <4> QED
        BY <4>1, <4>2
    <3> QED
      BY <3>1, <3>2
  <2>4. \A t \in Slots \ {s} : request'[t] = request[t]
    BY <2>2 DEF Remount, Alone, Mine
  <2>5. UnderWay' = {s}
    BY <2>2, <2>3, <2>4 DEF Alone, UnderWay, Idle
  <2>6. Alone(s)'
    BY <1>1, <1>2, <2>2, <2>3, <2>5 DEF Alone
  <2> QED
    BY <2>5, <2>6
<1> QED
  BY <1>3, <1>4

LEMMA LikeFetch ==
    ASSUME BrowserTypes, LikeInv, kind # "follow", Refetch \/ FetchRead \/ FetchArrives, ~excused'
    PROVE  UnderWay' = {} /\ Still'
<1>1. UNCHANGED <<local, request>> /\ kind' = kind /\ Truth' = Truth
  BY TruthKept DEF Refetch, FetchRead, FetchArrives, serverVars
<1>2. UnderWay' = UnderWay
  BY <1>1 DEF UnderWay
<1>3. CASE Refetch
  <2>1. ~excused /\ UnderWay = {} /\ fetch = NoFetch /\ fetch' = Due /\ cache' = cache
    BY <1>3 DEF Refetch
  <2>2. Still
    BY <2>1 DEF LikeInv
  <2> QED
    BY <1>1, <1>2, <2>1, <2>2 DEF Still, Shown, NoFetch, Due
<1>4. CASE FetchRead
  <2>1. fetch = Due /\ fetch' = [pc |-> "read", value |-> Truth] /\ cache' = cache
    BY <1>4 DEF FetchRead
  <2>2. CASE ~excused
    <3>1. UnderWay = {}
      BY <2>1, <2>2 DEF LikeInv, Alone, NoFetch, Due
    <3>2. Still
      BY <2>2, <3>1 DEF LikeInv
    <3> QED
      BY <1>1, <1>2, <2>1, <3>1, <3>2 DEF Still, Shown
  <2>3. CASE excused
    <3>1. kind # "discussion" /\ UnderWay = {} /\ local = "none"
      BY <1>4, <2>3 DEF FetchRead
    <3> QED
      BY <1>1, <1>2, <2>1, <3>1 DEF Still
  <2> QED
    BY <2>2, <2>3
<1>5. CASE FetchArrives
  <2>1. ~excused /\ fetch.pc = "read" /\ cache' = fetch.value /\ fetch' = NoFetch
    BY <1>5 DEF FetchArrives
  <2>2. UnderWay = {}
    BY <2>1 DEF LikeInv, Alone, NoFetch
  <2>3. Still
    BY <2>1, <2>2 DEF LikeInv
  <2> QED
    BY <1>1, <1>2, <2>1, <2>2, <2>3 DEF Still, Shown, NoFetch
<1> QED
  BY <1>3, <1>4, <1>5

LEMMA LikeStep == BrowserTypes /\ LikeInv /\ [Next]_vars => LikeInv'
<1> SUFFICES ASSUME BrowserTypes, LikeInv, [Next]_vars, kind' # "follow", ~excused'
             PROVE  (\A t \in UnderWay : Alone(t))' /\ (UnderWay' = {} => Still')
  BY DEF LikeInv
<1>0. kind # "follow"
  BY KindKept
<1>1. ASSUME NEW s \in Slots, Click(s)
      PROVE  (\A t \in UnderWay : Alone(t))' /\ UnderWay' # {}
  BY <1>0, <1>1, LikeClick
<1>2. ASSUME NEW s \in Slots, Serve(s)
      PROVE  (\A t \in UnderWay : Alone(t))' /\ UnderWay' # {}
  BY <1>0, <1>2, LikeServe
<1>3. ASSUME NEW s \in Slots, Answer(s) \/ FailWithoutEffect(s)
      PROVE  UnderWay' = {} /\ Still'
  BY <1>0, <1>3, LikeEnds
<1>4. ASSUME NEW s \in Slots
      PROVE  ~LoseAnswer(s) /\ ~GiveUp(s) /\ ~ServeLate(s)
  BY <1>0 DEF LoseAnswer, GiveUp, ServeLate
<1>5. CASE Remount
  BY <1>0, <1>5, LikeRemount
<1>6. CASE Refetch \/ FetchRead \/ FetchArrives
  BY <1>0, <1>6, LikeFetch
<1>7. ~FetchFails
  BY DEF FetchFails
<1>8. CASE Others \/ UNCHANGED vars
  <2>1. UNCHANGED browserVars /\ Truth' = Truth
    BY <1>8, TruthKept DEF Others, vars
  <2>2. kind' = kind
    BY KindKept
  <2> QED
    BY <1>0, <2>1, <2>2 DEF browserVars, LikeInv, Alone, Still, Shown, UnderWay
<1> QED
  BY <1>1, <1>2, <1>3, <1>4, <1>5, <1>6, <1>7, <1>8 DEF Next, Transport

LEMMA SettledInitially == Init => FollowInv /\ LikeInv
BY DEF Init, ServerInit, FollowInv, LikeInv, UnderWay, Still, Shown, Truth, NoFetch

\* Whatever crosses, gets lost or comes late, a button ends up showing what the server holds,
\* unless one of the events happened that the client cannot settle.
THEOREM ButtonsSettle == Spec => []SettledAgrees
<1>1. BrowserTypes /\ FollowInv /\ LikeInv => SettledAgrees
  <2> SUFFICES ASSUME BrowserTypes, FollowInv, LikeInv, UnderWay = {}, fetch = NoFetch, ~excused
               PROVE  Shown = Truth
    BY DEF SettledAgrees
  <2>1. CASE kind = "follow"
    BY <2>1 DEF FollowInv, Shown
  <2>2. CASE kind # "follow"
    BY <2>2 DEF LikeInv, Still, Shown, NoFetch, BrowserTypes
  <2> QED
    BY <2>1, <2>2
<1> QED
  BY <1>1, TypesInitially, TypesStep, SettledInitially, FollowStep, LikeStep, PTL DEF Spec
=============================================================================
