------------------------------ MODULE Sessions ------------------------------
(***************************************************************************)
(* One browser with several tabs and the session of one account: api.ts    *)
(* retries a rejected call once after a silent refresh that the tabs       *)
(* serialize with a Web Lock (the browser is one that has them),           *)
(* AuthContext shows a user, and the tabs tell each other of logins and    *)
(* logouts.                                                                *)
(*                                                                         *)
(* A refresh token is a signature over the account and the second in which *)
(* it was signed, and nothing else: the token is that second, and 0 is no  *)
(* cookie.  One action is one thing that happens to a request: it is sent  *)
(* with the cookie of that moment, served, received, or lost.  What        *)
(* follows a received answer up to the next request is the same event.     *)
(***************************************************************************)
EXTENDS Integers, Sequences

CONSTANTS
    Tabs,
    AllSlots,      \* the calls of each tab: "me" of refreshUser, "call" any other one
    MaxTime,       \* bound on the seconds in which something happens
    MaxMessages    \* bound on the undelivered messages of a tab

ASSUME SlotsAssumption == AllSlots \subseteq Tabs \X {"me", "call"}
ASSUME BoundsAssumption ==
    MaxTime \in Nat \ {0} /\ MaxMessages \in Nat \ {0}

VARIABLES
    now,          \* the server's clock, in seconds
    jar,          \* the cookies: whether access_token is there and valid, refresh_token
    shown,        \* whether AuthContext holds a user, in each tab
    req,          \* per tab: the /auth/me call of refreshUser, and one other call
    refresh,      \* _refreshPromise of each tab and its request
    locks,        \* the tabs that hold (first) or wait for the lock dfund-refresh-token
    channel,      \* BroadcastChannel: what each tab has yet to hear
    consumed,     \* the blocklist in Redis
    stray,        \* the tokens of refresh requests that the client has given up
    (***********************************************************************)
    (* History: read by no action                                          *)
    (***********************************************************************)
    reissued,     \* a pair was issued whose refresh token is on the blocklist
    excused       \* somebody asked to log out, an answer was lost or the server failed

history == <<reissued, excused>>
vars == <<now, jar, shown, req, refresh, locks, channel, consumed, stray, history>>

-----------------------------------------------------------------------------

Idle == [pc |-> "idle"]

None == [pc |-> "none"]

Sent(kind, valid, again) == [pc |-> "sent", kind |-> kind, valid |-> valid, again |-> again]

NoCookies == [access |-> FALSE, refresh |-> 0]

Cookies(token) == [access |-> TRUE, refresh |-> token]

Tell(t, message) ==
    channel' = [o \in Tabs |-> IF o = t THEN channel[o] ELSE Append(channel[o], message)]

CanTell == \A o \in Tabs : Len(channel[o]) < MaxMessages

Show(t, user) == shown' = [shown EXCEPT ![t] = user]

Free(t, slot) == <<t, slot>> \in AllSlots /\ req[<<t, slot>>] = Idle

Start(t, slot, kind) == req' = [req EXCEPT ![<<t, slot>>] = Sent(kind, jar.access, FALSE)]

-----------------------------------------------------------------------------
(* What users do *)

\* The tab becomes visible or was just opened.  refreshUser does nothing while it runs.
RefreshUser(t) ==
    /\ Free(t, "me")
    /\ Start(t, "me", "me")
    /\ UNCHANGED <<now, jar, shown, refresh, locks, channel, consumed, stray, history>>

\* The login page is shown to nobody who is logged in; the others are not offered to others.
Call(t, kind) ==
    /\ Free(t, "call")
    /\ kind = "login" <=> ~shown[t]
    /\ kind # "query" => CanTell
    /\ Start(t, "call", kind)
    /\ excused' = (excused \/ kind = "logout")
    /\ UNCHANGED <<now, jar, shown, refresh, locks, channel, consumed, stray, reissued>>

-----------------------------------------------------------------------------
(* The server and the network: ordinary calls *)

Answer(c, status, token) ==
    req' = [req EXCEPT ![c] = [pc |-> "answered", kind |-> @.kind, again |-> @.again,
                               status |-> status, token |-> token]]

\* generateTokens, whose refresh token is `now`
Sign == reissued' = (reissued \/ now \in consumed')

\* /auth/login answers wrong credentials with a 401 of its own.  /auth/logout is open to all
\* and never sees the refresh token, whose cookie has the path of /auth/refresh: it revokes
\* nothing.
Serve(c) ==
    LET r == req[c] IN
    /\ r.pc = "sent"
    /\ UNCHANGED <<now, jar, shown, refresh, locks, channel, consumed, stray, excused>>
    /\ \/ /\ r.kind \in {"me", "query"}
          /\ Answer(c, IF r.valid THEN "ok" ELSE "denied", 0)
          /\ UNCHANGED reissued
       \/ /\ r.kind = "login"
          /\ Answer(c, "ok", now)
          /\ Sign
       \/ /\ r.kind \in {"login", "logout"}
          /\ Answer(c, IF r.kind = "login" THEN "denied" ELSE "ok", 0)
          /\ UNCHANGED reissued

Finished(c) == req' = [req EXCEPT ![c] = Idle] /\ UNCHANGED <<refresh, locks>>

\* A 401 on the first attempt: the callers of a tab share one refresh.
JoinRefresh(c) ==
    LET t == c[1] IN
    /\ req' = [req EXCEPT ![c] = [pc |-> "waiting", kind |-> @.kind]]
    /\ IF refresh[t] # None
       THEN UNCHANGED <<refresh, locks>>
       ELSE /\ refresh' = [refresh EXCEPT ![t] = [pc |-> "queued"]]
            /\ locks' = Append(locks, t)
    /\ UNCHANGED <<jar, shown, channel>>

ReceiveOk(c) ==
    LET t == c[1]
        kind == req[c].kind IN
    /\ Finished(c)
    /\ \/ kind = "me" /\ Show(t, TRUE) /\ UNCHANGED <<jar, channel>>
       \/ kind = "query" /\ UNCHANGED <<jar, shown, channel>>
       \/ kind = "login" /\ jar' = Cookies(req[c].token) /\ Show(t, TRUE) /\ Tell(t, "login")
       \/ kind = "logout" /\ jar' = NoCookies /\ Show(t, FALSE) /\ Tell(t, "logout")

\* A call that is rejected again is not retried; refreshUser then has no user.
ReceiveFinalDenial(c) ==
    /\ Finished(c)
    /\ IF req[c].kind = "me" THEN Show(c[1], FALSE) ELSE UNCHANGED shown
    /\ UNCHANGED <<jar, channel>>

Receive(c) ==
    LET r == req[c] IN
    /\ r.pc = "answered"
    /\ \/ r.status = "ok" /\ ReceiveOk(c)
       \/ r.status = "denied" /\ ~r.again /\ JoinRefresh(c)
       \/ r.status = "denied" /\ r.again /\ ReceiveFinalDenial(c)
    /\ UNCHANGED <<now, consumed, stray, history>>

\* The network or the server fails, or the 15 s pass: the caller gets an error.  Only logout
\* goes on, and clears what the tab shows but no cookie.
Lost(c) ==
    /\ req[c].pc \in {"sent", "answered"}
    /\ Finished(c)
    /\ IF req[c].kind = "logout"
       THEN Show(c[1], FALSE) /\ Tell(c[1], "logout")
       ELSE UNCHANGED <<shown, channel>>
    /\ excused' = TRUE
    /\ UNCHANGED <<now, jar, consumed, stray, reissued>>

-----------------------------------------------------------------------------
(* doRefreshRequest and refreshTokens *)

Progress(t, record) == refresh' = [refresh EXCEPT ![t] = record]

Result(t, result, token) ==
    Progress(t, [pc |-> "answered", result |-> result, token |-> token])

\* Variant of HoldsLock: the lock covers a tab only.
Unlocked(t) == TRUE

HoldsLock(t) == t = Head(locks)

\* The request takes the cookie that is there when the lock is granted.
Grant(t) ==
    /\ refresh[t].pc = "queued"
    /\ HoldsLock(t)
    /\ Progress(t, [pc |-> "sent", token |-> jar.refresh])
    /\ UNCHANGED <<now, jar, shown, req, locks, channel, consumed, stray, history>>

\* SET NX
Unused(token) == token # 0 /\ token \notin consumed

\* The token is consumed, then verified, its user loaded and a pair signed.  429 and 503 are
\* server errors; every exception behind the consumption becomes a 401, also the database's.
ServeRefresh(t) ==
    LET token == refresh[t].token IN
    /\ refresh[t].pc = "sent"
    /\ \/ /\ Unused(token)
          /\ consumed' = consumed \union {token}
          /\ Result(t, "ok", now)
          /\ Sign
          /\ UNCHANGED excused
       \/ /\ ~Unused(token)
          /\ Result(t, "expired", 0)
          /\ UNCHANGED <<consumed, reissued, excused>>
       \/ /\ Unused(token)
          /\ consumed' = consumed \union {token}
          /\ Result(t, "expired", 0)
          /\ excused' = TRUE
          /\ UNCHANGED reissued
       \/ /\ consumed' \in {consumed, consumed \union ({token} \ {0})}
          /\ Result(t, "server-error", 0)
          /\ excused' = TRUE
          /\ UNCHANGED reissued
    /\ UNCHANGED <<now, jar, shown, req, locks, channel, stray>>

Waiting(t) == {c \in AllSlots : c[1] = t /\ req[c].pc = "waiting"}

\* Variant of Resolve: the lock is not released.
Kept(t) == Progress(t, None) /\ UNCHANGED locks

\* The promise is reset and the lock released, whatever the result.
Resolve(t) ==
    /\ Progress(t, None)
    /\ locks' = Tail(locks)

\* A 401 that was not healed goes back to its caller: refreshUser then has no user.
GiveUp(t, gone) ==
    /\ req' = [c \in AllSlots |-> IF c \in Waiting(t) THEN Idle ELSE req[c]]
    /\ IF gone \/ <<t, "me">> \in Waiting(t) THEN Show(t, FALSE) ELSE UNCHANGED shown
    /\ UNCHANGED jar

ReceiveRefresh(t) ==
    LET f == refresh[t] IN
    /\ f.pc = "answered"
    /\ Resolve(t)
    /\ \/ /\ f.result = "ok"
          /\ jar' = Cookies(f.token)
          /\ req' = [c \in AllSlots |-> IF c \in Waiting(t) THEN Sent(req[c].kind, TRUE, TRUE)
                                        ELSE req[c]]
          /\ UNCHANGED shown
       \/ f.result = "expired" /\ GiveUp(t, TRUE)
       \/ f.result = "server-error" /\ GiveUp(t, FALSE)
    /\ UNCHANGED <<now, channel, consumed, stray, history>>

\* Variant of Abortable: no abort timer.
OnlyAnswered(t) == FALSE

Abortable(t) == refresh[t].pc \in {"sent", "answered"}

\* The network fails or the 15 s pass; the server may get to the token later.
RefreshLost(t) ==
    /\ Abortable(t)
    /\ Resolve(t)
    /\ GiveUp(t, FALSE)
    /\ stray' = IF refresh[t].pc = "sent" THEN stray \union ({refresh[t].token} \ {0}) ELSE stray
    /\ excused' = TRUE
    /\ UNCHANGED <<now, channel, consumed, reissued>>

ServeStray(token) ==
    /\ token \in stray
    /\ stray' = stray \ {token}
    /\ consumed' = consumed \union {token}
    /\ UNCHANGED <<now, jar, shown, req, refresh, locks, channel, history>>

-----------------------------------------------------------------------------

\* A logout clears what is shown; a login makes the tab load its user, unless it is doing so.
Deliver(t) ==
    /\ channel[t] # <<>>
    /\ channel' = [channel EXCEPT ![t] = Tail(@)]
    /\ IF Head(channel[t]) = "logout"
       THEN Show(t, FALSE) /\ UNCHANGED req
       ELSE /\ IF Free(t, "me") THEN Start(t, "me", "me") ELSE UNCHANGED req
            /\ UNCHANGED shown
    /\ UNCHANGED <<now, jar, refresh, locks, consumed, stray, history>>

\* Time passes: a second, or the 15 minutes of an access token.
Tick ==
    /\ now < MaxTime
    /\ now' = now + 1
    /\ jar' \in {jar, [jar EXCEPT !.access = FALSE]}
    /\ UNCHANGED <<shown, req, refresh, locks, channel, consumed, stray, history>>

-----------------------------------------------------------------------------

\* A user logged in some time ago, and every tab shows it.
Init ==
    /\ now = 1
    /\ jar = Cookies(1)
    /\ shown = [t \in Tabs |-> TRUE]
    /\ req = [c \in AllSlots |-> Idle]
    /\ refresh = [t \in Tabs |-> None]
    /\ locks = <<>>
    /\ channel = [t \in Tabs |-> <<>>]
    /\ consumed = {}
    /\ stray = {}
    /\ reissued = FALSE
    /\ excused = FALSE

User(t) == RefreshUser(t) \/ \E kind \in {"query", "login", "logout"} : Call(t, kind)

Network ==
    \/ \E c \in AllSlots : Serve(c) \/ Receive(c) \/ Lost(c)
    \/ \E t \in Tabs :
          \/ Grant(t)
          \/ ServeRefresh(t)
          \/ ReceiveRefresh(t)
          \/ RefreshLost(t)
          \/ Deliver(t)
    \/ \E token \in stray : ServeStray(token)

Next == (\E t \in Tabs : User(t)) \/ Network \/ Tick

\* A browser grants a free lock, runs its timers and handles what it received.  The server
\* owes no answer.
Fairness ==
    \A t \in Tabs : WF_vars(Grant(t)) /\ WF_vars(ReceiveRefresh(t) \/ RefreshLost(t))

Spec == Init /\ [][Next]_vars /\ Fairness

-----------------------------------------------------------------------------

Kinds == {"me", "query", "login", "logout"}

Token == 0 .. MaxTime

Request ==
    {Idle}
      \union [pc : {"sent"}, kind : Kinds, valid : BOOLEAN, again : BOOLEAN]
      \union [pc : {"answered"}, kind : Kinds, again : BOOLEAN, status : {"ok", "denied"},
              token : Token]
      \union [pc : {"waiting"}, kind : Kinds]

Refreshing ==
    {None, [pc |-> "queued"]}
      \union [pc : {"sent"}, token : Token]
      \union [pc : {"answered"}, result : {"ok", "expired", "server-error"}, token : Token]

\* The state of the browser and the server; the tabs in the queue of the lock are those that
\* refresh, the first one alone has a request under way, and who waits has a refresh to wait
\* for (attemptTokenRefresh).
TypeOK ==
    /\ now \in 1 .. MaxTime
    /\ jar \in [access : BOOLEAN, refresh : Token]
    /\ shown \in [Tabs -> BOOLEAN]
    /\ req \in [AllSlots -> Request]
    /\ refresh \in [Tabs -> Refreshing]
    /\ channel \in [Tabs -> Seq({"login", "logout"})]
    /\ consumed \subseteq 1 .. now /\ stray \subseteq 1 .. now
    /\ reissued \in BOOLEAN /\ excused \in BOOLEAN
    /\ locks \in Seq(Tabs)
    /\ \A t \in Tabs :
          /\ refresh[t] # None <=> \E i \in DOMAIN locks : locks[i] = t
          /\ refresh[t].pc \in {"sent", "answered"} => t = Head(locks)
    /\ \A t \in Tabs : Waiting(t) # {} <=> refresh[t] # None

\* No caller waits for ever on the shared refresh, nor a tab on the lock of another one, also
\* when the server never answers.
EveryWaitEnds == \A t \in Tabs : (Waiting(t) # {}) ~> (Waiting(t) = {})

\* As long as no answer is lost, a user who did not log out is sent to the
\* login page only where a pair was issued whose refresh token was consumed already, in the
\* second in which it was issued: the tabs never race each other for a token.
NoRaceLogout ==
    [][\A t \in Tabs :
          shown[t] /\ ~shown'[t] => (excused \/ reissued)']_vars

-----------------------------------------------------------------------------

\* "Queuing behind the lock means the second tab's request only fires after the first tab's
\* Set-Cookie has already landed, so it refreshes from the new cookie": a user who did not log
\* out stays logged in.  The second refresh of the same second yields the token it consumed.
NoSpuriousLogout ==
    [][\A t \in Tabs :
          shown[t] /\ ~shown'[t] => excused']_vars
=============================================================================
