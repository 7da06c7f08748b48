--------------------------- MODULE AccountsProofs ---------------------------
(***************************************************************************)
(* The password and the lockout of an account, for any number of requests  *)
(* that run at the same time and any bounds.                               *)
(***************************************************************************)
EXTENDS Accounts, FiniteSetTheorems, TLAPS

-----------------------------------------------------------------------------
(* Types *)

\* Every password that a request or a session knows of was invented.
Invented ==
    /\ \A s \in Slots : request[s].pc \in {"clear", "sign"} =>
           request[s].basis \in 1 .. passwords /\ request[s].read \in 1 .. passwords
    /\ \A s \in Slots : request[s].pc \in {"hash", "store"} =>
           request[s].new \in 1 .. passwords /\ request[s].begun \in 1 .. now
    /\ \A s \in Slots : request[s].pc = "store" => request[s].at \in request[s].begun .. now
    /\ \A t \in sessions : t.basis \in 1 .. passwords /\ t.iat \in 1 .. now

TypeInv == TypeOK /\ Invented

LEMMA Bounds == /\ MaxAttempts \in Nat /\ MaxAttempts > 0
                /\ MaxTime \in Nat /\ MaxTime > 0
                /\ MaxPasswords \in Nat /\ MaxPasswords > 0
                /\ MaxLinks \in Nat
BY BoundsAssumption

\* The fields of a request, by its pc
LEMMA SlotFields ==
    ASSUME TypeOK, NEW s \in Slots
    PROVE  /\ request[s].pc \in {"idle", "failed", "expire", "clear", "sign", "hash", "store"}
           /\ request[s] = Idle <=> request[s].pc = "idle"
           /\ request[s].pc \in {"clear", "sign"} =>
                 request[s].tainted \in BOOLEAN /\ request[s].basis \in 1 .. MaxPasswords
                 /\ request[s].read \in 1 .. MaxPasswords
           /\ request[s].pc \in {"hash", "store"} =>
                 request[s].op \in {"reset", "change"} /\ request[s].new \in 1 .. MaxPasswords
                 /\ request[s].begun \in 1 .. MaxTime
           /\ request[s].pc = "store" => request[s].at \in 1 .. MaxTime
<1>1. request[s] \in Request
  BY DEF TypeOK
<1> QED
  BY <1>1 DEF Request, Idle

LEMMA TypesInitially == Init => TypeInv
<1> SUFFICES ASSUME Init PROVE TypeInv
  OBVIOUS
<1>1. request \in [Slots -> Request]
  BY DEF Init, Request, Idle
<1>2. sessions \subseteq Session
  BY Bounds DEF Init, Session
<1>3. TypeOK
  <2>1. /\ now \in 1 .. MaxTime /\ attempts \in Nat
        /\ passwords \in 1 .. MaxPasswords /\ password \in 1 .. passwords
        /\ changedAt \in 0 .. now /\ storedAt \in 1 .. now /\ ended \in 0 .. storedAt
        /\ links \in 0 .. MaxLinks /\ resetToken \in 0 .. links
    BY Bounds DEF Init
  <2>2. ttl \in BOOLEAN /\ orphaned \in BOOLEAN /\ ~ttl
    BY Zenon DEF Init
  <2> QED
    BY <1>1, <1>2, <2>1, <2>2, Zenon DEF TypeOK
<1>4. Invented
  <2>1. \A s \in Slots : request[s].pc = "idle"
    BY DEF Init, Idle
  <2>2. \A t \in sessions : t.basis = 1 /\ t.iat = 1
    BY DEF Init
  <2>3. passwords = 1 /\ now = 1
    BY DEF Init
  <2> QED
    BY <2>1, <2>2, <2>3 DEF Invented
<1> QED
  BY <1>3, <1>4 DEF TypeInv

\* A step of one request that leaves the rest of the types to be shown
LEMMA OneRequest ==
    ASSUME TypeInv, NEW s \in Slots, NEW r \in Request, Continue(s, r),
           passwords <= passwords', now <= now', passwords' \in Nat, now' \in Nat,
           UNCHANGED sessions,
           r.pc \in {"clear", "sign"} => r.basis \in 1 .. passwords' /\ r.read \in 1 .. passwords',
           r.pc \in {"hash", "store"} => r.new \in 1 .. passwords' /\ r.begun \in 1 .. now',
           r.pc = "store" => r.at \in r.begun .. now'
    PROVE  request' \in [Slots -> Request] /\ Invented'
<1>1. request' = [request EXCEPT ![s] = r] /\ request \in [Slots -> Request]
  BY DEF Continue, TypeInv, TypeOK
<1>2. now \in Nat /\ passwords \in Nat
  BY Bounds DEF TypeInv, TypeOK
<1>3. \A t \in Slots : request'[t] = IF t = s THEN r ELSE request[t]
  BY <1>1
<1> QED
  BY <1>1, <1>2, <1>3 DEF TypeInv, Invented

LEMMA TypesStep == TypeInv /\ [Next]_vars => TypeInv'
<1> SUFFICES ASSUME TypeInv, [Next]_vars PROVE TypeInv'
  OBVIOUS
<1> USE Bounds
<1>0. now \in Nat /\ passwords \in Nat /\ TypeOK
  BY DEF TypeInv, TypeOK
<1>1. CASE UNCHANGED vars
  BY <1>1 DEF vars, lockout, account, TypeInv, TypeOK, Invented
<1>2. Idle \in Request /\ Idle.pc = "idle"
  BY DEF Request, Idle
<1>3. ASSUME NEW s \in Slots, NEW guess \in 0 .. passwords, BeginLogin(s, guess)
      PROVE  TypeInv'
  <2> DEFINE r == IF guess = password THEN Signing("clear", guess, FALSE) ELSE [pc |-> "failed"]
  <2>1. Continue(s, r) /\ UNCHANGED <<now, lockout, account, sessions, passwords, links>>
    BY <1>3 DEF BeginLogin
  <2>2. password \in 1 .. passwords /\ password \in 1 .. MaxPasswords
    BY DEF TypeInv, TypeOK
  <2>3. /\ r \in Request
        /\ r.pc \in {"clear", "sign"} => r.basis \in 1 .. passwords /\ r.read \in 1 .. passwords
        /\ r.pc \notin {"hash", "store"}
    BY <2>2 DEF Request, Signing
  <2> HIDE DEF r
  <2>4. request' \in [Slots -> Request] /\ Invented'
    BY <1>0, <2>1, <2>3, OneRequest
  <2> QED
    BY <2>1, <2>4 DEF lockout, account, TypeInv, TypeOK
<1>4. ASSUME NEW s \in Slots, NEW t \in sessions, BeginRefresh(s, t)
      PROVE  TypeInv'
  <2> DEFINE b == Accepted(t) /\ Stale(t)
             r == Signing("sign", t.basis, b)
  <2>1. Continue(s, r) /\ UNCHANGED <<now, lockout, account, sessions, passwords, links>>
    BY <1>4 DEF BeginRefresh
  <2>2. password \in 1 .. passwords /\ password \in 1 .. MaxPasswords
        /\ t.basis \in 1 .. passwords /\ t.basis \in 1 .. MaxPasswords
    <3>1. t \in Session
      BY DEF TypeInv, TypeOK
    <3> QED
      BY <3>1 DEF Session, TypeInv, TypeOK, Invented
  <2>3. b \in BOOLEAN
    BY Zenon DEF Accepted, Stale
  <2> HIDE DEF b
  <2>4. /\ r \in Request
        /\ r.pc \in {"clear", "sign"} => r.basis \in 1 .. passwords /\ r.read \in 1 .. passwords
        /\ r.pc \notin {"hash", "store"}
    BY <2>2, <2>3 DEF Request, Signing
  <2> HIDE DEF r
  <2>5. request' \in [Slots -> Request] /\ Invented'
    BY <1>0, <2>1, <2>4, OneRequest
  <2> QED
    BY <2>1, <2>5 DEF lockout, account, TypeInv, TypeOK
<1>5. ASSUME NEW s \in Slots, NEW op \in {"reset", "change"}, BeginStore(s, op)
      PROVE  TypeInv'
  <2> DEFINE r == [pc |-> "hash", op |-> op, new |-> passwords + 1, begun |-> now]
  <2>1. /\ Continue(s, r) /\ passwords < MaxPasswords /\ passwords' = passwords + 1
        /\ UNCHANGED <<now, lockout, account, sessions, links>>
    BY <1>5 DEF BeginStore
  <2>2. /\ r \in Request /\ r.pc = "hash" /\ r.new \in 1 .. passwords'
        /\ r.begun \in 1 .. now
    <3>1. now \in 1 .. MaxTime
      BY DEF TypeInv, TypeOK
    <3> QED
      BY <1>0, <2>1, <3>1 DEF Request
  <2> HIDE DEF r
  <2>3. request' \in [Slots -> Request] /\ Invented'
    BY <1>0, <2>1, <2>2, OneRequest
  <2> QED
    BY <1>0, <2>1, <2>3 DEF lockout, account, TypeInv, TypeOK
<1>6. ASSUME NEW s \in Slots, CountFailure(s) \/ SetExpiry(s) \/ Abort(s)
      PROVE  TypeInv'
  <2>1. PICK r \in {Idle, [pc |-> "expire"]} : Continue(s, r)
    BY <1>6 DEF CountFailure, SetExpiry, Abort
  <2>2. r \in Request /\ r.pc \in {"idle", "expire"}
    BY DEF Request, Idle
  <2>3. UNCHANGED <<now, account, sessions, passwords, links>>
    BY <1>6 DEF CountFailure, SetExpiry, Abort
  <2>4. request' \in [Slots -> Request] /\ Invented'
    BY <1>0, <2>1, <2>2, <2>3, OneRequest
  <2>5. attempts' \in Nat /\ ttl' \in BOOLEAN /\ (ttl' => attempts' > 0)
    <3>1. attempts \in Nat /\ ttl \in BOOLEAN /\ (ttl => attempts > 0)
      BY DEF TypeInv, TypeOK
    <3>2. CASE CountFailure(s)
      <4>1. attempts' = attempts + 1
        BY <3>2 DEF CountFailure
      <4>2. attempts' \in Nat /\ attempts' > 0
        BY <3>1, <4>1
      <4>3. ttl' = ttl
        BY <3>2 DEF CountFailure
      <4> QED
        BY <3>1, <4>2, <4>3
    <3>3. CASE SetExpiry(s)
      <4>1. ttl' = (attempts > 0) /\ attempts' = attempts
        BY <3>3 DEF SetExpiry
      <4>2. CASE attempts > 0
        <5>1. ttl' = TRUE
          BY <4>1, <4>2
        <5> QED
          BY <3>1, <4>1, <4>2, <5>1
      <4>3. CASE ~(attempts > 0)
        <5>1. ~ttl'
          BY <4>1, <4>3, Zenon
        <5> QED
          BY <3>1, <4>1, <5>1
      <4> QED
        BY <4>2, <4>3
    <3>4. CASE Abort(s)
      BY <3>1, <3>4 DEF Abort
    <3> QED
      BY <1>6, <3>2, <3>3, <3>4
  <2>6. orphaned' \in BOOLEAN
    BY <1>6, Zenon DEF CountFailure, SetExpiry, Abort, TypeInv, TypeOK
  <2> QED
    BY <2>3, <2>4, <2>5, <2>6 DEF account, TypeInv, TypeOK
<1>7. ASSUME NEW s \in Slots, ClearAttempts(s)
      PROVE  TypeInv'
  <2> DEFINE r == [request[s] EXCEPT !.pc = "sign"]
  <2>1. /\ Continue(s, r) /\ attempts' = 0 /\ ttl' = FALSE
        /\ UNCHANGED <<now, orphaned, account, sessions, passwords, links>>
    BY <1>7 DEF ClearAttempts
  <2>2. request[s].pc = "clear" /\ request[s] \in Request
    BY <1>7 DEF ClearAttempts, TypeInv, TypeOK
  <2>3. r \in Request /\ r.pc = "sign" /\ r.basis = request[s].basis /\ r.read = request[s].read
    BY <2>2 DEF Request
  <2>4. r.basis \in 1 .. passwords /\ r.read \in 1 .. passwords
    BY <2>2, <2>3 DEF TypeInv, Invented
  <2> HIDE DEF r
  <2>5. request' \in [Slots -> Request] /\ Invented'
    BY <1>0, <2>1, <2>3, <2>4, OneRequest
  <2> QED
    BY <2>1, <2>5 DEF account, TypeInv, TypeOK
<1>8. ASSUME NEW s \in Slots, Sign(s)
      PROVE  TypeInv'
  <2> DEFINE r == request[s]
             t == [iat |-> now, basis |-> r.basis, tainted |-> r.tainted \/ r.read # password]
  <2>1. /\ Continue(s, Idle) /\ sessions' = sessions \union {t} /\ r.pc = "sign"
        /\ UNCHANGED <<now, lockout, account, passwords, links>>
    BY <1>8 DEF Sign
  <2>2. r.basis \in 1 .. passwords /\ r.basis \in 1 .. MaxPasswords /\ r.tainted \in BOOLEAN
    BY <1>0, <2>1, SlotFields DEF TypeInv, Invented
  <2>3. t.tainted \in BOOLEAN
    BY <2>2, Zenon
  <2>4. t \in Session /\ t.iat \in 1 .. now /\ t.basis \in 1 .. passwords
    BY <2>2, <2>3 DEF Session, TypeInv, TypeOK
  <2> HIDE DEF t
  <2>5. request' = [request EXCEPT ![s] = Idle] /\ request' \in [Slots -> Request]
    BY <1>2, <2>1 DEF Continue, TypeInv, TypeOK
  <2>6. \A u \in Slots : request'[u] = IF u = s THEN Idle ELSE request[u]
    BY <2>5 DEF TypeInv, TypeOK
  <2>7. Invented'
    BY <1>2, <2>1, <2>4, <2>6 DEF TypeInv, Invented
  <2> QED
    BY <2>1, <2>4, <2>5, <2>7 DEF lockout, account, TypeInv, TypeOK
<1>9. ASSUME NEW s \in Slots, Stamp(s)
      PROVE  TypeInv'
  <2> DEFINE r == [pc |-> "store", op |-> request[s].op, new |-> request[s].new,
                   begun |-> request[s].begun, at |-> now]
  <2>1. Continue(s, r) /\ UNCHANGED <<now, lockout, account, sessions, passwords, links>>
        /\ request[s].pc = "hash"
    BY <1>9 DEF Stamp
  <2>2. /\ r \in Request /\ r.pc = "store" /\ r.new \in 1 .. passwords
        /\ r.begun \in 1 .. now /\ r.at \in r.begun .. now
    BY <1>0, <2>1, SlotFields DEF Request, TypeInv, TypeOK, Invented
  <2> HIDE DEF r
  <2>3. request' \in [Slots -> Request] /\ Invented'
    BY <1>0, <2>1, <2>2, OneRequest
  <2> QED
    BY <2>1, <2>3 DEF lockout, account, TypeInv, TypeOK
<1>10. ASSUME NEW s \in Slots, StorePassword(s)
       PROVE  TypeInv'
  <2>1. /\ Continue(s, Idle) /\ password' = request[s].new /\ changedAt' = request[s].at
        /\ resetToken' \in {0, resetToken} /\ storedAt' = now /\ request[s].pc = "store"
        /\ ended' \in {request[s].at, ended}
        /\ UNCHANGED <<now, lockout, sessions, passwords, links>>
    BY <1>10 DEF StorePassword, StampOf
  <2>2. request' \in [Slots -> Request] /\ Invented'
    BY <1>0, <1>2, <2>1, OneRequest
  <2>3. request[s].new \in 1 .. passwords /\ request[s].at \in 1 .. now
    BY <1>0, <2>1 DEF TypeInv, Invented
  <2>4. ended' \in 0 .. now
    BY <1>0, <2>1, <2>3 DEF TypeInv, TypeOK
  <2> QED
    BY <2>1, <2>2, <2>3, <2>4 DEF lockout, TypeInv, TypeOK
<1>11. CASE ForgotPassword \/ ExpireKey \/ ExpireLink
  <2>1. UNCHANGED <<now, password, changedAt, storedAt, ended, orphaned, sessions, request,
                    passwords>>
    BY <1>11 DEF ForgotPassword, ExpireKey, ExpireLink, lockout, account
  <2>2. \/ attempts' = attempts /\ ttl' = ttl
        \/ attempts' = 0 /\ ttl' = FALSE
    BY <1>11 DEF ForgotPassword, ExpireKey, ExpireLink, lockout
  <2>3. attempts \in Nat /\ ttl \in BOOLEAN /\ (ttl => attempts > 0)
    BY DEF TypeInv, TypeOK
  <2>4. attempts' \in Nat
    BY <2>2, <2>3
  <2>5. ttl' \in BOOLEAN /\ (ttl' => attempts' > 0)
    <3>1. CASE attempts' = attempts /\ ttl' = ttl
      BY <2>3, <3>1
    <3>2. CASE ttl' = FALSE
      <4>1. ttl' \in BOOLEAN /\ ~ttl'
        BY <3>2, Zenon
      <4> QED
        BY <4>1
    <3> QED
      BY <2>2, <3>1, <3>2
  <2>6. links' \in 0 .. MaxLinks /\ resetToken' \in 0 .. links'
    BY <1>11 DEF ForgotPassword, ExpireKey, ExpireLink, account, TypeInv, TypeOK
  <2>7. Invented'
    BY <2>1 DEF TypeInv, Invented
  <2> QED
    BY <2>1, <2>4, <2>5, <2>6, <2>7 DEF TypeInv, TypeOK
<1>12. CASE Tick
  <2>1. now' = now + 1 /\ now < MaxTime
        /\ UNCHANGED <<lockout, account, sessions, request, passwords, links>>
    BY <1>12 DEF Tick
  <2>2. Invented'
    BY <1>0, <2>1 DEF TypeInv, Invented
  <2> QED
    BY <1>0, <2>1, <2>2 DEF lockout, account, TypeInv, TypeOK
<1> QED
  BY <1>1, <1>3, <1>4, <1>5, <1>6, <1>7, <1>8, <1>9, <1>10, <1>11, <1>12
  DEF Next, Arrive, Proceed, BeginReset, BeginChange

LEMMA TypesHold == Spec => []TypeInv
BY TypesInitially, TypesStep, PTL DEF Spec

\* The account, the requests and the sessions keep their types, and every password that anybody
\* uses was invented by somebody.
THEOREM TypeCorrect == Spec => []TypeOK
BY TypesHold, PTL DEF TypeInv

-----------------------------------------------------------------------------
(* Sessions of an old password *)

\* A request that is to sign for an untainted session has read the password the session rests on.
\* Nobody but a request that read the account before the password was stored can sign for an old
\* password after it.
CleanRequests ==
    \A s \in Slots : request[s].pc \in {"clear", "sign"} /\ ~request[s].tainted
                        => request[s].basis = request[s].read

\* What the account says of its sessions is what the history says, crossing stores included: a
\* request that stores an older time than the one that is there was overtaken.
TimeKept == ended = changedAt

SessionInv == CleanRequests /\ TimeKept /\ OldSessionsEnd

LEMMA SessionsInitially == Init => SessionInv
BY DEF Init, SessionInv, CleanRequests, TimeKept, OldSessionsEnd, Accepted, Stale, Idle

\* A step that stores no password, signs nothing and begins nothing
LEMMA QuietSessions ==
    ASSUME SessionInv, UNCHANGED <<password, changedAt, storedAt, ended, sessions>>,
           \A s \in Slots : request'[s].pc \in {"clear", "sign"} =>
               /\ request[s].pc \in {"clear", "sign"}
               /\ request'[s].tainted = request[s].tainted
               /\ request'[s].basis = request[s].basis
               /\ request'[s].read = request[s].read
    PROVE  SessionInv'
<1>1. OldSessionsEnd' /\ TimeKept'
  BY DEF SessionInv, TimeKept, OldSessionsEnd, Accepted, Stale
<1>2. CleanRequests'
  BY DEF SessionInv, CleanRequests
<1> QED
  BY <1>1, <1>2 DEF SessionInv

LEMMA StoreEndsSessions ==
    ASSUME TypeInv, SessionInv, NEW s \in Slots, StorePassword(s)
    PROVE  SessionInv'
<1> DEFINE r == request[s]
<1>1. /\ storedAt' = now /\ sessions' = sessions /\ r.pc = "store" /\ changedAt' = r.at
      /\ ended' = IF Overtaken(r) \/ r.at > ended THEN r.at ELSE ended
  BY DEF StorePassword, StampOf
<1>2. \A t \in sessions : t.iat <= now
  BY Bounds DEF TypeInv, TypeOK, Invented
<1>3. TimeKept'
  <2>1. now \in Nat /\ storedAt \in Nat /\ ended \in 0 .. storedAt
    BY Bounds DEF TypeInv, TypeOK
  <2>2. r.begun \in 1 .. now /\ r.at \in r.begun .. now
    BY <1>1 DEF TypeInv, Invented
  <2>3. ~Overtaken(r) => ended <= r.at
    BY <2>1, <2>2 DEF Overtaken
  <2> QED
    BY <1>1, <2>1, <2>2, <2>3 DEF TimeKept
<1>4. OldSessionsEnd'
  BY <1>1, <1>2, <1>3 DEF TimeKept, OldSessionsEnd, Accepted
<1>5. \A u \in Slots : request'[u] = IF u = s THEN Idle ELSE request[u]
  BY DEF StorePassword, Continue, TypeInv, TypeOK
<1>6. CleanRequests'
  BY <1>5 DEF SessionInv, CleanRequests, Idle
<1> QED
  BY <1>3, <1>4, <1>6 DEF SessionInv

LEMMA SignKeepsSessions ==
    ASSUME TypeInv, SessionInv, NEW s \in Slots, Sign(s)
    PROVE  SessionInv'
<1> DEFINE r == request[s]
           t == [iat |-> now, basis |-> r.basis, tainted |-> r.tainted \/ r.read # password]
<1>1. /\ r.pc = "sign" /\ sessions' = sessions \union {t} /\ request' = [request EXCEPT ![s] = Idle]
      /\ UNCHANGED account
  BY DEF Sign, Continue
<1>2. \A u \in Slots : request'[u] = IF u = s THEN Idle ELSE request[u]
  BY <1>1 DEF TypeInv, TypeOK
<1>3. CleanRequests'
  BY <1>2 DEF SessionInv, CleanRequests, Idle
<1>4. r.tainted \in BOOLEAN
  BY <1>1, SlotFields DEF TypeInv
<1>5. t.tainted \/ t.basis = password
  <2>1. CASE r.tainted \/ r.read # password
    BY <2>1, Zenon
  <2>2. CASE ~r.tainted /\ r.read = password
    BY <1>1, <2>2 DEF SessionInv, CleanRequests
  <2> QED
    BY <2>1, <2>2
<1> HIDE DEF t
<1>6. OldSessionsEnd' /\ TimeKept'
  BY <1>1, <1>5 DEF account, SessionInv, TimeKept, OldSessionsEnd, Accepted, Stale
<1> QED
  BY <1>3, <1>6 DEF SessionInv

LEMMA BeginKeepsSessions ==
    ASSUME TypeInv, SessionInv, NEW s \in Slots, NEW basis, NEW b \in BOOLEAN, NEW pc,
           Continue(s, Signing(pc, basis, b)), b \/ basis = password,
           UNCHANGED <<account, sessions>>
    PROVE  SessionInv'
<1>1. \A u \in Slots : request'[u] = IF u = s THEN Signing(pc, basis, b) ELSE request[u]
  BY DEF Continue, TypeInv, TypeOK
<1>2. /\ Signing(pc, basis, b).tainted = b /\ Signing(pc, basis, b).basis = basis
      /\ Signing(pc, basis, b).read = password
  BY DEF Signing
<1>3. CleanRequests'
  BY <1>1, <1>2 DEF SessionInv, CleanRequests
<1>4. OldSessionsEnd' /\ TimeKept'
  BY DEF account, SessionInv, TimeKept, OldSessionsEnd, Accepted, Stale
<1> QED
  BY <1>3, <1>4 DEF SessionInv

LEMMA SessionsStep == TypeInv /\ SessionInv /\ [Next]_vars => SessionInv'
<1> SUFFICES ASSUME TypeInv, SessionInv, [Next]_vars PROVE SessionInv'
  OBVIOUS
<1>1. ASSUME NEW s \in Slots, NEW guess \in 0 .. passwords, BeginLogin(s, guess)
      PROVE  SessionInv'
  <2>1. UNCHANGED <<account, sessions>>
    BY <1>1 DEF BeginLogin
  <2>2. CASE guess = password
    BY <1>1, <2>1, <2>2, BeginKeepsSessions DEF BeginLogin
  <2>3. CASE guess # password
    <3>1. \A u \in Slots : request'[u] = IF u = s THEN [pc |-> "failed"] ELSE request[u]
      BY <1>1, <2>3 DEF BeginLogin, Continue, TypeInv, TypeOK
    <3> QED
      BY <2>1, <3>1, QuietSessions DEF account
  <2> QED
    BY <2>2, <2>3
<1>2. ASSUME NEW s \in Slots, NEW t \in sessions, BeginRefresh(s, t)
      PROVE  SessionInv'
  <2> DEFINE b == Accepted(t) /\ Stale(t)
  <2>1. Accepted(t) /\ Continue(s, Signing("sign", t.basis, b)) /\ UNCHANGED <<account, sessions>>
    BY <1>2 DEF BeginRefresh, Renewable
  <2>3. b \in BOOLEAN
    BY Zenon DEF Accepted, Stale
  <2>4. b \/ t.basis = password
    BY <2>1 DEF Stale
  <2> HIDE DEF b
  <2> QED
    BY <2>1, <2>3, <2>4, BeginKeepsSessions
<1>3. ASSUME NEW s \in Slots, ClearAttempts(s)
      PROVE  SessionInv'
  <2>1. /\ request[s].pc = "clear" /\ request[s] \in Request
        /\ request' = [request EXCEPT ![s] = [request[s] EXCEPT !.pc = "sign"]]
        /\ UNCHANGED <<account, sessions>>
    BY <1>3 DEF ClearAttempts, Continue, TypeInv, TypeOK
  <2>2. \A u \in Slots :
            request'[u] = IF u = s THEN [request[s] EXCEPT !.pc = "sign"] ELSE request[u]
    BY <2>1 DEF TypeInv, TypeOK
  <2>3. /\ [request[s] EXCEPT !.pc = "sign"].tainted = request[s].tainted
        /\ [request[s] EXCEPT !.pc = "sign"].basis = request[s].basis
        /\ [request[s] EXCEPT !.pc = "sign"].read = request[s].read
    BY <2>1 DEF Request
  <2> QED
    BY <2>1, <2>2, <2>3, QuietSessions DEF account
<1>4. ASSUME NEW s \in Slots,
             \/ CountFailure(s) \/ SetExpiry(s) \/ Stamp(s) \/ Abort(s)
             \/ \E op \in {"reset", "change"} : BeginStore(s, op)
      PROVE  SessionInv'
  <2>1. PICK r : Continue(s, r) /\ r.pc \notin {"clear", "sign"}
    BY <1>4 DEF CountFailure, SetExpiry, Stamp, Abort, BeginStore, Idle
  <2>2. \A u \in Slots : request'[u] = IF u = s THEN r ELSE request[u]
    BY <2>1 DEF Continue, TypeInv, TypeOK
  <2>3. UNCHANGED <<account, sessions>>
    BY <1>4 DEF CountFailure, SetExpiry, Stamp, Abort, BeginStore
  <2> QED
    BY <2>1, <2>2, <2>3, QuietSessions DEF account
<1>5. CASE ForgotPassword \/ ExpireKey \/ ExpireLink \/ Tick \/ UNCHANGED vars
  <2>1. UNCHANGED <<password, changedAt, storedAt, ended, sessions, request>>
    BY <1>5 DEF ForgotPassword, ExpireKey, ExpireLink, Tick, vars, account
  <2> QED
    BY <2>1, QuietSessions
<1> QED
  BY <1>1, <1>2, <1>3, <1>4, <1>5, StoreEndsSessions, SignKeepsSessions
  DEF Next, Arrive, Proceed, BeginReset, BeginChange

\* A change or a reset ends every session that was signed before the second in which it took its
\* time, for good unless it is overtaken; what survives of an old password was signed from then
\* until the store, or descends from such a session or from a request that had read the account.
THEOREM OldPasswordsEnd == Spec => []OldSessionsEnd
<1>1. SessionInv => OldSessionsEnd
  BY DEF SessionInv
<1> QED
  BY <1>1, TypesHold, SessionsInitially, SessionsStep, PTL DEF Spec

-----------------------------------------------------------------------------
(* The lockout counter *)

Failed == {s \in Slots : request[s].pc = "failed"}

\* Every request that found the counter below its limit may still count, but each of them once.
AttemptInv == attempts + Cardinality(Failed) <= MaxAttempts - 1 + Cardinality(Slots)

LEMMA FailedBounds ==
    /\ IsFiniteSet(Failed) /\ Cardinality(Failed) \in Nat /\ Cardinality(Slots) \in Nat
    /\ Cardinality(Failed) <= Cardinality(Slots)
BY SlotsAssumption, FS_Subset, FS_CardinalityType DEF Failed

LEMMA AttemptsInitially == Init => AttemptInv
<1> SUFFICES ASSUME Init PROVE AttemptInv
  OBVIOUS
<1>1. attempts = 0
  BY DEF Init
<1> QED
  BY <1>1, FailedBounds, Bounds DEF AttemptInv

\* A step that neither counts nor adds a failed login
LEMMA FewerFailed ==
    ASSUME TypeInv, AttemptInv, attempts' \in Nat, attempts' <= attempts, Failed' \subseteq Failed
    PROVE  AttemptInv'
<1>1. Cardinality(Failed') <= Cardinality(Failed) /\ Cardinality(Failed') \in Nat
  BY FailedBounds, FS_Subset, FS_CardinalityType
<1>2. attempts \in Nat
  BY DEF TypeInv, TypeOK
<1> QED
  BY <1>1, <1>2, FailedBounds, Bounds DEF AttemptInv

LEMMA AttemptsStep == TypeInv /\ TypeInv' /\ AttemptInv /\ [Next]_vars => AttemptInv'
<1> SUFFICES ASSUME TypeInv, TypeInv', AttemptInv, [Next]_vars PROVE AttemptInv'
  OBVIOUS
<1>0. attempts \in Nat /\ attempts' \in Nat
  BY DEF TypeInv, TypeOK
<1>1. ASSUME NEW s \in Slots, NEW r, Continue(s, r), r.pc # "failed", attempts' <= attempts
      PROVE  AttemptInv'
  <2>1. \A u \in Slots : request'[u] = IF u = s THEN r ELSE request[u]
    BY <1>1 DEF Continue, TypeInv, TypeOK
  <2>2. Failed' \subseteq Failed
    BY <1>1, <2>1 DEF Failed
  <2> QED
    BY <1>0, <1>1, <2>2, FewerFailed
<1>2. ASSUME NEW s \in Slots, NEW guess \in 0 .. passwords, BeginLogin(s, guess)
      PROVE  AttemptInv'
  <2>1. attempts' = attempts /\ attempts <= MaxAttempts - 1
    BY <1>0, <1>2, Bounds DEF BeginLogin, Open, lockout
  <2>2. Failed' \in SUBSET Slots
    BY DEF Failed
  <2>3. Cardinality(Failed') \in Nat /\ Cardinality(Failed') <= Cardinality(Slots)
    BY <2>2, SlotsAssumption, FS_Subset, FS_CardinalityType
  <2> QED
    BY <1>0, <2>1, <2>3, FailedBounds, Bounds DEF AttemptInv
<1>3. ASSUME NEW s \in Slots, CountFailure(s)
      PROVE  AttemptInv'
  <2>1. PICK r \in {Idle, [pc |-> "expire"]} : Continue(s, r)
    BY <1>3 DEF CountFailure
  <2>2. attempts' = attempts + 1 /\ s \in Failed
    BY <1>3 DEF CountFailure, Failed
  <2>3. \A u \in Slots : request'[u] = IF u = s THEN r ELSE request[u]
    BY <2>1 DEF Continue, TypeInv, TypeOK
  <2>4. Failed' = Failed \ {s}
    BY <2>1, <2>3 DEF Failed, Idle
  <2>5. Cardinality(Failed') = Cardinality(Failed) - 1
    BY <2>2, <2>4, FailedBounds, FS_RemoveElement
  <2> QED
    BY <1>0, <2>2, <2>5, FailedBounds, Bounds DEF AttemptInv
<1>4. ASSUME NEW s \in Slots,
             \/ SetExpiry(s) \/ ClearAttempts(s) \/ Sign(s) \/ Stamp(s) \/ StorePassword(s)
             \/ Abort(s) \/ (\E op \in {"reset", "change"} : BeginStore(s, op))
             \/ \E t \in sessions : BeginRefresh(s, t)
      PROVE  AttemptInv'
  <2>1. attempts' <= attempts
    BY <1>0, <1>4 DEF SetExpiry, ClearAttempts, Sign, Stamp, StorePassword, Abort, BeginStore,
       BeginRefresh, lockout
  <2>2. CASE ClearAttempts(s)
    <3>1. request[s] \in Request /\ request[s].pc = "clear"
      BY <2>2 DEF ClearAttempts, TypeInv, TypeOK
    <3>2. [request[s] EXCEPT !.pc = "sign"].pc # "failed"
      BY <3>1 DEF Request
    <3> QED
      BY <1>1, <2>1, <2>2, <3>2 DEF ClearAttempts
  <2>3. CASE ~ClearAttempts(s)
    <3>1. CASE SetExpiry(s) \/ Sign(s) \/ StorePassword(s) \/ Abort(s)
      <4>1. Continue(s, Idle) /\ Idle.pc # "failed"
        BY <3>1 DEF SetExpiry, Sign, StorePassword, Abort, Idle
      <4> QED
        BY <1>1, <2>1, <4>1
    <3>2. CASE Stamp(s) \/ \E op \in {"reset", "change"} : BeginStore(s, op)
      <4>1. PICK r : Continue(s, r) /\ r.pc # "failed"
        BY <3>2 DEF Stamp, BeginStore
      <4> QED
        BY <1>1, <2>1, <4>1
    <3>3. ASSUME NEW t \in sessions, BeginRefresh(s, t)
          PROVE  AttemptInv'
      <4> DEFINE r == Signing("sign", t.basis, Accepted(t) /\ Stale(t))
      <4>1. Continue(s, r)
        BY <3>3 DEF BeginRefresh
      <4>2. r.pc # "failed"
        BY DEF Signing
      <4> HIDE DEF r
      <4> QED
        BY <1>1, <2>1, <4>1, <4>2
    <3> QED
      BY <1>4, <2>3, <3>1, <3>2, <3>3
  <2> QED
    BY <2>2, <2>3
<1>5. CASE ForgotPassword \/ ExpireKey \/ ExpireLink \/ Tick \/ UNCHANGED vars
  <2>1. UNCHANGED request /\ attempts' <= attempts
    BY <1>0, <1>5 DEF ForgotPassword, ExpireKey, ExpireLink, Tick, vars, lockout
  <2>2. Failed' = Failed
    BY <2>1 DEF Failed
  <2> QED
    BY <1>0, <2>1, <2>2, FewerFailed
<1> QED
  BY <1>2, <1>3, <1>4, <1>5 DEF Next, Arrive, Proceed, BeginReset, BeginChange

\* However many logins run in parallel, the counter exceeds its limit by no more than the logins
\* that can run at once: each of them is counted, and none begins once the limit is reached.
THEOREM AttemptsCorrect == Spec => []AttemptsBounded
<1>1. TypeInv /\ AttemptInv => AttemptsBounded
  BY FailedBounds, Bounds DEF TypeInv, TypeOK, AttemptInv, AttemptsBounded
<1> QED
  BY <1>1, TypesHold, AttemptsInitially, AttemptsStep, PTL DEF Spec

-----------------------------------------------------------------------------
(* Why a lockout ends *)

\* A request that has counted the first failure and is about to set the expiry
Arming(s) == request[s].pc = "expire"

\* A counter has an expiry, or a request is about to give it one, unless such a request was
\* stopped: there is always somebody who will end a lockout.
LockoutArmed == attempts > 0 => ttl \/ orphaned \/ \E s \in Slots : Arming(s)

\* Nothing but the end of the lockout takes that away: an expiry stays, and a request that is to
\* set it sets it or is stopped.
ExpiryStays ==
    [][attempts' > 0 =>
          /\ ttl => ttl'
          /\ orphaned => orphaned'
          /\ \A s \in Slots : Arming(s) => Arming(s)' \/ ttl' \/ orphaned'
          /\ attempts = 0 => \E s \in Slots : Arming(s)']_vars

\* A step of a request that was not about to set the expiry leaves the others that are.
LEMMA OthersArming ==
    ASSUME TypeInv, NEW s \in Slots, NEW r, Continue(s, r), request[s].pc # "expire"
    PROVE  \A u \in Slots : Arming(u) => Arming(u)'
<1>1. \A u \in Slots : request'[u] = IF u = s THEN r ELSE request[u]
  BY DEF Continue, TypeInv, TypeOK
<1> QED
  BY <1>1 DEF Arming

LEMMA ArmingStep ==
    ASSUME TypeInv, TypeInv', Next, attempts' > 0
    PROVE  /\ ttl => ttl'
           /\ orphaned => orphaned'
           /\ \A s \in Slots : Arming(s) => Arming(s)' \/ ttl' \/ orphaned'
           /\ attempts = 0 => \E s \in Slots : Arming(s)'
<1> DEFINE Goal == /\ ttl => ttl'
                   /\ orphaned => orphaned'
                   /\ \A s \in Slots : Arming(s) => Arming(s)' \/ ttl' \/ orphaned'
                   /\ attempts = 0 => \E s \in Slots : Arming(s)'
<1>0. attempts \in Nat /\ attempts' \in Nat
  BY DEF TypeInv, TypeOK
<1>1. ASSUME UNCHANGED lockout, \A s \in Slots : Arming(s) => Arming(s)' PROVE Goal
  <2>1. UNCHANGED attempts /\ UNCHANGED ttl /\ UNCHANGED orphaned
    BY <1>1 DEF lockout
  <2> QED
    BY <1>0, <1>1, <2>1
<1>2. ASSUME NEW s \in Slots,
             \/ \E guess \in 0 .. passwords : BeginLogin(s, guess)
             \/ \E t \in sessions : BeginRefresh(s, t)
             \/ \E op \in {"reset", "change"} : BeginStore(s, op)
             \/ Sign(s) \/ Stamp(s) \/ StorePassword(s)
      PROVE  Goal
  <2>1. PICK r : Continue(s, r)
    BY <1>2 DEF BeginLogin, BeginRefresh, BeginStore, Sign, Stamp, StorePassword
  <2>3. request[s].pc # "expire"
    <3>1. request[s] = Idle \/ request[s].pc \in {"sign", "hash", "store"}
      BY <1>2 DEF BeginLogin, BeginRefresh, BeginStore, Sign, Stamp, StorePassword
    <3> QED
      BY <3>1 DEF Idle
  <2>2. request[s].pc # "expire" /\ UNCHANGED lockout
    BY <1>2, <2>3 DEF BeginLogin, BeginRefresh, BeginStore, Sign, Stamp, StorePassword, lockout
  <2> QED
    BY <1>1, <2>1, <2>2, OthersArming
<1>3. ASSUME NEW s \in Slots, CountFailure(s) PROVE Goal
  <2>1. PICK r : Continue(s, r) /\ r = IF FirstAttempt(attempts') THEN [pc |-> "expire"] ELSE Idle
    BY <1>3 DEF CountFailure
  <2>2. request[s].pc # "expire" /\ UNCHANGED ttl /\ UNCHANGED orphaned /\ attempts' = attempts + 1
    BY <1>3 DEF CountFailure
  <2>3. \A u \in Slots : Arming(u) => Arming(u)'
    BY <2>1, <2>2, OthersArming
  <2>4. ASSUME attempts = 0 PROVE Arming(s)'
    <3>1. r.pc = "expire"
      BY <2>1, <2>2, <2>4 DEF FirstAttempt
    <3> QED
      BY <2>1, <3>1 DEF Continue, Arming, TypeInv, TypeOK
  <2> QED
    BY <2>2, <2>3, <2>4
<1>4. ASSUME NEW s \in Slots, SetExpiry(s) PROVE Goal
  <2>1. attempts' = attempts /\ orphaned' = orphaned
    BY <1>4 DEF SetExpiry
  <2>2. ttl' = (attempts > 0) /\ attempts > 0
    BY <1>4, <2>1 DEF SetExpiry
  <2>3. ttl'
    BY <2>2, Zenon
  <2> QED
    BY <1>0, <2>1, <2>2, <2>3
<1>5. ASSUME NEW s \in Slots, ClearAttempts(s) PROVE FALSE
  BY <1>0, <1>5 DEF ClearAttempts
<1>6. ASSUME NEW s \in Slots, Abort(s) PROVE Goal
  <2>1. attempts' = attempts /\ ttl' = ttl /\ Continue(s, Idle)
    BY <1>6 DEF Abort
  <2>2. orphaned' = (orphaned \/ request[s].pc = "expire")
    BY <1>6 DEF Abort
  <2>3. (orphaned => orphaned') /\ (Arming(s) => orphaned')
    BY <2>2, Zenon DEF Arming
  <2>4. \A u \in Slots : Arming(u) => Arming(u)' \/ orphaned'
    BY <2>1, <2>3, OthersArming DEF Arming
  <2> QED
    BY <1>0, <2>1, <2>3, <2>4
<1>7. CASE ExpireKey
  BY <1>0, <1>7 DEF ExpireKey
<1>8. CASE ForgotPassword \/ ExpireLink \/ Tick
  BY <1>1, <1>8 DEF ForgotPassword, ExpireLink, Tick, Arming
<1>9. Goal
  BY <1>2, <1>3, <1>4, <1>5, <1>6, <1>7, <1>8
  DEF Next, Arrive, Proceed, BeginReset, BeginChange
<1> QED
  BY <1>9

LEMMA ArmedStep == TypeInv /\ TypeInv' /\ LockoutArmed /\ [Next]_vars => LockoutArmed'
<1> SUFFICES ASSUME TypeInv, TypeInv', LockoutArmed, [Next]_vars, attempts' > 0
             PROVE  ttl' \/ orphaned' \/ \E s \in Slots : Arming(s)'
  BY DEF LockoutArmed
<1>1. CASE Next
  <2>1. attempts \in Nat
    BY DEF TypeInv, TypeOK
  <2> QED
    BY <1>1, <2>1, ArmingStep DEF LockoutArmed
<1>2. CASE UNCHANGED vars
  BY <1>2 DEF vars, lockout, LockoutArmed, Arming
<1> QED
  BY <1>1, <1>2

\* For any number of parallel logins, a counter of failures has an expiry or is about to get one,
\* unless the request that was to set it was stopped.
THEOREM ArmedCorrect == Spec => []LockoutArmed
<1>1. Init => LockoutArmed
  BY DEF Init, LockoutArmed
<1> QED
  BY <1>1, TypesHold, ArmedStep, PTL DEF Spec

\* And it keeps it until the counter is gone.
THEOREM ExpiryStaysCorrect == Spec => ExpiryStays
<1> DEFINE A == attempts' > 0 =>
                    /\ ttl => ttl'
                    /\ orphaned => orphaned'
                    /\ \A s \in Slots : Arming(s) => Arming(s)' \/ ttl' \/ orphaned'
                    /\ attempts = 0 => \E s \in Slots : Arming(s)'
<1>1. TypeInv /\ TypeInv' /\ [Next]_vars => [A]_vars
  BY ArmingStep
<1> QED
  BY <1>1, TypesHold, PTL DEF Spec, ExpiryStays
=============================================================================
