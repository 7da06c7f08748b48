------------------------------ MODULE Accounts ------------------------------
(***************************************************************************)
(* The password of one account in AuthService: logins with their lockout   *)
(* counter in Redis, refreshes, password changes and resets, and the       *)
(* sessions that rest on a password.                                       *)
(*                                                                         *)
(* Passwords are numbered as they are invented, 0 is a wrong one.  Tokens  *)
(* carry the second in which they were signed, and passwordChangedAt is    *)
(* compared with it in whole seconds.  That a refresh token works once is  *)
(* the matter of Sessions; here a session may be renewed again and again.  *)
(***************************************************************************)
EXTENDS Integers, FiniteSets

CONSTANTS
    Slots,         \* requests that run at the same time
    MaxAttempts,   \* MAX_LOGIN_ATTEMPTS
    MaxTime,       \* bound on the clock
    MaxPasswords,  \* bound on the passwords invented
    MaxLinks,      \* bound on the reset links sent
    MaxSessions    \* bound on the sessions

ASSUME SlotsAssumption == IsFiniteSet(Slots)
ASSUME BoundsAssumption ==
    /\ MaxAttempts \in Nat \ {0} /\ MaxTime \in Nat \ {0} /\ MaxPasswords \in Nat \ {0}
    /\ MaxLinks \in Nat /\ MaxSessions \in Nat

VARIABLES
    now,          \* the clock, in seconds
    attempts,     \* the value of login:attempts:<email>; 0: no key
    ttl,          \* whether that key has an expiry
    password,     \* User.password
    changedAt,    \* User.passwordChangedAt; 0: null
    resetToken,   \* User.passwordResetToken, by the link it was sent in; 0: null
    sessions,     \* the tokens handed out
    request,      \* the requests in progress
    passwords,    \* how many passwords were invented
    links,        \* how many reset links were sent
    (***********************************************************************)
    (* History: read by no action                                          *)
    (***********************************************************************)
    storedAt,     \* the second in which the password was last stored
    ended,        \* sessions signed before this second rest on a password that was changed
    orphaned      \* a request stopped between INCR and EXPIRE

account == <<password, changedAt, resetToken, storedAt, ended>>
lockout == <<attempts, ttl, orphaned>>
vars == <<now, lockout, account, sessions, request, passwords, links>>

-----------------------------------------------------------------------------

Idle == [pc |-> "idle"]

Continue(s, r) == request' = [request EXCEPT ![s] = r]

\* The comparison of validateUser and refreshTokens
Accepted(t) == t.iat >= changedAt

Renewable(t) == Accepted(t)

\* A session that rests on a password which is not the account's any more
Stale(t) == t.basis # password

\* A request that will sign a token: the password the session rests on, the one in the row it
\* read, and whether it renews a session that is stale and accepted all the same
Signing(pc, basis, tainted) ==
    [pc |-> pc, basis |-> basis, read |-> password, tainted |-> tainted]

-----------------------------------------------------------------------------
(* login *)

\* Variant of Open: no look at the counter first.
NotLocked == TRUE

Open == attempts < MaxAttempts

\* The lockout counter and the row are read, the password is compared.
BeginLogin(s, guess) ==
    /\ request[s] = Idle
    /\ Open
    /\ Continue(s, IF guess = password THEN Signing("clear", guess, FALSE) ELSE [pc |-> "failed"])
    /\ UNCHANGED <<now, lockout, account, sessions, passwords, links>>

\* Variant of FirstAttempt
NoAttempt(n) == n = 0

FirstAttempt(n) == n = 1

\* INCR
CountFailure(s) ==
    /\ request[s].pc = "failed"
    /\ attempts' = attempts + 1
    /\ Continue(s, IF FirstAttempt(attempts') THEN [pc |-> "expire"] ELSE Idle)
    /\ UNCHANGED <<now, ttl, orphaned, account, sessions, passwords, links>>

\* EXPIRE, which does nothing without a key
SetExpiry(s) ==
    /\ request[s].pc = "expire"
    /\ ttl' = (attempts > 0)
    /\ Continue(s, Idle)
    /\ UNCHANGED <<now, attempts, orphaned, account, sessions, passwords, links>>

\* DEL
ClearAttempts(s) ==
    /\ request[s].pc = "clear"
    /\ attempts' = 0
    /\ ttl' = FALSE
    /\ Continue(s, [request[s] EXCEPT !.pc = "sign"])
    /\ UNCHANGED <<now, orphaned, account, sessions, passwords, links>>

\* refreshTokens up to the read of the user
BeginRefresh(s, t) ==
    /\ request[s] = Idle
    /\ Renewable(t)
    /\ Continue(s, Signing("sign", t.basis, Accepted(t) /\ Stale(t)))
    /\ UNCHANGED <<now, lockout, account, sessions, passwords, links>>

\* generateTokens, when the row has arrived: the account may have changed since.
Sign(s) ==
    LET r == request[s] IN
    /\ r.pc = "sign"
    /\ Cardinality(sessions) < MaxSessions
    /\ sessions' = sessions \union {[iat |-> now, basis |-> r.basis,
                                     tainted |-> r.tainted \/ r.read # password]}
    /\ Continue(s, Idle)
    /\ UNCHANGED <<now, lockout, account, passwords, links>>

-----------------------------------------------------------------------------
(* forgotPassword, resetPassword, changePassword *)

\* A newer link replaces the older one.
ForgotPassword ==
    /\ links < MaxLinks
    /\ links' = links + 1
    /\ resetToken' = links + 1
    /\ UNCHANGED <<now, lockout, password, changedAt, storedAt, ended, sessions, request,
                   passwords>>

BeginStore(s, op) ==
    /\ request[s] = Idle
    /\ passwords < MaxPasswords
    /\ passwords' = passwords + 1
    /\ Continue(s, [pc |-> "hash", op |-> op, new |-> passwords + 1, begun |-> now])
    /\ UNCHANGED <<now, lockout, account, sessions, links>>

\* The link is looked up; it is not used up before the password is stored.
BeginReset(s) == resetToken # 0 /\ BeginStore(s, "reset")

\* Somebody who is logged in and knows the password
BeginChange(s) == (\E t \in sessions : Accepted(t)) /\ BeginStore(s, "change")

\* The password is hashed, then the time is taken.
Stamp(s) ==
    /\ request[s].pc = "hash"
    /\ Continue(s, [pc |-> "store", op |-> request[s].op, new |-> request[s].new,
                    begun |-> request[s].begun, at |-> now])
    /\ UNCHANGED <<now, lockout, account, sessions, passwords, links>>

\* Variant of StampOf: rounded up.
NextSecond(r) == r.at + 1

\* Variant of StampOf: a change leaves the time of the last reset.
OnlyResets(r) == IF r.op = "reset" THEN r.at ELSE changedAt

StampOf(r) == r.at

\* Another password was stored, in a later second, after this request had begun.
Overtaken(r) == storedAt > r.begun

\* An update by id; a reset also drops the link, whichever it is by now.
StorePassword(s) ==
    LET r == request[s] IN
    /\ r.pc = "store"
    /\ password' = r.new
    /\ changedAt' = StampOf(r)
    /\ resetToken' = IF r.op = "reset" THEN 0 ELSE resetToken
    /\ storedAt' = now
    /\ ended' = IF Overtaken(r) \/ r.at > ended THEN r.at ELSE ended
    /\ Continue(s, Idle)
    /\ UNCHANGED <<now, lockout, sessions, passwords, links>>

-----------------------------------------------------------------------------

\* The request is stopped, or Redis or the database fails.
Abort(s) ==
    /\ request[s] # Idle
    /\ Continue(s, Idle)
    /\ orphaned' = (orphaned \/ request[s].pc = "expire")
    /\ UNCHANGED <<now, attempts, ttl, account, sessions, passwords, links>>

\* After 15 minutes
ExpireKey ==
    /\ ttl
    /\ attempts' = 0
    /\ ttl' = FALSE
    /\ UNCHANGED <<now, orphaned, account, sessions, request, passwords, links>>

\* After an hour
ExpireLink ==
    /\ resetToken # 0
    /\ resetToken' = 0
    /\ UNCHANGED <<now, lockout, password, changedAt, storedAt, ended, sessions, request,
                   passwords, links>>

Tick ==
    /\ now < MaxTime
    /\ now' = now + 1
    /\ UNCHANGED <<lockout, account, sessions, request, passwords, links>>

-----------------------------------------------------------------------------

\* An account whose user registered and holds the first session.
Init ==
    /\ now = 1
    /\ attempts = 0
    /\ ttl = FALSE
    /\ password = 1
    /\ changedAt = 0
    /\ resetToken = 0
    /\ sessions = {[iat |-> 1, basis |-> 1, tainted |-> FALSE]}
    /\ request = [s \in Slots |-> Idle]
    /\ passwords = 1
    /\ links = 0
    /\ storedAt = 1
    /\ ended = 0
    /\ orphaned = FALSE

Arrive(s) ==
    \/ \E guess \in 0 .. passwords : BeginLogin(s, guess)
    \/ \E t \in sessions : BeginRefresh(s, t)
    \/ BeginReset(s)
    \/ BeginChange(s)

Proceed(s) ==
    \/ CountFailure(s)
    \/ SetExpiry(s)
    \/ ClearAttempts(s)
    \/ Sign(s)
    \/ Stamp(s)
    \/ StorePassword(s)
    \/ Abort(s)

Next ==
    \/ \E s \in Slots : Arrive(s) \/ Proceed(s)
    \/ ForgotPassword
    \/ ExpireKey
    \/ ExpireLink
    \/ Tick

\* Redis expires keys, and a request that was not stopped goes on.
Fairness == WF_vars(ExpireKey) /\ \A s \in Slots : WF_vars(SetExpiry(s))

Spec == Init /\ [][Next]_vars /\ Fairness

-----------------------------------------------------------------------------

Session == [iat : 1 .. MaxTime, basis : 1 .. MaxPasswords, tainted : BOOLEAN]

Request ==
    [pc : {"idle", "failed", "expire"}]
      \union [pc : {"clear", "sign"}, basis : 1 .. MaxPasswords, read : 1 .. MaxPasswords,
              tainted : BOOLEAN]
      \union [pc : {"hash"}, op : {"reset", "change"}, new : 1 .. MaxPasswords,
              begun : 1 .. MaxTime]
      \union [pc : {"store"}, op : {"reset", "change"}, new : 1 .. MaxPasswords,
              begun : 1 .. MaxTime, at : 1 .. MaxTime]

\* Types; and every password in use was invented by somebody.
TypeOK ==
    /\ now \in 1 .. MaxTime
    /\ attempts \in Nat
    /\ ttl \in BOOLEAN /\ orphaned \in BOOLEAN
    /\ passwords \in 1 .. MaxPasswords
    /\ password \in 1 .. passwords
    /\ changedAt \in 0 .. now /\ storedAt \in 1 .. now /\ ended \in 0 .. storedAt
    /\ links \in 0 .. MaxLinks /\ resetToken \in 0 .. links
    /\ sessions \subseteq Session
    /\ request \in [Slots -> Request]
    /\ ttl => attempts > 0

\* The counter is read before the comparison and incremented after it, so requests that run
\* together may all slip in below the limit, but no more of them than can run together.
AttemptsBounded == attempts <= MaxAttempts - 1 + Cardinality(Slots)

\* A lockout ends (unless the request that created the counter stopped before EXPIRE).
LockoutEnds == (attempts >= MaxAttempts) ~> (attempts < MaxAttempts \/ orphaned)

\* A change ends the sessions that were signed before the second in which it took its time, and
\* no later change brings them back, unless it had begun before the earlier one was stored and
\* stores an older time.  Of the sessions that rest on an old password, those survive that were
\* signed from that second until the password was stored, and those that descend from such a
\* session, or from a request that had read the account before: nobody else is let in.
OldSessionsEnd ==
    \A t \in sessions : Accepted(t) /\ Stale(t) =>
        /\ ended <= t.iat
        /\ t.iat <= storedAt \/ t.tainted

=============================================================================
