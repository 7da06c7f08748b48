------------------------------- MODULE Social -------------------------------
(***************************************************************************)
(* The marks that users put on one thing (a follow of a user, a like of an *)
(* opportunity, which a save resembles, or a like of a discussion), its    *)
(* counter, and the part of the nightly recountAllCounters that writes it. *)
(*                                                                         *)
(* Marking and unmarking are transactions: the row and the counter change  *)
(* in one step.  The recount is not: it reads all rows and writes later.   *)
(*                                                                         *)
(* The counter of a follow is that of one profile of the followed user, of *)
(* either type: registration creates one type, the other one begins to     *)
(* exist when it is first saved, whoever follows the user by then.         *)
(***************************************************************************)
EXTENDS Integers, FiniteSets

CONSTANTS Users, Kinds

ASSUME UsersAssumption == IsFiniteSet(Users)
ASSUME KindsAssumption == Kinds \subseteq {"follow", "like", "discussion"}

VARIABLES
    kind,       \* what is marked; it does not change
    marks,      \* the users who have a row
    profile,    \* the row that carries the counter exists
    counter,    \* followersCount or likesCount; 0 without a profile
    recount,    \* the recount in progress
    (***********************************************************************)
    (* History: read by no action                                          *)
    (***********************************************************************)
    quiet,      \* no row came or went since the recount read them
    raced,      \* the last recount that wrote the counter was not quiet
    missed      \* how many rows the profile found when it was created, until a recount wrote

serverVars == <<kind, marks, profile, counter, recount, quiet, raced, missed>>

-----------------------------------------------------------------------------

NoRecount == [pc |-> "idle"]

\* updateMany changes what is there.
IfThere(value) == IF profile THEN value ELSE counter

\* follow, likeOpportunity and likeDiscussion rely on the unique index: a second row is a conflict.
Mark(u) ==
    /\ u \notin marks
    /\ marks' = marks \union {u}
    /\ counter' = IfThere(counter + 1)
    /\ quiet' = FALSE
    /\ UNCHANGED <<kind, profile, recount, raced, missed>>

\* Variant of Lowered: the filter is off by one.
LoweredAboveOne(n) == IF kind = "follow" \/ n > 1 THEN n - 1 ELSE n

\* Variant of Lowered: nothing keeps the counter from going below zero.
LoweredAlways(n) == n - 1

\* Likes are lowered only where they are gt: 0, followers in any case.
Lowered(n) == IF kind = "follow" \/ n > 0 THEN n - 1 ELSE n

\* Variant of Removed: the number of deleted rows is not looked at.
RemovedOrNot(u) == u \in Users

Removed(u) == u \in marks

\* deleteMany; if it deleted nothing, neither does the counter change.
Unmark(u) ==
    /\ marks' = marks \ {u}
    /\ counter' = IF Removed(u) THEN IfThere(Lowered(counter)) ELSE counter
    /\ quiet' = (quiet /\ u \notin marks)
    /\ UNCHANGED <<kind, profile, recount, raced, missed>>

\* The upsert of updateBtoCProfile or updateBtoBProfile: the counter has its default.
CreateProfile ==
    /\ ~profile
    /\ profile' = TRUE
    /\ missed' = Cardinality(marks)
    /\ UNCHANGED <<kind, marks, counter, recount, quiet, raced>>

-----------------------------------------------------------------------------
(* _recountFollowerCounts, _recountOpportunityCounters and                 *)
(* _recountDiscussionMembersCount                                          *)

\* An opportunity is written only if likes, saves or applications have a group for it.
Visits(others) == kind # "like" \/ marks # {} \/ others

RecountRead(others) ==
    /\ recount = NoRecount
    /\ Visits(others)
    /\ recount' = [pc |-> "write", total |-> Cardinality(marks)]
    /\ quiet' = TRUE
    /\ UNCHANGED <<kind, marks, profile, counter, raced, missed>>

\* A profile that is created meanwhile is written if its user was listed for the other type, and
\* otherwise left alone, as by RecountAbort.
RecountWrite ==
    /\ recount.pc = "write"
    /\ profile
    /\ counter' = recount.total
    /\ raced' = ~quiet
    /\ missed' = 0
    /\ recount' = NoRecount
    /\ UNCHANGED <<kind, marks, profile, quiet>>

\* There is no profile to write, or the job fails or its instance stops.
RecountAbort ==
    /\ recount.pc = "write"
    /\ recount' = NoRecount
    /\ UNCHANGED <<kind, marks, profile, counter, quiet, raced, missed>>

Recount == (\E others \in BOOLEAN : RecountRead(others)) \/ RecountWrite \/ RecountAbort

-----------------------------------------------------------------------------

ServerInit ==
    /\ kind \in Kinds
    /\ marks = {}
    /\ profile \in BOOLEAN /\ (kind # "follow" => profile)
    /\ counter = 0
    /\ recount = NoRecount
    /\ quiet = FALSE
    /\ raced = FALSE
    /\ missed = 0

ServerNext == (\E u \in Users : Mark(u) \/ Unmark(u)) \/ CreateProfile \/ Recount

ServerSpec == ServerInit /\ [][ServerNext]_serverVars

-----------------------------------------------------------------------------

ServerTypeOK ==
    /\ kind \in Kinds
    /\ marks \subseteq Users
    /\ profile \in BOOLEAN /\ (kind # "follow" => profile)
    /\ counter \in Int
    /\ recount \in {NoRecount} \union [pc : {"write"}, total : 0 .. Cardinality(Users)]
    /\ quiet \in BOOLEAN /\ raced \in BOOLEAN
    /\ missed \in 0 .. Cardinality(Users)

\* The filter gt: 0 of unlikeOpportunity and unlikeDiscussion does what its comment says, also
\* when a recount that raced with likes has left the counter too low.
LikesNeverNegative == kind # "follow" => counter >= 0

\* Retries, conflicts and repeated removals never make the counter wrong.  A profile that is
\* created late lacks the followers of before, each of them once and also when they leave (which
\* takes followersCount below zero); and a recount that wrote over a change is wrong.  The next
\* recount that nothing disturbs puts both right.
ErrorIsExplained == profile /\ ~raced => counter = Cardinality(marks) - missed

\* However many recounts race and however late the profile, the errors do not add up: together
\* they never exceed the number of users.
ErrorIsBounded ==
    /\ counter - Cardinality(marks) <= Cardinality(Users)
    /\ Cardinality(marks) - counter <= Cardinality(Users)
=============================================================================
