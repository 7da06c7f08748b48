--------------------------- MODULE Opportunities ---------------------------
(***************************************************************************)
(* The opportunities of one owner: OpportunitiesService creates, updates,  *)
(* moderates and removes them and keeps opportunitiesCount in the owner's  *)
(* profile, the nightly jobs archive, clean up and recount, and the public *)
(* feed is served from a page in Redis.                                    *)
(*                                                                         *)
(* Time is counted in ticks.  TTL is the life of a page in the cache,      *)
(* MaxQuery the longest time from the read of a page to its write into the *)
(* cache.                                                                  *)
(***************************************************************************)
EXTENDS Integers, FiniteSets

CONSTANTS
    Opps,
    Slots,      \* requests that run at the same time
    TTL,        \* FEED_CACHE_TTL_SECONDS
    MaxQuery

ASSUME TablesAssumption == IsFiniteSet(Opps) /\ IsFiniteSet(Slots)
ASSUME TimesAssumption == TTL \in Nat \ {0} /\ MaxQuery \in Nat

VARIABLES
    status,     \* Opportunity.status; NONE: not created
    deleted,    \* the opportunities with a deletedAt
    count,      \* opportunitiesCount of the owner's profile
    feed,       \* the cached page and its remaining life
    request,    \* the requests in progress
    recount,    \* the profile part of recountAllCounters
    (***********************************************************************)
    (* History: read by no action                                          *)
    (***********************************************************************)
    drift,      \* what the listed events have added to the counter
    since       \* for how long each opportunity has been visible, or not

rows == <<status, deleted>>
vars == <<rows, count, feed, request, recount, drift, since>>

-----------------------------------------------------------------------------

\* PENDING and CLOSED are told apart by nothing here and go with ARCHIVED.
Statuses == {"DRAFT", "ACTIVE", "ARCHIVED"}

Rows == {o \in Opps : status[o] # "NONE"}

Live == Rows \ deleted

\* Variant of Visible: the filter on deletedAt is forgotten.
WithRemoved == {o \in Opps : status[o] = "ACTIVE"}

\* The where clause of the public feed
Visible == {o \in Live : status[o] = "ACTIVE"}

NoPage == [items |-> {}, left |-> 0]

Idle == [pc |-> "idle"]

NoRecount == [pc |-> "idle"]

Continue(s, r) == request' = [request EXCEPT ![s] = r]

\* Once the write is done, the rest of the request may come in any order, or be lost.
After(todo) == [pc |-> "after", todo |-> todo]

LongAgo == TTL + MaxQuery + 1

\* What the public feed should show
InFeed == {o \in Live : status[o] = "ACTIVE"}

Observe == since' = [o \in Opps |-> IF (o \in InFeed) # (o \in InFeed)' THEN 0 ELSE since[o]]

-----------------------------------------------------------------------------
(* create, update, adminUpdateStatus, remove *)

\* Variant of Added: the counter is left to the recount.
Kept(n) == n

Added(n) == n + 1

\* One transaction
Create(s, o, initial) ==
    /\ request[s] = Idle
    /\ status[o] = "NONE"
    /\ initial \in {"DRAFT", "ACTIVE"}
    /\ status' = [status EXCEPT ![o] = initial]
    /\ count' = Added(count)
    /\ Continue(s, After({"invalidate"}))
    /\ UNCHANGED <<deleted, feed, recount, drift>>
    /\ Observe

\* The row is read: it is there.
Begin(s, o, r) ==
    /\ request[s] = Idle
    /\ o \in Live
    /\ Continue(s, r)
    /\ UNCHANGED <<rows, count, feed, recount, drift, since>>

BeginUpdate(s, o, new) == Begin(s, o, [pc |-> "update", opp |-> o, new |-> new])

\* By id: also when the row was removed in between
CommitUpdate(s) ==
    LET r == request[s] IN
    /\ r.pc = "update"
    /\ status' = [status EXCEPT ![r.opp] = r.new]
    /\ Continue(s, After({"invalidate"}))
    /\ UNCHANGED <<deleted, count, feed, recount, drift>>
    /\ Observe

BeginRemove(s, o) == Begin(s, o, [pc |-> "remove", opp |-> o])

\* The number of rows is not looked at: a second removal takes one off the counter as well.
CommitRemove(s) ==
    LET o == request[s].opp IN
    /\ request[s].pc = "remove"
    /\ deleted' = deleted \union {o}
    /\ drift' = IF o \in deleted THEN drift - 1 ELSE drift
    /\ Continue(s, After({"decrement", "invalidate"}))
    /\ UNCHANGED <<status, count, feed, recount>>
    /\ Observe

Done(s, effect) ==
    /\ request[s].pc = "after"
    /\ effect \in request[s].todo
    /\ Continue(s, IF request[s].todo = {effect} THEN Idle
                   ELSE After(request[s].todo \ {effect}))

Decrement(s) ==
    /\ Done(s, "decrement")
    /\ count' = count - 1
    /\ UNCHANGED <<rows, feed, recount, drift, since>>

Invalidate(s) ==
    /\ Done(s, "invalidate")
    /\ feed' = NoPage
    /\ UNCHANGED <<rows, count, recount, drift, since>>

\* The instance stops, or Redis or the database fails.
Lose(s, effect) ==
    /\ Done(s, effect)
    /\ drift' = IF effect = "decrement" THEN drift + 1 ELSE drift
    /\ UNCHANGED <<rows, count, feed, recount, since>>

-----------------------------------------------------------------------------
(* findAll, for the public feed *)

\* The cache has no page: the rows are read.
ReadPage(s) ==
    /\ request[s] = Idle
    /\ feed.left = 0
    /\ Continue(s, [pc |-> "page", items |-> Visible, age |-> 0])
    /\ UNCHANGED <<rows, count, feed, recount, drift, since>>

\* Variant of Life: the time of the query is added.
Longer == TTL + MaxQuery

Life == TTL

\* SETEX, whatever has happened since the read
WritePage(s) ==
    /\ request[s].pc = "page"
    /\ feed' = [items |-> request[s].items, left |-> Life]
    /\ Continue(s, Idle)
    /\ UNCHANGED <<rows, count, recount, drift, since>>

LosePage(s) ==
    /\ request[s].pc = "page"
    /\ Continue(s, Idle)
    /\ UNCHANGED <<rows, count, feed, recount, drift, since>>

-----------------------------------------------------------------------------
(* Nightly jobs *)

Expired(o) == status[o] = "ACTIVE"

\* archiveExpiredOpportunities: one statement, no feed invalidation
Archive(expired) ==
    /\ expired # {}
    /\ \A o \in expired : Expired(o)
    /\ status' = [o \in Opps |-> IF o \in expired THEN "ARCHIVED" ELSE status[o]]
    /\ UNCHANGED <<deleted, count, feed, request, recount, drift>>
    /\ Observe

\* cleanupOrphanDrafts: the counter is not touched
CleanupDrafts(old) ==
    /\ old # {}
    /\ \A o \in old : o \in Live /\ status[o] = "DRAFT"
    /\ deleted' = deleted \union old
    /\ drift' = drift + Cardinality(old)
    /\ UNCHANGED <<status, count, feed, request, recount, since>>

\* Decrements on their way
Pending == {s \in Slots : request[s].pc = "after" /\ "decrement" \in request[s].todo}

\* _recountProfileCounters groups all rows, removed ones included.
RecountRead ==
    /\ recount = NoRecount
    /\ recount' = [pc |-> "write", total |-> Cardinality(Rows)]
    /\ UNCHANGED <<rows, count, feed, request, drift, since>>

RecountWrite ==
    /\ recount.pc = "write"
    /\ count' = recount.total
    /\ drift' = recount.total - Cardinality(Live) - Cardinality(Pending)
    /\ recount' = NoRecount
    /\ UNCHANGED <<rows, feed, request, since>>

-----------------------------------------------------------------------------

\* A page that was read is written within MaxQuery.
Tick ==
    /\ \A s \in Slots : request[s].pc = "page" => request[s].age < MaxQuery
    /\ request' = [s \in Slots |-> IF request[s].pc = "page"
                                   THEN [request[s] EXCEPT !.age = @ + 1] ELSE request[s]]
    /\ feed' = IF feed.left <= 1 THEN NoPage ELSE [feed EXCEPT !.left = @ - 1]
    /\ since' = [o \in Opps |-> IF since[o] < LongAgo THEN since[o] + 1 ELSE LongAgo]
    /\ UNCHANGED <<rows, count, recount, drift>>

-----------------------------------------------------------------------------

Init ==
    /\ status = [o \in Opps |-> "NONE"]
    /\ deleted = {}
    /\ count = 0
    /\ feed = NoPage
    /\ request = [s \in Slots |-> Idle]
    /\ recount = NoRecount
    /\ drift = 0
    /\ since = [o \in Opps |-> LongAgo]

Arrive(s) ==
    \/ \E o \in Opps : \E new \in Statuses : Create(s, o, new) \/ BeginUpdate(s, o, new)
    \/ \E o \in Opps : BeginRemove(s, o)
    \/ ReadPage(s)

Proceed(s) ==
    \/ CommitUpdate(s)
    \/ CommitRemove(s)
    \/ Decrement(s)
    \/ Invalidate(s)
    \/ \E effect \in {"decrement", "invalidate"} : Lose(s, effect)
    \/ WritePage(s)
    \/ LosePage(s)

Cron ==
    \/ \E some \in SUBSET Opps : Archive(some) \/ CleanupDrafts(some)
    \/ RecountRead
    \/ RecountWrite

Next == (\E s \in Slots : Arrive(s) \/ Proceed(s)) \/ Cron \/ Tick

Spec == Init /\ [][Next]_vars

-----------------------------------------------------------------------------

Request ==
    {Idle}
      \union [pc : {"update"}, opp : Opps, new : Statuses]
      \union [pc : {"remove"}, opp : Opps]
      \union [pc : {"after"}, todo : (SUBSET {"decrement", "invalidate"}) \ {{}}]
      \union [pc : {"page"}, items : SUBSET Opps, age : 0 .. MaxQuery]

TypeOK ==
    /\ status \in [Opps -> Statuses \union {"NONE"}]
    /\ deleted \subseteq Rows
    /\ count \in Int /\ drift \in Int
    /\ feed \in [items : SUBSET Opps, left : 0 .. TTL]
    /\ request \in [Slots -> Request]
    /\ recount \in {NoRecount} \union [pc : {"write"}, total : Nat]
    /\ since \in [Opps -> 0 .. LongAgo]

\* The profile counter is the number of live opportunities plus the decrements on their way,
\* and what differs was brought by a double removal, a lost decrement, a draft that the cron
\* removed, or a recount, which counts removed rows and may be late.
CountAccounting == count = Cardinality(Live) + Cardinality(Pending) + drift

\* Whatever was read before a change and written after its invalidation: an opportunity is
\* wrongly shown, or wrongly missing, in the cached feed only for the life of a page and the
\* time to read it.
FeedIsRecent ==
    feed # NoPage => \A o \in Opps : (o \in feed.items) # (o \in InFeed)
                                        => since[o] < TTL + MaxQuery
=============================================================================
