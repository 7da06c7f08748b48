# South-Connect: TLA+ specifications

South-Connect (`D-fund/`) connects talents and companies with opportunities. A NestJS backend
serves a Next.js frontend; PostgreSQL (through Prisma) holds the data, Redis the locks, caches
and token blocklist, BullMQ the email queue, Socket.IO the chat. The backend is meant to run as
several instances.

This directory holds TLA+ modules that model the program, the TLC configurations that check them
on small instances, and proofs, checked by TLAPS, that hold for every value of the constants.
`PROJECT.json` indexes it all: `map` gives the source lines behind every definition, `runs` the
configurations, `mutants` a broken variant of the code for every property, `hazards` what the
properties are for.

To run a configuration: `tlc -config applications.cfg MCApplications`; to check the proofs:
`tlapm ApplicationsProofs.tla`.

Paths below are relative to `src/D-fund/backend/src/modules/` unless they start with `frontend/`
(then to `src/D-fund/`).

## 1. The system

### How its parts run

- A request is an `async` method of a service. Each Prisma call is one statement, or one
  transaction, at READ COMMITTED. At every `await` any other request may run, on this or another
  instance. So the unit of atomicity in these models is the statement.
- A statement that is started but not awaited ("fire-and-forget") runs after the response, in
  any order with everything else, or never: a failure is only logged, and an instance that stops
  forgets it.
- Services read a row, decide, then write. Some writes repeat the decision in the `where` clause
  of an `updateMany` and look at the number of rows; others filter by id only. Which of the two
  a method does is what most of its concurrency correctness hangs on.
- Cron jobs fire on every instance; a Redis lock picks the one that runs.
- Denormalised counters are put right by a nightly recount that runs next to the traffic.
- In the browser, an event is what runs until the next `await`. Requests overtake each other,
  answers get lost, and a client that gives up after its timeout does not know whether the
  server has acted. Caches of React Query are patched by hand, invalidated and refetched in the
  middle of all that.

### Components

| Component | State | Operations | What makes it correct | Modelled by |
|---|---|---|---|---|
| Applications (`applications/`) | `Application` rows, `Opportunity.applicationsCount`, `ReferralCode.usesCount` | create, update, submit, review, withdraw | flags agree with the stage; every live submission counted once; nobody is told of what did not happen | `Applications` |
| Cron lock (`cron/cron.service.ts` 27-76) | one Redis key per job | acquire, run, release | one instance at a time; nobody skips a cycle nobody ran | `CronLock` |
| Cron jobs (`cron/cron.service.ts` 93-526) | none of their own | archive, expire, clean up, recount | an undisturbed recount writes the truth; errors do not add up | with the rows they change |
| Referral codes (`referral/`) | status, usesCount | create, complete, expire | COMPLETED is final | `Applications` (life of a code) |
| Opportunities (`opportunities/`) | rows with a status, counters, feed cache in Redis | create, update, moderate, remove, list | the counter follows the rows; the cached feed is never older than a page may be | `Opportunities` |
| Social (`social/`), creation of profiles (`profiles/`) | likes, saves, follows and their counters | mark, unmark, first save of a profile | counter = number of rows, but for a recount that raced and a profile that came late | `Social` |
| Messages (`messages/messages.service.ts`) | discussions, participants, messages | start a discussion, send, mark as read | a retry sends nothing twice; unread counts only what is there | `Messages`, `Inbox` |
| Chat gateway (`messages/chat.gateway.ts`) | sockets, rooms | connect, join, leave, broadcast | an open page misses nothing | `ChatPage` |
| Authentication (`auth/`) | password, passwordChangedAt, reset token, refresh blocklist, lockout counter | login, refresh, logout, reset, change | no session outlives a password change; lockouts end | `Accounts`, `Sessions` |
| Notifications (`notifications/`) | notification rows, dedup keys, preferences | create, read, list | nobody is told of what did not happen | as an effect, in `Applications` and `Messages` |
| Email (`email/`) | BullMQ queue, fallback | enqueue, retry, fall back | nothing lost, no copy without a reason, an opt-out is honoured | `Email` |
| Frontend session (`frontend/app/lib/`) | cookies, user, shared refresh, tabs | call, refresh, login, logout | tabs do not log each other out; no caller waits for ever | `Sessions` |
| Frontend optimistic updates (`frontend/app/hooks/useOpportunitySocial.ts` and others) | local state, query caches | toggle, success, error | when answers have arrived, what is shown is what the server holds | `SocialToggle`, `ChatPage` |
| Ratings, users, the rest of profiles, tasks, features, search, AI, storage, audit, health, pages, scripts | rows | CRUD | ownership checks on single rows | section 7 |

Interactions: the frontend calls the backend over HTTP with cookies and retries once after a
refresh; Applications, Social, Messages and Opportunities call Notifications, which writes a
row, pushes it through the chat gateway and enqueues an email; the nightly recount overwrites
counters that all of them increment; the referral expiry and the archival touch rows that submit
and review have read; the socket carries the cookie that a refresh renews.

Hard behaviours, each listed with its line under `hazards`: two requests between whose read and
write a third one writes; counters whose update is lost, late or applied to a changed row; a
recount over moving data; locks that expire by themselves; retries of requests whose answer was
lost; caches filled after their invalidation; answers that overtake each other; tabs that
refresh at the same moment; sockets that come back later than the messages.

## 2. Plan

Modules in the order in which they were written, most important behaviour first. Every
concurrent component is a pool of requests with one action per statement, and its counters are
stated against the rows they summarise.

1. `Applications`, composed with the nightly recount in `ApplicationsRecount`.
2. `CronLock`.
3. `Messages`, shown to implement the abstract `Inbox`.
4. `Social`, the server's part, and `SocialToggle`, which puts a browser in front of it and is
   shown to implement it.
5. `Sessions`: one browser, its tabs, its cookies, and the server's refresh rotation.
6. `Accounts`: passwords, lockout, what a session rests on.
7. `Opportunities`: rows, profile counter, feed cache, nightly jobs.
8. `ChatPage`: page, query cache, socket and room of one discussion.
9. `Email`: queue, workers, fallback, provider.

Each has its theorems in a module of proofs; those of `CronLock` and `Sessions` share
`LockProofs`. Left for a later extension, in this order: deduplication, preferences and the page
of notifications; public discussions with `messagesCount`; `activeOpportunitiesCount`, views and
shares; the limit of 50 referral codes; ratings.

Runs stay at two to three actors, one to two rows and bounds of one or two restorations or
retries: the races in the hazard list need two actors on one row and a third only where a late
party matters (the lock).

## 3. The modules

In all of them a request slot holds the local variables of a running method and its position,
`Begin...` actions are a method's reads and rejections (a rejected request changes nothing, so
its action is just not enabled), and `Abort`, `Lose...` and `...Fails` are a failure or a stop
at that point. Variables under the heading "History" are read by no action except the bounds;
the properties use them to say what has happened.

### Applications

| Variable | In the code |
|---|---|
| `application` | the `Application` rows; stage `NONE` is no row, `deleted` is `deletedAt # null` |
| `opportunity` | `OPEN`: ACTIVE and before its deadline; `CLOSED`: any other status or past it; `DELETED` |
| `applicationsCount`, `usesCount`, `referral` | the columns of that name; status of the code |
| `inbox` | in-app notifications written |
| `born`, `drift`, `uses`, `outcomes` | history; `born` also carries the bound on restorations |

Each of the five methods is a `Begin...` action, the statements in between, and a `Commit...`
action with the affected-row count of its write. Submit and withdraw continue with the counter
transaction, submit and review with the notification, in either order; `LoseCount` and
`SkipNotify` are their failures. Reads that the code sends one after the other and whose order
no other model action can observe are one action (the row, and the opportunity that is included
in it). The code takes `submit`'s referral check as a statement of its own, so does the model,
since the code may expire or be completed after it.

Abstracted: cover letters, documents, answers and texts (no guard reads them), who calls (the
ownership guards reject without effect), the eligibility of a code (own code, code bound to
another opportunity) as the constant `Eligible`, time (a deadline or an expiry may come at any
moment).

`ApplicationsRecount` adds `recountAllCounters` restricted to `applicationsCount`: `RecountRead`
groups the tables, `RecountWrite` overwrites one opportunity, `RecountAbort` is a failed or
stopped job. Likes and saves only decide whether an opportunity is written; the action takes any
such set. `quiet` records whether a request ran since the read.

### CronLock

One scheduled job, `Instances` of the backend, a Redis key. Time is counted in ticks; `TTL` is
the life of the key, `MaxRun` the longest run, `Skew` the largest delay between two instances'
timers, `Period` the schedule. `Acquire`, `Skip` and `AcquireFails` are the outcomes of
`acquireLock`; `EndJob` and `Release` or `ReleaseFails` the end of `withLock`, whether the job
returned or threw; instances crash and restart at any moment. A `SET` that fails may have been
applied. `TimesAssumption` states what the code relies on and does not enforce: a job ends
before its key does (the lifetimes are 5 minutes by default and 30 for the recounts,
`cron.service.ts` 27-34 and 242-262, and nothing stops a job that takes longer), and the
schedules (hourly and daily) leave room for the key to expire.

### Messages and Inbox

| Variable | In the code |
|---|---|
| `members` | the `Participant` rows of each `PrivateDiscussion`; none: the discussion is not created |
| `createdAt` | the stored `Message` rows with their `createdAt`, by the client's id; 0: not stored |
| `unread`, `lastReadAt` | `Participant.unreadCount`, `Participant.lastReadAt` (0: null) |
| `bell` | participants with an unread `NEW_MESSAGE` notification for the discussion |
| `recount` | the nightly `_recountUnreadCounts`: the cursors it read, what is left to count and write |
| `now` | the clock; `createdAt` and `lastReadAt` are taken from it before the statement that stores them |
| `broadcast`, `quiet` | history |

`FindDiscussion` and `CreateDiscussion` are the two statements of the transaction in
`startPrivateDiscussion`: at READ COMMITTED another request may run between them. A send is
`BeginSend`, `CommitMessage` (the transaction, in which the unique `clientMessageId` rejects a
message that is already stored), `Broadcast` and `NotifyRecipient`; marking as read is
`BeginRead`, `ResetUnread` and `ClearBell`. The dedup entry in Redis is not a variable: it can
only turn a retry into an answer that changes nothing, it is written after the message is
stored, it expires after 60 seconds and any Redis error skips it. So the model lets every retry
reach the insert, which includes what happens with the entry. `Origin` gives each client id its
discussion and sender, since a client uses an id for one message only. `RecountEnd` is also a
failed job.

`Inbox` is the promise, in single steps and without requests: a message enters a log once and
counts for its readers in the same step, is told at most once and only afterwards, a bell rings
only for somebody who was sent something, a badge is settled to some number of the messages in
the log. `Promise` maps the columns to it (`ImplementsInbox`).

Abstracted: contents, `lastMessageAt` (nothing decides on it), bans and deleted accounts (they
reject without effect), the email; a notification that is muted or deduplicated is one that is
not written.

### Social and SocialToggle

| Variable | In the code |
|---|---|
| `kind` | what is marked: `follow` a user, `like` an opportunity (a save resembles it), like of a `discussion` |
| `marks`, `counter` | the rows; `followersCount` or `likesCount` |
| `profile` | whether the row with the counter exists: always, but for the profile of a followed user |
| `recount` | the count that the nightly job holds between its read and its write |
| `cache` | `isLiked` or `following` in React Query |
| `local` | the optimistic override: `localLiked` of `useOpportunitySocial`, `likedIds` of the discussion list |
| `request` | requests of this browser: sent, served (answer on its way), or late (given up, the server may still act) |
| `fetch` | the query that refreshes the cache: due, or read and on its way |
| `quiet`, `raced`, `missed`, `excused` | history; `missed`: how many followers a profile found when it was created, until a recount wrote |

On the server, mark and unmark are transactions that look at the unique index and at the number
of deleted rows; what races is the recount. `follow` and `unfollow` change the counter with an
`updateMany`, which finds nothing as long as there is no profile (`IfThere`); registration creates
the personal profile only, and the upsert that first saves the company's starts it at 0, whoever
follows the user by then (`CreateProfile`). The three kinds differ in the filter `gt: 0`, in the
group an opportunity needs to be recounted, and in the frontend's hooks: a follow cancels the
query on a click and asks again at the end, a like patches the caches with the context of its
request, the discussion list knows only the likes of its session. `Click`, `Serve`, `Answer`,
`FailWithoutEffect`, `LoseAnswer`, `GiveUp` and `ServeLate` are the life of a request, `Remount`
a view that is opened anew and knows nothing of the requests of the one before. Other users mark
and unmark at any time. Other devices of the same user are not modelled.

### Sessions

| Variable | In the code |
|---|---|
| `jar` | the cookies: whether `access_token` is there and valid; `refresh_token` as the second in which it was signed |
| `shown` | whether `AuthContext` holds a user, per tab |
| `req` | the `/auth/me` call of `refreshUser` and one other call, per tab |
| `refresh` | `_refreshPromise` of the tab with its request |
| `locks` | holder and queue of the Web Lock `dfund-refresh-token` |
| `channel` | what `BroadcastChannel` has yet to deliver to each tab |
| `consumed` | the blocklist in Redis |
| `stray` | tokens of refresh requests that the client has given up and the server may still serve |
| `reissued`, `excused` | history: a pair was issued whose refresh token is on the blocklist; a logout, a lost answer or a failing server |

A token is a signature over the account, which does not change, and the time in whole seconds:
so a token *is* that second. A call takes the cookie of the moment at which it is sent; a 401
makes it wait for the refresh its tab shares (`JoinRefresh`); the refresh takes the lock, sends
the cookie of that moment, and its answer resolves all waiters and releases the lock in one
event. Abstracted: other cookies, roles, what the calls are for; browsers without Web Locks.

### Accounts

| Variable | In the code |
|---|---|
| `attempts`, `ttl` | the key `login:attempts:<email>` and whether it has an expiry |
| `password`, `changedAt`, `resetToken` | the columns of `User`; passwords are numbered as they are invented, links likewise |
| `sessions` | tokens handed out: when signed, resting on which password, and whether signed by somebody who had read an older row |
| `storedAt`, `ended`, `orphaned` | history: the second of the last store; the second before which sessions on a changed password have ended; a request stopped between INCR and EXPIRE |

Login reads counter and row in one go, then counts a failure (`CountFailure`, `SetExpiry`) or
clears the counter and signs; a change or a reset hashes, takes the time, and stores it
(`Stamp`, `StorePassword`). `ended` is told from the changes, not from `changedAt`: each moves
it to the time it took, and none moves it back unless another password was stored in a later
second than that in which it began (`Overtaken`). `Accepted` is the comparison in whole seconds
that `validateUser` and `refreshTokens` make. That a refresh token works once is the matter of
`Sessions`: here a session may be renewed again and again.

### Opportunities

| Variable | In the code |
|---|---|
| `status`, `deleted` | the rows of one owner; PENDING and CLOSED go with ARCHIVED, which nothing here tells apart |
| `count` | `opportunitiesCount` of the owner's profile |
| `feed` | the page in Redis and its remaining life |
| `recount` | the profile part of `recountAllCounters` |
| `drift`, `since` | history: what the listed events have added to the counter; for how long an opportunity has been visible, or not |

Creation is a transaction with its counter; an update or a moderation writes by id whatever
happened since its read; a removal leaves decrement and invalidation to run in any order or not
at all; `ReadPage` and `WritePage` are a feed request that found no page, between which anything
may happen for at most `MaxQuery`. The nightly jobs archive, remove old drafts, and count. The
cache key's parameters are one page here: each key lives and is invalidated like the others.

### ChatPage

| Variable | In the code |
|---|---|
| `stored`, `told` | the `Message` rows in the order of `createdAt`; those whose broadcast is over |
| `conn`, `access` | the socket (`dead`: closed by the server, which Socket.IO does not reopen); the cookie of the handshake |
| `room`, `joining`, `transit` | membership of the Socket.IO room; the join under way; `newMessage` events under way |
| `mounted`, `page`, `fetch` | the page; its query cache with every entry and whether it is stale; its fetch |
| `send` | each own message: new, sent, served, late or done, with the page that its failure restores |
| `astray` | history: the messages of which an event has said that the page may show them wrongly |

`Merged` is `handleNewMessage`: a draft is replaced, a known message left alone. `Send` is
`onMutate`, `Confirm` and `Restore` are `onSuccess` and `onError`; `Mount` joins and fetches
only what is absent or stale; `Reconnect` is the handler of the page, which joins again and
invalidates. React Query then fetches for the mounted page and begins a fetch that is under way
again, but for a first one: while the query has no data, the old fetch goes on, and its answer
settles the query with what was stored when it was read (`Caught`).

`astray` names single messages and the event that hit them: a broadcast that was lost, or that
came while the page was not in the room and nothing was left that would ask; an event that an
older query overwrote or that came to a closed page; a query that failed, was cancelled by a
send, or was not begun again; a failed send that restored a page without the message. The answer
of a query takes out what it has read. Each clause was dropped in turn, and the run then finds a
page that lacks a message: none excuses more than what happens. The query returns the first
`Take` messages. Typing events and the map of online users, which nothing reads, are left out.

### Email

| Variable | In the code |
|---|---|
| `request` | the call of `queue.add` and its instance |
| `job` | the BullMQ job: state or the instance that works on it, attempts made, stalls |
| `fallback` | the attempts left of the in-process fallback |
| `attempt` | what each sender does: look up the opt-out, send, wait for the answer |
| `copies`, `late` | what the recipient has got; requests that the provider may still act on |
| `optOut` | `User.emailOptOut` |
| `doubt`, `excuse` | history: failures that leave open whether an email was sent; reasons not to arrive |

Two kinds of sender share `sendEmail`: the worker of an instance and the fallback of an email.
An add may be stored and still be rejected; a stalled job is handed out again while its worker
may go on; the timeout of ten seconds does not stop the request. A crash is followed by a
restart and takes `queue.add`, fallback and worker of its instance with it. Emails meet each
other only in the worker, which takes one job at a time, so one email and two instances show
every case but the waiting. Abstracted: contents, the kind of email (critical ones skip the
opt-out and are sent synchronously, with neither queue nor retries), the length of the backoffs.

## 4. The runs

| Run | Instance | Question and answer |
|---|---|---|
| `applications` | 2 requests, 1 candidate, 1 opportunity, 1 code, 2 incarnations of the row | Every pair of concurrent methods on one row: flags, counter, uses of the code, notifications, submission from DRAFT only, no decision on a withdrawn row, COMPLETED final. All hold. |
| `recount` | 1 request, 2 candidates, 1 opportunity | Whenever no request ran in between, what the recount writes is exact and removes the drift. Holds. |
| `cron_lock` | 3 instances, TTL 3, MaxRun 2, Skew 2, Period 5 | Mutual exclusion and release of the own key only, unless a `SET` failed in the cycle; who skips, skips a cycle that somebody has started. All hold. |
| `messages` | 2 requests, 2 users, 1 discussion, 2 messages, clock 1..2 | Sends, retries, mark-as-read and the recount in every order: badges never exceed what there is to read, an undisturbed recount is exact, and all of it implements `Inbox`. All hold. |
| `sessions` | 2 tabs, of which one also logs in and out and calls, 2 seconds | No caller waits for ever; without lost answers nobody is logged out but by a token reissued in the second in which it was consumed. Both hold. |
| `claim_tabs` | as `sessions` | The claim of `frontend/app/lib/api.ts` 80-83 without that exception. Violated: section 6. |
| `accounts` | 2 requests, 2 attempts, 3 seconds, 3 passwords, 1 link, 2 sessions | Guesses stay below the limit but for those in flight; lockouts end unless the key was orphaned; a change ends the sessions of before for good, unless it is overtaken, and an old password lets nobody in who comes after the store. All hold. |
| `opportunities` | 2 opportunities, 2 requests, TTL 2, MaxQuery 1 | The profile counter is what is live and on its way plus the drift of the listed events; the cached feed is wrong only for the life of a page and the time to read it. Both hold. |
| `social` | me and 2 other users, 2 requests, all 3 kinds | A counter is wrong by what a late profile missed and otherwise only by a raced recount, never by more than the users there are and no like below zero; settled buttons show what the server holds. All hold. |
| `chat` | 1 own message, 2 of the other, Take 3 | No message is shown twice; once everything has arrived, the page shows a message exactly if it is stored, but for those that a listed event hit. Both hold. |
| `claim_gap` | the same, Take 1 | The claim of `frontend/app/chat/private/[id]/page.tsx` 146-148 for a discussion longer than the query. Violated: section 6. |
| `email` | 2 instances, 1 email, 2 attempts, 1 retry, 1 stall, 1 crash, 2 changes of the opt-out | Second copies only after a failure that left the first in doubt; nothing lost without a reason; opt-outs honoured; everything ends. All hold. |

**Bounds.** `MaxIncarnations` is how often one row is created or restored: two is the least with
which a request can act on an older incarnation than it read. Two requests suffice for every
stale read in these methods, as each has one decision and one write; the proofs cover more. The
recount needs two candidates so that a count is neither zero nor all. Three instances are the
least with a run, a late party and a third that is down or skips. In `messages` each user sends
one message, any number of times; two clock values are the least with which a message can be
older, newer or of the same moment as a mark-as-read, and with which timestamps can be stored in
the other order. Two seconds are what it takes for two refreshes to fall into one second and a
third into another; a message queue of one per tab lets a login and a logout cross. Three
passwords are the least with two changes in progress over one in use. A page that lives for two
ticks can be read in one, written in the next and outlive another change. Two other users let a
recount be wrong in both directions while this one's row stays. In `chat` three messages fill
the query, and an own message can fall before, between and after the others; with `Take` 1 the
second message is already one too many. Two attempts and one retry are the least with a retry
that is not the last.

**Symmetry** is used where a run checks safety only, or action properties over interchangeable
slots: requests and candidates, users together with their messages, opportunities, other users.
The runs with liveness properties and `cron_lock`, `chat` use none.

**Deadlock** is not checked where the system really may stop: in `applications` and `recount` (a
deleted opportunity, or a row that used up its incarnations, leaves only rejected requests), in
`sessions` and `claim_tabs` (the clock and the mailboxes are at their bounds), in `accounts`
(everything invented, the clock at its bound), and in `email` (every email is over). It is
checked everywhere else.

**Fairness** is assumed in three modules, for what the platform does by itself and never for
users, servers or failures:

| Module | Weakly fair | Why |
|---|---|---|
| `Sessions` | granting the lock; receiving the answer of a refresh or its abort timer | The browser grants a free Web Lock and fires `AbortSignal.timeout`. That the server answers is not assumed. |
| `Accounts` | expiry of a key that has a TTL; the EXPIRE of a request that was not stopped | Redis expires keys; a promise chain goes on. |
| `Email` | end of `queue.add`, start of the fallback, handing out, promoting and stall checks of jobs, the lookup, the timeout of an attempt | Node's timers, BullMQ's schedulers. The provider owes no answer, and nobody is made to crash or not to. |

## 5. The proofs

| Module | Theorems |
|---|---|
| `ApplicationsProofs` | `TypeCorrect`, `SlotsCorrect`, `NoticesCorrect`, `FlagsCorrect`, `SubmitsDraftsOnly`, `DecisionsOnActiveOnly`, `CompletedStays`, `CounterCorrect`, `UsesCorrect`, `RecountExact`, `RecountSafe`, `RecountKeepsOrder` |
| `LockProofs` | `CronLock`: `CronTypeCorrect`, `CycleCorrect`, `SkipsCorrect`, `LockCorrect`, `KeyReleased`; `Sessions`: `SessionCorrect`, `SessionTypeCorrect`, `CalmCorrect`, `NoRaceCorrect`, `HeadActs`, `QueueDrainsCorrect` |
| `MessagesProofs` | `TypeCorrect`, `BadgeCorrect`, `ToldCorrect`, `InboxImplemented`, `RecountExact` |
| `SocialToggleProofs` | `ServerImplemented`, `CounterExplained`, `ErrorBounded`, `LikesStayNatural`, `TypeCorrect`, `ButtonsSettle` |
| `AccountsProofs` | `TypeCorrect`, `OldPasswordsEnd`, `AttemptsCorrect`, `ArmedCorrect`, `ExpiryStaysCorrect` |
| `OpportunitiesProofs` | `TypeCorrect`, `CountCorrect`, `FeedCorrect` |
| `ChatPageProofs` | `TypeCorrect`, `ShownOnce`, `Settles`, `ServerPromised` |
| `EmailProofs` | `TypeCorrect`, `OptOutsHold`, `NoneIsLost`, `CopiesHold`, `WorkShrinksCorrect`, `WorkBoundedCorrect`, `NobodyStuckCorrect`, `OverStaysCorrect` |

They assume only the named assumptions of the modules: null values are none of the values,
bounds are natural numbers, sets that are counted are finite (without which a cardinality says
nothing), `Origin` maps client ids to a discussion and a sender, and `TimesAssumption` of the
lock.

**Flags.** `FlagsFollowStage` is not inductive: a review in progress could be about to write any
stage. `SlotInv` strengthens it with what a slot may hold: a review asks for a stage of the
transition table, a withdrawal carries no code, only submit and withdraw count, a pending
notification tells of a committed outcome. `SlotsCorrect` proves it; one lemma per statement on
the row (`EveryRowStep`, `ReviewedFlags`) then gives the flags. Notice that the flags hold
although the transitions do not (section 6): a stale review writes the flags of the stage it
writes, so the row is consistent if out of order.

**Counter.** `CounterAccounting` relates a counter to the cardinality of three sets. The
induction needs, besides the types and `SlotInv`, that a DRAFT is flagged so (`DraftRows`; the
three together are `Base`); then each action changes each of the three sets by at most one
element (`OneElement`, `LiveChange`, `CountingChange`), and the equation is balanced for submit,
withdraw, restore and the two outcomes of the counter transaction separately (`SubmitCounter`,
`WithdrawCounter`, `MovingBalance`, `AfterCounter`), every other action being quiet.

**Recounts.** `RecountExact` needs to know what the job still holds: while `quiet`, the numbers
it read are those of the tables of now (`RecountInv`, in both modules), and then a write settles
the equation of the counter with no drift (`QuietlyBalanced`, `QuietWriteExact`). The composed
specification takes the accounting with it: `BaseStep` and `CounterStep` are lemmas on steps of
the workflow, used again under `RecountSpec`. `RecountSafe` collects what the composition keeps:
types, flags, notifications, uses and the accounting of the counter hold with the recount running
next to the workflow as they do without it (`RecountKeeps`), and `RecountKeepsOrder` adds the
three action properties, from the same lemmas on steps (`RowRules`, `CodeRule`).

**Lock.** `CycleInv` fits the runs and the key into the elapsed part of the cycle: while any
instance has yet to fire in this cycle, at most `Skew` has elapsed; a key implies that its
remaining life and the elapsed time together are at most `Skew + TTL`, and that a run started in
this cycle; an active run is at most `Skew` younger than the cycle. With `Skew + TTL <= Period`
no key or run reaches the next cycle (`CycleEnds`), so a failure cannot reach it either, and a
skip proves a start in the same cycle. The lock invariant adds that in a cycle without a failed
`SET` the key is exactly as old as the only active run.

**Tabs.** `SessionInv` of `LockProofs` is what the types of `Sessions` need: the queue of the Web
Lock holds each tab that refreshes, once (`QueueInv`); only its head has a request under way; a
tab waits for an answer exactly while it refreshes (`WaitInv`); and no token comes from the
future (`TokensKnown`), which decides what "used" means. `NoRaceLogout` is about what happens as
long as no answer is lost, no server fails and no pair is reissued within its second. `Calm` says
what that world looks like: every page is shown, a repeated request carries a valid cookie and
succeeds, the refresh that is under way sends the token of the jar, an answer on its way holds
an unused token, and between two refreshes the jar does. It is inductive with `SessionInv`
because only the head of the queue may touch the jar, which is the whole point of the lock; a
logout needs an answer that `Calm` excludes.

**Messages.** A badge is raised only by the transaction that stores the message it counts, and
reset to 0; what threatens `UnreadIsBacked` is the recount, which writes a number it counted
earlier. `BadgeInv` adds that every number it holds is at most the incoming messages of now,
which is inductive since messages are never removed (`StoredStays`, `IncomingGrows`).
`ToldOnceAndStored` needs that of all requests past the insert at most one is still to broadcast
a given message, and that message is stored and was not broadcast: `Committed`. The refinement
`InboxImplemented` follows step by step from the two invariants: a commit is a `Send`, a
broadcast a `Tell`, a reset or a recount's write a `Settle` within what `BadgeInv` allows,
everything else a stutter.

**Social.** `ServerImplemented` shows that the browser only takes steps of `Social`, so what
holds of the server alone holds of the whole. There, `ServerInv` adds to the three properties
that while `quiet`, the number the recount holds is the number of rows (`QuietTotal`), that a
counter without a profile is 0 (`NoProfile`), and that only followers are missed
(`LikesMissNothing`). A mark that finds a profile moves both sides of `ErrorIsExplained`; the
creation of a profile turns the rows of now into what was missed.
`SettledAgrees` has an invariant for follows and one for likes. `FollowInv`: cache and query
agree with the rows, or there is a request under way, which will ask again. `LikeInv`: a request
under way is the only one, has changed the rows if it was served, and the page shows what it
will have made true; with no request, all that is held is true.

**Accounts.** `SessionInv` adds two things to `OldSessionsEnd`. A request that is about to sign
for an untainted session has read the password that the session rests on (`CleanRequests`). And
`passwordChangedAt` is the time that the history tells (`TimeKept`): what the code stores is what
`ended` demands, which needs that a request takes its time after it began, so that one that is
not overtaken cannot store an older time than the one before it. Then a store leaves accepted
only what was signed from its time on, and a later one cannot let older sessions back in.
`AttemptInv` counts
the counter together with the requests that have failed and are still to count. The counter of
failures and its expiry are set by two commands; `LockoutArmed` says that a counter without an
expiry has a request about to set it, or one that was stopped before it could, and `ExpiryStays`
that nothing takes this away before the counter is gone.

**Opportunities.** `CountAccounting` is an equation of three cardinalities and inductive with
the types; the proof shows for each action which set gains or loses one element. `FeedInv` adds
to `FeedIsRecent` the page that a request holds: an opportunity it shows wrongly has changed
within its age.

**Page.** A page that is shown, and every page that a failure would restore, holds only messages
that are stored or its own, each once (`Sound`); since a mutation remembers the page of before
its draft, this needs `New`, the messages nobody has sent. `Settles` rests on `Covers`, which
speaks of each message that is not `astray`. If it was broadcast it is shown, on its way, in the
query that is read or due, or the page is cut off and will ask (`Covered`, `Cov`); if it is a
draft, it is stored or on its way to the server (`Real`); and the query under way has read what
the page shows (`Ahead`) and what a failure would restore (`Kept`), so that its answer takes
nothing away. Once everything has arrived, only the first of these reasons is left. The answer
of a query is the one step that takes messages out of `astray`: those that it shows, and those
that are not stored. `ServerPromised` ties the page to the service: the server of `ChatPage`
implements `Inbox`, which `Messages` implements too, with the stored messages as the log, no
readers, and a lost broadcast as one that nobody heard. It needs that a request that is sent or
given up has left no row yet (`Unserved`).

**Email.** `NothingLost` needs that somebody is always responsible (`LossInv`): while there is
no copy and no excuse, the request, an open job with attempts left (`JobsOpen`), or an armed
fallback. `CopiesAreJustified` needs to count everything that can still become a copy
(`CopyInv`): copies, late requests, active attempts, a ready job, an armed fallback and an
undecided request are together at most one more than the doubts. `OptOutHonoured` needs that a
quiet attempt's recipient is still opted out (`QuietInv`).

`Work(e)` measures what an email may still cost. A try of the job takes at most five steps
(backoff, worker, lookup, request, answer) and there are as many as attempts and stalls left;
a try of the fallback takes four; and since a rejected `queue.add` may have stored its job, an
undecided request counts for both. No step raises the measure, and every step of the queue, of
the fallback or of an attempt lowers it (`WorkShrinks`: one lemma per action, `EndShrinks` for
the end of an attempt, which frees the next one). It starts at `MostWork`, linear in the
constants (`WorkBounded`).

**What ends.** Liveness stays with TLC: `EveryWaitEnds`, `LockoutEnds` and `EveryEmailSettles`
hold in the runs, since the prover handles neither fairness nor ENABLED. For each of them the
proofs give the two facts that a proof by a fair action rests on, for every value of the
constants: that while the goal is not reached the guard of a fair action holds, and that such
steps bring the goal closer while no other step moves it away.

| Property | Somebody can act | It gets closer |
|---|---|---|
| `EveryWaitEnds` | `HeadActs`: the head of the queue has the lock to take or an answer or a timeout to get | `QueueDrainsCorrect`: every such step lowers the number of steps before each tab in the queue |
| `LockoutEnds` | `ArmedCorrect` | `ExpiryStaysCorrect` |
| `EveryEmailSettles` | `NobodyStuckCorrect` | `WorkShrinksCorrect`, `WorkBoundedCorrect`; `OverStaysCorrect` keeps what was reached |

What is missing between these and the temporal property is the step from a guard to ENABLED and
the rule for weak fairness. For emails, one more thing is left to the run, which has one email: a
waiting job may find all workers busy with other emails, so that it is the sum over the emails,
of which there must be finitely many, that shrinks.

Every invariant and every action property that a passing run checks is stated by a theorem,
except for the liveness properties.

## 6. Where code and documents differ

Two runs show a disagreement; their counterexamples are short enough to read.

- *Tabs* (`claim_tabs`). A refresh token is signed over the user and the time in seconds, with
  no `jti` (`auth/auth.service.ts:374`). Two tabs that refresh behind each other within one
  second are given the very token that the first has just put on the blocklist, and the next
  refresh logs the user out, which `frontend/app/lib/api.ts:80-83` says the lock prevents.
- *Gap* (`claim_gap`). `findPrivateDiscussionMessages` takes the first 50 messages in ascending
  order (`messages/messages.service.ts:204`), and no page asks for more: in a longer discussion
  the refetch after a reconnection, or on opening the page, returns none of the newest messages,
  against `frontend/app/chat/private/[id]/page.tsx:146-148`.

Read in the code while modelling, not given a run:

*Applications.* `withdraw` checks the stage on the row it read and writes with a filter that
leaves the stage out (447), so an application accepted in between is withdrawn; so does `review`
(359): the second of two reviews moves ARCHIVED to SUCCESS or back; a restoration is filtered by
id only (126), so the second of two creates resets a row that was submitted in between. `update`
decides on DRAFT and writes by id only (182), so a submitted application can still change,
against its comment (165-169); the referral check of `submit` is made on the code it read, which
an `update` may replace before the write. The comment at 277 trusts the nightly recount with
counters that include `usesCount`, which it never recounts.

*Cron.* Opportunities without any like, save or counted application have no group and are not
written (`cron/cron.service.ts:403`), so the zero case keeps its drift. `withLock` deletes the
key when the job ends (74): a short job is run again by an instance whose timer is late. A
recount adds drift of its own when a counter update falls between its read and its write.
`scripts/resync-counters.ts` counts withdrawn applications, the cron does not.

*Messages.* Nothing in `startPrivateDiscussion` (235) blocks a second request, so two can create
a discussion each. The comment at 383 promises a retry the same message, but one that runs next
to the first attempt gets a conflict. Of two marks as read the earlier may be written last and
move `lastReadAt` back; a notification created after the mark-as-read of its message stays
unread (the comment at 356 wants to avoid that); and the page that marks a discussion as read
does not refresh the count in the sidebar.

*Accounts.* A request that stops between INCR and EXPIRE locks the account for good, also for a
user who resets the password. Of two resets the earlier stamp may be stored last and move
`passwordChangedAt` back. A session signed in the second of the change survives it (448).
`changePassword` leaves a pending reset link valid. `generateOAuthCode` is never called.

*Social.* A company profile that is first saved after others began to follow its user starts with
`followersCount` 0 (`profiles/profiles.service.ts:158`, `social/social.service.ts:66-75`), and each
of them who leaves takes one off, below zero, since `unfollow` (117) has no `gt: 0` filter; the
nightly recount puts it right.

*Sessions.* Logout never receives the refresh cookie, whose path is that of `/auth/refresh`, so
it revokes nothing, though `auth/auth.controller.ts:167-174` says so. A refresh that ends in a
server error logs the user out if `refreshUser` asked for it (`frontend/app/lib/api.ts:148`
tells the two apart, `AuthContext.tsx:54-56` does not). A database error after the token was
consumed becomes a 401 (`auth/auth.service.ts:455-458`).

*Opportunities.* The recount of profiles counts removed rows. Archiving drops the statistics of
the admin page from the cache and not the feed. `activeOpportunitiesCount` is left alone by
create, by the owner's update and by archiving. When a SET NX fails, a view is counted and a
share is not. The comment at 358 relies on a nightly recount of `viewsCount` that does not
exist.

*Frontend.* The list of discussions does not know the likes of earlier sessions, so such a like
cannot be taken back there. Within ten minutes (`gcTime`) a page that is opened again shows the
cached messages without asking (`staleTime` is Infinity; `page.tsx:146` says otherwise). A first
load that was read before a reconnection is not begun again by it, so that a message of the gap
may be missing, against `page.tsx:146-148`. A send
during the first load cancels the query for good. A socket that the server closed because of an
expired cookie is not opened again, although `SocketContext.tsx:74-76` refreshes for it.
`handleDisconnect` looks for rooms that Socket.IO has already left; `stopTyping` can overtake
`typing`.

*Notifications.* The dedup key is set before the row is created
(`notifications/notifications.service.ts:141`), so a failed create swallows the retry as well,
though the comment (137) speaks of what "was persisted"; a second message within 30 seconds
rings no bell, also when the first was read meanwhile.

## 7. Not modelled

Read-only queries, DTO validation, rendering, HTML of emails, external services (AI, storage)
and operator scripts hold no state whose interleavings matter; they are most of the repository's
lines: the pages of the frontend alone are more than half, which is why the modules stand for a
small share of it. Users, tasks, features, industries, markets, feedback, and profiles but for
their creation are single-row CRUD with an ownership check; a rating recomputes an average from
all rows, once read and once written. Of the modelled components the following are left out:
deduplication, preferences and read state of notifications; public discussions with
`messagesCount`; `activeOpportunitiesCount`, views and shares; the creation of referral codes
with its limit; registration, email verification and the exchange of OAuth codes; typing and
presence. `PROJECT.json` gives the status of every component and, under `hazards`, the reason
for each one that no property covers.
