------------------------------ MODULE Messages ------------------------------
(***************************************************************************)
(* Private discussions of MessagesService: two users open a discussion,    *)
(* send messages that carry a client-generated id, and mark what they have *)
(* read; the nightly job recounts what is unread.                          *)
(*                                                                         *)
(* One action is one statement or transaction of a request; between two of *)
(* them any other request may run.  createdAt and lastReadAt are taken     *)
(* from a clock before the statement that stores them takes effect, so     *)
(* their order need not be the order of the writes.                        *)
(*                                                                         *)
(* A message without a client id behaves like an id that is sent once.     *)
(***************************************************************************)
EXTENDS Integers, FiniteSets

CONSTANTS
    Users,
    Discussions,   \* the rows private discussions may get
    ClientIds,     \* the ids clients generate, one for every send
    Origin,        \* the discussion and the sender an id was generated for
    Requests,      \* slots for requests in progress
    MaxTime        \* bound on the clock

Participants == Discussions \X Users    \* @@unique([userId, discussionId])

ASSUME OriginAssumption == Origin \in [ClientIds -> Participants]
ASSUME TimeAssumption == MaxTime \in Nat \ {0}
ASSUME FiniteAssumption == IsFiniteSet(ClientIds)

VARIABLES
    members,     \* the participants of each discussion; none until it is created
    createdAt,   \* of each stored message; 0: not stored
    unread,      \* Participant.unreadCount
    lastReadAt,  \* Participant.lastReadAt; 0: null
    bell,        \* the participants with an unread NEW_MESSAGE notification
    request,     \* the requests in progress
    recount,     \* the nightly job
    now,         \* the clock
    (***********************************************************************)
    (* History: read by no action                                          *)
    (***********************************************************************)
    broadcast,   \* how often each message was broadcast to its room
    quiet        \* no request took a step since the job read the tables

tables == <<members, createdAt, unread, lastReadAt, bell>>
vars == <<tables, request, recount, now, broadcast, quiet>>

-----------------------------------------------------------------------------

Times == 1 .. MaxTime

Pairs == {{u, v} : u, v \in Users}

Stored(id) == createdAt[id] > 0

\* The messages of the discussion that others sent.
Incoming(p) == {id \in ClientIds : Stored(id) /\ Origin[id][1] = p[1] /\ Origin[id][2] # p[2]}

Idle == [pc |-> "idle"]

Opening == [pc : {"create"}, pair : Pairs]

Sending == [pc : {"commit", "broadcast", "notify"}, id : ClientIds, at : Times]

Reading == [pc : {"reset", "clear"}, p : Participants, at : Times]

Become(r, record) == request' = [request EXCEPT ![r] = record] /\ quiet' = FALSE

Goto(r, pc) == Become(r, [request[r] EXCEPT !.pc = pc])

Finish(r) == Become(r, Idle)

-----------------------------------------------------------------------------
(* startPrivateDiscussion *)

\* The discussions findFirst may return.
Between(pair) == {d \in Discussions : members[d] # {} /\ pair \subseteq members[d]}

\* An existing discussion is returned as it is and changes nothing.
FindDiscussion(r, u, v) ==
    /\ request[r] = Idle
    /\ u # v
    /\ Between({u, v}) = {}
    /\ Become(r, [pc |-> "create", pair |-> {u, v}])
    /\ UNCHANGED <<tables, recount, now, broadcast>>

\* Same transaction, READ COMMITTED: nothing repeats or protects the lookup.
CreateDiscussion(r, d) ==
    /\ request[r].pc = "create"
    /\ members[d] = {}
    /\ members' = [members EXCEPT ![d] = request[r].pair]
    /\ Finish(r)
    /\ UNCHANGED <<createdAt, unread, lastReadAt, bell, recount, now,
                   broadcast>>

-----------------------------------------------------------------------------
(* createPrivateMessage *)

\* The sender takes part.  When dedupGet finds the answer of an earlier attempt, that is
\* returned and nothing changes; but the entry is written last, expires, and may be lost
\* with Redis, so a retry may get here at any time.  createdAt is taken when the insert is
\* sent, and what is read before it never changes.
BeginSend(r, id) ==
    /\ request[r] = Idle
    /\ Origin[id][2] \in members[Origin[id][1]]
    /\ Become(r, [pc |-> "commit", id |-> id, at |-> now])
    /\ UNCHANGED <<tables, recount, now, broadcast>>

\* Variant of Insertable: clientMessageId is not unique.
AnyId(id) == createdAt[id] >= 0

\* clientMessageId @unique
Insertable(id) == ~Stored(id)

\* The participants whose unreadCount the send increments.
Recipients(id) ==
    {p \in Participants :
        p[1] = Origin[id][1] /\ p[2] \in members[p[1]] /\ p[2] # Origin[id][2]}

\* The message, lastMessageAt and the recipient's unreadCount in one transaction.
CommitMessage(r) ==
    LET id == request[r].id IN
    /\ request[r].pc = "commit"
    /\ \/ /\ Insertable(id)
          /\ createdAt' = [createdAt EXCEPT ![id] = request[r].at]
          /\ unread' = [p \in Participants |->
                           IF p \in Recipients(id) THEN unread[p] + 1 ELSE unread[p]]
          /\ Goto(r, "broadcast")
       \/ /\ ~Insertable(id)     \* P2002, answered as a Conflict
          /\ Finish(r)
          /\ UNCHANGED <<createdAt, unread>>
    /\ UNCHANGED <<members, lastReadAt, bell, recount, now, broadcast>>

Broadcast(r) ==
    /\ request[r].pc = "broadcast"
    /\ broadcast' = [broadcast EXCEPT ![request[r].id] = @ + 1]
    /\ Goto(r, "notify")
    /\ UNCHANGED <<tables, recount, now>>

\* createInApp: muted, deduplicated or failed, it leaves the bell alone.  The answer is put
\* into Redis and returned.
NotifyRecipient(r) ==
    /\ request[r].pc = "notify"
    /\ \/ bell' = bell \union Recipients(request[r].id)
       \/ UNCHANGED bell
    /\ Finish(r)
    /\ UNCHANGED <<members, createdAt, unread, lastReadAt, recount, now, broadcast>>

-----------------------------------------------------------------------------
(* markPrivateDiscussionAsRead *)

\* new Date() is taken when the update is sent.
BeginRead(r, p) ==
    /\ request[r] = Idle
    /\ p[2] \in members[p[1]]
    /\ Become(r, [pc |-> "reset", p |-> p, at |-> now])
    /\ UNCHANGED <<tables, recount, now, broadcast>>

ResetUnread(r) ==
    LET p == request[r].p IN
    /\ request[r].pc = "reset"
    /\ unread' = [unread EXCEPT ![p] = 0]
    /\ lastReadAt' = [lastReadAt EXCEPT ![p] = request[r].at]
    /\ Goto(r, "clear")
    /\ UNCHANGED <<members, createdAt, bell, recount, now, broadcast>>

ClearBell(r) ==
    /\ request[r].pc = "clear"
    /\ bell' = bell \ {request[r].p}
    /\ Finish(r)
    /\ UNCHANGED <<members, createdAt, unread, lastReadAt, recount, now,
                   broadcast>>

\* A statement fails, or the instance stops.
Abort(r) ==
    /\ request[r] # Idle
    /\ Finish(r)
    /\ UNCHANGED <<tables, recount, now, broadcast>>

-----------------------------------------------------------------------------
(* _recountUnreadCounts *)

Resting == [pc |-> "idle", cursor |-> [p \in Participants |-> 0], todo |-> {},
            counted |-> [p \in Participants |-> -1]]

\* Variant of Newer: the messages of the participant itself are counted too.
NewerOfAnyone(p, cursor) ==
    {id \in ClientIds : Stored(id) /\ Origin[id][1] = p[1] /\ createdAt[id] > cursor}

\* Those of the others created after the cursor; a null cursor is before every message.
Newer(p, cursor) == {id \in Incoming(p) : createdAt[id] > cursor}

RecountRead ==
    /\ recount = Resting
    /\ recount' = [pc |-> "counting", cursor |-> lastReadAt,
                   todo |-> {p \in Participants : p[2] \in members[p[1]]},
                   counted |-> [p \in Participants |-> -1]]
    /\ quiet' = \A r \in Requests : request[r] = Idle
    /\ UNCHANGED <<tables, request, now, broadcast>>

\* Variant of Counted: the count is not awaited.
NotAwaited(p) == recount.counted[p] >= -1

Counted(p) == recount.counted[p] >= 0

\* One participant: a count, then an update.
RecountCount(p) ==
    /\ p \in recount.todo
    /\ ~Counted(p)
    /\ recount' = [recount EXCEPT !.counted[p] = Cardinality(Newer(p, recount.cursor[p]))]
    /\ UNCHANGED <<tables, request, now, broadcast, quiet>>

RecountWrite(p) ==
    /\ p \in recount.todo
    /\ Counted(p)
    /\ unread' = [unread EXCEPT ![p] = recount.counted[p]]
    /\ recount' = [recount EXCEPT !.todo = @ \ {p}]
    /\ UNCHANGED <<members, createdAt, lastReadAt, bell, request, now,
                   broadcast, quiet>>

\* The job is done, fails, or its instance stops; the updates of its batch that a failure
\* leaves in flight count as failed.
RecountEnd ==
    /\ recount # Resting
    /\ recount' = Resting
    /\ quiet' = FALSE
    /\ UNCHANGED <<tables, request, now, broadcast>>

Tick ==
    /\ now < MaxTime
    /\ now' = now + 1
    /\ UNCHANGED <<tables, request, recount, broadcast, quiet>>

-----------------------------------------------------------------------------

Init ==
    /\ members = [d \in Discussions |-> {}]
    /\ createdAt = [id \in ClientIds |-> 0]
    /\ unread = [p \in Participants |-> 0]
    /\ lastReadAt = [p \in Participants |-> 0]
    /\ bell = {}
    /\ request = [r \in Requests |-> Idle]
    /\ recount = Resting
    /\ now = 1
    /\ broadcast = [id \in ClientIds |-> 0]
    /\ quiet = FALSE

Open(r) ==
    \/ \E u, v \in Users : FindDiscussion(r, u, v)
    \/ \E d \in Discussions : CreateDiscussion(r, d)

Send(r) ==
    \/ \E id \in ClientIds : BeginSend(r, id)
    \/ CommitMessage(r) \/ Broadcast(r)
    \/ NotifyRecipient(r)

Read(r) ==
    \/ \E p \in Participants : BeginRead(r, p)
    \/ ResetUnread(r) \/ ClearBell(r)

Recount ==
    \/ RecountRead
    \/ \E p \in Participants : RecountCount(p) \/ RecountWrite(p)
    \/ RecountEnd

Next ==
    \/ \E r \in Requests : Open(r) \/ Send(r) \/ Read(r) \/ Abort(r)
    \/ Recount
    \/ Tick

Spec == Init /\ [][Next]_vars

-----------------------------------------------------------------------------

TypeOK ==
    /\ members \in [Discussions -> SUBSET Users]
    /\ createdAt \in [ClientIds -> 0 .. MaxTime]
    /\ unread \in [Participants -> Nat]
    /\ lastReadAt \in [Participants -> 0 .. MaxTime]
    /\ bell \subseteq Participants
    /\ request \in [Requests -> {Idle} \union Opening \union Sending \union Reading]
    /\ recount \in [pc : {"idle", "counting"}, cursor : [Participants -> 0 .. MaxTime],
                    todo : SUBSET Participants, counted : [Participants -> Nat \union {-1}]]
    /\ now \in Times
    /\ broadcast \in [ClientIds -> Nat]
    /\ quiet \in BOOLEAN

\* The unread badge never shows more than there is to read, whatever retries, concurrent
\* mark-as-read calls and stale recounts write: each send is counted at most once, and
\* what the recount writes is still there.
UnreadIsBacked == \A p \in Participants : unread[p] <= Cardinality(Incoming(p))

\* A retry, also one that runs next to the first attempt, broadcasts nothing twice, and
\* nobody is told of a message that is not stored.
ToldOnceAndStored ==
    /\ \A id \in ClientIds : broadcast[id] <= IF Stored(id) THEN 1 ELSE 0
    /\ \A p \in bell : Incoming(p) # {}

Log == {id \in ClientIds : Stored(id)}

Addressees ==
    [id \in ClientIds |-> {p \in Participants : p[1] = Origin[id][1] /\ p[2] # Origin[id][2]}]

Promise == INSTANCE Inbox WITH
    Ids <- ClientIds, Readers <- Participants, To <- Addressees,
    log <- Log, told <- broadcast, badge <- unread, bell <- bell

\* Requests of which the statements interleave, retries that meet their first attempt, aborts and
\* the recount together do no more than the inbox allows in single steps.
ImplementsInbox == Promise!Spec

\* When no request runs between its read and its write, the recount leaves each participant
\* with the messages of the others that are newer than the last mark-as-read.
RecountUnreadIsExact ==
    [][\A p \in Participants :
          p \in recount.todo /\ recount'.pc = "counting" /\ p \notin recount'.todo /\ quiet
             => unread'[p] = Cardinality({id \in Incoming(p) : createdAt[id] > lastReadAt[p]})]_vars

=============================================================================
