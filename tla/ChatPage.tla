------------------------------ MODULE ChatPage ------------------------------
(***************************************************************************)
(* The page of one private discussion in one browser: its query of the     *)
(* messages, its optimistic sends, its socket, and the room of the         *)
(* discussion in ChatGateway.                                              *)
(*                                                                         *)
(* What the query cache holds of a message is "none", a "draft" (the       *)
(* optimistic entry), "final" (the entry of the server), or "twice".  The  *)
(* query is absent, fresh (it is not fetched again: staleTime is Infinity) *)
(* or stale (invalidated, and fetched when a page that shows it mounts).   *)
(***************************************************************************)
EXTENDS Integers, Sequences

CONSTANTS
    Own,        \* the messages that this user sends: each has its clientMessageId
    Theirs,     \* those of the other participant
    Take        \* how many messages the query returns

ASSUME MessagesAssumption == Own \intersect Theirs = {}
ASSUME TakeAssumption == Take \in Nat \ {0}

VARIABLES
    stored,     \* the Message rows, by createdAt
    told,       \* the messages whose broadcast is over
    conn,       \* the socket: "up", "down", or "dead": closed by the server
    access,     \* the access_token cookie is valid
    room,       \* the server has put the socket into the room of the discussion
    joining,    \* the join event under way and what it was sent for, or "no"
    transit,    \* the newMessage events on their way
    mounted,
    page,       \* the query cache
    fetch,
    send,       \* the life of each own message
    (***********************************************************************)
    (* History: read by no action                                          *)
    (***********************************************************************)
    astray      \* the messages of which an event has said that the page may show them wrongly

server == <<stored, told>>
socket == <<conn, access, room, joining, transit>>
view == <<mounted, page, fetch>>
vars == <<server, socket, view, send, astray>>

-----------------------------------------------------------------------------

Messages == Own \union Theirs

Elements(s) == {s[i] : i \in DOMAIN s}

NoFetch == [pc |-> "none"]

Due == [pc |-> "due"]

NoPage == [query |-> "absent", entry |-> [m \in Messages |-> "none"]]

Fresh(entry) == [query |-> "fresh", entry |-> entry]

\* The order is by createdAt, ascending, and nothing is skipped.
FirstPage == {stored[i] : i \in 1 .. IF Len(stored) < Take THEN Len(stored) ELSE Take}

\* The mutation of the page that is mounted is pending.
Pending == \E m \in Own : send[m].pc \in {"sent", "served"} /\ send[m].mine

InRead(m) == fetch.pc = "read" /\ m \in fetch.value

\* What was broadcast and is neither in the page nor on its way to it, but for the query
Unheard == {m \in told \ transit : page.entry[m] # "final"}

\* The query that is due or read will show it.
Asked(m) == fetch = Due \/ InRead(m)

-----------------------------------------------------------------------------
(* The server *)

\* The other participant sends.
Receive(m) ==
    /\ m \in Theirs \ Elements(stored)
    /\ stored' = Append(stored, m)
    /\ UNCHANGED <<told, socket, view, send, astray>>

\* After the commit, and not waited for by anyone
Broadcast(m) ==
    /\ m \in Elements(stored) \ told
    /\ told' = told \union {m}
    /\ transit' = IF room THEN transit \union {m} ELSE transit
    /\ astray' = IF room \/ Asked(m) \/ page.entry[m] = "final" \/ (mounted /\ conn = "down")
                 THEN astray ELSE astray \union {m}
    /\ UNCHANGED <<stored, conn, access, room, joining, view, send>>

\* The instance stops between the commit and the broadcast.
LoseBroadcast(m) ==
    /\ m \in Elements(stored) \ told
    /\ told' = told \union {m}
    /\ astray' = astray \union {m}
    /\ UNCHANGED <<stored, socket, view, send>>

\* handleJoin has found the participant.  The page may have sent leave in the meantime.
Join ==
    /\ joining # "no"
    /\ room' = TRUE
    /\ joining' = "no"
    /\ UNCHANGED <<server, conn, access, transit, view, send, astray>>

\* isParticipant throws: nobody asks again.
JoinFails ==
    /\ joining # "no"
    /\ joining' = "no"
    /\ UNCHANGED <<server, conn, access, room, transit, view, send, astray>>

-----------------------------------------------------------------------------
(* The socket *)

\* Variant of Merged: the entry is looked up by the server's id only.
ById(entry) == CASE entry = "none"  -> "final"
                 [] entry = "draft" -> "twice"
                 [] OTHER           -> entry

\* handleNewMessage: a draft is replaced, a known message is left alone, another one is added.
Merged(entry) == IF entry = "twice" THEN "twice" ELSE "final"

\* The handlers are registered while the page is mounted.  A query without data gets some.
Deliver(m) ==
    /\ m \in transit
    /\ transit' = transit \ {m}
    /\ page' = IF mounted THEN Fresh([page.entry EXCEPT ![m] = Merged(@)]) ELSE page
    /\ astray' = IF IF mounted THEN fetch.pc = "read" /\ m \notin fetch.value
                               ELSE page.entry[m] # "final" /\ ~Asked(m)
                 THEN astray \union {m} ELSE astray
    /\ UNCHANGED <<server, conn, access, room, joining, mounted, fetch, send>>

\* Variant of Left: the flag of the room survives.
StillIn == room

\* The server-side socket takes its rooms with it.
Left == FALSE

Disconnect ==
    /\ conn = "up"
    /\ conn' = "down"
    /\ room' = Left
    /\ joining' = "no"
    /\ transit' = {}
    /\ astray' = IF mounted THEN astray ELSE astray \union transit
    /\ UNCHANGED <<server, access, view, send>>

\* Variant of Caught: the handler only joins again.
NotCaught == [page |-> page, fetch |-> fetch]

\* handleReconnect invalidates the query, which fetches it for the mounted page.  A fetch that
\* is under way is begun again only if the query has data.
Caught == [page |-> [page EXCEPT !.query = IF @ = "absent" THEN @ ELSE "stale"],
           fetch |-> IF page.query = "absent" /\ fetch # NoFetch THEN fetch ELSE Due]

\* The handshake carries the cookie: if it has expired, the server closes the new socket,
\* and socket.io does not open another one after that.
Reconnect ==
    /\ conn = "down"
    /\ conn' = IF access THEN "up" ELSE "dead"
    /\ joining' = IF access /\ mounted THEN "rejoin" ELSE "no"
    /\ page' = IF mounted THEN Caught.page ELSE page
    /\ fetch' = IF mounted THEN Caught.fetch ELSE fetch
    /\ astray' = IF mounted /\ page.query = "absent" /\ fetch.pc = "read"
                 THEN astray \union (told \ fetch.value) ELSE astray
    /\ UNCHANGED <<server, access, room, transit, mounted, send>>

Expire ==
    /\ access
    /\ access' = FALSE
    /\ UNCHANGED <<server, conn, room, joining, transit, view, send, astray>>

\* refreshUser, or any other call
Renew ==
    /\ ~access
    /\ access' = TRUE
    /\ UNCHANGED <<server, conn, room, joining, transit, view, send, astray>>

-----------------------------------------------------------------------------
(* The page *)

\* The data is not fetched again unless it is absent or stale.  A join that is sent on a socket
\* that is down waits for the connection.
Mount ==
    /\ ~mounted
    /\ mounted' = TRUE
    /\ joining' = IF conn = "up" THEN "mount" ELSE joining
    /\ fetch' = IF page.query # "fresh" /\ fetch = NoFetch THEN Due ELSE fetch
    /\ UNCHANGED <<server, conn, access, room, transit, page, send, astray>>

\* leave; a mutation that is pending goes on, unknown to the next page.
Unmount ==
    /\ mounted
    /\ mounted' = FALSE
    /\ room' = FALSE
    /\ send' = [m \in Own |-> IF send[m].pc \in {"sent", "served"}
                              THEN [send[m] EXCEPT !.mine = FALSE] ELSE send[m]]
    /\ astray' = IF conn = "down" THEN astray \union {m \in Unheard : ~Asked(m)} ELSE astray
    /\ UNCHANGED <<server, conn, access, joining, transit, page, fetch>>

\* gcTime
Collect ==
    /\ ~mounted /\ fetch = NoFetch
    /\ page.query # "absent"
    /\ page' = NoPage
    /\ UNCHANGED <<server, socket, mounted, fetch, send, astray>>

FetchRead ==
    /\ fetch = Due
    /\ fetch' = [pc |-> "read", value |-> FirstPage]
    /\ UNCHANGED <<server, socket, mounted, page, send, astray>>

FetchArrives ==
    /\ fetch.pc = "read"
    /\ page' = Fresh([m \in Messages |-> IF m \in fetch.value THEN "final" ELSE "none"])
    /\ fetch' = NoFetch
    /\ astray' = astray \intersect (Elements(stored) \ fetch.value)
    /\ UNCHANGED <<server, socket, mounted, send>>

\* All retries have failed.
FetchFails ==
    /\ fetch # NoFetch
    /\ fetch' = NoFetch
    /\ astray' = astray \union Unheard
    /\ UNCHANGED <<server, socket, mounted, page, send>>

-----------------------------------------------------------------------------
(* Sending *)

\* onMutate cancels the query, keeps what the page shows and adds the draft.
Send(m) ==
    /\ mounted /\ ~Pending
    /\ send[m].pc = "new"
    /\ fetch' = NoFetch
    /\ send' = [send EXCEPT ![m] = [pc |-> "sent", prev |-> page, mine |-> TRUE]]
    /\ page' = Fresh([page.entry EXCEPT ![m] = "draft"])
    /\ astray' = IF fetch = NoFetch THEN astray ELSE astray \union Unheard
    /\ UNCHANGED <<server, socket, mounted>>

Serve(m) ==
    /\ send[m].pc = "sent"
    /\ stored' = Append(stored, m)
    /\ send' = [send EXCEPT ![m].pc = "served"]
    /\ UNCHANGED <<told, socket, view, astray>>

End(m, pc) == send' = [send EXCEPT ![m] = [pc |-> pc]]

\* onSuccess leaves the draft to the broadcast.
Confirm(m) ==
    /\ send[m].pc = "served"
    /\ End(m, "done")
    /\ UNCHANGED <<server, socket, view, astray>>

\* What the page of before does not know, or knows as a draft: learnt since then, lost since then
Undone(m) ==
    {o \in Messages :
        /\ send[m].prev.entry[o] # "final"
        /\ \/ page.query = "absent"
           \/ page.entry[o] # send[m].prev.entry[o] /\ ~(o = m /\ page.entry[o] = "draft")}

\* onError restores what there was before, if there was anything; otherwise the draft stays.
Restore(m) ==
    IF send[m].prev.query = "absent"
    THEN /\ page' = page
         /\ astray' = astray \union {m}
    ELSE /\ page' = Fresh(send[m].prev.entry)
         /\ astray' = astray \union Undone(m)

FailWithoutEffect(m) ==
    /\ send[m].pc = "sent"
    /\ Restore(m)
    /\ End(m, "done")
    /\ UNCHANGED <<server, socket, mounted, fetch>>

LoseAnswer(m) ==
    /\ send[m].pc = "served"
    /\ Restore(m)
    /\ End(m, "done")
    /\ UNCHANGED <<server, socket, mounted, fetch>>

\* API_TIMEOUT_MS is over while the request is on its way.
GiveUp(m) ==
    /\ send[m].pc = "sent"
    /\ Restore(m)
    /\ End(m, "late")
    /\ UNCHANGED <<server, socket, mounted, fetch>>

ServeLate(m) ==
    /\ send[m].pc = "late"
    /\ stored' \in {stored, Append(stored, m)}
    /\ End(m, "done")
    /\ UNCHANGED <<told, socket, view, astray>>

-----------------------------------------------------------------------------

\* The page is open and shows a discussion without messages.
Init ==
    /\ stored = <<>>
    /\ told = {}
    /\ conn = "up"
    /\ access = TRUE
    /\ room = TRUE
    /\ joining = "no"
    /\ transit = {}
    /\ mounted = TRUE
    /\ page = Fresh(NoPage.entry)
    /\ fetch = NoFetch
    /\ send = [m \in Own |-> [pc |-> "new"]]
    /\ astray = {}

Socket == Join \/ JoinFails \/ Disconnect \/ Reconnect \/ Expire \/ Renew

Page == Mount \/ Unmount \/ Collect \/ FetchRead \/ FetchArrives \/ FetchFails

Sending(m) ==
    \/ Send(m)
    \/ Serve(m)
    \/ Confirm(m)
    \/ FailWithoutEffect(m)
    \/ LoseAnswer(m)
    \/ GiveUp(m)
    \/ ServeLate(m)

Next ==
    \/ \E m \in Messages : Receive(m) \/ Broadcast(m) \/ LoseBroadcast(m) \/ Deliver(m)
    \/ Socket
    \/ Page
    \/ \E m \in Own : Sending(m)

Spec == Init /\ [][Next]_vars

-----------------------------------------------------------------------------

Pages == [query : {"absent", "fresh", "stale"},
          entry : [Messages -> {"none", "draft", "final", "twice"}]]

\* A room and what is on its way belong to a connection, and only drafts of own messages exist.
TypeOK ==
    /\ Elements(stored) \subseteq Messages
    /\ told \subseteq Elements(stored)
    /\ conn \in {"up", "down", "dead"} /\ access \in BOOLEAN
    /\ room \in BOOLEAN /\ joining \in {"no", "mount", "rejoin"}
    /\ transit \subseteq told
    /\ room \/ joining # "no" \/ transit # {} => conn = "up"
    /\ mounted \in BOOLEAN
    /\ page \in Pages
    /\ \A m \in Theirs : page.entry[m] # "draft"
    /\ fetch \in {NoFetch, Due} \union [pc : {"read"}, value : SUBSET Messages]
    /\ send \in [Own -> [pc : {"new", "late", "done"}]
                          \union [pc : {"sent", "served"}, prev : Pages, mine : BOOLEAN]]
    /\ astray \subseteq Messages

\* In whatever order answers, broadcasts, queries and restored pages come, no message is shown
\* twice.
NoDuplicates == \A m \in Messages : page.entry[m] # "twice"

Settled ==
    /\ mounted /\ conn = "up" /\ room /\ joining = "no"
    /\ fetch = NoFetch /\ transit = {}
    /\ told = Elements(stored)
    /\ \A m \in Own : send[m].pc \in {"new", "done"}

Shown == {m \in Messages : page.entry[m] # "none"}

\* Once everything has arrived, the page shows the messages that are stored and no others, also
\* after connections were lost, except for those messages of which an event says that it went
\* wrong with them: their broadcast was lost, or came while the page was not in the room and
\* nothing was left to ask for them; their event was overwritten by an older query, or came to a
\* page that was closed; the query that would have shown them failed, was cancelled by a send, or
\* was not begun again on a reconnection; a failed send restored a page without them.
SettledShowsStored ==
    Settled /\ Len(stored) <= Take =>
        \A m \in Messages \ astray : m \in Shown <=> m \in Elements(stored)

\* "Also refetch this conversation's messages to catch anything sent during the gap between
\* disconnect and this re-join": the query returns the oldest messages of the discussion.
RefetchCatchesUp == Settled => Elements(stored) \subseteq Shown \union astray
=============================================================================
