--------------------------- MODULE ChatPageProofs ---------------------------
(***************************************************************************)
(* ChatPage keeps its types, shows nothing twice, and shows what is stored *)
(* once everything has arrived.                                            *)
(***************************************************************************)
EXTENDS ChatPage, TLAPS

-----------------------------------------------------------------------------
(* Types *)

New == {m \in Own : send[m].pc = "new"}

\* A page, shown or kept to be restored, that holds messages of S and none of N
SoundIn(p, S, N) ==
    \A m \in Messages :
        /\ p.entry[m] # "twice"
        /\ p.entry[m] = "final" => m \in S
        /\ p.entry[m] = "draft" => m \in Own
        /\ p.entry[m] # "none" => m \notin N

Sound(p) == SoundIn(p, Elements(stored), New)

ServerOK ==
    /\ stored \in Seq(Messages)
    /\ told \subseteq Elements(stored)
    /\ \A m \in New : m \notin Elements(stored)

SocketOK ==
    /\ conn \in {"up", "down", "dead"} /\ access \in BOOLEAN
    /\ room \in BOOLEAN /\ joining \in {"no", "mount", "rejoin"}
    /\ transit \subseteq told
    /\ room \/ joining # "no" \/ transit # {} => conn = "up"

Fetches == {NoFetch, Due} \union [pc : {"read"}, value : SUBSET Messages]

ViewOK ==
    /\ mounted \in BOOLEAN
    /\ page \in Pages
    /\ Sound(page)
    /\ fetch \in Fetches
    /\ fetch.pc = "read" => fetch.value \subseteq Elements(stored)

Sends == [pc : {"new", "late", "done"}]
           \union [pc : {"sent", "served"}, prev : Pages, mine : BOOLEAN]

\* What a failure restores is sound, and does not have the message.
SendOK ==
    /\ send \in [Own -> Sends]
    /\ \A m \in Own : send[m].pc \in {"sent", "served"} =>
          Sound(send[m].prev) /\ send[m].prev.entry[m] = "none"
    /\ \A m \in Own : send[m].pc = "served" => m \in Elements(stored)

TypeInv ==
    /\ ServerOK /\ SocketOK /\ ViewOK /\ SendOK
    /\ astray \subseteq Messages

LEMMA ElementsOf ==
    ASSUME NEW s \in Seq(Messages)
    PROVE  Elements(s) \subseteq Messages
BY DEF Elements

LEMMA ElementsAppended ==
    ASSUME NEW s \in Seq(Messages), NEW m \in Messages
    PROVE  /\ Append(s, m) \in Seq(Messages)
           /\ Elements(Append(s, m)) = Elements(s) \union {m}
           /\ Len(Append(s, m)) = Len(s) + 1 /\ Len(s) \in Nat
<1>1. Append(s, m) \in Seq(Messages) /\ DOMAIN Append(s, m) = 1 .. Len(s) + 1 /\ Len(s) \in Nat
  OBVIOUS
<1>2. /\ \A i \in 1 .. Len(s) : Append(s, m)[i] = s[i]
      /\ Append(s, m)[Len(s) + 1] = m
      /\ DOMAIN s = 1 .. Len(s)
      /\ Len(Append(s, m)) = Len(s) + 1
  OBVIOUS
<1>3. 1 .. Len(s) + 1 = (1 .. Len(s)) \union {Len(s) + 1}
  BY <1>1
<1> QED
  BY <1>1, <1>2, <1>3 DEF Elements

LEMMA SoundGrows ==
    ASSUME NEW p, NEW S, NEW S2, NEW N, NEW N2, SoundIn(p, S, N), S \subseteq S2, N2 \subseteq N
    PROVE  SoundIn(p, S2, N2)
BY DEF SoundIn

LEMMA TypesInitially == Init => TypeInv
<1> SUFFICES ASSUME Init PROVE TypeInv
  OBVIOUS
<1>1. stored = <<>> /\ Elements(stored) = {} /\ stored \in Seq(Messages)
  BY DEF Init, Elements
<1>2. page \in Pages /\ Sound(page)
  BY DEF Init, Fresh, NoPage, Pages, Sound, SoundIn
<1>3. ServerOK /\ SocketOK
  BY <1>1 DEF Init, ServerOK, SocketOK
<1>4. ViewOK
  BY <1>1, <1>2 DEF Init, ViewOK, Fetches, NoFetch
<1>5. SendOK
  BY DEF Init, SendOK, Sends
<1> QED
  BY <1>3, <1>4, <1>5 DEF TypeInv, Init

\* Messages are not forgotten, and nothing that was sent becomes new.
Growth ==
    /\ stored' \in Seq(Messages)
    /\ Elements(stored) \subseteq Elements(stored')
    /\ New' \subseteq New
    /\ \A m \in New' : m \notin Elements(stored')

\* What becomes of a message of this user
LEMMA SendsOnly ==
    ASSUME TypeInv, NEW m \in Own, NEW r \in Sends, send' = [send EXCEPT ![m] = r], r.pc # "new"
    PROVE  New' = New \ {m} /\ send' \in [Own -> Sends]
<1>1. \A o \in Own : send'[o] = IF o = m THEN r ELSE send[o]
  BY DEF TypeInv, SendOK
<1> QED
  BY <1>1 DEF New, TypeInv, SendOK

LEMMA SendsNext ==
    ASSUME TypeInv, NEW m \in Own, Sending(m)
    PROVE  \E r \in Sends : r.pc # "new" /\ send' = [send EXCEPT ![m] = r]
<1>1. send \in [Own -> Sends] /\ page \in Pages
  BY DEF TypeInv, SendOK, ViewOK
<1>2. CASE Send(m)
  <2>1. [pc |-> "sent", prev |-> page, mine |-> TRUE] \in Sends
    BY <1>1 DEF Sends
  <2> QED
    BY <1>2, <2>1 DEF Send
<1>3. CASE Serve(m)
  <2>1. [send[m] EXCEPT !.pc = "served"] \in Sends
    BY <1>1, <1>3 DEF Serve, Sends
  <2>2. send' = [send EXCEPT ![m] = [send[m] EXCEPT !.pc = "served"]]
    BY <1>1, <1>3 DEF Serve
  <2>3. [send[m] EXCEPT !.pc = "served"].pc = "served"
    BY <1>1, <1>3 DEF Serve, Sends
  <2> QED
    BY <2>1, <2>2, <2>3
<1>4. ASSUME NEW pc \in {"late", "done"}, End(m, pc)
      PROVE  \E r \in Sends : r.pc # "new" /\ send' = [send EXCEPT ![m] = r]
  <2>1. [pc |-> pc] \in Sends
    BY DEF Sends
  <2> QED
    BY <1>4, <2>1 DEF End
<1> QED
  BY <1>2, <1>3, <1>4 DEF Sending, Confirm, FailWithoutEffect, LoseAnswer, GiveUp, ServeLate

LEMMA GrowthStep == TypeInv /\ [Next]_vars => Growth
<1> SUFFICES ASSUME TypeInv, [Next]_vars PROVE Growth
  OBVIOUS
<1>0. stored \in Seq(Messages) /\ (\A m \in New : m \notin Elements(stored))
  BY DEF TypeInv, ServerOK
<1>1. CASE UNCHANGED <<stored, send>>
  BY <1>0, <1>1 DEF Growth, New
<1>2. CASE stored' = stored /\ New' \subseteq New
  BY <1>0, <1>2 DEF Growth
<1>3. ASSUME NEW m \in Messages, stored' = Append(stored, m), New' \subseteq New, m \notin New'
      PROVE  Growth
  BY <1>0, <1>3, ElementsAppended DEF Growth
<1>4. ASSUME NEW m \in Messages, Receive(m) PROVE Growth
  <2>1. m \notin Own
    BY <1>4, MessagesAssumption DEF Receive
  <2>2. New' = New
    BY <1>4 DEF Receive, New
  <2> QED
    BY <1>4, <2>1, <2>2, <1>3 DEF Receive, New
<1>5. CASE Unmount
  <2>1. \A m \in Own : send'[m].pc = send[m].pc
    BY <1>5 DEF Unmount, TypeInv, SendOK, Sends
  <2>2. New' = New
    BY <2>1 DEF New
  <2> QED
    BY <1>5, <2>2, <1>2 DEF Unmount, server
<1>6. ASSUME NEW m \in Own, Sending(m) PROVE Growth
  <2>1. New' \subseteq New \ {m}
    <3>1. PICK r \in Sends : r.pc # "new" /\ send' = [send EXCEPT ![m] = r]
      BY <1>6, SendsNext
    <3> QED
      BY <3>1, SendsOnly
  <2>2. stored' \in {stored, Append(stored, m)}
    BY <1>6 DEF Sending, Send, Serve, Confirm, FailWithoutEffect, LoseAnswer, GiveUp, ServeLate,
                server
  <2> QED
    BY <2>1, <2>2, <1>2, <1>3 DEF Messages
<1>7. CASE Socket \/ (Page /\ ~Unmount) \/ UNCHANGED vars
          \/ \E m \in Messages : Broadcast(m) \/ LoseBroadcast(m) \/ Deliver(m)
  BY <1>7, <1>1 DEF Socket, Join, JoinFails, Disconnect, Reconnect, Expire, Renew, Page, Mount,
         Collect, FetchRead, FetchArrives, FetchFails, Broadcast, LoseBroadcast, Deliver, vars,
         server
<1> QED
  BY <1>4, <1>5, <1>6, <1>7 DEF Next, Page

LEMMA ServerStep ==
    ASSUME TypeInv, [Next]_vars, Growth
    PROVE  ServerOK'
<1>1. told \subseteq Elements(stored)
  BY DEF TypeInv, ServerOK
<1>2. told' = told \/ \E m \in Elements(stored) : told' = told \union {m}
  BY DEF Next, Receive, Broadcast, LoseBroadcast, Deliver, Socket, Join, JoinFails, Disconnect,
         Reconnect, Expire, Renew, Page, Mount, Unmount, Collect, FetchRead, FetchArrives,
         FetchFails, Sending, Send, Serve, Confirm, FailWithoutEffect, LoseAnswer, GiveUp,
         ServeLate, vars, server
<1> QED
  BY <1>1, <1>2 DEF Growth, ServerOK

LEMMA SocketStep ==
    ASSUME TypeInv, [Next]_vars, ServerOK'
    PROVE  SocketOK'
<1>0. /\ conn \in {"up", "down", "dead"} /\ joining \in {"no", "mount", "rejoin"}
      /\ transit \subseteq told
      /\ room \/ joining # "no" \/ transit # {} => conn = "up"
  BY DEF TypeInv, SocketOK
<1>1. room' \in BOOLEAN /\ access' \in BOOLEAN
  <2>1. room \in BOOLEAN /\ access \in BOOLEAN
    BY DEF TypeInv, SocketOK
  <2>2. room' \in {room, TRUE, FALSE}
    BY DEF Next, Receive, Broadcast, LoseBroadcast, Deliver, Socket, Join, JoinFails, Disconnect,
           Left, Reconnect, Expire, Renew, Page, Mount, Unmount, Collect, FetchRead,
           FetchArrives, FetchFails, Sending, Send, Serve, Confirm, FailWithoutEffect,
           LoseAnswer, GiveUp, ServeLate, vars, socket
  <2>3. access' \in {access, TRUE, FALSE}
    BY DEF Next, Receive, Broadcast, LoseBroadcast, Deliver, Socket, Join, JoinFails, Disconnect,
           Reconnect, Expire, Renew, Page, Mount, Unmount, Collect, FetchRead,
           FetchArrives, FetchFails, Sending, Send, Serve, Confirm, FailWithoutEffect,
           LoseAnswer, GiveUp, ServeLate, vars, socket
  <2> QED
    BY <2>1, <2>2, <2>3, Zenon
<1>2. CASE UNCHANGED <<socket, told>>
  BY <1>0, <1>1, <1>2 DEF socket, SocketOK
<1>3. ASSUME NEW m \in Messages, Receive(m) \/ Broadcast(m) \/ LoseBroadcast(m) \/ Deliver(m)
      PROVE  SocketOK'
  <2>1. /\ conn' = conn /\ room' = room /\ joining' = joining
        /\ told \subseteq told' /\ transit' \subseteq transit \union told'
        /\ room \/ transit' \subseteq transit
    BY <1>3 DEF Receive, Broadcast, LoseBroadcast, Deliver, server, socket
  <2> QED
    BY <1>0, <1>1, <2>1 DEF SocketOK
<1>4. CASE Socket
  <2>1. told' = told
    BY <1>4 DEF Socket, Join, JoinFails, Disconnect, Reconnect, Expire, Renew, server
  <2>2. CASE Disconnect
    <3>1. conn' = "down" /\ room' = FALSE /\ joining' = "no" /\ transit' = {}
      BY <2>2 DEF Disconnect, Left
    <3> QED
      BY <1>1, <3>1 DEF SocketOK
  <2>3. CASE Reconnect
    <3>1. /\ transit' = transit /\ room' = room
          /\ conn' \in {"up", "dead"} /\ joining' \in {"rejoin", "no"}
          /\ joining' = "rejoin" => conn' = "up"
          /\ conn = "down"
      BY <2>3 DEF Reconnect
    <3> QED
      BY <1>0, <1>1, <2>1, <3>1 DEF SocketOK
  <2>4. CASE Join \/ JoinFails \/ Expire \/ Renew
    <3>1. /\ transit' = transit /\ conn' = conn /\ joining' \in {joining, "no"}
          /\ room' = room \/ joining # "no"
      BY <2>4 DEF Join, JoinFails, Expire, Renew
    <3> QED
      BY <1>0, <1>1, <2>1, <3>1 DEF SocketOK
  <2> QED
    BY <1>4, <2>2, <2>3, <2>4 DEF Socket
<1>5. CASE Page
  <2>1. /\ told' = told /\ conn' = conn /\ transit' = transit
        /\ joining' = joining \/ (joining' = "mount" /\ conn = "up")
        /\ room' = room \/ room' = FALSE
    BY <1>5 DEF Page, Mount, Unmount, Collect, FetchRead, FetchArrives, FetchFails, server, socket
  <2> QED
    BY <1>0, <1>1, <2>1 DEF SocketOK
<1>6. ASSUME NEW m \in Own, Sending(m) PROVE SocketOK'
  BY <1>6, <1>2 DEF Sending, Send, Serve, Confirm, FailWithoutEffect, LoseAnswer, GiveUp,
                    ServeLate, server
<1> QED
  BY <1>2, <1>3, <1>4, <1>5, <1>6 DEF Next, vars, server

\* The pages that the actions make
LEMMA PagesMade ==
    ASSUME NEW p \in Pages
    PROVE  /\ NoPage \in Pages /\ Fresh(p.entry) \in Pages
           /\ \A m \in Messages, e \in {"none", "draft", "final", "twice"} :
                 Fresh([p.entry EXCEPT ![m] = e]) \in Pages
           /\ [p EXCEPT !.query = "stale"] \in Pages
           /\ [p EXCEPT !.query = "stale"].entry = p.entry
BY DEF Pages, NoPage, Fresh

LEMMA PageStep ==
    ASSUME TypeInv, [Next]_vars, Growth
    PROVE  page' \in Pages /\ Sound(page)'
<1>0. /\ page \in Pages /\ Sound(page) /\ transit \subseteq Elements(stored)
      /\ fetch.pc = "read" => fetch.value \subseteq Elements(stored)
      /\ \A m \in New : m \notin Elements(stored)
      /\ send \in [Own -> Sends]
  BY DEF TypeInv, ViewOK, SocketOK, ServerOK, SendOK
<1>1. ASSUME NEW p, SoundIn(p, Elements(stored), New), page' = p
      PROVE  Sound(page)'
  BY <1>1, SoundGrows DEF Growth, Sound
<1>2. CASE page' = page
  BY <1>0, <1>1, <1>2 DEF Sound
<1>3. ASSUME NEW m \in Messages, Deliver(m) PROVE page' \in Pages /\ Sound(page)'
  <2>1. CASE ~mounted
    BY <2>1, <1>2, <1>3 DEF Deliver
  <2>2. CASE mounted
    <3>1. page.entry[m] \in {"none", "draft", "final"}
      BY <1>0 DEF Pages, Sound, SoundIn
    <3>2. page' = Fresh([page.entry EXCEPT ![m] = "final"])
      BY <1>3, <2>2, <3>1 DEF Deliver, Merged
    <3>3. m \in Elements(stored) /\ m \notin New
      BY <1>0, <1>3 DEF Deliver
    <3>4. SoundIn(Fresh([page.entry EXCEPT ![m] = "final"]), Elements(stored), New)
      BY <1>0, <3>3 DEF Sound, SoundIn, Fresh, Pages
    <3> QED
      BY <1>0, <1>1, <3>2, <3>4, PagesMade
  <2> QED
    BY <2>1, <2>2, <1>0 DEF TypeInv, ViewOK
<1>4. CASE Reconnect
  <2>1. page' = page \/ page' = [page EXCEPT !.query = "stale"]
    BY <1>0, <1>4 DEF Reconnect, Caught, Pages
  <2>2. SoundIn([page EXCEPT !.query = "stale"], Elements(stored), New)
    BY <1>0, PagesMade DEF Sound, SoundIn
  <2> QED
    BY <1>0, <1>1, <1>2, <2>1, <2>2, PagesMade
<1>5. CASE Collect
  <2>1. SoundIn(NoPage, Elements(stored), New)
    BY DEF SoundIn, NoPage
  <2> QED
    BY <1>0, <1>1, <1>5, <2>1, PagesMade DEF Collect
<1>6. CASE FetchArrives
  <2> DEFINE p == Fresh([m \in Messages |-> IF m \in fetch.value THEN "final" ELSE "none"])
  <2>1. page' = p /\ fetch.pc = "read"
    BY <1>6 DEF FetchArrives
  <2>2. SoundIn(p, Elements(stored), New)
    BY <1>0, <2>1 DEF SoundIn, Fresh
  <2>3. p \in Pages
    BY DEF Pages, Fresh
  <2> QED
    BY <1>1, <2>1, <2>2, <2>3
<1>7. ASSUME NEW m \in Own, Send(m) PROVE page' \in Pages /\ Sound(page)'
  <2> DEFINE p == Fresh([page.entry EXCEPT ![m] = "draft"])
  <2>1. m \notin New'
    <3>1. [pc |-> "sent", prev |-> page, mine |-> TRUE] \in Sends
      BY <1>0 DEF Sends
    <3> QED
      BY <1>0, <1>7, <3>1 DEF Send, New
  <2>2. SoundIn(p, Elements(stored), New \ {m})
    BY <1>0 DEF Sound, SoundIn, Fresh, Pages, Messages
  <2>3. SoundIn(p, Elements(stored'), New')
    BY <2>1, <2>2, SoundGrows DEF Growth
  <2>4. page' = p
    BY <1>7 DEF Send
  <2> QED
    BY <1>0, <2>3, <2>4, PagesMade DEF Sound, Messages
<1>8. ASSUME NEW m \in Own, send[m].pc \in {"sent", "served"}, Restore(m)
      PROVE  page' \in Pages /\ Sound(page)'
  <2>1. send[m].prev \in Pages /\ Sound(send[m].prev)
    BY <1>0, <1>8 DEF TypeInv, SendOK, Sends
  <2>2. SoundIn(Fresh(send[m].prev.entry), Elements(stored), New)
    BY <2>1 DEF Sound, SoundIn, Fresh
  <2>3. page' = page \/ page' = Fresh(send[m].prev.entry)
    BY <1>8 DEF Restore
  <2> QED
    BY <1>0, <1>1, <1>2, <2>1, <2>2, <2>3, PagesMade
<1>9. ASSUME NEW m \in Own, Sending(m) PROVE page' \in Pages /\ Sound(page)'
  BY <1>0, <1>2, <1>7, <1>8, <1>9 DEF Sending, Serve, Confirm, FailWithoutEffect, LoseAnswer,
         GiveUp, ServeLate, view
<1>10. CASE UNCHANGED vars \/ (Socket /\ ~Reconnect) \/ (Page /\ ~Collect /\ ~FetchArrives)
            \/ \E m \in Messages : Receive(m) \/ Broadcast(m) \/ LoseBroadcast(m)
  BY <1>10, <1>0, <1>2 DEF vars, view, Socket, Join, JoinFails, Disconnect, Expire, Renew, Page,
         Mount, Unmount, FetchRead, FetchFails, Receive, Broadcast, LoseBroadcast
<1> QED
  BY <1>3, <1>4, <1>5, <1>6, <1>9, <1>10 DEF Next, Socket, Page

LEMMA ViewStep ==
    ASSUME TypeInv, [Next]_vars, Growth
    PROVE  ViewOK'
<1>0. /\ fetch \in Fetches /\ mounted \in BOOLEAN /\ stored \in Seq(Messages)
      /\ fetch.pc = "read" => fetch.value \subseteq Elements(stored)
  BY DEF TypeInv, ViewOK, ServerOK
<1>1. mounted' \in BOOLEAN
  BY <1>0 DEF Next, Receive, Broadcast, LoseBroadcast, Deliver, Socket, Join, JoinFails,
         Disconnect, Reconnect, Expire, Renew, Page, Mount, Unmount, Collect, FetchRead,
         FetchArrives, FetchFails, Sending, Send, Serve, Confirm, FailWithoutEffect, LoseAnswer,
         GiveUp, ServeLate, vars, view
<1>2. fetch' \in {fetch, NoFetch, Due} \/ FetchRead
  BY DEF Next, Receive, Broadcast, LoseBroadcast, Deliver, Socket, Join, JoinFails,
         Disconnect, Reconnect, Caught, Expire, Renew, Page, Mount, Unmount, Collect,
         FetchArrives, FetchFails, Sending, Send, Serve, Confirm, FailWithoutEffect, LoseAnswer,
         GiveUp, ServeLate, vars, view
<1>3. CASE fetch' \in {fetch, NoFetch, Due}
  <2>1. fetch' \in Fetches
    BY <1>0, <1>3 DEF Fetches
  <2>2. fetch'.pc = "read" => fetch'.value \subseteq Elements(stored')
    BY <1>0, <1>3 DEF Growth, NoFetch, Due
  <2> QED
    BY <1>1, <2>1, <2>2, PageStep DEF ViewOK
<1>4. CASE FetchRead
  <2>1. FirstPage \subseteq Elements(stored)
    <3>1. Len(stored) \in Nat /\ DOMAIN stored = 1 .. Len(stored)
      BY <1>0
    <3> QED
      BY <3>1, TakeAssumption DEF FirstPage, Elements
  <2>2. FirstPage \in SUBSET Messages
    BY <1>0, <2>1, ElementsOf
  <2>3. fetch' = [pc |-> "read", value |-> FirstPage] /\ stored' = stored
    BY <1>4 DEF FetchRead, server
  <2>4. fetch' \in Fetches
    BY <2>2, <2>3 DEF Fetches
  <2>5. fetch'.value \subseteq Elements(stored')
    BY <2>1, <2>3
  <2> QED
    BY <1>1, <2>4, <2>5, PageStep DEF ViewOK
<1> QED
  BY <1>2, <1>3, <1>4

LEMMA SendStep ==
    ASSUME TypeInv, [Next]_vars, Growth
    PROVE  SendOK'
<1>0. send \in [Own -> Sends]
  BY DEF TypeInv, SendOK
<1>1. ASSUME NEW p, Sound(p) PROVE SoundIn(p, Elements(stored'), New')
  BY <1>1, SoundGrows DEF Growth, Sound
<1>2. ASSUME send' \in [Own -> Sends],
             \A m \in Own : send'[m].pc \in {"sent", "served"} =>
                 /\ \/ send[m].pc \in {"sent", "served"} /\ send'[m].prev = send[m].prev
                    \/ send[m].pc = "new" /\ send'[m].prev = page
                 /\ send'[m].pc = "served" => send[m].pc = "served" \/ m \in Elements(stored')
      PROVE  SendOK'
  <2> SUFFICES ASSUME NEW m \in Own, send'[m].pc \in {"sent", "served"}
               PROVE  /\ SoundIn(send'[m].prev, Elements(stored'), New')
                      /\ send'[m].prev.entry[m] = "none"
                      /\ send'[m].pc = "served" => m \in Elements(stored')
    BY <1>2 DEF SendOK, Sound
  <2>1. send'[m].pc = "served" => m \in Elements(stored')
    BY <1>2 DEF TypeInv, SendOK, Growth
  <2>2. CASE send[m].pc \in {"sent", "served"} /\ send'[m].prev = send[m].prev
    BY <2>1, <2>2, <1>1 DEF TypeInv, SendOK
  <2>3. CASE send[m].pc = "new" /\ send'[m].prev = page
    <3>1. Sound(page) /\ m \in New /\ m \in Messages
      BY <2>3 DEF TypeInv, ViewOK, New, Messages
    <3>2. page.entry[m] = "none"
      BY <3>1 DEF Sound, SoundIn
    <3> QED
      BY <2>1, <2>3, <3>1, <3>2, <1>1
  <2> QED
    BY <2>2, <2>3, <1>2
<1>3. CASE send' = send
  BY <1>0, <1>2, <1>3
<1>4. ASSUME NEW m \in Own, NEW r \in Sends, send' = [send EXCEPT ![m] = r],
             r.pc \in {"sent", "served"} =>
                 /\ \/ send[m].pc \in {"sent", "served"} /\ r.prev = send[m].prev
                    \/ send[m].pc = "new" /\ r.prev = page
                 /\ r.pc = "served" => m \in Elements(stored')
      PROVE  SendOK'
  <2>1. \A o \in Own : send'[o] = IF o = m THEN r ELSE send[o]
    BY <1>0, <1>4
  <2>2. send' \in [Own -> Sends]
    BY <1>0, <1>4
  <2> QED
    BY <1>2, <1>4, <2>1, <2>2
<1>5. CASE Unmount
  <2>1. \A m \in Own : /\ send'[m] \in Sends /\ send'[m].pc = send[m].pc
                       /\ send[m].pc \in {"sent", "served"} => send'[m].prev = send[m].prev
    BY <1>0, <1>5 DEF Unmount, Sends
  <2>2. send' \in [Own -> Sends]
    BY <2>1, <1>5 DEF Unmount
  <2> QED
    BY <1>2, <2>1, <2>2
<1>6. ASSUME NEW m \in Own, Send(m) PROVE SendOK'
  <2>1. [pc |-> "sent", prev |-> page, mine |-> TRUE] \in Sends
    BY DEF Sends, TypeInv, ViewOK
  <2> QED
    BY <1>4, <1>6, <2>1 DEF Send
<1>7. ASSUME NEW m \in Own, Serve(m) PROVE SendOK'
  <2>1. /\ [send[m] EXCEPT !.pc = "served"] \in Sends
        /\ [send[m] EXCEPT !.pc = "served"].prev = send[m].prev
    BY <1>0, <1>7 DEF Serve, Sends
  <2>2. m \in Elements(stored')
    BY <1>7, ElementsAppended DEF Serve, TypeInv, ServerOK, Messages
  <2>3. send' = [send EXCEPT ![m] = [send[m] EXCEPT !.pc = "served"]]
    BY <1>0, <1>7 DEF Serve
  <2> QED
    BY <1>4, <1>7, <2>1, <2>2, <2>3 DEF Serve
<1>8. ASSUME NEW m \in Own, NEW pc \in {"late", "done"}, End(m, pc) PROVE SendOK'
  <2>1. [pc |-> pc] \in Sends
    BY DEF Sends
  <2> QED
    BY <1>4, <1>8, <2>1 DEF End
<1>9. ASSUME NEW m \in Own, Sending(m) PROVE SendOK'
  BY <1>6, <1>7, <1>8, <1>9 DEF Sending, Confirm, FailWithoutEffect, LoseAnswer, GiveUp, ServeLate
<1>10. CASE UNCHANGED vars \/ Socket \/ (Page /\ ~Unmount)
            \/ \E m \in Messages : Receive(m) \/ Broadcast(m) \/ LoseBroadcast(m) \/ Deliver(m)
  BY <1>10, <1>3 DEF vars, Socket, Join, JoinFails, Disconnect, Reconnect, Expire, Renew, Page,
         Mount, Collect, FetchRead, FetchArrives, FetchFails, Receive, Broadcast, LoseBroadcast,
         Deliver
<1> QED
  BY <1>5, <1>9, <1>10 DEF Next, Page

LEMMA TypesStep == TypeInv /\ [Next]_vars => TypeInv'
<1> SUFFICES ASSUME TypeInv, [Next]_vars PROVE TypeInv'
  OBVIOUS
<1>1. Growth
  BY GrowthStep
<1>2. astray' \subseteq Messages
  <2>1. /\ astray \subseteq Messages /\ told \subseteq Messages /\ transit \subseteq Messages
        /\ Elements(stored) \subseteq Messages
    BY ElementsOf DEF TypeInv, ServerOK, SocketOK
  <2>2. Unheard \subseteq Messages /\ \A m \in Own : m \in Messages /\ Undone(m) \subseteq Messages
    BY <2>1 DEF Unheard, Undone, Messages
  <2>3. ASSUME NEW m \in Messages, Receive(m) \/ Broadcast(m) \/ LoseBroadcast(m) \/ Deliver(m)
        PROVE  astray' \subseteq Messages
    BY <2>1, <2>3 DEF Receive, Broadcast, LoseBroadcast, Deliver
  <2>4. CASE Socket \/ Page
    BY <2>1, <2>2, <2>4 DEF Socket, Join, JoinFails, Disconnect, Reconnect, Expire, Renew, Page,
           Mount, Unmount, Collect, FetchRead, FetchArrives, FetchFails
  <2>5. ASSUME NEW m \in Own, Sending(m) PROVE astray' \subseteq Messages
    BY <2>1, <2>2, <2>5 DEF Sending, Send, Serve, Confirm, FailWithoutEffect, LoseAnswer, GiveUp,
           ServeLate, Restore
  <2> QED
    BY <2>1, <2>3, <2>4, <2>5 DEF Next, vars
<1> QED
  BY <1>1, <1>2, ServerStep, SocketStep, ViewStep, SendStep DEF TypeInv

LEMMA TypesHold == Spec => []TypeInv
BY TypesInitially, TypesStep, PTL DEF Spec

LEMMA TypesSplit == TypeInv => TypeOK /\ NoDuplicates
<1> SUFFICES ASSUME TypeInv PROVE TypeOK /\ NoDuplicates
  OBVIOUS
<1>1. Elements(stored) \subseteq Messages
  BY ElementsOf DEF TypeInv, ServerOK
<1>2. \A m \in Theirs : page.entry[m] # "draft"
  BY MessagesAssumption DEF TypeInv, ViewOK, Sound, SoundIn, Messages
<1>3. NoDuplicates
  BY DEF TypeInv, ViewOK, Sound, SoundIn, NoDuplicates
<1> QED
  BY <1>1, <1>2, <1>3 DEF TypeInv, TypeOK, ServerOK, SocketOK, ViewOK, SendOK, Fetches, Sends

\* Every variable keeps its type; rooms, joins and events under way belong to a connection, and
\* only own messages are drafts.
THEOREM TypeCorrect == Spec => []TypeOK
BY TypesHold, TypesSplit, PTL

\* However answers, broadcasts, queries and restored pages cross each other, the page shows no
\* message twice.
THEOREM ShownOnce == Spec => []NoDuplicates
BY TypesHold, TypesSplit, PTL
-----------------------------------------------------------------------------
(* The page and the server *)

\* The query returns everything.
Fits == Len(stored) <= Take

\* Why the page shows the message, or what is going to bring it
Covered(m) ==
    \/ m \notin told \/ m \in transit
    \/ Asked(m)
    \/ fetch = NoFetch /\ page.entry[m] = "final"
    \/ conn = "down" /\ mounted
    \/ fetch = NoFetch /\ page.query = "absent" /\ ~mounted

\* Nothing that is stored is forgotten.
Cov == Fits => \A m \in Elements(stored) \ astray : Covered(m)

\* A draft is of a message that is stored or on its way to the server.
Real == \A m \in Own \ astray :
           page.entry[m] = "draft" => m \in Elements(stored) \/ send[m].pc = "sent"

\* What the page shows, the query under way has read too.
Ahead ==
    Fits /\ fetch.pc = "read" =>
        \A m \in Messages \ astray : page.entry[m] = "final" => m \in fetch.value

\* So it has what a failure would restore.
Kept ==
    Fits /\ fetch.pc = "read" =>
        \A o \in Own, m \in Messages :
            send[o].pc \in {"sent", "served"} /\ send[o].prev.entry[m] = "final"
                => m \in fetch.value

Covers == Cov /\ Real /\ Ahead /\ Kept

LEMMA CoversInitially == Init => Covers
BY DEF Init, Covers, Cov, Real, Ahead, Kept, Elements, Fresh, NoPage, NoFetch, Messages

LEMMA FitsBefore ==
    ASSUME TypeInv, [Next]_vars, Fits'
    PROVE  Fits
<1>1. stored' = stored \/ \E m \in Messages : stored' = Append(stored, m)
  BY DEF Messages, Next, Receive, Broadcast, LoseBroadcast, Deliver, Socket, Join, JoinFails,
         Disconnect, Reconnect, Expire, Renew, Page, Mount, Unmount, Collect, FetchRead,
         FetchArrives, FetchFails, Sending, Send, Serve, Confirm, FailWithoutEffect, LoseAnswer,
         GiveUp, ServeLate, vars, server
<1>2. stored \in Seq(Messages)
  BY DEF TypeInv, ServerOK
<1> QED
  BY <1>1, <1>2, ElementsAppended, TakeAssumption DEF Fits

\* Only the answer of a query takes a message out of the history.
LEMMA AstrayGrows ==
    ASSUME [Next]_vars, ~FetchArrives
    PROVE  astray \subseteq astray'
BY DEF Next, Receive, Broadcast, LoseBroadcast, Deliver, Socket, Join, JoinFails, Disconnect,
       Reconnect, Expire, Renew, Page, Mount, Unmount, Collect, FetchRead, FetchFails, Sending,
       Send, Serve, Confirm, FailWithoutEffect, LoseAnswer, GiveUp, ServeLate, Restore, vars

LEMMA ReadsAll ==
    ASSUME TypeInv, Fits
    PROVE  FirstPage = Elements(stored)
<1>1. Len(stored) \in Nat /\ DOMAIN stored = 1 .. Len(stored)
  BY DEF TypeInv, ServerOK
<1> QED
  BY <1>1, TakeAssumption DEF Fits, FirstPage, Elements

\* The failure of a send: the page is left, or is what it was before, and tells what that undoes.
LEMMA Restored ==
    ASSUME TypeInv, NEW m \in Own, Restore(m), send[m].pc \in {"sent", "served"}
    PROVE  /\ astray \subseteq astray'
           /\ \/ page' = page /\ m \in astray'
              \/ /\ page' = Fresh(send[m].prev.entry) /\ send[m].prev.entry[m] = "none"
                 /\ \A o \in Messages \ astray' :
                       \/ send[m].prev.entry[o] = "final"
                       \/ /\ page.query # "absent"
                          /\ \/ page.entry[o] = send[m].prev.entry[o]
                             \/ o = m /\ page.entry[o] = "draft"
<1>1. send[m].prev.entry[m] = "none"
  BY DEF TypeInv, SendOK
<1> QED
  BY <1>1 DEF Restore, Undone

LEMMA DraftsReal == TypeInv /\ Real /\ [Next]_vars => Real'
<1> SUFFICES ASSUME TypeInv, Real, [Next]_vars, NEW m \in Own, m \notin astray',
                    page'.entry[m] = "draft", m \notin Elements(stored')
             PROVE  send'[m].pc = "sent"
  BY DEF Real
<1>0. /\ page \in Pages /\ send \in [Own -> Sends] /\ m \in Messages /\ m \notin Elements(stored)
      /\ stored \in Seq(Messages)
      /\ m \notin astray /\ page.entry[m] = "draft" => send[m].pc = "sent"
  BY GrowthStep DEF TypeInv, ViewOK, SendOK, ServerOK, Growth, Messages, Real
<1>1. ~FetchArrives
  <2>1. FetchArrives => page'.entry[m] = IF m \in fetch.value THEN "final" ELSE "none"
    BY <1>0 DEF FetchArrives, Fresh
  <2> QED
    BY <2>1
<1>2. m \notin astray
  BY <1>1, AstrayGrows
<1>3. CASE send' = send /\ page'.entry[m] = page.entry[m]
  BY <1>0, <1>2, <1>3
<1>4. ASSUME NEW o \in Messages, Deliver(o) PROVE send'[m].pc = "sent"
  <2>1. send' = send /\ (page' = page \/ page' = Fresh([page.entry EXCEPT ![o] = Merged(@)]))
    BY <1>4 DEF Deliver
  <2>2. page'.entry[m] = page.entry[m]
    BY <1>0, <2>1 DEF Fresh, Merged, Pages
  <2> QED
    BY <1>3, <2>1, <2>2
<1>5. ASSUME NEW o \in Own, Sending(o) PROVE send'[m].pc = "sent"
  <2>1. CASE Send(o)
    <3>1. /\ page' = Fresh([page.entry EXCEPT ![o] = "draft"])
          /\ send' = [send EXCEPT ![o] = [pc |-> "sent", prev |-> page, mine |-> TRUE]]
      BY <2>1 DEF Send
    <3>2. CASE o = m
      BY <1>0, <3>1, <3>2
    <3>3. CASE o # m
      BY <1>0, <1>2, <3>1, <3>3 DEF Fresh, Pages
    <3> QED
      BY <3>2, <3>3
  <2>2. ASSUME NEW pc, Restore(o), send[o].pc \in {"sent", "served"}, End(o, pc)
        PROVE  send'[m].pc = "sent"
    <3>1. \/ page' = page /\ o \in astray'
          \/ /\ page' = Fresh(send[o].prev.entry) /\ send[o].prev.entry[o] = "none"
             /\ \/ send[o].prev.entry[m] = "final"
                \/ page.entry[m] = send[o].prev.entry[m]
                \/ m = o /\ page.entry[m] = "draft"
      BY <2>2, <1>0, Restored
    <3>2. m # o /\ page.entry[m] = "draft"
      BY <3>1 DEF Fresh
    <3>3. send'[m] = send[m]
      BY <1>0, <2>2, <3>2 DEF End
    <3> QED
      BY <1>0, <1>2, <3>2, <3>3
  <2>3. CASE Serve(o) \/ Confirm(o) \/ ServeLate(o)
    <3>1. page' = page
      BY <2>3 DEF Serve, Confirm, ServeLate, view
    <3>2. send[m].pc = "sent"
      BY <1>0, <1>2, <3>1
    <3>3. CASE Serve(o)
      <4>1. m # o
        BY <1>0, <3>3, ElementsAppended DEF Serve, Messages
      <4> QED
        BY <1>0, <3>2, <3>3, <4>1 DEF Serve
    <3>4. CASE Confirm(o) \/ ServeLate(o)
      BY <1>0, <3>2, <3>4 DEF Confirm, ServeLate, End
    <3> QED
      BY <2>3, <3>3, <3>4
  <2> QED
    BY <1>5, <2>1, <2>2, <2>3 DEF Sending, FailWithoutEffect, LoseAnswer, GiveUp
<1>6. CASE Unmount
  <2>1. page' = page /\ send'[m].pc = send[m].pc
    BY <1>0, <1>6 DEF Unmount, Sends
  <2> QED
    BY <1>0, <1>2, <2>1
<1>7. CASE Reconnect
  <2>1. page' \in {page, [page EXCEPT !.query = "stale"]} /\ send' = send
    BY <1>0, <1>7 DEF Reconnect, Caught, Pages
  <2> QED
    BY <1>0, <1>3, <2>1, PagesMade
<1>8. ~Collect
  BY <1>0 DEF Collect, NoPage
<1>9. CASE UNCHANGED vars \/ (Socket /\ ~Reconnect)
           \/ (Page /\ ~Unmount /\ ~Collect /\ ~FetchArrives)
           \/ \E o \in Messages : Receive(o) \/ Broadcast(o) \/ LoseBroadcast(o)
  BY <1>3, <1>9 DEF vars, view, Socket, Join, JoinFails, Disconnect, Expire, Renew, Page, Mount,
         FetchRead, FetchFails, Receive, Broadcast, LoseBroadcast
<1> QED
  BY <1>1, <1>4, <1>5, <1>6, <1>7, <1>8, <1>9 DEF Next, Socket, Page

\* What a step does to what would be restored
LEMMA PrevStep ==
    ASSUME TypeInv, [Next]_vars
    PROVE  \/ fetch' = NoFetch
           \/ \A o \in Own : send'[o].pc \in {"sent", "served"} =>
                 send[o].pc \in {"sent", "served"} /\ send'[o].prev = send[o].prev
<1>0. send \in [Own -> Sends]
  BY DEF TypeInv, SendOK
<1>1. CASE Unmount
  BY <1>0, <1>1 DEF Unmount, Sends
<1>2. ASSUME NEW m \in Own, Sending(m), ~Send(m)
      PROVE  \A o \in Own : send'[o].pc \in {"sent", "served"} =>
                 send[o].pc \in {"sent", "served"} /\ send'[o].prev = send[o].prev
  <2>1. CASE Serve(m)
    BY <1>0, <2>1 DEF Serve, Sends
  <2>2. CASE \E pc \in {"late", "done"} : End(m, pc)
    BY <1>0, <2>2 DEF End
  <2> QED
    BY <1>2, <2>1, <2>2 DEF Sending, Confirm, FailWithoutEffect, LoseAnswer, GiveUp, ServeLate
<1>3. CASE send' = send
  BY <1>3
<1> QED
  BY <1>1, <1>2, <1>3 DEF Next, Receive, Broadcast, LoseBroadcast, Deliver, Socket, Join,
     JoinFails, Disconnect, Reconnect, Expire, Renew, Page, Mount, Collect, FetchRead,
     FetchArrives, FetchFails, Send, vars

\* What a step does to the query under way
LEMMA FetchStep ==
    ASSUME [Next]_vars, ~FetchRead
    PROVE  fetch' = fetch \/ fetch' = NoFetch \/ fetch' = Due
BY DEF Next, Receive, Broadcast, LoseBroadcast, Deliver, Socket, Join, JoinFails, Disconnect,
       Reconnect, Caught, Expire, Renew, Page, Mount, Unmount, Collect, FetchArrives, FetchFails,
       Sending, Send, Serve, Confirm, FailWithoutEffect, LoseAnswer, GiveUp, ServeLate, vars, view

LEMMA KeptStep == TypeInv /\ Kept /\ [Next]_vars => Kept'
<1> SUFFICES ASSUME TypeInv, Kept, [Next]_vars, Fits', fetch'.pc = "read",
                    NEW o \in Own, NEW m \in Messages,
                    send'[o].pc \in {"sent", "served"}, send'[o].prev.entry[m] = "final"
             PROVE  m \in fetch'.value
  BY DEF Kept
<1>1. send[o].pc \in {"sent", "served"} /\ send'[o].prev = send[o].prev
  BY PrevStep DEF NoFetch
<1>2. m \in Elements(stored)
  BY <1>1 DEF TypeInv, SendOK, Sound, SoundIn
<1>3. CASE FetchRead
  BY <1>2, <1>3, FitsBefore, ReadsAll DEF FetchRead
<1>4. CASE ~FetchRead
  <2>1. fetch' = fetch
    BY <1>4, FetchStep DEF NoFetch, Due
  <2> QED
    BY <1>1, <2>1, FitsBefore DEF Kept
<1> QED
  BY <1>3, <1>4

LEMMA AheadStep == TypeInv /\ Ahead /\ Kept /\ [Next]_vars => Ahead'
<1> SUFFICES ASSUME TypeInv, Ahead, Kept, [Next]_vars, Fits', fetch'.pc = "read",
                    NEW m \in Messages, m \notin astray', page'.entry[m] = "final"
             PROVE  m \in fetch'.value
  BY DEF Ahead
<1>0. Fits /\ page \in Pages
  BY FitsBefore DEF TypeInv, ViewOK
<1>1. CASE FetchRead
  <2>1. m \in Elements(stored)
    BY <1>1 DEF FetchRead, TypeInv, ViewOK, Sound, SoundIn
  <2> QED
    BY <1>0, <1>1, <2>1, ReadsAll DEF FetchRead
<1>2. CASE ~FetchRead
  <2>1. fetch' = fetch
    BY <1>2, FetchStep DEF NoFetch, Due
  <2>2. ~FetchArrives
    BY DEF FetchArrives, NoFetch
  <2>3. m \notin astray
    BY <2>2, AstrayGrows
  <2>4. CASE page'.entry[m] = page.entry[m]
    BY <1>0, <2>1, <2>3, <2>4 DEF Ahead
  <2>5. ASSUME NEW o \in Messages, Deliver(o) PROVE m \in fetch'.value
    <3>1. \/ page' = page
          \/ /\ page' = Fresh([page.entry EXCEPT ![o] = Merged(@)])
             /\ o \in astray' \/ o \in fetch.value
      BY <2>1, <2>5 DEF Deliver
    <3>2. CASE o = m
      BY <2>1, <2>4, <3>1, <3>2
    <3>3. CASE o # m
      BY <1>0, <2>4, <3>1, <3>3 DEF Fresh, Pages
    <3> QED
      BY <3>2, <3>3
  <2>6. ASSUME NEW o \in Own, send[o].pc \in {"sent", "served"}, Restore(o)
        PROVE  m \in fetch'.value
    <3>1. page' = page \/ page' = Fresh(send[o].prev.entry)
      BY <2>6, Restored
    <3> QED
      BY <1>0, <2>1, <2>4, <2>6, <3>1 DEF Fresh, Kept
  <2>7. ASSUME NEW o \in Own, Sending(o) PROVE m \in fetch'.value
    BY <2>4, <2>6, <2>7 DEF Sending, Send, Serve, Confirm, FailWithoutEffect, LoseAnswer, GiveUp,
           ServeLate, view, NoFetch
  <2>8. CASE Reconnect
    <3>1. page' \in {page, [page EXCEPT !.query = "stale"]}
      BY <1>0, <2>8 DEF Reconnect, Caught, Pages
    <3> QED
      BY <1>0, <2>4, <3>1, PagesMade
  <2>9. CASE UNCHANGED vars \/ (Socket /\ ~Reconnect) \/ Mount \/ Unmount \/ Collect \/ FetchFails
             \/ \E o \in Messages : Receive(o) \/ Broadcast(o) \/ LoseBroadcast(o)
    BY <2>4, <2>9 DEF vars, view, Socket, Join, JoinFails, Disconnect, Expire, Renew, Mount,
           Unmount, Collect, NoPage, FetchFails, NoFetch, Receive, Broadcast, LoseBroadcast
  <2> QED
    BY <1>2, <2>2, <2>5, <2>7, <2>8, <2>9 DEF Next, Socket, Page
<1> QED
  BY <1>1, <1>2

LEMMA CovStep == TypeInv /\ Cov /\ Ahead /\ [Next]_vars => Cov'
<1> SUFFICES ASSUME TypeInv, Cov, Ahead, [Next]_vars, Fits',
                    NEW m \in Elements(stored'), m \notin astray'
             PROVE  Covered(m)'
  BY DEF Cov
<1>0. /\ Fits /\ stored \in Seq(Messages) /\ transit \subseteq told
      /\ told \subseteq Elements(stored) /\ page \in Pages
      /\ fetch = Due \/ fetch = NoFetch \/ fetch.pc = "read"
      /\ m \in Messages
  BY FitsBefore, GrowthStep, ElementsOf
     DEF TypeInv, ServerOK, SocketOK, ViewOK, Fetches, Growth
<1>a. m \notin astray /\ fetch.pc = "read" /\ page.entry[m] = "final" => m \in fetch.value
  BY <1>0 DEF Ahead
<1>c. m \notin astray => Covered(m)
  BY <1>0 DEF Cov, Covered
\* What a page still shows is on its way to be shown by the next query too.
<1>f. m \notin astray /\ page.entry[m] = "final" /\ UNCHANGED <<page, fetch>> => Covered(m)'
  BY <1>0, <1>a DEF Covered, Asked, InRead
<1>1. CASE FetchRead
  BY <1>0, <1>1, ReadsAll DEF FetchRead, server, Covered, Asked, InRead
<1>2. CASE FetchArrives
  <2>1. /\ fetch.pc = "read" /\ fetch' = NoFetch
        /\ UNCHANGED <<stored, told, transit, conn, mounted>>
        /\ page'.entry[m] = IF m \in fetch.value THEN "final" ELSE "none"
        /\ m \in fetch.value \/ m \notin astray
    BY <1>0, <1>2 DEF FetchArrives, Fresh, server, socket
  <2> QED
    BY <1>c, <2>1 DEF Covered, Asked, InRead, NoFetch, Due
<1>3. CASE ~FetchRead /\ ~FetchArrives
  <2>0. m \notin astray /\ Covered(m)
    BY <1>3, <1>c, AstrayGrows
  <2>1. CASE UNCHANGED <<told, transit, conn, view>>
    BY <2>0, <2>1 DEF view, Covered, Asked, InRead
  <2>2. ASSUME NEW o \in Messages, Broadcast(o) \/ LoseBroadcast(o) PROVE Covered(m)'
    <3>1. told' = told \union {o} /\ transit \subseteq transit' /\ UNCHANGED <<conn, view>>
      BY <2>2 DEF Broadcast, LoseBroadcast, socket
    <3>2. CASE o # m
      BY <2>0, <3>1, <3>2 DEF view, Covered, Asked, InRead
    <3>3. CASE o = m
      <4>1. m \in transit' \/ Asked(m) \/ page.entry[m] = "final" \/ (mounted /\ conn = "down")
        BY <2>2, <3>3 DEF Broadcast, LoseBroadcast
      <4>2. Asked(m) \/ (mounted /\ conn = "down") => Covered(m)'
        BY <3>1 DEF view, Covered, Asked, InRead
      <4> QED
        BY <1>f, <2>0, <3>1, <4>1, <4>2 DEF view, Covered
    <3> QED
      BY <3>2, <3>3
  <2>3. ASSUME NEW o \in Messages, Deliver(o) PROVE Covered(m)'
    <3>1. transit' = transit \ {o} /\ UNCHANGED <<told, conn, mounted, fetch>>
      BY <2>3 DEF Deliver, server
    <3>2. CASE mounted
      <4>1. page' = Fresh([page.entry EXCEPT ![o] = Merged(@)])
        BY <2>3, <3>2 DEF Deliver
      <4>2. CASE o # m
        <5>1. page'.entry[m] = page.entry[m]
          BY <1>0, <4>1, <4>2 DEF Fresh, Pages
        <5> QED
          BY <2>0, <3>1, <3>2, <4>2, <5>1 DEF Covered, Asked, InRead
      <4>3. CASE o = m
        <5>1. page.entry[m] # "twice"
          BY <1>0 DEF TypeInv, ViewOK, Sound, SoundIn
        <5>2. page'.entry[m] = "final"
          BY <1>0, <4>1, <4>3, <5>1 DEF Fresh, Merged, Pages
        <5>3. fetch.pc = "read" => m \in fetch.value
          BY <2>3, <3>2, <4>3 DEF Deliver
        <5> QED
          BY <1>0, <3>1, <5>2, <5>3 DEF Covered, Asked, InRead
      <4> QED
        BY <4>2, <4>3
    <3>3. CASE ~mounted
      <4>1. page' = page /\ (o = m => page.entry[m] = "final" \/ Asked(m))
        BY <2>3, <3>3 DEF Deliver
      <4>2. Asked(m) => Covered(m)'
        BY <3>1 DEF Covered, Asked, InRead
      <4>3. CASE o = m
        BY <1>f, <2>0, <3>1, <4>1, <4>2, <4>3
      <4>4. CASE o # m
        BY <2>0, <3>1, <4>1, <4>4 DEF Covered, Asked, InRead
      <4> QED
        BY <4>3, <4>4
    <3> QED
      BY <3>2, <3>3 DEF TypeInv, ViewOK
  <2>4. CASE Disconnect
    <3>1. conn = "up" /\ conn' = "down" /\ transit' = {} /\ UNCHANGED <<told, view>>
      BY <2>4 DEF Disconnect, server
    <3>2. mounted \/ m \notin transit
      BY <2>4 DEF Disconnect
    <3> QED
      BY <2>0, <3>1, <3>2 DEF view, Covered, Asked, InRead
  <2>5. CASE Reconnect
    <3>1. UNCHANGED <<told, transit, mounted>>
      BY <2>5 DEF Reconnect, server
    <3>2. CASE ~mounted
      BY <2>0, <2>5, <3>1, <3>2 DEF Reconnect, Covered, Asked, InRead
    <3>3. CASE mounted
      <4>1. \/ fetch' = Due
            \/ page.query = "absent" /\ fetch' = fetch /\ fetch # NoFetch
        BY <2>5, <3>3 DEF Reconnect, Caught
      <4>2. CASE page.query = "absent" /\ fetch' = fetch /\ fetch.pc = "read"
        <5>1. m \notin told \/ m \in fetch.value
          BY <2>5, <3>3, <4>2 DEF Reconnect
        <5> QED
          BY <3>1, <4>2, <5>1 DEF Covered, Asked, InRead
      <4> QED
        BY <1>0, <4>1, <4>2 DEF Covered, Asked
    <3> QED
      BY <3>2, <3>3 DEF TypeInv, ViewOK
  <2>6. CASE Mount
    <3>1. /\ ~mounted /\ UNCHANGED <<told, transit, conn, page>>
          /\ fetch' = Due \/ (fetch' = fetch /\ (page.query = "fresh" \/ fetch # NoFetch))
      BY <2>6 DEF Mount, server
    <3> QED
      BY <2>0, <3>1 DEF Covered, Asked, InRead
  <2>7. CASE Unmount
    <3>1. mounted /\ UNCHANGED <<told, transit, conn, page, fetch>>
      BY <2>7 DEF Unmount, server
    <3>2. conn # "down" \/ m \notin Unheard \/ Asked(m)
      BY <2>7 DEF Unmount
    <3>3. CASE conn # "down"
      BY <2>0, <3>1, <3>3 DEF Covered, Asked, InRead
    <3>4. CASE Asked(m) \/ m \notin told \/ m \in transit
      BY <3>1, <3>4 DEF Covered, Asked, InRead
    <3>5. CASE m \notin Unheard /\ m \in told /\ m \notin transit
      BY <1>f, <2>0, <3>1, <3>5 DEF Unheard
    <3> QED
      BY <3>2, <3>3, <3>4, <3>5
  <2>8. CASE Collect
    BY <2>8 DEF Collect, NoPage, Covered
  <2>9. CASE FetchFails
    BY <2>9 DEF FetchFails, server, socket, Unheard, Covered
  <2>10. ASSUME NEW o \in Own, Send(o) PROVE Covered(m)'
    <3>1. /\ fetch' = NoFetch /\ mounted /\ send[o].pc = "new"
          /\ UNCHANGED <<stored, told, transit, conn, mounted>>
          /\ page' = Fresh([page.entry EXCEPT ![o] = "draft"])
      BY <2>10 DEF Send, server, socket
    <3>2. o # m
      BY <3>1 DEF TypeInv, ServerOK, New
    <3>3. page'.entry[m] = page.entry[m]
      BY <1>0, <3>1, <3>2 DEF Fresh, Pages
    <3>4. fetch = NoFetch \/ m \notin Unheard
      BY <2>10 DEF Send
    <3> QED
      BY <2>0, <3>1, <3>3, <3>4 DEF Covered, Asked, InRead, Unheard, NoFetch, Due
  <2>11. ASSUME NEW o \in Own, Restore(o), send[o].pc \in {"sent", "served"},
                UNCHANGED <<server, socket, mounted, fetch>>
         PROVE  Covered(m)'
    <3>1. \/ page' = page
          \/ page'.entry[m] = "final"
          \/ page.query # "absent" /\ page.entry[m] # "final"
          \/ page'.entry[m] = page.entry[m] /\ page.query # "absent"
      BY <1>0, <2>11, Restored DEF Fresh
    <3> QED
      BY <2>0, <2>11, <3>1 DEF server, socket, Covered, Asked, InRead
  <2>12. ASSUME NEW o \in Own, Serve(o) \/ Confirm(o) \/ ServeLate(o) PROVE Covered(m)'
    BY <2>1, <2>12 DEF Serve, Confirm, ServeLate, server, socket
  <2>13. ASSUME NEW o \in Own, Sending(o) PROVE Covered(m)'
    BY <2>10, <2>11, <2>12, <2>13 DEF Sending, FailWithoutEffect, LoseAnswer, GiveUp
  <2>14. CASE UNCHANGED vars \/ Join \/ JoinFails \/ Expire \/ Renew
              \/ \E o \in Messages : Receive(o)
    BY <2>1, <2>14 DEF vars, Join, JoinFails, Expire, Renew, Receive, server, socket
  <2> QED
    BY <1>3, <2>2, <2>3, <2>4, <2>5, <2>6, <2>7, <2>8, <2>9, <2>13, <2>14
       DEF Next, Socket, Page
<1> QED
  BY <1>1, <1>2, <1>3

LEMMA CoversStep == TypeInv /\ Covers /\ [Next]_vars => Covers'
BY CovStep, DraftsReal, AheadStep, KeptStep DEF Covers

LEMMA SettledShows == TypeInv /\ Covers => SettledShowsStored
<1> SUFFICES ASSUME TypeInv, Covers, Settled, Fits, NEW m \in Messages \ astray
             PROVE  m \in Shown <=> m \in Elements(stored)
  BY DEF SettledShowsStored, Fits
<1>1. m \in Elements(stored) => page.entry[m] = "final"
  BY DEF Covers, Cov, Covered, Settled, Asked, InRead, NoFetch, Due
<1>2. page.entry[m] # "none" => m \in Elements(stored)
  <2> SUFFICES ASSUME page.entry[m] # "none" PROVE m \in Elements(stored)
    OBVIOUS
  <2>1. page.entry[m] \in {"draft", "final"} /\ (page.entry[m] = "final" => m \in Elements(stored))
        /\ (page.entry[m] = "draft" => m \in Own)
    BY DEF TypeInv, ViewOK, Pages, Sound, SoundIn
  <2> QED
    BY <2>1 DEF Covers, Real, Settled
<1> QED
  BY <1>1, <1>2 DEF Shown

\* Once everything has arrived the page shows a message exactly if it is stored, for any number of
\* messages and any length of the query that holds them all, for every message of which no event
\* of the history has said that the page loses it.
THEOREM Settles == Spec => []SettledShowsStored
<1>1. Init => TypeInv /\ Covers
  BY TypesInitially, CoversInitially
<1>2. TypeInv /\ Covers /\ [Next]_vars => (TypeInv /\ Covers)'
  BY TypesStep, CoversStep
<1> QED
  BY <1>1, <1>2, SettledShows, PTL DEF Spec
-----------------------------------------------------------------------------
(* The server of the page *)

\* A request that was sent has left no row, however late it is served.
Unserved == \A m \in Own : send[m].pc \in {"sent", "late"} => m \notin Elements(stored)

LEMMA UnservedKept ==
    ASSUME Unserved, Elements(stored') = Elements(stored),
           \A m \in Own : send'[m].pc \in {"sent", "late"} => send[m].pc \in {"sent", "late"}
    PROVE  Unserved'
BY DEF Unserved

LEMMA OneSend ==
    ASSUME TypeInv, NEW m \in Own, NEW r, send' = [send EXCEPT ![m] = r]
    PROVE  send'[m] = r /\ \A o \in Own : o # m => send'[o] = send[o]
BY DEF TypeInv, SendOK

LEMMA SendingUnserved ==
    ASSUME TypeInv, Unserved, NEW m \in Own, Sending(m)
    PROVE  Unserved'
<1>1. send \in [Own -> Sends] /\ stored \in Seq(Messages) /\ m \in Messages
  BY DEF TypeInv, SendOK, ServerOK, Messages
<1>2. Elements(Append(stored, m)) = Elements(stored) \union {m}
  BY <1>1, ElementsAppended
<1>3. ASSUME NEW r, send' = [send EXCEPT ![m] = r],
             r.pc \in {"sent", "late"} => m \notin Elements(stored'),
             stored' = stored \/ stored' = Append(stored, m)
      PROVE  Unserved'
  <2>1. send'[m] = r /\ \A o \in Own : o # m => send'[o] = send[o]
    BY <1>3, OneSend
  <2>2. \A o \in Own : o # m /\ o \notin Elements(stored) => o \notin Elements(stored')
    BY <1>2, <1>3
  <2> QED
    BY <1>3, <2>1, <2>2 DEF Unserved
<1>4. CASE Send(m)
  <2>1. m \notin Elements(stored) /\ stored' = stored
    BY <1>4 DEF Send, server, TypeInv, ServerOK, New
  <2>2. send' = [send EXCEPT ![m] = [pc |-> "sent", prev |-> page, mine |-> TRUE]]
    BY <1>4 DEF Send
  <2> QED
    BY <2>1, <2>2, <1>3
<1>5. CASE Serve(m)
  <2>1. [send[m] EXCEPT !.pc = "served"].pc = "served"
    BY <1>1, <1>5 DEF Serve, Sends
  <2>2. send' = [send EXCEPT ![m] = [send[m] EXCEPT !.pc = "served"]]
        /\ stored' = Append(stored, m)
    BY <1>1, <1>5 DEF Serve
  <2> QED
    BY <2>1, <2>2, <1>3
<1>6. CASE Confirm(m) \/ FailWithoutEffect(m) \/ LoseAnswer(m)
  <2>1. send' = [send EXCEPT ![m] = [pc |-> "done"]] /\ stored' = stored
    BY <1>6 DEF Confirm, FailWithoutEffect, LoseAnswer, End, server
  <2> QED
    BY <2>1, <1>3
<1>7. CASE GiveUp(m)
  <2>1. send' = [send EXCEPT ![m] = [pc |-> "late"]] /\ stored' = stored
    BY <1>7 DEF GiveUp, End, server
  <2>2. m \notin Elements(stored)
    BY <1>7 DEF GiveUp, Unserved
  <2> QED
    BY <2>1, <2>2, <1>3
<1>8. CASE ServeLate(m)
  <2>1. send' = [send EXCEPT ![m] = [pc |-> "done"]] /\ stored' \in {stored, Append(stored, m)}
    BY <1>8 DEF ServeLate, End
  <2> QED
    BY <2>1, <1>3
<1> QED
  BY <1>4, <1>5, <1>6, <1>7, <1>8 DEF Sending

LEMMA UnservedStep == TypeInv /\ Unserved /\ [Next]_vars => Unserved'
<1> SUFFICES ASSUME TypeInv, Unserved, [Next]_vars PROVE Unserved'
  OBVIOUS
<1>1. ASSUME NEW m \in Messages, Receive(m) PROVE Unserved'
  <2>1. m \notin Own /\ stored' = Append(stored, m) /\ send' = send /\ stored \in Seq(Messages)
    BY <1>1, MessagesAssumption DEF Receive, TypeInv, ServerOK
  <2>2. Elements(stored') = Elements(stored) \union {m}
    BY <2>1, ElementsAppended
  <2> QED
    BY <2>1, <2>2 DEF Unserved
<1>2. CASE Unmount
  <2>1. \A m \in Own : send'[m].pc = send[m].pc
    BY <1>2 DEF Unmount, TypeInv, SendOK, Sends
  <2>2. stored' = stored
    BY <1>2 DEF Unmount, server
  <2> QED
    BY <2>1, <2>2, UnservedKept
<1>3. CASE Socket \/ (Page /\ ~Unmount) \/ UNCHANGED vars
          \/ \E m \in Messages : Broadcast(m) \/ LoseBroadcast(m) \/ Deliver(m)
  <2>1. UNCHANGED <<stored, send>>
    BY <1>3 DEF Socket, Join, JoinFails, Disconnect, Reconnect, Expire, Renew, Page, Mount,
           Collect, FetchRead, FetchArrives, FetchFails, Broadcast, LoseBroadcast, Deliver, vars,
           server
  <2> QED
    BY <2>1, UnservedKept
<1> QED
  BY <1>1, <1>2, <1>3, SendingUnserved DEF Next, Page

\* What the page calls the server, as the log of the inbox: the readers are elsewhere, and a
\* broadcast that got lost is one that nobody heard.
Heard == [m \in Messages |-> IF m \in told THEN 1 ELSE 0]

Promise == INSTANCE Inbox WITH
    Ids <- Messages, Readers <- {}, To <- [m \in Messages |-> {}],
    log <- Elements(stored), told <- Heard, badge <- [p \in {} |-> 0], bell <- {}

ServerKeepsPromise == Promise!Spec

LEMMA PromiseSend ==
    ASSUME TypeInv, NEW m \in Messages, m \notin Elements(stored),
           stored' = Append(stored, m), told' = told
    PROVE  Promise!Next
<1>1. Elements(stored') = Elements(stored) \union {m}
  BY ElementsAppended DEF TypeInv, ServerOK
<1>2. Heard' = Heard
  BY DEF Heard
<1>3. Promise!Send(m)
  BY <1>1, <1>2 DEF Promise!Send
<1> QED
  BY <1>3 DEF Promise!Next

LEMMA PromiseTell ==
    ASSUME TypeInv, NEW m \in Messages, m \in Elements(stored) \ told,
           told' = told \union {m}, stored' = stored
    PROVE  Promise!Next
<1>1. Heard' = [Heard EXCEPT ![m] = 1] /\ Heard[m] = 0
  BY DEF Heard
<1>2. Promise!Tell(m)
  BY <1>1 DEF Promise!Tell
<1> QED
  BY <1>2 DEF Promise!Next

LEMMA PromiseStep == TypeInv /\ Unserved /\ [Next]_vars => [Promise!Next]_(Promise!vars)
<1> SUFFICES ASSUME TypeInv, Unserved, [Next]_vars PROVE [Promise!Next]_(Promise!vars)
  OBVIOUS
<1>1. CASE UNCHANGED server
  BY <1>1 DEF server, Heard, Promise!vars
<1>2. ASSUME NEW m \in Messages, Receive(m) PROVE Promise!Next
  BY <1>2, PromiseSend DEF Receive
<1>3. ASSUME NEW m \in Messages, Broadcast(m) \/ LoseBroadcast(m) PROVE Promise!Next
  BY <1>3, PromiseTell DEF Broadcast, LoseBroadcast
<1>4. ASSUME NEW m \in Own, Sending(m) PROVE [Promise!Next]_(Promise!vars)
  <2>1. CASE Serve(m) \/ ServeLate(m)
    <3>1. m \notin Elements(stored) /\ m \in Messages /\ told' = told
      BY <2>1 DEF Serve, ServeLate, Unserved, Messages
    <3>2. stored' = stored \/ stored' = Append(stored, m)
      BY <2>1 DEF Serve, ServeLate
    <3> QED
      BY <1>1, <3>1, <3>2, PromiseSend DEF server
  <2>2. CASE ~(Serve(m) \/ ServeLate(m))
    BY <1>1, <1>4, <2>2 DEF Sending, Send, Confirm, FailWithoutEffect, LoseAnswer, GiveUp
  <2> QED
    BY <2>1, <2>2
<1>5. CASE Socket \/ Page \/ UNCHANGED vars \/ \E m \in Messages : Deliver(m)
  BY <1>1, <1>5 DEF Socket, Join, JoinFails, Disconnect, Reconnect, Expire, Renew, Page, Mount,
     Unmount, Collect, FetchRead, FetchArrives, FetchFails, Deliver, vars
<1> QED
  BY <1>2, <1>3, <1>4, <1>5 DEF Next

\* The server that the page is checked against keeps the promise of the inbox, which Messages
\* implements: whatever times out, is given up or is served late, a message enters the log once,
\* and is told once at most, after that.
THEOREM ServerPromised == Spec => ServerKeepsPromise
<1>1. Init => Promise!Init /\ Unserved
  <2> SUFFICES ASSUME Init PROVE Promise!Init /\ Unserved
    OBVIOUS
  <2>1. Elements(stored) = {}
    BY DEF Init, Elements
  <2>2. Heard = [m \in Messages |-> 0]
    BY DEF Init, Heard
  <2> QED
    BY <2>1, <2>2 DEF Promise!Init, Unserved
<1> QED
  BY <1>1, TypesHold, UnservedStep, PromiseStep, PTL DEF Spec, ServerKeepsPromise, Promise!Spec

=============================================================================
