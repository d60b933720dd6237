-------------------------- MODULE EpollServerProofs ---------------------------
(***************************************************************************)
(* Theorems about EpollServer, for any number of clients, any length of    *)
(* the kernel's queue and any size of its buffers: the server never        *)
(* becomes deaf, overlooks a socket only where events were merged, and     *)
(* ends only for a client that left or does not read.                      *)
(***************************************************************************)
EXTENDS EpollServer, TLAPS

(* TypeOK but for the bound of the kernel's buffers. *)
Types ==
  /\ at \in {"start", "wait", "handle", "dead"}
  /\ queue \in Seq(Clients)
  /\ ready \subseteq Sockets
  /\ events \subseteq Sockets
  /\ clients_list \subseteq Clients
  /\ conn \in [Clients -> {"none", "queued", "open", "closed"}]
  /\ peer \in [Clients -> {"open", "fin", "gone", "reset"}]
  /\ unread \in [Clients -> Nat]
  /\ sent \in 0 .. MaxSends
  /\ outgoing \in [Clients -> Nat]
  /\ merged \subseteq Sockets

(* The loop calls epoll_wait when every event is handled. *)
AllHandled == at \in {"start", "wait"} => events = {}

(* Before the server listens nobody is connected. *)
NobodyYet == at = "start" => \A c \in Clients : conn[c] = "none"

(* NeverDeaf, from the start and after the end too. *)
Hearing ==
  /\ Flag(Listener \in ready) + Flag(Listener \in events) <= Len(queue)
  /\ Len(queue) <= Capacity
  /\ Len(queue) = Capacity => Listener \in ready \cup events

(* An event that waits to be handled has its reason. *)
EventsPollable ==
  \A c \in events \cap Clients : unread[c] > 0 \/ peer[c] # "open"

(* As long as no events were merged, there is one for each thing that waits *)
(* on a socket.                                                             *)
Told(x) == Flag(x \in ready) + Flag(x \in events)

ListenerTold == Listener \notin merged => Len(queue) <= Told(Listener)

ClientTold ==
  \A c \in Clients :
    conn[c] = "open" /\ c \notin merged =>
      unread[c] + Flag(peer[c] # "open") <= Told(c)
-------------------------------------------------------------------------------
LEMMA ReceiversType ==
  ASSUME Types, NEW c \in Clients
  PROVE  Receivers(c) \subseteq Clients
BY Zenon DEF Types, Receivers

LEMMA HandledType ==
  ASSUME Types, NEW x, Handled(x)
  PROVE  events' \subseteq Sockets /\ at' \in {"wait", "handle"}
BY Zenon DEF Types, Handled

LEMMA SendToType ==
  ASSUME Types, NEW cs, SendTo(cs)
  PROVE  /\ outgoing' \in [Clients -> Nat]
         /\ peer' \in [Clients -> {"open", "fin", "gone", "reset"}]
BY SMT DEF Types, SendTo

LEMMA ArrivesType ==
  ASSUME Types, NEW x \in Sockets, Arrives(x)
  PROVE  ready' \subseteq Sockets /\ merged' \subseteq Sockets
BY Zenon DEF Types, Arrives

LEMMA NotifiesType ==
  ASSUME Types, NEW c \in Clients, Notifies(c)
  PROVE  ready' \subseteq Sockets /\ merged' \subseteq Sockets
<1>1. c \in Sockets
  BY DEF Sockets
<1>2. CASE conn[c] = "open"
  BY <1>1, <1>2, ArrivesType DEF Notifies
<1>3. CASE conn[c] # "open"
  BY <1>3 DEF Notifies, Types
<1> QED
  BY <1>2, <1>3

LEMMA DieType ==
  ASSUME Types, Die
  PROVE  Types'
BY Zenon DEF Types, Die

LEMMA TypesStep == Types /\ [Next]_vars => Types'
<1> SUFFICES ASSUME Types, [Next]_vars PROVE Types'
  OBVIOUS
<1>1. CASE Start
  BY <1>1, Zenon DEF Start, Types
<1>2. CASE EpollWait
  BY <1>2, Zenon DEF EpollWait, Types
<1>3. CASE Accept
  <2>1. CASE queue = <<>>
    BY <1>3, <2>1, DieType DEF Accept
  <2>2. CASE queue # <<>>
    <3> DEFINE c == Head(queue)
    <3>1. /\ Handled(Listener) /\ queue' = Tail(queue)
          /\ conn' = [conn EXCEPT ![c] = "open"]
          /\ clients_list' = clients_list \cup {c}
          /\ SendTo({c})
          /\ ready' = IF Pollable(c) THEN ready \cup {c} ELSE ready
          /\ merged' = IF ComesMerged(c) THEN merged \cup {c} ELSE merged
          /\ unread' = unread /\ sent' = sent
      BY <1>3, <2>2 DEF Accept
    <3>2. c \in Clients /\ queue' \in Seq(Clients)
      BY <2>2, <3>1, SMT DEF Types
    <3>3. ready' \subseteq Sockets /\ merged' \subseteq Sockets
          /\ clients_list' \subseteq Clients
      <4> HIDE DEF c
      <4> QED
        BY <3>1, <3>2, Zenon DEF Types, Sockets
    <3>4. conn' \in [Clients -> {"none", "queued", "open", "closed"}]
      <4> HIDE DEF c
      <4> QED
        BY <3>1, <3>2, Zenon DEF Types
    <3> QED
      BY <3>1, <3>2, <3>3, <3>4, HandledType, SendToType DEF Types
  <2> QED
    BY <2>1, <2>2
<1>4. ASSUME NEW c \in Clients, RecvClosed(c) PROVE Types'
  <2>1. conn' \in [Clients -> {"none", "queued", "open", "closed"}]
    BY <1>4, Zenon DEF RecvClosed, Types
  <2>2. events' \subseteq Sockets /\ at' \in {"wait", "handle"}
    BY <1>4, HandledType DEF RecvClosed
  <2> QED
    BY <1>4, <2>1, <2>2, Zenon DEF RecvClosed, Types
<1>5. ASSUME NEW c \in Clients, RecvFails(c) PROVE Types'
  BY <1>5, DieType DEF RecvFails
<1>6. ASSUME NEW c \in Clients, RecvBlock(c) PROVE Types'
  <2>1. CASE \E r \in Receivers(c) : SendFails(r)
    BY <1>6, <2>1, DieType DEF RecvBlock
  <2>2. CASE ~\E r \in Receivers(c) : SendFails(r)
    <3>1. /\ Handled(c) /\ SendTo(Receivers(c))
          /\ unread' = [unread EXCEPT ![c] = IF @ > Chunk THEN @ - Chunk ELSE 0]
          /\ ready' = ready \cup Left(Receivers(c))
          /\ merged' = merged \cup (ready \cap Left(Receivers(c)))
          /\ queue' = queue /\ clients_list' = clients_list /\ conn' = conn
          /\ sent' = sent
      BY <1>6, <2>2 DEF RecvBlock
    <3>2. Left(Receivers(c)) \subseteq Sockets
      BY ReceiversType, Zenon DEF Left, Sockets
    <3>3. unread' \in [Clients -> Nat]
      BY <3>1, EpollAssumption, SMT DEF Types
    <3>4. ready' \subseteq Sockets /\ merged' \subseteq Sockets
      BY <3>1, <3>2, Zenon DEF Types
    <3> QED
      BY <3>1, <3>3, <3>4, HandledType, SendToType DEF Types
  <2> QED
    BY <2>1, <2>2
<1>7. ASSUME NEW c \in Clients, Connect(c) PROVE Types'
  <2>1. Listener \in Sockets
    BY DEF Sockets
  <2>2. ready' \subseteq Sockets /\ merged' \subseteq Sockets
    BY <1>7, <2>1, ArrivesType DEF Connect
  <2>3. conn' \in [Clients -> {"none", "queued", "open", "closed"}]
    BY <1>7, Zenon DEF Connect, Types
  <2>4. queue' \in Seq(Clients)
    BY <1>7, SMT DEF Connect, Types
  <2> QED
    BY <1>7, <2>2, <2>3, <2>4 DEF Connect, Types
<1>8. ASSUME NEW c \in Clients, ClientSends(c) PROVE Types'
  <2>1. ready' \subseteq Sockets /\ merged' \subseteq Sockets
    BY <1>8, NotifiesType DEF ClientSends
  <2>2. unread' \in [Clients -> Nat] /\ sent' \in 0 .. MaxSends
    BY <1>8, EpollAssumption, SMT DEF ClientSends, Types
  <2> QED
    BY <1>8, <2>1, <2>2 DEF ClientSends, Types, server
<1>9. ASSUME NEW c \in Clients, ClientReads(c) PROVE Types'
  <2>1. outgoing' \in [Clients -> Nat]
    BY <1>9, SMT DEF ClientReads, Types
  <2> QED
    BY <1>9, <2>1 DEF ClientReads, Types, server
<1>10. ASSUME NEW c \in Clients, ClientLeaves(c) PROVE Types'
  <2>1. ready' \subseteq Sockets /\ merged' \subseteq Sockets
    BY <1>10, NotifiesType DEF ClientLeaves
  <2>2. peer' \in [Clients -> {"open", "fin", "gone", "reset"}]
    BY <1>10, Zenon DEF ClientLeaves, Types
  <2> QED
    BY <1>10, <2>1, <2>2 DEF ClientLeaves, Types, server
<1>11. CASE UNCHANGED vars
  BY <1>11 DEF vars, server, Types
<1> QED
  BY <1>1, <1>2, <1>3, <1>4, <1>5, <1>6, <1>7, <1>8, <1>9, <1>10, <1>11
  DEF Next, Server
-------------------------------------------------------------------------------
(* What concerns the listener is left alone by the steps of connections. *)
AtConnections ==
  \/ Start
  \/ \E c \in Clients :
       \/ RecvClosed(c) \/ RecvFails(c) \/ RecvBlock(c)
       \/ ClientSends(c) \/ ClientReads(c) \/ ClientLeaves(c)

LEMMA ListenerLeftAlone ==
  ASSUME Types, AtConnections
  PROVE  /\ queue' = queue
         /\ Listener \in ready' <=> Listener \in ready
         /\ Listener \in events' <=> Listener \in events
         /\ Listener \in merged' <=> Listener \in merged
<1> DEFINE Goal == /\ queue' = queue
                   /\ Listener \in ready' <=> Listener \in ready
                   /\ Listener \in events' <=> Listener \in events
                   /\ Listener \in merged' <=> Listener \in merged
<1>1. Listener \notin Clients
  BY EpollAssumption
<1>2. CASE Start
  BY <1>2 DEF Start
<1>3. ASSUME NEW c \in Clients, RecvClosed(c) PROVE Goal
  BY <1>1, <1>3, Zenon DEF RecvClosed, Handled
<1>4. ASSUME NEW c \in Clients, RecvFails(c) PROVE Goal
  BY <1>4 DEF RecvFails, Die
<1>5. ASSUME NEW c \in Clients, RecvBlock(c) PROVE Goal
  <2>1. CASE \E r \in Receivers(c) : SendFails(r)
    BY <1>5, <2>1 DEF RecvBlock, Die
  <2>2. CASE ~\E r \in Receivers(c) : SendFails(r)
    <3>1. Listener \notin Left(Receivers(c))
      BY <1>1, ReceiversType, Zenon DEF Left
    <3> QED
      BY <1>1, <1>5, <2>2, <3>1, Zenon DEF RecvBlock, Handled
  <2> QED
    BY <2>1, <2>2
<1>6. ASSUME NEW c \in Clients, Notifies(c)
      PROVE  /\ Listener \in ready' <=> Listener \in ready
             /\ Listener \in merged' <=> Listener \in merged
  <2>1. CASE conn[c] = "open"
    <3>1. c # Listener
      BY <1>1
    <3>2. /\ ready' = ready \cup {c}
          /\ merged' = merged \cup {c} \/ merged' = merged
      BY <1>6, <2>1, Zenon DEF Notifies, Arrives
    <3> QED
      BY <3>1, <3>2, Zenon
  <2>2. CASE conn[c] # "open"
    BY <1>6, <2>2 DEF Notifies
  <2> QED
    BY <2>1, <2>2
<1>7. ASSUME NEW c \in Clients,
             ClientSends(c) \/ ClientReads(c) \/ ClientLeaves(c)
      PROVE Goal
  BY <1>6, <1>7 DEF ClientSends, ClientReads, ClientLeaves, server
<1> QED
  BY <1>2, <1>3, <1>4, <1>5, <1>7 DEF AtConnections

(* The loop, and the start. *)
LEMMA LoopStep ==
  Types /\ AllHandled /\ NobodyYet /\ [Next]_vars => AllHandled' /\ NobodyYet'
<1> SUFFICES ASSUME Types, AllHandled, NobodyYet, [Next]_vars
             PROVE  AllHandled' /\ NobodyYet'
  OBVIOUS
<1>1. CASE Start
  BY <1>1, Zenon DEF Start, AllHandled, NobodyYet
<1>2. CASE EpollWait
  BY <1>2 DEF EpollWait, AllHandled, NobodyYet
<1>3. ASSUME NEW x, Handled(x) PROVE AllHandled' /\ NobodyYet'
  <2>1. at' # "start" /\ (at' = "wait" => events' = {})
    BY <1>3, Zenon DEF Handled
  <2> QED
    BY <2>1 DEF AllHandled, NobodyYet
<1>4. CASE Die
  BY <1>4 DEF Die, AllHandled, NobodyYet
<1>5. CASE Accept
  BY <1>3, <1>4, <1>5 DEF Accept
<1>6. ASSUME NEW c \in Clients, RecvClosed(c) \/ RecvFails(c) \/ RecvBlock(c)
      PROVE  AllHandled' /\ NobodyYet'
  BY <1>3, <1>4, <1>6 DEF RecvClosed, RecvFails, RecvBlock
<1>7. ASSUME NEW c \in Clients, Connect(c) PROVE AllHandled' /\ NobodyYet'
  BY <1>7 DEF Connect, AllHandled, NobodyYet
<1>8. ASSUME NEW c \in Clients,
             ClientSends(c) \/ ClientReads(c) \/ ClientLeaves(c)
      PROVE  AllHandled' /\ NobodyYet'
  BY <1>8, Zenon
  DEF ClientSends, ClientReads, ClientLeaves, server, AllHandled, NobodyYet
<1>9. CASE UNCHANGED vars
  BY <1>9 DEF vars, server, AllHandled, NobodyYet
<1> QED
  BY <1>1, <1>2, <1>5, <1>6, <1>7, <1>8, <1>9 DEF Next, Server

(* The listener: as many events as it takes, and no more than connections. *)
LEMMA ListenerStep ==
  Types /\ AllHandled /\ Hearing /\ ListenerTold /\ [Next]_vars
    => Hearing' /\ ListenerTold'
<1> SUFFICES ASSUME Types, AllHandled, Hearing, ListenerTold, [Next]_vars
             PROVE  Hearing' /\ ListenerTold'
  OBVIOUS
<1>1. queue \in Seq(Clients) /\ Capacity \in Nat /\ Listener \notin Clients
  BY EpollAssumption DEF Types
<1>2. CASE AtConnections
  <2>1. /\ queue' = queue
        /\ Listener \in ready' <=> Listener \in ready
        /\ Listener \in events' <=> Listener \in events
        /\ Listener \in merged' <=> Listener \in merged
    BY <1>2, ListenerLeftAlone
  <2> QED
    BY <2>1, SMT DEF Hearing, ListenerTold, Told, Flag
<1>3. CASE EpollWait
  <2>1. /\ events = {} /\ queue' = queue /\ ready' = {} /\ merged' = merged
        /\ events' = {x \in ready : Pollable(x)}
    BY <1>3 DEF EpollWait, AllHandled
  <2>2. Listener \in ready => Len(queue) > 0
    BY <1>1, <2>1, SMT DEF Hearing, Flag
  <2>3. Listener \in ready => queue # <<>>
    BY <1>1, <2>2, SMT
  <2>4. Listener \in events' <=> Listener \in ready
    BY <2>1, <2>3, Zenon DEF Pollable
  <2> QED
    BY <2>1, <2>4, SMT DEF Hearing, ListenerTold, Told, Flag
<1>4. CASE Accept
  <2>1. Len(queue) > 0
    BY <1>1, <1>4, SMT DEF Accept, Hearing, Flag
  <2>2. queue # <<>>
    BY <1>1, <2>1, SMT
  <2>3. Head(queue) \in Clients /\ Len(Tail(queue)) = Len(queue) - 1
        /\ Len(queue) \in Nat
    BY <1>1, <2>2, SMT
  <2>4. Listener \in events /\ Listener \notin events' /\ queue' = Tail(queue)
    BY <1>4, <2>2, Zenon DEF Accept, Handled
  <2>5. Listener \in ready' <=> Listener \in ready
    BY <1>1, <1>4, <2>2, <2>3, Zenon DEF Accept
  <2>6. Listener \in merged' <=> Listener \in merged
    BY <1>1, <1>4, <2>2, <2>3, Zenon DEF Accept
  <2> QED
    BY <1>1, <2>3, <2>4, <2>5, <2>6, SMT DEF Hearing, ListenerTold, Told, Flag
<1>5. ASSUME NEW c \in Clients, Connect(c) PROVE Hearing' /\ ListenerTold'
  <2>1. Len(queue') = Len(queue) + 1 /\ Len(queue) \in Nat
        /\ Len(queue) < Capacity
    BY <1>1, <1>5, SMT DEF Connect
  <2>2. Listener \in ready' /\ events' = events
    BY <1>5, Zenon DEF Connect, Arrives
  <2>3. Listener \notin merged' => Listener \notin ready /\ Listener \notin merged
    BY <1>5, Zenon DEF Connect, Arrives
  <2> QED
    BY <1>1, <2>1, <2>2, <2>3, SMT DEF Hearing, ListenerTold, Told, Flag
<1>6. CASE UNCHANGED vars
  BY <1>6, SMT DEF vars, server, Hearing, ListenerTold, Told, Flag
<1> QED
  BY <1>2, <1>3, <1>4, <1>5, <1>6 DEF Next, Server, AtConnections

LEMMA InitAll ==
  Init => /\ Types /\ AllHandled /\ NobodyYet /\ Hearing /\ ListenerTold
          /\ EventsPollable /\ ClientTold
<1> SUFFICES ASSUME Init
             PROVE  /\ Types /\ AllHandled /\ NobodyYet /\ Hearing
                    /\ ListenerTold /\ EventsPollable /\ ClientTold
  OBVIOUS
<1>1. queue \in Seq(Clients) /\ sent \in 0 .. MaxSends /\ 0 \in Nat
  BY EpollAssumption, SMT DEF Init
<1>2. Types
  BY <1>1, Zenon DEF Init, Types
<1>3. AllHandled /\ NobodyYet /\ EventsPollable /\ ClientTold
  BY Zenon DEF Init, AllHandled, NobodyYet, EventsPollable, ClientTold
<1>4. Hearing /\ ListenerTold
  BY EpollAssumption, SMT DEF Init, Hearing, ListenerTold, Told, Flag
<1> QED
  BY <1>2, <1>3, <1>4

(* For any number of clients and any length of the queue: accept never      *)
(* finds the queue empty, and a full queue has an event that makes room.    *)
THEOREM NeverDeafCorrect == Spec => []NeverDeaf
<1>1. Hearing => NeverDeaf
  BY DEF Hearing, NeverDeaf
<1> QED
  BY <1>1, InitAll, TypesStep, LoopStep, ListenerStep, PTL DEF Spec
-------------------------------------------------------------------------------
(* SendTo opens no client's end again. *)
LEMMA SendToPeer ==
  ASSUME Types, NEW cs, SendTo(cs), NEW c \in Clients
  PROVE  (peer'[c] # "open") <=> (peer[c] # "open")
BY Zenon DEF Types, SendTo

(* What was readable when epoll_wait reported it is so until it is read. *)
LEMMA EventsStep ==
  Types /\ AllHandled /\ EventsPollable /\ [Next]_vars => EventsPollable'
<1> SUFFICES ASSUME Types, AllHandled, EventsPollable, [Next]_vars,
                    NEW e \in Clients, e \in events'
             PROVE  unread'[e] > 0 \/ peer'[e] # "open"
  BY Zenon DEF EventsPollable
<1> DEFINE Kept == unread[e] > 0 \/ peer[e] # "open"
           Goal == unread'[e] > 0 \/ peer'[e] # "open"
<1>0. e \in events => Kept
  BY DEF EventsPollable
<1>1. CASE Start
  BY <1>0, <1>1 DEF Start
<1>2. CASE EpollWait
  <2>1. Pollable(e) /\ e # Listener
    BY <1>2, EpollAssumption DEF EpollWait
  <2> QED
    BY <1>2, <2>1 DEF EpollWait, Pollable
<1>3. CASE Die
  BY <1>0, <1>3 DEF Die
<1>4. CASE Accept
  <2>1. CASE queue = <<>>
    BY <1>3, <1>4, <2>1 DEF Accept
  <2>2. CASE queue # <<>>
    <3>1. SendTo({Head(queue)}) /\ unread' = unread /\ e \in events
      BY <1>4, <2>2, Zenon DEF Accept, Handled
    <3> QED
      BY <1>0, <3>1, SendToPeer
  <2> QED
    BY <2>1, <2>2
<1>5. ASSUME NEW c \in Clients, RecvClosed(c) PROVE Goal
  <2>1. unread' = unread /\ peer' = peer /\ e \in events
    BY <1>5, Zenon DEF RecvClosed, Handled
  <2> QED
    BY <1>0, <2>1
<1>6. ASSUME NEW c \in Clients, RecvBlock(c) PROVE Goal
  <2>1. CASE \E r \in Receivers(c) : SendFails(r)
    BY <1>3, <1>6, <2>1 DEF RecvBlock
  <2>2. CASE ~\E r \in Receivers(c) : SendFails(r)
    <3>1. SendTo(Receivers(c)) /\ e \in events /\ e # c
      BY <1>6, <2>2, Zenon DEF RecvBlock, Handled
    <3>2. unread'[e] = unread[e]
      BY <1>6, <2>2, <3>1, Zenon DEF RecvBlock, Types
    <3> QED
      BY <1>0, <3>1, <3>2, SendToPeer
  <2> QED
    BY <2>1, <2>2
<1>7. ASSUME NEW c \in Clients, Connect(c) PROVE Goal
  BY <1>0, <1>7 DEF Connect
<1>8. ASSUME NEW c \in Clients, ClientSends(c) PROVE Goal
  <2>1. peer' = peer /\ e \in events
    BY <1>8 DEF ClientSends, server
  <2>2. unread[e] > 0 => unread'[e] > 0
    BY <1>8, SMT DEF ClientSends, Types
  <2> QED
    BY <1>0, <2>1, <2>2
<1>9. ASSUME NEW c \in Clients, ClientReads(c) PROVE Goal
  BY <1>0, <1>9 DEF ClientReads, server
<1>10. ASSUME NEW c \in Clients, ClientLeaves(c) PROVE Goal
  <2>1. unread' = unread /\ e \in events
    BY <1>10 DEF ClientLeaves, server
  <2>2. peer[e] # "open" => peer'[e] # "open"
    BY <1>10, SMT DEF ClientLeaves, Types
  <2> QED
    BY <1>0, <2>1, <2>2
<1>11. CASE UNCHANGED vars
  BY <1>0, <1>11 DEF vars, server
<1> QED
  BY <1>1, <1>2, <1>3, <1>4, <1>5, <1>6, <1>7, <1>8, <1>9, <1>10, <1>11
  DEF Next, Server, RecvFails

(* CHK: what a failing call means. *)
LEMMA EndsStep ==
  Types /\ NobodyYet /\ Hearing /\ EventsPollable /\ EndsOnlyOfSend /\ [Next]_vars
    => EndsOnlyOfSend'
<1> DEFINE Cause == \/ \A c \in Clients : conn[c] = "none"
                    \/ \E c \in Clients :
                         peer[c] \in {"gone", "reset"} \/ outgoing[c] = SendBuf
<1> SUFFICES ASSUME Types, NobodyYet, Hearing, EventsPollable, EndsOnlyOfSend,
                    [Next]_vars, at' = "dead"
             PROVE  Cause'
  BY Zenon DEF EndsOnlyOfSend
<1>1. ASSUME conn' = conn, peer' = peer, outgoing' = outgoing, Cause
      PROVE  Cause'
  BY <1>1, Zenon
<1>2. ASSUME Die, Cause PROVE Cause'
  BY <1>1, <1>2 DEF Die
<1>3. CASE Start
  <2>1. Cause
    BY <1>3 DEF Start, NobodyYet
  <2> QED
    BY <1>1, <1>3, <2>1 DEF Start
<1>4. ASSUME NEW x, Handled(x) PROVE FALSE
  BY <1>4 DEF Handled
<1>5. CASE Accept
  <2>1. Len(queue) > 0
    BY <1>5, SMT DEF Accept, Hearing, Flag, Types
  <2>2. queue # <<>>
    BY <2>1, SMT DEF Types
  <2> QED
    BY <1>4, <1>5, <2>2 DEF Accept
<1>6. ASSUME NEW c \in Clients, RecvClosed(c) PROVE Cause'
  BY <1>4, <1>6 DEF RecvClosed
<1>7. ASSUME NEW c \in Clients, RecvFails(c) PROVE Cause'
  <2>1. Die /\ c \in events /\ unread[c] = 0 /\ peer[c] \in {"open", "reset"}
    BY <1>7 DEF RecvFails
  <2>2. ~(unread[c] > 0)
    BY <2>1, SMT
  <2>3. peer[c] = "reset"
    BY <2>1, <2>2 DEF EventsPollable
  <2> QED
    BY <1>2, <2>1, <2>3
<1>8. ASSUME NEW c \in Clients, RecvBlock(c) PROVE Cause'
  <2>1. PICK r \in Receivers(c) : SendFails(r)
    BY <1>4, <1>8 DEF RecvBlock
  <2>2. Die /\ r \in Clients
    BY <1>8, <2>1, ReceiversType DEF RecvBlock
  <2>3. Cause
    BY <2>1, <2>2, Zenon DEF SendFails
  <2> QED
    BY <1>2, <2>2, <2>3
<1>9. ASSUME NEW c \in Clients,
             \/ Connect(c) \/ ClientSends(c) \/ ClientReads(c)
             \/ ClientLeaves(c)
      PROVE  FALSE
  BY <1>9 DEF Connect, ClientSends, ClientReads, ClientLeaves, Connected, server
<1>10. CASE EpollWait
  BY <1>10 DEF EpollWait
<1>11. CASE UNCHANGED vars
  <2>1. Cause
    BY <1>11 DEF vars, server, EndsOnlyOfSend
  <2> QED
    BY <1>1, <1>11, <2>1 DEF vars, server
<1> QED
  BY <1>3, <1>5, <1>6, <1>7, <1>8, <1>9, <1>10, <1>11 DEF Next, Server

(* The server ends at its start, or because a client left with blocks       *)
(* unread, left and was sent to, or does not read, and for no other reason. *)
THEOREM EndsOnlyOfSendCorrect == Spec => []EndsOnlyOfSend
<1>1. Init => EndsOnlyOfSend
  BY DEF Init, EndsOnlyOfSend
<1> QED
  BY <1>1, InitAll, TypesStep, LoopStep, ListenerStep, EventsStep, EndsStep, PTL
  DEF Spec
-------------------------------------------------------------------------------
(* The things that wait on a connection. *)
Waits(c) == unread[c] + Flag(peer[c] # "open")

(* A step that brings a connection nothing and takes no event of it. *)
LEMMA TellsNothingNew ==
  ASSUME Types, ClientTold, NEW e \in Clients, Types',
         conn'[e] = "open" /\ e \notin merged',
         conn[e] = "open" /\ e \notin merged,
         unread'[e] <= unread[e],
         (peer'[e] # "open") <=> (peer[e] # "open"),
         e \in ready => e \in ready',
         e \in events => e \in events'
  PROVE  Waits(e)' <= Told(e)'
<1>1. unread[e] \in Nat /\ unread'[e] \in Nat
  BY Zenon DEF Types
<1>2. Waits(e) <= Told(e)
  BY DEF ClientTold, Waits
<1> QED
  BY <1>1, <1>2, SMT DEF Waits, Told, Flag

(* Something arrives, at this connection or another. *)
LEMMA NotifiesTells ==
  ASSUME Types, NEW c \in Clients, Notifies(c)
  PROVE  /\ ready \subseteq ready' /\ merged \subseteq merged'
         /\ conn[c] = "open" => c \in ready'
         /\ conn[c] = "open" /\ c \notin merged' => c \notin ready
BY Zenon DEF Notifies, Arrives

LEMMA ClientToldStep ==
  Types /\ Types' /\ AllHandled /\ ClientTold /\ [Next]_vars => ClientTold'
<1> SUFFICES ASSUME Types, Types', AllHandled, ClientTold, [Next]_vars,
                    NEW e \in Clients, conn'[e] = "open", e \notin merged'
             PROVE  Waits(e)' <= Told(e)'
  BY Zenon DEF ClientTold, Waits
<1> DEFINE Goal == Waits(e)' <= Told(e)'
<1>0. /\ unread[e] \in Nat /\ unread'[e] \in Nat /\ e # Listener
      /\ conn[e] = "open" /\ e \notin merged => Waits(e) <= Told(e)
  BY EpollAssumption, Zenon DEF Types, ClientTold, Waits
<1>1. ASSUME conn' = conn, peer' = peer, unread' = unread, ready' = ready,
             events' = events, merged' = merged
      PROVE  Goal
  BY <1>0, <1>1, SMT DEF Waits, Told, Flag
<1>2. CASE Start
  BY <1>1, <1>2 DEF Start
<1>3. CASE Die
  BY <1>1, <1>3 DEF Die
<1>4. CASE EpollWait
  <2>1. /\ events = {} /\ ready' = {} /\ merged' = merged /\ conn' = conn
        /\ unread' = unread /\ peer' = peer
        /\ events' = {x \in ready : Pollable(x)}
    BY <1>4 DEF EpollWait, AllHandled
  <2>2. CASE Pollable(e)
    <3>1. e \in events' <=> e \in ready
      BY <2>1, <2>2
    <3> QED
      BY <1>0, <2>1, <3>1, SMT DEF Waits, Told, Flag
  <2>3. CASE ~Pollable(e)
    <3>1. ~(unread[e] > 0) /\ peer[e] = "open"
      BY <1>0, <2>3 DEF Pollable
    <3> QED
      BY <1>0, <2>1, <3>1, SMT DEF Waits, Told, Flag
  <2> QED
    BY <2>2, <2>3
<1>5. CASE Accept
  <2>1. CASE queue = <<>>
    BY <1>3, <1>5, <2>1 DEF Accept
  <2>2. CASE queue # <<>>
    <3>1. PICK c : c = Head(queue)
      OBVIOUS
    <3>2. /\ SendTo({c}) /\ unread' = unread
          /\ conn' = [conn EXCEPT ![c] = "open"]
          /\ ready' = IF Pollable(c) THEN ready \cup {c} ELSE ready
          /\ merged' = IF ComesMerged(c) THEN merged \cup {c} ELSE merged
          /\ events' = events \ {Listener}
      BY <1>5, <2>2, <3>1 DEF Accept, Handled
    <3>3. (peer'[e] # "open") <=> (peer[e] # "open")
      BY <3>2, SendToPeer
    <3>4. CASE e = c
      <4>1. ~ComesMerged(e)
        BY <3>2, <3>4, Zenon
      <4>2. Pollable(e) => e \in ready'
        BY <3>2, <3>4, Zenon
      <4> QED
        BY <1>0, <3>2, <3>3, <4>1, <4>2, SMT
        DEF Waits, Told, Flag, ComesMerged, Pollable
    <3>5. CASE e # c
      <4>1. conn[e] = "open"
        BY <3>2, <3>5, Zenon DEF Types
      <4>2. e \notin merged /\ (e \in ready => e \in ready')
        BY <3>2, Zenon
      <4>3. e \in events => e \in events'
        BY <1>0, <3>2, Zenon
      <4>4. unread'[e] <= unread[e]
        BY <1>0, <3>2, SMT
      <4> QED
        BY <3>3, <4>1, <4>2, <4>3, <4>4, TellsNothingNew
    <3> QED
      BY <3>4, <3>5
  <2> QED
    BY <2>1, <2>2
<1>6. ASSUME NEW c \in Clients, RecvClosed(c) PROVE Goal
  <2>1. e # c
    BY <1>6, Zenon DEF RecvClosed, Types
  <2>2. /\ conn[e] = "open" /\ e \notin merged
        /\ e \in ready => e \in ready'
        /\ e \in events => e \in events'
        /\ peer' = peer /\ unread' = unread
    BY <1>6, <2>1, Zenon DEF RecvClosed, Handled, Types
  <2>3. unread'[e] <= unread[e]
    BY <1>0, <2>2, SMT
  <2> QED
    BY <2>2, <2>3, TellsNothingNew
<1>7. ASSUME NEW c \in Clients, RecvBlock(c) PROVE Goal
  <2>1. CASE \E r \in Receivers(c) : SendFails(r)
    BY <1>3, <1>7, <2>1 DEF RecvBlock
  <2>2. CASE ~\E r \in Receivers(c) : SendFails(r)
    <3>1. /\ SendTo(Receivers(c)) /\ conn' = conn /\ events' = events \ {c}
          /\ unread' = [unread EXCEPT ![c] = IF @ > Chunk THEN @ - Chunk ELSE 0]
          /\ ready \subseteq ready' /\ merged \subseteq merged'
          /\ unread[c] > 0
      BY <1>7, <2>2, Zenon DEF RecvBlock, Handled
    <3>2. (peer'[e] # "open") <=> (peer[e] # "open")
      BY <3>1, SendToPeer
    <3>3. conn[e] = "open" /\ e \notin merged /\ (e \in ready => e \in ready')
      BY <3>1, Zenon
    <3>4. CASE e = c
      <4>1. unread'[e] <= unread[e] - 1
        BY <1>0, <3>1, <3>4, EpollAssumption, SMT DEF Types
      <4> QED
        BY <1>0, <3>2, <3>3, <4>1, SMT DEF Waits, Told, Flag
    <3>5. CASE e # c
      <4>1. unread'[e] = unread[e]
        BY <3>1, <3>5, Zenon DEF Types
      <4>2. unread'[e] <= unread[e]
        BY <1>0, <4>1, SMT
      <4>3. e \in events => e \in events'
        BY <3>1, <3>5, Zenon
      <4> QED
        BY <3>2, <3>3, <4>2, <4>3, TellsNothingNew
    <3> QED
      BY <3>4, <3>5
  <2> QED
    BY <2>1, <2>2
<1>8. ASSUME NEW c \in Clients, Connect(c) PROVE Goal
  <2>1. e # c
    BY <1>8, Zenon DEF Connect, Types
  <2>2. /\ conn[e] = "open" /\ e \notin merged
        /\ e \in ready => e \in ready'
        /\ events' = events /\ peer' = peer /\ unread' = unread
    BY <1>8, <2>1, Zenon DEF Connect, Arrives, Types
  <2>3. unread'[e] <= unread[e]
    BY <1>0, <2>2, SMT
  <2> QED
    BY <2>2, <2>3, TellsNothingNew
<1>9. ASSUME NEW c \in Clients, ClientSends(c) PROVE Goal
  <2>1. /\ Notifies(c) /\ conn' = conn /\ events' = events /\ peer' = peer
        /\ unread' = [unread EXCEPT ![c] = @ + 1]
    BY <1>9 DEF ClientSends, server
  <2>2. conn[e] = "open" /\ e \notin merged /\ (e \in ready => e \in ready')
    BY <2>1, NotifiesTells, Zenon
  <2>3. CASE e = c
    <3>1. e \in ready' /\ e \notin ready
      BY <2>1, <2>2, <2>3, NotifiesTells
    <3>2. unread'[e] = unread[e] + 1
      BY <2>1, <2>3, Zenon DEF Types
    <3> QED
      BY <1>0, <2>1, <2>2, <3>1, <3>2, SMT DEF Waits, Told, Flag
  <2>4. CASE e # c
    <3>1. unread'[e] = unread[e]
      BY <2>1, <2>4, Zenon DEF Types
    <3>2. unread'[e] <= unread[e]
      BY <1>0, <3>1, SMT
    <3> QED
      BY <2>1, <2>2, <3>2, TellsNothingNew
  <2> QED
    BY <2>3, <2>4
<1>10. ASSUME NEW c \in Clients, ClientReads(c) PROVE Goal
  BY <1>1, <1>10 DEF ClientReads, server
<1>11. ASSUME NEW c \in Clients, ClientLeaves(c) PROVE Goal
  <2>1. /\ Notifies(c) /\ conn' = conn /\ events' = events /\ unread' = unread
        /\ peer[c] = "open"
        /\ peer' = [peer EXCEPT ![c] = IF outgoing[c] > 0 THEN "reset" ELSE "fin"]
    BY <1>11 DEF ClientLeaves, Connected, server
  <2>2. conn[e] = "open" /\ e \notin merged /\ (e \in ready => e \in ready')
    BY <2>1, NotifiesTells, Zenon
  <2>3. CASE e = c
    <3>1. e \in ready' /\ e \notin ready
      BY <2>1, <2>2, <2>3, NotifiesTells
    <3> QED
      BY <1>0, <2>1, <2>2, <2>3, <3>1, SMT DEF Waits, Told, Flag
  <2>4. CASE e # c
    <3>1. peer'[e] = peer[e]
      BY <2>1, <2>4, Zenon DEF Types
    <3>2. unread'[e] <= unread[e]
      BY <1>0, <2>1, SMT
    <3> QED
      BY <2>1, <2>2, <3>1, <3>2, TellsNothingNew
  <2> QED
    BY <2>3, <2>4
<1>12. CASE UNCHANGED vars
  BY <1>1, <1>12 DEF vars, server
<1> QED
  BY <1>2, <1>3, <1>4, <1>5, <1>6, <1>7, <1>8, <1>9, <1>10, <1>11, <1>12
  DEF Next, Server, RecvFails

(* One accept or recv per event is enough except where two things arrived   *)
(* for one event: whatever else is there when the loop waits is reported by *)
(* the next epoll_wait.                                                     *)
THEOREM OverlookedNeedsMergeCorrect == Spec => []OverlookedNeedsMerge
<1>1. ASSUME Types, AllHandled, ListenerTold, ClientTold
      PROVE  OverlookedNeedsMerge
  <2> SUFFICES ASSUME at = "wait", NEW x \in Sockets, Pending(x),
                      x \notin ready, x \notin merged
               PROVE  FALSE
    BY DEF OverlookedNeedsMerge
  <2>1. Told(x) = 0
    BY <1>1, SMT DEF AllHandled, Told, Flag
  <2>2. CASE x = Listener
    <3>1. queue # <<>> /\ queue \in Seq(Clients)
      BY <1>1, <2>2 DEF Pending, Pollable, Types
    <3>2. Len(queue) > 0
      BY <3>1, SMT
    <3> QED
      BY <1>1, <2>1, <2>2, <3>2, SMT DEF ListenerTold
  <2>3. CASE x # Listener
    <3>1. x \in Clients /\ conn[x] = "open"
          /\ (unread[x] > 0 \/ peer[x] # "open")
      BY <2>3 DEF Sockets, Pending, Pollable
    <3>2. unread[x] \in Nat /\ Waits(x) <= Told(x)
      BY <1>1, <3>1, Zenon DEF Types, ClientTold, Waits
    <3> QED
      BY <2>1, <3>1, <3>2, SMT DEF Waits, Flag
  <2> QED
    BY <2>2, <2>3
<1> QED
  BY <1>1, InitAll, TypesStep, LoopStep, ListenerStep, ClientToldStep, PTL
  DEF Spec
-------------------------------------------------------------------------------
(* epoll and clients_list hold open connections only. *)
OpenOnly ==
  \A c \in Clients : c \in ready \cup events \cup clients_list => conn[c] = "open"

(* The kernel's queue holds each connection once, and a connection is sent  *)
(* nothing before it is accepted.                                           *)
QueueFresh ==
  /\ \A k \in 1 .. Len(queue) : conn[queue[k]] = "queued"
  /\ \A k, l \in 1 .. Len(queue) : queue[k] = queue[l] => k = l
  /\ \A c \in Clients : conn[c] \in {"none", "queued"} => outgoing[c] = 0

Bounded == \A c \in Clients : outgoing[c] <= SendBuf

LEMMA OpenStep == Types /\ OpenOnly /\ [Next]_vars => OpenOnly'
<1> SUFFICES ASSUME Types, OpenOnly, [Next]_vars, NEW e \in Clients,
                    e \in ready' \cup events' \cup clients_list'
             PROVE  conn'[e] = "open"
  BY Zenon DEF OpenOnly
<1>0. e \in ready \cup events \cup clients_list => conn[e] = "open"
  BY DEF OpenOnly
<1>1. CASE Start
  BY <1>0, <1>1 DEF Start
<1>2. CASE EpollWait
  BY <1>0, <1>2, Zenon DEF EpollWait
<1>3. CASE Die
  BY <1>0, <1>3 DEF Die
<1>4. CASE Accept
  <2>1. CASE queue = <<>>
    BY <1>3, <1>4, <2>1 DEF Accept
  <2>2. CASE queue # <<>>
    <3>1. PICK c : c = Head(queue)
      OBVIOUS
    <3>2. /\ conn' = [conn EXCEPT ![c] = "open"]
          /\ ready' = IF Pollable(c) THEN ready \cup {c} ELSE ready
          /\ clients_list' = clients_list \cup {c}
          /\ events' = events \ {Listener}
      BY <1>4, <2>2, <3>1 DEF Accept, Handled
    <3>3. CASE e = c
      BY <3>2, <3>3, Zenon DEF Types
    <3>4. CASE e # c
      <4>1. e \in ready \cup events \cup clients_list
        BY <3>2, <3>4, Zenon
      <4> QED
        BY <1>0, <3>2, <3>4, <4>1, Zenon DEF Types
    <3> QED
      BY <3>3, <3>4
  <2> QED
    BY <2>1, <2>2
<1>5. ASSUME NEW c \in Clients, RecvClosed(c) PROVE conn'[e] = "open"
  <2>1. e # c /\ e \in ready \cup events \cup clients_list
    BY <1>5, Zenon DEF RecvClosed, Handled
  <2> QED
    BY <1>0, <1>5, <2>1, Zenon DEF RecvClosed, Types
<1>6. ASSUME NEW c \in Clients, RecvBlock(c) PROVE conn'[e] = "open"
  <2>1. CASE \E r \in Receivers(c) : SendFails(r)
    BY <1>3, <1>6, <2>1 DEF RecvBlock
  <2>2. CASE ~\E r \in Receivers(c) : SendFails(r)
    <3>1. /\ conn' = conn /\ clients_list' = clients_list
          /\ ready' = ready \cup Left(Receivers(c))
          /\ events' = events \ {c} /\ c \in events
      BY <1>6, <2>2 DEF RecvBlock, Handled
    <3>2. Left(Receivers(c)) \subseteq clients_list \cup events
      BY <3>1, Zenon DEF Left, Receivers
    <3>3. e \in ready \cup events \cup clients_list
      BY <3>1, <3>2, Zenon
    <3> QED
      BY <1>0, <3>1, <3>3
  <2> QED
    BY <2>1, <2>2
<1>7. ASSUME NEW c \in Clients, Connect(c) PROVE conn'[e] = "open"
  <2>1. e # Listener /\ conn[c] = "none"
    BY <1>7, EpollAssumption DEF Connect
  <2>2. e \in ready \cup events \cup clients_list
    BY <1>7, <2>1, Zenon DEF Connect, Arrives
  <2>3. e # c
    BY <1>0, <2>1, <2>2
  <2> QED
    BY <1>0, <1>7, <2>2, <2>3, Zenon DEF Connect, Types
<1>8. ASSUME NEW c \in Clients, Notifies(c), conn' = conn, events' = events,
             clients_list' = clients_list
      PROVE  conn'[e] = "open"
  <2>1. CASE conn[c] = "open"
    <3>1. ready' = ready \cup {c}
      BY <1>8, <2>1 DEF Notifies, Arrives
    <3> QED
      BY <1>0, <1>8, <2>1, <3>1, Zenon
  <2>2. CASE conn[c] # "open"
    BY <1>0, <1>8, <2>2 DEF Notifies
  <2> QED
    BY <2>1, <2>2
<1>9. ASSUME NEW c \in Clients,
             ClientSends(c) \/ ClientReads(c) \/ ClientLeaves(c)
      PROVE  conn'[e] = "open"
  BY <1>0, <1>8, <1>9 DEF ClientSends, ClientReads, ClientLeaves, server
<1>10. CASE UNCHANGED vars
  BY <1>0, <1>10 DEF vars, server
<1> QED
  BY <1>1, <1>2, <1>3, <1>4, <1>5, <1>6, <1>7, <1>9, <1>10
  DEF Next, Server, RecvFails

LEMMA BufferStep ==
  Types /\ OpenOnly /\ QueueFresh /\ Bounded /\ [Next]_vars
    => QueueFresh' /\ Bounded'
<1> SUFFICES ASSUME Types, OpenOnly, QueueFresh, Bounded, [Next]_vars
             PROVE  QueueFresh' /\ Bounded'
  OBVIOUS
<1>0. SendBuf \in Nat \ {0}
  BY EpollAssumption
<1>1. ASSUME queue' = queue, conn' = conn, outgoing' = outgoing
      PROVE  QueueFresh' /\ Bounded'
  BY <1>1 DEF QueueFresh, Bounded
<1>2. CASE Accept
  <2>1. CASE queue = <<>>
    BY <1>1, <1>2, <2>1 DEF Accept, Die
  <2>2. CASE queue # <<>>
    <3>1. PICK c : c = Head(queue)
      OBVIOUS
    <3>2. /\ conn' = [conn EXCEPT ![c] = "open"]
          /\ queue' = Tail(queue)
          /\ SendTo({c})
      BY <1>2, <2>2, <3>1 DEF Accept
    <3>3. /\ c \in Clients /\ c = queue[1] /\ Len(queue) \in Nat /\ 1 <= Len(queue)
          /\ Len(queue') = Len(queue) - 1
          /\ \A k \in 1 .. Len(queue') :
               queue'[k] = queue[k + 1] /\ queue[k + 1] \in Clients
      BY <2>2, <3>1, <3>2, SMT DEF Types
    <3>4. outgoing[c] = 0
      BY <3>3, SMT DEF QueueFresh
    <3>5. \A e \in Clients : outgoing'[e] = outgoing[e]
                             \/ (e = c /\ outgoing'[e] = outgoing[e] + 1)
      BY <3>2, Zenon DEF SendTo
    <3>6. Bounded'
      <4> SUFFICES ASSUME NEW e \in Clients PROVE outgoing'[e] <= SendBuf
        BY DEF Bounded
      <4>1. CASE e = c
        BY <1>0, <3>4, <3>5, <4>1, SMT
      <4>2. CASE e # c
        BY <3>5, <4>2, Zenon DEF Bounded
      <4> QED
        BY <4>1, <4>2
    <3>7. ASSUME NEW k \in 1 .. Len(queue') PROVE conn'[queue'[k]] = "queued"
      <4>1. k + 1 \in 1 .. Len(queue) /\ k + 1 # 1 /\ 1 \in 1 .. Len(queue)
        BY <3>3, SMT
      <4>2. queue[k + 1] # c /\ conn[queue[k + 1]] = "queued"
        BY <3>3, <4>1 DEF QueueFresh
      <4> QED
        BY <3>2, <3>3, <4>2, Zenon DEF Types
    <3>8. ASSUME NEW k \in 1 .. Len(queue'), NEW l \in 1 .. Len(queue'),
                 queue'[k] = queue'[l]
          PROVE  k = l
      <4>1. k + 1 \in 1 .. Len(queue) /\ l + 1 \in 1 .. Len(queue)
        BY <3>3, SMT
      <4>2. k + 1 = l + 1
        BY <3>3, <3>8, <4>1 DEF QueueFresh
      <4> QED
        BY <4>2, SMT
    <3>9. ASSUME NEW e \in Clients, conn'[e] \in {"none", "queued"}
          PROVE  outgoing'[e] = 0
      <4>1. e # c /\ conn'[e] = conn[e]
        BY <3>2, <3>3, <3>9, Zenon DEF Types
      <4> QED
        BY <3>5, <3>9, <4>1 DEF QueueFresh
    <3> QED
      BY <3>6, <3>7, <3>8, <3>9 DEF QueueFresh
  <2> QED
    BY <2>1, <2>2
<1>3. ASSUME NEW c \in Clients, RecvClosed(c) PROVE QueueFresh' /\ Bounded'
  <2>1. /\ conn' = [conn EXCEPT ![c] = "closed"] /\ queue' = queue
        /\ outgoing' = outgoing /\ c \in events
    BY <1>3 DEF RecvClosed
  <2>2. conn[c] = "open"
    BY <2>1 DEF OpenOnly
  <2>3. \A k \in 1 .. Len(queue) : conn'[queue[k]] = "queued"
    <3> SUFFICES ASSUME NEW k \in 1 .. Len(queue)
                 PROVE  conn'[queue[k]] = "queued"
      OBVIOUS
    <3>1. queue[k] \in Clients
      BY SMT DEF Types
    <3>2. conn[queue[k]] = "queued"
      BY DEF QueueFresh
    <3> QED
      BY <2>1, <2>2, <3>1, <3>2, Zenon DEF Types
  <2>4. \A e \in Clients : conn'[e] \in {"none", "queued"} => conn'[e] = conn[e]
    BY <2>1, Zenon DEF Types
  <2> QED
    BY <2>1, <2>3, <2>4 DEF QueueFresh, Bounded
<1>4. ASSUME NEW c \in Clients, RecvBlock(c) PROVE QueueFresh' /\ Bounded'
  <2>1. CASE \E r \in Receivers(c) : SendFails(r)
    BY <1>1, <1>4, <2>1 DEF RecvBlock, Die
  <2>2. CASE ~\E r \in Receivers(c) : SendFails(r)
    <3>1. /\ SendTo(Receivers(c)) /\ queue' = queue /\ conn' = conn
          /\ c \in events
      BY <1>4, <2>2 DEF RecvBlock
    <3>2. \A r \in Receivers(c) : r \in Clients /\ conn[r] = "open"
      BY <3>1, ReceiversType, Zenon DEF Receivers, OpenOnly
    <3>3. ASSUME NEW e \in Clients
          PROVE  \/ outgoing'[e] = outgoing[e]
                 \/ /\ outgoing'[e] = outgoing[e] + 1
                    /\ outgoing[e] # SendBuf
                    /\ conn[e] = "open"
      BY <2>2, <3>1, <3>2, Zenon DEF SendTo, SendFails
    <3>4. Bounded'
      BY <1>0, <3>3, SMT DEF Bounded, Types
    <3>5. \A e \in Clients : conn[e] \in {"none", "queued"}
                               => outgoing'[e] = outgoing[e]
      BY <3>3
    <3> QED
      BY <3>1, <3>4, <3>5 DEF QueueFresh
  <2> QED
    BY <2>1, <2>2
<1>5. ASSUME NEW c \in Clients, Connect(c) PROVE QueueFresh' /\ Bounded'
  <2>1. /\ conn[c] = "none" /\ conn' = [conn EXCEPT ![c] = "queued"]
        /\ queue' = Append(queue, c) /\ outgoing' = outgoing
    BY <1>5 DEF Connect
  <2>2. /\ Len(queue) \in Nat /\ Len(queue') = Len(queue) + 1
        /\ queue'[Len(queue) + 1] = c
        /\ \A k \in 1 .. Len(queue) : queue'[k] = queue[k] /\ queue[k] \in Clients
    BY <2>1, SMT DEF Types
  <2>3. \A k \in 1 .. Len(queue) : queue[k] # c /\ conn[queue[k]] = "queued"
    BY <2>1 DEF QueueFresh
  <2>4. ASSUME NEW k \in 1 .. Len(queue') PROVE conn'[queue'[k]] = "queued"
    <3>1. k \in 1 .. Len(queue) \/ k = Len(queue) + 1
      BY <2>2, SMT
    <3>2. CASE k \in 1 .. Len(queue)
      BY <2>1, <2>2, <2>3, <3>2, Zenon DEF Types
    <3>3. CASE k = Len(queue) + 1
      BY <2>1, <2>2, <3>3, Zenon DEF Types
    <3> QED
      BY <3>1, <3>2, <3>3
  <2>5. ASSUME NEW k \in 1 .. Len(queue'), NEW l \in 1 .. Len(queue'),
               queue'[k] = queue'[l]
        PROVE  k = l
    <3>1. k \in 1 .. Len(queue) \/ k = Len(queue) + 1
      BY <2>2, SMT
    <3>2. l \in 1 .. Len(queue) \/ l = Len(queue) + 1
      BY <2>2, SMT
    <3>3. CASE k \in 1 .. Len(queue) /\ l \in 1 .. Len(queue)
      <4>1. queue[k] = queue[l]
        BY <2>2, <2>5, <3>3, Zenon
      <4> QED
        BY <3>3, <4>1, Zenon DEF QueueFresh
    <3>4. CASE k = Len(queue) + 1 /\ l \in 1 .. Len(queue)
      <4>1. queue'[k] = c /\ queue'[l] = queue[l] /\ queue[l] # c
        BY <2>2, <2>3, <3>4
      <4> QED
        BY <2>5, <4>1
    <3>5. CASE l = Len(queue) + 1 /\ k \in 1 .. Len(queue)
      <4>1. queue'[l] = c /\ queue'[k] = queue[k] /\ queue[k] # c
        BY <2>2, <2>3, <3>5
      <4> QED
        BY <2>5, <4>1
    <3> QED
      BY <3>1, <3>2, <3>3, <3>4, <3>5
  <2>6. \A e \in Clients : conn'[e] \in {"none", "queued"} => outgoing'[e] = 0
    BY <2>1, Zenon DEF QueueFresh, Types
  <2> QED
    BY <2>1, <2>4, <2>5, <2>6 DEF QueueFresh, Bounded
<1>6. ASSUME NEW c \in Clients, ClientReads(c) PROVE QueueFresh' /\ Bounded'
  <2>1. /\ conn' = conn /\ queue' = queue /\ outgoing[c] > 0
        /\ outgoing' = [outgoing EXCEPT ![c] = @ - 1]
    BY <1>6 DEF ClientReads, server
  <2>2. \A e \in Clients : outgoing'[e] <= outgoing[e] /\ outgoing'[e] \in Nat
                           /\ outgoing[e] \in Nat
    BY <2>1, SMT DEF Types
  <2>3. Bounded'
    BY <1>0, <2>2, SMT DEF Bounded
  <2>4. ASSUME NEW e \in Clients, conn[e] \in {"none", "queued"}
        PROVE  outgoing'[e] = 0
    <3>1. outgoing[e] = 0
      BY <2>4 DEF QueueFresh
    <3> QED
      BY <2>2, <3>1, SMT
  <2> QED
    BY <2>1, <2>3, <2>4 DEF QueueFresh
<1>7. CASE Start \/ EpollWait
  BY <1>1, <1>7 DEF Start, EpollWait
<1>8. ASSUME NEW c \in Clients, RecvFails(c) \/ ClientSends(c) \/ ClientLeaves(c)
      PROVE  QueueFresh' /\ Bounded'
  BY <1>1, <1>8 DEF RecvFails, Die, ClientSends, ClientLeaves, server
<1>9. CASE UNCHANGED vars
  BY <1>1, <1>9 DEF vars, server
<1> QED
  BY <1>2, <1>3, <1>4, <1>5, <1>6, <1>7, <1>8, <1>9 DEF Next, Server

(* Types, the bound of the kernel's buffers included: the welcome goes to   *)
(* an empty one, and a block only where no send fails.                      *)
THEOREM TypeCorrect == Spec => []TypeOK
<1>1. Init => OpenOnly /\ QueueFresh /\ Bounded
  <2> SUFFICES ASSUME Init PROVE OpenOnly /\ QueueFresh /\ Bounded
    OBVIOUS
  <2>1. OpenOnly
    BY DEF Init, OpenOnly
  <2>2. QueueFresh
    BY SMT DEF Init, QueueFresh
  <2>3. Bounded
    BY EpollAssumption, SMT DEF Init, Bounded
  <2> QED
    BY <2>1, <2>2, <2>3
<1>2. Types /\ Bounded => TypeOK
  <2> SUFFICES ASSUME Types, Bounded PROVE TypeOK
    OBVIOUS
  <2>1. outgoing \in [Clients -> 0 .. SendBuf]
    BY EpollAssumption, SMT DEF Types, Bounded
  <2> QED
    BY <2>1 DEF Types, TypeOK
<1> QED
  BY <1>1, <1>2, InitAll, TypesStep, OpenStep, BufferStep, PTL DEF Spec
===============================================================================
