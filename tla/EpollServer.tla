------------------------------ MODULE EpollServer -----------------------------
(***************************************************************************)
(* epollserver.cpp: a chat server of one thread over edge-triggered epoll, *)
(* and the clients that connect, send, read and leave around it.           *)
(*                                                                         *)
(* Edge-triggered: the kernel puts a descriptor on the ready list when     *)
(* something arrives there, and epoll_wait takes it off again, whether or  *)
(* not all that has arrived is then read.  The loop calls accept or recv   *)
(* once per event.  Messages are blocks of BUF_SIZE; the ids of clients    *)
(* stand for the descriptors of their connections.                         *)
(***************************************************************************)
EXTENDS Naturals, Sequences, FiniteSets

CONSTANTS
  Clients,   \* the connections that are made, one a client
  Listener,  \* the listening socket
  Capacity,  \* connections the kernel queues, 2 for listen(listener, 1)
  Chunk,     \* blocks a recv of BUF_SIZE takes: 1, or more if they are short
  SendBuf,   \* blocks the kernel holds for a client that does not read
  MaxSends   \* bound: blocks the clients send

ASSUME EpollAssumption ==
  /\ Listener \notin Clients
  /\ Capacity \in Nat \ {0}
  /\ Chunk \in Nat \ {0}
  /\ SendBuf \in Nat \ {0}
  /\ MaxSends \in Nat

Sockets == Clients \cup {Listener}

VARIABLES
  at,       \* "start", the loop's "wait" and "handle", or "dead"
  queue,    \* connections waiting for accept
  ready,    \* the kernel's ready list of epfd
  events,   \* what epoll_wait returned and the loop has not handled yet
  clients_list,
  conn,     \* each connection, seen from the server
  peer,     \* the client's end: "fin" after a close; "gone" if something was
            \* sent there since; "reset" after a close with blocks unread
  unread,   \* blocks received from a client and not yet read
  sent,     \* blocks the clients have sent
  outgoing, \* blocks sent to a client and not yet read by it
  merged    \* history: sockets where something arrived while it was ready

server == <<at, queue, events, clients_list, conn>>
vars == <<server, ready, peer, unread, sent, outgoing, merged>>

TypeOK ==
  /\ at \in {"start", "wait", "handle", "dead"}
  /\ queue \in Seq(Clients)
  /\ ready \subseteq Sockets
  /\ events \subseteq Sockets
  /\ clients_list \subseteq Clients
  /\ conn \in [Clients -> {"none", "queued", "open", "closed"}]
  /\ peer \in [Clients -> {"open", "fin", "gone", "reset"}]
  /\ unread \in [Clients -> Nat]
  /\ sent \in 0 .. MaxSends
  /\ outgoing \in [Clients -> 0 .. SendBuf]
  /\ merged \subseteq Sockets

Init ==
  /\ at = "start"
  /\ queue = <<>>
  /\ ready = {}
  /\ events = {}
  /\ clients_list = {}
  /\ conn = [c \in Clients |-> "none"]
  /\ peer = [c \in Clients |-> "open"]
  /\ unread = [c \in Clients |-> 0]
  /\ sent = 0
  /\ outgoing = [c \in Clients |-> 0]
  /\ merged = {}
-------------------------------------------------------------------------------
(* What a poll of the socket would find: the reason to report an event. *)
Pollable(x) ==
  IF x = Listener THEN queue # <<>> ELSE unread[x] > 0 \/ peer[x] # "open"

(* The kernel wakes x up: it is put on the ready list, where it may be      *)
(* already.                                                                 *)
Arrives(x) ==
  /\ ready' = ready \cup {x}
  /\ merged' = IF x \in ready THEN merged \cup {x} ELSE merged

(* socket, bind, listen and epoll_create, each behind CHK. *)
Start ==
  /\ at = "start"
  /\ at' \in {"wait", "dead"}
  /\ UNCHANGED <<queue, events, clients_list, conn, ready, peer, unread, sent,
                 outgoing, merged>>

(* epoll_wait blocks until something is ready, and empties the list; what   *)
(* is not readable any more is left out.                                    *)
EpollWait ==
  /\ at = "wait"
  /\ \E x \in ready : Pollable(x)
  /\ at' = "handle"
  /\ events' = {x \in ready : Pollable(x)}
  /\ ready' = {}
  /\ UNCHANGED <<queue, clients_list, conn, peer, unread, sent, outgoing,
                 merged>>

(* Mutant: only the first event of a batch is handled. *)
HandledFirst(x) ==
  /\ events' = {}
  /\ at' = "wait"

(* The for loop has handled x and takes the next event.  Its order, that of *)
(* the arrivals, is left open.                                              *)
Handled(x) ==
  /\ events' = events \ {x}
  /\ at' = IF events = {x} THEN "wait" ELSE "handle"

(* Mutant: the descriptors were left blocking, or EAGAIN is not an error. *)
SendFailsOnce(c) == peer[c] \in {"gone", "reset"}

(* send fails: the client does not read, or its end is gone. *)
SendFails(c) ==
  \/ peer[c] \in {"gone", "reset"}
  \/ peer[c] = "open" /\ outgoing[c] = SendBuf

(* send to each of cs.  A client that has closed its end answers with a     *)
(* reset, which wakes its descriptor up.                                    *)
SendTo(cs) ==
  /\ outgoing' = [c \in Clients |->
                    IF c \in cs /\ peer[c] = "open" THEN outgoing[c] + 1
                                                    ELSE outgoing[c]]
  /\ peer' = [c \in Clients |->
                IF c \in cs /\ peer[c] = "fin" THEN "gone" ELSE peer[c]]

Left(cs) == {c \in cs : peer[c] = "fin"}

(* CHK: exit(-1). *)
Die ==
  /\ at' = "dead"
  /\ UNCHANGED <<queue, events, clients_list, conn, ready, peer, unread, sent,
                 outgoing, merged>>

(* Something arrived at x that no event handled so far has taken. *)
Pending(x) ==
  /\ at \notin {"start", "dead"}
  /\ x = Listener \/ conn[x] = "open"
  /\ Pollable(x)

(* More than one thing waits on a connection that epoll is told of. *)
ComesMerged(c) == unread[c] > 1 \/ (unread[c] > 0 /\ peer[c] # "open")

(* An event of the listener: accept once, EPOLL_CTL_ADD, which finds what   *)
(* is there already, and the welcome.                                       *)
Accept ==
  /\ at = "handle"
  /\ Listener \in events
  /\ IF queue = <<>>
       THEN Die
       ELSE LET c == Head(queue) IN
            /\ Handled(Listener)
            /\ queue' = Tail(queue)
            /\ conn' = [conn EXCEPT ![c] = "open"]
            /\ clients_list' = clients_list \cup {c}
            /\ SendTo({c})
            /\ ready' = IF Pollable(c) THEN ready \cup {c} ELSE ready
            /\ merged' = IF ComesMerged(c) THEN merged \cup {c} ELSE merged
            /\ UNCHANGED <<unread, sent>>

(* Mutant: the descriptor of a client that closed is kept. *)
RecvClosedKeeps(c) ==
  /\ at = "handle"
  /\ c \in events
  /\ unread[c] = 0
  /\ peer[c] \in {"fin", "gone"}
  /\ Handled(c)
  /\ UNCHANGED <<queue, clients_list, conn, ready, peer, unread, sent,
                 outgoing, merged>>

(* handle_message: recv gives 0.  close takes the socket out of epoll. *)
RecvClosed(c) ==
  /\ at = "handle"
  /\ c \in events
  /\ unread[c] = 0
  /\ peer[c] \in {"fin", "gone"}
  /\ Handled(c)
  /\ conn' = [conn EXCEPT ![c] = "closed"]
  /\ clients_list' = clients_list \ {c}
  /\ ready' = ready \ {c}
  /\ UNCHANGED <<queue, peer, unread, sent, outgoing, merged>>

(* recv gives -1: there is nothing to read, or the client left with blocks  *)
(* unread.                                                                  *)
RecvFails(c) ==
  /\ at = "handle"
  /\ c \in events
  /\ unread[c] = 0
  /\ peer[c] \in {"open", "reset"}
  /\ Die

(* Who is sent to: all others, or the sender if there is nobody else. *)
Receivers(c) ==
  IF Cardinality(clients_list) = 1 THEN {c} ELSE clients_list \ {c}

(* Mutant: recv is repeated until it fails, inside CHK2. *)
RecvBlockDrains(c) ==
  /\ at = "handle"
  /\ c \in events
  /\ unread[c] > 0
  /\ Die

(* recv gives at most BUF_SIZE, which goes to the receivers. *)
RecvBlock(c) ==
  /\ at = "handle"
  /\ c \in events
  /\ unread[c] > 0
  /\ IF \E r \in Receivers(c) : SendFails(r)
       THEN Die
       ELSE /\ Handled(c)
            /\ unread' = [unread EXCEPT ![c] = IF @ > Chunk THEN @ - Chunk ELSE 0]
            /\ SendTo(Receivers(c))
            /\ ready' = ready \cup Left(Receivers(c))
            /\ merged' = merged \cup (ready \cap Left(Receivers(c)))
            /\ UNCHANGED <<queue, clients_list, conn, sent>>

Server ==
  \/ Start \/ EpollWait \/ Accept
  \/ \E c \in Clients : RecvClosed(c) \/ RecvFails(c) \/ RecvBlock(c)
-------------------------------------------------------------------------------
(* External: the clients, and the kernel between them and the server. *)
Connect(c) ==
  /\ at \notin {"start", "dead"}
  /\ conn[c] = "none"
  /\ Len(queue) < Capacity
  /\ conn' = [conn EXCEPT ![c] = "queued"]
  /\ queue' = Append(queue, c)
  /\ Arrives(Listener)
  /\ UNCHANGED <<at, events, clients_list, peer, unread, sent, outgoing>>

Connected(c) ==
  at # "dead" /\ conn[c] \in {"queued", "open"} /\ peer[c] = "open"

(* A connection that waits for accept is not in epoll yet. *)
Notifies(c) ==
  IF conn[c] = "open" THEN Arrives(c) ELSE UNCHANGED <<ready, merged>>

ClientSends(c) ==
  /\ Connected(c)
  /\ sent < MaxSends
  /\ sent' = sent + 1
  /\ unread' = [unread EXCEPT ![c] = @ + 1]
  /\ Notifies(c)
  /\ UNCHANGED <<server, peer, outgoing>>

ClientReads(c) ==
  /\ Connected(c)
  /\ outgoing[c] > 0
  /\ outgoing' = [outgoing EXCEPT ![c] = @ - 1]
  /\ UNCHANGED <<server, ready, peer, unread, sent, merged>>

(* close, or the end of the process: a reset if blocks are unread. *)
ClientLeaves(c) ==
  /\ Connected(c)
  /\ peer' = [peer EXCEPT ![c] = IF outgoing[c] > 0 THEN "reset" ELSE "fin"]
  /\ Notifies(c)
  /\ UNCHANGED <<server, unread, sent, outgoing>>

Next ==
  \/ Server
  \/ \E c \in Clients :
       Connect(c) \/ ClientSends(c) \/ ClientReads(c) \/ ClientLeaves(c)

Spec == Init /\ [][Next]_vars /\ WF_vars(Server)
-------------------------------------------------------------------------------
Flag(p) == IF p THEN 1 ELSE 0

(* accept never finds the queue empty, which would end the server, and the  *)
(* queue is never full without an event that makes room: although a         *)
(* connection may wait for the next one to be accepted, the server cannot   *)
(* become deaf to new ones.                                                 *)
NeverDeaf ==
  at \notin {"start", "dead"} =>
    /\ Flag(Listener \in ready) + Flag(Listener \in events) <= Len(queue)
    /\ Len(queue) = Capacity => Listener \in ready \cup events

(* A socket the loop has overlooked, with something to read and no event to *)
(* come, is one where two things arrived for one event; all others are      *)
(* handled in the next round.                                               *)
OverlookedNeedsMerge ==
  at = "wait" => \A x \in Sockets : Pending(x) /\ x \notin ready => x \in merged

(* Once it runs, the server ends only because a client left with blocks     *)
(* unread, left and was sent to, or does not read: no order of connections, *)
(* messages and ordinary closes makes a call behind CHK fail.               *)
EndsOnlyOfSend ==
  at = "dead" =>
    \/ \A c \in Clients : conn[c] = "none"
    \/ \E c \in Clients : peer[c] \in {"gone", "reset"} \/ outgoing[c] = SendBuf

(* What arrives is accepted, read or closed in the end, unless it arrived   *)
(* together with something else or the server ends.                         *)
ServedUnlessMerged ==
  \A x \in Sockets : Pending(x) ~> ~Pending(x) \/ x \in merged
===============================================================================
