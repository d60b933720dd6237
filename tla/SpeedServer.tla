------------------------------ MODULE SpeedServer -----------------------------
(***************************************************************************)
(* elfIPCServer, the thread of libspeed.so that listens in the hooked      *)
(* application on the port of its pid, and serverClient::upspeed, which    *)
(* the processes that change the speed call: one connection a call.        *)
(*                                                                         *)
(* A call is <<process, number>>.  Its text, the speed printed with        *)
(* "%.4f", is one segment on the loopback device, which recv takes as a    *)
(* whole; atof reads back the hundredths the model keeps, as what lies     *)
(* behind the text in the buffer only adds digits after the fourth         *)
(* decimal.                                                                *)
(***************************************************************************)
EXTENDS TimeScale, FiniteSets, Sequences

CONSTANTS
  Clients,       \* the processes that call upspeed
  Inputs,        \* the speeds they ask for, in hundredths
  Backlog,       \* MAXPENDING: connections the kernel queues, 1024 in the code
  MaxFds,        \* sockets a client process may hold
  MaxCalls,      \* bound: calls of upspeed per process
  Interruptible, \* whether a signal may interrupt a client's recv
  HostFails      \* whether the application's descriptors or signals may make
                 \* accept or recv fail in its thread

ASSUME ServerAssumption ==
  /\ Inputs \subseteq Int
  /\ Backlog \in Nat \ {0}
  /\ MaxFds \in Nat
  /\ MaxCalls \in Nat
  /\ Interruptible \in BOOLEAN
  /\ HostFails \in BOOLEAN

Calls == Clients \X (1 .. MaxCalls)
None == <<>>

VARIABLES
  at,       \* where the server's thread is
  queue,    \* the connections waiting for accept
  sock,     \* the connection HandleClient serves
  g_times,  \* the speed, in hundredths
  pc,       \* where each process is in upspeed
  n,        \* the number of its current or last call
  fds,      \* the sockets it holds
  arg,      \* the speed each call was made with
  peer,     \* what the kernel knows of the client's end of each connection
  up,       \* connections with the text on its way to the server
  down,     \* connections with the echo on its way to the client
  result,   \* what each call returned
  applied,  \* history: the calls SetTimeScale was called for, in order
  failed    \* history: socket, bind or listen failed, or another call of the
            \* server for a reason of the application's own

server == <<at, queue, sock>>
client == <<pc, n, fds, arg, result>>
net == <<peer, up, down>>
history == <<applied, failed>>
vars == <<server, g_times, client, net, history>>

TypeOK ==
  /\ at \in {"start", "accept", "recv", "apply", "send", "dead"}
  /\ queue \in Seq(Calls) /\ Len(queue) <= Backlog
  /\ sock \in Calls \cup {None}
  /\ g_times \in Nat \ {0}
  /\ pc \in [Clients -> {"idle", "connect", "send", "recv", "dead"}]
  /\ n \in [Clients -> 0 .. MaxCalls]
  /\ fds \in [Clients -> 0 .. MaxFds]
  /\ arg \in [Calls -> Inputs \cup {0}]
  /\ peer \in [Calls -> {"none", "open", "fin", "reset"}]
  /\ up \subseteq Calls /\ down \subseteq Calls
  /\ result \in [Calls -> {"none", "0", "-1"}]
  /\ applied \in Seq(Calls)
  /\ failed \in BOOLEAN

Init ==
  /\ at = "start"
  /\ queue = <<>>
  /\ sock = None
  /\ g_times = 100
  /\ pc = [p \in Clients |-> "idle"]
  /\ n = [p \in Clients |-> 0]
  /\ fds = [p \in Clients |-> 0]
  /\ arg = [c \in Calls |-> 0]
  /\ peer = [c \in Calls |-> "none"]
  /\ up = {}
  /\ down = {}
  /\ result = [c \in Calls |-> "none"]
  /\ applied = <<>>
  /\ failed = FALSE
-------------------------------------------------------------------------------
(* Die: the thread calls exit(1), which ends the application with it; the   *)
(* kernel drops its connections.                                            *)
Die ==
  /\ at' = "dead"
  /\ queue' = <<>>
  /\ sock' = None

(* socket, bind and listen; each of them may fail. *)
StartIPCServer ==
  /\ at = "start"
  /\ \/ at' = "accept" /\ UNCHANGED <<queue, sock, failed>>
     \/ Die /\ failed' = TRUE
  /\ UNCHANGED <<g_times, client, net, applied>>

Accept ==
  /\ at = "accept"
  /\ queue # <<>>
  /\ at' = "recv"
  /\ sock' = Head(queue)
  /\ queue' = Tail(queue)
  /\ UNCHANGED <<g_times, client, net, history>>

(* Mutant: the text is echoed before it is applied, and the client may be   *)
(* gone before the speed is set.                                            *)
RecvTextEchoes ==
  /\ at = "recv"
  /\ sock \in up
  /\ at' = "apply"
  /\ up' = up \ {sock}
  /\ down' = down \cup {sock}
  /\ UNCHANGED <<queue, sock, g_times, client, peer, history>>

(* recv gives the text, *)
RecvText ==
  /\ at = "recv"
  /\ sock \in up
  /\ at' = "apply"
  /\ up' = up \ {sock}
  /\ UNCHANGED <<queue, sock, g_times, client, peer, down, history>>

(* Mutants: 0 is an error, or does not end the loop. *)
RecvClosedDies ==
  /\ at = "recv"
  /\ sock \notin up
  /\ peer[sock] = "fin"
  /\ Die
  /\ UNCHANGED <<g_times, client, net, history>>

RecvClosedLoops ==
  /\ at = "recv"
  /\ sock \notin up
  /\ peer[sock] = "fin"
  /\ UNCHANGED vars

(* or 0 when the client has closed its end, which ends HandleClient, *)
RecvClosed ==
  /\ at = "recv"
  /\ sock \notin up
  /\ peer[sock] = "fin"
  /\ at' = "accept"
  /\ sock' = None
  /\ UNCHANGED <<queue, g_times, client, net, history>>

(* or -1 when the client's end was torn down. *)
RecvFails ==
  /\ at = "recv"
  /\ sock \notin up
  /\ peer[sock] = "reset"
  /\ Die
  /\ UNCHANGED <<g_times, client, net, history>>

SetTimeScale ==
  /\ at = "apply"
  /\ at' = "send"
  /\ g_times' = NewScale(arg[sock], g_times)
  /\ applied' = Append(applied, sock)
  /\ UNCHANGED <<queue, sock, client, net, failed>>

(* The echo is lost if the client has closed its end; the send itself does  *)
(* not fail.                                                                *)
Send ==
  /\ at = "send"
  /\ at' = "recv"
  /\ down' = IF peer[sock] = "open" THEN down \cup {sock} ELSE down
  /\ UNCHANGED <<queue, sock, g_times, client, peer, up, history>>

(* accept or recv gives -1 for a reason of the application's own. *)
HostCallFails ==
  /\ HostFails
  /\ at \in {"accept", "recv"}
  /\ Die
  /\ failed' = TRUE
  /\ UNCHANGED <<g_times, client, net, applied>>

Server ==
  \/ StartIPCServer \/ Accept
  \/ RecvText \/ RecvClosed \/ RecvFails \/ SetTimeScale \/ Send
-------------------------------------------------------------------------------
Call(p) == <<p, n[p]>>

Returns(c, r) ==
  /\ pc' = [pc EXCEPT ![c[1]] = "idle"]
  /\ result' = [result EXCEPT ![c] = r]

(* upspeed looks up the pid and creates a socket. *)
upspeed(p) ==
  /\ pc[p] = "idle"
  /\ n[p] < MaxCalls
  /\ n' = [n EXCEPT ![p] = @ + 1]
  /\ \E v \in Inputs : arg' = [arg EXCEPT ![<<p, n[p] + 1>>] = v]
  /\ IF fds[p] = MaxFds
       THEN Returns(<<p, n[p] + 1>>, "-1") /\ UNCHANGED fds
       ELSE /\ pc' = [pc EXCEPT ![p] = "connect"]
            /\ fds' = [fds EXCEPT ![p] = @ + 1]
            /\ UNCHANGED result
  /\ UNCHANGED <<server, g_times, net, history>>

(* find_pid_of gives the pid, which is the port: somebody listens there, or *)
(* there is no such process and the port is that of -1.                     *)
Listens == at \notin {"start", "dead"}

Connect(p) ==
  /\ pc[p] = "connect"
  /\ Listens
  /\ Len(queue) < Backlog
  /\ queue' = Append(queue, Call(p))
  /\ peer' = [peer EXCEPT ![Call(p)] = "open"]
  /\ pc' = [pc EXCEPT ![p] = "send"]
  /\ UNCHANGED <<at, sock, g_times, n, fds, arg, up, down, result, history>>

(* The application is not found, not yet hooked or gone.  The socket stays  *)
(* open.                                                                    *)
ConnectFails(p) ==
  /\ pc[p] = "connect"
  /\ ~Listens
  /\ Returns(Call(p), "-1")
  /\ UNCHANGED <<server, g_times, n, fds, arg, net, history>>

(* The client's send: text is on its way, unless the server is gone. *)
SendText(p) ==
  /\ pc[p] = "send"
  /\ IF at = "dead"
       THEN Returns(Call(p), "-1") /\ UNCHANGED up
       ELSE /\ up' = up \cup {Call(p)}
            /\ pc' = [pc EXCEPT ![p] = "recv"]
            /\ UNCHANGED result
  /\ UNCHANGED <<server, g_times, n, fds, arg, peer, down, history>>

(* Mutant: return without close. *)
RecvEchoKeeps(p) ==
  /\ pc[p] = "recv"
  /\ Call(p) \in down
  /\ down' = down \ {Call(p)}
  /\ Returns(Call(p), "0")
  /\ UNCHANGED <<server, g_times, n, fds, arg, peer, up, history>>

(* The echo is there: close and return 0. *)
RecvEcho(p) ==
  /\ pc[p] = "recv"
  /\ Call(p) \in down
  /\ down' = down \ {Call(p)}
  /\ peer' = [peer EXCEPT ![Call(p)] = "fin"]
  /\ fds' = [fds EXCEPT ![p] = @ - 1]
  /\ Returns(Call(p), "0")
  /\ UNCHANGED <<server, g_times, n, arg, up, history>>

(* recv gives less than 1, because the server is gone or for a signal: the  *)
(* socket stays open.                                                       *)
RecvEchoFails(p) ==
  /\ pc[p] = "recv"
  /\ Call(p) \notin down
  /\ at = "dead" \/ Interruptible
  /\ Returns(Call(p), "-1")
  /\ UNCHANGED <<server, g_times, n, fds, arg, net, history>>

(* External: the process is killed, or aborts because the text is longer    *)
(* than upspeed's buf, and the kernel closes its sockets, with a reset      *)
(* where there is an echo it has not read.                                  *)
Kill(p) ==
  /\ pc[p] # "dead"
  /\ pc' = [pc EXCEPT ![p] = "dead"]
  /\ fds' = [fds EXCEPT ![p] = 0]
  /\ peer' = [c \in Calls |->
                IF c[1] = p /\ peer[c] = "open"
                  THEN IF c \in down THEN "reset" ELSE "fin"
                  ELSE peer[c]]
  /\ down' = {c \in down : c[1] # p}
  /\ UNCHANGED <<server, g_times, n, arg, up, result, history>>

InCall(p) ==
  \/ Connect(p) \/ ConnectFails(p) \/ SendText(p)
  \/ RecvEcho(p) \/ RecvEchoFails(p)

Next ==
  \/ Server \/ HostCallFails
  \/ \E p \in Clients : upspeed(p) \/ InCall(p) \/ Kill(p)

Fairness ==
  /\ WF_vars(Server)
  /\ \A p \in Clients : WF_vars(InCall(p))

Spec == Init /\ [][Next]_vars /\ Fairness
-------------------------------------------------------------------------------
(* The calls that returned 0 got what they asked for: SetTimeScale was      *)
(* called for them, before they returned, and exactly once, although the    *)
(* server reads each connection in a loop.                                  *)
AckedOnce ==
  \A c \in Calls :
    /\ result[c] = "0" => \E i \in DOMAIN applied : applied[i] = c
    /\ Cardinality({i \in DOMAIN applied : applied[i] = c}) <= 1

(* The server ends only if socket, bind or listen failed, if accept or recv *)
(* failed for a reason of the application's own, or if a client process     *)
(* died with an echo unread: no other death of a client, at whatever point  *)
(* of its call, and no failed call takes the hooked application down.       *)
DiesOnlyOfReset ==
  at = "dead" => failed \/ \E c \in Calls : peer[c] = "reset"

(* Only failed calls leak: a process that is not in a call holds a socket   *)
(* for each of its calls that returned -1 at most, so that one whose calls  *)
(* all succeeded never runs out of them.                                    *)
LeakOnlyOnFailure ==
  \A p \in Clients :
    pc[p] = "idle" =>
      fds[p] <= Cardinality({c \in Calls : c[1] = p /\ result[c] = "-1"})
===============================================================================
