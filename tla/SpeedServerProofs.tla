--------------------------- MODULE SpeedServerProofs --------------------------
(***************************************************************************)
(* Theorems about SpeedServer, for any processes, speeds, number of calls, *)
(* length of the kernel's queue and number of descriptors: a call that     *)
(* returned 0 was applied once, only a reset ends the server, and only     *)
(* failed calls leak.                                                      *)
(***************************************************************************)
EXTENDS SpeedServer, FiniteSetTheorems, TLAPS

Applied(c) == \E k \in DOMAIN applied : applied[k] = c

(* Calls still to come, and the current one of a process that is in it. *)
ToCome(c) == c[2] > n[c[1]]
Current(c, where) == c[2] = n[c[1]] /\ pc[c[1]] \in where

InUpspeed == {"connect", "send", "recv"}

Unconnected(c) == ToCome(c) \/ Current(c, {"connect"})
Unsent(c) == ToCome(c) \/ Current(c, {"connect", "send"})
Connected(c) == Current(c, {"send", "recv"})
Unreturned(c) == ToCome(c) \/ Current(c, InUpspeed)

Failed(p) == {c \in Calls : c[1] = p /\ result[c] = "-1"}

(* HandleClient has a connection. *)
Serving == at \in {"recv", "apply", "send"} => sock \in Calls

(* A text is on its way, or being applied, or applied, and never two of     *)
(* these; before it is sent it is none of them.                             *)
OneText ==
  /\ \A i, j \in DOMAIN applied : applied[i] = applied[j] => i = j
  /\ \A c \in up : ~Applied(c)
  /\ at = "apply" => sock \notin up /\ ~Applied(sock)
  /\ \A c \in Calls :
       Unsent(c) =>
         c \notin up /\ ~Applied(c) /\ ~(at = "apply" /\ sock = c)

(* An echo, and with it the result 0, comes after the application. *)
EchoAfter ==
  /\ at = "send" => Applied(sock)
  /\ \A c \in down : Applied(c)
  /\ \A c \in Calls : result[c] = "0" => Applied(c)

(* A connection is open from connect to the end of the call. *)
PeerInv ==
  /\ \A c \in Calls : Unconnected(c) => peer[c] = "none"
  /\ \A c \in Calls : Connected(c) => peer[c] = "open"
  /\ at = "start" => \A c \in Calls : peer[c] = "none"

(* A process has one socket for its call, besides the leaked ones. *)
SocketInv ==
  /\ \A p \in Clients : pc[p] \in InUpspeed => n[p] >= 1 /\ fds[p] >= 1
  /\ \A c \in Calls : Unreturned(c) => result[c] = "none"
  /\ \A p \in Clients :
       /\ pc[p] = "idle" => fds[p] <= Cardinality(Failed(p))
       /\ pc[p] \in InUpspeed => fds[p] <= Cardinality(Failed(p)) + 1

IInv == /\ TypeOK /\ Serving /\ OneText /\ EchoAfter /\ PeerInv /\ SocketInv
        /\ DiesOnlyOfReset
-------------------------------------------------------------------------------
LEMMA CallPair ==
  /\ \A c \in Calls : /\ c[1] \in Clients /\ c[2] \in 1 .. MaxCalls
                      /\ c[2] \in Nat /\ c = <<c[1], c[2]>>
  /\ \A p \in Clients : \A k \in 1 .. MaxCalls :
       <<p, k>> \in Calls /\ <<p, k>>[1] = p /\ <<p, k>>[2] = k
BY ServerAssumption, SMT DEF Calls

(* SetTimeScale never leaves a speed of zero or less. *)
LEMMA NewScalePositive ==
  ASSUME NEW x \in Int, NEW g \in Nat \ {0}
  PROVE  NewScale(x, g) \in Nat \ {0}
<1>1. \A k \in DOMAIN SlowTable : SlowTable[k] \in Nat \ {0}
  BY DEF SlowTable
<1> QED
  BY <1>1 DEF NewScale

(* The call a process is in is one of the calls. *)
LEMMA CurrentCall ==
  ASSUME TypeOK, SocketInv, NEW p \in Clients, pc[p] \in InUpspeed
  PROVE  /\ Call(p) \in Calls /\ Call(p)[1] = p /\ Call(p)[2] = n[p]
         /\ n[p] \in 1 .. MaxCalls
<1>1. n[p] \in 1 .. MaxCalls
  BY ServerAssumption, SMT DEF TypeOK, SocketInv
<1> QED
  BY <1>1, CallPair DEF Call

LEMMA DieType ==
  ASSUME TypeOK, Die
  PROVE  /\ at' = "dead" /\ sock' \in Calls \cup {None}
         /\ queue' \in Seq(Calls) /\ Len(queue') <= Backlog
BY ServerAssumption, SMT DEF TypeOK, Die

LEMMA ReturnsType ==
  ASSUME TypeOK, NEW c \in Calls, NEW r \in {"0", "-1"}, Returns(c, r)
  PROVE  /\ pc' \in [Clients -> {"idle", "connect", "send", "recv", "dead"}]
         /\ result' \in [Calls -> {"none", "0", "-1"}]
BY CallPair, Zenon DEF TypeOK, Returns

LEMMA TypeStep ==
  ASSUME TypeOK, Serving, SocketInv, [Next]_vars
  PROVE  TypeOK'
<1> USE DEF server, client, net, history
<1>1. CASE StartIPCServer
  BY <1>1, DieType DEF StartIPCServer, TypeOK
<1>2. CASE Accept
  <2>1. /\ Head(queue) \in Calls /\ Tail(queue) \in Seq(Calls)
        /\ Len(Tail(queue)) <= Backlog
    BY <1>2, ServerAssumption, SMT DEF Accept, TypeOK
  <2> QED
    BY <1>2, <2>1 DEF Accept, TypeOK
<1>3. CASE RecvText
  BY <1>3 DEF RecvText, TypeOK
<1>4. CASE RecvClosed
  BY <1>4 DEF RecvClosed, TypeOK
<1>5. CASE RecvFails
  BY <1>5, DieType DEF RecvFails, TypeOK
<1>6. CASE SetTimeScale
  <2>1. arg[sock] \in Int /\ sock \in Calls
    <3>1. sock \in Calls
      BY <1>6 DEF SetTimeScale, Serving
    <3>2. arg[sock] \in Inputs \cup {0}
      BY <3>1, Zenon DEF TypeOK
    <3>3. Inputs \subseteq Int /\ 0 \in Int
      BY ServerAssumption
    <3> QED
      BY <3>1, <3>2, <3>3, Zenon
  <2>2. NewScale(arg[sock], g_times) \in Nat \ {0}
    BY <2>1, NewScalePositive DEF TypeOK
  <2>3. applied' \in Seq(Calls)
    BY <1>6, <2>1 DEF SetTimeScale, TypeOK
  <2> QED
    BY <1>6, <2>2, <2>3 DEF SetTimeScale, TypeOK
<1>7. CASE Send
  <2>1. down' \subseteq Calls
    BY <1>7 DEF Send, Serving, TypeOK
  <2> QED
    BY <1>7, <2>1 DEF Send, TypeOK
<1>8. CASE HostCallFails
  BY <1>8, DieType DEF HostCallFails, TypeOK
<1>9. ASSUME NEW p \in Clients, upspeed(p)
      PROVE  TypeOK'
  <2>1. n[p] + 1 \in 1 .. MaxCalls /\ n[p] \in Nat /\ fds[p] \in 0 .. MaxFds
    BY <1>9, ServerAssumption, SMT DEF upspeed, TypeOK
  <2>2. <<p, n[p] + 1>> \in Calls
    BY <2>1, CallPair
  <2>3. n' \in [Clients -> 0 .. MaxCalls]
    BY <1>9, <2>1, SMT DEF upspeed, TypeOK
  <2>4. arg' \in [Calls -> Inputs \cup {0}]
    BY <1>9, <2>2, Zenon DEF upspeed, TypeOK
  <2>5. CASE fds[p] = MaxFds
    BY <1>9, <2>2, <2>3, <2>4, <2>5, ReturnsType DEF upspeed, TypeOK
  <2>6. CASE fds[p] # MaxFds
    <3>1. fds' \in [Clients -> 0 .. MaxFds]
      <4>1. fds' = [fds EXCEPT ![p] = fds[p] + 1]
        BY <1>9, <2>6 DEF upspeed
      <4>2. fds[p] + 1 \in 0 .. MaxFds
        BY <2>1, <2>6, ServerAssumption, SMT
      <4> QED
        BY <4>1, <4>2, Zenon DEF TypeOK
    <3>2. pc' \in [Clients -> {"idle", "connect", "send", "recv", "dead"}]
      BY <1>9, <2>6, Zenon DEF upspeed, TypeOK
    <3> QED
      BY <1>9, <2>3, <2>4, <2>6, <3>1, <3>2 DEF upspeed, TypeOK
  <2> QED
    BY <2>5, <2>6
<1>10. ASSUME NEW p \in Clients, InCall(p)
       PROVE  TypeOK'
  <2>1. pc[p] \in InUpspeed
    BY <1>10 DEF InCall, Connect, ConnectFails, SendText, RecvEcho,
                 RecvEchoFails, InUpspeed
  <2>2. Call(p) \in Calls
    BY <2>1, CurrentCall
  <2>3. CASE Connect(p)
    <3>1. queue' \in Seq(Calls) /\ Len(queue') <= Backlog
      BY <2>2, <2>3, ServerAssumption, SMT DEF Connect, TypeOK
    <3>2. /\ peer' \in [Calls -> {"none", "open", "fin", "reset"}]
          /\ pc' \in [Clients -> {"idle", "connect", "send", "recv", "dead"}]
      BY <2>2, <2>3, Zenon DEF Connect, TypeOK
    <3> QED
      BY <2>3, <3>1, <3>2 DEF Connect, TypeOK
  <2>4. CASE ConnectFails(p)
    BY <2>2, <2>4, ReturnsType DEF ConnectFails, TypeOK
  <2>5. CASE SendText(p)
    <3>1. CASE at = "dead"
      BY <2>2, <2>5, <3>1, ReturnsType DEF SendText, TypeOK
    <3>2. CASE at # "dead"
      <4>1. pc' \in [Clients -> {"idle", "connect", "send", "recv", "dead"}]
        BY <2>5, <3>2, Zenon DEF SendText, TypeOK
      <4> QED
        BY <2>2, <2>5, <3>2, <4>1 DEF SendText, TypeOK
    <3> QED
      BY <3>1, <3>2
  <2>6. CASE RecvEcho(p)
    <3>1. fds[p] \in 1 .. MaxFds
      BY <2>1, ServerAssumption, SMT DEF SocketInv, TypeOK
    <3>2. fds' \in [Clients -> 0 .. MaxFds]
      BY <2>6, <3>1, ServerAssumption, SMT DEF RecvEcho, TypeOK
    <3>3. peer' \in [Calls -> {"none", "open", "fin", "reset"}]
      BY <2>2, <2>6, Zenon DEF RecvEcho, TypeOK
    <3>4. down' \subseteq Calls
      BY <2>6 DEF RecvEcho, TypeOK
    <3> QED
      BY <2>2, <2>6, <3>2, <3>3, <3>4, ReturnsType DEF RecvEcho, TypeOK
  <2>7. CASE RecvEchoFails(p)
    BY <2>2, <2>7, ReturnsType DEF RecvEchoFails, TypeOK
  <2> QED
    BY <1>10, <2>3, <2>4, <2>5, <2>6, <2>7 DEF InCall
<1>11. ASSUME NEW p \in Clients, Kill(p)
       PROVE  TypeOK'
  <2>1. /\ peer' \in [Calls -> {"none", "open", "fin", "reset"}]
        /\ pc' \in [Clients -> {"idle", "connect", "send", "recv", "dead"}]
    BY <1>11, Zenon DEF Kill, TypeOK
  <2>2. fds' \in [Clients -> 0 .. MaxFds]
    BY <1>11, ServerAssumption, SMT DEF Kill, TypeOK
  <2>3. down' \subseteq Calls
    BY <1>11 DEF Kill, TypeOK
  <2> QED
    BY <1>11, <2>1, <2>2, <2>3 DEF Kill, TypeOK
<1>12. CASE UNCHANGED vars
  BY <1>12 DEF vars, TypeOK
<1> QED
  BY <1>1, <1>2, <1>3, <1>4, <1>5, <1>6, <1>7, <1>8, <1>9, <1>10, <1>11, <1>12
     DEF Next, Server

LEMMA ServingStep ==
  ASSUME TypeOK, Serving, [Next]_vars
  PROVE  Serving'
<1> USE DEF server, Serving
<1>1. CASE Accept
  <2>1. Head(queue) \in Calls
    BY <1>1, SMT DEF Accept, TypeOK
  <2> QED
    BY <1>1, <2>1 DEF Accept
<1>2. CASE Server \/ HostCallFails
  BY <1>1, <1>2 DEF Server, StartIPCServer, RecvText, RecvClosed, RecvFails,
                    SetTimeScale, Send, HostCallFails, Die
<1>3. ASSUME NEW p \in Clients, upspeed(p) \/ InCall(p) \/ Kill(p)
      PROVE  Serving'
  BY <1>3 DEF upspeed, InCall, Connect, ConnectFails, SendText, RecvEcho,
              RecvEchoFails, Kill
<1>4. CASE UNCHANGED vars
  BY <1>4 DEF vars
<1> QED
  BY <1>2, <1>3, <1>4 DEF Next
-------------------------------------------------------------------------------
(* A step of process p leaves the other processes alone. *)
LEMMA Others ==
  ASSUME TypeOK, SocketInv, NEW p \in Clients,
         upspeed(p) \/ InCall(p) \/ Kill(p)
  PROVE  /\ \A q \in Clients :
              q # p => pc'[q] = pc[q] /\ n'[q] = n[q] /\ fds'[q] = fds[q]
         /\ \A c \in Calls :
              c[1] # p => result'[c] = result[c] /\ peer'[c] = peer[c]
<1> USE DEF server, client, net, history
<1>1. CASE upspeed(p)
  <2>1. n[p] + 1 \in 1 .. MaxCalls
    BY <1>1, ServerAssumption, SMT DEF upspeed, TypeOK
  <2>2. <<p, n[p] + 1>>[1] = p
    BY <2>1, CallPair
  <2>3. CASE fds[p] = MaxFds
    BY <1>1, <2>2, <2>3, Zenon DEF upspeed, Returns, TypeOK
  <2>4. CASE fds[p] # MaxFds
    BY <1>1, <2>4, Zenon DEF upspeed, TypeOK
  <2> QED
    BY <2>3, <2>4
<1>2. CASE InCall(p)
  <2>1. pc[p] \in InUpspeed
    BY <1>2 DEF InCall, Connect, ConnectFails, SendText, RecvEcho,
                RecvEchoFails, InUpspeed
  <2>2. Call(p)[1] = p
    BY <2>1, CurrentCall
  <2>3. CASE Connect(p)
    BY <2>2, <2>3, Zenon DEF Connect, TypeOK
  <2>4. CASE ConnectFails(p)
    BY <2>2, <2>4, Zenon DEF ConnectFails, Returns, TypeOK
  <2>5. CASE SendText(p)
    BY <2>2, <2>5, Zenon DEF SendText, Returns, TypeOK
  <2>6. CASE RecvEcho(p)
    BY <2>2, <2>6, Zenon DEF RecvEcho, Returns, TypeOK
  <2>7. CASE RecvEchoFails(p)
    BY <2>2, <2>7, Zenon DEF RecvEchoFails, Returns, TypeOK
  <2> QED
    BY <1>2, <2>3, <2>4, <2>5, <2>6, <2>7 DEF InCall
<1>3. CASE Kill(p)
  BY <1>3, Zenon DEF Kill, TypeOK
<1> QED
  BY <1>1, <1>2, <1>3

(* How the phases of the calls change: upspeed takes the next call, the     *)
(* other steps of a process take the current one further.                   *)
LEMMA Phases ==
  ASSUME TypeOK, SocketInv, NEW p \in Clients,
         upspeed(p) \/ InCall(p) \/ Kill(p), NEW c \in Calls
  PROVE  /\ Unconnected(c)' => Unconnected(c)
         /\ Unsent(c)' => Unsent(c)
         /\ Unreturned(c)' => Unreturned(c)
         /\ Connected(c)' =>
              Connected(c) \/ (Connect(p) /\ c = Call(p) /\ peer'[c] = "open")
<1> USE DEF server, client, net, history,
            Unconnected, Unsent, Unreturned, Connected, ToCome, Current,
            InUpspeed
<1>1. c[1] \in Clients /\ c[2] \in Nat /\ c = <<c[1], c[2]>>
  BY CallPair
<1>2. CASE c[1] # p
  BY <1>1, <1>2, Others, Zenon
<1>3. CASE c[1] = p /\ upspeed(p)
  <2>1. n'[p] = n[p] + 1 /\ n[p] \in Nat /\ pc'[p] \in {"idle", "connect"}
    <3>1. n'[p] = n[p] + 1 /\ n[p] \in Nat
      BY <1>3, SMT DEF upspeed, TypeOK
    <3>2. <<p, n[p] + 1>>[1] = p
      OBVIOUS
    <3>3. pc'[p] \in {"idle", "connect"}
      BY <1>3, <3>2, Zenon DEF upspeed, Returns, TypeOK
    <3> QED
      BY <3>1, <3>3
  <2> QED
    BY <1>1, <1>3, <2>1, SMT
<1>4. CASE c[1] = p /\ (InCall(p) \/ Kill(p))
  <2>1. n' = n
    BY <1>4 DEF InCall, Connect, ConnectFails, SendText, RecvEcho,
                RecvEchoFails, Kill
  <2>2. CASE Kill(p)
    <3>1. pc'[p] = "dead"
      BY <2>2, Zenon DEF Kill, TypeOK
    <3> QED
      BY <1>4, <2>1, <3>1, SMT
  <2>3. CASE InCall(p)
    <3>1. pc[p] \in InUpspeed
      BY <2>3 DEF InCall, Connect, ConnectFails, SendText, RecvEcho,
                  RecvEchoFails
    <3>2. Call(p) \in Calls /\ Call(p)[1] = p /\ Call(p)[2] = n[p]
      BY <3>1, CurrentCall
    <3>3. CASE Connect(p)
      <4>1. pc[p] = "connect" /\ pc'[p] = "send" /\ peer'[Call(p)] = "open"
        BY <2>3, <3>2, <3>3, Zenon DEF Connect, TypeOK
      <4>2. c[2] = n[p] => c = Call(p)
        BY <1>1, <1>4 DEF Call
      <4> QED
        BY <1>4, <2>1, <3>3, <4>1, <4>2, SMT
    <3>4. CASE SendText(p)
      <4>1. pc[p] = "send" /\ pc'[p] \in {"idle", "recv"}
        BY <3>2, <3>4, Zenon DEF SendText, Returns, TypeOK
      <4> QED
        BY <1>4, <2>1, <4>1, SMT
    <3>5. CASE ConnectFails(p) \/ RecvEcho(p) \/ RecvEchoFails(p)
      <4>1. pc'[p] = "idle"
        BY <3>2, <3>5, Zenon DEF ConnectFails, RecvEcho, RecvEchoFails,
                                 Returns, TypeOK
      <4> QED
        BY <1>4, <2>1, <4>1, SMT
    <3> QED
      BY <2>3, <3>3, <3>4, <3>5 DEF InCall
  <2> QED
    BY <1>4, <2>2, <2>3
<1> QED
  BY <1>2, <1>3, <1>4

LEMMA AppliedAppend ==
  ASSUME TypeOK, NEW x \in Calls, applied' = Append(applied, x)
  PROVE  /\ \E k \in DOMAIN applied' : applied'[k] = x
         /\ \A c \in Calls : Applied(c)' <=> Applied(c) \/ c = x
         /\ OneText /\ ~Applied(x) =>
              \A i, j \in DOMAIN applied' :
                applied'[i] = applied'[j] => i = j
<1> DEFINE m == Len(applied)
<1>1. /\ m \in Nat /\ DOMAIN applied = 1 .. m /\ DOMAIN applied' = 1 .. m + 1
      /\ applied'[m + 1] = x
      /\ \A k \in 1 .. m : applied'[k] = applied[k]
  BY SMT DEF TypeOK
<1> HIDE DEF m
<1>2. 1 .. m + 1 = (1 .. m) \cup {m + 1}
  BY <1>1, SMT
<1>3. \A c \in Calls : Applied(c)' <=> Applied(c) \/ c = x
  BY <1>1, <1>2, Zenon DEF Applied
<1>4. ASSUME OneText, ~Applied(x),
             NEW i \in DOMAIN applied', NEW j \in DOMAIN applied',
             applied'[i] = applied'[j]
      PROVE  i = j
  <2>1. \A k \in 1 .. m : applied'[k] # x
    BY <1>1, <1>4 DEF Applied
  <2>2. CASE i \in 1 .. m /\ j \in 1 .. m
    BY <1>1, <1>4, <2>2 DEF OneText
  <2>3. CASE ~(i \in 1 .. m /\ j \in 1 .. m)
    BY <1>1, <1>2, <1>4, <2>1, <2>3
  <2> QED
    BY <2>2, <2>3
<1>5. \E k \in DOMAIN applied' : applied'[k] = x
  BY <1>1, <1>2
<1> QED
  BY <1>3, <1>4, <1>5

LEMMA OneTextStep ==
  ASSUME TypeOK, Serving, SocketInv, OneText, [Next]_vars
  PROVE  OneText'
<1> USE DEF server, client, net, history
<1>1. ASSUME at' # "apply", UNCHANGED <<up, applied, n, pc>>
      PROVE  OneText'
  BY <1>1, Zenon DEF OneText, Unsent, ToCome, Current, Applied
<1>2. CASE \/ StartIPCServer \/ Accept \/ RecvClosed \/ RecvFails
           \/ Send \/ HostCallFails
  BY <1>1, <1>2 DEF StartIPCServer, Accept, RecvClosed, RecvFails, Send,
                    HostCallFails, Die
<1>3. CASE RecvText
  <2>1. \A c : (Applied(c)' <=> Applied(c)) /\ (Unsent(c)' <=> Unsent(c))
    BY <1>3 DEF RecvText, Applied, Unsent, ToCome, Current
  <2> QED
    BY <1>3, <2>1, Zenon DEF RecvText, OneText
<1>4. CASE SetTimeScale
  <2>1. sock \in Calls /\ at = "apply" /\ sock \notin up /\ ~Applied(sock)
    BY <1>4 DEF SetTimeScale, Serving, OneText
  <2>2. /\ \A c \in Calls : Applied(c)' <=> Applied(c) \/ c = sock
        /\ \A i, j \in DOMAIN applied' : applied'[i] = applied'[j] => i = j
    BY <1>4, <2>1, AppliedAppend DEF SetTimeScale
  <2>3. at' = "send" /\ up' = up /\ \A c : Unsent(c)' <=> Unsent(c)
    BY <1>4 DEF SetTimeScale, Unsent, ToCome, Current
  <2>4. up \subseteq Calls
    BY DEF TypeOK
  <2> QED
    BY <2>1, <2>2, <2>3, <2>4, Zenon DEF OneText
<1>5. ASSUME NEW p \in Clients, upspeed(p) \/ InCall(p) \/ Kill(p)
      PROVE  OneText'
  <2>1. \A c \in Calls : Unsent(c)' => Unsent(c)
    BY <1>5, Phases
  <2>2. UNCHANGED <<at, sock, applied>> /\ \A c : Applied(c)' <=> Applied(c)
    BY <1>5 DEF upspeed, InCall, Connect, ConnectFails, SendText, RecvEcho,
                RecvEchoFails, Kill, Applied
  <2>3. CASE up' = up
    BY <2>1, <2>2, <2>3, Zenon DEF OneText
  <2>4. CASE up' # up
    <3>1. SendText(p) /\ at # "dead"
      BY <1>5, <2>4 DEF upspeed, InCall, Connect, ConnectFails, SendText,
                        RecvEcho, RecvEchoFails, Kill
    <3>2. up' = up \cup {Call(p)} /\ pc[p] = "send" /\ pc'[p] = "recv"
          /\ n' = n
      BY <3>1, Zenon DEF SendText, TypeOK
    <3>3. Call(p) \in Calls /\ Call(p)[1] = p /\ Call(p)[2] = n[p]
          /\ n[p] \in Nat
      BY <3>2, CurrentCall, ServerAssumption DEF InUpspeed
    <3>4. Unsent(Call(p)) /\ ~Unsent(Call(p))'
      <4>1. Unsent(Call(p))
        BY <3>2, <3>3, SMT DEF Unsent, Current
      <4>2. Call(p)' = Call(p)
        BY <3>2 DEF Call
      <4>3. ~Unsent(Call(p))'
        BY <3>2, <3>3, <4>2, SMT DEF Unsent, Current, ToCome
      <4> QED
        BY <4>1, <4>3
    <3>5. Call(p) \notin up /\ ~Applied(Call(p))
          /\ ~(at = "apply" /\ sock = Call(p))
      BY <3>3, <3>4, Zenon DEF OneText
    <3> HIDE DEF Unsent, Applied
    <3>6. Call(p)' = Call(p)
      BY <3>2 DEF Call
    <3> QED
      BY <2>1, <2>2, <3>2, <3>4, <3>5, <3>6, Zenon DEF OneText
  <2> QED
    BY <2>3, <2>4
<1>6. CASE UNCHANGED vars
  BY <1>6, Zenon DEF vars, OneText, Unsent, ToCome, Current, Applied
<1> QED
  BY <1>2, <1>3, <1>4, <1>5, <1>6 DEF Next, Server

LEMMA EchoStep ==
  ASSUME TypeOK, Serving, SocketInv, EchoAfter, [Next]_vars
  PROVE  EchoAfter'
<1> USE DEF server, client, net, history
<1>1. ASSUME at' # "send", UNCHANGED <<applied, down, result>>
      PROVE  EchoAfter'
  BY <1>1, Zenon DEF EchoAfter, Applied
<1>2. CASE \/ StartIPCServer \/ Accept \/ RecvText \/ RecvClosed \/ RecvFails
           \/ HostCallFails
  BY <1>1, <1>2 DEF StartIPCServer, Accept, RecvText, RecvClosed, RecvFails,
                    HostCallFails, Die
<1>3. CASE SetTimeScale
  <2>1. sock \in Calls
    BY <1>3 DEF SetTimeScale, Serving
  <2>2. \A c \in Calls : Applied(c)' <=> Applied(c) \/ c = sock
    BY <1>3, <2>1, AppliedAppend DEF SetTimeScale
  <2>3. sock' = sock /\ down' = down /\ result' = result /\ down \subseteq Calls
    BY <1>3 DEF SetTimeScale, TypeOK
  <2>4. Applied(sock)'
    <3>1. applied' = Append(applied, sock)
      BY <1>3 DEF SetTimeScale
    <3> QED
      BY <2>1, <2>3, <3>1, AppliedAppend, Zenon DEF Applied
  <2> QED
    BY <2>1, <2>2, <2>3, <2>4, Zenon DEF EchoAfter
<1>4. CASE Send
  <2>1. at' = "recv" /\ Applied(sock) /\ down' \subseteq down \cup {sock}
        /\ applied' = applied /\ result' = result
    BY <1>4 DEF Send, EchoAfter
  <2> QED
    BY <2>1, Zenon DEF EchoAfter, Applied
<1>5. ASSUME NEW p \in Clients, upspeed(p) \/ InCall(p) \/ Kill(p)
      PROVE  EchoAfter'
  <2>1. /\ UNCHANGED <<at, sock, applied>> /\ down' \subseteq down
        /\ \A c : Applied(c)' <=> Applied(c)
    BY <1>5 DEF upspeed, InCall, Connect, ConnectFails, SendText, RecvEcho,
                RecvEchoFails, Kill, Applied
  <2>2. ASSUME NEW c \in Calls, result'[c] = "0"
        PROVE  Applied(c)
    <3>1. CASE result[c] = "0"
      BY <3>1 DEF EchoAfter
    <3>2. CASE result[c] # "0"
      <4>1. RecvEcho(p) /\ c = Call(p)
        BY <1>5, <2>2, <3>2, Zenon DEF upspeed, InCall, Connect, ConnectFails,
             SendText, RecvEcho, RecvEchoFails, Kill, Returns, TypeOK
      <4> QED
        BY <4>1 DEF RecvEcho, EchoAfter
    <3> QED
      BY <3>1, <3>2
  <2> QED
    BY <2>1, <2>2, Zenon DEF EchoAfter
<1>6. CASE UNCHANGED vars
  BY <1>6, Zenon DEF vars, EchoAfter, Applied
<1> QED
  BY <1>2, <1>3, <1>4, <1>5, <1>6 DEF Next, Server
-------------------------------------------------------------------------------
LEMMA PeerStep ==
  ASSUME TypeOK, SocketInv, PeerInv, [Next]_vars
  PROVE  PeerInv'
<1> USE DEF server, client, net, history
<1>1. ASSUME at' # "start", UNCHANGED <<peer, n, pc>>
      PROVE  PeerInv'
  BY <1>1, Zenon DEF PeerInv, Unconnected, Connected, ToCome, Current
<1>2. CASE Server \/ HostCallFails
  BY <1>1, <1>2 DEF Server, StartIPCServer, Accept, RecvText, RecvClosed,
                    RecvFails, SetTimeScale, Send, HostCallFails, Die
<1>3. ASSUME NEW p \in Clients, upspeed(p) \/ InCall(p) \/ Kill(p)
      PROVE  PeerInv'
  <2>1. at' = at
    BY <1>3 DEF upspeed, InCall, Connect, ConnectFails, SendText, RecvEcho,
                RecvEchoFails, Kill
  <2>2. \A c \in Calls :
          /\ Unconnected(c)' => Unconnected(c)
          /\ Connected(c)' => Connected(c) \/ peer'[c] = "open"
    BY <1>3, Phases
  <2>3. CASE peer' = peer
    BY <2>1, <2>2, <2>3, Zenon DEF PeerInv
  <2>4. CASE Connect(p)
    <3>1. pc[p] = "connect" /\ at # "start" /\ pc'[p] = "send" /\ n' = n
          /\ peer' = [peer EXCEPT ![Call(p)] = "open"]
      BY <2>4, Zenon DEF Connect, Listens, TypeOK
    <3>2. Call(p) \in Calls /\ Call(p)[1] = p /\ Call(p)[2] = n[p]
          /\ n[p] \in Nat
      BY <3>1, CurrentCall, ServerAssumption DEF InUpspeed
    <3>3. ~Unconnected(Call(p))'
      <4>1. Call(p)' = Call(p)
        BY <3>1 DEF Call
      <4> QED
        BY <3>1, <3>2, <4>1, SMT DEF Unconnected, ToCome, Current
    <3>4. \A c \in Calls : Unconnected(c)' => c # Call(p)
      <4>1. Call(p)' = Call(p)
        BY <3>1 DEF Call
      <4> QED
        BY <3>3, <4>1
    <3>5. \A c \in Calls : peer'[c] = IF c = Call(p) THEN "open" ELSE peer[c]
      BY <3>1, Zenon DEF TypeOK
    <3> QED
      BY <2>1, <2>2, <3>1, <3>4, <3>5, Zenon DEF PeerInv
  <2>5. CASE RecvEcho(p)
    <3>1. pc[p] = "recv" /\ n' = n /\ peer' = [peer EXCEPT ![Call(p)] = "fin"]
      BY <2>5 DEF RecvEcho
    <3>2. Call(p) \in Calls /\ Call(p)[1] = p /\ Call(p)[2] = n[p]
          /\ n[p] \in Nat
      BY <3>1, CurrentCall, ServerAssumption DEF InUpspeed
    <3>3. pc'[p] = "idle"
      BY <2>5, <3>2, Zenon DEF RecvEcho, Returns, TypeOK
    <3>4. Connected(Call(p)) /\ ~Unconnected(Call(p))
      BY <3>1, <3>2, SMT DEF Connected, Unconnected, ToCome, Current
    <3>5. peer[Call(p)] = "open"
      BY <3>2, <3>4 DEF PeerInv
    <3>6. \A c \in Calls : Connected(c)' => c # Call(p)
      BY <3>1, <3>2, <3>3, Zenon DEF Connected, Current
    <3>7. \A c \in Calls : peer'[c] = IF c = Call(p) THEN "fin" ELSE peer[c]
      BY <3>1, Zenon DEF TypeOK
    <3>8. at # "start"
      BY <3>2, <3>5 DEF PeerInv
    <3>9. \A c \in Calls : Connected(c)' => Connected(c)
      BY <1>3, <2>5, <3>1, Phases, Zenon DEF Connect
    <3> QED
      BY <2>1, <2>2, <3>4, <3>6, <3>7, <3>8, <3>9, Zenon DEF PeerInv
  <2>6. CASE Kill(p)
    <3>1. pc'[p] = "dead" /\ n' = n
      BY <2>6, Zenon DEF Kill, TypeOK
    <3>2. \A c \in Calls :
            /\ c[1] # p \/ peer[c] # "open" => peer'[c] = peer[c]
            /\ peer[c] = "none" => peer'[c] = "none"
      BY <2>6, Zenon DEF Kill
    <3>3. \A c \in Calls : Connected(c)' => c[1] # p /\ Connected(c)
      <4> SUFFICES ASSUME NEW c \in Calls, Connected(c)'
                   PROVE  c[1] # p /\ Connected(c)
        OBVIOUS
      <4>1. c[1] # p
        BY <3>1, Zenon DEF Connected, Current
      <4>2. pc'[c[1]] = pc[c[1]] /\ n'[c[1]] = n[c[1]]
        BY <1>3, <4>1, Others, CallPair
      <4> QED
        BY <4>1, <4>2 DEF Connected, Current
    <3> QED
      BY <2>1, <2>2, <3>2, <3>3, Zenon DEF PeerInv
  <2> QED
    BY <1>3, <2>3, <2>4, <2>5, <2>6
       DEF upspeed, InCall, ConnectFails, SendText, RecvEchoFails
<1>4. CASE UNCHANGED vars
  BY <1>4, Zenon DEF vars, PeerInv, Unconnected, Connected, ToCome, Current
<1> QED
  BY <1>2, <1>3, <1>4 DEF Next

(* Resets stay, and a dead server accepts no connection. *)
LEMMA DeathStep ==
  ASSUME TypeOK, Serving, SocketInv, PeerInv, DiesOnlyOfReset, [Next]_vars
  PROVE  DiesOnlyOfReset'
<1> USE DEF server, client, net, history
<1>1. ASSUME peer' = peer, failed' = failed, at' = "dead" => at = "dead"
      PROVE  DiesOnlyOfReset'
  BY <1>1, Zenon DEF DiesOnlyOfReset
<1>2. CASE StartIPCServer
  BY <1>2, Zenon DEF StartIPCServer, DiesOnlyOfReset
<1>3. CASE Accept \/ RecvText \/ RecvClosed \/ SetTimeScale \/ Send
  BY <1>1, <1>3 DEF Accept, RecvText, RecvClosed, SetTimeScale, Send
<1>4. CASE RecvFails
  <2>1. sock \in Calls /\ peer[sock] = "reset" /\ peer' = peer
    BY <1>4 DEF RecvFails, Serving
  <2> QED
    BY <2>1, Zenon DEF DiesOnlyOfReset
<1>5. CASE HostCallFails
  BY <1>5 DEF HostCallFails, DiesOnlyOfReset
<1>6. ASSUME NEW p \in Clients, upspeed(p) \/ InCall(p) \/ Kill(p)
      PROVE  DiesOnlyOfReset'
  <2>1. at' = at /\ failed' = failed
    BY <1>6 DEF upspeed, InCall, Connect, ConnectFails, SendText, RecvEcho,
                RecvEchoFails, Kill
  <2>2. CASE peer' = peer
    BY <1>1, <2>1, <2>2
  <2>3. CASE Connect(p)
    BY <2>1, <2>3 DEF Connect, Listens, DiesOnlyOfReset
  <2>4. CASE RecvEcho(p)
    <3>1. pc[p] = "recv" /\ peer' = [peer EXCEPT ![Call(p)] = "fin"]
      BY <2>4 DEF RecvEcho
    <3>2. Call(p) \in Calls /\ Call(p)[1] = p /\ Call(p)[2] = n[p]
      BY <3>1, CurrentCall DEF InUpspeed
    <3>3. peer[Call(p)] = "open"
      BY <3>1, <3>2, Zenon DEF PeerInv, Connected, Current
    <3>4. \A c \in Calls : peer'[c] = IF c = Call(p) THEN "fin" ELSE peer[c]
      BY <3>1, Zenon DEF TypeOK
    <3> QED
      BY <2>1, <3>2, <3>3, <3>4, Zenon DEF DiesOnlyOfReset
  <2>5. CASE Kill(p)
    <3>1. \A c \in Calls : peer[c] # "open" => peer'[c] = peer[c]
      BY <2>5, Zenon DEF Kill
    <3> QED
      BY <2>1, <3>1, Zenon DEF DiesOnlyOfReset
  <2> QED
    BY <1>6, <2>2, <2>3, <2>4, <2>5
       DEF upspeed, InCall, ConnectFails, SendText, RecvEchoFails
<1>7. CASE UNCHANGED vars
  BY <1>1, <1>7 DEF vars
<1> QED
  BY <1>2, <1>3, <1>4, <1>5, <1>6, <1>7 DEF Next, Server
-------------------------------------------------------------------------------
LEMMA FailedFinite ==
  ASSUME NEW p \in Clients
  PROVE  IsFiniteSet(Failed(p)) /\ Cardinality(Failed(p)) \in Nat
<1>1. IsFiniteSet({p}) /\ IsFiniteSet(1 .. MaxCalls)
  <2>1. 1 \in Int /\ MaxCalls \in Int
    BY ServerAssumption
  <2>2. IsFiniteSet(1 .. MaxCalls)
    BY <2>1, FS_Interval, Zenon
  <2> QED
    BY <2>2, FS_Singleton, Zenon
<1>2. IsFiniteSet({p} \X (1 .. MaxCalls))
  BY <1>1, FS_Product
<1>3. Failed(p) \subseteq {p} \X (1 .. MaxCalls)
  <2> SUFFICES ASSUME NEW c \in Failed(p)
               PROVE  c \in {p} \X (1 .. MaxCalls)
    OBVIOUS
  <2>1. c \in Calls /\ c[1] = p
    BY DEF Failed
  <2> QED
    BY <2>1, CallPair
<1> QED
  BY <1>2, <1>3, FS_Subset, FS_CardinalityType

(* A call that returns -1 is one failed call more, another result is not. *)
LEMMA FailedMore ==
  ASSUME TypeOK, NEW c \in Calls, result[c] = "none",
         NEW r \in {"0", "-1"}, result' = [result EXCEPT ![c] = r]
  PROVE  Cardinality(Failed(c[1])') =
           Cardinality(Failed(c[1])) + (IF r = "-1" THEN 1 ELSE 0)
<1> DEFINE p == c[1]
<1>1. p \in Clients
  BY CallPair
<1>2. \A x \in Calls : result'[x] = IF x = c THEN r ELSE result[x]
  BY Zenon DEF TypeOK
<1>3. c \notin Failed(p)
  BY DEF Failed
<1>4. CASE r = "-1"
  <2>1. Failed(p)' = Failed(p) \cup {c}
    BY <1>2, <1>4 DEF Failed
  <2> QED
    BY <1>1, <1>3, <1>4, <2>1, FailedFinite, FS_AddElement
<1>5. CASE r = "0"
  <2>1. Failed(p)' = Failed(p)
    BY <1>2, <1>5 DEF Failed
  <2> QED
    BY <1>1, <1>5, <2>1, FailedFinite
<1> QED
  BY <1>4, <1>5

LEMMA SocketStep ==
  ASSUME TypeOK, SocketInv, [Next]_vars
  PROVE  SocketInv'
<1> USE DEF server, client, net, history
<1>1. ASSUME UNCHANGED <<pc, n, fds, result>>
      PROVE  SocketInv'
  BY <1>1, Zenon DEF SocketInv, Unreturned, ToCome, Current, Failed
<1>2. CASE Server \/ HostCallFails
  BY <1>1, <1>2 DEF Server, StartIPCServer, Accept, RecvText, RecvClosed,
                    RecvFails, SetTimeScale, Send, HostCallFails, Die
<1>3. ASSUME NEW p \in Clients, upspeed(p) \/ InCall(p) \/ Kill(p)
      PROVE  SocketInv'
  <2> DEFINE Fine(q) ==
        /\ pc'[q] \in InUpspeed => n'[q] >= 1 /\ fds'[q] >= 1
        /\ pc'[q] = "idle" => fds'[q] <= Cardinality(Failed(q)')
        /\ pc'[q] \in InUpspeed => fds'[q] <= Cardinality(Failed(q)') + 1
        /\ \A c \in Calls : c[1] = q /\ Unreturned(c)' => result'[c] = "none"
  <2>1. \A c \in Calls : Unreturned(c)' => Unreturned(c)
    BY <1>3, Phases
  <2>2. ASSUME NEW q \in Clients, q # p
        PROVE  Fine(q)
    <3>1. pc'[q] = pc[q] /\ n'[q] = n[q] /\ fds'[q] = fds[q]
      BY <1>3, <2>2, Others
    <3>2. \A c \in Calls : c[1] = q => result'[c] = result[c]
      BY <1>3, <2>2, Others
    <3>3. Failed(q)' = Failed(q)
      BY <3>2 DEF Failed
    <3>4. \A c \in Calls : Unreturned(c) => result[c] = "none"
      BY DEF SocketInv
    <3> QED
      BY <2>1, <3>1, <3>2, <3>3, <3>4, Zenon DEF SocketInv
  <2>3. /\ Cardinality(Failed(p)) \in Nat /\ fds[p] \in Nat /\ n[p] \in Nat
        /\ fds[p] <= MaxFds
    BY FailedFinite, ServerAssumption, SMT DEF TypeOK
  <2>4. ASSUME NEW c \in Calls, c[1] = p, result[c] = "none",
               NEW r \in {"0", "-1"}, result' = [result EXCEPT ![c] = r],
               pc'[p] = "idle", n'[p] = c[2],
               IF r = "-1" THEN fds'[p] <= Cardinality(Failed(p)) + 1
                           ELSE fds'[p] <= Cardinality(Failed(p))
        PROVE  Fine(p)
    <3>1. Cardinality(Failed(p)') =
            Cardinality(Failed(p)) + (IF r = "-1" THEN 1 ELSE 0)
      BY <2>4, FailedMore
    <3>2. \A x \in Calls : result'[x] = IF x = c THEN r ELSE result[x]
      BY <2>4, Zenon DEF TypeOK
    <3>3. ASSUME NEW x \in Calls, x[1] = p, Unreturned(x)'
          PROVE  result'[x] = "none"
      <4>1. x[2] > n'[p] /\ x[2] \in Nat /\ c[2] \in Nat
        BY <2>4, <3>3, CallPair DEF Unreturned, ToCome, Current, InUpspeed
      <4>2. x # c
        BY <2>4, <4>1, SMT
      <4>3. result[x] = "none"
        BY <2>1, <3>3 DEF SocketInv
      <4> QED
        BY <3>2, <4>2, <4>3
    <3>4. fds'[p] <= Cardinality(Failed(p)')
      BY <2>3, <2>4, <3>1, SMT
    <3>5. pc'[p] \notin InUpspeed
      BY <2>4 DEF InUpspeed
    <3> QED
      BY <2>4, <3>3, <3>4, <3>5, Zenon
  <2>5. ASSUME result' = result
        PROVE  /\ Failed(p)' = Failed(p)
               /\ \A c \in Calls : Unreturned(c)' => result'[c] = "none"
    BY <2>1, <2>5 DEF Failed, SocketInv
  <2>6. ASSUME upspeed(p) PROVE Fine(p)
    <3> DEFINE c == <<p, n[p] + 1>>
    <3>1. /\ c \in Calls /\ c[1] = p /\ c[2] = n[p] + 1 /\ pc[p] = "idle"
          /\ fds[p] <= Cardinality(Failed(p))
      <4>1. n[p] + 1 \in 1 .. MaxCalls /\ pc[p] = "idle"
        BY <2>3, <2>6, ServerAssumption, SMT DEF upspeed
      <4> QED
        BY <4>1, CallPair DEF SocketInv
    <3>2. n'[p] = n[p] + 1
      BY <2>6, SMT DEF upspeed, TypeOK
    <3>3. CASE fds[p] = MaxFds
      <4>1. Unreturned(c)
        BY <2>3, <3>1, SMT DEF Unreturned, ToCome
      <4>2. result[c] = "none"
        BY <3>1, <4>1 DEF SocketInv
      <4>3. result' = [result EXCEPT ![c] = "-1"] /\ fds' = fds
            /\ pc' = [pc EXCEPT ![c[1]] = "idle"]
        BY <2>6, <3>3 DEF upspeed, Returns
      <4>4. pc'[p] = "idle"
        BY <3>1, <4>3, Zenon DEF TypeOK
      <4>5. fds'[p] <= Cardinality(Failed(p)) + 1
        BY <2>3, <3>1, <4>3, SMT
      <4> HIDE DEF c
      <4> QED
        BY <2>4, <3>1, <3>2, <4>2, <4>3, <4>4, <4>5
    <3>4. CASE fds[p] # MaxFds
      <4>1. result' = result /\ pc' = [pc EXCEPT ![p] = "connect"]
            /\ fds' = [fds EXCEPT ![p] = fds[p] + 1]
        BY <2>6, <3>4 DEF upspeed
      <4>2. pc'[p] = "connect" /\ fds'[p] = fds[p] + 1
        BY <4>1, Zenon DEF TypeOK
      <4> QED
        BY <2>3, <2>5, <3>1, <3>2, <4>1, <4>2, SMT
    <3> QED
      BY <3>3, <3>4
  <2>7. ASSUME InCall(p) PROVE Fine(p)
    <3>1. pc[p] \in InUpspeed /\ n' = n
      BY <2>7 DEF InCall, Connect, ConnectFails, SendText, RecvEcho,
                  RecvEchoFails, InUpspeed
    <3>2. Call(p) \in Calls /\ Call(p)[1] = p /\ Call(p)[2] = n[p]
      BY <3>1, CurrentCall
    <3>3. result[Call(p)] = "none"
      BY <3>1, <3>2 DEF SocketInv, Unreturned, Current
    <3>4. fds[p] <= Cardinality(Failed(p)) + 1 /\ fds[p] >= 1 /\ n[p] >= 1
      BY <3>1 DEF SocketInv
    <3>5. ASSUME NEW r \in {"0", "-1"}, Returns(Call(p), r),
                 IF r = "-1" THEN fds'[p] <= Cardinality(Failed(p)) + 1
                             ELSE fds'[p] <= Cardinality(Failed(p))
          PROVE  Fine(p)
      <4>1. pc'[p] = "idle" /\ result' = [result EXCEPT ![Call(p)] = r]
        BY <3>2, <3>5, Zenon DEF Returns, TypeOK
      <4> QED
        BY <2>4, <3>1, <3>2, <3>3, <3>5, <4>1
    <3>6. CASE Connect(p) \/ (SendText(p) /\ at # "dead")
      <4>1. result' = result /\ fds' = fds /\ pc'[p] \in InUpspeed
        BY <3>6, Zenon DEF Connect, SendText, InUpspeed, TypeOK
      <4>2. pc'[p] # "idle"
        BY <4>1 DEF InUpspeed
      <4> QED
        BY <2>5, <3>1, <3>4, <4>1, <4>2, Zenon
    <3>7. CASE ConnectFails(p) \/ RecvEchoFails(p)
               \/ (SendText(p) /\ at = "dead")
      <4>1. Returns(Call(p), "-1") /\ fds' = fds
        BY <3>7 DEF ConnectFails, RecvEchoFails, SendText
      <4> QED
        BY <3>4, <3>5, <4>1
    <3>8. CASE RecvEcho(p)
      <4>1. Returns(Call(p), "0") /\ fds'[p] = fds[p] - 1
        BY <3>8, SMT DEF RecvEcho, TypeOK
      <4>2. fds'[p] <= Cardinality(Failed(p))
        BY <2>3, <3>4, <4>1, SMT
      <4> QED
        BY <3>5, <4>1, <4>2
    <3> QED
      BY <2>7, <3>6, <3>7, <3>8 DEF InCall
  <2>8. ASSUME Kill(p) PROVE Fine(p)
    <3>1. result' = result /\ pc'[p] = "dead"
      BY <2>8, Zenon DEF Kill, TypeOK
    <3> QED
      BY <2>5, <3>1, Zenon DEF InUpspeed
  <2>9. \A q \in Clients : Fine(q)
    BY <1>3, <2>2, <2>6, <2>7, <2>8
  <2> QED
    BY <2>9, CallPair, Zenon DEF SocketInv
<1>4. CASE UNCHANGED vars
  BY <1>1, <1>4 DEF vars
<1> QED
  BY <1>2, <1>3, <1>4 DEF Next
-------------------------------------------------------------------------------
LEMMA IInvInit == Init => IInv
<1> SUFFICES ASSUME Init
             PROVE  IInv
  OBVIOUS
<1>1. TypeOK
  <2>1. /\ pc \in [Clients -> {"idle", "connect", "send", "recv", "dead"}]
        /\ arg \in [Calls -> Inputs \cup {0}]
        /\ peer \in [Calls -> {"none", "open", "fin", "reset"}]
        /\ result \in [Calls -> {"none", "0", "-1"}]
    BY Zenon DEF Init
  <2>2. n \in [Clients -> 0 .. MaxCalls] /\ fds \in [Clients -> 0 .. MaxFds]
    BY ServerAssumption, SMT DEF Init
  <2>3. queue \in Seq(Calls) /\ Len(queue) <= Backlog /\ applied \in Seq(Calls)
    BY ServerAssumption, SMT DEF Init
  <2>4. g_times \in Nat \ {0}
    BY DEF Init
  <2> QED
    BY <2>1, <2>2, <2>3, <2>4 DEF Init, TypeOK
<1>2. applied = <<>> /\ DOMAIN applied = {} /\ \A c : ~Applied(c)
  BY SMT DEF Init, Applied
<1>3. Serving /\ DiesOnlyOfReset
  BY DEF Init, Serving, DiesOnlyOfReset
<1>4. OneText /\ EchoAfter
  BY <1>2, Zenon DEF Init, OneText, EchoAfter
<1>5. PeerInv
  BY CallPair, Zenon DEF Init, PeerInv, Connected, Current
<1>6. SocketInv
  <2>1. \A p \in Clients : pc[p] = "idle" /\ fds[p] = 0
                           /\ Cardinality(Failed(p)) \in Nat
    BY FailedFinite, Zenon DEF Init
  <2>2. \A c \in Calls : result[c] = "none"
    BY Zenon DEF Init
  <2> QED
    BY <2>1, <2>2, SMT DEF SocketInv, InUpspeed
<1> QED
  BY <1>1, <1>3, <1>4, <1>5, <1>6 DEF IInv

LEMMA IInvStep == IInv /\ [Next]_vars => IInv'
BY TypeStep, ServingStep, OneTextStep, EchoStep, PeerStep, SocketStep,
   DeathStep DEF IInv

LEMMA IInvAlways == Spec => []IInv
BY IInvInit, IInvStep, PTL DEF Spec

(* Every variable keeps its type: the kernel's queue never holds more than  *)
(* MAXPENDING connections, no process more sockets than it may, and no      *)
(* request makes the speed zero or negative.                                *)
THEOREM TypeCorrect == Spec => []TypeOK
<1>1. IInv => TypeOK
  BY DEF IInv
<1> QED
  BY <1>1, IInvAlways, PTL

(* However the processes' calls, deaths and interruptions interleave with   *)
(* HandleClient, a call of upspeed that returned 0 was applied, and none    *)
(* was applied twice.                                                       *)
THEOREM AckedOnceCorrect == Spec => []AckedOnce
<1>1. IInv => AckedOnce
  <2> SUFFICES ASSUME IInv, NEW c \in Calls
               PROVE  /\ result[c] = "0" => Applied(c)
                      /\ Cardinality({i \in DOMAIN applied : applied[i] = c})
                           <= 1
    BY DEF AckedOnce, Applied
  <2> DEFINE T == {i \in DOMAIN applied : applied[i] = c}
  <2>1. result[c] = "0" => Applied(c)
    BY DEF IInv, EchoAfter
  <2>2. CASE T = {}
    BY <2>1, <2>2, FS_EmptySet
  <2>3. CASE T # {}
    <3>1. PICK i \in T : TRUE
      BY <2>3
    <3>2. T = {i}
      BY <3>1 DEF IInv, OneText
    <3> QED
      BY <2>1, <3>2, FS_Singleton
  <2> QED
    BY <2>2, <2>3
<1> QED
  BY <1>1, IInvAlways, PTL

(* Only a client that dies with its echo unread ends the server, a socket,  *)
(* bind or listen that failed, or an accept or recv that failed for a       *)
(* reason of the application's own.                                         *)
THEOREM DiesOnlyOfResetCorrect == Spec => []DiesOnlyOfReset
<1>1. IInv => DiesOnlyOfReset
  BY DEF IInv
<1> QED
  BY <1>1, IInvAlways, PTL

(* Between its calls a process holds no more sockets than calls of it have  *)
(* failed.                                                                  *)
THEOREM LeakOnlyOnFailureCorrect == Spec => []LeakOnlyOnFailure
<1>1. IInv => LeakOnlyOnFailure
  BY DEF IInv, SocketInv, LeakOnlyOnFailure, Failed
<1> QED
  BY <1>1, IInvAlways, PTL
===============================================================================
