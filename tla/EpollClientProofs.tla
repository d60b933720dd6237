--------------------------- MODULE EpollClientProofs --------------------------
(***************************************************************************)
(* Theorems about EpollClient, for any number of descriptors, sessions and *)
(* files: an application that follows one session by the next, and closes  *)
(* a session at most as its last call, is not harmed by the descriptors    *)
(* the kernel gives out again.                                             *)
(***************************************************************************)
EXTENDS EpollClient, WellFoundedInduction, TLAPS

(* Where the Java thread is in startClient, and in sendMessageToServer. *)
Starting == {"connect", "create", "ctl"}
Sending == {"send", "write"}

(* The thread of a session that has the socket, and a session whose thread  *)
(* has, or that has none.                                                   *)
AtWork == {"poll", "wait", "check", "close"}
Holding == AtWork \cup {"unstarted"}
Held == \E e \in Sessions : e = session /\ pc[e] \in Holding

(* A start in progress is that of a session, and a closeClient in progress  *)
(* has loaded a descriptor.                                                 *)
Started ==
  /\ step \in Starting => session \in Sessions
  /\ step = "drop" => out \in Fds

(* One session follows the other, and each waits on its own instance. *)
OneThread ==
  /\ \A e \in Sessions :
       /\ e > session => pc[e] = "none"
       /\ e # session => pc[e] \in {"none", "done", "unstarted"}
       /\ on[e] = e
  /\ step \in Starting => pc[session] = "none"

(* The globals hold the descriptors of the session that is being started,   *)
(* or at work, and listener holds none after its end.                       *)
OwnDescriptors ==
  alive =>
    /\ step \in Starting => At(listener) = Sock(session) /\ ~closed
    /\ step = "ctl" => At(epfd) = Epoll(session)
    /\ \A e \in Sessions :
         /\ pc[e] \in AtWork => At(epfd) = Epoll(e) /\ watch[e].fd = listener
         /\ e = session /\ pc[e] \in Holding /\ ~closed =>
              At(listener) = Sock(e)
         /\ pc[e] = "check" => events = listener
    /\ listener > 1 =>
         step \in Starting \/ Held \/ \E e \in Sessions : pc[e] = "reset"

(* Listener is the only descriptor of a session's socket, unless the        *)
(* session has no thread, and none after closeClient or the thread's close. *)
OneSocket ==
  alive =>
    \A f \in Fds, s \in Sessions :
      table[f] = Sock(s) /\ pc[s] # "unstarted" =>
        f = listener /\ s = session /\ ~closed /\ pc[s] # "reset"

(* A call in progress has loaded the session's own descriptor, unless it is *)
(* late; closeClient and the handling of an event exclude each other.       *)
CallInv ==
  alive =>
    /\ step \in Sending \cup {"drop"} => ~closed
    /\ step = "drop" => out = listener /\ Held
    /\ step \in Sending /\ ~late => Held
    /\ step = "write" /\ ~late => out = listener
    /\ Handling => ~closed /\ step # "drop"

(* ev.events is set once a session has started. *)
MaskSet == \A e \in Sessions : pc[e] # "none" => mask = "all"

(* The first session is added to epoll before that. *)
FirstUnmasked ==
  /\ session = 0 => mask = "none"
  /\ session = 1 /\ pc[1] = "none" => mask = "none"
  /\ session = 1 /\ pc[1] # "none" => watch[1].mask = "none"

Single ==
  /\ OneThread /\ OwnDescriptors /\ OneSocket /\ CallInv
  /\ MaskSet /\ FirstUnmasked

IInv ==
  /\ TypeOK /\ Started
  /\ HarmNeedsMisuse
  /\ FirstEndsWithServer
  /\ ~misuse => Single
-------------------------------------------------------------------------------
(* The objects of a process are told apart. *)
LEMMA Distinct ==
  /\ Nothing \in Objects /\ File \in Objects /\ File # Nothing
  /\ \A s \in Sessions : /\ Sock(s) \in Objects /\ Epoll(s) \in Objects
                         /\ Sock(s) # Nothing /\ Sock(s) # File
                         /\ Epoll(s) # Nothing /\ Epoll(s) # File
  /\ \A s, e \in Sessions : /\ Sock(s) # Epoll(e)
                            /\ Sock(s) = Sock(e) => s = e
                            /\ Epoll(s) = Epoll(e) => s = e
BY DEF Objects, Nothing, File, Sock, Epoll

LEMMA Descriptors ==
  /\ Fds \subseteq Nat /\ -1 \notin Fds /\ 0 \notin Fds
  /\ \A f \in Fds : f > 1
  /\ Sessions \subseteq Nat \ {0} /\ MaxStarts \in Nat
BY ClientAssumption, SMT DEF Fds, Sessions

(* The kernel's lowest free descriptor is one. *)
LEMMA LowestFree ==
  ASSUME Free # {}
  PROVE  Lowest \in Free
<1>1. Free \subseteq Nat
  BY Descriptors DEF Free
<1>2. IsWellFoundedOn(OpToRel(<, Nat), Nat)
  BY NatLessThanWellFounded
<1>3. PICK f \in Free : \A g \in Free : ~ (<<g, f>> \in OpToRel(<, Nat))
  BY <1>1, <1>2, WFMin
<1>4. \A g \in Free : f <= g
  <2> TAKE g \in Free
  <2>1. ~(g < f)
    BY <1>1, <1>3 DEF OpToRel
  <2> QED
    BY <1>1, <2>1, SMT
<1> QED
  BY <1>3, <1>4 DEF Lowest

(* An open takes a free descriptor, and leaves the others alone. *)
LEMMA OpensAt ==
  ASSUME TypeOK, Free # {}, NEW o \in Objects, Opens(o)
  PROVE  /\ table' \in [Fds -> Objects]
         /\ Lowest \in Fds /\ table[Lowest] = Nothing
         /\ \A f \in Fds : table'[f] = IF f = Lowest THEN o ELSE table[f]
<1>1. Lowest \in Fds /\ table[Lowest] = Nothing
  BY LowestFree DEF Free
<1> QED
  BY <1>1, Zenon DEF Opens, TypeOK

LEMMA ClosesAt ==
  ASSUME TypeOK, NEW f \in Fds, Closes(f)
  PROVE  /\ table' \in [Fds -> Objects]
         /\ \A g \in Fds : table'[g] = IF g = f THEN Nothing ELSE table[g]
         /\ edge' \subseteq Sessions
<1>1. edge' \subseteq edge
  BY DEF Closes
<1> QED
  BY <1>1, Distinct, Zenon DEF Closes, TypeOK

(* A descriptor that stands for a socket is one. *)
LEMMA AtFd ==
  ASSUME NEW f, At(f) # Nothing
  PROVE  f \in Fds /\ table[f] = At(f)
BY DEF At

LEMMA TypeInit == Init => TypeOK /\ Started
<1> SUFFICES ASSUME Init PROVE TypeOK /\ Started
  OBVIOUS
<1>1. 0 \in 0 .. MaxStarts
  BY Descriptors, SMT
<1> QED
  BY <1>1, Distinct DEF Init, TypeOK, Started, Steps, Points, Starting

LEMMA GotoType ==
  ASSUME TypeOK, NEW t \in Sessions,
         NEW to \in {"poll", "wait", "check", "close", "reset", "done"},
         Goto(t, to)
  PROVE  /\ pc' \in [Sessions -> Points]
         /\ \A e \in Sessions : pc'[e] = IF e = t THEN to ELSE pc[e]
BY Zenon DEF Goto, TypeOK, Points

LEMMA TypeStep ==
  ASSUME TypeOK, Started, [Next]_vars
  PROVE  TypeOK' /\ Started'
<1> USE DEF globals, kernel, threads, history, Starting
<1>1. listener > 1 => listener \in Fds
  BY Descriptors, SMT DEF TypeOK
<1>2. CASE Socket
  <2>1. session' \in Sessions /\ session' \in 0 .. MaxStarts
        /\ session' = session + 1
    BY <1>2, Descriptors, SMT DEF Socket, TypeOK, Sessions
  <2>2. misuse' \in BOOLEAN
    BY <1>2, Zenon DEF Socket
  <2>3. CASE Free = {}
    BY <1>2, <2>1, <2>2, <2>3, Zenon DEF Socket, Exit, TypeOK, Started, Steps
  <2>4. CASE Free # {}
    <3>1. table' \in [Fds -> Objects] /\ listener' \in Fds
      BY <1>2, <2>1, <2>4, Distinct, OpensAt DEF Socket
    <3> QED
      BY <1>2, <2>1, <2>2, <2>4, <3>1, Zenon DEF Socket, TypeOK, Started, Steps
  <2> QED
    BY <2>3, <2>4
<1>3. CASE Connect
  <2>1. refused' \in BOOLEAN /\ alive' \in BOOLEAN
    BY <1>3, Zenon DEF Connect, Exit, TypeOK
  <2>2. /\ step' \in {"connect", "create"}
        /\ step = "connect"
    BY <1>3, Zenon DEF Connect
  <2>3. peer' \in [Sessions -> {"none", "open", "closed"}]
    BY <1>3, Zenon DEF Connect, TypeOK
  <2> QED
    BY <1>3, <2>1, <2>2, <2>3, Zenon DEF Connect, TypeOK, Started, Steps
<1>4. CASE EpollCreate
  <2>1. CASE Free = {}
    BY <1>4, <2>1, Zenon DEF EpollCreate, Exit, TypeOK, Started, Steps
  <2>2. CASE Free # {}
    <3>1. table' \in [Fds -> Objects] /\ epfd' \in Fds
      BY <1>4, <2>2, Distinct, OpensAt DEF EpollCreate, Started
    <3> QED
      BY <1>4, <2>2, <3>1, Zenon DEF EpollCreate, TypeOK, Started, Steps
  <2> QED
    BY <2>1, <2>2
<1>5. CASE EpollCtl
  <2>1. CASE At(listener) = Sock(session)
    <3>1. session \in Sessions
      BY <1>5 DEF EpollCtl, Started
    <3>2. listener \in Fds
      BY <2>1, <3>1, Distinct, AtFd
    <3>3. [fd |-> listener, mask |-> mask]
             \in [fd : Fds \cup {0}, mask : {"none", "all"}]
      BY <3>2 DEF TypeOK
    <3>4. watch' \in [Sessions -> [fd : Fds \cup {0}, mask : {"none", "all"}]]
      BY <1>5, <2>1, <3>3, Zenon DEF EpollCtl, TypeOK
    <3>5. pc' \in [Sessions -> Points]
      BY <1>5, <2>1, Zenon DEF EpollCtl, TypeOK, Points
    <3> QED
      BY <1>5, <2>1, <3>4, <3>5, Zenon DEF EpollCtl, TypeOK, Started, Steps
  <2>2. CASE At(listener) # Sock(session)
    BY <1>5, <2>2, Zenon DEF EpollCtl, Exit, TypeOK, Started, Steps
  <2> QED
    BY <2>1, <2>2
<1>6. CASE closeClient
  <2>1. CASE CloseLoad
    <3>1. misuse' \in BOOLEAN /\ out' \in Fds
      BY <1>1, <2>1, Zenon DEF CloseLoad
    <3> QED
      BY <2>1, <3>1, Zenon DEF CloseLoad, TypeOK, Started, Steps
  <2>2. CASE CloseFd
    <3>1. stray' \subseteq {"close", "write"}
      BY <2>2 DEF CloseFd, TypeOK
    <3>2. out \in Fds
      BY <2>2 DEF CloseFd, Started
    <3>3. table' \in [Fds -> Objects] /\ edge' \subseteq Sessions
      BY <2>2, <3>2, ClosesAt DEF CloseFd
    <3> QED
      BY <2>2, <3>1, <3>3, Zenon DEF CloseFd, TypeOK, Started, Steps
  <2> QED
    BY <1>6, <2>1, <2>2 DEF closeClient
<1>7. CASE sendMessageToServer
  <2>1. CASE SendTest
    <3>1. misuse' \in BOOLEAN /\ late' \in BOOLEAN
      BY <2>1, Zenon DEF SendTest
    <3> QED
      BY <2>1, <3>1, Zenon DEF SendTest, TypeOK, Started, Steps
  <2>2. CASE SendLoad
    BY <2>2, Zenon DEF SendLoad, TypeOK, Started, Steps
  <2>3. CASE SendWrite
    <3>1. stray' \subseteq {"close", "write"}
      BY <2>3 DEF SendWrite, TypeOK
    <3> QED
      BY <2>3, <3>1, Zenon DEF SendWrite, TypeOK, Started, Steps
  <2> QED
    BY <1>7, <2>1, <2>2, <2>3 DEF sendMessageToServer
<1>8. ASSUME NEW t \in Sessions, start_thread(t) PROVE TypeOK' /\ Started'
  <2> SUFFICES TypeOK'
    <3>1. UNCHANGED <<session, step, out>>
      BY <1>8, Zenon
         DEF start_thread, EpollWait, EpollReturns, Check, Close, Reset
    <3> QED
      BY <3>1 DEF Started
  <2>1. CASE EpollWait(t)
    <3>1. CASE {e \in Sessions : At(epfd) = Epoll(e)} = {}
      BY <2>1, <3>1, Zenon DEF EpollWait, Exit, TypeOK
    <3>2. CASE {e \in Sessions : At(epfd) = Epoll(e)} # {}
      <4>1. PICK e \in Sessions : on' = [on EXCEPT ![t] = e]
        BY <2>1, <3>2 DEF EpollWait
      <4>2. on' \in [Sessions -> Sessions]
        BY <4>1, Zenon DEF TypeOK
      <4>3. Goto(t, "wait")
        BY <2>1, <3>2 DEF EpollWait
      <4> QED
        BY <2>1, <3>2, <4>2, <4>3, GotoType, Zenon
           DEF EpollWait, TypeOK
    <3> QED
      BY <3>1, <3>2
  <2>2. CASE EpollReturns(t)
    <3>1. watch[on[t]].fd \in Fds
      <4>1. on[t] \in Sessions /\ At(watch[on[t]].fd) = Sock(on[t])
        BY <2>2 DEF EpollReturns, HasEvent, TypeOK
      <4> QED
        BY <4>1, Distinct, AtFd
    <3>2. Goto(t, "check")
      BY <2>2 DEF EpollReturns
    <3> QED
      BY <2>2, <3>1, <3>2, GotoType, Zenon DEF EpollReturns, TypeOK
  <2>3. CASE Check(t)
    <3>1. pc' \in [Sessions -> Points]
      BY <2>3, GotoType DEF Check, TypeOK
    <3>2. listener' \in Fds \cup {-1} /\ alive' \in BOOLEAN
      BY <2>3, Zenon DEF Check, Exit, TypeOK
    <3> QED
      BY <2>3, <3>1, <3>2, Zenon DEF Check, TypeOK
  <2>4. CASE Close(t)
    <3>1. CASE At(listener) = Nothing
      BY <2>4, <3>1, Zenon DEF Close, Exit, TypeOK
    <3>2. CASE At(listener) # Nothing
      <4>1. table' \in [Fds -> Objects] /\ edge' \subseteq Sessions
        BY <2>4, <3>2, AtFd, ClosesAt DEF Close
      <4>2. stray' \subseteq {"close", "write"}
        BY <2>4, <3>2 DEF Close, TypeOK
      <4>3. Goto(t, "reset") /\ alive' = alive
        BY <2>4, <3>2 DEF Close
      <4> QED
        BY <2>4, <4>1, <4>2, <4>3, GotoType, Zenon DEF Close, TypeOK
    <3> QED
      BY <3>1, <3>2
  <2>5. CASE Reset(t)
    <3>1. Goto(t, "done")
      BY <2>5 DEF Reset
    <3> QED
      BY <2>5, <3>1, GotoType, Zenon DEF Reset, TypeOK
  <2> QED
    BY <1>8, <2>1, <2>2, <2>3, <2>4, <2>5 DEF start_thread
<1>9. ASSUME NEW e \in Sessions, ServerSends(e) \/ ServerCloses(e)
      PROVE  TypeOK' /\ Started'
  <2>1. edge' \subseteq Sessions
    BY <1>9 DEF ServerSends, ServerCloses, TypeOK
  <2>2. peer' \in [Sessions -> {"none", "open", "closed"}]
    BY <1>9, Zenon DEF ServerSends, ServerCloses, TypeOK
  <2> QED
    BY <1>9, <2>1, <2>2, Zenon DEF ServerSends, ServerCloses, TypeOK, Started
<1>10. CASE OpenFile
  <2>1. table' \in [Fds -> Objects]
    BY <1>10, Distinct, OpensAt DEF OpenFile
  <2> QED
    BY <1>10, <2>1, Zenon DEF OpenFile, TypeOK, Started
<1>11. CASE CloseFile
  <2>1. table' \in [Fds -> Objects] /\ edge' \subseteq Sessions
    BY <1>11, ClosesAt DEF CloseFile
  <2> QED
    BY <1>11, <2>1, Zenon DEF CloseFile, TypeOK, Started
<1>12. CASE UNCHANGED vars
  BY <1>12 DEF vars, TypeOK, Started
<1> QED
  BY <1>2, <1>3, <1>4, <1>5, <1>6, <1>7, <1>8, <1>9, <1>10, <1>11, <1>12
     DEF Next, startClient
-------------------------------------------------------------------------------
(* While the calls follow each other, every step keeps them apart.  First   *)
(* startClient,                                                             *)
LEMMA StartStep ==
  ASSUME IInv, ~misuse', startClient
  PROVE  Single' /\ HarmNeedsMisuse' /\ FirstEndsWithServer'
<1> USE DEF globals, kernel, threads, history, Starting
<1>1. TypeOK /\ Started /\ session \in Nat /\ Sessions \subseteq Nat \ {0}
  BY Descriptors, SMT DEF IInv, TypeOK
<1>2. ~misuse
  BY Zenon DEF startClient, Socket, Connect, EpollCreate, EpollCtl
<1>3. /\ OneThread /\ OwnDescriptors /\ OneSocket /\ MaskSet /\ FirstUnmasked
      /\ "close" \notin stray /\ ("write" \in stray => late)
  BY <1>2 DEF IInv, Single, HarmNeedsMisuse
<1>4. ASSUME step \in Starting
      PROVE  /\ session \in Sessions /\ pc[session] = "none"
             /\ \A e \in Sessions : pc[e] \in {"none", "done", "unstarted"}
             /\ ~Handling /\ ~Held
  BY <1>1, <1>3, <1>4 DEF Started, OneThread, Handling, Held, Holding, AtWork
<1>5. CASE Socket
  <2>1. /\ session' = session + 1 /\ session' \in Sessions
        /\ UNCHANGED <<epfd, mask, events, peer, watch, edge, pc, on, late,
                       stray>>
        /\ alive /\ ~closed' /\ step = "idle"
    BY <1>1, <1>5, Descriptors, SMT DEF Socket, Sessions
  <2>2. \A e \in Sessions : pc[e] \in {"none", "done", "unstarted"}
    BY <1>5, Zenon DEF Socket
  <2>3. ~Handling /\ ~Handling'
    BY <2>1, <2>2 DEF Handling
  <2>4. pc[session'] = "none"
    BY <1>1, <1>3, <2>1, SMT DEF OneThread
  <2>5. OneThread'
    BY <1>1, <1>3, <2>1, <2>2, <2>4, SMT DEF OneThread
  <2>6. MaskSet'
    BY <1>3, <2>1 DEF MaskSet
  <2>7. FirstUnmasked' /\ FirstEndsWithServer'
    <3>1. session' # 0 /\ (session' = 1 => session = 0 /\ pc[1] = "none")
      BY <1>1, <2>1, <2>4, SMT
    <3> QED
      BY <1>3, <2>1, <3>1, SMT DEF FirstUnmasked, FirstEndsWithServer
  <2>8. CASE Free = {}
    <3>1. ~alive' /\ refused'
      BY <1>5, <2>8 DEF Socket, Exit
    <3>2. OwnDescriptors' /\ OneSocket' /\ CallInv' /\ HarmNeedsMisuse'
      BY <1>3, <2>1, <3>1
         DEF OwnDescriptors, OneSocket, CallInv, HarmNeedsMisuse
    <3> QED
      BY <2>5, <2>6, <2>7, <3>2 DEF Single
  <2>9. CASE Free # {}
    <3>1. /\ Opens(Sock(session')) /\ listener' = Lowest /\ step' = "connect"
          /\ alive' = alive
      BY <1>5, <2>1, <2>9 DEF Socket
    <3>2. /\ Lowest \in Fds
          /\ \A f \in Fds :
               table'[f] = IF f = Lowest THEN Sock(session') ELSE table[f]
      BY <1>1, <2>1, <2>9, <3>1, Distinct, OpensAt
    <3>3. At(listener)' = Sock(session')
      BY <3>1, <3>2, Zenon DEF At
    <3>4. OwnDescriptors'
      <4>1. \A e \in Sessions :
              pc'[e] \notin AtWork /\ (e = session' => pc'[e] \notin Holding)
        BY <2>1, <2>2, <2>4 DEF AtWork, Holding
      <4> QED
        BY <2>1, <3>1, <3>3, <4>1 DEF OwnDescriptors, AtWork
    <3>5. HarmNeedsMisuse'
      BY <1>3, <2>1, <3>1 DEF HarmNeedsMisuse
    <3>6. CallInv'
      BY <2>1, <2>3, <3>1 DEF CallInv, Sending
    <3>7. OneSocket'
      <4>1. ASSUME NEW f \in Fds, NEW e \in Sessions, f # Lowest,
                   table[f] = Sock(e), pc[e] # "unstarted"
            PROVE  FALSE
        <5>1. f = listener /\ e = session
          BY <1>3, <2>1, <4>1 DEF OneSocket
        <5>2. listener > 1
          BY <5>1, Descriptors
        <5>3. Held
          BY <1>3, <2>1, <2>2, <5>2 DEF OwnDescriptors
        <5> QED
          BY <2>2, <4>1, <5>1, <5>3 DEF Held, Holding, AtWork
      <4>2. ASSUME NEW f \in Fds, NEW e \in Sessions,
                   table'[f] = Sock(e), pc'[e] # "unstarted"
            PROVE  f = Lowest /\ e = session'
        BY <2>1, <3>2, <4>1, <4>2, Distinct
      <4> QED
        BY <2>1, <2>2, <3>1, <4>2 DEF OneSocket
    <3> QED
      BY <2>5, <2>6, <2>7, <3>4, <3>5, <3>6, <3>7 DEF Single
  <2> QED
    BY <2>8, <2>9
<1>6. CASE Connect
  <2>1. /\ UNCHANGED <<listener, epfd, mask, events, table, watch, edge,
                       session, pc, on, closed, misuse, late, stray>>
        /\ alive /\ step = "connect" /\ step' \in {"connect", "create"}
    BY <1>6 DEF Connect
  <2>2. At(listener) = Sock(session) /\ At(listener)' = Sock(session)
    BY <1>3, <2>1 DEF OwnDescriptors, At
  <2>3. ~alive' => refused'
    BY <1>6, <2>1, <2>2 DEF Connect
  <2>4. OneThread' /\ MaskSet' /\ FirstUnmasked' /\ FirstEndsWithServer'
    BY <1>3, <1>4, <2>1 DEF OneThread, MaskSet, FirstUnmasked,
                            FirstEndsWithServer
  <2>5. OwnDescriptors'
    BY <1>3, <1>4, <2>1, <2>2 DEF OwnDescriptors, AtWork, Holding
  <2>6. HarmNeedsMisuse'
    BY <1>3, <2>1, <2>3 DEF HarmNeedsMisuse
  <2>7. OneSocket' /\ CallInv'
    <3>1. ~Handling'
      BY <1>4, <2>1 DEF Handling
    <3> QED
      BY <1>3, <2>1, <3>1 DEF OneSocket, CallInv, Sending
  <2> QED
    BY <2>4, <2>5, <2>6, <2>7 DEF Single
<1>7. CASE EpollCreate
  <2>1. /\ UNCHANGED <<listener, mask, events, peer, watch, edge, session, pc,
                       on, closed, misuse, late, stray>>
        /\ alive /\ step = "create" /\ step' \in {"create", "ctl"}
    BY <1>7 DEF EpollCreate
  <2>2. OneThread' /\ MaskSet' /\ FirstUnmasked' /\ FirstEndsWithServer'
    BY <1>3, <1>4, <2>1 DEF OneThread, MaskSet, FirstUnmasked,
                            FirstEndsWithServer
  <2>3. CASE Free = {}
    <3>1. ~alive' /\ refused'
      BY <1>7, <2>3 DEF EpollCreate, Exit
    <3>2. OwnDescriptors' /\ OneSocket' /\ CallInv' /\ HarmNeedsMisuse'
      BY <1>3, <2>1, <3>1
         DEF OwnDescriptors, OneSocket, CallInv, HarmNeedsMisuse
    <3> QED
      BY <2>2, <3>2 DEF Single
  <2>4. CASE Free # {}
    <3>1. Opens(Epoll(session)) /\ epfd' = Lowest /\ alive' = alive
      BY <1>7, <2>4 DEF EpollCreate
    <3>2. /\ Lowest \in Fds /\ table[Lowest] = Nothing
          /\ \A f \in Fds :
               table'[f] = IF f = Lowest THEN Epoll(session) ELSE table[f]
      BY <1>1, <1>4, <2>1, <2>4, <3>1, Distinct, OpensAt
    <3>3. At(epfd)' = Epoll(session)
      BY <3>1, <3>2, Zenon DEF At
    <3>4. At(listener) = Sock(session) /\ Sock(session) # Nothing
      BY <1>3, <1>4, <2>1, Distinct DEF OwnDescriptors
    <3>5. listener \in Fds /\ table[listener] = Sock(session)
      BY <3>4, AtFd
    <3>6. listener # Lowest
      BY <3>2, <3>4, <3>5
    <3>7. At(listener)' = Sock(session)
      BY <2>1, <3>2, <3>5, <3>6, Zenon DEF At
    <3>8. OwnDescriptors'
      BY <1>3, <1>4, <2>1, <3>3, <3>7 DEF OwnDescriptors, AtWork, Holding
    <3>9. HarmNeedsMisuse'
      BY <1>3, <2>1, <3>1 DEF HarmNeedsMisuse
    <3>10. CallInv'
      <4>1. ~Handling'
        BY <1>4, <2>1 DEF Handling
      <4> QED
        BY <2>1, <4>1 DEF CallInv, Sending
    <3>11. OneSocket'
      <4>1. \A f \in Fds, e \in Sessions :
              table'[f] = Sock(e) => table[f] = Sock(e)
        BY <1>4, <2>1, <3>2, Distinct
      <4> QED
        BY <1>3, <2>1, <4>1 DEF OneSocket
    <3> QED
      BY <2>2, <3>8, <3>9, <3>10, <3>11 DEF Single
  <2> QED
    BY <2>3, <2>4
<1>8. CASE EpollCtl
  <2>1. alive /\ step = "ctl" /\ session \in Sessions
    BY <1>4, <1>8 DEF EpollCtl
  <2>2. /\ At(listener) = Sock(session) /\ At(epfd) = Epoll(session)
        /\ ~closed
    BY <1>3, <2>1 DEF OwnDescriptors
  <2>3. /\ UNCHANGED <<listener, epfd, events, table, peer, edge, session, on,
                       refused, closed, misuse, late, stray, alive>>
        /\ watch' = [watch EXCEPT ![session] = [fd |-> listener, mask |-> mask]]
        /\ mask' = "all" /\ step' = "idle"
    BY <1>8, <2>2 DEF EpollCtl
  <2>4. PICK at \in {"poll", "unstarted"} : pc' = [pc EXCEPT ![session] = at]
    BY <1>8, <2>2 DEF EpollCtl
  <2>5. /\ watch'[session] = [fd |-> listener, mask |-> mask]
        /\ \A e \in Sessions : pc'[e] = IF e = session THEN at ELSE pc[e]
    BY <1>1, <2>1, <2>3, <2>4, Zenon DEF TypeOK
  <2>6. watch'[session].fd = listener /\ watch'[session].mask = mask
    BY <2>5
  <2>7. At(listener)' = Sock(session) /\ At(epfd)' = Epoll(session)
    BY <2>2, <2>3 DEF At
  <2>8. OneThread' /\ MaskSet'
    BY <1>1, <1>3, <2>1, <2>3, <2>5, SMT DEF OneThread, MaskSet
  <2>9. FirstUnmasked' /\ FirstEndsWithServer'
    <3>1. session # 0 /\ (session = 1 => mask = "none")
      BY <1>1, <1>3, <1>4, <2>1, SMT DEF FirstUnmasked
    <3>2. session = 1 => pc'[1] = at /\ watch'[1].mask = "none"
      BY <2>1, <2>5, <2>6, <3>1
    <3> QED
      BY <2>3, <3>1, <3>2 DEF FirstUnmasked, FirstEndsWithServer
  <2>10. /\ \A e \in Sessions :
              pc'[e] \in {"none", "done", "unstarted"} \/ e = session
         /\ pc'[session] = at /\ Held'
    BY <1>4, <2>1, <2>3, <2>5 DEF Held, Holding, AtWork
  <2>11. OwnDescriptors'
    BY <2>1, <2>2, <2>3, <2>6, <2>7, <2>10 DEF OwnDescriptors, AtWork
  <2>12. HarmNeedsMisuse'
    BY <1>3, <2>1, <2>3 DEF HarmNeedsMisuse
  <2>13. CallInv'
    BY <2>2, <2>3 DEF CallInv, Sending
  <2>14. OneSocket'
    BY <1>3, <1>4, <2>1, <2>3, <2>5 DEF OneSocket
  <2> QED
    BY <2>8, <2>9, <2>11, <2>12, <2>13, <2>14 DEF Single
<1> QED
  BY <1>5, <1>6, <1>7, <1>8 DEF startClient

(* then the other natives,                                                  *)
LEMMA CallStep ==
  ASSUME IInv, ~misuse', closeClient \/ sendMessageToServer
  PROVE  Single' /\ HarmNeedsMisuse' /\ FirstEndsWithServer'
<1> USE DEF globals, kernel, threads, history
<1>1. TypeOK /\ Started /\ ~misuse
  <2>1. ~misuse
    BY Zenon DEF closeClient, CloseLoad, CloseFd, sendMessageToServer,
                 SendTest, SendLoad, SendWrite
  <2> QED
    BY <2>1 DEF IInv
<1>2. /\ OneThread /\ OwnDescriptors /\ OneSocket /\ CallInv
      /\ MaskSet /\ FirstUnmasked /\ FirstEndsWithServer
      /\ "close" \notin stray /\ ("write" \in stray => late)
  BY <1>1 DEF IInv, Single, HarmNeedsMisuse
<1>3. /\ UNCHANGED <<listener, epfd, mask, events, peer, watch, session, pc, on,
                     alive, refused>>
      /\ alive /\ step \notin Starting /\ step' \notin Starting
  BY Zenon DEF closeClient, CloseLoad, CloseFd, sendMessageToServer, SendTest,
               SendLoad, SendWrite, Starting
<1>4. OneThread' /\ MaskSet' /\ FirstUnmasked' /\ FirstEndsWithServer'
  BY <1>1, <1>2, <1>3 DEF OneThread, MaskSet, FirstUnmasked,
                          FirstEndsWithServer
<1>5. (Held' <=> Held) /\ (Handling' <=> Handling)
  BY <1>3 DEF Held, Handling
(* A session that is held, and not closed, has listener for its socket. *)
<1>6. Held /\ ~closed => \E e \in Sessions : At(listener) = Sock(e)
  BY <1>2, <1>3 DEF Held, OwnDescriptors
<1>7. Held /\ ~closed => ~Foreign(listener)
  BY <1>6, Distinct DEF Foreign
<1>8. ASSUME table' = table, closed' = closed
      PROVE  OwnDescriptors' /\ OneSocket'
  <2>1. At(listener)' = At(listener) /\ At(epfd)' = At(epfd)
    BY <1>3, <1>8 DEF At
  <2>2. OwnDescriptors'
    BY <1>2, <1>3, <1>5, <1>8, <2>1, Zenon DEF OwnDescriptors, Starting
  <2>3. OneSocket'
    BY <1>2, <1>3, <1>8 DEF OneSocket
  <2> QED
    BY <2>2, <2>3
<1>9. CASE CloseLoad
  <2>1. /\ UNCHANGED <<table, closed, late, stray>> /\ step = "idle"
        /\ step' = "drop" /\ out' = listener /\ ~closed /\ ~Handling
        /\ listener > 1
    BY <1>9, Zenon DEF CloseLoad
  <2>2. Held
    BY <1>2, <1>3, <2>1 DEF OwnDescriptors, Handling
  <2>3. CallInv'
    BY <1>3, <1>5, <2>1, <2>2 DEF CallInv, Sending
  <2>4. HarmNeedsMisuse'
    BY <1>2, <1>3, <2>1 DEF HarmNeedsMisuse
  <2> QED
    BY <1>4, <1>8, <2>1, <2>3, <2>4 DEF Single
<1>10. CASE CloseFd
  <2>1. /\ UNCHANGED late /\ step = "drop" /\ step' = "idle" /\ closed'
        /\ Closes(out)
        /\ stray' = IF Foreign(out) THEN stray \cup {"close"} ELSE stray
    BY <1>10 DEF CloseFd
  <2>2. out = listener /\ Held /\ ~closed /\ ~Handling
    BY <1>2, <1>3, <2>1 DEF CallInv
  <2>3. out \in Fds
    BY <1>1, <2>1 DEF Started
  <2>4. \A f \in Fds : table'[f] = IF f = listener THEN Nothing ELSE table[f]
    BY <1>1, <2>1, <2>2, <2>3, ClosesAt
  <2>5. stray' = stray
    BY <1>7, <2>1, <2>2
  <2>6. PICK e \in Sessions : e = session /\ pc[e] \in Holding
    BY <2>2 DEF Held
  <2>7. At(listener) = Sock(e)
    BY <1>2, <1>3, <2>2, <2>6 DEF OwnDescriptors
  <2>8. \A u \in Sessions : At(epfd) = Epoll(u) => At(epfd)' = Epoll(u)
    <3> TAKE u \in Sessions
    <3> SUFFICES ASSUME At(epfd) = Epoll(u) PROVE At(epfd)' = Epoll(u)
      OBVIOUS
    <3>1. epfd \in Fds /\ table[epfd] = Epoll(u) /\ epfd # listener
      BY <2>6, <2>7, Distinct, AtFd
    <3> QED
      BY <1>3, <2>4, <3>1, Zenon DEF At
  <2>9. OwnDescriptors'
    BY <1>2, <1>3, <1>5, <2>1, <2>2, <2>8, Zenon DEF OwnDescriptors, Starting
  <2>10. OneSocket'
    <3>1. ASSUME NEW f \in Fds, NEW u \in Sessions,
                 table'[f] = Sock(u), pc[u] # "unstarted"
          PROVE  FALSE
      <4>1. f # listener /\ table[f] = Sock(u)
        BY <2>4, <3>1, Distinct
      <4> QED
        BY <1>2, <1>3, <3>1, <4>1 DEF OneSocket
    <3> QED
      BY <1>3, <3>1 DEF OneSocket
  <2>11. CallInv'
    BY <1>5, <2>1, <2>2 DEF CallInv, Sending
  <2>12. HarmNeedsMisuse'
    BY <1>2, <1>3, <2>1, <2>5 DEF HarmNeedsMisuse
  <2> QED
    BY <1>4, <2>9, <2>10, <2>11, <2>12 DEF Single
<1>11. CASE SendTest
  <2>1. /\ UNCHANGED <<table, closed, stray>> /\ step = "idle"
        /\ step' = "send" /\ ~closed /\ listener > 1
        /\ late' = (late \/ \E e \in Sessions : pc[e] = "reset")
    BY <1>11, Zenon DEF SendTest
  <2>2. Held \/ late'
    BY <1>2, <1>3, <2>1, Zenon DEF OwnDescriptors
  <2>3. CallInv'
    BY <1>3, <1>5, <2>1, <2>2 DEF CallInv, Sending
  <2>4. HarmNeedsMisuse'
    BY <1>2, <1>3, <2>1, Zenon DEF HarmNeedsMisuse
  <2> QED
    BY <1>4, <1>8, <2>1, <2>3, <2>4 DEF Single
<1>12. CASE SendLoad
  <2>1. /\ UNCHANGED <<table, closed, late, stray>> /\ step = "send"
        /\ step' = "write" /\ out' = listener
    BY <1>12 DEF SendLoad
  <2>2. CallInv'
    BY <1>2, <1>3, <1>5, <2>1 DEF CallInv, Sending
  <2>3. HarmNeedsMisuse'
    BY <1>2, <1>3, <2>1 DEF HarmNeedsMisuse
  <2> QED
    BY <1>4, <1>8, <2>1, <2>2, <2>3 DEF Single
<1>13. CASE SendWrite
  <2>1. /\ UNCHANGED <<table, closed, late>> /\ step = "write"
        /\ step' = "idle"
        /\ stray' = IF Foreign(out) THEN stray \cup {"write"} ELSE stray
    BY <1>13 DEF SendWrite
  <2>2. ~late => ~Foreign(out)
    BY <1>2, <1>3, <1>7, <2>1 DEF CallInv, Sending
  <2>3. "close" \notin stray' /\ ("write" \in stray' => late)
    BY <1>2, <2>1, <2>2
  <2>4. CallInv'
    BY <1>2, <1>3, <1>5, <2>1 DEF CallInv, Sending
  <2>5. HarmNeedsMisuse'
    BY <1>3, <2>1, <2>3 DEF HarmNeedsMisuse
  <2> QED
    BY <1>4, <1>8, <2>1, <2>4, <2>5 DEF Single
<1> QED
  BY <1>9, <1>10, <1>11, <1>12, <1>13 DEF closeClient, sendMessageToServer

(* then the thread of the session,                                          *)
LEMMA ThreadStep ==
  ASSUME IInv, ~misuse', NEW t \in Sessions, start_thread(t)
  PROVE  Single' /\ HarmNeedsMisuse' /\ FirstEndsWithServer'
<1> USE DEF globals, kernel, threads, history
<1>1. TypeOK /\ session \in Nat /\ Sessions \subseteq Nat \ {0}
  BY Descriptors, SMT DEF IInv, TypeOK
<1>2. UNCHANGED <<epfd, mask, peer, watch, session, step, out, refused, closed>>
  BY Zenon DEF start_thread, EpollWait, EpollReturns, Check, Close, Reset
<1>3. /\ alive /\ pc[t] \in AtWork \cup {"reset"}
      /\ ~misuse
  <2>1. alive /\ pc[t] \in AtWork \cup {"reset"}
    BY DEF start_thread, EpollWait, EpollReturns, Check, Close, Reset, AtWork
  <2>2. ~misuse
    BY Zenon DEF start_thread, EpollWait, EpollReturns, Check, Close, Reset
  <2> QED
    BY <2>1, <2>2
<1>4. /\ OneThread /\ OwnDescriptors /\ OneSocket /\ CallInv
      /\ MaskSet /\ FirstUnmasked
      /\ "close" \notin stray /\ ("write" \in stray => late)
  BY <1>3 DEF IInv, Single, HarmNeedsMisuse
<1>5. /\ t = session /\ step \notin Starting /\ mask = "all"
      /\ \A e \in Sessions \ {t} : pc[e] \in {"none", "done", "unstarted"}
      /\ \A e \in Sessions : e > t => pc[e] = "none"
      /\ on[t] = t
  BY <1>3, <1>4 DEF OneThread, MaskSet, AtWork
<1>6. /\ session # 0
      /\ session = 1 => watch[1].mask = "none"
  BY <1>1, <1>3, <1>4, <1>5, SMT DEF FirstUnmasked, AtWork
<1>7. pc[t] \in AtWork =>
        /\ At(epfd) = Epoll(t) /\ watch[t].fd = listener
        /\ ~closed => At(listener) = Sock(t)
  BY <1>3, <1>4, <1>5 DEF OwnDescriptors, Holding
<1>8. Sock(t) # Nothing /\ Sock(t) # File
  BY Distinct
(* It goes on to another point, and the rest of the threads stay. *)
<1>9. ASSUME NEW to \in AtWork \cup {"reset", "done"}, Goto(t, to),
             alive' = alive, on' = on,
             to \in AtWork => /\ pc[t] \in AtWork /\ listener' = listener
                              /\ late' = late,
             to # "reset" => table' = table,
             to = "check" => events' = listener,
             to = "reset" => listener' = listener,
             to = "done" => listener' = -1 /\ pc[t] = "reset",
             to \in {"check", "close", "reset", "done"} =>
               ~closed /\ step # "drop",
             to \in {"reset", "done"} /\ step \in Sending => late',
             late => late',
             to = "reset" =>
               \A f \in Fds, e \in Sessions :
                 table'[f] = Sock(e) => table[f] = Sock(e) /\ e # t,
             stray' = stray,
             to \in {"check", "close", "reset", "done"} =>
               pc[t] \in {"check", "close", "reset"} \/ peer[t] = "closed"
                 \/ watch[t].mask # "none"
      PROVE  Single' /\ HarmNeedsMisuse' /\ FirstEndsWithServer'
  <2>1. \A e \in Sessions : pc'[e] = IF e = t THEN to ELSE pc[e]
    BY <1>1, <1>9, GotoType DEF AtWork
  <2>2. OneThread' /\ MaskSet'
    BY <1>1, <1>2, <1>4, <1>5, <1>9, <2>1, SMT
       DEF OneThread, MaskSet, Starting
  <2>3. FirstUnmasked'
    BY <1>2, <1>5, <1>6, <1>9, <2>1 DEF FirstUnmasked, AtWork
  <2>4. to \in AtWork => /\ At(epfd)' = Epoll(t)
                         /\ ~closed => At(listener)' = Sock(t)
    <3>1. to \in AtWork => table' = table
      BY <1>9 DEF AtWork
    <3> QED
      BY <1>2, <1>7, <1>9, <3>1 DEF At
  <2>5. ~(-1 > 1)
    BY SMT
  <2>6. (to \in AtWork => Held') /\ (Held => pc[t] \in AtWork)
    BY <1>2, <1>3, <1>5, <2>1 DEF Held, Holding, AtWork
  <2>7. OwnDescriptors'
    <3>1. listener' > 1 => Held' \/ \E e \in Sessions : pc'[e] = "reset"
      <4>1. to = "reset" => pc'[t] = "reset"
        BY <2>1
      <4> QED
        BY <1>9, <2>5, <2>6, <4>1
    <3>2. \A e \in Sessions : pc'[e] \in AtWork \/ e = session' => e = t
      BY <1>2, <1>5, <2>1 DEF AtWork
    <3>3. pc'[t] = to
      BY <2>1
    <3>4. /\ to \in AtWork => watch'[t].fd = listener'
          /\ to = "check" => events' = listener'
      BY <1>2, <1>7, <1>9 DEF AtWork
    <3>5. step' \notin Starting /\ step' # "ctl" /\ to # "unstarted"
          /\ (closed' <=> closed)
      BY <1>2, <1>5 DEF Starting, AtWork
    <3>6. \A e \in Sessions : pc'[e] = "check" => e = t
      BY <3>2 DEF AtWork
    <3> QED
      BY <2>4, <3>1, <3>2, <3>3, <3>4, <3>5, <3>6, Zenon
         DEF OwnDescriptors, Holding
  <2>8. FirstEndsWithServer'
    <3>1. session = 1 => t = 1 /\ watch[t].mask = "none"
      BY <1>5, <1>6
    <3> QED
      BY <1>2, <1>3, <1>9, <2>1, <3>1 DEF IInv, FirstEndsWithServer, AtWork
  <2>9. HarmNeedsMisuse'
    BY <1>2, <1>3, <1>4, <1>9 DEF HarmNeedsMisuse
  <2>10. CallInv'
    <3>1. Handling' => ~closed /\ step # "drop"
      BY <1>5, <1>9, <2>1 DEF Handling
    <3>2. to \notin AtWork => ~(step \in Sending /\ ~late') /\ step # "drop"
      BY <1>9 DEF AtWork
    <3>3. step \in Sending \cup {"drop"} => ~closed
      BY <1>3, <1>4 DEF CallInv
    <3>4. to \in AtWork =>
            /\ step = "drop" => out' = listener'
            /\ step = "write" /\ ~late' => out' = listener'
      BY <1>2, <1>3, <1>4, <1>9 DEF CallInv
    <3>5. step = "write" => step \in Sending
      BY DEF Sending
    <3> QED
      BY <1>2, <2>6, <3>1, <3>2, <3>3, <3>4, <3>5, Zenon DEF CallInv
  <2>11. OneSocket'
    <3>1. ASSUME NEW f \in Fds, NEW e \in Sessions,
                 table'[f] = Sock(e), pc'[e] # "unstarted"
          PROVE  f = listener' /\ e = session' /\ ~closed' /\ pc'[e] # "reset"
      <4>1. pc[e] # "unstarted"
        BY <1>3, <2>1, <3>1 DEF AtWork
      <4>2. CASE to = "reset"
        <5>1. table[f] = Sock(e) /\ e # t
          BY <1>9, <3>1, <4>2
        <5> QED
          BY <1>3, <1>4, <1>5, <4>1, <5>1 DEF OneSocket
      <4>3. CASE to # "reset"
        <5>1. table[f] = Sock(e)
          BY <1>9, <3>1, <4>3
        <5>2. f = listener /\ e = session /\ ~closed /\ pc[e] # "reset"
          BY <1>3, <1>4, <4>1, <5>1 DEF OneSocket
        <5>3. to \in AtWork
          BY <1>5, <1>9, <4>3, <5>2
        <5> QED
          BY <1>2, <1>9, <2>1, <4>3, <5>2, <5>3
      <4> QED
        BY <4>2, <4>3
    <3> QED
      BY <3>1 DEF OneSocket
  <2> QED
    BY <2>2, <2>3, <2>7, <2>8, <2>9, <2>10, <2>11 DEF Single
<1>10. CASE EpollWait(t)
  <2>1. pc[t] = "poll" /\ At(epfd) = Epoll(t)
    BY <1>7, <1>10 DEF EpollWait, AtWork
  <2>2. {e \in Sessions : At(epfd) = Epoll(e)} = {t}
    BY <2>1, Distinct
  <2>3. /\ Goto(t, "wait") /\ alive' = alive /\ on' = [on EXCEPT ![t] = t]
        /\ UNCHANGED <<listener, table, events, late, stray>>
    BY <1>10, <2>2 DEF EpollWait
  <2>4. on' = on
    BY <1>1, <1>5, <2>3, Zenon DEF TypeOK
  <2> QED
    BY <1>9, <2>1, <2>3, <2>4 DEF AtWork
<1>11. CASE EpollReturns(t)
  <2>1. /\ pc[t] = "wait" /\ HasEvent(t) /\ events' = watch[t].fd
        /\ Goto(t, "check")
        /\ UNCHANGED <<listener, table, on, alive, late, stray>>
    BY <1>5, <1>11 DEF EpollReturns
  <2>2. peer[t] = "closed" \/ watch[t].mask # "none"
    BY <2>1 DEF HasEvent
  <2>3. ~closed
    <3>1. At(watch[t].fd) = Sock(t)
      BY <2>1 DEF HasEvent
    <3>2. watch[t].fd \in Fds /\ table[watch[t].fd] = Sock(t)
      BY <1>8, <3>1, AtFd
    <3> QED
      BY <1>3, <1>4, <2>1, <3>2 DEF OneSocket
  <2>4. step # "drop"
    BY <1>11, Zenon DEF EpollReturns
  <2> QED
    BY <1>7, <1>9, <2>1, <2>2, <2>3, <2>4 DEF AtWork
<1>12. CASE Check(t)
  <2>1. pc[t] = "check" /\ events = listener
    BY <1>3, <1>4, <1>12 DEF Check, OwnDescriptors
  <2>2. /\ Goto(t, "close")
        /\ UNCHANGED <<listener, table, on, alive, late, stray>>
    BY <1>5, <1>12, <2>1 DEF Check
  <2>3. ~closed /\ step # "drop"
    BY <1>3, <1>4, <2>1 DEF CallInv, Handling
  <2> QED
    BY <1>9, <2>1, <2>2, <2>3 DEF AtWork
<1>13. CASE Close(t)
  <2>1. pc[t] = "close" /\ ~closed /\ step # "drop"
    BY <1>3, <1>4, <1>13 DEF Close, CallInv, Handling
  <2>2. At(listener) = Sock(t)
    BY <1>7, <2>1 DEF AtWork
  <2>3. /\ Goto(t, "reset") /\ stray' = stray /\ Closes(listener)
        /\ UNCHANGED <<listener, on, alive>>
        /\ late' = (late \/ step \in Sending)
    BY <1>8, <1>13, <2>2 DEF Close, Foreign, Sending
  <2>4. \A f \in Fds, e \in Sessions :
          table'[f] = Sock(e) => table[f] = Sock(e) /\ e # t
    <3>1. listener \in Fds
      BY <1>8, <2>2, AtFd
    <3>2. \A f \in Fds :
            table'[f] = IF f = listener THEN Nothing ELSE table[f]
      BY <1>1, <2>3, <3>1, ClosesAt
    <3>3. \A f \in Fds : table[f] = Sock(t) => f = listener
      BY <1>3, <1>4, <2>1 DEF OneSocket
    <3> QED
      BY <3>2, <3>3, Distinct
  <2>5. step \in Sending => late'
    BY <2>3, Zenon
  <2>6. late => late'
    BY <2>3, Zenon
  <2> QED
    BY <1>9, <2>1, <2>3, <2>4, <2>5, <2>6 DEF AtWork
<1>14. CASE Reset(t)
  <2>1. /\ pc[t] = "reset" /\ Goto(t, "done") /\ listener' = -1
        /\ UNCHANGED <<on, alive, table, late, stray>>
    BY <1>14 DEF Reset
  <2>2. ~closed /\ step # "drop"
    BY <1>3, <1>4, <2>1 DEF CallInv, Handling
  <2>3. step \in Sending => late
    <3>1. ~Held
      BY <1>5, <2>1 DEF Held, Holding, AtWork
    <3> QED
      BY <1>3, <1>4, <3>1 DEF CallInv
  <2> QED
    BY <1>9, <2>1, <2>2, <2>3 DEF AtWork
<1> QED
  BY <1>10, <1>11, <1>12, <1>13, <1>14 DEF start_thread

(* and what the server and the application do beside it. *)
LEMMA BesideStep ==
  ASSUME IInv, ~misuse',
         \/ \E e \in Sessions : ServerSends(e) \/ ServerCloses(e)
         \/ OpenFile \/ CloseFile
  PROVE  Single' /\ HarmNeedsMisuse' /\ FirstEndsWithServer'
<1> USE DEF globals, kernel, threads, history
<1>1. UNCHANGED <<listener, epfd, mask, events, watch, session, step, out, pc,
                  on, alive, refused, closed, misuse, late, stray>>
  BY Zenon DEF ServerSends, ServerCloses, OpenFile, CloseFile
<1>2. /\ OneThread /\ OwnDescriptors /\ OneSocket /\ CallInv
      /\ MaskSet /\ FirstUnmasked /\ TypeOK /\ Started
  BY <1>1 DEF IInv, Single
<1>3. ASSUME NEW f, At(f) # Nothing, At(f) # File
      PROVE  At(f)' = At(f)
  <2>1. f \in Fds /\ table[f] = At(f)
    BY <1>3, AtFd
  <2>2. table'[f] = table[f]
    <3>1. CASE OpenFile
      BY <1>2, <1>3, <2>1, <3>1, Distinct, OpensAt DEF OpenFile
    <3>2. CASE CloseFile
      BY <1>2, <1>3, <2>1, <3>2, ClosesAt DEF CloseFile
    <3>3. CASE \E e \in Sessions : ServerSends(e) \/ ServerCloses(e)
      BY <3>3 DEF ServerSends, ServerCloses
    <3> QED
      BY <3>1, <3>2, <3>3
  <2> QED
    BY <2>1, <2>2 DEF At
<1>4. \A s \in Sessions :
        /\ At(listener) = Sock(s) => At(listener)' = Sock(s)
        /\ At(epfd) = Epoll(s) => At(epfd)' = Epoll(s)
  <2> TAKE s \in Sessions
  <2>1. \A f : At(f) \in {Sock(s), Epoll(s)} => At(f)' = At(f)
    BY <1>3, Distinct
  <2>2. At(listener)' = IF listener \in Fds THEN table'[listener] ELSE Nothing
    BY <1>1 DEF At
  <2>3. At(epfd)' = IF epfd \in Fds THEN table'[epfd] ELSE Nothing
    BY <1>1 DEF At
  <2> QED
    BY <2>1, <2>2, <2>3 DEF At
<1>5. OwnDescriptors'
  <2>1. alive' = alive
    BY <1>1
  <2>2. CASE ~alive
    BY <2>1, <2>2 DEF OwnDescriptors
  <2>3. CASE alive
    <3>1. /\ step \in Starting => At(listener)' = Sock(session)
          /\ step = "ctl" => At(epfd)' = Epoll(session)
      BY <1>2, <1>4, <2>3 DEF OwnDescriptors, Started, Starting
    <3>2. \A e \in Sessions :
            /\ pc[e] \in AtWork => At(epfd)' = Epoll(e)
            /\ e = session /\ pc[e] \in Holding /\ ~closed =>
                 At(listener)' = Sock(e)
      BY <1>2, <1>4, <2>3 DEF OwnDescriptors
    <3>3. Held' <=> Held
      BY <1>1 DEF Held
    <3> QED
      BY <1>1, <1>2, <2>3, <3>1, <3>2, <3>3, Zenon DEF OwnDescriptors
  <2> QED
    BY <2>2, <2>3
<1>6. OneThread' /\ MaskSet' /\ FirstUnmasked' /\ HarmNeedsMisuse'
  BY <1>1, <1>2 DEF OneThread, MaskSet, FirstUnmasked, HarmNeedsMisuse, IInv
<1>7. session = 1 /\ peer[1] = "closed" => peer'[1] = "closed"
  <2>1. session = 1 => 1 \in Sessions
    BY <1>2, Descriptors, SMT DEF TypeOK, Sessions
  <2>2. CASE peer' = peer
    BY <2>2
  <2>3. ASSUME NEW e \in Sessions, peer' = [peer EXCEPT ![e] = "closed"]
        PROVE  session = 1 /\ peer[1] = "closed" => peer'[1] = "closed"
    BY <1>2, <2>1, <2>3 DEF TypeOK
  <2> QED
    BY <2>2, <2>3 DEF ServerSends, ServerCloses, OpenFile, CloseFile
<1>8. FirstEndsWithServer'
  BY <1>1, <1>7 DEF IInv, FirstEndsWithServer
<1>9. CallInv'
  <2>1. (Held' <=> Held) /\ (Handling' <=> Handling)
    BY <1>1 DEF Held, Handling
  <2> QED
    BY <1>1, <1>2, <2>1 DEF CallInv
<1>10. OneSocket'
  <2>1. \A f \in Fds, e \in Sessions :
          table'[f] = Sock(e) => table[f] = Sock(e)
    <3>1. CASE OpenFile
      BY <1>2, <3>1, Distinct, OpensAt DEF OpenFile
    <3>2. CASE CloseFile
      BY <1>2, <3>2, Distinct, ClosesAt DEF CloseFile
    <3>3. CASE \E e \in Sessions : ServerSends(e) \/ ServerCloses(e)
      BY <3>3 DEF ServerSends, ServerCloses
    <3> QED
      BY <3>1, <3>2, <3>3
  <2> QED
    BY <1>1, <1>2, <2>1 DEF OneSocket
<1> QED
  BY <1>5, <1>6, <1>8, <1>9, <1>10 DEF Single

LEMMA IInvStep == IInv /\ [Next]_vars => IInv'
<1> SUFFICES ASSUME IInv, [Next]_vars PROVE IInv'
  OBVIOUS
<1>1. TypeOK' /\ Started'
  BY TypeStep DEF IInv
<1>2. CASE misuse'
  BY <1>1, <1>2 DEF IInv, HarmNeedsMisuse, FirstEndsWithServer
<1>3. CASE ~misuse'
  <2>1. CASE startClient \/ closeClient \/ sendMessageToServer
    BY <1>1, <1>3, <2>1, StartStep, CallStep DEF IInv
  <2>2. ASSUME NEW t \in Sessions, start_thread(t) PROVE IInv'
    BY <1>1, <1>3, <2>2, ThreadStep DEF IInv
  <2>3. CASE \/ \E e \in Sessions : ServerSends(e) \/ ServerCloses(e)
             \/ OpenFile \/ CloseFile
    BY <1>1, <1>3, <2>3, BesideStep DEF IInv
  <2>4. CASE UNCHANGED vars
    <3>1. /\ At(listener)' = At(listener) /\ At(epfd)' = At(epfd)
          /\ (Held' <=> Held) /\ (Handling' <=> Handling)
      BY <2>4 DEF vars, globals, kernel, threads, At, Held, Handling
    <3>2. OwnDescriptors' <=> OwnDescriptors
      BY <2>4, <3>1, Zenon
         DEF vars, globals, kernel, threads, history, OwnDescriptors
    <3>3. (OneThread' <=> OneThread) /\ (OneSocket' <=> OneSocket)
          /\ (CallInv' <=> CallInv)
      BY <2>4, <3>1
         DEF vars, globals, kernel, threads, history, OneThread, OneSocket,
             CallInv
    <3> QED
      BY <1>1, <2>4, <3>2, <3>3
         DEF vars, globals, kernel, threads, history, IInv, Single, MaskSet,
             FirstUnmasked, HarmNeedsMisuse, FirstEndsWithServer
  <2> QED
    BY <2>1, <2>2, <2>3, <2>4 DEF Next
<1> QED
  BY <1>2, <1>3

LEMMA IInvInit == Init => IInv
<1> SUFFICES ASSUME Init PROVE IInv
  OBVIOUS
<1>1. TypeOK /\ Started
  BY TypeInit
<1>2. OneThread /\ MaskSet /\ CallInv
  BY DEF Init, OneThread, MaskSet, CallInv, Starting, Sending
<1>3. OwnDescriptors
  <2>1. ~(-1 > 1)
    BY SMT
  <2> QED
    BY <2>1, Zenon DEF Init, OwnDescriptors, AtWork, Holding, Starting
<1>4. OneSocket
  BY Distinct DEF Init, OneSocket
<1>5. FirstUnmasked /\ FirstEndsWithServer /\ HarmNeedsMisuse
  BY DEF Init, FirstUnmasked, FirstEndsWithServer, HarmNeedsMisuse
<1> QED
  BY <1>1, <1>2, <1>3, <1>4, <1>5 DEF IInv, Single

LEMMA IInvAlways == Spec => []IInv
<1>1. Init => IInv
  BY IInvInit
<1>2. IInv /\ [Next]_vars => IInv'
  BY IInvStep
<1> QED
  BY <1>1, <1>2, PTL DEF Spec
-------------------------------------------------------------------------------
(* The state stays in its types, however the calls overlap: every           *)
(* descriptor the globals hold was one that socket or epoll_create gave.    *)
THEOREM TypeCorrect == Spec => []TypeOK
<1>1. IInv => TypeOK
  BY DEF IInv
<1> QED
  BY <1>1, IInvAlways, PTL

(* An application that starts each session after the end of the last one,   *)
(* and calls closeClient only as the last call of a session whose thread    *)
(* has no event to handle, is not ended by CHK unless it was refused a      *)
(* socket or a connection, keeps its files open, and has a message written  *)
(* into one of them only by a send that overlaps the thread's               *)
(* close(listener) and listener = -1.                                       *)
THEOREM HarmNeedsMisuseCorrect == Spec => []HarmNeedsMisuse
<1>1. IInv => HarmNeedsMisuse
  BY DEF IInv
<1> QED
  BY <1>1, IInvAlways, PTL

(* The first session's thread wakes only when the server has closed it, as  *)
(* ev.events is still empty when EPOLL_CTL_ADD copies it.                   *)
THEOREM FirstEndsWithServerCorrect == Spec => []FirstEndsWithServer
<1>1. IInv => FirstEndsWithServer
  BY DEF IInv
<1> QED
  BY <1>1, IInvAlways, PTL
===============================================================================
