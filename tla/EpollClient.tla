------------------------------ MODULE EpollClient -----------------------------
(***************************************************************************)
(* client.c: the natives startClient, sendMessageToServer and closeClient  *)
(* that an application's Java thread calls, and the thread that each       *)
(* startClient starts.  All of them share the globals listener, epfd, ev   *)
(* and events without a lock, and name sockets by descriptors, which the   *)
(* kernel gives out again as soon as they are closed: the lowest free one  *)
(* first.                                                                  *)
(*                                                                         *)
(* A session is one startClient: session s makes the socket <<"sock", s>>, *)
(* the epoll instance <<"epoll", s>> and the thread s.                     *)
(***************************************************************************)
EXTENDS Integers, FiniteSets

CONSTANTS
  MaxFd,      \* the highest descriptor of the process
  MaxStarts,  \* bound: calls of startClient
  MaxFiles    \* bound: files the application has open at a time

ASSUME ClientAssumption ==
  /\ MaxFd \in Nat \ {0, 1}
  /\ MaxStarts \in Nat
  /\ MaxFiles \in Nat

Fds == 2 .. MaxFd   \* the code takes a descriptor for one if it is > 1
Sessions == 1 .. MaxStarts
Nothing == <<"free", 0>>
File == <<"file", 0>>
Sock(s) == <<"sock", s>>
Epoll(s) == <<"epoll", s>>
Objects == {Nothing, File} \cup {Sock(s) : s \in Sessions}
             \cup {Epoll(s) : s \in Sessions}

VARIABLES
  listener, epfd, \* descriptors, as the globals hold them
  mask,           \* ev.events: "none" at first, "all" once line 140 has run
  events,         \* events[0].data.fd
  table,          \* the descriptor table of the process
  peer,           \* the server's end of each session's socket
  watch,          \* what each epoll instance watches: descriptor and mask
  edge,           \* sockets that woke up since the last epoll_wait
  session,        \* the number of the current or last startClient
  step,           \* where the Java thread is in a native
  out,            \* the descriptor it has loaded for write or close, or 0
  pc,             \* where the thread of each session is
  on,             \* the epoll instance it waits on
  alive,          \* the application's process
  refused,        \* history: the kernel refused a socket or the connection
  closed,         \* history: closeClient has closed the session's socket
  misuse,         \* history: calls that overlapped, or used a closed session
  late,           \* history: a send during the thread's close and reset
  stray           \* history: what was done to a descriptor of somebody else

globals == <<listener, epfd, mask, events>>
kernel == <<table, peer, watch, edge>>
threads == <<session, step, out, pc, on>>
history == <<refused, closed, misuse, late, stray>>
vars == <<globals, kernel, threads, alive, history>>

(* Where the Java thread, and the thread of a session, can be. *)
Steps == {"idle", "connect", "create", "ctl", "send", "write", "drop"}
Points == {"none", "poll", "wait", "check", "close", "reset", "done",
           "unstarted"}

TypeOK ==
  /\ listener \in Fds \cup {-1}
  /\ epfd \in Fds \cup {0}
  /\ mask \in {"none", "all"}
  /\ events \in Fds \cup {0}
  /\ table \in [Fds -> Objects]
  /\ peer \in [Sessions -> {"none", "open", "closed"}]
  /\ watch \in [Sessions -> [fd : Fds \cup {0}, mask : {"none", "all"}]]
  /\ edge \subseteq Sessions
  /\ session \in 0 .. MaxStarts
  /\ step \in Steps
  /\ out \in Fds \cup {-1, 0}
  /\ pc \in [Sessions -> Points]
  /\ on \in [Sessions -> Sessions]
  /\ alive \in BOOLEAN /\ refused \in BOOLEAN
  /\ closed \in BOOLEAN /\ misuse \in BOOLEAN /\ late \in BOOLEAN
  /\ stray \subseteq {"close", "write"}

Init ==
  /\ listener = -1
  /\ epfd = 0
  /\ mask = "none"
  /\ events = 0
  /\ table = [f \in Fds |-> Nothing]
  /\ peer = [s \in Sessions |-> "none"]
  /\ watch = [s \in Sessions |-> [fd |-> 0, mask |-> "none"]]
  /\ edge = {}
  /\ session = 0
  /\ step = "idle"
  /\ out = 0
  /\ pc = [s \in Sessions |-> "none"]
  /\ on = [s \in Sessions |-> s]
  /\ alive = TRUE
  /\ refused = FALSE /\ closed = FALSE /\ misuse = FALSE /\ late = FALSE
  /\ stray = {}
-------------------------------------------------------------------------------
Free == {f \in Fds : table[f] = Nothing}
Lowest == CHOOSE f \in Free : \A g \in Free : f <= g

(* What a descriptor stands for: closed ones, and -1, for nothing. *)
At(f) == IF f \in Fds THEN table[f] ELSE Nothing

(* CHK: exit(-1) ends the application. *)
Exit == alive' = FALSE

Opens(o) == table' = [table EXCEPT ![Lowest] = o]

(* The last close of a socket takes its events away. *)
Closes(f) ==
  /\ table' = [table EXCEPT ![f] = Nothing]
  /\ edge' = {s \in edge : table[f] # Sock(s)}

(* Something of the application's own is at a descriptor the client uses. *)
Foreign(f) == At(f) = File
-------------------------------------------------------------------------------
(* startClient: socket, *)
Socket ==
  /\ alive
  /\ step = "idle"
  /\ session < MaxStarts
  /\ session' = session + 1
  /\ misuse' = (misuse \/ \E s \in Sessions :
                            pc[s] \notin {"none", "done", "unstarted"})
  /\ closed' = FALSE
  /\ IF Free = {}
       THEN Exit /\ refused' = TRUE /\ UNCHANGED <<listener, table, step>>
       ELSE /\ Opens(Sock(session + 1))
            /\ listener' = Lowest
            /\ step' = "connect"
            /\ UNCHANGED <<alive, refused>>
  /\ UNCHANGED <<epfd, mask, events, peer, watch, edge, out, pc, on, late,
                 stray>>

(* connect, of whatever listener is by now, if the server is there, *)
Connect ==
  /\ alive
  /\ step = "connect"
  /\ \/ /\ At(listener) = Sock(session)
        /\ peer' = [peer EXCEPT ![session] = "open"]
        /\ step' = "create"
        /\ UNCHANGED <<alive, refused>>
     \/ /\ Exit
        /\ refused' = (refused \/ At(listener) = Sock(session))
        /\ UNCHANGED <<peer, step>>
  /\ UNCHANGED <<globals, table, watch, edge, session, out, pc, on, closed,
                 misuse, late, stray>>

(* epoll_create, *)
EpollCreate ==
  /\ alive
  /\ step = "create"
  /\ IF Free = {}
       THEN Exit /\ refused' = TRUE /\ UNCHANGED <<epfd, table, step>>
       ELSE /\ Opens(Epoll(session))
            /\ epfd' = Lowest
            /\ step' = "ctl"
            /\ UNCHANGED <<alive, refused>>
  /\ UNCHANGED <<listener, mask, events, peer, watch, edge, session, out, pc,
                 on, closed, misuse, late, stray>>

(* Mutant: ev.events is set before EPOLL_CTL_ADD, as it was meant. *)
EpollCtlWithMask ==
  /\ alive
  /\ step = "ctl"
  /\ IF At(listener) = Sock(session)
       THEN /\ watch' = [watch EXCEPT ![session] =
                           [fd |-> listener, mask |-> "all"]]
            /\ mask' = "all"
            /\ \E at \in {"poll", "unstarted"} :
                 pc' = [pc EXCEPT ![session] = at]
            /\ step' = "idle"
            /\ UNCHANGED alive
       ELSE Exit /\ UNCHANGED <<watch, mask, pc, step>>
  /\ UNCHANGED <<listener, epfd, events, table, peer, edge, session, out, on,
                 history>>

(* EPOLL_CTL_ADD with the ev.events of the call before, "none" in the       *)
(* first, and only then the assignment of ev.events; pthread_create, whose  *)
(* result nobody looks at: "unstarted" is a session without a thread.       *)
EpollCtl ==
  /\ alive
  /\ step = "ctl"
  /\ IF At(listener) = Sock(session)
       THEN /\ watch' = [watch EXCEPT ![session] =
                           [fd |-> listener, mask |-> mask]]
            /\ mask' = "all"
            /\ \E at \in {"poll", "unstarted"} :
                 pc' = [pc EXCEPT ![session] = at]
            /\ step' = "idle"
            /\ UNCHANGED alive
       ELSE Exit /\ UNCHANGED <<watch, mask, pc, step>>
  /\ UNCHANGED <<listener, epfd, events, table, peer, edge, session, out, on,
                 history>>

startClient == Socket \/ Connect \/ EpollCreate \/ EpollCtl

(* The thread of a session has an event, which it handles. *)
Handling == \E s \in Sessions : pc[s] \in {"check", "close", "reset"}

(* closeClient: the load of listener, *)
CloseLoad ==
  /\ alive
  /\ step = "idle"
  /\ listener > 1
  /\ out' = listener
  /\ step' = "drop"
  /\ misuse' = (misuse \/ closed \/ Handling)
  /\ UNCHANGED <<globals, kernel, session, pc, on, alive, refused, closed, late,
                 stray>>

(* and the close of whatever that descriptor stands for by now; listener    *)
(* keeps its value.                                                         *)
CloseFd ==
  /\ alive
  /\ step = "drop"
  /\ Closes(out)
  /\ step' = "idle"
  /\ out' = 0
  /\ closed' = TRUE
  /\ stray' = IF Foreign(out) THEN stray \cup {"close"} ELSE stray
  /\ UNCHANGED <<globals, peer, watch, session, pc, on, alive, refused, misuse,
                 late>>

closeClient == CloseLoad \/ CloseFd

(* sendMessageToServer: the test of listener, *)
SendTest ==
  /\ alive
  /\ step = "idle"
  /\ listener > 1
  /\ step' = "send"
  /\ misuse' = (misuse \/ closed)
  /\ late' = (late \/ \E s \in Sessions : pc[s] = "reset")
  /\ UNCHANGED <<globals, kernel, session, out, pc, on, alive, refused, closed,
                 stray>>

(* its load for the call of write, *)
SendLoad ==
  /\ alive
  /\ step = "send"
  /\ out' = listener
  /\ step' = "write"
  /\ UNCHANGED <<globals, kernel, session, pc, on, alive, history>>

(* and the write, to whatever that descriptor stands for by now: it says OK *)
(* in any case.                                                             *)
SendWrite ==
  /\ alive
  /\ step = "write"
  /\ step' = "idle"
  /\ out' = 0
  /\ stray' = IF Foreign(out) THEN stray \cup {"write"} ELSE stray
  /\ UNCHANGED <<globals, kernel, session, pc, on, alive, refused, closed,
                 misuse, late>>

sendMessageToServer == SendTest \/ SendLoad \/ SendWrite
-------------------------------------------------------------------------------
Goto(t, to) == pc' = [pc EXCEPT ![t] = to]

(* start_thread, the thread t: epoll_wait on what epfd holds now. *)
EpollWait(t) ==
  /\ alive
  /\ pc[t] = "poll"
  /\ LET s == {e \in Sessions : At(epfd) = Epoll(e)} IN
     IF s = {}
       THEN Exit /\ UNCHANGED <<on, pc>>
       ELSE /\ \E e \in s : on' = [on EXCEPT ![t] = e]
            /\ Goto(t, "wait")
            /\ UNCHANGED alive
  /\ UNCHANGED <<globals, kernel, session, step, out, history>>

(* An event of instance s: its socket is still open and, without a mask,    *)
(* its server has closed it, or with one, it woke up since the last time.   *)
HasEvent(s) ==
  /\ watch[s].fd # 0
  /\ At(watch[s].fd) = Sock(s)
  /\ IF watch[s].mask = "none" THEN peer[s] = "closed" ELSE s \in edge

EpollReturns(t) ==
  /\ alive
  /\ pc[t] = "wait"
  /\ HasEvent(on[t])
  /\ events' = watch[on[t]].fd
  /\ edge' = edge \ {on[t]}
  /\ Goto(t, "check")
  /\ misuse' = (misuse \/ step = "drop")
  /\ UNCHANGED <<listener, epfd, mask, table, peer, watch, session, step, out,
                 on, alive, refused, closed, late, stray>>

(* The event is one of listener, and ev.events, not the event's own, has    *)
(* EPOLLHUP.  Else recv: a closed connection resets listener, and after a   *)
(* message close(-1) fails behind CHK.                                      *)
Check(t) ==
  /\ alive
  /\ pc[t] = "check"
  /\ IF events # listener
       THEN Goto(t, "poll") /\ UNCHANGED <<listener, alive>>
       ELSE IF mask = "all"
         THEN Goto(t, "close") /\ UNCHANGED <<listener, alive>>
         ELSE /\ listener' = -1
              /\ \/ Goto(t, "done") /\ UNCHANGED alive
                 \/ Exit /\ UNCHANGED pc
  /\ UNCHANGED <<epfd, mask, events, kernel, session, step, out, on, history>>

(* Mutant: the order of lines 110 and 111 here too. *)
CloseResetFirst(t) ==
  /\ alive
  /\ pc[t] = "close"
  /\ listener' = -1
  /\ Exit
  /\ UNCHANGED <<epfd, mask, events, kernel, threads, history>>

(* CHK(close(listener)), *)
Close(t) ==
  /\ alive
  /\ pc[t] = "close"
  /\ IF At(listener) = Nothing
       THEN Exit /\ UNCHANGED <<table, edge, pc, stray>>
       ELSE /\ Closes(listener)
            /\ stray' = IF Foreign(listener) THEN stray \cup {"close"} ELSE stray
            /\ Goto(t, "reset")
            /\ UNCHANGED alive
  /\ late' = (late \/ step \in {"send", "write"})
  /\ UNCHANGED <<globals, peer, watch, session, step, out, on, refused, closed,
                 misuse>>

(* Mutants: the loop goes on, or the descriptor becomes 0. *)
ResetLoops(t) ==
  /\ alive
  /\ pc[t] = "reset"
  /\ listener' = -1
  /\ Goto(t, "poll")
  /\ UNCHANGED <<epfd, mask, events, kernel, session, step, out, on, alive,
                 history>>

ResetToZero(t) ==
  /\ alive
  /\ pc[t] = "reset"
  /\ listener' = 0
  /\ Goto(t, "done")
  /\ UNCHANGED <<epfd, mask, events, kernel, session, step, out, on, alive,
                 history>>

(* and listener = -1, the end of the thread. *)
Reset(t) ==
  /\ alive
  /\ pc[t] = "reset"
  /\ listener' = -1
  /\ Goto(t, "done")
  /\ UNCHANGED <<epfd, mask, events, kernel, session, step, out, on, alive,
                 history>>

start_thread(t) ==
  EpollWait(t) \/ EpollReturns(t) \/ Check(t) \/ Close(t) \/ Reset(t)
-------------------------------------------------------------------------------
(* External: the server sends to a session or closes it, *)
Running(s) ==
  alive /\ peer[s] = "open" /\ \E f \in Fds : table[f] = Sock(s)

ServerSends(s) ==
  /\ Running(s)
  /\ edge' = edge \cup {s}
  /\ UNCHANGED <<globals, table, peer, watch, threads, alive, history>>

ServerCloses(s) ==
  /\ Running(s)
  /\ peer' = [peer EXCEPT ![s] = "closed"]
  /\ edge' = edge \cup {s}
  /\ UNCHANGED <<globals, table, watch, threads, alive, history>>

(* and the application opens and closes files of its own. *)
OpenFile ==
  /\ alive
  /\ Free # {}
  /\ Cardinality({f \in Fds : table[f] = File}) < MaxFiles
  /\ Opens(File)
  /\ UNCHANGED <<globals, peer, watch, edge, threads, alive, history>>

CloseFile ==
  /\ alive
  /\ \E f \in Fds : table[f] = File /\ Closes(f)
  /\ UNCHANGED <<globals, peer, watch, threads, alive, history>>

Next ==
  \/ startClient \/ closeClient \/ sendMessageToServer
  \/ \E s \in Sessions : start_thread(s) \/ ServerSends(s) \/ ServerCloses(s)
  \/ OpenFile \/ CloseFile

Fairness ==
  /\ WF_vars(Connect \/ EpollCreate \/ EpollCtl \/ CloseFd \/ SendLoad
             \/ SendWrite)
  /\ \A s \in Sessions : WF_vars(start_thread(s))

Spec == Init /\ [][Next]_vars /\ Fairness
-------------------------------------------------------------------------------
(* An application that calls startClient only after the thread of the last  *)
(* session has ended, and closeClient only as the last call of a session    *)
(* whose thread does not handle an event meanwhile, is not ended by the     *)
(* client unless the kernel or the server refuses it, and no file of its    *)
(* own is closed.  A message goes into one only if the send overlaps the    *)
(* time from close(listener) to listener = -1 in the session's thread.      *)
HarmNeedsMisuse ==
  /\ ~alive => refused \/ misuse
  /\ "close" \in stray => misuse
  /\ "write" \in stray => misuse \/ late

(* The first session ends only when the server has closed it: a message     *)
(* does not wake its thread up, as it was added to epoll without a mask.    *)
FirstEndsWithServer ==
  ~misuse /\ session = 1 /\ pc[1] \in {"check", "close", "reset", "done"} =>
    peer[1] = "closed"

(* A session the server closes is noticed by its thread: listener is reset, *)
(* so that sendMessageToServer gives FAIL, unless the calls overlapped or   *)
(* closeClient took the socket away from it.                                *)
CloseNoticed ==
  \A s \in Sessions :
    pc[s] \notin {"none", "unstarted"} /\ peer[s] = "closed" ~>
      pc[s] = "done" \/ misuse \/ closed \/ ~alive
===============================================================================
