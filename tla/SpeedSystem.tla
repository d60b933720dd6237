------------------------------ MODULE SpeedSystem -----------------------------
(***************************************************************************)
(* The whole of elfupspeed around one application: the runs of elfinject   *)
(* that load libspeed.so into it (Injector), and the server's thread that  *)
(* hook_entry starts there with the processes that call upspeed            *)
(* (SpeedServer).  The two meet in the application's process: it is alive  *)
(* until the server's thread dies, and the port is taken while that thread *)
(* listens.                                                                *)
(***************************************************************************)
EXTENDS Integers, FiniteSets, Sequences

CONSTANTS
  Injectors, Libs, Bases,                                   \* of Injector
  Clients, Inputs, Backlog, MaxFds, MaxCalls, Interruptible, HostFails
                                                            \* of SpeedServer

ASSUME SystemAssumption ==
  /\ Libs \subseteq {"good", "noentry", "unloadable"}
  /\ Bases \subseteq BOOLEAN
  /\ "none" \notin Injectors
  /\ Inputs \subseteq Int
  /\ Backlog \in Nat \ {0}
  /\ MaxFds \in Nat
  /\ MaxCalls \in Nat
  /\ Interruptible \in BOOLEAN
  /\ HostFails \in BOOLEAN

VARIABLES
  lib, sameBase, tracer, regs, refs, pending, ipc, running, orig, ret,
  entries, overlap, disturbed, unthreaded, unloaded,
  at, queue, sock, g_times, pc, n, fds, arg, peer, up, down, result, applied,
  failed

(* The application's process, and its port, as the server's thread has them. *)
Alive == at # "dead"
Listening == at \notin {"start", "dead"}

I == INSTANCE Injector WITH pc <- ipc, alive <- Alive, listening <- Listening
S == INSTANCE SpeedServer

injecting == <<lib, sameBase, tracer, regs, refs, pending, ipc, running, orig,
               ret, entries, overlap, disturbed, unthreaded, unloaded>>
serving == <<at, queue, sock, g_times, pc, n, fds, arg, peer, up, down, result,
             applied, failed>>
vars == <<injecting, serving>>

Init == S!Init /\ I!Init
-------------------------------------------------------------------------------
(* The process ends: its sockets are gone, and its mappings and threads. *)
ProcessEnds ==
  /\ S!Die
  /\ UNCHANGED <<g_times, pc, n, fds, arg, result, peer, up, down, applied,
                 failed>>

MappingsEnd ==
  /\ I!Dies
  /\ UNCHANGED <<lib, sameBase, ipc, running, orig, ret, entries, overlap,
                 disturbed, unthreaded, unloaded>>

(* elfinject *)
Inject(i) ==
  /\ UNCHANGED serving
  /\ I!Inject(i)

KillInjector(i) ==
  /\ UNCHANGED serving
  /\ I!KillInjector(i)

(* Mutant: startServer returns without a server. *)
ServerStartsNothing ==
  /\ pending > 0
  /\ refs > 0
  /\ at = "start"
  /\ pending' = pending - 1
  /\ UNCHANGED <<lib, sameBase, tracer, regs, refs, ipc, running, orig, ret,
                 entries, overlap, disturbed, unthreaded, unloaded, serving>>

(* A thread of hook_entry runs startServer: the first one listens, if bind  *)
(* and listen succeed, and another one finds the port taken.                *)
ServerStarts ==
  /\ pending > 0
  /\ refs > 0
  /\ S!StartIPCServer
  /\ IF Alive' THEN I!StartServer ELSE MappingsEnd

SecondServer ==
  /\ Listening
  /\ ProcessEnds
  /\ I!StartServer

(* The server's thread runs the library's code, while that is mapped. *)
Serve ==
  /\ refs > 0
  /\ S!Accept \/ S!RecvText \/ S!RecvClosed \/ S!SetTimeScale \/ S!Send
  /\ UNCHANGED injecting

(* A call of it that fails ends the process. *)
ServeFails ==
  /\ refs > 0
  /\ S!RecvFails
  /\ MappingsEnd

HostCallFails ==
  /\ refs > 0
  /\ S!HostCallFails
  /\ MappingsEnd

Fault ==
  /\ ProcessEnds
  /\ I!Fault

KillTarget ==
  /\ ProcessEnds
  /\ I!KillTarget

(* serverClient *)
Calls(p) ==
  /\ S!upspeed(p)
  /\ UNCHANGED injecting

InCall(p) ==
  /\ S!InCall(p)
  /\ UNCHANGED injecting

KillClient(p) ==
  /\ S!Kill(p)
  /\ UNCHANGED injecting

(* The threads of the application's process. *)
Application ==
  \/ ServerStarts \/ SecondServer \/ Serve \/ ServeFails \/ Fault

Next ==
  \/ Application \/ HostCallFails \/ KillTarget
  \/ \E i \in Injectors : Inject(i) \/ KillInjector(i)
  \/ \E p \in Clients : Calls(p) \/ InCall(p) \/ KillClient(p)

Fairness ==
  /\ WF_vars(Application)
  /\ \A p \in Clients : WF_vars(InCall(p))

Spec == Init /\ [][Next]_vars /\ Fairness
-------------------------------------------------------------------------------
(* What can end the hooked application, all parts together: a kill, two     *)
(* injectors at work at a time, a dlclose that unmapped the library, a      *)
(* library that does not load, a socket, bind or listen that failed, an     *)
(* accept or recv that failed for a reason of its own, or a client process  *)
(* that died with its echo unread.  No other order of injecting, calling    *)
(* and dying does, before the first call or after it.                       *)
ApplicationSurvives ==
  ~Alive =>
    \/ disturbed \/ overlap \/ unloaded \/ lib = "unloadable"
    \/ failed \/ \E c \in S!Calls : peer[c] = "reset"

(* After SUCCESS with a library that has a hook_entry the server comes up   *)
(* by itself, or the application is gone: a caller that retries is not      *)
(* refused for ever.  The one exception is a hook_entry whose               *)
(* pthread_create failed, which it does not tell anybody.                   *)
SuccessThenServer ==
  (\E i \in Injectors : I!Success(i)) /\ lib = "good" ~>
    Listening \/ ~Alive \/ unthreaded

(* Every call of upspeed is answered: with 0, however many others wait and  *)
(* whoever is being injected or killed meanwhile, or with -1 while nobody   *)
(* listens, because the application is not hooked yet or is gone; else the  *)
(* caller is killed.                                                        *)
CallsAnswered ==
  \A c \in S!Calls :
    pc[c[1]] = "connect" /\ n[c[1]] = c[2] ~>
      \/ result[c] = "0"
      \/ result[c] = "-1" /\ ~Listening
      \/ pc[c[1]] = "dead"
===============================================================================
