------------------------------- MODULE Injector -------------------------------
(***************************************************************************)
(* elfinject: main and inject_remote_process, which attach to the          *)
(* application with ptrace and make its main thread call mmap, dlopen,     *)
(* dlsym, hook_entry and dlclose.  Several injectors may run at a time;    *)
(* they, and the application, may be killed between any two steps.         *)
(*                                                                         *)
(* ptrace_call sets the registers, continues the thread with a return      *)
(* address of 0 and waits for the SIGSEGV of that return.  A tracer that   *)
(* exits lets the thread run on with the registers it has: "scratch" ones  *)
(* point nowhere and the application faults.                               *)
(***************************************************************************)
EXTENDS Integers, FiniteSets

CONSTANTS
  Injectors,  \* the runs of elfinject
  Libs,       \* which files the library argument may name
  Bases       \* whether the linker may have one address in all processes

None == "none"

ASSUME InjectorAssumption ==
  /\ Libs \subseteq {"good", "noentry", "unloadable"}
  /\ Bases \subseteq BOOLEAN
  /\ None \notin Injectors

(* The remote calls, and what comes after each. *)
Remote == {"mmap", "substrate", "dlopen", "dlsym", "hook_entry", "dlclose"}
After ==
  [f \in Remote |->
     CASE f = "mmap" -> "substrate" [] f = "substrate" -> "dlopen"
       [] f = "dlopen" -> "dlsym"   [] f = "dlsym" -> "hook_entry"
       [] f = "hook_entry" -> "dlclose" [] f = "dlclose" -> "restore"]

VARIABLES
  lib,         \* the library: "good", without hook_entry, or not loadable
  sameBase,    \* the linker is at the injector's address in the target too
  alive,       \* the application runs
  tracer,      \* who is attached to its main thread
  regs,        \* that thread's registers
  refs,        \* how often libspeed.so was opened, 0 if it is not mapped
  pending,     \* threads of hook_entry that have not run startServer yet
  listening,   \* a server of libspeed.so holds the port
  pc,          \* where each injector is
  running,     \* the injectors that wait for a remote call to return
  orig,        \* original_regs
  ret,         \* what inject_remote_process returned
  entries,     \* history: hook_entry calls that ran in the application
  overlap,     \* history: an injector checked while another was at work
  disturbed,   \* history: the application or an injector was killed
  unthreaded,  \* history: pthread_create failed in hook_entry
  unloaded     \* history: dlclose unmapped libspeed.so

target == <<alive, tracer, regs, refs, pending, listening>>
injector == <<pc, running, orig, ret>>
history == <<entries, overlap, disturbed, unthreaded, unloaded>>
vars == <<lib, sameBase, target, injector, history>>

TypeOK ==
  /\ lib \in Libs
  /\ sameBase \in Bases
  /\ alive \in BOOLEAN
  /\ tracer \in Injectors \cup {None}
  /\ regs \in {"own", "scratch"}
  /\ refs \in Nat
  /\ pending \in Nat
  /\ listening \in BOOLEAN
  /\ pc \in [Injectors -> Remote \cup {"find", "check", "attach", "getregs",
                "restore", "detach", "hung", "done", "killed"}]
  /\ running \subseteq Injectors
  /\ orig \in [Injectors -> {"own", "scratch"}]
  /\ ret \in [Injectors -> {0, -1, -2}]
  /\ entries \in Nat
  /\ overlap \in BOOLEAN
  /\ disturbed \in BOOLEAN
  /\ unthreaded \in BOOLEAN
  /\ unloaded \in BOOLEAN

Init ==
  /\ lib \in Libs
  /\ sameBase \in Bases
  /\ alive = TRUE
  /\ tracer = None
  /\ regs = "own"
  /\ refs = 0
  /\ pending = 0
  /\ listening = FALSE
  /\ pc = [i \in Injectors |-> "find"]
  /\ running = {}
  /\ orig = [i \in Injectors |-> "own"]
  /\ ret = [i \in Injectors |-> -1]
  /\ entries = 0
  /\ overlap = FALSE
  /\ disturbed = FALSE
  /\ unthreaded = FALSE
  /\ unloaded = FALSE
-------------------------------------------------------------------------------
Goto(i, to) == pc' = [pc EXCEPT ![i] = to]

(* "goto exit", and the end of main: the kernel ends the trace. *)
Exit(i, r) ==
  /\ Goto(i, "done")
  /\ ret' = [ret EXCEPT ![i] = r]
  /\ tracer' = IF tracer = i THEN None ELSE tracer
  /\ running' = running \ {i}

(* The application's process is gone, with its mappings and its port. *)
Dies ==
  /\ alive' = FALSE
  /\ tracer' = None
  /\ regs' = "own"
  /\ refs' = 0
  /\ pending' = 0
  /\ listening' = FALSE

(* find_pid_of gives -1 if there is no such process. *)
Find(i) ==
  /\ pc[i] = "find"
  /\ IF alive THEN Goto(i, "check") /\ UNCHANGED <<tracer, running, ret>>
              ELSE Exit(i, -1)
  /\ UNCHANGED <<lib, sameBase, alive, regs, refs, pending, listening, orig,
                 history>>

AtWork(i) == pc[i] \notin {"find", "check", "hung", "done", "killed"}

(* get_module_base finds the library in /proc/<pid>/maps. *)
Mapped == refs > 0

(* Mutant: the mappings of the target are not looked at. *)
CheckNothing(i) ==
  /\ pc[i] = "check"
  /\ Goto(i, "attach")
  /\ overlap' = (overlap \/ \E j \in Injectors \ {i} : AtWork(j))
  /\ UNCHANGED <<lib, sameBase, target, running, orig, ret, entries, disturbed,
                 unthreaded, unloaded>>

(* The library is there already: -2. *)
Check(i) ==
  /\ pc[i] = "check"
  /\ IF Mapped
       THEN Exit(i, -2) /\ UNCHANGED overlap
       ELSE /\ Goto(i, "attach")
            /\ overlap' = (overlap \/ \E j \in Injectors \ {i} : AtWork(j))
            /\ UNCHANGED <<tracer, running, ret>>
  /\ UNCHANGED <<lib, sameBase, alive, regs, refs, pending, listening, orig,
                 entries, disturbed, unthreaded, unloaded>>

(* ptrace_attach fails if another process traces the thread, or it is gone. *)
Attach(i) ==
  /\ pc[i] = "attach"
  /\ IF alive /\ tracer = None
       THEN Goto(i, "getregs") /\ tracer' = i /\ UNCHANGED <<running, ret>>
       ELSE Exit(i, -1)
  /\ UNCHANGED <<lib, sameBase, alive, regs, refs, pending, listening, orig,
                 history>>

GetRegs(i) ==
  /\ pc[i] = "getregs"
  /\ IF tracer = i
       THEN /\ Goto(i, "mmap")
            /\ orig' = [orig EXCEPT ![i] = regs]
            /\ UNCHANGED <<tracer, running, ret>>
       ELSE Exit(i, -1) /\ UNCHANGED orig
  /\ UNCHANGED <<lib, sameBase, alive, regs, refs, pending, listening, history>>

(* ptrace_call: ptrace_setregs and ptrace_continue. *)
Call(i) ==
  /\ pc[i] \in Remote
  /\ i \notin running
  /\ tracer = i
  /\ regs' = "scratch"
  /\ running' = running \cup {i}
  /\ UNCHANGED <<lib, sameBase, alive, tracer, refs, pending, listening, pc,
                 orig, ret, history>>

(* What ret is if a remote call fails: -1, or in the call of dlclose what   *)
(* hook_entry left in r0.  hook_entry has no return statement, so that is 0 *)
(* or another value (-1); a call of NULL leaves its argument there.  ret is *)
(* not read before inject_remote_process returns it.                        *)
LeftAs(i) ==
  IF pc[i] \in {"dlclose", "hung"} /\ lib = "good" THEN {0, -1} ELSE {-1}

(* Mutant: the result of ptrace_continue in the loop is not looked at. *)
CallFailsBefore(i) ==
  /\ pc[i] \in Remote
  /\ i \notin running
  /\ tracer # i
  /\ \E r \in LeftAs(i) : Exit(i, r)
  /\ UNCHANGED <<lib, sameBase, alive, regs, refs, pending, listening, orig,
                 history>>

(* The application is gone before the call or during it: ptrace_setregs or  *)
(* ptrace_continue gives -1.                                                *)
CallFails(i) ==
  /\ pc[i] \in Remote
  /\ tracer # i
  /\ \E r \in LeftAs(i) : Exit(i, r)
  /\ UNCHANGED <<lib, sameBase, alive, regs, refs, pending, listening, orig,
                 history>>

(* The remote call has returned to address 0. *)
Returned(i, f) ==
  /\ pc[i] = f
  /\ i \in running
  /\ tracer = i
  /\ running' = running \ {i}
  /\ Goto(i, After[f])

(* mmap, and dlopen of the Substrate library, whose results are not looked  *)
(* at, and dlsym: hook_entry's address is NULL in a library without it.     *)
ReturnPlain(i) ==
  /\ \E f \in {"mmap", "substrate", "dlsym"} : Returned(i, f)
  /\ UNCHANGED <<lib, sameBase, target, orig, ret, history>>

ReturnDlopen(i) ==
  /\ lib # "unloadable"
  /\ Returned(i, "dlopen")
  /\ refs' = refs + 1
  /\ UNCHANGED <<lib, sameBase, alive, tracer, regs, pending, listening, orig,
                 ret, history>>

(* Mutant: a handle of 0 is used. *)
DlopenUnchecked(i) ==
  /\ lib = "unloadable"
  /\ Returned(i, "dlopen")
  /\ UNCHANGED <<lib, sameBase, target, orig, ret, history>>

(* "if (sohandle == 0x00) goto exit": the registers are not restored. *)
DlopenFails(i) ==
  /\ lib = "unloadable"
  /\ pc[i] = "dlopen"
  /\ i \in running
  /\ tracer = i
  /\ Exit(i, -1)
  /\ UNCHANGED <<lib, sameBase, alive, regs, refs, pending, listening, orig,
                 history>>

(* hook_entry creates its thread, and ignores a pthread_create that fails;  *)
(* a call of NULL faults at once, and that is taken for the return.  ret    *)
(* becomes r0: see LeftAs.                                                  *)
ReturnHookEntry(i) ==
  /\ Returned(i, "hook_entry")
  /\ IF lib = "good"
       THEN /\ entries' = entries + 1
            /\ \/ pending' = pending + 1 /\ UNCHANGED unthreaded
               \/ unthreaded' = TRUE /\ UNCHANGED pending
       ELSE UNCHANGED <<pending, entries, unthreaded>>
  /\ UNCHANGED <<lib, sameBase, alive, tracer, regs, refs, listening, orig,
                 ret, overlap, disturbed, unloaded>>

(* The address of dlclose in the injector is called in the target.  If it   *)
(* is dlclose there too, it gives up the library; else the fault of that    *)
(* address is taken for the return.                                         *)
ReturnDlclose(i) ==
  /\ Returned(i, "dlclose")
  /\ refs' = IF sameBase THEN refs - 1 ELSE refs
  /\ unloaded' = (unloaded \/ refs' = 0)
  /\ UNCHANGED <<lib, sameBase, alive, tracer, regs, pending, listening, orig,
                 ret, entries, overlap, disturbed, unthreaded>>

(* What is at that address may also raise another signal than SIGSEGV: the  *)
(* loop of ptrace_call continues the thread without it, for ever.           *)
DlcloseHangs(i) ==
  /\ ~sameBase
  /\ pc[i] = "dlclose"
  /\ i \in running
  /\ tracer = i
  /\ Goto(i, "hung")
  /\ UNCHANGED <<lib, sameBase, target, running, orig, ret, history>>

(* It ends when the application does: ptrace_continue gives -1. *)
HangEnds(i) ==
  /\ pc[i] = "hung"
  /\ tracer # i
  /\ \E r \in LeftAs(i) : Exit(i, r)
  /\ UNCHANGED <<lib, sameBase, alive, regs, refs, pending, listening, orig,
                 history>>

(* Mutant: the registers are not put back. *)
RestoreNothing(i) ==
  /\ pc[i] = "restore"
  /\ Goto(i, "detach")
  /\ UNCHANGED <<lib, sameBase, target, running, orig, ret, history>>

(* The results of ptrace_setregs and ptrace_detach are not looked at. *)
Restore(i) ==
  /\ pc[i] = "restore"
  /\ Goto(i, "detach")
  /\ regs' = IF tracer = i THEN orig[i] ELSE regs
  /\ UNCHANGED <<lib, sameBase, alive, tracer, refs, pending, listening,
                 running, orig, ret, history>>

Detach(i) ==
  /\ pc[i] = "detach"
  /\ Exit(i, 0)
  /\ UNCHANGED <<lib, sameBase, alive, regs, refs, pending, listening, orig,
                 history>>

Inject(i) ==
  \/ Find(i) \/ Check(i) \/ Attach(i) \/ GetRegs(i)
  \/ Call(i) \/ CallFails(i)
  \/ ReturnPlain(i) \/ ReturnDlopen(i) \/ DlopenFails(i)
  \/ ReturnHookEntry(i) \/ ReturnDlclose(i)
  \/ DlcloseHangs(i) \/ HangEnds(i)
  \/ Restore(i) \/ Detach(i)
-------------------------------------------------------------------------------
(* A thread of hook_entry runs startServer.  The port is taken if another   *)
(* one did: Die.                                                            *)
StartServer ==
  /\ pending > 0
  /\ Mapped
  /\ IF listening
       THEN Dies
       ELSE /\ listening' = TRUE
            /\ pending' = pending - 1
            /\ UNCHANGED <<alive, tracer, regs, refs>>
  /\ UNCHANGED <<lib, sameBase, injector, history>>

(* The main thread goes on at address 0, or a thread or a hook of the       *)
(* library after the library is gone.                                       *)
Fault ==
  /\ alive
  /\ \/ tracer = None /\ regs = "scratch"
     \/ ~Mapped /\ (pending > 0 \/ listening)
  /\ Dies
  /\ UNCHANGED <<lib, sameBase, injector, history>>

(* External *)
KillTarget ==
  /\ alive
  /\ Dies
  /\ disturbed' = TRUE
  /\ UNCHANGED <<lib, sameBase, injector, entries, overlap, unthreaded,
                 unloaded>>

KillInjector(i) ==
  /\ pc[i] \notin {"done", "killed"}
  /\ Goto(i, "killed")
  /\ running' = running \ {i}
  /\ tracer' = IF tracer = i THEN None ELSE tracer
  /\ disturbed' = TRUE
  /\ UNCHANGED <<lib, sameBase, alive, regs, refs, pending, listening, orig,
                 ret, entries, overlap, unthreaded, unloaded>>

Next ==
  \/ StartServer \/ Fault \/ KillTarget
  \/ \E i \in Injectors : Inject(i) \/ KillInjector(i)

Fairness == \A i \in Injectors : WF_vars(Inject(i))

Spec == Init /\ [][Next]_vars /\ Fairness
-------------------------------------------------------------------------------
Success(i) == pc[i] = "done" /\ ret[i] = 0

(* The check of /proc/<pid>/maps keeps a second injector from hooking       *)
(* again: hook_entry runs twice in one application only if an injector      *)
(* checked while another was between its check and its end, or after        *)
(* dlclose took the library away again, wherever injectors are killed.      *)
SecondEntryNeedsOverlap == entries > 1 => overlap \/ unloaded

(* The application survives the injection of a library that loads: unless   *)
(* somebody is killed, two injectors overlap, or dlclose has unmapped the   *)
(* library, neither the borrowed thread nor the server's takes it down.     *)
SurvivesInjection ==
  lib # "unloadable" /\ ~unloaded /\ ~overlap /\ ~disturbed => alive

(* The main thread is let go with the registers it had, except by an        *)
(* injector that is killed or whose dlopen fails.                           *)
LetGoAsFound ==
  alive /\ tracer = None /\ regs = "scratch" =>
    disturbed \/ lib = "unloadable"

(* An injector ends, whoever is killed, unless it hangs in the call of its  *)
(* own dlclose address.                                                     *)
InjectorEnds ==
  \A i \in Injectors : pc[i] = "find" ~> pc[i] \in {"done", "killed", "hung"}
===============================================================================
