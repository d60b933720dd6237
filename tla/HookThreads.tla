------------------------------ MODULE HookThreads -----------------------------
(***************************************************************************)
(* new_gettimeofday and new_clock_gettime called by several threads of the *)
(* application while the IPC server's thread changes the speed: the loads  *)
(* and stores of the global variables, which nothing synchronises, one per *)
(* step.  The functions are hooked, and the kernel's clock only moves on.  *)
(*                                                                         *)
(* The compiler may keep the value of "saved" it tested for the            *)
(* subtraction or load it again: LoadSaved does either.  A call that fails *)
(* in libc returns at once and changes nothing.  A time is the count of    *)
(* micro- or nanoseconds a call stores; SpeedClock models its conversion   *)
(* to the caller's timeval or timespec, and the end of time_t.             *)
(***************************************************************************)
EXTENDS FloatScale

CONSTANTS
  Threads,  \* the threads of the application
  Use,      \* the slot whose clock each of them reads
  Scales,   \* the values SetTimeScale gives g_times, in hundredths
  MaxNow    \* bound: the kernel's clock stays below this

Slots == {"tod", "mono", "real"}

ASSUME ThreadsAssumption ==
  /\ Use \in [Threads -> Slots]
  /\ Scales \subseteq Nat \ {0}
  /\ MaxNow \in Nat \ {0}

VARIABLES
  kernel,   \* the kernel's clock
  g_times,  \* the speed, in hundredths
  saved,    \* g_..._saved_...
  last,     \* g_..._saved_..._last
  pc,       \* where each thread is in its hook
  cur,      \* cur_usecs or cur_nsecs
  seen,     \* the value of saved the thread tested
  diff,     \* diff
  ret,      \* ret_usecs or ret_nsecs
  told,     \* history: the latest time a call gave for each slot, if one did
  floor     \* history: told when the thread's call began

globals == <<kernel, g_times, saved, last>>
locals == <<cur, seen, diff, ret>>
history == <<told, floor>>
vars == <<globals, pc, locals, history>>

TypeOK ==
  /\ kernel \in Nat
  /\ g_times \in Nat \ {0}
  /\ saved \in [Slots -> Nat]
  /\ last \in [Slots -> Int]
  /\ pc \in [Threads -> {"idle", "test", "first", "firstlast", "diff",
                         "scale", "base", "save", "last"}]
  /\ cur \in [Threads -> Nat]
  /\ seen \in [Threads -> Nat]
  /\ diff \in [Threads -> Int]
  /\ ret \in [Threads -> Int]
  /\ told \in [Slots -> SUBSET Int]
  /\ floor \in [Threads -> SUBSET Int]

Init ==
  /\ kernel = 1
  /\ g_times = 100
  /\ saved = [s \in Slots |-> 0]
  /\ last = [s \in Slots |-> 0]
  /\ pc = [t \in Threads |-> "idle"]
  /\ cur = [t \in Threads |-> 0]
  /\ seen = [t \in Threads |-> 0]
  /\ diff = [t \in Threads |-> 0]
  /\ ret = [t \in Threads |-> 0]
  /\ told = [s \in Slots |-> {}]
  /\ floor = [t \in Threads |-> {}]
-------------------------------------------------------------------------------
(* External *)
Tick ==
  /\ \E n \in kernel + 1 .. MaxNow : kernel' = n
  /\ UNCHANGED <<g_times, saved, last, pc, locals, history>>

(* Mutant: a negative argument is stored without the table of slow speeds. *)
SetTimeScaleNoTable ==
  /\ g_times' \in Scales \cup {-x : x \in Scales}
  /\ UNCHANGED <<kernel, saved, last, pc, locals, history>>

(* SetTimeScale in the server's thread: one store of a float. *)
SetTimeScale ==
  /\ g_times' \in Scales
  /\ UNCHANGED <<kernel, saved, last, pc, locals, history>>

Goto(t, from, to) ==
  /\ pc[t] = from
  /\ pc' = [pc EXCEPT ![t] = to]

(* "res = old_...": the kernel's time is in *ptv. *)
Sample(t) ==
  /\ Goto(t, "idle", "test")
  /\ cur' = [cur EXCEPT ![t] = kernel]
  /\ floor' = [floor EXCEPT ![t] = told[Use[t]]]
  /\ UNCHANGED <<globals, seen, diff, ret, told>>

(* "if (g_..._saved_... == 0)" *)
Test(t) ==
  /\ IF saved[Use[t]] = 0 THEN Goto(t, "test", "first")
                          ELSE Goto(t, "test", "diff")
  /\ seen' = [seen EXCEPT ![t] = saved[Use[t]]]
  /\ UNCHANGED <<globals, cur, diff, ret, history>>

FirstSaved(t) ==
  /\ Goto(t, "first", "firstlast")
  /\ saved' = [saved EXCEPT ![Use[t]] = cur[t]]
  /\ UNCHANGED <<kernel, g_times, last, locals, history>>

(* The call returns: v is what its caller is given. *)
Return(t, v) ==
  /\ told' = [told EXCEPT ![Use[t]] = IF \A w \in @ : v >= w THEN {v} ELSE @]
  /\ UNCHANGED floor

FirstLast(t) ==
  /\ Goto(t, "firstlast", "idle")
  /\ last' = [last EXCEPT ![Use[t]] = cur[t]]
  /\ Return(t, cur[t])
  /\ UNCHANGED <<kernel, g_times, saved, locals>>

LoadSaved(t) ==
  /\ Goto(t, "diff", "scale")
  /\ \E v \in {seen[t], saved[Use[t]]} :
       diff' = [diff EXCEPT ![t] = cur[t] - v]
  /\ UNCHANGED <<globals, cur, seen, ret, history>>

(* "diff = diff * g_times" *)
LoadTimes(t) ==
  /\ Goto(t, "scale", "base")
  /\ diff' = [diff EXCEPT ![t] = Scaled(diff[t], g_times)]
  /\ UNCHANGED <<globals, cur, seen, ret, history>>

(* Mutant: the interval is added to the kernel's time. *)
LoadLastOfSaved(t) ==
  /\ Goto(t, "base", "save")
  /\ ret' = [ret EXCEPT ![t] = saved[Use[t]] + diff[t]]
  /\ UNCHANGED <<globals, cur, seen, diff, history>>

LoadLast(t) ==
  /\ Goto(t, "base", "save")
  /\ ret' = [ret EXCEPT ![t] = last[Use[t]] + diff[t]]
  /\ UNCHANGED <<globals, cur, seen, diff, history>>

(* Mutant: the clock is read again for the next call's base. *)
StoreSavedFresh(t) ==
  /\ Goto(t, "save", "last")
  /\ saved' = [saved EXCEPT ![Use[t]] = kernel]
  /\ UNCHANGED <<kernel, g_times, last, locals, history>>

StoreSaved(t) ==
  /\ Goto(t, "save", "last")
  /\ saved' = [saved EXCEPT ![Use[t]] = cur[t]]
  /\ UNCHANGED <<kernel, g_times, last, locals, history>>

StoreLast(t) ==
  /\ Goto(t, "last", "idle")
  /\ last' = [last EXCEPT ![Use[t]] = ret[t]]
  /\ Return(t, ret[t])
  /\ UNCHANGED <<kernel, g_times, saved, locals>>

Step(t) ==
  \/ Sample(t) \/ Test(t)
  \/ FirstSaved(t) \/ FirstLast(t)
  \/ LoadSaved(t) \/ LoadTimes(t) \/ LoadLast(t)
  \/ StoreSaved(t) \/ StoreLast(t)

Next == Tick \/ SetTimeScale \/ \E t \in Threads : Step(t)

Spec == Init /\ [][Next]_vars
-------------------------------------------------------------------------------
(* A call that begins after another one for the same clock has returned     *)
(* gives no earlier time, whichever thread makes it.  A call that begins    *)
(* before any has returned is compared with nothing.                        *)
OrderedCalls ==
  [][\A t \in Threads :
       /\ FirstLast(t) => \A v \in floor[t] : cur[t] >= v
       /\ StoreLast(t) => \A v \in floor[t] : ret[t] >= v]_vars

(* The thread that reads slot s, if it is past the point where its call     *)
(* takes effect: the store of the first sample, or the load of g_times.     *)
Committed(s) == {t \in Threads : Use[t] = s /\ pc[t] \in
                   {"firstlast", "base", "save", "last"}}

SampledBar ==
  [s \in Slots |->
     IF Committed(s) = {} THEN saved[s]
     ELSE cur[CHOOSE t \in Committed(s) : TRUE]]

ShownBar ==
  [s \in Slots |->
     IF Committed(s) = {} THEN last[s]
     ELSE LET t == CHOOSE u \in Committed(s) : TRUE
          IN  CASE pc[t] = "firstlast" -> cur[t]
                [] pc[t] = "base"      -> last[s] + diff[t]
                [] OTHER               -> ret[t]]

Virtual == INSTANCE VirtualClock WITH
             Clocks  <- Slots,
             Speeds  <- Scales,
             Horizon <- MaxNow,
             now     <- kernel,
             speed   <- g_times,
             sampled <- SampledBar,
             shown   <- ShownBar

(* When each clock is read by one thread, the hooks with their separate     *)
(* loads and stores are the virtual clock: a call takes effect in one step, *)
(* at its load of g_times, even if the server changes the speed during it.  *)
IsVirtualClock == Virtual!VSpec
===============================================================================
