------------------------------ MODULE SpeedClock ------------------------------
(***************************************************************************)
(* libspeed.so inside the target process: the hooks that replace           *)
(* gettimeofday and clock_gettime (new_gettimeofday, new_clock_gettime),   *)
(* ElfSpeed::SetTimeScale, which the IPC server calls, and the hooking     *)
(* itself (do_speed_hook, startServer).  Here a call of a hook is one      *)
(* step; HookThreads takes it apart into its loads and stores.             *)
(*                                                                         *)
(* Each hook keeps two numbers per slot: saved, the kernel's time at the   *)
(* previous call, and last, the time it then reported.  A slot counts in   *)
(* its own sub-unit of a second: microseconds for gettimeofday,            *)
(* nanoseconds for the two slots of clock_gettime.                         *)
(***************************************************************************)
EXTENDS FloatScale, TimeScale

CONSTANTS
  ClockIds,    \* the clocks the application reads, a subset of AllClocks
  Settable,    \* those of them that settimeofday or NTP may step back
  Inputs,      \* the arguments SetTimeScale is called with, in hundredths
  Unit,        \* sub-units per second: 1000000 and 1000000000 in the code
  TimeT,       \* time_t holds seconds of -TimeT .. TimeT-1: 2^31 in the code
  MaxTime,     \* bound: the kernel's clocks stay below this
  MaxShown,    \* bound: a clock is set back only while it shows at most this
  MaxEntries   \* bound: hook_entry is called at most so often

(* "TOD" is gettimeofday, the others are ids passed to clock_gettime. *)
AllClocks == {"TOD", "MONOTONIC", "REALTIME", "CPUTIME"}
Slots == {"tod", "mono", "real"}
Apis == {"gettimeofday", "clock_gettime"}

ASSUME ClockAssumption ==
  /\ ClockIds \subseteq AllClocks
  /\ Settable \subseteq ClockIds \ {"MONOTONIC", "CPUTIME"}
  /\ Inputs \subseteq Int
  /\ Unit \in Nat \ {0}
  /\ TimeT \in Nat \ {0}
  /\ MaxTime \in Nat /\ MaxTime < TimeT * Unit  \* the kernel fills the same time_t
  /\ MaxShown \in Nat
  /\ MaxEntries \in Nat

VARIABLES
  kernel,    \* what the kernel's clocks read
  host,      \* "injected": libspeed.so; "standalone": main of ipcserver.cpp
  entries,   \* hook_entry calls so far, each of which runs startServer
  entry,     \* what a call of each function reaches: libc or the hook
  old,       \* old_gettimeofday, old_clock_gettime
  IsHooked,  \* 1 as long as the functions are NOT hooked, as in the code
  g_times,   \* the speed, in hundredths
  saved,     \* g_..._saved_...
  last,      \* g_..._saved_..._last
  tv,        \* the timeval or timespec last delivered for each clock
  res,       \* the value the last call for each clock returned
  crashed    \* the process recursed to death

vars == <<kernel, host, entries, entry, old, IsHooked, g_times, saved, last,
          tv, res, crashed>>
hookVars == <<entries, entry, old, IsHooked>>
slotVars == <<saved, last>>

Api(c)  == IF c = "TOD" THEN "gettimeofday" ELSE "clock_gettime"

(* Mutant: clock_gettime keeps one slot for all clocks. *)
SlotOfApi(c) == IF c = "TOD" THEN "tod" ELSE "mono"

(* new_clock_gettime tells CLOCK_MONOTONIC from every other clk_id. *)
Slot(c) == IF c = "TOD" THEN "tod"
           ELSE IF c = "MONOTONIC" THEN "mono" ELSE "real"

(* The narrowing conversion to time_t. *)
ToTimeT(s) == ((s + TimeT) % (2 * TimeT)) - TimeT

(* Mutant: the remainder is taken from the narrowed seconds. *)
TimevalOfNarrowed(t) ==
  LET sec == ToTimeT(CDiv(t, Unit)) IN [sec |-> sec, frac |-> t - sec * Unit]

Timeval(t) == [sec |-> ToTimeT(CDiv(t, Unit)), frac |-> CMod(t, Unit)]

(* The time a caller computes from what it was given. *)
Shown(c) == tv[c].sec * Unit + tv[c].frac

TypeOK ==
  /\ kernel \in [ClockIds -> Nat]
  /\ host \in {"injected", "standalone"}
  /\ entries \in Nat
  /\ entry \in [Apis -> {"libc", "hook"}]
  /\ old \in [Apis -> {"null", "libc", "hook"}]
  /\ IsHooked \in {0, 1}
  /\ g_times \in Nat \ {0}
  /\ saved \in [Slots -> Nat]
  /\ last \in [Slots -> Int]
  /\ tv \in [ClockIds -> [sec : Int, frac : Int]]
  /\ res \in [ClockIds -> {0, -1}]
  /\ crashed \in BOOLEAN

Init ==
  /\ kernel = [c \in ClockIds |-> 0]
  /\ host \in {"injected", "standalone"}
  /\ entries = 0
  /\ entry = [a \in Apis |-> "libc"]
  /\ old = [a \in Apis |-> "null"]
  /\ IsHooked = 1
  /\ g_times = 100
  /\ saved = [s \in Slots |-> 0]
  /\ last = [s \in Slots |-> 0]
  /\ tv = [c \in ClockIds |-> Timeval(0)]
  /\ res = [c \in ClockIds |-> 0]
  /\ crashed = FALSE
-------------------------------------------------------------------------------
(* External: the kernel's clocks move on, and the wall clock may be set     *)
(* back.                                                                    *)
Tick(c) ==
  /\ \E t \in kernel[c] + 1 .. MaxTime : kernel' = [kernel EXCEPT ![c] = t]
  /\ UNCHANGED <<host, hookVars, g_times, slotVars, tv, res, crashed>>

SetBack(c) ==
  /\ c \in Settable
  /\ last[Slot(c)] \in -MaxShown .. MaxShown
  /\ \E t \in 1 .. kernel[c] - 1 : kernel' = [kernel EXCEPT ![c] = t]
  /\ UNCHANGED <<host, hookVars, g_times, slotVars, tv, res, crashed>>

(* MSHookFunction(symbol, replace, result), of the Substrate library, puts  *)
(* in result what a call of symbol reached so far and makes it reach        *)
(* replace.  It is called for both functions.                               *)
do_speed_hook ==
  /\ old' = entry
  /\ entry' = [a \in Apis |-> "hook"]

(* Mutant: IsHooked is not cleared. *)
startServerForgets ==
  /\ ~crashed
  /\ host = "injected"
  /\ entries < MaxEntries
  /\ entries' = entries + 1
  /\ do_speed_hook
  /\ UNCHANGED <<kernel, host, IsHooked, g_times, slotVars, tv, res, crashed>>

(* The thread hook_entry creates, up to the start of the IPC server. *)
startServer ==
  /\ ~crashed
  /\ host = "injected"
  /\ entries < MaxEntries
  /\ entries' = entries + 1
  /\ do_speed_hook
  /\ IsHooked' = 0
  /\ UNCHANGED <<kernel, host, g_times, slotVars, tv, res, crashed>>

(* The server calls it, so it is running. *)
SetTimeScale(result) ==
  /\ ~crashed
  /\ host = "standalone" \/ entries > 0
  /\ IF IsHooked = 1 THEN do_speed_hook /\ IsHooked' = 0
                     ELSE UNCHANGED <<entry, old, IsHooked>>
  /\ g_times' = NewScale(result, g_times)
  /\ UNCHANGED <<kernel, host, entries, slotVars, tv, res, crashed>>
-------------------------------------------------------------------------------
Deliver(c, t) ==
  /\ tv' = [tv EXCEPT ![c] = Timeval(t)]
  /\ res' = [res EXCEPT ![c] = 0]

(* External: an application thread reads a clock that is not hooked. *)
ReadLibc(c) ==
  /\ ~crashed
  /\ entry[Api(c)] = "libc"
  /\ Deliver(c, kernel[c])
  /\ UNCHANGED <<kernel, host, hookVars, g_times, slotVars, crashed>>

Hooked(c) ==
  /\ ~crashed
  /\ entry[Api(c)] = "hook"
  /\ old[Api(c)] = "libc"

(* old_gettimeofday or old_clock_gettime fails: "return res". *)
ReadFails(c) ==
  /\ Hooked(c)
  /\ res' = [res EXCEPT ![c] = -1]
  /\ UNCHANGED <<kernel, host, hookVars, g_times, slotVars, tv, crashed>>

(* Mutant: the reported time is not initialised. *)
ReadFirstSavesOnly(c) ==
  /\ Hooked(c)
  /\ saved[Slot(c)] = 0
  /\ saved' = [saved EXCEPT ![Slot(c)] = kernel[c]]
  /\ Deliver(c, kernel[c])
  /\ UNCHANGED <<kernel, host, hookVars, g_times, last, crashed>>

(* The first call of a slot: the kernel's own answer is left in place. *)
ReadFirst(c) ==
  /\ Hooked(c)
  /\ saved[Slot(c)] = 0
  /\ saved' = [saved EXCEPT ![Slot(c)] = kernel[c]]
  /\ last' = [last EXCEPT ![Slot(c)] = kernel[c]]
  /\ Deliver(c, kernel[c])
  /\ UNCHANGED <<kernel, host, hookVars, g_times, crashed>>

Diff(c) == kernel[c] - saved[Slot(c)]

(* Mutant: the reported time is not stored. *)
ReadScaledKeepsLast(c) ==
  /\ Hooked(c)
  /\ saved[Slot(c)] # 0
  /\ Deliver(c, last[Slot(c)] + Scaled(Diff(c), g_times))
  /\ saved' = [saved EXCEPT ![Slot(c)] = kernel[c]]
  /\ UNCHANGED <<kernel, host, hookVars, g_times, last, crashed>>

(* Mutant: the interval is added to the kernel's time. *)
ReadScaledFromSaved(c) ==
  /\ Hooked(c)
  /\ saved[Slot(c)] # 0
  /\ LET ret == saved[Slot(c)] + Scaled(Diff(c), g_times)
     IN  /\ last' = [last EXCEPT ![Slot(c)] = ret]
         /\ Deliver(c, ret)
  /\ saved' = [saved EXCEPT ![Slot(c)] = kernel[c]]
  /\ UNCHANGED <<kernel, host, hookVars, g_times, crashed>>

ReadScaled(c) ==
  /\ Hooked(c)
  /\ saved[Slot(c)] # 0
  /\ LET ret == last[Slot(c)] + Scaled(Diff(c), g_times)
     IN  /\ last' = [last EXCEPT ![Slot(c)] = ret]
         /\ Deliver(c, ret)
  /\ saved' = [saved EXCEPT ![Slot(c)] = kernel[c]]
  /\ UNCHANGED <<kernel, host, hookVars, g_times, crashed>>

(* The function was hooked twice: the hook's "old" function is the hook. *)
Recurse(c) ==
  /\ ~crashed
  /\ entry[Api(c)] = "hook"
  /\ old[Api(c)] = "hook"
  /\ crashed' = TRUE
  /\ UNCHANGED <<kernel, host, hookVars, g_times, slotVars, tv, res>>

Read(c) ==
  \/ ReadLibc(c)
  \/ ReadFails(c)
  \/ ReadFirst(c)
  \/ ReadScaled(c)
  \/ Recurse(c)

Next ==
  \/ startServer
  \/ \E x \in Inputs : SetTimeScale(x)
  \/ \E c \in ClockIds : Tick(c) \/ SetBack(c) \/ Read(c)

Spec == Init /\ [][Next]_vars
-------------------------------------------------------------------------------
(* Until the seconds no longer fit in time_t, a step takes the monotonic    *)
(* clock the application sees forward, or not at all.                       *)
ForwardStep ==
  \A c \in ClockIds \cap {"MONOTONIC"} :
    \/ Shown(c)' >= Shown(c)
    \/ last["mono"]' >= TimeT * Unit

(* The monotonic clock stays monotonic for the application: whatever speeds *)
(* SetTimeScale is given between two calls, and whenever the hooks are      *)
(* installed, a time new_clock_gettime delivers is never before the one     *)
(* delivered previously.                                                    *)
MonotonicForward == [][ForwardStep]_vars

(* Hook and application agree on the time: what the application computes    *)
(* from the last timespec of a hooked monotonic clock is the time the hook  *)
(* will add the next interval to (as long as time_t holds it), and the      *)
(* timespec is normalised even when it does not.                            *)
DeliveredIsLast ==
  \A c \in ClockIds \cap {"MONOTONIC"} :
    /\ tv[c].frac \in 0 .. Unit - 1
    /\ saved["mono"] # 0 /\ last["mono"] < TimeT * Unit
         => Shown(c) = last["mono"]

(* IsHooked keeps startServer and SetTimeScale from hooking a function      *)
(* twice, which would make the hook its own "old" function: one call of     *)
(* hook_entry, or none in the standalone server, never leads there.         *)
HookedOnce ==
  entries <= 1 => ~crashed /\ \A a \in Apis : old[a] # "hook"
===============================================================================
