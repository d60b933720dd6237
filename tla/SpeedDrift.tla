------------------------------ MODULE SpeedDrift ------------------------------
(***************************************************************************)
(* SpeedClock with a record of what the application should have been told: *)
(* history variables that no step of the program reads.  For each slot     *)
(* they count the scaled calls and add up, in hundredths of a sub-unit,    *)
(* the exact products of interval and speed that "diff = diff * g_times"   *)
(* rounds.                                                                 *)
(***************************************************************************)
EXTENDS SpeedClock

CONSTANT MaxReads  \* bound: scaled calls per slot

ASSUME ReadsAssumption == MaxReads \in Nat

VARIABLES
  first,    \* the time of the slot's first call
  reads,    \* the scaled calls since
  exact,    \* the sum of their exact products, in hundredths
  moved,    \* the sum of the products' absolute values, in hundredths
  plain,    \* all at normal speed, each within Mantissa of the previous one
  stepped,  \* the kernel's clock was set back since its last delivery
  reader    \* the clock the slot was last used for

driftVars == <<first, reads, exact, moved, plain, stepped, reader>>
allVars == <<vars, driftVars>>

Abs(n) == IF n >= 0 THEN n ELSE -n

DriftInit ==
  /\ Init
  /\ first = [s \in Slots |-> 0]
  /\ reads = [s \in Slots |-> 0]
  /\ exact = [s \in Slots |-> 0]
  /\ moved = [s \in Slots |-> 0]
  /\ plain = [s \in Slots |-> TRUE]
  /\ stepped = [c \in ClockIds |-> FALSE]
  /\ reader = [s \in Slots |-> "none"]

Record(c) ==
  LET s == Slot(c)
      p == Diff(c) * g_times
  IN  /\ reads' = [reads EXCEPT ![s] = @ + 1]
      /\ exact' = [exact EXCEPT ![s] = @ + p]
      /\ moved' = [moved EXCEPT ![s] = @ + Abs(p)]
      /\ plain' = [plain EXCEPT ![s] =
                     @ /\ g_times = 100 /\ Abs(Diff(c)) <= Mantissa]

(* The steps of SpeedClock that the history does not see. *)
Unrecorded ==
  /\ \/ startServer
     \/ \E x \in Inputs : SetTimeScale(x)
     \/ \E c \in ClockIds : Tick(c) \/ ReadFails(c) \/ Recurse(c)
  /\ UNCHANGED driftVars

StepBack(c) ==
  /\ SetBack(c)
  /\ stepped' = [stepped EXCEPT ![c] = TRUE]
  /\ UNCHANGED <<first, reads, exact, moved, plain, reader>>

LibcCall(c) ==
  /\ ReadLibc(c)
  /\ stepped' = [stepped EXCEPT ![c] = FALSE]
  /\ UNCHANGED <<first, reads, exact, moved, plain, reader>>

FirstCall(c) ==
  /\ ReadFirst(c)
  /\ first' = [first EXCEPT ![Slot(c)] = kernel[c]]
  /\ stepped' = [stepped EXCEPT ![c] = FALSE]
  /\ reader' = [reader EXCEPT ![Slot(c)] = c]
  /\ reads' = [reads EXCEPT ![Slot(c)] = 0]
  /\ exact' = [exact EXCEPT ![Slot(c)] = 0]
  /\ moved' = [moved EXCEPT ![Slot(c)] = 0]
  /\ plain' = [plain EXCEPT ![Slot(c)] = TRUE]

ScaledCall(c) ==
  /\ reads[Slot(c)] < MaxReads
  /\ ReadScaled(c)
  /\ Record(c)
  /\ stepped' = [stepped EXCEPT ![c] = FALSE]
  /\ reader' = [reader EXCEPT ![Slot(c)] = c]
  /\ UNCHANGED first

DriftNext ==
  \/ Unrecorded
  \/ \E c \in ClockIds :
       StepBack(c) \/ LibcCall(c) \/ FirstCall(c) \/ ScaledCall(c)

DriftSpec == DriftInit /\ [][DriftNext]_allVars
-------------------------------------------------------------------------------
(* The time new_gettimeofday and new_clock_gettime report drifts from the   *)
(* exactly scaled one by less than one sub-unit a call, which truncation    *)
(* loses, and 2/Mantissa + 1/Mantissa^2 of the time told, which the two     *)
(* roundings to float lose: 120 ns a second for the float of the code.      *)
DriftBound ==
  \A s \in Slots :
    saved[s] # 0 =>
      LET drift == 100 * (last[s] - first[s]) - exact[s]
      IN  Mantissa * Mantissa * Abs(drift)
            <= Mantissa * Mantissa * 100 * reads[s]
                 + (2 * Mantissa + 1) * moved[s]

(* The hooks are transparent at normal speed: as long as the speed was 1.0  *)
(* at every call and each call came within Mantissa sub-units of the        *)
(* previous one (17 seconds for gettimeofday, 17 milliseconds for           *)
(* clock_gettime), a slot has lost nothing and reports the kernel's time,   *)
(* steps of the clock included.                                             *)
Transparent ==
  \A s \in Slots : saved[s] # 0 /\ plain[s] => last[s] = saved[s]

(* What the step may do to the times the application was shown. *)
BackStep ==
  \A c \in ClockIds :
    \/ Shown(c)' >= Shown(c)
    \/ stepped[c]
    \/ reader[Slot(c)] \notin {c, "none"}
    \/ reader[Slot(c)] = c /\ saved[Slot(c)] = 0
    \/ Abs(last[Slot(c)])' >= TimeT * Unit
    \/ Abs(last[Slot(c)]) >= TimeT * Unit

(* A clock goes back for the application only if the kernel's clock was set *)
(* back since the application last read it, or if new_clock_gettime has     *)
(* used the slot for another clock id meanwhile, or if the clock then read  *)
(* 0, which the hook takes for no reading at all: no change of speed and no *)
(* hooking does it, as long as time_t holds the seconds.                    *)
BackOnlyIfSet == [][BackStep]_allVars
===============================================================================
