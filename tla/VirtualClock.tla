----------------------------- MODULE VirtualClock -----------------------------
(***************************************************************************)
(* What libspeed.so promises the application: each clock it hooks is a     *)
(* virtual clock that runs at the current speed.  A reading takes a sample *)
(* of the kernel's clock, not older than the previous sample, and moves    *)
(* the time shown on by the scaled interval, in one step.                  *)
(***************************************************************************)
EXTENDS FloatScale

CONSTANTS Clocks,  \* the virtual clocks
          Speeds,  \* the speeds they may be given, in hundredths
          Horizon  \* bound: the kernel's time stays below this

VARIABLES now,      \* the kernel's time
          speed,    \* the speed set last
          sampled,  \* the kernel's time at the last reading, 0 before the first
          shown     \* the time that reading gave

vcvars == <<now, speed, sampled, shown>>

VInit ==
  /\ now \in 0 .. Horizon
  /\ speed \in Nat \ {0}
  /\ sampled = [k \in Clocks |-> 0]
  /\ shown = [k \in Clocks |-> 0]

Pass ==
  /\ \E t \in now + 1 .. Horizon : now' = t
  /\ UNCHANGED <<speed, sampled, shown>>

SetSpeed ==
  /\ speed' \in Speeds
  /\ UNCHANGED <<now, sampled, shown>>

(* The first reading shows the kernel's time. *)
Start(k) ==
  /\ sampled[k] = 0
  /\ \E t \in 0 .. now :
       /\ sampled' = [sampled EXCEPT ![k] = t]
       /\ shown' = [shown EXCEPT ![k] = t]
  /\ UNCHANGED <<now, speed>>

Report(k) ==
  /\ sampled[k] # 0
  /\ \E t \in sampled[k] .. now :
       /\ sampled' = [sampled EXCEPT ![k] = t]
       /\ shown' = [shown EXCEPT ![k] = @ + Scaled(t - sampled[k], speed)]
  /\ UNCHANGED <<now, speed>>

VNext ==
  \/ Pass
  \/ SetSpeed
  \/ \E k \in Clocks : Start(k) \/ Report(k)

VSpec == VInit /\ [][VNext]_vcvars
===============================================================================
