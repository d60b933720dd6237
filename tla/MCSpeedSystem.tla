---------------------------- MODULE MCSpeedSystem -----------------------------
(* SpeedSystem for TLC. *)
EXTENDS SpeedSystem

CONSTANTS i1, i2, a, b  \* runs of elfinject, and callers of upspeed

TwoInjectors == {i1, i2}
TwoClients == {a, b}
Slow == {-600}
===============================================================================
