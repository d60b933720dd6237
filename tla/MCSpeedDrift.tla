----------------------------- MODULE MCSpeedDrift -----------------------------
(* SpeedDrift for TLC: the binades of a float with a small significand. *)
EXTENDS SpeedDrift

CONSTANT SmallMantissa  \* a power of two, at most 64

ASSUME SmallMantissa \in {2^k : k \in 1 .. 6}

MCGrid ==
  {[u |-> 1, w |-> 64, lo |-> 0]}
    \cup {[u |-> 1, w |-> 2^k, lo |-> SmallMantissa \div 2] : k \in 0 .. 5}
    \cup {[u |-> 2^k, w |-> 1, lo |-> SmallMantissa \div 2] : k \in 1 .. 8}

MCInputs == {150, -300}
===============================================================================
