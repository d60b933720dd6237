------------------------------ MODULE MCInjector ------------------------------
(* Injector for TLC, and what a message of elfinject.c says. *)
EXTENDS Injector

CONSTANTS i1, i2, i3  \* runs of elfinject

One == {i1}
Three == {i1, i2, i3}

(* "SUCCESS" is printed, not "HOOK FAILED", when hook_entry has run. *)
SuccessMeansHooked == (\E i \in Injectors : Success(i)) => entries > 0
===============================================================================
