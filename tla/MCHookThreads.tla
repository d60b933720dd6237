----------------------------- MODULE MCHookThreads ----------------------------
(* HookThreads for TLC: a small float, and two ways to share the clocks. *)
EXTENDS HookThreads, TLC

CONSTANTS a, b  \* two threads

SmallGrid ==
  {[u |-> 1, w |-> 64, lo |-> 0]}
    \cup {[u |-> 1, w |-> 2^k, lo |-> 4] : k \in 0 .. 5}
    \cup {[u |-> 2^k, w |-> 1, lo |-> 4] : k \in 1 .. 6}

MCThreads == {a, b}
OwnClocks == a :> "mono" @@ b :> "tod"
SameClock == a :> "mono" @@ b :> "mono"
===============================================================================
