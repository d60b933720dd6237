----------------------------- MODULE MCSpeedServer ----------------------------
(* SpeedServer for TLC, and what a comment of the server says of it. *)
EXTENDS SpeedServer

CONSTANTS a, b  \* two processes

TwoClients == {a, b}
FastAndSlow == {0, -600}

(* StartIPCServer listens "until cancelled": once it has begun to accept    *)
(* connections nothing its clients do ends it.                              *)
RunsUntilCancelled == [][at \notin {"start", "dead"} => at' # "dead"]_vars
===============================================================================
