---------------------------- MODULE MCEpollServer -----------------------------
(* EpollServer for TLC. *)
EXTENDS EpollServer, TLC

CONSTANTS c1, c2, c3  \* three clients

ThreeClients == {c1, c2, c3}
===============================================================================
