---------------------------- MODULE MCEpollClient -----------------------------
(* EpollClient for TLC. *)
EXTENDS EpollClient
===============================================================================
