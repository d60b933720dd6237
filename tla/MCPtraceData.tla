----------------------------- MODULE MCPtraceData -----------------------------
(* PtraceData for TLC: neighbouring bytes, and data and target, differ. *)
EXTENDS PtraceData

MCByte == {0, 1, 2, 255}
MCInitial == [a \in Offset |-> (a + 1) % 3]
MCData == [a \in Offset |-> a % 3]
===============================================================================
