---------------------------- MODULE MCRpcDaemon ----------------------------
(* A small instance of RpcDaemon for TLC.                                   *)
EXTENDS RpcDaemon

CONSTANTS r1, r2

MCMethods == [r \in Requests |-> IF r = r1 THEN {"addUri"} ELSE {"addBatch", "pause", "unpause", "remove", "shutdown"}]
=============================================================================
