-------------------------- MODULE MCGatewayShutdown --------------------------
(***************************************************************************)
(* A small instance of GatewayShutdown: two requests to one buffered        *)
(* operation, of two batch keys.                                            *)
(***************************************************************************)
EXTENDS GatewayShutdown

CONSTANTS r1, r2, buffered, stream, a, b

MCRequests == {r1, r2}
MCOpOfBuffered == [r \in MCRequests |-> buffered]
MCTwoKeys == [r \in MCRequests |-> IF r = r1 THEN a ELSE b]
MCBatchOfTwo == [op \in {buffered, stream} |-> 2]
=============================================================================
