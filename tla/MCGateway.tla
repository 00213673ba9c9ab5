----------------------------- MODULE MCGateway ------------------------------
(***************************************************************************)
(* Small instances of Gateway: two requests to a streaming operation, of    *)
(* one batch key.                                                           *)
(***************************************************************************)
EXTENDS Gateway, TLC

CONSTANTS r1, r2, buffered, stream, a, b

MCRequests == {r1, r2}
MCOpOfStream == [r \in MCRequests |-> stream]
MCOneKey == [r \in MCRequests |-> a]
MCBatchOfTwo == [op \in {buffered, stream} |-> 2]

\* Requests of one key are interchangeable.
MCSymmetry == Permutations(MCRequests)
=============================================================================
