-------------------------- MODULE MCBatcherManager --------------------------
(***************************************************************************)
(* Small instances of BatcherManager.                                       *)
(***************************************************************************)
EXTENDS BatcherManager, TLC

CONSTANTS r1, r2, r3, fixed, dynamic, a, b, none, nochan

\* Three requests for one key of one operation: enough for a batcher that is
\* evicted, its successor, and the successor's successor.
MCThree == {r1, r2, r3}
MCFixedOp == [r \in MCThree |-> fixed]
MCOneKey == [r \in MCThree |-> a]

\* Two requests for one key, for the liveness properties.
MCTwo == {r1, r2}
MCTwoFixed == [r \in MCTwo |-> fixed]
MCTwoDynamic == [r \in MCTwo |-> dynamic]
MCTwoKey == [r \in MCTwo |-> a]

MCBatchOfTwo == [op \in {fixed, dynamic} |-> 2]

\* The three requests of MCOneKey are interchangeable.
MCSymmetry == Permutations(MCThree)
=============================================================================
