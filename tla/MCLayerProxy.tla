---------------------------- MODULE MCLayerProxy ----------------------------
(***************************************************************************)
(* Small instances of LayerProxy: batches of one or two items, a            *)
(* passthrough invocation, a body that does not parse.                      *)
(***************************************************************************)
EXTENDS LayerProxy, TLC

CONSTANTS w1, w2, w3, o1, o2, o3, o4, i1, i2, i3

MCKinds == (o1 :> "batch") @@ (o2 :> "pass") @@ (o3 :> "bad") @@ (o4 :> "batch")
MCVirtuals == (o1 :> <<i1, i2>>) @@ (o2 :> <<>>) @@ (o3 :> <<>>) @@ (o4 :> <<i3>>)

\* Two batches, one after the other.
MCTwoBatches == [o \in {o1, o2} |-> "batch"]
MCTwoVirtuals == [o \in {o1, o2} |-> IF o = o1 THEN <<i1, i2>> ELSE <<i3>>]
=============================================================================
