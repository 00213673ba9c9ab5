------------------------- MODULE MCPlanInvocations --------------------------
(***************************************************************************)
(* All batches of up to five items of sizes around the limit: items that    *)
(* are lost in the envelope, that fit two at a time, alone, and not at all. *)
(***************************************************************************)
EXTENDS PlanInvocations

MCSizes == {1, 3, 5, 6}
MCBatches == UNION {[1 .. n -> MCSizes] : n \in 1 .. 5}
=============================================================================
