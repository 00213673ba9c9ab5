------------------------- MODULE MCResponseDispatch -------------------------
(***************************************************************************)
(* A small instance of ResponseDispatch: every adapter and format, with     *)
(* three items, two at a time; Node's interleaved format, which has the     *)
(* most steps, with two.  The first item alone has chunks, one more than    *)
(* its body channel holds.                                                  *)
(***************************************************************************)
EXTENDS ResponseDispatch, TLC

MCKinds ==
    {k \in Kind : k.length = IF k.runtime = "node" /\ k.mode = "interleaved" THEN 2 ELSE 3}

MCChunks == <<2, 0, 0>>
=============================================================================
