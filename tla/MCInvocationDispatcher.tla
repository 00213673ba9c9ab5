----------------------- MODULE MCInvocationDispatcher -----------------------
(***************************************************************************)
(* Small instances of InvocationDispatcher: buffered jobs b1 and b2,        *)
(* streaming jobs s1 and s2.                                                *)
(***************************************************************************)
EXTENDS InvocationDispatcher

CONSTANTS b1, b2, s1, s2

MCJobs == {b1, b2, s1, s2}
MCStreamJobs == {s1, s2}
=============================================================================
