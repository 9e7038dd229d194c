-------------------------- MODULE MCPartialReconfig --------------------------
(***************************************************************************)
(* Instances of PartialReconfig for TLC: two images of two and three words *)
(* and one that is shorter than the header.                                *)
(***************************************************************************)
EXTENDS PartialReconfig, TLC

CONSTANTS exact, tail, short

AllImages == {exact, tail, short}

AllSize == (exact :> 8) @@ (tail :> 9) @@ (short :> 3)
=============================================================================
