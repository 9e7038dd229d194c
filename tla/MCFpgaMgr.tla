------------------------------ MODULE MCFpgaMgr ------------------------------
(***************************************************************************)
(* Instance of FpgaMgr for TLC: two images that load, of two and of three  *)
(* words, one of another design and one that is empty.                     *)
(***************************************************************************)
EXTENDS FpgaMgr, TLC

CONSTANTS exact, tail, foreign, empty

AllImages == {exact, tail, foreign, empty}

AllSize == (exact :> 8) @@ (tail :> 9) @@ (foreign :> 8) @@ (empty :> 0)

Matching == {exact, tail, empty}
=============================================================================
