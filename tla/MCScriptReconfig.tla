-------------------------- MODULE MCScriptReconfig --------------------------
(***************************************************************************)
(* Instance of ScriptReconfig for TLC: an image of one word, and one of a  *)
(* word and a tail that belongs to another design.                         *)
(***************************************************************************)
EXTENDS ScriptReconfig, TLC

CONSTANTS exact, tail

AllImages == {exact, tail}

AllSize == (exact :> 4) @@ (tail :> 5)

Matching == {exact}
=============================================================================
