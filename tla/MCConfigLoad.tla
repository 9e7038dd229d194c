---------------------------- MODULE MCConfigLoad ----------------------------
(***************************************************************************)
(* Instances of ConfigLoad for TLC.  The 1024-byte header and the chunks   *)
(* of 1024 words shrink to two words: an image of two full words, one with *)
(* a tail of one byte, one for another design (its POF ID does not match)  *)
(* and one that is shorter than the header.                                *)
(***************************************************************************)
EXTENDS ConfigLoad, TLC

CONSTANTS exact, tail, foreign, short

\* Two images that load, one refused, one too short.
AllImages == {exact, tail, foreign, short}

AllSize == (exact :> 8) @@ (tail :> 9) @@ (foreign :> 8) @@ (short :> 3)

Matching == {exact, tail, short}
=============================================================================
