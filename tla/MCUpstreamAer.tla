---------------------------- MODULE MCUpstreamAer ----------------------------
(***************************************************************************)
(* Instances of UpstreamAer for TLC: one bit the driver leaves alone, and  *)
(* a boot mask that has it and one of the driver's own bits set.           *)
(***************************************************************************)
EXTENDS UpstreamAer, TLC

BootMask == {"POISON_TLP", "UNSUP"}
=============================================================================
