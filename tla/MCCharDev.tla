------------------------------ MODULE MCCharDev ------------------------------
(***************************************************************************)
(* Instances of CharDev for TLC.                                           *)
(***************************************************************************)
EXTENDS CharDev

AllFaults == {"register", "enable", "regions", "ioremap",
              "number", "cdev", "class", "device"}
==============================================================================
