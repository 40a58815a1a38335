---------------------------- MODULE MCBPlusTree ----------------------------
(***************************************************************************)
(* Instances of BPlusTree for TLC.                                         *)
(***************************************************************************)
EXTENDS TreeProperties

SmallKeys == 1 .. 6
Keys == 1 .. 7
=============================================================================
