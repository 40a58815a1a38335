---------------------------- MODULE MCUserSystem ----------------------------
(***************************************************************************)
(* Instances of UserSystem for TLC.                                        *)
(***************************************************************************)
EXTENDS UserSystem, TLC

\* No action tells two users or two passwords apart.
Symmetry == Permutations(Uid) \cup Permutations(Password)
=============================================================================
