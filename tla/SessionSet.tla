---------------------------- MODULE SessionSet ----------------------------
(***************************************************************************)
(* What sjtu::Set promises core (src/include/mySTL/set.hpp): a set, but    *)
(* for an Erase that does not look at the value when one is left.          *)
(***************************************************************************)
EXTENDS Integers, FiniteSets

\* Set::Erase.  A set of one element or none is emptied, whatever the value,
\* and the value counts as found.
Erase(set, value) == IF Cardinality(set) <= 1 THEN {} ELSE set \ {value}
Erased(set, value) == Cardinality(set) <= 1 \/ value \in set
=============================================================================
