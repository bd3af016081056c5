-------------------------- MODULE MCScopedHashMap --------------------------
(* Instances of ScopedHashMap for TLC: keys, values and addresses are       *)
(* interchangeable.                                                         *)
EXTENDS ScopedHashMap, TLC

Symmetry == Permutations(Key) \cup Permutations(Value) \cup Permutations(Ptr)
=============================================================================
