----------------------------- MODULE MCAstHeap -----------------------------
(* Instances of AstHeap for TLC.  The NodeRcs are interchangeable; slots    *)
(* are not, as they are handed out in order.                                *)
EXTENDS AstHeapInv, TLC

Symmetry == Permutations(Handles)
=============================================================================
