------------------------------- MODULE MCKmem -------------------------------
(* Instance of Kmem for TLC: two caches with four and two objects a page. *)
EXTENDS Kmem, TLC

SlabSizes == <<1, 2>>

(* Nothing is claimed once the page allocator has given out a page twice,   *)
(* and nothing can undo that: such states are checked and not followed.     *)
Claimed == clean

CallerSymmetry == Permutations(Callers)
=============================================================================
