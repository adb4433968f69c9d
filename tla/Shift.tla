------------------------------- MODULE Shift -------------------------------
(* 1 << n, as the allocators compute the number of pages of an order. *)
EXTENDS Naturals

Shl[n \in Nat] == IF n = 0 THEN 1 ELSE 2 * Shl[n - 1]
=============================================================================
