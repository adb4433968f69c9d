-------------------------------- MODULE MCSmp -------------------------------
(* Instance of Smp for TLC: ids beyond MAX_CPUS wrap, one onto another. *)
EXTENDS Smp, TLC

CONSTANTS b, a1, a2, a3, a4

LapicIds == b :> 0 @@ a1 :> 2 @@ a2 :> 9 @@ a3 :> 10 @@ a4 :> 5
=============================================================================
