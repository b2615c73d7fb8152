------------------------------- MODULE MCHashmap -------------------------------
(***************************************************************************)
(* Instances of Hashmap for TLC.  The hashes put two keys on the last slot  *)
(* of a table of 4, so that probes wrap around, and the third on the first  *)
(* slot, so that the runs of the keys overlap; doubling to 8 separates k2   *)
(* from k1.                                                                 *)
(***************************************************************************)
EXTENDS Hashmap, TLC

CONSTANTS k1, k2, k3

MCHash == (k1 :> 3) @@ (k2 :> 7) @@ (k3 :> 4)
================================================================================
