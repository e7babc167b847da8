---------------------------- MODULE MCVfioDevSet ----------------------------
(***************************************************************************)
(* VfioDevSet for a slot with a few functions.                             *)
(***************************************************************************)
EXTENDS VfioDevSet, TLC

\* Neither the functions of a slot nor the locks are told apart.
Interchangeable == Permutations(Device) \cup Permutations(Lock)

=============================================================================
