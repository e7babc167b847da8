------------------------------ MODULE MCVfioMsi ------------------------------
(***************************************************************************)
(* VfioMsi with three vectors (a block in the middle of others, a          *)
(* roll-back over two) and two eventfds, which users are free to use twice.*)
(***************************************************************************)
EXTENDS VfioMsi

=============================================================================
