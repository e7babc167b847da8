----------------------------- MODULE MCVfioIntx -----------------------------
(***************************************************************************)
(* VfioIntx for both kinds of devices.  Users of a shared INTx write       *)
(* config space at any time but while vfio_intx_enable runs, those of an   *)
(* exclusive one only between two SET_IRQS.                                *)
(***************************************************************************)
EXTENDS VfioIntx

MCAlone == [shared |-> {"enable", "type"}, exclusive |-> Stages]

AloneExclusive == [exclusive |-> Stages]

\* Nothing overlaps the stages of SET_IRQS: what is torn, is torn by a single step.
AloneShared == [shared |-> Stages]

=============================================================================
