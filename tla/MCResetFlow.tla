---------------------------- MODULE MCResetFlow -----------------------------
(***************************************************************************)
(* ResetFlow for a card with two functions, both named with -s.            *)
(***************************************************************************)
EXTENDS ResetFlow

CONSTANTS gpu, audio

BothFunctions == <<gpu, audio>>

=============================================================================
