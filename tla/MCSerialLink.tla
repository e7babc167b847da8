---------------------------- MODULE MCSerialLink ----------------------------
(***************************************************************************)
(* SerialLink on small instances: the reset sequence of reset_GPU and the  *)
(* two single commands of setGpu as the scripts of a session.              *)
(***************************************************************************)
EXTENDS SerialLink

ResetAndSingle == {<<Ping, Off, On>>, <<Off>>, <<On>>}

=============================================================================
