--------------------------- MODULE MCReverseExit ---------------------------
(***************************************************************************)
(* An instance of ReverseExit: with and without UDP, reconnecting or not.  *)
(***************************************************************************)
EXTENDS ReverseExit

MCModes == [reconnect : BOOLEAN, udp : BOOLEAN]
=============================================================================
