---------------------------- MODULE MCGateLink ----------------------------
(***************************************************************************)
(* Instances of GateLink: both settings of retry and of the dial timeout.  *)
(***************************************************************************)
EXTENDS GateLink

Both == BOOLEAN
=============================================================================
