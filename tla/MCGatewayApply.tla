--------------------------- MODULE MCGatewayApply ---------------------------
(* A small instance of GatewayApply for TLC.                                *)
EXTENDS GatewayApply
=============================================================================
