------------------------- MODULE MCOutboundDispatch -------------------------
(* A small instance of OutboundDispatch for TLC.                           *)
EXTENDS OutboundDispatch
=============================================================================
