-------------------------- MODULE MCGatewayAdapter --------------------------
(***************************************************************************)
(* GatewayAdapter with two polls and a playlist in flight                  *)
(***************************************************************************)
EXTENDS GatewayAdapter

CONSTANTS p1, p2, h1, c1, c2
=============================================================================
