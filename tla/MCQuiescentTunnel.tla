------------------------- MODULE MCQuiescentTunnel --------------------------
(***************************************************************************)
(* QuiescentTunnel for TLC.                                                *)
(***************************************************************************)
EXTENDS QuiescentTunnel

CONSTANTS s1, s2, s3
=============================================================================
