------------------------------ MODULE MCKl2tpd ------------------------------
(***************************************************************************)
(* Instance of Kl2tpd for model checking.                                  *)
(***************************************************************************)
EXTENDS Kl2tpd

CONSTANTS s1, s2
=============================================================================
