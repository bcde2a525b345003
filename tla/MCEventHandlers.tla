-------------------------- MODULE MCEventHandlers ---------------------------
(***************************************************************************)
(* Instances of EventHandlers for TLC.                                     *)
(***************************************************************************)
EXTENDS EventHandlers, TLC

CONSTANTS g1, g2, g3, h1, h2, h3

Two == <<h1, h2>>
\* The callbacks wait for nobody; or those for g1's event close what g2 runs and
\* those for g2's what g3 runs.
IndependentOrNested ==
    {[g \in Goroutine |-> None], g1 :> g2 @@ g2 :> g3 @@ g3 :> None}
=============================================================================
