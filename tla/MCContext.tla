----------------------------- MODULE MCContext ------------------------------
(***************************************************************************)
(* Instances of Context for TLC.                                           *)
(***************************************************************************)
EXTENDS Context, TLC

CONSTANTS c1, c2, c3, c4, c5, c6

dynamic(name, id) ==
    [kind |-> "dynamic", name |-> name, version |-> 2, encap |-> "UDP", tid |-> id,
     ptid |-> 0, local |-> "", peer |-> "v4"]
managed(kind, name, id) ==
    [kind |-> kind, name |-> name, version |-> 3, encap |-> "IP", tid |-> id,
     ptid |-> 1, local |-> "v6", peer |-> "v6"]

\* Two dynamic tunnels of the same name with generated IDs, a static and a
\* quiescent one, and two that are refused: a version the constructor does not
\* support, a peer that does not resolve.
Mixed ==
    c1 :> dynamic("a", 0) @@ c2 :> dynamic("a", 0) @@ c3 :> managed("static", "b", 1)
        @@ c4 :> managed("quiescent", "a", 1)
        @@ c5 :> [dynamic("a", 0) EXCEPT !.version = 3]
        @@ c6 :> [managed("quiescent", "b", 1) EXCEPT !.peer = "unresolved"]
=============================================================================
