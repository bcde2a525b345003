-------------------------------- MODULE Fsm ---------------------------------
(***************************************************************************)
(* The table-driven state machine of fsm.go that tunnels and sessions run. *)
(***************************************************************************)
EXTENDS Naturals, Sequences

\* eventDesc
row(from, events, cb, to) == [from |-> from, events |-> events, cb |-> cb, to |-> to]

matching(table, current, e) ==
    {i \in DOMAIN table : table[i].from = current /\ e \in table[i].events}

\* The row that handles event e in state current: the first one that matches.
\* Without one the state stays and handleEvent returns an error.
handleEvent(table, current, e) ==
    LET rows == matching(table, current, e) IN
    IF rows = {} THEN row(current, {e}, "error", current)
                 ELSE table[CHOOSE i \in rows : \A j \in rows : i <= j]
=============================================================================
