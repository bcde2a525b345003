---------------------------- MODULE MCTransport -----------------------------
(***************************************************************************)
(* Small instances of module Transport: ends A and B, what each one is     *)
(* asked to send, and the faults it sees.                                  *)
(***************************************************************************)
EXTENDS Transport, TLC

CONSTANTS A, B

Ends == {A, B}

each(a, b) == (A :> a) @@ (B :> b)

\* Nobody sends anything and nothing goes wrong but delay and loss.
Quiet ==
    [calls |-> each(0, 0), hello |-> {}, retries |-> 2, duplicates |-> FALSE,
     faults |-> each(0, 0)]

\* B sends, fewer messages when it meets a fault too; or nobody sends and A keeps
\* the connection alive.
SendOrHello ==
    {[Quiet EXCEPT !.calls = each(0, 2)],
     [Quiet EXCEPT !.calls = each(0, 1), !.faults = each(0, 1)],
     [Quiet EXCEPT !.hello = {A}, !.faults = each(0, 1)]}

\* A sends a message and HELLOs, which may be retransmitted.
MessageAndHello == {[Quiet EXCEPT !.calls = each(1, 0), !.hello = {A}]}

\* A uses up the sequence numbers, A sends and keeps the connection alive, or
\* both send: there the first timeout is fatal.  Or three callers fill the window
\* of B and messages are retransmitted.
WrapOrWindow ==
    LET Fatal == [Quiet EXCEPT !.retries = 1]
        Fickle == [Fatal EXCEPT !.duplicates = TRUE]
    IN  {[Fickle EXCEPT !.calls = each(8, 0)],
         [Fickle EXCEPT !.calls = each(1, 0), !.hello = {A}],
         [Fatal EXCEPT !.calls = each(1, 1)],
         [Fickle EXCEPT !.calls = each(0, 3), !.retries = 2]}

OneAndTwo == each(1, 2)
OneAndThree == each(1, 3)
OneEach == each(1, 1)
=============================================================================
