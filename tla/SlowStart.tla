----------------------------- MODULE SlowStart ------------------------------
(***************************************************************************)
(* The slowStartState struct of l2tp/transport.go and its methods.  Each   *)
(* method runs under the struct's mutex, so it is one operator from the    *)
(* record before the call to the record after it.                          *)
(***************************************************************************)
EXTENDS SeqNum

CONSTANT TxWindowSize     \* transportConfig.TxWindowSize after sanitiseConfig

ASSUME TxWindowAssumption == TxWindowSize \in Nat \ {0}

\* nacks and thresh stay below the window although the struct would hold more.
SlowStartState ==
    [ns : SeqNo, nr : SeqNo, cwnd : 1 .. TxWindowSize,
     thresh : 0 .. TxWindowSize, nacks : 0 .. TxWindowSize,
     ntx : 0 .. TxWindowSize]

InitSlowStart ==
    [ns |-> 0, nr |-> 0, cwnd |-> 1, thresh |-> TxWindowSize, nacks |-> 0, ntx |-> 0]

canSend(s) == s.ntx < s.cwnd

onSend(s) == [s EXCEPT !.ntx = @ + 1]

\* An ack opens the congestion window: by one below thresh (slow start), by
\* one per cwnd acks above it (congestion avoidance), never past the window.
openWindow(s) ==
    IF s.cwnd >= TxWindowSize THEN s
    ELSE IF s.cwnd < s.thresh THEN [s EXCEPT !.cwnd = @ + 1]
    ELSE IF s.nacks + 1 >= s.cwnd THEN [s EXCEPT !.nacks = 0, !.cwnd = @ + 1]
    ELSE [s EXCEPT !.nacks = @ + 1]

\* Mutant: ntx is decremented only while the window can still grow.
onAckWindowFull(s) ==
    IF s.ntx > 0 /\ s.cwnd < TxWindowSize THEN [openWindow(s) EXCEPT !.ntx = @ - 1] ELSE s

onAck(s) == IF s.ntx > 0 THEN [openWindow(s) EXCEPT !.ntx = @ - 1] ELSE s

\* Mutant: the messages in flight are taken for lost.
onRetransmitForgets(s) == [s EXCEPT !.thresh = s.cwnd \div 2, !.cwnd = 1, !.ntx = 0]

onRetransmit(s) == [s EXCEPT !.thresh = s.cwnd \div 2, !.cwnd = 1]

\* Mutant: nr is not advanced.
incrementNrLost(s) == s

incrementNr(s) == [s EXCEPT !.nr = seqIncrement(@)]

incrementNs(s) == [s EXCEPT !.ns = seqIncrement(@)]

\* Mutant: a message ahead of sequence counts as in sequence.
msgIsInSequenceOrAhead(s, msg) == seqCompare(s.nr, msg.ns) <= 0

msgIsInSequence(s, msg) == seqCompare(s.nr, msg.ns) = 0

msgIsStale(s, msg) == seqCompare(msg.ns, s.nr) = -1
=============================================================================
