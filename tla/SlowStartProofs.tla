-------------------------- MODULE SlowStartProofs ---------------------------
(***************************************************************************)
(* What the operators of SeqNum and SlowStart return, for every SeqSpace   *)
(* and every TxWindowSize.                                                 *)
(***************************************************************************)
EXTENDS SlowStart, TLAPS

\* seqIncrement stays within the 16 bits of the code and wraps only at the end.
LEMMA SeqIncrementType == \A s \in SeqNo : seqIncrement(s) \in SeqNo
  BY SeqSpaceAssumption DEF SeqNo, seqIncrement

\* The two cases of seqIncrement.
LEMMA SeqIncrementCases == \A s \in SeqNo :
        seqIncrement(s) = IF s + 1 = SeqSpace THEN 0 ELSE s + 1
  BY SeqSpaceAssumption DEF SeqNo, seqIncrement

\* Half is half the circle.
LEMMA HalfFact == Half \in Nat /\ SeqSpace = 2 * Half /\ Half >= 2
  BY SeqSpaceAssumption DEF Half

\* seqCompare orders any two sequence numbers less than half the circle apart
\* the way they were issued: k increments after s compares as newer than s, and
\* s as older than it, wherever the 16-bit wrap falls.
THEOREM SeqCompareWithinHalf ==
  ASSUME NEW s \in SeqNo, NEW k \in 1 .. Half - 1
  PROVE  /\ seqCompare((s + k) % SeqSpace, s) = 1
         /\ seqCompare(s, (s + k) % SeqSpace) = -1
<1>1. (s + k) % SeqSpace = IF s + k < SeqSpace THEN s + k ELSE s + k - SeqSpace
  BY SeqSpaceAssumption, HalfFact DEF SeqNo
<1>. QED
  BY <1>1, HalfFact, SeqSpaceAssumption DEF SeqNo, seqCompare, seqDelta

\* The methods of slowStartState keep every field in its range: cwnd and ntx
\* never pass TxWindowSize, so none of the uint16 counters can overflow.
LEMMA InitSlowStartType == InitSlowStart \in SlowStartState
  BY SeqSpaceAssumption, TxWindowAssumption DEF InitSlowStart, SlowStartState, SeqNo

\* onSend with the window open stays within TxWindowSize.
LEMMA OnSendType ==
  ASSUME NEW s \in SlowStartState, canSend(s)
  PROVE  onSend(s) \in SlowStartState /\ onSend(s).ntx = s.ntx + 1
  BY TxWindowAssumption DEF SlowStartState, canSend, onSend

\* The growth of cwnd stops at TxWindowSize and touches no other counter.
LEMMA OpenWindowType ==
  ASSUME NEW s \in SlowStartState
  PROVE  /\ openWindow(s) \in SlowStartState
         /\ openWindow(s).ntx = s.ntx
         /\ openWindow(s).ns = s.ns
         /\ openWindow(s).nr = s.nr
<1>1. CASE s.cwnd >= TxWindowSize
  BY <1>1 DEF openWindow
<1>2. CASE ~(s.cwnd >= TxWindowSize) /\ s.cwnd < s.thresh
  BY <1>2, TxWindowAssumption DEF openWindow, SlowStartState
<1>3. CASE ~(s.cwnd >= TxWindowSize) /\ ~(s.cwnd < s.thresh)
  <2>. DEFINE t == [s EXCEPT !.nacks = 0]
  <2>1. t \in SlowStartState /\ t.ntx = s.ntx /\ t.ns = s.ns /\ t.nr = s.nr /\ t.cwnd = s.cwnd
    BY TxWindowAssumption DEF SlowStartState
  <2>2. s.cwnd + 1 \in 1 .. TxWindowSize
    BY <1>3, TxWindowAssumption DEF SlowStartState
  <2>3. CASE s.nacks + 1 >= s.cwnd
    <3>1. openWindow(s) = [t EXCEPT !.cwnd = s.cwnd + 1]
      BY <1>3, <2>3 DEF openWindow
    <3>2. QED
      BY <2>1, <2>2, <3>1 DEF SlowStartState
  <2>4. CASE ~(s.nacks + 1 >= s.cwnd)
    <3>1. openWindow(s) = [s EXCEPT !.nacks = @ + 1]
      BY <1>3, <2>4 DEF openWindow
    <3>2. s.nacks + 1 \in 0 .. TxWindowSize
      BY <1>3, <2>4, TxWindowAssumption DEF SlowStartState
    <3>3. QED
      BY <3>1, <3>2 DEF SlowStartState
  <2>5. QED
    BY <2>3, <2>4
<1>4. QED
  BY <1>1, <1>2, <1>3

\* onAck takes one message off the count in flight.
LEMMA OnAckType ==
  ASSUME NEW s \in SlowStartState
  PROVE  /\ onAck(s) \in SlowStartState
         /\ s.ntx > 0 => onAck(s).ntx = s.ntx - 1
         /\ onAck(s).ns = s.ns /\ onAck(s).nr = s.nr
  BY TxWindowAssumption, OpenWindowType DEF SlowStartState, onAck

\* onRetransmit keeps cwnd at least one and the count in flight as it was.
LEMMA OnRetransmitType ==
  ASSUME NEW s \in SlowStartState
  PROVE  /\ onRetransmit(s) \in SlowStartState
         /\ onRetransmit(s).ntx = s.ntx
         /\ onRetransmit(s).ns = s.ns /\ onRetransmit(s).nr = s.nr
<1>. DEFINE t == [s EXCEPT !.thresh = s.cwnd \div 2]
<1>1. s.cwnd \div 2 \in 0 .. TxWindowSize
  BY TxWindowAssumption DEF SlowStartState
<1>2. t \in SlowStartState /\ t.ntx = s.ntx /\ t.ns = s.ns /\ t.nr = s.nr
  BY <1>1 DEF SlowStartState
<1>3. onRetransmit(s) = [t EXCEPT !.cwnd = 1]
  BY DEF onRetransmit
<1>. HIDE DEF t
<1>4. QED
  BY <1>2, <1>3, TxWindowAssumption DEF SlowStartState

\* incrementNs and incrementNr touch the sequence numbers only.
LEMMA IncrementType ==
  ASSUME NEW s \in SlowStartState
  PROVE  /\ incrementNs(s) \in SlowStartState /\ incrementNr(s) \in SlowStartState
         /\ incrementNs(s).ntx = s.ntx /\ incrementNr(s).ntx = s.ntx
         /\ incrementNs(s).cwnd = s.cwnd /\ incrementNr(s).cwnd = s.cwnd
         /\ incrementNs(s).nr = s.nr /\ incrementNr(s).ns = s.ns
  BY SeqIncrementType DEF SlowStartState, incrementNs, incrementNr
=============================================================================
