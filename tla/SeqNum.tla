------------------------------- MODULE SeqNum -------------------------------
(***************************************************************************)
(* Sequence number arithmetic of the reliable control transport            *)
(* (l2tp/transport.go).  The code computes on uint16: SeqSpace is 2^16       *)
(* there and a small even number in the model-checked instances.           *)
(***************************************************************************)
EXTENDS Naturals, Integers

CONSTANT SeqSpace

ASSUME SeqSpaceAssumption ==
    /\ SeqSpace \in Nat
    /\ SeqSpace >= 4
    /\ SeqSpace % 2 = 0

SeqNo == 0 .. SeqSpace - 1

Half == SeqSpace \div 2          \* 0x8000

seqIncrement(s) == (s + 1) % SeqSpace

\* How far seq1 is ahead of seq2 going round the circle: the uint16 "delta".
seqDelta(seq1, seq2) ==
    IF seq2 <= seq1 THEN seq1 - seq2 ELSE (SeqSpace - seq2) + seq1

\* Mutant: plain comparison, ignoring the wrap.
seqCompareNoWrap(seq1, seq2) ==
    IF seq1 = seq2 THEN 0 ELSE IF seq1 > seq2 THEN 1 ELSE -1

seqCompare(seq1, seq2) ==
    IF seqDelta(seq1, seq2) = 0 THEN 0
    ELSE IF seqDelta(seq1, seq2) < Half THEN 1 ELSE -1
=============================================================================
