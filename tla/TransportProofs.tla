-------------------------- MODULE TransportProofs ---------------------------
(***************************************************************************)
(* Safety of the transport for every window, retry limit, sequence space and*)
(* bound of module Transport.                                              *)
(***************************************************************************)
EXTENDS TransportStepProofs, TransportSendProofs

\* The inductive invariant is a state predicate over vars.
LEMMA StutterInv == ASSUME IInv, UNCHANGED vars PROVE IInv'
<1>. USE DEF IInv, vars, senderVars, receiverVars, userVars
<1>1. TypeOK'
  BY ZenonT(30) DEF TypeOK
<1>2. StepInv'
  BY DEF StepInv, SenderInv, QueueIds, SenderReady, RetriesLeft, ReceiverInv, MaxRetries
<1>. QED
  BY <1>1, <1>2, SMTT(30)

\* The inductive invariant holds: between any two steps of the goroutines each
\* one still has what its next step relies on.
THEOREM InductiveInvariant == Spec => []IInv
<1>1. ASSUME IInv, [Next]_vars PROVE IInv'
  <2>1. CASE UNCHANGED vars
    BY <1>1, <2>1, StutterInv
  <2>2. ASSUME NEW e \in End, Sender(e) PROVE IInv'
    BY <1>1, <2>2, AcceptSendInv, CloseSeenInv, TakeNrInv, AckHeadInv, TxHeadInv, RetryInv, SMTT(30),
       HelloInv, ExplicitAckInv, AfterWriteInv, FinishDownInv DEF Sender
  <2>3. ASSUME NEW e \in End, Receiver(e) \/ Socket(e) \/ Timers(e) \/ User(e) PROVE IInv'
    BY <1>1, <2>3, ReceiverStepInv, TimersInv
  <2>. QED
    BY <1>1, <2>1, <2>2, <2>3 DEF Next
<1>. QED
  BY <1>1, InitInv, PTL DEF Spec

\* Every variable keeps its type; in particular cwnd, ntx, nacks and thresh stay
\* within TxWindowSize, ns and nr within 16 bits.
THEOREM TypeCorrect == Spec => []TypeOK
  BY InductiveInvariant, PTL DEF IInv

\* Whatever the other goroutines do in between, the sender and the receiver find
\* what the rest of a handler relies on: the message being written, a window with
\* room for it, the queues that agree with ntx, the message to deliver.
THEOREM StepsReady == Spec => []StepInv
  BY InductiveInvariant, PTL DEF IInv

\* What processTxQueue found when it dequeued the message still holds when the
\* rest of sendMessage puts it in flight: the window has room for it.
LEMMA RoomInWindow ==
  ASSUME IInv, NEW e \in End, tx[e].pc = "sent", tx[e].op = "tx"
  PROVE  Len(ackQueue[e]) < slowStart[e].cwnd /\ slowStart[e].cwnd <= TxWindowSize
<1>1. slowStart[e].ntx = Len(ackQueue[e]) /\ canSend(slowStart[e])
  BY DEF IInv, StepInv, SenderInv, SenderReady
<1>2. slowStart[e].cwnd \in 1 .. TxWindowSize /\ slowStart[e].ntx \in 0 .. TxWindowSize
  BY DEF IInv, TypeOK, SlowStartState
<1>. QED
  BY <1>1, <1>2, TxWindowAssumption DEF canSend

\* Only the rest of sendMessage, for a message of txQueue, puts one in flight.
LEMMA GrowsAfterWrite ==
  ASSUME IInv, [Next]_vars, NEW e \in End, Len(ackQueue'[e]) > Len(ackQueue[e])
  PROVE  tx[e].pc = "sent" /\ tx[e].op = "tx"
<1>. ackQueue \in [End -> Seq(Nat)] /\ Len(ackQueue[e]) \in Nat
  BY LenProperties DEF IInv, TypeOK
<1>1. ackQueue' # ackQueue
  OBVIOUS
<1>2. PICK f \in End : AckHead(f) \/ AfterWrite(f) \/ FinishDown(f)
  <2>1. ~UNCHANGED vars
    BY <1>1 DEF vars, senderVars
  <2>2. PICK f \in End : Sender(f) \/ Receiver(f) \/ Socket(f) \/ Timers(f) \/ User(f)
    BY <2>1 DEF Next
  <2>3. ~Receiver(f) /\ ~Socket(f) /\ ~User(f)
    BY <1>1 DEF Receiver, Socket, User, ProcessRx, Drain, ReadFrame, ReadBadFrame, ReadError,
         RecvCall, Close, senderVars
  <2>4. ~Timers(f)
    BY <1>1 DEF Timers, AckTimerFires, HelloTimerFires, RetryTimerFires
  <2>5. ~AcceptSend(f) /\ ~SeeClosed(f) /\ ~SeeReceiverGone(f) /\ ~TakeNr(f)
    BY <1>1, ZenonT(30) DEF AcceptSend, SeeClosed, SeeReceiverGone, TakeNr
  <2>6. ~TxHead(f) /\ ~Hello(f) /\ ~ExplicitAck(f)
    BY <1>1, ZenonT(30) DEF TxHead, Hello, ExplicitAck
  <2>7. \A id \in DOMAIN xmit[f] : ~Retry(f, id)
    BY <1>1, ZenonT(30) DEF Retry
  <2>. QED
    BY <2>2, <2>3, <2>4, <2>5, <2>6, <2>7, ZenonT(30) DEF Sender
<1>3. ~AckHead(f)
  <2>. SUFFICES ASSUME AckHead(f) PROVE FALSE
    OBVIOUS
  <2>1. ackQueue[f] # <<>> /\ ackQueue' = [ackQueue EXCEPT ![f] = Tail(ackQueue[f])]
    BY DEF AckHead, headAcked, IInv, StepInv, SenderInv, SenderReady
  <2>2. Len(Tail(ackQueue[f])) = Len(ackQueue[f]) - 1
    BY <2>1, QueuePop
  <2>. QED
    BY <2>1, <2>2
<1>4. ~FinishDown(f)
  <2>. SUFFICES ASSUME FinishDown(f) PROVE FALSE
    OBVIOUS
  <2>1. ackQueue' = [ackQueue EXCEPT ![f] = <<>>]
    BY DEF FinishDown
  <2>. QED
    BY <2>1, EmptySeq
<1>5. f = e /\ tx[f].op = "tx" /\ tx[f].pc = "sent"
  BY <1>1, <1>2, <1>3, <1>4 DEF AfterWrite
<1>. QED
  BY <1>5

\* A message joins those in flight only inside the window, for every TxWindowSize,
\* number of callers and retry limit (processTxQueue, processAckQueue,
\* retransmitMessage).
THEOREM WindowNeverExceeded == Spec => WindowBound
<1>1. ASSUME IInv, [Next]_vars
      PROVE  [\A e \in End :
                Len(ackQueue'[e]) > Len(ackQueue[e]) =>
                    Len(ackQueue[e]) < slowStart[e].cwnd /\ slowStart[e].cwnd <= TxWindowSize]_vars
  BY <1>1, GrowsAfterWrite, RoomInWindow
<1>. QED
  BY <1>1, InductiveInvariant, PTL DEF Spec, WindowBound

\* An update of one message that does not touch a completed one keeps all
\* completed messages.
LEMMA UpdateKeeps ==
  ASSUME IInv, NEW e \in End, NEW id \in DOMAIN xmit[e], NEW m,
         xmit' = [xmit EXCEPT ![e] = [xmit[e] EXCEPT ![id] = m]],
         isComplete(xmit[e][id]) => /\ m.nretries = xmit[e][id].nretries
                                    /\ m.result = xmit[e][id].result
  PROVE  KeepsCompleted
  BY ZenonT(30) DEF KeepsCompleted, IInv, TypeOK

\* A new xmitMsg leaves the earlier ones alone.
LEMMA AppendKeeps ==
  ASSUME IInv, NEW e \in End, NEW m \in XmitMsg,
         xmit' = [xmit EXCEPT ![e] = Append(xmit[e], m)]
  PROVE  KeepsCompleted
<1>1. \A i \in DOMAIN xmit[e] : Append(xmit[e], m)[i] = xmit[e][i]
  BY AppendProperties, LenProperties, SMTT(30) DEF IInv, TypeOK
<1>. QED
  BY <1>1, ZenonT(30) DEF KeepsCompleted, IInv, TypeOK

\* Every step leaves the completed messages as they are.
LEMMA NextKeepsCompleted == IInv /\ [Next]_vars => KeepsCompleted
<1>. SUFFICES ASSUME IInv, [Next]_vars PROVE KeepsCompleted
  OBVIOUS
<1>0. CASE xmit' = xmit
  BY <1>0, SMTT(30) DEF KeepsCompleted
<1>1. ASSUME NEW e \in End, AcceptSend(e) PROVE KeepsCompleted
  <2>1. newXmit("data") \in XmitMsg
    BY SeqSpaceAssumption, TransportAssumption DEF newXmit, XmitMsg, SeqNo
  <2>. QED
    BY <1>1, <2>1, AppendKeeps, ZenonT(30) DEF AcceptSend
<1>2. ASSUME NEW e \in End, AckHead(e) PROVE KeepsCompleted
  <2>. DEFINE id == Head(ackQueue[e])
              m == txComplete(xmit[e][id], "ok")
  <2>1. id \in DOMAIN xmit[e]
    BY <1>2, QueuePop DEF AckHead, IInv, StepInv, SenderInv, QueueIds, SenderReady
  <2>2. xmit[e][id] \in XmitMsg
    BY <2>1, ElementOfSeq DEF IInv, TypeOK
  <2>3. xmit' = [xmit EXCEPT ![e] = [xmit[e] EXCEPT ![id] = m]]
    BY <1>2 DEF AckHead
  <2>4. isComplete(xmit[e][id]) => m = xmit[e][id]
    BY DEF txComplete
  <2>. QED
    BY <2>1, <2>3, <2>4, UpdateKeeps, ZenonT(30)
<1>3. ASSUME NEW e \in End, TxHead(e) PROVE KeepsCompleted
  <2>. DEFINE id == Head(txQueue[e])
              m == numbered(e, xmit[e][id])
  <2>1. id \in DOMAIN xmit[e]
    BY <1>3, QueuePop DEF TxHead, IInv, StepInv, SenderInv, QueueIds, SenderReady
  <2>2. xmit[e][id] \in XmitMsg
    BY <2>1, ElementOfSeq DEF IInv, TypeOK
  <2>3. /\ m.nretries = xmit[e][id].nretries /\ m.result = xmit[e][id].result
        /\ isComplete(m) <=> isComplete(xmit[e][id])
    BY <2>2, NumberedType DEF IInv
  <2>4. \/ xmit' = [xmit EXCEPT ![e] = [xmit[e] EXCEPT ![id] = m]]
        \/ xmit' = [xmit EXCEPT ![e] = [xmit[e] EXCEPT ![id] = txComplete(m, "err")]]
    BY <1>3 DEF TxHead
  <2>. HIDE DEF id, m
  <2>5. isComplete(m) => txComplete(m, "err") = m
    BY DEF txComplete
  <2>6. CASE xmit' = [xmit EXCEPT ![e] = [xmit[e] EXCEPT ![id] = m]]
    BY <2>1, <2>3, <2>6, UpdateKeeps
  <2>7. CASE xmit' = [xmit EXCEPT ![e] = [xmit[e] EXCEPT ![id] = txComplete(m, "err")]]
    <3>. DEFINE n == txComplete(m, "err")
    <3>1. isComplete(xmit[e][id]) => /\ n.nretries = xmit[e][id].nretries
                                     /\ n.result = xmit[e][id].result
      BY <2>3, <2>5
    <3>2. xmit' = [xmit EXCEPT ![e] = [xmit[e] EXCEPT ![id] = n]]
      BY <2>7
    <3>. HIDE DEF n
    <3>. QED
      BY <2>1, <3>1, <3>2, UpdateKeeps, ZenonT(30)
  <2>. QED
    BY <2>4, <2>6, <2>7
<1>4. ASSUME NEW e \in End, NEW id \in DOMAIN xmit[e], Retry(e, id) PROVE KeepsCompleted
  <2>. DEFINE m == [xmit[e][id] EXCEPT !.retryTimer = "off"]
  <2>1. xmit[e][id] \in XmitMsg
    BY ElementOfSeq DEF IInv, TypeOK
  <2>2. m.nretries = xmit[e][id].nretries /\ m.result = xmit[e][id].result
    BY <2>1 DEF XmitMsg
  <2>3. \/ xmit' = [xmit EXCEPT ![e] = [xmit[e] EXCEPT ![id] = m]]
        \/ ~isComplete(m) /\ \E n : xmit' = [xmit EXCEPT ![e] = [xmit[e] EXCEPT ![id] = n]]
    BY <1>4 DEF Retry
  <2>. HIDE DEF m
  <2>4. isComplete(m) <=> isComplete(xmit[e][id])
    BY <2>2 DEF isComplete
  <2>. QED
    BY <2>2, <2>3, <2>4, UpdateKeeps
<1>5. ASSUME NEW e \in End, Hello(e) PROVE KeepsCompleted
  <2>1. newXmit("hello") \in XmitMsg
    BY SeqSpaceAssumption, TransportAssumption DEF newXmit, XmitMsg, SeqNo
  <2>2. numbered(e, newXmit("hello")) \in XmitMsg
    BY <2>1, NumberedType DEF IInv
  <2>3. \/ xmit' = xmit
        \/ xmit' = [xmit EXCEPT ![e] = Append(xmit[e], numbered(e, newXmit("hello")))]
    BY <1>5 DEF Hello
  <2>. QED
    BY <1>0, <2>2, <2>3, AppendKeeps
<1>6. ASSUME NEW e \in End, AfterWrite(e) PROVE KeepsCompleted
  <2>. DEFINE id == tx[e].cur
              m == [xmit[e][id] EXCEPT !.retryTimer = "armed"]
  <2>1. id \in DOMAIN xmit[e]
    BY <1>6 DEF AfterWrite, IInv, StepInv, SenderInv, SenderReady
  <2>2. xmit[e][id] \in XmitMsg
    BY <2>1, ElementOfSeq DEF IInv, TypeOK
  <2>3. m.nretries = xmit[e][id].nretries /\ m.result = xmit[e][id].result
    BY <2>2 DEF XmitMsg
  <2>4. xmit' = [xmit EXCEPT ![e] = [xmit[e] EXCEPT ![id] = m]]
    BY <1>6 DEF AfterWrite
  <2>. HIDE DEF m
  <2>. QED
    BY <2>1, <2>3, <2>4, UpdateKeeps, ZenonT(30)
<1>7. ASSUME NEW e \in End, FinishDown(e) PROVE KeepsCompleted
  <2>1. xmit' = [xmit EXCEPT ![e] = [i \in DOMAIN xmit[e] |->
                   IF i \in flushed(e) THEN txComplete(xmit[e][i], "err") ELSE xmit[e][i]]]
    BY <1>7 DEF FinishDown
  <2>2. \A i \in DOMAIN xmit[e] :
           isComplete(xmit[e][i]) => txComplete(xmit[e][i], "err") = xmit[e][i]
    BY DEF txComplete
  <2>. QED
    BY <2>1, <2>2 DEF KeepsCompleted, IInv, TypeOK
<1>8. ASSUME NEW e \in End, NEW id \in DOMAIN xmit[e], RetryTimerFires(e, id)
      PROVE  KeepsCompleted
  <2>. DEFINE m == [xmit[e][id] EXCEPT !.retryTimer = "fired"]
  <2>1. xmit[e][id] \in XmitMsg
    BY ElementOfSeq DEF IInv, TypeOK
  <2>2. m.nretries = xmit[e][id].nretries /\ m.result = xmit[e][id].result
    BY <2>1 DEF XmitMsg
  <2>3. xmit' = [xmit EXCEPT ![e] = [xmit[e] EXCEPT ![id] = m]]
    BY <1>8 DEF RetryTimerFires
  <2>. HIDE DEF m
  <2>. QED
    BY <2>2, <2>3, UpdateKeeps, ZenonT(30)
<1>9. ASSUME NEW e \in End,
             \/ SeeClosed(e) \/ SeeReceiverGone(e) \/ TakeNr(e) \/ ExplicitAck(e)
             \/ Receiver(e) \/ Socket(e) \/ User(e) \/ AckTimerFires(e) \/ HelloTimerFires(e)
      PROVE  xmit' = xmit
  BY <1>9, ZenonT(30) DEF SeeClosed, SeeReceiverGone, TakeNr, ExplicitAck, Receiver, Socket, User,
     ReadFrame, ReadBadFrame, ReadError, ProcessRx, Drain, RecvCall, Close,
     AckTimerFires, HelloTimerFires, senderVars
<1>10. CASE UNCHANGED vars
  BY <1>0, <1>10 DEF vars, senderVars
<1>. QED
  BY <1>0, <1>1, <1>2, <1>3, <1>4, <1>5, <1>6, <1>7, <1>8, <1>9, <1>10, SMTT(30)
  DEF Next, Sender, Timers

\* A completed message keeps its result and is never retransmitted, whatever the
\* race between its ack and its retry timer (sender, case retryChan).
THEOREM CompletionIsFinal == Spec => CompleteIsFinal
  BY InductiveInvariant, NextKeepsCompleted, PTL DEF Spec, CompleteIsFinal
=============================================================================
