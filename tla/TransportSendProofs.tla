------------------------ MODULE TransportSendProofs -------------------------
(***************************************************************************)
(* What the sender writes (processTxQueue, the retry, hello and ack timers,*)
(* the rest of sendMessage) and down() keep the inductive invariant.       *)
(***************************************************************************)
EXTENDS TransportTypes

\* processTxQueue, up to the socket write, keeps the inductive invariant.
LEMMA TxHeadInv ==
  ASSUME IInv, NEW e \in End, TxHead(e)
  PROVE  IInv'
<1>. USE DEF IInv
<1>. DEFINE id == Head(txQueue[e])
            m == numbered(e, xmit[e][id])
<1>1. /\ txQueue[e] # <<>> /\ canSend(slowStart[e])
      /\ txQueue[e] \in Seq(DOMAIN xmit[e]) /\ txQueue[e] \in Seq(Nat)
      /\ slowStart[e].ntx = Len(ackQueue[e])
  BY ZenonT(30) DEF TxHead, StepInv, SenderInv, QueueIds, SenderReady, TypeOK
<1>2. id \in DOMAIN xmit[e] /\ Tail(txQueue[e]) \in Seq(DOMAIN xmit[e])
  BY <1>1, QueuePop, ZenonT(30)
<1>3. id \in Nat /\ Tail(txQueue[e]) \in Seq(Nat)
  BY <1>1, QueuePop
<1>4. xmit[e][id] \in XmitMsg
  BY <1>2, ElementOfSeq, SMTT(30) DEF TypeOK
<1>5. /\ m \in XmitMsg
      /\ isComplete(m) \/ m.nretries < MaxRetries
  BY <1>2, <1>4, NumberedType, SMTT(30) DEF StepInv, SenderInv, RetriesLeft
<1>6. /\ txQueue' = [txQueue EXCEPT ![e] = Tail(txQueue[e])]
      /\ UNCHANGED <<slowStart, ackQueue, ackTimer, helloTimer, helloInFlight,
                     receiverVars, userVars>>
  BY DEF TxHead
<1>7. \/ /\ write(e, frameOf(e, id, m)) /\ wrote(e, "tx", id)
         /\ xmit' = [xmit EXCEPT ![e] = [xmit[e] EXCEPT ![id] = m]]
         /\ UNCHANGED <<sock, faults>>
      \/ /\ socketError(e) /\ goDown(e)
         /\ xmit' = [xmit EXCEPT ![e] = [xmit[e] EXCEPT ![id] = txComplete(m, "err")]]
         /\ UNCHANGED <<net, hist>>
  BY DEF TxHead
<1>. HIDE DEF id, m
<1>8. /\ tx' \in [End -> SenderState] /\ sock' \in [End -> BOOLEAN]
      /\ net' \in [End -> SUBSET Frame] /\ hist' \in [End -> History]
      /\ faults' \in [End -> Nat]
      /\ \A g \in End : g # e => tx'[g] = tx[g]
      /\ \/ tx'[e].pc = "down"
         \/ tx'[e].pc = "sent" /\ tx'[e].cur = id
      /\ \E n \in XmitMsg : /\ XmitMsgUpdated(e, id, n)
                            /\ isComplete(n) \/ n.nretries < MaxRetries
  <2>1. CASE write(e, frameOf(e, id, m)) /\ wrote(e, "tx", id)
             /\ xmit' = [xmit EXCEPT ![e] = [xmit[e] EXCEPT ![id] = m]]
             /\ UNCHANGED <<sock, faults>>
    <3>1. XmitMsgUpdated(e, id, m)
      BY <1>2, <1>5, <2>1, XmitUpdate DEF TypeOK, XmitMsgUpdated
    <3>2. net' \in [End -> SUBSET Frame] /\ hist' \in [End -> History]
      BY <1>3, <1>5, <2>1, FrameType, WriteType, SMTT(30)
    <3>. QED
      BY <1>3, <1>5, <2>1, <3>1, <3>2, WroteType, ZenonT(30) DEF TypeOK
  <2>2. CASE socketError(e) /\ goDown(e)
             /\ xmit' = [xmit EXCEPT ![e] = [xmit[e] EXCEPT ![id] = txComplete(m, "err")]]
             /\ UNCHANGED <<net, hist>>
    <3>1. txComplete(m, "err") \in XmitMsg /\ isComplete(txComplete(m, "err"))
      BY <1>5, TxCompleteType
    <3>2. XmitMsgUpdated(e, id, txComplete(m, "err"))
      BY <1>2, <2>2, <3>1, XmitUpdate, SMTT(30) DEF TypeOK, XmitMsgUpdated
    <3>3. net' \in [End -> SUBSET Frame] /\ hist' \in [End -> History]
      BY <2>2 DEF TypeOK
    <3>. QED
      BY <2>2, <3>1, <3>2, <3>3, GoDownType, SocketErrorType, ZenonT(30)
  <2>. QED
    BY <1>7, <2>1, <2>2
<1>9. PICK n \in XmitMsg : /\ XmitMsgUpdated(e, id, n)
                           /\ isComplete(n) \/ n.nretries < MaxRetries
  BY <1>8, SMTT(30)
<1>10. TypeOK'
  BY <1>3, <1>6, <1>8, <1>9, ZenonT(30) DEF XmitMsgUpdated, TypeOK, receiverVars, userVars
<1>11. ASSUME NEW g \in End PROVE SenderInv(g)'
  <2>1. CASE g # e
    BY <1>6, <1>8, <1>9, <2>1, SenderUnchanged, ZenonT(30) DEF XmitMsgUpdated, userVars, StepInv, TypeOK
  <2>2. CASE g = e
    <3>1. QueueIds(e)'
      BY <1>2, <1>6, <1>9, ZenonT(30) DEF XmitMsgUpdated, StepInv, SenderInv, QueueIds, TypeOK
    <3>2. RetriesLeft(e)'
      BY <1>6, <1>9, RetriesKept, SMTT(30) DEF StepInv, SenderInv
    <3>3. SenderReady(e)'
      BY <1>1, <1>2, <1>6, <1>8, <1>9, ZenonT(30) DEF XmitMsgUpdated, SenderReady
    <3>. QED
      BY <2>2, <3>1, <3>2, <3>3, ZenonT(30) DEF SenderInv
  <2>. QED
    BY <2>1, <2>2, ZenonT(30)
<1>. QED
  BY <1>6, <1>10, <1>11 DEF StepInv, ReceiverInv, receiverVars

\* sender(), case retryChan, keeps the inductive invariant: a message that is not
\* given up has a retry left.
LEMMA RetryInv ==
  ASSUME IInv, NEW e \in End, NEW id \in DOMAIN xmit[e], Retry(e, id)
  PROVE  IInv'
<1>. USE DEF IInv
<1>. DEFINE m == [xmit[e][id] EXCEPT !.retryTimer = "off"]
            again == [m EXCEPT !.nretries = @ + 1]
            giveUp == again.nretries >= MaxRetries
<1>1. xmit[e][id] \in XmitMsg /\ id \in Nat
  BY ElementOfSeq DEF TypeOK
<1>2. m \in XmitMsg /\ m.nretries = xmit[e][id].nretries /\ m.result = xmit[e][id].result
  BY <1>1 DEF XmitMsg
<1>3. isComplete(m) \/ m.nretries < MaxRetries
  BY <1>2 DEF StepInv, SenderInv, RetriesLeft, isComplete
<1>4. /\ tx[e].pc = "select"
      /\ UNCHANGED <<slowStart, txQueue, ackQueue, ackTimer, helloTimer,
                     receiverVars, userVars>>
      /\ \/ /\ isComplete(m)
            /\ xmit' = [xmit EXCEPT ![e] = [xmit[e] EXCEPT ![id] = m]]
            /\ UNCHANGED <<tx, helloInFlight, sock, net, faults, hist>>
         \/ /\ ~isComplete(m) /\ ~giveUp
            /\ xmit' = [xmit EXCEPT ![e] = [xmit[e] EXCEPT ![id] = again]]
            /\ write(e, frameOf(e, id, again)) /\ wrote(e, "retry", id)
            /\ UNCHANGED <<helloInFlight, sock, faults>>
         \/ /\ ~isComplete(m)
            /\ faults' = faults \/ socketError(e)
            /\ xmit' = [xmit EXCEPT ![e] = [xmit[e] EXCEPT ![id] = txComplete(again, "err")]]
            /\ helloInFlight' = [helloInFlight EXCEPT ![e] = @ /\ m.type # "hello"]
            /\ goDown(e)
            /\ UNCHANGED <<net, hist>>
  BY DEF Retry
<1>. HIDE DEF m
<1>5. ~isComplete(m) => again \in XmitMsg /\ (~giveUp => again.nretries < MaxRetries)
  <2>. SUFFICES ASSUME ~isComplete(m) PROVE again \in XmitMsg /\ (~giveUp => again.nretries < MaxRetries)
    BY ZenonT(30)
  <2>1. m.nretries + 1 \in Nat
    BY <1>2, <1>3, SMTT(30) DEF XmitMsg
  <2>2. again \in XmitMsg
    BY <1>2, <2>1 DEF XmitMsg
  <2>. QED
    BY <2>1, <2>2, RetryLimit DEF XmitMsg
<1>. HIDE DEF again, giveUp
<1>6. /\ tx' \in [End -> SenderState] /\ sock' \in [End -> BOOLEAN]
      /\ net' \in [End -> SUBSET Frame] /\ hist' \in [End -> History]
      /\ faults' \in [End -> Nat] /\ helloInFlight' \in [End -> BOOLEAN]
      /\ \A g \in End : g # e => tx'[g] = tx[g]
      /\ \/ tx'[e].pc \in {"select", "down"}
         \/ tx'[e].pc = "sent" /\ tx'[e].cur = id /\ tx'[e].op = "retry"
      /\ \E n \in XmitMsg : /\ XmitMsgUpdated(e, id, n)
                            /\ isComplete(n) \/ n.nretries < MaxRetries
  <2>1. CASE /\ isComplete(m)
             /\ xmit' = [xmit EXCEPT ![e] = [xmit[e] EXCEPT ![id] = m]]
             /\ UNCHANGED <<tx, helloInFlight, sock, net, faults, hist>>
    <3>1. XmitMsgUpdated(e, id, m)
      BY <1>2, <2>1, XmitUpdate, SMTT(30) DEF TypeOK, XmitMsgUpdated
    <3>. QED
      BY <1>2, <1>4, <2>1, <3>1, SMTT(30) DEF TypeOK
  <2>2. CASE /\ ~isComplete(m) /\ ~giveUp
             /\ xmit' = [xmit EXCEPT ![e] = [xmit[e] EXCEPT ![id] = again]]
             /\ write(e, frameOf(e, id, again)) /\ wrote(e, "retry", id)
             /\ UNCHANGED <<helloInFlight, sock, faults>>
    <3>1. again \in XmitMsg /\ again.nretries < MaxRetries
      BY <1>5, <2>2, ZenonT(30)
    <3>2. XmitMsgUpdated(e, id, again)
      BY <2>2, <3>1, XmitUpdate DEF TypeOK, XmitMsgUpdated
    <3>3. net' \in [End -> SUBSET Frame] /\ hist' \in [End -> History]
      BY <1>1, <2>2, <3>1, FrameType, WriteType, SMTT(30)
    <3>. QED
      BY <1>1, <2>2, <3>1, <3>2, <3>3, WroteType, ZenonT(30) DEF TypeOK
  <2>3. CASE /\ ~isComplete(m)
             /\ faults' = faults \/ socketError(e)
             /\ xmit' = [xmit EXCEPT ![e] = [xmit[e] EXCEPT ![id] = txComplete(again, "err")]]
             /\ helloInFlight' = [helloInFlight EXCEPT ![e] = @ /\ m.type # "hello"]
             /\ goDown(e)
             /\ UNCHANGED <<net, hist>>
    <3>1. txComplete(again, "err") \in XmitMsg /\ isComplete(txComplete(again, "err"))
      BY <1>5, <2>3, TxCompleteType
    <3>2. XmitMsgUpdated(e, id, txComplete(again, "err"))
      BY <2>3, <3>1, XmitUpdate DEF TypeOK, XmitMsgUpdated
    <3>3. faults' \in [End -> Nat]
      BY <2>3, SocketErrorType DEF TypeOK
    <3>4. helloInFlight' \in [End -> BOOLEAN]
      BY <2>3, SMTT(30) DEF TypeOK
    <3>. QED
      BY <2>3, <3>1, <3>2, <3>3, <3>4, GoDownType, ZenonT(30) DEF TypeOK
  <2>. QED
    BY <1>4, <2>1, <2>2, <2>3, ZenonT(30)
<1>7. PICK n \in XmitMsg : /\ XmitMsgUpdated(e, id, n)
                           /\ isComplete(n) \/ n.nretries < MaxRetries
  BY <1>6, ZenonT(30)
<1>8. TypeOK'
  BY <1>4, <1>6, <1>7, ZenonT(30) DEF XmitMsgUpdated, TypeOK, receiverVars, userVars
<1>9. ASSUME NEW g \in End PROVE SenderInv(g)'
  <2>1. CASE g # e
    BY <1>4, <1>6, <1>7, <2>1, SenderUnchanged DEF XmitMsgUpdated, userVars, StepInv, TypeOK
  <2>2. CASE g = e
    <3>1. QueueIds(e)'
      BY <1>4, <1>7 DEF XmitMsgUpdated, StepInv, SenderInv, QueueIds
    <3>2. RetriesLeft(e)'
      BY <1>4, <1>7, RetriesKept, ZenonT(30) DEF StepInv, SenderInv
    <3>3. SenderReady(e)'
      BY <1>4, <1>6, <1>7 DEF XmitMsgUpdated, StepInv, SenderInv, SenderReady
    <3>. QED
      BY <2>2, <3>1, <3>2, <3>3, SMTT(30) DEF SenderInv
  <2>. QED
    BY <2>1, <2>2
<1>. QED
  BY <1>4, <1>8, <1>9 DEF StepInv, ReceiverInv, receiverVars

\* sender(), case helloTimer, keeps the inductive invariant.
LEMMA HelloInv ==
  ASSUME IInv, NEW e \in End, Hello(e)
  PROVE  IInv'
<1>. USE DEF IInv
<1>. DEFINE id == Len(xmit[e]) + 1
            m == numbered(e, newXmit("hello"))
<1>1. newXmit("hello") \in XmitMsg /\ newXmit("hello").nretries < MaxRetries
  BY SeqSpaceAssumption, RetryLimit DEF newXmit, XmitMsg, SeqNo
<1>2. m \in XmitMsg /\ m.nretries < MaxRetries
  BY <1>1, NumberedType
<1>3. /\ tx[e].pc = "select"
      /\ helloTimer' = [helloTimer EXCEPT ![e] = [helloTimer[e] EXCEPT !.fired = FALSE]]
      /\ UNCHANGED <<slowStart, txQueue, ackQueue, ackTimer, helloInFlight,
                     receiverVars, userVars>>
      /\ \/ UNCHANGED <<xmit, tx, sock, net, faults, hist>>
         \/ /\ xmit' = [xmit EXCEPT ![e] = Append(xmit[e], m)]
            /\ write(e, frameOf(e, id, m)) /\ wrote(e, "hello", id)
            /\ UNCHANGED <<sock, faults>>
         \/ /\ socketError(e) /\ goDown(e)
            /\ UNCHANGED <<xmit, net, hist>>
  BY DEF Hello
<1>4. helloTimer' \in [End -> Timer]
  <2>1. [helloTimer[e] EXCEPT !.fired = FALSE] \in Timer
    BY TimerType DEF TypeOK
  <2>. QED
    BY <1>3, <2>1 DEF TypeOK
<1>5. id \in Nat /\ DOMAIN xmit[e] = 1 .. Len(xmit[e]) /\ Len(xmit[e]) \in Nat
  BY LenProperties DEF TypeOK
<1>. HIDE DEF m
<1>6. /\ tx' \in [End -> SenderState] /\ sock' \in [End -> BOOLEAN]
      /\ net' \in [End -> SUBSET Frame] /\ hist' \in [End -> History]
      /\ faults' \in [End -> Nat] /\ xmit' \in [End -> Seq(XmitMsg)]
      /\ \A g \in End : g # e => tx'[g] = tx[g] /\ xmit'[g] = xmit[g]
      /\ DOMAIN xmit[e] \subseteq DOMAIN xmit'[e]
      /\ \/ tx'[e].pc \in {"select", "down"}
         \/ tx'[e].pc = "sent" /\ tx'[e].cur \in DOMAIN xmit'[e] /\ tx'[e].op = "hello"
      /\ RetriesLeft(e)'
  <2>1. CASE UNCHANGED <<xmit, tx, sock, net, faults, hist>>
    BY <1>3, <2>1, ZenonT(30) DEF TypeOK, StepInv, SenderInv, RetriesLeft, MaxRetries, userVars
  <2>2. CASE /\ xmit' = [xmit EXCEPT ![e] = Append(xmit[e], m)]
             /\ write(e, frameOf(e, id, m)) /\ wrote(e, "hello", id)
             /\ UNCHANGED <<sock, faults>>
    <3>1. /\ Append(xmit[e], m) \in Seq(XmitMsg)
          /\ DOMAIN Append(xmit[e], m) = 1 .. id
          /\ \A i \in 1 .. Len(xmit[e]) : Append(xmit[e], m)[i] = xmit[e][i]
          /\ Append(xmit[e], m)[id] = m
      BY <1>2, AppendProperties, LenProperties, SMTT(30) DEF TypeOK
    <3>2. xmit' \in [End -> Seq(XmitMsg)] /\ xmit'[e] = Append(xmit[e], m)
          /\ \A g \in End : g # e => xmit'[g] = xmit[g]
      BY <2>2, <3>1, ZenonT(30) DEF TypeOK
    <3>3. RetriesLeft(e)'
      BY <1>2, <1>3, <1>5, <3>1, <3>2, SMTT(30) DEF StepInv, SenderInv, RetriesLeft,
         MaxRetries, userVars
    <3>4. net' \in [End -> SUBSET Frame] /\ hist' \in [End -> History]
      BY <1>2, <1>5, <2>2, FrameType, WriteType
    <3>5. /\ tx' \in [End -> SenderState] /\ tx'[e].pc = "sent" /\ tx'[e].op = "hello"
          /\ tx'[e].cur = id /\ \A g \in End : g # e => tx'[g] = tx[g]
      BY <1>5, <2>2, WroteType
    <3>6. id \in DOMAIN xmit'[e] /\ DOMAIN xmit[e] \subseteq DOMAIN xmit'[e]
      BY <1>5, <3>1, <3>2, SMTT(30)
    <3>. QED
      BY <2>2, <3>2, <3>3, <3>4, <3>5, <3>6, SMTT(30) DEF TypeOK
  <2>3. CASE /\ socketError(e) /\ goDown(e)
             /\ UNCHANGED <<xmit, net, hist>>
    <3>1. RetriesLeft(e)'
      BY <1>3, <2>3, ZenonT(30) DEF StepInv, SenderInv, RetriesLeft, MaxRetries, userVars
    <3>2. /\ xmit' \in [End -> Seq(XmitMsg)] /\ net' \in [End -> SUBSET Frame]
          /\ hist' \in [End -> History]
      BY <2>3 DEF TypeOK
    <3>. QED
      BY <2>3, <3>1, <3>2, GoDownType, SocketErrorType, SMTT(30)
  <2>. QED
    BY <1>3, <2>1, <2>2, <2>3
<1>. HIDE DEF id
<1>7. TypeOK'
  BY <1>3, <1>4, <1>6, ZenonT(30) DEF TypeOK, receiverVars, userVars
<1>8. ASSUME NEW g \in End PROVE SenderInv(g)'
  <2>1. CASE g # e
    BY <1>3, <1>6, <2>1, SenderUnchanged DEF StepInv, userVars
  <2>2. CASE g = e
    <3>1. QueueIds(e)'
      BY <1>3, <1>6, SeqMonotonic DEF StepInv, SenderInv, QueueIds
    <3>2. SenderReady(e)'
      BY <1>3, <1>6 DEF StepInv, SenderInv, SenderReady
    <3>. QED
      BY <1>6, <2>2, <3>1, <3>2 DEF SenderInv
  <2>. QED
    BY <2>1, <2>2
<1>. QED
  BY <1>3, <1>7, <1>8 DEF StepInv, ReceiverInv, receiverVars

\* sender(), case ackTimer, keeps the inductive invariant.
LEMMA ExplicitAckInv ==
  ASSUME IInv, NEW e \in End, ExplicitAck(e)
  PROVE  IInv'
<1>. USE DEF IInv
<1>. DEFINE f == [type |-> "ack", ns |-> slowStart[e].ns, nr |-> slowStart[e].nr,
                  id |-> 0, seq |-> Len(hist[e].sent), ack |-> hist[e].taken]
<1>1. f \in Frame
  BY LenProperties, ZenonT(30) DEF Frame, TypeOK, SlowStartState, History
<1>2. /\ tx[e].pc = "select"
      /\ ackTimer' = [ackTimer EXCEPT ![e] = [ackTimer[e] EXCEPT !.fired = FALSE]]
      /\ UNCHANGED <<slowStart, txQueue, ackQueue, xmit, helloTimer, helloInFlight,
                     receiverVars, userVars>>
      /\ \/ write(e, f) /\ UNCHANGED <<tx, sock, faults>>
         \/ socketError(e) /\ goDown(e) /\ UNCHANGED <<net, hist>>
  BY DEF ExplicitAck
<1>. HIDE DEF f
<1>3. ackTimer' \in [End -> Timer]
  <2>1. [ackTimer[e] EXCEPT !.fired = FALSE] \in Timer
    BY TimerType DEF TypeOK
  <2>. QED
    BY <1>2, <2>1 DEF TypeOK
<1>4. /\ tx' \in [End -> SenderState] /\ sock' \in [End -> BOOLEAN]
      /\ net' \in [End -> SUBSET Frame] /\ hist' \in [End -> History]
      /\ faults' \in [End -> Nat]
      /\ \A g \in End : g # e => tx'[g] = tx[g]
      /\ tx'[e].pc \in {"select", "down"}
  BY <1>1, <1>2, WriteType, GoDownType, SocketErrorType, ZenonT(30) DEF TypeOK
<1>5. TypeOK'
  BY <1>2, <1>3, <1>4, ZenonT(30) DEF TypeOK, receiverVars, userVars
<1>6. ASSUME NEW g \in End PROVE SenderInv(g)'
  <2>1. CASE g # e
    BY <1>2, <1>4, <2>1, SenderUnchanged DEF StepInv, userVars
  <2>2. CASE g = e
    <3>1. QueueIds(e)' /\ RetriesLeft(e)'
      BY <1>2 DEF StepInv, SenderInv, QueueIds, RetriesLeft, MaxRetries, userVars
    <3>2. SenderReady(e)'
      BY <1>2, <1>4 DEF StepInv, SenderInv, SenderReady
    <3>. QED
      BY <2>2, <3>1, <3>2 DEF SenderInv
  <2>. QED
    BY <2>1, <2>2
<1>. QED
  BY <1>2, <1>5, <1>6, ZenonT(30) DEF StepInv, ReceiverInv, receiverVars

\* The rest of sendMessage and of its caller keeps the inductive invariant: ntx
\* and ackQueue grow together, and canSend still holds from before the write.
LEMMA AfterWriteInv ==
  ASSUME IInv, NEW e \in End, AfterWrite(e)
  PROVE  IInv'
<1>. USE DEF IInv
<1>. DEFINE id == tx[e].cur
            s == IF xmit[e][id].nretries = 0 THEN incrementNs(slowStart[e]) ELSE slowStart[e]
            ackT == stopTimer(ackTimer[e])
            helloT == resetHelloTimer(e)
            m == [xmit[e][id] EXCEPT !.retryTimer = "armed"]
<1>1. /\ id \in DOMAIN xmit[e] /\ id \in Nat
      /\ tx[e].op = "tx" => canSend(slowStart[e])
      /\ tx[e].pc = "sent" /\ slowStart[e].ntx = Len(ackQueue[e])
      /\ tx[e].ind \in {"none", "ack", "msg"}
  BY ZenonT(30) DEF AfterWrite, StepInv, SenderInv, SenderReady, TypeOK, SenderState
<1>2. s \in SlowStartState /\ s.ntx = slowStart[e].ntx /\ s.cwnd = slowStart[e].cwnd
  BY IncrementType, ZenonT(30) DEF TypeOK
<1>3. ackT \in Timer /\ helloT \in Timer
  BY TimerType, ZenonT(30) DEF resetHelloTimer, TypeOK
<1>4. /\ m \in XmitMsg /\ m.nretries = xmit[e][id].nretries /\ m.result = xmit[e][id].result
  <2>1. xmit[e][id] \in XmitMsg
    BY <1>1, ElementOfSeq DEF TypeOK
  <2>. QED
    BY <2>1 DEF XmitMsg
<1>5. isComplete(m) \/ m.nretries < MaxRetries
  BY <1>1, <1>4, SMTT(30) DEF StepInv, SenderInv, RetriesLeft, isComplete
<1>6. /\ xmit' = [xmit EXCEPT ![e] = [xmit[e] EXCEPT ![id] = m]]
      /\ UNCHANGED <<txQueue, receiverVars, sock, userVars, net, faults, hist>>
      /\ \/ /\ tx[e].op = "tx"
            /\ ackQueue' = [ackQueue EXCEPT ![e] = Append(ackQueue[e], id)]
            /\ slowStart' = [slowStart EXCEPT ![e] = onSend(s)]
            /\ loopTxQueue(e, txQueue[e], slowStart'[e], tx[e].ind, ackT, helloT)
            /\ UNCHANGED helloInFlight
         \/ /\ slowStart' = [slowStart EXCEPT ![e] = onRetransmit(s)]
            /\ endCase(e, "none", ackT, helloT)
            /\ UNCHANGED <<ackQueue, helloInFlight>>
         \/ /\ slowStart' = [slowStart EXCEPT ![e] = s]
            /\ helloInFlight' = [helloInFlight EXCEPT ![e] = TRUE]
            /\ endCase(e, "none", ackT, helloT)
            /\ UNCHANGED ackQueue
  BY ZenonT(30) DEF AfterWrite
<1>. HIDE DEF id, s, ackT, helloT, m
<1>7. XmitMsgUpdated(e, id, m)
  BY <1>1, <1>4, <1>6, XmitUpdate, SMTT(30) DEF TypeOK, XmitMsgUpdated
<1>8. /\ tx' \in [End -> SenderState] /\ ackTimer' \in [End -> Timer]
      /\ helloTimer' \in [End -> Timer] /\ helloInFlight' \in [End -> BOOLEAN]
      /\ slowStart' \in [End -> SlowStartState] /\ ackQueue' \in [End -> Seq(Nat)]
      /\ \A g \in End : g # e => /\ tx'[g] = tx[g] /\ slowStart'[g] = slowStart[g]
                                 /\ ackQueue'[g] = ackQueue[g]
      /\ \/ tx'[e].pc = "select"
         \/ tx'[e].pc = "txq" /\ txQueue[e] # <<>> /\ canSend(slowStart'[e])
      /\ slowStart'[e].ntx = Len(ackQueue'[e])
      /\ ackQueue'[e] \in Seq(DOMAIN xmit[e])
  <2>0. ackQueue[e] \in Seq(DOMAIN xmit[e]) /\ ackQueue[e] \in Seq(Nat)
    BY ZenonT(30) DEF StepInv, SenderInv, QueueIds, TypeOK
  <2>1. CASE /\ tx[e].op = "tx"
             /\ ackQueue' = [ackQueue EXCEPT ![e] = Append(ackQueue[e], id)]
             /\ slowStart' = [slowStart EXCEPT ![e] = onSend(s)]
             /\ loopTxQueue(e, txQueue[e], slowStart'[e], tx[e].ind, ackT, helloT)
             /\ UNCHANGED helloInFlight
    <3>1. onSend(s) \in SlowStartState /\ onSend(s).ntx = slowStart[e].ntx + 1
      BY <1>1, <1>2, <2>1, OnSendType, ZenonT(30) DEF canSend
    <3>2. Append(ackQueue[e], id) \in Seq(Nat)
          /\ Len(Append(ackQueue[e], id)) = Len(ackQueue[e]) + 1
      BY <1>1, <2>0, AppendProperties
    <3>3. Append(ackQueue[e], id) \in Seq(DOMAIN xmit[e])
      BY <1>1, <2>0, AppendProperties, ZenonT(30)
    <3>4. /\ tx' \in [End -> SenderState] /\ ackTimer' \in [End -> Timer]
          /\ helloTimer' \in [End -> Timer]
          /\ \/ tx'[e].pc = "select"
             \/ tx'[e].pc = "txq" /\ txQueue[e] # <<>> /\ canSend(slowStart'[e])
          /\ \A g \in End : g # e => tx'[g] = tx[g]
      BY <1>1, <1>3, <2>1, LoopType, ZenonT(30)
    <3>. QED
      BY <1>1, <2>1, <3>1, <3>2, <3>3, <3>4, ZenonT(30) DEF TypeOK
  <2>2. CASE /\ slowStart' = [slowStart EXCEPT ![e] = onRetransmit(s)]
             /\ endCase(e, "none", ackT, helloT)
             /\ UNCHANGED <<ackQueue, helloInFlight>>
    BY <1>1, <1>2, <1>3, <2>0, <2>2, EndCaseType, OnRetransmitType, SMTT(30) DEF TypeOK
  <2>3. CASE /\ slowStart' = [slowStart EXCEPT ![e] = s]
             /\ helloInFlight' = [helloInFlight EXCEPT ![e] = TRUE]
             /\ endCase(e, "none", ackT, helloT)
             /\ UNCHANGED ackQueue
    BY <1>1, <1>2, <1>3, <2>0, <2>3, EndCaseType, SMTT(30) DEF TypeOK
  <2>. QED
    BY <1>6, <2>1, <2>2, <2>3, SMTT(30)
<1>9. TypeOK'
  BY <1>6, <1>7, <1>8, ZenonT(30) DEF XmitMsgUpdated, TypeOK, receiverVars, userVars
<1>10. ASSUME NEW g \in End PROVE SenderInv(g)'
  <2>1. CASE g # e
    BY <1>6, <1>7, <1>8, <2>1, SenderUnchanged, ZenonT(30) DEF XmitMsgUpdated, StepInv, userVars
  <2>2. CASE g = e
    <3>1. QueueIds(e)'
      BY <1>6, <1>7, <1>8, ZenonT(30) DEF XmitMsgUpdated, StepInv, SenderInv, QueueIds
    <3>2. RetriesLeft(e)'
      BY <1>5, <1>6, <1>7, RetriesKept, SMTT(30) DEF StepInv, SenderInv
    <3>3. SenderReady(e)'
      BY <1>6, <1>8, ZenonT(30) DEF SenderReady
    <3>. QED
      BY <2>2, <3>1, <3>2, <3>3 DEF SenderInv
  <2>. QED
    BY <2>1, <2>2
<1>. QED
  BY <1>6, <1>9, <1>10 DEF StepInv, ReceiverInv, receiverVars

\* down() flushing the queues keeps the inductive invariant.
LEMMA FinishDownInv ==
  ASSUME IInv, NEW e \in End, FinishDown(e)
  PROVE  IInv'
<1>. USE DEF IInv
<1>. DEFINE x == xmit[e]
            y == [i \in DOMAIN x |-> IF i \in flushed(e) THEN txComplete(x[i], "err") ELSE x[i]]
            t == [tx[e] EXCEPT !.pc = "exited"]
<1>1. /\ xmit' = [xmit EXCEPT ![e] = y]
      /\ txQueue' = [txQueue EXCEPT ![e] = <<>>]
      /\ ackQueue' = [ackQueue EXCEPT ![e] = <<>>]
      /\ ackTimer' = [ackTimer EXCEPT ![e] = stopTimer(ackTimer[e])]
      /\ helloTimer' = [helloTimer EXCEPT ![e] = stopTimer(helloTimer[e])]
      /\ tx' = [tx EXCEPT ![e] = t]
      /\ UNCHANGED <<slowStart, helloInFlight, receiverVars, sock, userVars, net,
                     faults, hist>>
  BY DEF FinishDown
<1>2. x \in Seq(XmitMsg)
  BY ZenonT(30) DEF TypeOK
<1>3. \A i \in DOMAIN x : y[i] \in XmitMsg /\ (isComplete(y[i]) \/ y[i] = x[i])
  BY <1>2, ElementOfSeq, TxCompleteType, SMTT(30)
<1>4. DOMAIN y = 1 .. Len(x) /\ DOMAIN y = DOMAIN x /\ Len(x) \in Nat
  BY <1>2, LenProperties
<1>. HIDE DEF y
<1>5. y \in Seq(XmitMsg)
  <2>1. y = [i \in 1 .. Len(x) |-> y[i]]
    BY <1>4 DEF y
  <2>2. y \in [1 .. Len(x) -> XmitMsg]
    BY <1>3, <1>4, <2>1
  <2>. QED
    BY <1>4, <2>2, SeqDef
<1>6. t \in SenderState /\ t.pc = "exited"
  <2>1. tx[e] \in SenderState
    BY DEF TypeOK
  <2>. QED
    BY <2>1 DEF SenderState
<1>7. stopTimer(ackTimer[e]) \in Timer /\ stopTimer(helloTimer[e]) \in Timer
  BY TimerType, ZenonT(30) DEF TypeOK
<1>. HIDE DEF t
<1>8. TypeOK'
  BY <1>1, <1>5, <1>6, <1>7, EmptySeq, SMTT(30) DEF TypeOK, receiverVars, userVars
<1>9. ASSUME NEW g \in End PROVE SenderInv(g)'
  <2>1. CASE g # e
    BY <1>1, <2>1, SenderUnchanged, ZenonT(30) DEF StepInv, TypeOK, userVars
  <2>2. CASE g = e
    <3>1. QueueIds(e)'
      BY <1>1, EmptySeq, SMTT(30) DEF QueueIds, TypeOK
    <3>2. RetriesLeft(e)'
      BY <1>1, <1>3, <1>4, ZenonT(30) DEF StepInv, SenderInv, RetriesLeft, TypeOK,
         MaxRetries, userVars
    <3>3. SenderReady(e)'
      BY <1>1, <1>6, ZenonT(30) DEF SenderReady, TypeOK
    <3>. QED
      BY <2>2, <3>1, <3>2, <3>3 DEF SenderInv
  <2>. QED
    BY <2>1, <2>2
<1>. QED
  BY <1>1, <1>8, <1>9, ZenonT(30) DEF StepInv, ReceiverInv, receiverVars
=============================================================================
