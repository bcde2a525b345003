------------------------ MODULE TransportStepProofs -------------------------
(***************************************************************************)
(* The receiver, the timers, the users and the queue handling of the sender*)
(* (sendChan and nrChan cases) keep the inductive invariant.               *)
(***************************************************************************)
EXTENDS TransportTypes

\* sender(), case sendChan, keeps the inductive invariant.
LEMMA AcceptSendInv ==
  ASSUME IInv, NEW e \in End, AcceptSend(e)
  PROVE  IInv'
<1>. USE DEF IInv
<1>1. newXmit("data") \in XmitMsg /\ ~isComplete(newXmit("data"))
      /\ newXmit("data").nretries < MaxRetries
  BY SeqSpaceAssumption, RetryLimit DEF newXmit, XmitMsg, SeqNo, isComplete
<1>2. /\ xmit' \in [End -> Seq(XmitMsg)]
      /\ \A f \in End : f # e => xmit'[f] = xmit[f]
      /\ Len(xmit'[e]) = Len(xmit[e]) + 1
      /\ DOMAIN xmit'[e] = 1 .. Len(xmit[e]) + 1 /\ DOMAIN xmit[e] = 1 .. Len(xmit[e])
      /\ Len(xmit[e]) \in Nat
      /\ \A i \in DOMAIN xmit[e] : xmit'[e][i] = xmit[e][i]
      /\ xmit'[e][Len(xmit[e]) + 1] = newXmit("data")
  BY <1>1, AppendProperties DEF AcceptSend, TypeOK
<1>3. /\ txQueue' \in [End -> Seq(Nat)]
      /\ \A f \in End : f # e => txQueue'[f] = txQueue[f]
  BY <1>2, AppendProperties DEF AcceptSend, TypeOK
<1>4. /\ tx' \in [End -> SenderState] /\ ackTimer' \in [End -> Timer]
      /\ helloTimer' \in [End -> Timer]
      /\ \/ tx'[e].pc = "select"
         \/ tx'[e].pc = "txq" /\ txQueue'[e] # <<>> /\ canSend(slowStart[e])
      /\ \A f \in End : f # e => tx'[f] = tx[f]
  BY LoopType, ZenonT(30) DEF AcceptSend, TypeOK
<1>5. TypeOK'
  <2>1. callers' \in [End -> Nat]
    BY DEF AcceptSend, TypeOK
  <2>2. UNCHANGED <<slowStart, ackQueue, helloInFlight, receiverVars, sock, closed, workload,
                    net, faults, hist>>
    BY DEF AcceptSend
  <2>. QED
    BY <1>2, <1>3, <1>4, <2>1, <2>2 DEF TypeOK, receiverVars
<1>6. ASSUME NEW f \in End PROVE SenderInv(f)'
  <2>1. CASE f # e
    BY <2>1, <1>2, <1>3, <1>4, SenderUnchanged DEF AcceptSend, StepInv
  <2>2. CASE f = e
    <3>1. QueueIds(e)'
      <4>1. /\ txQueue[e] \in Seq(DOMAIN xmit'[e])
            /\ ackQueue[e] \in Seq(DOMAIN xmit'[e])
        BY <1>2, SeqMonotonic DEF StepInv, SenderInv, QueueIds
      <4>2. Append(txQueue[e], Len(xmit[e]) + 1) \in Seq(DOMAIN xmit'[e])
        BY <1>2, <4>1, AppendProperties, SMTT(30)
      <4>. QED
        BY <4>1, <4>2 DEF AcceptSend, QueueIds, TypeOK
    <3>2. SenderReady(e)'
      BY <1>4 DEF AcceptSend, StepInv, SenderInv, SenderReady
    <3>3. RetriesLeft(e)'
      <4>1. MaxRetries' = MaxRetries
        BY DEF AcceptSend, MaxRetries
      <4>. QED
        BY <1>1, <1>2, <4>1, SMTT(30) DEF StepInv, SenderInv, RetriesLeft
    <3>. QED
      BY <2>2, <3>1, <3>2, <3>3 DEF SenderInv
  <2>. QED
    BY <2>1, <2>2
<1>7. ASSUME NEW f \in End PROVE ReceiverInv(f)'
  BY DEF AcceptSend, StepInv, ReceiverInv, receiverVars
<1>. QED
  BY <1>5, <1>6, <1>7 DEF StepInv

\* sender() finding sendChan or nrChan closed keeps the inductive invariant.
LEMMA CloseSeenInv ==
  ASSUME IInv, NEW e \in End, SeeClosed(e) \/ SeeReceiverGone(e)
  PROVE  IInv'
<1>. USE DEF IInv
<1>1. /\ tx[e].pc = "select" /\ goDown(e)
      /\ UNCHANGED <<slowStart, txQueue, ackQueue, xmit, ackTimer, helloTimer,
                     helloInFlight, receiverVars, userVars, net, faults, hist>>
  BY DEF SeeClosed, SeeReceiverGone
<1>2. TypeOK'
  BY <1>1, GoDownType DEF TypeOK, receiverVars, userVars
<1>3. ASSUME NEW f \in End PROVE SenderInv(f)'
  <2>1. CASE f # e
    BY <2>1, <1>1, GoDownType, SenderUnchanged DEF StepInv, userVars
  <2>2. CASE f = e
    BY <2>2, <1>1, GoDownType DEF StepInv, SenderInv, QueueIds, SenderReady, RetriesLeft,
         MaxRetries, userVars
  <2>. QED
    BY <2>1, <2>2
<1>4. ASSUME NEW f \in End PROVE ReceiverInv(f)'
  BY <1>1 DEF StepInv, ReceiverInv, receiverVars
<1>. QED
  BY <1>2, <1>3, <1>4 DEF StepInv

\* Every step of receiver(), of closeReceiver's drain goroutine and of the
\* callers of recv() and close() keeps the inductive invariant.
LEMMA ReceiverStepInv ==
  ASSUME IInv, NEW e \in End, Receiver(e) \/ Socket(e) \/ User(e)
  PROVE  IInv'
<1>. USE DEF IInv
<1>1. /\ UNCHANGED <<senderVars, workload>>
      /\ \A f \in End : rx[f] \in ReceiverState /\ rxQueue[f] \in Seq(Frame)
  BY DEF Receiver, Socket, User, ReadFrame, ReadBadFrame, ReadError, ProcessRx, Drain,
         RecvCall, Close, TypeOK, userVars
<1>2. CASE ReadFrame(e)
  <2>1. PICK f \in net[e] :
          /\ net' = net \/ net' = [net EXCEPT ![e] = @ \ {f}]
          /\ IF nrIsValid(e, f)
             THEN /\ rxQueue' = [rxQueue EXCEPT ![e] = Append(@, f)]
                  /\ rx' = [rx EXCEPT ![e] = [pc |-> "nr", held |-> <<f>>]]
             ELSE /\ rx' = [rx EXCEPT ![e] = [pc |-> "nr", held |-> <<>>]]
                  /\ UNCHANGED rxQueue
    BY <1>2, ZenonT(30) DEF ReadFrame
  <2>2. f \in Frame /\ Append(rxQueue[e], f) \in Seq(Frame)
    BY <1>1, AppendProperties DEF TypeOK
  <2>3. [pc |-> "nr", held |-> <<f>>] \in ReceiverState
    BY <2>2 DEF ReceiverState
  <2>4. [pc |-> "nr", held |-> <<>>] \in ReceiverState
    BY DEF ReceiverState
  <2>5. net' \in [End -> SUBSET Frame]
    <3>1. net \in [End -> SUBSET Frame] /\ net[e] \ {f} \in SUBSET Frame
      BY DEF TypeOK
    <3>. QED
      BY <2>1, <3>1, ZenonT(30)
  <2>6. rx' \in [End -> ReceiverState] /\ rxQueue' \in [End -> Seq(Frame)]
    <3>1. rx \in [End -> ReceiverState] /\ rxQueue \in [End -> Seq(Frame)]
      BY DEF TypeOK
    <3>2. CASE nrIsValid(e, f)
      BY <2>1, <2>2, <2>3, <3>1, <3>2, ZenonT(30)
    <3>3. CASE ~nrIsValid(e, f)
      BY <2>1, <2>4, <3>1, <3>3, ZenonT(30)
    <3>. QED
      BY <3>2, <3>3
  <2>7. TypeOK'
    BY <1>1, <1>2, <2>5, <2>6, SMTT(30) DEF ReadFrame, TypeOK, senderVars, userVars
  <2>8. ASSUME NEW g \in End PROVE ReceiverInv(g)'
    <3>1. CASE g = e
      BY <2>1, <3>1 DEF ReceiverInv, TypeOK
    <3>2. CASE g # e
      BY <2>1, <3>2 DEF StepInv, ReceiverInv, TypeOK
    <3>. QED
      BY <3>1, <3>2
  <2>9. slowStart' = slowStart
    BY <1>2 DEF ReadFrame
  <2>. QED
    BY <1>1, <2>7, <2>8, <2>9, SenderUnchanged DEF StepInv, senderVars
<1>3. CASE ReadBadFrame(e)
  <2>1. [pc |-> "nr", held |-> <<>>] \in ReceiverState
    BY DEF ReceiverState
  <2>2. TypeOK'
    BY <1>1, <1>3, <2>1 DEF ReadBadFrame, socketError, TypeOK, senderVars, userVars
  <2>3. \A g \in End : ReceiverInv(g)'
    BY <1>3 DEF ReadBadFrame, StepInv, ReceiverInv, TypeOK
  <2>4. slowStart' = slowStart
    BY <1>3 DEF ReadBadFrame
  <2>. QED
    BY <1>1, <2>2, <2>3, <2>4, SenderUnchanged DEF StepInv, senderVars
<1>4. CASE ReadError(e)
  <2>1. [rx[e] EXCEPT !.pc = "done"] \in ReceiverState /\ [rx[e] EXCEPT !.pc = "done"].pc = "done"
    BY <1>1 DEF ReceiverState
  <2>2. faults' \in [End -> Nat]
    <3>1. faults \in [End -> Nat] /\ (socketError(e) \/ faults' = faults)
      BY <1>4 DEF ReadError, TypeOK
    <3>. QED
      BY <3>1, SocketErrorType
  <2>3. rx' \in [End -> ReceiverState] /\ rxQueue' \in [End -> Seq(Frame)]
    BY <1>4, <2>1, EmptySeq DEF ReadError, TypeOK
  <2>4. TypeOK'
    BY <1>1, <1>4, <2>2, <2>3, ZenonT(30) DEF ReadError, TypeOK, senderVars, userVars
  <2>5. \A g \in End : ReceiverInv(g)'
    BY <1>4, <2>1 DEF ReadError, StepInv, ReceiverInv, TypeOK
  <2>6. slowStart' = slowStart
    BY <1>4 DEF ReadError
  <2>. QED
    BY <1>1, <2>4, <2>5, <2>6, SenderUnchanged DEF StepInv, senderVars
<1>5. CASE ProcessRx(e)
  <2>. DEFINE m == Head(rxQueue[e])
  <2>1. m \in Frame /\ Tail(rxQueue[e]) \in Seq(Frame)
    BY <1>1, <1>5, HeadTailProperties DEF ProcessRx, StepInv, ReceiverInv
  <2>2. rxQueue' = [rxQueue EXCEPT ![e] = Tail(rxQueue[e])]
    BY <1>5 DEF ProcessRx
  <2>3. CASE m.type # "ack" /\ msgIsInSequence(slowStart[e], m)
    <3>1. /\ slowStart' = [slowStart EXCEPT ![e] = incrementNr(slowStart[e])]
          /\ rx' = [rx EXCEPT ![e] = [pc |-> "deliver", held |-> <<m>>]]
          /\ hist' = [hist EXCEPT ![e].taken = @ + 1]
      BY <1>5, <2>3 DEF ProcessRx
    <3>2. /\ incrementNr(slowStart[e]) \in SlowStartState
          /\ incrementNr(slowStart[e]).ntx = slowStart[e].ntx
          /\ incrementNr(slowStart[e]).cwnd = slowStart[e].cwnd
      BY IncrementType DEF TypeOK
    <3>3. [pc |-> "deliver", held |-> <<m>>] \in ReceiverState
      BY <2>1 DEF ReceiverState
    <3>. HIDE DEF m
    <3>4. hist' \in [End -> History]
      <4>1. hist[e] \in History /\ hist[e].taken + 1 \in Nat
        BY DEF TypeOK, History
      <4>2. [hist[e] EXCEPT !.taken = @ + 1] \in History
        BY <4>1, ZenonT(30) DEF History
      <4>. QED
        BY <3>1, <4>2 DEF TypeOK
    <3>5. TypeOK'
      BY <1>1, <1>5, <2>1, <2>2, <3>1, <3>2, <3>3, <3>4
      DEF ProcessRx, TypeOK, senderVars, userVars
    <3>6. \A g \in End : ReceiverInv(g)'
      BY <2>2, <3>1 DEF StepInv, ReceiverInv, TypeOK
    <3>7. \A g \in End : /\ slowStart'[g].ntx = slowStart[g].ntx
                         /\ slowStart'[g].cwnd = slowStart[g].cwnd
      BY <3>1, <3>2 DEF TypeOK
    <3>. QED
      BY <1>1, <3>5, <3>6, <3>7, SenderUnchanged DEF StepInv, senderVars
  <2>4. CASE ~(m.type # "ack" /\ msgIsInSequence(slowStart[e], m))
    <3>1. /\ rx' = [rx EXCEPT ![e] = resumeRx(rxQueue'[e], slowStart[e])]
          /\ UNCHANGED <<slowStart, hist>>
      BY <1>5, <2>4 DEF ProcessRx
    <3>2. TypeOK'
      BY <1>1, <1>5, <2>1, <2>2, <3>1, ResumeRxType, SMTT(30)
      DEF ProcessRx, TypeOK, senderVars, userVars
    <3>3. \A g \in End : ReceiverInv(g)'
      BY <2>2, <3>1, ResumeRxType, ZenonT(30) DEF StepInv, ReceiverInv, TypeOK
    <3>. QED
      BY <1>1, <3>1, <3>2, <3>3, SenderUnchanged DEF StepInv, senderVars
  <2>. QED
    BY <2>3, <2>4
<1>6. CASE Drain(e) \/ RecvCall(e)
  <2>1. /\ rx' = [rx EXCEPT ![e] = resumeRx(rxQueue[e], slowStart[e])]
        /\ UNCHANGED <<slowStart, rxQueue, sock, callers, closed, net, faults>>
    BY <1>6 DEF Drain, RecvCall, userVars
  <2>2. hist' \in [End -> History]
    <3>1. CASE Drain(e)
      BY <3>1 DEF Drain, TypeOK
    <3>2. CASE RecvCall(e)
      <4>. DEFINE id == Head(rx[e].held).id
      <4>1. rx[e].held \in Seq(Frame) /\ rx[e].held # <<>>
        BY <1>1, <3>2 DEF RecvCall, ReceiverState, StepInv, ReceiverInv
      <4>2. Head(rx[e].held) \in Frame
        BY <4>1, HeadTailProperties
      <4>3. id \in Nat
        BY <4>2 DEF Frame
      <4>. HIDE DEF id
      <4>4. hist[e] \in History /\ Append(hist[e].delivered, id) \in Seq(Nat)
        BY <4>3, AppendProperties DEF TypeOK, History
      <4>5. [hist[e] EXCEPT !.delivered = Append(@, id)] \in History
        BY <4>4, ZenonT(30) DEF History
      <4>6. hist' = [hist EXCEPT ![e].delivered = Append(@, id)]
        BY <3>2 DEF RecvCall, id
      <4>. QED
        BY <4>5, <4>6 DEF TypeOK
    <3>. QED
      BY <1>6, <3>1, <3>2
  <2>3. TypeOK'
    BY <1>1, <2>1, <2>2, ResumeRxType, ZenonT(30) DEF TypeOK, senderVars
  <2>4. \A g \in End : ReceiverInv(g)'
    BY <2>1, ResumeRxType DEF StepInv, ReceiverInv, TypeOK
  <2>. QED
    BY <1>1, <2>1, <2>3, <2>4, SenderUnchanged DEF StepInv, senderVars
<1>7. CASE Close(e)
  <2>1. TypeOK'
    BY <1>1, <1>7 DEF Close, TypeOK, senderVars, receiverVars
  <2>. QED
    BY <1>1, <1>7, <2>1, SenderUnchanged
    DEF Close, StepInv, ReceiverInv, senderVars, receiverVars
<1>. QED
  BY <1>2, <1>3, <1>4, <1>5, <1>6, <1>7 DEF Receiver, Socket, User

\* A timer that fires keeps the inductive invariant.
LEMMA TimersInv ==
  ASSUME IInv, NEW e \in End, Timers(e)
  PROVE  IInv'
<1>. USE DEF IInv
<1>1. CASE AckTimerFires(e) \/ HelloTimerFires(e)
  <2>1. ackTimer' \in [End -> Timer] /\ helloTimer' \in [End -> Timer]
    <3>1. \A t \in Timer : expired(t) \in Timer
      BY DEF Timer, expired
    <3>2. ackTimer \in [End -> Timer] /\ helloTimer \in [End -> Timer]
      BY DEF TypeOK
    <3>3. CASE AckTimerFires(e)
      BY <3>1, <3>2, <3>3, ZenonT(30) DEF AckTimerFires
    <3>4. CASE HelloTimerFires(e)
      BY <3>1, <3>2, <3>4, ZenonT(30) DEF HelloTimerFires
    <3>. QED
      BY <1>1, <3>3, <3>4
  <2>2. UNCHANGED <<slowStart, txQueue, ackQueue, xmit, tx, helloInFlight,
                    receiverVars, sock, userVars, net, faults, hist>>
    BY <1>1 DEF AckTimerFires, HelloTimerFires
  <2>3. TypeOK'
    BY <2>1, <2>2 DEF TypeOK, receiverVars, userVars
  <2>4. \A f \in End : SenderInv(f)'
    BY <2>2, SenderUnchanged DEF StepInv, userVars
  <2>. QED
    BY <2>2, <2>3, <2>4 DEF StepInv, ReceiverInv, receiverVars
<1>2. ASSUME NEW id \in DOMAIN xmit[e], RetryTimerFires(e, id)
      PROVE  IInv'
  <2>. DEFINE m == [xmit[e][id] EXCEPT !.retryTimer = "fired"]
  <2>1. m \in XmitMsg /\ m.nretries = xmit[e][id].nretries /\ m.result = xmit[e][id].result
    <3>1. xmit[e][id] \in XmitMsg
      BY <1>2, ElementOfSeq DEF TypeOK
    <3>. QED
      BY <3>1 DEF XmitMsg
  <2>2. xmit' = [xmit EXCEPT ![e] = [xmit[e] EXCEPT ![id] = m]]
    BY <1>2 DEF RetryTimerFires
  <2>. HIDE DEF m
  <2>3. XmitMsgUpdated(e, id, m)
    BY <2>1, <2>2, XmitUpdate DEF TypeOK, XmitMsgUpdated
  <2>4. UNCHANGED <<slowStart, txQueue, ackQueue, tx, ackTimer, helloTimer, helloInFlight,
                    receiverVars, sock, userVars, net, faults, hist>>
    BY <1>2 DEF RetryTimerFires
  <2>5. TypeOK'
    BY <2>3, <2>4 DEF XmitMsgUpdated, TypeOK, receiverVars, userVars
  <2>6. ASSUME NEW f \in End PROVE SenderInv(f)'
    <3>1. CASE f # e
      BY <2>3, <2>4, <3>1, SenderUnchanged, ZenonT(30) DEF XmitMsgUpdated, StepInv, userVars
    <3>2. CASE f = e
      <4>1. QueueIds(e)'
        BY <2>3, <2>4, ZenonT(30) DEF XmitMsgUpdated, StepInv, SenderInv, QueueIds
      <4>2. SenderReady(e)'
        BY <2>3, <2>4, ZenonT(30) DEF XmitMsgUpdated, StepInv, SenderInv, SenderReady
      <4>3. RetriesLeft(e)'
        BY <1>2, <2>1, <2>3, <2>4, RetriesKept DEF StepInv, SenderInv, RetriesLeft, isComplete
      <4>. QED
        BY <3>2, <4>1, <4>2, <4>3 DEF SenderInv
    <3>. QED
      BY <3>1, <3>2, ZenonT(30)
  <2>. QED
    BY <2>4, <2>5, <2>6 DEF StepInv, ReceiverInv, receiverVars
<1>. QED
  BY <1>1, <1>2 DEF Timers

\* sender(), case nrChan, keeps the inductive invariant.
LEMMA TakeNrInv ==
  ASSUME IInv, NEW e \in End, TakeNr(e)
  PROVE  IInv'
<1>. USE DEF IInv
<1>. DEFINE f == Head(rx[e].held)
            ind == IF f.type = "ack" THEN "ack" ELSE "msg"
<1>1. /\ rx' = [rx EXCEPT ![e] = resumeRx(rxQueue[e], slowStart[e])]
      /\ UNCHANGED <<slowStart, txQueue, ackQueue, xmit, helloInFlight, rxQueue, sock,
                     userVars, net, faults>>
  BY DEF TakeNr
<1>2. /\ tx' \in [End -> SenderState] /\ ackTimer' \in [End -> Timer]
      /\ helloTimer' \in [End -> Timer] /\ hist' \in [End -> History]
      /\ \A g \in End : g # e => tx'[g] = tx[g]
      /\ \/ tx'[e].pc = "select"
         \/ tx'[e].pc = "ackq" /\ ackQueue[e] # <<>>
  <2>1. CASE rx[e].held = <<>>
    <3>1. endCase(e, "ack", ackTimer[e], helloTimer[e]) /\ hist' = hist
      BY <2>1, ZenonT(30) DEF TakeNr
    <3>. QED
      BY <3>1, EndCaseType DEF TypeOK
  <2>2. CASE rx[e].held # <<>>
    <3>1. f \in Frame
      BY <2>2, HeadTailProperties DEF TypeOK, ReceiverState
    <3>2. ind \in {"none", "ack", "msg"}
      OBVIOUS
    <3>3. f.ack \in Nat /\ f.nr \in SeqNo
      BY <3>1 DEF Frame
    <3>4. /\ hist' = [hist EXCEPT ![e].heard = IF f.ack > @ THEN f.ack ELSE @]
          /\ IF headAcked(e, ackQueue[e], f.nr)
             THEN /\ tx' = [tx EXCEPT ![e] = [Selecting EXCEPT !.pc = "ackq", !.nr = f.nr,
                                                               !.ind = ind]]
                  /\ UNCHANGED <<ackTimer, helloTimer>>
             ELSE endCase(e, ind, ackTimer[e], helloTimer[e])
      BY <2>2 DEF TakeNr
    <3>. HIDE DEF f, ind
    <3>5. hist' \in [End -> History]
      <4>. DEFINE h == IF f.ack > hist[e].heard THEN f.ack ELSE hist[e].heard
      <4>1. h \in Nat /\ hist[e] \in History
        BY <3>3 DEF TypeOK, History
      <4>2. hist' = [hist EXCEPT ![e] = [hist[e] EXCEPT !.heard = h]]
        BY <3>4
      <4>. HIDE DEF h
      <4>3. [hist[e] EXCEPT !.heard = h] \in History
        BY <4>1, ZenonT(30) DEF History
      <4>. QED
        BY <4>2, <4>3, ZenonT(30) DEF TypeOK
    <3>6. CASE headAcked(e, ackQueue[e], f.nr)
      <4>. DEFINE t == [Selecting EXCEPT !.pc = "ackq", !.nr = f.nr, !.ind = ind]
      <4>1. t \in SenderState /\ t.pc = "ackq"
        BY <3>2, <3>3, ZenonT(30) DEF Selecting, SenderState
      <4>2. tx' = [tx EXCEPT ![e] = t] /\ UNCHANGED <<ackTimer, helloTimer>>
        BY <3>4, <3>6
      <4>. HIDE DEF t
      <4>3. ackQueue[e] # <<>>
        BY <3>6, ZenonT(30) DEF headAcked
      <4>. QED
        BY <3>5, <4>1, <4>2, <4>3 DEF TypeOK
    <3>7. CASE ~headAcked(e, ackQueue[e], f.nr)
      BY <3>2, <3>4, <3>5, <3>7, EndCaseType DEF TypeOK
    <3>. QED
      BY <3>6, <3>7
  <2>. QED
    BY <2>1, <2>2
<1>3. TypeOK'
  BY <1>1, <1>2, ResumeRxType, ZenonT(30) DEF TypeOK, userVars
<1>4. ASSUME NEW g \in End PROVE SenderInv(g)'
  <2>1. CASE g # e
    BY <1>1, <1>2, <2>1, SenderUnchanged, ZenonT(30) DEF StepInv, userVars
  <2>2. CASE g = e
    <3>1. QueueIds(e)' /\ RetriesLeft(e)'
      BY <1>1, ZenonT(30) DEF StepInv, SenderInv, QueueIds, RetriesLeft,
         MaxRetries, userVars
    <3>2. SenderReady(e)'
      BY <1>1, <1>2, SMTT(30) DEF TakeNr, StepInv, SenderInv, SenderReady
    <3>. QED
      BY <2>2, <3>1, <3>2, SMTT(30) DEF SenderInv
  <2>. QED
    BY <2>1, <2>2
<1>5. \A g \in End : ReceiverInv(g)'
  BY <1>1, ResumeRxType, ZenonT(30) DEF StepInv, ReceiverInv, TypeOK
<1>. QED
  BY <1>3, <1>4, <1>5 DEF StepInv

\* processAckQueue keeps the inductive invariant: ntx and ackQueue shrink together.
LEMMA AckHeadInv ==
  ASSUME IInv, NEW e \in End, AckHead(e)
  PROVE  IInv'
<1>. USE DEF IInv
<1>. DEFINE id == Head(ackQueue[e])
            m == txComplete(xmit[e][id], "ok")
<1>1. /\ ackQueue[e] # <<>> /\ slowStart[e].ntx = Len(ackQueue[e])
      /\ ackQueue[e] \in Seq(DOMAIN xmit[e]) /\ ackQueue[e] \in Seq(Nat)
      /\ slowStart[e] \in SlowStartState
  BY DEF AckHead, StepInv, SenderInv, QueueIds, SenderReady, TypeOK
<1>2. /\ id \in DOMAIN xmit[e] /\ Tail(ackQueue[e]) \in Seq(DOMAIN xmit[e])
      /\ Tail(ackQueue[e]) \in Seq(Nat)
      /\ Len(Tail(ackQueue[e])) = Len(ackQueue[e]) - 1 /\ Len(ackQueue[e]) > 0
  <2>1. Tail(ackQueue[e]) \in Seq(Nat)
    BY <1>1, QueuePop
  <2>. QED
    BY <1>1, <2>1, QueuePop, ZenonT(30)
<1>3. xmit[e][id] \in XmitMsg
  BY <1>2, ElementOfSeq DEF TypeOK
<1>4. m \in XmitMsg /\ isComplete(m)
  BY <1>3, TxCompleteType
<1>5. xmit' = [xmit EXCEPT ![e] = [xmit[e] EXCEPT ![id] = m]]
  BY DEF AckHead
<1>. HIDE DEF id, m
<1>6. XmitMsgUpdated(e, id, m)
  BY <1>2, <1>4, <1>5, XmitUpdate, SMTT(30) DEF TypeOK, XmitMsgUpdated
<1>7. /\ onAck(slowStart[e]) \in SlowStartState
      /\ onAck(slowStart[e]).ntx = Len(Tail(ackQueue[e]))
  BY <1>1, <1>2, OnAckType, ZenonT(30)
<1>8. /\ slowStart' = [slowStart EXCEPT ![e] = onAck(slowStart[e])]
      /\ ackQueue' = [ackQueue EXCEPT ![e] = Tail(ackQueue[e])]
      /\ UNCHANGED <<txQueue, helloInFlight, receiverVars, sock, userVars, net, faults, hist>>
  BY ZenonT(30) DEF AckHead
<1>9. /\ tx' \in [End -> SenderState] /\ ackTimer' \in [End -> Timer]
      /\ helloTimer' \in [End -> Timer]
      /\ \A g \in End : g # e => tx'[g] = tx[g]
      /\ \/ tx'[e].pc = "select"
         \/ tx'[e].pc = "ackq" /\ Tail(ackQueue[e]) # <<>>
         \/ tx'[e].pc = "txq" /\ txQueue[e] # <<>> /\ canSend(slowStart'[e])
  <2>1. CASE headAcked(e, Tail(ackQueue[e]), tx[e].nr)
    <3>1. UNCHANGED <<tx, ackTimer, helloTimer>> /\ tx[e].pc = "ackq"
      BY <2>1 DEF AckHead
    <3>2. Tail(ackQueue[e]) # <<>>
      BY <2>1, ZenonT(30) DEF headAcked
    <3>. QED
      BY <3>1, <3>2, SMTT(30) DEF TypeOK
  <2>2. CASE ~headAcked(e, Tail(ackQueue[e]), tx[e].nr)
    <3>1. loopTxQueue(e, txQueue[e], slowStart'[e], tx[e].ind, ackTimer[e], helloTimer[e])
      BY <2>2 DEF AckHead
    <3>2. tx[e].ind \in {"none", "ack", "msg"} /\ ackTimer[e] \in Timer /\ helloTimer[e] \in Timer
      BY DEF TypeOK, SenderState
    <3>. QED
      BY <3>1, <3>2, LoopType, ZenonT(30)
  <2>. QED
    BY <2>1, <2>2
<1>10. TypeOK'
  BY <1>2, <1>6, <1>7, <1>8, <1>9, ZenonT(30) DEF XmitMsgUpdated, TypeOK, receiverVars, userVars
<1>11. ASSUME NEW g \in End PROVE SenderInv(g)'
  <2>1. CASE g # e
    BY <1>6, <1>8, <1>9, <2>1, SenderUnchanged DEF XmitMsgUpdated, StepInv, TypeOK, userVars
  <2>2. CASE g = e
    <3>1. QueueIds(e)'
      BY <1>2, <1>6, <1>8 DEF XmitMsgUpdated, StepInv, SenderInv, QueueIds, TypeOK
    <3>2. RetriesLeft(e)'
      BY <1>4, <1>6, <1>8, RetriesKept, ZenonT(30) DEF StepInv, SenderInv
    <3>3. SenderReady(e)'
      BY <1>7, <1>8, <1>9, ZenonT(30) DEF SenderReady, TypeOK
    <3>. QED
      BY <2>2, <3>1, <3>2, <3>3, ZenonT(30) DEF SenderInv
  <2>. QED
    BY <2>1, <2>2
<1>. QED
  BY <1>8, <1>10, <1>11, ZenonT(30) DEF StepInv, ReceiverInv, receiverVars
=============================================================================
