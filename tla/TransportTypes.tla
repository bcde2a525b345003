-------------------------- MODULE TransportTypes ----------------------------
(***************************************************************************)
(* What the parts of module Transport return and keep: the facts about     *)
(* queues, timers, frames and control states that the proofs about its     *)
(* actions cite.                                                           *)
(***************************************************************************)
EXTENDS Transport, SlowStartProofs, SequenceTheorems

\* The other end is an end, and another one.
LEMMA PeerType == \A e \in End : peer(e) \in End /\ peer(e) # e
  BY TransportAssumption DEF peer

\* Popping a non-empty queue (processTxQueue, processAckQueue): the head is an
\* element and the tail is one shorter.
LEMMA QueuePop ==
  ASSUME NEW S, NEW q \in Seq(S), q # <<>>
  PROVE  /\ Head(q) \in S /\ Tail(q) \in Seq(S)
         /\ Len(q) > 0 /\ Len(Tail(q)) = Len(q) - 1
  BY HeadTailProperties, EmptySeq

\* Replacing one message of one end keeps xmit well typed and the rest as it was.
LEMMA XmitUpdate ==
  ASSUME NEW x \in [End -> Seq(XmitMsg)], NEW e \in End,
         NEW id \in DOMAIN x[e], NEW m \in XmitMsg
  PROVE  LET y == [x EXCEPT ![e] = [x[e] EXCEPT ![id] = m]]
         IN  /\ y \in [End -> Seq(XmitMsg)]
             /\ \A f \in End : f # e => y[f] = x[f]
             /\ \A f \in End : DOMAIN y[f] = DOMAIN x[f]
             /\ \A i \in DOMAIN x[e] : y[e][i] = IF i = id THEN m ELSE x[e][i]
<1>1. x[e] \in Seq(XmitMsg) /\ DOMAIN x[e] = 1 .. Len(x[e])
  OBVIOUS
<1>2. [x[e] EXCEPT ![id] = m] \in Seq(XmitMsg)
  BY <1>1, ExceptSeq
<1>3. QED
  BY <1>1, <1>2

\* A message may be sent once at least.
LEMMA RetryLimit == TypeOK => MaxRetries \in Nat \ {0}
  BY TransportAssumption DEF TypeOK, MaxRetries

\* Message id of e has become m and nothing else of xmit has changed.
XmitMsgUpdated(e, id, m) ==
  /\ xmit' \in [End -> Seq(XmitMsg)]
  /\ \A f \in End : f # e => xmit'[f] = xmit[f]
  /\ \A f \in End : DOMAIN xmit'[f] = DOMAIN xmit[f]
  /\ \A i \in DOMAIN xmit[e] : xmit'[e][i] = IF i = id THEN m ELSE xmit[e][i]

\* An update that completes a message or leaves it a retry keeps RetriesLeft
\* (retransmitMessage counts nretries).
LEMMA RetriesKept ==
  ASSUME NEW e \in End, NEW id, NEW m, RetriesLeft(e), XmitMsgUpdated(e, id, m),
         isComplete(m) \/ m.nretries < MaxRetries, UNCHANGED userVars
  PROVE  RetriesLeft(e)'
  BY DEF RetriesLeft, XmitMsgUpdated, MaxRetries, userVars

\* newTransport sets up a state that satisfies the inductive invariant.
LEMMA InitInv == Init => IInv
<1>. SUFFICES ASSUME Init PROVE IInv
  OBVIOUS
<1>1. TypeOK
  BY TransportAssumption, InitSlowStartType, SeqSpaceAssumption
  DEF Init, TypeOK, Selecting, SenderState, ReceiverState, Timer, History, SeqNo
<1>2. StepInv
  BY DEF Init, StepInv, SenderInv, QueueIds, SenderReady,
         RetriesLeft, ReceiverInv, Selecting, InitSlowStart
<1>. QED
  BY <1>1, <1>2 DEF IInv

\* SenderInv depends on the sender's own variables only: a step of the receiver
\* or of the other end that leaves them alone keeps it.
LEMMA SenderUnchanged ==
  ASSUME NEW e \in End, SenderInv(e),
         slowStart'[e].ntx = slowStart[e].ntx, slowStart'[e].cwnd = slowStart[e].cwnd,
         txQueue'[e] = txQueue[e], ackQueue'[e] = ackQueue[e],
         xmit'[e] = xmit[e], tx'[e] = tx[e], UNCHANGED workload
  PROVE  SenderInv(e)'
  BY DEF SenderInv, QueueIds, SenderReady, RetriesLeft, canSend, MaxRetries

\* The control states the sender takes in select and in down().
LEMMA SelectingType ==
  /\ Selecting \in SenderState /\ Selecting.pc = "select"
  /\ [Selecting EXCEPT !.pc = "down"] \in SenderState
  /\ [Selecting EXCEPT !.pc = "down"].pc = "down"
  BY SeqSpaceAssumption DEF Selecting, SenderState, SeqNo

\* down() changes the control state and the socket of its own end only.
LEMMA GoDownType ==
  ASSUME TypeOK, NEW e \in End, goDown(e)
  PROVE  /\ tx' \in [End -> SenderState] /\ sock' \in [End -> BOOLEAN]
         /\ tx'[e].pc = "down"
         /\ \A f \in End : f # e => tx'[f] = tx[f]
  BY SelectingType DEF goDown, TypeOK

\* The control state between the socket write and the rest of sendMessage.
LEMMA WroteType ==
  ASSUME TypeOK, NEW e \in End, NEW op \in {"tx", "retry", "hello"}, NEW id \in Nat,
         wrote(e, op, id)
  PROVE  /\ tx' \in [End -> SenderState]
         /\ tx'[e].pc = "sent" /\ tx'[e].op = op /\ tx'[e].cur = id
         /\ \A f \in End : f # e => tx'[f] = tx[f]
<1>. DEFINE t == [tx[e] EXCEPT !.pc = "sent"]
            u == [t EXCEPT !.op = op]
            v == [u EXCEPT !.cur = id]
<1>. tx[e] \in SenderState
  BY DEF TypeOK
<1>1. t \in SenderState /\ t.pc = "sent"
  BY DEF SenderState
<1>. HIDE DEF t
<1>2. u \in SenderState /\ u.pc = "sent" /\ u.op = op
  BY <1>1 DEF SenderState
<1>. HIDE DEF u
<1>3. v \in SenderState /\ v.pc = "sent" /\ v.op = op /\ v.cur = id
  BY <1>2 DEF SenderState
<1>4. tx' = [tx EXCEPT ![e] = v]
  BY DEF wrote, t, u
<1>. HIDE DEF v
<1>. QED
  BY <1>3, <1>4 DEF TypeOK

\* processRxQueue goes on only when there is a message to handle.
LEMMA ResumeRxType ==
  ASSUME NEW q, NEW s
  PROVE  /\ resumeRx(q, s) \in ReceiverState
         /\ resumeRx(q, s).pc = "proc" => q # <<>>
         /\ resumeRx(q, s).pc # "deliver"
  BY DEF resumeRx, canDequeue, ReceiverState

\* A socket write puts a well-formed frame on the network.
LEMMA WriteType ==
  ASSUME TypeOK, NEW e \in End, NEW f \in Frame, write(e, f)
  PROVE  net' \in [End -> SUBSET Frame] /\ hist' \in [End -> History]
<1>1. net' \in [End -> SUBSET Frame]
  BY PeerType DEF write, TypeOK
<1>. DEFINE s == IF f.type # "ack" /\ f.seq = Len(hist[e].sent)
                 THEN Append(hist[e].sent, f.id) ELSE hist[e].sent
<1>2. s \in Seq(Nat)
  BY AppendProperties DEF TypeOK, History, Frame
<1>3. hist' = [hist EXCEPT ![e].sent = s]
  BY DEF write
<1>. HIDE DEF s
<1>4. hist[e] \in History
  BY DEF TypeOK
<1>5. [hist[e] EXCEPT !.sent = s] \in History
  BY <1>2, <1>4, ZenonT(30) DEF History
<1>. QED
  BY <1>1, <1>3, <1>5 DEF TypeOK

\* A socket error keeps the fault counter a number.
LEMMA SocketErrorType ==
  ASSUME TypeOK, NEW e \in End, socketError(e)
  PROVE  faults' \in [End -> Nat]
  BY DEF socketError, TypeOK

\* sendMessage1 builds a well-formed frame.
LEMMA FrameType ==
  ASSUME TypeOK, NEW e \in End, NEW id \in Nat, NEW m \in XmitMsg
  PROVE  frameOf(e, id, m) \in Frame
  BY ZenonT(30) DEF frameOf, Frame, XmitMsg, TypeOK, SlowStartState, History

\* Setting the sequence number of a message (setTransportSeqNum) changes neither
\* its retry count nor its result.
LEMMA NumberedType ==
  ASSUME TypeOK, NEW e \in End, NEW m \in XmitMsg
  PROVE  /\ numbered(e, m) \in XmitMsg
         /\ isComplete(numbered(e, m)) <=> isComplete(m)
         /\ numbered(e, m).nretries = m.nretries
         /\ numbered(e, m).result = m.result
<1>. DEFINE t == [m EXCEPT !.ns = slowStart[e].ns]
<1>1. t \in XmitMsg /\ t.nretries = m.nretries /\ t.result = m.result
  BY ZenonT(30) DEF TypeOK, SlowStartState, XmitMsg
<1>2. Len(hist[e].sent) \in Nat
  BY LenProperties DEF TypeOK, History
<1>3. numbered(e, m) = [t EXCEPT !.seq = Len(hist[e].sent)]
  BY DEF numbered
<1>. HIDE DEF t
<1>. QED
  BY <1>1, <1>2, <1>3 DEF XmitMsg, isComplete

\* txComplete completes a message, and leaves one that had completed as it was.
LEMMA TxCompleteType ==
  ASSUME NEW m \in XmitMsg, NEW r \in {"ok", "err"}
  PROVE  /\ txComplete(m, r) \in XmitMsg
         /\ isComplete(txComplete(m, r))
         /\ txComplete(m, r).nretries = m.nretries
         /\ isComplete(m) => txComplete(m, r).result = m.result
<1>1. CASE isComplete(m)
  BY <1>1 DEF txComplete
<1>2. CASE ~isComplete(m)
  <2>. DEFINE t == [m EXCEPT !.result = r]
              u == IF m.retryTimer = "armed" THEN "off" ELSE m.retryTimer
  <2>1. t \in XmitMsg /\ t.result = r /\ t.nretries = m.nretries /\ t.retryTimer = m.retryTimer
    BY DEF XmitMsg
  <2>2. u \in {"off", "armed", "fired"}
    BY DEF XmitMsg
  <2>3. txComplete(m, r) = [t EXCEPT !.retryTimer = u]
    BY <1>2 DEF txComplete
  <2>. HIDE DEF t, u
  <2>. QED
    BY <1>2, <2>1, <2>2, <2>3 DEF XmitMsg, isComplete
<1>. QED
  BY <1>1, <1>2

\* Timer operations stay within the states of a timer.
LEMMA TimerType ==
  \A t \in Timer : armTimer(t) \in Timer /\ stopTimer(t) \in Timer
                   /\ [t EXCEPT !.fired = FALSE] \in Timer
  BY Zenon DEF Timer, armTimer, stopTimer

\* The end of a select case brings the sender back to select.
LEMMA EndCaseType ==
  ASSUME TypeOK, NEW e \in End, NEW ind \in {"none", "ack", "msg"},
         NEW ackT \in Timer, NEW helloT \in Timer, endCase(e, ind, ackT, helloT)
  PROVE  /\ tx' \in [End -> SenderState] /\ ackTimer' \in [End -> Timer]
         /\ helloTimer' \in [End -> Timer]
         /\ tx'[e].pc = "select"
         /\ \A f \in End : f # e => tx'[f] = tx[f]
<1>1. resetHelloTimer(e) \in Timer /\ armTimer(ackT) \in Timer
  BY TimerType, ZenonT(30) DEF resetHelloTimer, TypeOK
<1>. QED
  BY <1>1, SelectingType DEF endCase, TypeOK

\* The loop test of processTxQueue: back to select, or about to write the head of
\* a non-empty queue with the window open.
LEMMA LoopType ==
  ASSUME TypeOK, NEW e \in End, NEW q, NEW s, NEW ind \in {"none", "ack", "msg"},
         NEW ackT \in Timer, NEW helloT \in Timer,
         loopTxQueue(e, q, s, ind, ackT, helloT)
  PROVE  /\ tx' \in [End -> SenderState] /\ ackTimer' \in [End -> Timer]
         /\ helloTimer' \in [End -> Timer]
         /\ \/ tx'[e].pc = "select"
            \/ tx'[e].pc = "txq" /\ q # <<>> /\ canSend(s)
         /\ \A f \in End : f # e => tx'[f] = tx[f]
<1>1. CASE q # <<>> /\ canSend(s)
  <2>. DEFINE t == [Selecting EXCEPT !.pc = "txq", !.ind = ind]
  <2>1. t \in SenderState /\ t.pc = "txq"
    BY SelectingType, ZenonT(30) DEF Selecting, SenderState
  <2>2. /\ tx' = [tx EXCEPT ![e] = t]
        /\ ackTimer' = [ackTimer EXCEPT ![e] = ackT]
        /\ helloTimer' = [helloTimer EXCEPT ![e] = helloT]
    BY <1>1 DEF loopTxQueue
  <2>. HIDE DEF t
  <2>. QED
    BY <1>1, <2>1, <2>2 DEF TypeOK
<1>2. CASE ~(q # <<>> /\ canSend(s))
  BY <1>2, EndCaseType DEF loopTxQueue
<1>. QED
  BY <1>1, <1>2
=============================================================================
