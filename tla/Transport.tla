----------------------------- MODULE Transport ------------------------------
(***************************************************************************)
(* The reliable control message transport of l2tp/transport.go: two        *)
(* transports joined by an unreliable datagram network.  Each transport is *)
(* a sender goroutine, a receiver goroutine, timers and the user code that *)
(* calls send(), recv() and close(); they meet on unbuffered channels, so  *)
(* a channel operation is one joint step of both sides.                    *)
(*                                                                         *)
(* Step boundaries.  A goroutine runs alone between two operations another *)
(* goroutine can observe, so a step covers the code between them.  Reading *)
(* ns and nr and writing the frame is one step (a later write is a delayed *)
(* frame); what sendMessage does after the write is the next step, since   *)
(* the answer can arrive before incrementNs.                               *)
(***************************************************************************)
EXTENDS SlowStart, Sequences, FiniteSets, Functions

CONSTANTS
    End,            \* the two ends of the control connection
    MaxCallers,     \* goroutines that call send() at each end
    Workloads,      \* calls: send() calls made at each end; hello: the ends
                    \* configured with HelloTimeout > 0; retries: their
                    \* MaxRetries; duplicates: a frame may be received any
                    \* number of times; faults: bound on the socket errors
                    \* and bad frames
    MaxLife,        \* bound: frames older than this many messages are gone
    MaxRxQueue,     \* bound: length of rxQueue
    Closers         \* the ends whose user may call close()

ASSUME TransportAssumption ==
    /\ \E a, b \in End : a # b /\ End = {a, b}
    /\ Workloads \subseteq [calls : [End -> Nat], hello : SUBSET End,
                            retries : Nat \ {0}, duplicates : BOOLEAN,
                            faults : [End -> Nat]]
    /\ Closers \subseteq End
    /\ MaxCallers \in [End -> Nat] /\ MaxLife \in Nat /\ MaxRxQueue \in Nat

VARIABLES
    slowStart,      \* slowStartState
    txQueue,        \* indices into xmit
    ackQueue,       \* indices into xmit
    xmit,           \* every xmitMsg created, in order of creation
    tx,             \* control state of the sender goroutine
    ackTimer,       \* the timer runs / its channel holds a tick
    helloTimer,
    helloInFlight,
    rxQueue,
    rx,             \* control state of the receiver goroutine
    sock,           \* the control plane socket is open
    callers,        \* send() calls not yet accepted from sendChan
    closed,         \* sendChan is closed
    net,            \* net[e]: frames that may arrive at e
    workload,       \* what the ends are configured with and asked to do
    faults,         \* socket errors and bad frames so far
    hist            \* history used by the properties only

senderVars == <<txQueue, ackQueue, xmit, tx, ackTimer, helloTimer, helloInFlight>>
receiverVars == <<rxQueue, rx>>
userVars == <<callers, closed, workload>>
vars == <<slowStart, senderVars, receiverVars, sock, userVars, net, faults, hist>>

\* transportConfig.MaxRetries.
MaxRetries == workload.retries

peer(e) == CHOOSE p \in End : p # e

\* seq and ack are ns and nr before wrapping, for the properties and MaxLife.
Frame == [type : {"data", "hello", "ack"}, ns : SeqNo, nr : SeqNo,
          id : Nat, seq : Nat, ack : Nat]

XmitMsg == [type : {"data", "hello"}, ns : SeqNo, nretries : Nat,
            result : {"none", "ok", "err"}, retryTimer : {"off", "armed", "fired"},
            seq : Nat]

\* on: configured to run at all
Timer == [on : BOOLEAN, armed : BOOLEAN, fired : BOOLEAN]

\* pc: where the sender is; cur, op: the message just written and who wrote it;
\* nr: the argument of processAckQueue; ind: the kind of frame the nrChan case
\* is about ("none" in the other cases).
SenderState == [pc : {"select", "ackq", "txq", "sent", "down", "exited"},
                op : {"tx", "retry", "hello"}, cur : Nat,
                nr : SeqNo, ind : {"none", "ack", "msg"}]

\* pc: read (rawRecv), nr (nrChan <- rxNr), proc (processRxQueue), deliver
\* (recvChan <- m), done; held: the frame carried across the blocked send.
ReceiverState == [pc : {"read", "nr", "proc", "deliver", "done"}, held : Seq(Frame)]

\* sent: ids in the order their sequence numbers were used; taken: how often nr
\* was incremented; delivered: ids handed to recv(); heard: highest nr processed.
History == [sent : Seq(Nat), taken : Nat, delivered : Seq(Nat), heard : Nat]

TypeOK ==
    /\ slowStart \in [End -> SlowStartState]
    /\ txQueue \in [End -> Seq(Nat)] /\ ackQueue \in [End -> Seq(Nat)]
    /\ xmit \in [End -> Seq(XmitMsg)]
    /\ tx \in [End -> SenderState] /\ rx \in [End -> ReceiverState]
    /\ ackTimer \in [End -> Timer] /\ helloTimer \in [End -> Timer]
    /\ helloInFlight \in [End -> BOOLEAN]
    /\ rxQueue \in [End -> Seq(Frame)]
    /\ sock \in [End -> BOOLEAN] /\ closed \in [End -> BOOLEAN]
    /\ workload \in Workloads
    /\ callers \in [End -> Nat] /\ faults \in [End -> Nat]
    /\ net \in [End -> SUBSET Frame]
    /\ hist \in [End -> History]

Selecting == [pc |-> "select", op |-> "tx", cur |-> 0, nr |-> 0, ind |-> "none"]

Init ==
    /\ slowStart = [e \in End |-> InitSlowStart]
    /\ txQueue = [e \in End |-> <<>>] /\ ackQueue = [e \in End |-> <<>>]
    /\ xmit = [e \in End |-> <<>>]
    /\ tx = [e \in End |-> Selecting]
    /\ rx = [e \in End |-> [pc |-> "read", held |-> <<>>]]
    /\ ackTimer = [e \in End |-> [on |-> TRUE, armed |-> FALSE, fired |-> FALSE]]
    /\ \E w \in Workloads :
          /\ helloTimer = [e \in End |->
                 [on |-> e \in w.hello, armed |-> e \in w.hello, fired |-> FALSE]]
          /\ workload = w /\ callers = w.calls
    /\ helloInFlight = [e \in End |-> FALSE]
    /\ rxQueue = [e \in End |-> <<>>]
    /\ sock = [e \in End |-> TRUE]
    /\ closed = [e \in End |-> FALSE]
    /\ net = [e \in End |-> {}]
    /\ faults = [e \in End |-> 0]
    /\ hist = [e \in End |-> [sent |-> <<>>, taken |-> 0, delivered |-> <<>>, heard |-> 0]]
-----------------------------------------------------------------------------
(* Parts of handlers *)

isComplete(m) == m.result # "none"

\* The messages whose send() has been accepted and has not returned.
waiting(e) == {i \in DOMAIN xmit[e] : xmit[e][i].type = "data" /\ ~isComplete(xmit[e][i])}

\* The retry timer is stopped; a retry already blocked on retryChan stays.
txComplete(m, result) ==
    IF isComplete(m) THEN m
    ELSE [m EXCEPT !.result = result,
                   !.retryTimer = IF @ = "armed" THEN "off" ELSE @]

armTimer(t) == [t EXCEPT !.armed = TRUE]

stopTimer(t) == [t EXCEPT !.armed = FALSE]     \* a tick already in C stays

expired(t) == [t EXCEPT !.armed = FALSE, !.fired = TRUE]

resetHelloTimer(e) == IF helloTimer[e].on THEN armTimer(helloTimer[e]) ELSE helloTimer[e]

\* Frame g can still be in the network when f is written.
inLife(g, f) == g.seq + MaxLife >= f.seq /\ g.ack + MaxLife >= f.ack

\* The socket write: the frame may reach the peer from now on.
write(e, f) ==
    /\ net' = [net EXCEPT ![peer(e)] = {g \in @ \cup {f} : inLife(g, f)}]
    /\ hist' = [hist EXCEPT ![e].sent =
                   IF f.type # "ack" /\ f.seq = Len(@) THEN Append(@, f.id) ELSE @]

\* The sender has written xmit message id and is yet to do the rest.
wrote(e, op, id) == tx' = [tx EXCEPT ![e] = [@ EXCEPT !.pc = "sent", !.op = op, !.cur = id]]

\* The socket write (or the read) fails; the caller takes its error path.
socketError(e) ==
    /\ faults[e] < workload.faults[e]
    /\ faults' = [faults EXCEPT ![e] = @ + 1]

\* down(): closeReceiver closes the socket, then waits for the receiver.
goDown(e) ==
    /\ tx' = [tx EXCEPT ![e] = [Selecting EXCEPT !.pc = "down"]]
    /\ sock' = [sock EXCEPT ![e] = FALSE]

\* sendMessage1 for xmit message id: ns is set on the first transmission.
frameOf(e, id, m) ==
    [type |-> m.type, ns |-> m.ns, nr |-> slowStart[e].nr,
     id |-> id, seq |-> m.seq, ack |-> hist[e].taken]

numbered(e, m) == [m EXCEPT !.ns = slowStart[e].ns, !.seq = Len(hist[e].sent)]

newXmit(type) == [type |-> type, ns |-> 0, nretries |-> 0, result |-> "none",
                  retryTimer |-> "off", seq |-> 0]
\* dequeueRxMessage finds a message.  It only ever looks at rxQueue[0].
canDequeue(q, s) ==
    /\ q # <<>>
    /\ msgIsInSequence(s, Head(q)) \/ msgIsStale(s, Head(q))

\* The loop test of processRxQueue: another message to handle, or back to read.
resumeRx(q, s) == [pc |-> IF canDequeue(q, s) THEN "proc" ELSE "read", held |-> <<>>]
-----------------------------------------------------------------------------
(* The sender goroutine: sender() and what it calls *)

\* Mutant: acks are acked too.
endCaseAcksAll(e, ind, ackT, helloT) ==
    /\ tx' = [tx EXCEPT ![e] = Selecting]
    /\ ackTimer' = [ackTimer EXCEPT ![e] = IF ind # "none" THEN armTimer(ackT) ELSE ackT]
    /\ helloTimer' = [helloTimer EXCEPT ![e] = helloT]

\* The end of a select case.  After nrChan the ack timer is kicked, unless the
\* frame was itself an ack, and the hello timer reset.
endCase(e, ind, ackT, helloT) ==
    /\ tx' = [tx EXCEPT ![e] = Selecting]
    /\ ackTimer' = [ackTimer EXCEPT ![e] = IF ind = "msg" THEN armTimer(ackT) ELSE ackT]
    /\ helloTimer' = [helloTimer EXCEPT ![e] = IF ind = "none" THEN helloT
                                               ELSE resetHelloTimer(e)]

\* The loop test of processTxQueue, with queue q and slow start state s: the
\* sender is about to write the head of q, or the case ends.
loopTxQueue(e, q, s, ind, ackT, helloT) ==
    IF q # <<>> /\ canSend(s)
    THEN /\ tx' = [tx EXCEPT ![e] = [Selecting EXCEPT !.pc = "txq", !.ind = ind]]
         /\ ackTimer' = [ackTimer EXCEPT ![e] = ackT]
         /\ helloTimer' = [helloTimer EXCEPT ![e] = helloT]
    ELSE endCase(e, ind, ackT, helloT)

\* case <-sendChan: a call of send() is accepted; queue the message, run
\* processTxQueue.  A call that is not accepted yet has changed nothing, so it
\* may be made at any time before; a goroutine makes its next call when the last
\* one has completed.
AcceptSend(e) ==
    /\ tx[e].pc = "select" /\ ~closed[e] /\ callers[e] > 0
    /\ Cardinality(waiting(e)) < MaxCallers[e]
    /\ callers' = [callers EXCEPT ![e] = @ - 1]
    /\ xmit' = [xmit EXCEPT ![e] = Append(@, newXmit("data"))]
    /\ txQueue' = [txQueue EXCEPT ![e] = Append(@, Len(xmit[e]) + 1)]
    /\ loopTxQueue(e, txQueue'[e], slowStart[e], "none", ackTimer[e], helloTimer[e])
    /\ UNCHANGED <<slowStart, ackQueue, helloInFlight, receiverVars, sock, closed,
                   workload, net, faults, hist>>

\* case <-sendChan, closed by the user.
SeeClosed(e) ==
    /\ tx[e].pc = "select" /\ closed[e]
    /\ goDown(e)
    /\ UNCHANGED <<slowStart, txQueue, ackQueue, xmit, ackTimer, helloTimer,
                   helloInFlight, receiverVars, userVars, net, faults, hist>>

\* Mutant: nr is taken for the last message received, not the next expected.
headAckedInclusive(e, q, nr) == q # <<>> /\ seqCompare(nr, xmit[e][Head(q)].ns) >= 0

\* The oldest unacked message is acked by nr.
headAcked(e, q, nr) == q # <<>> /\ seqCompare(nr, xmit[e][Head(q)].ns) > 0

\* case rxNr := <-nrChan.  rxNr holds the frame's nr, or nothing if recvFrame
\* refused the frame.  processAckQueue runs; if it finds nothing the case ends.
TakeNr(e) ==
    /\ tx[e].pc = "select" /\ rx[e].pc = "nr"
    /\ rx' = [rx EXCEPT ![e] = resumeRx(rxQueue[e], slowStart[e])]
    /\ IF rx[e].held = <<>>
       THEN endCase(e, "ack", ackTimer[e], helloTimer[e]) /\ UNCHANGED hist
       ELSE LET f == Head(rx[e].held)
                ind == IF f.type = "ack" THEN "ack" ELSE "msg"
            IN  /\ hist' = [hist EXCEPT ![e].heard = IF f.ack > @ THEN f.ack ELSE @]
                /\ IF headAcked(e, ackQueue[e], f.nr)
                   THEN /\ tx' = [tx EXCEPT ![e] = [Selecting EXCEPT !.pc = "ackq", !.nr = f.nr, !.ind = ind]]
                        /\ UNCHANGED <<ackTimer, helloTimer>>
                   ELSE endCase(e, ind, ackTimer[e], helloTimer[e])
    /\ UNCHANGED <<slowStart, txQueue, ackQueue, xmit, helloInFlight, rxQueue, sock,
                   userVars, net, faults>>

\* One iteration of processAckQueue: the oldest message is acked and completes.
\* When nr acks no more, processTxQueue uses the room in the window.
AckHead(e) ==
    /\ tx[e].pc = "ackq"
    /\ slowStart' = [slowStart EXCEPT ![e] = onAck(@)]
    /\ ackQueue' = [ackQueue EXCEPT ![e] = Tail(@)]
    /\ xmit' = [xmit EXCEPT ![e][Head(ackQueue[e])] = txComplete(@, "ok")]
    /\ IF headAcked(e, Tail(ackQueue[e]), tx[e].nr)
       THEN UNCHANGED <<tx, ackTimer, helloTimer>>
       ELSE loopTxQueue(e, txQueue[e], slowStart'[e], tx[e].ind, ackTimer[e], helloTimer[e])
    /\ UNCHANGED <<txQueue, helloInFlight, receiverVars, sock, userVars, net, faults, hist>>

\* processTxQueue pops the next message and writes it while the window is open.
TxHead(e) ==
    LET id == Head(txQueue[e])
        m == numbered(e, xmit[e][id])
    IN  /\ tx[e].pc = "txq"
        /\ txQueue' = [txQueue EXCEPT ![e] = Tail(@)]
        /\ \/ /\ write(e, frameOf(e, id, m))
              /\ xmit' = [xmit EXCEPT ![e][id] = m]
              /\ wrote(e, "tx", id)
              /\ UNCHANGED <<sock, faults>>
           \/ /\ socketError(e)
              /\ xmit' = [xmit EXCEPT ![e][id] = txComplete(m, "err")]
              /\ goDown(e)
              /\ UNCHANGED <<net, hist>>
        /\ UNCHANGED <<slowStart, ackQueue, ackTimer, helloTimer, helloInFlight,
                       receiverVars, userVars>>

\* Mutant: the race between the ack and the retry timer is overlooked.
RetryUnchecked(e, id) ==
    LET m == [xmit[e][id] EXCEPT !.retryTimer = "off", !.nretries = @ + 1] IN
    /\ tx[e].pc = "select" /\ xmit[e][id].retryTimer = "fired" /\ m.nretries < MaxRetries
    /\ xmit' = [xmit EXCEPT ![e][id] = m]
    /\ write(e, frameOf(e, id, m))
    /\ wrote(e, "retry", id)
    /\ UNCHANGED <<slowStart, txQueue, ackQueue, ackTimer, helloTimer, helloInFlight,
                   receiverVars, sock, userVars, faults>>

\* case <-retryChan: nothing if the ack won the race; otherwise another
\* transmission with the old ns, or the end of the transport.
Retry(e, id) ==
    LET m == [xmit[e][id] EXCEPT !.retryTimer = "off"]
        again == [m EXCEPT !.nretries = @ + 1]
        giveUp == again.nretries >= MaxRetries
    IN  /\ tx[e].pc = "select" /\ xmit[e][id].retryTimer = "fired"
        /\ \/ /\ isComplete(m)
              /\ xmit' = [xmit EXCEPT ![e][id] = m]
              /\ UNCHANGED <<tx, helloInFlight, sock, net, faults, hist>>
           \/ /\ ~isComplete(m) /\ ~giveUp
              /\ xmit' = [xmit EXCEPT ![e][id] = again]
              /\ write(e, frameOf(e, id, again))
              /\ wrote(e, "retry", id)
              /\ UNCHANGED <<helloInFlight, sock, faults>>
           \/ /\ ~isComplete(m)
              /\ \/ giveUp /\ UNCHANGED faults
                 \/ ~giveUp /\ socketError(e)
              /\ xmit' = [xmit EXCEPT ![e][id] = txComplete(again, "err")]
              /\ helloInFlight' = [helloInFlight EXCEPT ![e] = @ /\ m.type # "hello"]
              /\ goDown(e)
              /\ UNCHANGED <<net, hist>>
        /\ UNCHANGED <<slowStart, txQueue, ackQueue, ackTimer, helloTimer,
                       receiverVars, userVars>>

\* Mutant: helloInFlight is not looked at.
HelloUnguarded(e) ==
    LET id == Len(xmit[e]) + 1
        m == numbered(e, newXmit("hello"))
    IN  /\ tx[e].pc = "select" /\ helloTimer[e].fired /\ id <= 3
        /\ helloTimer' = [helloTimer EXCEPT ![e].fired = FALSE]
        /\ xmit' = [xmit EXCEPT ![e] = Append(@, m)]
        /\ write(e, frameOf(e, id, m))
        /\ wrote(e, "hello", id)
        /\ UNCHANGED <<slowStart, txQueue, ackQueue, ackTimer, helloInFlight,
                       receiverVars, sock, userVars, faults>>

\* case <-helloTimer.C: sendHelloMessage.  The message goes round txQueue and
\* ackQueue, straight to sendMessage.
Hello(e) ==
    LET id == Len(xmit[e]) + 1
        m == numbered(e, newXmit("hello"))
    IN  /\ tx[e].pc = "select" /\ helloTimer[e].fired
        /\ helloTimer' = [helloTimer EXCEPT ![e].fired = FALSE]
        /\ \/ /\ helloInFlight[e]
              /\ UNCHANGED <<xmit, tx, sock, net, faults, hist>>
           \/ /\ ~helloInFlight[e]
              /\ xmit' = [xmit EXCEPT ![e] = Append(@, m)]
              /\ write(e, frameOf(e, id, m))
              /\ wrote(e, "hello", id)
              /\ UNCHANGED <<sock, faults>>
           \/ /\ ~helloInFlight[e] /\ socketError(e)
              /\ goDown(e)
              /\ UNCHANGED <<xmit, net, hist>>
        /\ UNCHANGED <<slowStart, txQueue, ackQueue, ackTimer, helloInFlight,
                       receiverVars, userVars>>

\* case <-ackTimer.C: sendExplicitAck, which takes no sequence number.
ExplicitAck(e) ==
    /\ tx[e].pc = "select" /\ ackTimer[e].fired
    /\ ackTimer' = [ackTimer EXCEPT ![e].fired = FALSE]
    /\ \/ /\ write(e, [type |-> "ack", ns |-> slowStart[e].ns, nr |-> slowStart[e].nr,
                       id |-> 0, seq |-> Len(hist[e].sent), ack |-> hist[e].taken])
          /\ UNCHANGED <<tx, sock, faults>>
       \/ /\ socketError(e)
          /\ goDown(e)
          /\ UNCHANGED <<net, hist>>
    /\ UNCHANGED <<slowStart, txQueue, ackQueue, xmit, helloTimer, helloInFlight,
                   receiverVars, userVars>>

\* The rest of sendMessage after the write, and of the function that called it.
AfterWrite(e) ==
    LET id == tx[e].cur
        s == IF xmit[e][id].nretries = 0 THEN incrementNs(slowStart[e]) ELSE slowStart[e]
        ackT == stopTimer(ackTimer[e])
        helloT == resetHelloTimer(e)
    IN  /\ tx[e].pc = "sent"
        /\ xmit' = [xmit EXCEPT ![e][id].retryTimer = "armed"]
        /\ \/ /\ tx[e].op = "tx"
              /\ ackQueue' = [ackQueue EXCEPT ![e] = Append(@, id)]
              /\ slowStart' = [slowStart EXCEPT ![e] = onSend(s)]
              /\ loopTxQueue(e, txQueue[e], slowStart'[e], tx[e].ind, ackT, helloT)
              /\ UNCHANGED helloInFlight
           \/ /\ tx[e].op = "retry"
              /\ slowStart' = [slowStart EXCEPT ![e] = onRetransmit(s)]
              /\ endCase(e, "none", ackT, helloT)
              /\ UNCHANGED <<ackQueue, helloInFlight>>
           \/ /\ tx[e].op = "hello"
              /\ slowStart' = [slowStart EXCEPT ![e] = s]
              /\ helloInFlight' = [helloInFlight EXCEPT ![e] = TRUE]
              /\ endCase(e, "none", ackT, helloT)
              /\ UNCHANGED ackQueue
        /\ UNCHANGED <<txQueue, receiverVars, sock, userVars, net, faults, hist>>

\* Mutant: the messages waiting for an ack are not flushed.
flushedTxOnly(e) == Range(txQueue[e])

\* The messages down() completes.
flushed(e) == Range(txQueue[e]) \cup Range(ackQueue[e])

\* down() once the receiver has gone: fail whatever is queued, stop the timers.
FinishDown(e) ==
    /\ tx[e].pc = "down" /\ rx[e].pc = "done"
    /\ xmit' = [xmit EXCEPT ![e] = [i \in DOMAIN @ |->
                   IF i \in flushed(e) THEN txComplete(@[i], "err") ELSE @[i]]]
    /\ txQueue' = [txQueue EXCEPT ![e] = <<>>]
    /\ ackQueue' = [ackQueue EXCEPT ![e] = <<>>]
    /\ ackTimer' = [ackTimer EXCEPT ![e] = stopTimer(@)]
    /\ helloTimer' = [helloTimer EXCEPT ![e] = stopTimer(@)]
    /\ tx' = [tx EXCEPT ![e].pc = "exited"]
    /\ UNCHANGED <<slowStart, helloInFlight, receiverVars, sock, userVars, net,
                   faults, hist>>

\* case <-nrChan, closed by the receiver.
SeeReceiverGone(e) ==
    /\ tx[e].pc = "select" /\ rx[e].pc = "done"
    /\ goDown(e)
    /\ UNCHANGED <<slowStart, txQueue, ackQueue, xmit, ackTimer, helloTimer,
                   helloInFlight, receiverVars, userVars, net, faults, hist>>
-----------------------------------------------------------------------------
(* The receiver goroutine: receiver() and what it calls *)

\* recvFrame's sanity check.  ns is one behind what is on the wire between a
\* write and incrementNs, hence the slack of one.
nrIsValid(e, f) == seqCompare(f.nr, seqIncrement(slowStart[e].ns)) <= 0

\* A frame is read, checked and queued; the receiver blocks on nrChan.  A
\* refused frame still sends an empty rxNr.
ReadFrame(e) ==
    /\ rx[e].pc = "read" /\ sock[e] /\ Len(rxQueue[e]) < MaxRxQueue
    /\ \E f \in net[e] :
          /\ net' = IF workload.duplicates THEN net ELSE [net EXCEPT ![e] = @ \ {f}]
          /\ IF nrIsValid(e, f)
             THEN /\ rxQueue' = [rxQueue EXCEPT ![e] = Append(@, f)]
                  /\ rx' = [rx EXCEPT ![e] = [pc |-> "nr", held |-> <<f>>]]
             ELSE /\ rx' = [rx EXCEPT ![e] = [pc |-> "nr", held |-> <<>>]]
                  /\ UNCHANGED rxQueue
    /\ UNCHANGED <<slowStart, senderVars, sock, userVars, faults, hist>>

\* parseMessageBuffer rejects the datagram.  The error is logged; the test for
\* an unknown mandatory AVP has its arguments the wrong way round and is false.
ReadBadFrame(e) ==
    /\ rx[e].pc = "read" /\ sock[e]
    /\ socketError(e)
    /\ rx' = [rx EXCEPT ![e] = [pc |-> "nr", held |-> <<>>]]
    /\ UNCHANGED <<slowStart, senderVars, rxQueue, sock, userVars, net, hist>>

\* The read fails: close nrChan, return, flush rxQueue, close recvChan.
ReadError(e) ==
    /\ rx[e].pc = "read"
    /\ IF sock[e] THEN socketError(e) ELSE UNCHANGED faults
    /\ rx' = [rx EXCEPT ![e].pc = "done"]
    /\ rxQueue' = [rxQueue EXCEPT ![e] = <<>>]
    /\ UNCHANGED <<slowStart, senderVars, sock, userVars, net, hist>>

\* One iteration of processRxQueue: acks and stale messages are dropped, the
\* message in sequence is counted in nr and then offered to the user.
ProcessRx(e) ==
    LET m == Head(rxQueue[e]) IN
    /\ rx[e].pc = "proc"
    /\ rxQueue' = [rxQueue EXCEPT ![e] = Tail(@)]
    /\ IF m.type # "ack" /\ msgIsInSequence(slowStart[e], m)
       THEN /\ slowStart' = [slowStart EXCEPT ![e] = incrementNr(@)]
            /\ rx' = [rx EXCEPT ![e] = [pc |-> "deliver", held |-> <<m>>]]
            /\ hist' = [hist EXCEPT ![e].taken = @ + 1]
       ELSE /\ rx' = [rx EXCEPT ![e] = resumeRx(rxQueue'[e], slowStart[e])]
            /\ UNCHANGED <<slowStart, hist>>
    /\ UNCHANGED <<senderVars, sock, userVars, net, faults>>

\* Mutant: nrChan is not drained.
DrainRecvOnly(e) ==
    /\ tx[e].pc = "down" /\ rx[e].pc = "deliver"
    /\ rx' = [rx EXCEPT ![e] = resumeRx(rxQueue[e], slowStart[e])]
    /\ UNCHANGED <<slowStart, senderVars, rxQueue, sock, userVars, net, faults, hist>>

\* closeReceiver's drain goroutine takes what the receiver is blocked on.
Drain(e) ==
    /\ tx[e].pc = "down" /\ rx[e].pc \in {"nr", "deliver"}
    /\ rx' = [rx EXCEPT ![e] = resumeRx(rxQueue[e], slowStart[e])]
    /\ UNCHANGED <<slowStart, senderVars, rxQueue, sock, userVars, net, faults, hist>>
-----------------------------------------------------------------------------
(* The user of the transport *)

\* recv() meets the receiver on recvChan.
RecvCall(e) ==
    /\ rx[e].pc = "deliver"
    /\ rx' = [rx EXCEPT ![e] = resumeRx(rxQueue[e], slowStart[e])]
    /\ hist' = [hist EXCEPT ![e].delivered = Append(@, Head(rx[e].held).id)]
    /\ UNCHANGED <<slowStart, senderVars, rxQueue, sock, userVars, net, faults>>

\* The user makes no further call of send(): the channel is closed.
Close(e) ==
    /\ e \in Closers /\ ~closed[e]
    /\ closed' = [closed EXCEPT ![e] = TRUE]
    /\ UNCHANGED <<slowStart, senderVars, receiverVars, sock, callers, workload, net,
                   faults, hist>>
-----------------------------------------------------------------------------
(* The passage of time *)

AckTimerFires(e) ==
    /\ ackTimer[e].armed
    /\ ackTimer' = [ackTimer EXCEPT ![e] = expired(@)]
    /\ UNCHANGED <<slowStart, txQueue, ackQueue, xmit, tx, helloTimer, helloInFlight,
                   receiverVars, sock, userVars, net, faults, hist>>

HelloTimerFires(e) ==
    /\ helloTimer[e].armed
    /\ helloTimer' = [helloTimer EXCEPT ![e] = expired(@)]
    /\ UNCHANGED <<slowStart, txQueue, ackQueue, xmit, tx, ackTimer, helloInFlight,
                   receiverVars, sock, userVars, net, faults, hist>>

\* The AfterFunc goroutine starts and blocks on retryChan.
RetryTimerFires(e, id) ==
    /\ xmit[e][id].retryTimer = "armed"
    /\ xmit' = [xmit EXCEPT ![e][id].retryTimer = "fired"]
    /\ UNCHANGED <<slowStart, txQueue, ackQueue, tx, ackTimer, helloTimer, helloInFlight,
                   receiverVars, sock, userVars, net, faults, hist>>
-----------------------------------------------------------------------------
Sender(e) ==
    \/ AcceptSend(e) \/ SeeClosed(e) \/ SeeReceiverGone(e) \/ TakeNr(e)
    \/ AckHead(e) \/ TxHead(e)
    \/ \E id \in DOMAIN xmit[e] : Retry(e, id)
    \/ Hello(e) \/ ExplicitAck(e) \/ AfterWrite(e) \/ FinishDown(e)

Receiver(e) == ProcessRx(e) \/ Drain(e)

Socket(e) == ReadFrame(e) \/ ReadBadFrame(e) \/ ReadError(e)

Timers(e) ==
    \/ AckTimerFires(e) \/ HelloTimerFires(e)
    \/ \E id \in DOMAIN xmit[e] : RetryTimerFires(e, id)

User(e) == RecvCall(e) \/ Close(e)

Next == \E e \in End : Sender(e) \/ Receiver(e) \/ Socket(e) \/ Timers(e) \/ User(e)

Spec == Init /\ [][Next]_vars

\* What the Go runtime and the clock do by themselves.
System == \E e \in End :
    Sender(e) \/ Receiver(e) \/ Timers(e) \/ (~sock[e] /\ ReadError(e))

\* Some runnable goroutine runs or some timer expires as long as there is one.
\* Nothing is assumed of the network or of the user.
FairSpec == Spec /\ WF_vars(System)
-----------------------------------------------------------------------------
(* Properties *)

\* send() returns nil only for a message the peer's transport has taken in
\* sequence (processAckQueue, recvFrame, seqCompare over wrapped numbers).
AckedWasTaken ==
    \A e \in End : \A i \in DOMAIN xmit[e] :
        xmit[e][i].result = "ok" => xmit[e][i].seq < hist[peer(e)].taken

\* recv() returns the peer's messages exactly once and in the order they were
\* sent, whatever the network loses, duplicates or reorders (processRxQueue).
DeliveredInOrder ==
    \A e \in End :
        LET d == hist[e].delivered
            s == hist[peer(e)].sent
        IN  Len(d) <= Len(s) /\ d = SubSeq(s, 1, Len(d))

\* A message joins those in flight only while fewer than cwnd, hence fewer than
\* TxWindowSize, are sent "to the peer without having received an
\* acknowledgement": also after a retransmission collapsed cwnd under messages
\* in flight.  What onSend, onAck and onRetransmit count for canSend is what is
\* on ackQueue.
WindowBound ==
    [][\A e \in End :
         Len(ackQueue'[e]) > Len(ackQueue[e]) =>
             Len(ackQueue[e]) < slowStart[e].cwnd /\ slowStart[e].cwnd <= TxWindowSize]_vars

\* The queues hold messages the sender created.
QueueIds(e) ==
    /\ txQueue[e] \in Seq(DOMAIN xmit[e])
    /\ ackQueue[e] \in Seq(DOMAIN xmit[e])

\* What the sender's next step relies on: a message to write and room in the
\* window for it, a message to ack, an ntx that counts ackQueue.
SenderReady(e) ==
    /\ tx[e].pc = "txq" => txQueue[e] # <<>> /\ canSend(slowStart[e])
    /\ tx[e].pc = "ackq" => ackQueue[e] # <<>>
    /\ tx[e].pc = "sent" => /\ tx[e].cur \in DOMAIN xmit[e]
                            /\ tx[e].op = "tx" => canSend(slowStart[e])
    /\ IF tx[e].pc = "exited" THEN ackQueue[e] = <<>>
       ELSE slowStart[e].ntx = Len(ackQueue[e])

\* A message that has not completed has a retry left.
RetriesLeft(e) ==
    \A i \in DOMAIN xmit[e] :
        ~isComplete(xmit[e][i]) => xmit[e][i].nretries < MaxRetries

SenderInv(e) == QueueIds(e) /\ SenderReady(e) /\ RetriesLeft(e)

\* The receiver processes and delivers only what it has.
ReceiverInv(e) ==
    /\ rx[e].pc = "proc" => rxQueue[e] # <<>>
    /\ rx[e].pc = "deliver" => rx[e].held # <<>>

\* The goroutines keep what their next step relies on, whatever the other ones
\* do in between.
StepInv == \A e \in End : SenderInv(e) /\ ReceiverInv(e)

\* The inductive invariant: with StepInv no step of the sender or the receiver
\* leaves the types, in particular ntx and cwnd stay within TxWindowSize, and
\* with the types no step breaks StepInv.
IInv == TypeOK /\ StepInv

\* No message is forgotten: while the sender runs, each one that send() waits
\* for is on txQueue, on ackQueue or being written, and ackQueue is ordered by
\* sequence number, as processAckQueue assumes by looking at its head only.
QueuesHoldWaiting ==
    \A e \in End : tx[e].pc \notin {"down", "exited"} =>
        LET q == ackQueue[e]
            writing == IF tx[e].pc = "sent" /\ tx[e].op = "tx" THEN {tx[e].cur} ELSE {}
        IN  /\ waiting(e) = Range(q) \cup Range(txQueue[e]) \cup writing
            /\ \A i, j \in DOMAIN q : i < j => xmit[e][q[i]].seq < xmit[e][q[j]].seq

\* helloInFlight tells whether a HELLO is in flight: never two at a time, and the
\* flag is up exactly while one has not completed (sendHelloMessage,
\* helloSendComplete); otherwise keep-alives stop or pile up.
HelloInFlightExact ==
    \A e \in End : ~(tx[e].pc = "sent" /\ tx[e].op = "hello") =>
        Cardinality({i \in DOMAIN xmit[e] : /\ xmit[e][i].type = "hello"
                                            /\ ~isComplete(xmit[e][i])})
            = IF helloInFlight[e] THEN 1 ELSE 0

\* recvFrame never refuses a frame the peer really sent: not even one that
\* acks a message whose incrementNs has not happened yet.
PeerFrameAccepted ==
    \A e \in End : \A f \in net[e] : nrIsValid(e, f)

\* A step that leaves every completed message as it is.
KeepsCompleted ==
    \A e \in End : \A i \in DOMAIN xmit[e] :
        isComplete(xmit[e][i]) => /\ xmit'[e][i].nretries = xmit[e][i].nretries
                                  /\ xmit'[e][i].result = xmit[e][i].result

\* "It's possible that a message ack could race with the retry timer": a
\* completed message is never retransmitted and its result never changes.
CompleteIsFinal == [][KeepsCompleted]_vars

\* Every message accepted by the sender completes, acked or failed, even if the
\* network delivers nothing and the user never calls recv().
AcceptedCompletes ==
    \A e \in End : waiting(e) # {} ~> waiting(e) = {}

\* Once the transport goes down (close() or an error) both goroutines end, so
\* close() returns and recv() fails instead of blocking.
DownCompletes ==
    \A e \in End : (closed[e] \/ tx[e].pc = "down")
                       ~> (tx[e].pc = "exited" /\ rx[e].pc = "done")

\* Acks do not answer acks: the explicit acks die out ("we'll end up
\* ping-ponging acks back and forth forever" otherwise).
AcksDieOut ==
    <>[](\A e \in End : tx[e].pc \in {"down", "exited"}
                          \/ (~ackTimer[e].armed /\ ~ackTimer[e].fired))

\* Keep-alive: an end that sends HELLOs goes down once its peer's socket is
\* closed, although nobody sends anything at either end (sendHelloMessage,
\* resetHelloTimer, retransmitMessage).
DeadPeerDetected ==
    \A e \in End : (helloTimer[e].on /\ ~sock[peer(e)]) ~> tx[e].pc = "exited"

\* "Find the next message which can be handled (either stale or in-sequence)":
\* when the receiver goes back to reading, rxQueue holds no such message.
RxQueueServed ==
    \A e \in End : rx[e].pc = "read" =>
        \A i \in DOMAIN rxQueue[e] :
            LET m == rxQueue[e][i] IN
            ~msgIsInSequence(slowStart[e], m) /\ ~msgIsStale(slowStart[e], m)

\* "Maximum number of retransmits of an unacknowledged control packet": once
\* the sender has processed an nr that covers a message, HELLO included, it is
\* not retransmitted and does not fail the transport.
AckedNotRetried ==
    [][\A e \in End : \A i \in DOMAIN xmit[e] :
          xmit'[e][i].nretries > xmit[e][i].nretries
              => hist[e].heard <= xmit[e][i].seq]_vars

\* send(): "The caller will block until the message has been acked by the peer.
\* Failure indicates that the transport has failed": every call returns.
SendReturns ==
    \A e \in End : callers[e] > 0 ~> (callers[e] = 0 \/ closed[e])

\* "we have just sent an implicit ack": when both goroutines are idle and the
\* ack timer is off, some frame written has told the peer of everything taken.
AckTimerOffMeansAcked ==
    \A e \in End :
        (/\ tx[e].pc = "select" /\ rx[e].pc = "read"
         /\ ~ackTimer[e].armed /\ ~ackTimer[e].fired)
        => (hist[e].taken = 0 \/ \E f \in net[peer(e)] : f.ack = hist[e].taken)

Abstract == INSTANCE ControlChannel WITH
    sent <- [e \in End |-> hist[e].sent],
    taken <- [e \in End |-> hist[e].taken],
    delivered <- [e \in End |-> hist[e].delivered],
    acked <- [e \in End |-> {i \in DOMAIN xmit[e] :
                  xmit[e][i].type = "data" /\ xmit[e][i].result = "ok"}]

\* The transport implements the abstract control channel.
ImplementsChannel == Abstract!Spec
=============================================================================
