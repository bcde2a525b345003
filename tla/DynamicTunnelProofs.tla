------------------------ MODULE DynamicTunnelProofs -------------------------
(***************************************************************************)
(* Proof that a dynamic tunnel releases what it holds, for any number of   *)
(* sessions under any names and IDs, any peer, and whatever fails.         *)
(***************************************************************************)
EXTENDS DynamicTunnel, TLAPS

TunnelField ==
    {"pc", "fsm", "msg", "todo", "cur", "ret", "bad", "isClosing", "established", "dp",
     "ev", "closeChan"}

TunnelPc ==
    {"open", "select", "send", "sent", "again", "notify", "start", "forward",
     "stopccn", "drain", "kill", "xport", "exit"}

\* Where fsmActClose waits or can be overtaken.
ClosingPc == {"drain", "kill", "xport"}

\* What the proof needs of the tunnel's type.
TunnelType(r) ==
    /\ DOMAIN r = TunnelField
    /\ r.pc \in TunnelPc
    /\ r.ret \in {"select", "again", "exit"}
    /\ r.isClosing \in BOOLEAN
    /\ r.established \in BOOLEAN

\* What a handler has in hand while it runs in the tunnel's goroutine, x being
\* the transport: a tunnel that is closing holds nothing any more.
Handling(r, x) ==
    /\ TunnelType(r)
    /\ r.isClosing = TRUE => x = "closed" /\ r.dp # "up" /\ r.ev # "up"
    /\ r.ev = "up" => r.established = TRUE

\* The tunnel between two steps.  From fsmActClose's first to its last line it
\* is at one of ClosingPc; afterwards it holds nothing.  A tunnel that is about
\* to return from runTunnel is closing, or sends the StopCCN after which it
\* closes.
TunnelReleases(r, x) ==
    /\ r.pc \notin ClosingPc => Handling(r, x)
    /\ r.pc \in {"sent", "notify"} => r.isClosing = FALSE
    /\ r.pc \in ClosingPc \cup {"exit"} => r.isClosing = TRUE
    /\ r.pc = "xport" => r.dp # "up"
    /\ r.ev = "up" => r.established = TRUE
    /\ r.ret = "exit" => r.pc # "notify"
    /\ r.ret = "exit" /\ r.pc \in {"send", "sent"} => r.msg = "stopccn"

TunnelInv == TunnelType(tun) /\ TunnelReleases(tun, xp)

\* What the tunnel holds stays as it was.
Keeps(q, r) ==
    /\ DOMAIN q = TunnelField
    /\ q.isClosing = r.isClosing /\ q.established = r.established
    /\ q.dp = r.dp /\ q.ev = r.ev

USE DEF ClosingPc

\* A handler that moves the goroutine on and changes nothing of the above.
LEMMA MoveInv ==
    ASSUME NEW r, Handling(r, xp), Keeps(tun', r), UNCHANGED xp,
           tun'.pc \in TunnelPc \ (ClosingPc \cup {"exit", "send", "sent", "notify"}),
           tun'.ret \in {"select", "again", "exit"}
    PROVE  TunnelInv'
  BY DEF Keeps, Handling, TunnelInv, TunnelType, TunnelReleases

\* fsmActClose leaves the tunnel closing.
LEMMA CloseInv ==
    ASSUME NEW r, NEW ret \in {"select", "again", "exit"}, Handling(r, xp),
           fsmActClose(r, ret), UNCHANGED xp
    PROVE  TunnelInv'
<1>1. CASE r.isClosing = TRUE
  <2>1. tun' = [r EXCEPT !.pc = ret]
    BY <1>1 DEF fsmActClose, goes
  <2>2. /\ DOMAIN tun' = TunnelField /\ tun'.pc = ret /\ tun'.ret = r.ret
        /\ tun'.isClosing = TRUE /\ tun'.established = r.established
        /\ tun'.dp = r.dp /\ tun'.ev = r.ev
    BY <1>1, <2>1 DEF Handling, TunnelType, TunnelField
  <2> QED BY <1>1, <2>2 DEF Handling, TunnelInv, TunnelType, TunnelReleases, TunnelPc
<1>2. CASE r.isClosing = FALSE
  <2>1. tun' = [r EXCEPT !.pc = "drain", !.isClosing = TRUE, !.ret = ret, !.cur = None]
    BY <1>2 DEF fsmActClose, goes
  <2>2. /\ DOMAIN tun' = TunnelField /\ tun'.pc = "drain" /\ tun'.ret = ret
        /\ tun'.isClosing = TRUE /\ tun'.established = r.established
        /\ tun'.dp = r.dp /\ tun'.ev = r.ev
    BY <2>1 DEF Handling, TunnelType, TunnelField
  <2> QED BY <2>2 DEF Handling, TunnelInv, TunnelType, TunnelReleases, TunnelPc
<1> QED BY <1>1, <1>2 DEF Handling, TunnelType

\* Sending leaves it where only StopCCN leads to the exit.
LEMMA SendInv ==
    ASSUME NEW r, NEW m, NEW ret \in {"select", "again", "exit"}, Handling(r, xp),
           sendMsg(r, m, ret), ret = "exit" => m = "stopccn", UNCHANGED xp
    PROVE  TunnelInv'
<1>1. tun' = [r EXCEPT !.pc = "send", !.msg = m, !.ret = ret]
  BY DEF sendMsg, goes
<1>2. /\ DOMAIN tun' = TunnelField /\ tun'.pc = "send" /\ tun'.ret = ret /\ tun'.msg = m
      /\ tun'.isClosing = r.isClosing /\ tun'.established = r.established
      /\ tun'.dp = r.dp /\ tun'.ev = r.ev
  BY <1>1 DEF Handling, TunnelType, TunnelField
<1> QED BY <1>2 DEF Handling, TunnelInv, TunnelType, TunnelReleases, TunnelPc

\* In every state the "close" event leads to StopCCN or, without a transition,
\* to fsmActClose.
LEMMA CloseEvent ==
    ASSUME NEW s PROVE handleEvent(tunnelTable, s, "close").cb \in {"error", "sendStopccn"}
<1> DEFINE rows == matching(tunnelTable, s, "close")
<1>1. rows \subseteq {6, 10}
  BY DEF matching, tunnelTable, row
<1>2. CASE rows = {}
  BY <1>2 DEF handleEvent, row
<1>3. CASE rows # {}
  <2>1. \E i \in rows : \A j \in rows : i <= j
    BY <1>1, <1>3
  <2> DEFINE first == CHOOSE i \in rows : \A j \in rows : i <= j
  <2>2. first \in {6, 10}
    BY <1>1, <2>1
  <2>3. tunnelTable[6].cb = "sendStopccn" /\ tunnelTable[10].cb = "sendStopccn"
    BY DEF tunnelTable, row
  <2>4. handleEvent(tunnelTable, s, "close") = tunnelTable[first]
    BY <1>3, Zenon DEF handleEvent
  <2> HIDE DEF first
  <2> QED BY <2>2, <2>3, <2>4
<1> QED BY <1>2, <1>3

\* Every callback of the tunnel's table.
LEMMA CallbackInv ==
    ASSUME NEW cb, NEW r, NEW arg, NEW ret \in {"select", "again", "exit"}, Handling(r, xp),
           tunnelCallback(cb, r, arg, ret), UNCHANGED xp,
           ret = "exit" => cb \in {"error", "sendStopccn"}
    PROVE  TunnelInv'
<1>1. CASE cb = "error"
  BY <1>1, CloseInv DEF tunnelCallback
<1>2. CASE cb = "sendSccrq" \/ cb = "onSccrp" \/ cb = "sendStopccn"
  BY <1>2, SendInv DEF tunnelCallback
<1>3. CASE cb = "nil" \/ cb = "linkSession"
  <2>1. tun' = [r EXCEPT !.pc = ret] /\ ret # "exit"
    BY <1>3 DEF tunnelCallback, goes
  <2>2. Keeps(tun', r) /\ tun'.pc = ret /\ tun'.ret = r.ret
    BY <2>1 DEF Keeps, Handling, TunnelType, TunnelField
  <2> QED BY <2>1, <2>2, MoveInv DEF Handling, TunnelType, TunnelPc
<1>4. CASE cb = "onStopccn"
  <2>1. tun' = [r EXCEPT !.pc = "stopccn", !.ret = ret]
    BY <1>4 DEF tunnelCallback, goes
  <2>2. Keeps(tun', r) /\ tun'.pc = "stopccn" /\ tun'.ret = ret
    BY <2>1 DEF Keeps, Handling, TunnelType, TunnelField
  <2> QED BY <2>2, MoveInv DEF TunnelPc
<1>5. CASE cb = "startSession"
  <2>1. tun' = [r EXCEPT !.pc = "start", !.cur = arg]
    BY <1>5 DEF tunnelCallback
  <2>2. Keeps(tun', r) /\ tun'.pc = "start" /\ tun'.ret = r.ret
    BY <2>1 DEF Keeps, Handling, TunnelType, TunnelField
  <2> QED BY <2>2, MoveInv DEF Handling, TunnelType, TunnelPc
<1>6. CASE cb = "forward"
  <2>1. \/ tun' = [r EXCEPT !.pc = "forward", !.cur = byID[arg.sid], !.msg = arg]
        \/ tun' = [r EXCEPT !.pc = "select"]
    BY <1>6 DEF tunnelCallback, fsmActForwardSessionMsg, goes
  <2>2. Keeps(tun', r) /\ tun'.pc \in {"forward", "select"} /\ tun'.ret = r.ret
    BY <2>1 DEF Keeps, Handling, TunnelType, TunnelField
  <2> QED BY <2>2, MoveInv DEF Handling, TunnelType, TunnelPc
<1> QED BY <1>1, <1>2, <1>3, <1>4, <1>5, <1>6 DEF tunnelCallback

\* An event: the next state, then its callback.
LEMMA EventInv ==
    ASSUME NEW e, NEW r, NEW arg, NEW ret \in {"select", "again", "exit"}, Handling(r, xp),
           tunnelEvent(e, r, arg, ret), UNCHANGED xp, ret = "exit" => e = "close"
    PROVE  TunnelInv'
<1> DEFINE t == handleEvent(tunnelTable, r.fsm, e)
           q == [r EXCEPT !.fsm = t.to]
<1>1. tunnelCallback(t.cb, q, arg, ret)
  BY DEF tunnelEvent
<1>2. ret = "exit" => t.cb \in {"error", "sendStopccn"}
  BY CloseEvent
<1> HIDE DEF t
<1>3. Handling(q, xp)
  <2>1. Keeps(q, r) /\ q.pc = r.pc /\ q.ret = r.ret
    BY DEF Keeps, Handling, TunnelType, TunnelField
  <2> HIDE DEF q
  <2> QED BY <2>1 DEF Keeps, Handling, TunnelType
<1> HIDE DEF q
<1> QED BY <1>1, <1>2, <1>3, CallbackInv

\* A message's event, whether handled the first time or again.
LEMMA MsgEventInv ==
    ASSUME NEW m, NEW r, Handling(r, xp), msgEvent(m, r), UNCHANGED xp
    PROVE  TunnelInv'
<1>1. CASE eventOf(m) = ""
  <2>1. tun' = [r EXCEPT !.pc = "select"]
    BY <1>1 DEF msgEvent, goes
  <2>2. Keeps(tun', r) /\ tun'.pc = "select" /\ tun'.ret = r.ret
    BY <2>1 DEF Keeps, Handling, TunnelType, TunnelField
  <2> QED BY <2>2, MoveInv DEF Handling, TunnelType, TunnelPc
<1>2. CASE eventOf(m) # ""
  <2>1. tunnelEvent(eventOf(m), r, m, "select")
    BY <1>2 DEF msgEvent
  <2> QED BY <2>1, EventInv
<1> QED BY <1>1, <1>2

\* The steps that start a handler in runTunnel.
LEMMA EventSteps ==
    ASSUME TunnelInv,
           Open \/ SeeClose \/ SeeTransportDown \/ TakeMsg \/ BadMsgAgain
             \/ \E s \in Session : TakeNewSession(s)
    PROVE  TunnelInv'
<1>1. Handling(tun, xp) /\ UNCHANGED xp
  BY DEF TunnelInv, TunnelReleases, Open, SeeClose, SeeTransportDown, TakeMsg, BadMsgAgain,
         TakeNewSession
<1>2. CASE Open
  BY <1>1, <1>2, EventInv DEF Open
<1>3. CASE SeeClose
  BY <1>1, <1>3, EventInv DEF SeeClose
<1>4. CASE SeeTransportDown
  BY <1>1, <1>4, CloseInv DEF SeeTransportDown
<1>5. ASSUME NEW b PROVE Handling([tun EXCEPT !.bad = b], xp)
  <2> DEFINE q == [tun EXCEPT !.bad = b]
  <2>1. Keeps(q, tun) /\ q.pc = tun.pc /\ q.ret = tun.ret
    BY <1>1 DEF Keeps, Handling, TunnelType, TunnelField
  <2> HIDE DEF q
  <2> QED BY <1>1, <2>1 DEF Keeps, Handling, TunnelType, q
<1>6. CASE TakeMsg
  <2>1. CASE goes(tun)
    BY <1>1, <2>1 DEF goes, TunnelInv
  <2>2. CASE msgEvent(inbox, tun)
    BY <1>1, <2>2, MsgEventInv
  <2>3. CASE tunnelEvent("close", [tun EXCEPT !.bad = inbox], None, "again")
    <3> DEFINE q == [tun EXCEPT !.bad = inbox]
    <3>1. Handling(q, xp) /\ tunnelEvent("close", q, None, "again")
      BY <1>5, <2>3
    <3> HIDE DEF q
    <3> QED BY <1>1, <3>1, EventInv
  <2> QED BY <1>6, <2>1, <2>2, <2>3 DEF TakeMsg
<1>7. CASE BadMsgAgain
  <2> DEFINE q == [tun EXCEPT !.bad = None]
  <2>1. Handling(q, xp) /\ msgEvent(tun.bad, q)
    BY <1>5, <1>7 DEF BadMsgAgain
  <2> HIDE DEF q
  <2> QED BY <1>1, <2>1, MsgEventInv
<1>8. ASSUME NEW s \in Session, TakeNewSession(s) PROVE TunnelInv'
  BY <1>1, <1>8, EventInv DEF TakeNewSession
<1> QED BY <1>2, <1>3, <1>4, <1>6, <1>7, <1>8

\* The tunnel's own send() returns.
LEMMA SentStep ==
    ASSUME TunnelInv, NEW err \in BOOLEAN, TunnelSent(err)
    PROVE  TunnelInv'
<1>1. /\ Handling(tun, xp) /\ UNCHANGED xp /\ tun.isClosing = FALSE
      /\ tun.ret \in {"select", "again", "exit"}
      /\ tun.ret = "exit" => tun.msg = "stopccn"
  BY DEF TunnelInv, TunnelReleases, TunnelType, TunnelSent
<1>2. CASE fsmActClose(tun, tun.ret)
  BY <1>1, <1>2, CloseInv
<1>3. CASE tun.msg = "sccrq" /\ goes([tun EXCEPT !.pc = tun.ret])
  <2>1. Keeps(tun', tun) /\ tun'.pc = tun.ret /\ tun'.ret = tun.ret
    BY <1>1, <1>3 DEF goes, Keeps, Handling, TunnelType, TunnelField
  <2> QED BY <1>1, <1>3, <2>1, MoveInv DEF TunnelPc
<1>4. CASE tun.msg = "scccn" /\ establish
  <2>1. CASE tun' = [tun EXCEPT !.pc = "notify", !.dp = "up", !.todo = allSessions]
    <3>1. /\ DOMAIN tun' = TunnelField /\ tun'.pc = "notify" /\ tun'.ret = tun.ret
          /\ tun'.isClosing = FALSE /\ tun'.established = tun.established /\ tun'.ev = tun.ev
      BY <1>1, <2>1 DEF Handling, TunnelType, TunnelField
    <3> QED BY <1>1, <1>4, <3>1 DEF Handling, TunnelInv, TunnelType, TunnelReleases, TunnelPc
  <2>2. CASE tunnelEvent("close", tun, None, tun.ret)
    BY <1>1, <2>2, EventInv
  <2> QED BY <1>4, <2>1, <2>2 DEF establish, goes
<1> QED BY <1>2, <1>3, <1>4 DEF TunnelSent

\* Reporting TunnelUpEvent, waiting after a peer's StopCCN and the parts of
\* fsmActClose.
LEMMA RestSteps ==
    ASSUME TunnelInv,
           ReportUp \/ StopccnDrain \/ StopccnTimeout
             \/ TakeSessions \/ Killed \/ CloseDp \/ CloseRest
             \/ \E s \in Session : Kill(s)
    PROVE  TunnelInv'
<1>1. CASE ReportUp
  <2>1. tun' = [tun EXCEPT !.pc = tun.ret, !.established = TRUE, !.ev = "up"]
    BY <1>1 DEF ReportUp
  <2>2. /\ DOMAIN tun' = TunnelField /\ tun'.pc = tun.ret /\ tun'.ret = tun.ret
        /\ tun'.isClosing = tun.isClosing /\ tun'.established = TRUE
    BY <2>1 DEF TunnelInv, TunnelType, TunnelField
  <2>3. tun.isClosing = FALSE /\ tun.ret \in {"select", "again"}
    BY <1>1 DEF ReportUp, TunnelInv, TunnelType, TunnelReleases
  <2> QED BY <2>2, <2>3 DEF Handling, TunnelInv, TunnelType, TunnelReleases, TunnelPc
<1>2. CASE StopccnDrain
  BY <1>2 DEF StopccnDrain, TunnelInv
<1>3. CASE StopccnTimeout
  <2>1. Handling(tun, xp) /\ UNCHANGED xp /\ tun.ret \in {"select", "again", "exit"}
    BY <1>3 DEF StopccnTimeout, TunnelInv, TunnelReleases, TunnelType
  <2> QED BY <1>3, <2>1, CloseInv DEF StopccnTimeout
<1>4. CASE TakeSessions \/ Killed \/ \E s \in Session : Kill(s)
  <2>1. \/ tun' = [tun EXCEPT !.pc = "kill", !.todo = allSessions]
        \/ tun' = [tun EXCEPT !.cur = None]
        \/ \E s \in Session : tun' = [tun EXCEPT !.todo = @ \ {s}, !.cur = s]
    BY <1>4 DEF TakeSessions, Killed, Kill
  <2>2. tun.pc \in {"drain", "kill"} /\ (tun.pc = "drain" => TakeSessions)
    BY <1>4 DEF TakeSessions, Killed, Kill
  <2>3. Keeps(tun', tun) /\ tun'.pc = "kill" /\ tun'.ret = tun.ret
    BY <2>1, <2>2 DEF TakeSessions, Keeps, TunnelInv, TunnelType, TunnelField
  <2> QED BY <2>2, <2>3
          DEF Keeps, Handling, TunnelInv, TunnelType, TunnelReleases, TunnelPc
<1>5. CASE CloseDp
  <2>1. /\ tun' = [tun EXCEPT !.pc = "xport", !.msg = None, !.dp = IF @ = "up" THEN "down" ELSE @]
        /\ tun.pc = "kill"
    BY <1>5 DEF CloseDp
  <2>2. /\ DOMAIN tun' = TunnelField /\ tun'.pc = "xport" /\ tun'.ret = tun.ret
        /\ tun'.isClosing = tun.isClosing /\ tun'.established = tun.established
        /\ tun'.ev = tun.ev /\ tun'.dp # "up"
    BY <2>1 DEF TunnelInv, TunnelType, TunnelField
  <2> QED BY <2>1, <2>2
          DEF Handling, TunnelInv, TunnelType, TunnelReleases, TunnelPc
<1>6. CASE CloseRest
  <2>1. /\ tun' = [tun EXCEPT !.pc = tun.ret, !.established = FALSE,
                              !.ev = IF tun.established THEN "down" ELSE @]
        /\ xp' = "closed" /\ tun.pc = "xport"
    BY <1>6 DEF CloseRest
  <2>2. /\ DOMAIN tun' = TunnelField /\ tun'.pc = tun.ret /\ tun'.ret = tun.ret
        /\ tun'.isClosing = tun.isClosing /\ tun'.established = FALSE /\ tun'.dp = tun.dp
    BY <2>1 DEF TunnelInv, TunnelType, TunnelField
  <2>3. tun'.ev # "up"
    <3>1. tun'.ev = IF tun.established THEN "down" ELSE tun.ev
      BY <2>1 DEF TunnelInv, TunnelType, TunnelField
    <3> QED BY <3>1 DEF TunnelInv, TunnelType, TunnelReleases
  <2>4. /\ tun.isClosing = TRUE /\ tun.dp # "up"
        /\ tun.ret \in {"select", "again", "exit"}
    BY <2>1 DEF TunnelInv, TunnelType, TunnelReleases
  <2> QED BY <2>1, <2>2, <2>3, <2>4
          DEF Handling, TunnelInv, TunnelType, TunnelReleases, TunnelPc
<1> QED BY <1>1, <1>2, <1>3, <1>4, <1>5, <1>6

\* The steps in which the tunnel's goroutine meets a session, the transport or
\* the application.
LEMMA MeetingSteps ==
    ASSUME TunnelInv,
           \/ \E s \in Session : TellTunnelUp(s) \/ Forward(s)
           \/ \E x \in Sender : Accept(x)
           \/ CloseTunnel \/ TransportFails
    PROVE  TunnelInv'
<1>1. ASSUME NEW s \in Session, TellTunnelUp(s), tun.pc = "notify" PROVE TunnelInv'
  <2>1. tun' = [tun EXCEPT !.todo = @ \ {s}] /\ UNCHANGED xp
    BY <1>1 DEF TellTunnelUp
  <2>2. Keeps(tun', tun) /\ tun'.pc = tun.pc /\ tun'.ret = tun.ret
    BY <2>1 DEF Keeps, TunnelInv, TunnelType, TunnelField
  <2> QED BY <1>1, <2>1, <2>2 DEF Keeps, Handling, TunnelInv, TunnelType, TunnelReleases
<1>2. ASSUME NEW s \in Session, (TellTunnelUp(s) /\ tun.pc = "start") \/ Forward(s)
      PROVE  TunnelInv'
  <2>1. /\ \/ tun' = [tun EXCEPT !.pc = "select", !.cur = None]
           \/ tun' = [tun EXCEPT !.pc = "select", !.cur = None, !.msg = None]
        /\ UNCHANGED xp /\ tun.pc \in {"start", "forward"}
    BY <1>2 DEF TellTunnelUp, Forward
  <2>2. Keeps(tun', tun) /\ tun'.pc = "select" /\ tun'.ret = tun.ret
    BY <2>1 DEF Keeps, TunnelInv, TunnelType, TunnelField
  <2>3. Handling(tun, xp)
    BY <2>1 DEF TunnelInv, TunnelReleases
  <2> QED BY <2>1, <2>2, <2>3, MoveInv DEF Handling, TunnelType, TunnelPc
<1>3. ASSUME NEW x \in Sender, Accept(x) PROVE TunnelInv'
  <2>1. CASE x = Tunnel
    <3>1. /\ tun' = [tun EXCEPT !.pc = "sent"] /\ UNCHANGED xp
          /\ tun.pc = "send" /\ xp = "up"
      BY <1>3, <2>1 DEF Accept, pcOf
    <3>2. Keeps(tun', tun) /\ tun'.pc = "sent" /\ tun'.ret = tun.ret /\ tun'.msg = tun.msg
      BY <3>1 DEF Keeps, TunnelInv, TunnelType, TunnelField
    <3>3. tun.isClosing = FALSE
      BY <3>1 DEF Handling, TunnelInv, TunnelType, TunnelReleases
    <3> QED BY <3>1, <3>2, <3>3
            DEF Keeps, Handling, TunnelInv, TunnelType, TunnelReleases, TunnelPc
  <2>2. CASE x # Tunnel
    BY <1>3, <2>2 DEF Accept, TunnelInv
  <2> QED BY <2>1, <2>2
<1>4. CASE CloseTunnel
  <2>1. tun' = [tun EXCEPT !.closeChan = TRUE] /\ UNCHANGED xp
    BY <1>4 DEF CloseTunnel
  <2>2. Keeps(tun', tun) /\ tun'.pc = tun.pc /\ tun'.ret = tun.ret /\ tun'.msg = tun.msg
    BY <2>1 DEF Keeps, TunnelInv, TunnelType, TunnelField
  <2> QED BY <2>1, <2>2 DEF Keeps, Handling, TunnelInv, TunnelType, TunnelReleases
<1>5. CASE TransportFails
  <2>1. xp = "up" /\ xp' = "down" /\ UNCHANGED tun
    BY <1>5 DEF TransportFails
  <2> QED BY <2>1 DEF Handling, TunnelInv, TunnelType, TunnelReleases
<1>6. ASSUME NEW s \in Session, TellTunnelUp(s) PROVE tun.pc \in {"notify", "start"}
  BY <1>6 DEF TellTunnelUp
<1> QED BY <1>1, <1>2, <1>3, <1>4, <1>5, <1>6

\* All other steps leave the tunnel and its transport alone.
LEMMA OtherSteps ==
    ASSUME TunnelInv,
           \/ \E s \in Session : \/ SeeKill(s) \/ SeeSessionClose(s) \/ TakeSend(s)
                                 \/ DrainSend(s) \/ Answered(s) \/ CreateDp(s)
                                 \/ GetInterfaceName(s) \/ ReportClosed(s)
                                 \/ NewSession(s) \/ CloseSession(s)
                                 \/ \E err \in BOOLEAN : SessionSent(s, err)
           \/ \E x \in Sender : SendOnClosed(x)
           \/ \E m \in PeerMsg : PeerSends(m)
           \/ UNCHANGED vars
    PROVE  TunnelInv'
<1>1. UNCHANGED <<tun, xp>>
  BY DEF SeeKill, SeeSessionClose, TakeSend, DrainSend, Answered, CreateDp, GetInterfaceName,
         ReportClosed, NewSession, CloseSession, SessionSent, SendOnClosed, PeerSends, vars
<1> QED BY <1>1 DEF TunnelInv

\* TunnelInv is inductive.
LEMMA TunnelInvariant == Spec => []TunnelInv
<1>1. Init => TunnelInv
  <2> SUFFICES ASSUME Init PROVE TunnelInv
    OBVIOUS
  <2>1. tun = newDynamicTunnel
    BY DEF Init
  <2>2. /\ DOMAIN tun = TunnelField /\ tun.pc = "open" /\ tun.ret = "select"
        /\ tun.isClosing = FALSE /\ tun.established = FALSE /\ tun.ev = "none"
    BY <2>1 DEF newDynamicTunnel, TunnelField
  <2> QED BY <2>2 DEF TunnelInv, TunnelType, TunnelReleases, Handling, TunnelPc
<1>2. TunnelInv /\ [Next]_vars => TunnelInv'
  <2> SUFFICES ASSUME TunnelInv, [Next]_vars PROVE TunnelInv'
    OBVIOUS
  <2>1. CASE tunnelStep
    BY <2>1, EventSteps, SentStep, RestSteps DEF tunnelStep
  <2>2. ASSUME NEW s \in Session, sessionStep(s) PROVE TunnelInv'
    BY <2>2, EventSteps, RestSteps, MeetingSteps, OtherSteps DEF sessionStep
  <2>3. ASSUME NEW x \in Sender, Accept(x) \/ SendOnClosed(x) PROVE TunnelInv'
    BY <2>3, MeetingSteps, OtherSteps
  <2>4. CASE Environment
    BY <2>4, MeetingSteps, OtherSteps DEF Environment
  <2>5. CASE UNCHANGED vars
    BY <2>5, OtherSteps
  <2> QED BY <2>1, <2>2, <2>3, <2>4, <2>5 DEF Next, Goroutines
<1> QED BY <1>1, <1>2, PTL DEF Spec

\* Whatever ends the tunnel's goroutine (Close(), StopCCN of either side, a
\* failing transport or data plane, a message that does not validate), it has
\* taken its data plane down, closed its transport and reported TunnelDownEvent
\* if it had reported TunnelUpEvent.
THEOREM TunnelReleasesAll == Spec => []ReleasedAtExit
<1>1. TunnelInv => ReleasedAtExit
  BY DEF TunnelInv, TunnelReleases, Handling, ReleasedAtExit
<1> QED BY <1>1, TunnelInvariant, PTL
=============================================================================
