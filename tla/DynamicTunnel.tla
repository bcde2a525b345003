--------------------------- MODULE DynamicTunnel ----------------------------
(***************************************************************************)
(* A dynamic tunnel and the sessions in it: the goroutine of the tunnel,   *)
(* one goroutine per session, the goroutine the tunnel starts for every    *)
(* message a session sends, and the calls of the application.  They meet   *)
(* over unbuffered channels.  The transport below is reduced to what       *)
(* module Transport shows of it: a send() it has accepted is completed,    *)
(* acked or with an error, it hands messages over one at a time, and once  *)
(* it has failed nobody accepts a send() any more.                         *)
(***************************************************************************)
EXTENDS Naturals, FiniteSets, Fsm

CONSTANTS
    Session,      \* session instances
    Tunnel,       \* the tunnel, as the caller of the transport's send()
    None,         \* no session, no message
    nameOf, idOf, \* the name and the ID each session instance is created with
    PeerMsg,      \* messages the peer may send: [type, sid, ok]
    MaxSaid,      \* bound: how often the peer sends a message that is not odd
    MaxOdd,       \* bound: odd messages it sends, repetitions included
    Polite,       \* TRUE if the peer only answers what it has heard
    Failing,      \* "never", "stalled" or "any": when the transport may fail
    TunnelDp,     \* outcomes of creating the tunnel's data plane: "ok", "fail"
    SessionDp,    \* and a session's: "ok", "fail", "noname" (no interface name)
    Closers,      \* what the application may close: sessions and the tunnel
    MaxClosed     \* bound: sessions it closes

Sender == Session \cup {Tunnel}
SessionMsgType == {"icrq", "icrp", "iccn", "cdn"}

ASSUME NamesAssumption == Tunnel \notin Session /\ None \notin Sender

VARIABLES
    tun,      \* the tunnel and where its goroutine is
    ses,      \* ses[s]: a session, where its goroutine and its calls are
    byName,   \* baseTunnel.sessionsByName
    byID,     \* baseTunnel.sessionsByID
    xp,       \* the transport: "up", "down" (failed) or "closed" (by close())
    inbox,    \* the message the transport's receiver offers on recvChan
    peer,     \* what the peer has heard and said
    panic     \* "none", or why the program has panicked

vars == <<tun, ses, byName, byID, xp, inbox, peer, panic>>
registry == <<byName, byID>>
-----------------------------------------------------------------------------
\* dynamicTunnel.fsm
tunnelTable == <<
    row("idle", {"open"}, "sendSccrq", "waitctlreply"),
    row("waitctlreply", {"sccrp"}, "onSccrp", "established"),
    row("waitctlreply", {"stopccn"}, "onStopccn", "dead"),
    row("waitctlreply", {"newsession"}, "linkSession", "waitctlreply"),
    row("waitctlreply", {"sessionmsg"}, "nil", "waitctlreply"),
    row("waitctlreply", {"sccrq", "scccn", "close"}, "sendStopccn", "dead"),
    row("established", {"stopccn"}, "onStopccn", "dead"),
    row("established", {"newsession"}, "startSession", "established"),
    row("established", {"sessionmsg"}, "forward", "established"),
    row("established", {"sccrq", "sccrp", "scccn", "close"}, "sendStopccn", "dead")>>

\* dynamicSession.fsm
sessionTable == <<
    row("waittunnel", {"tunnelopen"}, "sendIcrq", "waitreply"),
    row("waittunnel", {"close"}, "fsmActClose", "dead"),
    row("waitreply", {"icrp"}, "onIcrp", "established"),
    row("waitreply", {"iccn"}, "fsmActClose", "dead"),
    row("waitreply", {"cdn"}, "onCdn", "dead"),
    row("waitreply", {"icrq", "close"}, "sendCdn", "dead"),
    row("established", {"cdn"}, "onCdn", "dead"),
    row("established", {"icrq", "icrp", "iccn", "close"}, "sendCdn", "dead")>>

newDynamicTunnel ==
    [pc |-> "open", fsm |-> "idle", msg |-> None, todo |-> {}, cur |-> None,
     ret |-> "select", bad |-> None, isClosing |-> FALSE, established |-> FALSE, dp |-> "none",
     ev |-> "none", closeChan |-> FALSE]

\* pc "none" before newDynamicSession; call is where NewSession(s) is.
newDynamicSession ==
    [pc |-> "none", fsm |-> "waittunnel", msg |-> None, call |-> "no",
     isClosed |-> FALSE, established |-> FALSE, dp |-> "none", ev |-> "none",
     closeChan |-> FALSE, killChan |-> FALSE]

Init ==
    /\ tun = newDynamicTunnel
    /\ ses = [s \in Session |-> newDynamicSession]
    /\ byName = [n \in {nameOf[s] : s \in Session} |-> None]
    /\ byID = [i \in {idOf[s] : s \in Session} |-> None]
    /\ xp = "up"
    /\ inbox = None
    /\ peer = [heard |-> {}, said |-> [m \in PeerMsg |-> 0]]
    /\ panic = "none"
-----------------------------------------------------------------------------
(* The registry of sessions.                                               *)

allSessions == {byName[n] : n \in DOMAIN byName} \ {None}

linkSession(s) ==
    /\ byName' = [byName EXCEPT ![nameOf[s]] = s]
    /\ byID' = [byID EXCEPT ![idOf[s]] = s]

\* delete() by key, whoever is stored there
unlinked(map, keys) == [k \in DOMAIN map |-> IF k \in keys THEN None ELSE map[k]]

unlinkSessions(S) ==
    /\ byName' = unlinked(byName, {nameOf[s] : s \in S})
    /\ byID' = unlinked(byID, {idOf[s] : s \in S})
-----------------------------------------------------------------------------
(* The transport's send(), called by the tunnel goroutine or by the        *)
(* goroutine that sends a session's message.  Its caller is at "send"      *)
(* until the transport's sender has taken the message, then at "sent".     *)

pcOf(x) == IF x = Tunnel THEN tun.pc ELSE ses[x].pc
msgOf(x) == IF x = Tunnel THEN tun.msg ELSE ses[x].msg

\* What a peer answers.
answerable == ({Tunnel} \X {"sccrq", "scccn"}) \cup (Session \X {"icrq"})

Accept(x) ==
    /\ pcOf(x) = "send"
    /\ xp = "up"
    /\ tun' = IF x = Tunnel THEN [tun EXCEPT !.pc = "sent"] ELSE tun
    /\ ses' = [s \in Session |-> IF s = x THEN [ses[s] EXCEPT !.pc = "sent"] ELSE ses[s]]
    /\ peer' = [peer EXCEPT !.heard = @ \cup ({<<x, msgOf(x)>>} \cap answerable)]
    /\ UNCHANGED <<registry, xp, inbox, panic>>

\* A send on sendChan after close() of the transport panics.
SendOnClosed(x) ==
    /\ pcOf(x) = "send"
    /\ xp = "closed"
    /\ panic' = "send on closed channel"
    /\ UNCHANGED <<tun, ses, registry, xp, inbox, peer>>

\* An accepted send() can return.  An ack is seen only while the receiver is
\* not blocked on recvChan; a failure is seen by every accepted message.
completes(err) == IF err THEN xp # "up" ELSE xp = "up" /\ inbox = None

\* The transport fails: retries run out or the socket fails.  "stalled" is
\* only the first, for a message whose ack the receiver cannot read because it
\* is blocked on recvChan while the tunnel sends or closes; by the time the
\* retries run out every other send() has been accepted.
TransportFails ==
    /\ xp = "up"
    /\ \/ Failing = "any"
       \/ /\ Failing = "stalled" /\ inbox # None /\ tun.pc \in {"sent", "drain", "kill"}
          /\ \E x \in Sender : pcOf(x) = "sent"
          /\ \A x \in Sender : pcOf(x) # "send"
    /\ xp' = "down"
    /\ inbox' = None
    /\ UNCHANGED <<tun, ses, registry, peer, panic>>

\* What a peer must have heard before it sends m.
answers(m) ==
    CASE m.type \in {"sccrp", "stopccn"} -> {<<Tunnel, "sccrq">>}
      [] m.type \in SessionMsgType -> {<<s, "icrq">> : s \in {z \in Session : idOf[z] = m.sid}}
      [] OTHER -> {<<Tunnel, "scccn">>}

\* Messages that do not help to bring the tunnel or a session up.
odd(m) == ~(m.ok /\ (m.type = "sccrp" \/ (m.type = "icrp" /\ m.sid # None)))

\* The frame that carries an answer also acks what it answers, and its ack is
\* processed before the message is offered on recvChan.
PeerSends(m) ==
    /\ xp = "up"
    /\ inbox = None
    /\ peer.said[m] < (IF odd(m) THEN 1 ELSE MaxSaid)
    /\ LET said == [peer.said EXCEPT ![m] = @ + 1]
       IN  Cardinality({n \in PeerMsg : said[n] > (IF odd(n) THEN 0 ELSE 1)}) <= MaxOdd
    /\ Polite => \E a \in answers(m) \cap peer.heard : ~(pcOf(a[1]) = "sent" /\ msgOf(a[1]) = a[2])
    /\ inbox' = m
    /\ peer' = [peer EXCEPT !.said[m] = @ + 1]
    /\ UNCHANGED <<tun, ses, registry, xp, panic>>
-----------------------------------------------------------------------------
(* The tunnel goroutine.  r is the tunnel record as the handler has        *)
(* changed it so far, ret where the goroutine goes after the handler.      *)

goes(r) == tun' = r /\ UNCHANGED registry

\* A variant that takes the data plane down before the sessions.
fsmActCloseDpFirst(r, ret) ==
    goes(IF r.isClosing
         THEN [r EXCEPT !.pc = ret]
         ELSE [r EXCEPT !.pc = "drain", !.isClosing = TRUE, !.ret = ret, !.cur = None,
                        !.dp = IF @ = "up" THEN "down" ELSE @])

\* fsmActClose up to the start of the goroutine that drains sendChan.
fsmActClose(r, ret) ==
    goes(IF r.isClosing
         THEN [r EXCEPT !.pc = ret]
         ELSE [r EXCEPT !.pc = "drain", !.isClosing = TRUE, !.ret = ret, !.cur = None])

sendMsg(r, m, ret) == goes([r EXCEPT !.pc = "send", !.msg = m, !.ret = ret])

\* findSessionByID and the blocking write to msgRxChan
fsmActForwardSessionMsg(r, m) ==
    IF m.sid \in DOMAIN byID /\ byID[m.sid] # None
    THEN goes([r EXCEPT !.pc = "forward", !.cur = byID[m.sid], !.msg = m])
    ELSE goes([r EXCEPT !.pc = "select"])

\* The callbacks; arg is the message or the session of the event.
tunnelCallback(cb, r, arg, ret) ==
    \/ cb = "error" /\ fsmActClose(r, ret)
    \/ cb = "nil" /\ goes([r EXCEPT !.pc = ret])
    \/ cb = "sendSccrq" /\ sendMsg(r, "sccrq", ret)
    \/ cb = "onSccrp" /\ sendMsg(r, "scccn", ret)
    \/ cb = "sendStopccn" /\ sendMsg(r, "stopccn", ret)
    \/ cb = "onStopccn" /\ goes([r EXCEPT !.pc = "stopccn", !.ret = ret])
    \/ cb = "linkSession" /\ linkSession(arg) /\ tun' = [r EXCEPT !.pc = ret]
    \/ cb = "startSession" /\ linkSession(arg)
                           /\ tun' = [r EXCEPT !.pc = "start", !.cur = arg]
    \/ cb = "forward" /\ fsmActForwardSessionMsg(r, arg)

\* A variant that starts a new session before the tunnel is established.
tunnelEventStartsEarly(e, r, arg, ret) ==
    LET t == handleEvent(tunnelTable, r.fsm, e)
        cb == IF t.cb = "linkSession" THEN "startSession" ELSE t.cb
    IN  tunnelCallback(cb, [r EXCEPT !.fsm = t.to], arg, ret)

tunnelEvent(e, r, arg, ret) ==
    LET t == handleEvent(tunnelTable, r.fsm, e)
    IN  tunnelCallback(t.cb, [r EXCEPT !.fsm = t.to], arg, ret)

\* runTunnel before its loop
Open ==
    /\ tun.pc = "open"
    /\ tunnelEvent("open", tun, None, "select")
    /\ UNCHANGED <<ses, xp, inbox, peer, panic>>

\* case <-dt.closeChan
SeeClose ==
    /\ tun.pc = "select"
    /\ tun.closeChan
    /\ tunnelEvent("close", tun, None, "exit")
    /\ UNCHANGED <<ses, xp, inbox, peer, panic>>

\* A variant that returns without fsmActClose.
SeeTransportDownReturns ==
    /\ tun.pc = "select"
    /\ xp # "up"
    /\ goes([tun EXCEPT !.pc = "exit"])
    /\ UNCHANGED <<ses, xp, inbox, peer, panic>>

\* case <-dt.xport.recvChan, which is closed once the transport is down
SeeTransportDown ==
    /\ tun.pc = "select"
    /\ xp # "up"
    /\ fsmActClose(tun, "exit")
    /\ UNCHANGED <<ses, xp, inbox, peer, panic>>

\* eventMap of handleV2Msg; "" is not handled at all
eventOf(m) ==
    CASE m.type \in {"sccrq", "sccrp", "scccn", "stopccn"} -> m.type
      [] m.type \in SessionMsgType -> "sessionmsg"
      [] m.type = "hello" -> ""
      [] OTHER -> "close"

msgEvent(m, r) ==
    IF eventOf(m) = "" THEN goes([r EXCEPT !.pc = "select"])
                       ELSE tunnelEvent(eventOf(m), r, m, "select")

\* handleMsg: a message for another tunnel ("foreign") is dropped, one that
\* does not validate drives the "close" event, after which its own event is
\* handled all the same ("again").
TakeMsg ==
    /\ tun.pc = "select"
    /\ inbox # None
    /\ inbox' = None
    /\ \/ inbox.type = "foreign" /\ goes(tun)
       \/ inbox.type # "foreign" /\ inbox.ok /\ msgEvent(inbox, tun)
       \/ /\ inbox.type # "foreign" /\ ~inbox.ok
          /\ tunnelEvent("close", [tun EXCEPT !.bad = inbox], None, "again")
    /\ UNCHANGED <<ses, xp, peer, panic>>

BadMsgAgain ==
    /\ tun.pc = "again"
    /\ msgEvent(tun.bad, [tun EXCEPT !.bad = None])
    /\ UNCHANGED <<ses, xp, inbox, peer, panic>>

\* A variant that forgets the sessions that wait for the tunnel.
establishAlone ==
    \E d \in TunnelDp :
       IF d = "ok"
       THEN goes([tun EXCEPT !.pc = "notify", !.dp = "up", !.todo = {}])
       ELSE tunnelEvent("close", tun, None, tun.ret)

\* fsmActOnSccrp after SCCCN: the data plane, then the sessions to be told
establish ==
    \E d \in TunnelDp :
       IF d = "ok"
       THEN goes([tun EXCEPT !.pc = "notify", !.dp = "up", !.todo = allSessions])
       ELSE tunnelEvent("close", tun, None, tun.ret)

\* xport.send() of the tunnel returns.
TunnelSent(err) ==
    /\ tun.pc = "sent"
    /\ completes(err)
    /\ \/ (err \/ tun.msg = "stopccn") /\ fsmActClose(tun, tun.ret)
       \/ ~err /\ tun.msg = "sccrq" /\ goes([tun EXCEPT !.pc = tun.ret])
       \/ ~err /\ tun.msg = "scccn" /\ establish
    /\ UNCHANGED <<ses, xp, inbox, peer, panic>>

\* fsmActOnSccrp after the last session has been told
ReportUp ==
    /\ tun.pc = "notify"
    /\ tun.todo = {}
    /\ tun' = [tun EXCEPT !.pc = tun.ret, !.established = TRUE, !.ev = "up"]
    /\ UNCHANGED <<ses, registry, xp, inbox, peer, panic>>

\* fsmActOnStopccn: messages are drained until the timeout.  Once recvChan is
\* closed the loop spins, which changes nothing.
StopccnDrain ==
    /\ tun.pc = "stopccn"
    /\ inbox # None
    /\ inbox' = None
    /\ UNCHANGED <<tun, ses, registry, xp, peer, panic>>

StopccnTimeout ==
    /\ tun.pc = "stopccn"
    /\ fsmActClose(tun, tun.ret)
    /\ UNCHANGED <<ses, xp, inbox, peer, panic>>

\* closeAllSessions takes the sessions out of the registry under its lock.  By
\* then the draining goroutine runs, and a session it has answered may have
\* unlinked itself.
TakeSessions ==
    /\ tun.pc = "drain"
    /\ tun' = [tun EXCEPT !.pc = "kill", !.todo = allSessions]
    /\ unlinkSessions(allSessions)
    /\ UNCHANGED <<ses, xp, inbox, peer, panic>>

\* A variant that closes the transport while sessions still send.
KillTransportFirst(s) ==
    /\ tun.pc = "kill"
    /\ tun.cur = None
    /\ s \in tun.todo
    /\ tun' = [tun EXCEPT !.todo = @ \ {s}, !.cur = s]
    /\ ses' = [ses EXCEPT ![s].killChan = TRUE]
    /\ unlinkSessions({s})
    /\ xp' = "closed"
    /\ UNCHANGED <<inbox, peer, panic>>

\* closeAllSessions: kill() unlinks the session, closes its killChan and
\* waits for its goroutine before the next one is killed.
Kill(s) ==
    /\ tun.pc = "kill"
    /\ tun.cur = None
    /\ s \in tun.todo
    /\ tun' = [tun EXCEPT !.todo = @ \ {s}, !.cur = s]
    /\ ses' = [ses EXCEPT ![s].killChan = TRUE]
    /\ unlinkSessions({s})
    /\ UNCHANGED <<xp, inbox, peer, panic>>

\* A variant of kill() that does not wait.
KilledUnwaited ==
    /\ tun.pc = "kill"
    /\ tun.cur # None
    /\ tun' = [tun EXCEPT !.cur = None]
    /\ UNCHANGED <<ses, registry, xp, inbox, peer, panic>>

Killed ==
    /\ tun.pc = "kill"
    /\ tun.cur # None
    /\ ses[tun.cur].pc = "exit"
    /\ tun' = [tun EXCEPT !.cur = None]
    /\ UNCHANGED <<ses, registry, xp, inbox, peer, panic>>

\* sessionTxWg.Wait() returns, the draining goroutine ends and the data plane
\* is taken down.
CloseDp ==
    /\ tun.pc = "kill"
    /\ tun.cur = None
    /\ tun.todo = {}
    /\ \A s \in Session : ses[s].pc \notin {"send", "sent"}
    /\ tun' = [tun EXCEPT !.pc = "xport", !.msg = None, !.dp = IF @ = "up" THEN "down" ELSE @]
    /\ UNCHANGED <<ses, registry, xp, inbox, peer, panic>>

\* The rest of fsmActClose: xport.close(), which fails what is pending and
\* waits for the transport's goroutines, and TunnelDownEvent.
CloseRest ==
    /\ tun.pc = "xport"
    /\ tun' = [tun EXCEPT !.pc = tun.ret, !.established = FALSE,
                          !.ev = IF tun.established THEN "down" ELSE @]
    /\ xp' = "closed"
    /\ inbox' = None
    /\ UNCHANGED <<ses, registry, peer, panic>>
-----------------------------------------------------------------------------
(* A session goroutine.  r is the session record as its handler has        *)
(* changed it so far.                                                      *)

\* The loop of runSession goes on unless the session is closed.
resume(r) == [r EXCEPT !.pc = IF r.isClosed THEN "exit" ELSE "select", !.msg = None]

\* A variant that takes the session out of service first and then looks.
closedUntold(r) ==
    [r EXCEPT !.dp = IF @ = "up" THEN "down" ELSE @, !.established = FALSE, !.isClosed = TRUE]

\* dynamicSession.fsmActClose
closed(r) ==
    [r EXCEPT !.dp = IF @ = "up" THEN "down" ELSE @, !.established = FALSE,
              !.ev = IF r.established THEN "down" ELSE @, !.isClosed = TRUE]

sessionGoes(s, r) == ses' = [ses EXCEPT ![s] = r]

sendSessionMsg(s, r, m) ==
    sessionGoes(s, [r EXCEPT !.pc = "queue", !.msg = m]) /\ UNCHANGED registry

closeSession(s, r) == sessionGoes(s, resume(closed(r))) /\ unlinkSessions({s})

sessionCallback(cb, s, r) ==
    \/ cb \in {"error", "fsmActClose", "onCdn"} /\ closeSession(s, r)
    \/ cb = "sendIcrq" /\ sendSessionMsg(s, r, "icrq")
    \/ cb = "onIcrp" /\ sendSessionMsg(s, r, "iccn")
    \/ cb = "sendCdn" /\ sendSessionMsg(s, r, "cdn")

sessionEvent(e, s) ==
    LET t == handleEvent(sessionTable, ses[s].fsm, e)
    IN  sessionCallback(t.cb, s, [ses[s] EXCEPT !.fsm = t.to])

\* case of eventChan: onTunnelUp() of fsmActOnSccrp ("notify") or of
\* fsmActStartSession ("start")
TellTunnelUp(s) ==
    /\ ses[s].pc = "select"
    /\ \/ tun.pc = "notify" /\ s \in tun.todo /\ tun' = [tun EXCEPT !.todo = @ \ {s}]
       \/ tun.pc = "start" /\ s = tun.cur
                           /\ tun' = [tun EXCEPT !.pc = "select", !.cur = None]
    /\ sessionEvent("tunnelopen", s)
    /\ UNCHANGED <<xp, inbox, peer, panic>>

\* case of msgRxChan; a message that did not validate would drive "close"
Forward(s) ==
    /\ tun.pc = "forward"
    /\ s = tun.cur
    /\ ses[s].pc = "select"
    /\ tun' = [tun EXCEPT !.pc = "select", !.cur = None, !.msg = None]
    /\ sessionEvent(IF tun.msg.ok THEN tun.msg.type ELSE "close", s)
    /\ UNCHANGED <<xp, inbox, peer, panic>>

\* case <-ds.killChan
SeeKill(s) ==
    /\ ses[s].pc = "select"
    /\ ses[s].killChan
    /\ closeSession(s, ses[s])
    /\ UNCHANGED <<tun, xp, inbox, peer, panic>>

\* case <-ds.closeChan
SeeSessionClose(s) ==
    /\ ses[s].pc = "select"
    /\ ses[s].closeChan
    /\ sessionEvent("close", s)
    /\ UNCHANGED <<tun, xp, inbox, peer, panic>>

\* case of dt.sendChan in runTunnel: a goroutine calls xport.send()
TakeSend(s) ==
    /\ tun.pc = "select"
    /\ ses[s].pc = "queue"
    /\ ses' = [ses EXCEPT ![s].pc = "send"]
    /\ UNCHANGED <<tun, registry, xp, inbox, peer, panic>>

\* The goroutine that called xport.send() hands its result over and is gone.
SessionSent(s, err) ==
    /\ ses[s].pc = "sent"
    /\ completes(err)
    /\ ses' = [ses EXCEPT ![s].pc = IF err THEN "failed" ELSE "acked"]
    /\ UNCHANGED <<tun, registry, xp, inbox, peer, panic>>

\* A variant that takes the message and never answers.
DrainSendUnanswered(s) ==
    /\ tun.pc \in {"drain", "kill"}
    /\ ses[s].pc = "queue"
    /\ ses' = [ses EXCEPT ![s].pc = "unanswered"]
    /\ UNCHANGED <<tun, registry, xp, inbox, peer, panic>>

\* The goroutine closeAllSessions starts answers "tunnel is shutting down".
DrainSend(s) ==
    /\ tun.pc \in {"drain", "kill"}
    /\ ses[s].pc = "queue"
    /\ ses' = [ses EXCEPT ![s].pc = "failed"]
    /\ UNCHANGED <<tun, registry, xp, inbox, peer, panic>>

\* sendMessage() of the session returns: fsmActClose if sending failed and
\* after a CDN.  After ICCN fsmActOnIcrp goes on whatever the answer.
Answered(s) ==
    LET err == ses[s].pc = "failed"
        r == IF err \/ ses[s].msg = "cdn" THEN closed(ses[s]) ELSE ses[s]
    IN  /\ ses[s].pc \in {"acked", "failed"}
        /\ sessionGoes(s, IF r.msg = "iccn" THEN [r EXCEPT !.pc = "dataplane"] ELSE resume(r))
        /\ IF r.isClosed THEN unlinkSessions({s}) ELSE UNCHANGED registry
        /\ UNCHANGED <<tun, xp, inbox, peer, panic>>

\* fsmActOnIcrp calls dp.NewSession().  If that fails it closes the session and
\* goes on to use the data plane it has not got.
CreateDp(s) ==
    /\ ses[s].pc = "dataplane"
    /\ \/ /\ SessionDp # {"fail"}
          /\ sessionGoes(s, [ses[s] EXCEPT !.pc = "ifname", !.dp = "up"])
          /\ UNCHANGED <<registry, panic>>
       \/ /\ "fail" \in SessionDp
          /\ closeSession(s, ses[s])
          /\ panic' = "nil data plane"
    /\ UNCHANGED <<tun, xp, inbox, peer>>

\* The end of fsmActOnIcrp: SessionUpEvent.
isUp(r) == resume([r EXCEPT !.established = TRUE, !.ev = "up"])

\* ds.dp.GetInterfaceName().  If it fails the session is closed, and the
\* handler goes on.
GetInterfaceName(s) ==
    /\ ses[s].pc = "ifname"
    /\ \/ /\ "ok" \in SessionDp
          /\ sessionGoes(s, isUp(ses[s]))
          /\ UNCHANGED registry
       \/ /\ "noname" \in SessionDp
          /\ sessionGoes(s, [closed(ses[s]) EXCEPT !.pc = "report"])
          /\ unlinkSessions({s})
    /\ UNCHANGED <<tun, xp, inbox, peer, panic>>

ReportClosed(s) ==
    /\ ses[s].pc = "report"
    /\ sessionGoes(s, isUp(ses[s]))
    /\ UNCHANGED <<tun, registry, xp, inbox, peer, panic>>
-----------------------------------------------------------------------------
(* The application.                                                        *)

\* NewSession up to injectEvent: neither name nor ID may be in use, and the
\* goroutine of the session is started.
NewSession(s) ==
    /\ ses[s].call = "no"
    /\ byName[nameOf[s]] = None
    /\ byID[idOf[s]] = None
    /\ ses' = [ses EXCEPT ![s].call = "inject", ![s].pc = "select"]
    /\ UNCHANGED <<tun, registry, xp, inbox, peer, panic>>

\* case of eventChan in runTunnel; NewSession returns
TakeNewSession(s) ==
    /\ tun.pc = "select"
    /\ ses[s].call = "inject"
    /\ ses' = [ses EXCEPT ![s].call = "done"]
    /\ tunnelEvent("newsession", tun, s, "select")
    /\ UNCHANGED <<xp, inbox, peer, panic>>

\* dynamicSession.Close() up to wg.Wait()
CloseSession(s) ==
    /\ s \in Closers /\ Cardinality({z \in Session : ses[z].closeChan}) < MaxClosed
    /\ ses[s].call = "done"
    /\ ~ses[s].closeChan
    /\ ses' = [ses EXCEPT ![s].closeChan = TRUE]
    /\ unlinkSessions({s})
    /\ UNCHANGED <<tun, xp, inbox, peer, panic>>

\* dynamicTunnel.Close() up to wg.Wait()
CloseTunnel ==
    /\ Tunnel \in Closers
    /\ ~tun.closeChan
    /\ tun' = [tun EXCEPT !.closeChan = TRUE]
    /\ UNCHANGED <<ses, registry, xp, inbox, peer, panic>>
-----------------------------------------------------------------------------
tunnelStep ==
    \/ Open \/ SeeClose \/ SeeTransportDown \/ TakeMsg \/ BadMsgAgain
    \/ ReportUp \/ StopccnDrain \/ StopccnTimeout
    \/ TakeSessions \/ Killed \/ CloseDp \/ CloseRest
    \/ \E err \in BOOLEAN : TunnelSent(err)

sessionStep(s) ==
    \/ Kill(s) \/ TellTunnelUp(s) \/ Forward(s) \/ SeeKill(s) \/ SeeSessionClose(s)
    \/ TakeSend(s) \/ DrainSend(s) \/ Answered(s) \/ CreateDp(s) \/ GetInterfaceName(s)
    \/ ReportClosed(s) \/ TakeNewSession(s)
    \/ \E err \in BOOLEAN : SessionSent(s, err)

Goroutines ==
    /\ panic = "none"
    /\ \/ tunnelStep
       \/ \E s \in Session : sessionStep(s)
       \/ \E x \in Sender : Accept(x) \/ SendOnClosed(x)

Environment ==
    /\ panic = "none"
    /\ \/ CloseTunnel \/ TransportFails
       \/ \E m \in PeerMsg : PeerSends(m)
       \/ \E s \in Session : NewSession(s) \/ CloseSession(s)

Next == Goroutines \/ Environment

Spec == Init /\ [][Next]_vars

\* No goroutine that can go on stays where it is: the Go scheduler, the timer
\* of fsmActOnStopccn, and a transport that completes what it has accepted, if
\* need be by giving up.
RetriesRunOut == panic = "none" /\ Failing = "stalled" /\ TransportFails

FairSpec == Spec /\ WF_vars(Goroutines) /\ WF_vars(RetriesRunOut)
-----------------------------------------------------------------------------
(* Properties.                                                             *)

\* The state is well formed; the tunnel is only left at "notify", "start",
\* "forward" or "kill" with sessions that NewSession has created.
TypeOK ==
    /\ tun.pc \in {"open", "select", "send", "sent", "again", "notify", "start", "forward",
                   "stopccn", "drain", "kill", "xport", "exit"}
    /\ tun.fsm \in {"idle", "waitctlreply", "established", "dead"}
    /\ tun.todo \subseteq {s \in Session : ses[s].pc # "none"}
    /\ tun.cur \in {None} \cup {s \in Session : ses[s].pc # "none"}
    /\ tun.ret \in {"select", "again", "exit"}
    /\ \A s \in Session :
          /\ ses[s].pc \in {"none", "select", "queue", "send", "sent", "acked", "failed",
                            "dataplane", "ifname", "report", "exit"}
          /\ ses[s].fsm \in {"waittunnel", "waitreply", "established", "dead"}
          /\ ses[s].call \in {"no", "inject", "done"}
    /\ \A n \in DOMAIN byName : byName[n] \in Session \cup {None}
    /\ \A i \in DOMAIN byID : byID[i] \in Session \cup {None}
    /\ xp \in {"up", "down", "closed"}
    /\ inbox \in PeerMsg \cup {None}

\* Whichever way the tunnel goroutine ends, fsmActClose has released what the
\* tunnel holds, its data plane and its transport, and the application that saw
\* TunnelUpEvent has seen TunnelDownEvent.
ReleasedAtExit ==
    tun.pc = "exit" =>
        /\ tun.isClosing
        /\ tun.dp # "up"
        /\ xp = "closed"
        /\ tun.ev # "up"

\* A session is told once that the tunnel is open.  Told again (once from
\* fsmActStartSession and once from the loop of fsmActOnSccrp) it would have no
\* transition for "tunnelopen" and close itself.
ToldOnce ==
    \A s \in Session :
        \/ tun.pc = "notify" /\ s \in tun.todo
        \/ tun.pc = "start" /\ s = tun.cur
        => ses[s].fsm \in {"waittunnel", "dead"}

\* A message that does not validate never reaches a session although
\* handleV2Msg goes on to handle its event: by then the FSM is dead.
InvalidNeverForwarded == tun.pc = "forward" => tun.msg.ok

\* The data plane of a session is created while the tunnel's exists, as
\* nll2tp.CreateSession requires, unless the session is out of the registry: the
\* application has closed it, or its ICCN could not be sent and fsmActOnIcrp goes
\* on.  fsmActClose does not find these and does not wait for them; it waits for
\* every other one, wherever its handler is.
SessionDpInsideTunnelDp ==
    [][\A s \in Session :
          ses[s].dp # "up" /\ ses'[s].dp = "up" =>
              tun.dp = "up" \/ ses[s].closeChan \/ ses[s].isClosed]_vars

\* A session that has run fsmActClose without a SessionDownEvent.
gaveUp(s) == ses[s].isClosed /\ ses[s].ev # "down"

\* The up and down events the application sees (module TunnelEvents).
Events == INSTANCE TunnelEvents WITH
              tunnel <- tun.ev,
              session <- [s \in Session |-> ses[s].ev],
              gone <- {s \in Session : gaveUp(s)},
              appClosed <- {s \in Session : ses[s].closeChan}

ImplementsEvents == Events!Spec

\* What a session reports: up at most once, down only after up.  This holds
\* for sessions the application closes as well.
SessionEventOrder ==
    [][\A s \in Session :
          ses'[s].ev # ses[s].ev => <<ses[s].ev, ses'[s].ev>> \in {<<"none", "up">>, <<"up", "down">>}]_vars

\* When the tunnel has gone the application has been told that its sessions are
\* down.  The exceptions are those it closes itself and those whose fsmActClose
\* ran before they were established, inside the handler that then reports them
\* up (fsmActOnIcrp after ICCN or the interface name has failed).
LeftUpOnlyIfClosedBefore ==
    tun.pc = "exit" =>
        \A s \in Session : ses[s].ev = "up" =>
            (ses[s].isClosed /\ ses[s].established) \/ ses[s].closeChan

\* Close() of the tunnel returns (l2tp.go: "Close closes the tunnel, releasing
\* allocated resources."), if the program does not panic before.
CloseReturns == tun.closeChan ~> tun.pc = "exit" \/ panic # "none"

\* NewSession, which hands its event to the tunnel goroutine, returns unless that
\* goroutine has ended or the program panics: nothing else the tunnel waits for
\* holds it up for ever (injectEvent).
NewSessionWaitsOnlyForGone ==
    \A s \in Session : ses[s].call = "inject" ~>
        ses[s].call = "done" \/ tun.pc = "exit" \/ panic # "none"

\* As long as the transport does not fail and the application leaves the
\* sessions alone nothing is sent on a closed channel, in particular not by a
\* goroutine that runTunnel has started for a session.
NoPanic == panic = "none"

\* A session linked to a tunnel that is, or gets, established sends its ICRQ
\* unless the tunnel closes: neither the loop of fsmActOnSccrp nor
\* fsmActStartSession may miss it.
SessionStarts ==
    \A s \in Session :
        ses[s].call = "done" /\ tun.fsm = "established"
            ~> <<s, "icrq">> \in peer.heard \/ tun.isClosing

\* SCCRP establishes the tunnel or the tunnel closes; it never stays between.
TunnelSettles == tun.fsm = "established" ~> tun.established \/ tun.isClosing
-----------------------------------------------------------------------------
(* What the code's comments and documentation say beyond that.             *)

\* l2tp.go on Tunnel.Close(): "Any sessions instantiated inside the tunnel are
\* removed."  No session is reported up, without a down, once the tunnel is gone,
ClosedMeansDown == tun.pc = "exit" => \A s \in Session : ses[s].ev # "up"

\* nor does it come up after the tunnel has gone down.
UpBeforeTunnelDown ==
    [][\A s \in Session : ses[s].ev # "up" /\ ses'[s].ev = "up" => tun.ev = "up"]_vars

\* The same, for the goroutines of the sessions NewSession has returned.
ClosedMeansRemoved ==
    tun.pc = "exit" => \A s \in Session : ses[s].call = "done" => ses[s].pc = "exit"

\* l2tp_dynamic_tunnel.go on fsmActClose: "The tunnel goroutine will terminate
\* after this call completes": it does not go on to send a message.
TerminatesAfterClose == ~(xp = "closed" /\ tun.pc = "send")

\* l2tp.go on DataPlane.NewSession: "On successful return the dataplane should
\* be fully ready for use."  It is not used after an unsuccessful return.
FailedDpNotUsed == panic # "nil data plane"

\* l2tp.go on Tunnel.NewSession: "NewSession adds a session to a tunnel
\* instance."  It returns.
NewSessionReturns == \A s \in Session : ses[s].call = "inject" ~> ses[s].call = "done"
=============================================================================
