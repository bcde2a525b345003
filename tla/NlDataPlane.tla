---------------------------- MODULE NlDataPlane ----------------------------
(***************************************************************************)
(* The netlink data plane (l2tp/nl_dataplane.go) over the netlink          *)
(* connection it shares (internal/nll2tp).  Every caller owns one tunnel   *)
(* or session data plane instance; its calls turn into requests that the   *)
(* goroutine runConn hands to the kernel one at a time.  reqChan and       *)
(* rspChan are unbuffered and shared by all callers.                       *)
(*                                                                         *)
(* The kernel is external: what src/ relies on is that objects have unique *)
(* IDs, that a session needs its tunnel, that deleting a tunnel deletes    *)
(* its sessions, that a managed tunnel lives no longer than its socket,    *)
(* and that the last of two equal attributes counts.                       *)
(***************************************************************************)
EXTENDS Naturals, Sequences

CONSTANTS
  Caller,        \* tunnels and sessions, each with one data plane instance
  conf,          \* conf[c] is the configuration of tunnel or session c
  KernelRefuses, \* the kernel may refuse to create an object
  CloseEarly,    \* the connection may be closed while it is in use
  None

VARIABLES
  pc,            \* pc[c]: idle, or where c is in execute
  op,            \* op[c]: the call whose request c sent last
  dp,            \* dp[c]: c's data plane instance: none yet, up or released
  fd,            \* fd[c]: the socket of a managed tunnel: none yet, open or closed
  name,          \* name[c]: the cached interfaceName
  from,          \* from[c]: whose request the response c received answers
  srv,           \* runConn
  conn,          \* the connection: open, closing (reqChan closed) or closed
  tunnels,       \* the kernel's tunnels, by tunnel ID
  sessions       \* the kernel's sessions, as records

vars == <<pc, op, dp, fd, name, from, srv, conn, tunnels, sessions>>

(***************************************************************************)
(* Translation of configurations into attributes.  Durations are only zero *)
(* or not, and a cookie is a record of its length and its contents.        *)
(***************************************************************************)
noCookie == [len |-> 0, val |-> None]

tunnelValid(t) ==
  /\ t.tid # 0 /\ t.ptid # 0
  /\ t.version \in {2, 3} /\ t.encap \in {"udp", "ip"}
  /\ t.version = 2 => t.tid <= 65535 /\ t.ptid <= 65535 /\ t.encap = "udp"
  \* A static tunnel names both addresses, in one family, and its UDP ports.
  /\ ~t.managed => t.addresses \in {"inet", "inet6"}
  /\ ~t.managed /\ t.encap = "udp" => t.ports

sessionValid(s) ==
  /\ s.reorder = 0
  /\ s.tid # 0 /\ s.ptid # 0 /\ s.sid # 0 /\ s.psid # 0
  /\ s.pw # "none"
  /\ s.cookie.len \in {0, 4, 8} /\ s.peerCookie.len \in {0, 4, 8}
  /\ s.l2spec \in {"none", "default"}

\* The peer's cookie is sent under the attribute of the local one.
sessionCreateAttr(s) ==
  LET opt(present, a, v) == IF present THEN << <<a, v>> >> ELSE <<>>
  IN  << <<"connId", s.tid>>, <<"peerConnId", s.ptid>>,
         <<"sessionId", s.sid>>, <<"peerSessionId", s.psid>>,
         <<"pwType", IF s.pw = "ethVlan" THEN "eth" ELSE s.pw>> >>
      \o opt(s.seqNum, "sendSeq", 1) \o opt(s.seqNum, "recvSeq", 1)
      \o opt(s.cookie.len > 0, "cookie", s.cookie)
      \o opt(s.peerCookie.len > 0, "cookie", s.peerCookie)
      \o opt(s.ifName # "", "ifname", s.ifName)
      \o << <<"l2specType", s.l2spec>>,
            <<"l2specLen", IF s.l2spec = "none" THEN 0 ELSE 4>> >>

isTunnel(c) == conf[c].kind = "tunnel"

valid(c) == IF isTunnel(c) THEN tunnelValid(conf[c]) ELSE sessionValid(conf[c])

(***************************************************************************)
(* The kernel.                                                             *)
(***************************************************************************)
attribute(attr, a, default) ==
  LET is == {i \in DOMAIN attr : attr[i][1] = a}
  IN  IF is = {} THEN default ELSE attr[CHOOSE i \in is : \A j \in is : j <= i][2]

\* An Ethernet pseudowire gets a generated interface name unless one is given.
kernelSession(attr) ==
  LET pw == attribute(attr, "pwType", None)
  IN  [ tid |-> attribute(attr, "connId", 0), sid |-> attribute(attr, "sessionId", 0),
        psid |-> attribute(attr, "peerSessionId", 0), pw |-> pw,
        cookie |-> attribute(attr, "cookie", noCookie),
        peerCookie |-> attribute(attr, "peerCookie", noCookie),
        ifName |-> attribute(attr, "ifname", IF pw = "eth" THEN "l2tpeth0" ELSE "") ]

held(c) ==
  {s \in sessions : s.tid = conf[c].tid /\ s.sid = conf[c].sid}

inKernel(c) ==
  IF isTunnel(c) THEN conf[c].tid \in tunnels ELSE held(c) # {}

\* The outcome of c's request: whether it succeeds, and the new kernel state.
creates(c) ==
  IF isTunnel(c)
  THEN tunnels' = tunnels \union {conf[c].tid} /\ UNCHANGED sessions
  ELSE /\ sessions' = sessions \union {kernelSession(sessionCreateAttr(conf[c]))}
       /\ UNCHANGED tunnels

\* A variant that names the tunnel by its peer ID.
deletesByPeerID(c) ==
  IF isTunnel(c)
  THEN /\ tunnels' = tunnels \ {conf[c].ptid}
       /\ sessions' = {s \in sessions : s.tid # conf[c].ptid}
  ELSE sessions' = sessions \ held(c) /\ UNCHANGED tunnels

deletes(c) ==
  IF isTunnel(c)
  THEN /\ tunnels' = tunnels \ {conf[c].tid}
       /\ sessions' = {s \in sessions : s.tid # conf[c].tid}
  ELSE sessions' = sessions \ held(c) /\ UNCHANGED tunnels

kernelDoes(c, ok) ==
  LET possible == \/ op[c] = "create" /\ ~inKernel(c)
                     /\ (isTunnel(c) \/ conf[c].tid \in tunnels)
                  \/ op[c] # "create" /\ inKernel(c)
  IN  /\ ok => possible
      /\ possible /\ ~ok => op[c] = "create" /\ KernelRefuses
      /\ CASE ok /\ op[c] = "create" -> creates(c)
           [] ok /\ op[c] = "down" -> deletes(c)
           [] ~ok \/ op[c] \in {"stats", "name"} -> UNCHANGED <<tunnels, sessions>>

(***************************************************************************)
(* Calls of the data plane.                                                *)
(***************************************************************************)
\* A session is created through a tunnel that has, or had, its data plane: a
\* session of a dynamic tunnel that is not waited for may come too late.
callable(c, o) ==
  /\ pc[c] = "idle"
  /\ dp[c] = IF o = "create" THEN "none" ELSE "up"
  /\ o \in {"stats", "name"} => ~isTunnel(c)
  /\ o = "create" /\ ~isTunnel(c) =>
       \E t \in Caller : isTunnel(t) /\ conf[t].tid = conf[c].tid /\ dp[t] # "none"
  /\ CloseEarly \/ conn = "open"

\* NewTunnel, NewSession, GetStatistics, GetInterfaceName and Down up to the
\* request: an invalid configuration is refused and a cached name returned.
Call(c, o) ==
  /\ callable(c, o)
  /\ IF (o = "create" /\ ~valid(c)) \/ (o = "name" /\ name[c] # "")
     THEN UNCHANGED <<op, pc>>
     ELSE op' = [op EXCEPT ![c] = o] /\ pc' = [pc EXCEPT ![c] = "send"]
  /\ fd' = IF o = "create" /\ isTunnel(c) /\ conf[c].managed
           THEN [fd EXCEPT ![c] = "open"] ELSE fd
  /\ UNCHANGED <<dp, name, from, srv, conn, tunnels, sessions>>

\* A variant with a buffered request channel.
SendBuffered(c) ==
  /\ pc[c] = "send" /\ conn = "open"
  /\ srv' = IF srv.pc = "recv" THEN [pc |-> "serve", by |-> c, ok |-> FALSE] ELSE srv
  /\ pc' = [pc EXCEPT ![c] = "wait"]
  /\ UNCHANGED <<op, dp, fd, name, from, conn, tunnels, sessions>>

\* execute: the request is handed to runConn; on a closed channel it panics.
Send(c) ==
  /\ pc[c] = "send" /\ conn = "open" /\ srv.pc = "recv"
  /\ srv' = [pc |-> "serve", by |-> c, ok |-> FALSE]
  /\ pc' = [pc EXCEPT ![c] = "wait"]
  /\ UNCHANGED <<op, dp, fd, name, from, conn, tunnels, sessions>>

SendPanics(c) ==
  /\ pc[c] = "send" /\ conn # "open"
  /\ pc' = [pc EXCEPT ![c] = "panic"]
  /\ UNCHANGED <<op, dp, fd, name, from, srv, conn, tunnels, sessions>>

\* A variant that drops the response.
ServeAndListen(ok) ==
  /\ srv.pc = "serve"
  /\ kernelDoes(srv.by, ok)
  /\ srv' = [srv EXCEPT !.pc = "recv", !.ok = ok]
  /\ UNCHANGED <<pc, op, dp, fd, name, from, conn>>

\* runConn: c.c.Execute, then the response is handed over.
Serve(ok) ==
  /\ srv.pc = "serve"
  /\ kernelDoes(srv.by, ok)
  /\ srv' = [srv EXCEPT !.pc = "respond", !.ok = ok]
  /\ UNCHANGED <<pc, op, dp, fd, name, from, conn>>

\* Whoever waits on rspChan takes the response.  An instance that could not be
\* created, or that is down, is not used again, whatever the kernel answered.
\* GetSessionInfo decodes no attribute: the interface name it yields is empty.
Respond(c) ==
  /\ srv.pc = "respond" /\ pc[c] = "wait"
  /\ from' = [from EXCEPT ![c] = srv.by]
  /\ dp' = [dp EXCEPT ![c] = IF op[c] \in {"stats", "name"} THEN @
                             ELSE IF op[c] = "create" /\ srv.ok THEN "up"
                             ELSE "released"]
  /\ name' = [name EXCEPT ![c] = IF op[c] \in {"create", "name"} THEN "" ELSE @]
  /\ pc' = [pc EXCEPT ![c] = "idle"]
  /\ srv' = [srv EXCEPT !.pc = "recv"]
  /\ UNCHANGED <<op, fd, conn, tunnels, sessions>>

\* controlPlane.close: by the transport's goroutine when the transport goes
\* down, by quiescentTunnel.close before dp.Down, or by fsmActClose after it.
\* With the socket goes the kernel's tunnel.
CloseSocket(c) ==
  /\ fd[c] = "open" /\ ~(op[c] = "create" /\ pc[c] # "idle")
  /\ fd' = [fd EXCEPT ![c] = "closed"]
  /\ IF dp[c] = "up" THEN deletes(c) ELSE UNCHANGED <<tunnels, sessions>>
  /\ UNCHANGED <<pc, op, dp, name, from, srv, conn>>

\* Close, called by Context.Close once every tunnel has been closed.
Close ==
  /\ conn = "open"
  /\ CloseEarly \/ \A c \in Caller : pc[c] = "idle" /\ dp[c] # "up"
  /\ conn' = "closing"
  /\ UNCHANGED <<pc, op, dp, fd, name, from, srv, tunnels, sessions>>

ConnEnds ==
  /\ conn = "closing" /\ srv.pc = "recv"
  /\ srv' = [srv EXCEPT !.pc = "exit"]
  /\ UNCHANGED <<pc, op, dp, fd, name, from, conn, tunnels, sessions>>

Closed ==
  /\ conn = "closing" /\ srv.pc = "exit"
  /\ conn' = "closed"
  /\ UNCHANGED <<pc, op, dp, fd, name, from, srv, tunnels, sessions>>

\* Dial.
Init ==
  /\ pc = [c \in Caller |-> "idle"]
  /\ op = [c \in Caller |-> None]
  /\ dp = [c \in Caller |-> "none"] /\ fd = [c \in Caller |-> "none"]
  /\ name = [c \in Caller |-> ""]
  /\ from = [c \in Caller |-> c]
  /\ srv = [pc |-> "recv", by |-> None, ok |-> FALSE]
  /\ conn = "open"
  /\ tunnels = {} /\ sessions = {}

CallerSteps == \E c \in Caller : Send(c) \/ SendPanics(c) \/ Respond(c)

ConnSteps == (\E ok \in BOOLEAN : Serve(ok)) \/ ConnEnds \/ Closed

Next ==
  \/ \E c \in Caller, o \in {"create", "stats", "name", "down"} : Call(c, o)
  \/ CallerSteps
  \/ ConnSteps
  \/ \E c \in Caller : CloseSocket(c)
  \/ Close

Spec == Init /\ [][Next]_vars

\* runConn keeps running, and a caller's channel operation that stays possible
\* or recurs is carried out: Go serves the waiters of a channel in turn.
FairSpec ==
  /\ Spec
  /\ WF_vars(ConnSteps)
  /\ \A c \in Caller : SF_vars(Send(c)) /\ WF_vars(SendPanics(c) \/ Respond(c))

(***************************************************************************)
(* Properties                                                              *)
(***************************************************************************)
\* Only callers whose configuration is valid get as far as a request.
TypeOK ==
  /\ pc \in [Caller -> {"idle", "send", "wait", "panic"}]
  /\ op \in [Caller -> {"create", "stats", "name", "down", None}]
  /\ \A c \in Caller : pc[c] # "idle" => valid(c)
  /\ dp \in [Caller -> {"none", "up", "released"}]
  /\ fd \in [Caller -> {"none", "open", "closed"}]
  /\ from \in [Caller -> Caller]
  /\ srv.pc \in {"recv", "serve", "respond", "exit"}
  /\ srv.by \in Caller \union {None}
  /\ conn \in {"open", "closing", "closed"}

\* execute: the channels are shared by all callers and carry no identifiers,
\* yet the response a caller receives answers the request it sent.
ResponseIsMine == \A c \in Caller : from[c] = c

\* Between the calls of its owner an object is in the kernel only while its data
\* plane instance is up, so Down() leaves nothing behind even if it fails.  An
\* instance that is up has lost its object only where another goroutine took it
\* away: a tunnel with its socket, a session with its tunnel.
LiveIffInKernel ==
  \A c \in Caller : pc[c] = "idle" =>
    /\ inKernel(c) => dp[c] = "up"
    /\ dp[c] = "up" /\ ~inKernel(c) =>
         IF isTunnel(c) THEN fd[c] = "closed" ELSE conf[c].tid \notin tunnels

\* Every call of the data plane returns, whatever the order in which callers
\* and runConn meet on the two channels of execute.
CallsReturn == \A c \in Caller : pc[c] = "send" ~> pc[c] \in {"idle", "panic"}

\* Conn.Close returns: runConn ends although callers may still wait in execute.
CloseReturns == conn = "closing" ~> conn = "closed"

\* nll2tp.SessionConfig: LocalCookie is the cookie of transmitted packets and
\* PeerCookie the one received packets are checked against.
CookiesAsConfigured ==
  \A c \in Caller : ~isTunnel(c) => \A s \in held(c) :
    s.cookie = conf[c].cookie /\ s.peerCookie = conf[c].peerCookie

\* GetInterfaceName "obtains the interface name for the session".
InterfaceNameKnown ==
  \A c \in Caller :
    ~isTunnel(c) /\ op[c] = "name" /\ pc[c] = "idle" =>
      \A s \in held(c) : name[c] = s.ifName

\* execute reports "netlink connection closed" to a caller that comes too late.
ClosedIsAnError == \A c \in Caller : pc[c] # "panic"
=============================================================================
