-------------------------- MODULE QuiescentTunnel ---------------------------
(***************************************************************************)
(* A quiescent tunnel, its reader goroutine and the static sessions in it; *)
(* or a static tunnel, which has neither transport nor reader.             *)
(***************************************************************************)
EXTENDS Naturals

CONSTANTS
    Session,
    SessionDp,   \* outcomes of creating a data plane: "ok", "fail", "noname"
    Closers,     \* sessions the application closes itself
    Serial       \* TRUE if the application makes its calls one after the other

VARIABLES
    quiescent, \* FALSE: a static tunnel
    fails,     \* whether the peer stops answering keep-alives at some point
    byUser,    \* sessions the application has closed
    new,       \* NewSession(s): "no", "up", "done", "failed"
    sdp,       \* the session's data plane: "none", "up", "down"
    ups, downs,   \* SessionUpEvents and SessionDownEvents of each session
    linked,    \* sessionsByName (and sessionsByID)
    user,      \* Close() of the tunnel: "no", "wait", "kill", "done"
    reader,    \* xportReader: "select", "kill", "exit"
    todo,      \* sessions that close() still has to kill, for each who runs it
    tdp,       \* the tunnel's data plane
    xp,        \* the transport: "up", "down" (failed), "closed"
    panicked   \* sendChan of the transport was closed twice

sessions == <<new, sdp, ups, downs, linked>>
fixed == <<quiescent, fails>>
vars == <<fixed, byUser, sessions, user, reader, todo, tdp, xp, panicked>>

\* newQuiescentTunnel, newStaticTunnel
Init ==
    /\ quiescent \in BOOLEAN
    /\ fails \in (IF quiescent THEN BOOLEAN ELSE {FALSE})
    /\ byUser = {}
    /\ new = [s \in Session |-> "no"]
    /\ sdp = [s \in Session |-> "none"]
    /\ ups = [s \in Session |-> 0]
    /\ downs = [s \in Session |-> 0]
    /\ linked = {}
    /\ user = "no"
    /\ reader = IF quiescent THEN "select" ELSE "exit"
    /\ todo = [who \in {"user", "reader"} |-> {}]
    /\ tdp = "up"
    /\ xp = IF quiescent THEN "up" ELSE "closed"
    /\ panicked = FALSE

\* No other call of the user is running when calls are serial.
mayCall == Serial => user \in {"no", "done"} /\ \A s \in Session : new[s] # "up"
-----------------------------------------------------------------------------
\* NewSession up to its SessionUpEvent (newStaticSession)
NewSession(s) ==
    /\ new[s] = "no"
    /\ mayCall
    /\ user = "no"
    /\ s \notin linked
    /\ \E d \in SessionDp :
          /\ new' = [new EXCEPT ![s] = IF d = "ok" THEN "up" ELSE "failed"]
          /\ sdp' = [sdp EXCEPT ![s] = CASE d = "ok" -> "up" [] d = "noname" -> "down"
                                         [] d = "fail" -> "none"]
          /\ ups' = [ups EXCEPT ![s] = IF d = "ok" THEN 1 ELSE 0]
    /\ UNCHANGED <<fixed, byUser, downs, linked, user, reader, todo, tdp, xp, panicked>>

\* The session is linked after it has been reported up.
LinkSession(s) ==
    /\ new[s] = "up"
    /\ new' = [new EXCEPT ![s] = "done"]
    /\ linked' = linked \cup {s}
    /\ UNCHANGED <<fixed, byUser, sdp, ups, downs, user, reader, todo, tdp, xp, panicked>>

\* A variant that leaves the session linked.
closeStaticSessionLinked(s) ==
    /\ sdp' = [sdp EXCEPT ![s] = "down"]
    /\ downs' = [downs EXCEPT ![s] = @ + 1]
    /\ UNCHANGED <<new, ups, linked>>

\* staticSession.Close(), also called as kill()
closeStaticSession(s) ==
    /\ sdp' = [sdp EXCEPT ![s] = "down"]
    /\ downs' = [downs EXCEPT ![s] = @ + 1]
    /\ linked' = linked \ {s}
    /\ UNCHANGED <<new, ups>>

CloseSession(s) ==
    /\ s \in Closers
    /\ new[s] = "done"
    /\ downs[s] = 0
    /\ mayCall
    /\ closeStaticSession(s)
    /\ byUser' = byUser \cup {s}
    /\ UNCHANGED <<fixed, user, reader, todo, tdp, xp, panicked>>

\* A variant that empties the registry before it reads it.
takeSessionsEmptied(who) ==
    /\ todo' = [todo EXCEPT ![who] = {}]
    /\ linked' = {}
    /\ UNCHANGED <<new, sdp, ups, downs>>

\* close() begins: baseTunnel.closeAllSessions() takes the sessions it finds.
takeSessions(who) ==
    /\ todo' = [todo EXCEPT ![who] = linked]
    /\ linked' = {}
    /\ UNCHANGED <<new, sdp, ups, downs>>

\* Close() of a static tunnel starts at once, of a quiescent one after the
\* reader has seen closeChan.
CloseTunnel ==
    /\ user = "no"
    /\ mayCall
    /\ IF quiescent THEN user' = "wait" /\ UNCHANGED <<sessions, todo>>
                    ELSE user' = "kill" /\ takeSessions("user")
    /\ UNCHANGED <<fixed, byUser, reader, tdp, xp, panicked>>

ReaderSeesClose ==
    /\ reader = "select"
    /\ user = "wait"
    /\ reader' = "exit"
    /\ UNCHANGED <<fixed, byUser, sessions, user, todo, tdp, xp, panicked>>

CloseWaited ==
    /\ user = "wait"
    /\ reader = "exit"
    /\ user' = "kill"
    /\ takeSessions("user")
    /\ UNCHANGED <<fixed, byUser, reader, tdp, xp, panicked>>

\* A variant that returns without close().
ReaderSeesDownReturns ==
    /\ reader = "select"
    /\ xp = "down"
    /\ reader' = "exit"
    /\ UNCHANGED <<fixed, byUser, sessions, user, todo, tdp, xp, panicked>>

\* recvChan is closed: the transport has failed.
ReaderSeesDown ==
    /\ reader = "select"
    /\ xp = "down"
    /\ reader' = "kill"
    /\ takeSessions("reader")
    /\ UNCHANGED <<fixed, byUser, user, tdp, xp, panicked>>

TransportFails ==
    /\ fails
    /\ xp = "up"
    /\ xp' = "down"
    /\ UNCHANGED <<fixed, byUser, sessions, user, reader, todo, tdp, panicked>>

at(who) == IF who = "user" THEN user ELSE reader

KillSession(who, s) ==
    /\ at(who) = "kill"
    /\ s \in todo[who]
    /\ todo' = [todo EXCEPT ![who] = @ \ {s}]
    /\ closeStaticSession(s)
    /\ UNCHANGED <<fixed, byUser, user, reader, tdp, xp, panicked>>

\* The rest of close(): transport, socket, data plane, registry.
CloseRest(who) ==
    /\ at(who) = "kill"
    /\ todo[who] = {}
    /\ IF who = "user" THEN user' = "done" /\ UNCHANGED reader
                       ELSE reader' = "exit" /\ UNCHANGED user
    /\ IF quiescent /\ xp = "closed"
       THEN panicked' = TRUE /\ UNCHANGED <<xp, tdp>>
       ELSE xp' = "closed" /\ tdp' = "down" /\ UNCHANGED panicked
    /\ UNCHANGED <<fixed, byUser, sessions, todo>>

Goroutines ==
    /\ ~panicked
    /\ \/ ReaderSeesClose \/ ReaderSeesDown \/ CloseWaited
       \/ \E s \in Session : LinkSession(s)
       \/ \E who \in {"user", "reader"} :
             CloseRest(who) \/ \E s \in Session : KillSession(who, s)

Next ==
    \/ Goroutines
    \/ /\ ~panicked
       /\ \/ CloseTunnel \/ TransportFails
          \/ \E s \in Session : NewSession(s) \/ CloseSession(s)

Spec == Init /\ [][Next]_vars
FairSpec == Spec /\ WF_vars(Goroutines)
-----------------------------------------------------------------------------
TypeOK ==
    /\ new \in [Session -> {"no", "up", "done", "failed"}]
    /\ sdp \in [Session -> {"none", "up", "down"}]
    /\ \A s \in Session : ups[s] \in 0..1 /\ downs[s] \in 0..2
    /\ linked \subseteq {s \in Session : new[s] = "done"}
    /\ user \in {"no", "wait", "kill", "done"}
    /\ reader \in {"select", "kill", "exit"}
    /\ tdp \in {"up", "down"} /\ xp \in {"up", "down", "closed"}

\* A session goes down at most once, and only after it has come up: close() of
\* the tunnel, whichever goroutine runs it, does not find a session that Close()
\* of the session has taken down.  The exception is a session that the
\* application closes while the reader of a failed transport, which has taken it
\* from the registry, is about to: both report it down.
DownOnce ==
    \A s \in Session : downs[s] <= ups[s] + (IF fails /\ s \in byUser THEN 1 ELSE 0)

\* Tunnel.Close(): "Any sessions instantiated inside the tunnel are removed."
CloseRemoves ==
    user = "done" /\ ~fails => \A s \in Session : new[s] \in {"up", "done"} => downs[s] = 1 /\ sdp[s] = "down"

\* When keep-alives fail, the quiescent tunnel takes its data plane down (doc.go:
\* "This slight extension allows for detection of tunnel failure").
FailureDetected == xp = "down" ~> tdp = "down"

\* close() runs once, by the reader or by Close(), unless the transport has
\* failed: then both may run it, and the second closes sendChan again.
ClosedTwiceOnlyIfFailed == panicked => fails

\* Tunnel.Close(): "Close closes the tunnel, releasing allocated resources.",
\* also when the transport has failed before.
CloseDoesNotPanic == ~panicked

\* The last event of the tunnel itself: neither constructor nor close() of these
\* tunnels calls handleUserEvent, so there is none.
tunnelEvent == "none"

\* TunnelUpEvent: "In the case of static or quiescent tunnels, this occurs
\* immediately on instantiation of the tunnel."  So a handler sees it before the
\* tunnel's first SessionUpEvent (module TunnelEvents).
Events == INSTANCE TunnelEvents WITH
              tunnel <- tunnelEvent,
              session <- [s \in Session |-> IF downs[s] > 0 THEN "down"
                                            ELSE IF ups[s] > 0 THEN "up" ELSE "none"],
              gone <- {},
              appClosed <- byUser

SessionUpInTunnelUp == Events!Spec
=============================================================================
