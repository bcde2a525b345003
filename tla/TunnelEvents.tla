---------------------------- MODULE TunnelEvents ----------------------------
(***************************************************************************)
(* What an EventHandler may rely on.  A tunnel and each of its sessions    *)
(* come up at most once and go down at most once.  A session comes up and  *)
(* goes down while its tunnel is up, and the tunnel goes down after them,  *)
(* with two exceptions: the tunnel does not wait for a session that the    *)
(* application closes, nor for one that gave up before it was reported up. *)
(* A session that gave up may be reported up all the same, even after the  *)
(* tunnel is down, and is never reported down.                             *)
(***************************************************************************)
CONSTANT Session

VARIABLES
    tunnel,    \* last event of the tunnel: "none", "up" or "down"
    session,   \* last event of each session
    gone,      \* the sessions that gave up
    appClosed  \* the sessions that the application has closed

Init ==
    /\ tunnel = "none"
    /\ session = [s \in Session |-> "none"]
    /\ gone = {}
    /\ appClosed = {}

TunnelUp ==
    /\ tunnel = "none"
    /\ tunnel' = "up"
    /\ UNCHANGED <<session, gone, appClosed>>

TunnelDown ==
    /\ tunnel = "up"
    /\ \A s \in Session \ (gone \cup appClosed) : session[s] # "up"
    /\ tunnel' = "down"
    /\ UNCHANGED <<session, gone, appClosed>>

SessionUp(s) ==
    /\ session[s] = "none"
    /\ tunnel = "up" \/ (tunnel = "down" /\ s \in gone \cup appClosed)
    /\ session' = [session EXCEPT ![s] = "up"]
    /\ UNCHANGED <<tunnel, gone, appClosed>>

SessionDown(s) ==
    /\ session[s] = "up"
    /\ s \notin gone
    /\ tunnel = "up" \/ s \in appClosed
    /\ session' = [session EXCEPT ![s] = "down"]
    /\ UNCHANGED <<tunnel, gone, appClosed>>

GiveUp(s) ==
    /\ session[s] = "none"
    /\ gone' = gone \cup {s}
    /\ UNCHANGED <<tunnel, session, appClosed>>

CloseSession(s) ==
    /\ appClosed' = appClosed \cup {s}
    /\ UNCHANGED <<tunnel, session, gone>>

Next ==
    \/ TunnelUp \/ TunnelDown
    \/ \E s \in Session : SessionUp(s) \/ SessionDown(s) \/ GiveUp(s) \/ CloseSession(s)

Spec == Init /\ [][Next]_<<tunnel, session, gone, appClosed>>
=============================================================================
