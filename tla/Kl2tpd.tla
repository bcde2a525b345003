------------------------------- MODULE Kl2tpd -------------------------------
(***************************************************************************)
(* The kl2tpd daemon (cmd/kl2tpd/kl2tpd.go) with one tunnel.  It runs a    *)
(* pppd process for every session that is up.  The daemon's code runs in   *)
(* the goroutines of the tunnel and its sessions, which call HandleEvent,  *)
(* in one goroutine per pppd that waits for it to exit, in one per session *)
(* that is being closed, in the goroutine that shuts down, and in run.     *)
(*                                                                         *)
(* The library is external to this module: its events are those of         *)
(* TunnelEvents, which DynamicTunnel implements, and nothing is assumed of *)
(* when, or whether, its Close() calls return.                             *)
(***************************************************************************)
EXTENDS Naturals, FiniteSets

CONSTANTS
  Session,
  PppdFails,     \* newPPPoL2TP or starting pppd may fail
  SetupFails,    \* NewDynamicTunnel or NewSession may fail
  GivesUp,       \* a session may give up and be reported up all the same
  None

ASSUME NoneIsNoFault == None \notin {"nil entry", "nil map", "concurrent map access"}
ASSUME NoneIsNoTable == \A T \in SUBSET Session : T # None

VARIABLES
  tunnel, session, gone, appClosed,   \* what the library has reported
  created,       \* the sessions run has created
  table,         \* the keys of sessionPPPoL2TP for the tunnel, or None
  handler,       \* handler[s]: where HandleEvent is for an event of s
  raced,         \* the sessions whose use of the map overlapped another's
  pppd,          \* pppd[s]: none, running, signalled or exited
  waiter,        \* waiter[s]: the goroutine in pppd.Wait or on pppCompleteChan
  closer,        \* closer[s]: the goroutine closeSession started
  sig,           \* a signal is in sigChan
  ctx,           \* shutdown: no, closing (Context.Close), waiting (wg), done
  main,          \* run: setup, loop, or how it returned
  fault          \* None, or what crashed the process

library == <<tunnel, session, gone, appClosed>>
children == <<pppd, waiter, closer>>
process == <<created, sig, ctx, main>>
vars == <<library, table, handler, raced, children, process, fault>>

Lib == INSTANCE TunnelEvents

alive == fault = None /\ main \in {"setup", "loop"}

\* The tunnel does not wait for these.
loose == gone \union appClosed

Init ==
  /\ Lib!Init
  /\ created = {} /\ table = None /\ raced = {}
  /\ handler = [s \in Session |-> "idle"]
  /\ pppd = [s \in Session |-> "none"]
  /\ waiter = [s \in Session |-> "none"]
  /\ closer = [s \in Session |-> "none"]
  /\ sig = FALSE /\ ctx = "no" /\ main = "setup" /\ fault = None

(***************************************************************************)
(* HandleEvent.  It runs in the goroutine of the tunnel or the session,    *)
(* and the library's RLock lets several run at the same time.  They share  *)
(* the map without a lock: two that use it at the same time crash the      *)
(* process or go on, and the entry one of them stores may be lost.         *)
(***************************************************************************)
inMap == {s \in Session : handler[s] \in {"storing", "deleting"}}

\* A use of the map begins while those of the sessions in S go on.
mayRace(S, mine) ==
  \/ S = {} /\ fault' = None /\ UNCHANGED raced
  \/ S # {} /\ fault' \in {None, "concurrent map access"} /\ raced' = raced \union S \union mine

TunnelUp ==
  /\ alive /\ Lib!TunnelUp
  /\ ctx \in {"no", "closing"}
  /\ table' = IF table = None THEN {} ELSE table
  /\ UNCHANGED <<handler, raced, children, process, fault>>

\* The tunnel has waited for the goroutines of its sessions, which run the
\* handlers, except for the loose ones.
TunnelDown ==
  /\ alive /\ Lib!TunnelDown
  /\ \A s \in Session \ loose : handler[s] = "idle"
  /\ table' = None
  /\ mayRace(inMap, {})
  /\ UNCHANGED <<handler, children, process>>

startCloser(s) == closer' = [closer EXCEPT ![s] = "started"]

\* SessionUpEvent as far as pppd.Start(); where it fails the session is closed.
SessionUp(s) ==
  /\ alive /\ Lib!SessionUp(s) /\ s \in created
  /\ \/ /\ pppd' = [pppd EXCEPT ![s] = "running"]
        /\ handler' = [handler EXCEPT ![s] = "started"]
        /\ UNCHANGED closer
     \/ PppdFails /\ startCloser(s) /\ UNCHANGED <<pppd, handler>>
  /\ UNCHANGED <<table, raced, waiter, process, fault>>

\* The entry is assigned: the inner map is looked up, which fails if the tunnel
\* has gone down,
Store(s) ==
  /\ alive /\ handler[s] = "started"
  /\ IF table = None
     THEN fault' = "nil map" /\ UNCHANGED <<handler, raced>>
     ELSE handler' = [handler EXCEPT ![s] = "storing"] /\ mayRace(inMap, {s})
  /\ UNCHANGED <<library, table, children, process>>

\* A variant that starts to wait for pppd without storing it.
StoredNot(s) ==
  /\ alive /\ handler[s] = "storing"
  /\ handler' = [handler EXCEPT ![s] = "idle"]
  /\ waiter' = [waiter EXCEPT ![s] = "waiting"]
  /\ UNCHANGED <<library, table, raced, pppd, closer, process, fault>>

\* then written, and a goroutine waits for pppd.
Stored(s) ==
  /\ alive /\ handler[s] = "storing"
  /\ handler' = [handler EXCEPT ![s] = "idle"]
  /\ \/ table' = IF table = None THEN None ELSE table \union {s}
     \/ s \in raced /\ UNCHANGED table
  /\ waiter' = [waiter EXCEPT ![s] = "waiting"]
  /\ UNCHANGED <<library, raced, pppd, closer, process, fault>>

\* SessionDownEvent: the entry is dereferenced without a check, pppd is
\* interrupted (which only has an effect while it runs),
SessionDown(s) ==
  /\ alive /\ Lib!SessionDown(s) /\ handler[s] = "idle"
  /\ IF table = None \/ s \notin table
     THEN fault' = "nil entry" /\ UNCHANGED <<handler, raced, pppd>>
     ELSE /\ handler' = [handler EXCEPT ![s] = "deleting"]
          /\ mayRace(inMap, {s})
          /\ pppd' = [pppd EXCEPT ![s] = IF @ = "running" THEN "signalled" ELSE @]
  /\ UNCHANGED <<table, waiter, closer, process>>

\* and the entry is deleted.
Deleted(s) ==
  /\ alive /\ handler[s] = "deleting"
  /\ handler' = [handler EXCEPT ![s] = "idle"]
  /\ table' = IF table = None THEN None ELSE table \ {s}
  /\ UNCHANGED <<library, raced, children, process, fault>>

\* The library: a session gives up (fsmActClose) before it is reported up.
SessionGivesUp(s) ==
  /\ alive /\ GivesUp /\ s \in created \ gone
  /\ Lib!GiveUp(s)
  /\ UNCHANGED <<table, handler, raced, children, process, fault>>

(***************************************************************************)
(* The goroutines of pppd processes and of closeSession.                   *)
(***************************************************************************)
PppdExits(s) ==
  /\ alive /\ pppd[s] \in {"running", "signalled"}
  /\ pppd' = [pppd EXCEPT ![s] = "exited"]
  /\ UNCHANGED <<library, table, handler, raced, waiter, closer, process, fault>>

Waited(s) ==
  /\ alive /\ waiter[s] = "waiting" /\ pppd[s] = "exited"
  /\ waiter' = [waiter EXCEPT ![s] = "sending"]
  /\ UNCHANGED <<library, table, handler, raced, pppd, closer, process, fault>>

\* Session.Close takes the session out of the tunnel's registry.
CloserCalls(s) ==
  /\ alive /\ closer[s] = "started"
  /\ closer' = [closer EXCEPT ![s] = "closing"]
  /\ Lib!CloseSession(s)
  /\ UNCHANGED <<table, handler, raced, pppd, waiter, process, fault>>

\* It returns, if it does, when the session's goroutine has ended.
CloserReturns(s) ==
  /\ alive /\ closer[s] = "closing"
  /\ session[s] = "down" \/ s \in gone
  /\ handler[s] = "idle"
  /\ closer' = [closer EXCEPT ![s] = "done"]
  /\ UNCHANGED <<library, table, handler, raced, pppd, waiter, process, fault>>

(***************************************************************************)
(* run and the shutdown goroutine.                                         *)
(***************************************************************************)
rest == <<library, table, handler, raced, fault>>

\* Tunnels and sessions are created in turn; a failure ends the process.
Setup ==
  /\ alive /\ main = "setup"
  /\ \/ \E s \in Session \ created : created' = created \union {s} /\ UNCHANGED main
     \/ created = Session /\ main' = "loop" /\ UNCHANGED created
     \/ SetupFails /\ main' = "failed" /\ UNCHANGED created
  /\ UNCHANGED <<rest, children, sig, ctx>>

Signal ==
  /\ alive /\ ~sig /\ sig' = TRUE
  /\ UNCHANGED <<rest, children, created, ctx, main>>

TakeSignal ==
  /\ alive /\ main = "loop" /\ sig
  /\ sig' = FALSE
  /\ ctx' = IF ctx = "no" THEN "closing" ELSE ctx
  /\ UNCHANGED <<rest, children, created, main>>

\* Variants: the session is not closed, and nobody reads during the shutdown.
TakePppCompleteOnly(s) ==
  /\ alive /\ main = "loop" /\ waiter[s] = "sending"
  /\ waiter' = [waiter EXCEPT ![s] = "done"]
  /\ UNCHANGED <<rest, pppd, closer, process>>

TakePppCompleteEarly(s) ==
  /\ alive /\ main = "loop" /\ waiter[s] = "sending" /\ ctx = "no"
  /\ waiter' = [waiter EXCEPT ![s] = "done"]
  /\ startCloser(s)
  /\ UNCHANGED <<rest, pppd, process>>

TakePppComplete(s) ==
  /\ alive /\ main = "loop" /\ waiter[s] = "sending"
  /\ waiter' = [waiter EXCEPT ![s] = "done"]
  /\ IF ctx = "no" THEN startCloser(s) ELSE UNCHANGED closer
  /\ UNCHANGED <<rest, pppd, process>>

\* Context.Close returns, if it does, when the tunnel's goroutine has ended.
ContextClosed ==
  /\ alive /\ ctx = "closing" /\ tunnel # "up"
  /\ ctx' = "waiting"
  /\ UNCHANGED <<rest, children, created, sig, main>>

\* A variant that does not wait.
WaitedForAllNot ==
  /\ alive /\ ctx = "waiting"
  /\ ctx' = "done"
  /\ UNCHANGED <<rest, children, created, sig, main>>

\* app.wg counts the waiters and the closers.
WaitedForAll ==
  /\ alive /\ ctx = "waiting"
  /\ \A s \in Session : waiter[s] \in {"none", "done"} /\ closer[s] \in {"none", "done"}
  /\ ctx' = "done"
  /\ UNCHANGED <<rest, children, created, sig, main>>

Exit ==
  /\ alive /\ main = "loop" /\ ctx = "done"
  /\ main' = "ok"
  /\ UNCHANGED <<rest, children, created, sig, ctx>>

Next ==
  \/ TunnelUp \/ TunnelDown
  \/ \E s \in Session :
       \/ SessionUp(s) \/ Store(s) \/ Stored(s) \/ SessionDown(s) \/ Deleted(s)
       \/ SessionGivesUp(s) \/ PppdExits(s) \/ Waited(s)
       \/ CloserCalls(s) \/ CloserReturns(s) \/ TakePppComplete(s)
  \/ Setup \/ Signal \/ TakeSignal \/ ContextClosed \/ WaitedForAll \/ Exit

Spec == Init /\ [][Next]_vars

\* The daemon's goroutines run, and a pppd that is interrupted exits.  Nothing
\* is assumed of the library or of the signals.
FairSpec ==
  /\ Spec
  /\ WF_vars(WaitedForAll) /\ WF_vars(Exit)
  /\ \A s \in Session :
       /\ WF_vars(Store(s)) /\ WF_vars(Stored(s)) /\ WF_vars(Deleted(s))
       /\ WF_vars(Waited(s)) /\ WF_vars(CloserCalls(s)) /\ WF_vars(TakePppComplete(s))
       /\ WF_vars(pppd[s] = "signalled" /\ PppdExits(s))

(***************************************************************************)
(* Properties                                                              *)
(***************************************************************************)
\* An entry of the table has its pppd.
TypeOK ==
  /\ created \subseteq Session /\ raced \subseteq Session
  /\ gone \subseteq Session /\ appClosed \subseteq Session
  /\ table = None \/ table \subseteq {s \in created : pppd[s] # "none"}
  /\ handler \in [Session -> {"idle", "started", "storing", "deleting"}]
  /\ pppd \in [Session -> {"none", "running", "signalled", "exited"}]
  /\ waiter \in [Session -> {"none", "waiting", "sending", "done"}]
  /\ closer \in [Session -> {"none", "started", "closing", "done"}]
  /\ sig \in BOOLEAN /\ ctx \in {"no", "closing", "waiting", "done"}

\* HandleEvent never dereferences a missing entry, or assigns to a missing map,
\* but in these cases: pppd did not start, the session has outlived the tunnel
\* (whose entry TunnelDownEvent deletes), or two handlers used the map at once.
CrashesOnlyIf ==
  /\ fault = "nil entry" =>
       \E s \in Session : /\ session[s] = "down"
                          /\ pppd[s] = "none" \/ (tunnel = "down" /\ s \in appClosed) \/ s \in raced
  /\ fault = "nil map" =>
       tunnel = "down" /\ \E s \in loose : handler[s] = "started"

\* run returns 0 only after every pppd has exited and been waited for, but for
\* those of sessions that gave up: neither the tunnel nor app.wg waits for the
\* handler that reports them up.
CleanExit ==
  main = "ok" =>
    \A s \in Session \ gone : pppd[s] \in {"none", "exited"} /\ handler[s] = "idle"

\* A pppd that exits makes run close its session, unless it is shutting down,
\* and a session that goes down ends its pppd (pppCompleteChan, SessionDownEvent).
SessionFollowsPppd ==
  \A s \in Session :
    /\ pppd[s] = "exited" /\ main = "loop" ~> s \in appClosed \/ ctx # "no" \/ ~alive
    /\ session[s] = "down" ~> pppd[s] \in {"none", "exited"} \/ ~alive

\* What can hold up a shutdown: the library does not return from a Close(), or
\* has left a session up, whose pppd nobody interrupts.
heldUp ==
  \/ ctx = "closing"
  \/ \E s \in Session : closer[s] = "closing" \/ (s \in gone /\ pppd[s] = "running")

\* A signal that run has taken ends the daemon, however events, exiting pppds
\* and closing sessions interleave with the shutdown, if it does not crash and
\* is not held up by the library for ever.
ShutdownCompletes ==
  <>(ctx # "no") => <>(main = "ok" \/ fault # None) \/ []<>heldUp

(***************************************************************************)
(* What comments and documentation say beyond that.                        *)
(***************************************************************************)
\* RegisterEventHandler: the handler "may be called from multiple go routines";
\* HandleEvent writes its maps without a lock.
NoConcurrentWrites == fault # "concurrent map access"

\* Session.Close releases the session: closing a session whose pppd did not
\* start, or whose tunnel has gone, is no reason for the daemon to crash.
EntryExists == fault # "nil entry"

\* l2tp.go on Tunnel.Close: "Any sessions instantiated inside the tunnel are
\* removed": none is reported up afterwards to start its pppd.
MapExists == fault # "nil map"

\* "graceful shutdown complete": run leaves no pppd behind.
NoPppdLeft == main = "ok" => \A s \in Session : pppd[s] \in {"none", "exited"}
=============================================================================
