---------------------------- MODULE Kl2tpdProofs ----------------------------
(***************************************************************************)
(* Proofs about Kl2tpd, for any number of sessions, whatever fails: when   *)
(* HandleEvent can miss an entry of its map, and that the daemon leaves no *)
(* pppd behind when it shuts down but for sessions that gave up.           *)
(***************************************************************************)
EXTENDS Kl2tpd, TLAPS

\* The types the proofs need.
DaemonType ==
  /\ session \in [Session -> {"none", "up", "down"}]
  /\ handler \in [Session -> {"idle", "started", "storing", "deleting"}]
  /\ pppd \in [Session -> {"none", "running", "signalled", "exited"}]
  /\ waiter \in [Session -> {"none", "waiting", "sending", "done"}]
  /\ closer \in [Session -> {"none", "started", "closing", "done"}]
  /\ table \in (SUBSET Session) \cup {None}

\* A session that has not been reported has nothing.
Fresh(s) ==
  session[s] = "none" =>
    /\ pppd[s] = "none" /\ waiter[s] = "none" /\ closer[s] = "none" /\ handler[s] = "idle"

\* Who attends to a session's pppd: the handler that has started it, then the
\* goroutine that waits for it; and how far closing the session is.
Attended(s) ==
  /\ handler[s] \in {"started", "storing"} =>
       session[s] = "up" /\ closer[s] = "none" /\ waiter[s] = "none" /\ pppd[s] # "none"
  /\ handler[s] \in {"idle", "deleting"} /\ waiter[s] = "none" => pppd[s] = "none"
  /\ handler[s] = "deleting" => session[s] = "down"
  /\ waiter[s] \in {"sending", "done"} => pppd[s] = "exited"
  /\ waiter[s] \in {"waiting", "sending"} => closer[s] = "none"
  /\ s \in appClosed => closer[s] \in {"closing", "done"}
  /\ closer[s] = "done" => (session[s] = "down" \/ s \in gone) /\ handler[s] = "idle"

\* The entry of a session that is up, once it has been stored.
Entered(s) ==
  session[s] = "up" /\ waiter[s] # "none" => table = None \/ s \in table \/ s \in raced

\* The tunnel: it has its map while it is up, and only loose sessions can be
\* up, or have a handler, outside its life.
Inside ==
  /\ tunnel \in {"none", "up", "down"}
  /\ tunnel = "up" <=> table # None
  /\ \A s \in Session : session[s] # "none" => tunnel # "none"
  /\ tunnel = "down" => \A s \in Session \ loose : session[s] # "up" /\ handler[s] = "idle"

\* The shutdown: the tunnel has ended, then every goroutine app.wg counts.
Ending ==
  /\ ctx \in {"waiting", "done"} => tunnel # "up"
  /\ ctx = "done" =>
       \A s \in Session \ gone : waiter[s] \in {"none", "done"} /\ closer[s] \in {"none", "done"}
  /\ main = "ok" => ctx = "done"

DaemonInv ==
  /\ DaemonType
  /\ \A s \in Session : Fresh(s) /\ Attended(s) /\ Entered(s)
  /\ Inside /\ Ending
  /\ CrashesOnlyIf

\* A step that does not miss an entry or a map.
LEMMA NoCrash ==
  ASSUME fault' \in {None, "concurrent map access"} PROVE CrashesOnlyIf'
  BY NoneIsNoFault DEF CrashesOnlyIf

\* newApplication: no session, no pppd.
LEMMA DaemonInit == Init => DaemonInv
<1> SUFFICES ASSUME Init PROVE DaemonInv
  OBVIOUS
<1> USE DEF Init, Lib!Init
<1>1. DaemonType
  BY DEF DaemonType
<1>2. \A s \in Session : Fresh(s) /\ Attended(s) /\ Entered(s)
  BY DEF Fresh, Attended, Entered
<1>3. Inside /\ Ending
  BY DEF Inside, Ending
<1>4. CrashesOnlyIf
  BY NoneIsNoFault DEF CrashesOnlyIf
<1> QED BY <1>1, <1>2, <1>3, <1>4 DEF DaemonInv

\* Events of the tunnel.
LEMMA TunnelKeeps ==
  ASSUME DaemonInv, TunnelUp \/ TunnelDown PROVE DaemonInv'
<1> USE DEF DaemonInv
<1>1. CASE TunnelUp
  <2>1. /\ tunnel = "none" /\ tunnel' = "up" /\ ctx \in {"no", "closing"}
        /\ table' = IF table = None THEN {} ELSE table
        /\ UNCHANGED <<session, gone, appClosed, handler, raced, pppd, waiter, closer, ctx, main>>
        /\ fault' = None
    BY <1>1 DEF TunnelUp, Lib!TunnelUp, children, process, alive
  <2>2. \A t \in Session : session[t] = "none"
    BY <2>1 DEF DaemonType, Inside
  <2>3. table' = {} /\ table' # None
    BY <2>1, NoneIsNoTable DEF Inside
  <2>4. DaemonType'
    BY <2>1, <2>3 DEF DaemonType
  <2>5. \A t \in Session : Fresh(t)' /\ Attended(t)' /\ Entered(t)'
    BY <2>1, <2>2 DEF Fresh, Attended, Entered
  <2>6. Inside' /\ Ending'
    BY <2>1, <2>3 DEF Inside, Ending, loose
  <2> QED BY <2>1, <2>4, <2>5, <2>6, NoCrash
<1>2. CASE TunnelDown
  <2>1. /\ tunnel = "up" /\ tunnel' = "down" /\ table' = None
        /\ \A s \in Session \ loose : session[s] # "up" /\ handler[s] = "idle"
        /\ UNCHANGED <<session, gone, appClosed, handler, pppd, waiter, closer, ctx, main>>
        /\ fault' \in {None, "concurrent map access"}
    BY <1>2 DEF TunnelDown, Lib!TunnelDown, loose, children, process, mayRace
  <2>2. DaemonType'
    BY <2>1 DEF DaemonType
  <2>3. \A t \in Session : Fresh(t)' /\ Attended(t)' /\ Entered(t)'
    BY <2>1 DEF Fresh, Attended, Entered
  <2>4. Inside' /\ Ending'
    BY <2>1 DEF Inside, Ending, loose
  <2> QED BY <2>1, <2>2, <2>3, <2>4, NoCrash
<1> QED BY <1>1, <1>2

\* A session comes up: its pppd starts, or its close does.
LEMMA SessionUpKeeps ==
  ASSUME NEW s \in Session, DaemonInv, SessionUp(s) PROVE DaemonInv'
<1> USE DEF DaemonInv
<1>1. /\ session[s] = "none" /\ tunnel # "none"
      /\ tunnel = "up" \/ s \in loose
      /\ session' = [session EXCEPT ![s] = "up"]
      /\ UNCHANGED <<tunnel, gone, appClosed, table, raced, waiter, ctx, main>>
      /\ fault' = None
  BY DEF SessionUp, Lib!SessionUp, loose, process, alive
<1>2. \/ /\ pppd' = [pppd EXCEPT ![s] = "running"]
         /\ handler' = [handler EXCEPT ![s] = "started"]
         /\ UNCHANGED closer
      \/ closer' = [closer EXCEPT ![s] = "started"] /\ UNCHANGED <<pppd, handler>>
  BY DEF SessionUp, startCloser
<1>3. /\ pppd[s] = "none" /\ waiter[s] = "none" /\ closer[s] = "none" /\ handler[s] = "idle"
      /\ s \notin appClosed
  BY <1>1 DEF Fresh, Attended
<1>4. DaemonType'
  BY <1>1, <1>2 DEF DaemonType
<1>5. \A t \in Session : Fresh(t)' /\ Attended(t)' /\ Entered(t)'
  BY <1>1, <1>2, <1>3 DEF DaemonType, Fresh, Attended, Entered
<1>6. Inside'
  BY <1>1, <1>2 DEF DaemonType, Inside, loose
<1>7. Ending'
  <2>1. ctx = "done" => s \in gone
    BY <1>1, <1>3 DEF Ending, loose
  <2> QED BY <1>1, <1>2, <2>1 DEF DaemonType, Ending
<1> QED BY <1>1, <1>4, <1>5, <1>6, <1>7, NoCrash

\* Its entry is stored, unless there is no map, and a goroutine waits for pppd.
LEMMA StoreKeeps ==
  ASSUME NEW s \in Session, DaemonInv, Store(s) PROVE DaemonInv'
<1> USE DEF DaemonInv
<1>1. /\ handler[s] = "started" /\ session[s] = "up"
      /\ UNCHANGED <<tunnel, session, gone, appClosed, table, pppd, waiter, closer, ctx, main>>
  BY DEF Store, library, children, process, Attended
<1>2. CASE table = None
  <2>1. fault' = "nil map" /\ UNCHANGED <<handler, raced>>
    BY <1>2 DEF Store
  <2>2. tunnel = "down" /\ s \in loose
    BY <1>1, <1>2 DEF Inside
  <2>3. CrashesOnlyIf'
    BY <1>1, <2>1, <2>2 DEF CrashesOnlyIf, loose
  <2> QED BY <1>1, <2>1, <2>3 DEF DaemonType, Fresh, Attended, Entered, Inside, Ending, loose
<1>3. CASE table # None
  <2>1. /\ handler' = [handler EXCEPT ![s] = "storing"]
        /\ raced' = raced \/ \E S : raced' = raced \union S
        /\ fault' \in {None, "concurrent map access"}
    BY <1>3 DEF Store, mayRace
  <2>2. \A t \in raced : t \in raced'
    BY <2>1
  <2>3. \A t \in Session : Fresh(t)' /\ Attended(t)' /\ Entered(t)'
    BY <1>1, <2>1, <2>2 DEF DaemonType, Fresh, Attended, Entered
  <2>4. DaemonType' /\ Inside' /\ Ending'
    BY <1>1, <2>1 DEF DaemonType, Inside, Ending, loose
  <2> QED BY <2>1, <2>3, <2>4, NoCrash
<1> QED BY <1>2, <1>3

LEMMA StoredKeeps ==
  ASSUME NEW s \in Session, DaemonInv, Stored(s) PROVE DaemonInv'
<1> USE DEF DaemonInv
<1>1. /\ handler[s] = "storing" /\ handler' = [handler EXCEPT ![s] = "idle"]
      /\ waiter' = [waiter EXCEPT ![s] = "waiting"]
      /\ UNCHANGED <<tunnel, session, gone, appClosed, raced, pppd, closer, ctx, main>>
      /\ fault' = None
  BY DEF Stored, library, process, alive
<1>2. /\ session[s] = "up" /\ closer[s] = "none" /\ waiter[s] = "none" /\ pppd[s] # "none"
      /\ s \notin appClosed
  BY <1>1 DEF Attended
<1>3. /\ table' \in (SUBSET Session) \cup {None}
      /\ table' = None <=> table = None
      /\ \A t \in table : table # None => t \in table'
      /\ table = None \/ s \in table' \/ s \in raced
  BY NoneIsNoTable DEF Stored, DaemonType
<1>4. DaemonType'
  BY <1>1, <1>3 DEF DaemonType
<1>5. \A t \in Session : Fresh(t)' /\ Attended(t)' /\ Entered(t)'
  BY <1>1, <1>2, <1>3 DEF DaemonType, Fresh, Attended, Entered
<1>6. Inside'
  BY <1>1, <1>3 DEF DaemonType, Inside, loose
<1>7. Ending'
  <2>1. ctx = "done" => s \in gone
    BY <1>1, <1>2 DEF Ending, Inside, loose
  <2> QED BY <1>1, <2>1 DEF DaemonType, Ending
<1> QED BY <1>1, <1>4, <1>5, <1>6, <1>7, NoCrash

\* A session goes down: its pppd is interrupted, or the entry is missing.
LEMMA SessionDownKeeps ==
  ASSUME NEW s \in Session, DaemonInv, SessionDown(s) PROVE DaemonInv'
<1> USE DEF DaemonInv
<1>1. /\ session[s] = "up" /\ s \notin gone
      /\ tunnel = "up" \/ s \in appClosed
      /\ handler[s] = "idle"
      /\ session' = [session EXCEPT ![s] = "down"]
      /\ UNCHANGED <<tunnel, gone, appClosed, table, waiter, closer, ctx, main>>
  BY DEF SessionDown, Lib!SessionDown, process
<1>2. CASE table = None \/ s \notin table
  <2>1. fault' = "nil entry" /\ UNCHANGED <<handler, raced, pppd>>
    BY <1>2 DEF SessionDown
  <2>2. DaemonType'
    BY <1>1, <2>1 DEF DaemonType
  <2>3. \A t \in Session : Fresh(t)' /\ Attended(t)' /\ Entered(t)'
    BY <1>1, <2>1 DEF DaemonType, Fresh, Attended, Entered
  <2>4. Inside' /\ Ending'
    BY <1>1, <2>1 DEF DaemonType, Inside, Ending, loose
  <2>5. pppd[s] = "none" \/ (tunnel = "down" /\ s \in appClosed) \/ s \in raced
    BY <1>1, <1>2 DEF DaemonType, Attended, Entered, Inside
  <2>6. CrashesOnlyIf'
    BY <1>1, <2>1, <2>5 DEF DaemonType, CrashesOnlyIf
  <2> QED BY <2>2, <2>3, <2>4, <2>6
<1>3. CASE ~(table = None \/ s \notin table)
  <2>1. /\ handler' = [handler EXCEPT ![s] = "deleting"]
        /\ raced' = raced \/ \E S : raced' = raced \union S
        /\ fault' \in {None, "concurrent map access"}
        /\ pppd' = [pppd EXCEPT ![s] = IF pppd[s] = "running" THEN "signalled" ELSE pppd[s]]
    BY <1>3 DEF SessionDown, mayRace
  <2>2. \A t \in raced : t \in raced'
    BY <2>1
  <2>3. closer[s] # "done"
    BY <1>1 DEF Attended
  <2>4. DaemonType'
    BY <1>1, <2>1 DEF DaemonType
  <2>5. ASSUME NEW t \in Session PROVE Fresh(t)' /\ Attended(t)' /\ Entered(t)'
    <3>1. CASE t = s
      BY <1>1, <2>1, <2>3, <3>1 DEF DaemonType, Fresh, Attended, Entered
    <3>2. CASE t # s
      BY <1>1, <2>1, <2>2, <3>2 DEF DaemonType, Fresh, Attended, Entered
    <3> QED BY <3>1, <3>2
  <2>6. Inside' /\ Ending'
    BY <1>1, <2>1 DEF DaemonType, Inside, Ending, loose
  <2> QED BY <2>1, <2>4, <2>5, <2>6, NoCrash
<1> QED BY <1>2, <1>3

\* The entry is deleted; a session gives up before it is reported.
LEMMA DeletedKeeps ==
  ASSUME NEW s \in Session, DaemonInv, Deleted(s) PROVE DaemonInv'
<1> USE DEF DaemonInv
<1>1. /\ handler[s] = "deleting" /\ session[s] = "down"
      /\ handler' = [handler EXCEPT ![s] = "idle"]
      /\ table' = IF table = None THEN None ELSE table \ {s}
      /\ UNCHANGED <<tunnel, session, gone, appClosed, raced, pppd, waiter, closer, ctx, main>>
      /\ fault' = None
  BY DEF Deleted, library, children, process, alive, Attended
<1>2. table' \in (SUBSET Session) \cup {None} /\ (table' = None <=> table = None)
  BY <1>1, NoneIsNoTable DEF DaemonType
<1>3. DaemonType'
  BY <1>1, <1>2 DEF DaemonType
<1>4. \A t \in Session : Fresh(t)' /\ Attended(t)' /\ Entered(t)'
  BY <1>1 DEF DaemonType, Fresh, Attended, Entered
<1>5. Inside' /\ Ending'
  BY <1>1, <1>2 DEF DaemonType, Inside, Ending, loose
<1> QED BY <1>1, <1>3, <1>4, <1>5, NoCrash

LEMMA GivesUpKeeps ==
  ASSUME NEW s \in Session, DaemonInv, SessionGivesUp(s) PROVE DaemonInv'
<1> USE DEF DaemonInv
<1>1. /\ gone' = gone \union {s}
      /\ UNCHANGED <<tunnel, session, appClosed, table, handler, raced, pppd, waiter, closer,
                     ctx, main>>
      /\ fault' = None
  BY DEF SessionGivesUp, Lib!GiveUp, children, process, alive
<1>2. DaemonType'
  BY <1>1 DEF DaemonType
<1>3. \A t \in Session : Fresh(t)' /\ Attended(t)' /\ Entered(t)'
  BY <1>1 DEF Fresh, Attended, Entered
<1>4. Inside' /\ Ending'
  BY <1>1 DEF Inside, Ending, loose
<1> QED BY <1>1, <1>2, <1>3, <1>4, NoCrash

\* pppd exits and its goroutine notices.
LEMMA PppdKeeps ==
  ASSUME NEW s \in Session, DaemonInv, PppdExits(s) \/ Waited(s) PROVE DaemonInv'
<1> USE DEF DaemonInv
<1>1. /\ \/ /\ pppd[s] \in {"running", "signalled"} /\ pppd' = [pppd EXCEPT ![s] = "exited"]
            /\ UNCHANGED waiter
         \/ /\ waiter[s] = "waiting" /\ pppd[s] = "exited"
            /\ waiter' = [waiter EXCEPT ![s] = "sending"]
            /\ UNCHANGED pppd
      /\ UNCHANGED <<tunnel, session, gone, appClosed, table, handler, raced, closer, ctx, main>>
      /\ fault' = None
  BY DEF PppdExits, Waited, library, process, alive
<1>2. DaemonType'
  BY <1>1 DEF DaemonType
<1>3. \A t \in Session : Fresh(t)' /\ Attended(t)' /\ Entered(t)'
  BY <1>1 DEF DaemonType, Fresh, Attended, Entered
<1>4. Inside' /\ Ending'
  BY <1>1 DEF DaemonType, Inside, Ending, loose
<1> QED BY <1>1, <1>2, <1>3, <1>4, NoCrash

\* run takes the message of that goroutine.
LEMMA CompleteKeeps ==
  ASSUME NEW s \in Session, DaemonInv, TakePppComplete(s) PROVE DaemonInv'
<1> USE DEF DaemonInv
<1>1. /\ waiter[s] = "sending" /\ waiter' = [waiter EXCEPT ![s] = "done"]
      /\ \/ ctx = "no" /\ closer' = [closer EXCEPT ![s] = "started"]
         \/ ctx # "no" /\ UNCHANGED closer
      /\ UNCHANGED <<tunnel, session, gone, appClosed, table, handler, raced, pppd, ctx, main>>
      /\ fault' = None
  BY DEF TakePppComplete, startCloser, rest, library, process, alive
<1>2. closer[s] = "none" /\ s \notin appClosed
  BY <1>1 DEF Attended
<1>3. DaemonType'
  BY <1>1 DEF DaemonType
<1>4. \A t \in Session : Fresh(t)' /\ Attended(t)' /\ Entered(t)'
  BY <1>1, <1>2 DEF DaemonType, Fresh, Attended, Entered
<1>5. Inside' /\ Ending'
  BY <1>1 DEF DaemonType, Inside, Ending, loose
<1> QED BY <1>1, <1>3, <1>4, <1>5, NoCrash

\* Session.Close() unlinks the session, and returns.
LEMMA CloserKeeps ==
  ASSUME NEW s \in Session, DaemonInv, CloserCalls(s) \/ CloserReturns(s) PROVE DaemonInv'
<1> USE DEF DaemonInv
<1>1. /\ \/ /\ closer[s] = "started" /\ closer' = [closer EXCEPT ![s] = "closing"]
            /\ appClosed' = appClosed \union {s}
         \/ /\ closer[s] = "closing" /\ closer' = [closer EXCEPT ![s] = "done"]
            /\ (session[s] = "down" \/ s \in gone) /\ handler[s] = "idle"
            /\ UNCHANGED appClosed
      /\ UNCHANGED <<tunnel, session, gone, table, handler, raced, pppd, waiter, ctx, main>>
      /\ fault' = None
  BY DEF CloserCalls, CloserReturns, Lib!CloseSession, library, process, alive
<1>2. DaemonType'
  BY <1>1 DEF DaemonType
<1>3. \A t \in Session : Fresh(t)' /\ Attended(t)' /\ Entered(t)'
  BY <1>1 DEF DaemonType, Fresh, Attended, Entered
<1>4. Inside' /\ Ending'
  BY <1>1 DEF DaemonType, Inside, Ending, loose
<1> QED BY <1>1, <1>2, <1>3, <1>4, NoCrash

\* Creating tunnels and sessions, signals, and the shutdown.
LEMMA RunKeeps ==
  ASSUME DaemonInv,
         \/ Setup \/ Signal \/ TakeSignal \/ ContextClosed \/ WaitedForAll \/ Exit
         \/ UNCHANGED vars
  PROVE  DaemonInv'
<1> USE DEF DaemonInv
<1>1. UNCHANGED <<library, table, handler, raced, children, fault>>
  BY DEF Setup, Signal, TakeSignal, ContextClosed, WaitedForAll, Exit, vars, rest, children
<1>2. UNCHANGED <<tunnel, session, gone, appClosed, table, handler, raced, pppd, waiter, closer, fault>>
  BY <1>1 DEF library, children
<1>3. DaemonType'
  BY <1>2 DEF DaemonType
<1>4. \A t \in Session : Fresh(t)' /\ Attended(t)' /\ Entered(t)'
  BY <1>2 DEF Fresh, Attended, Entered
<1>5. Inside' /\ CrashesOnlyIf'
  BY <1>2 DEF Inside, CrashesOnlyIf, loose
<1>6. Ending'
  <2> USE DEF Ending
  <2>1. CASE Setup
    BY <1>2, <2>1 DEF Setup
  <2>2. CASE Signal \/ UNCHANGED vars
    BY <1>2, <2>2 DEF Signal, vars, process
  <2>3. CASE TakeSignal
    BY <1>2, <2>3 DEF TakeSignal
  <2>4. CASE ContextClosed
    BY <1>2, <2>4 DEF ContextClosed
  <2>5. CASE WaitedForAll
    BY <1>2, <2>5 DEF WaitedForAll
  <2>6. CASE Exit
    BY <1>2, <2>6 DEF Exit
  <2> QED BY <2>1, <2>2, <2>3, <2>4, <2>5, <2>6
<1> QED BY <1>3, <1>4, <1>5, <1>6

\* The invariant is inductive.
LEMMA DaemonStep == DaemonInv /\ [Next]_vars => DaemonInv'
  BY TunnelKeeps, SessionUpKeeps, StoreKeeps, StoredKeeps, SessionDownKeeps, DeletedKeeps,
     GivesUpKeeps, PppdKeeps, CompleteKeeps, CloserKeeps, RunKeeps
  DEF Next

\* HandleEvent misses an entry, or the map, only in the cases CrashesOnlyIf
\* names: in every other history the entry a SessionDownEvent dereferences has
\* been stored by the SessionUpEvent before it.
THEOREM EntryFound == Spec => []CrashesOnlyIf
<1>1. DaemonInv => CrashesOnlyIf
  BY DEF DaemonInv
<1> QED BY DaemonInit, DaemonStep, <1>1, PTL DEF Spec

\* When run returns 0 every pppd of a session that has not given up has exited
\* and been waited for, whatever happened between the signal and app.wg.Wait().
THEOREM ExitsClean == Spec => []CleanExit
<1>1. DaemonInv => CleanExit
  <2> SUFFICES ASSUME DaemonInv, main = "ok", NEW s \in Session \ gone
               PROVE  pppd[s] \in {"none", "exited"} /\ handler[s] = "idle"
    BY DEF CleanExit
  <2>1. tunnel # "up" /\ waiter[s] \in {"none", "done"} /\ closer[s] \in {"none", "done"}
    BY DEF DaemonInv, Ending
  <2>2. handler[s] = "idle"
    <3>1. CASE s \in appClosed
      BY <2>1, <3>1 DEF DaemonInv, Attended
    <3>2. CASE s \notin appClosed /\ tunnel = "down"
      BY <3>2 DEF DaemonInv, Inside, loose
    <3>3. CASE tunnel = "none"
      BY <3>3 DEF DaemonInv, Inside, Fresh
    <3> QED BY <2>1, <3>1, <3>2, <3>3 DEF DaemonInv, Inside
  <2> QED BY <2>1, <2>2 DEF DaemonInv, Attended
<1> QED BY DaemonInit, DaemonStep, <1>1, PTL DEF Spec
=============================================================================
