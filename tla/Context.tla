------------------------------ MODULE Context -------------------------------
(***************************************************************************)
(* The L2TP context: construction of tunnels by concurrent calls, the two  *)
(* registries, tunnels that end by themselves or are closed, and Close()   *)
(* of the context.  A call c of one of the New...Tunnel methods stands for *)
(* the tunnel it creates as well.                                          *)
(***************************************************************************)
EXTENDS Naturals

CONSTANTS
    Call,       \* calls of NewDynamicTunnel, NewQuiescentTunnel, NewStaticTunnel
    cfg,        \* cfg[c]: [kind, name, version, encap, tid, ptid, local, peer]
    MaxID,      \* generated IDs are 0..MaxID
    MaxV2ID,    \* largest ID of an L2TPv2 tunnel
    Stages,     \* where construction may fail: "cp", "bind", "dp", "xport"
    OneThread,  \* TRUE if the application makes its calls one after the other
    Closers,    \* tunnels the application closes itself
    CloseDead,  \* TRUE if it also closes tunnels that have ended by themselves
    None

ASSUME IDAssumption == MaxID \in Nat /\ MaxV2ID \in Nat

VARIABLES
    byName,    \* tunnelsByName
    byID,      \* tunnelsByID
    tid,       \* the ID a call has chosen, None before
    pc,        \* where each New...Tunnel call is
    tunnel,    \* "none", "running", "ended" (by itself), "closed"
    sock,      \* control plane sockets that are open
    closing,   \* Close() calls: "no", "called", "done", per tunnel
    ctx,       \* Close() of the context: "open", "closing", "closed"
    todo,      \* tunnels it still has to close
    cur,       \* the tunnel it is closing
    panicked   \* closeChan of a tunnel was closed twice

registry == <<byName, byID>>
ctxClose == <<ctx, todo, cur>>
vars == <<registry, tid, pc, tunnel, sock, closing, ctxClose, panicked>>

Init ==
    /\ byName = [n \in {cfg[c].name : c \in Call} |-> None]
    /\ byID = [i \in 0..MaxID |-> None]
    /\ tid = [c \in Call |-> None]
    /\ pc = [c \in Call |-> "idle"]
    /\ tunnel = [c \in Call |-> "none"]
    /\ sock = {}
    /\ closing = [c \in Call |-> "no"]
    /\ ctx = "open"
    /\ todo = {}
    /\ cur = None
    /\ panicked = FALSE
-----------------------------------------------------------------------------
\* Calls of the application that have begun and not returned.
busy ==
    {c \in Call : pc[c] \in {"named", "numbered", "built"} \/ closing[c] = "called"}
        \cup (IF ctx = "closing" THEN {None} ELSE {})

\* Nothing is called on a context after its Close().
mayCall == ctx = "open" /\ (OneThread => busy = {})

\* The sanity checks of the three constructors.
idsOK(c, low) ==
    IF c.version = 2 THEN c.tid \in low..MaxV2ID /\ (low = 0 \/ c.ptid \in low..MaxV2ID)
                     ELSE low = 0 \/ (c.tid # 0 /\ c.ptid # 0)

saneConfig(c) ==
    /\ c.version # 3 => c.encap # "IP"
    /\ c.kind = "dynamic" => idsOK(c, 0) /\ c.ptid = 0 /\ c.peer # ""
    /\ c.kind # "dynamic" => idsOK(c, 1) /\ c.local # "" /\ c.peer # ""
    /\ c.kind = "static" => c.version = 3

\* newUDPAddressPair, newIPAddressPair: both addresses resolve; a blank local
\* address takes the family of the peer's.
addressPair(c) ==
    IF c.encap \in {"UDP", "IP"} /\ c.peer \in {"v4", "v6"} /\ c.local \in {"", "v4", "v6"}
    THEN <<IF c.local = "" THEN c.peer ELSE c.local, c.peer>>
    ELSE None

findTunnelByName(n) == byName[n]

\* The constructor up to the choice of the ID.
Begin(c) ==
    /\ pc[c] = "idle"
    /\ mayCall
    /\ pc' = [pc EXCEPT ![c] = IF findTunnelByName(cfg[c].name) = None /\ saneConfig(cfg[c])
                               THEN "named" ELSE "failed"]
    /\ UNCHANGED <<registry, tid, tunnel, sock, closing, ctxClose, panicked>>

\* allocTid: of ten random IDs the first that is not registered.
allocTid == {i \in 0..MaxID : byID[i] = None}

free(i) == byID[i] = None

chosenIDs(c) ==
    IF cfg[c].tid = 0 THEN allocTid ELSE {i \in {cfg[c].tid} : free(i)}

ChooseID(c) ==
    /\ pc[c] = "named"
    /\ \/ \E i \in chosenIDs(c) :
             /\ tid' = [tid EXCEPT ![c] = i]
             /\ pc' = [pc EXCEPT ![c] = IF addressPair(cfg[c]) = None THEN "failed" ELSE "numbered"]
       \/ /\ IF cfg[c].tid = 0 THEN \E i \in 0..MaxID : ~free(i) ELSE ~free(cfg[c].tid)
          /\ pc' = [pc EXCEPT ![c] = "failed"]
          /\ UNCHANGED tid
    /\ UNCHANGED <<registry, tunnel, sock, closing, ctxClose, panicked>>

linkTunnel(c) ==
    /\ byName' = [byName EXCEPT ![cfg[c].name] = c]
    /\ byID' = [byID EXCEPT ![tid[c]] = c]

\* A variant that forgets tunnelsByID.
unlinkTunnelByName(c) ==
    /\ byName' = [byName EXCEPT ![cfg[c].name] = None]
    /\ UNCHANGED byID

unlinkTunnel(c) ==
    /\ byName' = [byName EXCEPT ![cfg[c].name] = None]
    /\ byID' = [byID EXCEPT ![tid[c]] = None]

\* newDynamicTunnel, newQuiescentTunnel, newStaticTunnel: the tunnel runs.
Construct(c) ==
    /\ pc[c] = "numbered"
    /\ cfg[c].kind = "dynamic" => cfg[c].version = 2
    /\ pc' = [pc EXCEPT ![c] = "built"]
    /\ tunnel' = [tunnel EXCEPT ![c] = "running"]
    /\ sock' = IF cfg[c].kind = "static" THEN sock ELSE sock \cup {c}
    /\ UNCHANGED <<registry, tid, closing, ctxClose, panicked>>

\* A constructor that fails calls Close() of the tunnel, which unlinks it.  Of a
\* dynamic tunnel whose goroutine has not been started it does nothing else.
ConstructFails(c) ==
    /\ pc[c] = "numbered"
    /\ \/ /\ cfg[c].kind = "dynamic" /\ cfg[c].version # 2
          /\ UNCHANGED <<registry, sock>>
       \/ \E stage \in Stages :
             /\ CASE cfg[c].kind = "dynamic" -> cfg[c].version = 2 /\ stage # "dp"
                  [] cfg[c].kind = "quiescent" -> TRUE
                  [] cfg[c].kind = "static" -> stage = "dp"
             /\ unlinkTunnel(c)
             /\ sock' = IF cfg[c].kind = "dynamic" /\ stage # "cp" THEN sock \cup {c} ELSE sock
    /\ pc' = [pc EXCEPT ![c] = "failed"]
    /\ UNCHANGED <<tid, tunnel, closing, ctxClose, panicked>>

Link(c) ==
    /\ pc[c] = "built"
    /\ linkTunnel(c)
    /\ pc' = [pc EXCEPT ![c] = "done"]
    /\ UNCHANGED <<tid, tunnel, sock, closing, ctxClose, panicked>>
-----------------------------------------------------------------------------
(* The end of a tunnel.                                                    *)

\* A dynamic or quiescent tunnel ends by itself: peer or transport.
TunnelEnds(c) ==
    /\ tunnel[c] = "running"
    /\ cfg[c].kind # "static"
    /\ closing[c] = "no"
    /\ tunnel' = [tunnel EXCEPT ![c] = "ended"]
    /\ sock' = sock \ {c}
    /\ unlinkTunnel(c)
    /\ UNCHANGED <<tid, pc, closing, ctxClose, panicked>>

\* Close() of a tunnel up to its wait: only a dynamic one is unlinked first.
\* Closing closeChan again panics; a static tunnel has none.
beginClose(c) ==
    /\ panicked' = (panicked \/ (closing[c] # "no" /\ cfg[c].kind # "static"))
    /\ closing' = [closing EXCEPT ![c] = IF @ = "done" THEN "done" ELSE "called"]
    /\ IF cfg[c].kind = "dynamic" THEN unlinkTunnel(c) ELSE UNCHANGED registry

\* The rest: the goroutine of a dynamic tunnel unlinks it if it was running;
\* the other kinds unlink in any case.
FinishClose(c) ==
    /\ closing[c] = "called"
    /\ closing' = [closing EXCEPT ![c] = "done"]
    /\ tunnel' = [tunnel EXCEPT ![c] = "closed"]
    /\ sock' = sock \ {c}
    /\ IF tunnel[c] = "running" \/ cfg[c].kind # "dynamic"
       THEN unlinkTunnel(c) ELSE UNCHANGED registry
    /\ UNCHANGED <<tid, pc, ctxClose, panicked>>

CloseTunnel(c) ==
    /\ c \in Closers
    /\ pc[c] = "done"
    /\ closing[c] = "no"
    /\ CloseDead \/ tunnel[c] = "running"
    /\ mayCall
    /\ beginClose(c)
    /\ UNCHANGED <<tid, pc, tunnel, sock, ctxClose>>

\* Context.Close(): what tunnelsByName holds is taken out of both maps ...
CloseContext ==
    /\ mayCall
    /\ ctx' = "closing"
    /\ todo' = {byName[n] : n \in DOMAIN byName} \ {None}
    /\ byName' = [n \in DOMAIN byName |-> None]
    /\ byID' = [i \in DOMAIN byID |-> IF \E c \in todo' : tid[c] = i THEN None ELSE byID[i]]
    /\ UNCHANGED <<tid, pc, tunnel, sock, closing, cur, panicked>>

\* ... and closed, one after the other,
CloseNext(c) ==
    /\ ctx = "closing"
    /\ cur = None
    /\ c \in todo
    /\ cur' = c
    /\ todo' = todo \ {c}
    /\ beginClose(c)
    /\ UNCHANGED <<tid, pc, tunnel, sock, ctx>>

\* A variant that does not wait for the tunnel.
CloseReturnedEarly ==
    /\ cur # None
    /\ cur' = None
    /\ UNCHANGED <<registry, tid, pc, tunnel, sock, closing, ctx, todo, panicked>>

CloseReturned ==
    /\ cur # None
    /\ closing[cur] = "done"
    /\ cur' = None
    /\ UNCHANGED <<registry, tid, pc, tunnel, sock, closing, ctx, todo, panicked>>

\* then the data plane is closed.
ContextClosed ==
    /\ ctx = "closing"
    /\ todo = {}
    /\ cur = None
    /\ ctx' = "closed"
    /\ UNCHANGED <<registry, tid, pc, tunnel, sock, closing, todo, cur, panicked>>

Next ==
    /\ ~panicked
    /\ \/ \E c \in Call :
             \/ Begin(c) \/ ChooseID(c) \/ Construct(c) \/ ConstructFails(c) \/ Link(c)
             \/ TunnelEnds(c) \/ CloseTunnel(c) \/ FinishClose(c) \/ CloseNext(c)
       \/ CloseContext \/ CloseReturned \/ ContextClosed

Spec == Init /\ [][Next]_vars
-----------------------------------------------------------------------------
(* Properties.                                                             *)

TypeOK ==
    /\ \A n \in DOMAIN byName : byName[n] \in Call \cup {None}
    /\ \A i \in 0..MaxID : byID[i] \in Call \cup {None}
    /\ tid \in [Call -> 0..MaxID \cup {None}]
    /\ pc \in [Call -> {"idle", "named", "numbered", "built", "done", "failed"}]
    /\ tunnel \in [Call -> {"none", "running", "ended", "closed"}]
    /\ closing \in [Call -> {"no", "called", "done"}]
    /\ sock \subseteq Call /\ todo \subseteq Call
    /\ ctx \in {"open", "closing", "closed"}
    /\ cur \in Call \cup {None}

\* tunnelsByName and tunnelsByID hold the same tunnels, each under its own
\* name and ID, although link, unlink and the constructors' failure paths
\* write them by key.
RegistriesAgree == \A c \in Call : byName[cfg[c].name] = c <=> (tid[c] # None /\ byID[tid[c]] = c)

\* Every tunnel whose constructor has returned it and that has not ended can be
\* found, by Context.Close() among others.
RunningIsRegistered ==
    \A c \in Call :
        pc[c] = "done" /\ tunnel[c] = "running" /\ closing[c] = "no" /\ ctx = "open"
            => byName[cfg[c].name] = c

\* Context.Close(): "Close tears down the context, including all the L2TP
\* tunnels and sessions running inside it."
CloseTearsDown == ctx = "closed" => \A c \in Call : pc[c] = "done" => tunnel[c] # "running"

\* closeChan of a tunnel is closed once, by Tunnel.Close() or Context.Close().
ClosedOnce == ~panicked

\* TunnelConfig.TunnelID: "Tunnel IDs must be unique to the host ..."
UniqueIDs ==
    \A c, d \in Call :
        tunnel[c] = "running" /\ tunnel[d] = "running" /\ tid[c] = tid[d] => c = d

\* "... and must be non-zero."
NonZeroIDs == \A c \in Call : tunnel[c] = "running" => tid[c] # 0

\* Tunnel.Close(): "Close closes the tunnel, releasing allocated resources.",
\* also when a failed constructor calls it.
FailedHoldsNothing == \A c \in Call : pc[c] = "failed" => c \notin sock
=============================================================================
