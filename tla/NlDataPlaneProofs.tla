------------------------- MODULE NlDataPlaneProofs --------------------------
(***************************************************************************)
(* Proofs about NlDataPlane, for any number of callers and any             *)
(* configurations: a response that travels over the shared channels of a   *)
(* netlink connection reaches the caller whose request it answers.         *)
(***************************************************************************)
EXTENDS NlDataPlane, TLAPS

\* The types the proof needs.
ConnType ==
  /\ pc \in [Caller -> {"idle", "send", "wait", "panic"}]
  /\ from \in [Caller -> Caller]
  /\ srv \in [pc : {"recv", "serve", "respond", "exit"},
              by : Caller \union {None}, ok : BOOLEAN]

\* Why no response goes astray: a caller that waits is the one runConn is
\* working for, so at most one caller waits.
OneWaits ==
  \A c \in Caller : pc[c] = "wait" => srv.pc \in {"serve", "respond"} /\ srv.by = c

ConnInv == ConnType /\ OneWaits /\ ResponseIsMine

\* Dial establishes the invariant: nobody waits.
LEMMA ConnInit == Init => ConnInv
<1> SUFFICES ASSUME Init PROVE ConnInv
  OBVIOUS
<1>1. pc = [c \in Caller |-> "idle"] /\ from = [c \in Caller |-> c]
  BY DEF Init
<1>2. srv \in [pc : {"recv", "serve", "respond", "exit"}, by : Caller \union {None}, ok : BOOLEAN]
  BY Zenon DEF Init
<1> QED BY <1>1, <1>2 DEF ConnInv, ConnType, OneWaits, ResponseIsMine

\* A caller's request, response or panic, and what runConn does, preserve it.
LEMMA ConnStep == ConnInv /\ [Next]_vars => ConnInv'
<1> SUFFICES ASSUME ConnInv, [Next]_vars PROVE ConnInv'
  OBVIOUS
<1> USE DEF ConnInv, ConnType, OneWaits, ResponseIsMine
<1>1. CASE UNCHANGED vars
  BY <1>1 DEF vars
<1>2. ASSUME NEW c \in Caller, NEW o \in {"create", "stats", "name", "down"}, Call(c, o)
      PROVE  ConnInv'
  BY <1>2 DEF Call
<1>3. ASSUME NEW c \in Caller, Send(c) PROVE ConnInv'
  BY <1>3 DEF Send
<1>4. ASSUME NEW c \in Caller, SendPanics(c) PROVE ConnInv'
  BY <1>4 DEF SendPanics
<1>5. ASSUME NEW c \in Caller, Respond(c) PROVE ConnInv'
  <2>1. srv.by = c /\ srv.pc = "respond"
    BY <1>5 DEF Respond
  <2>2. from' = from
    BY <1>5, <2>1 DEF Respond
  <2>3. \A d \in Caller : pc'[d] # "wait"
    BY <1>5, <2>1 DEF Respond
  <2> QED BY <1>5, <2>1, <2>2, <2>3 DEF Respond
<1>6. ASSUME NEW ok \in BOOLEAN, Serve(ok) PROVE ConnInv'
  BY <1>6 DEF Serve
<1>7. CASE ConnEnds
  BY <1>7 DEF ConnEnds
<1>8. ASSUME NEW c \in Caller, CloseSocket(c) PROVE ConnInv'
  BY <1>8 DEF CloseSocket
<1>9. CASE Closed \/ Close
  BY <1>9 DEF Closed, Close
<1> QED
  BY <1>1, <1>2, <1>3, <1>4, <1>5, <1>6, <1>7, <1>8, <1>9 DEF Next, CallerSteps, ConnSteps

\* The response execute returns answers the request it was given, although all
\* callers share reqChan and rspChan (nll2tp.go, execute and runConn).
THEOREM ResponsesNotMixedUp == Spec => []ResponseIsMine
<1>1. ConnInv => ResponseIsMine
  BY DEF ConnInv
<1> QED BY ConnInit, ConnStep, <1>1, PTL DEF Spec

\* At most one caller is between its request and its response: runConn serves
\* requests one at a time.
THEOREM OneRequestAtATime ==
  Spec => [](\A c, d \in Caller : pc[c] = "wait" /\ pc[d] = "wait" => c = d)
<1>1. ConnInv => \A c, d \in Caller : pc[c] = "wait" /\ pc[d] = "wait" => c = d
  BY DEF ConnInv, OneWaits
<1> QED BY ConnInit, ConnStep, <1>1, PTL DEF Spec
=============================================================================
