--------------------------- MODULE MCNlDataPlane ---------------------------
(***************************************************************************)
(* Callers and configurations for model checking NlDataPlane.              *)
(***************************************************************************)
EXTENDS NlDataPlane, TLC

CONSTANTS t1, t2, s1, s2

tunnelConf(tid, managed) ==
  [ kind |-> "tunnel", tid |-> tid, ptid |-> tid + 1, version |-> 3, encap |-> "udp",
    managed |-> managed, addresses |-> "inet", ports |-> TRUE ]

sessionConf(tid, sid, pw) ==
  [ kind |-> "session", tid |-> tid, ptid |-> tid + 1, sid |-> sid, psid |-> sid + 7,
    pw |-> pw, seqNum |-> TRUE, reorder |-> 0, cookie |-> noCookie,
    peerCookie |-> noCookie, ifName |-> "", l2spec |-> "default" ]

\* A managed and a static tunnel whose IDs are each other's neighbours, and a
\* session in either.
Mixed ==
  t1 :> tunnelConf(1, TRUE) @@ t2 :> tunnelConf(2, FALSE)
    @@ s1 :> sessionConf(1, 1, "ethVlan") @@ s2 :> sessionConf(2, 1, "ppp")

\* One tunnel and two sessions, one of them with both cookies.
Cookies ==
  t1 :> tunnelConf(1, FALSE) @@ s1 :> sessionConf(1, 1, "eth")
    @@ s2 :> [sessionConf(1, 2, "eth") EXCEPT
                !.cookie = [len |-> 8, val |-> "local"],
                !.peerCookie = [len |-> 4, val |-> "peer"]]
=============================================================================
