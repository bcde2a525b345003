------------------------------ MODULE MCConfig ------------------------------
(***************************************************************************)
(* Files for the configuration runs: a well-formed block in which the      *)
(* values of up to two tunnel keys and one session key are replaced, each  *)
(* by values that fit and values that do not.                              *)
(***************************************************************************)
EXTENDS Config

int(n) == [t |-> "int64", v |-> n]

uint(n) == [t |-> "uint64", v |-> n]

str(s) == [t |-> "string", v |-> s]

arr(s) == [t |-> "array", v |-> s]

table(b) == [t |-> "table", v |-> b]

baseTunnel ==
  [ peer |-> str("lns"), encap |-> str("udp"), tid |-> uint(Uint32Max) ]

otherTunnel ==
  { "version" :> str("l2tpv3"), "version" :> str("l2tpv4"), "encap" :> str("tcp"),
    "ptid" :> int(-1), "tid" :> int(Uint32Max + 1), "window_size" :> uint(65535),
    "window_size" :> int(65536), "framing_caps" :> arr(<<str("sync")>>),
    "framing_caps" :> arr(<<str("sync"), str("isdn")>>), "host_name" :> int(1),
    "hello_timeout" :> int(0), "session" :> str("s1"), "mtu" :> int(1500) }

badRetries == {"max_retries" :> int(65536), "max_retries" :> str("3")}

goodRetries == {"max_retries" :> int(5)}

baseSession == [ sid |-> int(1), pseudowire |-> str("ppp") ]

otherSession ==
  { "cookie" :> arr(<<int(255), uint(0), int(1), int(2)>>),
    "peer_cookie" :> arr(<<int(256), int(0), int(0), int(0)>>),
    "seqnum" :> [t |-> "bool", v |-> TRUE], "seqnum" :> int(1), "psid" :> uint(7),
    "pseudowire" :> str("vlan"), "l2spec_type" :> str("default"),
    "interface_name" :> str("ppp0"), "pppd_args" :> str("/etc/args"),
    "mtu" :> int(1500) }

\* The block of tunnel t1; t2 has nothing but a peer.
tunnelBlock(a, b, c) ==
  table(a @@ b @@ [session |-> table([s1 |-> table(c @@ baseSession),
                                      s2 |-> table("sid" :> int(2))])]
        @@ baseTunnel)

Blocks ==
  {"tunnel" :> table([t1 |-> tunnelBlock(a, <<>>, c), t2 |-> table("peer" :> str("lns2"))]) :
     a \in otherTunnel \cup goodRetries \cup badRetries \cup {<<>>},
     c \in otherSession \cup {<<>>}}
  \cup {"tunnel" :> table([t1 |-> tunnelBlock(a, b, <<>>)]) :
          a \in otherTunnel, b \in otherTunnel \cup goodRetries \cup badRetries}
  \cup {"tunnel" :> table([t1 |-> tunnelBlock("session" :> table("s1" :> int(1)), <<>>, <<>>)]),
        "tunnel" :> table([t1 |-> str("lns")]), "tunnel" :> table(<<>>),
        "tunnel" :> str("t1"), "debug" :> int(1)}

Files == Blocks \cup {"logging" :> str("on") @@ b : b \in {f \in Blocks : "debug" \notin DOMAIN f}}

\* A cookie of a length that no data packet can carry.
ShortCookie == {"tunnel" :> table([t1 |-> tunnelBlock(<<>>, <<>>,
                                     "cookie" :> arr(<<int(1), int(2)>>))])}

Accepted == {<<"session", "pppd_args">>, <<"config", "logging">>}
=============================================================================
