------------------------------- MODULE Config -------------------------------
(***************************************************************************)
(* Loading a configuration file (config/config.go).  A file, a tunnel      *)
(* block and a session block map keys to TOML values, and Go ranges        *)
(* over a map in any order: each iteration of the four nested loops is a   *)
(* step.  A value is a record of its TOML type and contents; numbers come  *)
(* as int64 or uint64, tables hold a map.                                  *)
(***************************************************************************)
EXTENDS Integers, Sequences, FiniteSets, TLC

CONSTANTS
  File,          \* the files: maps from keys to values
  Uint32Max,     \* the largest uint32
  customParser,  \* pairs of level and key the application's ConfigParser accepts
  None

isTable(v) == v.t = "table"

Ok(v) == [ok |-> TRUE, val |-> v]

Bad == [ok |-> FALSE, val |-> None]

(***************************************************************************)
(* Conversions, named after the type a key has.                            *)
(***************************************************************************)
toUint(v, max) ==
  IF v.t \in {"int64", "uint64"} /\ v.v \in 0..max THEN Ok(v.v) ELSE Bad

toString(v) == IF v.t = "string" THEN Ok(v.v) ELSE Bad

toBool(v) == IF v.t = "bool" THEN Ok(v.v) ELSE Bad

\* toVersion, toEncapType, toPseudowireType and toL2SpecType.
toEnum(v, values) == IF v.t = "string" /\ v.v \in values THEN Ok(v.v) ELSE Bad

toFramingCaps(v) ==
  IF v.t = "array" /\ \A i \in DOMAIN v.v : toEnum(v.v[i], {"sync", "async"}).ok
  THEN Ok({v.v[i].v : i \in DOMAIN v.v}) ELSE Bad

toBytes(v) ==
  IF v.t = "array" /\ \A i \in DOMAIN v.v : toUint(v.v[i], 255).ok
  THEN Ok([i \in DOMAIN v.v |-> v.v[i].v]) ELSE Bad

\* A variant that reads the 16 bit numbers as 32 bit ones.
tunnelParameterWide(k, v) ==
  CASE k \in {"local", "peer", "host_name"} -> toString(v)
    [] k = "encap" -> toEnum(v, {"udp", "ip"})
    [] k = "version" -> toEnum(v, {"l2tpv2", "l2tpv3"})
    [] k = "framing_caps" -> toFramingCaps(v)
    [] OTHER -> toUint(v, Uint32Max)

tunnelParameter(k, v) ==
  CASE k \in {"local", "peer", "host_name"} -> toString(v)
    [] k = "encap" -> toEnum(v, {"udp", "ip"})
    [] k = "version" -> toEnum(v, {"l2tpv2", "l2tpv3"})
    [] k \in {"tid", "ptid", "hello_timeout", "retry_timeout"} -> toUint(v, Uint32Max)
    [] k \in {"window_size", "max_retries"} -> toUint(v, 65535)
    [] k = "framing_caps" -> toFramingCaps(v)

sessionParameter(k, v) ==
  CASE k \in {"sid", "psid", "reorder_timeout"} -> toUint(v, Uint32Max)
    [] k = "pseudowire" -> toEnum(v, {"ppp", "eth"})
    [] k = "seqnum" -> toBool(v)
    [] k \in {"cookie", "peer_cookie"} -> toBytes(v)
    [] k = "interface_name" -> toString(v)
    [] k = "l2spec_type" -> toEnum(v, {"none", "default"})

\* The zero values of TunnelConfig and SessionConfig, None for an absent string
\* or enumeration; framing capabilities default to both.
newTunnelDefaults ==
  [ local |-> None, peer |-> None, host_name |-> None, encap |-> None,
    version |-> None, tid |-> 0, ptid |-> 0, hello_timeout |-> 0,
    retry_timeout |-> 0, window_size |-> 0, max_retries |-> 0,
    framing_caps |-> {"sync", "async"} ]

newSessionDefaults ==
  [ sid |-> 0, psid |-> 0, reorder_timeout |-> 0, pseudowire |-> None,
    seqnum |-> FALSE, cookie |-> <<>>, peer_cookie |-> <<>>,
    interface_name |-> None, l2spec_type |-> None ]

(***************************************************************************)
(* The loops.                                                              *)
(***************************************************************************)
VARIABLES
  file,          \* the file being loaded
  keys,          \* newConfig: keys still to process
  blocks,        \* loadTunnels: tunnels still to load
  tunnel,        \* newTunnelConfig: the tunnel being loaded and its keys left
  names,         \* loadSessions: sessions still to load
  session,       \* newSessionConfig: the session being loaded and its keys left
  tunnels,       \* Config.Tunnels
  result         \* loading, ok or error

vars == <<file, keys, blocks, tunnel, names, session, tunnels, result>>

loaders == <<keys, blocks, tunnel, names, session, tunnels>>

idle == [name |-> None, left |-> {}]

block == file["tunnel"].v[tunnel.name]

\* Which loop is running.
inTop == result = "loading" /\ blocks = {} /\ tunnel = idle

inTunnels == result = "loading" /\ blocks # {} /\ tunnel = idle

inTunnel == result = "loading" /\ tunnel # idle /\ names = {} /\ session = idle

inSessions == result = "loading" /\ names # {} /\ session = idle

inSession == result = "loading" /\ session # idle

Init ==
  /\ file \in File
  /\ keys = DOMAIN file
  /\ blocks = {} /\ names = {} /\ tunnel = idle /\ session = idle
  /\ tunnels = <<>>
  /\ result = "loading"

\* An error returns through all the loops.
fail == result' = "error" /\ UNCHANGED <<file, loaders>>

goOn == UNCHANGED <<file, result>>

\* newConfig: the tunnel table has to be there and not empty.
TopKey(k) ==
  /\ inTop /\ k \in keys
  /\ LET v == file[k]
         ok == IF k = "tunnel" THEN isTable(v) /\ DOMAIN v.v # {}
               ELSE <<"config", k>> \in customParser
     IN  IF ~ok THEN fail
         ELSE /\ keys' = keys \ {k}
              /\ blocks' = IF k = "tunnel" THEN DOMAIN v.v ELSE {}
              /\ goOn /\ UNCHANGED <<tunnel, names, session, tunnels>>

BeginTunnel(n) ==
  /\ inTunnels /\ n \in blocks
  /\ IF ~isTable(file["tunnel"].v[n]) THEN fail
     ELSE /\ tunnel' = [name |-> n, left |-> DOMAIN file["tunnel"].v[n].v,
                        cfg |-> newTunnelDefaults, sessions |-> <<>>]
          /\ goOn /\ UNCHANGED <<keys, blocks, names, session, tunnels>>

\* A bad max_retries is not an error: the err tested after the switch is not
\* the one toUint16 was assigned to.
TunnelKey(k) ==
  /\ inTunnel /\ k \in tunnel.left \ {"session"}
  /\ LET known == k \in DOMAIN newTunnelDefaults
         r == IF known THEN tunnelParameter(k, block.v[k]) ELSE Bad
     IN  IF r.ok \/ k = "max_retries" \/ (~known /\ <<"tunnel", k>> \in customParser)
         THEN /\ tunnel' = [tunnel EXCEPT !.left = @ \ {k},
                                          !.cfg = IF r.ok THEN [@ EXCEPT ![k] = r.val] ELSE @]
              /\ goOn /\ UNCHANGED <<keys, blocks, names, session, tunnels>>
         ELSE fail

\* loadSessions: the value has to be a table of named session blocks.
Sessions ==
  /\ inTunnel /\ "session" \in tunnel.left
  /\ IF ~isTable(block.v["session"]) THEN fail
     ELSE /\ tunnel' = [tunnel EXCEPT !.left = @ \ {"session"}]
          /\ names' = DOMAIN block.v["session"].v
          /\ goOn /\ UNCHANGED <<keys, blocks, session, tunnels>>

\* A variant that fills one SessionConfig for all the sessions.
BeginSessionShared(n) ==
  /\ inSessions /\ n \in names
  /\ LET v == block.v["session"].v[n]
         done == tunnel.sessions
     IN  IF ~isTable(v) THEN fail
         ELSE /\ session' = [name |-> n, left |-> DOMAIN v.v,
                             cfg |-> IF done = <<>> THEN newSessionDefaults
                                     ELSE done[Len(done)].cfg]
              /\ goOn /\ UNCHANGED <<keys, blocks, tunnel, names, tunnels>>

BeginSession(n) ==
  /\ inSessions /\ n \in names
  /\ LET v == block.v["session"].v[n]
     IN  IF ~isTable(v) THEN fail
         ELSE /\ session' = [name |-> n, left |-> DOMAIN v.v, cfg |-> newSessionDefaults]
              /\ goOn /\ UNCHANGED <<keys, blocks, tunnel, names, tunnels>>

SessionKey(k) ==
  /\ inSession /\ k \in session.left
  /\ LET known == k \in DOMAIN newSessionDefaults
         r == IF known THEN sessionParameter(k, block.v["session"].v[session.name].v[k])
              ELSE Bad
     IN  IF r.ok \/ (~known /\ <<"session", k>> \in customParser)
         THEN /\ session' = [session EXCEPT !.left = @ \ {k},
                                            !.cfg = IF r.ok THEN [@ EXCEPT ![k] = r.val] ELSE @]
              /\ goOn /\ UNCHANGED <<keys, blocks, tunnel, names, tunnels>>
         ELSE fail

EndSession ==
  /\ inSession /\ session.left = {}
  /\ tunnel' = [tunnel EXCEPT !.sessions =
                  Append(@, [name |-> session.name, cfg |-> session.cfg])]
  /\ names' = names \ {session.name} /\ session' = idle
  /\ goOn /\ UNCHANGED <<keys, blocks, tunnels>>

EndTunnel ==
  /\ inTunnel /\ tunnel.left = {}
  /\ tunnels' = Append(tunnels, [name |-> tunnel.name, cfg |-> tunnel.cfg,
                                 sessions |-> tunnel.sessions])
  /\ blocks' = blocks \ {tunnel.name} /\ tunnel' = idle
  /\ goOn /\ UNCHANGED <<keys, names, session>>

Loaded ==
  /\ inTop /\ keys = {}
  /\ result' = "ok"
  /\ UNCHANGED <<file, loaders>>

Next ==
  \/ \E k \in keys : TopKey(k)
  \/ \E n \in blocks : BeginTunnel(n)
  \/ \E k \in tunnel.left : TunnelKey(k)
  \/ Sessions
  \/ \E n \in names : BeginSession(n)
  \/ \E k \in session.left : SessionKey(k)
  \/ EndSession
  \/ EndTunnel
  \/ Loaded

Spec == Init /\ [][Next]_vars

(***************************************************************************)
(* Properties                                                              *)
(***************************************************************************)
tunnelsOf(f) == IF "tunnel" \in DOMAIN f THEN f["tunnel"].v ELSE <<>>

sessionsOf(t) == IF "session" \in DOMAIN t.v THEN t.v["session"].v ELSE <<>>

\* What the comments at the head of config.go say of the values, key by key.
largest ==
  [k \in {"tid", "ptid", "hello_timeout", "retry_timeout", "sid", "psid",
          "reorder_timeout"} |-> Uint32Max] @@ [window_size |-> 65535, max_retries |-> 65535]

words ==
  [ encap |-> {"udp", "ip"}, version |-> {"l2tpv2", "l2tpv3"},
    pseudowire |-> {"ppp", "eth"}, l2spec_type |-> {"none", "default"} ]

isNumber(v, max) == v.t \in {"int64", "uint64"} /\ v.v >= 0 /\ v.v <= max

wellFormed(k, v) ==
  \/ k \in DOMAIN largest /\ isNumber(v, largest[k])
  \/ k \in DOMAIN words /\ v.t = "string" /\ v.v \in words[k]
  \/ k \in {"local", "peer", "host_name", "interface_name"} /\ v.t = "string"
  \/ k = "seqnum" /\ v.t = "bool"
  \/ k = "framing_caps" /\ v.t = "array"
       /\ \A i \in DOMAIN v.v : v.v[i].t = "string" /\ v.v[i].v \in {"sync", "async"}
  \/ k \in {"cookie", "peer_cookie"} /\ v.t = "array"
       /\ \A i \in DOMAIN v.v : isNumber(v.v[i], 255)

meaning(k, v) ==
  CASE k = "framing_caps" -> {v.v[i].v : i \in DOMAIN v.v}
    [] k \in {"cookie", "peer_cookie"} -> [i \in DOMAIN v.v |-> v.v[i].v]
    [] OTHER -> v.v

\* The configuration a block describes.
described(defaults, b) ==
  [k \in DOMAIN defaults |->
     IF k \in DOMAIN b.v /\ wellFormed(k, b.v[k]) THEN meaning(k, b.v[k])
     ELSE defaults[k]]

badKeys(level, defaults, b) ==
  {k \in DOMAIN b.v : IF k \in DOMAIN defaults THEN ~wellFormed(k, b.v[k])
                      ELSE k # "session" /\ <<level, k>> \notin customParser}

badTunnelKeys(t) == badKeys("tunnel", newTunnelDefaults, t)

badSession(s) == ~isTable(s) \/ badKeys("session", newSessionDefaults, s) # {}

badTunnel(t) ==
  \/ ~isTable(t)
  \/ badTunnelKeys(t) \ {"max_retries"} # {}
  \/ "session" \in DOMAIN t.v /\ ~isTable(t.v["session"])
  \/ \E n \in DOMAIN sessionsOf(t) : badSession(sessionsOf(t)[n])

malformed ==
  \/ "tunnel" \in DOMAIN file /\ (~isTable(file["tunnel"]) \/ tunnelsOf(file) = <<>>)
  \/ \E k \in DOMAIN file \ {"tunnel"} : <<"config", k>> \notin customParser
  \/ \E n \in DOMAIN tunnelsOf(file) : badTunnel(tunnelsOf(file)[n])

\* What is loaded does not depend on the order in which Go ranges over the
\* maps: every tunnel and session of the file once, every value under its own
\* field, and the default where the file gives none.
LoadedAsWritten ==
  result = "ok" =>
    LET written == tunnelsOf(file)
    IN  /\ Len(tunnels) = Cardinality(DOMAIN written)
        /\ \A n \in DOMAIN written : \E i \in DOMAIN tunnels :
             LET t == tunnels[i]
                 ws == sessionsOf(written[n])
             IN  /\ t.name = n
                 /\ t.cfg = described(newTunnelDefaults, written[n])
                 /\ Len(t.sessions) = Cardinality(DOMAIN ws)
                 /\ \A m \in DOMAIN ws : \E j \in DOMAIN t.sessions :
                      t.sessions[j] =
                        [name |-> m, cfg |-> described(newSessionDefaults, ws[m])]

\* Whether a file is refused does not depend on the order either: newConfig
\* reports an error exactly if some key is unknown or some value is not of the
\* type, in the range of its field or among the words documented, so no
\* conversion lets a number through that its field cannot hold.  max_retries is
\* excepted, and the narrower ranges of DocumentedRanges are not checked at all.
RefusedIffMalformed ==
  (result = "ok" => ~malformed) /\ (result = "error" => malformed)

\* config.go on converting numbers: "range check to ensure that the number from
\* the config fits within the range of the destination type".
NumbersChecked ==
  result = "ok" => \A n \in DOMAIN tunnelsOf(file) : badTunnelKeys(tunnelsOf(file)[n]) = {}

\* config.go on IDs and cookies: "L2TPv2 session IDs are 16 bit, and may be in
\* the range 1 - 65535", "Cookies may be either 4 or 8 bytes long".
DocumentedRanges ==
  \A i \in DOMAIN tunnels : \A j \in DOMAIN tunnels[i].sessions :
    LET s == tunnels[i].sessions[j].cfg
    IN  /\ s.sid >= 1 /\ (tunnels[i].cfg.version = "l2tpv2" => s.sid <= 65535)
        /\ {Len(s.cookie), Len(s.peer_cookie)} \subseteq {0, 4, 8}
=============================================================================
