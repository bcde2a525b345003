-------------------------- MODULE MCControlMessage --------------------------
(***************************************************************************)
(* Configurations and peer AVPs for model checking ControlMessage.         *)
(***************************************************************************)
EXTENDS ControlMessage

name(n) == [i \in 1..n |-> 97]

config(host, tid, ptidv, sid, rc) ==
  [ HostName |-> name(host), FramingCaps |-> 3, TunnelID |-> tid,
    PeerTunnelID |-> ptidv, SessionID |-> sid, PeerSessionID |-> 65536 - sid,
    callSerial |-> 70000, rc |-> rc ]

\* Names of every length from none on, IDs at both ends of their range, result
\* codes with and without a message, and a peer ID too large for version 2.
Small ==
  { config(h, t, p, t, IF h = 0 THEN [result |-> 1, errCode |-> 0, errMsg |-> <<>>]
                       ELSE [result |-> 258, errCode |-> 8, errMsg |-> name(h - 1)]) :
      h \in 0..2, t \in {1, 65535}, p \in {258} }
  \union { config(1, 5, 65536, 6, [result |-> 1, errCode |-> 0, errMsg |-> <<>>]) }

One == { config(1, 5, 6, 7, [result |-> 1, errCode |-> 0, errMsg |-> <<>>]) }

LongName == { config(n, 5, 6, 7, [result |-> 1, errCode |-> 0, errMsg |-> <<>>]) :
                n \in 1017..1018 }

\* Optional AVPs the code knows but the message does not ask for: a firmware
\* revision, a physical channel, a preferred language.
KnownExtras ==
  { [typ |-> 6, vid |-> 0, data |-> <<1, 2>>],
    [typ |-> 25, vid |-> 0, data |-> <<0, 0, 0, 9>>],
    [typ |-> 72, vid |-> 0, data |-> <<101>>] }

\* An optional AVP of another vendor.
VendorExtra == { [typ |-> 1, vid |-> 9, data |-> <<0, 0, 0, 0, 0, 1, 2>>] }
=============================================================================
