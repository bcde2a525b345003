-------------------------- MODULE MCDynamicTunnel ---------------------------
(***************************************************************************)
(* Instances of DynamicTunnel for TLC.                                     *)
(***************************************************************************)
EXTENDS DynamicTunnel, TLC

CONSTANTS s1, s2

OwnNames == [s \in Session |-> s]

Symmetric == Permutations(Session)

tunnelMsgs(types, oks) == [type : types, sid : {None}, ok : oks]
sessionMsgs(types, oks) == [type : types, sid : Session, ok : oks]

\* A peer that keeps to the protocol and takes the call; messages that change
\* nothing come in between.
AnsweringPeer == tunnelMsgs({"sccrp", "hello", "foreign"}, {TRUE}) \cup sessionMsgs({"icrp"}, {TRUE})
OpeningPeer == tunnelMsgs({"sccrp"}, {TRUE})
HangingUpPeer == tunnelMsgs({"sccrp"}, {TRUE}) \cup sessionMsgs({"icrp", "cdn"}, {TRUE})

\* A peer that sends anything, also out of turn, twice or malformed.
AnyPeer ==
    tunnelMsgs({"sccrp", "stopccn"}, {TRUE}) \cup tunnelMsgs({"other"}, {FALSE})
        \cup sessionMsgs({"icrp", "cdn"}, {TRUE})
QuietPeer == tunnelMsgs({"sccrp", "stopccn"}, {TRUE}) \cup sessionMsgs({"icrp"}, {TRUE})
=============================================================================
