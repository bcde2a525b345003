--------------------------- MODULE ControlMessage ---------------------------
(***************************************************************************)
(* The control messages of l2tp/msg.go: the builder of every message, the  *)
(* wire format, the parser of a received buffer and the validation of the  *)
(* AVPs of a message, composed as a writer and a reader of one datagram.   *)
(*                                                                         *)
(* A message is a record of the header's fields and its AVPs; tid is the   *)
(* control connection ID in version 3, whose header has no session ID.     *)
(***************************************************************************)
EXTENDS Avp, FiniteSets

CONSTANTS
  Config,        \* the TunnelConfig, SessionConfig and arguments of a builder
  Seqs,          \* transport sequence numbers
  Extras,        \* AVPs a peer adds to a message: records of typ, vid, data
  MayMiss,       \* whether a peer leaves one AVP out
  PerFrame,      \* messages in one datagram
  RecvSizes,     \* sizes of the transport's receive buffer (4096 in the code)
  None

v2TidSidMax == 65535
v2HeaderLen == 12
controlMessageMinLen == 12
commonHeaderLen == 4

MsgType == [ sccrq |-> 1, sccrp |-> 2, scccn |-> 3, stopccn |-> 4, hello |-> 6,
             icrq |-> 10, icrp |-> 11, iccn |-> 12, cdn |-> 14, ack |-> 20 ]

(***************************************************************************)
(* What RFC2661 and RFC3931 require of each message.                       *)
(***************************************************************************)
tunnelOptions ==
  { avpTypeBearerCap, avpTypeRxWindowSize, avpTypeChallenge, avpTypeTiebreaker,
    avpTypeFirmwareRevision, avpTypeVendorName }

getV2MsgSpec ==
  LET spec(must, may) == [must |-> must \union {avpTypeMessage}, may |-> may]
      opening == { avpTypeProtocolVersion, avpTypeHostName, avpTypeFramingCap,
                   avpTypeTunnelID }
  IN  [ sccrq   |-> spec(opening, tunnelOptions),
        sccrp   |-> spec(opening, tunnelOptions \union {avpTypeChallengeResponse}),
        scccn   |-> spec({}, {avpTypeChallengeResponse}),
        stopccn |-> spec({avpTypeTunnelID, avpTypeResultCode}, {}),
        hello   |-> spec({}, {}),
        icrq    |-> spec({avpTypeSessionID, avpTypeCallSerialNumber},
                         {18, 25} \union 21..23),
        icrp    |-> spec({avpTypeSessionID}, {}),
        iccn    |-> spec({avpTypeConnectSpeed, avpTypeFramingType},
                         26..33 \union 37..39),
        cdn     |-> spec({avpTypeResultCode, avpTypeSessionID},
                         {avpTypeQ931CauseCode}) ]

getV3MsgSpec ==
  [ hello |-> [must |-> {avpTypeMessage},
               may |-> {avpTypeRandomVector, avpTypeMessageDigest}] ]

validateAvps(avps, spec) ==
  /\ \A i \in DOMAIN avps :
       LET typ == avps[i].header.AvpType
       IN  IF typ \in spec.must \union spec.may THEN decode(avps[i]).err = "none"
           ELSE ~isMandatory(avps[i].header)
  /\ \A typ \in spec.must :
       \E i \in DOMAIN avps : avps[i].header.AvpType = typ

\* A version 2 message without AVPs is an acknowledgement; -1 is a panic.  The
\* message type AVP was found to be the first one when the message was parsed.
getType(m) ==
  IF m.ver = 2 /\ m.avps = <<>> THEN MsgType.ack
  ELSE IF decode(m.avps[1]).err = "none" THEN decode(m.avps[1]).val ELSE -1

validate(m) ==
  LET specs == IF m.ver = 2 THEN getV2MsgSpec ELSE getV3MsgSpec
  IN  \E k \in DOMAIN specs :
        getType(m) = MsgType[k] /\ validateAvps(m.avps, specs[k])

(***************************************************************************)
(* Building a message: AVPs are appended one by one, and the header's      *)
(* length of 16 bits follows.                                              *)
(***************************************************************************)
newV2ControlMessage(tid, sid, avps) ==
  [ ver |-> 2, len |-> (v2HeaderLen + avpsLengthBytes(avps)) % 65536,
    tid |-> tid, sid |-> sid, ns |-> 0, nr |-> 0, avps |-> avps ]

newV3ControlMessage(ccid, avps) ==
  [newV2ControlMessage(ccid, 0, avps) EXCEPT !.ver = 3]

appendAvp(m, a) ==
  [m EXCEPT !.avps = Append(@, a), !.len = (@ + totalLen(a.header)) % 65536]

\* The AVPs of the builders newV2Sccrq to newV2Cdn after the message type.
contents(k, c) ==
  LET avp(typ, t, v) == <<typ, [t |-> t, v |-> v]>>
      version == avp(avpTypeProtocolVersion, "bytes", <<1, 0>>)
      host == avp(avpTypeHostName, "string", c.HostName)
      framing == avp(avpTypeFramingCap, "uint32", c.FramingCaps)
      tunnel == avp(avpTypeTunnelID, "uint16", c.TunnelID % 65536)
      session == avp(avpTypeSessionID, "uint16", c.SessionID % 65536)
      result == avp(avpTypeResultCode, "resultCode", c.rc)
  IN  CASE k = "sccrq" -> <<version, host, framing, tunnel>>
        [] k = "sccrp" -> <<version, framing, host, tunnel>>
        [] k = "stopccn" -> <<tunnel, result>>
        [] k = "icrq" -> <<session, avp(avpTypeCallSerialNumber, "uint32", c.callSerial)>>
        [] k = "icrp" -> <<session>>
        [] k = "iccn" -> <<avp(avpTypeConnectSpeed, "uint32", 0),
                           avp(avpTypeFramingType, "uint32", 3)>>
        [] k = "cdn" -> <<result, session>>
        [] k \in {"scccn", "hello"} -> <<>>

ptid(k, c) == IF k = "sccrq" THEN 0 ELSE c.PeerTunnelID

\* A variant that gives a message the sender's own session ID.
psidLocal(k, c) == IF k \in {"icrp", "iccn", "cdn"} THEN c.SessionID ELSE 0

psid(k, c) == IF k \in {"icrp", "iccn", "cdn"} THEN c.PeerSessionID ELSE 0

inRange(k, c) == ptid(k, c) <= v2TidSidMax /\ psid(k, c) <= v2TidSidMax

buildV2Msg(k, c) ==
  LET in == << <<avpTypeMessage, [t |-> "msgID", v |-> MsgType[k]]>> >> \o contents(k, c)
  IN  FoldLeft(LAMBDA m, i : appendAvp(m, newAvp(i[1], i[2])),
               newV2ControlMessage(ptid(k, c), psid(k, c), <<>>), in)

buildable(k, c) ==
  inRange(k, c) /\ \A i \in DOMAIN contents(k, c) :
                     encodes(contents(k, c)[i][1], contents(k, c)[i][2])

(***************************************************************************)
(* The wire format.                                                        *)
(***************************************************************************)
toBytes(m) ==
  Bytes(51200 + m.ver, 2) \o Bytes(m.len, 2)
    \o (IF m.ver = 2 THEN Bytes(m.tid, 2) \o Bytes(m.sid, 2) ELSE Bytes(m.tid, 4))
    \o Bytes(m.ns, 2) \o Bytes(m.nr, 2)
    \o FlattenSeq([i \in DOMAIN m.avps |-> avpBytes(m.avps[i])])

parseHeader(b, ver) ==
  [ ver |-> ver, len |-> Number(SubSeq(b, 3, 4)),
    tid |-> Number(SubSeq(b, 5, IF ver = 2 THEN 6 ELSE 8)),
    sid |-> IF ver = 2 THEN Number(SubSeq(b, 7, 8)) ELSE 0,
    ns |-> Number(SubSeq(b, 9, 10)), nr |-> Number(SubSeq(b, 11, 12)) ]

\* bytesToV2CtlMsg and bytesToV3CtlMsg: b is one message.  Only version 2 has
\* messages without AVPs; otherwise the message type comes first.
bytesToCtlMsg(b, ver) ==
  LET h == parseHeader(b, ver)
      avps == parseAVPBuffer(SubSeq(b, v2HeaderLen + 1, h.len))
      msg(as) == [ ver |-> ver, len |-> h.len, tid |-> h.tid, sid |-> h.sid,
                   ns |-> h.ns, nr |-> h.nr, avps |-> as ]
  IN  IF Len(b) < v2HeaderLen THEN Failed
      ELSE IF ver = 2 /\ h.len = v2HeaderLen THEN Parsed(msg(<<>>))
      ELSE IF avps.err # "none" THEN avps
      ELSE IF avps.val[1].header.AvpType # avpTypeMessage THEN Failed
      ELSE Parsed(msg(avps.val))

\* A variant that clips a length beyond the buffer instead of refusing it.
parseMessageBufferClipped(b) ==
  LET len == Number(SubSeq(b, 3, 4))
      clipped == [i \in DOMAIN b |-> IF i = 3 THEN Len(b) \div 256
                                     ELSE IF i = 4 THEN Len(b) % 256 ELSE b[i]]
      m == bytesToCtlMsg(IF len > Len(b) THEN clipped ELSE b, b[2] % 16)
  IN  IF m.err = "none" THEN Parsed(<<m.val>>) ELSE m

\* at is the offset of a message.  The step to the next one is taken from
\* behind the common header.
parseMessageBuffer(b) ==
  LET parse[at \in 0..(Len(b) + commonHeaderLen)] ==
        LET len == Number(SubSeq(b, at + 3, at + 4))
            ver == b[at + 2] % 16
            m == bytesToCtlMsg(SubSeq(b, at + 1, at + len), ver)
        IN  IF Len(b) - at < controlMessageMinLen THEN Parsed(<<>>)
            ELSE IF (len - commonHeaderLen) % 65536 > Len(b) - at - commonHeaderLen
            THEN Failed
            ELSE IF ver \notin {2, 3} THEN Failed
            ELSE IF m.err # "none" THEN m
            ELSE prepend(m.val, parse[at + commonHeaderLen + len])
  IN  parse[0]

(***************************************************************************)
(* A writer builds the messages of one datagram and a reader parses them.  *)
(* A peer's message may have an AVP more (an optional one) or less than    *)
(* the builders of this code give it.                                      *)
(***************************************************************************)
VARIABLES
  recvSize,      \* the size of the receive buffer
  sent,          \* the messages: what they were built from, form and message
  frame,         \* the datagram
  got            \* the result of parsing it

vars == <<recvSize, sent, frame, got>>

Init == recvSize \in RecvSizes /\ sent = <<>> /\ frame = <<>> /\ got = None

write(k, c, form, m) ==
  /\ frame = <<>> /\ Len(sent) < PerFrame
  /\ sent' = Append(sent, [kind |-> k, cfg |-> c, form |-> form, msg |-> m])
  /\ UNCHANGED <<recvSize, frame, got>>

Build(k, c) == buildable(k, c) /\ write(k, c, "whole", buildV2Msg(k, c))

\* The ID of the peer is too large, or an AVP does not take its value.
BuildFails(k, c) == ~buildable(k, c) /\ write(k, c, "refused", None)

\* Version 3 messages have no builder: the AVPs are given.
BuildV3(c) ==
  write("hello", c, "whole",
        newV3ControlMessage(c.PeerTunnelID, buildV2Msg("hello", c).avps))

extraAvp(e) ==
  [ header |-> newAvpHeader(FALSE, Len(e.data), e.vid, e.typ),
    dataType |-> IF known(e.typ, e.vid) THEN getAVPInfo(e.typ).dataType ELSE "bytes",
    data |-> e.data ]

PeerAdds(k, c, e) ==
  /\ buildable(k, c)
  /\ write(k, c, "extra", appendAvp(buildV2Msg(k, c), extraAvp(e)))

PeerOmits(k, c, i) ==
  /\ buildable(k, c) /\ MayMiss
  /\ LET m == buildV2Msg(k, c)
     IN  write(k, c, "missing", newV2ControlMessage(m.tid, m.sid, RemoveAt(m.avps, i)))

\* setTransportSeqNum and toBytes, by the transport's sender.
Write(ns, nr) ==
  LET out == [i \in DOMAIN sent |-> [sent[i] EXCEPT !.msg.ns = ns, !.msg.nr = nr]]
  IN  /\ Len(sent) = PerFrame /\ frame = <<>>
      /\ \A i \in DOMAIN sent : sent[i].form # "refused"
      /\ sent' = out
      /\ frame' = FlattenSeq([i \in DOMAIN out |-> toBytes(out[i].msg)])
      /\ UNCHANGED <<recvSize, got>>

\* recvFrame: the socket delivers at most the size of the receive buffer.
Receive ==
  /\ frame # <<>> /\ got = None
  /\ got' = parseMessageBuffer(SubSeq(frame, 1, IF Len(frame) < recvSize
                                                THEN Len(frame) ELSE recvSize))
  /\ UNCHANGED <<recvSize, sent, frame>>

\* The message is handled, or its sender gives up.
Handled ==
  /\ got # None \/ \E i \in DOMAIN sent : sent[i].form = "refused"
  /\ sent' = <<>> /\ frame' = <<>> /\ got' = None
  /\ UNCHANGED recvSize

Next ==
  \/ \E k \in DOMAIN getV2MsgSpec, c \in Config :
       \/ Build(k, c) \/ BuildFails(k, c)
       \/ \E e \in Extras : PeerAdds(k, c, e)
       \/ \E i \in 1..(Len(contents(k, c)) + 1) : PeerOmits(k, c, i)
  \/ \E c \in Config : BuildV3(c)
  \/ \E ns, nr \in Seqs : Write(ns, nr)
  \/ Receive
  \/ Handled

Spec == Init /\ [][Next]_vars

(***************************************************************************)
(* Properties                                                              *)
(***************************************************************************)
received == got # None /\ Len(frame) <= recvSize

\* parseMessageBuffer is the inverse of toBytes: every message built here, of
\* either version and with sequence numbers of 16 bits, comes back as it was.
RoundTrip ==
  received => \A i \in DOMAIN sent :
                sent[i].form = "whole" => got.err = "none" /\ got.val[i] = sent[i].msg

\* What this code builds the other end understands.  A builder fails only for
\* an ID that version 2 has no room for.  validate accepts exactly the messages
\* that are complete: all that are built here, with or without an optional AVP
\* more, and none that lacks an AVP.  A message is addressed to the peer's IDs,
\* and the tunnel ID, session ID and result code that fsmActOnSccrp,
\* fsmActOnIcrp and the handlers of StopCCN and CDN look up are the writer's.
ReadBack ==
  /\ \A i \in DOMAIN sent : sent[i].form = "refused" =>
       sent[i].cfg.PeerTunnelID > 65535 \/ sent[i].cfg.PeerSessionID > 65535
  /\ received => \A i \in DOMAIN sent :
       (got.err = "none" /\ validate(got.val[i])) <=> sent[i].form # "missing"
  /\ received => \A i \in DOMAIN sent : sent[i].form = "whole" =>
       LET k == sent[i].kind
           c == sent[i].cfg
           m == got.val[i]
       IN  /\ m.tid = IF k = "sccrq" THEN 0 ELSE c.PeerTunnelID
           /\ m.sid = IF k \in {"icrp", "iccn", "cdn"} THEN c.PeerSessionID ELSE 0
           /\ k \in {"sccrq", "sccrp", "stopccn"} =>
                findAvp(m.avps, avpTypeTunnelID, "uint16") = Parsed(c.TunnelID)
           /\ k \in {"icrq", "icrp", "cdn"} =>
                findAvp(m.avps, avpTypeSessionID, "uint16") = Parsed(c.SessionID)
           /\ k \in {"stopccn", "cdn"} =>
                findAvp(m.avps, avpTypeResultCode, "resultCode") = Parsed(c.rc)

\* A datagram cut off by the receive buffer is never taken for a message.
TruncatedRejected == got # None /\ Len(frame) > recvSize => got.val = <<>>

\* avp.totalLen: "the total number of bytes consumed by the AVP, inclusive of
\* the AVP header and data payload".  (Ten bits are too few for a long name.)
TotalLenExact ==
  \A i \in DOMAIN sent : sent[i].form # "refused" => \A j \in DOMAIN sent[i].msg.avps :
    LET a == sent[i].msg.avps[j] IN totalLen(a.header) = avpHeaderLen + Len(a.data)

\* parseAVPBuffer: unrecognised AVPs without the mandatory bit "MUST be
\* ignored": the message is the one without them.
UnknownIgnored ==
  received => \A i \in DOMAIN sent :
    sent[i].form = "extra" =>
      got.err = "none" /\ got.val[i].avps = buildV2Msg(sent[i].kind, sent[i].cfg).avps

\* parseMessageBuffer parses a buffer "into an array of controlMessage
\* instances": as many as the datagram holds.
ArrayParsed ==
  received => got.err = "none" /\ Len(got.val) = Len(sent)
=============================================================================
