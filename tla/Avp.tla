-------------------------------- MODULE Avp --------------------------------
(***************************************************************************)
(* The attribute value pairs (AVPs) of L2TP control messages: header and   *)
(* payload encoding, the parser of an AVP buffer, and the typed lookups of *)
(* l2tp/avp.go.  A buffer is a sequence of bytes.  A value to be encoded   *)
(* is a record of its Go type and its contents; strings are sequences of   *)
(* bytes.  Numbers stay below 2^31.                                        *)
(***************************************************************************)
EXTENDS Integers, Sequences, SequencesExt

avpHeaderLen == 6
vendorIDIetf == 0

\* binary.Write and binary.Read of a number of w bytes, big endian.
Bytes(n, w) ==
  [i \in 1..w |-> IF w - i > 3 THEN 0 ELSE (n \div 256 ^ (w - i)) % 256]

Number(b) ==
  LET value[i \in 0..Len(b)] == IF i = 0 THEN 0 ELSE 256 * value[i - 1] + b[i]
  IN  value[Len(b)]

(***************************************************************************)
(* The AVP types by name, and the table of what each one carries.          *)
(***************************************************************************)
avpTypeMessage == 0
avpTypeResultCode == 1
avpTypeProtocolVersion == 2
avpTypeFramingCap == 3
avpTypeBearerCap == 4
avpTypeTiebreaker == 5
avpTypeFirmwareRevision == 6
avpTypeHostName == 7
avpTypeVendorName == 8
avpTypeTunnelID == 9
avpTypeRxWindowSize == 10
avpTypeChallenge == 11
avpTypeQ931CauseCode == 12
avpTypeChallengeResponse == 13
avpTypeSessionID == 14
avpTypeCallSerialNumber == 15
avpTypeConnectSpeed == 24
avpTypeFramingType == 19
avpTypeRandomVector == 36
avpTypeMessageDigest == 59

avpTypes == 0..75

avpDataTypes ==
  [ msgID |-> {0}, resultCode |-> {1}, empty |-> {39},
    uint16 |-> {6, 9, 10, 14, 29} \union 68..71,
    uint32 |-> {3, 4, 24, 25, 38, 60, 61, 63, 64} \union 15..19,
    uint64 |-> {74, 75},
    string |-> {7, 8, 30, 37} \union 21..23,
    bytes |-> {2, 5, 11, 13, 36, 59, 65, 66, 72, 73} \union 26..28
              \union 31..33,
    unimplemented |-> {12, 20, 34, 35, 62},
    illegal |-> 40..58 \union {67} ]

\* getAVPInfo: defined for the IETF vendor's types only (known).
known(typ, vid) == vid = vendorIDIetf /\ typ \in avpTypes

getAVPInfo(typ) ==
  [ isMandatory |-> typ \in {0, 1, 3, 4, 7, 34, 35, 36, 39} \union 9..19
                             \union 21..24,
    dataType |-> CHOOSE d \in DOMAIN avpDataTypes : typ \in avpDataTypes[d] ]

(***************************************************************************)
(* Headers: the mandatory bit, the hidden bit and a length of ten bits,    *)
(* then the vendor and the type.                                           *)
(***************************************************************************)
\* A variant whose length leaves out the header.
newAvpHeaderLenUnbiased(mandatory, payloadBytes, vid, typ) ==
  [ FlagLen |-> (IF mandatory THEN 32768 ELSE 0) + (payloadBytes % 1024),
    VendorID |-> vid, AvpType |-> typ ]

newAvpHeader(mandatory, payloadBytes, vid, typ) ==
  [ FlagLen |-> (IF mandatory THEN 32768 ELSE 0)
                + ((payloadBytes + avpHeaderLen) % 1024),
    VendorID |-> vid, AvpType |-> typ ]

isMandatory(h) == h.FlagLen \div 32768 = 1

totalLen(h) == h.FlagLen % 1024

dataLen(h) == totalLen(h) - avpHeaderLen

(***************************************************************************)
(* Encoding.  encodes is the type check of encodePayload: an Empty AVP     *)
(* fails it as well, whatever the value.                                   *)
(***************************************************************************)
encodes(typ, value) ==
  /\ known(typ, vendorIDIetf)
  /\ value.t = getAVPInfo(typ).dataType
  /\ value.t \notin {"empty", "unimplemented", "illegal"}

encodeResultCode(rc) == Bytes(rc.result, 2) \o Bytes(rc.errCode, 2) \o rc.errMsg

encodePayload(value) ==
  CASE value.t \in {"uint16", "msgID"} -> Bytes(value.v, 2)
    [] value.t = "uint32" -> Bytes(value.v, 4)
    [] value.t = "uint64" -> Bytes(value.v, 8)
    [] value.t \in {"string", "bytes"} -> value.v
    [] value.t = "resultCode" -> encodeResultCode(value.v)

newAvp(typ, value) ==
  LET buf == encodePayload(value)
      info == getAVPInfo(typ)
  IN  [ header |-> newAvpHeader(info.isMandatory, Len(buf), vendorIDIetf, typ),
        dataType |-> info.dataType, data |-> buf ]

avpBytes(a) ==
  Bytes(a.header.FlagLen, 2) \o Bytes(a.header.VendorID, 2)
    \o Bytes(a.header.AvpType, 2) \o a.data

avpsLengthBytes(avps) ==
  FoldLeft(LAMBDA n, a : n + totalLen(a.header), 0, avps)

(***************************************************************************)
(* Parsing.  A result is [err, val]; err is "none", "error" or "panic".    *)
(***************************************************************************)
Failed == [err |-> "error", val |-> <<>>]

Panicked == [err |-> "panic", val |-> <<>>]

Parsed(val) == [err |-> "none", val |-> val]

\* A loop's result with what this iteration has parsed in front.
prepend(x, rest) == IF rest.err = "none" THEN Parsed(<<x>> \o rest.val) ELSE rest

parseAVPHeader(b) ==
  [ FlagLen |-> Number(SubSeq(b, 1, 2)), VendorID |-> Number(SubSeq(b, 3, 4)),
    AvpType |-> Number(SubSeq(b, 5, 6)) ]

\* at is the number of bytes the reader has consumed; on is its value after
\* the header has been read.  An unknown optional AVP leaves the reader there.
parseAVPBuffer(b) ==
  LET parse[at \in 0..Len(b)] ==
        LET on == at + avpHeaderLen
            h == parseAVPHeader(SubSeq(b, at + 1, on))
        IN  CASE Len(b) - at < avpHeaderLen -> Parsed(<<>>)
              [] Len(b) - at >= avpHeaderLen /\ ~known(h.AvpType, h.VendorID) ->
                   IF isMandatory(h) THEN Failed ELSE parse[on]
              [] Len(b) - at >= avpHeaderLen /\ known(h.AvpType, h.VendorID) ->
                   IF dataLen(h) > Len(b) - on THEN Failed
                   ELSE IF dataLen(h) < 0 THEN Panicked
                   ELSE prepend([ header |-> h,
                                  dataType |-> getAVPInfo(h.AvpType).dataType,
                                  data |-> SubSeq(b, on + 1, on + dataLen(h)) ],
                                parse[on + dataLen(h)])
      r == parse[0]
  IN  IF r = Parsed(<<>>) THEN Failed ELSE r

(***************************************************************************)
(* Decoding.                                                               *)
(***************************************************************************)
toUint(data, w) == IF Len(data) = w THEN Parsed(Number(data)) ELSE Failed

toResultCode(data) ==
  IF Len(data) \in {0, 1, 3} THEN Failed
  ELSE Parsed([ result |-> Number(SubSeq(data, 1, 2)),
                errCode |-> IF Len(data) > 2 THEN Number(SubSeq(data, 3, 4)) ELSE 0,
                errMsg |-> SubSeq(data, 5, Len(data)) ])

decode(a) ==
  CASE a.dataType = "empty" -> Parsed(<<>>)
    [] a.dataType \in {"uint16", "msgID"} -> toUint(a.data, 2)
    [] a.dataType = "uint32" -> toUint(a.data, 4)
    [] a.dataType = "uint64" -> toUint(a.data, 8)
    [] a.dataType \in {"string", "bytes"} -> Parsed(a.data)
    [] a.dataType = "resultCode" -> toResultCode(a.data)
    [] a.dataType \in {"unimplemented", "illegal"} -> Failed

\* findAvp and the typed lookups built on it: the first AVP of the type, if it
\* carries the data type the caller asks for; findBytesAvp takes any.
findAvp(avps, typ, dataType) ==
  LET found == SelectSeq(avps, LAMBDA a : /\ a.header.VendorID = vendorIDIetf
                                          /\ a.header.AvpType = typ)
  IN  IF found = <<>> THEN Failed
      ELSE IF dataType = "bytes" THEN Parsed(Head(found).data)
      ELSE IF Head(found).dataType = dataType THEN decode(Head(found)) ELSE Failed
=============================================================================
