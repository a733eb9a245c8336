------------------------------- MODULE Codec -------------------------------
(***************************************************************************)
(* The protocol codec, src/internal/mcproto: VarInts, packets, strings,    *)
(* the handshake, Login Start and host names, as functions on sequences of *)
(* bytes.  A read looks at the front of a sequence and says how much of it *)
(* it has consumed (size).                                                 *)
(*                                                                         *)
(* Loops over bytes are written as what they compute, without recursion.   *)
(* Strings are UTF-8; white space and letter case are those of ASCII.      *)
(***************************************************************************)
EXTENDS Integers, Sequences

Byte == 0..255
Int32 == {v \in Int : -2147483647 - 1 <= v /\ v <= 2147483647}

MaxVarIntBytes == 5

From(s, i) == SubSeq(s, i, Len(s))

-----------------------------------------------------------------------------
\* What the i-th byte of a VarInt counts.
Unit == <<1, 128, 16384, 2097152, 268435456>>

\* value << 28 in 32 bits: the four low bits of the fifth byte, the highest of
\* them the sign.
Top(b) == LET t == b % 16 IN IF t >= 8 THEN t - 16 ELSE t

Group(s, n, i) == IF i > n THEN 0 ELSE IF i = 5 THEN Top(s[i]) ELSE s[i] % 128

VarIntValue(s, n) ==
    Group(s, n, 1) * Unit[1] + Group(s, n, 2) * Unit[2] + Group(s, n, 3) * Unit[3]
      + Group(s, n, 4) * Unit[4] + Group(s, n, 5) * Unit[5]

\* Byte n is the first without the continuation bit.
EndsAt(s, n) ==
    /\ n <= Len(s)
    /\ s[n] < 128
    /\ \A i \in 1..(n - 1) : s[i] >= 128

\* The loop gives up when it has read a sixth byte, whatever that byte is.
ReadVarInt(s) ==
    IF \E n \in 1..MaxVarIntBytes : EndsAt(s, n)
    THEN LET n == CHOOSE n \in 1..MaxVarIntBytes : EndsAt(s, n)
         IN  [err |-> "none", value |-> VarIntValue(s, n), size |-> n]
    ELSE IF Len(s) > MaxVarIntBytes
         THEN [err |-> "long", value |-> 0, size |-> MaxVarIntBytes + 1]
         ELSE [err |-> "eof", value |-> 0, size |-> Len(s)]

\* How many bytes hold the groups of uint32(v) up to its highest one bit.
VarIntSize(v) ==
    CASE v < 0                        -> 5
      [] 0 <= v /\ v < Unit[2]        -> 1
      [] Unit[2] <= v /\ v < Unit[3]  -> 2
      [] Unit[3] <= v /\ v < Unit[4]  -> 3
      [] Unit[4] <= v /\ v < Unit[5]  -> 4
      [] OTHER                        -> 5

Digit(v, i) == (v \div Unit[i]) % (IF i = 5 THEN 16 ELSE 128)

EncodeVarInt(v) ==
    [i \in 1..VarIntSize(v) |-> Digit(v, i) + (IF i < VarIntSize(v) THEN 128 ELSE 0)]

-----------------------------------------------------------------------------
Failed(err) == [err |-> err]

CheckPacketLength(length, max) == 0 <= length /\ length <= max

\* Plausible mistake, for mutation checks: the length is encoded again.
Raw_Encoded(s, length, payload) == EncodeVarInt(length.value) \o payload

\* Raw is put together from the bytes of the length as they came and the payload.
Raw(s, length, payload) == SubSeq(s, 1, length.size) \o payload

\* Nothing is read beyond the packet.
ReadPacket(s, max) ==
    LET length  == ReadVarInt(s)
        rest    == From(s, length.size + 1)
        payload == SubSeq(rest, 1, length.value)
        id      == ReadVarInt(payload)
    IN  IF length.err # "none" THEN Failed(length.err)
        ELSE IF ~CheckPacketLength(length.value, max) THEN Failed("length")
        ELSE IF length.value > Len(rest) THEN Failed("eof")
        ELSE IF id.err # "none" THEN Failed("id")
        ELSE [err  |-> "none",
              id   |-> id.value,
              data |-> From(payload, id.size + 1),
              raw  |-> Raw(s, length, payload),
              size |-> length.size + length.value]

NewPacket(id, data) ==
    LET payload == EncodeVarInt(id) \o data
    IN  [err |-> "none", id |-> id, data |-> data,
         raw |-> EncodeVarInt(Len(payload)) \o payload]

-----------------------------------------------------------------------------
\* Bytes that the lead byte b announces, itself included; 0 if it cannot lead.
Width(b) ==
    CASE b < 128              -> 1
      [] b \in 194..223       -> 2
      [] b \in 224..239       -> 3
      [] b \in 240..244       -> 4
      [] OTHER                -> 0

Trails(b) == b \in 128..191

\* What may follow the lead bytes of overlong forms, surrogates and the last plane.
SecondFits(b, c) ==
    /\ b = 224 => c >= 160
    /\ b = 237 => c < 160
    /\ b = 240 => c >= 144
    /\ b = 244 => c < 144

Utf8Valid(s) ==
    \A i \in DOMAIN s :
        \/ Trails(s[i]) /\ \E j \in 1..(i - 1) : i - j < Width(s[j])
        \/ /\ Width(s[i]) > 0
           /\ i + Width(s[i]) - 1 <= Len(s)
           /\ \A j \in (i + 1)..(i + Width(s[i]) - 1) : Trails(s[j])
           /\ Width(s[i]) > 1 => SecondFits(s[i], s[i + 1])

\* One unit for each lead byte, two for those of four bytes.
utf16CodeUnits(s) ==
    Len(SelectSeq(s, LAMBDA b : ~Trails(b))) + Len(SelectSeq(s, LAMBDA b : b >= 240))

\* A bytes.Reader that is at its end answers EOF even to a read of no bytes, so
\* that an empty string is refused at the end of the data.
ReadString(s, maxChars) ==
    LET length == ReadVarInt(s)
        rest   == From(s, length.size + 1)
        value  == SubSeq(rest, 1, length.value)
    IN  IF \/ length.err # "none"
           \/ length.value < 0 \/ length.value > Len(rest) \/ length.value > maxChars * 4
           \/ rest = << >>
        THEN Failed("string")
        ELSE IF ~Utf8Valid(value) \/ utf16CodeUnits(value) > maxChars THEN Failed("string")
        ELSE [err |-> "none", value |-> value, size |-> length.size + length.value]

EncodeString(value) == EncodeVarInt(Len(value)) \o value

HandshakePacketID == 0
LoginStartPacketID == 0
StatusRequestPacketID == 0

\* What the active probe sends to a backend; port is two bytes.
BuildHandshake(version, host, port, next) ==
    NewPacket(HandshakePacketID,
              EncodeVarInt(version) \o EncodeString(host) \o port \o EncodeVarInt(next))

\* Bytes after the next state are ignored.
ParseHandshake(p) ==
    LET version == ReadVarInt(p.data)
        afterV  == From(p.data, version.size + 1)
        address == ReadString(afterV, 255)
        port    == From(afterV, address.size + 1)
        next    == ReadVarInt(From(port, 3))
    IN  IF p.id # HandshakePacketID \/ version.err # "none" THEN Failed("handshake")
        ELSE IF address.err # "none" THEN Failed("handshake")
        ELSE IF Len(port) < 2 \/ next.err # "none" THEN Failed("handshake")
        ELSE [err |-> "none", version |-> version.value, address |-> address.value,
              next |-> next.value]

\* The name, empty when the packet cannot be parsed: handleLogin goes on.
UsernameOf(p) ==
    LET name == ReadString(p.data, 16)
    IN  IF p.id = LoginStartPacketID /\ name.err = "none" THEN name.value ELSE << >>

-----------------------------------------------------------------------------
DOT == 46
COLON == 58
LBRACKET == 91
RBRACKET == 93
Space == {9, 10, 11, 12, 13, 32}

Positions(s, b) == {i \in DOMAIN s : s[i] = b}
First(I) == CHOOSE i \in I : \A j \in I : i <= j
Last(I) == CHOOSE i \in I : \A j \in I : j <= i

TrimSpace(s) ==
    LET I == {i \in DOMAIN s : s[i] \notin Space}
    IN  IF I = {} THEN << >> ELSE SubSeq(s, First(I), Last(I))

CutNul(s) == IF Positions(s, 0) = {} THEN s ELSE SubSeq(s, 1, First(Positions(s, 0)) - 1)

Bracketed(s) == s # << >> /\ s[1] = LBRACKET

\* net.SplitHostPort: the port follows the last colon; a host with colons of its
\* own stands in brackets, and brackets stand nowhere else.
HostOf(s) ==
    IF Bracketed(s) THEN SubSeq(s, 2, First(Positions(s, RBRACKET)) - 1)
                    ELSE SubSeq(s, 1, Last(Positions(s, COLON)) - 1)

PortOf(s) == From(s, Last(Positions(s, COLON)) + 1)

SplitsHostPort(s) ==
    /\ Positions(s, COLON) # {}
    /\ IF Bracketed(s)
       THEN /\ Positions(s, RBRACKET) = {Last(Positions(s, COLON)) - 1}
            /\ Positions(s, LBRACKET) = {1}
       ELSE /\ Positions(HostOf(s), COLON) = {}
            /\ Positions(s, LBRACKET) = {} /\ Positions(s, RBRACKET) = {}

Unbracketed(s) ==
    IF SplitsHostPort(s) THEN HostOf(s)
    ELSE IF Bracketed(s) /\ s[Len(s)] = RBRACKET THEN SubSeq(s, 2, Len(s) - 1)
    ELSE s

TrimDot(s) == IF s # << >> /\ s[Len(s)] = DOT THEN SubSeq(s, 1, Len(s) - 1) ELSE s

ToLower(s) == [i \in DOMAIN s |-> IF s[i] \in 65..90 THEN s[i] + 32 ELSE s[i]]

NormalizeHost(s) == ToLower(TrimDot(Unbracketed(CutNul(TrimSpace(s)))))
=============================================================================
