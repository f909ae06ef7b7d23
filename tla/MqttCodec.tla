------------------------------ MODULE MqttCodec ------------------------------
(***************************************************************************)
(* MqttEncoder and MqttParser (pico_mqtt): the control packets of MQTT and *)
(* their bytes.  A message is a record with a type and the fields of its   *)
(* struct; an optional field is a sequence of at most one element.  What   *)
(* the encoder refuses is not Encodable; what the parser reads is a set of *)
(* one, what it refuses the empty set.                                     *)
(*                                                                         *)
(* Half stands for 128 where bytes make a length or a number.  The first   *)
(* byte of a packet, the flags of CONNECT and the codes of SUBACK keep     *)
(* their eight bits.                                                       *)
(***************************************************************************)
EXTENDS Naturals, SequencesExt

CONSTANT Half       \* 128

ASSUME CodecAssumption == Half \in Nat /\ Half >= 4

Base == 2 * Half        \* 256
String == Seq(0..(Base - 1))

CONNECT == 1
CONNACK == 2
PUBLISH == 3
PUBREL == 6
SUBSCRIBE == 8
SUBACK == 9
UNSUBSCRIBE == 10
PINGRESP == 13
Acks == {4, 5, 6, 7, 11}    \* PUBACK, PUBREC, PUBREL, PUBCOMP, UNSUBACK
Empty == {12, 13, 14}       \* PINGREQ, PINGRESP, DISCONNECT

Failure == 128
SubackCodes == {0, 1, 2, Failure}

\* The bit of weight w of a byte.
Bit(b, w) == (b \div w) % 2

----------------------------------------------------------------------------
(* The messages.  A bool is 0 or 1; write_string does not look at the      *)
(* size, and a longer string than it can write is in no message.           *)

Byte == 0..255
Number == 0..(Base * Base - 1)
ShortString == {s \in String : Len(s) < Base * Base}
Optional(S) == {s \in Seq(S) : Len(s) <= 1}

Will == [topic : ShortString, message : ShortString, qos : Byte, retain : {0, 1}]

ConnectMessage ==
  [type : {CONNECT}, clean_session : {0, 1}, keep_alive : Number, client_id : ShortString,
   will : Optional(Will), username : Optional(ShortString), password : Optional(ShortString)]

ConnackMessage == [type : {CONNACK}, session_present : {0, 1}, return_code : Byte]

\* An id of 0 stands for no identifier.
PublishMessage ==
  [type : {PUBLISH}, topic : ShortString, payload : String, qos : Byte, id : Number,
   dup : {0, 1}, retain : {0, 1}]

AckMessage == [type : Acks, id : Number]
SubscribeMessage ==
  [type : {SUBSCRIBE}, id : Number, topics : Seq([filter : ShortString, qos : Byte])]
SubackMessage == [type : {SUBACK}, id : Number, codes : Seq(Byte)]
UnsubscribeMessage == [type : {UNSUBSCRIBE}, id : Number, filters : Seq(ShortString)]
EmptyMessage == [type : Empty]

ControlPacket ==
  ConnectMessage \cup ConnackMessage \cup PublishMessage \cup AckMessage \cup
  SubscribeMessage \cup SubackMessage \cup UnsubscribeMessage \cup EmptyMessage

----------------------------------------------------------------------------
(* MqttEncoder.                                                            *)

U16(v) == <<(v \div Base) % Base, v % Base>>

WithLength(string) == U16(Len(string)) \o string
Strings(strings) == FlattenSeq([i \in DOMAIN strings |-> WithLength(strings[i])])

\* The multiplier of the loops behind n bytes of a length.
Multipliers == <<1, Half, Half * Half, Half * Half * Half, Half * Half * Half * Half>>
Multiplier(n) == Multipliers[n + 1]

MaxBody == Multiplier(4) - 1

\* write_remaining_length: what is left of the value behind every byte.
RemainingLength(value) ==
  LET left[i \in 0..4] == IF i = 0 THEN value ELSE left[i - 1] \div Half
      last == CHOOSE i \in 1..4 : left[i] = 0 /\ \A j \in 1..(i - 1) : left[j] > 0
  IN [i \in 1..last |-> (left[i - 1] % Half) + IF i < last THEN Half ELSE 0]

\* make_packet; body.size() <= MaxBody
Packet(type, flags, body) ==
  <<16 * type + flags>> \o RemainingLength(Len(body)) \o body

\* Mutant of ConnectFlags: the will's QoS is a bit too high.
ConnectFlagsShifted(m) ==
  128 * Len(m.username) + 64 * Len(m.password) + 2 * m.clean_session +
  IF m.will = <<>> THEN 0 ELSE 4 + 16 * m.will[1].qos + 32 * m.will[1].retain

\* The flags of encode_connect.
ConnectFlags(m) ==
  128 * Len(m.username) + 64 * Len(m.password) + 2 * m.clean_session +
  IF m.will = <<>> THEN 0 ELSE 4 + 8 * m.will[1].qos + 32 * m.will[1].retain

\* The name "MQTT", of which nothing but its four letters matters, and the level.
Protocol == WithLength(<<1, 2, 3, 3>>) \o <<4>>

ConnectBody(m) ==
  Protocol \o <<ConnectFlags(m)>> \o U16(m.keep_alive) \o WithLength(m.client_id) \o
  FlattenSeq([i \in DOMAIN m.will |-> Strings(<<m.will[i].topic, m.will[i].message>>)]) \o
  Strings(m.username) \o Strings(m.password)

PublishBody(m) ==
  WithLength(m.topic) \o (IF m.qos > 0 THEN U16(m.id) ELSE <<>>) \o m.payload

SubscribeBody(m) ==
  U16(m.id) \o
  FlattenSeq([i \in DOMAIN m.topics |-> WithLength(m.topics[i].filter) \o <<m.topics[i].qos>>])

MessageBody(m) ==
  CASE m.type = CONNECT -> ConnectBody(m)
    [] m.type = CONNACK -> <<m.session_present, m.return_code>>
    [] m.type = PUBLISH -> PublishBody(m)
    [] m.type = SUBSCRIBE -> SubscribeBody(m)
    [] m.type = SUBACK -> U16(m.id) \o m.codes
    [] m.type = UNSUBSCRIBE -> U16(m.id) \o Strings(m.filters)
    [] m.type \in Acks -> U16(m.id)
    [] m.type \in Empty -> <<>>

MessageFlags(m) ==
  IF m.type = PUBLISH THEN 8 * m.dup + 2 * m.qos + m.retain
  ELSE IF m.type \in {PUBREL, SUBSCRIBE, UNSUBSCRIBE} THEN 2 ELSE 0

\* The checks of the encode_ functions.
Encodable(m) ==
  /\ m.type \in Acks \cup {SUBSCRIBE, SUBACK, UNSUBSCRIBE} => m.id # 0
  /\ m.type = CONNECT =>
       /\ m.client_id = <<>> => m.clean_session = 1
       /\ \A i \in DOMAIN m.will : m.will[i].qos <= 2
       /\ m.password # <<>> => m.username # <<>>
  /\ m.type = CONNACK => m.return_code <= 5
  /\ m.type = PUBLISH => m.topic # <<>> /\ m.qos <= 2 /\ (m.qos = 0 <=> m.id = 0)
  /\ m.type = SUBSCRIBE =>
       m.topics # <<>> /\ \A i \in DOMAIN m.topics : m.topics[i].filter # <<>> /\ m.topics[i].qos <= 2
  /\ m.type = SUBACK => m.codes # <<>> /\ ToSet(m.codes) \subseteq SubackCodes
  /\ m.type = UNSUBSCRIBE => m.filters # <<>> /\ <<>> \notin ToSet(m.filters)

Encoded(m) == Packet(m.type, MessageFlags(m), MessageBody(m))

----------------------------------------------------------------------------
(* MqttParser: the fixed header.  The n-th byte of the length is the byte  *)
(* n + 1 of the packet; TooMany stands for an error.                       *)

TooMany == 5

\* The length in the first n bytes of the field.
Value(b, n) ==
  LET upTo[i \in 0..n] ==
        IF i = 0 THEN 0 ELSE upTo[i - 1] + (b[i + 1] % Half) * Multiplier(i - 1)
  IN upTo[n]

\* decode_remaining_length; a field that ends too early is an error as well.
DecodedField(b) ==
  LET read[n \in 1..5] ==
        IF n >= Len(b) \/ n > 4 THEN TooMany
        ELSE IF b[n + 1] < Half THEN n ELSE read[n + 1]
  IN read[1]

Type(b) == b[1] \div 16
Flags(b) == b[1] % 16

\* validate_fixed_header_flags
FlagsFit(type, flags) ==
  \/ type = PUBLISH
  \/ flags = IF type \in {PUBREL, SUBSCRIBE, UNSUBSCRIBE} THEN 2 ELSE 0

\* parse_control_packet: the body.
Body(b) ==
  LET k == DecodedField(b) IN
  IF /\ Len(b) >= 2 /\ Type(b) \in 1..14 /\ FlagsFit(Type(b), Flags(b))
     /\ k # TooMany /\ Len(b) - (k + 1) >= Value(b, k)
  THEN {SubSeq(b, k + 2, k + 1 + Value(b, k))}
  ELSE {}

----------------------------------------------------------------------------
(* MqttParser: the bodies.                                                 *)

From(b, i) == SubSeq(b, i, Len(b))

\* read_u16, read_string and read_binary: the value, and what is behind it.
ReadU16(b) == IF Len(b) < 2 THEN {} ELSE {<<Base * b[1] + b[2], From(b, 3)>>}
ReadString(b) ==
  {<<SubSeq(r[2], 1, r[1]), From(r[2], r[1] + 1)>> :
      r \in {x \in ReadU16(b) : x[1] <= Len(x[2])}}

\* n rounds of a loop over strings with extra bytes behind each: the strings and the
\* bytes behind them, and what is left.
ReadRounds(n, b, extra) ==
  LET read[k \in 0..n] ==
        IF k = 0 THEN {<<<<>>, b>>}
        ELSE UNION {{<<Append(r[1], <<s[1], SubSeq(s[2], 1, extra)>>), From(s[2], extra + 1)>> :
                        s \in {x \in ReadString(r[2]) : Len(x[2]) >= extra}} :
                    r \in read[k - 1]}
  IN read[n]

Firsts(pairs) == [i \in DOMAIN pairs |-> pairs[i][1]]

\* A body that consists of n strings.
OnlyStrings(n, b) == {Firsts(r[1]) : r \in {x \in ReadRounds(n, b, 0) : x[2] = <<>>}}

\* The loops of parse_subscribe and parse_unsubscribe, up to the end of the body: strings
\* that are not empty, with extra bytes behind each.
Items(b, extra) ==
  {r[1] : r \in {x \in UNION {ReadRounds(n, b, extra) : n \in 1..Len(b)} :
                    x[2] = <<>> /\ <<>> \notin ToSet(Firsts(x[1]))}}

\* Mutant of ConnectFlagsFit: a will's flags may be there without a will.
ConnectFlagsLax(f) ==
  /\ Bit(f, 1) = 0
  /\ Bit(f, 64) = 1 => Bit(f, 128) = 1
  /\ (f \div 8) % 4 # 3

ConnectFlagsFit(f) ==
  /\ Bit(f, 1) = 0
  /\ Bit(f, 64) = 1 => Bit(f, 128) = 1
  /\ Bit(f, 4) = 0 => Bit(f, 32) = 0 /\ (f \div 8) % 4 = 0
  /\ (f \div 8) % 4 # 3

\* parse_connect: behind the flags and keep_alive come the client's id and, as the flags
\* say, two strings of the will, a user name, a password.
ParseConnect(body) ==
  IF Len(body) < 10 \/ SubSeq(body, 1, 7) # Protocol \/ ~ConnectFlagsFit(body[8]) THEN {}
  ELSE LET f == body[8]
           w == 2 * Bit(f, 4)
           n == 1 + w + Bit(f, 128) + Bit(f, 64)
       IN {[type |-> CONNECT, clean_session |-> Bit(f, 2),
            keep_alive |-> Base * body[9] + body[10], client_id |-> s[1],
            will |-> IF w = 0 THEN <<>>
                     ELSE <<[topic |-> s[2], message |-> s[3], qos |-> (f \div 8) % 4,
                             retain |-> Bit(f, 32)]>>,
            username |-> SubSeq(s, 2 + w, 1 + w + Bit(f, 128)),
            password |-> SubSeq(s, 2 + w + Bit(f, 128), n)] :
            s \in {x \in OnlyStrings(n, From(body, 11)) : x[1] = <<>> => Bit(f, 2) = 1}}

ParseConnack(body) ==
  IF Len(body) = 2 /\ body[1] \in {0, 1} /\ body[2] <= 5
  THEN {[type |-> CONNACK, session_present |-> body[1], return_code |-> body[2]]} ELSE {}

\* The identifier is there for a QoS above 0, and then it is not 0.
ReadId(qos, b) == IF qos = 0 THEN {<<0, b>>} ELSE {r \in ReadU16(b) : r[1] # 0}

ParsePublish(flags, body) ==
  LET qos == (flags \div 2) % 4 IN
  IF qos = 3 THEN {}
  ELSE UNION {{[type |-> PUBLISH, topic |-> t[1], qos |-> qos, id |-> i[1],
                payload |-> i[2], dup |-> flags \div 8, retain |-> flags % 2] :
                  i \in ReadId(qos, t[2])} :
              t \in {r \in ReadString(body) : r[1] # <<>>}}

\* parse_puback, parse_pubrec, parse_pubrel, parse_pubcomp, parse_unsuback
ParseAck(type, body) ==
  {[type |-> type, id |-> r[1]] : r \in {x \in ReadU16(body) : x[1] # 0 /\ x[2] = <<>>}}

ParseSubscribe(body) ==
  UNION {{[type |-> SUBSCRIBE, id |-> r[1],
           topics |-> [i \in DOMAIN t |-> [filter |-> t[i][1], qos |-> t[i][2][1]]]] :
             t \in {x \in Items(r[2], 1) : \A i \in DOMAIN x : x[i][2][1] <= 2}} :
         r \in ReadId(1, body)}

ParseSuback(body) ==
  {[type |-> SUBACK, id |-> r[1], codes |-> r[2]] :
      r \in {x \in ReadId(1, body) : x[2] # <<>> /\ ToSet(x[2]) \subseteq SubackCodes}}

ParseUnsubscribe(body) ==
  UNION {{[type |-> UNSUBSCRIBE, id |-> r[1], filters |-> Firsts(t)] :
             t \in Items(r[2], 0)} : r \in ReadId(1, body)}

ParseMessage(type, flags, body) ==
  CASE type = CONNECT -> ParseConnect(body)
    [] type = CONNACK -> ParseConnack(body)
    [] type = PUBLISH -> ParsePublish(flags, body)
    [] type = SUBSCRIBE -> ParseSubscribe(body)
    [] type = SUBACK -> ParseSuback(body)
    [] type = UNSUBSCRIBE -> ParseUnsubscribe(body)
    [] type \in Acks -> ParseAck(type, body)
    [] type \in Empty -> IF body = <<>> THEN {[type |-> type]} ELSE {}

\* parse_control_packet and the function for its type.
Parsed(b) == UNION {ParseMessage(Type(b), Flags(b), body) : body \in Body(b)}
=============================================================================
