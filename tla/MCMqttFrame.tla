---------------------------- MODULE MCMqttFrame -----------------------------
(* A small instance of MqttFrame for TLC: 4 stands for 128. *)
EXTENDS MqttFrame

String1(n) == [i \in 1..n |-> 1]

Message(topic, payload, qos, id) ==
  [type |-> PUBLISH, topic |-> String1(topic), payload |-> [i \in 1..payload |-> 5 + (i % 3)],
   qos |-> qos, id |-> id, dup |-> IF qos > 0 THEN 1 ELSE 0, retain |-> payload % 2]

\* Lengths of one byte up to four, each at its bounds: 3, 4, 15, 16, 63 and 65; the
\* longest topic; identifiers of one and of two bytes; a message that is not encoded.
MCMessages ==
  {Message(1, 0, 0, 0), Message(1, 1, 0, 0), Message(2, 11, 0, 0), Message(3, 11, 0, 0),
   Message(2, 59, 0, 0), Message(63, 0, 0, 0),
   Message(2, 1, 1, 7), Message(2, 0, 2, 63), Message(2, 0, 0, 1)}

Suback(id, codes) == [type |-> SUBACK, id |-> id, codes |-> codes]

\* Packets the client does nothing about, an accepted and a rejected subscription.
MCControls ==
  {[type |-> PINGRESP], [type |-> PUBREL, id |-> 9],
   Suback(1, <<0, Failure>>), Suback(1, <<Failure>>)}

\* A length of five bytes, a QoS of 3, a topic that is too long, none and half of one,
\* a PINGRESP with a body and one with a flag, a SUBACK without codes and one with a code
\* that does not exist, types that do not exist.
MCBroken == {<<48, 4, 4, 5, 6, 1, 1>>, <<54, 3, 0, 1, 1>>, <<48, 3, 0, 2, 1>>,
             <<48, 2, 0, 0>>, <<48, 1, 0>>, <<208, 1, 1>>, <<210, 0>>, <<144, 2, 0, 1>>,
             <<144, 3, 0, 1, 3>>, <<0, 0>>, <<240, 0>>}

----------------------------------------------------------------------------
(* Every choice of optional fields, their strings of length 0, 1 and 2.    *)

Opt(S) == {<<>>} \cup {<<x>> : x \in S}
Wills == [topic : {<<>>, <<5>>}, message : {<<>>, <<6, 7>>}, qos : 0..2, retain : {0, 1}]

Connects ==
  [type : {CONNECT}, clean_session : {0, 1}, keep_alive : {0, 60, 63}, client_id : {<<>>, <<1>>},
   will : Opt(Wills), username : Opt({<<>>, <<2>>}), password : Opt({<<>>, <<3, 4>>})]

Publishes ==
  [type : {PUBLISH}, topic : {<<>>, <<1>>, <<2, 3>>}, payload : {<<>>, <<4>>, <<0, 5>>},
   qos : 0..3, id : {0, 1, 8}, dup : {0, 1}, retain : {0, 1}]

Topics == [filter : {<<>>, <<1>>, <<2, 3>>}, qos : 0..3]

MCSamples ==
  {m \in Connects \cup Publishes
         \cup [type : {CONNACK}, session_present : {0, 1}, return_code : 0..6]
         \cup [type : Acks, id : {0, 1, 8, 63}]
         \cup [type : {SUBSCRIBE}, id : {0, 1, 8}, topics : SeqOf(Topics, 2)]
         \cup [type : {SUBACK}, id : {0, 1, 8}, codes : SeqOf({0, 1, 2, 3, Failure}, 3)]
         \cup [type : {UNSUBSCRIBE}, id : {0, 1, 8}, filters : SeqOf({<<>>, <<1>>, <<2, 3>>}, 3)]
         \cup [type : Empty] : Encodable(m)}

----------------------------------------------------------------------------
(* Bodies a packet of a type may have by accident.                         *)

\* Pieces one behind the other, the last one possibly cut.
Pieces(strings, n) == {FlattenSeq(s) : s \in SeqOf(strings, n)}
Cut(S) == S \cup {Front(b) : b \in S \ {<<>>}}
Behind(S, T) == {s \o t : s \in S, t \in T}
Ids == {U16(0), U16(1), U16(8)}

Bodies(type) ==
  CASE type = CONNECT ->
         Behind({Protocol \o <<f, 0, 1>> : f \in 0..255}, Cut(Pieces({<<0, 0>>, <<0, 1, 1>>}, 5)))
         \cup {Protocol, Protocol \o <<2>>, Front(Protocol) \o <<5, 2, 0, 0, 0, 0>>,
               <<0, 4, 1, 2, 3, 1, 4, 2, 0, 0, 0, 0>>, <<0, 7, 1, 2, 3, 3, 4, 2, 0, 0, 0, 0>>}
    [] type = CONNACK -> SeqOf({0, 1, 2, 5, 6}, 3)
    [] type = PUBLISH -> SeqOf(0..2, 5)
    [] type = SUBSCRIBE ->
         Behind(Ids, Cut(Pieces({<<0, 1, 1, 0>>, <<0, 2, 1, 1, 2>>, <<0, 1, 1, 3>>,
                                 <<0, 1, 1, 4>>, <<0, 0, 1>>}, 3)))
    [] type = SUBACK -> {<<>>, <<0>>} \cup Behind(Ids, SeqOf({0, 1, 2, 3, Failure, 129}, 3))
    [] type = UNSUBSCRIBE ->
         Behind(Ids, Cut(Pieces({<<0, 1, 1>>, <<0, 2, 1, 1>>, <<0, 0>>}, 4)))
    [] type \in Acks -> SeqOf({0, 1}, 3)
    [] OTHER -> {<<>>, <<0>>}

FlagsOf(type) ==
  IF type = PUBLISH THEN 0..15 ELSE IF type \in {PUBREL, SUBSCRIBE, UNSUBSCRIBE} THEN {2} ELSE {0}

\* The packets of a type; with the wrong flags in the header only a few.
Packets(type) ==
  {Packet(type, f, b) : f \in FlagsOf(type), b \in Bodies(type)}

Strays ==
  {Packet(t, f, b) : t \in 0..15, f \in {1, 2}, b \in {<<>>, <<0, 1>>, <<0, 1, 0, 1, 1>>}}

\* Packets with a longer length, with a byte behind them and without their last byte.
Bent == UNION {{Padded(b), Append(b, 1), Front(b)} :
                 b \in {Packet(PUBLISH, 0, x) : x \in Bodies(PUBLISH) \ {<<>>}}}

MCWires == Strays \cup Bent \cup UNION {Packets(t) : t \in 1..14}
=============================================================================
