----------------------------- MODULE MqttFrame ------------------------------
(***************************************************************************)
(* The bytes that MqttClient abstracts from: a stream of control packets   *)
(* as MqttEncoder writes them, cut anywhere, and what the receive buffer   *)
(* of the client makes of it.  Two loops read the length of a packet:      *)
(* mqtt_frame_info decides where the packet ends, and parse_control_packet *)
(* reads the length again.  Beside the stream, single packets are encoded  *)
(* and parsed as a whole.                                                  *)
(***************************************************************************)
EXTENDS MqttCodec

CONSTANTS
  Messages,   \* PUBLISH messages
  Controls,   \* other messages a broker sends to a connected client
  Broken,     \* bytes that MQTT does not allow as a packet
  Samples,    \* messages to encode
  Wires,      \* packets to parse
  MaxSent,    \* bound: messages sent
  MaxNet      \* bound: packets but messages are sent behind so many bytes

ASSUME ConstantsAssumption ==
  /\ MaxSent \in Nat /\ MaxNet \in Nat
  /\ Messages \subseteq PublishMessage
  /\ \A m \in Controls :
       m \in ControlPacket /\ m.type \in {CONNACK, SUBACK, PINGRESP} \cup Acks
  /\ \A m \in Samples : m \in ControlPacket
  /\ \A m \in Controls \cup Samples : Encodable(m) /\ Len(MessageBody(m)) <= MaxBody
  /\ \A b \in Wires : b \in Seq(Byte) /\ Len(b) >= 2

VARIABLES
  net,      \* bytes on their way
  rx,       \* rx_buffer
  sent,     \* messages sent
  got,      \* messages put in incoming_messages
  refused,  \* the last packet sent is one that the client refuses
  failed,   \* the client has cleaned up the connection
  sample,   \* the message that was encoded, if any
  wire      \* the packet that was parsed, if any

stream == <<net, rx, sent, got, refused, failed>>
vars == <<stream, sample, wire>>

----------------------------------------------------------------------------
(* The two readers of the length, a loop each.  The n-th byte of the       *)
(* length is the byte n + 1 of the packet.  A field of 0 bytes stands for  *)
(* one that is not all there, one of TooMany for an error.                 *)

\* Mutant of FrameField: only three bytes are read.
FrameFieldShort(b) ==
  LET read[n \in 1..4] ==
        IF n >= Len(b) THEN 0
        ELSE IF b[n + 1] < Half THEN n
        ELSE IF Multiplier(n) >= Multiplier(3) THEN TooMany ELSE read[n + 1]
  IN read[1]

\* The loop of mqtt_frame_info.
FrameField(b) ==
  LET read[n \in 1..4] ==
        IF n >= Len(b) THEN 0
        ELSE IF b[n + 1] < Half THEN n
        ELSE IF Multiplier(n) > Multiplier(3) THEN TooMany ELSE read[n + 1]
  IN read[1]

\* Mutant of FrameSize: the type is not counted.
FrameSizeWithoutType(b) == FrameField(b) + Value(b, FrameField(b))

FrameSize(b) == 1 + FrameField(b) + Value(b, FrameField(b))

FrameError(b) == FrameField(b) = TooMany
Complete(b) == FrameField(b) \in 1..4 /\ Len(b) >= FrameSize(b)

\* parse_control_packet or handle_packet refuses a packet.
Unacceptable(b) ==
  \/ Body(b) = {}
  \/ Type(b) = PUBLISH /\ {m \in Parsed(b) : m.qos = 0} = {}
  \/ Type(b) = PINGRESP /\ Parsed(b) = {}
  \/ Type(b) = SUBACK /\ {m \in Parsed(b) : m.codes[1] # Failure} = {}

\* The packet in front, as mqtt_frame_info cuts it out of the buffer.
FirstPacket(b) == SubSeq(b, 1, FrameSize(b))

Refused(b) == FrameError(b) \/ (Complete(b) /\ Unacceptable(FirstPacket(b)))

ASSUME BrokenAssumption == Broken \subseteq Seq(Nat) /\ \A b \in Broken : Refused(b)

----------------------------------------------------------------------------
(* A packet encoded or parsed on its own.                                  *)

Init ==
  /\ net = <<>> /\ rx = <<>> /\ sent = <<>> /\ got = <<>>
  /\ refused = FALSE /\ failed = FALSE
  /\ sample = <<>> /\ wire = <<>>

Unused == net = <<>> /\ rx = <<>> /\ sent = <<>> /\ sample = <<>> /\ wire = <<>>

Encode == Unused /\ \E m \in Samples : sample' = <<m>> /\ UNCHANGED <<stream, wire>>
Parse == Unused /\ \E b \in Wires : wire' = <<b>> /\ UNCHANGED <<stream, sample>>

----------------------------------------------------------------------------
(* The broker, whose packets may have a length of more bytes than needed.  *)

Padded(b) ==
  LET last == FrameField(b) + 1 IN
  SubSeq(b, 1, last - 1) \o <<b[last] + Half, 0>> \o SubSeq(b, last + 1, Len(b))

Lengthened(b) == {b} \cup (IF FrameField(b) < 4 THEN {Padded(b)} ELSE {})

MaySend == sample = <<>> /\ wire = <<>> /\ ~refused /\ ~failed /\ Len(sent) < MaxSent

SendMessage ==
  /\ MaySend
  /\ \E m \in Messages :
       /\ Encodable(m) /\ Len(PublishBody(m)) <= MaxBody
       /\ \E b \in Lengthened(Encoded(m)) : net' = net \o b
       /\ sent' = Append(sent, m) /\ refused' = (m.qos > 0)
  /\ UNCHANGED <<rx, got, failed, sample, wire>>

SendControl ==
  /\ MaySend /\ Len(net) <= MaxNet
  /\ \E m \in Controls :
       /\ \E b \in Lengthened(Encoded(m)) : net' = net \o b
       /\ refused' = (m.type = SUBACK /\ m.codes[1] = Failure)
  /\ UNCHANGED <<rx, sent, got, failed, sample, wire>>

SendBroken ==
  /\ MaySend /\ Len(net) <= MaxNet
  /\ \E b \in Broken : net' = net \o b
  /\ refused' = TRUE /\ UNCHANGED <<rx, sent, got, failed, sample, wire>>

----------------------------------------------------------------------------
(* poll and process_rx_buffer.                                             *)

Processing == ~failed /\ (FrameError(rx) \/ Complete(rx))

Read ==
  /\ ~failed /\ ~Processing
  /\ \E n \in 1..Len(net) :
       rx' = rx \o SubSeq(net, 1, n) /\ net' = SubSeq(net, n + 1, Len(net))
  /\ UNCHANGED <<sent, got, refused, failed, sample, wire>>

FrontPacket == FirstPacket(rx)

ProcessPacket ==
  /\ ~failed /\ Complete(rx) /\ ~Unacceptable(FrontPacket)
  /\ \/ /\ Type(FrontPacket) = PUBLISH
        /\ \E m \in Parsed(FrontPacket) : got' = Append(got, m)
     \/ Type(FrontPacket) # PUBLISH /\ got' = got
  /\ rx' = SubSeq(rx, FrameSize(rx) + 1, Len(rx))
  /\ UNCHANGED <<net, sent, refused, failed, sample, wire>>

ProcessFails ==
  /\ ~failed /\ Refused(rx)
  /\ failed' = TRUE /\ rx' = <<>> /\ net' = <<>>
  /\ UNCHANGED <<sent, got, refused, sample, wire>>

Next ==
  \/ Encode \/ Parse
  \/ SendMessage \/ SendControl \/ SendBroken \/ Read \/ ProcessPacket \/ ProcessFails

Spec == Init /\ [][Next]_vars

----------------------------------------------------------------------------
(* Properties.                                                             *)

\* What MqttEncoder writes, MqttParser reads as the same message, field by field, for
\* every type of packet: which optional fields there are, their order, the identifier,
\* the flags of the header and of CONNECT (the encode_ and parse_ functions).
RoundTrip == \A m \in ToSet(sent) \cup ToSet(sample) : Parsed(Encoded(m)) = {m}

\* MqttParser accepts no packet that MqttEncoder refuses to write, and reads nothing
\* into one and leaves nothing out: written again the message has the bytes that were
\* parsed, unless the length was not as short as it can be (the parse_ functions).
Canonical ==
  \A b \in ToSet(wire) : \A m \in Parsed(b) :
    /\ Encodable(m)
    /\ DecodedField(b) = Len(RemainingLength(Value(b, DecodedField(b)))) =>
         IsPrefix(Encoded(m), b)

\* mqtt_frame_info and parse_control_packet, which read the length with loops of their
\* own, agree: what the first cuts out is for the second one packet, to the last byte,
\* with no other end; and what the first refuses the second never accepts.
ReadersAgree ==
  /\ Complete(rx) =>
       LET k == DecodedField(FrontPacket) IN
       k # TooMany /\ 1 + k + Value(FrontPacket, k) = Len(FrontPacket)
  /\ FrameError(rx) => DecodedField(rx) = TooMany

\* However the stream is cut, the messages come out as they were sent and in their
\* order; the connection is given up only for a packet that is to be refused, and for
\* each of these, behind everything before it; no byte is left over (process_rx_buffer).
InOrder ==
  /\ IsPrefix(got, sent)
  /\ failed => refused
  /\ net = <<>> /\ ~Processing =>
       /\ failed = refused /\ rx = <<>>
       /\ \A i \in 1..Len(sent) : i <= Len(got) <=> sent[i].qos = 0
=============================================================================
