----------------------------- MODULE MqttClient -----------------------------
(***************************************************************************)
(* MqttClient (pico_mqtt/src/mqtt_client.cpp) and the broker at the other  *)
(* end of its connection.  The broker's packets are a stream of bytes that *)
(* arrive in any portions; every packet counts as two bytes, a fixed       *)
(* header and a rest, so that any of them may be split.                    *)
(*                                                                         *)
(* A call of the application is one action where nothing can happen during *)
(* the call.  connect waits in a loop, one action per round; poll reads,   *)
(* handles one packet per round of process_rx_buffer and ends with the     *)
(* keep-alive.  A poll takes no time.  Time is counted in ticks.           *)
(*                                                                         *)
(* A message is its number: the payload, which the code keeps as a span    *)
(* into the receive buffer, is left out.                                   *)
(***************************************************************************)
EXTENDS Naturals, Sequences

CONSTANTS
  KeepAlives,   \* values of keep_alive a CONNECT may carry, 0 for none
  Kinds,        \* what the broker may send besides PUBLISH and PINGRESP
  PollGap,      \* the application polls at least once in so many ticks
  IdWrap,       \* 2^16, the packet identifiers
  MaxPubs,      \* bound: messages the broker publishes
  MaxNet,       \* bound: bytes on their way
  MaxAge        \* bound: ages are counted up to this one

\* A broken length is noticed as soon as it is read, a broken rest when it is there.
AllKinds == {"connack", "refused", "suback", "failure", "publishQos",
             "other", "badLength", "badRest"}

\* Half of a keep-alive is a tick at least.
ASSUME ConstantsAssumption ==
  /\ KeepAlives \subseteq Nat \ {1} /\ Kinds \subseteq AllKinds
  /\ PollGap \in Nat \ {0} /\ IdWrap \in Nat /\ IdWrap >= 2
  /\ MaxPubs \in Nat /\ MaxNet \in Nat /\ MaxAge \in Nat
  /\ \A k \in KeepAlives : k + k \div 2 + PollGap <= MaxAge

VARIABLES
  state,      \* without DISCONNECTING, which is never assigned
  conn,       \* the field is not nullptr
  pc,         \* where a call that takes several steps is
  keepAlive, waiting, nextId,   \* keep_alive_seconds, waiting_for_pingresp, ...
  sinceTx, sinceRx,             \* age of last_tx and last_rx, while connected
  rx,         \* rx_buffer
  incoming,   \* incoming_messages
  gap,        \* ticks since the last poll
  net,        \* bytes the broker has sent and the client has not read
  link,       \* the connection as the client's lwIP knows it
  owed,       \* PINGREQs the broker has not answered
  ended,      \* the last packet of the client was DISCONNECT or was cut off
  pubs,       \* messages published so far
  taken       \* the last message the application got, or an earlier session's

calls == <<state, conn, pc>>
timers == <<keepAlive, waiting, sinceTx, sinceRx, gap>>
buffers == <<rx, incoming, taken>>
broker == <<net, link, owed, ended, pubs>>
vars == <<calls, timers, buffers, broker, nextId>>

----------------------------------------------------------------------------
(* Packets and bytes.                                                      *)

Packet == [kind : {"publish"}, msg : 1..MaxPubs]
            \cup [kind : AllKinds \cup {"pingresp"}, msg : {0}]
Byte == [packet : Packet, part : {1, 2}]

Bytes(p) == <<[packet |-> p, part |-> 1], [packet |-> p, part |-> 2]>>
Plain(kind) == [kind |-> kind, msg |-> 0]

\* mqtt_frame_info of the front of a buffer.
FrameError(b) == b # <<>> /\ (b[1].part # 1 \/ b[1].packet.kind = "badLength")
Complete(b) == Len(b) >= 2 /\ ~FrameError(b)
FrontOf(b) == b[1].packet

\* Mutant of Behind: the whole buffer is erased.
BehindAll(b) == <<>>

Behind(b) == SubSeq(b, 3, Len(b))

\* What the packets of a kind carry, in their order; a packet is there with its rest.
With(msgs, y, kind) ==
  IF y.packet.kind = kind /\ y.part = 2 THEN Append(msgs, y.packet.msg) ELSE msgs
Carried(b, kind) ==
  LET upTo[i \in 0..Len(b)] == IF i = 0 THEN <<>> ELSE With(upTo[i - 1], b[i], kind)
  IN upTo[Len(b)]

Messages(b) == Carried(b, "publish")
Answers(b) == Len(Carried(b, "pingresp"))

----------------------------------------------------------------------------
(* The connection.                                                         *)

Init ==
  /\ state = "DISCONNECTED" /\ conn = FALSE /\ pc = "idle"
  /\ keepAlive \in KeepAlives /\ waiting = FALSE /\ nextId = 1
  /\ sinceTx = 0 /\ sinceRx = 0 /\ gap = 0
  /\ rx = <<>> /\ incoming = <<>> /\ taken = 0
  /\ net = <<>> /\ link = "closed" /\ owed = 0 /\ ended = FALSE /\ pubs = 0

\* The broker's side of a connection that is closed.
Closed == net' = <<>> /\ link' = "closed" /\ owed' = 0 /\ pubs' = pubs

\* connect sets both ages anew.
NoAges == sinceTx' = 0 /\ sinceRx' = 0 /\ gap' = 0

\* Mutant of Cleanup: the state stays.
CleanupKeepingState ==
  /\ conn' = FALSE /\ state' = state /\ pc' = "idle"
  /\ waiting' = FALSE /\ rx' = <<>> /\ incoming' = <<>>
  /\ Closed /\ NoAges /\ UNCHANGED <<keepAlive, taken>>

\* Mutant of Cleanup: the client goes on waiting for the PINGRESP.
CleanupWaiting ==
  /\ conn' = FALSE /\ state' = "DISCONNECTED" /\ pc' = "idle"
  /\ rx' = <<>> /\ incoming' = <<>>
  /\ Closed /\ NoAges /\ UNCHANGED <<keepAlive, waiting, taken>>

\* Mutant of Cleanup: the messages of the session stay for the next one.
CleanupKeepingMessages ==
  /\ conn' = FALSE /\ state' = "DISCONNECTED" /\ pc' = "idle"
  /\ waiting' = FALSE /\ rx' = <<>> /\ incoming' = incoming
  /\ Closed /\ NoAges /\ UNCHANGED <<keepAlive, taken>>

\* cleanup_connection; with it the call returns.
Cleanup ==
  /\ conn' = FALSE /\ state' = "DISCONNECTED" /\ pc' = "idle"
  /\ waiting' = FALSE /\ rx' = <<>> /\ incoming' = <<>>
  /\ Closed /\ NoAges /\ UNCHANGED <<keepAlive, taken>>

\* Mutant of SendFails: the connection is kept.
SendFailsOpen ==
  /\ ended' = TRUE /\ pc' = "idle"
  /\ UNCHANGED <<state, conn, timers, buffers, net, link, owed, pubs>>

\* send_encoded fails when a write fails or takes nothing: part of the packet, or
\* nothing of it, is on its way.
SendFails == ended' = TRUE /\ Cleanup

\* Writes fail after a reset or a FIN, and may fail before.
SendWorks == link = "up"

\* read_nonblocking fails after a reset, or at the end of the stream.
ReadFails == link = "reset" \/ (link = "fin" /\ net = <<>>)

\* How many bytes a read may find: no FIN is known before what precedes it.
Arrivals == CASE link = "up"  -> 0..Len(net)
              [] link = "fin" -> 1..Len(net)
              [] OTHER        -> {}

Found(n) == rx \o SubSeq(net, 1, n)
Left(n) == SubSeq(net, n + 1, Len(net))

----------------------------------------------------------------------------
(* connect.                                                                *)

Idle == pc = "idle" /\ state # "CONNECTED"

\* The dial fails, and the state stays.
ConnectUndialled == /\ Idle /\ state' = "CONNECTING"
                    /\ UNCHANGED <<conn, pc, timers, buffers, broker, nextId>>

\* The dial works, but the CONNECT cannot be encoded or sent.
ConnectUnsent == /\ Idle /\ keepAlive' \in KeepAlives /\ ended' = TRUE
                 /\ conn' = FALSE /\ state' = "DISCONNECTED"
                 /\ waiting' = FALSE /\ rx' = <<>> /\ incoming' = <<>>
                 /\ Closed /\ NoAges /\ UNCHANGED <<pc, taken, nextId>>

\* The CONNECT is sent, and the wait for its answer begins.
ConnectSent == /\ Idle /\ keepAlive' \in KeepAlives
               /\ state' = "CONNECTING" /\ conn' = TRUE /\ pc' = "connect"
               /\ rx' = <<>> /\ link' = "up" /\ ended' = FALSE /\ taken' = pubs
               /\ UNCHANGED <<waiting, sinceTx, sinceRx, gap, incoming,
                              net, owed, pubs, nextId>>

\* The read fails, or the deadline passes after a round.
ConnectFails == /\ pc = "connect" /\ Cleanup
                /\ UNCHANGED <<ended, nextId>>

\* A round of the loop that does not complete a packet.
ConnectWaits(n) ==
  /\ pc = "connect" /\ n \in Arrivals
  /\ ~FrameError(Found(n)) /\ ~Complete(Found(n))
  /\ rx' = Found(n) /\ net' = Left(n)
  /\ UNCHANGED <<calls, timers, incoming, taken, link, owed, ended, pubs, nextId>>

\* A round that finds anything but a CONNACK that accepts.
ConnectRefused(n) ==
  /\ pc = "connect" /\ n \in Arrivals \ {0}
  /\ \/ FrameError(Found(n))
     \/ Complete(Found(n)) /\ FrontOf(Found(n)).kind # "connack"
  /\ Cleanup /\ UNCHANGED <<ended, nextId>>

\* What has come in behind the CONNACK stays in the buffer.
ConnectAccepted(n) ==
  /\ pc = "connect" /\ n \in Arrivals \ {0}
  /\ Complete(Found(n)) /\ FrontOf(Found(n)).kind = "connack"
  /\ rx' = Behind(Found(n)) /\ net' = Left(n)
  /\ state' = "CONNECTED" /\ pc' = "idle" /\ NoAges
  /\ UNCHANGED <<conn, keepAlive, waiting, incoming, taken,
                 link, owed, ended, pubs, nextId>>

----------------------------------------------------------------------------
(* Calls of a connected client.                                            *)

Ready == pc = "idle" /\ state = "CONNECTED"

\* publish; the QoS is 0, and nothing answers it.
Publish == /\ Ready /\ SendWorks /\ sinceTx' = 0
           /\ UNCHANGED <<calls, keepAlive, waiting, sinceRx, gap, buffers, broker, nextId>>

PublishUnsent == Ready /\ SendFails /\ UNCHANGED nextId

\* Mutant of NextId: the identifier 0 is not skipped.
NextIdWithZero == (nextId + 1) % IdWrap

\* allocate_packet_identifier
NextId == IF nextId + 1 = IdWrap THEN 1 ELSE nextId + 1

Subscribe == /\ Ready /\ SendWorks /\ sinceTx' = 0 /\ nextId' = NextId
             /\ UNCHANGED <<calls, keepAlive, waiting, sinceRx, gap, buffers, broker>>

SubscribeUnsent == Ready /\ SendFails /\ nextId' = NextId

\* The filter cannot be encoded; its identifier is used up.
SubscribeUnencoded == /\ Ready /\ nextId' = NextId
                      /\ UNCHANGED <<calls, timers, buffers, broker>>

\* disconnect cleans up whether the DISCONNECT could be sent or not.
Disconnect == Ready /\ ended' = TRUE /\ Cleanup /\ UNCHANGED nextId

NextMessage == /\ pc = "idle" /\ incoming # <<>>
               /\ taken' = Head(incoming) /\ incoming' = Tail(incoming)
               /\ UNCHANGED <<calls, timers, rx, broker, nextId>>

----------------------------------------------------------------------------
(* poll.                                                                   *)

PollFails == Ready /\ ReadFails /\ Cleanup /\ UNCHANGED <<ended, nextId>>

\* The buffer is looked at only if something has come in.
PollFindsNothing == /\ Ready /\ 0 \in Arrivals /\ pc' = "keepAlive"
                    /\ UNCHANGED <<state, conn, timers, buffers, broker, nextId>>

PollFinds == /\ Ready /\ pc' = "process"
             /\ \E n \in Arrivals \ {0} : rx' = Found(n) /\ net' = Left(n)
             /\ sinceRx' = 0
             /\ UNCHANGED <<state, conn, keepAlive, waiting, sinceTx, gap, incoming, taken,
                            link, owed, ended, pubs, nextId>>

\* handle_packet and the parser refuse these.
Unacceptable == {"failure", "publishQos", "badRest"}

\* process_rx_buffer ends for want of a whole packet.
ProcessNone == /\ pc = "process" /\ ~FrameError(rx) /\ ~Complete(rx)
               /\ pc' = "keepAlive"
               /\ UNCHANGED <<state, conn, timers, buffers, broker, nextId>>

\* It handles the packet in front, erases it, and goes on.
ProcessPacket ==
  /\ pc = "process" /\ Complete(rx) /\ FrontOf(rx).kind \notin Unacceptable
  /\ incoming' = IF FrontOf(rx).kind = "publish" THEN Append(incoming, FrontOf(rx).msg)
                                               ELSE incoming
  /\ waiting' = (waiting /\ FrontOf(rx).kind # "pingresp")
  /\ rx' = Behind(rx)
  /\ UNCHANGED <<calls, keepAlive, sinceTx, sinceRx, gap, taken, broker, nextId>>

ProcessFails ==
  /\ pc = "process"
  /\ FrameError(rx) \/ (Complete(rx) /\ FrontOf(rx).kind \in Unacceptable)
  /\ Cleanup /\ UNCHANGED <<ended, nextId>>

\* Mutant of PingDue: a PINGREQ is sent only while one is unanswered.
PingDueWaiting == keepAlive > 0 /\ waiting /\ sinceTx >= keepAlive \div 2

PingDue == keepAlive > 0 /\ ~waiting /\ sinceTx >= keepAlive \div 2

\* Mutant of TimedOut: an unanswered PINGREQ is never given up.
NeverTimedOut == FALSE

TimedOut == keepAlive > 0 /\ sinceRx >= keepAlive + keepAlive \div 2

\* No PINGREQ is due, and none has been unanswered for too long.
KeepAliveRests == /\ pc = "keepAlive" /\ ~PingDue /\ ~(waiting /\ TimedOut)
                  /\ pc' = "idle" /\ gap' = 0
                  /\ UNCHANGED <<state, conn, keepAlive, waiting, sinceTx, sinceRx,
                                 buffers, broker, nextId>>

KeepAlivePings == /\ pc = "keepAlive" /\ PingDue /\ SendWorks /\ ~TimedOut
                  /\ waiting' = TRUE /\ sinceTx' = 0 /\ owed' = owed + 1
                  /\ pc' = "idle" /\ gap' = 0
                  /\ UNCHANGED <<state, conn, keepAlive, sinceRx,
                                 buffers, net, link, ended, pubs, nextId>>

KeepAliveUnsent == pc = "keepAlive" /\ PingDue /\ SendFails /\ UNCHANGED nextId

\* The PINGREQ may be the one that this poll has sent.
KeepAliveTimeout == /\ pc = "keepAlive" /\ TimedOut
                    /\ waiting \/ (PingDue /\ SendWorks)
                    /\ Cleanup /\ UNCHANGED <<ended, nextId>>

----------------------------------------------------------------------------
(* The broker and the clock.                                               *)

Sends(p) == /\ link = "up" /\ Len(net) + 2 <= MaxNet
            /\ net' = net \o Bytes(p)
            /\ UNCHANGED <<calls, timers, buffers, link, ended, nextId>>

BrokerSends == /\ \E kind \in Kinds : Sends(Plain(kind))
               /\ UNCHANGED <<owed, pubs>>

BrokerPublishes == /\ pubs < MaxPubs /\ pubs' = pubs + 1
                   /\ Sends([kind |-> "publish", msg |-> pubs + 1])
                   /\ UNCHANGED owed

BrokerAnswers == /\ owed > 0 /\ owed' = owed - 1
                 /\ Sends(Plain("pingresp"))
                 /\ UNCHANGED pubs

BrokerCloses == /\ link = "up" /\ link' \in {"fin", "reset"}
                /\ UNCHANGED <<calls, timers, buffers, net, owed, ended, pubs, nextId>>

\* Without a keep-alive nothing looks at the ages.
Older(age) == IF keepAlive = 0 \/ age = MaxAge THEN age ELSE age + 1

Tick == /\ Ready /\ gap < PollGap /\ gap' = gap + 1
        /\ sinceTx' = Older(sinceTx) /\ sinceRx' = Older(sinceRx)
        /\ UNCHANGED <<calls, keepAlive, waiting, buffers, broker, nextId>>

----------------------------------------------------------------------------

Connect ==
  \/ ConnectUndialled \/ ConnectUnsent \/ ConnectSent \/ ConnectFails
  \/ \E n \in 0..MaxNet : ConnectWaits(n) \/ ConnectRefused(n) \/ ConnectAccepted(n)

Poll ==
  \/ PollFails \/ PollFindsNothing \/ PollFinds
  \/ ProcessNone \/ ProcessPacket \/ ProcessFails
  \/ KeepAliveRests \/ KeepAlivePings \/ KeepAliveUnsent \/ KeepAliveTimeout

Next ==
  \/ Connect \/ Poll
  \/ Publish \/ PublishUnsent
  \/ Subscribe \/ SubscribeUnsent \/ SubscribeUnencoded
  \/ Disconnect \/ NextMessage
  \/ BrokerSends \/ BrokerPublishes \/ BrokerAnswers \/ BrokerCloses
  \/ Tick

Spec == Init /\ [][Next]_vars

\* connect has a deadline.  The application polls and takes its messages, TCP
\* delivers what is on its way, a broker answers a PINGREQ and time passes.
LiveSpec ==
  /\ Spec
  /\ WF_vars(pc = "connect" /\ Connect) /\ WF_vars(Poll)
  /\ SF_vars(PollFinds) /\ SF_vars(NextMessage) /\ SF_vars(BrokerAnswers)
  /\ SF_vars(Tick)

----------------------------------------------------------------------------
(* Properties.                                                             *)

\* The fields have their types; no packet identifier is 0.
TypeOK ==
  /\ state \in {"DISCONNECTED", "CONNECTING", "CONNECTED"} /\ conn \in BOOLEAN
  /\ pc \in {"idle", "connect", "process", "keepAlive"}
  /\ keepAlive \in KeepAlives /\ waiting \in BOOLEAN /\ nextId \in 1..(IdWrap - 1)
  /\ sinceTx \in 0..MaxAge /\ sinceRx \in 0..MaxAge /\ gap \in 0..PollGap
  /\ rx \in Seq(Byte) /\ incoming \in Seq(1..MaxPubs) /\ taken \in 0..MaxPubs
  /\ net \in Seq(Byte) /\ link \in {"closed", "up", "fin", "reset"}
  /\ owed \in Nat /\ ended \in BOOLEAN /\ pubs \in 0..MaxPubs

\* While a session lasts, what its messages went through (incoming_messages,
\* rx_buffer, the connection) holds each of them that the application has not
\* taken, once and in order, and nothing of an earlier session, wherever the stream
\* is split.
InOrder ==
  conn => incoming \o Messages(rx \o net) = [i \in 1..(pubs - taken) |-> taken + i]

\* A call that uses conn has one, and a client that is not connected has none.
ConnMatchesState ==
  conn <=> state = "CONNECTED" \/ pc = "connect"

\* A session is a FIFO mailbox of what the broker publishes while it lasts.
Session == INSTANCE MqttSession WITH open <- conn, published <- pubs
SessionSpec == Session!Spec

\* Nothing is sent behind a packet that was cut off or behind a DISCONNECT: the
\* connection is closed then (send_encoded, disconnect).
NothingAfterEnd == ended => ~conn

\* waiting_for_pingresp says exactly whether a PINGREQ of this session, at most one,
\* is still to be answered or its answer to be handled.
PingBalance == owed + Answers(rx \o net) = IF waiting THEN 1 ELSE 0

\* Between polls that come in time, the broker never waits longer for a packet than
\* half the keep-alive and a gap between polls, unless it owes an answer itself; and
\* a broker that answers nothing is given up in time.
KeptAlive ==
  Ready /\ keepAlive > 0 =>
    IF waiting THEN sinceRx < keepAlive + keepAlive \div 2 + PollGap
               ELSE sinceTx < keepAlive \div 2 + PollGap

\* With a keep-alive, and once the application publishes and subscribes no more,
\* every message reaches the application or the session ends: also the one that came
\* in behind the CONNACK, which poll does not look for.
Quiet == ~(Publish \/ Subscribe)
Delivered ==
  <>[][Quiet]_vars =>
    \A m \in 1..MaxPubs :
      pubs = m /\ conn /\ keepAlive > 0 ~> taken >= m \/ ~conn
=============================================================================
