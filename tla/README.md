# Verification of pico_toolkit

This directory holds a TLA+ model of pico_toolkit: of **pico_net**, a C++ wrapper
around lwIP for the Raspberry Pi Pico W (TCP and UDP connections and listeners,
access point with DHCP and DNS), and of **pico_mqtt**, an MQTT client on top of it.
TLC checks small instances, TLAPS proves the main properties for every instance.

## The system

| part | state it keeps | operations | how others reach it |
|---|---|---|---|
| `TcpConnection` | pointer to an lwIP pcb, receive buffer, `is_closed`, `has_error`, deadlines | `read`, `read_nonblocking`, `write`, `close`, deadlines, destructor | lwIP's recv and err callbacks |
| `TcpListener` | listening pcb, queue `pending_connections`, `is_closed`, `has_error` | `accept`, `accept_nonblocking`, `close`, destructor | lwIP's accept callback; makes `TcpConnection`s |
| `Network::dial_tcp` | `TcpDialState` on the stack | a loop of poll and sleep with a timeout | lwIP's connected callback; makes a `TcpConnection` |
| `UdpListener` | socket, queue of new connections, map from peer to connection | `accept`, `accept_nonblocking`, `close`, destructor | lwIP's recv callback; `UdpConnection::close` calls `remove_connection` |
| `UdpConnection` | socket (its own or the listener's), queue of datagrams, pointer to the listener | `read`, `write`, `close`, destructor | the listener's `enqueue_datagram`, or its own recv callback |
| `DhcpServer` | socket, 32 leases of (MAC, 16-bit expiry) | `start`, `stop` | lwIP's recv callback: DISCOVER, REQUEST |
| `DnsServer` | socket, records, fallback address | records, `start`, `stop` | lwIP's recv callback |
| `Network` | three flags, the DHCP server, a pointer to a DNS server | initialise, station, access point, dial, listen, destructor | the application |
| `MqttClient` | connection, state, receive buffer, queue of messages, keep-alive clocks | `connect`, `publish`, `subscribe`, `poll`, `next_message`, `disconnect` | the application; calls `Connection` |
| `MqttParser`, `MqttEncoder` | none | pure functions | `MqttClient` |
| `Error`, `Address` | values | none | all |

**Concurrency.** There are no threads (docs/modules.dox:108), and the library is
linked with `pico_cyw43_arch_lwip_poll`: lwIP runs its callbacks only inside
`cyw43_arch_poll()`. But every read, accept and dial polls, of whatever
connection, so the callbacks of *all* connections run inside a call on any of them.
What the code checks before its poll may be stale after it, and an object may be
called back by lwIP long after the application has let go of it.

**What is hard here.** The lifetimes of pcbs that lwIP may free by itself; objects
that point to one another (connection, listener, map, queue); data, FIN and reset in
one poll; a clock that wraps, cut to 16 bits; a byte stream cut anywhere; two
clocks of a keep-alive. `PROJECT.json` lists these hazards at their lines, each with
the properties that watch it.

**What makes each part correct.**

- *TcpConnection*: the bytes read are the bytes sent, in order, up to the end; no
  call uses a pcb lwIP has freed; no pcb is leaked; an error is final.
- *TcpListener*: each connection is handed out once, in order, alive.
- *dial*: success, error or timeout, and nothing left behind.
- *UDP*: each remote endpoint has one connection; a flow is a FIFO mailbox.
- *DHCP*: no address is used by two clients; a client keeps what it has; addresses
  return to the pool.
- *MQTT*: messages of a session arrive once and in order; packets stay whole; the
  keep-alive keeps the session exactly as long as the broker lives.
- *Network*: the radio is in the mode the flags say; DHCP and DNS run exactly with the
  access point, and nothing behind the destructor.
- *DNS*: a name has one address, in whatever way it is written.
- *Parser, encoder*: each is the other's inverse.

## Modules

| module | what it is |
|---|---|
| `TcpConnection` | all connections: one action per lwIP event and per method; no specification of its own |
| `TcpListener` | extends it with the listener; a specification |
| `TcpDial` | extends it with `dial_tcp`; a specification |
| `UdpListener` | listener and connections in one module; a specification |
| `UdpFlows` | what UDP promises: a FIFO mailbox per flow; `UdpListener` implements it |
| `DhcpServer` | the lease table, its clients and the clock; a specification |
| `DnsServer` | records, socket and answers of DNS servers; no specification of its own |
| `Network` | modes, flags and destructor, composed with both servers |
| `MqttClient` | the client, its stream and a broker; a specification |
| `MqttSession` | what the client promises: a mailbox per session; `MqttClient` implements it |
| `MqttCodec` | `MqttEncoder` and `MqttParser` as operators on bytes, for every type of packet |
| `MqttFrame` | extends it with the bytes of the client's stream and their framing |
| `MC...` | definitions for TLC (symmetry, messages) |
| `TcpConnectionProofs`, `TcpListenerProofs`, `TcpDialProofs`, `UdpListenerProofs`, `NetworkProofs`, `MqttClientProofs`, `MqttFrameProofs` | theorems; `NetworkProofs` holds those on `DhcpServer` too |
| `SequenceLemmas` | lemmas on sequences and their sets, induction, and loops |

Names follow the source. The comment above a definition says which function it is,
and `map` in `PROJECT.json` gives the lines. A definition called *mutant* in its
comment is a plausible bug that no specification uses; it shows that a property can fail.

### TCP

A connection `c` is one incarnation of a pcb with the object made for it. The fields
are `pcb` (not nullptr), `is_closed`, `has_error`, `rx_buffer`, `deadline`. lwIP's
side is `tcp` (the pcb's state), `cb` (callbacks attached), `fin`, `sent`, `lost`.
`obj` says who holds the object: nobody yet, the listener's queue, the application,
or it was deleted. A call that polls takes two steps, `call` says which one is in
progress, and any events of any pcbs may happen in between. The byte at position `i` of a
stream is the number `i`.

lwIP is modelled from what the code relies on: a pcb without callbacks has its data
thrown away, its FIN answered by a close, and can be freed unheard. When the code
uses a pcb that lwIP has closed or freed, the rest is undefined; `misuse` records
the place and the model ends.

The application is any program that makes one call at a time and owns what it was handed.

### UDP

As above, but no call keeps anything across its poll, so each callback is a step
between calls. `pending` and `active_connections` are the listener's containers, the
values of the latter raw pointers. A dialled connection has its own socket and flow.
The refinement maps the mailbox of a flow to the queue of the one live object that
carries it.

### DHCP

`Granule` and `Granules` stand for the two 16-bit halves of the millisecond clock,
`LeaseTime` for 24 hours. `left` is how long a client may still use an address by
its own reckoning, from the ACK it received; the server does not see it. Replies may
be lost, and a client may request anything at any time. A datagram the handler drops
changes nothing and is no action. `idle` is a history variable for the finding
`PoolRecovers`; the constant `MaxIdle` bounds it, and 0 switches it off.

### Network and DNS

`Network` has the fields of the class, what the radio does (`arch`, `sta_mode`,
`ap_mode`), and inside it the variables of `DhcpServer` and of all `DnsServer` objects.
No call here polls while a server runs, so each is one action; one that is refused changes
nothing and is none. `Start` and `Stop` of `DhcpServer` occur only inside
`SetupWifiAccessPoint` and `Delete`. A `Start` that finds the server running is an
error, as in the code; that it never does is a part of `ServingMatchesMode`. The application may delete a DNS
server whenever it likes. Deleting one that is attached leaves the destructor of
`Network` with a dangling pointer: nothing in the API forbids it, the order of
declaration decides, and the model ends there (`misuse`).

A host is a name together with a way to write it (capitals, dots at the end);
`normalize_host` maps it to the plain way. `latest` remembers what the application said
last about a name, however it was written. A question is answered in one callback that changes
nothing, so an answer is an operator, and `Resolves` compares it with `latest`
in every state. `add_record` refuses the empty host, but takes "." and stores it
under the empty name, which no question reaches.

What the model shows and the properties say as it is:

- If the DHCP server does not start, the access point stays on with its flag false, and
  a station connection is let through: the radio is in both modes, which line 202 of
  pico_net's README excludes. The other way round, a failed connect leaves the
  station mode on. No property forbids either; `OneMode` therefore speaks of the time before the first failure.
- The destructor leaves the driver up if only `initialize` was called. `Teardown`
  says which cases are left; it is silent where the attached DNS server was gone.
- After a lost link `is_connected_to_station_wifi` stays true; the model has no
  link that is lost, as no code looks at it.

The answer has at most 12 + 255 + 4 + 16 = 287 bytes for a name that DNS allows, and the
buffer 300. For longer names nothing checks it; the bytes of datagrams are not modelled.

### MQTT

The broker's stream is a sequence of bytes, two to a packet, so that every packet
can be split. `net` is on its way, `rx` is `rx_buffer`. `connect` and `poll` are
loops over several actions, `pc` says where they are. The broker sends any kind of packet at
any time, answers PINGREQs, closes or resets. The application polls at least once
in `PollGap` ticks. Messages are numbers. Their payloads are spans into a buffer
that is erased before they are delivered (a hazard); since pico_mqtt does not
compile at this commit, and one half of it takes the payload to own its bytes, the
model leaves payloads out.

`MqttSession` sees of all this whether there is a session, how much was published and
which message was taken last: messages are taken one by one in their order, and none of
an earlier session. A session lasts as long as
the client has a connection (`conn`).

`MqttCodec` and `MqttFrame` are what that abstraction rests on: real bytes, with a
parameter `Half` for 128 in lengths and numbers; the first byte of a packet, the
flags of CONNECT and the codes of SUBACK keep their eight bits. `Encodable` and `Encoded` are the
`encode_` functions, `Parsed` is `parse_control_packet` with the `parse_` function of
the type: a set of one message, or the empty set for an error. An optional field is a sequence of at
most one element, a string a sequence of bytes. The sets of messages
(`ConnectMessage` to `EmptyMessage`) are the structs of `mqtt_message.hpp`; `ControlPacket` is all of
them. `ReadRounds` is the loop over strings, with a byte behind each in SUBSCRIBE. The order in which a function finds
its errors, and their wording, are left out. `write_string` cuts a length to 16
bits; no message of the model has a longer string (a hazard).

In `MqttFrame` the broker's packets are cut anywhere. The length of a
packet is read twice, by the loop of `mqtt_frame_info` and by that of
`decode_remaining_length`; each is translated with its own limit. A step handles one
packet as a round of `process_rx_buffer` does. The broker also pads
lengths, accepts and rejects subscriptions, and sends packets that MQTT does not allow: any the
client refuses (`BrokenAssumption`; TLC evaluates it on those of the run). Beside
the stream, `Encode` and `Parse` take one message or one packet of a given set.

## Runs

| run | question | bounds |
|---|---|---|
| `listener_safety` | Do queue, pointers and streams survive every interleaving? | 2 connections, 2 pcbs, 2 bytes each |
| `listener_live` | Are connections handed out; do blocking reads end, at data, end, error and deadline? | 2 connections, 1 byte each, blocking calls only |
| `dial_safety` | The same for dialled connections, with failing lwIP calls and writes | 1 connection, 3 bytes, send buffer 2 |
| `udp_safety` | Do listener and connections implement mailboxes? | 2 peers, 3 objects, 2 datagrams per flow |
| `network` | Do modes, flags and servers agree, whatever fails; is an address ever used by two clients; is a name answered as it was last recorded? | 2 clients, 2 addresses, a clock of 12 ticks; 2 DNS servers, 1 name written in 3 ways |
| `mqtt` | Order, framing, keep-alive, delivery; is a session a mailbox? | 2 messages, 2 packets in flight, keep-alive 2 or none |
| `mqtt_frame` | Do encoder, framing and parser agree on every byte? | 2 messages, other packets between them, `Half` = 4, lengths of 1 to 4 bytes; 2,005 messages to encode, 41,000 packets to parse |
| `listener_accept`, `listener_delete`, `dial_failure`, `udp_closed`, `dhcp_pool` | the findings below | the smallest instance that shows them |

**Why the bounds suffice.** Two connections give every interaction there is between
two objects (the code has none among three); a second byte is what a partial read
leaves behind, the third lies beyond the send buffer. Three UDP objects are two for
one peer and another for the second. A client may request two addresses, so that two clients
compete for a pool of two and fill it. 12 ticks and a granule of 3 let every lease straddle the wrap
and a granule; a lease and a granule are less than half the clock, as 24 hours are less than
24.8 days. Two DNS servers are what it takes to attach a second one behind the first; one
name in three ways of writing it and the root are all that `normalize_host` and
`extract_qname` tell apart. Two
packets in flight put a message behind a CONNACK. With `Half` = 4 the bodies of 3, 4, 15, 16,
63 and 65 bytes lie at the bounds of the length's bytes, and a topic of 63 bytes is the longest.
The packets to parse are, for CONNECT, every value of the flags with up to five strings behind
them, whole and cut; for the other types every body of a few small bytes, or the pieces of a
body in any number and order. What TLC shows on
these instances, the theorems show for all sizes wherever they exist.

`CHECK_DEADLOCK FALSE` stands where connections, objects or messages run out or where
the model ends at a misuse. `MqttClient` is checked for deadlock.

**Fairness.** `TcpListener!Fairness`: a call looks at its condition again after each
poll (the loops of `read`, `accept`), and the application comes back to `accept`
(README of pico_net, Example 3); `SF` because it is busy with other calls in between.
`HandedOut` assumes in its premise that the application does not stay in one call
for ever. `MqttClient!LiveSpec`: `connect` ends by its deadline (the loop compares
with `until` every round); the application polls and takes messages; TCP delivers;
a broker answers a PINGREQ; time passes. `SF` where polls keep disabling an action.
Nothing is assumed of peers, of the broker's other packets, or of lwIP's errors.

## Findings

1. **`listener_delete`** A peer's FIN makes `handle_tcp_recv` drop the pcb unclosed: it stays in CLOSE_WAIT, and calls back into the object after its deletion.
2. **`listener_accept`** A reset frees the pcb of a queued connection, which has no err callback; `accept` then attaches to it
   (and `close` of the listener closes it, where the model ends too).
3. **`dial_failure`** A refused dial frees the pcb under `dial_tcp`, whose cleanup uses it.
4. **`udp_closed`** Connections outlive their listener's socket, and the listener.
5. **`dhcp_pool`** A lease that ended more than 24.8 days ago counts as active again.

The `mqtt` run holds, but `Delivered` needs both of its premises: without a
keep-alive, or while the application publishes all the time, TLC finds that a message which came
in the same segment as the CONNACK stays in `rx_buffer` for ever.

## Proofs

All from the constants' assumptions alone: `ConstantsAssumption` of each module,
`CodecAssumption` of `MqttCodec` (`Half` is at least 4) and `BrokenAssumption`.

- **TCP** (`TcpListenerProofs`, `TcpDialProofs`, over the step lemmas of
  `TcpConnectionProofs`). The properties are not inductive: that a connection's pcb is open
  depends on who holds the object and on the callbacks. `PointerInv` relates
  `obj`, `pcb`, `cb` and `tcp`. `StreamInv` adds to the stream's equation what
  unattached and ended connections look like. `QueueInv` says that the queue names
  each pending object once, `FifoInv` that everything that arrived is born. Proved:
  types, pointer validity, streams, queue and order, finality of errors, that write
  never reports too much, and that no open pcb is lost. The last one needs that
  `tcp_close` does not fail, which the theorem states as its premise.
- **UDP** (`UdpListenerProofs`). `Inv` ties the map, the queue and the objects'
  fields. From it: at most one object carries a flow, so the mailbox is well
  defined, so every step is a mailbox step or a stutter (`Refinement`). `OrderInv` about mailboxes then yields the order of
  datagrams, from the refinement's steps and not from the listener's.
- **DHCP** (`NetworkProofs`). `Inv`: a client that may use an address has its
  lease, and the server's remaining time is at least the client's and below half
  the clock. Lemmas on `%` and `\div` show that a tick takes one off the remaining time
  also across the wrap, and that cutting off the lower half costs less than a
  granule. Exclusive use, renewal and offers follow. `PoolsRecover` is the other side of
  the finding `dhcp_pool`: an idle address is offered again as long as its lease ended
  no more than half the clock ago (`PoolRecoversInTime`, invariant `Aged`). It is proved for every
  value of `MaxIdle`; no run checks it.

- **Network** (`NetworkProofs`). By the way it is composed every step of `Network` is one of
  `DhcpServer` or changes none of its variables (the lemma `Leases`), so the theorems on leases hold inside a
  `Network` without being proved again (`NetworkLeases`). That `Start` never meets a running
  server is no part of this; it is proved in `Serving`, from `ModeInv`. `ModeInv` relates flags, radio and servers also
  after failures, where `OneMode` says nothing; `ServerInv` says that the attached server is the only one
  that runs; `RecordsInv` that a record under the normal form is what was last said of the
  name, and that there is no other.
- **MQTT client** (`MqttClientProofs`). `PhaseInv`: which calls there can be in which
  state. `KeepInv`: at the end of a poll the ages are below their limits, and
  then they grow with the gap between polls. `InOrder` and `PingBalance` speak of what
  the packets in buffer and connection carry (`Carried`), and are inductive only
  with two more facts. `Whole`: the bytes are headers with their rests right behind them,
  so a cut never parts what belongs together, and what a packet carries leaves the stream
  as a whole. `FreshInv`: without a connection nothing is left of a session, and before the
  CONNACK nothing of it has begun. With them (`StreamInv`) every step is a step of
  `MqttSession` or a stutter (`ImplementsSession`). Lemmas show that `cleanup_connection`
  restores the invariants from any point of any call.
- **MQTT encoder and parser** (`MqttFrameProofs`), for every message of every type. One
  direction, `EveryMessageReadBack` (`RoundTrip`): what is encoded is accepted, and read as
  the same message. A number, a string and a length are read back whatever is behind them
  (`NumberRead`, `StringRead`, `LengthRead`), padded lengths too (`PaddedShape`). A row of
  strings with bytes behind each is read back by induction over the row (`RoundsRead`), and
  with no other number of rounds: this covers the topics of SUBSCRIBE, the filters of
  UNSUBSCRIBE and the one to five strings of CONNECT, whose flags are shown to say which
  these are (`FlagBits`, `ConnectFlagsRead`). `BodyRead` puts the fourteen types together. The
  other direction, `EveryPacketWrittenBack` (`Canonical`): what the parser accepts the encoder
  does not refuse, and writes as the bytes that were read, up to the padding of the length.
  The steps are the same the other way (`NumberWritten`, `StringWritten`, `RoundsWritten`,
  `FlagsSplit`, `BodyWritten`); that the bytes of a length are the digits that are
  written for its value is `Digits`. Its premise `Half >= 128` is the code's 128: below
  it two bytes are not one number. What TLC checks with `Half` = 4 are packets whose bytes
  are below 8 wherever they make a number. A string has at most 65535 bytes
  (`ShortString`), as far as the two bytes of its length go; for longer ones `RoundTrip` is
  false (a hazard). A body has at most `MaxBody` bytes, or `make_packet` refuses it.
- **MQTT frames** (`MqttFrameProofs`), for every `Half`, every set of messages and packets, and
  every way to cut the stream. The two loops over the length are shown to see the same
  bytes and the same end of them (`FieldAgrees`), and of what a broker sends it is known what is
  refused (`SentPublish`, `SentControl`). `StreamInv` then says that buffer and connection are a row of whole
  packets (`InPackets`), of which only the last may be one to be refused, and counts for
  each the messages handed over before it (`Counts`). What is in front of the row does not
  depend on how much of it has arrived (`SameFront`, `SameError`): this is why the cuts do
  not matter. `ReadersAgree` and `InOrder` follow.

**Recursion.** The library's induction theorems cannot be used here, as they take an
operator as a parameter. `SequenceLemmas` states induction for a *set* of numbers
instead (`SetInduction`, from `LeastElement`, which is the well-foundedness of the
naturals), and shows that a loop has a value after every round (`FoldExists`) and that two
loops with the same rounds have the same values (`FoldsAgree`). The sums, the lengths, the
carried messages and the loops of the parser are recursive functions for this reason, and
what `FlattenSeq` makes of a row of sequences is a loop as well (`FlattensExists`).

Only model-checked:

- Liveness (`HandedOut`, `ReadEnds`, `Delivered`), which is beyond the prover. Every other
  property of a passing run is a theorem.

`NoPcbMeansClosed` (an object without a pcb is marked closed) is no property of a run: the theorems
`PointersValid` state it. So do `TypeCorrect` of `NetworkProofs`, whose invariant the
`network` run checks as a part of `NetworkTypeOK`, `TypeCorrect` of `TcpDialProofs`, nearly all of which
`listener_safety` checks as a part of its `TypeOK`, and `StreamCorrect` for the end of a dialled stream.

## Not modelled

- Option parsing and replies of DHCP, the bytes of DNS datagrams, the contents of streams and
  datagrams: data no property here depends on.
- The failing calls of `listen_tcp` (network.cpp:260 to 284): a row of calls that nothing
  interleaves with. One of them passes a null pointer on (a hazard); a listener is
  modelled from where `listen_tcp` has succeeded.
- The loss of a Wi-Fi link, to which no code reacts.
- The payload of an MQTT message as a span into the receive buffer (see above).
- Write deadlines, which are stored and never read. `lwipopts.h`, build files and
  examples have no logic; `Error` and `Address` are values.

## Plan

What is left is liveness, which the prover cannot reach, and the payload of a message,
which waits for a commit at which pico_mqtt compiles.
