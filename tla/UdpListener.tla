---------------------------- MODULE UdpListener ----------------------------
(***************************************************************************)
(* UdpListener (pico_net/src/udp_listener.cpp) and UdpConnection           *)
(* (pico_net/src/udp_connection.cpp): one socket split into a connection   *)
(* object per remote endpoint, beside connections that were dialled and    *)
(* own their socket.                                                       *)
(*                                                                         *)
(* A datagram is handled inside the polls of read, accept or the           *)
(* application, and no call here keeps anything across its poll; so a      *)
(* callback is a step of its own between the calls.  The blocking calls    *)
(* repeat the non-blocking ones and change nothing else; has_error of a    *)
(* UDP listener or connection is never set.                                *)
(***************************************************************************)
EXTENDS Integers, Sequences, SequencesExt

CONSTANTS
  Peers,        \* remote endpoints (make_peer_key: ip and port)
  Conns,        \* connection objects, each used once
  MaxDatagrams, \* bound: datagrams per flow
  NoConn        \* stands for nullptr

ASSUME ConstantsAssumption ==
  /\ NoConn \notin Conns
  /\ Peers \cap Conns = {}
  /\ MaxDatagrams \in Nat

\* A dialled connection's own socket is a flow of its own.
Flows == Peers \cup Conns

VARIABLES
  \* the fields of a UdpConnection (pcb, listener_owner: the field is not nullptr)
  obj, pcb, owns_pcb, is_closed, listener_owner, remote_addr, rx_queue,
  \* the fields of the UdpListener, and whether it still exists
  l_closed, l_deleted, pending, active_connections,
  \* history: datagrams per flow the device has received, and has handed over
  arrived, delivered,
  misuse        \* the first use of a removed socket or of a deleted listener

conns == <<obj, pcb, owns_pcb, is_closed, listener_owner, remote_addr, rx_queue>>
listener == <<l_closed, l_deleted, pending, active_connections>>
history == <<arrived, delivered>>
vars == <<conns, listener, history, misuse>>

Flow(c) == IF owns_pcb[c] THEN c ELSE remote_addr[c]
Datagram(f, n) == [flow |-> f, num |-> n]

Init ==
  /\ obj = [c \in Conns |-> "none"]
  /\ pcb = [c \in Conns |-> FALSE]
  /\ owns_pcb = [c \in Conns |-> FALSE]
  /\ is_closed = [c \in Conns |-> FALSE]
  /\ listener_owner = [c \in Conns |-> FALSE]
  /\ remote_addr = [c \in Conns |-> NoConn]
  /\ rx_queue = [c \in Conns |-> <<>>]
  /\ l_closed = FALSE
  /\ l_deleted = FALSE
  /\ pending = <<>>
  /\ active_connections = [p \in Peers |-> NoConn]
  /\ arrived = [f \in Flows |-> 0]
  /\ delivered = [f \in Flows |-> <<>>]
  /\ misuse = "none"

\* What follows a use of freed memory is undefined.
Misuse(how) == misuse' = how /\ UNCHANGED <<conns, listener, history>>

----------------------------------------------------------------------------
(* Datagrams.                                                              *)

\* The device receives the next datagram of flow f.
Arrival(f) ==
  /\ arrived[f] < MaxDatagrams
  /\ arrived' = [arrived EXCEPT ![f] = @ + 1]

\* Mutant of Enqueue: the newest datagram is put first.
EnqueueFirst(c, d) ==
  rx_queue' = IF is_closed[c] THEN rx_queue ELSE [rx_queue EXCEPT ![c] = <<d>> \o @]

\* enqueue_datagram; a closed connection ignores it.
Enqueue(c, d) ==
  rx_queue' = IF is_closed[c] THEN rx_queue ELSE [rx_queue EXCEPT ![c] = Append(@, d)]

\* handle_udp_recv of the listener for a peer it knows.
RecvKnown(p) ==
  /\ ~l_closed /\ active_connections[p] # NoConn
  /\ IF obj[active_connections[p]] = "gone"
     THEN Misuse("enqueue")
     ELSE /\ Arrival(p)
          /\ Enqueue(active_connections[p], Datagram(p, arrived[p] + 1))
          /\ UNCHANGED <<obj, pcb, owns_pcb, is_closed, listener_owner, remote_addr,
                         listener, delivered, misuse>>

\* Mutants of RecvNew: the datagram that opens the connection is not queued; the
\* address has been moved from when the object is made.
RecvNewWithoutData(p, c) ==
  /\ ~l_closed /\ active_connections[p] = NoConn /\ obj[c] = "none"
  /\ Arrival(p)
  /\ obj' = [obj EXCEPT ![c] = "pending"]
  /\ pcb' = [pcb EXCEPT ![c] = TRUE]
  /\ listener_owner' = [listener_owner EXCEPT ![c] = TRUE]
  /\ remote_addr' = [remote_addr EXCEPT ![c] = p]
  /\ active_connections' = [active_connections EXCEPT ![p] = c]
  /\ pending' = Append(pending, c)
  /\ UNCHANGED <<owns_pcb, is_closed, rx_queue, l_closed, l_deleted, delivered, misuse>>

RecvNewMovedFrom(p, c) ==
  /\ ~l_closed /\ active_connections[p] = NoConn /\ obj[c] = "none"
  /\ Arrival(p)
  /\ obj' = [obj EXCEPT ![c] = "pending"]
  /\ pcb' = [pcb EXCEPT ![c] = TRUE]
  /\ listener_owner' = [listener_owner EXCEPT ![c] = TRUE]
  /\ Enqueue(c, Datagram(p, arrived[p] + 1))
  /\ active_connections' = [active_connections EXCEPT ![p] = c]
  /\ pending' = Append(pending, c)
  /\ UNCHANGED <<owns_pcb, is_closed, remote_addr, l_closed, l_deleted, delivered,
                 misuse>>

\* The same for a new peer: a connection on the listener's socket is queued.
RecvNew(p, c) ==
  /\ ~l_closed /\ active_connections[p] = NoConn /\ obj[c] = "none"
  /\ Arrival(p)
  /\ obj' = [obj EXCEPT ![c] = "pending"]
  /\ pcb' = [pcb EXCEPT ![c] = TRUE]
  /\ listener_owner' = [listener_owner EXCEPT ![c] = TRUE]
  /\ remote_addr' = [remote_addr EXCEPT ![c] = p]
  /\ Enqueue(c, Datagram(p, arrived[p] + 1))
  /\ active_connections' = [active_connections EXCEPT ![p] = c]
  /\ pending' = Append(pending, c)
  /\ UNCHANGED <<owns_pcb, is_closed, l_closed, l_deleted, delivered, misuse>>

\* handle_udp_recv of a dialled connection.  Its socket is connected, so lwIP
\* passes only the remote's datagrams and the comparison of addresses holds.
RecvDialled(c) ==
  /\ owns_pcb[c] /\ pcb[c]
  /\ Arrival(c)
  /\ Enqueue(c, Datagram(c, arrived[c] + 1))
  /\ UNCHANGED <<obj, pcb, owns_pcb, is_closed, listener_owner, remote_addr,
                 listener, delivered, misuse>>

----------------------------------------------------------------------------
(* The application's calls.                                                *)

Owned(c) == obj[c] = "owned"

\* Network::dial_udp on a network that is ready.
DialUdp(c, p) ==
  /\ obj[c] = "none"
  /\ obj' = [obj EXCEPT ![c] = "owned"]
  /\ pcb' = [pcb EXCEPT ![c] = TRUE]
  /\ owns_pcb' = [owns_pcb EXCEPT ![c] = TRUE]
  /\ remote_addr' = [remote_addr EXCEPT ![c] = p]
  /\ UNCHANGED <<is_closed, listener_owner, rx_queue, listener, history, misuse>>

\* Mutant of Accept: the connection stays queued.
AcceptWithoutPop ==
  /\ ~l_closed /\ pending # <<>>
  /\ obj' = [obj EXCEPT ![Head(pending)] = "owned"]
  /\ UNCHANGED <<pcb, owns_pcb, is_closed, listener_owner, remote_addr, rx_queue,
                 listener, history, misuse>>

\* accept and accept_nonblocking; without a pending connection nothing changes.
Accept ==
  /\ ~l_closed /\ pending # <<>>
  /\ obj' = [obj EXCEPT ![Head(pending)] = "owned"]
  /\ pending' = Tail(pending)
  /\ UNCHANGED <<pcb, owns_pcb, is_closed, listener_owner, remote_addr, rx_queue,
                 l_closed, l_deleted, active_connections, history, misuse>>

\* read_nonblocking: one datagram, of which the caller gets what fits its
\* buffer.  On a closed connection, or an empty queue, nothing changes.
Read(c) ==
  /\ Owned(c) /\ ~is_closed[c] /\ pcb[c] /\ rx_queue[c] # <<>>
  /\ rx_queue' = [rx_queue EXCEPT ![c] = Tail(@)]
  /\ delivered' = [delivered EXCEPT ![Flow(c)] = Append(@, Head(rx_queue[c]))]
  /\ UNCHANGED <<obj, pcb, owns_pcb, is_closed, listener_owner, remote_addr,
                 listener, arrived, misuse>>

\* write: udp_send or udp_sendto changes nothing here, as long as the socket is
\* there.  A connection of a closed listener still holds the removed one.
WriteToRemoved(c) ==
  /\ Owned(c) /\ pcb[c] /\ ~is_closed[c]
  /\ ~owns_pcb[c] /\ l_closed
  /\ Misuse("write")

\* What close does to the connections of S, and the destructor with it.
CloseConns(S) ==
  /\ listener_owner' = [c \in Conns |-> listener_owner[c] /\ c \notin S]
  /\ pcb' = [c \in Conns |-> pcb[c] /\ c \notin S]
  /\ is_closed' = [c \in Conns |-> is_closed[c] \/ c \in S]
  /\ rx_queue' = [c \in Conns |-> IF c \in S THEN <<>> ELSE rx_queue[c]]
  /\ UNCHANGED <<owns_pcb, remote_addr>>

\* Mutant of Close: the listener is not told.
CloseSilently(c, after) ==
  /\ Owned(c)
  /\ CloseConns({c})
  /\ obj' = [obj EXCEPT ![c] = after]
  /\ UNCHANGED <<listener, history, misuse>>

\* close, and the destructor: remove_connection makes the listener forget the
\* peer, so its next datagram starts a new connection.
Close(c, after) ==
  /\ Owned(c)
  /\ IF listener_owner[c] /\ l_deleted
     THEN Misuse("unregister")
     ELSE /\ CloseConns({c})
          /\ active_connections' =
               IF listener_owner[c]
               THEN [active_connections EXCEPT ![remote_addr[c]] = NoConn]
               ELSE active_connections
          /\ obj' = [obj EXCEPT ![c] = after]
          /\ UNCHANGED <<l_closed, l_deleted, pending, history, misuse>>

\* close of the listener, and its destructor: the pending connections are closed
\* and deleted, the others keep their pointers.  On a closed listener the lists
\* are empty.
ListenerClose(deleted) ==
  /\ ~l_deleted
  /\ CloseConns(ToSet(pending))
  /\ obj' = [c \in Conns |-> IF c \in ToSet(pending) THEN "gone" ELSE obj[c]]
  /\ pending' = <<>>
  /\ active_connections' = [p \in Peers |-> NoConn]
  /\ l_closed' = TRUE
  /\ l_deleted' = deleted
  /\ UNCHANGED <<history, misuse>>

Step ==
  \/ \E p \in Peers : RecvKnown(p)
  \/ \E p \in Peers, c \in Conns : RecvNew(p, c) \/ DialUdp(c, p)
  \/ \E c \in Conns :
       \/ RecvDialled(c) \/ Read(c) \/ WriteToRemoved(c)
       \/ Close(c, "owned") \/ Close(c, "gone")
  \/ Accept \/ ListenerClose(FALSE) \/ ListenerClose(TRUE)

\* The model ends at a use of freed memory.
Next == misuse = "none" /\ Step

Spec == Init /\ [][Next]_vars

----------------------------------------------------------------------------
(* Properties.                                                             *)

\* A connection object the application or the listener holds and has not closed.
Live(c) == obj[c] \in {"pending", "owned"} /\ pcb[c]

Datagrams == [flow : Flows, num : Nat \ {0}]

\* Every variable has its type, and every object knows its peer.
TypeOK ==
  /\ obj \in [Conns -> {"none", "pending", "owned", "gone"}]
  /\ pcb \in [Conns -> BOOLEAN] /\ owns_pcb \in [Conns -> BOOLEAN]
  /\ is_closed \in [Conns -> BOOLEAN] /\ listener_owner \in [Conns -> BOOLEAN]
  /\ remote_addr \in [Conns -> Peers \cup {NoConn}]
  /\ \A c \in Conns : obj[c] # "none" => remote_addr[c] \in Peers
  /\ rx_queue \in [Conns -> Seq(Datagrams)]
  /\ l_closed \in BOOLEAN /\ l_deleted \in BOOLEAN
  /\ pending \in Seq(Conns)
  /\ active_connections \in [Peers -> Conns \cup {NoConn}]
  /\ arrived \in [Flows -> Nat]
  /\ delivered \in [Flows -> Seq(Datagrams)]
  /\ misuse \in {"none", "enqueue", "write", "unregister"}

\* An open listener has for every peer the one connection object that is open to
\* it: after any sequence of datagrams, accepts, closes and deletions its map
\* holds no closed and no deleted object and misses none (handle_udp_recv
\* against remove_connection).
OneConnPerPeer ==
  /\ misuse # "enqueue"
  /\ ~l_closed =>
       \A p \in Peers, c \in Conns :
         active_connections[p] = c <=> Live(c) /\ ~owns_pcb[c] /\ remote_addr[c] = p

\* The queue holds exactly the objects the application has not seen, each once.
PendingOnce ==
  IsInjective(pending) /\ ToSet(pending) = {c \in Conns : obj[c] = "pending"}

\* What the application reads of a flow are datagrams of that flow, in the order
\* of their arrival and none twice, through however many connections it reads.
InOrder ==
  \A f \in Flows : LET d == delivered[f] IN
    /\ \A i \in DOMAIN d : d[i].flow = f /\ d[i].num <= arrived[f]
    /\ \A i, j \in DOMAIN d : i < j => d[i].num < d[j].num

\* The flows the code implements: the mailbox of a flow is the queue of the
\* object that is open to it.
Carriers(f) == {c \in Conns : Live(c) /\ Flow(c) = f}
inbox ==
  [f \in Flows |->
     IF Carriers(f) = {} THEN <<>> ELSE rx_queue[CHOOSE c \in Carriers(f) : TRUE]]

Abstract == INSTANCE UdpFlows
  WITH Flows <- Flows, arrived <- arrived, inbox <- inbox, delivered <- delivered

\* Listener and connections together implement the mailboxes: a datagram is put
\* in the mailbox of its flow as it arrives, and leaves it by being read or by a
\* close.
FlowsSpec == Abstract!Spec

\* A connection can be written to and closed whatever became of its listener.
OutlivesListener == misuse \notin {"write", "unregister"}
============================================================================
