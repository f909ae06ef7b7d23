------------------------- MODULE UdpListenerProofs -------------------------
(***************************************************************************)
(* Proofs about UdpListener, for any peers, objects and datagrams: its map *)
(* of open connections, and that it implements the mailboxes of UdpFlows.  *)
(***************************************************************************)
EXTENDS UdpListener, SequenceLemmas

\* The queue names every pending object once.
PendingInv ==
  /\ ToSet(pending) = {c \in Conns : obj[c] = "pending"}
  /\ \A i, j \in 1..Len(pending) : pending[i] = pending[j] => i = j

\* What the fields of an object say about each other.
ObjectInv(c) ==
  /\ obj[c] = "none" =>
       ~owns_pcb[c] /\ ~is_closed[c] /\ ~pcb[c] /\ rx_queue[c] = <<>>
  /\ obj[c] = "pending" => pcb[c] /\ ~owns_pcb[c]
  /\ obj[c] = "gone" => ~pcb[c]
  /\ pcb[c] => ~is_closed[c]
  /\ listener_owner[c] <=> pcb[c] /\ ~owns_pcb[c]

\* No two open objects share a peer of the listener, not even once it is closed
\* and its map is empty.
OneCarrier ==
  \A c, d \in Conns :
    Live(c) /\ Live(d) /\ ~owns_pcb[c] /\ ~owns_pcb[d] /\ remote_addr[c] = remote_addr[d]
      => c = d

Inv ==
  /\ TypeOK
  /\ PendingInv
  /\ \A c \in Conns : ObjectInv(c)
  /\ OneConnPerPeer
  /\ OneCarrier

----------------------------------------------------------------------------
(* The types, action by action.                                            *)

LEMMA ReceiveType ==
  ASSUME TypeOK, NEW f \in Flows, NEW c \in Conns,
         Arrival(f), Enqueue(c, Datagram(f, arrived[f] + 1))
  PROVE  arrived' \in [Flows -> Nat] /\ rx_queue' \in [Conns -> Seq(Datagrams)]
<1>1. arrived' \in [Flows -> Nat]  BY DEF TypeOK, Arrival
<1>2. Datagram(f, arrived[f] + 1) \in Datagrams  BY DEF TypeOK, Datagram, Datagrams
<1>3. Append(rx_queue[c], Datagram(f, arrived[f] + 1)) \in Seq(Datagrams)
  BY <1>2 DEF TypeOK
<1>4. rx_queue' \in [Conns -> Seq(Datagrams)]  BY <1>3 DEF TypeOK, Enqueue
<1> QED  BY <1>1, <1>4

\* Taking the head off the queue of pending connections, or of datagrams.
LEMMA QueueHead ==
  ASSUME NEW S, NEW s \in Seq(S), s # <<>>
  PROVE  Head(s) \in S /\ Tail(s) \in Seq(S) /\ Head(s) \in ToSet(s)
<1>1. Head(s) \in S /\ Tail(s) \in Seq(S) /\ Head(s) = s[1] /\ 1 \in 1..Len(s)
  OBVIOUS
<1> QED  BY <1>1, SetOfSeq

LEMMA FlowType ==
  ASSUME TypeOK, NEW c \in Conns, obj[c] # "none"
  PROVE  Flow(c) \in Flows
  BY DEF TypeOK, Flow, Flows

LEMMA CloseConnsType ==
  ASSUME TypeOK, NEW S, CloseConns(S)
  PROVE  /\ pcb' \in [Conns -> BOOLEAN] /\ owns_pcb' \in [Conns -> BOOLEAN]
         /\ is_closed' \in [Conns -> BOOLEAN] /\ listener_owner' \in [Conns -> BOOLEAN]
         /\ remote_addr' = remote_addr
         /\ rx_queue' \in [Conns -> Seq(Datagrams)]
<1>1. /\ pcb' \in [Conns -> BOOLEAN] /\ is_closed' \in [Conns -> BOOLEAN]
      /\ listener_owner' \in [Conns -> BOOLEAN]
  BY Zenon DEF CloseConns
<1>2. rx_queue' \in [Conns -> Seq(Datagrams)]
  <2>1. <<>> \in Seq(Datagrams)  OBVIOUS
  <2> QED  BY <2>1 DEF CloseConns, TypeOK
<1> QED  BY <1>1, <1>2 DEF CloseConns, TypeOK

LEMMA TypeStep ==
  ASSUME TypeOK, PendingInv, [Next]_vars
  PROVE  TypeOK'
<1> USE DEF conns, listener, history
<1>1. ASSUME NEW p \in Peers, RecvKnown(p) PROVE TypeOK'
  <2>1. CASE obj[active_connections[p]] = "gone"
    BY <1>1, <2>1 DEF RecvKnown, Misuse, TypeOK
  <2>2. CASE obj[active_connections[p]] # "gone"
    <3>1. p \in Flows /\ active_connections[p] \in Conns  BY <1>1 DEF RecvKnown, TypeOK, Flows
    <3>2. Arrival(p) /\ Enqueue(active_connections[p], Datagram(p, arrived[p] + 1))
      BY <1>1, <2>2 DEF RecvKnown
    <3>3. arrived' \in [Flows -> Nat] /\ rx_queue' \in [Conns -> Seq(Datagrams)]
      BY <3>1, <3>2, ReceiveType
    <3>4. UNCHANGED <<obj, pcb, owns_pcb, is_closed, listener_owner, remote_addr,
                      listener, delivered, misuse>>
      BY <1>1, <2>2 DEF RecvKnown
    <3> QED  BY <3>3, <3>4 DEF TypeOK
  <2> QED  BY <2>1, <2>2
<1>2. ASSUME NEW p \in Peers, NEW c \in Conns, RecvNew(p, c) PROVE TypeOK'
  <2>1. p \in Flows  BY DEF Flows
  <2>2. Arrival(p) /\ Enqueue(c, Datagram(p, arrived[p] + 1))  BY <1>2 DEF RecvNew
  <2>3. arrived' \in [Flows -> Nat] /\ rx_queue' \in [Conns -> Seq(Datagrams)]
    BY <2>1, <2>2, ReceiveType
  <2>4. pending' \in Seq(Conns)  BY <1>2 DEF RecvNew, TypeOK
  <2>5. active_connections' \in [Peers -> Conns \cup {NoConn}]
    BY <1>2 DEF RecvNew, TypeOK
  <2>6. /\ obj' \in [Conns -> {"none", "pending", "owned", "gone"}]
        /\ pcb' \in [Conns -> BOOLEAN] /\ listener_owner' \in [Conns -> BOOLEAN]
        /\ remote_addr' \in [Conns -> Peers \cup {NoConn}]
        /\ \A d \in Conns : obj'[d] # "none" => remote_addr'[d] \in Peers
    BY <1>2 DEF RecvNew, TypeOK
  <2>7. UNCHANGED <<owns_pcb, is_closed, l_closed, l_deleted, delivered, misuse>>
    BY <1>2 DEF RecvNew
  <2> QED  BY <2>3, <2>4, <2>5, <2>6, <2>7 DEF TypeOK
<1>3. ASSUME NEW c \in Conns, RecvDialled(c) PROVE TypeOK'
  <2>1. c \in Flows  BY DEF Flows
  <2>2. Arrival(c) /\ Enqueue(c, Datagram(c, arrived[c] + 1))  BY <1>3 DEF RecvDialled
  <2>3. arrived' \in [Flows -> Nat] /\ rx_queue' \in [Conns -> Seq(Datagrams)]
    BY <2>1, <2>2, ReceiveType
  <2> QED  BY <1>3, <2>3 DEF RecvDialled, TypeOK
<1>4. ASSUME NEW c \in Conns, NEW p \in Peers, DialUdp(c, p) PROVE TypeOK'
  BY <1>4 DEF DialUdp, TypeOK
<1>5. CASE Accept
  <2>1. /\ Head(pending) \in Conns /\ Tail(pending) \in Seq(Conns)
        /\ Head(pending) \in ToSet(pending)
    BY <1>5, QueueHead DEF Accept, TypeOK
  <2>2. obj[Head(pending)] = "pending"  BY <2>1 DEF PendingInv
  <2> QED  BY <1>5, <2>1, <2>2 DEF Accept, TypeOK
<1>6. ASSUME NEW c \in Conns, Read(c) PROVE TypeOK'
  <2>1. Head(rx_queue[c]) \in Datagrams /\ Tail(rx_queue[c]) \in Seq(Datagrams)
    BY <1>6 DEF Read, TypeOK
  <2>2. Flow(c) \in Flows  BY <1>6, FlowType DEF Read, Owned
  <2>3. Append(delivered[Flow(c)], Head(rx_queue[c])) \in Seq(Datagrams)
    BY <2>1, <2>2 DEF TypeOK
  <2>4. rx_queue' \in [Conns -> Seq(Datagrams)]  BY <1>6, <2>1 DEF Read, TypeOK
  <2>5. delivered' \in [Flows -> Seq(Datagrams)]  BY <1>6, <2>2, <2>3 DEF Read, TypeOK
  <2> QED  BY <1>6, <2>4, <2>5 DEF Read, TypeOK
<1>7. ASSUME NEW c \in Conns, WriteToRemoved(c) PROVE TypeOK'
  BY <1>7 DEF WriteToRemoved, Misuse, TypeOK
<1>8. ASSUME NEW c \in Conns, NEW after \in {"owned", "gone"}, Close(c, after)
      PROVE  TypeOK'
  <2>1. CASE listener_owner[c] /\ l_deleted
    BY <1>8, <2>1 DEF Close, Misuse, TypeOK
  <2>2. CASE ~(listener_owner[c] /\ l_deleted)
    <3>1. CloseConns({c})  BY <1>8, <2>2 DEF Close
    <3>2. active_connections' \in [Peers -> Conns \cup {NoConn}]
      BY <1>8, <2>2 DEF Close, TypeOK
    <3>3. obj' \in [Conns -> {"none", "pending", "owned", "gone"}]
      BY <1>8, <2>2 DEF Close, TypeOK
    <3>4. \A d \in Conns : obj'[d] # "none" => remote_addr[d] \in Peers
      BY <1>8, <2>2 DEF Close, Owned, TypeOK
    <3> QED  BY <1>8, <2>2, <3>1, <3>2, <3>3, <3>4, CloseConnsType DEF Close, TypeOK
  <2> QED  BY <2>1, <2>2
<1>9. ASSUME NEW deleted \in BOOLEAN, ListenerClose(deleted) PROVE TypeOK'
  <2>1. CloseConns(ToSet(pending))  BY <1>9 DEF ListenerClose
  <2>2. obj' \in [Conns -> {"none", "pending", "owned", "gone"}]
    BY <1>9 DEF ListenerClose, TypeOK
  <2>3. \A d \in Conns : obj'[d] # "none" => remote_addr[d] \in Peers
    BY <1>9 DEF ListenerClose, PendingInv, TypeOK
  <2>4. active_connections' \in [Peers -> Conns \cup {NoConn}] /\ pending' \in Seq(Conns)
    BY <1>9 DEF ListenerClose
  <2> QED  BY <1>9, <2>1, <2>2, <2>3, <2>4, CloseConnsType DEF ListenerClose, TypeOK
<1>10. CASE UNCHANGED vars  BY <1>10 DEF vars, TypeOK
<1> QED
  BY <1>1, <1>2, <1>3, <1>4, <1>5, <1>6, <1>7, <1>8, <1>9, <1>10 DEF Next, Step

----------------------------------------------------------------------------
(* The other parts of the invariant.                                       *)

LEMMA PendingStep ==
  ASSUME TypeOK, PendingInv, [Next]_vars
  PROVE  PendingInv'
<1> USE DEF conns, listener, history
<1>0. pending \in Seq(Conns)  BY DEF TypeOK
<1>1. ASSUME NEW p \in Peers, RecvKnown(p) PROVE UNCHANGED <<obj, pending>>
  BY <1>1 DEF RecvKnown, Misuse
<1>2. ASSUME NEW p \in Peers, NEW c \in Conns, RecvNew(p, c) PROVE PendingInv'
  <2>1. obj[c] = "none" /\ pending' = Append(pending, c)
    BY <1>2 DEF RecvNew
  <2>2. c \notin ToSet(pending)  BY <2>1 DEF PendingInv
  <2>3. /\ ToSet(pending') = ToSet(pending) \cup {c}
        /\ \A i, j \in 1..Len(pending') : pending'[i] = pending'[j] => i = j
    BY <1>0, <2>1, <2>2, SetOfAppend DEF PendingInv
  <2>4. {d \in Conns : obj'[d] = "pending"} = {d \in Conns : obj[d] = "pending"} \cup {c}
    BY <1>2 DEF RecvNew, TypeOK
  <2> QED  BY <2>3, <2>4 DEF PendingInv
<1>3. ASSUME NEW c \in Conns, NEW p \in Peers, DialUdp(c, p) PROVE PendingInv'
  <2>1. {d \in Conns : obj'[d] = "pending"} = {d \in Conns : obj[d] = "pending"}
    BY <1>3 DEF DialUdp, TypeOK
  <2> QED  BY <1>3, <2>1 DEF DialUdp, PendingInv
<1>4. CASE Accept
  <2>1. /\ pending # <<>> /\ pending' = Tail(pending)
        /\ obj' = [obj EXCEPT ![Head(pending)] = "owned"]
    BY <1>4 DEF Accept
  <2>2. /\ ToSet(pending') = ToSet(pending) \ {Head(pending)}
        /\ \A i, j \in 1..Len(pending') : pending'[i] = pending'[j] => i = j
    BY <1>0, <2>1, SetOfTail DEF PendingInv
  <2>3. {d \in Conns : obj'[d] = "pending"}
          = {d \in Conns : obj[d] = "pending"} \ {Head(pending)}
    BY <2>1 DEF TypeOK
  <2> QED  BY <2>2, <2>3 DEF PendingInv
<1>5. ASSUME NEW c \in Conns, RecvDialled(c) \/ Read(c) \/ WriteToRemoved(c)
      PROVE  UNCHANGED <<obj, pending>>
  BY <1>5 DEF RecvDialled, Read, WriteToRemoved, Misuse
<1>6. ASSUME NEW c \in Conns, NEW after \in {"owned", "gone"}, Close(c, after)
      PROVE  PendingInv'
  <2>1. {d \in Conns : obj'[d] = "pending"} = {d \in Conns : obj[d] = "pending"}
    BY <1>6 DEF Close, Owned, Misuse, TypeOK
  <2> QED  BY <1>6, <2>1 DEF Close, Misuse, PendingInv
<1>7. ASSUME NEW deleted \in BOOLEAN, ListenerClose(deleted) PROVE PendingInv'
  <2>1. pending' = <<>> /\ {d \in Conns : obj'[d] = "pending"} = {}
    BY <1>7 DEF ListenerClose, PendingInv
  <2>2. ToSet(pending') = {}  BY <2>1 DEF ToSet
  <2> QED  BY <2>1, <2>2 DEF PendingInv
<1>8. CASE UNCHANGED <<obj, pending>>  BY <1>8 DEF PendingInv
<1>9. CASE UNCHANGED vars  BY <1>8, <1>9 DEF vars
<1> QED  BY <1>1, <1>2, <1>3, <1>4, <1>5, <1>6, <1>7, <1>8, <1>9 DEF Next, Step

LEMMA ObjectStep ==
  ASSUME Inv, [Next]_vars
  PROVE  \A c \in Conns : ObjectInv(c)'
<1> USE DEF conns, listener, history, Inv, TypeOK, ObjectInv
<1>1. ASSUME NEW p \in Peers, RecvKnown(p) PROVE \A d \in Conns : ObjectInv(d)'
  <2>1. active_connections[p] \in Conns /\ Live(active_connections[p])
    BY <1>1 DEF RecvKnown, OneConnPerPeer
  <2> QED  BY <1>1, <2>1 DEF RecvKnown, Enqueue, Live
<1>2. ASSUME NEW p \in Peers, NEW c \in Conns, RecvNew(p, c)
      PROVE  \A d \in Conns : ObjectInv(d)'
  BY <1>2 DEF RecvNew, Enqueue
<1>3. ASSUME NEW c \in Conns, NEW p \in Peers, DialUdp(c, p)
      PROVE  \A d \in Conns : ObjectInv(d)'
  BY <1>3 DEF DialUdp
<1>4. CASE Accept
  <2>1. Head(pending) \in Conns /\ obj[Head(pending)] = "pending"
    BY <1>4, QueueHead DEF Accept, PendingInv
  <2> QED  BY <1>4, <2>1 DEF Accept
<1>5. ASSUME NEW c \in Conns, RecvDialled(c) PROVE \A d \in Conns : ObjectInv(d)'
  BY <1>5 DEF RecvDialled, Enqueue
<1>6. ASSUME NEW c \in Conns, Read(c) PROVE \A d \in Conns : ObjectInv(d)'
  BY <1>6 DEF Read, Owned
<1>7. ASSUME NEW c \in Conns, WriteToRemoved(c) PROVE \A d \in Conns : ObjectInv(d)'
  BY <1>7 DEF WriteToRemoved, Misuse
<1>8. ASSUME NEW c \in Conns, NEW after \in {"owned", "gone"}, Close(c, after)
      PROVE  \A d \in Conns : ObjectInv(d)'
  <2>1. CASE listener_owner[c] /\ l_deleted  BY <1>8, <2>1 DEF Close, Misuse
  <2>2. CASE ~(listener_owner[c] /\ l_deleted)
    BY <1>8, <2>2 DEF Close, CloseConns, Owned
  <2> QED  BY <2>1, <2>2
<1>9. ASSUME NEW deleted \in BOOLEAN, ListenerClose(deleted)
      PROVE  \A d \in Conns : ObjectInv(d)'
  BY <1>9 DEF ListenerClose, CloseConns, PendingInv
<1>10. CASE UNCHANGED vars  BY <1>10 DEF vars
<1> QED
  BY <1>1, <1>2, <1>3, <1>4, <1>5, <1>6, <1>7, <1>8, <1>9, <1>10 DEF Next, Step

\* The map and the objects change together.
LEMMA MapStep ==
  ASSUME Inv, [Next]_vars
  PROVE  OneConnPerPeer' /\ OneCarrier'
<1> USE DEF conns, listener, history, Inv, Live, OneConnPerPeer, OneCarrier
<1>0. TypeOK /\ NoConn \notin Conns  BY ConstantsAssumption DEF ConstantsAssumption
<1>1. ASSUME NEW p \in Peers, RecvKnown(p) PROVE OneConnPerPeer' /\ OneCarrier'
  <2>1. obj[active_connections[p]] # "gone"  BY <1>1 DEF RecvKnown, TypeOK, ObjectInv
  <2> QED  BY <1>1, <2>1 DEF RecvKnown
<1>2. ASSUME NEW p \in Peers, NEW c \in Conns, RecvNew(p, c)
      PROVE  OneConnPerPeer' /\ OneCarrier'
  <2>1. /\ obj' = [obj EXCEPT ![c] = "pending"] /\ pcb' = [pcb EXCEPT ![c] = TRUE]
        /\ remote_addr' = [remote_addr EXCEPT ![c] = p] /\ obj[c] = "none"
        /\ active_connections' = [active_connections EXCEPT ![p] = c]
        /\ active_connections[p] = NoConn /\ ~l_closed
        /\ UNCHANGED <<owns_pcb, l_closed, misuse>>
    BY <1>2 DEF RecvNew
  <2>2. ~owns_pcb[c]  BY <2>1 DEF ObjectInv
  <2>3. \A d \in Conns : ~(Live(d) /\ ~owns_pcb[d] /\ remote_addr[d] = p)
    BY <1>0, <2>1
  <2>4. \A q \in Peers, d \in Conns :
          active_connections'[q] = d <=> Live(d)' /\ ~owns_pcb'[d] /\ remote_addr'[d] = q
    BY <2>1, <2>2, <2>3 DEF TypeOK
  <2>5. OneCarrier'  BY <2>1, <2>3 DEF TypeOK
  <2> QED  BY <2>1, <2>4, <2>5
<1>3. ASSUME NEW c \in Conns, NEW p \in Peers, DialUdp(c, p)
      PROVE  OneConnPerPeer' /\ OneCarrier'
  BY <1>3 DEF DialUdp, TypeOK
<1>4. CASE Accept
  <2>1. Head(pending) \in Conns /\ obj[Head(pending)] = "pending"
    BY <1>4, QueueHead DEF Accept, PendingInv, TypeOK
  <2> QED  BY <1>4, <2>1 DEF Accept, TypeOK
<1>5. ASSUME NEW c \in Conns, RecvDialled(c) \/ Read(c) \/ WriteToRemoved(c)
      PROVE  OneConnPerPeer' /\ OneCarrier'
  BY <1>5 DEF RecvDialled, Read, WriteToRemoved, Misuse
<1>6. ASSUME NEW c \in Conns, NEW after \in {"owned", "gone"}, Close(c, after)
      PROVE  OneConnPerPeer' /\ OneCarrier'
  <2>1. CASE listener_owner[c] /\ l_deleted  BY <1>6, <2>1 DEF Close, Misuse
  <2>2. CASE ~(listener_owner[c] /\ l_deleted)
    <3>0. \A d \in Conns : pcb'[d] <=> pcb[d] /\ d # c
      <4>1. CloseConns({c})  BY <1>6, <2>2 DEF Close
      <4>2. pcb' = [d \in Conns |-> pcb[d] /\ d \notin {c}]  BY <4>1 DEF CloseConns
      <4> QED  BY <4>2, Zenon
    <3>1. /\ obj' = [obj EXCEPT ![c] = after] /\ obj[c] = "owned"
          /\ UNCHANGED <<owns_pcb, remote_addr, l_closed, misuse>>
          /\ active_connections' =
               IF listener_owner[c]
               THEN [active_connections EXCEPT ![remote_addr[c]] = NoConn]
               ELSE active_connections
      BY <1>6, <2>2 DEF Close, CloseConns, Owned
    <3>2. \A d \in Conns : Live(d)' <=> Live(d) /\ d # c  BY <3>0, <3>1 DEF TypeOK
    <3>3. OneCarrier'  BY <3>1, <3>2
    <3>4. listener_owner[c] <=> Live(c) /\ ~owns_pcb[c]
      BY <3>1 DEF ObjectInv
    <3>5. remote_addr[c] \in Peers  BY <3>1 DEF TypeOK
    <3>6. OneConnPerPeer'  BY <1>0, <3>1, <3>2, <3>4, <3>5 DEF TypeOK
    <3> QED  BY <3>3, <3>6
  <2> QED  BY <2>1, <2>2
<1>7. ASSUME NEW deleted \in BOOLEAN, ListenerClose(deleted)
      PROVE  OneConnPerPeer' /\ OneCarrier'
  <2>1. /\ \A d \in Conns : Live(d)' => Live(d)
        /\ UNCHANGED <<owns_pcb, remote_addr, misuse>> /\ l_closed' = TRUE
    BY <1>7 DEF ListenerClose, CloseConns
  <2> QED  BY <2>1
<1>8. CASE UNCHANGED vars  BY <1>8 DEF vars
<1> QED  BY <1>1, <1>2, <1>3, <1>4, <1>5, <1>6, <1>7, <1>8 DEF Next, Step

LEMMA InitInv == Init => Inv
<1> SUFFICES ASSUME Init PROVE Inv  OBVIOUS
<1>1. TypeOK
  <2>1. rx_queue \in [Conns -> Seq(Datagrams)] /\ delivered \in [Flows -> Seq(Datagrams)]
    BY DEF Init
  <2>2. arrived \in [Flows -> Nat] /\ pending \in Seq(Conns)  BY DEF Init
  <2> QED  BY <2>1, <2>2 DEF Init, TypeOK
<1>2. PendingInv
  <2>1. ToSet(pending) = {}  BY DEF Init, ToSet
  <2> QED  BY <2>1 DEF Init, PendingInv
<1>3. \A c \in Conns : ObjectInv(c)  BY DEF Init, ObjectInv
<1>4. OneConnPerPeer /\ OneCarrier
  BY ConstantsAssumption DEF ConstantsAssumption, Init, OneConnPerPeer, OneCarrier, Live
<1> QED  BY <1>1, <1>2, <1>3, <1>4 DEF Inv

LEMMA InvAlways == Spec => []Inv
<1>1. Inv /\ [Next]_vars => Inv'
  BY TypeStep, PendingStep, ObjectStep, MapStep DEF Inv
<1> QED  BY <1>1, InitInv, PTL DEF Spec

\* Every variable has its type, for any peers, objects and datagrams.
THEOREM TypeCorrect == Spec => []TypeOK
<1>1. Inv => TypeOK  BY DEF Inv
<1> QED  BY <1>1, InvAlways, PTL

\* The listener's map names for every peer exactly the object that is open to
\* it, and none that was closed or deleted.
THEOREM MapCorrect == Spec => []OneConnPerPeer
<1>1. Inv => OneConnPerPeer  BY DEF Inv
<1> QED  BY <1>1, InvAlways, PTL

\* The queue holds exactly the objects the application has not seen, each once.
THEOREM PendingCorrect == Spec => []PendingOnce
<1>1. ASSUME Inv PROVE PendingOnce
  <2>1. pending \in Seq(Conns)  BY <1>1 DEF Inv, TypeOK
  <2>2. IsInjective(pending)  BY <1>1, <2>1 DEF Inv, PendingInv, IsInjective
  <2> QED  BY <1>1, <2>2 DEF Inv, PendingInv, PendingOnce
<1> QED  BY <1>1, InvAlways, PTL

----------------------------------------------------------------------------
(* The mailboxes of UdpFlows.                                              *)

Carries(c, f) == Live(c) /\ Flow(c) = f

\* The mailbox of a flow without reference to the choice in its definition.
InboxInv ==
  /\ \A f \in Flows, c \in Conns : Carries(c, f) => inbox[f] = rx_queue[c]
  /\ \A f \in Flows : (\A c \in Conns : ~Carries(c, f)) => inbox[f] = <<>>
  /\ inbox = [f \in Flows |-> inbox[f]]

\* Two open objects never share a flow.
LEMMA OneCarrierPerFlow ==
  ASSUME Inv, NEW f \in Flows, NEW c \in Conns, NEW d \in Conns,
         Carries(c, f), Carries(d, f)
  PROVE  c = d
<1>1. Peers \cap Conns = {}  BY ConstantsAssumption DEF ConstantsAssumption
<1>2. ASSUME NEW e \in Conns, Carries(e, f), ~owns_pcb[e]
      PROVE  f \in Peers /\ remote_addr[e] = f
  BY <1>2 DEF Inv, TypeOK, Carries, Flow, Live
<1>3. ASSUME NEW e \in Conns, Carries(e, f), owns_pcb[e] PROVE e = f
  BY <1>3 DEF Carries, Flow
<1> QED  BY <1>1, <1>2, <1>3 DEF Inv, OneCarrier, Carries

LEMMA InboxIs == Inv => InboxInv
<1> SUFFICES ASSUME Inv PROVE InboxInv  OBVIOUS
<1>1. ASSUME NEW f \in Flows, NEW c \in Conns, Carries(c, f)
      PROVE  inbox[f] = rx_queue[c]
  <2>1. \A d \in Carriers(f) : d = c
    BY <1>1, OneCarrierPerFlow DEF Carriers, Carries
  <2>2. c \in Carriers(f)  BY <1>1 DEF Carriers, Carries
  <2>3. (CHOOSE d \in Carriers(f) : TRUE) = c  BY <2>1, <2>2
  <2> QED  BY <2>2, <2>3 DEF inbox
<1>2. ASSUME NEW f \in Flows, \A c \in Conns : ~Carries(c, f) PROVE inbox[f] = <<>>
  <2>1. Carriers(f) = {}  BY <1>2 DEF Carriers, Carries
  <2> QED  BY <2>1 DEF inbox
<1>3. inbox = [f \in Flows |-> inbox[f]]  BY DEF inbox
<1> QED  BY <1>1, <1>2, <1>3 DEF InboxInv

\* A step that changes neither the object that carries a flow nor its queue
\* leaves the mailbox alone.
LEMMA InboxKept ==
  ASSUME InboxInv, InboxInv', NEW f \in Flows,
         \A c \in Conns : Carries(c, f)' <=> Carries(c, f),
         \A c \in Conns : Carries(c, f) => rx_queue'[c] = rx_queue[c]
  PROVE  inbox'[f] = inbox[f]
<1>1. CASE \E c \in Conns : Carries(c, f)
  <2> PICK c \in Conns : Carries(c, f)  BY <1>1
  <2>1. Carries(c, f)'  OBVIOUS
  <2>2. inbox[f] = rx_queue[c] /\ inbox'[f] = rx_queue'[c]  BY <2>1 DEF InboxInv
  <2> QED  BY <2>2
<1>2. CASE \A c \in Conns : ~Carries(c, f)
  <2>1. \A c \in Conns : ~Carries(c, f)'  BY <1>2
  <2> QED  BY <1>2, <2>1 DEF InboxInv
<1> QED  BY <1>1, <1>2

\* Nothing the mailboxes show has changed.
Quiet ==
  /\ \A c \in Conns, f \in Flows : Carries(c, f)' <=> Carries(c, f)
  /\ UNCHANGED <<rx_queue, arrived, delivered>>

LEMMA QuietStutters ==
  ASSUME InboxInv, InboxInv', Quiet
  PROVE  UNCHANGED Abstract!vars
<1>1. \A f \in Flows : inbox'[f] = inbox[f]  BY InboxKept DEF Quiet
<1>2. inbox' = inbox  BY <1>1, Zenon DEF InboxInv
<1> QED  BY <1>2 DEF Quiet, Abstract!vars

\* A datagram is queued at the object that carries its flow.
LEMMA ArriveStep ==
  ASSUME Inv, InboxInv, InboxInv', NEW f \in Flows, NEW c \in Conns,
         Carries(c, f)', inbox[f] = rx_queue[c], ~is_closed[c],
         \A d \in Conns, g \in Flows : g # f => (Carries(d, g)' <=> Carries(d, g)),
         \A d \in Conns, g \in Flows : g # f /\ Carries(d, g) => d # c,
         Arrival(f), Enqueue(c, Datagram(f, arrived[f] + 1)), UNCHANGED delivered
  PROVE  Abstract!Arrive(f)
<1>0. rx_queue' = [rx_queue EXCEPT ![c] = Append(@, Datagram(f, arrived[f] + 1))]
  BY DEF Enqueue
<1>1. ASSUME NEW g \in Flows, g # f PROVE inbox'[g] = inbox[g]
  <2>1. \A d \in Conns : Carries(d, g)' <=> Carries(d, g)  BY <1>1
  <2>2. \A d \in Conns : Carries(d, g) => rx_queue'[d] = rx_queue[d]
    BY <1>0, <1>1 DEF Inv, TypeOK
  <2> QED  BY <2>1, <2>2, InboxKept
<1>2. inbox'[f] = Append(inbox[f], Datagram(f, arrived[f] + 1))
  <2>1. inbox'[f] = rx_queue'[c]  BY DEF InboxInv
  <2> QED  BY <1>0, <2>1 DEF Inv, TypeOK
<1>3. inbox' = [inbox EXCEPT ![f] = Append(@, Datagram(f, arrived[f] + 1))]
  BY <1>1, <1>2 DEF InboxInv
<1> QED  BY <1>3 DEF Abstract!Arrive, Abstract!Datagram, Datagram, Arrival

\* The listener, or one connection, lets go of objects and of all they carry.
LEMMA EndStep ==
  ASSUME InboxInv, InboxInv', NEW S \in SUBSET Conns,
         \A c \in Conns, f \in Flows : Carries(c, f)' <=> Carries(c, f) /\ c \notin S,
         \A c \in Conns \ S : rx_queue'[c] = rx_queue[c],
         Inv, UNCHANGED <<arrived, delivered>>
  PROVE  Abstract!End({f \in Flows : \E c \in S : Carries(c, f)})
<1> DEFINE F == {f \in Flows : \E c \in S : Carries(c, f)}
<1>1. ASSUME NEW f \in F PROVE inbox'[f] = <<>>
  <2> PICK c \in S : Carries(c, f)  OBVIOUS
  <2>1. \A d \in Conns : ~Carries(d, f)'  BY OneCarrierPerFlow
  <2> QED  BY <2>1 DEF InboxInv
<1>2. ASSUME NEW f \in Flows \ F PROVE inbox'[f] = inbox[f]
  <2>1. \A c \in Conns : Carries(c, f)' <=> Carries(c, f)  OBVIOUS
  <2>2. \A c \in Conns : Carries(c, f) => rx_queue'[c] = rx_queue[c]  OBVIOUS
  <2> QED  BY <2>1, <2>2, InboxKept
<1>3. inbox' = [f \in Flows |-> IF f \in F THEN <<>> ELSE inbox[f]]
  BY <1>1, <1>2 DEF InboxInv
<1> QED  BY <1>3 DEF Abstract!End

LEMMA AbstractStep ==
  ASSUME Inv, Inv', InboxInv, InboxInv', [Next]_vars
  PROVE  [Abstract!Next]_(Abstract!vars)
<1> USE DEF conns, listener, history
<1>0. TypeOK /\ \A c \in Conns : ObjectInv(c)  BY DEF Inv
<1>1. CASE UNCHANGED <<conns, history>>
  <2>1. Quiet  BY <1>1 DEF Quiet, Carries, Live, Flow
  <2> QED  BY <2>1, QuietStutters
<1>2. ASSUME NEW p \in Peers, RecvKnown(p) PROVE [Abstract!Next]_(Abstract!vars)
  <2> DEFINE c == active_connections[p]
  <2>1. c \in Conns /\ p \in Flows  BY <1>0, <1>2 DEF RecvKnown, TypeOK, Flows
  <2>2. Live(c) /\ ~owns_pcb[c] /\ remote_addr[c] = p
    BY <1>2, <2>1 DEF RecvKnown, Inv, OneConnPerPeer
  <2>3. Carries(c, p) /\ ~is_closed[c] /\ obj[c] # "gone"
    BY <1>0, <2>1, <2>2 DEF Carries, Flow, ObjectInv, Live
  <2>4. /\ Arrival(p) /\ Enqueue(c, Datagram(p, arrived[p] + 1))
        /\ UNCHANGED <<obj, pcb, owns_pcb, is_closed, remote_addr, delivered>>
    BY <1>2, <2>3 DEF RecvKnown
  <2>5. \A d \in Conns, g \in Flows : Carries(d, g)' <=> Carries(d, g)
    BY <2>4 DEF Carries, Live, Flow
  <2>6. \A d \in Conns, g \in Flows : g # p /\ Carries(d, g) => d # c
    BY <2>3 DEF Carries
  <2>7. inbox[p] = rx_queue[c]  BY <2>1, <2>3 DEF InboxInv
  <2> HIDE DEF c
  <2>8. Abstract!Arrive(p)  BY <2>1, <2>3, <2>4, <2>5, <2>6, <2>7, ArriveStep
  <2> QED  BY <2>1, <2>8 DEF Abstract!Next
<1>3. ASSUME NEW p \in Peers, NEW c \in Conns, RecvNew(p, c)
      PROVE  [Abstract!Next]_(Abstract!vars)
  <2>0. p \in Flows /\ c # p
    BY ConstantsAssumption DEF ConstantsAssumption, Flows
  <2>1. /\ obj' = [obj EXCEPT ![c] = "pending"] /\ pcb' = [pcb EXCEPT ![c] = TRUE]
        /\ remote_addr' = [remote_addr EXCEPT ![c] = p] /\ obj[c] = "none"
        /\ active_connections[p] = NoConn /\ ~l_closed
        /\ Arrival(p) /\ Enqueue(c, Datagram(p, arrived[p] + 1))
        /\ UNCHANGED <<owns_pcb, is_closed, delivered>>
    BY <1>3 DEF RecvNew
  <2>2. ~owns_pcb[c] /\ ~is_closed[c] /\ rx_queue[c] = <<>>
    BY <1>0, <2>1 DEF ObjectInv
  <2>3. \A d \in Conns : ~Carries(d, p)
    <3>1. \A d \in Conns : active_connections[p] # d
      BY <2>1, ConstantsAssumption DEF ConstantsAssumption
    <3>2. \A d \in Conns : Live(d) /\ ~owns_pcb[d] => remote_addr[d] # p
      BY <2>1, <3>1 DEF Inv, OneConnPerPeer
    <3>3. \A d \in Conns : owns_pcb[d] => Flow(d) # p
      BY ConstantsAssumption DEF ConstantsAssumption, Flow
    <3> QED  BY <3>2, <3>3 DEF Carries, Flow
  <2>4. inbox[p] = rx_queue[c]  BY <2>0, <2>2, <2>3 DEF InboxInv
  <2>5. Carries(c, p)'  BY <1>0, <2>1, <2>2 DEF Carries, Live, Flow, TypeOK
  <2>6. \A d \in Conns, g \in Flows : g # p => (Carries(d, g)' <=> Carries(d, g))
    BY <1>0, <2>1, <2>2 DEF Carries, Live, Flow, TypeOK
  <2>7. \A d \in Conns, g \in Flows : g # p /\ Carries(d, g) => d # c
    BY <2>1 DEF Carries, Live
  <2>8. Abstract!Arrive(p)
    BY <2>0, <2>1, <2>2, <2>4, <2>5, <2>6, <2>7, ArriveStep
  <2> QED  BY <2>0, <2>8 DEF Abstract!Next
<1>4. ASSUME NEW c \in Conns, RecvDialled(c) PROVE [Abstract!Next]_(Abstract!vars)
  <2>0. c \in Flows  BY DEF Flows
  <2>1. /\ owns_pcb[c] /\ pcb[c]
        /\ Arrival(c) /\ Enqueue(c, Datagram(c, arrived[c] + 1))
        /\ UNCHANGED <<obj, pcb, owns_pcb, is_closed, remote_addr, delivered>>
    BY <1>4 DEF RecvDialled
  <2>2. Carries(c, c) /\ ~is_closed[c]
    BY <1>0, <2>1 DEF Carries, Live, Flow, ObjectInv, TypeOK
  <2>3. \A d \in Conns, g \in Flows : Carries(d, g)' <=> Carries(d, g)
    BY <2>1 DEF Carries, Live, Flow
  <2>4. \A d \in Conns, g \in Flows : g # c /\ Carries(d, g) => d # c
    BY <2>2 DEF Carries
  <2>5. inbox[c] = rx_queue[c]  BY <2>0, <2>2 DEF InboxInv
  <2>6. Abstract!Arrive(c)  BY <2>0, <2>1, <2>2, <2>3, <2>4, <2>5, ArriveStep
  <2> QED  BY <2>0, <2>6 DEF Abstract!Next
<1>5. ASSUME NEW c \in Conns, NEW p \in Peers, DialUdp(c, p)
      PROVE  [Abstract!Next]_(Abstract!vars)
  <2>1. /\ obj[c] = "none" /\ obj' = [obj EXCEPT ![c] = "owned"]
        /\ pcb' = [pcb EXCEPT ![c] = TRUE] /\ owns_pcb' = [owns_pcb EXCEPT ![c] = TRUE]
        /\ remote_addr' = [remote_addr EXCEPT ![c] = p]
        /\ UNCHANGED <<rx_queue, arrived, delivered>>
    BY <1>5 DEF DialUdp
  <2>2. rx_queue[c] = <<>>  BY <1>0, <2>1 DEF ObjectInv
  <2>3. \A d \in Conns, f \in Flows : f # c => (Carries(d, f)' <=> Carries(d, f))
    BY <1>0, <2>1 DEF Carries, Live, Flow, TypeOK
  <2>4. ASSUME NEW f \in Flows PROVE inbox'[f] = inbox[f]
    <3>1. CASE f # c  BY <2>1, <2>3, <3>1, InboxKept
    <3>2. CASE f = c
      <4>1. Carries(c, c)'  BY <1>0, <2>1 DEF Carries, Live, Flow, TypeOK
      <4>2. inbox'[c] = <<>>  BY <2>1, <2>2, <3>2, <4>1 DEF InboxInv
      <4>3. ASSUME NEW d \in Conns, Carries(d, c) PROVE FALSE
        <5>1. ~(remote_addr[d] \in Peers /\ remote_addr[d] = c)
          BY ConstantsAssumption DEF ConstantsAssumption
        <5> QED  BY <1>0, <2>1, <4>3, <5>1 DEF Carries, Live, Flow, TypeOK
      <4>4. inbox[c] = <<>>  BY <3>2, <4>3 DEF InboxInv
      <4> QED  BY <3>2, <4>2, <4>4
    <3> QED  BY <3>1, <3>2
  <2>5. inbox' = inbox  BY <2>4, Zenon DEF InboxInv
  <2> QED  BY <2>1, <2>5 DEF Abstract!vars
<1>6. CASE Accept
  <2>1. Head(pending) \in Conns /\ obj[Head(pending)] = "pending"
    BY <1>0, <1>6, QueueHead DEF Accept, Inv, PendingInv, TypeOK
  <2>2. Quiet  BY <1>0, <1>6, <2>1 DEF Accept, Quiet, Carries, Live, Flow, TypeOK
  <2> QED  BY <2>2, QuietStutters
<1>7. ASSUME NEW c \in Conns, Read(c) PROVE [Abstract!Next]_(Abstract!vars)
  <2> DEFINE f == Flow(c)
  <2>1. /\ obj[c] = "owned" /\ pcb[c] /\ rx_queue[c] # <<>>
        /\ rx_queue' = [rx_queue EXCEPT ![c] = Tail(@)]
        /\ delivered' = [delivered EXCEPT ![f] = Append(@, Head(rx_queue[c]))]
        /\ UNCHANGED <<obj, pcb, owns_pcb, remote_addr, arrived>>
    BY <1>7 DEF Read, Owned
  <2>2. f \in Flows /\ Carries(c, f)  BY <1>0, <2>1, FlowType DEF Carries, Live
  <2>3. \A d \in Conns, g \in Flows : Carries(d, g)' <=> Carries(d, g)
    BY <2>1 DEF Carries, Live, Flow
  <2>4. ASSUME NEW g \in Flows, g # f PROVE inbox'[g] = inbox[g]
    <3>1. \A d \in Conns : Carries(d, g) => rx_queue'[d] = rx_queue[d]
      BY <1>0, <2>1, <2>2, <2>4 DEF Carries, TypeOK
    <3> QED  BY <2>3, <3>1, InboxKept
  <2>5. inbox[f] = rx_queue[c] /\ inbox'[f] = rx_queue'[c]
    BY <2>2, <2>3 DEF InboxInv
  <2> HIDE DEF f
  <2>6. inbox' = [inbox EXCEPT ![f] = Tail(@)]
    BY <1>0, <2>1, <2>2, <2>4, <2>5 DEF InboxInv, TypeOK
  <2>7. Abstract!Take(f)  BY <2>1, <2>5, <2>6 DEF Abstract!Take
  <2> QED  BY <2>2, <2>7 DEF Abstract!Next
<1>8. ASSUME NEW c \in Conns, NEW after \in {"owned", "gone"}, Close(c, after)
      PROVE  [Abstract!Next]_(Abstract!vars)
  <2>1. CASE listener_owner[c] /\ l_deleted  BY <1>1, <1>8, <2>1 DEF Close, Misuse
  <2>2. CASE ~(listener_owner[c] /\ l_deleted)
    <3>1. /\ CloseConns({c}) /\ obj[c] = "owned" /\ obj' = [obj EXCEPT ![c] = after]
          /\ UNCHANGED <<arrived, delivered>>
      BY <1>8, <2>2 DEF Close, Owned
    <3>2. pcb' = [d \in Conns |-> pcb[d] /\ d \notin {c}]  BY <3>1 DEF CloseConns
    <3>3. \A d \in Conns : pcb'[d] <=> pcb[d] /\ d \notin {c}  BY <3>2, Zenon
    <3>4. \A d \in Conns, f \in Flows : Carries(d, f)' <=> Carries(d, f) /\ d \notin {c}
      BY <1>0, <3>1, <3>3 DEF CloseConns, Carries, Live, Flow, TypeOK
    <3>5. \A d \in Conns \ {c} : rx_queue'[d] = rx_queue[d]  BY <3>1 DEF CloseConns
    <3>6. \E F \in SUBSET Flows : Abstract!End(F)  BY <3>1, <3>4, <3>5, EndStep
    <3> QED  BY <3>6 DEF Abstract!Next
  <2> QED  BY <2>1, <2>2
<1>9. ASSUME NEW deleted \in BOOLEAN, ListenerClose(deleted)
      PROVE  [Abstract!Next]_(Abstract!vars)
  <2> DEFINE S == ToSet(pending)
  <2>1. S = {d \in Conns : obj[d] = "pending"}  BY DEF Inv, PendingInv
  <2>2. /\ CloseConns(S) /\ UNCHANGED <<arrived, delivered>>
        /\ obj' = [d \in Conns |-> IF d \in S THEN "gone" ELSE obj[d]]
    BY <1>9 DEF ListenerClose
  <2> HIDE DEF S
  <2>3. pcb' = [d \in Conns |-> pcb[d] /\ d \notin S]  BY <2>2 DEF CloseConns
  <2>4. \A d \in Conns : pcb'[d] <=> pcb[d] /\ d \notin S  BY <2>3, Zenon
  <2>5. \A d \in Conns, f \in Flows : Carries(d, f)' <=> Carries(d, f) /\ d \notin S
    BY <1>0, <2>2, <2>4 DEF CloseConns, Carries, Live, Flow, TypeOK
  <2>6. \A d \in Conns \ S : rx_queue'[d] = rx_queue[d]  BY <2>2 DEF CloseConns
  <2>7. \E F \in SUBSET Flows : Abstract!End(F)  BY <2>1, <2>2, <2>5, <2>6, EndStep
  <2> QED  BY <2>7 DEF Abstract!Next
<1>10. ASSUME NEW c \in Conns, WriteToRemoved(c) PROVE [Abstract!Next]_(Abstract!vars)
  BY <1>1, <1>10 DEF WriteToRemoved, Misuse
<1>11. CASE UNCHANGED vars  BY <1>1, <1>11 DEF vars
<1> QED
  BY <1>2, <1>3, <1>4, <1>5, <1>6, <1>7, <1>8, <1>9, <1>10, <1>11 DEF Next, Step

LEMMA AbstractInit ==
  ASSUME Init, InboxInv
  PROVE  Abstract!Init
<1>1. \A f \in Flows, c \in Conns : ~Carries(c, f)  BY DEF Init, Carries, Live
<1>2. inbox = [f \in Flows |-> <<>>]  BY <1>1 DEF InboxInv
<1> QED  BY <1>2 DEF Init, Abstract!Init

\* Listener and connections implement the mailboxes: what arrives for a peer is
\* read in that order through whichever object is open to the peer, and only a
\* close discards any of it.
THEOREM Refinement == Spec => FlowsSpec
<1>1. Init /\ InboxInv => Abstract!Init  BY AbstractInit
<1>2. Inv /\ Inv' /\ InboxInv /\ InboxInv' /\ [Next]_vars
        => [Abstract!Next]_(Abstract!vars)
  BY AbstractStep
<1> QED  BY <1>1, <1>2, InvAlways, InboxIs, PTL DEF Spec, FlowsSpec, Abstract!Spec

----------------------------------------------------------------------------
(* Order, shown of the mailboxes and so of the connections.                *)

\* Datagrams of flow f up to the k-th, each at most once and in order.
Ordered(s, f, k) ==
  /\ s \in Seq(Datagrams)
  /\ \A i \in 1..Len(s) : s[i].flow = f /\ s[i].num <= k
  /\ \A i, j \in 1..Len(s) : i < j => s[i].num < s[j].num

\* Of flow f the k-th datagram has arrived, h was read and q can still be read.
Kept(f, k, h, q) ==
  /\ k \in Nat /\ h \in Seq(Datagrams) /\ q \in Seq(Datagrams)
  /\ Ordered(h \o q, f, k)

OrderInv == \A f \in Flows : Kept(f, arrived[f], delivered[f], inbox[f])

LEMMA OrderedAppend ==
  ASSUME NEW f \in Flows, NEW k \in Nat, NEW s, Ordered(s, f, k)
  PROVE  Ordered(Append(s, Datagram(f, k + 1)), f, k + 1)
<1> DEFINE d == Datagram(f, k + 1)
<1>1. d \in Datagrams /\ d.flow = f /\ d.num = k + 1
  BY DEF Datagram, Datagrams
<1> HIDE DEF d
<1>2. /\ Append(s, d) \in Seq(Datagrams) /\ Len(Append(s, d)) = Len(s) + 1
      /\ Len(s) \in Nat
      /\ \A i \in 1..Len(s) : Append(s, d)[i] = s[i]
      /\ Append(s, d)[Len(s) + 1] = d
  BY <1>1, AppendProperties DEF Ordered
<1>3. \A i \in 1..Len(s) : s[i].num \in Nat /\ s[i].num <= k /\ s[i].flow = f
  <2>1. \A i \in 1..Len(s) : s[i] \in Datagrams  BY DEF Ordered
  <2>2. \A x \in Datagrams : x.num \in Nat  BY DEF Datagrams
  <2> QED  BY <2>1, <2>2 DEF Ordered
<1>4. ASSUME NEW i \in 1..(Len(s) + 1) PROVE i \in 1..Len(s) \/ i = Len(s) + 1
  BY <1>2
<1>5. ASSUME NEW i \in 1..(Len(s) + 1)
      PROVE  Append(s, d)[i].flow = f /\ Append(s, d)[i].num <= k + 1
  BY <1>1, <1>2, <1>3, <1>4
<1>6. ASSUME NEW i \in 1..(Len(s) + 1), NEW j \in 1..(Len(s) + 1), i < j
      PROVE  Append(s, d)[i].num < Append(s, d)[j].num
  <2>1. i \in 1..Len(s)  BY <1>2, <1>6
  <2>2. CASE j \in 1..Len(s)  BY <1>2, <1>6, <2>1, <2>2 DEF Ordered
  <2>3. CASE j = Len(s) + 1  BY <1>1, <1>2, <1>3, <2>1, <2>3
  <2> QED  BY <1>4, <2>2, <2>3
<1> QED  BY <1>2, <1>5, <1>6 DEF Ordered, d

\* The part that was read is ordered by itself.
LEMMA OrderedPrefix ==
  ASSUME NEW f \in Flows, NEW k \in Nat,
         NEW s \in Seq(Datagrams), NEW t \in Seq(Datagrams), Ordered(s \o t, f, k)
  PROVE  Ordered(s, f, k)
<1>1. /\ \A i \in 1..Len(s) : (s \o t)[i] = s[i] /\ i \in 1..Len(s \o t)
  BY ConcatProperties
<1> QED  BY <1>1 DEF Ordered

LEMMA KeptArrive ==
  ASSUME NEW f \in Flows, NEW k, NEW h, NEW q, Kept(f, k, h, q)
  PROVE  Kept(f, k + 1, h, Append(q, Datagram(f, k + 1)))
<1>1. k \in Nat /\ h \in Seq(Datagrams) /\ q \in Seq(Datagrams)  BY DEF Kept
<1>2. Datagram(f, k + 1) \in Datagrams  BY <1>1 DEF Datagram, Datagrams
<1>3. h \o Append(q, Datagram(f, k + 1)) = Append(h \o q, Datagram(f, k + 1))
  BY <1>1, <1>2, GrowEnd
<1>4. Append(q, Datagram(f, k + 1)) \in Seq(Datagrams)
  BY <1>1, <1>2, AppendProperties
<1>5. Ordered(Append(h \o q, Datagram(f, k + 1)), f, k + 1)
  BY <1>1, OrderedAppend DEF Kept
<1>6. k + 1 \in Nat  BY <1>1
<1> QED  BY <1>1, <1>3, <1>4, <1>5, <1>6, Zenon DEF Kept

LEMMA KeptTake ==
  ASSUME NEW f \in Flows, NEW k, NEW h, NEW q, Kept(f, k, h, q), q # <<>>
  PROVE  Kept(f, k, Append(h, Head(q)), Tail(q))
<1>1. k \in Nat /\ h \in Seq(Datagrams) /\ q \in Seq(Datagrams)  BY DEF Kept
<1>2. Head(q) \in Datagrams /\ Tail(q) \in Seq(Datagrams)  BY <1>1, HeadTailProperties
<1>3. Append(h, Head(q)) \in Seq(Datagrams)  BY <1>1, <1>2, AppendProperties
<1>4. Append(h, Head(q)) \o Tail(q) = h \o q  BY <1>1, ShiftFront
<1> QED  BY <1>1, <1>2, <1>3, <1>4 DEF Kept

LEMMA KeptEnd ==
  ASSUME NEW f \in Flows, NEW k, NEW h, NEW q, Kept(f, k, h, q)
  PROVE  Kept(f, k, h, <<>>)
<1>1. k \in Nat /\ h \in Seq(Datagrams) /\ q \in Seq(Datagrams)  BY DEF Kept
<1>2. Ordered(h, f, k)  BY <1>1, OrderedPrefix DEF Kept
<1>3. h \o <<>> = h /\ <<>> \in Seq(Datagrams)  BY <1>1
<1> QED  BY <1>1, <1>2, <1>3 DEF Kept

LEMMA OrderStep ==
  ASSUME TypeOK, OrderInv, [Abstract!Next]_(Abstract!vars)
  PROVE  OrderInv'
<1>0. inbox = [f \in Flows |-> inbox[f]]  BY DEF inbox
<1> SUFFICES ASSUME NEW g \in Flows
             PROVE  Kept(g, arrived'[g], delivered'[g], inbox'[g])
  BY DEF OrderInv
<1>1. ASSUME NEW f \in Flows, Abstract!Arrive(f)
      PROVE  Kept(g, arrived'[g], delivered'[g], inbox'[g])
  <2>1. /\ arrived' = [arrived EXCEPT ![f] = @ + 1]
        /\ inbox' = [inbox EXCEPT ![f] = Append(@, Datagram(f, arrived[f] + 1))]
        /\ delivered' = delivered
    BY <1>1 DEF Abstract!Arrive, Abstract!Datagram, Datagram
  <2>2. CASE g = f
    <3>1. /\ arrived'[f] = arrived[f] + 1
          /\ inbox'[f] = Append(inbox[f], Datagram(f, arrived[f] + 1))
      BY <1>0, <2>1 DEF TypeOK
    <3> QED  BY <2>1, <2>2, <3>1, KeptArrive DEF OrderInv
  <2>3. CASE g # f
    <3>1. arrived'[g] = arrived[g] /\ inbox'[g] = inbox[g]
      BY <1>0, <2>1, <2>3 DEF TypeOK
    <3> QED  BY <2>1, <3>1 DEF OrderInv
  <2> QED  BY <2>2, <2>3
<1>2. ASSUME NEW f \in Flows, Abstract!Take(f)
      PROVE  Kept(g, arrived'[g], delivered'[g], inbox'[g])
  <2>1. /\ inbox[f] # <<>>
        /\ inbox' = [inbox EXCEPT ![f] = Tail(@)]
        /\ delivered' = [delivered EXCEPT ![f] = Append(@, Head(inbox[f]))]
        /\ arrived' = arrived
    BY <1>2 DEF Abstract!Take
  <2>2. CASE g = f
    <3>1. /\ inbox'[f] = Tail(inbox[f])
          /\ delivered'[f] = Append(delivered[f], Head(inbox[f]))
      BY <1>0, <2>1 DEF TypeOK
    <3> QED  BY <2>1, <2>2, <3>1, KeptTake DEF OrderInv
  <2>3. CASE g # f
    <3>1. delivered'[g] = delivered[g] /\ inbox'[g] = inbox[g]
      BY <1>0, <2>1, <2>3 DEF TypeOK
    <3> QED  BY <2>1, <3>1 DEF OrderInv
  <2> QED  BY <2>2, <2>3
<1>3. ASSUME NEW F \in SUBSET Flows, Abstract!End(F)
      PROVE  Kept(g, arrived'[g], delivered'[g], inbox'[g])
  <2>1. /\ inbox'[g] = IF g \in F THEN <<>> ELSE inbox[g]
        /\ UNCHANGED <<arrived, delivered>>
    BY <1>3 DEF Abstract!End
  <2> QED  BY <2>1, KeptEnd DEF OrderInv
<1>4. CASE UNCHANGED Abstract!vars  BY <1>4 DEF Abstract!vars, OrderInv
<1> QED  BY <1>1, <1>2, <1>3, <1>4 DEF Abstract!Next

LEMMA OrderInit ==
  ASSUME TypeOK, Abstract!Init
  PROVE  OrderInv
<1>1. \A f \in Flows : delivered[f] = <<>> /\ inbox[f] = <<>> /\ arrived[f] = 0
  BY DEF Abstract!Init
<1>2. <<>> \o <<>> = <<>> /\ <<>> \in Seq(Datagrams) /\ Len(<<>>) = 0  OBVIOUS
<1>3. \A f \in Flows : Kept(f, 0, <<>>, <<>>)  BY <1>2 DEF Kept, Ordered
<1> QED  BY <1>1, <1>3 DEF OrderInv

\* The application reads the datagrams of a flow in the order of their arrival,
\* none twice and none of another flow, whichever connections it reads them from.
THEOREM OrderCorrect == Spec => []InOrder
<1>1. TypeOK /\ Abstract!Init => OrderInv  BY OrderInit
<1>2. TypeOK /\ OrderInv /\ [Abstract!Next]_(Abstract!vars) => OrderInv'  BY OrderStep
<1>3. ASSUME OrderInv PROVE InOrder
  <2>1. \A f \in Flows : Ordered(delivered[f], f, arrived[f])
    BY <1>3, OrderedPrefix DEF OrderInv, Kept
  <2>2. \A f \in Flows : DOMAIN delivered[f] = 1..Len(delivered[f])
    BY <1>3 DEF OrderInv, Kept
  <2> QED  BY <2>1, <2>2 DEF InOrder, Ordered
<1> QED
  BY <1>1, <1>2, <1>3, Refinement, TypeCorrect, PTL DEF FlowsSpec, Abstract!Spec
=============================================================================
