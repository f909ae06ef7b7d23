------------------------- MODULE TcpListenerProofs -------------------------
(***************************************************************************)
(* The safety of TcpListener and of the connections it accepts, for any    *)
(* number of connections and any bounds.  The invariants of the connection *)
(* objects come from TcpConnectionProofs; what the listener adds is that   *)
(* its queue holds exactly the objects nobody else has seen.               *)
(***************************************************************************)
EXTENDS TcpListener, TcpConnectionProofs, SequenceLemmas

\* The queue names every pending object once.
QueueInv ==
  /\ PendingUnattached
  /\ \A i, j \in 1..Len(pending) : pending[i] = pending[j] => i = j

Inv == TypeOK /\ PointerInv /\ StreamInv /\ QueueInv

----------------------------------------------------------------------------

LEMMA InitInv == Init => Inv
<1> SUFFICES ASSUME Init PROVE Inv  OBVIOUS
<1> USE DEF Init, ConnInit
<1>1. TypeOK
  <2>1. call \in Calls  BY DEF Calls, Idle
  <2>2. /\ rx_buffer \in [Conns -> Seq(Nat)] /\ got \in [Conns -> Seq(Nat)]
        /\ unacked \in [Conns -> 0..SndBuf]
    BY ConstantsAssumption DEF ConstantsAssumption
  <2>3. pending \in Seq(Conns) /\ arrived \in Seq(Conns) /\ handed \in Seq(Conns)
    OBVIOUS
  <2>4. tcp \in [Conns -> TcpStates] /\ outcome \in [Conns -> Outcomes]
    BY DEF TcpStates, Outcomes
  <2> QED  BY <2>1, <2>2, <2>3, <2>4 DEF TypeOK, ConnTypeOK
<1>2. PointerInv  BY DEF PointerInv, ObjectInv, CallInv, Idle
<1>3. StreamInv
  <2>1. Bytes(0, 0) = <<>> \o <<>>  BY BytesEmpty
  <2> QED  BY <2>1 DEF StreamInv, StreamInvOf
<1>4. QueueInv
  <2>1. ToSet(pending) = {}  BY DEF ToSet
  <2> QED  BY <2>1 DEF QueueInv, PendingUnattached
<1> QED  BY <1>1, <1>2, <1>3, <1>4 DEF Inv

\* The steps of a connection change nothing that concerns the queue.
LEMMA ConnQueueStep ==
  ASSUME Inv, NEW c \in Conns, ConnNext(c), UNCHANGED listener
  PROVE  QueueInv'
<1> USE DEF Inv, TypeOK, ConnTypeOK, PointerInv, ObjectInv, QueueInv, PendingUnattached,
            lwip, fields, app, listener
<1>1. ASSUME NEW d \in Conns
      PROVE  /\ obj'[d] = "pending" <=> obj[d] = "pending"
             /\ obj[d] = "pending" => cb'[d] = cb[d] /\ pcb'[d] = pcb[d]
  <2>1. CASE Recv(c) \/ RecvError(c) \/ Drop(c) \/ UnattachedFin(c) \/ Release(c) \/ Acked(c)
    BY <2>1 DEF Recv, RecvError, Drop, UnattachedFin, Release, Acked
  <2>2. CASE Fin(c) \/ Err(c)  BY <2>2 DEF Fin, Err, Attached
  <2>3. CASE CallbackOnDestroyed(c) \/ SetDeadline(c) \/ ReadBegin(c)
    BY <2>3 DEF CallbackOnDestroyed, Misuse, SetDeadline, ReadBegin
  <2>4. CASE Read(c)
    BY <2>4 DEF Read, ReadError, ReadClosed, ReadNothing, ReadData, ReadReturns
  <2>5. CASE Write(c)  BY <2>5 DEF Write, Queue, Misuse
  <2>6. CASE \E after \in {"owned", "gone"} : Close(c, after)
    <3>1. CASE Misuse("close")  BY <3>1 DEF Misuse
    <3>2. CASE /\ \E bad \in SUBSET {c} : CloseConns({c}, bad)
               /\ obj[c] = "owned"
               /\ \E after \in {"owned", "gone"} : obj' = [obj EXCEPT ![c] = after]
      <4>1. CASE d = c  BY <3>2, <4>1
      <4>2. CASE d # c  BY <3>2, <4>2 DEF CloseConns
      <4> QED  BY <4>1, <4>2
    <3> QED  BY <2>6, <3>1, <3>2 DEF Close, Owned
  <2> QED  BY <2>1, <2>2, <2>3, <2>4, <2>5, <2>6 DEF ConnNext
<1>2. pending' = pending  OBVIOUS
<1> QED  BY <1>1, <1>2

\* A new connection joins the end of the queue.
LEMMA AcceptCallbackInv ==
  ASSUME Inv, NEW c \in Conns, AcceptCallback(c)
  PROVE  Inv'
<1> USE DEF Inv, lwip, fields, app
<1>0. TypeOK /\ obj[c] = "none"
  BY DEF AcceptCallback, PointerInv, ObjectInv
<1>1. TypeOK'
  BY AppendProperties, SMTT(20) DEF TypeOK, ConnTypeOK, TcpStates, AcceptCallback
<1>2. PointerInv'
  BY <1>0, SMTT(20) DEF TypeOK, ConnTypeOK, PointerInv, ObjectInv, CallInv, AcceptCallback
<1>3. StreamInv'
  BY <1>0 DEF TypeOK, ConnTypeOK, StreamInv, StreamInvOf, AcceptCallback
<1>4. QueueInv'
  <2>1. c \notin ToSet(pending)  BY <1>0 DEF QueueInv, PendingUnattached
  <2>2. /\ ToSet(pending') = ToSet(pending) \cup {c}
        /\ \A i, j \in 1..Len(pending') : pending'[i] = pending'[j] => i = j
    <3>1. pending \in Seq(Conns) /\ pending' = Append(pending, c)
      BY <1>0 DEF TypeOK, AcceptCallback
    <3>2. \A i, j \in 1..Len(pending) : pending[i] = pending[j] => i = j
      BY DEF QueueInv
    <3> QED  BY ONLY <2>1, <3>1, <3>2, c \in Conns, SetOfAppend
  <2>3. \A d \in Conns : obj'[d] = "pending" <=> d \in ToSet(pending')
    BY <1>0, <2>2 DEF AcceptCallback, TypeOK, ConnTypeOK, QueueInv, PendingUnattached
  <2>4. \A d \in ToSet(pending') : ~cb'[d] /\ pcb'[d]
    BY <1>0, <2>2 DEF AcceptCallback, TypeOK, ConnTypeOK, QueueInv, PendingUnattached,
                      PointerInv, ObjectInv
  <2>5. ToSet(pending') \subseteq Conns
    BY <2>2 DEF QueueInv, PendingUnattached
  <2> QED  BY <2>2, <2>3, <2>4, <2>5 DEF QueueInv, PendingUnattached
<1> QED  BY <1>1, <1>2, <1>3, <1>4

\* The oldest connection is attached and leaves the queue.
LEMMA AcceptConnInv ==
  ASSUME Inv, AcceptConn
  PROVE  Inv'
<1> USE DEF Inv, lwip, fields, app
<1> DEFINE c == Head(pending)
<1>0. /\ c \in Conns /\ pending \in Seq(Conns) /\ pending # <<>>
      /\ c \in ToSet(pending) /\ Tail(pending) \in Seq(Conns)
  <2>1. pending \in Seq(Conns) /\ pending # <<>>  BY DEF TypeOK, AcceptConn
  <2>2. c = pending[1] /\ 1 \in 1..Len(pending)  BY <2>1
  <2> QED  BY <2>1, <2>2, SetOfSeq, HeadTailProperties
<1>a. obj[c] = "pending" /\ tcp[c] = "open" /\ call' = Idle
  BY <1>0 DEF QueueInv, PendingUnattached, AcceptConn, AcceptReturns
<1>b. AttachedTo(c) /\ pending' = Tail(pending) /\ handed' = Append(handed, c)
      /\ UNCHANGED <<misuse, l_closed, l_error, arrived>>
  BY DEF AcceptConn
<1> HIDE DEF c
<1>1. TypeOK'
  <2>1. handed' \in Seq(Conns)  BY <1>0, <1>b, AppendProperties DEF TypeOK
  <2>2. Idle \in Calls  BY DEF Idle, Calls
  <2> QED
    BY <1>0, <1>a, <1>b, <2>1, <2>2 DEF TypeOK, ConnTypeOK, AttachedTo
<1>2. PointerInv'
  <2>1. call'.op # "read"  BY <1>a DEF Idle
  <2> QED
    BY <1>0, <1>a, <1>b, <2>1
    DEF TypeOK, ConnTypeOK, PointerInv, ObjectInv, CallInv, AttachedTo
<1>3. StreamInv'
  BY <1>0, <1>a, <1>b DEF TypeOK, ConnTypeOK, StreamInv, StreamInvOf, AttachedTo
<1>4. QueueInv'
  <2>1. /\ ToSet(pending') = ToSet(pending) \ {c}
        /\ \A i, j \in 1..Len(pending') : pending'[i] = pending'[j] => i = j
    BY <1>0, <1>b, SetOfTail DEF QueueInv, c
  <2>2. \A d \in Conns : d # c => obj'[d] = obj[d] /\ cb'[d] = cb[d] /\ pcb'[d] = pcb[d]
    BY <1>0, <1>b DEF AttachedTo, TypeOK, ConnTypeOK
  <2>3. obj'[c] = "owned"  BY <1>0, <1>b DEF AttachedTo, TypeOK, ConnTypeOK
  <2> QED  BY <1>0, <2>1, <2>2, <2>3 DEF QueueInv, PendingUnattached
<1> QED  BY <1>1, <1>2, <1>3, <1>4

\* Closing the listener closes and deletes exactly the pending connections.
LEMMA ListenerCloseInv ==
  ASSUME Inv, ListenerClose
  PROVE  Inv'
<1> USE DEF Inv, lwip, fields, app
<1> DEFINE P == ToSet(pending)
<1>0. P = {d \in Conns : obj[d] = "pending"} /\ \A d \in P : ~cb[d] /\ pcb[d]
  BY DEF QueueInv, PendingUnattached
<1>a. PICK bad \in SUBSET P : CloseConns(P, bad)  BY DEF ListenerClose
<1>b. /\ obj' = [d \in Conns |-> IF d \in P THEN "gone" ELSE obj[d]]
      /\ pending' = <<>> /\ l_closed' = TRUE /\ call.op # "read"
      /\ UNCHANGED <<call, got, outcome, reported, misuse, l_error, arrived, handed>>
  BY DEF ListenerClose, Idle
<1> HIDE DEF P
<1>1. TypeOK'
  <2>1. pending' \in Seq(Conns)  BY <1>b
  <2>2. tcp' \in [Conns -> TcpStates]
    BY <1>a DEF CloseConns, TypeOK, ConnTypeOK, TcpStates
  <2>3. /\ cb' \in [Conns -> BOOLEAN] /\ pcb' \in [Conns -> BOOLEAN]
        /\ is_closed' \in [Conns -> BOOLEAN]
    BY <1>a DEF CloseConns, TypeOK, ConnTypeOK
  <2>4. obj' \in [Conns -> {"none", "pending", "owned", "gone"}]
    BY <1>b DEF TypeOK, ConnTypeOK
  <2> QED  BY <1>a, <1>b, <2>1, <2>2, <2>3, <2>4 DEF CloseConns, TypeOK, ConnTypeOK
<1>2. PointerInv'
  <2>1. ASSUME NEW d \in Conns PROVE ObjectInv(d)'
    <3>1. CASE d \in P
      BY <1>0, <1>a, <1>b, <3>1 DEF CloseConns, TypeOK, ConnTypeOK, PointerInv, ObjectInv
    <3>2. CASE d \notin P
      BY <1>0, <1>a, <1>b, <3>2 DEF CloseConns, TypeOK, ConnTypeOK, PointerInv, ObjectInv
    <3> QED  BY <3>1, <3>2
  <2> QED  BY <1>b, <2>1 DEF PointerInv, CallInv
<1>3. StreamInv'
  BY <1>0, <1>a, <1>b, StreamStutter DEF CloseConns, TypeOK, ConnTypeOK, StreamInv
<1>4. QueueInv'
  <2>1. ToSet(pending') = {} /\ Len(pending') = 0  BY <1>b DEF ToSet
  <2>2. \A d \in Conns : obj'[d] # "pending"  BY <1>0, <1>b
  <2> QED  BY <2>1, <2>2 DEF QueueInv, PendingUnattached
<1> QED  BY <1>1, <1>2, <1>3, <1>4

\* Inv is inductive.
LEMMA StepInv == Inv /\ [Next]_vars => Inv'
<1> SUFFICES ASSUME Inv, [Next]_vars PROVE Inv'  OBVIOUS
<1>1. CASE UNCHANGED vars
  BY <1>1
  DEF vars, connVars, listener, lwip, fields, app, Inv, TypeOK, ConnTypeOK, PointerInv,
      ObjectInv, CallInv, StreamInv, StreamInvOf, QueueInv, PendingUnattached
<1>2. ASSUME NEW c \in Conns, ConnNext(c), UNCHANGED listener PROVE Inv'
  <2>1. ConnTypeOK'  BY <1>2, ConnTypeStep DEF Inv, TypeOK
  <2>2. PointerInv'  BY <1>2, ConnPointerStep DEF Inv, TypeOK
  <2>3. StreamInv'  BY <1>2, ConnStreamStep DEF Inv, TypeOK
  <2>4. QueueInv'  BY <1>2, ConnQueueStep
  <2> QED  BY <1>2, <2>1, <2>2, <2>3, <2>4 DEF Inv, TypeOK, listener
<1>3. CASE /\ \/ AppPoll /\ UNCHANGED listener
              \/ PollEnd /\ UNCHANGED listener
              \/ AcceptBegin \/ AcceptNone \/ AcceptError
  <2>1. /\ UNCHANGED <<lwip, fields, got, outcome, reported, misuse, listener>>
        /\ call' \in Calls /\ call'.op # "read"
    <3>1. CASE AppPoll /\ UNCHANGED listener  BY <3>1 DEF AppPoll, Idle, Calls
    <3>2. CASE PollEnd /\ UNCHANGED listener  BY <3>2 DEF PollEnd, Idle, Calls
    <3>3. CASE AcceptBegin
      <4> PICK w \in Waits : call' = [op |-> "accept", conn |-> NoConn, wait |-> w]
        BY <3>3 DEF AcceptBegin
      <4>1. w \in BOOLEAN  BY ConstantsAssumption DEF ConstantsAssumption
      <4>2. call' \in Calls /\ call'.op # "read"  BY <4>1 DEF Calls
      <4> QED  BY <3>3, <4>2 DEF AcceptBegin
    <3>4. CASE AcceptNone \/ AcceptError
      <4>1. call' = Idle  BY <3>4 DEF AcceptNone, AcceptError, AcceptReturns
      <4>2. call' \in Calls /\ call'.op # "read"  BY <4>1 DEF Idle, Calls
      <4> QED  BY <3>4, <4>2 DEF AcceptNone, AcceptError
    <3> QED  BY <1>3, <3>1, <3>2, <3>3, <3>4
  <2> QED
    BY <2>1
    DEF listener, lwip, fields, Inv, TypeOK, ConnTypeOK, PointerInv, ObjectInv, CallInv,
        StreamInv, StreamInvOf, QueueInv, PendingUnattached
<1>4. CASE AcceptDeadConn \/ ListenerCloseDeadConn
  <2>1. /\ UNCHANGED <<lwip, fields, app, listener>> /\ misuse' \in {"attach", "pending"}
    BY <1>4 DEF AcceptDeadConn, ListenerCloseDeadConn, Misuse
  <2> QED
    BY <2>1
    DEF listener, lwip, fields, app, Inv, TypeOK, ConnTypeOK, PointerInv, ObjectInv,
        CallInv, StreamInv, StreamInvOf, QueueInv, PendingUnattached
<1>5. CASE AcceptFail
  BY <1>5
  DEF AcceptFail, connVars, lwip, fields, app, Inv, TypeOK, ConnTypeOK, PointerInv,
      ObjectInv, CallInv, StreamInv, StreamInvOf, QueueInv, PendingUnattached
<1> QED
  BY <1>1, <1>2, <1>3, <1>4, <1>5, AcceptCallbackInv, AcceptConnInv, ListenerCloseInv
  DEF Next, Step

LEMMA InvAlways == Spec => []Inv
  BY InitInv, StepInv, PTL DEF Spec

\* Every variable keeps its type, whatever the peers and the application do.
THEOREM TypeCorrect == Spec => []TypeOK
<1>1. Inv => TypeOK  BY DEF Inv
<1> QED  BY <1>1, InvAlways, PTL

\* The application never writes to or closes a pcb that lwIP has taken back:
\* a connection it holds has a pcb only while that pcb is open and reports to it.
\* (A connection handed out dead is the finding AcceptedIsAlive; Spec ends there.)
THEOREM PointersValid == Spec => [](PcbPointerValid /\ NoPcbMeansClosed)
<1>1. Inv => PcbPointerValid /\ NoPcbMeansClosed
  BY DEF Inv, PointerInv, ObjectInv, CallInv, StreamInv, StreamInvOf, PcbPointerValid,
         NoPcbMeansClosed
<1> QED  BY <1>1, InvAlways, PTL

\* The queue of the listener holds exactly the objects nobody else has seen.
THEOREM QueueCorrect == Spec => []PendingUnattached
<1>1. Inv => PendingUnattached  BY DEF Inv, QueueInv
<1> QED  BY <1>1, InvAlways, PTL

\* The application reads the peer's bytes from the moment of the hand-over on,
\* in order and without a gap.
THEOREM StreamCorrect == Spec => []StreamIntact
<1>1. Inv => StreamIntact  BY StreamInvImplies DEF Inv, TypeOK
<1> QED  BY <1>1, InvAlways, PTL

\* The end of the stream is reported behind the last byte, and only if the peer has
\* ended it.
THEOREM EndCorrect == Spec => []EofAfterData
<1>1. Inv => EofAfterData  BY StreamInvImplies DEF Inv, TypeOK
<1> QED  BY <1>1, InvAlways, PTL

\* After a read has reported an error or the end of the stream, no read of that
\* connection returns data again.
THEOREM FinalErrors == Spec => ErrorIsFinal
<1>1. Inv /\ [Next]_vars => [ErrorIsFinalStep]_vars
  <2> SUFFICES ASSUME Inv, Next PROVE ErrorIsFinalStep \/ UNCHANGED vars
    OBVIOUS
  <2>1. ASSUME NEW c \in Conns, ConnNext(c) PROVE ErrorIsFinalStep
    BY <2>1, ConnFinalStep DEF Inv, TypeOK
  <2>2. CASE \E c \in Conns : AcceptCallback(c)
    BY <2>2 DEF AcceptCallback, ErrorIsFinalStep, app
  <2>3. CASE AppPoll \/ PollEnd \/ AcceptFail \/ AcceptBegin \/ AcceptNone \/ AcceptError
    BY <2>3
    DEF AppPoll, PollEnd, AcceptFail, AcceptBegin, AcceptNone, AcceptError,
        ErrorIsFinalStep, connVars, app
  <2>4. CASE AcceptConn  BY <2>4 DEF AcceptConn, AttachedTo, ErrorIsFinalStep
  <2>5. CASE AcceptDeadConn \/ ListenerCloseDeadConn \/ ListenerClose
    BY <2>5
    DEF AcceptDeadConn, ListenerCloseDeadConn, ListenerClose, Misuse, ErrorIsFinalStep, app
  <2> QED  BY <2>1, <2>2, <2>3, <2>4, <2>5 DEF Next, Step
<1> QED  BY <1>1, InvAlways, PTL DEF Spec, ErrorIsFinal

\* As long as tcp_close does not fail, every open pcb is held by the queue or by
\* the application: none is leaked, whatever is closed or deleted when.
THEOREM OpenPcbsOwned == "tcp_close" \notin Failing => (Spec => []OpenHasOwner)
<1> SUFFICES ASSUME "tcp_close" \notin Failing PROVE Spec => []OpenHasOwner
  OBVIOUS
<1>1. Init => OpenHasOwner  BY DEF Init, ConnInit, OpenHasOwner
<1>2. Inv /\ OpenHasOwner /\ [Next]_vars => OpenHasOwner'
  <2> SUFFICES ASSUME Inv, OpenHasOwner, [Next]_vars PROVE OpenHasOwner'  OBVIOUS
  <2> USE DEF lwip, fields, app
  <2>1. CASE UNCHANGED vars  BY <2>1 DEF vars, connVars, OpenHasOwner
  <2>2. ASSUME NEW c \in Conns, ConnNext(c) PROVE OpenHasOwner'
    BY <2>2, ConnOwnerStep DEF Inv, TypeOK
  <2>3. ASSUME NEW c \in Conns, AcceptCallback(c) PROVE OpenHasOwner'
    BY <2>3 DEF AcceptCallback, OpenHasOwner, Inv, TypeOK, ConnTypeOK
  <2>4. CASE AppPoll \/ PollEnd \/ AcceptFail \/ AcceptBegin \/ AcceptNone \/ AcceptError
    BY <2>4
    DEF AppPoll, PollEnd, AcceptFail, AcceptBegin, AcceptNone, AcceptError,
        AcceptReturns, OpenHasOwner, connVars, Idle
  <2>5. CASE AcceptConn
    BY <2>5
    DEF AcceptConn, AcceptReturns, AttachedTo, OpenHasOwner, Inv, TypeOK, ConnTypeOK
  <2>6. CASE AcceptDeadConn \/ ListenerCloseDeadConn
    BY <2>6 DEF AcceptDeadConn, ListenerCloseDeadConn, Misuse, OpenHasOwner
  <2>7. CASE ListenerClose
    <3> PICK bad \in SUBSET ToSet(pending) : CloseConns(ToSet(pending), bad)
      BY <2>7 DEF ListenerClose
    <3>1. bad = {}  BY DEF CloseConns
    <3>2. \A d \in ToSet(pending) : pcb[d]  BY DEF Inv, QueueInv, PendingUnattached
    <3>3. /\ obj' = [d \in Conns |-> IF d \in ToSet(pending) THEN "gone" ELSE obj[d]]
          /\ call' = call
      BY <2>7 DEF ListenerClose
    <3>4. ASSUME NEW d \in Conns, tcp'[d] = "open"
          PROVE  /\ d \notin ToSet(pending) /\ tcp[d] = "open"
                 /\ obj'[d] = obj[d] /\ pcb'[d] = pcb[d]
      BY <3>1, <3>2, <3>3, <3>4 DEF CloseConns, Inv, TypeOK, ConnTypeOK
    <3> QED  BY <3>3, <3>4 DEF OpenHasOwner
  <2> QED  BY <2>1, <2>2, <2>3, <2>4, <2>5, <2>6, <2>7 DEF Next, Step
<1> QED  BY <1>1, <1>2, InvAlways, PTL DEF Spec

----------------------------------------------------------------------------
(* First come, first served.                                               *)

FifoInv ==
  /\ ~l_closed => handed \o pending = arrived
  /\ l_closed => pending = <<>> /\ IsPrefix(handed, arrived)
  /\ \A i, j \in 1..Len(arrived) : arrived[i] = arrived[j] => i = j
  /\ \A i \in 1..Len(arrived) : tcp[arrived[i]] # "none"

LEMMA FifoInvImplies ==
  ASSUME TypeOK, FifoInv
  PROVE  HandoverFifo
<1>1. /\ arrived \in Seq(Conns) /\ handed \in Seq(Conns) /\ pending \in Seq(Conns)
  BY DEF TypeOK
<1>2. IsInjective(arrived)  BY <1>1 DEF FifoInv, IsInjective
<1>3. CASE ~l_closed  BY <1>1, <1>2, <1>3 DEF FifoInv, HandoverFifo, IsPrefix
<1>4. CASE l_closed
  <2>1. handed \o pending = handed  BY <1>1, <1>4, ConcatEmptySeq DEF FifoInv
  <2> QED  BY <1>2, <1>4, <2>1 DEF FifoInv, HandoverFifo
<1> QED  BY <1>3, <1>4

LEMMA ConnNeverUnborn ==
  ASSUME ConnTypeOK, NEW c \in Conns, ConnNext(c)
  PROVE  \A d \in Conns : tcp[d] # "none" => tcp'[d] # "none"
<1> USE DEF ConnTypeOK, lwip, fields, app
<1>1. CASE Recv(c) \/ RecvError(c) \/ Drop(c) \/ Acked(c) \/ SetDeadline(c)
  BY <1>1 DEF Recv, RecvError, Drop, Acked, SetDeadline
<1>2. CASE Fin(c) \/ Err(c) \/ UnattachedFin(c) \/ Release(c)
  BY <1>2 DEF Fin, Err, UnattachedFin, Release
<1>3. CASE CallbackOnDestroyed(c) \/ ReadBegin(c) \/ Read(c) \/ Write(c)
  BY <1>3
  DEF CallbackOnDestroyed, ReadBegin, Read, ReadError, ReadClosed, ReadNothing,
      ReadData, ReadReturns, Write, Queue, Misuse
<1>4. CASE \E after \in {"owned", "gone"} : Close(c, after)
  BY <1>4 DEF Close, CloseConns, Misuse
<1> QED  BY <1>1, <1>2, <1>3, <1>4 DEF ConnNext

LEMMA StepFifo == Inv /\ FifoInv /\ [Next]_vars => FifoInv'
<1> SUFFICES ASSUME Inv, FifoInv, [Next]_vars PROVE FifoInv'  OBVIOUS
<1> USE DEF lwip, fields, app
<1>0. /\ pending \in Seq(Conns) /\ arrived \in Seq(Conns) /\ handed \in Seq(Conns)
      /\ ConnTypeOK
  BY DEF Inv, TypeOK
<1>a. \A i \in 1..Len(arrived) : arrived[i] \in Conns  BY <1>0
<1>1. CASE UNCHANGED vars
  BY <1>1 DEF vars, connVars, listener, FifoInv
<1>2. ASSUME NEW c \in Conns, ConnNext(c), UNCHANGED listener PROVE FifoInv'
  BY <1>0, <1>a, <1>2, ConnNeverUnborn DEF FifoInv, listener
<1>3. ASSUME NEW c \in Conns, AcceptCallback(c) PROVE FifoInv'
  <2>1. /\ pending' = Append(pending, c) /\ arrived' = Append(arrived, c)
        /\ handed' = handed /\ ~l_closed /\ l_closed' = l_closed /\ tcp[c] = "none"
        /\ tcp' = [tcp EXCEPT ![c] = "open"]
    BY <1>3 DEF AcceptCallback
  <2>2. handed' \o pending' = arrived'  BY <1>0, <2>1, GrowEnd DEF FifoInv
  <2>3. c \notin ToSet(arrived)  BY <1>0, <2>1, SetOfSeq DEF FifoInv
  <2>4. \A i, j \in 1..Len(arrived') : arrived'[i] = arrived'[j] => i = j
    <3>1. \A i, j \in 1..Len(arrived) : arrived[i] = arrived[j] => i = j
      BY DEF FifoInv
    <3>2. arrived \in Seq(Conns) /\ arrived' = Append(arrived, c)  BY <1>0, <2>1
    <3> QED  BY ONLY <2>3, <3>1, <3>2, c \in Conns, SetOfAppend
  <2>5. \A i \in 1..Len(arrived') : tcp'[arrived'[i]] # "none"
    BY <1>0, <1>a, <2>1, SMTT(20) DEF FifoInv, ConnTypeOK
  <2> QED  BY <2>1, <2>2, <2>4, <2>5 DEF FifoInv
<1>4. CASE AcceptConn
  <2>1. /\ handed' = Append(handed, Head(pending)) /\ pending' = Tail(pending)
        /\ pending # <<>> /\ UNCHANGED <<l_closed, arrived, tcp>>
    BY <1>4 DEF AcceptConn, AttachedTo
  <2>2. handed' \o pending' = handed \o pending
    BY <1>0, <2>1, ShiftFront
  <2> QED  BY <2>1, <2>2 DEF FifoInv
<1>5. CASE \/ (AppPoll \/ PollEnd) /\ UNCHANGED listener
           \/ AcceptFail \/ AcceptBegin \/ AcceptDeadConn \/ AcceptNone \/ AcceptError
           \/ ListenerCloseDeadConn
  <2>1. UNCHANGED <<tcp, l_closed, pending, arrived, handed>>
    BY <1>5
    DEF AppPoll, PollEnd, AcceptFail, AcceptBegin, AcceptDeadConn, AcceptNone,
        AcceptError, ListenerCloseDeadConn, Misuse, listener, connVars
  <2> QED  BY <2>1 DEF FifoInv
<1>6. CASE ListenerClose
  <2>1. /\ pending' = <<>> /\ l_closed' = TRUE /\ ~l_closed
        /\ UNCHANGED <<arrived, handed>>
    BY <1>6 DEF ListenerClose
  <2>2. \A d \in Conns : tcp[d] # "none" => tcp'[d] # "none"
    BY <1>0, <1>6 DEF ListenerClose, CloseConns, ConnTypeOK
  <2>3. arrived = handed \o pending  BY <2>1 DEF FifoInv
  <2>4. IsPrefix(handed, arrived)  BY <1>0, <2>3 DEF IsPrefix
  <2> QED  BY <1>a, <2>1, <2>2, <2>4 DEF FifoInv
<1> QED  BY <1>1, <1>2, <1>3, <1>4, <1>5, <1>6 DEF Next, Step

\* Connections reach the application in the order of their arrival, each exactly
\* once, and none disappears from between while the listener is open.
THEOREM FirstComeFirstServed == Spec => []HandoverFifo
<1>1. Init => FifoInv
  BY DEF Init, FifoInv
<1>2. TypeOK /\ FifoInv => HandoverFifo  BY FifoInvImplies
<1>3. Inv => TypeOK  BY DEF Inv
<1> QED  BY <1>1, <1>2, <1>3, StepFifo, InvAlways, PTL DEF Spec
============================================================================
