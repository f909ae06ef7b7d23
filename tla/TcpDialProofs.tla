--------------------------- MODULE TcpDialProofs ---------------------------
(***************************************************************************)
(* The safety of Network::dial_tcp and of the connections it makes, for    *)
(* any number of dials and any bounds.                                     *)
(***************************************************************************)
EXTENDS TcpDial, TcpConnectionProofs

\* The pcb of a dial in progress belongs to no object yet.
DialInv == call.op = "dial" => call.conn \in Conns /\ obj[call.conn] = "none"
                                 /\ tcp[call.conn] # "none"

Inv == TypeOK /\ PointerInv /\ StreamInv /\ DialInv

LEMMA InitInv == Init => Inv
<1> SUFFICES ASSUME Init PROVE Inv  OBVIOUS
<1> USE DEF Init, ConnInit
<1>1. TypeOK
  <2>1. call \in Calls  BY DEF Calls, Idle
  <2>2. /\ rx_buffer \in [Conns -> Seq(Nat)] /\ got \in [Conns -> Seq(Nat)]
        /\ unacked \in [Conns -> 0..SndBuf]
    BY ConstantsAssumption DEF ConstantsAssumption
  <2>3. tcp \in [Conns -> TcpStates] /\ outcome \in [Conns -> Outcomes]
    BY DEF TcpStates, Outcomes
  <2> QED  BY <2>1, <2>2, <2>3 DEF TypeOK, ConnTypeOK
<1>2. PointerInv  BY DEF PointerInv, ObjectInv, CallInv, Idle
<1>3. StreamInv
  <2>1. Bytes(0, 0) = <<>> \o <<>>  BY BytesEmpty
  <2> QED  BY <2>1 DEF StreamInv, StreamInvOf
<1>4. DialInv  BY DEF DialInv, Idle
<1> QED  BY <1>1, <1>2, <1>3, <1>4 DEF Inv

\* The steps of a connection leave the dial alone.
LEMMA ConnDialStep ==
  ASSUME Inv, NEW c \in Conns, ConnNext(c)
  PROVE  DialInv'
<1> USE DEF Inv, TypeOK, ConnTypeOK, DialInv, lwip, fields, app, TcpStates
<1>1. CASE Recv(c) \/ RecvError(c) \/ Drop(c) \/ Acked(c) \/ SetDeadline(c)
  BY <1>1 DEF Recv, RecvError, Drop, Acked, SetDeadline
<1>2. CASE Fin(c) \/ Err(c)  BY <1>2, SMTT(20) DEF Fin, Err
<1>3. CASE UnattachedFin(c) \/ Release(c)  BY <1>3, SMTT(20) DEF UnattachedFin, Release
<1>4. CASE CallbackOnDestroyed(c)  BY <1>4 DEF CallbackOnDestroyed, Misuse
<1>5. CASE ReadBegin(c)  BY <1>5 DEF ReadBegin, Owned, Idle
<1>6. CASE Read(c)
  <2>1. call' = Idle
    BY <1>6 DEF Read, ReadError, ReadClosed, ReadNothing, ReadData, ReadReturns
  <2> QED  BY <2>1 DEF Idle
<1>7. CASE Write(c)  BY <1>7 DEF Write, Queue, Misuse
<1>8. CASE \E after \in {"owned", "gone"} : Close(c, after)
  <2>1. call' = call /\ call.op # "dial"  BY <1>8 DEF Close, Owned, Misuse, Idle
  <2> QED  BY <2>1
<1> QED
  BY <1>1, <1>2, <1>3, <1>4, <1>5, <1>6, <1>7, <1>8 DEF ConnNext

LEMMA StepInv == Inv /\ [Next]_vars => Inv'
<1> SUFFICES ASSUME Inv, [Next]_vars PROVE Inv'  OBVIOUS
<1> USE DEF lwip, fields, app
<1>1. CASE UNCHANGED vars
  BY <1>1
  DEF vars, connVars, Inv, TypeOK, ConnTypeOK, PointerInv, ObjectInv, CallInv,
      StreamInv, StreamInvOf, DialInv
<1>2. ASSUME NEW c \in Conns, ConnNext(c), UNCHANGED done PROVE Inv'
  <2>1. ConnTypeOK'  BY <1>2, ConnTypeStep DEF Inv, TypeOK
  <2>2. PointerInv'  BY <1>2, ConnPointerStep DEF Inv, TypeOK
  <2>3. StreamInv'  BY <1>2, ConnStreamStep DEF Inv, TypeOK
  <2>4. DialInv'  BY <1>2, ConnDialStep
  <2> QED  BY <1>2, <2>1, <2>2, <2>3, <2>4 DEF Inv, TypeOK
<1>3. CASE (AppPoll \/ PollEnd) /\ UNCHANGED done
  <2>1. /\ UNCHANGED <<lwip, fields, got, outcome, reported, misuse, done>>
        /\ call' \in Calls /\ call'.op \notin {"read", "dial"}
    <3>1. CASE AppPoll  BY <1>3, <3>1 DEF AppPoll, Idle, Calls
    <3>2. CASE PollEnd  BY <1>3, <3>2 DEF PollEnd, Idle, Calls
    <3> QED  BY <1>3, <3>1, <3>2
  <2> QED
    BY <2>1
    DEF Inv, TypeOK, ConnTypeOK, PointerInv, ObjectInv, CallInv, StreamInv,
        StreamInvOf, DialInv
<1>4. ASSUME NEW c \in Conns, DialBegin(c) PROVE Inv'
  <2>0. obj[c] = "none"  BY <1>4 DEF DialBegin, Inv, PointerInv, ObjectInv
  <2>1. TypeOK'
    <3>1. call' \in Calls /\ done' \in BOOLEAN  BY <1>4 DEF DialBegin, Calls
    <3>2. tcp' \in [Conns -> TcpStates]
      BY <1>4 DEF DialBegin, Inv, TypeOK, ConnTypeOK, TcpStates
    <3> QED  BY <1>4, <3>1, <3>2 DEF DialBegin, Inv, TypeOK, ConnTypeOK
  <2>2. PointerInv'
    BY <1>4, <2>0
    DEF DialBegin, Inv, TypeOK, ConnTypeOK, PointerInv, ObjectInv, CallInv
  <2>3. StreamInv'  BY <1>4 DEF DialBegin, Inv, StreamInv, StreamInvOf
  <2>4. DialInv'  BY <1>4, <2>0 DEF DialBegin, Inv, TypeOK, ConnTypeOK, DialInv
  <2> QED  BY <2>1, <2>2, <2>3, <2>4 DEF Inv
<1>5. ASSUME NEW c \in Conns, DialRefused(c) \/ Connected(c) PROVE Inv'
  <2>0. obj[c] = "none"
    BY <1>5 DEF DialRefused, Connected, Dialing, Inv, PointerInv, ObjectInv, DialInv
  <2>1. \E to \in {"freed", "open"} : tcp' = [tcp EXCEPT ![c] = to]
    BY <1>5 DEF DialRefused, Connected
  <2>2. /\ UNCHANGED <<cb, fin, sent, lost, queued, unacked, fields, app, misuse>>
        /\ done' = done \/ done' = TRUE
    BY <1>5 DEF DialRefused, Connected
  <2>3. TypeOK'
    BY <2>1, <2>2 DEF Inv, TypeOK, ConnTypeOK, TcpStates
  <2>4. PointerInv'
    BY <2>0, <2>1, <2>2 DEF Inv, TypeOK, ConnTypeOK, PointerInv, ObjectInv, CallInv
  <2>5. StreamInv'  BY <2>2 DEF Inv, StreamInv, StreamInvOf
  <2>6. DialInv'  BY <2>1, <2>2 DEF Inv, TypeOK, ConnTypeOK, DialInv
  <2> QED  BY <2>3, <2>4, <2>5, <2>6 DEF Inv
<1>6. ASSUME NEW c \in Conns, DialDone(c) PROVE Inv'
  <2>0. obj[c] = "none" /\ tcp[c] = "open"
    BY <1>6 DEF DialDone, Dialing, Inv, DialInv
  <2>1. AttachedTo(c) /\ call' = Idle /\ UNCHANGED <<misuse, done>>
    BY <1>6 DEF DialDone
  <2>2. Idle \in Calls  BY DEF Idle, Calls
  <2>3. TypeOK'  BY <2>1, <2>2 DEF AttachedTo, Inv, TypeOK, ConnTypeOK
  <2>4. call'.op \notin {"read", "dial"}  BY <2>1 DEF Idle
  <2>5. PointerInv'
    BY <2>0, <2>1, <2>4
    DEF AttachedTo, Inv, TypeOK, ConnTypeOK, PointerInv, ObjectInv, CallInv
  <2>6. StreamInv'
    BY <2>0, <2>1 DEF AttachedTo, Inv, TypeOK, ConnTypeOK, StreamInv, StreamInvOf
  <2>7. DialInv'  BY <2>4 DEF DialInv
  <2> QED  BY <2>3, <2>5, <2>6, <2>7 DEF Inv
<1>7. ASSUME NEW c \in Conns, DialTimeout(c) PROVE Inv'
  <2>0. obj[c] = "none"  BY <1>7 DEF DialTimeout, Dialing, Inv, DialInv
  <2>1. \E to \in {"freed", "closing"} : tcp' = [tcp EXCEPT ![c] = to]
    BY <1>7 DEF DialTimeout
  <2>2. /\ UNCHANGED <<cb, fin, sent, lost, queued, unacked, fields, got, outcome,
                        reported, misuse, done>>
        /\ call' = Idle
    BY <1>7 DEF DialTimeout
  <2>3. Idle \in Calls  BY DEF Idle, Calls
  <2>4. TypeOK'
    BY <2>1, <2>2, <2>3 DEF Inv, TypeOK, ConnTypeOK, TcpStates
  <2>5. call'.op \notin {"read", "dial"}  BY <2>2 DEF Idle
  <2>6. PointerInv'
    BY <2>0, <2>1, <2>2, <2>5
    DEF Inv, TypeOK, ConnTypeOK, PointerInv, ObjectInv, CallInv
  <2>7. StreamInv'  BY <2>2 DEF Inv, StreamInv, StreamInvOf
  <2>8. DialInv'  BY <2>5 DEF DialInv
  <2> QED  BY <2>4, <2>6, <2>7, <2>8 DEF Inv
<1>8. ASSUME NEW c \in Conns, DialDoneDeadPcb(c) \/ DialTimeoutDeadPcb(c) PROVE Inv'
  <2>1. /\ UNCHANGED <<lwip, fields, app, done>> /\ misuse' \in {"attach", "cleanup"}
    BY <1>8 DEF DialDoneDeadPcb, DialTimeoutDeadPcb, Misuse
  <2> QED
    BY <2>1
    DEF Inv, TypeOK, ConnTypeOK, PointerInv, ObjectInv, CallInv, StreamInv,
        StreamInvOf, DialInv
<1> QED
  BY <1>1, <1>2, <1>3, <1>4, <1>5, <1>6, <1>7, <1>8 DEF Next, Step

LEMMA InvAlways == Spec => []Inv
  BY InitInv, StepInv, PTL DEF Spec

\* Every variable keeps its type, whatever the peers and the application do.
THEOREM TypeCorrect == Spec => []TypeOK
<1>1. Inv => TypeOK  BY DEF Inv
<1> QED  BY <1>1, InvAlways, PTL

\* The application never writes to or closes a dialled connection's pcb after
\* lwIP has taken it back.  (A dial that ends at a freed pcb is the finding
\* DialFailureIsError; Spec ends there.)
THEOREM PointersValid == Spec => [](PcbPointerValid /\ NoPcbMeansClosed)
<1>1. Inv => PcbPointerValid /\ NoPcbMeansClosed
  BY DEF Inv, PointerInv, ObjectInv, CallInv, StreamInv, StreamInvOf, PcbPointerValid,
         NoPcbMeansClosed
<1> QED  BY <1>1, InvAlways, PTL

\* What is read from a dialled connection is the peer's stream from the moment
\* dial_tcp attached the callbacks on, all of it before the end is reported.
THEOREM StreamCorrect == Spec => [](StreamIntact /\ EofAfterData)
<1>1. Inv => StreamIntact /\ EofAfterData  BY StreamInvImplies DEF Inv, TypeOK
<1> QED  BY <1>1, InvAlways, PTL

\* As long as tcp_close does not fail, every open pcb is held by the dial in
\* progress or by the application: a dial that times out, even in the round in
\* which the connection was made, leaves none behind.
THEOREM OpenPcbsOwned == "tcp_close" \notin Failing => (Spec => []OpenHasOwner)
<1> SUFFICES ASSUME "tcp_close" \notin Failing PROVE Spec => []OpenHasOwner
  OBVIOUS
<1>1. Init => OpenHasOwner  BY DEF Init, ConnInit, OpenHasOwner
<1>2. Inv /\ OpenHasOwner /\ [Next]_vars => OpenHasOwner'
  <2> SUFFICES ASSUME Inv, OpenHasOwner, [Next]_vars PROVE OpenHasOwner'  OBVIOUS
  <2> USE DEF lwip, fields, app
  <2>1. CASE UNCHANGED vars  BY <2>1 DEF vars, connVars, OpenHasOwner
  <2>2. ASSUME NEW c \in Conns, ConnNext(c) PROVE OpenHasOwner'
    BY <2>2, ConnOwnerStep DEF Inv, TypeOK
  <2>3. CASE AppPoll \/ PollEnd  BY <2>3 DEF AppPoll, PollEnd, OpenHasOwner, Idle
  <2>4. ASSUME NEW c \in Conns, DialBegin(c) \/ DialRefused(c) \/ Connected(c)
        PROVE  OpenHasOwner'
    BY <2>4
    DEF DialBegin, DialRefused, Connected, Dialing, OpenHasOwner, Idle, Inv, TypeOK,
        ConnTypeOK
  <2>5. ASSUME NEW c \in Conns, DialDone(c) \/ DialTimeout(c) PROVE OpenHasOwner'
    <3>1. CASE DialDone(c)
      <4>1. /\ tcp' = tcp /\ obj'[c] = "owned" /\ pcb'[c]
            /\ \A d \in Conns \ {c} : obj'[d] = obj[d] /\ pcb'[d] = pcb[d]
        BY <3>1 DEF DialDone, AttachedTo, Inv, TypeOK, ConnTypeOK
      <4>2. call.op = "dial" /\ call.conn = c  BY <3>1 DEF DialDone, Dialing
      <4> QED  BY <4>1, <4>2 DEF OpenHasOwner
    <3>2. CASE DialTimeout(c)
      <4>1. /\ tcp'[c] # "open" /\ UNCHANGED <<obj, pcb>>
            /\ \A d \in Conns \ {c} : tcp'[d] = tcp[d]
        BY <3>2 DEF DialTimeout, Inv, TypeOK, ConnTypeOK
      <4>2. call.op = "dial" /\ call.conn = c  BY <3>2 DEF DialTimeout, Dialing
      <4> QED  BY <4>1, <4>2 DEF OpenHasOwner
    <3> QED  BY <2>5, <3>1, <3>2
  <2>6. ASSUME NEW c \in Conns, DialDoneDeadPcb(c) \/ DialTimeoutDeadPcb(c)
        PROVE  OpenHasOwner'
    BY <2>6 DEF DialDoneDeadPcb, DialTimeoutDeadPcb, Misuse, OpenHasOwner
  <2> QED  BY <2>1, <2>2, <2>3, <2>4, <2>5, <2>6 DEF Next, Step
<1> QED  BY <1>1, <1>2, InvAlways, PTL DEF Spec

\* write never claims more than lwIP has queued, whichever of its calls fails.
THEOREM WritesCounted == Spec => []WriteCount
<1>1. Init => WriteCount  BY DEF Init, ConnInit, WriteCount
<1>2. Inv /\ WriteCount /\ [Next]_vars => WriteCount'
  <2> SUFFICES ASSUME Inv, WriteCount, [Next]_vars PROVE WriteCount'  OBVIOUS
  <2>1. CASE UNCHANGED <<queued, reported>>  BY <2>1 DEF WriteCount
  <2>2. ASSUME NEW c \in Conns, ConnNext(c) PROVE WriteCount'
    BY <2>2, ConnWriteStep DEF Inv, TypeOK
  <2> QED
    BY <2>1, <2>2
    DEF Next, Step, vars, connVars, lwip, app, AppPoll, PollEnd, DialBegin, DialRefused,
        Connected, DialDone, AttachedTo, DialDoneDeadPcb, DialTimeout,
        DialTimeoutDeadPcb, Misuse
<1> QED  BY <1>1, <1>2, InvAlways, PTL DEF Spec
============================================================================
