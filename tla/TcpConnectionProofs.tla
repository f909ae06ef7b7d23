------------------------ MODULE TcpConnectionProofs ------------------------
(***************************************************************************)
(* What every callback and method of TcpConnection preserves, for any set  *)
(* of connections and any bounds.  TcpListenerProofs and TcpDialProofs     *)
(* build their theorems on these lemmas.                                   *)
(***************************************************************************)
EXTENDS TcpConnection, SequenceTheorems, TLAPS

\* Bytes(a, b) is a sequence of naturals.
LEMMA BytesType ==
  ASSUME NEW a \in Nat, NEW b \in Nat
  PROVE  Bytes(a, b) \in Seq(Nat)
  BY DEF Bytes

LEMMA BytesEmpty ==
  ASSUME NEW a \in Nat
  PROVE  Bytes(a, a) = <<>>
<1>1. Bytes(a, a) \in Seq(Nat) /\ Len(Bytes(a, a)) = 0  BY BytesType DEF Bytes
<1> QED  BY <1>1

\* The chunks of a stream fit together.
LEMMA BytesConcat ==
  ASSUME NEW a \in Nat, NEW b \in Nat, NEW c \in Nat, a <= b, b <= c
  PROVE  Bytes(a, b) \o Bytes(b, c) = Bytes(a, c)
<1>1. /\ Bytes(a, b) \in Seq(Nat) /\ Bytes(b, c) \in Seq(Nat)
      /\ Bytes(a, c) \in Seq(Nat)
  BY BytesType
<1>2. Len(Bytes(a, b)) = b - a /\ Len(Bytes(b, c)) = c - b /\ Len(Bytes(a, c)) = c - a
  BY DEF Bytes
<1>3. \A i \in 1..(c - a) : (Bytes(a, b) \o Bytes(b, c))[i] = Bytes(a, c)[i]
  BY <1>1, <1>2 DEF Bytes
<1>4. /\ Bytes(a, b) \o Bytes(b, c) \in Seq(Nat)
      /\ Len(Bytes(a, b) \o Bytes(b, c)) = Len(Bytes(a, b)) + Len(Bytes(b, c))
  BY <1>1, ConcatProperties
<1>5. Len(Bytes(a, b) \o Bytes(b, c)) = c - a  BY <1>2, <1>4
<1> QED  BY <1>1, <1>2, <1>3, <1>4, <1>5, SeqEqual

\* Cutting the front off a buffer loses nothing.
LEMMA CutBuffer ==
  ASSUME NEW q \in Seq(Nat), NEW size \in 1..Len(q)
  PROVE  /\ SubSeq(q, 1, size) \in Seq(Nat)
         /\ SubSeq(q, size + 1, Len(q)) \in Seq(Nat)
         /\ SubSeq(q, 1, size) \o SubSeq(q, size + 1, Len(q)) = q
<1>1. SubSeq(q, 1, size) \o SubSeq(q, size + 1, Len(q)) = SubSeq(q, 1, Len(q))
  BY ConcatAdjacentSubSeq
<1> QED  BY <1>1, SubSeqFull

LEMMA Regroup ==
  ASSUME NEW s \in Seq(Nat), NEW t \in Seq(Nat), NEW u \in Seq(Nat)
  PROVE  (s \o t) \o u = s \o (t \o u)
  OBVIOUS

\* Arriving bytes extend the stretch of the stream that is read or buffered.
LEMMA StreamGrows ==
  \A g, r \in Seq(Nat), a, b, k \in Nat :
    a <= b /\ g \o r = Bytes(a, b) => g \o (r \o Bytes(b, b + k)) = Bytes(a, b + k)
<1> TAKE g, r \in Seq(Nat), a, b, k \in Nat
<1> HAVE a <= b /\ g \o r = Bytes(a, b)
<1>1. b + k \in Nat /\ b <= b + k  OBVIOUS
<1>2. Bytes(b, b + k) \in Seq(Nat)  BY <1>1, BytesType
<1>3. g \o (r \o Bytes(b, b + k)) = (g \o r) \o Bytes(b, b + k)
  BY <1>2, Regroup
<1>4. Bytes(a, b) \o Bytes(b, b + k) = Bytes(a, b + k)  BY <1>1, BytesConcat
<1> QED  BY <1>3, <1>4

\* A read moves bytes from the buffer to the application and keeps the stream.
LEMMA StreamMoves ==
  ASSUME NEW g \in Seq(Nat), NEW r \in Seq(Nat), NEW size \in 1..Len(r)
  PROVE  (g \o SubSeq(r, 1, size)) \o SubSeq(r, size + 1, Len(r)) = g \o r
<1> DEFINE front == SubSeq(r, 1, size)
           back == SubSeq(r, size + 1, Len(r))
<1>1. front \in Seq(Nat) /\ back \in Seq(Nat) /\ front \o back = r  BY CutBuffer
<1> HIDE DEF front, back
<1>2. (g \o front) \o back = g \o (front \o back)  BY <1>1, Regroup
<1>3. (g \o front) \o back = g \o r  BY <1>1, <1>2
<1> QED  BY <1>3 DEF front, back

USE ConstantsAssumption DEF ConstantsAssumption

\* Every action of a connection keeps the types of the connection variables.
LEMMA ConnTypeStep ==
  ASSUME ConnTypeOK, NEW c \in Conns, ConnNext(c)
  PROVE  ConnTypeOK'
<1> USE DEF ConnTypeOK, lwip, fields, app
<1>0. /\ sent[c] \in Nat /\ lost[c] \in Nat /\ queued[c] \in Nat
      /\ unacked[c] \in 0..SndBuf /\ reported[c] \in Nat
      /\ rx_buffer[c] \in Seq(Nat) /\ got[c] \in Seq(Nat)
  OBVIOUS
<1>a. Idle \in Calls
  BY DEF Idle, Calls
<1>1. CASE Recv(c)
  <2> PICK k \in 1..(MaxBytes - sent[c]) :
        /\ sent' = [sent EXCEPT ![c] = @ + k]
        /\ rx_buffer' = [rx_buffer EXCEPT ![c] = @ \o Bytes(sent[c], sent[c] + k)]
    BY <1>1 DEF Recv
  <2>0. k \in Nat /\ sent[c] + k \in Nat  BY <1>0
  <2>1. Bytes(sent[c], sent[c] + k) \in Seq(Nat)  BY <1>0, <2>0, BytesType
  <2>a. rx_buffer[c] \o Bytes(sent[c], sent[c] + k) \in Seq(Nat)  BY <1>0, <2>1
  <2>2. rx_buffer' \in [Conns -> Seq(Nat)]  BY <2>a
  <2>3. sent' \in [Conns -> Nat]  BY <2>0
  <2> QED  BY <1>1, <2>2, <2>3 DEF Recv
<1>2. CASE Fin(c)  BY <1>2 DEF Fin, TcpStates
<1>3. CASE RecvError(c)  BY <1>3 DEF RecvError
<1>4. CASE Err(c)  BY <1>4 DEF Err, TcpStates
<1>5. CASE CallbackOnDestroyed(c)  BY <1>5 DEF CallbackOnDestroyed, Misuse
<1>6. CASE Drop(c)
  <2> PICK k \in 1..(MaxBytes - sent[c]) :
        /\ sent' = [sent EXCEPT ![c] = @ + k]
        /\ lost' = [lost EXCEPT ![c] = sent[c] + k]
    BY <1>6 DEF Drop
  <2>1. sent[c] + k \in Nat  BY <1>0
  <2>2. sent' \in [Conns -> Nat] /\ lost' \in [Conns -> Nat]  BY <2>1
  <2> QED  BY <1>6, <2>2 DEF Drop
<1>7. CASE UnattachedFin(c)  BY <1>7 DEF UnattachedFin, TcpStates
<1>8. CASE Release(c)  BY <1>8 DEF Release, TcpStates
<1>9. CASE Acked(c)  
  <2>1. unacked[c] - 1 \in 0..SndBuf  BY <1>0, <1>9 DEF Acked
  <2>2. unacked' \in [Conns -> 0..SndBuf]  BY <1>9, <2>1 DEF Acked
  <2> QED  BY <1>9, <2>2 DEF Acked
<1>10. CASE SetDeadline(c)  BY <1>10 DEF SetDeadline
<1>11. CASE ReadBegin(c)  
  <2>1. call' \in Calls  BY <1>11 DEF ReadBegin, Calls
  <2> QED  BY <1>11, <2>1 DEF ReadBegin
<1>12. CASE ReadError(c)  BY <1>a, <1>12 DEF ReadError, ReadReturns, Outcomes
<1>13. CASE ReadClosed(c)  BY <1>a, <1>13 DEF ReadClosed, ReadReturns, Outcomes
<1>14. CASE ReadNothing(c)  BY <1>a, <1>14 DEF ReadNothing, ReadReturns, Outcomes
<1>15. CASE ReadData(c)
  <2> PICK size \in 1..Len(rx_buffer[c]) :
        /\ got' = [got EXCEPT ![c] = @ \o SubSeq(rx_buffer[c], 1, size)]
        /\ rx_buffer' = [rx_buffer EXCEPT ![c] = SubSeq(@, size + 1, Len(@))]
    BY <1>15 DEF ReadData
  <2>1. /\ SubSeq(rx_buffer[c], 1, size) \in Seq(Nat)
        /\ SubSeq(rx_buffer[c], size + 1, Len(rx_buffer[c])) \in Seq(Nat)
    BY <1>0, CutBuffer
  <2>a. got[c] \o SubSeq(rx_buffer[c], 1, size) \in Seq(Nat)  BY <1>0, <2>1
  <2>2. got' \in [Conns -> Seq(Nat)]  BY <2>a
  <2>3. rx_buffer' \in [Conns -> Seq(Nat)]  BY <2>1
  <2> QED  BY <1>a, <1>15, <2>2, <2>3 DEF ReadData, ReadReturns, Outcomes
<1>16. CASE Write(c)
  <2>1. CASE Queue(c)
    <3> PICK n \in 1..(SndBuf - unacked[c]), ok \in {TRUE, "tcp_output" \notin Failing} :
          /\ queued' = [queued EXCEPT ![c] = @ + n]
          /\ unacked' = [unacked EXCEPT ![c] = @ + n]
          /\ reported' = [reported EXCEPT ![c] = @ + (IF ok THEN n ELSE 0)]
      BY <2>1 DEF Queue
    <3>0. n \in Nat /\ unacked[c] + n \in 0..SndBuf  BY <1>0
    <3>1. (IF ok THEN n ELSE 0) \in Nat  BY <3>0
    <3>2. reported' \in [Conns -> Nat]  BY <1>0, <3>1
    <3>3. queued' \in [Conns -> Nat] /\ unacked' \in [Conns -> 0..SndBuf]  BY <1>0, <3>0
    <3> QED  BY <2>1, <3>2, <3>3 DEF Queue
  <2>2. CASE Misuse("write")  BY <2>2 DEF Misuse
  <2> QED  BY <1>16, <2>1, <2>2 DEF Write
<1>17. CASE \E after \in {"owned", "gone"} : Close(c, after)
  <2>1. CASE Misuse("close")  BY <2>1 DEF Misuse
  <2>2. CASE /\ \E bad \in SUBSET {c} : CloseConns({c}, bad)
             /\ \E after \in {"owned", "gone"} : obj' = [obj EXCEPT ![c] = after]
             /\ UNCHANGED <<app, misuse>>
    BY <2>2 DEF CloseConns, TcpStates
  <2> QED  BY <1>17, <2>1, <2>2 DEF Close
<1> QED
  BY <1>1, <1>2, <1>3, <1>4, <1>5, <1>6, <1>7, <1>8, <1>9, <1>10, <1>11, <1>12,
     <1>13, <1>14, <1>15, <1>16, <1>17 DEF ConnNext, Read

----------------------------------------------------------------------------
(* The connection object and its pcb.                                      *)

\* What the object's fields say of the pcb, in each stage of the object's life.
ObjectInv(c) ==
  /\ obj[c] = "none" => ~pcb[c] /\ ~cb[c] /\ ~is_closed[c]
  /\ obj[c] = "pending" => pcb[c] /\ ~cb[c] /\ ~is_closed[c]
  /\ obj[c] = "owned" /\ pcb[c] => tcp[c] = "open" /\ cb[c]
  /\ obj[c] = "owned" /\ ~pcb[c] => is_closed[c]
  /\ obj[c] = "gone" => ~pcb[c]
  /\ is_closed[c] => ~cb[c] \/ tcp[c] # "open"
  /\ tcp[c] = "none" => obj[c] = "none"

\* The reader's object is alive; no misuse came from the application's own calls.
CallInv ==
  /\ call.op = "read" => obj[call.conn] = "owned"
  /\ misuse \notin {"write", "close"}

PointerInv == (\A c \in Conns : ObjectInv(c)) /\ CallInv

\* No callback and no method of a connection breaks PointerInv, for any of the
\* connections.
LEMMA ConnPointerStep ==
  ASSUME ConnTypeOK, PointerInv, NEW c \in Conns, ConnNext(c)
  PROVE  PointerInv'
<1> USE DEF ConnTypeOK, PointerInv, ObjectInv, CallInv, lwip, fields, app
<1>1. CASE Recv(c)  BY <1>1 DEF Recv
<1>2. CASE Fin(c)  BY <1>2 DEF Fin, Attached
<1>3. CASE RecvError(c)  BY <1>3 DEF RecvError
<1>4. CASE Err(c)  BY <1>4 DEF Err, Attached
<1>5. CASE CallbackOnDestroyed(c)  BY <1>5 DEF CallbackOnDestroyed, Misuse
<1>6. CASE Drop(c)  BY <1>6 DEF Drop
<1>7. CASE UnattachedFin(c)  BY <1>7 DEF UnattachedFin, Unattached
<1>8. CASE Release(c)  BY <1>8 DEF Release
<1>9. CASE Acked(c)  BY <1>9 DEF Acked
<1>10. CASE SetDeadline(c)  BY <1>10 DEF SetDeadline
<1>11. CASE ReadBegin(c)  BY <1>11 DEF ReadBegin, Owned
<1>12. CASE Read(c)
  <2>1. UNCHANGED <<tcp, cb, obj, pcb, is_closed, misuse>>
    BY <1>12 DEF Read, ReadError, ReadClosed, ReadNothing, ReadData, ReadReturns
  <2>2. call' = Idle
    BY <1>12 DEF Read, ReadError, ReadClosed, ReadNothing, ReadData, ReadReturns
  <2>3. call'.op # "read"  BY <2>2 DEF Idle
  <2> QED  BY <2>1, <2>3
<1>13. CASE Write(c)
  <2>1. tcp[c] = "open"  BY <1>13 DEF Write, Owned
  <2> QED  BY <1>13, <2>1 DEF Write, Queue
<1>14. CASE \E after \in {"owned", "gone"} : Close(c, after)
  <2>1. ~PcbDead(c)  BY <1>14 DEF Close, Owned, PcbDead
  <2>2. PICK after \in {"owned", "gone"} : Close(c, after)  BY <1>14
  <2>3. PICK bad \in SUBSET {c} : CloseConns({c}, bad)  BY <2>1, <2>2 DEF Close
  <2>4. obj' = [obj EXCEPT ![c] = after] /\ misuse' = misuse
    BY <2>1, <2>2 DEF Close
  <2>5. obj[c] = "owned"  BY <2>2 DEF Close, Owned
  <2>6. ASSUME NEW d \in Conns PROVE ObjectInv(d)'
    <3>1. CASE d = c  BY <2>3, <2>4, <2>5, <3>1 DEF CloseConns
    <3>2. CASE d # c  BY <2>3, <2>4, <3>2 DEF CloseConns
    <3> QED  BY <3>1, <3>2
  <2>7. call' = call /\ call.op # "read"  BY <2>1, <2>2 DEF Close, Owned, Idle
  <2> QED  BY <2>4, <2>6, <2>7
<1> QED
  BY <1>1, <1>2, <1>3, <1>4, <1>5, <1>6, <1>7, <1>8, <1>9, <1>10, <1>11, <1>12,
     <1>13, <1>14 DEF ConnNext

----------------------------------------------------------------------------
(* The byte stream.                                                        *)

\* The bytes read and buffered are a stretch of the peer's stream, and a verdict
\* a read has given (an error, the end) rests on a field that stays set.
StreamInvOf(c) ==
  /\ lost[c] <= sent[c]
  /\ got[c] \o rx_buffer[c] = Bytes(lost[c], sent[c])
  /\ obj[c] \in {"none", "pending"} =>
       got[c] = <<>> /\ rx_buffer[c] = <<>> /\ outcome[c] = "none"
  /\ outcome[c] = "closed by peer" => is_closed[c] /\ rx_buffer[c] = <<>>
  /\ outcome[c] = "error" => has_error[c]
  /\ outcome[c] # "closed"

StreamInv == \A c \in Conns : StreamInvOf(c)

\* The two properties of the stream that the runs check follow.
LEMMA StreamInvImplies ==
  ASSUME ConnTypeOK, StreamInv
  PROVE  StreamIntact /\ EofAfterData
<1>1. ASSUME NEW c \in Conns, outcome[c] = "closed by peer"
      PROVE  got[c] = Bytes(lost[c], sent[c])
  <2>1. rx_buffer[c] = <<>> /\ got[c] \o rx_buffer[c] = Bytes(lost[c], sent[c])
    BY <1>1 DEF StreamInv, StreamInvOf
  <2>2. got[c] \in Seq(Nat)  BY DEF ConnTypeOK
  <2> QED  BY <2>1, <2>2, ConcatEmptySeq
<1> QED  BY <1>1 DEF StreamInv, StreamInvOf, StreamIntact, EofAfterData

\* Actions that touch neither the buffer, the bytes read nor the stream.
LEMMA StreamStutter ==
  ASSUME StreamInv, NEW d \in Conns,
         lost'[d] = lost[d], sent'[d] = sent[d], got'[d] = got[d],
         rx_buffer'[d] = rx_buffer[d], outcome'[d] = outcome[d],
         obj'[d] \in {"none", "pending"} => obj[d] \in {"none", "pending"},
         is_closed[d] => is_closed'[d], has_error[d] => has_error'[d]
  PROVE  StreamInvOf(d)'
  BY DEF StreamInv, StreamInvOf

\* No callback and no method of a connection breaks StreamInv.
LEMMA ConnStreamStep ==
  ASSUME ConnTypeOK, PointerInv, StreamInv, NEW c \in Conns, ConnNext(c)
  PROVE  StreamInv'
<1> USE DEF ConnTypeOK, lwip, fields, app
<1>0. SUFFICES ASSUME NEW d \in Conns PROVE StreamInvOf(d)'
  BY DEF StreamInv
<1>a. /\ sent[c] \in Nat /\ lost[c] \in Nat
      /\ rx_buffer[c] \in Seq(Nat) /\ got[c] \in Seq(Nat)
  OBVIOUS
<1>b. StreamInvOf(c) /\ StreamInvOf(d) /\ ObjectInv(c)  BY DEF StreamInv, PointerInv
<1>1. CASE Recv(c)
  <2> PICK k \in 1..(MaxBytes - sent[c]) :
        /\ sent' = [sent EXCEPT ![c] = @ + k]
        /\ rx_buffer' = [rx_buffer EXCEPT ![c] = @ \o Bytes(sent[c], sent[c] + k)]
    BY <1>1 DEF Recv
  <2> DEFINE new == Bytes(sent[c], sent[c] + k)
  <2>1. /\ UNCHANGED <<obj, is_closed, has_error, lost, got, outcome>>
        /\ cb[c] /\ tcp[c] = "open"
    BY <1>1 DEF Recv, Attached
  <2>2. k \in Nat /\ sent[c] + k \in Nat
    BY <1>a, SMTT(20)
  <2>3. CASE d # c  BY <2>1, <2>3, StreamStutter
  <2>4. CASE d = c
    <3>0. lost[c] <= sent[c] /\ got[c] \o rx_buffer[c] = Bytes(lost[c], sent[c])
      BY <1>b DEF StreamInvOf
    <3>1. got[c] \o (rx_buffer[c] \o new) = Bytes(lost[c], sent[c] + k)
      <4> DEFINE g == got[c]  r == rx_buffer[c]  a == lost[c]  b == sent[c]
      <4>1. /\ g \in Seq(Nat) /\ r \in Seq(Nat) /\ a \in Nat /\ b \in Nat /\ k \in Nat
            /\ a <= b /\ g \o r = Bytes(a, b)
        BY <1>a, <2>2, <3>0
      <4> HIDE DEF g, r, a, b, ConnTypeOK
      <4>2. g \o (r \o Bytes(b, b + k)) = Bytes(a, b + k)  BY ONLY <4>1, StreamGrows, ZenonT(60)
      <4> QED  BY ONLY <4>2 DEF g, r, a, b
    <3>2. /\ sent'[c] = sent[c] + k /\ lost'[c] = lost[c] /\ got'[c] = got[c]
          /\ rx_buffer'[c] = rx_buffer[c] \o new
      BY <2>1
    <3>3. got'[c] \o rx_buffer'[c] = Bytes(lost'[c], sent'[c])  BY <3>1, <3>2
    <3>4. ~is_closed[c] /\ obj[c] \notin {"none", "pending"}
      BY <1>b, <2>1 DEF ObjectInv
    <3>5. lost[c] <= sent[c]  BY <1>b DEF StreamInvOf
    <3>6. lost'[c] <= sent'[c]  BY ONLY <1>a, <2>2, <3>2, <3>5
    <3> QED  BY <1>b, <2>1, <2>4, <3>3, <3>4, <3>6 DEF StreamInvOf
  <2> QED  BY <2>3, <2>4
<1>2. CASE Fin(c)  BY <1>2, StreamStutter DEF Fin
<1>3. CASE RecvError(c)  BY <1>3, StreamStutter DEF RecvError
<1>4. CASE Err(c)  BY <1>4, StreamStutter DEF Err
<1>5. CASE CallbackOnDestroyed(c)  BY <1>5, StreamStutter DEF CallbackOnDestroyed, Misuse
<1>6. CASE Drop(c)
  <2> PICK k \in 1..(MaxBytes - sent[c]) :
        /\ sent' = [sent EXCEPT ![c] = @ + k]
        /\ lost' = [lost EXCEPT ![c] = sent[c] + k]
    BY <1>6 DEF Drop
  <2>1. UNCHANGED <<obj, is_closed, has_error, rx_buffer, got, outcome>>
        /\ obj[c] \in {"none", "pending"}
    BY <1>6 DEF Drop, Unattached
  <2>2. k \in Nat /\ sent[c] + k \in Nat
    BY <1>a, SMTT(20)
  <2>3. CASE d # c  BY <2>1, <2>3, StreamStutter
  <2>4. CASE d = c
    <3>1. got[c] = <<>> /\ rx_buffer[c] = <<>> /\ outcome[c] = "none"
      BY <1>b, <2>1 DEF StreamInvOf
    <3>2. Bytes(sent[c] + k, sent[c] + k) = <<>> \o <<>>  BY ONLY <2>2, BytesEmpty
    <3>3. lost'[c] = sent[c] + k /\ sent'[c] = sent[c] + k  OBVIOUS
    <3>4. got'[c] \o rx_buffer'[c] = Bytes(lost'[c], sent'[c])  BY <2>1, <3>1, <3>2, <3>3
    <3>5. lost'[c] <= sent'[c]  BY <2>2, <3>3
    <3>6. got'[c] = <<>> /\ rx_buffer'[c] = <<>> /\ outcome'[c] = "none"  BY <2>1, <3>1
    <3> QED  BY <2>4, <3>4, <3>5, <3>6 DEF StreamInvOf
  <2> QED  BY <2>3, <2>4
<1>7. CASE UnattachedFin(c)  BY <1>7, StreamStutter DEF UnattachedFin
<1>8. CASE Release(c)  BY <1>8, StreamStutter DEF Release
<1>9. CASE Acked(c)  BY <1>9, StreamStutter DEF Acked
<1>10. CASE SetDeadline(c)  BY <1>10, StreamStutter DEF SetDeadline
<1>11. CASE ReadBegin(c)  BY <1>11, StreamStutter DEF ReadBegin
<1>12. CASE Read(c)
  <2>0. CASE d # c
    BY <1>12, <2>0, StreamStutter
    DEF Read, ReadError, ReadClosed, ReadNothing, ReadData, ReadReturns
  <2>1. CASE d = c /\ ~ReadData(c)
    <3>0. call.op = "read" /\ call.conn = c
      BY <1>12, <2>1 DEF Read, ReadError, ReadClosed, ReadNothing, ReadReturns
    <3>2. obj[c] = "owned" /\ (~pcb[c] => is_closed[c])
      BY <1>b, <3>0 DEF PointerInv, CallInv, ObjectInv
    <3>1. UNCHANGED <<obj, is_closed, has_error, sent, lost, rx_buffer, got>>
      BY <1>12, <2>1 DEF Read, ReadError, ReadClosed, ReadNothing, ReadReturns
    <3>3. CASE ReadError(c)
      <4>1. has_error[c] /\ outcome'[c] = "error"  BY <3>3 DEF ReadError, ReadReturns
      <4> QED  BY <1>b, <2>1, <3>1, <3>2, <4>1 DEF StreamInvOf
    <3>4. CASE ReadClosed(c)
      <4>1. /\ is_closed[c] /\ rx_buffer[c] = <<>> /\ outcome'[c] = "closed by peer"
        BY <3>2, <3>4 DEF ReadClosed, ReadReturns
      <4> QED  BY <1>b, <2>1, <3>1, <3>2, <4>1 DEF StreamInvOf
    <3>5. CASE ReadNothing(c)
      <4>1. outcome'[c] \in {"nothing", "timeout"}  BY <3>5 DEF ReadNothing, ReadReturns
      <4> QED  BY <1>b, <2>1, <3>1, <3>2, <4>1 DEF StreamInvOf
    <3> QED  BY <1>12, <2>1, <3>3, <3>4, <3>5 DEF Read
  <2>2. CASE d = c /\ ReadData(c)
    <3> PICK size \in 1..Len(rx_buffer[c]) :
          /\ got' = [got EXCEPT ![c] = @ \o SubSeq(rx_buffer[c], 1, size)]
          /\ rx_buffer' = [rx_buffer EXCEPT ![c] = SubSeq(@, size + 1, Len(@))]
      BY <2>2 DEF ReadData
    <3>1. UNCHANGED <<obj, is_closed, has_error, sent, lost>> /\ outcome'[c] = "data"
      BY <2>2 DEF ReadData, ReadReturns
    <3>2. /\ got'[c] = got[c] \o SubSeq(rx_buffer[c], 1, size)
          /\ rx_buffer'[c] = SubSeq(rx_buffer[c], size + 1, Len(rx_buffer[c]))
      OBVIOUS
    <3>3. got'[c] \o rx_buffer'[c] = got[c] \o rx_buffer[c]
      <4> DEFINE g == got[c]  r == rx_buffer[c]
      <4>1. g \in Seq(Nat) /\ r \in Seq(Nat) /\ size \in 1..Len(r)  BY <1>a
      <4> HIDE DEF g, r, ConnTypeOK
      <4>2. (g \o SubSeq(r, 1, size)) \o SubSeq(r, size + 1, Len(r)) = g \o r
        BY <4>1, StreamMoves
      <4> QED  BY <3>2, <4>2 DEF g, r
    <3>4. obj[c] = "owned"  BY <2>2 DEF ReadData, ReadReturns, PointerInv, CallInv
    <3> QED  BY <1>b, <2>2, <3>1, <3>3, <3>4 DEF StreamInvOf
  <2> QED  BY <1>12, <2>0, <2>1, <2>2
<1>13. CASE Write(c)
  <2>1. UNCHANGED <<sent, lost, obj, is_closed, has_error, rx_buffer, got, outcome>>
    BY <1>13 DEF Write, Queue, Misuse
  <2> QED  BY <2>1, StreamStutter
<1>14. CASE \E after \in {"owned", "gone"} : Close(c, after)
  <2>1. UNCHANGED <<sent, lost, has_error, rx_buffer, got, outcome>>
    BY <1>14 DEF Close, CloseConns, Misuse
  <2>2. is_closed[d] => is_closed'[d]
    BY <1>14 DEF Close, CloseConns, Misuse
  <2>3. obj'[d] \in {"none", "pending"} => obj[d] \in {"none", "pending"}
    BY <1>14 DEF Close, CloseConns, Misuse
  <2> QED  BY <2>1, <2>2, <2>3, StreamStutter
<1> QED
  BY <1>1, <1>2, <1>3, <1>4, <1>5, <1>6, <1>7, <1>8, <1>9, <1>10, <1>11, <1>12,
     <1>13, <1>14 DEF ConnNext

\* The verdict of a read is final: nothing a connection does returns data after it.
LEMMA ConnFinalStep ==
  ASSUME ConnTypeOK, StreamInv, NEW c \in Conns, ConnNext(c)
  PROVE  ErrorIsFinalStep
<1> USE DEF lwip, fields, app
<1>1. CASE ~ReadData(c)
  <2>1. got' = got
    BY <1>1
    DEF ConnNext, Recv, Fin, RecvError, Err, CallbackOnDestroyed, Misuse, Drop,
        UnattachedFin, Release, Acked, SetDeadline, ReadBegin, Read, ReadError,
        ReadClosed, ReadNothing, Write, Queue, Close
  <2> QED  BY <2>1 DEF ErrorIsFinalStep
<1>2. CASE ReadData(c)
  <2>1. ~has_error[c] /\ rx_buffer[c] # <<>>  BY <1>2 DEF ReadData
  <2>2. outcome[c] \notin {"error", "closed by peer"}
    BY <2>1 DEF StreamInv, StreamInvOf
  <2>3. \A d \in Conns : d # c => got'[d] = got[d]
    BY <1>2 DEF ReadData, ConnTypeOK
  <2> QED  BY <2>2, <2>3 DEF ErrorIsFinalStep
<1> QED  BY <1>1, <1>2

----------------------------------------------------------------------------
(* Ownership of open pcbs, provided tcp_close does not fail.               *)

\* No callback and no method lets go of an open pcb.
LEMMA ConnOwnerStep ==
  ASSUME "tcp_close" \notin Failing, ConnTypeOK, PointerInv, OpenHasOwner,
         NEW c \in Conns, ConnNext(c)
  PROVE  OpenHasOwner'
<1> USE DEF ConnTypeOK, OpenHasOwner, lwip, fields, app
<1>1. CASE Recv(c) \/ RecvError(c) \/ Drop(c) \/ Acked(c) \/ SetDeadline(c)
  BY <1>1 DEF Recv, RecvError, Drop, Acked, SetDeadline
<1>2. CASE Fin(c) \/ Err(c)  BY <1>2 DEF Fin, Err
<1>3. CASE UnattachedFin(c) \/ Release(c)  BY <1>3 DEF UnattachedFin, Release
<1>4. CASE CallbackOnDestroyed(c)  BY <1>4 DEF CallbackOnDestroyed, Misuse
<1>5. CASE ReadBegin(c)  BY <1>5 DEF ReadBegin, Owned, Idle
<1>6. CASE Read(c)
  BY <1>6 DEF Read, ReadError, ReadClosed, ReadNothing, ReadData, ReadReturns
<1>7. CASE Write(c)  BY <1>7 DEF Write, Queue, Misuse
<1>8. CASE \E after \in {"owned", "gone"} : Close(c, after)
  <2>1. ~PcbDead(c)  BY <1>8 DEF Close, Owned, PcbDead, PointerInv, ObjectInv
  <2>2. PICK after \in {"owned", "gone"} : Close(c, after)  BY <1>8
  <2>3. PICK bad \in SUBSET {c} : CloseConns({c}, bad)  BY <2>1, <2>2 DEF Close
  <2>4. bad = {}  BY <2>3 DEF CloseConns
  <2>5. obj' = [obj EXCEPT ![c] = after] /\ call' = call /\ obj[c] = "owned"
    BY <2>1, <2>2 DEF Close, Owned
  <2>6. ASSUME NEW d \in Conns, tcp'[d] = "open"
        PROVE  \/ obj'[d] \in {"pending", "owned"} /\ pcb'[d]
               \/ call'.op = "dial" /\ call'.conn = d
    <3>1. CASE d = c
      <4>1. tcp[c] = "open" /\ ~pcb[c]  BY <2>3, <2>4, <2>6, <3>1 DEF CloseConns
      <4>2. call.op # "dial"  BY <2>2 DEF Close, Owned, Idle
      <4> QED  BY <4>1, <4>2
    <3>2. CASE d # c
      <4>1. tcp'[d] = tcp[d] /\ pcb'[d] = pcb[d] /\ obj'[d] = obj[d]
        BY <2>3, <2>5, <3>2 DEF CloseConns
      <4> QED  BY <2>5, <2>6, <4>1
    <3> QED  BY <3>1, <3>2
  <2> QED  BY <2>6
<1> QED
  BY <1>1, <1>2, <1>3, <1>4, <1>5, <1>6, <1>7, <1>8 DEF ConnNext

\* write's reports never run ahead of what lwIP has queued.
LEMMA ConnWriteStep ==
  ASSUME ConnTypeOK, WriteCount, NEW c \in Conns, ConnNext(c)
  PROVE  WriteCount'
<1> USE DEF ConnTypeOK, WriteCount, lwip, fields, app
<1>1. CASE UNCHANGED <<queued, reported>>  BY <1>1
<1>2. CASE Queue(c)
  <2> PICK n \in 1..(SndBuf - unacked[c]), ok \in {TRUE, "tcp_output" \notin Failing} :
        /\ queued' = [queued EXCEPT ![c] = @ + n]
        /\ reported' = [reported EXCEPT ![c] = @ + (IF ok THEN n ELSE 0)]
    BY <1>2 DEF Queue
  <2>1. n \in Nat /\ (IF ok THEN n ELSE 0) \in 0..n /\ unacked[c] \in 0..SndBuf
    OBVIOUS
  <2>2. queued[c] \in Nat /\ reported[c] \in Nat /\ reported[c] <= queued[c]  OBVIOUS
  <2>3. ASSUME NEW d \in Conns PROVE reported'[d] <= queued'[d]
    <3>1. CASE d = c
      <4>1. reported'[c] = reported[c] + (IF ok THEN n ELSE 0) /\ queued'[c] = queued[c] + n
        OBVIOUS
      <4> QED  BY <2>1, <2>2, <3>1, <4>1
    <3>2. CASE d # c  BY <3>2
    <3> QED  BY <3>1, <3>2
  <2> QED  BY <2>3
<1> QED
  BY <1>1, <1>2
  DEF ConnNext, Recv, Fin, RecvError, Err, CallbackOnDestroyed, Misuse, Drop,
      UnattachedFin, Release, Acked, SetDeadline, ReadBegin, Read, ReadError, ReadClosed,
      ReadNothing, ReadData, ReadReturns, Write, Close, CloseConns
============================================================================
