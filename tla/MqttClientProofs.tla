-------------------------- MODULE MqttClientProofs --------------------------
(***************************************************************************)
(* The calls and the keep-alive of MqttClient, for every keep-alive and    *)
(* any bounds.                                                             *)
(***************************************************************************)
EXTENDS MqttClient, SequenceLemmas

\* Which calls there can be in which state; a client that is connected can send.
PhaseInv ==
  /\ ConnMatchesState
  /\ pc = "connect" => state = "CONNECTING"
  /\ pc \in {"process", "keepAlive"} => state = "CONNECTED"
  /\ NothingAfterEnd

\* Behind the keep-alive of a poll the ages are below their limits, and up to the
\* next poll they grow no faster than the gap.
KeepInv ==
  state = "CONNECTED" /\ pc = "idle" /\ keepAlive > 0 =>
    IF waiting THEN sinceRx < keepAlive + keepAlive \div 2 + gap
               ELSE sinceTx < keepAlive \div 2 + gap

Inv == TypeOK /\ PhaseInv /\ KeepInv

\* A stream consists of packets, each with its rest right behind its header.
Whole(s) ==
  /\ s # <<>> => s[1].part = 1
  /\ \A i \in 1..Len(s) : s[i].part = 1 =>
       i < Len(s) /\ s[i + 1] = [packet |-> s[i].packet, part |-> 2]
  /\ \A i \in 1..Len(s) : s[i].part = 2 /\ i < Len(s) => s[i + 1].part = 1

\* Without a connection nothing is left of a session, and before the CONNACK nothing
\* of it has begun but the stream.
FreshInv ==
  /\ link = "up" => conn
  /\ ~conn => rx = <<>> /\ net = <<>>
  /\ ~conn \/ pc = "connect" => incoming = <<>> /\ owed = 0 /\ ~waiting

StreamInv == Whole(rx \o net) /\ FreshInv /\ taken <= pubs /\ InOrder /\ PingBalance

----------------------------------------------------------------------------
(* The buffer.                                                             *)

LEMMA FoundType ==
  ASSUME rx \in Seq(Byte), net \in Seq(Byte), NEW n \in 0..Len(net)
  PROVE  Found(n) \in Seq(Byte) /\ Left(n) \in Seq(Byte)
<1>1. \A i \in 1..Len(net) : net[i] \in Byte  OBVIOUS
<1>2. SubSeq(net, 1, n) \in Seq(Byte)  BY <1>1, SubSeqProperties
<1>3. SubSeq(net, n + 1, Len(net)) \in Seq(Byte)  BY <1>1, SubSeqProperties
<1> QED  BY <1>2, <1>3 DEF Found, Left

LEMMA ArrivalsInNet ==
  ASSUME net \in Seq(Byte) PROVE Arrivals \subseteq 0..Len(net)
BY DEF Arrivals

LEMMA BehindType ==
  ASSUME NEW b \in Seq(Byte) PROVE Behind(b) \in Seq(Byte)
<1>1. \A i \in 3..Len(b) : b[i] \in Byte  OBVIOUS
<1> QED  BY <1>1, SubSeqProperties DEF Behind

LEMMA FrontType ==
  ASSUME NEW b \in Seq(Byte), Complete(b) PROVE FrontOf(b) \in Packet
<1>1. b[1] \in Byte  BY DEF Complete
<1> QED  BY <1>1 DEF FrontOf, Byte

LEMMA BytesType ==
  ASSUME NEW p \in Packet, NEW s \in Seq(Byte) PROVE s \o Bytes(p) \in Seq(Byte)
<1>1. \A i \in {1, 2} : [packet |-> p, part |-> i] \in Byte  BY DEF Byte
<1>2. Bytes(p) \in Seq(Byte)  BY <1>1 DEF Bytes
<1> QED  BY <1>2, ConcatProperties

----------------------------------------------------------------------------
(* What the packets in a stream carry.                                     *)

LEMMA ByteType ==
  ASSUME NEW y \in Byte PROVE y.packet \in Packet /\ y.part \in {1, 2} /\ y.packet.msg \in Nat
<1>1. y.packet \in Packet /\ y.part \in {1, 2}  BY DEF Byte
<1>2. \A p \in Packet : p.msg \in Nat  BY ConstantsAssumption DEF ConstantsAssumption, Packet
<1> QED  BY <1>1, <1>2

LEMMA WithType ==
  ASSUME NEW y \in Byte, NEW m \in Seq(Nat), NEW kind PROVE With(m, y, kind) \in Seq(Nat)
BY ByteType DEF With

\* Carried is the loop over a buffer that its definition says.
LEMMA CarriedDef ==
  ASSUME NEW b \in Seq(Byte), NEW kind
  PROVE  \E f \in [0..Len(b) -> Seq(Nat)] :
           /\ f[0] = <<>> /\ \A i \in 1..Len(b) : f[i] = With(f[i - 1], b[i], kind)
           /\ Carried(b, kind) = f[Len(b)]
<1> DEFINE round == [i \in 1..Len(b) |-> [m \in Seq(Nat) |-> With(m, b[i], kind)]]
           Equation(f) == f = [i \in 0..Len(b) |->
                                 IF i = 0 THEN <<>> ELSE With(f[i - 1], b[i], kind)]
           none == <<>>
<1>1. Len(b) \in Nat /\ none \in Seq(Nat)  OBVIOUS
<1>2. round \in [1..Len(b) -> [Seq(Nat) -> Seq(Nat)]]
  <2>1. ASSUME NEW i \in 1..Len(b), NEW m \in Seq(Nat) PROVE With(m, b[i], kind) \in Seq(Nat)
    <3>1. b[i] \in Byte  OBVIOUS
    <3> QED  BY <3>1, WithType
  <2> QED  BY <2>1
<1>3. PICK f \in [0..Len(b) -> Seq(Nat)] :
        f[0] = none /\ \A i \in 1..Len(b) : f[i] = round[i][f[i - 1]]
  <2> DEFINE N == Len(b)
             V == Seq(Nat)
  <2>1. N \in Nat /\ none \in V  BY <1>1
  <2>2. round \in Rounds(N, V)  BY <1>2 DEF Rounds
  <2>3. \E f : f \in [0..N -> V] /\ Loop(f, N, none, round)
    <3> HIDE DEF round, none, N, V
    <3> QED  BY <2>1, <2>2, FoldExists
  <2> QED  BY <2>3 DEF Loop
<1>4. f[0] = <<>> /\ \A i \in 1..Len(b) : f[i] = With(f[i - 1], b[i], kind)
  <2>1. \A i \in 1..Len(b) : f[i - 1] \in Seq(Nat)  BY <1>1
  <2> QED  BY <1>3, <2>1
<1>5. Equation(f)
  <2>1. \A i \in 0..Len(b) : f[i] = IF i = 0 THEN <<>> ELSE With(f[i - 1], b[i], kind)
    BY <1>1, <1>4
  <2> QED  BY <2>1
<1> DEFINE chosen == CHOOSE g : Equation(g)
<1>6. Equation(chosen)  BY <1>5, Zenon
<1>7. Carried(b, kind) = chosen[Len(b)]  BY DEF Carried
<1>8. \A i \in 0..Len(b) : chosen[i] = IF i = 0 THEN <<>> ELSE With(chosen[i - 1], b[i], kind)
  BY <1>6, Zenon
<1>9. \A i \in 0..Len(b) : f[i] = chosen[i]
  <2> HIDE DEF chosen
  <2>1. f[0] = chosen[0]  BY <1>1, <1>4, <1>8
  <2>2. ASSUME NEW i \in 1..Len(b), f[i - 1] = chosen[i - 1] PROVE f[i] = chosen[i]
    BY <1>1, <1>4, <1>8, <2>2
  <2>3. SameRounds(f, chosen, Len(b))  BY <2>1, <2>2 DEF SameRounds
  <2> QED  BY <1>1, <2>3, FoldsAgree
<1> QED  BY <1>1, <1>4, <1>7, <1>9

LEMMA CarriedType == ASSUME NEW b \in Seq(Byte), NEW kind PROVE Carried(b, kind) \in Seq(Nat)
<1>1. PICK f \in [0..Len(b) -> Seq(Nat)] : Carried(b, kind) = f[Len(b)]  BY CarriedDef
<1> QED  BY <1>1

LEMMA CarriedEmpty == ASSUME NEW kind PROVE Carried(<<>>, kind) = <<>>
<1>1. <<>> \in Seq(Byte) /\ Len(<<>>) = 0  OBVIOUS
<1> QED  BY <1>1, CarriedDef

LEMMA CarriedAppend ==
  ASSUME NEW b \in Seq(Byte), NEW y \in Byte, NEW kind
  PROVE  /\ Carried(b, kind) \in Seq(Nat)
         /\ Carried(Append(b, y), kind) = With(Carried(b, kind), y, kind)
<1> DEFINE c == Append(b, y)
<1>1. c \in Seq(Byte) /\ Len(c) = Len(b) + 1 /\ Len(b) \in Nat /\ c[Len(b) + 1] = y
      /\ \A i \in 1..Len(b) : c[i] = b[i]
  BY AppendProperties
<1>2. PICK f \in [0..Len(b) -> Seq(Nat)] :
        /\ f[0] = <<>> /\ \A i \in 1..Len(b) : f[i] = With(f[i - 1], b[i], kind)
        /\ Carried(b, kind) = f[Len(b)]
  BY CarriedDef
<1> HIDE DEF c
<1>3. PICK g : g \in [0..Len(c) -> Seq(Nat)]
        /\ g[0] = <<>> /\ \A i \in 1..Len(c) : g[i] = With(g[i - 1], c[i], kind)
        /\ Carried(c, kind) = g[Len(c)]
  BY <1>1, CarriedDef
<1>4. \A i \in 0..Len(b) : f[i] = g[i]
  <2>1. \A i \in 1..Len(b) : f[i - 1] = g[i - 1] => f[i] = g[i]
    BY <1>1, <1>2, <1>3
  <2>2. f[0] = g[0]  BY <1>2, <1>3
  <2>3. SameRounds(f, g, Len(b)) /\ Len(b) \in Nat  BY <2>1, <2>2 DEF SameRounds
  <2> QED  BY <2>3, FoldsAgree, Zenon
<1>5. f[Len(b)] = g[Len(b)] /\ f[Len(b)] \in Seq(Nat)  BY <1>1, <1>4
<1>6. Carried(c, kind) = With(g[Len(b)], y, kind)
  <2>1. Len(b) + 1 \in 1..Len(c) /\ (Len(b) + 1) - 1 = Len(b)  BY <1>1
  <2> QED  BY <1>1, <1>3, <2>1
<1> QED  BY <1>2, <1>5, <1>6 DEF c

\* What two pieces of a stream carry together.
LEMMA CarriedConcat ==
  ASSUME NEW b \in Seq(Byte), NEW kind
  PROVE  \A c \in Seq(Byte) : Carried(b \o c, kind) = Carried(b, kind) \o Carried(c, kind)
<1> DEFINE S == {n \in Nat : \A c \in Seq(Byte) : Len(c) = n =>
                   Carried(b \o c, kind) = Carried(b, kind) \o Carried(c, kind)}
<1>0. \A c \in Seq(Byte) : Carried(c, kind) \in Seq(Nat)  BY CarriedType
<1>1. 0 \in S
  <2> SUFFICES ASSUME NEW c \in Seq(Byte), Len(c) = 0
               PROVE  Carried(b \o c, kind) = Carried(b, kind) \o Carried(c, kind)
    OBVIOUS
  <2>1. c = <<>> /\ b \o c = b  BY ConcatEmptySeq, EmptySeq
  <2>2. Carried(c, kind) = <<>>  BY <2>1, CarriedEmpty
  <2> QED  BY <1>0, <2>1, <2>2, ConcatEmptySeq
<1>2. ASSUME NEW n \in Nat, n \in S PROVE n + 1 \in S
  <2> SUFFICES ASSUME NEW c \in Seq(Byte), Len(c) = n + 1
               PROVE  Carried(b \o c, kind) = Carried(b, kind) \o Carried(c, kind)
    OBVIOUS
  <2>1. PICK d \in Seq(Byte), y \in Byte : c = Append(d, y)
    <3>1. c # <<>>  OBVIOUS
    <3> QED  BY <3>1, SequenceEmptyOrAppend, Zenon
  <2>2. Len(d) = n  BY <2>1, AppendProperties
  <2>3. Carried(b \o d, kind) = Carried(b, kind) \o Carried(d, kind)  BY <1>2, <2>2
  <2>4. b \o c = Append(b \o d, y) /\ b \o d \in Seq(Byte)  BY <2>1, GrowEnd, ConcatProperties
  <2>5. Carried(b \o c, kind) = With(Carried(b, kind) \o Carried(d, kind), y, kind)
    BY <2>3, <2>4, CarriedAppend
  <2>6. Carried(c, kind) = With(Carried(d, kind), y, kind)  BY <2>1, CarriedAppend
  <2>7. With(Carried(b, kind) \o Carried(d, kind), y, kind) =
          Carried(b, kind) \o With(Carried(d, kind), y, kind)
    <3> DEFINE h == Carried(b, kind)
               p == Carried(d, kind)
    <3>1. h \in Seq(Nat) /\ p \in Seq(Nat) /\ y.packet.msg \in Nat  BY <1>0, ByteType
    <3> HIDE DEF h, p
    <3>2. h \o Append(p, y.packet.msg) = Append(h \o p, y.packet.msg)  BY <3>1, GrowEnd
    <3>3. With(h \o p, y, kind) = h \o With(p, y, kind)  BY <3>2 DEF With
    <3> QED  BY <3>3 DEF h, p
  <2> QED  BY <2>5, <2>6, <2>7
<1>3. Nat \subseteq S
  <2> HIDE DEF S
  <2> QED  BY <1>1, <1>2, SetInduction
<1> QED  BY <1>3

----------------------------------------------------------------------------
(* The stream.                                                             *)

\* A read only moves bytes from the connection into the buffer.
LEMMA FoundStream ==
  ASSUME rx \in Seq(Byte), net \in Seq(Byte), NEW n \in 0..Len(net)
  PROVE  Found(n) \o Left(n) = rx \o net
<1>1. Cat(Cat(rx, SubSeq(net, 1, n)), SubSeq(net, n + 1, Len(net))) = Cat(rx, net)
  BY CatCut, Zenon
<1> QED  BY <1>1 DEF Cat, Found, Left

\* The front packet of a stream, and the stream behind it.
LEMMA WholeFront ==
  ASSUME NEW s \in Seq(Byte), Whole(s), s # <<>>
  PROVE  /\ Len(s) >= 2 /\ FrontOf(s) \in Packet /\ s = Bytes(FrontOf(s)) \o Behind(s)
         /\ Behind(s) \in Seq(Byte) /\ Whole(Behind(s))
<1>1. /\ Len(s) \in Nat /\ Len(s) >= 2 /\ s[1] \in Byte /\ s[1].part = 1
      /\ s[2] = [packet |-> s[1].packet, part |-> 2]
  BY DEF Whole
<1>2. s[1] = [packet |-> s[1].packet, part |-> 1] /\ s[1].packet \in Packet  BY <1>1 DEF Byte
<1> DEFINE p == s[1].packet
           a == Bytes(p)
           b == Behind(s)
<1>3. a \in Seq(Byte) /\ Len(a) = 2 /\ a[1] = s[1] /\ a[2] = s[2]
  <2>1. \A i \in {1, 2} : [packet |-> p, part |-> i] \in Byte  BY <1>2 DEF Byte
  <2> QED  BY <1>1, <1>2, <2>1 DEF Bytes
<1> DEFINE c == SubSeq(s, 1, 2)
<1>4. /\ c \in Seq(Byte) /\ Len(c) = 2 /\ \A i \in 1..2 : c[i] = s[i]
      /\ b \in Seq(Byte) /\ Len(b) = Len(s) - 2 /\ \A i \in 1..(Len(s) - 2) : b[i] = s[2 + i]
      /\ c \o b = s
  <2>1. 2 \in 0..Len(s)  BY <1>1
  <2>2. SubSeq(s, 2 + 1, Len(s)) = b  BY DEF Behind
  <2> DEFINE d == SubSeq(s, 2 + 1, Len(s))
  <2>3. /\ c \in Seq(Byte) /\ Len(c) = 2 /\ \A i \in 1..2 : c[i] = s[i]
        /\ d \in Seq(Byte) /\ Len(d) = Len(s) - 2 /\ \A i \in 1..(Len(s) - 2) : d[i] = s[2 + i]
        /\ c \o d = s
    BY <2>1, CutAt, Zenon
  <2> HIDE DEF b, c, d
  <2>4. d = b  BY <2>2, Zenon DEF d
  <2> QED  BY <2>3, <2>4, Zenon
<1> HIDE DEF a, b, c, p
<1>5. s = a \o b
  <2>1. \A i \in 1..2 : c[i] = a[i]
    <3>1. \A i \in 1..2 : i = 1 \/ i = 2  OBVIOUS
    <3> QED  BY <1>3, <1>4, <3>1
  <2>2. c = a  BY <1>3, <1>4, <2>1, SeqEqual
  <2> QED  BY <1>4, <2>2
<1>6. Whole(b)
  <2>1. b # <<>> => b[1].part = 1
    <3> SUFFICES ASSUME b # <<>> PROVE b[1].part = 1  OBVIOUS
    <3>1. Len(b) >= 1  BY <1>4
    <3>2. b[1] = s[3] /\ 2 < Len(s) /\ s[2].part = 2  BY <1>1, <1>4, <3>1
    <3>3. 2 \in 1..Len(s) /\ 2 + 1 = 3  BY <1>1
    <3> QED  BY <3>2, <3>3 DEF Whole
  <2>2. ASSUME NEW i \in 1..Len(b), b[i].part = 1
        PROVE  i < Len(b) /\ b[i + 1] = [packet |-> b[i].packet, part |-> 2]
    <3>1. i + 2 \in 1..Len(s) /\ b[i] = s[i + 2]  BY <1>1, <1>4
    <3>2. i + 2 < Len(s) /\ s[(i + 2) + 1] = [packet |-> s[i + 2].packet, part |-> 2]
      BY <2>2, <3>1 DEF Whole
    <3>3. i < Len(b) /\ b[i + 1] = s[(i + 2) + 1]  BY <1>1, <1>4, <3>2
    <3> QED  BY <3>1, <3>2, <3>3
  <2>3. ASSUME NEW i \in 1..Len(b), b[i].part = 2, i < Len(b) PROVE b[i + 1].part = 1
    <3>1. i + 2 \in 1..Len(s) /\ b[i] = s[i + 2] /\ i + 2 < Len(s)  BY <1>1, <1>4, <2>3
    <3>2. b[i + 1] = s[(i + 2) + 1]  BY <1>1, <1>4, <2>3
    <3> QED  BY <2>3, <3>1, <3>2 DEF Whole
  <2>4. \A i \in 1..Len(b) : b[i].part = 2 /\ i < Len(b) => b[i + 1].part = 1  BY <2>3
  <2> QED  BY <2>1, <2>2, <2>4, Zenon DEF Whole
<1> QED  BY <1>1, <1>2, <1>4, <1>5, <1>6 DEF FrontOf, a, b, p

\* The broker adds a packet to the stream.
LEMMA WholeGrows ==
  ASSUME NEW s \in Seq(Byte), Whole(s), NEW p \in Packet
  PROVE  Bytes(p) \in Seq(Byte) /\ Whole(s \o Bytes(p))
<1> DEFINE y == [packet |-> p, part |-> 1]
           z == [packet |-> p, part |-> 2]
           t == s \o Bytes(p)
<1>1. y \in Byte /\ z \in Byte  BY DEF Byte
<1>2. y.part = 1 /\ z.part = 2 /\ z = [packet |-> y.packet, part |-> 2]  OBVIOUS
<1>3. Bytes(p) \in Seq(Byte) /\ Len(Bytes(p)) = 2 /\ Bytes(p)[1] = y /\ Bytes(p)[2] = z
  BY <1>1 DEF Bytes
<1> HIDE DEF y, z
<1>4. /\ t \in Seq(Byte) /\ Len(t) = Len(s) + 2 /\ Len(s) \in Nat
      /\ t[Len(s) + 1] = y /\ t[Len(s) + 2] = z /\ \A i \in 1..Len(s) : t[i] = s[i]
  <2> DEFINE c == Bytes(p)
  <2> HIDE DEF c
  <2>1. c \in Seq(Byte) /\ Len(c) = 2 /\ c[1] = y /\ c[2] = z  BY <1>3 DEF c
  <2>2. t = Cat(s, c)  BY DEF Cat, c
  <2>3. t \in Seq(Byte) /\ Joined(t, s, c)
    <3>1. Cat(s, c) \in Seq(Byte) /\ Joined(Cat(s, c), s, c)  BY <2>1, CatAt
    <3> HIDE DEF t
    <3> QED  BY <2>2, <3>1
  <2> HIDE DEF t
  <2> QED  BY <2>1, <2>3 DEF Joined
<1> HIDE DEF t
<1>5. \A i \in 1..Len(t) : i \in 1..Len(s) \/ i = Len(s) + 1 \/ i = Len(s) + 2  BY <1>4
<1>6. t # <<>> => t[1].part = 1
  <2>1. CASE Len(s) = 0  BY <1>2, <1>4, <2>1
  <2>2. CASE Len(s) # 0
    <3>1. 1 \in 1..Len(s) /\ s # <<>>  BY <1>4, <2>2
    <3> QED  BY <1>4, <3>1 DEF Whole
  <2> QED  BY <2>1, <2>2
<1>7. ASSUME NEW i \in 1..Len(t), t[i].part = 1
      PROVE  i < Len(t) /\ t[i + 1] = [packet |-> t[i].packet, part |-> 2]
  <2>1. CASE i \in 1..Len(s)
    <3>1. t[i] = s[i]  BY <1>4, <2>1
    <3>2. i < Len(s) /\ s[i + 1] = [packet |-> s[i].packet, part |-> 2]
      BY <1>7, <2>1, <3>1 DEF Whole
    <3>3. t[i + 1] = s[i + 1]  BY <1>4, <2>1, <3>2
    <3> QED  BY <1>4, <3>1, <3>2, <3>3
  <2>2. CASE i = Len(s) + 1
    <3>1. i + 1 = Len(s) + 2 /\ i < Len(t)  BY <1>4, <2>2
    <3> QED  BY <1>2, <1>4, <2>2, <3>1
  <2>3. i # Len(s) + 2  BY <1>2, <1>4, <1>7
  <2> QED  BY <1>5, <2>1, <2>2, <2>3
<1>8. ASSUME NEW i \in 1..Len(t), t[i].part = 2, i < Len(t) PROVE t[i + 1].part = 1
  <2>1. CASE i \in 1..Len(s)
    <3>1. s[i].part = 2 /\ i <= Len(s)  BY <1>4, <1>8, <2>1
    <3>2. CASE i < Len(s)
      <4>1. s[i + 1].part = 1  BY <2>1, <3>1, <3>2 DEF Whole
      <4> QED  BY <1>4, <2>1, <3>2, <4>1
    <3>3. CASE i = Len(s)  BY <1>2, <1>4, <3>3
    <3> QED  BY <1>4, <3>1, <3>2, <3>3
  <2>2. i # Len(s) + 1 /\ i # Len(s) + 2  BY <1>2, <1>4, <1>8
  <2> QED  BY <1>5, <2>1, <2>2
<1>9. Whole(t)  BY <1>6, <1>7, <1>8 DEF Whole
<1> QED  BY <1>3, <1>9 DEF t

\* What one packet carries.
What(p, kind) == IF p.kind = kind THEN <<p.msg>> ELSE <<>>

LEMMA CarriedBytes ==
  ASSUME NEW p \in Packet, NEW kind
  PROVE  What(p, kind) \in Seq(Nat) /\ Carried(Bytes(p), kind) = What(p, kind)
<1> DEFINE y == [packet |-> p, part |-> 1]
           z == [packet |-> p, part |-> 2]
           none == <<>>
<1>1. y \in Byte /\ z \in Byte /\ none \in Seq(Byte)  BY DEF Byte
<1>2. Append(none, y) \in Seq(Byte) /\ Bytes(p) = Append(Append(none, y), z)
  BY <1>1 DEF Bytes
<1>3. Carried(none, kind) = <<>>  BY CarriedEmpty
<1>4. With(<<>>, y, kind) = <<>>  BY DEF With
<1>5. With(<<>>, z, kind) = What(p, kind) /\ What(p, kind) \in Seq(Nat)
  <2>1. Append(<<>>, p.msg) = <<p.msg>>  OBVIOUS
  <2>2. p.msg \in Nat  BY <1>1, ByteType
  <2> QED  BY <2>1, <2>2 DEF With, What
<1> HIDE DEF y, z, none
<1>6. Carried(Append(none, y), kind) = With(Carried(none, kind), y, kind)
  BY <1>1, CarriedAppend
<1>7. Carried(Append(Append(none, y), z), kind) = With(Carried(Append(none, y), kind), z, kind)
  BY <1>1, <1>2, CarriedAppend
<1> QED  BY <1>2, <1>3, <1>4, <1>5, <1>6, <1>7

\* When the client takes its front packet, the stream loses just what that carries.
LEMMA StreamShrinks ==
  ASSUME NEW r \in Seq(Byte), NEW s \in Seq(Byte), Whole(r \o s), Len(r) >= 2
  PROVE  /\ FrontOf(r) \in Packet /\ Whole(Behind(r) \o s)
         /\ \A kind : Carried(r \o s, kind) =
                         What(FrontOf(r), kind) \o Carried(Behind(r) \o s, kind)
<1> DEFINE t == r \o s
<1>1. t \in Seq(Byte) /\ t # <<>> /\ t[1] = r[1]
  <2>1. t = Cat(r, s)  BY DEF Cat
  <2>2. Cat(r, s) \in Seq(Byte) /\ Joined(Cat(r, s), r, s)  BY CatAt
  <2>3. Len(Cat(r, s)) >= 2 /\ Cat(r, s)[1] = r[1]  BY <2>2 DEF Joined
  <2> HIDE DEF t
  <2> QED  BY <2>1, <2>2, <2>3
<1>2. Behind(t) = Behind(r) \o s
  <2>1. 2 \in 0..Len(r)  OBVIOUS
  <2>2. SubSeq(r \o s, 2 + 1, Len(r \o s)) = SubSeq(r, 2 + 1, Len(r)) \o s
    BY <2>1, CutConcat, Zenon
  <2> QED  BY <2>2 DEF Behind
<1>3. FrontOf(t) = FrontOf(r)  BY <1>1 DEF FrontOf
<1>4. Whole(t)  OBVIOUS
<1>5. /\ FrontOf(t) \in Packet /\ t = Bytes(FrontOf(t)) \o Behind(t)
      /\ Behind(t) \in Seq(Byte) /\ Whole(Behind(t))
  <2> HIDE DEF t
  <2> QED  BY <1>1, <1>4, WholeFront
<1>6. ASSUME NEW kind
      PROVE  Carried(t, kind) = What(FrontOf(t), kind) \o Carried(Behind(t), kind)
  <2> DEFINE p == FrontOf(t)
             c == Behind(t)
             a == Bytes(FrontOf(t))
  <2>1. a \in Seq(Byte) /\ Carried(a, kind) = What(p, kind)
    <3>1. <<>> \in Seq(Byte) /\ Whole(<<>>)  BY DEF Whole
    <3> QED  BY <1>5, <3>1, WholeGrows, CarriedBytes
  <2>2. c \in Seq(Byte) /\ t = a \o c  BY <1>5, Zenon
  <2> HIDE DEF t, p, c, a
  <2>3. Carried(a \o c, kind) = Carried(a, kind) \o Carried(c, kind)  BY <2>1, <2>2, CarriedConcat
  <2>4. Carried(t, kind) = What(p, kind) \o Carried(c, kind)  BY <2>1, <2>2, <2>3, Zenon
  <2> QED  BY <2>4, Zenon DEF p, c
<1>7. ASSUME NEW kind
      PROVE  Carried(r \o s, kind) = What(FrontOf(r), kind) \o Carried(Behind(r) \o s, kind)
  BY <1>2, <1>3, <1>6, Zenon
<1>8. FrontOf(r) \in Packet /\ Whole(Behind(r) \o s)  BY <1>2, <1>3, <1>5, Zenon
<1> QED  BY <1>7, <1>8, Zenon

\* When the broker sends a packet, the stream gains just what that carries.
LEMMA StreamGrows ==
  ASSUME NEW r \in Seq(Byte), NEW s \in Seq(Byte), Whole(r \o s), NEW p \in Packet
  PROVE  /\ Whole(r \o (s \o Bytes(p)))
         /\ \A kind : Carried(r \o (s \o Bytes(p)), kind) =
                         Carried(r \o s, kind) \o What(p, kind)
<1> DEFINE t == r \o s
           a == Bytes(p)
<1>1. t \in Seq(Byte) /\ Whole(t)  OBVIOUS
<1>2. a \in Seq(Byte) /\ Whole(t \o a)
  <2> HIDE DEF t
  <2> QED  BY <1>1, WholeGrows
<1>3. t \o a = r \o (s \o Bytes(p))
  <2> HIDE DEF a
  <2>1. (r \o s) \o a = r \o (s \o a)  BY <1>2, CatAssociative DEF Cat
  <2> QED  BY <2>1 DEF a
<1>4. ASSUME NEW kind PROVE Carried(t \o a, kind) = Carried(t, kind) \o What(p, kind)
  <2>1. Carried(a, kind) = What(p, kind)  BY CarriedBytes
  <2> HIDE DEF t, a
  <2>2. Carried(t \o a, kind) = Carried(t, kind) \o Carried(a, kind)
    BY <1>1, <1>2, CarriedConcat
  <2> QED  BY <2>1, <2>2, Zenon
<1> QED  BY <1>2, <1>3, <1>4, Zenon

----------------------------------------------------------------------------
(* The invariant.                                                          *)

LEMMA InitInv == Init => Inv
<1> SUFFICES ASSUME Init PROVE Inv  OBVIOUS
<1>1. TypeOK
  <2>1. conn \in BOOLEAN /\ waiting \in BOOLEAN /\ ended \in BOOLEAN  BY DEF Init
  <2> QED  BY <2>1, ConstantsAssumption DEF ConstantsAssumption, Init, TypeOK
<1>2. PhaseInv  BY DEF Init, PhaseInv, ConnMatchesState, NothingAfterEnd
<1>3. KeepInv  BY DEF Init, KeepInv
<1> QED  BY <1>1, <1>2, <1>3 DEF Inv

\* cleanup_connection makes the invariant hold whatever happens beside it.
LEMMA CleanupInv ==
  ASSUME Inv, Cleanup, ended' \in BOOLEAN, nextId' \in 1..(IdWrap - 1)
  PROVE  Inv'
<1> USE DEF Cleanup, Closed, NoAges
<1>1. TypeOK'
  <2>1. conn' \in BOOLEAN /\ waiting' \in BOOLEAN  OBVIOUS
  <2> QED  BY <2>1, ConstantsAssumption DEF ConstantsAssumption, Inv, TypeOK
<1>2. PhaseInv'  BY DEF PhaseInv, ConnMatchesState, NothingAfterEnd
<1>3. KeepInv'  BY DEF KeepInv
<1> QED  BY <1>1, <1>2, <1>3 DEF Inv

LEMMA NextIdType ==
  ASSUME nextId \in 1..(IdWrap - 1) PROVE NextId \in 1..(IdWrap - 1)
BY ConstantsAssumption DEF ConstantsAssumption, NextId

LEMMA ConnectInv == ASSUME Inv, Connect PROVE Inv'
<1> USE ConstantsAssumption
    DEF ConstantsAssumption, Inv, TypeOK, PhaseInv, ConnMatchesState, NothingAfterEnd, KeepInv,
        calls, timers, buffers, broker
<1>1. CASE ConnectUndialled  BY <1>1 DEF ConnectUndialled, Idle
<1>2. CASE ConnectUnsent
  <2> USE <1>2 DEF ConnectUnsent, Idle, Closed, NoAges
  <2>1. TypeOK'
    <3>1. conn' \in BOOLEAN /\ waiting' \in BOOLEAN /\ ended' \in BOOLEAN  OBVIOUS
    <3> QED  BY <3>1
  <2>2. PhaseInv'  OBVIOUS
  <2>3. KeepInv'  OBVIOUS
  <2> QED  BY <2>1, <2>2, <2>3
<1>3. CASE ConnectSent
  <2> USE <1>3 DEF ConnectSent, Idle
  <2>1. TypeOK'
    <3>1. conn' \in BOOLEAN /\ waiting' \in BOOLEAN /\ ended' \in BOOLEAN  OBVIOUS
    <3> QED  BY <3>1
  <2>2. PhaseInv'  OBVIOUS
  <2>3. KeepInv'  OBVIOUS
  <2> QED  BY <2>1, <2>2, <2>3
<1>4. CASE ConnectFails  BY <1>4, CleanupInv DEF ConnectFails
<1>5. ASSUME NEW n \in 0..MaxNet, ConnectWaits(n) PROVE Inv'
  <2>1. rx' \in Seq(Byte) /\ net' \in Seq(Byte)
    BY <1>5, FoundType, ArrivalsInNet DEF ConnectWaits
  <2> QED  BY <1>5, <2>1 DEF ConnectWaits
<1>6. ASSUME NEW n \in 0..MaxNet, ConnectRefused(n) PROVE Inv'
  BY <1>6, CleanupInv DEF ConnectRefused
<1>7. ASSUME NEW n \in 0..MaxNet, ConnectAccepted(n) PROVE Inv'
  <2>1. rx' \in Seq(Byte) /\ net' \in Seq(Byte)
    BY <1>7, FoundType, ArrivalsInNet, BehindType DEF ConnectAccepted
  <2>2. keepAlive > 0 => keepAlive \div 2 > 0
    OBVIOUS
  <2>3. KeepInv'  BY <1>7, <2>2 DEF ConnectAccepted, NoAges
  <2> QED  BY <1>7, <2>1, <2>3 DEF ConnectAccepted, NoAges
<1> QED  BY <1>1, <1>2, <1>3, <1>4, <1>5, <1>6, <1>7 DEF Connect

LEMMA PollInv == ASSUME Inv, Poll PROVE Inv'
<1> USE ConstantsAssumption
    DEF ConstantsAssumption, Inv, TypeOK, PhaseInv, ConnMatchesState, NothingAfterEnd, KeepInv,
        calls, timers, buffers, broker
<1>1. CASE PollFails  BY <1>1, CleanupInv DEF PollFails
<1>2. CASE PollFindsNothing  BY <1>2 DEF PollFindsNothing, Ready
<1>3. CASE PollFinds
  <2>1. rx' \in Seq(Byte) /\ net' \in Seq(Byte)
    BY <1>3, FoundType, ArrivalsInNet DEF PollFinds
  <2> QED  BY <1>3, <2>1 DEF PollFinds, Ready
<1>4. CASE ProcessNone  BY <1>4 DEF ProcessNone
<1>5. CASE ProcessPacket
  <2>1. rx' \in Seq(Byte)  BY <1>5, BehindType DEF ProcessPacket
  <2>2. FrontOf(rx) \in Packet  BY <1>5, FrontType DEF ProcessPacket
  <2>3. FrontOf(rx).kind = "publish" => FrontOf(rx).msg \in 1..MaxPubs
    BY <2>2 DEF Packet, AllKinds
  <2>4. incoming' \in Seq(1..MaxPubs)
    <3>1. CASE FrontOf(rx).kind = "publish"
      BY <1>5, <2>3, <3>1, AppendProperties DEF ProcessPacket
    <3>2. CASE FrontOf(rx).kind # "publish"  BY <1>5, <3>2 DEF ProcessPacket
    <3> QED  BY <3>1, <3>2
  <2> QED  BY <1>5, <2>1, <2>4 DEF ProcessPacket
<1>6. CASE ProcessFails  BY <1>6, CleanupInv DEF ProcessFails
<1>7. CASE KeepAliveRests
  <2>1. KeepInv'  BY <1>7 DEF KeepAliveRests, PingDue, TimedOut
  <2> QED  BY <1>7, <2>1 DEF KeepAliveRests
<1>8. CASE KeepAlivePings
  <2>1. KeepInv'  BY <1>8 DEF KeepAlivePings, PingDue, TimedOut
  <2> QED  BY <1>8, <2>1 DEF KeepAlivePings
<1>9. CASE KeepAliveUnsent  BY <1>9, CleanupInv DEF KeepAliveUnsent, SendFails
<1>10. CASE KeepAliveTimeout  BY <1>10, CleanupInv DEF KeepAliveTimeout
<1> QED
  BY <1>1, <1>2, <1>3, <1>4, <1>5, <1>6, <1>7, <1>8, <1>9, <1>10 DEF Poll

\* The other calls of the application.
LEMMA CallInv ==
  ASSUME Inv,
         \/ Publish \/ PublishUnsent \/ Subscribe \/ SubscribeUnsent \/ SubscribeUnencoded
         \/ Disconnect \/ NextMessage
  PROVE  Inv'
<1> USE ConstantsAssumption
    DEF ConstantsAssumption, Inv, TypeOK, PhaseInv, ConnMatchesState, NothingAfterEnd, KeepInv,
        calls, timers, buffers, broker
<1>1. keepAlive > 0 => keepAlive \div 2 > 0
  OBVIOUS
<1>2. CASE Publish  BY <1>1, <1>2 DEF Publish, Ready
<1>3. CASE PublishUnsent  BY <1>3, CleanupInv DEF PublishUnsent, SendFails
<1>4. CASE Subscribe  BY <1>1, <1>4, NextIdType DEF Subscribe, Ready
<1>5. CASE SubscribeUnsent
  BY <1>5, CleanupInv, NextIdType DEF SubscribeUnsent, SendFails
<1>6. CASE SubscribeUnencoded  BY <1>6, NextIdType DEF SubscribeUnencoded
<1>7. CASE Disconnect  BY <1>7, CleanupInv DEF Disconnect
<1>8. CASE NextMessage
  <2>1. Head(incoming) \in 1..MaxPubs /\ Tail(incoming) \in Seq(1..MaxPubs)
    BY <1>8, HeadTailProperties DEF NextMessage
  <2> QED  BY <1>8, <2>1 DEF NextMessage
<1> QED  BY <1>2, <1>3, <1>4, <1>5, <1>6, <1>7, <1>8

LEMMA EnvironmentInv ==
  ASSUME Inv, BrokerSends \/ BrokerPublishes \/ BrokerAnswers \/ BrokerCloses \/ Tick
  PROVE  Inv'
<1> USE ConstantsAssumption
    DEF ConstantsAssumption, Inv, TypeOK, PhaseInv, ConnMatchesState, NothingAfterEnd, KeepInv,
        calls, timers, buffers, broker
<1>1. ASSUME NEW p \in Packet, Sends(p), owed' \in Nat, pubs' \in 0..MaxPubs
      PROVE  Inv'
  <2>1. net' \in Seq(Byte)  BY <1>1, BytesType DEF Sends
  <2> QED  BY <1>1, <2>1 DEF Sends
<1>2. CASE BrokerSends
  <2>1. PICK kind \in Kinds : Sends(Plain(kind))  BY <1>2 DEF BrokerSends
  <2>2. Plain(kind) \in Packet  BY DEF Plain, Packet
  <2> QED  BY <1>1, <1>2, <2>1, <2>2 DEF BrokerSends
<1>3. CASE BrokerPublishes
  <2>1. [kind |-> "publish", msg |-> pubs + 1] \in Packet
    BY <1>3 DEF BrokerPublishes, Packet
  <2> QED  BY <1>1, <1>3, <2>1 DEF BrokerPublishes
<1>4. CASE BrokerAnswers
  <2>1. Plain("pingresp") \in Packet  BY DEF Plain, Packet
  <2> QED  BY <1>1, <1>4, <2>1 DEF BrokerAnswers
<1>5. CASE BrokerCloses  BY <1>5 DEF BrokerCloses
<1>6. CASE Tick
  <2>1. \A age \in 0..MaxAge : Older(age) \in 0..MaxAge /\ Older(age) <= age + 1
    BY DEF Older
  <2>2. sinceTx' <= sinceTx + 1 /\ sinceRx' <= sinceRx + 1 /\ gap' = gap + 1
    BY <1>6, <2>1 DEF Tick
  <2>3. keepAlive \div 2 \in Nat  OBVIOUS
  <2>4. KeepInv'
    <3>1. state' = state /\ pc' = pc /\ keepAlive' = keepAlive /\ waiting' = waiting
      BY <1>6 DEF Tick
    <3>2. sinceTx' \in Nat /\ sinceRx' \in Nat  BY <1>6, <2>1 DEF Tick
    <3> QED  BY <2>2, <2>3, <3>1, <3>2
  <2> QED  BY <1>6, <2>1, <2>4 DEF Tick, Ready
<1> QED  BY <1>2, <1>3, <1>4, <1>5, <1>6

LEMMA StepInv == Inv /\ [Next]_vars => Inv'
<1> SUFFICES ASSUME Inv, [Next]_vars PROVE Inv'  OBVIOUS
<1>1. CASE UNCHANGED vars
  BY <1>1
  DEF vars, calls, timers, buffers, broker, Inv, TypeOK, PhaseInv, ConnMatchesState,
      NothingAfterEnd, KeepInv
<1> QED  BY <1>1, ConnectInv, PollInv, CallInv, EnvironmentInv DEF Next

LEMMA SpecInv == Spec => []Inv
BY InitInv, StepInv, PTL DEF Spec

----------------------------------------------------------------------------
(* The messages and the answers in the stream.                             *)

LEMMA InitStream == Init => StreamInv
<1> SUFFICES ASSUME Init PROVE StreamInv  OBVIOUS
<1>1. <<>> \o <<>> = <<>> /\ Len(<<>>) = 0  OBVIOUS
<1>2. rx \o net = <<>>  BY <1>1 DEF Init
<1>3. Whole(rx \o net)  BY <1>2 DEF Whole
<1>4. Answers(rx \o net) = 0  BY <1>1, <1>2, CarriedEmpty DEF Answers
<1>5. PingBalance  BY <1>4 DEF Init, PingBalance
<1> QED  BY <1>3, <1>5 DEF Init, StreamInv, FreshInv, InOrder

\* A connection that is closed takes all that is left of its session with it.
LEMMA StreamEnds ==
  ASSUME StreamInv, conn' = FALSE, rx' = <<>>, incoming' = <<>>, waiting' = FALSE,
         Closed, taken' = taken
  PROVE  StreamInv'
<1> USE DEF Closed
<1>1. <<>> \o <<>> = <<>> /\ Len(<<>>) = 0  OBVIOUS
<1>2. (rx \o net)' = <<>>  BY <1>1
<1>3. Whole(rx \o net)'  BY <1>2 DEF Whole
<1>4. Answers(rx \o net)' = 0  BY <1>1, <1>2, CarriedEmpty DEF Answers
<1>5. PingBalance'  BY <1>4 DEF PingBalance
<1>6. InOrder' /\ FreshInv' /\ (taken <= pubs)'  BY DEF InOrder, FreshInv, StreamInv
<1> QED  BY <1>3, <1>5, <1>6 DEF StreamInv

LEMMA CleanupStream == ASSUME StreamInv, Cleanup PROVE StreamInv'
BY StreamEnds DEF Cleanup

\* Bytes that come in, and steps that do not touch them.
LEMMA StreamStays ==
  ASSUME StreamInv, rx' \o net' = rx \o net, FreshInv',
         UNCHANGED <<conn, incoming, taken, pubs, owed, waiting>>
  PROVE  StreamInv'
<1>1. (rx \o net)' = rx \o net  OBVIOUS
<1>2. Whole(rx \o net)' /\ (taken <= pubs)'  BY <1>1 DEF StreamInv
<1>3. InOrder'  BY <1>1 DEF StreamInv, InOrder
<1>4. PingBalance'  BY <1>1 DEF StreamInv, PingBalance
<1> QED  BY <1>2, <1>3, <1>4 DEF StreamInv

LEMMA NothingMoves ==
  ASSUME StreamInv, pc' # "connect" \/ pc = "connect", (link = "up")' => link = "up",
         UNCHANGED <<conn, rx, net, incoming, taken, pubs, owed, waiting>>
  PROVE  StreamInv'
BY StreamStays DEF FreshInv, StreamInv

LEMMA MessagesType ==
  ASSUME Inv
  PROVE  /\ rx \o net \in Seq(Byte) /\ incoming \in Seq(Nat) /\ taken \in Nat /\ pubs \in Nat
         /\ \A kind : Carried(rx \o net, kind) \in Seq(Nat)
         /\ Answers(rx \o net) \in Nat
<1>1. rx \in Seq(Byte) /\ net \in Seq(Byte)  BY DEF Inv, TypeOK
<1> DEFINE t == rx \o net
<1>2. t \in Seq(Byte)  BY <1>1
<1>3. \A kind : Carried(t, kind) \in Seq(Nat)
  <2> HIDE DEF t
  <2> QED  BY <1>2, CarriedType
<1>4. incoming \in Seq(Nat) /\ taken \in Nat /\ pubs \in Nat
  BY ConstantsAssumption DEF ConstantsAssumption, Inv, TypeOK
<1>5. Answers(t) \in Nat  BY <1>3 DEF Answers
<1> QED  BY <1>2, <1>3, <1>4, <1>5

\* The client takes its front packet and does with it what process_rx_buffer does.
LEMMA PacketHandled ==
  ASSUME Inv, StreamInv, NEW r \in Seq(Byte), NEW s \in Seq(Byte), r \o s = rx \o net,
         Complete(r), rx' = Behind(r), net' = s, conn, FreshInv',
         incoming' = IF FrontOf(r).kind = "publish" THEN Append(incoming, FrontOf(r).msg)
                                                    ELSE incoming,
         waiting' = (waiting /\ FrontOf(r).kind # "pingresp"),
         UNCHANGED <<taken, pubs, owed>>
  PROVE  StreamInv'
<1> DEFINE p == FrontOf(r)
           t == rx \o net
           u == Behind(r) \o s
<1>1. /\ p \in Packet /\ Whole(u)
      /\ \A kind : Carried(t, kind) = What(p, kind) \o Carried(u, kind)
  <2>1. Whole(r \o s) /\ Len(r) >= 2  BY DEF StreamInv, Complete
  <2>2. /\ FrontOf(r) \in Packet /\ Whole(Behind(r) \o s)
        /\ \A kind : Carried(r \o s, kind) =
                        What(FrontOf(r), kind) \o Carried(Behind(r) \o s, kind)
    BY <2>1, StreamShrinks
  <2> QED  BY <2>2
<1>2. u \in Seq(Byte) /\ p.msg \in Nat
  <2>1. Behind(r) \in Seq(Byte)  BY BehindType
  <2>2. [packet |-> p, part |-> 1] \in Byte  BY <1>1 DEF Byte
  <2>3. u \in Seq(Byte)  BY <2>1
  <2> QED  BY <2>2, <2>3, ByteType
<1>3. (rx \o net)' = u  OBVIOUS
<1> HIDE DEF u, t
<1>4. InOrder'
  <2> DEFINE C == Carried(t, "publish")
             D == Carried(u, "publish")
             m == p.msg
  <2>1. C \in Seq(Nat) /\ incoming \in Seq(Nat) /\ D \in Seq(Nat) /\ m \in Nat
    BY <1>2, MessagesType, CarriedType DEF t
  <2>2. C = What(p, "publish") \o D  BY <1>1
  <2>3. incoming \o C = Numbers(taken, pubs)
    BY DEF StreamInv, InOrder, Messages, Numbers, t
  <2>4. incoming' \o D = incoming \o C
    <3>1. CASE p.kind = "publish"
      <4>1. C = <<m>> \o D  BY <2>2, <3>1 DEF What
      <4>2. incoming' = Append(incoming, m)  BY <3>1
      <4> HIDE DEF C, D, m
      <4>3. \A h, d \in Seq(Nat) : \A x \in Nat : Append(h, x) \o d = h \o (<<x>> \o d)
        BY ShiftBack
      <4>4. Append(incoming, m) \o D = incoming \o (<<m>> \o D)  BY <2>1, <4>3, Zenon
      <4> QED  BY <4>1, <4>2, <4>4, Zenon
    <3>2. CASE p.kind # "publish"
      <4>1. C = <<>> \o D  BY <2>2, <3>2 DEF What
      <4>2. incoming' = incoming  BY <3>2
      <4> HIDE DEF C, D, m
      <4>3. C = D  BY <2>1, <4>1, ConcatEmptySeq
      <4> QED  BY <4>2, <4>3
    <3> QED  BY <3>1, <3>2
  <2>5. incoming' \o D = [i \in 1..(pubs - taken) |-> taken + i]
    BY <2>3, <2>4, Zenon DEF Numbers
  <2> QED  BY <1>3, <2>5 DEF InOrder, Messages
<1>5. PingBalance'
  <2> DEFINE C == Carried(t, "pingresp")
             D == Carried(u, "pingresp")
  <2>1. C \in Seq(Nat) /\ D \in Seq(Nat) /\ owed \in Nat /\ waiting \in BOOLEAN
    BY <1>2, MessagesType, CarriedType DEF t, Inv, TypeOK
  <2>2. C = What(p, "pingresp") \o D  BY <1>1
  <2>3. owed + Len(C) = IF waiting THEN 1 ELSE 0
    BY DEF StreamInv, PingBalance, Answers, t
  <2>4. owed + Len(D) = IF waiting' THEN 1 ELSE 0
    <3>1. CASE p.kind = "pingresp"
      <4>1. C = <<p.msg>> \o D  BY <2>2, <3>1 DEF What
      <4>2. waiting' = FALSE  BY <3>1, Zenon
      <4> HIDE DEF C, D, p
      <4>3. Len(<<p.msg>> \o D) = 1 + Len(D)  BY <2>1
      <4>4. Len(C) = 1 + Len(D) /\ Len(D) \in Nat  BY <2>1, <4>1, <4>3
      <4>5. owed + Len(D) = 0  BY <2>1, <2>3, <4>4
      <4> QED  BY <4>2, <4>5, Zenon
    <3>2. CASE p.kind # "pingresp"
      <4>1. C = <<>> \o D  BY <2>2, <3>2 DEF What
      <4>2. waiting' = waiting  BY <2>1, <3>2
      <4> HIDE DEF C, D, p
      <4>3. C = D  BY <2>1, <4>1, ConcatEmptySeq
      <4> QED  BY <2>3, <4>2, <4>3
    <3> QED  BY <3>1, <3>2
  <2> QED  BY <1>3, <2>4 DEF PingBalance, Answers
<1>6. Whole(rx \o net)' /\ (taken <= pubs)'  BY <1>1, <1>3 DEF StreamInv
<1> QED  BY <1>4, <1>5, <1>6 DEF StreamInv

LEMMA ConnectStream == ASSUME Inv, StreamInv, Connect PROVE StreamInv'
<1> USE DEF calls, timers, buffers, broker
<1>1. rx \in Seq(Byte) /\ net \in Seq(Byte) /\ ConnMatchesState
  BY DEF Inv, TypeOK, PhaseInv
<1>2. CASE ConnectUndialled  BY <1>2, NothingMoves DEF ConnectUndialled, Idle
<1>3. CASE ConnectUnsent  BY <1>3, StreamEnds DEF ConnectUnsent
<1>4. CASE ConnectSent
  <2>1. ~conn  BY <1>1, <1>4 DEF ConnectSent, Idle, ConnMatchesState
  <2>2. net = <<>> /\ incoming = <<>> /\ owed = 0 /\ ~waiting
    BY <2>1 DEF StreamInv, FreshInv
  <2>3. <<>> \o <<>> = <<>> /\ Len(<<>>) = 0  OBVIOUS
  <2>4. (rx \o net)' = <<>>  BY <1>4, <2>2, <2>3 DEF ConnectSent
  <2>5. Whole(rx \o net)'  BY <2>4 DEF Whole
  <2>6. Answers(rx \o net)' = 0  BY <2>3, <2>4, CarriedEmpty DEF Answers
  <2>7. PingBalance'  BY <1>4, <2>2, <2>6 DEF ConnectSent, PingBalance
  <2>8. InOrder'
    <3>1. Numbers(pubs, pubs) = <<>>
      <4>1. \A a \in Nat : a <= a  OBVIOUS
      <4>2. \A a \in Nat : Numbers(a, a) = <<>>  BY <4>1, NumbersGrow
      <4> QED  BY <4>2, MessagesType
    <3>2. incoming' = <<>> /\ taken' = pubs /\ pubs' = pubs  BY <1>4, <2>2 DEF ConnectSent
    <3>3. Messages(rx \o net)' = <<>>  BY <2>4, CarriedEmpty DEF Messages
    <3>4. incoming' \o Messages(rx \o net)' = Numbers(pubs, pubs)  BY <2>3, <3>1, <3>2, <3>3
    <3> QED  BY <3>2, <3>4 DEF InOrder, Numbers
  <2>9. FreshInv' /\ (taken <= pubs)'
    BY <1>4, <2>2, MessagesType DEF ConnectSent, FreshInv
  <2> QED  BY <2>5, <2>7, <2>8, <2>9 DEF StreamInv
<1>5. CASE ConnectFails  BY <1>5, CleanupStream DEF ConnectFails
<1>6. ASSUME NEW n \in 0..MaxNet, ConnectWaits(n) PROVE StreamInv'
  <2>1. n \in 0..Len(net)  BY <1>1, <1>6, ArrivalsInNet DEF ConnectWaits
  <2>2. Found(n) \o Left(n) = rx \o net  BY <1>1, <2>1, FoundStream
  <2>3. FreshInv'  BY <1>1, <1>6 DEF ConnectWaits, StreamInv, FreshInv, ConnMatchesState
  <2> QED  BY <1>6, <2>2, <2>3, StreamStays DEF ConnectWaits
<1>7. ASSUME NEW n \in 0..MaxNet, ConnectRefused(n) PROVE StreamInv'
  BY <1>7, CleanupStream DEF ConnectRefused
<1>8. ASSUME NEW n \in 0..MaxNet, ConnectAccepted(n) PROVE StreamInv'
  <2>1. n \in 0..Len(net)  BY <1>1, <1>8, ArrivalsInNet DEF ConnectAccepted
  <2>2. Found(n) \o Left(n) = rx \o net  BY <1>1, <2>1, FoundStream
  <2>3. Found(n) \in Seq(Byte) /\ Left(n) \in Seq(Byte)  BY <1>1, <2>1, FoundType
  <2>4. conn  BY <1>1, <1>8 DEF ConnectAccepted, ConnMatchesState
  <2>5. FreshInv'  BY <1>8, <2>4 DEF ConnectAccepted, StreamInv, FreshInv
  <2>6. waiting' = (waiting /\ FrontOf(Found(n)).kind # "pingresp")
    BY <1>8 DEF ConnectAccepted, Inv, TypeOK
  <2>7. incoming' = IF FrontOf(Found(n)).kind = "publish"
                    THEN Append(incoming, FrontOf(Found(n)).msg) ELSE incoming
    BY <1>8 DEF ConnectAccepted
  <2> QED  BY <1>8, <2>2, <2>3, <2>4, <2>5, <2>6, <2>7, PacketHandled DEF ConnectAccepted
<1> QED  BY <1>2, <1>3, <1>4, <1>5, <1>6, <1>7, <1>8 DEF Connect

LEMMA PollStream == ASSUME Inv, StreamInv, Poll PROVE StreamInv'
<1> USE DEF calls, timers, buffers, broker
<1>1. rx \in Seq(Byte) /\ net \in Seq(Byte) /\ ConnMatchesState
  BY DEF Inv, TypeOK, PhaseInv
<1>2. CASE PollFails  BY <1>2, CleanupStream DEF PollFails
<1>3. CASE PollFindsNothing  BY <1>3, NothingMoves DEF PollFindsNothing
<1>4. CASE PollFinds
  <2>1. PICK n \in Arrivals \ {0} : rx' = Found(n) /\ net' = Left(n)  BY <1>4 DEF PollFinds
  <2>2. n \in 0..Len(net)  BY <1>1, <2>1, ArrivalsInNet
  <2>3. Found(n) \o Left(n) = rx \o net  BY <1>1, <2>2, FoundStream
  <2>4. conn  BY <1>1, <1>4 DEF PollFinds, Ready, ConnMatchesState
  <2>5. FreshInv'  BY <1>4, <2>4 DEF PollFinds, StreamInv, FreshInv
  <2> QED  BY <1>4, <2>1, <2>3, <2>5, StreamStays DEF PollFinds
<1>5. CASE ProcessNone  BY <1>5, NothingMoves DEF ProcessNone
<1>6. CASE ProcessPacket
  <2>1. conn  BY <1>1, <1>6 DEF ProcessPacket, Inv, PhaseInv, ConnMatchesState
  <2>2. FreshInv'  BY <1>6, <2>1 DEF ProcessPacket, FreshInv
  <2> QED  BY <1>1, <1>6, <2>1, <2>2, PacketHandled DEF ProcessPacket
<1>7. CASE ProcessFails  BY <1>7, CleanupStream DEF ProcessFails
<1>8. CASE KeepAliveRests  BY <1>8, NothingMoves DEF KeepAliveRests
<1>9. CASE KeepAlivePings
  <2>1. conn  BY <1>1, <1>9 DEF KeepAlivePings, Inv, PhaseInv, ConnMatchesState
  <2>2. FreshInv'  BY <1>9, <2>1 DEF KeepAlivePings, FreshInv
  <2>3. (rx \o net)' = rx \o net /\ UNCHANGED <<conn, incoming, taken, pubs>>
    BY <1>9 DEF KeepAlivePings
  <2>4. Whole(rx \o net)' /\ (taken <= pubs)' /\ InOrder'
    BY <2>3 DEF StreamInv, InOrder
  <2>5. PingBalance'
    <3>1. owed + Answers(rx \o net) = 0
      BY <1>9 DEF KeepAlivePings, PingDue, StreamInv, PingBalance
    <3>2. owed' + Answers(rx \o net)' = 1
      BY <1>9, <2>3, <3>1, MessagesType DEF KeepAlivePings, Inv, TypeOK
    <3>3. waiting' = TRUE  BY <1>9 DEF KeepAlivePings
    <3> QED  BY <3>2, <3>3, Zenon DEF PingBalance
  <2> QED  BY <2>2, <2>4, <2>5 DEF StreamInv
<1>10. CASE KeepAliveUnsent  BY <1>10, CleanupStream DEF KeepAliveUnsent, SendFails
<1>11. CASE KeepAliveTimeout  BY <1>11, CleanupStream DEF KeepAliveTimeout
<1> QED
  BY <1>2, <1>3, <1>4, <1>5, <1>6, <1>7, <1>8, <1>9, <1>10, <1>11 DEF Poll

\* The application takes the next message of the session.
LEMMA TakesNext ==
  ASSUME Inv, StreamInv, NextMessage
  PROVE  conn /\ taken' = taken + 1 /\ taken < pubs /\ StreamInv'
<1> USE DEF calls, timers, buffers, broker
<1>1. conn  BY DEF NextMessage, StreamInv, FreshInv
<1> DEFINE t == rx \o net
           C == Carried(t, "publish")
           x == Head(incoming)
           q == Tail(incoming)
<1>2. /\ C \in Seq(Nat) /\ incoming \in Seq(Nat) /\ incoming # <<>>
      /\ taken \in Nat /\ pubs \in Nat /\ taken <= pubs
  BY MessagesType DEF NextMessage, StreamInv
<1>3. x \in Nat /\ q \in Seq(Nat) /\ incoming = <<x>> \o q  BY <1>2
<1>4. incoming \o C = Numbers(taken, pubs)
  BY <1>1 DEF StreamInv, InOrder, Messages, Numbers
<1>5. taken' = x /\ incoming' = q /\ (rx \o net)' = t  BY DEF NextMessage
<1> HIDE DEF C, x, q, t
<1>6. /\ q \o C \in Seq(Nat)
      /\ incoming \o C = <<x>> \o (q \o C)
  <2>1. \A h, d \in Seq(Nat) : \A e \in Nat :
          h \o d \in Seq(Nat) /\ (<<e>> \o h) \o d = <<e>> \o (h \o d)
    OBVIOUS
  <2>2. q \o C \in Seq(Nat) /\ (<<x>> \o q) \o C = <<x>> \o (q \o C)
    BY <1>2, <1>3, <2>1, Zenon
  <2> QED  BY <1>3, <2>2, Zenon
<1>7. taken < pubs /\ x = taken + 1 /\ q \o C = Numbers(taken + 1, pubs)
  <2> DEFINE d == q \o C
  <2>1. d \in Seq(Nat) /\ <<x>> \o d = Numbers(taken, pubs)  BY <1>4, <1>6, Zenon
  <2> HIDE DEF d
  <2>2. taken < pubs /\ x = taken + 1 /\ d = Numbers(taken + 1, pubs)
    BY <1>2, <1>3, <2>1, NumbersShrink
  <2> QED  BY <2>2, Zenon DEF d
<1>8. pubs' = pubs /\ conn' = conn  BY DEF NextMessage
<1>9. InOrder'
  <2>1. incoming' \o Messages(rx \o net)' = Numbers(taken', pubs')
    BY <1>5, <1>7, <1>8, Zenon DEF Messages, C
  <2> QED  BY <2>1 DEF InOrder, Numbers
<1>10. Whole(rx \o net)' /\ PingBalance' /\ FreshInv' /\ (taken <= pubs)'
  <2>1. Whole(rx \o net)'  BY <1>5 DEF StreamInv, t
  <2>2. PingBalance'  BY <1>5 DEF NextMessage, StreamInv, PingBalance, t
  <2>3. FreshInv'  BY <1>1 DEF NextMessage, FreshInv, StreamInv
  <2> QED  BY <1>2, <1>5, <1>7, <1>8, <2>1, <2>2, <2>3
<1> QED  BY <1>1, <1>5, <1>7, <1>9, <1>10 DEF StreamInv

LEMMA CallStream ==
  ASSUME Inv, StreamInv,
         \/ Publish \/ PublishUnsent \/ Subscribe \/ SubscribeUnsent \/ SubscribeUnencoded
         \/ Disconnect \/ NextMessage
  PROVE  StreamInv'
<1> USE DEF calls, timers, buffers, broker
<1>1. CASE Publish  BY <1>1, NothingMoves DEF Publish
<1>2. CASE PublishUnsent  BY <1>2, CleanupStream DEF PublishUnsent, SendFails
<1>3. CASE Subscribe  BY <1>3, NothingMoves DEF Subscribe
<1>4. CASE SubscribeUnsent  BY <1>4, CleanupStream DEF SubscribeUnsent, SendFails
<1>5. CASE SubscribeUnencoded  BY <1>5, NothingMoves DEF SubscribeUnencoded
<1>6. CASE Disconnect  BY <1>6, CleanupStream DEF Disconnect
<1>7. CASE NextMessage  BY <1>7, TakesNext
<1> QED  BY <1>1, <1>2, <1>3, <1>4, <1>5, <1>6, <1>7

\* The broker adds a packet, and counts a message or an answer if that is one.
LEMMA SendsStream ==
  ASSUME Inv, StreamInv, NEW p \in Packet, Sends(p),
         IF p.kind = "publish" THEN p.msg = pubs + 1 /\ pubs' = pubs + 1 ELSE pubs' = pubs,
         IF p.kind = "pingresp" THEN owed > 0 /\ owed' = owed - 1 ELSE owed' = owed
  PROVE  StreamInv'
<1> USE DEF calls, timers, buffers, broker
<1> DEFINE t == rx \o net
           u == rx \o (net \o Bytes(p))
<1>1. conn  BY DEF Sends, StreamInv, FreshInv
<1>2. rx \in Seq(Byte) /\ net \in Seq(Byte) /\ owed \in Nat  BY DEF Inv, TypeOK
<1>3. /\ Whole(u)
      /\ \A kind : Carried(u, kind) = Carried(t, kind) \o What(p, kind)
  <2>1. Whole(rx \o net)  BY DEF StreamInv
  <2>2. ASSUME NEW r \in Seq(Byte), NEW s \in Seq(Byte), Whole(r \o s)
        PROVE  /\ Whole(r \o (s \o Bytes(p)))
               /\ \A kind : Carried(r \o (s \o Bytes(p)), kind) =
                               Carried(r \o s, kind) \o What(p, kind)
    BY <2>2, StreamGrows
  <2> QED  BY <1>2, <2>1, <2>2, Zenon
<1>4. (rx \o net)' = u  BY DEF Sends
<1>5. t \in Seq(Byte) /\ pubs \in Nat /\ taken \in Nat /\ taken <= pubs /\ incoming \in Seq(Nat)
  BY MessagesType DEF StreamInv
<1> HIDE DEF t, u
<1>6. InOrder'
  <2> DEFINE C == Carried(t, "publish")
  <2>1. C \in Seq(Nat)  BY <1>5, CarriedType
  <2>2. incoming \o C = Numbers(taken, pubs)
    BY <1>1 DEF StreamInv, InOrder, Messages, Numbers, t
  <2>3. incoming' = incoming /\ taken' = taken  BY DEF Sends
  <2>4. incoming \o Carried(u, "publish") = Numbers(taken, pubs')
    <3>1. CASE p.kind = "publish"
      <4>1. What(p, "publish") = <<pubs + 1>> /\ pubs' = pubs + 1  BY <3>1 DEF What
      <4>2. Carried(u, "publish") = C \o <<pubs + 1>>  BY <1>3, <4>1, Zenon
      <4>3. \A h, d \in Seq(Nat) : \A e \in Nat :
              h \o (d \o <<e>>) = Append(h \o d, e)
        <5> TAKE h \in Seq(Nat), d \in Seq(Nat)
        <5> TAKE e \in Nat
        <5>1. d \o <<e>> = Append(d, e)  OBVIOUS
        <5> QED  BY <5>1, GrowEnd
      <4> HIDE DEF C
      <4>4. pubs + 1 \in Nat  BY <1>5
      <4>5. incoming \o (C \o <<pubs + 1>>) = Append(incoming \o C, pubs + 1)
        BY <1>5, <2>1, <4>3, <4>4, Zenon
      <4>6. Append(Numbers(taken, pubs), pubs + 1) = Numbers(taken, pubs + 1)
        BY <1>5, NumbersGrow
      <4> QED  BY <2>2, <4>1, <4>2, <4>5, <4>6, Zenon
    <3>2. CASE p.kind # "publish"
      <4>1. What(p, "publish") = <<>> /\ pubs' = pubs  BY <3>2 DEF What
      <4>2. Carried(u, "publish") = C \o <<>>  BY <1>3, <4>1, Zenon
      <4> HIDE DEF C
      <4>3. C \o <<>> = C  BY <2>1
      <4> QED  BY <2>2, <4>1, <4>2, <4>3, Zenon
    <3> QED  BY <3>1, <3>2
  <2> QED  BY <1>4, <2>3, <2>4 DEF InOrder, Messages, Numbers
<1>7. PingBalance'
  <2> DEFINE C == Carried(t, "pingresp")
  <2>1. C \in Seq(Nat)  BY <1>5, CarriedType
  <2>2. owed + Len(C) = IF waiting THEN 1 ELSE 0
    BY DEF StreamInv, PingBalance, Answers, t
  <2>3. owed' + Len(Carried(u, "pingresp")) = owed + Len(C)
    <3>1. CASE p.kind = "pingresp"
      <4>1. What(p, "pingresp") = <<p.msg>> /\ owed' = owed - 1  BY <3>1 DEF What
      <4>2. Carried(u, "pingresp") = C \o <<p.msg>>  BY <1>3, <4>1, Zenon
      <4> DEFINE m == p.msg
      <4> HIDE DEF C, m
      <4>3. Len(C \o <<m>>) = Len(C) + 1 /\ Len(C) \in Nat  BY <2>1
      <4>4. Len(Carried(u, "pingresp")) = Len(C) + 1  BY <4>2, <4>3, Zenon DEF m
      <4> QED  BY <1>2, <4>1, <4>3, <4>4
    <3>2. CASE p.kind # "pingresp"
      <4>1. What(p, "pingresp") = <<>> /\ owed' = owed  BY <3>2 DEF What
      <4>2. Carried(u, "pingresp") = C \o <<>>  BY <1>3, <4>1, Zenon
      <4> HIDE DEF C
      <4>3. C \o <<>> = C  BY <2>1
      <4> QED  BY <4>1, <4>2, <4>3, Zenon
    <3> QED  BY <3>1, <3>2
  <2>4. waiting' = waiting  BY DEF Sends
  <2> QED  BY <1>4, <2>2, <2>3, <2>4 DEF PingBalance, Answers
<1>8. FreshInv'  BY <1>1 DEF Sends, StreamInv, FreshInv
<1>9. Whole(rx \o net)' /\ (taken <= pubs)'
  <2>1. pubs' = pubs \/ pubs' = pubs + 1  OBVIOUS
  <2>2. taken' = taken  BY DEF Sends
  <2> QED  BY <1>3, <1>4, <1>5, <2>1, <2>2
<1> QED  BY <1>6, <1>7, <1>8, <1>9 DEF StreamInv

LEMMA EnvironmentStream ==
  ASSUME Inv, StreamInv, BrokerSends \/ BrokerPublishes \/ BrokerAnswers \/ BrokerCloses \/ Tick
  PROVE  StreamInv'
<1> USE DEF calls, timers, buffers, broker
<1>1. CASE BrokerSends
  <2>1. PICK kind \in Kinds : Sends(Plain(kind))  BY <1>1 DEF BrokerSends
  <2>2. kind \in AllKinds /\ kind # "publish" /\ kind # "pingresp"
    BY ConstantsAssumption DEF ConstantsAssumption, AllKinds
  <2>3. Plain(kind) \in Packet /\ Plain(kind).kind = kind  BY <2>2 DEF Plain, Packet
  <2> QED  BY <1>1, <2>1, <2>2, <2>3, SendsStream DEF BrokerSends
<1>2. CASE BrokerPublishes
  <2> DEFINE p == [kind |-> "publish", msg |-> pubs + 1]
  <2>1. p \in Packet /\ p.kind = "publish" /\ p.msg = pubs + 1
    <3>1. pubs + 1 \in 1..MaxPubs
      BY <1>2, ConstantsAssumption DEF ConstantsAssumption, BrokerPublishes, Inv, TypeOK
    <3> QED  BY <3>1 DEF Packet
  <2>2. Sends(p) /\ pubs' = pubs + 1 /\ owed' = owed  BY <1>2 DEF BrokerPublishes
  <2> HIDE DEF p
  <2> QED  BY <2>1, <2>2, SendsStream
<1>3. CASE BrokerAnswers
  <2>1. Plain("pingresp") \in Packet /\ Plain("pingresp").kind = "pingresp"
    BY DEF Plain, Packet
  <2> QED  BY <1>3, <2>1, SendsStream DEF BrokerAnswers
<1>4. CASE BrokerCloses  BY <1>4, NothingMoves DEF BrokerCloses
<1>5. CASE Tick  BY <1>5, NothingMoves DEF Tick
<1> QED  BY <1>1, <1>2, <1>3, <1>4, <1>5

LEMMA StepStream == Inv /\ StreamInv /\ [Next]_vars => StreamInv'
<1> SUFFICES ASSUME Inv, StreamInv, [Next]_vars PROVE StreamInv'  OBVIOUS
<1>1. CASE UNCHANGED vars  BY <1>1, NothingMoves DEF vars, calls, timers, buffers, broker
<1> QED  BY <1>1, ConnectStream, PollStream, CallStream, EnvironmentStream DEF Next

LEMMA SpecStream == Spec => []StreamInv
BY SpecInv, InitStream, StepStream, PTL DEF Spec

----------------------------------------------------------------------------
(* MqttClient implements MqttSession.                                      *)

\* What the session does at a step that cleans up.
LEMMA CleanupEnds == ASSUME Cleanup PROVE Session!Next
BY DEF Cleanup, Closed, Session!Next, Session!End

LEMMA SessionStep ==
  ASSUME Inv, StreamInv, [Next]_vars PROVE [Session!Next]_(Session!vars)
<1> USE DEF calls, timers, buffers, broker, Session!vars
<1>1. CASE UNCHANGED vars  BY <1>1 DEF vars
<1>2. CASE Connect
  <2>1. CASE ConnectUndialled  BY <2>1 DEF ConnectUndialled
  <2>2. CASE ConnectUnsent
    BY <2>2 DEF ConnectUnsent, Closed, Session!Next, Session!End
  <2>3. CASE ConnectSent
    <3>1. ~conn  BY <2>3 DEF ConnectSent, Idle, ConnMatchesState, Inv, PhaseInv
    <3> QED  BY <2>3, <3>1 DEF ConnectSent, Session!Next, Session!Open
  <2>4. CASE ConnectFails  BY <2>4, CleanupEnds DEF ConnectFails
  <2>5. ASSUME NEW n \in 0..MaxNet, ConnectWaits(n) PROVE [Session!Next]_(Session!vars)
    BY <2>5 DEF ConnectWaits
  <2>6. ASSUME NEW n \in 0..MaxNet, ConnectRefused(n) PROVE [Session!Next]_(Session!vars)
    BY <2>6, CleanupEnds DEF ConnectRefused
  <2>7. ASSUME NEW n \in 0..MaxNet, ConnectAccepted(n) PROVE [Session!Next]_(Session!vars)
    BY <2>7 DEF ConnectAccepted
  <2> QED  BY <1>2, <2>1, <2>2, <2>3, <2>4, <2>5, <2>6, <2>7 DEF Connect
<1>3. CASE Poll
  <2>1. CASE PollFails \/ ProcessFails \/ KeepAliveUnsent \/ KeepAliveTimeout
    BY <2>1, CleanupEnds
    DEF PollFails, ProcessFails, KeepAliveUnsent, SendFails, KeepAliveTimeout
  <2>2. CASE PollFindsNothing \/ PollFinds \/ ProcessNone \/ ProcessPacket
    BY <2>2 DEF PollFindsNothing, PollFinds, ProcessNone, ProcessPacket
  <2>3. CASE KeepAliveRests \/ KeepAlivePings
    BY <2>3 DEF KeepAliveRests, KeepAlivePings
  <2> QED  BY <1>3, <2>1, <2>2, <2>3 DEF Poll
<1>4. CASE PublishUnsent \/ SubscribeUnsent \/ Disconnect
  BY <1>4, CleanupEnds DEF PublishUnsent, SubscribeUnsent, SendFails, Disconnect
<1>5. CASE Publish \/ Subscribe \/ SubscribeUnencoded
  BY <1>5 DEF Publish, Subscribe, SubscribeUnencoded
<1>6. CASE NextMessage
  <2>1. conn /\ taken' = taken + 1 /\ taken < pubs  BY <1>6, TakesNext
  <2> QED  BY <1>6, <2>1 DEF NextMessage, Session!Next, Session!Take
<1>7. CASE BrokerPublishes
  <2>1. conn  BY <1>7 DEF BrokerPublishes, Sends, StreamInv, FreshInv
  <2> QED  BY <1>7, <2>1 DEF BrokerPublishes, Sends, Session!Next, Session!Publish
<1>8. CASE BrokerSends \/ BrokerAnswers \/ BrokerCloses \/ Tick
  BY <1>8 DEF BrokerSends, BrokerAnswers, BrokerCloses, Sends, Tick
<1> QED  BY <1>1, <1>2, <1>3, <1>4, <1>5, <1>6, <1>7, <1>8 DEF Next

----------------------------------------------------------------------------
(* What follows.                                                           *)

\* The fields have their types; no packet identifier is 0.
THEOREM TypeCorrect == Spec => []TypeOK
<1>1. Inv => TypeOK  BY DEF Inv
<1> QED  BY <1>1, SpecInv, PTL

\* A call that uses conn has one, and a client that is not connected has none, also
\* when cleanup_connection runs in the middle of a call.
THEOREM ConnectionMatchesState == Spec => []ConnMatchesState
<1>1. Inv => ConnMatchesState  BY DEF Inv, PhaseInv
<1> QED  BY <1>1, SpecInv, PTL

\* Nothing is sent behind a packet that was cut off or behind a DISCONNECT.
THEOREM NothingSentAfterEnd == Spec => []NothingAfterEnd
<1>1. Inv => NothingAfterEnd  BY DEF Inv, PhaseInv
<1> QED  BY <1>1, SpecInv, PTL

\* The broker never waits too long for a packet, and is given up in time if it
\* does not answer, for every keep-alive and every gap between polls.
THEOREM KeepAliveHolds == Spec => []KeptAlive
<1>1. Inv => KeptAlive
  BY ConstantsAssumption
  DEF ConstantsAssumption, Inv, TypeOK, KeepInv, KeptAlive, Ready
<1> QED  BY <1>1, SpecInv, PTL

\* The queue of messages, the receive buffer and the connection hold together what
\* the application has not taken of its session, once, in order and nothing else,
\* for every way the stream is cut into portions.
THEOREM MessagesInOrder == Spec => []InOrder
<1>1. StreamInv => InOrder  BY DEF StreamInv
<1> QED  BY <1>1, SpecStream, PTL

\* At most one PINGREQ is under way, and waiting_for_pingresp says whether.
THEOREM PingsBalanced == Spec => []PingBalance
<1>1. StreamInv => PingBalance  BY DEF StreamInv
<1> QED  BY <1>1, SpecStream, PTL

\* The client is a mailbox of its session: next_message returns the messages of the
\* session one by one, whatever the network, the broker and the application do.
THEOREM ImplementsSession == Spec => SessionSpec
<1>1. Init => Session!Init  BY DEF Init, Session!Init
<1>2. Inv /\ StreamInv /\ [Next]_vars => [Session!Next]_(Session!vars)  BY SessionStep
<1> QED  BY <1>1, <1>2, SpecInv, SpecStream, PTL DEF Spec, SessionSpec, Session!Spec
=============================================================================
