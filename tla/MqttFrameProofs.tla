--------------------------- MODULE MqttFrameProofs ----------------------------
(***************************************************************************)
(* Proofs about MqttFrame: whatever message MqttEncoder writes MqttParser  *)
(* reads, and what MqttParser reads MqttEncoder writes; the two readers of *)
(* the length agree on every buffer, and the messages come out of the      *)
(* stream as they were sent, for every base, every packet a broker may     *)
(* send and every way to cut them.                                         *)
(***************************************************************************)
EXTENDS MqttFrame, SequenceLemmas

USE CodecAssumption DEF TooMany

Buffer == Seq(Nat)

----------------------------------------------------------------------------
(* The loops over the length.                                              *)

\* The first byte of the length that is its last one: 5 stands for none of the first
\* four, missing for one that the buffer does not hold.
LastByte(b, missing) ==
  IF Len(b) <= 1 THEN missing
  ELSE IF b[2] < Half THEN 1
  ELSE IF Len(b) <= 2 THEN missing
  ELSE IF b[3] < Half THEN 2
  ELSE IF Len(b) <= 3 THEN missing
  ELSE IF b[4] < Half THEN 3
  ELSE IF Len(b) <= 4 THEN missing
  ELSE IF b[5] < Half THEN 4
  ELSE TooMany

LEMMA MultiplierFacts ==
  /\ \A n \in 0..4 : Multiplier(n) \in Nat /\ Multiplier(n) > 0
  /\ Multiplier(0) = 1
  /\ \A n \in 1..4 : Multiplier(n) = Half * Multiplier(n - 1)
  /\ \A n \in 1..3 : Multiplier(n) <= Multiplier(3)
  /\ Multiplier(4) > Multiplier(3)
<1> DEFINE h2 == Half * Half
           h3 == Half * Half * Half
           h4 == Half * Half * Half * Half
<1>1. h2 \in Nat /\ h2 >= Half  OBVIOUS
<1>2. h3 \in Nat /\ h3 >= h2
  <2>1. h3 = h2 * Half  OBVIOUS
  <2> HIDE DEF h3, h2
  <2> QED  BY <1>1, <2>1
<1>3. h4 \in Nat /\ h4 > h3
  <2>1. h4 = h3 * Half  OBVIOUS
  <2>2. h3 > 0
    <3> HIDE DEF h3, h2
    <3> QED  BY <1>1, <1>2
  <2> HIDE DEF h4, h3
  <2> QED  BY <1>2, <2>1, <2>2
<1>4. /\ Multiplier(0) = 1 /\ Multiplier(1) = Half /\ Multiplier(2) = h2
      /\ Multiplier(3) = h3 /\ Multiplier(4) = h4
  BY DEF Multiplier, Multipliers
<1>5. h2 = Half * Half /\ h3 = Half * h2 /\ h4 = Half * h3  OBVIOUS
<1> HIDE DEF h2, h3, h4
<1>6. \A n \in 0..4 : n = 0 \/ n = 1 \/ n = 2 \/ n = 3 \/ n = 4  OBVIOUS
<1>7. \A n \in 0..4 : Multiplier(n) \in Nat /\ Multiplier(n) > 0
  BY <1>1, <1>2, <1>3, <1>4, <1>6
<1>8. \A n \in 1..4 : Multiplier(n) = Half * Multiplier(n - 1)
  BY <1>4, <1>5
<1>9. \A n \in 1..3 : Multiplier(n) <= Multiplier(3)
  BY <1>1, <1>2, <1>4
<1> QED  BY <1>3, <1>4, <1>7, <1>8, <1>9

\* mqtt_frame_info stops at the first byte of the length that is its last one.
LEMMA FrameFieldDef ==
  ASSUME NEW b \in Buffer
  PROVE  FrameField(b) = LastByte(b, 0)
<1> DEFINE Equation(f) == f = [n \in 1..4 |->
             IF n >= Len(b) THEN 0
             ELSE IF b[n + 1] < Half THEN n
             ELSE IF Multiplier(n) > Multiplier(3) THEN TooMany ELSE f[n + 1]]
           w4 == IF 4 >= Len(b) THEN 0 ELSE IF b[5] < Half THEN 4 ELSE TooMany
           w3 == IF 3 >= Len(b) THEN 0 ELSE IF b[4] < Half THEN 3 ELSE w4
           w2 == IF 2 >= Len(b) THEN 0 ELSE IF b[3] < Half THEN 2 ELSE w3
           w1 == IF 1 >= Len(b) THEN 0 ELSE IF b[2] < Half THEN 1 ELSE w2
           w == [n \in 1..4 |-> IF n = 1 THEN w1 ELSE IF n = 2 THEN w2
                                ELSE IF n = 3 THEN w3 ELSE w4]
           chosen == CHOOSE f : Equation(f)
<1>1. FrameField(b) = chosen[1]  BY DEF FrameField
<1>2. Multiplier(4) > Multiplier(3) /\ \A n \in 1..3 : ~(Multiplier(n) > Multiplier(3))
  BY MultiplierFacts
<1>3. Equation(w)
  <2>1. w[1] = w1 /\ w[2] = w2 /\ w[3] = w3 /\ w[4] = w4  OBVIOUS
  <2>2. \A n \in 1..4 : w[n] =
             IF n >= Len(b) THEN 0
             ELSE IF b[n + 1] < Half THEN n
             ELSE IF Multiplier(n) > Multiplier(3) THEN TooMany ELSE w[n + 1]
    <3> TAKE n \in 1..4
    <3>1. n = 1 \/ n = 2 \/ n = 3 \/ n = 4  OBVIOUS
    <3> HIDE DEF w
    <3> QED  BY <1>2, <2>1, <3>1
  <2>3. w = [n \in 1..4 |-> w[n]]  OBVIOUS
  <2> HIDE DEF w
  <2> QED  BY <2>2, <2>3
<1>4. Equation(chosen)
  <2> HIDE DEF w, Equation
  <2> QED  BY <1>3, Zenon
<1>5. /\ chosen[4] = w4 /\ chosen[3] = (IF 3 >= Len(b) THEN 0 ELSE IF b[4] < Half THEN 3 ELSE chosen[4])
      /\ chosen[2] = (IF 2 >= Len(b) THEN 0 ELSE IF b[3] < Half THEN 2 ELSE chosen[3])
      /\ chosen[1] = (IF 1 >= Len(b) THEN 0 ELSE IF b[2] < Half THEN 1 ELSE chosen[2])
  <2> HIDE DEF chosen
  <2>1. \A n \in 1..4 : chosen[n] =
             IF n >= Len(b) THEN 0
             ELSE IF b[n + 1] < Half THEN n
             ELSE IF Multiplier(n) > Multiplier(3) THEN TooMany ELSE chosen[n + 1]
    BY <1>4
  <2> QED  BY <1>2, <2>1
<1> HIDE DEF chosen
<1> QED  BY <1>1, <1>5 DEF LastByte

\* So does decode_remaining_length, except that it refuses what is not all there.
LEMMA DecodedFieldDef ==
  ASSUME NEW b \in Buffer
  PROVE  DecodedField(b) = LastByte(b, TooMany)
<1> DEFINE Equation(f) == f = [n \in 1..5 |->
             IF n >= Len(b) \/ n > 4 THEN TooMany
             ELSE IF b[n + 1] < Half THEN n ELSE f[n + 1]]
           w4 == IF 4 >= Len(b) THEN TooMany ELSE IF b[5] < Half THEN 4 ELSE TooMany
           w3 == IF 3 >= Len(b) THEN TooMany ELSE IF b[4] < Half THEN 3 ELSE w4
           w2 == IF 2 >= Len(b) THEN TooMany ELSE IF b[3] < Half THEN 2 ELSE w3
           w1 == IF 1 >= Len(b) THEN TooMany ELSE IF b[2] < Half THEN 1 ELSE w2
           w == [n \in 1..5 |-> IF n = 1 THEN w1 ELSE IF n = 2 THEN w2
                                ELSE IF n = 3 THEN w3 ELSE IF n = 4 THEN w4 ELSE TooMany]
           chosen == CHOOSE f : Equation(f)
<1>1. DecodedField(b) = chosen[1]  BY DEF DecodedField
<1>3. Equation(w)
  <2>1. w[1] = w1 /\ w[2] = w2 /\ w[3] = w3 /\ w[4] = w4 /\ w[5] = TooMany  OBVIOUS
  <2>2. \A n \in 1..5 : w[n] =
             IF n >= Len(b) \/ n > 4 THEN TooMany
             ELSE IF b[n + 1] < Half THEN n ELSE w[n + 1]
    <3> TAKE n \in 1..5
    <3>1. n = 1 \/ n = 2 \/ n = 3 \/ n = 4 \/ n = 5  OBVIOUS
    <3> HIDE DEF w
    <3> QED  BY <2>1, <3>1
  <2>3. w = [n \in 1..5 |-> w[n]]  OBVIOUS
  <2> HIDE DEF w
  <2> QED  BY <2>2, <2>3
<1>4. Equation(chosen)
  <2> HIDE DEF w, Equation
  <2> QED  BY <1>3, Zenon
<1>5. /\ chosen[5] = TooMany /\ chosen[4] = w4
      /\ chosen[3] = (IF 3 >= Len(b) THEN TooMany ELSE IF b[4] < Half THEN 3 ELSE chosen[4])
      /\ chosen[2] = (IF 2 >= Len(b) THEN TooMany ELSE IF b[3] < Half THEN 2 ELSE chosen[3])
      /\ chosen[1] = (IF 1 >= Len(b) THEN TooMany ELSE IF b[2] < Half THEN 1 ELSE chosen[2])
  <2> HIDE DEF chosen
  <2>1. \A n \in 1..5 : chosen[n] =
             IF n >= Len(b) \/ n > 4 THEN TooMany
             ELSE IF b[n + 1] < Half THEN n ELSE chosen[n + 1]
    BY <1>4
  <2> QED  BY <2>1
<1> HIDE DEF chosen
<1> QED  BY <1>1, <1>5 DEF LastByte

\* The length grows byte by byte.
LEMMA ValueDef ==
  ASSUME NEW b \in Buffer, NEW n \in 0..4, n < Len(b)
  PROVE  \E f \in [0..n -> Nat] :
           /\ f[0] = 0 /\ \A i \in 1..n : f[i] = f[i - 1] + (b[i + 1] % Half) * Multiplier(i - 1)
           /\ Value(b, n) = f[n]
<1> DEFINE Part(i) == (b[i + 1] % Half) * Multiplier(i - 1)
           round == [i \in 1..n |-> [v \in Nat |-> v + Part(i)]]
           Equation(f) == f = [i \in 0..n |-> IF i = 0 THEN 0 ELSE f[i - 1] + Part(i)]
<1>1. \A i \in 1..n : Part(i) \in Nat
  <2> TAKE i \in 1..n
  <2>1. b[i + 1] \in Nat
    <3>1. i + 1 \in 1..Len(b)  BY DEF Buffer
    <3> QED  BY <3>1 DEF Buffer
  <2>2. b[i + 1] % Half \in Nat  BY <2>1
  <2>3. Multiplier(i - 1) \in Nat
    <3>1. i - 1 \in 0..4  OBVIOUS
    <3> QED  BY <3>1, MultiplierFacts
  <2> QED  BY <2>2, <2>3
<1>2. PICK f \in [0..n -> Nat] : f[0] = 0 /\ \A i \in 1..n : f[i] = round[i][f[i - 1]]
  <2>1. round \in Rounds(n, Nat)
    <3> HIDE DEF Part
    <3> QED  BY <1>1 DEF Rounds
  <2>2. \E f : f \in [0..n -> Nat] /\ Loop(f, n, 0, round)
    <3>1. n \in Nat /\ 0 \in Nat  OBVIOUS
    <3> HIDE DEF round
    <3> QED  BY <2>1, <3>1, FoldExists, Zenon
  <2> QED  BY <2>2 DEF Loop
<1> HIDE DEF Part
<1>3. f[0] = 0 /\ \A i \in 1..n : f[i] = f[i - 1] + Part(i)
  <2>1. \A i \in 1..n : f[i - 1] \in Nat  OBVIOUS
  <2> QED  BY <1>2, <2>1
<1>4. Equation(f)
  <2>1. \A i \in 0..n : f[i] = IF i = 0 THEN 0 ELSE f[i - 1] + Part(i)  BY <1>3
  <2> QED  BY <2>1
<1> DEFINE chosen == CHOOSE g : Equation(g)
<1>5. Equation(chosen)
  <2> HIDE DEF Equation
  <2> QED  BY <1>4, Zenon
<1>6. Value(b, n) = chosen[n]  BY DEF Value, Part
<1>7. chosen = f
  <2> HIDE DEF chosen
  <2>1. chosen[0] = 0 /\ \A i \in 1..n : chosen[i] = chosen[i - 1] + Part(i)  BY <1>5
  <2>2. SameRounds(f, chosen, n)  BY <1>3, <2>1 DEF SameRounds
  <2>3. \A i \in 0..n : f[i] = chosen[i]  BY <2>2, FoldsAgree
  <2>4. chosen = [i \in 0..n |-> chosen[i]]  BY <1>5
  <2> QED  BY <2>3, <2>4
<1> HIDE DEF chosen
<1> QED  BY <1>3, <1>6, <1>7 DEF Part

LEMMA ValueType ==
  ASSUME NEW b \in Buffer, NEW n \in 0..4, n < Len(b)
  PROVE  Value(b, n) \in Nat
BY ValueDef

\* The length is in its bytes: what is behind them changes nothing.
LEMMA ValueAgrees ==
  ASSUME NEW b \in Buffer, NEW c \in Buffer, NEW n \in 0..4, n < Len(b), n < Len(c),
         \A i \in 2..(n + 1) : b[i] = c[i]
  PROVE  Value(b, n) = Value(c, n)
<1>1. PICK f \in [0..n -> Nat] :
        /\ f[0] = 0 /\ \A i \in 1..n : f[i] = f[i - 1] + (b[i + 1] % Half) * Multiplier(i - 1)
        /\ Value(b, n) = f[n]
  BY ValueDef
<1>2. PICK g \in [0..n -> Nat] :
        /\ g[0] = 0 /\ \A i \in 1..n : g[i] = g[i - 1] + (c[i + 1] % Half) * Multiplier(i - 1)
        /\ Value(c, n) = g[n]
  BY ValueDef
<1>3. SameRounds(f, g, n)
  <2>1. \A i \in 1..n : b[i + 1] = c[i + 1]  OBVIOUS
  <2> QED  BY <1>1, <1>2, <2>1 DEF SameRounds
<1>4. f[n] = g[n]
  <2>1. n \in Nat /\ n \in 0..n  OBVIOUS
  <2>2. ASSUME NEW F, NEW G, NEW m, m \in Nat, SameRounds(F, G, m)
        PROVE  \A i \in 0..m : F[i] = G[i]
    BY <2>2, FoldsAgree
  <2> DEFINE m == n
  <2>3. m \in Nat /\ SameRounds(f, g, m)  BY <1>3, <2>1
  <2> HIDE DEF m
  <2>4. \A i \in 0..m : f[i] = g[i]  BY <2>2, <2>3, SMTT(30)
  <2>5. \A i \in 0..n : f[i] = g[i]  BY <2>4 DEF m
  <2> QED  BY <2>1, <2>5
<1> QED  BY <1>1, <1>2, <1>4

\* So do the fields of two buffers that agree on the bytes up to the last one of the
\* first field.
LEMMA FieldAgrees ==
  ASSUME NEW b \in Buffer, NEW c \in Buffer, FrameField(b) \in 1..4,
         FrameField(b) < Len(c), \A i \in 2..(FrameField(b) + 1) : b[i] = c[i]
  PROVE  FrameField(c) = FrameField(b) /\ DecodedField(c) = FrameField(b)
         /\ FrameField(b) < Len(b)
BY FrameFieldDef, DecodedFieldDef DEF LastByte

----------------------------------------------------------------------------
(* The bytes on their way and in the buffer.                               *)

\* What mqtt_frame_info cuts out has the length that it found.
LEMMA FrontAgrees ==
  ASSUME NEW b \in Buffer, Complete(b)
  PROVE  LET p == FirstPacket(b) IN
         /\ p \in Buffer /\ Len(p) = FrameSize(b) /\ FrameSize(b) \in 2..Len(b)
         /\ FrameField(p) = FrameField(b) /\ DecodedField(p) = FrameField(b)
         /\ Value(p, FrameField(b)) = Value(b, FrameField(b))
<1> DEFINE k == FrameField(b)
           p == FirstPacket(b)
<1>1. k \in 1..4 /\ Len(b) >= FrameSize(b)  BY DEF Complete
<1>2. k < Len(b)  BY <1>1, FieldAgrees, FrameFieldDef DEF LastByte
<1>3. Value(b, k) \in Nat  BY <1>1, <1>2, ValueType
<1>4. FrameSize(b) = 1 + k + Value(b, k)  BY DEF FrameSize
<1>5. FrameSize(b) \in 0..Len(b) /\ FrameSize(b) >= 1 + k
  <2> HIDE DEF k
  <2> QED  BY <1>1, <1>3, <1>4
<1>6. p \in Buffer /\ Len(p) = FrameSize(b) /\ \A i \in 1..FrameSize(b) : p[i] = b[i]
  <2>1. b \in Seq(Nat)  BY DEF Buffer
  <2> QED  BY <1>5, <2>1, CutAt, Zenon DEF Buffer, FirstPacket
<1> HIDE DEF k, p
<1>7. k < Len(p) /\ \A i \in 2..(k + 1) : p[i] = b[i]  BY <1>1, <1>3, <1>5, <1>6
<1>8. FrameField(p) = k /\ DecodedField(p) = k
  BY <1>1, <1>6, <1>7, FieldAgrees DEF k
<1>9. Value(p, k) = Value(b, k)  BY <1>1, <1>2, <1>6, <1>7, ValueAgrees
<1> QED  BY <1>1, <1>5, <1>6, <1>8, <1>9 DEF k, p

----------------------------------------------------------------------------
(* The length that MqttEncoder writes.                                     *)

\* Division, with an integer divisor that no prover need know.
LEMMA DivMod ==
  ASSUME NEW v \in Nat, NEW d \in Nat, d > 0
  PROVE  v \div d \in Nat /\ v % d \in 0..(d - 1) /\ v = d * (v \div d) + (v % d)
OBVIOUS

LEMMA DivMult ==
  ASSUME NEW d \in Nat, d > 0, NEW q \in Nat, NEW r \in 0..(d - 1)
  PROVE  (d * q + r) \div d = q /\ (d * q + r) % d = r
OBVIOUS

LEMMA DivBound ==
  ASSUME NEW v \in Nat, NEW d \in Nat, d > 0, NEW m \in Nat, v < d * m
  PROVE  v \div d < m
<1> DEFINE q == v \div d
<1>1. q \in Nat /\ d * q <= v  BY DivMod
<1> HIDE DEF q
<1> SUFFICES ASSUME q >= m PROVE FALSE  BY <1>1 DEF q
<1>2. PICK e \in Nat : q = m + e
  <2>1. q - m \in Nat /\ q = m + (q - m)  BY <1>1
  <2> QED  BY <2>1
<1>3. d * q = d * m + d * e /\ d * e \in Nat  BY <1>2
<1> QED  BY <1>1, <1>3

\* What write_remaining_length has left behind every byte, and the last byte it writes.
Left(v, f) == f[0] = v /\ \A i \in 1..4 : f[i] = f[i - 1] \div Half
LastOf(f, n) == n \in 1..4 /\ f[n] = 0 /\ \A j \in 1..(n - 1) : f[j] > 0

\* Four bytes are enough for a length.
LEMMA LeftVanishes ==
  ASSUME NEW v \in 0..MaxBody, NEW f \in [0..4 -> Nat], Left(v, f)
  PROVE  \E n : LastOf(f, n)
<1>1. \A i \in 1..4 : f[i] = f[i - 1] \div Half  BY DEF Left
<1>2. Multiplier(4) = Half * Multiplier(3) /\ Multiplier(3) = Half * Multiplier(2)
      /\ Multiplier(2) = Half * Multiplier(1) /\ Multiplier(1) = Half * 1
      /\ \A n \in 0..4 : Multiplier(n) \in Nat
  <2>1. \A n \in 1..4 : Multiplier(n) = Half * Multiplier(n - 1)  BY MultiplierFacts
  <2> QED  BY <2>1, MultiplierFacts
<1>3. f[0] < Multiplier(4)  BY <1>2 DEF Left, MaxBody
<1>4. f[1] < Multiplier(3)  BY <1>1, <1>2, <1>3, DivBound
<1>5. f[2] < Multiplier(2)  BY <1>1, <1>2, <1>4, DivBound
<1>6. f[3] < Multiplier(1)  BY <1>1, <1>2, <1>5, DivBound
<1>7. f[4] < 1
  <2>1. f[3] < Half * 1 /\ f[3] \in Nat  BY <1>2, <1>6
  <2>2. f[4] = f[3] \div Half  BY <1>1
  <2> QED  BY <2>1, <2>2, DivBound
<1>8. f[4] = 0  BY <1>7
<1> DEFINE S == {i \in 1..4 : f[i] = 0}
<1>9. PICK n \in S : \A y \in S : n <= y
  <2>1. S \in SUBSET Nat /\ S # {}  BY <1>8
  <2> HIDE DEF S
  <2> QED  BY <2>1, LeastElement
<1>10. \A j \in 1..(n - 1) : f[j] \in Nat /\ f[j] # 0  BY <1>9
<1> QED  BY <1>9, <1>10 DEF LastOf

\* The loop of write_remaining_length without its recursion.
LEMMA RemainingLengthDef ==
  ASSUME NEW v \in 0..MaxBody
  PROVE  \E f \in [0..4 -> Nat], n \in 1..4 :
           /\ Left(v, f) /\ LastOf(f, n)
           /\ RemainingLength(v) =
                [i \in 1..n |-> (f[i - 1] % Half) + IF i < n THEN Half ELSE 0]
<1> DEFINE round == [i \in 1..4 |-> [x \in Nat |-> x \div Half]]
           Equation(f) == f = [i \in 0..4 |-> IF i = 0 THEN v ELSE f[i - 1] \div Half]
           chosen == CHOOSE f : Equation(f)
<1>0. v \in Nat
  <2>1. MaxBody \in Int  BY MultiplierFacts DEF MaxBody
  <2> QED  BY <2>1
<1>1. PICK f \in [0..4 -> Nat] : f[0] = v /\ \A i \in 1..4 : f[i] = round[i][f[i - 1]]
  <2>1. round \in Rounds(4, Nat)
    <3>1. \A x \in Nat : x \div Half \in Nat  BY DivMod
    <3> QED  BY <3>1 DEF Rounds
  <2>2. \E f : f \in [0..4 -> Nat] /\ Loop(f, 4, v, round)
    <3>1. 4 \in Nat  OBVIOUS
    <3> HIDE DEF round
    <3> QED  BY <1>0, <2>1, <3>1, FoldExists, Zenon
  <2> QED  BY <2>2 DEF Loop
<1>2. f[0] = v /\ \A i \in 1..4 : f[i] = f[i - 1] \div Half
  <2>1. \A i \in 1..4 : f[i - 1] \in Nat  OBVIOUS
  <2> QED  BY <1>1, <2>1
<1>3. Equation(f)
  <2>1. \A i \in 0..4 : f[i] = IF i = 0 THEN v ELSE f[i - 1] \div Half  BY <1>2
  <2> QED  BY <2>1
<1>4. Equation(chosen)
  <2> HIDE DEF Equation
  <2> QED  BY <1>3, Zenon
<1>5. chosen \in [0..4 -> Nat] /\ Left(v, chosen)
  <2> HIDE DEF chosen
  <2>1. chosen[0] = v /\ \A i \in 1..4 : chosen[i] = chosen[i - 1] \div Half  BY <1>4
  <2>2. SameRounds(f, chosen, 4)  BY <1>2, <2>1 DEF SameRounds
  <2>3. \A i \in 0..4 : f[i] = chosen[i]
    <3>1. ASSUME NEW F, NEW G, SameRounds(F, G, 4) PROVE \A i \in 0..4 : F[i] = G[i]
      BY <3>1, FoldsAgree
    <3> QED  BY <2>2, <3>1, Zenon
  <2>4. chosen = [i \in 0..4 |-> chosen[i]]  BY <1>4
  <2>5. chosen = f  BY <2>3, <2>4
  <2> QED  BY <2>1, <2>5 DEF Left
<1> DEFINE n == CHOOSE i \in 1..4 : chosen[i] = 0 /\ \A j \in 1..(i - 1) : chosen[j] > 0
<1>6. LastOf(chosen, n)
  <2> HIDE DEF chosen
  <2>1. \E i : LastOf(chosen, i)  BY <1>5, LeftVanishes
  <2> QED  BY <2>1, Zenon DEF LastOf
<1>7. RemainingLength(v) =
        [i \in 1..n |-> (chosen[i - 1] % Half) + IF i < n THEN Half ELSE 0]
  BY Zenon DEF RemainingLength
<1> HIDE DEF chosen, n
<1>8. n \in 1..4  BY <1>6 DEF LastOf
<1> QED  BY <1>5, <1>6, <1>7, <1>8

\* Where the last byte of a length is, its field ends.
LEMMA FieldAt ==
  ASSUME NEW b \in Buffer, NEW n \in 1..4, n < Len(b),
         \A i \in 2..n : b[i] >= Half, b[n + 1] < Half
  PROVE  FrameField(b) = n /\ DecodedField(b) = n
<1>1. n = 1 \/ n = 2 \/ n = 3 \/ n = 4  OBVIOUS
<1>2. \A i \in 2..n : ~(b[i] < Half)
  <2>1. \A i \in 2..n : i \in 1..Len(b)  BY DEF Buffer
  <2> QED  BY <2>1 DEF Buffer
<1>3. Len(b) \in Nat  BY DEF Buffer
<1> QED  BY <1>1, <1>2, <1>3, FrameFieldDef, DecodedFieldDef DEF LastByte

\* The bytes of a field: all but the last one are continued.
LEMMA AtField ==
  ASSUME NEW b \in Buffer, FrameField(b) \in 1..4
  PROVE  /\ FrameField(b) < Len(b) /\ b[FrameField(b) + 1] < Half
         /\ \A i \in 2..FrameField(b) : b[i] >= Half
<1>1. \A i \in 1..Len(b) : b[i] \in Nat /\ (b[i] < Half \/ b[i] >= Half)  BY DEF Buffer
<1>2. Len(b) \in Nat  BY DEF Buffer
<1> QED  BY <1>1, <1>2, FrameFieldDef DEF LastByte

\* One byte more of a length.
LEMMA ValueSteps ==
  ASSUME NEW b \in Buffer, NEW n \in 1..4, n < Len(b)
  PROVE  /\ Value(b, 0) = 0
         /\ Value(b, n) = Value(b, n - 1) + (b[n + 1] % Half) * Multiplier(n - 1)
<1> DEFINE Part(i) == (b[i + 1] % Half) * Multiplier(i - 1)
           Loops(f, m) == f[0] = 0 /\ \A i \in 1..m : f[i] = f[i - 1] + Part(i)
<1>1. ASSUME NEW m \in 0..4, m < Len(b)
      PROVE  \E f \in [0..m -> Nat] : Loops(f, m) /\ Value(b, m) = f[m]
  BY <1>1, ValueDef
<1>2. Value(b, 0) = 0
  <2>1. 0 \in 0..4 /\ 0 < Len(b)  OBVIOUS
  <2>2. PICK f \in [0..0 -> Nat] : Loops(f, 0) /\ Value(b, 0) = f[0]  BY <1>1, <2>1
  <2> QED  BY <2>2
<1>3. PICK f \in [0..n -> Nat] : Loops(f, n) /\ Value(b, n) = f[n]
  <2>1. n \in 0..4  OBVIOUS
  <2> HIDE DEF Loops
  <2> QED  BY <1>1, <2>1, Zenon
<1>4. PICK g \in [0..(n - 1) -> Nat] : Loops(g, n - 1) /\ Value(b, n - 1) = g[n - 1]
  <2>1. n - 1 \in 0..4 /\ n - 1 < Len(b)  BY DEF Buffer
  <2> QED  BY <1>1, <2>1
<1> HIDE DEF Part
<1>5. f[n - 1] = g[n - 1]
  <2>1. SameRounds(f, g, n - 1)  BY <1>3, <1>4 DEF SameRounds
  <2>2. ASSUME NEW F, NEW G, SameRounds(F, G, n - 1)
        PROVE  \A i \in 0..(n - 1) : F[i] = G[i]
    <3> DEFINE m == n - 1
    <3>1. m \in Nat  OBVIOUS
    <3>2. SameRounds(F, G, m)  BY <2>2
    <3> HIDE DEF m
    <3>3. \A i \in 0..m : F[i] = G[i]  BY <3>1, <3>2, FoldsAgree
    <3> QED  BY <3>3 DEF m
  <2>3. \A i \in 0..(n - 1) : f[i] = g[i]  BY <2>1, <2>2, Zenon
  <2> QED  BY <2>3
<1>6. f[n] = f[n - 1] + Part(n)  BY <1>3
<1>7. Value(b, n) = Value(b, n - 1) + Part(n)  BY <1>3, <1>4, <1>5, <1>6
<1> QED  BY <1>2, <1>7 DEF Part

\* What the encoder writes as a length, the readers read as that length.
LEMMA LengthRead ==
  ASSUME NEW v \in 0..MaxBody
  PROVE  LET r == RemainingLength(v) IN
         /\ r \in Buffer /\ Len(r) \in 1..4
         /\ \A b \in Buffer :
              Len(r) < Len(b) /\ (\A i \in 1..Len(r) : b[i + 1] = r[i]) =>
                /\ FrameField(b) = Len(r) /\ DecodedField(b) = Len(r)
                /\ Value(b, Len(r)) = v
<1> DEFINE r == RemainingLength(v)
<1>1. PICK f \in [0..4 -> Nat], n \in 1..4 :
         /\ Left(v, f) /\ LastOf(f, n)
         /\ r = [i \in 1..n |-> (f[i - 1] % Half) + IF i < n THEN Half ELSE 0]
  BY RemainingLengthDef
<1> HIDE DEF r
<1>2. \A i \in 0..4 : f[i] \in Nat /\ f[i] % Half \in 0..(Half - 1)
  <2>1. \A i \in 0..4 : f[i] \in Nat  OBVIOUS
  <2> QED  BY <2>1, DivMod
<1>3. \A i \in 1..n : i - 1 \in 0..4  OBVIOUS
<1>4. /\ r \in Buffer /\ Len(r) = n
      /\ \A i \in 1..n : r[i] = (f[i - 1] % Half) + IF i < n THEN Half ELSE 0
  <2>1. \A i \in 1..n : (f[i - 1] % Half) + (IF i < n THEN Half ELSE 0) \in Nat
    BY <1>2, <1>3
  <2> QED  BY <1>1, <2>1 DEF Buffer
<1>5. ASSUME NEW b \in Buffer, n < Len(b), \A i \in 1..n : b[i + 1] = r[i]
      PROVE  /\ FrameField(b) = n /\ DecodedField(b) = n /\ Value(b, n) = v
  <2>1. \A i \in 1..n : b[i + 1] = (f[i - 1] % Half) + IF i < n THEN Half ELSE 0
    BY <1>4, <1>5
  <2>2. \A i \in 2..n : b[i] >= Half
    <3> TAKE i \in 2..n
    <3>1. i - 1 \in 1..n /\ i - 1 < n /\ (i - 1) + 1 = i /\ (i - 1) - 1 \in 0..4  OBVIOUS
    <3>2. b[i] = (f[(i - 1) - 1] % Half) + Half  BY <2>1, <3>1
    <3>3. f[(i - 1) - 1] % Half \in 0..(Half - 1)  BY <1>2, <3>1
    <3> QED  BY <3>2, <3>3
  <2>3. b[n + 1] < Half
    <3>1. n \in 1..n /\ ~(n < n) /\ n - 1 \in 0..4  OBVIOUS
    <3>2. b[n + 1] = (f[n - 1] % Half) + 0  BY <2>1, <3>1
    <3>3. f[n - 1] % Half \in 0..(Half - 1)  BY <1>2, <3>1
    <3> QED  BY <3>2, <3>3
  <2>4. FrameField(b) = n /\ DecodedField(b) = n  BY <1>5, <2>2, <2>3, FieldAt
  <2>5. \A i \in 1..n : b[i + 1] % Half = f[i - 1] % Half
    <3> TAKE i \in 1..n
    <3> DEFINE q == IF i < n THEN 1 ELSE 0
               x == f[i - 1] % Half
    <3>1. x \in 0..(Half - 1)  BY <1>2, <1>3
    <3>2. b[i + 1] = Half * q + x  BY <2>1, <3>1
    <3>3. q \in Nat  OBVIOUS
    <3> HIDE DEF q, x
    <3>4. (Half * q + x) % Half = x  BY <3>1, <3>3, DivMult
    <3> QED  BY <3>2, <3>4 DEF x
  <2> DEFINE S == {m \in Nat : m <= n => Value(b, m) + f[m] * Multiplier(m) = v}
  <2>6. 0 \in S
    <3>1. Value(b, 0) = 0  BY <1>5, ValueSteps
    <3>2. f[0] = v /\ Multiplier(0) = 1 /\ v \in Nat  BY <1>1, <1>2, MultiplierFacts DEF Left
    <3> QED  BY <3>1, <3>2
  <2>7. ASSUME NEW m \in Nat, m \in S PROVE m + 1 \in S
    <3> SUFFICES ASSUME m + 1 <= n
                 PROVE  Value(b, m + 1) + f[m + 1] * Multiplier(m + 1) = v
      OBVIOUS
    <3>1. m + 1 \in 1..n /\ m + 1 \in 1..4 /\ m \in 0..4 /\ (m + 1) - 1 = m
          /\ m + 1 < Len(b) /\ m < Len(b)
      <4>1. n < Len(b) /\ Len(b) \in Nat  BY <1>5 DEF Buffer
      <4>2. m <= 3  OBVIOUS
      <4> QED  BY <4>1, <4>2
    <3> DEFINE M == Multiplier(m)
               y == f[m] \div Half
               x == f[m] % Half
    <3>2. Value(b, m) + f[m] * M = v  BY <2>7, <3>1
    <3>3. Value(b, m + 1) = Value(b, m) + x * M
      <4>1. Value(b, m + 1) = Value(b, m) + (b[(m + 1) + 1] % Half) * Multiplier((m + 1) - 1)
        BY <3>1, ValueSteps
      <4>2. b[(m + 1) + 1] % Half = f[(m + 1) - 1] % Half  BY <2>5, <3>1
      <4> QED  BY <3>1, <4>1, <4>2
    <3>4. f[m + 1] = y  BY <1>1, <3>1 DEF Left
    <3>5. Multiplier(m + 1) = Half * M /\ M \in Nat  BY <3>1, MultiplierFacts
    <3>6. f[m] = Half * y + x /\ x \in Nat /\ y \in Nat
      <4> DEFINE z == f[m]
      <4>1. z \in Nat  BY <1>2, <3>1
      <4> HIDE DEF z
      <4>2. z = Half * (z \div Half) + (z % Half) /\ z % Half \in Nat /\ z \div Half \in Nat
        BY <4>1, DivMod
      <4> QED  BY <4>2 DEF z
    <3>7. Value(b, m) \in Nat  BY <3>1, ValueType
    <3> HIDE DEF M, x, y
    <3>8. f[m] * M = y * (Half * M) + x * M  BY <3>5, <3>6
    <3>9. y * (Half * M) \in Nat /\ x * M \in Nat  BY <3>5, <3>6
    <3>10. Value(b, m) + (y * (Half * M) + x * M) = v  BY <3>2, <3>8
    <3>11. Value(b, m + 1) + f[m + 1] * Multiplier(m + 1) = (Value(b, m) + x * M) + y * (Half * M)
      BY <3>3, <3>4, <3>5
    <3> QED  BY <3>7, <3>9, <3>10, <3>11
  <2>8. n \in S
    <3> HIDE DEF S
    <3>1. Nat \subseteq S  BY <2>6, <2>7, SetInduction
    <3> QED  BY <3>1
  <2>9. Value(b, n) + f[n] * Multiplier(n) = v  BY <2>8
  <2>10. f[n] = 0 /\ Multiplier(n) \in Nat /\ Value(b, n) \in Nat
    <3>1. f[n] = 0  BY <1>1 DEF LastOf
    <3>2. n \in 0..4  OBVIOUS
    <3>3. Multiplier(n) \in Nat  BY <3>2, MultiplierFacts
    <3>4. Value(b, n) \in Nat  BY <1>5, <3>2, ValueType
    <3> QED  BY <3>1, <3>3, <3>4
  <2> QED  BY <2>4, <2>9, <2>10
<1> QED  BY <1>4, <1>5 DEF r

----------------------------------------------------------------------------
(* A packet and its bytes.                                                 *)

\* b is a packet of that type with those flags and that body, whose length has k bytes.
Shape(b, k, type, flags, body) ==
  /\ b \in Buffer /\ k \in 1..4 /\ Len(b) = 1 + k + Len(body)
  /\ b[1] = 16 * type + flags
  /\ FrameField(b) = k /\ DecodedField(b) = k /\ Value(b, k) = Len(body)
  /\ \A i \in 1..Len(body) : b[1 + k + i] = body[i]

\* make_packet.
LEMMA PacketShape ==
  ASSUME NEW type \in Nat, NEW flags \in Nat, NEW body \in Buffer, Len(body) <= MaxBody
  PROVE  \E k : Shape(Packet(type, flags, body), k, type, flags, body)
<1> DEFINE v == Len(body)
           r == RemainingLength(v)
           x == 16 * type + flags
           h == Cat(<<x>>, r)
           b == Cat(h, body)
<1>1. v \in 0..MaxBody
  <2>1. Multiplier(4) \in Nat  BY MultiplierFacts
  <2>2. v \in Nat  BY DEF Buffer
  <2>3. MaxBody \in Int  BY <2>1 DEF MaxBody
  <2> QED  BY <2>2, <2>3
<1> HIDE DEF v
<1>2. /\ r \in Buffer /\ Len(r) \in 1..4
      /\ \A c \in Buffer :
           Len(r) < Len(c) /\ (\A i \in 1..Len(r) : c[i + 1] = r[i]) =>
             /\ FrameField(c) = Len(r) /\ DecodedField(c) = Len(r)
             /\ Value(c, Len(r)) = v
  BY <1>1, LengthRead
<1> HIDE DEF r
<1>3. x \in Nat /\ <<x>> \in Seq(Nat) /\ Len(<<x>>) = 1 /\ <<x>>[1] = x  OBVIOUS
<1> DEFINE xs == <<x>>
<1> HIDE DEF x
<1>4. Packet(type, flags, body) = b  BY DEF Packet, Cat, v, r, x
<1>5. h \in Buffer /\ Joined(h, xs, r)
  <2>1. xs \in Seq(Nat) /\ r \in Seq(Nat)  BY <1>2, <1>3 DEF Buffer
  <2> HIDE DEF xs
  <2> QED  BY <2>1, CatAt DEF Buffer, xs
<1> HIDE DEF h
<1>6. b \in Buffer /\ Joined(b, h, body)
  <2>1. h \in Seq(Nat) /\ body \in Seq(Nat)  BY <1>5 DEF Buffer
  <2> QED  BY <2>1, CatAt DEF Buffer
<1> HIDE DEF b
<1>7. /\ Len(h) = 1 + Len(r) /\ h[1] = x /\ \A i \in 1..Len(r) : h[1 + i] = r[i]
  BY <1>3, <1>5 DEF Joined
<1>8. /\ Len(b) = 1 + Len(r) + v /\ v \in Nat /\ b[1] = x
      /\ \A i \in 1..Len(r) : b[1 + i] = r[i]
      /\ \A i \in 1..v : b[(1 + Len(r)) + i] = body[i]
  BY <1>2, <1>6, <1>7 DEF Joined, v
<1>9. Len(r) < Len(b) /\ \A i \in 1..Len(r) : b[i + 1] = r[i]  BY <1>2, <1>8
<1>10. FrameField(b) = Len(r) /\ DecodedField(b) = Len(r) /\ Value(b, Len(r)) = v
  BY <1>2, <1>6, <1>9
<1>11. Shape(b, Len(r), type, flags, body)
  BY <1>2, <1>6, <1>8, <1>10 DEF Shape, v, x
<1> QED  BY <1>4, <1>11

\* A length of one byte more has the same value.
LEMMA PaddedShape ==
  ASSUME NEW b, NEW k, NEW type, NEW flags, NEW body \in Buffer,
         Shape(b, k, type, flags, body), k < 4
  PROVE  Shape(Padded(b), k + 1, type, flags, body)
<1> DEFINE n == k + 1
           c == SubSeq(b, 1, k)
           d == <<b[n] + Half, 0>>
           e == SubSeq(b, n + 1, Len(b))
           h == Cat(c, d)
           p == Cat(h, e)
<1>1. /\ b \in Seq(Nat) /\ k \in 1..4 /\ Len(b) = 1 + k + Len(body) /\ Len(body) \in Nat
      /\ FrameField(b) = k
  BY DEF Shape, Buffer
<1>2. Padded(b) = p
  <2>1. (k + 1) - 1 = k  BY <1>1
  <2> QED  BY <1>1, <2>1 DEF Padded, Cat
<1>3. c \in Buffer /\ Len(c) = k /\ \A i \in 1..k : c[i] = b[i]
  <2>1. k \in 0..Len(b)  BY <1>1
  <2> HIDE DEF c
  <2> QED  BY <1>1, <2>1, CutAt, Zenon DEF Buffer, c
<1>4. e \in Buffer /\ Len(e) = Len(body) /\ \A i \in 1..Len(body) : e[i] = body[i]
  <2>1. n \in 0..Len(b) /\ Len(b) - n = Len(body)  BY <1>1
  <2>2. /\ e \in Seq(Nat) /\ Len(e) = Len(b) - n
        /\ \A i \in 1..(Len(b) - n) : e[i] = b[n + i]
    <3> HIDE DEF n, e
    <3> QED  BY <1>1, <2>1, CutAt, Zenon DEF e
  <2>3. \A i \in 1..Len(body) : b[(1 + k) + i] = body[i]  BY DEF Shape
  <2>4. n = 1 + k  BY <1>1
  <2> HIDE DEF n, e
  <2> QED  BY <2>1, <2>2, <2>3, <2>4 DEF Buffer
<1>5. b[n] \in Nat
  <2>1. n \in 1..Len(b)  BY <1>1
  <2> QED  BY <1>1, <2>1
<1>6. d \in Buffer /\ Len(d) = 2 /\ d[1] = b[n] + Half /\ d[2] = 0  BY <1>5 DEF Buffer
<1> HIDE DEF c, d, e
<1>7. h \in Buffer /\ Joined(h, c, d)  BY <1>3, <1>6, CatAt DEF Buffer
<1> HIDE DEF h
<1>8. p \in Buffer /\ Joined(p, h, e)  BY <1>4, <1>7, CatAt DEF Buffer
<1> HIDE DEF p
<1>9. Len(h) = k + 2 /\ (\A i \in 1..k : h[i] = b[i]) /\ h[k + 1] = b[n] + Half /\ h[k + 2] = 0
  <2>1. 1 \in 1..2 /\ 2 \in 1..2  OBVIOUS
  <2> QED  BY <1>3, <1>6, <1>7, <2>1 DEF Joined
<1>10. /\ Len(p) = 1 + (k + 1) + Len(body)
       /\ \A i \in 1..k : p[i] = b[i]
       /\ p[k + 1] = b[n] + Half /\ p[(k + 1) + 1] = 0
       /\ \A i \in 1..Len(body) : p[(1 + (k + 1)) + i] = body[i]
  <2>1. Len(p) = (k + 2) + Len(body) /\ k + 2 = 1 + (k + 1) /\ (k + 1) + 1 = k + 2
    BY <1>1, <1>4, <1>8, <1>9 DEF Joined
  <2>2. \A i \in 1..(k + 2) : p[i] = h[i]  BY <1>8, <1>9 DEF Joined
  <2>3. \A i \in 1..Len(body) : p[(k + 2) + i] = e[i]  BY <1>4, <1>8, <1>9 DEF Joined
  <2>4. (\A i \in 1..k : i \in 1..(k + 2)) /\ k + 1 \in 1..(k + 2) /\ k + 2 \in 1..(k + 2)
    BY <1>1
  <2> QED  BY <1>4, <1>9, <2>1, <2>2, <2>3, <2>4
<1>11. b[k + 1] < Half /\ \A i \in 2..k : b[i] >= Half  BY <1>1, AtField DEF Buffer
<1>12. k + 1 \in 1..4 /\ k + 1 < Len(p)  BY <1>1, <1>10
<1>13. FrameField(p) = k + 1 /\ DecodedField(p) = k + 1
  <2>1. \A i \in 2..(k + 1) : p[i] >= Half
    <3> TAKE i \in 2..(k + 1)
    <3>1. CASE i = k + 1  BY <1>5, <1>10, <3>1
    <3>2. CASE i # k + 1
      <4>1. i \in 2..k /\ i \in 1..k  BY <1>1, <3>2
      <4> QED  BY <1>10, <1>11, <4>1
    <3> QED  BY <3>1, <3>2
  <2>2. p[(k + 1) + 1] < Half  BY <1>10
  <2> DEFINE m == k + 1
  <2>3. m \in 1..4 /\ m < Len(p) /\ (\A i \in 2..m : p[i] >= Half) /\ p[m + 1] < Half
    BY <1>12, <2>1, <2>2
  <2> HIDE DEF m
  <2>4. FrameField(p) = m /\ DecodedField(p) = m  BY <1>8, <2>3, FieldAt
  <2> QED  BY <2>4 DEF m
<1>14. Value(p, k + 1) = Len(body)
  <2>1. Value(p, k + 1) = Value(p, k) + (0 % Half) * Multiplier(k)
    <3>1. Value(p, k + 1) =
            Value(p, (k + 1) - 1) + (p[(k + 1) + 1] % Half) * Multiplier((k + 1) - 1)
      BY <1>8, <1>12, ValueSteps
    <3>2. (k + 1) - 1 = k  BY <1>1
    <3> QED  BY <1>10, <3>1, <3>2
  <2>2. k \in 1..4 /\ k \in 0..4 /\ k < Len(p) /\ k < Len(b)  BY <1>1, <1>10
  <2>3. 0 % Half = 0 /\ Multiplier(k) \in Nat /\ Value(p, k) \in Nat
    <3>1. Multiplier(k) \in Nat  BY <2>2, MultiplierFacts
    <3>2. Value(p, k) \in Nat  BY <1>8, <2>2, ValueType
    <3> QED  BY <3>1, <3>2
  <2>4. Value(p, k) = Value(p, k - 1) + (p[k + 1] % Half) * Multiplier(k - 1)
    BY <1>8, <2>2, ValueSteps
  <2>5. Value(b, k) = Value(b, k - 1) + (b[k + 1] % Half) * Multiplier(k - 1)
    BY <1>1, <2>2, ValueSteps DEF Buffer
  <2>6. Value(p, k - 1) = Value(b, k - 1)
    <3>1. k - 1 \in 0..4 /\ k - 1 < Len(p) /\ k - 1 < Len(b)  BY <2>2
    <3>2. \A i \in 2..((k - 1) + 1) : p[i] = b[i]
      <4>1. \A i \in 2..((k - 1) + 1) : i \in 1..k  BY <1>1
      <4> QED  BY <1>10, <4>1
    <3> QED  BY <1>1, <1>8, <3>1, <3>2, ValueAgrees DEF Buffer
  <2>7. p[k + 1] % Half = b[k + 1] % Half
    <3> DEFINE z == b[n]
    <3>1. z \in 0..(Half - 1) /\ p[k + 1] = Half * 1 + z  BY <1>5, <1>10, <1>11
    <3>2. z = Half * 0 + z  BY <3>1
    <3> HIDE DEF z
    <3>3. (Half * 1 + z) % Half = z /\ (Half * 0 + z) % Half = z  BY <3>1, DivMult
    <3> QED  BY <3>1, <3>2, <3>3 DEF z
  <2>8. Value(b, k) = Len(body)  BY DEF Shape
  <2>9. Value(p, k) = Len(body)  BY <2>4, <2>5, <2>6, <2>7, <2>8
  <2> QED  BY <2>1, <2>3, <2>9
<1>15. p[1] = 16 * type + flags
  <2>1. 1 \in 1..k  BY <1>1
  <2> QED  BY <1>10, <2>1 DEF Shape
<1>16. Shape(p, k + 1, type, flags, body)
  BY <1>8, <1>10, <1>12, <1>13, <1>14, <1>15 DEF Shape
<1> QED  BY <1>2, <1>16

\* A packet on the wire, whether its length is padded or not.
LEMMA SentShape ==
  ASSUME NEW type \in Nat, NEW flags \in Nat, NEW body \in Buffer, Len(body) <= MaxBody,
         NEW b \in Lengthened(Packet(type, flags, body))
  PROVE  \E k : Shape(b, k, type, flags, body)
<1>1. PICK k : Shape(Packet(type, flags, body), k, type, flags, body)  BY PacketShape
<1>2. b = Packet(type, flags, body) \/ (k < 4 /\ b = Padded(Packet(type, flags, body)))
  BY <1>1 DEF Lengthened, Shape
<1>3. CASE b = Packet(type, flags, body)  BY <1>1, <1>3
<1>4. CASE k < 4 /\ b = Padded(Packet(type, flags, body))
  <2> DEFINE q == Packet(type, flags, body)
  <2> HIDE DEF q
  <2>1. Shape(Padded(q), k + 1, type, flags, body)  BY <1>1, <1>4, PaddedShape DEF q
  <2> QED  BY <1>4, <2>1 DEF q
<1> QED  BY <1>2, <1>3, <1>4

\* Such a packet is one packet for mqtt_frame_info, and its body for
\* parse_control_packet.
LEMMA ShapeReads ==
  ASSUME NEW b, NEW k, NEW type \in 1..14, NEW flags \in 0..15, NEW body \in Buffer,
         Shape(b, k, type, flags, body), FlagsFit(type, flags)
  PROVE  /\ Complete(b) /\ FrameSize(b) = Len(b)
         /\ Type(b) = type /\ Flags(b) = flags /\ Body(b) = {body}
         /\ Parsed(b) = ParseMessage(type, flags, body)
<1> USE DEF Shape
<1>1. Len(body) \in Nat  BY DEF Buffer
<1>2. FrameSize(b) = Len(b) /\ Complete(b)  BY <1>1 DEF FrameSize, Complete
<1>3. Type(b) = type /\ Flags(b) = flags
  BY DEF Type, Flags
<1>4. SubSeq(b, k + 2, k + 1 + Len(body)) = body
  <2> DEFINE e == SubSeq(b, k + 2, k + 1 + Len(body))
  <2>1. k + 1 \in 0..Len(b) /\ (k + 1) + 1 = k + 2 /\ Len(b) = k + 1 + Len(body) /\ b \in Seq(Nat)
    BY <1>1 DEF Buffer
  <2>2. /\ SubSeq(b, (k + 1) + 1, Len(b)) \in Seq(Nat)
        /\ Len(SubSeq(b, (k + 1) + 1, Len(b))) = Len(b) - (k + 1)
        /\ \A i \in 1..(Len(b) - (k + 1)) : SubSeq(b, (k + 1) + 1, Len(b))[i] = b[(k + 1) + i]
    BY <2>1, CutAt, Zenon
  <2>3. e \in Seq(Nat) /\ Len(e) = Len(body) /\ \A i \in 1..Len(body) : e[i] = b[(k + 1) + i]
    <3>1. Len(b) - (k + 1) = Len(body)  BY <1>1, <2>1
    <3> QED  BY <2>1, <2>2, <3>1, Zenon
  <2> HIDE DEF e
  <2>4. \A i \in 1..Len(body) : e[i] = body[i]
    <3>1. k + 1 = 1 + k  OBVIOUS
    <3> QED  BY <2>3, <3>1
  <2>5. e = body  BY <2>3, <2>4, SeqEqual DEF Buffer
  <2> QED  BY <2>5 DEF e
<1>5. Body(b) = {body}
  <2>1. DecodedField(b) = k /\ Value(b, k) = Len(body) /\ k # TooMany  OBVIOUS
  <2>2. Len(b) >= 2 /\ Len(b) - (k + 1) >= Len(body)  BY <1>1
  <2> QED  BY <1>3, <1>4, <2>1, <2>2 DEF Body
<1> QED  BY <1>2, <1>3, <1>5 DEF Parsed

----------------------------------------------------------------------------
(* Numbers and strings: what is written is read, and what is behind it is  *)
(* left over.                                                              *)

\* write_u16 and read_u16.
LEMMA NumberRead ==
  ASSUME NEW v \in 0..(Base * Base - 1), NEW rest \in Buffer
  PROVE  /\ U16(v) \in Buffer
         /\ ReadU16(Cat(U16(v), rest)) = {<<v, rest>>}
<1> DEFINE B == Base
           q == v \div B
           r == v % B
           u == U16(v)
           b == Cat(u, rest)
<1>1. B \in Nat /\ B > 0  BY DEF Base
<1>2. v \in Nat /\ v < B * B
  <2>1. B * B \in Nat  BY <1>1
  <2> HIDE DEF B
  <2> QED  BY <2>1 DEF B
<1>3. u = <<q % B, r>>  BY DEF U16
<1> HIDE DEF u, B
<1>4. q \in Nat /\ r \in 0..(B - 1) /\ v = B * q + r  BY <1>1, <1>2, DivMod
<1>5. q < B  BY <1>1, <1>2, DivBound
<1> HIDE DEF q, r
<1>6. q % B = q
  <2>1. q \in 0..(B - 1) /\ B * 0 + q = q  BY <1>1, <1>4, <1>5
  <2>2. (B * 0 + q) % B = q  BY <1>1, <2>1, DivMult
  <2> QED  BY <2>1, <2>2
<1>7. u \in Buffer /\ Len(u) = 2 /\ u[1] = q /\ u[2] = r  BY <1>3, <1>4, <1>6 DEF Buffer
<1>8. b \in Buffer /\ Joined(b, u, rest)  BY <1>7, CatAt DEF Buffer
<1>9. SubSeq(b, Len(u) + 1, Len(b)) = rest  BY <1>7, CutCat, Zenon DEF Buffer
<1> HIDE DEF b
<1>10. Len(b) >= 2 /\ b[1] = q /\ b[2] = r  BY <1>7, <1>8 DEF Joined
<1>11. From(b, 3) = rest
  <2>1. Len(u) + 1 = 3  BY <1>7
  <2> QED  BY <1>9, <2>1 DEF From
<1>12. ReadU16(b) = {<<B * q + r, rest>>}  BY <1>10, <1>11 DEF ReadU16, B
<1>13. ReadU16(b) = {<<v, rest>>}  BY <1>4, <1>12
<1> QED  BY <1>7, <1>13 DEF b, u

\* write_string and read_string.
LEMMA StringRead ==
  ASSUME NEW s \in Buffer, Len(s) < Base * Base, NEW rest \in Buffer
  PROVE  /\ WithLength(s) \in Buffer
         /\ ReadString(Cat(WithLength(s), rest)) = {<<s, rest>>}
<1> DEFINE v == Len(s)
           u == U16(v)
           c == Cat(s, rest)
           b == Cat(u, c)
<1>1. v \in 0..(Base * Base - 1)
  <2> DEFINE BB == Base * Base
  <2>1. BB \in Nat  BY DEF Base
  <2>2. v \in Nat /\ v < BB  BY DEF Buffer
  <2> HIDE DEF BB, v
  <2>3. v \in 0..(BB - 1)  BY <2>1, <2>2
  <2> QED  BY <2>3 DEF BB
<1> HIDE DEF v
<1>2. c \in Buffer /\ Joined(c, s, rest)  BY CatAt DEF Buffer
<1>3. SubSeq(c, 1, v) = s /\ SubSeq(c, v + 1, Len(c)) = rest  BY CutCat, Zenon DEF Buffer, v
<1> HIDE DEF c
<1>4. u \in Buffer /\ ReadU16(b) = {<<v, c>>}  BY <1>1, <1>2, NumberRead
<1>5. Cat(WithLength(s), rest) = b
  <2>1. Cat(Cat(u, s), rest) = Cat(u, Cat(s, rest))
    <3>1. u \in Seq(Nat) /\ s \in Seq(Nat) /\ rest \in Seq(Nat)  BY <1>4 DEF Buffer
    <3> HIDE DEF u
    <3> QED  BY <3>1, CatAssociative
  <2>2. WithLength(s) = Cat(u, s)  BY Zenon DEF WithLength, Cat, v
  <2> QED  BY <2>1, <2>2 DEF c
<1>6. WithLength(s) \in Buffer
  <2>1. Cat(u, s) \in Buffer  BY <1>4, CatAt DEF Buffer
  <2>2. WithLength(s) = Cat(u, s)  BY Zenon DEF WithLength, Cat, v
  <2> QED  BY <2>1, <2>2
<1> HIDE DEF b
<1>7. v <= Len(c)  BY <1>2 DEF Joined, v
<1>8. ReadString(b) = {<<s, rest>>}
  <2> DEFINE Fitting == {x \in ReadU16(b) : x[1] <= Len(x[2])}
             p == <<v, c>>
  <2>1. Fitting = {p}  BY <1>4, <1>7
  <2>2. From(c, v + 1) = rest  BY <1>3 DEF From
  <2>3. ReadString(b) = {<<SubSeq(r[2], 1, r[1]), From(r[2], r[1] + 1)>> : r \in Fitting}
    BY Zenon DEF ReadString
  <2>4. p[1] = v /\ p[2] = c  OBVIOUS
  <2> HIDE DEF Fitting, p
  <2>5. {<<SubSeq(r[2], 1, r[1]), From(r[2], r[1] + 1)>> : r \in Fitting}
          = {<<SubSeq(p[2], 1, p[1]), From(p[2], p[1] + 1)>>}
    BY <2>1, Zenon
  <2> QED  BY <1>3, <2>2, <2>3, <2>4, <2>5
<1> QED  BY <1>5, <1>6, <1>8

----------------------------------------------------------------------------
(* Rows of strings, with some bytes behind each.                           *)

Short == {s \in Buffer : Len(s) < Base * Base}

Pair(extra) == Short \X {x \in Buffer : Len(x) = extra}
PairBytes(p) == Cat(WithLength(p[1]), p[2])
PairsBytes(t) == FlattenSeq([i \in DOMAIN t |-> PairBytes(t[i])])

\* A string is read where there is room for it.
LEMMA ReadStringDef ==
  ASSUME NEW b \in Buffer, NEW s \in ReadString(b)
  PROVE  /\ Len(b) >= 2 /\ s = <<s[1], s[2]>> /\ s[1] \in Buffer /\ s[2] \in Buffer
         /\ Cat(s[1], s[2]) = SubSeq(b, 3, Len(b)) /\ Len(s[1]) = Base * b[1] + b[2]
<1> DEFINE v == Base * b[1] + b[2]
           c == From(b, 3)
           p == <<v, c>>
           Fitting == {x \in ReadU16(b) : x[1] <= Len(x[2])}
<1>1. ReadString(b) = {<<SubSeq(r[2], 1, r[1]), From(r[2], r[1] + 1)>> : r \in Fitting}
  BY Zenon DEF ReadString
<1>2. PICK r \in Fitting : s = <<SubSeq(r[2], 1, r[1]), From(r[2], r[1] + 1)>>
  <2> HIDE DEF Fitting
  <2> QED  BY <1>1
<1>3. Len(b) >= 2 /\ r = p
  <2>1. r \in ReadU16(b)  OBVIOUS
  <2> QED  BY <2>1 DEF ReadU16
<1>4. p[1] = v /\ p[2] = c  OBVIOUS
<1>5. v <= Len(c)
  <2>1. r[1] <= Len(r[2])  OBVIOUS
  <2> HIDE DEF p
  <2> QED  BY <1>3, <1>4, <2>1
<1>6. s = <<SubSeq(c, 1, v), SubSeq(c, v + 1, Len(c))>>
  <2> HIDE DEF p, v, c
  <2> QED  BY <1>2, <1>3, <1>4 DEF From
<1>7. c \in Seq(Nat)
  <2>1. b \in Seq(Nat) /\ 2 \in 0..Len(b) /\ 2 + 1 = 3  BY <1>3 DEF Buffer
  <2>2. SubSeq(b, 2 + 1, Len(b)) \in Seq(Nat)  BY <2>1, CutAt, Zenon
  <2> QED  BY <2>1, <2>2, Zenon DEF From
<1>8. v \in Nat
  <2>1. b[1] \in Nat /\ b[2] \in Nat /\ Base \in Nat  BY <1>3 DEF Buffer, Base
  <2> DEFINE B == Base
  <2> HIDE DEF B
  <2>2. B * b[1] \in Nat  BY <2>1 DEF B
  <2> QED  BY <2>1, <2>2 DEF B
<1> HIDE DEF v, c
<1>9. v \in 0..Len(c)  BY <1>5, <1>7, <1>8
<1> DEFINE x == SubSeq(c, 1, v)
           y == SubSeq(c, v + 1, Len(c))
<1>10. x \in Seq(Nat) /\ Len(x) = v /\ y \in Seq(Nat) /\ x \o y = c  BY <1>7, <1>9, CutAt, Zenon
<1> HIDE DEF x, y
<1>11. s = <<x, y>>  BY <1>6 DEF x, y
<1>12. s[1] = x /\ s[2] = y  BY <1>11
<1>13. Cat(x, y) = c  BY <1>10, Zenon DEF Cat
<1> QED  BY <1>3, <1>10, <1>11, <1>12, <1>13, Zenon DEF Buffer, v, c, From

\* One round.
Round(R, extra) ==
  UNION {{<<Append(r[1], <<s[1], SubSeq(s[2], 1, extra)>>), From(s[2], extra + 1)>> :
             s \in {x \in ReadString(r[2]) : Len(x[2]) >= extra}} : r \in R}

\* What a round can get.
ReadSoFar == Seq(Buffer \X Buffer) \X Buffer

LEMMA RoundType ==
  ASSUME NEW R \in SUBSET ReadSoFar, NEW extra \in Nat, NEW z \in Round(R, extra)
  PROVE  \E r \in R : \E s \in ReadString(r[2]) :
           /\ r[1] \in Seq(Buffer \X Buffer) /\ r[2] \in Buffer
           /\ s[1] \in Buffer /\ s[2] \in Buffer /\ Len(s[2]) >= extra
           /\ SubSeq(s[2], 1, extra) \in Buffer /\ Len(SubSeq(s[2], 1, extra)) = extra
           /\ From(s[2], extra + 1) \in Buffer
           /\ Cat(SubSeq(s[2], 1, extra), From(s[2], extra + 1)) = s[2]
           /\ z = <<Append(r[1], <<s[1], SubSeq(s[2], 1, extra)>>), From(s[2], extra + 1)>>
           /\ z \in ReadSoFar
<1>0. PICK r \in R : \E s \in {x \in ReadString(r[2]) : Len(x[2]) >= extra} :
        z = <<Append(r[1], <<s[1], SubSeq(s[2], 1, extra)>>), From(s[2], extra + 1)>>
  BY DEF Round
<1>1. PICK s \in {x \in ReadString(r[2]) : Len(x[2]) >= extra} :
        z = <<Append(r[1], <<s[1], SubSeq(s[2], 1, extra)>>), From(s[2], extra + 1)>>
  BY <1>0, Zenon
<1>2. r[1] \in Seq(Buffer \X Buffer) /\ r[2] \in Buffer  BY DEF ReadSoFar
<1>3. s \in ReadString(r[2]) /\ Len(s[2]) >= extra  OBVIOUS
<1>4. s[1] \in Buffer /\ s[2] \in Buffer  BY <1>2, <1>3, ReadStringDef
<1> DEFINE c == s[2]
           x == SubSeq(c, 1, extra)
           y == SubSeq(c, extra + 1, Len(c))
<1>5. c \in Seq(Nat) /\ extra \in 0..Len(c)  BY <1>3, <1>4 DEF Buffer
<1> HIDE DEF c
<1>6. x \in Buffer /\ Len(x) = extra /\ y \in Buffer /\ Cat(x, y) = c
  BY <1>5, CutAt, Zenon DEF Cat, Buffer
<1> HIDE DEF x, y
<1> DEFINE p == <<s[1], x>>
<1>7. p \in Buffer \X Buffer  BY <1>4, <1>6
<1> HIDE DEF p
<1>8. Append(r[1], p) \in Seq(Buffer \X Buffer)  BY <1>2, <1>7, AppendProperties
<1>9. z = <<Append(r[1], p), y>>  BY <1>1, Zenon DEF From, p, x, y, c
<1>10. z \in ReadSoFar  BY <1>6, <1>8, <1>9 DEF ReadSoFar
<1> QED  BY <1>1, <1>2, <1>3, <1>4, <1>6, <1>9, <1>10, Zenon DEF From, p, x, y, c

\* The loop over rounds without its recursion.
LEMMA RoundsDef ==
  ASSUME NEW n \in Nat, NEW b \in Buffer, NEW extra \in Nat
  PROVE  \E f \in [0..n -> SUBSET ReadSoFar] :
           /\ f[0] = {<<<<>>, b>>} /\ \A i \in 1..n : f[i] = Round(f[i - 1], extra)
           /\ ReadRounds(n, b, extra) = f[n]
<1> DEFINE V == SUBSET ReadSoFar
           start == {<<<<>>, b>>}
           round == [i \in 1..n |-> [R \in V |-> Round(R, extra)]]
           Equation(f) == f = [k \in 0..n |-> IF k = 0 THEN start ELSE Round(f[k - 1], extra)]
           chosen == CHOOSE f : Equation(f)
<1>1. start \in V
  <2> DEFINE T == Seq(Buffer \X Buffer)
             z == <<<<>>, b>>
  <2>1. <<>> \in T  OBVIOUS
  <2> HIDE DEF T
  <2>2. z \in T \X Buffer  BY <2>1
  <2> HIDE DEF z
  <2>3. {z} \in SUBSET (T \X Buffer)  BY <2>2
  <2> QED  BY <2>3 DEF ReadSoFar, T, z
<1>2. ReadRounds(n, b, extra) = chosen[n]  BY Zenon DEF ReadRounds, Round
<1> HIDE DEF start
<1>3. \A R \in V : Round(R, extra) \in V
  <2>1. ASSUME NEW R \in V, NEW z \in Round(R, extra) PROVE z \in ReadSoFar  BY RoundType
  <2> QED  BY <2>1
<1> HIDE DEF V
<1>4. PICK f : f \in [0..n -> V] /\ Loop(f, n, start, round)
  <2>1. round \in Rounds(n, V)  BY <1>3 DEF Rounds
  <2> HIDE DEF round
  <2> QED  BY <1>1, <2>1, FoldExists, Zenon
<1>5. f[0] = start /\ \A i \in 1..n : f[i] = Round(f[i - 1], extra)
  <2>1. \A i \in 1..n : f[i - 1] \in V  BY <1>4
  <2> QED  BY <1>4, <2>1 DEF Loop
<1>6. Equation(f)
  <2>1. f = [i \in 0..n |-> f[i]]  BY <1>4
  <2>2. \A i \in 0..n : f[i] = IF i = 0 THEN start ELSE Round(f[i - 1], extra)  BY <1>5
  <2> QED  BY <2>1, <2>2
<1>7. Equation(chosen)
  <2> HIDE DEF Equation
  <2> QED  BY <1>6, Zenon
<1>8. chosen = f
  <2> HIDE DEF chosen
  <2>1. \A i \in 0..n : chosen[i] = IF i = 0 THEN start ELSE Round(chosen[i - 1], extra)  BY <1>7
  <2>2. SameRounds(f, chosen, n)  BY <1>5, <2>1 DEF SameRounds
  <2>3. \A i \in 0..n : f[i] = chosen[i]
    <3>1. n \in Nat  OBVIOUS
    <3>2. Agree(f, chosen, n)  BY <2>2, <3>1, AllFoldsAgree, Zenon
    <3> QED  BY <3>2 DEF Agree
  <2>4. chosen = [i \in 0..n |-> chosen[i]]  BY <1>7
  <2> QED  BY <1>4, <2>3, <2>4
<1> HIDE DEF chosen
<1> QED  BY <1>2, <1>4, <1>5, <1>8, Zenon DEF V, start

\* One round more.
LEMMA RoundsSteps ==
  ASSUME NEW b \in Buffer, NEW extra \in Nat
  PROVE  /\ ReadRounds(0, b, extra) = {<<<<>>, b>>}
         /\ \A n \in Nat : /\ ReadRounds(n, b, extra) \in SUBSET ReadSoFar
                           /\ ReadRounds(n + 1, b, extra) = Round(ReadRounds(n, b, extra), extra)
<1> DEFINE V == SUBSET ReadSoFar
           start == {<<<<>>, b>>}
           Steps(f, n) == f[0] = start /\ \A i \in 1..n : f[i] = Round(f[i - 1], extra)
<1>1. ASSUME NEW n, n \in Nat
      PROVE  \E f \in [0..n -> V] : Steps(f, n) /\ ReadRounds(n, b, extra) = f[n]
  BY <1>1, RoundsDef
<1> HIDE DEF V, start
<1>2. ReadRounds(0, b, extra) = start
  <2>1. PICK f \in [0..0 -> V] : Steps(f, 0) /\ ReadRounds(0, b, extra) = f[0]  BY <1>1, Zenon
  <2> QED  BY <2>1
<1>3. ASSUME NEW n \in Nat
      PROVE  /\ ReadRounds(n, b, extra) \in V
             /\ ReadRounds(n + 1, b, extra) = Round(ReadRounds(n, b, extra), extra)
  <2> DEFINE m == n + 1
  <2>1. m \in Nat /\ n \in 0..n /\ n \in 0..m /\ m \in 1..m /\ m - 1 = n /\ \A i \in 1..n : i \in 1..m
    OBVIOUS
  <2> HIDE DEF m
  <2>2. PICK f \in [0..n -> V] : Steps(f, n) /\ ReadRounds(n, b, extra) = f[n]  BY <1>1, Zenon
  <2>3. PICK g \in [0..m -> V] : Steps(g, m) /\ ReadRounds(m, b, extra) = g[m]
    BY <1>1, <2>1, Zenon
  <2>4. SameRounds(f, g, n)  BY <2>1, <2>2, <2>3 DEF SameRounds
  <2>5. \A i \in 0..n : f[i] = g[i]
    <3>1. n \in Nat  OBVIOUS
    <3>2. Agree(f, g, n)  BY <2>4, <3>1, AllFoldsAgree, Zenon
    <3> QED  BY <3>2 DEF Agree
  <2>6. f[n] \in V /\ f[n] = g[n] /\ g[m] = Round(g[m - 1], extra)  BY <2>1, <2>2, <2>3, <2>5
  <2> QED  BY <2>1, <2>2, <2>3, <2>6 DEF m
<1> QED  BY <1>2, <1>3 DEF V, start

LEMMA ShortLength ==
  ASSUME NEW s \in Short
  PROVE  Len(s) \in Number /\ s \in Buffer /\ Len(s) < Base * Base
<1> DEFINE BB == Base * Base
<1>1. BB \in Nat  BY DEF Base
<1>2. s \in Buffer /\ Len(s) < Base * Base /\ Len(s) \in Nat  BY DEF Short, Buffer
<1>3. Len(s) < BB  BY <1>2
<1> HIDE DEF BB
<1>4. Len(s) \in 0..(BB - 1)  BY <1>1, <1>2, <1>3
<1> QED  BY <1>2, <1>4 DEF BB, Number

LEMMA WithLengthType ==
  ASSUME NEW s \in Short
  PROVE  /\ WithLength(s) \in Buffer /\ Len(WithLength(s)) = 2 + Len(s)
         /\ WithLength(s) = Cat(U16(Len(s)), s)
<1> DEFINE u == U16(Len(s))
<1>1. s \in Buffer /\ Len(s) \in Number  BY ShortLength
<1>2. u \in Buffer  BY <1>1, NumberRead DEF Number
<1>3. Len(u) = 2  BY DEF U16
<1> HIDE DEF u
<1>4. WithLength(s) = Cat(u, s)  BY Zenon DEF WithLength, Cat, u
<1>5. Cat(u, s) \in Buffer /\ Joined(Cat(u, s), u, s)  BY <1>1, <1>2, CatAt DEF Buffer
<1>6. Len(Cat(u, s)) = 2 + Len(s)  BY <1>3, <1>5 DEF Joined
<1> QED  BY <1>4, <1>5, <1>6 DEF u

LEMMA PairType ==
  ASSUME NEW extra \in Nat, NEW p \in Pair(extra)
  PROVE  /\ p[1] \in Short /\ p[1] \in Buffer /\ p[2] \in Buffer /\ Len(p[2]) = extra /\ p = <<p[1], p[2]>>
         /\ PairBytes(p) \in Buffer /\ Len(PairBytes(p)) >= 2
<1> DEFINE w == WithLength(p[1])
<1>1. p[1] \in Short /\ p[2] \in Buffer /\ Len(p[2]) = extra /\ p = <<p[1], p[2]>>  BY DEF Pair
<1>2. p[1] \in Buffer  BY <1>1 DEF Short
<1>3. w \in Buffer /\ Len(w) = 2 + Len(p[1])  BY <1>1, WithLengthType
<1> HIDE DEF w
<1>4. PairBytes(p) = Cat(w, p[2])  BY DEF PairBytes, w
<1>5. Cat(w, p[2]) \in Buffer /\ Joined(Cat(w, p[2]), w, p[2])  BY <1>1, <1>3, CatAt DEF Buffer
<1>6. Len(Cat(w, p[2])) >= 2
  <2>1. Len(p[1]) \in Nat  BY <1>2 DEF Buffer
  <2> QED  BY <1>1, <1>3, <1>5, <2>1 DEF Joined
<1> QED  BY <1>1, <1>2, <1>4, <1>5, <1>6

\* The bytes of each pair.
Pieces(t) == [i \in DOMAIN t |-> PairBytes(t[i])]

LEMMA PiecesType ==
  ASSUME NEW extra \in Nat, NEW t \in Seq(Pair(extra))
  PROVE  Pieces(t) \in Seq(Buffer) /\ Len(Pieces(t)) = Len(t)
<1>1. \A i \in 1..Len(t) : t[i] \in Pair(extra)  OBVIOUS
<1>2. \A i \in 1..Len(t) : PairBytes(t[i]) \in Buffer  BY <1>1, PairType
<1>3. DOMAIN t = 1..Len(t) /\ Len(t) \in Nat  OBVIOUS
<1> QED  BY <1>2, <1>3 DEF Pieces

LEMMA PairsBytesType ==
  ASSUME NEW extra \in Nat, NEW t \in Seq(Pair(extra))
  PROVE  PairsBytes(t) \in Buffer
<1>1. Pieces(t) \in Seq(Seq(Nat))  BY PiecesType DEF Buffer
<1>2. PairsBytes(t) = FlattenSeq(Pieces(t))  BY DEF PairsBytes, Pieces
<1> QED  BY <1>1, <1>2, FlattenType DEF Buffer

LEMMA PairsBytesEmpty == PairsBytes(<<>>) = <<>>
<1>1. [i \in DOMAIN <<>> |-> PairBytes(<<>>[i])] = <<>>
  <2>1. DOMAIN <<>> = {}  OBVIOUS
  <2>2. [i \in {} |-> PairBytes(<<>>[i])] = <<>>  OBVIOUS
  <2> QED  BY <2>1, <2>2
<1> QED  BY <1>1, FlattenEmpty DEF PairsBytes

LEMMA PairsBytesConcat ==
  ASSUME NEW extra \in Nat, NEW t \in Seq(Pair(extra)), NEW u \in Seq(Pair(extra))
  PROVE  PairsBytes(Cat(t, u)) = Cat(PairsBytes(t), PairsBytes(u))
<1> DEFINE P == Pair(extra)
           pt == Pieces(t)
           pu == Pieces(u)
           c == Cat(t, u)
<1>1. pt \in Seq(Seq(Nat)) /\ Len(pt) = Len(t) /\ pu \in Seq(Seq(Nat)) /\ Len(pu) = Len(u)
  BY PiecesType DEF Buffer
<1>2. c \in Seq(P) /\ Joined(c, t, u)  BY CatAt
<1>3. Pieces(c) \in Seq(Seq(Nat)) /\ Len(Pieces(c)) = Len(c)  BY <1>2, PiecesType DEF Buffer
<1>4. Cat(pt, pu) \in Seq(Seq(Nat)) /\ Joined(Cat(pt, pu), pt, pu)  BY <1>1, CatAt
<1>5. /\ \A i \in 1..Len(t) : pt[i] = PairBytes(t[i])
      /\ \A i \in 1..Len(u) : pu[i] = PairBytes(u[i])
      /\ \A i \in 1..Len(c) : Pieces(c)[i] = PairBytes(c[i])
  <2>1. DOMAIN t = 1..Len(t) /\ DOMAIN u = 1..Len(u) /\ DOMAIN c = 1..Len(c)  BY <1>2
  <2> HIDE DEF c
  <2> QED  BY <2>1 DEF Pieces
<1> HIDE DEF pt, pu, c, P
<1>6. Len(c) = Len(t) + Len(u) /\ Len(t) \in Nat /\ Len(u) \in Nat  BY <1>2 DEF Joined
<1>7. \A i \in 1..Len(c) : Pieces(c)[i] = Cat(pt, pu)[i]
  <2> TAKE i \in 1..Len(c)
  <2>1. CASE i <= Len(t)
    <3>1. i \in 1..Len(t)  BY <1>6, <2>1
    <3> QED  BY <1>1, <1>2, <1>4, <1>5, <3>1 DEF Joined
  <2>2. CASE i > Len(t)
    <3>1. PICK j \in 1..Len(u) : i = Len(t) + j
      <4>1. i - Len(t) \in 1..Len(u) /\ i = Len(t) + (i - Len(t))  BY <1>6, <2>2
      <4> QED  BY <4>1
    <3>2. c[i] = u[j]  BY <1>2, <3>1 DEF Joined
    <3>3. Cat(pt, pu)[i] = pu[j]  BY <1>1, <1>4, <3>1 DEF Joined
    <3> QED  BY <1>5, <3>2, <3>3
  <2> QED  BY <1>6, <2>1, <2>2
<1>8. Len(Pieces(c)) = Len(Cat(pt, pu))  BY <1>1, <1>3, <1>4, <1>6 DEF Joined
<1>9. Pieces(c) = Cat(pt, pu)  BY <1>3, <1>4, <1>7, <1>8, SeqEqual
<1>10. FlattenSeq(Cat(pt, pu)) = Cat(FlattenSeq(pt), FlattenSeq(pu))  BY <1>1, FlattenConcat
<1>11. \A x : PairsBytes(x) = FlattenSeq(Pieces(x))  BY DEF PairsBytes, Pieces
<1> QED  BY <1>9, <1>10, <1>11 DEF c, pt, pu

LEMMA PairsBytesOne ==
  ASSUME NEW extra \in Nat, NEW p \in Pair(extra)
  PROVE  PairsBytes(<<p>>) = PairBytes(p) /\ <<p>> \in Seq(Pair(extra))
<1>1. PairBytes(p) \in Seq(Nat)  BY PairType DEF Buffer
<1>2. Pieces(<<p>>) = <<PairBytes(p)>>
  <2>1. DOMAIN <<p>> = {1} /\ <<p>>[1] = p  OBVIOUS
  <2>2. [i \in {1} |-> PairBytes(<<p>>[i])] = <<PairBytes(p)>>  OBVIOUS
  <2> QED  BY <2>1, <2>2 DEF Pieces
<1>3. PairsBytes(<<p>>) = FlattenSeq(Pieces(<<p>>))  BY DEF PairsBytes, Pieces
<1> QED  BY <1>1, <1>2, <1>3, FlattenOne

LEMMA PairsBytesAppend ==
  ASSUME NEW extra \in Nat, NEW t \in Seq(Pair(extra)), NEW p \in Pair(extra)
  PROVE  PairsBytes(Append(t, p)) = Cat(PairsBytes(t), PairBytes(p))
<1>1. PairsBytes(<<p>>) = PairBytes(p) /\ <<p>> \in Seq(Pair(extra))  BY PairsBytesOne
<1>2. Append(t, p) = Cat(t, <<p>>)
  <2> DEFINE S == Pair(extra)
  <2>1. t \in Seq(S) /\ p \in S  OBVIOUS
  <2> HIDE DEF S
  <2> QED  BY <2>1 DEF Cat
<1> QED  BY <1>1, <1>2, PairsBytesConcat

\* One round in which one string, and what is behind it, can be read.
LEMMA RoundOne ==
  ASSUME NEW r, NEW extra, NEW s, ReadString(r[2]) = {s}, Len(s[2]) >= extra
  PROVE  Round({r}, extra) =
           {<<Append(r[1], <<s[1], SubSeq(s[2], 1, extra)>>), From(s[2], extra + 1)>>}
<1> DEFINE Fitting(z) == {x \in ReadString(z[2]) : Len(x[2]) >= extra}
           New(z, x) == <<Append(z[1], <<x[1], SubSeq(x[2], 1, extra)>>), From(x[2], extra + 1)>>
<1>1. Round({r}, extra) = UNION {{New(z, x) : x \in Fitting(z)} : z \in {r}}  BY Zenon DEF Round
<1>2. Fitting(r) = {s}  OBVIOUS
<1> HIDE DEF New, Fitting
<1>4. {New(r, x) : x \in Fitting(r)} = {New(r, s)}  BY <1>2
<1>5. {{New(z, x) : x \in Fitting(z)} : z \in {r}} = {{New(r, x) : x \in Fitting(r)}}  OBVIOUS
<1>6. Round({r}, extra) = {New(r, s)}  BY <1>1, <1>4, <1>5
<1> QED  BY <1>6 DEF New

LEMMA RoundNone ==
  ASSUME NEW R, NEW extra \in Nat, \A r \in R : ReadString(r[2]) = {}
  PROVE  Round(R, extra) = {}
<1> SUFFICES ASSUME NEW z \in Round(R, extra) PROVE FALSE  OBVIOUS
<1>1. PICK r \in R : \E s \in {x \in ReadString(r[2]) : Len(x[2]) >= extra} : TRUE
  BY DEF Round
<1> QED  BY <1>1

\* A row of pairs is read pair by pair, and what is behind it is left over.
LEMMA RoundsRead ==
  ASSUME NEW extra \in Nat, NEW t \in Seq(Pair(extra)), NEW rest \in Buffer
  PROVE  ReadRounds(Len(t), Cat(PairsBytes(t), rest), extra) = {<<t, rest>>}
<1> DEFINE P == Pair(extra)
           Holds(u, x) == ReadRounds(Len(u), Cat(PairsBytes(u), x), extra) = {<<u, x>>}
           D == {n \in Nat : \A u \in Seq(P), x \in Buffer : Len(u) = n => Holds(u, x)}
<1>1. 0 \in D
  <2> SUFFICES ASSUME NEW u \in Seq(P), NEW x \in Buffer, Len(u) = 0 PROVE Holds(u, x)  OBVIOUS
  <2>1. u = <<>>
    <3> HIDE DEF P
    <3> QED  OBVIOUS
  <2>2. Cat(<<>>, x) = x  BY CatEmpty DEF Buffer
  <2>3. ReadRounds(0, x, extra) = {<<<<>>, x>>}  BY RoundsSteps
  <2> QED  BY <2>1, <2>2, <2>3, PairsBytesEmpty
<1>2. ASSUME NEW n \in Nat, n \in D PROVE n + 1 \in D
  <2> SUFFICES ASSUME NEW u \in Seq(P), NEW x \in Buffer, Len(u) = n + 1 PROVE Holds(u, x)
    OBVIOUS
  <2> DEFINE a == SubSeq(u, 1, n)
             p == u[n + 1]
             c == Cat(p[2], x)
             y == Cat(PairBytes(p), x)
             b == Cat(PairsBytes(u), x)
  <2>1. a \in Seq(P) /\ Len(a) = n /\ p \in P /\ u = Append(a, p)
    <3> HIDE DEF P
    <3> QED  BY LastOff
  <2> HIDE DEF a, p
  <2>2. /\ p[1] \in Short /\ p[1] \in Buffer /\ p[2] \in Buffer /\ Len(p[2]) = extra /\ p = <<p[1], p[2]>>
        /\ PairBytes(p) \in Buffer
    BY <2>1, PairType
  <2>3. c \in Buffer /\ Joined(c, p[2], x) /\ SubSeq(c, 1, extra) = p[2]
        /\ From(c, extra + 1) = x
    <3>1. p[2] \in Seq(Nat) /\ x \in Seq(Nat)  BY <2>2 DEF Buffer
    <3>2. c \in Buffer /\ Joined(c, p[2], x)  BY <3>1, CatAt DEF Buffer
    <3>3. /\ SubSeq(c, 1, Len(p[2])) = p[2]
          /\ SubSeq(c, Len(p[2]) + 1, Len(c)) = x
      BY <3>1, CutCat, Zenon
    <3> QED  BY <2>2, <3>2, <3>3 DEF From
  <2> HIDE DEF c
  <2>4. y = Cat(WithLength(p[1]), c) /\ y \in Buffer /\ ReadString(y) = {<<p[1], c>>}
    <3>1. WithLength(p[1]) \in Buffer  BY <2>2, WithLengthType
    <3> DEFINE w == WithLength(p[1])
               e == p[2]
    <3>2. w \in Seq(Nat) /\ e \in Seq(Nat) /\ x \in Seq(Nat)  BY <2>2, <3>1 DEF Buffer
    <3> HIDE DEF w, e
    <3>3. Cat(Cat(w, e), x) = Cat(w, Cat(e, x))  BY <3>2, CatAssociative
    <3>4. Cat(Cat(w, e), x) = y  BY DEF PairBytes, w, e
    <3>5. Cat(e, x) = c  BY DEF c, e
    <3>6. Cat(w, c) \in Buffer /\ ReadString(Cat(w, c)) = {<<p[1], c>>}
      <4>1. Len(p[1]) < Base * Base  BY <2>2, ShortLength
      <4>2. ReadString(Cat(WithLength(p[1]), c)) = {<<p[1], c>>}  BY <2>2, <2>3, <4>1, StringRead
      <4>3. Cat(w, c) \in Buffer  BY <2>3, <3>2, CatAt DEF Buffer
      <4> QED  BY <4>2, <4>3 DEF w
    <3> QED  BY <3>3, <3>4, <3>5, <3>6 DEF w
  <2>5. b = Cat(PairsBytes(a), y) /\ b \in Buffer
    <3> DEFINE q == PairsBytes(a)
               e == PairBytes(p)
    <3>1. q \in Seq(Nat) /\ e \in Seq(Nat) /\ x \in Seq(Nat) /\ y \in Seq(Nat)
      BY <2>1, <2>2, <2>4, PairsBytesType DEF Buffer
    <3>2. PairsBytes(u) = Cat(q, e)  BY <2>1, PairsBytesAppend
    <3> HIDE DEF q, e
    <3>3. Cat(Cat(q, e), x) = Cat(q, Cat(e, x))  BY <3>1, CatAssociative
    <3>4. Cat(q, y) \in Seq(Nat)  BY <3>1, CatAt
    <3> QED  BY <3>2, <3>3, <3>4 DEF q, e, Buffer
  <2> HIDE DEF b, y
  <2>6. ReadRounds(n, b, extra) = {<<a, y>>}
    <3>1. Holds(a, y)  BY <1>2, <2>1, <2>4
    <3> QED  BY <2>1, <2>5, <3>1
  <2>7. Round({<<a, y>>}, extra) = {<<u, x>>}
    <3> DEFINE r == <<a, y>>
               s == <<p[1], c>>
    <3>1. r[1] = a /\ r[2] = y /\ s[1] = p[1] /\ s[2] = c  OBVIOUS
    <3> HIDE DEF r, s
    <3>2. ReadString(r[2]) = {s}  BY <2>4, <3>1 DEF s
    <3>3. Len(s[2]) >= extra  BY <2>2, <2>3, <3>1 DEF Joined
    <3>4. p = <<s[1], SubSeq(s[2], 1, extra)>> /\ x = From(s[2], extra + 1)  BY <2>2, <2>3, <3>1
    <3>5. Round({r}, extra) =
            {<<Append(r[1], <<s[1], SubSeq(s[2], 1, extra)>>), From(s[2], extra + 1)>>}
      BY <3>2, <3>3, RoundOne
    <3> QED  BY <2>1, <3>1, <3>4, <3>5 DEF r
  <2>8. ReadRounds(n + 1, b, extra) = Round(ReadRounds(n, b, extra), extra)
    BY <2>5, RoundsSteps
  <2> QED  BY <2>6, <2>7, <2>8 DEF b
<1>3. Nat \subseteq D
  <2> HIDE DEF D
  <2> QED  BY <1>1, <1>2, SetInduction
<1>4. Len(t) \in D
  <2>1. Len(t) \in Nat  OBVIOUS
  <2> QED  BY <1>3, <2>1
<1> QED  BY <1>4

----------------------------------------------------------------------------
(* The other way: what is read was written.                                *)

Bytes == Seq(Byte)

LEMMA BytesAreBuffer == Bytes \subseteq Buffer
<1> SUFFICES ASSUME NEW b \in Seq(Byte) PROVE b \in Seq(Nat)  BY DEF Bytes, Buffer
<1>1. \A i \in 1..Len(b) : b[i] \in Byte  OBVIOUS
<1>2. \A i \in 1..Len(b) : b[i] \in Nat
  <2>1. \A x \in Byte : x \in Nat  BY DEF Byte
  <2> QED  BY <1>1, <2>1
<1>3. b = [i \in 1..Len(b) |-> b[i]] /\ Len(b) \in Nat  OBVIOUS
<1> QED  BY <1>2, <1>3

\* The parts of a sequence of bytes are sequences of bytes.
LEMMA CatParts ==
  ASSUME NEW S, NEW T, NEW s \in Seq(S), NEW t \in Seq(S), Cat(s, t) \in Seq(T)
  PROVE  s \in Seq(T) /\ t \in Seq(T)
<1> DEFINE u == Cat(s, t)
<1>1. Joined(u, s, t) /\ u \in Seq(T)  BY CatAt
<1> HIDE DEF u
<1>2. \A i \in 1..Len(u) : u[i] \in T  BY <1>1
<1>3. \A i \in 1..Len(s) : s[i] \in T
  <2> TAKE i \in 1..Len(s)
  <2>1. i \in 1..Len(u)  BY <1>1 DEF Joined
  <2> QED  BY <1>1, <1>2, <2>1 DEF Joined
<1>4. \A i \in 1..Len(t) : t[i] \in T
  <2> TAKE i \in 1..Len(t)
  <2>1. Len(s) + i \in 1..Len(u)  BY <1>1 DEF Joined
  <2> QED  BY <1>1, <1>2, <2>1 DEF Joined
<1> QED  BY <1>3, <1>4

\* Two bytes are one number, and it is written as these bytes.
LEMMA NumberOfBytes ==
  ASSUME Half >= 128, NEW x \in Byte, NEW y \in Byte
  PROVE  Base * x + y \in Number /\ U16(Base * x + y) = <<x, y>>
<1> DEFINE B == Base
           v == B * x + y
<1>1. B \in Nat /\ B >= 256  BY DEF Base
<1>2. x \in 0..(B - 1) /\ y \in 0..(B - 1) /\ x \in Nat /\ y \in Nat  BY <1>1 DEF Byte
<1>3. U16(v) = <<(v \div B) % B, v % B>>  BY DEF U16
<1> HIDE DEF B
<1>4. v \div B = x /\ v % B = y  BY <1>1, <1>2, DivMult
<1>5. x % B = x
  <2>1. (B * 0 + x) % B = x  BY <1>1, <1>2, DivMult
  <2>2. B * 0 + x = x  BY <1>1, <1>2
  <2> QED  BY <2>1, <2>2
<1>6. v \in 0..(B * B - 1)
  <2>1. B * x <= B * (B - 1)  BY <1>1, <1>2
  <2>2. B * (B - 1) = B * B - B /\ B * B \in Nat /\ B * x \in Nat  BY <1>1, <1>2
  <2> QED  BY <1>1, <1>2, <2>1, <2>2
<1> QED  BY <1>3, <1>4, <1>5, <1>6 DEF B, Number

\* A number that is read is written as the bytes it was read from.
LEMMA NumberWritten ==
  ASSUME Half >= 128, NEW b \in Bytes, NEW r \in ReadU16(b)
  PROVE  /\ r = <<r[1], r[2]>> /\ r[1] \in Number /\ r[2] \in Bytes
         /\ Cat(U16(r[1]), r[2]) = b
<1> DEFINE v == Base * b[1] + b[2]
           c == From(b, 3)
<1>1. Len(b) >= 2 /\ r = <<v, c>>  BY DEF ReadU16
<1>2. b \in Seq(Byte) /\ b[1] \in Byte /\ b[2] \in Byte  BY <1>1 DEF Bytes
<1>3. v \in Number /\ U16(v) = <<b[1], b[2]>>  BY <1>2, NumberOfBytes
<1> DEFINE h == SubSeq(b, 1, 2)
<1>4. h \in Seq(Byte) /\ Len(h) = 2 /\ (\A i \in 1..2 : h[i] = b[i]) /\ c \in Seq(Byte) /\ Cat(h, c) = b
  <2>1. 2 \in 0..Len(b) /\ 2 + 1 = 3  BY <1>1, <1>2
  <2>2. /\ h \in Seq(Byte) /\ Len(h) = 2 /\ (\A i \in 1..2 : h[i] = b[i])
        /\ SubSeq(b, 2 + 1, Len(b)) \in Seq(Byte)
        /\ h \o SubSeq(b, 2 + 1, Len(b)) = b
    BY <1>2, <2>1, CutAt, Zenon
  <2> QED  BY <2>1, <2>2, Zenon DEF From, Cat
<1> HIDE DEF h, v, c
<1>5. U16(v) = h
  <2> DEFINE p == <<b[1], b[2]>>
  <2>1. p \in Seq(Byte) /\ Len(p) = 2 /\ p[1] = b[1] /\ p[2] = b[2]  BY <1>2
  <2> HIDE DEF p
  <2>2. \A i \in 1..2 : i = 1 \/ i = 2  OBVIOUS
  <2>3. \A i \in 1..2 : p[i] = h[i]  BY <1>4, <2>1, <2>2
  <2>4. p = h  BY <1>4, <2>1, <2>3, SeqEqual
  <2> QED  BY <1>3, <2>4 DEF p
<1>6. r[1] = v /\ r[2] = c  BY <1>1
<1> QED  BY <1>1, <1>3, <1>4, <1>5, <1>6 DEF Bytes

\* And a string.
LEMMA StringWritten ==
  ASSUME Half >= 128, NEW b \in Bytes, NEW s \in ReadString(b)
  PROVE  /\ s = <<s[1], s[2]>> /\ s[1] \in Short /\ s[1] \in Bytes /\ s[2] \in Bytes
         /\ Cat(WithLength(s[1]), s[2]) = b
<1> DEFINE x == s[1]
           y == s[2]
           v == Base * b[1] + b[2]
           c == From(b, 3)
<1>1. b \in Buffer  BY BytesAreBuffer
<1>2. /\ Len(b) >= 2 /\ s = <<x, y>> /\ x \in Buffer /\ y \in Buffer
      /\ Cat(x, y) = c /\ Len(x) = v
  BY <1>1, ReadStringDef DEF From
<1>3. ReadU16(b) = {<<v, c>>}
  <2>1. ~(Len(b) < 2)
    <3>1. Len(b) \in Nat  BY <1>1 DEF Buffer
    <3> QED  BY <1>2, <3>1
  <2> QED  BY <2>1 DEF ReadU16
<1> HIDE DEF v, c
<1>4. v \in Number /\ c \in Bytes /\ Cat(U16(v), c) = b
  <2> DEFINE r == <<v, c>>
  <2>1. r \in ReadU16(b) /\ r[1] = v /\ r[2] = c  BY <1>3
  <2> HIDE DEF r
  <2> QED  BY <2>1, NumberWritten
<1> HIDE DEF x, y
<1>5. x \in Bytes /\ y \in Bytes
  <2>1. x \in Seq(Nat) /\ y \in Seq(Nat) /\ Cat(x, y) \in Seq(Byte)  BY <1>2, <1>4 DEF Buffer, Bytes
  <2> QED  BY <2>1, CatParts, Zenon DEF Bytes
<1>6. x \in Short
  <2>1. Len(x) < Base * Base
    <3> DEFINE BB == Base * Base
    <3>1. BB \in Nat /\ v \in 0..(BB - 1)  BY <1>4 DEF Number, Base
    <3> HIDE DEF BB
    <3>2. Len(x) < BB  BY <1>2, <3>1
    <3> QED  BY <3>2 DEF BB
  <2> QED  BY <1>2, <2>1 DEF Short
<1>7. Cat(WithLength(x), y) = b
  <2> DEFINE u == U16(Len(x))
  <2>1. WithLength(x) = Cat(u, x)  BY <1>6, WithLengthType
  <2>2. u \in Seq(Nat)
    <3>1. Len(x) \in Number  BY <1>2, <1>4
    <3> QED  BY <1>2, <3>1, NumberRead DEF Number, Buffer
  <2>3. x \in Seq(Nat) /\ y \in Seq(Nat)  BY <1>2 DEF Buffer
  <2>4. u = U16(v)  BY <1>2
  <2> HIDE DEF u
  <2>5. Cat(Cat(u, x), y) = Cat(u, Cat(x, y))  BY <2>2, <2>3, CatAssociative
  <2> QED  BY <1>2, <1>4, <2>1, <2>4, <2>5
<1> QED  BY <1>2, <1>5, <1>6, <1>7 DEF x, y

\* Every round reads what the encoder would write.
LEMMA RoundsWritten ==
  ASSUME Half >= 128, NEW b \in Bytes, NEW extra \in Nat, NEW n \in Nat,
         NEW r \in ReadRounds(n, b, extra)
  PROVE  /\ r[1] \in Seq(Pair(extra)) /\ Len(r[1]) = n /\ r[2] \in Bytes
         /\ Cat(PairsBytes(r[1]), r[2]) = b
         /\ \A i \in 1..n : r[1][i][1] \in Bytes
<1> DEFINE P == Pair(extra)
           Holds(m, z) == /\ z[1] \in Seq(P) /\ Len(z[1]) = m /\ z[2] \in Bytes
                          /\ Cat(PairsBytes(z[1]), z[2]) = b
                          /\ \A i \in 1..m : z[1][i][1] \in Bytes
           D == {m \in Nat : \A z \in ReadRounds(m, b, extra) : Holds(m, z)}
<1>0. b \in Buffer /\ b \in Seq(Byte) /\ b \in Seq(Nat)  BY BytesAreBuffer DEF Bytes, Buffer
<1>1. 0 \in D
  <2> SUFFICES ASSUME NEW z \in ReadRounds(0, b, extra) PROVE Holds(0, z)  OBVIOUS
  <2>1. z = <<<<>>, b>>  BY <1>0, RoundsSteps
  <2>2. z[1] = <<>> /\ z[2] = b  BY <2>1
  <2>3. Cat(<<>>, b) = b  BY <1>0, CatEmpty
  <2>4. <<>> \in Seq(P) /\ Len(<<>>) = 0  OBVIOUS
  <2> HIDE DEF P
  <2> QED  BY <1>0, <2>2, <2>3, <2>4, PairsBytesEmpty DEF Bytes
<1>2. ASSUME NEW m \in Nat, m \in D PROVE m + 1 \in D
  <2> SUFFICES ASSUME NEW z \in ReadRounds(m + 1, b, extra) PROVE Holds(m + 1, z)  OBVIOUS
  <2> DEFINE R == ReadRounds(m, b, extra)
  <2>1. R \in SUBSET ReadSoFar /\ ReadRounds(m + 1, b, extra) = Round(R, extra)
    BY <1>0, RoundsSteps
  <2>2. \A q \in R : Holds(m, q)  BY <1>2
  <2> HIDE DEF R
  <2>3. PICK q \in R : \E s \in ReadString(q[2]) :
           /\ q[1] \in Seq(Buffer \X Buffer) /\ q[2] \in Buffer
           /\ s[1] \in Buffer /\ s[2] \in Buffer /\ Len(s[2]) >= extra
           /\ SubSeq(s[2], 1, extra) \in Buffer /\ Len(SubSeq(s[2], 1, extra)) = extra
           /\ From(s[2], extra + 1) \in Buffer
           /\ Cat(SubSeq(s[2], 1, extra), From(s[2], extra + 1)) = s[2]
           /\ z = <<Append(q[1], <<s[1], SubSeq(s[2], 1, extra)>>), From(s[2], extra + 1)>>
           /\ z \in ReadSoFar
    <3>1. z \in Round(R, extra)  BY <2>1
    <3> QED  BY <2>1, <3>1, RoundType
  <2>4. PICK s \in ReadString(q[2]) :
           /\ SubSeq(s[2], 1, extra) \in Buffer /\ Len(SubSeq(s[2], 1, extra)) = extra
           /\ From(s[2], extra + 1) \in Buffer
           /\ Cat(SubSeq(s[2], 1, extra), From(s[2], extra + 1)) = s[2]
           /\ z = <<Append(q[1], <<s[1], SubSeq(s[2], 1, extra)>>), From(s[2], extra + 1)>>
    BY <2>3, Zenon
  <2> DEFINE t == q[1]
             c == q[2]
             x == SubSeq(s[2], 1, extra)
             y == From(s[2], extra + 1)
             p == <<s[1], x>>
             t2 == Append(t, p)
  <2>5. /\ t \in Seq(P) /\ Len(t) = m /\ c \in Bytes /\ Cat(PairsBytes(t), c) = b
        /\ \A i \in 1..m : t[i][1] \in Bytes
    BY <2>2
  <2>6. x \in Buffer /\ Len(x) = extra /\ y \in Buffer /\ Cat(x, y) = s[2]
        /\ z[1] = t2 /\ z[2] = y
    BY <2>4
  <2>7. s[1] \in Short /\ s[1] \in Bytes /\ s[2] \in Bytes /\ Cat(WithLength(s[1]), s[2]) = c
    BY <2>5, StringWritten
  <2> HIDE DEF x, y, t
  <2>8. p \in P /\ p[1] = s[1] /\ p[2] = x  BY <2>6, <2>7 DEF Pair
  <2>9. PairBytes(p) = Cat(WithLength(s[1]), x) /\ PairBytes(p) \in Buffer
    <3>1. PairBytes(p) \in Buffer  BY <2>8, PairType
    <3> HIDE DEF p
    <3> QED  BY <2>8, <3>1 DEF PairBytes
  <2> HIDE DEF p, P
  <2>10. t2 \in Seq(P) /\ Len(t2) = m + 1  BY <2>5, <2>8, AppendProperties
  <2>13. \A i \in 1..(m + 1) : t2[i][1] \in Bytes
    <3>1. t2[m + 1] = p /\ \A i \in 1..m : t2[i] = t[i]  BY <2>5, <2>8, AppendProperties
    <3>2. \A i \in 1..(m + 1) : i = m + 1 \/ i \in 1..m  OBVIOUS
    <3> HIDE DEF t2
    <3> QED  BY <2>5, <2>7, <2>8, <3>1, <3>2
  <2>11. PairsBytes(t2) = Cat(PairsBytes(t), PairBytes(p)) /\ PairsBytes(t) \in Buffer
    BY <2>5, <2>8, PairsBytesAppend, PairsBytesType DEF P
  <2>12. Cat(PairsBytes(t2), y) = b /\ y \in Bytes
    <3> DEFINE w == WithLength(s[1])
               e == PairBytes(p)
               f == PairsBytes(t)
    <3>1. w \in Seq(Nat) /\ e \in Seq(Nat) /\ f \in Seq(Nat) /\ x \in Seq(Nat) /\ y \in Seq(Nat)
      BY <2>6, <2>7, <2>9, <2>11, WithLengthType DEF Buffer
    <3>2. e = Cat(w, x)  BY <2>9
    <3>3. c = Cat(w, Cat(x, y))  BY <2>6, <2>7
    <3>4. PairsBytes(t2) = Cat(f, e) /\ Cat(f, c) = b  BY <2>5, <2>11
    <3> HIDE DEF w, e, f, t2
    <3>5. Cat(Cat(w, x), y) = Cat(w, Cat(x, y))  BY <3>1, CatAssociative
    <3>6. Cat(Cat(f, e), y) = Cat(f, Cat(e, y))  BY <3>1, CatAssociative
    <3>7. Cat(Cat(f, e), y) = b  BY <3>2, <3>3, <3>4, <3>5, <3>6
    <3>8. Cat(f, e) \in Seq(Nat)  BY <3>1, CatAt
    <3>9. y \in Seq(Byte)
      <4>1. Cat(Cat(f, e), y) \in Seq(Byte)  BY <1>0, <3>7
      <4> DEFINE g == Cat(f, e)
      <4>2. g \in Seq(Nat) /\ Cat(g, y) \in Seq(Byte)  BY <3>8, <4>1
      <4> HIDE DEF g
      <4> QED  BY <3>1, <4>2, CatParts, Zenon
    <3> QED  BY <3>4, <3>7, <3>9 DEF Bytes
  <2> QED  BY <2>6, <2>10, <2>12, <2>13
<1>3. Nat \subseteq D
  <2> HIDE DEF D
  <2> QED  BY <1>1, <1>2, SetInduction
<1>4. n \in D  BY <1>3
<1> QED  BY <1>4

----------------------------------------------------------------------------
(* Strings with nothing behind them.                                       *)

LEMMA BaseFacts == Base \in Nat /\ Base >= 8 /\ Base * Base \in Nat
BY DEF Base

LEMMA StringsAreShort ==
  /\ String \subseteq Buffer
  /\ \A s \in ShortString : s \in Short /\ s \in Buffer
<1>1. ASSUME NEW s \in String PROVE s \in Buffer
  <2> DEFINE R == 0..(Base - 1)
  <2>1. s \in Seq(R) /\ \A x \in R : x \in Nat  BY BaseFacts DEF String
  <2> HIDE DEF R
  <2>2. \A i \in 1..Len(s) : s[i] \in Nat  BY <2>1
  <2>3. s = [i \in 1..Len(s) |-> s[i]] /\ Len(s) \in Nat  BY <2>1
  <2> QED  BY <2>2, <2>3 DEF Buffer
<1>2. \A s \in ShortString : s \in String /\ Len(s) < Base * Base  BY DEF ShortString
<1> QED  BY <1>1, <1>2 DEF Short

\* A row of strings is one of pairs in which nothing is behind the string.
Plain(ss) == [i \in DOMAIN ss |-> <<ss[i], <<>>>>]

LEMMA PlainType ==
  ASSUME NEW ss \in Seq(Short)
  PROVE  /\ Plain(ss) \in Seq(Pair(0)) /\ Len(Plain(ss)) = Len(ss)
         /\ Firsts(Plain(ss)) = ss /\ Strings(ss) = PairsBytes(Plain(ss))
<1> DEFINE t == Plain(ss)
           e == <<>>
<1>1. e \in Buffer /\ Len(e) = 0  BY DEF Buffer
<1>2. DOMAIN ss = 1..Len(ss) /\ Len(ss) \in Nat /\ \A i \in 1..Len(ss) : ss[i] \in Short  OBVIOUS
<1> HIDE DEF e
<1>3. \A i \in 1..Len(ss) : <<ss[i], e>> \in Pair(0)  BY <1>1, <1>2 DEF Pair
<1>4. t = [i \in 1..Len(ss) |-> <<ss[i], e>>]  BY <1>2 DEF Plain, e
<1> HIDE DEF t
<1>5. t \in Seq(Pair(0)) /\ Len(t) = Len(ss) /\ DOMAIN t = 1..Len(ss)
      /\ \A i \in 1..Len(ss) : t[i] = <<ss[i], e>>
  BY <1>2, <1>3, <1>4
<1>6. \A i \in 1..Len(ss) : t[i][1] = ss[i] /\ t[i][2] = e
  <2> TAKE i \in 1..Len(ss)
  <2>1. t[i] = <<ss[i], e>>  BY <1>5
  <2> QED  BY <2>1
<1>7. Firsts(t) = ss
  <2>1. ss = [i \in 1..Len(ss) |-> ss[i]]  BY <1>2
  <2> QED  BY <1>5, <1>6, <2>1 DEF Firsts
<1>8. Strings(ss) = PairsBytes(t)
  <2>1. \A i \in 1..Len(ss) : PairBytes(t[i]) = WithLength(ss[i])
    <3> TAKE i \in 1..Len(ss)
    <3>1. WithLength(ss[i]) \in Seq(Nat)  BY <1>2, WithLengthType DEF Buffer
    <3>2. Cat(WithLength(ss[i]), e) = WithLength(ss[i])  BY <3>1, CatEmpty DEF e
    <3> QED  BY <1>6, <3>2 DEF PairBytes
  <2>2. [i \in DOMAIN t |-> PairBytes(t[i])] = [i \in DOMAIN ss |-> WithLength(ss[i])]
    BY <1>2, <1>5, <2>1
  <2> QED  BY <2>2 DEF Strings, PairsBytes
<1> QED  BY <1>5, <1>7, <1>8 DEF t

LEMMA FirstsPlain ==
  ASSUME NEW t \in Seq(Pair(0))
  PROVE  Firsts(t) \in Seq(Short) /\ Len(Firsts(t)) = Len(t) /\ Strings(Firsts(t)) = PairsBytes(t)
<1> DEFINE ss == Firsts(t)
<1>1. DOMAIN t = 1..Len(t) /\ Len(t) \in Nat /\ \A i \in 1..Len(t) : t[i] \in Pair(0)  OBVIOUS
<1>2. \A i \in 1..Len(t) : t[i][1] \in Short /\ PairBytes(t[i]) = WithLength(t[i][1])
  <2> TAKE i \in 1..Len(t)
  <2>1. t[i][1] \in Short /\ t[i][2] \in Buffer /\ Len(t[i][2]) = 0  BY <1>1, PairType
  <2>2. t[i][2] = <<>>  BY <2>1 DEF Buffer
  <2>3. WithLength(t[i][1]) \in Seq(Nat)  BY <2>1, WithLengthType DEF Buffer
  <2>4. Cat(WithLength(t[i][1]), <<>>) = WithLength(t[i][1])  BY <2>3, CatEmpty
  <2> QED  BY <2>1, <2>2, <2>4 DEF PairBytes
<1>3. ss = [i \in 1..Len(t) |-> t[i][1]]  BY <1>1 DEF Firsts
<1> HIDE DEF ss
<1>4. ss \in Seq(Short) /\ Len(ss) = Len(t) /\ DOMAIN ss = 1..Len(t)
      /\ \A i \in 1..Len(t) : ss[i] = t[i][1]
  BY <1>1, <1>2, <1>3
<1>5. [i \in DOMAIN ss |-> WithLength(ss[i])] = [i \in DOMAIN t |-> PairBytes(t[i])]
  BY <1>1, <1>2, <1>4
<1> QED  BY <1>4, <1>5 DEF Strings, PairsBytes, ss

LEMMA StringsType ==
  ASSUME NEW ss \in Seq(Short)
  PROVE  Strings(ss) \in Buffer
BY PlainType, PairsBytesType

LEMMA StringsEmpty == Strings(<<>>) = <<>>
<1>1. <<>> \in Seq(Short) /\ Plain(<<>>) = <<>>
  <2>1. DOMAIN <<>> = {}  OBVIOUS
  <2> QED  BY <2>1 DEF Plain
<1> QED  BY <1>1, PlainType, PairsBytesEmpty

LEMMA StringsOne ==
  ASSUME NEW s \in Short
  PROVE  <<s>> \in Seq(Short) /\ Strings(<<s>>) = WithLength(s)
<1>1. <<s>> \in Seq(Short) /\ DOMAIN <<s>> = {1} /\ <<s>>[1] = s  OBVIOUS
<1>2. [i \in DOMAIN <<s>> |-> WithLength(<<s>>[i])] = <<WithLength(s)>>
  <2>1. [i \in {1} |-> WithLength(<<s>>[i])] = <<WithLength(s)>>  OBVIOUS
  <2> QED  BY <1>1, <2>1
<1>3. WithLength(s) \in Seq(Nat)  BY WithLengthType DEF Buffer
<1> QED  BY <1>1, <1>2, <1>3, FlattenOne DEF Strings

LEMMA StringsConcat ==
  ASSUME NEW ss \in Seq(Short), NEW tt \in Seq(Short)
  PROVE  Strings(Cat(ss, tt)) = Cat(Strings(ss), Strings(tt)) /\ Cat(ss, tt) \in Seq(Short)
<1> DEFINE ws(x) == [i \in DOMAIN x |-> WithLength(x[i])]
           a == ws(ss)
           b == ws(tt)
           u == Cat(ss, tt)
           c == ws(u)
           d == Cat(a, b)
<1>1. \A x \in Seq(Short) : /\ ws(x) \in Seq(Seq(Nat)) /\ Len(ws(x)) = Len(x)
                            /\ \A i \in 1..Len(x) : ws(x)[i] = WithLength(x[i])
  <2> TAKE x \in Seq(Short)
  <2>1. DOMAIN x = 1..Len(x) /\ Len(x) \in Nat /\ \A i \in 1..Len(x) : x[i] \in Short  OBVIOUS
  <2>2. \A i \in 1..Len(x) : WithLength(x[i]) \in Seq(Nat)  BY <2>1, WithLengthType DEF Buffer
  <2> QED  BY <2>1, <2>2
<1>2. u \in Seq(Short) /\ Joined(u, ss, tt)  BY CatAt
<1> HIDE DEF u
<1>3. /\ a \in Seq(Seq(Nat)) /\ Len(a) = Len(ss) /\ \A i \in 1..Len(ss) : a[i] = WithLength(ss[i])
      /\ b \in Seq(Seq(Nat)) /\ Len(b) = Len(tt) /\ \A i \in 1..Len(tt) : b[i] = WithLength(tt[i])
      /\ c \in Seq(Seq(Nat)) /\ Len(c) = Len(u) /\ \A i \in 1..Len(u) : c[i] = WithLength(u[i])
  <2> HIDE DEF ws
  <2> QED  BY <1>1, <1>2
<1> HIDE DEF a, b, c
<1>4. d \in Seq(Seq(Nat)) /\ Joined(d, a, b)  BY <1>3, CatAt
<1> HIDE DEF d
<1>5. Len(u) = Len(ss) + Len(tt) /\ Len(ss) \in Nat /\ Len(tt) \in Nat /\ Len(d) = Len(c)
  BY <1>2, <1>3, <1>4 DEF Joined
<1>6. \A i \in 1..Len(c) : c[i] = d[i]
  <2> TAKE i \in 1..Len(c)
  <2>1. CASE i <= Len(ss)
    <3>1. i \in 1..Len(ss) /\ i \in 1..Len(u)  BY <1>3, <1>5, <2>1
    <3> QED  BY <1>2, <1>3, <1>4, <3>1 DEF Joined
  <2>2. CASE i > Len(ss)
    <3>1. PICK j \in 1..Len(tt) : i = Len(ss) + j
      <4>1. i - Len(ss) \in 1..Len(tt) /\ i = Len(ss) + (i - Len(ss))  BY <1>3, <1>5, <2>2
      <4> QED  BY <4>1
    <3>2. u[i] = tt[j]  BY <1>2, <3>1 DEF Joined
    <3>3. d[i] = b[j]  BY <1>3, <1>4, <3>1 DEF Joined
    <3> QED  BY <1>3, <3>1, <3>2, <3>3
  <2> QED  BY <1>3, <1>5, <2>1, <2>2
<1>7. c = d  BY <1>3, <1>4, <1>5, <1>6, SeqEqual
<1>8. FlattenSeq(d) = Cat(FlattenSeq(a), FlattenSeq(b))  BY <1>3, FlattenConcat DEF d
<1>9. Strings(u) = FlattenSeq(c) /\ Strings(ss) = FlattenSeq(a) /\ Strings(tt) = FlattenSeq(b)
  BY DEF Strings, a, b, c
<1> QED  BY <1>2, <1>7, <1>8, <1>9 DEF u

\* Strings to the end of a body are read as they were written.
LEMMA OnlyStringsRead ==
  ASSUME NEW ss \in Seq(Short)
  PROVE  OnlyStrings(Len(ss), Strings(ss)) = {ss}
<1> DEFINE t == Plain(ss)
           b == Strings(ss)
           n == Len(ss)
           z == <<t, <<>>>>
           Whole == {x \in ReadRounds(n, b, 0) : x[2] = <<>>}
<1>1. t \in Seq(Pair(0)) /\ Len(t) = n /\ Firsts(t) = ss /\ b = PairsBytes(t)  BY PlainType
<1>2. Cat(PairsBytes(t), <<>>) = b /\ <<>> \in Buffer
  <2>1. b \in Seq(Nat)  BY <1>1, PairsBytesType DEF Buffer
  <2> HIDE DEF b
  <2> QED  BY <1>1, <2>1, CatEmpty DEF Buffer
<1> HIDE DEF t, b, n
<1>3. ReadRounds(n, b, 0) = {z}
  <2>1. ReadRounds(Len(t), Cat(PairsBytes(t), <<>>), 0) = {<<t, <<>>>>}  BY <1>1, <1>2, RoundsRead
  <2> QED  BY <1>1, <1>2, <2>1
<1>4. z[1] = t /\ z[2] = <<>>  OBVIOUS
<1> HIDE DEF z
<1>5. Whole = {z}  BY <1>3, <1>4
<1>6. OnlyStrings(n, b) = {Firsts(r[1]) : r \in Whole}  BY Zenon DEF OnlyStrings
<1> HIDE DEF Whole
<1>7. OnlyStrings(n, b) = {Firsts(z[1])}  BY <1>5, <1>6
<1> QED  BY <1>1, <1>4, <1>7 DEF n, b

\* No pair without bytes.
LEMMA PairsBytesLength ==
  ASSUME NEW extra \in Nat, NEW t \in Seq(Pair(extra))
  PROVE  Len(PairsBytes(t)) >= Len(t)
<1> DEFINE P == Pair(extra)
           D == {n \in Nat : \A u \in Seq(P) : Len(u) = n => Len(PairsBytes(u)) >= n}
<1>1. 0 \in D
  <2> SUFFICES ASSUME NEW u \in Seq(P), Len(u) = 0 PROVE Len(PairsBytes(u)) >= 0  OBVIOUS
  <2>1. Len(PairsBytes(u)) \in Nat  BY PairsBytesType DEF Buffer
  <2> QED  BY <2>1
<1>2. ASSUME NEW n \in Nat, n \in D PROVE n + 1 \in D
  <2> SUFFICES ASSUME NEW u \in Seq(P), Len(u) = n + 1 PROVE Len(PairsBytes(u)) >= n + 1
    OBVIOUS
  <2> DEFINE a == SubSeq(u, 1, n)
             p == u[n + 1]
             x == PairsBytes(a)
             y == PairBytes(p)
  <2>1. a \in Seq(P) /\ Len(a) = n /\ p \in P /\ u = Append(a, p)
    <3> HIDE DEF P
    <3> QED  BY LastOff
  <2> HIDE DEF a, p
  <2>2. x \in Seq(Nat) /\ y \in Seq(Nat) /\ Len(y) >= 2 /\ Len(x) >= n
    <3>1. x \in Buffer /\ y \in Buffer /\ Len(y) >= 2  BY <2>1, PairsBytesType, PairType
    <3>2. Len(x) >= n  BY <1>2, <2>1
    <3> QED  BY <3>1, <3>2 DEF Buffer
  <2>3. PairsBytes(u) = Cat(x, y)  BY <2>1, PairsBytesAppend
  <2> HIDE DEF x, y
  <2>4. Joined(Cat(x, y), x, y)  BY <2>2, CatAt
  <2> QED  BY <2>2, <2>3, <2>4 DEF Joined
<1>3. Nat \subseteq D
  <2> HIDE DEF D
  <2> QED  BY <1>1, <1>2, SetInduction
<1>4. Len(t) \in D
  <2>1. Len(t) \in Nat  OBVIOUS
  <2> QED  BY <1>3, <2>1
<1> QED  BY <1>4

\* When nothing is left no round succeeds.
LEMMA RoundsBeyond ==
  ASSUME NEW extra \in Nat, NEW b \in Buffer, NEW n \in Nat, NEW t,
         ReadRounds(n, b, extra) = {<<t, <<>>>>}
  PROVE  \A k \in Nat : k > n => ReadRounds(k, b, extra) = {}
<1> DEFINE D == {k \in Nat : ReadRounds((n + 1) + k, b, extra) = {}}
           R(k) == ReadRounds(k, b, extra)
<1>1. \A k \in Nat : R(k + 1) = Round(R(k), extra)  BY RoundsSteps
<1>2. 0 \in D
  <2>1. R(n + 1) = Round(R(n), extra)  BY <1>1
  <2>2. \A r \in R(n) : ReadString(r[2]) = {}
    <3> TAKE r \in R(n)
    <3>1. r = <<t, <<>>>>  OBVIOUS
    <3>2. r[2] = <<>>  BY <3>1
    <3>3. <<>> \in Buffer /\ ~(Len(<<>>) >= 2)  BY DEF Buffer
    <3>4. ReadString(<<>>) = {}  BY <3>3, ReadStringDef
    <3> QED  BY <3>2, <3>4
  <2> HIDE DEF R
  <2>3. R(n + 1) = {}  BY <2>1, <2>2, RoundNone
  <2>4. (n + 1) + 0 = n + 1 /\ 0 \in Nat  OBVIOUS
  <2> QED  BY <2>3, <2>4 DEF R
<1>3. ASSUME NEW k \in Nat, k \in D PROVE k + 1 \in D
  <2> DEFINE m == (n + 1) + k
  <2>1. m \in Nat /\ (n + 1) + (k + 1) = m + 1  OBVIOUS
  <2>2. R(m) = {}  BY <1>3
  <2> HIDE DEF m, R
  <2>3. R(m + 1) = Round(R(m), extra)  BY <1>1, <2>1
  <2>4. R(m + 1) = {}  BY <2>2, <2>3, RoundNone
  <2> QED  BY <2>1, <2>4 DEF R
<1>4. Nat \subseteq D
  <2> HIDE DEF D
  <2> QED  BY <1>2, <1>3, SetInduction
<1> TAKE k \in Nat
<1>5. k > n => k - (n + 1) \in D /\ (n + 1) + (k - (n + 1)) = k
  <2>1. k > n => k - (n + 1) \in Nat /\ (n + 1) + (k - (n + 1)) = k  OBVIOUS
  <2> HIDE DEF D
  <2> QED  BY <1>4, <2>1
<1> QED  BY <1>5

\* The loop over pairs reads all of them, and just once.
LEMMA ItemsRead ==
  ASSUME NEW extra \in Nat, NEW t \in Seq(Pair(extra)), t # <<>>, <<>> \notin ToSet(Firsts(t))
  PROVE  Items(PairsBytes(t), extra) = {t}
<1> DEFINE P == Pair(extra)
           b == PairsBytes(t)
           m == Len(t)
           z == <<t, <<>>>>
           All == UNION {ReadRounds(n, b, extra) : n \in 1..Len(b)}
           Whole == {x \in All : x[2] = <<>> /\ <<>> \notin ToSet(Firsts(x[1]))}
<1>1. b \in Buffer /\ b \in Seq(Nat) /\ Len(b) >= m /\ m \in Nat /\ m > 0 /\ Len(b) \in Nat
  <2>1. b \in Buffer /\ Len(b) >= m  BY PairsBytesType, PairsBytesLength
  <2>2. m \in Nat /\ m > 0
    <3> HIDE DEF P
    <3>1. t \in Seq(P)  BY DEF P
    <3> QED  BY <3>1
  <2> HIDE DEF b, m
  <2> QED  BY <2>1, <2>2 DEF Buffer
<1>2. z[1] = t /\ z[2] = <<>>  OBVIOUS
<1>3. ReadRounds(m, b, extra) = {z}
  <2>1. <<>> \in Buffer  BY DEF Buffer
  <2>2. Cat(b, <<>>) = b
    <3> HIDE DEF b
    <3> QED  BY <1>1, CatEmpty
  <2>3. ReadRounds(Len(t), Cat(PairsBytes(t), <<>>), extra) = {<<t, <<>>>>}  BY <2>1, RoundsRead
  <2> QED  BY <2>2, <2>3
<1>4. \A n \in Nat : n > m => ReadRounds(n, b, extra) = {}
  <2> HIDE DEF b, m
  <2> QED  BY <1>1, <1>3, RoundsBeyond DEF z
<1>5. ASSUME NEW n \in Nat, n < m, NEW x \in ReadRounds(n, b, extra) PROVE x[2] # <<>>
  <2> DEFINE u == SubSeq(t, 1, n)
             v == SubSeq(t, n + 1, Len(t))
             c == PairsBytes(v)
  <2>1. n \in 0..Len(t)  BY <1>1, <1>5
  <2>2. u \in Seq(P) /\ Len(u) = n /\ v \in Seq(P) /\ Len(v) = m - n /\ Cat(u, v) = t
    <3>1. t \in Seq(P)  OBVIOUS
    <3> HIDE DEF P
    <3> QED  BY <2>1, <3>1, CutAt, Zenon DEF Cat, m, u, v
  <2> HIDE DEF u, v
  <2>3. b = Cat(PairsBytes(u), c)  BY <2>2, PairsBytesConcat
  <2>4. c \in Buffer /\ Len(c) >= m - n  BY <2>2, PairsBytesType, PairsBytesLength
  <2>5. ReadRounds(n, b, extra) = {<<u, c>>}
    <3>1. ReadRounds(Len(u), Cat(PairsBytes(u), c), extra) = {<<u, c>>}  BY <2>2, <2>4, RoundsRead
    <3> QED  BY <2>2, <2>3, <3>1
  <2> HIDE DEF b, c
  <2>6. x[2] = c  BY <2>5
  <2>7. c # <<>>
    <3>1. Len(c) > 0  BY <1>1, <1>5, <2>4 DEF Buffer
    <3> QED  BY <3>1
  <2> QED  BY <2>6, <2>7
<1> HIDE DEF b, m, z
<1>6. m \in 1..Len(b)  BY <1>1
<1>7. Whole = {z}
  <2>1. z \in Whole  BY <1>2, <1>3, <1>6
  <2>2. ASSUME NEW x \in Whole PROVE x = z
    <3>1. PICK n \in 1..Len(b) : x \in ReadRounds(n, b, extra)  OBVIOUS
    <3>2. x[2] = <<>>  OBVIOUS
    <3> HIDE DEF Whole, All
    <3>3. n \in Nat /\ (n < m \/ n = m \/ n > m)  BY <1>1
    <3> QED  BY <1>3, <1>4, <1>5, <3>1, <3>2, <3>3
  <2> QED  BY <2>1, <2>2
<1>8. Items(b, extra) = {r[1] : r \in Whole}  BY Zenon DEF Items
<1> HIDE DEF Whole
<1>9. Items(b, extra) = {z[1]}  BY <1>7, <1>8
<1> QED  BY <1>2, <1>9 DEF b

----------------------------------------------------------------------------
(* Messages.                                                               *)

\* Of MessageBody and ParseMessage, one case each.
LEMMA ParsersApart ==
  \A flags, body :
     /\ ParseMessage(CONNECT, flags, body) = ParseConnect(body)
     /\ ParseMessage(CONNACK, flags, body) = ParseConnack(body)
     /\ ParseMessage(PUBLISH, flags, body) = ParsePublish(flags, body)
     /\ ParseMessage(SUBSCRIBE, flags, body) = ParseSubscribe(body)
     /\ ParseMessage(SUBACK, flags, body) = ParseSuback(body)
     /\ ParseMessage(UNSUBSCRIBE, flags, body) = ParseUnsubscribe(body)
     /\ \A type \in Acks : ParseMessage(type, flags, body) = ParseAck(type, body)
     /\ \A type \in Empty :
          ParseMessage(type, flags, body) = IF body = <<>> THEN {[type |-> type]} ELSE {}
<1> USE DEF CONNECT, CONNACK, PUBLISH, SUBSCRIBE, SUBACK, UNSUBSCRIBE, PINGRESP, Acks, Empty
<1> TAKE flags, body
<1>1. ParseMessage(CONNECT, flags, body) = ParseConnect(body)  BY DEF ParseMessage
<1>2. ParseMessage(CONNACK, flags, body) = ParseConnack(body)  BY DEF ParseMessage
<1>3. ParseMessage(PUBLISH, flags, body) = ParsePublish(flags, body)  BY DEF ParseMessage
<1>4. ParseMessage(SUBSCRIBE, flags, body) = ParseSubscribe(body)  BY DEF ParseMessage
<1>5. ParseMessage(SUBACK, flags, body) = ParseSuback(body)  BY DEF ParseMessage
<1>6. ParseMessage(UNSUBSCRIBE, flags, body) = ParseUnsubscribe(body)  BY DEF ParseMessage
<1>7. ASSUME NEW type \in Acks PROVE ParseMessage(type, flags, body) = ParseAck(type, body)
  BY DEF ParseMessage
<1>8. ASSUME NEW type \in Empty
      PROVE  ParseMessage(type, flags, body) = IF body = <<>> THEN {[type |-> type]} ELSE {}
  BY DEF ParseMessage
<1> HIDE DEF CONNECT, CONNACK, PUBLISH, SUBSCRIBE, SUBACK, UNSUBSCRIBE, PINGRESP, Acks, Empty
<1> QED  BY <1>1, <1>2, <1>3, <1>4, <1>5, <1>6, <1>7, <1>8

LEMMA BodiesApart ==
  \A m :
     /\ m.type = CONNECT => MessageBody(m) = ConnectBody(m)
     /\ m.type = CONNACK => MessageBody(m) = <<m.session_present, m.return_code>>
     /\ m.type = PUBLISH => MessageBody(m) = PublishBody(m)
     /\ m.type = SUBSCRIBE => MessageBody(m) = SubscribeBody(m)
     /\ m.type = SUBACK => MessageBody(m) = Cat(U16(m.id), m.codes)
     /\ m.type = UNSUBSCRIBE => MessageBody(m) = Cat(U16(m.id), Strings(m.filters))
     /\ m.type \in Acks => MessageBody(m) = U16(m.id)
     /\ m.type \in Empty => MessageBody(m) = <<>>
<1> USE DEF CONNECT, CONNACK, PUBLISH, SUBSCRIBE, SUBACK, UNSUBSCRIBE, PINGRESP, Acks, Empty
<1> TAKE m
<1>1. ASSUME m.type = CONNECT PROVE MessageBody(m) = ConnectBody(m)
  BY <1>1 DEF MessageBody
<1>2. ASSUME m.type = CONNACK PROVE MessageBody(m) = <<m.session_present, m.return_code>>
  BY <1>2 DEF MessageBody
<1>3. ASSUME m.type = PUBLISH PROVE MessageBody(m) = PublishBody(m)
  BY <1>3 DEF MessageBody
<1>4. ASSUME m.type = SUBSCRIBE PROVE MessageBody(m) = SubscribeBody(m)
  BY <1>4 DEF MessageBody
<1>5. ASSUME m.type = SUBACK PROVE MessageBody(m) = Cat(U16(m.id), m.codes)
  <2>1. /\ m.type # 1 /\ m.type # 2 /\ m.type # 3 /\ m.type # 8 /\ m.type = 9 /\ m.type # 10
        /\ m.type \notin Acks /\ m.type \notin Empty
    BY <1>5
  <2> HIDE DEF Acks, Empty
  <2> QED  BY <2>1, Zenon DEF MessageBody, Cat
<1>6. ASSUME m.type = UNSUBSCRIBE PROVE MessageBody(m) = Cat(U16(m.id), Strings(m.filters))
  <2>1. /\ m.type # 1 /\ m.type # 2 /\ m.type # 3 /\ m.type # 8 /\ m.type # 9 /\ m.type = 10
        /\ m.type \notin Acks /\ m.type \notin Empty
    BY <1>6
  <2> HIDE DEF Acks, Empty
  <2> QED  BY <2>1, Zenon DEF MessageBody, Cat
<1>7. ASSUME m.type \in Acks PROVE MessageBody(m) = U16(m.id)
  BY <1>7 DEF MessageBody
<1>8. ASSUME m.type \in Empty PROVE MessageBody(m) = <<>>
  BY <1>8 DEF MessageBody
<1> HIDE DEF CONNECT, CONNACK, PUBLISH, SUBSCRIBE, SUBACK, UNSUBSCRIBE, PINGRESP, Acks, Empty
<1> QED  BY <1>1, <1>2, <1>3, <1>4, <1>5, <1>6, <1>7, <1>8

\* A message is read back from its body.
ReadBack(m) ==
  /\ MessageBody(m) \in Buffer
  /\ ParseMessage(m.type, MessageFlags(m), MessageBody(m)) = {m}

LEMMA NumberType ==
  ASSUME NEW v \in Number
  PROVE  U16(v) \in Buffer /\ Len(U16(v)) = 2 /\ v \in Nat
<1>1. <<>> \in Buffer  BY DEF Buffer
<1>2. U16(v) \in Buffer  BY <1>1, NumberRead DEF Number
<1>3. Len(U16(v)) = 2  BY DEF U16
<1>4. v \in Nat
  <2> DEFINE BB == Base * Base
  <2>1. BB \in Nat /\ v \in 0..(BB - 1)  BY BaseFacts DEF Number
  <2> HIDE DEF BB
  <2> QED  BY <2>1
<1> QED  BY <1>2, <1>3, <1>4

\* An identifier in front of a body.
LEMMA IdRead ==
  ASSUME NEW id \in Number, id # 0, NEW rest \in Buffer
  PROVE  /\ Cat(U16(id), rest) \in Buffer
         /\ \A qos : qos # 0 => ReadId(qos, Cat(U16(id), rest)) = {<<id, rest>>}
<1> DEFINE b == Cat(U16(id), rest)
           p == <<id, rest>>
<1>1. b \in Buffer  BY NumberType, CatAt DEF Buffer
<1>2. ReadU16(b) = {p}  BY NumberRead DEF Number
<1>3. p[1] = id  OBVIOUS
<1> HIDE DEF b, p
<1>4. \A qos : qos # 0 => ReadId(qos, b) = {p}  BY <1>2, <1>3 DEF ReadId
<1> QED  BY <1>1, <1>4 DEF b, p

\* encode_connack and parse_connack.
LEMMA ConnackRead ==
  ASSUME NEW m \in ConnackMessage, Encodable(m)
  PROVE  ReadBack(m)
<1> DEFINE b == <<m.session_present, m.return_code>>
<1>1. /\ m.type = CONNACK /\ m.session_present \in {0, 1} /\ m.return_code \in Byte
      /\ m = [type |-> CONNACK, session_present |-> m.session_present, return_code |-> m.return_code]
  BY DEF ConnackMessage
<1>2. m.return_code <= 5  BY <1>1 DEF Encodable
<1>3. MessageBody(m) = b  BY <1>1, BodiesApart
<1>4. Len(b) = 2 /\ b[1] = m.session_present /\ b[2] = m.return_code  OBVIOUS
<1>5. b \in Buffer
  <2>1. m.session_present \in Nat /\ m.return_code \in Nat  BY <1>1 DEF Byte
  <2> QED  BY <2>1 DEF Buffer
<1> HIDE DEF b
<1>6. ParseConnack(b) = {m}  BY <1>1, <1>2, <1>4 DEF ParseConnack
<1> QED  BY <1>1, <1>3, <1>5, <1>6, ParsersApart DEF ReadBack

\* The five messages with an identifier only.
LEMMA AckRead ==
  ASSUME NEW m \in AckMessage, Encodable(m)
  PROVE  ReadBack(m)
<1> DEFINE b == U16(m.id)
           p == <<m.id, <<>>>>
           Fitting == {x \in ReadU16(b) : x[1] # 0 /\ x[2] = <<>>}
<1>1. m.type \in Acks /\ m.id \in Number /\ m = [type |-> m.type, id |-> m.id]  BY DEF AckMessage
<1>2. m.id # 0  BY <1>1 DEF Encodable
<1>3. MessageBody(m) = b  BY <1>1, BodiesApart
<1>4. b \in Buffer /\ <<>> \in Buffer  BY <1>1, NumberType DEF Buffer
<1>5. ReadU16(b) = {p}
  <2>1. Cat(b, <<>>) = b
    <3> HIDE DEF b
    <3> QED  BY <1>4, CatEmpty DEF Buffer
  <2>2. ReadU16(Cat(U16(m.id), <<>>)) = {<<m.id, <<>>>>}  BY <1>1, <1>4, NumberRead DEF Number
  <2> QED  BY <2>1, <2>2
<1>6. p[1] = m.id /\ p[2] = <<>>  OBVIOUS
<1> HIDE DEF b, p
<1>7. Fitting = {p}  BY <1>2, <1>5, <1>6
<1>8. ParseAck(m.type, b) = {[type |-> m.type, id |-> r[1]] : r \in Fitting}  BY Zenon DEF ParseAck
<1> HIDE DEF Fitting
<1>9. ParseAck(m.type, b) = {[type |-> m.type, id |-> p[1]]}  BY <1>7, <1>8
<1> QED  BY <1>1, <1>3, <1>4, <1>6, <1>9, ParsersApart DEF ReadBack

\* The three messages without a body.
LEMMA EmptyRead ==
  ASSUME NEW m \in EmptyMessage
  PROVE  ReadBack(m)
<1>1. m.type \in Empty /\ m = [type |-> m.type]  BY DEF EmptyMessage
<1>2. MessageBody(m) = <<>> /\ <<>> \in Buffer  BY <1>1, BodiesApart DEF Buffer
<1>3. ParseMessage(m.type, MessageFlags(m), <<>>) = {[type |-> m.type]}
  BY <1>1, ParsersApart, Zenon
<1> QED  BY <1>1, <1>2, <1>3 DEF ReadBack

\* encode_suback and parse_suback.
LEMMA SubackRead ==
  ASSUME NEW m \in SubackMessage, Encodable(m)
  PROVE  ReadBack(m)
<1> DEFINE b == Cat(U16(m.id), m.codes)
           p == <<m.id, m.codes>>
           Fitting == {x \in ReadId(1, b) : x[2] # <<>> /\ ToSet(x[2]) \subseteq SubackCodes}
           New(r) == [type |-> SUBACK, id |-> r[1], codes |-> r[2]]
<1>1. /\ m.type = SUBACK /\ m.id \in Number /\ m.codes \in Seq(Byte)
      /\ m = [type |-> SUBACK, id |-> m.id, codes |-> m.codes]
  BY DEF SubackMessage
<1>2. m.id # 0 /\ m.codes # <<>> /\ ToSet(m.codes) \subseteq SubackCodes  BY <1>1 DEF Encodable
<1>3. MessageBody(m) = b  BY <1>1, BodiesApart
<1>4. m.codes \in Buffer  BY <1>1, BytesAreBuffer DEF Bytes
<1>5. b \in Buffer /\ ReadId(1, b) = {p}  BY <1>1, <1>2, <1>4, IdRead
<1>6. p[1] = m.id /\ p[2] = m.codes  OBVIOUS
<1> HIDE DEF b, p
<1>7. Fitting = {p}  BY <1>2, <1>5, <1>6
<1>8. ParseSuback(b) = {New(r) : r \in Fitting}  BY Zenon DEF ParseSuback
<1>9. New(p) = m  BY <1>1, <1>6
<1> HIDE DEF Fitting, New
<1>10. ParseSuback(b) = {m}  BY <1>7, <1>8, <1>9
<1> QED  BY <1>1, <1>3, <1>5, <1>10, ParsersApart DEF ReadBack

\* encode_unsubscribe and parse_unsubscribe.
LEMMA UnsubscribeRead ==
  ASSUME NEW m \in UnsubscribeMessage, Encodable(m)
  PROVE  ReadBack(m)
<1> DEFINE t == Plain(m.filters)
           c == PairsBytes(t)
           b == Cat(U16(m.id), c)
           p == <<m.id, c>>
           New(r, x) == [type |-> UNSUBSCRIBE, id |-> r[1], filters |-> Firsts(x)]
<1>1. /\ m.type = UNSUBSCRIBE /\ m.id \in Number /\ m.filters \in Seq(ShortString)
      /\ m = [type |-> UNSUBSCRIBE, id |-> m.id, filters |-> m.filters]
  BY DEF UnsubscribeMessage
<1>2. m.id # 0 /\ m.filters # <<>> /\ <<>> \notin ToSet(m.filters)  BY <1>1 DEF Encodable
<1>3. m.filters \in Seq(Short)
  <2> DEFINE s == m.filters
  <2>1. s \in Seq(ShortString)  BY <1>1
  <2> HIDE DEF s
  <2>2. \A i \in 1..Len(s) : s[i] \in ShortString  BY <2>1
  <2>3. \A i \in 1..Len(s) : s[i] \in Short  BY <2>2, StringsAreShort
  <2>4. s = [i \in 1..Len(s) |-> s[i]] /\ Len(s) \in Nat  BY <2>1
  <2>5. s \in Seq(Short)  BY <2>3, <2>4
  <2> QED  BY <2>5 DEF s
<1>4. /\ t \in Seq(Pair(0)) /\ Firsts(t) = m.filters /\ Strings(m.filters) = c /\ t # <<>>
  <2>1. t \in Seq(Pair(0)) /\ Firsts(t) = m.filters /\ Strings(m.filters) = c
    BY <1>3, PlainType
  <2>2. Firsts(<<>>) = <<>>
    <3>1. DOMAIN <<>> = {}  OBVIOUS
    <3> QED  BY <3>1 DEF Firsts
  <2> HIDE DEF t, c
  <2> QED  BY <1>2, <2>1, <2>2
<1>5. MessageBody(m) = b
  <2>1. MessageBody(m) = Cat(U16(m.id), Strings(m.filters))  BY <1>1, BodiesApart
  <2> QED  BY <1>4, <2>1
<1> HIDE DEF t
<1>6. c \in Buffer  BY <1>4, PairsBytesType
<1>7. Items(c, 0) = {t}  BY <1>2, <1>4, ItemsRead
<1> HIDE DEF c
<1>8. b \in Buffer /\ ReadId(1, b) = {p}  BY <1>1, <1>2, <1>6, IdRead
<1>9. p[1] = m.id /\ p[2] = c  OBVIOUS
<1> HIDE DEF b, p
<1>10. ParseUnsubscribe(b) = UNION {{New(r, x) : x \in Items(r[2], 0)} : r \in ReadId(1, b)}
  BY Zenon DEF ParseUnsubscribe
<1>11. New(p, t) = m  BY <1>1, <1>4, <1>9
<1> HIDE DEF New
<1>12. {New(p, x) : x \in Items(p[2], 0)} = {m}  BY <1>7, <1>9, <1>11
<1>13. ParseUnsubscribe(b) = {m}
  <2>1. {{New(r, x) : x \in Items(r[2], 0)} : r \in ReadId(1, b)}
          = {{New(p, x) : x \in Items(p[2], 0)}}
    BY <1>8
  <2> QED  BY <1>10, <1>12, <2>1
<1> QED  BY <1>1, <1>5, <1>8, <1>13, ParsersApart DEF ReadBack

\* The topics of a SUBSCRIBE as pairs, and back.
Topic == [filter : ShortString, qos : Byte]
TopicPairs(topics) == [i \in DOMAIN topics |-> <<topics[i].filter, <<topics[i].qos>>>>]
PairTopics(t) == [i \in DOMAIN t |-> [filter |-> t[i][1], qos |-> t[i][2][1]]]
TopicBytes(topic) == Cat(WithLength(topic.filter), <<topic.qos>>)

LEMMA TopicPairsType ==
  ASSUME NEW topics \in Seq(Topic)
  PROVE  /\ TopicPairs(topics) \in Seq(Pair(1)) /\ Len(TopicPairs(topics)) = Len(topics)
         /\ \A i \in 1..Len(topics) : /\ TopicPairs(topics)[i][1] = topics[i].filter
                                      /\ TopicPairs(topics)[i][2][1] = topics[i].qos
         /\ PairTopics(TopicPairs(topics)) = topics
         /\ PairsBytes(TopicPairs(topics)) =
              FlattenSeq([i \in DOMAIN topics |-> TopicBytes(topics[i])])
<1> DEFINE t == TopicPairs(topics)
           n == Len(topics)
<1>1. n \in Nat /\ DOMAIN topics = 1..n /\ \A i \in 1..n : topics[i] \in Topic
  <2> HIDE DEF Topic
  <2> QED  OBVIOUS
<1>2. \A i \in 1..n : /\ topics[i].filter \in ShortString /\ topics[i].qos \in Byte
                      /\ topics[i] = [filter |-> topics[i].filter, qos |-> topics[i].qos]
  BY <1>1 DEF Topic
<1>3. \A i \in 1..n : topics[i].filter \in Short /\ <<topics[i].qos>> \in Buffer
                      /\ Len(<<topics[i].qos>>) = 1 /\ <<topics[i].qos>>[1] = topics[i].qos
  <2> TAKE i \in 1..n
  <2>1. topics[i].filter \in Short  BY <1>2, StringsAreShort
  <2>2. topics[i].qos \in Nat
    <3>1. \A x \in Byte : x \in Nat  BY DEF Byte
    <3> QED  BY <1>2, <3>1
  <2> QED  BY <2>1, <2>2 DEF Buffer
<1> HIDE DEF n
<1>4. \A i \in 1..n : <<topics[i].filter, <<topics[i].qos>>>> \in Pair(1)
  <2> TAKE i \in 1..n
  <2> DEFINE x == topics[i].filter
             y == <<topics[i].qos>>
  <2>1. x \in Short /\ y \in Buffer /\ Len(y) = 1  BY <1>3
  <2> HIDE DEF x, y
  <2>2. <<x, y>> \in Pair(1)  BY <2>1 DEF Pair
  <2> QED  BY <2>2 DEF x, y
<1>5. /\ t \in Seq(Pair(1)) /\ Len(t) = n /\ DOMAIN t = 1..n
      /\ \A i \in 1..n : t[i] = <<topics[i].filter, <<topics[i].qos>>>>
  <2>1. t = [i \in 1..n |-> <<topics[i].filter, <<topics[i].qos>>>>]  BY <1>1 DEF TopicPairs
  <2> HIDE DEF t
  <2> QED  BY <1>1, <1>4, <2>1
<1> HIDE DEF t
<1>6. \A i \in 1..n : t[i][1] = topics[i].filter /\ t[i][2] = <<topics[i].qos>>
                      /\ t[i][2][1] = topics[i].qos
  <2> TAKE i \in 1..n
  <2> DEFINE x == topics[i].filter
             y == <<topics[i].qos>>
  <2>1. t[i] = <<x, y>> /\ y[1] = topics[i].qos  BY <1>5
  <2>2. t[i][1] = x /\ t[i][2] = y  BY <2>1
  <2> QED  BY <2>1, <2>2
<1>7. PairTopics(t) = topics
  <2>1. \A i \in 1..n : [filter |-> t[i][1], qos |-> t[i][2][1]] = topics[i]  BY <1>2, <1>6
  <2>2. topics = [i \in 1..n |-> topics[i]]
    <3> DEFINE S == Topic
    <3>1. topics \in Seq(S)  OBVIOUS
    <3> HIDE DEF S
    <3> QED  BY <1>1, <3>1
  <2>3. PairTopics(t) = [i \in 1..n |-> [filter |-> t[i][1], qos |-> t[i][2][1]]]
    BY <1>5 DEF PairTopics
  <2> QED  BY <2>1, <2>2, <2>3
<1>8. PairsBytes(t) = FlattenSeq([i \in DOMAIN topics |-> TopicBytes(topics[i])])
  <2>1. \A i \in 1..n : PairBytes(t[i]) = TopicBytes(topics[i])
    BY <1>6 DEF PairBytes, TopicBytes
  <2>2. [i \in DOMAIN t |-> PairBytes(t[i])] = [i \in DOMAIN topics |-> TopicBytes(topics[i])]
    BY <1>1, <1>5, <2>1
  <2> QED  BY <2>2 DEF PairsBytes
<1> QED  BY <1>5, <1>6, <1>7, <1>8 DEF t, n

LEMMA SubscribeBytes ==
  \A m : m.topics \in Seq(Topic) => SubscribeBody(m) = Cat(U16(m.id), PairsBytes(TopicPairs(m.topics)))
<1> TAKE m
<1>1. SubscribeBody(m) = Cat(U16(m.id), FlattenSeq([i \in DOMAIN m.topics |-> TopicBytes(m.topics[i])]))
  BY Zenon DEF SubscribeBody, TopicBytes, Cat
<1> DEFINE ts == m.topics
<1> SUFFICES ASSUME ts \in Seq(Topic)
             PROVE  SubscribeBody(m) = Cat(U16(m.id), PairsBytes(TopicPairs(ts)))
  OBVIOUS
<1>2. SubscribeBody(m) = Cat(U16(m.id), FlattenSeq([i \in DOMAIN ts |-> TopicBytes(ts[i])]))
  BY <1>1
<1> HIDE DEF ts
<1>3. PairsBytes(TopicPairs(ts)) = FlattenSeq([i \in DOMAIN ts |-> TopicBytes(ts[i])])
  BY TopicPairsType
<1> QED  BY <1>2, <1>3

\* encode_subscribe and parse_subscribe.
LEMMA SubscribeRead ==
  ASSUME NEW m \in SubscribeMessage, Encodable(m)
  PROVE  ReadBack(m)
<1> DEFINE ts == m.topics
           t == TopicPairs(ts)
           c == PairsBytes(t)
           b == Cat(U16(m.id), c)
           p == <<m.id, c>>
           Fitting(r) == {x \in Items(r[2], 1) : \A i \in DOMAIN x : x[i][2][1] <= 2}
           New(r, x) == [type |-> SUBSCRIBE, id |-> r[1],
                         topics |-> [i \in DOMAIN x |-> [filter |-> x[i][1], qos |-> x[i][2][1]]]]
<1>1. /\ m.type = SUBSCRIBE /\ m.id \in Number /\ ts \in Seq(Topic)
      /\ m = [type |-> SUBSCRIBE, id |-> m.id, topics |-> ts]
  BY DEF SubscribeMessage, Topic
<1>2. m.id # 0 /\ ts # <<>> /\ \A i \in DOMAIN ts : ts[i].filter # <<>> /\ ts[i].qos <= 2
  BY <1>1 DEF Encodable
<1>3. MessageBody(m) = b  BY <1>1, BodiesApart, SubscribeBytes
<1> HIDE DEF ts
<1>4. /\ t \in Seq(Pair(1)) /\ Len(t) = Len(ts) /\ PairTopics(t) = ts
      /\ \A i \in 1..Len(ts) : t[i][1] = ts[i].filter /\ t[i][2][1] = ts[i].qos
  BY <1>1, TopicPairsType
<1> HIDE DEF t
<1>5. DOMAIN t = 1..Len(ts) /\ DOMAIN ts = 1..Len(ts) /\ Len(ts) \in Nat /\ t # <<>>
  <2> DEFINE S == Topic
             T == Pair(1)
  <2>1. ts \in Seq(S) /\ t \in Seq(T)  BY <1>1, <1>4
  <2> HIDE DEF S, T
  <2>2. DOMAIN t = 1..Len(t) /\ DOMAIN ts = 1..Len(ts) /\ Len(ts) \in Nat  BY <2>1
  <2>3. Len(ts) # 0  BY <1>2, <2>1
  <2>4. Len(t) # 0 => t # <<>>  OBVIOUS
  <2> QED  BY <1>4, <2>2, <2>3, <2>4
<1>6. <<>> \notin ToSet(Firsts(t))
  <2>1. \A i \in DOMAIN t : t[i][1] # <<>>  BY <1>2, <1>4, <1>5
  <2> QED  BY <2>1, Zenon DEF Firsts, ToSet
<1>7. c \in Buffer /\ Items(c, 1) = {t}  BY <1>4, <1>5, <1>6, PairsBytesType, ItemsRead
<1> HIDE DEF c
<1>8. b \in Buffer /\ ReadId(1, b) = {p}  BY <1>1, <1>2, <1>7, IdRead
<1>9. p[1] = m.id /\ p[2] = c  OBVIOUS
<1> HIDE DEF b, p
<1>10. ParseSubscribe(b) = UNION {{New(r, x) : x \in Fitting(r)} : r \in ReadId(1, b)}
  BY Zenon DEF ParseSubscribe
<1>11. New(p, t) = m
  <2>1. New(p, t) = [type |-> SUBSCRIBE, id |-> p[1], topics |-> PairTopics(t)]
    BY Zenon DEF PairTopics
  <2> QED  BY <1>1, <1>4, <1>9, <2>1
<1>12. Fitting(p) = {t}
  <2>1. \A i \in DOMAIN t : t[i][2][1] <= 2  BY <1>2, <1>4, <1>5
  <2> QED  BY <1>7, <1>9, <2>1
<1> HIDE DEF New, Fitting
<1>13. ParseSubscribe(b) = {m}
  <2>1. {{New(r, x) : x \in Fitting(r)} : r \in ReadId(1, b)} = {{New(p, x) : x \in Fitting(p)}}
    BY <1>8
  <2>2. {New(p, x) : x \in Fitting(p)} = {m}  BY <1>11, <1>12
  <2> QED  BY <1>10, <2>1, <2>2
<1> QED  BY <1>1, <1>3, <1>8, <1>13, ParsersApart DEF ReadBack

\* encode_publish and parse_publish: the flags of the header are read back, too.
LEMMA PublishRead ==
  ASSUME NEW m \in PublishMessage, Encodable(m)
  PROVE  ReadBack(m) /\ MessageFlags(m) \in 0..15 /\ m.qos \in 0..2
<1> DEFINE w == WithLength(m.topic)
           ids == IF m.qos > 0 THEN U16(m.id) ELSE <<>>
           rest == Cat(ids, m.payload)
           body == Cat(w, rest)
           flags == MessageFlags(m)
<1>1. /\ m.type = PUBLISH /\ m.topic \in Buffer /\ Len(m.topic) < Base * Base
      /\ m.payload \in Buffer /\ m.qos \in 0..2 /\ m.id \in Number
      /\ m.dup \in {0, 1} /\ m.retain \in {0, 1}
  <2>1. /\ m.type = PUBLISH /\ m.topic \in ShortString /\ m.payload \in String /\ m.qos \in Byte
        /\ m.id \in Number /\ m.dup \in {0, 1} /\ m.retain \in {0, 1}
    BY DEF PublishMessage
  <2>2. m.qos \in 0..2
    <3>1. m.qos <= 2  BY <2>1 DEF Encodable
    <3>2. \A x \in Byte : x <= 2 => x \in 0..2  BY DEF Byte
    <3> QED  BY <2>1, <3>1, <3>2
  <2>3. m.topic \in Short /\ m.payload \in Buffer  BY <2>1, StringsAreShort
  <2> QED  BY <2>1, <2>2, <2>3, ShortLength
<1>2. m = [type |-> PUBLISH, topic |-> m.topic, qos |-> m.qos, id |-> m.id,
           payload |-> m.payload, dup |-> m.dup, retain |-> m.retain]
  BY DEF PublishMessage
<1>3. m.topic # <<>> /\ m.qos <= 2 /\ (m.qos = 0 <=> m.id = 0)
  BY <1>1 DEF Encodable
<1>4. /\ flags \in 0..15 /\ (flags \div 2) % 4 = m.qos /\ flags \div 8 = m.dup
      /\ flags % 2 = m.retain
  <2>1. flags = 8 * m.dup + 2 * m.qos + m.retain  BY <1>1 DEF MessageFlags
  <2>2. ASSUME NEW d \in 0..1, NEW q \in 0..3, NEW r \in 0..1, NEW f, f = 8 * d + 2 * q + r
        PROVE  f \in 0..15 /\ (f \div 2) % 4 = q /\ f \div 8 = d /\ f % 2 = r
    <3>1. f \in 0..15  BY <2>2
    <3>2. f = 8 * d + (2 * q + r) /\ 2 * q + r \in 0..(8 - 1)  BY <2>2
    <3>3. f = 2 * (4 * d + q) + r /\ 4 * d + q \in Nat /\ r \in 0..(2 - 1)  BY <2>2
    <3>4. f \div 8 = d  BY <3>2, DivMult
    <3>5. f \div 2 = 4 * d + q /\ f % 2 = r  BY <3>3, DivMult
    <3>6. (4 * d + q) % 4 = q  BY DivMult
    <3> QED  BY <3>1, <3>4, <3>5, <3>6
  <2>3. m.dup \in 0..1 /\ m.qos \in 0..3 /\ m.retain \in 0..1  BY <1>1
  <2> DEFINE d == m.dup
             q == m.qos
             r == m.retain
  <2>4. d \in 0..1 /\ q \in 0..3 /\ r \in 0..1 /\ flags = 8 * d + 2 * q + r  BY <2>1, <2>3
  <2> HIDE DEF flags, d, q, r
  <2>5. flags \in 0..15 /\ (flags \div 2) % 4 = q /\ flags \div 8 = d /\ flags % 2 = r
    BY <2>2, <2>4
  <2> QED  BY <2>5 DEF d, q, r
<1> HIDE DEF flags
<1>5. ids \in Buffer /\ ReadId(m.qos, rest) = {<<m.id, m.payload>>}
  <2>1. CASE m.qos > 0
    <3>1. U16(m.id) \in Buffer /\ ReadU16(Cat(U16(m.id), m.payload)) = {<<m.id, m.payload>>}
      BY <1>1, NumberRead DEF Number
    <3>2. ids = U16(m.id)  BY <2>1
    <3> HIDE DEF ids
    <3>3. m.id # 0 /\ m.qos # 0  BY <1>1, <1>3, <2>1
    <3> QED  BY <3>1, <3>2, <3>3 DEF ReadId
  <2>2. CASE ~(m.qos > 0)
    <3>1. m.qos = 0 /\ m.id = 0  BY <1>1, <1>3, <2>2
    <3>2. ids = <<>>  BY <2>2
    <3>3. Cat(<<>>, m.payload) = m.payload  BY <1>1 DEF Cat, Buffer
    <3> HIDE DEF ids
    <3>4. ids \in Buffer  BY <3>2 DEF Buffer
    <3> QED  BY <3>1, <3>2, <3>3, <3>4 DEF ReadId
  <2> QED  BY <2>1, <2>2
<1> HIDE DEF ids
<1>6. rest \in Buffer  BY <1>1, <1>5, CatAt DEF Buffer
<1>7. w \in Buffer /\ ReadString(body) = {<<m.topic, rest>>}
  <2> HIDE DEF rest
  <2> QED  BY <1>1, <1>6, StringRead
<1> HIDE DEF w
<1>8. PublishBody(m) = body
  <2>1. Cat(Cat(w, ids), m.payload) = Cat(w, Cat(ids, m.payload))
    <3>1. w \in Seq(Nat) /\ ids \in Seq(Nat) /\ m.payload \in Seq(Nat)
      BY <1>1, <1>5, <1>7 DEF Buffer
    <3> DEFINE y == m.payload
    <3> HIDE DEF y
    <3>2. Cat(Cat(w, ids), y) = Cat(w, Cat(ids, y))  BY <3>1, CatAssociative DEF y
    <3> QED  BY <3>2 DEF y
  <2>2. PublishBody(m) = Cat(Cat(w, ids), m.payload)
    BY Zenon DEF PublishBody, Cat, w, ids
  <2> QED  BY <2>1, <2>2
<1>9. body \in Buffer
  <2> HIDE DEF rest
  <2> QED  BY <1>6, <1>7, CatAt DEF Buffer
<1> DEFINE p == <<m.topic, rest>>
           Topics == {r \in ReadString(body) : r[1] # <<>>}
           qos == (flags \div 2) % 4
           Message(t, i) == [type |-> PUBLISH, topic |-> t[1], qos |-> qos, id |-> i[1],
                          payload |-> i[2], dup |-> flags \div 8, retain |-> flags % 2]
           q == <<m.id, m.payload>>
<1>10. p[1] = m.topic /\ p[2] = rest /\ q[1] = m.id /\ q[2] = m.payload  OBVIOUS
<1> HIDE DEF rest, body
<1>11. Topics = {p}  BY <1>3, <1>7, <1>10
<1>12. ReadId(m.qos, p[2]) = {q}  BY <1>5, <1>10
<1> HIDE DEF p, Topics, q
<1>13. ParsePublish(flags, body) = UNION {{Message(t, i) : i \in ReadId(qos, t[2])} : t \in Topics}
  <2>1. qos # 3  BY <1>1, <1>3, <1>4
  <2> QED  BY <2>1, Zenon DEF ParsePublish, Topics
<1>14. Message(p, q) = m /\ qos = m.qos  BY <1>2, <1>4, <1>10
<1> HIDE DEF Message, qos
<1>15. ParsePublish(flags, body) = {m}
  <2>1. {Message(p, i) : i \in ReadId(qos, p[2])} = {m}  BY <1>12, <1>14
  <2>2. {{Message(t, i) : i \in ReadId(qos, t[2])} : t \in Topics}
          = {{Message(p, i) : i \in ReadId(qos, p[2])}}
    BY <1>11
  <2> QED  BY <1>13, <2>1, <2>2
<1>16. MessageBody(m) = body  BY <1>1, <1>8, BodiesApart
<1> QED  BY <1>1, <1>4, <1>9, <1>15, <1>16, ParsersApart DEF flags, ReadBack

----------------------------------------------------------------------------
(* CONNECT.                                                                *)

\* A field that may be there.
LEMMA OptionalParts ==
  ASSUME NEW S, NEW s \in Optional(S)
  PROVE  /\ s \in Seq(S) /\ Len(s) \in 0..1
         /\ s = <<>> => Len(s) = 0
         /\ s # <<>> => Len(s) = 1 /\ s[1] \in S /\ s = <<s[1]>>
<1>1. s \in Seq(S) /\ Len(s) <= 1 /\ Len(s) \in Nat  BY DEF Optional
<1>2. s # <<>> => Len(s) = 1
  <2> DEFINE n == Len(s)
  <2>1. n = 0 => s = <<>>  BY <1>1
  <2>2. n \in Nat /\ n <= 1  BY <1>1
  <2> HIDE DEF n
  <2>3. n = 0 \/ n = 1  BY <2>2
  <2> QED  BY <2>1, <2>3 DEF n
<1>3. s # <<>> => s[1] \in S /\ s = <<s[1]>>
  <2> SUFFICES ASSUME s # <<>> PROVE s[1] \in S /\ s = <<s[1]>>  OBVIOUS
  <2>1. s[1] \in S  BY <1>1, <1>2
  <2> DEFINE t == <<s[1]>>
  <2>2. t \in Seq(S) /\ Len(t) = 1 /\ t[1] = s[1]  BY <2>1
  <2> HIDE DEF t
  <2>3. s = t  BY <1>1, <1>2, <2>2, SeqEqual
  <2> QED  BY <2>1, <2>3 DEF t
<1> QED  BY <1>1, <1>2, <1>3

\* The flags of CONNECT, one by one.
FlagsAre(f, u, p, r, q, w, c) ==
  /\ f \in 0..255
  /\ Bit(f, 1) = 0 /\ Bit(f, 2) = c /\ Bit(f, 4) = w /\ (f \div 8) % 4 = q
  /\ Bit(f, 32) = r /\ Bit(f, 64) = p /\ Bit(f, 128) = u

\* A sum of different bits holds each of them.
LEMMA FlagBits ==
  ASSUME NEW u \in 0..1, NEW p \in 0..1, NEW r \in 0..1, NEW q \in 0..3, NEW w \in 0..1,
         NEW c \in 0..1
  PROVE  FlagsAre(128 * u + 64 * p + 32 * r + 8 * q + 4 * w + 2 * c, u, p, r, q, w, c)
<1> SUFFICES ASSUME NEW f, f = 128 * u + 64 * p + 32 * r + 8 * q + 4 * w + 2 * c
             PROVE  /\ f \in 0..255
                    /\ Bit(f, 1) = 0 /\ Bit(f, 2) = c /\ Bit(f, 4) = w /\ (f \div 8) % 4 = q
                    /\ Bit(f, 32) = r /\ Bit(f, 64) = p /\ Bit(f, 128) = u
  BY Zenon DEF FlagsAre
<1>1. f \in 0..255  OBVIOUS
<1>2. ASSUME NEW d \in Nat, d > 0, NEW h \in Nat, NEW l \in 0..(d - 1), f = d * h + l
      PROVE  f \div d = h
  BY <1>2, DivMult
<1>3. ASSUME NEW x \in Nat, NEW y \in 0..1 PROVE (2 * x + y) % 2 = y  BY DivMult
<1>4. Bit(f, 1) = 0
  <2>1. f = 1 * f + 0 /\ f \in Nat /\ 0 \in 0..(1 - 1)  BY <1>1
  <2>2. f \div 1 = f  BY <1>2, <2>1
  <2> DEFINE x == 64 * u + 32 * p + 16 * r + 4 * q + 2 * w + c
  <2>3. f = 2 * x + 0 /\ x \in Nat  OBVIOUS
  <2> HIDE DEF x
  <2>4. f % 2 = 0  BY <1>3, <2>3
  <2> QED  BY <2>2, <2>4 DEF Bit
<1>5. Bit(f, 2) = c
  <2> DEFINE x == 32 * u + 16 * p + 8 * r + 2 * q + w
             y == 2 * x + c
  <2>1. f = 2 * y + 0 /\ x \in Nat /\ y \in Nat /\ 0 \in 0..(2 - 1)  OBVIOUS
  <2>2. f \div 2 = y
    <3> HIDE DEF y
    <3> QED  BY <1>2, <2>1
  <2>3. y % 2 = c
    <3> HIDE DEF x
    <3> QED  BY <1>3, <2>1
  <2> QED  BY <2>2, <2>3 DEF Bit
<1>6. Bit(f, 4) = w
  <2> DEFINE x == 16 * u + 8 * p + 4 * r + q
             y == 2 * x + w
  <2>1. f = 4 * y + 2 * c /\ x \in Nat /\ y \in Nat /\ 2 * c \in 0..(4 - 1)  OBVIOUS
  <2>2. f \div 4 = y
    <3> HIDE DEF y
    <3> QED  BY <1>2, <2>1
  <2>3. y % 2 = w
    <3> HIDE DEF x
    <3> QED  BY <1>3, <2>1
  <2> QED  BY <2>2, <2>3 DEF Bit
<1>7. (f \div 8) % 4 = q
  <2> DEFINE x == 4 * u + 2 * p + r
             y == 4 * x + q
  <2>1. f = 8 * y + (4 * w + 2 * c) /\ x \in Nat /\ y \in Nat /\ 4 * w + 2 * c \in 0..(8 - 1)
    OBVIOUS
  <2>2. f \div 8 = y
    <3> HIDE DEF y
    <3> QED  BY <1>2, <2>1
  <2>3. y % 4 = q
    <3> HIDE DEF x
    <3> QED  BY <2>1, DivMult
  <2> QED  BY <2>2, <2>3
<1>8. Bit(f, 32) = r
  <2> DEFINE x == 2 * u + p
             y == 2 * x + r
             z == 8 * q + 4 * w + 2 * c
  <2>1. f = 32 * y + z /\ x \in Nat /\ y \in Nat /\ z \in 0..(32 - 1)  OBVIOUS
  <2>2. f \div 32 = y
    <3> HIDE DEF y, z
    <3> QED  BY <1>2, <2>1
  <2>3. y % 2 = r
    <3> HIDE DEF x
    <3> QED  BY <1>3, <2>1
  <2> QED  BY <2>2, <2>3 DEF Bit
<1>9. Bit(f, 64) = p
  <2> DEFINE y == 2 * u + p
             z == 32 * r + 8 * q + 4 * w + 2 * c
  <2>1. f = 64 * y + z /\ y \in Nat /\ z \in 0..(64 - 1)  OBVIOUS
  <2>2. f \div 64 = y
    <3> HIDE DEF y, z
    <3> QED  BY <1>2, <2>1
  <2>3. y % 2 = p  BY <1>3
  <2> QED  BY <2>2, <2>3 DEF Bit
<1>10. Bit(f, 128) = u
  <2> DEFINE z == 64 * p + 32 * r + 8 * q + 4 * w + 2 * c
  <2>1. f = 128 * u + z /\ u \in Nat /\ z \in 0..(128 - 1)  OBVIOUS
  <2>2. f \div 128 = u
    <3> HIDE DEF z
    <3> QED  BY <1>2, <2>1
  <2>3. u % 2 = u
    <3>1. (2 * 0 + u) % 2 = u /\ 2 * 0 + u = u  BY <1>3
    <3> QED  BY <3>1
  <2> QED  BY <2>2, <2>3 DEF Bit
<1> QED  BY <1>1, <1>4, <1>5, <1>6, <1>7, <1>8, <1>9, <1>10

LEMMA ProtocolType == Protocol \in Buffer /\ Len(Protocol) = 7
<1> DEFINE name == <<1, 2, 3, 3>>
           level == <<4>>
           w == WithLength(name)
<1>1. name \in Buffer /\ Len(name) = 4 /\ level \in Buffer /\ Len(level) = 1  BY DEF Buffer
<1> HIDE DEF name, level
<1>2. name \in Short
  <2> DEFINE B == Base
  <2>1. B \in Nat /\ B >= 8  BY BaseFacts
  <2> HIDE DEF B
  <2>2. 4 < B * B
    <3>1. B * B = 8 * B + (B - 8) * B /\ (B - 8) * B \in Nat  BY <2>1
    <3> QED  BY <2>1, <3>1
  <2> QED  BY <1>1, <2>2 DEF Short, B
<1>3. w \in Buffer /\ Len(w) = 6
  <2>1. WithLength(name) \in Buffer /\ Len(WithLength(name)) = 2 + Len(name)
    BY <1>2, WithLengthType
  <2> HIDE DEF w
  <2> QED  BY <1>1, <2>1 DEF w
<1>4. Protocol = Cat(w, level)  BY Zenon DEF Protocol, Cat, w, name, level
<1> HIDE DEF w
<1>5. Cat(w, level) \in Buffer /\ Joined(Cat(w, level), w, level)  BY <1>1, <1>3, CatAt DEF Buffer
<1>6. Len(Cat(w, level)) = 7  BY <1>1, <1>3, <1>5 DEF Joined
<1> QED  BY <1>4, <1>5, <1>6

LEMMA NumberValue ==
  ASSUME NEW v \in Number
  PROVE  Base * U16(v)[1] + U16(v)[2] = v
<1> DEFINE u == U16(v)
           e == <<>>
<1>1. u \in Seq(Nat) /\ Len(u) = 2 /\ e \in Buffer  BY NumberType DEF Buffer
<1>2. Cat(u, e) = u  BY <1>1, CatEmpty
<1>3. ReadU16(u) = {<<v, e>>}
  <2>1. ReadU16(Cat(U16(v), e)) = {<<v, e>>}  BY <1>1, NumberRead DEF Number
  <2> QED  BY <1>2, <2>1
<1> HIDE DEF u, e
<1>4. ReadU16(u) = {<<Base * u[1] + u[2], From(u, 3)>>}  BY <1>1 DEF ReadU16
<1>5. <<Base * u[1] + u[2], From(u, 3)>> = <<v, e>>  BY <1>3, <1>4
<1> QED  BY <1>5 DEF u

\* The strings of a CONNECT, and what is in front of them.
WillRow(will) == IF will = <<>> THEN <<>> ELSE <<will[1].topic, will[1].message>>
ConnectRow(m) == Cat(Cat(Cat(<<m.client_id>>, WillRow(m.will)), m.username), m.password)
ConnectHead(f, k) == Cat(Cat(Protocol, <<f>>), U16(k))

LEMMA ConnectHeadParts ==
  ASSUME NEW f \in Nat, NEW k \in Number
  PROVE  LET h == ConnectHead(f, k) IN
         /\ h \in Seq(Nat) /\ Len(h) = 10 /\ \A i \in 1..7 : h[i] = Protocol[i]
         /\ h[8] = f /\ h[9] = U16(k)[1] /\ h[10] = U16(k)[2]
<1> DEFINE x == <<f>>
           u == U16(k)
           g == Cat(Protocol, x)
           h == Cat(g, u)
<1>1. Protocol \in Seq(Nat) /\ Len(Protocol) = 7  BY ProtocolType DEF Buffer
<1>2. x \in Seq(Nat) /\ Len(x) = 1 /\ x[1] = f  OBVIOUS
<1>3. u \in Seq(Nat) /\ Len(u) = 2  BY NumberType DEF Buffer
<1> HIDE DEF x, u
<1>4. g \in Seq(Nat) /\ Joined(g, Protocol, x)  BY <1>1, <1>2, CatAt
<1> HIDE DEF g
<1>5. h \in Seq(Nat) /\ Joined(h, g, u)  BY <1>3, <1>4, CatAt
<1> HIDE DEF h
<1>6. /\ Len(g) = 8 /\ g[8] = f /\ \A i \in 1..7 : g[i] = Protocol[i]
  <2>1. Len(g) = 7 + 1 /\ (\A i \in 1..7 : g[i] = Protocol[i]) /\ \A i \in 1..1 : g[7 + i] = x[i]
    BY <1>1, <1>2, <1>4 DEF Joined
  <2>2. g[7 + 1] = x[1]
    <3>1. 1 \in 1..1  OBVIOUS
    <3> QED  BY <2>1, <3>1
  <2> QED  BY <1>2, <2>1, <2>2
<1>7. /\ Len(h) = 10 /\ h[9] = u[1] /\ h[10] = u[2] /\ \A i \in 1..8 : h[i] = g[i]
  <2>1. Len(h) = 8 + 2 /\ (\A i \in 1..8 : h[i] = g[i]) /\ \A i \in 1..2 : h[8 + i] = u[i]
    BY <1>3, <1>5, <1>6 DEF Joined
  <2>2. h[8 + 1] = u[1] /\ h[8 + 2] = u[2]
    <3>1. 1 \in 1..2 /\ 2 \in 1..2  OBVIOUS
    <3> QED  BY <2>1, <3>1
  <2> QED  BY <2>1, <2>2
<1>8. \A i \in 1..7 : i \in 1..8  OBVIOUS
<1>9. 8 \in 1..8  OBVIOUS
<1>10. h[8] = f /\ \A i \in 1..7 : h[i] = Protocol[i]  BY <1>6, <1>7, <1>8, <1>9, Zenon
<1> QED  BY <1>5, <1>7, <1>10, Zenon DEF h, g, u, x, ConnectHead

LEMMA ConnectHeadType ==
  ASSUME NEW f \in Nat, NEW k \in Number, NEW rest \in Buffer
  PROVE  LET b == Cat(ConnectHead(f, k), rest) IN
         /\ ConnectHead(f, k) \in Buffer /\ Len(ConnectHead(f, k)) = 10
         /\ b \in Buffer /\ Len(b) >= 10 /\ SubSeq(b, 1, 7) = Protocol /\ b[8] = f
         /\ Base * b[9] + b[10] = k /\ From(b, 11) = rest
<1> DEFINE h == ConnectHead(f, k)
           u == U16(k)
           b == Cat(h, rest)
<1>1. Protocol \in Seq(Nat) /\ Len(Protocol) = 7  BY ProtocolType DEF Buffer
<1>2. /\ h \in Seq(Nat) /\ Len(h) = 10 /\ \A i \in 1..7 : h[i] = Protocol[i]
      /\ h[8] = f /\ h[9] = u[1] /\ h[10] = u[2]
  BY ConnectHeadParts
<1>3. Base * u[1] + u[2] = k  BY NumberValue
<1> HIDE DEF h, u
<1>4. b \in Seq(Nat) /\ Joined(b, h, rest) /\ SubSeq(b, Len(h) + 1, Len(b)) = rest
  <2>1. rest \in Seq(Nat)  BY DEF Buffer
  <2> QED  BY <1>2, <2>1, CatAt, CutCat, Zenon
<1> HIDE DEF b
<1>5. /\ Len(b) = 10 + Len(rest) /\ Len(rest) \in Nat /\ \A i \in 1..10 : b[i] = h[i]
  BY <1>2, <1>4 DEF Joined
<1>6. b[8] = f /\ b[9] = u[1] /\ b[10] = u[2] /\ \A i \in 1..7 : b[i] = Protocol[i]
  <2>1. 8 \in 1..10 /\ 9 \in 1..10 /\ 10 \in 1..10 /\ \A i \in 1..7 : i \in 1..10
    OBVIOUS
  <2> QED  BY <1>2, <1>5, <2>1
<1>7. SubSeq(b, 1, 7) = Protocol
  <2> DEFINE c == SubSeq(b, 1, 7)
  <2>1. 7 \in 0..Len(b)  BY <1>5
  <2>2. c \in Seq(Nat) /\ Len(c) = 7 /\ \A i \in 1..7 : c[i] = b[i]  BY <1>4, <2>1, CutAt, Zenon
  <2> HIDE DEF c
  <2>3. Len(c) = Len(Protocol) /\ \A i \in 1..Len(c) : c[i] = Protocol[i]  BY <1>1, <1>6, <2>2
  <2>4. c = Protocol  BY <1>1, <2>2, <2>3, SeqEqual, Zenon
  <2> QED  BY <2>4 DEF c
<1>8. From(b, 11) = rest
  <2>1. Len(h) + 1 = 11  BY <1>2
  <2> QED  BY <1>4, <2>1 DEF From
<1>9. Len(b) >= 10  BY <1>5
<1>10. Base * b[9] + b[10] = k  BY <1>3, <1>6
<1>11. b = Cat(ConnectHead(f, k), rest)  BY DEF b, h
<1> QED  BY <1>2, <1>4, <1>6, <1>7, <1>8, <1>9, <1>10, <1>11, Zenon DEF Buffer, h

LEMMA OptionalString ==
  ASSUME NEW s \in Optional(ShortString)
  PROVE  s \in Seq(Short) /\ Len(s) \in 0..1
<1>1. s \in Seq(ShortString) /\ Len(s) \in 0..1  BY OptionalParts
<1>2. \A i \in 1..Len(s) : s[i] \in ShortString  BY <1>1
<1>3. \A i \in 1..Len(s) : s[i] \in Short  BY <1>2, StringsAreShort
<1>4. s = [i \in 1..Len(s) |-> s[i]] /\ Len(s) \in Nat  BY <1>1
<1> QED  BY <1>1, <1>3, <1>4

LEMMA WillRowType ==
  ASSUME NEW will \in Optional(Will)
  PROVE  /\ WillRow(will) \in Seq(Short) /\ Len(WillRow(will)) = 2 * Len(will)
         /\ will # <<>> => /\ WillRow(will)[1] = will[1].topic
                           /\ WillRow(will)[2] = will[1].message
         /\ FlattenSeq([i \in DOMAIN will |-> Strings(<<will[i].topic, will[i].message>>)])
              = Strings(WillRow(will))
<1> DEFINE row == WillRow(will)
           F == FlattenSeq([i \in DOMAIN will |-> Strings(<<will[i].topic, will[i].message>>)])
<1>0. /\ will = <<>> => Len(will) = 0
      /\ will # <<>> => Len(will) = 1 /\ will[1] \in Will /\ will = <<will[1]>>
  BY OptionalParts
<1>1. CASE will = <<>>
  <2>1. row = <<>> /\ <<>> \in Seq(Short) /\ Len(<<>>) = 0  BY <1>1 DEF WillRow
  <2>2. F = <<>>
    <3>1. DOMAIN will = {}  BY <1>1
    <3>2. [i \in DOMAIN will |-> Strings(<<will[i].topic, will[i].message>>)] = <<>>  BY <3>1
    <3> QED  BY <3>2, FlattenEmpty
  <2>3. 2 * Len(will) = 0  BY <1>0, <1>1
  <2> HIDE DEF row, F
  <2>4. row \in Seq(Short) /\ Len(row) = 2 * Len(will)  BY <2>1, <2>3
  <2>5. F = Strings(row)  BY <2>1, <2>2, StringsEmpty
  <2> QED  BY <1>1, <2>4, <2>5, Zenon DEF row, F
<1>2. CASE will # <<>>
  <2> DEFINE x == will[1]
             r == <<x.topic, x.message>>
  <2>1. x.topic \in Short /\ x.message \in Short
    <3>1. x.topic \in ShortString /\ x.message \in ShortString  BY <1>0, <1>2 DEF Will
    <3> QED  BY <3>1, StringsAreShort
  <2>2. row = r  BY <1>2 DEF WillRow
  <2>3. r \in Seq(Short) /\ Len(r) = 2 /\ r[1] = x.topic /\ r[2] = x.message
    <3> DEFINE y == x.topic
               z == x.message
    <3>1. y \in Short /\ z \in Short  BY <2>1
    <3> HIDE DEF y, z
    <3>2. <<y, z>> \in Seq(Short) /\ Len(<<y, z>>) = 2 /\ <<y, z>>[1] = y /\ <<y, z>>[2] = z  BY <3>1
    <3> QED  BY <3>2 DEF y, z
  <2>4. F = Strings(r)
    <3> DEFINE G(i) == Strings(<<will[i].topic, will[i].message>>)
    <3>1. will = <<x>>  BY <1>0, <1>2
    <3>2. DOMAIN will = {1}
      <4> HIDE DEF x
      <4> QED  BY <3>1
    <3>3. G(1) = Strings(r) /\ G(1) \in Seq(Nat)
      <4>1. G(1) = Strings(r)  OBVIOUS
      <4> HIDE DEF r, G
      <4> QED  BY <2>3, <4>1, StringsType DEF Buffer
    <3> HIDE DEF G
    <3>4. [i \in DOMAIN will |-> G(i)] = <<G(1)>>  BY <3>2
    <3>5. FlattenSeq(<<G(1)>>) = G(1)  BY <3>3, FlattenOne
    <3> QED  BY <3>3, <3>4, <3>5 DEF G
  <2>5. 2 * Len(will) = 2
    <3>1. Len(will) = 1  BY <1>0, <1>2, Zenon
    <3> QED  BY <3>1
  <2> HIDE DEF r, row, F
  <2>6. row \in Seq(Short) /\ Len(row) = 2 * Len(will) /\ row[1] = x.topic /\ row[2] = x.message
    BY <2>2, <2>3, <2>5
  <2>7. F = Strings(row)  BY <2>2, <2>4
  <2> QED  BY <2>6, <2>7, Zenon DEF row, F
<1> QED  BY <1>1, <1>2

LEMMA ConnectRowType ==
  ASSUME NEW m \in ConnectMessage
  PROVE  LET row == ConnectRow(m)
             w == 2 * Len(m.will)
             u == Len(m.username)
             n == 1 + w + u + Len(m.password)
         IN
         /\ row \in Seq(Short) /\ Len(row) = n
         /\ row[1] = m.client_id
         /\ m.will # <<>> => row[2] = m.will[1].topic /\ row[3] = m.will[1].message
         /\ SubSeq(row, 2 + w, 1 + w + u) = m.username
         /\ SubSeq(row, 2 + w + u, n) = m.password
         /\ ConnectBody(m) = Cat(ConnectHead(ConnectFlags(m), m.keep_alive), Strings(row))
<1> DEFINE c == <<m.client_id>>
           ws == WillRow(m.will)
           us == m.username
           ps == m.password
           a == Cat(c, ws)
           b == Cat(a, us)
           row == Cat(b, ps)
           w == 2 * Len(m.will)
<1>1. /\ m.client_id \in ShortString /\ m.will \in Optional(Will)
      /\ m.username \in Optional(ShortString) /\ m.password \in Optional(ShortString)
  BY DEF ConnectMessage
<1>2. c \in Seq(Short) /\ Len(c) = 1 /\ c[1] = m.client_id /\ Strings(c) = WithLength(m.client_id)
  <2>1. m.client_id \in Short  BY <1>1, StringsAreShort
  <2> DEFINE y == m.client_id
  <2>2. y \in Short  BY <2>1
  <2> HIDE DEF y
  <2>3. <<y>> \in Seq(Short) /\ Strings(<<y>>) = WithLength(y)  BY <2>2, StringsOne
  <2>4. Len(<<y>>) = 1 /\ <<y>>[1] = y  OBVIOUS
  <2> QED  BY <2>3, <2>4 DEF y
<1>3. /\ ws \in Seq(Short) /\ Len(ws) = w
      /\ m.will # <<>> => Len(ws) = 2 /\ ws[1] = m.will[1].topic /\ ws[2] = m.will[1].message
      /\ FlattenSeq([i \in DOMAIN m.will |-> Strings(<<m.will[i].topic, m.will[i].message>>)])
           = Strings(ws)
  <2> DEFINE x == m.will
  <2>1. x \in Optional(Will)  BY <1>1
  <2>2. x # <<>> => Len(x) = 1  BY <2>1, OptionalParts
  <2> HIDE DEF x
  <2>3. /\ WillRow(x) \in Seq(Short) /\ Len(WillRow(x)) = 2 * Len(x)
        /\ x # <<>> => /\ WillRow(x)[1] = x[1].topic
                       /\ WillRow(x)[2] = x[1].message
        /\ FlattenSeq([i \in DOMAIN x |-> Strings(<<x[i].topic, x[i].message>>)])
             = Strings(WillRow(x))
    BY <2>1, WillRowType
  <2>4. ASSUME x # <<>> PROVE Len(WillRow(x)) = 2
    <3>1. Len(x) = 1 /\ Len(WillRow(x)) = 2 * Len(x)  BY <2>2, <2>3, <2>4, Zenon
    <3> QED  BY <3>1
  <2> QED  BY <2>3, <2>4, Zenon DEF x
<1>4. us \in Seq(Short) /\ Len(us) \in 0..1 /\ ps \in Seq(Short) /\ Len(ps) \in 0..1
  <2>1. ASSUME NEW s \in Optional(ShortString) PROVE s \in Seq(Short) /\ Len(s) \in 0..1
    BY OptionalString
  <2> QED  BY <1>1, <2>1, Zenon
<1>5. ConnectBody(m) = Cat(ConnectHead(ConnectFlags(m), m.keep_alive), Strings(row))
  <2> DEFINE f == ConnectFlags(m)
             h == ConnectHead(f, m.keep_alive)
             sc == Strings(c)
             sw == Strings(ws)
             su == Strings(us)
             sp == Strings(ps)
  <2>1. ConnectBody(m) = Cat(Cat(Cat(Cat(h, sc), sw), su), sp)
    <3>1. ConnectBody(m) =
            Cat(Cat(Cat(Cat(h, WithLength(m.client_id)),
                        FlattenSeq([i \in DOMAIN m.will |-> Strings(<<m.will[i].topic, m.will[i].message>>)])),
                    Strings(m.username)), Strings(m.password))
      BY Zenon DEF ConnectBody, ConnectHead, Cat
    <3> HIDE DEF h
    <3> QED  BY <1>2, <1>3, <3>1, Zenon
  <2>2. sc \in Seq(Nat) /\ sw \in Seq(Nat) /\ su \in Seq(Nat) /\ sp \in Seq(Nat)
    <3> HIDE DEF c, ws, us, ps
    <3> QED  BY <1>2, <1>3, <1>4, StringsType DEF Buffer
  <2>3. h \in Seq(Nat)
    <3>1. m.keep_alive \in Number  BY DEF ConnectMessage
    <3>2. f \in Nat
      <4>1. Len(m.username) \in Nat /\ Len(m.password) \in Nat  BY <1>4
      <4>2. m.clean_session \in {0, 1}  BY DEF ConnectMessage
      <4>3. m.will # <<>> => m.will[1].qos \in Nat /\ m.will[1].retain \in Nat
        <5>1. m.will # <<>> => m.will[1] \in Will  BY <1>1, OptionalParts, Zenon
        <5>2. \A x \in Byte : x \in Nat  BY DEF Byte
        <5>3. \A x \in Will : x.qos \in Byte /\ x.retain \in {0, 1}  BY DEF Will
        <5> QED  BY <5>1, <5>2, <5>3
      <4> DEFINE lu == Len(m.username)
                 lp == Len(m.password)
                 g == IF m.will = <<>> THEN 0 ELSE 4 + 8 * m.will[1].qos + 32 * m.will[1].retain
      <4>4. g \in Nat
        <5>1. CASE m.will = <<>>  BY <5>1
        <5>2. CASE m.will # <<>>
          <6>1. m.will[1].qos \in Nat /\ m.will[1].retain \in Nat  BY <4>3, <5>2, Zenon
          <6>2. g = 4 + 8 * m.will[1].qos + 32 * m.will[1].retain  BY <5>2, Zenon
          <6> QED  BY <6>1, <6>2
        <5> QED  BY <5>1, <5>2
      <4>5. lu \in Nat /\ lp \in Nat  BY <4>1
      <4>6. f = 128 * lu + 64 * lp + 2 * m.clean_session + g  BY Zenon DEF ConnectFlags
      <4> HIDE DEF f, lu, lp, g
      <4> QED  BY <4>2, <4>4, <4>5, <4>6
    <3> DEFINE k == m.keep_alive
               e == <<>>
    <3>3. k \in Number /\ e \in Buffer  BY <3>1 DEF Buffer
    <3> HIDE DEF f, k
    <3> QED  BY <3>2, <3>3, ConnectHeadType DEF Buffer, k
  <2>4. Strings(row) = Cat(Cat(Cat(sc, sw), su), sp)
    <3> HIDE DEF c, ws, us, ps, sc, sw, su, sp
    <3>1. Strings(a) = Cat(sc, sw) /\ a \in Seq(Short)  BY <1>2, <1>3, StringsConcat DEF sc, sw
    <3> HIDE DEF a
    <3>2. Strings(b) = Cat(Strings(a), su) /\ b \in Seq(Short)  BY <1>4, <3>1, StringsConcat DEF su
    <3> HIDE DEF b
    <3>3. Strings(row) = Cat(Strings(b), sp)  BY <1>4, <3>2, StringsConcat DEF sp
    <3> QED  BY <3>1, <3>2, <3>3
  <2> HIDE DEF h, sc, sw, su, sp, row
  <2>5. Cat(Cat(Cat(Cat(h, sc), sw), su), sp) = Cat(h, Cat(Cat(Cat(sc, sw), su), sp))
    <3> DEFINE x == Cat(sc, sw)
               y == Cat(x, su)
    <3>1. x \in Seq(Nat) /\ Cat(Cat(h, sc), sw) = Cat(h, x)  BY <2>2, <2>3, CatAt, CatAssociative
    <3> HIDE DEF x
    <3>2. y \in Seq(Nat) /\ Cat(Cat(h, x), su) = Cat(h, y)
      BY <2>2, <2>3, <3>1, CatAt, CatAssociative
    <3> HIDE DEF y
    <3>3. Cat(Cat(h, y), sp) = Cat(h, Cat(y, sp))  BY <2>2, <2>3, <3>2, CatAssociative
    <3> QED  BY <3>1, <3>2, <3>3 DEF y, x
  <2> QED  BY <2>1, <2>4, <2>5 DEF h
<1> HIDE DEF c, ws, us, ps
<1>6. a \in Seq(Short) /\ Joined(a, c, ws)  BY <1>2, <1>3, CatAt
<1> HIDE DEF a
<1>7. b \in Seq(Short) /\ Joined(b, a, us)  BY <1>4, <1>6, CatAt
<1>8. SubSeq(row, Len(a) + 1, Len(a) + Len(us)) = us  BY <1>4, <1>6, CutMiddle
<1> HIDE DEF b
<1>9. /\ row \in Seq(Short) /\ Joined(row, b, ps)
      /\ SubSeq(row, Len(b) + 1, Len(row)) = ps
  BY <1>4, <1>7, CatAt, CutCat, Zenon
<1> HIDE DEF row, w
<1>10. /\ Len(a) = 1 + w /\ Len(b) = 1 + w + Len(us) /\ Len(row) = 1 + w + Len(us) + Len(ps)
       /\ w \in Nat /\ Len(us) \in Nat /\ Len(ps) \in Nat
  BY <1>2, <1>3, <1>4, <1>6, <1>7, <1>9 DEF Joined
<1>11. row[1] = m.client_id
  <2>1. a[1] = c[1] /\ b[1] = a[1] /\ row[1] = b[1]
    BY <1>2, <1>6, <1>7, <1>9, <1>10 DEF Joined
  <2> QED  BY <1>2, <2>1
<1>12. ASSUME m.will # <<>>
       PROVE  row[2] = m.will[1].topic /\ row[3] = m.will[1].message
  <2>1. Len(ws) = 2 /\ ws[1] = m.will[1].topic /\ ws[2] = m.will[1].message  BY <1>3, <1>12
  <2>2. a[1 + 1] = ws[1] /\ a[1 + 2] = ws[2] /\ w = 2
    <3>1. \A i \in 1..2 : a[1 + i] = ws[i]  BY <1>2, <1>6, <2>1 DEF Joined
    <3>2. 1 \in 1..2 /\ 2 \in 1..2  OBVIOUS
    <3> QED  BY <1>3, <2>1, <3>1, <3>2
  <2>3. b[2] = a[2] /\ b[3] = a[3]
    <3>1. 2 \in 1..Len(a) /\ 3 \in 1..Len(a)  BY <1>10, <2>2
    <3> QED  BY <1>7, <3>1 DEF Joined
  <2>4. row[2] = b[2] /\ row[3] = b[3]
    <3>1. 2 \in 1..Len(b) /\ 3 \in 1..Len(b)  BY <1>10, <2>2
    <3> QED  BY <1>9, <3>1 DEF Joined
  <2> QED  BY <2>1, <2>2, <2>3, <2>4
<1>13. SubSeq(row, 2 + w, 1 + w + Len(us)) = us
  <2>1. Len(a) + 1 = 2 + w /\ Len(a) + Len(us) = 1 + w + Len(us)  BY <1>10
  <2> QED  BY <1>8, <2>1
<1>14. SubSeq(row, 2 + w + Len(us), 1 + w + Len(us) + Len(ps)) = ps
  <2>1. Len(b) + 1 = 2 + w + Len(us)  BY <1>10
  <2> QED  BY <1>9, <1>10, <2>1
<1>15. row = ConnectRow(m)  BY DEF row, b, a, c, ws, us, ps, ConnectRow
<1> QED
  BY <1>5, <1>9, <1>10, <1>11, <1>12, <1>13, <1>14, <1>15, Zenon DEF w, us, ps

\* What the flags of a CONNECT say.
LEMMA ConnectFlagsRead ==
  ASSUME NEW m \in ConnectMessage, Encodable(m)
  PROVE  LET f == ConnectFlags(m) IN
         /\ f \in 0..255 /\ ConnectFlagsFit(f)
         /\ Bit(f, 2) = m.clean_session /\ Bit(f, 4) = Len(m.will)
         /\ Bit(f, 128) = Len(m.username) /\ Bit(f, 64) = Len(m.password)
         /\ m.will # <<>> => (f \div 8) % 4 = m.will[1].qos /\ Bit(f, 32) = m.will[1].retain
<1> DEFINE f == ConnectFlags(m)
           c == m.clean_session
           u == Len(m.username)
           p == Len(m.password)
           w == Len(m.will)
           q == IF m.will = <<>> THEN 0 ELSE m.will[1].qos
           r == IF m.will = <<>> THEN 0 ELSE m.will[1].retain
           g == IF m.will = <<>> THEN 0 ELSE 4 + 8 * m.will[1].qos + 32 * m.will[1].retain
<1>1. /\ m.type = CONNECT /\ c \in {0, 1} /\ m.will \in Optional(Will)
      /\ m.username \in Optional(ShortString) /\ m.password \in Optional(ShortString)
  BY DEF ConnectMessage
<1>2. /\ \A i \in DOMAIN m.will : m.will[i].qos <= 2
      /\ m.password # <<>> => m.username # <<>>
  BY <1>1 DEF Encodable
<1>3. u \in 0..1 /\ p \in 0..1 /\ w \in 0..1 /\ c \in 0..1
      /\ (m.username # <<>> => u = 1) /\ (m.password = <<>> => p = 0)
      /\ (m.will = <<>> => w = 0) /\ (m.will # <<>> => w = 1 /\ m.will[1] \in Will /\ 1 \in DOMAIN m.will)
  <2>1. \A S : \A s \in Optional(S) :
          /\ Len(s) \in 0..1 /\ (s = <<>> => Len(s) = 0)
          /\ (s # <<>> => Len(s) = 1 /\ s[1] \in S /\ 1 \in DOMAIN s)
    <3> SUFFICES ASSUME NEW S, NEW s \in Optional(S)
                 PROVE  /\ Len(s) \in 0..1 /\ (s = <<>> => Len(s) = 0)
                        /\ (s # <<>> => Len(s) = 1 /\ s[1] \in S /\ 1 \in DOMAIN s)
      OBVIOUS
    <3>2. Len(s) = 1 => 1 \in DOMAIN s
      <4>1. s \in Seq(S)  BY OptionalParts, Zenon
      <4>2. DOMAIN s = 1..Len(s)  BY <4>1
      <4>3. 1 \in 1..1  OBVIOUS
      <4> QED  BY <4>2, <4>3, Zenon
    <3>3. Len(s) \in 0..1 /\ (s = <<>> => Len(s) = 0)  BY OptionalParts, Zenon
    <3>4. s # <<>> => Len(s) = 1 /\ s[1] \in S  BY OptionalParts, Zenon
    <3>5. s # <<>> => 1 \in DOMAIN s  BY <3>2, <3>4, Zenon
    <3> QED  BY <3>3, <3>4, <3>5, Zenon
  <2>2. c \in 0..1  BY <1>1
  <2> QED  BY <1>1, <2>1, <2>2, Zenon
<1>4. q \in 0..2 /\ r \in 0..1 /\ g = 32 * r + 8 * q + 4 * w /\ (w = 0 => q = 0 /\ r = 0)
  <2>1. CASE m.will = <<>>
    <3>1. q = 0 /\ r = 0 /\ g = 0 /\ w = 0  BY <1>3, <2>1, Zenon
    <3> QED  BY <3>1
  <2>2. CASE m.will # <<>>
    <3> DEFINE x == m.will[1]
    <3>1. x \in Will /\ x.qos <= 2 /\ w = 1  BY <1>2, <1>3, <2>2, Zenon
    <3>2. q = x.qos /\ r = x.retain /\ g = 4 + 8 * x.qos + 32 * x.retain  BY <2>2, Zenon
    <3> HIDE DEF x, q, r, g, w
    <3>3. x.qos \in 0..2 /\ x.retain \in 0..1
      <4>1. x.qos \in Byte /\ x.retain \in {0, 1}  BY <3>1 DEF Will
      <4>2. \A y \in Byte : y <= 2 => y \in 0..2  BY DEF Byte
      <4> QED  BY <3>1, <4>1, <4>2
    <3> QED  BY <3>1, <3>2, <3>3
  <2> QED  BY <2>1, <2>2
<1>5. f = 128 * u + 64 * p + 2 * c + g  BY Zenon DEF ConnectFlags
<1>6. m.will # <<>> => q = m.will[1].qos /\ r = m.will[1].retain  BY Zenon
<1>7. p = 1 => u = 1
  <2>1. CASE m.password = <<>>  BY <1>3, <2>1
  <2>2. CASE m.password # <<>>  BY <1>2, <1>3, <2>2, Zenon
  <2> QED  BY <2>1, <2>2
<1> HIDE DEF f, c, u, p, w, q, r, g
<1>8. f = 128 * u + 64 * p + 32 * r + 8 * q + 4 * w + 2 * c  BY <1>3, <1>4, <1>5
<1>9. q \in 0..3  BY <1>4
<1>10. /\ f \in 0..255
       /\ Bit(f, 1) = 0 /\ Bit(f, 2) = c /\ Bit(f, 4) = w /\ (f \div 8) % 4 = q
       /\ Bit(f, 32) = r /\ Bit(f, 64) = p /\ Bit(f, 128) = u
  <2>1. u \in 0..1 /\ p \in 0..1 /\ r \in 0..1 /\ w \in 0..1 /\ c \in 0..1  BY <1>3, <1>4
  <2>2. FlagsAre(128 * u + 64 * p + 32 * r + 8 * q + 4 * w + 2 * c, u, p, r, q, w, c)
    BY <1>9, <2>1, FlagBits
  <2> QED  BY <1>8, <2>2, Zenon DEF FlagsAre
<1>11. ConnectFlagsFit(f)
  <2>1. q # 3  BY <1>4
  <2> QED  BY <1>4, <1>7, <1>10, <2>1, Zenon DEF ConnectFlagsFit
<1> QED  BY <1>6, <1>10, <1>11, Zenon DEF f, c, u, p, w

\* encode_connect and parse_connect.
LEMMA ConnectRead ==
  ASSUME NEW m \in ConnectMessage, Encodable(m)
  PROVE  ReadBack(m)
<1> DEFINE f == ConnectFlags(m)
           row == ConnectRow(m)
           rest == Strings(row)
           b == Cat(ConnectHead(f, m.keep_alive), rest)
           lw == 2 * Len(m.will)
           lu == Len(m.username)
           n == 1 + lw + lu + Len(m.password)
<1>1. m.type = CONNECT /\ m.keep_alive \in Number /\ m.client_id \in ShortString
  BY DEF ConnectMessage
<1>2. m = [type |-> CONNECT, clean_session |-> m.clean_session, keep_alive |-> m.keep_alive,
           client_id |-> m.client_id, will |-> m.will, username |-> m.username,
           password |-> m.password]
  BY DEF ConnectMessage
<1>3. m.client_id = <<>> => m.clean_session = 1  BY <1>1 DEF Encodable
<1>4. /\ f \in 0..255 /\ ConnectFlagsFit(f)
      /\ Bit(f, 2) = m.clean_session /\ Bit(f, 4) = Len(m.will)
      /\ Bit(f, 128) = lu /\ Bit(f, 64) = Len(m.password)
      /\ m.will # <<>> => (f \div 8) % 4 = m.will[1].qos /\ Bit(f, 32) = m.will[1].retain
  BY ConnectFlagsRead, Zenon
<1>5. /\ row \in Seq(Short) /\ Len(row) = n /\ row[1] = m.client_id
      /\ m.will # <<>> => row[2] = m.will[1].topic /\ row[3] = m.will[1].message
      /\ SubSeq(row, 2 + lw, 1 + lw + lu) = m.username
      /\ SubSeq(row, 2 + lw + lu, n) = m.password
      /\ MessageBody(m) = b
  <2>1. MessageBody(m) = ConnectBody(m)  BY <1>1, BodiesApart
  <2> QED  BY <2>1, ConnectRowType, Zenon
<1> HIDE DEF f, row, lw, lu, n
<1>6. rest \in Buffer /\ OnlyStrings(n, rest) = {row}
  <2>1. OnlyStrings(Len(row), Strings(row)) = {row}  BY <1>5, OnlyStringsRead
  <2> QED  BY <1>5, <2>1, StringsType
<1> HIDE DEF rest
<1>7. /\ b \in Buffer /\ Len(b) >= 10 /\ SubSeq(b, 1, 7) = Protocol /\ b[8] = f
      /\ Base * b[9] + b[10] = m.keep_alive /\ From(b, 11) = rest
  <2> DEFINE k == m.keep_alive
  <2>1. k \in Number /\ f \in Nat
    <3>1. \A x \in 0..255 : x \in Nat  OBVIOUS
    <3> QED  BY <1>1, <1>4, <3>1, Zenon
  <2> HIDE DEF k
  <2>2. LET x == Cat(ConnectHead(f, k), rest) IN
        /\ x \in Buffer /\ Len(x) >= 10 /\ SubSeq(x, 1, 7) = Protocol /\ x[8] = f
        /\ Base * x[9] + x[10] = k /\ From(x, 11) = rest
    BY <1>6, <2>1, ConnectHeadType, Zenon
  <2> QED  BY <2>2 DEF k
<1> HIDE DEF b
<1> DEFINE F == b[8]
           W == 2 * Bit(F, 4)
           N == 1 + W + Bit(F, 128) + Bit(F, 64)
           New(s) == [type |-> CONNECT, clean_session |-> Bit(F, 2),
                      keep_alive |-> Base * b[9] + b[10], client_id |-> s[1],
                      will |-> IF W = 0 THEN <<>>
                               ELSE <<[topic |-> s[2], message |-> s[3], qos |-> (F \div 8) % 4,
                                       retain |-> Bit(F, 32)]>>,
                      username |-> SubSeq(s, 2 + W, 1 + W + Bit(F, 128)),
                      password |-> SubSeq(s, 2 + W + Bit(F, 128), N)]
           Fitting == {x \in OnlyStrings(N, From(b, 11)) : x[1] = <<>> => Bit(F, 2) = 1}
<1>8. ParseConnect(b) = {New(s) : s \in Fitting}
  <2>1. ~(Len(b) < 10)
    <3>1. Len(b) \in Nat  BY <1>7 DEF Buffer
    <3> QED  BY <1>7, <3>1
  <2>2. ~(Len(b) < 10 \/ SubSeq(b, 1, 7) # Protocol \/ ~ConnectFlagsFit(b[8]))
    BY <1>4, <1>7, <2>1, Zenon
  <2> QED  BY <2>2, Zenon DEF ParseConnect
<1>9. F = f /\ W = lw /\ N = n  BY <1>4, <1>7 DEF lw, n
<1>10. Fitting = {row}
  <2> HIDE DEF N, F
  <2> QED  BY <1>3, <1>4, <1>5, <1>6, <1>7, <1>9
<1>11. New(row) = m
  <2>1. (IF W = 0 THEN <<>> ELSE <<[topic |-> row[2], message |-> row[3], qos |-> (F \div 8) % 4,
                                    retain |-> Bit(F, 32)]>>) = m.will
    <3>1. m.will \in Optional(Will)  BY DEF ConnectMessage
    <3> HIDE DEF F, W
    <3>2. CASE m.will = <<>>
      <4>1. Len(m.will) = 0  BY <3>1, <3>2, OptionalParts, Zenon
      <4>2. W = 0  BY <1>9, <4>1 DEF lw
      <4> QED  BY <3>2, <4>2, Zenon
    <3>3. CASE m.will # <<>>
      <4>1. Len(m.will) = 1 /\ m.will[1] \in Will /\ m.will = <<m.will[1]>>
        BY <3>1, <3>3, OptionalParts, Zenon
      <4>2. W # 0  BY <1>9, <4>1 DEF lw
      <4> DEFINE x == m.will[1]
      <4>3. x = [topic |-> x.topic, message |-> x.message, qos |-> x.qos, retain |-> x.retain]
        <5>1. x \in Will  BY <4>1
        <5> HIDE DEF x
        <5> QED  BY <5>1 DEF Will
      <4>4. row[2] = x.topic /\ row[3] = x.message /\ (F \div 8) % 4 = x.qos /\ Bit(F, 32) = x.retain
        BY <1>4, <1>5, <1>9, <3>3, Zenon
      <4> DEFINE y == [topic |-> row[2], message |-> row[3], qos |-> (F \div 8) % 4,
                       retain |-> Bit(F, 32)]
      <4>5. y = x  BY <4>3, <4>4, Zenon
      <4> HIDE DEF y
      <4> QED  BY <4>1, <4>2, <4>5, Zenon DEF y
    <3> QED  BY <3>2, <3>3
  <2>2. Bit(F, 2) = m.clean_session /\ Base * b[9] + b[10] = m.keep_alive /\ row[1] = m.client_id
    BY <1>4, <1>5, <1>7, <1>9
  <2>3. SubSeq(row, 2 + W, 1 + W + Bit(F, 128)) = m.username
        /\ SubSeq(row, 2 + W + Bit(F, 128), N) = m.password
    BY <1>4, <1>5, <1>9, Zenon
  <2> QED  BY <1>2, <2>1, <2>2, <2>3, Zenon
<1> HIDE DEF New, Fitting
<1>12. ParseConnect(b) = {m}  BY <1>8, <1>10, <1>11
<1> QED  BY <1>1, <1>5, <1>7, <1>12, ParsersApart DEF ReadBack

----------------------------------------------------------------------------
(* Every message.                                                          *)

\* The type of a message says what it is.
LEMMA MessageTypes ==
  ASSUME NEW m \in ControlPacket
  PROVE  /\ m.type \in 1..14
         /\ m.type = CONNECT => m \in ConnectMessage
         /\ m.type = CONNACK => m \in ConnackMessage
         /\ m.type = PUBLISH => m \in PublishMessage
         /\ m.type \in Acks => m \in AckMessage
         /\ m.type = SUBSCRIBE => m \in SubscribeMessage
         /\ m.type = SUBACK => m \in SubackMessage
         /\ m.type = UNSUBSCRIBE => m \in UnsubscribeMessage
         /\ m.type \in Empty => m \in EmptyMessage
         /\ m.type \in {CONNECT, CONNACK, PUBLISH, SUBSCRIBE, SUBACK, UNSUBSCRIBE} \cup Acks \cup Empty
<1>1. /\ \A x \in ConnectMessage : x.type = CONNECT
      /\ \A x \in ConnackMessage : x.type = CONNACK
      /\ \A x \in PublishMessage : x.type = PUBLISH
      /\ \A x \in AckMessage : x.type \in Acks
      /\ \A x \in SubscribeMessage : x.type = SUBSCRIBE
      /\ \A x \in SubackMessage : x.type = SUBACK
      /\ \A x \in UnsubscribeMessage : x.type = UNSUBSCRIBE
      /\ \A x \in EmptyMessage : x.type \in Empty
  BY DEF ConnectMessage, ConnackMessage, PublishMessage, AckMessage, SubscribeMessage,
     SubackMessage, UnsubscribeMessage, EmptyMessage
<1>2. /\ m \in ConnectMessage \/ m \in ConnackMessage \/ m \in PublishMessage \/ m \in AckMessage
         \/ m \in SubscribeMessage \/ m \in SubackMessage \/ m \in UnsubscribeMessage
         \/ m \in EmptyMessage
  BY Zenon DEF ControlPacket
<1> QED  BY <1>1, <1>2 DEF CONNECT, CONNACK, PUBLISH, SUBSCRIBE, SUBACK, UNSUBSCRIBE, Acks, Empty

\* Every message that is encoded is read back from its body.
LEMMA BodyRead ==
  ASSUME NEW m \in ControlPacket, Encodable(m)
  PROVE  /\ ReadBack(m) /\ m.type \in 1..14 /\ MessageFlags(m) \in 0..15
         /\ FlagsFit(m.type, MessageFlags(m))
<1> DEFINE flags == MessageFlags(m)
<1>1. m.type \in 1..14  BY MessageTypes
<1>2. CASE m.type = PUBLISH
  <2>1. m \in PublishMessage  BY <1>2, MessageTypes
  <2>2. ReadBack(m) /\ flags \in 0..15  BY <2>1, PublishRead
  <2>3. FlagsFit(m.type, flags)  BY <1>2 DEF FlagsFit
  <2> QED  BY <1>1, <2>2, <2>3
<1>3. CASE m.type # PUBLISH
  <2>1. flags = (IF m.type \in {PUBREL, SUBSCRIBE, UNSUBSCRIBE} THEN 2 ELSE 0)
    BY <1>3, Zenon DEF MessageFlags
  <2>2. flags \in 0..15 /\ FlagsFit(m.type, flags)
    <3>1. FlagsFit(m.type, flags)  BY <2>1, Zenon DEF FlagsFit
    <3> HIDE DEF flags
    <3> QED  BY <2>1, <3>1
  <2>3. ReadBack(m)
    <3>1. CASE m.type = CONNECT  BY <3>1, MessageTypes, ConnectRead
    <3>2. CASE m.type = CONNACK  BY <3>2, MessageTypes, ConnackRead
    <3>3. CASE m.type \in Acks  BY <3>3, MessageTypes, AckRead
    <3>4. CASE m.type = SUBSCRIBE  BY <3>4, MessageTypes, SubscribeRead
    <3>5. CASE m.type = SUBACK  BY <3>5, MessageTypes, SubackRead
    <3>6. CASE m.type = UNSUBSCRIBE  BY <3>6, MessageTypes, UnsubscribeRead
    <3>7. CASE m.type \in Empty  BY <3>7, MessageTypes, EmptyRead
    <3> QED  BY <1>3, <3>1, <3>2, <3>3, <3>4, <3>5, <3>6, <3>7, MessageTypes, Zenon
  <2> QED  BY <1>1, <2>2, <2>3
<1> QED  BY <1>2, <1>3

\* What the client sees of a packet with a message in it.
LEMMA SentRead ==
  ASSUME NEW m \in ControlPacket, Encodable(m), Len(MessageBody(m)) <= MaxBody,
         NEW b \in Lengthened(Encoded(m))
  PROVE  /\ b \in Buffer /\ Complete(b) /\ FrameSize(b) = Len(b)
         /\ Type(b) = m.type /\ Body(b) = {MessageBody(m)} /\ Parsed(b) = {m}
<1> DEFINE type == m.type
           body == MessageBody(m)
           flags == MessageFlags(m)
<1>1. /\ body \in Buffer /\ type \in 1..14 /\ flags \in 0..15 /\ FlagsFit(type, flags)
      /\ ParseMessage(type, flags, body) = {m}
  BY BodyRead DEF ReadBack
<1>2. type \in Nat /\ flags \in Nat  BY <1>1
<1>3. Len(body) <= MaxBody /\ b \in Lengthened(Packet(type, flags, body))  BY Zenon DEF Encoded
<1> HIDE DEF type, body, flags
<1>4. PICK k : Shape(b, k, type, flags, body)  BY <1>1, <1>2, <1>3, SentShape
<1>5. /\ Complete(b) /\ FrameSize(b) = Len(b) /\ Type(b) = type /\ Body(b) = {body}
      /\ Parsed(b) = ParseMessage(type, flags, body)
  BY <1>1, <1>4, ShapeReads
<1> QED  BY <1>1, <1>4, <1>5 DEF Shape, type, body

\* In one sentence: what is encoded is parsed as what it was.
LEMMA EncodedRead ==
  ASSUME NEW m \in ControlPacket, Encodable(m), Len(MessageBody(m)) <= MaxBody
  PROVE  Parsed(Encoded(m)) = {m}
<1>1. Encoded(m) \in Lengthened(Encoded(m))  BY DEF Lengthened
<1> QED  BY <1>1, SentRead

\* The client takes a message if its QoS is 0.
LEMMA SentPublish ==
  ASSUME NEW m \in PublishMessage, Encodable(m), Len(PublishBody(m)) <= MaxBody,
         NEW b \in Lengthened(Encoded(m))
  PROVE  /\ b \in Buffer /\ Complete(b) /\ FrameSize(b) = Len(b) /\ Type(b) = PUBLISH
         /\ Parsed(b) = {m}
         /\ Unacceptable(b) <=> m.qos > 0
<1>1. m \in ControlPacket /\ m.type = PUBLISH /\ m.qos \in Byte
  BY DEF ControlPacket, PublishMessage
<1>2. MessageBody(m) = PublishBody(m)  BY <1>1, BodiesApart
<1>3. /\ b \in Buffer /\ Complete(b) /\ FrameSize(b) = Len(b) /\ Type(b) = PUBLISH
      /\ Body(b) # {} /\ Parsed(b) = {m}
  BY <1>1, <1>2, SentRead
<1>4. m.qos \in Nat
  <2>1. \A x \in Byte : x \in Nat  BY DEF Byte
  <2> QED  BY <1>1, <2>1
<1>5. {x \in Parsed(b) : x.qos = 0} = {} <=> m.qos > 0  BY <1>3, <1>4
<1>6. Unacceptable(b) <=> m.qos > 0
  <2>1. Type(b) # PINGRESP /\ Type(b) # SUBACK  BY <1>3 DEF PUBLISH, PINGRESP, SUBACK
  <2> QED  BY <1>3, <1>5, <2>1, Zenon DEF Unacceptable
<1> QED  BY <1>3, <1>6

\* And every other packet but a SUBACK of a failure.
LEMMA SentControl ==
  ASSUME NEW m \in Controls, NEW b \in Lengthened(Encoded(m))
  PROVE  /\ b \in Buffer /\ Complete(b) /\ FrameSize(b) = Len(b) /\ Type(b) # PUBLISH
         /\ Unacceptable(b) <=> m.type = SUBACK /\ m.codes[1] = Failure
<1>1. /\ m \in ControlPacket /\ m.type \in {CONNACK, SUBACK, PINGRESP} \cup Acks
      /\ Encodable(m) /\ Len(MessageBody(m)) <= MaxBody
  BY ConstantsAssumption, Zenon DEF ConstantsAssumption
<1>2. /\ b \in Buffer /\ Complete(b) /\ FrameSize(b) = Len(b) /\ Type(b) = m.type
      /\ Body(b) # {} /\ Parsed(b) = {m}
  BY <1>1, SentRead
<1>3. m.type # PUBLISH  BY <1>1 DEF CONNACK, SUBACK, PINGRESP, Acks, PUBLISH
<1>4. {x \in Parsed(b) : x.codes[1] # Failure} = {} <=> m.codes[1] = Failure  BY <1>2
<1>5. SUBACK # PINGRESP  BY DEF SUBACK, PINGRESP
<1>6. Unacceptable(b) <=> m.type = SUBACK /\ m.codes[1] = Failure
  BY <1>2, <1>3, <1>4, <1>5, Zenon DEF Unacceptable
<1> QED  BY <1>2, <1>3, <1>6

----------------------------------------------------------------------------
(* The bodies that are read, and their messages.                           *)

ByteStrings == {s \in Bytes : Len(s) < Base * Base}

LEMMA ByteStringsType ==
  ASSUME Half >= 128
  PROVE  /\ Bytes \subseteq String /\ ByteStrings \subseteq ShortString
         /\ \A s \in Short : s \in Bytes => s \in ShortString
<1> DEFINE R == 0..(Base - 1)
<1>1. \A x \in Byte : x \in R
  <2>1. Base \in Nat /\ Base >= 256  BY DEF Base
  <2> QED  BY <2>1 DEF Byte
<1> HIDE DEF R
<1>2. ASSUME NEW s \in Bytes PROVE s \in Seq(R)
  <2>1. s \in Seq(Byte)  BY DEF Bytes
  <2>2. s = [i \in 1..Len(s) |-> s[i]] /\ Len(s) \in Nat /\ \A i \in 1..Len(s) : s[i] \in Byte
    BY <2>1
  <2> QED  BY <1>1, <2>2
<1>3. Bytes \subseteq String  BY <1>2 DEF String, R
<1> QED  BY <1>3, Zenon DEF ByteStrings, ShortString, Short

\* Strings that are read to the end are all there is.
LEMMA OnlyStringsWritten ==
  ASSUME Half >= 128, NEW b \in Bytes, NEW n \in Nat, NEW ss \in OnlyStrings(n, b)
  PROVE  /\ ss \in Seq(ShortString) /\ Len(ss) = n /\ Strings(ss) = b
<1>1. PICK r \in ReadRounds(n, b, 0) : r[2] = <<>> /\ ss = Firsts(r[1])
  BY Zenon DEF OnlyStrings
<1> DEFINE t == r[1]
<1>2. /\ t \in Seq(Pair(0)) /\ Len(t) = n /\ Cat(PairsBytes(t), r[2]) = b
      /\ \A i \in 1..n : t[i][1] \in Bytes
  <2>1. 0 \in Nat  OBVIOUS
  <2> QED  BY <2>1, RoundsWritten, Zenon
<1>3. ss = Firsts(t) /\ r[2] = <<>>  BY <1>1
<1> HIDE DEF t
<1>4. ss \in Seq(Short) /\ Len(ss) = n /\ Strings(ss) = PairsBytes(t)
  BY <1>2, <1>3, FirstsPlain
<1>5. Strings(ss) = b
  <2>1. PairsBytes(t) \in Seq(Nat)  BY <1>2, PairsBytesType DEF Buffer
  <2>2. Cat(PairsBytes(t), <<>>) = PairsBytes(t)  BY <2>1, CatEmpty
  <2> QED  BY <1>2, <1>3, <1>4, <2>2
<1>6. \A i \in 1..n : ss[i] \in Bytes
  <2>1. DOMAIN t = 1..n
    <3> DEFINE P == Pair(0)
    <3>1. t \in Seq(P)  BY <1>2
    <3> HIDE DEF P
    <3> QED  BY <1>2, <3>1
  <2> QED  BY <1>2, <1>3, <2>1 DEF Firsts
<1>7. ss \in Seq(ShortString)
  <2>1. ss = [i \in 1..n |-> ss[i]] /\ \A i \in 1..n : ss[i] \in Short
    BY <1>4
  <2>2. \A i \in 1..n : ss[i] \in ShortString  BY <1>6, <2>1, ByteStringsType
  <2> QED  BY <2>1, <2>2
<1> QED  BY <1>4, <1>5, <1>7

\* And items, with the bytes behind them.
LEMMA ItemsWritten ==
  ASSUME Half >= 128, NEW b \in Bytes, NEW extra \in Nat, NEW t \in Items(b, extra)
  PROVE  /\ t \in Seq(Pair(extra)) /\ t # <<>> /\ PairsBytes(t) = b
         /\ \A i \in 1..Len(t) : t[i][1] \in ShortString /\ t[i][1] # <<>>
<1>1. PICK n \in 1..Len(b) : \E r \in ReadRounds(n, b, extra) :
         r[2] = <<>> /\ <<>> \notin ToSet(Firsts(r[1])) /\ t = r[1]
  BY Zenon DEF Items
<1>2. PICK r \in ReadRounds(n, b, extra) :
         r[2] = <<>> /\ <<>> \notin ToSet(Firsts(r[1])) /\ t = r[1]
  BY <1>1
<1>3. n \in Nat /\ n # 0
  <2>1. Len(b) \in Nat  BY DEF Bytes
  <2> QED  BY <2>1
<1>4. /\ t \in Seq(Pair(extra)) /\ Len(t) = n /\ Cat(PairsBytes(t), <<>>) = b
      /\ \A i \in 1..n : t[i][1] \in Bytes
  <2>1. /\ r[1] \in Seq(Pair(extra)) /\ Len(r[1]) = n /\ Cat(PairsBytes(r[1]), r[2]) = b
        /\ \A i \in 1..n : r[1][i][1] \in Bytes
    BY <1>3, RoundsWritten
  <2> QED  BY <1>2, <2>1
<1>5. PairsBytes(t) = b
  <2>1. PairsBytes(t) \in Seq(Nat)  BY <1>4, PairsBytesType DEF Buffer
  <2>2. Cat(PairsBytes(t), <<>>) = PairsBytes(t)  BY <2>1, CatEmpty
  <2> QED  BY <1>4, <2>2
<1>6. DOMAIN t = 1..n /\ t # <<>> /\ \A i \in 1..n : t[i] \in Pair(extra)
  <2> DEFINE P == Pair(extra)
  <2>1. t \in Seq(P)  BY <1>4
  <2> HIDE DEF P
  <2> QED  BY <1>3, <1>4, <2>1 DEF P
<1>7. \A i \in 1..n : t[i][1] \in ShortString
  BY <1>4, <1>6, PairType, ByteStringsType
<1>8. \A i \in 1..n : t[i][1] # <<>>
  BY <1>2, <1>6, Zenon DEF Firsts, ToSet
<1> QED  BY <1>4, <1>5, <1>6, <1>7, <1>8

\* What is read from a body is a message that is encoded to this body.
Wrote(m, type, body) ==
  m \in ControlPacket /\ Encodable(m) /\ m.type = type /\ MessageBody(m) = body

\* An identifier that is read.
LEMMA IdWritten ==
  ASSUME Half >= 128, NEW b \in Bytes, NEW r \in ReadId(1, b)
  PROVE  r[1] \in Number /\ r[1] # 0 /\ r[2] \in Bytes /\ Cat(U16(r[1]), r[2]) = b
<1>1. r \in ReadU16(b) /\ r[1] # 0  BY DEF ReadId
<1> QED  BY <1>1, NumberWritten

\* Each of the parse_ functions reads a message that is written as the body it read.
LEMMA AckWritten ==
  ASSUME Half >= 128, NEW type \in Acks, NEW b \in Bytes, NEW m \in ParseAck(type, b)
  PROVE  Wrote(m, type, b)
<1>1. PICK r \in ReadU16(b) : r[1] # 0 /\ r[2] = <<>> /\ m = [type |-> type, id |-> r[1]]
  BY Zenon DEF ParseAck
<1>2. r[1] \in Number /\ Cat(U16(r[1]), r[2]) = b  BY NumberWritten
<1> DEFINE id == r[1]
<1>3. m.type = type /\ m.id = id /\ m = [type |-> type, id |-> id]  BY <1>1
<1>4. U16(id) = b
  <2>1. U16(id) \in Seq(Nat)  BY <1>2, NumberType DEF Buffer
  <2> QED  BY <1>1, <1>2, <2>1, CatEmpty
<1> HIDE DEF id
<1>5. id \in Number /\ id # 0  BY <1>1, <1>2 DEF id
<1>6. m \in AckMessage  BY <1>3, <1>5 DEF AckMessage
<1>7. Encodable(m)
  <2>1. type # CONNECT /\ type # CONNACK /\ type # PUBLISH /\ type # SUBSCRIBE /\ type # SUBACK
        /\ type # UNSUBSCRIBE
    BY DEF Acks, CONNECT, CONNACK, PUBLISH, SUBSCRIBE, SUBACK, UNSUBSCRIBE
  <2> QED  BY <1>3, <1>5, <2>1, Zenon DEF Encodable
<1>8. MessageBody(m) = b  BY <1>3, <1>4, BodiesApart
<1> QED  BY <1>3, <1>6, <1>7, <1>8, Zenon DEF Wrote, ControlPacket

LEMMA EmptyWritten ==
  ASSUME NEW type \in Empty
  PROVE  Wrote([type |-> type], type, <<>>)
<1> DEFINE m == [type |-> type]
<1>1. m.type = type /\ m \in EmptyMessage  BY DEF EmptyMessage
<1> HIDE DEF m
<1>2. Encodable(m)
  <2>1. type # CONNECT /\ type # CONNACK /\ type # PUBLISH /\ type # SUBSCRIBE /\ type # SUBACK
        /\ type # UNSUBSCRIBE /\ type \notin Acks
    BY DEF Empty, Acks, CONNECT, CONNACK, PUBLISH, SUBSCRIBE, SUBACK, UNSUBSCRIBE
  <2>2. type \notin Acks \cup {SUBSCRIBE, SUBACK, UNSUBSCRIBE}  BY <2>1
  <2> QED  BY <1>1, <2>1, <2>2, Zenon DEF Encodable
<1>3. MessageBody(m) = <<>>  BY <1>1, BodiesApart
<1>4. Wrote(m, type, <<>>)  BY <1>1, <1>2, <1>3, Zenon DEF Wrote, ControlPacket
<1> QED  BY <1>4 DEF m

LEMMA ConnackWritten ==
  ASSUME NEW b \in Bytes, NEW m \in ParseConnack(b)
  PROVE  Wrote(m, CONNACK, b)
<1>1. Len(b) = 2 /\ b[1] \in {0, 1} /\ b[2] <= 5
      /\ m = [type |-> CONNACK, session_present |-> b[1], return_code |-> b[2]]
  BY DEF ParseConnack
<1>2. b \in Seq(Byte) /\ b[2] \in Byte  BY <1>1 DEF Bytes
<1> DEFINE x == b[1]
           y == b[2]
<1>3. /\ m.type = CONNACK /\ m.session_present = x /\ m.return_code = y
      /\ m = [type |-> CONNACK, session_present |-> x, return_code |-> y]
  BY <1>1
<1>4. x \in {0, 1} /\ y \in Byte /\ y <= 5  BY <1>1, <1>2
<1>5. <<x, y>> = b
  <2> DEFINE p == <<x, y>>
  <2>1. p \in Seq(Byte) /\ Len(p) = 2 /\ p[1] = b[1] /\ p[2] = b[2]
    <3>1. 0 \in Byte /\ 1 \in Byte  BY DEF Byte
    <3>2. x \in Byte /\ y \in Byte  BY <1>4, <3>1
    <3> QED  BY <3>2
  <2> HIDE DEF p
  <2>2. \A i \in 1..2 : i = 1 \/ i = 2  OBVIOUS
  <2>3. \A i \in 1..2 : p[i] = b[i]  BY <2>1, <2>2
  <2>4. p = b  BY <1>1, <1>2, <2>1, <2>3, SeqEqual
  <2> QED  BY <2>4 DEF p
<1> HIDE DEF x, y
<1>6. m \in ConnackMessage  BY <1>3, <1>4 DEF ConnackMessage
<1>7. Encodable(m)
  <2>1. CONNACK # CONNECT /\ CONNACK # PUBLISH /\ CONNACK # SUBSCRIBE /\ CONNACK # SUBACK
        /\ CONNACK # UNSUBSCRIBE /\ CONNACK \notin Acks
    BY DEF Acks, CONNECT, CONNACK, PUBLISH, SUBSCRIBE, SUBACK, UNSUBSCRIBE
  <2>2. CONNACK \notin Acks \cup {SUBSCRIBE, SUBACK, UNSUBSCRIBE}  BY <2>1
  <2> QED  BY <1>3, <1>4, <2>1, <2>2, Zenon DEF Encodable
<1>8. MessageBody(m) = b  BY <1>3, <1>5, BodiesApart
<1> QED  BY <1>3, <1>6, <1>7, <1>8, Zenon DEF Wrote, ControlPacket

LEMMA SubackWritten ==
  ASSUME Half >= 128, NEW b \in Bytes, NEW m \in ParseSuback(b)
  PROVE  Wrote(m, SUBACK, b)
<1>1. PICK r \in ReadId(1, b) : /\ r[2] # <<>> /\ ToSet(r[2]) \subseteq SubackCodes
                                /\ m = [type |-> SUBACK, id |-> r[1], codes |-> r[2]]
  BY Zenon DEF ParseSuback
<1> DEFINE id == r[1]
           codes == r[2]
<1>2. id \in Number /\ id # 0 /\ codes \in Seq(Byte) /\ Cat(U16(id), codes) = b
  BY IdWritten DEF Bytes
<1>3. /\ m.type = SUBACK /\ m.id = id /\ m.codes = codes
      /\ m = [type |-> SUBACK, id |-> id, codes |-> codes]
      /\ codes # <<>> /\ ToSet(codes) \subseteq SubackCodes
  BY <1>1
<1> HIDE DEF id, codes
<1>4. m \in SubackMessage  BY <1>2, <1>3 DEF SubackMessage
<1>5. Encodable(m)
  <2>1. SUBACK # CONNECT /\ SUBACK # CONNACK /\ SUBACK # PUBLISH /\ SUBACK # SUBSCRIBE
        /\ SUBACK # UNSUBSCRIBE
    BY DEF CONNECT, CONNACK, PUBLISH, SUBSCRIBE, SUBACK, UNSUBSCRIBE
  <2> QED  BY <1>2, <1>3, <2>1, Zenon DEF Encodable
<1>6. MessageBody(m) = b  BY <1>2, <1>3, BodiesApart
<1> QED  BY <1>3, <1>4, <1>5, <1>6, Zenon DEF Wrote, ControlPacket

LEMMA UnsubscribeWritten ==
  ASSUME Half >= 128, NEW b \in Bytes, NEW m \in ParseUnsubscribe(b)
  PROVE  Wrote(m, UNSUBSCRIBE, b)
<1>1. PICK r \in ReadId(1, b) : \E t \in Items(r[2], 0) :
         m = [type |-> UNSUBSCRIBE, id |-> r[1], filters |-> Firsts(t)]
  BY Zenon DEF ParseUnsubscribe
<1>2. PICK t \in Items(r[2], 0) : m = [type |-> UNSUBSCRIBE, id |-> r[1], filters |-> Firsts(t)]
  BY <1>1
<1> DEFINE id == r[1]
           ss == Firsts(t)
           c == r[2]
<1>3. id \in Number /\ id # 0 /\ c \in Bytes /\ Cat(U16(id), c) = b  BY IdWritten
<1>4. /\ t \in Seq(Pair(0)) /\ t # <<>> /\ PairsBytes(t) = c
      /\ \A i \in 1..Len(t) : t[i][1] \in ShortString /\ t[i][1] # <<>>
  <2>1. 0 \in Nat  OBVIOUS
  <2> HIDE DEF c
  <2>2. t \in Items(c, 0)  BY DEF c
  <2> QED  BY <1>3, <2>1, <2>2, ItemsWritten
<1>5. /\ m.type = UNSUBSCRIBE /\ m.id = id /\ m.filters = ss
      /\ m = [type |-> UNSUBSCRIBE, id |-> id, filters |-> ss]
  BY <1>2
<1>6. ss \in Seq(Short) /\ Len(ss) = Len(t) /\ Strings(ss) = c  BY <1>4, FirstsPlain
<1>7. DOMAIN t = 1..Len(t) /\ Len(t) \in Nat /\ Len(t) # 0
  <2> DEFINE P == Pair(0)
  <2>1. t \in Seq(P)  BY <1>4
  <2> HIDE DEF P
  <2> QED  BY <1>4, <2>1
<1>8. \A i \in 1..Len(t) : ss[i] = t[i][1]  BY <1>7 DEF Firsts
<1> HIDE DEF id, ss, c
<1>9. ss \in Seq(ShortString) /\ ss # <<>> /\ <<>> \notin ToSet(ss)
  <2>1. ss = [i \in 1..Len(t) |-> ss[i]] /\ DOMAIN ss = 1..Len(t)  BY <1>6
  <2>2. \A i \in 1..Len(t) : ss[i] \in ShortString /\ ss[i] # <<>>  BY <1>4, <1>8
  <2>3. ss \in Seq(ShortString)  BY <1>7, <2>1, <2>2
  <2>4. ss # <<>>  BY <1>6, <1>7
  <2>5. <<>> \notin ToSet(ss)  BY <2>1, <2>2, Zenon DEF ToSet
  <2> QED  BY <2>3, <2>4, <2>5
<1>10. m \in UnsubscribeMessage  BY <1>3, <1>5, <1>9 DEF UnsubscribeMessage
<1>11. Encodable(m)
  <2>1. UNSUBSCRIBE # CONNECT /\ UNSUBSCRIBE # CONNACK /\ UNSUBSCRIBE # PUBLISH
        /\ UNSUBSCRIBE # SUBSCRIBE /\ UNSUBSCRIBE # SUBACK
    BY DEF CONNECT, CONNACK, PUBLISH, SUBSCRIBE, SUBACK, UNSUBSCRIBE
  <2> QED  BY <1>3, <1>5, <1>9, <2>1, Zenon DEF Encodable
<1>12. MessageBody(m) = b  BY <1>3, <1>5, <1>6, BodiesApart
<1> QED  BY <1>5, <1>10, <1>11, <1>12, Zenon DEF Wrote, ControlPacket

LEMMA SubscribeWritten ==
  ASSUME Half >= 128, NEW b \in Bytes, NEW m \in ParseSubscribe(b)
  PROVE  Wrote(m, SUBSCRIBE, b)
<1> DEFINE Fitting(r) == {x \in Items(r[2], 1) : \A i \in DOMAIN x : x[i][2][1] <= 2}
<1>1. PICK r \in ReadId(1, b) : \E t \in Fitting(r) :
         m = [type |-> SUBSCRIBE, id |-> r[1], topics |-> PairTopics(t)]
  BY Zenon DEF ParseSubscribe, PairTopics
<1>2. PICK t \in Fitting(r) : m = [type |-> SUBSCRIBE, id |-> r[1], topics |-> PairTopics(t)]
  BY <1>1
<1> DEFINE id == r[1]
           ts == PairTopics(t)
           c == r[2]
           n == Len(t)
           P == Pair(1)
<1>3. id \in Number /\ id # 0 /\ c \in Bytes /\ Cat(U16(id), c) = b  BY IdWritten
<1>4. /\ t \in Seq(P) /\ t # <<>> /\ PairsBytes(t) = c
      /\ \A i \in 1..n : t[i][1] \in ShortString /\ t[i][1] # <<>>
      /\ \A i \in DOMAIN t : t[i][2][1] <= 2
  <2>1. 1 \in Nat  OBVIOUS
  <2>2. t \in Items(c, 1) /\ \A i \in DOMAIN t : t[i][2][1] <= 2  OBVIOUS
  <2> HIDE DEF c
  <2> QED  BY <1>3, <2>1, <2>2, ItemsWritten
<1>5. /\ m.type = SUBSCRIBE /\ m.id = id /\ m.topics = ts
      /\ m = [type |-> SUBSCRIBE, id |-> id, topics |-> ts]
  BY <1>2
<1> HIDE DEF Fitting, id, ts, c
<1>6. DOMAIN t = 1..n /\ n \in Nat /\ n # 0 /\ \A i \in 1..n : t[i] \in Pair(1)
  <2> HIDE DEF P
  <2>1. DOMAIN t = 1..n /\ n \in Nat /\ n # 0 /\ \A i \in 1..n : t[i] \in P  BY <1>4
  <2> QED  BY <2>1 DEF P
<1> HIDE DEF n
<1>7. \A i \in 1..n : /\ t[i][2][1] \in Byte /\ t[i][2][1] <= 2
                      /\ t[i] = <<t[i][1], <<t[i][2][1]>>>>
  <2> TAKE i \in 1..n
  <2>1. /\ t[i] = <<t[i][1], t[i][2]>> /\ t[i][2] \in Seq(Nat) /\ Len(t[i][2]) = 1
        /\ t[i][2][1] <= 2
    BY <1>4, <1>6, PairType DEF Buffer
  <2> DEFINE x == t[i][2]
             y == x[1]
  <2>2. x \in Seq(Nat) /\ Len(x) = 1 /\ y <= 2  BY <2>1
  <2> HIDE DEF x
  <2>3. x[1] \in Nat
    <3>1. 1 \in 1..Len(x) /\ x \in Seq(Nat)  BY <2>2
    <3> QED  BY <3>1, ElementOfSeq, Zenon
  <2>4. \A v \in Nat : v <= 2 => v \in Byte  BY DEF Byte
  <2>5. <<y>> \in Seq(Nat) /\ Len(<<y>>) = 1 /\ <<y>>[1] = y  BY <2>3
  <2>6. x = <<y>>  BY <2>2, <2>5, SeqEqual
  <2> HIDE DEF y
  <2>7. y \in Byte /\ y <= 2  BY <2>2, <2>3, <2>4 DEF y
  <2> QED  BY <2>1, <2>6, <2>7 DEF x, y
<1>8. /\ ts \in Seq(Topic) /\ Len(ts) = n /\ DOMAIN ts = 1..n
      /\ \A i \in 1..n : ts[i].filter = t[i][1] /\ ts[i].qos = t[i][2][1]
  <2>1. ts = [i \in 1..n |-> [filter |-> t[i][1], qos |-> t[i][2][1]]]
    BY <1>6 DEF ts, PairTopics
  <2>2. \A i \in 1..n : [filter |-> t[i][1], qos |-> t[i][2][1]] \in Topic
    BY <1>4, <1>7 DEF Topic, n
  <2>3. \A i \in 1..n : ts[i] = [filter |-> t[i][1], qos |-> t[i][2][1]]  BY <2>1
  <2>4. ts \in Seq(Topic) /\ Len(ts) = n /\ DOMAIN ts = 1..n  BY <1>6, <2>1, <2>2
  <2> QED  BY <2>3, <2>4
<1>9. TopicPairs(ts) = t
  <2>1. \A i \in 1..n : <<ts[i].filter, <<ts[i].qos>>>> = t[i]  BY <1>7, <1>8
  <2>2. t = [i \in 1..n |-> t[i]]
    <3> HIDE DEF P
    <3> QED  BY <1>4, <1>6
  <2> QED  BY <1>8, <2>1, <2>2 DEF TopicPairs
<1>10. ts # <<>>  BY <1>6, <1>8
<1>11. m \in SubscribeMessage  BY <1>3, <1>5, <1>8 DEF SubscribeMessage, Topic
<1>12. Encodable(m)
  <2>1. SUBSCRIBE # CONNECT /\ SUBSCRIBE # CONNACK /\ SUBSCRIBE # PUBLISH
        /\ SUBSCRIBE # UNSUBSCRIBE /\ SUBSCRIBE # SUBACK
    BY DEF CONNECT, CONNACK, PUBLISH, SUBSCRIBE, SUBACK, UNSUBSCRIBE
  <2>2. \A i \in DOMAIN ts : ts[i].filter # <<>> /\ ts[i].qos <= 2
    BY <1>4, <1>7, <1>8 DEF n
  <2> QED  BY <1>3, <1>5, <1>10, <2>1, <2>2, Zenon DEF Encodable
<1>13. MessageBody(m) = b
  <2>1. MessageBody(m) = SubscribeBody(m)  BY <1>5, BodiesApart
  <2>2. SubscribeBody(m) = Cat(U16(id), PairsBytes(t))
    BY <1>5, <1>8, <1>9, SubscribeBytes
  <2> QED  BY <1>3, <1>4, <2>1, <2>2
<1> QED  BY <1>5, <1>11, <1>12, <1>13, Zenon DEF Wrote, ControlPacket

\* The flags of a PUBLISH from its fields, and these from the flags.
LEMMA PublishFlags ==
  ASSUME NEW f \in 0..15
  PROVE  /\ f \div 8 \in {0, 1} /\ (f \div 2) % 4 \in 0..3 /\ f % 2 \in {0, 1}
         /\ 8 * (f \div 8) + 2 * ((f \div 2) % 4) + (f % 2) = f
<1>1. PICK d \in 0..1, q \in 0..3, r \in 0..1 : f = 8 * d + 2 * q + r
  <2>1. \A x \in Nat : \E y \in Nat : \E l \in 0..1 : x = 2 * y + l
    <3> TAKE x \in Nat
    <3>1. x = 2 * (x \div 2) + (x % 2) /\ x \div 2 \in Nat /\ x % 2 \in 0..1  OBVIOUS
    <3> QED  BY <3>1, Zenon
  <2>2. PICK y \in Nat : \E l \in 0..1 : f = 2 * y + l  BY <2>1
  <2>3. PICK l \in 0..1 : f = 2 * y + l  BY <2>2
  <2>4. PICK z \in Nat : \E k \in 0..1 : y = 2 * z + k  BY <2>1
  <2>5. PICK k \in 0..1 : y = 2 * z + k  BY <2>4
  <2>6. PICK w \in Nat : \E j \in 0..1 : z = 2 * w + j  BY <2>1
  <2>7. PICK j \in 0..1 : z = 2 * w + j  BY <2>6
  <2>8. w \in 0..1 /\ 2 * j + k \in 0..3 /\ f = 8 * w + 2 * (2 * j + k) + l
    BY <2>3, <2>5, <2>7
  <2> QED  BY <2>8
<1>2. f \div 8 = d
  <2>1. f = 8 * d + (2 * q + r) /\ 2 * q + r \in 0..(8 - 1)  BY <1>1
  <2> QED  BY <2>1, DivMult
<1>3. f \div 2 = 4 * d + q /\ f % 2 = r
  <2>1. f = 2 * (4 * d + q) + r /\ 4 * d + q \in Nat /\ r \in 0..(2 - 1)  BY <1>1
  <2> QED  BY <2>1, DivMult
<1>4. (4 * d + q) % 4 = q  BY DivMult
<1> QED  BY <1>1, <1>2, <1>3, <1>4

LEMMA PublishWritten ==
  ASSUME Half >= 128, NEW flags \in 0..15, NEW b \in Bytes, NEW m \in ParsePublish(flags, b)
  PROVE  Wrote(m, PUBLISH, b) /\ MessageFlags(m) = flags
<1> DEFINE qos == (flags \div 2) % 4
           dup == flags \div 8
           retain == flags % 2
<1>1. dup \in {0, 1} /\ qos \in 0..3 /\ retain \in {0, 1} /\ 8 * dup + 2 * qos + retain = flags
  BY PublishFlags
<1>2. qos # 3 /\ \E t \in ReadString(b) : t[1] # <<>> /\ \E i \in ReadId(qos, t[2]) :
        m = [type |-> PUBLISH, topic |-> t[1], qos |-> qos, id |-> i[1],
             payload |-> i[2], dup |-> dup, retain |-> retain]
  BY Zenon DEF ParsePublish
<1> HIDE DEF qos, dup, retain
<1>3. PICK t \in ReadString(b) : t[1] # <<>> /\ \E i \in ReadId(qos, t[2]) :
        m = [type |-> PUBLISH, topic |-> t[1], qos |-> qos, id |-> i[1],
             payload |-> i[2], dup |-> dup, retain |-> retain]
  BY <1>2
<1>4. PICK i \in ReadId(qos, t[2]) :
        m = [type |-> PUBLISH, topic |-> t[1], qos |-> qos, id |-> i[1],
             payload |-> i[2], dup |-> dup, retain |-> retain]
  BY <1>3
<1> DEFINE topic == t[1]
           id == i[1]
           payload == i[2]
           rest == t[2]
<1>5. /\ m.type = PUBLISH /\ m.topic = topic /\ m.qos = qos /\ m.id = id /\ m.payload = payload
      /\ m.dup = dup /\ m.retain = retain
      /\ m = [type |-> PUBLISH, topic |-> topic, qos |-> qos, id |-> id,
              payload |-> payload, dup |-> dup, retain |-> retain]
  BY <1>4
<1>6. /\ topic \in ShortString /\ topic \in Short /\ topic # <<>> /\ rest \in Bytes
      /\ Cat(WithLength(topic), rest) = b
  BY <1>3, StringWritten, ByteStringsType
<1> HIDE DEF topic
<1>7. /\ id \in Number /\ payload \in Bytes /\ (qos = 0 <=> id = 0)
      /\ Cat(IF qos > 0 THEN U16(id) ELSE <<>>, payload) = rest
      /\ (IF qos > 0 THEN U16(id) ELSE <<>>) \in Seq(Nat)
  <2>1. CASE qos = 0
    <3>1. i = <<0, rest>>  BY <2>1 DEF ReadId
    <3>2. id = 0 /\ payload = rest  BY <3>1
    <3>3. 0 \in Number  BY BaseFacts DEF Number
    <3>4. ~(qos > 0)  BY <2>1
    <3> HIDE DEF id, payload
    <3>5. Cat(<<>>, rest) = rest
      <4>1. rest \in Seq(Byte)  BY <1>6 DEF Bytes
      <4> HIDE DEF rest
      <4> QED  BY <4>1, CatEmpty
    <3>6. <<>> \in Seq(Nat)  OBVIOUS
    <3> QED  BY <1>6, <2>1, <3>2, <3>3, <3>4, <3>5, <3>6
  <2>2. CASE qos # 0
    <3>1. qos > 0  BY <1>1, <2>2
    <3>2. i \in ReadId(1, rest)  BY <2>2 DEF ReadId
    <3> HIDE DEF rest
    <3>3. id \in Number /\ id # 0 /\ payload \in Bytes /\ Cat(U16(id), payload) = rest
      BY <1>6, <3>2, IdWritten DEF rest
    <3> HIDE DEF id, payload
    <3>4. U16(id) \in Seq(Nat)  BY <3>3, NumberType DEF Buffer
    <3> QED  BY <2>2, <3>1, <3>3, <3>4
  <2> QED  BY <2>1, <2>2
<1> HIDE DEF id, payload, rest
<1>8. qos \in Byte /\ qos <= 2
  <2>1. qos \in 0..2  BY <1>1, <1>2
  <2> QED  BY <2>1 DEF Byte
<1>9. m \in PublishMessage
  <2>1. payload \in String  BY <1>7, ByteStringsType
  <2> QED  BY <1>1, <1>5, <1>6, <1>7, <1>8, <2>1 DEF PublishMessage
<1>10. Encodable(m)
  <2>1. PUBLISH # CONNECT /\ PUBLISH # CONNACK /\ PUBLISH # SUBSCRIBE
        /\ PUBLISH \notin Acks \cup {SUBSCRIBE, SUBACK, UNSUBSCRIBE}
        /\ PUBLISH # UNSUBSCRIBE /\ PUBLISH # SUBACK
    BY DEF Acks, CONNECT, CONNACK, PUBLISH, SUBSCRIBE, SUBACK, UNSUBSCRIBE
  <2> QED  BY <1>5, <1>6, <1>7, <1>8, <2>1, Zenon DEF Encodable
<1>11. MessageBody(m) = b
  <2> DEFINE w == WithLength(topic)
             ids == IF qos > 0 THEN U16(id) ELSE <<>>
  <2>1. MessageBody(m) = Cat(Cat(w, ids), payload)
    <3>1. MessageBody(m) = PublishBody(m)  BY <1>5, BodiesApart
    <3>2. PublishBody(m) = Cat(Cat(w, ids), payload)  BY <1>5, Zenon DEF PublishBody, Cat
    <3> QED  BY <3>1, <3>2
  <2>2. w \in Seq(Nat) /\ ids \in Seq(Nat) /\ payload \in Seq(Nat)
    BY <1>6, <1>7, WithLengthType, BytesAreBuffer DEF Buffer
  <2> HIDE DEF w
  <2>3. Cat(ids, payload) = rest  BY <1>7
  <2> HIDE DEF ids
  <2>4. Cat(Cat(w, ids), payload) = Cat(w, Cat(ids, payload))  BY <2>2, CatAssociative
  <2> QED  BY <1>6, <2>1, <2>3, <2>4 DEF w
<1>12. MessageFlags(m) = flags  BY <1>1, <1>5, Zenon DEF MessageFlags
<1> QED  BY <1>5, <1>9, <1>10, <1>11, <1>12, Zenon DEF Wrote, ControlPacket

\* The first bytes of a CONNECT.
LEMMA ConnectHeadWritten ==
  ASSUME Half >= 128, NEW b \in Bytes, Len(b) >= 10, SubSeq(b, 1, 7) = Protocol
  PROVE  LET k == Base * b[9] + b[10] IN
         /\ b[8] \in Byte /\ k \in Number /\ From(b, 11) \in Bytes
         /\ Cat(ConnectHead(b[8], k), From(b, 11)) = b
<1> DEFINE k == Base * b[9] + b[10]
           f == b[8]
           h == ConnectHead(f, k)
           c == SubSeq(b, 1, 10)
           rest == From(b, 11)
<1>1. b \in Seq(Byte) /\ Len(b) \in Nat  BY DEF Bytes
<1>2. f \in Byte /\ b[9] \in Byte /\ b[10] \in Byte
  <2>1. 8 \in 1..Len(b) /\ 9 \in 1..Len(b) /\ 10 \in 1..Len(b)  BY <1>1
  <2> QED  BY <1>1, <2>1, ElementOfSeq, Zenon
<1>3. k \in Number /\ U16(k) = <<b[9], b[10]>>  BY <1>2, NumberOfBytes
<1>4. U16(k)[1] = b[9] /\ U16(k)[2] = b[10]  BY <1>3
<1>5. f \in Nat
  <2>1. \A x \in Byte : x \in Nat  BY DEF Byte
  <2> QED  BY <1>2, <2>1
<1> HIDE DEF k, f
<1>6. /\ h \in Seq(Nat) /\ Len(h) = 10 /\ \A i \in 1..7 : h[i] = Protocol[i]
      /\ h[8] = f /\ h[9] = b[9] /\ h[10] = b[10]
  BY <1>3, <1>4, <1>5, ConnectHeadParts
<1>7. 10 \in 0..Len(b) /\ 7 \in 0..Len(b) /\ 10 + 1 = 11  BY <1>1
<1>8. /\ c \in Seq(Byte) /\ Len(c) = 10 /\ \A i \in 1..10 : c[i] = b[i]
      /\ SubSeq(b, 10 + 1, Len(b)) \in Seq(Byte) /\ c \o SubSeq(b, 10 + 1, Len(b)) = b
  BY <1>1, <1>7, CutAt, Zenon
<1>9. rest \in Seq(Byte) /\ Cat(c, rest) = b  BY <1>7, <1>8, Zenon DEF From, Cat
<1>10. \A i \in 1..7 : b[i] = Protocol[i]
  <2> DEFINE d == SubSeq(b, 1, 7)
  <2>1. \A i \in 1..7 : d[i] = b[i]  BY <1>1, <1>7, CutAt, Zenon
  <2>2. d = Protocol  OBVIOUS
  <2> HIDE DEF d
  <2> QED  BY <2>1, <2>2
<1> HIDE DEF h, c, rest
<1>11. \A i \in 1..10 : h[i] = c[i]
  <2>1. \A i \in 1..10 : i \in 1..7 \/ i = 8 \/ i = 9 \/ i = 10  OBVIOUS
  <2> QED  BY <1>6, <1>8, <1>10, <2>1, Zenon DEF f
<1>12. h = c
  <2>1. c \in Seq(Nat)
    <3>1. c \in Bytes  BY <1>8 DEF Bytes
    <3> QED  BY <3>1, BytesAreBuffer DEF Buffer
  <2> QED  BY <1>6, <1>8, <1>11, <2>1, SeqEqual
<1> QED  BY <1>2, <1>3, <1>9, <1>12, Zenon DEF Bytes, k, f, h, rest

LEMMA Halved == \A x \in Nat : \E y \in Nat : \E l \in 0..1 : x = 2 * y + l
<1> TAKE x \in Nat
<1>1. x = 2 * (x \div 2) + (x % 2) /\ x \div 2 \in Nat /\ x % 2 \in 0..1  OBVIOUS
<1> QED  BY <1>1, Zenon

\* The flags of CONNECT from their bits.
LEMMA FlagsSplit ==
  ASSUME NEW f \in Byte, Bit(f, 1) = 0
  PROVE  \E u \in 0..1, p \in 0..1, r \in 0..1, q \in 0..3, w \in 0..1, c \in 0..1 :
           /\ f = 128 * u + 64 * p + 32 * r + 8 * q + 4 * w + 2 * c
           /\ FlagsAre(f, u, p, r, q, w, c)
<1>1. f \in 0..255  BY DEF Byte
<1>2. PICK x1 \in Nat : \E l \in 0..1 : f = 2 * x1 + l
  <2>1. f \in Nat  BY <1>1
  <2> QED  BY <2>1, Halved, Zenon
<1>3. PICK l \in 0..1 : f = 2 * x1 + l  BY <1>2
<1>4. l = 0
  <2>1. f = 1 * f + 0 /\ f \in Nat  BY <1>1
  <2>2. f \div 1 = f  BY <2>1
  <2>3. f % 2 = 0  BY <2>2 DEF Bit
  <2>4. l \in 0..(2 - 1) /\ x1 \in Nat /\ 2 \in Nat  OBVIOUS
  <2>5. f % 2 = l  BY <1>3, <2>4, DivMult
  <2> QED  BY <2>3, <2>5
<1>5. PICK x2 \in Nat : \E c \in 0..1 : x1 = 2 * x2 + c  BY Halved
<1>6. PICK c \in 0..1 : x1 = 2 * x2 + c  BY <1>5
<1>7. PICK x3 \in Nat : \E w \in 0..1 : x2 = 2 * x3 + w  BY Halved
<1>8. PICK w \in 0..1 : x2 = 2 * x3 + w  BY <1>7
<1>9. PICK x4 \in Nat : \E q1 \in 0..1 : x3 = 2 * x4 + q1  BY Halved
<1>10. PICK q1 \in 0..1 : x3 = 2 * x4 + q1  BY <1>9
<1>11. PICK x5 \in Nat : \E q2 \in 0..1 : x4 = 2 * x5 + q2  BY Halved
<1>12. PICK q2 \in 0..1 : x4 = 2 * x5 + q2  BY <1>11
<1>13. PICK x6 \in Nat : \E r \in 0..1 : x5 = 2 * x6 + r  BY Halved
<1>14. PICK r \in 0..1 : x5 = 2 * x6 + r  BY <1>13
<1>15. PICK u \in Nat : \E p \in 0..1 : x6 = 2 * u + p  BY Halved
<1>16. PICK p \in 0..1 : x6 = 2 * u + p  BY <1>15
<1> DEFINE q == 2 * q2 + q1
<1>17. f = 128 * u + 64 * p + 32 * r + 8 * q + 4 * w + 2 * c /\ q \in 0..3
  BY <1>3, <1>4, <1>6, <1>8, <1>10, <1>12, <1>14, <1>16
<1>18. u \in 0..1  BY <1>1, <1>17
<1> HIDE DEF q
<1>19. FlagsAre(128 * u + 64 * p + 32 * r + 8 * q + 4 * w + 2 * c, u, p, r, q, w, c)
  BY <1>17, <1>18, FlagBits
<1>20. FlagsAre(f, u, p, r, q, w, c)  BY <1>17, <1>19
<1> QED  BY <1>17, <1>18, <1>20, Zenon

\* One element of a row, or none.
LEMMA CutOptional ==
  ASSUME NEW S, NEW s \in Seq(S), NEW a \in Nat, NEW l \in 0..1, a >= 1, a + l <= Len(s) + 1
  PROVE  LET d == SubSeq(s, a, a + l - 1) IN
         d \in Optional(S) /\ Len(d) = l /\ (l = 1 => d[1] = s[a])
<1> DEFINE n == a + l - 1
           d == SubSeq(s, a, n)
<1>1. Len(s) \in Nat /\ n \in Int /\ a \in Int /\ n - a + 1 = l /\ (a <= n \/ l = 0)
  OBVIOUS
<1>2. \A i \in a..n : i \in 1..Len(s)  BY <1>1
<1>3. \A i \in a..n : s[i] \in S  BY <1>2, ElementOfSeq
<1> HIDE DEF n
<1>4. /\ d \in Seq(S) /\ Len(d) = IF a <= n THEN n - a + 1 ELSE 0
      /\ \A i \in 1..(n - a + 1) : d[i] = s[a + i - 1]
  BY <1>1, <1>3, SubSeqProperties
<1> HIDE DEF d
<1>5. Len(d) = l
  <2>1. CASE a <= n  BY <1>1, <1>4, <2>1
  <2>2. CASE ~(a <= n)
    <3>1. l = 0 /\ n - a + 1 = l  BY <1>1, <2>2
    <3> QED  BY <1>4, <2>2, <3>1
  <2> QED  BY <2>1, <2>2
<1>6. l = 1 => d[1] = s[a]
  <2> SUFFICES ASSUME l = 1 PROVE d[1] = s[a]  OBVIOUS
  <2>1. 1 \in 1..(n - a + 1) /\ a + 1 - 1 = a  BY <1>1
  <2>2. d[1] = s[a + 1 - 1]  BY <1>4, <2>1, Zenon
  <2> QED  BY <2>1, <2>2
<1>7. d \in Optional(S)  BY <1>4, <1>5 DEF Optional
<1> QED  BY <1>5, <1>6, <1>7, Zenon DEF d, n

\* A CONNECT is written as the body it was read from, flags and strings.
LEMMA ConnectWritten ==
  ASSUME Half >= 128, NEW b \in Bytes, NEW m \in ParseConnect(b)
  PROVE  Wrote(m, CONNECT, b)
<1> DEFINE F == b[8]
           U == Bit(F, 128)
           P == Bit(F, 64)
           R == Bit(F, 32)
           Q == (F \div 8) % 4
           B4 == Bit(F, 4)
           W == 2 * B4
           C == Bit(F, 2)
           n == 1 + W + U + P
           k == Base * b[9] + b[10]
           rest == From(b, 11)
           Cut1(s) == SubSeq(s, 2 + W, 1 + W + U)
           Cut2(s) == SubSeq(s, 2 + W + U, n)
           Wills(s) == IF W = 0 THEN <<>>
                       ELSE <<[topic |-> s[2], message |-> s[3], qos |-> Q, retain |-> R]>>
           New(s) == [type |-> CONNECT, clean_session |-> C, keep_alive |-> k, client_id |-> s[1],
                      will |-> Wills(s), username |-> Cut1(s), password |-> Cut2(s)]
<1>1. ~(Len(b) < 10 \/ SubSeq(b, 1, 7) # Protocol \/ ~ConnectFlagsFit(F))
  BY Zenon DEF ParseConnect
<1>2. m \in {New(s) : s \in {x \in OnlyStrings(n, rest) : x[1] = <<>> => C = 1}}
  BY <1>1, Zenon DEF ParseConnect
<1>3. PICK s \in OnlyStrings(n, rest) : (s[1] = <<>> => C = 1) /\ m = New(s)
  BY <1>2, Zenon
<1>4. /\ F \in Byte /\ k \in Number /\ rest \in Bytes /\ Cat(ConnectHead(F, k), rest) = b
  <2>1. Len(b) >= 10
    <3>1. Len(b) \in Nat /\ ~(Len(b) < 10)  BY <1>1 DEF Bytes
    <3> QED  BY <3>1
  <2>2. SubSeq(b, 1, 7) = Protocol  BY <1>1
  <2> QED  BY <2>1, <2>2, ConnectHeadWritten, Zenon
<1>5. /\ Bit(F, 1) = 0 /\ (P = 1 => U = 1) /\ (B4 = 0 => R = 0 /\ Q = 0) /\ Q # 3
  BY <1>1, Zenon DEF ConnectFlagsFit
<1>6. /\ U \in 0..1 /\ P \in 0..1 /\ R \in 0..1 /\ Q \in 0..3 /\ B4 \in 0..1 /\ C \in 0..1
      /\ F = 128 * U + 64 * P + 32 * R + 8 * Q + 4 * B4 + 2 * C
  <2>1. PICK u \in 0..1, p \in 0..1, r \in 0..1, q \in 0..3, w \in 0..1, c \in 0..1 :
           /\ F = 128 * u + 64 * p + 32 * r + 8 * q + 4 * w + 2 * c
           /\ FlagsAre(F, u, p, r, q, w, c)
    BY <1>4, <1>5, FlagsSplit
  <2>2. U = u /\ P = p /\ R = r /\ Q = q /\ B4 = w /\ C = c  BY <2>1, Zenon DEF FlagsAre
  <2> HIDE DEF U, P, R, Q, B4, C, F
  <2> QED  BY <2>1, <2>2
<1> HIDE DEF F, U, P, R, Q, B4, C, k, rest
<1>7. W \in {0, 2} /\ n \in Nat /\ (W = 0 <=> B4 = 0) /\ W \in Nat  BY <1>6
<1>8. s \in Seq(ShortString) /\ Len(s) = n /\ Strings(s) = rest
  <2> HIDE DEF n
  <2> QED  BY <1>4, <1>7, OnlyStringsWritten
<1> DEFINE user == Cut1(s)
           pass == Cut2(s)
           will == Wills(s)
<1>9. /\ m.type = CONNECT /\ m.clean_session = C /\ m.keep_alive = k /\ m.client_id = s[1]
      /\ m.will = will /\ m.username = user /\ m.password = pass
      /\ m = [type |-> CONNECT, clean_session |-> C, keep_alive |-> k, client_id |-> s[1],
              will |-> will, username |-> user, password |-> pass]
  <2> HIDE DEF Wills, Cut1, Cut2
  <2> QED  BY <1>3
<1>10. user \in Optional(ShortString) /\ Len(user) = U /\ (U = 1 => user[1] = s[2 + W])
  <2> DEFINE a == 2 + W
  <2>1. a \in Nat /\ a >= 1 /\ a + U <= Len(s) + 1 /\ a + U - 1 = 1 + W + U
    BY <1>6, <1>7, <1>8
  <2> HIDE DEF a
  <2>2. LET d == SubSeq(s, a, a + U - 1) IN
        d \in Optional(ShortString) /\ Len(d) = U /\ (U = 1 => d[1] = s[a])
    BY <1>6, <1>8, <2>1, CutOptional
  <2> QED  BY <2>1, <2>2 DEF a
<1>11. pass \in Optional(ShortString) /\ Len(pass) = P /\ (P = 1 => pass[1] = s[2 + W + U])
  <2> DEFINE a == 2 + W + U
  <2>1. a \in Nat /\ a >= 1 /\ a + P <= Len(s) + 1 /\ a + P - 1 = n
    BY <1>6, <1>7, <1>8
  <2> HIDE DEF a
  <2>2. LET d == SubSeq(s, a, a + P - 1) IN
        d \in Optional(ShortString) /\ Len(d) = P /\ (P = 1 => d[1] = s[a])
    BY <1>6, <1>8, <2>1, CutOptional
  <2> QED  BY <2>1, <2>2 DEF a
<1>12. s[1] \in ShortString /\ (W # 0 => s[2] \in ShortString /\ s[3] \in ShortString)
  <2>1. 1 \in 1..Len(s) /\ (W # 0 => 2 \in 1..Len(s) /\ 3 \in 1..Len(s))  BY <1>6, <1>7, <1>8
  <2> QED  BY <1>8, <2>1, ElementOfSeq, Zenon
<1> DEFINE x == [topic |-> s[2], message |-> s[3], qos |-> Q, retain |-> R]
<1>13. /\ W = 0 => will = <<>>
       /\ W # 0 => will = <<x>>
       /\ x.topic = s[2] /\ x.message = s[3] /\ x.qos = Q /\ x.retain = R
  OBVIOUS
<1>14. W # 0 => x \in Will
  <2>1. Q \in Byte /\ R \in {0, 1}  BY <1>6 DEF Byte
  <2> QED  BY <1>12, <2>1 DEF Will
<1> HIDE DEF x, will, user, pass
<1>15. /\ will \in Optional(Will) /\ Len(will) = B4
       /\ (W = 0 => will = <<>>) /\ (W # 0 => will # <<>> /\ will[1] = x)
  <2>1. CASE W = 0
    <3>1. <<>> \in Optional(Will) /\ Len(<<>>) = 0  BY DEF Optional
    <3> QED  BY <1>7, <1>13, <2>1, <3>1
  <2>2. CASE W # 0
    <3>1. B4 = 1  BY <1>6, <1>7, <2>2
    <3> DEFINE T == Will
    <3>2. x \in T /\ will = <<x>>  BY <1>13, <1>14, <2>2
    <3> HIDE DEF T
    <3>3. will \in Seq(T) /\ Len(will) = 1 /\ will[1] = x /\ will # <<>>  BY <3>2
    <3>4. Len(will) <= 1  BY <3>3
    <3>5. will \in Optional(Will)  BY <3>3, <3>4, Zenon DEF Optional, T
    <3> QED  BY <2>2, <3>1, <3>3, <3>5, Zenon
  <2> QED  BY <2>1, <2>2
<1>16. m \in ConnectMessage
  <2>1. C \in {0, 1}  BY <1>6
  <2> QED  BY <1>4, <1>9, <1>10, <1>11, <1>12, <1>15, <2>1 DEF ConnectMessage
<1>17. Encodable(m)
  <2>1. CONNECT # PUBLISH /\ CONNECT # CONNACK /\ CONNECT # SUBSCRIBE
        /\ CONNECT \notin Acks \cup {SUBSCRIBE, SUBACK, UNSUBSCRIBE}
        /\ CONNECT # UNSUBSCRIBE /\ CONNECT # SUBACK
    BY DEF Acks, CONNECT, CONNACK, PUBLISH, SUBSCRIBE, SUBACK, UNSUBSCRIBE
  <2>2. \A i \in DOMAIN will : will[i].qos <= 2
    <3>1. DOMAIN will = 1..Len(will)
      <4>1. will \in Seq(Will)  BY <1>15, OptionalParts, Zenon
      <4> DEFINE T == Will
      <4>2. will \in Seq(T)  BY <4>1
      <4> HIDE DEF T
      <4> QED  BY <4>2
    <3>2. \A i \in 1..Len(will) : i = 1 /\ W # 0  BY <1>6, <1>7, <1>15
    <3>3. Q <= 2  BY <1>5, <1>6
    <3> QED  BY <1>13, <1>15, <3>1, <3>2, <3>3, Zenon
  <2>3. pass # <<>> => user # <<>>
    <3>1. pass # <<>> => Len(pass) = 1  BY <1>11, OptionalParts, Zenon
    <3>2. user = <<>> => Len(user) = 0  BY <1>10, OptionalParts, Zenon
    <3>3. pass # <<>> => U = 1  BY <1>5, <1>11, <3>1, Zenon
    <3>4. 0 # 1  OBVIOUS
    <3> QED  BY <1>10, <3>2, <3>3, <3>4, Zenon
  <2>4. s[1] = <<>> => C = 1  BY <1>3
  <2> QED  BY <1>9, <2>1, <2>2, <2>3, <2>4, Zenon DEF Encodable
<1>18. ConnectFlags(m) = F
  <2> DEFINE g == IF will = <<>> THEN 0 ELSE 4 + 8 * will[1].qos + 32 * will[1].retain
             lu == Len(user)
             lp == Len(pass)
  <2>1. ConnectFlags(m) = 128 * lu + 64 * lp + 2 * C + g  BY <1>9, Zenon DEF ConnectFlags
  <2>2. g = 4 * B4 + 8 * Q + 32 * R
    <3>1. CASE W = 0
      <4>1. g = 0 /\ B4 = 0 /\ Q = 0 /\ R = 0  BY <1>5, <1>7, <1>15, <3>1, Zenon
      <4> HIDE DEF g
      <4> QED  BY <4>1
    <3>2. CASE W # 0
      <4>1. g = 4 + 8 * Q + 32 * R  BY <1>13, <1>15, <3>2, Zenon
      <4>2. B4 = 1  BY <1>6, <1>7, <3>2
      <4> HIDE DEF g
      <4> QED  BY <1>6, <4>1, <4>2
    <3> QED  BY <3>1, <3>2
  <2>3. lu = U /\ lp = P  BY <1>10, <1>11
  <2> HIDE DEF g, lu, lp
  <2> QED  BY <1>6, <2>1, <2>2, <2>3
<1> DEFINE row == ConnectRow(m)
<1>19. /\ row \in Seq(Short) /\ Len(row) = n /\ row[1] = s[1]
       /\ W # 0 => row[2] = s[2] /\ row[3] = s[3]
       /\ SubSeq(row, 2 + W, 1 + W + U) = user
       /\ SubSeq(row, 2 + W + U, n) = pass
       /\ ConnectBody(m) = Cat(ConnectHead(F, k), Strings(row))
  <2> DEFINE w2 == 2 * Len(m.will)
             u2 == Len(m.username)
             n2 == 1 + w2 + u2 + Len(m.password)
  <2>1. /\ row \in Seq(Short) /\ Len(row) = n2 /\ row[1] = m.client_id
        /\ m.will # <<>> => row[2] = m.will[1].topic /\ row[3] = m.will[1].message
        /\ SubSeq(row, 2 + w2, 1 + w2 + u2) = m.username
        /\ SubSeq(row, 2 + w2 + u2, n2) = m.password
        /\ ConnectBody(m) = Cat(ConnectHead(ConnectFlags(m), m.keep_alive), Strings(row))
    BY <1>16, ConnectRowType, Zenon
  <2>2. w2 = W /\ u2 = U /\ n2 = n  BY <1>9, <1>10, <1>11, <1>15
  <2> HIDE DEF row, w2, u2, n2, W, n
  <2>3. ConnectBody(m) = Cat(ConnectHead(F, k), Strings(row))  BY <1>9, <1>18, <2>1, Zenon
  <2>4. W # 0 => row[2] = s[2] /\ row[3] = s[3]  BY <1>9, <1>13, <1>15, <2>1, Zenon
  <2>5. Len(row) = n /\ SubSeq(row, 2 + W, 1 + W + U) = user /\ SubSeq(row, 2 + W + U, n) = pass
    BY <1>9, <2>1, <2>2, Zenon
  <2> QED  BY <1>9, <2>1, <2>3, <2>4, <2>5, Zenon
<1> HIDE DEF row
<1>20. s \in Seq(Short)
  <2>1. Len(s) \in Nat /\ s = [i \in 1..Len(s) |-> s[i]] /\ \A i \in 1..Len(s) : s[i] \in ShortString
    BY <1>8
  <2>2. \A i \in 1..Len(s) : s[i] \in Short  BY <2>1, StringsAreShort
  <2> QED  BY <2>1, <2>2
<1>21. U = 1 => row[2 + W] = s[2 + W]
  <2> DEFINE a == 2 + W
  <2>0. Len(row) = n  BY <1>19, Zenon
  <2>1. a \in Nat /\ a >= 1 /\ a + U <= Len(row) + 1 /\ a + U - 1 = 1 + W + U
    BY <1>6, <1>7, <2>0
  <2> HIDE DEF a
  <2>2. LET d == SubSeq(row, a, a + U - 1) IN U = 1 => d[1] = row[a]
    BY <1>6, <1>19, <2>1, CutOptional
  <2>3. U = 1 => user[1] = row[a]  BY <1>19, <2>1, <2>2 DEF a
  <2> QED  BY <1>10, <2>3, Zenon DEF a
<1>22. P = 1 => row[2 + W + U] = s[2 + W + U]
  <2> DEFINE a == 2 + W + U
  <2>0. Len(row) = n  BY <1>19, Zenon
  <2>1. a \in Nat /\ a >= 1 /\ a + P <= Len(row) + 1 /\ a + P - 1 = n
    BY <1>6, <1>7, <2>0
  <2> HIDE DEF a
  <2>2. LET d == SubSeq(row, a, a + P - 1) IN P = 1 => d[1] = row[a]
    BY <1>6, <1>19, <2>1, CutOptional
  <2>3. P = 1 => pass[1] = row[a]  BY <1>19, <2>1, <2>2 DEF a
  <2> QED  BY <1>11, <2>3, Zenon DEF a
<1>23. \A i \in 1..n : row[i] = s[i]
  <2> TAKE i \in 1..n
  <2>1. \/ i = 1
        \/ W # 0 /\ i = 2
        \/ W # 0 /\ i = 3
        \/ U = 1 /\ i = 2 + W
        \/ P = 1 /\ i = 2 + W + U
    BY <1>6, <1>7
  <2> QED  BY <1>19, <1>21, <1>22, <2>1, Zenon
<1>24. row = s
  <2> HIDE DEF n
  <2> QED  BY <1>8, <1>19, <1>20, <1>23, SeqEqual
<1>25. MessageBody(m) = b
  <2>1. MessageBody(m) = ConnectBody(m)  BY <1>9, BodiesApart
  <2> QED  BY <1>4, <1>8, <1>19, <1>24, <2>1, Zenon
<1> QED  BY <1>9, <1>16, <1>17, <1>25, Zenon DEF Wrote, ControlPacket

----------------------------------------------------------------------------
(* The packets that are read.                                              *)

\* A digit in front.
LEMMA DigitBound ==
  ASSUME NEW M \in Nat, NEW y \in Nat, y < M, NEW d \in 0..(Half - 1)
  PROVE  Half * y + d < Half * M
<1>1. PICK e \in Nat : M = y + 1 + e
  <2>1. M - y - 1 \in Nat /\ M = y + 1 + (M - y - 1)  OBVIOUS
  <2> QED  BY <2>1
<1>2. Half * M = Half * y + Half + Half * e /\ Half * e \in Nat /\ Half * y \in Nat  BY <1>1
<1> QED  BY <1>2

\* The bytes of a length are its digits.
LEMMA Digits ==
  ASSUME NEW b \in Buffer, NEW k \in 1..4, k < Len(b)
  PROVE  /\ Value(b, k) \in 0..MaxBody
         /\ \E g \in [0..4 -> Nat] :
              Left(Value(b, k), g) /\ \A i \in 1..k : g[i - 1] % Half = b[i + 1] % Half
<1> DEFINE D == [i \in 1..4 |-> IF i <= k THEN b[i + 1] % Half ELSE 0]
           g3 == Half * 0 + D[4]
           g2 == Half * g3 + D[3]
           g1 == Half * g2 + D[2]
           g0 == Half * g1 + D[1]
           g == [i \in 0..4 |-> IF i = 0 THEN g0 ELSE IF i = 1 THEN g1 ELSE IF i = 2 THEN g2
                                ELSE IF i = 3 THEN g3 ELSE 0]
<1>1. \A i \in 1..4 : D[i] \in 0..(Half - 1)
  <2> TAKE i \in 1..4
  <2>1. CASE i <= k
    <3> DEFINE x == b[i + 1]
    <3>1. x \in Nat
      <4>1. i + 1 \in 1..Len(b)  BY <2>1 DEF Buffer
      <4> QED  BY <4>1 DEF Buffer
    <3> HIDE DEF x
    <3>2. x % Half \in 0..(Half - 1)  BY <3>1, DivMod
    <3> QED  BY <2>1, <3>2 DEF x
  <2>2. CASE ~(i <= k)  BY <2>2
  <2> QED  BY <2>1, <2>2
<1>2. \A i \in 1..k : D[i] = b[i + 1] % Half  OBVIOUS
<1>3. \A i \in (k + 1)..4 : D[i] = 0  OBVIOUS
<1>4. g[0] = g0 /\ g[1] = g1 /\ g[2] = g2 /\ g[3] = g3 /\ g[4] = 0  OBVIOUS
<1>5. \A y \in Nat : \A x \in 0..(Half - 1) : Half * y + x \in Nat  OBVIOUS
<1>0. D[1] \in 0..(Half - 1) /\ D[2] \in 0..(Half - 1) /\ D[3] \in 0..(Half - 1)
      /\ D[4] \in 0..(Half - 1)
  BY <1>1
<1>6. g3 \in Nat  BY <1>0, <1>5
<1> HIDE DEF g3
<1>7. g2 \in Nat  BY <1>0, <1>5, <1>6, Zenon
<1> HIDE DEF g2
<1>8. g1 \in Nat  BY <1>0, <1>5, <1>7, Zenon
<1> HIDE DEF g1
<1>9. g0 \in Nat  BY <1>0, <1>5, <1>8, Zenon
<1> HIDE DEF g0
<1>10. g \in [0..4 -> Nat]  BY <1>6, <1>7, <1>8, <1>9
<1>11. \A i \in 0..4 : g[i] \in Nat  BY <1>10
<1> HIDE DEF g
<1> HIDE DEF D
<1>21. g[0] = Half * g[1] + D[1] /\ g[1] = Half * g[2] + D[2] /\ g[2] = Half * g[3] + D[3]
       /\ g[3] = Half * g[4] + D[4]
  BY <1>4, Zenon DEF g0, g1, g2, g3
<1>12. \A i \in 1..4 : g[i - 1] = Half * g[i] + D[i]
  <2> TAKE i \in 1..4
  <2>2. i = 1 \/ i = 2 \/ i = 3 \/ i = 4  OBVIOUS
  <2> QED  BY <1>21, <2>2
<1>13. \A i \in 1..4 : g[i] = g[i - 1] \div Half /\ g[i - 1] % Half = D[i]
  <2> TAKE i \in 1..4
  <2> DEFINE q == g[i]
             r == D[i]
  <2>1. q \in Nat /\ r \in 0..(Half - 1) /\ g[i - 1] = Half * q + r
    <3>1. q \in Nat
      <4>1. i \in 0..4  OBVIOUS
      <4> QED  BY <1>11, <4>1, Zenon
    <3> QED  BY <1>1, <1>12, <3>1, Zenon
  <2> HIDE DEF q, r
  <2>2. (Half * q + r) \div Half = q /\ (Half * q + r) % Half = r  BY <2>1, DivMult
  <2> QED  BY <2>1, <2>2 DEF q, r
<1>14. g[k] = 0
  <2>1. Half * 0 + 0 = 0  OBVIOUS
  <2>2. k = 4 \/ k = 3 \/ k = 2 \/ k = 1  OBVIOUS
  <2>3. CASE k = 4  BY <1>4, <2>3
  <2>4. CASE k = 3
    <3>1. D[4] = 0  BY <1>3, <2>4
    <3> QED  BY <1>4, <2>1, <2>4, <3>1 DEF g3
  <2>5. CASE k = 2
    <3>1. D[4] = 0 /\ D[3] = 0  BY <1>3, <2>5
    <3> QED  BY <1>4, <2>1, <2>5, <3>1 DEF g3, g2
  <2>6. CASE k = 1
    <3>1. D[4] = 0 /\ D[3] = 0 /\ D[2] = 0  BY <1>3, <2>6
    <3> QED  BY <1>4, <2>1, <2>6, <3>1 DEF g3, g2, g1
  <2> QED  BY <2>2, <2>3, <2>4, <2>5, <2>6
<1> DEFINE S == {m \in Nat : m <= k => Value(b, m) + g[m] * Multiplier(m) = g[0]}
<1>15. 0 \in S
  <2>1. Value(b, 0) = 0  BY ValueSteps
  <2>2. Multiplier(0) = 1 /\ g[0] \in Nat  BY <1>11, MultiplierFacts
  <2> QED  BY <2>1, <2>2
<1>16. ASSUME NEW m \in Nat, m \in S PROVE m + 1 \in S
  <2> SUFFICES ASSUME m + 1 <= k
               PROVE  Value(b, m + 1) + g[m + 1] * Multiplier(m + 1) = g[0]
    OBVIOUS
  <2>1. m + 1 \in 1..k /\ m + 1 \in 1..4 /\ m \in 0..4 /\ (m + 1) - 1 = m
        /\ m + 1 < Len(b) /\ m < Len(b)
    <3>1. Len(b) \in Nat  BY DEF Buffer
    <3>2. m <= 3  OBVIOUS
    <3> QED  BY <3>1, <3>2
  <2> DEFINE M == Multiplier(m)
             y == g[m + 1]
             x == D[m + 1]
  <2>2. Value(b, m) + g[m] * M = g[0]  BY <1>16, <2>1
  <2>3. Value(b, m + 1) = Value(b, m) + x * M
    <3>1. Value(b, m + 1) = Value(b, m) + (b[(m + 1) + 1] % Half) * Multiplier((m + 1) - 1)
      BY <2>1, ValueSteps, Zenon
    <3> QED  BY <1>2, <2>1, <3>1
  <2>4. Multiplier(m + 1) = Half * M /\ M \in Nat  BY <2>1, MultiplierFacts
  <2>5. g[m] = Half * y + x /\ x \in Nat /\ y \in Nat
    <3>1. g[(m + 1) - 1] = Half * g[m + 1] + D[m + 1] /\ D[m + 1] \in 0..(Half - 1)
      BY <1>1, <1>12, <2>1, Zenon
    <3>2. g[m + 1] \in Nat  BY <1>11, <2>1
    <3> QED  BY <2>1, <3>1, <3>2
  <2>6. Value(b, m) \in Nat  BY <2>1, ValueType
  <2> DEFINE goal == Value(b, m + 1) + g[m + 1] * Multiplier(m + 1)
  <2>7. goal = Value(b, m + 1) + y * Multiplier(m + 1)  OBVIOUS
  <2> HIDE DEF M, x, y, goal
  <2>8. g[m] * M = y * (Half * M) + x * M  BY <2>4, <2>5
  <2>9. y * (Half * M) \in Nat /\ x * M \in Nat  BY <2>4, <2>5
  <2>10. Value(b, m) + (y * (Half * M) + x * M) = g[0]  BY <2>2, <2>8
  <2>11. goal = (Value(b, m) + x * M) + y * (Half * M)
    BY <2>3, <2>4, <2>7
  <2>12. goal = g[0]  BY <2>6, <2>9, <2>10, <2>11
  <2> QED  BY <2>12 DEF goal
<1>17. Value(b, k) = g[0]
  <2>1. k \in S
    <3> HIDE DEF S
    <3>1. Nat \subseteq S  BY <1>15, <1>16, SetInduction
    <3> QED  BY <3>1
  <2>2. Value(b, k) + g[k] * Multiplier(k) = g[0]  BY <2>1
  <2>3. Multiplier(k) \in Nat /\ Value(b, k) \in Nat
    <3>1. k \in 0..4  OBVIOUS
    <3> QED  BY <3>1, MultiplierFacts, ValueType
  <2> QED  BY <1>14, <2>2, <2>3
<1>18. Left(Value(b, k), g)  BY <1>13, <1>17 DEF Left
<1>19. \A i \in 1..k : g[i - 1] % Half = b[i + 1] % Half
  <2> TAKE i \in 1..k
  <2>1. i \in 1..4  OBVIOUS
  <2> QED  BY <1>2, <1>13, <2>1
<1>20. Value(b, k) \in 0..MaxBody
  <2>1. Multiplier(4) = Half * Multiplier(3) /\ Multiplier(3) = Half * Multiplier(2)
        /\ Multiplier(2) = Half * Multiplier(1) /\ Multiplier(1) = Half * Multiplier(0)
        /\ Multiplier(0) = 1 /\ Multiplier(0) \in Nat /\ Multiplier(1) \in Nat
        /\ Multiplier(2) \in Nat /\ Multiplier(3) \in Nat /\ Multiplier(4) \in Nat
    <3>1. \A n \in 1..4 : Multiplier(n) = Half * Multiplier(n - 1)  BY MultiplierFacts
    <3> QED  BY <3>1, MultiplierFacts
  <2>2. g[0] \in Nat /\ g[1] \in Nat /\ g[2] \in Nat /\ g[3] \in Nat /\ g[4] \in Nat  BY <1>11
  <2>3. g[4] < Multiplier(0)  BY <1>4, <2>1
  <2>9. \A M \in Nat : \A y \in Nat : \A x \in 0..(Half - 1) :
          y < M => Half * y + x < Half * M
    BY DigitBound, Zenon
  <2>4. g[3] < Multiplier(1)  BY <1>0, <1>21, <2>1, <2>2, <2>3, <2>9, Zenon
  <2>5. g[2] < Multiplier(2)  BY <1>0, <1>21, <2>1, <2>2, <2>4, <2>9, Zenon
  <2>6. g[1] < Multiplier(3)  BY <1>0, <1>21, <2>1, <2>2, <2>5, <2>9, Zenon
  <2>7. g[0] < Multiplier(4)  BY <1>0, <1>21, <2>1, <2>2, <2>6, <2>9, Zenon
  <2>8. g[0] \in Nat  BY <1>11
  <2>10. Multiplier(4) \in Nat /\ Value(b, k) \in Nat /\ Value(b, k) < Multiplier(4)
    BY <1>17, <2>1, <2>7, <2>8, Zenon
  <2> QED  BY <2>10 DEF MaxBody
<1> QED  BY <1>10, <1>18, <1>19, <1>20, Zenon

\* The bytes of a field that decode_remaining_length takes.
LEMMA DecodedAt ==
  ASSUME NEW b \in Buffer, DecodedField(b) \in 1..4
  PROVE  /\ DecodedField(b) < Len(b) /\ b[DecodedField(b) + 1] < Half
         /\ \A i \in 2..DecodedField(b) : b[i] >= Half
<1>1. \A i \in 1..Len(b) : b[i] \in Nat /\ (b[i] < Half \/ b[i] >= Half)  BY DEF Buffer
<1>2. Len(b) \in Nat  BY DEF Buffer
<1> QED  BY <1>1, <1>2, DecodedFieldDef DEF LastByte

\* A length that is as short as it can be is the one that is written.
LEMMA LengthWritten ==
  ASSUME Half >= 128, NEW b \in Bytes, DecodedField(b) \in 1..4,
         DecodedField(b) = Len(RemainingLength(Value(b, DecodedField(b))))
  PROVE  LET k == DecodedField(b)
             r == RemainingLength(Value(b, k)) IN
         r \in Buffer /\ k < Len(b) /\ \A i \in 1..k : r[i] = b[i + 1]
<1> DEFINE k == DecodedField(b)
           v == Value(b, k)
           r == RemainingLength(v)
<1>1. b \in Buffer /\ b \in Seq(Byte)  BY BytesAreBuffer DEF Bytes
<1>2. \A i \in 1..Len(b) : b[i] \in Nat /\ b[i] < 2 * Half
  <2> TAKE i \in 1..Len(b)
  <2>1. b[i] \in Byte  BY <1>1
  <2>2. \A x \in Byte : x \in Nat /\ x < 2 * Half  BY DEF Byte
  <2> QED  BY <2>1, <2>2, Zenon
<1>3. Len(b) \in Nat  BY <1>1
<1>4. k < Len(b) /\ b[k + 1] < Half /\ \A i \in 2..k : b[i] >= Half
  BY <1>1, DecodedAt
<1>5. k \in 1..4 /\ k = Len(r)  OBVIOUS
<1> HIDE DEF k, v, r
<1>6. v \in 0..MaxBody  BY <1>1, <1>4, <1>5, Digits DEF v
<1>7. PICK g \in [0..4 -> Nat] : Left(v, g) /\ \A i \in 1..k : g[i - 1] % Half = b[i + 1] % Half
  BY <1>1, <1>4, <1>5, Digits DEF v
<1>8. PICK f \in [0..4 -> Nat], n \in 1..4 :
         /\ Left(v, f) /\ LastOf(f, n)
         /\ r = [i \in 1..n |-> (f[i - 1] % Half) + IF i < n THEN Half ELSE 0]
  BY <1>6, RemainingLengthDef DEF r
<1>9. r \in Buffer  BY <1>6, LengthRead DEF r
<1>10. n = k
  <2>1. Len(r) = n  BY <1>8
  <2> QED  BY <1>5, <2>1
<1>11. \A i \in 0..4 : f[i] = g[i]
  <2>1. f[0] = v /\ g[0] = v /\ \A i \in 1..4 : f[i] = f[i - 1] \div Half /\ g[i] = g[i - 1] \div Half
    BY <1>7, <1>8 DEF Left
  <2>2. f[0] = g[0]  BY <2>1
  <2>3. \A i \in 1..4 : f[i - 1] = g[i - 1] => f[i] = g[i]  BY <2>1
  <2>4. f[1] = g[1]
    <3>1. 1 \in 1..4 /\ 1 - 1 = 0  OBVIOUS
    <3> QED  BY <2>2, <2>3, <3>1
  <2>5. f[2] = g[2]
    <3>1. 2 \in 1..4 /\ 2 - 1 = 1  OBVIOUS
    <3> QED  BY <2>3, <2>4, <3>1
  <2>6. f[3] = g[3]
    <3>1. 3 \in 1..4 /\ 3 - 1 = 2  OBVIOUS
    <3> QED  BY <2>3, <2>5, <3>1
  <2>7. f[4] = g[4]
    <3>1. 4 \in 1..4 /\ 4 - 1 = 3  OBVIOUS
    <3> QED  BY <2>3, <2>6, <3>1
  <2> TAKE i \in 0..4
  <2>8. i = 0 \/ i = 1 \/ i = 2 \/ i = 3 \/ i = 4  OBVIOUS
  <2> QED  BY <2>2, <2>4, <2>5, <2>6, <2>7, <2>8
<1>12. \A i \in 1..k : r[i] = (b[i + 1] % Half) + IF i < k THEN Half ELSE 0
  <2> TAKE i \in 1..k
  <2>1. i - 1 \in 0..4 /\ i \in 1..n  BY <1>10
  <2>2. f[i - 1] = g[i - 1]  BY <1>11, <2>1
  <2>3. r[i] = (f[i - 1] % Half) + IF i < n THEN Half ELSE 0  BY <1>8, <2>1
  <2>4. g[i - 1] % Half = b[i + 1] % Half  BY <1>7
  <2> QED  BY <1>10, <2>2, <2>3, <2>4
<1>13. \A i \in 1..k : r[i] = b[i + 1]
  <2> TAKE i \in 1..k
  <2> DEFINE x == b[i + 1]
             q == IF i < k THEN 1 ELSE 0
  <2>1. i + 1 \in 1..Len(b)  BY <1>3, <1>4, <1>5
  <2>2. x \in Nat /\ x < 2 * Half  BY <1>2, <2>1
  <2>3. x >= Half <=> i < k
    <3>1. CASE i < k
      <4>1. i + 1 \in 2..k  BY <1>5, <3>1
      <4> QED  BY <1>4, <3>1, <4>1
    <3>2. CASE ~(i < k)
      <4>1. i = k  BY <1>5, <3>2
      <4> QED  BY <1>4, <2>2, <3>2, <4>1
    <3> QED  BY <3>1, <3>2
  <2>4. r[i] = (x % Half) + IF i < k THEN Half ELSE 0  BY <1>12
  <2> DEFINE d == x - Half * q
  <2>5. d \in 0..(Half - 1) /\ x = Half * q + d /\ q \in Nat
    <3>1. CASE i < k
      <4>1. q = 1  BY <3>1
      <4> HIDE DEF x, q
      <4> QED  BY <2>2, <2>3, <3>1, <4>1
    <3>2. CASE ~(i < k)
      <4>1. q = 0  BY <3>2
      <4> HIDE DEF x, q
      <4> QED  BY <2>2, <2>3, <3>2, <4>1
    <3> QED  BY <3>1, <3>2
  <2>6. IF i < k THEN q = 1 ELSE q = 0  OBVIOUS
  <2> HIDE DEF d, q, x
  <2>7. (Half * q + d) % Half = d  BY <2>5, DivMult
  <2>8. x % Half = d  BY <2>5, <2>7
  <2>9. r[i] = x
    <3>1. CASE i < k  BY <2>4, <2>5, <2>6, <2>8, <3>1
    <3>2. CASE ~(i < k)  BY <2>4, <2>5, <2>6, <2>8, <3>2
    <3> QED  BY <3>1, <3>2
  <2> QED  BY <2>9 DEF x
<1> QED  BY <1>4, <1>9, <1>13 DEF k, v, r

\* Whatever the type: the message is written as the body and the flags.
LEMMA BodyWritten ==
  ASSUME Half >= 128, NEW type \in 1..14, NEW flags \in 0..15, FlagsFit(type, flags),
         NEW body \in Bytes, NEW m \in ParseMessage(type, flags, body)
  PROVE  Wrote(m, type, body) /\ MessageFlags(m) = flags
<1>1. type \in {CONNECT, CONNACK, PUBLISH, SUBSCRIBE, SUBACK, UNSUBSCRIBE} \cup Acks \cup Empty
  BY DEF CONNECT, CONNACK, PUBLISH, SUBSCRIBE, SUBACK, UNSUBSCRIBE, Acks, Empty
<1>2. CASE type = PUBLISH
  <2>1. m \in ParsePublish(flags, body)  BY <1>2, ParsersApart
  <2> QED  BY <1>2, <2>1, PublishWritten
<1>3. CASE type # PUBLISH
  <2>1. Wrote(m, type, body)
    <3>1. CASE type = CONNECT
      <4>1. m \in ParseConnect(body)  BY <3>1, ParsersApart
      <4> QED  BY <3>1, <4>1, ConnectWritten
    <3>2. CASE type = CONNACK
      <4>1. m \in ParseConnack(body)  BY <3>2, ParsersApart
      <4> QED  BY <3>2, <4>1, ConnackWritten
    <3>3. CASE type = SUBSCRIBE
      <4>1. m \in ParseSubscribe(body)  BY <3>3, ParsersApart
      <4> QED  BY <3>3, <4>1, SubscribeWritten
    <3>4. CASE type = SUBACK
      <4>1. m \in ParseSuback(body)  BY <3>4, ParsersApart
      <4> QED  BY <3>4, <4>1, SubackWritten
    <3>5. CASE type = UNSUBSCRIBE
      <4>1. m \in ParseUnsubscribe(body)  BY <3>5, ParsersApart
      <4> QED  BY <3>5, <4>1, UnsubscribeWritten
    <3>6. CASE type \in Acks
      <4>1. m \in ParseAck(type, body)  BY <3>6, ParsersApart
      <4> QED  BY <3>6, <4>1, AckWritten
    <3>7. CASE type \in Empty
      <4>1. m \in IF body = <<>> THEN {[type |-> type]} ELSE {}  BY <3>7, ParsersApart
      <4>2. body = <<>> /\ m = [type |-> type]  BY <4>1, Zenon
      <4> QED  BY <3>7, <4>2, EmptyWritten, Zenon
    <3> QED  BY <1>1, <1>3, <3>1, <3>2, <3>3, <3>4, <3>5, <3>6, <3>7, Zenon
  <2>2. m.type = type  BY <2>1, Zenon DEF Wrote
  <2>3. MessageFlags(m) = flags  BY <1>3, <2>2, Zenon DEF MessageFlags, FlagsFit
  <2> QED  BY <2>1, <2>3
<1> QED  BY <1>2, <1>3

\* A packet that is accepted begins with what is written for its message.
LEMMA PacketWritten ==
  ASSUME Half >= 128, NEW b \in Bytes, NEW m \in Parsed(b)
  PROVE  /\ Encodable(m)
         /\ DecodedField(b) = Len(RemainingLength(Value(b, DecodedField(b)))) =>
              IsPrefix(Encoded(m), b)
<1> DEFINE k == DecodedField(b)
           v == Value(b, k)
           body == SubSeq(b, k + 2, k + 1 + v)
           type == Type(b)
           flags == Flags(b)
<1>1. b \in Buffer /\ b \in Seq(Byte) /\ Len(b) \in Nat  BY BytesAreBuffer DEF Bytes
<1>2. /\ Len(b) >= 2 /\ type \in 1..14 /\ FlagsFit(type, flags) /\ k # TooMany
      /\ Len(b) - (k + 1) >= v /\ m \in ParseMessage(type, flags, body)
  <2>1. PICK c \in Body(b) : m \in ParseMessage(type, flags, c)  BY Zenon DEF Parsed
  <2>2. Body(b) = IF /\ Len(b) >= 2 /\ type \in 1..14 /\ FlagsFit(type, flags)
                     /\ k # TooMany /\ Len(b) - (k + 1) >= v
                  THEN {body} ELSE {}
    BY Zenon DEF Body
  <2> QED  BY <2>1, <2>2, Zenon
<1>3. flags \in 0..15 /\ b[1] = 16 * type + flags /\ type \in Nat
  <2> DEFINE x == b[1]
  <2>1. x \in Nat
    <3>1. 1 \in 1..Len(b)  BY <1>1, <1>2
    <3> QED  BY <1>1, <3>1 DEF Buffer
  <2> HIDE DEF x
  <2>2. x \div 16 \in Nat /\ x % 16 \in 0..(16 - 1) /\ x = 16 * (x \div 16) + (x % 16)
    BY <2>1, DivMod
  <2> QED  BY <2>2 DEF x, Type, Flags
<1>4. k \in 1..4 /\ k < Len(b)
  BY <1>1, <1>2, DecodedFieldDef DEF LastByte
<1>5. v \in Nat
  <2>1. k \in 0..4  BY <1>4
  <2> QED  BY <1>1, <1>4, <2>1, ValueType
<1> HIDE DEF k, v, type, flags
<1> DEFINE n == 1 + k + v
           head == SubSeq(b, 1, n)
<1>6. n \in 0..Len(b) /\ k + 1 \in 0..n /\ n - (k + 1) = v /\ (k + 1) + 1 = k + 2 /\ k + 1 + v = n
  BY <1>1, <1>2, <1>4, <1>5
<1>7. head \in Seq(Byte) /\ Len(head) = n /\ \A i \in 1..n : head[i] = b[i]
  BY <1>1, <1>6, CutAt, Zenon
<1>8. body \in Seq(Byte) /\ Len(body) = v /\ \A i \in 1..v : body[i] = b[(k + 1) + i]
  <2> DEFINE e == SubSeq(head, (k + 1) + 1, Len(head))
  <2>1. k + 1 \in 0..Len(head)  BY <1>6, <1>7
  <2>2. e \in Seq(Byte) /\ Len(e) = Len(head) - (k + 1)
        /\ \A i \in 1..(Len(head) - (k + 1)) : e[i] = head[(k + 1) + i]
    BY <1>7, <2>1, CutAt, Zenon
  <2>3. Len(e) = v /\ \A i \in 1..v : e[i] = head[(k + 1) + i]  BY <1>6, <1>7, <2>2
  <2>4. body \in Seq(Byte) /\ Len(body) = v /\ \A i \in 1..v : body[i] = b[(k + 1) + i]
    <3> DEFINE lo == k + 2
               hi == k + 1 + v
    <3>1. lo \in Nat /\ hi \in Nat /\ lo >= 1 /\ hi <= Len(b) /\ hi - lo + 1 = v
          /\ \A i \in 1..v : lo + i - 1 = (k + 1) + i
      BY <1>4, <1>5, <1>6
    <3>2. body = [i \in 1..v |-> b[(k + 1) + i]]
      <4>1. \A i \in 1..v : (k + 1) + i \in 1..Len(b)  BY <1>4, <1>5, <1>6
      <4> QED  BY <1>1, <1>4, <1>5, <1>6, <4>1
    <3>3. \A i \in 1..v : b[(k + 1) + i] \in Byte
      <4>1. \A i \in 1..v : (k + 1) + i \in 1..Len(b)  BY <1>4, <1>5, <1>6
      <4> QED  BY <1>1, <4>1
    <3> DEFINE c == [i \in 1..v |-> b[(k + 1) + i]]
    <3>4. c \in Seq(Byte) /\ Len(c) = v /\ \A i \in 1..v : c[i] = b[(k + 1) + i]
      BY <1>5, <3>3
    <3> QED  BY <3>2, <3>4, Zenon
  <2> QED  BY <2>4
<1> HIDE DEF head, body
<1>9. body \in Bytes /\ body \in Seq(Nat)
  <2>1. body \in Bytes  BY <1>8 DEF Bytes
  <2> QED  BY <2>1, BytesAreBuffer DEF Buffer
<1>10. Wrote(m, type, body) /\ MessageFlags(m) = flags  BY <1>2, <1>3, <1>9, BodyWritten
<1>11. Encodable(m) /\ m.type = type /\ MessageBody(m) = body  BY <1>10 DEF Wrote
<1>12. ASSUME k = Len(RemainingLength(v)) PROVE IsPrefix(Encoded(m), b)
  <2> DEFINE r == RemainingLength(v)
             e == Encoded(m)
             first == <<16 * type + flags>>
             rb == Cat(r, body)
  <2>1. r \in Buffer /\ \A i \in 1..k : r[i] = b[i + 1]  BY <1>4, <1>12, LengthWritten DEF k, v
  <2>2. Len(r) = k  BY <1>12
  <2>3. e = Cat(first, rb)
    <3>1. e = Packet(type, flags, body)  BY <1>10, <1>11, Zenon DEF Encoded
    <3>2. e = <<16 * type + flags>> \o r \o body  BY <1>8, <3>1 DEF Packet
    <3>3. first \in Seq(Nat)
      <4>1. 16 * type + flags \in Nat  BY <1>3
      <4> QED  BY <4>1
    <3>4. Cat(Cat(first, r), body) = Cat(first, Cat(r, body))
      <4>1. r \in Seq(Nat)  BY <2>1 DEF Buffer
      <4> HIDE DEF first, r
      <4> QED  BY <1>9, <3>3, <4>1, CatAssociative
    <3>5. e = Cat(Cat(first, r), body)  BY <3>2, Zenon DEF Cat
    <3> QED  BY <3>4, <3>5, Zenon
  <2>4. first \in Seq(Nat) /\ Len(first) = 1 /\ first[1] = b[1]
    <3>1. 16 * type + flags \in Nat  BY <1>3
    <3> QED  BY <1>3, <3>1
  <2> HIDE DEF r, e, first
  <2>5. rb \in Seq(Nat) /\ Joined(rb, r, body)  BY <1>9, <2>1, CatAt DEF Buffer
  <2> HIDE DEF rb
  <2>6. e \in Seq(Nat) /\ Joined(e, first, rb)  BY <2>3, <2>4, <2>5, CatAt
  <2>7. Len(e) = n
    <3>1. Len(e) = 1 + Len(rb) /\ Len(rb) = k + v  BY <1>8, <2>2, <2>4, <2>5, <2>6 DEF Joined
    <3> QED  BY <1>4, <1>5, <3>1
  <2>8. \A i \in 1..n : e[i] = b[i]
    <3> TAKE i \in 1..n
    <3>1. CASE i = 1  BY <2>4, <2>6, <3>1 DEF Joined
    <3>2. CASE i \in 2..(k + 1)
      <4>1. i - 1 \in 1..k /\ (i - 1) + 1 = i /\ 1 + (i - 1) = i /\ i - 1 \in 1..Len(rb)
        BY <1>4, <1>5, <1>8, <2>2, <2>5, <3>2 DEF Joined
      <4>2. e[1 + (i - 1)] = rb[i - 1]  BY <2>4, <2>6, <4>1 DEF Joined
      <4>3. rb[i - 1] = r[i - 1]  BY <2>2, <2>5, <4>1 DEF Joined
      <4>4. r[i - 1] = b[(i - 1) + 1]  BY <2>1, <4>1
      <4> QED  BY <4>1, <4>2, <4>3, <4>4
    <3>3. CASE i \in (k + 2)..n
      <4> DEFINE j == i - (k + 1)
      <4>1. j \in 1..v /\ 1 + (k + j) = i /\ (k + 1) + j = i /\ k + j \in 1..Len(rb)
        BY <1>4, <1>5, <1>8, <2>2, <2>5, <3>3 DEF Joined
      <4>2. e[1 + (k + j)] = rb[k + j]  BY <2>4, <2>6, <4>1 DEF Joined
      <4>3. rb[k + j] = body[j]  BY <1>8, <2>2, <2>5, <4>1 DEF Joined
      <4>4. body[j] = b[(k + 1) + j]  BY <1>8, <4>1
      <4> QED  BY <4>1, <4>2, <4>3, <4>4
    <3> QED  BY <1>4, <1>5, <3>1, <3>2, <3>3
  <2>9. head \in Seq(Nat)
    <3>1. head \in Bytes  BY <1>7 DEF Bytes
    <3> QED  BY <3>1, BytesAreBuffer DEF Buffer
  <2>10. \A i \in 1..n : e[i] = head[i]  BY <1>7, <2>8, Zenon
  <2>11. e = head  BY <1>7, <2>6, <2>7, <2>9, <2>10, SeqEqual
  <2>12. Len(e) <= Len(b) /\ e = SubSeq(b, 1, Len(e))
    BY <1>1, <1>6, <2>7, <2>11 DEF head
  <2>13. SubSeq(e, 1, Len(e)) = e  BY <2>6
  <2> HIDE DEF e
  <2>14. IsPrefix(e, b)  BY <2>12, <2>13, Zenon DEF IsPrefix
  <2> QED  BY <2>14 DEF e
<1> QED  BY <1>11, <1>12, Zenon DEF k, v

----------------------------------------------------------------------------
(* The stream.                                                             *)

TypeInv ==
  /\ net \in Buffer /\ rx \in Buffer
  /\ sent \in Seq(PublishMessage) /\ got \in Seq(PublishMessage)
  /\ refused \in BOOLEAN /\ failed \in BOOLEAN

\* A packet the client accepts, and one it refuses.
Good(b) == b \in Buffer /\ Complete(b) /\ FrameSize(b) = Len(b) /\ ~Unacceptable(b)
Bad(b) == b \in Buffer /\ Refused(b)

\* The stream consists of n packets: rest[i] is what is behind the i-th one.
InPackets(s, n, packet, rest) ==
  /\ n \in Nat /\ packet \in [1..n -> Buffer] /\ rest \in [0..n -> Buffer]
  /\ rest[0] = s /\ rest[n] = <<>>
  /\ \A i \in 1..n : rest[i - 1] = Cat(packet[i], rest[i])

\* What the packet b does when i messages came before it: then there are j.
Does(b, i, j, ss) ==
  \/ Type(b) = PUBLISH /\ j = i + 1 /\ j <= Len(ss) /\ Parsed(b) = {ss[j]}
  \/ Type(b) # PUBLISH /\ j = i

\* k[i] messages are in the client's hands when the i-th packet is processed; only the
\* last packet is refused.
Counts(n, packet, k, i0, ss, bad) ==
  /\ k \in [0..n -> Nat] /\ k[0] = i0
  /\ \A i \in 1..n :
       \/ Good(packet[i]) /\ Does(packet[i], k[i - 1], k[i], ss)
       \/ i = n /\ bad /\ Bad(packet[i]) /\ k[i] = k[i - 1]
  /\ k[n] <= Len(ss) /\ \A i \in 1..Len(ss) : i <= k[n] <=> ss[i].qos = 0
  /\ bad => n > 0 /\ Bad(packet[n])
  /\ ~bad => k[n] = Len(ss)

\* The messages handed over so far are the first ones sent, and what is on its way says
\* the rest; after a failure nothing is on its way.
StreamInv ==
  /\ TypeInv
  /\ Len(got) <= Len(sent) /\ \A i \in 1..Len(got) : got[i] = sent[i]
  /\ failed =>
       /\ refused /\ rx = <<>> /\ net = <<>>
       /\ \A i \in 1..Len(sent) : i <= Len(got) <=> sent[i].qos = 0
  /\ ~failed =>
       \E n, packet, rest, k :
         InPackets(Cat(rx, net), n, packet, rest) /\ Counts(n, packet, k, Len(got), sent, refused)

----------------------------------------------------------------------------
(* The front of the stream.                                                *)

\* A packet in front is found as soon as mqtt_frame_info sees an end, and this is then
\* its own end.
LEMMA SameFront ==
  ASSUME NEW p \in Buffer, NEW rest \in Buffer, NEW b \in Buffer, NEW t \in Buffer,
         Cat(p, rest) = Cat(b, t), Complete(p)
  PROVE  /\ ~FrameError(b)
         /\ Complete(b) => /\ FrameSize(b) = FrameSize(p)
                           /\ FirstPacket(b) = FirstPacket(p)
         /\ t = <<>> => Complete(b)
<1> DEFINE s == Cat(p, rest)
           k == FrameField(p)
<1>1. s \in Buffer /\ Joined(s, p, rest) /\ Joined(s, b, t)
  <2>1. Joined(Cat(p, rest), p, rest) /\ Joined(Cat(b, t), b, t) /\ Cat(p, rest) \in Buffer
    BY CatAt DEF Buffer
  <2> QED  BY <2>1, Zenon
<1> HIDE DEF s
<1>2. /\ Len(p) \in Nat /\ Len(b) \in Nat /\ Len(s) = Len(p) + Len(rest) /\ Len(rest) \in Nat
      /\ Len(s) = Len(b) + Len(t) /\ Len(t) \in Nat
      /\ \A i \in 1..Len(p) : s[i] = p[i]
      /\ \A i \in 1..Len(b) : s[i] = b[i]
  BY <1>1 DEF Joined
<1>3. \A i \in Nat : i >= 1 /\ i <= Len(p) /\ i <= Len(b) => p[i] = b[i]  BY <1>2
<1>4. k \in 1..4 /\ Len(p) >= FrameSize(p) /\ k < Len(p)  BY AtField DEF Complete
<1>5. FrameSize(p) = 1 + k + Value(p, k) /\ Value(p, k) \in Nat
  BY <1>4, ValueType DEF FrameSize
<1>6. CASE k < Len(b)
  <2>1. \A i \in 2..(k + 1) : p[i] = b[i]  BY <1>2, <1>3, <1>4, <1>6
  <2>2. FrameField(b) = k  BY <1>4, <1>6, <2>1, FieldAgrees
  <2>3. Value(b, k) = Value(p, k)
    <3>1. k \in 0..4  BY <1>4
    <3> HIDE DEF k
    <3> QED  BY <1>4, <1>6, <2>1, <3>1, ValueAgrees
  <2>4. FrameSize(b) = FrameSize(p)  BY <2>2, <2>3 DEF FrameSize
  <2>5. ~FrameError(b)  BY <1>4, <2>2 DEF FrameError
  <2>6. ASSUME Complete(b) PROVE FirstPacket(b) = FirstPacket(p)
    <3> DEFINE n == FrameSize(p)
               x == SubSeq(b, 1, n)
               y == SubSeq(p, 1, n)
    <3>1. n \in 0..Len(b) /\ n \in 0..Len(p)
      <4>1. Len(b) >= n  BY <2>4, <2>6 DEF Complete
      <4> HIDE DEF k
      <4> QED  BY <1>2, <1>4, <1>5, <4>1
    <3> HIDE DEF n
    <3>2. x \in Buffer /\ Len(x) = n /\ \A i \in 1..n : x[i] = b[i]
      BY <3>1, CutAt, Zenon DEF Buffer
    <3>3. y \in Buffer /\ Len(y) = n /\ \A i \in 1..n : y[i] = p[i]
      BY <3>1, CutAt, Zenon DEF Buffer
    <3> HIDE DEF x, y
    <3>4. ASSUME NEW i \in 1..n PROVE x[i] = y[i]
      <4>1. i \in Nat /\ i >= 1 /\ i <= Len(p) /\ i <= Len(b)  BY <1>2, <3>1
      <4>2. p[i] = b[i]  BY <1>3, <4>1
      <4> QED  BY <3>2, <3>3, <4>2
    <3>5. x = y  BY <3>2, <3>3, <3>4, SeqEqual DEF Buffer
    <3> QED  BY <2>4, <3>5 DEF x, y, n, FirstPacket
  <2>7. ASSUME t = <<>> PROVE Complete(b)
    <3>1. Len(b) >= Len(p)
      <4>1. Len(t) = 0  BY <2>7
      <4> QED  BY <1>2, <4>1
    <3> HIDE DEF k
    <3>2. Len(b) >= FrameSize(b)  BY <1>2, <1>4, <1>5, <2>4, <3>1
    <3> QED  BY <1>4, <2>2, <3>2 DEF Complete
  <2> QED  BY <2>4, <2>5, <2>6, <2>7
<1>7. CASE ~(k < Len(b))
  <2>1. FrameField(b) \notin 1..4
    <3> SUFFICES ASSUME FrameField(b) \in 1..4 PROVE FALSE  OBVIOUS
    <3> DEFINE j == FrameField(b)
    <3>1. j < Len(b)  BY AtField
    <3> HIDE DEF j, k
    <3>2. j < k /\ \A i \in 2..(j + 1) : b[i] = p[i]
      <4>1. j \in 1..4  BY DEF j
      <4> QED  BY <1>2, <1>3, <1>4, <1>7, <3>1, <4>1
    <3>3. j < Len(p)  BY <1>2, <1>4, <3>2 DEF j
    <3>4. FrameField(p) = j  BY <3>2, <3>3, FieldAgrees DEF j
    <3> QED  BY <3>2, <3>4 DEF j, k
  <2>2. ~FrameError(b)
    <3> SUFFICES ASSUME FrameField(b) = TooMany PROVE FALSE  BY DEF FrameError
    <3>1. Len(b) >= 5  BY <1>2, FrameFieldDef DEF LastByte
    <3> HIDE DEF k
    <3> QED  BY <1>2, <1>4, <1>7, <3>1
  <2>3. ~Complete(b)  BY <2>1 DEF Complete
  <2>4. t # <<>>
    <3> SUFFICES ASSUME Len(t) = 0 PROVE FALSE  OBVIOUS
    <3> HIDE DEF k
    <3> QED  BY <1>2, <1>4, <1>7
  <2> QED  BY <2>2, <2>3, <2>4
<1> QED  BY <1>6, <1>7

\* An error stays one, whatever comes behind it.
LEMMA SameError ==
  ASSUME NEW p \in Buffer, NEW rest \in Buffer, NEW b \in Buffer, NEW t \in Buffer,
         Cat(p, rest) = Cat(b, t), FrameError(p)
  PROVE  ~Complete(b) /\ (t = <<>> => FrameError(b))
<1> DEFINE s == Cat(p, rest)
<1>1. s \in Buffer /\ Joined(s, p, rest) /\ Joined(s, b, t)
  <2>1. Joined(Cat(p, rest), p, rest) /\ Joined(Cat(b, t), b, t) /\ Cat(p, rest) \in Buffer
    BY CatAt DEF Buffer
  <2> QED  BY <2>1, Zenon
<1> HIDE DEF s
<1>2. /\ Len(p) \in Nat /\ Len(b) \in Nat /\ Len(s) = Len(p) + Len(rest) /\ Len(rest) \in Nat
      /\ Len(s) = Len(b) + Len(t) /\ Len(t) \in Nat
      /\ \A i \in 1..Len(p) : s[i] = p[i]
      /\ \A i \in 1..Len(b) : s[i] = b[i]
  BY <1>1 DEF Joined
<1>3. \A i \in 1..5 : i <= Len(b) => b[i] = p[i]
  <2>1. Len(p) >= 5  BY <1>2, FrameFieldDef DEF LastByte, FrameError
  <2> QED  BY <1>2, <2>1
<1>4. Len(p) >= 5 /\ \A i \in 2..5 : ~(p[i] < Half)
  <2>1. \A i \in 2..5 : i = 2 \/ i = 3 \/ i = 4 \/ i = 5  OBVIOUS
  <2> QED  BY <1>2, <2>1, FrameFieldDef DEF LastByte, FrameError
<1>5. FrameField(b) \notin 1..4
  <2>1. /\ Len(b) >= 2 => ~(b[2] < Half)
        /\ Len(b) >= 3 => ~(b[3] < Half)
        /\ Len(b) >= 4 => ~(b[4] < Half)
        /\ Len(b) >= 5 => ~(b[5] < Half)
    BY <1>2, <1>3, <1>4
  <2>2. FrameField(b) = LastByte(b, 0)  BY FrameFieldDef
  <2> QED  BY <1>2, <2>1, <2>2 DEF LastByte
<1>6. ASSUME t = <<>> PROVE FrameError(b)
  <2>1. Len(b) >= 5
    <3>1. Len(t) = 0  BY <1>6
    <3> QED  BY <1>2, <1>4, <3>1
  <2> QED  BY <1>2, <1>3, <1>4, <2>1, FrameFieldDef DEF LastByte, FrameError
<1> QED  BY <1>5, <1>6 DEF Complete

LEMMA WholePacket ==
  ASSUME NEW b \in Buffer, FrameSize(b) = Len(b)
  PROVE  FirstPacket(b) = b
<1>1. b \in Seq(Nat) /\ Len(b) \in 0..Len(b)  BY DEF Buffer
<1>2. /\ SubSeq(b, 1, Len(b)) \in Seq(Nat) /\ Len(SubSeq(b, 1, Len(b))) = Len(b)
      /\ \A i \in 1..Len(b) : SubSeq(b, 1, Len(b))[i] = b[i]
  BY <1>1, CutAt, Zenon
<1>3. SubSeq(b, 1, Len(b)) = b  BY <1>1, <1>2, SeqEqual
<1> QED  BY <1>3, Zenon DEF FirstPacket

\* What a refused packet is, an accepted one is not.
LEMMA GoodOrBad ==
  ASSUME NEW b \in Buffer, Good(b)
  PROVE  ~Bad(b) /\ FirstPacket(b) = b
<1>1. FirstPacket(b) = b  BY WholePacket DEF Good
<1>2. Complete(b) /\ FrameSize(b) = Len(b) /\ ~Unacceptable(b)  BY DEF Good
<1>3. ~FrameError(b)  BY <1>2 DEF Complete, FrameError
<1> QED  BY <1>1, <1>2, <1>3, Zenon DEF Bad, Refused

\* One packet more, and one less.
WithLast(f, first, n, x) == [i \in first..(n + 1) |-> IF i = n + 1 THEN x ELSE f[i]]
Behind(rest, n, b) == [i \in 0..(n + 1) |-> IF i = n + 1 THEN <<>> ELSE Cat(rest[i], b)]
WithoutFirst(f, first, n) == [i \in first..(n - 1) |-> f[i + 1]]

LEMMA InPacketsGrow ==
  ASSUME NEW s, NEW n, NEW packet, NEW rest, InPackets(s, n, packet, rest), NEW b \in Buffer
  PROVE  InPackets(Cat(s, b), n + 1, WithLast(packet, 1, n, b),
                   Behind(rest, n, b))
<1> USE DEF WithLast, Behind
<1> DEFINE packet2 == WithLast(packet, 1, n, b)
           rest2 == Behind(rest, n, b)
<1>1. n \in Nat /\ (\A i \in 1..n : packet[i] \in Buffer) /\ \A i \in 0..n : rest[i] \in Buffer
  BY DEF InPackets
<1>2. \A i \in 0..n : Cat(rest[i], b) \in Buffer
  <2>1. ASSUME NEW r \in Buffer PROVE Cat(r, b) \in Buffer  BY CatAt DEF Buffer
  <2> QED  BY <1>1, <2>1
<1>3. packet2 \in [1..(n + 1) -> Buffer]  BY <1>1
<1>4. /\ \A i \in 0..n : rest2[i] = Cat(rest[i], b)
      /\ rest2[n + 1] = <<>>
      /\ \A i \in 1..n : packet2[i] = packet[i]
      /\ packet2[n + 1] = b
  BY <1>1
<1>5. rest2 \in [0..(n + 1) -> Buffer]
  <2>1. <<>> \in Buffer  BY DEF Buffer
  <2> QED  BY <1>1, <1>2, <2>1
<1> HIDE DEF packet2, rest2
<1>6. rest2[0] = Cat(s, b)  BY <1>1, <1>4 DEF InPackets
<1>7. Cat(b, <<>>) = Cat(<<>>, b)  BY DEF Cat, Buffer
<1>8. ASSUME NEW i \in 1..(n + 1) PROVE rest2[i - 1] = Cat(packet2[i], rest2[i])
  <2>1. CASE i = n + 1
    <3>1. (n + 1) - 1 = n /\ rest[n] = <<>> /\ n \in 0..n  BY <1>1 DEF InPackets
    <3> QED  BY <1>4, <1>7, <2>1, <3>1
  <2>2. CASE i # n + 1
    <3>1. i \in 1..n /\ i \in 0..n /\ i - 1 \in 0..n  BY <1>1, <2>2
    <3>2. rest[i - 1] = Cat(packet[i], rest[i])  BY <3>1 DEF InPackets
    <3>3. Cat(Cat(packet[i], rest[i]), b) = Cat(packet[i], Cat(rest[i], b))
      <4>1. ASSUME NEW x \in Buffer, NEW y \in Buffer
            PROVE  Cat(Cat(x, y), b) = Cat(x, Cat(y, b))
        BY CatAssociative DEF Buffer
      <4> QED  BY <1>1, <3>1, <4>1
    <3> QED  BY <1>4, <3>1, <3>2, <3>3
  <2> QED  BY <2>1, <2>2
<1>9. InPackets(Cat(s, b), n + 1, packet2, rest2)
  BY <1>1, <1>3, <1>4, <1>5, <1>6, <1>8 DEF InPackets
<1> QED  BY <1>9 DEF packet2, rest2

LEMMA InPacketsShrink ==
  ASSUME NEW s, NEW n, NEW packet, NEW rest, InPackets(s, n, packet, rest), n > 0
  PROVE  /\ s = Cat(packet[1], rest[1]) /\ packet[1] \in Buffer /\ rest[1] \in Buffer
         /\ InPackets(rest[1], n - 1, WithoutFirst(packet, 1, n),
                      WithoutFirst(rest, 0, n))
<1> USE DEF WithoutFirst
<1> DEFINE packet2 == WithoutFirst(packet, 1, n)
           rest2 == WithoutFirst(rest, 0, n)
<1> USE DEF InPackets
<1>1. n \in Nat /\ n - 1 \in Nat /\ 1 \in 1..n /\ 1 \in 0..n /\ 1 - 1 = 0  OBVIOUS
<1>2. s = Cat(packet[1], rest[1]) /\ packet[1] \in Buffer /\ rest[1] \in Buffer  BY <1>1
<1>3. packet2 \in [1..(n - 1) -> Buffer] /\ rest2 \in [0..(n - 1) -> Buffer]  BY <1>1
<1>4. rest2[0] = rest[1] /\ rest2[n - 1] = <<>>  BY <1>1
<1>5. ASSUME NEW i \in 1..(n - 1) PROVE rest2[i - 1] = Cat(packet2[i], rest2[i])
  <2>1. i + 1 \in 1..n /\ (i + 1) - 1 = i /\ i - 1 \in 0..(n - 1) /\ (i - 1) + 1 = i
        /\ i \in 0..(n - 1)
    BY <1>1
  <2>2. rest[(i + 1) - 1] = Cat(packet[i + 1], rest[i + 1])  BY <2>1
  <2> QED  BY <2>1, <2>2
<1>6. InPackets(rest[1], n - 1, packet2, rest2)
  <2> HIDE DEF packet2, rest2
  <2> QED  BY <1>1, <1>3, <1>4, <1>5
<1> QED  BY <1>2, <1>6 DEF packet2, rest2

LEMMA CountsGrow ==
  ASSUME NEW n \in Nat, NEW packet, NEW k, NEW i0, NEW ss \in Seq(PublishMessage),
         Counts(n, packet, k, i0, ss, FALSE),
         NEW ss2 \in Seq(PublishMessage), Len(ss2) >= Len(ss),
         \A i \in 1..Len(ss) : ss2[i] = ss[i],
         NEW b, NEW bad \in BOOLEAN, NEW j \in Nat,
         \/ ~bad /\ Good(b) /\ Does(b, k[n], j, ss2) /\ j = Len(ss2)
         \/ bad /\ Bad(b) /\ j = k[n],
         j <= Len(ss2), \A i \in 1..Len(ss2) : i <= j <=> ss2[i].qos = 0
  PROVE  Counts(n + 1, WithLast(packet, 1, n, b),
                WithLast(k, 0, n, j), i0, ss2, bad)
<1> USE DEF WithLast
<1> DEFINE packet2 == WithLast(packet, 1, n, b)
           k2 == WithLast(k, 0, n, j)
<1>1. k \in [0..n -> Nat] /\ k[0] = i0  BY DEF Counts
<1>2. k2 \in [0..(n + 1) -> Nat] /\ k2[0] = i0  BY <1>1
<1>3. /\ \A i \in 0..n : k2[i] = k[i]
      /\ k2[n + 1] = j
      /\ \A i \in 1..n : packet2[i] = packet[i]
      /\ packet2[n + 1] = b
  OBVIOUS
<1> HIDE DEF packet2, k2
<1>4. ASSUME NEW i \in 1..(n + 1)
      PROVE  \/ Good(packet2[i]) /\ Does(packet2[i], k2[i - 1], k2[i], ss2)
             \/ i = n + 1 /\ bad /\ Bad(packet2[i]) /\ k2[i] = k2[i - 1]
  <2>1. CASE i = n + 1
    <3>1. (n + 1) - 1 = n /\ n \in 0..n  OBVIOUS
    <3>2. k2[i] = j /\ k2[i - 1] = k[n] /\ packet2[i] = b  BY <1>3, <2>1, <3>1
    <3> QED  BY <2>1, <3>2, Zenon
  <2>2. CASE i # n + 1
    <3>1. i \in 1..n /\ i \in 0..n /\ i - 1 \in 0..n  BY <2>2
    <3>2. Good(packet[i]) /\ Does(packet[i], k[i - 1], k[i], ss)  BY <3>1 DEF Counts
    <3>3. Does(packet[i], k[i - 1], k[i], ss2)
      <4>1. k[i - 1] \in Nat /\ k[i] \in Nat  BY <1>1, <3>1
      <4>2. Len(ss) \in Nat /\ Len(ss2) \in Nat  OBVIOUS
      <4> QED  BY <3>2, <4>1, <4>2 DEF Does
    <3> QED  BY <1>3, <3>1, <3>2, <3>3
  <2> QED  BY <2>1, <2>2
<1>5. Counts(n + 1, packet2, k2, i0, ss2, bad)
  <2>1. k2[n + 1] <= Len(ss2) /\ \A i \in 1..Len(ss2) : i <= k2[n + 1] <=> ss2[i].qos = 0
    BY <1>3
  <2>2. bad => n + 1 > 0 /\ Bad(packet2[n + 1])  BY <1>3
  <2>3. ~bad => k2[n + 1] = Len(ss2)  BY <1>3
  <2> QED  BY <1>2, <1>4, <2>1, <2>2, <2>3 DEF Counts
<1> QED  BY <1>5 DEF packet2, k2

LEMMA CountsShrink ==
  ASSUME NEW n \in Nat, n > 0, NEW packet, NEW k, NEW i0, NEW ss \in Seq(PublishMessage),
         NEW bad \in BOOLEAN, Counts(n, packet, k, i0, ss, bad), ~Bad(packet[1])
  PROVE  /\ Good(packet[1]) /\ Does(packet[1], i0, k[1], ss) /\ k[1] \in Nat
         /\ Counts(n - 1, WithoutFirst(packet, 1, n), WithoutFirst(k, 0, n),
                   k[1], ss, bad)
<1> USE DEF WithoutFirst
<1> DEFINE packet2 == WithoutFirst(packet, 1, n)
           k2 == WithoutFirst(k, 0, n)
<1> USE DEF Counts
<1>1. n - 1 \in Nat /\ 1 \in 1..n /\ 1 - 1 = 0 /\ 1 \in 0..n  OBVIOUS
<1>2. Good(packet[1]) /\ Does(packet[1], i0, k[1], ss) /\ k[1] \in Nat  BY <1>1
<1>3. bad => n - 1 > 0  BY <1>1
<1>4. k2 \in [0..(n - 1) -> Nat] /\ k2[0] = k[1] /\ k2[n - 1] = k[n]  BY <1>1
<1>5. ASSUME NEW i \in 1..(n - 1)
      PROVE  \/ Good(packet2[i]) /\ Does(packet2[i], k2[i - 1], k2[i], ss)
             \/ i = n - 1 /\ bad /\ Bad(packet2[i]) /\ k2[i] = k2[i - 1]
  <2>1. i + 1 \in 1..n /\ (i + 1) - 1 = i /\ i - 1 \in 0..(n - 1) /\ (i - 1) + 1 = i
        /\ i \in 0..(n - 1) /\ (i + 1 = n => i = n - 1)
    BY <1>1
  <2>2. k2[i] = k[i + 1] /\ k2[i - 1] = k[(i + 1) - 1] /\ packet2[i] = packet[i + 1]  BY <2>1
  <2> HIDE DEF packet2, k2
  <2>3. \/ Good(packet[i + 1]) /\ Does(packet[i + 1], k[(i + 1) - 1], k[i + 1], ss)
        \/ i + 1 = n /\ bad /\ Bad(packet[i + 1]) /\ k[i + 1] = k[(i + 1) - 1]
    BY <2>1
  <2> QED  BY <2>1, <2>2, <2>3, Zenon
<1>6. bad => n - 1 > 0 /\ Bad(packet2[n - 1])
  <2> SUFFICES ASSUME bad PROVE Bad(packet2[n - 1])  BY <1>3
  <2>1. n - 1 \in 1..(n - 1) /\ (n - 1) + 1 = n  BY <1>1, <1>3
  <2>2. packet2[n - 1] = packet[n]  BY <2>1
  <2> QED  BY <2>2
<1>7. Counts(n - 1, packet2, k2, k[1], ss, bad)
  <2> HIDE DEF packet2, k2
  <2> QED  BY <1>1, <1>4, <1>5, <1>6
<1> QED  BY <1>2, <1>7 DEF packet2, k2

----------------------------------------------------------------------------
(* Every step keeps StreamInv.                                             *)

LEMMA InitStream == Init => StreamInv
<1> SUFFICES ASSUME Init PROVE StreamInv  OBVIOUS
<1> USE DEF Init
<1>1. TypeInv
  <2>1. ASSUME NEW S PROVE <<>> \in Seq(S)  OBVIOUS
  <2> QED  BY <2>1, Zenon DEF TypeInv, Buffer
<1>2. Cat(rx, net) = <<>>  BY DEF Cat
<1> DEFINE rest == [i \in 0..0 |-> <<>>]
           k == [i \in 0..0 |-> 0]
           packet == [i \in 1..0 |-> <<>>]
<1>3. InPackets(<<>>, 0, packet, rest)
  <2>1. <<>> \in Buffer  BY DEF Buffer
  <2> QED  BY <2>1 DEF InPackets
<1>4. Counts(0, packet, k, Len(got), sent, refused)  BY DEF Counts
<1>5. Len(got) <= Len(sent) /\ \A i \in 1..Len(got) : got[i] = sent[i]  OBVIOUS
<1> HIDE DEF rest, k, packet
<1>6. \E n, p, r, c : InPackets(Cat(rx, net), n, p, r) /\ Counts(n, p, c, Len(got), sent, refused)
  BY <1>2, <1>3, <1>4, Zenon
<1> QED  BY <1>1, <1>5, <1>6 DEF StreamInv

\* The broker sends a packet.
LEMMA SendStep ==
  ASSUME StreamInv, ~failed, ~refused,
         NEW b \in Buffer, net' = net \o b, NEW ss \in Seq(PublishMessage), sent' = ss,
         Len(ss) >= Len(sent), \A i \in 1..Len(sent) : ss[i] = sent[i],
         refused' \in BOOLEAN, UNCHANGED <<rx, got, failed>>,
         NEW j \in Nat, j <= Len(ss), j >= Len(sent),
         \A i \in (Len(sent) + 1)..Len(ss) : i <= j <=> ss[i].qos = 0,
         \/ ~refused' /\ Good(b) /\ Does(b, Len(sent), j, ss) /\ j = Len(ss)
         \/ refused' /\ Bad(b) /\ j = Len(sent)
  PROVE  StreamInv'
<1>1. TypeInv  BY DEF StreamInv
<1>2. Len(sent) \in Nat /\ Len(ss) \in Nat /\ Len(got) \in Nat  BY <1>1 DEF TypeInv
<1>3. PICK n, packet, rest, k :
         InPackets(Cat(rx, net), n, packet, rest) /\ Counts(n, packet, k, Len(got), sent, refused)
  BY Zenon DEF StreamInv
<1>4. n \in Nat  BY <1>3 DEF InPackets
<1>5. Counts(n, packet, k, Len(got), sent, FALSE) /\ k[n] = Len(sent)
  <2>1. refused = FALSE  BY <1>1 DEF TypeInv
  <2> QED  BY <1>3, <2>1 DEF Counts
<1>6. Cat(rx', net') = Cat(Cat(rx, net), b)
  <2>1. net' = Cat(net, b) /\ rx' = rx  BY Zenon DEF Cat
  <2>2. ASSUME NEW r \in Buffer, NEW t \in Buffer
        PROVE  Cat(r, Cat(t, b)) = Cat(Cat(r, t), b)
    BY CatAssociative DEF Buffer
  <2>3. rx \in Buffer /\ net \in Buffer  BY <1>1 DEF TypeInv
  <2> QED  BY <2>1, <2>2, <2>3
<1> DEFINE packet2 == WithLast(packet, 1, n, b)
           rest2 == Behind(rest, n, b)
           k2 == WithLast(k, 0, n, j)
           bad == refused'
<1>7. InPackets(Cat(Cat(rx, net), b), n + 1, packet2, rest2)  BY <1>3, InPacketsGrow, Zenon
<1>8. \A i \in 1..Len(ss) : i <= j <=> ss[i].qos = 0
  <2> TAKE i \in 1..Len(ss)
  <2>1. CASE i <= Len(sent)
    <3>1. i \in 1..Len(sent)  BY <1>2, <2>1
    <3>2. i <= Len(sent) <=> sent[i].qos = 0  BY <1>5, <3>1 DEF Counts
    <3>3. ss[i] = sent[i] /\ i <= j  BY <1>2, <3>1
    <3> QED  BY <2>1, <3>2, <3>3
  <2>2. CASE i > Len(sent)
    <3>1. i \in (Len(sent) + 1)..Len(ss)  BY <1>2, <2>2
    <3> QED  BY <3>1
  <2> QED  BY <1>2, <2>1, <2>2
<1>9. Counts(n + 1, packet2, k2, Len(got), ss, bad)
  <2>1. bad \in BOOLEAN  OBVIOUS
  <2>2. \/ ~bad /\ Good(b) /\ Does(b, k[n], j, ss) /\ j = Len(ss)
        \/ bad /\ Bad(b) /\ j = k[n]
    BY <1>5, Zenon
  <2>3. sent \in Seq(PublishMessage)  BY <1>1 DEF TypeInv
  <2> HIDE DEF bad
  <2> QED  BY <1>4, <1>5, <1>8, <2>1, <2>2, <2>3, CountsGrow
<1> HIDE DEF packet2, rest2, k2
<1>10. \E m, p, r, c : InPackets(Cat(rx', net'), m, p, r) /\ Counts(m, p, c, Len(got'), sent', refused')
  <2>1. got' = got /\ sent' = ss  OBVIOUS
  <2> QED  BY <1>6, <1>7, <1>9, <2>1, Zenon
<1>11. TypeInv'
  <2>1. Cat(net, b) \in Buffer
    <3>1. net \in Seq(Nat) /\ b \in Seq(Nat)  BY <1>1 DEF TypeInv, Buffer
    <3> QED  BY <3>1, CatAt DEF Buffer
  <2>2. net' = Cat(net, b)  BY Zenon DEF Cat
  <2> QED  BY <1>1, <2>1, <2>2 DEF TypeInv
<1>12. Len(got) <= Len(ss) /\ \A i \in 1..Len(got) : got[i] = ss[i]
  <2>1. Len(got) <= Len(sent) /\ \A i \in 1..Len(got) : got[i] = sent[i]  BY DEF StreamInv
  <2> QED  BY <1>2, <2>1
<1>13. ~failed'  OBVIOUS
<1>14. (Len(got) <= Len(sent) /\ \A i \in 1..Len(got) : got[i] = sent[i])'  BY <1>12
<1> QED  BY <1>10, <1>11, <1>13, <1>14, Zenon DEF StreamInv

\* The client reads some bytes: they are the same stream still.
LEMMA ReadStep ==
  ASSUME StreamInv, Read
  PROVE  StreamInv'
<1>1. PICK m \in 1..Len(net) :
        rx' = rx \o SubSeq(net, 1, m) /\ net' = SubSeq(net, m + 1, Len(net))
  BY Zenon DEF Read
<1>2. rx \in Buffer /\ net \in Buffer /\ m \in 0..Len(net)  BY DEF StreamInv, TypeInv
<1> DEFINE a == SubSeq(net, 1, m)
           b == SubSeq(net, m + 1, Len(net))
<1>3. a \in Buffer /\ b \in Buffer  BY <1>2, CutAt, Zenon DEF Buffer
<1>4. Cat(Cat(rx, a), b) = Cat(rx, net)  BY <1>2, CatCut, Zenon DEF Buffer
<1>5. rx' = Cat(rx, a) /\ net' = b  BY <1>1, Zenon DEF Cat
<1> HIDE DEF a, b
<1>6. Cat(rx, a) \in Buffer  BY <1>2, <1>3, CatAt DEF Buffer
<1>7. ~failed /\ UNCHANGED <<sent, got, refused, failed>>  BY DEF Read
<1>8. TypeInv'  BY <1>3, <1>5, <1>6, <1>7 DEF StreamInv, TypeInv
<1>9. Cat(rx', net') = Cat(rx, net)  BY <1>4, <1>5
<1>10. sent' = sent /\ got' = got /\ refused' = refused /\ failed' = failed  BY <1>7
<1>11. PICK n, packet, rest, k :
         InPackets(Cat(rx, net), n, packet, rest) /\ Counts(n, packet, k, Len(got), sent, refused)
  BY <1>7, Zenon DEF StreamInv
<1>12. \E n1, p, r, c :
         InPackets(Cat(rx', net'), n1, p, r) /\ Counts(n1, p, c, Len(got'), sent', refused')
  BY <1>9, <1>10, <1>11, Zenon
<1>13. (Len(got) <= Len(sent) /\ \A i \in 1..Len(got) : got[i] = sent[i])'
  BY <1>10 DEF StreamInv
<1>14. ~failed'  BY <1>7
<1> QED  BY <1>8, <1>12, <1>13, <1>14, Zenon DEF StreamInv

\* Where the front of the buffer is in the stream.
LEMMA FrontOfStream ==
  ASSUME StreamInv, ~failed, NEW n, NEW packet, NEW rest, NEW k,
         InPackets(Cat(rx, net), n, packet, rest), Counts(n, packet, k, Len(got), sent, refused)
  PROVE  /\ n \in Nat /\ rx \in Buffer /\ net \in Buffer
         /\ rx # <<>> => n > 0
         /\ n > 0 => /\ packet[1] \in Buffer /\ rest[1] \in Buffer
                     /\ Cat(packet[1], rest[1]) = Cat(rx, net)
                     /\ ~Bad(packet[1]) => Good(packet[1])
                     /\ Bad(packet[1]) => refused /\ n = 1 /\ k[1] = Len(got)
<1>1. n \in Nat /\ rx \in Buffer /\ net \in Buffer  BY DEF InPackets, StreamInv, TypeInv
<1>2. ASSUME rx # <<>>, ~(n > 0) PROVE FALSE
  <2>1. n = 0  BY <1>1, <1>2
  <2>2. Cat(rx, net) = <<>>  BY <2>1 DEF InPackets
  <2>3. Joined(Cat(rx, net), rx, net)  BY <1>1, CatAt DEF Buffer
  <2>4. Len(rx) = 0  BY <2>2, <2>3 DEF Joined
  <2> QED  BY <1>1, <1>2, <2>4 DEF Buffer
<1>3. ASSUME n > 0
      PROVE  /\ packet[1] \in Buffer /\ rest[1] \in Buffer
             /\ Cat(packet[1], rest[1]) = Cat(rx, net)
             /\ ~Bad(packet[1]) => Good(packet[1])
             /\ Bad(packet[1]) => refused /\ n = 1 /\ k[1] = Len(got)
  <2>1. /\ packet[1] \in Buffer /\ rest[1] \in Buffer
        /\ Cat(packet[1], rest[1]) = Cat(rx, net)
    BY <1>3, InPacketsShrink
  <2>2. 1 \in 1..n /\ 1 - 1 = 0  BY <1>1, <1>3
  <2>3. \/ Good(packet[1])
        \/ 1 = n /\ refused /\ Bad(packet[1]) /\ k[1] = Len(got)
    BY <2>2 DEF Counts
  <2>4. Good(packet[1]) => ~Bad(packet[1])  BY <2>1, GoodOrBad
  <2> QED  BY <2>1, <2>3, <2>4, Zenon
<1> QED  BY <1>1, <1>2, <1>3, Zenon

LEMMA ProcessStep ==
  ASSUME StreamInv, ProcessPacket
  PROVE  StreamInv'
<1>1. /\ ~failed /\ Complete(rx) /\ ~Unacceptable(FirstPacket(rx))
      /\ UNCHANGED <<net, sent, refused, failed>>
      /\ rx' = SubSeq(rx, FrameSize(rx) + 1, Len(rx))
      /\ \/ /\ Type(FirstPacket(rx)) = PUBLISH
            /\ \E m \in Parsed(FirstPacket(rx)) : got' = Append(got, m)
         \/ Type(FirstPacket(rx)) # PUBLISH /\ got' = got
  BY Zenon DEF ProcessPacket, FrontPacket
<1>2. PICK n, packet, rest, k :
         InPackets(Cat(rx, net), n, packet, rest) /\ Counts(n, packet, k, Len(got), sent, refused)
  BY <1>1, Zenon DEF StreamInv
<1>3. n \in Nat /\ rx \in Buffer /\ net \in Buffer /\ n > 0
  <2>1. n \in Nat /\ rx \in Buffer /\ net \in Buffer /\ (rx # <<>> => n > 0)
    BY <1>1, <1>2, FrontOfStream, Zenon
  <2>2. rx # <<>>
    <3>1. Len(rx) > 0  BY <1>1, <2>1, FrontAgrees DEF Buffer
    <3> QED  BY <3>1
  <2> QED  BY <2>1, <2>2
<1> DEFINE p == packet[1]
           t == rest[1]
<1>4. /\ p \in Buffer /\ t \in Buffer /\ Cat(p, t) = Cat(rx, net)
      /\ ~Bad(p) => Good(p)
  BY <1>1, <1>2, <1>3, FrontOfStream, Zenon
<1> HIDE DEF p, t
<1>5. ~Bad(p)
  <2> SUFFICES ASSUME Refused(p) PROVE FALSE  BY DEF Bad
  <2>1. CASE FrameError(p)  BY <1>1, <1>3, <1>4, <2>1, SameError
  <2>2. CASE Complete(p) /\ Unacceptable(FirstPacket(p))
    <3>1. FirstPacket(rx) = FirstPacket(p)  BY <1>1, <1>3, <1>4, <2>2, SameFront
    <3> QED  BY <1>1, <2>2, <3>1
  <2> QED  BY <2>1, <2>2 DEF Refused
<1>6. Good(p) /\ FirstPacket(p) = p  BY <1>4, <1>5, GoodOrBad
<1>7. FrameSize(rx) = Len(p) /\ FirstPacket(rx) = p
  <2>1. Complete(p) /\ FrameSize(p) = Len(p)  BY <1>6 DEF Good
  <2>2. FrameSize(rx) = FrameSize(p) /\ FirstPacket(rx) = FirstPacket(p)
    BY <1>1, <1>3, <1>4, <2>1, SameFront
  <2> QED  BY <1>6, <2>1, <2>2
<1>8. rx' \in Buffer /\ Cat(rx', net') = t
  <2> DEFINE r == SubSeq(rx, Len(p) + 1, Len(rx))
  <2>1. FrameSize(rx) \in 2..Len(rx)  BY <1>1, <1>3, FrontAgrees
  <2>2. Len(p) \in 0..Len(rx)  BY <1>7, <2>1
  <2>3. r \in Buffer /\ Cat(p, r) = rx
    <3>1. SubSeq(rx, 1, Len(p)) = p  BY <1>7 DEF FirstPacket
    <3>2. r \in Buffer /\ SubSeq(rx, 1, Len(p)) \o r = rx
      BY <1>3, <2>2, CutAt, Zenon DEF Buffer
    <3> QED  BY <3>1, <3>2, Zenon DEF Cat
  <2>4. rx' = r /\ net' = net  BY <1>1, <1>7
  <2> HIDE DEF r
  <2>5. Cat(p, Cat(r, net)) = Cat(p, t)
    <3>1. Cat(Cat(p, r), net) = Cat(p, Cat(r, net))  BY <1>3, <1>4, <2>3, CatAssociative DEF Buffer
    <3> QED  BY <1>4, <2>3, <3>1
  <2>6. Cat(r, net) \in Seq(Nat) /\ t \in Seq(Nat) /\ p \in Seq(Nat)
    BY <1>3, <1>4, <2>3, CatAt DEF Buffer
  <2>7. /\ SubSeq(Cat(p, Cat(r, net)), Len(p) + 1, Len(Cat(p, Cat(r, net)))) = Cat(r, net)
        /\ SubSeq(Cat(p, t), Len(p) + 1, Len(Cat(p, t))) = t
    BY <2>6, CutCat, Zenon
  <2>8. Cat(r, net) = t  BY <2>5, <2>7
  <2> QED  BY <2>3, <2>4, <2>8
<1>9. Len(got) \in Nat /\ sent \in Seq(PublishMessage) /\ refused \in BOOLEAN
      /\ got \in Seq(PublishMessage)
  BY DEF StreamInv, TypeInv
<1>10. /\ Does(p, Len(got), k[1], sent) /\ k[1] \in Nat
       /\ Counts(n - 1, WithoutFirst(packet, 1, n), WithoutFirst(k, 0, n), k[1], sent, refused)
  BY <1>2, <1>3, <1>5, <1>9, CountsShrink DEF p
<1>11. InPackets(t, n - 1, WithoutFirst(packet, 1, n), WithoutFirst(rest, 0, n))
  BY <1>2, <1>3, InPacketsShrink DEF t
<1>12. Len(got) <= Len(sent) /\ \A i \in 1..Len(got) : got[i] = sent[i]  BY DEF StreamInv
<1>13. /\ got' \in Seq(PublishMessage) /\ Len(got') = k[1] /\ Len(got') <= Len(sent)
       /\ \A i \in 1..Len(got') : got'[i] = sent[i]
  <2>1. CASE Type(p) = PUBLISH
    <3>1. PICK m \in Parsed(p) : got' = Append(got, m)  BY <1>1, <1>7, <2>1
    <3>2. k[1] = Len(got) + 1 /\ k[1] <= Len(sent) /\ Parsed(p) = {sent[k[1]]}
      BY <1>10, <2>1 DEF Does
    <3> DEFINE j == Len(got) + 1
    <3>3. m = sent[j] /\ j \in 1..Len(sent)  BY <1>9, <3>1, <3>2
    <3>4. m \in PublishMessage  BY <1>9, <3>3
    <3>5. /\ Append(got, m) \in Seq(PublishMessage) /\ Len(Append(got, m)) = j
          /\ Append(got, m)[j] = m /\ \A i \in 1..Len(got) : Append(got, m)[i] = got[i]
      BY <1>9, <3>4, AppendProperties
    <3>6. \A i \in 1..j : i = j \/ i \in 1..Len(got)  BY <1>9
    <3> HIDE DEF j
    <3>7. \A i \in 1..j : Append(got, m)[i] = sent[i]  BY <1>12, <3>3, <3>5, <3>6
    <3> QED  BY <3>1, <3>2, <3>3, <3>5, <3>7 DEF j
  <2>2. CASE Type(p) # PUBLISH
    <3>1. got' = got  BY <1>1, <1>7, <2>2
    <3>2. k[1] = Len(got)  BY <1>10, <2>2 DEF Does
    <3> QED  BY <1>9, <1>12, <3>1, <3>2
  <2> QED  BY <2>1, <2>2
<1>14. TypeInv'
  <2>1. net' = net /\ sent' = sent /\ refused' = refused /\ failed' = failed  BY <1>1
  <2> QED  BY <1>8, <1>13, <2>1 DEF StreamInv, TypeInv
<1>15. \E n1, a, r, c :
         InPackets(Cat(rx', net'), n1, a, r) /\ Counts(n1, a, c, Len(got'), sent', refused')
  <2>1. sent' = sent /\ refused' = refused  BY <1>1
  <2> QED  BY <1>8, <1>10, <1>11, <1>13, <2>1, Zenon
<1>16. (Len(got) <= Len(sent) /\ \A i \in 1..Len(got) : got[i] = sent[i])'
  <2>1. sent' = sent  BY <1>1
  <2> QED  BY <1>13, <2>1
<1>17. ~failed'  BY <1>1
<1> QED  BY <1>14, <1>15, <1>16, <1>17, Zenon DEF StreamInv

LEMMA FailStep ==
  ASSUME StreamInv, ProcessFails
  PROVE  StreamInv'
<1>1. /\ ~failed /\ Refused(rx) /\ failed' = TRUE /\ rx' = <<>> /\ net' = <<>>
      /\ sent' = sent /\ got' = got /\ refused' = refused
  BY DEF ProcessFails
<1>2. PICK n, packet, rest, k :
         InPackets(Cat(rx, net), n, packet, rest) /\ Counts(n, packet, k, Len(got), sent, refused)
  BY <1>1, Zenon DEF StreamInv
<1>3. n \in Nat /\ rx \in Buffer /\ net \in Buffer /\ n > 0
  <2>1. n \in Nat /\ rx \in Buffer /\ net \in Buffer /\ (rx # <<>> => n > 0)
    BY <1>1, <1>2, FrontOfStream, Zenon
  <2>2. Len(rx) > 0
    <3>1. CASE FrameError(rx)
      BY <2>1, <3>1, FrameFieldDef DEF LastByte, FrameError, Buffer
    <3>2. CASE Complete(rx)  BY <2>1, <3>2, FrontAgrees DEF Buffer
    <3> QED  BY <1>1, <3>1, <3>2 DEF Refused
  <2>3. rx # <<>>  BY <2>2
  <2> QED  BY <2>1, <2>3
<1> DEFINE p == packet[1]
           t == rest[1]
<1>4. /\ p \in Buffer /\ t \in Buffer /\ Cat(p, t) = Cat(rx, net)
      /\ ~Bad(p) => Good(p)
      /\ Bad(p) => refused /\ n = 1 /\ k[1] = Len(got)
  BY <1>1, <1>2, <1>3, FrontOfStream, Zenon
<1> HIDE DEF p, t
<1>5. Bad(p)
  <2> SUFFICES ASSUME Good(p) PROVE FALSE  BY <1>4
  <2>1. Complete(p) /\ ~Unacceptable(p)  BY DEF Good
  <2>2. FirstPacket(p) = p  BY <1>4, GoodOrBad
  <2>3. ~FrameError(rx) /\ (Complete(rx) => FirstPacket(rx) = FirstPacket(p))
    BY <1>3, <1>4, <2>1, SameFront
  <2> QED  BY <1>1, <2>1, <2>2, <2>3 DEF Refused
<1>6. refused /\ \A i \in 1..Len(sent) : i <= Len(got) <=> sent[i].qos = 0
  <2>1. refused /\ n = 1 /\ k[1] = Len(got)  BY <1>4, <1>5
  <2> QED  BY <1>2, <2>1 DEF Counts
<1>7. TypeInv'
  <2>1. <<>> \in Buffer  BY DEF Buffer
  <2> QED  BY <1>1, <2>1 DEF StreamInv, TypeInv
<1>8. (Len(got) <= Len(sent) /\ \A i \in 1..Len(got) : got[i] = sent[i])'
  BY <1>1 DEF StreamInv
<1>9. (\A i \in 1..Len(sent) : i <= Len(got) <=> sent[i].qos = 0)'  BY <1>1, <1>6
<1> QED  BY <1>1, <1>6, <1>7, <1>8, <1>9, Zenon DEF StreamInv

LEMMA SendMessageStep ==
  ASSUME StreamInv, SendMessage
  PROVE  StreamInv'
<1>1. PICK m \in Messages :
        /\ Encodable(m) /\ Len(PublishBody(m)) <= MaxBody
        /\ \E b \in Lengthened(Encoded(m)) : net' = net \o b
        /\ sent' = Append(sent, m) /\ refused' = (m.qos > 0)
  BY Zenon DEF SendMessage
<1>2. ~failed /\ ~refused /\ UNCHANGED <<rx, got, failed>>  BY DEF SendMessage, MaySend
<1>3. m \in PublishMessage /\ m.qos \in Nat
  <2>1. m \in PublishMessage  BY ConstantsAssumption, Zenon DEF ConstantsAssumption
  <2>2. \A x \in Byte : x \in Nat  BY DEF Byte
  <2> QED  BY <2>1, <2>2 DEF PublishMessage
<1>4. PICK b \in Lengthened(Encoded(m)) : net' = net \o b  BY <1>1
<1>5. /\ b \in Buffer /\ Complete(b) /\ FrameSize(b) = Len(b) /\ Type(b) = PUBLISH
      /\ Parsed(b) = {m} /\ (Unacceptable(b) <=> m.qos > 0)
  BY <1>1, <1>3, SentPublish
<1>6. sent \in Seq(PublishMessage)  BY DEF StreamInv, TypeInv
<1> DEFINE ss == Append(sent, m)
           l == Len(sent)
           j == IF m.qos = 0 THEN l + 1 ELSE l
<1>7. /\ ss \in Seq(PublishMessage) /\ Len(ss) = l + 1 /\ l \in Nat
      /\ (\A i \in 1..l : ss[i] = sent[i]) /\ ss[l + 1] = m
  BY <1>3, <1>6, AppendProperties
<1>8. j \in Nat /\ j <= Len(ss) /\ j >= l  BY <1>7
<1>9. \A i \in (l + 1)..Len(ss) : i <= j <=> ss[i].qos = 0
  <2>1. \A i \in (l + 1)..Len(ss) : i = l + 1  BY <1>7
  <2> QED  BY <1>7, <2>1
<1>10. CASE m.qos = 0
  <2>1. ~refused' /\ refused' \in BOOLEAN /\ j = Len(ss)
    <3>1. (m.qos > 0) = FALSE  BY <1>10
    <3>2. refused' = FALSE  BY <1>1, <3>1, Zenon
    <3>3. j = Len(ss)  BY <1>7, <1>10
    <3> QED  BY <3>2, <3>3, Zenon
  <2>2. Good(b)
    <3>1. ~(m.qos > 0)  BY <1>10
    <3> QED  BY <1>5, <3>1 DEF Good
  <2>3. Does(b, l, j, ss)
    <3>1. j = l + 1 /\ j <= Len(ss) /\ ss[j] = m  BY <1>7, <1>10
    <3> HIDE DEF j, ss, l
    <3> QED  BY <1>5, <3>1 DEF Does
  <2> HIDE DEF ss, j
  <2> QED  BY <1>1, <1>2, <1>4, <1>5, <1>7, <1>8, <1>9, <2>1, <2>2, <2>3, SendStep DEF ss
<1>11. CASE m.qos # 0
  <2>1. m.qos > 0  BY <1>3, <1>11
  <2>2. refused' /\ refused' \in BOOLEAN /\ j = l  BY <1>1, <1>11, <2>1
  <2>3. Bad(b)  BY <1>5, <2>1, WholePacket DEF Bad, Refused
  <2> HIDE DEF ss, j
  <2> QED  BY <1>1, <1>2, <1>4, <1>5, <1>7, <1>8, <1>9, <2>2, <2>3, SendStep DEF ss
<1> QED  BY <1>10, <1>11

LEMMA SendOtherStep ==
  ASSUME StreamInv, SendControl \/ SendBroken
  PROVE  StreamInv'
<1>1. ~failed /\ ~refused /\ UNCHANGED <<rx, got, failed>> /\ sent' = sent
  BY DEF SendControl, SendBroken, MaySend
<1>2. PICK b \in Buffer :
         /\ net' = net \o b /\ refused' \in BOOLEAN
         /\ \/ ~refused' /\ Good(b) /\ Type(b) # PUBLISH
            \/ refused' /\ Bad(b)
  <2>1. CASE SendControl
    <3>1. PICK m \in Controls :
             /\ \E b \in Lengthened(Encoded(m)) : net' = net \o b
             /\ refused' = (m.type = SUBACK /\ m.codes[1] = Failure)
      BY <2>1, Zenon DEF SendControl
    <3>2. PICK b \in Lengthened(Encoded(m)) : net' = net \o b  BY <3>1
    <3>3. /\ b \in Buffer /\ Complete(b) /\ FrameSize(b) = Len(b) /\ Type(b) # PUBLISH
          /\ Unacceptable(b) <=> m.type = SUBACK /\ m.codes[1] = Failure
      BY SentControl
    <3>4. FirstPacket(b) = b  BY <3>3, WholePacket
    <3>5. refused' \in BOOLEAN /\ (refused' <=> Unacceptable(b))  BY <3>1, <3>3
    <3>6. Unacceptable(b) => Bad(b)  BY <3>3, <3>4 DEF Bad, Refused
    <3>7. ~Unacceptable(b) => Good(b)  BY <3>3 DEF Good
    <3> QED  BY <3>2, <3>3, <3>5, <3>6, <3>7
  <2>2. CASE SendBroken
    <3>1. PICK b \in Broken : net' = net \o b  BY <2>2, Zenon DEF SendBroken
    <3>2. refused' = TRUE  BY <2>2 DEF SendBroken
    <3>3. b \in Buffer /\ Bad(b)  BY BrokenAssumption DEF BrokenAssumption, Bad, Buffer
    <3> QED  BY <3>1, <3>2, <3>3
  <2> QED  BY <2>1, <2>2
<1>3. sent \in Seq(PublishMessage) /\ Len(sent) \in Nat  BY DEF StreamInv, TypeInv
<1> DEFINE ss == sent
           l == Len(sent)
<1>4. ~refused' => Does(b, l, l, ss)  BY <1>2 DEF Does
<1>5. \A i \in (l + 1)..Len(ss) : i <= l <=> ss[i].qos = 0  BY <1>3
<1>6. l <= Len(ss) /\ l >= Len(sent) /\ \A i \in 1..Len(sent) : ss[i] = sent[i]  BY <1>3
<1> QED  BY <1>1, <1>2, <1>3, <1>4, <1>5, <1>6, SendStep

LEMMA NextStream == StreamInv /\ [Next]_vars => StreamInv'
<1> SUFFICES ASSUME StreamInv, [Next]_vars PROVE StreamInv'  OBVIOUS
<1>1. CASE UNCHANGED stream
  BY <1>1 DEF stream, StreamInv, TypeInv
<1>2. CASE Encode \/ Parse
  <2>1. UNCHANGED stream  BY <1>2 DEF Encode, Parse
  <2> QED  BY <1>1, <2>1
<1>3. CASE UNCHANGED vars
  <2>1. UNCHANGED stream  BY <1>3 DEF vars
  <2> QED  BY <1>1, <2>1
<1> QED  BY <1>2, <1>3, SendMessageStep, SendOtherStep, ReadStep, ProcessStep, FailStep, Zenon
     DEF Next

\* The bytes in the buffer and on their way, and the messages before and behind them,
\* agree in every state (MqttClient::process_rx_buffer, poll).
THEOREM StreamAgrees == Spec => []StreamInv
<1> QED  BY InitStream, NextStream, PTL DEF Spec

\* Whatever bytes the broker sends and however they are cut, mqtt_frame_info and
\* parse_control_packet see the same end of the packet in front.
THEOREM ReadersAlwaysAgree == Spec => []ReadersAgree
<1>1. StreamInv => ReadersAgree
  <2> SUFFICES ASSUME StreamInv PROVE ReadersAgree  OBVIOUS
  <2>1. rx \in Buffer  BY DEF StreamInv, TypeInv
  <2>2. ASSUME Complete(rx)
        PROVE  LET k == DecodedField(FrontPacket) IN
               k # TooMany /\ 1 + k + Value(FrontPacket, k) = Len(FrontPacket)
    <3> DEFINE k == FrameField(rx)
               p == FirstPacket(rx)
    <3>1. /\ Len(p) = FrameSize(rx) /\ DecodedField(p) = k /\ Value(p, k) = Value(rx, k)
      BY <2>1, <2>2, FrontAgrees
    <3>2. k \in 1..4 /\ FrameSize(rx) = 1 + k + Value(rx, k)  BY <2>2 DEF Complete, FrameSize
    <3> HIDE DEF k, p
    <3> QED  BY <3>1, <3>2 DEF FrontPacket, p
  <2>3. ASSUME FrameError(rx) PROVE DecodedField(rx) = TooMany
    BY <2>1, <2>3, FrameFieldDef, DecodedFieldDef DEF FrameError, LastByte, Buffer
  <2> QED  BY <2>2, <2>3 DEF ReadersAgree
<1> QED  BY <1>1, StreamAgrees, PTL

\* However long the stream is and however it is cut, the client hands over the messages
\* in their order and gives up only for a packet that it is to refuse.
THEOREM MessagesAsSent == Spec => []InOrder
<1>1. StreamInv => InOrder
  <2> SUFFICES ASSUME StreamInv PROVE InOrder  OBVIOUS
  <2>1. /\ rx \in Buffer /\ net \in Buffer /\ got \in Seq(PublishMessage)
        /\ sent \in Seq(PublishMessage) /\ refused \in BOOLEAN /\ failed \in BOOLEAN
    BY DEF StreamInv, TypeInv
  <2>2. Len(got) <= Len(sent) /\ \A i \in 1..Len(got) : got[i] = sent[i]  BY DEF StreamInv
  <2>3. IsPrefix(got, sent)
    <3> DEFINE n == Len(got)
               a == SubSeq(got, 1, n)
               b == SubSeq(sent, 1, n)
    <3>1. n \in 0..Len(got) /\ n \in 0..Len(sent)  BY <2>1, <2>2
    <3> HIDE DEF n
    <3>2. a \in Seq(PublishMessage) /\ Len(a) = n /\ \A i \in 1..n : a[i] = got[i]
      BY <2>1, <3>1, CutAt, Zenon
    <3>3. b \in Seq(PublishMessage) /\ Len(b) = n /\ \A i \in 1..n : b[i] = sent[i]
      BY <2>1, <3>1, CutAt, Zenon
    <3> HIDE DEF a, b
    <3>4. \A i \in 1..n : a[i] = b[i]  BY <2>2, <3>2, <3>3 DEF n
    <3>5. a = b  BY <3>2, <3>3, <3>4, SeqEqual
    <3> QED  BY <2>2, <3>5 DEF IsPrefix, a, b, n
  <2>4. failed => refused  BY DEF StreamInv
  <2>5. ASSUME net = <<>>, ~Processing
        PROVE  failed = refused /\ rx = <<>> /\ \A i \in 1..Len(sent) : i <= Len(got) <=> sent[i].qos = 0
    <3>1. CASE failed  BY <2>1, <3>1 DEF StreamInv
    <3>2. CASE ~failed
      <4>1. PICK n, packet, rest, k :
              /\ InPackets(Cat(rx, net), n, packet, rest)
              /\ Counts(n, packet, k, Len(got), sent, refused)
        BY <3>2, Zenon DEF StreamInv
      <4>2. n \in Nat /\ (rx # <<>> => n > 0)  BY <3>2, <4>1, FrontOfStream, Zenon
      <4>3. ASSUME n > 0 PROVE FALSE
        <5> DEFINE p == packet[1]
                   t == rest[1]
        <5>1. p \in Buffer /\ t \in Buffer /\ Cat(p, t) = Cat(rx, net) /\ (~Bad(p) => Good(p))
          BY <3>2, <4>1, <4>3, FrontOfStream, Zenon
        <5> HIDE DEF p, t
        <5>2. Complete(p) \/ FrameError(p)  BY <5>1 DEF Bad, Refused, Good
        <5>3. Complete(rx) \/ FrameError(rx)
          BY <2>1, <2>5, <5>1, <5>2, SameFront, SameError
        <5> QED  BY <2>5, <3>2, <5>3 DEF Processing
      <4>4. n = 0 /\ rx = <<>>  BY <4>2, <4>3
      <4>5. ~refused /\ k[n] = Len(got)  BY <4>1, <4>4 DEF Counts
      <4>6. \A i \in 1..Len(sent) : i <= k[n] <=> sent[i].qos = 0  BY <4>1 DEF Counts
      <4> QED  BY <2>1, <3>2, <4>4, <4>5, <4>6
    <3> QED  BY <3>1, <3>2
  <2> QED  BY <2>3, <2>4, <2>5 DEF InOrder
<1> QED  BY <1>1, StreamAgrees, PTL

----------------------------------------------------------------------------
(* Single packets.                                                         *)

Written == {m \in ControlPacket : Encodable(m) /\ Len(MessageBody(m)) <= MaxBody}

SinglesInv == sent \in Seq(Written) /\ sample \in Seq(Written) /\ wire \in Seq(Wires)

LEMMA NextSingles == SinglesInv /\ [Next]_vars => SinglesInv'
<1> SUFFICES ASSUME SinglesInv, [Next]_vars PROVE SinglesInv'  OBVIOUS
<1>1. sent \in Seq(Written) /\ sample \in Seq(Written) /\ wire \in Seq(Wires)
  BY DEF SinglesInv
<1>2. ASSUME NEW S, NEW x \in S PROVE <<x>> \in Seq(S)  OBVIOUS
<1>3. CASE Encode
  <2>1. PICK m \in Samples : sample' = <<m>> /\ UNCHANGED <<stream, wire>>
    BY <1>3, Zenon DEF Encode
  <2>2. m \in Written  BY ConstantsAssumption, Zenon DEF ConstantsAssumption, Written
  <2>3. sample' \in Seq(Written)  BY <1>2, <2>1, <2>2, Zenon
  <2> QED  BY <1>1, <2>1, <2>3, Zenon DEF SinglesInv, stream
<1>4. CASE Parse
  <2>1. PICK b \in Wires : wire' = <<b>> /\ UNCHANGED <<stream, sample>>
    BY <1>4, Zenon DEF Parse
  <2>2. wire' \in Seq(Wires)  BY <1>2, <2>1, Zenon
  <2> QED  BY <1>1, <2>1, <2>2, Zenon DEF SinglesInv, stream
<1>5. CASE SendMessage
  <2>1. PICK m \in Messages :
          /\ Encodable(m) /\ Len(PublishBody(m)) <= MaxBody /\ sent' = Append(sent, m)
    BY <1>5, Zenon DEF SendMessage
  <2>2. m \in PublishMessage  BY ConstantsAssumption, Zenon DEF ConstantsAssumption
  <2>3. m \in ControlPacket /\ m.type = PUBLISH  BY <2>2 DEF ControlPacket, PublishMessage
  <2>4. MessageBody(m) = PublishBody(m)  BY <2>3, BodiesApart
  <2>5. m \in Written  BY <2>1, <2>3, <2>4, Zenon DEF Written
  <2>6. sent' \in Seq(Written)  BY <1>1, <2>1, <2>5, AppendProperties, Zenon
  <2>7. sample' = sample /\ wire' = wire  BY <1>5 DEF SendMessage
  <2> QED  BY <1>1, <2>6, <2>7, Zenon DEF SinglesInv
<1>6. CASE SendControl \/ SendBroken \/ Read \/ ProcessPacket \/ ProcessFails \/ UNCHANGED vars
  <2>1. sent' = sent /\ sample' = sample /\ wire' = wire
    BY <1>6, Zenon DEF SendControl, SendBroken, Read, ProcessPacket, ProcessFails, vars, stream
  <2> QED  BY <1>1, <2>1, Zenon DEF SinglesInv
<1> QED  BY <1>3, <1>4, <1>5, <1>6, Zenon DEF Next

\* What was encoded, sent or parsed is of the given kind (MqttEncoder, MqttParser).
THEOREM SinglesTyped == Spec => []SinglesInv
<1>1. Init => SinglesInv
  <2>1. ASSUME NEW S PROVE <<>> \in Seq(S)  OBVIOUS
  <2> QED  BY <2>1, Zenon DEF Init, SinglesInv
<1> QED  BY <1>1, NextSingles, PTL DEF Spec

\* Whatever the message, of whatever type, MqttParser reads it as MqttEncoder was given
\* it: no field is lost, mixed up with another or read from the bytes of its neighbour.
\* Its strings are those whose length write_string can write, in two bytes.
THEOREM EveryMessageReadBack == Spec => []RoundTrip
<1>1. SinglesInv => RoundTrip
  <2> SUFFICES ASSUME SinglesInv, NEW m \in ToSet(sent) \cup ToSet(sample)
               PROVE  Parsed(Encoded(m)) = {m}
    BY Zenon DEF RoundTrip
  <2>1. ASSUME NEW S, NEW s \in Seq(S) PROVE ToSet(s) \subseteq S  BY DEF ToSet
  <2>2. m \in Written  BY <2>1, Zenon DEF SinglesInv
  <2> QED  BY <2>2, EncodedRead, Zenon DEF Written
<1> QED  BY <1>1, SinglesTyped, PTL

\* MqttParser takes no liberties: whatever the bytes, a message it accepts is one that
\* MqttEncoder writes, and is written as these bytes.  A body of bytes needs a Half that
\* is not below the 128 of the code: with less, two bytes are not one number.
THEOREM EveryPacketWrittenBack == Half >= 128 => (Spec => []Canonical)
<1> SUFFICES ASSUME Half >= 128 PROVE Spec => []Canonical  OBVIOUS
<1>1. SinglesInv => Canonical
  <2> SUFFICES ASSUME SinglesInv, NEW b \in ToSet(wire), NEW m \in Parsed(b)
               PROVE  /\ Encodable(m)
                      /\ DecodedField(b) = Len(RemainingLength(Value(b, DecodedField(b)))) =>
                           IsPrefix(Encoded(m), b)
    BY Zenon DEF Canonical
  <2>1. ASSUME NEW S, NEW s \in Seq(S) PROVE ToSet(s) \subseteq S  BY DEF ToSet
  <2>2. b \in Wires  BY <2>1, Zenon DEF SinglesInv
  <2>3. b \in Bytes  BY <2>2, ConstantsAssumption, Zenon DEF ConstantsAssumption, Bytes
  <2> QED  BY <2>3, PacketWritten, Zenon
<1> QED  BY <1>1, SinglesTyped, PTL
=============================================================================
