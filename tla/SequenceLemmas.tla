---------------------------- MODULE SequenceLemmas ----------------------------
(***************************************************************************)
(* Facts about sequences: induction over their length and loops that run   *)
(* over them, then the queues of the listeners, sequences without          *)
(* repetitions that grow at the end and are taken off at the front.        *)
(*                                                                         *)
(* Induction is over a set here, and not over a predicate: SetInduction    *)
(* can be used with every prover.                                          *)
(***************************************************************************)
EXTENDS Integers, SequencesExt, SequenceTheorems, WellFoundedInduction, TLAPS

LEMMA LeastElement ==
  ASSUME NEW S \in SUBSET Nat, S # {}
  PROVE  \E x \in S : \A y \in S : x <= y
<1>1. IsWellFoundedOn(OpToRel(<, Nat), Nat)  BY NatLessThanWellFounded
<1>2. PICK x \in S : \A y \in S : <<y, x>> \notin OpToRel(<, Nat)
  BY <1>1, WFMin, Zenon
<1>3. \A y \in S : ~(y < x)  BY <1>2 DEF OpToRel
<1> QED  BY <1>3

LEMMA SetInduction ==
  ASSUME NEW S, 0 \in S, \A n \in Nat : n \in S => n + 1 \in S
  PROVE  Nat \subseteq S
<1> SUFFICES ASSUME Nat \ S # {} PROVE FALSE  OBVIOUS
<1>1. PICK x \in Nat \ S : \A y \in Nat \ S : x <= y  BY LeastElement
<1>2. x - 1 \in Nat /\ x - 1 \in S  BY <1>1
<1>3. (x - 1) + 1 \in S  BY <1>2
<1> QED  BY <1>1, <1>3


\* The values of a loop of n rounds that starts with v.
Loop(f, n, v, round) == f[0] = v /\ \A i \in 1..n : f[i] = round[i][f[i - 1]]
Rounds(n, V) == [1..n -> [V -> V]]

\* Every loop has its values.
LEMMA FoldExists ==
  ASSUME NEW n, n \in Nat, NEW V, NEW v, v \in V, NEW round, round \in Rounds(n, V)
  PROVE  \E f : f \in [0..n -> V] /\ Loop(f, n, v, round)
<1> USE DEF Loop, Rounds
<1> DEFINE P(f, k) == Loop(f, k, v, round)
           S == {k \in Nat : k <= n => \E f \in [0..k -> V] : P(f, k)}
<1>1. 0 \in S
  <2>1. P([i \in 0..0 |-> v], 0)  OBVIOUS
  <2>2. [i \in 0..0 |-> v] \in [0..0 -> V] OBVIOUS
  <2> QED  BY <2>1, <2>2
<1>2. ASSUME NEW k \in Nat, k \in S PROVE k + 1 \in S
  <2> SUFFICES ASSUME k + 1 <= n PROVE \E f \in [0..(k + 1) -> V] : P(f, k + 1)
    OBVIOUS
  <2>1. PICK f \in [0..k -> V] : P(f, k)  BY <1>2
  <2> DEFINE g == [i \in 0..(k + 1) |-> IF i = k + 1 THEN round[k + 1][f[k]] ELSE f[i]]
  <2>2. f[k] \in V /\ k + 1 \in 1..n  BY <2>1
  <2>3. round[k + 1][f[k]] \in V  BY <2>2
  <2>4. g \in [0..(k + 1) -> V]  BY <2>1, <2>3
  <2>5. P(g, k + 1)
    <3>1. g[k + 1] = round[k + 1][f[k]] /\ \A i \in 0..k : g[i] = f[i]  OBVIOUS
    <3> HIDE DEF g
    <3>2. \A i \in 1..(k + 1) : i = k + 1 \/ i \in 1..k  OBVIOUS
    <3> QED  BY <2>1, <3>1, <3>2
  <2> QED  BY <2>4, <2>5
<1>3. n \in S
  <2> HIDE DEF S
  <2> QED  BY <1>1, <1>2, SetInduction
<1> QED  BY <1>3

\* Loops that start with the same value and do the same in each round.
SameRounds(f, g, n) ==
  f[0] = g[0] /\ \A i \in 1..n : f[i - 1] = g[i - 1] => f[i] = g[i]

LEMMA FoldsAgree ==
  ASSUME NEW n, n \in Nat, NEW f, NEW g, SameRounds(f, g, n)
  PROVE  \A i \in 0..n : f[i] = g[i]
<1> USE DEF SameRounds
<1> DEFINE S == {k \in Nat : k <= n => f[k] = g[k]}
<1>1. 0 \in S  OBVIOUS
<1>2. ASSUME NEW k \in Nat, k \in S PROVE k + 1 \in S
  <2>1. k + 1 <= n => k + 1 \in 1..n /\ (k + 1) - 1 = k  OBVIOUS
  <2> QED BY <1>2, <2>1
<1>3. Nat \subseteq S
  <2> HIDE DEF S
  <2> QED  BY <1>1, <1>2, SetInduction
<1> QED  BY <1>3

\* The same as one formula.
Agree(f, g, n) == \A i \in 0..n : f[i] = g[i]

LEMMA AllFoldsAgree ==
  \A n, f, g : n \in Nat /\ SameRounds(f, g, n) => Agree(f, g, n)
<1> TAKE n, f, g
<1> SUFFICES ASSUME n \in Nat, SameRounds(f, g, n) PROVE Agree(f, g, n)
  OBVIOUS
<1> QED  BY FoldsAgree DEF Agree

----------------------------------------------------------------------------
(* Queues.                                                                 *)

\* The elements of a queue are its entries.
LEMMA SetOfSeq ==
  ASSUME NEW S, NEW s \in Seq(S)
  PROVE  \A e : e \in ToSet(s) <=> \E i \in 1..Len(s) : s[i] = e
  BY DEF ToSet

\* Taking the front off a queue without repetitions removes just that element.
LEMMA SetOfTail ==
  ASSUME NEW S, NEW s \in Seq(S), s # <<>>,
         \A i, j \in 1..Len(s) : s[i] = s[j] => i = j
  PROVE  /\ ToSet(Tail(s)) = ToSet(s) \ {Head(s)}
         /\ \A i, j \in 1..Len(Tail(s)) : Tail(s)[i] = Tail(s)[j] => i = j
<1>1. /\ Tail(s) \in Seq(S) /\ Len(Tail(s)) = Len(s) - 1 /\ Len(s) \in Nat \ {0}
      /\ \A i \in 1..Len(Tail(s)) : Tail(s)[i] = s[i + 1]
      /\ Head(s) = s[1]
  OBVIOUS
<1>2. ASSUME NEW e PROVE e \in ToSet(Tail(s)) <=> e \in ToSet(s) \ {Head(s)}
  <2>1. ASSUME e \in ToSet(Tail(s)) PROVE e \in ToSet(s) \ {Head(s)}
    <3>1. PICK i \in 1..Len(Tail(s)) : Tail(s)[i] = e
      BY <1>1, <2>1 DEF ToSet
    <3>2. i + 1 \in 1..Len(s) /\ s[i + 1] = e /\ 1 \in 1..Len(s)  BY <1>1, <3>1
    <3>3. s[i + 1] # s[1]  BY <1>1, <3>1, <3>2
    <3> QED  BY <1>1, <3>2, <3>3, SetOfSeq
  <2>2. ASSUME e \in ToSet(s) \ {Head(s)} PROVE e \in ToSet(Tail(s))
    <3>1. PICK i \in 1..Len(s) : s[i] = e  BY <2>2, SetOfSeq
    <3>2. i # 1  BY <1>1, <2>2, <3>1
    <3>3. i - 1 \in 1..Len(Tail(s)) /\ Tail(s)[i - 1] = e  BY <1>1, <3>1, <3>2
    <3> QED  BY <1>1, <3>3, SetOfSeq
  <2> QED  BY <2>1, <2>2
<1>3. ASSUME NEW i \in 1..Len(Tail(s)), NEW j \in 1..Len(Tail(s)), Tail(s)[i] = Tail(s)[j]
      PROVE  i = j
  BY <1>1, <1>3
<1> QED  BY <1>2, <1>3

\* Putting a new element at the end of a queue adds just that element.
LEMMA SetOfAppend ==
  ASSUME NEW S, NEW s \in Seq(S), NEW x \in S, x \notin ToSet(s),
         \A i, j \in 1..Len(s) : s[i] = s[j] => i = j
  PROVE  /\ ToSet(Append(s, x)) = ToSet(s) \cup {x}
         /\ \A i, j \in 1..Len(Append(s, x)) : Append(s, x)[i] = Append(s, x)[j] => i = j
<1>1. /\ Append(s, x) \in Seq(S) /\ Len(Append(s, x)) = Len(s) + 1 /\ Len(s) \in Nat
      /\ \A i \in 1..Len(s) : Append(s, x)[i] = s[i]
      /\ Append(s, x)[Len(s) + 1] = x
  BY AppendProperties
<1>2. \A i \in 1..Len(s) : s[i] # x  BY SetOfSeq
<1>3. ASSUME NEW e PROVE e \in ToSet(Append(s, x)) <=> e \in ToSet(s) \cup {x}
  <2>1. ASSUME e \in ToSet(Append(s, x)) PROVE e \in ToSet(s) \cup {x}
    <3>1. PICK i \in 1..Len(Append(s, x)) : Append(s, x)[i] = e
      BY <1>1, <2>1 DEF ToSet
    <3> QED  BY <1>1, <3>1, SetOfSeq
  <2>2. ASSUME e \in ToSet(s) PROVE e \in ToSet(Append(s, x))
    <3>1. PICK i \in 1..Len(s) : s[i] = e  BY <2>2, SetOfSeq
    <3>2. i \in 1..Len(Append(s, x)) /\ Append(s, x)[i] = e  BY <1>1, <3>1
    <3> QED  BY <1>1, <3>2, SetOfSeq
  <2>3. x \in ToSet(Append(s, x))
    <3>1. Len(s) + 1 \in 1..Len(Append(s, x))  BY <1>1
    <3> QED  BY <1>1, <3>1, SetOfSeq
  <2> QED  BY <2>1, <2>2, <2>3
<1>4. ASSUME NEW i \in 1..Len(Append(s, x)), NEW j \in 1..Len(Append(s, x)),
             Append(s, x)[i] = Append(s, x)[j]
      PROVE  i = j
  BY <1>1, <1>2, <1>4
<1> QED  BY <1>3, <1>4

\* The two halves of the queue's life: the end grows, the front is handed over.
LEMMA GrowEnd ==
  ASSUME NEW S, NEW h \in Seq(S), NEW p \in Seq(S), NEW x \in S
  PROVE  h \o Append(p, x) = Append(h \o p, x)
<1>1. /\ h \o p \in Seq(S) /\ Len(h \o p) = Len(h) + Len(p)
      /\ Append(p, x) \in Seq(S) /\ Append(h \o p, x) \in Seq(S)
  BY AppendProperties, ConcatProperties
<1>2. h \o Append(p, x) \in Seq(S) /\ Len(h \o Append(p, x)) = Len(Append(h \o p, x))
  BY <1>1
<1>3. \A i \in 1..Len(Append(h \o p, x)) : (h \o Append(p, x))[i] = Append(h \o p, x)[i]
  BY <1>1
<1> QED  BY <1>1, <1>2, <1>3, SeqEqual

LEMMA ShiftFront ==
  ASSUME NEW S, NEW h \in Seq(S), NEW p \in Seq(S), p # <<>>
  PROVE  Append(h, Head(p)) \o Tail(p) = h \o p
<1>1. /\ Head(p) \in S /\ Tail(p) \in Seq(S) /\ Len(Tail(p)) = Len(p) - 1
      /\ \A i \in 1..Len(Tail(p)) : Tail(p)[i] = p[i + 1]
      /\ Head(p) = p[1]
  BY HeadTailProperties
<1>2. /\ Append(h, Head(p)) \in Seq(S) /\ Len(Append(h, Head(p))) = Len(h) + 1
  BY <1>1, AppendProperties
<1>3. /\ Append(h, Head(p)) \o Tail(p) \in Seq(S) /\ h \o p \in Seq(S)
      /\ Len(Append(h, Head(p)) \o Tail(p)) = Len(h) + Len(p)
      /\ Len(h \o p) = Len(h) + Len(p)
  BY <1>1, <1>2
<1>4. \A i \in 1..(Len(h) + Len(p)) :
        (Append(h, Head(p)) \o Tail(p))[i] = (h \o p)[i]
  BY <1>1, <1>2, <1>3
<1> QED  BY <1>3, <1>4, SeqEqual

----------------------------------------------------------------------------
(* Pieces.                                                                 *)

\* A sequence is what comes up to some place and what comes behind it.
LEMMA CutAt ==
  ASSUME NEW S, NEW s \in Seq(S), NEW n \in 0..Len(s)
  PROVE  /\ SubSeq(s, 1, n) \in Seq(S) /\ Len(SubSeq(s, 1, n)) = n
         /\ \A i \in 1..n : SubSeq(s, 1, n)[i] = s[i]
         /\ SubSeq(s, n + 1, Len(s)) \in Seq(S) /\ Len(SubSeq(s, n + 1, Len(s))) = Len(s) - n
         /\ \A i \in 1..(Len(s) - n) : SubSeq(s, n + 1, Len(s))[i] = s[n + i]
         /\ SubSeq(s, 1, n) \o SubSeq(s, n + 1, Len(s)) = s
<1> DEFINE a == SubSeq(s, 1, n)
           b == SubSeq(s, n + 1, Len(s))
<1>1. a \in Seq(S) /\ Len(a) = n /\ \A i \in 1..n : a[i] = s[i]
  <2>1. \A i \in 1..n : s[i] \in S  OBVIOUS
  <2> QED  BY <2>1, SubSeqProperties
<1>2. b \in Seq(S) /\ Len(b) = Len(s) - n /\ \A i \in 1..(Len(s) - n) : b[i] = s[n + i]
  <2>1. \A i \in (n + 1)..Len(s) : s[i] \in S  OBVIOUS
  <2> QED  BY <2>1, SubSeqProperties
<1> HIDE DEF a, b
<1>3. a \o b \in Seq(S) /\ Len(a \o b) = Len(s)  BY <1>1, <1>2, SMTT(20)
<1>4. \A i \in 1..Len(s) : (a \o b)[i] = s[i]
  <2> TAKE i \in 1..Len(s)
  <2>1. CASE i <= n  BY <1>1, <1>2, <2>1, SMTT(20)
  <2>2. CASE i > n
    <3>1. (a \o b)[i] = b[i - n]  BY <1>1, <1>2, <2>2
    <3>2. i - n \in 1..(Len(s) - n) /\ n + (i - n) = i  BY <2>2
    <3> QED  BY <1>2, <3>1, <3>2
  <2>3. i <= n \/ i > n  OBVIOUS
  <2> QED  BY <2>1, <2>2, <2>3, Zenon
<1>5. a \o b = s  BY <1>3, <1>4, SeqEqual
<1> QED  BY <1>1, <1>2, <1>5 DEF a, b

\* Concatenation by a name of its own: the provers take \o apart wherever they see it.
Cat(s, t) == s \o t

\* u is s and t in a row.
Joined(u, s, t) ==
  /\ Len(u) = Len(s) + Len(t) /\ Len(s) \in Nat /\ Len(t) \in Nat
  /\ \A i \in 1..Len(s) : u[i] = s[i]
  /\ \A i \in 1..Len(t) : u[Len(s) + i] = t[i]

LEMMA CatAt ==
  ASSUME NEW S, NEW s \in Seq(S), NEW t \in Seq(S)
  PROVE  Cat(s, t) \in Seq(S) /\ Joined(Cat(s, t), s, t)
<1> USE DEF Cat
<1>1. Cat(s, t) \in Seq(S) /\ Len(Cat(s, t)) = Len(s) + Len(t)  OBVIOUS
<1>2. Len(s) \in Nat /\ Len(t) \in Nat  OBVIOUS
<1>3. \A i \in 1..Len(s) : Cat(s, t)[i] = s[i]  OBVIOUS
<1>4. \A i \in 1..Len(t) : Cat(s, t)[Len(s) + i] = t[i]  OBVIOUS
<1> HIDE DEF Cat
<1> QED  BY <1>1, <1>2, <1>3, <1>4, Zenon DEF Joined

\* Two sequences in a row, cut where the first one ends.
LEMMA CutCat ==
  ASSUME NEW S, NEW s \in Seq(S), NEW t \in Seq(S)
  PROVE  /\ SubSeq(Cat(s, t), 1, Len(s)) = s
         /\ SubSeq(Cat(s, t), Len(s) + 1, Len(Cat(s, t))) = t
<1> DEFINE n == Len(s)
           u == Cat(s, t)
           a == SubSeq(u, 1, n)
           b == SubSeq(u, n + 1, Len(u))
<1>1. u \in Seq(S) /\ Joined(u, s, t)  BY CatAt
<1> HIDE DEF u
<1>2. n \in 0..Len(u) /\ Len(u) - n = Len(t) /\ n \in Nat /\ Len(t) \in Nat  BY <1>1 DEF Joined
<1>3. /\ a \in Seq(S) /\ Len(a) = n /\ \A i \in 1..n : a[i] = u[i]
      /\ b \in Seq(S) /\ Len(b) = Len(u) - n /\ \A i \in 1..(Len(u) - n) : b[i] = u[n + i]
  <2> HIDE DEF n, a, b
  <2> QED  BY <1>1, <1>2, CutAt, Zenon DEF a, b
<1> HIDE DEF a, b
<1>4. \A i \in 1..n : a[i] = s[i]  BY <1>1, <1>3 DEF Joined
<1>5. \A i \in 1..Len(t) : b[i] = t[i]  BY <1>1, <1>2, <1>3 DEF Joined
<1>6. a = s  BY <1>3, <1>4, SeqEqual
<1>7. b = t  BY <1>2, <1>3, <1>5, SeqEqual
<1> QED  BY <1>6, <1>7 DEF a, b, u

LEMMA CatAssociative ==
  ASSUME NEW S, NEW r \in Seq(S), NEW s \in Seq(S), NEW t \in Seq(S)
  PROVE  Cat(Cat(r, s), t) = Cat(r, Cat(s, t))
BY ConcatAssociative DEF Cat

\* Moving a piece to the sequence in front changes nothing of the whole.
LEMMA CatCut ==
  ASSUME NEW S, NEW r \in Seq(S), NEW s \in Seq(S), NEW n \in 0..Len(s)
  PROVE  Cat(Cat(r, SubSeq(s, 1, n)), SubSeq(s, n + 1, Len(s))) = Cat(r, s)
<1> DEFINE a == SubSeq(s, 1, n)
           b == SubSeq(s, n + 1, Len(s))
<1>1. a \in Seq(S) /\ b \in Seq(S) /\ Cat(a, b) = s  BY CutAt, Zenon DEF Cat
<1> HIDE DEF a, b
<1>2. Cat(Cat(r, a), b) = Cat(r, Cat(a, b))  BY <1>1, CatAssociative
<1>3. Cat(Cat(r, a), b) = Cat(r, s)  BY <1>1, <1>2
<1> QED  BY <1>3 DEF a, b

\* What is behind some place stays there when more comes in at the end.
LEMMA CutConcat ==
  ASSUME NEW S, NEW s \in Seq(S), NEW t \in Seq(S), NEW n \in 0..Len(s)
  PROVE  SubSeq(s \o t, n + 1, Len(s \o t)) = SubSeq(s, n + 1, Len(s)) \o t
<1> DEFINE a == SubSeq(s \o t, n + 1, Len(s \o t))
           b == SubSeq(s, n + 1, Len(s))
<1>1. s \o t \in Seq(S) /\ Len(s \o t) = Len(s) + Len(t)  OBVIOUS
<1>2. a \in Seq(S) /\ Len(a) = Len(s) + Len(t) - n
      /\ \A i \in 1..Len(a) : a[i] = (s \o t)[n + i]
  <2>1. \A i \in (n + 1)..Len(s \o t) : (s \o t)[i] \in S  OBVIOUS
  <2> QED  BY <1>1, <2>1, SubSeqProperties
<1>3. b \in Seq(S) /\ Len(b) = Len(s) - n /\ \A i \in 1..Len(b) : b[i] = s[n + i]
  <2>1. \A i \in (n + 1)..Len(s) : s[i] \in S  OBVIOUS
  <2> QED  BY <2>1, SubSeqProperties
<1> HIDE DEF a, b
<1>4. b \o t \in Seq(S) /\ Len(b \o t) = Len(a)
  <2>1. b \o t \in Seq(S) /\ Len(b \o t) = Len(b) + Len(t)  BY <1>3, ConcatProperties
  <2>2. Len(s) \in Nat /\ Len(t) \in Nat /\ n \in Nat  OBVIOUS
  <2> QED  BY <1>2, <1>3, <2>1, <2>2
<1>5. \A i \in 1..Len(a) : a[i] = (b \o t)[i]
  <2> TAKE i \in 1..Len(a)
  <2>1. a[i] = (s \o t)[n + i] /\ n + i \in 1..(Len(s) + Len(t))  BY <1>2
  <2>2. CASE i <= Len(b)
    <3>1. (s \o t)[n + i] = s[n + i]  BY <1>3, <2>1, <2>2
    <3>2. (b \o t)[i] = s[n + i]  BY <1>3, <2>2
    <3> QED  BY <2>1, <3>1, <3>2
  <2>3. CASE i > Len(b)
    <3>1. (s \o t)[n + i] = t[n + i - Len(s)]  BY <1>3, <2>1, <2>3
    <3>2. (b \o t)[i] = t[i - Len(b)]  BY <1>2, <1>3, <2>3
    <3> QED  BY <1>3, <2>1, <3>1, <3>2
  <2>4. i <= Len(b) \/ i > Len(b)  BY <1>2, <1>3
  <2> QED  BY <2>2, <2>3, <2>4, Zenon
<1>6. a = b \o t  BY <1>2, <1>4, <1>5, SeqEqual
<1> QED  BY <1>6 DEF a, b

\* An element goes from the front of one sequence to the end of another.
LEMMA ShiftBack ==
  ASSUME NEW S, NEW h \in Seq(S), NEW x \in S, NEW p \in Seq(S)
  PROVE  Append(h, x) \o p = h \o (<<x>> \o p)
<1>1. Append(h, x) = h \o <<x>>  OBVIOUS
<1>2. (h \o <<x>>) \o p = h \o (<<x>> \o p)  OBVIOUS
<1> QED  BY <1>1, <1>2

\* The numbers behind a, up to b.
Numbers(a, b) == [i \in 1..(b - a) |-> a + i]

LEMMA NumbersGrow ==
  ASSUME NEW a \in Nat, NEW b \in Nat, a <= b
  PROVE  /\ Numbers(a, b) \in Seq(Nat) /\ Append(Numbers(a, b), b + 1) = Numbers(a, b + 1)
         /\ Numbers(a, a) = <<>>
<1> USE DEF Numbers
<1>1. Numbers(a, b) \in Seq(Nat) /\ Len(Numbers(a, b)) = b - a  OBVIOUS
<1>2. Numbers(a, b + 1) \in Seq(Nat) /\ Len(Numbers(a, b + 1)) = b + 1 - a  OBVIOUS
<1>3. /\ Append(Numbers(a, b), b + 1) \in Seq(Nat)
      /\ Len(Append(Numbers(a, b), b + 1)) = b + 1 - a
  BY <1>1, AppendProperties
<1>4. \A i \in 1..(b + 1 - a) : Append(Numbers(a, b), b + 1)[i] = Numbers(a, b + 1)[i]
  BY <1>1, AppendProperties
<1>5. Append(Numbers(a, b), b + 1) = Numbers(a, b + 1)  BY <1>2, <1>3, <1>4, SeqEqual
<1>6. Numbers(a, a) = <<>>
  <2>1. Numbers(a, a) \in Seq(Nat) /\ Len(Numbers(a, a)) = 0  OBVIOUS
  <2> HIDE DEF Numbers
  <2> QED  BY <2>1, EmptySeq
<1> QED  BY <1>1, <1>5, <1>6

LEMMA NumbersShrink ==
  ASSUME NEW a \in Nat, NEW b \in Nat, NEW x \in Nat, NEW s \in Seq(Nat), a <= b,
         <<x>> \o s = Numbers(a, b)
  PROVE  a < b /\ x = a + 1 /\ s = Numbers(a + 1, b)
<1>1. Len(Numbers(a, b)) = b - a  BY DEF Numbers
<1>2. <<x>> \o s \in Seq(Nat) /\ Len(<<x>> \o s) = 1 + Len(s)  OBVIOUS
<1>3. a < b /\ Len(s) = b - (a + 1)
  <2>1. Len(<<x>> \o s) = b - a  BY <1>1
  <2>2. 1 + Len(s) = b - a /\ Len(s) \in Nat  BY <1>2, <2>1
  <2> QED  BY <2>2
<1>4. (<<x>> \o s)[1] = x /\ \A i \in 1..Len(s) : (<<x>> \o s)[i + 1] = s[i]  OBVIOUS
<1>5. \A i \in 1..(b - a) : Numbers(a, b)[i] = a + i  BY DEF Numbers
<1>6. Numbers(a + 1, b) \in Seq(Nat) /\ Len(Numbers(a + 1, b)) = b - (a + 1)
      /\ \A i \in 1..(b - (a + 1)) : Numbers(a + 1, b)[i] = (a + 1) + i
  BY <1>3 DEF Numbers
<1>7. x = a + 1  BY <1>3, <1>4, <1>5
<1>8. \A i \in 1..Len(s) : s[i] = Numbers(a + 1, b)[i]
  <2> TAKE i \in 1..Len(s)
  <2>1. s[i] = Numbers(a, b)[i + 1]  BY <1>4
  <2>2. i + 1 \in 1..(b - a)  BY <1>3
  <2>3. Numbers(a, b)[i + 1] = a + (i + 1)  BY <1>5, <2>2
  <2> QED  BY <1>3, <1>6, <2>1, <2>3
<1>9. s = Numbers(a + 1, b)  BY <1>3, <1>6, <1>8, SeqEqual
<1> QED  BY <1>3, <1>7, <1>9

----------------------------------------------------------------------------
(* Sequences in a row.                                                     *)

\* The middle one of three pieces.
LEMMA CutMiddle ==
  ASSUME NEW S, NEW r \in Seq(S), NEW s \in Seq(S), NEW t \in Seq(S)
  PROVE  SubSeq(Cat(Cat(r, s), t), Len(r) + 1, Len(r) + Len(s)) = s
<1> DEFINE a == Cat(r, s)
           u == Cat(a, t)
           c == SubSeq(u, Len(r) + 1, Len(r) + Len(s))
<1>1. a \in Seq(S) /\ Joined(a, r, s)  BY CatAt
<1> HIDE DEF a
<1>2. u \in Seq(S) /\ Joined(u, a, t)  BY <1>1, CatAt
<1> HIDE DEF u
<1>3. /\ Len(r) \in Nat /\ Len(s) \in Nat /\ Len(t) \in Nat /\ Len(a) = Len(r) + Len(s)
      /\ Len(u) = Len(a) + Len(t)
      /\ \A i \in 1..Len(s) : a[Len(r) + i] = s[i]
      /\ \A i \in 1..Len(a) : u[i] = a[i]
  BY <1>1, <1>2 DEF Joined
<1>4. \A i \in 1..Len(s) : u[Len(r) + i] = s[i]
  <2> TAKE i \in 1..Len(s)
  <2>1. Len(r) + i \in 1..Len(a)  BY <1>3
  <2> QED  BY <1>3, <2>1
<1>5. c \in Seq(S) /\ Len(c) = Len(s) /\ \A i \in 1..Len(s) : c[i] = u[Len(r) + i]
  <2> DEFINE m == Len(r) + 1
             n == Len(r) + Len(s)
  <2>1. m \in Int /\ n \in Int /\ n - m + 1 = Len(s) /\ (m <= n \/ Len(s) = 0)
        /\ \A i \in 1..Len(s) : m + i - 1 = Len(r) + i
    BY <1>3
  <2>2. \A i \in m..n : u[i] \in S
    <3>1. \A i \in m..n : i \in 1..Len(u)  BY <1>3
    <3> QED  BY <1>2, <3>1
  <2> HIDE DEF m, n
  <2> DEFINE d == SubSeq(u, m, n)
  <2>3. /\ d \in Seq(S) /\ Len(d) = IF m <= n THEN n - m + 1 ELSE 0
        /\ \A i \in 1..(n - m + 1) : d[i] = u[m + i - 1]
    BY <2>1, <2>2, SubSeqProperties
  <2> HIDE DEF d
  <2>4. d \in Seq(S) /\ Len(d) = Len(s) /\ \A i \in 1..Len(s) : d[i] = u[Len(r) + i]
    BY <2>1, <2>3
  <2> QED  BY <2>4 DEF d, m, n
<1> HIDE DEF c
<1>6. c = s  BY <1>4, <1>5, SeqEqual
<1> QED  BY <1>6 DEF c, u, a

\* A sequence that is not empty is one with a last element.
LEMMA LastOff ==
  ASSUME NEW S, NEW n \in Nat, NEW s \in Seq(S), Len(s) = n + 1
  PROVE  /\ SubSeq(s, 1, n) \in Seq(S) /\ Len(SubSeq(s, 1, n)) = n /\ s[n + 1] \in S
         /\ s = Append(SubSeq(s, 1, n), s[n + 1])
<1> DEFINE a == SubSeq(s, 1, n)
<1>1. a \in Seq(S) /\ Len(a) = n /\ \A i \in 1..n : a[i] = s[i]
  <2>1. n \in 0..Len(s)  OBVIOUS
  <2> HIDE DEF a
  <2> QED  BY <2>1, CutAt, Zenon DEF a
<1> HIDE DEF a
<1>2. s[n + 1] \in S  OBVIOUS
<1>3. Append(a, s[n + 1]) \in Seq(S) /\ Len(Append(a, s[n + 1])) = n + 1
      /\ (\A i \in 1..n : Append(a, s[n + 1])[i] = a[i]) /\ Append(a, s[n + 1])[n + 1] = s[n + 1]
  BY <1>1, <1>2, AppendProperties
<1>4. \A i \in 1..(n + 1) : Append(a, s[n + 1])[i] = s[i]
  <2>1. \A i \in 1..(n + 1) : i = n + 1 \/ i \in 1..n  OBVIOUS
  <2> QED  BY <1>1, <1>3, <2>1
<1>5. s = Append(a, s[n + 1])  BY <1>3, <1>4, SeqEqual
<1> QED  BY <1>1, <1>2, <1>5 DEF a

LEMMA CatEmpty ==
  ASSUME NEW S, NEW s \in Seq(S)
  PROVE  Cat(s, <<>>) = s /\ Cat(<<>>, s) = s
BY ConcatEmptySeq DEF Cat

\* The loop of FlattenSeq.
Flattens(f, ss, n) ==
  \A i \in 1..n : f[i] = IF i = 1 THEN ss[i] ELSE Cat(f[i - 1], ss[i])

LEMMA FlattensExists ==
  ASSUME NEW S, NEW ss \in Seq(Seq(S)), ss # <<>>
  PROVE  \E f \in [1..Len(ss) -> Seq(S)] : Flattens(f, ss, Len(ss)) /\ FlattenSeq(ss) = f[Len(ss)]
<1> DEFINE n == Len(ss)
           V == Seq(S)
           round == [i \in 1..n |-> [v \in V |-> Cat(v, ss[i])]]
           Equation(f) == f = [i \in 1..n |-> IF i = 1 THEN ss[i] ELSE f[i - 1] \o ss[i]]
           chosen == CHOOSE f : Equation(f)
<1>1. n \in Nat /\ n > 0 /\ \A i \in 1..n : ss[i] \in V  OBVIOUS
<1>2. FlattenSeq(ss) = chosen[n]
  <2>1. ~(Len(ss) = 0)  BY <1>1
  <2> QED  BY <2>1, Zenon DEF FlattenSeq
<1> HIDE DEF n
<1>3. \A v \in V, i \in 1..n : Cat(v, ss[i]) \in V
  <2>1. ASSUME NEW s \in Seq(S), NEW t \in Seq(S) PROVE Cat(s, t) \in Seq(S)  BY CatAt
  <2> QED  BY <1>1, <2>1
<1>4. PICK g : g \in [0..n -> V] /\ Loop(g, n, <<>>, round)
  <2>1. round \in Rounds(n, V)
    <3> HIDE DEF V
    <3> QED  BY <1>3 DEF Rounds
  <2>2. <<>> \in V  OBVIOUS
  <2> HIDE DEF round, V
  <2> QED  BY <1>1, <2>1, <2>2, FoldExists, Zenon
<1>5. g[0] = <<>> /\ \A i \in 1..n : g[i] = Cat(g[i - 1], ss[i])
  <2>1. \A i \in 1..n : g[i - 1] \in V  BY <1>1, <1>4
  <2> HIDE DEF V
  <2> QED  BY <1>4, <2>1 DEF Loop
<1> DEFINE f == [i \in 1..n |-> g[i]]
<1>6. f \in [1..n -> V] /\ Flattens(f, ss, n)
  <2>1. Cat(<<>>, ss[1]) = ss[1] /\ 1 \in 1..n  BY <1>1, CatEmpty
  <2>2. \A i \in 1..n : g[i] \in V  BY <1>1, <1>4
  <2>3. \A i \in 1..n : i = 1 \/ i - 1 \in 1..n  BY <1>1
  <2> HIDE DEF V
  <2>4. \A i \in 1..n : f[i] = g[i]  OBVIOUS
  <2>5. f \in [1..n -> V]  BY <2>2
  <2> HIDE DEF f
  <2>6. \A i \in 1..n : f[i] = IF i = 1 THEN ss[i] ELSE Cat(f[i - 1], ss[i])
    <3> TAKE i \in 1..n
    <3>1. CASE i = 1  BY <1>5, <2>1, <2>4, <3>1
    <3>2. CASE i # 1  BY <1>5, <2>3, <2>4, <3>2
    <3> QED  BY <3>1, <3>2
  <2> QED  BY <2>5, <2>6 DEF Flattens
<1>7. Equation(f)
  <2> HIDE DEF V
  <2>1. f = [i \in 1..n |-> f[i]]  OBVIOUS
  <2> HIDE DEF f
  <2>2. \A i \in 1..n : f[i] = IF i = 1 THEN ss[i] ELSE f[i - 1] \o ss[i]
    BY <1>6 DEF Flattens, Cat
  <2> QED  BY <2>1, <2>2
<1>8. Equation(chosen)
  <2> HIDE DEF Equation, f
  <2> QED  BY <1>7, Zenon
<1>9. chosen = f
  <2> HIDE DEF chosen
  <2> DEFINE c == [i \in 0..n |-> IF i = 0 THEN <<>> ELSE chosen[i]]
  <2>1. \A i \in 1..n : chosen[i] = IF i = 1 THEN ss[i] ELSE Cat(chosen[i - 1], ss[i])
    BY <1>8 DEF Cat
  <2>2. SameRounds(g, c, n)
    <3>1. c[0] = <<>> /\ \A i \in 1..n : c[i] = chosen[i]  BY <1>1
    <3>2. Cat(<<>>, ss[1]) = ss[1] /\ 1 \in 1..n  BY <1>1, CatEmpty
    <3>3. \A i \in 1..n : i = 1 \/ (i - 1 \in 1..n /\ i # 1)  BY <1>1
    <3>4. ASSUME NEW i \in 1..n, g[i - 1] = c[i - 1] PROVE g[i] = c[i]
      <4>1. CASE i = 1  BY <1>5, <2>1, <3>1, <3>2, <4>1
      <4>2. CASE i - 1 \in 1..n /\ i # 1
        <5>1. g[i] = Cat(g[i - 1], ss[i]) /\ c[i] = Cat(chosen[i - 1], ss[i])
          BY <1>5, <2>1, <3>1, <4>2
        <5>2. c[i - 1] = chosen[i - 1]  BY <3>1, <4>2
        <5> HIDE DEF c
        <5> QED  BY <3>4, <5>1, <5>2
      <4> QED  BY <3>3, <4>1, <4>2
    <3> HIDE DEF c
    <3> QED  BY <1>5, <3>1, <3>4, Zenon DEF SameRounds
  <2>3. \A i \in 0..n : g[i] = c[i]
    <3> HIDE DEF c
    <3> QED  BY <1>1, <2>2, FoldsAgree, Zenon
  <2>4. \A i \in 1..n : chosen[i] = g[i]
    <3>1. \A i \in 1..n : i \in 0..n /\ i # 0  BY <1>1
    <3> QED  BY <2>3, <3>1
  <2>5. chosen = [i \in 1..n |-> chosen[i]]
    <3>1. chosen = [i \in 1..n |-> IF i = 1 THEN ss[i] ELSE chosen[i - 1] \o ss[i]]  BY <1>8, Zenon
    <3> QED  BY <3>1
  <2> QED  BY <2>4, <2>5
<1> HIDE DEF chosen, f, V
<1>10. f \in [1..n -> V] /\ Flattens(f, ss, n) /\ FlattenSeq(ss) = f[n]  BY <1>2, <1>6, <1>9
<1> QED  BY <1>10 DEF n, V

LEMMA FlattenEmpty == FlattenSeq(<<>>) = <<>>
BY DEF FlattenSeq

LEMMA FlattenType ==
  ASSUME NEW S, NEW ss \in Seq(Seq(S))
  PROVE  FlattenSeq(ss) \in Seq(S)
<1>1. CASE ss = <<>>
  <2>1. <<>> \in Seq(S)  OBVIOUS
  <2> QED  BY <1>1, <2>1, FlattenEmpty
<1>2. CASE ss # <<>>
  <2>1. PICK f \in [1..Len(ss) -> Seq(S)] : FlattenSeq(ss) = f[Len(ss)]
    BY <1>2, FlattensExists
  <2>2. Len(ss) \in 1..Len(ss)  BY <1>2
  <2> QED  BY <2>1, <2>2
<1> QED  BY <1>1, <1>2

\* What is flattened grows at the end.
LEMMA FlattenAppend ==
  ASSUME NEW S, NEW ss \in Seq(Seq(S)), NEW s \in Seq(S)
  PROVE  FlattenSeq(Append(ss, s)) = Cat(FlattenSeq(ss), s)
<1> DEFINE n == Len(ss)
           tt == Append(ss, s)
<1>1. n \in Nat /\ tt \in Seq(Seq(S)) /\ Len(tt) = n + 1 /\ tt # <<>>
      /\ (\A i \in 1..n : tt[i] = ss[i]) /\ tt[n + 1] = s
  BY AppendProperties
<1> HIDE DEF tt
<1>2. PICK g \in [1..(n + 1) -> Seq(S)] : Flattens(g, tt, n + 1) /\ FlattenSeq(tt) = g[n + 1]
  BY <1>1, FlattensExists
<1>3. CASE ss = <<>>
  <2>1. n = 0 /\ 1 \in 1..(n + 1)  BY <1>3
  <2>2. FlattenSeq(tt) = s  BY <1>1, <1>2, <2>1 DEF Flattens
  <2>3. Cat(<<>>, s) = s  BY CatEmpty
  <2> QED  BY <1>3, <2>2, <2>3, FlattenEmpty DEF tt
<1>4. CASE ss # <<>>
  <2>1. n > 0  BY <1>4
  <2>2. PICK f \in [1..n -> Seq(S)] : Flattens(f, ss, n) /\ FlattenSeq(ss) = f[n]
    BY <1>4, FlattensExists
  <2> DEFINE a == [i \in 0..n |-> IF i = 0 THEN <<>> ELSE f[i]]
             b == [i \in 0..n |-> IF i = 0 THEN <<>> ELSE g[i]]
  <2> HIDE DEF n
  <2>3. a[0] = b[0] /\ \A i \in 1..n : a[i] = f[i] /\ b[i] = g[i]  BY <1>1
  <2> HIDE DEF a, b
  <2>4. SameRounds(a, b, n)
    <3>1. ASSUME NEW i \in 1..n, a[i - 1] = b[i - 1] PROVE a[i] = b[i]
      <4>1. i \in 1..(n + 1) /\ tt[i] = ss[i]  BY <1>1
      <4>2. f[i] = (IF i = 1 THEN ss[i] ELSE Cat(f[i - 1], ss[i]))  BY <2>2 DEF Flattens
      <4>3. g[i] = (IF i = 1 THEN tt[i] ELSE Cat(g[i - 1], tt[i]))  BY <1>2, <4>1 DEF Flattens
      <4>4. CASE i = 1  BY <2>3, <4>1, <4>2, <4>3, <4>4
      <4>5. CASE i # 1
        <5>1. i - 1 \in 1..n  BY <1>1, <4>5
        <5>2. f[i - 1] = g[i - 1]  BY <2>3, <3>1, <5>1
        <5> QED  BY <2>3, <4>1, <4>2, <4>3, <4>5, <5>2
      <4> QED  BY <4>4, <4>5
    <3> QED  BY <2>3, <3>1 DEF SameRounds
  <2>5. \A i \in 0..n : a[i] = b[i]
    <3>1. n \in Nat  BY <1>1
    <3>2. Agree(a, b, n)  BY <2>4, <3>1, AllFoldsAgree, Zenon
    <3> QED  BY <3>2 DEF Agree
  <2>6. f[n] = g[n]
    <3>1. n \in 0..n /\ n \in 1..n  BY <1>1, <2>1
    <3> QED  BY <2>3, <2>5, <3>1
  <2>7. g[n + 1] = Cat(g[n], tt[n + 1])
    <3>1. n + 1 \in 1..(n + 1) /\ n + 1 # 1 /\ (n + 1) - 1 = n  BY <1>1, <2>1
    <3> QED  BY <1>2, <3>1 DEF Flattens
  <2> QED  BY <1>1, <1>2, <2>2, <2>6, <2>7 DEF tt
<1> QED  BY <1>3, <1>4

\* Rows in a row.
LEMMA FlattenConcat ==
  ASSUME NEW S, NEW ss \in Seq(Seq(S)), NEW tt \in Seq(Seq(S))
  PROVE  FlattenSeq(Cat(ss, tt)) = Cat(FlattenSeq(ss), FlattenSeq(tt))
<1> DEFINE Q == Seq(Seq(S))
           P(t) == FlattenSeq(Cat(ss, t)) = Cat(FlattenSeq(ss), FlattenSeq(t))
           D == {n \in Nat : \A t \in Q : Len(t) = n => P(t)}
<1>1. FlattenSeq(ss) \in Seq(S)  BY FlattenType
<1>2. 0 \in D
  <2> SUFFICES ASSUME NEW t \in Q, Len(t) = 0 PROVE P(t)  OBVIOUS
  <2>1. t = <<>>  OBVIOUS
  <2>2. Cat(ss, <<>>) = ss /\ Cat(FlattenSeq(ss), <<>>) = FlattenSeq(ss)  BY <1>1, CatEmpty
  <2> QED  BY <2>1, <2>2, FlattenEmpty
<1>3. ASSUME NEW n \in Nat, n \in D PROVE n + 1 \in D
  <2> SUFFICES ASSUME NEW t \in Q, Len(t) = n + 1 PROVE P(t)  OBVIOUS
  <2> DEFINE a == SubSeq(t, 1, n)
             x == t[n + 1]
  <2>1. a \in Q /\ Len(a) = n /\ x \in Seq(S) /\ t = Append(a, x)  BY LastOff
  <2> HIDE DEF a, x
  <2>2. P(a)  BY <1>3, <2>1
  <2>3. Cat(ss, t) = Append(Cat(ss, a), x)  BY <2>1, GrowEnd DEF Cat
  <2>4. FlattenSeq(Append(Cat(ss, a), x)) = Cat(FlattenSeq(Cat(ss, a)), x)
    <3>1. Cat(ss, a) \in Q  BY <2>1, CatAt
    <3> QED  BY <2>1, <3>1, FlattenAppend
  <2>5. FlattenSeq(t) = Cat(FlattenSeq(a), x) /\ FlattenSeq(a) \in Seq(S)
    BY <2>1, FlattenAppend, FlattenType
  <2>6. Cat(Cat(FlattenSeq(ss), FlattenSeq(a)), x) = Cat(FlattenSeq(ss), Cat(FlattenSeq(a), x))
    <3> DEFINE u == FlattenSeq(ss)
               v == FlattenSeq(a)
    <3>1. u \in Seq(S) /\ v \in Seq(S)  BY <1>1, <2>5
    <3> HIDE DEF u, v
    <3>2. Cat(Cat(u, v), x) = Cat(u, Cat(v, x))  BY <2>1, <3>1, CatAssociative
    <3> QED  BY <3>2 DEF u, v
  <2> QED  BY <2>2, <2>3, <2>4, <2>5, <2>6
<1>4. Nat \subseteq D
  <2> HIDE DEF D
  <2> QED  BY <1>2, <1>3, SetInduction
<1> QED  BY <1>4

LEMMA FlattenOne ==
  ASSUME NEW S, NEW s \in Seq(S)
  PROVE  FlattenSeq(<<s>>) = s
<1>1. <<s>> = Append(<<>>, s) /\ <<>> \in Seq(Seq(S))  OBVIOUS
<1>2. Cat(<<>>, s) = s  BY CatEmpty
<1>3. FlattenSeq(Append(<<>>, s)) = Cat(FlattenSeq(<<>>), s)  BY <1>1, FlattenAppend
<1> QED  BY <1>1, <1>2, <1>3, FlattenEmpty
=============================================================================
