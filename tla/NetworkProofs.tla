---------------------------- MODULE NetworkProofs ----------------------------
(***************************************************************************)
(* Proofs about DhcpServer and the Network that owns one.                  *)
(*                                                                         *)
(* DhcpServer, for any number of clients and addresses, any lease time and *)
(* any width of the clock: the server knows every client that may use an   *)
(* address, and never takes its lease for an ended one.                    *)
(*                                                                         *)
(* Network: those theorems hold of the server it owns; which servers run   *)
(* in which mode, and behind the destructor; the answers of its DNS        *)
(* servers.                                                                *)
(***************************************************************************)
EXTENDS Network, NaturalsInduction, WellFoundedInduction, TLAPS

----------------------------------------------------------------------------
(* The wrapping clock.                                                     *)

LEMMA ModPlus ==
  ASSUME NEW w \in Nat \ {0}, NEW a \in 0..(w - 1)
  PROVE  a % w = a
  OBVIOUS

LEMMA ModOver ==
  ASSUME NEW w \in Nat \ {0}, NEW a \in w..(2 * w - 1)
  PROVE  a % w = a - w
  OBVIOUS

LEMMA ModMinus ==
  ASSUME NEW w \in Nat \ {0}, NEW a \in (-w)..(-1)
  PROVE  a % w = a + w
  OBVIOUS

\* The upper half of the clock rounds down by less than a granule, and fits.
LEMMA UpperHalf ==
  ASSUME NEW g \in Nat \ {0}, NEW n \in Nat \ {0}, NEW x \in 0..(g * n - 1)
  PROVE  /\ x \div g \in 0..(n - 1)
         /\ (x \div g) * g \in Nat /\ (x \div g) * g <= x /\ x < (x \div g) * g + g
<1>1. x \in Nat  BY SMT
<1>2. x \div g \in 0..(n - 1)  OBVIOUS
<1>3. (x \div g) * g <= x /\ x < (x \div g) * g + g  BY <1>1
<1> QED  BY <1>2, <1>3

LEMMA ClockType ==
  /\ Wrap \in Nat \ {0} /\ MaxIdle \in Nat /\ LeaseTime + Granule <= Wrap - 1
  /\ \A e \in 0..(Granules - 1) : e * Granule + Granule - 1 \in 0..(Wrap - 1)
<1> USE ConstantsAssumption DEF ConstantsAssumption, Wrap
<1>1. Granule * Granules \in Nat \ {0}  BY SMT
<1>2. LeaseTime + Granule <= Granule * Granules - 1  BY <1>1, SMT
<1>3. \A e \in 0..(Granules - 1) : e * Granule + Granule - 1 \in 0..(Granule * Granules - 1)
  BY SMT
<1> QED  BY <1>1, <1>2, <1>3

\* Whoever may use an address has its lease, and the server takes the rest of it
\* for at least the client's and for less than half the clock.
Inv ==
  /\ TypeOK
  /\ ~udp => \A c \in Clients, i \in Slots : left[c][i] = 0
  /\ \A c \in Clients, i \in Slots :
       left[c][i] > 0 =>
         /\ mac[i] = c
         /\ left[c][i] <= Remaining(i) /\ Remaining(i) < LeaseTime + Granule

LEMMA RemainingIs ==
  ASSUME NEW e \in 0..(Wrap - 1), NEW t \in 0..(Wrap - 1)
  PROVE  (e - t) % Wrap = IF e >= t THEN e - t ELSE e - t + Wrap
<1>1. Wrap \in Nat \ {0}  BY ClockType
<1> HIDE DEF Wrap
<1>2. CASE e >= t
  <2>1. e - t \in 0..(Wrap - 1)  BY <1>1, <1>2
  <2> QED  BY <1>1, <1>2, <2>1, ModPlus
<1>3. CASE e < t
  <2>1. e - t \in (-Wrap)..(-1)  BY <1>1, <1>3
  <2>2. ~(e >= t)  BY <1>1, <1>3
  <2> QED  BY <1>1, <2>1, <2>2, ModMinus
<1> QED  BY <1>1, <1>2, <1>3

LEMMA ModIsInt ==
  ASSUME NEW e \in 0..(Wrap - 1), NEW t \in 0..(Wrap - 1)
  PROVE  (e - t) % Wrap \in Int
<1>1. Wrap \in Nat \ {0}  BY ClockType
<1> HIDE DEF Wrap
<1> DEFINE r == (e - t) % Wrap
<1>2. r = IF e >= t THEN e - t ELSE e - t + Wrap  BY RemainingIs
<1> HIDE DEF r
<1>3. r \in Int  BY <1>1, <1>2
<1> QED  BY <1>3 DEF r

LEMMA NextTick ==
  ASSUME NEW t \in 0..(Wrap - 1)
  PROVE  /\ (t + 1) % Wrap \in 0..(Wrap - 1)
         /\ (t + 1) % Wrap = IF t = Wrap - 1 THEN 0 ELSE t + 1
<1>1. Wrap \in Nat \ {0}  BY ClockType
<1> HIDE DEF Wrap
<1>2. CASE t = Wrap - 1
  <2>1. t + 1 \in Wrap..(2 * Wrap - 1)  BY <1>1, <1>2
  <2> QED  BY <1>1, <1>2, <2>1, ModOver
<1>3. CASE t # Wrap - 1
  <2>1. t + 1 \in 0..(Wrap - 1)  BY <1>1, <1>3
  <2> QED  BY <1>1, <1>3, <2>1, ModPlus
<1> QED  BY <1>2, <1>3

\* A tick takes one off what remains.
LEMMA RemainingTick ==
  ASSUME NEW e \in 0..(Wrap - 1), NEW t \in 0..(Wrap - 1), (e - t) % Wrap > 0,
         NEW u, u = (t + 1) % Wrap
  PROVE  (e - u) % Wrap = ((e - t) % Wrap) - 1
<1>1. Wrap \in Nat \ {0}  BY ClockType
<1> HIDE DEF Wrap
<1>2. u \in 0..(Wrap - 1) /\ u = IF t = Wrap - 1 THEN 0 ELSE t + 1  BY NextTick
<1> DEFINE r == (e - t) % Wrap
           s == (e - u) % Wrap
<1>3. r = IF e >= t THEN e - t ELSE e - t + Wrap  BY RemainingIs
<1>4. s = IF e >= u THEN e - u ELSE e - u + Wrap  BY <1>2, RemainingIs
<1>5. r > 0  OBVIOUS
<1> HIDE DEF r, s
<1>6. s = r - 1  BY <1>1, <1>2, <1>3, <1>4, <1>5
<1> QED  BY <1>6 DEF r, s

LEMMA SumWraps ==
  ASSUME NEW t \in 0..(Wrap - 1), NEW x, x = (t + LeaseTime) % Wrap
  PROVE  /\ x = IF t + LeaseTime < Wrap THEN t + LeaseTime ELSE t + LeaseTime - Wrap
         /\ x \in 0..(Wrap - 1)
<1>1. Wrap \in Nat \ {0} /\ LeaseTime \in Nat /\ LeaseTime <= Wrap - 1
  BY ClockType, ConstantsAssumption DEF ConstantsAssumption
<1>2. CASE t + LeaseTime < Wrap
  <2>1. t + LeaseTime \in 0..(Wrap - 1)  BY <1>1, <1>2
  <2> QED  BY <1>1, <1>2, <2>1, ModPlus
<1>3. CASE ~(t + LeaseTime < Wrap)
  <2>1. t + LeaseTime \in Wrap..(2 * Wrap - 1)  BY <1>1, <1>3
  <2>2. x = t + LeaseTime - Wrap  BY <1>1, <2>1, ModOver
  <2> QED  BY <1>1, <1>3, <2>1, <2>2
<1> QED  BY <1>2, <1>3

\* A lease granted now ends after the lease time, and within a granule of it.
LEMMA RemainingGrant ==
  ASSUME NEW t \in 0..(Wrap - 1), NEW x, x = (t + LeaseTime) % Wrap,
         NEW n, n = x \div Granule, NEW e, e = n * Granule + Granule - 1
  PROVE  /\ n \in 0..(Granules - 1) /\ e \in 0..(Wrap - 1)
         /\ LeaseTime <= (e - t) % Wrap /\ (e - t) % Wrap < LeaseTime + Granule
<1>1. /\ Wrap \in Nat \ {0} /\ LeaseTime + Granule <= Wrap - 1
      /\ \A m \in 0..(Granules - 1) : m * Granule + Granule - 1 \in 0..(Wrap - 1)
      /\ LeaseTime \in Nat \ {0} /\ Granule \in Nat \ {0} /\ Granules \in Nat \ {0}
  BY ClockType, ConstantsAssumption DEF ConstantsAssumption
<1>2. /\ x = IF t + LeaseTime < Wrap THEN t + LeaseTime ELSE t + LeaseTime - Wrap
      /\ x \in 0..(Wrap - 1)
  BY SumWraps
<1>3. x \in 0..(Granule * Granules - 1)  BY <1>2 DEF Wrap
<1>4. n \in 0..(Granules - 1) /\ n * Granule \in Nat
      /\ n * Granule <= x /\ x < n * Granule + Granule
  BY <1>1, <1>3, UpperHalf
<1>5. e \in 0..(Wrap - 1)  BY <1>1, <1>4
<1>6. x <= e /\ e < x + Granule  BY <1>1, <1>2, <1>4
<1> DEFINE r == (e - t) % Wrap
<1>7. r = IF e >= t THEN e - t ELSE e - t + Wrap  BY <1>5, RemainingIs
<1> HIDE DEF r
<1>8. LeaseTime <= r /\ r < LeaseTime + Granule  BY <1>1, <1>2, <1>5, <1>6, <1>7
<1> QED  BY <1>4, <1>5, <1>8 DEF r

----------------------------------------------------------------------------
(* The table of leases.                                                    *)

LEMMA FirstIsIn ==
  ASSUME NEW S \in SUBSET Slots
  PROVE  /\ First(S) \in S \cup {MaxIp}
         /\ S # {} => First(S) \in S /\ \A j \in S : First(S) <= j
<1>1. CASE S = {}  BY <1>1 DEF First
<1>2. CASE S # {}
  <2>1. IsWellFoundedOn(OpToRel(<, Nat), Nat)  BY NatLessThanWellFounded
  <2>2. S \subseteq Nat
    BY ConstantsAssumption DEF ConstantsAssumption, Slots
  <2>3. \E i \in S : \A j \in S : ~(<<j, i>> \in OpToRel(<, Nat))
    BY <1>2, <2>1, <2>2, WFMin
  <2>4. \E i \in S : \A j \in S : ~(j < i)  BY <2>2, <2>3, Zenon DEF OpToRel
  <2>5. \E i \in S : \A j \in S : i <= j  BY <2>2, <2>4
  <2> QED  BY <1>2, <2>5 DEF First
<1> QED  BY <1>1, <1>2

\* A lease that a client may use is never taken for an ended one.
LEMMA NotExpired ==
  ASSUME Inv, NEW c \in Clients, NEW i \in Slots, left[c][i] > 0
  PROVE  mac[i] = c /\ ~Expired(i)
<1>1. mac[i] = c /\ Remaining(i) < LeaseTime + Granule  BY DEF Inv
<1>2. Wrap \in Nat \ {0} /\ 2 * (LeaseTime + Granule) <= Wrap
      /\ LeaseTime \in Nat /\ Granule \in Nat
  BY ClockType, ConstantsAssumption DEF ConstantsAssumption
<1>3. expiry[i] \in 0..(Granules - 1) /\ ticks \in 0..(Wrap - 1)  BY DEF Inv, TypeOK
<1>4. EndsAt(i) \in 0..(Wrap - 1)  BY <1>3, ClockType DEF EndsAt
<1>5. Remaining(i) \in Int
  <2>1. Remaining(i)
          = IF EndsAt(i) >= ticks THEN EndsAt(i) - ticks ELSE EndsAt(i) - ticks + Wrap
    BY <1>3, <1>4, RemainingIs DEF Remaining
  <2> QED  BY <1>2, <1>3, <1>4, <2>1
<1>6. ~(Remaining(i) >= Wrap \div 2)  BY <1>1, <1>2, <1>5
<1>7. Expired(i) <=> Remaining(i) >= Wrap \div 2  BY DEF Expired
<1> QED  BY <1>1, <1>6, <1>7

\* So no client is offered what another one may use.
LEMMA OfferIsFree ==
  ASSUME Inv, NEW c \in Clients, NEW d \in Clients, NEW i \in Slots,
         left[d][i] > 0, i = Reusable \/ (i = Own(c) /\ c # d)
  PROVE  FALSE
<1>1. mac[i] = d /\ ~Expired(i)  BY NotExpired
<1>2. MaxIp \notin Slots
  BY ConstantsAssumption DEF ConstantsAssumption, Slots
<1>3. CASE i = Reusable
  <2>1. i \in {j \in Slots : mac[j] = NoMac \/ Expired(j)}
    BY <1>2, <1>3, FirstIsIn DEF Reusable
  <2> QED  BY <1>1, <2>1, ConstantsAssumption DEF ConstantsAssumption
<1>4. CASE i = Own(c) /\ c # d
  <2>1. i \in {j \in Slots : mac[j] = c}  BY <1>2, <1>4, FirstIsIn DEF Own
  <2> QED  BY <1>1, <1>4, <2>1
<1> QED  BY <1>3, <1>4

----------------------------------------------------------------------------
(* The invariant.                                                          *)

\* What the invariant says of a client and an address.
Held(c, i) ==
  left[c][i] > 0 =>
    /\ mac[i] = c
    /\ left[c][i] <= Remaining(i) /\ Remaining(i) < LeaseTime + Granule

LEMMA InitInv == Init => Inv
<1> SUFFICES ASSUME Init PROVE Inv  OBVIOUS
<1>1. 0 \in 0..(Granules - 1) /\ 0 \in 0..LeaseTime /\ MaxIdle \in 0..MaxIdle
  BY ClockType, ConstantsAssumption DEF ConstantsAssumption
<1>2. TypeOK  BY <1>1 DEF Init, TypeOK
<1> QED  BY <1>2 DEF Init, Inv

\* start and stop change nothing, or find the server in the state they need.
LEMMA StartStep ==
  ASSUME NEW ok \in BOOLEAN, Start(ok)
  PROVE  \/ UNCHANGED vars
         \/ ~udp /\ udp' = ok /\ NoLeases /\ UNCHANGED <<ticks, left, idle>>
  BY Zenon DEF Start

LEMMA StopStep ==
  ASSUME Stop
  PROVE  \/ UNCHANGED vars
         \/ udp /\ udp' = FALSE /\ NoLeases /\ NoClients /\ UNCHANGED ticks
  BY Zenon DEF Stop

LEMMA TypeStep ==
  ASSUME TypeOK, [Next]_vars
  PROVE  TypeOK'
<1>0. /\ 0 \in 0..(Granules - 1) /\ 0 \in 0..LeaseTime /\ MaxIdle \in Nat
      /\ LeaseTime \in 0..LeaseTime /\ LeaseTime \in Nat
  BY ClockType, ConstantsAssumption DEF ConstantsAssumption
<1>u. CASE UNCHANGED vars  BY <1>u DEF vars, TypeOK
<1>1. ASSUME NEW ok \in BOOLEAN, Start(ok) PROVE TypeOK'
  BY <1>0, <1>1, <1>u, StartStep DEF NoLeases, TypeOK
<1>2. CASE Stop
  <2>0. SUFFICES ASSUME udp' = FALSE /\ NoLeases /\ NoClients /\ UNCHANGED ticks
                 PROVE  TypeOK'
    BY <1>2, <1>u, StopStep
  <2>1. left' \in [Clients -> [Slots -> 0..LeaseTime]] /\ idle' \in [Slots -> 0..MaxIdle]
    BY <1>0, <2>0 DEF NoClients
  <2>2. mac' \in [Slots -> Clients \cup {NoMac}] /\ expiry' \in [Slots -> 0..(Granules - 1)]
    BY <1>0, <2>0 DEF NoLeases
  <2> QED  BY <2>0, <2>1, <2>2 DEF TypeOK
<1>3. ASSUME NEW c \in Clients, Discover(c) PROVE TypeOK'
  BY <1>3 DEF Discover, TypeOK
<1>4. ASSUME NEW c \in Clients, NEW i \in Slots, NEW received \in BOOLEAN,
             Request(c, i, received)
      PROVE  TypeOK'
  <2>1. NewExpiry \in 0..(Granules - 1)  BY RemainingGrant DEF NewExpiry, TypeOK
  <2>2. left' \in [Clients -> [Slots -> 0..LeaseTime]]
    BY <1>0, <1>4 DEF Request, TypeOK
  <2> QED  BY <1>0, <1>4, <2>1, <2>2 DEF Request, TypeOK
<1>5. CASE Tick
  <2>1. ticks' \in 0..(Wrap - 1)  BY <1>5, NextTick DEF Tick, TypeOK
  <2>2. \A c \in Clients, i \in Slots :
          (IF left[c][i] = 0 THEN 0 ELSE left[c][i] - 1) \in 0..LeaseTime
    <3>1. \A c \in Clients, i \in Slots : left[c][i] \in 0..LeaseTime  BY DEF TypeOK
    <3> QED  BY <1>0, <3>1
  <2>3. left' \in [Clients -> [Slots -> 0..LeaseTime]]  BY <1>5, <2>2 DEF Tick
  <2>4. idle' \in [Slots -> 0..MaxIdle]
    <3>1. \A i \in Slots : idle[i] \in 0..MaxIdle  BY DEF TypeOK
    <3>2. \A i \in Slots : (IF idle[i] = MaxIdle THEN MaxIdle ELSE idle[i] + 1) \in 0..MaxIdle
      BY <1>0, <3>1
    <3> QED  BY <1>5, <3>2 DEF Tick
  <2> QED  BY <1>5, <2>1, <2>3, <2>4 DEF Tick, TypeOK
<1> QED  BY <1>1, <1>2, <1>3, <1>4, <1>5, <1>u DEF Next

LEMMA HeldStep ==
  ASSUME Inv, [Next]_vars, NEW c \in Clients, NEW i \in Slots
  PROVE  Held(c, i)' /\ (~udp' => left'[c][i] = 0)
<1>0. TypeOK /\ Held(c, i) /\ (~udp => left[c][i] = 0)  BY DEF Inv, Held
<1>u. CASE UNCHANGED vars
  BY <1>0, <1>u DEF vars, Held, Remaining, EndsAt
<1>1. ASSUME NEW ok \in BOOLEAN, Start(ok)
      PROVE  Held(c, i)' /\ (~udp' => left'[c][i] = 0)
  BY <1>0, <1>1, <1>u, StartStep DEF Held
<1>2. CASE Stop
  <2>1. SUFFICES ASSUME NoClients PROVE Held(c, i)' /\ (~udp' => left'[c][i] = 0)
    BY <1>2, <1>u, StopStep
  <2>2. left'[c][i] = 0  BY <2>1 DEF NoClients
  <2> QED  BY <2>2 DEF Held
<1>3. ASSUME NEW d \in Clients, Discover(d)
      PROVE  Held(c, i)' /\ (~udp' => left'[c][i] = 0)
  <2>1. /\ mac' = [j \in Slots |-> IF j = Reusable /\ j < Own(d) THEN NoMac ELSE mac[j]]
        /\ UNCHANGED <<udp, expiry, ticks, left>>
    BY <1>3 DEF Discover
  <2>2. left[c][i] > 0 => i # Reusable  BY OfferIsFree
  <2>3. left[c][i] > 0 => mac'[i] = mac[i]  BY <2>1, <2>2
  <2>4. Remaining(i)' = Remaining(i)  BY <2>1 DEF Remaining, EndsAt
  <2> QED  BY <1>0, <2>1, <2>3, <2>4 DEF Held
<1>4. ASSUME NEW d \in Clients, NEW j \in Slots, NEW received \in BOOLEAN,
             Request(d, j, received)
      PROVE  Held(c, i)' /\ (~udp' => left'[c][i] = 0)
  <2>1. /\ udp /\ mac[j] \in {d, NoMac} /\ mac' = [mac EXCEPT ![j] = d]
        /\ expiry' = [expiry EXCEPT ![j] = NewExpiry]
        /\ left' = IF received THEN [left EXCEPT ![d][j] = LeaseTime] ELSE left
        /\ UNCHANGED <<udp, ticks>>
    BY <1>4 DEF Request, Grants
  <2>2. CASE i # j
    <3>1. left'[c][i] = left[c][i] /\ mac'[i] = mac[i] /\ expiry'[i] = expiry[i]
      BY <1>0, <2>1, <2>2 DEF TypeOK
    <3>2. Remaining(i)' = Remaining(i)  BY <2>1, <3>1 DEF Remaining, EndsAt
    <3> QED  BY <1>0, <2>1, <3>1, <3>2 DEF Held
  <2>3. CASE i = j
    <3>1. mac'[i] = d /\ expiry'[i] = NewExpiry  BY <1>0, <2>1, <2>3 DEF TypeOK
    <3>2. LeaseTime <= Remaining(i)' /\ Remaining(i)' < LeaseTime + Granule
      <4>1. ticks \in 0..(Wrap - 1)  BY <1>0 DEF TypeOK
      <4>2. EndsAt(i)' = NewExpiry * Granule + Granule - 1  BY <3>1 DEF EndsAt
      <4>3. Remaining(i)' = (EndsAt(i)' - ticks) % Wrap  BY <2>1 DEF Remaining
      <4> QED  BY <4>1, <4>2, <4>3, RemainingGrant DEF NewExpiry
    <3>3. left'[c][i] \in 0..LeaseTime  BY TypeStep DEF Inv, TypeOK
    <3>4. ASSUME left'[c][i] > 0 PROVE c = d
      <4>1. CASE left[c][i] > 0
        BY <1>0, <2>1, <2>3, <4>1, ConstantsAssumption DEF ConstantsAssumption, Held
      <4>2. CASE ~(left[c][i] > 0)
        <5>1. left'[c][i] # left[c][i]  BY <3>4, <4>2
        <5> QED  BY <1>0, <2>1, <5>1 DEF TypeOK
      <4> QED  BY <4>1, <4>2
    <3>5. Remaining(i)' \in Int
      <4>1. ticks \in 0..(Wrap - 1)  BY <1>0 DEF TypeOK
      <4>2. EndsAt(i)' = NewExpiry * Granule + Granule - 1  BY <3>1 DEF EndsAt
      <4>3. EndsAt(i)' \in 0..(Wrap - 1)
        BY <4>1, <4>2, RemainingGrant DEF NewExpiry
      <4>4. Remaining(i)' = (EndsAt(i)' - ticks) % Wrap  BY <2>1 DEF Remaining
      <4> QED  BY <4>1, <4>3, <4>4, ModIsInt
    <3> QED
      BY <2>1, <3>1, <3>2, <3>3, <3>4, <3>5, ConstantsAssumption
         DEF ConstantsAssumption, Held
  <2> QED  BY <2>2, <2>3
<1>5. CASE Tick
  <2>1. /\ ticks' = (ticks + 1) % Wrap /\ UNCHANGED <<udp, mac, expiry>>
        /\ left'[c][i] = IF left[c][i] = 0 THEN 0 ELSE left[c][i] - 1
    BY <1>5 DEF Tick
  <2>2. left[c][i] \in Nat  BY <1>0 DEF TypeOK
  <2>3. CASE left[c][i] = 0  BY <2>1, <2>3 DEF Held
  <2>4. CASE left[c][i] > 0
    <3>1. ticks \in 0..(Wrap - 1) /\ EndsAt(i) \in 0..(Wrap - 1)
      BY <1>0, ClockType DEF TypeOK, EndsAt
    <3>2. Remaining(i) \in Int
      BY <3>1, RemainingIs, ClockType DEF Remaining
    <3>3. (EndsAt(i) - ticks) % Wrap > 0
      BY <1>0, <2>2, <2>4, <3>2 DEF Held, Remaining
    <3>4. (EndsAt(i) - ticks') % Wrap = ((EndsAt(i) - ticks) % Wrap) - 1
      BY <2>1, <3>1, <3>3, RemainingTick
    <3>5. Remaining(i)' = Remaining(i) - 1  BY <2>1, <3>4 DEF Remaining, EndsAt
    <3> QED
      BY <1>0, <2>1, <2>2, <2>4, <3>2, <3>5, ConstantsAssumption
         DEF ConstantsAssumption, Held
  <2> QED  BY <2>2, <2>3, <2>4
<1> QED  BY <1>1, <1>2, <1>3, <1>4, <1>5, <1>u DEF Next

LEMMA InvAlways == Spec => []Inv
<1>1. ASSUME Inv, [Next]_vars PROVE Inv'
  <2>1. TypeOK'  BY <1>1, TypeStep DEF Inv
  <2> QED  BY <1>1, <2>1, HeldStep DEF Inv, Held
<1> QED  BY <1>1, InitInv, PTL DEF Spec

\* The table and the clock have their types, for any width of the clock.
THEOREM TypeCorrect == Spec => []TypeOK
<1>1. Inv => TypeOK  BY DEF Inv
<1> QED  BY <1>1, InvAlways, PTL

\* No two clients may use the same address.
THEOREM ExclusiveLeases == Spec => []Exclusive
<1>1. Inv => Exclusive  BY DEF Inv, Exclusive
<1> QED  BY <1>1, InvAlways, PTL

\* A client that may use an address is granted it again.
THEOREM Renewals == Spec => []RenewalGranted
<1>1. Inv => RenewalGranted  BY DEF Inv, RenewalGranted, Grants
<1> QED  BY <1>1, InvAlways, PTL

\* No client is offered an address that another one may use.
THEOREM Offers == Spec => []OfferFree
<1>1. ASSUME Inv PROVE OfferFree
  <2> SUFFICES ASSUME NEW c \in Clients, NEW d \in Clients,
                      Offer(c) # MaxIp, left[d][Offer(c)] > 0, c # d
               PROVE  FALSE
    BY DEF OfferFree
  <2>1. Offer(c) \in Slots
    <3>1. {i \in Slots : mac[i] = c} \in SUBSET Slots
          /\ {i \in Slots : mac[i] = NoMac \/ Expired(i)} \in SUBSET Slots
      OBVIOUS
    <3>2. Own(c) \in Slots \cup {MaxIp} /\ Reusable \in Slots \cup {MaxIp}
      BY <3>1, FirstIsIn DEF Own, Reusable
    <3> QED  BY <3>2 DEF Offer
  <2>2. Offer(c) = Reusable \/ Offer(c) = Own(c)  BY DEF Offer
  <2> QED  BY <1>1, <2>1, <2>2, OfferIsFree
<1> QED  BY <1>1, InvAlways, PTL

----------------------------------------------------------------------------
(* Addresses return to the pool, within half the clock.                    *)

\* A tick takes one off what remains, and wraps.
LEMMA RemainingWraps ==
  ASSUME NEW e \in 0..(Wrap - 1), NEW t \in 0..(Wrap - 1), (e - t) % Wrap = 0,
         NEW u, u = (t + 1) % Wrap
  PROVE  (e - u) % Wrap = Wrap - 1
<1>1. Wrap \in Nat \ {0} /\ Wrap > 1
  BY ClockType, ConstantsAssumption DEF ConstantsAssumption
<1> HIDE DEF Wrap
<1>2. u \in 0..(Wrap - 1) /\ u = IF t = Wrap - 1 THEN 0 ELSE t + 1  BY NextTick
<1> DEFINE r == (e - t) % Wrap
           s == (e - u) % Wrap
<1>3. r = IF e >= t THEN e - t ELSE e - t + Wrap  BY RemainingIs
<1>4. s = IF e >= u THEN e - u ELSE e - u + Wrap  BY <1>2, RemainingIs
<1>5. r = 0  OBVIOUS
<1> HIDE DEF r, s
<1>6. s = Wrap - 1  BY <1>1, <1>2, <1>3, <1>4, <1>5
<1> QED  BY <1>6 DEF r, s

\* How long an address has been idle while its lease cannot count as active again.
InTime(k) == k < MaxIdle /\ 2 * (k - LeaseTime) <= Wrap

\* What remains of a lease that was granted k ticks ago, r ticks before its end.
Left(r, k) == IF k <= r THEN r - k ELSE r - k + Wrap

Aged(i) ==
  mac[i] # NoMac /\ InTime(idle[i]) =>
    \E r \in LeaseTime..(LeaseTime + Granule - 1) : Remaining(i) = Left(r, idle[i])

LEMMA AgedStep ==
  ASSUME TypeOK, [Next]_vars, NEW i \in Slots, Aged(i)
  PROVE  Aged(i)'
<1>0. /\ LeaseTime \in Nat \ {0} /\ Granule \in Nat \ {0} /\ MaxIdle \in Nat
      /\ Wrap \in Nat \ {0} /\ 2 * (LeaseTime + Granule) <= Wrap
      /\ idle[i] \in 0..MaxIdle /\ ticks \in 0..(Wrap - 1) /\ EndsAt(i) \in 0..(Wrap - 1)
  BY ClockType, ConstantsAssumption DEF ConstantsAssumption, TypeOK, EndsAt
<1> HIDE DEF Wrap
<1>u. CASE UNCHANGED vars
  BY <1>u DEF vars, Aged, Remaining, EndsAt, InTime, Left
<1>1. ASSUME NEW ok \in BOOLEAN, Start(ok) PROVE Aged(i)'
  BY <1>1, <1>u, StartStep DEF NoLeases, Aged
<1>2. CASE Stop  BY <1>2, <1>u, StopStep DEF NoLeases, Aged
<1>3. ASSUME NEW c \in Clients, Discover(c) PROVE Aged(i)'
  <2>1. /\ mac'[i] = mac[i] \/ mac'[i] = NoMac
        /\ UNCHANGED <<expiry, ticks, idle>>
    BY <1>3 DEF Discover
  <2> QED  BY <2>1 DEF Aged, Remaining, EndsAt, InTime, Left
<1>4. ASSUME NEW c \in Clients, NEW j \in Slots, NEW received \in BOOLEAN,
             Request(c, j, received)
      PROVE  Aged(i)'
  <2>1. /\ mac' = [mac EXCEPT ![j] = c] /\ expiry' = [expiry EXCEPT ![j] = NewExpiry]
        /\ idle' = [idle EXCEPT ![j] = 0] /\ ticks' = ticks
    BY <1>4 DEF Request
  <2>2. CASE i # j
    <3>1. mac'[i] = mac[i] /\ expiry'[i] = expiry[i] /\ idle'[i] = idle[i]
      BY <2>1, <2>2 DEF TypeOK
    <3> QED  BY <2>1, <3>1 DEF Aged, Remaining, EndsAt, InTime, Left
  <2>3. CASE i = j
    <3>1. expiry'[i] = NewExpiry /\ idle'[i] = 0  BY <2>1, <2>3 DEF TypeOK
    <3>2. EndsAt(i)' = NewExpiry * Granule + Granule - 1  BY <3>1 DEF EndsAt
    <3>3. Remaining(i)' = (EndsAt(i)' - ticks) % Wrap  BY <2>1 DEF Remaining
    <3> DEFINE r == Remaining(i)'
    <3>4. EndsAt(i)' \in 0..(Wrap - 1) /\ LeaseTime <= r /\ r < LeaseTime + Granule
      BY <1>0, <3>2, <3>3, RemainingGrant DEF NewExpiry
    <3>5. r \in Int  BY <1>0, <3>3, <3>4, ModIsInt
    <3> HIDE DEF r
    <3>6. r \in LeaseTime..(LeaseTime + Granule - 1) /\ r = Left(r, 0)
      BY <1>0, <3>4, <3>5 DEF Left
    <3> QED  BY <3>1, <3>6 DEF Aged, r, Left
  <2> QED  BY <2>2, <2>3
<1>5. CASE Tick
  <2>1. /\ ticks' = (ticks + 1) % Wrap /\ UNCHANGED <<mac, expiry>>
        /\ idle'[i] = IF idle[i] = MaxIdle THEN MaxIdle ELSE idle[i] + 1
    BY <1>5 DEF Tick
  <2>2. SUFFICES ASSUME mac[i] # NoMac, InTime(idle'[i])
                 PROVE  \E r \in LeaseTime..(LeaseTime + Granule - 1) :
                          Remaining(i)' = Left(r, idle'[i])
    BY <2>1 DEF Aged, InTime, Left
  <2>3. idle'[i] = idle[i] + 1 /\ InTime(idle[i])  BY <1>0, <2>1, <2>2 DEF InTime
  <2>4. PICK r \in LeaseTime..(LeaseTime + Granule - 1) : Remaining(i) = Left(r, idle[i])
    BY <2>2, <2>3 DEF Aged
  <2> DEFINE k == idle[i]
  <2>5. k \in Nat /\ 2 * (k + 1 - LeaseTime) <= Wrap  BY <1>0, <2>2, <2>3 DEF InTime
  <2>6. Remaining(i)' = (EndsAt(i) - ticks') % Wrap  BY <2>1 DEF Remaining, EndsAt
  <2>7. CASE k = r
    <3>1. (EndsAt(i) - ticks) % Wrap = 0  BY <1>0, <2>4, <2>7 DEF Remaining, Left
    <3>2. Remaining(i)' = Wrap - 1  BY <1>0, <2>1, <2>6, <3>1, RemainingWraps
    <3>3. Left(r, k + 1) = Wrap - 1  BY <1>0, <2>5, <2>7 DEF Left
    <3> QED  BY <2>3, <3>2, <3>3
  <2>8. CASE k # r
    <3>1. Left(r, k) > 0 /\ Left(r, k + 1) = Left(r, k) - 1
      BY <1>0, <2>5, <2>8 DEF Left
    <3>2. (EndsAt(i) - ticks) % Wrap = Left(r, k)  BY <2>4 DEF Remaining
    <3>3. (EndsAt(i) - ticks') % Wrap = Left(r, k) - 1
      BY <1>0, <2>1, <3>1, <3>2, RemainingTick
    <3> QED  BY <2>3, <2>6, <3>1, <3>3
  <2> QED  BY <2>7, <2>8
<1> QED  BY <1>1, <1>2, <1>3, <1>4, <1>5, <1>u DEF Next

\* An address that has been idle for a lease and a granule is offered again, unless
\* its lease ended more than half the clock ago: the comparison of a lease's end with
\* the clock fails no earlier than that.
THEOREM PoolsRecover == Spec => []PoolRecoversInTime
<1> DEFINE AgedInv == TypeOK /\ \A i \in Slots : Aged(i)
<1>1. Init => AgedInv
  <2>1. Init => TypeOK  BY InitInv DEF Inv
  <2>2. Init => \A i \in Slots : mac[i] = NoMac  BY DEF Init
  <2> QED  BY <2>1, <2>2 DEF Aged
<1>2. AgedInv /\ [Next]_vars => AgedInv'
  <2> SUFFICES ASSUME AgedInv, [Next]_vars PROVE AgedInv'  OBVIOUS
  <2>1. TypeOK'  BY TypeStep
  <2>2. ASSUME NEW i \in Slots PROVE Aged(i)'  BY AgedStep
  <2> QED  BY <2>1, <2>2 DEF Slots
<1>3. AgedInv => PoolRecoversInTime
  <2> SUFFICES ASSUME AgedInv, udp, NEW c \in Clients, NEW i \in Slots,
                      LeaseTime + Granule <= idle[i], InTime(idle[i])
               PROVE  Offer(c) # MaxIp
    BY DEF PoolRecoversInTime, InTime
  <2>0. /\ LeaseTime \in Nat /\ Granule \in Nat /\ Wrap \in Nat /\ idle[i] \in Nat
        /\ MaxIp \notin Slots
    BY ClockType, ConstantsAssumption DEF ConstantsAssumption, TypeOK, Slots
  <2> HIDE DEF Wrap
  <2>1. mac[i] = NoMac \/ Expired(i)
    <3>1. SUFFICES ASSUME mac[i] # NoMac PROVE Expired(i)  OBVIOUS
    <3>2. PICK r \in LeaseTime..(LeaseTime + Granule - 1) : Remaining(i) = Left(r, idle[i])
      BY <3>1 DEF Aged
    <3>3. Left(r, idle[i]) >= Wrap \div 2  BY <2>0, <3>2 DEF Left, InTime
    <3> QED  BY <3>2, <3>3 DEF Expired
  <2>2. Reusable # MaxIp
    <3>1. i \in {j \in Slots : mac[j] = NoMac \/ Expired(j)}  BY <2>1
    <3> QED  BY <2>0, <3>1, FirstIsIn DEF Reusable
  <2> QED  BY <2>2 DEF Offer
<1> QED  BY <1>1, <1>2, <1>3, PTL DEF Spec

----------------------------------------------------------------------------
(* The DHCP server of a Network.                                           *)

LEMMA LeaseStep ==
  ASSUME [NetworkNext]_networkVars
  PROVE  [Next]_vars
<1>1. CASE Initialize  BY <1>1 DEF Initialize
<1>2. ASSUME NEW ok \in BOOLEAN, ConnectToWifiStation(ok) PROVE UNCHANGED vars
  BY <1>2 DEF ConnectToWifiStation
<1>3. ASSUME NEW ok \in BOOLEAN, SetupWifiAccessPoint(ok) PROVE Next
  BY <1>3 DEF SetupWifiAccessPoint, Next
<1>4. ASSUME NEW s \in Servers, NEW ok \in BOOLEAN, AddDnsServer(s, ok)
      PROVE  UNCHANGED vars
  BY <1>4 DEF AddDnsServer
<1>5. CASE Delete  BY <1>5 DEF Delete, Next
<1>6. CASE ServeLeases  BY <1>6 DEF ServeLeases, Next
<1>7. CASE UseDns  BY <1>7 DEF UseDns
<1>8. CASE UNCHANGED networkVars  BY <1>8 DEF networkVars
<1> QED  BY <1>1, <1>2, <1>3, <1>4, <1>5, <1>6, <1>7, <1>8 DEF NetworkNext, Step

\* Network is composed of the actions of DhcpServer, so that what holds of every
\* behaviour of DhcpServer may be cited here.
LEMMA Leases == NetworkSpec => Spec
<1>1. NetworkInit => Init  BY DEF NetworkInit
<1> QED  BY <1>1, LeaseStep, PTL DEF NetworkSpec, Spec

\* What is proved of the leases holds of them in a Network, whatever modes, failing
\* calls and DNS servers come between.
THEOREM NetworkLeases == NetworkSpec => [](Exclusive /\ OfferFree /\ RenewalGranted)
<1> QED  BY Leases, ExclusiveLeases, Offers, Renewals, PTL

----------------------------------------------------------------------------
(* Types.                                                                  *)

LEMMA ConfigureTypes ==
  ASSUME DnsTypeOK, UseDns
  PROVE  DnsTypeOK'
<1>1. ASSUME NEW s \in Servers, NEW h \in Hosts, NEW ip \in Ips \cup {NoIp},
             PutRecord(s, h, ip)
      PROVE  DnsTypeOK'
  BY <1>1 DEF PutRecord, DnsTypeOK
<1>2. ASSUME NEW s \in Servers, ClearRecords(s) PROVE DnsTypeOK'
  BY <1>2 DEF ClearRecords, DnsTypeOK
<1>3. ASSUME NEW s \in Servers, NEW ip \in Ips \cup {NoIp}, PutFallback(s, ip)
      PROVE  DnsTypeOK'
  BY <1>3 DEF PutFallback, DnsTypeOK
<1>4. ASSUME NEW s \in Servers, DeleteDns(s) PROVE DnsTypeOK'
  BY <1>4 DEF DeleteDns, DnsTypeOK
<1> QED
  BY <1>1, <1>2, <1>3, <1>4 DEF UseDns, Configure, AddRecord, RemoveRecord

OwnTypeOK ==
  /\ is_initialized \in BOOLEAN /\ is_connected_to_station_wifi \in BOOLEAN
  /\ is_access_point_active \in BOOLEAN
  /\ attached_dns_server \in Servers \cup {NoServer}
  /\ arch \in BOOLEAN /\ sta_mode \in BOOLEAN /\ ap_mode \in BOOLEAN
  /\ deleted \in BOOLEAN /\ failed \in BOOLEAN /\ misuse \in BOOLEAN

LEMMA NetworkTypeStep ==
  ASSUME NetworkTypeOK, [NetworkNext]_networkVars
  PROVE  NetworkTypeOK'
<1>1. TypeOK'  BY LeaseStep, TypeStep DEF NetworkTypeOK
<1>2. DnsTypeOK /\ OwnTypeOK  BY DEF NetworkTypeOK, OwnTypeOK
<1> SUFFICES DnsTypeOK' /\ OwnTypeOK'  BY <1>1 DEF NetworkTypeOK, OwnTypeOK
<1>3. CASE Initialize
  BY <1>2, <1>3 DEF Initialize, object, dns, DnsTypeOK, OwnTypeOK
<1>4. ASSUME NEW ok \in BOOLEAN, ConnectToWifiStation(ok) PROVE DnsTypeOK' /\ OwnTypeOK'
  BY <1>2, <1>4 DEF ConnectToWifiStation, dns, DnsTypeOK, OwnTypeOK
<1>5. ASSUME NEW ok \in BOOLEAN, SetupWifiAccessPoint(ok) PROVE DnsTypeOK' /\ OwnTypeOK'
  BY <1>2, <1>5 DEF SetupWifiAccessPoint, dns, DnsTypeOK, OwnTypeOK
<1>6. ASSUME NEW s \in Servers, NEW ok \in BOOLEAN, AddDnsServer(s, ok)
      PROVE  DnsTypeOK' /\ OwnTypeOK'
  BY <1>2, <1>6 DEF AddDnsServer, StartDns, flags, radio, object, DnsTypeOK, OwnTypeOK
<1>7. CASE Delete
  <2>1. DnsTypeOK' /\ misuse' \in BOOLEAN
    BY <1>2, <1>7 DEF Delete, StopAttached, StopDns, dns, DnsTypeOK, OwnTypeOK
  <2>2. OwnTypeOK'
    BY <1>2, <1>7, <2>1 DEF Delete, Deinit, flags, OwnTypeOK
  <2> QED  BY <2>1, <2>2
<1>8. CASE ServeLeases
  BY <1>2, <1>8 DEF ServeLeases, network, flags, radio, object, dns, DnsTypeOK, OwnTypeOK
<1>9. CASE UseDns
  BY <1>2, <1>9, ConfigureTypes DEF UseDns, network, flags, radio, object, OwnTypeOK
<1>10. CASE UNCHANGED networkVars
  BY <1>2, <1>10
     DEF networkVars, network, flags, radio, object, dns, DnsTypeOK, OwnTypeOK
<1> QED
  BY <1>3, <1>4, <1>5, <1>6, <1>7, <1>8, <1>9, <1>10 DEF NetworkNext, Step

LEMMA NetworkTypeInit == NetworkInit => NetworkTypeOK
<1> SUFFICES ASSUME NetworkInit PROVE NetworkTypeOK  OBVIOUS
<1>1. TypeOK  BY InitInv DEF NetworkInit, Inv
<1>2. DnsTypeOK  BY DEF NetworkInit, DnsInit, DnsTypeOK
<1> QED  BY <1>1, <1>2 DEF NetworkInit, NetworkTypeOK

\* Every variable has its type, for any sets of clients, servers and hosts.
THEOREM NetworkTypes == NetworkSpec => []NetworkTypeOK
<1> QED  BY NetworkTypeInit, NetworkTypeStep, PTL DEF NetworkSpec

----------------------------------------------------------------------------
(* Modes.                                                                  *)

\* What the flags of a Network say about the radio and the servers.
ModeInv ==
  /\ is_initialized <=> arch
  /\ sta_mode \/ ap_mode => arch
  /\ ~(is_connected_to_station_wifi /\ is_access_point_active)
  /\ is_connected_to_station_wifi => sta_mode
  /\ is_access_point_active => ap_mode
  /\ ~failed => (sta_mode => is_connected_to_station_wifi)
                /\ (ap_mode => is_access_point_active)
  /\ udp <=> is_access_point_active

ServerInv ==
  \A s \in Servers :
    dns_udp[s] => /\ is_access_point_active /\ s = attached_dns_server
                  /\ dns_obj[s] = "alive"

Stopped == ~udp /\ \A s \in Servers : ~dns_udp[s]
DriverDown == arch => ~is_connected_to_station_wifi /\ ~is_access_point_active

NetworkInv ==
  /\ NetworkTypeOK
  /\ ~deleted => ModeInv /\ ServerInv
  /\ deleted /\ ~misuse => Stopped /\ DriverDown

LEMMA NetworkInvInit == NetworkInit => NetworkInv
<1> SUFFICES ASSUME NetworkInit PROVE NetworkInv  OBVIOUS
<1>1. ServerInv  BY DEF NetworkInit, DnsInit, ServerInv
<1>2. ModeInv  BY DEF NetworkInit, Init, ModeInv
<1> QED  BY <1>1, <1>2, NetworkTypeInit DEF NetworkInit, NetworkInv

\* A step of the leases leaves the socket of the DHCP server alone.
LEMMA ServeLeasesKeeps ==
  ASSUME ServeLeases
  PROVE  UNCHANGED <<udp, dns, network>>
<1> QED  BY DEF ServeLeases, Tick, Discover, Request

\* What the application does with its DNS servers may close sockets, not open any.
LEMMA UseDnsKeeps ==
  ASSUME DnsTypeOK, UseDns
  PROVE  /\ UNCHANGED <<udp, network>>
         /\ \A s \in Servers : dns_udp'[s] => dns_udp[s] /\ dns_obj'[s] = dns_obj[s]
<1>1. UNCHANGED <<udp, network>>  BY DEF UseDns, vars
<1>2. CASE Configure
  <2>1. ASSUME NEW s \in Servers, NEW h \in Hosts, NEW ip \in Ips \cup {NoIp},
               PutRecord(s, h, ip)
        PROVE  UNCHANGED <<dns_udp, dns_obj>>
    BY <2>1 DEF PutRecord
  <2>2. ASSUME NEW s \in Servers, ClearRecords(s) PROVE UNCHANGED <<dns_udp, dns_obj>>
    BY <2>2 DEF ClearRecords
  <2>3. ASSUME NEW s \in Servers, NEW ip \in Ips \cup {NoIp}, PutFallback(s, ip)
        PROVE  UNCHANGED <<dns_udp, dns_obj>>
    BY <2>3 DEF PutFallback
  <2>4. UNCHANGED <<dns_udp, dns_obj>>
    BY <1>2, <2>1, <2>2, <2>3 DEF Configure, AddRecord, RemoveRecord
  <2> QED  BY <1>1, <2>4
<1>3. ASSUME NEW s \in Servers, DeleteDns(s)
      PROVE  \A t \in Servers : dns_udp'[t] => dns_udp[t] /\ dns_obj'[t] = dns_obj[t]
  BY <1>3 DEF DeleteDns, DnsTypeOK
<1> QED  BY <1>1, <1>2, <1>3 DEF UseDns

LEMMA ModeStep ==
  ASSUME NetworkTypeOK, ModeInv, ~deleted, NetworkNext, ~deleted'
  PROVE  ModeInv'
<1> USE DEF ModeInv
<1>1. CASE Initialize  BY <1>1 DEF Initialize, vars, object
<1>2. ASSUME NEW ok \in BOOLEAN, ConnectToWifiStation(ok) PROVE ModeInv'
  BY <1>2 DEF ConnectToWifiStation, vars
<1>3. ASSUME NEW ok \in BOOLEAN, SetupWifiAccessPoint(ok) PROVE ModeInv'
  BY <1>3 DEF SetupWifiAccessPoint, Start
<1>4. ASSUME NEW s \in Servers, NEW ok \in BOOLEAN, AddDnsServer(s, ok) PROVE ModeInv'
  BY <1>4 DEF AddDnsServer, vars, flags, radio, object
<1>5. CASE Delete  BY <1>5 DEF Delete
<1>6. CASE ServeLeases
  BY <1>6, ServeLeasesKeeps DEF network, flags, radio, object
<1>7. CASE UseDns
  BY <1>7, UseDnsKeeps DEF NetworkTypeOK, network, flags, radio, object
<1> QED  BY <1>1, <1>2, <1>3, <1>4, <1>5, <1>6, <1>7 DEF NetworkNext, Step

LEMMA ServerStep ==
  ASSUME NetworkTypeOK, ModeInv, ServerInv, ~deleted, NetworkNext, ~deleted'
  PROVE  ServerInv'
<1> USE DEF ServerInv
<1>1. CASE Initialize  BY <1>1 DEF Initialize, dns
<1>2. ASSUME NEW ok \in BOOLEAN, ConnectToWifiStation(ok) PROVE ServerInv'
  BY <1>2 DEF ConnectToWifiStation, dns
<1>3. ASSUME NEW ok \in BOOLEAN, SetupWifiAccessPoint(ok) PROVE ServerInv'
  BY <1>3 DEF SetupWifiAccessPoint, dns
<1>4. ASSUME NEW s \in Servers, NEW ok \in BOOLEAN, AddDnsServer(s, ok) PROVE ServerInv'
  BY <1>4 DEF AddDnsServer, StartDns, flags, NetworkTypeOK, DnsTypeOK
<1>5. CASE Delete  BY <1>5 DEF Delete
<1>6. CASE ServeLeases
  BY <1>6, ServeLeasesKeeps DEF network, flags, dns
<1>7. CASE UseDns
  BY <1>7, UseDnsKeeps DEF NetworkTypeOK, network, flags
<1> QED  BY <1>1, <1>2, <1>3, <1>4, <1>5, <1>6, <1>7 DEF NetworkNext, Step

\* The destructor stops what runs, unless its DNS server is gone.
LEMMA DeleteStep ==
  ASSUME NetworkTypeOK, ModeInv, ServerInv, Delete, ~misuse'
  PROVE  Stopped' /\ DriverDown'
<1>1. ~udp'  BY DEF Delete, Stop, ModeInv, vars
<1>2. \A s \in Servers : dns_udp[s] => s = attached_dns_server  BY DEF ServerInv
<1>3. \A s \in Servers : ~dns_udp'[s]
  <2>1. CASE attached_dns_server = NoServer
    BY <1>2, <2>1, NetworkConstantsAssumption
       DEF NetworkConstantsAssumption, Delete, StopAttached, dns
  <2>2. CASE attached_dns_server # NoServer
    <3>1. StopDns(attached_dns_server)  BY <2>2 DEF Delete, StopAttached
    <3> QED  BY <1>2, <2>2, <3>1 DEF StopDns, NetworkTypeOK, DnsTypeOK
  <2> QED  BY <2>1, <2>2
<1>4. DriverDown'  BY DEF Delete, Deinit, DriverDown, flags
<1> QED  BY <1>1, <1>3, <1>4 DEF Stopped

\* Behind the destructor nothing is started any more.
LEMMA DeletedStep ==
  ASSUME NetworkTypeOK, deleted, ~misuse, Stopped, DriverDown, NetworkNext
  PROVE  Stopped' /\ DriverDown' /\ deleted'
<1>1. CASE ServeLeases
  BY <1>1, ServeLeasesKeeps DEF Stopped, DriverDown, network, flags, radio, object, dns
<1>2. CASE UseDns
  BY <1>2, UseDnsKeeps
     DEF NetworkTypeOK, Stopped, DriverDown, network, flags, radio, object
<1>3. ServeLeases \/ UseDns
  BY DEF NetworkNext, Step, Initialize, ConnectToWifiStation, SetupWifiAccessPoint,
         AddDnsServer, Delete
<1> QED  BY <1>1, <1>2, <1>3

LEMMA NetworkInvStep ==
  ASSUME NetworkInv, [NetworkNext]_networkVars
  PROVE  NetworkInv'
<1>1. NetworkTypeOK /\ NetworkTypeOK'  BY NetworkTypeStep DEF NetworkInv
<1>2. CASE UNCHANGED networkVars
  BY <1>1, <1>2
     DEF networkVars, NetworkInv, ModeInv, ServerInv, Stopped, DriverDown, vars, dns,
         network, flags, radio, object
<1>3. CASE NetworkNext /\ deleted
  <2>1. ~misuse  BY <1>3 DEF NetworkNext
  <2> QED  BY <1>1, <1>3, <2>1, DeletedStep DEF NetworkInv
<1>4. CASE NetworkNext /\ ~deleted /\ ~deleted'
  BY <1>1, <1>4, ModeStep, ServerStep DEF NetworkInv
<1>5. CASE NetworkNext /\ ~deleted /\ deleted'
  <2>1. CASE Delete
    BY <1>1, <1>5, <2>1, DeleteStep DEF NetworkInv
  <2>2. CASE ~Delete
    <3>1. deleted' = deleted
      BY <1>1, <1>5, <2>2, ServeLeasesKeeps, UseDnsKeeps
         DEF NetworkNext, Step, Initialize, ConnectToWifiStation, SetupWifiAccessPoint,
             AddDnsServer, NetworkTypeOK, network, object
    <3> QED  BY <1>5, <3>1
  <2> QED  BY <2>1, <2>2
<1> QED  BY <1>2, <1>3, <1>4, <1>5

LEMMA NetworkInvAlways == NetworkSpec => []NetworkInv
<1> QED  BY NetworkInvInit, NetworkInvStep, PTL DEF NetworkSpec

\* As long as no call has failed, the radio is in at most one mode, the one the flags
\* say.
THEOREM Modes == NetworkSpec => []OneMode
<1>1. NetworkInv => OneMode  BY DEF NetworkInv, NetworkTypeOK, ModeInv, OneMode
<1> QED  BY <1>1, NetworkInvAlways, PTL

\* The DHCP server runs exactly while the access point is active, a DNS server only
\* then, and it is the one the destructor knows.
THEOREM Serving == NetworkSpec => []ServingMatchesMode
<1>1. NetworkInv => ServingMatchesMode
  BY DEF NetworkInv, ModeInv, ServerInv, ServingMatchesMode
<1> QED  BY <1>1, NetworkInvAlways, PTL

\* Behind the destructor no server runs.
THEOREM AllStopped == NetworkSpec => []Teardown
<1>1. NetworkInv => Teardown
  BY DEF NetworkInv, Stopped, DriverDown, Teardown
<1> QED  BY <1>1, NetworkInvAlways, PTL

----------------------------------------------------------------------------
(* Answers.                                                                *)

\* The record under which a host is looked up is the last one of its name.
RecordsInv ==
  \A s \in Servers, h \in Hosts : records[s][Normalized(h)] = latest[s][h.name]

LEMMA NormalizedHost ==
  ASSUME NEW h \in Hosts
  PROVE  /\ Normalized(h) \in Hosts /\ h.name \in Names
         /\ \A g \in Hosts : Normalized(g) = Normalized(h) <=> g.name = h.name
<1>1. Normalized(h) \in Hosts
  BY DnsConstantsAssumption DEF DnsConstantsAssumption, Normalized
<1>2. \A g \in Hosts : Normalized(g) = Normalized(h) <=> g.name = h.name
  BY DEF Normalized, Host
<1> QED  BY <1>1, <1>2 DEF Names

LEMMA RecordsStep ==
  ASSUME DnsTypeOK, RecordsInv, UseDns
  PROVE  RecordsInv'
<1> SUFFICES ASSUME NEW s \in Servers, NEW h \in Hosts
             PROVE  records'[s][Normalized(h)] = latest'[s][h.name]
  BY DEF RecordsInv, Normalized
<1>0. Normalized(h) \in Hosts /\ h.name \in Names  BY NormalizedHost
<1>1. records[s][Normalized(h)] = latest[s][h.name]  BY DEF RecordsInv
<1>2. ASSUME NEW t \in Servers, NEW g \in Hosts, NEW ip \in Ips \cup {NoIp},
             PutRecord(t, g, ip)
      PROVE  records'[s][Normalized(h)] = latest'[s][h.name]
  <2>1. Normalized(g) \in Hosts /\ g.name \in Names
        /\ (Normalized(g) = Normalized(h) <=> g.name = h.name)
    BY NormalizedHost
  <2>2. records'[s][Normalized(h)] =
          IF s = t /\ Normalized(h) = Normalized(g) THEN ip ELSE records[s][Normalized(h)]
    BY <1>0, <1>2, <2>1 DEF PutRecord, DnsTypeOK
  <2>3. latest'[s][h.name] = IF s = t /\ h.name = g.name THEN ip ELSE latest[s][h.name]
    BY <1>0, <1>2, <2>1 DEF PutRecord, DnsTypeOK
  <2> QED  BY <1>1, <2>1, <2>2, <2>3
<1>3. ASSUME NEW t \in Servers, ClearRecords(t)
      PROVE  records'[s][Normalized(h)] = latest'[s][h.name]
  BY <1>0, <1>1, <1>3 DEF ClearRecords, DnsTypeOK
<1>4. ASSUME NEW t \in Servers, NEW ip \in Ips \cup {NoIp}, PutFallback(t, ip)
      PROVE  records'[s][Normalized(h)] = latest'[s][h.name]
  BY <1>1, <1>4 DEF PutFallback
<1>5. ASSUME NEW t \in Servers, DeleteDns(t)
      PROVE  records'[s][Normalized(h)] = latest'[s][h.name]
  BY <1>0, <1>1, <1>5 DEF DeleteDns, DnsTypeOK
<1> QED
  BY <1>2, <1>3, <1>4, <1>5 DEF UseDns, Configure, AddRecord, RemoveRecord

LEMMA RecordsInvStep ==
  ASSUME NetworkTypeOK, RecordsInv, [NetworkNext]_networkVars
  PROVE  RecordsInv'
<1>1. CASE UseDns  BY <1>1, RecordsStep DEF NetworkTypeOK
<1>2. CASE UNCHANGED <<records, latest>>  BY <1>2 DEF RecordsInv, Normalized
<1>3. UseDns \/ UNCHANGED <<records, latest>>
  BY DEF NetworkNext, Step, Initialize, ConnectToWifiStation, SetupWifiAccessPoint,
         AddDnsServer, StartDns, Delete, StopAttached, StopDns, ServeLeases, networkVars,
         dns
<1> QED  BY <1>1, <1>2, <1>3

\* A running DNS server answers for every name with the address last given for it,
\* however the name is written, or else with the fallback.
THEOREM Answers == NetworkSpec => []Resolves
<1>1. NetworkInit => RecordsInv
  <2> SUFFICES ASSUME NetworkInit, NEW s \in Servers, NEW h \in Hosts
               PROVE  records[s][Normalized(h)] = latest[s][h.name]
    BY DEF RecordsInv
  <2> QED  BY NormalizedHost DEF NetworkInit, DnsInit
<1>2. ASSUME RecordsInv, NetworkTypeOK PROVE Resolves
  <2> SUFFICES ASSUME NEW s \in Servers, NEW h \in Hosts
               PROVE  Answer(s, Question(h)) =
                        IF ~dns_udp[s] \/ h.name = NoName THEN {}
                        ELSE IF latest[s][h.name] # NoIp THEN {latest[s][h.name]}
                        ELSE SetOf(fallback_ip[s])
    BY DEF Resolves
  <2>1. Answer(s, Question(h)) =
          IF dns_udp[s] /\ h.name # NoName THEN Lookup(s, h) ELSE {}
    BY DEF Answer, Question
  <2>2. records[s][Normalized(h)] = latest[s][h.name]  BY <1>2 DEF RecordsInv
  <2>3. Lookup(s, h) = IF latest[s][h.name] # NoIp THEN {latest[s][h.name]}
                       ELSE SetOf(fallback_ip[s])
    BY <2>2 DEF Lookup, SetOf
  <2> QED  BY <2>1, <2>3
<1> QED
  BY <1>1, <1>2, RecordsInvStep, NetworkTypes, PTL DEF NetworkSpec
=============================================================================
