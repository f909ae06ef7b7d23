----------------------------- MODULE DhcpServer -----------------------------
(***************************************************************************)
(* DhcpServer (pico_net/src/dhcp_server.cpp): a table of leases, one per   *)
(* address, whose ends are kept as the upper half of a millisecond clock   *)
(* that wraps.  A request is handled in one callback.                      *)
(*                                                                         *)
(* A client that has received an ACK uses the address for the lease time.  *)
(* Replies may be lost; a client may ask for any address at any time, for  *)
(* instance for one it was offered or had before.                          *)
(***************************************************************************)
EXTENDS Integers

CONSTANTS
  Clients,    \* hardware addresses
  NoMac,      \* zero_mac
  MaxIp,      \* DHCPS_MAX_IP, the number of addresses
  Granule,    \* 2^16: what a step of the 16 bits of expiry stands for
  Granules,   \* 2^16: the number of values of expiry
  LeaseTime,  \* DEFAULT_LEASE_TIME_S in ticks
  MaxIdle     \* bound: how far idle counts

Wrap == Granule * Granules   \* 2^32 ticks

\* An end of a lease in the future is less than half the clock away.
ASSUME ConstantsAssumption ==
  /\ NoMac \notin Clients
  /\ MaxIp \in Nat \ {0} /\ Granule \in Nat \ {0} /\ Granules \in Nat \ {0}
  /\ LeaseTime \in Nat \ {0} /\ MaxIdle \in Nat
  /\ 2 * (LeaseTime + Granule) <= Wrap

Slots == 0..(MaxIp - 1)

VARIABLES
  udp,      \* the field is not nullptr
  mac,      \* leases[i].mac
  expiry,   \* leases[i].expiry
  ticks,    \* cyw43_hal_ticks_ms
  left,     \* how long a client may still use an address
  idle      \* history: how long ago an address was last granted, up to MaxIdle

vars == <<udp, mac, expiry, ticks, left, idle>>

NoLeases == mac' = [i \in Slots |-> NoMac] /\ expiry' = [i \in Slots |-> 0]
NoClients ==
  left' = [c \in Clients |-> [i \in Slots |-> 0]] /\ idle' = [i \in Slots |-> MaxIdle]

\* The clock may have any value when the server is constructed.
Init ==
  /\ udp = FALSE
  /\ mac = [i \in Slots |-> NoMac]
  /\ expiry = [i \in Slots |-> 0]
  /\ ticks \in 0..(Wrap - 1)
  /\ left = [c \in Clients |-> [i \in Slots |-> 0]]
  /\ idle = [i \in Slots |-> MaxIdle]

\* start: an error from a server that runs, or without a socket or a port.
Start(ok) ==
  /\ ok => ~udp
  /\ IF udp THEN UNCHANGED vars
     ELSE udp' = ok /\ NoLeases /\ UNCHANGED <<ticks, left, idle>>

\* stop, and the destructor.  Only ~Network calls it, before it shuts the access
\* point down, so the clients lose the network with the server.
Stop ==
  IF udp THEN udp' = FALSE /\ NoLeases /\ NoClients /\ UNCHANGED ticks
  ELSE UNCHANGED vars

----------------------------------------------------------------------------
(* Leases.                                                                 *)

EndsAt(i) == expiry[i] * Granule + Granule - 1
Remaining(i) == (EndsAt(i) - ticks) % Wrap

\* Mutants of Expired: without the low half of the clock; without its wrap.
ExpiredEarly(i) == (expiry[i] * Granule - ticks) % Wrap >= Wrap \div 2
ExpiredUnwrapped(i) == EndsAt(i) < ticks

\* The lease has ended: (expiry << 16 | 0xffff) - now is negative as an int32_t.
Expired(i) == Remaining(i) >= Wrap \div 2

\* The smallest of a set of slots, MaxIp if there is none.
First(S) == IF S = {} THEN MaxIp ELSE CHOOSE i \in S : \A j \in S : i <= j

\* find_or_allocate_lease: the first lease of the client, or else the first one
\* that is free or has ended.
Own(c) == First({i \in Slots : mac[i] = c})
Reusable == First({i \in Slots : mac[i] = NoMac \/ Expired(i)})
Offer(c) == IF Own(c) # MaxIp THEN Own(c) ELSE Reusable

\* A slot found before the client's own loses its client even so.
Discover(c) ==
  /\ udp
  /\ mac' = [i \in Slots |-> IF i = Reusable /\ i < Own(c) THEN NoMac ELSE mac[i]]
  /\ UNCHANGED <<udp, expiry, ticks, left, idle>>

\* Mutant of Grants: a renewal is refused.
GrantsFree(c, i) == mac[i] = NoMac

\* A request is granted, else it is dropped and changes nothing.
Grants(c, i) == mac[i] \in {c, NoMac}

\* Mutant of NewExpiry: the sum is kept in more than 32 bits.
NewExpiryWide == (ticks + LeaseTime) \div Granule

\* The cast of the upper half of the 32-bit sum to uint16_t.
NewExpiry == ((ticks + LeaseTime) % Wrap) \div Granule

\* The client receives the ACK, or it does not.
Request(c, i, received) ==
  /\ udp /\ Grants(c, i)
  /\ mac' = [mac EXCEPT ![i] = c]
  /\ expiry' = [expiry EXCEPT ![i] = NewExpiry]
  /\ left' = IF received THEN [left EXCEPT ![c][i] = LeaseTime] ELSE left
  /\ idle' = [idle EXCEPT ![i] = 0]
  /\ UNCHANGED <<udp, ticks>>

\* A tick of the clock, for server and clients alike.
Tick ==
  /\ ticks' = (ticks + 1) % Wrap
  /\ left' = [c \in Clients |->
                [i \in Slots |-> IF left[c][i] = 0 THEN 0 ELSE left[c][i] - 1]]
  /\ idle' = [i \in Slots |-> IF idle[i] = MaxIdle THEN MaxIdle ELSE idle[i] + 1]
  /\ UNCHANGED <<udp, mac, expiry>>

Next ==
  \/ Start(TRUE) \/ Start(FALSE) \/ Stop \/ Tick
  \/ \E c \in Clients : Discover(c)
  \/ \E c \in Clients, i \in Slots : Request(c, i, TRUE) \/ Request(c, i, FALSE)

Spec == Init /\ [][Next]_vars

----------------------------------------------------------------------------
(* Properties.                                                             *)

\* The table, the clock and the times of the clients have their types.
TypeOK ==
  /\ udp \in BOOLEAN
  /\ mac \in [Slots -> Clients \cup {NoMac}]
  /\ expiry \in [Slots -> 0..(Granules - 1)]
  /\ ticks \in 0..(Wrap - 1)
  /\ left \in [Clients -> [Slots -> 0..LeaseTime]]
  /\ idle \in [Slots -> 0..MaxIdle]

\* No two clients may use the same address, however discovers, requests, lost
\* replies and the wrap of the clock fall together (handle_request).
Exclusive ==
  \A c, d \in Clients, i \in Slots : left[c][i] > 0 /\ left[d][i] > 0 => c = d

\* No client is offered an address that another one may use
\* (find_or_allocate_lease).
OfferFree ==
  udp => \A c, d \in Clients : Offer(c) # MaxIp /\ left[d][Offer(c)] > 0 => c = d

\* A client that may use an address and requests it (by the requested-address
\* option, the only form handle_request answers) is granted it again: neither the
\* discovers of others nor the clock take it away.
RenewalGranted ==
  udp => \A c \in Clients, i \in Slots : left[c][i] > 0 => Grants(c, i)

\* While an address has not been granted for longer than a lease lasts, every
\* client is offered one.
PoolRecovers ==
  udp /\ (\E i \in Slots : idle[i] >= LeaseTime + Granule) =>
    \A c \in Clients : Offer(c) # MaxIp

\* The same, as long as the lease has not ended for more than half the clock: this is
\* how far find_or_allocate_lease keeps the promise.
PoolRecoversInTime ==
  udp /\ (\E i \in Slots : /\ LeaseTime + Granule <= idle[i] /\ idle[i] < MaxIdle
                           /\ 2 * (idle[i] - LeaseTime) <= Wrap) =>
    \A c \in Clients : Offer(c) # MaxIp
=============================================================================
