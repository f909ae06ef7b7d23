------------------------------ MODULE DnsServer ------------------------------
(***************************************************************************)
(* DnsServer objects (pico_net/src/dns_server.cpp), which the application  *)
(* makes, fills with records and deletes, and which Network starts and     *)
(* stops.  A question is answered in one callback and changes nothing, so  *)
(* that the answer is an operator of the state.                            *)
(*                                                                         *)
(* A host is a name and a way to write it: with letters of upper case,     *)
(* with dots at the end.  NoName is the empty name.                        *)
(***************************************************************************)
EXTENDS Integers

CONSTANTS
  Servers,   \* the DnsServer objects
  Hosts,     \* hosts in the application's calls and in questions
  NoName,    \* the name of the DNS root
  Ips,       \* addresses that ip4addr_aton accepts
  NoIp       \* stands for no record, or for no fallback

Host(name, upper, dots) == [name |-> name, upper |-> upper, dots |-> dots]

\* With a host, it as normalize_host leaves it is among the hosts.
ASSUME DnsConstantsAssumption ==
  /\ NoIp \notin Ips
  /\ \A h \in Hosts :
       /\ h = Host(h.name, h.upper, h.dots) /\ h.upper \in BOOLEAN /\ h.dots \in Nat
       /\ Host(h.name, FALSE, 0) \in Hosts

VARIABLES
  dns_obj,      \* "alive", or "gone" once deleted
  dns_udp,      \* the field udp is not nullptr
  records, fallback_ip,
  latest        \* history: what the application has last said about a name

dns == <<dns_obj, dns_udp, records, fallback_ip, latest>>

Names == {h.name : h \in Hosts}

DnsInit ==
  /\ dns_obj = [s \in Servers |-> "alive"]
  /\ dns_udp = [s \in Servers |-> FALSE]
  /\ records = [s \in Servers |-> [h \in Hosts |-> NoIp]]
  /\ fallback_ip = [s \in Servers |-> NoIp]
  /\ latest = [s \in Servers |-> [n \in Names |-> NoIp]]

----------------------------------------------------------------------------
(* Records.                                                                *)

Empty(h) == h.name = NoName /\ h.dots = 0

\* Mutant of Normalized: the letters stay.
NormalizedDots(h) == Host(h.name, h.upper, 0)

\* normalize_host
Normalized(h) == Host(h.name, FALSE, 0)

\* add_record with a host and an address it accepts, and remove_record; NoIp
\* stands for the record that is not there.
PutRecord(s, h, ip) ==
  /\ dns_obj[s] = "alive"
  /\ records' = [records EXCEPT ![s][Normalized(h)] = ip]
  /\ latest' = [latest EXCEPT ![s][h.name] = ip]
  /\ UNCHANGED <<dns_obj, dns_udp, fallback_ip>>

AddRecord(s, h, ip) == ~Empty(h) /\ PutRecord(s, h, ip)
RemoveRecord(s, h) == PutRecord(s, h, NoIp)

ClearRecords(s) ==
  /\ dns_obj[s] = "alive"
  /\ records' = [records EXCEPT ![s] = [h \in Hosts |-> NoIp]]
  /\ latest' = [latest EXCEPT ![s] = [n \in Names |-> NoIp]]
  /\ UNCHANGED <<dns_obj, dns_udp, fallback_ip>>

\* set_fallback_ip, and clear_fallback_ip with NoIp.
PutFallback(s, ip) ==
  /\ dns_obj[s] = "alive"
  /\ fallback_ip' = [fallback_ip EXCEPT ![s] = ip]
  /\ UNCHANGED <<dns_obj, dns_udp, records, latest>>

\* What the application does with a server by itself.
Configure ==
  \E s \in Servers :
    \/ \E h \in Hosts : RemoveRecord(s, h) \/ \E ip \in Ips : AddRecord(s, h, ip)
    \/ ClearRecords(s)
    \/ \E ip \in Ips \cup {NoIp} : PutFallback(s, ip)

----------------------------------------------------------------------------
(* The socket.                                                             *)

\* start: bind_socket fails without a socket, and while another server has the port.
StartDns(s, ok) ==
  /\ ~dns_udp[s]
  /\ ok => \A t \in Servers : ~dns_udp[t]
  /\ dns_udp' = [dns_udp EXCEPT ![s] = ok]
  /\ UNCHANGED <<dns_obj, records, fallback_ip, latest>>

\* stop; the address, the records and the fallback stay.
StopDns(s) ==
  /\ dns_udp' = [dns_udp EXCEPT ![s] = FALSE]
  /\ UNCHANGED <<dns_obj, records, fallback_ip, latest>>

\* The destructor.
DeleteDns(s) ==
  /\ dns_obj[s] = "alive"
  /\ dns_obj' = [dns_obj EXCEPT ![s] = "gone"]
  /\ dns_udp' = [dns_udp EXCEPT ![s] = FALSE]
  /\ records' = [records EXCEPT ![s] = [h \in Hosts |-> NoIp]]
  /\ latest' = [latest EXCEPT ![s] = [n \in Names |-> NoIp]]
  /\ fallback_ip' = [fallback_ip EXCEPT ![s] = NoIp]

----------------------------------------------------------------------------
(* Answers.  No answer is the empty set, an answer a set of one address.   *)

SetOf(ip) == {ip} \ {NoIp}

\* lookup_host
Lookup(s, h) ==
  LET found == SetOf(records[s][Normalized(h)])
  IN IF found # {} THEN found ELSE SetOf(fallback_ip[s])

\* A datagram: is it a response, its opcode, how many questions, does it end
\* before its question does, and the host of the first question.
Question(h) ==
  [response |-> FALSE, opcode |-> 0, questions |-> 1, short |-> FALSE, host |-> h]

\* handle_request with extract_qname: an answer is sent, or the datagram dropped.
Answer(s, q) ==
  IF /\ dns_udp[s] /\ ~q.response /\ q.opcode = 0 /\ q.questions >= 1 /\ ~q.short
     /\ q.host.name # NoName
  THEN Lookup(s, q.host)
  ELSE {}

----------------------------------------------------------------------------
(* Properties.                                                             *)

DnsTypeOK ==
  /\ dns_obj \in [Servers -> {"alive", "gone"}]
  /\ dns_udp \in [Servers -> BOOLEAN]
  /\ records \in [Servers -> [Hosts -> Ips \cup {NoIp}]]
  /\ fallback_ip \in [Servers -> Ips \cup {NoIp}]
  /\ latest \in [Servers -> [Names -> Ips \cup {NoIp}]]

\* A server that runs answers a question for a name, however it is written, with the
\* address that was last added for that name, however it was written then, or else
\* with the fallback; it answers nothing else (add_record, remove_record, lookup_host,
\* extract_qname).
Resolves ==
  \A s \in Servers, h \in Hosts :
    Answer(s, Question(h)) =
      IF ~dns_udp[s] \/ h.name = NoName THEN {}
      ELSE IF latest[s][h.name] # NoIp THEN {latest[s][h.name]}
      ELSE SetOf(fallback_ip[s])
=============================================================================
