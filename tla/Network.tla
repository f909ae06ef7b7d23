------------------------------- MODULE Network -------------------------------
(***************************************************************************)
(* Network (pico_net/src/network.cpp) with the DHCP server it owns and the *)
(* DNS servers the application lends it: station and access-point mode,    *)
(* what is switched on and off with them, and the destructor.              *)
(*                                                                         *)
(* No call here polls while a server runs, and the destructor not at all,  *)
(* so each is one step.                                                    *)
(***************************************************************************)
EXTENDS DhcpServer, DnsServer

CONSTANT NoServer   \* stands for nullptr

ASSUME NetworkConstantsAssumption == NoServer \notin Servers

VARIABLES
  \* the fields
  is_initialized, is_connected_to_station_wifi, is_access_point_active,
  attached_dns_server,
  \* cyw43: the driver is up, and which of the two modes are on
  arch, sta_mode, ap_mode,
  deleted,      \* the Network object is gone
  failed,       \* history: a station connect or an access point has failed
  misuse        \* a DNS server that is gone was used

flags == <<is_initialized, is_connected_to_station_wifi, is_access_point_active>>
radio == <<arch, sta_mode, ap_mode>>
object == <<deleted, failed, misuse>>
network == <<flags, attached_dns_server, radio, object>>
networkVars == <<vars, dns, network>>

NetworkInit ==
  /\ Init /\ DnsInit
  /\ is_initialized = FALSE
  /\ is_connected_to_station_wifi = FALSE /\ is_access_point_active = FALSE
  /\ attached_dns_server = NoServer
  /\ arch = FALSE /\ sta_mode = FALSE /\ ap_mode = FALSE
  /\ deleted = FALSE /\ failed = FALSE /\ misuse = FALSE

----------------------------------------------------------------------------
(* The application's calls; one that is refused changes nothing.           *)

Initialize ==
  /\ ~deleted /\ ~is_initialized
  /\ is_initialized' = TRUE /\ arch' = TRUE
  /\ UNCHANGED <<vars, dns, is_connected_to_station_wifi, is_access_point_active,
                 attached_dns_server, sta_mode, ap_mode, object>>

\* Mutant of ConnectToWifiStation: an active access point is not in the way.
ConnectBesideAccessPoint(ok) ==
  /\ ~deleted /\ is_initialized /\ ~is_connected_to_station_wifi
  /\ sta_mode' = TRUE
  /\ is_connected_to_station_wifi' = ok
  /\ failed' = (failed \/ ~ok)
  /\ UNCHANGED <<vars, dns, is_initialized, is_access_point_active,
                 attached_dns_server, arch, ap_mode, deleted, misuse>>

\* connect_to_wifi_station; the mode stays on when the connect fails.
ConnectToWifiStation(ok) ==
  /\ ~deleted /\ is_initialized
  /\ ~is_access_point_active /\ ~is_connected_to_station_wifi
  /\ sta_mode' = TRUE
  /\ is_connected_to_station_wifi' = ok
  /\ failed' = (failed \/ ~ok)
  /\ UNCHANGED <<vars, dns, is_initialized, is_access_point_active,
                 attached_dns_server, arch, ap_mode, deleted, misuse>>

\* Mutant of SetupWifiAccessPoint: the result of start is not looked at.
SetupUnchecked(ok) ==
  /\ ~deleted /\ is_initialized
  /\ ~is_connected_to_station_wifi /\ ~is_access_point_active
  /\ ap_mode' = TRUE
  /\ Start(ok)
  /\ is_access_point_active' = TRUE
  /\ failed' = (failed \/ ~ok)
  /\ UNCHANGED <<dns, is_initialized, is_connected_to_station_wifi,
                 attached_dns_server, arch, sta_mode, deleted, misuse>>

\* setup_wifi_access_point; the mode stays on when the DHCP server does not start.
SetupWifiAccessPoint(ok) ==
  /\ ~deleted /\ is_initialized
  /\ ~is_connected_to_station_wifi /\ ~is_access_point_active
  /\ ap_mode' = TRUE
  /\ Start(ok)
  /\ is_access_point_active' = ok
  /\ failed' = (failed \/ ~ok)
  /\ UNCHANGED <<dns, is_initialized, is_connected_to_station_wifi,
                 attached_dns_server, arch, sta_mode, deleted, misuse>>

\* add_dns_server
AddDnsServer(s, ok) ==
  /\ ~deleted /\ is_initialized /\ is_access_point_active
  /\ dns_obj[s] = "alive" /\ StartDns(s, ok)
  /\ attached_dns_server' = IF ok THEN s ELSE attached_dns_server
  /\ UNCHANGED <<vars, flags, radio, object>>

\* cyw43_arch_deinit, behind either mode.
Deinit ==
  /\ arch' = (arch /\ ~is_connected_to_station_wifi /\ ~is_access_point_active)
  /\ sta_mode' = (sta_mode /\ arch')
  /\ ap_mode' = (ap_mode /\ arch')

StopAttached ==
  IF attached_dns_server = NoServer THEN misuse' = misuse /\ UNCHANGED dns
  ELSE IF dns_obj[attached_dns_server] = "gone" THEN misuse' = TRUE /\ UNCHANGED dns
  ELSE misuse' = misuse /\ StopDns(attached_dns_server)

\* Mutant of Delete: the DNS server is left running.
DeleteWithoutDns ==
  /\ ~deleted /\ deleted' = TRUE
  /\ IF is_access_point_active THEN Stop ELSE UNCHANGED vars
  /\ Deinit
  /\ UNCHANGED <<dns, flags, attached_dns_server, failed, misuse>>

\* The destructor; nothing can come between its calls.
Delete ==
  /\ ~deleted /\ deleted' = TRUE
  /\ IF is_access_point_active THEN Stop ELSE UNCHANGED vars
  /\ Deinit /\ StopAttached
  /\ UNCHANGED <<flags, attached_dns_server, failed>>

----------------------------------------------------------------------------

\* What goes on in the servers: see there.
ServeLeases ==
  /\ \/ Tick
     \/ \E c \in Clients : Discover(c)
     \/ \E c \in Clients, i \in Slots : Request(c, i, TRUE) \/ Request(c, i, FALSE)
  /\ UNCHANGED <<dns, network>>

UseDns ==
  /\ Configure \/ \E s \in Servers : DeleteDns(s)
  /\ UNCHANGED <<vars, network>>

Step ==
  \/ Initialize
  \/ \E ok \in BOOLEAN : ConnectToWifiStation(ok) \/ SetupWifiAccessPoint(ok)
  \/ \E s \in Servers, ok \in BOOLEAN : AddDnsServer(s, ok)
  \/ Delete
  \/ ServeLeases \/ UseDns

\* The model ends at a use of freed memory.
NetworkNext == ~misuse /\ Step

NetworkSpec == NetworkInit /\ [][NetworkNext]_networkVars

----------------------------------------------------------------------------
(* Properties.                                                             *)

\* Every variable has its type.
NetworkTypeOK ==
  /\ TypeOK /\ DnsTypeOK
  /\ is_initialized \in BOOLEAN /\ is_connected_to_station_wifi \in BOOLEAN
  /\ is_access_point_active \in BOOLEAN
  /\ attached_dns_server \in Servers \cup {NoServer}
  /\ arch \in BOOLEAN /\ sta_mode \in BOOLEAN /\ ap_mode \in BOOLEAN
  /\ deleted \in BOOLEAN /\ failed \in BOOLEAN /\ misuse \in BOOLEAN

\* The radio is in both modes only after a connect or an access point has failed:
\* as long as all calls succeed, the two modes exclude each other, and is_ready says
\* which one is on (connect_to_wifi_station, setup_wifi_access_point, is_ready).
OneMode ==
  ~failed /\ ~deleted =>
    /\ ~(sta_mode /\ ap_mode)
    /\ sta_mode <=> is_connected_to_station_wifi
    /\ ap_mode <=> is_access_point_active

\* The access point is active exactly while the DHCP server runs, so that
\* setup_wifi_access_point never finds the server running already, and a DNS server runs
\* only with it, only one, and the one that the destructor will stop
\* (setup_wifi_access_point, add_dns_server, ~DnsServer).
ServingMatchesMode ==
  ~deleted =>
    /\ udp <=> is_access_point_active
    /\ udp => arch /\ ap_mode
    /\ \A s \in Servers : dns_udp[s] => udp /\ s = attached_dns_server

\* Behind the destructor no server runs, and the driver is up only if neither mode was
\* reached (~Network).
Teardown ==
  deleted /\ ~misuse =>
    /\ ~udp /\ \A s \in Servers : ~dns_udp[s]
    /\ arch => ~is_connected_to_station_wifi /\ ~is_access_point_active
=============================================================================
