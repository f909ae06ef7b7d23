\* Two clients for two addresses, leases of two on a clock of twelve; two DNS servers, one name.
SPECIFICATION NetworkSpec
CONSTANTS
  c1 = c1
  c2 = c2
  Clients = {c1, c2}
  NoMac = NoMac
  MaxIp = 2
  Granule = 3
  Granules = 4
  LeaseTime = 2
  MaxIdle = 0
  s1 = s1
  s2 = s2
  ip1 = ip1
  ip2 = ip2
  Servers = {s1, s2}
  NoServer = NoServer
  name = name
  Hosts <- MCHosts
  NoName = NoName
  Ips = {ip1, ip2}
  NoIp = NoIp
SYMMETRY Symmetry
INVARIANTS
  NetworkTypeOK
  Exclusive
  OfferFree
  RenewalGranted
  Resolves
  OneMode
  ServingMatchesMode
  Teardown
\* The model ends when the destructor uses a DNS server that is gone.
CHECK_DEADLOCK FALSE
