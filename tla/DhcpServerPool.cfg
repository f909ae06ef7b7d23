\* Two clients for one address, a clock of 24 ticks in granules of four, leases of six.
SPECIFICATION Spec
CONSTANTS
  c1 = c1
  c2 = c2
  Clients = {c1, c2}
  NoMac = NoMac
  MaxIp = 1
  Granule = 4
  Granules = 6
  LeaseTime = 6
  MaxIdle = 10
SYMMETRY Symmetry
INVARIANTS
  PoolRecovers
