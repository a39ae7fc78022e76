\* Two fabrics, three subnets, discoveries at any time, one fault and a rerun.
SPECIFICATION FairSpec
CONSTANTS
  pxe_admin = pxe_admin
  mgmt = mgmt
  pxe_net = pxe_net
  edge_net = edge_net
  mgmt_net = mgmt_net
  pool = pool
  Fabrics = {pxe_admin, mgmt}
  FabricOrder <- MCFabricOrder
  Vlans <- MCVlans
  Dhcp <- MCDhcp
  Cidrs = {pxe_net, edge_net, mgmt_net}
  CidrOrder <- MCCidrOrder
  FabricOf <- MCFabricOf
  Ranges <- MCRanges
  Nics <- MCNics
  MaxTries = 5
  MaxFaults = 1
  MaxRuns = 1
INVARIANTS TypeOK RegionConfigured NotMisplaced
PROPERTIES Stable EventuallyConfigured
