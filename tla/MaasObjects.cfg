\* Two devices, two machines of which one is deployed already, two NICs each.
SPECIFICATION FairSpec
CONSTANTS
  mas01 = mas01
  dns = dns
  tag = tag
  key = key
  ipmi1 = ipmi1
  ipmi2 = ipmi2
  node1 = node1
  node2 = node2
  eth0 = eth0
  eth1 = eth1
  Minions = {mas01}
  Stages <- MCStages
  Things = {dns, tag, key}
  Devices = {ipmi1, ipmi2}
  Machines = {node1, node2}
  Deployed = {node2}
  Nics = {eth0, eth1}
  NicOrder <- MCNicOrder
  MaxTries = 4
  MaxFaults = 2
INVARIANTS TypeOK InPlaceWhenDone AddressesWhenDone
PROPERTY NeverDisturbed EventuallyInPlace
CHECK_DEADLOCK FALSE
