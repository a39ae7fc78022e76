\* Partitions, a RAID on them and a group on that; two faults in four attempts.
SPECIFICATION FairSpec
CONSTANTS
  sda = sda
  sdb = sdb
  md0 = md0
  vg0 = vg0
  Root = vgroot
  Disks = {sda, sdb}
  Raids = {md0}
  Groups = {vg0}
  Order <- MCOrder
  Kids <- MCKids
  Members <- MCMembers
  Final <- MCFinal
  BootDevice = sda
  RootDevice = {}
  Layouts = {"none", "flat", "lvm", "custom"}
  MaxTries = 4
  MaxFaults = 2
  MaxRuns = 2
INVARIANTS TypeOK LayoutComplete DeployedAsPlanned
PROPERTY EventuallyLaidOut
