\* Failures, kills and reboots, no signal; one more program that uses nbd.
SPECIFICATION Spec
CONSTANTS
  Prints = {plain, patched, withvcp}
  Vanilla = {plain}
  WithVcp = {withvcp}
  Devices = {nbd0, nbd1}
  Foreigners = TRUE
  Events = {"fail", "kill", "reboot"}
  MaxEvents = 3
  None = None
INVARIANTS TypeOK CacheSound ImagesOfThisRun NoDanglingMount
