\* No kills: runs clean up after themselves, and the next ones succeed.
SPECIFICATION FairSpec
CONSTANTS
  Prints = {plain, patched, withvcp}
  Vanilla = {plain}
  WithVcp = {withvcp}
  Devices = {nbd0}
  Foreigners = FALSE
  Events = {"fail", "reboot", "signal"}
  MaxEvents = 3
  None = None
INVARIANT NothingLeft
PROPERTY Recovers
