\* One signal.
SPECIFICATION Spec
CONSTANTS
  Prints = {patched}
  Vanilla = {}
  WithVcp = {}
  Devices = {nbd0}
  Foreigners = FALSE
  Events = {"signal"}
  MaxEvents = 1
  None = None
INVARIANT CacheSound
