\* Every option, failures, crashes, signals at any point, and two more runs.
SPECIFICATION FairSpec
CONSTANTS
  NStates = 3
  MaasAt = {2}
  MaxAttempts = 2
  MaxSignals = 2
  MaxRuns = 2
INVARIANT TypeOK
PROPERTIES IsInstallation AppliedInOrder RunEnds
