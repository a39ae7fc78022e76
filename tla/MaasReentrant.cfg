\* One machine, two failures (a deployment, and a call of its hard retry).
SPECIFICATION FairSpec
CONSTANTS
  Machines = {cmp001}
  MaxFaults = 2
  HttpFaults = TRUE
  AlreadyExists = FALSE
  Attempts = 2
  MaxTries = 3
  EraseEnv = FALSE
  Patient = TRUE
PROPERTY Reentrant
