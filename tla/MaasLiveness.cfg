\* Fewer failures, of nodes and of HTTP calls, than attempts of deploy.sh.
SPECIFICATION FairSpec
CONSTANTS
  Machines = {cmp001, cmp002}
  MaxFaults = 3
  HttpFaults = TRUE
  AlreadyExists = FALSE
  Attempts = 3
  MaxTries = 4
  EraseEnv = FALSE
  Patient = TRUE
PROPERTY EventuallyDone
