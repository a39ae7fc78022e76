\* Two machines, HTTP failures and node failures, ERASE_ENV, three attempts.
SPECIFICATION Spec
CONSTANTS
  Machines = {cmp001, cmp002}
  MaxFaults = 5
  HttpFaults = TRUE
  AlreadyExists = FALSE
  Attempts = 2
  MaxTries = 3
  EraseEnv = TRUE
  Patient = FALSE
SYMMETRY MachineSymmetry
INVARIANTS TypeOK DoneMeansDeployed HardRetryBudget LayoutUnlessRepaired
PROPERTY DeployedUntouched
