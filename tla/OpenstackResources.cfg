\* Two computes for Barbican, a primary and a secondary for Gnocchi.
SPECIFICATION FairSpec
CONSTANTS
  cmp1 = cmp1
  cmp2 = cmp2
  mdb1 = mdb1
  mdb2 = mdb2
  cert = cert
  key = key
  alice = alice
  bob = bob
  low = low
  default = default
  Minions = {cmp1, cmp2, mdb1, mdb2}
  Stages <- MCStages
  Secrets = {cert, key}
  WithPayload = {cert}
  Users = {alice, bob}
  Retries = 2
  Policies = {low}
  Rules = {default}
  MaxTries = 3
  MaxFaults = 2
INVARIANTS TypeOK SecretsWhenDone RulesWhenDone
PROPERTY LastStageIdle EventuallyApplied
CHECK_DEADLOCK FALSE
