\* A source to keep, with two selections, and one to be removed; two failures
\* in three attempts, and waits that may time out.
SPECIFICATION FairSpec
CONSTANTS
  daily = daily
  stable = stable
  bionic = bionic
  xenial = xenial
  trusty = trusty
  Urls = {daily, stable}
  Selections = {bionic, xenial, trusty}
  SourceOf <- MCSourceOf
  Sources = {daily}
  DeleteOthers = TRUE
  Wanted = {bionic}
  Racks = {mas01, rack02}
  PostTries = 2
  MaxTries = 3
  MaxFaults = 2
INVARIANTS TypeOK SourcesOfPillar ImagesWhenDone
PROPERTIES DeletedAtRest EventuallyApplied
