SPECIFICATION FairSpec
CONSTANTS
  r1 = r1
  r2 = r2
  loop = loop
  Requests = {r1, r2}
  Loop = loop
  pool_size = 1
  max_overflow = 0
  Writes = 2
  MaxFailures = 2
INVARIANTS
  TypeOK
  AnswerTellsStored
  ConfirmedIsStored
PROPERTIES
  NobodyWaitsForEver
  PoolRecovers
