SPECIFICATION HistorySpec
CONSTANTS
  t1 = t1 t2 = t2 c1 = c1 c2 = c2 c3 = c3 c4 = c4 k1 = k1 k2 = k2
  named = named other = other unnamed = unnamed
  NoLabel = unnamed NoOp = NoOp NoTenant = NoTenant
  NoCursor = NoCursor NoCounter = NoCounter
  Tenants = {t1, t2}
  Owner <- Owners
  Counters = {c1, c2, c3, c4}
  Seeded = {c1, c2, c4}
  SeedValue <- Values
  Labels = {named, other, unnamed}
  SeedLabel <- SeedNames
  MaxDelta <- UpToTwo
  MaxInt = 4
  Keys = {k1, k2}
  Requests <- WriteRequests
  Rank <- Ranks
  Limits = {1, 2}
  BatchSize = 1
  Damages <- Damaged
  MaxNow = 1
INVARIANTS HistoryTypeOK WalkFaithful ReportExact
CHECK_DEADLOCK FALSE
