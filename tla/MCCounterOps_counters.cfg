SPECIFICATION FairSpec
CONSTANTS
  p1 = p1 p2 = p2 t1 = t1 t2 = t2 c1 = c1 c2 = c2 c3 = c3 k1 = k1 k2 = k2
  named = named unnamed = unnamed
  NoLabel = unnamed NoOp = NoOp NoTenant = NoTenant
  NoProc = NoProc NoReq = NoReq NoCounter = NoCounter
  Procs = {p1, p2}
  Tenants = {t1, t2}
  Owner <- Owners
  Counters = {c1, c2, c3}
  Seeded = {c1, c2}
  SeedValue <- Values
  Labels = {named, unnamed}
  SeedLabel <- NoLabels
  MaxDelta <- UpToTwo
  MaxInt = 3
  Keys = {k1, k2}
  Requests <- MixedRequests
INVARIANTS TypeOK AnswerTruthful AuditMatchesHistory NoWaitCycle
PROPERTIES RefinesLedger CanonicalRetryHonoured Answered
