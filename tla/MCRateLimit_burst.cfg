SPECIFICATION Spec
CONSTANTS
  p1 = p1 p2 = p2 a1 = a1 a2 = a2 c1 = c1 c2 = c2
  NoBucket = NoBucket NoReq = NoReq Redis = Redis
  Procs = {p1, p2}
  Replicas = {a1, a2}
  Clients = {c1, c2}
  Pointers = {1, 2, 3, 4}
  Deployments <- LocalSites
  MaxRequests = 1
  GetMultiplier = 2
  Window = 2
  Second = 2
  CleanupAge = 2
  Cooldown = 2
  MaxStoreEntries = 1
  MaxTime = 3
INVARIANT BurstBounded
SYMMETRY Symmetry
