SPECIFICATION Spec
CONSTANTS
  p1 = p1 p2 = p2 r1 = r1 r2 = r2 c1 = c1 c2 = c2 c3 = c3
  NoEntry = NoEntry NoReplica = NoReplica NoCounter = NoCounter
  Procs = {p1, p2}
  Replicas = {r1, r2}
  Counters = {c1, c2}
  Backends = {"memory", "redis"}
  Capacity = 1
  TTL = 1
  Cooldown = 1
  MaxLag = 1
  MaxVersion = 1
  MaxTime = 2
INVARIANTS TypeOK StoreConsistent
PROPERTY ServedRecent
SYMMETRY Symmetry
