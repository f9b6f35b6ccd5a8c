SPECIFICATION Spec
CONSTANTS
  p1 = p1 p2 = p2 c1 = c1 c2 = c2
  NoDoc = NoDoc NoReq = NoReq NoProc = NoProc
  Procs = {p1, p2}
  Counters = {c1, c2}
  Existing = {c1}
  MaxVersions = 4
INVARIANTS TypeOK VersionSpentOnce NoLostUpdate
SYMMETRY Symmetry
