SPECIFICATION Spec
CONSTANTS
  p1 = p1 p2 = p2 t1 = t1 ghost = ghost
  NoTenant = NoTenant Never = Never NoCred = NoCred NoReq = NoReq
  Procs = {p1, p2}
  Tenants = {t1, ghost}
  Existing = {t1}
  Allowed = {"read", "write"}
  Default = {"read"}
  Requests <- Traffic
  MaxIds = 2
  MaxTime = 1
INVARIANTS TypeOK TrailExact RotationKeepsGrant RevocationFinal
SYMMETRY Symmetry
