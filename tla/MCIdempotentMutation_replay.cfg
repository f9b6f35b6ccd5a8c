SPECIFICATION FairSpec
CONSTANTS
  p1 = p1 p2 = p2 sT = sT sC = sC red = red blue = blue
  NoSlot = NoSlot NoProc = NoProc NoReq = NoReq NoRow = NoRow NoRec = NoRec
  Procs = {p1, p2}
  Slots = {sT, sC}
  Kinds = {"tenant", "credential"}
  Bodies = {red, blue}
  Requests <- MixedRequests
  TTL = 2
  MaxTime = 2
  MaxIds = 2
INVARIANTS TypeOK OncePerWindow RecordMatchesEffect SecretShownOnce
PROPERTIES ReplayHonoured Answered
