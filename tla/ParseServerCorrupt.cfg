SPECIFICATION Spec
CONSTANTS
  s1 = s1
  s2 = s2
  r1 = r1
  r2 = r2
  u1 = u1
  u2 = u2
  b1 = b1
  w1 = w1
  None = None
  Servers = {s1, s2}
  Slots = 1
  Requests = {r1, r2}
  Uploads = {}
  Posts = {}
  Backfills = {}
  Workers = {}
  Bodies = {"good", "rejected", "page", "garbled"}
  Quality <- Itself
INVARIANTS CorruptMeansBroken
