SPECIFICATION CallsSpec
CONSTANTS
  s1 = s1
  r1 = r1
  r2 = r2
  u1 = u1
  u2 = u2
  f1 = f1
  w1 = w1
  c1 = c1
  c2 = c2
  a1 = a1
  a2 = a2
  v1 = v1
  b1 = b1
  b2 = b2
  request = request
  post1 = post1
  post2 = post2
  maintain = maintain
  None = None
  Nobody = Nobody
  Servers = {s1}
  Slots = 2
  Requests = {r1, r2}
  Uploads = {u1, u2}
  Posts = {u2}
  Backfills = {f1}
  Workers = {w1}
  Bodies = {"good", "rejected", "page", "garbled"}
  Quality <- Itself
  Clients = {c1, c2}
  Accounts = {a1, a2}
  Versions = {v1}
  CleanVersions = {v1}
  Patches = {1}
  Sources = {request}
  StoredBodies = {b1, b2}
  MaxTries = 2
  ETags = {1, 2, 3, 4}
  Callers = {post1, post2, maintain}
  TTL = 2
  MaxFaults = 2
INVARIANTS TypeOK SlotsAccounted
PROPERTIES OnlyDemosStored ServerFrees CallsEnd LockGoes
