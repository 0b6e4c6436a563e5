SPECIFICATION Spec
CONSTANTS
  c1 = c1
  c2 = c2
  a1 = a1
  a2 = a2
  v1 = v1
  b1 = b1
  b2 = b2
  request = request
  backfill = backfill
  None = None
  Clients = {c1, c2}
  Accounts = {a1, a2}
  Versions = {v1}
  CleanVersions = {v1}
  Patches = {1}
  Sources = {request, backfill}
  Bodies = {b1, b2}
  Ops <- Calls
  MaxTries = 2
  ETags = {1, 2, 3, 4}
SYMMETRY Symm
INVARIANTS TypeOK MetaOfTheBytes
PROPERTIES ClaimsKept ImplementsAtomicVault
