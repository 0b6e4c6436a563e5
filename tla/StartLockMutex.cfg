SPECIFICATION Spec
CONSTANTS
  post1 = post1
  post2 = post2
  maintain = maintain
  Nobody = Nobody
  Callers = {post1, post2, maintain}
  TTL = 10
  MaxFaults = 0
INVARIANTS OneAtATime
