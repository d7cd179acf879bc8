SPECIFICATION Spec
CONSTANTS
  Token = {t1, t2, t3}
  IP = {a1, a2}
  Request = {r1, r2}
  Size = {1, 2}
  None = None
  TTL = 2
  MaxEntriesPerIP = 2
  MaxTotalBytes = 3
  MaxNow = 4
SYMMETRY Symmetry
INVARIANTS StoreSound OneCommitPerUpload RetryPossible
PROPERTIES ExpiredIsNotTaken KeepsPromise
