CONSTANTS
  Threads = {t1, t2, t3}
  Objects = {o1, o2, o3}
  Merchants = {m}
  Consumers = {a}
  Passwords = {short, p1, p2}
  WellFormed = {p1, p2}
  Digests <- MCDigests
  Encrypt <- MCEncrypt
  Amounts <- MCAmounts
  MaxDeposit = 2
  MaxRestarts = 1
  None = None
SYMMETRY Perms
SPECIFICATION CacheFillSpec
INVARIANT PointersLive
PROPERTY RequestsAreAtomic
