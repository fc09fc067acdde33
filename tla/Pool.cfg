SPECIFICATION Spec
CONSTANTS
  k1 = k1
  k2 = k2
  k3 = k3
  t1 = t1
  t2 = t2
  Key <- MCKeys
  Session = {s1, s2, s3}
  Thread <- MCThread
  Keeper = {g}
  Background = {g}
  MaxActive = 1
  MaxAttempts = 2
  None = None
SYMMETRY Interchange
INVARIANTS
  PoolAccounts
  HeldExclusively
PROPERTY
  KeepaliveSparesUsers
