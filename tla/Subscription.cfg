SPECIFICATION Spec
CONSTANTS
  c1 = c1
  c2 = c2
  s1 = s1
  s2 = s2
  Client <- MCClient
  Stream <- MCStreams
  Home <- MCHome
  Channel = {h1, h2}
  Thread = {t1, t2}
  Native = {n1}
  SdkQuiesces = TRUE
  None = None
INVARIANTS
  ThunkRetained
  QuietAfterClose
  SubscriptionsAccounted
