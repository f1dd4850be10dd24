CONSTANTS
  t1 = t1  t2 = t2  t3 = t3  k1 = k1  k2 = k2  e1 = e1  e2 = e2  e3 = e3
  Threads = {t1, t2, t3}
  Keys = {k1, k2}
  Clients = {e1, e2, e3}
  MaxClients = 1
  None = None
SPECIFICATION FairSpec
INVARIANTS NeverClosedInUse NoClientLeaks
PROPERTY RetiredIsClosed
