SPECIFICATION FairSpec
CONSTANTS
  b1 = b1
  b2 = b2
  p1 = p1
  p2 = p2
  Browser = {b1, b2}
  Tab <- TwoTabs
  Layouts <- OneBrowserOrTwo
  User = {u1, u2}
  Attempt = {a1, a2}
  OpSession = {o1, o2}
  Code = {k1, k2}
  RpUser = {w1, w2, w3}
  RpSession = {s1, s2, s3, s4, s5}
  Request = {r1, r2}
  MaxMishaps = 1
  None = None
INVARIANTS
  TypeOK
  SessionsComeFromOwnLogins
PROPERTIES
  AbandonedSessionsAreInert
  LoginsSucceed
\* The keys, the reloads and the faults run out, not the code.
CHECK_DEADLOCK FALSE
