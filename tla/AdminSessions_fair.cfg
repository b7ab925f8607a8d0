SPECIFICATION FairSpec
CONSTANTS
  Session = {s1, s2}
  Tab = {t1, t2}
  MayExpire = {s1}
  MaxFaults = 1
  MaxLoads = 2
  None = None
INVARIANT TypeOK
PROPERTIES
  EndedSessionsStayOver
  AbandonedSessionsAreInert
  LoginsReachTheConsole
  LogoutsEndTheSession
\* The keys, the faults and the page loads run out, not the code.
CHECK_DEADLOCK FALSE
