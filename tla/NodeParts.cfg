SPECIFICATION Spec
CONSTANTS
  Threads = {t1}
  Procs = {p1, p2, p3}
  Mngrs = {m1, m2}
  Callers = {c1, c2}
  Monitors = {r1, r2, r3}
  port = port
  Params = {port}
  Kinds <- ValueKinds
  Default <- FileKinds
  Absent = Absent
  n1 = n1
  n2 = n2
  Conns = {n1, n2}
  Tries = 2
  Pool = 1
  Uses <- Asked
  None = None
INVARIANTS OneClient AckedSurvives
PROPERTIES StartsClients StopReturns SwitchOffEnds StopExits CallEnds
