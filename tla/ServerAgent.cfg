SPECIFICATION Spec
CONSTANTS
  t1 = t1
  t2 = t2
  e1 = e1
  e2 = e2
  tcp = tcp
  udp = udp
  icmp = icmp
  Threads = {t1}
  Endpoints = {e1, e2}
  Servers = {tcp, udp, icmp}
  Udp = {udp}
  Unknown = {icmp}
  Procs = {p1, p2, p3}
  Mngrs = {m1, m2}
  None = None
  Events = {"register", "death", "restart"}
  Regimes <- OneAtATime
SYMMETRY Symmetry
INVARIANTS NoStray OneWorker RunningSaved
PROPERTIES StopsAll StartsAllSaved
