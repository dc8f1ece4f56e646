SPECIFICATION FairSpec
CONSTANTS
  Threads = {t1, t2}
  e1 = e1
  e2 = e2
  s1 = s1
  s2 = s2
  k1 = k1
  allow = allow
  deny = deny
  Endpoints = {e1, e2}
  Servers = {s1, s2}
  ClientKeys = {k1}
  Actions = {allow, deny}
  NoAction = NoAction
  AllEndpoints = AllEndpoints
  NoRow = NoRow
  Requests <- MixedRequests
  OneWriterPerEndpoint = TRUE
INVARIANTS
  TypeOK
  AckedSaved
PROPERTIES
  ImplementsRuleStore
  EveryCallEnds
