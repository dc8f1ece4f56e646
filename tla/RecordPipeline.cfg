SPECIFICATION FairSpec
CONSTANTS
  r1 = r1
  r2 = r2
  r3 = r3
  tcpok = tcpok
  udpfail = udpfail
  tcp = tcp
  udp = udp
  resource = resource
  Records = {r1, r2, r3}
  Most = 2
  Kind <- MCKind
  Kinds = {tcpok, udpfail}
  Protos = {tcp, udp}
  Proto <- MCProto
  Successes = {tcpok}
  Resource = resource
  Lists <- Listed
  Threads = {t1, t2}
  QueueSize = 1
  CountQueueSize = 1
  MayRestart = TRUE
  None = None
CHECK_DEADLOCK FALSE
INVARIANTS StatsConserved StoredIsCounted TakenOnce
PROPERTY QueueDrains
