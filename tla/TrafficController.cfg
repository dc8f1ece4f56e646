SPECIFICATION Spec
CONSTANTS
  a = a
  b = b
  c = c
  n1 = n1
  n2 = n2
  tcp = tcp
  udp = udp
  None = None
  Endpoints = {a, b, c}
  Ports = {tcp, udp}
  VifNode <- TwoNodes
  Configs <- Pairs
INVARIANT NoFalseAlarm
PROPERTIES PushComplete StopsEverything StartStarts
