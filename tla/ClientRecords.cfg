SPECIFICATION FairSpec
CONSTANTS
  d1 = d1
  d2 = d2
  d3 = d3
  Procs = {p1, p2}
  Dests <- ThreeDests
  Connected = {d1, d2}
  Allowed = {d1, d3}
  Protocols <- OneOdd
  Rate = 2
  Slots = 2
  None = None
CHECK_DEADLOCK FALSE
INVARIANTS VerdictRight SlotsMatch
PROPERTIES EveryDestServed RecordArrives
