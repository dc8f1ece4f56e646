SPECIFICATION Spec
CONSTANTS
  One = {t1}
  Many = {t1, t2}
  Ports = {q1, q2}
  Random = {q2}
  Names = {n1, n2}
  Three = {i1, i2, i3}
  Two = {k1, k2}
  Hosts <- TwoOrRemoved
  Main = main
  Root = root
  None = None
SYMMETRY Symmetry
INVARIANTS StopStopsClient DoneHasResult OneCapture NeverCut StopsAll RediscoverFinds WhereAsked InstalledRuns
