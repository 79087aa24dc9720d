SPECIFICATION Spec
CONSTANTS
  Session = {s1, s2}
  Http = {h1}
  Rtsp = Rtsp
  Main = Main
  NoOne = NoOne
  UintRange = 8
  Env = {"cancel"}
SYMMETRY SessionSymmetry
INVARIANTS
  JoinedSessionIsStopped
