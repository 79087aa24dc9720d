SPECIFICATION Spec
CONSTANTS
  Session = {s1, s2}
  Http = {h1}
  Rtsp = Rtsp
  Main = Main
  NoOne = NoOne
  UintRange = 8
  Env = {"bcastFail", "bindFail", "cancel"}
SYMMETRY SessionSymmetry
INVARIANTS
  TypeOK
  NoDanglingSession
