SPECIFICATION Spec
CONSTANTS
  Session = {s1, s2}
  Http = {}
  Rtsp = Rtsp
  Main = Main
  NoOne = NoOne
  UintRange = 8
  Env = {"appExit", "shutdown"}
SYMMETRY SessionSymmetry
CHECK_DEADLOCK FALSE
INVARIANTS
  NoThreadOutlivesSession
  BroadcastOutlivesUsers
  RunningBalanced
PROPERTIES
  StopIsFinal
