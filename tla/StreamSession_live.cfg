SPECIFICATION FairSpec
CONSTANTS
  Session = {s1}
  Http = {h1}
  Rtsp = Rtsp
  Main = Main
  NoOne = NoOne
  UintRange = 8
  Env = {"acceptFail", "bindFail"}
INVARIANTS
  JoinedSessionIsStopped

  
  
  
