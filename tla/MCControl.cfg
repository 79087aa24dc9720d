SPECIFICATION FairControlSpec
CONSTANTS
  Launch = {l1, l2, l3}
  Id = {i}
  Cert = {c, d}
  Pin = {p, q}
  MaxNamed = 2
  SeqSpan = 6
  LowSpan = 3
  MaxSession = 2
  RevertOnDisconnect = FALSE
  Prep = "single"
  Client = {"a", "b", "c"}
  Legacy = {"a", "b"}
  Addr <- MCAddr
  Port = {"rtsp", "video"}
  WanUi = TRUE
  MaxOut = 8
  MaxIn = 3
  MaxRequest = 4
  Value = {1, 2}
  MaxEntry = 1
  MaxPing = 4
  Lease = 2
  MaxFault = 2
  Buffer = 7
  Ending = 2
  Sealed = 3
  MaxHead = 4
  MaxBody = 3
  MaxTalk = 2
  Tab = {"t", "v"}
  Login = {"l", "m"}
  User = {"u", "v"}
  Name = {1, 2}
  FirstApps <- MCFirstApps
  MaxSave = 1
  Lifetime = 1
  MaxNow = 2
  Char = {"$", "(", ")", "a"}
  MaxText = 4
  App <- MCApp
  MaxApps = 3
  Digit <- MCDigit
  Caller = {"a", "session"}
  Code = {0, 1}
  MayHang = {"config"}
  None = None
CHECK_DEADLOCK FALSE
INVARIANTS
  PendingIsGuarded
  NothingStale
  
  EditsAreKept
  NoncesInStep
  PromisesKept
PROPERTIES
  NeverOverwritten
  PendingIsDiscarded
  
  
