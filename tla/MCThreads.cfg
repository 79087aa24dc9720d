SPECIFICATION FairThreadsSpec
CONSTANTS
  Apps <- MCApps
  AppId = {1, 2, 3, 4}
  Worker = {"https"}
  Poller = {}
  MaxPrep = 2
  CanSave = FALSE
  Task = {1, 2, 3}
  MaxTime = 1
  Consumer = {1, 2}
  Cap = 2
  MaxRaise = 5
  Waiter = {1, 2}
  MaxEvent = 3
  User = {1, 2}
  Names = 2
  MaxPost = 4
  Viewer = {1, 2}
  MaxAudio = 3
  MaxDisplay = 2
  SyncViewer = {"s", "t", "u"}
  Key = {"a", "shift"}
  Modifier = "shift"
  Hotkey = {"a"}
  Flag = {0, 1}
  TimerAddr = {"x", "y", "z"}
  MaxPacket = 4
  MaxSession = 2
  Player = {"s", "t"}
  Controller = {0, 1}
  MaxGamepads = 2
  MaxPad = 4
  Dim = {1, 2}
  MaxFrame = 3
  MaxInit = 3
  OutDevice = {"a", "b"}
  MaxUser = 2
  MaxStart = 2
  Screen = {2, 3}
  MaxResize = 2
  MaxRefresh = 3
  Pointer <- MCPointer
  CursorSize = 2
  None = None
CHECK_DEADLOCK FALSE
INVARIANTS
  PrepUnwound
  AppIsConsistent
  NoLostWakeup
  HandedOverOnce
  
  CaptureIsHandedOver
PROPERTIES
  ReverseOrder
  EndedIsUnwound
  ImplementsService
  
