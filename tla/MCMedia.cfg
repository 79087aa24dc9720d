SPECIFICATION Spec
CONSTANTS
  Capture = {"", "kms", "headless", "nvfbc"}
  Mode = {"m"}
  MaxOpen = 2
  HevcModes = {0, 2, 3}
  Av1Modes = {0}
  PoolSize = 3
  TrimTimeout = 2
  MaxClock = 5
  Monitor = {"a", "b"}
  KmsImage = {1, 2}
  MaxSerial = 2
  ScreenWidth = 3
  CursorSize = 2
  Margin = 1
  Recorder = {"a", "b"}
  MaxCreated = 4
  Dim = {1, 2}
  PoolImage = {"i"}
  MaxRequest = 3
  MaxDisplay = 1
  Texture = {1, 2}
  Picture = {1, 2}
  CursorShape = {1}
  DisplayKind = {"vram", "ram", "wgc"}
  PixelFormat = {"a"}
  Interval = 2
  MaxNow = 7
  Buffers = 2
  MaxArrived = 5
  Slot = {0, 1}
  Finger = {1, 2, 3}
  Rumble = {1, 2}
  MaxAlloc = 2
  Slots = 2
  Pointer = {"a", "b", "c"}
  MaxSent = 2
  Half = 2
  Config <- MCConfig
  Caps <- MCCaps
  Delay = 1
  MaxCoded = 3
  Machines <- MCCards
  NvencForced = FALSE
  Dpb = 2
  MaxFrame = 4
  Word = 256
  MaxChange = 2
  MaxStart = 2
  Frames = 3
  FrameSize = 2
  Continuous = TRUE
  MaxSample = 8
  Block = 3
  Header = 1
  FrameHeader = 3
  Size <- MCSize
  Percent = {1, 20, 255}
  MinFec = {0, 2}
  InsertBound = 9
  MaxWire = 2
  AudioSpan = 16
  MaxShards = 7
  BatchSize = 5
  SegMax = 2
  None = None
CHECK_DEADLOCK FALSE
INVARIANTS
  
  FramesInOrder
  PacketsMatch
  HandlesAreOwned
  FrameIsCurrent
  DisplayIsTheListed
  InputMatches
  NothingIsLost
PROPERTIES
  ImagesAreKept
  FailuresAreAnswered
