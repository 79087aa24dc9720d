SPECIFICATION Spec
CONSTANTS
  Apps <- MCApps
  AppId = {1, 2, 3, 4}
  Worker = {"https"}
  Poller = {"http"}
  MaxPrep = 2
  CanSave = FALSE
INVARIANTS
  ReaperSynchronized
