SPECIFICATION Spec
CONSTANTS
  Apps <- MCApps
  AppId = {1, 2, 3, 4}
  Worker = {"https"}
  Poller = {}
  MaxPrep = 2
  CanSave = FALSE
PROPERTIES
  WaitsForAll
