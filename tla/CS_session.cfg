SPECIFICATION FairCSpec
CONSTANTS
  Devices = {d1}
  d1 = d1
  Manual = Manual
  None = None
  Retry = retry
  Verify = verify
  Jobs = {retry}
  retry = retry
  verify = verify
  CecTrouble = {}
  Shortcut = watcher
  HasGame = TRUE
  WaitForGame = TRUE
  ScreensaverEnabled = FALSE
  WizardEnabled = TRUE
  ShortcutEnabled = TRUE
  DisplayMayFail = FALSE
  MaxQueue = 2
  MaxRestarts = 0
  MaxInhibits = 2
INVARIANTS
  NoTaskAfterTeardown
  DeskGetsAllBack
  RelockKept
  NoInhibitLeaked
PROPERTIES
  ImplementsStateMachine
