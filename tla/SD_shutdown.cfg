SPECIFICATION FairSSpec
CONSTANTS
  Devices = {d1}
  d1 = d1
  Manual = Manual
  None = None
  HasGame = TRUE
  WaitForGame = TRUE
  ScreensaverEnabled = FALSE
  WizardEnabled = TRUE
  ShortcutEnabled = TRUE
  DisplayMayFail = TRUE
  MaxQueue = 2
  MaxRestarts = 1
  MaxSignals = 2
CHECK_DEADLOCK FALSE
INVARIANTS
  TornDownBeforePowerOff
PROPERTIES
  ShutdownNeverHangs
