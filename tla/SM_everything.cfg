SPECIFICATION Spec
CONSTANTS
  Devices = {d1, d2}
  d1 = d1
  d2 = d2
  Manual = Manual
  None = None
  HasGame = TRUE
  WaitForGame = TRUE
  ScreensaverEnabled = TRUE
  WizardEnabled = TRUE
  ShortcutEnabled = TRUE
  DisplayMayFail = TRUE
  MaxQueue = 3
  MaxRestarts = 1
SYMMETRY Symmetry
PROPERTIES
  ModeSwitchSteps
