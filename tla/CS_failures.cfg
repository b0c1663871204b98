SPECIFICATION CSpec
CONSTANTS
  Devices = {d1}
  d1 = d1
  Manual = Manual
  None = None
  Retry = retry
  Verify = verify
  Jobs = {verify}
  retry = retry
  verify = verify
  CecTrouble = {"missing", "lost"}
  Shortcut = watcher
  HasGame = TRUE
  WaitForGame = TRUE
  ScreensaverEnabled = TRUE
  WizardEnabled = FALSE
  ShortcutEnabled = FALSE
  DisplayMayFail = TRUE
  MaxQueue = 1
  MaxRestarts = 1
  MaxInhibits = 1
INVARIANTS
  CookiesValid
  NoSilentSleep
