SPECIFICATION FairSpec
CONSTANTS
  Devices = {d1, d2}
  d1 = d1
  d2 = d2
  Manual = Manual
  None = None
  HasGame = TRUE
  WaitForGame = FALSE
  ScreensaverEnabled = TRUE
  WizardEnabled = FALSE
  ShortcutEnabled = FALSE
  DisplayMayFail = FALSE
  MaxQueue = 3
  MaxRestarts = 1
INVARIANTS
  DeskShowsDesk
  SessionWatched
PROPERTIES
  OwnerKept
  LateGraceEndsNothing
  ModeSwitchSpec
  GameExitEndsSession
  AbandonedSessionEnds
  RecoveryResyncs
