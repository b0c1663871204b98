SPECIFICATION FairOSpec
CONSTANTS
  Devices = {tv, avr}
  tv = tv
  avr = avr
  TV = tv
  Targets = {tv, avr}
  PhysAddr = TRUE
  Attempts = 2
  Retries = 1
  MaxFaults = 2
  TvNames = {"hdmi1", "hdmi2"}
  DeskSink = "headset"
  CouchSink = "hdmi1"
  Hdmi = {"hdmi1", "hdmi2"}
  Described = {"hdmi2"}
  Streams = {s1}
  s1 = s1
  Waits = 2
INVARIANTS
  ReportTrue
  StandbyWithinBudget
  TvSoundFound
  TvSleepsSilently
PROPERTIES
  OutputsSettle
