SPECIFICATION FairASpec
CONSTANTS
  Callers = {couch, watch, wake}
  couch = couch
  watch = watch
  wake = wake
  Cancellable = {couch, watch}
  Polls = 1
INVARIANTS
  OneWatchdogRun
PROPERTIES
  OnlyProcessesHoldUp
