SPECIFICATION FairSpec
CONSTANTS
  MaxCommands = 1
  CalmReconnects = TRUE
  Stubborn = {"leader", "child"}
  Pids = {1, 2}
  Callers = {"session", "api"}
  Watches = {1, 2}
  Users = {"session", "reconnect"}
INVARIANTS
  GivenUpCommandsDie
  NoStaleSwapchain
  NoWatcherAtDesk
  ShortcutRunsOn
PROPERTIES
  TransitionEnds
