SPECIFICATION FairSpec
CONSTANTS
  Controllers = {c1}
  c1 = c1
  Bare = bare
  MaxLag = 6
  FreshBoot = FALSE
  PromptSettling = TRUE
  PromptDelivery = TRUE
  MaxToggles = 1
INVARIANTS
  HeldUntilPowerCycle
  OnlyPlayersHeard
PROPERTIES
  FollowsController
