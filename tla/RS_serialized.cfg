SPECIFICATION RSpec
CONSTANTS
  Streams = {s1, s2}
  s1 = s1
  s2 = s2
  Serialized = TRUE
  Reconfigured = FALSE
  MaxCookies = 3
INVARIANTS
  GivenBack
  DarkDisplayStaysDark
