SPECIFICATION FairTSpec
CONSTANTS
  Posts = {r1}
  r1 = r1
  TrayUsed = TRUE
  ApiUsed = TRUE
  MaxEdits = 1
  MaxDoctors = 1
  MaxSkew = 1
PROPERTIES
  TrayFollows
