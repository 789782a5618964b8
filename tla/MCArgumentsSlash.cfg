CONSTANTS
  CommandLines <- SlashLines
  Number <- MCNumber
  FirstFour <- MCFirstFour
  UrlOf <- MCUrlOf
  Files <- SlashFiles
  AddPort = {4850}
  MaxRuns = 3
  MaxEdits = 1
SPECIFICATION Spec
INVARIANT OnPortAsked
CHECK_DEADLOCK FALSE
