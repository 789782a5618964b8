CONSTANTS
  CommandLines <- MCCommandLines
  Number <- MCNumber
  FirstFour <- MCFirstFour
  UrlOf <- MCUrlOf
  Files <- MCFiles
  AddPort = {4850}
  MaxRuns = 3
  MaxEdits = 1
SPECIFICATION Spec
INVARIANTS
  AddressAlive
  NothingFreedTwice
PROPERTIES
  LastOptionWins
  RestartReproduces
CHECK_DEADLOCK FALSE
