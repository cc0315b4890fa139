SPECIFICATION FairSpec
CONSTANTS
  Part = {"clusters", "incidents"}
  Slot = {1, 2}
  Update = {1, 2}
  MaxVersion = 2
  MaxFaults = 1
INVARIANT TypeOK
PROPERTIES
  ConvergesToHub
  UpdateIsShown
