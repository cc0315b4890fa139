SPECIFICATION Spec
CONSTANTS
  s1 = s1
  s2 = s2
  i1 = i1
  i2 = i2
  Session = {s1, s2}
  Incident = {i1}
  Plans <- MixedPlans
  MaxSteps = 3
  MaxConsents = 3
  MaxFaults = 2
  NoRow = NoRow
  NoIncident = NoIncident
CHECK_DEADLOCK FALSE
SYMMETRY Symmetry
INVARIANTS
  TypeOK
  RunsNeedConsent
  RecordIsTrue
  ColumnMatchesPayload
  WorkIsRecorded
PROPERTIES
  NeverReopened
