SPECIFICATION Spec
CONSTANTS
  s1 = s1
  s2 = s2
  i1 = i1
  i2 = i2
  Session = {s1, s2}
  Incident = {i1}
  Plans <- MixedPlans
  MaxSteps = 3
  MaxConsents = 1
  MaxFaults = 0
  NoRow = NoRow
  NoIncident = NoIncident
SYMMETRY Symmetry
INVARIANT EachCommandIsPrompted
CHECK_DEADLOCK FALSE
