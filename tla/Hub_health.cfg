SPECIFICATION Spec
CONSTANTS
  r1 = r1
  r2 = r2
  c1 = c1
  i1 = i1
  i2 = i2
  Report = {r1, r2}
  Cluster = {c1}
  Id = {i1, i2}
  Statuses <- DocumentedStatuses
  Payload <- AgentBodies
  NoRow = NoRow
SYMMETRY Symmetry
INVARIANT HealthIsMeasured
