SPECIFICATION Spec
CONSTANTS
  r1 = r1
  r2 = r2
  c1 = c1
  c2 = c2
  i1 = i1
  i2 = i2
  Report = {r1, r2}
  Cluster = {c1, c2}
  Id = {i1, i2}
  Statuses <- TwoStatuses
  Payload <- Bodies
  NoRow = NoRow
SYMMETRY Symmetry
INVARIANTS
  TypeOK
  RowsAreReports
  ResolvedIffClosed
  RejectedOnlyByFault
  AckedIsStored
  AlertIsForItsIncident
  SilentOnlyByFault
  UnlistedOnlyByFault
PROPERTIES
  ListedStaysListed
  FirstReportWins
