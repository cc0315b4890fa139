SPECIFICATION FairSpec
CONSTANTS
  MaxRetries = 3
  Backoffs <- CliBackoffs
  Namespaces <- TwoNamespaces
  n1 = n1
  n2 = n2
  Node = {n1, n2}
  p1 = p1
  p2 = p2
  p3 = p3
  Pod = {p1, p2, p3}
  Worlds <- TwoWorlds
INVARIANT TypeOK
PROPERTIES
  SnapshotIsExact
  InterruptStops
  WatchKeepsScanning
