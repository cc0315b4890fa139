SPECIFICATION FairSpec
CONSTANTS
  w1 = w1
  w2 = w2
  t1 = t1
  Watcher = {w1, w2}
  Trigger = {t1}
  NoWatcher = NoWatcher
INVARIANTS
  TypeOK
  SingleWatch
  StatusIsTruthful
  WatchIsStoppable
PROPERTIES
  NoReportAfterStop
  StopTakesEffect
  WatchKeepsScanning
  TriggerEnds
  ImplementsFairSwitch
