SPECIFICATION Spec
CONSTANTS
  NThreads = 3
  Serializable = {1}
  Soft = {2}
  Writers = {1, 2}
  Sweepers = {3}
  MaxXid = 5
  MaxTrans <- OneEach
  MaxCommands <- MCCommands
INVARIANTS SnapshotDecides NoLostUpdate HintsTruthful HorizonBelowSnapshots VacuumKeepsVisible
