SPECIFICATION PlannedSpec
CONSTANTS
  Conns = {k1}
  MaxReqs = 1
  Ops = {"shutdown", "abort", "broadcast", "report", "cancel"}
INVARIANTS
  WritesInv
  ShutdownInv
PROPERTIES
  ContextsBound
