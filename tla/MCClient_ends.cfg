SPECIFICATION SafetySpec
CONSTANTS
  Calls = {c1, c2}
  First = c1
  MaxID = 1
  Ends = {"close"}
SYMMETRY CallSymmetry
INVARIANTS
  WritesInv
  ExactlyOneDelivery
  NotLostAtExit
