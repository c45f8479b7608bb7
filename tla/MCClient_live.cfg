SPECIFICATION LiveSpec
CONSTANTS
  Calls = {c1, c2}
  First = c1
  MaxID = 2
  Ends = {"close", "abort"}
INVARIANTS
  AnswerMatches
PROPERTIES
  CallsEnd
  EndReturns
