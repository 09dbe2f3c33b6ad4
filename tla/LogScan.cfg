SPECIFICATION Spec
CONSTANTS
  Chars = {"a", "b", "x", "nl"}
  Ids = {"a", "b"}
  NL = "nl"
  Limit = 2
  Tail_bytes = 3
  Block = 2
  MaxTotal = 5
  MaxEntries = 2
  Inputs <- MCInputs
INVARIANTS
  WindowExact
  FirstMatches
  EveryFileAccounted
