SPECIFICATION Spec
CONSTANTS
  Requests = {r1, r2}
  Keys = {k1}
  Pods = {p1, p2}
  NoRequest = NoRequest
  MaxVersion = 2
  CopyRetry = 0
  MaxCrashes = 1
SYMMETRY Symmetry
INVARIANTS
  TypeOK
  ScanOfOneFetch
  SignatureHonest
PROPERTIES
  FreshAnswer
