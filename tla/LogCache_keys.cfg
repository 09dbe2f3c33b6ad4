SPECIFICATION Spec
CONSTANTS
  Requests = {r1, r2}
  Keys = {k1, k2}
  Pods = {p1}
  NoRequest = NoRequest
  MaxVersion = 2
  CopyRetry = 1
  MaxCrashes = 0
SYMMETRY Symmetry
INVARIANT LostOnlyToGc
