SPECIFICATION Spec
CONSTANTS
  Requests = {r1, r2}
  NoRequest = NoRequest
  Archives = {z, g}
  Gzips = {g}
  Cached = {g}
  MaxSize = 2
  MaxVersion = 2
  MaxEvents = 1
SYMMETRY Symmetry
INVARIANTS
  TypeOK
  WholeUnlessRemoved
  NeverOlder
  GzipHeals
