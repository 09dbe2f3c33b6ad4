SPECIFICATION Spec
CONSTANTS
  Exports = {e1, e2}
  Dests = {d1}
  Outer = d1
  Inner = {}
  PodCount = 2
  CopyRetry = 1
  MaxChanges = 2
  MaxCrashes = 2
  Absent = Absent
  NoExport = NoExport
SYMMETRY Symmetry
INVARIANTS
  TypeOK
  DestinationWhole
PROPERTIES
  KeepsACopy
  FailureKeepsOrFills
  RejectKeepsExisting
  SuccessDelivers
