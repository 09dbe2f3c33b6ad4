SPECIFICATION Spec
CONSTANTS
  Exports = {e1, e2}
  Dests = {d1, d2}
  Outer = d1
  Inner = {d2}
  PodCount = 2
  CopyRetry = 1
  MaxChanges = 0
  MaxCrashes = 0
  Absent = Absent
  NoExport = NoExport
PROPERTY CommitsWhole
