\* Scans of some of the cells, with an element in two tiers.
SPECIFICATION Spec
CONSTANTS
  Ids = {a}
  Cells = {c1, c2}
  NoCell = NoCell
  Same = Same
  MaxTouched = 1
  MaxSeq = 7
  MaxHour = 6
  HoursPerDay = 2
SYMMETRY Symmetry
INVARIANTS ScanIsCurrent
