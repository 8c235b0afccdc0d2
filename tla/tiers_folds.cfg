\* Two elements through every fold: five diffs over three days of two hours.
SPECIFICATION Spec
CONSTANTS
  Ids = {a, b}
  Cells = {c1, c2}
  NoCell = NoCell
  Same = Same
  MaxTouched = 1
  MaxSeq = 5
  MaxHour = 4
  HoursPerDay = 2
SYMMETRY Symmetry
INVARIANTS BaseTablesAgree ScanFindsAll FullScanIsCurrent BaseIsShadowed
PROPERTIES FollowsDiffs
