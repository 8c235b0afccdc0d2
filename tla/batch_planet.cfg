\* A planet root: new elements and the relation that holds them in one batch.
SPECIFICATION Spec
CONSTANTS
  Nodes = {1, 2}
  Ways = {1}
  Relations = {1, 2}
  in = in
  out = out
  Places = {in, out}
  Extent = {in, out}
  RefSets <- TwoRefSets
  MemberSets <- ThreeMemberSets
  None = None
  Starts <- FromNothing
  HasNodeWay = TRUE
  Rounds = 8
  MaxDiffs = 3
  MaxLag = 3
  MaxChanges = 4
INVARIANT PlanetKeepsRelations
