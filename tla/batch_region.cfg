\* A regional root: five diffs in every grouping into runs, with compactions.
SPECIFICATION Spec
CONSTANTS
  Nodes = {1, 2}
  Ways = {1}
  Relations = {1, 2}
  in = in
  out = out
  Places = {in, out}
  Extent = {in}
  RefSets <- TwoRefSets
  MemberSets <- ThreeMemberSets
  None = None
  Starts <- FromChain
  HasNodeWay = TRUE
  Rounds = 8
  MaxDiffs = 3
  MaxLag = 3
  MaxChanges = 5
INVARIANTS WaysAsBuilt RelationsAsBuilt FollowsUpstream
