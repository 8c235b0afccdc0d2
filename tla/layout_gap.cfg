\* Every history of a node and a way over three instants.
SPECIFICATION Spec
CONSTANTS
  n1 = n1
  n2 = n2
  w1 = w1
  r1 = r1
  r2 = r2
  c1 = c1
  c2 = c2
  out = out
  Nodes = {n1, n2}
  Ways = {w1}
  Relations = {r1, r2}
  Inside = {c1, c2}
  Outside = {out}
  Root = Root
  Nearest = c1
  None = None
  Del = Del
  LastTime = 3
  Since = 2
  NoInput = NoInput
  BuildInputs <- MCBuildInputs
  MaxDepth = 3
  CapDepth = 3
  AncestorDepths = {0, 2}
  MaxNodes = 1
  LayoutInputs <- MCLayoutInputs
  Corners <- MCCorners
  Datas <- MCDatas
INVARIANTS ReadsFindNodes
CHECK_DEADLOCK FALSE
