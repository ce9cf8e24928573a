SPECIFICATION Spec
CONSTANTS
  Nodes = {n1, n2, n3, n4}
  Vals = {1, 2}
  Null = Null
INVARIANT AssignShortens
