CONSTANTS
  alice = alice
  root = root
  r1 = r1
  r2 = r2
  None = None
  Subjects = {alice, root}
  Workspaces = {w1}
  Packs = {p1}
  Versions = {v1}
  Requests = {r1, r2}
  GlobalAdmins = {root}
  MaxRecords = 3
SPECIFICATION Spec
INVARIANT ViewersOnlyRead
SYMMETRY MCSymmetry
CHECK_DEADLOCK FALSE
