SPECIFICATION Spec
CONSTANTS
  Orgs = {o1, o2}
  Users = {u1}
  Projects = {p1, p2}
  Tasks = {t1}
  Attachments = {a1}
  Connections = {w1, w2}
  Null = Null
  Names = {n1, n2}
  NewStatuses = {"done"}
SYMMETRY Symmetry
INVARIANTS TypeOK TenantIntegrity Announced
PROPERTIES UntouchedColumnsKept
