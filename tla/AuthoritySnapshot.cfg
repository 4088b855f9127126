SPECIFICATION Spec
CONSTANTS
  ann = ann
  ben = ben
  new = new
  adm = adm
  ed = ed
  aux = aux
  m1 = m1
  m2 = m2
  m3 = m3
  m4 = m4
  m5 = m5
  d1 = d1
  d2 = d2
  d3 = d3
  None = None
  Keep = Keep
  Absent = Absent
  Gone = Gone
  Users <- MCUsers
  Roles <- MCRoles
  Menus <- MCMenus
  Depts <- MCDepts
  InitDB <- MCInitDB
  Requests <- MCRequests
  Procs = {p1, p2}
  SessionIds = {s1, s2}
  Isolations = {"REPEATABLE READ"}
  MaxRequests = 3
SYMMETRY Symmetry
CHECK_DEADLOCK FALSE
INVARIANTS
  RolesAreAlwaysCurrent
  ParentsAlwaysExist
  MenusNeverCycle
