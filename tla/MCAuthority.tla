---------------------------- MODULE MCAuthority ----------------------------
(***************************************************************************)
(* Two administrators, one role of each kind of label, three menus, two of *)
(* them a parent and its child, and a department tree of two rows, and     *)
(* identifiers for the rows that are added.                                *)
(***************************************************************************)
EXTENDS Authority, TLC

CONSTANTS ann, ben, new, adm, ed, aux, m1, m2, m3, m4, m5, d1, d2, d3

Symmetry == Permutations(Procs) \cup Permutations(SessionIds)

MCUsers == {ann, ben, new}
MCRoles == {adm, ed, aux}
MCMenus == {m1, m2, m3, m4, m5}
MCDepts == {d1, d2, d3}

User(dept) == [status |-> 1, pv |-> 1, dept |-> dept]

MCInitDB ==
  [user |-> ann :> User(d1) @@ ben :> User(d2) @@ new :> Absent,
   role |-> adm :> "admin" @@ ed :> "plain" @@ aux :> Absent,
   menu |-> m1 :> None @@ m2 :> m1 @@ m3 :> None @@ m4 :> Absent @@ m5 :> Absent,
   dept |-> d1 :> None @@ d2 :> d1 @@ d3 :> Absent,
   userRole |-> {<<ann, adm>>, <<ben, adm>>, <<ben, ed>>},
   roleMenu |-> {<<ed, m1>>},
   roleDept |-> {<<ed, d2>>}]

Updated(u, status, roles, password) ==
  [op |-> "UserUpdate", user |-> u, status |-> status, roles |-> roles,
   password |-> password, dept |-> Keep]

MCRequests ==
  {Updated(ann, 0, Keep, FALSE), Updated(ben, Keep, {ed}, FALSE),
   Updated(ben, Keep, {adm}, TRUE),
   [op |-> "UserAdd", user |-> new, roles |-> {ed}, dept |-> d2],
   [op |-> "UserDelete", user |-> ben],
   [op |-> "UserMove", user |-> ben, dept |-> d1],
   [op |-> "PersonUpdate", user |-> ben, password |-> TRUE],
   [op |-> "RoleAdd", role |-> aux, menus |-> {m1}, depts |-> {d2}],
   [op |-> "RoleUpdate", role |-> ed, menus |-> {m2}, depts |-> Keep, label |-> Keep],
   [op |-> "RoleUpdate", role |-> ed, menus |-> Keep, depts |-> {}, label |-> Keep],
   [op |-> "RoleUpdate", role |-> ed, menus |-> Keep, depts |-> Keep, label |-> "admin"],
   [op |-> "RoleDelete", role |-> ed],
   [op |-> "MenuAdd", parents |-> m4 :> m2],
   [op |-> "MenuUpdate", parents |-> m1 :> m3],
   [op |-> "MenuUpdate", parents |-> m3 :> m2 @@ m2 :> m1],
   [op |-> "MenuDelete", menus |-> {m1}],
   [op |-> "MenuImport", parents |-> m4 :> None @@ m5 :> m4],
   [op |-> "DeptAdd", dept |-> d3, parent |-> d2],
   [op |-> "DeptUpdate", dept |-> d1, parent |-> d2],
   [op |-> "DeptDelete", dept |-> d2, deleteUser |-> TRUE],
   [op |-> "DeptDelete", dept |-> d1, deleteUser |-> TRUE],
   [op |-> "DeptDelete", dept |-> d1, deleteUser |-> FALSE]}
=============================================================================
