-------------------------- MODULE AuthorityProofs --------------------------
(***************************************************************************)
(* Theorems about Authority at both isolation levels, for any sets of      *)
(* users, roles, menus, departments, requests and processes.               *)
(*                                                                         *)
(* A transaction is described by its own record t and the committed rows   *)
(* d: Locked says which rows it has locked or waits for, the other facts   *)
(* what its reads still say about d.  Changes says what a commit may do to *)
(* the rows; as rows are locked by one transaction at a time, the facts of *)
(* all the others survive it.                                              *)
(*                                                                         *)
(* Row locks hold at every isolation level iso, and so does what follows   *)
(* from them alone: the relations' references, the versions and the status *)
(* a session carries.  What a transaction has read describes d only where  *)
(* plain reads see what is committed, so the facts about administrators,   *)
(* roles and menu parents are stated for iso = RC.                         *)
(***************************************************************************)
EXTENDS Authority, TLAPS

-----------------------------------------------------------------------------
(* The inductive invariant.                                                *)

UserRecord == [status: {0, 1}, pv: Nat, dept: Depts \cup {None}]
Session == [user: Users, id: SessionIds, token: Nat, roles: SUBSET Roles, pv: Nat]
Logins == [op: {"Login", "Refresh"}, user: Users]
Signing == {"Login", "Refresh"}
RC == "READ COMMITTED"

\* A record with the fields of a transaction.
SeenOK(s) ==
  /\ s = [admins |-> s.admins, roles |-> s.roles, menus |-> s.menus, depts |-> s.depts,
          ids |-> s.ids, level |-> s.level, from |-> s.from, users |-> s.users,
          row |-> s.row, session |-> s.session]
  /\ s.roles \subseteq Roles /\ s.menus \subseteq Menus /\ s.depts \subseteq Depts
  /\ s.users \subseteq Users
  /\ s.row \in UserRecord \cup Depts \cup {None} \cup Missing
  /\ s.session \in Session \cup {None}

CallNames ==
  {"roles", "adminRoles", "involved", "role", "user", "dept", "menus", "depts", "parent",
   "menuAndParents", "menuRoots", "level", "relevel", "deptAndParent", "allDepts",
   "roleUsers", "menuUsers", "deptUsers"}
InTodo(t) == {t.todo[n] : n \in 1..Len(t.todo)}

TxOK(iso, t) ==
  /\ t = [req |-> t.req, stage |-> t.stage, todo |-> t.todo, want |-> t.want,
          held |-> t.held, snap |-> t.snap, seen |-> t.seen]
  /\ t.todo \in Seq(CallNames)
  /\ t.snap \in Tables \cup {None}
  /\ iso = RC => t.snap = None
  /\ t.stage \in {"idle", "locking", "revoke", "session", "commit"}
  /\ t.stage = "idle" => t.held = {} /\ t.want = {}
  /\ t.stage # "idle" => t.req \in RequestForms \cup Logins
  /\ (t.stage # "idle" /\ "deptUsers" \in InTodo(t)) => t.req.op = "DeptDelete"
  /\ (t.stage # "idle" /\ t.req.op = "DeptDelete") => t.seen.row \in Depts \cup {None} \cup Missing
  /\ t.stage \in {"revoke", "session", "commit"} => t.todo = <<>> /\ t.want = {}
  /\ t.stage = "session" => t.req.op \in Signing
  /\ t.stage = "revoke" => t.req.op \notin Signing
  /\ SeenOK(t.seen)

\* The operations that may take an administrator away.
Removes(q) ==
  \/ q.op = "UserUpdate" /\ AuthChanged(q)
  \/ q.op = "UserDelete"
  \/ q.op = "DeptDelete" /\ q.deleteUser

\* Lock calls that an operation makes, and rows that are locked by them.
Calls(q) ==
  CASE q.op = "UserAdd" -> {"roles"}
    [] q.op = "UserUpdate" -> {"user"} \cup (IF AuthChanged(q) THEN {"involved"} ELSE {})
    [] q.op \in {"UserDelete", "UserMove", "PersonUpdate", "Login", "Refresh"} -> {"user"}
    [] q.op = "RoleAdd" -> {"menus"}
    [] q.op \in {"RoleUpdate", "RoleDelete"} -> {"role"}
    [] q.op = "MenuAdd" -> {"parent"}
    [] q.op = "MenuUpdate" -> {"menuAndParents"}
    [] OTHER -> {}

CallRows(call, q) ==
  CASE call = "roles" -> Rows(RoleRow, q.roles)
    [] call = "involved" -> IF q.op = "UserUpdate" /\ q.roles # Keep THEN Rows(RoleRow, q.roles) ELSE {}
    [] call = "role" -> {RoleRow(q.role)}
    [] call = "user" -> {UserRow(q.user)}
    [] call = "menus" -> IF q.op = "RoleAdd" THEN Rows(MenuRow, q.menus) ELSE {}
    [] call = "parent" -> Rows(MenuRow, GivenParents(q))
    [] call = "menuAndParents" -> Rows(MenuRow, DOMAIN q.parents \cup GivenParents(q))
    [] OTHER -> {}

AdminRows == Rows(RoleRow, AdminRoles(InitDB))

Locks(t) == t.held \cup t.want

\* Every lock call behind the transaction has its rows locked or asked for.
Locked(iso, t) ==
  /\ \A call \in Calls(t.req) : call \in InTodo(t) \/ CallRows(call, t.req) \subseteq Locks(t)
  /\ Rows(RoleRow, t.seen.admins) \subseteq Locks(t)
  /\ Rows(MenuRow, t.seen.menus) \subseteq Locks(t)
  /\ Rows(UserRow, t.seen.users) \subseteq Locks(t)
  /\ iso = RC /\ Removes(t.req) => "adminRoles" \in InTodo(t) \/ AdminRows \subseteq Locks(t)

\* Locked rows are there.
HeldExist(t, d) ==
  /\ \A u \in Users : UserRow(u) \in t.held => d.user[u] \notin Missing
  /\ \A r \in Roles : RoleRow(r) \in t.held => d.role[r] \notin Missing
  /\ \A m \in Menus : MenuRow(m) \in t.held => d.menu[m] \notin Missing

\* The deletion of a role knows everybody who has it.
RoleDeletion(iso, t, d) ==
  t.req.op = "RoleDelete" =>
    /\ t.todo \in {<<"menus", "depts", "role", "roleUsers">>, <<"depts", "role", "roleUsers">>,
                   <<"role", "roleUsers">>, <<"roleUsers">>, <<>>}
    /\ t.todo = <<>> => /\ RoleRow(t.req.role) \in t.held
                        /\ iso = RC => RoleUsers(d, t.req.role) \subseteq t.seen.users

Kids(d, ms) == {m \in Menus : d.menu[m] \in ms}

\* The deletion of a menu goes down the tree level by level; the children of
\* the rows it holds are among those it knows.
MenuDeletion(iso, t, d) ==
  t.req.op = "MenuDelete" =>
    LET s == t.seen
        held(ms) == Rows(MenuRow, ms) \subseteq t.held
        asked(ms) == Rows(MenuRow, ms) \subseteq Locks(t)
        known(ms, ids) == iso = RC => Kids(d, ms) \subseteq ids IN
    \/ t.todo = <<"menuRoots", "level", "menuUsers">>
    \/ /\ t.todo = <<"level", "menuUsers">>
       /\ s.level \subseteq s.ids /\ s.ids \subseteq Menus
       /\ held(s.ids \ s.level) /\ asked(s.level)
       /\ known(s.ids \ s.level, s.ids)
    \/ /\ t.todo = <<"relevel", "menuUsers">>
       /\ s.from \subseteq s.ids /\ s.ids \subseteq Menus /\ s.level \subseteq Menus
       /\ held(s.ids) /\ asked(s.level)
       /\ known(s.ids \ s.from, s.ids)
       /\ known(s.from, s.ids \cup s.level)
    \/ /\ t.todo \in {<<"menuUsers">>, <<>>}
       /\ s.ids \subseteq Menus
       /\ held(s.ids)
       /\ known(s.ids, s.ids)

AdminUser(d, u) == Enabled(d, u) /\ IsAdmin(d, RoleIDs(d, u))

\* The updated user is an administrator afterwards.
StaysAdmin(q, d) ==
  /\ Or(q.status, d.user[q.user].status) = 1
  /\ IsAdmin(d, IF q.roles = Keep THEN RoleIDs(d, q.user) ELSE q.roles)

Victims(q, s) == IF q.op = "DeptDelete" THEN s.users ELSE {q.user}

\* What the checks have established, until the commit.
Checked(iso, t, d) ==
  t.stage \in {"revoke", "commit"} =>
    LET q == t.req s == t.seen IN
    /\ iso = RC =>
         /\ Removes(q) => \/ q.op = "UserUpdate" /\ StaysAdmin(q, d)
                          \/ \E u \in Users \ Victims(q, s) : AdminUser(d, u)
         /\ q.op = "RoleUpdate" => (d.role[q.role] = "admin" => q.label \in {Keep, "admin"})
         /\ q.op = "RoleDelete" => d.role[q.role] # "admin"
    /\ q.op = "DeptDelete" => s.row \in Depts \cup {None}
    /\ q.op \in {"UserUpdate", "PersonUpdate"} => s.row \in UserRecord

SignsIn(t, d) == t.stage = "session" => Enabled(d, t.req.user)

Facts(iso, t, d) ==
  t.stage # "idle" =>
    /\ Locked(iso, t)
    /\ HeldExist(t, d)
    /\ RoleDeletion(iso, t, d)
    /\ MenuDeletion(iso, t, d)
    /\ Checked(iso, t, d)
    /\ SignsIn(t, d)

\* A session carries the rights of the committed rows, also while a
\* transaction is about to change them.
Current(iso, s, d) ==
  /\ s \in Session
  /\ Enabled(d, s.user) /\ s.pv = d.user[s.user].pv
  /\ iso = RC => s.roles = RoleIDs(d, s.user)

Apart == \A p, q \in Procs : p # q => proc[p].held \cap proc[q].held = {}

RowsOK(iso, d) ==
  /\ d \in Tables
  /\ Grants(d)
  /\ iso = RC => AdminRoles(InitDB) \subseteq AdminRoles(d) /\ HasAdmin(d) /\ Parents(d)

\* No session of the users whose sessions were revoked has come back.
RevokedAreOut ==
  \A p \in Procs : (proc[p].stage = "commit" /\ proc[p].req.op \notin Signing) =>
    \A s \in sessions : s.user \notin Revoked(proc[p].req, proc[p].seen)

Inv ==
  /\ RowsOK(isolation, db)
  /\ proc = [p \in Procs |-> proc[p]]
  /\ \A p \in Procs : TxOK(isolation, proc[p]) /\ Facts(isolation, proc[p], db)
  /\ Apart
  /\ \A s \in sessions : Current(isolation, s, db)
  /\ RevokedAreOut

-----------------------------------------------------------------------------
(* The fields of a request, and the marks.                                 *)

LEMMA RequestFields ==
  ASSUME NEW q \in RequestForms \cup Logins
  PROVE  /\ q.op = "UserAdd" => q.user \in Users /\ q.roles \subseteq Roles /\ q.dept \in Depts \cup {None}
         /\ q.op = "UserUpdate" =>
              /\ q.user \in Users /\ q.status \in {Keep, 0, 1} /\ q.roles \in {Keep} \cup SUBSET Roles
              /\ q.password \in BOOLEAN /\ q.dept \in {Keep, None} \cup Depts
         /\ q.op \in {"UserDelete", "Login", "Refresh"} => q.user \in Users
         /\ q.op = "UserMove" => q.user \in Users /\ q.dept \in Depts
         /\ q.op = "PersonUpdate" => q.user \in Users /\ q.password \in BOOLEAN
         /\ q.op = "RoleAdd" => q.role \in Roles /\ q.menus \subseteq Menus /\ q.depts \subseteq Depts
         /\ q.op = "RoleUpdate" =>
              /\ q.role \in Roles /\ q.menus \in {Keep} \cup SUBSET Menus
              /\ q.depts \in {Keep} \cup SUBSET Depts /\ q.label \in {Keep, "plain", "admin"}
         /\ q.op = "RoleDelete" => q.role \in Roles
         /\ q.op \in {"MenuAdd", "MenuUpdate", "MenuImport"} => DOMAIN q.parents \subseteq Menus
         /\ q.op = "MenuAdd" => \A m \in DOMAIN q.parents : q.parents[m] \in {None} \cup Menus
         /\ q.op = "MenuUpdate" => \A m \in DOMAIN q.parents : q.parents[m] \in {Keep, None} \cup Menus
         /\ q.op = "MenuImport" => \A m \in DOMAIN q.parents : q.parents[m] \in DOMAIN q.parents \cup {None}
         /\ q.op = "MenuDelete" => q.menus \subseteq Menus
         /\ q.op = "DeptAdd" => q.dept \in Depts /\ q.parent \in {None} \cup Depts
         /\ q.op = "DeptUpdate" => q.dept \in Depts /\ q.parent \in {Keep, None} \cup Depts
         /\ q.op = "DeptDelete" => q.dept \in Depts /\ q.deleteUser \in BOOLEAN
         /\ q.op \in {"UserAdd", "UserUpdate", "UserDelete", "UserMove", "PersonUpdate", "RoleAdd",
                      "RoleUpdate", "RoleDelete", "MenuAdd", "MenuUpdate", "MenuDelete", "MenuImport",
                      "DeptAdd", "DeptUpdate", "DeptDelete", "Login", "Refresh"}
<1>1. \A values : \A f \in PerMenu(values) : DOMAIN f \subseteq Menus /\ \A m \in DOMAIN f : f[m] \in values
  BY DEF PerMenu
<1> QED
  BY <1>1 DEF RequestForms, Logins

-----------------------------------------------------------------------------
(* What a commit may do, and that it leaves the facts of others alone.     *)

KeepsUser(d, e, u) ==
  IF d.user[u] \in Missing THEN e.user[u] = d.user[u]
  ELSE /\ e.user[u] \notin Missing
       /\ e.user[u].status = d.user[u].status
       /\ e.user[u].pv = d.user[u].pv

KeepsAdmins(d, e) ==
  \A u \in Users :
    /\ d.user[u] \notin Missing => e.user[u] \notin Missing /\ e.user[u].status = d.user[u].status
    /\ RoleIDs(d, u) \cap AdminRoles(d) \subseteq RoleIDs(e, u)

Changes(iso, held, d, e) ==
  /\ RowsOK(iso, e)
  /\ \A u \in Users : KeepsUser(d, e, u) \/ UserRow(u) \in held \/ d.user[u] = Absent
  /\ \A r \in Roles : e.role[r] = d.role[r] \/ RoleRow(r) \in held \/ d.role[r] = Absent
  /\ \A u \in Users, r \in Roles :
       <<u, r>> \in e.userRole => <<u, r>> \in d.userRole \/ RoleRow(r) \in held
  /\ \A m \in Menus : \/ e.menu[m] = d.menu[m]
                      \/ /\ MenuRow(m) \in held \/ d.menu[m] = Absent
                         /\ e.menu[m] \in Menus =>
                              MenuRow(e.menu[m]) \in held \/ d.menu[e.menu[m]] = Absent
  /\ iso = RC => /\ AdminRoles(d) \subseteq AdminRoles(e)
                 /\ AdminRows \subseteq held \/ KeepsAdmins(d, e)

\* Who is not revoked keeps what its sessions carry.
Spares(iso, revoked, d, e) ==
  \A u \in Users \ revoked : d.user[u] \notin Missing =>
    KeepsUser(d, e, u) /\ (iso = RC => RoleIDs(e, u) = RoleIDs(d, u))

LEMMA SomeAdminRole ==
  ASSUME NEW d, d \in Tables, HasAdmin(d)
  PROVE  AdminRoles(d) # {}
  BY DEF HasAdmin, IsAdmin

LEMMA AdminRowsExist == AdminRows # {}
<1>1. AdminRoles(InitDB) # {}
  BY InitAssumption, SomeAdminRole
<1> QED
  BY <1>1 DEF AdminRows, Rows

\* The transaction that removes administrators is alone.
LEMMA RemoverHolds ==
  ASSUME NEW iso, NEW t, TxOK(iso, t), t.stage \in {"revoke", "session", "commit"}, Locked(iso, t),
         iso = RC, Removes(t.req)
  PROVE  AdminRows \subseteq t.held
<1>1. t.todo = <<>> /\ t.want = {} /\ Locks(t) = t.held
  BY DEF TxOK, Locks
<1>2. "adminRoles" \notin InTodo(t)
  BY <1>1 DEF InTodo
<1> QED
  BY <1>1, <1>2 DEF Locked

LEMMA AdminsRemain ==
  ASSUME NEW d, NEW e, d \in Tables, e \in Tables, AdminRoles(d) \subseteq AdminRoles(e),
         KeepsAdmins(d, e), NEW u \in Users, AdminUser(d, u)
  PROVE  AdminUser(e, u)
<1>1. Enabled(e, u)
  BY DEF AdminUser, Enabled, All, KeepsAdmins, Tables
<1>2. PICK r \in Roles : r \in RoleIDs(d, u) /\ r \in AdminRoles(d)
  BY DEF AdminUser, IsAdmin, AdminRoles
<1>3. r \in RoleIDs(e, u) /\ r \in AdminRoles(e)
  BY <1>2 DEF KeepsAdmins
<1> QED
  BY <1>1, <1>3 DEF AdminUser, IsAdmin

LEMMA OthersKeepHeld ==
  ASSUME NEW iso, NEW t, NEW held, NEW d, NEW e, held \cap t.held = {}, Changes(iso, held, d, e), HeldExist(t, d)
  PROVE  HeldExist(t, e)
<1>1. ASSUME NEW u \in Users, UserRow(u) \in t.held PROVE e.user[u] \notin Missing
  BY <1>1, MarkAssumption DEF HeldExist, Changes, KeepsUser, Missing
<1>2. ASSUME NEW r \in Roles, RoleRow(r) \in t.held PROVE e.role[r] \notin Missing
  BY <1>2, MarkAssumption DEF HeldExist, Changes, Missing
<1>3. ASSUME NEW m \in Menus, MenuRow(m) \in t.held PROVE e.menu[m] \notin Missing
  BY <1>3, MarkAssumption DEF HeldExist, Changes, Missing
<1> QED
  BY <1>1, <1>2, <1>3 DEF HeldExist

LEMMA OthersKeepRole ==
  ASSUME NEW iso, NEW t, NEW held, NEW d, NEW e, held \cap t.held = {}, Changes(iso, held, d, e),
         RoleDeletion(iso, t, d), t.req \in RequestForms \cup Logins
  PROVE  RoleDeletion(iso, t, e)
<1> SUFFICES ASSUME t.req.op = "RoleDelete", t.todo = <<>>, iso = RC
             PROVE  RoleUsers(e, t.req.role) \subseteq t.seen.users
  BY DEF RoleDeletion
<1>1. t.req.role \in Roles
  BY RequestFields
<1>2. RoleRow(t.req.role) \notin held /\ RoleUsers(d, t.req.role) \subseteq t.seen.users
  BY DEF RoleDeletion
<1> QED
  BY <1>1, <1>2 DEF RoleUsers, Changes

LEMMA KidsKept ==
  ASSUME NEW iso, NEW held, NEW d, NEW e, Changes(iso, held, d, e),
         NEW ms \in SUBSET Menus, Rows(MenuRow, ms) \cap held = {},
         \A m \in ms : d.menu[m] \notin Missing
  PROVE  Kids(e, ms) \subseteq Kids(d, ms)
<1> SUFFICES ASSUME NEW m \in Menus, e.menu[m] \in ms PROVE d.menu[m] \in ms
  BY DEF Kids
<1>1. MenuRow(e.menu[m]) \notin held /\ e.menu[m] \in Menus /\ d.menu[e.menu[m]] # Absent
  BY DEF Rows, Missing
<1> QED
  BY <1>1 DEF Changes

LEMMA OthersKeepMenu ==
  ASSUME NEW iso, NEW t, NEW held, NEW d, NEW e, held \cap t.held = {}, Changes(iso, held, d, e),
         HeldExist(t, d), MenuDeletion(iso, t, d)
  PROVE  MenuDeletion(iso, t, e)
<1> SUFFICES ASSUME t.req.op = "MenuDelete" PROVE MenuDeletion(iso, t, e)
  BY DEF MenuDeletion
<1>a. ASSUME NEW ms, Rows(MenuRow, ms) \subseteq t.held, ms \subseteq Menus
      PROVE  Kids(e, ms) \subseteq Kids(d, ms)
  <2>1. \A m \in ms : d.menu[m] \notin Missing
    BY <1>a DEF HeldExist, Rows
  <2> QED
    BY <1>a, <2>1, KidsKept
<1>1. CASE t.todo = <<"menuRoots", "level", "menuUsers">>
  BY <1>1 DEF MenuDeletion
<1>2. CASE /\ t.todo = <<"level", "menuUsers">>
           /\ t.seen.level \subseteq t.seen.ids /\ t.seen.ids \subseteq Menus
           /\ Rows(MenuRow, t.seen.ids \ t.seen.level) \subseteq t.held
           /\ Rows(MenuRow, t.seen.level) \subseteq Locks(t)
           /\ iso = RC => Kids(d, t.seen.ids \ t.seen.level) \subseteq t.seen.ids
  <2>1. Kids(e, t.seen.ids \ t.seen.level) \subseteq Kids(d, t.seen.ids \ t.seen.level)
    BY <1>2, <1>a
  <2> QED
    BY <1>2, <2>1 DEF MenuDeletion
<1>3. CASE /\ t.todo = <<"relevel", "menuUsers">>
           /\ t.seen.from \subseteq t.seen.ids /\ t.seen.ids \subseteq Menus /\ t.seen.level \subseteq Menus
           /\ Rows(MenuRow, t.seen.ids) \subseteq t.held
           /\ Rows(MenuRow, t.seen.level) \subseteq Locks(t)
           /\ iso = RC => Kids(d, t.seen.ids \ t.seen.from) \subseteq t.seen.ids
           /\ iso = RC => Kids(d, t.seen.from) \subseteq t.seen.ids \cup t.seen.level
  <2>1. Rows(MenuRow, t.seen.from) \subseteq t.held /\ Rows(MenuRow, t.seen.ids \ t.seen.from) \subseteq t.held
    BY <1>3 DEF Rows
  <2>2. /\ Kids(e, t.seen.from) \subseteq Kids(d, t.seen.from)
        /\ Kids(e, t.seen.ids \ t.seen.from) \subseteq Kids(d, t.seen.ids \ t.seen.from)
    BY <1>3, <1>a, <2>1
  <2> QED
    BY <1>3, <2>2 DEF MenuDeletion
<1>4. CASE /\ t.todo \in {<<"menuUsers">>, <<>>}
           /\ t.seen.ids \subseteq Menus
           /\ Rows(MenuRow, t.seen.ids) \subseteq t.held
           /\ iso = RC => Kids(d, t.seen.ids) \subseteq t.seen.ids
  <2>1. Kids(e, t.seen.ids) \subseteq Kids(d, t.seen.ids)
    BY <1>4, <1>a
  <2> QED
    BY <1>4, <2>1 DEF MenuDeletion
<1> QED
  BY <1>1, <1>2, <1>3, <1>4 DEF MenuDeletion

\* A row of a call that the transaction has behind it, once it waits for none.
LEMMA CallHeld ==
  ASSUME NEW iso, NEW t, TxOK(iso, t), Locked(iso, t), t.todo = <<>>, t.want = {}, NEW call \in Calls(t.req)
  PROVE  CallRows(call, t.req) \subseteq t.held
<1>1. call \notin InTodo(t)
  BY DEF InTodo
<1> QED
  BY <1>1 DEF Locked, Locks

LEMMA OthersKeepChecked ==
  ASSUME NEW iso, NEW t, NEW held, NEW d, NEW e, held \cap t.held = {}, d \in Tables, Changes(iso, held, d, e),
         TxOK(iso, t), t.stage # "idle", Locked(iso, t), HeldExist(t, d), Checked(iso, t, d)
  PROVE  Checked(iso, t, e)
<1> SUFFICES ASSUME t.stage \in {"revoke", "commit"} PROVE Checked(iso, t, e)
  BY DEF Checked
<1>0. t.todo = <<>> /\ t.want = {} /\ t.req \in RequestForms \cup Logins
  BY DEF TxOK
<1>e. e \in Tables
  BY DEF Changes, RowsOK
<1>r. CASE iso # RC
  BY <1>r DEF Checked
<1>1. CASE iso = RC /\ Removes(t.req)
  <2>1. KeepsAdmins(d, e) /\ AdminRoles(d) \subseteq AdminRoles(e)
    BY <1>1, RemoverHolds, AdminRowsExist DEF Changes
  <2>2. ASSUME NEW u \in Users \ Victims(t.req, t.seen), AdminUser(d, u) PROVE AdminUser(e, u)
    BY <1>e, <2>1, <2>2, AdminsRemain
  <2>3. ASSUME t.req.op = "UserUpdate", StaysAdmin(t.req, d) PROVE StaysAdmin(t.req, e)
    <3>1. t.req.user \in Users
      BY <1>0, <2>3, RequestFields
    <3>2. UserRow(t.req.user) \in t.held
      <4>1. "user" \in Calls(t.req) /\ CallRows("user", t.req) = {UserRow(t.req.user)}
        BY <2>3 DEF Calls, CallRows
      <4> QED
        BY <1>0, <4>1, CallHeld
    <3>3. d.user[t.req.user] \notin Missing
      BY <3>1, <3>2 DEF HeldExist
    <3>4. Or(t.req.status, e.user[t.req.user].status) = 1
      BY <2>1, <2>3, <3>1, <3>3 DEF StaysAdmin, Or, KeepsAdmins
    <3>5. IsAdmin(e, IF t.req.roles = Keep THEN RoleIDs(e, t.req.user) ELSE t.req.roles)
      BY <2>1, <2>3, <3>1 DEF StaysAdmin, IsAdmin, KeepsAdmins
    <3> QED
      BY <3>4, <3>5 DEF StaysAdmin
  <2>4. t.req.op \notin {"RoleUpdate", "RoleDelete"}
    BY <1>1 DEF Removes
  <2> QED
    BY <2>2, <2>3, <2>4 DEF Checked
<1>2. CASE t.req.op \in {"RoleUpdate", "RoleDelete"}
  <2>1. "role" \in Calls(t.req) /\ CallRows("role", t.req) = {RoleRow(t.req.role)} /\ t.req.role \in Roles
    BY <1>0, <1>2, RequestFields DEF Calls, CallRows
  <2>2. RoleRow(t.req.role) \in t.held
    BY <1>0, <2>1, CallHeld
  <2>3. d.role[t.req.role] \notin Missing
    BY <2>1, <2>2 DEF HeldExist
  <2>4. e.role[t.req.role] = d.role[t.req.role]
    BY <2>1, <2>2, <2>3, MarkAssumption DEF Changes, Missing
  <2> QED
    BY <1>2, <2>4 DEF Checked, Removes
<1>3. CASE ~Removes(t.req) /\ t.req.op \notin {"RoleUpdate", "RoleDelete"}
  BY <1>3 DEF Checked
<1> QED
  BY <1>r, <1>1, <1>2, <1>3

LEMMA OthersKeep ==
  ASSUME NEW iso, NEW t, NEW held, NEW d, NEW e, held \cap t.held = {}, d \in Tables, Changes(iso, held, d, e),
         TxOK(iso, t), Facts(iso, t, d)
  PROVE  Facts(iso, t, e)
<1> SUFFICES ASSUME t.stage # "idle" PROVE Facts(iso, t, e)
  BY DEF Facts
<1>0. t.req \in RequestForms \cup Logins
  BY DEF TxOK
<1>1. Locked(iso, t) /\ HeldExist(t, d) /\ RoleDeletion(iso, t, d) /\ MenuDeletion(iso, t, d) /\ Checked(iso, t, d) /\ SignsIn(t, d)
  BY DEF Facts
<1>2. HeldExist(t, e) /\ RoleDeletion(iso, t, e) /\ MenuDeletion(iso, t, e) /\ Checked(iso, t, e)
  BY <1>0, <1>1, OthersKeepHeld, OthersKeepRole, OthersKeepMenu, OthersKeepChecked
<1>3. SignsIn(t, e)
  <2> SUFFICES ASSUME t.stage = "session" PROVE Enabled(e, t.req.user)
    BY DEF SignsIn
  <2>1. t.req.op \in Signing /\ t.req.user \in Users /\ t.todo = <<>> /\ t.want = {}
    BY <1>0, RequestFields DEF TxOK, Signing
  <2>2. "user" \in Calls(t.req) /\ CallRows("user", t.req) = {UserRow(t.req.user)}
    BY <2>1 DEF Calls, CallRows, Signing
  <2>3. UserRow(t.req.user) \in t.held
    BY <1>1, <2>1, <2>2, CallHeld
  <2>4. d.user[t.req.user] \notin Missing /\ Enabled(d, t.req.user)
    BY <1>1, <2>1, <2>3 DEF HeldExist, SignsIn
  <2>5. KeepsUser(d, e, t.req.user)
    BY <2>1, <2>3, <2>4, MarkAssumption DEF Changes, Missing
  <2>6. e \in Tables
    BY DEF Changes, RowsOK
  <2> QED
    BY <2>1, <2>4, <2>5, <2>6 DEF KeepsUser, Enabled, All, Tables
<1> QED
  BY <1>1, <1>2, <1>3 DEF Facts

-----------------------------------------------------------------------------
(* The effects, grouped by the tables they write.                          *)

LEMMA AdminsStay ==
  ASSUME NEW d, NEW e, RowsOK(RC, d), e \in Tables, AdminRoles(d) \subseteq AdminRoles(e), KeepsAdmins(d, e)
  PROVE  HasAdmin(e)
<1>1. PICK u \in Users : AdminUser(d, u)
  BY DEF RowsOK, HasAdmin, AdminUser
<1>2. AdminUser(e, u)
  BY <1>1, AdminsRemain DEF RowsOK
<1> QED
  BY <1>2 DEF HasAdmin, AdminUser

\* Users and their roles.
LEMMA UserChanges ==
  ASSUME NEW iso, NEW d, NEW e, NEW held, RowsOK(iso, d), e \in Tables,
         e.role = d.role, e.menu = d.menu, e.roleMenu = d.roleMenu,
         \A u \in Users : KeepsUser(d, e, u) \/ UserRow(u) \in held \/ d.user[u] = Absent,
         \A u \in Users, r \in Roles : <<u, r>> \in e.userRole =>
           /\ e.user[u] \notin Missing
           /\ <<u, r>> \in d.userRole \/ (RoleRow(r) \in held /\ d.role[r] \notin Missing),
         iso = RC => (AdminRows \subseteq held /\ HasAdmin(e)) \/ KeepsAdmins(d, e)
  PROVE  Changes(iso, held, d, e)
<1>0. d \in Tables /\ Grants(d)
  BY DEF RowsOK
<1>1. AdminRoles(e) = AdminRoles(d) /\ All(e, "role") = All(d, "role") /\ All(e, "menu") = All(d, "menu")
  BY DEF AdminRoles, All
<1>2. iso = RC => HasAdmin(e)
  BY <1>1, AdminsStay
<1>3. Grants(e)
  <2>1. ASSUME NEW pair \in e.userRole PROVE pair[1] \in All(e, "user") /\ pair[2] \in All(e, "role")
    <3>1. PICK u \in Users, r \in Roles : pair = <<u, r>>
      BY DEF Tables
    <3>2. u \in All(e, "user")
      BY <2>1, <3>1 DEF All, Tables
    <3>3. CASE <<u, r>> \in d.userRole
      BY <1>0, <1>1, <3>1, <3>2, <3>3 DEF Grants
    <3>4. CASE d.role[r] \notin Missing
      <4>1. r \in All(d, "role")
        BY <1>0, <3>4 DEF All, Tables
      <4> QED
        BY <1>1, <3>1, <3>2, <4>1
    <3> QED
      BY <2>1, <3>1, <3>3, <3>4
  <2> QED
    BY <1>0, <1>1, <2>1 DEF Grants
<1>4. RowsOK(iso, e)
  BY <1>1, <1>2, <1>3 DEF RowsOK, Parents
<1> QED
  BY <1>1, <1>4 DEF Changes

\* Roles, who has them, and what they grant.
LEMMA RoleChanges ==
  ASSUME NEW iso, NEW d, NEW e, NEW held, RowsOK(iso, d), e \in Tables,
         e.user = d.user, e.menu = d.menu,
         \A r \in Roles : e.role[r] = d.role[r] \/ RoleRow(r) \in held \/ d.role[r] = Absent,
         iso = RC => AdminRoles(d) \subseteq AdminRoles(e),
         \A u \in Users, r \in Roles : <<u, r>> \in e.userRole =>
           <<u, r>> \in d.userRole /\ e.role[r] \notin Missing,
         iso = RC => \A u \in Users, r \in AdminRoles(d) : <<u, r>> \in d.userRole => <<u, r>> \in e.userRole,
         \A r \in Roles, m \in Menus : <<r, m>> \in e.roleMenu =>
           e.role[r] \notin Missing /\ d.menu[m] \notin Missing
  PROVE  Changes(iso, held, d, e)
<1>0. d \in Tables /\ Grants(d)
  BY DEF RowsOK
<1>1. All(e, "user") = All(d, "user") /\ All(e, "menu") = All(d, "menu")
  BY DEF All
<1>2. iso = RC => KeepsAdmins(d, e)
  <2> SUFFICES ASSUME iso = RC PROVE KeepsAdmins(d, e)
    OBVIOUS
  <2>1. ASSUME NEW u \in Users, NEW r \in RoleIDs(d, u) \cap AdminRoles(d) PROVE r \in RoleIDs(e, u)
    <3>1. r \in Roles /\ <<u, r>> \in e.userRole /\ e.role[r] = "admin"
      BY <2>1 DEF RoleIDs, AdminRoles
    <3> QED
      BY <3>1, MarkAssumption DEF RoleIDs, All, Tables, Missing
  <2> QED
    BY <2>1 DEF KeepsAdmins
<1>3. iso = RC => HasAdmin(e)
  BY <1>2, AdminsStay
<1>4. Grants(e)
  <2>1. ASSUME NEW pair \in e.userRole PROVE pair[1] \in All(e, "user") /\ pair[2] \in All(e, "role")
    <3>1. PICK u \in Users, r \in Roles : pair = <<u, r>>
      BY DEF Tables
    <3>2. <<u, r>> \in d.userRole /\ e.role[r] \notin Missing
      BY <2>1, <3>1
    <3>3. u \in All(d, "user") /\ r \in All(e, "role")
      BY <1>0, <3>2 DEF Grants, All, Tables
    <3> QED
      BY <1>1, <3>1, <3>3
  <2>2. ASSUME NEW pair \in e.roleMenu PROVE pair[1] \in All(e, "role") /\ pair[2] \in All(e, "menu")
    <3>1. PICK r \in Roles, m \in Menus : pair = <<r, m>>
      BY DEF Tables
    <3>2. r \in All(e, "role") /\ m \in All(d, "menu")
      BY <1>0, <2>2, <3>1 DEF All, Tables
    <3> QED
      BY <1>1, <3>1, <3>2
  <2> QED
    BY <1>0, <1>1, <2>1, <2>2 DEF Grants
<1>5. RowsOK(iso, e)
  BY <1>1, <1>3, <1>4 DEF RowsOK, Parents
<1>6. \A u \in Users : KeepsUser(d, e, u)
  BY DEF KeepsUser
<1> QED
  BY <1>2, <1>5, <1>6 DEF Changes

\* Menus and the roles that grant them.
LEMMA MenuChanges ==
  ASSUME NEW iso, NEW d, NEW e, NEW held, RowsOK(iso, d), e \in Tables,
         e.user = d.user, e.role = d.role, e.userRole = d.userRole,
         \A m \in Menus : \/ e.menu[m] = d.menu[m]
                          \/ /\ MenuRow(m) \in held \/ d.menu[m] = Absent
                             /\ e.menu[m] \in Menus =>
                                  MenuRow(e.menu[m]) \in held \/ d.menu[e.menu[m]] = Absent,
         \A r \in Roles, m \in Menus : <<r, m>> \in e.roleMenu =>
           <<r, m>> \in d.roleMenu /\ e.menu[m] \notin Missing,
         iso = RC => \A m \in Menus : e.menu[m] \in Menus => e.menu[e.menu[m]] \notin Missing
  PROVE  Changes(iso, held, d, e) /\ Spares(iso, {}, d, e)
<1>0. d \in Tables /\ Grants(d)
  BY DEF RowsOK
<1>1. /\ All(e, "user") = All(d, "user") /\ All(e, "role") = All(d, "role")
      /\ AdminRoles(e) = AdminRoles(d) /\ \A u \in Users : RoleIDs(e, u) = RoleIDs(d, u)
  BY DEF All, AdminRoles, RoleIDs
<1>2. KeepsAdmins(d, e)
  BY <1>1 DEF KeepsAdmins
<1>3. iso = RC => HasAdmin(e)
  BY <1>1, <1>2, AdminsStay
<1>4. Grants(e)
  <2>1. ASSUME NEW pair \in e.roleMenu PROVE pair[1] \in All(e, "role") /\ pair[2] \in All(e, "menu")
    <3>1. PICK r \in Roles, m \in Menus : pair = <<r, m>>
      BY DEF Tables
    <3>2. <<r, m>> \in d.roleMenu /\ m \in All(e, "menu")
      BY <2>1, <3>1 DEF All, Tables
    <3> QED
      BY <1>0, <1>1, <3>1, <3>2 DEF Grants
  <2> QED
    BY <1>0, <1>1, <2>1 DEF Grants
<1>p. iso = RC => Parents(e)
  <2> SUFFICES ASSUME iso = RC, NEW m \in All(e, "menu"), e.menu[m] # None
               PROVE  e.menu[m] \in All(e, "menu")
    BY DEF Parents
  <2>1. m \in Menus /\ e.menu[m] \in Menus
    BY DEF All, Tables
  <2> QED
    BY <2>1 DEF All, Tables
<1>5. RowsOK(iso, e)
  BY <1>1, <1>3, <1>4, <1>p DEF RowsOK
<1>6. \A u \in Users : KeepsUser(d, e, u)
  BY DEF KeepsUser
<1> QED
  BY <1>1, <1>2, <1>5, <1>6 DEF Changes, Spares

-----------------------------------------------------------------------------
(* The effect of each operation.                                           *)

Committing(iso, t, d) == TxOK(iso, t) /\ t.stage = "commit" /\ Facts(iso, t, d) /\ RowsOK(iso, d)
Keeps(iso, t, d, e) == Changes(iso, t.held, d, e) /\ Spares(iso, Revoked(t.req, t.seen), d, e)

LEMMA CommittingFacts ==
  ASSUME NEW iso, NEW t, NEW d, Committing(iso, t, d)
  PROVE  /\ t.req \in RequestForms \cup Logins /\ t.todo = <<>> /\ t.want = {}
         /\ SeenOK(t.seen) /\ Locked(iso, t) /\ HeldExist(t, d)
         /\ RoleDeletion(iso, t, d) /\ MenuDeletion(iso, t, d) /\ Checked(iso, t, d)
         /\ Rows(UserRow, t.seen.users) \subseteq t.held
         /\ Rows(MenuRow, t.seen.menus) \subseteq t.held
         /\ \A call \in Calls(t.req) : CallRows(call, t.req) \subseteq t.held
         /\ d \in Tables /\ Grants(d)
<1>1. /\ t.req \in RequestForms \cup Logins /\ t.todo = <<>> /\ t.want = {} /\ SeenOK(t.seen)
      /\ d \in Tables /\ Grants(d)
  BY DEF Committing, TxOK, RowsOK
<1>2. Locked(iso, t) /\ HeldExist(t, d) /\ RoleDeletion(iso, t, d) /\ MenuDeletion(iso, t, d) /\ Checked(iso, t, d)
  BY DEF Committing, Facts
<1>3. \A call \in Calls(t.req) : CallRows(call, t.req) \subseteq t.held
  BY <1>1, <1>2, CallHeld DEF Committing
<1> QED
  BY <1>1, <1>2, <1>3 DEF Locked, Locks

LEMMA UserHeld ==
  ASSUME NEW iso, NEW t, NEW d, Committing(iso, t, d), "user" \in Calls(t.req), t.req.user \in Users
  PROVE  UserRow(t.req.user) \in t.held /\ d.user[t.req.user] \in UserRecord
<1>1. CallRows("user", t.req) = {UserRow(t.req.user)}
  BY DEF CallRows
<1>2. UserRow(t.req.user) \in t.held
  BY <1>1, CommittingFacts
<1>3. d.user[t.req.user] \notin Missing /\ d \in Tables
  BY <1>2, CommittingFacts DEF HeldExist
<1> QED
  BY <1>2, <1>3 DEF Tables, UserRecord

LEMMA RecordIsThere == \A x \in UserRecord : x \notin Missing
  BY MarkAssumption DEF UserRecord

LEMMA RecordMoved ==
  ASSUME NEW x \in UserRecord, NEW dept \in Depts \cup {None}
  PROVE  /\ [x EXCEPT !.dept = dept] \in UserRecord
         /\ [x EXCEPT !.dept = dept].status = x.status /\ [x EXCEPT !.dept = dept].pv = x.pv
  BY DEF UserRecord

LEMMA RecordVersion ==
  ASSUME NEW x \in UserRecord, NEW pv \in Nat
  PROVE  /\ [x EXCEPT !.pv = pv] \in UserRecord
         /\ [x EXCEPT !.pv = pv].status = x.status /\ [x EXCEPT !.pv = pv].pv = pv
  BY DEF UserRecord

LEMMA UserAddEffect ==
  ASSUME NEW iso, NEW t, NEW d, Committing(iso, t, d), t.req.op = "UserAdd", d.user[t.req.user] = Absent
  PROVE  Keeps(iso, t, d, UserAdd(t.req, t.seen, d))
<1> DEFINE q == t.req
           new == [status |-> 1, pv |-> 1, dept |-> q.dept]
           e == UserAdd(q, t.seen, d)
<1>1. q.user \in Users /\ q.roles \subseteq Roles /\ q.dept \in Depts \cup {None} /\ d \in Tables /\ Grants(d)
  BY CommittingFacts, RequestFields
<1>2. new \in UserRecord
  BY <1>1 DEF UserRecord
<1>3. /\ e.user = [d.user EXCEPT ![q.user] = new]
      /\ e.userRole = SetRoles(d.userRole, q.user, q.roles)
      /\ e.role = d.role /\ e.menu = d.menu /\ e.roleMenu = d.roleMenu
      /\ e.dept = d.dept /\ e.roleDept = d.roleDept
  BY <1>1 DEF UserAdd, Tables
<1>4. e \in Tables
  <2>1. e.user \in [Users -> UserRecord \cup Missing]
    BY <1>1, <1>2, <1>3 DEF Tables, UserRecord
  <2>2. e.userRole \in SUBSET (Users \X Roles)
    BY <1>1, <1>3 DEF Tables, SetRoles, Without
  <2> QED
    BY <1>1, <1>3, <2>1, <2>2 DEF Tables, UserRecord, UserAdd
<1>5. \A r \in q.roles : RoleRow(r) \in t.held /\ d.role[r] \notin Missing
  <2>1. "roles" \in Calls(q) /\ CallRows("roles", q) = Rows(RoleRow, q.roles)
    BY DEF Calls, CallRows
  <2>2. Rows(RoleRow, q.roles) \subseteq t.held
    BY <2>1, CommittingFacts
  <2> QED
    BY <1>1, <2>2, CommittingFacts DEF Rows, HeldExist
<1>6. \A u \in Users, r \in Roles : <<u, r>> \in e.userRole <=>
        (u # q.user /\ <<u, r>> \in d.userRole) \/ (u = q.user /\ r \in q.roles)
  BY <1>1, <1>3 DEF SetRoles, Without
<1>7. \A u \in Users \ {q.user} : KeepsUser(d, e, u) /\ e.user[u] = d.user[u]
  BY <1>1, <1>3 DEF KeepsUser, Tables
<1>8. \A u \in Users, r \in Roles : <<u, r>> \in d.userRole => d.user[u] \notin Missing
  BY <1>1 DEF Grants, All
<1>9. \A u \in Users \ {q.user} : RoleIDs(e, u) = RoleIDs(d, u)
  <2>1. All(e, "role") = All(d, "role") /\ All(d, "role") \subseteq Roles
    BY <1>1, <1>3 DEF All, Tables
  <2> QED
    BY <1>6, <2>1 DEF RoleIDs
<1>10. KeepsAdmins(d, e)
  <2>1. RoleIDs(d, q.user) = {} /\ d.user[q.user] \in Missing
    BY <1>1, <1>8 DEF RoleIDs, Missing, All, Tables
  <2> QED
    BY <1>7, <1>9, <2>1 DEF KeepsAdmins
<1>11. \A u \in Users, r \in Roles : <<u, r>> \in e.userRole =>
         /\ e.user[u] \notin Missing
         /\ <<u, r>> \in d.userRole \/ (RoleRow(r) \in t.held /\ d.role[r] \notin Missing)
  <2>1. e.user[q.user] \notin Missing
    BY <1>1, <1>2, <1>3, RecordIsThere DEF Tables
  <2> QED
    BY <1>5, <1>6, <1>7, <1>8, <2>1
<1>12. Changes(iso, t.held, d, e)
  <2>1. \A u \in Users : KeepsUser(d, e, u) \/ UserRow(u) \in t.held \/ d.user[u] = Absent
    BY <1>7
  <2> HIDE DEF e
  <2> QED
    BY <1>3, <1>4, <1>10, <1>11, <2>1, UserChanges DEF Committing
<1>13. Spares(iso, Revoked(q, t.seen), d, e)
  BY <1>7, <1>9 DEF Spares, Missing
<1> QED
  BY <1>12, <1>13 DEF Keeps

LEMMA UserUpdateEffect ==
  ASSUME NEW iso, NEW t, NEW d, Committing(iso, t, d), t.req.op = "UserUpdate"
  PROVE  Keeps(iso, t, d, UserUpdate(t.req, t.seen, d))
<1> DEFINE q == t.req
           old == d.user[q.user]
           rec == [status |-> Or(q.status, old.status),
                   pv |-> IF q.password THEN t.seen.row.pv + 1 ELSE old.pv,
                   dept |-> Or(q.dept, old.dept)]
           rel == IF q.roles = Keep THEN d.userRole ELSE SetRoles(d.userRole, q.user, q.roles)
           e == UserUpdate(q, t.seen, d)
<1>1. /\ q.user \in Users /\ q.status \in {Keep, 0, 1} /\ q.roles \in {Keep} \cup SUBSET Roles
      /\ q.password \in BOOLEAN /\ q.dept \in {Keep, None} \cup Depts /\ d \in Tables /\ Grants(d)
  BY CommittingFacts, RequestFields
<1>u. "user" \in Calls(q)
  BY DEF Calls
<1>h. UserRow(q.user) \in t.held /\ old \in UserRecord
  BY <1>1, <1>u, UserHeld
<1>s. t.seen.row \in UserRecord
  BY CommittingFacts DEF Checked, Committing
<1>2. rec \in UserRecord
  BY <1>1, <1>h, <1>s DEF UserRecord, Or
<1>3. /\ e.user = [d.user EXCEPT ![q.user] = rec]
      /\ e.userRole = rel
      /\ e.role = d.role /\ e.menu = d.menu /\ e.roleMenu = d.roleMenu
      /\ e.dept = d.dept /\ e.roleDept = d.roleDept
  BY <1>1, SMTT(40) DEF UserUpdate, Tables
<1>4. e \in Tables
  <2>1. e.user \in [Users -> UserRecord \cup Missing]
    BY <1>1, <1>2, <1>3 DEF Tables, UserRecord
  <2>2. e.userRole \in SUBSET (Users \X Roles)
    BY <1>1, <1>3 DEF Tables, SetRoles, Without
  <2> QED
    BY <1>1, <1>3, <2>1, <2>2 DEF Tables, UserRecord, UserUpdate
<1>5. q.roles # Keep => \A r \in q.roles : RoleRow(r) \in t.held /\ d.role[r] \notin Missing
  <2> SUFFICES ASSUME q.roles # Keep
               PROVE  \A r \in q.roles : RoleRow(r) \in t.held /\ d.role[r] \notin Missing
    OBVIOUS
  <2>1. "involved" \in Calls(q) /\ CallRows("involved", q) = Rows(RoleRow, q.roles)
    BY DEF Calls, CallRows, AuthChanged
  <2>2. Rows(RoleRow, q.roles) \subseteq t.held
    BY <2>1, CommittingFacts
  <2> QED
    BY <1>1, <2>2, CommittingFacts DEF Rows, HeldExist
<1>6. \A u \in Users, r \in Roles : <<u, r>> \in e.userRole <=>
        IF u = q.user /\ q.roles # Keep THEN r \in q.roles ELSE <<u, r>> \in d.userRole
  BY <1>1, <1>3, SMTT(40) DEF SetRoles, Without
<1>7. e.user[q.user] = rec /\ \A u \in Users \ {q.user} : KeepsUser(d, e, u) /\ e.user[u] = d.user[u]
  BY <1>1, <1>3 DEF KeepsUser, Tables
<1>8. \A u \in Users, r \in Roles : <<u, r>> \in d.userRole => d.user[u] \notin Missing
  BY <1>1 DEF Grants, All
<1>r. All(e, "role") = All(d, "role") /\ All(d, "role") \subseteq Roles /\ AdminRoles(e) = AdminRoles(d)
  BY <1>1, <1>3 DEF All, Tables, AdminRoles
<1>9. \A u \in Users \ {q.user} : RoleIDs(e, u) = RoleIDs(d, u)
  BY <1>6, <1>r DEF RoleIDs
<1>10. ASSUME ~AuthChanged(q)
       PROVE  RoleIDs(e, q.user) = RoleIDs(d, q.user) /\ rec.status = old.status
  <2>1. q.roles = Keep /\ q.status = Keep
    BY <1>10 DEF AuthChanged
  <2> QED
    BY <1>1, <1>6, <1>r, <2>1 DEF RoleIDs, Or
<1>11. \A u \in Users, r \in Roles : <<u, r>> \in e.userRole =>
         /\ e.user[u] \notin Missing
         /\ <<u, r>> \in d.userRole \/ (RoleRow(r) \in t.held /\ d.role[r] \notin Missing)
  BY <1>2, <1>5, <1>6, <1>7, <1>8, RecordIsThere
<1>12. iso = RC => (AdminRows \subseteq t.held /\ HasAdmin(e)) \/ KeepsAdmins(d, e)
  <2> SUFFICES ASSUME iso = RC PROVE (AdminRows \subseteq t.held /\ HasAdmin(e)) \/ KeepsAdmins(d, e)
    OBVIOUS
  <2>1. CASE ~AuthChanged(q)
    BY <1>2, <1>7, <1>9, <1>10, <2>1, RecordIsThere DEF KeepsAdmins
  <2>2. CASE AuthChanged(q)
    <3>1. Removes(q) /\ AdminRows \subseteq t.held
      BY <2>2, CommittingFacts, RemoverHolds DEF Removes, Committing
    <3>2. CASE StaysAdmin(q, d)
      <4>1. Enabled(e, q.user)
        BY <1>1, <1>2, <1>4, <1>7, <3>2, RecordIsThere DEF StaysAdmin, Enabled, All, Tables
      <4>2. PICK r \in AdminRoles(d) : IF q.roles = Keep THEN r \in RoleIDs(d, q.user) ELSE r \in q.roles
        BY <3>2 DEF StaysAdmin, IsAdmin
      <4>3. r \in Roles /\ d.role[r] = "admin" /\ r \in All(d, "role")
        BY <1>1, <4>2, MarkAssumption DEF AdminRoles, All, Tables
      <4>4. <<q.user, r>> \in e.userRole
        BY <1>1, <1>6, <4>2, <4>3 DEF RoleIDs
      <4>5. IsAdmin(e, RoleIDs(e, q.user))
        BY <1>r, <4>2, <4>3, <4>4 DEF IsAdmin, RoleIDs
      <4> QED
        BY <1>1, <3>1, <4>1, <4>5 DEF HasAdmin
    <3>3. CASE \E u \in Users \ Victims(q, t.seen) : AdminUser(d, u)
      <4>1. PICK u \in Users \ {q.user} : AdminUser(d, u)
        BY <3>3 DEF Victims
      <4>2. Enabled(e, u)
        BY <1>1, <1>4, <1>7, <4>1 DEF AdminUser, Enabled, All, Tables
      <4>3. IsAdmin(e, RoleIDs(e, u))
        BY <1>9, <1>r, <4>1 DEF AdminUser, IsAdmin
      <4> QED
        BY <3>1, <4>1, <4>2, <4>3 DEF HasAdmin
    <3> QED
      BY <3>1, <3>2, <3>3, CommittingFacts DEF Checked, Committing
  <2> QED
    BY <2>1, <2>2
<1>13. Changes(iso, t.held, d, e)
  <2>1. \A u \in Users : KeepsUser(d, e, u) \/ UserRow(u) \in t.held \/ d.user[u] = Absent
    BY <1>7, <1>h
  <2> HIDE DEF e
  <2> QED
    BY <1>3, <1>4, <1>11, <1>12, <2>1, UserChanges DEF Committing
<1>14. Spares(iso, Revoked(q, t.seen), d, e)
  <2>1. CASE AuthChanged(q) \/ q.password
    <3>1. Revoked(q, t.seen) = {q.user}
      BY <2>1 DEF Revoked
    <3> QED
      BY <1>7, <1>9, <3>1 DEF Spares
  <2>2. CASE ~(AuthChanged(q) \/ q.password)
    <3>1. rec.status = old.status /\ rec.pv = old.pv /\ RoleIDs(e, q.user) = RoleIDs(d, q.user)
      BY <1>10, <2>2
    <3>2. KeepsUser(d, e, q.user)
      BY <1>2, <1>7, <1>h, <3>1, RecordIsThere, ZenonT(40) DEF KeepsUser
    <3> QED
      BY <1>7, <1>9, <3>1, <3>2 DEF Spares
  <2> QED
    BY <2>1, <2>2
<1> QED
  BY <1>13, <1>14 DEF Keeps

LEMMA UserDeleteEffect ==
  ASSUME NEW iso, NEW t, NEW d, Committing(iso, t, d), t.req.op = "UserDelete"
  PROVE  Keeps(iso, t, d, UserDelete(t.req, t.seen, d))
<1> DEFINE q == t.req
           e == UserDelete(q, t.seen, d)
<1>1. q.user \in Users /\ d \in Tables /\ Grants(d)
  BY CommittingFacts, RequestFields
<1>u. "user" \in Calls(q)
  BY DEF Calls
<1>h. UserRow(q.user) \in t.held
  BY <1>1, <1>u, UserHeld
<1>3. /\ e.user = [d.user EXCEPT ![q.user] = Gone]
      /\ e.userRole = Without(d.userRole, {q.user}, {})
      /\ e.role = d.role /\ e.menu = d.menu /\ e.roleMenu = d.roleMenu
      /\ e.dept = d.dept /\ e.roleDept = d.roleDept
  BY <1>1 DEF UserDelete, Tables
<1>4. e \in Tables
  <2>1. e.user \in [Users -> UserRecord \cup Missing]
    BY <1>1, <1>3 DEF Tables, UserRecord, Missing
  <2>2. e.userRole \in SUBSET (Users \X Roles)
    BY <1>1, <1>3 DEF Tables, Without
  <2> QED
    BY <1>1, <1>3, <2>1, <2>2 DEF Tables, UserRecord, UserDelete
<1>6. \A u \in Users, r \in Roles : <<u, r>> \in e.userRole <=> u # q.user /\ <<u, r>> \in d.userRole
  BY <1>1, <1>3 DEF Without
<1>7. \A u \in Users \ {q.user} : KeepsUser(d, e, u) /\ e.user[u] = d.user[u]
  BY <1>1, <1>3 DEF KeepsUser, Tables
<1>8. \A u \in Users, r \in Roles : <<u, r>> \in d.userRole => d.user[u] \notin Missing
  BY <1>1 DEF Grants, All
<1>r. All(e, "role") = All(d, "role") /\ All(d, "role") \subseteq Roles /\ AdminRoles(e) = AdminRoles(d)
  BY <1>1, <1>3 DEF All, Tables, AdminRoles
<1>9. \A u \in Users \ {q.user} : RoleIDs(e, u) = RoleIDs(d, u)
  BY <1>6, <1>r DEF RoleIDs
<1>12. iso = RC => AdminRows \subseteq t.held /\ HasAdmin(e)
  <2> SUFFICES ASSUME iso = RC PROVE AdminRows \subseteq t.held /\ HasAdmin(e)
    OBVIOUS
  <2>1. Removes(q) /\ AdminRows \subseteq t.held
    BY CommittingFacts, RemoverHolds DEF Removes, Committing
  <2>2. PICK u \in Users \ {q.user} : AdminUser(d, u)
    BY <2>1, CommittingFacts DEF Checked, Committing, Victims
  <2>3. Enabled(e, u)
    BY <1>1, <1>4, <1>7, <2>2 DEF AdminUser, Enabled, All, Tables
  <2>4. IsAdmin(e, RoleIDs(e, u))
    BY <1>9, <1>r, <2>2 DEF AdminUser, IsAdmin
  <2> QED
    BY <2>1, <2>2, <2>3, <2>4 DEF HasAdmin
<1>13. Changes(iso, t.held, d, e)
  <2>1. \A u \in Users : KeepsUser(d, e, u) \/ UserRow(u) \in t.held \/ d.user[u] = Absent
    BY <1>7, <1>h
  <2>2. \A u \in Users, r \in Roles : <<u, r>> \in e.userRole =>
          e.user[u] \notin Missing /\ <<u, r>> \in d.userRole
    BY <1>6, <1>7, <1>8
  <2> HIDE DEF e
  <2> QED
    BY <1>3, <1>4, <1>12, <2>1, <2>2, UserChanges DEF Committing
<1>14. Spares(iso, Revoked(q, t.seen), d, e)
  BY <1>7, <1>9 DEF Spares, Revoked
<1> QED
  BY <1>13, <1>14 DEF Keeps

\* One row of a user gets another department or password version.
LEMMA OneUserEffect ==
  ASSUME NEW iso, NEW t, NEW d, NEW e, Committing(iso, t, d), "user" \in Calls(t.req), t.req.user \in Users,
         NEW rec \in UserRecord, rec.status = d.user[t.req.user].status,
         rec.pv = d.user[t.req.user].pv \/ t.req.user \in Revoked(t.req, t.seen),
         e = [d EXCEPT !.user[t.req.user] = rec]
  PROVE  Keeps(iso, t, d, e)
<1> DEFINE u0 == t.req.user
<1>1. d \in Tables /\ Grants(d)
  BY CommittingFacts
<1>h. UserRow(u0) \in t.held /\ d.user[u0] \in UserRecord
  BY UserHeld
<1>3. /\ e.user = [d.user EXCEPT ![u0] = rec]
      /\ e.userRole = d.userRole /\ e.role = d.role /\ e.menu = d.menu /\ e.roleMenu = d.roleMenu
      /\ e.dept = d.dept /\ e.roleDept = d.roleDept
  BY <1>1 DEF Tables
<1>4. e \in Tables
  <2>1. e.user \in [Users -> UserRecord \cup Missing]
    BY <1>1, <1>3 DEF Tables, UserRecord
  <2> QED
    BY <1>1, <1>3, <2>1 DEF Tables, UserRecord
<1>7. e.user[u0] = rec /\ \A u \in Users \ {u0} : KeepsUser(d, e, u) /\ e.user[u] = d.user[u]
  BY <1>1, <1>3 DEF KeepsUser, Tables
<1>8. \A u \in Users, r \in Roles : <<u, r>> \in d.userRole => d.user[u] \notin Missing
  BY <1>1 DEF Grants, All
<1>9. \A u \in Users : RoleIDs(e, u) = RoleIDs(d, u)
  BY <1>3 DEF RoleIDs, All
<1>12. KeepsAdmins(d, e)
  BY <1>7, <1>9, RecordIsThere DEF KeepsAdmins
<1>13. Changes(iso, t.held, d, e)
  <2>1. \A u \in Users : KeepsUser(d, e, u) \/ UserRow(u) \in t.held \/ d.user[u] = Absent
    BY <1>7, <1>h
  <2>2. \A u \in Users, r \in Roles : <<u, r>> \in e.userRole =>
          e.user[u] \notin Missing /\ <<u, r>> \in d.userRole
    BY <1>3, <1>7, <1>8, RecordIsThere
  <2> QED
    BY <1>3, <1>4, <1>12, <2>1, <2>2, UserChanges DEF Committing
<1>14. Spares(iso, Revoked(t.req, t.seen), d, e)
  <2>1. rec.pv = d.user[u0].pv => KeepsUser(d, e, u0)
    BY <1>7, <1>h, RecordIsThere DEF KeepsUser
  <2> QED
    BY <1>7, <1>9, <2>1 DEF Spares
<1> QED
  BY <1>13, <1>14 DEF Keeps

LEMMA UserMoveEffect ==
  ASSUME NEW iso, NEW t, NEW d, Committing(iso, t, d), t.req.op = "UserMove"
  PROVE  Keeps(iso, t, d, UserMove(t.req, t.seen, d))
<1>1. t.req.user \in Users /\ t.req.dept \in Depts /\ d \in Tables
  BY CommittingFacts, RequestFields
<1>2. "user" \in Calls(t.req) /\ t.req.user \in Revoked(t.req, t.seen)
  BY DEF Calls, Revoked
<1>3. d.user[t.req.user] \in UserRecord
  BY <1>1, <1>2, UserHeld
<1>4. PICK rec \in UserRecord : /\ rec = [d.user[t.req.user] EXCEPT !.dept = t.req.dept]
                                /\ rec.status = d.user[t.req.user].status
  BY <1>1, <1>3, RecordMoved
<1>5. UserMove(t.req, t.seen, d) = [d EXCEPT !.user[t.req.user] = rec]
  BY <1>1, <1>4 DEF UserMove, Tables
<1> QED
  BY <1>1, <1>2, <1>4, <1>5, OneUserEffect

LEMMA PersonUpdateEffect ==
  ASSUME NEW iso, NEW t, NEW d, Committing(iso, t, d), t.req.op = "PersonUpdate"
  PROVE  Keeps(iso, t, d, PersonUpdate(t.req, t.seen, d))
<1>1. t.req.user \in Users /\ t.req.password \in BOOLEAN /\ d \in Tables
  BY CommittingFacts, RequestFields
<1>2. "user" \in Calls(t.req) /\ (t.req.password => t.req.user \in Revoked(t.req, t.seen))
  BY DEF Calls, Revoked
<1>3. d.user[t.req.user] \in UserRecord
  BY <1>1, <1>2, UserHeld
<1>s. t.seen.row \in UserRecord
  BY CommittingFacts DEF Checked, Committing
<1>4. PICK pv \in Nat : pv = IF t.req.password THEN t.seen.row.pv + 1 ELSE d.user[t.req.user].pv
  BY <1>3, <1>s DEF UserRecord
<1>5. PICK rec \in UserRecord : /\ rec = [d.user[t.req.user] EXCEPT !.pv = pv]
                                /\ rec.status = d.user[t.req.user].status /\ rec.pv = pv
  BY <1>1, <1>3, <1>4, RecordVersion
<1>6. PersonUpdate(t.req, t.seen, d) = [d EXCEPT !.user[t.req.user] = rec]
  BY <1>1, <1>4, <1>5 DEF PersonUpdate, Tables
<1> QED
  BY <1>1, <1>2, <1>4, <1>5, <1>6, OneUserEffect

LEMMA DeptDeleteEffect ==
  ASSUME NEW iso, NEW t, NEW d, Committing(iso, t, d), t.req.op = "DeptDelete"
  PROVE  Keeps(iso, t, d, DeptDelete(t.req, t.seen, d))
<1> DEFINE q == t.req
           s == t.seen
           e == DeptDelete(q, s, d)
           users == [u \in Users |->
                        IF q.deleteUser /\ u \in s.users THEN Gone
                        ELSE IF ~ q.deleteUser /\ s.users # {} /\ u \in DeptUsers(d, s.ids)
                        THEN [d.user[u] EXCEPT !.dept = s.row] ELSE d.user[u]]
<1>1. /\ q.dept \in Depts /\ q.deleteUser \in BOOLEAN /\ d \in Tables /\ Grants(d)
      /\ s.users \subseteq Users /\ Rows(UserRow, s.users) \subseteq t.held
  BY CommittingFacts, RequestFields DEF SeenOK
<1>s. s.row \in Depts \cup {None}
  BY CommittingFacts DEF Checked, Committing
<1>3. /\ e.user = users
      /\ e.userRole = IF q.deleteUser THEN Without(d.userRole, s.users, {}) ELSE d.userRole
      /\ e.role = d.role /\ e.menu = d.menu /\ e.roleMenu = d.roleMenu
      /\ e.dept = [x \in Depts |-> IF x \in s.ids THEN Gone ELSE d.dept[x]]
      /\ e.roleDept = Without(d.roleDept, {}, s.ids)
  BY <1>1 DEF DeptDelete, Tables
<1>4. e \in Tables
  <2>1. ASSUME NEW u \in Users PROVE users[u] \in UserRecord \cup Missing
    <3>1. u \in DeptUsers(d, s.ids) => d.user[u] \in UserRecord
      BY <1>1 DEF DeptUsers, All, Tables, UserRecord
    <3>2. u \in DeptUsers(d, s.ids) => [d.user[u] EXCEPT !.dept = s.row] \in UserRecord
      BY <1>s, <3>1 DEF UserRecord
    <3> QED
      BY <1>1, <3>2 DEF Tables, UserRecord, Missing
  <2>2. e.user \in [Users -> UserRecord \cup Missing]
    BY <1>3, <2>1
  <2>3. e.userRole \in SUBSET (Users \X Roles) /\ e.roleDept \in SUBSET (Roles \X Depts)
    BY <1>1, <1>3 DEF Tables, Without
  <2>4. e.dept \in [Depts -> Depts \cup {None} \cup Missing]
    BY <1>1, <1>3 DEF Tables, Missing
  <2> QED
    BY <1>1, <1>3, <2>2, <2>3, <2>4 DEF Tables, UserRecord, DeptDelete
<1>6. \A u \in Users, r \in Roles : <<u, r>> \in e.userRole <=>
        ~(q.deleteUser /\ u \in s.users) /\ <<u, r>> \in d.userRole
  BY <1>1, <1>3 DEF Without
<1>7. \A u \in Users : ~(q.deleteUser /\ u \in s.users) => KeepsUser(d, e, u)
  <2> SUFFICES ASSUME NEW u \in Users, ~(q.deleteUser /\ u \in s.users) PROVE KeepsUser(d, e, u)
    OBVIOUS
  <2>1. CASE u \in DeptUsers(d, s.ids)
    <3>1. d.user[u] \in UserRecord
      BY <1>1, <2>1 DEF DeptUsers, All, Tables, UserRecord
    <3>2. PICK rec \in UserRecord : /\ rec = [d.user[u] EXCEPT !.dept = s.row]
                                    /\ rec.status = d.user[u].status /\ rec.pv = d.user[u].pv
      BY <1>s, <3>1, RecordMoved
    <3>3. e.user[u] \in {rec, d.user[u]}
      BY <1>3, <3>2
    <3> QED
      BY <3>1, <3>2, <3>3, RecordIsThere DEF KeepsUser
  <2>2. CASE u \notin DeptUsers(d, s.ids)
    <3>1. e.user[u] = d.user[u]
      BY <1>3, <2>2
    <3> QED
      BY <3>1 DEF KeepsUser
  <2> QED
    BY <2>1, <2>2
<1>8. \A u \in Users, r \in Roles : <<u, r>> \in d.userRole => d.user[u] \notin Missing
  BY <1>1 DEF Grants, All
<1>r. All(e, "role") = All(d, "role") /\ All(d, "role") \subseteq Roles /\ AdminRoles(e) = AdminRoles(d)
  BY <1>1, <1>3 DEF All, Tables, AdminRoles
<1>9. \A u \in Users : ~(q.deleteUser /\ u \in s.users) => RoleIDs(e, u) = RoleIDs(d, u)
  BY <1>6, <1>r DEF RoleIDs
<1>12. iso = RC => (AdminRows \subseteq t.held /\ HasAdmin(e)) \/ KeepsAdmins(d, e)
  <2> SUFFICES ASSUME iso = RC PROVE (AdminRows \subseteq t.held /\ HasAdmin(e)) \/ KeepsAdmins(d, e)
    OBVIOUS
  <2>1. CASE ~q.deleteUser
    BY <1>7, <1>9, <2>1 DEF KeepsAdmins, KeepsUser
  <2>2. CASE q.deleteUser
    <3>1. Removes(q) /\ AdminRows \subseteq t.held
      BY <2>2, CommittingFacts, RemoverHolds DEF Removes, Committing
    <3>2. PICK u \in Users \ s.users : AdminUser(d, u)
      BY <3>1, CommittingFacts DEF Checked, Committing, Victims
    <3>3. Enabled(e, u)
      BY <1>1, <1>4, <1>7, <3>2 DEF AdminUser, Enabled, All, Tables, KeepsUser
    <3>4. IsAdmin(e, RoleIDs(e, u))
      BY <1>9, <1>r, <3>2 DEF AdminUser, IsAdmin
    <3> QED
      BY <3>1, <3>2, <3>3, <3>4 DEF HasAdmin
  <2> QED
    BY <1>1, <2>1, <2>2
<1>13. Changes(iso, t.held, d, e)
  <2>1. \A u \in Users : KeepsUser(d, e, u) \/ UserRow(u) \in t.held \/ d.user[u] = Absent
    BY <1>1, <1>7 DEF Rows
  <2>2. \A u \in Users, r \in Roles : <<u, r>> \in e.userRole =>
          e.user[u] \notin Missing /\ <<u, r>> \in d.userRole
    BY <1>6, <1>7, <1>8 DEF KeepsUser
  <2> HIDE DEF e
  <2> QED
    BY <1>3, <1>4, <1>12, <2>1, <2>2, UserChanges DEF Committing
<1>14. Spares(iso, Revoked(q, s), d, e)
  <2>1. Revoked(q, s) = s.users
    BY DEF Revoked
  <2> QED
    BY <1>7, <1>9, <2>1 DEF Spares
<1> QED
  BY <1>13, <1>14 DEF Keeps

LEMMA GrantsFacts ==
  ASSUME NEW d, d \in Tables, Grants(d)
  PROVE  /\ \A u \in Users, r \in Roles : <<u, r>> \in d.userRole =>
              d.user[u] \notin Missing /\ d.role[r] \notin Missing
         /\ \A r \in Roles, m \in Menus : <<r, m>> \in d.roleMenu =>
              d.role[r] \notin Missing /\ d.menu[m] \notin Missing
  BY DEF Grants, All

LEMMA ParentsFacts ==
  ASSUME NEW d, d \in Tables, Parents(d)
  PROVE  \A m \in Menus : d.menu[m] \in Menus => d.menu[d.menu[m]] \notin Missing
<1> SUFFICES ASSUME NEW m \in Menus, d.menu[m] \in Menus PROVE d.menu[d.menu[m]] \notin Missing
  OBVIOUS
<1>1. m \in All(d, "menu") /\ d.menu[m] # None
  BY MarkAssumption DEF All, Tables, Missing
<1> QED
  BY <1>1 DEF Parents, All

LEMMA RoleAddEffect ==
  ASSUME NEW iso, NEW t, NEW d, Committing(iso, t, d), t.req.op = "RoleAdd", d.role[t.req.role] = Absent
  PROVE  Keeps(iso, t, d, RoleAdd(t.req, t.seen, d))
<1> DEFINE q == t.req
           e == RoleAdd(q, t.seen, d)
<1>1. q.role \in Roles /\ q.menus \subseteq Menus /\ q.depts \subseteq Depts /\ d \in Tables /\ Grants(d)
  BY CommittingFacts, RequestFields
<1>3. /\ e.role = [d.role EXCEPT ![q.role] = "plain"]
      /\ e.roleMenu = ReplaceRelation(d.roleMenu, q.role, q.menus)
      /\ e.roleDept = ReplaceRelation(d.roleDept, q.role, q.depts)
      /\ e.user = d.user /\ e.menu = d.menu /\ e.userRole = d.userRole /\ e.dept = d.dept
  BY <1>1 DEF RoleAdd, Tables
<1>4. e \in Tables
  <2>1. e.role \in [Roles -> {"plain", "admin"} \cup Missing]
    BY <1>1, <1>3 DEF Tables
  <2>2. e.roleMenu \in SUBSET (Roles \X Menus) /\ e.roleDept \in SUBSET (Roles \X Depts)
    BY <1>1, <1>3 DEF Tables, ReplaceRelation, Without
  <2> QED
    BY <1>1, <1>3, <2>1, <2>2 DEF Tables, RoleAdd
<1>5. \A m \in q.menus : d.menu[m] \notin Missing
  <2>1. "menus" \in Calls(q) /\ CallRows("menus", q) = Rows(MenuRow, q.menus)
    BY DEF Calls, CallRows
  <2>2. Rows(MenuRow, q.menus) \subseteq t.held
    BY <2>1, CommittingFacts
  <2> QED
    BY <1>1, <2>2, CommittingFacts DEF Rows, HeldExist
<1>6. \A r \in Roles, m \in Menus : <<r, m>> \in e.roleMenu <=>
        IF r = q.role THEN m \in q.menus ELSE <<r, m>> \in d.roleMenu
  BY <1>1, <1>3 DEF ReplaceRelation, Without
<1>7. e.role[q.role] = "plain" /\ \A r \in Roles \ {q.role} : e.role[r] = d.role[r]
  BY <1>1, <1>3 DEF Tables
<1>8. AdminRoles(d) \subseteq AdminRoles(e)
  BY <1>7, MarkAssumption DEF AdminRoles, Missing
<1>9. \A u \in Users, r \in Roles : <<u, r>> \in d.userRole => r # q.role /\ d.role[r] \notin Missing
  BY <1>1, GrantsFacts DEF Missing
<1>10. Changes(iso, t.held, d, e)
  <2>1. \A u \in Users, r \in Roles : <<u, r>> \in e.userRole =>
          <<u, r>> \in d.userRole /\ e.role[r] \notin Missing
    BY <1>3, <1>7, <1>9
  <2>2. \A r \in Roles, m \in Menus : <<r, m>> \in e.roleMenu =>
          e.role[r] \notin Missing /\ d.menu[m] \notin Missing
    <3>1. e.role[q.role] \notin Missing
      BY <1>7, MarkAssumption DEF Missing
    <3> QED
      BY <1>1, <1>5, <1>6, <1>7, <3>1, GrantsFacts
  <2>3. \A r \in Roles : e.role[r] = d.role[r] \/ RoleRow(r) \in t.held \/ d.role[r] = Absent
    BY <1>7
  <2> HIDE DEF e
  <2> QED
    BY <1>3, <1>4, <1>8, <2>1, <2>2, <2>3, RoleChanges DEF Committing, AdminRoles
<1>11. \A u \in Users : KeepsUser(d, e, u) /\ RoleIDs(e, u) = RoleIDs(d, u)
  <2> SUFFICES ASSUME NEW u \in Users PROVE KeepsUser(d, e, u) /\ RoleIDs(e, u) = RoleIDs(d, u)
    OBVIOUS
  <2>1. \A r \in Roles : <<u, r>> \in d.userRole => (r \in All(e, "role") <=> r \in All(d, "role"))
    BY <1>1, <1>4, <1>7, <1>9 DEF All, Tables
  <2>2. All(d, "role") \subseteq Roles /\ All(e, "role") \subseteq Roles
    BY <1>1, <1>4 DEF All, Tables
  <2>3. RoleIDs(e, u) = RoleIDs(d, u)
    BY <1>3, <2>1, <2>2 DEF RoleIDs
  <2> QED
    BY <1>3, <2>3 DEF KeepsUser
<1> QED
  BY <1>10, <1>11 DEF Keeps, Spares

LEMMA RoleHeld ==
  ASSUME NEW iso, NEW t, NEW d, Committing(iso, t, d), t.req.op \in {"RoleUpdate", "RoleDelete"}
  PROVE  /\ t.req.role \in Roles /\ RoleRow(t.req.role) \in t.held
         /\ d.role[t.req.role] \in {"plain", "admin"}
<1>1. t.req.role \in Roles /\ d \in Tables
  BY CommittingFacts, RequestFields
<1>2. "role" \in Calls(t.req) /\ CallRows("role", t.req) = {RoleRow(t.req.role)}
  BY DEF Calls, CallRows
<1>3. RoleRow(t.req.role) \in t.held
  BY <1>2, CommittingFacts
<1>4. d.role[t.req.role] \notin Missing
  BY <1>1, <1>3, CommittingFacts DEF HeldExist
<1> QED
  BY <1>1, <1>3, <1>4 DEF Tables

LEMMA RoleUpdateEffect ==
  ASSUME NEW iso, NEW t, NEW d, Committing(iso, t, d), t.req.op = "RoleUpdate"
  PROVE  Keeps(iso, t, d, RoleUpdate(t.req, t.seen, d))
<1> DEFINE q == t.req
           s == t.seen
           label == Or(q.label, d.role[q.role])
           e == RoleUpdate(q, s, d)
<1>1. /\ q.role \in Roles /\ q.label \in {Keep, "plain", "admin"} /\ d \in Tables /\ Grants(d)
      /\ s.menus \subseteq Menus /\ s.depts \subseteq Depts /\ Rows(MenuRow, s.menus) \subseteq t.held
  BY CommittingFacts, RequestFields DEF SeenOK
<1>2. /\ RoleRow(q.role) \in t.held /\ d.role[q.role] \in {"plain", "admin"}
      /\ label \in {"plain", "admin"} /\ (iso = RC /\ d.role[q.role] = "admin" => label = "admin")
  <2>1. iso = RC /\ d.role[q.role] = "admin" => q.label \in {Keep, "admin"}
    BY CommittingFacts DEF Checked, Committing
  <2> QED
    BY <1>1, <2>1, RoleHeld DEF Or
<1>3. /\ e.role = [d.role EXCEPT ![q.role] = label]
      /\ e.roleMenu = IF GrantsGiven(q) THEN ReplaceRelation(d.roleMenu, q.role, s.menus) ELSE d.roleMenu
      /\ e.roleDept = IF GrantsGiven(q) THEN ReplaceRelation(d.roleDept, q.role, s.depts) ELSE d.roleDept
      /\ e.user = d.user /\ e.menu = d.menu /\ e.userRole = d.userRole /\ e.dept = d.dept
  BY <1>1 DEF RoleUpdate, Tables
<1>4. e \in Tables
  <2>1. e.role \in [Roles -> {"plain", "admin"} \cup Missing]
    BY <1>1, <1>2, <1>3 DEF Tables
  <2>2. e.roleMenu \in SUBSET (Roles \X Menus) /\ e.roleDept \in SUBSET (Roles \X Depts)
    BY <1>1, <1>3 DEF Tables, ReplaceRelation, Without
  <2> QED
    BY <1>1, <1>3, <2>1, <2>2 DEF Tables, RoleUpdate
<1>5. \A m \in s.menus : d.menu[m] \notin Missing
  BY <1>1, CommittingFacts DEF Rows, HeldExist
<1>6. \A r \in Roles, m \in Menus : <<r, m>> \in e.roleMenu =>
        (r = q.role /\ m \in s.menus) \/ <<r, m>> \in d.roleMenu
  BY <1>1, <1>3 DEF ReplaceRelation, Without
<1>7. e.role[q.role] = label /\ \A r \in Roles \ {q.role} : e.role[r] = d.role[r]
  BY <1>1, <1>3 DEF Tables
<1>8. iso = RC => AdminRoles(d) \subseteq AdminRoles(e)
  BY <1>2, <1>7 DEF AdminRoles
<1>9. \A r \in Roles : e.role[r] \in Missing <=> d.role[r] \in Missing
  BY <1>2, <1>7, MarkAssumption DEF Missing
<1>10. Changes(iso, t.held, d, e)
  <2>1. \A u \in Users, r \in Roles : <<u, r>> \in e.userRole =>
          <<u, r>> \in d.userRole /\ e.role[r] \notin Missing
    BY <1>1, <1>3, <1>9, GrantsFacts
  <2>2. \A r \in Roles, m \in Menus : <<r, m>> \in e.roleMenu =>
          e.role[r] \notin Missing /\ d.menu[m] \notin Missing
    <3>1. e.role[q.role] \notin Missing
      BY <1>2, <1>7, MarkAssumption DEF Missing
    <3> QED
      BY <1>1, <1>5, <1>6, <1>9, <3>1, GrantsFacts
  <2>3. \A r \in Roles : e.role[r] = d.role[r] \/ RoleRow(r) \in t.held \/ d.role[r] = Absent
    BY <1>2, <1>7
  <2> HIDE DEF e
  <2> QED
    BY <1>3, <1>4, <1>8, <2>1, <2>2, <2>3, RoleChanges DEF Committing, AdminRoles
<1>11. \A u \in Users : KeepsUser(d, e, u) /\ RoleIDs(e, u) = RoleIDs(d, u)
  <2>1. All(e, "role") = All(d, "role")
    BY <1>1, <1>4, <1>9 DEF All, Tables
  <2> QED
    BY <1>3, <2>1 DEF KeepsUser, RoleIDs
<1> QED
  BY <1>10, <1>11 DEF Keeps, Spares

LEMMA RoleDeleteEffect ==
  ASSUME NEW iso, NEW t, NEW d, Committing(iso, t, d), t.req.op = "RoleDelete"
  PROVE  Keeps(iso, t, d, RoleDelete(t.req, t.seen, d))
<1> DEFINE q == t.req
           e == RoleDelete(q, t.seen, d)
<1>1. d \in Tables /\ Grants(d) /\ q.role \in Roles /\ RoleRow(q.role) \in t.held
  BY CommittingFacts, RoleHeld
<1>2. iso = RC => d.role[q.role] # "admin" /\ RoleUsers(d, q.role) \subseteq t.seen.users
  BY CommittingFacts DEF Checked, Committing, RoleDeletion
<1>3. /\ e.role = [d.role EXCEPT ![q.role] = Gone]
      /\ e.userRole = Without(d.userRole, {}, {q.role})
      /\ e.roleMenu = Without(d.roleMenu, {q.role}, {})
      /\ e.roleDept = Without(d.roleDept, {q.role}, {})
      /\ e.user = d.user /\ e.menu = d.menu /\ e.dept = d.dept
  BY <1>1 DEF RoleDelete, Tables
<1>4. e \in Tables
  <2>1. e.role \in [Roles -> {"plain", "admin"} \cup Missing]
    BY <1>1, <1>3 DEF Tables, Missing
  <2>2. /\ e.roleMenu \in SUBSET (Roles \X Menus) /\ e.roleDept \in SUBSET (Roles \X Depts)
        /\ e.userRole \in SUBSET (Users \X Roles)
    BY <1>1, <1>3 DEF Tables, Without
  <2> QED
    BY <1>1, <1>3, <2>1, <2>2 DEF Tables, RoleDelete
<1>5. \A u \in Users, r \in Roles : <<u, r>> \in e.userRole <=> r # q.role /\ <<u, r>> \in d.userRole
  BY <1>1, <1>3 DEF Without
<1>6. \A r \in Roles, m \in Menus : <<r, m>> \in e.roleMenu <=> r # q.role /\ <<r, m>> \in d.roleMenu
  BY <1>1, <1>3 DEF Without
<1>7. \A r \in Roles \ {q.role} : e.role[r] = d.role[r]
  BY <1>1, <1>3 DEF Tables
<1>8. iso = RC => AdminRoles(d) \subseteq AdminRoles(e)
  BY <1>2, <1>7 DEF AdminRoles
<1>10. Changes(iso, t.held, d, e)
  <2>1. \A u \in Users, r \in Roles : <<u, r>> \in e.userRole =>
          <<u, r>> \in d.userRole /\ e.role[r] \notin Missing
    BY <1>1, <1>5, <1>7, GrantsFacts
  <2>2. \A r \in Roles, m \in Menus : <<r, m>> \in e.roleMenu =>
          e.role[r] \notin Missing /\ d.menu[m] \notin Missing
    BY <1>1, <1>6, <1>7, GrantsFacts
  <2>3. \A r \in Roles : e.role[r] = d.role[r] \/ RoleRow(r) \in t.held \/ d.role[r] = Absent
    BY <1>1, <1>7
  <2>4. iso = RC =>
          \A u \in Users, r \in AdminRoles(d) : <<u, r>> \in d.userRole => <<u, r>> \in e.userRole
    BY <1>2, <1>5 DEF AdminRoles
  <2> HIDE DEF e
  <2> QED
    BY <1>3, <1>4, <1>8, <2>1, <2>2, <2>3, <2>4, RoleChanges DEF Committing
<1>11. Spares(iso, Revoked(q, t.seen), d, e)
  <2>1. Revoked(q, t.seen) = t.seen.users
    BY DEF Revoked
  <2>2. ASSUME NEW u \in Users \ t.seen.users, iso = RC PROVE RoleIDs(e, u) = RoleIDs(d, u)
    <3>1. <<u, q.role>> \notin d.userRole
      BY <1>2, <2>2 DEF RoleUsers
    <3>2. All(d, "role") \subseteq Roles /\ All(e, "role") \subseteq Roles
      BY <1>1, <1>4 DEF All, Tables
    <3>3. \A r \in Roles \ {q.role} : r \in All(e, "role") <=> r \in All(d, "role")
      BY <1>1, <1>4, <1>7 DEF All, Tables
    <3> QED
      BY <1>5, <3>1, <3>2, <3>3 DEF RoleIDs
  <2>3. \A u \in Users : KeepsUser(d, e, u)
    BY <1>3 DEF KeepsUser
  <2> QED
    BY <2>1, <2>2, <2>3 DEF Spares
<1> QED
  BY <1>10, <1>11 DEF Keeps

\* Menus are inserted or moved, each below a row that is there or inserted with it.
LEMMA MenuMoves ==
  ASSUME NEW iso, NEW t, NEW d, NEW e, Committing(iso, t, d), NEW parents, DOMAIN parents \subseteq Menus,
         \A m \in DOMAIN parents :
           /\ parents[m] \in {Keep, None} \cup Menus
           /\ MenuRow(m) \in t.held \/ (d.menu[m] = Absent /\ parents[m] # Keep)
           /\ parents[m] \in Menus => \/ MenuRow(parents[m]) \in t.held
                                      \/ d.menu[parents[m]] = Absent /\ parents[m] \in DOMAIN parents,
         e = [d EXCEPT !.menu = Moved(d.menu, parents)]
  PROVE  Keeps(iso, t, d, e)
<1>1. d \in Tables /\ Grants(d) /\ HeldExist(t, d)
  BY CommittingFacts
<1>k. Keep \notin {None} \cup Menus /\ \A x \in {None} \cup Menus : x \notin Missing
  BY MarkAssumption
<1>3. /\ e.menu = Moved(d.menu, parents)
      /\ e.user = d.user /\ e.role = d.role /\ e.dept = d.dept
      /\ e.userRole = d.userRole /\ e.roleMenu = d.roleMenu /\ e.roleDept = d.roleDept
  BY <1>1 DEF Tables
<1>5. \A m \in Menus : e.menu[m] = IF m \in DOMAIN parents /\ parents[m] # Keep THEN parents[m] ELSE d.menu[m]
  BY <1>3 DEF Moved, Or
<1>4. e \in Tables
  <2>1. \A m \in Menus : e.menu[m] \in Menus \cup {None} \cup Missing
    BY <1>1, <1>5 DEF Tables
  <2>2. e.menu \in [Menus -> Menus \cup {None} \cup Missing]
    BY <1>3, <2>1 DEF Moved
  <2> QED
    BY <1>1, <1>3, <2>2 DEF Tables
<1>6. \A m \in Menus : d.menu[m] \notin Missing \/ (m \in DOMAIN parents /\ parents[m] # Keep)
                         => e.menu[m] \notin Missing
  BY <1>5, <1>k
<1>7. \A r \in Roles, m \in Menus : <<r, m>> \in e.roleMenu =>
        <<r, m>> \in d.roleMenu /\ e.menu[m] \notin Missing
  BY <1>1, <1>3, <1>6, GrantsFacts
<1>h. \A m \in Menus : MenuRow(m) \in t.held => d.menu[m] \notin Missing
  BY <1>1 DEF HeldExist
<1>8. iso = RC => \A m \in Menus : e.menu[m] \in Menus => e.menu[e.menu[m]] \notin Missing
  <2> SUFFICES ASSUME iso = RC, NEW m \in Menus, e.menu[m] \in Menus
               PROVE  e.menu[e.menu[m]] \notin Missing
    OBVIOUS
  <2>1. CASE m \in DOMAIN parents /\ parents[m] # Keep
    <3>1. e.menu[m] = parents[m] /\ parents[m] \in Menus
      BY <1>5, <2>1
    <3>2. CASE MenuRow(parents[m]) \in t.held
      BY <1>6, <1>h, <3>1, <3>2
    <3>3. CASE d.menu[parents[m]] = Absent /\ parents[m] \in DOMAIN parents
      <4>1. MenuRow(parents[m]) \notin t.held
        BY <1>h, <3>1, <3>3 DEF Missing
      <4>2. parents[parents[m]] # Keep
        BY <3>3, <4>1
      <4> QED
        BY <1>6, <3>1, <3>3, <4>2
    <3> QED
      BY <2>1, <3>1, <3>2, <3>3
  <2>2. CASE ~(m \in DOMAIN parents /\ parents[m] # Keep)
    <3>1. e.menu[m] = d.menu[m]
      BY <1>5, <2>2
    <3>2. Parents(d)
      BY DEF Committing, RowsOK
    <3> QED
      BY <1>1, <1>6, <3>1, <3>2, ParentsFacts
  <2> QED
    BY <2>1, <2>2
<1>9. \A m \in Menus : \/ e.menu[m] = d.menu[m]
                       \/ /\ MenuRow(m) \in t.held \/ d.menu[m] = Absent
                          /\ e.menu[m] \in Menus =>
                               MenuRow(e.menu[m]) \in t.held \/ d.menu[e.menu[m]] = Absent
  BY <1>5
<1>10. Changes(iso, t.held, d, e) /\ Spares(iso, {}, d, e)
  BY <1>3, <1>4, <1>7, <1>8, <1>9, MenuChanges DEF Committing
<1> QED
  BY <1>10 DEF Keeps, Spares

\* Parents a request names, other than none, are rows it asks for.
LEMMA GivenHeld ==
  ASSUME NEW q, NEW held, Rows(MenuRow, GivenParents(q)) \subseteq held,
         NEW m \in DOMAIN q.parents, q.parents[m] \in Menus
  PROVE  MenuRow(q.parents[m]) \in held
<1>1. Given(q.parents[m]) = {q.parents[m]}
  BY MarkAssumption DEF Given
<1>2. q.parents[m] \in GivenParents(q)
  BY <1>1 DEF GivenParents
<1> QED
  BY <1>2 DEF Rows

LEMMA MenuAddEffect ==
  ASSUME NEW iso, NEW t, NEW d, Committing(iso, t, d), t.req.op = "MenuAdd",
         \A m \in DOMAIN t.req.parents : d.menu[m] = Absent
  PROVE  Keeps(iso, t, d, MenuAdd(t.req, t.seen, d))
<1> DEFINE q == t.req
<1>1. /\ DOMAIN q.parents \subseteq Menus
      /\ \A m \in DOMAIN q.parents : q.parents[m] \in {None} \cup Menus
  BY CommittingFacts, RequestFields
<1>2. "parent" \in Calls(q) /\ CallRows("parent", q) = Rows(MenuRow, GivenParents(q))
  BY DEF Calls, CallRows
<1>3. Rows(MenuRow, GivenParents(q)) \subseteq t.held
  BY <1>2, CommittingFacts
<1>4. \A m \in DOMAIN q.parents : q.parents[m] \in Menus => MenuRow(q.parents[m]) \in t.held
  BY <1>3, GivenHeld
<1>5. PICK e : e = MenuAdd(q, t.seen, d) /\ e = [d EXCEPT !.menu = Moved(d.menu, q.parents)]
  BY DEF MenuAdd
<1>6. Keep \notin {None} \cup Menus
  BY MarkAssumption
<1>7. Keeps(iso, t, d, e)
  BY <1>1, <1>4, <1>5, <1>6, MenuMoves
<1> QED
  BY <1>5, <1>7

LEMMA MenuImportEffect ==
  ASSUME NEW iso, NEW t, NEW d, Committing(iso, t, d), t.req.op = "MenuImport",
         \A m \in DOMAIN t.req.parents : d.menu[m] = Absent
  PROVE  Keeps(iso, t, d, MenuImport(t.req, t.seen, d))
<1> DEFINE q == t.req
<1>1. /\ DOMAIN q.parents \subseteq Menus
      /\ \A m \in DOMAIN q.parents : q.parents[m] \in DOMAIN q.parents \cup {None}
  BY CommittingFacts, RequestFields
<1>2. None \notin Menus /\ Keep \notin {None} \cup Menus
  BY MarkAssumption
<1>3. PICK e : e = MenuImport(q, t.seen, d) /\ e = [d EXCEPT !.menu = Moved(d.menu, q.parents)]
  BY DEF MenuImport
<1>4. Keeps(iso, t, d, e)
  BY <1>1, <1>2, <1>3, MenuMoves
<1> QED
  BY <1>3, <1>4

LEMMA MenuUpdateEffect ==
  ASSUME NEW iso, NEW t, NEW d, Committing(iso, t, d), t.req.op = "MenuUpdate"
  PROVE  Keeps(iso, t, d, MenuUpdate(t.req, t.seen, d))
<1> DEFINE q == t.req
<1>1. /\ DOMAIN q.parents \subseteq Menus
      /\ \A m \in DOMAIN q.parents : q.parents[m] \in {Keep, None} \cup Menus
  BY CommittingFacts, RequestFields
<1>2. /\ "menuAndParents" \in Calls(q)
      /\ CallRows("menuAndParents", q) = Rows(MenuRow, DOMAIN q.parents \cup GivenParents(q))
  BY DEF Calls, CallRows
<1>3. Rows(MenuRow, DOMAIN q.parents \cup GivenParents(q)) \subseteq t.held
  BY <1>2, CommittingFacts
<1>4. Rows(MenuRow, GivenParents(q)) \subseteq t.held /\ \A m \in DOMAIN q.parents : MenuRow(m) \in t.held
  BY <1>3 DEF Rows
<1>5. \A m \in DOMAIN q.parents : q.parents[m] \in Menus => MenuRow(q.parents[m]) \in t.held
  BY <1>4, GivenHeld
<1>6. PICK e : e = MenuUpdate(q, t.seen, d) /\ e = [d EXCEPT !.menu = Moved(d.menu, q.parents)]
  BY DEF MenuUpdate
<1>7. Keeps(iso, t, d, e)
  BY <1>1, <1>4, <1>5, <1>6, MenuMoves
<1> QED
  BY <1>6, <1>7

LEMMA MenuDeleteEffect ==
  ASSUME NEW iso, NEW t, NEW d, Committing(iso, t, d), t.req.op = "MenuDelete"
  PROVE  Keeps(iso, t, d, MenuDelete(t.req, t.seen, d))
<1> DEFINE q == t.req
           ids == t.seen.ids
           e == MenuDelete(q, t.seen, d)
<1>1. d \in Tables /\ Grants(d)
  BY CommittingFacts
<1>2. ids \subseteq Menus /\ Rows(MenuRow, ids) \subseteq t.held /\ (iso = RC => Kids(d, ids) \subseteq ids)
  <2>1. t.todo = <<>> /\ MenuDeletion(iso, t, d)
    BY CommittingFacts
  <2>2. /\ t.todo # <<"menuRoots", "level", "menuUsers">> /\ t.todo # <<"level", "menuUsers">>
        /\ t.todo # <<"relevel", "menuUsers">>
    BY <2>1
  <2> QED
    BY <2>1, <2>2 DEF MenuDeletion
<1>3. /\ e.menu = [m \in Menus |-> IF m \in ids THEN Gone ELSE d.menu[m]]
      /\ e.roleMenu = Without(d.roleMenu, {}, ids)
      /\ e.user = d.user /\ e.role = d.role /\ e.dept = d.dept
      /\ e.userRole = d.userRole /\ e.roleDept = d.roleDept
  BY <1>1 DEF MenuDelete, Tables
<1>4. e \in Tables
  <2>1. e.menu \in [Menus -> Menus \cup {None} \cup Missing]
    BY <1>1, <1>3 DEF Tables, Missing
  <2>2. e.roleMenu \in SUBSET (Roles \X Menus)
    BY <1>1, <1>3 DEF Tables, Without
  <2> QED
    BY <1>1, <1>3, <2>1, <2>2 DEF Tables, MenuDelete
<1>5. \A m \in Menus : e.menu[m] = IF m \in ids THEN Gone ELSE d.menu[m]
  BY <1>3
<1>6. \A r \in Roles, m \in Menus : <<r, m>> \in e.roleMenu => <<r, m>> \in d.roleMenu /\ m \notin ids
  BY <1>3 DEF Without
<1>7. \A r \in Roles, m \in Menus : <<r, m>> \in e.roleMenu =>
        <<r, m>> \in d.roleMenu /\ e.menu[m] \notin Missing
  BY <1>1, <1>5, <1>6, GrantsFacts
<1>8. iso = RC => \A m \in Menus : e.menu[m] \in Menus => e.menu[e.menu[m]] \notin Missing
  <2> SUFFICES ASSUME iso = RC, NEW m \in Menus, e.menu[m] \in Menus PROVE e.menu[e.menu[m]] \notin Missing
    OBVIOUS
  <2>1. m \notin ids /\ e.menu[m] = d.menu[m]
    BY <1>5, MarkAssumption DEF Missing
  <2>2. d.menu[m] \notin ids
    BY <1>2, <2>1 DEF Kids
  <2>3. Parents(d)
    BY DEF Committing, RowsOK
  <2> QED
    BY <1>1, <1>5, <2>1, <2>2, <2>3, ParentsFacts
<1>9. \A m \in Menus : \/ e.menu[m] = d.menu[m]
                       \/ /\ MenuRow(m) \in t.held \/ d.menu[m] = Absent
                          /\ e.menu[m] \in Menus =>
                               MenuRow(e.menu[m]) \in t.held \/ d.menu[e.menu[m]] = Absent
  <2>1. Gone \notin Menus
    BY MarkAssumption DEF Missing
  <2>2. \A m \in ids : MenuRow(m) \in t.held
    BY <1>2 DEF Rows
  <2> QED
    BY <1>5, <2>1, <2>2
<1> HIDE DEF e
<1>10. Changes(iso, t.held, d, e) /\ Spares(iso, {}, d, e)
  BY <1>3, <1>4, <1>7, <1>8, <1>9, MenuChanges DEF Committing
<1> QED
  BY <1>10 DEF Keeps, Spares, e

\* Departments have no part in what is kept, and a login writes no row.
LEMMA OtherEffect ==
  ASSUME NEW iso, NEW t, NEW d, NEW e, Committing(iso, t, d), e \in Tables,
         e.user = d.user, e.role = d.role, e.menu = d.menu,
         e.userRole = d.userRole, e.roleMenu = d.roleMenu
  PROVE  Keeps(iso, t, d, e)
<1>1. d \in Tables /\ Grants(d)
  BY CommittingFacts
<1>p. iso = RC => Parents(d)
  BY DEF Committing, RowsOK
<1>2. Changes(iso, t.held, d, e) /\ Spares(iso, {}, d, e)
  BY <1>1, <1>p, GrantsFacts, ParentsFacts, MenuChanges DEF Committing
<1> QED
  BY <1>2 DEF Keeps, Spares

LEMMA EffectKeeps ==
  ASSUME NEW iso, NEW t, NEW d, Committing(iso, t, d),
         t.req.op = "UserAdd" => d.user[t.req.user] = Absent,
         t.req.op = "RoleAdd" => d.role[t.req.role] = Absent,
         t.req.op \in {"MenuAdd", "MenuImport"} => \A m \in DOMAIN t.req.parents : d.menu[m] = Absent
  PROVE  Keeps(iso, t, d, Effect(t.req, t.seen, d))
<1>0. t.req \in RequestForms \cup Logins /\ d \in Tables
  BY CommittingFacts
<1>1. CASE t.req.op = "UserAdd"
  BY <1>1, UserAddEffect DEF Effect
<1>2. CASE t.req.op = "UserUpdate"
  BY <1>2, UserUpdateEffect DEF Effect
<1>3. CASE t.req.op = "UserDelete"
  BY <1>3, UserDeleteEffect DEF Effect
<1>4. CASE t.req.op = "UserMove"
  BY <1>4, UserMoveEffect DEF Effect
<1>5. CASE t.req.op = "PersonUpdate"
  BY <1>5, PersonUpdateEffect DEF Effect
<1>6. CASE t.req.op = "RoleAdd"
  BY <1>6, RoleAddEffect DEF Effect
<1>7. CASE t.req.op = "RoleUpdate"
  BY <1>7, RoleUpdateEffect DEF Effect
<1>8. CASE t.req.op = "RoleDelete"
  BY <1>8, RoleDeleteEffect DEF Effect
<1>9. CASE t.req.op = "MenuAdd"
  BY <1>9, MenuAddEffect DEF Effect
<1>10. CASE t.req.op = "MenuUpdate"
  BY <1>10, MenuUpdateEffect DEF Effect
<1>11. CASE t.req.op = "MenuDelete"
  BY <1>11, MenuDeleteEffect DEF Effect
<1>12. CASE t.req.op = "DeptAdd"
  <2>1. t.req.dept \in Depts /\ t.req.parent \in {None} \cup Depts
    BY <1>0, <1>12, RequestFields
  <2>2. DeptAdd(t.req, t.seen, d) \in Tables
    BY <1>0, <2>1 DEF DeptAdd, Tables
  <2>3. PICK e : e = DeptAdd(t.req, t.seen, d)
    OBVIOUS
  <2>4. /\ e \in Tables /\ e.user = d.user /\ e.role = d.role /\ e.menu = d.menu
        /\ e.userRole = d.userRole /\ e.roleMenu = d.roleMenu
    BY <1>0, <2>2, <2>3 DEF DeptAdd, Tables
  <2>5. Effect(t.req, t.seen, d) = e
    BY <1>12, <2>3 DEF Effect
  <2> QED
    BY <2>4, <2>5, OtherEffect
<1>13. CASE t.req.op = "DeptUpdate"
  <2>1. t.req.dept \in Depts /\ t.req.parent \in {Keep, None} \cup Depts
    BY <1>0, <1>13, RequestFields
  <2>2. Or(t.req.parent, d.dept[t.req.dept]) \in Depts \cup {None} \cup Missing
    BY <1>0, <2>1 DEF Or, Tables
  <2>3. DeptUpdate(t.req, t.seen, d) \in Tables
    BY <1>0, <2>1, <2>2, SMTT(40) DEF DeptUpdate, Tables
  <2>4. PICK e : e = DeptUpdate(t.req, t.seen, d)
    OBVIOUS
  <2>5. /\ e \in Tables /\ e.user = d.user /\ e.role = d.role /\ e.menu = d.menu
        /\ e.userRole = d.userRole /\ e.roleMenu = d.roleMenu
    BY <1>0, <2>3, <2>4 DEF DeptUpdate, Tables
  <2>6. Effect(t.req, t.seen, d) = e
    BY <1>13, <2>4 DEF Effect
  <2> QED
    BY <2>5, <2>6, OtherEffect
<1>14. CASE t.req.op = "DeptDelete"
  BY <1>14, DeptDeleteEffect DEF Effect
<1>16. CASE t.req.op = "MenuImport"
  BY <1>16, MenuImportEffect DEF Effect
<1>15. CASE t.req.op \in {"Login", "Refresh"}
  <2>1. Effect(t.req, t.seen, d) = d
    BY <1>15 DEF Effect
  <2> QED
    BY <1>0, <2>1, OtherEffect
<1> QED
  BY <1>0, <1>1, <1>2, <1>3, <1>4, <1>5, <1>6, <1>7, <1>8, <1>9, <1>10, <1>11, <1>12, <1>13,
     <1>14, <1>15, <1>16, RequestFields

-----------------------------------------------------------------------------
(* Steps.  Whatever one transaction does without writing rows keeps the    *)
(* invariant if the transaction's own record stays in order.               *)

LEMMA OneMoves ==
  ASSUME Inv, UNCHANGED isolation, NEW p \in Procs, NEW t, proc' = [proc EXCEPT ![p] = t], db' = db,
         TxOK(isolation, t), Facts(isolation, t, db),
         \A q \in Procs \ {p} : proc[q].held \cap t.held = {},
         (t.stage = "commit" /\ t.req.op \notin Signing) =>
           \A s \in sessions' : s.user \notin Revoked(t.req, t.seen),
         \A s \in sessions' \ sessions :
           /\ Current(isolation, s, db)
           /\ \A q \in Procs \ {p} : (proc[q].stage = "commit" /\ proc[q].req.op \notin Signing) =>
                s.user \notin Revoked(proc[q].req, proc[q].seen)
  PROVE  Inv'
<1>1. proc = [q \in Procs |-> proc[q]]
  BY DEF Inv
<1>2. proc'[p] = t /\ \A q \in Procs \ {p} : proc'[q] = proc[q]
  BY <1>1
<1>3. proc' = [q \in Procs |-> proc'[q]]
  BY <1>1
<1>4. RowsOK(isolation, db')
  BY DEF Inv
<1>5. \A q \in Procs : TxOK(isolation, proc'[q]) /\ Facts(isolation, proc'[q], db')
  BY <1>2 DEF Inv
<1>6. Apart'
  BY <1>2 DEF Inv, Apart
<1>7. \A s \in sessions' : Current(isolation, s, db')
  BY DEF Inv
<1>8. RevokedAreOut'
  BY <1>2 DEF Inv, RevokedAreOut
<1> QED
  BY <1>3, <1>4, <1>5, <1>6, <1>7, <1>8 DEF Inv

LEMMA IdleOK ==
  ASSUME NEW iso
  PROVE  TxOK(iso, Idle) /\ (\A d : Facts(iso, Idle, d)) /\ Idle.stage = "idle" /\ Idle.held = {}
<1>1. SeenOK(Nothing)
  BY DEF SeenOK, Nothing
<1>2. TxOK(iso, Idle)
  BY <1>1 DEF TxOK, Idle
<1> QED
  BY <1>2 DEF Idle, Facts

\* A commit without effect, a rollback, a refused lock.
LEMMA FinishStep ==
  ASSUME Inv, UNCHANGED isolation, NEW p \in Procs, Finish(p), UNCHANGED <<db, sessions>>
  PROVE  Inv'
<1>1. PICK t : t = Idle
  OBVIOUS
<1>2. proc' = [proc EXCEPT ![p] = t] /\ db' = db /\ sessions' = sessions
  BY <1>1 DEF Finish
<1>3. TxOK(isolation, t) /\ Facts(isolation, t, db) /\ t.stage = "idle" /\ t.held = {}
  BY <1>1, IdleOK
<1> QED
  BY <1>2, <1>3, OneMoves

LEMMA Joined ==
  ASSUME NEW S, NEW a \in Seq(S), NEW b \in Seq(S)
  PROVE  /\ a \o b \in Seq(S)
         /\ \A n \in 1..Len(a) : n \in 1..Len(a \o b) /\ (a \o b)[n] = a[n]
         /\ \A n \in 1..Len(b) : n + Len(a) \in 1..Len(a \o b) /\ (a \o b)[n + Len(a)] = b[n]
         /\ \A n \in 1..Len(a \o b) : \/ n \in 1..Len(a) /\ (a \o b)[n] = a[n]
                                      \/ n - Len(a) \in 1..Len(b) /\ (a \o b)[n] = b[n - Len(a)]
<1>1. a \o b \in Seq(S) /\ Len(a \o b) = Len(a) + Len(b) /\ Len(a) \in Nat /\ Len(b) \in Nat
  OBVIOUS
<1>2. \A n \in 1..Len(a) : (a \o b)[n] = a[n]
  OBVIOUS
<1>3. \A n \in 1..Len(b) : (a \o b)[n + Len(a)] = b[n]
  OBVIOUS
<1>4. ASSUME NEW n \in 1..Len(a \o b), n \notin 1..Len(a)
      PROVE  n - Len(a) \in 1..Len(b) /\ (a \o b)[n] = b[n - Len(a)]
  <2>1. n - Len(a) \in 1..Len(b) /\ (n - Len(a)) + Len(a) = n
    BY <1>1, <1>4
  <2> QED
    BY <1>3, <2>1
<1> QED
  BY <1>1, <1>2, <1>3, <1>4

LEMMA JoinedPair ==
  ASSUME NEW S, NEW a \in S, NEW b \in S
  PROVE  <<a>> \o <<b>> = <<a, b>>
<1>0. <<a>> \in Seq(S) /\ <<b>> \in Seq(S)
  OBVIOUS
<1>a. <<a>> \o <<b>> \in Seq(S)
  BY <1>0
<1>1. PICK s \in Seq(S) : s = <<a>> \o <<b>>
  BY <1>a
<1>2. Len(s) = 2 /\ s[1] = a /\ s[2] = b
  BY <1>1
<1>3. s = <<s[1], s[2]>>
  BY <1>2
<1> QED
  BY <1>1, <1>2, <1>3

\* The calls of an operation are on its list.
LEMMA CallsListed ==
  ASSUME NEW q \in RequestForms \cup Logins
  PROVE  /\ LockCalls(q) \in Seq(CallNames)
         /\ \A call \in Calls(q) : \E n \in 1..Len(LockCalls(q)) : LockCalls(q)[n] = call
         /\ Removes(q) => \E n \in 1..Len(LockCalls(q)) : LockCalls(q)[n] = "adminRoles"
         /\ \A n \in 1..Len(LockCalls(q)) : LockCalls(q)[n] = "deptUsers" => q.op = "DeptDelete"
         /\ q.op = "RoleDelete" => LockCalls(q) = <<"menus", "depts", "role", "roleUsers">>
         /\ q.op = "MenuDelete" => LockCalls(q) = <<"menuRoots", "level", "menuUsers">>
<1>1. CASE q.op = "UserAdd"
  <2>1. LockCalls(q) = <<"roles", "dept">> /\ Calls(q) = {"roles"}
    BY <1>1 DEF LockCalls, Calls
  <2>2. <<"roles", "dept">> \in Seq(CallNames)
    BY DEF CallNames
  <2> QED
    BY <1>1, <2>1, <2>2 DEF Removes
<1>2. CASE q.op = "UserUpdate" /\ AuthChanged(q)
  <2>1. PICK a, b : /\ a = <<"adminRoles", "involved">> /\ b = <<"dept", "user">>
                    /\ LockCalls(q) = a \o b
    BY <1>2 DEF LockCalls
  <2>2. Calls(q) = {"user", "involved"}
    BY <1>2 DEF Calls
  <2>3. a \in Seq(CallNames) /\ b \in Seq(CallNames)
    BY <2>1 DEF CallNames
  <2>4. LockCalls(q) \in Seq(CallNames) /\ Len(LockCalls(q)) = 4
    BY <2>1, <2>3
  <2>5. LockCalls(q)[1] = "adminRoles" /\ LockCalls(q)[2] = "involved" /\ LockCalls(q)[3] = "dept" /\ LockCalls(q)[4] = "user"
    BY <2>1, <2>3
  <2> QED
    BY <1>2, <2>2, <2>4, <2>5 DEF Removes
<1>3. CASE q.op = "UserUpdate" /\ ~AuthChanged(q)
  <2>1. PICK a, b : /\ a = <<>> /\ b = <<"dept", "user">>
                    /\ LockCalls(q) = a \o b
    BY <1>3 DEF LockCalls
  <2>2. Calls(q) = {"user"}
    BY <1>3 DEF Calls
  <2>3. a \in Seq(CallNames) /\ b \in Seq(CallNames)
    BY <2>1 DEF CallNames
  <2>4. LockCalls(q) \in Seq(CallNames) /\ Len(LockCalls(q)) = 2
    BY <2>1, <2>3
  <2>5. LockCalls(q)[1] = "dept" /\ LockCalls(q)[2] = "user"
    BY <2>1, <2>3
  <2> QED
    BY <1>3, <2>2, <2>4, <2>5 DEF Removes
<1>4. CASE q.op = "UserDelete"
  <2>1. LockCalls(q) = <<"adminRoles", "involved", "user">> /\ Calls(q) = {"user"}
    BY <1>4 DEF LockCalls, Calls
  <2>2. <<"adminRoles", "involved", "user">> \in Seq(CallNames)
    BY DEF CallNames
  <2> QED
    BY <1>4, <2>1, <2>2 DEF Removes
<1>5. CASE q.op = "UserMove"
  <2>1. LockCalls(q) = <<"dept", "user">> /\ Calls(q) = {"user"}
    BY <1>5 DEF LockCalls, Calls
  <2>2. <<"dept", "user">> \in Seq(CallNames)
    BY DEF CallNames
  <2> QED
    BY <1>5, <2>1, <2>2 DEF Removes
<1>6. CASE q.op \in {"PersonUpdate", "Login", "Refresh"}
  <2>1. LockCalls(q) = <<"user">> /\ Calls(q) = {"user"}
    BY <1>6 DEF LockCalls, Calls
  <2>2. <<"user">> \in Seq(CallNames)
    BY DEF CallNames
  <2> QED
    BY <1>6, <2>1, <2>2 DEF Removes
<1>7. CASE q.op = "RoleAdd"
  <2>1. LockCalls(q) = <<"menus", "depts">> /\ Calls(q) = {"menus"}
    BY <1>7 DEF LockCalls, Calls
  <2>2. <<"menus", "depts">> \in Seq(CallNames)
    BY DEF CallNames
  <2> QED
    BY <1>7, <2>1, <2>2 DEF Removes
<1>8. CASE q.op = "RoleUpdate" /\ GrantsGiven(q)
  <2>1. PICK a, b : /\ a = <<"menus", "depts">> /\ b = <<"role", "roleUsers">>
                    /\ LockCalls(q) = a \o b
    BY <1>8 DEF LockCalls
  <2>2. Calls(q) = {"role"}
    BY <1>8 DEF Calls
  <2>3. a \in Seq(CallNames) /\ b \in Seq(CallNames)
    BY <2>1 DEF CallNames
  <2>4. LockCalls(q) \in Seq(CallNames) /\ Len(LockCalls(q)) = 4
    BY <2>1, <2>3
  <2>5. LockCalls(q)[1] = "menus" /\ LockCalls(q)[2] = "depts" /\ LockCalls(q)[3] = "role" /\ LockCalls(q)[4] = "roleUsers"
    BY <2>1, <2>3
  <2> QED
    BY <1>8, <2>2, <2>4, <2>5 DEF Removes
<1>9. CASE q.op = "RoleUpdate" /\ ~GrantsGiven(q)
  <2>1. PICK a, b : /\ a = <<>> /\ b = <<"role", "roleUsers">>
                    /\ LockCalls(q) = a \o b
    BY <1>9 DEF LockCalls
  <2>2. Calls(q) = {"role"}
    BY <1>9 DEF Calls
  <2>3. a \in Seq(CallNames) /\ b \in Seq(CallNames)
    BY <2>1 DEF CallNames
  <2>4. LockCalls(q) \in Seq(CallNames) /\ Len(LockCalls(q)) = 2
    BY <2>1, <2>3
  <2>5. LockCalls(q)[1] = "role" /\ LockCalls(q)[2] = "roleUsers"
    BY <2>1, <2>3
  <2> QED
    BY <1>9, <2>2, <2>4, <2>5 DEF Removes
<1>10. CASE q.op = "RoleDelete"
  <2>1. LockCalls(q) = <<"menus", "depts", "role", "roleUsers">> /\ Calls(q) = {"role"}
    BY <1>10 DEF LockCalls, Calls
  <2>2. <<"menus", "depts", "role", "roleUsers">> \in Seq(CallNames)
    BY DEF CallNames
  <2> QED
    BY <1>10, <2>1, <2>2 DEF Removes
<1>11. CASE q.op = "MenuAdd"
  <2>1. LockCalls(q) = <<"parent">> /\ Calls(q) = {"parent"}
    BY <1>11 DEF LockCalls, Calls
  <2>2. <<"parent">> \in Seq(CallNames)
    BY DEF CallNames
  <2> QED
    BY <1>11, <2>1, <2>2 DEF Removes
<1>12. CASE q.op = "MenuUpdate"
  <2>1. LockCalls(q) = <<"menuAndParents", "menuUsers">> /\ Calls(q) = {"menuAndParents"}
    BY <1>12 DEF LockCalls, Calls
  <2>2. <<"menuAndParents", "menuUsers">> \in Seq(CallNames)
    BY DEF CallNames
  <2> QED
    BY <1>12, <2>1, <2>2 DEF Removes
<1>13. CASE q.op = "MenuDelete"
  <2>1. LockCalls(q) = <<"menuRoots", "level", "menuUsers">> /\ Calls(q) = {}
    BY <1>13 DEF LockCalls, Calls
  <2>2. <<"menuRoots", "level", "menuUsers">> \in Seq(CallNames)
    BY DEF CallNames
  <2> QED
    BY <1>13, <2>1, <2>2 DEF Removes
<1>14. CASE q.op \in {"DeptAdd", "DeptUpdate"}
  <2>1. LockCalls(q) = <<"deptAndParent">> /\ Calls(q) = {}
    BY <1>14 DEF LockCalls, Calls
  <2>2. <<"deptAndParent">> \in Seq(CallNames)
    BY DEF CallNames
  <2> QED
    BY <1>14, <2>1, <2>2 DEF Removes
<1>15. CASE q.op = "DeptDelete" /\ q.deleteUser
  <2>1. PICK a, b : /\ a = <<"adminRoles">> /\ b = <<"allDepts", "deptUsers">>
                    /\ LockCalls(q) = a \o b
    BY <1>15 DEF LockCalls
  <2>2. Calls(q) = {}
    BY <1>15 DEF Calls
  <2>3. a \in Seq(CallNames) /\ b \in Seq(CallNames)
    BY <2>1 DEF CallNames
  <2>4. LockCalls(q) \in Seq(CallNames) /\ Len(LockCalls(q)) = 3
    BY <2>1, <2>3
  <2>5. LockCalls(q)[1] = "adminRoles" /\ LockCalls(q)[2] = "allDepts" /\ LockCalls(q)[3] = "deptUsers"
    BY <2>1, <2>3
  <2> QED
    BY <1>15, <2>2, <2>4, <2>5 DEF Removes
<1>16. CASE q.op = "DeptDelete" /\ ~q.deleteUser
  <2>1. PICK a, b : /\ a = <<>> /\ b = <<"allDepts", "deptUsers">>
                    /\ LockCalls(q) = a \o b
    BY <1>16 DEF LockCalls
  <2>2. Calls(q) = {}
    BY <1>16 DEF Calls
  <2>3. a \in Seq(CallNames) /\ b \in Seq(CallNames)
    BY <2>1 DEF CallNames
  <2>4. LockCalls(q) \in Seq(CallNames) /\ Len(LockCalls(q)) = 2
    BY <2>1, <2>3
  <2>5. LockCalls(q)[1] = "allDepts" /\ LockCalls(q)[2] = "deptUsers"
    BY <2>1, <2>3
  <2> QED
    BY <1>16, <2>2, <2>4, <2>5 DEF Removes
<1>17. CASE q.op = "MenuImport"
  <2>1. LockCalls(q) = <<>> /\ Calls(q) = {}
    BY <1>17 DEF LockCalls, Calls
  <2> QED
    BY <1>17, <2>1 DEF Removes
<1> QED
  BY <1>1, <1>2, <1>3, <1>4, <1>5, <1>6, <1>7, <1>8, <1>9, <1>10, <1>11, <1>12, <1>13, <1>14, <1>15,
     <1>16, <1>17, RequestFields

Whole(t) ==
  t = [req |-> t.req, stage |-> t.stage, todo |-> t.todo, want |-> t.want,
       held |-> t.held, snap |-> t.snap, seen |-> t.seen]

\* A transaction that has just begun.
LEMMA Begins ==
  ASSUME Inv, UNCHANGED isolation, NEW p \in Procs, NEW t, proc' = [proc EXCEPT ![p] = t], UNCHANGED <<db, sessions>>,
         Whole(t), t.req \in RequestForms \cup Logins, t.stage = "locking", t.todo = LockCalls(t.req),
         t.want = {}, t.held = {}, t.snap = None, SeenOK(t.seen),
         t.seen.admins = {}, t.seen.menus = {}, t.seen.users = {},
         t.req.op = "DeptDelete" => t.seen.row \in Depts \cup {None} \cup Missing
  PROVE  Inv'
<1>3. TxOK(isolation, t)
  BY CallsListed DEF TxOK, InTodo, Whole
<1>4. Facts(isolation, t, db)
  <2>1. Locked(isolation, t)
    BY CallsListed DEF Locked, InTodo, Rows
  <2>2. HeldExist(t, db)
    BY DEF HeldExist
  <2>3. RoleDeletion(isolation, t, db)
    BY CallsListed DEF RoleDeletion
  <2>4. MenuDeletion(isolation, t, db)
    BY CallsListed DEF MenuDeletion
  <2>5. Checked(isolation, t, db) /\ SignsIn(t, db)
    BY DEF Checked, SignsIn
  <2> QED
    BY <2>1, <2>2, <2>3, <2>4, <2>5 DEF Facts
<1> QED
  BY <1>3, <1>4, OneMoves

LEMMA BeginStep ==
  ASSUME Inv, UNCHANGED isolation, NEW p \in Procs, Begin(p)
  PROVE  Inv'
<1>0. /\ SeenOK(Nothing) /\ Nothing.admins = {} /\ Nothing.menus = {} /\ Nothing.users = {}
      /\ Nothing.row = None
  BY DEF SeenOK, Nothing
<1>u. UNCHANGED <<db, sessions>>
  BY DEF Begin
<1>1. ASSUME NEW q \in Requests,
             proc' = [proc EXCEPT ![p] = [Idle EXCEPT !.req = q, !.stage = "locking",
                                                      !.todo = LockCalls(q)]]
      PROVE  Inv'
  <2>1. PICK t : t = [Idle EXCEPT !.req = q, !.stage = "locking", !.todo = LockCalls(q)]
    OBVIOUS
  <2>2. /\ Whole(t) /\ t.req = q /\ t.stage = "locking" /\ t.todo = LockCalls(q)
        /\ t.want = {} /\ t.held = {} /\ t.snap = None /\ t.seen = Nothing
    BY <2>1 DEF Idle, Whole
  <2>3. q \in RequestForms
    BY RequestAssumption
  <2>4. proc' = [proc EXCEPT ![p] = t]
    BY <1>1, <2>1
  <2> QED
    BY <1>0, <1>u, <2>2, <2>3, <2>4, Begins
<1>2. ASSUME NEW u \in Users, Enabled(db, u),
             proc' = [proc EXCEPT ![p] = [Idle EXCEPT !.req = Login(u), !.stage = "locking",
                                             !.todo = LockCalls(Login(u)),
                                             !.seen.row = db.user[u]]]
      PROVE  Inv'
  <2>1. PICK t : t = [Idle EXCEPT !.req = Login(u), !.stage = "locking",
                                  !.todo = LockCalls(Login(u)), !.seen.row = db.user[u]]
    OBVIOUS
  <2>2. /\ Whole(t) /\ t.req = Login(u) /\ t.stage = "locking" /\ t.todo = LockCalls(Login(u))
        /\ t.want = {} /\ t.held = {} /\ t.snap = None /\ t.seen = [Nothing EXCEPT !.row = db.user[u]]
    BY <2>1 DEF Idle, Whole
  <2>3. Login(u) \in Logins /\ Login(u).op # "DeptDelete"
    BY DEF Login, Logins
  <2>4. db.user[u] \in UserRecord
    BY <1>2 DEF Inv, RowsOK, Tables, Enabled, All, UserRecord
  <2>5. SeenOK(t.seen) /\ t.seen.admins = {} /\ t.seen.menus = {} /\ t.seen.users = {}
    BY <2>2, <2>4 DEF SeenOK, Nothing
  <2>6. proc' = [proc EXCEPT ![p] = t]
    BY <1>2, <2>1
  <2> QED
    BY <1>u, <2>2, <2>3, <2>5, <2>6, Begins
<1>3. ASSUME NEW session \in sessions,
             proc' = [proc EXCEPT ![p] = [Idle EXCEPT !.req = Refresh(session), !.stage = "locking",
                                             !.todo = LockCalls(Refresh(session)),
                                             !.seen.session = session]]
      PROVE  Inv'
  <2>0. session \in Session
    BY DEF Inv, Current
  <2>1. PICK t : t = [Idle EXCEPT !.req = Refresh(session), !.stage = "locking",
                                  !.todo = LockCalls(Refresh(session)), !.seen.session = session]
    OBVIOUS
  <2>2. /\ Whole(t) /\ t.req = Refresh(session) /\ t.stage = "locking"
        /\ t.todo = LockCalls(Refresh(session))
        /\ t.want = {} /\ t.held = {} /\ t.snap = None /\ t.seen = [Nothing EXCEPT !.session = session]
    BY <2>1 DEF Idle, Whole
  <2>3. Refresh(session) \in Logins /\ Refresh(session).op # "DeptDelete"
    BY <2>0 DEF Refresh, Logins, Session
  <2>5. SeenOK(t.seen) /\ t.seen.admins = {} /\ t.seen.menus = {} /\ t.seen.users = {}
    BY <2>0, <2>2 DEF SeenOK, Nothing
  <2>6. proc' = [proc EXCEPT ![p] = t]
    BY <1>3, <2>1
  <2> QED
    BY <1>u, <2>2, <2>3, <2>5, <2>6, Begins
<1> QED
  BY <1>1, <1>2, <1>3 DEF Begin

-----------------------------------------------------------------------------
(* Reading: what is learned, and which rows are asked for.                 *)

LEMMA SeenAfter ==
  ASSUME NEW d, d \in Tables, NEW q \in RequestForms \cup Logins, NEW s, SeenOK(s), NEW call \in CallNames,
         call = "deptUsers" => q.op = "DeptDelete", NEW n, n = SeenBefore(call, q, s, d)
  PROVE  /\ SeenOK(n)
         /\ n.admins = IF call = "adminRoles" THEN AdminRoles(d) ELSE s.admins
         /\ call # "menus" => n.menus = s.menus
         /\ (call = "menus" /\ q.op = "RoleAdd") => n.menus = q.menus
         /\ call \notin {"roleUsers", "menuUsers", "deptUsers"} => n.users = s.users
         /\ call = "roleUsers" => n.users = RoleUsers(d, q.role)
         /\ n.row = IF call = "deptUsers" THEN d.dept[q.dept] ELSE s.row
         /\ call \notin {"menuRoots", "level", "relevel", "deptUsers"} => n.ids = s.ids
         /\ call = "menuRoots" => n.ids = q.menus /\ n.level = q.menus
         /\ call = "level" =>
              /\ n.ids = s.ids /\ n.from = s.level
              /\ n.level = {m \in All(d, "menu") : d.menu[m] \in s.level} \ s.ids
         /\ call = "relevel" =>
              /\ n.level = {m \in s.level : d.menu[m] \in s.from}
              /\ n.ids = s.ids \cup {m \in s.level : d.menu[m] \in s.from}
<1> USE DEF SeenOK
<1>a. AdminRoles(d) \subseteq Roles /\ All(d, "role") \subseteq Roles /\ All(d, "user") \subseteq Users
  BY DEF AdminRoles, All, Tables
<1>1. CASE call = "adminRoles"
  <2>1. n = [s EXCEPT !.admins = AdminRoles(d)]
    BY <1>1 DEF SeenBefore
  <2> QED
    BY <1>1, <1>a, <2>1
<1>2. CASE call = "involved"
  <2>1. n = [s EXCEPT !.roles = RoleIDs(d, q.user)] /\ RoleIDs(d, q.user) \subseteq Roles
    BY <1>2, <1>a DEF SeenBefore, RoleIDs
  <2> QED
    BY <1>2, <2>1
<1>3. CASE call = "menus" /\ q.op # "RoleAdd"
  <2>1. PICK ms, ds : /\ n = [s EXCEPT !.menus = ms, !.depts = ds]
                      /\ ms = IF q.op = "RoleUpdate" /\ q.menus # Keep THEN q.menus ELSE RoleMenus(d, q.role)
                      /\ ds = IF q.op = "RoleUpdate" /\ q.depts # Keep THEN q.depts ELSE RoleDepts(d, q.role)
    BY <1>3 DEF SeenBefore
  <2>2. ms \subseteq Menus /\ ds \subseteq Depts
    BY <2>1, RequestFields DEF RoleMenus, RoleDepts
  <2> QED
    BY <1>3, <2>1, <2>2
<1>4. CASE call = "menus" /\ q.op = "RoleAdd"
  <2>1. n = [s EXCEPT !.menus = q.menus, !.depts = q.depts]
    BY <1>4 DEF SeenBefore
  <2>2. q.menus \subseteq Menus /\ q.depts \subseteq Depts
    BY <1>4, RequestFields
  <2> QED
    BY <1>4, <2>1, <2>2
<1>5. CASE call = "menuRoots"
  <2>1. n = [s EXCEPT !.ids = q.menus, !.level = q.menus]
    BY <1>5 DEF SeenBefore
  <2> QED
    BY <1>5, <2>1
<1>6. CASE call = "level"
  <2>1. PICK ms : /\ ms = {m \in All(d, "menu") : d.menu[m] \in s.level} \ s.ids
                  /\ n = [s EXCEPT !.from = s.level, !.level = ms]
    BY <1>6 DEF SeenBefore
  <2> QED
    BY <1>6, <2>1
<1>7. CASE call = "relevel"
  <2>1. PICK ms : /\ ms = {m \in s.level : d.menu[m] \in s.from}
                  /\ n = [s EXCEPT !.level = ms, !.ids = @ \cup ms]
    BY <1>7 DEF SeenBefore
  <2> QED
    BY <1>7, <2>1
<1>8. CASE call = "roleUsers"
  <2>1. n = [s EXCEPT !.users = RoleUsers(d, q.role)] /\ RoleUsers(d, q.role) \subseteq Users
    BY <1>8 DEF SeenBefore, RoleUsers
  <2> QED
    BY <1>8, <2>1
<1>9. CASE call = "menuUsers"
  <2>1. PICK us \in SUBSET Users : n = [s EXCEPT !.users = us]
    BY <1>9 DEF SeenBefore, MenuUsers
  <2> QED
    BY <1>9, <2>1
<1>10. CASE call = "deptUsers"
  <2>1. PICK ids \in {DeptTree(d, q.dept)}, us \in SUBSET Users :
          n = [s EXCEPT !.ids = ids, !.users = us, !.row = d.dept[q.dept]]
    <3>1. DeptUsers(d, DeptTree(d, q.dept)) \subseteq Users
      BY <1>a DEF DeptUsers
    <3> QED
      BY <1>10, <3>1 DEF SeenBefore
  <2>2. d.dept[q.dept] \in Depts \cup {None} \cup Missing
    BY <1>10, RequestFields DEF Tables
  <2> QED
    BY <1>10, <2>1, <2>2
<1>11. CASE call \notin {"adminRoles", "involved", "menus", "menuRoots", "level", "relevel", "roleUsers",
                         "menuUsers", "deptUsers"}
  <2>1. n = s
    BY <1>11 DEF SeenBefore
  <2> QED
    BY <1>11, <2>1
<1> QED
  BY <1>1, <1>2, <1>3, <1>4, <1>5, <1>6, <1>7, <1>8, <1>9, <1>10, <1>11

\* What is asked for covers the rows of the call.
LEMMA WantedRows ==
  ASSUME NEW d, d \in Tables,
         NEW q \in RequestForms \cup Logins, NEW s, SeenOK(s), NEW call \in CallNames,
         call = "deptUsers" => q.op = "DeptDelete", NEW n, n = SeenBefore(call, q, s, d),
         NEW held, Rows(RoleRow, s.admins) \subseteq held, NEW w, w = Wanted(call, q, n, d)
  PROVE  /\ call \in Calls(q) => CallRows(call, q) \subseteq held \cup w
         /\ call = "adminRoles" => Rows(RoleRow, n.admins) \subseteq w
         /\ call = "menus" => Rows(MenuRow, n.menus) \subseteq w
         /\ call \in {"roleUsers", "menuUsers", "deptUsers"} => Rows(UserRow, n.users) \subseteq w
<1>n. /\ n.admins = IF call = "adminRoles" THEN AdminRoles(d) ELSE s.admins
      /\ (call = "menus" /\ q.op = "RoleAdd") => n.menus = q.menus
  BY SeenAfter
<1>1. CASE call = "adminRoles"
  <2>1. w = Rows(RoleRow, n.admins) /\ CallRows(call, q) = {}
    BY <1>1 DEF Wanted, CallRows
  <2> QED
    BY <1>1, <2>1
<1>2. CASE call = "involved"
  <2>1. /\ w = Rows(RoleRow, (n.roles \cup (IF q.op = "UserUpdate" /\ q.roles # Keep THEN q.roles ELSE {}))
                               \ n.admins)
        /\ CallRows(call, q) = IF q.op = "UserUpdate" /\ q.roles # Keep THEN Rows(RoleRow, q.roles) ELSE {}
    BY <1>2 DEF Wanted, CallRows
  <2>2. n.admins = s.admins
    BY <1>2, <1>n
  <2>3. CASE q.op = "UserUpdate" /\ q.roles # Keep
    <3>1. ASSUME NEW r \in q.roles PROVE RoleRow(r) \in held \cup w
      BY <2>1, <2>2, <2>3, <3>1 DEF Rows
    <3> QED
      BY <1>2, <2>1, <2>3, <3>1 DEF Rows
  <2> QED
    BY <1>2, <2>1, <2>3
<1>3. CASE call = "menus"
  <2>1. /\ w = Rows(MenuRow, n.menus)
        /\ CallRows(call, q) = IF q.op = "RoleAdd" THEN Rows(MenuRow, q.menus) ELSE {}
    BY <1>3 DEF Wanted, CallRows
  <2> QED
    BY <1>3, <1>n, <2>1
<1>4. CASE call \in {"roles", "role", "user", "parent"}
  <2>1. w = CallRows(call, q)
    BY <1>4 DEF Wanted, CallRows
  <2> QED
    BY <1>4, <2>1
<1>5. CASE call = "menuAndParents"
  <2>1. /\ w = Rows(MenuRow, DOMAIN q.parents \cup GivenParents(q)
                               \cup (IF MovedMenus(q.parents) # {} THEN All(d, "menu") ELSE {}))
        /\ CallRows(call, q) = Rows(MenuRow, DOMAIN q.parents \cup GivenParents(q))
    BY <1>5 DEF Wanted, CallRows
  <2>2. CallRows(call, q) \subseteq w
    BY <2>1 DEF Rows
  <2> QED
    BY <1>5, <2>2
<1>6. CASE call \in {"roleUsers", "menuUsers", "deptUsers"}
  <2>1. w = Rows(UserRow, n.users) /\ CallRows(call, q) = {}
    BY <1>6 DEF Wanted, CallRows
  <2> QED
    BY <1>6, <2>1
<1>7. CASE call \in {"menuRoots", "level", "dept", "depts", "relevel", "deptAndParent", "allDepts"}
  <2>1. CallRows(call, q) = {}
    BY <1>7 DEF CallRows
  <2> QED
    BY <1>7, <2>1
<1> QED
  BY <1>1, <1>2, <1>3, <1>4, <1>5, <1>6, <1>7 DEF CallNames

\* The calls that are left after one is made.
LEMMA CallsLeft ==
  ASSUME NEW l \in Seq(CallNames), l # <<>>, NEW s, NEW r, r = Following(Head(l), s, Tail(l))
  PROVE  /\ Head(l) \in CallNames /\ r \in Seq(CallNames)
         /\ \A n \in 1..Len(l) : l[n] = Head(l) \/ \E k \in 1..Len(r) : r[k] = l[n]
         /\ \A k \in 1..Len(r) : r[k] \in {"level", "relevel"} \/ \E n \in 1..Len(l) : l[n] = r[k]
         /\ \E n \in 1..Len(l) : l[n] = Head(l)
<1>1. PICK rest : rest = Tail(l)
  OBVIOUS
<1>2. /\ Head(l) \in CallNames /\ Head(l) = l[1] /\ rest \in Seq(CallNames) /\ Len(rest) = Len(l) - 1
      /\ Len(l) \in Nat \ {0}
      /\ \A n \in 1..Len(rest) : rest[n] = l[n + 1]
  BY <1>1
<1>3. \A n \in 1..Len(l) : l[n] = Head(l) \/ \E k \in 1..Len(rest) : rest[k] = l[n]
  <2> SUFFICES ASSUME NEW n \in 1..Len(l), n # 1 PROVE \E k \in 1..Len(rest) : rest[k] = l[n]
    BY <1>2
  <2>1. n - 1 \in 1..Len(rest) /\ (n - 1) + 1 = n
    BY <1>2
  <2> QED
    BY <1>2, <2>1
<1>4. \A k \in 1..Len(rest) : \E n \in 1..Len(l) : l[n] = rest[k]
  BY <1>2
<1>5. \E n \in 1..Len(l) : l[n] = Head(l)
  BY <1>2
<1>6. CASE r = rest
  BY <1>2, <1>3, <1>4, <1>5, <1>6
<1>7. ASSUME NEW first \in {"level", "relevel"}, r = <<first>> \o rest
      PROVE  /\ r \in Seq(CallNames)
             /\ \A k \in 1..Len(rest) : \E n \in 1..Len(r) : r[n] = rest[k]
             /\ \A k \in 1..Len(r) : r[k] = first \/ \E n \in 1..Len(rest) : rest[n] = r[k]
  <2>0. first \in CallNames
    BY DEF CallNames
  <2>a. <<first>> \in Seq(CallNames)
    BY <2>0
  <2>1. PICK a \in Seq(CallNames) : a = <<first>>
    BY <2>a
  <2>2. Len(a) = 1 /\ a[1] = first /\ r = a \o rest
    BY <1>7, <2>1
  <2>3. /\ r \in Seq(CallNames)
        /\ \A n \in 1..Len(rest) : n + Len(a) \in 1..Len(r) /\ r[n + Len(a)] = rest[n]
        /\ \A n \in 1..Len(r) : \/ n \in 1..Len(a) /\ r[n] = a[n]
                                \/ n - Len(a) \in 1..Len(rest) /\ r[n] = rest[n - Len(a)]
    <3> HIDE DEF CallNames
    <3>1. /\ a \o rest \in Seq(CallNames)
          /\ \A n \in 1..Len(rest) : n + Len(a) \in 1..Len(a \o rest) /\ (a \o rest)[n + Len(a)] = rest[n]
          /\ \A n \in 1..Len(a \o rest) :
               \/ n \in 1..Len(a) /\ (a \o rest)[n] = a[n]
               \/ n - Len(a) \in 1..Len(rest) /\ (a \o rest)[n] = rest[n - Len(a)]
      BY <1>2, Joined, SMTT(40)
    <3> QED
      BY <2>2, <3>1
  <2> QED
    BY <2>2, <2>3, SMTT(40)
<1>8. r = rest \/ r = <<"level">> \o rest \/ r = <<"relevel">> \o rest
  BY <1>1 DEF Following
<1>9. ASSUME NEW first \in {"level", "relevel"}, r = <<first>> \o rest
      PROVE  /\ r \in Seq(CallNames)
             /\ \A n \in 1..Len(l) : l[n] = Head(l) \/ \E k \in 1..Len(r) : r[k] = l[n]
             /\ \A k \in 1..Len(r) : r[k] \in {"level", "relevel"} \/ \E n \in 1..Len(l) : l[n] = r[k]
  <2>1. /\ r \in Seq(CallNames)
        /\ \A k \in 1..Len(rest) : \E n \in 1..Len(r) : r[n] = rest[k]
        /\ \A k \in 1..Len(r) : r[k] = first \/ \E n \in 1..Len(rest) : rest[n] = r[k]
    BY <1>7, <1>9
  <2>2. \A n \in 1..Len(l) : l[n] = Head(l) \/ \E k \in 1..Len(r) : r[k] = l[n]
    <3> SUFFICES ASSUME NEW n \in 1..Len(l), l[n] # Head(l) PROVE \E k \in 1..Len(r) : r[k] = l[n]
      OBVIOUS
    <3>1. PICK k \in 1..Len(rest) : rest[k] = l[n]
      BY <1>3
    <3>2. PICK j \in 1..Len(r) : r[j] = rest[k]
      BY <2>1
    <3> QED
      BY <3>1, <3>2
  <2>3. \A k \in 1..Len(r) : r[k] \in {"level", "relevel"} \/ \E n \in 1..Len(l) : l[n] = r[k]
    <3> SUFFICES ASSUME NEW k \in 1..Len(r), r[k] # first PROVE \E n \in 1..Len(l) : l[n] = r[k]
      OBVIOUS
    <3>1. PICK j \in 1..Len(rest) : rest[j] = r[k]
      BY <2>1
    <3>2. PICK n \in 1..Len(l) : l[n] = rest[j]
      BY <1>4
    <3> QED
      BY <3>1, <3>2
  <2> QED
    BY <2>1, <2>2, <2>3
<1> QED
  BY <1>2, <1>5, <1>6, <1>8, <1>9

\* u is t after the reads before its next lock call; v is what it sees.
Reads(iso, t, u, v, d) ==
  /\ TxOK(iso, t) /\ Facts(iso, t, d) /\ t.stage = "locking" /\ t.want = {} /\ t.todo # <<>>
  /\ v \in Tables /\ (iso = RC => v = d)
  /\ u.snap \in Tables \cup {None} /\ (iso = RC => u.snap = None)
  /\ Whole(u) /\ u.req = t.req /\ u.stage = "locking" /\ u.held = t.held
  /\ u.seen = SeenBefore(Head(t.todo), t.req, t.seen, v)
  /\ u.want = Wanted(Head(t.todo), t.req, u.seen, v)
  /\ u.todo = Following(Head(t.todo), u.seen, Tail(t.todo))

LEMMA ReadsFacts ==
  ASSUME NEW iso, NEW t, NEW u, NEW v, NEW d, RowsOK(iso, d), Reads(iso, t, u, v, d)
  PROVE  /\ t.req \in RequestForms \cup Logins /\ SeenOK(t.seen) /\ d \in Tables /\ v \in Tables
         /\ Locked(iso, t) /\ HeldExist(t, d) /\ RoleDeletion(iso, t, d) /\ MenuDeletion(iso, t, d)
         /\ t.todo \in Seq(CallNames) /\ Head(t.todo) \in CallNames /\ Head(t.todo) \in InTodo(t)
         /\ Head(t.todo) = "deptUsers" => t.req.op = "DeptDelete"
         /\ u.todo \in Seq(CallNames)
         /\ InTodo(t) \subseteq InTodo(u) \cup {Head(t.todo)}
         /\ InTodo(u) \subseteq InTodo(t) \cup {"level", "relevel"}
         /\ Locks(t) = t.held /\ Locks(u) = t.held \cup u.want
<1>1. /\ t.req \in RequestForms \cup Logins /\ SeenOK(t.seen) /\ d \in Tables /\ v \in Tables
      /\ t.todo \in Seq(CallNames) /\ t.todo # <<>>
  BY DEF Reads, TxOK, RowsOK
<1>2. Locked(iso, t) /\ HeldExist(t, d) /\ RoleDeletion(iso, t, d) /\ MenuDeletion(iso, t, d)
  BY DEF Reads, Facts
<1>3. PICK r : r = u.todo /\ r = Following(Head(t.todo), u.seen, Tail(t.todo))
  BY DEF Reads
<1>4. /\ Head(t.todo) \in CallNames /\ r \in Seq(CallNames)
      /\ \A n \in 1..Len(t.todo) : t.todo[n] = Head(t.todo) \/ \E k \in 1..Len(r) : r[k] = t.todo[n]
      /\ \A k \in 1..Len(r) : r[k] \in {"level", "relevel"} \/ \E n \in 1..Len(t.todo) : t.todo[n] = r[k]
      /\ \E n \in 1..Len(t.todo) : t.todo[n] = Head(t.todo)
  <2> HIDE DEF CallNames
  <2> QED
    BY <1>1, <1>3, CallsLeft
<1>5. /\ InTodo(t) \subseteq InTodo(u) \cup {Head(t.todo)}
      /\ InTodo(u) \subseteq InTodo(t) \cup {"level", "relevel"}
      /\ Head(t.todo) \in InTodo(t)
  <2>1. InTodo(t) = {t.todo[n] : n \in 1..Len(t.todo)} /\ InTodo(u) = {r[k] : k \in 1..Len(r)}
    BY <1>3 DEF InTodo
  <2>2. ASSUME NEW n \in 1..Len(t.todo) PROVE t.todo[n] \in InTodo(u) \cup {Head(t.todo)}
    BY <1>4, <2>1
  <2>3. ASSUME NEW k \in 1..Len(r) PROVE r[k] \in InTodo(t) \cup {"level", "relevel"}
    BY <1>4, <2>1
  <2>4. Head(t.todo) \in InTodo(t)
    BY <1>4, <2>1
  <2> QED
    BY <2>1, <2>2, <2>3, <2>4
<1>6. Head(t.todo) = "deptUsers" => t.req.op = "DeptDelete"
  BY <1>5 DEF Reads, TxOK
<1>7. Locks(t) = t.held /\ Locks(u) = t.held \cup u.want
  BY DEF Locks, Reads
<1> QED
  BY <1>1, <1>2, <1>3, <1>4, <1>5, <1>6, <1>7

LEMMA ReadsLocked ==
  ASSUME NEW iso, NEW t, NEW u, NEW v, NEW d, RowsOK(iso, d), Reads(iso, t, u, v, d)
  PROVE  TxOK(iso, u) /\ Locked(iso, u) /\ HeldExist(u, d) /\ Checked(iso, u, d) /\ SignsIn(u, d)
<1> DEFINE call == Head(t.todo)
<1>1. /\ t.req \in RequestForms \cup Logins /\ SeenOK(t.seen) /\ v \in Tables /\ call \in CallNames
      /\ call = "deptUsers" => t.req.op = "DeptDelete"
      /\ u.todo \in Seq(CallNames)
      /\ InTodo(t) \subseteq InTodo(u) \cup {call}
      /\ InTodo(u) \subseteq InTodo(t) \cup {"level", "relevel"}
      /\ Locks(t) = t.held /\ Locks(u) = t.held \cup u.want /\ Locked(iso, t) /\ HeldExist(t, d)
  BY ReadsFacts
<1>2. u.seen = SeenBefore(call, t.req, t.seen, v) /\ u.want = Wanted(call, t.req, u.seen, v) /\ u.req = t.req
  BY DEF Reads
<1>3. /\ iso = RC => AdminRoles(InitDB) \subseteq AdminRoles(v)
      /\ Rows(RoleRow, t.seen.admins) \subseteq t.held
  BY <1>1 DEF RowsOK, Locked, Reads
<1> HIDE DEF call
<1>4. /\ SeenOK(u.seen)
      /\ call # "adminRoles" => u.seen.admins = t.seen.admins
      /\ call # "menus" => u.seen.menus = t.seen.menus
      /\ call \notin {"roleUsers", "menuUsers", "deptUsers"} => u.seen.users = t.seen.users
      /\ u.seen.row = IF call = "deptUsers" THEN v.dept[t.req.dept] ELSE t.seen.row
  BY <1>1, <1>2, SeenAfter
<1>5. /\ call \in Calls(t.req) => CallRows(call, t.req) \subseteq t.held \cup u.want
      /\ call = "adminRoles" => Rows(RoleRow, u.seen.admins) \subseteq u.want
      /\ iso = RC /\ call = "adminRoles" => AdminRows \subseteq u.want
      /\ call = "menus" => Rows(MenuRow, u.seen.menus) \subseteq u.want
      /\ call \in {"roleUsers", "menuUsers", "deptUsers"} => Rows(UserRow, u.seen.users) \subseteq u.want
  <2>1. /\ t.req \in RequestForms \cup Logins /\ SeenOK(t.seen) /\ v \in Tables /\ call \in CallNames
        /\ call = "deptUsers" => t.req.op = "DeptDelete"
    BY <1>1
  <2>2. /\ u.seen = SeenBefore(call, t.req, t.seen, v) /\ u.want = Wanted(call, t.req, u.seen, v)
        /\ Rows(RoleRow, t.seen.admins) \subseteq t.held
    BY <1>2, <1>3
  <2>3. /\ call \in Calls(t.req) => CallRows(call, t.req) \subseteq t.held \cup u.want
        /\ call = "adminRoles" => Rows(RoleRow, u.seen.admins) \subseteq u.want
        /\ call = "menus" => Rows(MenuRow, u.seen.menus) \subseteq u.want
        /\ call \in {"roleUsers", "menuUsers", "deptUsers"} => Rows(UserRow, u.seen.users) \subseteq u.want
    BY <2>1, <2>2, WantedRows
  <2>4. ASSUME iso = RC, call = "adminRoles" PROVE AdminRows \subseteq u.want
    <3>1. u.seen.admins = AdminRoles(v) /\ AdminRoles(InitDB) \subseteq AdminRoles(v)
      BY <1>3, <2>1, <2>2, <2>4, SeenAfter
    <3>2. AdminRows \subseteq Rows(RoleRow, u.seen.admins)
      BY <3>1 DEF AdminRows, Rows
    <3> QED
      BY <2>3, <2>4, <3>2
  <2> QED
    BY <2>3, <2>4
<1>6. Locked(iso, u)
  <2>1. ASSUME NEW c \in Calls(t.req), c \notin InTodo(u) PROVE CallRows(c, t.req) \subseteq Locks(u)
    <3>1. CASE c = call
      BY <1>1, <1>5, <2>1, <3>1
    <3>2. CASE c # call
      <4>1. c \notin InTodo(t)
        BY <1>1, <2>1, <3>2
      <4> QED
        BY <1>1, <2>1, <4>1 DEF Locked
    <3> QED
      BY <3>1, <3>2
  <2>2. Rows(RoleRow, u.seen.admins) \subseteq Locks(u)
    BY <1>1, <1>4, <1>5 DEF Locked
  <2>3. Rows(MenuRow, u.seen.menus) \subseteq Locks(u)
    BY <1>1, <1>4, <1>5 DEF Locked
  <2>4. Rows(UserRow, u.seen.users) \subseteq Locks(u)
    BY <1>1, <1>4, <1>5 DEF Locked
  <2>5. iso = RC /\ Removes(t.req) => "adminRoles" \in InTodo(u) \/ AdminRows \subseteq Locks(u)
    BY <1>1, <1>5 DEF Locked
  <2> QED
    BY <1>2, <2>1, <2>2, <2>3, <2>4, <2>5 DEF Locked
<1>7. TxOK(iso, u)
  <2>1. t.req.op = "DeptDelete" => u.seen.row \in Depts \cup {None} \cup Missing
    <3> SUFFICES ASSUME t.req.op = "DeptDelete" PROVE u.seen.row \in Depts \cup {None} \cup Missing
      OBVIOUS
    <3>1. t.req.dept \in Depts /\ t.seen.row \in Depts \cup {None} \cup Missing
      BY <1>1, RequestFields DEF Reads, TxOK
    <3> QED
      BY <1>1, <1>4, <3>1 DEF Tables
  <2>2. "deptUsers" \in InTodo(u) => t.req.op = "DeptDelete"
    BY <1>1 DEF Reads, TxOK
  <2> QED
    BY <1>1, <1>4, <2>1, <2>2 DEF TxOK, Reads, Whole
<1>8. HeldExist(u, d) /\ Checked(iso, u, d) /\ SignsIn(u, d)
  BY <1>1 DEF HeldExist, Checked, SignsIn, Reads
<1> QED
  BY <1>6, <1>7, <1>8

LEMMA ReadsRole ==
  ASSUME NEW iso, NEW t, NEW u, NEW v, NEW d, RowsOK(iso, d), Reads(iso, t, u, v, d)
  PROVE  RoleDeletion(iso, u, d)
<1> SUFFICES ASSUME t.req.op = "RoleDelete" PROVE RoleDeletion(iso, u, d)
  BY DEF RoleDeletion, Reads
<1>1. u.req = t.req /\ u.held = t.held /\ t.todo # <<>> /\ t.want = {} /\ TxOK(iso, t)
  BY DEF Reads
<1>2. t.todo \in {<<"menus", "depts", "role", "roleUsers">>, <<"depts", "role", "roleUsers">>,
                  <<"role", "roleUsers">>, <<"roleUsers">>}
  BY <1>1, ReadsFacts DEF RoleDeletion
<1>3. Head(t.todo) \notin {"level", "relevel"}
  BY <1>2
<1>4. u.todo = Tail(t.todo)
  BY <1>3 DEF Reads, Following
<1>5. u.todo \in {<<"depts", "role", "roleUsers">>, <<"role", "roleUsers">>, <<"roleUsers">>, <<>>}
  <2>1. CASE t.todo = <<"menus", "depts", "role", "roleUsers">>
    <3>1. u.todo = <<"depts", "role", "roleUsers">>
      BY <1>4, <2>1
    <3> QED
      BY <3>1
  <2>2. CASE t.todo = <<"depts", "role", "roleUsers">>
    <3>1. u.todo = <<"role", "roleUsers">>
      BY <1>4, <2>2
    <3> QED
      BY <3>1
  <2>3. CASE t.todo = <<"role", "roleUsers">>
    <3>1. u.todo = <<"roleUsers">>
      BY <1>4, <2>3
    <3> QED
      BY <3>1
  <2>4. CASE t.todo = <<"roleUsers">>
    <3>1. u.todo = <<>>
      BY <1>4, <2>4
    <3> QED
      BY <3>1
  <2> QED
    BY <1>2, <2>1, <2>2, <2>3, <2>4
<1>6. ASSUME u.todo = <<>>
      PROVE  /\ RoleRow(t.req.role) \in t.held
             /\ iso = RC => RoleUsers(d, t.req.role) \subseteq u.seen.users
  <2>1. t.todo = <<"roleUsers">>
    <3>1. Len(t.todo) > 1 => Len(u.todo) > 0
      BY <1>2, <1>4
    <3>2. Len(u.todo) = 0
      BY <1>6
    <3> QED
      BY <1>2, <3>1, <3>2
  <2>2. "role" \notin InTodo(t) /\ Head(t.todo) = "roleUsers"
    BY <2>1 DEF InTodo
  <2>3. "role" \in Calls(t.req) /\ CallRows("role", t.req) = {RoleRow(t.req.role)}
    BY DEF Calls, CallRows
  <2>r. Locked(iso, t) /\ Locks(t) = t.held
    BY ReadsFacts
  <2>4. RoleRow(t.req.role) \in t.held
    BY <2>2, <2>3, <2>r DEF Locked
  <2>5. u.seen.users = RoleUsers(v, t.req.role) /\ (iso = RC => v = d)
    <3>1. /\ t.req \in RequestForms \cup Logins /\ SeenOK(t.seen) /\ v \in Tables
          /\ "roleUsers" \in CallNames
      BY ReadsFacts DEF CallNames
    <3>2. u.seen = SeenBefore("roleUsers", t.req, t.seen, v) /\ (iso = RC => v = d)
      BY <2>2, SMTT(40) DEF Reads
    <3> QED
      BY <3>1, <3>2, SeenAfter
  <2> QED
    BY <2>4, <2>5
<1> QED
  BY <1>1, <1>5, <1>6 DEF RoleDeletion

LEMMA ReadsMenu ==
  ASSUME NEW iso, NEW t, NEW u, NEW v, NEW d, RowsOK(iso, d), Reads(iso, t, u, v, d)
  PROVE  MenuDeletion(iso, u, d)
<1> SUFFICES ASSUME t.req.op = "MenuDelete" PROVE MenuDeletion(iso, u, d)
  BY DEF MenuDeletion, Reads
<1> DEFINE s == t.seen
           n == u.seen
<1>1. /\ u.req = t.req /\ u.held = t.held /\ t.todo # <<>> /\ t.want = {}
      /\ u.todo = Following(Head(t.todo), n, Tail(t.todo))
      /\ n = SeenBefore(Head(t.todo), t.req, s, v) /\ u.want = Wanted(Head(t.todo), t.req, n, v)
      /\ iso = RC => v = d
  BY DEF Reads
<1>2. /\ t.req \in RequestForms \cup Logins /\ SeenOK(s) /\ v \in Tables /\ MenuDeletion(iso, t, d)
      /\ t.req.menus \subseteq Menus /\ Locks(t) = t.held /\ Locks(u) = t.held \cup u.want
      /\ Rows(RoleRow, s.admins) \subseteq t.held
  BY ReadsFacts, RequestFields DEF Locked
<1>m. /\ All(v, "menu") \subseteq Menus
      /\ \A m \in Menus : v.menu[m] \in Menus => m \in All(v, "menu")
  BY <1>2, MarkAssumption DEF All, Tables, Missing
<1>a. {"menuRoots", "level", "relevel", "menuUsers"} \subseteq CallNames
  BY DEF CallNames
<1>s. t.req \in RequestForms \cup Logins /\ SeenOK(s) /\ v \in Tables
  BY <1>2
<1> HIDE DEF n, s
<1>3. CASE t.todo = <<"menuRoots", "level", "menuUsers">>
  <2>1. Head(t.todo) = "menuRoots" /\ Tail(t.todo) = <<"level", "menuUsers">>
    BY <1>3
  <2>2. u.todo = <<"level", "menuUsers">>
    BY <1>1, <2>1 DEF Following
  <2>a. /\ n = SeenBefore("menuRoots", t.req, s, v) /\ u.want = Wanted("menuRoots", t.req, n, v)
        /\ "menuRoots" \in CallNames /\ "menuRoots" # "deptUsers"
    BY <1>1, <1>a, <2>1
  <2>b. n.ids = t.req.menus /\ n.level = t.req.menus
    BY <1>s, <2>a, SeenAfter
  <2>3. n.ids = t.req.menus /\ n.level = t.req.menus /\ u.want = Rows(MenuRow, n.ids)
    <3>1. u.want = Rows(MenuRow, t.req.menus)
      BY <2>a DEF Wanted
    <3> QED
      BY <2>b, <3>1
  <2>4. n.ids \ n.level = {} /\ n.ids \subseteq Menus /\ Rows(MenuRow, n.level) \subseteq Locks(u)
    BY <1>2, <2>3
  <2>5. Rows(MenuRow, {}) = {} /\ Kids(d, {}) = {}
    BY DEF Rows, Kids
  <2> QED
    BY <2>2, <2>3, <2>4, <2>5 DEF MenuDeletion, n
<1>4. CASE /\ t.todo = <<"level", "menuUsers">>
           /\ s.level \subseteq s.ids /\ s.ids \subseteq Menus
           /\ Rows(MenuRow, s.ids \ s.level) \subseteq t.held
           /\ Rows(MenuRow, s.level) \subseteq Locks(t)
           /\ iso = RC => Kids(d, s.ids \ s.level) \subseteq s.ids
  <2>1. Head(t.todo) = "level" /\ Tail(t.todo) = <<"menuUsers">>
    BY <1>4
  <2>a. /\ n = SeenBefore("level", t.req, s, v) /\ u.want = Wanted("level", t.req, n, v)
        /\ "level" \in CallNames /\ "level" # "deptUsers"
    BY <1>1, <1>a, <2>1
  <2>2. /\ n.ids = s.ids /\ n.from = s.level
        /\ n.level = {m \in All(v, "menu") : v.menu[m] \in s.level} \ s.ids
        /\ u.want = Rows(MenuRow, n.level)
    <3>1. /\ n.ids = s.ids /\ n.from = s.level
          /\ n.level = {m \in All(v, "menu") : v.menu[m] \in s.level} \ s.ids
      BY <1>s, <2>a, SeenAfter
    <3>2. u.want = Rows(MenuRow, n.level)
      BY <2>a DEF Wanted
    <3> QED
      BY <3>1, <3>2
  <2>3. Rows(MenuRow, n.ids) \subseteq t.held
    BY <1>2, <1>4, <2>2 DEF Rows
  <2>4. iso = RC => Kids(d, n.from) \subseteq n.ids \cup n.level
    BY <1>1, <1>m, <1>4, <2>2 DEF Kids
  <2>5. CASE n.level # {}
    <3>1. u.todo = <<"relevel", "menuUsers">>
      BY <1>1, <1>a, <2>1, <2>5, JoinedPair DEF Following
    <3>2. n.level \subseteq Menus /\ Rows(MenuRow, n.level) \subseteq Locks(u)
      BY <1>2, <1>m, <2>2
    <3>3. iso = RC => Kids(d, n.ids \ n.from) \subseteq n.ids
      BY <1>4, <2>2
    <3> QED
      BY <1>1, <1>4, <2>2, <2>3, <2>4, <3>1, <3>2, <3>3 DEF MenuDeletion, n
  <2>6. CASE n.level = {}
    <3>1. u.todo = <<"menuUsers">>
      BY <1>1, <2>1, <2>6 DEF Following
    <3>2. iso = RC => Kids(d, n.ids) \subseteq n.ids
      BY <1>4, <2>2, <2>4, <2>6 DEF Kids
    <3> QED
      BY <1>1, <1>4, <2>2, <2>3, <3>1, <3>2 DEF MenuDeletion, n
  <2> QED
    BY <2>5, <2>6
<1>5. CASE /\ t.todo = <<"relevel", "menuUsers">>
           /\ s.from \subseteq s.ids /\ s.ids \subseteq Menus /\ s.level \subseteq Menus
           /\ Rows(MenuRow, s.ids) \subseteq t.held
           /\ Rows(MenuRow, s.level) \subseteq Locks(t)
           /\ iso = RC => Kids(d, s.ids \ s.from) \subseteq s.ids
           /\ iso = RC => Kids(d, s.from) \subseteq s.ids \cup s.level
  <2>1. Head(t.todo) = "relevel" /\ Tail(t.todo) = <<"menuUsers">>
    BY <1>5
  <2>a. n = SeenBefore("relevel", t.req, s, v) /\ "relevel" \in CallNames /\ "relevel" # "deptUsers"
    BY <1>1, <1>a, <2>1
  <2>2. /\ n.level = {m \in s.level : v.menu[m] \in s.from}
        /\ n.ids = s.ids \cup {m \in s.level : v.menu[m] \in s.from}
    BY <1>s, <2>a, SeenAfter
  <2>3. u.todo = <<"level", "menuUsers">>
    BY <1>1, <1>a, <2>1, JoinedPair DEF Following
  <2>4. n.level \subseteq n.ids /\ n.ids \subseteq Menus
    BY <1>5, <2>2
  <2>5. Rows(MenuRow, n.ids \ n.level) \subseteq t.held /\ Rows(MenuRow, n.level) \subseteq Locks(u)
    BY <1>2, <1>5, <2>2 DEF Rows
  <2>6. iso = RC => Kids(d, n.ids \ n.level) \subseteq n.ids
    BY <1>1, <1>5, <2>2 DEF Kids
  <2> QED
    BY <1>1, <2>3, <2>4, <2>5, <2>6 DEF MenuDeletion, n
<1>6. CASE /\ t.todo = <<"menuUsers">>
           /\ s.ids \subseteq Menus
           /\ Rows(MenuRow, s.ids) \subseteq t.held
           /\ iso = RC => Kids(d, s.ids) \subseteq s.ids
  <2>1. Head(t.todo) = "menuUsers" /\ Tail(t.todo) = <<>>
    BY <1>6
  <2>2. u.todo = <<>>
    BY <1>1, <2>1 DEF Following
  <2>a. n = SeenBefore("menuUsers", t.req, s, v) /\ "menuUsers" \in CallNames
    BY <1>1, <1>a, <2>1
  <2>3. n.ids = s.ids
    BY <1>2, <2>a, SeenAfter
  <2> QED
    BY <1>1, <1>6, <2>2, <2>3 DEF MenuDeletion, n
<1> QED
  BY <1>1, <1>2, <1>3, <1>4, <1>5, <1>6 DEF MenuDeletion, s

\* A transaction sees the tables, and at READ COMMITTED the committed rows.
LEMMA ViewOK ==
  ASSUME NEW p, TxOK(isolation, proc[p]), db \in Tables
  PROVE  View(p) \in Tables /\ (isolation = RC => View(p) = db)
  BY DEF View, TxOK

LEMMA ReadStep ==
  ASSUME Inv, UNCHANGED isolation, NEW p \in Procs, Read(p)
  PROVE  Inv'
<1>1. TxOK(isolation, proc[p]) /\ Facts(isolation, proc[p], db) /\ RowsOK(isolation, db)
  BY DEF Inv
<1>2. PICK t, v, n, u, snap :
        /\ t = proc[p] /\ v = View(p) /\ n = SeenBefore(Head(t.todo), t.req, t.seen, v)
        /\ snap = IF ~ ReadCommitted /\ PlainReads(Head(t.todo), t.req) THEN v ELSE t.snap
        /\ u = [t EXCEPT !.seen = n, !.want = Wanted(Head(t.todo), t.req, n, v),
                         !.todo = Following(Head(t.todo), n, Tail(t.todo)), !.snap = snap]
  OBVIOUS
<1>3. /\ v \in Tables /\ (isolation = RC => v = db)
      /\ snap \in Tables \cup {None} /\ (isolation = RC => snap = None)
  <2>0. db \in Tables /\ v = View(p)
    BY <1>1, <1>2 DEF RowsOK
  <2>1. v \in Tables /\ (isolation = RC => v = db)
    BY <1>1, <2>0, ViewOK
  <2> QED
    BY <1>1, <1>2, <2>1 DEF TxOK, ReadCommitted, RC
<1>4. /\ t.stage = "locking" /\ t.want = {} /\ t.todo # <<>> /\ UNCHANGED <<db, sessions>>
      /\ proc' = [proc EXCEPT ![p] = u]
  BY <1>2, <1>3 DEF Read
<1>5. /\ Whole(u) /\ u.req = t.req /\ u.stage = t.stage /\ u.held = t.held /\ u.snap = snap /\ u.seen = n
      /\ u.want = Wanted(Head(t.todo), t.req, n, v)
      /\ u.todo = Following(Head(t.todo), n, Tail(t.todo))
  <2>1. Whole(t)
    BY <1>1, <1>2 DEF TxOK, Whole
  <2> QED
    BY <1>2, <2>1 DEF Whole
<1>6. Reads(isolation, t, u, v, db)
  BY <1>1, <1>2, <1>3, <1>4, <1>5 DEF Reads
<1>7. TxOK(isolation, u) /\ Facts(isolation, u, db)
  BY <1>1, <1>6, ReadsLocked, ReadsRole, ReadsMenu DEF Facts
<1>8. \A q \in Procs \ {p} : proc[q].held \cap u.held = {}
  BY <1>2, <1>5 DEF Inv, Apart
<1> QED
  BY <1>4, <1>5, <1>7, <1>8, OneMoves

-----------------------------------------------------------------------------
(* The other steps of a transaction.                                       *)

LEMMA LockRowsStep ==
  ASSUME Inv, UNCHANGED isolation, NEW p \in Procs, LockRows(p)
  PROVE  Inv'
<1>1. TxOK(isolation, proc[p]) /\ Facts(isolation, proc[p], db) /\ db \in Tables
  BY DEF Inv, RowsOK
<1>2. PICK t, u : t = proc[p] /\ u = [t EXCEPT !.held = @ \cup t.want, !.want = {}]
  OBVIOUS
<1>3. /\ t.stage = "locking" /\ UNCHANGED <<db, sessions>> /\ proc' = [proc EXCEPT ![p] = u]
      /\ \A row \in t.want : Exists(db, row)
      /\ \A q \in Procs \ {p} : proc[q].held \cap t.want = {}
  <2>1. proc' = [proc EXCEPT ![p] = u]
    BY <1>1, <1>2 DEF LockRows, Inv, TxOK
  <2> QED
    BY <1>2, <2>1 DEF LockRows, Blockers
<1>4. /\ Whole(u) /\ u.req = t.req /\ u.stage = t.stage /\ u.todo = t.todo /\ u.want = {}
      /\ u.held = t.held \cup t.want /\ u.snap = t.snap /\ u.seen = t.seen
  <2>1. Whole(t)
    BY <1>1, <1>2 DEF TxOK, Whole
  <2> QED
    BY <1>2, <2>1 DEF Whole
<1>5. Locks(u) = Locks(t) /\ InTodo(u) = InTodo(t)
  BY <1>4 DEF Locks, InTodo
<1>f. Locked(isolation, t) /\ HeldExist(t, db) /\ RoleDeletion(isolation, t, db) /\ MenuDeletion(isolation, t, db)
  BY <1>1, <1>2, <1>3 DEF Facts
<1>6. TxOK(isolation, u)
  BY <1>1, <1>2, <1>3, <1>4, <1>5 DEF TxOK, Whole
<1>7. Locked(isolation, u)
  BY <1>4, <1>5, <1>f DEF Locked
<1>8. HeldExist(u, db)
  <2>1. ASSUME NEW i \in Users, UserRow(i) \in t.want PROVE db.user[i] \notin Missing
    BY <1>3, <2>1 DEF Exists, UserRow
  <2>2. ASSUME NEW i \in Roles, RoleRow(i) \in t.want PROVE db.role[i] \notin Missing
    BY <1>3, <2>2 DEF Exists, RoleRow
  <2>3. ASSUME NEW i \in Menus, MenuRow(i) \in t.want PROVE db.menu[i] \notin Missing
    BY <1>3, <2>3 DEF Exists, MenuRow
  <2> QED
    BY <1>4, <1>f, <2>1, <2>2, <2>3 DEF HeldExist
<1>9. RoleDeletion(isolation, u, db)
  BY <1>4, <1>f DEF RoleDeletion
<1>10. MenuDeletion(isolation, u, db)
  <2> SUFFICES ASSUME t.req.op = "MenuDelete" PROVE MenuDeletion(isolation, u, db)
    BY <1>4 DEF MenuDeletion
  <2>1. t.held \subseteq u.held /\ u.seen = t.seen /\ u.todo = t.todo /\ Locks(u) = Locks(t)
    BY <1>4, <1>5
  <2>2. \A ms : Rows(MenuRow, ms) \subseteq t.held => Rows(MenuRow, ms) \subseteq u.held
    BY <2>1
  <2> QED
    BY <1>f, <2>1, <2>2 DEF MenuDeletion
<1>11. Checked(isolation, u, db) /\ SignsIn(u, db)
  BY <1>3, <1>4 DEF Checked, SignsIn
<1>12. Facts(isolation, u, db)
  BY <1>7, <1>8, <1>9, <1>10, <1>11 DEF Facts
<1>13. \A q \in Procs \ {p} : proc[q].held \cap u.held = {}
  BY <1>2, <1>3, <1>4 DEF Inv, Apart
<1> QED
  BY <1>3, <1>4, <1>6, <1>12, <1>13, OneMoves

\* u is t with another stage, and another row read.
LEMMA FactsCarried ==
  ASSUME NEW iso, NEW t, NEW u, NEW d, Facts(iso, t, d), t.stage # "idle",
         u.req = t.req, u.todo = t.todo, u.want = t.want, u.held = t.held,
         u.seen.admins = t.seen.admins, u.seen.menus = t.seen.menus, u.seen.users = t.seen.users,
         u.seen.ids = t.seen.ids, u.seen.level = t.seen.level, u.seen.from = t.seen.from
  PROVE  Locked(iso, u) /\ HeldExist(u, d) /\ RoleDeletion(iso, u, d) /\ MenuDeletion(iso, u, d)
<1>1. Locks(u) = Locks(t) /\ InTodo(u) = InTodo(t)
  BY DEF Locks, InTodo
<1>2. Locked(iso, t) /\ HeldExist(t, d) /\ RoleDeletion(iso, t, d) /\ MenuDeletion(iso, t, d)
  BY DEF Facts
<1>3. Locked(iso, u) /\ HeldExist(u, d) /\ RoleDeletion(iso, u, d)
  BY <1>1, <1>2 DEF Locked, HeldExist, RoleDeletion
<1>4. MenuDeletion(iso, u, d)
  BY <1>1, <1>2 DEF MenuDeletion
<1> QED
  BY <1>3, <1>4

LEMMA KeepAdminLeavesOne ==
  ASSUME NEW d, RowsOK(RC, d), NEW us, KeepAdmin(d, us)
  PROVE  \E u \in Users \ us : AdminUser(d, u)
<1>1. CASE \A u \in us : ~ Enabled(d, u) \/ ~ IsAdmin(d, RoleIDs(d, u))
  <2>1. PICK u \in Users : AdminUser(d, u)
    BY DEF RowsOK, HasAdmin, AdminUser
  <2> QED
    BY <1>1, <2>1 DEF AdminUser
<1>2. CASE \E u \in Users \ us : Enabled(d, u) /\ \E r \in AdminRoles(d) : <<u, r>> \in d.userRole
  <2>1. PICK u \in Users \ us : Enabled(d, u) /\ \E r \in AdminRoles(d) : <<u, r>> \in d.userRole
    BY <1>2
  <2>2. PICK r \in AdminRoles(d) : <<u, r>> \in d.userRole
    BY <2>1
  <2>3. r \in All(d, "role")
    BY MarkAssumption DEF AdminRoles, All, RowsOK, Tables, Missing
  <2>4. IsAdmin(d, RoleIDs(d, u))
    BY <2>2, <2>3 DEF IsAdmin, RoleIDs
  <2> QED
    BY <2>1, <2>4 DEF AdminUser
<1> QED
  BY <1>1, <1>2 DEF KeepAdmin

LEMMA ValidRemoval ==
  ASSUME NEW q \in RequestForms \cup Logins, NEW s, NEW d, RowsOK(RC, d), Valid(q, s, d), Removes(q)
  PROVE  \/ q.op = "UserUpdate" /\ StaysAdmin(q, d)
         \/ \E u \in Users \ Victims(q, s) : AdminUser(d, u)
<1>1. CASE q.op = "UserUpdate"
  <2>1. AuthChanged(q) /\ Victims(q, s) = {q.user} /\ q.user \in Users
    BY <1>1, RequestFields DEF Removes, Victims
  <2>2. /\ RoleIDs(d, q.user) = s.roles
        /\ CheckAdmin(d, q.user, d.user[q.user],
                      IF q.status = Keep THEN d.user[q.user].status ELSE q.status,
                      s.roles, IF q.roles = Keep THEN s.roles ELSE q.roles)
    BY <1>1, <2>1 DEF Valid
  <2>3. CASE d.user[q.user].status # 1 \/ ~ IsAdmin(d, s.roles)
    <3>1. ~AdminUser(d, q.user)
      BY <2>2, <2>3 DEF AdminUser, Enabled
    <3>2. PICK u \in Users : AdminUser(d, u)
      BY DEF RowsOK, HasAdmin, AdminUser
    <3> QED
      BY <2>1, <3>1, <3>2
  <2>4. CASE /\ (IF q.status = Keep THEN d.user[q.user].status ELSE q.status) = 1
             /\ IsAdmin(d, IF q.roles = Keep THEN s.roles ELSE q.roles)
    BY <1>1, <2>2, <2>4 DEF StaysAdmin, Or
  <2>5. CASE KeepAdmin(d, {q.user})
    BY <2>1, <2>5, KeepAdminLeavesOne
  <2> QED
    BY <2>2, <2>3, <2>4, <2>5 DEF CheckAdmin
<1>2. CASE q.op = "UserDelete"
  <2>1. KeepAdmin(d, {q.user}) /\ Victims(q, s) = {q.user}
    BY <1>2 DEF Valid, Victims
  <2> QED
    BY <2>1, KeepAdminLeavesOne
<1>3. CASE q.op = "DeptDelete" /\ q.deleteUser
  <2>1. KeepAdmin(d, s.users) /\ Victims(q, s) = s.users
    BY <1>3 DEF Valid, Victims
  <2> QED
    BY <2>1, KeepAdminLeavesOne
<1> QED
  BY <1>1, <1>2, <1>3 DEF Removes

LEMMA CheckStep ==
  ASSUME Inv, UNCHANGED isolation, NEW p \in Procs, Check(p)
  PROVE  Inv'
<1>1. TxOK(isolation, proc[p]) /\ Facts(isolation, proc[p], db) /\ RowsOK(isolation, db) /\ db \in Tables
  BY DEF Inv, RowsOK
<1>2. PICK t, v, stage, row, u :
        /\ t = proc[p] /\ v = View(p) /\ stage = IF t.req.op \in {"Login", "Refresh"} THEN "session" ELSE "revoke"
        /\ row = IF t.req.op \in {"UserUpdate", "PersonUpdate"} THEN v.user[t.req.user] ELSE t.seen.row
        /\ u = [t EXCEPT !.stage = stage, !.seen.row = row]
  OBVIOUS
<1>3. v \in Tables /\ (isolation = RC => v = db)
  BY <1>1, <1>2, ViewOK
<1>4. /\ t.stage = "locking" /\ t.want = {} /\ t.todo = <<>> /\ Valid(t.req, t.seen, v)
      /\ UNCHANGED <<db, sessions>> /\ proc' = [proc EXCEPT ![p] = u]
  <2>1. proc' = [proc EXCEPT ![p] = u]
    BY <1>1, <1>2, <1>3 DEF Check, Inv, TxOK
  <2> QED
    BY <1>2, <1>3, <2>1 DEF Check
<1>5. /\ Whole(u) /\ u.req = t.req /\ u.stage = stage /\ u.todo = t.todo /\ u.want = t.want
      /\ u.held = t.held /\ u.snap = t.snap /\ u.seen = [t.seen EXCEPT !.row = row]
  <2>1. Whole(t)
    BY <1>1, <1>2 DEF TxOK, Whole
  <2> QED
    BY <1>2, <2>1 DEF Whole
<1>6. t.req \in RequestForms \cup Logins /\ SeenOK(t.seen)
  BY <1>1, <1>2, <1>4 DEF TxOK
<1>7. /\ u.seen.admins = t.seen.admins /\ u.seen.menus = t.seen.menus /\ u.seen.users = t.seen.users
      /\ u.seen.ids = t.seen.ids /\ u.seen.level = t.seen.level /\ u.seen.from = t.seen.from
      /\ u.seen.row = row
  BY <1>5, <1>6 DEF SeenOK
<1>8. /\ t.req.op \in {"UserUpdate", "PersonUpdate"} => row \in UserRecord
      /\ t.req.op = "DeptDelete" => row \in Depts \cup {None}
      /\ row \in UserRecord \cup Depts \cup {None} \cup Missing
  <2>1. ASSUME t.req.op \in {"UserUpdate", "PersonUpdate"} PROVE row \in UserRecord
    <3>1. t.req.user \in Users /\ Exists(v, UserRow(t.req.user)) /\ row = v.user[t.req.user]
      BY <1>2, <1>4, <1>6, <2>1, RequestFields DEF Valid
    <3>2. v.user[t.req.user] \notin Missing
      BY <3>1 DEF Exists, UserRow
    <3> QED
      BY <1>3, <3>1, <3>2, SMTT(40) DEF Tables, UserRecord
  <2>2. ASSUME t.req.op = "DeptDelete" PROVE row \in Depts \cup {None}
    <3>1. row = t.seen.row /\ t.seen.row \notin Missing
      BY <1>2, <1>4, <2>2 DEF Valid
    <3>2. t.seen.row \in Depts \cup {None} \cup Missing
      BY <1>1, <1>2, <1>4, <2>2 DEF TxOK
    <3> QED
      BY <3>1, <3>2
  <2>3. t.req.op \notin {"UserUpdate", "PersonUpdate"} => row \in UserRecord \cup Depts \cup {None} \cup Missing
    BY <1>2, <1>6 DEF SeenOK
  <2> QED
    BY <2>1, <2>2, <2>3
<1>9. TxOK(isolation, u)
  <2>1. SeenOK(u.seen)
    BY <1>5, <1>6, <1>8 DEF SeenOK
  <2>2. InTodo(u) = {}
    BY <1>4, <1>5 DEF InTodo
  <2>3. stage \in {"session", "revoke"} /\ (stage = "session" <=> t.req.op \in Signing)
    BY <1>2 DEF Signing
  <2>4. u.todo = <<>> /\ u.todo \in Seq(CallNames) /\ u.want = {} /\ u.req = t.req
    BY <1>4, <1>5
  <2>5. u.snap \in Tables \cup {None} /\ (isolation = RC => u.snap = None)
    BY <1>1, <1>2, <1>5 DEF TxOK
  <2>6. /\ u = [req |-> u.req, stage |-> u.stage, todo |-> u.todo, want |-> u.want,
                held |-> u.held, snap |-> u.snap, seen |-> u.seen]
        /\ u.stage = stage /\ u.req \in RequestForms \cup Logins
        /\ (u.req.op = "DeptDelete" => u.seen.row \in Depts \cup {None} \cup Missing)
    BY <1>5, <1>6, <1>7, <1>8 DEF Whole
  <2> QED
    BY <2>1, <2>2, <2>3, <2>4, <2>5, <2>6 DEF TxOK, Signing
<1>10. Checked(isolation, u, db)
  <2>0. u.stage \in {"session", "revoke"}
    BY <1>2, <1>5
  <2> SUFFICES ASSUME u.stage = "revoke" PROVE Checked(isolation, u, db)
    BY <2>0 DEF Checked
  <2>1. isolation = RC /\ Removes(t.req) =>
          \/ t.req.op = "UserUpdate" /\ StaysAdmin(t.req, db)
          \/ \E x \in Users \ Victims(t.req, t.seen) : AdminUser(db, x)
    BY <1>1, <1>3, <1>4, <1>6, ValidRemoval
  <2>2. Victims(t.req, t.seen) = Victims(u.req, u.seen)
    BY <1>5, <1>7 DEF Victims
  <2>3. isolation = RC /\ t.req.op = "RoleUpdate" =>
          (db.role[t.req.role] = "admin" => t.req.label \in {Keep, "admin"})
    BY <1>3, <1>4 DEF Valid
  <2>4. isolation = RC /\ t.req.op = "RoleDelete" => db.role[t.req.role] # "admin"
    BY <1>3, <1>4 DEF Valid
  <2> QED
    BY <1>5, <1>7, <1>8, <2>1, <2>2, <2>3, <2>4, SMTT(40) DEF Checked
<1>11. SignsIn(u, db)
  <2>1. t.req.op \in {"Login", "Refresh"} => Enabled(db, t.req.user)
    BY <1>4 DEF Valid
  <2> QED
    BY <1>2, <1>5, <2>1 DEF SignsIn
<1>12. Facts(isolation, u, db)
  <2>1. Facts(isolation, t, db) /\ t.stage # "idle"
    BY <1>1, <1>2, <1>4
  <2> QED
    BY <1>5, <1>7, <1>10, <1>11, <2>1, FactsCarried DEF Facts
<1>13. \A q \in Procs \ {p} : proc[q].held \cap u.held = {}
  BY <1>2, <1>5 DEF Inv, Apart
<1>14. u.stage # "commit"
  BY <1>2, <1>5
<1> QED
  BY <1>4, <1>9, <1>12, <1>13, <1>14, OneMoves

\* A transaction about to commit holds the rows of the users it has revoked.
LEMMA RevokedHeld ==
  ASSUME NEW iso, NEW t, NEW d, TxOK(iso, t), Facts(iso, t, d), t.stage = "commit", t.req.op \notin Signing,
         NEW u \in Revoked(t.req, t.seen)
  PROVE  UserRow(u) \in t.held
<1>1. /\ t.todo = <<>> /\ t.want = {} /\ Locked(iso, t) /\ Rows(UserRow, t.seen.users) \subseteq t.held
      /\ t.req \in RequestForms \cup Logins
  BY DEF TxOK, Facts, Locked, Locks
<1>2. CASE t.req.op \in {"UserUpdate", "UserDelete", "UserMove", "PersonUpdate"}
  <2>1. u = t.req.user
    BY <1>2 DEF Revoked
  <2>2. "user" \in Calls(t.req) /\ CallRows("user", t.req) = {UserRow(t.req.user)}
    BY <1>2 DEF Calls, CallRows
  <2> QED
    BY <1>1, <2>1, <2>2, CallHeld
<1>3. CASE t.req.op \notin {"UserUpdate", "UserDelete", "UserMove", "PersonUpdate"}
  <2>1. u \in t.seen.users
    BY <1>3 DEF Revoked
  <2> QED
    BY <1>1, <2>1 DEF Rows
<1> QED
  BY <1>2, <1>3

\* t becomes ready to commit.
LEMMA ReadyStep ==
  ASSUME NEW iso, NEW t, NEW u, NEW d, TxOK(iso, t), Facts(iso, t, d), t.stage \in {"revoke", "session"},
         u = [t EXCEPT !.stage = "commit"]
  PROVE  /\ TxOK(iso, u) /\ Facts(iso, u, d)
         /\ u.stage = "commit" /\ u.req = t.req /\ u.held = t.held /\ u.seen = t.seen
<1>1. /\ Whole(u) /\ u.req = t.req /\ u.stage = "commit" /\ u.todo = t.todo /\ u.want = t.want
      /\ u.held = t.held /\ u.snap = t.snap /\ u.seen = t.seen
  <2>1. Whole(t)
    BY DEF TxOK, Whole
  <2> QED
    BY <2>1 DEF Whole
<1>2. TxOK(iso, u)
  <2>1. InTodo(u) = InTodo(t)
    BY <1>1 DEF InTodo
  <2> QED
    BY <1>1, <2>1 DEF TxOK, Whole
<1>3. Checked(iso, u, d)
  <2>1. CASE t.stage = "revoke"
    BY <1>1, <2>1 DEF Facts, Checked
  <2>2. CASE t.stage = "session"
    <3>1. t.req.op \in {"Login", "Refresh"}
      BY <2>2 DEF TxOK, Signing
    <3> QED
      BY <1>1, <3>1 DEF Checked, Removes
  <2> QED
    BY <2>1, <2>2
<1>4. SignsIn(u, d)
  BY <1>1 DEF SignsIn
<1>5. Locked(iso, u) /\ HeldExist(u, d) /\ RoleDeletion(iso, u, d) /\ MenuDeletion(iso, u, d)
  BY <1>1, FactsCarried
<1> QED
  BY <1>1, <1>2, <1>3, <1>4, <1>5 DEF Facts

LEMMA RevokeStep ==
  ASSUME Inv, UNCHANGED isolation, NEW p \in Procs, Revoke(p)
  PROVE  Inv'
<1>1. PICK t, u : t = proc[p] /\ u = [t EXCEPT !.stage = "commit"]
  OBVIOUS
<1>2. TxOK(isolation, t) /\ Facts(isolation, t, db) /\ t.stage = "revoke" /\ UNCHANGED db
  BY <1>1 DEF Inv, Revoke
<1>3. /\ TxOK(isolation, u) /\ Facts(isolation, u, db)
      /\ u.stage = "commit" /\ u.req = t.req /\ u.held = t.held /\ u.seen = t.seen
  BY <1>1, <1>2, ReadyStep
<1>4. /\ sessions' = {s \in sessions : s.user \notin Revoked(t.req, t.seen)}
      /\ proc' = [proc EXCEPT ![p] = u]
  BY <1>1 DEF Revoke, Inv
<1>5. \A q \in Procs \ {p} : proc[q].held \cap u.held = {}
  BY <1>1, <1>3 DEF Inv, Apart
<1> QED
  BY <1>2, <1>3, <1>4, <1>5, OneMoves

LEMMA NewSessionCurrent ==
  ASSUME db \in Tables, NEW u \in Users, Enabled(db, u), NEW sid \in SessionIds, NEW token \in Nat
  PROVE  Current(isolation, NewSession(u, sid, token), db) /\ NewSession(u, sid, token).user = u
<1>1. db.user[u].pv \in Nat /\ RoleIDs(db, u) \subseteq Roles
  BY DEF Enabled, All, RoleIDs, Tables
<1> QED
  BY <1>1 DEF Current, NewSession, Session

LEMMA SaveSessionStep ==
  ASSUME Inv, UNCHANGED isolation, NEW p \in Procs, SaveSession(p)
  PROVE  Inv'
<1>1. PICK t, u : t = proc[p] /\ u = [t EXCEPT !.stage = "commit"]
  OBVIOUS
<1>2. TxOK(isolation, t) /\ Facts(isolation, t, db) /\ t.stage = "session" /\ UNCHANGED db /\ db \in Tables
  BY <1>1 DEF Inv, RowsOK, SaveSession
<1>3. /\ TxOK(isolation, u) /\ Facts(isolation, u, db)
      /\ u.stage = "commit" /\ u.req = t.req /\ u.held = t.held /\ u.seen = t.seen
  BY <1>1, <1>2, ReadyStep
<1>4. proc' = [proc EXCEPT ![p] = u]
  BY <1>1 DEF SaveSession, Inv
<1>5. \A q \in Procs \ {p} : proc[q].held \cap u.held = {}
  BY <1>1, <1>3 DEF Inv, Apart
<1>6. /\ t.req.op \in {"Login", "Refresh"} /\ t.req.user \in Users /\ Enabled(db, t.req.user)
      /\ t.todo = <<>> /\ t.want = {} /\ Locked(isolation, t)
  <2>1. t.req.op \in {"Login", "Refresh"} /\ t.req \in RequestForms \cup Logins /\ t.todo = <<>> /\ t.want = {}
    BY <1>2 DEF TxOK, Signing
  <2>2. Enabled(db, t.req.user) /\ Locked(isolation, t)
    BY <1>2 DEF Facts, SignsIn
  <2> QED
    BY <2>1, <2>2, RequestFields
<1>7. UserRow(t.req.user) \in t.held
  <2>1. "user" \in Calls(t.req) /\ CallRows("user", t.req) = {UserRow(t.req.user)}
    BY <1>6 DEF Calls, CallRows
  <2> QED
    BY <1>2, <1>6, <2>1, CallHeld
<1>8. \A s \in sessions' \ sessions : Current(isolation, s, db) /\ s.user = t.req.user
  <2>1. CASE t.req.op = "Login"
    <3>1. PICK sid \in SessionIds : sessions' = sessions \cup {NewSession(t.req.user, sid, 0)}
      BY <1>1, <2>1 DEF SaveSession
    <3> QED
      BY <1>2, <1>6, <3>1, NewSessionCurrent
  <2>2. CASE t.req.op = "Refresh"
    <3>1. \A s \in sessions' \ sessions :
            /\ t.seen.session \in sessions
            /\ s = NewSession(t.req.user, t.seen.session.id, t.seen.session.token + 1)
      BY <1>1, <2>2 DEF SaveSession
    <3>2. t.seen.session \in sessions => t.seen.session.id \in SessionIds /\ t.seen.session.token \in Nat
      BY DEF Inv, Current, Session
    <3>3. t.seen.session \in sessions => t.seen.session.token + 1 \in Nat
      BY <3>2
    <3> QED
      BY <1>2, <1>6, <3>1, <3>2, <3>3, NewSessionCurrent
  <2> QED
    BY <1>6, <2>1, <2>2
<1>9. ASSUME NEW q \in Procs \ {p}, proc[q].stage = "commit", proc[q].req.op \notin Signing
      PROVE  t.req.user \notin Revoked(proc[q].req, proc[q].seen)
  <2>1. TxOK(isolation, proc[q]) /\ Facts(isolation, proc[q], db) /\ proc[q].held \cap t.held = {}
    BY <1>1 DEF Inv, Apart
  <2> QED
    BY <1>7, <1>9, <2>1, RevokedHeld
<1>10. u.req.op \in Signing
  BY <1>3, <1>6 DEF Signing
<1> QED
  BY <1>2, <1>3, <1>4, <1>5, <1>8, <1>9, <1>10, OneMoves

LEMMA CommitStep ==
  ASSUME Inv, UNCHANGED isolation, NEW p \in Procs, Commit(p)
  PROVE  Inv'
<1>1. PICK t, d, e : t = proc[p] /\ d = db /\ e = Effect(t.req, t.seen, d)
  OBVIOUS
<1>2. /\ t.stage = "commit" /\ CanInsert(t.req) /\ db' = e /\ sessions' = sessions
      /\ proc' = [proc EXCEPT ![p] = Idle]
  BY <1>1 DEF Commit, Finish
<1>3. Committing(isolation, t, d)
  BY <1>1, <1>2 DEF Inv, Committing
<1>4. Keeps(isolation, t, d, e)
  <2>1. /\ t.req.op = "UserAdd" => d.user[t.req.user] = Absent
        /\ t.req.op = "RoleAdd" => d.role[t.req.role] = Absent
        /\ t.req.op \in {"MenuAdd", "MenuImport"} => \A m \in DOMAIN t.req.parents : d.menu[m] = Absent
    BY <1>1, <1>2 DEF CanInsert
  <2> QED
    BY <1>1, <1>3, <2>1, EffectKeeps
<1>5. RowsOK(isolation, d) /\ d \in Tables /\ RowsOK(isolation, e) /\ e \in Tables /\ Changes(isolation, t.held, d, e)
  BY <1>3, <1>4 DEF Committing, Keeps, Changes, RowsOK
<1>6. proc'[p] = Idle /\ \A q \in Procs \ {p} : proc'[q] = proc[q]
  BY <1>2 DEF Inv
<1>7. proc' = [q \in Procs |-> proc'[q]]
  BY <1>2 DEF Inv
<1>8. ASSUME NEW q \in Procs PROVE TxOK(isolation, proc'[q]) /\ Facts(isolation, proc'[q], e)
  <2>1. CASE q = p
    BY <1>6, <2>1, IdleOK
  <2>2. CASE q # p
    <3>1. TxOK(isolation, proc[q]) /\ Facts(isolation, proc[q], d) /\ t.held \cap proc[q].held = {}
      BY <1>1, <2>2 DEF Inv, Apart
    <3> QED
      BY <1>5, <1>6, <2>2, <3>1, OthersKeep
  <2> QED
    BY <2>1, <2>2
<1>9. Apart'
  BY <1>6, IdleOK DEF Inv, Apart
<1>10. ASSUME NEW s \in sessions PROVE Current(isolation, s, e)
  <2>1. Current(isolation, s, d)
    BY <1>1 DEF Inv
  <2>2. CASE t.req.op \in Signing
    <3>1. e = d
      BY <1>1, <2>2 DEF Effect, Signing
    <3> QED
      BY <2>1, <3>1
  <2>3. CASE t.req.op \notin Signing
    <3>1. s.user \notin Revoked(t.req, t.seen)
      BY <1>1, <1>2, <2>3 DEF Inv, RevokedAreOut
    <3>2. s.user \in Users /\ d.user[s.user] \notin Missing
      BY <2>1 DEF Current, Session, Enabled, All
    <3>3. KeepsUser(d, e, s.user) /\ (isolation = RC => RoleIDs(e, s.user) = RoleIDs(d, s.user))
      BY <1>4, <3>1, <3>2 DEF Keeps, Spares
    <3>4. Enabled(e, s.user) /\ e.user[s.user].pv = d.user[s.user].pv
      BY <1>5, <2>1, <3>2, <3>3 DEF Current, Enabled, All, KeepsUser, Tables
    <3> QED
      BY <2>1, <3>3, <3>4 DEF Current
  <2> QED
    BY <2>2, <2>3
<1>11. RevokedAreOut'
  BY <1>2, <1>6, IdleOK DEF Inv, RevokedAreOut
<1> QED
  BY <1>2, <1>5, <1>7, <1>8, <1>9, <1>10, <1>11 DEF Inv

LEMMA Quiet ==
  ASSUME Inv, UNCHANGED <<isolation, db, proc>>, sessions' \subseteq sessions
  PROVE  Inv'
<1>1. RowsOK(isolation, db') /\ proc' = [p \in Procs |-> proc'[p]]
  BY DEF Inv
<1>2. \A p \in Procs : TxOK(isolation, proc'[p]) /\ Facts(isolation, proc'[p], db')
  BY DEF Inv
<1>3. Apart' /\ RevokedAreOut' /\ \A s \in sessions' : Current(isolation, s, db')
  BY DEF Inv, Apart, RevokedAreOut
<1> QED
  BY <1>1, <1>2, <1>3 DEF Inv

-----------------------------------------------------------------------------
(* The theorems.                                                           *)

LEMMA InvInit == Init => Inv
<1> SUFFICES ASSUME Init PROVE Inv
  OBVIOUS
<1>1. RowsOK(isolation, db)
  BY InitAssumption DEF Init, RowsOK
<1>2. \A p \in Procs : proc[p] = Idle
  BY DEF Init
<1>3. \A p \in Procs : TxOK(isolation, proc[p]) /\ Facts(isolation, proc[p], db)
  BY <1>2, IdleOK
<1>4. Apart /\ RevokedAreOut
  BY <1>2, IdleOK DEF Apart, RevokedAreOut
<1>5. \A s \in sessions : Current(isolation, s, db)
  <2>1. PICK u \in Users, sid \in SessionIds : Enabled(db, u) /\ sessions = {NewSession(u, sid, 0)}
    BY DEF Init
  <2> QED
    BY <1>1, <2>1, NewSessionCurrent DEF RowsOK
<1> QED
  BY <1>1, <1>2, <1>3, <1>4, <1>5 DEF Inv, Init

LEMMA InvNext == Inv /\ [Next]_vars => Inv'
<1> SUFFICES ASSUME Inv, [Next]_vars PROVE Inv'
  OBVIOUS
<1>u. UNCHANGED isolation
  BY DEF Next, vars
<1>1. ASSUME NEW p \in Procs, Begin(p) PROVE Inv'
  BY <1>u, <1>1, BeginStep
<1>2. ASSUME NEW p \in Procs, Read(p) PROVE Inv'
  BY <1>u, <1>2, ReadStep
<1>3. ASSUME NEW p \in Procs, LockRows(p) PROVE Inv'
  BY <1>u, <1>3, LockRowsStep
<1>4. ASSUME NEW p \in Procs, LockFails(p) \/ Deadlock(p) \/ Rollback(p) PROVE Inv'
  BY <1>u, <1>4, FinishStep DEF LockFails, Deadlock, Rollback
<1>5. ASSUME NEW p \in Procs, Check(p) PROVE Inv'
  BY <1>u, <1>5, CheckStep
<1>6. ASSUME NEW p \in Procs, Revoke(p) PROVE Inv'
  BY <1>u, <1>6, RevokeStep
<1>7. ASSUME NEW p \in Procs, SaveSession(p) PROVE Inv'
  BY <1>u, <1>7, SaveSessionStep
<1>8. ASSUME NEW p \in Procs, Commit(p) PROVE Inv'
  BY <1>u, <1>8, CommitStep
<1>9. CASE Logout
  BY <1>u, <1>9, Quiet DEF Logout
<1>10. CASE UNCHANGED vars
  BY <1>10, Quiet DEF vars
<1> QED
  BY <1>1, <1>2, <1>3, <1>4, <1>5, <1>6, <1>7, <1>8, <1>9, <1>10 DEF Next

\* What every transaction has locked, and at READ COMMITTED what it has read,
\* still describes the committed rows until it commits: the invariant the other
\* theorems rest on, for both isolation levels.
THEOREM Safety == Spec => []Inv
<1>1. Inv /\ [Next]_vars => Inv'
  BY InvNext
<1> QED
  BY <1>1, InvInit, PTL DEF Spec

\* The tables keep their columns' types, and no row is locked twice, at either
\* isolation level.
THEOREM TypeCorrect == Spec => []TypeOK
<1>1. Inv => TypeOK
  BY DEF Inv, TypeOK, RowsOK, Apart, Current, Session
<1> QED
  BY <1>1, Safety, PTL

\* At READ COMMITTED, however many requests disable, demote or delete
\* administrators at the same time, an enabled administrator remains (checkAdmin
\* and keepAdmin, which run with every admin role locked).
THEOREM AdminStays == Spec => []AnAdminRemains
<1>1. Inv => AnAdminRemains
  BY DEF Inv, AnAdminRemains, LastAdminIsProtected, RowsOK, ReadCommitted, RC
<1> QED
  BY <1>1, Safety, PTL

\* At either level no session outlives its user's status or password version,
\* and at READ COMMITTED none outlives a change of the user's roles, whichever
\* way logins and refreshes interleave with revocations (RevokeUsers before the
\* commit, under the lock of the user's row that a login takes too).
THEOREM SessionsCurrent == Spec => []SessionsAreCurrent
<1>1. Inv => SessionsAreCurrent
  BY DEF Inv, SessionsAreCurrent, AccountIsCurrent, RolesAreCurrent, Current, ReadCommitted, RC
<1> QED
  BY <1>1, Safety, PTL

\* Without foreign keys, no relation of users, roles and menus names a row that
\* is not there, at either level, and no menu's parent does at READ COMMITTED
\* (the lock calls of the user, role and menu services).
THEOREM GrantsKept == Spec => []GrantsExist
<1>1. Inv => GrantsExist
  BY DEF Inv, GrantsExist, ParentsAlwaysExist, RowsOK, ReadCommitted, RC
<1> QED
  BY <1>1, Safety, PTL
=============================================================================
