----------------------------- MODULE Authority -----------------------------
(***************************************************************************)
(* The administration of users, roles, menus and departments              *)
(* (modules/base/service) together with login, refresh and logout.        *)
(*                                                                         *)
(* Every operation runs in one database transaction: it locks rows table   *)
(* by table, reads what it has to validate, revokes the sessions of the    *)
(* users concerned while it still holds their rows, and commits.  Rows are *)
(* not protected by foreign keys: the order of locks, reads and writes is  *)
(* all that keeps the relations consistent.                                *)
(*                                                                         *)
(* tx.Runner.Within begins transactions without naming an isolation level, *)
(* so the database's default decides what a plain read sees: the last      *)
(* committed rows (PostgreSQL, READ COMMITTED) or the rows as they were at *)
(* the transaction's first plain read (MySQL, REPEATABLE READ, the         *)
(* database of the shipped configuration).  A row lock always refers to    *)
(* the current row, and so do the statements that write.  SQLite, which    *)
(* has one writer at a time, is left out.                                  *)
(*                                                                         *)
(* One LockRows call takes its rows at once: inside a call they are taken  *)
(* in ascending order, so no two calls on one table can block each other   *)
(* halfway.                                                                *)
(***************************************************************************)
EXTENDS Naturals, Sequences, FiniteSets

CONSTANTS
  Users, Roles, Menus, Depts,   \* ids, the ones of future rows included
  Procs,                        \* requests being served at the same time
  Requests,                     \* the requests clients may send
  InitDB,                       \* the stored rows
  SessionIds,                   \* session identifiers
  Isolations,                   \* isolation levels of the databases behind the project
  None,                         \* no parent, no department, no request
  Keep,                         \* a field the request does not submit
  Absent, Gone,                 \* a row not inserted yet, a deleted row
  MaxRequests                   \* how many requests are sent

ASSUME AuthorityAssumption ==
  /\ Isolations \subseteq {"READ COMMITTED", "REPEATABLE READ"}
  /\ MaxRequests \in Nat
  /\ IsFiniteSet(SessionIds)

VARIABLES
  isolation,  \* the database's isolation level
  db,         \* committed rows
  sessions,   \* live sessions in the session store
  proc,       \* the transaction each process is in
  requests    \* requests sent so far

vars == <<isolation, db, sessions, proc, requests>>

ReadCommitted == isolation = "READ COMMITTED"

(***************************************************************************)
(* Rows.  The identifiers of deleted rows are not used again.              *)
(***************************************************************************)
Missing == {Absent, Gone}

\* The rows of the four tables that have locks, and the three relations.
Tables ==
  [user: [Users -> [status: {0, 1}, pv: Nat, dept: Depts \cup {None}] \cup Missing],
   role: [Roles -> {"plain", "admin"} \cup Missing],
   menu: [Menus -> Menus \cup {None} \cup Missing],
   dept: [Depts -> Depts \cup {None} \cup Missing],
   userRole: SUBSET (Users \X Roles),
   roleMenu: SUBSET (Roles \X Menus),
   roleDept: SUBSET (Roles \X Depts)]

\* What a request says about several menus: one value for each of them.
PerMenu(values) == UNION {[ms -> values] : ms \in (SUBSET Menus) \ {{}}}

\* The fields a request may submit.  Keep stands for one it leaves out.  Menus
\* are added, updated and deleted in batches; an import brings a whole tree,
\* whose parents are among the rows it inserts.
RequestForms ==
  [op: {"UserAdd"}, user: Users, roles: SUBSET Roles, dept: {None} \cup Depts]
  \cup [op: {"UserUpdate"}, user: Users, status: {Keep, 0, 1}, roles: {Keep} \cup SUBSET Roles,
        password: BOOLEAN, dept: {Keep, None} \cup Depts]
  \cup [op: {"UserDelete"}, user: Users]
  \cup [op: {"UserMove"}, user: Users, dept: Depts]
  \cup [op: {"PersonUpdate"}, user: Users, password: BOOLEAN]
  \cup [op: {"RoleAdd"}, role: Roles, menus: SUBSET Menus, depts: SUBSET Depts]
  \cup [op: {"RoleUpdate"}, role: Roles, menus: {Keep} \cup SUBSET Menus,
        depts: {Keep} \cup SUBSET Depts, label: {Keep, "plain", "admin"}]
  \cup [op: {"RoleDelete"}, role: Roles]
  \cup [op: {"MenuAdd"}, parents: PerMenu({None} \cup Menus)]
  \cup [op: {"MenuUpdate"}, parents: PerMenu({Keep, None} \cup Menus)]
  \cup [op: {"MenuDelete"}, menus: SUBSET Menus]
  \cup [op: {"MenuImport"}, parents: {tree \in PerMenu({None} \cup Menus) :
                                       \A m \in DOMAIN tree : tree[m] \in DOMAIN tree \cup {None}}]
  \cup [op: {"DeptAdd"}, dept: Depts, parent: {None} \cup Depts]
  \cup [op: {"DeptUpdate"}, dept: Depts, parent: {Keep, None} \cup Depts]
  \cup [op: {"DeptDelete"}, dept: Depts, deleteUser: BOOLEAN]

ASSUME RequestAssumption == Requests \subseteq RequestForms

\* The marks are no values of the columns they stand in for.
ASSUME MarkAssumption ==
  /\ None \notin Menus \cup Depts
  /\ Keep \notin {0, 1, None, "plain", "admin"} \cup Menus \cup Depts
  /\ \A ids \in (SUBSET Roles) \cup (SUBSET Menus) \cup (SUBSET Depts) : Keep # ids
  /\ Absent # Gone
  /\ Missing \cap ({None, "plain", "admin"} \cup Menus \cup Depts) = {}
  /\ \A mark \in Missing : mark \notin [status: {0, 1}, pv: Nat, dept: Depts \cup {None}]

UserRow(u) == <<"user", u>>
RoleRow(r) == <<"role", r>>
MenuRow(m) == <<"menu", m>>
DeptRow(d) == <<"dept", d>>
Rows(Row(_), ids) == {Row(i) : i \in ids}
Exists(d, row) == d[row[1]][row[2]] \notin Missing
All(d, table) == {i \in DOMAIN d[table] : d[table][i] \notin Missing}

Enabled(d, u) == u \in All(d, "user") /\ d.user[u].status = 1

\* RoleIDs joins the roles: relations to a missing role are not seen.
RoleIDs(d, u) == {r \in All(d, "role") : <<u, r>> \in d.userRole}
AdminRoles(d) == {r \in Roles : d.role[r] = "admin"}
IsAdmin(d, roles) == roles \cap AdminRoles(d) # {}
RoleMenus(d, r) == {m \in Menus : <<r, m>> \in d.roleMenu}
RoleDepts(d, r) == {x \in Depts : <<r, x>> \in d.roleDept}
RoleUsers(d, r) == {u \in Users : <<u, r>> \in d.userRole}
MenuUsers(d, ms) ==
  {u \in Users : \E r \in Roles, m \in ms :
                    <<u, r>> \in d.userRole /\ <<r, m>> \in d.roleMenu}
DeptUsers(d, ds) == {u \in All(d, "user") : d.user[u].dept \in ds}

\* Some enabled user has a role labelled admin.
HasAdmin(d) == \E u \in Users : Enabled(d, u) /\ IsAdmin(d, RoleIDs(d, u))

\* Relations name rows that exist, and so do the menus' parents.
Grants(d) ==
  /\ \A pair \in d.userRole : pair[1] \in All(d, "user") /\ pair[2] \in All(d, "role")
  /\ \A pair \in d.roleMenu : pair[1] \in All(d, "role") /\ pair[2] \in All(d, "menu")
Parents(d) == \A m \in All(d, "menu") : d.menu[m] # None => d.menu[m] \in All(d, "menu")

\* The seeds and the first administrator are in the tables.
ASSUME InitAssumption ==
  InitDB \in Tables /\ HasAdmin(InitDB) /\ Grants(InitDB) /\ Parents(InitDB)

\* Mutant of KeepAdmin: the users that go are counted among those that remain.
KeepAdminWithThem(d, us) == HasAdmin(d)

\* Some enabled user outside us still has an admin role, or none of us was one.
KeepAdmin(d, us) ==
  \/ \A u \in us : ~ Enabled(d, u) \/ ~ IsAdmin(d, RoleIDs(d, u))
  \/ \E u \in Users \ us : Enabled(d, u) /\ \E r \in AdminRoles(d) : <<u, r>> \in d.userRole

CheckAdmin(d, u, row, nextStatus, oldRoles, newRoles) ==
  \/ row.status # 1
  \/ ~ IsAdmin(d, oldRoles)
  \/ nextStatus = 1 /\ IsAdmin(d, newRoles)
  \/ KeepAdmin(d, {u})

(***************************************************************************)
(* Trees.  Up(parent, i, n) is what n steps towards the root lead to.      *)
(***************************************************************************)
Up(parent, i, n) ==
  LET at[k \in 0..n] ==
        IF k = 0 THEN i
        ELSE IF at[k-1] \notin DOMAIN parent THEN None ELSE parent[at[k-1]]
  IN at[n]

Ancestors(parent, i) == {Up(parent, i, n) : n \in 1..Cardinality(DOMAIN parent)}
Acyclic(parent) == \A i \in DOMAIN parent : i \notin Ancestors(parent, i)

Or(submitted, stored) == IF submitted = Keep THEN stored ELSE submitted

\* The menus with the parents a request gives to some of them.
Moved(menu, parents) ==
  [m \in Menus |-> IF m \in DOMAIN parents THEN Or(parents[m], menu[m]) ELSE menu[m]]
MovedMenus(parents) == {m \in DOMAIN parents : parents[m] # Keep}

\* Mutant of CheckParents: only the menu itself is refused as its parent.
CheckParentsDirect(d, parents) == \A m \in DOMAIN parents : parents[m] # m

\* checkParents: both ends of every change exist and no changed menu leads
\* into a cycle of the changed tree.
CheckParents(d, parents) ==
  LET tree == Moved(d.menu, parents) IN
  \A m \in MovedMenus(parents) :
    /\ m \in All(d, "menu")
    /\ parents[m] # None => parents[m] \in All(d, "menu")
    /\ \A i \in Menus \cap ({m} \cup Ancestors(tree, m)) : i \notin Ancestors(tree, i)

\* buildDeptTrees: the departments a deletion takes with it.  A department on a
\* cycle counts as having a selected ancestor, itself: it yields no tree.
DeptTree(d, root) ==
  IF root \in Ancestors(d.dept, root) THEN {}
  ELSE {i \in All(d, "dept") : i = root \/ root \in Ancestors(d.dept, i)}

(***************************************************************************)
(* A transaction.  todo lists the lock calls still to come, want the rows  *)
(* of the one it is waiting in, seen what it has read and will rely on.    *)
(***************************************************************************)
Nothing == [admins |-> {}, roles |-> {}, menus |-> {}, depts |-> {}, ids |-> {}, level |-> {},
            from |-> {}, users |-> {}, row |-> None, session |-> None]

Idle == [req |-> None, stage |-> "idle", todo |-> <<>>, want |-> {}, held |-> {},
         snap |-> None, seen |-> Nothing]

Given(x) == IF x = Keep THEN {} ELSE IF x = None THEN {} ELSE {x}
GivenParents(q) == UNION {Given(q.parents[m]) : m \in DOMAIN q.parents}
AuthChanged(q) == q.status # Keep \/ q.roles # Keep
GrantsGiven(q) == q.menus # Keep \/ q.depts # Keep

\* The lock calls of each operation in the order of the code.
LockCalls(q) ==
  CASE q.op = "UserAdd" -> <<"roles", "dept">>
    [] q.op = "UserUpdate" ->
         (IF AuthChanged(q) THEN <<"adminRoles", "involved">> ELSE <<>>) \o <<"dept", "user">>
    [] q.op = "UserDelete" -> <<"adminRoles", "involved", "user">>
    [] q.op = "UserMove" -> <<"dept", "user">>
    [] q.op = "PersonUpdate" -> <<"user">>
    [] q.op = "RoleAdd" -> <<"menus", "depts">>
    [] q.op = "RoleUpdate" ->
         (IF GrantsGiven(q) THEN <<"menus", "depts">> ELSE <<>>) \o <<"role", "roleUsers">>
    [] q.op = "RoleDelete" -> <<"menus", "depts", "role", "roleUsers">>
    [] q.op = "MenuAdd" -> <<"parent">>
    [] q.op = "MenuUpdate" -> <<"menuAndParents", "menuUsers">>
    [] q.op = "MenuDelete" -> <<"menuRoots", "level", "menuUsers">>
    [] q.op = "MenuImport" -> <<>>
    [] q.op \in {"DeptAdd", "DeptUpdate"} -> <<"deptAndParent">>
    [] q.op = "DeptDelete" ->
         (IF q.deleteUser THEN <<"adminRoles">> ELSE <<>>) \o <<"allDepts", "deptUsers">>
    [] q.op \in {"Login", "Refresh"} -> <<"user">>

\* Whether plain reads come before a lock call.
PlainReads(call, q) ==
  \/ call \in {"adminRoles", "involved", "level", "relevel", "roleUsers", "menuUsers",
               "allDepts", "deptUsers"}
  \/ call = "menus" /\ q.op = "RoleDelete"
  \/ call = "menus" /\ q.op = "RoleUpdate" /\ Keep \in {q.menus, q.depts}
  \/ call = "menuAndParents" /\ MovedMenus(q.parents) # {}

View(p) == IF proc[p].snap = None THEN db ELSE proc[p].snap

\* What the plain reads before a lock call add to seen.
SeenBefore(call, q, s, d) ==
  CASE call = "adminRoles" -> [s EXCEPT !.admins = AdminRoles(d)]
    [] call = "involved" -> [s EXCEPT !.roles = RoleIDs(d, q.user)]
    [] call = "menus" /\ q.op # "RoleAdd" ->
         [s EXCEPT
            !.menus = IF q.op = "RoleUpdate" /\ q.menus # Keep THEN q.menus
                      ELSE RoleMenus(d, q.role),
            !.depts = IF q.op = "RoleUpdate" /\ q.depts # Keep THEN q.depts
                      ELSE RoleDepts(d, q.role)]
    [] call = "menus" /\ q.op = "RoleAdd" -> [s EXCEPT !.menus = q.menus, !.depts = q.depts]
    [] call = "menuRoots" -> [s EXCEPT !.ids = q.menus, !.level = q.menus]
    [] call = "level" ->
         [s EXCEPT !.from = s.level,
                   !.level = {m \in All(d, "menu") : d.menu[m] \in s.level} \ s.ids]
    [] call = "relevel" ->   \* read again once locked: children that moved away are dropped
         [s EXCEPT !.level = {m \in s.level : d.menu[m] \in s.from},
                   !.ids = @ \cup {m \in s.level : d.menu[m] \in s.from}]
    [] call = "roleUsers" -> [s EXCEPT !.users = RoleUsers(d, q.role)]
    [] call = "menuUsers" ->
         [s EXCEPT !.users = MenuUsers(d, IF q.op = "MenuDelete" THEN s.ids ELSE DOMAIN q.parents)]
    [] call = "deptUsers" ->
         [s EXCEPT !.ids = DeptTree(d, q.dept),
                   !.users = DeptUsers(d, DeptTree(d, q.dept)),
                   !.row = d.dept[q.dept]]
    [] OTHER -> s

\* The rows of a lock call.
Wanted(call, q, s, d) ==
  CASE call = "roles" -> Rows(RoleRow, q.roles)
    [] call = "adminRoles" -> Rows(RoleRow, s.admins)
    [] call = "involved" ->
         Rows(RoleRow, (s.roles \cup (IF q.op = "UserUpdate" /\ q.roles # Keep THEN q.roles ELSE {}))
                         \ s.admins)
    [] call = "role" -> {RoleRow(q.role)}
    [] call = "user" -> {UserRow(q.user)}
    [] call = "dept" -> Rows(DeptRow, Given(q.dept))
    [] call = "menus" -> Rows(MenuRow, s.menus)
    [] call = "depts" -> Rows(DeptRow, s.depts)
    [] call = "parent" -> Rows(MenuRow, GivenParents(q))
    [] call = "menuAndParents" ->
         Rows(MenuRow, DOMAIN q.parents \cup GivenParents(q)
                         \cup (IF MovedMenus(q.parents) # {} THEN All(d, "menu") ELSE {}))
    [] call = "menuRoots" -> Rows(MenuRow, q.menus)
    [] call = "level" -> Rows(MenuRow, s.level)
    [] call = "relevel" -> {}
    [] call = "deptAndParent" ->
         Rows(DeptRow, (IF q.op = "DeptUpdate" THEN {q.dept} ELSE {}) \cup Given(q.parent))
    [] call = "allDepts" -> Rows(DeptRow, All(d, "dept"))
    [] call \in {"roleUsers", "menuUsers", "deptUsers"} -> Rows(UserRow, s.users)

\* Mutant of Following: the children of the menu are not looked for.
FollowingRootOnly(call, s, rest) == rest

\* A menu deletion locks one level of the tree after the other.
Following(call, s, rest) ==
  CASE call = "level" /\ s.level # {} -> <<"relevel">> \o rest
    [] call = "relevel" -> <<"level">> \o rest
    [] OTHER -> rest

Login(u) == [user |-> u, op |-> "Login"]
Refresh(s) == [user |-> s.user, op |-> "Refresh"]

\* A request arrives.  Login has looked the candidate up before its
\* transaction, Refresh has found the session of its token.
Begin(p) ==
  /\ proc[p] = Idle
  /\ requests < MaxRequests
  /\ requests' = requests + 1
  /\ \/ \E q \in Requests :
          proc' = [proc EXCEPT ![p] = [Idle EXCEPT !.req = q, !.stage = "locking",
                                                   !.todo = LockCalls(q)]]
     \/ \E u \in Users :
          /\ Enabled(db, u)
          /\ proc' = [proc EXCEPT ![p] = [Idle EXCEPT !.req = Login(u), !.stage = "locking",
                                             !.todo = LockCalls(Login(u)),
                                             !.seen.row = db.user[u]]]
     \/ \E s \in sessions :
          proc' = [proc EXCEPT ![p] = [Idle EXCEPT !.req = Refresh(s), !.stage = "locking",
                                             !.todo = LockCalls(Refresh(s)),
                                             !.seen.session = s]]
  /\ UNCHANGED <<db, sessions>>

\* The reads before the next lock call; the call itself may have to wait.
Read(p) ==
  LET t == proc[p]
      call == Head(t.todo)
      s == SeenBefore(call, t.req, t.seen, View(p))
      want == Wanted(call, t.req, s, View(p))
  IN /\ t.stage = "locking"
     /\ t.want = {}
     /\ t.todo # <<>>
     /\ proc' = [proc EXCEPT ![p] =
                   [t EXCEPT !.seen = s,
                             !.want = want,
                             !.todo = Following(call, s, Tail(t.todo)),
                             !.snap = IF ~ ReadCommitted /\ PlainReads(call, t.req)
                                      THEN View(p) ELSE @]]
     /\ UNCHANGED <<db, sessions, requests>>

Blockers(p) == {q \in Procs \ {p} : proc[q].held \cap proc[p].want # {}}

LockRows(p) ==
  /\ proc[p].stage = "locking"
  /\ proc[p].want # {}
  /\ Blockers(p) = {}
  /\ \A row \in proc[p].want : Exists(db, row)
  /\ proc' = [proc EXCEPT ![p].held = @ \cup proc[p].want, ![p].want = {}]
  /\ UNCHANGED <<db, sessions, requests>>

\* Commit and rollback release every lock.
Finish(p) == proc' = [proc EXCEPT ![p] = Idle]

\* A row to lock does not exist: LockTable refuses.
LockFails(p) ==
  /\ proc[p].stage = "locking"
  /\ Blockers(p) = {}
  /\ \E row \in proc[p].want : ~ Exists(db, row)
  /\ Finish(p)
  /\ UNCHANGED <<db, sessions, requests>>

\* The database breaks a cycle of waits by refusing one transaction.
Deadlock(p) ==
  /\ \E q \in Blockers(p) : p \in Blockers(q)
  /\ Finish(p)
  /\ UNCHANGED <<db, sessions, requests>>

\* With everything locked: does the operation go on?
Valid(q, s, d) ==
  CASE q.op = "UserUpdate" ->
         /\ Exists(d, UserRow(q.user))
         /\ AuthChanged(q) => RoleIDs(d, q.user) = s.roles
         /\ AuthChanged(q) =>
              CheckAdmin(d, q.user, d.user[q.user],
                       IF q.status = Keep THEN d.user[q.user].status ELSE q.status,
                       s.roles, IF q.roles = Keep THEN s.roles ELSE q.roles)
    [] q.op = "UserDelete" ->
         /\ RoleIDs(d, q.user) = s.roles
         /\ KeepAdmin(d, {q.user})
    [] q.op = "RoleUpdate" ->
         /\ Exists(d, RoleRow(q.role))
         /\ GrantsGiven(q) /\ q.menus = Keep => s.menus = RoleMenus(d, q.role)
         /\ GrantsGiven(q) /\ q.depts = Keep => s.depts = RoleDepts(d, q.role)
         /\ d.role[q.role] = "admin" => q.label \in {Keep, "admin"}
    [] q.op = "RoleDelete" ->
         /\ s.menus = RoleMenus(d, q.role)
         /\ s.depts = RoleDepts(d, q.role)
         /\ d.role[q.role] # "admin"
    [] q.op = "MenuUpdate" -> CheckParents(d, q.parents)
    [] q.op = "MenuDelete" -> q.menus # {}
    [] q.op = "DeptDelete" ->
         /\ s.row \notin Missing
         /\ s.ids # {}
         /\ q.deleteUser => KeepAdmin(d, s.users)
    [] q.op = "Login" ->
         /\ Enabled(db, q.user)
         /\ db.user[q.user].pv = s.row.pv
         /\ RoleIDs(d, q.user) # {}
    [] q.op = "PersonUpdate" -> Exists(d, UserRow(q.user))
    [] q.op = "Refresh" -> Enabled(db, q.user) /\ RoleIDs(d, q.user) # {}
    [] OTHER -> TRUE

\* Mutant of Revoked: only a new password ends the sessions of an updated user.
RevokedByPassword(q, s) ==
  IF q.op = "UserUpdate" /\ ~ q.password THEN {} ELSE s.users

\* Which users lose their sessions.
Revoked(q, s) ==
  CASE q.op = "UserUpdate" -> IF AuthChanged(q) \/ q.password THEN {q.user} ELSE {}
    [] q.op \in {"UserDelete", "UserMove"} -> {q.user}
    [] q.op = "PersonUpdate" -> IF q.password THEN {q.user} ELSE {}
    [] OTHER -> s.users

Check(p) ==
  LET t == proc[p]
      d == View(p)
  IN /\ t.stage = "locking"
     /\ t.want = {}
     /\ t.todo = <<>>
     /\ Valid(t.req, t.seen, d)
     /\ proc' = [proc EXCEPT ![p].stage = IF t.req.op \in {"Login", "Refresh"} THEN "session"
                                          ELSE "revoke",
                             ![p].seen.row = IF t.req.op \in {"UserUpdate", "PersonUpdate"}
                                             THEN d.user[t.req.user] ELSE @]
     /\ UNCHANGED <<db, sessions, requests>>

\* RevokeUsers: the session store is not part of the transaction.
Revoke(p) ==
  /\ proc[p].stage = "revoke"
  /\ sessions' = {s \in sessions : s.user \notin Revoked(proc[p].req, proc[p].seen)}
  /\ proc' = [proc EXCEPT ![p].stage = "commit"]
  /\ UNCHANGED <<db, requests>>

NewSession(u, sid, token) ==
  [pv |-> db.user[u].pv, user |-> u, roles |-> RoleIDs(db, u), token |-> token, id |-> sid]
FreshId(sid) ==
  /\ \A s \in sessions : s.id # sid
  /\ \A p \in Procs : proc[p].seen.session # None => proc[p].seen.session.id # sid

\* Create saves the session.  RotateRefresh replaces it if the token is still
\* the current one and revokes it if the token was used before.  Both happen
\* before the transaction commits.
SaveSession(p) ==
  LET t == proc[p] IN
  /\ t.stage = "session"
  /\ \/ /\ t.req.op = "Login"
        /\ \E sid \in {i \in SessionIds : FreshId(i)} :
             sessions' = sessions \cup {NewSession(t.req.user, sid, 0)}
     \/ /\ t.req.op = "Refresh"
        /\ sessions' = {s \in sessions : s.id # t.seen.session.id}
                         \cup (IF t.seen.session \in sessions
                               THEN {NewSession(t.req.user, t.seen.session.id,
                                                t.seen.session.token + 1)}
                               ELSE {})
  /\ proc' = [proc EXCEPT ![p].stage = "commit"]
  /\ UNCHANGED <<db, requests>>

Without(rel, first, second) == {pair \in rel : pair[1] \notin first /\ pair[2] \notin second}
SetRoles(rel, u, roles) == Without(rel, {u}, {}) \cup ({u} \X roles)
ReplaceRelation(rel, r, ids) == Without(rel, {r}, {}) \cup ({r} \X ids)

(***************************************************************************)
(* The statements of each operation, on the rows d they find when they     *)
(* run, from the request q and from what it has read, s.                   *)
(***************************************************************************)
UserAdd(q, s, d) ==
  [d EXCEPT !.user[q.user] = [dept |-> q.dept, status |-> 1, pv |-> 1],
            !.userRole = SetRoles(@, q.user, q.roles)]

UserUpdate(q, s, d) ==
  [d EXCEPT !.user[q.user] = [dept |-> Or(q.dept, @.dept),
                              status |-> Or(q.status, @.status),
                              pv |-> IF q.password THEN s.row.pv + 1 ELSE @.pv],
            !.userRole = IF q.roles = Keep THEN @
                         ELSE SetRoles(@, q.user, q.roles)]

UserDelete(q, s, d) ==
  [d EXCEPT !.user[q.user] = Gone, !.userRole = Without(@, {q.user}, {})]

UserMove(q, s, d) == [d EXCEPT !.user[q.user].dept = q.dept]

PersonUpdate(q, s, d) ==
  [d EXCEPT !.user[q.user].pv = IF q.password THEN s.row.pv + 1 ELSE @]

\* The administrators' label is taken and unique: a new role has another one.
RoleAdd(q, s, d) ==
  [d EXCEPT !.role[q.role] = "plain",
            !.roleMenu = ReplaceRelation(@, q.role, q.menus),
            !.roleDept = ReplaceRelation(@, q.role, q.depts)]

\* replacePerms writes both relations as soon as one of them was submitted.
RoleUpdate(q, s, d) ==
  [d EXCEPT !.role[q.role] = Or(q.label, @),
            !.roleMenu = IF GrantsGiven(q)
                         THEN ReplaceRelation(@, q.role, s.menus) ELSE @,
            !.roleDept = IF GrantsGiven(q)
                         THEN ReplaceRelation(@, q.role, s.depts) ELSE @]

RoleDelete(q, s, d) ==
  [d EXCEPT !.role[q.role] = Gone,
            !.userRole = Without(@, {}, {q.role}),
            !.roleMenu = Without(@, {q.role}, {}),
            !.roleDept = Without(@, {q.role}, {})]

MenuAdd(q, s, d) == [d EXCEPT !.menu = Moved(@, q.parents)]

MenuUpdate(q, s, d) == [d EXCEPT !.menu = Moved(@, q.parents)]

\* importTree: every row gets the identifier its parent was inserted with.
MenuImport(q, s, d) == [d EXCEPT !.menu = Moved(@, q.parents)]

MenuDelete(q, s, d) ==
  [d EXCEPT !.menu = [m \in Menus |-> IF m \in s.ids THEN Gone ELSE @[m]],
            !.roleMenu = Without(@, {}, s.ids)]

DeptAdd(q, s, d) == [d EXCEPT !.dept[q.dept] = q.parent]

\* Update and Order: no cycle is looked for.
DeptUpdate(q, s, d) == [d EXCEPT !.dept[q.dept] = Or(q.parent, @)]

\* The users found before are deleted, or whoever is in the tree now moves to
\* the parent the tree had; nothing moves when nobody was found before.
DeptDelete(q, s, d) ==
  [d EXCEPT !.dept = [x \in Depts |-> IF x \in s.ids THEN Gone ELSE @[x]],
            !.roleDept = Without(@, {}, s.ids),
            !.userRole = IF q.deleteUser THEN Without(@, s.users, {}) ELSE @,
            !.user = [u \in Users |->
                        IF q.deleteUser /\ u \in s.users THEN Gone
                        ELSE IF ~ q.deleteUser /\ s.users # {} /\ u \in DeptUsers(d, s.ids)
                        THEN [@[u] EXCEPT !.dept = s.row] ELSE @[u]]]

Effect(q, s, d) ==
  CASE q.op = "UserAdd" -> UserAdd(q, s, d)
    [] q.op = "UserUpdate" -> UserUpdate(q, s, d)
    [] q.op = "UserDelete" -> UserDelete(q, s, d)
    [] q.op = "UserMove" -> UserMove(q, s, d)
    [] q.op = "PersonUpdate" -> PersonUpdate(q, s, d)
    [] q.op = "RoleAdd" -> RoleAdd(q, s, d)
    [] q.op = "RoleUpdate" -> RoleUpdate(q, s, d)
    [] q.op = "RoleDelete" -> RoleDelete(q, s, d)
    [] q.op = "MenuAdd" -> MenuAdd(q, s, d)
    [] q.op = "MenuUpdate" -> MenuUpdate(q, s, d)
    [] q.op = "MenuDelete" -> MenuDelete(q, s, d)
    [] q.op = "MenuImport" -> MenuImport(q, s, d)
    [] q.op = "DeptAdd" -> DeptAdd(q, s, d)
    [] q.op = "DeptUpdate" -> DeptUpdate(q, s, d)
    [] q.op = "DeptDelete" -> DeptDelete(q, s, d)
    [] OTHER -> d

\* Rows a statement writes that no lock call has named.
Unlocked(q, s, d) ==
  IF q.op = "DeptDelete"
  THEN Rows(DeptRow, s.ids) \cup (IF q.deleteUser THEN {} ELSE Rows(UserRow, DeptUsers(d, s.ids)))
  ELSE {}

\* New rows get identifiers nobody has used.  The label of a role is unique, so
\* no second role becomes the administrators' role.
CanInsert(q) ==
  CASE q.op = "UserAdd" -> db.user[q.user] = Absent
    [] q.op = "RoleAdd" -> db.role[q.role] = Absent
    [] q.op = "RoleUpdate" -> q.label = "admin" => AdminRoles(db) \subseteq {q.role}
    [] q.op \in {"MenuAdd", "MenuImport"} -> \A m \in DOMAIN q.parents : db.menu[m] = Absent
    [] q.op = "DeptAdd" -> db.dept[q.dept] = Absent
    [] OTHER -> TRUE

Commit(p) ==
  LET t == proc[p] IN
  /\ t.stage = "commit"
  /\ CanInsert(t.req)
  /\ \A q \in Procs \ {p} : proc[q].held \cap Unlocked(t.req, t.seen, db) = {}
  /\ db' = Effect(t.req, t.seen, db)
  /\ Finish(p)
  /\ UNCHANGED <<sessions, requests>>

\* An error, a refused validation or a cancelled request at any point.
Rollback(p) ==
  /\ proc[p] # Idle
  /\ Finish(p)
  /\ UNCHANGED <<db, sessions, requests>>

Logout ==
  /\ \E s \in sessions : sessions' = sessions \ {s}
  /\ UNCHANGED <<db, proc, requests>>

Init ==
  /\ isolation \in Isolations
  /\ db = InitDB
  /\ sessions \in {{NewSession(u, sid, 0)} : u \in {x \in Users : Enabled(db, x)}, sid \in SessionIds}
  /\ proc = [p \in Procs |-> Idle]
  /\ requests = 0

Next ==
  /\ \/ \E p \in Procs :
          \/ Begin(p) \/ Read(p) \/ LockRows(p) \/ LockFails(p) \/ Deadlock(p)
          \/ Check(p) \/ Revoke(p) \/ SaveSession(p) \/ Commit(p) \/ Rollback(p)
     \/ Logout
  /\ UNCHANGED isolation

Spec == Init /\ [][Next]_vars

(***************************************************************************)
(* Properties.                                                             *)
(***************************************************************************)
TypeOK ==
  /\ db \in Tables
  /\ \A s \in sessions : s.user \in Users /\ s.id \in SessionIds /\ s.roles \subseteq Roles
  /\ \A p, q \in Procs : p # q => proc[p].held \cap proc[q].held = {}

\* While no transaction holds a user's row, every session of the user belongs to
\* an enabled user and carries the password version of the committed row: no
\* login or refresh that was under way slips past a revocation, whatever the
\* isolation level.
AccountIsCurrent(s) == Enabled(db, s.user) /\ s.pv = db.user[s.user].pv

\* Likewise the roles of the session.
RolesAreCurrent(s) == s.roles = RoleIDs(db, s.user)

Settled(u) == \A p \in Procs : UserRow(u) \notin proc[p].held

(* What the code means to guarantee on every database it supports.         *)
(* REPEATABLE READ violates each of these four: the check after the locks  *)
(* repeats what was read before them.                                      *)

\* keepAdmin, "protect the last effective administrator before a user is deleted
\* or disabled": some enabled user keeps a role labelled admin.
LastAdminIsProtected == HasAdmin(db)

\* LockUsersAndRevoke: who gains or loses a role has no session with the old ones.
RolesAreAlwaysCurrent == \A s \in sessions : Settled(s.user) => RolesAreCurrent(s)

\* docs/db.md: relations have no foreign keys, "business code guarantees that
\* references exist": no menu's parent is missing.
ParentsAlwaysExist == Parents(db)

\* checkParents: a menu's parents must not form a cycle.
MenusNeverCycle == Acyclic([m \in All(db, "menu") |-> db.menu[m]])

(* What it does guarantee, and on which databases.                         *)

\* Where plain reads see what is committed, some enabled user keeps a role
\* labelled admin, however requests that disable, demote or delete
\* administrators interleave (checkAdmin, keepAdmin).
AnAdminRemains == ReadCommitted => LastAdminIsProtected

\* No login or refresh slips past a revocation: outside transactions on a
\* user's row, the user's sessions are those of an enabled user with the
\* current password version at every isolation level, and with the current
\* roles where plain reads see what is committed.
SessionsAreCurrent ==
  \A s \in sessions :
    Settled(s.user) => AccountIsCurrent(s) /\ (ReadCommitted => RolesAreCurrent(s))

\* There are no foreign keys: the services keep every relation of users, roles
\* and menus pointing at rows that exist at every isolation level, and every
\* menu's parent where plain reads see what is committed.
GrantsExist == Grants(db) /\ (ReadCommitted => ParentsAlwaysExist)

\* Where plain reads see what is committed, no two updates tie menus into a
\* cycle although each checks only its own change, as long as the menus were
\* there when the updates read the tree: an update locks every menu it has
\* read, menus added after that are not among them.
MenusFormAForest ==
  ReadCommitted =>
    Acyclic([m \in {x \in All(db, "menu") : InitDB.menu[x] \notin Missing} |-> db.menu[m]])
=============================================================================
