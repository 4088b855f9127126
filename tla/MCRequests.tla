---------------------------- MODULE MCRequests ----------------------------
(***************************************************************************)
(* An entity "note" with a joined entity "dept", the controllers and the   *)
(* requests of the model checking run.                                     *)
(***************************************************************************)
EXTENDS Requests, TLC

Attr(type) == [persistent |-> TRUE, primary |-> FALSE, system |-> FALSE, nullable |-> TRUE, type |-> type]
Key == [Attr("uint") EXCEPT !.primary = TRUE, !.nullable = FALSE]

SmallDescriptor ==
  [note |-> [id |-> Key, name |-> [Attr("string") EXCEPT !.nullable = FALSE], owner |-> Attr("uint"),
             secret |-> Attr("string"), updateTime |-> [Attr("time") EXCEPT !.system = TRUE],
             label |-> [Attr("string") EXCEPT !.persistent = FALSE]],
   dept |-> [id |-> Key, name |-> Attr("string")]]

SmallStored == [note |-> {}, dept |-> {[id |-> 9, name |-> 1]}]
SmallLimits == [batch |-> 2, pageSize |-> 1, page |-> 1, list |-> 2, export |-> 1]
SmallFound == <<[id |-> 1, name |-> 1, owner |-> 9, secret |-> Null, updateTime |-> 8],
                [id |-> 2, name |-> 2, owner |-> Null, secret |-> Null, updateTime |-> 8]>>

(***************************************************************************)
(* Query options                                                           *)
(***************************************************************************)
Ref(alias, name) == [alias |-> alias, entity |-> "", name |-> name]
NoExtend == [err |-> "ok", join |-> <<>>, select |-> <<>>, where |-> <<>>, group |-> <<>>, having |-> <<>>, order |-> <<>>]
Plain == [shape |-> "static", join |-> <<>>, select |-> <<>>, where |-> <<>>, keyword |-> <<>>, like |-> <<>>,
          eq |-> <<>>, order |-> <<>>, extend |-> NoExtend]
DeptJoin(kind) == [kind |-> kind, alias |-> "d", entity |-> "dept", left |-> Ref("a", "owner"), right |-> Ref("d", "id")]
As(ref, name) == [all |-> FALSE, column |-> ref, as |-> name]
All(alias) == [all |-> TRUE, alias |-> alias]
Where(op, ref, values) == [op |-> op, column |-> ref, values |-> values]
By(ref, direction) == [column |-> ref, direction |-> direction]

Joined == [Plain EXCEPT !.join = << DeptJoin("left") >>,
                        !.select = << All("a"), As(Ref("d", "name"), "deptName") >>,
                        !.keyword = << Ref("", "name") >>,
                        !.like = << [column |-> Ref("a", "name"), param |-> "name"] >>,
                        !.eq = << [column |-> Ref("a", "owner"), param |-> "owner"] >>,
                        !.order = << By(Ref("a", "name"), "desc") >>]
Extended == [Joined EXCEPT !.extend = [NoExtend EXCEPT !.select = << As(Ref("d", "id"), "deptName") >>,
                                                       !.where = << Where("gt", Ref("", "name"), <<0>>),
                                                                    Where("raw", Ref("", ""), <<1>>) >>,
                                                       !.group = << Ref("a", "name") >>,
                                                       !.having = << Where("ne", Ref("a", "name"), <<>>) >>,
                                                       !.order = << By(Ref("a", "id"), "asc") >>]]
Dynamic == [Plain EXCEPT !.shape = "dynamic",
                         !.extend = [NoExtend EXCEPT !.where = << Where("in", Ref("a", "id"), <<1, 2>>) >>,
                                                     !.join = << DeptJoin("inner") >>]]
Option == [entity |-> "note", api |-> {"add", "delete", "update", "info", "list", "page"},
           hidden |-> << Ref("", "secret") >>, readonly |-> << Ref("", "owner") >>, infoIgnored |-> <<>>,
           sortFields |-> <<>>, defaultSort |-> <<>>, defaultOrder |-> "",
           pageQuery |-> Joined, listQuery |-> Plain, plainQuery |-> Plain, inject |-> "owner", hook |-> "none"]

\* Two more rows were deleted earlier, together.
DeletedRow(id) == [id |-> id, name |-> 1, owner |-> Null, secret |-> Null, updateTime |-> 8]
SmallRecords == (1 :> [rows |-> {DeletedRow(3), DeletedRow(4)}, expired |-> FALSE])
SmallKeys == [id |-> 5, record |-> 2]
SmallValues == 0..9 \cup {Null, Bad}
SmallSettings == {[dialect |-> "mysql", softDelete |-> TRUE], [dialect |-> "sqlite", softDelete |-> TRUE],
                  [dialect |-> "mysql", softDelete |-> FALSE]}
SomeGoroutine == Permutations(Goroutines)

\* Controllers that work, and controllers whose options do not compile.
SmallOptions ==
  [admin |-> Option,
   open |-> [Option EXCEPT !.infoIgnored = << Ref("a", "name") >>, !.sortFields = << Ref("", "name") >>,
                           !.defaultSort = << Ref("", "name") >>, !.defaultOrder = "asc",
                           !.pageQuery = Extended, !.listQuery = Dynamic, !.inject = "", !.hook = "set"],
   bare |-> [Option EXCEPT !.api = {"update", "list"}, !.hook = "unset",
                           !.listQuery = [Dynamic EXCEPT !.extend.err = "comm"]],
   double |-> [Option EXCEPT !.hidden = << Ref("", "secret"), Ref("a", "secret") >>],
   unsorted |-> [Option EXCEPT !.defaultOrder = "asc"],
   alias |-> [Option EXCEPT !.pageQuery = [Joined EXCEPT !.join = << DeptJoin("left"), DeptJoin("inner") >>],
                            !.listQuery = [Joined EXCEPT !.select = << All("x") >>]],
   column |-> [Option EXCEPT !.pageQuery = [Joined EXCEPT !.like = << [column |-> Ref("d", "id"), param |-> "name"] >>],
                             !.listQuery = [Plain EXCEPT !.where = << Where("eq", Ref("", "name"), <<>>) >>]]]

(***************************************************************************)
(* Requests                                                                *)
(***************************************************************************)
NoQuery == [x \in {} |-> 0]
Input(option, action, body) == [option |-> option, action |-> action, body |-> body, access |-> "granted"]
Items(items) == [shape |-> IF Len(items) = 1 THEN "object" ELSE "array", items |-> items, query |-> NoQuery]
Of(ids) == [shape |-> "array", ids |-> ids, query |-> NoQuery]
Asked(query) == [shape |-> "object", query |-> query]
Text(values) == [kind |-> "string", values |-> values]
Number(values) == [kind |-> "uint", values |-> values]

Everything(name) == [id |-> 2, name |-> name, owner |-> 1, updateTime |-> 1, _view |-> 1]

Writes ==
  {Input("admin", "add", Items(<< Everything(1) >>)),
   Input("open", "add", Items(<< [name |-> 1], [owner |-> 2, label |-> 1] >>)),
   Input("admin", "update", Items(<< [id |-> 2, name |-> 2], [id |-> 1, name |-> 2] >>)),
   Input("open", "update", Items(<< [id |-> 1, name |-> 2], Everything(1) >>)),
   Input("admin", "delete", Of(<< 1 >>)), Input("open", "delete", Of(<< 2, 1, 2 >>)),
   Input("admin", "route", Of(<< 1 >>)), Input("admin", "restore", Of(<< 1, 2, 1 >>))}

Rejected ==
  {[Input("admin", "add", Items(<< [name |-> 1] >>)) EXCEPT !.access = "refused"],
   Input("bare", "add", Items(<< [name |-> 1] >>)),
   Input("admin", "add", Items(<< [owner |-> 1] >>)),
   Input("admin", "add", Items(<< [nome |-> 1] >>)),
   Input("admin", "update", Items(<< [name |-> 1] >>)), Input("admin", "update", Items(<< [id |-> 1, owner |-> 1] >>)),
   Input("admin", "update", Items(<< [id |-> 1, secret |-> 2] >>)),
   Input("bare", "update", Items(<< [id |-> 1, name |-> 2] >>)),
   Input("admin", "delete", Of(<<>>)), Input("double", "delete", Of(<< 1 >>)), Input("unsorted", "delete", Of(<< 1 >>)),
   Input("admin", "restore", Of(<< 0 >>)), Input("admin", "restore", Of(<< 1, 2, 1, 2 >>)),
   Input("alias", "page", Asked(NoQuery)), Input("alias", "list", Asked(NoQuery)),
   Input("column", "page", Asked([name |-> Text(<< 1 >>)])), Input("column", "list", Asked(NoQuery)),
   Input("bare", "list", Asked(NoQuery)),
   Input("admin", "page", Asked([size |-> Number(<< 2 >>)])),
   Input("admin", "page", Asked([owner |-> Text(<< 1 >>)])),
   Input("admin", "page", Asked([order |-> Text(<< "secret" >>), sort |-> Text(<< "asc" >>)])),
   Input("admin", "page", Asked([order |-> Text(<< "name" >>)]))}

Queries ==
  {Input("admin", "info", Of(<< 1 >>)), Input("open", "info", Of(<< 2 >>)),
   Input("admin", "page", Asked([page |-> Number(<< 2 >>), keyWord |-> Text(<< 1 >>)])),
   Input("open", "page", Asked([order |-> Text(<< "name" >>), sort |-> Text(<< "asc" >>), name |-> Text(<< 2 >>),
                                owner |-> [kind |-> "list", of |-> "uint", values |-> << 1, 9 >>]])),
   Input("admin", "list", Asked([isExport |-> [kind |-> "bool", values |-> << 1 >>]])),
   Input("open", "list", Asked(NoQuery))}

SmallInputs == Writes \cup Rejected \cup Queries
=============================================================================
