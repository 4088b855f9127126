------------------------------ MODULE CrudPlan ------------------------------
(***************************************************************************)
(* What a CRUD request is turned into before it reaches the database: the  *)
(* controller's options and the request body are compiled into an action   *)
(* plan, field policy and query plan (cool-next/crud), and the values a    *)
(* client submits into the columns a write may touch (gnctrl/binder.go,    *)
(* gnservice/input.go, gnservice/base.go).                                 *)
(*                                                                         *)
(* Values of columns are numbers; a request names them with the JSON kind  *)
(* they arrive with.  An operator that may fail gives the class of the     *)
(* first failure, which decides the answer: "validate" and "comm" speak to *)
(* the client, "core" is an error of the application.                      *)
(***************************************************************************)
EXTENDS Integers, Sequences, FiniteSets, SequencesExt

CONSTANTS
  Descriptor,      \* entity -> field -> its attributes
  Stored,          \* entity -> the rows of the tables a query may join
  Null,            \* an explicit null
  Bad,             \* a JSON value that does not decode to the field's type
  MaxJoins,        \* maxQueryPlanJoins
  MaxNodes,        \* maxQueryPlanNodes
  MaxBindings,     \* maxPlanBindings
  Limits           \* crud.Config: batch, pageSize, page, list, export

Attributes ==
  [persistent: BOOLEAN, primary: BOOLEAN, system: BOOLEAN, nullable: BOOLEAN,
   type: {"uint", "string", "time", "json"}]

RootAlias == "a"
Directions == {"asc", "desc"}
QueryActions == {"info", "list", "page"}

ASSUME CrudAssumption ==
  /\ \A e \in DOMAIN Descriptor, f \in UNION {DOMAIN Descriptor[x] : x \in DOMAIN Descriptor} :
       f \in DOMAIN Descriptor[e] => Descriptor[e][f] \in Attributes
  /\ {MaxJoins, MaxNodes, MaxBindings} \subseteq Nat
  /\ Limits.pageSize \in 1..Limits.page

Fields(entity) == {f \in DOMAIN Descriptor[entity] : Descriptor[entity][f].persistent}
PrimaryOf(entity) == CHOOSE f \in Fields(entity) : Descriptor[entity][f].primary

(***************************************************************************)
(* The compilers check one thing after the other and stop at the first     *)
(* that fails; the plan also has a budget of nodes and bound values.       *)
(***************************************************************************)
Holds(p, class) == [test |-> p, class |-> class, nodes |-> 0, bindings |-> 0]
AddNodes(n) == [test |-> TRUE, class |-> "core", nodes |-> n, bindings |-> 0]
AddBindings(n, class) == [test |-> TRUE, class |-> class, nodes |-> 0, bindings |-> n]

Spend(spent, check) ==
  LET nodes == spent.nodes + check.nodes
      bindings == spent.bindings + check.bindings
      fits == check.test /\ nodes <= MaxNodes /\ bindings <= MaxBindings
  IN  IF spent.err # "ok" THEN spent
      ELSE [err |-> IF fits THEN "ok" ELSE check.class, nodes |-> nodes, bindings |-> bindings]

FirstError(checks) == FoldLeft(Spend, [err |-> "ok", nodes |-> 0, bindings |-> 0], checks).err

ForEach(Op(_), seq) == FlattenSeq([i \in DOMAIN seq |-> Op(seq[i])])

(***************************************************************************)
(* Column references                                                       *)
(***************************************************************************)
AliasOf(ref) == IF ref.alias = "" THEN RootAlias ELSE ref.alias

Resolves(bound, ref) ==
  /\ AliasOf(ref) \in DOMAIN bound
  /\ bound[AliasOf(ref)] \in DOMAIN Descriptor
  /\ ref.entity \in {"", bound[AliasOf(ref)]}
  /\ ref.name \in Fields(bound[AliasOf(ref)])

Column(ref) == [name |-> ref.name, alias |-> AliasOf(ref)]
AttributesOf(bound, ref) == Descriptor[bound[AliasOf(ref)]][ref.name]
HasType(bound, ref, types) == Resolves(bound, ref) /\ AttributesOf(bound, ref).type \in types

\* The aliases in scope after the joins, the root entity's first.
Bound(entity, joins) ==
  FoldLeft(LAMBDA bound, join : bound @@ (join.alias :> join.entity), RootAlias :> entity, joins)

JoinChecks(entity, joins, i) ==
  LET join == joins[i]
      before == Bound(entity, SubSeq(joins, 1, i - 1))
      after == Bound(entity, SubSeq(joins, 1, i))
      here(ref) == AliasOf(ref) = join.alias
  IN  << Holds(join.kind \in {"left", "inner"} /\ join.alias \notin DOMAIN before, "core"),
         Holds(join.entity \in DOMAIN Descriptor, "core"),
         Holds(Resolves(after, join.left) /\ Resolves(after, join.right), "core"),
         Holds(here(join.left) # here(join.right), "core"),
         Holds(/\ Resolves(after, join.left) /\ Resolves(after, join.right)
               /\ AttributesOf(after, join.left).type = AttributesOf(after, join.right).type, "core") >>

(***************************************************************************)
(* Selected columns.  A static query's extension may only replace declared *)
(* outputs, a dynamic one may not change the shape of the answer.          *)
(***************************************************************************)
Declared(op, alias) == {i \in DOMAIN op.select : ~op.select[i].all /\ op.select[i].as = alias}

MergeChecks(op) ==
  LET dynamic == op.extend.select IN
  IF op.shape = "static"
  THEN << Holds(/\ \A i \in DOMAIN dynamic : ~dynamic[i].all /\ Cardinality(Declared(op, dynamic[i].as)) = 1
                /\ \A i, j \in DOMAIN dynamic : dynamic[i].as = dynamic[j].as => i = j, "core") >>
  ELSE << Holds(dynamic = <<>>, "core"),
          Holds(\/ op.select = <<>>
                \/ Len(op.select) = 1 /\ op.select[1].all /\ op.select[1].alias = RootAlias, "core") >>

MergeSelects(op) ==
  LET merged == FoldLeft(LAMBDA all, s : [i \in DOMAIN all |-> IF i \in Declared(op, s.as) THEN s ELSE all[i]],
                         op.select, op.extend.select)
  IN  IF merged = <<>> THEN << [alias |-> RootAlias, all |-> TRUE] >> ELSE merged

\* All(alias) stands for the persistent columns of that entity.
Expand(bound, sel) ==
  IF sel.all
  THEN IF sel.alias \notin DOMAIN bound THEN <<>>
       ELSE LET names == SetToSeq(Fields(bound[sel.alias]))
            IN  [i \in DOMAIN names |-> [column |-> [name |-> names[i], alias |-> sel.alias], as |-> names[i]]]
  ELSE << [column |-> Column(sel.column), as |-> sel.as] >>

SelectChecks(bound, selects) ==
  LET outputs == ForEach(LAMBDA sel : Expand(bound, sel), selects) IN
  << Holds(\A i \in DOMAIN selects :
             IF selects[i].all THEN selects[i].alias \in DOMAIN bound ELSE Resolves(bound, selects[i].column), "core"),
     Holds(\A i, j \in DOMAIN outputs : outputs[i].as = outputs[j].as => i = j, "core"),
     AddNodes(Len(outputs)) >>

(***************************************************************************)
(* Conditions.  `values` holds what is compared with: nothing for null.    *)
(***************************************************************************)
Ordered == {"uint", "string", "time"}

ConditionChecks(bound, cond) ==
  IF cond.op = "raw" THEN << AddNodes(1), AddBindings(Len(cond.values), "core") >>
  ELSE << Holds(cond.op \notin {"on", "keyword"} /\ Resolves(bound, cond.column), "core"),
          AddNodes(1),
          Holds(/\ Resolves(bound, cond.column)
                /\ \/ cond.op \in {"eq", "ne"} /\ (cond.values # <<>> \/ AttributesOf(bound, cond.column).nullable)
                   \/ cond.op = "in" /\ cond.values # <<>>
                   \/ cond.op = "like" /\ HasType(bound, cond.column, {"string"})
                   \/ cond.op = "gt" /\ cond.values # <<>> /\ HasType(bound, cond.column, Ordered), "core"),
          AddBindings(Len(cond.values), "core") >>

Condition(cond) ==
  [op |-> cond.op, values |-> cond.values, columns |-> IF cond.op = "raw" THEN <<>> ELSE << Column(cond.column) >>]

Conditions(seq) == [i \in DOMAIN seq |-> Condition(seq[i])]

\* A request value fits a column of the type: planValue converts between
\* the numeric kinds only, and only without loss.
Convertible(kind, type) == \/ kind = "uint" /\ type = "uint"
                           \/ kind = "string" /\ type = "string"

Submitted(request, param) == param \in DOMAIN request

KeywordChecks(bound, columns, request) ==
  ForEach(LAMBDA ref : << Holds(HasType(bound, ref, {"string"}), "core") >>, columns)
  \o IF Submitted(request, "keyWord")
     THEN << Holds(request["keyWord"].kind = "string", "validate") >>
          \o (IF request["keyWord"].values = <<>> THEN <<>>
              ELSE << AddNodes(Len(columns)), AddBindings(Len(columns), "validate") >>)
     ELSE <<>>

Keyword(columns, request) ==
  IF ~Submitted(request, "keyWord") \/ columns = <<>> THEN <<>>
  ELSE IF request["keyWord"].values = <<>> THEN <<>>
  ELSE << [op |-> "keyword", values |-> request["keyWord"].values,
           columns |-> [i \in DOMAIN columns |-> Column(columns[i])]] >>

LikeChecks(bound, match, request) ==
  << Holds(HasType(bound, match.column, {"string"}), "core") >>
  \o IF Submitted(request, match.param)
     THEN << Holds(request[match.param].kind = "string", "validate"), AddNodes(1), AddBindings(1, "validate") >>
     ELSE <<>>

EqChecks(bound, match, request) ==
  << Holds(Resolves(bound, match.column), "core") >>
  \o IF ~Submitted(request, match.param) \/ ~Resolves(bound, match.column) THEN <<>>
     ELSE LET value == request[match.param]
              column == AttributesOf(bound, match.column)
          IN  IF value.kind = "null" THEN << Holds(column.nullable, "validate"), AddNodes(1) >>
              ELSE IF value.kind = "list" /\ value.values = <<>> THEN <<>>
              ELSE << Holds(Convertible(IF value.kind = "list" THEN value.of ELSE value.kind, column.type), "validate"),
                      AddBindings(Len(value.values), "validate"), AddNodes(1) >>

\* The condition a submitted match adds; an empty list adds none.
Matched(op, match, request) ==
  IF ~Submitted(request, match.param) THEN <<>>
  ELSE LET value == request[match.param] IN
       IF value.kind = "list" /\ value.values = <<>> THEN <<>>
       ELSE << [op |-> IF op = "eq" /\ value.kind = "list" THEN "in" ELSE op,
                values |-> value.values, columns |-> << Column(match.column) >>] >>

OrderChecks(bound, order) ==
  << Holds(order.direction \in Directions /\ Resolves(bound, order.column), "core"), AddNodes(1) >>

PlanOrder(order) == [column |-> Column(order.column), direction |-> order.direction]

(***************************************************************************)
(* The query plan                                                          *)
(***************************************************************************)
QueryChecks(entity, op, request) ==
  LET joins == op.join \o op.extend.join
      bound == Bound(entity, joins)
      conditions(seq) == ForEach(LAMBDA c : ConditionChecks(bound, c), seq)
  IN  << Holds(op.extend.err = "ok", op.extend.err), Holds(Len(joins) <= MaxJoins, "core") >>
      \o FlattenSeq([i \in DOMAIN joins |-> JoinChecks(entity, joins, i)])
      \o MergeChecks(op)
      \o SelectChecks(bound, MergeSelects(op))
      \o conditions(op.where)
      \o KeywordChecks(bound, op.keyword, request)
      \o ForEach(LAMBDA m : LikeChecks(bound, m, request), op.like)
      \o ForEach(LAMBDA m : EqChecks(bound, m, request), op.eq)
      \o conditions(op.extend.where)
      \o ForEach(LAMBDA ref : << Holds(Resolves(bound, ref), "core"), AddNodes(1) >>, op.extend.group)
      \o conditions(op.extend.having)
      \o ForEach(LAMBDA o : OrderChecks(bound, o), op.order \o op.extend.order)

QueryPlan(entity, op, request) ==
  LET joins == op.join \o op.extend.join
      orders == op.order \o op.extend.order
  IN  [where |-> Conditions(op.where) \o Keyword(op.keyword, request)
                 \o ForEach(LAMBDA m : Matched("like", m, request), op.like)
                 \o ForEach(LAMBDA m : Matched("eq", m, request), op.eq)
                 \o Conditions(op.extend.where),
       group |-> [i \in DOMAIN op.extend.group |-> Column(op.extend.group[i])],
       having |-> Conditions(op.extend.having),
       selects |-> ForEach(LAMBDA sel : Expand(Bound(entity, joins), sel), MergeSelects(op)),
       joins |-> joins,
       orderBy |-> [i \in DOMAIN orders |-> PlanOrder(orders[i])]]

(***************************************************************************)
(* The field policy of a controller                                        *)
(***************************************************************************)
PolicyField(entity, ref) == ref.alias \in {"", RootAlias} /\ Resolves(RootAlias :> entity, ref)
Names(refs) == {refs[i].name : i \in DOMAIN refs}

FieldSetChecks(entity, refs) ==
  << Holds(\A i \in DOMAIN refs : PolicyField(entity, refs[i]), "core"),
     Holds(Cardinality(Names(refs)) = Len(refs), "core") >>

AutoSort(action, option) == action \in {"list", "page"} /\ option.sortFields = <<>>

Sortable(action, option) ==
  IF AutoSort(action, option) THEN Fields(option.entity) \ Names(option.hidden) ELSE Names(option.sortFields)

PolicyChecks(action, option) ==
  FieldSetChecks(option.entity, option.hidden) \o FieldSetChecks(option.entity, option.readonly)
  \o FieldSetChecks(option.entity, option.infoIgnored) \o FieldSetChecks(option.entity, option.sortFields)
  \o << Holds(option.defaultSort # <<>> => option.defaultOrder \in Directions, "core"),
        Holds(option.defaultSort = <<>> => option.defaultOrder = "", "core"),
        Holds(\A i \in DOMAIN option.defaultSort :
                /\ PolicyField(option.entity, option.defaultSort[i])
                /\ option.defaultSort[i].name \in Sortable(action, option), "core") >>

DefaultSort(action, option) ==
  LET by(name, direction) == << [column |-> [name |-> name, alias |-> RootAlias], direction |-> direction] >> IN
  IF option.defaultSort # <<>> THEN by(option.defaultSort[1].name, option.defaultOrder)
  ELSE IF AutoSort(action, option) THEN by(PrimaryOf(option.entity), "desc")
  ELSE <<>>

\* Mutant of VisibleSelects: the hidden fields of the controller are only removed from the details.
VisibleInLists(action, option, selects) ==
  SelectSeq(selects, LAMBDA s : action # "info" \/ s.column.name \notin Names(option.hidden))

VisibleSelects(action, option, selects) ==
  SelectSeq(selects, LAMBDA s : \/ s.column.alias # RootAlias
                                \/ /\ s.column.name \notin Names(option.hidden)
                                   /\ action = "info" => s.column.name \notin Names(option.infoIgnored))

\* The client may order by the fields the policy allows; the fixed order comes first.
OrderRequestChecks(action, option, query, request) ==
  IF ~Submitted(request, "order") THEN <<>>
  ELSE << Holds(Len(query.orderBy) + Len(request["order"].values) <= MaxNodes, "validate"),
          Holds(\A i \in DOMAIN request["order"].values :
                  request["order"].values[i] \in Sortable(action, option), "validate") >>

ApplyOrder(action, option, query, request) ==
  query.orderBy \o
  IF Submitted(request, "order")
  THEN [i \in DOMAIN request["order"].values |->
          [column |-> [name |-> request["order"].values[i], alias |-> RootAlias],
           direction |-> request["sort"].values[i]]]
  ELSE DefaultSort(action, option)

\* CompilePlan: the policy, then for a query its plan under that policy.
CompilePlan(action, option, request) ==
  LET op == CASE action = "page" -> option.pageQuery
              [] action = "list" -> option.listQuery
              [] OTHER -> option.plainQuery
      policy == FirstError(<< Holds(action \in option.api, "core") >> \o PolicyChecks(action, option))
      queryError == FirstError(QueryChecks(option.entity, op, request))
      query == QueryPlan(option.entity, op, request)
      selects == VisibleSelects(action, option, query.selects)
      last == FirstError(<< Holds(selects # <<>>, "core") >>
                         \o (IF action = "info" THEN <<>> ELSE OrderRequestChecks(action, option, query, request)))
  IN  IF policy # "ok" THEN [err |-> policy]
      ELSE IF action \notin QueryActions THEN [err |-> "ok", query |-> <<>>]
      ELSE IF queryError # "ok" THEN [err |-> queryError]
      ELSE IF last # "ok" THEN [err |-> last]
      ELSE [err |-> "ok",
            query |-> [query EXCEPT !.selects = selects,
                                    !.orderBy = IF action = "info" THEN @ ELSE ApplyOrder(action, option, query, request)]]

(***************************************************************************)
(* Running a query plan on the rows of the root table: joins, conditions,  *)
(* groups, order.  A combination maps every alias to its row.              *)
(***************************************************************************)
ValueIn(combo, column) == IF combo[column.alias] = Null THEN Null ELSE combo[column.alias][column.name]

Satisfies(combo, cond) ==
  LET some == \E i \in DOMAIN cond.columns : ValueIn(combo, cond.columns[i]) \in ToSet(cond.values)
      null == \E i \in DOMAIN cond.columns : ValueIn(combo, cond.columns[i]) = Null
  IN  CASE cond.op \in {"eq", "in"} -> IF cond.values = <<>> THEN null ELSE some
        [] cond.op = "ne" -> IF cond.values = <<>> THEN ~null ELSE ~some /\ ~null
        [] cond.op = "gt" -> ~null /\ \A i \in DOMAIN cond.columns : ValueIn(combo, cond.columns[i]) > cond.values[1]
        [] cond.op \in {"like", "keyword"} -> some \/ (cond.values = <<>> /\ ~null)
        [] cond.op = "raw" -> TRUE

JoinRows(combos, join) ==
  LET partners(c) == {row \in Stored[join.entity] :
                        LET d == c @@ (join.alias :> row)
                        IN  ValueIn(d, Column(join.left)) = ValueIn(d, Column(join.right))}
  IN  UNION {{c @@ (join.alias :> row) :
                row \in IF partners(c) = {} /\ join.kind = "left" THEN {Null} ELSE partners(c)} : c \in combos}

Before(orderBy, c, d) ==
  \E i \in DOMAIN orderBy :
    LET less(x, y) == IF orderBy[i].direction = "asc" THEN x < y ELSE y < x
        at(combo, j) == ValueIn(combo, orderBy[j].column)
    IN  /\ \A j \in 1..(i - 1) : at(c, j) = at(d, j)
        /\ at(c, i) # at(d, i) /\ Null \notin {at(c, i), at(d, i)} /\ less(at(c, i), at(d, i))

ApplyQuery(plan, rows) ==
  LET joined == FoldLeft(JoinRows, {RootAlias :> row : row \in rows}, plan.joins)
      kept == {c \in joined : \A i \in DOMAIN plan.where : Satisfies(c, plan.where[i])}
      key(c) == [i \in DOMAIN plan.group |-> ValueIn(c, plan.group[i])]
      groups == IF plan.group = <<>> THEN kept
                ELSE {CHOOSE c \in kept : key(c) = k : k \in {key(c) : c \in kept}}
      having == {c \in groups : \A i \in DOMAIN plan.having : Satisfies(c, plan.having[i])}
  IN  SetToSortSeq(having, LAMBDA c, d : Before(plan.orderBy, c, d))

\* The page of an ordered result, and the number of rows altogether.
RenderPage(result, page, size) ==
  [rows |-> SubSeq(result, (page - 1) * size + 1,
                   IF page * size < Len(result) THEN page * size ELSE Len(result)),
   total |-> Len(result)]
=============================================================================
