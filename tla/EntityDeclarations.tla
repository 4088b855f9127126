------------------------- MODULE EntityDeclarations -------------------------
(***************************************************************************)
(* An entity on its way to a table.  The generator reads the declaration    *)
(* from the source (cool-next/codegen: entity.go, entity_validate.go) and   *)
(* answers with the codes of its diagnostics; the generated package         *)
(* compiles the same struct by reflection when it starts                    *)
(* (cool-next/core/gnentity); Schema asks for the table of what came out.   *)
(*                                                                          *)
(* A field is [embedded, name, exported, json, orm, description, cool,      *)
(* type]; a tag that is not there is Absent.  The cool tag is the sequence  *)
(* of its items, the orm tag of g.Meta the sequence of its directives.  A   *)
(* type is the number of its pointers and the kind that is behind them.     *)
(***************************************************************************)
EXTENDS Schema, RouteTable, Integers, FiniteSets

CONSTANT Numerals  \* the words strconv.ParseUint reads, and their numbers

Number(word) == IF word \in DOMAIN Numerals THEN Numerals[word] ELSE -1

\* Not there, or blank.
Blank(text) == text \in {Absent, ""} \/ ~Legal("blank", text)

Embedded(e, what) == SelectSeq(e.fields, LAMBDA f : f.embedded = what)
Business(e) == SelectSeq(e.fields, LAMBDA f : f.embedded = "")

\* isEntityType; analyzeEntities takes the exported ones below entity/.
IsEntityType(e) == e.dir = "entity" /\ e.exported /\ Embedded(e, "Base") # <<>> /\ Embedded(e, "Meta") # <<>>
Entities(m) == SelectSeq(m.types, IsEntityType)

\* analyzeEntities: a Schema function belongs to the entity it is named after.
Paired(s, m) == s.signature /\ \E e \in Range(Entities(m)) : e.pkg = s.pkg /\ e.name = s.entity
Schemas(m) == SelectSeq(m.schemas, LAMBDA s : Paired(s, m))
AnalyzeEntities(m) == {"CG020" : s \in {t \in Range(m.schemas) : ~Paired(t, m)}}

(***************************************************************************)
(* Tags and types; both sides read them by the same rules.                  *)
(***************************************************************************)
\* One table directive, and a description.
ParseMetaTag(f) ==
  IF f.orm \notin {Absent, <<>>} /\ Len(f.orm) = 1 /\ Head(f.orm).key = "table" /\ ~Blank(f.description)
  THEN Head(f.orm).value ELSE ""

ItemKeys(cool) == {cool[n].key : n \in DOMAIN cool}
HasItem(cool, key) == cool # Absent /\ key \in ItemKeys(cool)
ItemValue(cool, key) == cool[CHOOSE n \in DOMAIN cool : cool[n].key = key].value

\* parseCoolMarkers: the form of the tag.
WellFormed(cool) ==
  \/ cool = Absent
  \/ /\ cool # <<>>
     /\ Cardinality(ItemKeys(cool)) = Len(cool)
     /\ \A n \in DOMAIN cool : /\ cool[n].key # ""
                               /\ cool[n].assigned <=> cool[n].key # "transient"
                               /\ cool[n].assigned => cool[n].value # ""

IsTransient(f) == HasItem(f.cool, "transient")
IsJSON(f) == HasItem(f.cool, "json") /\ ItemValue(f.cool, "json") = "true"

\* codegenLogicalType; "" is a type no column can hold.
LogicalType(type, isJSON, isTransient) ==
  CASE type.pointers > 1 -> ""
    [] type.kind = "time" -> "time"
    [] type.kind = "bytes" -> IF isJSON THEN "" ELSE "bytes"
    [] isJSON -> IF type.kind \in {"slice", "scalars", "map"} THEN "json" ELSE ""
    [] isTransient /\ type.kind = "scalars" -> "json"
    [] type.kind \in {"bool", "int", "uint", "float", "string"} -> type.kind
    [] OTHER -> ""

\* What validateCoolTag allows an item of the tag on a logical type.
Allowed(item, logical) ==
  CASE item.key = "transient" -> TRUE
    [] item.key = "size" -> logical \in {"string", "bytes"} /\ Number(item.value) > 0
    [] item.key = "default" -> logical # "json"
    [] item.key = "json" -> logical = "json" /\ item.value = "true"
    [] item.key = "precision" -> logical = "float" /\ Number(item.value) > 0
    [] item.key = "scale" -> logical = "float" /\ Number(item.value) >= 0
    [] OTHER -> FALSE

ValidateCoolTag(cool, logical) ==
  cool # Absent =>
    /\ \A n \in DOMAIN cool : Allowed(cool[n], logical)
    /\ HasItem(cool, "scale") => /\ HasItem(cool, "precision")
                                 /\ Number(ItemValue(cool, "scale")) <= Number(ItemValue(cool, "precision"))

ColumnTag(f) == IF IsTransient(f) THEN f.orm = Absent ELSE f.orm # Absent /\ Legal("camel", f.orm)

(***************************************************************************)
(* The generator: checkEntityDecl.                                          *)
(***************************************************************************)
CheckField(f) ==
  /\ f.exported
  /\ f.name \notin {"ID", "CreateTime", "UpdateTime"}
  /\ f.json # Absent /\ Legal("camel", f.json)
  /\ ~Blank(f.description)
  /\ WellFormed(f.cool)
  /\ ColumnTag(f)
  /\ LogicalType(f.type, IsJSON(f), IsTransient(f)) # ""
  /\ ValidateCoolTag(f.cool, LogicalType(f.type, IsJSON(f), IsTransient(f)))

BaseNames == {"id", "createTime", "updateTime"}

\* A field joins the names, columns and indexable names of those before it.
TakeField(sofar, f) ==
  CASE ~CheckField(f) -> [sofar EXCEPT !.codes = @ \cup {"CG050"}]
    [] CheckField(f) /\ f.json \in sofar.names -> [sofar EXCEPT !.codes = @ \cup {"CG051"}]
    [] CheckField(f) /\ f.json \notin sofar.names /\ ~IsTransient(f) /\ f.orm \in sofar.columns ->
         [sofar EXCEPT !.codes = @ \cup {"CG052"}]
    [] OTHER -> [sofar EXCEPT !.names = @ \cup {f.json},
                              !.columns = IF IsTransient(f) THEN @ ELSE @ \cup {f.orm},
                              !.indexable = IF IsTransient(f) THEN @ ELSE @ \cup {f.json}]

TakeFields(e) ==
  FoldLeft(TakeField, [names |-> BaseNames, columns |-> BaseNames, indexable |-> BaseNames, codes |-> {}], Business(e))

TableName(e) == ParseMetaTag(Head(Embedded(e, "Meta")))

\* A type that embeds Base and Meta embeds each of them once: the language
\* refuses two fields of one name.
CheckEntityDecl(e) ==
  (IF TableName(e) = "" THEN {"CG046"} ELSE {})
  \cup (IF Embedded(e, "other") # <<>> THEN {"CG049"} ELSE {})
  \cup TakeFields(e).codes
  \cup (IF TableName(e) # "" /\ ~Legal("table", TableName(e)) THEN {"CG055"} ELSE {})

SystemIndex(table, column) ==
  [name |-> "idx_" \o table \o (IF column = "createTime" THEN "_create_time" ELSE "_update_time"),
   fields |-> << column >>, unique |-> FALSE]

SystemIndexes(table) == << SystemIndex(table, "createTime"), SystemIndex(table, "updateTime") >>

\* parseIndexCall: IndexOf or UniqueIndexOf with a constant name and constant fields.
ParseIndexCall(item, indexable) ==
  /\ item.call \in {"IndexOf", "UniqueIndexOf"}
  /\ item.name # Absent
  /\ item.fields # <<>>
  /\ IsInjective(item.fields)
  /\ Range(item.fields) \subseteq indexable

\* An index joins those before it.
TakeIndex(sofar, item, indexable) ==
  CASE ~ParseIndexCall(item, indexable) -> [sofar EXCEPT !.codes = @ \cup {"CG060"}]
    [] ParseIndexCall(item, indexable) /\ (~Legal("index", item.name) \/ item.name \in {x.name : x \in Range(sofar.indexes)}) ->
         [sofar EXCEPT !.codes = @ \cup {"CG061"}]
    [] OTHER -> [sofar EXCEPT !.indexes = Append(@, [name |-> item.name, fields |-> item.fields,
                                                     unique |-> item.call = "UniqueIndexOf"])]

\* The list of an element that names Indexes and is a literal.
StaticItems(s) == FlattenSeq([n \in DOMAIN s.elements |-> IF s.elements[n].list = Absent THEN <<>> ELSE s.elements[n].list])

\* parseSchemaIndexes, on a body that returns an entity.Schema literal.
ParseSchemaIndexes(s, indexable, table) ==
  LET started == [indexes |-> SystemIndexes(table),
                  codes |-> {"CG058" : x \in {y \in Range(s.elements) : y.key # "Indexes"}}
                            \cup {"CG059" : x \in {y \in Range(s.elements) : y.key = "Indexes" /\ y.list = Absent}}] IN
  IF ~s.static THEN [indexes |-> <<>>, codes |-> {"CG057"}]
  ELSE FoldLeft(LAMBDA sofar, item : TakeIndex(sofar, item, indexable), started, StaticItems(s))

SchemasOf(e, m) == SelectSeq(Schemas(m), LAMBDA s : s.pkg = e.pkg /\ s.entity = e.name)
SchemaIndexes(e, m) == ParseSchemaIndexes(Head(SchemasOf(e, m)), TakeFields(e).indexable, TableName(e))

\* CompileDescriptors, for one entity.
CompileEntity(e, m) ==
  CASE SchemasOf(e, m) = <<>> -> {"CG042"}
    [] Len(SchemasOf(e, m)) > 1 -> {"CG043"}
    [] Len(SchemasOf(e, m)) = 1 /\ CheckEntityDecl(e) # {} -> CheckEntityDecl(e)
    [] OTHER -> SchemaIndexes(e, m).codes

\* What the generator has of an accepted entity.
Fragment(e, m) == [module |-> m.key, entity |-> e, table |-> TableName(e), indexes |-> SchemaIndexes(e, m).indexes]
Fragments(modules) ==
  FlattenSeq([n \in DOMAIN modules |->
    LET entities == Entities(modules[n]) IN [k \in DOMAIN entities |-> Fragment(entities[k], modules[n])]])

\* Two entities of one table.
CheckTableNames(fragments) ==
  {"CG062" : n \in {k \in DOMAIN fragments : \E j \in 1..k - 1 : fragments[j].table = fragments[k].table}}

IndexNames(fragment) == {x.name : x \in Range(fragment.indexes)}

\* checkPhysicalNames: the tables and the indexes of a project share one name space each.
CheckPhysicalNames(fragments) ==
  CheckTableNames(fragments)
  \cup {"CG063" : n \in {k \in DOMAIN fragments :
                           \E j \in 1..k - 1 : IndexNames(fragments[j]) \cap IndexNames(fragments[k]) # {}}}

CompileDescriptors(modules) ==
  LET declared == UNION {UNION {CompileEntity(e, m) : e \in Range(Entities(m))} : m \in Range(modules)} IN
  IF declared # {} THEN declared ELSE CheckPhysicalNames(Fragments(modules))

(***************************************************************************)
(* The process: gnentity.Compile, by reflection.                            *)
(***************************************************************************)
\* inferLogicalType: a pointer makes the column nullable.
InferLogicalType(f) ==
  [logical |-> LogicalType(f.type, IsJSON(f), IsTransient(f)), nullable |-> f.type.pointers = 1]

\* parseConstraints; a constraint that is not there is 0 or "".
ParseConstraints(cool) ==
  [size |-> IF HasItem(cool, "size") THEN Number(ItemValue(cool, "size")) ELSE 0,
   precision |-> IF HasItem(cool, "precision") THEN Number(ItemValue(cool, "precision")) ELSE 0,
   scale |-> IF HasItem(cool, "scale") THEN Number(ItemValue(cool, "scale")) ELSE 0,
   default |-> IF HasItem(cool, "default") THEN ItemValue(cool, "default") ELSE ""]

\* parseBusinessField succeeds.
BusinessFieldCompiles(f) ==
  /\ f.json # Absent /\ Legal("camel", f.json)
  /\ ~Blank(f.description)
  /\ WellFormed(f.cool)
  /\ ColumnTag(f)
  /\ InferLogicalType(f).logical # ""
  /\ ValidateCoolTag(f.cool, InferLogicalType(f).logical)

ParseBusinessField(f) ==
  [name |-> f.json, column |-> IF IsTransient(f) THEN "" ELSE f.orm,
   logical |-> InferLogicalType(f).logical, nullable |-> InferLogicalType(f).nullable,
   persistent |-> ~IsTransient(f), primary |-> FALSE, constraints |-> ParseConstraints(f.cool)]

BaseField(name, logical) ==
  [name |-> name, column |-> name, logical |-> logical, nullable |-> FALSE,
   persistent |-> TRUE, primary |-> name = "id", constraints |-> ParseConstraints(Absent)]

BaseFields == << BaseField("id", "uint"), BaseField("createTime", "time"), BaseField("updateTime", "time") >>

CompiledFields(e) ==
  LET business == Business(e) IN BaseFields \o [n \in DOMAIN business |-> ParseBusinessField(business[n])]

Persistent(fields) == SelectSeq(fields, LAMBDA f : f.persistent)

\* compileIndexes
IndexesCompile(table, indexes, fields) ==
  LET all == SystemIndexes(table) \o indexes IN
  /\ \A n \in DOMAIN indexes : /\ Legal("index", indexes[n].name)
                               /\ indexes[n].fields # <<>>
                               /\ IsInjective(indexes[n].fields)
                               /\ Range(indexes[n].fields) \subseteq {f.name : f \in Range(Persistent(fields))}
  /\ \A n, k \in DOMAIN all : all[n].name = all[k].name => n = k

\* Compile succeeds on the struct and the value of its Schema function.
Compiles(fragment) ==
  LET e == fragment.entity
      fields == CompiledFields(e)
      stored == Persistent(fields) IN
  /\ Len(Embedded(e, "Meta")) = 1 /\ Len(Embedded(e, "Base")) = 1 /\ Embedded(e, "other") = <<>>
  /\ TableName(e) # "" /\ Legal("table", TableName(e))
  /\ \A f \in Range(Business(e)) : f.exported /\ BusinessFieldCompiles(f)
  /\ \A n, k \in DOMAIN fields : fields[n].name = fields[k].name => n = k
  /\ \A n, k \in DOMAIN stored : stored[n].column = stored[k].column => n = k
  /\ IndexesCompile(TableName(e), SubSeq(fragment.indexes, 3, Len(fragment.indexes)), fields)

(***************************************************************************)
(* The table: expectedTable.                                                *)
(***************************************************************************)
\* columnType and typeName, up to the spelling of the dialect.
ColumnType(f) ==
  IF f.primary THEN "primary key"
  ELSE f.logical \o (IF f.constraints.size > 0 THEN " sized" ELSE "") \o (IF f.constraints.precision > 0 THEN " exact" ELSE "")

ExpectedTable(fragment) ==
  LET fields == Persistent(CompiledFields(fragment.entity))
      named(column) == CHOOSE f \in Range(fields) : f.column = column
      columnOf(name) == (CHOOSE f \in Range(fields) : f.name = name).column IN
  [columns |-> [column \in {f.column : f \in Range(fields)} |->
                  [shape |-> ColumnType(named(column)), nullable |-> named(column).nullable,
                   default |-> named(column).constraints.default # ""]],
   indexes |-> [name \in IndexNames(fragment) |->
                  LET index == CHOOSE x \in Range(fragment.indexes) : x.name = name IN
                  [columns |-> [n \in DOMAIN index.fields |-> columnOf(index.fields[n])], unique |-> index.unique]]]
=============================================================================
