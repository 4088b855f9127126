--------------------------- MODULE ModuleSources ---------------------------
(***************************************************************************)
(* What the generator finds in the source of a module besides its entities, *)
(* services and controllers: the directories, the ModuleConfig declaration, *)
(* the constructors with the roles of their results, the consumers and the  *)
(* gRPC registrars (cool-next/codegen: analyze.go, module.go,               *)
(* constructor.go, consumer_analysis.go, grpc_analysis.go).                 *)
(*                                                                          *)
(* The Go type checker is the constant Types: for the word of a type, the   *)
(* module that declares it ("" for none), its package, whether it is below  *)
(* contract/, whether it is a pointer to a named type or an interface, and  *)
(* its methods.  A method is there only with the signature its role asks    *)
(* for; the method "Transport" stands for Name, Prepare, Start and Stop of  *)
(* a transport, "Adapter" for those of a consumer adapter.  Declarations    *)
(* are listed in the order the generator sorts them in.                     *)
(***************************************************************************)
EXTENDS EntityDeclarations, ModuleGraph

CONSTANTS Types, Dynamic  \* an expression that is no constant

Methods(type) == Types[type].methods

Given(field, default) == IF field = Absent THEN default ELSE field

\* types.AssignableTo
AssignableTo(from, to) == from = to \/ (Types[to].interface /\ Methods(to) \subseteq Methods(from))

(***************************************************************************)
(* Directories: moduleRoots, checkDirs, NewIdentity.                        *)
(***************************************************************************)
ModuleDirs == {"contract", "entity", "service", "controller", "middleware", "event", "schedule", "queue",
               "consumer", "dto", "grpc"}

\* allowedDir, of a path below a module
AllowedDir(path) == path # <<>> /\ Head(path) \in ModuleDirs

\* The directories with a config.go: the modules and the nested ones.
Candidates(project) == {[path |-> m.path, declares |-> m.config.declared > 0] : m \in Range(project.modules)} \cup project.nested

Above(root, candidate) == IsStrictPrefix(root.path, candidate.path)
Roots(project) == {c \in Candidates(project) : ~\E r \in Candidates(project) : Above(r, c)}

\* A config.go below a module belongs to it, unless it declares a module or
\* lies in a directory the module may not have.
Overlaps(c, project) ==
  \E r \in Roots(project) : /\ Above(r, c)
                            /\ c.declares \/ ~AllowedDir(SubSeq(c.path, Len(r.path) + 1, Len(c.path)))

ModuleRoots(project) == {"CG003" : c \in {d \in Candidates(project) : Overlaps(d, project)}}

\* checkDirs: entries is what the directory of a module holds.
CheckDirs(project) ==
  {"CG111" : m \in {n \in Range(project.modules) :
     \E x \in n.entries : IF x.directory THEN x.name \notin ModuleDirs ELSE x.go /\ x.name # "config.go"}}

Identity(m) == IF ValidIdentity(m.key) THEN {} ELSE {"CG004"}

(***************************************************************************)
(* ModuleConfig: analyzeConfig, findReferences, resolveReference.           *)
(***************************************************************************)
\* declarationText and declarationOrder: what is no constant counts as not there.
DeclarationText(value) == IF value \in {Dynamic, Absent} THEN "" ELSE value
DeclarationOrder(value) == IF value \in {Dynamic, Absent} THEN 0 ELSE value

\* A reference is [call, symbol, pkg, name]: the constant it is written as, split at its last dot.
Targets(reference, m) == {f \in m.functions : f.pkg = reference.pkg /\ f.name = reference.name}

ResolveReference(reference, m) ==
  CASE ~reference.call -> {"CG014"}
    [] reference.call /\ reference.symbol = Dynamic -> {"CG015"}
    [] reference.call /\ reference.symbol # Dynamic /\ reference.pkg = "" -> {"CG016"}
    [] OTHER ->
         IF reference.pkg \notin m.packages THEN {"CG017"}
         ELSE IF Targets(reference, m) = {} THEN {"CG018"}
         ELSE IF \E f \in Targets(reference, m) : ~f.middleware THEN {"CG104"}
         ELSE IF \E f \in Targets(reference, m) : ~f.eligible THEN {"CG019"}
         ELSE {}

FindReferences(m) ==
  UNION {IF list.items = Absent THEN {"CG013"} ELSE UNION {ResolveReference(r, m) : r \in Range(list.items)} :
           list \in Range(m.config.lists)}

AnalyzeConfig(m) ==
  CASE m.config.declared # 1 -> {"CG010"}
    [] m.config.declared = 1 /\ ~m.config.signature -> {"CG011"}
    [] m.config.declared = 1 /\ m.config.signature /\ ~m.config.static -> {"CG012"}
    [] OTHER -> FindReferences(m)

\* The middleware a module names, for its own routes or for all of them, as
\* far as the references were found.
Found(list, m) == SelectSeq(Given(list.items, <<>>), LAMBDA r : ResolveReference(r, m) = {})

References(m, group) ==
  FlattenSeq([n \in DOMAIN m.config.lists |->
    LET found == Found(m.config.lists[n], m) IN
    IF m.config.lists[n].group = group THEN [k \in DOMAIN found |-> found[k].symbol] ELSE <<>>])

(***************************************************************************)
(* Constructors: New, New... outside of ModuleConfig and the schemas.       *)
(***************************************************************************)
\* implementsLifecycle, of each of its three methods
Lifecycle(type) ==
  {hook \in {"init", "start", "stop"} :
     (CASE hook = "init" -> "OnInit" [] hook = "start" -> "OnStart" [] hook = "stop" -> "OnStop") \in Methods(type)}

ImplementsTransport(type) == "Transport" \in Methods(type)
ImplementsPublisher(type) == "Publish" \in Methods(type)
IsConsumerAdapter(type) == "Adapter" \in Methods(type)

IsConsumerSource(c) == c.dir = "consumer"
NeedsEnqueuer(c) == "outbox.Enqueuer" \in Range(c.parameters)

\* constructorResult and consumerResult: *T, or a definition from consumer/.
ConstructorResult(c) == c.result # Absent /\ Types[c.result].pointer
ConsumerResult(c) == IsConsumerSource(c) /\ c.result = "outbox.ConsumerDefinition"

\* consumerMetadata: one outbox.Consume call whose metadata are constants and pass outbox.Consume.
ConsumerMetadata(c) ==
  /\ Len(c.consumes) = 1
  /\ LET call == Head(c.consumes) IN
     /\ Dynamic \notin {call.name, call.topic, call.message} /\ call.versions # Dynamic
     /\ \A text \in {call.name, call.topic, call.message} : Legal("text", text)
     /\ call.versions # <<>>
     /\ \A n \in DOMAIN call.versions : call.versions[n] > 0
     /\ IsInjective(call.versions)

Rejected(c) ==
  CASE c.generic -> {"CG021"}
    [] ~c.generic /\ ~ConstructorResult(c) /\ ~ConsumerResult(c) -> {"CG022"}
    [] ~c.generic /\ ~ConstructorResult(c) /\ ConsumerResult(c) /\ ~ConsumerMetadata(c) -> {"CG105"}
    [] OTHER -> {}

AnalyzeConstructors(m) == UNION {Rejected(c) : c \in Range(m.constructors)}

\* checkConsumerNames, over the modules of a project
ConsumerName(c) == Head(c.consumes).name
Consumers(project) ==
  FlattenSeq([n \in DOMAIN project.modules |->
    SelectSeq(project.modules[n].constructors, LAMBDA c : ConsumerResult(c) /\ Rejected(c) = {})])

CheckConsumerNames(project) ==
  LET names == [n \in DOMAIN Consumers(project) |-> ConsumerName(Consumers(project)[n])] IN
  IF IsInjective(names) THEN {} ELSE {"CG106"}

(***************************************************************************)
(* gRPC: analyzeGRPC.                                                       *)
(***************************************************************************)
\* A Register function counts below grpc/, or when it takes the server.
Registers(f) == f.name = "Register" /\ (f.dir = "grpc" \/ f.server)
ValidGRPCRegistrar(f) == f.server /\ f.signature

Registrars(m) == SelectSeq(m.registrars, Registers)

AnalyzeGRPC(m) ==
  {"CG106" : f \in {g \in Range(m.registrars) : g.dir = "service" /\ g.protobuf}}
  \cup {"CG105" : f \in {g \in Range(Registrars(m)) : ~ValidGRPCRegistrar(g)}}

(***************************************************************************)
(* Calls of the query builder: query_validate.go.  A use is [function,      *)
(* direct, argument]: whether the function is called where it is named, and *)
(* the argument that must be constant.                                      *)
(***************************************************************************)
QueryNames == {"NewColumnRef", "NewColumnRefOf", "All", "EqFrom", "LikeFrom", "As", "LeftJoin", "InnerJoin", "Of"}

CheckQueryCall(u) ==
  CASE u.function = "RawWhere" /\ (u.argument = Dynamic \/ Blank(u.argument)) -> {"CG065"}
    [] u.function \in QueryNames /\ u.argument = Dynamic -> {"CG066"}
    [] u.function \in QueryNames /\ u.argument # Dynamic /\ ~Legal("camel", u.argument) -> {"CG067"}
    [] OTHER -> {}

CheckNativeCall(u) ==
  IF u.function = "NativeSQL" /\ (u.argument = Dynamic \/ Blank(u.argument)) THEN {"CG098"} ELSE {}

\* checkQueryRef, checkNativeRef: no raw text through a function value.
CheckQueryRef(u) == IF u.function = "RawWhere" /\ ~u.direct THEN {"CG065"} ELSE {}
CheckNativeRef(u) == IF u.function = "NativeSQL" /\ ~u.direct THEN {"CG098"} ELSE {}

CheckDBBypass(u) ==
  IF u.function \in {"Model.Raw", "Model.DB", "Model.TX", "Model.Unscoped", "TX.Exec", "TX.Query"} THEN {"CG099"} ELSE {}

AnalyzeQueryDSL(m) ==
  UNION {(IF u.direct THEN CheckQueryCall(u) \cup CheckNativeCall(u) ELSE {})
         \cup CheckQueryRef(u) \cup CheckNativeRef(u) \cup CheckDBBypass(u) : u \in m.uses}

\* analyzeModule without services and controllers
AnalyzeModule(m) ==
  IF Identity(m) # {} THEN Identity(m)
  ELSE AnalyzeQueryDSL(m) \cup AnalyzeConfig(m) \cup AnalyzeEntities(m) \cup AnalyzeConstructors(m) \cup AnalyzeGRPC(m)
=============================================================================
