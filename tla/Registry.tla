------------------------------ MODULE Registry ------------------------------
(***************************************************************************)
(* Rendering (cool-next/codegen/render.go): the checks before the package   *)
(* is written, the static registry it hands to module.MustBuildGraph, and   *)
(* the assembly its function assemble puts together.  That both list the    *)
(* same components in the same order is what the application checks when it *)
(* starts.                                                                  *)
(*                                                                          *)
(* A project here has passed the stages before; modules are its modules,    *)
(* fragments the descriptors of its entities and graph its provider graph.  *)
(***************************************************************************)
EXTENDS ProviderGraph

(***************************************************************************)
(* Roles of components                                                      *)
(***************************************************************************)
Result(component) == component.constructor.result
Offers(component, method) == ConstructorResult(component.constructor) /\ method \in Methods(Result(component))

\* hasAuthProviders, hasProvider
HasProvider(graph, pkg, names) ==
  \E p \in Range(graph.providers) : p.module = FrameworkModule /\ p.pkg = pkg /\ p.name \in names
HasAuth(graph) == HasProvider(graph, "auth", {"Service", "Codec", "Store"})

IsConstructed(p, components) == \E c \in Range(components) : ComponentKey(p) = ComponentKey(c)

\* The edges between components, for the closure of what one needs.
Uses(graph) == {<< d.consumer, ComponentKey(d.provider) >> : d \in Range(graph.dependencies)}

\* authorizerComponent: the first with an Authorize method; authDeps: it and what it needs.
Authorizers(components) == SelectSeq(components, LAMBDA c : Offers(c, "Authorize"))

AuthDeps(graph) ==
  LET found == Authorizers(graph.components) IN
  IF found = <<>> THEN {}
  ELSE Reachable({ComponentKey(Head(found))}, Uses(graph), Len(graph.components))

IsAuthDep(component, graph) == ComponentKey(component) \in AuthDeps(graph)

\* assemblyComponents
AssemblyComponents(graph) ==
  LET first == AuthDeps(graph) IN
  SelectSeq(graph.components, LAMBDA c : ComponentKey(c) \in first)
    \o SelectSeq(graph.components, LAMBDA c : ComponentKey(c) \notin first)

(***************************************************************************)
(* The checks: renderModel, checkControllers, checkHTTP, the type checker.  *)
(***************************************************************************)
RenderModel(modules) ==
  {"CG073" : m \in {n \in Range(modules) : "" \in {DeclarationText(n.config.name), DeclarationText(n.config.description)}}}

\* The components an argument can be taken from.
Suppliers(type, components) == {n \in DOMAIN components : AssignableTo(Result(components[n]), type)}

CheckControllers(modules, components) ==
  {"CG098" : m \in {n \in Range(modules) : \E f \in Range(Accepted(n)) : \E t \in Range(f.parameters) :
                      Cardinality(Suppliers(t, components)) # 1}}

\* middlewareComponent
HasMiddleware(reference, m, components) ==
  \E c \in Range(components) : /\ c.module = m.key
                               /\ c.pkg = reference.pkg /\ c.name = reference.name
                               /\ Offers(c, "Handle")

\* The middleware references of a module, its controllers and their routes.
Listing(list) == IF list = Absent THEN {} ELSE Range(list)
MiddlewareOf(m) ==
  UNION {Listing(list.items) : list \in Range(m.config.lists)}
  \cup UNION {Listing(Options(f).middleware) \cup UNION {Listing(r.middleware) : r \in Range(f.routes)} : f \in Range(Accepted(m))}

\* handlerComponent: the component a method handler is called on.
HasReceiver(handler, components) == handler.receiver = "" \/ \E c \in Range(components) : Result(c) = handler.receiver

CheckHTTP(modules, graph) ==
  LET authenticators == Len(SelectSeq(graph.components, LAMBDA c : Offers(c, "AuthenticateHTTP")))
                        + (IF HasAuth(graph) THEN 1 ELSE 0)
      served == {m \in Range(modules) : Accepted(m) # <<>>} IN
  IF served = {} THEN {}
  ELSE IF authenticators # 1 THEN {"CG105"}
  ELSE {"CG106" : m \in {n \in Range(modules) : \E r \in MiddlewareOf(n) : ~HasMiddleware(r, n, graph.components)}}
       \cup {"CG107" : m \in {n \in served : \E f \in Range(Accepted(n)) :
               DefaultRoutes(n, f) # <<>> /\ Suppliers(Head(f.curds).service, graph.components) = {}}}
       \cup {"CG108" : m \in {n \in served : \E f \in Range(Accepted(n)) : \E r \in Range(f.routes) :
               ~HasReceiver(r.handler, graph.components)}}

HasSeedModules(modules) == \E m \in Range(modules) : m.seedDB \/ m.seedMenu
HasOutbox(graph) == Producers(graph.components) # <<>> \/ ConsumerNodes(graph.components) # <<>>
HasControllers(modules) == \E m \in Range(modules) : Accepted(m) # <<>>

\* Whether assemble opens the database and synchronises the schema.
HasDataRuntime(modules, fragments, graph) ==
  fragments # <<>> \/ HasOutbox(graph) \/ HasControllers(modules) \/ HasSeedModules(modules)

\* A variable of assemble that nothing reads.
Unread(c, modules, graph) ==
  /\ ConstructorResult(c.constructor)
  /\ \/ ImplementsPublisher(Result(c)) /\ Producers(graph.components) = <<>>
     \/ IsConsumerAdapter(Result(c)) /\ ConsumerNodes(graph.components) = <<>>
  /\ Lifecycle(Result(c)) = {} /\ ~ImplementsTransport(Result(c))
  /\ ~\E e \in Uses(graph) : e[2] = ComponentKey(c)
  /\ ~\E m \in Range(modules) : \E f \in Range(Accepted(m)) : \E t \in Range(f.parameters) : AssignableTo(Result(c), t)

\* checkCandidate, for what the templates can get wrong: the package db is
\* imported for entities and the outbox only, the authorizer and what it
\* needs come before three variables, and Go refuses variables that are not read.
CheckCandidate(modules, fragments, graph) ==
  LET late == {"*auth.Service", "*bcrypt.Verifier", "*risk.Service"}
      early == {c \in Range(graph.components) : HasAuth(graph) /\ IsAuthDep(c, graph)} IN
  IF \/ HasDataRuntime(modules, fragments, graph) /\ fragments = <<>> /\ ~HasOutbox(graph)
     \/ \E c \in early : Range(c.constructor.parameters) \cap late # {}
     \/ \E c \in Range(graph.components) : Unread(c, modules, graph)
  THEN {"CG092"} ELSE {}

Render(modules, graph) ==
  CASE RenderModel(modules) # {} -> RenderModel(modules)
    [] RenderModel(modules) = {} /\ CheckControllers(modules, graph.components) # {} -> CheckControllers(modules, graph.components)
    [] OTHER -> CheckHTTP(modules, graph)

(***************************************************************************)
(* The registry: writeGenerated up to MustBuildGraph.                       *)
(***************************************************************************)
Framework(pkg, name) == [module |-> FrameworkModule, pkg |-> pkg, name |-> name]
HTTPTransport == Framework("core/gnhttp", "New")
GRPCTransport == Framework("grpc", "New")
Worker == Framework("outbox", "NewWorker")
ConsumerRuntime == Framework("outbox", "NewConsumerRuntime")

Provides(component, type) ==
  [kind |-> "component", module |-> component.module, pkg |-> component.pkg, name |-> component.name, type |-> type]

\* appendProvider, by the key of the provider
AppendProvider(providers, p) ==
  IF \E q \in Range(providers) : ProviderKey(q) = ProviderKey(p) THEN providers ELSE Append(providers, p)

Declared(p) == [kind |-> p.kind, module |-> p.module, pkg |-> p.pkg, name |-> p.name, type |-> p.type]

GraphProviders(graph) ==
  LET known == [n \in DOMAIN graph.providers |-> Declared(graph.providers[n])]
      added == << Provides(HTTPTransport, "*gnhttp.Transport"), Provides(GRPCTransport, "*grpc.Transport"),
                  Provides(Framework("db", "Runtime"), "*db.Runtime") >>
               \o (IF Producers(graph.components) = <<>> THEN <<>> ELSE << Provides(Worker, "*outbox.Worker") >>)
               \o (IF ConsumerNodes(graph.components) = <<>> THEN <<>>
                   ELSE << Provides(ConsumerRuntime, "*outbox.ConsumerRuntime") >>) IN
  FoldLeft(AppendProvider, known, added)

\* The framework's components come first and the transports last, whatever
\* they are given.
Definitions(graph) ==
  LET providers == GraphProviders(graph)
      infrastructure == SelectSeq(providers, LAMBDA p :
        IsComponentProvider(p) /\ p.pkg \notin {"core/gnhttp", "grpc"} /\ ~IsConstructed(p, graph.components))
      built == AssemblyComponents(graph) IN
  [n \in DOMAIN infrastructure |-> ComponentKey(infrastructure[n])]
    \o [n \in DOMAIN built |-> ComponentKey(built[n])]
    \o << HTTPTransport, GRPCTransport >>

HooksOf(component, graph) ==
  CASE component = Worker -> {"start", "stop", "supervisor"}
    [] component = ConsumerRuntime -> {"init", "start", "stop", "supervisor"}
    [] \E c \in Range(graph.components) : ComponentKey(c) = component ->
         LET c == CHOOSE x \in Range(graph.components) : ComponentKey(x) = component IN
         IF ConstructorResult(c.constructor) THEN Lifecycle(Result(c)) ELSE {}
    [] OTHER -> {}

IsTransportComponent(c) == ConstructorResult(c.constructor) /\ ImplementsTransport(Result(c))

Keys(components) == [n \in DOMAIN components |-> ComponentKey(components[n])]
ProviderOf(component, graph) == Declared(CHOOSE p \in Range(graph.providers) : IsComponentProvider(p) /\ ComponentKey(p) = ComponentKey(component))

\* The dependencies of the provider graph and those of the outbox.
RegistryDependencies(graph) ==
  LET producers == Producers(graph.components)
      consumers == ConsumerNodes(graph.components)
      edge(consumer, index, component) == [consumer |-> consumer, index |-> index, provider |-> ProviderOf(component, graph)] IN
  [n \in DOMAIN graph.dependencies |-> [graph.dependencies[n] EXCEPT !.provider = Declared(@)]]
    \o (IF producers = <<>> THEN <<>> ELSE << edge(Worker, 0, Head(Publishers(graph.components))) >>)
    \o (IF consumers = <<>> THEN <<>>
        ELSE << edge(ConsumerRuntime, 0, Head(Adapters(graph.components))) >>
             \o [n \in DOMAIN consumers |-> edge(ConsumerRuntime, n, consumers[n])])

ModuleDefinition(m) ==
  [key |-> m.key, name |-> DeclarationText(m.config.name), description |-> DeclarationText(m.config.description),
   middlewares |-> References(m, "Middlewares"), globals |-> References(m, "GlobalMiddlewares"),
   order |-> DeclarationOrder(m.config.order)]

OutboxDefinition(graph) ==
  LET when(members, component) == IF members = <<>> THEN <<>> ELSE << component >> IN
  [producers |-> Keys(Producers(graph.components)), consumers |-> Keys(ConsumerNodes(graph.components)),
   publishers |-> Keys(Publishers(graph.components)), adapters |-> Keys(Adapters(graph.components)),
   workers |-> when(Producers(graph.components), Worker),
   runtimes |-> when(ConsumerNodes(graph.components), ConsumerRuntime)]

GraphInput(modules, fragments, graph) ==
  LET components == Definitions(graph) IN
  [modules |-> [n \in DOMAIN modules |-> ModuleDefinition(modules[n])]
               \o << [key |-> FrameworkModule, name |-> "Cool Framework", description |-> "infrastructure",
                      middlewares |-> <<>>, globals |-> <<>>, order |-> 0] >>,
   controllers |-> ProjectControllers(modules), routes |-> ProjectRoutes(modules),
   providers |-> GraphProviders(graph), components |-> components,
   lifecycles |-> [n \in DOMAIN components |-> [component |-> components[n], hooks |-> HooksOf(components[n], graph)]],
   transports |-> Keys(SelectSeq(graph.components, IsTransportComponent)) \o << HTTPTransport, GRPCTransport >>,
   dependencies |-> RegistryDependencies(graph),
   descriptors |-> [n \in DOMAIN fragments |-> LET e == fragments[n].entity IN
                      [module |-> fragments[n].module, table |-> fragments[n].table,
                       provider |-> [kind |-> "descriptor", module |-> fragments[n].module, pkg |-> e.pkg,
                                     name |-> e.descriptorType, type |-> e.descriptorType]]],
   outbox |-> OutboxDefinition(graph)]

(***************************************************************************)
(* The assembly: what assemble adds, in its order.                          *)
(***************************************************************************)
Added(component, hooks, transport) == [component |-> component, hooks |-> hooks, transport |-> transport]
AddedConstruction(c, graph) == Added(ComponentKey(c), HooksOf(ComponentKey(c), graph), IsTransportComponent(c))

\* With the database come the services around it.
AddedInfrastructure(modules, fragments, graph) ==
  LET names == (IF HasAuth(graph) THEN << << "auth", "Service" >>, << "auth", "Store" >> >> ELSE <<>>)
               \o (IF HasProvider(graph, "auth/bcrypt", {"Verifier"}) THEN << << "auth/bcrypt", "Verifier" >> >> ELSE <<>>)
               \o << << "db", "Runtime" >> >>
               \o (IF HasProvider(graph, "db/gnrecycle", {"Store"}) THEN << << "db/gnrecycle", "Store" >> >> ELSE <<>>)
               \o (IF HasProvider(graph, "risk", {"Service"}) THEN << << "risk", "Service" >> >> ELSE <<>>) IN
  IF HasDataRuntime(modules, fragments, graph)
  THEN [n \in DOMAIN names |-> Added(Framework(names[n][1], names[n][2]), {}, FALSE)] ELSE <<>>

\* The authorizer and what it needs are constructed for the auth service;
\* where there is none, they are left out.
Constructions(graph) ==
  SelectSeq(AssemblyComponents(graph), LAMBDA c : HasAuth(graph) \/ ~IsAuthDep(c, graph))

Assembly(modules, fragments, graph) ==
  LET built == Constructions(graph)
      last(members, component) == IF members = <<>> THEN <<>> ELSE << Added(component, HooksOf(component, graph), FALSE) >> IN
  AddedInfrastructure(modules, fragments, graph)
    \o [n \in DOMAIN built |-> AddedConstruction(built[n], graph)]
    \o << Added(HTTPTransport, {}, TRUE), Added(GRPCTransport, {}, TRUE) >>
    \o last(Producers(graph.components), Worker)
    \o last(ConsumerNodes(graph.components), ConsumerRuntime)
=============================================================================
