---------------------------- MODULE ProviderGraph ----------------------------
(***************************************************************************)
(* The provider graph of a project whose declarations have no diagnostic:   *)
(* which constructor gives which parameter its argument, and the order in   *)
(* which they are called (cool-next/codegen: graph.go, provider.go,         *)
(* topology.go).                                                            *)
(*                                                                          *)
(* A node is a constructor with its module.  A provider is [kind, module,   *)
(* pkg, name, type, offered, node]: offered is the type it is matched by,   *)
(* "" when nobody asks for it, and node the constructor it stands for or 0. *)
(* The generator stops at its first error; the operators give the codes a   *)
(* stage can end with.                                                      *)
(***************************************************************************)
EXTENDS Controllers

FrameworkModule == ".framework"

\* What assemble creates itself, in the order providers are sorted in.
FrameworkTypes ==
  << [type |-> "auth.Codec", pkg |-> "auth", name |-> "Codec"],
     [type |-> "*auth.Service", pkg |-> "auth", name |-> "Service"],
     [type |-> "auth.Store", pkg |-> "auth", name |-> "Store"],
     [type |-> "*bcrypt.Verifier", pkg |-> "auth/bcrypt", name |-> "Verifier"],
     [type |-> "*db.Runtime", pkg |-> "db", name |-> "Runtime"],
     [type |-> "*gnrecycle.Store", pkg |-> "db/gnrecycle", name |-> "Store"],
     [type |-> "*risk.Service", pkg |-> "risk", name |-> "Service"] >>

Nodes(modules) ==
  FlattenSeq([n \in DOMAIN modules |-> LET m == modules[n] IN
    [k \in DOMAIN m.constructors |->
      [module |-> m.key, pkg |-> m.constructors[k].pkg, name |-> m.constructors[k].name,
       order |-> DeclarationOrder(m.config.order), constructor |-> m.constructors[k]]]])

\* The types the constructors of a project ask for.
Wanted(nodes) == UNION {Range(nodes[n].constructor.parameters) : n \in DOMAIN nodes}

Roles(nodes, Has(_)) == SelectSeq(nodes, LAMBDA node : Has(node.constructor))
Producers(nodes) == Roles(nodes, NeedsEnqueuer)
ConsumerNodes(nodes) == Roles(nodes, ConsumerResult)
Publishers(nodes) == Roles(nodes, LAMBDA c : ConstructorResult(c) /\ ImplementsPublisher(c.result))
Adapters(nodes) == Roles(nodes, LAMBDA c : ConstructorResult(c) /\ IsConsumerAdapter(c.result))

(***************************************************************************)
(* Providers                                                                *)
(***************************************************************************)
Plain(kind, module, pkg, name, type) ==
  [kind |-> kind, module |-> module, pkg |-> pkg, name |-> name, type |-> type, offered |-> type, node |-> 0]

ConfigProviders(modules) ==
  [n \in DOMAIN modules |-> Plain("config", modules[n].key, modules[n].config.pkg, "Config", modules[n].config.type)]

SeedProviders(modules, nodes) ==
  IF "seed.Data" \in Wanted(nodes)
  THEN [n \in DOMAIN modules |-> Plain("seed", modules[n].key, "seed", "Data", "seed.Data")] ELSE <<>>

\* runtimeProviderType, recycleProviderType, addAuthProviders
FrameworkProviders(nodes) ==
  LET used == SelectSeq(FrameworkTypes, LAMBDA t : t.type \in Wanted(nodes)) IN
  [n \in DOMAIN used |-> Plain("component", FrameworkModule, used[n].pkg, used[n].name, used[n].type)]

ConstructorProviders(nodes) ==
  [n \in DOMAIN nodes |-> LET c == nodes[n].constructor IN
    [Plain(IF ConstructorResult(c) THEN "component" ELSE "outbox-consumer", nodes[n].module, c.pkg, c.name, c.result)
       EXCEPT !.node = n]]

EnqueuerProvider(nodes) ==
  IF Producers(nodes) = <<>> THEN <<>>
  ELSE << Plain("outbox-enqueuer", FrameworkModule, "outbox", "Enqueuer", "outbox.Enqueuer") >>

\* The Descriptor and the Base of an entity; baseProviderType finds no type
\* for a Base nobody asks for.
EntityProviders(fragments, nodes) ==
  FlattenSeq([n \in DOMAIN fragments |-> LET e == fragments[n].entity IN
    << Plain("descriptor", fragments[n].module, e.pkg, e.descriptorType, e.descriptorType),
       [Plain("base", fragments[n].module, e.pkg, e.baseType, e.baseType) EXCEPT
          !.offered = IF e.baseType \in Wanted(nodes) THEN e.baseType ELSE ""] >>])

Providers(modules, nodes, fragments) ==
  ConfigProviders(modules) \o SeedProviders(modules, nodes) \o FrameworkProviders(nodes)
    \o ConstructorProviders(nodes) \o EnqueuerProvider(nodes) \o EntityProviders(fragments, nodes)

\* What is checked while the providers are collected.
CheckNodes(nodes) ==
  LET same(n, k) == /\ nodes[n].module = nodes[k].module
                    /\ ConstructorResult(nodes[k].constructor)
                    /\ nodes[n].constructor.result = nodes[k].constructor.result IN
  (IF \E k \in DOMAIN nodes : \E n \in 1..k - 1 : same(n, k) THEN {"CG031"} ELSE {})
  \cup (IF Len(Publishers(nodes)) > 1 THEN {"CG107"} ELSE {})
  \cup (IF Len(Adapters(nodes)) > 1 THEN {"CG108"} ELSE {})
  \cup (IF Producers(nodes) # <<>> /\ Publishers(nodes) = <<>> THEN {"CG109"} ELSE {})
  \cup (IF ConsumerNodes(nodes) # <<>> /\ Adapters(nodes) = <<>> THEN {"CG110"} ELSE {})

(***************************************************************************)
(* Dependencies                                                             *)
(***************************************************************************)
Candidate(p, parameter) ==
  /\ p.offered # ""
  /\ AssignableTo(p.offered, parameter)
  /\ p.kind = "descriptor" => p.offered = parameter

\* Another module gives its components, through an interface only one of its contract/.
AllowCrossModuleDep(p, parameter) ==
  /\ p.kind \notin {"config", "seed"}
  /\ Types[parameter].interface => Types[parameter].contract

\* A parameter whose type a module declares is that module's to provide.
Matches(p, node, parameter) ==
  LET target == Types[parameter].module
      local == target \in {"", node.module} IN
  \/ p.module = FrameworkModule
  \/ local /\ p.module = node.module
  \/ ~local /\ p.module = target /\ AllowCrossModuleDep(p, parameter)

MatchProviders(node, parameter, providers) ==
  {n \in DOMAIN providers : Candidate(providers[n], parameter) /\ Matches(providers[n], node, parameter)}

ResolveParameter(node, parameter, providers) ==
  LET found == MatchProviders(node, parameter, providers) IN
  CASE Cardinality(found) = 1 -> {}
    [] Cardinality(found) > 1 -> {"CG033"}
    [] OTHER -> IF \E p \in Range(providers) : Candidate(p, parameter) THEN {"CG035"} ELSE {"CG032"}

ResolveDeps(nodes, providers) ==
  UNION {UNION {ResolveParameter(node, t, providers) : t \in Range(node.constructor.parameters)} : node \in Range(nodes)}

\* One dependency for each parameter, counted from 0.
Dependencies(nodes, providers) ==
  FlattenSeq([n \in DOMAIN nodes |-> LET parameters == nodes[n].constructor.parameters IN
    [k \in DOMAIN parameters |->
      [consumer |-> n, index |-> k - 1,
       provider |-> providers[CHOOSE p \in MatchProviders(nodes[n], parameters[k], providers) : TRUE]]]])

(***************************************************************************)
(* Cycles and order                                                         *)
(***************************************************************************)
\* What can be reached from a set along edges; bound is how many there are to reach.
Reachable(start, edges, bound) ==
  FoldLeft(LAMBDA reached, step : reached \cup {e[2] : e \in {x \in edges : x[1] \in reached}},
           start, [n \in 1..bound |-> n])

HasCycle(edges) ==
  \E e \in edges : e[1] \in Reachable({e[2]}, edges, Cardinality(edges))

\* moduleDeps
ModuleEdges(nodes, dependencies) ==
  {e \in {<< nodes[d.consumer].module, d.provider.module >> :
            d \in {x \in Range(dependencies) : x.provider.kind # "outbox-enqueuer"}} : e[1] # e[2]}

ComponentEdges(dependencies) ==
  {<< d.consumer, d.provider.node >> : d \in {x \in Range(dependencies) : x.provider.node # 0}}

\* compareComponents; nodes are listed by module, package and name.
ComesBefore(nodes, a, b) == nodes[a].order > nodes[b].order \/ (nodes[a].order = nodes[b].order /\ a < b)

\* The next of the order is the first of those whose providers are in it.
TakeNode(order, nodes, edges) ==
  LET ready == {n \in DOMAIN nodes \ Range(order) : \A e \in edges : e[1] = n => e[2] \in Range(order)} IN
  IF ready = {} THEN order
  ELSE Append(order, CHOOSE n \in ready : \A k \in ready \ {n} : ComesBefore(nodes, n, k))

TopologicalOrder(nodes, edges) ==
  FoldLeft(LAMBDA order, step : TakeNode(order, nodes, edges), <<>>, [n \in DOMAIN nodes |-> n])

GraphErrors(nodes, providers) ==
  IF CheckNodes(nodes) # {} THEN CheckNodes(nodes)
  ELSE IF ResolveDeps(nodes, providers) # {} THEN ResolveDeps(nodes, providers)
  ELSE LET dependencies == Dependencies(nodes, providers) IN
       IF HasCycle(ModuleEdges(nodes, dependencies)) THEN {"CG036"}
       ELSE IF HasCycle(ComponentEdges(dependencies)) THEN {"CG034"}
       ELSE {}

\* The graph of a project that has no error; its components in their order.
Graph(nodes, providers) ==
  LET dependencies == Dependencies(nodes, providers)
      order == TopologicalOrder(nodes, ComponentEdges(dependencies)) IN
  [components |-> [n \in DOMAIN order |-> nodes[order[n]]], providers |-> providers,
   dependencies |-> [n \in DOMAIN dependencies |-> [dependencies[n] EXCEPT !.consumer = ComponentKey(nodes[@])]]]
=============================================================================
