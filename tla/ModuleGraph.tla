---------------------------- MODULE ModuleGraph -----------------------------
(***************************************************************************)
(* cool-next/core/module: what BuildGraph demands of the static registry.   *)
(* The generated package calls MustBuildGraph, so a registry that fails a   *)
(* check here stops the process with a panic before it has started.         *)
(***************************************************************************)
EXTENDS RouteTable, SequencesExt

ComponentKey(x) == [module |-> x.module, pkg |-> x.pkg, name |-> x.name]

\* The key of a provider leaves its type out; a dependency compares it as well.
ProviderKey(p) == [kind |-> p.kind, module |-> p.module, pkg |-> p.pkg, name |-> p.name]

IsComponentProvider(p) == p.kind \in {"component", "outbox-consumer"}

DistinctBy(Key(_), s) == \A n, m \in DOMAIN s : Key(s[n]) = Key(s[m]) => n = m

\* checkDecl: the texts of a module and its middleware references.
ValidDeclaration(d) ==
  /\ Legal("text", d.name)
  /\ Legal("text", d.description)
  /\ Listed(d.middlewares, "reference")
  /\ Listed(d.globals, "reference")

\* checkIdentity and checkDir
ValidIdentity(key) == Legal("directory", key)

Keyed(m) == m.key
ValidModules(modules) ==
  /\ \A n \in DOMAIN modules : ValidIdentity(modules[n].key) /\ ValidDeclaration(modules[n])
  /\ DistinctBy(Keyed, modules)

KnownModule(key, modules) == \E n \in DOMAIN modules : modules[n].key = key

\* checkComponent, and the same part of checkProvider
ValidSymbol(x, modules) ==
  /\ KnownModule(x.module, modules)
  /\ Legal("package", x.pkg)
  /\ Legal("identifier", x.name)

ProviderKinds == {"config", "seed", "component", "descriptor", "base", "outbox-enqueuer", "outbox-consumer"}

ValidProviders(providers, modules) ==
  /\ \A n \in DOMAIN providers : /\ providers[n].kind \in ProviderKinds
                                 /\ ValidSymbol(providers[n], modules)
                                 /\ Legal("type", providers[n].type)
  /\ DistinctBy(ProviderKey, providers)
  /\ DistinctBy(ComponentKey, SelectSeq(providers, IsComponentProvider))

\* The components that a provider of kind component or consumer stands for.
Provided(providers) == {ComponentKey(p) : p \in {q \in Range(providers) : IsComponentProvider(q)}}

ValidComponents(components, providers, modules) ==
  /\ \A n \in DOMAIN components : ValidSymbol(components[n], modules)
  /\ IsInjective(components)
  /\ Range(components) = Provided(providers)

\* A reference to a provider names one that is registered with the same type.
Registered(p, providers) == p \in Range(providers)

DescribedBy(d) == ProviderKey(d.provider)
Table(d) == d.table
ValidDescriptors(descriptors, providers, modules) ==
  /\ \A n \in DOMAIN descriptors : LET d == descriptors[n] IN
       /\ KnownModule(d.module, modules)
       /\ d.provider.kind = "descriptor"
       /\ d.provider.module = d.module
       /\ Registered(d.provider, providers)
       /\ Legal("table", d.table)
  /\ DistinctBy(DescribedBy, descriptors)
  /\ DistinctBy(Table, descriptors)
  /\ {p \in Range(providers) : p.kind = "descriptor"} = {descriptors[n].provider : n \in DOMAIN descriptors}

Position(component, components) == SelectInSeq(components, LAMBDA c : c = component)

Parameter(d) == << d.consumer, d.index >>

\* compileDependencies: a component comes after the components it is given.
ValidDependencies(dependencies, components, providers) ==
  /\ \A n \in DOMAIN dependencies : LET d == dependencies[n] IN
       /\ d.consumer \in Range(components)
       /\ Registered(d.provider, providers)
       /\ d.index >= 0
       /\ IsComponentProvider(d.provider) =>
            Position(ComponentKey(d.provider), components) < Position(d.consumer, components)
  /\ DistinctBy(Parameter, dependencies)
  /\ \A c \in Range(components) :
       LET indexes == {d.index : d \in {e \in Range(dependencies) : e.consumer = c}} IN
       indexes = 0..Cardinality(indexes) - 1

Owner(l) == l.component
ValidLifecycles(lifecycles, components, providers) ==
  /\ {lifecycles[n].component : n \in DOMAIN lifecycles} = Range(components)
  /\ DistinctBy(Owner, lifecycles)

ValidTransports(transports, components) ==
  Range(transports) \subseteq Range(components) /\ IsInjective(transports)

(***************************************************************************)
(* compileOutbox                                                            *)
(***************************************************************************)
\* compileRole; 0 is no limit.
ValidRole(members, components, maximum) ==
  /\ maximum > 0 => Len(members) <= maximum
  /\ Range(members) \subseteq Range(components)
  /\ IsInjective(members)

ValidRoles(outbox, components) ==
  /\ \A role \in {"producers", "consumers"} : ValidRole(outbox[role], components, 0)
  /\ \A role \in {"publishers", "adapters", "workers", "runtimes"} : ValidRole(outbox[role], components, 1)

Depends(dependencies, consumer, provider) ==
  \E d \in Range(dependencies) : /\ d.consumer = consumer
                                 /\ IsComponentProvider(d.provider)
                                 /\ ComponentKey(d.provider) = provider

LifecycleOf(c, lifecycles) == (CHOOSE l \in Range(lifecycles) : l.component = c).hooks

CountKind(providers, kind) == Len(SelectSeq(providers, LAMBDA p : p.kind = kind))

\* checkProducer
ValidProducers(outbox, input) ==
  IF outbox.producers = <<>> THEN outbox.workers = <<>>
  ELSE /\ outbox.publishers # <<>> /\ outbox.workers # <<>>
       /\ CountKind(input.providers, "outbox-enqueuer") = 1
       /\ \A p \in Range(outbox.producers) : \E d \in Range(input.dependencies) :
            d.consumer = p /\ d.provider.kind = "outbox-enqueuer"
       /\ Depends(input.dependencies, Head(outbox.workers), Head(outbox.publishers))
       /\ LifecycleOf(Head(outbox.workers), input.lifecycles) = {"start", "stop", "supervisor"}

\* checkConsumer
ValidConsumers(outbox, input) ==
  IF outbox.consumers = <<>> THEN outbox.runtimes = <<>>
  ELSE /\ outbox.adapters # <<>> /\ outbox.runtimes # <<>>
       /\ \A c \in Range(outbox.consumers) :
            /\ \E p \in Range(input.providers) : p.kind = "outbox-consumer" /\ ComponentKey(p) = c
            /\ Depends(input.dependencies, Head(outbox.runtimes), c)
       /\ Depends(input.dependencies, Head(outbox.runtimes), Head(outbox.adapters))
       /\ LifecycleOf(Head(outbox.runtimes), input.lifecycles) = {"init", "start", "stop", "supervisor"}

(***************************************************************************)
(* BuildGraph                                                               *)
(***************************************************************************)
BuildGraph(input) ==
  /\ ValidModules(input.modules)
  /\ BuildTable(input.controllers, input.routes)
  /\ ValidProviders(input.providers, input.modules)
  /\ ValidComponents(input.components, input.providers, input.modules)
  /\ ValidDescriptors(input.descriptors, input.providers, input.modules)
  /\ ValidDependencies(input.dependencies, input.components, input.providers)
  /\ ValidLifecycles(input.lifecycles, input.components, input.providers)
  /\ ValidTransports(input.transports, input.components)
  /\ ValidRoles(input.outbox, input.components)
  /\ ValidProducers(input.outbox, input)
  /\ ValidConsumers(input.outbox, input)

\* compileTransports: the transports by their position in the component order.
TransportPositions(input) == {n \in DOMAIN input.components : input.components[n] \in Range(input.transports)}
=============================================================================
