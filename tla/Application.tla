----------------------------- MODULE Application -----------------------------
(***************************************************************************)
(* From the source of a project to its running instances: the code          *)
(* generator reads the source and writes the registry, "cool build" builds  *)
(* what it has checked, and instances of the build run on one database      *)
(* (cool-next/codegen: pipeline.go, check.go; cmd/cool; core/app).          *)
(***************************************************************************)
EXTENDS Registry, AppLifecycle

CONSTANTS Projects,    \* the sources a developer may leave behind, by name
          Settings,    \* the configurations an application may be started with
          Legacy,      \* the modules an older release may have marked as imported
          MaxReleases  \* how often the source is edited

VARIABLES source,   \* the project that is in the working tree
          registry, \* the project that modules.go was generated from, or Absent
          releases

vars == << source, registry, releases, lifecycleVars >>

(***************************************************************************)
(* The pipeline.                                                            *)
(***************************************************************************)
\* Each stage stops the generator with its errors.
FirstErrors(earlier, later) == IF earlier # {} THEN earlier ELSE later

\* analyzeOverlay
Analyze(project) ==
  FirstErrors(ModuleRoots(project), FirstErrors(CheckDirs(project),
       UNION {AnalyzeModule(m) \cup (IF Identity(m) = {} THEN AnalyzeControllers(m) ELSE {}) : m \in Range(project.modules)}
       \cup CheckConsumerNames(project) \cup CheckRouteConflicts(project.modules)))

(***************************************************************************)
(* The tables of the framework, declared like those of a module.            *)
(***************************************************************************)
Column(name, type, cool) ==
  [embedded |-> "", name |-> name, exported |-> TRUE, json |-> name, orm |-> name, description |-> name,
   cool |-> cool, type |-> type]
Text(pointers) == [pointers |-> pointers, kind |-> "string"]
Sized(size) == << [key |-> "size", assigned |-> TRUE, value |-> size] >>
Embeds(what, table) ==
  [Column(what, Text(0), Absent) EXCEPT !.embedded = what, !.orm = << [key |-> "table", value |-> table] >>]

FrameworkEntity(table, fields, index) ==
  [module |-> FrameworkModule, table |-> table, indexes |-> Append(SystemIndexes(table), index),
   entity |-> [pkg |-> "cool-next", name |-> table, dir |-> "entity", exported |-> TRUE,
               fields |-> << Embeds("Meta", table), Embeds("Base", table) >> \o fields]]

\* lockRecord; SeedKey is the unique index of its key.
LockRecord ==
  FrameworkEntity(SeedLock, << Column("seedKey", Text(0), Sized("191")) >>,
                  [name |-> SeedKey, fields |-> << "seedKey" >>, unique |-> TRUE])

RecycleTable == "cool_recycle"
RecycleRecord ==
  FrameworkEntity(RecycleTable,
    << Column("databaseGroup", Text(0), Sized("128")), Column("tableName", Text(0), Sized("128")),
       Column("data", [pointers |-> 0, kind |-> "bytes"], Absent), Column("count", [pointers |-> 0, kind |-> "uint"], Absent),
       Column("source", Text(1), Sized("2048")), Column("params", Text(1), Sized("4096")),
       Column("operatorType", Text(1), Sized("32")), Column("operatorId", Text(1), Sized("128")) >>,
    [name |-> "idx_cool_recycle_target", fields |-> << "databaseGroup", "tableName" >>, unique |-> FALSE])

(***************************************************************************)
(* What a build does when it is started with settings: [outbox, softDelete, *)
(* initDB, initMenu, disabled].                                             *)
(***************************************************************************)
SyncSteps(fragments) ==
  [n \in DOMAIN fragments |-> [table |-> fragments[n].table, expected |-> ExpectedTable(fragments[n]), last |-> n = Len(fragments)]]

\* The seeds assemble hands to seed.NewRuntime, as far as they are enabled.
Seeds(modules, settings) ==
  FlattenSeq([n \in DOMAIN modules |-> LET m == modules[n] IN
    (IF m.seedDB /\ settings.initDB THEN << [module |-> m.key, kind |-> "db", keyed |-> m.seedKeyed] >> ELSE <<>>)
    \o (IF m.seedMenu /\ settings.initMenu THEN << [module |-> m.key, kind |-> "menu", keyed |-> TRUE] >> ELSE <<>>)])

\* generatedDataRuntime, gnrecycle.Store.Prepare and seed.Store.Prepare
Sync(code, settings) ==
  SyncSteps(code.fragments)
    \o (IF code.fragments # <<>> /\ settings.softDelete THEN SyncSteps(<< RecycleRecord >>) ELSE <<>>)
    \o (IF HasSeedModules(code.modules) /\ (settings.initDB \/ settings.initMenu) THEN SyncSteps(<< LockRecord >>) ELSE <<>>)

\* The components that must be there before one of them.
ComponentNeeds(components, dependencies) ==
  LET position(c) == SelectInSeq(components, LAMBDA x : x = c)
      edges == {<< position(d.consumer), position(ComponentKey(d.provider)) >> :
                  d \in {x \in Range(dependencies) : IsComponentProvider(x.provider)}} IN
  [n \in DOMAIN components |-> Reachable({e[2] : e \in {x \in edges : x[1] = n}}, edges, Len(components))]

\* The generated package; input is what it hands to module.MustBuildGraph.
Package(modules, fragments, graph, input) ==
  [modules |-> modules, fragments |-> fragments,
   components |-> input.components,
   lifecycles |-> [n \in DOMAIN input.lifecycles |-> input.lifecycles[n].hooks],
   transports |-> TransportPositions(input),
   needs |-> ComponentNeeds(input.components, input.dependencies),
   assembly |-> Assembly(modules, fragments, graph),
   opened |-> HasDataRuntime(modules, fragments, graph),
   outbox |-> HasOutbox(graph),
   panic |-> IF ~BuildGraph(input) THEN "graph"
             ELSE IF \E n \in DOMAIN fragments : ~Compiles(fragments[n]) THEN "descriptors"
             ELSE IF \E m \in Range(modules) : \E f \in Range(Accepted(m)) : ~Builds(f) THEN "controllers"
             ELSE "never"]

Generated(codes, modules, fragments, graph) ==
  [codes |-> codes,
   code |-> IF codes = {} THEN << Package(modules, fragments, graph, GraphInput(modules, fragments, graph)) >> ELSE <<>>]

\* Rendering, once there is a graph, and checkCandidate.
RenderGraph(errors, modules, fragments, graph) ==
  Generated(FirstErrors(errors, FirstErrors(Render(modules, graph), CheckCandidate(modules, fragments, graph))),
            modules, fragments, graph)

\* buildGraph
ResolveGraph(errors, modules, fragments, nodes, providers) ==
  RenderGraph(FirstErrors(errors, GraphErrors(nodes, providers)), modules, fragments, Graph(nodes, providers))

CollectProviders(errors, modules, fragments, nodes) ==
  ResolveGraph(errors, modules, fragments, nodes, Providers(modules, nodes, fragments))

\* buildCandidate
BuildCandidate(project) ==
  CollectProviders(FirstErrors(Analyze(project), CompileDescriptors(project.modules)),
                   project.modules, Fragments(project.modules), Nodes(project.modules))

Outcomes == [name \in DOMAIN Projects |-> BuildCandidate(Projects[name])]
Plan(code, settings) ==
  [panic |-> code.panic, configured |-> code.outbox => settings.outbox, opened |-> code.opened,
   components |-> code.components, lifecycles |-> code.lifecycles, transports |-> code.transports,
   disabled |-> {n \in DOMAIN code.components : code.components[n] \in settings.disabled},
   needs |-> code.needs, assembly |-> code.assembly,
   sync |-> Sync(code, settings), seeds |-> Seeds(code.modules, settings)]

Unbuilt == [panic |-> "unbuilt", components |-> <<>>]

(***************************************************************************)
(* The system.                                                              *)
(***************************************************************************)
Tables == UNION {{f.table : f \in Range(Fragments(Projects[name].modules))} : name \in DOMAIN Projects}
          \cup {SeedLock, RecycleTable}
AllSeeds == UNION {Range(Seeds(Projects[name].modules, [initDB |-> TRUE, initMenu |-> TRUE])) : name \in DOMAIN Projects}

Init ==
  /\ source \in DOMAIN Projects
  /\ registry = Absent
  /\ releases = 0
  /\ plan = Unbuilt
  /\ \E legacy \in Legacy :
       database = [tables |-> [t \in Tables |-> Absent], legacy |-> legacy, marks |-> << >>, copies |-> [s \in AllSeeds |-> 0]]
  /\ app = [i \in Instances |-> Idle]
  /\ boots = 0
  /\ faults = 0

\* No instance reads the files of the working tree, so what is done to them
\* is done between the runs.
Resting == \A i \in Instances : At(i, "exited")

Edit(name) ==
  /\ Resting /\ boots < MaxBoots
  /\ releases < MaxReleases
  /\ name # source
  /\ source' = name
  /\ releases' = releases + 1
  /\ UNCHANGED << registry, lifecycleVars >>

\* Generate replaces the file in one step, when there is no diagnostic.
Generate ==
  /\ Resting /\ boots < MaxBoots
  /\ Outcomes[source].codes = {}
  /\ registry # source
  /\ registry' = source
  /\ UNCHANGED << source, releases, lifecycleVars >>

\* "cool build": Check generates again and compares, then the package is built.
Build(settings) ==
  /\ Resting /\ boots < MaxBoots
  /\ registry = source
  /\ \E code \in Range(Outcomes[source].code) : plan' = Plan(code, settings)
  /\ plan' # plan
  /\ app' = [i \in Instances |-> Idle]
  /\ UNCHANGED << source, registry, releases, database, boots, faults >>

Runs(i) == plan # Unbuilt /\ InstanceStep(i) /\ UNCHANGED << source, registry, releases >>

\* Everything may rest while no instance runs.
Done == Resting /\ UNCHANGED vars

Next ==
  \/ \E name \in DOMAIN Projects : Edit(name)
  \/ Generate
  \/ \E settings \in Settings : Build(settings)
  \/ \E i \in Instances : Runs(i)
  \/ Done

Spec == Init /\ [][Next]_vars

(***************************************************************************)
(* Properties                                                               *)
(***************************************************************************)
\* A project without a diagnostic starts: its static registry satisfies
\* MustBuildGraph, its descriptors and controllers compile, and its assembly
\* is the one the registry announces (codegen.Generate, module.BuildGraph,
\* scanAssembly).
AcceptedProjectBoots == \A i \in Instances : app[i].outcome \notin {"panic", "invalid"}
=============================================================================
