---------------------------- MODULE AppLifecycle ----------------------------
(***************************************************************************)
(* Start and stop of application instances on one database: schema          *)
(* synchronisation, seed import, construction, initialisation, transports,  *)
(* supervision, and the ordered stop with its deadline.                     *)
(*                                                                          *)
(* plan is what the generated package contains: the components of the       *)
(* module graph in order with their lifecycle flags and dependencies, what  *)
(* assemble adds and in which order, the tables to synchronise, and the     *)
(* seeds.  Components are known by their position in the graph.             *)
(***************************************************************************)
EXTENDS Schema, Naturals, FiniteSets

CONSTANTS Instances,
          SeedLock,   \* the table of seed import marks and its unique index
          SeedKey,
          MaxBoots,   \* processes started, by hand or after an exit
          MaxFaults   \* failing calls, crashes and stops that hang

VARIABLES plan, database, app, boots, faults

lifecycleVars == <<plan, database, app, boots, faults>>

Components == DOMAIN plan.components
InOrder(Test(_)) == SelectSeq([c \in Components |-> c], Test)
Hooks(c) == plan.lifecycles[c]
IsTransport(c) == c \in plan.transports

\* What a component needs, directly or through others.
Needs(c) == plan.needs[c]

Idle == [stage |-> "exited", at |-> 0, todo |-> <<>>, differs |-> FALSE, tx |-> "none",
         phase |-> <<>>, stoppers |-> <<>>, transports |-> <<>>,
         ready |-> FALSE, stopping |-> FALSE, reporting |-> {}, outcome |-> "never"]

Fault == faults < MaxFaults /\ faults' = faults + 1

Become(i, state) == app' = [app EXCEPT ![i] = state]

\* A step of instance i that touches nothing but the instance.
Local(i, state) == Become(i, state) /\ UNCHANGED <<plan, database, boots, faults>>
Fails(i, state) == Fault /\ Become(i, state) /\ UNCHANGED <<plan, database, boots>>

At(i, stage) == app[i].stage = stage

(***************************************************************************)
(* Stop.  It runs once; every caller waits for it.                          *)
(***************************************************************************)
\* Mutant of StopOrder: components are stopped in the order of their start.
StopOrderForward(a) == Reverse(a.transports) \o a.stoppers

\* Transports first, then the components, each in reverse.
StopOrder(a) == Reverse(a.transports) \o Reverse(a.stoppers)

Stop(a, outcome) ==
  [a EXCEPT !.ready = FALSE, !.stopping = TRUE, !.stage = "stop", !.todo = StopOrder(a), !.tx = "none",
            !.outcome = outcome]

(***************************************************************************)
(* Run and StartDefinition.                                                 *)
(***************************************************************************)
Panicked == [Idle EXCEPT !.phase = [c \in Components |-> "absent"], !.outcome = "panic"]

\* A process starts; MustBuildGraph comes before anything else.
Boot(i) ==
  /\ At(i, "exited")
  /\ boots < MaxBoots
  /\ boots' = boots + 1
  /\ Become(i, IF plan.panic = "graph" THEN Panicked
               ELSE [Idle EXCEPT !.stage = "config", !.outcome = "starting", !.phase = [c \in Components |-> "absent"]])
  /\ UNCHANGED <<plan, database, faults>>

\* configureLogger, loadInput, parseInput, the infrastructure and module
\* configuration, and the descriptors, whose compilation panics.
LoadConfig(i) ==
  /\ At(i, "config")
  /\ Local(i, IF ~plan.configured THEN Stop(app[i], "misconfigured")
              ELSE IF plan.panic = "descriptors" THEN Panicked
              ELSE [app[i] EXCEPT !.stage = IF plan.opened THEN "probe" ELSE "construct", !.at = 1])

\* db.New: the database group is registered and its transactions are tried out.
Probe(i) ==
  /\ At(i, "probe")
  /\ \/ Local(i, [app[i] EXCEPT !.stage = "inspect", !.at = 1])
     \/ Fails(i, Stop(app[i], "failed"))

(***************************************************************************)
(* Schema synchronisation: Manager.Apply, one table after the other.  The   *)
(* statements of a table are not one transaction.                           *)
(***************************************************************************)
TableOf(i) == plan.sync[app[i].at].table
Expected(i) == plan.sync[app[i].at].expected

\* The next table; Apply reports what is left of its differences at its end.
NextTable(a, differs) ==
  IF differs /\ plan.sync[a.at].last THEN Stop(a, "failed")
  ELSE [a EXCEPT !.stage = "inspect", !.at = @ + 1, !.todo = <<>>, !.differs = differs /\ ~plan.sync[a.at].last]

Inspect(i) ==
  /\ At(i, "inspect")
  /\ app[i].at <= Len(plan.sync)
  /\ LET differences == Compare(Expected(i), database.tables[TableOf(i)]) IN
     Local(i, IF differences = {} THEN NextTable(app[i], app[i].differs)
              ELSE IF \E d \in differences : ~Safe(Expected(i), d) THEN Stop(app[i], "failed")
              ELSE [app[i] EXCEPT !.stage = "sync", !.todo = Statements(Expected(i), differences)])

Execute(i) ==
  /\ At(i, "sync")
  /\ app[i].todo # <<>>
  /\ LET table == TableOf(i)
         statement == Head(app[i].todo) IN
     IF Executable(statement, database.tables[table])
     THEN /\ database' = [database EXCEPT !.tables[table] = Executed(Expected(i), statement, @)]
          /\ Become(i, [app[i] EXCEPT !.todo = Tail(@)])
          /\ UNCHANGED <<plan, boots, faults>>
     ELSE Local(i, Stop(app[i], "failed"))

Reinspect(i) ==
  /\ At(i, "sync")
  /\ app[i].todo = <<>>
  /\ LET differences == Compare(Expected(i), database.tables[TableOf(i)]) IN
     Local(i, NextTable(app[i], app[i].differs \/ differences # {}))

\* db.New for the transaction tables, seed.NewRuntime.
Synchronised(i) ==
  /\ At(i, "inspect")
  /\ app[i].at > Len(plan.sync)
  /\ Local(i, [app[i] EXCEPT !.stage = "seed", !.at = 1])

(***************************************************************************)
(* Seeds: seed.Runtime.OnInit.  Each module and kind is one transaction     *)
(* that reads its mark, writes its rows and inserts the mark.               *)
(***************************************************************************)
SeedOf(i) == plan.seeds[app[i].at]

\* The other instances whose open transaction has come as far as step on this seed.
Writing(i, steps) ==
  {j \in Instances \ {i} : /\ app[j].stage = "seed"
                           /\ app[j].at = app[i].at
                           /\ app[j].tx \in steps}

NextSeed(a) == [a EXCEPT !.at = @ + 1, !.tx = "none"]

\* Has finds the mark of an older release for the whole module, or Guard finds its own.
Guard(i) ==
  /\ At(i, "seed")
  /\ app[i].at <= Len(plan.seeds)
  /\ app[i].tx = "none"
  /\ LET seed == SeedOf(i) IN
     Local(i, IF seed.module \in database.legacy \/ seed \in DOMAIN database.marks
              THEN NextSeed(app[i])
              ELSE [app[i] EXCEPT !.tx = "reading"])

\* importDB inserts records, with their primary key or without; importMenu
\* looks its nodes up by seedKey, a unique column, and updates what is there.
ImportRows(i) ==
  /\ At(i, "seed")
  /\ app[i].tx = "reading"
  /\ LET seed == SeedOf(i)
         taken == seed.keyed /\ database.copies[seed] > 0 IN
     /\ ~(seed.keyed /\ Writing(i, {"rows", "marked"}) # {})
     /\ Local(i, IF taken /\ seed.kind = "db" THEN Stop(app[i], "failed")
                 ELSE [app[i] EXCEPT !.tx = IF taken THEN "updated" ELSE "rows"])

\* The unique index makes a second insert wait for the first and then fail.
InsertMark(i) ==
  /\ At(i, "seed")
  /\ app[i].tx \in {"rows", "updated"}
  /\ LET unique == SeedKey \in DOMAIN database.tables[SeedLock].indexes IN
     /\ ~(unique /\ Writing(i, {"marked", "unchanged"}) # {})
     /\ Local(i, IF unique /\ SeedOf(i) \in DOMAIN database.marks THEN Stop(app[i], "failed")
                 ELSE [app[i] EXCEPT !.tx = IF @ = "rows" THEN "marked" ELSE "unchanged"])

Imported(i) ==
  LET seed == SeedOf(i)
      mark(s) == IF s \in DOMAIN database.marks THEN database.marks[s] ELSE 0 IN
  [database EXCEPT !.copies[seed] = IF app[i].tx = "marked" THEN @ + 1 ELSE @,
                   !.marks = [s \in DOMAIN @ \cup {seed} |-> IF s = seed THEN mark(s) + 1 ELSE @[s]]]

CommitSeed(i) ==
  /\ At(i, "seed")
  /\ app[i].tx \in {"marked", "unchanged"}
  /\ \/ /\ database' = Imported(i)
        /\ Become(i, NextSeed(app[i]))
        /\ UNCHANGED <<plan, boots, faults>>
     \* The reply is lost, with the commit or without it.
     \/ /\ Fault
        /\ database' \in {database, Imported(i)}
        /\ Become(i, Stop(app[i], "failed"))
        /\ UNCHANGED <<plan, boots>>

SeedFails(i) ==
  /\ At(i, "seed")
  /\ app[i].tx # "none"
  /\ Fails(i, Stop(app[i], "failed"))

Seeded(i) ==
  /\ At(i, "seed")
  /\ app[i].at > Len(plan.seeds)
  /\ Local(i, [app[i] EXCEPT !.stage = "construct", !.at = 1])

(***************************************************************************)
(* Construction and scanAssembly.                                           *)
(***************************************************************************)
\* The places of the assembly that agree with the graph.
Agrees(n) ==
  /\ n <= Len(plan.components)
  /\ plan.assembly[n].component = plan.components[n]
  /\ plan.assembly[n].hooks = Hooks(n)
  /\ plan.assembly[n].transport = IsTransport(n)

ScanAssembly ==
  /\ Len(plan.assembly) = Len(plan.components)
  /\ \A n \in DOMAIN plan.assembly : Agrees(n)

Prefix(n) == {m \in 1..n : \A k \in 1..m : Agrees(k)}

\* addRollback: what assemble had added has transports to close, and
\* components to stop that need no initialisation.
AddRollback(a, n) ==
  [a EXCEPT !.transports = InOrder(LAMBDA c : c \in Prefix(n) /\ IsTransport(c)),
            !.stoppers = InOrder(LAMBDA c : c \in Prefix(n) /\ "stop" \in Hooks(c) /\ "init" \notin Hooks(c))]

\* A constructor may fail; AddComponent follows the constructor.
Construct(i) ==
  /\ At(i, "construct")
  /\ app[i].at <= Len(plan.assembly)
  /\ LET n == app[i].at IN
     \/ Local(i, [app[i] EXCEPT !.at = @ + 1, !.phase = IF n \in Components THEN [@ EXCEPT ![n] = "built"] ELSE @])
     \/ Fails(i, Stop(AddRollback(app[i], n - 1), "failed"))

\* The factories of the controllers are called on the way.
Constructed(i) ==
  /\ At(i, "construct")
  /\ app[i].at > Len(plan.assembly)
  /\ Local(i, IF plan.panic = "controllers" THEN Panicked
              ELSE IF ScanAssembly THEN [app[i] EXCEPT !.stage = "init", !.at = 1]
              ELSE Stop(AddRollback(app[i], Len(plan.assembly)), "invalid"))

(***************************************************************************)
(* startAssembly.                                                           *)
(***************************************************************************)
Reached(a, c, phase) == [a EXCEPT !.at = @ + 1, !.phase[c] = phase]

Initialised(a, c) ==
  [Reached(a, c, IF IsTransport(c) THEN "built" ELSE "initialised") EXCEPT
     !.stoppers = IF "stop" \in Hooks(c) THEN Append(@, c) ELSE @]

OnInit(i) ==
  /\ At(i, "init")
  /\ LET c == app[i].at IN
     \/ c \in Components /\ Local(i, Initialised(app[i], c))
     \/ c \in Components /\ "init" \in Hooks(c) /\ Fails(i, Stop(app[i], "failed"))
     \/ c \notin Components /\ Local(i, [app[i] EXCEPT !.stage = "prepare", !.at = 1])

\* enabledTransports, in the order of the graph.
Enabled == InOrder(LAMBDA c : IsTransport(c) /\ c \notin plan.disabled)

\* Routes are installed and the port is bound; requests are answered 503.
PrepareTransport(i) ==
  /\ At(i, "prepare")
  /\ LET n == app[i].at IN
     \/ /\ n <= Len(Enabled)
        /\ Local(i, [Reached(app[i], Enabled[n], "prepared") EXCEPT !.transports = Append(@, Enabled[n])])
     \/ n <= Len(Enabled) /\ Fails(i, Stop(app[i], "failed"))
     \/ n > Len(Enabled) /\ Local(i, [app[i] EXCEPT !.stage = "start", !.at = 1])

OnStart(i) ==
  /\ At(i, "start")
  /\ LET c == app[i].at IN
     \/ /\ c \in Components
        /\ Local(i, Reached(app[i], c, IF IsTransport(c) THEN app[i].phase[c] ELSE "started"))
     \/ c \in Components /\ "start" \in Hooks(c) /\ Fails(i, Stop(app[i], "failed"))
     \/ c \notin Components /\ Local(i, [app[i] EXCEPT !.stage = "listen", !.at = 1])

\* A server that does not come up within StartTimeout is stopped by Start itself.
StartTransport(i) ==
  /\ At(i, "listen")
  /\ LET n == app[i].at IN
     \/ n <= Len(Enabled) /\ Local(i, Reached(app[i], Enabled[n], "started"))
     \/ /\ n <= Len(Enabled)
        /\ Fails(i, Stop([app[i] EXCEPT !.phase[Enabled[n]] = "stopped"], "failed"))

Ready(i) ==
  /\ At(i, "listen")
  /\ app[i].at > Len(Enabled)
  /\ Local(i, [app[i] EXCEPT !.stage = "serve", !.ready = TRUE, !.outcome = "running"])

(***************************************************************************)
(* Supervision and the ways to stop.                                        *)
(***************************************************************************)
Supervised(c) == "supervisor" \in Hooks(c) \/ (IsTransport(c) /\ c \notin plan.disabled)

\* A component ends by itself; supervise sees that nobody is stopping yet.
Terminated(i, c) ==
  /\ At(i, "serve")
  /\ Supervised(c)
  /\ c \notin app[i].reporting
  /\ Fails(i, [app[i] EXCEPT !.reporting = @ \cup {c}])

\* It stops the application, unless a signal or another supervisor was faster.
Supervise(i, c) ==
  /\ At(i, "serve")
  /\ c \in app[i].reporting
  /\ Local(i, Stop(app[i], "terminated"))

Signal(i) ==
  /\ At(i, "serve")
  /\ Local(i, Stop(app[i], "signalled"))

\* stopBefore: one hook at a time, its error is kept for later.
StopBegin(i) ==
  /\ At(i, "stop")
  /\ app[i].todo # <<>>
  /\ app[i].phase[Head(app[i].todo)] # "stopping"
  /\ Local(i, [app[i] EXCEPT !.phase[Head(app[i].todo)] = "stopping"])

StopReturn(i) ==
  /\ At(i, "stop")
  /\ app[i].todo # <<>>
  /\ app[i].phase[Head(app[i].todo)] = "stopping"
  /\ Local(i, [app[i] EXCEPT !.phase[Head(app[i].todo)] = "stopped", !.todo = Tail(@)])

\* shutdownTimeout: a hook hangs, and what is left is not stopped.
Deadline(i) ==
  /\ At(i, "stop")
  /\ app[i].todo # <<>>
  /\ app[i].phase[Head(app[i].todo)] = "stopping"
  /\ Fails(i, [app[i] EXCEPT !.stage = "exited", !.outcome = "late"])

\* stopDone is closed, Run returns.
Exit(i) ==
  /\ At(i, "stop")
  /\ app[i].todo = <<>>
  /\ Local(i, [app[i] EXCEPT !.stage = "exited"])

\* The process is killed; the database rolls its transaction back.
Crash(i) ==
  /\ app[i].stage # "exited"
  /\ Fails(i, [Idle EXCEPT !.phase = [c \in Components |-> "absent"], !.outcome = "crashed"])

InstanceStep(i) ==
  \/ Boot(i) \/ LoadConfig(i) \/ Probe(i)
  \/ Inspect(i) \/ Execute(i) \/ Reinspect(i) \/ Synchronised(i)
  \/ Guard(i) \/ ImportRows(i) \/ InsertMark(i) \/ CommitSeed(i) \/ SeedFails(i) \/ Seeded(i)
  \/ Construct(i) \/ Constructed(i)
  \/ OnInit(i) \/ PrepareTransport(i) \/ OnStart(i) \/ StartTransport(i) \/ Ready(i)
  \/ \E c \in Components : Terminated(i, c) \/ Supervise(i, c)
  \/ Signal(i)
  \/ StopBegin(i) \/ StopReturn(i) \/ Deadline(i) \/ Exit(i)
  \/ Crash(i)

(***************************************************************************)
(* Properties                                                               *)
(***************************************************************************)
Phases == {"absent", "built", "initialised", "prepared", "started", "stopping", "stopped"}
Usable == {"initialised", "prepared", "started"}
Stoppable(c) == "stop" \in Hooks(c) \/ IsTransport(c)

\* A component is initialised and started after everything it needs and
\* stopped before any of it; readiness means that all of it runs; and a stop
\* that was not cut off leaves nothing behind that was initialised
\* (startAssembly, Stop, rollback).
DependenciesOutlive ==
  \A i \in Instances : LET a == app[i] IN
    /\ a.phase # <<>> => \A c \in Components : \A d \in Needs(c) :
         /\ a.phase[c] \in Usable => a.phase[d] \notin {"absent", "built"}
         /\ a.phase[c] = "started" => a.phase[d] # "initialised"
         /\ (a.phase[d] \in {"stopping", "stopped"} /\ Stoppable(c)) => a.phase[c] \notin Usable \cup {"stopping"}
    /\ a.ready => \A c \in Components : a.phase[c] = "started" \/ c \in plan.disabled
    /\ (a.stage = "exited" /\ a.outcome # "late" /\ a.phase # <<>>) =>
         \A c \in Components : Stoppable(c) => a.phase[c] \notin {"initialised", "prepared", "started", "stopping"}

\* A seed's rows are imported once and its mark says so, however many
\* instances start at the same time, fail or crash (Store.Guard, importDB,
\* importMenu, and the unique index that Prepare synchronises).
SeedsImportedOnce ==
  \A seed \in DOMAIN database.copies :
    /\ database.copies[seed] <= 1
    /\ seed \in DOMAIN database.marks => database.marks[seed] = 1 /\ database.copies[seed] = 1
=============================================================================
