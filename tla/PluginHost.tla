----------------------------- MODULE PluginHost -----------------------------
(***************************************************************************)
(* The plugin host of one application instance: administrators on this     *)
(* node and on others change the desired rows (modules/plugin/service),    *)
(* the manager (cool-next/plugin/host/manager) prepares a generation,      *)
(* publishes it in the resolver, drains what it replaced, and a sync loop  *)
(* reconciles the node with the rows.  Generations of the same artifact    *)
(* share one compilation, counted by references.                           *)
(*                                                                         *)
(* An actor is the sync loop or an administrator's request on this node;   *)
(* between two critical sections of the manager's mutex it may be           *)
(* overtaken by everybody else.  Manifests, configuration and the calls'   *)
(* payload are data; quotas and nested calls are left out.                 *)
(***************************************************************************)
EXTENDS Naturals, Sequences, FiniteSets

CONSTANTS
  Keys,        \* plugin keys
  Hooked,      \* the keys whose manifest claims the one contested hook
  Builds,      \* artifacts, by SHA-256
  Packages,    \* Packages[k]: the artifacts whose manifest names the key
  Found,       \* Found[k]: the rows the plugin may have when the node starts
  Singletons,  \* the artifacts whose manifest says singleton
  Gens,        \* generation objects, reused once nothing refers to them
  Callers,     \* goroutines that call plugins
  Admins,      \* administrators' requests on this node
  Sync,        \* the reconciling goroutine
  None,
  MaxChanges,  \* bound: commits of desired rows
  MaxFaults    \* bound: failed calls, timeouts

Row == [id : Nat, revision : Nat, enabled : BOOLEAN, build : Builds \cup {None}]
NoRow == [id |-> 0, revision |-> 0, enabled |-> FALSE, build |-> None]

ASSUME HostAssumption ==
  /\ Hooked \subseteq Keys
  /\ Singletons \subseteq Builds
  /\ Packages \in [Keys -> SUBSET Builds]
  /\ DOMAIN Found = Keys
  /\ \A k \in Keys : \A r \in Found[k] :
       r = NoRow \/ (r \in Row /\ r.id # 0 /\ r.build \in Packages[k])
  /\ IsFiniteSet(Gens) /\ IsFiniteSet(Admins)
  /\ Sync \notin Admins
  /\ None \notin Keys \cup Builds \cup Gens
  /\ MaxChanges \in Nat /\ MaxFaults \in Nat

Actors == Admins \cup {Sync}

VARIABLES
  row,      \* row[k]: plugin_info and its artifact; revision 0: no row
  gen,      \* gen[g]: a generation
  order,    \* manager.order: the tracked generations, oldest first
  byKey,    \* resolver.byKey
  byHook,   \* resolver.byHook of the contested hook
  diag,     \* manager.diagnostics: local state and LocalRevision
  failure,  \* syncFailures whose retryAt has not come: their revision
  entry,    \* entry[b]: the compile cache's entry for the artifact
  actor,    \* what each actor is doing
  list,     \* the rows the reconciliation under way has listed
  todo,     \* the keys it still has to look at in its present phase
  phase,    \* its phase: "idle", "disable", "remove", "load"
  call,     \* call[c]: the invocation of a caller
  close,    \* "open", "stopping", "draining", "done"
  changes,  \* commits so far
  faults    \* faults so far

database == <<row, changes>>
resolver == <<byKey, byHook>>
syncing == <<list, todo, phase>>
tracked == <<gen, order>>
vars == <<database, tracked, resolver, diag, failure, entry, actor, syncing, call, close, faults>>

\* candidate: prepared and not published; serving: tracked by the manager;
\* draining: its drain is scheduled; closed: shut down while calls go on.
Generation == [state    : {"free", "candidate", "serving", "draining", "closed"},
               key      : Keys \cup {None},
               revision : Nat,
               build    : Builds \cup {None},
               broken   : BOOLEAN,             \* draining set by a timed out singleton
               after    : Gens \cup {None}]    \* its shutdown waits for this one's
FreeGen == [state |-> "free", key |-> None, revision |-> 0, build |-> None,
            broken |-> FALSE, after |-> None]

Stages == {"idle", "prepare", "compiling", "compiled", "commit", "disable", "remove",
           "publish", "discard", "diagnose"}

Actor == [stage : Stages,
          key   : Keys \cup {None},
          want  : Row,                  \* the DesiredPlugin being worked on
          seen  : Row,                  \* the row an administrator read
          gen   : Gens \cup {None},
          out   : [Keys -> Nat],        \* committed.Disabled: their revisions, or 0
          state : {"enabled", "disabled", "error"}]  \* what to diagnose
Resting == [stage |-> "idle", key |-> None, want |-> NoRow, seen |-> NoRow,
            gen |-> None, out |-> [k \in Keys |-> 0], state |-> "error"]

NoDiagnostic == [state |-> "none", revision |-> 0]

NoEntry == [state |-> "none", references |-> 0]

NoCall == [gen |-> None, broken |-> FALSE, cut |-> FALSE]

TypeOK ==
  /\ row \in [Keys -> Row]
  /\ gen \in [Gens -> Generation]
  /\ order \in Seq(Gens)
  /\ byKey \in [Keys -> Gens \cup {None}]
  /\ byHook \in Gens \cup {None}
  /\ diag \in [Keys -> [state : {"none", "enabled", "disabled", "error"}, revision : Nat]]
  /\ failure \in [Keys -> Nat]
  /\ entry \in [Builds -> [state : {"none", "compiling", "cancelled", "ready"}, references : Nat]]
  /\ actor \in [Actors -> Actor]
  /\ list \in [Keys -> Row]
  /\ todo \in SUBSET Keys
  /\ phase \in {"idle", "disable", "remove", "load"}
  /\ call \in [Callers -> [gen : Gens \cup {None}, broken : BOOLEAN, cut : BOOLEAN]]
  /\ close \in {"open", "stopping", "draining", "done"}
  /\ changes \in 0 .. MaxChanges
  /\ faults \in 0 .. MaxFaults

\* The manager starts on the rows it finds; of the plugins on the hook at
\* most one is enabled.
Init ==
  /\ row \in [Keys -> UNION {Found[k] : k \in Keys}]
  /\ \A k \in Keys : row[k] \in Found[k]
  /\ \A k, h \in Hooked : row[k].enabled /\ row[h].enabled => k = h
  /\ gen = [g \in Gens |-> FreeGen]
  /\ order = <<>>
  /\ byKey = [k \in Keys |-> None]
  /\ byHook = None
  /\ diag = [k \in Keys |-> NoDiagnostic]
  /\ failure = [k \in Keys |-> 0]
  /\ entry = [b \in Builds |-> NoEntry]
  /\ actor = [a \in Actors |-> Resting]
  /\ list = [k \in Keys |-> NoRow]
  /\ todo = {}
  /\ phase = "idle"
  /\ call = [c \in Callers |-> NoCall]
  /\ close = "open"
  /\ changes = 0
  /\ faults = 0

IsClosed == close \in {"draining", "done"}
CacheClosed == close = "done"

Fault == faults < MaxFaults /\ faults' = faults + 1

\* A call of the actor fails: injected, or its context is cancelled.
Fails(a) == IF a = Sync /\ close # "open" THEN UNCHANGED faults ELSE Fault

Go(a, stage) == actor' = [actor EXCEPT ![a].stage = stage]

----------------------------------------------------------------------------
(* The compile cache.                                                      *)

\* The entry of b after one reference is given up: the last reference to a
\* compilation cancels it, the last one to a finished one closes it.
Released(b) ==
  [entry EXCEPT ![b] =
     IF @.references > 1 THEN [@ EXCEPT !.references = entry[b].references - 1]
     ELSE IF @.state = "ready" THEN NoEntry
     ELSE [state |-> "cancelled", references |-> 0]]

\* compileCache.release: a closed cache has dropped its entries.
Release(b) == entry' = IF CacheClosed THEN entry ELSE Released(b)

\* compileCache.acquire joins whatever entry there is.  Prepare has looked
\* at isClosed before, the cache only knows whether it is closed itself.
Acquire(a) ==
  LET b == actor[a].want.build IN
  /\ actor[a].stage = "prepare"
  /\ ~CacheClosed
  /\ entry' = [entry EXCEPT ![b] =
                 [state      |-> IF @.state = "none" THEN "compiling" ELSE @.state,
                  references |-> @.references + 1]]
  /\ Go(a, IF entry[b].state = "ready" THEN "compiled" ELSE "compiling")
  /\ UNCHANGED <<database, tracked, resolver, diag, failure, syncing, call, close, faults>>

\* An administrator's request that failed ends; the sync loop diagnoses it.
Failed(a) == IF a = Sync THEN [actor[a] EXCEPT !.stage = "diagnose", !.state = "error"]
             ELSE Resting

Waiting(b) == {a \in Actors : actor[a].stage = "compiling" /\ actor[a].want.build = b}

\* completeCompile: a cancelled compilation usually ends in an error, also
\* for references that joined it after it was cancelled.
CompleteCompile(b, ok) ==
  /\ entry[b].state \in {"compiling", "cancelled"}
  /\ IF ok \/ entry[b].state = "cancelled" THEN UNCHANGED faults ELSE Fault
  /\ entry' = [entry EXCEPT ![b] =
                 IF ok /\ @.references > 0 THEN [@ EXCEPT !.state = "ready"] ELSE NoEntry]
  /\ actor' = [a \in Actors |->
                 IF a \notin Waiting(b) THEN actor[a]
                 ELSE IF ok THEN [actor[a] EXCEPT !.stage = "compiled"] ELSE Failed(a)]
  /\ UNCHANGED <<database, tracked, resolver, diag, failure, syncing, call, close>>

----------------------------------------------------------------------------
(* Preparing a candidate.                                                  *)

\* Mutant of PrepareFails: the compilation is not released.
PrepareFailsHolding(a) ==
  /\ actor[a].stage \in {"prepare", "compiling", "compiled"}
  /\ IF IsClosed THEN UNCHANGED faults ELSE Fails(a)
  /\ actor' = [actor EXCEPT ![a] = Failed(a)]
  /\ UNCHANGED <<database, tracked, resolver, diag, failure, entry, syncing, call, close>>

\* initCtx ends before the compilation does, or instantiating fails.
PrepareFails(a) ==
  /\ actor[a].stage \in {"prepare", "compiling", "compiled"}
  /\ IF IsClosed THEN UNCHANGED faults ELSE Fails(a)
  /\ IF actor[a].stage = "prepare" THEN UNCHANGED entry ELSE Release(actor[a].want.build)
  /\ actor' = [actor EXCEPT ![a] = Failed(a)]
  /\ UNCHANGED <<database, tracked, resolver, diag, failure, syncing, call, close>>

\* The instance starts.  An enabled plugin gets its generation, unless the
\* manager is closed; of a disabled one only the check remains and the
\* reference is given back.
Prepared(a) ==
  LET g == CHOOSE g \in Gens : gen[g] = FreeGen IN
  /\ actor[a].stage = "compiled"
  /\ \/ /\ actor[a].want.enabled
        /\ ~IsClosed
        /\ \E f \in Gens : gen[f] = FreeGen
        /\ gen' = [gen EXCEPT ![g] =
                     [FreeGen EXCEPT !.state = "candidate", !.key = actor[a].key,
                                     !.revision = actor[a].want.revision,
                                     !.build = actor[a].want.build]]
        /\ actor' = [actor EXCEPT ![a].gen = g,
                                  ![a].stage = IF a = Sync THEN "publish" ELSE "commit"]
        /\ UNCHANGED entry
     \/ /\ ~actor[a].want.enabled
        /\ ~CacheClosed
        /\ Release(actor[a].want.build)
        /\ Go(a, "commit")
        /\ UNCHANGED gen
  /\ UNCHANGED <<database, order, resolver, diag, failure, syncing, call, close, faults>>

----------------------------------------------------------------------------
(* Shutting generations down.                                              *)

CallsOn(g) == {c \in Callers : call[c].gen = g}

\* What the generations become when those in S begin to drain.
Draining(S) == [g \in Gens |-> IF g \in S THEN [gen[g] EXCEPT !.state = "draining"] ELSE gen[g]]

Position(g) == CHOOSE i \in DOMAIN order : order[i] = g

\* removeOrderLocked: the other generations move up.
Untracked(g) ==
  SubSeq(order, 1, Position(g) - 1) \o SubSeq(order, Position(g) + 1, Len(order))

\* generation.shutdown of a candidate, which nobody could call.
Shutdown(g) ==
  /\ gen' = [gen EXCEPT ![g] = FreeGen]
  /\ Release(gen[g].build)

\* Mutant of DrainEnds: the calls are not waited for.
DrainEndsAtOnce(g) ==
  /\ gen[g].state = "draining"
  /\ gen[g].after # None => gen[gen[g].after].state # "draining"
  /\ gen' = [gen EXCEPT ![g] = IF CallsOn(g) = {} THEN FreeGen ELSE [@ EXCEPT !.state = "closed"]]
  /\ order' = Untracked(g)
  /\ Release(gen[g].build)
  /\ UNCHANGED <<database, resolver, diag, failure, actor, syncing, call, close, faults>>

\* The drain scheduled for g ends: its calls have returned, or the timeout
\* passes and the lifecycle context cancels them.
DrainEnds(g) ==
  /\ gen[g].state = "draining"
  /\ gen[g].after # None => gen[gen[g].after].state # "draining"
  /\ IF CallsOn(g) = {} THEN UNCHANGED faults ELSE Fault
  /\ gen' = [gen EXCEPT ![g] = IF CallsOn(g) = {} THEN FreeGen ELSE [@ EXCEPT !.state = "closed"]]
  /\ order' = Untracked(g)
  /\ Release(gen[g].build)
  /\ call' = [c \in Callers |-> IF c \in CallsOn(g) THEN [call[c] EXCEPT !.cut = TRUE] ELSE call[c]]
  /\ UNCHANGED <<database, resolver, diag, failure, actor, syncing, close>>

\* Candidate.Close after a request that did not publish.
Discard(a) ==
  /\ actor[a].stage = "discard"
  /\ IF actor[a].gen = None THEN UNCHANGED <<gen, entry>> ELSE Shutdown(actor[a].gen)
  /\ actor' = [actor EXCEPT ![a] = Resting]
  /\ UNCHANGED <<database, order, resolver, diag, failure, syncing, call, close, faults>>

----------------------------------------------------------------------------
(* The resolver.                                                           *)

\* removeKey for every key in S: what is served afterwards.
Without(S) == [k \in Keys |-> IF k \in S THEN None ELSE byKey[k]]

\* Mutant of HookWithout: only the key is removed.
HookKept(S) == byHook

HookWithout(S) == IF byHook # None /\ gen[byHook].key \in S THEN None ELSE byHook

Served(S) == {byKey[k] : k \in S} \ {None}

\* resolver.publish refuses a generation whose hook another plugin serves.
HookConflict(k, hook) == k \in Hooked /\ hook # None /\ gen[hook].key # k

Replaced(a) == {k \in Keys : actor[a].out[k] > 0}

\* Publish and PublishReplacing: one critical section.
Publish(a) ==
  LET k    == actor[a].key
      g    == actor[a].gen
      hook == HookWithout(Replaced(a))
  IN
  /\ actor[a].stage = "publish"
  /\ ~IsClosed
  /\ ~HookConflict(k, hook)
  /\ byKey' = [Without(Replaced(a)) EXCEPT ![k] = g]
  /\ byHook' = IF k \in Hooked THEN g ELSE hook
  /\ gen' = [Draining(Served(Replaced(a) \cup {k})) EXCEPT ![g].state = "serving"]
  /\ order' = Append(order, g)
  /\ actor' = [actor EXCEPT ![a].stage = "diagnose", ![a].state = "enabled", ![a].gen = None]
  /\ UNCHANGED <<database, diag, failure, entry, syncing, call, close, faults>>

\* A refused publication changes nothing; the candidate is shut down.
PublishFails(a) ==
  /\ actor[a].stage = "publish"
  /\ IsClosed \/ HookConflict(actor[a].key, HookWithout(Replaced(a)))
  /\ Shutdown(actor[a].gen)
  /\ actor' = [actor EXCEPT ![a].stage = "diagnose", ![a].state = "error",
                            ![a].gen = None, ![a].out = Resting.out]
  /\ UNCHANGED <<database, order, resolver, diag, failure, syncing, call, close, faults>>

\* The generation of k is unpublished and its drain scheduled, unless the
\* manager is closed.
Unpublish(k) ==
  IF IsClosed THEN UNCHANGED <<gen, resolver>>
  ELSE /\ byKey' = Without({k})
       /\ byHook' = HookWithout({k})
       /\ gen' = Draining(Served({k}))

Disable(a) ==
  /\ actor[a].stage = "disable"
  /\ Unpublish(actor[a].key)
  /\ actor' = [actor EXCEPT ![a].stage = "diagnose",
                            ![a].state = IF IsClosed THEN "error" ELSE "disabled"]
  /\ UNCHANGED <<database, order, diag, failure, entry, syncing, call, close, faults>>

\* Remove also forgets the diagnostic; the sync loop then its failure.
Remove(a) ==
  LET k == actor[a].key IN
  /\ actor[a].stage = "remove"
  /\ Unpublish(k)
  /\ diag' = IF IsClosed THEN diag ELSE [diag EXCEPT ![k] = NoDiagnostic]
  /\ failure' = IF a = Sync THEN [failure EXCEPT ![k] = 0] ELSE failure
  /\ actor' = [actor EXCEPT ![a] = Resting]
  /\ UNCHANGED <<database, order, entry, syncing, call, close, faults>>

\* setDiagnostic: an error keeps the LocalRevision.  The sync loop records
\* or clears its failure.
Diagnose(a) ==
  LET k   == actor[a].key
      rev == actor[a].want.revision
      s   == actor[a].state
      new == [state |-> s, revision |-> IF s = "error" THEN diag[k].revision ELSE rev]
  IN
  /\ actor[a].stage = "diagnose"
  /\ diag' = [q \in Keys |->
                IF q = k THEN new
                ELSE IF q \in Replaced(a) THEN [state |-> "disabled", revision |-> actor[a].out[q]]
                ELSE diag[q]]
  /\ failure' = IF a # Sync THEN failure
                ELSE [failure EXCEPT ![k] = IF s = "error" THEN rev ELSE 0]
  /\ actor' = [actor EXCEPT ![a] = Resting]
  /\ UNCHANGED <<database, tracked, resolver, entry, syncing, call, close, faults>>

----------------------------------------------------------------------------
(* Administrators.                                                         *)

\* The row a request leads to: install keeps the status of an installed
\* plugin, and the first revision of every new row is 1.
Installed(k, b) ==
  [id       |-> IF row[k].id = 0 THEN changes + 2 ELSE row[k].id,
   revision |-> row[k].revision + 1,
   enabled  |-> row[k].id = 0 \/ row[k].enabled,
   build    |-> b]

Updated(k, e) == [row[k] EXCEPT !.revision = @ + 1, !.enabled = e]

\* The rows a request may ask for: an install, a change of the status or of
\* the configuration, a deletion.
Requests(k) ==
  {Installed(k, b) : b \in Packages[k]}
    \cup (IF row[k].id = 0 THEN {} ELSE {Updated(k, TRUE), Updated(k, FALSE), NoRow})

\* lockHookConflicts: enabling a plugin disables the others on its hook.
Conflicts(k, new) ==
  IF new.enabled /\ k \in Hooked THEN {q \in Hooked \ {k} : row[q].enabled} ELSE {}

Committed(k, new) ==
  [q \in Keys |-> IF q = k THEN new
                  ELSE IF q \in Conflicts(k, new) THEN Updated(q, FALSE) ELSE row[q]]

\* A request reads the row; a plugin that will run is prepared first.
Request(a, k, new) ==
  /\ actor[a].stage = "idle"
  /\ close = "open"
  /\ changes < MaxChanges
  /\ actor' = [actor EXCEPT ![a] =
                 [Resting EXCEPT !.key = k, !.want = new, !.seen = row[k],
                    !.stage = IF new.enabled \/ (new.build # row[k].build /\ new # NoRow)
                              THEN "prepare" ELSE "commit"]]
  /\ UNCHANGED <<database, tracked, resolver, diag, failure, entry, syncing, call, close, faults>>

\* An install keeps the status.  If the artifact is the installed one, or
\* has its version and is not confirmed, the candidate was only a check.
NeedsConfirmation(a) ==
  /\ actor[a].stage = "commit"
  /\ actor[a].seen.id # 0 /\ actor[a].want # NoRow
  /\ actor[a].want.enabled = actor[a].seen.enabled
  /\ Go(a, "discard")
  /\ UNCHANGED <<database, tracked, resolver, diag, failure, entry, syncing, call, close, faults>>

\* commitInstall, commitUpdate or commitDelete; the row must still be the
\* one the request has read (sameManagedInfo).
Commit(a) ==
  LET k   == actor[a].key
      new == actor[a].want
  IN
  /\ actor[a].stage = "commit"
  /\ changes < MaxChanges
  /\ row[k] = actor[a].seen
  /\ row' = Committed(k, new)
  /\ changes' = changes + 1
  /\ actor' = [actor EXCEPT
       ![a].out = [q \in Keys |-> IF q \in Conflicts(k, new) THEN row[q].revision + 1 ELSE 0],
       ![a].stage = IF new = NoRow THEN "remove" ELSE IF new.enabled THEN "publish" ELSE "disable"]
  /\ UNCHANGED <<tracked, resolver, diag, failure, entry, syncing, call, close, faults>>

\* The row has changed, or the transaction fails, with its effect or without.
CommitFails(a) ==
  /\ actor[a].stage = "commit"
  /\ IF row[actor[a].key] = actor[a].seen /\ changes < MaxChanges
       THEN /\ Fault
            /\ \/ UNCHANGED database
               \/ /\ row' = Committed(actor[a].key, actor[a].want)
                  /\ changes' = changes + 1
       ELSE UNCHANGED <<database, faults>>
  /\ Go(a, "discard")
  /\ UNCHANGED <<tracked, resolver, diag, failure, entry, syncing, call, close>>

\* A request on another node commits.  Once this node's manager is closed
\* nothing here depends on the rows any more.
RemoteCommit(k, new) ==
  /\ changes < MaxChanges
  /\ ~IsClosed
  /\ row' = Committed(k, new)
  /\ changes' = changes + 1
  /\ UNCHANGED <<tracked, resolver, diag, failure, entry, actor, syncing, call, close, faults>>

----------------------------------------------------------------------------
(* The sync loop.                                                          *)

SyncRests == actor[Sync].stage = "idle"

\* reconcile: disabled rows first, then keys without a row, then loads.
List ==
  /\ phase = "idle"
  /\ SyncRests
  /\ close = "open"
  /\ list' = row
  /\ phase' = "disable"
  /\ todo' = {k \in Keys : row[k].id # 0 /\ ~row[k].enabled}
  /\ UNCHANGED <<database, tracked, resolver, diag, failure, entry, actor, call, close, faults>>

NextPhase ==
  /\ todo = {}
  /\ SyncRests
  /\ \/ /\ phase = "disable"
        /\ phase' = "remove"
        /\ todo' = {k \in Keys : diag[k] # NoDiagnostic /\ list[k].id = 0}
        /\ UNCHANGED list
     \/ /\ phase = "remove"
        /\ phase' = "load"
        /\ todo' = {k \in Keys : list[k].enabled}
        /\ UNCHANGED list
     \/ /\ phase = "load"
        /\ phase' = "idle"
        /\ todo' = {}
        /\ list' = [k \in Keys |-> NoRow]
  /\ UNCHANGED <<database, tracked, resolver, diag, failure, entry, actor, call, close, faults>>

\* Mutant of ShouldReconcile: the revision is not compared.
ShouldReconcileState(k) ==
  /\ ~IsClosed
  /\ diag[k].state # IF list[k].enabled THEN "enabled" ELSE "disabled"
  /\ failure[k] # list[k].revision

ShouldReconcile(k) ==
  /\ ~IsClosed
  /\ diag[k] # [state |-> IF list[k].enabled THEN "enabled" ELSE "disabled",
                revision |-> list[k].revision]
  /\ failure[k] # list[k].revision

Visit(k, stage) ==
  /\ SyncRests
  /\ k \in todo
  /\ todo' = todo \ {k}
  /\ actor' = [actor EXCEPT ![Sync] =
                 IF stage = "idle" THEN Resting
                 ELSE [Resting EXCEPT !.stage = stage, !.key = k, !.want = list[k]]]
  /\ UNCHANGED <<database, tracked, resolver, diag, failure, entry, list, phase, call, close>>

Skip(k) ==
  /\ phase \in {"disable", "load"}
  /\ ~ShouldReconcile(k)
  /\ Visit(k, "idle")
  /\ UNCHANGED faults

SyncDisable(k) == phase = "disable" /\ ShouldReconcile(k) /\ Visit(k, "disable") /\ UNCHANGED faults

SyncRemove(k) == phase = "remove" /\ Visit(k, "remove") /\ UNCHANGED faults

\* loadAndPublish goes on with the row it finds now ...
Load(k) ==
  /\ phase = "load"
  /\ close = "open"
  /\ ShouldReconcile(k)
  /\ row[k] = list[k]
  /\ Visit(k, "prepare")
  /\ UNCHANGED faults

\* ... provided it is the one that was listed.
LoadFails(k) ==
  /\ phase = "load"
  /\ ShouldReconcile(k)
  /\ IF row[k] = list[k] THEN Fails(Sync) ELSE UNCHANGED faults
  /\ Visit(k, "diagnose")

\* The retryAt of a failure is reached.
RetryDue(k) ==
  /\ failure[k] # 0
  /\ ~IsClosed
  /\ failure' = [failure EXCEPT ![k] = 0]
  /\ UNCHANGED <<database, tracked, resolver, diag, entry, actor, syncing, call, close, faults>>

----------------------------------------------------------------------------
(* Invocations.                                                            *)

\* resolve and acquire; a draining generation refuses.
Call(c, k) ==
  LET g == byKey[k] IN
  /\ call[c] = NoCall
  /\ ~IsClosed
  /\ g # None
  /\ ~gen[g].broken
  /\ call' = [call EXCEPT ![c].gen = g]
  /\ UNCHANGED <<database, tracked, resolver, diag, failure, entry, actor, syncing, close, faults>>

\* What the generation of c becomes when c releases it.
AfterCall(c, new) ==
  IF new[call[c].gen].state = "closed" /\ CallsOn(call[c].gen) = {c}
    THEN [new EXCEPT ![call[c].gen] = FreeGen] ELSE new

Return(c) ==
  /\ call[c].gen # None
  /\ ~call[c].broken
  /\ gen' = AfterCall(c, gen)
  /\ call' = [call EXCEPT ![c] = NoCall]
  /\ UNCHANGED <<database, order, resolver, diag, failure, entry, actor, syncing, close, faults>>

\* A call of a singleton times out and leaves its instance unusable.
SingletonTimeout(c) ==
  LET g == call[c].gen IN
  /\ g # None
  /\ gen[g].build \in Singletons
  /\ ~call[c].broken /\ ~call[c].cut
  /\ Fault
  /\ gen' = [gen EXCEPT ![g].broken = TRUE]
  /\ call' = [call EXCEPT ![c].broken = TRUE]
  /\ UNCHANGED <<database, order, resolver, diag, failure, entry, actor, syncing, close>>

\* retireSingleton, unless the generation was replaced meanwhile; then the
\* call releases it.
Retire(c) ==
  LET g == call[c].gen
      k == gen[g].key
  IN
  /\ call[c].broken
  /\ IF IsClosed \/ byKey[k] # g
       THEN gen' = AfterCall(c, gen) /\ UNCHANGED resolver
       ELSE /\ gen' = AfterCall(c, Draining({g}))
            /\ byKey' = Without({k})
            /\ byHook' = HookWithout({k})
  /\ call' = [call EXCEPT ![c] = NoCall]
  /\ UNCHANGED <<database, order, diag, failure, entry, actor, syncing, close, faults>>

----------------------------------------------------------------------------
(* Closing the manager.                                                    *)

\* stopSync cancels the loop ...
BeginClose ==
  /\ close = "open"
  /\ close' = "stopping"
  /\ UNCHANGED <<database, tracked, resolver, diag, failure, entry, actor, syncing, call, faults>>

\* Mutant of Chained: a generation waits for itself.
ChainedToItself(g) == [gen[g] EXCEPT !.state = "draining", !.after = g]

\* The newest generation is shut down first, the next one after it.
Chained(g) ==
  [gen[g] EXCEPT !.state = "draining",
                 !.after = IF Position(g) = Len(order) THEN None ELSE order[Position(g) + 1]]

\* ... and waits for it, up to the deadline.
Close ==
  /\ close = "stopping"
  /\ IF phase = "idle" THEN UNCHANGED faults ELSE Fault
  /\ close' = "draining"
  /\ gen' = [g \in Gens |-> IF gen[g].state = "serving" THEN Chained(g) ELSE gen[g]]
  /\ byKey' = [k \in Keys |-> None]
  /\ byHook' = None
  /\ UNCHANGED <<database, order, diag, failure, entry, actor, syncing, call>>

\* finishClose: the drains have ended; cache and runtime are closed, and
\* compilations under way end in an error.
FinishClose ==
  /\ close = "draining"
  /\ \A g \in Gens : gen[g].state # "draining"
  /\ close' = "done"
  /\ entry' = [b \in Builds |-> NoEntry]
  /\ UNCHANGED <<database, tracked, resolver, diag, failure, actor, syncing, call, faults>>

----------------------------------------------------------------------------

ActorSteps(a) ==
  \/ Acquire(a) \/ Prepared(a) \/ Publish(a) \/ PublishFails(a)
  \/ Disable(a) \/ Remove(a) \/ Diagnose(a)

AdminSteps(a) == NeedsConfirmation(a) \/ Commit(a) \/ CommitFails(a) \/ Discard(a)

SyncSteps ==
  \/ List \/ NextPhase
  \/ \E k \in Keys : Skip(k) \/ SyncDisable(k) \/ SyncRemove(k) \/ Load(k) \/ LoadFails(k)

Next ==
  \/ \E k \in Keys : \E new \in Requests(k) : RemoteCommit(k, new)
  \/ \E a \in Admins : \E k \in Keys : \E new \in Requests(k) : Request(a, k, new)
  \/ \E a \in Admins : AdminSteps(a)
  \/ \E a \in Actors : ActorSteps(a) \/ PrepareFails(a)
  \/ SyncSteps
  \/ \E k \in Keys : RetryDue(k)
  \/ \E b \in Builds : \E ok \in BOOLEAN : CompleteCompile(b, ok)
  \/ \E g \in Gens : DrainEnds(g)
  \/ \E c \in Callers : Return(c) \/ SingletonTimeout(c) \/ Retire(c)
  \/ \E c \in Callers : \E k \in Keys : Call(c, k)
  \/ BeginClose \/ Close \/ FinishClose

Spec == Init /\ [][Next]_vars

(* Fairness: goroutines go on, compilations and calls end (they have       *)
(* timeouts), the sync ticker fires and a closed manager refuses.          *)
FairSpec ==
  /\ Spec
  /\ WF_vars(SyncSteps \/ ActorSteps(Sync) \/ (IsClosed /\ PrepareFails(Sync)))
  /\ \A a \in Admins :
       WF_vars(ActorSteps(a) \/ AdminSteps(a) \/ (IsClosed /\ PrepareFails(a)))
  /\ \A b \in Builds : WF_vars(\E ok \in BOOLEAN : CompleteCompile(b, ok))
  /\ \A k \in Keys : WF_vars(RetryDue(k))
  /\ \A g \in Gens : WF_vars(DrainEnds(g))
  /\ \A c \in Callers : WF_vars(Return(c) \/ Retire(c))
  /\ WF_vars(Close)
  /\ WF_vars(FinishClose)

----------------------------------------------------------------------------
(* Properties.                                                             *)

\* A call never runs on code that was released: whatever is published,
\* retired, discarded or closed meanwhile, the generation it acquired is
\* alive and its compilation is open until the call returns or the drain
\* timeout has cancelled it.
CallsRunOnLiveCode ==
  \A c \in Callers :
    LET g == call[c].gen IN
    (g # None /\ ~call[c].cut)
      => /\ gen[g].state \in {"serving", "draining"}
         /\ entry[gen[g].build].state = "ready"

Holders(b) ==
  Cardinality({g \in Gens : gen[g].build = b /\ gen[g].state # "closed"})
    + Cardinality({a \in Actors : /\ actor[a].stage \in {"compiling", "compiled"}
                                  /\ actor[a].want.build = b})

\* No compilation is leaked or closed early: its references are exactly the
\* generations and preparations that hold it, on every path of Prepare,
\* Publish, Discard and Close, and without any it is gone or cancelled.
ReferencesBalance ==
  ~CacheClosed =>
    \A b \in Builds :
      /\ entry[b].references = Holders(b)
      /\ Holders(b) = 0 => entry[b].state \in {"none", "cancelled"}

\* No generation is lost: a tracked one is served or its drain is
\* scheduled, a candidate has an actor that will publish or discard it, and
\* the hook always leads to a plugin that is served under its key.
NoOrphanGeneration ==
  /\ \A g \in Gens :
       /\ gen[g].state = "serving" => byKey[gen[g].key] = g
       /\ gen[g].state = "candidate" => \E a \in Actors : actor[a].gen = g
  /\ \A k \in Keys : byKey[k] # None => gen[byKey[k]].state = "serving" /\ gen[byKey[k]].key = k
  /\ byHook # None => gen[byHook].key \in Hooked /\ byKey[gen[byHook].key] = byHook

\* Close comes to an end, also around requests and calls in flight.
CloseEnds == close = "stopping" ~> close = "done"

\* Once the rows stop changing, the node's diagnostics agree with them, in
\* spite of failures, stale reconciliations and requests that overlap.
CatchesUp ==
  <>[](\/ close # "open"
       \/ \A k \in Keys :
            diag[k] = IF row[k].id = 0 THEN NoDiagnostic
                      ELSE [state    |-> IF row[k].enabled THEN "enabled" ELSE "disabled",
                            revision |-> row[k].revision])
=============================================================================
