--------------------------- MODULE PluginHostProofs ---------------------------
(***************************************************************************)
(* Proofs about PluginHost, for any plugins, artifacts and administrators, *)
(* any number of generations and calls, changes and faults.                *)
(***************************************************************************)
EXTENDS PluginHost, FiniteSetTheorems, SequenceTheorems, TLAPS

(* The inductive invariant has three layers: the rows and what the actors  *)
(* do with them, the generations and who refers to them, and the compile   *)
(* cache.                                                                  *)

\* A row is missing or names an artifact.
Real(r) == r # NoRow => r.id # 0 /\ r.build \in Builds

RowsReal ==
  /\ \A k \in Keys : Real(row[k]) /\ Real(list[k])
  /\ phase = "load" => \A k \in todo : list[k].enabled

Preparing == {"prepare", "compiling", "compiled"}

\* What an actor is about to do it does for a plugin, with an artifact it
\* prepares and a candidate it publishes.
Errand(r) ==
  /\ Real(r.want)
  /\ r.stage # "idle" => r.key \in Keys
  /\ r.stage \in Preparing => r.want.build \in Builds
  /\ r.gen # None => r.stage \in {"commit", "publish", "discard"}
  /\ r.stage = "publish" => r.gen # None
  /\ r.stage = "commit" => (r.gen # None <=> r.want.enabled)

ActorsBusy == \A a \in Actors : Errand(actor[a])

\* A candidate belongs to the one actor that prepared it.
CandidatesOwned ==
  /\ \A a \in Actors :
       actor[a].gen # None => /\ gen[actor[a].gen].state = "candidate"
                              /\ gen[actor[a].gen].key = actor[a].key
  /\ \A a, b \in Actors : actor[a].gen # None /\ actor[a].gen = actor[b].gen => a = b

GensReal ==
  \A g \in Gens : IF gen[g].state = "free" THEN gen[g] = FreeGen
                  ELSE gen[g].key \in Keys /\ gen[g].build \in Builds

\* The manager tracks a generation from its publication to the end of its drain.
Live == {"serving", "draining"}
LiveAreTracked ==
  \A g \in Gens : gen[g].state \in Live => \E i \in DOMAIN order : order[i] = g

\* A call keeps its generation, at least as a closed one once it is cut.
CallsHold ==
  \A c \in Callers :
    IF call[c].gen = None THEN call[c] = NoCall
    ELSE /\ gen[call[c].gen].state \in Live \cup {"closed"}
         /\ gen[call[c].gen].state = "closed" => call[c].cut

\* A closed manager serves nothing; its cache is closed after the drains.
ClosedServesNothing ==
  /\ IsClosed => byHook = None /\ \A k \in Keys : byKey[k] = None
  /\ CacheClosed => \A g \in Gens : gen[g].state # "draining"

GenHolders(b) == {g \in Gens : gen[g].build = b /\ gen[g].state # "closed"}
Compiled(b) == {a \in Actors : actor[a].stage = "compiled" /\ actor[a].want.build = b}

\* Who uses an artifact finds it compiled, who waits for it is answered.
EntriesServe ==
  \A b \in Builds :
    IF CacheClosed THEN entry[b] = NoEntry
    ELSE /\ GenHolders(b) \cup Compiled(b) # {} => entry[b].state = "ready"
         /\ Waiting(b) # {} => entry[b].state \in {"compiling", "cancelled"}
         /\ entry[b].state = "none" => entry[b].references = 0

Inv ==
  /\ TypeOK
  /\ RowsReal
  /\ ActorsBusy
  /\ CandidatesOwned
  /\ GensReal
  /\ LiveAreTracked
  /\ NoOrphanGeneration
  /\ CallsHold
  /\ ClosedServesNothing
  /\ EntriesServe
  /\ ReferencesBalance

-----------------------------------------------------------------------------
(* Lemmas about the operators of the model.                                *)

LEMMA ActorsFinite == IsFiniteSet(Actors)
  BY HostAssumption, FS_AddElement DEF Actors, HostAssumption

LEMMA FaultFacts ==
  ASSUME TypeOK, Fault \/ UNCHANGED faults
  PROVE  faults' \in 0 .. MaxFaults
  BY HostAssumption DEF TypeOK, Fault, HostAssumption

LEMMA FailsFacts ==
  ASSUME TypeOK, NEW a, Fails(a) \/ UNCHANGED faults
  PROVE  faults' \in 0 .. MaxFaults
  BY FaultFacts DEF Fails

LEMMA NoRowFacts == NoRow \in Row /\ Real(NoRow)
  BY DEF NoRow, Row, Real

LEMMA RestingFacts == Resting \in Actor /\ Errand(Resting) /\ Resting.gen = None /\ Resting.stage = "idle"
<1>1. Resting.out \in [Keys -> Nat]
  BY DEF Resting
<1> QED
  BY <1>1, NoRowFacts DEF Resting, Actor, Stages, Errand, Preparing

\* A row with another status and the next revision.
LEMMA UpdatedFacts ==
  ASSUME TypeOK, RowsReal, NEW k \in Keys, row[k].id # 0, NEW e \in BOOLEAN
  PROVE  Updated(k, e) \in Row /\ Real(Updated(k, e))
<1>1. row[k] \in Row /\ Real(row[k]) /\ row[k] # NoRow
  BY DEF TypeOK, RowsReal, NoRow
<1>2. ASSUME NEW r \in Row
      PROVE  LET u == [r EXCEPT !.revision = @ + 1, !.enabled = e] IN
             u \in Row /\ u.id = r.id /\ u.build = r.build
  <2> DEFINE v == [r EXCEPT !.revision = @ + 1]
  <2>1. v \in Row /\ v.id = r.id /\ v.build = r.build
    BY DEF Row
  <2> HIDE DEF v
  <2>2. [v EXCEPT !.enabled = e] \in Row /\ [v EXCEPT !.enabled = e].id = v.id
        /\ [v EXCEPT !.enabled = e].build = v.build
    BY <2>1 DEF Row
  <2> QED
    BY <2>1, <2>2 DEF v
<1>4. Updated(k, e) \in Row /\ Updated(k, e).id = row[k].id /\ Updated(k, e).build = row[k].build
  BY <1>1, <1>2 DEF Updated
<1>5. row[k].id # 0 /\ row[k].build \in Builds
  BY <1>1 DEF Real
<1> QED
  BY <1>4, <1>5 DEF Real

\* Whatever a request asks for is a row of the plugin or none.
LEMMA RequestFacts ==
  ASSUME TypeOK, RowsReal, NEW k \in Keys, NEW new \in Requests(k)
  PROVE  new \in Row /\ Real(new)
<1>1. CASE \E b \in Packages[k] : new = Installed(k, b)
  <2>1. PICK b \in Packages[k] : new = Installed(k, b)
    BY <1>1
  <2>2. b \in Builds /\ row[k] \in Row /\ changes \in Nat
    BY HostAssumption DEF HostAssumption, TypeOK
  <2> QED
    BY <2>1, <2>2 DEF Installed, Row, Real
<1>2. CASE row[k].id # 0 /\ new \in {Updated(k, TRUE), Updated(k, FALSE), NoRow}
  BY <1>2, UpdatedFacts, NoRowFacts
<1> QED
  BY <1>1, <1>2 DEF Requests

\* A commit leaves rows of the plugins.
LEMMA CommittedFacts ==
  ASSUME TypeOK, RowsReal, NEW k \in Keys, NEW new \in Row, Real(new)
  PROVE  Committed(k, new) \in [Keys -> Row] /\ \A q \in Keys : Real(Committed(k, new)[q])
<1>1. \A q \in Conflicts(k, new) : q \in Keys /\ row[q].id # 0
  <2>1. \A q \in Keys : row[q].enabled => row[q].id # 0
    BY DEF RowsReal, Real, NoRow
  <2> QED
    BY <2>1, HostAssumption DEF Conflicts, HostAssumption
<1>2. \A q \in Conflicts(k, new) : Updated(q, FALSE) \in Row /\ Real(Updated(q, FALSE))
  BY <1>1, UpdatedFacts
<1>3. \A q \in Keys : row[q] \in Row /\ Real(row[q])
  BY DEF TypeOK, RowsReal
<1> QED
  BY <1>2, <1>3 DEF Committed

LEMMA ReleasedFacts ==
  ASSUME TypeOK, NEW b \in Builds, Release(b)
  PROVE  entry' \in [Builds -> [state : {"none", "compiling", "cancelled", "ready"}, references : Nat]]
<1> DEFINE E == [state : {"none", "compiling", "cancelled", "ready"}, references : Nat]
           r == entry[b]
<1>0. entry \in [Builds -> E] /\ r \in E
  BY DEF TypeOK
<1>2. r.references > 1 => [r EXCEPT !.references = @ - 1] \in E
  BY <1>0
<1>3. NoEntry \in E /\ [state |-> "cancelled", references |-> 0] \in E
  BY DEF NoEntry
<1> DEFINE N == IF r.references > 1 THEN [r EXCEPT !.references = @ - 1]
                ELSE IF r.state = "ready" THEN NoEntry ELSE [state |-> "cancelled", references |-> 0]
<1>4. N \in E
  <2> HIDE DEF E
  <2> QED
    BY <1>2, <1>3
<1>5. Released(b) = [entry EXCEPT ![b] = N]
  BY DEF Released
<1>1. Released(b) \in [Builds -> E]
  <2> HIDE DEF E, N
  <2> QED
    BY <1>0, <1>4, <1>5
<1> QED
  BY <1>1 DEF Release, TypeOK

LEMMA FreeGenFacts == FreeGen \in Generation
  BY DEF FreeGen, Generation

LEMMA DrainingFacts ==
  ASSUME TypeOK, NEW S
  PROVE  Draining(S) \in [Gens -> Generation]
<1>1. \A g \in Gens : gen[g] \in Generation
  BY DEF TypeOK
<1>2. \A r \in Generation : [r EXCEPT !.state = "draining"] \in Generation
  BY DEF Generation
<1> QED
  BY <1>1, <1>2 DEF Draining

LEMMA ServedFacts ==
  ASSUME TypeOK, NEW S, S \subseteq Keys
  PROVE  Without(S) \in [Keys -> Gens \cup {None}] /\ HookWithout(S) \in Gens \cup {None}
         /\ Served(S) \subseteq Gens
  BY SMTT(40) DEF TypeOK, Without, HookWithout, Served

\* Position finds a tracked generation and Untracked keeps the others.
LEMMA OrderFacts ==
  ASSUME TypeOK, NEW g \in Gens, \E i \in DOMAIN order : order[i] = g
  PROVE  /\ Position(g) \in 1 .. Len(order) /\ order[Position(g)] = g
         /\ Untracked(g) \in Seq(Gens)
         /\ \A h \in Gens \ {g} : (\E i \in DOMAIN order : order[i] = h)
              => \E i \in DOMAIN Untracked(g) : Untracked(g)[i] = h
<1> DEFINE p == Position(g)
           n == Len(order)
           A == SubSeq(order, 1, p - 1)
           B == SubSeq(order, p + 1, n)
<1>0. order \in Seq(Gens) /\ n \in Nat /\ DOMAIN order = 1 .. n
  BY DEF TypeOK
<1>1. p \in 1 .. n /\ order[p] = g
  BY <1>0 DEF Position
<1>2. \A i \in 1 .. n : order[i] \in Gens
  BY <1>0, ElementOfSeq
<1>3. /\ A \in Seq(Gens) /\ Len(A) = p - 1
      /\ \A i \in 1 .. p - 1 : A[i] = order[i]
  <2>1. p - 1 \in Int /\ 1 \in Int /\ (\A i \in 1 .. p - 1 : order[i] \in Gens)
    BY <1>0, <1>1, <1>2
  <2>2. /\ SubSeq(order, 1, p - 1) \in Seq(Gens)
        /\ Len(SubSeq(order, 1, p - 1)) = IF 1 <= p - 1 THEN (p - 1) - 1 + 1 ELSE 0
        /\ \A i \in 1 .. (p - 1) - 1 + 1 : SubSeq(order, 1, p - 1)[i] = order[1 + i - 1]
    BY <2>1, SubSeqProperties
  <2> QED
    BY <2>2, <1>0, <1>1
<1>4. /\ B \in Seq(Gens) /\ Len(B) = n - p
      /\ \A i \in 1 .. n - p : B[i] = order[p + i]
  <2>1. p + 1 \in Int /\ n \in Int /\ (\A i \in p + 1 .. n : order[i] \in Gens)
    BY <1>0, <1>1, <1>2
  <2>2. /\ SubSeq(order, p + 1, n) \in Seq(Gens)
        /\ Len(SubSeq(order, p + 1, n)) = IF p + 1 <= n THEN n - (p + 1) + 1 ELSE 0
        /\ \A i \in 1 .. n - (p + 1) + 1 : SubSeq(order, p + 1, n)[i] = order[(p + 1) + i - 1]
    BY <2>1, SubSeqProperties
  <2> QED
    BY <2>2, <1>0, <1>1, SMTT(40)
<1> HIDE DEF A, B
<1>5. /\ A \o B \in Seq(Gens) /\ Len(A \o B) = Len(A) + Len(B)
      /\ \A i \in 1 .. Len(A) + Len(B) : (A \o B)[i] = IF i <= Len(A) THEN A[i] ELSE B[i - Len(A)]
  BY <1>3, <1>4, ConcatProperties
<1>6. Untracked(g) = A \o B
  BY DEF Untracked, A, B
<1>7. ASSUME NEW h \in Gens \ {g}, NEW i \in 1 .. n, order[i] = h
      PROVE  \E j \in 1 .. n - 1 : (A \o B)[j] = h
  <2>1. i # p
    BY <1>1, <1>7
  <2>2. CASE i < p
    <3>1. i \in 1 .. p - 1 /\ i \in 1 .. n - 1 /\ i <= Len(A) /\ i \in 1 .. Len(A) + Len(B)
      BY <2>2, <1>0, <1>1, <1>3, <1>4
    <3> QED
      BY <3>1, <1>3, <1>5, <1>7
  <2>3. CASE i > p
    <3>1. i - 1 \in 1 .. n - 1 /\ ~(i - 1 <= Len(A)) /\ i - 1 \in 1 .. Len(A) + Len(B)
          /\ (i - 1) - Len(A) = i - p /\ i - p \in 1 .. n - p /\ p + (i - p) = i
      BY <2>3, <1>0, <1>1, <1>3, <1>4
    <3> QED
      BY <3>1, <1>4, <1>5, <1>7
  <2>4. i < p \/ i > p
    BY <2>1, <1>0, <1>1
  <2> QED
    BY <2>2, <2>3, <2>4
<1>8. DOMAIN (A \o B) = 1 .. n - 1
  <2>1. Len(A \o B) = n - 1
    BY <1>0, <1>1, <1>3, <1>4, <1>5
  <2> QED
    BY <2>1, <1>5, LenProperties
<1> QED
  BY <1>0, <1>1, <1>5, <1>6, <1>7, <1>8

LEMMA AfterCallFacts ==
  ASSUME TypeOK, NEW c \in Callers, call[c].gen \in Gens, NEW new \in [Gens -> Generation]
  PROVE  AfterCall(c, new) \in [Gens -> Generation]
  BY FreeGenFacts DEF AfterCall

-----------------------------------------------------------------------------
(* The first layer: types, the rows and the actors' errands.               *)

Sorts == TypeOK /\ RowsReal /\ ActorsBusy

\* Changing one field of an actor.
LEMMA ActorFields ==
  ASSUME NEW r \in Actor
  PROVE  /\ \A x \in Stages : LET u == [r EXCEPT !.stage = x] IN
              /\ u \in Actor /\ u.stage = x
              /\ u.key = r.key /\ u.want = r.want /\ u.gen = r.gen /\ u.out = r.out
         /\ \A x \in Gens \cup {None} : LET u == [r EXCEPT !.gen = x] IN
              /\ u \in Actor /\ u.gen = x
              /\ u.stage = r.stage /\ u.key = r.key /\ u.want = r.want /\ u.out = r.out
         /\ \A x \in [Keys -> Nat] : LET u == [r EXCEPT !.out = x] IN
              /\ u \in Actor /\ u.out = x
              /\ u.stage = r.stage /\ u.key = r.key /\ u.want = r.want /\ u.gen = r.gen
         /\ \A x \in {"enabled", "disabled", "error"} : LET u == [r EXCEPT !.state = x] IN
              /\ u \in Actor /\ u.stage = r.stage /\ u.key = r.key /\ u.want = r.want
              /\ u.gen = r.gen /\ u.out = r.out
  BY DEF Actor

LEMMA ActorMoves ==
  ASSUME Sorts, NEW a \in Actors, NEW r \in Actor, Errand(r), actor' = [actor EXCEPT ![a] = r]
  PROVE  actor' \in [Actors -> Actor] /\ ActorsBusy'
  BY DEF Sorts, TypeOK, ActorsBusy

LEMMA ActorIs ==
  ASSUME Sorts, NEW a \in Actors
  PROVE  /\ actor \in [Actors -> Actor] /\ actor[a] \in Actor /\ Errand(actor[a])
         /\ actor[a].stage \in Stages /\ actor[a].want \in Row /\ actor[a].out \in [Keys -> Nat]
         /\ actor[a].gen \in Gens \cup {None} /\ actor[a].key \in Keys \cup {None}
<1>1. actor \in [Actors -> Actor] /\ actor[a] \in Actor /\ Errand(actor[a])
  BY DEF Sorts, TypeOK, ActorsBusy
<1> QED
  BY <1>1 DEF Actor

\* An actor goes on to another stage of the same errand.
LEMMA GoSorts ==
  ASSUME Sorts, NEW a \in Actors, NEW x \in Stages, Go(a, x),
         Errand([actor[a] EXCEPT !.stage = x])
  PROVE  actor' \in [Actors -> Actor] /\ ActorsBusy'
<1>1. [actor[a] EXCEPT !.stage = x] \in Actor
  BY ActorIs, ActorFields
<1>2. actor' = [actor EXCEPT ![a] = [actor[a] EXCEPT !.stage = x]]
  BY ActorIs DEF Go
<1> QED
  BY <1>1, <1>2, ActorMoves

LEMMA RestSorts ==
  ASSUME Sorts, NEW a \in Actors, actor' = [actor EXCEPT ![a] = Resting]
  PROVE  actor' \in [Actors -> Actor] /\ ActorsBusy'
  BY RestingFacts, ActorMoves

\* An actor that prepares has no candidate yet.
LEMMA FailedFacts ==
  ASSUME Sorts, NEW a \in Actors, actor[a].stage \in Preparing
  PROVE  Failed(a) \in Actor /\ Errand(Failed(a)) /\ Failed(a).gen = None
         /\ Failed(a).stage \in {"idle", "diagnose"}
<1> DEFINE u == [actor[a] EXCEPT !.stage = "diagnose"]
           v == [u EXCEPT !.state = "error"]
<1>1. actor[a] \in Actor /\ Errand(actor[a]) /\ "diagnose" \in Stages
  BY ActorIs DEF Stages
<1>2. u \in Actor /\ u.stage = "diagnose" /\ u.gen = actor[a].gen /\ u.want = actor[a].want
      /\ u.key = actor[a].key
  BY <1>1, ActorFields
<1>3. v \in Actor /\ v.stage = "diagnose" /\ v.gen = actor[a].gen /\ v.want = actor[a].want
      /\ v.key = actor[a].key
  <2> HIDE DEF u
  <2> QED
    BY <1>2, ActorFields
<1>4. [actor[a] EXCEPT !.stage = "diagnose", !.state = "error"] = v
  OBVIOUS
<1> HIDE DEF v
<1>5. v.gen = None /\ Errand(v)
  BY <1>1, <1>3 DEF Errand, Preparing
<1> QED
  BY <1>3, <1>4, <1>5, RestingFacts DEF Failed

LEMMA GenFields ==
  ASSUME TypeOK, NEW g \in Gens
  PROVE  /\ gen \in [Gens -> Generation] /\ gen[g] \in Generation
         /\ gen[g].key \in Keys \cup {None} /\ gen[g].build \in Builds \cup {None}
         /\ gen[g].state \in {"free", "candidate", "serving", "draining", "closed"}
  BY DEF TypeOK, Generation

\* Everything but the generations, the resolver, the cache, the calls and
\* the manager's own state stays: types of the rest are kept.
LEMMA SortsOf ==
  ASSUME Sorts, UNCHANGED <<database, diag, failure, syncing>>,
         actor' \in [Actors -> Actor], ActorsBusy',
         gen' \in [Gens -> Generation], order' \in Seq(Gens),
         byKey' \in [Keys -> Gens \cup {None}], byHook' \in Gens \cup {None},
         entry' \in [Builds -> [state : {"none", "compiling", "cancelled", "ready"},
                                references : Nat]],
         call' \in [Callers -> [gen : Gens \cup {None}, broken : BOOLEAN, cut : BOOLEAN]],
         close' \in {"open", "stopping", "draining", "done"},
         faults' \in 0 .. MaxFaults
  PROVE  Sorts'
<1>1. TypeOK'
  BY DEF Sorts, TypeOK, database, syncing
<1>2. RowsReal'
  BY SMTT(40) DEF Sorts, RowsReal, database, syncing
<1> QED
  BY <1>1, <1>2 DEF Sorts

\* Preparing and discarding.

LEMMA AcquireSorts ==
  ASSUME Sorts, NEW a \in Actors, Acquire(a)
  PROVE  Sorts'
<1> DEFINE b == actor[a].want.build
           x == IF entry[b].state = "ready" THEN "compiled" ELSE "compiling"
<1>1. b \in Builds /\ Errand(actor[a]) /\ actor[a].stage = "prepare"
  BY ActorIs DEF Acquire, Errand, Preparing
<1>2. entry' \in [Builds -> [state : {"none", "compiling", "cancelled", "ready"}, references : Nat]]
  BY <1>1 DEF Acquire, Sorts, TypeOK
<1>3. x \in Stages /\ Go(a, x) /\ x \in {"compiled", "compiling"}
  BY DEF Stages, Acquire
<1> HIDE DEF x
<1>4. Errand([actor[a] EXCEPT !.stage = x])
  BY <1>1, <1>3, ActorIs, ActorFields DEF Errand, Preparing
<1>5. actor' \in [Actors -> Actor] /\ ActorsBusy'
  BY <1>3, <1>4, GoSorts
<1> QED
  BY <1>2, <1>5, SortsOf DEF Acquire, Sorts, TypeOK, tracked, resolver

LEMMA CompleteCompileSorts ==
  ASSUME Sorts, NEW b \in Builds, NEW ok \in BOOLEAN, CompleteCompile(b, ok)
  PROVE  Sorts'
<1>1. entry' \in [Builds -> [state : {"none", "compiling", "cancelled", "ready"}, references : Nat]]
  <2> DEFINE E == [state : {"none", "compiling", "cancelled", "ready"}, references : Nat]
             N == IF ok /\ entry[b].references > 0 THEN [entry[b] EXCEPT !.state = "ready"] ELSE NoEntry
  <2>1. entry \in [Builds -> E] /\ NoEntry \in E /\ [entry[b] EXCEPT !.state = "ready"] \in E
    BY ZenonT(40) DEF Sorts, TypeOK, NoEntry
  <2>2. entry' = [entry EXCEPT ![b] = N]
    BY DEF CompleteCompile
  <2>3. N \in E
    <3> HIDE DEF E
    <3> QED
      BY <2>1
  <2> HIDE DEF E, N
  <2>4. entry' \in [Builds -> E]
    BY <2>1, <2>2, <2>3
  <2> QED
    BY <2>4 DEF E
<1>2. ASSUME NEW a \in Actors PROVE actor'[a] \in Actor /\ Errand(actor'[a])
  <2>1. CASE a \notin Waiting(b)
    BY <2>1, ActorIs DEF CompleteCompile
  <2>2. CASE a \in Waiting(b) /\ ok
    <3>1. actor'[a] = [actor[a] EXCEPT !.stage = "compiled"] /\ actor[a].stage = "compiling"
          /\ "compiled" \in Stages
      BY <2>2 DEF CompleteCompile, Waiting, Stages
    <3> DEFINE u == [actor[a] EXCEPT !.stage = "compiled"]
    <3>2. actor[a] \in Actor /\ Errand(actor[a])
      BY ActorIs
    <3>3. u \in Actor /\ u.stage = "compiled" /\ u.gen = actor[a].gen
          /\ u.key = actor[a].key /\ u.want = actor[a].want
      BY <3>1, <3>2, ActorFields
    <3> HIDE DEF u
    <3>4. Errand(u)
      BY <3>1, <3>2, <3>3 DEF Errand, Preparing
    <3> QED
      BY <3>1, <3>3, <3>4 DEF u
  <2>3. CASE a \in Waiting(b) /\ ~ok
    <3>1. actor'[a] = Failed(a) /\ actor[a].stage \in Preparing
      BY <2>3 DEF CompleteCompile, Waiting, Preparing
    <3> QED
      BY <3>1, FailedFacts
  <2> QED
    BY <2>1, <2>2, <2>3
<1>3. actor' \in [Actors -> Actor] /\ ActorsBusy'
  BY <1>2 DEF CompleteCompile, ActorsBusy
<1>4. faults' \in 0 .. MaxFaults
  BY FaultFacts DEF CompleteCompile, Sorts
<1> QED
  BY <1>1, <1>3, <1>4, SortsOf DEF CompleteCompile, Sorts, TypeOK, tracked, resolver

LEMMA PrepareFailsSorts ==
  ASSUME Sorts, NEW a \in Actors, PrepareFails(a)
  PROVE  Sorts'
<1>1. actor[a].stage \in Preparing /\ actor[a].want.build \in Builds
  BY ActorIs DEF PrepareFails, Preparing, Errand
<1>2. entry' \in [Builds -> [state : {"none", "compiling", "cancelled", "ready"}, references : Nat]]
  <2>1. CASE Release(actor[a].want.build)
    BY <2>1, <1>1, ReleasedFacts DEF Sorts
  <2>2. CASE UNCHANGED entry
    BY <2>2 DEF Sorts, TypeOK
  <2> QED
    BY <2>1, <2>2 DEF PrepareFails
<1>3. actor' \in [Actors -> Actor] /\ ActorsBusy'
  BY <1>1, FailedFacts, ActorMoves DEF PrepareFails
<1>4. faults' \in 0 .. MaxFaults
  BY FailsFacts DEF PrepareFails, Sorts
<1> QED
  BY <1>2, <1>3, <1>4, SortsOf DEF PrepareFails, Sorts, TypeOK, tracked, resolver

FreshGen == CHOOSE g \in Gens : gen[g] = FreeGen

\* The candidate of an actor that has prepared.
NewCandidate(a) == [FreeGen EXCEPT !.state = "candidate", !.key = actor[a].key,
                                   !.revision = actor[a].want.revision,
                                   !.build = actor[a].want.build]

LEMMA NewCandidateFacts ==
  ASSUME Sorts, NEW a \in Actors, actor[a].stage \in Preparing
  PROVE  /\ NewCandidate(a) \in Generation /\ NewCandidate(a).state = "candidate"
         /\ NewCandidate(a).key = actor[a].key /\ NewCandidate(a).key \in Keys
         /\ NewCandidate(a).build = actor[a].want.build /\ NewCandidate(a).build \in Builds
<1>1. actor[a].want.build \in Builds /\ actor[a].want.revision \in Nat /\ actor[a].key \in Keys
  BY ActorIs DEF Errand, Row, Preparing
<1> QED
  BY <1>1 DEF NewCandidate, FreeGen, Generation

\* Prepared either publishes or commits with a candidate of its own ...
LEMMA PreparedFacts ==
  ASSUME Sorts, NEW a \in Actors, Prepared(a), actor[a].want.enabled
  PROVE  /\ FreshGen \in Gens /\ gen[FreshGen] = FreeGen
         /\ gen' = [gen EXCEPT ![FreshGen] = NewCandidate(a)] /\ entry' = entry
         /\ actor'[a].gen = FreshGen /\ actor'[a].stage \in {"publish", "commit"}
         /\ actor'[a].key = actor[a].key
         /\ \A o \in Actors \ {a} : actor'[o] = actor[o]
         /\ actor' \in [Actors -> Actor] /\ ActorsBusy'
<1>1. \E g \in Gens : gen[g] = FreeGen
  BY DEF Prepared
<1>2. FreshGen \in Gens /\ gen[FreshGen] = FreeGen
  BY <1>1 DEF FreshGen
<1> DEFINE x == IF a = Sync THEN "publish" ELSE "commit"
           u == [actor[a] EXCEPT !.gen = FreshGen]
           v == [u EXCEPT !.stage = x]
<1>3. gen' = [gen EXCEPT ![FreshGen] = NewCandidate(a)] /\ entry' = entry
      /\ actor' = [actor EXCEPT ![a].gen = FreshGen, ![a].stage = x]
  BY DEF Prepared, FreshGen, NewCandidate
<1>4. x \in Stages /\ x \in {"publish", "commit"}
  BY DEF Stages
<1>5. actor[a].stage = "compiled" /\ Errand(actor[a])
  BY ActorIs DEF Prepared
<1>6. u \in Actor /\ u.gen = FreshGen /\ u.key = actor[a].key /\ u.want = actor[a].want
  <2>1. actor[a] \in Actor
    BY ActorIs
  <2>2. FreshGen \in Gens \cup {None}
    BY <1>2
  <2>3. [actor[a] EXCEPT !.gen = FreshGen] \in Actor
        /\ [actor[a] EXCEPT !.gen = FreshGen].gen = FreshGen
        /\ [actor[a] EXCEPT !.gen = FreshGen].key = actor[a].key
        /\ [actor[a] EXCEPT !.gen = FreshGen].want = actor[a].want
    BY <2>1, <2>2 DEF Actor
  <2> QED
    BY <2>3
<1>7. actor' = [actor EXCEPT ![a] = v]
  BY <1>3, ActorIs
<1> HIDE DEF u, x
<1>8. v \in Actor /\ v.stage = x /\ v.gen = FreshGen /\ v.key = actor[a].key /\ v.want = actor[a].want
  BY <1>4, <1>6, ActorFields
<1> HIDE DEF v
<1>9. FreshGen # None
  BY <1>2, HostAssumption DEF HostAssumption
<1>10. Errand(v)
  BY <1>4, <1>5, <1>8, <1>9 DEF Errand, Preparing
<1>11. actor' \in [Actors -> Actor] /\ ActorsBusy'
  BY <1>7, <1>8, <1>10, ActorMoves
<1>12. actor'[a] = v /\ \A o \in Actors \ {a} : actor'[o] = actor[o]
  BY <1>7, ActorIs
<1> QED
  BY <1>2, <1>3, <1>4, <1>8, <1>11, <1>12

\* ... or goes on to commit a disabled plugin.
LEMMA CheckedFacts ==
  ASSUME Sorts, NEW a \in Actors, Prepared(a), ~actor[a].want.enabled
  PROVE  /\ ~CacheClosed /\ Release(actor[a].want.build) /\ actor[a].want.build \in Builds
         /\ UNCHANGED gen /\ actor[a].stage = "compiled"
         /\ actor'[a].gen = None /\ actor'[a].stage = "commit"
         /\ \A o \in Actors \ {a} : actor'[o] = actor[o]
         /\ actor' \in [Actors -> Actor] /\ ActorsBusy'
<1>1. ~CacheClosed /\ Release(actor[a].want.build) /\ UNCHANGED gen /\ Go(a, "commit")
      /\ actor[a].stage = "compiled"
  BY DEF Prepared
<1>2. Errand(actor[a]) /\ actor[a] \in Actor /\ actor \in [Actors -> Actor]
  BY ActorIs
<1>3. actor[a].want.build \in Builds /\ actor[a].gen = None
  BY <1>1, <1>2 DEF Errand, Preparing
<1>4. "commit" \in Stages
  BY DEF Stages
<1>5. Errand([actor[a] EXCEPT !.stage = "commit"])
  BY <1>1, <1>2, <1>3, <1>4, ActorFields DEF Errand, Preparing
<1>6. actor' \in [Actors -> Actor] /\ ActorsBusy'
  BY <1>1, <1>4, <1>5, GoSorts
<1>7. actor'[a] = [actor[a] EXCEPT !.stage = "commit"] /\ \A o \in Actors \ {a} : actor'[o] = actor[o]
  BY <1>1, <1>2 DEF Go
<1>8. actor'[a].gen = None /\ actor'[a].stage = "commit"
  BY <1>2, <1>3, <1>4, <1>7, ActorFields
<1> QED
  BY <1>1, <1>3, <1>6, <1>7, <1>8

LEMMA PreparedSorts ==
  ASSUME Sorts, NEW a \in Actors, Prepared(a)
  PROVE  Sorts'
<1>1. CASE actor[a].want.enabled
  <2>1. actor[a].stage \in Preparing
    BY DEF Prepared, Preparing
  <2>2. gen' \in [Gens -> Generation]
    BY <1>1, <2>1, PreparedFacts, NewCandidateFacts, ZenonT(40) DEF Sorts, TypeOK
  <2>3. UNCHANGED entry /\ actor' \in [Actors -> Actor] /\ ActorsBusy'
    BY <1>1, PreparedFacts
  <2> QED
    BY <2>2, <2>3, SortsOf DEF Prepared, Sorts, TypeOK, resolver
<1>2. CASE ~actor[a].want.enabled
  <2>1. entry' \in [Builds -> [state : {"none", "compiling", "cancelled", "ready"}, references : Nat]]
    BY <1>2, CheckedFacts, ReleasedFacts DEF Sorts
  <2>2. UNCHANGED gen /\ actor' \in [Actors -> Actor] /\ ActorsBusy'
    BY <1>2, CheckedFacts
  <2> QED
    BY <2>1, <2>2, SortsOf DEF Prepared, Sorts, TypeOK, resolver
<1> QED
  BY <1>1, <1>2

LEMMA ShutdownSorts ==
  ASSUME Sorts, NEW g \in Gens, gen[g].build \in Builds, Shutdown(g)
  PROVE  /\ gen' \in [Gens -> Generation]
         /\ entry' \in [Builds -> [state : {"none", "compiling", "cancelled", "ready"},
                                   references : Nat]]
<1>1. gen' \in [Gens -> Generation]
  BY FreeGenFacts DEF Shutdown, Sorts, TypeOK
<1> QED
  BY <1>1, ReleasedFacts DEF Shutdown, Sorts

\* The candidate of an actor is a generation to shut down or to publish.
LEMMA CandidateFacts ==
  ASSUME Sorts, CandidatesOwned, GensReal, NEW a \in Actors, actor[a].gen # None
  PROVE  /\ actor[a].gen \in Gens /\ gen[actor[a].gen].state = "candidate"
         /\ gen[actor[a].gen].build \in Builds /\ gen[actor[a].gen].key = actor[a].key
<1>1. actor[a].gen \in Gens
  BY ActorIs
<1> QED
  BY <1>1 DEF CandidatesOwned, GensReal

LEMMA DiscardSorts ==
  ASSUME Sorts, CandidatesOwned, GensReal, NEW a \in Actors, Discard(a)
  PROVE  Sorts'
<1>1. /\ gen' \in [Gens -> Generation]
      /\ entry' \in [Builds -> [state : {"none", "compiling", "cancelled", "ready"},
                                references : Nat]]
  BY CandidateFacts, ShutdownSorts DEF Discard, Sorts, TypeOK
<1>2. actor' \in [Actors -> Actor] /\ ActorsBusy'
  BY RestSorts DEF Discard
<1> QED
  BY <1>1, <1>2, SortsOf DEF Discard, Sorts, TypeOK, resolver

-----------------------------------------------------------------------------
(* The resolver.                                                           *)

LEMMA ReplacedFacts ==
  ASSUME NEW a
  PROVE  Replaced(a) \subseteq Keys
  BY DEF Replaced

\* The actor of a publication goes on to its diagnosis.
LEMMA PublishActor ==
  ASSUME Sorts, NEW a \in Actors, actor[a].stage = "publish", NEW x \in {"enabled", "error"},
         NEW o \in [Keys -> Nat],
         actor' = [actor EXCEPT ![a].stage = "diagnose", ![a].state = x, ![a].gen = None, ![a].out = o]
  PROVE  /\ actor' \in [Actors -> Actor] /\ ActorsBusy'
         /\ actor'[a].gen = None /\ actor'[a].stage = "diagnose"
         /\ \A b \in Actors \ {a} : actor'[b] = actor[b]
<1> DEFINE u == [actor[a] EXCEPT !.stage = "diagnose"]
           v == [u EXCEPT !.state = x]
           w == [v EXCEPT !.gen = None]
           z == [w EXCEPT !.out = o]
<1>0. actor[a] \in Actor /\ Errand(actor[a]) /\ "diagnose" \in Stages
  BY ActorIs DEF Stages
<1>1. u \in Actor /\ u.stage = "diagnose" /\ u.key = actor[a].key /\ u.want = actor[a].want
  BY <1>0, ActorFields
<1>2. actor' = [actor EXCEPT ![a] = z]
  BY ActorIs
<1> HIDE DEF u
<1>3. v \in Actor /\ v.stage = u.stage /\ v.key = u.key /\ v.want = u.want
  BY <1>1 DEF Actor
<1> HIDE DEF v
<1>4. w \in Actor /\ w.stage = v.stage /\ w.key = v.key /\ w.want = v.want /\ w.gen = None
  BY <1>3 DEF Actor
<1> HIDE DEF w
<1>5. z \in Actor /\ z.stage = w.stage /\ z.key = w.key /\ z.want = w.want /\ z.gen = w.gen
  BY <1>4 DEF Actor
<1> HIDE DEF z
<1>6. Errand(z)
  BY <1>0, <1>1, <1>3, <1>4, <1>5 DEF Errand, Preparing
<1>7. actor' \in [Actors -> Actor] /\ ActorsBusy'
  BY <1>2, <1>5, <1>6, ActorMoves
<1>8. actor'[a] = z /\ \A b \in Actors \ {a} : actor'[b] = actor[b]
  BY <1>2, ActorIs
<1> QED
  BY <1>1, <1>3, <1>4, <1>5, <1>7, <1>8

LEMMA PublishActorFacts ==
  ASSUME Sorts, NEW a \in Actors, Publish(a) \/ PublishFails(a)
  PROVE  /\ actor' \in [Actors -> Actor] /\ ActorsBusy'
         /\ actor[a].stage = "publish" /\ actor[a].gen # None /\ actor[a].key \in Keys
         /\ actor'[a].gen = None /\ actor'[a].stage = "diagnose"
         /\ \A b \in Actors \ {a} : actor'[b] = actor[b]
<1>1. actor[a].stage = "publish" /\ Errand(actor[a])
  BY ActorIs DEF Publish, PublishFails
<1>2. actor[a].gen # None /\ actor[a].key \in Keys
  BY <1>1 DEF Errand
<1>3. CASE Publish(a)
  <2>1. actor[a].out \in [Keys -> Nat] /\ actor[a] \in Actor /\ actor \in [Actors -> Actor]
    BY ActorIs
  <2>2. actor' = [actor EXCEPT ![a].stage = "diagnose", ![a].state = "enabled",
                               ![a].gen = None, ![a].out = actor[a].out]
    BY <1>3, <2>1 DEF Publish, Actor
  <2> QED
    BY <1>1, <1>2, <2>1, <2>2, PublishActor
<1>4. CASE PublishFails(a)
  <2>1. Resting.out \in [Keys -> Nat]
    BY DEF Resting
  <2> QED
    BY <1>1, <1>2, <1>4, <2>1, PublishActor DEF PublishFails
<1> QED
  BY <1>3, <1>4

LEMMA PublishSorts ==
  ASSUME Sorts, NEW a \in Actors, Publish(a)
  PROVE  Sorts'
<1> DEFINE g == actor[a].gen
           S == Replaced(a)
           D == Draining(Served(S \cup {actor[a].key}))
<1>1. g \in Gens /\ actor[a].key \in Keys /\ S \subseteq Keys
  BY PublishActorFacts, ActorIs, ReplacedFacts
<1>2. D \in [Gens -> Generation]
  BY DrainingFacts DEF Sorts
<1>3. gen' \in [Gens -> Generation]
  <2>1. gen' = [D EXCEPT ![g].state = "serving"]
    BY DEF Publish
  <2> HIDE DEF D
  <2>2. [D[g] EXCEPT !.state = "serving"] \in Generation
    BY <1>1, <1>2 DEF Generation
  <2> QED
    BY <1>1, <1>2, <2>1, <2>2
<1>4. byKey' \in [Keys -> Gens \cup {None}] /\ byHook' \in Gens \cup {None}
  <2>1. Without(S) \in [Keys -> Gens \cup {None}] /\ HookWithout(S) \in Gens \cup {None}
    BY <1>1, ServedFacts DEF Sorts
  <2> QED
    BY <1>1, <2>1 DEF Publish
<1>5. order' \in Seq(Gens)
  BY <1>1, AppendProperties DEF Publish, Sorts, TypeOK
<1>6. actor' \in [Actors -> Actor] /\ ActorsBusy'
  BY PublishActorFacts
<1> QED
  BY <1>3, <1>4, <1>5, <1>6, SortsOf DEF Publish, Sorts, TypeOK

LEMMA PublishFailsSorts ==
  ASSUME Sorts, CandidatesOwned, GensReal, NEW a \in Actors, PublishFails(a)
  PROVE  Sorts'
<1>1. actor' \in [Actors -> Actor] /\ ActorsBusy' /\ actor[a].gen # None
  BY PublishActorFacts
<1>2. /\ gen' \in [Gens -> Generation]
      /\ entry' \in [Builds -> [state : {"none", "compiling", "cancelled", "ready"},
                                references : Nat]]
  BY <1>1, CandidateFacts, ShutdownSorts DEF PublishFails
<1> QED
  BY <1>1, <1>2, SortsOf DEF PublishFails, Sorts, TypeOK, resolver

LEMMA UnpublishSorts ==
  ASSUME Sorts, NEW k \in Keys, Unpublish(k)
  PROVE  /\ gen' \in [Gens -> Generation]
         /\ byKey' \in [Keys -> Gens \cup {None}] /\ byHook' \in Gens \cup {None}
<1>1. CASE IsClosed
  BY <1>1 DEF Unpublish, Sorts, TypeOK, resolver
<1>2. CASE ~IsClosed
  BY <1>2, DrainingFacts, ServedFacts DEF Unpublish, Sorts
<1> QED
  BY <1>1, <1>2

\* An actor that has no candidate goes on to its diagnosis.
LEMMA DisableActor ==
  ASSUME Sorts, NEW a \in Actors, Disable(a)
  PROVE  /\ actor' \in [Actors -> Actor] /\ ActorsBusy'
         /\ actor[a].key \in Keys /\ actor[a].gen = None /\ actor[a].stage = "disable"
         /\ actor'[a].gen = None /\ actor'[a].stage = "diagnose"
         /\ \A b \in Actors \ {a} : actor'[b] = actor[b]
<1> DEFINE x == IF IsClosed THEN "error" ELSE "disabled"
           u == [actor[a] EXCEPT !.stage = "diagnose"]
           v == [u EXCEPT !.state = x]
<1>0. actor[a] \in Actor /\ Errand(actor[a]) /\ actor[a].stage = "disable" /\ "diagnose" \in Stages
      /\ x \in {"enabled", "disabled", "error"}
  BY ActorIs DEF Stages, Disable
<1>1. u \in Actor /\ u.stage = "diagnose" /\ u.key = actor[a].key /\ u.want = actor[a].want
      /\ u.gen = actor[a].gen
  BY <1>0, ActorFields
<1>2. actor' = [actor EXCEPT ![a] = v]
  BY ActorIs DEF Disable
<1> HIDE DEF u, x
<1>3. v \in Actor /\ v.stage = u.stage /\ v.key = u.key /\ v.want = u.want /\ v.gen = u.gen
  BY <1>0, <1>1 DEF Actor
<1> HIDE DEF v
<1>4. Errand(v) /\ v.gen = None /\ actor[a].key \in Keys
  BY <1>0, <1>1, <1>3 DEF Errand, Preparing
<1>5. actor' \in [Actors -> Actor] /\ ActorsBusy'
  BY <1>2, <1>3, <1>4, ActorMoves
<1>6. actor'[a] = v /\ \A b \in Actors \ {a} : actor'[b] = actor[b]
  BY <1>2, ActorIs
<1> QED
  BY <1>0, <1>1, <1>3, <1>4, <1>5, <1>6

LEMMA DisableSorts ==
  ASSUME Sorts, NEW a \in Actors, Disable(a)
  PROVE  Sorts'
<1>1. actor[a].key \in Keys /\ actor' \in [Actors -> Actor] /\ ActorsBusy'
  BY DisableActor
<1>2. /\ gen' \in [Gens -> Generation]
      /\ byKey' \in [Keys -> Gens \cup {None}] /\ byHook' \in Gens \cup {None}
  BY <1>1, UnpublishSorts DEF Disable
<1> QED
  BY <1>1, <1>2, SortsOf DEF Disable, Sorts, TypeOK

LEMMA RemoveSorts ==
  ASSUME Sorts, NEW a \in Actors, Remove(a)
  PROVE  Sorts'
<1>1. actor[a].key \in Keys
  BY ActorIs DEF Remove, Errand
<1>2. actor' \in [Actors -> Actor] /\ ActorsBusy'
  BY RestSorts DEF Remove
<1>3. /\ gen' \in [Gens -> Generation]
      /\ byKey' \in [Keys -> Gens \cup {None}] /\ byHook' \in Gens \cup {None}
  BY <1>1, UnpublishSorts DEF Remove
<1>4. diag' \in [Keys -> [state : {"none", "enabled", "disabled", "error"}, revision : Nat]]
      /\ failure' \in [Keys -> Nat]
  BY DEF Remove, NoDiagnostic, Sorts, TypeOK
<1>5. TypeOK'
  BY <1>2, <1>3, <1>4 DEF Remove, Sorts, TypeOK, database, syncing
<1>6. RowsReal'
  BY DEF Remove, Sorts, RowsReal, database, syncing
<1> QED
  BY <1>2, <1>5, <1>6 DEF Sorts

LEMMA DiagnoseSorts ==
  ASSUME Sorts, NEW a \in Actors, Diagnose(a)
  PROVE  Sorts'
<1> DEFINE Diag == [state : {"none", "enabled", "disabled", "error"}, revision : Nat]
           k == actor[a].key
           rev == actor[a].want.revision
           s == actor[a].state
           new == [state |-> s, revision |-> IF s = "error" THEN diag[k].revision ELSE rev]
<1>1. k \in Keys /\ rev \in Nat /\ s \in {"enabled", "disabled", "error"}
  <2>1. Errand(actor[a]) /\ actor[a] \in Actor /\ actor[a].stage = "diagnose"
    BY ActorIs DEF Diagnose
  <2> QED
    BY <2>1 DEF Errand, Actor, Row
<1>2. actor' \in [Actors -> Actor] /\ ActorsBusy'
  BY RestSorts DEF Diagnose
<1>3. diag \in [Keys -> Diag] /\ diag[k].revision \in Nat
  BY <1>1 DEF Sorts, TypeOK
<1>4. new \in Diag
  BY <1>1, <1>3
<1>5. \A q \in Keys : [state |-> "disabled", revision |-> actor[a].out[q]] \in Diag
  BY ActorIs
<1>6. diag' \in [Keys -> Diag]
  <2>1. diag' = [q \in Keys |->
                IF q = k THEN new
                ELSE IF q \in Replaced(a) THEN [state |-> "disabled", revision |-> actor[a].out[q]]
                ELSE diag[q]]
    BY DEF Diagnose
  <2> HIDE DEF Diag, new
  <2> QED
    BY <1>3, <1>4, <1>5, <2>1
<1>7. failure' \in [Keys -> Nat]
  BY <1>1 DEF Diagnose, Sorts, TypeOK
<1>8. TypeOK'
  BY <1>2, <1>6, <1>7 DEF Diagnose, Sorts, TypeOK, database, syncing, tracked, resolver
<1>9. RowsReal'
  BY DEF Diagnose, Sorts, RowsReal, database, syncing
<1> QED
  BY <1>2, <1>8, <1>9 DEF Sorts

-----------------------------------------------------------------------------
(* Administrators and the sync loop.                                       *)

\* An actor that is not occupied has no candidate.
LEMMA IdleFacts ==
  ASSUME Sorts, NEW a \in Actors, actor[a].stage = "idle"
  PROVE  actor[a].gen = None
  BY ActorIs DEF Errand

\* A fresh errand for plugin k.
NewErrand(r, k, w, x) == [r EXCEPT !.stage = x, !.key = k, !.want = w]

LEMMA NewErrandFacts ==
  ASSUME NEW r \in Actor, r.gen = None, NEW k \in Keys, NEW w \in Row, Real(w),
         NEW x \in {"prepare", "commit", "disable", "remove", "diagnose"},
         x = "prepare" => w.build \in Builds, x = "commit" => ~w.enabled
  PROVE  /\ NewErrand(r, k, w, x) \in Actor /\ Errand(NewErrand(r, k, w, x))
         /\ NewErrand(r, k, w, x).gen = None /\ NewErrand(r, k, w, x).stage = x
<1> DEFINE n == NewErrand(r, k, w, x)
<1>1. n \in Actor /\ n.stage = x /\ n.key = k /\ n.want = w /\ n.gen = None
  BY DEF NewErrand, Actor, Stages
<1> HIDE DEF n
<1>2. Errand(n)
  BY <1>1 DEF Errand, Preparing
<1> QED
  BY <1>1, <1>2 DEF n

LEMMA RequestActor ==
  ASSUME Sorts, NEW a \in Actors, NEW k \in Keys, NEW new \in Requests(k), Request(a, k, new)
  PROVE  /\ actor' \in [Actors -> Actor] /\ ActorsBusy'
         /\ actor[a].stage = "idle"
         /\ actor'[a].gen = None /\ actor'[a].stage \in {"prepare", "commit"}
         /\ \A b \in Actors \ {a} : actor'[b] = actor[b]
<1> DEFINE x == IF new.enabled \/ (new.build # row[k].build /\ new # NoRow)
                THEN "prepare" ELSE "commit"
           q == [Resting EXCEPT !.seen = row[k]]
           r == NewErrand(q, k, new, x)
<1>1. new \in Row /\ Real(new) /\ row[k] \in Row
  BY RequestFacts DEF Sorts, TypeOK
<1>2. x \in {"prepare", "commit", "disable", "remove", "diagnose"}
      /\ (x = "prepare" => new.build \in Builds) /\ (x = "commit" => ~new.enabled)
      /\ x \in {"prepare", "commit"}
  BY <1>1 DEF Real, NoRow
<1>3. actor' = [actor EXCEPT ![a] = [Resting EXCEPT !.key = k, !.want = new, !.seen = row[k], !.stage = x]]
  BY DEF Request
<1> HIDE DEF x
<1>4. [Resting EXCEPT !.key = k, !.want = new, !.seen = row[k], !.stage = x] = r
  BY DEF Resting, NewErrand
<1>9. q \in Actor /\ q.gen = None
  BY <1>1, RestingFacts DEF Actor
<1> HIDE DEF q
<1>5. r \in Actor /\ Errand(r) /\ r.gen = None /\ r.stage = x
  BY <1>1, <1>2, <1>9, NewErrandFacts
<1> HIDE DEF r
<1>6. actor' = [actor EXCEPT ![a] = r]
  BY <1>3, <1>4
<1>7. actor' \in [Actors -> Actor] /\ ActorsBusy'
  BY <1>5, <1>6, ActorMoves
<1>8. actor'[a] = r /\ \A b \in Actors \ {a} : actor'[b] = actor[b]
  BY <1>6, ActorIs
<1> QED
  BY <1>2, <1>5, <1>7, <1>8 DEF Request

LEMMA RequestSorts ==
  ASSUME Sorts, NEW a \in Actors, NEW k \in Keys, NEW new \in Requests(k), Request(a, k, new)
  PROVE  Sorts'
<1>1. actor' \in [Actors -> Actor] /\ ActorsBusy'
  BY RequestActor
<1> QED
  BY <1>1, SortsOf DEF Request, Sorts, TypeOK, tracked, resolver

\* An actor that commits keeps its candidate.
LEMMA CommitActor ==
  ASSUME Sorts, NEW a \in Actors, NeedsConfirmation(a) \/ CommitFails(a) \/ Commit(a)
  PROVE  /\ actor' \in [Actors -> Actor] /\ ActorsBusy'
         /\ actor[a].stage = "commit" /\ actor[a].key \in Keys
         /\ actor'[a].gen = actor[a].gen /\ actor'[a].key = actor[a].key
         /\ actor'[a].stage \in {"discard", "remove", "publish", "disable"}
         /\ \A b \in Actors \ {a} : actor'[b] = actor[b]
<1>0. actor[a] \in Actor /\ Errand(actor[a]) /\ actor[a].stage = "commit" /\ actor[a].key \in Keys
      /\ actor \in [Actors -> Actor]
  BY ActorIs DEF NeedsConfirmation, CommitFails, Commit, Errand
<1>1. CASE NeedsConfirmation(a) \/ CommitFails(a)
  <2> DEFINE u == [actor[a] EXCEPT !.stage = "discard"]
  <2>1. "discard" \in Stages /\ Go(a, "discard")
    BY <1>1 DEF Stages, NeedsConfirmation, CommitFails
  <2>2. u \in Actor /\ u.stage = "discard" /\ u.key = actor[a].key /\ u.want = actor[a].want
        /\ u.gen = actor[a].gen
    BY <1>0, <2>1, ActorFields
  <2>3. actor' = [actor EXCEPT ![a] = u]
    BY <1>0, <2>1 DEF Go
  <2> HIDE DEF u
  <2>4. Errand(u)
    BY <1>0, <2>2 DEF Errand, Preparing
  <2>5. actor' \in [Actors -> Actor] /\ ActorsBusy'
    BY <2>2, <2>3, <2>4, ActorMoves
  <2> QED
    BY <1>0, <2>2, <2>3, <2>5
<1>2. CASE Commit(a)
  <2> DEFINE new == actor[a].want
             o == [q \in Keys |-> IF q \in Conflicts(actor[a].key, new) THEN row[q].revision + 1 ELSE 0]
             x == IF new = NoRow THEN "remove" ELSE IF new.enabled THEN "publish" ELSE "disable"
             u == [actor[a] EXCEPT !.out = o]
             v == [u EXCEPT !.stage = x]
  <2>1. x \in Stages /\ x \in {"remove", "publish", "disable"}
        /\ (x = "publish" <=> new.enabled)
    BY DEF Stages, NoRow
  <2>2. o \in [Keys -> Nat]
    <3>1. \A q \in Keys : row[q].revision + 1 \in Nat
      BY DEF Sorts, TypeOK, Row
    <3> QED
      BY <3>1
  <2>3. actor' = [actor EXCEPT ![a].out = o, ![a].stage = x]
    BY <1>2 DEF Commit
  <2> HIDE DEF o, x
  <2>4. u \in Actor /\ u.stage = actor[a].stage /\ u.key = actor[a].key /\ u.want = new
        /\ u.gen = actor[a].gen
    BY <1>0, <2>2 DEF Actor
  <2>5. actor' = [actor EXCEPT ![a] = v]
    BY <1>0, <2>3
  <2> HIDE DEF u
  <2>6. v \in Actor /\ v.stage = x /\ v.key = u.key /\ v.want = u.want /\ v.gen = u.gen
    BY <2>1, <2>4 DEF Actor
  <2> HIDE DEF v
  <2>7. Errand(v)
    BY <1>0, <2>1, <2>4, <2>6 DEF Errand, Preparing
  <2>8. actor' \in [Actors -> Actor] /\ ActorsBusy'
    BY <2>5, <2>6, <2>7, ActorMoves
  <2> QED
    BY <1>0, <2>1, <2>4, <2>5, <2>6, <2>8
<1> QED
  BY <1>1, <1>2

\* The rows and what depends on them, when a commit may have changed them.
LEMMA CommitSorts ==
  ASSUME Sorts, NEW k \in Keys, NEW new \in Row, Real(new),
         \/ UNCHANGED database
         \/ row' = Committed(k, new) /\ changes' = changes + 1 /\ changes < MaxChanges,
         UNCHANGED <<tracked, resolver, diag, failure, entry, syncing, call, close>>,
         actor' \in [Actors -> Actor], ActorsBusy', faults' \in 0 .. MaxFaults
  PROVE  Sorts'
<1>1. row' \in [Keys -> Row] /\ \A q \in Keys : Real(row'[q])
  <2>1. CASE UNCHANGED database
    BY <2>1 DEF Sorts, TypeOK, RowsReal, database
  <2>2. CASE row' = Committed(k, new)
    BY <2>2, CommittedFacts DEF Sorts
  <2> QED
    BY <2>1, <2>2
<1>2. changes' \in 0 .. MaxChanges
  BY HostAssumption DEF HostAssumption, Sorts, TypeOK, database
<1>3. TypeOK'
  BY <1>1, <1>2 DEF Sorts, TypeOK, tracked, resolver, syncing
<1>4. RowsReal'
  BY <1>1 DEF Sorts, RowsReal, syncing
<1> QED
  BY <1>3, <1>4 DEF Sorts

LEMMA AdminSorts ==
  ASSUME Sorts, NEW a \in Actors, NeedsConfirmation(a) \/ CommitFails(a) \/ Commit(a)
  PROVE  Sorts'
<1>1. actor' \in [Actors -> Actor] /\ ActorsBusy' /\ actor[a].key \in Keys
  BY CommitActor
<1>2. actor[a].want \in Row /\ Real(actor[a].want)
  BY ActorIs DEF Errand
<1>3. UNCHANGED <<tracked, resolver, diag, failure, entry, syncing, call, close>>
  BY DEF NeedsConfirmation, CommitFails, Commit
<1>4. faults' \in 0 .. MaxFaults
  BY FaultFacts DEF NeedsConfirmation, CommitFails, Commit, Sorts
<1>5. \/ UNCHANGED database
      \/ /\ row' = Committed(actor[a].key, actor[a].want)
         /\ changes' = changes + 1 /\ changes < MaxChanges
  BY DEF NeedsConfirmation, CommitFails, Commit
<1> QED
  BY <1>1, <1>2, <1>3, <1>4, <1>5, CommitSorts

LEMMA RemoteCommitSorts ==
  ASSUME Sorts, NEW k \in Keys, NEW new \in Requests(k), RemoteCommit(k, new)
  PROVE  Sorts'
<1>1. new \in Row /\ Real(new)
  BY RequestFacts DEF Sorts
<1>2. actor' \in [Actors -> Actor] /\ ActorsBusy' /\ faults' \in 0 .. MaxFaults
  BY DEF RemoteCommit, Sorts, TypeOK, ActorsBusy
<1> QED
  BY <1>1, <1>2, CommitSorts DEF RemoteCommit

\* The sync loop's own variables change, and the errand of its actor.
LEMMA SyncSorts ==
  ASSUME Sorts, UNCHANGED <<database, tracked, resolver, diag, failure, entry, call, close>>,
         actor' \in [Actors -> Actor], ActorsBusy', faults' \in 0 .. MaxFaults,
         list' \in [Keys -> Row], \A k \in Keys : Real(list'[k]),
         todo' \subseteq Keys, phase' \in {"idle", "disable", "remove", "load"},
         phase' = "load" => \A k \in todo' : list'[k].enabled
  PROVE  Sorts'
<1>1. TypeOK'
  BY DEF Sorts, TypeOK, tracked, resolver, database
<1>2. RowsReal'
  BY DEF Sorts, RowsReal, database
<1> QED
  BY <1>1, <1>2 DEF Sorts

LEMMA ListSorts ==
  ASSUME Sorts, List \/ NextPhase
  PROVE  Sorts'
<1>1. list' \in [Keys -> Row] /\ \A k \in Keys : Real(list'[k])
  BY NoRowFacts DEF List, NextPhase, Sorts, TypeOK, RowsReal
<1>2. todo' \subseteq Keys /\ phase' \in {"idle", "disable", "remove", "load"}
      /\ (phase' = "load" => \A k \in todo' : list'[k].enabled)
  BY DEF List, NextPhase
<1>3. actor' \in [Actors -> Actor] /\ ActorsBusy' /\ faults' \in 0 .. MaxFaults
  BY DEF List, NextPhase, Sorts, TypeOK, ActorsBusy
<1> QED
  BY <1>1, <1>2, <1>3, SyncSorts DEF List, NextPhase

\* The loop looks at a key.
LEMMA VisitActor ==
  ASSUME Sorts, NEW k \in Keys, NEW x \in {"idle", "disable", "remove", "prepare", "diagnose"},
         Visit(k, x), x = "prepare" => phase = "load"
  PROVE  /\ actor' \in [Actors -> Actor] /\ ActorsBusy' /\ Sync \in Actors
         /\ actor[Sync].stage = "idle"
         /\ actor'[Sync].gen = None /\ actor'[Sync].stage = x
         /\ \A b \in Actors \ {Sync} : actor'[b] = actor[b]
<1> DEFINE r == NewErrand(Resting, k, list[k], x)
<1>0. Sync \in Actors /\ actor[Sync].stage = "idle" /\ k \in todo
  BY DEF Actors, Visit, SyncRests
<1>1. CASE x = "idle"
  <2>1. actor' = [actor EXCEPT ![Sync] = Resting]
    BY <1>1 DEF Visit
  <2> QED
    BY <1>0, <1>1, <2>1, RestSorts, RestingFacts, ActorIs
<1>2. CASE x # "idle"
  <2>1. actor' = [actor EXCEPT ![Sync] = r]
    BY <1>2 DEF Visit, NewErrand
  <2>2. list[k] \in Row /\ Real(list[k]) /\ NoRow \in Row
    BY NoRowFacts DEF Sorts, TypeOK, RowsReal
  <2>3. x = "prepare" => list[k].build \in Builds
    BY <1>0, <2>2 DEF Sorts, RowsReal, Real, NoRow
  <2>5. r \in Actor /\ Errand(r) /\ r.gen = None /\ r.stage = x
    <3>1. x \in {"prepare", "commit", "disable", "remove", "diagnose"} /\ x # "commit"
      BY <1>2
    <3> QED
      BY <2>2, <2>3, <3>1, RestingFacts, NewErrandFacts, SMTT(40)
  <2> HIDE DEF r
  <2>6. actor' \in [Actors -> Actor] /\ ActorsBusy'
    BY <1>0, <2>1, <2>5, ActorMoves
  <2>7. actor'[Sync] = r /\ \A b \in Actors \ {Sync} : actor'[b] = actor[b]
    BY <1>0, <2>1, ActorIs
  <2> QED
    BY <1>0, <2>5, <2>6, <2>7
<1> QED
  BY <1>1, <1>2

SyncVisits(k) == Skip(k) \/ SyncDisable(k) \/ SyncRemove(k) \/ Load(k) \/ LoadFails(k)

\* Every visit leaves the rest alone.
LEMMA VisitFacts ==
  ASSUME Sorts, NEW k \in Keys, SyncVisits(k)
  PROVE  /\ UNCHANGED <<database, tracked, resolver, diag, failure, entry, list, phase, call, close>>
         /\ todo' = todo \ {k} /\ faults' \in 0 .. MaxFaults
         /\ \E x \in {"idle", "disable", "remove", "prepare", "diagnose"} :
              Visit(k, x) /\ (x = "prepare" => phase = "load")
<1>1. \E x \in {"idle", "disable", "remove", "prepare", "diagnose"} :
        Visit(k, x) /\ (x = "prepare" => phase = "load")
  BY DEF SyncVisits, Skip, SyncDisable, SyncRemove, Load, LoadFails
<1>2. faults' \in 0 .. MaxFaults
  BY FailsFacts DEF SyncVisits, Skip, SyncDisable, SyncRemove, Load, LoadFails, Sorts
<1> QED
  BY <1>1, <1>2 DEF Visit

LEMMA VisitSorts ==
  ASSUME Sorts, NEW k \in Keys, SyncVisits(k)
  PROVE  Sorts'
<1>1. actor' \in [Actors -> Actor] /\ ActorsBusy'
  BY VisitFacts, VisitActor
<1>2. list' \in [Keys -> Row] /\ (\A q \in Keys : Real(list'[q])) /\ todo' \subseteq Keys
      /\ phase' \in {"idle", "disable", "remove", "load"}
      /\ (phase' = "load" => \A q \in todo' : list'[q].enabled)
  BY VisitFacts DEF Sorts, TypeOK, RowsReal
<1> QED
  BY <1>1, <1>2, VisitFacts, SyncSorts

-----------------------------------------------------------------------------
(* Drains, invocations and the end of the manager.                         *)

Callings == [gen : Gens \cup {None}, broken : BOOLEAN, cut : BOOLEAN]

LEMMA CallFacts ==
  ASSUME Sorts, GensReal, CallsHold, NEW c \in Callers, call[c].gen # None
  PROVE  /\ call[c].gen \in Gens /\ gen[call[c].gen].state \in {"serving", "draining", "closed"}
         /\ gen[call[c].gen].key \in Keys /\ gen[call[c].gen].build \in Builds
<1>1. call[c].gen \in Gens
  BY DEF Sorts, TypeOK
<1>2. gen[call[c].gen].state \in {"serving", "draining", "closed"}
  BY DEF CallsHold, Live
<1> QED
  BY <1>1, <1>2 DEF GensReal

\* Only the calls, the generations and the resolver change.
LEMMA HostSorts ==
  ASSUME Sorts, UNCHANGED <<database, diag, failure, actor, syncing>>,
         gen' \in [Gens -> Generation], order' \in Seq(Gens),
         byKey' \in [Keys -> Gens \cup {None}], byHook' \in Gens \cup {None},
         entry' \in [Builds -> [state : {"none", "compiling", "cancelled", "ready"},
                                references : Nat]],
         call' \in [Callers -> Callings],
         close' \in {"open", "stopping", "draining", "done"},
         faults' \in 0 .. MaxFaults
  PROVE  Sorts'
<1>1. actor' \in [Actors -> Actor] /\ ActorsBusy'
  BY DEF Sorts, TypeOK, ActorsBusy
<1> QED
  BY <1>1, SortsOf DEF Callings

LEMMA DrainEndsSorts ==
  ASSUME Sorts, GensReal, LiveAreTracked, NEW g \in Gens, DrainEnds(g)
  PROVE  Sorts'
<1>1. gen[g].state = "draining" /\ gen[g].build \in Builds /\ \E i \in DOMAIN order : order[i] = g
  BY DEF DrainEnds, GensReal, LiveAreTracked, Live
<1>2. gen' \in [Gens -> Generation]
  <2>1. \A r \in Generation : [r EXCEPT !.state = "closed"] \in Generation
    BY DEF Generation
  <2> QED
    BY <2>1, FreeGenFacts DEF DrainEnds, Sorts, TypeOK
<1>3. order' \in Seq(Gens)
  BY <1>1, OrderFacts DEF DrainEnds, Sorts
<1>4. entry' \in [Builds -> [state : {"none", "compiling", "cancelled", "ready"}, references : Nat]]
  BY <1>1, ReleasedFacts DEF DrainEnds, Sorts
<1>5. call' \in [Callers -> Callings]
  <2>1. \A c \in Callers : call[c] \in Callings /\ [call[c] EXCEPT !.cut = TRUE] \in Callings
    BY ZenonT(40) DEF Sorts, TypeOK, Callings
  <2> QED
    BY <2>1 DEF DrainEnds
<1>6. faults' \in 0 .. MaxFaults
  BY FaultFacts DEF DrainEnds, Sorts
<1> QED
  BY <1>2, <1>3, <1>4, <1>5, <1>6, HostSorts DEF DrainEnds, resolver, Sorts, TypeOK

LEMMA RetryDueSorts ==
  ASSUME Sorts, NEW k \in Keys, RetryDue(k)
  PROVE  Sorts'
<1>1. failure' \in [Keys -> Nat]
  BY DEF RetryDue, Sorts, TypeOK
<1>2. TypeOK'
  BY <1>1 DEF RetryDue, Sorts, TypeOK, database, tracked, resolver, syncing
<1> QED
  BY <1>2 DEF RetryDue, Sorts, RowsReal, ActorsBusy, database, syncing

LEMMA CallSorts ==
  ASSUME Sorts, NEW c \in Callers, NEW k \in Keys, Call(c, k)
  PROVE  Sorts'
<1>1. byKey[k] \in Gens \cup {None} /\ call \in [Callers -> Callings]
  BY DEF Sorts, TypeOK, Callings
<1>2. call' \in [Callers -> Callings]
  <2>1. [call[c] EXCEPT !.gen = byKey[k]] \in Callings
    BY <1>1 DEF Callings
  <2> QED
    BY <1>1, <2>1 DEF Call
<1> QED
  BY <1>2, HostSorts DEF Call, tracked, resolver, Sorts, TypeOK

LEMMA NoCallFacts == NoCall \in Callings
  BY DEF NoCall, Callings

LEMMA ReturnSorts ==
  ASSUME Sorts, NEW c \in Callers, Return(c)
  PROVE  Sorts'
<1>1. call' \in [Callers -> Callings]
  BY NoCallFacts DEF Return, Sorts, TypeOK, Callings
<1>2. gen' \in [Gens -> Generation]
  BY AfterCallFacts DEF Return, Sorts, TypeOK
<1> QED
  BY <1>1, <1>2, HostSorts DEF Return, resolver, Sorts, TypeOK

LEMMA SingletonTimeoutSorts ==
  ASSUME Sorts, NEW c \in Callers, SingletonTimeout(c)
  PROVE  Sorts'
<1>1. call[c].gen \in Gens
  BY DEF SingletonTimeout, Sorts, TypeOK
<1>2. call' \in [Callers -> Callings]
  <2>1. call \in [Callers -> Callings] /\ [call[c] EXCEPT !.broken = TRUE] \in Callings
    BY ZenonT(40) DEF Sorts, TypeOK, Callings
  <2> QED
    BY <2>1 DEF SingletonTimeout
<1>3. gen' \in [Gens -> Generation]
  <2>1. \A r \in Generation : [r EXCEPT !.broken = TRUE] \in Generation
    BY DEF Generation
  <2>2. gen \in [Gens -> Generation]
    BY DEF Sorts, TypeOK
  <2> QED
    BY <1>1, <2>1, <2>2 DEF SingletonTimeout
<1>4. faults' \in 0 .. MaxFaults
  BY FaultFacts DEF SingletonTimeout, Sorts
<1> QED
  BY <1>2, <1>3, <1>4, HostSorts DEF SingletonTimeout, resolver, Sorts, TypeOK

LEMMA RetireSorts ==
  ASSUME Sorts, GensReal, CallsHold, NEW c \in Callers, call[c].gen # None, Retire(c)
  PROVE  Sorts'
<1> DEFINE g == call[c].gen
           k == gen[g].key
<1>1. g \in Gens /\ k \in Keys
  BY CallFacts
<1>2. call' \in [Callers -> Callings]
  BY NoCallFacts DEF Retire, Sorts, TypeOK, Callings
<1>3. gen' \in [Gens -> Generation]
  BY <1>1, AfterCallFacts, DrainingFacts DEF Retire, Sorts, TypeOK
<1>4. byKey' \in [Keys -> Gens \cup {None}] /\ byHook' \in Gens \cup {None}
  <2>1. Without({k}) \in [Keys -> Gens \cup {None}] /\ HookWithout({k}) \in Gens \cup {None}
    BY <1>1, ServedFacts DEF Sorts
  <2> QED
    BY <2>1 DEF Retire, Sorts, TypeOK, resolver
<1> QED
  BY <1>2, <1>3, <1>4, HostSorts DEF Retire, Sorts, TypeOK

\* The generation that a serving one waits for when the manager closes.
LEMMA ChainedFacts ==
  ASSUME Sorts, LiveAreTracked, NEW g \in Gens, gen[g].state = "serving"
  PROVE  /\ Chained(g) \in Generation /\ Chained(g).state = "draining"
         /\ Chained(g).key = gen[g].key /\ Chained(g).build = gen[g].build
<1> DEFINE x == IF Position(g) = Len(order) THEN None ELSE order[Position(g) + 1]
<1>1. Position(g) \in 1 .. Len(order) /\ order \in Seq(Gens) /\ Len(order) \in Nat
  BY OrderFacts DEF LiveAreTracked, Live, Sorts, TypeOK
<1>2. x \in Gens \cup {None}
  <2>1. CASE Position(g) = Len(order)
    BY <2>1
  <2>2. CASE Position(g) # Len(order)
    <3>1. Position(g) + 1 \in 1 .. Len(order)
      BY <1>1, <2>2
    <3> QED
      BY <1>1, <2>2, <3>1, ElementOfSeq
  <2> QED
    BY <2>1, <2>2
<1>3. Chained(g) = [gen[g] EXCEPT !.state = "draining", !.after = x]
  BY DEF Chained
<1> HIDE DEF x
<1>4. gen[g] \in Generation
  BY DEF Sorts, TypeOK
<1> QED
  BY <1>2, <1>3, <1>4 DEF Generation

LEMMA CloseSorts ==
  ASSUME Sorts, LiveAreTracked, Close
  PROVE  Sorts'
<1>1. gen' \in [Gens -> Generation]
  BY ChainedFacts DEF Close, Sorts, TypeOK
<1>2. byKey' \in [Keys -> Gens \cup {None}] /\ byHook' \in Gens \cup {None}
  BY DEF Close
<1>3. faults' \in 0 .. MaxFaults
  BY FaultFacts DEF Close, Sorts
<1> QED
  BY <1>1, <1>2, <1>3, HostSorts DEF Close, Sorts, TypeOK, Callings

LEMMA EndSorts ==
  ASSUME Sorts, BeginClose \/ FinishClose
  PROVE  Sorts'
<1>1. entry' \in [Builds -> [state : {"none", "compiling", "cancelled", "ready"}, references : Nat]]
  BY DEF BeginClose, FinishClose, NoEntry, Sorts, TypeOK
<1>2. /\ UNCHANGED <<database, diag, failure, actor, syncing, gen, order, byKey, byHook, call, faults>>
      /\ close' \in {"stopping", "done"}
  BY DEF BeginClose, FinishClose, tracked, resolver
<1> QED
  BY <1>1, <1>2, HostSorts DEF Sorts, TypeOK, Callings

-----------------------------------------------------------------------------
(* The second layer: the generations and who refers to them.               *)

Hosted ==
  /\ CandidatesOwned
  /\ GensReal
  /\ LiveAreTracked
  /\ NoOrphanGeneration
  /\ CallsHold
  /\ ClosedServesNothing

\* An actor without a candidate, before and after, that does nothing to the
\* generations.
LEMMA ActorAlone ==
  ASSUME Sorts, Sorts', Hosted, UNCHANGED <<tracked, resolver, call, close>>,
         \A a \in Actors : /\ actor'[a].gen = actor[a].gen
                           /\ actor[a].gen # None => actor'[a].key = actor[a].key
  PROVE  Hosted'
<1>1. CandidatesOwned'
  BY DEF Hosted, CandidatesOwned, tracked
<1>2. NoOrphanGeneration'
  BY DEF Hosted, NoOrphanGeneration, tracked, resolver
<1> QED
  BY <1>1, <1>2 DEF Hosted, GensReal, LiveAreTracked, CallsHold, ClosedServesNothing, tracked,
       resolver, IsClosed, CacheClosed

\* A free generation becomes the candidate of a.
LEMMA CandidateMade ==
  ASSUME Sorts, Sorts', Hosted, NEW a \in Actors, NEW g \in Gens, gen[g] = FreeGen,
         UNCHANGED <<order, resolver, call, close>>,
         actor[a].gen = None, actor'[a].gen = g,
         \A o \in Actors \ {a} : actor'[o] = actor[o],
         \A h \in Gens \ {g} : gen'[h] = gen[h],
         gen'[g].state = "candidate", gen'[g].key = actor'[a].key, gen'[g].key \in Keys,
         gen'[g].build \in Builds
  PROVE  Hosted'
<1>0. gen[g].state = "free"
  BY DEF FreeGen
<1>1. \A o \in Actors \ {a} : actor[o].gen # g
  BY <1>0, HostAssumption DEF Hosted, CandidatesOwned, HostAssumption
<1>2. CandidatesOwned'
  <2>1. \A o \in Actors : actor[o].gen \in Gens \cup {None}
    BY ActorIs
  <2>2. ASSUME NEW o \in Actors, actor'[o].gen # None
        PROVE  gen'[actor'[o].gen].state = "candidate" /\ gen'[actor'[o].gen].key = actor'[o].key
    <3>1. CASE o = a
      BY <3>1
    <3>2. CASE o # a
      <4>1. actor'[o] = actor[o] /\ actor[o].gen \in Gens \ {g}
        BY <1>1, <2>1, <2>2, <3>2
      <4> QED
        BY <2>2, <4>1 DEF Hosted, CandidatesOwned
    <3> QED
      BY <3>1, <3>2
  <2>3. ASSUME NEW o \in Actors, NEW q \in Actors, actor'[o].gen # None, actor'[o].gen = actor'[q].gen
        PROVE  o = q
    BY <1>1, <2>3 DEF Hosted, CandidatesOwned
  <2> QED
    BY <2>2, <2>3 DEF CandidatesOwned
<1>3. GensReal'
  BY DEF Hosted, GensReal
<1>4. LiveAreTracked'
  BY DEF Hosted, LiveAreTracked, Live
<1>5. NoOrphanGeneration'
  <2>1. ASSUME NEW h \in Gens, gen'[h].state = "serving"
        PROVE  byKey'[gen'[h].key] = h
    BY <2>1 DEF Hosted, NoOrphanGeneration, resolver
  <2>2. ASSUME NEW h \in Gens, gen'[h].state = "candidate"
        PROVE  \E o \in Actors : actor'[o].gen = h
    <3>1. CASE h = g
      BY <3>1
    <3>2. CASE h # g
      <4>1. PICK o \in Actors : actor[o].gen = h
        BY <2>2, <3>2 DEF Hosted, NoOrphanGeneration
      <4>2. o # a
        BY <4>1, HostAssumption DEF HostAssumption
      <4> QED
        BY <4>1, <4>2
    <3> QED
      BY <3>1, <3>2
  <2>3. ASSUME NEW k \in Keys, byKey'[k] # None
        PROVE  gen'[byKey'[k]].state = "serving" /\ gen'[byKey'[k]].key = k
    <3>1. byKey'[k] = byKey[k] /\ byKey[k] \in Gens /\ gen[byKey[k]].state = "serving"
          /\ gen[byKey[k]].key = k
      BY <2>3, SMTT(40) DEF Hosted, NoOrphanGeneration, resolver, Sorts, TypeOK
    <3> QED
      BY <1>0, <3>1
  <2>4. ASSUME byHook' # None
        PROVE  gen'[byHook'].key \in Hooked /\ byKey'[gen'[byHook'].key] = byHook'
    <3>1. byHook' = byHook /\ byHook \in Gens /\ gen[byHook].key \in Hooked
          /\ byKey[gen[byHook].key] = byHook
      BY <2>4 DEF Hosted, NoOrphanGeneration, resolver, Sorts, TypeOK
    <3>2. gen[byHook].state = "serving"
      BY <2>4, <3>1, HostAssumption DEF HostAssumption, Hosted, NoOrphanGeneration
    <3> QED
      BY <1>0, <3>1, <3>2 DEF resolver
  <2> QED
    BY <2>1, <2>2, <2>3, <2>4 DEF NoOrphanGeneration
<1>6. CallsHold'
  BY <1>0, CallFacts DEF Hosted, CallsHold, Live
<1>7. ClosedServesNothing'
  BY DEF Hosted, ClosedServesNothing, resolver, IsClosed, CacheClosed
<1> QED
  BY <1>2, <1>3, <1>4, <1>5, <1>6, <1>7 DEF Hosted

\* What the resolver serves, it serves under its own key.
LEMMA ServedIs ==
  ASSUME Sorts, Hosted, NEW S, S \subseteq Keys, NEW h \in Gens
  PROVE  h \in Served(S) <=> gen[h].state = "serving" /\ gen[h].key \in S
<1>1. ASSUME h \in Served(S) PROVE gen[h].state = "serving" /\ gen[h].key \in S
  <2>1. PICK k \in S : byKey[k] = h /\ h # None
    BY <1>1 DEF Served
  <2> QED
    BY <2>1 DEF Hosted, NoOrphanGeneration
<1>2. ASSUME gen[h].state = "serving", gen[h].key \in S PROVE h \in Served(S)
  <2>1. byKey[gen[h].key] = h /\ h # None
    BY <1>2, HostAssumption DEF HostAssumption, Hosted, NoOrphanGeneration
  <2> QED
    BY <1>2, <2>1 DEF Served
<1> QED
  BY <1>1, <1>2

LEMMA DrainingIs ==
  ASSUME Sorts, NEW S, NEW h \in Gens
  PROVE  /\ Draining(S)[h].state = IF h \in S THEN "draining" ELSE gen[h].state
         /\ Draining(S)[h].key = gen[h].key /\ Draining(S)[h].build = gen[h].build
         /\ h \notin S => Draining(S)[h] = gen[h]
<1>1. gen[h] \in Generation
  BY DEF Sorts, TypeOK
<1>2. \A r \in Generation : LET d == [r EXCEPT !.state = "draining"] IN
        d.state = "draining" /\ d.key = r.key /\ d.build = r.build
  BY DEF Generation
<1> QED
  BY <1>1, <1>2 DEF Draining

\* The candidate of a is shut down.
LEMMA CandidateFreed ==
  ASSUME Sorts, Sorts', Hosted, NEW a \in Actors, actor[a].gen # None,
         UNCHANGED <<order, resolver, call, close>>,
         gen' = [gen EXCEPT ![actor[a].gen] = FreeGen], actor'[a].gen = None,
         \A o \in Actors \ {a} : actor'[o] = actor[o]
  PROVE  Hosted'
<1> DEFINE g == actor[a].gen
<1>0. g \in Gens /\ gen[g].state = "candidate"
  BY CandidateFacts DEF Hosted
<1>1. gen'[g] = FreeGen /\ gen'[g].state = "free" /\ \A h \in Gens \ {g} : gen'[h] = gen[h]
  BY <1>0 DEF FreeGen, Sorts, TypeOK
<1>2. \A o \in Actors \ {a} : actor[o].gen # g
  BY DEF Hosted, CandidatesOwned
<1>3. \A o \in Actors : actor[o].gen \in Gens \cup {None}
  BY ActorIs
<1> HIDE DEF g
<1>4. CandidatesOwned'
  <2>1. ASSUME NEW o \in Actors, actor'[o].gen # None
        PROVE  o # a /\ actor'[o] = actor[o] /\ actor[o].gen \in Gens \ {g}
    BY <1>2, <1>3, <2>1
  <2>2. ASSUME NEW o \in Actors, actor'[o].gen # None
        PROVE  gen'[actor'[o].gen].state = "candidate" /\ gen'[actor'[o].gen].key = actor'[o].key
    <3>1. actor'[o] = actor[o] /\ actor[o].gen \in Gens \ {g} /\ actor[o].gen # None
      BY <2>1, <2>2
    <3> QED
      BY <1>1, <3>1 DEF Hosted, CandidatesOwned
  <2>3. ASSUME NEW o \in Actors, NEW q \in Actors, actor'[o].gen # None, actor'[o].gen = actor'[q].gen
        PROVE  o = q
    <3>1. actor'[o] = actor[o] /\ actor'[q] = actor[q] /\ actor[o].gen # None
      BY <2>1, <2>3
    <3> QED
      BY <2>3, <3>1 DEF Hosted, CandidatesOwned
  <2> QED
    BY <2>2, <2>3 DEF CandidatesOwned
<1>5. GensReal'
  BY <1>1 DEF Hosted, GensReal
<1>6. LiveAreTracked'
  BY <1>1 DEF Hosted, LiveAreTracked, Live
<1>7. NoOrphanGeneration'
  <2>1. ASSUME NEW h \in Gens, gen'[h].state = "serving"
        PROVE  byKey'[gen'[h].key] = h
    BY <1>1, <2>1 DEF Hosted, NoOrphanGeneration, resolver
  <2>2. ASSUME NEW h \in Gens, gen'[h].state = "candidate"
        PROVE  \E o \in Actors : actor'[o].gen = h
    <3>1. h # g /\ gen[h].state = "candidate"
      BY <1>1, <2>2
    <3>2. PICK o \in Actors : actor[o].gen = h
      BY <3>1 DEF Hosted, NoOrphanGeneration
    <3>3. o # a
      BY <3>1, <3>2 DEF g
    <3> QED
      BY <3>2, <3>3
  <2>3. ASSUME NEW k \in Keys, byKey'[k] # None
        PROVE  gen'[byKey'[k]].state = "serving" /\ gen'[byKey'[k]].key = k
    <3>1. byKey'[k] = byKey[k] /\ byKey[k] \in Gens /\ gen[byKey[k]].state = "serving"
          /\ gen[byKey[k]].key = k
      BY <2>3 DEF Hosted, NoOrphanGeneration, resolver, Sorts, TypeOK
    <3> QED
      BY <1>0, <1>1, <3>1
  <2>4. ASSUME byHook' # None
        PROVE  gen'[byHook'].key \in Hooked /\ byKey'[gen'[byHook'].key] = byHook'
    <3>1. byHook' = byHook /\ byHook \in Gens /\ gen[byHook].key \in Hooked
          /\ byKey[gen[byHook].key] = byHook
      BY <2>4 DEF Hosted, NoOrphanGeneration, resolver, Sorts, TypeOK
    <3>2. gen[byHook].state = "serving"
      BY <2>4, <3>1, HostAssumption DEF HostAssumption, Hosted, NoOrphanGeneration
    <3> QED
      BY <1>0, <1>1, <3>1, <3>2 DEF resolver
  <2> QED
    BY <2>1, <2>2, <2>3, <2>4 DEF NoOrphanGeneration
<1>8. CallsHold'
  <2>1. \A c \in Callers : call[c].gen # None => call[c].gen \in Gens \ {g}
    BY <1>0, CallFacts DEF Hosted
  <2> QED
    BY <1>1, <2>1 DEF Hosted, CallsHold
<1>9. ClosedServesNothing'
  BY <1>1 DEF Hosted, ClosedServesNothing, resolver, IsClosed, CacheClosed
<1> QED
  BY <1>4, <1>5, <1>6, <1>7, <1>8, <1>9 DEF Hosted

\* The calls keep what they hold when generations go from live to live.
LEMMA CallsStay ==
  ASSUME Sorts, Hosted, UNCHANGED call,
         \A h \in Gens : /\ gen[h].state \in Live => gen'[h].state \in Live
                         /\ gen[h].state = "closed" => gen'[h] = gen[h]
  PROVE  CallsHold'
  BY CallFacts DEF Hosted, CallsHold, Live

\* What is served under the keys in S is unpublished and begins to drain.
LEMMA Unpublished ==
  ASSUME Sorts, Sorts', Hosted, ~IsClosed, NEW S, S \subseteq Keys,
         UNCHANGED <<order, close>>,
         gen' = Draining(Served(S)), byKey' = Without(S), byHook' = HookWithout(S),
         \A a \in Actors : /\ actor'[a].gen = actor[a].gen
                           /\ actor[a].gen # None => actor'[a].key = actor[a].key
  PROVE  /\ CandidatesOwned' /\ GensReal' /\ LiveAreTracked'
         /\ NoOrphanGeneration' /\ ClosedServesNothing'
         /\ \A h \in Gens : /\ gen[h].state \in Live => gen'[h].state \in Live
                            /\ gen[h].state = "closed" => gen'[h] = gen[h]
<1>1. \A h \in Gens : h \in Served(S) <=> gen[h].state = "serving" /\ gen[h].key \in S
  BY ServedIs
<1>2. \A h \in Gens : /\ gen'[h].state = IF h \in Served(S) THEN "draining" ELSE gen[h].state
                      /\ gen'[h].key = gen[h].key /\ gen'[h].build = gen[h].build
                      /\ h \notin Served(S) => gen'[h] = gen[h]
  BY DrainingIs
<1>3. CandidatesOwned'
  <2>1. \A a \in Actors : actor[a].gen # None => actor[a].gen \in Gens
    BY ActorIs
  <2> QED
    BY <1>1, <1>2, <2>1 DEF Hosted, CandidatesOwned
<1>4. GensReal'
  BY <1>1, <1>2 DEF Hosted, GensReal
<1>5. LiveAreTracked'
  BY <1>1, <1>2 DEF Hosted, LiveAreTracked, Live
<1>6. NoOrphanGeneration'
  <2>1. ASSUME NEW h \in Gens, gen'[h].state = "serving"
        PROVE  byKey'[gen'[h].key] = h
    <3>1. gen[h].state = "serving" /\ gen[h].key \notin S /\ gen'[h] = gen[h]
      BY <1>1, <1>2, <2>1
    <3>2. gen[h].key \in Keys /\ byKey[gen[h].key] = h
      BY <3>1 DEF Hosted, NoOrphanGeneration, GensReal
    <3> QED
      BY <3>1, <3>2 DEF Without
  <2>2. ASSUME NEW h \in Gens, gen'[h].state = "candidate"
        PROVE  \E o \in Actors : actor'[o].gen = h
    BY <1>1, <1>2, <2>2 DEF Hosted, NoOrphanGeneration
  <2>3. ASSUME NEW k \in Keys, byKey'[k] # None
        PROVE  gen'[byKey'[k]].state = "serving" /\ gen'[byKey'[k]].key = k
    <3>1. k \notin S /\ byKey'[k] = byKey[k]
      BY <2>3 DEF Without
    <3>2. byKey[k] \in Gens /\ gen[byKey[k]].state = "serving" /\ gen[byKey[k]].key = k
      BY <2>3, <3>1 DEF Hosted, NoOrphanGeneration, Sorts, TypeOK
    <3> QED
      BY <1>1, <1>2, <3>1, <3>2
  <2>4. ASSUME byHook' # None
        PROVE  gen'[byHook'].key \in Hooked /\ byKey'[gen'[byHook'].key] = byHook'
    <3>1. byHook' = byHook /\ byHook \in Gens /\ gen[byHook].key \notin S
      BY <2>4 DEF HookWithout, Sorts, TypeOK
    <3>2. gen[byHook].key \in Hooked /\ byKey[gen[byHook].key] = byHook /\ gen[byHook].key \in Keys
      BY <2>4, <3>1, HostAssumption DEF HostAssumption, Hosted, NoOrphanGeneration
    <3> QED
      BY <1>2, <3>1, <3>2 DEF Without
  <2> QED
    BY <2>1, <2>2, <2>3, <2>4 DEF NoOrphanGeneration
<1>7. ClosedServesNothing'
  BY DEF ClosedServesNothing, IsClosed, CacheClosed
<1> QED
  BY <1>1, <1>2, <1>3, <1>4, <1>5, <1>6, <1>7 DEF Live

\* The candidate of a is published in place of what it replaces.
LEMMA PublishHosted ==
  ASSUME Sorts, Sorts', Hosted, NEW a \in Actors, Publish(a)
  PROVE  Hosted'
<1> DEFINE g == actor[a].gen
           k == actor[a].key
           R == Replaced(a)
           S == R \cup {k}
           D == Served(S)
<1>0. /\ actor[a].gen # None /\ k \in Keys /\ R \subseteq Keys /\ S \subseteq Keys
      /\ actor'[a].gen = None /\ \A o \in Actors \ {a} : actor'[o] = actor[o]
      /\ ~IsClosed
  BY PublishActorFacts, ReplacedFacts, ZenonT(40) DEF Publish
<1>1. g \in Gens /\ g # None /\ gen[g].state = "candidate" /\ gen[g].key = k /\ gen[g].build \in Builds
  BY <1>0, CandidateFacts DEF Hosted
<1>2. \A h \in Gens : h \in D <=> gen[h].state = "serving" /\ gen[h].key \in S
  BY <1>0, ServedIs
<1>3. g \notin D
  BY <1>1, <1>2
<1>4. gen' = [Draining(D) EXCEPT ![g].state = "serving"]
  BY DEF Publish
<1>5. Draining(D) \in [Gens -> Generation]
  BY DrainingFacts DEF Sorts
<1>6. \A h \in Gens : h # g =>
        /\ gen'[h].state = IF h \in D THEN "draining" ELSE gen[h].state
        /\ gen'[h].key = gen[h].key /\ gen'[h].build = gen[h].build
        /\ h \notin D => gen'[h] = gen[h]
  <2> HIDE DEF D, g
  <2> QED
    BY <1>1, <1>4, <1>5, DrainingIs
<1>7. gen'[g].state = "serving" /\ gen'[g].key = k /\ gen'[g].build \in Builds
  <2>1. gen'[g] = [Draining(D)[g] EXCEPT !.state = "serving"] /\ Draining(D)[g] = gen[g]
        /\ gen[g] \in Generation
    <3> HIDE DEF D, g
    <3> QED
      BY <1>1, <1>3, <1>4, <1>5, DrainingIs DEF Sorts, TypeOK
  <2>2. \A r \in Generation : LET d == [r EXCEPT !.state = "serving"] IN
          d.state = "serving" /\ d.key = r.key /\ d.build = r.build
    BY DEF Generation
  <2> HIDE DEF D, g, k
  <2> QED
    BY <1>1, <2>1, <2>2
<1>8. /\ \A q \in Keys : byKey'[q] = IF q = k THEN g ELSE IF q \in R THEN None ELSE byKey[q]
      /\ byHook' = IF k \in Hooked THEN g ELSE HookWithout(R)
  BY <1>0 DEF Publish, Without
<1>9. order' = Append(order, g) /\ UNCHANGED <<call, close>>
  BY DEF Publish
<1> HIDE DEF g, k, R, D
<1>10. CandidatesOwned'
  <2>1. ASSUME NEW o \in Actors, actor'[o].gen # None
        PROVE  o # a /\ actor'[o] = actor[o] /\ actor[o].gen \in Gens \ {g} /\ actor[o].gen # None
    <3>1. o # a /\ actor'[o] = actor[o] /\ actor[o].gen # None
      BY <1>0, <2>1
    <3>2. actor[o].gen # g
      BY <1>0, <3>1 DEF Hosted, CandidatesOwned, g
    <3> QED
      BY <3>1, <3>2, ActorIs
  <2>2. ASSUME NEW o \in Actors, actor'[o].gen # None
        PROVE  gen'[actor'[o].gen].state = "candidate" /\ gen'[actor'[o].gen].key = actor'[o].key
    <3>1. actor'[o] = actor[o] /\ actor[o].gen \in Gens \ {g} /\ actor[o].gen # None
      BY <2>1, <2>2
    <3>2. gen[actor[o].gen].state = "candidate" /\ gen[actor[o].gen].key = actor[o].key
      BY <3>1 DEF Hosted, CandidatesOwned
    <3> QED
      BY <1>2, <1>6, <3>1, <3>2
  <2>3. ASSUME NEW o \in Actors, NEW q \in Actors, actor'[o].gen # None, actor'[o].gen = actor'[q].gen
        PROVE  o = q
    <3>1. actor'[o] = actor[o] /\ actor'[q] = actor[q] /\ actor[o].gen # None
      BY <2>1, <2>3
    <3> QED
      BY <2>3, <3>1 DEF Hosted, CandidatesOwned
  <2> QED
    BY <2>2, <2>3 DEF CandidatesOwned
<1>11. GensReal'
  <2>1. ASSUME NEW h \in Gens
        PROVE  IF gen'[h].state = "free" THEN gen'[h] = FreeGen
               ELSE gen'[h].key \in Keys /\ gen'[h].build \in Builds
    <3>1. CASE h = g
      BY <1>0, <1>7, <3>1
    <3>2. CASE h # g
      BY <1>2, <1>6, <3>2 DEF Hosted, GensReal
    <3> QED
      BY <3>1, <3>2
  <2> QED
    BY <2>1 DEF GensReal
<1>12. LiveAreTracked'
  <2>1. /\ order \in Seq(Gens) /\ order' \in Seq(Gens) /\ Len(order') = Len(order) + 1
        /\ \A i \in 1 .. Len(order) : order'[i] = order[i]
        /\ order'[Len(order) + 1] = g /\ Len(order) \in Nat
    BY <1>1, <1>9, AppendProperties, LenProperties DEF Sorts, TypeOK
  <2>2. DOMAIN order = 1 .. Len(order) /\ DOMAIN order' = 1 .. Len(order) + 1
    BY <2>1, LenProperties
  <2>3. ASSUME NEW h \in Gens, gen'[h].state \in Live
        PROVE  \E i \in DOMAIN order' : order'[i] = h
    <3>1. CASE h = g
      BY <2>1, <2>2, <3>1
    <3>2. CASE h # g
      <4>1. gen[h].state \in Live
        BY <1>2, <1>6, <2>3, <3>2 DEF Live
      <4>2. PICK i \in DOMAIN order : order[i] = h
        BY <4>1 DEF Hosted, LiveAreTracked
      <4> QED
        BY <2>1, <2>2, <4>2
    <3> QED
      BY <3>1, <3>2
  <2> QED
    BY <2>3 DEF LiveAreTracked
<1>13. NoOrphanGeneration'
  <2>1. ASSUME NEW h \in Gens, gen'[h].state = "serving"
        PROVE  byKey'[gen'[h].key] = h
    <3>1. CASE h = g
      BY <1>0, <1>7, <1>8, <3>1
    <3>2. CASE h # g
      <4>1. gen[h].state = "serving" /\ gen[h].key \notin S /\ gen'[h].key = gen[h].key
        BY <1>2, <1>6, <2>1, <3>2
      <4>2. gen[h].key \in Keys /\ byKey[gen[h].key] = h
        BY <4>1 DEF Hosted, NoOrphanGeneration, GensReal
      <4> QED
        BY <1>8, <4>1, <4>2
    <3> QED
      BY <3>1, <3>2
  <2>2. ASSUME NEW h \in Gens, gen'[h].state = "candidate"
        PROVE  \E o \in Actors : actor'[o].gen = h
    <3>1. h # g /\ gen[h].state = "candidate"
      BY <1>6, <1>7, <2>2
    <3>2. PICK o \in Actors : actor[o].gen = h
      BY <3>1 DEF Hosted, NoOrphanGeneration
    <3>3. o # a
      BY <3>1, <3>2 DEF g
    <3> QED
      BY <1>0, <3>2, <3>3
  <2>3. ASSUME NEW q \in Keys, byKey'[q] # None
        PROVE  gen'[byKey'[q]].state = "serving" /\ gen'[byKey'[q]].key = q
    <3>1. CASE q = k
      BY <1>7, <1>8, <3>1
    <3>2. CASE q # k
      <4>1. q \notin S /\ byKey'[q] = byKey[q]
        BY <1>8, <2>3, <3>2
      <4>2. byKey[q] \in Gens /\ gen[byKey[q]].state = "serving" /\ gen[byKey[q]].key = q
        BY <2>3, <4>1 DEF Hosted, NoOrphanGeneration, Sorts, TypeOK
      <4>3. byKey[q] # g /\ byKey[q] \notin D
        BY <1>1, <1>2, <4>1, <4>2
      <4> QED
        BY <1>6, <4>1, <4>2, <4>3
    <3> QED
      BY <3>1, <3>2
  <2>4. ASSUME byHook' # None
        PROVE  gen'[byHook'].key \in Hooked /\ byKey'[gen'[byHook'].key] = byHook'
    <3>1. CASE k \in Hooked
      BY <1>0, <1>7, <1>8, <3>1
    <3>2. CASE k \notin Hooked
      <4>1. byHook' = byHook /\ byHook \in Gens /\ gen[byHook].key \notin R /\ byHook # None
        BY <1>8, <2>4, <3>2 DEF HookWithout, Sorts, TypeOK
      <4>2. gen[byHook].key \in Hooked /\ byKey[gen[byHook].key] = byHook /\ gen[byHook].key \in Keys
        BY <4>1, HostAssumption DEF HostAssumption, Hosted, NoOrphanGeneration
      <4>3. gen[byHook].state = "serving"
        BY <4>1, <4>2 DEF Hosted, NoOrphanGeneration
      <4>4. byHook # g /\ gen[byHook].key # k
        BY <1>1, <3>2, <4>2, <4>3
      <4> QED
        BY <1>6, <1>8, <4>1, <4>2, <4>4
    <3> QED
      BY <3>1, <3>2
  <2> QED
    BY <2>1, <2>2, <2>3, <2>4 DEF NoOrphanGeneration
<1>14. CallsHold'
  <2>1. ASSUME NEW h \in Gens
        PROVE  /\ gen[h].state \in Live => gen'[h].state \in Live
               /\ gen[h].state = "closed" => gen'[h] = gen[h]
    <3>1. CASE h = g
      BY <1>1, <1>7, <3>1 DEF Live
    <3>2. CASE h # g
      BY <1>2, <1>6, <3>2 DEF Live
    <3> QED
      BY <3>1, <3>2
  <2> QED
    BY <1>9, <2>1, CallsStay
<1>15. ClosedServesNothing'
  BY <1>0, <1>9 DEF ClosedServesNothing, IsClosed, CacheClosed
<1> QED
  BY <1>10, <1>11, <1>12, <1>13, <1>14, <1>15, SMTT(40) DEF Hosted

\* Disable and Remove.
LEMMA UnpublishHosted ==
  ASSUME Sorts, Sorts', Hosted, NEW k \in Keys, Unpublish(k), UNCHANGED <<order, call, close>>,
         \A a \in Actors : /\ actor'[a].gen = actor[a].gen
                           /\ actor[a].gen # None => actor'[a].key = actor[a].key
  PROVE  Hosted'
<1>1. CASE IsClosed
  <2>1. UNCHANGED <<tracked, resolver, call, close>>
    BY <1>1 DEF Unpublish, tracked
  <2> QED
    BY <2>1, ActorAlone
<1>2. CASE ~IsClosed
  <2>1. gen' = Draining(Served({k})) /\ byKey' = Without({k}) /\ byHook' = HookWithout({k})
    BY <1>2 DEF Unpublish
  <2>2. /\ CandidatesOwned' /\ GensReal' /\ LiveAreTracked'
        /\ NoOrphanGeneration' /\ ClosedServesNothing'
        /\ \A h \in Gens : /\ gen[h].state \in Live => gen'[h].state \in Live
                           /\ gen[h].state = "closed" => gen'[h] = gen[h]
    <3> DEFINE S == {k}
    <3>1. S \subseteq Keys
      OBVIOUS
    <3>2. gen' = Draining(Served(S)) /\ byKey' = Without(S) /\ byHook' = HookWithout(S)
      BY <2>1
    <3> HIDE DEF S
    <3> QED
      BY <1>2, <3>1, <3>2, Unpublished
  <2> QED
    BY <2>2, CallsStay DEF Hosted
<1> QED
  BY <1>1, <1>2

\* The drain of a generation ends: it is free, or closed under its calls.
LEMMA DrainEndsHosted ==
  ASSUME Sorts, Sorts', Hosted, NEW g \in Gens, DrainEnds(g)
  PROVE  Hosted'
<1>0. gen[g].state = "draining" /\ UNCHANGED <<resolver, actor, close>> /\ order' = Untracked(g)
  BY DEF DrainEnds
<1>1. \A h \in Gens \ {g} : gen'[h] = gen[h]
  BY DEF DrainEnds, Sorts, TypeOK
<1>2. CallsOn(g) = {} => gen'[g] = FreeGen /\ gen'[g].state = "free"
  BY DEF DrainEnds, Sorts, TypeOK, FreeGen
<1>3. CallsOn(g) # {} => /\ gen'[g].state = "closed" /\ gen'[g].key = gen[g].key
                         /\ gen'[g].build = gen[g].build
  <2>1. gen[g] \in Generation
    BY DEF Sorts, TypeOK
  <2>2. \A r \in Generation : LET d == [r EXCEPT !.state = "closed"] IN
          d.state = "closed" /\ d.key = r.key /\ d.build = r.build
    BY DEF Generation
  <2>3. CallsOn(g) # {} => gen'[g] = [gen[g] EXCEPT !.state = "closed"]
    BY DEF DrainEnds, Sorts, TypeOK
  <2> QED
    BY <2>1, <2>2, <2>3
<1>4. gen'[g].state \in {"free", "closed"}
  BY <1>2, <1>3
<1>5. CandidatesOwned'
  <2>1. \A a \in Actors : actor[a].gen # None => actor[a].gen \in Gens \ {g}
    BY <1>0, CandidateFacts DEF Hosted
  <2> QED
    BY <1>0, <1>1, <2>1 DEF Hosted, CandidatesOwned
<1>6. GensReal'
  BY <1>0, <1>1, <1>2, <1>3 DEF Hosted, GensReal
<1>7. LiveAreTracked'
  <2>1. \E i \in DOMAIN order : order[i] = g
    BY <1>0 DEF Hosted, LiveAreTracked, Live
  <2>2. \A h \in Gens \ {g} : (\E i \in DOMAIN order : order[i] = h)
          => \E i \in DOMAIN order' : order'[i] = h
    BY <1>0, <2>1, OrderFacts DEF Sorts
  <2> QED
    BY <1>1, <1>4, <2>2 DEF Hosted, LiveAreTracked, Live
<1>8. NoOrphanGeneration'
  <2>1. ASSUME NEW h \in Gens, gen'[h].state = "serving"
        PROVE  byKey'[gen'[h].key] = h
    <3>1. h # g
      BY <1>4, <2>1
    <3> QED
      BY <1>0, <1>1, <2>1, <3>1 DEF Hosted, NoOrphanGeneration, resolver
  <2>2. ASSUME NEW h \in Gens, gen'[h].state = "candidate"
        PROVE  \E o \in Actors : actor'[o].gen = h
    <3>1. h # g
      BY <1>4, <2>2
    <3> QED
      BY <1>0, <1>1, <2>2, <3>1 DEF Hosted, NoOrphanGeneration
  <2>3. ASSUME NEW k \in Keys, byKey'[k] # None
        PROVE  gen'[byKey'[k]].state = "serving" /\ gen'[byKey'[k]].key = k
    <3>1. byKey'[k] = byKey[k] /\ byKey[k] \in Gens /\ gen[byKey[k]].state = "serving"
          /\ gen[byKey[k]].key = k
      BY <1>0, <2>3 DEF Hosted, NoOrphanGeneration, resolver, Sorts, TypeOK
    <3> QED
      BY <1>0, <1>1, <3>1
  <2>4. ASSUME byHook' # None
        PROVE  gen'[byHook'].key \in Hooked /\ byKey'[gen'[byHook'].key] = byHook'
    <3>1. byHook' = byHook /\ byHook \in Gens /\ gen[byHook].key \in Hooked
          /\ byKey[gen[byHook].key] = byHook
      BY <1>0, <2>4 DEF Hosted, NoOrphanGeneration, resolver, Sorts, TypeOK
    <3>2. gen[byHook].state = "serving"
      BY <1>0, <2>4, <3>1, HostAssumption DEF HostAssumption, Hosted, NoOrphanGeneration, resolver
    <3> QED
      BY <1>0, <1>1, <3>1, <3>2 DEF resolver
  <2> QED
    BY <2>1, <2>2, <2>3, <2>4 DEF NoOrphanGeneration
<1>9. CallsHold'
  <2>1. ASSUME NEW c \in Callers
        PROVE  IF call'[c].gen = None THEN call'[c] = NoCall
               ELSE /\ gen'[call'[c].gen].state \in Live \cup {"closed"}
                    /\ gen'[call'[c].gen].state = "closed" => call'[c].cut
    <3>1. CASE call[c].gen = g
      <4>1. CallsOn(g) # {} /\ c \in CallsOn(g) /\ g # None
        BY <3>1, HostAssumption DEF CallsOn, HostAssumption
      <4>2. call'[c] = [call[c] EXCEPT !.cut = TRUE] /\ call[c] \in Callings
        BY <4>1 DEF DrainEnds, Sorts, TypeOK, Callings
      <4>3. call'[c].gen = g /\ call'[c].cut
        BY <3>1, <4>2 DEF Callings
      <4> QED
        BY <1>3, <4>1, <4>3
    <3>2. CASE call[c].gen # g
      <4>1. call'[c] = call[c]
        BY <3>2 DEF DrainEnds, CallsOn
      <4>2. call[c].gen # None => call[c].gen \in Gens \ {g}
        BY <3>2, CallFacts DEF Hosted
      <4> QED
        BY <1>1, <4>1, <4>2 DEF Hosted, CallsHold
    <3> QED
      BY <3>1, <3>2
  <2> QED
    BY <2>1 DEF CallsHold
<1>10. ClosedServesNothing'
  BY <1>0, <1>1, <1>4 DEF Hosted, ClosedServesNothing, resolver, IsClosed, CacheClosed
<1> QED
  BY <1>5, <1>6, <1>7, <1>8, <1>9, <1>10 DEF Hosted

\* The resolver, seen by a caller.
LEMMA CallHosted ==
  ASSUME Sorts, Sorts', Hosted, NEW c \in Callers, NEW k \in Keys, Call(c, k)
  PROVE  Hosted'
<1>1. byKey[k] \in Gens /\ gen[byKey[k]].state = "serving"
  BY DEF Call, Hosted, NoOrphanGeneration, Sorts, TypeOK
<1>2. call'[c].gen = byKey[k] /\ \A d \in Callers \ {c} : call'[d] = call[d]
  <2>1. call \in [Callers -> Callings]
    BY DEF Sorts, TypeOK, Callings
  <2> QED
    BY <2>1 DEF Call, Callings
<1>3. CallsHold'
  BY <1>1, <1>2, HostAssumption DEF HostAssumption, Call, Hosted, CallsHold, Live, tracked
<1> QED
  BY <1>3 DEF Call, Hosted, CandidatesOwned, GensReal, LiveAreTracked, NoOrphanGeneration,
       ClosedServesNothing, IsClosed, CacheClosed, tracked, resolver

\* A generation only becomes unusable.
LEMMA SingletonTimeoutHosted ==
  ASSUME Sorts, Sorts', Hosted, NEW c \in Callers, SingletonTimeout(c)
  PROVE  Hosted'
<1> DEFINE g == call[c].gen
<1>1. g \in Gens /\ gen[g].state # "free"
  BY CallFacts DEF SingletonTimeout, Hosted
<1>2. \A h \in Gens : /\ gen'[h].state = gen[h].state /\ gen'[h].key = gen[h].key
                      /\ gen'[h].build = gen[h].build
                      /\ gen[h].state = "free" => gen'[h] = gen[h]
  <2>1. gen' = [gen EXCEPT ![g].broken = TRUE]
    BY DEF SingletonTimeout
  <2>2. gen \in [Gens -> Generation]
    BY DEF Sorts, TypeOK
  <2>3. \A r \in Generation : LET d == [r EXCEPT !.broken = TRUE] IN
          d.state = r.state /\ d.key = r.key /\ d.build = r.build
    BY DEF Generation
  <2> HIDE DEF g
  <2> QED
    BY <1>1, <2>1, <2>2, <2>3
<1>3. \A d \in Callers : call'[d].gen = call[d].gen /\ call'[d].cut = call[d].cut
                         /\ (d # c => call'[d] = call[d])
  <2>1. call \in [Callers -> Callings]
    BY DEF Sorts, TypeOK, Callings
  <2> QED
    BY <2>1 DEF SingletonTimeout, Callings
<1>4. UNCHANGED <<order, resolver, actor, close>> /\ g # None
  BY DEF SingletonTimeout
<1>5. CandidatesOwned'
  BY <1>2, <1>4, ActorIs DEF Hosted, CandidatesOwned
<1>6. GensReal' /\ LiveAreTracked'
  BY <1>2, <1>4 DEF Hosted, GensReal, LiveAreTracked
<1>7. NoOrphanGeneration'
  <2>1. \A k \in Keys : byKey[k] # None => byKey[k] \in Gens
    BY DEF Sorts, TypeOK
  <2>2. byHook # None => byHook \in Gens
    BY DEF Sorts, TypeOK
  <2>3. \A h \in Gens : /\ gen'[h].state = "serving" => byKey'[gen'[h].key] = h
                        /\ gen'[h].state = "candidate" => \E a \in Actors : actor'[a].gen = h
    BY <1>2, <1>4 DEF Hosted, NoOrphanGeneration, resolver
  <2>4. \A k \in Keys : byKey'[k] # None => gen'[byKey'[k]].state = "serving" /\ gen'[byKey'[k]].key = k
    BY <1>2, <1>4, <2>1 DEF Hosted, NoOrphanGeneration, resolver
  <2>5. byHook' # None => gen'[byHook'].key \in Hooked /\ byKey'[gen'[byHook'].key] = byHook'
    BY <1>2, <1>4, <2>2 DEF Hosted, NoOrphanGeneration, resolver
  <2> QED
    BY <2>3, <2>4, <2>5 DEF NoOrphanGeneration
<1>8. CallsHold'
  BY <1>2, <1>3, <1>4, CallFacts DEF Hosted, CallsHold
<1>9. ClosedServesNothing'
  BY <1>2, <1>4 DEF Hosted, ClosedServesNothing, resolver, IsClosed, CacheClosed
<1> QED
  BY <1>5, <1>6, <1>7, <1>8, <1>9 DEF Hosted

\* The last call of a closed generation frees it.
LEMMA AfterCallIs ==
  ASSUME NEW c \in Callers, NEW new \in [Gens -> Generation], call[c].gen \in Gens
  PROVE  /\ \A h \in Gens : h # call[c].gen => AfterCall(c, new)[h] = new[h]
         /\ \/ AfterCall(c, new)[call[c].gen] = new[call[c].gen]
            \/ /\ new[call[c].gen].state = "closed" /\ CallsOn(call[c].gen) = {c}
               /\ AfterCall(c, new)[call[c].gen] = FreeGen
  BY DEF AfterCall

LEMMA CallEnds ==
  ASSUME Sorts, Sorts', Hosted, NEW c \in Callers, call[c].gen # None,
         gen' = AfterCall(c, gen), call' = [call EXCEPT ![c] = NoCall],
         UNCHANGED <<order, resolver, actor, close>>
  PROVE  Hosted'
<1> DEFINE g == call[c].gen
<1>0. g \in Gens /\ gen[g].state \in {"serving", "draining", "closed"} /\ gen[g].build \in Builds
  BY CallFacts DEF Hosted
<1>1. /\ \A h \in Gens : h # g => gen'[h] = gen[h]
      /\ \/ gen'[g] = gen[g]
         \/ gen[g].state = "closed" /\ CallsOn(g) = {c} /\ gen'[g] = FreeGen
  <2>1. gen \in [Gens -> Generation]
    BY DEF Sorts, TypeOK
  <2>2. /\ \A h \in Gens : h # call[c].gen => AfterCall(c, gen)[h] = gen[h]
        /\ \/ AfterCall(c, gen)[call[c].gen] = gen[call[c].gen]
           \/ /\ gen[call[c].gen].state = "closed" /\ CallsOn(call[c].gen) = {c}
              /\ AfterCall(c, gen)[call[c].gen] = FreeGen
    BY <1>0, <2>1, AfterCallIs
  <2> QED
    BY <2>2
<1>2. gen'[g] # gen[g] => gen[g].state = "closed" /\ CallsOn(g) = {c} /\ gen'[g].state = "free"
                          /\ gen'[g] = FreeGen
  BY <1>1 DEF FreeGen
<1>3. call'[c] = NoCall /\ call'[c].gen = None /\ \A d \in Callers \ {c} : call'[d] = call[d]
  BY DEF Sorts, TypeOK, NoCall
<1> HIDE DEF g
<1>4. \A h \in Gens : gen[h].state # "closed" => gen'[h] = gen[h]
  BY <1>1, <1>2
<1>5. CandidatesOwned'
  <2>1. \A a \in Actors : actor[a].gen # None
          => actor[a].gen \in Gens /\ gen[actor[a].gen].state = "candidate"
    BY CandidateFacts DEF Hosted
  <2> QED
    BY <1>4, <2>1 DEF Hosted, CandidatesOwned
<1>6. GensReal'
  BY <1>1, <1>2 DEF Hosted, GensReal
<1>7. LiveAreTracked'
  BY <1>1, <1>2 DEF Hosted, LiveAreTracked, Live
<1>8. NoOrphanGeneration'
  <2>1. \A k \in Keys : byKey[k] # None => byKey[k] \in Gens /\ gen'[byKey[k]] = gen[byKey[k]]
    <3>1. ASSUME NEW k \in Keys, byKey[k] # None
          PROVE  byKey[k] \in Gens /\ gen[byKey[k]].state = "serving"
      BY <3>1 DEF Sorts, TypeOK, Hosted, NoOrphanGeneration
    <3> QED
      BY <1>4, <3>1
  <2>2. byHook # None => byHook \in Gens /\ gen'[byHook] = gen[byHook]
    <3>1. ASSUME byHook # None PROVE byHook \in Gens /\ gen[byHook].state = "serving"
      BY <3>1, HostAssumption DEF HostAssumption, Sorts, TypeOK, Hosted, NoOrphanGeneration
    <3> QED
      BY <1>4, <3>1
  <2>3. \A h \in Gens : gen'[h].state \in {"serving", "candidate"} => gen'[h] = gen[h]
    BY <1>1, <1>2
  <2>4. \A h \in Gens : /\ gen'[h].state = "serving" => byKey'[gen'[h].key] = h
                        /\ gen'[h].state = "candidate" => \E a \in Actors : actor'[a].gen = h
    BY <2>3 DEF Hosted, NoOrphanGeneration, resolver
  <2>5. \A k \in Keys : byKey'[k] # None => gen'[byKey'[k]].state = "serving" /\ gen'[byKey'[k]].key = k
    BY <2>1 DEF Hosted, NoOrphanGeneration, resolver
  <2>6. byHook' # None => gen'[byHook'].key \in Hooked /\ byKey'[gen'[byHook'].key] = byHook'
    BY <2>2 DEF Hosted, NoOrphanGeneration, resolver
  <2> QED
    BY <2>4, <2>5, <2>6 DEF NoOrphanGeneration
<1>9. CallsHold'
  <2>1. ASSUME NEW d \in Callers
        PROVE  IF call'[d].gen = None THEN call'[d] = NoCall
               ELSE /\ gen'[call'[d].gen].state \in Live \cup {"closed"}
                    /\ gen'[call'[d].gen].state = "closed" => call'[d].cut
    <3>1. CASE d = c
      BY <1>3, <3>1
    <3>2. CASE d # c /\ call[d].gen # None
      <4>1. call[d].gen \in Gens /\ call'[d] = call[d]
        BY <1>3, <3>2, CallFacts DEF Hosted
      <4>2. gen'[call[d].gen] = gen[call[d].gen]
        BY <1>1, <1>2, <3>2, <4>1 DEF CallsOn
      <4> QED
        BY <3>2, <4>1, <4>2 DEF Hosted, CallsHold
    <3>3. CASE d # c /\ call[d].gen = None
      BY <1>3, <3>3 DEF Hosted, CallsHold
    <3> QED
      BY <3>1, <3>2, <3>3
  <2> QED
    BY <2>1 DEF CallsHold
<1>10. ClosedServesNothing'
  BY <1>1, <1>2 DEF Hosted, ClosedServesNothing, resolver, IsClosed, CacheClosed
<1> QED
  BY <1>5, <1>6, <1>7, <1>8, <1>9, <1>10 DEF Hosted

LEMMA RetiringFacts ==
  ASSUME Sorts, Hosted, NEW c \in Callers, Retire(c)
  PROVE  call[c].gen # None
  BY DEF Retire, Hosted, CallsHold, NoCall

\* A singleton that is still published is drained under its call.
LEMMA RetireHosted ==
  ASSUME Sorts, Sorts', Hosted, NEW c \in Callers, Retire(c)
  PROVE  Hosted'
<1> DEFINE g == call[c].gen
           k == gen[g].key
<1>0. g # None /\ g \in Gens /\ k \in Keys
  BY RetiringFacts, CallFacts DEF Hosted
<1>1. CASE IsClosed \/ byKey[k] # g
  BY <1>0, <1>1, CallEnds DEF Retire
<1>2. CASE ~(IsClosed \/ byKey[k] # g)
  <2> DEFINE S == {k}
  <2>1. gen[g].state = "serving" /\ Served(S) = {g} /\ S \subseteq Keys
    BY <1>0, <1>2 DEF Hosted, NoOrphanGeneration, Served
  <2>2. gen' = AfterCall(c, Draining({g})) /\ byKey' = Without(S) /\ byHook' = HookWithout(S)
        /\ UNCHANGED <<order, actor, close>> /\ call' = [call EXCEPT ![c] = NoCall]
    BY <1>2 DEF Retire
  <2>3. Draining({g})[g].state = "draining"
    BY <1>0, DrainingIs
  <2>4. gen' = Draining(Served(S))
    BY <2>1, <2>2, <2>3 DEF AfterCall
  <2> HIDE DEF S
  <2>5. /\ CandidatesOwned' /\ GensReal' /\ LiveAreTracked'
        /\ NoOrphanGeneration' /\ ClosedServesNothing'
        /\ \A h \in Gens : /\ gen[h].state \in Live => gen'[h].state \in Live
                           /\ gen[h].state = "closed" => gen'[h] = gen[h]
    BY <1>2, <2>1, <2>2, <2>4, Unpublished
  <2>6. CallsHold'
    <3>1. call'[c] = NoCall /\ call'[c].gen = None /\ \A d \in Callers \ {c} : call'[d] = call[d]
      BY <2>2 DEF Sorts, TypeOK, NoCall
    <3>2. \A d \in Callers : call[d].gen # None => call[d].gen \in Gens
      BY DEF Sorts, TypeOK
    <3> QED
      BY <2>5, <3>1, <3>2 DEF Hosted, CallsHold, Live
  <2> QED
    BY <2>5, <2>6 DEF Hosted
<1> QED
  BY <1>1, <1>2

\* Closing drains whatever is served.
LEMMA CloseHosted ==
  ASSUME Sorts, Sorts', Hosted, Close
  PROVE  Hosted'
<1>1. \A h \in Gens : gen'[h] = IF gen[h].state = "serving" THEN Chained(h) ELSE gen[h]
  BY DEF Close
<1>2. \A h \in Gens : gen[h].state = "serving" =>
        /\ gen'[h].state = "draining" /\ gen'[h].key = gen[h].key /\ gen'[h].build = gen[h].build
  BY <1>1, ChainedFacts DEF Hosted
<1>3. UNCHANGED <<order, actor, call>> /\ close' = "draining"
      /\ byHook' = None /\ \A k \in Keys : byKey'[k] = None
  BY DEF Close
<1>4. CandidatesOwned'
  <2>1. \A a \in Actors : actor[a].gen # None
          => actor[a].gen \in Gens /\ gen[actor[a].gen].state = "candidate"
    BY CandidateFacts DEF Hosted
  <2> QED
    BY <1>1, <1>3, <2>1 DEF Hosted, CandidatesOwned
<1>5. GensReal' /\ LiveAreTracked'
  BY <1>1, <1>2, <1>3 DEF Hosted, GensReal, LiveAreTracked, Live
<1>6. NoOrphanGeneration'
  BY <1>1, <1>2, <1>3 DEF Hosted, NoOrphanGeneration
<1>7. CallsHold'
  BY <1>1, <1>2, <1>3, CallsStay DEF Hosted, Live
<1>8. ClosedServesNothing'
  BY <1>3 DEF ClosedServesNothing, IsClosed, CacheClosed
<1> QED
  BY <1>4, <1>5, <1>6, <1>7, <1>8 DEF Hosted

LEMMA EndHosted ==
  ASSUME Sorts, Sorts', Hosted, BeginClose \/ FinishClose
  PROVE  Hosted'
<1>1. UNCHANGED <<tracked, resolver, actor, call>>
  BY DEF BeginClose, FinishClose
<1>2. ClosedServesNothing'
  BY <1>1 DEF BeginClose, FinishClose, Hosted, ClosedServesNothing, IsClosed, CacheClosed, tracked,
       resolver
<1> QED
  BY <1>1, <1>2 DEF Hosted, CandidatesOwned, GensReal, LiveAreTracked, NoOrphanGeneration,
       CallsHold, tracked, resolver

-----------------------------------------------------------------------------
(* The third layer: the compile cache.                                     *)

Cached == EntriesServe /\ ReferencesBalance

ActorHolders(b) == {a \in Actors : /\ actor[a].stage \in {"compiling", "compiled"}
                                   /\ actor[a].want.build = b}

LEMMA CountFacts ==
  ASSUME NEW G \in SUBSET Gens, NEW A \in SUBSET Actors
  PROVE  /\ IsFiniteSet(G) /\ IsFiniteSet(A)
         /\ Cardinality(G) \in Nat /\ Cardinality(A) \in Nat
         /\ Cardinality(G) + Cardinality(A) = 0 <=> G = {} /\ A = {}
<1>1. IsFiniteSet(G) /\ IsFiniteSet(A)
  BY ActorsFinite, HostAssumption, FS_Subset DEF HostAssumption
<1>2. Cardinality(G) \in Nat /\ Cardinality(A) \in Nat
  BY <1>1, FS_CardinalityType
<1>3. (Cardinality(G) = 0 <=> G = {}) /\ (Cardinality(A) = 0 <=> A = {})
  BY <1>1, FS_EmptySet
<1> QED
  BY <1>1, <1>2, <1>3

LEMMA HoldersFacts ==
  ASSUME NEW b
  PROVE  /\ Holders(b) = Cardinality(GenHolders(b)) + Cardinality(ActorHolders(b))
         /\ GenHolders(b) \in SUBSET Gens /\ ActorHolders(b) \in SUBSET Actors
         /\ ActorHolders(b) = Waiting(b) \cup Compiled(b)
         /\ Holders(b) \in Nat
         /\ Holders(b) = 0 <=> GenHolders(b) = {} /\ Waiting(b) = {} /\ Compiled(b) = {}
<1>1. /\ GenHolders(b) \in SUBSET Gens /\ ActorHolders(b) \in SUBSET Actors
      /\ ActorHolders(b) = Waiting(b) \cup Compiled(b)
  BY DEF GenHolders, ActorHolders, Waiting, Compiled
<1>2. Holders(b) = Cardinality(GenHolders(b)) + Cardinality(ActorHolders(b))
  BY DEF Holders, GenHolders, ActorHolders
<1> QED
  BY <1>1, <1>2, CountFacts

LEMMA HoldersFactsPrimed ==
  ASSUME NEW b
  PROVE  /\ Holders(b)' = Cardinality(GenHolders(b)') + Cardinality(ActorHolders(b)')
         /\ GenHolders(b)' \in SUBSET Gens /\ ActorHolders(b)' \in SUBSET Actors
         /\ ActorHolders(b)' = Waiting(b)' \cup Compiled(b)'
         /\ Holders(b)' \in Nat
         /\ Holders(b)' = 0 <=> GenHolders(b)' = {} /\ Waiting(b)' = {} /\ Compiled(b)' = {}
<1>1. /\ GenHolders(b)' \in SUBSET Gens /\ ActorHolders(b)' \in SUBSET Actors
      /\ ActorHolders(b)' = Waiting(b)' \cup Compiled(b)'
  BY DEF GenHolders, ActorHolders, Waiting, Compiled
<1>2. Holders(b)' = Cardinality(GenHolders(b)') + Cardinality(ActorHolders(b)')
  BY DEF Holders, GenHolders, ActorHolders
<1> QED
  BY <1>1, <1>2, CountFacts

\* The holders of an artifact stay.
Untouched(b) ==
  GenHolders(b)' = GenHolders(b) /\ Waiting(b)' = Waiting(b) /\ Compiled(b)' = Compiled(b)

LEMMA UntouchedFacts ==
  ASSUME NEW b, Untouched(b)
  PROVE  Holders(b)' = Holders(b)
  BY HoldersFacts, HoldersFactsPrimed DEF Untouched

LEMMA CacheKept ==
  ASSUME Cached, UNCHANGED entry, CacheClosed' <=> CacheClosed,
         \A b \in Builds : Untouched(b)
  PROVE  Cached'
<1>1. EntriesServe'
  BY DEF Cached, EntriesServe, Untouched
<1>2. ReferencesBalance'
  BY UntouchedFacts DEF Cached, ReferencesBalance
<1> QED
  BY <1>1, <1>2 DEF Cached

\* A closed cache holds nothing to account for.
LEMMA CacheGone ==
  ASSUME CacheClosed', \A b \in Builds : entry'[b] = NoEntry
  PROVE  Cached'
  BY DEF Cached, EntriesServe, ReferencesBalance

\* The preparation of a turns into the candidate g.
LEMMA CacheMoved ==
  ASSUME Cached, UNCHANGED <<entry, close>>, NEW b \in Builds, NEW a \in Actors, NEW g \in Gens,
         a \in Compiled(b), g \notin GenHolders(b),
         GenHolders(b)' = GenHolders(b) \cup {g}, Compiled(b)' = Compiled(b) \ {a},
         Waiting(b)' = Waiting(b), \A o \in Builds \ {b} : Untouched(o)
  PROVE  Cached'
<1>1. EntriesServe'
  BY DEF Cached, EntriesServe, Untouched, CacheClosed
<1>2. Holders(b)' = Holders(b) /\ Holders(b) # 0
  <2>1. a \in ActorHolders(b) /\ ActorHolders(b)' = ActorHolders(b) \ {a}
    <3>1. a \notin Waiting(b)
      BY DEF Waiting, Compiled
    <3> QED
      BY <3>1, HoldersFacts, HoldersFactsPrimed
  <2>2. Cardinality(ActorHolders(b)') = Cardinality(ActorHolders(b)) - 1
    BY <2>1, HoldersFacts, CountFacts, FS_RemoveElement
  <2>3. Cardinality(GenHolders(b)') = Cardinality(GenHolders(b)) + 1
    BY HoldersFacts, CountFacts, FS_AddElement
  <2>4. Cardinality(GenHolders(b)) \in Nat /\ Cardinality(ActorHolders(b)) \in Nat
    BY HoldersFacts, CountFacts
  <2>5. Holders(b) = Cardinality(GenHolders(b)) + Cardinality(ActorHolders(b))
        /\ Holders(b)' = Cardinality(GenHolders(b)') + Cardinality(ActorHolders(b)')
    BY HoldersFacts, HoldersFactsPrimed
  <2>6. Holders(b) # 0
    BY HoldersFacts
  <2> QED
    BY <2>2, <2>3, <2>4, <2>5, <2>6
<1>3. ReferencesBalance'
  BY <1>2, UntouchedFacts DEF Cached, ReferencesBalance, CacheClosed
<1> QED
  BY <1>1, <1>3 DEF Cached

\* One holder of b leaves and gives its reference back.
LEMMA CacheReleased ==
  ASSUME Sorts, Sorts', Cached, UNCHANGED close, NEW b \in Builds, Release(b),
         GenHolders(b)' \subseteq GenHolders(b), Waiting(b)' \subseteq Waiting(b),
         Compiled(b)' \subseteq Compiled(b), Holders(b)' = Holders(b) - 1,
         \A o \in Builds \ {b} : Untouched(o)
  PROVE  Cached'
<1>1. CASE CacheClosed
  <2>1. entry' = entry /\ CacheClosed'
    BY <1>1 DEF Release, CacheClosed
  <2>2. \A o \in Builds : entry[o] = NoEntry
    BY <1>1 DEF Cached, EntriesServe
  <2> QED
    BY <2>1, <2>2, CacheGone
<1>2. CASE ~CacheClosed
  <2>1. entry' = Released(b) /\ ~CacheClosed'
    BY <1>2 DEF Release, CacheClosed
  <2>2. \A o \in Builds \ {b} : entry'[o] = entry[o]
    BY <2>1 DEF Released, Sorts, TypeOK
  <2>3. entry[b].references = Holders(b) /\ Holders(b) \in Nat /\ Holders(b)' \in Nat
    BY <1>2, HoldersFacts, HoldersFactsPrimed DEF Cached, ReferencesBalance
  <2>4. CASE entry[b].references > 1
    <3>1. entry'[b].references = entry[b].references - 1 /\ entry'[b].state = entry[b].state
      BY <2>1, <2>4 DEF Released, Sorts, TypeOK
    <3>2. EntriesServe'
      <4>1. entry[b].state # "none"
        BY <1>2, <2>4 DEF Cached, EntriesServe
      <4> QED
        BY <1>2, <2>1, <2>2, <3>1, <4>1 DEF Cached, EntriesServe, Untouched
    <3>3. ReferencesBalance'
      BY <1>2, <2>2, <2>3, <2>4, <3>1, UntouchedFacts DEF Cached, ReferencesBalance
    <3> QED
      BY <3>2, <3>3 DEF Cached
  <2>5. CASE ~(entry[b].references > 1)
    <3>1. Holders(b)' = 0
      BY <2>3, <2>5
    <3>2. GenHolders(b)' = {} /\ Waiting(b)' = {} /\ Compiled(b)' = {}
      BY <3>1, HoldersFactsPrimed
    <3>3. entry'[b].references = 0 /\ entry'[b].state \in {"none", "cancelled"}
      BY <2>1, <2>5 DEF Released, NoEntry, Sorts, TypeOK
    <3>4. EntriesServe'
      BY <1>2, <2>1, <2>2, <3>2, <3>3 DEF Cached, EntriesServe, Untouched
    <3>5. ReferencesBalance'
      BY <1>2, <2>2, <3>1, <3>3, UntouchedFacts DEF Cached, ReferencesBalance
    <3> QED
      BY <3>4, <3>5 DEF Cached
  <2> QED
    BY <2>4, <2>5
<1> QED
  BY <1>1, <1>2

\* A generation is shut down, or an actor gives up what it prepared.
LEMMA GenLeaves ==
  ASSUME Sorts, Sorts', Cached, UNCHANGED close, NEW b \in Builds, Release(b),
         NEW g \in GenHolders(b), GenHolders(b)' = GenHolders(b) \ {g},
         Waiting(b)' = Waiting(b), Compiled(b)' = Compiled(b),
         \A o \in Builds \ {b} : Untouched(o)
  PROVE  Cached'
<1>1. ActorHolders(b)' = ActorHolders(b)
  BY HoldersFacts, HoldersFactsPrimed
<1>2. Cardinality(GenHolders(b)') = Cardinality(GenHolders(b)) - 1
  BY HoldersFacts, CountFacts, FS_RemoveElement
<1>3. Cardinality(GenHolders(b)) \in Nat /\ Cardinality(ActorHolders(b)) \in Nat
  BY HoldersFacts, CountFacts
<1>4. Holders(b)' = Holders(b) - 1
  BY <1>1, <1>2, <1>3, HoldersFacts, HoldersFactsPrimed
<1> QED
  BY <1>4, CacheReleased

LEMMA ActorLeaves ==
  ASSUME Sorts, Sorts', Cached, UNCHANGED close, NEW b \in Builds, Release(b),
         NEW a \in ActorHolders(b), GenHolders(b)' = GenHolders(b),
         Waiting(b)' = Waiting(b) \ {a}, Compiled(b)' = Compiled(b) \ {a},
         \A o \in Builds \ {b} : Untouched(o)
  PROVE  Cached'
<1>1. ActorHolders(b)' = ActorHolders(b) \ {a}
  BY HoldersFacts, HoldersFactsPrimed
<1>2. Cardinality(ActorHolders(b)') = Cardinality(ActorHolders(b)) - 1
  BY <1>1, HoldersFacts, CountFacts, FS_RemoveElement
<1>3. Cardinality(GenHolders(b)) \in Nat /\ Cardinality(ActorHolders(b)) \in Nat
  BY HoldersFacts, CountFacts
<1>4. Holders(b)' = Holders(b) - 1
  BY <1>2, <1>3, HoldersFacts, HoldersFactsPrimed
<1> QED
  BY <1>4, CacheReleased

\* How the holders change with the generations and with the actors.
LEMMA GensUntouched ==
  ASSUME \A g \in Gens : \/ gen'[g] = gen[g]
                         \/ /\ gen'[g].build = gen[g].build
                            /\ gen'[g].state # "closed" <=> gen[g].state # "closed"
                         \/ gen[g].state = "closed" /\ gen'[g] = FreeGen,
         NEW b \in Builds
  PROVE  GenHolders(b)' = GenHolders(b)
<1>1. FreeGen.build # b
  BY HostAssumption DEF FreeGen, HostAssumption
<1>2. \A g \in Gens : g \in GenHolders(b)' <=> g \in GenHolders(b)
  BY <1>1 DEF GenHolders
<1> QED
  BY <1>2 DEF GenHolders

LEMMA ActorsUntouched ==
  ASSUME \A a \in Actors :
           \/ actor'[a] = actor[a]
           \/ /\ actor[a].stage \notin {"compiling", "compiled"}
              /\ actor'[a].stage \notin {"compiling", "compiled"},
         NEW b \in Builds
  PROVE  Waiting(b)' = Waiting(b) /\ Compiled(b)' = Compiled(b)
  BY DEF Waiting, Compiled

\* The actors' errands and the generations' states change, and nobody's
\* hold on an artifact.
LEMMA NothingHeld ==
  ASSUME Cached, UNCHANGED entry, CacheClosed' <=> CacheClosed,
         \A g \in Gens : \/ gen'[g] = gen[g]
                         \/ /\ gen'[g].build = gen[g].build
                            /\ gen'[g].state # "closed" <=> gen[g].state # "closed"
                         \/ gen[g].state = "closed" /\ gen'[g] = FreeGen,
         \A a \in Actors :
           \/ actor'[a] = actor[a]
           \/ /\ actor[a].stage \notin {"compiling", "compiled"}
              /\ actor'[a].stage \notin {"compiling", "compiled"}
  PROVE  Cached'
<1>1. \A b \in Builds : Untouched(b)
  BY GensUntouched, ActorsUntouched DEF Untouched
<1> QED
  BY <1>1, CacheKept

\* A generation that holds its artifact is freed or closed.
LEMMA GenFreed ==
  ASSUME Sorts, Sorts', Cached, UNCHANGED close, NEW g \in Gens, gen[g].state # "closed",
         gen[g].build \in Builds, Release(gen[g].build),
         gen'[g] = FreeGen \/ gen'[g].state = "closed",
         \A h \in Gens \ {g} : gen'[h] = gen[h],
         \A a \in Actors :
           \/ actor'[a] = actor[a]
           \/ /\ actor[a].stage \notin {"compiling", "compiled"}
              /\ actor'[a].stage \notin {"compiling", "compiled"}
  PROVE  Cached'
<1> SUFFICES ASSUME NEW b \in Builds, b = gen[g].build PROVE Cached'
  OBVIOUS
<1>1. g \in GenHolders(b)
  BY DEF GenHolders
<1>2. \A o \in Builds : FreeGen.build # o
  BY HostAssumption DEF FreeGen, HostAssumption
<1>3. GenHolders(b)' = GenHolders(b) \ {g}
  <2>1. \A h \in Gens : h \in GenHolders(b)' <=> h \in GenHolders(b) /\ h # g
    BY <1>2 DEF GenHolders
  <2> QED
    BY <2>1 DEF GenHolders
<1>4. \A o \in Builds \ {b} : GenHolders(o)' = GenHolders(o)
  <2>1. ASSUME NEW o \in Builds \ {b} PROVE GenHolders(o)' = GenHolders(o)
    <3>1. \A h \in Gens : h \in GenHolders(o)' <=> h \in GenHolders(o)
      BY <1>2 DEF GenHolders
    <3> QED
      BY <3>1 DEF GenHolders
  <2> QED
    BY <2>1
<1>5. \A o \in Builds : Waiting(o)' = Waiting(o) /\ Compiled(o)' = Compiled(o)
  BY ActorsUntouched
<1>6. \A o \in Builds \ {b} : Untouched(o)
  BY <1>4, <1>5 DEF Untouched
<1>7. b \in Builds /\ Release(b)
  OBVIOUS
<1> QED
  BY <1>1, <1>3, <1>5, <1>6, <1>7, GenLeaves

\* An actor that holds an artifact stops preparing.
LEMMA ActorFreed ==
  ASSUME Sorts, Sorts', Cached, UNCHANGED <<gen, close>>, NEW a \in Actors,
         actor[a].stage \in {"compiling", "compiled"},
         actor[a].want.build \in Builds, Release(actor[a].want.build),
         actor'[a].stage \notin {"compiling", "compiled"},
         \A o \in Actors \ {a} : actor'[o] = actor[o]
  PROVE  Cached'
<1> SUFFICES ASSUME NEW b \in Builds, b = actor[a].want.build PROVE Cached'
  OBVIOUS
<1>1. a \in ActorHolders(b) /\ b \in Builds /\ Release(b)
  BY DEF ActorHolders
<1>2. Waiting(b)' = Waiting(b) \ {a} /\ Compiled(b)' = Compiled(b) \ {a}
  <2>1. \A o \in Actors : /\ o \in Waiting(b)' <=> o \in Waiting(b) /\ o # a
                          /\ o \in Compiled(b)' <=> o \in Compiled(b) /\ o # a
    BY DEF Waiting, Compiled
  <2> QED
    BY <2>1 DEF Waiting, Compiled
<1>3. \A x \in Builds : GenHolders(x)' = GenHolders(x)
  BY GensUntouched
<1>4. ASSUME NEW x \in Builds \ {b} PROVE Untouched(x)
  <2>1. \A o \in Actors : /\ o \in Waiting(x)' <=> o \in Waiting(x)
                          /\ o \in Compiled(x)' <=> o \in Compiled(x)
    BY DEF Waiting, Compiled
  <2>2. Waiting(x)' = Waiting(x) /\ Compiled(x)' = Compiled(x)
    BY <2>1 DEF Waiting, Compiled
  <2> QED
    BY <1>3, <2>2 DEF Untouched
<1> QED
  BY <1>1, <1>2, <1>3, <1>4, ActorLeaves

LEMMA AcquireCached ==
  ASSUME Sorts, Sorts', Cached, NEW a \in Actors, Acquire(a)
  PROVE  Cached'
<1> DEFINE w == actor[a].want.build
           x == IF entry[w].state = "ready" THEN "compiled" ELSE "compiling"
<1>0. w \in Builds /\ actor[a].stage = "prepare" /\ actor[a].want \in Row
  BY ActorIs DEF Acquire, Errand, Preparing
<1>1. actor'[a].stage = x /\ actor'[a].want = actor[a].want
      /\ \A o \in Actors \ {a} : actor'[o] = actor[o]
  <2>1. actor' = [actor EXCEPT ![a].stage = x] /\ actor \in [Actors -> Actor] /\ x \in Stages
    BY ActorIs DEF Acquire, Go, Stages
  <2> HIDE DEF x
  <2>2. actor'[a] = [actor[a] EXCEPT !.stage = x] /\ \A o \in Actors \ {a} : actor'[o] = actor[o]
    BY <2>1
  <2>3. actor[a] \in Actor
    BY <2>1
  <2> QED
    BY <2>1, <2>2, <2>3, ActorFields
<1>2. /\ UNCHANGED <<gen, close>> /\ ~CacheClosed
      /\ entry' = [entry EXCEPT ![w] =
                     [state      |-> IF entry[w].state = "none" THEN "compiling" ELSE entry[w].state,
                      references |-> entry[w].references + 1]]
  BY DEF Acquire, tracked
<1> SUFFICES ASSUME NEW b \in Builds, b = w PROVE Cached'
  BY <1>0
<1>3. /\ entry'[b].references = entry[b].references + 1
      /\ entry'[b].state = IF entry[b].state = "none" THEN "compiling" ELSE entry[b].state
      /\ \A o \in Builds \ {b} : entry'[o] = entry[o]
  BY <1>2 DEF Sorts, TypeOK
<1>4. x = IF entry[b].state = "ready" THEN "compiled" ELSE "compiling"
  OBVIOUS
<1>5. actor'[a].want.build = b /\ actor[a].want.build = b
  BY <1>1
<1> HIDE DEF x, w
<1>6. \A o \in Builds : GenHolders(o)' = GenHolders(o)
  BY <1>2, GensUntouched
<1>7. Waiting(b)' = (IF x = "compiling" THEN Waiting(b) \cup {a} ELSE Waiting(b))
      /\ Compiled(b)' = (IF x = "compiled" THEN Compiled(b) \cup {a} ELSE Compiled(b))
      /\ a \notin Waiting(b) /\ a \notin Compiled(b)
  <2>1. \A o \in Actors :
          /\ o \in Waiting(b)' <=> o \in Waiting(b) \/ (o = a /\ x = "compiling")
          /\ o \in Compiled(b)' <=> o \in Compiled(b) \/ (o = a /\ x = "compiled")
    BY <1>0, <1>1, <1>4, <1>5 DEF Waiting, Compiled
  <2> QED
    BY <1>0, <2>1 DEF Waiting, Compiled
<1>8. \A o \in Builds \ {b} : Untouched(o)
  <2>1. ASSUME NEW o \in Builds \ {b} PROVE Waiting(o)' = Waiting(o) /\ Compiled(o)' = Compiled(o)
    <3>1. \A q \in Actors : /\ q \in Waiting(o)' <=> q \in Waiting(o)
                            /\ q \in Compiled(o)' <=> q \in Compiled(o)
      BY <1>0, <1>1, <1>5 DEF Waiting, Compiled
    <3> QED
      BY <3>1 DEF Waiting, Compiled
  <2> QED
    BY <1>6, <2>1 DEF Untouched
<1>9. EntriesServe'
  <2>1. ~CacheClosed'
    BY <1>2 DEF CacheClosed
  <2>2. entry[b].state \in {"none", "compiling", "cancelled", "ready"}
        /\ entry[b].references \in Nat
    BY DEF Sorts, TypeOK
  <2>3. /\ GenHolders(b)' \cup Compiled(b)' # {} => entry'[b].state = "ready"
        /\ Waiting(b)' # {} => entry'[b].state \in {"compiling", "cancelled"}
        /\ entry'[b].state # "none"
    BY <1>2, <1>3, <1>4, <1>6, <1>7, <2>2 DEF Cached, EntriesServe
  <2> QED
    BY <1>2, <1>3, <1>8, <2>1, <2>3 DEF Cached, EntriesServe, Untouched
<1>10. Holders(b)' = Holders(b) + 1 /\ Holders(b) \in Nat
  <2>1. ActorHolders(b)' = ActorHolders(b) \cup {a} /\ a \notin ActorHolders(b)
    BY <1>4, <1>7, HoldersFacts, HoldersFactsPrimed
  <2>2. Cardinality(ActorHolders(b)') = Cardinality(ActorHolders(b)) + 1
    BY <2>1, HoldersFacts, CountFacts, FS_AddElement
  <2>3. Cardinality(GenHolders(b)) \in Nat /\ Cardinality(ActorHolders(b)) \in Nat
    BY HoldersFacts, CountFacts
  <2>4. Holders(b) = Cardinality(GenHolders(b)) + Cardinality(ActorHolders(b))
        /\ Holders(b)' = Cardinality(GenHolders(b)') + Cardinality(ActorHolders(b)')
    BY HoldersFacts, HoldersFactsPrimed
  <2> QED
    BY <1>6, <2>2, <2>3, <2>4
<1>11. ReferencesBalance'
  BY <1>2, <1>3, <1>8, <1>10, UntouchedFacts DEF Cached, ReferencesBalance
<1> QED
  BY <1>9, <1>11 DEF Cached

\* The compilation answers all who wait for it.
LEMMA CompleteCompileCached ==
  ASSUME Sorts, Sorts', Cached, NEW b \in Builds, NEW ok \in BOOLEAN, CompleteCompile(b, ok)
  PROVE  Cached'
<1>0. ~CacheClosed /\ entry[b].state \in {"compiling", "cancelled"} /\ UNCHANGED <<gen, close>>
  BY DEF CompleteCompile, Cached, EntriesServe, NoEntry, tracked
<1>1. GenHolders(b) = {} /\ Compiled(b) = {} /\ entry[b].references = Holders(b) /\ Holders(b) \in Nat
  BY <1>0, HoldersFacts DEF Cached, EntriesServe, ReferencesBalance
<1>2. \A o \in Builds : GenHolders(o)' = GenHolders(o)
  BY <1>0, GensUntouched
<1>3. \A a \in Actors :
        IF a \notin Waiting(b) THEN actor'[a] = actor[a]
        ELSE IF ok THEN actor'[a].stage = "compiled" /\ actor'[a].want = actor[a].want
        ELSE actor'[a].stage \notin {"compiling", "compiled"}
  <2>1. \A a \in Actors : a \in Waiting(b) => actor[a].stage \in Preparing
    BY DEF Waiting, Preparing
  <2>2. ASSUME NEW a \in Actors, a \in Waiting(b), ok
        PROVE  actor'[a].stage = "compiled" /\ actor'[a].want = actor[a].want
    <3>1. actor'[a] = [actor[a] EXCEPT !.stage = "compiled"] /\ actor[a] \in Actor
          /\ "compiled" \in Stages
      BY <2>2, ActorIs DEF CompleteCompile, Stages
    <3> QED
      BY <3>1, ActorFields
  <2>3. ASSUME NEW a \in Actors, a \in Waiting(b), ~ok
        PROVE  actor'[a].stage \notin {"compiling", "compiled"}
    <3>1. actor'[a] = Failed(a)
      BY <2>3 DEF CompleteCompile
    <3> QED
      BY <2>1, <2>3, <3>1, FailedFacts
  <2>4. \A a \in Actors : a \notin Waiting(b) => actor'[a] = actor[a]
    BY DEF CompleteCompile
  <2> QED
    BY <2>2, <2>3, <2>4
<1>4. ASSUME NEW o \in Builds \ {b} PROVE Untouched(o)
  <2>1. \A q \in Actors : /\ q \in Waiting(o)' <=> q \in Waiting(o)
                          /\ q \in Compiled(o)' <=> q \in Compiled(o)
    BY <1>3 DEF Waiting, Compiled
  <2>2. Waiting(o)' = Waiting(o) /\ Compiled(o)' = Compiled(o)
    BY <2>1 DEF Waiting, Compiled
  <2> QED
    BY <1>2, <2>2 DEF Untouched
<1>5. \A o \in Builds \ {b} : entry'[o] = entry[o]
  BY DEF CompleteCompile, Sorts, TypeOK
<1>6. ~CacheClosed'
  BY <1>0 DEF CacheClosed
<1>7. CASE ok
  <2>1. Waiting(b)' = {} /\ Compiled(b)' = Waiting(b)
    <3>1. \A a \in Actors : a \notin Waiting(b)' /\ (a \in Compiled(b)' <=> a \in Waiting(b))
      BY <1>1, <1>3, <1>7 DEF Waiting, Compiled
    <3> QED
      BY <3>1 DEF Waiting, Compiled
  <2>2. ActorHolders(b)' = ActorHolders(b)
    BY <1>1, <2>1, HoldersFacts, HoldersFactsPrimed
  <2>3. Holders(b)' = Holders(b)
    BY <1>2, <2>2, HoldersFacts, HoldersFactsPrimed
  <2>4. CASE entry[b].references > 0
    <3>1. entry'[b].state = "ready" /\ entry'[b].references = entry[b].references
      BY <1>7, <2>4 DEF CompleteCompile, Sorts, TypeOK
    <3>2. EntriesServe'
      BY <1>0, <1>4, <1>5, <1>6, <2>1, <3>1 DEF Cached, EntriesServe, Untouched
    <3>3. ReferencesBalance'
      BY <1>0, <1>1, <1>4, <1>5, <2>3, <2>4, <3>1, UntouchedFacts DEF Cached, ReferencesBalance
    <3> QED
      BY <3>2, <3>3 DEF Cached
  <2>5. CASE ~(entry[b].references > 0)
    <3>1. Holders(b) = 0 /\ Holders(b)' = 0
      BY <1>1, <2>3, <2>5
    <3>2. GenHolders(b)' = {} /\ Waiting(b)' = {} /\ Compiled(b)' = {}
      BY <3>1, HoldersFactsPrimed
    <3>3. entry'[b].state = "none" /\ entry'[b].references = 0
      BY <2>5 DEF CompleteCompile, NoEntry, Sorts, TypeOK
    <3>4. EntriesServe'
      BY <1>0, <1>4, <1>5, <1>6, <3>2, <3>3 DEF Cached, EntriesServe, Untouched
    <3>5. ReferencesBalance'
      BY <1>0, <1>4, <1>5, <3>1, <3>3, UntouchedFacts DEF Cached, ReferencesBalance
    <3> QED
      BY <3>4, <3>5 DEF Cached
  <2> QED
    BY <2>4, <2>5
<1>8. CASE ~ok
  <2>1. Waiting(b)' = {} /\ Compiled(b)' = {} /\ GenHolders(b)' = {}
    <3>1. \A a \in Actors : a \notin Waiting(b)' /\ a \notin Compiled(b)'
      BY <1>1, <1>3, <1>8 DEF Waiting, Compiled
    <3> QED
      BY <1>1, <1>2, <3>1 DEF Waiting, Compiled
  <2>2. Holders(b)' = 0
    BY <2>1, HoldersFactsPrimed
  <2>3. entry'[b].state = "none" /\ entry'[b].references = 0
    BY <1>8 DEF CompleteCompile, NoEntry, Sorts, TypeOK
  <2>4. EntriesServe'
    BY <1>0, <1>4, <1>5, <1>6, <2>1, <2>3 DEF Cached, EntriesServe, Untouched
  <2>5. ReferencesBalance'
    BY <1>0, <1>4, <1>5, <2>2, <2>3, UntouchedFacts DEF Cached, ReferencesBalance
  <2> QED
    BY <2>4, <2>5 DEF Cached
<1> QED
  BY <1>7, <1>8

-----------------------------------------------------------------------------
(* The steps.                                                              *)

LEMMA InvIs == Inv <=> Sorts /\ Hosted /\ Cached
  BY DEF Inv, Sorts, Hosted, Cached

Kept == Sorts' /\ Hosted' /\ Cached'

LEMMA PreparedKept ==
  ASSUME Sorts, Hosted, Cached, NEW a \in Actors, Prepared(a)
  PROVE  Kept
<1>0. Sorts'
  BY PreparedSorts
<1>1. actor[a].stage = "compiled" /\ actor[a].stage \in Preparing
      /\ UNCHANGED <<order, resolver, call, close>>
  BY DEF Prepared, Preparing
<1>2. actor[a].gen = None /\ actor[a].want.build \in Builds
  BY <1>1, ActorIs DEF Errand
<1>3. CASE actor[a].want.enabled
  <2>1. FreshGen \in Gens /\ gen[FreshGen] = FreeGen
    BY <1>3, PreparedFacts
  <2> SUFFICES ASSUME NEW g \in Gens, g = FreshGen, NEW b \in Builds, b = actor[a].want.build
               PROVE Kept
    BY <1>2, <2>1
  <2>2. /\ gen[g] = FreeGen /\ gen' = [gen EXCEPT ![g] = NewCandidate(a)] /\ entry' = entry
        /\ actor'[a].gen = g /\ actor'[a].stage \in {"publish", "commit"}
        /\ actor'[a].key = actor[a].key
        /\ \A o \in Actors \ {a} : actor'[o] = actor[o]
    BY <1>3, PreparedFacts
  <2>3. gen'[g] = NewCandidate(a) /\ \A h \in Gens \ {g} : gen'[h] = gen[h]
    BY <2>2 DEF Sorts, TypeOK
  <2>4. gen'[g].state = "candidate" /\ gen'[g].key = actor'[a].key /\ gen'[g].key \in Keys
        /\ gen'[g].build = b
    BY <1>1, <2>2, <2>3, NewCandidateFacts
  <2>5. Hosted'
    BY <1>0, <1>1, <1>2, <2>2, <2>3, <2>4, CandidateMade
  <2>6. \A o \in Builds : FreeGen.build # o
    BY HostAssumption DEF FreeGen, HostAssumption
  <2>7. a \in Compiled(b) /\ g \notin GenHolders(b)
    BY <1>1, <2>2, <2>6 DEF Compiled, GenHolders
  <2>8. GenHolders(b)' = GenHolders(b) \cup {g}
    <3>1. \A h \in Gens : h \in GenHolders(b)' <=> h \in GenHolders(b) \/ h = g
      BY <2>3, <2>4 DEF GenHolders
    <3> QED
      BY <3>1 DEF GenHolders
  <2>9. Compiled(b)' = Compiled(b) \ {a} /\ Waiting(b)' = Waiting(b)
    <3>1. \A o \in Actors : /\ o \in Compiled(b)' <=> o \in Compiled(b) /\ o # a
                            /\ o \in Waiting(b)' <=> o \in Waiting(b)
      BY <1>1, <2>2 DEF Compiled, Waiting
    <3> QED
      BY <3>1 DEF Compiled, Waiting
  <2>10. ASSUME NEW x \in Builds \ {b} PROVE Untouched(x)
    <3>1. \A o \in Actors : /\ o \in Compiled(x)' <=> o \in Compiled(x)
                            /\ o \in Waiting(x)' <=> o \in Waiting(x)
      BY <1>1, <2>2 DEF Compiled, Waiting
    <3>2. \A h \in Gens : h \in GenHolders(x)' <=> h \in GenHolders(x)
      BY <2>2, <2>3, <2>4, <2>6 DEF GenHolders
    <3>3. Compiled(x)' = Compiled(x) /\ Waiting(x)' = Waiting(x)
      BY <3>1 DEF Compiled, Waiting
    <3>4. GenHolders(x)' = GenHolders(x)
      BY <3>2 DEF GenHolders
    <3> QED
      BY <3>3, <3>4 DEF Untouched
  <2>11. Cached'
    BY <1>1, <2>2, <2>7, <2>8, <2>9, <2>10, CacheMoved
  <2> QED
    BY <1>0, <2>5, <2>11 DEF Kept
<1>4. CASE ~actor[a].want.enabled
  <2>1. /\ Release(actor[a].want.build) /\ UNCHANGED gen
        /\ actor'[a].gen = None /\ actor'[a].stage = "commit"
        /\ \A o \in Actors \ {a} : actor'[o] = actor[o]
    BY <1>4, CheckedFacts
  <2>2. Hosted'
    BY <1>0, <1>1, <1>2, <2>1, ActorAlone DEF tracked
  <2>3. Cached'
    BY <1>0, <1>1, <1>2, <2>1, ActorFreed
  <2> QED
    BY <1>0, <2>2, <2>3 DEF Kept
<1> QED
  BY <1>3, <1>4

LEMMA PrepareFailsKept ==
  ASSUME Sorts, Hosted, Cached, NEW a \in Actors, PrepareFails(a)
  PROVE  Kept
<1>0. Sorts'
  BY PrepareFailsSorts
<1>1. /\ actor[a].stage \in Preparing /\ UNCHANGED <<tracked, resolver, call, close>>
      /\ actor' = [actor EXCEPT ![a] = Failed(a)]
  BY DEF PrepareFails, Preparing
<1>2. actor[a].gen = None /\ actor[a].want.build \in Builds
  BY <1>1, ActorIs DEF Errand, Preparing
<1>3. /\ actor'[a] = Failed(a) /\ actor'[a].gen = None /\ actor'[a].stage \in {"idle", "diagnose"}
      /\ \A o \in Actors \ {a} : actor'[o] = actor[o]
  BY <1>1, FailedFacts, ActorIs
<1>4. Hosted'
  BY <1>0, <1>1, <1>2, <1>3, ActorAlone
<1>5. Cached'
  <2>1. CASE actor[a].stage = "prepare"
    BY <1>1, <1>3, <2>1, NothingHeld DEF PrepareFails, tracked, CacheClosed
  <2>2. CASE actor[a].stage # "prepare"
    <3>1. actor[a].stage \in {"compiling", "compiled"} /\ Release(actor[a].want.build)
      BY <1>1, <2>2 DEF PrepareFails, Preparing
    <3> QED
      BY <1>0, <1>1, <1>2, <1>3, <3>1, ActorFreed DEF tracked
  <2> QED
    BY <2>1, <2>2
<1> QED
  BY <1>0, <1>4, <1>5 DEF Kept

LEMMA AcquireKept ==
  ASSUME Sorts, Hosted, Cached, NEW a \in Actors, Acquire(a)
  PROVE  Kept
<1>1. Sorts' /\ Cached'
  BY AcquireSorts, AcquireCached
<1>2. \A o \in Actors : actor'[o].gen = actor[o].gen /\ actor'[o].key = actor[o].key
  <2> DEFINE x == IF entry[actor[a].want.build].state = "ready" THEN "compiled" ELSE "compiling"
  <2>1. actor' = [actor EXCEPT ![a].stage = x] /\ x \in Stages
    BY DEF Acquire, Go, Stages
  <2> HIDE DEF x
  <2>2. actor \in [Actors -> Actor]
    BY DEF Sorts, TypeOK
  <2>3. actor'[a] = [actor[a] EXCEPT !.stage = x] /\ \A o \in Actors \ {a} : actor'[o] = actor[o]
    BY <2>1, <2>2
  <2> QED
    BY <2>1, <2>2, <2>3, ActorFields
<1>3. Hosted'
  BY <1>1, <1>2, ActorAlone DEF Acquire
<1> QED
  BY <1>1, <1>3 DEF Kept

LEMMA CompleteCompileKept ==
  ASSUME Sorts, Hosted, Cached, NEW b \in Builds, NEW ok \in BOOLEAN, CompleteCompile(b, ok)
  PROVE  Kept
<1>1. Sorts' /\ Cached'
  BY CompleteCompileSorts, CompleteCompileCached
<1>2. ASSUME NEW o \in Actors
      PROVE  actor'[o].gen = actor[o].gen /\ (actor[o].gen # None => actor'[o].key = actor[o].key)
  <2>1. CASE o \notin Waiting(b)
    BY <2>1 DEF CompleteCompile
  <2>2. CASE o \in Waiting(b)
    <3>1. actor[o].gen = None /\ actor[o].stage \in Preparing
      BY <2>2, ActorIs DEF Errand, Waiting, Preparing
    <3>2. CASE ok
      <4>1. actor'[o] = [actor[o] EXCEPT !.stage = "compiled"] /\ actor[o] \in Actor
            /\ "compiled" \in Stages
        BY <2>2, <3>2, ActorIs DEF CompleteCompile, Stages
      <4> QED
        BY <3>1, <4>1, ActorFields
    <3>3. CASE ~ok
      <4>1. actor'[o] = Failed(o)
        BY <2>2, <3>3 DEF CompleteCompile
      <4> QED
        BY <3>1, <4>1, FailedFacts
    <3> QED
      BY <3>2, <3>3
  <2> QED
    BY <2>1, <2>2
<1>3. Hosted'
  BY <1>1, <1>2, ActorAlone DEF CompleteCompile
<1> QED
  BY <1>1, <1>3 DEF Kept

\* Steps of actors that touch neither the generations nor the cache.
LEMMA ErrandKept ==
  ASSUME Sorts, Sorts', Hosted, Cached,
         UNCHANGED <<tracked, resolver, entry, call, close>>,
         \A a \in Actors : \/ actor'[a] = actor[a]
                           \/ /\ actor'[a].gen = actor[a].gen
                              /\ actor[a].gen # None => actor'[a].key = actor[a].key
                              /\ actor[a].stage \notin {"compiling", "compiled"}
                              /\ actor'[a].stage \notin {"compiling", "compiled"}
  PROVE  Kept
<1>1. Hosted'
  BY ActorAlone
<1>2. Cached'
  BY NothingHeld DEF tracked, CacheClosed
<1> QED
  BY <1>1, <1>2 DEF Kept

LEMMA RestKept ==
  ASSUME Sorts, NEW a \in Actors, actor' = [actor EXCEPT ![a] = Resting]
  PROVE  /\ actor'[a].gen = None /\ actor'[a].stage = "idle"
         /\ \A o \in Actors \ {a} : actor'[o] = actor[o]
  BY RestingFacts, ActorIs

LEMMA DiscardKept ==
  ASSUME Sorts, Hosted, Cached, NEW a \in Actors, Discard(a)
  PROVE  Kept
<1>0. Sorts'
  BY DiscardSorts DEF Hosted
<1>1. /\ actor[a].stage = "discard" /\ UNCHANGED <<order, resolver, call, close>>
      /\ actor'[a].gen = None /\ actor'[a].stage = "idle"
      /\ \A o \in Actors \ {a} : actor'[o] = actor[o]
  BY RestKept DEF Discard
<1>2. CASE actor[a].gen = None
  <2>1. UNCHANGED <<tracked, entry>>
    BY <1>2 DEF Discard, tracked
  <2> QED
    BY <1>0, <1>1, <1>2, <2>1, ErrandKept
<1>3. CASE actor[a].gen # None
  <2>1. /\ actor[a].gen \in Gens /\ gen[actor[a].gen].state = "candidate"
        /\ gen[actor[a].gen].build \in Builds
    BY <1>3, CandidateFacts DEF Hosted
  <2>2. gen' = [gen EXCEPT ![actor[a].gen] = FreeGen] /\ Release(gen[actor[a].gen].build)
    BY <1>3 DEF Discard, Shutdown
  <2>3. Hosted'
    BY <1>0, <1>1, <1>3, <2>2, CandidateFreed
  <2>4. gen'[actor[a].gen] = FreeGen /\ \A h \in Gens \ {actor[a].gen} : gen'[h] = gen[h]
    BY <2>1, <2>2 DEF Sorts, TypeOK
  <2>5. Cached'
    BY <1>0, <1>1, <2>1, <2>2, <2>4, GenFreed
  <2> QED
    BY <1>0, <2>3, <2>5 DEF Kept
<1> QED
  BY <1>2, <1>3

LEMMA PublishFailsKept ==
  ASSUME Sorts, Hosted, Cached, NEW a \in Actors, PublishFails(a)
  PROVE  Kept
<1>0. Sorts'
  BY PublishFailsSorts DEF Hosted
<1>1. /\ actor[a].stage = "publish" /\ UNCHANGED <<order, resolver, call, close>>
      /\ actor[a].gen # None /\ actor'[a].gen = None /\ actor'[a].stage = "diagnose"
      /\ \A o \in Actors \ {a} : actor'[o] = actor[o]
  BY PublishActorFacts DEF PublishFails
<1>2. /\ actor[a].gen \in Gens /\ gen[actor[a].gen].state = "candidate"
      /\ gen[actor[a].gen].build \in Builds
  BY <1>1, CandidateFacts DEF Hosted
<1>3. gen' = [gen EXCEPT ![actor[a].gen] = FreeGen] /\ Release(gen[actor[a].gen].build)
  BY DEF PublishFails, Shutdown
<1>4. Hosted'
  BY <1>0, <1>1, <1>3, CandidateFreed
<1>5. gen'[actor[a].gen] = FreeGen /\ \A h \in Gens \ {actor[a].gen} : gen'[h] = gen[h]
  BY <1>2, <1>3 DEF Sorts, TypeOK
<1>6. Cached'
  BY <1>0, <1>1, <1>2, <1>3, <1>5, GenFreed
<1> QED
  BY <1>0, <1>4, <1>6 DEF Kept

LEMMA PublishKept ==
  ASSUME Sorts, Hosted, Cached, NEW a \in Actors, Publish(a)
  PROVE  Kept
<1>0. Sorts' /\ Hosted'
  BY PublishSorts, PublishHosted
<1>1. /\ actor[a].stage = "publish" /\ actor[a].gen # None /\ actor'[a].stage = "diagnose"
      /\ \A o \in Actors \ {a} : actor'[o] = actor[o]
  BY PublishActorFacts
<1> DEFINE g == actor[a].gen
           S == Replaced(a) \cup {actor[a].key}
           D == Draining(Served(S))
<1>2. g \in Gens /\ gen[g].state = "candidate"
  BY <1>1, CandidateFacts DEF Hosted
<1>3. gen' = [D EXCEPT ![g].state = "serving"] /\ UNCHANGED <<entry, close>>
  BY DEF Publish
<1>4. \A h \in Gens : /\ D[h].build = gen[h].build
                      /\ D[h].state # "closed" <=> gen[h].state # "closed"
  <2>1. S \subseteq Keys
    BY ReplacedFacts, PublishActorFacts
  <2> HIDE DEF S
  <2>2. \A h \in Gens : h \in Served(S) => gen[h].state = "serving"
    BY <2>1, ServedIs
  <2> DEFINE V == Served(S)
  <2> HIDE DEF V
  <2>3. \A h \in Gens : /\ Draining(V)[h].state = IF h \in V THEN "draining" ELSE gen[h].state
                        /\ Draining(V)[h].build = gen[h].build
    BY DrainingIs
  <2> QED
    BY <2>2, <2>3 DEF V
<1>5. D \in [Gens -> Generation]
  BY DrainingFacts DEF Sorts
<1>6. \A r \in Generation : LET d == [r EXCEPT !.state = "serving"] IN
        d.state = "serving" /\ d.build = r.build
  BY DEF Generation
<1> HIDE DEF D, g
<1>7. \A h \in Gens : gen'[h].build = gen[h].build
                      /\ (gen'[h].state # "closed" <=> gen[h].state # "closed")
  BY <1>2, <1>3, <1>4, <1>5, <1>6
<1>8. Cached'
  BY <1>1, <1>3, <1>7, NothingHeld DEF CacheClosed
<1> QED
  BY <1>0, <1>8 DEF Kept

LEMMA UnpublishHeld ==
  ASSUME Sorts, Hosted, NEW k \in Keys, Unpublish(k), NEW h \in Gens
  PROVE  gen'[h].build = gen[h].build /\ (gen'[h].state # "closed" <=> gen[h].state # "closed")
<1>1. CASE IsClosed
  BY <1>1 DEF Unpublish
<1>2. CASE ~IsClosed
  <2> DEFINE S == {k}
  <2>1. gen' = Draining(Served(S)) /\ S \subseteq Keys
    BY <1>2 DEF Unpublish
  <2> HIDE DEF S
  <2> QED
    BY <2>1, ServedIs, DrainingIs
<1> QED
  BY <1>1, <1>2

LEMMA DisableKept ==
  ASSUME Sorts, Hosted, Cached, NEW a \in Actors, Disable(a)
  PROVE  Kept
<1>1. Sorts'
  BY DisableSorts
<1>2. /\ actor[a].key \in Keys /\ actor[a].gen = None /\ actor[a].stage = "disable"
      /\ actor'[a].gen = None /\ actor'[a].stage = "diagnose"
      /\ \A b \in Actors \ {a} : actor'[b] = actor[b]
  BY DisableActor
<1>3. Unpublish(actor[a].key) /\ UNCHANGED <<order, entry, call, close>>
  BY DEF Disable
<1>4. Hosted'
  BY <1>1, <1>2, <1>3, UnpublishHosted
<1>5. Cached'
  BY <1>2, <1>3, UnpublishHeld, NothingHeld DEF CacheClosed
<1> QED
  BY <1>1, <1>4, <1>5 DEF Kept

LEMMA RemoveKept ==
  ASSUME Sorts, Hosted, Cached, NEW a \in Actors, Remove(a)
  PROVE  Kept
<1>1. Sorts'
  BY RemoveSorts
<1>2. /\ actor[a].key \in Keys /\ actor[a].gen = None /\ actor[a].stage = "remove"
      /\ actor'[a].gen = None /\ actor'[a].stage = "idle"
      /\ \A b \in Actors \ {a} : actor'[b] = actor[b]
  BY ActorIs, RestKept DEF Remove, Errand
<1>3. Unpublish(actor[a].key) /\ UNCHANGED <<order, entry, call, close>>
  BY DEF Remove
<1>4. Hosted'
  BY <1>1, <1>2, <1>3, UnpublishHosted
<1>5. Cached'
  BY <1>2, <1>3, UnpublishHeld, NothingHeld DEF CacheClosed
<1> QED
  BY <1>1, <1>4, <1>5 DEF Kept

LEMMA DiagnoseKept ==
  ASSUME Sorts, Hosted, Cached, NEW a \in Actors, Diagnose(a)
  PROVE  Kept
<1>1. actor[a].gen = None /\ actor[a].stage = "diagnose"
  BY ActorIs DEF Diagnose, Errand
<1>2. /\ actor'[a].gen = None /\ actor'[a].stage = "idle"
      /\ \A b \in Actors \ {a} : actor'[b] = actor[b]
  BY RestKept DEF Diagnose
<1> QED
  BY <1>1, <1>2, DiagnoseSorts, ErrandKept DEF Diagnose

LEMMA AdminKept ==
  ASSUME Sorts, Hosted, Cached, NEW a \in Actors,
         NeedsConfirmation(a) \/ CommitFails(a) \/ Commit(a)
  PROVE  Kept
<1>1. UNCHANGED <<tracked, resolver, entry, call, close>>
  BY DEF NeedsConfirmation, CommitFails, Commit
<1>2. /\ actor[a].stage = "commit"
      /\ actor'[a].gen = actor[a].gen /\ actor'[a].key = actor[a].key
      /\ actor'[a].stage \in {"discard", "remove", "publish", "disable"}
      /\ \A b \in Actors \ {a} : actor'[b] = actor[b]
  BY CommitActor
<1>3. Sorts'
  BY AdminSorts
<1> QED
  BY <1>1, <1>2, <1>3, ErrandKept

LEMMA RequestKept ==
  ASSUME Sorts, Hosted, Cached, NEW a \in Actors, NEW k \in Keys, NEW new \in Requests(k),
         Request(a, k, new)
  PROVE  Kept
<1>1. /\ actor[a].stage = "idle" /\ actor[a].gen = None
      /\ actor'[a].gen = None /\ actor'[a].stage \in {"prepare", "commit"}
      /\ \A b \in Actors \ {a} : actor'[b] = actor[b]
  BY RequestActor, IdleFacts
<1> QED
  BY <1>1, RequestSorts, ErrandKept DEF Request

LEMMA SyncKept ==
  ASSUME Sorts, Hosted, Cached, SyncSteps
  PROVE  Kept
<1>1. CASE List \/ NextPhase
  <2>1. UNCHANGED <<tracked, resolver, entry, call, close, actor>>
    BY <1>1 DEF List, NextPhase
  <2> QED
    BY <1>1, <2>1, ListSorts, ErrandKept
<1>2. ASSUME NEW k \in Keys, SyncVisits(k) PROVE Kept
  <2>1. UNCHANGED <<tracked, resolver, entry, call, close>>
    BY <1>2, VisitFacts
  <2>2. PICK x \in {"idle", "disable", "remove", "prepare", "diagnose"} :
          Visit(k, x) /\ (x = "prepare" => phase = "load")
    BY <1>2, VisitFacts
  <2>3. /\ Sync \in Actors /\ actor[Sync].stage = "idle"
        /\ actor'[Sync].gen = None /\ actor'[Sync].stage = x
        /\ \A b \in Actors \ {Sync} : actor'[b] = actor[b]
    BY <2>2, VisitActor
  <2>4. actor[Sync].gen = None
    BY <2>3, IdleFacts
  <2>5. Sorts'
    BY <1>2, VisitSorts
  <2> QED
    BY <2>1, <2>3, <2>4, <2>5, ErrandKept
<1> QED
  BY <1>1, <1>2 DEF SyncSteps, SyncVisits

LEMMA HostKept ==
  ASSUME Sorts, Hosted, Cached,
         \/ \E k \in Keys : RetryDue(k) \/ \E new \in Requests(k) : RemoteCommit(k, new)
         \/ \E c \in Callers : \E k \in Keys : Call(c, k)
         \/ BeginClose \/ UNCHANGED vars
  PROVE  Kept
<1>1. ASSUME NEW k \in Keys, RetryDue(k) PROVE Kept
  BY <1>1, RetryDueSorts, ErrandKept DEF RetryDue
<1>2. ASSUME NEW k \in Keys, NEW new \in Requests(k), RemoteCommit(k, new) PROVE Kept
  BY <1>2, RemoteCommitSorts, ErrandKept DEF RemoteCommit
<1>3. ASSUME NEW c \in Callers, NEW k \in Keys, Call(c, k) PROVE Kept
  <2>1. Sorts' /\ Hosted'
    BY <1>3, CallSorts, CallHosted
  <2>2. Cached'
    BY <1>3, NothingHeld DEF Call, tracked, CacheClosed
  <2> QED
    BY <2>1, <2>2 DEF Kept
<1>4. CASE BeginClose
  <2>1. Sorts' /\ Hosted'
    BY <1>4, EndSorts, EndHosted
  <2>2. Cached'
    BY <1>4, NothingHeld DEF BeginClose, tracked, CacheClosed
  <2> QED
    BY <2>1, <2>2 DEF Kept
<1>5. CASE UNCHANGED vars
  <2>1. Sorts'
    BY <1>5 DEF vars, database, tracked, resolver, syncing, Sorts, TypeOK, RowsReal, ActorsBusy
  <2> QED
    BY <1>5, <2>1, ErrandKept DEF vars
<1> QED
  BY <1>1, <1>2, <1>3, <1>4, <1>5

LEMMA DrainEndsKept ==
  ASSUME Sorts, Hosted, Cached, NEW g \in Gens, DrainEnds(g)
  PROVE  Kept
<1>1. Sorts'
  BY DrainEndsSorts DEF Hosted
<1>2. Hosted'
  BY <1>1, DrainEndsHosted
<1>3. gen[g].state = "draining" /\ gen[g].build \in Builds /\ Release(gen[g].build)
      /\ UNCHANGED <<actor, close>>
  BY DEF DrainEnds, Hosted, GensReal
<1>4. /\ gen'[g] = FreeGen \/ gen'[g].state = "closed"
      /\ \A h \in Gens \ {g} : gen'[h] = gen[h]
  <2>1. \A r \in Generation : [r EXCEPT !.state = "closed"].state = "closed"
    BY DEF Generation
  <2> QED
    BY <2>1 DEF DrainEnds, Sorts, TypeOK
<1>5. Cached'
  BY <1>1, <1>3, <1>4, GenFreed
<1> QED
  BY <1>1, <1>2, <1>5 DEF Kept

\* A call that returns frees a closed generation at most.
LEMMA CallEndsHeld ==
  ASSUME Sorts, Hosted, Cached, NEW c \in Callers, call[c].gen # None, gen' = AfterCall(c, gen),
         UNCHANGED <<entry, actor, close>>
  PROVE  Cached'
<1>1. call[c].gen \in Gens /\ gen \in [Gens -> Generation]
  BY DEF Sorts, TypeOK
<1>2. \A h \in Gens : gen'[h] = gen[h] \/ (gen[h].state = "closed" /\ gen'[h] = FreeGen)
  <2>1. /\ \A h \in Gens : h # call[c].gen => AfterCall(c, gen)[h] = gen[h]
        /\ \/ AfterCall(c, gen)[call[c].gen] = gen[call[c].gen]
           \/ /\ gen[call[c].gen].state = "closed" /\ CallsOn(call[c].gen) = {c}
              /\ AfterCall(c, gen)[call[c].gen] = FreeGen
    BY <1>1, AfterCallIs
  <2> QED
    BY <2>1
<1> QED
  BY <1>2, NothingHeld DEF CacheClosed

LEMMA CallerKept ==
  ASSUME Sorts, Hosted, Cached, NEW c \in Callers, Return(c) \/ SingletonTimeout(c) \/ Retire(c)
  PROVE  Kept
<1>1. CASE Return(c)
  <2>1. Sorts'
    BY <1>1, ReturnSorts
  <2>2. Hosted'
    BY <1>1, <2>1, CallEnds DEF Return
  <2>3. Cached'
    BY <1>1, CallEndsHeld DEF Return
  <2> QED
    BY <2>1, <2>2, <2>3 DEF Kept
<1>2. CASE SingletonTimeout(c)
  <2>1. Sorts'
    BY <1>2, SingletonTimeoutSorts
  <2>2. Hosted'
    BY <1>2, <2>1, SingletonTimeoutHosted
  <2>3. \A h \in Gens : gen'[h].build = gen[h].build /\ gen'[h].state = gen[h].state
    <3>1. gen' = [gen EXCEPT ![call[c].gen].broken = TRUE] /\ gen \in [Gens -> Generation]
      BY <1>2 DEF SingletonTimeout, Sorts, TypeOK
    <3>2. \A r \in Generation : LET d == [r EXCEPT !.broken = TRUE] IN
            d.state = r.state /\ d.build = r.build
      BY DEF Generation
    <3>3. call[c].gen \in Gens
      BY <1>2, CallFacts DEF SingletonTimeout, Hosted
    <3> DEFINE g == call[c].gen
    <3>4. gen' = [gen EXCEPT ![g] = [gen[g] EXCEPT !.broken = TRUE]]
      BY <3>1, <3>3
    <3> HIDE DEF g
    <3> QED
      BY <3>1, <3>2, <3>4
  <2>4. Cached'
    BY <1>2, <2>3, NothingHeld DEF SingletonTimeout, CacheClosed
  <2> QED
    BY <2>1, <2>2, <2>4 DEF Kept
<1>3. CASE Retire(c)
  <2>1. call[c].gen # None
    BY <1>3, RetiringFacts
  <2>2. Sorts'
    BY <1>3, <2>1, RetireSorts DEF Hosted
  <2>3. Hosted'
    BY <1>3, <2>2, RetireHosted
  <2>4. Cached'
    <3> DEFINE g == call[c].gen
               k == gen[g].key
    <3>1. CASE IsClosed \/ byKey[k] # g
      BY <1>3, <2>1, <3>1, CallEndsHeld DEF Retire
    <3>2. CASE ~(IsClosed \/ byKey[k] # g)
      <4>1. g \in Gens /\ k \in Keys /\ gen[g].state = "serving"
        BY <2>1, <3>2, CallFacts DEF Hosted, NoOrphanGeneration
      <4>2. gen' = AfterCall(c, Draining({g})) /\ UNCHANGED <<entry, actor, close>>
        BY <1>3, <3>2 DEF Retire
      <4>3. Draining({g})[g].state = "draining"
        BY <4>1, DrainingIs
      <4>4. gen' = Draining({g})
        BY <4>2, <4>3 DEF AfterCall
      <4>5. \A h \in Gens : gen'[h].build = gen[h].build
                            /\ (gen'[h].state # "closed" <=> gen[h].state # "closed")
        BY <4>1, <4>4, DrainingIs
      <4> QED
        BY <4>2, <4>5, NothingHeld DEF CacheClosed
    <3> QED
      BY <3>1, <3>2
  <2> QED
    BY <2>2, <2>3, <2>4 DEF Kept
<1> QED
  BY <1>1, <1>2, <1>3

LEMMA CloseKept ==
  ASSUME Sorts, Hosted, Cached, Close \/ FinishClose
  PROVE  Kept
<1>1. CASE Close
  <2>1. Sorts'
    BY <1>1, CloseSorts DEF Hosted
  <2>2. Hosted'
    BY <1>1, <2>1, CloseHosted
  <2>3. \A h \in Gens : gen'[h].build = gen[h].build
                        /\ (gen'[h].state # "closed" <=> gen[h].state # "closed")
    BY <1>1, ChainedFacts DEF Close, Hosted
  <2>4. Cached'
    BY <1>1, <2>3, NothingHeld DEF Close, CacheClosed
  <2> QED
    BY <2>1, <2>2, <2>4 DEF Kept
<1>2. CASE FinishClose
  <2>1. Sorts' /\ Hosted'
    BY <1>2, EndSorts, EndHosted
  <2>2. Cached'
    BY <1>2, CacheGone DEF FinishClose, CacheClosed
  <2> QED
    BY <2>1, <2>2 DEF Kept
<1> QED
  BY <1>1, <1>2

LEMMA StepKept ==
  ASSUME Sorts, Hosted, Cached, [Next]_vars
  PROVE  Kept
<1>1. ASSUME NEW a \in Admins, NEW k \in Keys, NEW new \in Requests(k), Request(a, k, new)
      PROVE Kept
  BY <1>1, RequestKept DEF Actors
<1>2. ASSUME NEW a \in Admins, AdminSteps(a) PROVE Kept
  BY <1>2, AdminKept, DiscardKept DEF Actors, AdminSteps
<1>3. ASSUME NEW a \in Actors, ActorSteps(a) PROVE Kept
  BY <1>3, AcquireKept, PreparedKept, PublishKept, PublishFailsKept, DisableKept, RemoveKept,
     DiagnoseKept DEF ActorSteps
<1>4. ASSUME NEW a \in Actors, PrepareFails(a) PROVE Kept
  BY <1>4, PrepareFailsKept
<1>5. CASE SyncSteps
  BY <1>5, SyncKept
<1>6. ASSUME NEW b \in Builds, NEW ok \in BOOLEAN, CompleteCompile(b, ok) PROVE Kept
  BY <1>6, CompleteCompileKept
<1>7. ASSUME NEW g \in Gens, DrainEnds(g) PROVE Kept
  BY <1>7, DrainEndsKept
<1>8. ASSUME NEW c \in Callers, Return(c) \/ SingletonTimeout(c) \/ Retire(c) PROVE Kept
  BY <1>8, CallerKept
<1>9. CASE Close \/ FinishClose
  BY <1>9, CloseKept
<1>10. CASE \/ \E k \in Keys : RetryDue(k) \/ \E new \in Requests(k) : RemoteCommit(k, new)
            \/ \E c \in Callers : \E k \in Keys : Call(c, k)
            \/ BeginClose \/ UNCHANGED vars
  BY <1>10, HostKept
<1> QED
  BY <1>1, <1>2, <1>3, <1>4, <1>5, <1>6, <1>7, <1>8, <1>9, <1>10 DEF Next

LEMMA InitInv == Init => Inv
<1> SUFFICES ASSUME Init PROVE Inv
  OBVIOUS
<1>0. \A k \in Keys : row[k] \in Row /\ Real(row[k])
  BY NoRowFacts, HostAssumption DEF HostAssumption, Init, Real
<1>1. Sorts
  <2>1. gen \in [Gens -> Generation]
    BY FreeGenFacts DEF Init
  <2>2. actor \in [Actors -> Actor] /\ ActorsBusy
    BY RestingFacts DEF Init, ActorsBusy
  <2>3. row \in [Keys -> Row] /\ list \in [Keys -> Row]
    BY <1>0, NoRowFacts DEF Init
  <2>4. order \in Seq(Gens)
    BY EmptySeq DEF Init
  <2>5. changes \in 0 .. MaxChanges /\ faults \in 0 .. MaxFaults
    BY HostAssumption DEF HostAssumption, Init
  <2>6. entry \in [Builds -> [state : {"none", "compiling", "cancelled", "ready"}, references : Nat]]
        /\ diag \in [Keys -> [state : {"none", "enabled", "disabled", "error"}, revision : Nat]]
        /\ call \in [Callers -> [gen : Gens \cup {None}, broken : BOOLEAN, cut : BOOLEAN]]
    BY DEF Init, NoEntry, NoDiagnostic, NoCall
  <2>7. TypeOK
    BY <2>1, <2>2, <2>3, <2>4, <2>5, <2>6 DEF Init, TypeOK
  <2>8. RowsReal
    BY <1>0, NoRowFacts DEF Init, RowsReal
  <2> QED
    BY <2>2, <2>7, <2>8 DEF Sorts
<1>2. Hosted
  <2>1. \A a \in Actors : actor[a].gen = None
    BY RestingFacts DEF Init
  <2>2. \A g \in Gens : gen[g] = FreeGen /\ gen[g].state = "free"
    BY DEF Init, FreeGen
  <2>3. CallsHold
    BY DEF Init, CallsHold, NoCall
  <2> QED
    BY <2>1, <2>2, <2>3 DEF Init, Hosted, CandidatesOwned, GensReal, LiveAreTracked, Live,
       NoOrphanGeneration, ClosedServesNothing, IsClosed, CacheClosed
<1>3. Cached
  <2>1. ASSUME NEW b \in Builds
        PROVE  GenHolders(b) = {} /\ Waiting(b) = {} /\ Compiled(b) = {}
    <3>1. FreeGen.build # b
      BY HostAssumption DEF FreeGen, HostAssumption
    <3> QED
      BY <3>1, RestingFacts DEF Init, GenHolders, Waiting, Compiled
  <2>2. \A b \in Builds : entry[b] = NoEntry /\ entry[b].references = 0 /\ entry[b].state = "none"
    BY DEF Init, NoEntry
  <2>3. ReferencesBalance
    BY <2>1, <2>2, HoldersFacts DEF ReferencesBalance
  <2>4. EntriesServe
    BY <2>1, <2>2 DEF EntriesServe
  <2> QED
    BY <2>3, <2>4 DEF Cached
<1> QED
  BY <1>1, <1>2, <1>3, InvIs

LEMMA StepInv == Inv /\ [Next]_vars => Inv'
<1> SUFFICES ASSUME Inv, [Next]_vars PROVE Inv'
  OBVIOUS
<1>1. Kept
  BY InvIs, StepKept
<1> QED
  BY <1>1 DEF Kept, Inv, Sorts, Hosted, Cached

\* A call that was not cut holds a live generation, which keeps its
\* compilation open; once the cache is closed none is live.
LEMMA LiveCode == Inv => CallsRunOnLiveCode
<1> SUFFICES ASSUME Inv, NEW c \in Callers, call[c].gen # None, ~call[c].cut
             PROVE  /\ gen[call[c].gen].state \in {"serving", "draining"}
                    /\ entry[gen[call[c].gen].build].state = "ready"
  BY DEF CallsRunOnLiveCode
<1> DEFINE g == call[c].gen
<1>1. g \in Gens /\ gen[g].build \in Builds /\ gen[g].key \in Keys
  BY InvIs, CallFacts DEF Hosted
<1>2. gen[g].state \in {"serving", "draining"}
  BY DEF Inv, CallsHold, Live
<1>3. ~CacheClosed
  <2>1. CacheClosed => gen[g].state = "serving" /\ byKey[gen[g].key] = None
    BY <1>1, <1>2 DEF Inv, ClosedServesNothing, CacheClosed, IsClosed
  <2>2. gen[g].state = "serving" => byKey[gen[g].key] = g
    BY <1>1 DEF Inv, NoOrphanGeneration
  <2> QED
    BY <2>1, <2>2
<1>4. g \in GenHolders(gen[g].build)
  BY <1>1, <1>2 DEF GenHolders
<1>5. entry[gen[g].build].state = "ready"
  BY <1>1, <1>3, <1>4 DEF Inv, EntriesServe
<1> QED
  BY <1>2, <1>5

-----------------------------------------------------------------------------
(* The theorems.                                                           *)

LEMMA Invariance == Spec => []Inv
  BY InitInv, StepInv, PTL DEF Spec

\* Whatever overlaps, every variable of the manager, the resolver, the cache
\* and their callers keeps its type: no step publishes, drains or releases
\* a generation that is not there.
THEOREM TypeCorrect == Spec => []TypeOK
<1>1. Inv => TypeOK
  BY DEF Inv
<1> QED
  BY <1>1, Invariance, PTL

\* manager.go, generation.go: a call never runs on a generation that was
\* freed or on code that the cache has closed, unless its drain has cut it.
THEOREM CallsAreLive == Spec => []CallsRunOnLiveCode
  BY LiveCode, Invariance, PTL

\* cache.go: acquire and release balance on every path.
THEOREM NothingLeaks == Spec => []ReferencesBalance
<1>1. Inv => ReferencesBalance
  BY DEF Inv
<1> QED
  BY <1>1, Invariance, PTL

\* resolver.go, manager.go: every generation is served, drained, or somebody's
\* candidate, and the hook leads to a served plugin.
THEOREM NoneOrphaned == Spec => []NoOrphanGeneration
<1>1. Inv => NoOrphanGeneration
  BY DEF Inv
<1> QED
  BY <1>1, Invariance, PTL

===============================================================================
