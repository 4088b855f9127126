------------------------------ MODULE Requests ------------------------------
(***************************************************************************)
(* Requests against one entity and its recycle bin.  A request is bound    *)
(* and planned (RequestBinding, CrudPlan), then runs in a transaction of   *)
(* cool-next/db/tx: hooks, statements, commit or rollback, answer.  Every  *)
(* statement is a step, because requests of other goroutines, the cleanup  *)
(* job and failures come between them.                                     *)
(*                                                                         *)
(* The database is external.  MySQL and PostgreSQL lock the rows a         *)
(* statement writes or reads FOR UPDATE; SQLite has one writer, takes no   *)
(* row locks and refuses to write from a snapshot another commit has made  *)
(* stale.                                                                  *)
(***************************************************************************)
EXTENDS RequestBinding

CONSTANTS
  Goroutines,      \* request handlers of the HTTP server
  Ids,             \* primary keys of the entity's table
  Records,         \* keys of the recycle table
  Entity,          \* the entity of the controllers
  Options,         \* controller -> its CurdOption
  Inputs,          \* the requests clients send
  FoundRows,       \* the rows found at start
  FoundRecords,    \* the recycle records found at start, when the bin is on
  NextKeys,        \* the keys the two tables give out next, found at start
  Settings,        \* the deployments: dialect, and whether deletes go to the recycle bin
  Values,          \* what a column can hold
  None,            \* no row, no record
  MaxRestoreCount, \* maxRestoreCount of the recycle service
  Server, Clock,   \* what the application's code and the database write
  MaxRequests,     \* bound on the requests
  MaxFaults        \* bound on failing statements, hooks and commits

Row == {row \in [Fields(Entity) -> Values] : row.id \in Ids}
Record == [rows: SUBSET Row, expired: BOOLEAN]

\* What no client may write: system fields, and what every controller of the
\* entity declares readonly or hidden.  The database assigns the key.
Protected ==
  {f \in Fields(Entity) \ {"id"} :
     \/ Descriptor[Entity][f].system
     \/ \A o \in DOMAIN Options : f \in Names(Options[o].hidden) \cup Names(Options[o].readonly)}

OfApplication(row) == \A f \in Protected : row[f] \in {Null, Server, Clock}

ASSUME RequestsAssumption ==
  /\ Ids \subseteq Nat \ {0} /\ Records \subseteq Nat \ {0}
  /\ MaxRequests \in Nat /\ MaxFaults \in Nat /\ MaxRestoreCount \in Nat
  /\ Settings \subseteq [dialect: {"mysql", "sqlite"}, softDelete: BOOLEAN]

\* The controllers are of one entity, and its key is the field "id".
ASSUME EntityAssumption ==
  /\ Entity \in DOMAIN Descriptor /\ "id" \in Fields(Entity)
  /\ \A f \in Fields(Entity) : Descriptor[Entity][f].primary <=> f = "id"
  /\ \A o \in DOMAIN Options : Options[o].entity = Entity
  /\ {Null, Server, Clock} \cup Ids \subseteq Values /\ None \notin Row \cup Record

ASSUME InputsAssumption ==
  \A input \in Inputs :
    /\ input.option \in DOMAIN Options
    /\ input.action \in {"add", "update"} =>
         /\ input.body.items \in Seq(ToSet(input.body.items))
         /\ \A item \in ToSet(input.body.items) : \A f \in DOMAIN item : item[f] \in Values

\* The database at start: rows under their keys, none both in the table and
\* in a record or in two records, all older than the keys given out next.
ASSUME FoundAssumption ==
  /\ DOMAIN FoundRows \subseteq Ids /\ DOMAIN FoundRecords \subseteq Records
  /\ NextKeys.id \in Nat /\ NextKeys.record \in Nat
  /\ \A id \in DOMAIN FoundRows :
       FoundRows[id] \in Row /\ FoundRows[id].id = id /\ OfApplication(FoundRows[id]) /\ id < NextKeys.id
  /\ \A n \in DOMAIN FoundRecords :
       /\ FoundRecords[n] \in Record /\ FoundRecords[n].rows # {} /\ n < NextKeys.record
       /\ \A row \in FoundRecords[n].rows :
            /\ row.id \notin DOMAIN FoundRows /\ OfApplication(row) /\ row.id < NextKeys.id
            /\ \A m \in DOMAIN FoundRecords : \A other \in FoundRecords[m].rows :
                 other.id = row.id => m = n /\ other = row

VARIABLES
  rows,            \* the committed rows of the entity's table
  bin,             \* the committed recycle records
  nextId, nextRecord,
  settings,        \* the dialect and crud.Config.SoftDelete
  reqs,            \* goroutine -> the request it handles
  spent,           \* requests and faults so far
  latest,          \* history: what was last written to each row
  purged           \* history: the rows whose deletion is final

requestVars == << rows, bin, nextId, nextRecord, settings, reqs, spent, latest, purged >>

Idle == [pc |-> "idle", action |-> "", option |-> "", work |-> <<>>, query |-> <<>>, at |-> 1,
         rows |-> <<>>, bin |-> <<>>, held |-> {}, snapshot |-> "none", archive |-> {},
         failure |-> "ok", broken |-> FALSE, committed |-> FALSE, answer |-> "", result |-> <<>>]

RequestsInit ==
  /\ rows = [id \in Ids |-> IF id \in DOMAIN FoundRows THEN FoundRows[id] ELSE None]
  /\ settings \in Settings
  /\ bin = [n \in Records |-> IF settings.softDelete /\ n \in DOMAIN FoundRecords THEN FoundRecords[n] ELSE None]
  /\ reqs = [g \in Goroutines |-> Idle]
  /\ spent = [requests |-> 0, faults |-> 0]
  /\ latest = [id \in Ids |-> LET archived == UNION {bin[n].rows : n \in {m \in Records : bin[m] # None}}
                              IN  IF \E row \in archived : row.id = id THEN CHOOSE row \in archived : row.id = id
                                  ELSE rows[id]]
  /\ nextId = NextKeys.id /\ nextRecord = NextKeys.record
  /\ purged = {}

(***************************************************************************)
(* Transactions                                                            *)
(***************************************************************************)
RowKey(id) == << "row", id >>
BinKey(n) == << "bin", n >>
Keys(keys) == IF settings.dialect = "sqlite" THEN {<< "writer", 0 >>} ELSE keys

\* What the transaction of g sees: its own writes over the committed state.
RowSeen(g, id) == IF id \in DOMAIN reqs[g].rows THEN reqs[g].rows[id] ELSE IF id \in Ids THEN rows[id] ELSE None
RecordSeen(g, n) == IF n \in DOMAIN reqs[g].bin THEN reqs[g].bin[n] ELSE IF n \in Records THEN bin[n] ELSE None

Free(g, keys) == \A h \in Goroutines \ {g} : reqs[h].held \cap keys = {}
MayWrite(g) == ~(settings.dialect = "sqlite" /\ reqs[g].snapshot = "stale")

Present(g, ids) == {id \in ids : RowSeen(g, id) # None}

\* What a restore has still to insert, and the row it inserts next.
Left(r) == {row \in r.archive : row.id \notin DOMAIN r.rows}
FirstLeft(r) == {row \in Left(r) : \A other \in Left(r) : row.id <= other.id}

\* The keys the next statement of g locks.
Wants(g) ==
  LET r == reqs[g] IN
  CASE r.pc = "update" -> Keys({RowKey(id) : id \in Present(g, {r.work[r.at].id})})
    [] r.pc = "nested" -> Keys({RowKey(id) : id \in Present(g, {r.work})})
    [] r.pc = "archive" -> IF settings.dialect = "sqlite" THEN {} ELSE {RowKey(id) : id \in Present(g, r.work)}
    [] r.pc = "erase" -> Keys({RowKey(id) : id \in Present(g, r.work)})
    [] r.pc = "lock" -> IF settings.dialect = "sqlite" THEN {} ELSE {BinKey(r.work[r.at])}
    [] r.pc = "add" -> Keys({RowKey(nextId)})
    [] r.pc = "record" -> Keys({BinKey(nextRecord)})
    [] r.pc = "revive" -> Keys({RowKey(row.id) : row \in FirstLeft(r)})
    [] r.pc = "drop" -> Keys({BinKey(r.work[r.at])})
    [] OTHER -> {}

Ready(g, pc) == reqs[g].pc = pc /\ Free(g, Wants(g))
Lock(r, keys) == [r EXCEPT !.held = @ \cup keys]
Move(r, pc) == [r EXCEPT !.pc = pc]
SetReq(g, r) == reqs' = [reqs EXCEPT ![g] = r]

\* An error leaves the callback: the scope records it, then rolls back.
Abort(r, class) == [r EXCEPT !.pc = "rollback", !.failure = IF @ = "ok" THEN class ELSE @, !.broken = TRUE]

Fault == /\ spent.faults < MaxFaults
         /\ spent' = [spent EXCEPT !.faults = @ + 1]

Answer(r, class) ==
  [Idle EXCEPT !.pc = "answered", !.action = r.action, !.option = r.option, !.broken = r.broken,
               !.committed = r.committed, !.answer = class, !.result = IF class = "ok" THEN r.result ELSE <<>>]

(***************************************************************************)
(* Receiving a request: authentication, the Before callback, binding, the  *)
(* parameters a controller inserts, and the plan.  Everything here is      *)
(* local to the request.                                                   *)
(***************************************************************************)
Injected(option, work) ==
  IF option.inject = "" THEN work ELSE [i \in DOMAIN work |-> Set(work[i], option.inject, Server)]

\* normalizeRestoreIDs, and the body of a custom route.
NormalizeRestoreIDs(ids) ==
  IF ids # <<>> /\ Len(ids) <= MaxRestoreCount /\ \A i \in DOMAIN ids : ids[i] > 0
  THEN Accepted(FoldLeft(LAMBDA seen, id : IF id \in ToSet(seen) THEN seen ELSE Append(seen, id), <<>>, ids))
  ELSE Failed("validate")

Prepare(input) ==
  LET option == Options[input.option]
      custom == IF input.action # "restore" THEN Accepted(input.body.ids[1])
                ELSE IF ~settings.softDelete THEN Failed("comm")
                ELSE NormalizeRestoreIDs(input.body.ids)
      bound == Bind(input.action, Entity, input.body)
      plan == CompilePlan(input.action, option, input.body.query)
  IN  IF input.access # "granted" THEN Failed("comm")
      ELSE IF input.action \in {"route", "restore"} THEN Override(custom, [query |-> <<>>])
      ELSE IF bound.err # "ok" THEN bound
      ELSE IF plan.err # "ok" THEN plan
      ELSE [err |-> "ok", query |-> plan.query,
            input |-> IF input.action = "add" THEN Injected(option, bound.input) ELSE bound.input]

Receive(g, input) ==
  /\ reqs[g].pc = "idle" /\ spent.requests < MaxRequests
  /\ spent' = [spent EXCEPT !.requests = @ + 1]
  /\ \E ready \in {Prepare(input)} :
       LET r == [Idle EXCEPT !.action = input.action, !.option = input.option] IN
       SetReq(g, IF ready.err = "ok" THEN [Move(r, "begin") EXCEPT !.work = ready.input, !.query = ready.query]
                 ELSE Answer(Idle, ready.err))
  /\ UNCHANGED << rows, bin, nextId, nextRecord, settings, latest, purged >>

(***************************************************************************)
(* Within and the dispatcher                                               *)
(***************************************************************************)
FirstStep(action) ==
  CASE action \in {"add", "update", "delete"} -> "before"
    [] action = "route" -> "nested"
    [] action = "restore" -> "lock"
    [] OTHER -> "query"

Begin(g) ==
  /\ reqs[g].pc = "begin"
  /\ SetReq(g, Move(reqs[g], FirstStep(reqs[g].action)))
  /\ UNCHANGED << rows, bin, nextId, nextRecord, settings, spent, latest, purged >>

\* The database does not answer: no transaction, nothing to roll back.
BeginFails(g) ==
  /\ reqs[g].pc = "begin" /\ Fault
  /\ SetReq(g, Answer([reqs[g] EXCEPT !.broken = TRUE], IF reqs[g].action = "restore" THEN "core" ELSE "unknown"))
  /\ UNCHANGED << rows, bin, nextId, nextRecord, settings, latest, purged >>

\* The hook before the write may change the input, for every row alike.
ModifyBefore(g) ==
  LET r == reqs[g]
      option == Options[r.option]
      set(mutable) == IF option.hook = "set" THEN Set(mutable, "name", Server)
                      ELSE IF option.hook = "unset" THEN Unset(mutable, "name") ELSE mutable
      changed == CASE r.action = "add" -> [i \in DOMAIN r.work |-> set(r.work[i])]
                   [] r.action = "update" -> [i \in DOMAIN r.work |-> [id |-> r.work[i].id, mutable |-> set(r.work[i].mutable)]]
                   [] OTHER -> r.work
      write == IF r.action # "delete" THEN r.action ELSE IF settings.softDelete THEN "archive" ELSE "erase"
  IN  /\ r.pc = "before"
      /\ SetReq(g, [Move(r, write) EXCEPT !.work = changed])
      /\ UNCHANGED << rows, bin, nextId, nextRecord, settings, spent, latest, purged >>

ModifyAfter(g) ==
  /\ reqs[g].pc = "after"
  /\ SetReq(g, Move(reqs[g], "commit"))
  /\ UNCHANGED << rows, bin, nextId, nextRecord, settings, spent, latest, purged >>

\* A hook returns an error, or panics: the scope is marked and rolled back.
HookFails(g, class) ==
  /\ reqs[g].pc \in {"before", "after"} /\ class \in {"comm", "panic"} /\ Fault
  /\ SetReq(g, Abort(reqs[g], class))
  /\ UNCHANGED << rows, bin, nextId, nextRecord, settings, latest, purged >>

(***************************************************************************)
(* The statements of Base and of the recycle store                         *)
(***************************************************************************)
Advance(r, pc) == IF r.at < Len(r.work) THEN [r EXCEPT !.at = @ + 1] ELSE [r EXCEPT !.pc = pc, !.at = 1]

NewRow(id, data) ==
  [f \in Fields(Entity) |-> IF Descriptor[Entity][f].primary THEN id
                            ELSE IF Descriptor[Entity][f].system THEN Clock
                            ELSE IF f \in DOMAIN data THEN data[f] ELSE Null]

Insertable(row) == \A f \in DOMAIN row : row[f] = Null => Descriptor[Entity][f].nullable

Add(g) ==
  LET r == reqs[g] IN
  /\ Ready(g, "add") /\ nextId \in Ids
  /\ \E data \in {MutableData(Options[r.option], r.work[r.at])} :
       IF data.err # "ok" THEN SetReq(g, Abort(r, data.err)) /\ UNCHANGED nextId
       ELSE IF ~MayWrite(g) \/ ~Insertable(NewRow(nextId, data.input))
       THEN SetReq(g, Abort(r, "core")) /\ UNCHANGED nextId
       ELSE /\ SetReq(g, [Lock(Advance(r, "after"), Wants(g))
                            EXCEPT !.rows = Put(@, nextId, NewRow(nextId, data.input))])
            /\ nextId' = nextId + 1
  /\ UNCHANGED << rows, bin, nextRecord, settings, spent, latest, purged >>

\* An update of a row that is gone writes nothing and succeeds.
Update(g) ==
  LET r == reqs[g]
      id == r.work[r.at].id
  IN  /\ Ready(g, "update")
      /\ \E data \in {MutableData(Options[r.option], r.work[r.at].mutable)} :
           SetReq(g,
             IF data.err # "ok" THEN Abort(r, data.err)
             ELSE IF DOMAIN data.input = {} THEN Abort(r, "validate")
             ELSE IF ~MayWrite(g) THEN Abort(r, "core")
             ELSE IF RowSeen(g, id) = None THEN Advance(r, "after")
             ELSE [Lock(Advance(r, "after"), Wants(g))
                     EXCEPT !.rows = Put(@, id, Override(data.input, RowSeen(g, id)))])
      /\ UNCHANGED << rows, bin, nextId, nextRecord, settings, spent, latest, purged >>

\* Mutant of ArchiveRead: the rows are read without FOR UPDATE.
UnlockedArchiveRead(g) ==
  LET r == reqs[g] IN
  /\ r.pc = "archive"
  /\ SetReq(g, IF Present(g, r.work) = {} THEN Move(r, "after")
               ELSE [Move(r, "record") EXCEPT !.archive = {RowSeen(g, id) : id \in Present(g, r.work)},
                                              !.work = Present(g, r.work)])
  /\ UNCHANGED << rows, bin, nextId, nextRecord, settings, spent, latest, purged >>

\* archiveDelete: lock and read what is there; nothing there, nothing to do.
ArchiveRead(g) ==
  LET r == reqs[g] IN
  /\ Ready(g, "archive")
  /\ SetReq(g, IF Present(g, r.work) = {} THEN Move(r, "after")
               ELSE [Lock(Move(r, "record"), Wants(g))
                       EXCEPT !.archive = {RowSeen(g, id) : id \in Present(g, r.work)},
                              !.work = Present(g, r.work),
                              !.snapshot = "fresh"])
  /\ UNCHANGED << rows, bin, nextId, nextRecord, settings, spent, latest, purged >>

InsertRecord(g) ==
  LET r == reqs[g] IN
  /\ Ready(g, "record") /\ nextRecord \in Records
  /\ IF ~MayWrite(g) THEN SetReq(g, Abort(r, "core")) /\ UNCHANGED nextRecord
     ELSE /\ SetReq(g, [Lock(Move(r, "erase"), Wants(g))
                          EXCEPT !.bin = Put(@, nextRecord, [rows |-> r.archive, expired |-> FALSE])])
          /\ nextRecord' = nextRecord + 1
  /\ UNCHANGED << rows, bin, nextId, settings, spent, latest, purged >>

\* deleteRows: after an archive every archived row must have been deleted.
DeleteRows(g) ==
  LET r == reqs[g] IN
  /\ Ready(g, "erase")
  /\ SetReq(g, IF ~MayWrite(g) \/ (settings.softDelete /\ Present(g, r.work) # r.work) THEN Abort(r, "core")
               ELSE [Lock(Move(r, "after"), Wants(g))
                       EXCEPT !.rows = Override([id \in Present(g, r.work) |-> None], @)])
  /\ UNCHANGED << rows, bin, nextId, nextRecord, settings, spent, latest, purged >>

\* A statement fails; the transaction is over.
StatementFails(g) ==
  /\ reqs[g].pc \in {"add", "update", "archive", "record", "erase", "query", "lock", "revive", "drop"} /\ Fault
  /\ SetReq(g, Abort(reqs[g], "core"))
  /\ UNCHANGED << rows, bin, nextId, nextRecord, settings, latest, purged >>

\* Two transactions wait for each other: the database ends one of them.
LockConflict(g) ==
  /\ \E h \in Goroutines \ {g} : Wants(g) \cap reqs[h].held # {} /\ Wants(h) \cap reqs[g].held # {}
  /\ SetReq(g, Abort(reqs[g], "core"))
  /\ UNCHANGED << rows, bin, nextId, nextRecord, settings, spent, latest, purged >>

(***************************************************************************)
(* A transactional route whose service opens a scope of its own: Within    *)
(* finds the outer scope and runs in it.  If the inner callback fails, the *)
(* handler may hide the error from its caller, not from the scope.         *)
(***************************************************************************)
\* Mutant of NestedFailure: the inner scope returns its error and records nothing.
ForgottenFailure(failure, class) == failure

NestedFailure(failure, class) == IF failure = "ok" THEN class ELSE failure

Nested(g) ==
  LET r == reqs[g]
      wrote == IF Present(g, {r.work}) = {} THEN r
               ELSE [Lock(r, Wants(g)) EXCEPT !.rows = Put(@, r.work, [RowSeen(g, r.work) EXCEPT !.name = Server])]
      hidden == [wrote EXCEPT !.pc = "commit", !.broken = TRUE, !.failure = NestedFailure(@, "comm")]
  IN  /\ Ready(g, "nested")
      /\ \/ /\ SetReq(g, IF MayWrite(g) THEN Move(wrote, "commit") ELSE Abort(r, "core"))
            /\ UNCHANGED spent
         \/ /\ Fault
            /\ SetReq(g, hidden) \/ SetReq(g, Abort(hidden, "comm"))
      /\ UNCHANGED << rows, bin, nextId, nextRecord, settings, latest, purged >>

(***************************************************************************)
(* Queries read once, in the snapshot of their transaction                 *)
(***************************************************************************)
Query(g) ==
  LET r == reqs[g]
      stored == {RowSeen(g, id) : id \in Present(g, Ids)}
      wanted == IF r.action = "info" THEN {row \in stored : row[PrimaryOf(Entity)] = r.work} ELSE stored
      window == IF r.action = "info" THEN [page |-> 1, size |-> 1] ELSE r.work
  IN  /\ r.pc = "query"
      /\ \E page \in {RenderPage(ApplyQuery(r.query, wanted), window.page, window.size)} :
           SetReq(g, [Move(r, "commit") EXCEPT
                        !.result = [rows |-> [i \in DOMAIN page.rows |-> page.rows[i][RootAlias].id], total |-> page.total,
                                    columns |-> {s.column : s \in ToSet(r.query.selects)}]])
      /\ UNCHANGED << rows, bin, nextId, nextRecord, settings, spent, latest, purged >>

(***************************************************************************)
(* Restore: one transaction for each record, in the order of the request   *)
(***************************************************************************)
LockRecord(g) ==
  LET r == reqs[g]
      found == RecordSeen(g, r.work[r.at])
  IN  /\ Ready(g, "lock")
      /\ SetReq(g, IF found = None THEN [Move(r, "rollback") EXCEPT !.failure = "missing"]
                   ELSE [Lock(Move(r, "revive"), Wants(g)) EXCEPT !.archive = found.rows, !.snapshot = "fresh"])
      /\ UNCHANGED << rows, bin, nextId, nextRecord, settings, spent, latest, purged >>

\* insertSnapshot: the rows return one by one, with their old keys.
InsertSnapshot(g) ==
  LET r == reqs[g] IN
  /\ Ready(g, "revive")
  /\ \E row \in FirstLeft(r) :
       SetReq(g, IF ~MayWrite(g) \/ Present(g, {row.id}) # {} THEN Abort(r, "core")
                 ELSE [Lock(IF Left(r) = {row} THEN Move(r, "drop") ELSE r, Wants(g))
                         EXCEPT !.rows = Put(@, row.id, row)])
  /\ UNCHANGED << rows, bin, nextId, nextRecord, settings, spent, latest, purged >>

DropRecord(g) ==
  LET r == reqs[g]
      n == r.work[r.at]
  IN  /\ Ready(g, "drop")
      /\ SetReq(g, IF ~MayWrite(g) \/ RecordSeen(g, n) = None THEN Abort(r, "core")
                   ELSE [Lock(Move(r, "commit"), Wants(g)) EXCEPT !.bin = Put(@, n, None)])
      /\ UNCHANGED << rows, bin, nextId, nextRecord, settings, spent, latest, purged >>

(***************************************************************************)
(* The end of the scope                                                    *)
(***************************************************************************)
Closed(r) == [r EXCEPT !.rows = <<>>, !.bin = <<>>, !.held = {}, !.snapshot = "none", !.archive = {}]

\* After one record of a restore comes the next one; everything else answers.
Returned(r, class) ==
  IF r.action = "restore" /\ class \in {"ok", "missing"}
  THEN IF r.at < Len(r.work) THEN [Move(Closed(r), "begin") EXCEPT !.at = @ + 1, !.failure = "ok"]
       ELSE Answer(r, "ok")
  ELSE Answer(r, IF r.action = "restore" THEN "core" ELSE class)

Rollback(g) ==
  LET r == reqs[g] IN
  /\ r.pc = "rollback" \/ (r.pc = "commit" /\ r.failure # "ok")
  /\ SetReq(g, Returned(r, r.failure))
  /\ UNCHANGED << rows, bin, nextId, nextRecord, settings, spent, latest, purged >>

\* What a commit of g changes; open SQLite snapshots become stale.
Apply(g, after) ==
  LET r == reqs[g]
      wrote == DOMAIN r.rows # {} \/ DOMAIN r.bin # {}
      kept == {id \in DOMAIN r.rows : r.rows[id] # None}
      deleted == {id \in DOMAIN r.rows : r.rows[id] = None}
  IN  /\ rows' = Override(r.rows, rows)
      /\ bin' = Override(r.bin, bin)
      /\ latest' = IF r.action = "restore" THEN latest ELSE Override([id \in kept |-> r.rows[id]], latest)
      /\ purged' = IF settings.softDelete THEN purged ELSE purged \cup deleted
      /\ reqs' = [h \in Goroutines |->
                    IF h = g THEN after
                    ELSE IF wrote /\ reqs[h].snapshot = "fresh" THEN [reqs[h] EXCEPT !.snapshot = "stale"] ELSE reqs[h]]

Commit(g) ==
  /\ reqs[g].pc = "commit" /\ reqs[g].failure = "ok"
  /\ Apply(g, Returned([reqs[g] EXCEPT !.committed = TRUE], "ok"))
  /\ UNCHANGED << nextId, nextRecord, settings, spent >>

\* The commit fails, or succeeds and the connection is lost before its reply.
CommitFails(g) ==
  /\ reqs[g].pc = "commit" /\ reqs[g].failure = "ok" /\ Fault
  /\ \/ SetReq(g, Returned([reqs[g] EXCEPT !.broken = TRUE], "unknown"))
        /\ UNCHANGED << rows, bin, latest, purged >>
     \/ Apply(g, Returned([reqs[g] EXCEPT !.committed = TRUE], "unknown"))
  /\ UNCHANGED << nextId, nextRecord, settings >>

\* The answer is written and the goroutine serves the next request.
Finish(g) ==
  /\ reqs[g].pc = "answered"
  /\ SetReq(g, Idle)
  /\ UNCHANGED << rows, bin, nextId, nextRecord, settings, spent, latest, purged >>

(***************************************************************************)
(* The cleanup job of the recycle module                                   *)
(***************************************************************************)
Age(n) ==
  /\ bin[n] # None /\ ~bin[n].expired
  /\ bin' = [bin EXCEPT ![n].expired = TRUE]
  /\ UNCHANGED << rows, nextId, nextRecord, settings, reqs, spent, latest, purged >>

ClearExpired ==
  LET expired == {n \in Records : bin[n] # None /\ bin[n].expired}
      gone == UNION {bin[n].rows : n \in {m \in Records : m \in expired}}
  IN  /\ settings.softDelete /\ expired # {}
      /\ \A g \in Goroutines : reqs[g].held \cap Keys({BinKey(n) : n \in expired}) = {}
      /\ bin' = [n \in Records |-> IF n \in expired THEN None ELSE bin[n]]
      /\ purged' = purged \cup {row.id : row \in gone}
      /\ reqs' = [g \in Goroutines |-> IF reqs[g].snapshot = "fresh" THEN [reqs[g] EXCEPT !.snapshot = "stale"]
                                       ELSE reqs[g]]
      /\ UNCHANGED << rows, nextId, nextRecord, settings, spent, latest >>

\* The process is killed: the database rolls back what was not committed.
Interrupted ==
  /\ \E g \in Goroutines : reqs[g].pc # "idle"
  /\ Fault
  /\ reqs' = [g \in Goroutines |-> Idle]
  /\ UNCHANGED << rows, bin, nextId, nextRecord, settings, latest, purged >>

\* Every request of the bounded instance was answered and every record has aged.
Served ==
  /\ spent.requests = MaxRequests /\ \A g \in Goroutines : reqs[g].pc = "idle"
  /\ UNCHANGED requestVars

Handle(g) ==
  \/ Begin(g) \/ BeginFails(g) \/ ModifyBefore(g) \/ ModifyAfter(g)
  \/ \E class \in {"comm", "panic"} : HookFails(g, class)
  \/ Add(g) \/ Update(g) \/ ArchiveRead(g) \/ InsertRecord(g) \/ DeleteRows(g)
  \/ StatementFails(g) \/ LockConflict(g) \/ Nested(g) \/ Query(g)
  \/ LockRecord(g) \/ InsertSnapshot(g) \/ DropRecord(g)
  \/ Rollback(g) \/ Commit(g) \/ CommitFails(g) \/ Finish(g)

RequestsNext ==
  \/ \E g \in Goroutines : Handle(g) \/ \E input \in Inputs : Receive(g, input)
  \/ \E n \in Records : Age(n)
  \/ ClearExpired
  \/ Interrupted
  \/ Served

Spec == RequestsInit /\ [][RequestsNext]_requestVars

(***************************************************************************)
(* Properties                                                              *)
(***************************************************************************)
\* With the recycle bin on, what was last written to a row is in exactly one
\* place: the table, one recycle record, or gone with an expired record; no
\* order of deletes, updates, restores and cleanups loses it, copies it or
\* archives an older version (Store.archiveDelete, Store.Restore).
RowsConserved ==
  settings.softDelete =>
    \A id \in {i \in Ids : latest[i] # None} :
      LET archived == {n \in Records : bin[n] # None /\ id \in {row.id : row \in bin[n].rows}}
          one(p) == IF p THEN 1 ELSE 0
      IN  /\ Cardinality(archived) + one(rows[id] # None) + one(id \in purged) = 1
          /\ rows[id] \in {None, latest[id]}
          /\ \A n \in archived : latest[id] \in bin[n].rows

\* A success is answered only when everything the request did was committed
\* and nothing in it failed, an inner scope included; a failed part never
\* commits; a committed request is answered with an error only when the
\* reply of the commit was lost (runner.Within, HandleCRUD, HandleRoute).  A
\* restore commits record by record.
AnswersMatchCommits ==
  \A g \in {h \in Goroutines : reqs[h].pc = "answered"} :
    LET r == reqs[g] IN
    /\ r.answer = "ok" => ~r.broken
    /\ r.action # "restore" =>
         /\ r.answer = "ok" => r.committed
         /\ r.broken => ~r.committed
         /\ r.committed => r.answer \in {"ok", "unknown"}

\* A client's value never reaches a system field, or a field that every
\* controller of the entity declares readonly or hidden, whatever it sends
\* and whichever hooks run, and no row is stored under another row's key
\* (Base.mutableData).
ClientsNeverWriteProtected ==
  /\ \A id \in {i \in Ids : rows[i] # None} : rows[id].id = id /\ OfApplication(rows[id])
  /\ \A n \in {m \in Records : bin[m] # None} : \A row \in bin[n].rows : OfApplication(row)

\* No answer holds a column its controller hides, and none is longer than
\* the configuration allows, whatever the query option, the joins and the
\* request ask for (CompilePlan, queryWindow).
AnswersWithinPolicy ==
  \A g \in {h \in Goroutines : reqs[h].pc = "answered" /\ reqs[h].result # <<>>} :
    LET r == reqs[g]
        ignored == IF r.action = "info" THEN Names(Options[r.option].infoIgnored) ELSE {}
        allowed == CASE r.action = "info" -> 1
                     [] r.action = "page" -> IF Limits.export > Limits.page THEN Limits.export ELSE Limits.page
                     [] OTHER -> IF Limits.export > Limits.list THEN Limits.export ELSE Limits.list
    IN  /\ \A c \in r.result.columns :
             c.alias = RootAlias => c.name \notin Names(Options[r.option].hidden) \cup ignored
        /\ Len(r.result.rows) <= allowed
=============================================================================
