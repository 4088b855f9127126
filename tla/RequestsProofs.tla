--------------------------- MODULE RequestsProofs ---------------------------
(***************************************************************************)
(* Proofs about Requests, for any number of goroutines, rows, recycle      *)
(* records, controllers, requests and failures, and for every deployment:  *)
(* rows are conserved by the recycle bin, answers match commits, clients   *)
(* never write protected fields.                                           *)
(***************************************************************************)
EXTENDS Requests, FiniteSetTheorems, TLAPS

-----------------------------------------------------------------------------
(* Functions that override others, and the records of requests.            *)

LEMMA Overridden ==
  ASSUME NEW f, NEW h
  PROVE  /\ DOMAIN Override(f, h) = DOMAIN f \cup DOMAIN h
         /\ \A x \in DOMAIN f : Override(f, h)[x] = f[x]
         /\ \A x \in DOMAIN h \ DOMAIN f : Override(f, h)[x] = h[x]
  BY DEF Override

LEMMA PutFacts ==
  ASSUME NEW x, NEW v, NEW h
  PROVE  /\ DOMAIN Put(h, x, v) = {x} \cup DOMAIN h
         /\ Put(h, x, v)[x] = v
         /\ \A y \in DOMAIN h \ {x} : Put(h, x, v)[y] = h[y]
  BY DEF Override, Put

\* An override that overrides nothing, and one within the domain.
LEMMA OverrideWithin ==
  ASSUME NEW f, NEW S, NEW T, NEW h \in [S -> T], DOMAIN f \subseteq S
  PROVE  /\ DOMAIN f = {} => Override(f, h) = h
         /\ (\A x \in DOMAIN f : f[x] \in T) => Override(f, h) \in [S -> T]
  BY DEF Override

Shaped(r) == DOMAIN r = DOMAIN Idle

LEMMA Parts ==
  ASSUME NEW r, Shaped(r)
  PROVE  {"pc", "action", "option", "work", "query", "at", "rows", "bin", "held", "snapshot", "archive", "failure",
          "broken", "committed", "answer", "result"} \subseteq DOMAIN r
  BY DEF Shaped, Idle

\* What two requests have in common, apart from where they are.
SameWrites(r, s) ==
  s.rows = r.rows /\ s.bin = r.bin /\ s.archive = r.archive /\ s.snapshot = r.snapshot
SameCall(r, s) == s.action = r.action /\ s.option = r.option
SameFate(r, s) == s.failure = r.failure /\ s.broken = r.broken /\ s.committed = r.committed /\ s.answer = r.answer
Same(r, s) == SameWrites(r, s) /\ SameCall(r, s) /\ SameFate(r, s)

LEMMA IdleFacts ==
  /\ Shaped(Idle) /\ Idle.pc = "idle" /\ Idle.action = "" /\ Idle.at = 1 /\ DOMAIN Idle.rows = {} /\ DOMAIN Idle.bin = {}
  /\ Idle.held = {} /\ Idle.snapshot = "none" /\ Idle.archive = {} /\ Idle.failure = "ok" /\ Idle.broken = FALSE
  /\ Idle.committed = FALSE
  BY DEF Shaped, Idle

LEMMA Moved ==
  ASSUME NEW r, Shaped(r), NEW pc
  PROVE  /\ Shaped(Move(r, pc)) /\ Move(r, pc).pc = pc /\ Same(r, Move(r, pc))
         /\ Move(r, pc).work = r.work /\ Move(r, pc).at = r.at /\ Move(r, pc).held = r.held
  BY Parts DEF Shaped, Move, Same, SameWrites, SameCall, SameFate

LEMMA Locked ==
  ASSUME NEW r, Shaped(r), NEW keys
  PROVE  /\ Shaped(Lock(r, keys)) /\ Lock(r, keys).held = r.held \cup keys /\ Same(r, Lock(r, keys))
         /\ Lock(r, keys).work = r.work /\ Lock(r, keys).at = r.at /\ Lock(r, keys).pc = r.pc
  BY Parts DEF Shaped, Lock, Same, SameWrites, SameCall, SameFate

LEMMA Aborted ==
  ASSUME NEW r, Shaped(r), NEW class
  PROVE  /\ Shaped(Abort(r, class)) /\ Abort(r, class).pc = "rollback" /\ Abort(r, class).held = r.held
         /\ SameWrites(r, Abort(r, class)) /\ SameCall(r, Abort(r, class))
         /\ Abort(r, class).failure = (IF r.failure = "ok" THEN class ELSE r.failure)
         /\ Abort(r, class).committed = r.committed
  BY Parts DEF Shaped, Abort, SameWrites, SameCall

LEMMA Answered ==
  ASSUME NEW r, Shaped(r), NEW class
  PROVE  LET s == Answer(r, class) IN
         /\ Shaped(s) /\ s.pc = "answered" /\ SameCall(r, s) /\ s.broken = r.broken /\ s.committed = r.committed
         /\ s.answer = class /\ DOMAIN s.rows = {} /\ DOMAIN s.bin = {} /\ s.held = {} /\ s.archive = {}
  BY DEF Shaped, Answer, Idle, SameCall

LEMMA ClosedFacts ==
  ASSUME NEW r, Shaped(r)
  PROVE  LET s == [Move(Closed(r), "begin") EXCEPT !.at = r.at + 1, !.failure = "ok"] IN
         /\ Shaped(s) /\ s.pc = "begin" /\ SameCall(r, s) /\ s.broken = r.broken /\ s.committed = r.committed
         /\ s.failure = "ok" /\ DOMAIN s.rows = {} /\ DOMAIN s.bin = {} /\ s.held = {} /\ s.archive = {}
  BY Parts DEF Shaped, Move, Closed, SameCall

\* A scope that ends leaves nothing behind.
LEMMA ReturnedFacts ==
  ASSUME NEW r, Shaped(r), NEW class
  PROVE  LET s == Returned(r, class) IN
         /\ Shaped(s) /\ SameCall(r, s) /\ s.broken = r.broken /\ s.committed = r.committed
         /\ DOMAIN s.rows = {} /\ DOMAIN s.bin = {} /\ s.held = {} /\ s.archive = {}
         /\ \/ s.pc = "begin" /\ s.failure = "ok" /\ r.action = "restore" /\ class \in {"ok", "missing"}
            \/ /\ s.pc = "answered"
               /\ s.answer = (IF r.action # "restore" THEN class ELSE IF class \in {"ok", "missing"} THEN "ok" ELSE "core")
<1> DEFINE t == [Move(Closed(r), "begin") EXCEPT !.at = r.at + 1, !.failure = "ok"]
<1>1. CASE r.action = "restore" /\ class \in {"ok", "missing"} /\ r.at < Len(r.work)
  <2>1. Returned(r, class) = t
    <3>1. Move(Closed(r), "begin").at = r.at
      BY Parts DEF Shaped, Move, Closed
    <3> QED
      BY <1>1, <3>1 DEF Returned
  <2> QED
    BY <1>1, <2>1, ClosedFacts, ZenonT(40)
<1>2. CASE r.action = "restore" /\ class \in {"ok", "missing"} /\ ~(r.at < Len(r.work))
  BY <1>2, Answered DEF Returned
<1>3. CASE ~(r.action = "restore" /\ class \in {"ok", "missing"})
  <2>1. CASE r.action = "restore"
    BY <1>3, <2>1, Answered DEF Returned
  <2>2. CASE r.action # "restore"
    BY <1>3, <2>2, Answered DEF Returned
  <2> QED
    BY <2>1, <2>2
<1> QED
  BY <1>1, <1>2, <1>3

LEMMA Advanced ==
  ASSUME NEW r, Shaped(r), NEW pc
  PROVE  LET s == Advance(r, pc) IN
         /\ Shaped(s) /\ Same(r, s) /\ s.work = r.work /\ s.held = r.held
         /\ \/ r.at < Len(r.work) /\ s.pc = r.pc /\ s.at = r.at + 1
            \/ s.pc = pc
<1>1. CASE r.at < Len(r.work)
  BY <1>1, Parts DEF Shaped, Advance, Same, SameWrites, SameCall, SameFate
<1>2. CASE ~(r.at < Len(r.work))
  BY <1>2, Parts DEF Shaped, Advance, Same, SameWrites, SameCall, SameFate
<1> QED
  BY <1>1, <1>2

\* Statements: a lock and a write.
LEMMA WroteRows ==
  ASSUME NEW r, Shaped(r), NEW overlay
  PROVE  LET s == [r EXCEPT !.rows = overlay] IN
         /\ Shaped(s) /\ SameCall(r, s) /\ SameFate(r, s) /\ s.pc = r.pc /\ s.work = r.work /\ s.at = r.at
         /\ s.held = r.held /\ s.bin = r.bin /\ s.archive = r.archive /\ s.snapshot = r.snapshot /\ s.rows = overlay
  BY Parts DEF Shaped, SameCall, SameFate

LEMMA WroteBin ==
  ASSUME NEW r, Shaped(r), NEW overlay
  PROVE  LET s == [r EXCEPT !.bin = overlay] IN
         /\ Shaped(s) /\ SameCall(r, s) /\ SameFate(r, s) /\ s.pc = r.pc /\ s.work = r.work /\ s.at = r.at
         /\ s.held = r.held /\ s.rows = r.rows /\ s.archive = r.archive /\ s.snapshot = r.snapshot /\ s.bin = overlay
  BY Parts DEF Shaped, SameCall, SameFate

\* Another commit makes a snapshot stale.
LEMMA Staled ==
  ASSUME NEW r, Shaped(r)
  PROVE  LET s == [r EXCEPT !.snapshot = "stale"] IN
         /\ Shaped(s) /\ SameCall(r, s) /\ SameFate(r, s) /\ s.pc = r.pc /\ s.work = r.work /\ s.at = r.at
         /\ s.held = r.held /\ s.rows = r.rows /\ s.archive = r.archive /\ s.bin = r.bin /\ s.snapshot = "stale"
  BY Parts DEF Shaped, SameCall, SameFate
-----------------------------------------------------------------------------
(* Types.  Everything stored, archived or about to be written is a row the *)
(* application may have written, under its own key.                        *)

RowOf(id) == {row \in Row : row.id = id /\ OfApplication(row)}
RecordOf == {record \in Record : \A row \in record.rows : OfApplication(row)}

\* What a request is about to write, before MutableData has looked at it.
Marked(mutable) ==
  \A f \in DOMAIN mutable :
    /\ mutable[f].data \in Values /\ mutable[f].source \in {"client", "server"}
    /\ mutable[f].source = "server" => mutable[f].data = Server

MutableAt(r, i) == IF r.action = "add" THEN r.work[i] ELSE r.work[i].mutable

InputFits(r) ==
  r.action \in {"add", "update"} /\ r.pc \in {"begin", "before", "add", "update"} =>
    /\ Len(r.work) \in Nat /\ DOMAIN r.work = 1..Len(r.work) /\ r.at \in DOMAIN r.work
    /\ \A i \in DOMAIN r.work : Marked(MutableAt(r, i))

WritesTyped(r) ==
  /\ DOMAIN r.rows \subseteq Ids /\ \A id \in DOMAIN r.rows : r.rows[id] \in RowOf(id) \cup {None}
  /\ DOMAIN r.bin \subseteq Records /\ \A n \in DOMAIN r.bin : r.bin[n] \in RecordOf \cup {None}
  /\ \A row \in r.archive : row \in Row /\ OfApplication(row)

Stage(r) ==
  /\ Shaped(r)
  /\ r.pc \notin {"idle", "answered"} => r.option \in DOMAIN Options
  /\ r.pc \in {"add", "update"} => r.action = r.pc
  /\ r.pc \in {"archive", "record"} => r.action = "delete" /\ settings.softDelete
  /\ r.pc = "erase" => r.action = "delete"
  /\ r.pc = "nested" => r.action = "route"
  /\ r.pc \in {"lock", "revive", "drop"} => r.action = "restore"
  /\ r.pc \in {"before", "after"} => r.action \in {"add", "update", "delete"}
  /\ r.pc = "query" => r.action \notin {"add", "update", "delete", "route", "restore"}
  /\ r.action = "restore" => settings.softDelete

TypeOK ==
  /\ rows \in [Ids -> Row \cup {None}] /\ \A id \in Ids : rows[id] \in RowOf(id) \cup {None}
  /\ latest \in [Ids -> Row \cup {None}] /\ \A id \in Ids : latest[id] \in RowOf(id) \cup {None}
  /\ bin \in [Records -> RecordOf \cup {None}]
  /\ nextId \in Nat /\ nextRecord \in Nat /\ settings \in Settings
  /\ reqs = [g \in Goroutines |-> reqs[g]]
  /\ \A g \in Goroutines : Stage(reqs[g]) /\ InputFits(reqs[g]) /\ WritesTyped(reqs[g])

-----------------------------------------------------------------------------
(* Answers.                                                                *)

FailureKnown(r) ==
  /\ r.pc \notin {"idle", "answered"} =>
       /\ r.action # "restore" => ~r.committed
       /\ r.failure \in {"ok", "missing"} => ~r.broken
       /\ r.failure = "missing" => r.pc = "rollback" /\ r.action = "restore"
       /\ r.pc = "rollback" => r.failure # "ok"
       /\ r.pc \notin {"rollback", "commit"} => r.failure = "ok"
  /\ r.pc = "answered" => 
       /\ r.answer = "ok" => ~r.broken
       /\ r.action # "restore" =>
            /\ r.answer = "ok" => r.committed
            /\ r.broken => ~r.committed
            /\ r.committed => r.answer \in {"ok", "unknown"}

-----------------------------------------------------------------------------
(* With the recycle bin on: where the rows are.                            *)

RowsAreLatest == \A id \in Ids : rows[id] \in {None, latest[id]}

ArchivesAreLatest ==
  \A n \in Records : bin[n] # None =>
    \A row \in bin[n].rows : row = latest[row.id] /\ rows[row.id] = None /\ row.id \notin purged

ArchivedOnce ==
  \A m, n \in Records : bin[m] # None /\ bin[n] # None =>
    \A row \in bin[m].rows, other \in bin[n].rows : row.id = other.id => m = n

PurgedAreGone == \A id \in Ids \cap purged : rows[id] = None /\ latest[id] # None

NothingLost ==
  \A id \in Ids : latest[id] # None =>
    rows[id] # None \/ id \in purged \/ \E n \in Records : bin[n] # None /\ latest[id] \in bin[n].rows

KeysAreNew ==
  /\ \A id \in Ids : latest[id] # None => id < nextId
  /\ \A n \in Records : bin[n] # None => n < nextRecord

Conserved ==
  /\ RowsAreLatest /\ ArchivesAreLatest /\ ArchivedOnce /\ PurgedAreGone /\ NothingLost /\ KeysAreNew

(* Locks: what a transaction has written nobody else touches.              *)

Owns(r, key) == Keys({key}) \subseteq r.held

HeldApart == \A g, h \in Goroutines : g # h => reqs[g].held \cap reqs[h].held = {}

WritesOwned(r) ==
  /\ \A id \in DOMAIN r.rows : Owns(r, RowKey(id)) /\ id < nextId
  /\ \A n \in DOMAIN r.bin : Owns(r, BinKey(n)) /\ n < nextRecord

(* What the writes of a transaction are, against the committed state.      *)

Untouched(r) == DOMAIN r.rows = {} /\ DOMAIN r.bin = {}
Stale(r) == settings.dialect = "sqlite" /\ r.snapshot = "stale"

Archived(r) == r.work \subseteq Ids /\ r.archive = {rows[id] : id \in r.work} /\ \A id \in r.work : rows[id] # None
OwnsRows(r) == \A id \in r.work : Owns(r, RowKey(id))
Recorded(r) == \E n \in Records : DOMAIN r.bin = {n} /\ bin[n] = None /\ r.bin[n] # None /\ r.bin[n].rows = r.archive

Opened(r) == r.work[r.at] \in Records /\ bin[r.work[r.at]] # None /\ r.archive = bin[r.work[r.at]].rows
Revived(r) == DOMAIN r.rows = {row.id : row \in r.archive} /\ \A row \in r.archive : r.rows[row.id] = row

\* Of the rows of the record, some are inserted again.
Reviving(r) ==
  /\ DOMAIN r.bin = {} /\ DOMAIN r.rows \subseteq {row.id : row \in r.archive}
  /\ \A row \in r.archive : row.id \in DOMAIN r.rows => r.rows[row.id] = row

Unwritten == {"idle", "answered", "begin", "before", "nested", "query", "archive", "record", "lock"}

Inserts(r) == DOMAIN r.bin = {} /\ \A id \in DOMAIN r.rows : r.rows[id] # None /\ rows[id] = None /\ latest[id] = None
Replaces(r) == DOMAIN r.bin = {} /\ \A id \in DOMAIN r.rows : r.rows[id] # None /\ rows[id] # None
Deletes(r) == Recorded(r) /\ Archived(r) /\ DOMAIN r.rows = r.work /\ \A id \in DOMAIN r.rows : r.rows[id] = None
Restores(r) == Opened(r) /\ Revived(r) /\ DOMAIN r.bin = {r.work[r.at]} /\ r.bin[r.work[r.at]] = None

Reads(r) ==
  /\ r.pc = "record" =>
       /\ r.snapshot \in {"fresh", "stale"} /\ (settings.dialect # "sqlite" => OwnsRows(r))
       /\ Stale(r) \/ Archived(r)
  /\ r.pc = "erase" => DOMAIN r.rows = {} /\ Recorded(r) /\ Archived(r) /\ OwnsRows(r)
  /\ r.pc = "revive" =>
       /\ r.snapshot \in {"fresh", "stale"} /\ (settings.dialect # "sqlite" => Owns(r, BinKey(r.work[r.at])))
       /\ Stale(r) \/ Opened(r)
  /\ r.pc = "drop" => DOMAIN r.bin = {} /\ Opened(r) /\ Revived(r) /\ Owns(r, BinKey(r.work[r.at]))

Writing(r) ==
  /\ r.pc \in Unwritten => Untouched(r)
  /\ r.pc = "revive" => Reviving(r)
  /\ r.pc \in {"add", "after", "commit"} /\ r.action = "add" => Inserts(r)
  /\ r.pc \in {"update", "after", "commit"} /\ r.action \in {"update", "route"} => Replaces(r)
  /\ r.pc \in {"after", "commit"} /\ r.action = "delete" => Untouched(r) \/ Deletes(r)
  /\ r.pc = "commit" /\ r.action = "restore" => Restores(r)
  /\ r.pc = "commit" /\ r.action \notin {"add", "update", "route", "delete", "restore"} => Untouched(r)

Tracked(r) == WritesOwned(r) /\ Reads(r) /\ Writing(r)

Inv ==
  /\ TypeOK
  /\ \A g \in Goroutines : FailureKnown(reqs[g])
  /\ HeldApart
  /\ settings.softDelete => Conserved /\ \A g \in Goroutines : Tracked(reqs[g])
-----------------------------------------------------------------------------
(* What a write makes of the submitted values.                             *)

LEMMA RowsAreRows ==
  /\ \A id : \A row \in RowOf(id) : row \in Row /\ row.id = id /\ OfApplication(row) /\ row # None /\ id \in Ids
  /\ \A record \in RecordOf : record \in Record /\ record # None
  BY EntityAssumption DEF RowOf, RecordOf, Row

\* Neither the key nor, from a client, a protected field passes mutableData.
LEMMA DataFacts ==
  ASSUME NEW o \in DOMAIN Options, NEW mutable, Marked(mutable)
  PROVE  LET data == MutableData(Options[o], mutable) IN
         /\ data.err \in {"ok", "validate"}
         /\ data.err = "ok" =>
              /\ DOMAIN data.input \subseteq Fields(Entity) \ {"id"}
              /\ \A f \in DOMAIN data.input :
                   data.input[f] \in Values /\ (f \in Protected => data.input[f] \in {Null, Server, Clock})
<1> DEFINE option == Options[o]
           submitted == DOMAIN mutable \cap Fields(option.entity)
           written == {name \in submitted : ~Ignored(option, mutable, name)}
           data == MutableData(option, mutable)
           input == [name \in written |-> mutable[name].data]
<1>0. option.entity = Entity
  BY EntityAssumption
<1>1. CASE \E name \in submitted : Refused(option, mutable, name)
  <2>1. data = Failed("validate")
    BY <1>1 DEF MutableData
  <2> QED
    BY <2>1 DEF Failed
<1>2. CASE ~\E name \in submitted : Refused(option, mutable, name)
  <2>1. data = Accepted(input)
    BY <1>2 DEF MutableData
  <2>2. data.err = "ok" /\ data.input = input
    BY <2>1 DEF Accepted
  <2>3. ASSUME NEW f \in written
        PROVE  /\ f \in Fields(Entity) /\ f # "id" /\ mutable[f].data \in Values
               /\ f \in Protected => mutable[f].data \in {Null, Server, Clock}
    <3>1. f \in DOMAIN mutable /\ f \in Fields(Entity) /\ ~Refused(option, mutable, f) /\ ~Ignored(option, mutable, f)
      BY <1>0, <1>2, <2>3
    <3>2. mutable[f].data \in Values /\ mutable[f].source \in {"client", "server"} /\ (mutable[f].source = "server" => mutable[f].data = Server)
      BY <3>1 DEF Marked
    <3>3. ~ServerOnly(Entity, f)
      BY <1>0, <3>1 DEF Refused, Ignored
    <3>4. f # "id" /\ ~Descriptor[Entity][f].system
      BY <3>1, <3>3, EntityAssumption DEF ServerOnly
    <3>5. ASSUME mutable[f].source = "client" PROVE f \notin Protected
      BY <3>1, <3>4, <3>5 DEF Refused, Ignored, Protected
    <3>6. ASSUME f \in Protected PROVE mutable[f].data = Server
      <4>1. mutable[f].source # "client"
        BY <3>5, <3>6
      <4> QED
        BY <3>2, <4>1, <3>6
    <3> QED
      BY <3>1, <3>2, <3>4, <3>6
  <2> QED
    BY <2>2, <2>3
<1> QED
  BY <1>1, <1>2

LEMMA NewRowFacts ==
  ASSUME NEW id \in Ids, NEW data, DOMAIN data \subseteq Fields(Entity) \ {"id"},
         \A f \in DOMAIN data : data[f] \in Values /\ (f \in Protected => data[f] \in {Null, Server, Clock})
  PROVE  NewRow(id, data) \in RowOf(id)
<1>1. NewRow(id, data) \in [Fields(Entity) -> Values]
  BY EntityAssumption DEF NewRow
<1>2. NewRow(id, data).id = id
  BY EntityAssumption DEF NewRow
<1>3. ASSUME NEW f \in Protected PROVE NewRow(id, data)[f] \in {Null, Server, Clock}
  BY <1>3, EntityAssumption DEF NewRow, Protected
<1> QED
  BY <1>1, <1>2, <1>3 DEF RowOf, Row, OfApplication

LEMMA UpdatedRow ==
  ASSUME NEW id, NEW row \in RowOf(id), NEW data, DOMAIN data \subseteq Fields(Entity) \ {"id"},
         \A f \in DOMAIN data : data[f] \in Values /\ (f \in Protected => data[f] \in {Null, Server, Clock})
  PROVE  Override(data, row) \in RowOf(id)
<1>1. row \in [Fields(Entity) -> Values] /\ row.id = id /\ id \in Ids /\ "id" \in Fields(Entity)
  BY RowsAreRows, EntityAssumption DEF Row
<1>2. Override(data, row) \in [Fields(Entity) -> Values]
  BY <1>1, OverrideWithin
<1>3. Override(data, row)["id"] = row["id"]
  BY <1>1, Overridden
<1>4. ASSUME NEW f \in Protected PROVE Override(data, row)[f] \in {Null, Server, Clock}
  <2>1. f \in Fields(Entity) /\ row[f] \in {Null, Server, Clock}
    BY RowsAreRows, <1>4 DEF OfApplication, Protected
  <2>2. CASE f \in DOMAIN data
    BY <1>4, <2>2 DEF Override
  <2>3. CASE f \notin DOMAIN data
    BY <1>1, <2>1, <2>3 DEF Override
  <2> QED
    BY <2>2, <2>3
<1> QED
  BY <1>1, <1>2, <1>3, <1>4 DEF RowOf, Row, OfApplication

LEMMA RenamedRow ==
  ASSUME NEW id, NEW row \in RowOf(id)
  PROVE  [row EXCEPT !.name = Server] \in RowOf(id)
<1>1. row \in [Fields(Entity) -> Values] /\ row.id = id /\ id \in Ids /\ OfApplication(row)
  BY RowsAreRows DEF Row
<1>2. [row EXCEPT !.name = Server] \in [Fields(Entity) -> Values]
  BY <1>1, EntityAssumption
<1>3. [row EXCEPT !.name = Server]["id"] = row["id"]
  BY <1>1, EntityAssumption
<1>4. ASSUME NEW f \in Protected PROVE [row EXCEPT !.name = Server][f] \in {Null, Server, Clock}
  BY <1>1 DEF OfApplication, Protected
<1> QED
  BY <1>1, <1>2, <1>3, <1>4 DEF RowOf, Row, OfApplication

-----------------------------------------------------------------------------
(* Requests as they are received.                                          *)

LEMMA LengthOf ==
  ASSUME NEW n \in Nat, NEW e, e = [i \in 1..n |-> e[i]]
  PROVE  Len(e) = n /\ DOMAIN e = 1..n
  OBVIOUS

LEMMA MutableMarked ==
  ASSUME NEW raw, \A f \in DOMAIN raw : raw[f] \in Values
  PROVE  Marked(Mutable(raw))
  BY DEF Marked, Mutable

LEMMA ServerMarked ==
  ASSUME NEW mutable, Marked(mutable), NEW name
  PROVE  Marked(Set(mutable, name, Server)) /\ Marked(Unset(mutable, name))
<1>1. Marked(Unset(mutable, name))
  BY DEF Marked, Unset
<1> DEFINE e == [data |-> Server, source |-> "server"]
<1>2. e.data \in Values /\ e.data = Server /\ e.source = "server"
  BY EntityAssumption
<1>3. Set(mutable, name, Server) = Put(mutable, name, e)
  BY DEF Set
<1> HIDE DEF e
<1>4. ASSUME NEW f \in DOMAIN Set(mutable, name, Server)
      PROVE  LET entry == Set(mutable, name, Server)[f] IN
             /\ entry.data \in Values /\ entry.source \in {"client", "server"}
             /\ entry.source = "server" => entry.data = Server
  <2>1. CASE f = name
    BY <1>2, <1>3, <2>1 DEF Put, Override
  <2>2. CASE f # name
    <3>1. f \in DOMAIN mutable /\ Set(mutable, name, Server)[f] = mutable[f]
      BY <1>3, <1>4, <2>2 DEF Put, Override
    <3> QED
      BY <3>1 DEF Marked
  <2> QED
    BY <2>1, <2>2
<1> QED
  BY <1>1, <1>4 DEF Marked

LEMMA BoundInput ==
  ASSUME NEW input \in Inputs, input.action \in {"add", "update"},
         Bind(input.action, Entity, input.body).err = "ok"
  PROVE  LET work == Bind(input.action, Entity, input.body).input IN
         /\ Len(work) \in Nat /\ DOMAIN work = 1..Len(work) /\ 1 \in DOMAIN work /\ work = [i \in 1..Len(work) |-> work[i]]
         /\ \A i \in DOMAIN work : Marked(IF input.action = "add" THEN work[i] ELSE work[i].mutable)
<1> DEFINE items == input.body.items
           n == Len(items)
           key == PrimaryOf(Entity)
           rest(raw) == [name \in DOMAIN raw \ {key} |-> raw[name]]
           added == [i \in DOMAIN items |-> Mutable(items[i])]
           updated == [i \in DOMAIN items |-> [id |-> items[i][key], mutable |-> Mutable(rest(items[i]))]]
           work == Bind(input.action, Entity, input.body).input
<1>1. items \in Seq(ToSet(items)) /\ \A item \in ToSet(items) : \A f \in DOMAIN item : item[f] \in Values
  BY InputsAssumption
<1>2. n \in Nat /\ DOMAIN items = 1..n
  BY <1>1
<1>3. \A i \in 1..n : \A f \in DOMAIN items[i] : items[i][f] \in Values
  BY <1>1, <1>2 DEF ToSet
<1>4. \A i \in 1..n : Marked(Mutable(items[i])) /\ Marked(Mutable(rest(items[i])))
  <2> SUFFICES ASSUME NEW i \in 1..n PROVE Marked(Mutable(items[i])) /\ Marked(Mutable(rest(items[i])))
    OBVIOUS
  <2>1. Marked(Mutable(items[i]))
    BY <1>3, MutableMarked
  <2>2. \A f \in DOMAIN rest(items[i]) : rest(items[i])[f] \in Values
    BY <1>3
  <2>3. Marked(Mutable(rest(items[i])))
    BY <2>2, MutableMarked
  <2> QED
    BY <2>1, <2>3
<1>5. items # <<>> => 1 \in 1..n
  BY <1>1, <1>2
<1>6. CASE input.action = "add"
  <2>1. Bind(input.action, Entity, input.body) = BindAdd(Entity, input.body)
    BY <1>6 DEF Bind
  <2>2. DecodeRawObjects(input.body) /\ BindAdd(Entity, input.body) = Accepted(added)
    BY <2>1 DEF BindAdd, Failed
  <2>3. work = added /\ items # <<>>
    BY <2>1, <2>2 DEF Accepted, DecodeRawObjects
  <2>4. work = [i \in 1..n |-> Mutable(items[i])]
    BY <1>2, <2>3
  <2> HIDE DEF work, items, n
  <2>5. work = [i \in 1..n |-> work[i]]
    BY <2>4
  <2>6. Len(work) = n /\ DOMAIN work = 1..n
    BY <1>2, <2>5, LengthOf
  <2> QED
    BY <1>2, <1>4, <1>5, <1>6, <2>3, <2>4, <2>5, <2>6 DEF work
<1>7. CASE input.action = "update"
  <2>1. Bind(input.action, Entity, input.body) = BindUpdate(Entity, input.body)
    BY <1>7 DEF Bind
  <2>2. DecodeRawObjects(input.body) /\ BindUpdate(Entity, input.body) = Accepted(updated)
    BY <2>1, SMTT(30) DEF BindUpdate, Failed
  <2>3. work = updated /\ items # <<>>
    BY <2>1, <2>2 DEF Accepted, DecodeRawObjects
  <2>4. work = [i \in 1..n |-> [id |-> items[i][key], mutable |-> Mutable(rest(items[i]))]]
    BY <1>2, <2>3
  <2> HIDE DEF work, items, n, rest, key
  <2>5. work = [i \in 1..n |-> work[i]] /\ \A i \in 1..n : work[i].mutable = Mutable(rest(items[i]))
    BY <2>4
  <2>6. Len(work) = n /\ DOMAIN work = 1..n
    BY <1>2, <2>5, LengthOf
  <2> QED
    BY <1>2, <1>4, <1>5, <1>7, <2>3, <2>5, <2>6 DEF work
<1> QED
  BY <1>6, <1>7

LEMMA PreparedInput ==
  ASSUME NEW input \in Inputs, Prepare(input).err = "ok"
  PROVE  LET work == Prepare(input).input IN
         /\ input.action = "restore" => settings.softDelete
         /\ input.action \in {"add", "update"} =>
              /\ Len(work) \in Nat /\ DOMAIN work = 1..Len(work) /\ 1 \in DOMAIN work
              /\ \A i \in DOMAIN work : Marked(IF input.action = "add" THEN work[i] ELSE work[i].mutable)
<1> DEFINE option == Options[input.option]
           bound == Bind(input.action, Entity, input.body)
           plan == CompilePlan(input.action, option, input.body.query)
           work == Prepare(input).input
<1>1. CASE input.action \notin {"add", "update", "restore"}
  BY <1>1
<1>2. CASE input.action = "restore"
  <2>1. ASSUME ~settings.softDelete PROVE FALSE
    <3>1. Prepare(input) = Failed("comm") \/ Prepare(input) = Override(Failed("comm"), [query |-> <<>>])
      BY <1>2, <2>1 DEF Prepare
    <3> QED
      BY <3>1 DEF Failed, Override
  <2> QED
    BY <1>2, <2>1
<1>3. CASE input.action \in {"add", "update"}
  <2>1. /\ bound.err = "ok"
        /\ Prepare(input) = [err |-> "ok", query |-> plan.query,
                             input |-> IF input.action = "add" THEN Injected(option, bound.input) ELSE bound.input]
    BY <1>3 DEF Prepare, Failed
  <2>2. work = IF input.action = "add" THEN Injected(option, bound.input) ELSE bound.input
    BY <2>1
  <2>3. /\ Len(bound.input) \in Nat /\ DOMAIN bound.input = 1..Len(bound.input) /\ 1 \in DOMAIN bound.input
        /\ \A i \in DOMAIN bound.input :
             Marked(IF input.action = "add" THEN bound.input[i] ELSE bound.input[i].mutable)
    BY <1>3, <2>1, BoundInput
  <2> HIDE DEF bound, work, option
  <2>4. CASE work = bound.input
    BY <1>3, <2>3, <2>4 DEF work
  <2>5. CASE work # bound.input
    <3>1. input.action = "add" /\ work = [i \in 1..Len(bound.input) |-> Set(bound.input[i], option.inject, Server)]
      BY <2>2, <2>3, <2>5 DEF Injected
    <3>2. Len(work) = Len(bound.input) /\ DOMAIN work = 1..Len(bound.input)
      BY <2>3, <3>1, LengthOf
    <3>3. \A i \in DOMAIN work : Marked(work[i])
      BY <2>3, <3>1, <3>2, ServerMarked
    <3> QED
      BY <2>3, <3>1, <3>2, <3>3 DEF work
  <2> QED
    BY <2>4, <2>5
<1> QED
  BY <1>1, <1>2, <1>3

-----------------------------------------------------------------------------
(* Steps that change one request and nothing that is committed.            *)

Committed == << rows, bin, settings, latest, purged >>

RequestFits(r) ==
  /\ Stage(r) /\ InputFits(r) /\ WritesTyped(r) /\ FailureKnown(r)
  /\ settings.softDelete => Reads(r) /\ Writing(r)

LEMMA RequestChanges ==
  ASSUME NEW g \in Goroutines, NEW r, reqs = [h \in Goroutines |-> reqs[h]], SetReq(g, r)
  PROVE  /\ reqs' = [h \in Goroutines |-> reqs'[h]] /\ reqs'[g] = r
         /\ \A h \in Goroutines \ {g} : reqs'[h] = reqs[h]
  BY DEF SetReq

LEMMA InvFits ==
  ASSUME Inv, NEW g \in Goroutines
  PROVE  /\ RequestFits(reqs[g]) /\ Shaped(reqs[g])
         /\ settings.softDelete => WritesOwned(reqs[g])
         /\ \A h \in Goroutines \ {g} : reqs[g].held \cap reqs[h].held = {}
  BY DEF Inv, TypeOK, RequestFits, Tracked, HeldApart, Stage

LEMMA Quiet ==
  ASSUME Inv, NEW g \in Goroutines, NEW r, SetReq(g, r), UNCHANGED Committed,
         nextId' \in Nat, nextId <= nextId', nextRecord' \in Nat, nextRecord <= nextRecord',
         RequestFits(r), \A h \in Goroutines \ {g} : r.held \cap reqs[h].held = {},
         settings.softDelete =>
           /\ \A id \in DOMAIN r.rows : Owns(r, RowKey(id)) /\ id < nextId'
           /\ \A n \in DOMAIN r.bin : Owns(r, BinKey(n)) /\ n < nextRecord'
  PROVE  Inv'
<1>0. /\ rows' = rows /\ bin' = bin /\ settings' = settings /\ latest' = latest /\ purged' = purged
      /\ TypeOK /\ nextId \in Nat /\ nextRecord \in Nat /\ Ids \subseteq Nat /\ Records \subseteq Nat
  BY RequestsAssumption DEF Committed, Inv, TypeOK
<1>1. /\ reqs' = [h \in Goroutines |-> reqs'[h]] /\ reqs'[g] = r
      /\ \A h \in Goroutines \ {g} : reqs'[h] = reqs[h]
  BY <1>0, RequestChanges DEF TypeOK
<1>2. ASSUME NEW h \in Goroutines PROVE (RequestFits(reqs[h]))'
  <2>1. RequestFits(reqs'[h])
    BY <1>1, InvFits, SMTT(40)
  <2>2. Stage(reqs[h])' /\ InputFits(reqs[h])' /\ WritesTyped(reqs[h])' /\ FailureKnown(reqs[h])'
    BY <1>0, <2>1 DEF RequestFits, Stage, InputFits, MutableAt, Marked, WritesTyped, FailureKnown
  <2>3. ASSUME settings.softDelete PROVE Reads(reqs[h])'
    BY <1>0, <2>1, <2>3, ZenonT(40) DEF RequestFits, Reads, Stale, Archived, OwnsRows, Owns, Keys, Recorded, Opened, Revived
  <2>4. ASSUME settings.softDelete PROVE Writing(reqs[h])'
    BY <1>0, <2>1, <2>4 DEF RequestFits, Writing, Untouched, Inserts, Replaces, Deletes, Restores, Archived, Recorded,
      Opened, Revived
  <2> QED
    BY <1>0, <2>2, <2>3, <2>4 DEF RequestFits
<1>3. TypeOK'
  BY <1>0, <1>1, <1>2 DEF TypeOK, RequestFits
<1>4. \A h \in Goroutines : FailureKnown(reqs[h])'
  BY <1>2 DEF RequestFits
<1>5. HeldApart'
  <2> SUFFICES ASSUME NEW h \in Goroutines, NEW k \in Goroutines, h # k PROVE reqs'[h].held \cap reqs'[k].held = {}
    BY DEF HeldApart
  <2> QED
    BY <1>1 DEF Inv, HeldApart
<1>6. ASSUME settings.softDelete PROVE Conserved'
  <2>1. Conserved
    BY <1>6 DEF Inv
  <2>2. RowsAreLatest' /\ ArchivesAreLatest' /\ ArchivedOnce' /\ PurgedAreGone' /\ NothingLost'
    BY <1>0, <2>1 DEF Conserved, RowsAreLatest, ArchivesAreLatest, ArchivedOnce, PurgedAreGone, NothingLost
  <2>3. KeysAreNew'
    BY <1>0, <2>1 DEF Conserved, KeysAreNew
  <2> QED
    BY <2>2, <2>3 DEF Conserved
<1>7. ASSUME settings.softDelete, NEW h \in Goroutines PROVE WritesOwned(reqs[h])'
  <2>1. CASE h = g
    BY <1>0, <1>1, <1>7, <2>1 DEF WritesOwned, Owns, Keys
  <2>2. CASE h # g
    <3>1. WritesOwned(reqs[h]) /\ reqs'[h] = reqs[h] /\ WritesTyped(reqs[h])
      BY <1>0, <1>1, <1>7, <2>2, InvFits DEF TypeOK
    <3>2. \A i \in DOMAIN reqs[h].rows : i < nextId'
      <4> SUFFICES ASSUME NEW i \in DOMAIN reqs[h].rows PROVE i < nextId'
        OBVIOUS
      <4>1. i < nextId /\ i \in Nat
        BY <1>0, <3>1 DEF WritesOwned, WritesTyped
      <4> QED
        BY <1>0, <4>1
    <3>3. \A n \in DOMAIN reqs[h].bin : n < nextRecord'
      <4> SUFFICES ASSUME NEW n \in DOMAIN reqs[h].bin PROVE n < nextRecord'
        OBVIOUS
      <4>1. n < nextRecord /\ n \in Nat
        BY <1>0, <3>1 DEF WritesOwned, WritesTyped
      <4> QED
        BY <1>0, <4>1
    <3> QED
      BY <1>0, <3>1, <3>2, <3>3 DEF WritesOwned, Owns, Keys
  <2> QED
    BY <2>1, <2>2
<1> QED
  BY <1>0, <1>2, <1>3, <1>4, <1>5, <1>6, <1>7 DEF Inv, Tracked, RequestFits

\* A failing step: the transaction has only its end to go.
LEMMA AbortKeepsInv ==
  ASSUME Inv, NEW g \in Goroutines, NEW class, class \notin {"ok", "missing"},
         reqs[g].pc \notin {"idle", "answered", "rollback"},
         SetReq(g, Abort(reqs[g], class)), UNCHANGED << Committed, nextId, nextRecord >>
  PROVE  Inv'
<1> DEFINE r == reqs[g]
           s == Abort(r, class)
<1>1. /\ RequestFits(r) /\ Shaped(r) /\ (settings.softDelete => WritesOwned(r))
      /\ \A h \in Goroutines \ {g} : r.held \cap reqs[h].held = {}
  BY InvFits
<1>2. /\ Shaped(s) /\ s.pc = "rollback" /\ s.held = r.held /\ SameWrites(r, s) /\ SameCall(r, s)
      /\ s.failure = (IF r.failure = "ok" THEN class ELSE r.failure) /\ s.committed = r.committed
  BY <1>1, Aborted
<1> HIDE DEF s
<1>3. Stage(s) /\ InputFits(s) /\ WritesTyped(s) /\ Reads(s) /\ Writing(s)
  BY <1>1, <1>2 DEF RequestFits, Stage, InputFits, WritesTyped, Reads, Writing, Unwritten, SameWrites, SameCall
<1>4. FailureKnown(s)
  BY <1>1, <1>2 DEF RequestFits, FailureKnown, SameCall
<1>5. settings.softDelete => WritesOwned(s)
  BY <1>1, <1>2 DEF WritesOwned, Owns, SameWrites
<1>6. nextId \in Nat /\ nextRecord \in Nat
  BY DEF Inv, TypeOK
<1> QED
  BY <1>1, <1>2, <1>3, <1>4, <1>5, <1>6, Quiet DEF RequestFits, WritesOwned, s, Committed

LEMMA CoreKeepsInv ==
  ASSUME Inv, NEW g \in Goroutines, reqs[g].pc \notin {"idle", "answered", "rollback"},
         SetReq(g, Abort(reqs[g], "core")), UNCHANGED Committed, nextId' = nextId, nextRecord' = nextRecord
  PROVE  Inv'
<1> DEFINE class == "core"
<1>1. class \notin {"ok", "missing"} /\ SetReq(g, Abort(reqs[g], class))
  OBVIOUS
<1>2. UNCHANGED << Committed, nextId, nextRecord >>
  OBVIOUS
<1> HIDE DEF class
<1> QED
  BY <1>1, <1>2, AbortKeepsInv

LEMMA ValidateKeepsInv ==
  ASSUME Inv, NEW g \in Goroutines, reqs[g].pc \notin {"idle", "answered", "rollback"},
         SetReq(g, Abort(reqs[g], "validate")), UNCHANGED Committed, nextId' = nextId, nextRecord' = nextRecord
  PROVE  Inv'
<1> DEFINE class == "validate"
<1>1. class \notin {"ok", "missing"} /\ SetReq(g, Abort(reqs[g], class))
  OBVIOUS
<1>2. UNCHANGED << Committed, nextId, nextRecord >>
  OBVIOUS
<1> HIDE DEF class
<1> QED
  BY <1>1, <1>2, AbortKeepsInv

\* A step of a request that has written nothing and holds no lock.
LEMMA FreshKeepsInv ==
  ASSUME Inv, NEW g \in Goroutines, NEW s, Stage(s), InputFits(s), FailureKnown(s),
         DOMAIN s.rows = {}, DOMAIN s.bin = {}, s.archive = {}, s.held = {},
         s.pc \in {"idle", "answered", "begin"},
         SetReq(g, s), UNCHANGED << Committed, nextId, nextRecord >>
  PROVE  Inv'
<1>1. WritesTyped(s) /\ Reads(s) /\ Writing(s)
  BY DEF WritesTyped, Reads, Writing, Untouched
<1>2. nextId \in Nat /\ nextRecord \in Nat
  BY DEF Inv, TypeOK
<1> QED
  BY <1>1, <1>2, Quiet DEF RequestFits, Committed

-----------------------------------------------------------------------------
(* The steps of one request.                                               *)

LEMMA LockedApart ==
  ASSUME Inv, NEW g \in Goroutines, NEW keys, Free(g, keys), NEW held, held = reqs[g].held \cup keys
  PROVE  \A h \in Goroutines \ {g} : held \cap reqs[h].held = {}
  BY InvFits DEF Free

LEMMA CountersAreNumbers == Inv => nextId \in Nat /\ nextRecord \in Nat
  BY DEF Inv, TypeOK

LEMMA ReceiveKeepsInv ==
  ASSUME Inv, NEW g \in Goroutines, NEW input \in Inputs, Receive(g, input)
  PROVE  Inv'
<1>1. UNCHANGED << Committed, nextId, nextRecord >>
  BY DEF Receive, Committed
<1> DEFINE ready == Prepare(input)
           r == [Idle EXCEPT !.action = input.action, !.option = input.option]
<1>2. CASE ready.err = "ok"
  <2> DEFINE s == [Move(r, "begin") EXCEPT !.work = ready.input, !.query = ready.query]
  <2>1. SetReq(g, s)
    BY <1>2 DEF Receive
  <2>2. /\ Shaped(s) /\ s.pc = "begin" /\ s.action = input.action /\ s.option = input.option /\ s.work = ready.input
        /\ s.at = 1 /\ DOMAIN s.rows = {} /\ DOMAIN s.bin = {} /\ s.held = {} /\ s.archive = {}
        /\ s.failure = "ok" /\ s.broken = FALSE /\ s.committed = FALSE
    BY DEF Shaped, Idle, Move
  <2>3. /\ input.action = "restore" => settings.softDelete
        /\ input.action \in {"add", "update"} =>
             /\ Len(ready.input) \in Nat /\ DOMAIN ready.input = 1..Len(ready.input) /\ 1 \in DOMAIN ready.input
             /\ \A i \in DOMAIN ready.input :
                  Marked(IF input.action = "add" THEN ready.input[i] ELSE ready.input[i].mutable)
    BY <1>2, PreparedInput
  <2> HIDE DEF s, ready
  <2>4. Stage(s)
    BY <2>2, <2>3, InputsAssumption DEF Stage
  <2>5. InputFits(s)
    BY <2>2, <2>3 DEF InputFits, MutableAt
  <2>6. FailureKnown(s)
    BY <2>2 DEF FailureKnown
  <2> QED
    BY <1>1, <2>1, <2>2, <2>4, <2>5, <2>6, FreshKeepsInv
<1>3. CASE ready.err # "ok"
  <2> DEFINE s == Answer(Idle, ready.err)
  <2>1. SetReq(g, s)
    BY <1>3 DEF Receive
  <2> HIDE DEF ready
  <2>2. /\ Shaped(s) /\ s.pc = "answered" /\ s.action = "" /\ s.broken = FALSE /\ s.committed = FALSE
        /\ s.answer = ready.err /\ DOMAIN s.rows = {} /\ DOMAIN s.bin = {} /\ s.held = {} /\ s.archive = {}
    <3> DEFINE class == ready.err
    <3>0. Shaped(Idle) /\ s = Answer(Idle, class)
      BY IdleFacts
    <3> HIDE DEF s, class
    <3>1. /\ Shaped(s) /\ s.pc = "answered" /\ SameCall(Idle, s) /\ s.broken = Idle.broken
          /\ s.committed = Idle.committed /\ s.answer = class /\ DOMAIN s.rows = {} /\ DOMAIN s.bin = {}
          /\ s.held = {} /\ s.archive = {}
      BY <3>0, Answered
    <3> QED
      BY <3>1, IdleFacts DEF SameCall, class
  <2> HIDE DEF s
  <2>3. Stage(s) /\ InputFits(s) /\ FailureKnown(s)
    BY <1>3, <2>2 DEF Stage, InputFits, FailureKnown
  <2> QED
    BY <1>1, <2>1, <2>2, <2>3, FreshKeepsInv
<1> QED
  BY <1>2, <1>3

LEMMA BeginKeepsInv ==
  ASSUME Inv, NEW g \in Goroutines, Begin(g) \/ BeginFails(g)
  PROVE  Inv'
<1> DEFINE r == reqs[g]
<1>1. /\ r.pc = "begin" /\ UNCHANGED << Committed, nextId, nextRecord >>
  BY DEF Begin, BeginFails, Committed
<1>2. /\ RequestFits(r) /\ Shaped(r) /\ (settings.softDelete => WritesOwned(r))
      /\ \A h \in Goroutines \ {g} : r.held \cap reqs[h].held = {}
  BY InvFits
<1>3. CASE Begin(g)
  <2> DEFINE s == Move(r, FirstStep(r.action))
  <2>1. SetReq(g, s)
    BY <1>3 DEF Begin
  <2>2. /\ Shaped(s) /\ s.pc = FirstStep(r.action) /\ Same(r, s) /\ s.work = r.work /\ s.at = r.at /\ s.held = r.held
    BY <1>2, Moved
  <2> HIDE DEF s
  <2>3. Stage(s)
    BY <1>1, <1>2, <2>2 DEF RequestFits, Stage, Same, SameCall, FirstStep
  <2>4. InputFits(s)
    BY <1>1, <1>2, <2>2 DEF RequestFits, InputFits, MutableAt, Same, SameCall, FirstStep
  <2>5. WritesTyped(s) /\ FailureKnown(s)
    BY <1>1, <1>2, <2>2 DEF RequestFits, WritesTyped, FailureKnown, Same, SameCall, SameWrites, SameFate, FirstStep
  <2>6. ASSUME settings.softDelete PROVE Reads(s) /\ Writing(s) /\ WritesOwned(s)
    BY <1>1, <1>2, <2>2, <2>6 DEF RequestFits, Reads, Writing, Unwritten, Untouched, WritesOwned, Same, SameWrites, FirstStep
  <2> QED
    BY <1>1, <1>2, <2>1, <2>2, <2>3, <2>4, <2>5, <2>6, Quiet, CountersAreNumbers DEF RequestFits, WritesOwned, Committed
<1>4. CASE BeginFails(g)
  <2> DEFINE q == [r EXCEPT !.broken = TRUE]
             class == IF r.action = "restore" THEN "core" ELSE "unknown"
             s == Answer(q, class)
  <2>1. SetReq(g, s)
    BY <1>4 DEF BeginFails
  <2>2. Shaped(q) /\ SameCall(r, q) /\ q.broken = TRUE /\ q.committed = r.committed
    BY <1>2, Parts DEF Shaped, SameCall
  <2> HIDE DEF q
  <2>3. /\ Shaped(s) /\ s.pc = "answered" /\ SameCall(q, s) /\ s.broken = q.broken /\ s.committed = q.committed
        /\ s.answer = class /\ DOMAIN s.rows = {} /\ DOMAIN s.bin = {} /\ s.held = {} /\ s.archive = {}
    BY <2>2, Answered
  <2> HIDE DEF s
  <2>4. Stage(s) /\ InputFits(s) /\ FailureKnown(s)
    BY <1>1, <1>2, <2>2, <2>3 DEF RequestFits, Stage, InputFits, FailureKnown, SameCall
  <2> QED
    BY <1>1, <2>1, <2>3, <2>4, FreshKeepsInv
<1> QED
  BY <1>3, <1>4

LEMMA HooksKeepInv ==
  ASSUME Inv, NEW g \in Goroutines, ModifyBefore(g) \/ ModifyAfter(g) \/ \E class \in {"comm", "panic"} : HookFails(g, class)
  PROVE  Inv'
<1> DEFINE r == reqs[g]
<1>1. UNCHANGED << Committed, nextId, nextRecord >>
  BY DEF ModifyBefore, ModifyAfter, HookFails, Committed
<1>2. /\ RequestFits(r) /\ Shaped(r) /\ (settings.softDelete => WritesOwned(r))
      /\ \A h \in Goroutines \ {g} : r.held \cap reqs[h].held = {}
  BY InvFits
<1>3. CASE ModifyBefore(g)
  <2> DEFINE option == Options[r.option]
             set(mutable) == IF option.hook = "set" THEN Set(mutable, "name", Server)
                             ELSE IF option.hook = "unset" THEN Unset(mutable, "name") ELSE mutable
             changed == CASE r.action = "add" -> [i \in DOMAIN r.work |-> set(r.work[i])]
                          [] r.action = "update" -> [i \in DOMAIN r.work |-> [id |-> r.work[i].id, mutable |-> set(r.work[i].mutable)]]
                          [] OTHER -> r.work
             write == IF r.action # "delete" THEN r.action ELSE IF settings.softDelete THEN "archive" ELSE "erase"
             s == [Move(r, write) EXCEPT !.work = changed]
  <2>1. SetReq(g, s) /\ r.pc = "before"
    BY <1>3 DEF ModifyBefore
  <2>2. /\ Shaped(s) /\ s.pc = write /\ Same(r, s) /\ s.work = changed /\ s.at = r.at /\ s.held = r.held
    BY <1>2, Moved, Parts, SMTT(40) DEF Shaped, Same, SameCall, SameWrites, SameFate
  <2>3. ASSUME r.action \in {"add", "update"}
        PROVE  /\ Len(changed) \in Nat /\ DOMAIN changed = 1..Len(changed) /\ r.at \in DOMAIN changed
               /\ \A i \in DOMAIN changed : Marked(IF r.action = "add" THEN changed[i] ELSE changed[i].mutable)
    <3>1. /\ Len(r.work) \in Nat /\ DOMAIN r.work = 1..Len(r.work) /\ r.at \in DOMAIN r.work
          /\ \A i \in DOMAIN r.work : Marked(MutableAt(r, i))
      BY <1>2, <2>1, <2>3 DEF RequestFits, InputFits
    <3>2. ASSUME NEW mutable, Marked(mutable) PROVE Marked(set(mutable))
      BY <3>2, ServerMarked
    <3>3. CASE r.action = "add"
      <4>1. changed = [i \in 1..Len(r.work) |-> set(r.work[i])]
        BY <3>1, <3>3
      <4> HIDE DEF changed, set
      <4>2. Len(changed) = Len(r.work) /\ DOMAIN changed = 1..Len(r.work)
        BY <3>1, <4>1, LengthOf
      <4>3. ASSUME NEW i \in DOMAIN changed PROVE Marked(changed[i])
        <5>1. Marked(r.work[i])
          BY <3>1, <3>3, <4>2, <4>3 DEF MutableAt
        <5> QED
          BY <3>2, <4>1, <4>2, <4>3, <5>1
      <4> QED
        BY <3>1, <3>3, <4>2, <4>3
    <3>4. CASE r.action = "update"
      <4>1. changed = [i \in 1..Len(r.work) |-> [id |-> r.work[i].id, mutable |-> set(r.work[i].mutable)]]
        BY <3>1, <3>4
      <4> HIDE DEF changed, set
      <4>2. Len(changed) = Len(r.work) /\ DOMAIN changed = 1..Len(r.work)
        BY <3>1, <4>1, LengthOf
      <4>3. ASSUME NEW i \in DOMAIN changed PROVE Marked(changed[i].mutable)
        <5>1. Marked(r.work[i].mutable)
          BY <3>1, <3>4, <4>2, <4>3 DEF MutableAt
        <5>2. Marked(set(r.work[i].mutable))
          BY <3>2, <5>1
        <5>3. changed[i].mutable = set(r.work[i].mutable)
          BY <4>1, <4>2, <4>3
        <5> QED
          BY <5>2, <5>3
      <4> QED
        BY <3>1, <3>4, <4>2, <4>3
    <3> QED
      BY <2>3, <3>3, <3>4
  <2> HIDE DEF s, changed
  <2>4. r.action \in {"add", "update", "delete"}
    BY <1>2, <2>1 DEF RequestFits, Stage
  <2>5. Stage(s)
    BY <1>2, <2>1, <2>2, <2>4 DEF RequestFits, Stage, Same, SameCall
  <2>6. InputFits(s)
    BY <2>2, <2>3 DEF InputFits, MutableAt, Same, SameCall
  <2>7. WritesTyped(s) /\ FailureKnown(s)
    BY <1>2, <2>1, <2>2, <2>4 DEF RequestFits, WritesTyped, FailureKnown, Same, SameCall, SameWrites, SameFate
  <2>8. ASSUME settings.softDelete PROVE Reads(s) /\ Writing(s) /\ WritesOwned(s)
    <3>1. Untouched(s)
      BY <1>2, <2>1, <2>2, <2>8 DEF RequestFits, Writing, Unwritten, Untouched, Same, SameWrites
    <3>2. s.pc \in {"add", "update", "archive"} /\ s.action = r.action /\ (s.pc # "archive" => s.action = s.pc)
      BY <2>2, <2>4, <2>8 DEF Same, SameCall
    <3> QED
      BY <3>1, <3>2 DEF Reads, Writing, Unwritten, Untouched, Inserts, Replaces, WritesOwned
  <2> QED
    BY <1>1, <1>2, <2>1, <2>2, <2>5, <2>6, <2>7, <2>8, Quiet, CountersAreNumbers, SMTT(40) DEF RequestFits, WritesOwned, Committed
<1>4. CASE ModifyAfter(g)
  <2> DEFINE s == Move(r, "commit")
  <2>1. SetReq(g, s) /\ r.pc = "after"
    BY <1>4 DEF ModifyAfter
  <2>2. /\ Shaped(s) /\ s.pc = "commit" /\ Same(r, s) /\ s.work = r.work /\ s.at = r.at /\ s.held = r.held
    BY <1>2, Moved
  <2> HIDE DEF s
  <2>3. Stage(s) /\ InputFits(s) /\ WritesTyped(s) /\ FailureKnown(s)
    BY <1>2, <2>1, <2>2
    DEF RequestFits, Stage, InputFits, WritesTyped, FailureKnown, Same, SameCall, SameWrites, SameFate
  <2>4. r.action \in {"add", "update", "delete"}
    BY <1>2, <2>1 DEF RequestFits, Stage
  <2>5. ASSUME settings.softDelete PROVE Reads(s) /\ Writing(s) /\ WritesOwned(s)
    <3>1. WritesOwned(s) /\ Reads(s)
      BY <1>2, <2>1, <2>2, <2>5 DEF RequestFits, Reads, WritesOwned, Owns, Same, SameWrites
    <3>2. Writing(s)
      BY <1>2, <2>1, <2>2, <2>4, <2>5 DEF RequestFits, Writing, Unwritten, Untouched, Inserts, Replaces, Deletes, Recorded,
        Archived, Same, SameCall, SameWrites
    <3> QED
      BY <3>1, <3>2
  <2> QED
    BY <1>1, <1>2, <2>1, <2>2, <2>3, <2>5, Quiet, CountersAreNumbers DEF RequestFits, WritesOwned, Committed
<1>5. CASE \E class \in {"comm", "panic"} : HookFails(g, class)
  BY <1>1, <1>5, AbortKeepsInv DEF HookFails
<1> QED
  BY <1>3, <1>4, <1>5

LEMMA RowsSeen ==
  ASSUME Inv, NEW g \in Goroutines
  PROVE  /\ \A id : RowSeen(g, id) # None => id \in Ids /\ RowSeen(g, id) \in RowOf(id)
         /\ DOMAIN reqs[g].rows = {} => \A id : RowSeen(g, id) = IF id \in Ids THEN rows[id] ELSE None
  BY DEF RowSeen, Inv, TypeOK, WritesTyped

LEMMA RecordsSeen ==
  ASSUME Inv, NEW g \in Goroutines
  PROVE  /\ \A n : RecordSeen(g, n) # None => n \in Records /\ RecordSeen(g, n) \in RecordOf
         /\ DOMAIN reqs[g].bin = {} => \A n : RecordSeen(g, n) = IF n \in Records THEN bin[n] ELSE None
  BY DEF RecordSeen, Inv, TypeOK, WritesTyped

LEMMA RowWrittenTyped ==
  ASSUME NEW r, NEW s, NEW id \in Ids, NEW row \in RowOf(id), WritesTyped(r),
         s.rows = Put(r.rows, id, row), s.bin = r.bin, s.archive = r.archive
  PROVE  WritesTyped(s)
<1>1. DOMAIN s.rows = {id} \cup DOMAIN r.rows
  BY DEF Put, Override
<1>2. ASSUME NEW i \in DOMAIN s.rows PROVE s.rows[i] \in RowOf(i) \cup {None}
  <2>1. CASE i = id
    BY <2>1 DEF Put, Override
  <2>2. CASE i # id
    <3>1. i \in DOMAIN r.rows /\ s.rows[i] = r.rows[i]
      BY <1>1, <1>2, <2>2 DEF Put, Override
    <3> QED
      BY <3>1 DEF WritesTyped
  <2> QED
    BY <2>1, <2>2
<1> QED
  BY <1>1, <1>2 DEF WritesTyped

LEMMA RowWrittenOwned ==
  ASSUME NEW r, NEW s, NEW id \in Ids, NEW row, NEW next \in Nat, WritesTyped(r), WritesOwned(r),
         s.rows = Put(r.rows, id, row), s.bin = r.bin, r.held \subseteq s.held, Owns(s, RowKey(id)), id < next,
         nextId \in Nat, nextId <= next
  PROVE  /\ \A i \in DOMAIN s.rows : Owns(s, RowKey(i)) /\ i < next
         /\ \A n \in DOMAIN s.bin : Owns(s, BinKey(n)) /\ n < nextRecord
<1>1. DOMAIN s.rows = {id} \cup DOMAIN r.rows
  BY DEF Put, Override
<1>2. ASSUME NEW i \in DOMAIN r.rows PROVE Owns(s, RowKey(i)) /\ i < next
  <2>1. Owns(r, RowKey(i)) /\ i < nextId /\ i \in Nat
    BY RequestsAssumption DEF WritesOwned, WritesTyped
  <2> QED
    BY <2>1, SMTT(40) DEF Owns
<1> QED
  BY <1>1, <1>2 DEF WritesOwned, Owns

\* Of what a statement locks, each key.
LEMMA KeyOfPresent ==
  ASSUME NEW s, NEW ids, NEW id \in ids, NEW held, s.held = held \cup Keys({RowKey(i) : i \in ids})
  PROVE  Owns(s, RowKey(id))
<1>1. RowKey(id) \in {RowKey(i) : i \in ids}
  OBVIOUS
<1>2. Keys({RowKey(id)}) \subseteq Keys({RowKey(i) : i \in ids})
  BY <1>1 DEF Keys
<1> QED
  BY <1>2 DEF Owns

LEMMA AddKeepsInv ==
  ASSUME Inv, NEW g \in Goroutines, Add(g)
  PROVE  Inv'
<1> DEFINE r == reqs[g]
           data == MutableData(Options[r.option], r.work[r.at])
           row == NewRow(nextId, data.input)
           t == Lock(Advance(r, "after"), Wants(g))
           s == [t EXCEPT !.rows = Put(t.rows, nextId, row)]
<1>1. /\ r.pc = "add" /\ Free(g, Wants(g)) /\ nextId \in Ids /\ UNCHANGED << Committed, nextRecord >>
      /\ \/ data.err # "ok" /\ SetReq(g, Abort(r, data.err)) /\ nextId' = nextId
         \/ SetReq(g, Abort(r, "core")) /\ nextId' = nextId
         \/ data.err = "ok" /\ SetReq(g, s) /\ nextId' = nextId + 1
  BY DEF Add, Ready, Committed
<1>2. /\ RequestFits(r) /\ Shaped(r) /\ (settings.softDelete => WritesOwned(r)) /\ nextId \in Nat /\ nextRecord \in Nat
  BY InvFits, CountersAreNumbers
<1>3. r.action = "add" /\ r.option \in DOMAIN Options /\ r.at \in DOMAIN r.work /\ Marked(r.work[r.at])
  BY <1>1, <1>2 DEF RequestFits, Stage, InputFits, MutableAt
<1>4. /\ data.err \in {"ok", "validate"}
      /\ data.err = "ok" => row \in RowOf(nextId)
  BY <1>1, <1>3, DataFacts, NewRowFacts
<1> HIDE DEF data, row
<1>5. CASE SetReq(g, Abort(r, data.err)) /\ data.err # "ok" /\ nextId' = nextId
  <2>1. SetReq(g, Abort(r, "validate"))
    BY <1>4, <1>5
  <2> QED
    BY <1>1, <1>5, <2>1, AbortKeepsInv
<1>6. CASE SetReq(g, Abort(r, "core")) /\ nextId' = nextId
  BY <1>1, <1>6, CoreKeepsInv
<1>7. CASE data.err = "ok" /\ SetReq(g, s) /\ nextId' = nextId + 1
  <2>1. /\ Shaped(t) /\ Same(r, t) /\ t.work = r.work /\ t.held = r.held \cup Wants(g)
        /\ (r.at < Len(r.work) /\ t.pc = r.pc /\ t.at = r.at + 1) \/ t.pc = "after"
    BY <1>2, Advanced, Locked DEF Same, SameWrites, SameCall, SameFate
  <2> HIDE DEF t
  <2>2. /\ Shaped(s) /\ SameCall(r, s) /\ SameFate(r, s) /\ s.pc = t.pc /\ s.work = r.work /\ s.at = t.at
        /\ s.held = r.held \cup Wants(g) /\ s.bin = r.bin /\ s.archive = r.archive /\ s.snapshot = r.snapshot
        /\ s.rows = Put(r.rows, nextId, row)
    BY <2>1, WroteRows DEF Same, SameWrites, SameCall, SameFate
  <2> HIDE DEF s
  <2>3. Stage(s) /\ FailureKnown(s)
    BY <1>1, <1>2, <1>3, <2>1, <2>2 DEF RequestFits, Stage, FailureKnown, SameCall, SameFate
  <2>4. InputFits(s)
    BY <1>1, <1>2, <1>3, <2>1, <2>2 DEF RequestFits, InputFits, MutableAt, SameCall
  <2>5. WritesTyped(s)
    BY <1>1, <1>2, <1>4, <1>7, <2>2, RowWrittenTyped DEF RequestFits
  <2>6. \A h \in Goroutines \ {g} : s.held \cap reqs[h].held = {}
    BY <1>1, <2>2, LockedApart
  <2>7. Owns(s, RowKey(nextId))
    BY <1>1, <2>2 DEF Owns, Wants
  <2>8. ASSUME settings.softDelete
        PROVE  /\ Reads(s) /\ Writing(s)
               /\ \A i \in DOMAIN s.rows : Owns(s, RowKey(i)) /\ i < nextId'
               /\ \A n \in DOMAIN s.bin : Owns(s, BinKey(n)) /\ n < nextRecord
    <3>1. rows[nextId] = None /\ latest[nextId] = None
      BY <1>1, <1>2, <2>8 DEF Inv, Conserved, KeysAreNew, RowsAreLatest
    <3>2. Inserts(r)
      BY <1>1, <1>2, <1>3, <2>8 DEF RequestFits, Writing
    <3>3. row # None
      BY <1>4, <1>7, RowsAreRows
    <3>4. Inserts(s)
      BY <2>2, <3>1, <3>2, <3>3 DEF Inserts, Put, Override
    <3>5. s.pc \in {"add", "after"} /\ s.action = "add"
      BY <1>1, <1>3, <2>1, <2>2 DEF SameCall
    <3>6. Reads(s) /\ Writing(s)
      BY <3>4, <3>5 DEF Reads, Writing, Unwritten
    <3>7. WritesTyped(r) /\ WritesOwned(r) /\ r.held \subseteq s.held /\ nextId + 1 \in Nat /\ nextId < nextId + 1
          /\ nextId <= nextId + 1
      BY <1>2, <2>2, <2>8 DEF RequestFits
    <3>8. /\ \A i \in DOMAIN s.rows : Owns(s, RowKey(i)) /\ i < nextId + 1
          /\ \A n \in DOMAIN s.bin : Owns(s, BinKey(n)) /\ n < nextRecord
      BY <1>1, <1>2, <2>2, <2>7, <3>7, RowWrittenOwned
    <3> QED
      BY <1>7, <3>6, <3>8
  <2> QED
    BY <1>1, <1>2, <1>7, <2>3, <2>4, <2>5, <2>6, <2>8, Quiet DEF RequestFits, Committed
<1> QED
  BY <1>1, <1>5, <1>6, <1>7

LEMMA UpdateKeepsInv ==
  ASSUME Inv, NEW g \in Goroutines, Update(g)
  PROVE  Inv'
<1> DEFINE r == reqs[g]
           id == r.work[r.at].id
           data == MutableData(Options[r.option], r.work[r.at].mutable)
           a == Advance(r, "after")
           t == Lock(a, Wants(g))
           row == Override(data.input, RowSeen(g, id))
           s == [t EXCEPT !.rows = Put(t.rows, id, row)]
<1>1. /\ r.pc = "update" /\ Free(g, Wants(g)) /\ UNCHANGED Committed /\ nextId' = nextId /\ nextRecord' = nextRecord
      /\ \/ data.err # "ok" /\ SetReq(g, Abort(r, data.err))
         \/ SetReq(g, Abort(r, "validate"))
         \/ SetReq(g, Abort(r, "core"))
         \/ SetReq(g, a)
         \/ data.err = "ok" /\ RowSeen(g, id) # None /\ SetReq(g, s)
  BY DEF Update, Ready, Committed
<1>2. /\ RequestFits(r) /\ Shaped(r) /\ (settings.softDelete => WritesOwned(r)) /\ nextId \in Nat /\ nextRecord \in Nat
  BY InvFits, CountersAreNumbers
<1>3. r.action = "update" /\ r.option \in DOMAIN Options /\ r.at \in DOMAIN r.work /\ Marked(r.work[r.at].mutable)
  BY <1>1, <1>2 DEF RequestFits, Stage, InputFits, MutableAt
<1>4. /\ data.err \in {"ok", "validate"}
      /\ data.err = "ok" /\ RowSeen(g, id) # None => id \in Ids /\ RowSeen(g, id) \in RowOf(id) /\ row \in RowOf(id)
  BY <1>3, DataFacts, RowsSeen, UpdatedRow
<1> HIDE DEF data, row, id, s
<1>5. CASE SetReq(g, Abort(r, "validate")) \/ (data.err # "ok" /\ SetReq(g, Abort(r, data.err)))
  <2>1. SetReq(g, Abort(r, "validate"))
    BY <1>4, <1>5
  <2> QED
    BY <1>1, <2>1, ValidateKeepsInv
<1>6. CASE SetReq(g, Abort(r, "core"))
  BY <1>1, <1>6, CoreKeepsInv
<1>7. /\ Shaped(a) /\ Same(r, a) /\ a.work = r.work /\ a.held = r.held
      /\ (r.at < Len(r.work) /\ a.pc = r.pc /\ a.at = r.at + 1) \/ a.pc = "after"
  BY <1>2, Advanced
<1> HIDE DEF a
<1>8. ASSUME NEW q, Shaped(q), SameCall(r, q), SameFate(r, q), q.pc = a.pc, q.work = r.work, q.at = a.at
      PROVE  Stage(q) /\ FailureKnown(q) /\ InputFits(q) /\ Reads(q) /\ q.pc \in {"update", "after"} /\ q.action = "update"
  <2>1. q.pc \in {"update", "after"} /\ q.action = "update"
    BY <1>1, <1>3, <1>7, <1>8 DEF SameCall
  <2>2. Stage(q) /\ FailureKnown(q)
    BY <1>1, <1>2, <1>3, <1>8, <2>1 DEF RequestFits, Stage, FailureKnown, SameCall, SameFate
  <2>3. InputFits(q)
    BY <1>1, <1>2, <1>3, <1>7, <1>8 DEF RequestFits, InputFits, MutableAt, SameCall
  <2>4. Reads(q)
    BY <2>1 DEF Reads
  <2> QED
    BY <2>1, <2>2, <2>3, <2>4
<1>9. CASE SetReq(g, a)
  <2>1. Stage(a) /\ FailureKnown(a) /\ InputFits(a) /\ Reads(a) /\ a.pc \in {"update", "after"} /\ a.action = "update"
    BY <1>7, <1>8 DEF Same
  <2>2. WritesTyped(a) /\ \A h \in Goroutines \ {g} : a.held \cap reqs[h].held = {}
    BY <1>2, <1>7, InvFits DEF RequestFits, WritesTyped, Same, SameWrites
  <2>3. ASSUME settings.softDelete PROVE Writing(a) /\ WritesOwned(a)
    BY <1>1, <1>2, <1>3, <1>7, <2>1, <2>3 DEF RequestFits, Writing, Unwritten, Replaces, WritesOwned, Owns, Same, SameWrites
  <2> QED
    BY <1>1, <1>2, <1>9, <2>1, <2>2, <2>3, Quiet DEF RequestFits, WritesOwned
<1>10. CASE data.err = "ok" /\ RowSeen(g, id) # None /\ SetReq(g, s)
  <2>1. /\ Shaped(t) /\ Same(r, t) /\ t.work = r.work /\ t.held = r.held \cup Wants(g) /\ t.pc = a.pc /\ t.at = a.at
    BY <1>7, Locked DEF Same, SameWrites, SameCall, SameFate
  <2> HIDE DEF t
  <2>2. /\ Shaped(s) /\ SameCall(r, s) /\ SameFate(r, s) /\ s.pc = a.pc /\ s.work = r.work /\ s.at = a.at
        /\ s.held = r.held \cup Wants(g) /\ s.bin = r.bin /\ s.archive = r.archive /\ s.snapshot = r.snapshot
        /\ s.rows = Put(r.rows, id, row)
    BY <2>1, WroteRows DEF Same, SameWrites, SameCall, SameFate, s
  <2>3. Stage(s) /\ FailureKnown(s) /\ InputFits(s) /\ Reads(s) /\ s.pc \in {"update", "after"} /\ s.action = "update"
    BY <1>8, <2>2
  <2>4. WritesTyped(s)
    BY <1>2, <1>4, <1>10, <2>2, RowWrittenTyped DEF RequestFits
  <2>5. \A h \in Goroutines \ {g} : s.held \cap reqs[h].held = {}
    BY <1>1, <2>2, LockedApart
  <2>6. Owns(s, RowKey(id))
    <3>1. Wants(g) = Keys({RowKey(i) : i \in Present(g, {id})}) /\ id \in Present(g, {id})
      BY <1>1, <1>10 DEF Wants, Present, id
    <3> QED
      BY <2>2, <3>1, KeyOfPresent
  <2>7. ASSUME settings.softDelete
        PROVE  /\ Writing(s)
               /\ \A i \in DOMAIN s.rows : Owns(s, RowKey(i)) /\ i < nextId
               /\ \A n \in DOMAIN s.bin : Owns(s, BinKey(n)) /\ n < nextRecord
    <3>1. Replaces(r)
      BY <1>1, <1>2, <1>3, <2>7 DEF RequestFits, Writing
    <3>2. rows[id] # None /\ id \in Ids
      BY <1>4, <1>10, <3>1 DEF Replaces, RowSeen
    <3>3. id < nextId
      <4>1. latest[id] # None
        BY <2>7, <3>2 DEF Inv, Conserved, RowsAreLatest
      <4> QED
        BY <2>7, <3>2, <4>1 DEF Inv, Conserved, KeysAreNew
    <3>4. row # None
      BY <1>4, <1>10, RowsAreRows
    <3>5. Replaces(s)
      BY <2>2, <3>1, <3>2, <3>4 DEF Replaces, Put, Override
    <3>6. Writing(s)
      BY <2>3, <3>5 DEF Writing, Unwritten
    <3>7. WritesTyped(r) /\ WritesOwned(r) /\ r.held \subseteq s.held /\ nextId <= nextId
      BY <1>2, <2>2, <2>7 DEF RequestFits
    <3> QED
      BY <1>2, <2>2, <2>6, <3>2, <3>3, <3>6, <3>7, RowWrittenOwned
  <2> QED
    BY <1>1, <1>2, <1>10, <2>3, <2>4, <2>5, <2>7, Quiet DEF RequestFits
<1> QED
  BY <1>1, <1>5, <1>6, <1>9, <1>10, SMTT(40)

LEMMA FailuresKeepInv ==
  ASSUME Inv, NEW g \in Goroutines, StatementFails(g) \/ LockConflict(g)
  PROVE  Inv'
<1>1. CASE StatementFails(g)
  BY <1>1, CoreKeepsInv DEF StatementFails, Committed
<1>2. CASE LockConflict(g)
  <2>1. Wants(g) # {}
    BY <1>2 DEF LockConflict
  <2>2. reqs[g].pc \notin {"idle", "answered", "rollback"}
    BY <2>1 DEF Wants
  <2> QED
    BY <1>2, <2>2, CoreKeepsInv DEF LockConflict, Committed
<1> QED
  BY <1>1, <1>2

LEMMA NestedKeepsInv ==
  ASSUME Inv, NEW g \in Goroutines, Nested(g)
  PROVE  Inv'
<1> DEFINE r == reqs[g]
           id == r.work
           row == [RowSeen(g, id) EXCEPT !.name = Server]
           t == Lock(r, Wants(g))
           wrote == IF Present(g, {id}) = {} THEN r ELSE [t EXCEPT !.rows = Put(t.rows, id, row)]
           hidden == [wrote EXCEPT !.pc = "commit", !.broken = TRUE, !.failure = NestedFailure(wrote.failure, "comm")]
<1>1. /\ r.pc = "nested" /\ Free(g, Wants(g)) /\ UNCHANGED Committed /\ nextId' = nextId /\ nextRecord' = nextRecord
      /\ \/ SetReq(g, Move(wrote, "commit"))
         \/ SetReq(g, Abort(r, "core"))
         \/ SetReq(g, hidden)
         \/ SetReq(g, Abort(hidden, "comm"))
  BY DEF Nested, Ready, Committed
<1>2. /\ RequestFits(r) /\ Shaped(r) /\ (settings.softDelete => WritesOwned(r)) /\ nextId \in Nat /\ nextRecord \in Nat
      /\ \A h \in Goroutines \ {g} : r.held \cap reqs[h].held = {}
  BY InvFits, CountersAreNumbers
<1>3. r.action = "route" /\ r.option \in DOMAIN Options
  BY <1>1, <1>2 DEF RequestFits, Stage
<1>4. /\ Shaped(wrote) /\ SameCall(r, wrote) /\ SameFate(r, wrote)
      /\ WritesTyped(wrote) /\ \A h \in Goroutines \ {g} : wrote.held \cap reqs[h].held = {}
      /\ settings.softDelete => Replaces(wrote) /\ WritesOwned(wrote)
  <2>1. CASE Present(g, {id}) = {}
    BY <1>1, <1>2, <2>1 DEF RequestFits, Writing, Unwritten, Untouched, Replaces, SameCall, SameFate
  <2>2. CASE Present(g, {id}) # {}
    <3>1. RowSeen(g, id) # None /\ wrote = [t EXCEPT !.rows = Put(t.rows, id, row)]
      BY <2>2 DEF Present
    <3>2. id \in Ids /\ RowSeen(g, id) \in RowOf(id) /\ row \in RowOf(id)
      BY <3>1, RowsSeen, RenamedRow
    <3>3. Shaped(t) /\ Same(r, t) /\ t.held = r.held \cup Wants(g)
      BY <1>2, Locked
    <3> HIDE DEF t, row, wrote
    <3>4. /\ Shaped(wrote) /\ SameCall(r, wrote) /\ SameFate(r, wrote)
          /\ wrote.held = r.held \cup Wants(g) /\ wrote.bin = r.bin /\ wrote.archive = r.archive
          /\ wrote.rows = Put(r.rows, id, row)
      BY <3>1, <3>3, WroteRows DEF Same, SameWrites, SameCall, SameFate
    <3>5. WritesTyped(wrote) /\ \A h \in Goroutines \ {g} : wrote.held \cap reqs[h].held = {}
      BY <1>1, <1>2, <3>2, <3>4, RowWrittenTyped, LockedApart DEF RequestFits
    <3>6. Owns(wrote, RowKey(id))
      <4>1. Wants(g) = Keys({RowKey(i) : i \in Present(g, {id})}) /\ id \in Present(g, {id})
        BY <1>1, <3>1 DEF Wants, Present
      <4> QED
        BY <3>4, <4>1, KeyOfPresent
    <3>7. ASSUME settings.softDelete PROVE Replaces(wrote) /\ WritesOwned(wrote)
      <4>1. Untouched(r)
        BY <1>1, <1>2, <3>7 DEF RequestFits, Writing, Unwritten
      <4>2. rows[id] # None
        BY <3>1, <3>2, <4>1, RowsSeen DEF Untouched
      <4>3. latest[id] # None /\ id < nextId
        BY <3>2, <3>7, <4>2 DEF Inv, Conserved, RowsAreLatest, KeysAreNew
      <4>4. Replaces(wrote)
        BY <3>2, <3>4, <4>1, <4>2, RowsAreRows DEF Replaces, Untouched, Put, Override
      <4>5. WritesTyped(r) /\ WritesOwned(r) /\ r.held \subseteq wrote.held /\ nextId <= nextId
        BY <1>2, <3>4, <3>7 DEF RequestFits
      <4> QED
        BY <1>2, <3>2, <3>4, <3>6, <4>3, <4>4, <4>5, RowWrittenOwned DEF WritesOwned
    <3> QED
      BY <3>4, <3>5, <3>7
  <2> QED
    BY <2>1, <2>2
<1> HIDE DEF wrote
<1>5. ASSUME NEW s, SetReq(g, s), Shaped(s), SameCall(wrote, s), SameWrites(wrote, s), s.held = wrote.held,
             s.committed = wrote.committed, s.pc \in {"commit", "rollback"},
             s.failure \in {"ok", "missing"} => s.failure = r.failure /\ s.broken = r.broken /\ s.pc = "commit"
      PROVE  Inv'
  <2>1. Stage(s) /\ InputFits(s) /\ WritesTyped(s)
    BY <1>2, <1>3, <1>4, <1>5 DEF Stage, InputFits, WritesTyped, SameCall, SameWrites
  <2>2. FailureKnown(s)
    BY <1>1, <1>2, <1>3, <1>4, <1>5 DEF RequestFits, FailureKnown, SameCall, SameFate
  <2>3. ASSUME settings.softDelete PROVE Reads(s) /\ Writing(s) /\ WritesOwned(s)
    <3>1. s.action = "route"
      BY <1>3, <1>4, <1>5 DEF SameCall
    <3> QED
      BY <1>4, <1>5, <2>3, <3>1 DEF Reads, Writing, Unwritten, Replaces, WritesOwned, Owns, SameWrites
  <2> QED
    BY <1>1, <1>2, <1>4, <1>5, <2>1, <2>2, <2>3, Quiet DEF RequestFits, WritesOwned
<1>6. CASE SetReq(g, Move(wrote, "commit"))
  BY <1>4, <1>5, <1>6, Moved DEF Same, SameFate
<1>7. CASE SetReq(g, Abort(r, "core"))
  BY <1>1, <1>7, CoreKeepsInv
<1>8. /\ Shaped(hidden) /\ hidden.pc = "commit" /\ SameCall(wrote, hidden) /\ SameWrites(wrote, hidden)
      /\ hidden.held = wrote.held /\ hidden.committed = wrote.committed
      /\ hidden.failure = NestedFailure(wrote.failure, "comm")
  BY <1>4, Parts DEF Shaped, SameCall, SameWrites
<1>9. hidden.failure \notin {"ok", "missing"}
  BY <1>1, <1>2, <1>4, <1>8 DEF NestedFailure, RequestFits, FailureKnown, SameFate
<1>10. CASE SetReq(g, hidden)
  BY <1>5, <1>8, <1>9, <1>10
<1> HIDE DEF hidden
<1>11. CASE SetReq(g, Abort(hidden, "comm"))
  <2> DEFINE s == Abort(hidden, "comm")
  <2>1. /\ Shaped(s) /\ s.pc = "rollback" /\ s.held = hidden.held /\ SameWrites(hidden, s) /\ SameCall(hidden, s)
        /\ s.failure = (IF hidden.failure = "ok" THEN "comm" ELSE hidden.failure) /\ s.committed = hidden.committed
    BY <1>8, Aborted
  <2> HIDE DEF s
  <2>2. SameWrites(wrote, s) /\ SameCall(wrote, s) /\ s.failure \notin {"ok", "missing"}
    BY <1>8, <1>9, <2>1 DEF SameWrites, SameCall
  <2> QED
    BY <1>5, <1>8, <1>11, <2>1, <2>2 DEF s
<1> QED
  BY <1>1, <1>6, <1>7, <1>10, <1>11

LEMMA QueryKeepsInv ==
  ASSUME Inv, NEW g \in Goroutines, Query(g)
  PROVE  Inv'
<1> DEFINE r == reqs[g]
           m == Move(r, "commit")
<1>1. r.pc = "query" /\ UNCHANGED << Committed, nextId, nextRecord >> /\ \E result : SetReq(g, [m EXCEPT !.result = result])
  BY DEF Query, Committed
<1>2. PICK result : SetReq(g, [m EXCEPT !.result = result])
  BY <1>1
<1> DEFINE s == [m EXCEPT !.result = result]
<1>8. SetReq(g, s)
  BY <1>2
<1>3. /\ RequestFits(r) /\ Shaped(r) /\ (settings.softDelete => WritesOwned(r))
      /\ \A h \in Goroutines \ {g} : r.held \cap reqs[h].held = {}
  BY InvFits
<1>4. /\ Shaped(s) /\ s.pc = "commit" /\ Same(r, s) /\ s.work = r.work /\ s.at = r.at /\ s.held = r.held
  BY <1>3, Moved, Parts DEF Shaped, Same, SameCall, SameWrites, SameFate
<1> HIDE DEF s
<1>5. Stage(s) /\ InputFits(s) /\ WritesTyped(s) /\ FailureKnown(s)
  BY <1>1, <1>3, <1>4
  DEF RequestFits, Stage, InputFits, WritesTyped, FailureKnown, Same, SameCall, SameWrites, SameFate
<1>6. s.action \notin {"add", "update", "delete", "route", "restore"}
  BY <1>1, <1>3, <1>4 DEF RequestFits, Stage, Same, SameCall
<1>7. ASSUME settings.softDelete PROVE Reads(s) /\ Writing(s) /\ WritesOwned(s)
  BY <1>1, <1>3, <1>4, <1>6, <1>7 DEF RequestFits, Reads, Writing, Unwritten, Untouched, WritesOwned, Same, SameWrites
<1> QED
  BY <1>1, <1>3, <1>4, <1>5, <1>7, <1>8, Quiet, CountersAreNumbers, SMTT(40) DEF RequestFits, WritesOwned, Committed

LEMMA ArchiveKeepsInv ==
  ASSUME Inv, NEW g \in Goroutines, ArchiveRead(g)
  PROVE  Inv'
<1> DEFINE r == reqs[g]
           present == Present(g, r.work)
           m == Move(r, "after")
           t == Lock(Move(r, "record"), Wants(g))
           s == [t EXCEPT !.archive = {RowSeen(g, id) : id \in present}, !.work = present, !.snapshot = "fresh"]
<1>1. /\ r.pc = "archive" /\ Free(g, Wants(g)) /\ UNCHANGED << Committed, nextId, nextRecord >>
      /\ SetReq(g, m) \/ SetReq(g, s)
  BY DEF ArchiveRead, Ready, Committed
<1>2. /\ RequestFits(r) /\ Shaped(r) /\ (settings.softDelete => WritesOwned(r)) /\ nextId \in Nat /\ nextRecord \in Nat
      /\ \A h \in Goroutines \ {g} : r.held \cap reqs[h].held = {}
  BY InvFits, CountersAreNumbers
<1>3. r.action = "delete" /\ settings.softDelete /\ Untouched(r)
  BY <1>1, <1>2 DEF RequestFits, Stage, Writing, Unwritten
<1>4. CASE SetReq(g, m)
  <2>1. /\ Shaped(m) /\ m.pc = "after" /\ Same(r, m) /\ m.work = r.work /\ m.at = r.at /\ m.held = r.held
    BY <1>2, Moved
  <2> HIDE DEF m
  <2>2. Stage(m) /\ InputFits(m) /\ WritesTyped(m) /\ FailureKnown(m)
    BY <1>1, <1>2, <1>3, <2>1
    DEF RequestFits, Stage, InputFits, WritesTyped, FailureKnown, Same, SameCall, SameWrites, SameFate
  <2>3. Reads(m) /\ Writing(m) /\ WritesOwned(m)
    BY <1>3, <2>1 DEF Reads, Writing, Unwritten, Untouched, WritesOwned, Same, SameCall, SameWrites
  <2> QED
    BY <1>1, <1>2, <1>4, <2>1, <2>2, <2>3, Quiet DEF RequestFits, WritesOwned, Committed
<1>5. CASE SetReq(g, s)
  <2>1. /\ Shaped(t) /\ t.pc = "record" /\ Same(r, t) /\ t.at = r.at /\ t.held = r.held \cup Wants(g)
    BY <1>2, Moved, Locked DEF Same, SameWrites, SameCall, SameFate
  <2> HIDE DEF t, present
  <2>2. /\ Shaped(s) /\ s.pc = "record" /\ SameCall(r, s) /\ SameFate(r, s) /\ s.held = r.held \cup Wants(g)
        /\ s.rows = r.rows /\ s.bin = r.bin /\ s.archive = {RowSeen(g, id) : id \in present} /\ s.work = present
        /\ s.snapshot = "fresh"
    BY <2>1, Parts DEF Shaped, Same, SameWrites, SameCall, SameFate
  <2> HIDE DEF s
  <2>3. \A id \in present : id \in Ids /\ RowSeen(g, id) = rows[id] /\ rows[id] # None /\ rows[id] \in RowOf(id)
    BY <1>3, RowsSeen DEF Untouched, Present, present
  <2>4. Stage(s) /\ InputFits(s) /\ FailureKnown(s)
    BY <1>1, <1>2, <1>3, <2>2 DEF RequestFits, Stage, InputFits, FailureKnown, SameCall, SameFate
  <2>5. WritesTyped(s)
    BY <1>2, <2>2, <2>3, RowsAreRows DEF RequestFits, WritesTyped
  <2>6. \A h \in Goroutines \ {g} : s.held \cap reqs[h].held = {}
    BY <1>1, <2>2, LockedApart
  <2>7. settings.dialect # "sqlite" => OwnsRows(s)
    BY <1>1, <2>2 DEF OwnsRows, Owns, Keys, Wants, present
  <2>8. Archived(s)
    BY <2>2, <2>3 DEF Archived
  <2>9. Reads(s) /\ Writing(s) /\ WritesOwned(s)
    BY <1>3, <2>2, <2>7, <2>8 DEF Reads, Writing, Unwritten, Untouched, WritesOwned
  <2> QED
    BY <1>1, <1>2, <1>5, <2>4, <2>5, <2>6, <2>9, Quiet DEF RequestFits, WritesOwned, Committed
<1> QED
  BY <1>1, <1>4, <1>5

LEMMA RecordKeepsInv ==
  ASSUME Inv, NEW g \in Goroutines, InsertRecord(g)
  PROVE  Inv'
<1> DEFINE r == reqs[g]
           record == [rows |-> r.archive, expired |-> FALSE]
           t == Lock(Move(r, "erase"), Wants(g))
           s == [t EXCEPT !.bin = Put(t.bin, nextRecord, record)]
<1>1. /\ r.pc = "record" /\ Free(g, Wants(g)) /\ nextRecord \in Records /\ UNCHANGED Committed /\ nextId' = nextId
      /\ \/ SetReq(g, Abort(r, "core")) /\ nextRecord' = nextRecord
         \/ MayWrite(g) /\ SetReq(g, s) /\ nextRecord' = nextRecord + 1
  BY DEF InsertRecord, Ready, Committed
<1>2. /\ RequestFits(r) /\ Shaped(r) /\ (settings.softDelete => WritesOwned(r)) /\ nextId \in Nat /\ nextRecord \in Nat
  BY InvFits, CountersAreNumbers
<1>3. r.action = "delete" /\ settings.softDelete /\ Untouched(r)
  BY <1>1, <1>2 DEF RequestFits, Stage, Writing, Unwritten
<1>4. CASE SetReq(g, Abort(r, "core")) /\ nextRecord' = nextRecord
  BY <1>1, <1>4, CoreKeepsInv
<1>5. CASE MayWrite(g) /\ SetReq(g, s) /\ nextRecord' = nextRecord + 1
  <2>1. /\ Shaped(t) /\ t.pc = "erase" /\ Same(r, t) /\ t.work = r.work /\ t.at = r.at /\ t.held = r.held \cup Wants(g)
    BY <1>2, Moved, Locked DEF Same, SameWrites, SameCall, SameFate
  <2>2. record \in RecordOf /\ record.rows = r.archive /\ record # None
    <3>1. r.archive \subseteq Row /\ \A row \in r.archive : OfApplication(row)
      BY <1>2 DEF RequestFits, WritesTyped
    <3>2. record \in RecordOf
      BY <3>1 DEF RecordOf, Record
    <3> QED
      BY <3>2, RowsAreRows
  <2> HIDE DEF t, record
  <2>3. /\ Shaped(s) /\ s.pc = "erase" /\ SameCall(r, s) /\ SameFate(r, s) /\ s.held = r.held \cup Wants(g)
        /\ s.rows = r.rows /\ s.archive = r.archive /\ s.work = r.work /\ s.bin = Put(r.bin, nextRecord, record)
    BY <2>1, WroteBin DEF Same, SameWrites, SameCall, SameFate
  <2> HIDE DEF s
  <2>4. Stage(s) /\ InputFits(s) /\ FailureKnown(s)
    BY <1>1, <1>2, <1>3, <2>3 DEF RequestFits, Stage, InputFits, FailureKnown, SameCall, SameFate
  <2>5. DOMAIN s.bin = {nextRecord} /\ s.bin[nextRecord] = record
    BY <1>3, <2>3 DEF Put, Override, Untouched
  <2>6. WritesTyped(s)
    BY <1>1, <1>2, <2>2, <2>3, <2>5 DEF RequestFits, WritesTyped
  <2>7. \A h \in Goroutines \ {g} : s.held \cap reqs[h].held = {}
    BY <1>1, <2>3, LockedApart
  <2>8. Owns(s, BinKey(nextRecord))
    BY <1>1, <2>3 DEF Owns, Wants
  <2>9. bin[nextRecord] = None
    BY <1>1, <1>2, <1>3 DEF Inv, Conserved, KeysAreNew
  <2>10. Recorded(s)
    BY <1>1, <2>2, <2>3, <2>5, <2>9 DEF Recorded
  <2>11. Archived(s)
    BY <1>1, <1>2, <1>3, <1>5, <2>3 DEF RequestFits, Reads, Stale, MayWrite, Archived
  <2>12. OwnsRows(s)
    <3>1. CASE settings.dialect = "sqlite"
      BY <2>8, <3>1 DEF OwnsRows, Owns, Keys
    <3>2. CASE settings.dialect # "sqlite"
      BY <1>1, <1>2, <1>3, <2>3, <3>2 DEF RequestFits, Reads, OwnsRows, Owns
    <3> QED
      BY <3>1, <3>2
  <2>13. DOMAIN s.rows = {} /\ Reads(s) /\ Writing(s)
    BY <1>3, <2>3, <2>10, <2>11, <2>12 DEF Reads, Writing, Unwritten, Untouched
  <2> QED
    BY <1>1, <1>2, <1>5, <2>4, <2>5, <2>6, <2>7, <2>8, <2>13, Quiet DEF RequestFits
<1> QED
  BY <1>1, <1>4, <1>5

LEMMA DeleteKeepsInv ==
  ASSUME Inv, NEW g \in Goroutines, DeleteRows(g)
  PROVE  Inv'
<1> DEFINE r == reqs[g]
           present == Present(g, r.work)
           none == [id \in present |-> None]
           t == Lock(Move(r, "after"), Wants(g))
           s == [t EXCEPT !.rows = Override(none, t.rows)]
<1>1. /\ r.pc = "erase" /\ Free(g, Wants(g)) /\ UNCHANGED Committed /\ nextId' = nextId /\ nextRecord' = nextRecord
      /\ \/ SetReq(g, Abort(r, "core"))
         \/ (settings.softDelete => present = r.work) /\ SetReq(g, s)
  BY DEF DeleteRows, Ready, Committed
<1>2. /\ RequestFits(r) /\ Shaped(r) /\ (settings.softDelete => WritesOwned(r)) /\ nextId \in Nat /\ nextRecord \in Nat
  BY InvFits, CountersAreNumbers
<1>3. r.action = "delete"
  BY <1>1, <1>2 DEF RequestFits, Stage
<1>4. CASE SetReq(g, Abort(r, "core"))
  BY <1>1, <1>4, CoreKeepsInv
<1>5. CASE (settings.softDelete => present = r.work) /\ SetReq(g, s)
  <2>1. /\ Shaped(t) /\ t.pc = "after" /\ Same(r, t) /\ t.work = r.work /\ t.at = r.at /\ t.held = r.held \cup Wants(g)
    BY <1>2, Moved, Locked DEF Same, SameWrites, SameCall, SameFate
  <2>2. present \subseteq Ids
    BY RowsSeen DEF Present
  <2> HIDE DEF t, present
  <2>3. /\ Shaped(s) /\ s.pc = "after" /\ SameCall(r, s) /\ SameFate(r, s) /\ s.held = r.held \cup Wants(g)
        /\ s.bin = r.bin /\ s.archive = r.archive /\ s.work = r.work /\ s.rows = Override(none, r.rows)
    BY <2>1, WroteRows DEF Same, SameWrites, SameCall, SameFate
  <2> HIDE DEF s
  <2>4. Stage(s) /\ InputFits(s) /\ FailureKnown(s)
    BY <1>1, <1>2, <1>3, <2>3 DEF RequestFits, Stage, InputFits, FailureKnown, SameCall, SameFate
  <2>5. DOMAIN s.rows = present \cup DOMAIN r.rows
    BY <2>3 DEF Override
  <2>6. WritesTyped(s)
    <3>1. ASSUME NEW id \in DOMAIN s.rows PROVE s.rows[id] = None \/ (id \in DOMAIN r.rows /\ s.rows[id] = r.rows[id])
      BY <2>3, <2>5, <3>1 DEF Override
    <3> QED
      BY <1>2, <2>2, <2>3, <2>5, <3>1 DEF RequestFits, WritesTyped
  <2>7. \A h \in Goroutines \ {g} : s.held \cap reqs[h].held = {}
    BY <1>1, <2>3, LockedApart
  <2>8. ASSUME settings.softDelete PROVE Reads(s) /\ Writing(s) /\ WritesOwned(s)
    <3>1. DOMAIN r.rows = {} /\ Recorded(r) /\ Archived(r) /\ OwnsRows(r) /\ WritesOwned(r)
      BY <1>1, <1>2, <2>8 DEF RequestFits, Reads
    <3>2. DOMAIN s.rows = s.work /\ \A id \in DOMAIN s.rows : s.rows[id] = None
      BY <1>5, <2>3, <2>5, <2>8, <3>1 DEF Override
    <3>3. Recorded(s) /\ Archived(s)
      BY <2>3, <3>1 DEF Recorded, Archived
    <3>4. Reads(s) /\ Writing(s)
      BY <1>3, <2>3, <3>2, <3>3 DEF Reads, Writing, Unwritten, Deletes, SameCall
    <3>5. ASSUME NEW id \in DOMAIN s.rows PROVE Owns(s, RowKey(id)) /\ id < nextId
      <4>1. Owns(r, RowKey(id)) /\ id \in Ids /\ rows[id] # None
        BY <2>3, <3>1, <3>2, <3>5 DEF OwnsRows, Archived
      <4>2. latest[id] # None
        BY <2>8, <4>1 DEF Inv, Conserved, RowsAreLatest
      <4> QED
        BY <2>3, <2>8, <4>1, <4>2 DEF Owns, Inv, Conserved, KeysAreNew
    <3>6. \A n \in DOMAIN s.bin : Owns(s, BinKey(n)) /\ n < nextRecord
      BY <2>3, <3>1 DEF WritesOwned, Owns
    <3> QED
      BY <3>4, <3>5, <3>6 DEF WritesOwned
  <2> QED
    BY <1>1, <1>2, <1>5, <2>4, <2>6, <2>7, <2>8, Quiet DEF RequestFits, WritesOwned
<1> QED
  BY <1>1, <1>4, <1>5

LEMMA LockRecordKeepsInv ==
  ASSUME Inv, NEW g \in Goroutines, LockRecord(g)
  PROVE  Inv'
<1> DEFINE r == reqs[g]
           n == r.work[r.at]
           found == RecordSeen(g, n)
           m == Move(r, "rollback")
           missing == [m EXCEPT !.failure = "missing"]
           t == Lock(Move(r, "revive"), Wants(g))
           s == [t EXCEPT !.archive = found.rows, !.snapshot = "fresh"]
<1>1. /\ r.pc = "lock" /\ Free(g, Wants(g)) /\ UNCHANGED << Committed, nextId, nextRecord >>
      /\ SetReq(g, missing) \/ (found # None /\ SetReq(g, s))
  BY DEF LockRecord, Ready, Committed
<1>2. /\ RequestFits(r) /\ Shaped(r) /\ (settings.softDelete => WritesOwned(r)) /\ nextId \in Nat /\ nextRecord \in Nat
      /\ \A h \in Goroutines \ {g} : r.held \cap reqs[h].held = {}
  BY InvFits, CountersAreNumbers
<1>3. r.action = "restore" /\ settings.softDelete /\ Untouched(r) /\ r.failure = "ok" /\ ~r.broken
  BY <1>1, <1>2 DEF RequestFits, Stage, Writing, Unwritten, FailureKnown
<1>4. CASE SetReq(g, missing)
  <2>1. Shaped(m) /\ m.pc = "rollback" /\ Same(r, m) /\ m.held = r.held
    BY <1>2, Moved
  <2> HIDE DEF m
  <2>2. /\ Shaped(missing) /\ missing.pc = "rollback" /\ SameCall(r, missing) /\ SameWrites(r, missing)
        /\ missing.held = r.held /\ missing.failure = "missing" /\ missing.broken = r.broken
    BY <2>1, Parts DEF Shaped, Same, SameCall, SameWrites, SameFate
  <2> HIDE DEF missing
  <2>3. Stage(missing) /\ InputFits(missing) /\ WritesTyped(missing) /\ FailureKnown(missing)
    BY <1>1, <1>2, <1>3, <2>2
    DEF RequestFits, Stage, InputFits, WritesTyped, FailureKnown, SameCall, SameWrites
  <2>4. Reads(missing) /\ Writing(missing) /\ WritesOwned(missing)
    BY <1>3, <2>2 DEF Reads, Writing, Unwritten, Untouched, WritesOwned, SameWrites
  <2> QED
    BY <1>1, <1>2, <1>4, <2>2, <2>3, <2>4, Quiet DEF RequestFits, WritesOwned, Committed
<1>5. CASE found # None /\ SetReq(g, s)
  <2>1. /\ Shaped(t) /\ t.pc = "revive" /\ Same(r, t) /\ t.work = r.work /\ t.at = r.at /\ t.held = r.held \cup Wants(g)
    BY <1>2, Moved, Locked DEF Same, SameWrites, SameCall, SameFate
  <2> HIDE DEF t
  <2>2. /\ Shaped(s) /\ s.pc = "revive" /\ SameCall(r, s) /\ SameFate(r, s) /\ s.held = r.held \cup Wants(g)
        /\ s.rows = r.rows /\ s.bin = r.bin /\ s.archive = found.rows /\ s.work = r.work /\ s.at = r.at
        /\ s.snapshot = "fresh"
    BY <2>1, Parts DEF Shaped, Same, SameWrites, SameCall, SameFate
  <2> HIDE DEF s
  <2>3. n \in Records /\ found \in RecordOf /\ found = bin[n]
    BY <1>3, <1>5, RecordsSeen DEF Untouched
  <2>4. Stage(s) /\ InputFits(s) /\ FailureKnown(s)
    BY <1>1, <1>2, <1>3, <2>2, SMTT(40) DEF RequestFits, Stage, InputFits, FailureKnown, SameCall, SameFate
  <2>5. WritesTyped(s)
    BY <1>2, <2>2, <2>3 DEF RequestFits, WritesTyped, RecordOf, Record
  <2>6. \A h \in Goroutines \ {g} : s.held \cap reqs[h].held = {}
    BY <1>1, <2>2, LockedApart
  <2>7. settings.dialect # "sqlite" => Owns(s, BinKey(n))
    BY <1>1, <2>2 DEF Owns, Keys, Wants
  <2>8. Opened(s)
    BY <1>5, <2>2, <2>3 DEF Opened
  <2>9. Reads(s) /\ Writing(s) /\ WritesOwned(s)
    BY <1>3, <2>2, <2>7, <2>8 DEF Reads, Writing, Unwritten, Untouched, Reviving, WritesOwned
  <2> QED
    BY <1>1, <1>2, <1>5, <2>4, <2>5, <2>6, <2>9, Quiet DEF RequestFits, WritesOwned, Committed
<1> QED
  BY <1>1, <1>4, <1>5

LEMMA SnapshotKeepsInv ==
  ASSUME Inv, NEW g \in Goroutines, InsertSnapshot(g)
  PROVE  Inv'
<1> DEFINE r == reqs[g]
           n == r.work[r.at]
<1>1. PICK row \in FirstLeft(r) :
        /\ r.pc = "revive" /\ Free(g, Wants(g)) /\ UNCHANGED Committed /\ nextId' = nextId /\ nextRecord' = nextRecord
        /\ \/ SetReq(g, Abort(r, "core"))
           \/ /\ MayWrite(g)
              /\ SetReq(g, [Lock(IF Left(r) = {row} THEN Move(r, "drop") ELSE r, Wants(g))
                              EXCEPT !.rows = Put(@, row.id, row)])
  BY DEF InsertSnapshot, Ready, Committed
<1> DEFINE p == IF Left(r) = {row} THEN Move(r, "drop") ELSE r
           t == Lock(p, Wants(g))
           s == [t EXCEPT !.rows = Put(t.rows, row.id, row)]
<1>2. /\ RequestFits(r) /\ Shaped(r) /\ (settings.softDelete => WritesOwned(r)) /\ nextId \in Nat /\ nextRecord \in Nat
  BY InvFits, CountersAreNumbers
<1>3. /\ r.action = "restore" /\ settings.softDelete /\ Reviving(r)
      /\ row \in r.archive /\ row.id \notin DOMAIN r.rows /\ row \in Left(r)
  BY <1>1, <1>2 DEF RequestFits, Stage, Writing, FirstLeft, Left
<1>4. CASE SetReq(g, Abort(r, "core"))
  BY <1>1, <1>4, CoreKeepsInv
<1>5. CASE MayWrite(g) /\ SetReq(g, s)
  <2>0. /\ Shaped(p) /\ Same(r, p) /\ p.work = r.work /\ p.at = r.at /\ p.held = r.held
        /\ p.pc = (IF Left(r) = {row} THEN "drop" ELSE "revive")
    BY <1>1, <1>2, Moved DEF Same, SameWrites, SameCall, SameFate
  <2> HIDE DEF p
  <2>1. /\ Shaped(t) /\ t.pc = p.pc /\ Same(r, t) /\ t.work = r.work /\ t.at = r.at /\ t.held = r.held \cup Wants(g)
    BY <2>0, Locked DEF Same, SameWrites, SameCall, SameFate
  <2> HIDE DEF t
  <2>2. /\ Shaped(s) /\ s.pc \in {"drop", "revive"} /\ (s.pc = "drop" <=> Left(r) = {row})
        /\ SameCall(r, s) /\ SameFate(r, s) /\ s.held = r.held \cup Wants(g)
        /\ s.bin = r.bin /\ s.archive = r.archive /\ s.snapshot = r.snapshot /\ s.work = r.work /\ s.at = r.at
        /\ s.rows = Put(r.rows, row.id, row)
    BY <2>0, <2>1, WroteRows DEF Same, SameWrites, SameCall, SameFate
  <2> HIDE DEF s
  <2>3. Opened(r) /\ ArchivesAreLatest /\ RowsAreLatest
    BY <1>1, <1>2, <1>3, <1>5 DEF RequestFits, Reads, Stale, MayWrite, Inv, Conserved
  <2>4. \A x \in r.archive : x \in RowOf(x.id) /\ x.id \in Ids /\ x = latest[x.id] /\ x # None
    <3>1. \A x \in r.archive : x \in Row /\ OfApplication(x) /\ x = latest[x.id]
      BY <1>2, <2>3 DEF RequestFits, WritesTyped, Opened, ArchivesAreLatest
    <3> QED
      BY <3>1, RowsAreRows DEF RowOf, Row
  <2>5. DOMAIN s.rows = {row.id} \cup DOMAIN r.rows
    BY <2>2 DEF Put, Override
  <2>6. \A x \in r.archive : x.id \in DOMAIN s.rows => s.rows[x.id] = x
    <3> SUFFICES ASSUME NEW x \in r.archive, x.id \in DOMAIN s.rows PROVE s.rows[x.id] = x
      OBVIOUS
    <3>1. CASE x.id = row.id
      <4>1. x = row
        BY <1>3, <2>4, <3>1
      <4> QED
        BY <2>2, <4>1 DEF Put, Override
    <3>2. CASE x.id # row.id
      <4>1. x.id \in DOMAIN r.rows /\ s.rows[x.id] = r.rows[x.id]
        BY <2>2, <2>5, <3>2 DEF Put, Override
      <4> QED
        BY <1>3, <4>1 DEF Reviving
    <3> QED
      BY <3>1, <3>2
  <2>7. Stage(s) /\ InputFits(s) /\ FailureKnown(s)
    BY <1>1, <1>2, <1>3, <2>2 DEF RequestFits, Stage, InputFits, FailureKnown, SameCall, SameFate
  <2>8. WritesTyped(s)
    BY <1>2, <1>3, <2>2, <2>4, RowWrittenTyped DEF RequestFits
  <2>9. \A h \in Goroutines \ {g} : s.held \cap reqs[h].held = {}
    BY <1>1, <2>2, LockedApart
  <2>10. Owns(s, BinKey(n))
    <3>1. CASE settings.dialect = "sqlite"
      BY <1>1, <2>2, <3>1 DEF Owns, Keys, Wants
    <3>2. CASE settings.dialect # "sqlite"
      BY <1>1, <1>2, <1>3, <2>2, <3>2 DEF RequestFits, Reads, Owns
    <3> QED
      BY <3>1, <3>2
  <2>11. Owns(s, RowKey(row.id)) /\ row.id < nextId
    <3>1. RowKey(row.id) \in {RowKey(x.id) : x \in FirstLeft(r)}
      BY <1>1
    <3>2. Wants(g) = Keys({RowKey(x.id) : x \in FirstLeft(r)})
      BY <1>1 DEF Wants
    <3>3. Owns(s, RowKey(row.id))
      BY <2>2, <3>1, <3>2, SMTT(40) DEF Owns, Keys
    <3> QED
      BY <1>3, <2>4, <3>3 DEF Inv, Conserved, KeysAreNew
  <2>12. /\ \A i \in DOMAIN s.rows : Owns(s, RowKey(i)) /\ i < nextId
         /\ \A m \in DOMAIN s.bin : Owns(s, BinKey(m)) /\ m < nextRecord
    <3>1. /\ WritesTyped(r) /\ WritesOwned(r) /\ r.held \subseteq s.held /\ nextId <= nextId /\ row.id \in Ids
      BY <1>2, <1>3, <2>2, <2>4 DEF RequestFits
    <3> QED
      BY <1>2, <2>2, <2>11, <3>1, RowWrittenOwned
  <2>13. Reviving(s) /\ Opened(s) /\ DOMAIN s.bin = {}
    BY <1>3, <2>2, <2>3, <2>5, <2>6 DEF Reviving, Opened
  <2>14. s.pc = "drop" => Revived(s)
    <3> SUFFICES ASSUME Left(r) = {row} PROVE Revived(s)
      BY <2>2
    <3>1. \A x \in r.archive : x.id \in DOMAIN s.rows
      BY <2>5 DEF Left
    <3> QED
      BY <2>2, <2>6, <2>13, <3>1 DEF Revived, Reviving
  <2>15. s.snapshot \in {"fresh", "stale"} /\ (settings.dialect # "sqlite" => Owns(s, BinKey(s.work[s.at])))
    BY <1>1, <1>2, <1>3, <2>2, <2>10 DEF RequestFits, Reads
  <2>16. Reads(s) /\ Writing(s)
    BY <1>3, <2>2, <2>10, <2>13, <2>14, <2>15 DEF Reads, Writing, Unwritten, SameCall
  <2> QED
    BY <1>1, <1>2, <1>5, <2>7, <2>8, <2>9, <2>12, <2>16, Quiet DEF RequestFits
<1> QED
  BY <1>1, <1>4, <1>5

LEMMA DropKeepsInv ==
  ASSUME Inv, NEW g \in Goroutines, DropRecord(g)
  PROVE  Inv'
<1> DEFINE r == reqs[g]
           n == r.work[r.at]
           t == Lock(Move(r, "commit"), Wants(g))
           s == [t EXCEPT !.bin = Put(t.bin, n, None)]
<1>1. /\ r.pc = "drop" /\ Free(g, Wants(g)) /\ UNCHANGED Committed /\ nextId' = nextId /\ nextRecord' = nextRecord
      /\ SetReq(g, Abort(r, "core")) \/ SetReq(g, s)
  BY DEF DropRecord, Ready, Committed
<1>2. /\ RequestFits(r) /\ Shaped(r) /\ (settings.softDelete => WritesOwned(r)) /\ nextId \in Nat /\ nextRecord \in Nat
  BY InvFits, CountersAreNumbers
<1>3. r.action = "restore" /\ settings.softDelete
  BY <1>1, <1>2 DEF RequestFits, Stage
<1>4. CASE SetReq(g, Abort(r, "core"))
  BY <1>1, <1>4, CoreKeepsInv
<1>5. CASE SetReq(g, s)
  <2>1. /\ Shaped(t) /\ t.pc = "commit" /\ Same(r, t) /\ t.work = r.work /\ t.at = r.at /\ t.held = r.held \cup Wants(g)
    BY <1>2, Moved, Locked DEF Same, SameWrites, SameCall, SameFate
  <2> HIDE DEF t
  <2>2. /\ Shaped(s) /\ s.pc = "commit" /\ SameCall(r, s) /\ SameFate(r, s) /\ s.held = r.held \cup Wants(g)
        /\ s.rows = r.rows /\ s.archive = r.archive /\ s.work = r.work /\ s.at = r.at /\ s.bin = Put(r.bin, n, None)
    BY <2>1, WroteBin DEF Same, SameWrites, SameCall, SameFate
  <2> HIDE DEF s
  <2>3. DOMAIN r.bin = {} /\ Opened(r) /\ Revived(r) /\ Owns(r, BinKey(n)) /\ WritesOwned(r)
    BY <1>1, <1>2, <1>3, SMTT(40) DEF RequestFits, Reads
  <2>4. DOMAIN s.bin = {n} /\ s.bin[n] = None /\ n \in Records /\ bin[n] # None
    BY <2>2, <2>3 DEF Put, Override, Opened
  <2>5. Stage(s) /\ InputFits(s) /\ FailureKnown(s)
    BY <1>1, <1>2, <1>3, <2>2 DEF RequestFits, Stage, InputFits, FailureKnown, SameCall, SameFate
  <2>6. WritesTyped(s)
    BY <1>2, <2>2, <2>4 DEF RequestFits, WritesTyped
  <2>7. \A h \in Goroutines \ {g} : s.held \cap reqs[h].held = {}
    BY <1>1, <2>2, LockedApart
  <2>8. n < nextRecord
    BY <1>3, <2>4 DEF Inv, Conserved, KeysAreNew
  <2>9. WritesOwned(s)
    BY <2>2, <2>3, <2>4, <2>8 DEF WritesOwned, Owns
  <2>10. Restores(s)
    <3>1. s.work[s.at] = n
      BY <2>2
    <3>2. Opened(s)
      BY <2>2, <2>3 DEF Opened
    <3>3. Revived(s)
      BY <2>2, <2>3 DEF Revived
    <3> QED
      BY <2>4, <3>1, <3>2, <3>3 DEF Restores
  <2>11. Reads(s) /\ Writing(s)
    BY <1>3, <2>2, <2>10 DEF Reads, Writing, Unwritten, SameCall
  <2> QED
    BY <1>1, <1>2, <1>5, <2>5, <2>6, <2>7, <2>9, <2>11, Quiet DEF RequestFits, WritesOwned
<1> QED
  BY <1>1, <1>4, <1>5

\* The scope of a request is over and its transaction is rolled back.
LEMMA RollbackKeepsInv ==
  ASSUME Inv, NEW g \in Goroutines, Rollback(g) \/ Finish(g)
  PROVE  Inv'
<1> DEFINE r == reqs[g]
           s == Returned(r, r.failure)
<1>1. UNCHANGED << Committed, nextId, nextRecord >>
  BY DEF Rollback, Finish, Committed
<1>2. CASE Rollback(g)
  <2>1. SetReq(g, s) /\ (r.pc = "rollback" \/ (r.pc = "commit" /\ r.failure # "ok"))
    BY <1>2 DEF Rollback
  <2>2. RequestFits(r) /\ Shaped(r)
    BY InvFits
  <2> DEFINE class == r.failure
  <2>3. s = Returned(r, class)
    OBVIOUS
  <2> HIDE DEF s, class
  <2>4. /\ Shaped(s) /\ SameCall(r, s) /\ s.broken = r.broken /\ s.committed = r.committed
        /\ DOMAIN s.rows = {} /\ DOMAIN s.bin = {} /\ s.held = {} /\ s.archive = {}
        /\ \/ s.pc = "begin" /\ s.failure = "ok" /\ r.action = "restore" /\ class \in {"ok", "missing"}
           \/ /\ s.pc = "answered"
              /\ s.answer = (IF r.action # "restore" THEN class ELSE IF class \in {"ok", "missing"} THEN "ok" ELSE "core")
    BY <2>2, <2>3, ReturnedFacts
  <2>5. Stage(s) /\ InputFits(s)
    BY <2>1, <2>2, <2>4 DEF RequestFits, Stage, InputFits, SameCall
  <2>6. FailureKnown(s)
    BY <2>1, <2>2, <2>4 DEF RequestFits, FailureKnown, SameCall, class
  <2> QED
    BY <1>1, <2>1, <2>4, <2>5, <2>6, FreshKeepsInv
<1>3. CASE Finish(g)
  <2>1. Stage(Idle) /\ InputFits(Idle) /\ FailureKnown(Idle)
    BY IdleFacts DEF Stage, InputFits, FailureKnown
  <2> DEFINE q == Idle
  <2>2. SetReq(g, q) /\ Shaped(q) /\ q.pc = "idle" /\ DOMAIN q.rows = {} /\ DOMAIN q.bin = {} /\ q.held = {} /\ q.archive = {}
        /\ Stage(q) /\ InputFits(q) /\ FailureKnown(q)
    BY <1>3, <2>1, IdleFacts, ZenonT(40) DEF Finish
  <2> HIDE DEF q
  <2> QED
    BY <1>1, <2>2, FreshKeepsInv
<1> QED
  BY <1>2, <1>3

-----------------------------------------------------------------------------
(* Steps that change what is committed: what they leave alone.             *)

\* A request another one's commit has at most made stale.
LEMMA StaledFits ==
  ASSUME Inv, NEW h \in Goroutines, settings' = settings,
         reqs'[h] \in {reqs[h], [reqs[h] EXCEPT !.snapshot = "stale"]}
  PROVE  /\ (Stage(reqs[h]) /\ InputFits(reqs[h]) /\ WritesTyped(reqs[h]) /\ FailureKnown(reqs[h]))'
         /\ reqs'[h].held = reqs[h].held
<1> DEFINE q == reqs[h]
           s == reqs'[h]
<1>1. RequestFits(q) /\ Shaped(q)
  BY InvFits
<1>2. /\ Shaped(s) /\ SameCall(q, s) /\ SameFate(q, s) /\ s.pc = q.pc /\ s.work = q.work /\ s.at = q.at
      /\ s.held = q.held /\ s.rows = q.rows /\ s.archive = q.archive /\ s.bin = q.bin
  <2>1. CASE s = q
    BY <1>1, <2>1 DEF SameCall, SameFate
  <2>2. CASE s = [q EXCEPT !.snapshot = "stale"]
    <3> DEFINE p == [q EXCEPT !.snapshot = "stale"]
    <3>1. /\ Shaped(p) /\ SameCall(q, p) /\ SameFate(q, p) /\ p.pc = q.pc /\ p.work = q.work /\ p.at = q.at
          /\ p.held = q.held /\ p.rows = q.rows /\ p.archive = q.archive /\ p.bin = q.bin
      BY <1>1, Staled
    <3>2. s = p
      BY <2>2
    <3> HIDE DEF p, s, q
    <3> QED
      BY <3>1, <3>2
  <2> QED
    BY <2>1, <2>2
<1> HIDE DEF q, s
<1>3. Stage(s) /\ InputFits(s) /\ WritesTyped(s) /\ FailureKnown(s)
  BY <1>1, <1>2 DEF RequestFits, Stage, InputFits, MutableAt, WritesTyped, FailureKnown, SameCall, SameFate
<1> QED
  BY <1>2, <1>3 DEF q, s, Stage, InputFits, MutableAt, Marked, WritesTyped, FailureKnown

\* What a transaction has locked, or reads from a snapshot that is still
\* fresh, stays.
Kept(id) == rows'[id] = rows[id] /\ latest'[id] = latest[id]
KeptRecord(n) == (bin[n] = None <=> bin'[n] = None) /\ (bin[n] # None => bin'[n].rows = bin[n].rows)
StillFresh(h) == settings.dialect = "sqlite" /\ reqs'[h].snapshot = "fresh"

Undisturbed(h) ==
  /\ reqs'[h] \in {reqs[h], [reqs[h] EXCEPT !.snapshot = "stale"]}
  /\ settings.softDelete =>
       /\ \A id \in Ids : Owns(reqs[h], RowKey(id)) \/ StillFresh(h) => Kept(id)
       /\ \A n \in Records : Owns(reqs[h], BinKey(n)) \/ StillFresh(h) => KeptRecord(n)

LEMMA TrackedStill ==
  ASSUME Inv, settings.softDelete, NEW h \in Goroutines,
         settings' = settings, nextId' = nextId, nextRecord' = nextRecord, Undisturbed(h)
  PROVE  Tracked(reqs[h])'
<1> DEFINE q == reqs[h]
           s == reqs'[h]
<1>1. RequestFits(q) /\ Shaped(q) /\ WritesOwned(q) /\ Reads(q) /\ Writing(q) /\ WritesTyped(q)
  BY InvFits DEF RequestFits
<1>0. s \in {q, [q EXCEPT !.snapshot = "stale"]}
  BY DEF Undisturbed
<1>2. /\ SameCall(q, s) /\ s.pc = q.pc /\ s.work = q.work /\ s.at = q.at
      /\ s.held = q.held /\ s.rows = q.rows /\ s.archive = q.archive /\ s.bin = q.bin /\ s.snapshot \in {q.snapshot, "stale"}
  <2>1. CASE s = q
    BY <1>1, <2>1 DEF SameCall
  <2>2. CASE s = [q EXCEPT !.snapshot = "stale"]
    <3> DEFINE p == [q EXCEPT !.snapshot = "stale"]
    <3>1. /\ SameCall(q, p) /\ p.pc = q.pc /\ p.work = q.work /\ p.at = q.at
          /\ p.held = q.held /\ p.rows = q.rows /\ p.archive = q.archive /\ p.bin = q.bin /\ p.snapshot = "stale"
      BY <1>1, Staled
    <3>2. s = p
      BY <2>2
    <3> HIDE DEF p, s, q
    <3> QED
      BY <3>1, <3>2
  <2> QED
    BY <1>0, <2>1, <2>2
<1>3. /\ \A id \in Ids : Owns(q, RowKey(id)) => rows'[id] = rows[id] /\ latest'[id] = latest[id]
      /\ \A n \in Records : Owns(q, BinKey(n)) =>
           (bin[n] = None <=> bin'[n] = None) /\ (bin[n] # None => bin'[n].rows = bin[n].rows)
  BY DEF Undisturbed, Kept, KeptRecord
<1>4. ASSUME settings.dialect = "sqlite", s.snapshot = "fresh"
      PROVE  /\ \A id \in Ids : rows'[id] = rows[id]
             /\ \A n \in Records : (bin[n] = None <=> bin'[n] = None) /\ (bin[n] # None => bin'[n].rows = bin[n].rows)
  BY <1>4 DEF Undisturbed, StillFresh, Kept, KeptRecord
<1>5. \A key : Owns(reqs[h], key)' <=> Owns(q, key)
  BY <1>2 DEF Owns, Keys
<1> HIDE DEF q, s
<1>6. (\A id \in DOMAIN q.rows : id \in Ids /\ Owns(q, RowKey(id))) /\ (\A n \in DOMAIN q.bin : n \in Records /\ Owns(q, BinKey(n)))
  BY <1>1 DEF WritesOwned, WritesTyped
<1>7. WritesOwned(reqs[h])'
  BY <1>1, <1>2, <1>5 DEF WritesOwned, s
<1>8. (Archived(q) /\ OwnsRows(q)) => Archived(reqs[h])' /\ OwnsRows(reqs[h])'
  BY <1>2, <1>3, <1>5 DEF Archived, OwnsRows, s
<1>9. Recorded(q) => Recorded(reqs[h])'
  BY <1>2, <1>3, <1>6 DEF Recorded, s
<1>10. (Opened(q) /\ Owns(q, BinKey(q.work[q.at]))) => Opened(reqs[h])'
  BY <1>2, <1>3 DEF Opened, s
<1>11. Revived(q) => Revived(reqs[h])'
  BY <1>2 DEF Revived, s
<1>12. CASE q.pc = "record"
  <2>1. s.snapshot \in {"fresh", "stale"} /\ (settings.dialect # "sqlite" => OwnsRows(reqs[h])')
    BY <1>1, <1>2, <1>5, <1>12 DEF Reads, OwnsRows, s
  <2>2. (Stale(reqs[h]) \/ Archived(reqs[h]))'
    <3>1. CASE settings.dialect # "sqlite"
      BY <1>1, <1>8, <1>12, <3>1 DEF Reads, Stale
    <3>2. CASE settings.dialect = "sqlite" /\ s.snapshot = "stale"
      BY <3>2 DEF Stale, s
    <3>3. CASE settings.dialect = "sqlite" /\ s.snapshot = "fresh"
      <4>1. Archived(q)
        BY <1>1, <1>2, <1>12, <3>3 DEF Reads, Stale
      <4> QED
        BY <1>2, <1>4, <3>3, <4>1 DEF Archived, s
    <3> QED
      BY <2>1, <3>1, <3>2, <3>3
  <2>3. Untouched(reqs[h])'
    BY <1>1, <1>2, <1>12 DEF Writing, Unwritten, Untouched, s
  <2> QED
    BY <1>2, <1>7, <1>12, <2>1, <2>2, <2>3 DEF Tracked, Reads, Writing, Unwritten, s
<1>13. CASE q.pc = "revive"
  <2>1. s.snapshot \in {"fresh", "stale"} /\ (settings.dialect # "sqlite" => Owns(q, BinKey(q.work[q.at])))
    BY <1>1, <1>2, <1>13 DEF Reads
  <2>2. (Stale(reqs[h]) \/ Opened(reqs[h]))'
    <3>1. CASE settings.dialect # "sqlite"
      BY <1>1, <1>10, <1>13, <2>1, <3>1 DEF Reads, Stale
    <3>2. CASE settings.dialect = "sqlite" /\ s.snapshot = "stale"
      BY <3>2 DEF Stale, s
    <3>3. CASE settings.dialect = "sqlite" /\ s.snapshot = "fresh"
      <4>1. Opened(q)
        BY <1>1, <1>2, <1>13, <3>3 DEF Reads, Stale
      <4> QED
        BY <1>2, <1>4, <3>3, <4>1 DEF Opened, s
    <3> QED
      BY <2>1, <3>1, <3>2, <3>3
  <2>3. Reviving(reqs[h])'
    BY <1>1, <1>2, <1>13 DEF Writing, Reviving, s
  <2>4. (settings.dialect # "sqlite" => Owns(reqs[h], BinKey(reqs[h].work[reqs[h].at])))'
    BY <1>2, <2>1 DEF Owns, Keys, BinKey, s
  <2> QED
    BY <1>2, <1>7, <1>13, <2>1, <2>2, <2>3, <2>4 DEF Tracked, Reads, Writing, Unwritten, s
<1>14. CASE q.pc = "erase"
  <2>1. DOMAIN q.rows = {} /\ Recorded(q) /\ Archived(q) /\ OwnsRows(q)
    BY <1>1, <1>14 DEF Reads
  <2>2. (DOMAIN reqs[h].rows = {} /\ Recorded(reqs[h]) /\ Archived(reqs[h]) /\ OwnsRows(reqs[h]))'
    BY <1>2, <1>8, <1>9, <2>1 DEF s
  <2> QED
    BY <1>2, <1>7, <1>14, <2>2 DEF Tracked, Reads, Writing, Unwritten, s
<1>15. CASE q.pc = "drop"
  <2>1. DOMAIN q.bin = {} /\ Opened(q) /\ Revived(q) /\ Owns(q, BinKey(q.work[q.at]))
    BY <1>1, <1>15 DEF Reads
  <2>2. (DOMAIN reqs[h].bin = {} /\ Opened(reqs[h]) /\ Revived(reqs[h]))'
    BY <1>2, <1>10, <1>11, <2>1 DEF s
  <2>3. Owns(reqs[h], BinKey(reqs[h].work[reqs[h].at]))'
    BY <1>2, <2>1 DEF Owns, Keys, BinKey, s
  <2> QED
    BY <1>2, <1>7, <1>15, <2>2, <2>3 DEF Tracked, Reads, Writing, Unwritten, s
<1>16. CASE q.pc \notin {"record", "revive", "erase", "drop"}
  <2>1. Reads(reqs[h])'
    BY <1>2, <1>16 DEF Reads, s
  <2>2. Untouched(q) => Untouched(reqs[h])'
    BY <1>2 DEF Untouched, s
  <2>3. Inserts(q) => Inserts(reqs[h])'
    BY <1>2, <1>3, <1>6 DEF Inserts, s
  <2>4. Replaces(q) => Replaces(reqs[h])'
    BY <1>2, <1>3, <1>6 DEF Replaces, s
  <2>5. Deletes(q) => Deletes(reqs[h])'
    <3> SUFFICES ASSUME Deletes(q) PROVE Deletes(reqs[h])'
      OBVIOUS
    <3>1. Recorded(q) /\ Archived(q) /\ OwnsRows(q)
      BY <1>6 DEF Deletes, OwnsRows
    <3> QED
      BY <1>2, <1>8, <1>9, <3>1 DEF Deletes, s
  <2>6. Restores(q) => Restores(reqs[h])'
    BY <1>2, <1>6, <1>10, <1>11 DEF Restores, s
  <2>7. Writing(reqs[h])'
    BY <1>1, <1>2, <1>16, <2>2, <2>3, <2>4, <2>5, <2>6 DEF Writing, SameCall, s
  <2> QED
    BY <1>7, <2>1, <2>7 DEF Tracked
<1> QED
  BY <1>12, <1>13, <1>14, <1>15, <1>16

\* Two transactions never own the same key.
LEMMA OwnedByOne ==
  ASSUME Inv, settings.softDelete, NEW g \in Goroutines, NEW h \in Goroutines, g # h
  PROVE  /\ \A id \in DOMAIN reqs[g].rows : ~Owns(reqs[h], RowKey(id))
         /\ \A n \in DOMAIN reqs[g].bin : ~Owns(reqs[h], BinKey(n))
<1>1. WritesOwned(reqs[g]) /\ reqs[g].held \cap reqs[h].held = {}
  BY InvFits
<1>2. \A key : Keys({key}) # {}
  BY DEF Keys
<1> QED
  BY <1>1, <1>2 DEF WritesOwned, Owns

\* A commit of inserts and updates, or of nothing.
LEMMA WritesConserve ==
  ASSUME Inv, settings.softDelete, NEW g \in Goroutines, reqs[g].action # "restore",
         Inserts(reqs[g]) \/ Replaces(reqs[g]), NEW after, Apply(g, after),
         nextId' = nextId, nextRecord' = nextRecord
  PROVE  Conserved'
<1> DEFINE r == reqs[g]
           D == DOMAIN r.rows
<1>0. /\ WritesTyped(r) /\ WritesOwned(r) /\ Conserved /\ DOMAIN r.bin = {} /\ (\A id \in D : r.rows[id] # None)
      /\ rows \in [Ids -> Row \cup {None}] /\ latest \in [Ids -> Row \cup {None}] /\ bin \in [Records -> RecordOf \cup {None}]
      /\ D \subseteq Ids
  BY InvFits DEF RequestFits, Inv, TypeOK, Inserts, Replaces, WritesTyped
<1>1. \A id \in D : rows[id] # None \/ latest[id] = None
  BY DEF Inserts, Replaces
<1>2. bin' = bin /\ purged' = purged
  <2>1. bin' = Override(r.bin, bin) /\ purged' = purged
    BY DEF Apply
  <2> QED
    BY <1>0, <2>1 DEF Override
<1>3. /\ \A id \in D : rows'[id] = r.rows[id] /\ latest'[id] = r.rows[id]
      /\ \A id \in Ids \ D : rows'[id] = rows[id] /\ latest'[id] = latest[id]
  <2> DEFINE written == [id \in {i \in D : r.rows[i] # None} |-> r.rows[id]]
  <2>1. rows' = Override(r.rows, rows) /\ latest' = Override(written, latest)
    BY DEF Apply
  <2>2. DOMAIN written = D /\ \A id \in D : written[id] = r.rows[id]
    BY <1>0
  <2>3. DOMAIN rows = Ids /\ DOMAIN latest = Ids
    BY <1>0
  <2> HIDE DEF written
  <2> QED
    BY <2>1, <2>2, <2>3 DEF Override
<1> HIDE DEF D
<1>4. RowsAreLatest' /\ KeysAreNew'
  BY <1>0, <1>2, <1>3 DEF Conserved, RowsAreLatest, KeysAreNew, WritesOwned, D
<1>5. ASSUME NEW n \in Records, bin[n] # None, NEW row \in bin[n].rows
      PROVE  row.id \in Ids \ D /\ row = latest[row.id] /\ rows[row.id] = None /\ row.id \notin purged
  <2>1. row = latest[row.id] /\ rows[row.id] = None /\ row.id \notin purged
    BY <1>0, <1>5 DEF Conserved, ArchivesAreLatest
  <2>2. row \in Row /\ row.id \in Ids /\ row # None
    BY <1>0, <1>5, EntityAssumption DEF RecordOf, Record, Row
  <2> QED
    BY <1>1, <2>1, <2>2
<1>6. ArchivesAreLatest'
  BY <1>2, <1>3, <1>5 DEF ArchivesAreLatest
<1>7. ArchivedOnce'
  BY <1>0, <1>2 DEF Conserved, ArchivedOnce
<1>8. PurgedAreGone'
  BY <1>0, <1>1, <1>2, <1>3 DEF Conserved, PurgedAreGone
<1>9. NothingLost'
  BY <1>0, <1>2, <1>3 DEF Conserved, NothingLost
<1> QED
  BY <1>4, <1>6, <1>7, <1>8, <1>9 DEF Conserved

\* A commit of a delete: its rows move to a new record.
LEMMA DeletesConserve ==
  ASSUME Inv, settings.softDelete, NEW g \in Goroutines, reqs[g].action # "restore",
         Deletes(reqs[g]), NEW after, Apply(g, after), nextId' = nextId, nextRecord' = nextRecord
  PROVE  Conserved'
<1> DEFINE r == reqs[g]
<1>0. /\ WritesTyped(r) /\ WritesOwned(r) /\ Conserved
      /\ rows \in [Ids -> Row \cup {None}] /\ latest \in [Ids -> Row \cup {None}] /\ bin \in [Records -> RecordOf \cup {None}]
      /\ \A id \in Ids : rows[id] \in RowOf(id) \cup {None}
  BY InvFits DEF RequestFits, Inv, TypeOK
<1>1. /\ Archived(r) /\ DOMAIN r.rows = r.work /\ r.work \subseteq Ids /\ \A id \in DOMAIN r.rows : r.rows[id] = None
  BY DEF Deletes, Archived
<1>2. PICK n \in Records : DOMAIN r.bin = {n} /\ bin[n] = None /\ r.bin[n] # None /\ r.bin[n].rows = r.archive
  BY DEF Deletes, Recorded
<1>3. purged' = purged /\ latest' = latest
  <2> DEFINE written == [id \in {i \in DOMAIN r.rows : r.rows[i] # None} |-> r.rows[id]]
  <2>1. latest' = Override(written, latest) /\ purged' = purged
    BY DEF Apply
  <2>2. DOMAIN written = {}
    BY <1>1
  <2> HIDE DEF written
  <2> QED
    BY <1>0, <2>1, <2>2 DEF Override
<1>4. /\ \A id \in r.work : rows'[id] = None
      /\ \A id \in Ids \ r.work : rows'[id] = rows[id]
      /\ bin'[n] # None /\ bin'[n].rows = {rows[id] : id \in r.work}
      /\ \A m \in Records \ {n} : bin'[m] = bin[m]
  <2>1. rows' = Override(r.rows, rows) /\ bin' = Override(r.bin, bin)
    BY DEF Apply
  <2>2. DOMAIN rows = Ids /\ DOMAIN bin = Records
    BY <1>0
  <2>3. \A id \in Ids : rows'[id] = IF id \in r.work THEN None ELSE rows[id]
    BY <1>1, <2>1, <2>2 DEF Override
  <2>4. \A m \in Records : bin'[m] = IF m = n THEN r.bin[n] ELSE bin[m]
    BY <1>2, <2>1, <2>2 DEF Override
  <2>5. r.archive = {rows[id] : id \in r.work}
    BY <1>1 DEF Archived
  <2> QED
    BY <1>1, <1>2, <2>3, <2>4, <2>5
<1>5. ASSUME NEW id \in r.work
      PROVE  id \in Ids /\ rows[id] # None /\ rows[id].id = id /\ latest[id] = rows[id] /\ id \notin purged
  <2>1. id \in Ids /\ rows[id] # None
    BY <1>1, <1>5 DEF Archived
  <2> QED
    BY <1>0, <2>1, RowsAreRows DEF Conserved, RowsAreLatest, PurgedAreGone
<1>6. ASSUME NEW m \in Records \ {n}, bin'[m] # None, NEW row \in bin'[m].rows
      PROVE  row \in bin[m].rows /\ bin[m] # None /\ row.id \in Ids /\ row = latest[row.id] /\ rows[row.id] = None /\ row.id \notin purged
  <2>1. row \in bin[m].rows /\ bin[m] # None
    BY <1>4, <1>6
  <2>2. row.id \in Ids
    BY <1>0, <2>1 DEF RecordOf, Record, Row
  <2> QED
    BY <1>0, <2>1, <2>2 DEF Conserved, ArchivesAreLatest
<1>7. RowsAreLatest' /\ PurgedAreGone'
  BY <1>0, <1>3, <1>4 DEF Conserved, RowsAreLatest, PurgedAreGone
<1>8. KeysAreNew'
  <2>1. n < nextRecord
    BY <1>0, <1>2 DEF WritesOwned
  <2> QED
    BY <1>0, <1>3, <1>4, <2>1 DEF Conserved, KeysAreNew
<1>9. ArchivesAreLatest'
  <2> SUFFICES ASSUME NEW m \in Records, bin'[m] # None, NEW row \in bin'[m].rows
               PROVE  row = latest[row.id] /\ rows'[row.id] = None /\ row.id \notin purged
    BY <1>3 DEF ArchivesAreLatest
  <2>1. CASE m = n
    BY <1>4, <1>5, <2>1
  <2>2. CASE m # n
    BY <1>1, <1>4, <1>6, <2>2
  <2> QED
    BY <2>1, <2>2
<1>10. ArchivedOnce'
  <2> SUFFICES ASSUME NEW m \in Records, NEW k \in Records, bin'[m] # None, bin'[k] # None,
                      NEW row \in bin'[m].rows, NEW other \in bin'[k].rows, row.id = other.id
               PROVE  m = k
    BY DEF ArchivedOnce
  <2>1. CASE m # n /\ k # n
    BY <1>0, <1>6, <2>1 DEF Conserved, ArchivedOnce
  <2>2. CASE m = n /\ k # n
    BY <1>4, <1>5, <1>6, <2>2
  <2>3. CASE m # n /\ k = n
    BY <1>4, <1>5, <1>6, <2>3
  <2> QED
    BY <2>1, <2>2, <2>3
<1>11. NothingLost'
  <2> SUFFICES ASSUME NEW id \in Ids, latest[id] # None
               PROVE  rows'[id] # None \/ id \in purged \/ \E m \in Records : bin'[m] # None /\ latest[id] \in bin'[m].rows
    BY <1>3 DEF NothingLost
  <2>1. CASE id \in r.work
    BY <1>4, <1>5, <2>1
  <2>2. CASE id \notin r.work
    <3>1. rows[id] # None \/ id \in purged \/ \E m \in Records : bin[m] # None /\ latest[id] \in bin[m].rows
      BY <1>0 DEF Conserved, NothingLost
    <3> QED
      BY <1>2, <1>4, <2>2, <3>1
  <2> QED
    BY <2>1, <2>2
<1> QED
  BY <1>7, <1>8, <1>9, <1>10, <1>11 DEF Conserved

\* A commit of a restore: the rows of a record move back.
LEMMA RestoresConserve ==
  ASSUME Inv, settings.softDelete, NEW g \in Goroutines, reqs[g].action = "restore",
         Restores(reqs[g]), NEW after, Apply(g, after), nextId' = nextId, nextRecord' = nextRecord
  PROVE  Conserved'
<1> DEFINE r == reqs[g]
           n == r.work[r.at]
           ids == {row.id : row \in bin[n].rows}
<1>0. /\ WritesTyped(r) /\ Conserved
      /\ rows \in [Ids -> Row \cup {None}] /\ latest \in [Ids -> Row \cup {None}] /\ bin \in [Records -> RecordOf \cup {None}]
      /\ \A id \in Ids : latest[id] \in RowOf(id) \cup {None}
  BY InvFits DEF RequestFits, Inv, TypeOK
<1>1. /\ n \in Records /\ bin[n] # None /\ r.archive = bin[n].rows /\ DOMAIN r.rows = ids
      /\ \A row \in bin[n].rows : r.rows[row.id] = row
      /\ DOMAIN r.bin = {n} /\ r.bin[n] = None
  BY DEF Restores, Opened, Revived
<1>2. latest' = latest /\ purged' = purged
  BY DEF Apply
<1>3. ASSUME NEW m \in Records, bin[m] # None, NEW row \in bin[m].rows
      PROVE  row \in Row /\ row # None /\ row.id \in Ids /\ row = latest[row.id] /\ rows[row.id] = None /\ row.id \notin purged
  <2>1. row \in Row /\ row # None /\ row.id \in Ids
    BY <1>0, <1>3, EntityAssumption, SMTT(40) DEF RecordOf, Record, Row
  <2> QED
    BY <1>0, <1>3, <2>1 DEF Conserved, ArchivesAreLatest
<1>4. /\ \A row \in bin[n].rows : rows'[row.id] = row
      /\ \A id \in Ids \ ids : rows'[id] = rows[id]
      /\ bin'[n] = None /\ \A m \in Records \ {n} : bin'[m] = bin[m]
  <2>1. rows' = Override(r.rows, rows) /\ bin' = Override(r.bin, bin)
    BY DEF Apply
  <2>2. DOMAIN rows = Ids /\ DOMAIN bin = Records
    BY <1>0
  <2>3. \A id \in Ids : rows'[id] = IF id \in ids THEN r.rows[id] ELSE rows[id]
    BY <1>1, <2>1, <2>2, ZenonT(40) DEF Override
  <2>4. \A m \in Records : bin'[m] = IF m = n THEN None ELSE bin[m]
    BY <1>1, <2>1, <2>2, ZenonT(40) DEF Override
  <2>5. \A row \in bin[n].rows : row.id \in ids /\ row.id \in Ids
    BY <1>1, <1>3
  <2> QED
    BY <1>1, <2>3, <2>4, <2>5, ZenonT(40)
<1>5. \A id \in ids : \E row \in bin[n].rows : row.id = id
  OBVIOUS
<1> HIDE DEF n, ids
<1>6. RowsAreLatest'
  <2> SUFFICES ASSUME NEW id \in Ids PROVE rows'[id] \in {None, latest[id]}
    BY <1>2 DEF RowsAreLatest
  <2>1. CASE id \in ids
    BY <1>1, <1>3, <1>4, <1>5, <2>1
  <2>2. CASE id \notin ids
    BY <1>0, <1>4, <2>2 DEF Conserved, RowsAreLatest
  <2> QED
    BY <2>1, <2>2
<1>7. PurgedAreGone'
  <2> SUFFICES ASSUME NEW id \in Ids, id \in purged PROVE rows'[id] = None /\ latest[id] # None
    BY <1>2 DEF PurgedAreGone
  <2>1. id \notin ids
    BY <1>1, <1>3, <1>5
  <2> QED
    BY <1>0, <1>4, <2>1 DEF Conserved, PurgedAreGone
<1>8. ArchivesAreLatest'
  <2> SUFFICES ASSUME NEW m \in Records, bin'[m] # None, NEW row \in bin'[m].rows
               PROVE  row = latest[row.id] /\ rows'[row.id] = None /\ row.id \notin purged
    BY <1>2 DEF ArchivesAreLatest
  <2>1. m # n /\ bin[m] # None /\ row \in bin[m].rows
    BY <1>4
  <2>2. row.id \notin ids
    BY <1>0, <1>1, <1>5, <2>1 DEF Conserved, ArchivedOnce
  <2> QED
    BY <1>3, <1>4, <2>1, <2>2
<1>9. ArchivedOnce' /\ KeysAreNew'
  BY <1>0, <1>1, <1>2, <1>4 DEF Conserved, ArchivedOnce, KeysAreNew
<1>10. NothingLost'
  <2> SUFFICES ASSUME NEW id \in Ids, latest[id] # None
               PROVE  rows'[id] # None \/ id \in purged \/ \E m \in Records : bin'[m] # None /\ latest[id] \in bin'[m].rows
    BY <1>2 DEF NothingLost
  <2>1. CASE id \in ids
    BY <1>1, <1>3, <1>4, <1>5, <2>1
  <2>2. CASE id \notin ids
    <3>1. latest[id].id = id
      BY <1>0, RowsAreRows
    <3>2. latest[id] \notin bin[n].rows
      BY <2>2, <3>1 DEF ids
    <3>3. rows[id] # None \/ id \in purged \/ \E m \in Records : bin[m] # None /\ latest[id] \in bin[m].rows
      BY <1>0 DEF Conserved, NothingLost
    <3> QED
      BY <1>4, <2>2, <3>2, <3>3
  <2> QED
    BY <2>1, <2>2
<1> QED
  BY <1>6, <1>7, <1>8, <1>9, <1>10 DEF Conserved

\* A request that is not in a transaction, and a step that leaves every other
\* one with what it has locked and read.
Fresh(r) ==
  /\ Stage(r) /\ InputFits(r) /\ FailureKnown(r)
  /\ DOMAIN r.rows = {} /\ DOMAIN r.bin = {} /\ r.archive = {} /\ r.held = {} /\ r.pc \in {"idle", "answered", "begin"}

LEMMA OthersKeepInv ==
  ASSUME Inv, settings' = settings, nextId' = nextId, nextRecord' = nextRecord,
         rows' \in [Ids -> Row \cup {None}], \A id \in Ids : rows'[id] \in RowOf(id) \cup {None},
         latest' \in [Ids -> Row \cup {None}], \A id \in Ids : latest'[id] \in RowOf(id) \cup {None},
         bin' \in [Records -> RecordOf \cup {None}],
         reqs' = [h \in Goroutines |-> reqs'[h]],
         \A h \in Goroutines : Undisturbed(h) \/ Fresh(reqs[h])',
         settings.softDelete => Conserved'
  PROVE  Inv'
<1>1. nextId \in Nat /\ nextRecord \in Nat /\ settings \in Settings
  BY DEF Inv, TypeOK
<1>2. ASSUME NEW h \in Goroutines
      PROVE  /\ (Stage(reqs[h]) /\ InputFits(reqs[h]) /\ WritesTyped(reqs[h]) /\ FailureKnown(reqs[h]))'
             /\ reqs'[h].held \subseteq reqs[h].held
             /\ settings.softDelete => Tracked(reqs[h])'
  <2>1. CASE Undisturbed(h)
    <3>1. reqs'[h] \in {reqs[h], [reqs[h] EXCEPT !.snapshot = "stale"]}
      BY <2>1 DEF Undisturbed
    <3> QED
      BY <2>1, <3>1, StaledFits, TrackedStill
  <2>2. CASE Fresh(reqs[h])'
    BY <2>2 DEF Fresh, WritesTyped, Tracked, WritesOwned, Reads, Writing, Untouched
  <2> QED
    BY <2>1, <2>2
<1>3. TypeOK'
  BY <1>1, <1>2 DEF TypeOK
<1>4. HeldApart'
  <2> SUFFICES ASSUME NEW h \in Goroutines, NEW k \in Goroutines, h # k PROVE reqs'[h].held \cap reqs'[k].held = {}
    BY DEF HeldApart
  <2>1. reqs[h].held \cap reqs[k].held = {}
    BY DEF Inv, HeldApart
  <2> QED
    BY <1>2, <2>1
<1> QED
  BY <1>2, <1>3, <1>4 DEF Inv

LEMMA ApplyKeepsInv ==
  ASSUME Inv, NEW g \in Goroutines, reqs[g].pc = "commit", reqs[g].failure = "ok",
         NEW after, Apply(g, after), Fresh(after),
         settings' = settings, nextId' = nextId, nextRecord' = nextRecord
  PROVE  Inv'
<1> DEFINE r == reqs[g]
           wrote == DOMAIN r.rows # {} \/ DOMAIN r.bin # {}
           written == [id \in {i \in DOMAIN r.rows : r.rows[i] # None} |-> r.rows[id]]
<1>1. /\ RequestFits(r) /\ WritesTyped(r)
      /\ rows \in [Ids -> Row \cup {None}] /\ \A id \in Ids : rows[id] \in RowOf(id) \cup {None}
      /\ latest \in [Ids -> Row \cup {None}] /\ \A id \in Ids : latest[id] \in RowOf(id) \cup {None}
      /\ bin \in [Records -> RecordOf \cup {None}] /\ reqs = [h \in Goroutines |-> reqs[h]]
  BY InvFits DEF RequestFits, Inv, TypeOK
<1>2. /\ rows' = Override(r.rows, rows) /\ bin' = Override(r.bin, bin)
      /\ latest' = latest \/ latest' = Override(written, latest)
  BY DEF Apply
<1>3. /\ DOMAIN r.rows \subseteq Ids /\ \A id \in DOMAIN r.rows : r.rows[id] \in RowOf(id) \cup {None}
      /\ DOMAIN r.bin \subseteq Records /\ \A n \in DOMAIN r.bin : r.bin[n] \in RecordOf \cup {None}
      /\ DOMAIN written \subseteq DOMAIN r.rows /\ \A id \in DOMAIN written : written[id] = r.rows[id]
  BY <1>1 DEF WritesTyped
<1> HIDE DEF written
<1>4. /\ DOMAIN rows' = Ids /\ \A id \in Ids : rows'[id] = IF id \in DOMAIN r.rows THEN r.rows[id] ELSE rows[id]
      /\ rows' = [id \in Ids |-> rows'[id]]
      /\ DOMAIN latest' = Ids /\ \A id \in Ids : latest'[id] = latest[id] \/ (id \in DOMAIN r.rows /\ latest'[id] = r.rows[id])
      /\ latest' = [id \in Ids |-> latest'[id]]
      /\ DOMAIN bin' = Records /\ \A n \in Records : bin'[n] = IF n \in DOMAIN r.bin THEN r.bin[n] ELSE bin[n]
      /\ bin' = [n \in Records |-> bin'[n]]
  <2>1. DOMAIN rows = Ids /\ DOMAIN latest = Ids /\ DOMAIN bin = Records
    BY <1>1
  <2>2. DOMAIN rows' = Ids /\ (\A id \in Ids : rows'[id] = IF id \in DOMAIN r.rows THEN r.rows[id] ELSE rows[id])
        /\ rows' = [id \in Ids |-> rows'[id]]
    BY <1>2, <1>3, <2>1 DEF Override
  <2>3. DOMAIN bin' = Records /\ (\A n \in Records : bin'[n] = IF n \in DOMAIN r.bin THEN r.bin[n] ELSE bin[n])
        /\ bin' = [n \in Records |-> bin'[n]]
    BY <1>2, <1>3, <2>1 DEF Override
  <2>4. DOMAIN latest' = Ids /\ (\A id \in Ids : latest'[id] = latest[id] \/ (id \in DOMAIN r.rows /\ latest'[id] = r.rows[id]))
        /\ latest' = [id \in Ids |-> latest'[id]]
    <3>1. CASE latest' = latest
      BY <1>1, <3>1
    <3>2. CASE latest' = Override(written, latest)
      BY <1>3, <2>1, <3>2 DEF Override
    <3> QED
      BY <1>2, <3>1, <3>2
  <2> QED
    BY <2>2, <2>3, <2>4
<1>5. /\ \A id \in Ids : rows'[id] \in RowOf(id) \cup {None} /\ latest'[id] \in RowOf(id) \cup {None}
      /\ \A n \in Records : bin'[n] \in RecordOf \cup {None}
  BY <1>1, <1>3, <1>4
<1>6. /\ rows' \in [Ids -> Row \cup {None}] /\ latest' \in [Ids -> Row \cup {None}]
      /\ bin' \in [Records -> RecordOf \cup {None}]
  BY <1>4, <1>5, RowsAreRows
<1>7. /\ reqs' = [h \in Goroutines |-> reqs'[h]] /\ reqs'[g] = after
      /\ \A h \in Goroutines \ {g} :
           reqs'[h] = IF wrote /\ reqs[h].snapshot = "fresh" THEN [reqs[h] EXCEPT !.snapshot = "stale"] ELSE reqs[h]
  BY DEF Apply
<1>8. ASSUME NEW h \in Goroutines \ {g} PROVE Undisturbed(h)
  <2>1. reqs'[h] \in {reqs[h], [reqs[h] EXCEPT !.snapshot = "stale"]}
    BY <1>7
  <2>2. ASSUME settings.softDelete, NEW id \in Ids, Owns(reqs[h], RowKey(id)) \/ StillFresh(h) PROVE Kept(id)
    <3>1. id \notin DOMAIN r.rows
      <4>1. CASE Owns(reqs[h], RowKey(id))
        BY <2>2, <4>1, OwnedByOne
      <4>2. CASE StillFresh(h)
        <5>1. Shaped(reqs[h])
          BY InvFits
        <5>2. ~wrote
          BY <1>7, <4>2, <5>1, Staled DEF StillFresh
        <5> QED
          BY <5>2
      <4> QED
        BY <2>2, <4>1, <4>2
    <3> QED
      BY <1>4, <3>1 DEF Kept
  <2>3. ASSUME settings.softDelete, NEW n \in Records, Owns(reqs[h], BinKey(n)) \/ StillFresh(h) PROVE KeptRecord(n)
    <3>1. n \notin DOMAIN r.bin
      <4>1. CASE Owns(reqs[h], BinKey(n))
        BY <2>3, <4>1, OwnedByOne
      <4>2. CASE StillFresh(h)
        <5>1. Shaped(reqs[h])
          BY InvFits
        <5>2. ~wrote
          BY <1>7, <4>2, <5>1, Staled DEF StillFresh
        <5> QED
          BY <5>2
      <4> QED
        BY <2>3, <4>1, <4>2
    <3> QED
      BY <1>4, <3>1 DEF KeptRecord
  <2> QED
    BY <2>1, <2>2, <2>3 DEF Undisturbed
<1>9. Fresh(reqs[g])'
  BY <1>7 DEF Fresh, Stage, InputFits, FailureKnown
<1>10. ASSUME settings.softDelete PROVE Conserved'
  <2>1. Writing(r)
    BY <1>1, <1>10 DEF RequestFits
  <2>2. CASE r.action = "restore"
    BY <1>10, <2>1, <2>2, RestoresConserve DEF Writing
  <2>3. CASE r.action = "delete" /\ Deletes(r)
    BY <1>10, <2>3, DeletesConserve
  <2>4. CASE r.action # "restore" /\ ~(r.action = "delete" /\ Deletes(r))
    <3>1. Inserts(r) \/ Replaces(r)
      BY <2>1, <2>4 DEF Writing, Untouched, Inserts, Replaces
    <3> QED
      BY <1>10, <2>4, <3>1, WritesConserve
  <2> QED
    BY <2>2, <2>3, <2>4
<1> QED
  BY <1>5, <1>6, <1>7, <1>8, <1>9, <1>10, OthersKeepInv

LEMMA CommitKeepsInv ==
  ASSUME Inv, NEW g \in Goroutines, Commit(g) \/ CommitFails(g)
  PROVE  Inv'
<1> DEFINE r == reqs[g]
           committed == [r EXCEPT !.committed = TRUE]
           broken == [r EXCEPT !.broken = TRUE]
<1>1. RequestFits(r) /\ Shaped(r) /\ r.pc = "commit" /\ r.failure = "ok"
  BY InvFits DEF Commit, CommitFails
<1>2. /\ Shaped(committed) /\ SameCall(r, committed) /\ committed.broken = r.broken /\ committed.committed = TRUE
      /\ Shaped(broken) /\ SameCall(r, broken) /\ broken.broken = TRUE /\ broken.committed = r.committed
  BY <1>1, Parts DEF Shaped, SameCall
<1> HIDE DEF committed, broken
<1>3. ~r.broken /\ (r.action # "restore" => ~r.committed) /\ (r.action = "restore" => settings.softDelete)
      /\ r.option \in DOMAIN Options
  BY <1>1 DEF RequestFits, FailureKnown, Stage
<1>4. ASSUME NEW q, Shaped(q), SameCall(r, q), NEW class,
             \/ class = "ok" /\ ~q.broken /\ q.committed
             \/ class = "unknown" /\ (q.broken => q.committed = r.committed)
      PROVE  Fresh(Returned(q, class))
  <2> DEFINE s == Returned(q, class)
  <2>1. /\ Shaped(s) /\ SameCall(q, s) /\ s.broken = q.broken /\ s.committed = q.committed
        /\ DOMAIN s.rows = {} /\ DOMAIN s.bin = {} /\ s.held = {} /\ s.archive = {}
        /\ \/ s.pc = "begin" /\ s.failure = "ok" /\ q.action = "restore" /\ class \in {"ok", "missing"}
           \/ /\ s.pc = "answered"
              /\ s.answer = (IF q.action # "restore" THEN class ELSE IF class \in {"ok", "missing"} THEN "ok" ELSE "core")
    BY <1>4, ReturnedFacts
  <2> HIDE DEF s
  <2>2. Stage(s) /\ InputFits(s)
    BY <1>3, <1>4, <2>1 DEF Stage, InputFits, SameCall
  <2>3. FailureKnown(s)
    BY <1>3, <1>4, <2>1 DEF FailureKnown, SameCall
  <2> QED
    BY <2>1, <2>2, <2>3 DEF Fresh, s
<1>5. CASE Commit(g)
  <2> DEFINE class == "ok"
             s == Returned(committed, class)
  <2>1. Apply(g, s) /\ settings' = settings /\ nextId' = nextId /\ nextRecord' = nextRecord
    BY <1>5 DEF Commit, committed
  <2>2. class = "ok"
    OBVIOUS
  <2> HIDE DEF class
  <2>3. Fresh(s)
    BY <1>2, <1>3, <1>4, <2>2
  <2> HIDE DEF s
  <2> QED
    BY <1>1, <2>1, <2>3, ApplyKeepsInv
<1>6. CASE CommitFails(g)
  <2> DEFINE class == "unknown"
             s == Returned(committed, class)
             t == Returned(broken, class)
  <2>1. /\ settings' = settings /\ nextId' = nextId /\ nextRecord' = nextRecord
        /\ \/ SetReq(g, t) /\ UNCHANGED Committed
           \/ Apply(g, s)
    BY <1>6 DEF CommitFails, committed, broken, Committed
  <2>2. class = "unknown"
    OBVIOUS
  <2> HIDE DEF class
  <2>3. Fresh(s) /\ Fresh(t)
    BY <1>2, <1>3, <1>4, <2>2
  <2> HIDE DEF s, t
  <2>4. CASE Apply(g, s)
    BY <1>1, <2>1, <2>3, <2>4, ApplyKeepsInv
  <2>5. CASE SetReq(g, t) /\ UNCHANGED Committed
    <3>1. UNCHANGED << Committed, nextId, nextRecord >>
      BY <2>1, <2>5
    <3> QED
      BY <2>3, <2>5, <3>1, FreshKeepsInv DEF Fresh
  <2> QED
    BY <2>1, <2>4, <2>5
<1> QED
  BY <1>5, <1>6

-----------------------------------------------------------------------------
(* The cleanup job, a killed process, and the database at start.           *)

LEMMA AgeKeepsInv ==
  ASSUME Inv, NEW n \in Records, Age(n)
  PROVE  Inv'
<1>1. /\ bin[n] # None /\ bin' = [bin EXCEPT ![n].expired = TRUE]
      /\ rows' = rows /\ latest' = latest /\ purged' = purged /\ reqs' = reqs
      /\ settings' = settings /\ nextId' = nextId /\ nextRecord' = nextRecord
  BY DEF Age
<1>2. TypeOK
  BY DEF Inv
<1>3. [bin[n] EXCEPT !.expired = TRUE] \in RecordOf /\ [bin[n] EXCEPT !.expired = TRUE].rows = bin[n].rows
  BY <1>1, <1>2 DEF TypeOK, RecordOf, Record
<1>4. /\ bin' \in [Records -> RecordOf \cup {None}]
      /\ \A m \in Records : (bin[m] = None <=> bin'[m] = None) /\ (bin[m] # None => bin'[m].rows = bin[m].rows)
  BY <1>1, <1>2, <1>3, RowsAreRows DEF TypeOK
<1>5. \A h \in Goroutines : Undisturbed(h)
  BY <1>1, <1>4 DEF Undisturbed, Kept, KeptRecord
<1>6. ASSUME settings.softDelete PROVE Conserved'
  <2>1. Conserved
    BY <1>6 DEF Inv
  <2>2. RowsAreLatest' /\ PurgedAreGone'
    BY <1>1, <2>1 DEF Conserved, RowsAreLatest, PurgedAreGone
  <2>3. ArchivesAreLatest' /\ ArchivedOnce'
    BY <1>1, <1>4, <2>1 DEF Conserved, ArchivesAreLatest, ArchivedOnce
  <2>4. NothingLost' /\ KeysAreNew'
    BY <1>1, <1>4, <2>1 DEF Conserved, NothingLost, KeysAreNew
  <2> QED
    BY <2>2, <2>3, <2>4 DEF Conserved
<1> QED
  BY <1>1, <1>2, <1>4, <1>5, <1>6, OthersKeepInv DEF TypeOK

LEMMA ClearKeepsInv ==
  ASSUME Inv, ClearExpired
  PROVE  Inv'
<1> DEFINE expired == {n \in Records : bin[n] # None /\ bin[n].expired}
           gone == UNION {bin[n].rows : n \in {m \in Records : m \in expired}}
<1>1. /\ settings.softDelete
      /\ \A h \in Goroutines : reqs[h].held \cap Keys({BinKey(n) : n \in expired}) = {}
      /\ bin' = [n \in Records |-> IF n \in expired THEN None ELSE bin[n]]
      /\ purged' = purged \cup {row.id : row \in gone}
      /\ rows' = rows /\ latest' = latest /\ settings' = settings /\ nextId' = nextId /\ nextRecord' = nextRecord
      /\ reqs' = [h \in Goroutines |-> IF reqs[h].snapshot = "fresh" THEN [reqs[h] EXCEPT !.snapshot = "stale"] ELSE reqs[h]]
  BY DEF ClearExpired
<1>2. TypeOK /\ Conserved
  BY <1>1 DEF Inv
<1>3. bin' \in [Records -> RecordOf \cup {None}]
  BY <1>1, <1>2 DEF TypeOK
<1>4. ASSUME NEW h \in Goroutines PROVE Undisturbed(h)
  <2>1. reqs'[h] = IF reqs[h].snapshot = "fresh" THEN [reqs[h] EXCEPT !.snapshot = "stale"] ELSE reqs[h]
    BY <1>1
  <2>2. ~StillFresh(h)
    <3>1. Shaped(reqs[h])
      BY InvFits
    <3> QED
      BY <2>1, <3>1, Staled DEF StillFresh
  <2>3. ASSUME NEW n \in Records, Owns(reqs[h], BinKey(n)) PROVE KeptRecord(n)
    <3>1. n \notin expired
      <4> SUFFICES ASSUME n \in expired PROVE FALSE
        OBVIOUS
      <4>1. BinKey(n) \in {BinKey(m) : m \in expired}
        OBVIOUS
      <4>2. Keys({BinKey(n)}) \subseteq Keys({BinKey(m) : m \in expired}) /\ Keys({BinKey(n)}) # {}
        BY <4>1 DEF Keys
      <4> QED
        BY <1>1, <2>3, <4>2 DEF Owns
    <3> QED
      BY <1>1, <3>1 DEF KeptRecord
  <2> QED
    BY <1>1, <2>1, <2>2, <2>3 DEF Undisturbed, Kept
<1>5. Conserved'
  <2>1. \A n \in Records : bin'[n] # None => n \notin expired /\ bin[n] # None /\ bin'[n] = bin[n]
    BY <1>1
  <2>2. \A n \in expired : n \in Records /\ bin[n] # None /\ \A row \in bin[n].rows : row \in gone
    OBVIOUS
  <2>3. \A row \in gone : \E n \in expired : row \in bin[n].rows
    OBVIOUS
  <2> HIDE DEF expired, gone
  <2>4. RowsAreLatest' /\ KeysAreNew' /\ ArchivedOnce'
    BY <1>1, <1>2, <2>1 DEF Conserved, RowsAreLatest, KeysAreNew, ArchivedOnce
  <2>5. ASSUME NEW row \in gone PROVE row = latest[row.id] /\ rows[row.id] = None /\ row # None /\ row.id \in Ids
    <3>1. PICK n \in expired : row \in bin[n].rows
      BY <2>3
    <3>2. row \in Row
      BY <1>2, <2>2, <3>1 DEF TypeOK, RecordOf, Record
    <3> QED
      BY <1>2, <2>2, <3>1, <3>2, EntityAssumption DEF Conserved, ArchivesAreLatest, Row
  <2>6. PurgedAreGone'
    BY <1>1, <1>2, <2>5 DEF Conserved, PurgedAreGone
  <2>7. ArchivesAreLatest'
    <3> SUFFICES ASSUME NEW n \in Records, bin'[n] # None, NEW row \in bin'[n].rows
                 PROVE  row = latest[row.id] /\ rows[row.id] = None /\ row.id \notin purged'
      BY <1>1 DEF ArchivesAreLatest
    <3>1. n \notin expired /\ bin[n] # None /\ row \in bin[n].rows
      BY <2>1
    <3>2. row = latest[row.id] /\ rows[row.id] = None /\ row.id \notin purged
      BY <1>2, <3>1 DEF Conserved, ArchivesAreLatest
    <3>3. ASSUME NEW other \in gone, other.id = row.id PROVE FALSE
      <4>1. PICK m \in expired : other \in bin[m].rows
        BY <2>3
      <4> QED
        BY <1>2, <2>2, <3>1, <3>3, <4>1 DEF Conserved, ArchivedOnce
    <3> QED
      BY <1>1, <3>2, <3>3
  <2>8. NothingLost'
    <3> SUFFICES ASSUME NEW id \in Ids, latest[id] # None
                 PROVE  rows[id] # None \/ id \in purged' \/ \E n \in Records : bin'[n] # None /\ latest[id] \in bin'[n].rows
      BY <1>1 DEF NothingLost
    <3>1. latest[id].id = id
      BY <1>2, RowsAreRows DEF TypeOK
    <3>2. CASE rows[id] # None \/ id \in purged
      BY <1>1, <3>2
    <3>3. CASE \E n \in Records : bin[n] # None /\ latest[id] \in bin[n].rows
      <4>1. PICK n \in Records : bin[n] # None /\ latest[id] \in bin[n].rows
        BY <3>3
      <4>2. CASE n \in expired
        BY <1>1, <2>2, <3>1, <4>1, <4>2
      <4>3. CASE n \notin expired
        BY <1>1, <4>1, <4>3
      <4> QED
        BY <4>2, <4>3
    <3> QED
      BY <1>2, <3>2, <3>3 DEF Conserved, NothingLost
  <2> QED
    BY <2>4, <2>6, <2>7, <2>8 DEF Conserved
<1>6. reqs' = [h \in Goroutines |-> reqs'[h]]
  BY <1>1
<1> QED
  BY <1>1, <1>2, <1>3, <1>4, <1>5, <1>6, OthersKeepInv DEF TypeOK

LEMMA RestKeepsInv ==
  ASSUME Inv, Interrupted \/ UNCHANGED requestVars
  PROVE  Inv'
<1>1. /\ rows' = rows /\ bin' = bin /\ latest' = latest /\ purged' = purged
      /\ settings' = settings /\ nextId' = nextId /\ nextRecord' = nextRecord
      /\ reqs' = reqs \/ reqs' = [h \in Goroutines |-> Idle]
  BY DEF Interrupted, requestVars
<1>2. TypeOK
  BY DEF Inv
<1>3. reqs' = [h \in Goroutines |-> reqs'[h]] /\ \A h \in Goroutines : reqs'[h] = reqs[h] \/ reqs'[h] = Idle
  BY <1>1, <1>2 DEF TypeOK
<1>4. ASSUME NEW h \in Goroutines PROVE Undisturbed(h) \/ Fresh(reqs[h])'
  <2>1. CASE reqs'[h] = reqs[h]
    BY <1>1, <2>1 DEF Undisturbed, Kept, KeptRecord
  <2>2. CASE reqs'[h] = Idle
    BY <2>2, IdleFacts DEF Fresh, Stage, InputFits, FailureKnown
  <2> QED
    BY <1>3, <2>1, <2>2
<1>5. ASSUME settings.softDelete PROVE Conserved'
  <2>1. Conserved
    BY <1>5 DEF Inv
  <2> QED
    BY <1>1, <2>1 DEF Conserved, RowsAreLatest, ArchivesAreLatest, ArchivedOnce, PurgedAreGone, NothingLost, KeysAreNew
<1> QED
  BY <1>1, <1>2, <1>3, <1>4, <1>5, OthersKeepInv DEF TypeOK

LEMMA StartIsInv == RequestsInit => Inv
<1> SUFFICES ASSUME RequestsInit PROVE Inv
  OBVIOUS
<1> DEFINE archived == UNION {bin[n].rows : n \in {m \in Records : bin[m] # None}}
<1>1. /\ rows = [id \in Ids |-> IF id \in DOMAIN FoundRows THEN FoundRows[id] ELSE None]
      /\ settings \in Settings
      /\ bin = [n \in Records |-> IF settings.softDelete /\ n \in DOMAIN FoundRecords THEN FoundRecords[n] ELSE None]
      /\ reqs = [h \in Goroutines |-> Idle]
      /\ latest = [id \in Ids |-> IF \E row \in archived : row.id = id THEN CHOOSE row \in archived : row.id = id
                                  ELSE rows[id]]
      /\ nextId = NextKeys.id /\ nextRecord = NextKeys.record /\ purged = {}
  BY DEF RequestsInit
<1>2. \A row \in archived : \E n \in Records : bin[n] # None /\ row \in bin[n].rows
  OBVIOUS
<1>3. \A n \in Records : bin[n] # None => \A row \in bin[n].rows : row \in archived
  OBVIOUS
<1> HIDE DEF archived
<1>4. ASSUME NEW n \in Records, bin[n] # None
      PROVE  n \in DOMAIN FoundRecords /\ bin[n] = FoundRecords[n] /\ FoundRecords[n] \in Record /\ n < nextRecord
  BY <1>1, <1>4, FoundAssumption
<1>5. ASSUME NEW n \in Records, bin[n] # None, NEW row \in bin[n].rows
      PROVE  /\ row \in RowOf(row.id) /\ row.id \in Ids /\ row.id < nextId /\ rows[row.id] = None
             /\ \A m \in Records : bin[m] # None => \A other \in bin[m].rows : other.id = row.id => m = n /\ other = row
  <2>1. n \in DOMAIN FoundRecords /\ bin[n] = FoundRecords[n] /\ FoundRecords[n] \in Record
    BY <1>4, <1>5
  <2>2. row \in Row /\ row.id \in Ids
    BY <1>5, <2>1 DEF Record, Row
  <2>3. row.id \notin DOMAIN FoundRows /\ OfApplication(row) /\ row.id < nextId
    BY <1>1, <1>5, <2>1, FoundAssumption
  <2>4. \A m \in Records : bin[m] # None => \A other \in bin[m].rows : other.id = row.id => m = n /\ other = row
    BY <1>4, <1>5, <2>1, FoundAssumption
  <2> QED
    BY <1>1, <2>2, <2>3, <2>4 DEF RowOf
<1>6. ASSUME NEW row \in archived PROVE row.id \in Ids /\ latest[row.id] = row
  <2>1. PICK n \in Records : bin[n] # None /\ row \in bin[n].rows
    BY <1>2
  <2> DEFINE other == CHOOSE x \in archived : x.id = row.id
  <2>2. row.id \in Ids
    BY <1>5, <2>1
  <2>3. other \in archived /\ other.id = row.id
    OBVIOUS
  <2>4. other = row
    BY <1>2, <1>5, <2>1, <2>3
  <2>5. latest[row.id] = other
    BY <1>1, <2>2
  <2> QED
    BY <2>2, <2>4, <2>5
<1>7. ASSUME NEW id \in Ids
      PROVE  /\ rows[id] \in RowOf(id) \cup {None} /\ (rows[id] # None => id < nextId)
             /\ latest[id] = rows[id] \/ (latest[id] \in archived /\ latest[id].id = id /\ rows[id] = None)
  <2>1. rows[id] \in RowOf(id) \cup {None} /\ (rows[id] # None => id < nextId)
    BY <1>1, FoundAssumption DEF RowOf
  <2>2. CASE \E row \in archived : row.id = id
    BY <1>2, <1>5, <1>6, <2>1, <2>2
  <2>3. CASE ~\E row \in archived : row.id = id
    BY <1>1, <2>1, <2>3
  <2> QED
    BY <2>1, <2>2, <2>3
<1>8. \A id \in Ids : latest[id] \in RowOf(id) \cup {None}
  BY <1>2, <1>5, <1>7
<1>9. TypeOK
  <2>1. rows \in [Ids -> Row \cup {None}]
    BY <1>1, <1>7, RowsAreRows
  <2>2. latest \in [Ids -> Row \cup {None}]
    BY <1>1, <1>8, RowsAreRows
  <2>3. bin \in [Records -> RecordOf \cup {None}]
    <3>1. \A n \in Records : bin[n] # None => bin[n] \in RecordOf
      BY <1>4, <1>5 DEF RecordOf, RowOf
    <3> QED
      BY <1>1, <3>1
  <2>4. nextId \in Nat /\ nextRecord \in Nat
    BY <1>1, FoundAssumption
  <2>5. \A h \in Goroutines : Stage(reqs[h]) /\ InputFits(reqs[h]) /\ WritesTyped(reqs[h])
    <3>1. \A h \in Goroutines : reqs[h] = Idle
      BY <1>1
    <3>2. Stage(Idle) /\ InputFits(Idle) /\ WritesTyped(Idle)
      BY IdleFacts DEF Stage, InputFits, WritesTyped
    <3> QED
      BY <3>1, <3>2
  <2>6. reqs = [h \in Goroutines |-> reqs[h]]
    BY <1>1
  <2> QED
    BY <1>1, <1>7, <1>8, <2>1, <2>2, <2>3, <2>4, <2>5, <2>6 DEF TypeOK
<1>10. Conserved
  <2>1. RowsAreLatest
    BY <1>7 DEF RowsAreLatest
  <2>2. ArchivesAreLatest
    BY <1>1, <1>3, <1>5, <1>6 DEF ArchivesAreLatest
  <2>3. ArchivedOnce
    BY <1>5 DEF ArchivedOnce
  <2>4. PurgedAreGone
    BY <1>1 DEF PurgedAreGone
  <2>5. NothingLost
    BY <1>2, <1>7 DEF NothingLost
  <2>6. KeysAreNew
    BY <1>2, <1>4, <1>5, <1>7 DEF KeysAreNew
  <2> QED
    BY <2>1, <2>2, <2>3, <2>4, <2>5, <2>6 DEF Conserved
<1>11. \A h \in Goroutines : FailureKnown(reqs[h]) /\ Tracked(reqs[h]) /\ reqs[h].held = {}
  <2>1. \A h \in Goroutines : reqs[h] = Idle
    BY <1>1
  <2>2. FailureKnown(Idle) /\ Tracked(Idle) /\ Idle.held = {}
    BY IdleFacts DEF FailureKnown, Tracked, WritesOwned, Reads, Writing, Untouched
  <2> QED
    BY <2>1, <2>2
<1> QED
  BY <1>9, <1>10, <1>11 DEF Inv, HeldApart

LEMMA StepKeepsInv == Inv /\ [RequestsNext]_requestVars => Inv'
<1> SUFFICES ASSUME Inv, [RequestsNext]_requestVars PROVE Inv'
  OBVIOUS
<1>1. ASSUME NEW g \in Goroutines, Handle(g) PROVE Inv'
  <2>1. CASE Begin(g) \/ BeginFails(g)
    BY <2>1, BeginKeepsInv
  <2>2. CASE ModifyBefore(g) \/ ModifyAfter(g) \/ \E class \in {"comm", "panic"} : HookFails(g, class)
    BY <2>2, HooksKeepInv
  <2>3. CASE Add(g)
    BY <2>3, AddKeepsInv
  <2>4. CASE Update(g)
    BY <2>4, UpdateKeepsInv
  <2>5. CASE ArchiveRead(g)
    BY <2>5, ArchiveKeepsInv
  <2>6. CASE InsertRecord(g)
    BY <2>6, RecordKeepsInv
  <2>7. CASE DeleteRows(g)
    BY <2>7, DeleteKeepsInv
  <2>8. CASE StatementFails(g) \/ LockConflict(g)
    BY <2>8, FailuresKeepInv
  <2>9. CASE Nested(g)
    BY <2>9, NestedKeepsInv
  <2>10. CASE Query(g)
    BY <2>10, QueryKeepsInv
  <2>11. CASE LockRecord(g)
    BY <2>11, LockRecordKeepsInv
  <2>12. CASE InsertSnapshot(g)
    BY <2>12, SnapshotKeepsInv
  <2>13. CASE DropRecord(g)
    BY <2>13, DropKeepsInv
  <2>14. CASE Rollback(g) \/ Finish(g)
    BY <2>14, RollbackKeepsInv
  <2>15. CASE Commit(g) \/ CommitFails(g)
    BY <2>15, CommitKeepsInv
  <2> QED
    BY <1>1, <2>1, <2>2, <2>3, <2>4, <2>5, <2>6, <2>7, <2>8, <2>9, <2>10, <2>11, <2>12, <2>13, <2>14, <2>15 DEF Handle
<1>2. ASSUME NEW g \in Goroutines, NEW input \in Inputs, Receive(g, input) PROVE Inv'
  BY <1>2, ReceiveKeepsInv
<1>3. ASSUME NEW n \in Records, Age(n) PROVE Inv'
  BY <1>3, AgeKeepsInv
<1>4. CASE ClearExpired
  BY <1>4, ClearKeepsInv
<1>5. CASE Interrupted \/ Served \/ UNCHANGED requestVars
  BY <1>5, RestKeepsInv DEF Served
<1> QED
  BY <1>1, <1>2, <1>3, <1>4, <1>5 DEF RequestsNext

-----------------------------------------------------------------------------
(* The theorems.                                                           *)

\* The inductive invariant: rows, records and pending writes have their
\* types, locks exclude each other, the recycle bin conserves rows, and every
\* transaction's pending writes are what its commit may do to the committed
\* state (runner.Within, Base, Store).
THEOREM InvHolds == Spec => []Inv
<1>1. RequestsInit => Inv
  BY StartIsInv
<1>2. Inv /\ [RequestsNext]_requestVars => Inv'
  BY StepKeepsInv
<1> QED
  BY <1>1, <1>2, PTL DEF Spec

\* With the recycle bin on, deletes, updates, restores and cleanups in any
\* order, on either kind of database and with any failures, leave what was
\* last written to each row in exactly one place (Store.archiveDelete,
\* Store.Restore, the cleanup job).
THEOREM RowsAreConserved == Spec => []RowsConserved
<1>1. ASSUME Inv PROVE RowsConserved
  <2> SUFFICES ASSUME settings.softDelete, NEW id \in Ids, latest[id] # None
               PROVE  LET archived == {n \in Records : bin[n] # None /\ id \in {row.id : row \in bin[n].rows}}
                          one(p) == IF p THEN 1 ELSE 0
                      IN  /\ Cardinality(archived) + one(rows[id] # None) + one(id \in purged) = 1
                          /\ rows[id] \in {None, latest[id]}
                          /\ \A n \in archived : latest[id] \in bin[n].rows
    BY DEF RowsConserved
  <2> DEFINE archived == {n \in Records : bin[n] # None /\ id \in {row.id : row \in bin[n].rows}}
  <2>1. Conserved /\ TypeOK
    BY <1>1 DEF Inv
  <2>2. ASSUME NEW n \in archived
        PROVE  n \in Records /\ bin[n] # None /\ latest[id] \in bin[n].rows /\ rows[id] = None /\ id \notin purged
    <3>1. n \in Records /\ bin[n] # None /\ \E row \in bin[n].rows : row.id = id
      BY <2>2
    <3> QED
      BY <2>1, <3>1 DEF Conserved, ArchivesAreLatest
  <2>3. \A m, n \in archived : m = n
    BY <2>1, <2>2 DEF Conserved, ArchivedOnce
  <2>4. latest[id].id = id
    BY <2>1, RowsAreRows DEF TypeOK
  <2>5. ASSUME NEW n \in Records, bin[n] # None, latest[id] \in bin[n].rows PROVE n \in archived
    BY <2>4, <2>5
  <2>6. rows[id] \in {None, latest[id]} /\ (id \in purged => rows[id] = None)
    BY <2>1 DEF Conserved, RowsAreLatest, PurgedAreGone
  <2> HIDE DEF archived
  <2>7. CASE archived = {}
    <3>1. Cardinality(archived) = 0
      BY <2>7, FS_EmptySet
    <3>2. rows[id] # None <=> id \notin purged
      BY <2>1, <2>5, <2>6, <2>7 DEF Conserved, NothingLost
    <3> QED
      BY <2>2, <2>6, <3>1, <3>2 DEF archived
  <2>8. CASE archived # {}
    <3>1. PICK n \in archived : TRUE
      BY <2>8
    <3>2. archived = {n}
      BY <2>3, <3>1
    <3>3. Cardinality(archived) = 1
      BY <3>2, FS_Singleton
    <3>4. rows[id] = None /\ id \notin purged
      BY <2>2, <3>1
    <3> QED
      BY <2>2, <2>6, <3>3, <3>4 DEF archived
  <2> QED
    BY <2>7, <2>8
<1> QED
  BY <1>1, InvHolds, PTL

\* A success is answered only for a transaction that committed and in which
\* nothing failed; a committed one is answered with an error only when the
\* reply of the commit was lost (runner.Within, HandleCRUD, HandleRoute).
THEOREM AnswersAreTrue == Spec => []AnswersMatchCommits
<1>1. Inv => AnswersMatchCommits
  BY DEF Inv, FailureKnown, AnswersMatchCommits
<1> QED
  BY <1>1, InvHolds, PTL

\* Whatever clients send and hooks change, protected fields hold only what the
\* application and the database wrote, in the table and in the recycle bin,
\* and every row is stored under its own key (Base.mutableData).
THEOREM ProtectedFieldsAreTheServers == Spec => []ClientsNeverWriteProtected
<1>1. Inv => ClientsNeverWriteProtected
  BY RowsAreRows DEF Inv, TypeOK, RecordOf, ClientsNeverWriteProtected
<1> QED
  BY <1>1, InvHolds, PTL
=============================================================================
