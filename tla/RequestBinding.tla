--------------------------- MODULE RequestBinding ---------------------------
(***************************************************************************)
(* From the body of a CRUD request to the input of a service: the binders  *)
(* of gnctrl/binder.go, the presence-aware inputs of gnservice/input.go    *)
(* and the columns gnservice/base.go finally writes.                       *)
(*                                                                         *)
(* A body is what the JSON decoder sees: its shape and its items.  A field *)
(* of an input remembers who submitted it, because the policy of the       *)
(* controller binds the client and not the application's own code.         *)
(***************************************************************************)
EXTENDS CrudPlan

\* Names outside the entity that a client may send: a view field (with the
\* prefix "_" the binder drops) and a misspelt one.
ViewNames == {"_view"}

\* One function over another, and one value over the others.
Override(new, old) == [x \in DOMAIN new \cup DOMAIN old |-> IF x \in DOMAIN new THEN new[x] ELSE old[x]]
Put(f, x, value) == Override([y \in {x} |-> value], f)

Failed(class) == [err |-> class]
Accepted(input) == [err |-> "ok", input |-> input]

\* readBody and decodeRawObjects: one object, or a batch within the limit.
DecodeRawObjects(body) ==
  /\ body.shape \in {"object", "array"}
  /\ body.items # <<>>
  /\ body.shape = "array" => Len(body.items) <= Limits.batch

FieldDecodes(entity, name, value) ==
  /\ value # Bad
  /\ value = Null => Descriptor[entity][name].nullable

\* decodeMutable and NewMutable: known fields with decodable values.
Decodes(entity, raw) ==
  \A name \in DOMAIN raw \ ViewNames :
    name \in DOMAIN Descriptor[entity] /\ FieldDecodes(entity, name, raw[name])

Mutable(raw) == [name \in DOMAIN raw \ ViewNames |-> [data |-> raw[name], source |-> "client"]]

Set(mutable, name, data) == Put(mutable, name, [data |-> data, source |-> "server"])
Unset(mutable, name) == [f \in DOMAIN mutable \ {name} |-> mutable[f]]

BindAdd(entity, body) ==
  IF DecodeRawObjects(body) /\ \A i \in DOMAIN body.items : Decodes(entity, body.items[i])
  THEN Accepted([i \in DOMAIN body.items |-> Mutable(body.items[i])])
  ELSE Failed("validate")

\* Every item of an update names its row; the key is not a submitted field.
BindUpdate(entity, body) ==
  LET key == PrimaryOf(entity)
      rest(raw) == [name \in DOMAIN raw \ {key} |-> raw[name]]
      ok(raw) == key \in DOMAIN raw /\ raw[key] \in Nat \ {0} /\ Decodes(entity, rest(raw))
  IN  IF DecodeRawObjects(body) /\ \A i \in DOMAIN body.items : ok(body.items[i])
      THEN Accepted([i \in DOMAIN body.items |->
                       [id |-> body.items[i][key], mutable |-> Mutable(rest(body.items[i]))]])
      ELSE Failed("validate")

\* decodeIDs: {"ids": ...}, a list, a comma separated string or one id, each
\* positive; NewDeleteInput drops repetitions.
BindDelete(body) ==
  IF /\ body.shape \in {"object", "array", "string", "number"}
     /\ body.ids # <<>> /\ Len(body.ids) <= Limits.batch
     /\ \A i \in DOMAIN body.ids : body.ids[i] \in Nat \ {0}
  THEN Accepted(ToSet(body.ids))
  ELSE Failed("validate")

BindInfo(body) ==
  IF Len(body.ids) = 1 /\ body.ids[1] \in Nat \ {0} THEN Accepted(body.ids[1]) ELSE Failed("validate")

\* checkOrder: as many directions as fields, and only the two known ones.
OrderWellFormed(request) ==
  /\ Submitted(request, "order") <=> Submitted(request, "sort")
  /\ Submitted(request, "order") =>
       /\ Len(request["order"].values) = Len(request["sort"].values)
       /\ ToSet(request["sort"].values) \subseteq Directions

Positive(request, name) ==
  Submitted(request, name) => request[name].kind = "uint" /\ request[name].values[1] > 0

NumberOf(request, name, default) == IF Submitted(request, name) THEN request[name].values[1] ELSE default

IsExport(request) == Submitted(request, "isExport") /\ request["isExport"].values = <<1>>

\* Mutant of QueryWindow: the size of a page is not compared with the limit.
UnboundedWindow(request, action) ==
  IF ~Positive(request, "page") \/ ~Positive(request, "size") THEN Failed("validate")
  ELSE Accepted([page |-> NumberOf(request, "page", 1), size |-> NumberOf(request, "size", Limits.pageSize)])

\* queryWindow: an export and a list have one page of limited size.
QueryWindow(request, action) ==
  LET export == NumberOf(request, "maxExportLimit", Limits.export)
      size == NumberOf(request, "size", Limits.pageSize)
  IN  IF ~Positive(request, "page") \/ (Submitted(request, "isExport") /\ request["isExport"].kind # "bool")
      THEN Failed("validate")
      ELSE IF IsExport(request)
      THEN IF Positive(request, "maxExportLimit") /\ export <= Limits.export
           THEN Accepted([page |-> 1, size |-> export]) ELSE Failed("validate")
      ELSE IF action = "list" THEN Accepted([page |-> 1, size |-> Limits.list])
      ELSE IF Positive(request, "size") /\ size <= Limits.page
           THEN Accepted([page |-> NumberOf(request, "page", 1), size |-> size]) ELSE Failed("validate")

BindCRUDQuery(body, action) ==
  IF body.shape \in {"empty", "object"} /\ OrderWellFormed(body.query)
  THEN QueryWindow(body.query, action)
  ELSE Failed("validate")

\* The input of the service, by action.
Bind(action, entity, body) ==
  CASE action = "add" -> BindAdd(entity, body)
    [] action = "update" -> BindUpdate(entity, body)
    [] action = "delete" -> BindDelete(body)
    [] action = "info" -> BindInfo(body)
    [] OTHER -> BindCRUDQuery(body, action)

(***************************************************************************)
(* mutableData: the columns a write touches.  What a client sends for the  *)
(* key, a system field or a readonly field is ignored, for a hidden field  *)
(* refused; the application's code may set anything but key and system     *)
(* fields.                                                                 *)
(***************************************************************************)
ServerOnly(entity, name) == Descriptor[entity][name].primary \/ Descriptor[entity][name].system

Refused(option, mutable, name) ==
  IF mutable[name].source = "client" THEN name \in Names(option.hidden)
  ELSE ServerOnly(option.entity, name)

\* Mutant of Ignored: a readonly field sent back by the client is written.
IgnoredKeys(option, mutable, name) == mutable[name].source = "client" /\ ServerOnly(option.entity, name)

Ignored(option, mutable, name) ==
  /\ mutable[name].source = "client"
  /\ ServerOnly(option.entity, name) \/ name \in Names(option.readonly)

MutableData(option, mutable) ==
  LET submitted == DOMAIN mutable \cap Fields(option.entity)
      written == {name \in submitted : ~Ignored(option, mutable, name)}
  IN  IF \E name \in submitted : Refused(option, mutable, name) THEN Failed("validate")
      ELSE Accepted([name \in written |-> mutable[name].data])
=============================================================================
