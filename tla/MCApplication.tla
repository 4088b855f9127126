---------------------------- MODULE MCApplication ----------------------------
(***************************************************************************)
(* A small project in two releases, the same project with one defect at a   *)
(* time, and one with a reliable event.  Module base authenticates requests *)
(* and offers users through an interface in contract/; module note keeps an *)
(* entity with a service, a job, a middleware and a controller.             *)
(***************************************************************************)
EXTENDS Application, TLC

(***************************************************************************)
(* Words                                                                    *)
(***************************************************************************)
Class == {"text", "blank", "package", "identifier", "type", "module", "path", "reference", "method", "directory",
          "table", "camel", "index", "relative", "route"}

MCMalformed ==
  [class \in Class |->
    (IF class = "relative" THEN {} ELSE {""})
    \cup (CASE class \in {"text", "blank"} -> {" "}
            [] class = "directory" -> {"Note"}
            [] class = "table" -> {"Note"}
            [] class = "camel" -> {"Title"}
            [] class = "index" -> {"idx note"}
            [] class = "identifier" -> {"a b"}
            [] class = "relative" -> {"../note"}
            [] class = "route" -> {"pin"}
            [] OTHER -> {})]

MCSpelling == "post" :> "POST" @@ "get" :> "GET"
MCNumerals == "0" :> 0 @@ "8" :> 8 @@ "32" :> 32 @@ "128" :> 128 @@ "191" :> 191 @@ "2048" :> 2048 @@ "4096" :> 4096

Pointer(module, pkg, methods) ==
  [module |-> module, pkg |-> pkg, contract |-> FALSE, pointer |-> TRUE, interface |-> FALSE, methods |-> methods]
Struct == [Pointer("", "", {}) EXCEPT !.pointer = FALSE]
Interface(methods) == [Struct EXCEPT !.interface = TRUE, !.methods = methods]

MCTypes ==
  [t \in {"auth.Codec", "auth.Store", "outbox.Enqueuer", "seed.Data", "base.Config", "note.Config",
          "Descriptor[Note]", "outbox.ConsumerDefinition"} |->
     CASE t = "auth.Codec" -> Interface({"Issue", "Verify"})
       [] t = "auth.Store" -> Interface({"Rotate", "Revoke"})
       [] t = "outbox.Enqueuer" -> Interface({"Enqueue"})
       [] t = "Descriptor[Note]" -> Interface({"Descriptor"})
       [] OTHER -> Struct]
  @@ [t \in {"*auth.Service", "*bcrypt.Verifier", "*db.Runtime", "*gnrecycle.Store", "*risk.Service", "*Base[Note]"} |->
        Pointer("", "cool-next", {})]
  @@ "contract.Users" :> [Interface({"FindUser"}) EXCEPT !.module = "base", !.contract = TRUE]
  @@ "service.Finder" :> [Interface({"FindUser"}) EXCEPT !.module = "base"]
  @@ "*base.Authenticator" :> Pointer("base", "base/service", {"AuthenticateHTTP", "OnInit", "OnStop"})
  @@ "*base.Users" :> Pointer("base", "base/service", {"FindUser"})
  @@ "*base.Copy" :> Pointer("base", "base/service", {"FindUser"})
  @@ "*note.Log" :> Pointer("note", "note/middleware", {"Handle"})
  @@ "*note.Job" :> Pointer("note", "note/schedule", {"OnInit", "OnStart", "OnStop"})
  @@ "*note.Notes" :> Pointer("note", "note/service", {"OnStop"})
  @@ "*note.Copy" :> Pointer("note", "note/service", {"FindUser"})
  @@ "*note.Guard" :> Pointer("note", "note/service", {"Authorize"})
  @@ "*note.Queue" :> Pointer("note", "note/queue", {"Publish"})
  @@ "*note.Inbox" :> Pointer("note", "note/queue", {"Adapter"})

(***************************************************************************)
(* The project                                                              *)
(***************************************************************************)
Constructor(pkg, name, dir, result, parameters) ==
  [pkg |-> pkg, name |-> name, dir |-> dir, generic |-> FALSE, result |-> result, parameters |-> parameters, consumes |-> <<>>]

Config(name, order, pkg, type, lists) ==
  [declared |-> 1, signature |-> TRUE, static |-> TRUE, name |-> name, description |-> name, order |-> order,
   pkg |-> pkg, type |-> type, lists |-> lists]

Reference(pkg, name) == [call |-> TRUE, symbol |-> pkg \o "." \o name, pkg |-> pkg, name |-> name]

Base ==
  [key |-> "base", path |-> << "base" >>, entries |-> {[directory |-> TRUE, go |-> FALSE, name |-> "service"]},
   config |-> Config("base", 1, "base", "base.Config", <<>>),
   functions |-> {}, packages |-> {}, types |-> <<>>, schemas |-> <<>>,
   constructors |-> << Constructor("base/service", "NewAuthenticator", "service", "*base.Authenticator", << "*db.Runtime" >>),
                       Constructor("base/service", "NewUsers", "service", "*base.Users", << "*db.Runtime", "base.Config" >>) >>,
   registrars |-> <<>>, uses |-> {}, services |-> <<>>, controllers |-> <<>>,
   seedDB |-> TRUE, seedMenu |-> TRUE, seedKeyed |-> TRUE]

Note ==
  [pkg |-> "note/entity", name |-> "Note", dir |-> "entity", exported |-> TRUE,
   fields |-> << Embeds("Meta", "note"), Embeds("Base", "note"), Column("title", Text(0), Sized("32")) >>,
   descriptorType |-> "Descriptor[Note]", baseType |-> "*Base[Note]"]

IndexItem(name, field) == [call |-> "IndexOf", name |-> name, fields |-> << field >>]
NoteSchema(items) ==
  [pkg |-> "note/entity", entity |-> "Note", signature |-> TRUE, static |-> TRUE,
   elements |-> << [key |-> "Indexes", list |-> items] >>]

Curd ==
  [prefix |-> Absent, entity |-> [pkg |-> "note/entity", name |-> "Note"], service |-> "*note.Notes", insert |-> Absent,
   api |-> << "add", "page" >>, tag |-> [name |-> "open", url |-> << "page" >>]]

Pin ==
  [method |-> "POST", path |-> "/pin",
   handler |-> [pkg |-> "note/service", symbol |-> "Notes", method |-> "Pin", type |-> "func", receiver |-> "*note.Notes",
                signature |-> TRUE, request |-> Absent, in |-> {}],
   bind |-> Absent, middleware |-> Absent, tags |-> Absent, summary |-> "pin", description |-> Absent,
   transaction |-> Absent, ignoreGlobalPrefix |-> Absent, developmentOnly |-> Absent]

AdminNote ==
  [name |-> "AdminNote", pkg |-> "note/controller/admin", area |-> "admin", file |-> "note", exported |-> TRUE,
   signature |-> TRUE, static |-> TRUE, builder |-> "admin", path |-> Absent, curds |-> << Curd >>,
   options |-> << [NoOptions EXCEPT !.alias = << "NoteAdmin" >>, !.middleware = << Reference("note/middleware", "NewLog") >>] >>,
   routes |-> << Pin >>, parameters |-> << "*note.Notes" >>]

Notes ==
  [dir |-> "service", exported |-> TRUE, base |-> [entity |-> [pkg |-> "note/entity", name |-> "Note"], id |-> "uint64"],
   pointers |-> 1, type |-> "*note.Notes", pkg |-> "note/service", name |-> "Notes", own |-> "Add" :> "override"]

NoteModule ==
  [Base EXCEPT !.key = "note", !.path = << "note" >>, !.config = Config("note", 0, "note", "note.Config", <<>>),
     !.functions = {[pkg |-> "note/middleware", name |-> "NewLog", middleware |-> TRUE, eligible |-> TRUE]},
     !.packages = {"note/middleware"},
     !.types = << Note >>, !.schemas = << NoteSchema(<<>>) >>,
     !.constructors = << Constructor("note/middleware", "NewLog", "middleware", "*note.Log", <<>>),
                         Constructor("note/schedule", "NewJob", "schedule", "*note.Job", << "*note.Notes" >>),
                         Constructor("note/service", "NewNotes", "service", "*note.Notes", << "*Base[Note]", "contract.Users" >>) >>,
     !.services = << Notes >>, !.controllers = << AdminNote >>,
     !.seedMenu = FALSE, !.seedKeyed = FALSE]

With(note) == [modules |-> << Base, note >>, nested |-> {}]

First == With(NoteModule)

\* The next release: a column and an index on it.
Second ==
  With([NoteModule EXCEPT
          !.types[1].fields = Append(@, Column("color", Text(1), Absent)),
          !.schemas = << NoteSchema(<< IndexItem("idx_note_color", "color") >>) >>])

\* Two factories of one path, with the same routes.
Clash ==
  With([NoteModule EXCEPT
          !.controllers = << AdminNote,
                             [AdminNote EXCEPT !.name = "AdminOther", !.options = <<>>, !.curds = <<>>] >>])

MCProjects == "first" :> First @@ "second" :> Second @@ "clash" :> Clash

\* A project that enqueues a message with its own transaction and publishes it.
Reliable ==
  With([NoteModule EXCEPT
          !.constructors = << @[1], @[2],
            Constructor("note/queue", "NewQueue", "queue", "*note.Queue", <<>>),
            Constructor("note/service", "NewNotes", "service", "*note.Notes",
                        << "*Base[Note]", "contract.Users", "outbox.Enqueuer" >>) >>])

OutboxProjects == "reliable" :> Reliable

(***************************************************************************)
(* One defect at a time, and the diagnostic it is refused with.             *)
(***************************************************************************)
Defect(code, note) == << code, With(note) >>
InFactory(code, factory) == Defect(code, [NoteModule EXCEPT !.controllers[1] = factory])
InCurd(code, curd) == InFactory(code, [AdminNote EXCEPT !.curds[1] = curd])
InRoute(code, route) == InFactory(code, [AdminNote EXCEPT !.routes[1] = route])
InField(code, field) == Defect(code, [NoteModule EXCEPT !.types[1].fields[3] = field])
InIndex(code, item) == Defect(code, [NoteModule EXCEPT !.schemas = << NoteSchema(<< item >>) >>])
InList(code, reference) ==
  Defect(code, [NoteModule EXCEPT !.config.lists = << [group |-> "Middlewares", items |-> << reference >>] >>])
More(code, constructor) == Defect(code, [NoteModule EXCEPT !.constructors = Append(@, constructor)])
Use(code, function, direct, argument) ==
  Defect(code, [NoteModule EXCEPT !.uses = {[function |-> function, direct |-> direct, argument |-> argument]}])

ModuleDefects ==
  { << "CG003", [First EXCEPT !.nested = {[path |-> << "note", "vendor" >>, declares |-> FALSE]}] >>,
    << "CG003", [First EXCEPT !.nested = {[path |-> << "note", "service" >>, declares |-> TRUE]}] >>,
    << "CG036", [First EXCEPT !.modules[1].constructors[2].parameters = << "*note.Log" >>,
                              !.modules[2].constructors[3].parameters = << "*base.Users" >>] >>,
    Defect("CG004", [NoteModule EXCEPT !.key = "Note"]),
    Defect("CG010", [NoteModule EXCEPT !.config.declared = 2]),
    Defect("CG011", [NoteModule EXCEPT !.config.signature = FALSE]),
    Defect("CG012", [NoteModule EXCEPT !.config.static = FALSE]),
    Defect("CG013", [NoteModule EXCEPT !.config.lists = << [group |-> "Middlewares", items |-> Absent] >>]),
    InList("CG014", [Reference("note/middleware", "NewLog") EXCEPT !.call = FALSE]),
    InList("CG015", [Reference("note/middleware", "NewLog") EXCEPT !.symbol = Dynamic]),
    InList("CG016", [Reference("note/middleware", "NewLog") EXCEPT !.pkg = ""]),
    InList("CG017", Reference("note/other", "NewLog")),
    InList("CG018", Reference("note/middleware", "NewOther")),
    Defect("CG073", [NoteModule EXCEPT !.config.description = Dynamic]),
    Defect("CG111", [NoteModule EXCEPT !.entries = {[directory |-> TRUE, go |-> FALSE, name |-> "helper"]}]),
    Use("CG065", "RawWhere", TRUE, Dynamic), Use("CG065", "RawWhere", FALSE, Absent), Use("CG066", "As", TRUE, Dynamic),
    Use("CG067", "All", TRUE, "Title"), Use("CG098", "NativeSQL", TRUE, ""), Use("CG099", "TX.Exec", TRUE, Absent) }

ComponentDefects ==
  { More("CG021", [Constructor("note/service", "NewBox", "service", "*note.Copy", <<>>) EXCEPT !.generic = TRUE]),
    More("CG022", Constructor("note/service", "NewBox", "service", "seed.Data", <<>>)),
    More("CG105", Constructor("note/consumer", "NewSeen", "consumer", "outbox.ConsumerDefinition", <<>>)),
    More("CG031", Constructor("note/service", "NewOther", "service", "*note.Notes", <<>>)),
    More("CG032", Constructor("note/service", "NewCopy", "service", "*note.Copy", << "outbox.ConsumerDefinition" >>)),
    More("CG034", Constructor("note/service", "NewCopy", "service", "*note.Copy", << "*note.Copy" >>)),
    More("CG035", Constructor("note/service", "NewCopy", "service", "*note.Copy", << "service.Finder" >>)),
    More("CG105", Constructor("note/service", "NewCopy", "service", "*note.Copy", << "*auth.Service" >>)),
    More("CG109", Constructor("note/service", "NewCopy", "service", "*note.Copy", << "outbox.Enqueuer" >>)),
    More("CG092", Constructor("note/queue", "NewInbox", "queue", "*note.Inbox", <<>>)),
    << "CG033", [First EXCEPT !.modules[1].constructors = Append(@, Constructor("base/service", "NewMore", "service", "*base.Copy", <<>>))] >> }

EntityDefects ==
  { Defect("CG020", [NoteModule EXCEPT !.schemas[1].signature = FALSE]),
    Defect("CG042", [NoteModule EXCEPT !.schemas = <<>>]),
    Defect("CG043", [NoteModule EXCEPT !.schemas = @ \o @]),
    Defect("CG046", [NoteModule EXCEPT !.types[1].fields[1].description = ""]),
    Defect("CG055", [NoteModule EXCEPT !.types[1].fields[1].orm[1].value = "Note"]),
    InField("CG049", Embeds("other", "note")),
    InField("CG050", Column("Title", Text(0), Absent)),
    InField("CG050", Column("title", Text(2), Absent)),
    InField("CG050", Column("title", Text(0), Sized("0"))),
    InField("CG051", Column("createTime", Text(0), Absent)),
    InField("CG052", [Column("title", Text(0), Absent) EXCEPT !.orm = "createTime"]),
    Defect("CG057", [NoteModule EXCEPT !.schemas[1].static = FALSE]),
    Defect("CG058", [NoteModule EXCEPT !.schemas[1].elements[1].key = "Other"]),
    Defect("CG059", [NoteModule EXCEPT !.schemas[1].elements[1].list = Absent]),
    InIndex("CG060", IndexItem("idx_note_color", "color")),
    InIndex("CG061", IndexItem("idx_note_create_time", "title")) }

ControllerDefects ==
  { InFactory("CG023", [AdminNote EXCEPT !.static = FALSE]), InFactory("CG024", [AdminNote EXCEPT !.builder = "app"]),
    InFactory("CG025", [AdminNote EXCEPT !.curds = << Curd, Curd >>]),
    InFactory("CG098", [AdminNote EXCEPT !.parameters = << "*note.Notes", "outbox.Enqueuer" >>]),
    InFactory("CG100", [AdminNote EXCEPT !.options[1].alias = << "a b" >>]),
    InFactory("CG104", [AdminNote EXCEPT !.options[1].middleware = Dynamic]),
    InCurd("CG024", [Curd EXCEPT !.prefix = "../note"]), InCurd("CG026", [Curd EXCEPT !.entity.name = "Other"]),
    InCurd("CG027", [Curd EXCEPT !.service = "*note.Copy"]), InCurd("CG029", [Curd EXCEPT !.insert = Dynamic]),
    InCurd("CG101", [Curd EXCEPT !.api = << "add", "add" >>]), InCurd("CG101", [Curd EXCEPT !.tag.name = ""]),
    Defect("CG028", [NoteModule EXCEPT !.services[1].base.id = "string"]),
    Defect("CG102", [NoteModule EXCEPT !.services[1].own = "Page" :> "other"]),
    InRoute("CG101", [Pin EXCEPT !.path = "pin"]), InRoute("CG101", [Pin EXCEPT !.handler.in = {"query", "path"}]),
    InRoute("CG101", [Pin EXCEPT !.transaction = Dynamic]),
    InRoute("CG102", [Pin EXCEPT !.handler.receiver = "*note.Log"]),
    InRoute("CG104", [Pin EXCEPT !.middleware = << Reference("note/middleware", "NewLog") >>]) }

\* analyzeOverlay to checkCandidate: the first stage that finds something stops it.
ASSUME DefectsAreRefused ==
  \A d \in ModuleDefects \cup ComponentDefects \cup EntityDefects \cup ControllerDefects :
    BuildCandidate(d[2]).codes = {d[1]}

MCSettings ==
  {[outbox |-> TRUE, softDelete |-> TRUE, initDB |-> TRUE, initMenu |-> TRUE, disabled |-> {GRPCTransport}]}

MCLegacy == {{}, {"base"}}
MCInstances == Permutations(Instances)
=============================================================================
