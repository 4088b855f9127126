---------------------------- MODULE Controllers ----------------------------
(***************************************************************************)
(* Controller factories: what the generator reads from the static builder   *)
(* chain a factory returns, and what the builder itself checks when the     *)
(* generated package calls the factory (cool-next/codegen:                  *)
(* service_analysis.go, controller_analysis.go, route_analysis.go;          *)
(* cool-next/core/gnctrl: builder.go).                                      *)
(*                                                                          *)
(* A field of a literal is Absent, Dynamic or a value.  A factory is [name, *)
(* pkg, area, file, exported, signature, static, builder, path, curds,      *)
(* options, routes, parameters]: area is the directory it lies in, builder  *)
(* the one its chain begins with.  A path is kept without its area, which   *)
(* is the global prefix a route may leave out.                              *)
(***************************************************************************)
EXTENDS ModuleSources

Static(field) == field \notin {Absent, Dynamic}

\* validStaticText
StaticText(field) == field # Dynamic /\ (field \in {Absent, ""} \/ ~Blank(field))

\* uniqueValid
Unique(values, class) == values # Dynamic /\ (values = Absent \/ Listed(values, class))

(***************************************************************************)
(* Services: exported types below service/ that embed gnservice.Base.       *)
(***************************************************************************)
Services(m) == SelectSeq(m.services, LAMBDA s : s.dir = "service" /\ s.exported /\ s.base # Absent)

\* The mode of an action: Base, or a method of the service with Base's
\* signature that may delegate to it; own methods with another are "other".
ActionMode(s, action) == IF action \in DOMAIN s.own THEN s.own[action] ELSE "base"

\* hasPointerBase
HasPointerBase(s) == s.pointers = 1

\* controllerService: the parameter of the factory that Service names.
ControllerServices(curd, f, m) ==
  SelectSeq(Services(m), LAMBDA s : curd.service \in Range(f.parameters) /\ s.type = curd.service /\ HasPointerBase(s))

(***************************************************************************)
(* Middleware lists and tags.                                               *)
(***************************************************************************)
Symbols(list) == IF list = Absent THEN <<>> ELSE [n \in DOMAIN list |-> list[n].symbol]

\* parseMiddleware, resolveMiddleware: references without repetition.
ParseMiddleware(list, m) ==
  \/ list = Absent
  \/ /\ list # Dynamic
     /\ \A n \in DOMAIN list : ResolveReference(list[n], m) = {}
     /\ IsInjective(Symbols(list))

APIs == {"add", "delete", "update", "info", "list", "page"}

\* controllerAPIs
ControllerAPIs(list) == Static(list) /\ Range(list) \subseteq APIs /\ IsInjective(list)

\* controllerCurdTag: a tag for the routes of all APIs or of those it names.
ControllerCurdTag(tag) ==
  \/ tag = Absent
  \/ /\ tag # Dynamic
     /\ Static(tag.name) /\ Legal("identifier", tag.name)
     /\ tag.url = Absent \/ ControllerAPIs(tag.url)

\* controllerRouteTags: the tags of a custom route name no API.
ControllerRouteTags(tags) ==
  \/ tags = Absent
  \/ /\ tags # Dynamic
     /\ \A n \in DOMAIN tags : /\ tags[n].url \in {Absent, <<>>}
                               /\ Static(tags[n].name) /\ Legal("identifier", tags[n].name)
     /\ IsInjective([n \in DOMAIN tags |-> tags[n].name])

TagNames(tags) == IF tags = Absent THEN <<>> ELSE [n \in DOMAIN tags |-> tags[n].name]

(***************************************************************************)
(* analyzeOptions                                                           *)
(***************************************************************************)
AnalyzeOptions(options, m) ==
  IF options = Dynamic \/ options.sensitive = Dynamic \/ ~Unique(options.alias, "identifier") THEN {"CG100"}
  ELSE IF ~ParseMiddleware(options.middleware, m) THEN {"CG104"}
  ELSE IF ~StaticText(options.description) \/ ~StaticText(options.tagName)
          \/ Dynamic \in {options.ignoreGlobalPrefix, options.developmentOnly} THEN {"CG100"}
  ELSE {}

NoOptions == [sensitive |-> Absent, alias |-> Absent, middleware |-> Absent, description |-> Absent, tagName |-> Absent,
              ignoreGlobalPrefix |-> Absent, developmentOnly |-> Absent]

Options(f) == IF f.options = <<>> THEN NoOptions ELSE Head(f.options)

(***************************************************************************)
(* Paths                                                                    *)
(***************************************************************************)
\* inferredPath and areaPath, without the area
InferredPath(m, f) == "/" \o m.key \o "/" \o f.file
AreaPath(relative) == IF relative = "" THEN "" ELSE "/" \o relative

ControllerPath(m, f) == IF Given(f.path, "") = "" THEN InferredPath(m, f) ELSE AreaPath(f.path)

\* The Prefix of Curd moves the default routes, not the custom ones.
CurdPath(m, f) ==
  LET prefix == Given(Head(f.curds).prefix, "") IN IF prefix = "" THEN ControllerPath(m, f) ELSE AreaPath(prefix)

\* removeGlobalPrefix
Prefixed(path, area, ignore) == IF ignore THEN path ELSE "/" \o area \o path

(***************************************************************************)
(* Default routes                                                           *)
(***************************************************************************)
\* defaultRouteValues
Action(api) ==
  CASE api = "add" -> "Add" [] api = "delete" -> "Delete" [] api = "update" -> "Update"
    [] api = "info" -> "Info" [] api = "list" -> "List" [] api = "page" -> "Page"

ControllerKey(m, f) == m.key \o "." \o f.name

\* serviceHandlerRef: the action with a signature the default routes can call.
ServiceHandlerRef(s, action) == ActionMode(s, action) # "other"

\* The tag goes on the route when it selects the API.
DefaultTags(curd, api) ==
  IF curd.tag # Absent /\ (Given(curd.tag.url, <<>>) = <<>> \/ api \in Range(curd.tag.url)) THEN << curd.tag.name >> ELSE <<>>

DefaultRoute(api, m, f, s) ==
  [controller |-> ControllerKey(m, f), kind |-> "crud",
   method |-> IF api = "info" THEN "GET" ELSE "POST",
   bind |-> IF api = "info" THEN "query" ELSE "json",
   path |-> Prefixed(CurdPath(m, f), f.area, Given(Options(f).ignoreGlobalPrefix, FALSE)) \o "/" \o api,
   handler |-> [pkg |-> s.pkg, symbol |-> s.name, method |-> Action(api), type |-> s.type,
                request |-> [pkg |-> "core/gnservice", type |-> Action(api)]],
   middleware |-> <<>>, tags |-> DefaultTags(Head(f.curds), api), summary |-> Action(api), description |-> "",
   transactional |-> TRUE]

\* defaultRoutes: no API, no default routes.
CheckDefaults(curd, s) ==
  IF curd.api = Absent THEN {}
  ELSE IF ~ControllerAPIs(curd.api) \/ ~ControllerCurdTag(curd.tag) THEN {"CG101"}
  ELSE {"CG102" : n \in {k \in DOMAIN curd.api : ~ServiceHandlerRef(s, Action(curd.api[k]))}}

DefaultRoutes(m, f) ==
  IF f.curds = <<>> THEN <<>>
  ELSE LET curd == Head(f.curds)
           apis == Given(curd.api, <<>>)
           s == Head(ControllerServices(curd, f, m)) IN
       [n \in DOMAIN apis |-> DefaultRoute(apis[n], m, f, s)]

(***************************************************************************)
(* Custom routes.  A handler is [pkg, symbol, method, type, receiver,       *)
(* signature, request, in]: the parameter its method is taken from, the     *)
(* struct it is given and the sources the tags of that struct name.         *)
(***************************************************************************)
HTTPMethods == {"CONNECT", "DELETE", "GET", "HEAD", "OPTIONS", "PATCH", "POST", "PUT", "TRACE"}
BindSources == {"auto", "json", "query", "form", "path", "file"}

\* controllerHandler, validHandler, handlerRef
ControllerHandler(handler, f) ==
  /\ Static(handler)
  /\ handler.signature
  /\ handler.receiver = "" \/ (handler.receiver \in Range(f.parameters) /\ Types[handler.receiver].pointer)

\* inferBindSource: what the tags agree on, or what the method suggests; "" when they do not agree.
InferBindSource(method, handler) ==
  CASE handler.in \ {"query", "path"} # {} \/ Cardinality(handler.in) > 1 -> ""
    [] handler.in \in {{"query"}, {"path"}} -> CHOOSE source \in handler.in : TRUE
    [] OTHER -> IF method \in {"GET", "DELETE", "HEAD"} THEN "query" ELSE "json"

Bind(r) == LET bind == Given(r.bind, "auto") IN
           IF bind = "auto" THEN InferBindSource(Normal(r.method), r.handler) ELSE bind

CheckRouteBind(r) == r.bind # Dynamic /\ Given(r.bind, "auto") \in BindSources /\ Bind(r) # ""

\* routeTx: nothing, or NonTransactional().
RouteTx(r) == r.transaction \in {Absent, "none"}

\* analyzeCustomRoute; the first thing that is wrong is reported.
AnalyzeCustomRoute(r, m, f) ==
  IF r = Dynamic THEN {"CG101"}
  ELSE IF ~Static(r.method) \/ Normal(r.method) \notin HTTPMethods \/ ~Static(r.path) \/ ~Legal("route", r.path) THEN {"CG101"}
  ELSE IF ~ControllerHandler(r.handler, f) THEN {"CG102"}
  ELSE IF ~CheckRouteBind(r) THEN {"CG101"}
  ELSE IF ~ParseMiddleware(r.middleware, m) THEN {"CG104"}
  ELSE IF ~ControllerRouteTags(r.tags) \/ ~StaticText(r.summary) \/ ~StaticText(r.description) \/ ~RouteTx(r)
          \/ Dynamic \in {r.ignoreGlobalPrefix, r.developmentOnly} THEN {"CG101"}
  ELSE {}

CustomRoute(r, m, f) ==
  [controller |-> ControllerKey(m, f), kind |-> "custom", method |-> Normal(r.method), bind |-> Bind(r),
   path |-> Prefixed(ControllerPath(m, f), f.area, Given(r.ignoreGlobalPrefix, Given(Options(f).ignoreGlobalPrefix, FALSE)))
            \o r.path,
   handler |-> [pkg |-> r.handler.pkg, symbol |-> r.handler.symbol, method |-> r.handler.method, type |-> r.handler.type,
                request |-> Given(r.handler.request, [pkg |-> "", type |-> ""])],
   middleware |-> Symbols(r.middleware), tags |-> TagNames(r.tags), summary |-> Given(r.summary, ""),
   description |-> Given(r.description, ""), transactional |-> r.transaction = Absent]

(***************************************************************************)
(* analyzeController                                                        *)
(***************************************************************************)
EntityOf(e) == [pkg |-> e.pkg, name |-> e.name]

\* The Curd literal: its prefix, entity, service, and the hook on insertions.
CheckCurd(curd, m, f) ==
  LET found == ControllerServices(curd, f, m) IN
  IF curd = Dynamic THEN {"CG025"}
  ELSE IF curd.prefix = Dynamic \/ ~Legal("relative", Given(curd.prefix, "")) THEN {"CG024"}
  ELSE IF ~\E e \in Range(Entities(m)) : EntityOf(e) = curd.entity THEN {"CG026"}
  ELSE IF found = <<>> THEN {"CG027"}
  ELSE IF Head(found).base.entity # curd.entity \/ Head(found).base.id # "uint64" THEN {"CG028"}
  ELSE IF curd.insert \notin {Absent, curd.entity} THEN {"CG029"}
  ELSE CheckDefaults(curd, Head(found))

CheckCustomRoutes(m, f) ==
  LET wrong == SelectInSeq(f.routes, LAMBDA r : AnalyzeCustomRoute(r, m, f) # {}) IN
  IF wrong = 0 THEN {} ELSE AnalyzeCustomRoute(f.routes[wrong], m, f)

AnalyzeController(m, f) ==
  IF ~f.signature \/ ~f.exported \/ ~f.static THEN {"CG023"}
  ELSE IF Len(f.curds) > 1 THEN {"CG025"}
  ELSE IF Len(f.options) > 1 THEN {"CG100"}
  ELSE IF f.builder # f.area \/ f.path = Dynamic \/ ~Legal("relative", Given(f.path, "")) THEN {"CG024"}
  ELSE IF f.options # <<>> /\ AnalyzeOptions(Head(f.options), m) # {} THEN AnalyzeOptions(Head(f.options), m)
  ELSE IF f.curds # <<>> /\ CheckCurd(Head(f.curds), m, f) # {} THEN CheckCurd(Head(f.curds), m, f)
  ELSE CheckCustomRoutes(m, f)

\* analyzeControllers: what is in the model is what has no diagnostic.
AnalyzeControllers(m) == UNION {AnalyzeController(m, f) : f \in Range(m.controllers)}
Accepted(m) == SelectSeq(m.controllers, LAMBDA f : AnalyzeController(m, f) = {})

Controller(m, f) ==
  [key |-> ControllerKey(m, f), module |-> m.key,
   path |-> "/" \o f.area \o ControllerPath(m, f),
   aliases |-> Given(Options(f).alias, <<>>), middleware |-> Symbols(Options(f).middleware),
   factory |-> [pkg |-> f.pkg, symbol |-> f.name, method |-> "", type |-> f.name, request |-> [pkg |-> "", type |-> ""]],
   description |-> Given(Options(f).description, ""), tag |-> Given(Options(f).tagName, "")]

\* analyzeRoutes
Routes(m, f) == DefaultRoutes(m, f) \o [n \in DOMAIN f.routes |-> CustomRoute(f.routes[n], m, f)]

ProjectControllers(modules) ==
  FlattenSeq([n \in DOMAIN modules |-> LET fs == Accepted(modules[n]) IN
    [k \in DOMAIN fs |-> Controller(modules[n], fs[k])]])

ProjectRoutes(modules) ==
  FlattenSeq([n \in DOMAIN modules |-> LET fs == Accepted(modules[n]) IN
    FlattenSeq([k \in DOMAIN fs |-> Routes(modules[n], fs[k])])])

(***************************************************************************)
(* checkRouteConflicts                                                      *)
(***************************************************************************)
ModuleMiddleware(m) == References(m, "Middlewares") \o References(m, "GlobalMiddlewares")

\* Mutant of RouteConflicts: only the aliases are compared.
AliasConflicts(controllers, routes) == ~IsInjective(FlattenSeq([n \in DOMAIN controllers |-> controllers[n].aliases]))

\* Aliases, and methods with their paths, are unique in the project.
RouteConflicts(controllers, routes) ==
  \/ ~IsInjective(FlattenSeq([n \in DOMAIN controllers |-> controllers[n].aliases]))
  \/ ~IsInjective([n \in DOMAIN routes |-> << routes[n].method, routes[n].path >>])

\* A middleware is registered once on the way to a handler.
MiddlewareConflicts(m) ==
  LET fs == Accepted(m)
      before(f) == ModuleMiddleware(m) \o Symbols(Options(f).middleware) IN
  \/ ~IsInjective(ModuleMiddleware(m))
  \/ \E n \in DOMAIN fs : \/ ~IsInjective(before(fs[n]))
                          \/ \E k \in DOMAIN fs[n].routes : ~IsInjective(before(fs[n]) \o Symbols(fs[n].routes[k].middleware))

CheckRouteConflicts(modules) ==
  (IF RouteConflicts(ProjectControllers(modules), ProjectRoutes(modules)) THEN {"CG103"} ELSE {})
  \cup {"CG104" : m \in {n \in Range(modules) : MiddlewareConflicts(n)}}

(***************************************************************************)
(* The builder, which panics on what it does not accept.                    *)
(***************************************************************************)
\* checkURLTag: a tag selects among the APIs of its Curd.
CheckURLTag(tag, enabled) ==
  tag # Absent => /\ ~Blank(tag.name)
                  /\ Range(Given(tag.url, <<>>)) \subseteq Range(enabled)
                  /\ IsInjective(Given(tag.url, <<>>))

\* checkOptions
BuilderOptions(options) ==
  /\ Listed(Symbols(options.middleware), "reference")
  /\ Listed(Given(options.alias, <<>>), "identifier")
  /\ OptionalText(Given(options.description, "")) /\ OptionalText(Given(options.tagName, ""))

\* checkCurd
BuilderCurd(curd) ==
  /\ Legal("relative", Given(curd.prefix, ""))
  /\ Range(Given(curd.api, <<>>)) \subseteq APIs /\ IsInjective(Given(curd.api, <<>>))
  /\ CheckURLTag(curd.tag, Given(curd.api, <<>>))

\* checkRoute
BuilderRoute(r) ==
  /\ Normal(r.method) \in HTTPMethods
  /\ Legal("route", r.path)
  /\ OptionalText(Given(r.summary, "")) /\ OptionalText(Given(r.description, ""))
  /\ Given(r.bind, "auto") \in BindSources
  /\ Listed(Symbols(r.middleware), "reference")
  /\ IsInjective(TagNames(r.tags))
  /\ r.tags # Absent => \A n \in DOMAIN r.tags : CheckURLTag(r.tags[n], <<>>)

\* The calls of the chain, from Admin or App to Build.
Builds(f) ==
  /\ Legal("relative", Given(f.path, ""))
  /\ Len(f.options) <= 1 /\ Len(f.curds) <= 1
  /\ \A n \in DOMAIN f.options : BuilderOptions(f.options[n])
  /\ \A n \in DOMAIN f.curds : BuilderCurd(f.curds[n])
  /\ \A n \in DOMAIN f.routes : BuilderRoute(f.routes[n])
=============================================================================
