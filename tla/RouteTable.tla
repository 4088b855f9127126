----------------------------- MODULE RouteTable -----------------------------
(***************************************************************************)
(* cool-next/core/route: the checks BuildTable makes on the controllers and *)
(* routes of the generated registry before it returns a table.              *)
(*                                                                          *)
(* Words stand for texts.  Malformed names, for each lexical class, the     *)
(* words outside of it; Spelling maps a word to its normal form when that   *)
(* differs: an HTTP method in lower case, a path with a trailing slash.     *)
(***************************************************************************)
EXTENDS Sequences, Functions

CONSTANTS Malformed, Spelling

Legal(class, word) == word \notin Malformed[class]
Normal(word) == IF word \in DOMAIN Spelling THEN Spelling[word] ELSE word

\* validateText with optional texts: empty, or not blank and without control characters.
OptionalText(text) == text = "" \/ Legal("text", text)

\* validateValues
Listed(values, class) == (\A n \in DOMAIN values : Legal(class, values[n])) /\ IsInjective(values)

ValidRequest(request) ==
  \/ request.pkg = "" /\ request.type = ""
  \/ Legal("package", request.pkg) /\ Legal("identifier", request.type)

\* validateCallable; a factory has no method.
ValidCallable(ref, requiresMethod) ==
  /\ Legal("package", ref.pkg)
  /\ Legal("identifier", ref.symbol)
  /\ requiresMethod => Legal("identifier", ref.method)
  /\ Legal("type", ref.type)
  /\ ValidRequest(ref.request)

ValidController(c) ==
  /\ Legal("text", c.key)
  /\ Legal("module", c.module)
  /\ Legal("path", c.path)
  /\ Listed(c.aliases, "identifier")
  /\ Listed(c.middleware, "reference")
  /\ ValidCallable(c.factory, FALSE)
  /\ OptionalText(c.description)
  /\ OptionalText(c.tag)

\* compileControllers: keys and aliases belong to one controller.
ValidControllers(controllers) ==
  /\ \A n \in DOMAIN controllers : ValidController(controllers[n])
  /\ \A n, m \in DOMAIN controllers : n # m =>
       /\ controllers[n].key # controllers[m].key
       /\ Range(controllers[n].aliases) \cap Range(controllers[m].aliases) = {}

ValidRoute(r, controllers) ==
  /\ \E n \in DOMAIN controllers : controllers[n].key = r.controller
  /\ Legal("method", Normal(r.method))
  /\ Legal("path", r.path)
  /\ r.kind \in {"crud", "custom"}
  /\ r.bind \in {"json", "query", "form", "path", "file"}
  /\ r.kind = "crud" => r.transactional
  /\ ValidCallable(r.handler, TRUE)
  /\ Listed(r.middleware, "reference")
  /\ Listed(r.tags, "identifier")
  /\ OptionalText(r.summary)
  /\ OptionalText(r.description)

\* What a request is matched by.
RouteKey(r) == << Normal(r.method), Normal(r.path) >>

ValidRoutes(routes, controllers) ==
  /\ \A n \in DOMAIN routes : ValidRoute(routes[n], controllers)
  /\ \A n, m \in DOMAIN routes : n # m => RouteKey(routes[n]) # RouteKey(routes[m])

BuildTable(controllers, routes) == ValidControllers(controllers) /\ ValidRoutes(routes, controllers)
=============================================================================
