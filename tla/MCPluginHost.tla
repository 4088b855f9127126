---------------------------- MODULE MCPluginHost ----------------------------
(***************************************************************************)
(* Small instances of PluginHost: two plugins that compete for a hook, one *)
(* of them with an upgrade (PluginHooks.cfg), and two plugins without a    *)
(* hook, one running when the node starts and one that a request installs, *)
(* with a caller of both, so that a close chains the drains of several     *)
(* generations behind one another and behind calls (PluginSync.cfg).       *)
(***************************************************************************)
EXTENDS PluginHost, TLC

CONSTANTS p, q, p1, p2, q1

FoundRow(b, e) == [id |-> 1, revision |-> 1, enabled |-> e, build |-> b]

TwoPlugins == (p :> {p1, p2}) @@ (q :> {q1})
FoundTwo == (p :> {NoRow, FoundRow(p1, FALSE), FoundRow(p1, TRUE)})
              @@ (q :> {NoRow, FoundRow(q1, TRUE)})

OneBuildEach == (p :> {p1}) @@ (q :> {q1})
FoundOneRunning == (p :> {NoRow}) @@ (q :> {FoundRow(q1, TRUE)})
=============================================================================
