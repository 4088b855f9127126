------------------------------ MODULE MCLogin -------------------------------
(***************************************************************************)
(* A small instance of Login: one user, one client address with captchas   *)
(* outstanding, and limits low enough to be reached.                       *)
(***************************************************************************)
EXTENDS Login

CONSTANTS c1, px, k1, k2, k3

MCInitCaptchas == [k \in Captchas |-> [client |-> c1, exp |-> 1 + CaptchaTTL]]

\* The client itself, or through one or two trusted proxies.
MCOrigins == {[remote |-> c1, forwarded |-> <<>>], [remote |-> px, forwarded |-> <<c1, px>>]}

Symmetry == Permutations(Procs) \cup Permutations(SessionIds) \cup Permutations(Captchas)
=============================================================================
