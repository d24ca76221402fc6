---------------------------- MODULE MCChatQuota ----------------------------
(* Instances of ChatQuota for model checking. *)
EXTENDS ChatQuota, TLC

CONSTANTS c1, c2, c3, x, y, z

\* Calls of three turns, or a turn sent twice and another one.
AllDifferent == (c1 :> x) @@ (c2 :> y) @@ (c3 :> z)
OneRetry == (c1 :> x) @@ (c2 :> x) @@ (c3 :> y)
=============================================================================
