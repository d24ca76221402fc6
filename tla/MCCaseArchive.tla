--------------------------- MODULE MCCaseArchive ---------------------------
(* Instances of CaseArchive for model checking. *)
EXTENDS CaseArchive, TLC

CONSTANTS d1, d2, d3, r1, r2

\* Two alerts of one finding, or one alert announced twice and another one.
TwoRuns == (d1 :> r1) @@ (d2 :> r2)
Duplicate == (d1 :> r1) @@ (d2 :> r1) @@ (d3 :> r2)

\* The second analysis has fewer chunks than the first.
Shrinking == (r1 :> 2) @@ (r2 :> 1)
=============================================================================
