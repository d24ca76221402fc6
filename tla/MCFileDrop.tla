----------------------------- MODULE MCFileDrop -----------------------------
(* Instances of FileDrop for model checking. *)
EXTENDS FileDrop, TLC

CONSTANTS aj, at, bj   \* a.json, a.txt, b.json
CONSTANTS a, b         \* their stems

StemOf == [n \in {aj, at, bj} |-> IF n = bj THEN b ELSE a]

Plain(n) == [base |-> n, path |-> <<>>]

\* Two names that share a stem, and so the name of their report, and a third.
SharedReport == {Plain(aj), Plain(at), Plain(bj)}

\* A name and one that looks like what the collision loop makes of it.
LooksSuffixed == {Plain(aj), Suffixed(Plain(aj), 1)}

WorkerSymmetry == Permutations(Workers)
=============================================================================
