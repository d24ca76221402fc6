------------------------- MODULE MCLeasedWriteback -------------------------
(* Instances of LeasedWriteback for model checking. *)
EXTENDS LeasedWriteback, TLC

CONSTANTS m1, m2, o1, o2

\* One object announced twice, or two objects with the same finding id.
SameObject == (m1 :> o1) @@ (m2 :> o1)
TwoObjects == (m1 :> o1) @@ (m2 :> o2)

\* Messages about the same object, and the model's answers, are alike.
Alike == Permutations(Messages) \cup Permutations(Analyses)
=============================================================================
