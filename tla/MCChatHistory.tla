--------------------------- MODULE MCChatHistory ---------------------------
(* Instances of ChatHistory for model checking. *)
EXTENDS ChatHistory, TLC

CONSTANTS q1, q2, q3, q4, q5, t1, t2

\* The opening turn and its retry, and a second turn asked for three times.
TwoTurns == (q1 :> t1) @@ (q2 :> t1) @@ (q3 :> t2) @@ (q4 :> t2) @@ (q5 :> t2)

\* Requests for the same turn are alike.
Alike == Permutations({q1, q2}) \cup Permutations({q3, q4, q5})

\* Bound: one of the five is never made, whichever it is.
AtMostFour == Cardinality({q \in Requests : at[q] # "new"}) <= 4
=============================================================================
