------------------------- MODULE MCSideEffectLock -------------------------
(* Instances of SideEffectLock for model checking. *)
EXTENDS SideEffectLock, TLC

\* Threads are interchangeable: nothing in the code orders them.
WorkerSymmetry == Permutations(Workers)
=============================================================================
