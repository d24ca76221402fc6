-------------------------- MODULE MCPortalArchive --------------------------
(* Instances of PortalArchive for model checking. *)
EXTENDS PortalArchive, TLC

CONSTANTS j1, j2

\* The second alert carries the first one's correlation id, but neither it nor
\* its file name is the expired row's.
NotTransitive == (Versions \X Versions) \ {<<Old, j2>>, <<j2, Old>>}

\* The second analysis has fewer chunks than the first, or none.
Shrinking == {(Old :> 1) @@ (j1 :> 2) @@ (j2 :> 1), (Old :> 2) @@ (j1 :> 1) @@ (j2 :> 0)}
=============================================================================
