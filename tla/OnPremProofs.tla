---------------------------- MODULE OnPremProofs ----------------------------
(***************************************************************************)
(* Proofs about the two components the worker threads of the on-prem       *)
(* service write through: SideEffectLock, the guard around an external     *)
(* write, for every number of threads, every bound and every choice of the *)
(* failures that may happen; and PortalArchive, the archive of a case, for *)
(* every number of workers, every number of chunks and of faults.          *)
(***************************************************************************)
EXTENDS SideEffectLock, PortalArchive, FiniteSetTheorems, TLAPS

(***************************************************************************)
(* The side-effect guard                                                   *)
(***************************************************************************)

-----------------------------------------------------------------------------
(* Type correctness *)

\* A thread that has begun is working on an input it has not finished.
BusyHasJob == \A w \in Workers : pc[w] # "idle" => jobs[w] > 0

LEMMA TypeInit == Init => TypeOK /\ BusyHasJob
<1> SUFFICES ASSUME Init PROVE TypeOK /\ BusyHasJob
  OBVIOUS
<1> USE BoundsAssumption, TimesAssumption DEF Init
<1>1. pc \in [Workers -> Locations] /\ outcome \in [Workers -> Outcomes]
  BY DEF Locations, Outcomes
<1>2. waited \in [Workers -> 0 .. WaitTimeout]
  OBVIOUS
<1>3. jobs \in [Workers -> 0 .. MaxJobs]
  OBVIOUS
<1>4. lockAge \in 0 .. (StaleAfter + 1) /\ crashes \in 0 .. MaxCrashes
  OBVIOUS
<1>5. BusyHasJob
  BY DEF BusyHasJob
<1> QED
  BY <1>1, <1>2, <1>3, <1>4, <1>5 DEF TypeOK

\* Unlinking the lock path is well typed, whoever created the file.
LEMMA UnlinkType ==
  ASSUME TypeOK, NEW w, UnlinkLock(w)
  PROVE  /\ lock' = Nobody
         /\ lockAge' \in 0 .. (StaleAfter + 1)
         /\ lapses' \subseteq LapseKinds
<1>1. lapses' = lapses \/ lapses' = lapses \cup {"steal"}
  BY DEF UnlinkLock
<1>2. "steal" \in LapseKinds
  BY DEF LapseKinds
<1> QED
  BY <1>1, <1>2, TimesAssumption DEF UnlinkLock, TypeOK

\* Every reachable state of the guard is well typed.
THEOREM TypeCorrect == Spec => []TypeOK
<1>1. Init => TypeOK /\ BusyHasJob
  BY TypeInit
<1>2. TypeOK /\ BusyHasJob /\ [Next]_vars => (TypeOK /\ BusyHasJob)'
  <2> SUFFICES ASSUME TypeOK, BusyHasJob, [Next]_vars PROVE (TypeOK /\ BusyHasJob)'
    OBVIOUS
  <2> USE BoundsAssumption, TimesAssumption, ActorsAssumption
      DEF TypeOK, BusyHasJob, Locations, Outcomes, LapseKinds, Goto, Report, LockExists
  <2>1. ASSUME NEW w \in Workers, Begin(w) PROVE (TypeOK /\ BusyHasJob)'
    BY <2>1 DEF Begin
  <2>2. ASSUME NEW w \in Workers, ReadMarker(w) PROVE (TypeOK /\ BusyHasJob)'
    BY <2>2 DEF ReadMarker
  <2>3. ASSUME NEW w \in Workers, AcquireLock(w) PROVE (TypeOK /\ BusyHasJob)'
    <3>1. lapses' \in {lapses, lapses \cup {"orphan"}}
      BY <2>3 DEF AcquireLock
    <3>2. lock' \in Workers \cup {Nobody, Orphan}
      BY <2>3 DEF AcquireLock
    <3>3. outcome' \in [Workers -> Outcomes] /\ lockAge' \in 0 .. (StaleAfter + 1)
      BY <2>3 DEF AcquireLock
    <3>4. pc' \in [Workers -> Locations] /\ BusyHasJob'
      BY <2>3 DEF AcquireLock
    <3> QED
      BY <2>3, <3>1, <3>2, <3>3, <3>4 DEF AcquireLock
  <2>4. ASSUME NEW w \in Workers, CheckLock(w) PROVE (TypeOK /\ BusyHasJob)'
    BY <2>4 DEF CheckLock
  <2>5. ASSUME NEW w \in Workers, UnlinkStale(w) PROVE (TypeOK /\ BusyHasJob)'
    <3>1. \/ UnlinkLock(w)
          \/ UNCHANGED <<lock, lockAge, lapses>>
      BY <2>5 DEF UnlinkStale
    <3>2. /\ lock' \in Workers \cup {Nobody, Orphan}
          /\ lockAge' \in 0 .. (StaleAfter + 1)
          /\ lapses' \subseteq LapseKinds
      BY <3>1, UnlinkType
    <3> QED
      BY <2>5, <3>2 DEF UnlinkStale
  <2>6. ASSUME NEW w \in Workers, RecheckMarker(w) PROVE (TypeOK /\ BusyHasJob)'
    BY <2>6 DEF RecheckMarker
  <2>7. ASSUME NEW w \in Workers, Post(w) PROVE (TypeOK /\ BusyHasJob)'
    <3>1. applied' \in Nat /\ lapses' \in {lapses, lapses \cup {"ambiguous"}}
      BY <2>7 DEF Post
    <3>2. outcome' \in [Workers -> Outcomes]
      BY <2>7 DEF Post
    <3> QED
      BY <2>7, <3>1, <3>2 DEF Post
  <2>8. ASSUME NEW w \in Workers, RecordMarker(w) PROVE (TypeOK /\ BusyHasJob)'
    BY <2>8 DEF RecordMarker
  <2>9. ASSUME NEW w \in Workers, ReleaseLock(w) PROVE (TypeOK /\ BusyHasJob)'
    <3>1. \/ UnlinkLock(w)
          \/ /\ UNCHANGED lockAge
             /\ lock' \in {lock, Orphan}
             /\ lapses' \in {lapses, lapses \cup {"orphan"}}
      BY <2>9 DEF ReleaseLock, Orphaned
    <3>2. /\ lock' \in Workers \cup {Nobody, Orphan}
          /\ lockAge' \in 0 .. (StaleAfter + 1)
          /\ lapses' \subseteq LapseKinds
      BY <3>1, UnlinkType
    <3> QED
      BY <2>9, <3>2 DEF ReleaseLock
  <2>10. ASSUME NEW w \in Workers, FinishJob(w) PROVE (TypeOK /\ BusyHasJob)'
    BY <2>10 DEF FinishJob
  <2>11. CASE Crash
    <3>1. lapses' \subseteq lapses \cup {"orphan", "crash"}
      BY <2>11 DEF Crash
    <3>2. lapses' \subseteq LapseKinds
      BY <3>1
    <3>3. lock' \in {Nobody, Orphan} /\ crashes' \in 0 .. MaxCrashes
      BY <2>11 DEF Crash
    <3>4. pc' \in [Workers -> Locations] /\ BusyHasJob'
      BY <2>11 DEF Crash
    <3> QED
      BY <2>11, <3>2, <3>3, <3>4 DEF Crash
  <2>12. CASE PruneMarker
    BY <2>12 DEF PruneMarker
  <2>13. CASE PruneLock
    <3>1. \/ UnlinkLock(Nobody)
          \/ UNCHANGED <<lock, lockAge, lapses>>
      BY <2>13 DEF PruneLock
    <3>2. /\ lock' \in Workers \cup {Nobody, Orphan}
          /\ lockAge' \in 0 .. (StaleAfter + 1)
          /\ lapses' \subseteq LapseKinds
      BY <3>1, UnlinkType
    <3> QED
      BY <2>13, <3>2 DEF PruneLock
  <2>16. CASE PruneCheck
    BY <2>16 DEF PruneCheck
  <2>14. CASE Tick
    BY <2>14 DEF Tick
  <2>15. CASE UNCHANGED vars
    BY <2>15 DEF vars
  <2> QED
    BY <2>1, <2>2, <2>3, <2>4, <2>5, <2>6, <2>7, <2>8, <2>9, <2>10, <2>11,
       <2>12, <2>13, <2>14, <2>15, <2>16 DEF Next, Step
<1> QED
  BY <1>1, <1>2, PTL DEF Spec

-----------------------------------------------------------------------------
(* Mutual exclusion *)

LEMMA HolderStep ==
  TypeOK /\ HolderOwnsLock /\ [Next]_vars => HolderOwnsLock'
<1> SUFFICES ASSUME TypeOK, HolderOwnsLock, [Next]_vars PROVE HolderOwnsLock'
  OBVIOUS
<1> USE ActorsAssumption DEF TypeOK, HolderOwnsLock, Holding, Goto, LockExists
<1>1. ASSUME NEW w \in Workers, Begin(w) PROVE HolderOwnsLock'
  BY <1>1 DEF Begin
<1>2. ASSUME NEW w \in Workers, ReadMarker(w) PROVE HolderOwnsLock'
  BY <1>2 DEF ReadMarker
<1>3. ASSUME NEW w \in Workers, AcquireLock(w) PROVE HolderOwnsLock'
  BY <1>3 DEF AcquireLock
<1>4. ASSUME NEW w \in Workers, CheckLock(w) PROVE HolderOwnsLock'
  BY <1>4 DEF CheckLock
<1>5. ASSUME NEW w \in Workers, UnlinkStale(w) PROVE HolderOwnsLock'
  BY <1>5 DEF UnlinkStale, UnlinkLock
<1>6. ASSUME NEW w \in Workers, RecheckMarker(w) PROVE HolderOwnsLock'
  BY <1>6 DEF RecheckMarker
<1>7. ASSUME NEW w \in Workers, Post(w) PROVE HolderOwnsLock'
  BY <1>7 DEF Post
<1>8. ASSUME NEW w \in Workers, RecordMarker(w) PROVE HolderOwnsLock'
  BY <1>8 DEF RecordMarker
<1>9. ASSUME NEW w \in Workers, ReleaseLock(w) PROVE HolderOwnsLock'
  BY <1>9 DEF ReleaseLock, UnlinkLock, Orphaned
<1>10. ASSUME NEW w \in Workers, FinishJob(w) PROVE HolderOwnsLock'
  BY <1>10 DEF FinishJob
<1>11. CASE Crash
  BY <1>11 DEF Crash
<1>12. CASE PruneMarker
  BY <1>12 DEF PruneMarker
<1>13. CASE PruneLock
  BY <1>13 DEF PruneLock, UnlinkLock
<1>16. CASE PruneCheck
  BY <1>16 DEF PruneCheck
<1>14. CASE Tick
  BY <1>14 DEF Tick
<1>15. CASE UNCHANGED vars
  BY <1>15 DEF vars
<1> QED
  BY <1>1, <1>2, <1>3, <1>4, <1>5, <1>6, <1>7, <1>8, <1>9, <1>10, <1>11,
       <1>12, <1>13, <1>14, <1>15, <1>16 DEF Next, Step

\* Until a lock is taken from a running thread, every thread between creating
\* and removing the lock file owns the file that is there.
THEOREM MutualExclusion == Spec => []HolderOwnsLock
<1>1. Init => HolderOwnsLock
  BY DEF Init, HolderOwnsLock, Holding
<1> QED
  BY <1>1, HolderStep, TypeCorrect, PTL DEF Spec

-----------------------------------------------------------------------------
(* At most one write *)

\* What the marker and the threads' positions say of the writes carried out,
\* as long as none of the named events has happened.
WriteAccounted ==
    lapses \subseteq {"orphan"} =>
        /\ applied <= 1
        /\ \A w \in Workers : pc[w] = "post" => applied = 0
        /\ applied = 1 => marker \/ \E w \in Workers : pc[w] = "record"

LEMMA AccountStep ==
  TypeOK /\ HolderOwnsLock /\ WriteAccounted /\ [Next]_vars => WriteAccounted'
<1> SUFFICES ASSUME TypeOK, HolderOwnsLock, WriteAccounted, [Next]_vars
             PROVE  WriteAccounted'
  OBVIOUS
<1> USE ActorsAssumption
    DEF TypeOK, HolderOwnsLock, WriteAccounted, Holding, Goto, LockExists
<1>1. ASSUME NEW w \in Workers, Begin(w) PROVE WriteAccounted'
  BY <1>1 DEF Begin
<1>2. ASSUME NEW w \in Workers, ReadMarker(w) PROVE WriteAccounted'
  BY <1>2 DEF ReadMarker
<1>3. ASSUME NEW w \in Workers, AcquireLock(w) PROVE WriteAccounted'
  BY <1>3 DEF AcquireLock
<1>4. ASSUME NEW w \in Workers, CheckLock(w) PROVE WriteAccounted'
  BY <1>4 DEF CheckLock
<1>5. ASSUME NEW w \in Workers, UnlinkStale(w) PROVE WriteAccounted'
  BY <1>5 DEF UnlinkStale, UnlinkLock
<1>6. ASSUME NEW w \in Workers, RecheckMarker(w) PROVE WriteAccounted'
  BY <1>6 DEF RecheckMarker
<1>7. ASSUME NEW w \in Workers, Post(w) PROVE WriteAccounted'
  <2> SUFFICES ASSUME lapses' \subseteq {"orphan"} PROVE WriteAccounted'
    OBVIOUS
  <2>1. "ambiguous" \notin lapses'
    OBVIOUS
  <2>2. lapses' = lapses /\ "steal" \notin lapses
    BY <1>7, <2>1 DEF Post
  <2>3. \A v \in Workers : pc[v] = "post" => v = w
    BY <1>7, <2>2 DEF Post
  <2>4. applied = 0
    BY <1>7, <2>2 DEF Post
  <2> QED
    BY <1>7, <2>2, <2>3, <2>4 DEF Post
<1>8. ASSUME NEW w \in Workers, RecordMarker(w) PROVE WriteAccounted'
  <2> SUFFICES ASSUME lapses' \subseteq {"orphan"} PROVE WriteAccounted'
    OBVIOUS
  <2>1. "markerWrite" \notin lapses'
    OBVIOUS
  <2>2. lapses' = lapses /\ marker'
    BY <1>8, <2>1 DEF RecordMarker
  <2> QED
    BY <1>8, <2>2 DEF RecordMarker
<1>9. ASSUME NEW w \in Workers, ReleaseLock(w) PROVE WriteAccounted'
  BY <1>9 DEF ReleaseLock, UnlinkLock, Orphaned
<1>10. ASSUME NEW w \in Workers, FinishJob(w) PROVE WriteAccounted'
  BY <1>10 DEF FinishJob
<1>11. CASE Crash
  BY <1>11 DEF Crash
<1>12. CASE PruneMarker
  BY <1>12 DEF PruneMarker
<1>13. CASE PruneLock
  BY <1>13 DEF PruneLock, UnlinkLock
<1>16. CASE PruneCheck
  BY <1>16 DEF PruneCheck
<1>14. CASE Tick
  BY <1>14 DEF Tick
<1>15. CASE UNCHANGED vars
  BY <1>15 DEF vars
<1> QED
  BY <1>1, <1>2, <1>3, <1>4, <1>5, <1>6, <1>7, <1>8, <1>9, <1>10, <1>11,
       <1>12, <1>13, <1>14, <1>15, <1>16 DEF Next, Step

\* The external write is carried out at most once per key unless a lock was
\* taken from a running thread, an answer was lost, a marker could not be
\* written, a crash fell between the write and its marker, or retention
\* deleted the marker.
THEOREM AtMostOnce == Spec => []AtMostOnceUnlessLapse
<1>1. Init => WriteAccounted
  BY DEF Init, WriteAccounted
<1>2. WriteAccounted => AtMostOnceUnlessLapse
  BY DEF WriteAccounted, AtMostOnceUnlessLapse
<1> QED
  BY <1>1, <1>2, AccountStep, TypeCorrect, MutualExclusion, PTL DEF Spec

-----------------------------------------------------------------------------
(* A skipped write has happened *)

\* A marker, and a thread about to write one, witness a write.
MarkerWitnessesWrite ==
    /\ marker => applied > 0
    /\ \A w \in Workers : pc[w] = "record" => applied > 0

LEMMA SkipStep ==
  /\ TypeOK /\ SkipMeansApplied /\ MarkerWitnessesWrite
  /\ [Next]_vars
  => (SkipMeansApplied /\ MarkerWitnessesWrite)'
<1> SUFFICES ASSUME TypeOK, SkipMeansApplied, MarkerWitnessesWrite, [Next]_vars
             PROVE  (SkipMeansApplied /\ MarkerWitnessesWrite)'
  OBVIOUS
<1> USE DEF TypeOK, SkipMeansApplied, MarkerWitnessesWrite, Goto, Report
<1>1. ASSUME NEW w \in Workers, Begin(w) PROVE (SkipMeansApplied /\ MarkerWitnessesWrite)'
  BY <1>1 DEF Begin
<1>2. ASSUME NEW w \in Workers, ReadMarker(w) PROVE (SkipMeansApplied /\ MarkerWitnessesWrite)'
  BY <1>2 DEF ReadMarker
<1>3. ASSUME NEW w \in Workers, AcquireLock(w) PROVE (SkipMeansApplied /\ MarkerWitnessesWrite)'
  BY <1>3 DEF AcquireLock
<1>4. ASSUME NEW w \in Workers, CheckLock(w) PROVE (SkipMeansApplied /\ MarkerWitnessesWrite)'
  BY <1>4 DEF CheckLock
<1>5. ASSUME NEW w \in Workers, UnlinkStale(w) PROVE (SkipMeansApplied /\ MarkerWitnessesWrite)'
  BY <1>5 DEF UnlinkStale, UnlinkLock
<1>6. ASSUME NEW w \in Workers, RecheckMarker(w) PROVE (SkipMeansApplied /\ MarkerWitnessesWrite)'
  BY <1>6 DEF RecheckMarker
<1>7. ASSUME NEW w \in Workers, Post(w) PROVE (SkipMeansApplied /\ MarkerWitnessesWrite)'
  BY <1>7 DEF Post
<1>8. ASSUME NEW w \in Workers, RecordMarker(w) PROVE (SkipMeansApplied /\ MarkerWitnessesWrite)'
  BY <1>8 DEF RecordMarker
<1>9. ASSUME NEW w \in Workers, ReleaseLock(w) PROVE (SkipMeansApplied /\ MarkerWitnessesWrite)'
  BY <1>9 DEF ReleaseLock, UnlinkLock, Orphaned
<1>10. ASSUME NEW w \in Workers, FinishJob(w) PROVE (SkipMeansApplied /\ MarkerWitnessesWrite)'
  BY <1>10 DEF FinishJob
<1>11. CASE Crash
  BY <1>11 DEF Crash
<1>12. CASE PruneMarker
  BY <1>12 DEF PruneMarker
<1>13. CASE PruneLock
  BY <1>13 DEF PruneLock, UnlinkLock
<1>16. CASE PruneCheck
  BY <1>16 DEF PruneCheck
<1>14. CASE Tick
  BY <1>14 DEF Tick
<1>15. CASE UNCHANGED vars
  BY <1>15 DEF vars
<1> QED
  BY <1>1, <1>2, <1>3, <1>4, <1>5, <1>6, <1>7, <1>8, <1>9, <1>10, <1>11,
     <1>12, <1>13, <1>14, <1>15, <1>16 DEF Next, Step

\* A caller told that the write was already completed is told the truth.
THEOREM SkipIsTruthful == Spec => []SkipMeansApplied
<1>1. Init => SkipMeansApplied /\ MarkerWitnessesWrite
  BY DEF Init, SkipMeansApplied, MarkerWitnessesWrite
<1> QED
  BY <1>1, SkipStep, TypeCorrect, PTL DEF Spec

-----------------------------------------------------------------------------
(* No takeover from the living *)

\* As long as no lock was orphaned, the lock file belongs to a thread inside the
\* guarded write, it is younger than the staleness limit, and so neither a
\* thread nor retention stands at the unlink of a stale lock.
OnlyLiveLocks ==
    "orphan" \notin lapses =>
        /\ "steal" \notin lapses
        /\ lock # Orphan
        /\ lock \in Workers => pc[lock] \in Holding /\ lockAge <= HoldMax
        /\ ~pruning /\ \A w \in Workers : pc[w] # "unlink"

LEMMA LiveLocksStep ==
  TypeOK /\ HolderOwnsLock /\ OnlyLiveLocks /\ [Next]_vars => OnlyLiveLocks'
<1> SUFFICES ASSUME TypeOK, HolderOwnsLock, OnlyLiveLocks, [Next]_vars
             PROVE  OnlyLiveLocks'
  OBVIOUS
<1> USE ActorsAssumption, TimesAssumption
    DEF TypeOK, OnlyLiveLocks, HolderOwnsLock, Holding, Goto, LockExists,
        LockIsStale, Orphaned
<1>1. ASSUME NEW w \in Workers, Begin(w) PROVE OnlyLiveLocks'
  BY <1>1 DEF Begin
<1>2. ASSUME NEW w \in Workers, ReadMarker(w) PROVE OnlyLiveLocks'
  BY <1>2 DEF ReadMarker
<1>3. ASSUME NEW w \in Workers, AcquireLock(w) PROVE OnlyLiveLocks'
  BY <1>3 DEF AcquireLock
<1>4. ASSUME NEW w \in Workers, CheckLock(w) PROVE OnlyLiveLocks'
  BY <1>4 DEF CheckLock
<1>5. ASSUME NEW w \in Workers, UnlinkStale(w) PROVE OnlyLiveLocks'
  BY <1>5 DEF UnlinkStale, UnlinkLock
<1>6. ASSUME NEW w \in Workers, RecheckMarker(w) PROVE OnlyLiveLocks'
  BY <1>6 DEF RecheckMarker
<1>7. ASSUME NEW w \in Workers, Post(w) PROVE OnlyLiveLocks'
  BY <1>7 DEF Post
<1>8. ASSUME NEW w \in Workers, RecordMarker(w) PROVE OnlyLiveLocks'
  BY <1>8 DEF RecordMarker
<1>9. ASSUME NEW w \in Workers, ReleaseLock(w) PROVE OnlyLiveLocks'
  BY <1>9 DEF ReleaseLock, UnlinkLock, Orphaned
<1>10. ASSUME NEW w \in Workers, FinishJob(w) PROVE OnlyLiveLocks'
  BY <1>10 DEF FinishJob
<1>11. CASE Crash
  BY <1>11 DEF Crash
<1>12. CASE PruneMarker
  BY <1>12 DEF PruneMarker
<1>13. CASE PruneLock
  BY <1>13 DEF PruneLock, UnlinkLock
<1>16. CASE PruneCheck
  BY <1>16 DEF PruneCheck
<1>14. CASE Tick
  BY <1>14 DEF Tick
<1>15. CASE UNCHANGED vars
  BY <1>15 DEF vars
<1> QED
  BY <1>1, <1>2, <1>3, <1>4, <1>5, <1>6, <1>7, <1>8, <1>9, <1>10, <1>11,
     <1>12, <1>13, <1>14, <1>15, <1>16 DEF Next, Step

\* As long as no crash, failed content write or failed release has orphaned a
\* lock, no lock is taken from a running thread: the guard is then exclusive.
THEOREM LiveHoldersKeepLock == Spec => []StealNeedsOrphan
<1>1. Init => OnlyLiveLocks
  BY ActorsAssumption DEF Init, OnlyLiveLocks
<1>2. OnlyLiveLocks => StealNeedsOrphan
  BY DEF OnlyLiveLocks, StealNeedsOrphan
<1> QED
  BY <1>1, <1>2, LiveLocksStep, TypeCorrect, MutualExclusion, PTL DEF Spec

(***************************************************************************)
(* The case archive                                                        *)
(***************************************************************************)

LocksRow(p) == tx[p].row # Untouched
Written(p) == DOMAIN tx[p].chunks

-----------------------------------------------------------------------------
(* Where a process can be, and the types *)

Places ==
    {"upsert", "scan", "delete", "commit", "embed", "insert", "status", "fetch", "look",
     "remove", "none"}

PlaceOf(p) ==
    /\ call[p] = "archive" => p \in Jobs /\ step[p] \in {"upsert", "scan", "delete", "commit"}
    /\ call[p] = "index" =>
          /\ p \in Jobs \cup {Rebuild} /\ Record(p) \in Versions
          /\ step[p] \in {"embed", "scan", "delete", "insert", "status", "commit"}
    /\ call[p] = "mark" => p \in Jobs /\ step[p] \in {"status", "commit"}
    /\ call[p] = "rebuild" => p = Rebuild /\ step[p] = "fetch"
    /\ call[p] = "sweep" => p = Sweep /\ step[p] \in {"look", "remove", "scan", "delete", "commit"}
    /\ call[p] = "over" => step[p] = "none"
    /\ step[p] \in {"delete", "insert"} <=> todo[p] # {}
    /\ step[p] = "insert" => todo[p] \subseteq ChunksOf(Record(p))

PlacedInv == PortalTypeOK /\ step \in [Procs -> Places] /\ \A p \in Procs : PlaceOf(p)

Txs == [row : Rows \cup {None, Untouched},
        chunks : UNION {[S -> Versions \cup {None}] : S \in SUBSET Slots},
        gone : SUBSET Slots, refers : BOOLEAN]

LEMMA LeastIsMember ==
  ASSUME NEW T \in SUBSET Nat, T # {} PROVE Min(T) \in T
<1>1. PICK x \in T : \A y \in T : ~(<<y, x>> \in OpToRel(<, Nat))
  BY NatLessThanWellFounded, WFMin
<1>2. \A y \in T : ~(y < x)
  BY <1>1 DEF OpToRel
<1>3. \A y \in T : x <= y
  BY <1>2
<1> QED
  BY <1>3 DEF Min

LEMMA ChunkNumbers ==
  ASSUME PortalTypeOK
  PROVE  /\ Slots \subseteq Nat
         /\ \A v \in Versions : ChunksOf(v) \subseteq Slots /\ (ChunksOf(v) = {} <=> size[v] = 0)
BY PortalAssumption DEF PortalTypeOK, Slots, ChunksOf

LEMMA NextChunk ==
  ASSUME PortalTypeOK, NEW p \in Procs, todo[p] # {} PROVE Min(todo[p]) \in todo[p]
BY ChunkNumbers, LeastIsMember DEF PortalTypeOK

\* The members of the type of transactions, from their parts.
LEMMA TxType ==
  ASSUME NEW r \in Rows \cup {None, Untouched}, NEW S \in SUBSET Slots,
         NEW f \in [S -> Versions \cup {None}], NEW G \in SUBSET Slots, NEW b \in BOOLEAN
  PROVE  [row |-> r, chunks |-> f, gone |-> G, refers |-> b] \in Txs
BY DEF Txs

LEMMA TxParts ==
  ASSUME NEW t \in Txs
  PROVE  /\ t = [row |-> t.row, chunks |-> t.chunks, gone |-> t.gone, refers |-> t.refers]
         /\ t.row \in Rows \cup {None, Untouched} /\ t.refers \in BOOLEAN
         /\ t.gone \subseteq Slots
         /\ DOMAIN t.chunks \subseteq Slots
         /\ t.chunks \in [DOMAIN t.chunks -> Versions \cup {None}]
BY DEF Txs

LEMMA RowWrite ==
  ASSUME PortalTypeOK, NEW p \in Procs, NEW r \in Rows \cup {None, Untouched}, WriteRow(p, r)
  PROVE  /\ tx' \in [Procs -> Txs]
         /\ tx'[p] = [row |-> r, chunks |-> tx[p].chunks, gone |-> tx[p].gone,
                      refers |-> tx[p].refers]
         /\ \A q \in Procs \ {p} : tx'[q] = tx[q]
<1>1. tx \in [Procs -> Txs]
  BY DEF PortalTypeOK, Txs
<1>2. tx'[p] = [row |-> r, chunks |-> tx[p].chunks, gone |-> tx[p].gone, refers |-> tx[p].refers]
  BY <1>1, TxParts DEF WriteRow
<1>3. tx'[p] \in Txs
  <2>1. /\ Written(p) \subseteq Slots /\ tx[p].refers \in BOOLEAN /\ tx[p].gone \subseteq Slots
        /\ tx[p].chunks \in [Written(p) -> Versions \cup {None}]
    BY <1>1, TxParts DEF Written
  <2> QED
    BY <1>2, <2>1, TxType
<1> QED
  BY <1>1, <1>2, <1>3 DEF WriteRow

LEMMA ChunkWrite ==
  ASSUME PortalTypeOK, NEW p \in Procs, NEW s \in Slots, NEW v \in Versions \cup {None},
         NEW refers \in BOOLEAN, WriteChunk(p, s, v, refers)
  PROVE  /\ tx' \in [Procs -> Txs]
         /\ tx'[p].row = tx[p].row /\ (tx'[p].refers <=> tx[p].refers \/ refers)
         /\ Written(p)' = Written(p) \cup {s}
         /\ \A y \in Written(p)' : tx'[p].chunks[y] = IF y = s THEN v ELSE tx[p].chunks[y]
         /\ \A q \in Procs \ {p} : tx'[q] = tx[q]
<1> DEFINE G == IF v = None THEN tx[p].gone \cup {s} ELSE tx[p].gone
<1>1. tx \in [Procs -> Txs]
  BY DEF PortalTypeOK, Txs
<1>2. tx'[p] = [row |-> tx[p].row, chunks |-> With(tx[p].chunks, s, v), gone |-> G,
                refers |-> tx[p].refers \/ refers]
  BY <1>1, TxParts DEF WriteChunk
<1>3. /\ DOMAIN With(tx[p].chunks, s, v) = Written(p) \cup {s}
      /\ With(tx[p].chunks, s, v) \in [Written(p) \cup {s} -> Versions \cup {None}]
      /\ Written(p) \cup {s} \subseteq Slots
  BY <1>1, TxParts DEF With, Written
<1>7. G \subseteq Slots
  BY <1>1, TxParts
<1>4. tx'[p] \in Txs
  <2>1. tx[p].row \in Rows \cup {None, Untouched} /\ tx[p].refers \in BOOLEAN
    BY <1>1, TxParts
  <2>2. PICK b \in BOOLEAN : b = (tx[p].refers \/ refers)
    BY <2>1
  <2> HIDE DEF G
  <2>3. tx'[p] = [row |-> tx[p].row, chunks |-> With(tx[p].chunks, s, v), gone |-> G, refers |-> b]
    BY <1>2, <2>2
  <2> QED
    BY <1>3, <1>7, <2>1, <2>3, TxType
<1>5. \A q \in Procs \ {p} : tx'[q] = tx[q]
  BY <1>1 DEF WriteChunk
<1>6. tx' \in [Procs -> Txs]
  BY <1>1, <1>4, <1>5 DEF WriteChunk
<1> QED
  <2>1. \A y \in Written(p) \cup {s} :
           With(tx[p].chunks, s, v)[y] = IF y = s THEN v ELSE tx[p].chunks[y]
    BY DEF With, Written
  <2>2. Written(p)' = Written(p) \cup {s} /\ tx'[p].chunks = With(tx[p].chunks, s, v)
    BY <1>2, <1>3 DEF Written
  <2>3. tx'[p].row = tx[p].row /\ tx'[p].refers = (tx[p].refers \/ refers)
    BY <1>2
  <2> QED
    BY <2>1, <2>2, <2>3, <1>5, <1>6

LEMMA ChunkGone ==
  ASSUME PortalTypeOK, NEW p \in Procs, NEW s, NEW v, NEW refers, WriteChunk(p, s, v, refers)
  PROVE  tx'[p].gone = IF v = None THEN tx[p].gone \cup {s} ELSE tx[p].gone
BY DEF WriteChunk, PortalTypeOK

LEMMA TxEnd ==
  ASSUME PortalTypeOK, NEW p \in Procs, tx' = [tx EXCEPT ![p] = NoTx]
  PROVE  /\ tx' \in [Procs -> Txs]
         /\ tx'[p] = NoTx
         /\ \A q \in Procs \ {p} : tx'[q] = tx[q]
<1>1. NoTx \in Txs
  BY DEF NoTx, Txs
<1> QED
  BY <1>1 DEF PortalTypeOK, Txs

LEMMA NoTxParts ==
  /\ NoTx \in Txs
  /\ NoTx.row = Untouched /\ NoTx.refers = FALSE /\ DOMAIN NoTx.chunks = {} /\ NoTx.gone = {}
BY DEF NoTx, Txs
-----------------------------------------------------------------------------
(* Moves *)

Results == {"none", "stored", "unindexed", "unmarked", "dropped", "raised", "conflict"}

Calls == {"archive", "index", "mark", "rebuild", "sweep", "over"}

\* Everything the inductive invariant says of process q alone.
Keeps(q) ==
    /\ call'[q] = call[q] /\ step'[q] = step[q] /\ todo'[q] = todo[q] /\ tx'[q] = tx[q]
    /\ Record(q)' = Record(q)

ControlTyped ==
    /\ call' \in [Procs -> Calls] /\ step' \in [Procs -> Places]
    /\ todo' \in [Procs -> SUBSET Slots] /\ tries' \in [Procs -> 0 .. MaxAttempts - 1]

\* The chunks that other processes pass over stay the same, and none of them
\* becomes a clean pass.
Uninvolved(p) ==
    /\ skip' \in [Procs -> SUBSET Slots] /\ clean' \subseteq Procs
    /\ \A q \in Procs \ {p} : skip'[q] = skip[q] /\ (q \in clean' => q \in clean)

LEMMA NothingPassedOver ==
  ASSUME PlacedInv, NEW p \in Procs,
         \/ UNCHANGED <<clean, skip>>
         \/ Rollback(p)
  PROVE  Uninvolved(p)
BY DEF PlacedInv, PortalTypeOK, Rollback, Uninvolved

\* Control goes to a place in a call, and other processes stay where they are.
Moved(p, c, s) ==
    /\ ControlTyped
    /\ call'[p] = c /\ step'[p] = s
    /\ \A q \in Procs \ {p} : call'[q] = call[q] /\ step'[q] = step[q] /\ todo'[q] = todo[q]

LEMMA Entered ==
  ASSUME PlacedInv, NEW p \in Procs, NEW c \in Calls, NEW s \in Places, Enter(p, c, s)
  PROVE  Moved(p, c, s) /\ todo'[p] = {}
BY PortalAssumption DEF PlacedInv, PortalTypeOK, Enter, StepTo, Moved, ControlTyped, Calls

LEMMA Stepped ==
  ASSUME PlacedInv, NEW p \in Procs, NEW s \in Places, StepTo(p, s), UNCHANGED call,
         \/ UNCHANGED <<todo, tries>>
         \/ UNCHANGED tries /\ \E T \in SUBSET Slots : todo' = [todo EXCEPT ![p] = T]
  PROVE  Moved(p, call[p], s)
BY DEF PlacedInv, PortalTypeOK, StepTo, Moved, ControlTyped, Calls

\* A call that ends, with the result of a job.
Ended(p) ==
    /\ Moved(p, "over", "none") /\ todo'[p] = {}
    /\ result' \in [Jobs -> Results]
    /\ \A j \in Jobs \ {p} : result'[j] = result[j]

LEMMA Returned ==
  ASSUME PlacedInv, NEW p \in Procs, NEW r, p \in Jobs => r \in Results, Return(p, r)
  PROVE  Ended(p) /\ (p \in Jobs => result'[p] = r)
<1>1. Enter(p, "over", "none")
  BY DEF Return
<1>2. Moved(p, "over", "none") /\ todo'[p] = {}
  BY <1>1, Entered DEF Calls, Places
<1> QED
  BY <1>2 DEF Return, Ended, PlacedInv, PortalTypeOK, Results

\* A call that raises.
Raised(p) ==
    \/ /\ Moved(p, "mark", "status") /\ todo'[p] = {}
       /\ p \in Jobs /\ call[p] = "index" /\ result' = result
    \/ Ended(p) /\ (p \in Jobs => result'[p] # "stored")

LEMMA GaveUp ==
  ASSUME PlacedInv, NEW p \in Procs, step[p] # "none", GiveUp(p)
  PROVE  Raised(p)
<1>1. CASE p \in Jobs /\ call[p] = "index"
  <2>1. Enter(p, "mark", "status") /\ result' = result
    BY <1>1 DEF GiveUp
  <2>2. Moved(p, "mark", "status") /\ todo'[p] = {}
    BY <2>1, Entered DEF Calls, Places
  <2> QED
    BY <1>1, <2>1, <2>2 DEF Raised
<1>2. CASE ~(p \in Jobs /\ call[p] = "index")
  <2>1. p \in Jobs => call[p] \in {"archive", "mark"}
    BY <1>2, PortalAssumption DEF PlacedInv, PlaceOf, PortalTypeOK, Procs
  <2>2. PICK r \in {"dropped", "unmarked", "stopped"} :
           Return(p, r) /\ (p \in Jobs => r # "stopped")
    BY <1>2, <2>1 DEF GiveUp
  <2>3. Ended(p) /\ (p \in Jobs => result'[p] = r)
    BY <2>2, Returned DEF Results
  <2> QED
    BY <2>2, <2>3 DEF Raised
<1> QED
  BY <1>1, <1>2

\* A failed attempt, or the end of its call.
Again(p) ==
    \/ Raised(p)
    \/ /\ todo'[p] = {} /\ result' = result
       /\ \/ call[p] = "archive" /\ Moved(p, "archive", "upsert")
          \/ call[p] = "index" /\ Moved(p, "index", "scan")
          \/ call[p] = "mark" /\ Moved(p, "mark", "status")

LEMMA Retried ==
  ASSUME PlacedInv, NEW p \in Procs, step[p] \notin {"none", "fetch"}, Retry(p)
  PROVE  Again(p)
<1>1. CASE call[p] = "sweep" \/ tries[p] + 1 >= MaxAttempts
  BY <1>1, GaveUp DEF Retry, Again
<1>2. CASE ~(call[p] = "sweep" \/ tries[p] + 1 >= MaxAttempts)
  <2>1. call[p] \in {"archive", "index", "mark"}
    BY <1>2 DEF PlacedInv, PlaceOf, PortalTypeOK
  <2>2. /\ tries' = [tries EXCEPT ![p] = @ + 1] /\ tries[p] + 1 \in 0 .. MaxAttempts - 1
        /\ todo' = [todo EXCEPT ![p] = {}] /\ result' = result /\ call' = call
        /\ StepTo(p, IF call[p] = "archive" THEN "upsert"
                     ELSE IF call[p] = "index" THEN "scan" ELSE "status")
    BY <1>2, <2>1, PortalAssumption DEF Retry, PlacedInv, PortalTypeOK
  <2>3. ControlTyped /\ todo'[p] = {}
    BY <2>2 DEF ControlTyped, StepTo, PlacedInv, PortalTypeOK, Calls, Places
  <2>4. /\ call'[p] = call[p]
        /\ step'[p] = IF call[p] = "archive" THEN "upsert"
                      ELSE IF call[p] = "index" THEN "scan" ELSE "status"
        /\ \A q \in Procs \ {p} : call'[q] = call[q] /\ step'[q] = step[q] /\ todo'[q] = todo[q]
    BY <2>2 DEF StepTo, PlacedInv, PortalTypeOK
  <2> QED
    BY <2>1, <2>2, <2>3, <2>4 DEF Again, Moved
<1> QED
  BY <1>1, <1>2

\* What is left for the statement, or its end.
Proceeded(p, left) ==
    LET inserts == call[p] = "index" /\ size[Record(p)] > 0
    IN  /\ Moved(p, call[p], IF left # {} THEN "delete" ELSE IF inserts THEN "insert"
                            ELSE IF call[p] = "index" THEN "status" ELSE "commit")
        /\ todo'[p] = IF left = {} /\ inserts THEN ChunksOf(Record(p)) ELSE left
        /\ todo'[p] # {} <=> left # {} \/ inserts

LEMMA WentOn ==
  ASSUME PlacedInv, NEW p \in Procs, call[p] \in {"archive", "index", "sweep"},
         NEW left \in SUBSET Slots, Proceed(p, left), UNCHANGED <<call, tries>>
  PROVE  Proceeded(p, left)
<1> DEFINE inserts == call[p] = "index" /\ size[Record(p)] > 0
           T == IF left = {} /\ inserts THEN ChunksOf(Record(p)) ELSE left
           P == IF left # {} THEN "delete" ELSE IF inserts THEN "insert"
                ELSE IF call[p] = "index" THEN "status" ELSE "commit"
<1>1. T \in SUBSET Slots /\ (T # {} <=> left # {} \/ inserts)
  <2>1. call[p] = "index" => Record(p) \in Versions
    BY DEF PlacedInv, PlaceOf
  <2>2. PortalTypeOK
    BY DEF PlacedInv
  <2>3. Record(p) \in Versions => size[Record(p)] \in Nat
    BY <2>2, PortalAssumption DEF PortalTypeOK
  <2> QED
    BY <2>1, <2>2, <2>3, ChunkNumbers
<1>2. P \in Places
  BY DEF Places
<1>3. todo' = [todo EXCEPT ![p] = T] /\ StepTo(p, P)
  BY DEF Proceed
<1> HIDE DEF T, P
<1>4. Moved(p, call[p], P) /\ todo'[p] = T
  BY <1>1, <1>2, <1>3, Stepped DEF PlacedInv, PortalTypeOK
<1> QED
  BY <1>1, <1>4 DEF Proceeded, T, P

\* A step of one process keeps the types and everybody's place.
LEMMA PlacedByMove ==
  ASSUME PlacedInv, NEW p \in Procs, NEW c, NEW z, Moved(p, c, z), PlaceOf(p)',
         size' = size, row' \in Rows \cup {None}, chunks' \in [Slots -> Versions \cup {None}],
         tx' \in [Procs -> Txs], skip' \in [Procs -> SUBSET Slots], clean' \subseteq Procs,
         overtaken' \in BOOLEAN, faults' \in 0 .. MaxFaults,
         result' \in [Jobs -> Results],
         fetched' = fetched \/ (p = Rebuild /\ fetched' \in Versions)
  PROVE  PlacedInv'
<1>1. PortalTypeOK'
  BY DEF PlacedInv, PortalTypeOK, Moved, ControlTyped, Calls, Results, Txs, Slots, ChunksOf
<1>2. ASSUME NEW q \in Procs \ {p} PROVE PlaceOf(q)'
  <2>1. call'[q] = call[q] /\ step'[q] = step[q] /\ todo'[q] = todo[q] /\ Record(q)' = Record(q)
    BY DEF Moved, Record
  <2> QED
    BY <2>1 DEF PlacedInv, PlaceOf, ChunksOf
<1> QED
  BY <1>1, <1>2 DEF PlacedInv, Moved, ControlTyped

-----------------------------------------------------------------------------
(* The inductive invariant *)

\* What the transaction of a process makes of the row: a call of its own says
\* which, and nobody but retention and the first transaction of a worker holds
\* the row while it still deletes chunks.
StatusOf(p) ==
    IF call[p] = "mark" THEN "failed" ELSE IF size[Record(p)] = 0 THEN "not_indexed" ELSE "ready"
RowWritten(p) ==
    /\ call[p] = "archive" => tx[p].row = IF step[p] = "upsert" THEN Untouched ELSE Archived(p)
    /\ call[p] = "sweep" =>
          /\ LocksRow(p) => tx[p].row = None /\ row # None
          /\ step[p] \in {"look", "remove"} => ~LocksRow(p)
          /\ step[p] \in {"scan", "delete"} => LocksRow(p)
    /\ call[p] \in {"index", "mark"} /\ LocksRow(p) =>
          /\ step[p] = "commit" /\ row # None
          /\ tx[p].row = [version |-> row.version, status |-> StatusOf(p)]
    /\ call[p] \in {"rebuild", "over"} => ~LocksRow(p)

\* What it makes of the chunks: it deletes them, and an index inserts those of
\* its record.  An insert either replaces a chunk or refers to the row.
ChunksWritten(p) ==
    /\ \/ step[p] \in {"upsert", "scan", "embed", "look", "remove", "fetch", "none"}
       \/ call[p] = "mark"
       \/ call[p] = "sweep" /\ ~LocksRow(p)
       => Written(p) = {} /\ ~tx[p].refers
    /\ call[p] # "index" => ~tx[p].refers /\ \A s \in Written(p) : tx[p].chunks[s] = None
    /\ call[p] = "index" =>
          /\ \A s \in Written(p) : tx[p].chunks[s] # None =>
                /\ s \in ChunksOf(Record(p)) /\ tx[p].chunks[s] = Record(p)
                /\ tx[p].refers \/ chunks[s] # None
          /\ step[p] \in {"insert", "status", "commit"} =>
                \A s \in ChunksOf(Record(p)) \ todo[p] :
                   s \in Written(p) /\ tx[p].chunks[s] = Record(p)

\* Who holds the row while deleting misses no chunk: nobody adds one meanwhile.
DeletesAll(p) ==
    /\ call[p] = "archive" \/ (call[p] = "sweep" /\ LocksRow(p))
    /\ step[p] \in {"delete", "commit"}
    => \A s \in Slots : chunks[s] # None => s \in (todo[p] \ skip[p]) \cup Written(p)

\* A clean pass has to visit, or has written, every chunk but those of its own
\* analysis.
LeavesOwn(p) ==
    p \in clean /\ call[p] = "index" /\ step[p] \in {"delete", "insert", "status", "commit"} =>
        \A s \in Slots : chunks[s] # None =>
           \/ s \in Written(p)
           \/ step[p] = "delete" /\ s \in todo[p] \ skip[p]
           \/ s \in ChunksOf(Record(p)) /\ chunks[s] = Record(p)

\* Who found no row to set the status of has nothing to commit.
FoundNoRow(p) ==
    call[p] = "index" /\ step[p] = "commit" /\ ~LocksRow(p) =>
        /\ \A s \in Written(p) : tx[p].chunks[s] = None /\ chunks[s] = None
        /\ p \in Jobs /\ row # None => row.version # p

\* What it has deleted it has written; only its statement passes chunks over.
Deleted(p) ==
    /\ tx[p].gone \subseteq Written(p)
    /\ skip[p] \subseteq todo[p] /\ (skip[p] # {} => step[p] = "delete")

Process(p) ==
    /\ RowWritten(p) /\ ChunksWritten(p) /\ DeletesAll(p) /\ LeavesOwn(p) /\ FoundNoRow(p)
    /\ Deleted(p)

\* One transaction at a time writes the row, and one a chunk id; a row that is
\* referred to is not deleted.
Exclusive ==
    \A p, q \in Procs : p # q => ~(LocksRow(p) /\ LocksRow(q)) /\ Written(p) \cap Written(q) = {}
Referenced == \A p \in Procs : tx[p].refers => row # None /\ tx[Sweep].row # None

\* What was committed.
NoOrphans == row = None => \A s \in Slots : chunks[s] = None
OwnChunks ==
    row # None /\ ~overtaken =>
        \A s \in Slots : chunks[s] # None => s \in ChunksOf(row.version) /\ chunks[s] = row.version
ReadyIsWhole ==
    row # None /\ ~overtaken /\ row.status = "ready" =>
        \A s \in ChunksOf(row.version) : chunks[s] = row.version
StoredIsShown ==
    \A j \in Jobs : result[j] = "stored" =>
        /\ call[j] = "over"
        /\ row # None /\ ~overtaken /\ row.version = j =>
              row.status = IF size[j] = 0 THEN "not_indexed" ELSE "ready"
Committed == NoOrphans /\ OwnChunks /\ ReadyIsWhole /\ StoredIsShown

PortalInv == PlacedInv /\ (\A p \in Procs : Process(p)) /\ Exclusive /\ Referenced /\ Committed
-----------------------------------------------------------------------------
(* Steps that commit nothing *)

Blank(p) == ~LocksRow(p) /\ Written(p) = {} /\ tx[p].gone = {} /\ ~tx[p].refers

\* The places at which a process begins, again or anew, with nothing written.
Begins(p) ==
    /\ todo[p] = {} /\ skip[p] = {} /\ Blank(p)
    /\ \/ call[p] = "archive" /\ step[p] = "upsert" /\ p \in Jobs
       \/ /\ call[p] = "index" /\ step[p] \in {"embed", "scan"}
          /\ p \in Jobs \cup {Rebuild} /\ Record(p) \in Versions
       \/ call[p] = "mark" /\ step[p] = "status" /\ p \in Jobs
       \/ call[p] = "sweep" /\ step[p] \in {"look", "remove", "commit"} /\ p = Sweep
       \/ call[p] = "over" /\ step[p] = "none"

LEMMA BeginsInOrder ==
  ASSUME NEW p \in Procs, Begins(p)' PROVE PlaceOf(p)' /\ Process(p)'
<1>1. PlaceOf(p)'
  BY DEF Begins, PlaceOf
<1>2. RowWritten(p)'
  BY DEF Begins, Blank, RowWritten, LocksRow
<1>3. ChunksWritten(p)' /\ DeletesAll(p)' /\ LeavesOwn(p)' /\ FoundNoRow(p)' /\ Deleted(p)'
  BY DEF Begins, Blank, ChunksWritten, DeletesAll, LeavesOwn, FoundNoRow, Deleted
<1> QED
  BY <1>1, <1>2, <1>3 DEF Process

\* What the invariant says of a process is about its own control and
\* transaction, the row and the chunks.
LEMMA Undisturbed ==
  ASSUME NEW q \in Procs, Process(q), Keeps(q), size' = size, row' = row, chunks' = chunks,
         skip'[q] = skip[q], q \in clean' => q \in clean
  PROVE  Process(q)'
<1>1. RowWritten(q)'
  BY DEF Process, Keeps, RowWritten, LocksRow, StatusOf, Archived
<1>2. ChunksWritten(q)'
  BY DEF Process, Keeps, ChunksWritten, LocksRow, Written, ChunksOf
<1>3. DeletesAll(q)'
  BY DEF Process, Keeps, DeletesAll, LocksRow, Written, Slots, ChunksOf
<1>4. FoundNoRow(q)'
  BY DEF Process, Keeps, FoundNoRow, LocksRow, Written
<1>5. LeavesOwn(q)'
  BY DEF Process, Keeps, LeavesOwn, Written, Slots, ChunksOf
<1>6. Deleted(q)'
  BY DEF Process, Keeps, Deleted, Written
<1> QED
  BY <1>1, <1>2, <1>3, <1>4, <1>5, <1>6 DEF Process

LEMMA SlotsStay ==
  ASSUME size' = size PROVE Slots' = Slots /\ \A v \in Versions : ChunksOf(v)' = ChunksOf(v)
BY DEF Slots, ChunksOf

\* Nothing committed, and no call of a job ends as stored.
LEMMA CommittedStays ==
  ASSUME PortalInv, NEW p \in Procs, NEW c, NEW z, Moved(p, c, z),
         UNCHANGED <<size, db>>, step[p] # "none",
         \A j \in Jobs : result'[j] = result[j] \/ result'[j] # "stored"
  PROVE  Committed'
<1> USE DEF db
<1>1. NoOrphans'
  BY SlotsStay DEF PortalInv, Committed, NoOrphans
<1>2. OwnChunks'
  BY SlotsStay DEF PortalInv, Committed, OwnChunks, ChunksOf
<1>3. ReadyIsWhole'
  BY DEF PortalInv, Committed, ReadyIsWhole, ChunksOf
<1>4. ASSUME NEW j \in Jobs, result'[j] = "stored"
      PROVE  /\ call'[j] = "over"
             /\ row # None /\ ~overtaken /\ row.version = j =>
                   row.status = IF size[j] = 0 THEN "not_indexed" ELSE "ready"
  <2>1. result[j] = "stored" /\ call[j] = "over"
    BY <1>4 DEF PortalInv, Committed, StoredIsShown
  <2>2. j # p
    BY <2>1 DEF PortalInv, PlacedInv, PlaceOf
  <2> QED
    BY <2>1, <2>2 DEF PortalInv, Committed, StoredIsShown, Moved, Procs
<1>5. StoredIsShown'
  BY <1>4 DEF StoredIsShown
<1> QED
  BY <1>1, <1>2, <1>3, <1>5 DEF Committed

\* A step of p that commits nothing.
LEMMA QuietStep ==
  ASSUME PortalInv, NEW p \in Procs, NEW c, NEW z, Moved(p, c, z), step[p] # "none",
         PlaceOf(p)', Process(p)',
         UNCHANGED <<size, db>>, tx' \in [Procs -> Txs], \A q \in Procs \ {p} : tx'[q] = tx[q],
         Uninvolved(p), faults' \in 0 .. MaxFaults, result' \in [Jobs -> Results],
         \A j \in Jobs : result'[j] = result[j] \/ result'[j] # "stored",
         fetched' = fetched \/ (p = Rebuild /\ fetched' \in Versions),
         Exclusive', Referenced'
  PROVE  PortalInv'
<1>1. PlacedInv'
  BY PlacedByMove DEF PortalInv, PlacedInv, PortalTypeOK, Uninvolved, db
<1>2. ASSUME NEW q \in Procs PROVE Process(q)'
  <2>1. CASE q = p
    BY <2>1
  <2>2. CASE q # p
    <3>1. Keeps(q)
      BY <2>2 DEF Moved, Keeps, Record
    <3> QED
      BY <2>2, <3>1, Undisturbed DEF PortalInv, Uninvolved, db
  <2> QED
    BY <2>1, <2>2
<1>3. Committed'
  BY CommittedStays
<1> QED
  BY <1>1, <1>2, <1>3 DEF PortalInv

\* A step after which p has written nothing.
LEMMA BeginningStep ==
  ASSUME PortalInv, NEW p \in Procs, NEW c, NEW z, Moved(p, c, z), step[p] # "none",
         Begins(p)',
         UNCHANGED <<size, db>>, tx' \in [Procs -> Txs], \A q \in Procs \ {p} : tx'[q] = tx[q],
         tx'[p] = NoTx \/ tx'[p] = tx[p], Uninvolved(p),
         faults' \in 0 .. MaxFaults, result' \in [Jobs -> Results],
         \A j \in Jobs : result'[j] = result[j] \/ result'[j] # "stored",
         fetched' = fetched \/ (p = Rebuild /\ fetched' \in Versions)
  PROVE  PortalInv'
<1>1. PlaceOf(p)' /\ Process(p)'
  BY BeginsInOrder
<1>2. Blank(p)'
  BY DEF Begins
<1>3. Exclusive'
  BY <1>2 DEF Blank, PortalInv, Exclusive, LocksRow, Written
<1>4. Referenced'
  <2>1. Sweep \in Procs
    BY DEF Procs
  <2>2. NoTx.row # None
    BY NoTxParts, PortalAssumption
  <2> QED
    BY <1>2, <2>1, <2>2 DEF Blank, PortalInv, Referenced, db
<1> QED
  BY <1>1, <1>3, <1>4, QuietStep

LEMMA EndedBegins ==
  ASSUME NEW p \in Procs, Ended(p), Blank(p)', skip'[p] = {} PROVE Begins(p)'
BY DEF Ended, Moved, Begins

\* Who has written nothing.
LEMMA BlankPlaces ==
  ASSUME PortalInv, NEW p \in Procs,
         step[p] \in {"upsert", "embed", "fetch", "look", "remove"}
  PROVE  /\ Blank(p) /\ todo[p] = {} /\ skip[p] = {}
         /\ step[p] = "upsert" => call[p] = "archive"
         /\ step[p] = "embed" => call[p] = "index" /\ Record(p) \in Versions
         /\ step[p] \in {"look", "remove"} => call[p] = "sweep"
         /\ step[p] = "fetch" => call[p] = "rebuild"
BY DEF PortalInv, PlacedInv, PortalTypeOK, PlaceOf, Process, RowWritten, ChunksWritten,
   Deleted, Blank, LocksRow

\* When nobody else has written the row, or a chunk.
LEMMA FreeRow ==
  ASSUME PortalInv, NEW p \in Procs, RowHolders(p) = {},
         Written(p)' = Written(p), \A q \in Procs \ {p} : tx'[q] = tx[q]
  PROVE  Exclusive'
BY DEF PortalInv, Exclusive, RowHolders, LocksRow, Written

LEMMA FreeChunk ==
  ASSUME PortalInv, NEW p \in Procs, NEW s, ChunkHolders(p, s) = {}, tx'[p].row = tx[p].row,
         Written(p)' \subseteq Written(p) \cup {s}, \A q \in Procs \ {p} : tx'[q] = tx[q]
  PROVE  Exclusive'
BY DEF PortalInv, Exclusive, ChunkHolders, LocksRow, Written

LEMMA UpsertStep ==
  ASSUME PortalInv, NEW j \in Jobs, Upsert(j) PROVE PortalInv'
<1>1. j \in Procs /\ j # Sweep /\ step[j] = "upsert" /\ RowHolders(j) = {}
  BY PortalAssumption DEF Procs, Upsert, At, Blockers
<1>2. Blank(j) /\ todo[j] = {} /\ call[j] = "archive"
  BY <1>1, BlankPlaces
<1>3. Archived(j) \in Rows
  BY DEF Archived, Rows, Versions, Statuses
<1>4. Moved(j, "archive", "scan") /\ todo'[j] = {}
  <2>1. Moved(j, call[j], "scan")
    BY <1>1, Stepped DEF Upsert, PortalInv, Places
  <2> QED
    BY <2>1, <1>2 DEF Upsert
<1>5. /\ tx' \in [Procs -> Txs] /\ \A q \in Procs \ {j} : tx'[q] = tx[q]
      /\ tx'[j] = [row |-> Archived(j), chunks |-> tx[j].chunks, gone |-> tx[j].gone,
                   refers |-> tx[j].refers]
  BY <1>1, <1>3, RowWrite DEF Upsert, PortalInv, PlacedInv
<1>6. Written(j)' = {} /\ ~tx'[j].refers /\ tx'[j].row = Archived(j) /\ tx'[j].gone = {}
  BY <1>2, <1>5 DEF Blank, Written
<1>7. PlaceOf(j)'
  BY <1>4 DEF Moved, PlaceOf
<1>8. Process(j)'
  <2>1. skip'[j] = {}
    BY <1>1, BlankPlaces DEF Upsert
  <2>2. Deleted(j)'
    BY <1>6, <2>1 DEF Deleted
  <2> QED
    BY <1>4, <1>6, <2>2 DEF Moved, Process, RowWritten, ChunksWritten, DeletesAll, LeavesOwn,
       FoundNoRow, Archived, LocksRow
<1>9. Exclusive'
  BY <1>1, <1>2, <1>5, <1>6, FreeRow DEF Blank
<1>10. Referenced'
  BY <1>1, <1>5, <1>6 DEF PortalInv, Referenced, Upsert, db, Procs
<1>11. Uninvolved(j)
  BY <1>1, NothingPassedOver DEF Upsert, PortalInv
<1> QED
  BY <1>1, <1>4, <1>5, <1>7, <1>8, <1>9, <1>10, <1>11, QuietStep
     DEF Upsert, PortalInv, PlacedInv, PortalTypeOK, Results

LEMMA ConflictStep ==
  ASSUME PortalInv, NEW j \in Jobs, Conflict(j) PROVE PortalInv'
<1>1. j \in Procs /\ step[j] = "upsert"
  BY DEF Procs, Conflict, At
<1>2. Blank(j) /\ skip'[j] = {} /\ Uninvolved(j)
  BY <1>1, BlankPlaces, NothingPassedOver DEF Conflict, PortalInv
<1>3. Ended(j) /\ result'[j] = "conflict"
  BY <1>1, Returned DEF Conflict, PortalInv, Results
<1>4. Begins(j)'
  BY <1>1, <1>2, <1>3, EndedBegins DEF Conflict, Blank, LocksRow, Written
<1> QED
  BY <1>1, <1>2, <1>3, <1>4, BeginningStep
     DEF Ended, Conflict, PortalInv, PlacedInv, PortalTypeOK, Txs

LEMMA EmbedStep ==
  ASSUME PortalInv, NEW p \in Procs, Embed(p) PROVE PortalInv'
<1>1. step[p] = "embed"
  BY DEF Embed, At
<1>2. /\ Blank(p) /\ todo[p] = {} /\ call[p] = "index" /\ Record(p) \in Versions
      /\ skip'[p] = {} /\ Uninvolved(p)
  BY <1>1, BlankPlaces, NothingPassedOver DEF Embed, PortalInv
<1>3. Moved(p, "index", "scan") /\ todo'[p] = {}
  BY <1>1, <1>2, Stepped DEF Embed, PortalInv, Places
<1>4. Record(p)' = Record(p) /\ p \in Jobs \cup {Rebuild}
  BY <1>2 DEF Embed, Record, PortalInv, PlacedInv, PlaceOf
<1>5. Begins(p)'
  BY <1>2, <1>3, <1>4 DEF Begins, Moved, Embed, Blank, LocksRow, Written, Versions
<1> QED
  BY <1>1, <1>2, <1>3, <1>5, BeginningStep
     DEF Embed, PortalInv, PlacedInv, PortalTypeOK, Results, Txs

LEMMA FetchStep ==
  ASSUME PortalInv, Fetch PROVE PortalInv'
<1>1. Rebuild \in Procs /\ Rebuild \notin Jobs /\ step[Rebuild] = "fetch"
  BY PortalAssumption DEF Procs, Fetch, At
<1>2. /\ Blank(Rebuild) /\ todo[Rebuild] = {} /\ call[Rebuild] = "rebuild"
      /\ skip'[Rebuild] = {} /\ Uninvolved(Rebuild)
  BY <1>1, BlankPlaces, NothingPassedOver DEF Fetch, PortalInv
<1>3. CASE Rebuildable
  <2>1. Enter(Rebuild, "index", "embed") /\ fetched' = row.version /\ result' = result
    BY <1>3 DEF Fetch
  <2>2. Moved(Rebuild, "index", "embed") /\ todo'[Rebuild] = {}
    BY <1>1, <2>1, Entered DEF PortalInv, Calls, Places
  <2>3. fetched' \in Versions
    BY <1>3, <2>1 DEF Rebuildable, PortalInv, PlacedInv, PortalTypeOK, Rows
  <2>4. Begins(Rebuild)'
    BY <1>2, <2>2, <2>3 DEF Begins, Moved, Fetch, Blank, LocksRow, Written, Record, Versions
  <2> QED
    BY <1>1, <1>2, <2>1, <2>2, <2>3, <2>4, BeginningStep
       DEF Fetch, PortalInv, PlacedInv, PortalTypeOK, Results, Txs
<1>4. CASE ~Rebuildable
  <2>1. Ended(Rebuild)
    BY <1>1, <1>4, Returned DEF Fetch, PortalInv
  <2>2. Begins(Rebuild)'
    BY <1>1, <1>2, <2>1, EndedBegins DEF Fetch, Blank, LocksRow, Written
  <2> QED
    BY <1>1, <1>2, <1>4, <2>1, <2>2, BeginningStep
       DEF Ended, Fetch, PortalInv, PlacedInv, PortalTypeOK, Txs
<1> QED
  BY <1>3, <1>4

LEMMA LookStep ==
  ASSUME PortalInv, Look PROVE PortalInv'
<1>1. Sweep \in Procs /\ Sweep \notin Jobs /\ step[Sweep] = "look"
  BY PortalAssumption DEF Procs, Look, At
<1>2. /\ Blank(Sweep) /\ todo[Sweep] = {} /\ call[Sweep] = "sweep"
      /\ skip'[Sweep] = {} /\ Uninvolved(Sweep)
  BY <1>1, BlankPlaces, NothingPassedOver DEF Look, PortalInv
<1>3. CASE row # None /\ row.version = Old
  <2>1. Moved(Sweep, "sweep", "remove") /\ todo'[Sweep] = {} /\ result' = result
    BY <1>1, <1>2, <1>3, Stepped DEF Look, PortalInv, Places
  <2>2. Begins(Sweep)'
    BY <1>2, <2>1 DEF Begins, Moved, Look, Blank, LocksRow, Written
  <2> QED
    BY <1>1, <1>2, <2>1, <2>2, BeginningStep
       DEF Look, PortalInv, PlacedInv, PortalTypeOK, Results, Txs
<1>4. CASE ~(row # None /\ row.version = Old)
  <2>1. Ended(Sweep)
    BY <1>1, <1>4, Returned DEF Look, PortalInv
  <2>2. Begins(Sweep)'
    BY <1>1, <1>2, <2>1, EndedBegins DEF Look, Blank, LocksRow, Written
  <2> QED
    BY <1>1, <1>2, <2>1, <2>2, BeginningStep
       DEF Ended, Look, PortalInv, PlacedInv, PortalTypeOK, Txs
<1> QED
  BY <1>3, <1>4

LEMMA RemoveStep ==
  ASSUME PortalInv, Remove PROVE PortalInv'
<1>1. /\ Sweep \in Procs /\ Sweep \notin Jobs /\ step[Sweep] = "remove"
      /\ RowHolders(Sweep) = {} /\ Referrers(Sweep) = {}
  BY PortalAssumption DEF Procs, Remove, At, Blockers
<1>2. /\ Blank(Sweep) /\ todo[Sweep] = {} /\ call[Sweep] = "sweep"
      /\ skip'[Sweep] = {} /\ Uninvolved(Sweep)
  BY <1>1, BlankPlaces, NothingPassedOver DEF Remove, PortalInv
<1>3. CASE row = None
  <2>1. Moved(Sweep, "sweep", "commit") /\ todo'[Sweep] = {}
    BY <1>1, <1>2, <1>3, Stepped DEF Remove, PortalInv, Places
  <2>2. Begins(Sweep)'
    BY <1>2, <1>3, <2>1 DEF Begins, Moved, Remove, Blank, LocksRow, Written
  <2> QED
    BY <1>1, <1>2, <1>3, <2>1, <2>2, BeginningStep
       DEF Remove, PortalInv, PlacedInv, PortalTypeOK, Results, Txs
<1>4. CASE row # None
  <2>1. Moved(Sweep, "sweep", "scan") /\ todo'[Sweep] = {}
    BY <1>1, <1>2, <1>4, Stepped DEF Remove, PortalInv, Places
  <2>2. /\ tx' \in [Procs -> Txs] /\ \A q \in Procs \ {Sweep} : tx'[q] = tx[q]
        /\ tx'[Sweep] = [row |-> None, chunks |-> tx[Sweep].chunks, gone |-> tx[Sweep].gone,
                         refers |-> tx[Sweep].refers]
    BY <1>1, <1>4, RowWrite DEF Remove, PortalInv, PlacedInv
  <2>3. Written(Sweep)' = {} /\ ~tx'[Sweep].refers /\ tx'[Sweep].row = None /\ tx'[Sweep].gone = {}
    BY <1>2, <2>2 DEF Blank, Written
  <2>4. PlaceOf(Sweep)'
    BY <2>1 DEF Moved, PlaceOf
  <2>5. Process(Sweep)'
    BY <1>2, <1>4, <2>1, <2>3, PortalAssumption
       DEF Moved, Process, RowWritten, ChunksWritten, DeletesAll, LeavesOwn, FoundNoRow, Deleted,
           LocksRow, Remove, db
  <2>6. Exclusive'
    BY <1>1, <1>2, <2>2, <2>3, FreeRow DEF Blank
  <2>7. Referenced'
    BY <1>1, <2>2, <2>3 DEF Referenced, Referrers
  <2> QED
    BY <1>1, <1>2, <2>1, <2>2, <2>4, <2>5, <2>6, <2>7, QuietStep
       DEF Remove, PortalInv, PlacedInv, PortalTypeOK, Results
<1> QED
  BY <1>3, <1>4

-----------------------------------------------------------------------------
(* The statements on chunks and on the status *)

\* The place of a process whose statement has left the given chunks.
LEMMA ProceededPlace ==
  ASSUME PortalInv, NEW p \in Procs, NEW left \in SUBSET Slots, Proceeded(p, left),
         step[p] \in {"scan", "delete"}, UNCHANGED <<size, fetched>>
  PROVE  PlaceOf(p)' /\ Record(p)' = Record(p)
<1>1. /\ call[p] \in {"archive", "index", "sweep"} /\ PlaceOf(p)
      /\ call[p] = "index" => p \in Jobs \cup {Rebuild} /\ Record(p) \in Versions
  BY DEF PortalInv, PlacedInv, PlaceOf, PortalTypeOK
<1>2. Record(p)' = Record(p) /\ ChunksOf(Record(p))' = ChunksOf(Record(p))
  BY DEF Record, ChunksOf
<1>3. call[p] = "index" /\ size[Record(p)] > 0 /\ left = {} => todo'[p] = ChunksOf(Record(p))
  BY DEF Proceeded
<1>4. call'[p] = call[p]
  BY DEF Proceeded, Moved
<1>5. CASE left # {}
  <2>1. step'[p] = "delete" /\ todo'[p] # {}
    BY <1>5 DEF Proceeded, Moved
  <2> QED
    BY <1>1, <1>2, <1>4, <2>1 DEF PlaceOf
<1>6. CASE left = {} /\ call[p] = "index" /\ size[Record(p)] > 0
  <2>1. step'[p] = "insert" /\ todo'[p] # {}
    BY <1>6 DEF Proceeded, Moved
  <2> QED
    BY <1>1, <1>2, <1>3, <1>4, <1>6, <2>1 DEF PlaceOf
<1>7. CASE left = {} /\ ~(call[p] = "index" /\ size[Record(p)] > 0)
  <2>1. step'[p] = (IF call[p] = "index" THEN "status" ELSE "commit") /\ todo'[p] = {}
    BY <1>7 DEF Proceeded, Moved
  <2> QED
    BY <1>1, <1>2, <1>4, <1>7, <2>1 DEF PlaceOf
<1> QED
  BY <1>2, <1>5, <1>6, <1>7

\* A statement that deletes has seen every chunk, or still has to visit it.
LEMMA ProceededProcess ==
  ASSUME PortalInv, NEW p \in Procs, NEW left \in SUBSET Slots, Proceeded(p, left),
         step[p] \in {"scan", "delete"}, UNCHANGED <<size, db, fetched>>,
         tx'[p].row = tx[p].row, tx'[p].refers <=> tx[p].refers,
         tx'[p].gone \subseteq Written(p)',
         skip'[p] \subseteq left,
         \A s \in Written(p)' :
            tx'[p].chunks[s] = None \/ (s \in Written(p) /\ tx'[p].chunks[s] = tx[p].chunks[s]),
         call[p] # "index" =>
            \A s \in Slots : chunks[s] # None => s \in (left \ skip'[p]) \cup Written(p)',
         call[p] = "index" /\ p \in clean' =>
            \A s \in Slots : chunks[s] # None =>
               \/ s \in (left \ skip'[p]) \cup Written(p)'
               \/ s \in ChunksOf(Record(p)) /\ chunks[s] = Record(p)
  PROVE  Process(p)'
<1>1. /\ call[p] \in {"archive", "index", "sweep"}
      /\ call[p] = "index" => Record(p) \in Versions /\ p \notin {Sweep}
  BY PortalAssumption DEF PortalInv, PlacedInv, PlaceOf, PortalTypeOK
<1>2. /\ Record(p)' = Record(p) /\ ChunksOf(Record(p))' = ChunksOf(Record(p)) /\ Slots' = Slots
      /\ call'[p] = call[p] /\ step'[p] \in {"delete", "insert", "status", "commit"}
  BY SlotsStay DEF Record, ChunksOf, Proceeded, Moved
<1>3. /\ step'[p] = "commit" => call[p] # "index" /\ todo'[p] = {} /\ left = {}
      /\ step'[p] = "delete" => todo'[p] = left
  BY <1>1 DEF Proceeded, Moved
<1>4. LocksRow(p)' = LocksRow(p) /\ (call[p] = "index" => ~LocksRow(p))
      /\ (call[p] = "sweep" => LocksRow(p))
  BY DEF LocksRow, PortalInv, Process, RowWritten
<1>5. RowWritten(p)'
  BY <1>1, <1>2, <1>4 DEF PortalInv, Process, RowWritten, Archived, db, LocksRow
<1>6. /\ call[p] # "index" => ~tx[p].refers /\ \A s \in Written(p) : tx[p].chunks[s] = None
      /\ call[p] = "index" =>
            \A s \in Written(p) : tx[p].chunks[s] # None =>
                /\ s \in ChunksOf(Record(p)) /\ tx[p].chunks[s] = Record(p)
                /\ tx[p].refers \/ chunks[s] # None
  BY DEF PortalInv, Process, ChunksWritten
<1>7. call[p] = "index" /\ step'[p] \in {"insert", "status", "commit"} =>
         \A s \in ChunksOf(Record(p)) \ todo'[p] : FALSE
  <2>1. CASE call[p] = "index" /\ step'[p] = "insert"
    BY <2>1 DEF Proceeded, Moved
  <2>2. CASE call[p] = "index" /\ step'[p] = "status"
    <3>1. ~(size[Record(p)] > 0)
      BY <2>2 DEF Proceeded, Moved
    <3>2. size[Record(p)] \in Nat
      BY <1>1, <2>2, PortalAssumption DEF PortalInv, PlacedInv, PortalTypeOK
    <3> QED
      BY <3>1, <3>2 DEF ChunksOf
  <2> QED
    BY <1>3, <2>1, <2>2
<1>8. ChunksWritten(p)'
  <2>1. call'[p] # "index" => ~tx'[p].refers /\ \A s \in Written(p)' : tx'[p].chunks[s] = None
    BY <1>2, <1>6
  <2>2. call'[p] = "index" =>
           \A s \in Written(p)' : tx'[p].chunks[s] # None =>
              /\ s \in ChunksOf(Record(p))' /\ tx'[p].chunks[s] = Record(p)'
              /\ tx'[p].refers \/ chunks'[s] # None
    BY <1>2, <1>6 DEF db
  <2>3. call'[p] = "index" /\ step'[p] \in {"insert", "status", "commit"} =>
           \A s \in ChunksOf(Record(p))' \ todo'[p] :
              s \in Written(p)' /\ tx'[p].chunks[s] = Record(p)'
    BY <1>2, <1>7
  <2> QED
    BY <1>1, <1>2, <1>4, <2>1, <2>2, <2>3 DEF ChunksWritten
<1>9. DeletesAll(p)'
  BY <1>2, <1>3 DEF DeletesAll, db
<1>10. FoundNoRow(p)'
  BY <1>2, <1>3 DEF FoundNoRow
<1>11. left # {} => step'[p] = "delete" /\ todo'[p] = left
  BY DEF Proceeded, Moved
<1>12. LeavesOwn(p)'
  BY <1>2, <1>11 DEF LeavesOwn, db
<1>13. Deleted(p)'
  BY <1>11 DEF Deleted
<1> QED
  BY <1>5, <1>8, <1>9, <1>10, <1>12, <1>13 DEF Process

LEMMA ScanStep ==
  ASSUME PortalInv, NEW p \in Procs, Scan(p) PROVE PortalInv'
<1> DEFINE left == {s \in Slots : Seen(p, s) # None}
<1>1. step[p] = "scan" /\ call[p] \in {"archive", "index", "sweep"}
  BY DEF Scan, At, PortalInv, PlacedInv, PlaceOf, PortalTypeOK
<1>2. Written(p) = {}
  BY <1>1 DEF PortalInv, Process, ChunksWritten
<1>3. Proceeded(p, left)
  BY <1>1, WentOn DEF Scan, PortalInv
<1>4. PlaceOf(p)'
  BY <1>1, <1>3, ProceededPlace DEF Scan
<1>5. \A s \in Slots : chunks[s] # None => s \in left
  BY <1>2 DEF Seen, Written
<1>9. skip'[p] = {} /\ tx[p].gone = {} /\ Uninvolved(p)
  BY <1>1, <1>2 DEF Scan, PortalInv, PlacedInv, PortalTypeOK, Process, Deleted, Uninvolved
<1>6. Process(p)'
  <2>1. Written(p)' = Written(p) /\ tx' = tx
    BY DEF Scan, Written
  <2> HIDE DEF left
  <2>2. left \in SUBSET Slots
    BY DEF left
  <2> QED
    BY <1>1, <1>2, <1>3, <1>5, <1>9, <2>1, <2>2, ProceededProcess DEF Scan
<1>7. Exclusive' /\ Referenced'
  BY DEF Scan, PortalInv, Exclusive, Referenced, LocksRow, Written, db
<1>8. PICK z : Moved(p, call[p], z)
  BY <1>3 DEF Proceeded
<1> QED
  BY <1>1, <1>4, <1>6, <1>7, <1>8, <1>9, QuietStep
     DEF Scan, PortalInv, PlacedInv, PortalTypeOK, Results, Txs

LEMMA DeleteStep ==
  ASSUME PortalInv, NEW p \in Procs, Delete(p) PROVE PortalInv'
<1> DEFINE s == Min(todo[p])
           left == todo[p] \ {s}
<1>1. /\ step[p] = "delete" /\ call[p] \in {"archive", "index", "sweep"} /\ todo[p] # {}
      /\ s \in skip[p] \/ ChunkHolders(p, s) = {}
  BY DEF Delete, At, Blockers, PortalInv, PlacedInv, PlaceOf, PortalTypeOK
<1>2. s \in todo[p] /\ s \in Slots /\ left \in SUBSET Slots
  BY <1>1, NextChunk DEF PortalInv, PlacedInv, PortalTypeOK
<1>3. Proceeded(p, left)
  BY <1>1, <1>2, WentOn DEF Delete, PortalInv
<1>4. PlaceOf(p)'
  BY <1>1, <1>2, <1>3, ProceededPlace DEF Delete
<1> HIDE DEF s, left
<1>5. /\ tx' \in [Procs -> Txs] /\ tx'[p].row = tx[p].row /\ (tx'[p].refers <=> tx[p].refers)
      /\ Written(p) \subseteq Written(p)' /\ Written(p)' \subseteq Written(p) \cup {s}
      /\ \A y \in Written(p)' : tx'[p].chunks[y] = IF y = s THEN tx'[p].chunks[s] ELSE tx[p].chunks[y]
      /\ s \in Written(p)' =>
            tx'[p].chunks[s] = None \/ (s \in Written(p) /\ tx'[p].chunks[s] = tx[p].chunks[s])
      /\ chunks[s] # None => s \in Written(p)' \cup skip[p]
      /\ s \in skip[p] => tx' = tx
      /\ tx'[p].gone \subseteq Written(p)'
      /\ \A q \in Procs \ {p} : tx'[q] = tx[q]
  <2>1. CASE s \in skip[p] \/ Seen(p, s) = None
    <3>1. tx' = tx
      BY <2>1 DEF Delete, s
    <3>3. chunks[s] # None => s \in Written(p) \cup skip[p]
      BY <2>1 DEF Seen, Written
    <3>4. tx[p].gone \subseteq Written(p) /\ tx \in [Procs -> Txs]
      BY DEF PortalInv, Process, Deleted, PlacedInv, PortalTypeOK, Txs
    <3> QED
      BY <3>1, <3>3, <3>4 DEF Written
  <2>2. CASE s \notin skip[p] /\ Seen(p, s) # None
    <3>1. PICK b \in BOOLEAN : ~b /\ WriteChunk(p, s, None, b)
      BY <2>2 DEF Delete, s
    <3>2. PortalTypeOK /\ None \in Versions \cup {None}
      BY DEF PortalInv, PlacedInv
    <3>3. /\ tx' \in [Procs -> Txs]
          /\ tx'[p].row = tx[p].row /\ (tx'[p].refers <=> tx[p].refers \/ b)
          /\ \A q \in Procs \ {p} : tx'[q] = tx[q]
      BY <1>2, <3>1, <3>2, ChunkWrite
    <3>8. tx'[p].gone = tx[p].gone \cup {s}
      BY <3>1, <3>2, ChunkGone
    <3>4. /\ Written(p)' = Written(p) \cup {s}
          /\ \A y \in Written(p)' : tx'[p].chunks[y] = IF y = s THEN None ELSE tx[p].chunks[y]
      BY <1>2, <3>1, <3>2, ChunkWrite
    <3>5. tx'[p].refers <=> tx[p].refers
      BY <3>1, <3>3
    <3>6. s \in Written(p)' => tx'[p].chunks[s] = None
      BY <3>4
    <3>7. tx[p].gone \subseteq Written(p)
      BY DEF PortalInv, Process, Deleted
    <3> QED
      BY <2>2, <3>3, <3>4, <3>5, <3>6, <3>7, <3>8
  <2> QED
    BY <2>1, <2>2
<1>11. /\ skip'[p] = skip[p] \ {s} /\ skip'[p] \subseteq left /\ Uninvolved(p)
       /\ clean' = clean
  <2>1. skip[p] \subseteq todo[p]
    BY DEF PortalInv, Process, Deleted
  <2> QED
    BY <2>1 DEF Delete, s, left, PortalInv, PlacedInv, PortalTypeOK, Uninvolved
<1>6. call[p] # "index" =>
         \A y \in Slots : chunks[y] # None => y \in (left \ skip'[p]) \cup Written(p)'
  <2>1. call[p] # "index" =>
           \A y \in Slots : chunks[y] # None => y \in (todo[p] \ skip[p]) \cup Written(p)
    BY <1>1 DEF PortalInv, Process, DeletesAll, RowWritten
  <2> QED
    BY <1>5, <1>11, <2>1 DEF left
<1>12. call[p] = "index" /\ p \in clean' =>
          \A y \in Slots : chunks[y] # None =>
             \/ y \in (left \ skip'[p]) \cup Written(p)'
             \/ y \in ChunksOf(Record(p)) /\ chunks[y] = Record(p)
  <2>1. call[p] = "index" /\ p \in clean =>
           \A y \in Slots : chunks[y] # None =>
             \/ y \in (todo[p] \ skip[p]) \cup Written(p)
             \/ y \in ChunksOf(Record(p)) /\ chunks[y] = Record(p)
    BY <1>1 DEF PortalInv, Process, LeavesOwn
  <2> QED
    BY <1>5, <1>11, <2>1 DEF left
<1>7. Process(p)'
  <2>1. \A y \in Written(p)' :
           tx'[p].chunks[y] = None \/ (y \in Written(p) /\ tx'[p].chunks[y] = tx[p].chunks[y])
    BY <1>5
  <2> QED
    BY <1>1, <1>2, <1>3, <1>5, <1>6, <1>11, <1>12, <2>1, ProceededProcess DEF Delete
<1>8. Exclusive'
  <2>1. CASE s \in skip[p]
    BY <1>5, <2>1 DEF PortalInv, Exclusive, LocksRow, Written
  <2>2. CASE s \notin skip[p]
    BY <1>1, <1>5, <2>2, FreeChunk
  <2> QED
    BY <2>1, <2>2
<1>9. Referenced'
  <2>1. \A q \in Procs : tx'[q].row = tx[q].row /\ (tx'[q].refers <=> tx[q].refers)
    BY <1>5
  <2> QED
    BY <2>1 DEF PortalInv, Referenced, Delete, db, Procs
<1>10. PICK z : Moved(p, call[p], z)
  BY <1>3 DEF Proceeded
<1> QED
  BY <1>1, <1>4, <1>5, <1>7, <1>8, <1>9, <1>10, <1>11, QuietStep
     DEF Delete, PortalInv, PlacedInv, PortalTypeOK, Results

LEMMA InsertStep ==
  ASSUME PortalInv, NEW p \in Procs, Insert(p) PROVE PortalInv'
<1> DEFINE s == Min(todo[p])
           z == IF todo[p] = {s} THEN "status" ELSE "insert"
<1>1. /\ step[p] = "insert" /\ call[p] = "index" /\ todo[p] # {} /\ Record(p) \in Versions
      /\ p \in Jobs \cup {Rebuild} /\ todo[p] \subseteq ChunksOf(Record(p))
      /\ ChunkHolders(p, s) = {} /\ (Fresh(p) => Deleters(p) = {} /\ row # None)
  BY DEF Insert, At, Blockers, PortalInv, PlacedInv, PlaceOf, PortalTypeOK
<1>2. s \in todo[p] /\ s \in Slots /\ s \in ChunksOf(Record(p))
  BY <1>1, NextChunk DEF PortalInv, PlacedInv, PortalTypeOK
<1>3. Moved(p, "index", z) /\ todo'[p] = todo[p] \ {s}
  <2>1. todo[p] \ {s} \in SUBSET Slots /\ todo' = [todo EXCEPT ![p] = todo[p] \ {s}]
    BY DEF Insert, PortalInv, PlacedInv, PortalTypeOK
  <2>2. z \in Places
    BY DEF Places
  <2>3. StepTo(p, z)
    BY DEF Insert
  <2> HIDE DEF z, s
  <2>4. UNCHANGED <<call, tries>> /\ PlacedInv
    BY DEF Insert, PortalInv
  <2>5. Moved(p, call[p], z)
    BY <2>1, <2>2, <2>3, <2>4, Stepped
  <2> QED
    BY <1>1, <2>1, <2>4, <2>5 DEF PlacedInv, PortalTypeOK
<1>4. /\ tx' \in [Procs -> Txs]
      /\ tx'[p].row = tx[p].row /\ (tx'[p].refers <=> tx[p].refers \/ Fresh(p))
      /\ tx'[p].gone = tx[p].gone
      /\ Written(p)' = Written(p) \cup {s}
      /\ \A y \in Written(p)' : tx'[p].chunks[y] = IF y = s THEN Record(p) ELSE tx[p].chunks[y]
      /\ \A q \in Procs \ {p} : tx'[q] = tx[q]
  <2>1. WriteChunk(p, s, Record(p), Fresh(p))
    BY DEF Insert
  <2>2. PICK b \in BOOLEAN : b = Fresh(p)
    BY DEF Fresh
  <2> HIDE DEF s
  <2>3. WriteChunk(p, s, Record(p), b) /\ Record(p) \in Versions \cup {None} /\ PortalTypeOK
    BY <1>1, <2>1, <2>2 DEF PortalInv, PlacedInv
  <2>4. /\ tx' \in [Procs -> Txs]
        /\ tx'[p].row = tx[p].row /\ (tx'[p].refers <=> tx[p].refers \/ b)
        /\ Written(p)' = Written(p) \cup {s}
        /\ \A y \in Written(p)' : tx'[p].chunks[y] = IF y = s THEN Record(p) ELSE tx[p].chunks[y]
        /\ \A q \in Procs \ {p} : tx'[q] = tx[q]
    BY <1>2, <2>3, ChunkWrite
  <2>5. tx'[p].gone = tx[p].gone
    <3>1. tx'[p].gone = IF Record(p) = None THEN tx[p].gone \cup {s} ELSE tx[p].gone
      BY <2>3, ChunkGone
    <3> QED
      BY <1>1, <3>1, PortalAssumption DEF Versions
  <2> QED
    BY <2>2, <2>4, <2>5
<1>5. Record(p)' = Record(p) /\ ChunksOf(Record(p))' = ChunksOf(Record(p)) /\ call'[p] = "index"
  BY <1>3 DEF Insert, Record, ChunksOf, Moved
<1>6. /\ step'[p] \in {"insert", "status"} /\ (step'[p] = "insert" <=> todo'[p] # {})
      /\ todo'[p] \subseteq ChunksOf(Record(p))
  BY <1>1, <1>2, <1>3 DEF Moved
<1>7. PlaceOf(p)'
  BY <1>1, <1>5, <1>6 DEF PlaceOf
<1>8. ~LocksRow(p) /\ ~LocksRow(p)'
  BY <1>1, <1>4 DEF PortalInv, Process, RowWritten, LocksRow
<1>9. tx'[p].refers \/ chunks[s] # None
  <2>1. CASE Fresh(p)
    BY <1>4, <2>1
  <2>2. CASE ~Fresh(p) /\ s \notin Written(p)
    BY <2>2 DEF Fresh, Seen, Written
  <2>3. CASE ~Fresh(p) /\ s \in Written(p)
    <3>1. tx[p].chunks[s] # None
      BY <2>3 DEF Fresh, Seen, Written
    <3>2. tx[p].refers \/ chunks[s] # None
      BY <1>1, <2>3, <3>1 DEF PortalInv, Process, ChunksWritten
    <3> QED
      BY <1>4, <3>2
  <2> QED
    BY <2>1, <2>2, <2>3
<1> HIDE DEF s, z
<1>10. ChunksWritten(p)'
  <2>1. \A y \in Written(p)' : tx'[p].chunks[y] # None =>
              /\ y \in ChunksOf(Record(p)) /\ tx'[p].chunks[y] = Record(p)
              /\ tx'[p].refers \/ chunks[y] # None
    BY <1>1, <1>2, <1>4, <1>9 DEF PortalInv, Process, ChunksWritten
  <2>2. \A y \in ChunksOf(Record(p)) \ todo'[p] :
           y \in Written(p)' /\ tx'[p].chunks[y] = Record(p)
    <3>1. \A y \in ChunksOf(Record(p)) \ todo[p] :
             y \in Written(p) /\ tx[p].chunks[y] = Record(p)
      BY <1>1 DEF PortalInv, Process, ChunksWritten
    <3> QED
      BY <1>3, <1>4, <3>1
  <2>3. chunks' = chunks
    BY DEF Insert, db
  <2> QED
    BY <1>5, <1>6, <2>1, <2>2, <2>3 DEF ChunksWritten
<1>14. skip[p] = {} /\ tx[p].gone \subseteq Written(p) /\ UNCHANGED <<clean, skip>> /\ Uninvolved(p)
  BY <1>1, NothingPassedOver DEF PortalInv, Process, Deleted, Insert
<1>15. LeavesOwn(p)' /\ Deleted(p)'
  <2>1. p \in clean => \A y \in Slots : chunks[y] # None =>
           y \in Written(p) \/ (y \in ChunksOf(Record(p)) /\ chunks[y] = Record(p))
    BY <1>1 DEF PortalInv, Process, LeavesOwn
  <2>2. chunks' = chunks /\ Slots' = Slots
    BY SlotsStay DEF Insert, db
  <2>3. LeavesOwn(p)'
    BY <1>4, <1>5, <1>6, <1>14, <2>1, <2>2 DEF LeavesOwn
  <2>4. Deleted(p)'
    BY <1>4, <1>14 DEF Deleted
  <2> QED
    BY <2>3, <2>4
<1>11. Process(p)'
  BY <1>5, <1>6, <1>8, <1>10, <1>15 DEF Process, RowWritten, DeletesAll, FoundNoRow
<1>12. Exclusive'
  BY <1>1, <1>4, FreeChunk
<1>13. Referenced'
  <2>1. Sweep \in Procs /\ p # Sweep
    BY <1>1, PortalAssumption DEF Procs
  <2>2. tx'[Sweep] = tx[Sweep] /\ row' = row
    BY <1>4, <2>1 DEF Insert, db
  <2>3. Fresh(p) => row # None /\ tx[Sweep].row # None
    BY <1>1, <2>1, PortalAssumption DEF Deleters, RowHolders
  <2> QED
    BY <1>4, <2>2, <2>3 DEF PortalInv, Referenced
<1> QED
  BY <1>1, <1>3, <1>4, <1>7, <1>11, <1>12, <1>13, <1>14, QuietStep
     DEF Insert, PortalInv, PlacedInv, PortalTypeOK, Results

LEMMA SetStatusStep ==
  ASSUME PortalInv, NEW p \in Procs, SetStatus(p) PROVE PortalInv'
<1>1. /\ step[p] = "status" /\ call[p] \in {"index", "mark"} /\ todo[p] = {}
      /\ RowHolders(p) = {} /\ ~LocksRow(p) /\ p # Sweep
  BY PortalAssumption
     DEF SetStatus, At, Blockers, PortalInv, PlacedInv, PlaceOf, PortalTypeOK, Process, RowWritten
<1>2. Moved(p, call[p], "commit") /\ todo'[p] = {}
  BY <1>1, Stepped DEF SetStatus, PortalInv, Places
<1>3. /\ Record(p)' = Record(p) /\ ChunksOf(Record(p))' = ChunksOf(Record(p))
      /\ call'[p] = call[p] /\ step'[p] = "commit" /\ StatusOf(p)' = StatusOf(p)
  BY <1>2 DEF SetStatus, Record, ChunksOf, Moved, StatusOf
<1>4. PlaceOf(p)'
  BY <1>1, <1>2, <1>3 DEF PortalInv, PlacedInv, PlaceOf, Versions
<1>5. /\ tx' \in [Procs -> Txs] /\ \A q \in Procs \ {p} : tx'[q] = tx[q]
      /\ tx'[p].chunks = tx[p].chunks /\ (tx'[p].refers <=> tx[p].refers)
      /\ tx'[p].gone = tx[p].gone
      /\ row = None => tx'[p].row = tx[p].row
      /\ row # None => tx'[p].row = [version |-> row.version, status |-> StatusOf(p)]
  <2>1. CASE row = None
    BY <2>1 DEF SetStatus, PortalInv, PlacedInv, PortalTypeOK, Txs
  <2>2. CASE row # None
    <3>1. row \in Rows
      BY <2>2 DEF PortalInv, PlacedInv, PortalTypeOK
    <3>2. WriteRow(p, [version |-> row.version, status |-> StatusOf(p)])
      BY <2>2, <3>1 DEF SetStatus, StatusOf, Rows
    <3>3. [version |-> row.version, status |-> StatusOf(p)] \in Rows
      BY <3>1 DEF Rows, StatusOf, Statuses
    <3>4. tx'[p] = [row |-> [version |-> row.version, status |-> StatusOf(p)],
                    chunks |-> tx[p].chunks, gone |-> tx[p].gone, refers |-> tx[p].refers]
      BY <3>2, <3>3, RowWrite DEF PortalInv, PlacedInv
    <3> QED
      BY <2>2, <3>2, <3>3, <3>4, RowWrite DEF PortalInv, PlacedInv
  <2> QED
    BY <2>1, <2>2
<1>6. Written(p)' = Written(p)
  BY <1>5 DEF Written
<1>7. RowWritten(p)'
  BY <1>1, <1>3, <1>5 DEF RowWritten, LocksRow, SetStatus, db
<1>8. ChunksWritten(p)'
  <2>1. call[p] = "mark" => Written(p) = {} /\ ~tx[p].refers
    BY DEF PortalInv, Process, ChunksWritten
  <2>2. call[p] = "index" =>
          /\ \A s \in Written(p) : tx[p].chunks[s] # None =>
                /\ s \in ChunksOf(Record(p)) /\ tx[p].chunks[s] = Record(p)
                /\ tx[p].refers \/ chunks[s] # None
          /\ \A s \in ChunksOf(Record(p)) \ todo[p] :
                   s \in Written(p) /\ tx[p].chunks[s] = Record(p)
    BY <1>1 DEF PortalInv, Process, ChunksWritten
  <2>3. chunks' = chunks /\ todo'[p] = todo[p]
    BY <1>1, <1>2 DEF SetStatus, db
  <2> QED
    BY <1>1, <1>3, <1>5, <1>6, <2>1, <2>2, <2>3 DEF ChunksWritten
<1>9. DeletesAll(p)'
  BY <1>1, <1>3 DEF DeletesAll
<1>10. FoundNoRow(p)'
  <2>1. CASE row = None /\ call[p] = "index"
    <3>1. \A s \in Slots : chunks[s] = None
      BY <2>1 DEF PortalInv, Committed, NoOrphans
    <3>2. ~tx[p].refers
      BY <2>1 DEF PortalInv, Referenced
    <3>3. Written(p) \subseteq Slots
      BY TxParts DEF Written, PortalInv, PlacedInv, PortalTypeOK, Txs
    <3>4. \A s \in Written(p) : tx[p].chunks[s] = None /\ chunks[s] = None
      BY <2>1, <3>1, <3>2, <3>3 DEF PortalInv, Process, ChunksWritten
    <3> QED
      BY <1>5, <1>6, <2>1, <3>4 DEF FoundNoRow, SetStatus, db
  <2>2. CASE row # None
    <3>1. row \in Rows
      BY <2>2 DEF PortalInv, PlacedInv, PortalTypeOK
    <3>2. [version |-> row.version, status |-> StatusOf(p)] \in Rows
      BY <3>1 DEF Rows, StatusOf, Statuses
    <3>3. LocksRow(p)'
      BY <1>5, <2>2, <3>2, PortalAssumption DEF LocksRow
    <3> QED
      BY <3>3 DEF FoundNoRow
  <2>3. CASE call[p] # "index"
    BY <1>3, <2>3 DEF FoundNoRow
  <2> QED
    BY <2>1, <2>2, <2>3
<1>14. skip[p] = {} /\ tx[p].gone \subseteq Written(p) /\ UNCHANGED <<clean, skip>> /\ Uninvolved(p)
  BY <1>1, NothingPassedOver DEF PortalInv, Process, Deleted, SetStatus
<1>15. LeavesOwn(p)' /\ Deleted(p)'
  <2>1. p \in clean /\ call[p] = "index" => \A y \in Slots : chunks[y] # None =>
           y \in Written(p) \/ (y \in ChunksOf(Record(p)) /\ chunks[y] = Record(p))
    BY <1>1 DEF PortalInv, Process, LeavesOwn
  <2>2. chunks' = chunks /\ Slots' = Slots
    BY SlotsStay DEF SetStatus, db
  <2>3. LeavesOwn(p)'
    BY <1>3, <1>6, <1>14, <2>1, <2>2 DEF LeavesOwn
  <2>4. Deleted(p)'
    BY <1>5, <1>6, <1>14 DEF Deleted
  <2> QED
    BY <2>3, <2>4
<1>11. Process(p)'
  BY <1>7, <1>8, <1>9, <1>10, <1>15 DEF Process
<1>12. Exclusive'
  BY <1>1, <1>5, <1>6, FreeRow
<1>13. Referenced'
  <2>1. \A q \in Procs : tx'[q].refers <=> tx[q].refers
    BY <1>5
  <2>2. Sweep \in Procs /\ tx'[Sweep] = tx[Sweep] /\ row' = row
    BY <1>1, <1>5 DEF Procs, SetStatus, db
  <2> QED
    BY <2>1, <2>2 DEF PortalInv, Referenced
<1> QED
  BY <1>1, <1>2, <1>4, <1>5, <1>11, <1>12, <1>13, <1>14, QuietStep
     DEF SetStatus, PortalInv, PlacedInv, PortalTypeOK, Results

-----------------------------------------------------------------------------
(* Failures *)

\* A call that fails goes back to one of its beginnings, and is not stored.
LEMMA AgainBegins ==
  ASSUME PortalInv, NEW p \in Procs, Again(p), Blank(p)', skip'[p] = {}, fetched' = fetched
  PROVE  /\ Begins(p)'
         /\ \E c, z : Moved(p, c, z)
         /\ result' \in [Jobs -> Results]
         /\ \A j \in Jobs : result'[j] = result[j] \/ result'[j] # "stored"
<1>1. /\ PlaceOf(p) /\ Record(p)' = Record(p) /\ result \in [Jobs -> Results]
      /\ call[p] \in {"archive", "mark"} => p \in Jobs
      /\ call[p] = "index" => p \in Jobs \cup {Rebuild} /\ Record(p) \in Versions
  BY DEF PortalInv, PlacedInv, PortalTypeOK, PlaceOf, Record, Results
<1>2. CASE Ended(p) /\ (p \in Jobs => result'[p] # "stored")
  <2>1. Begins(p)'
    BY <1>2, EndedBegins
  <2> QED
    BY <1>2, <2>1 DEF Ended
<1>3. CASE /\ Moved(p, "mark", "status") /\ todo'[p] = {}
           /\ p \in Jobs /\ call[p] = "index" /\ result' = result
  <2>1. Begins(p)'
    BY <1>3 DEF Begins, Moved
  <2> QED
    BY <1>1, <1>3, <2>1
<1>4. CASE todo'[p] = {} /\ result' = result /\ call[p] = "archive" /\ Moved(p, "archive", "upsert")
  <2>1. Begins(p)'
    BY <1>1, <1>4 DEF Begins, Moved
  <2> QED
    BY <1>1, <1>4, <2>1
<1>5. CASE todo'[p] = {} /\ result' = result /\ call[p] = "index" /\ Moved(p, "index", "scan")
  <2>1. Begins(p)'
    BY <1>1, <1>5 DEF Begins, Moved, Versions
  <2> QED
    BY <1>1, <1>5, <2>1
<1>6. CASE todo'[p] = {} /\ result' = result /\ call[p] = "mark" /\ Moved(p, "mark", "status")
  <2>1. Begins(p)'
    BY <1>1, <1>6 DEF Begins, Moved
  <2> QED
    BY <1>1, <1>6, <2>1
<1> QED
  BY <1>2, <1>3, <1>4, <1>5, <1>6 DEF Again, Raised

\* A call that fails and whose transaction is rolled back.
LEMMA RolledBack ==
  ASSUME PortalInv, NEW p \in Procs, step[p] # "none", Again(p), Rollback(p),
         size' = size, fetched' = fetched, faults' \in 0 .. MaxFaults
  PROVE  PortalInv'
<1>1. /\ tx' \in [Procs -> Txs] /\ tx'[p] = NoTx /\ \A q \in Procs \ {p} : tx'[q] = tx[q]
      /\ UNCHANGED db
  BY TxEnd DEF Rollback, PortalInv, PlacedInv
<1>2. Blank(p)' /\ skip'[p] = {} /\ Uninvolved(p)
  BY <1>1, NoTxParts, NothingPassedOver
     DEF Blank, LocksRow, Written, Rollback, PortalInv, PlacedInv, PortalTypeOK
<1>3. /\ Begins(p)' /\ result' \in [Jobs -> Results]
      /\ \A j \in Jobs : result'[j] = result[j] \/ result'[j] # "stored"
  BY <1>2, AgainBegins
<1>4. PICK c, z : Moved(p, c, z)
  BY <1>2, AgainBegins
<1> QED
  BY <1>1, <1>2, <1>3, <1>4, BeginningStep

LEMMA FaultCount ==
  ASSUME PortalTypeOK PROVE (Fault => faults' \in 0 .. MaxFaults) /\ faults \in 0 .. MaxFaults
BY PortalAssumption DEF Fault, PortalTypeOK

LEMMA TimeoutStep ==
  ASSUME PortalInv, NEW p \in Procs, Timeout(p) PROVE PortalInv'
<1>1. step[p] \notin {"none", "fetch"}
  BY DEF Timeout
<1>2. Again(p)
  BY <1>1, Retried DEF Timeout, PortalInv
<1> QED
  BY <1>1, <1>2, RolledBack, FaultCount DEF Timeout, PortalInv, PlacedInv

LEMMA NoCaseStep ==
  ASSUME PortalInv, NEW p \in Procs, NoCase(p) PROVE PortalInv'
<1>1. step[p] # "none"
  BY DEF NoCase, At
<1>2. Again(p)
  BY <1>1, GaveUp DEF NoCase, PortalInv, Again
<1> QED
  BY <1>1, <1>2, RolledBack, FaultCount DEF NoCase, PortalInv, PlacedInv

LEMMA BreakDeadlockStep ==
  ASSUME PortalInv, NEW p \in Procs, BreakDeadlock(p) PROVE PortalInv'
<1>1. Blockers(p) # {}
  BY DEF BreakDeadlock, Deadlocked, Waiters
<1>2. step[p] # "none"
  BY <1>1 DEF Blockers
<1>3. Again(p)
  BY <1>2, GaveUp DEF BreakDeadlock, PortalInv, Again
<1> QED
  BY <1>2, <1>3, RolledBack, FaultCount DEF BreakDeadlock, PortalInv, PlacedInv

LEMMA EmbedFailsStep ==
  ASSUME PortalInv, NEW p \in Procs, EmbedFails(p) PROVE PortalInv'
<1>1. step[p] = "embed"
  BY DEF EmbedFails, At
<1>2. Blank(p) /\ skip'[p] = {} /\ Uninvolved(p)
  BY <1>1, BlankPlaces, NothingPassedOver DEF EmbedFails, PortalInv
<1>3. Ended(p) /\ (p \in Jobs => result'[p] = "raised")
  BY <1>1, Returned DEF EmbedFails, PortalInv, Results
<1>4. Begins(p)'
  BY <1>2, <1>3, EndedBegins DEF EmbedFails, Blank, LocksRow, Written
<1> QED
  BY <1>1, <1>2, <1>3, <1>4, BeginningStep, FaultCount
     DEF Ended, EmbedFails, PortalInv, PlacedInv, PortalTypeOK, Txs

\* The analyzer's processes begin again; the rebuild is another program.
LEMMA RestartStep ==
  ASSUME PortalInv, Restart PROVE PortalInv'
<1>1. {Sweep, Rebuild} \subseteq Procs /\ Sweep # Rebuild /\ {Sweep, Rebuild} \cap Jobs = {}
  BY PortalAssumption DEF Procs
<1>2. UNCHANGED <<size, db, fetched, result>> /\ faults' \in 0 .. MaxFaults
  BY FaultCount DEF Restart, PortalInv, PlacedInv
<1>3. tx' \in [Procs -> Txs] /\ \A p \in Procs \ {Rebuild} : tx'[p] = NoTx
  BY NoTxParts DEF Restart, PortalInv, PlacedInv, PortalTypeOK, Txs
<1>4. /\ call' \in [Procs -> Calls] /\ step' \in [Procs -> Places]
      /\ todo' \in [Procs -> SUBSET Slots] /\ tries' \in [Procs -> 0 .. MaxAttempts - 1]
  <2>1. 0 \in 0 .. MaxAttempts - 1
    BY PortalAssumption
  <2> QED
    BY <2>1 DEF Restart, PortalInv, PlacedInv, PortalTypeOK, Calls, Places
<1>5. /\ Keeps(Rebuild) /\ skip'[Rebuild] = skip[Rebuild] /\ (Rebuild \in clean' => Rebuild \in clean)
      /\ skip' \in [Procs -> SUBSET Slots] /\ clean' \subseteq Procs
  BY <1>1, <1>2 DEF Restart, Keeps, Record, PortalInv, PlacedInv, PortalTypeOK
<1>6. ASSUME NEW p \in Procs \ {Rebuild} PROVE Begins(p)'
  <2>1. Blank(p)' /\ todo'[p] = {} /\ skip'[p] = {}
    BY <1>3, NoTxParts DEF Blank, LocksRow, Written, Restart
  <2>2. CASE p = Sweep
    <3>1. call'[p] = "sweep" /\ step'[p] = "look"
      BY <1>1, <2>2 DEF Restart
    <3> QED
      BY <2>1, <2>2, <3>1 DEF Begins
  <2>3. CASE p \in Jobs /\ call[p] # "over"
    <3>1. call'[p] = "archive" /\ step'[p] = "upsert"
      BY <2>3 DEF Restart
    <3> QED
      BY <2>1, <2>3, <3>1 DEF Begins
  <2>4. CASE p \in Jobs /\ call[p] = "over"
    <3>1. step[p] = "none"
      BY <2>4 DEF PortalInv, PlacedInv, PlaceOf
    <3>2. call'[p] = "over" /\ step'[p] = "none"
      BY <1>1, <2>4, <3>1 DEF Restart
    <3> QED
      BY <2>1, <3>2 DEF Begins
  <2> QED
    BY <2>2, <2>3, <2>4 DEF Procs
<1>7. ASSUME NEW p \in Procs PROVE PlaceOf(p)' /\ Process(p)'
  <2>1. CASE p = Rebuild
    <3>1. PlaceOf(p)'
      BY <1>2, <1>5, <2>1 DEF PortalInv, PlacedInv, Keeps, PlaceOf, ChunksOf
    <3> QED
      BY <1>2, <1>5, <2>1, <3>1, Undisturbed DEF PortalInv, db
  <2>2. CASE p # Rebuild
    BY <1>6, <2>2, BeginsInOrder
  <2> QED
    BY <2>1, <2>2
<1>8. PlacedInv'
  <2>1. PortalTypeOK'
    BY <1>2, <1>3, <1>4, <1>5, SlotsStay DEF PortalInv, PlacedInv, PortalTypeOK, Txs, Calls, db
  <2> QED
    BY <1>4, <1>7, <2>1 DEF PlacedInv
<1>9. Exclusive'
  BY <1>3, NoTxParts DEF Exclusive, LocksRow, Written
<1>10. Referenced'
  <2>1. NoTx.row # None
    BY NoTxParts, PortalAssumption
  <2> QED
    BY <1>1, <1>2, <1>3, <1>5, <2>1, NoTxParts DEF PortalInv, Referenced, Keeps, db
<1>11. Committed'
  <2>1. \A j \in Jobs : call[j] = "over" => call'[j] = "over"
    BY <1>1 DEF Restart, Procs
  <2> QED
    BY <1>2, <2>1, SlotsStay
       DEF PortalInv, Committed, NoOrphans, OwnChunks, ReadyIsWhole, StoredIsShown, ChunksOf, db
<1> QED
  BY <1>7, <1>8, <1>9, <1>10, <1>11 DEF PortalInv

-----------------------------------------------------------------------------
(* Commits *)

\* A transaction that ends with its writes in effect.
LEMMA Applied ==
  ASSUME PortalInv, NEW p \in Procs, step[p] = "commit", Apply(p)
  PROVE  /\ call[p] \in {"archive", "index", "mark", "sweep"} /\ todo[p] = {}
         /\ call[p] \in {"archive", "mark"} => p \in Jobs
         /\ call[p] = "sweep" => p = Sweep
         /\ call[p] = "index" => p \in Jobs \cup {Rebuild} /\ Record(p) \in Versions
         /\ tx' \in [Procs -> Txs] /\ Blank(p)' /\ tx'[p] = NoTx
         /\ \A q \in Procs \ {p} : tx'[q] = tx[q]
         /\ row' = IF LocksRow(p) THEN tx[p].row ELSE row
         /\ row' \in Rows \cup {None}
         /\ chunks' \in [Slots -> Versions \cup {None}]
         /\ \A s \in Slots : chunks'[s] = IF s \in Written(p) THEN tx[p].chunks[s] ELSE chunks[s]
         /\ overtaken' \in BOOLEAN
         /\ skip' \in [Procs -> SUBSET Slots] /\ skip'[p] = {} /\ clean' \subseteq Procs
<1>1. /\ call[p] \in {"archive", "index", "mark", "sweep"} /\ todo[p] = {}
      /\ call[p] \in {"archive", "mark"} => p \in Jobs
      /\ call[p] = "sweep" => p = Sweep
      /\ call[p] = "index" => p \in Jobs \cup {Rebuild} /\ Record(p) \in Versions
  BY DEF PortalInv, PlacedInv, PortalTypeOK, PlaceOf
<1>2. /\ tx' \in [Procs -> Txs] /\ tx'[p] = NoTx
      /\ \A q \in Procs \ {p} : tx'[q] = tx[q]
  BY TxEnd DEF Apply, PortalInv, PlacedInv
<1>3. Blank(p)'
  BY <1>2, NoTxParts DEF Blank, LocksRow, Written
<1>4. row' = IF LocksRow(p) THEN tx[p].row ELSE row
  BY DEF Apply, LocksRow
<1>5. row' \in Rows \cup {None}
  BY <1>4 DEF LocksRow, PortalInv, PlacedInv, PortalTypeOK
<1>6. \A s \in Slots : chunks'[s] = IF s \in Written(p) THEN tx[p].chunks[s] ELSE chunks[s]
  BY DEF Apply, Seen, Written
<1>7. chunks' \in [Slots -> Versions \cup {None}]
  <2>1. \A s \in Slots : chunks'[s] \in Versions \cup {None}
    BY <1>6, TxParts DEF Written, PortalInv, PlacedInv, PortalTypeOK, Txs
  <2> QED
    BY <2>1 DEF Apply
<1>8. overtaken' \in BOOLEAN
  <2>1. CASE call[p] = "archive"
    BY <2>1 DEF Apply
  <2>2. CASE call[p] \in {"index", "mark"} /\ tx[p].row # Untouched
    BY <2>2 DEF Apply
  <2>3. CASE call[p] # "archive" /\ ~(call[p] \in {"index", "mark"} /\ tx[p].row # Untouched)
    BY <2>3 DEF Apply, PortalInv, PlacedInv, PortalTypeOK
  <2> QED
    BY <2>1, <2>2, <2>3
<1>9. skip' \in [Procs -> SUBSET Slots] /\ skip'[p] = {} /\ clean' \subseteq Procs
  BY DEF Apply, PortalInv, PlacedInv, PortalTypeOK, Process, Deleted
<1> QED
  BY <1>1, <1>2, <1>3, <1>4, <1>5, <1>6, <1>7, <1>8, <1>9

\* What a transaction that does not hold the row commits is what was there:
\* it found no row and no chunks, or has written nothing.
LEMMA LocklessApplied ==
  ASSUME PortalInv, NEW p \in Procs, step[p] = "commit", Apply(p), ~LocksRow(p)
  PROVE  /\ UNCHANGED <<row, chunks, overtaken>> /\ call[p] # "archive"
         /\ \A s \in Written(p) : chunks[s] = None
<1>1. call[p] # "archive"
  <2>1. Archived(p) # Untouched \/ call[p] # "archive"
    BY Applied, PortalAssumption DEF Archived, Rows, Versions, Statuses
  <2> QED
    BY <2>1 DEF PortalInv, Process, RowWritten, LocksRow
<1>2. row' = row
  BY Applied
<1>3. overtaken' = overtaken
  BY <1>1 DEF Apply, LocksRow
<1>4. \A s \in Written(p) : tx[p].chunks[s] = chunks[s] /\ chunks[s] = None
  <2>1. CASE call[p] = "index"
    BY <2>1 DEF PortalInv, Process, FoundNoRow
  <2>2. CASE call[p] # "index"
    BY <1>1, <2>2, Applied DEF PortalInv, Process, ChunksWritten
  <2> QED
    BY <2>1, <2>2
<1>5. chunks' = chunks
  BY <1>4, Applied DEF PortalInv, PlacedInv, PortalTypeOK
<1> QED
  BY <1>1, <1>2, <1>3, <1>4, <1>5

\* Who deletes the chunks while he holds the row leaves none of them.
LEMMA AllDeleted ==
  ASSUME PortalInv, NEW p \in Procs, step[p] = "commit", Apply(p), LocksRow(p),
         call[p] \in {"archive", "sweep"}
  PROVE  \A s \in Slots : chunks'[s] = None
<1>1. \A s \in Slots : chunks[s] # None => s \in Written(p)
  BY Applied DEF PortalInv, Process, DeletesAll
<1>2. \A s \in Written(p) : tx[p].chunks[s] = None
  BY DEF PortalInv, Process, ChunksWritten
<1> QED
  BY <1>1, <1>2, Applied

\* What the other processes rely on stays: who holds the row is not overtaken
\* by another that does, and a chunk id is written by one at a time.
LEMMA OthersKeep ==
  ASSUME PortalInv, NEW p \in Procs, step[p] = "commit", Apply(p), size' = size,
         NEW q \in Procs, q # p, Keeps(q)
  PROVE  Process(q)'
<1>1. LocksRow(q) => row' = row /\ chunks' = chunks /\ \A s \in Written(p) : chunks[s] = None
  BY LocklessApplied DEF PortalInv, Exclusive
<1>8. /\ skip'[q] = skip[q] \cup (IF step[q] = "delete" THEN todo[q] \cap tx[p].gone ELSE {})
      /\ tx[p].gone \subseteq Written(p)
  BY DEF Apply, PortalInv, Process, Deleted
<1>2. \A s \in Written(q) : chunks'[s] = chunks[s]
  <2>1. Written(q) \subseteq Slots /\ Written(p) \cap Written(q) = {}
    BY TxParts DEF Written, PortalInv, PlacedInv, PortalTypeOK, Txs, Exclusive
  <2> QED
    BY <2>1, Applied
<1>3. LocksRow(q)' = LocksRow(q) /\ Written(q)' = Written(q)
  BY DEF Keeps, LocksRow, Written
<1>4. RowWritten(q)'
  BY <1>1, <1>3 DEF PortalInv, Process, Keeps, RowWritten, StatusOf, Archived, LocksRow
<1>5. ChunksWritten(q)'
  <2>1. ChunksOf(Record(q))' = ChunksOf(Record(q))
    BY DEF Keeps, ChunksOf
  <2> QED
    BY <1>2, <1>3, <2>1 DEF PortalInv, Process, Keeps, ChunksWritten
<1>6. DeletesAll(q)'
  <2>1. call[q] = "archive" /\ step[q] \in {"delete", "commit"} => LocksRow(q)
    <3>1. call[q] = "archive" => q \in Jobs
      BY DEF PortalInv, PlacedInv, PlaceOf
    <3>2. call[q] = "archive" => Archived(q) # Untouched
      BY <3>1, PortalAssumption DEF Archived, Rows, Versions, Statuses
    <3> QED
      BY <3>2 DEF PortalInv, Process, RowWritten, LocksRow
  <2> QED
    BY <1>1, <1>3, <1>8, <2>1, SlotsStay DEF PortalInv, Process, Keeps, DeletesAll
<1>7. FoundNoRow(q)'
  <2>1. ASSUME q \in Jobs, call[q] = "index", step[q] = "commit", ~LocksRow(q), row' # None
        PROVE  row'.version # q
    <3>1. row # None => row.version # q
      BY <2>1 DEF PortalInv, Process, FoundNoRow
    <3>2. CASE ~LocksRow(p)
      BY <2>1, <3>1, <3>2, Applied
    <3>3. CASE LocksRow(p) /\ call[p] = "archive"
      <4>1. tx[p].row = Archived(p)
        BY <3>3 DEF PortalInv, Process, RowWritten
      <4>2. row' = tx[p].row
        BY <3>3, Applied
      <4> QED
        BY <4>1, <4>2 DEF Archived
    <3>4. CASE LocksRow(p) /\ call[p] = "sweep"
      BY <2>1, <3>4, Applied DEF PortalInv, Process, RowWritten
    <3>5. CASE LocksRow(p) /\ call[p] \in {"index", "mark"}
      <4>1. row # None /\ tx[p].row = [version |-> row.version, status |-> StatusOf(p)]
        BY <3>5 DEF PortalInv, Process, RowWritten
      <4>2. row' = tx[p].row
        BY <3>5, Applied
      <4> QED
        BY <3>1, <4>1, <4>2
    <3> QED
      BY <3>2, <3>3, <3>4, <3>5, Applied
  <2> QED
    BY <1>2, <1>3, <2>1 DEF PortalInv, Process, Keeps, FoundNoRow
<1>9. LeavesOwn(q)'
  <2>1. ASSUME q \in clean', call[q] = "index",
               step[q] \in {"delete", "insert", "status", "commit"},
               NEW s \in Slots, chunks'[s] # None
        PROVE  \/ s \in Written(q)
               \/ step[q] = "delete" /\ s \in todo[q] \ skip'[q]
               \/ s \in ChunksOf(Record(q)) /\ chunks'[s] = Record(q)
    <3>1. q \in clean /\ (call[p] = "index" => Record(q) = Record(p))
      BY <2>1 DEF Apply
    <3>2. CASE s \in Written(p)
      <4>1. chunks'[s] = tx[p].chunks[s]
        BY <3>2, Applied
      <4>2. call[p] = "index"
        BY <2>1, <3>2, <4>1 DEF PortalInv, Process, ChunksWritten
      <4>3. s \in ChunksOf(Record(p)) /\ tx[p].chunks[s] = Record(p)
        BY <2>1, <3>2, <4>1, <4>2 DEF PortalInv, Process, ChunksWritten
      <4> QED
        BY <3>1, <4>1, <4>2, <4>3
    <3>3. CASE s \notin Written(p)
      <4>1. chunks'[s] = chunks[s]
        BY <3>3, Applied
      <4> QED
        BY <1>8, <2>1, <3>1, <3>3, <4>1 DEF PortalInv, Process, LeavesOwn
    <3> QED
      BY <3>2, <3>3
  <2>2. Slots' = Slots /\ ChunksOf(Record(q))' = ChunksOf(Record(q)) /\ Written(q)' = Written(q)
    BY <1>3, SlotsStay DEF Keeps, ChunksOf
  <2> QED
    BY <2>1, <2>2 DEF LeavesOwn, Keeps
<1>10. Deleted(q)'
  BY <1>3, <1>8 DEF PortalInv, Process, Deleted, Keeps
<1> QED
  BY <1>4, <1>5, <1>6, <1>7, <1>9, <1>10 DEF Process

LEMMA ReferencedApplied ==
  ASSUME PortalInv, NEW p \in Procs, step[p] = "commit", Apply(p)
  PROVE  Exclusive' /\ Referenced'
<1>1. Exclusive'
  BY Applied DEF PortalInv, Exclusive, LocksRow, Written, Blank
<1>2. ASSUME NEW q \in Procs, tx'[q].refers PROVE row' # None /\ tx'[Sweep].row # None
  <2>1. q # p /\ tx[q].refers /\ row # None /\ tx[Sweep].row # None
    BY <1>2, Applied DEF Blank, PortalInv, Referenced
  <2>2. tx'[Sweep].row # None
    BY <2>1, Applied, NoTxParts, PortalAssumption DEF Procs
  <2>3. row' # None
    <3>1. CASE ~LocksRow(p)
      BY <2>1, <3>1, Applied
    <3>2. CASE LocksRow(p) /\ call[p] = "sweep"
      BY <2>1, <3>2, Applied DEF PortalInv, Process, RowWritten
    <3>3. CASE LocksRow(p) /\ call[p] = "archive"
      <4>1. Archived(p) \in Rows
        BY <3>3, Applied DEF Archived, Rows, Versions, Statuses
      <4> QED
        BY <3>3, <4>1, Applied, PortalAssumption DEF PortalInv, Process, RowWritten
    <3>4. CASE LocksRow(p) /\ call[p] \in {"index", "mark"}
      <4>1. row \in Rows
        BY <2>1 DEF PortalInv, PlacedInv, PortalTypeOK
      <4>2. [version |-> row.version, status |-> StatusOf(p)] \in Rows
        BY <4>1 DEF Rows, StatusOf, Statuses
      <4> QED
        BY <3>4, <4>2, Applied, PortalAssumption DEF PortalInv, Process, RowWritten
    <3> QED
      BY <3>1, <3>2, <3>3, <3>4, Applied
  <2> QED
    BY <2>2, <2>3
<1>3. Referenced'
  BY <1>2 DEF Referenced
<1> QED
  BY <1>1, <1>3

\* What a commit leaves: the row of one analysis with its own chunks, or marks
\* that a status was set for another.
LEMMA CommittedApplied ==
  ASSUME PortalInv, NEW p \in Procs, step[p] = "commit", Apply(p), size' = size,
         \A j \in Jobs : result'[j] = "stored" =>
            call'[j] = "over" /\ (result[j] = "stored" \/ (j = p /\ call[p] = "index"))
  PROVE  Committed'
<1>1. Slots' = Slots /\ \A v \in Versions : ChunksOf(v)' = ChunksOf(v)
  BY SlotsStay
<1>2. \A j \in Jobs : result[j] = "stored" => j # p
  BY DEF PortalInv, Committed, StoredIsShown, PlacedInv, PlaceOf
<1>3. CASE ~LocksRow(p)
  <2>1. UNCHANGED <<row, chunks, overtaken>>
    BY <1>3, LocklessApplied
  <2>2. ASSUME NEW j \in Jobs, result'[j] = "stored", row # None, ~overtaken, row.version = j
        PROVE  row.status = IF size[j] = 0 THEN "not_indexed" ELSE "ready"
    <3>1. ~(j = p /\ call[p] = "index")
      BY <1>3, <2>2 DEF PortalInv, Process, FoundNoRow
    <3> QED
      BY <2>2, <3>1 DEF PortalInv, Committed, StoredIsShown
  <2>3. StoredIsShown'
    BY <2>1, <2>2 DEF StoredIsShown
  <2> QED
    BY <1>1, <2>1, <2>3 DEF PortalInv, Committed, NoOrphans, OwnChunks, ReadyIsWhole, ChunksOf
<1>4. CASE LocksRow(p) /\ call[p] = "archive"
  <2>1. row' = Archived(p) /\ p \in Jobs
    BY <1>4, Applied DEF PortalInv, Process, RowWritten
  <2>2. \A s \in Slots : chunks'[s] = None
    BY <1>4, AllDeleted
  <2>3. row'.version = p /\ row'.status # "ready"
    BY <2>1 DEF Archived
  <2>4. StoredIsShown'
    BY <1>2, <1>4, <2>3 DEF StoredIsShown
  <2> QED
    BY <1>1, <2>2, <2>3, <2>4 DEF Committed, NoOrphans, OwnChunks, ReadyIsWhole
<1>5. CASE LocksRow(p) /\ call[p] = "sweep"
  <2>1. row' = None
    BY <1>5, Applied DEF PortalInv, Process, RowWritten
  <2>2. \A s \in Slots : chunks'[s] = None
    BY <1>5, AllDeleted
  <2> QED
    BY <1>1, <2>1, <2>2 DEF Committed, NoOrphans, OwnChunks, ReadyIsWhole, StoredIsShown
<1>6. CASE LocksRow(p) /\ call[p] \in {"index", "mark"}
  <2>1. row # None /\ tx[p].row = [version |-> row.version, status |-> StatusOf(p)]
    BY <1>6 DEF PortalInv, Process, RowWritten
  <2>2. row' = tx[p].row
    BY <1>6, Applied
  <2>3. row'.version = row.version /\ row'.status = StatusOf(p) /\ row \in Rows
    BY <2>1, <2>2 DEF PortalInv, PlacedInv, PortalTypeOK
  <2>4. row' # None
    <3>1. [version |-> row.version, status |-> StatusOf(p)] \in Rows
      BY <2>3 DEF Rows, StatusOf, Statuses
    <3> QED
      BY <2>1, <2>2, <3>1, PortalAssumption
  <2>5. ~overtaken' =>
           /\ row.version = Record(p)
           /\ ~overtaken \/ (call[p] = "index" /\ p \in clean)
    <3>1. call[p] \in {"index", "mark"} /\ tx[p].row # Untouched /\ call[p] # "archive"
      BY <1>6 DEF LocksRow
    <3>2. overtaken' <=> \/ tx[p].row.version # Record(p)
                         \/ overtaken /\ ~(call[p] = "index" /\ p \in clean)
      BY <3>1 DEF Apply
    <3>3. tx[p].row.version = row.version
      BY <2>1
    <3> QED
      BY <3>2, <3>3
  <2>6. row.version \in Versions
    BY <2>3 DEF Rows
  <2>7. \A s \in Slots : ~overtaken /\ chunks[s] # None =>
           s \in ChunksOf(row.version) /\ chunks[s] = row.version
    BY <2>1 DEF PortalInv, Committed, OwnChunks
  <2>8. NoOrphans'
    BY <2>4 DEF NoOrphans
  <2>9. CASE call[p] = "mark"
    <3>1. Written(p) = {} /\ p \in Jobs /\ Record(p) = p
      BY <2>9, Applied, PortalAssumption DEF PortalInv, Process, ChunksWritten, Record
    <3>2. \A s \in Slots : chunks'[s] = chunks[s]
      BY <3>1, Applied
    <3>6. ~overtaken' => ~overtaken
      BY <2>5, <2>9
    <3>3. OwnChunks'
      BY <1>1, <2>3, <2>6, <2>7, <3>2, <3>6 DEF OwnChunks
    <3>4. ReadyIsWhole'
      BY <2>3, <2>9 DEF ReadyIsWhole, StatusOf
    <3>5. StoredIsShown'
      BY <1>2, <2>3, <2>5, <2>9, <3>1 DEF StoredIsShown
    <3> QED
      BY <2>8, <3>3, <3>4, <3>5 DEF Committed
  <2>10. CASE call[p] = "index"
    <3>1. /\ \A s \in Written(p) : tx[p].chunks[s] # None =>
                s \in ChunksOf(Record(p)) /\ tx[p].chunks[s] = Record(p)
          /\ \A s \in ChunksOf(Record(p)) : s \in Written(p) /\ tx[p].chunks[s] = Record(p)
      BY <2>10, Applied DEF PortalInv, Process, ChunksWritten
    <3>7. p \in clean => \A s \in Slots : chunks[s] # None =>
             s \in Written(p) \/ (s \in ChunksOf(Record(p)) /\ chunks[s] = Record(p))
      BY <2>10 DEF PortalInv, Process, LeavesOwn
    <3>2. ASSUME ~overtaken', NEW s \in Slots, chunks'[s] # None
          PROVE  s \in ChunksOf(row.version) /\ chunks'[s] = row.version
      <4>1. chunks'[s] = IF s \in Written(p) THEN tx[p].chunks[s] ELSE chunks[s]
        BY Applied
      <4> QED
        BY <2>5, <2>7, <3>1, <3>2, <3>7, <4>1
    <3>3. OwnChunks'
      BY <1>1, <2>3, <2>6, <3>2 DEF OwnChunks
    <3>4. ASSUME ~overtaken', NEW s \in ChunksOf(row.version) PROVE chunks'[s] = row.version
      <4>1. s \in Slots
        BY <2>6, ChunkNumbers DEF PortalInv, PlacedInv
      <4> QED
        BY <2>5, <3>1, <3>4, <4>1, Applied
    <3>5. ReadyIsWhole'
      BY <1>1, <2>3, <2>6, <3>4 DEF ReadyIsWhole
    <3>6. StoredIsShown'
      BY <2>3, <2>5, <2>10 DEF StoredIsShown, StatusOf
    <3> QED
      BY <2>8, <3>3, <3>5, <3>6 DEF Committed
  <2> QED
    BY <1>6, <2>9, <2>10
<1> QED
  BY <1>3, <1>4, <1>5, <1>6, Applied

\* A step of p that commits, whatever it goes on to.
LEMMA CommittingStep ==
  ASSUME PortalInv, NEW p \in Procs, step[p] = "commit", Apply(p),
         UNCHANGED <<size, fetched>>, faults' \in 0 .. MaxFaults,
         Begins(p)', \E c, z : Moved(p, c, z), result' \in [Jobs -> Results],
         \A j \in Jobs : result'[j] = "stored" =>
            result[j] = "stored" \/ (j = p /\ call[p] = "index" /\ call'[p] = "over")
  PROVE  PortalInv'
<1>1. PICK c, z : Moved(p, c, z)
  OBVIOUS
<1>2. PlaceOf(p)' /\ Process(p)'
  BY BeginsInOrder
<1>3. PlacedInv'
  BY <1>1, <1>2, Applied, PlacedByMove DEF PortalInv
<1>4. ASSUME NEW q \in Procs PROVE Process(q)'
  <2>1. CASE q = p
    BY <1>2, <2>1
  <2>2. CASE q # p
    <3>1. Keeps(q)
      BY <1>1, <2>2, Applied DEF Moved, Keeps, Record
    <3> QED
      BY <2>2, <3>1, OthersKeep
  <2> QED
    BY <2>1, <2>2
<1>5. \A j \in Jobs : result[j] = "stored" => j # p /\ call'[j] = "over"
  BY <1>1 DEF PortalInv, Committed, StoredIsShown, PlacedInv, PlaceOf, Moved, Procs
<1>6. Committed'
  BY <1>5, CommittedApplied
<1> QED
  BY <1>3, <1>4, <1>6, ReferencedApplied DEF PortalInv

LEMMA CommitStep ==
  ASSUME PortalInv, NEW p \in Procs, Commit(p) PROVE PortalInv'
<1>1. /\ step[p] = "commit" /\ Apply(p) /\ UNCHANGED <<size, fetched>> /\ faults' = faults
      /\ result \in [Jobs -> Results] /\ Record(p)' = Record(p)
  BY DEF Commit, At, PortalInv, PlacedInv, PortalTypeOK, Results, Record
<1>2. faults' \in 0 .. MaxFaults
  BY <1>1, FaultCount DEF PortalInv, PlacedInv
<1>3. CASE call[p] = "archive"
  <2>1. Enter(p, "index", "embed") /\ result' = result
    BY <1>3 DEF Commit
  <2>2. Moved(p, "index", "embed") /\ todo'[p] = {}
    BY <2>1, Entered DEF PortalInv, Calls, Places
  <2>3. p \in Jobs /\ Record(p) = p
    BY <1>1, <1>3, Applied, PortalAssumption DEF Record
  <2>4. Begins(p)'
    BY <1>1, <2>2, <2>3, Applied DEF Begins, Moved, Versions
  <2> QED
    BY <1>1, <1>2, <2>1, <2>2, <2>4, CommittingStep
<1>4. CASE call[p] # "archive"
  <2>1. PICK r \in {"stored", "unindexed", "swept"} :
          Return(p, r) /\ (p \in Jobs => r # "swept") /\ (r = "stored" => call[p] = "index")
    BY <1>1, <1>4, Applied, PortalAssumption DEF Commit
  <2>2. Ended(p) /\ (p \in Jobs => result'[p] = r)
    BY <2>1, Returned DEF PortalInv, Results
  <2>3. Begins(p)'
    BY <1>1, <2>2, Applied, EndedBegins
  <2>4. /\ result' \in [Jobs -> Results] /\ Moved(p, "over", "none") /\ call'[p] = "over"
        /\ \A j \in Jobs : result'[j] = "stored" => result[j] = "stored" \/ (j = p /\ r = "stored")
    BY <2>2 DEF Ended, Moved
  <2> QED
    BY <1>1, <1>2, <2>1, <2>3, <2>4, CommittingStep
<1> QED
  BY <1>3, <1>4

LEMMA LostCommitStep ==
  ASSUME PortalInv, NEW p \in Procs, LostCommit(p) PROVE PortalInv'
<1>1. step[p] = "commit" /\ Apply(p) /\ UNCHANGED <<size, fetched>>
  BY DEF LostCommit, At
<1>2. faults' \in 0 .. MaxFaults
  BY FaultCount DEF LostCommit, PortalInv, PlacedInv
<1>3. Again(p)
  BY <1>1, Retried DEF LostCommit, PortalInv
<1>4. Blank(p)'
  BY <1>1, Applied
<1>5. /\ Begins(p)' /\ (\E c, z : Moved(p, c, z)) /\ result' \in [Jobs -> Results]
      /\ \A j \in Jobs : result'[j] = result[j] \/ result'[j] # "stored"
  BY <1>1, <1>3, <1>4, Applied, AgainBegins
<1> QED
  BY <1>1, <1>2, <1>5, CommittingStep

-----------------------------------------------------------------------------
(* The theorems *)

LEMMA PortalInvInit ==
  ASSUME PortalInit PROVE PortalInv
<1>1. /\ Slots \subseteq Nat /\ \A v \in Versions : ChunksOf(v) \subseteq Slots /\ size[v] \in Nat
      /\ Old \in Versions
  BY PortalAssumption DEF PortalInit, Slots, ChunksOf, Versions
<1>2. /\ row \in Rows \cup {None}
      /\ row # None => row.version = Old /\ row.status = IF size[Old] = 0 THEN "not_indexed" ELSE "ready"
  BY PortalAssumption DEF PortalInit, Rows, Versions, Statuses
<1>3. chunks \in [Slots -> Versions \cup {None}]
  BY <1>1 DEF PortalInit
<1>4. tx \in [Procs -> Txs] /\ \A p \in Procs : tx[p] = NoTx
  BY NoTxParts DEF PortalInit
<1>5. /\ call \in [Procs -> Calls] /\ step \in [Procs -> Places] /\ todo \in [Procs -> SUBSET Slots]
      /\ tries \in [Procs -> 0 .. MaxAttempts - 1] /\ result \in [Jobs -> Results]
  <2>1. 0 \in 0 .. MaxAttempts - 1
    BY PortalAssumption
  <2> QED
    BY <2>1 DEF PortalInit, Calls, Places, Results
<1>6. PortalTypeOK
  <2>1. faults \in 0 .. MaxFaults
    BY PortalAssumption DEF PortalInit
  <2> QED
    BY <1>2, <1>3, <1>4, <1>5, <2>1 DEF PortalInit, PortalTypeOK, Txs, Calls, Results
<1>7. ASSUME NEW p \in Procs PROVE Blank(p) /\ PlaceOf(p) /\ Process(p)
  <2>1. Blank(p) /\ todo[p] = {} /\ skip[p] = {}
    BY <1>4, NoTxParts DEF PortalInit, Blank, LocksRow, Written
  <2>2. \/ p \in Jobs /\ call[p] = "archive" /\ step[p] = "upsert"
        \/ p = Sweep /\ call[p] = "sweep" /\ step[p] = "look"
        \/ p = Rebuild /\ call[p] = "rebuild" /\ step[p] = "fetch"
    BY PortalAssumption DEF PortalInit, Procs
  <2>3. PlaceOf(p)
    BY <2>1, <2>2 DEF PlaceOf
  <2>4. Process(p)
    BY <2>1, <2>2 DEF Process, Blank, RowWritten, ChunksWritten, DeletesAll, LeavesOwn,
       FoundNoRow, Deleted, LocksRow
  <2> QED
    BY <2>1, <2>3, <2>4
<1>8. Exclusive /\ Referenced
  BY <1>7 DEF Blank, Exclusive, Referenced
<1>9. Committed
  <2>1. NoOrphans /\ OwnChunks /\ ReadyIsWhole
    BY <1>1, <1>2 DEF PortalInit, NoOrphans, OwnChunks, ReadyIsWhole
  <2>2. StoredIsShown
    BY DEF PortalInit, StoredIsShown
  <2> QED
    BY <2>1, <2>2 DEF Committed
<1> QED
  BY <1>5, <1>6, <1>7, <1>8, <1>9 DEF PortalInv, PlacedInv

LEMMA PortalInvNext ==
  ASSUME PortalInv, [PortalNext]_portalVars PROVE PortalInv'
<1>1. ASSUME NEW p \in Procs, Work(p) PROVE PortalInv'
  BY <1>1, UpsertStep, ConflictStep, FetchStep, LookStep, RemoveStep, ScanStep, DeleteStep,
     EmbedStep, InsertStep, NoCaseStep, SetStatusStep, CommitStep DEF Work
<1>2. CASE PortalNext
  BY <1>1, <1>2, BreakDeadlockStep, TimeoutStep, LostCommitStep, EmbedFailsStep, RestartStep
     DEF PortalNext
<1>3. CASE UNCHANGED portalVars
  <2>1. \A q \in Procs : Keeps(q)
    BY <1>3 DEF portalVars, Keeps, Record
  <2>2. \A q \in Procs : Process(q)'
    BY <1>3, <2>1, Undisturbed DEF PortalInv, portalVars, db
  <2>3. PlacedInv'
    BY <1>3, <2>1, SlotsStay
       DEF PortalInv, PlacedInv, PortalTypeOK, PlaceOf, Keeps, ChunksOf, portalVars, db
  <2>4. Exclusive' /\ Referenced'
    BY <1>3 DEF PortalInv, Exclusive, Referenced, LocksRow, Written, portalVars, db
  <2>5. Committed'
    BY <1>3, SlotsStay DEF PortalInv, Committed, NoOrphans, OwnChunks, ReadyIsWhole,
       StoredIsShown, ChunksOf, portalVars, db
  <2> QED
    BY <2>2, <2>3, <2>4, <2>5 DEF PortalInv
<1> QED
  BY <1>2, <1>3

\* Every behaviour of the archive keeps the invariant.
THEOREM PortalInvariant == PortalSpec => []PortalInv
<1>1. PortalInit => PortalInv
  BY PortalInvInit
<1>2. PortalInv /\ [PortalNext]_portalVars => PortalInv'
  BY PortalInvNext
<1> QED
  BY <1>1, <1>2, PTL DEF PortalSpec

\* The archive keeps its types.
THEOREM PortalTypeCorrect == PortalSpec => []PortalTypeOK
<1>1. PortalInv => PortalTypeOK
  BY DEF PortalInv, PlacedInv
<1> QED
  BY <1>1, PortalInvariant, PTL

\* A case that chat searches has the chunks of its own analysis, all of them
\* and no other, and a case whose archive was reported stored is searched:
\* for any number of workers, versions and chunks.
THEOREM SearchTruthful == PortalSpec => []SearchIsTruthful
<1>1. ASSUME PortalInv PROVE SearchIsTruthful
  <2>1. ASSUME row # None, ~overtaken, row.status = "ready", NEW s \in Slots
        PROVE  chunks[s] = IF s \in ChunksOf(row.version) THEN row.version ELSE None
    BY <1>1, <2>1 DEF PortalInv, Committed, OwnChunks, ReadyIsWhole
  <2>2. ASSUME row # None, ~overtaken, row.version \in Jobs, result[row.version] = "stored"
        PROVE  row.status = IF size[row.version] = 0 THEN "not_indexed" ELSE "ready"
    BY <1>1, <2>2 DEF PortalInv, Committed, StoredIsShown
  <2> QED
    BY <2>1, <2>2 DEF SearchIsTruthful
<1> QED
  BY <1>1, PortalInvariant, PTL
=============================================================================
