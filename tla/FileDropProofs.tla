--------------------------- MODULE FileDropProofs ---------------------------
(***************************************************************************)
(* Proofs about FileDrop: what the collision loops choose, who holds which *)
(* file, and that every input is kept, with its report, and analysed again *)
(* only after a failure.                                                   *)
(***************************************************************************)
EXTENDS FileDrop, FiniteSetTheorems, WellFoundedInduction, TLAPS

-----------------------------------------------------------------------------
(* Names *)

\* A non-empty set of counters has a least one.
LEMMA LeastCounter ==
  ASSUME NEW n \in Nat, NEW K \in SUBSET (1 .. n), K # {}
  PROVE  \E k \in K : \A j \in K : k <= j
<1> DEFINE T == {1 .. k : k \in K}
<1>1. IsFiniteSet(1 .. n) /\ \A k \in K : (1 .. k) \subseteq (1 .. n)
  BY FS_Interval
<1>2. T \subseteq FiniteSubsetsOf(1 .. n) /\ T # {}
  <2>1. \A k \in K : IsFiniteSet(1 .. k)
    BY <1>1, FS_Interval
  <2> QED
    BY <1>1, <2>1 DEF FiniteSubsetsOf
<1>3. IsWellFoundedOn(StrictSubsetOrdering(1 .. n), FiniteSubsetsOf(1 .. n))
  BY FS_StrictSubsetOrderingWellFounded
<1> HIDE DEF T
<1>4. PICK x \in T : \A y \in T : ~(<<y, x>> \in StrictSubsetOrdering(1 .. n))
  BY <1>2, <1>3, WFMin
<1>5. PICK k \in K : x = 1 .. k
  BY <1>4 DEF T
<1>6. ASSUME NEW j \in K PROVE k <= j
  <2>1. 1 .. j \in T
    BY DEF T
  <2>2. <<1 .. j, 1 .. k>> \notin StrictSubsetOrdering(1 .. n)
    BY <1>4, <1>5, <2>1
  <2> QED
    BY <2>2, <1>1 DEF StrictSubsetOrdering
<1> QED
  BY <1>6

\* A name with a counter keeps its base or stem, and counters tell names apart.
LEMMA Counters ==
  ASSUME NEW n \in Names \cup ReportNames
  PROVE  /\ \A k \in Nat :
              /\ n \in Names => Suffixed(n, k) \in Names /\ Suffixed(n, k).base = n.base
              /\ n \in ReportNames =>
                   Suffixed(n, k) \in ReportNames /\ Suffixed(n, k).stem = n.stem
         /\ \A j, k \in Nat : Suffixed(n, j) = Suffixed(n, k) => j = k
<1>1. n.path \in Seq(Nat) /\ \A k : Suffixed(n, k).path = Append(n.path, k)
  BY DEF Names, ReportNames, Suffixed
<1>2. \A j, k \in Nat : Append(n.path, j) = Append(n.path, k) => j = k
  <2> SUFFICES ASSUME NEW j \in Nat, NEW k \in Nat, Append(n.path, j) = Append(n.path, k)
               PROVE  j = k
    OBVIOUS
  <2>1. Append(n.path, j)[Len(n.path) + 1] = j /\ Append(n.path, k)[Len(n.path) + 1] = k
    BY <1>1
  <2> QED
    BY <2>1
<1>3. \A k \in Nat : Append(n.path, k) \in Seq(Nat)
  BY <1>1
<1> QED
  BY <1>1, <1>2, <1>3 DEF Names, ReportNames, Suffixed

\* What the collision loop returns is free, and is the name it was given but
\* for the counter: the loop ends, whatever the directory holds.
LEMMA FreeNameIsFree ==
  ASSUME NEW n \in Names \cup ReportNames, NEW dir, IsFiniteSet(DOMAIN dir)
  PROVE  /\ FreeName(n, dir) \notin DOMAIN dir
         /\ n \in Names => FreeName(n, dir) \in Names /\ FreeName(n, dir).base = n.base
         /\ n \in ReportNames =>
              FreeName(n, dir) \in ReportNames /\ FreeName(n, dir).stem = n.stem
<1>1. CASE n \notin DOMAIN dir
  BY <1>1 DEF FreeName
<1>2. CASE n \in DOMAIN dir
  <2> DEFINE c == Cardinality(DOMAIN dir) + 1
             K == {k \in 1 .. c : Suffixed(n, k) \notin DOMAIN dir}
  <2>1. Cardinality(DOMAIN dir) \in Nat
    BY FS_CardinalityType
  <2>2. K # {}
    <3> SUFFICES ASSUME \A k \in 1 .. c : Suffixed(n, k) \in DOMAIN dir PROVE FALSE
      OBVIOUS
    <3> DEFINE f == [k \in 1 .. c |-> Suffixed(n, k)]
    <3>1. f \in [1 .. c -> DOMAIN dir]
      OBVIOUS
    <3>2. IsFiniteSet(1 .. c) /\ Cardinality(1 .. c) = c
      BY <2>1, FS_Interval
    <3> HIDE DEF f
    <3>3. PICK x, y \in 1 .. c : x # y /\ f[x] = f[y]
      BY <2>1, <3>1, <3>2, FS_PigeonHole
    <3>4. Suffixed(n, x) = Suffixed(n, y) /\ x \in Nat /\ y \in Nat
      BY <3>3, <2>1 DEF f
    <3> QED
      BY <3>3, <3>4, Counters
  <2>3. PICK k \in K : \A j \in K : k <= j
    <3>1. c \in Nat /\ K \in SUBSET (1 .. c)
      BY <2>1
    <3> HIDE DEF K, c
    <3> QED
      BY <3>1, <2>2, LeastCounter
  <2>4. /\ k \in 1 .. c
        /\ Suffixed(n, k) \notin DOMAIN dir
        /\ \A j \in 1 .. k - 1 : Suffixed(n, j) \in DOMAIN dir
    BY <2>1, <2>3
  <2> DEFINE first == CHOOSE i \in 1 .. c :
                        /\ Suffixed(n, i) \notin DOMAIN dir
                        /\ \A j \in 1 .. i - 1 : Suffixed(n, j) \in DOMAIN dir
  <2>5. first \in 1 .. c /\ Suffixed(n, first) \notin DOMAIN dir
    BY <2>4
  <2>6. FreeName(n, dir) = Suffixed(n, first)
    BY <1>2 DEF FreeName
  <2> HIDE DEF first
  <2>7. first \in Nat
    BY <2>1, <2>5
  <2> QED
    BY <2>5, <2>6, <2>7, Counters
<1> QED
  BY <1>1, <1>2

-----------------------------------------------------------------------------
(* Directories *)

\* Adding a file.
LEMMA AddedHeld ==
  ASSUME NEW dir, NEW n, NEW c, n \notin DOMAIN dir
  PROVE  Held(With(dir, n, c)) = Held(dir) \cup {c}
<1>1. DOMAIN With(dir, n, c) = DOMAIN dir \cup {n}
  BY DEF With
<1>2. With(dir, n, c)[n] = c /\ \A m \in DOMAIN dir : With(dir, n, c)[m] = dir[m]
  BY DEF With
<1> QED
  BY <1>1, <1>2 DEF Held

LEMMA AddedIsDirectory ==
  ASSUME NEW dir, NEW names, NEW n \in names, NEW c \in Contents,
         IsDirectory(dir, names), IsFiniteSet(DOMAIN dir)
  PROVE  IsDirectory(With(dir, n, c), names) /\ IsFiniteSet(DOMAIN With(dir, n, c))
<1>1. DOMAIN With(dir, n, c) = DOMAIN dir \cup {n}
  BY DEF With
<1>2. \A m \in DOMAIN With(dir, n, c) : With(dir, n, c)[m] \in Contents
  BY DEF With, IsDirectory
<1> QED
  BY <1>1, <1>2, FS_AddElement DEF IsDirectory

\* A report, or what is left of one, is added.
LEMMA AddedReport ==
  ASSUME NEW dir, NEW n \in ReportNames, NEW c \in Contents \cup {0},
         IsReportDirectory(dir), IsFiniteSet(DOMAIN dir)
  PROVE  IsReportDirectory(With(dir, n, c)) /\ IsFiniteSet(DOMAIN With(dir, n, c))
<1>1. DOMAIN With(dir, n, c) = DOMAIN dir \cup {n}
  BY DEF With
<1>2. \A m \in DOMAIN With(dir, n, c) : With(dir, n, c)[m] \in Contents \cup {0}
  BY DEF With, IsReportDirectory
<1> QED
  BY <1>1, <1>2, FS_AddElement DEF IsReportDirectory

\* No two names of a directory hold the same content.
Single(dir) == \A m, n \in DOMAIN dir : dir[m] = dir[n] => m = n

\* Taking a file away.
LEMMA RemovedHeld ==
  ASSUME NEW dir, NEW n \in DOMAIN dir, Single(dir)
  PROVE  Held(Without(dir, n)) = Held(dir) \ {dir[n]} /\ Single(Without(dir, n))
<1>1. DOMAIN Without(dir, n) = DOMAIN dir \ {n}
  BY DEF Without
<1>2. \A m \in DOMAIN dir \ {n} : Without(dir, n)[m] = dir[m]
  BY DEF Without
<1> QED
  BY <1>1, <1>2 DEF Single, Held

LEMMA RemovedIsDirectory ==
  ASSUME NEW dir, NEW names, NEW n, IsDirectory(dir, names), IsFiniteSet(DOMAIN dir)
  PROVE  IsDirectory(Without(dir, n), names) /\ IsFiniteSet(DOMAIN Without(dir, n))
<1>1. DOMAIN Without(dir, n) = DOMAIN dir \ {n}
  BY DEF Without
<1>2. \A m \in DOMAIN Without(dir, n) : Without(dir, n)[m] \in Contents
  BY DEF Without, IsDirectory
<1> QED
  BY <1>1, <1>2, FS_RemoveElement DEF IsDirectory

\* The empty directory.
LEMMA NothingThere ==
  /\ DOMAIN Empty = {} /\ IsFiniteSet({})
  /\ \A names : IsDirectory(Empty, names)
  /\ IsReportDirectory(Empty)
  /\ Held(Empty) = {} /\ Single(Empty)
  BY FS_EmptySet DEF Empty, IsDirectory, IsReportDirectory, Held, Single

-----------------------------------------------------------------------------
(* Type correctness *)

\* Every directory and every list of names is finite.
AllFinite ==
    /\ IsFiniteSet(DOMAIN incoming) /\ IsFiniteSet(DOMAIN processed)
    /\ IsFiniteSet(DOMAIN quarantine) /\ IsFiniteSet(DOMAIN reports)
    /\ IsFiniteSet(DOMAIN snapshot) /\ IsFiniteSet(DOMAIN pending)
    /\ IsFiniteSet(inFlight)

Analysing == {"analyze", "nameReport", "writeReport", "outputs", "nameProcessed", "move"}
Moving == {"move", "quarantine", "rescue"}

\* A thread that analyses has read its file, and the name it is about to use
\* is one its collision loop chose.
Prepared ==
    \A w \in Workers :
        /\ pc[w] \in Analysing => content[w] \in Contents
        /\ pc[w] = "writeReport" =>
             target[w] \in ReportNames /\ target[w].stem = ReportName(file[w]).stem
        /\ pc[w] \in Moving => target[w] \in Names /\ target[w].base = file[w].base

TypedInv == TypeOK /\ AllFinite /\ Prepared

\* What the constants are.
LEMMA Sizes ==
  /\ DropNames \subseteq Names /\ Idle \notin Names
  /\ MaxQueueDepth \in Nat /\ MaxQueueDepth > 0
  /\ MaxDrops \in Nat /\ MaxCrashes \in Nat /\ MaxStops \in Nat /\ MaxFailures \in Nat
  /\ \A n \in Names : n.base \in Bases /\ n.path \in Seq(Nat)
  /\ \A n \in Names : ReportName(n) \in ReportNames /\ ReportName(n).stem = Stem[n.base]
  /\ Contents \subseteq Nat /\ 0 \notin Contents
  BY NamesAssumption, SizesAssumption DEF Names, ReportNames, ReportName, Contents

\* Counting one more.
LEMMA OneMore ==
  ASSUME NEW S, NEW f \in [S -> Nat], NEW x \in S
  PROVE  [f EXCEPT ![x] = @ + 1] \in [S -> Nat]
  OBVIOUS

\* A service that has not started.
LEMMA InitTyped == Init => TypedInv
<1> SUFFICES ASSUME Init PROVE TypedInv
  OBVIOUS
<1>1. TypeOK
  <2>1. IsReportDirectory(Empty) /\ \A names : IsDirectory(Empty, names)
    BY NothingThere
  <2>2. /\ pc \in [Workers -> Locations] /\ file \in [Workers -> Names \cup {Idle}]
        /\ content \in [Workers -> Contents \cup {0}]
        /\ target \in [Workers -> Names \cup ReportNames \cup {Idle}]
        /\ \A w \in Workers : pc[w] = "idle" <=> file[w] = Idle
    BY DEF Init, Locations
  <2>3. /\ drops \in 0 .. MaxDrops /\ crashes \in 0 .. MaxCrashes /\ stops \in 0 .. MaxStops
        /\ moveFailures \in 0 .. MaxFailures /\ faults \in 0 .. MaxFailures /\ slots \in Int
    BY Sizes DEF Init
  <2>4. written \in [Contents -> Nat] /\ raced \subseteq Contents
    BY DEF Init
  <2>5. started \in BOOLEAN /\ stopping \in BOOLEAN
    BY Zenon DEF Init
  <2> QED
    BY <2>1, <2>2, <2>3, <2>4, <2>5 DEF Init, TypeOK
<1>2. AllFinite
  BY NothingThere DEF Init, AllFinite
<1>3. Prepared
  BY DEF Init, Prepared, Analysing, Moving
<1> QED
  BY <1>1, <1>2, <1>3 DEF TypedInv

\* The producers and the main loop keep the types.
LEMMA MainTyped ==
  ASSUME TypedInv, Drop \/ MainStep \/ Signal \/ Crash PROVE TypedInv'
<1> USE Sizes, NothingThere
    DEF TypedInv, TypeOK, AllFinite, Prepared, fs, main, thread, ghost, ForgetSnapshot
<1>1. CASE Drop
  <2>1. PICK n \in DropNames \ DOMAIN incoming : incoming' = With(incoming, n, drops + 1)
    BY <1>1 DEF Drop
  <2>2. drops + 1 \in Contents /\ drops' \in 0 .. MaxDrops
    BY <1>1 DEF Drop, Contents
  <2>3. IsDirectory(incoming', Names) /\ IsFiniteSet(DOMAIN incoming')
    BY <2>1, <2>2, AddedIsDirectory
  <2> QED
    BY <1>1, <2>2, <2>3 DEF Drop
<1>2. CASE Discover
  BY <1>2 DEF Discover
<1>3. CASE Backpressure
  BY <1>3, FS_CardinalityType DEF Backpressure
<1>4. CASE Submit
  <2> DEFINE free == DOMAIN snapshot \ inFlight
  <2>1. PICK batch \in SUBSET free :
          /\ inFlight' = inFlight \cup batch
          /\ pending' = [f \in DOMAIN pending \cup batch |->
                           IF f \in batch THEN snapshot[f] ELSE pending[f]]
          /\ \/ UNCHANGED <<leaked, faults>> /\ started' = (started \/ batch # {})
             \/ \E f \in batch : /\ MayFail /\ faults' = faults + 1
                                 /\ leaked' = leaked \cup {f}
                                 /\ started' = (started \/ batch # {f})
    BY <1>4 DEF Submit
  <2>2. IsFiniteSet(batch)
    BY FS_Subset
  <2>3. IsFiniteSet(inFlight') /\ IsFiniteSet(DOMAIN pending')
    BY <2>1, <2>2, FS_Union
  <2>4. IsDirectory(pending', Names) /\ inFlight' \subseteq Names
    BY <2>1 DEF IsDirectory
  <2>5. leaked' \subseteq Names /\ faults' \in 0 .. MaxFailures
    BY <2>1 DEF MayFail, IsDirectory
  <2>6. started' \in BOOLEAN
    BY <2>1
  <2>7. AllFinite' /\ Prepared'
    BY <1>4, <2>3, NothingThere DEF Submit
  <2>8. TypeOK'
    <3>1. /\ loop' = "poll" /\ slots' = 0 /\ IsDirectory(snapshot', Names)
          /\ UNCHANGED <<fs, stopping, concurrent, thread, drops, written, raced, crashes,
                         stops, moveFailures>>
      BY <1>4 DEF Submit
    <3>2. slots' \in Int /\ stopping' \in BOOLEAN
      BY <3>1
    <3>3. concurrent' \in Modes
      BY <3>1, Zenon
    <3> QED
      BY <2>4, <2>5, <2>6, <3>1, <3>2, <3>3
  <2> QED
    BY <2>7, <2>8
<1>5. CASE ServeList
  BY <1>5 DEF ServeList
<1>6. CASE ListServed \/ LeaveLoop \/ Stopped \/ Restart
  BY <1>6 DEF ListServed, LeaveLoop, Stopped, Restart
<1>7. CASE Signal
  BY <1>7 DEF Signal
<1>8. CASE Crash
  <2>1. /\ pc' \in [Workers -> Locations] /\ file' \in [Workers -> Names \cup {Idle}]
        /\ content' \in [Workers -> Contents \cup {0}]
        /\ target' \in [Workers -> Names \cup ReportNames \cup {Idle}]
        /\ \A w \in Workers : pc'[w] = "idle" /\ file'[w] = Idle
    BY <1>8 DEF Crash, Locations
  <2>2. crashes' \in 0 .. MaxCrashes
    BY <1>8 DEF Crash
  <2>3. Prepared'
    BY <2>1 DEF Analysing, Moving
  <2>4. AllFinite'
    BY <1>8 DEF Crash
  <2>5. TypeOK'
    <3>1. /\ IsDirectory(snapshot', Names) /\ IsDirectory(pending', Names)
          /\ UNCHANGED <<fs, concurrent, drops, written, raced, stops, moveFailures, faults>>
      BY <1>8 DEF Crash
    <3>2. /\ loop' = "poll" /\ slots' = 0 /\ inFlight' = {} /\ leaked' = {}
          /\ stopping' = FALSE /\ started' = FALSE
      BY <1>8 DEF Crash
    <3>3. \A v \in Workers : pc'[v] = "idle" <=> file'[v] = Idle
      BY <2>1
    <3>4. /\ IsDirectory(incoming', Names) /\ IsDirectory(processed', Names)
          /\ IsDirectory(quarantine', Names) /\ IsReportDirectory(reports')
          /\ written' \in [Contents -> Nat] /\ raced' \subseteq Contents
          /\ drops' \in 0 .. MaxDrops /\ stops' \in 0 .. MaxStops
          /\ moveFailures' \in 0 .. MaxFailures /\ faults' \in 0 .. MaxFailures
      BY <3>1
    <3>5. /\ loop' \in {"poll", "slots", "submit", "serve", "drain", "stopped"}
          /\ slots' \in Int /\ inFlight' \subseteq Names /\ leaked' \subseteq Names
      BY <3>2
    <3>6. stopping' \in BOOLEAN /\ started' \in BOOLEAN
      BY <3>2, Zenon
    <3>7. concurrent' \in Modes
      BY <3>1, Zenon
    <3> QED
      BY <2>1, <2>2, <3>1, <3>3, <3>4, <3>5, <3>6, <3>7
  <2> QED
    BY <2>3, <2>4, <2>5
<1> QED
  BY <1>1, <1>2, <1>3, <1>4, <1>5, <1>6, <1>7, <1>8 DEF MainStep

\* A thread keeps the types.
LEMMA ThreadTyped ==
  ASSUME TypedInv, NEW w \in Workers, Take(w) \/ Process(w) PROVE TypedInv'
<1> USE Sizes
    DEF TypedInv, TypeOK, AllFinite, Prepared, fs, main, thread, ghost, Goto, Aim, Locations,
        Analysing, Moving
<1>1. CASE Take(w)
  <2>1. PICK f \in DOMAIN pending : file' = [file EXCEPT ![w] = f] /\ pending' = Without(pending, f)
    BY <1>1 DEF Take
  <2>2. IsDirectory(pending', Names) /\ IsFiniteSet(DOMAIN pending') /\ f \in Names
    BY <2>1, RemovedIsDirectory DEF IsDirectory
  <2> QED
    BY <1>1, <2>1, <2>2 DEF Take
<1>2. CASE Read(w)
  <2>1. file[w] \in DOMAIN incoming => incoming[file[w]] \in Contents
    BY DEF IsDirectory
  <2>2. /\ content' \in [Workers -> Contents \cup {0}]
        /\ \A v \in Workers : pc'[v] \in Analysing => content'[v] \in Contents
    BY <1>2, <2>1 DEF Read
  <2>3. UNCHANGED <<fs, main, file, target, ghost>>
    BY <1>2 DEF Read
  <2>4. /\ pc[w] = "read" /\ pc' = [pc EXCEPT ![w] = pc'[w]]
        /\ pc'[w] \in {"analyze", "nameQuarantine", "nameRescue"}
    BY <1>2 DEF Read
  <2> QED
    BY <2>2, <2>3, <2>4
<1>3. CASE Analyze(w)
  BY <1>3 DEF Analyze
<1>4. CASE NameReport(w)
  <2>1. ReportName(file[w]) \in ReportNames
    BY <1>4 DEF NameReport
  <2>2. target'[w] \in ReportNames /\ target'[w].stem = ReportName(file[w]).stem
    BY <1>4, <2>1, FreeNameIsFree DEF NameReport
  <2> QED
    BY <1>4, <2>2 DEF NameReport
<1>5. CASE WriteReport(w)
  <2>1. target[w] \in ReportNames /\ content[w] \in Contents
    BY <1>5 DEF WriteReport
  <2>2. \/ /\ reports' = With(reports, target[w], content[w]) /\ pc'[w] = "outputs"
           /\ written' = [written EXCEPT ![content[w]] = @ + 1]
           /\ raced' \subseteq raced \cup {content[w]} /\ UNCHANGED faults
        \/ /\ MayFail /\ faults' = faults + 1 /\ pc'[w] = "nameRescue"
           /\ reports' = reports \/ reports' = With(reports, target[w], 0)
           /\ UNCHANGED <<written, raced>>
    BY <1>5 DEF WriteReport
  <2>3. IsReportDirectory(reports') /\ IsFiniteSet(DOMAIN reports')
    <3>1. \A c \in Contents \cup {0} :
            /\ IsReportDirectory(With(reports, target[w], c))
            /\ IsFiniteSet(DOMAIN With(reports, target[w], c))
      BY <2>1, AddedReport
    <3>2. \/ reports' = reports
          \/ \E c \in Contents \cup {0} : reports' = With(reports, target[w], c)
      BY <2>1, <2>2
    <3> QED
      BY <3>1, <3>2
  <2>4. written' \in [Contents -> Nat]
    BY <2>1, <2>2, OneMore
  <2>5. raced' \subseteq Contents /\ faults' \in 0 .. MaxFailures
    <3>1. raced' \subseteq Contents
      BY <2>1, <2>2
    <3>2. faults' \in 0 .. MaxFailures
      BY <2>2 DEF MayFail
    <3> QED
      BY <3>1, <3>2
  <2>6. /\ UNCHANGED <<incoming, processed, quarantine, main, file, content, target, drops,
                       crashes, stops, moveFailures>>
        /\ pc' = [pc EXCEPT ![w] = pc'[w]] /\ pc[w] = "writeReport"
        /\ pc'[w] \in {"outputs", "nameRescue"}
    BY <1>5 DEF WriteReport
  <2>7. AllFinite' /\ Prepared'
    BY <2>1, <2>3, <2>6
  <2>8. TypeOK'
    BY <2>3, <2>4, <2>5, <2>6
  <2> QED
    BY <2>7, <2>8
<1>6. CASE Outputs(w)
  BY <1>6 DEF Outputs
<1>7. CASE NameProcessed(w)
  <2>1. target'[w] \in Names /\ target'[w].base = file[w].base
    BY <1>7, FreeNameIsFree DEF NameProcessed
  <2> QED
    BY <1>7, <2>1 DEF NameProcessed
<1>8. CASE Move(w)
  <2>1. /\ IsDirectory(processed', Names) /\ IsFiniteSet(DOMAIN processed')
        /\ IsDirectory(incoming', Names) /\ IsFiniteSet(DOMAIN incoming')
    <3>1. CASE UNCHANGED <<incoming, processed>>
      BY <3>1
    <3>2. CASE /\ file[w] \in DOMAIN incoming
               /\ processed' = With(processed, target[w], incoming[file[w]])
               /\ incoming' = Without(incoming, file[w])
      <4>1. target[w] \in Names /\ incoming[file[w]] \in Contents
        BY <1>8, <3>2 DEF Move, IsDirectory
      <4> QED
        BY <3>2, <4>1, AddedIsDirectory, RemovedIsDirectory
    <3> QED
      BY <1>8, <3>1, <3>2 DEF Move
  <2>2. moveFailures' \in 0 .. MaxFailures /\ pc' \in [Workers -> Locations]
        /\ pc'[w] \in {"finish", "nameRescue"} /\ \A v \in Workers \ {w} : pc'[v] = pc[v]
    BY <1>8 DEF Move, MayFail
  <2>3. UNCHANGED <<quarantine, reports, main, file, content, target, drops, written, raced, crashes,
                    stops, faults>>
    BY <1>8 DEF Move
  <2>4. pc[w] = "move" /\ UNCHANGED main
    BY <1>8 DEF Move
  <2>5. AllFinite'
    BY <2>1, <2>3, <2>4
  <2>6. Prepared'
    BY <2>2, <2>3
  <2>7. TypeOK'
    BY <2>1, <2>2, <2>3, <2>4
  <2> QED
    BY <2>5, <2>6, <2>7
<1>9. ASSUME NEW from, NEW to \in {"quarantine", "rescue"}, from \in {"nameQuarantine", "nameRescue"},
             NameQuarantine(w, from, to)
      PROVE  TypedInv'
  <2>1. target'[w] \in Names /\ target'[w].base = file[w].base
    BY <1>9, FreeNameIsFree DEF NameQuarantine
  <2> QED
    BY <1>9, <2>1 DEF NameQuarantine
<1>10. ASSUME NEW from \in {"quarantine", "rescue"}, NEW failed \in {"nameRescue", "finish"},
              Quarantine(w, from, failed)
       PROVE  TypedInv'
  <2>1. /\ IsDirectory(quarantine', Names) /\ IsFiniteSet(DOMAIN quarantine')
        /\ IsDirectory(incoming', Names) /\ IsFiniteSet(DOMAIN incoming')
    <3>1. CASE UNCHANGED <<incoming, quarantine>>
      BY <3>1
    <3>2. CASE /\ file[w] \in DOMAIN incoming
               /\ quarantine' = With(quarantine, target[w], incoming[file[w]])
               /\ incoming' = Without(incoming, file[w])
      <4>1. target[w] \in Names /\ incoming[file[w]] \in Contents
        BY <1>10, <3>2 DEF Quarantine, IsDirectory
      <4> QED
        BY <3>2, <4>1, AddedIsDirectory, RemovedIsDirectory
    <3> QED
      BY <1>10, <3>1, <3>2 DEF Quarantine
  <2> QED
    BY <1>10, <2>1 DEF Quarantine, MayFail
<1>11. CASE Finish(w)
  <2>1. IsFiniteSet(inFlight')
    BY <1>11, FS_RemoveElement DEF Finish
  <2> QED
    BY <1>11, <2>1 DEF Finish
<1> QED
  BY <1>1, <1>2, <1>3, <1>4, <1>5, <1>6, <1>7, <1>8, <1>9, <1>10, <1>11 DEF Process

\* Every step keeps the types.
LEMMA TypeStep ==
  TypedInv /\ [Next]_vars => TypedInv'
<1> SUFFICES ASSUME TypedInv, [Next]_vars PROVE TypedInv'
  OBVIOUS
<1>1. CASE UNCHANGED vars
  BY <1>1 DEF vars, fs, main, thread, ghost, TypedInv, TypeOK, AllFinite, Prepared
<1>2. CASE Next
  BY <1>2, MainTyped, ThreadTyped DEF Next
<1> QED
  BY <1>1, <1>2

\* Directories hold names with contents, and threads hold names, for every
\* number of threads, names and failures.
THEOREM TypeCorrect == Spec => []TypeOK
<1>1. Spec => []TypedInv
  BY InitTyped, TypeStep, PTL DEF Spec
<1>2. TypedInv => TypeOK
  BY DEF TypedInv
<1> QED
  BY <1>1, <1>2, PTL

-----------------------------------------------------------------------------
(* Jobs *)

\* in_flight is exact, and what Backpressure left room for still has room when
\* it is submitted: jobs end in between, but none is added.
JobsInv ==
    /\ InFlightExact
    /\ concurrent /\ loop = "submit" => Cardinality(inFlight) + slots <= MaxQueueDepth
    /\ loop = "serve" => ~concurrent
    /\ concurrent \in Modes

\* Two threads never work on the same name.
LEMMA JobsDiffer ==
  ASSUME JobsInv, NEW v \in Workers, NEW w \in Workers,
         pc[v] # "idle", pc[w] # "idle", file[v] = file[w]
  PROVE  v = w
  BY SizesAssumption DEF JobsInv, InFlightExact, Busy

\* The service stays in its mode.
LEMMA ModeStays ==
  ASSUME [Next]_vars PROVE UNCHANGED concurrent
<1> USE DEF main
<1>1. CASE UNCHANGED vars
  BY <1>1 DEF vars
<1>2. CASE Drop \/ MainStep \/ Signal \/ Crash
  BY <1>2 DEF Drop, MainStep, Discover, Backpressure, Submit, ServeList, ListServed, LeaveLoop,
       Stopped, Restart, Signal, Crash
<1>3. ASSUME NEW w \in Workers, Take(w) \/ Process(w) PROVE UNCHANGED concurrent
  BY <1>3 DEF Take, Process, Read, Analyze, NameReport, WriteReport, Outputs, NameProcessed,
       Move, NameQuarantine, Quarantine, Finish
<1> QED
  BY <1>1, <1>2, <1>3 DEF Next

\* The main loop keeps its account of the jobs.
LEMMA MainJobs ==
  ASSUME TypedInv, JobsInv, UNCHANGED concurrent, Drop \/ MainStep \/ Signal \/ Crash
  PROVE  JobsInv'
<1> USE Sizes DEF JobsInv, InFlightExact, Busy, fs, main, thread, ghost, ForgetSnapshot
<1>1. CASE Drop
  BY <1>1 DEF Drop
<1>2. CASE Discover
  BY <1>2 DEF Discover
<1>3. CASE Backpressure
  <2>1. Cardinality(inFlight) \in Nat
    BY FS_CardinalityType DEF TypedInv, AllFinite
  <2> QED
    BY <1>3, <2>1 DEF Backpressure
<1>4. CASE Submit
  <2> DEFINE free == DOMAIN snapshot \ inFlight
  <2>1. PICK batch \in SUBSET free :
          /\ Cardinality(batch) <= slots
          /\ inFlight' = inFlight \cup batch
          /\ pending' = [f \in DOMAIN pending \cup batch |->
                           IF f \in batch THEN snapshot[f] ELSE pending[f]]
          /\ leaked' = leaked \/ \E f \in batch : leaked' = leaked \cup {f}
    BY <1>4 DEF Submit
  <2>2. IsFiniteSet(batch) /\ IsFiniteSet(inFlight)
    BY FS_Subset DEF TypedInv, AllFinite
  <2>3. /\ Cardinality(inFlight') = Cardinality(inFlight) + Cardinality(batch) - Cardinality({})
        /\ Cardinality({}) = 0
    <3>1. inFlight \cap batch = {}
      OBVIOUS
    <3> QED
      BY <2>1, <2>2, <3>1, FS_Union, FS_EmptySet
  <2>4. Cardinality(inFlight) \in Nat /\ Cardinality(batch) \in Nat /\ slots \in Int
    BY <2>2, FS_CardinalityType DEF TypedInv, TypeOK
  <2>5. Cardinality(inFlight') <= MaxQueueDepth
    BY <1>4, <2>1, <2>3, <2>4 DEF Submit
  <2>6. DOMAIN pending' = DOMAIN pending \cup batch /\ UNCHANGED <<pc, file>> /\ loop' = "poll"
    BY <1>4, <2>1 DEF Submit
  <2>7. concurrent /\ inFlight = DOMAIN pending \cup {file[w] : w \in Busy} \cup leaked
    BY <1>4 DEF Submit
  <2>8. inFlight' = DOMAIN pending' \cup {file'[w] : w \in Busy'} \cup leaked'
    <3>1. {file'[w] : w \in Busy'} = {file[w] : w \in Busy}
      BY <2>6
    <3> QED
      BY <2>1, <2>6, <2>7, <3>1
  <2>9. \A w \in Busy' : file'[w] \notin DOMAIN pending'
    BY <2>1, <2>6, <2>7
  <2> QED
    BY <2>5, <2>6, <2>7, <2>8, <2>9
<1>5. CASE ServeList
  BY <1>5 DEF ServeList
<1>6. CASE ListServed
  BY <1>6 DEF ListServed
<1>7. CASE LeaveLoop \/ Restart
  BY <1>7 DEF LeaveLoop, Restart
<1>10. CASE Stopped
  <2>1. /\ Busy' = {} /\ DOMAIN pending' = {} /\ inFlight' = {} /\ leaked' = {}
        /\ loop' = "stopped"
    BY <1>10, NothingThere DEF Stopped
  <2>2. Cardinality(inFlight') = 0
    BY <2>1, FS_EmptySet
  <2> QED
    BY <2>1, <2>2
<1>8. CASE Signal
  BY <1>8 DEF Signal
<1>9. CASE Crash
  <2>1. /\ Busy' = {} /\ DOMAIN pending' = {} /\ inFlight' = {} /\ leaked' = {}
        /\ loop' = "poll"
    BY <1>9, NothingThere DEF Crash, TypedInv, TypeOK
  <2>2. Cardinality(inFlight') = 0
    BY <2>1, FS_EmptySet
  <2> QED
    BY <2>1, <2>2
<1> QED
  BY <1>1, <1>2, <1>3, <1>4, <1>5, <1>6, <1>7, <1>8, <1>9, <1>10 DEF MainStep

\* A thread takes its job out of the queue and drops it from in_flight at its
\* end; in between it stays on the same name.
LEMMA ThreadJobs ==
  ASSUME TypedInv, JobsInv, UNCHANGED concurrent, NEW w \in Workers, Take(w) \/ Process(w)
  PROVE  JobsInv'
<1> USE DEF JobsInv, InFlightExact, Busy, fs, main, thread, ghost, Goto, Aim
<1>1. CASE Take(w)
  <2>1. PICK f \in DOMAIN pending : file' = [file EXCEPT ![w] = f] /\ pending' = Without(pending, f)
    BY <1>1 DEF Take
  <2>2. DOMAIN pending' = DOMAIN pending \ {f}
    BY <2>1 DEF Without
  <2>3. Busy' = Busy \cup {w} /\ w \notin Busy /\ file'[w] = f /\ w \in Workers
        /\ \A v \in Workers \ {w} : file'[v] = file[v]
    BY <1>1, <2>1 DEF Take, TypedInv, TypeOK
  <2>4. UNCHANGED <<inFlight, leaked, loop, slots>>
    BY <1>1 DEF Take
  <2> HIDE DEF Busy
  <2>5. Busy \subseteq Workers
    BY DEF Busy
  <2>6. concurrent => inFlight' = DOMAIN pending' \cup {file'[v] : v \in Busy'} \cup leaked'
    BY <2>2, <2>3, <2>4, <2>5
  <2>7. concurrent => /\ \A v \in Busy' : file'[v] \notin DOMAIN pending'
                      /\ \A u, v \in Busy' : file'[u] = file'[v] => u = v
    BY <2>2, <2>3, <2>5
  <2> QED
    BY <2>4, <2>6, <2>7
<1>2. CASE Finish(w)
  <2>1. Busy' = Busy \ {w} /\ w \in Busy /\ \A v \in Workers \ {w} : file'[v] = file[v]
    BY <1>2 DEF Finish, TypedInv, TypeOK
  <2>2. /\ inFlight' = inFlight \ ({file[w]} \ leaked)
        /\ UNCHANGED <<pending, leaked, loop, slots>>
    BY <1>2 DEF Finish
  <2>3. IsFiniteSet(inFlight)
    BY DEF TypedInv, AllFinite
  <2>4. Cardinality(inFlight') <= Cardinality(inFlight)
        /\ Cardinality(inFlight) \in Nat /\ Cardinality(inFlight') \in Nat
    <3>1. IsFiniteSet(inFlight') /\ inFlight' \in SUBSET inFlight
      BY <2>2, <2>3, FS_Subset
    <3> QED
      BY <2>3, <3>1, FS_Subset, FS_CardinalityType
  <2>5. slots \in Int /\ MaxQueueDepth \in Nat
    BY Sizes DEF TypedInv, TypeOK
  <2> HIDE DEF Busy
  <2>6. Busy \subseteq Workers
    BY DEF Busy
  <2>7. concurrent => inFlight' = DOMAIN pending' \cup {file'[v] : v \in Busy'} \cup leaked'
    BY <2>1, <2>2, <2>6
  <2>8. concurrent => /\ \A v \in Busy' : file'[v] \notin DOMAIN pending'
                      /\ \A u, v \in Busy' : file'[u] = file'[v] => u = v
    BY <2>1, <2>2, <2>6
  <2>9. (concurrent => Cardinality(inFlight') <= MaxQueueDepth)
        /\ (concurrent /\ loop' = "submit" => Cardinality(inFlight') + slots' <= MaxQueueDepth)
    BY <2>2, <2>4, <2>5
  <2> QED
    BY <2>2, <2>7, <2>8, <2>9
<1>3. ASSUME pc[w] # "idle", pc' = [pc EXCEPT ![w] = pc'[w]], pc'[w] # "idle",
             UNCHANGED <<inFlight, leaked, pending, loop, slots, file>>
      PROVE  JobsInv'
  <2>1. Busy' = Busy
    BY <1>3 DEF TypedInv, TypeOK
  <2> QED
    BY <1>3, <2>1
<1>4. CASE Process(w) /\ ~Finish(w)
  <2>1. /\ pc[w] # "idle" /\ pc' = [pc EXCEPT ![w] = pc'[w]] /\ pc'[w] # "idle"
        /\ UNCHANGED <<inFlight, leaked, pending, loop, slots, file>>
    BY <1>4 DEF Process, Read, Analyze, NameReport, WriteReport, Outputs, NameProcessed, Move,
                NameQuarantine, Quarantine, TypedInv, TypeOK
  <2> QED
    BY <1>3, <2>1
<1> QED
  BY <1>1, <1>2, <1>4

\* Every step keeps the account of the jobs.
LEMMA JobsStep ==
  TypedInv /\ JobsInv /\ [Next]_vars => JobsInv'
<1> SUFFICES ASSUME TypedInv, JobsInv, [Next]_vars PROVE JobsInv'
  OBVIOUS
<1>1. CASE UNCHANGED vars
  BY <1>1 DEF vars, fs, main, thread, ghost, JobsInv, InFlightExact, Busy
<1>2. CASE Next
  BY <1>2, MainJobs, ThreadJobs, ModeStays DEF Next
<1> QED
  BY <1>1, <1>2

\* A service that has not started has no jobs.
LEMMA InitJobs == Init => JobsInv
<1> SUFFICES ASSUME Init PROVE JobsInv
  OBVIOUS
<1>1. Busy = {} /\ DOMAIN pending = {} /\ inFlight = {} /\ leaked = {} /\ loop = "poll"
  BY NothingThere DEF Init, Busy
<1>2. Cardinality(inFlight) = 0
  BY <1>1, FS_EmptySet
<1> QED
  BY <1>1, <1>2, Sizes DEF JobsInv, InFlightExact, Init

\* Jobs and in_flight agree at every moment, stale snapshots and crashes
\* included, and MAX_QUEUE_DEPTH is never exceeded.
THEOREM InFlightIsExact == Spec => []InFlightExact
<1>1. Init => TypedInv /\ JobsInv
  BY InitTyped, InitJobs
<1>2. TypedInv /\ JobsInv /\ [Next]_vars => TypedInv' /\ JobsInv'
  BY TypeStep, JobsStep
<1>3. JobsInv => InFlightExact
  BY DEF JobsInv
<1> QED
  BY <1>1, <1>2, <1>3, PTL DEF Spec

-----------------------------------------------------------------------------
(* Who holds which input *)

\* Only names that producers use are ever worked on.
Dropped ==
    /\ DOMAIN incoming \subseteq DropNames
    /\ DOMAIN snapshot \subseteq DropNames
    /\ DOMAIN pending \subseteq DropNames
    /\ \A w \in Workers : pc[w] # "idle" => file[w] \in DropNames

\* What a thread has read is what its name denotes until it has moved the file.
Holding ==
    /\ Single(incoming)
    /\ Held(incoming) \cup Held(processed) \cup Held(quarantine) \subseteq 1 .. drops
    /\ \A d \in Contents : written[d] > 0 => d <= drops
    /\ \A w \in Workers :
        /\ content[w] \in 0 .. drops
        /\ pc[w] \in {"idle", "read"} => content[w] = 0
        /\ content[w] # 0 /\ pc[w] # "finish" =>
             file[w] \in DOMAIN incoming /\ incoming[file[w]] = content[w]

InputsInv == Dropped /\ Holding

\* Adding a file, whether it replaces one or not, adds its content at most.
LEMMA AddsAtMost ==
  ASSUME NEW dir, NEW n, NEW c
  PROVE  Held(With(dir, n, c)) \subseteq Held(dir) \cup {c} /\ c \in Held(With(dir, n, c))
<1>1. /\ DOMAIN With(dir, n, c) = DOMAIN dir \cup {n}
      /\ With(dir, n, c)[n] = c
      /\ \A m \in DOMAIN dir \ {n} : With(dir, n, c)[m] = dir[m]
  BY DEF With
<1> QED
  BY <1>1 DEF Held

\* Threads with a file and their contents do not notice a new file.
LEMMA DropInputs ==
  ASSUME TypedInv, InputsInv, Drop PROVE InputsInv'
<1>1. PICK n \in DropNames \ DOMAIN incoming : incoming' = With(incoming, n, drops + 1)
  BY DEF Drop
<1>2. /\ drops' = drops + 1 /\ drops \in Nat /\ drops < MaxDrops /\ MaxDrops \in Nat
      /\ UNCHANGED <<processed, quarantine, snapshot, pending, pc, file, content, written>>
  BY Sizes DEF Drop, TypedInv, TypeOK, main, thread
<1>3. /\ DOMAIN incoming' = DOMAIN incoming \cup {n} /\ incoming'[n] = drops + 1
      /\ \A m \in DOMAIN incoming : incoming'[m] = incoming[m]
      /\ Held(incoming') = Held(incoming) \cup {drops + 1}
  <2>1. n \notin DOMAIN incoming
    OBVIOUS
  <2>2. /\ DOMAIN With(incoming, n, drops + 1) = DOMAIN incoming \cup {n}
        /\ With(incoming, n, drops + 1)[n] = drops + 1
        /\ \A m \in DOMAIN incoming \ {n} : With(incoming, n, drops + 1)[m] = incoming[m]
        /\ Held(With(incoming, n, drops + 1)) = Held(incoming) \cup {drops + 1}
    <3>1. Held(With(incoming, n, drops + 1)) = Held(incoming) \cup {drops + 1}
      BY <2>1, AddedHeld
    <3> QED
      BY <3>1 DEF With
  <2> QED
    BY <1>1, <2>1, <2>2
<1>4. \A m \in DOMAIN incoming : incoming[m] \in 1 .. drops
  BY DEF InputsInv, Holding, Held
<1>5. Single(incoming')
  BY <1>2, <1>3, <1>4 DEF InputsInv, Holding, Single
<1>6. Dropped'
  BY <1>2, <1>3 DEF InputsInv, Dropped
<1>7. Held(incoming') \cup Held(processed') \cup Held(quarantine') \subseteq 1 .. drops'
  BY <1>2, <1>3 DEF InputsInv, Holding, Held
<1>8. \A d \in Contents : written'[d] > 0 => d <= drops'
  BY <1>2, Sizes DEF InputsInv, Holding
<1>9. ASSUME NEW w \in Workers
      PROVE  /\ content'[w] \in 0 .. drops'
             /\ pc'[w] \in {"idle", "read"} => content'[w] = 0
             /\ content'[w] # 0 /\ pc'[w] # "finish" =>
                  file'[w] \in DOMAIN incoming' /\ incoming'[file'[w]] = content'[w]
  BY <1>2, <1>3 DEF InputsInv, Holding
<1> QED
  BY <1>5, <1>6, <1>7, <1>8, <1>9 DEF InputsInv, Holding

\* The main loop hands out names it found in INCOMING_DIR; a crash forgets
\* what was being done and touches no file.
LEMMA MainInputs ==
  ASSUME TypedInv, InputsInv, MainStep \/ Signal \/ Crash PROVE InputsInv'
<1> USE DEF fs, main, thread, ghost, ForgetSnapshot
<1>1. UNCHANGED <<incoming, processed, quarantine, written, drops>>
  BY DEF MainStep, Discover, Backpressure, Submit, ServeList, ListServed, LeaveLoop, Stopped,
         Restart, Signal, Crash
<1>2. DOMAIN snapshot' \subseteq DropNames /\ DOMAIN pending' \subseteq DropNames
  <2>1. CASE Submit
    BY <2>1, NothingThere DEF Submit, InputsInv, Dropped
  <2>2. CASE (MainStep /\ ~Submit) \/ Signal \/ Crash
    BY <2>2, NothingThere DEF MainStep, Discover, Backpressure, ServeList, ListServed, LeaveLoop,
         Stopped, Restart, Signal, Crash, InputsInv, Dropped
  <2> QED
    BY <2>1, <2>2
<1>3. UNCHANGED <<pc, file, content>>
      \/ \A w \in Workers : pc'[w] = "idle" /\ content'[w] = 0
  BY DEF MainStep, Discover, Backpressure, Submit, ServeList, ListServed, LeaveLoop, Stopped,
         Restart, Signal, Crash
<1>4. Dropped'
  BY <1>1, <1>2, <1>3 DEF InputsInv, Dropped
<1>5. drops \in Nat
  BY Sizes DEF TypedInv, TypeOK
<1>6. Holding'
  BY <1>1, <1>3, <1>5 DEF InputsInv, Holding, Single, Held
<1> QED
  BY <1>4, <1>6 DEF InputsInv

\* Moving a file away from INCOMING_DIR disturbs nobody but its own thread.
LEMMA MovedInputs ==
  ASSUME TypedInv, JobsInv, InputsInv, NEW w \in Workers,
         pc[w] \notin {"idle", "read", "finish"}, pc' = [pc EXCEPT ![w] = "finish"],
         file[w] \in DOMAIN incoming, incoming' = Without(incoming, file[w]),
         Held(processed') \cup Held(quarantine')
            \subseteq Held(processed) \cup Held(quarantine) \cup {incoming[file[w]]},
         UNCHANGED <<snapshot, pending, file, content, written, drops>>
  PROVE  InputsInv'
<1>1. /\ DOMAIN incoming' = DOMAIN incoming \ {file[w]}
      /\ \A m \in DOMAIN incoming \ {file[w]} : incoming'[m] = incoming[m]
      /\ Single(incoming')
      /\ Held(incoming') = Held(incoming) \ {incoming[file[w]]}
  <2>1. Single(incoming') /\ Held(incoming') = Held(incoming) \ {incoming[file[w]]}
    BY RemovedHeld DEF InputsInv, Holding
  <2>2. /\ DOMAIN incoming' = DOMAIN incoming \ {file[w]}
        /\ \A m \in DOMAIN incoming \ {file[w]} : incoming'[m] = incoming[m]
    BY DEF Without
  <2> QED
    BY <2>1, <2>2
<1>2. \A v \in Workers : pc'[v] = IF v = w THEN "finish" ELSE pc[v]
  BY DEF TypedInv, TypeOK
<1>3. Dropped'
  BY <1>1, <1>2 DEF InputsInv, Dropped
<1>4. incoming[file[w]] \in Held(incoming)
  BY DEF Held
<1>5. Held(incoming') \cup Held(processed') \cup Held(quarantine') \subseteq 1 .. drops'
  BY <1>1, <1>4 DEF InputsInv, Holding
<1>6. ASSUME NEW v \in Workers
      PROVE  /\ content'[v] \in 0 .. drops'
             /\ pc'[v] \in {"idle", "read"} => content'[v] = 0
             /\ content'[v] # 0 /\ pc'[v] # "finish" =>
                  file'[v] \in DOMAIN incoming' /\ incoming'[file'[v]] = content'[v]
  <2>1. CASE v = w
    BY <1>2, <2>1 DEF InputsInv, Holding
  <2>2. CASE v # w
    <3>1. content'[v] \in 0 .. drops' /\ (pc'[v] \in {"idle", "read"} => content'[v] = 0)
      BY <1>2, <2>2 DEF InputsInv, Holding
    <3>2. ASSUME content'[v] # 0, pc'[v] # "finish"
          PROVE  file'[v] \in DOMAIN incoming' /\ incoming'[file'[v]] = content'[v]
      <4>1. /\ pc[v] # "idle" /\ file[v] \in DOMAIN incoming /\ incoming[file[v]] = content[v]
        BY <1>2, <2>2, <3>2 DEF InputsInv, Holding
      <4>2. file[v] # file[w]
        BY <2>2, <4>1, JobsDiffer
      <4> QED
        BY <1>1, <4>1, <4>2
    <3> QED
      BY <3>1, <3>2
  <2> QED
    BY <2>1, <2>2
<1> QED
  BY <1>1, <1>3, <1>5, <1>6 DEF InputsInv, Holding

\* A thread reads what its name denotes, keeps it while it works, and moves
\* exactly that.
LEMMA ThreadInputs ==
  ASSUME TypedInv, JobsInv, InputsInv, NEW w \in Workers, Take(w) \/ Process(w)
  PROVE  InputsInv'
<1> USE DEF fs, main, thread, ghost, Goto, Aim
<1>0. /\ pc \in [Workers -> Locations] /\ content \in [Workers -> Contents \cup {0}]
      /\ file \in [Workers -> Names \cup {Idle}] /\ drops \in Nat
  BY Sizes DEF TypedInv, TypeOK
<1>1. CASE Take(w)
  <2>1. PICK f \in DOMAIN pending : file' = [file EXCEPT ![w] = f] /\ pending' = Without(pending, f)
    BY <1>1 DEF Take
  <2>2. DOMAIN pending' = DOMAIN pending \ {f}
    BY <2>1 DEF Without
  <2>3. /\ UNCHANGED <<incoming, processed, quarantine, snapshot, content, written, drops>>
        /\ pc[w] = "idle" /\ pc'[w] = "read" /\ file'[w] = f
        /\ \A v \in Workers \ {w} : pc'[v] = pc[v] /\ file'[v] = file[v]
    BY <1>0, <1>1, <2>1 DEF Take
  <2> QED
    BY <2>2, <2>3 DEF InputsInv, Dropped, Holding, Single, Held
<1>2. CASE Read(w)
  <2>1. /\ UNCHANGED <<incoming, processed, quarantine, snapshot, pending, file, written, drops>>
        /\ pc[w] = "read" /\ pc'[w] \in {"analyze", "nameQuarantine", "nameRescue"}
        /\ \A v \in Workers \ {w} : pc'[v] = pc[v] /\ content'[v] = content[v]
        /\ \/ file[w] \in DOMAIN incoming /\ content'[w] = incoming[file[w]]
           \/ content'[w] = content[w]
    BY <1>0, <1>2 DEF Read
  <2>2. \A n \in DOMAIN incoming : incoming[n] \in 1 .. drops
    BY DEF InputsInv, Holding, Held
  <2>3. Dropped'
    BY <2>1 DEF InputsInv, Dropped
  <2>4. Single(incoming') /\ Held(incoming') \cup Held(processed') \cup Held(quarantine') \subseteq 1 .. drops'
        /\ \A d \in Contents : written'[d] > 0 => d <= drops'
    BY <2>1 DEF InputsInv, Holding, Single, Held
  <2>5. ASSUME NEW v \in Workers
        PROVE  /\ content'[v] \in 0 .. drops'
               /\ pc'[v] \in {"idle", "read"} => content'[v] = 0
               /\ content'[v] # 0 /\ pc'[v] # "finish" =>
                    file'[v] \in DOMAIN incoming' /\ incoming'[file'[v]] = content'[v]
    BY <1>0, <2>1, <2>2 DEF InputsInv, Holding
  <2> QED
    BY <2>3, <2>4, <2>5 DEF InputsInv, Holding
<1>3. ASSUME /\ UNCHANGED <<incoming, snapshot, pending, file, content, drops>>
             /\ Held(processed') = Held(processed) /\ Held(quarantine') = Held(quarantine)
             /\ \A d \in Contents : written'[d] > 0 => d <= drops
             /\ pc[w] \notin {"idle", "read", "finish"}
             /\ pc'[w] \notin {"idle", "read"}
             /\ \A v \in Workers \ {w} : pc'[v] = pc[v]
      PROVE  InputsInv'
  BY <1>3 DEF InputsInv, Dropped, Holding, Single, Held
<1>4. CASE Analyze(w) \/ NameReport(w) \/ Outputs(w) \/ NameProcessed(w)
             \/ NameQuarantine(w, "nameQuarantine", "quarantine")
             \/ NameQuarantine(w, "nameRescue", "rescue")
  <2>1. /\ UNCHANGED <<incoming, processed, quarantine, snapshot, pending, file, content, written, drops>>
        /\ pc[w] \notin {"idle", "read", "finish"}
        /\ pc'[w] \notin {"idle", "read"}
        /\ \A v \in Workers \ {w} : pc'[v] = pc[v]
    BY <1>0, <1>4 DEF Analyze, NameReport, Outputs, NameProcessed, NameQuarantine
  <2> QED
    BY <1>3, <2>1 DEF InputsInv, Holding
<1>5. CASE WriteReport(w)
  <2>1. /\ UNCHANGED <<incoming, processed, quarantine, snapshot, pending, file, content, drops>>
        /\ pc[w] \notin {"idle", "read", "finish"}
        /\ pc'[w] \notin {"idle", "read"}
        /\ \A v \in Workers \ {w} : pc'[v] = pc[v]
        /\ written' = [written EXCEPT ![content[w]] = @ + 1] \/ UNCHANGED written
    BY <1>0, <1>5 DEF WriteReport
  <2>2. \A d \in Contents \ {content[w]} : written'[d] = written[d]
    BY <2>1 DEF TypedInv, TypeOK
  <2>3. content[w] <= drops
    BY DEF InputsInv, Holding
  <2>4. \A d \in Contents : written'[d] > 0 => d <= drops
    BY <2>2, <2>3 DEF InputsInv, Holding
  <2> QED
    BY <1>3, <2>1, <2>4
<1>6. CASE Move(w)
  <2>1. CASE file[w] \in DOMAIN incoming /\ incoming' = Without(incoming, file[w])
               /\ processed' = With(processed, target[w], incoming[file[w]])
    <3>1. /\ pc[w] \notin {"idle", "read", "finish"}
          /\ UNCHANGED <<quarantine, snapshot, pending, file, content, written, drops>>
      BY <1>0, <1>6 DEF Move
    <3>2. pc' = [pc EXCEPT ![w] = "finish"]
      <4>1. incoming' # incoming
        BY <2>1 DEF Without
      <4> QED
        BY <1>6, <4>1 DEF Move
    <3>3. Held(processed') \subseteq Held(processed) \cup {incoming[file[w]]}
      BY <2>1, AddsAtMost
    <3>4. Held(quarantine') = Held(quarantine)
      BY <3>1
    <3> QED
      BY <2>1, <3>1, <3>2, <3>3, <3>4, MovedInputs
  <2>2. CASE UNCHANGED <<incoming, processed>>
    BY <1>0, <1>3, <1>6, <2>2 DEF Move, InputsInv, Holding
  <2> QED
    BY <1>6, <2>1, <2>2 DEF Move
<1>7. ASSUME NEW from \in {"quarantine", "rescue"}, NEW failed \in {"nameRescue", "finish"},
             Quarantine(w, from, failed)
      PROVE  InputsInv'
  <2>1. CASE file[w] \in DOMAIN incoming /\ incoming' = Without(incoming, file[w])
               /\ quarantine' = With(quarantine, target[w], incoming[file[w]])
    <3>1. /\ pc[w] \notin {"idle", "read", "finish"}
          /\ UNCHANGED <<processed, snapshot, pending, file, content, written, drops>>
      BY <1>0, <1>7 DEF Quarantine
    <3>2. pc' = [pc EXCEPT ![w] = "finish"]
      <4>1. incoming' # incoming
        BY <2>1 DEF Without
      <4> QED
        BY <1>7, <4>1 DEF Quarantine
    <3>3. Held(quarantine') \subseteq Held(quarantine) \cup {incoming[file[w]]}
      BY <2>1, AddsAtMost
    <3>4. Held(processed') = Held(processed)
      BY <3>1
    <3> QED
      BY <2>1, <3>1, <3>2, <3>3, <3>4, MovedInputs
  <2>2. CASE UNCHANGED <<incoming, quarantine>>
    BY <1>0, <1>3, <1>7, <2>2 DEF Quarantine, InputsInv, Holding
  <2> QED
    BY <1>7, <2>1, <2>2 DEF Quarantine
<1>8. CASE Finish(w)
  <2>1. /\ UNCHANGED <<incoming, processed, quarantine, snapshot, pending, written, drops>>
        /\ pc'[w] = "idle" /\ content'[w] = 0
        /\ \A v \in Workers \ {w} : pc'[v] = pc[v] /\ file'[v] = file[v] /\ content'[v] = content[v]
    BY <1>0, <1>8 DEF Finish
  <2> QED
    BY <1>0, <2>1 DEF InputsInv, Dropped, Holding, Single, Held
<1> QED
  BY <1>1, <1>2, <1>4, <1>5, <1>6, <1>7, <1>8 DEF Process

\* Every step keeps track of who holds what.
LEMMA InputsStep ==
  TypedInv /\ JobsInv /\ InputsInv /\ [Next]_vars => InputsInv'
<1> SUFFICES ASSUME TypedInv, JobsInv, InputsInv, [Next]_vars PROVE InputsInv'
  OBVIOUS
<1>1. CASE UNCHANGED vars
  BY <1>1 DEF vars, fs, main, thread, ghost, InputsInv, Dropped, Holding, Single, Held
<1>2. CASE Next
  BY <1>2, DropInputs, MainInputs, ThreadInputs DEF Next
<1> QED
  BY <1>1, <1>2

\* At first there is nothing to hold.
LEMMA InitInputs == Init => InputsInv
  BY NothingThere, Sizes DEF Init, InputsInv, Dropped, Holding

-----------------------------------------------------------------------------
(* Every input is kept *)

\* Inputs are worked on one at a time, as in sequential mode, or the names that
\* producers use differ in more than a counter.
SeparateNames ==
    \/ \A v, w \in Workers : v = w
    \/ \A m, n \in DropNames : m.base = n.base => m = n

\* What a collision loop chose is still free when it is used.
FreshInv ==
    \A w \in Workers :
        /\ pc[w] = "move" => target[w] \notin DOMAIN processed
        /\ pc[w] \in {"quarantine", "rescue"} => target[w] \notin DOMAIN quarantine

KeptInv ==
    /\ \A d \in 1 .. drops : d \in Held(incoming) \cup Held(processed) \cup Held(quarantine)
    /\ Held(incoming) \cap (Held(processed) \cup Held(quarantine)) = {}
    /\ Held(processed) \cap Held(quarantine) = {}

\* Two threads about to use a name use different ones.
LEMMA TargetsDiffer ==
  ASSUME TypedInv, JobsInv, InputsInv, SeparateNames,
         NEW v \in Workers, NEW w \in Workers, v # w, pc[v] \in Moving, pc[w] \in Moving
  PROVE  target[v] # target[w]
<1>1. CASE \A x, y \in Workers : x = y
  BY <1>1
<1>2. CASE ~(\A x, y \in Workers : x = y)
  <2>1. pc[v] # "idle" /\ pc[w] # "idle"
    BY DEF Moving
  <2>2. file[v] \in DropNames /\ file[w] \in DropNames
    BY <2>1 DEF InputsInv, Dropped
  <2>3. file[v] # file[w]
    BY <2>1, JobsDiffer
  <2>4. target[v].base = file[v].base /\ target[w].base = file[w].base
    BY DEF TypedInv, Prepared
  <2> QED
    BY <1>2, <2>2, <2>3, <2>4 DEF SeparateNames
<1> QED
  BY <1>1, <1>2

\* Steps that choose no name and move nothing, and a crash.
LEMMA OthersFresh ==
  ASSUME FreshInv, UNCHANGED <<processed, quarantine>>,
         \A v \in Workers : pc'[v] \in Moving => pc[v] = pc'[v] /\ target'[v] = target[v]
  PROVE  FreshInv'
  BY DEF FreshInv, Moving

\* A thread's choice is free, and stays free for every other thread.
LEMMA ThreadFresh ==
  ASSUME TypedInv, JobsInv, InputsInv, SeparateNames, FreshInv,
         NEW w \in Workers, Take(w) \/ Process(w)
  PROVE  FreshInv'
<1> USE DEF fs, main, thread, ghost, Goto, Aim
<1>0. /\ pc \in [Workers -> Locations] /\ file \in [Workers -> Names \cup {Idle}]
      /\ target \in [Workers -> Names \cup ReportNames \cup {Idle}]
      /\ IsFiniteSet(DOMAIN processed) /\ IsFiniteSet(DOMAIN quarantine)
      /\ \A v \in Workers : pc[v] = "idle" <=> file[v] = Idle
  BY DEF TypedInv, TypeOK, AllFinite
<1>1. CASE Take(w) \/ Read(w) \/ Analyze(w) \/ NameReport(w) \/ WriteReport(w) \/ Outputs(w)
             \/ Finish(w)
  <2>1. /\ UNCHANGED <<processed, quarantine>>
        /\ pc'[w] \notin Moving
        /\ \A v \in Workers \ {w} : pc'[v] = pc[v] /\ target'[v] = target[v]
    BY <1>0, <1>1
       DEF Take, Read, Analyze, NameReport, WriteReport, Outputs, Finish, Moving
  <2> QED
    BY <2>1, OthersFresh
<1>2. CASE NameProcessed(w)
  <2>1. /\ UNCHANGED <<processed, quarantine>>
        /\ pc[w] = "nameProcessed" /\ pc'[w] = "move" /\ target'[w] = FreeName(file[w], processed)
        /\ \A v \in Workers \ {w} : pc'[v] = pc[v] /\ target'[v] = target[v]
    BY <1>0, <1>2 DEF NameProcessed
  <2>2. file[w] \in Names
    BY <1>0, <2>1
  <2>3. target'[w] \notin DOMAIN processed
    BY <1>0, <2>1, <2>2, FreeNameIsFree
  <2> QED
    BY <2>1, <2>3 DEF FreshInv
<1>3. ASSUME NEW from \in {"nameQuarantine", "nameRescue"}, NEW to \in {"quarantine", "rescue"},
             NameQuarantine(w, from, to)
      PROVE  FreshInv'
  <2>1. /\ UNCHANGED <<processed, quarantine>>
        /\ pc[w] = from /\ pc'[w] = to /\ target'[w] = FreeName(file[w], quarantine)
        /\ \A v \in Workers \ {w} : pc'[v] = pc[v] /\ target'[v] = target[v]
    BY <1>0, <1>3 DEF NameQuarantine
  <2>2. file[w] \in Names
    BY <1>0, <2>1
  <2>3. target'[w] \notin DOMAIN quarantine
    BY <1>0, <2>1, <2>2, FreeNameIsFree
  <2> QED
    BY <2>1, <2>3 DEF FreshInv
<1>4. CASE Move(w)
  <2>1. /\ UNCHANGED <<quarantine, target>>
        /\ pc[w] = "move" /\ pc'[w] \in {"finish", "nameRescue"}
        /\ \A v \in Workers \ {w} : pc'[v] = pc[v]
        /\ \/ UNCHANGED processed
           \/ processed' = With(processed, target[w], incoming[file[w]])
    BY <1>0, <1>4 DEF Move
  <2>2. \A v \in Workers \ {w} : pc[v] = "move" => target[v] # target[w]
    BY <2>1, TargetsDiffer DEF Moving
  <2>3. DOMAIN processed' \subseteq DOMAIN processed \cup {target[w]}
    BY <2>1 DEF With
  <2> QED
    BY <2>1, <2>2, <2>3 DEF FreshInv
<1>5. ASSUME NEW from \in {"quarantine", "rescue"}, NEW failed \in {"nameRescue", "finish"},
             Quarantine(w, from, failed)
      PROVE  FreshInv'
  <2>1. /\ UNCHANGED <<processed, target>>
        /\ pc[w] = from /\ pc'[w] \in {"finish", "nameRescue"}
        /\ \A v \in Workers \ {w} : pc'[v] = pc[v]
        /\ \/ UNCHANGED quarantine
           \/ quarantine' = With(quarantine, target[w], incoming[file[w]])
    BY <1>0, <1>5 DEF Quarantine
  <2>2. \A v \in Workers \ {w} : pc[v] \in {"quarantine", "rescue"} => target[v] # target[w]
    BY <2>1, TargetsDiffer DEF Moving
  <2>3. DOMAIN quarantine' \subseteq DOMAIN quarantine \cup {target[w]}
    BY <2>1 DEF With
  <2> QED
    BY <2>1, <2>2, <2>3 DEF FreshInv
<1> QED
  BY <1>1, <1>2, <1>3, <1>4, <1>5 DEF Process

\* No step uses a chosen name before the thread that chose it.
LEMMA FreshStep ==
  ASSUME TypedInv, JobsInv, InputsInv, SeparateNames, FreshInv, [Next]_vars
  PROVE  FreshInv'
<1> USE DEF fs, main, thread, ghost
<1>1. CASE UNCHANGED vars
  BY <1>1, OthersFresh DEF vars
<1>2. CASE Drop \/ MainStep \/ Signal
  <2>1. UNCHANGED <<processed, quarantine, pc, target>>
    BY <1>2 DEF Drop, MainStep, Discover, Backpressure, Submit, ServeList, ListServed, LeaveLoop,
         Stopped, Restart, Signal
  <2> QED
    BY <2>1, OthersFresh
<1>3. CASE Crash
  <2>1. UNCHANGED <<processed, quarantine>> /\ \A v \in Workers : pc'[v] = "idle"
    BY <1>3 DEF Crash
  <2> QED
    BY <2>1, OthersFresh DEF Moving
<1>4. CASE \E w \in Workers : Take(w) \/ Process(w)
  BY <1>4, ThreadFresh
<1> QED
  BY <1>1, <1>2, <1>3, <1>4 DEF Next

\* A move takes a content from one directory to another.
LEMMA MovedKept ==
  ASSUME InputsInv, KeptInv, NEW to, NEW n, NEW f \in DOMAIN incoming,
         n \notin DOMAIN to, incoming' = Without(incoming, f), UNCHANGED drops,
         \/ to = processed /\ processed' = With(to, n, incoming[f]) /\ UNCHANGED quarantine
         \/ to = quarantine /\ quarantine' = With(to, n, incoming[f]) /\ UNCHANGED processed
  PROVE  KeptInv'
<1> DEFINE c == incoming[f]
<1>1. Held(incoming') = Held(incoming) \ {c}
  BY RemovedHeld DEF InputsInv, Holding
<1>2. c \in Held(incoming)
  BY DEF Held
<1>3. Held(With(to, n, c)) = Held(to) \cup {c}
  BY AddedHeld
<1>4. \/ Held(processed') = Held(processed) \cup {c} /\ Held(quarantine') = Held(quarantine)
      \/ Held(quarantine') = Held(quarantine) \cup {c} /\ Held(processed') = Held(processed)
  BY <1>3
<1> HIDE DEF c
<1> QED
  BY <1>1, <1>2, <1>4 DEF KeptInv

\* No step loses or doubles an input.
LEMMA KeptStep ==
  ASSUME TypedInv, InputsInv, FreshInv, KeptInv, [Next]_vars
  PROVE  KeptInv'
<1> USE DEF fs, main, thread, ghost
<1>1. ASSUME UNCHANGED <<incoming, processed, quarantine, drops>> PROVE KeptInv'
  BY <1>1 DEF KeptInv, Held
<1>2. CASE UNCHANGED vars \/ MainStep \/ Signal \/ Crash
  <2>1. UNCHANGED <<incoming, processed, quarantine, drops>>
    BY <1>2 DEF vars, MainStep, Discover, Backpressure, Submit, ServeList, ListServed, LeaveLoop,
         Stopped, Restart, Signal, Crash
  <2> QED
    BY <1>1, <2>1
<1>3. CASE Drop
  <2>1. PICK n \in DropNames \ DOMAIN incoming : incoming' = With(incoming, n, drops + 1)
    BY <1>3 DEF Drop
  <2>2. Held(incoming') = Held(incoming) \cup {drops + 1}
    BY <2>1, AddedHeld
  <2>3. drops' = drops + 1 /\ drops \in Nat /\ UNCHANGED <<processed, quarantine>>
    BY <1>3, Sizes DEF Drop, TypedInv, TypeOK
  <2>4. Held(processed') = Held(processed) /\ Held(quarantine') = Held(quarantine)
    BY <2>3
  <2>5. \A d \in 1 .. drops' : d \in Held(incoming') \cup Held(processed') \cup Held(quarantine')
    BY <2>2, <2>3, <2>4 DEF KeptInv
  <2>6. drops + 1 \notin Held(processed) \cup Held(quarantine)
    BY <2>3 DEF InputsInv, Holding
  <2> QED
    BY <2>2, <2>4, <2>5, <2>6 DEF KeptInv
<1>4. ASSUME NEW w \in Workers, Take(w) \/ Process(w) PROVE KeptInv'
  <2>1. CASE Take(w) \/ Read(w) \/ Analyze(w) \/ NameReport(w) \/ WriteReport(w) \/ Outputs(w)
             \/ Finish(w) \/ NameProcessed(w)
             \/ NameQuarantine(w, "nameQuarantine", "quarantine")
             \/ NameQuarantine(w, "nameRescue", "rescue")
    <3>1. UNCHANGED <<incoming, processed, quarantine, drops>>
      BY <2>1 DEF Take, Read, Analyze, NameReport, WriteReport, Outputs, Finish, NameProcessed,
           NameQuarantine
    <3> QED
      BY <1>1, <3>1
  <2>2. CASE Move(w)
    <3>1. pc[w] = "move" /\ UNCHANGED <<quarantine, drops>>
      BY <2>2 DEF Move, Goto
    <3>2. CASE UNCHANGED <<incoming, processed>>
      BY <1>1, <3>1, <3>2
    <3>3. CASE /\ file[w] \in DOMAIN incoming /\ incoming' = Without(incoming, file[w])
               /\ processed' = With(processed, target[w], incoming[file[w]])
      <4>1. target[w] \notin DOMAIN processed
        BY <3>1 DEF FreshInv
      <4> QED
        BY <3>1, <3>3, <4>1, MovedKept
    <3> QED
      BY <2>2, <3>2, <3>3 DEF Move
  <2>3. ASSUME NEW from \in {"quarantine", "rescue"}, NEW failed, Quarantine(w, from, failed)
        PROVE  KeptInv'
    <3>1. pc[w] = from /\ UNCHANGED <<processed, drops>>
      BY <2>3 DEF Quarantine, Goto
    <3>2. CASE UNCHANGED <<incoming, quarantine>>
      BY <1>1, <3>1, <3>2
    <3>3. CASE /\ file[w] \in DOMAIN incoming /\ incoming' = Without(incoming, file[w])
               /\ quarantine' = With(quarantine, target[w], incoming[file[w]])
      <4>1. target[w] \notin DOMAIN quarantine
        BY <3>1 DEF FreshInv
      <4> QED
        BY <3>1, <3>3, <4>1, MovedKept
    <3> QED
      BY <2>3, <3>2, <3>3 DEF Quarantine
  <2> QED
    BY <1>4, <2>1, <2>2, <2>3 DEF Process
<1> QED
  BY <1>2, <1>3, <1>4 DEF Next

\* At first nothing was dropped and no name chosen.
LEMMA InitKept == Init => FreshInv /\ KeptInv
  BY NothingThere DEF Init, FreshInv, KeptInv, Held

\* Every file dropped is in exactly one of the three directories, for every
\* number of threads, files, crashes, stops and failed moves, provided threads
\* that run together work on names that differ in more than a counter.
THEOREM InputsAreKept ==
  ASSUME SeparateNames PROVE Spec => []EveryInputKept
<1> DEFINE All == TypedInv /\ JobsInv /\ InputsInv /\ FreshInv /\ KeptInv
<1>1. Init => All
  BY InitTyped, InitJobs, InitInputs, InitKept
<1>2. All /\ [Next]_vars => All'
  BY TypeStep, JobsStep, InputsStep, FreshStep, KeptStep
<1>3. All => EveryInputKept
  BY DEF KeptInv, EveryInputKept
<1> QED
  BY <1>1, <1>2, <1>3, PTL DEF Spec

-----------------------------------------------------------------------------
(* Every processed input has its report *)

\* A report of d that no thread is about to write over.
SafeReport(d) ==
    \E n \in DOMAIN reports :
        /\ reports[n] = d
        /\ \A v \in Workers : pc[v] = "writeReport" => target[v] # n

Reported == {"outputs", "nameProcessed", "move"}

\* What must have a report: inputs that are processed or about to be.
Due == Held(processed) \cup {content[w] : w \in {v \in Workers : pc[v] \in Reported}}

\* A report stays safe while its input is moved and ever after: the collision
\* loop of another thread finds its name taken.
ReportedInv == \A d \in Due : d \in raced \/ SafeReport(d)

\* A safe report is disturbed neither by a thread that writes what it aims at
\* nor by one that picks a free name.
LEMMA StaysSafe ==
  ASSUME NEW d, SafeReport(d),
         \A n \in DOMAIN reports :
            (\A v \in Workers : pc[v] = "writeReport" => target[v] # n) =>
               n \in DOMAIN reports' /\ reports'[n] = reports[n],
         \A v \in Workers : pc'[v] = "writeReport" =>
            \/ pc[v] = "writeReport" /\ target'[v] = target[v]
            \/ target'[v] \notin DOMAIN reports
  PROVE  SafeReport(d)'
<1>1. PICK n \in DOMAIN reports :
        reports[n] = d /\ \A v \in Workers : pc[v] = "writeReport" => target[v] # n
  BY DEF SafeReport
<1>2. n \in DOMAIN reports' /\ reports'[n] = d
  BY <1>1
<1>3. \A v \in Workers : pc'[v] = "writeReport" => target'[v] # n
  BY <1>1
<1> QED
  BY <1>2, <1>3 DEF SafeReport

\* Steps that write no report and move nothing to PROCESSED_DIR.
LEMMA OthersReported ==
  ASSUME ReportedInv, UNCHANGED <<processed, reports, raced>>,
         \A v \in Workers :
            /\ pc'[v] = "writeReport" =>
                 \/ pc[v] = "writeReport" /\ target'[v] = target[v]
                 \/ target'[v] \notin DOMAIN reports
            /\ pc'[v] \in Reported => content'[v] = content[v] /\ pc[v] \in Reported
  PROVE  ReportedInv'
<1>1. ASSUME NEW d, d \in raced \/ SafeReport(d) PROVE d \in raced' \/ SafeReport(d)'
  BY <1>1, StaysSafe
<1>2. Due' \subseteq Due
  <2>1. Held(processed') = Held(processed)
    OBVIOUS
  <2> QED
    BY <2>1 DEF Due, Held
<1> QED
  BY <1>1, <1>2 DEF ReportedInv

\* Writing a report makes it safe unless another thread aims at its name, and
\* disturbs no safe one.
LEMMA WriteReported ==
  ASSUME TypedInv, ReportedInv, NEW w \in Workers, WriteReport(w)
  PROVE  ReportedInv'
<1> USE DEF Goto
<1>0. pc \in [Workers -> Locations]
  BY DEF TypedInv, TypeOK
<1>1. /\ UNCHANGED <<processed, content, target>> /\ pc[w] = "writeReport"
      /\ pc'[w] \in {"outputs", "nameRescue"}
      /\ \A v \in Workers \ {w} : pc'[v] = pc[v]
      /\ \/ UNCHANGED reports
         \/ \E c : reports' = With(reports, target[w], c)
  BY <1>0 DEF WriteReport
<1>2. \/ pc'[w] = "nameRescue" /\ UNCHANGED raced
      \/ /\ pc'[w] = "outputs" /\ reports' = With(reports, target[w], content[w])
         /\ raced' = IF Rivals(w) = {} THEN raced \ {content[w]} ELSE raced \cup {content[w]}
  BY <1>0 DEF WriteReport
<1>3. \A n \in DOMAIN reports : target[w] # n => n \in DOMAIN reports' /\ reports'[n] = reports[n]
  BY <1>1 DEF With
<1>4. ASSUME NEW d, SafeReport(d) PROVE SafeReport(d)'
  <2>1. \A n \in DOMAIN reports :
          (\A v \in Workers : pc[v] = "writeReport" => target[v] # n) =>
             n \in DOMAIN reports' /\ reports'[n] = reports[n]
    BY <1>1, <1>3
  <2>2. \A v \in Workers : pc'[v] = "writeReport" => pc[v] = "writeReport" /\ target'[v] = target[v]
    BY <1>1
  <2> QED
    BY <1>4, <2>1, <2>2, StaysSafe
<1>5. ASSUME NEW d, pc'[w] # "nameRescue", d = content[w]
      PROVE  d \in raced' \/ SafeReport(d)'
  <2>1. CASE Rivals(w) # {}
    BY <1>2, <1>5, <2>1
  <2>2. CASE Rivals(w) = {}
    <3>1. target[w] \in DOMAIN reports' /\ reports'[target[w]] = d
      BY <1>2, <1>5 DEF With
    <3>2. \A v \in Workers : pc'[v] = "writeReport" => target'[v] # target[w]
      BY <1>1, <2>2 DEF Rivals
    <3> QED
      BY <3>1, <3>2 DEF SafeReport
  <2> QED
    BY <2>1, <2>2
<1>6. ASSUME NEW d, d \in raced \/ SafeReport(d) PROVE d \in raced' \/ SafeReport(d)'
  <2>1. CASE SafeReport(d)
    BY <1>4, <2>1
  <2>2. CASE d \in raced /\ d # content[w]
    BY <1>2, <2>2
  <2>3. CASE d \in raced /\ d = content[w]
    <3>1. CASE pc'[w] = "nameRescue"
      BY <1>2, <2>3, <3>1
    <3>2. CASE pc'[w] # "nameRescue"
      BY <1>5, <2>3, <3>2
    <3> QED
      BY <3>1, <3>2
  <2> QED
    BY <1>6, <2>1, <2>2, <2>3
<1>7. Due' \subseteq Due \cup (IF pc'[w] = "nameRescue" THEN {} ELSE {content[w]})
  <2>1. Held(processed') = Held(processed)
    BY <1>1
  <2> QED
    BY <1>1, <2>1 DEF Due, Reported, Held
<1> QED
  BY <1>5, <1>6, <1>7 DEF ReportedInv

\* A thread writes the report of what it moves.
LEMMA ThreadReported ==
  ASSUME TypedInv, InputsInv, ReportedInv, NEW w \in Workers, Take(w) \/ Process(w)
  PROVE  ReportedInv'
<1> USE DEF fs, main, thread, ghost, Goto, Aim
<1>0. /\ pc \in [Workers -> Locations] /\ file \in [Workers -> Names \cup {Idle}]
      /\ content \in [Workers -> Contents \cup {0}]
      /\ target \in [Workers -> Names \cup ReportNames \cup {Idle}]
      /\ IsFiniteSet(DOMAIN reports)
      /\ \A v \in Workers : pc[v] = "idle" <=> file[v] = Idle
  BY DEF TypedInv, TypeOK, AllFinite
<1>1. CASE Take(w) \/ Read(w) \/ Analyze(w) \/ Outputs(w) \/ NameProcessed(w)
             \/ NameQuarantine(w, "nameQuarantine", "quarantine")
             \/ Quarantine(w, "quarantine", "nameRescue")
             \/ NameQuarantine(w, "nameRescue", "rescue")
             \/ Quarantine(w, "rescue", "finish") \/ Finish(w)
  <2>1. UNCHANGED <<processed, reports, raced>>
    BY <1>1 DEF Take, Read, Analyze, Outputs, NameProcessed, NameQuarantine, Quarantine, Finish
  <2>2. \A v \in Workers \ {w} : pc'[v] = pc[v] /\ target'[v] = target[v] /\ content'[v] = content[v]
    BY <1>0, <1>1 DEF Take, Read, Analyze, Outputs, NameProcessed, NameQuarantine, Quarantine, Finish
  <2>3. /\ pc'[w] # "writeReport"
        /\ pc'[w] \in Reported => content'[w] = content[w] /\ pc[w] \in Reported
    BY <1>0, <1>1 DEF Take, Read, Analyze, Outputs, NameProcessed, NameQuarantine, Quarantine, Finish,
                      Reported
  <2> QED
    BY <2>1, <2>2, <2>3, OthersReported
<1>2. CASE NameReport(w)
  <2>1. /\ UNCHANGED <<processed, reports, raced, content>>
        /\ pc[w] = "nameReport" /\ pc'[w] = "writeReport"
        /\ target'[w] = FreeName(ReportName(file[w]), reports)
        /\ \A v \in Workers \ {w} : pc'[v] = pc[v] /\ target'[v] = target[v]
    BY <1>0, <1>2 DEF NameReport
  <2>2. file[w] \in Names
    BY <1>0, <2>1
  <2>3. ReportName(file[w]) \in ReportNames
    BY <2>2, Sizes
  <2>4. target'[w] \notin DOMAIN reports
    BY <1>0, <2>1, <2>3, FreeNameIsFree
  <2> QED
    BY <2>1, <2>4, OthersReported DEF Reported
<1>3. CASE WriteReport(w)
  BY <1>3, WriteReported
<1>4. CASE Move(w)
  <2>1. /\ UNCHANGED <<reports, raced, content, target>>
        /\ pc[w] = "move" /\ pc'[w] \in {"finish", "nameRescue"}
        /\ \A v \in Workers \ {w} : pc'[v] = pc[v]
        /\ \/ UNCHANGED processed
           \/ processed' = With(processed, target[w], incoming[file[w]])
    BY <1>0, <1>4 DEF Move
  <2>2. content[w] \in Contents /\ content[w] \in Due
    BY <2>1 DEF TypedInv, Prepared, Analysing, Reported, Due
  <2>3. incoming[file[w]] = content[w]
    BY <2>1, <2>2, Sizes DEF InputsInv, Holding
  <2>4. Held(processed') \subseteq Held(processed) \cup {content[w]}
    BY <2>1, <2>3, AddsAtMost
  <2>5. ASSUME NEW d, d \in raced \/ SafeReport(d) PROVE d \in raced' \/ SafeReport(d)'
    BY <2>1, <2>5, StaysSafe
  <2>6. Due' \subseteq Due
    BY <2>1, <2>2, <2>4 DEF Due, Reported, Held
  <2> QED
    BY <2>5, <2>6 DEF ReportedInv
<1> QED
  BY <1>1, <1>2, <1>3, <1>4 DEF Process

\* No step loses a report.
LEMMA ReportedStep ==
  ASSUME TypedInv, InputsInv, ReportedInv, [Next]_vars
  PROVE  ReportedInv'
<1> USE DEF fs, main, thread, ghost
<1>1. CASE UNCHANGED vars
  BY <1>1, OthersReported DEF vars
<1>2. CASE Drop \/ MainStep \/ Signal
  <2>1. UNCHANGED <<processed, reports, raced, pc, content, target>>
    BY <1>2 DEF Drop, MainStep, Discover, Backpressure, Submit, ServeList, ListServed, LeaveLoop,
         Stopped, Restart, Signal
  <2> QED
    BY <2>1, OthersReported
<1>3. CASE Crash
  <2>1. UNCHANGED <<processed, reports, raced>> /\ \A v \in Workers : pc'[v] = "idle"
    BY <1>3 DEF Crash
  <2> QED
    BY <2>1, OthersReported DEF Reported
<1>4. CASE \E w \in Workers : Take(w) \/ Process(w)
  BY <1>4, ThreadReported
<1> QED
  BY <1>1, <1>2, <1>3, <1>4 DEF Next

\* At first nothing is processed.
LEMMA InitReported == Init => ReportedInv
  BY NothingThere DEF Init, ReportedInv, Due, Reported, Held

\* An input reaches PROCESSED_DIR only with a report in REPORT_DIR, and nobody
\* overwrites that report unless two threads had chosen its name at once, for
\* every number of threads, names, files and failures.
THEOREM ProcessedHaveReports == Spec => []ProcessedHasReport
<1> DEFINE All == TypedInv /\ JobsInv /\ InputsInv /\ ReportedInv
<1>1. Init => All
  BY InitTyped, InitJobs, InitInputs, InitReported
<1>2. All /\ [Next]_vars => All'
  BY TypeStep, JobsStep, InputsStep, ReportedStep
<1>3. All => ProcessedHasReport
  BY DEF ReportedInv, ProcessedHasReport, Due, SafeReport, Held
<1> QED
  BY <1>1, <1>2, <1>3, PTL DEF Spec

\* Inputs are worked on one at a time, or the names that producers use differ
\* in their stems.
SeparateStems ==
    \/ \A v, w \in Workers : v = w
    \/ \A m, n \in DropNames : Stem[m.base] = Stem[n.base] => m = n

\* Two threads about to write reports write different ones.
LEMMA ReportTargetsDiffer ==
  ASSUME TypedInv, JobsInv, InputsInv, SeparateStems,
         NEW v \in Workers, NEW w \in Workers, v # w,
         pc[v] = "writeReport", pc[w] = "writeReport"
  PROVE  target[v] # target[w]
<1>1. CASE \A x, y \in Workers : x = y
  BY <1>1
<1>2. CASE ~(\A x, y \in Workers : x = y)
  <2>1. file[v] \in DropNames /\ file[w] \in DropNames /\ file[v] # file[w]
    BY JobsDiffer DEF InputsInv, Dropped
  <2>2. target[v].stem = Stem[file[v].base] /\ target[w].stem = Stem[file[w].base]
    BY <2>1, Sizes DEF TypedInv, Prepared
  <2> QED
    BY <1>2, <2>1, <2>2 DEF SeparateStems
<1> QED
  BY <1>1, <1>2

\* With names that differ in their stems, and in sequential mode with any
\* names, no two threads choose one report name: every processed input has its
\* report, without exception.
THEOREM NoReportIsRaced ==
  ASSUME SeparateStems PROVE Spec => [](Held(processed) \subseteq Held(reports))
<1> DEFINE All == TypedInv /\ JobsInv /\ InputsInv /\ raced = {}
<1>1. Init => All
  BY InitTyped, InitJobs, InitInputs DEF Init
<1>2. All /\ [Next]_vars => All'
  <2> SUFFICES ASSUME All, [Next]_vars PROVE All'
    OBVIOUS
  <2> USE DEF fs, main, thread, ghost
  <2>1. TypedInv' /\ JobsInv' /\ InputsInv'
    BY TypeStep, JobsStep, InputsStep
  <2>2. ASSUME NEW w \in Workers, WriteReport(w) PROVE raced' = {}
    <3>1. pc[w] = "writeReport"
      BY <2>2 DEF WriteReport, Goto
    <3>2. Rivals(w) = {}
      BY <3>1, ReportTargetsDiffer DEF Rivals
    <3> QED
      BY <2>2, <3>2 DEF WriteReport
  <2>3. raced' = {}
    <3>1. CASE UNCHANGED vars
      BY <3>1 DEF vars
    <3>2. CASE Drop \/ MainStep \/ Signal \/ Crash
      BY <3>2 DEF Drop, MainStep, Discover, Backpressure, Submit, ServeList, ListServed, LeaveLoop,
           Stopped, Restart, Signal, Crash
    <3>3. ASSUME NEW w \in Workers, Take(w) \/ Process(w) PROVE raced' = {}
      <4>1. CASE WriteReport(w)
        BY <2>2, <4>1
      <4>2. CASE ~WriteReport(w)
        BY <3>3, <4>2 DEF Take, Process, Read, Analyze, NameReport, Outputs, NameProcessed, Move,
             NameQuarantine, Quarantine, Finish
      <4> QED
        BY <4>1, <4>2
    <3> QED
      BY <3>1, <3>2, <3>3 DEF Next
  <2> QED
    BY <2>1, <2>3
<1>3. All /\ ProcessedHasReport => Held(processed) \subseteq Held(reports)
  BY DEF ProcessedHasReport
<1> QED
  BY <1>1, <1>2, <1>3, ProcessedHaveReports, PTL DEF Spec

-----------------------------------------------------------------------------
(* Work is repeated only after a failure *)

\* A thread may have written the report of d already.
Late == {"outputs", "nameProcessed", "move", "nameRescue", "rescue"}
Finishing(d) == \E w \in Workers : content[w] = d /\ pc[w] \in Late

\* What d still has coming without a failure: nothing, once it is on its way
\* out of INCOMING_DIR or has left it.
Spent(d) == IF d \in Held(incoming) /\ ~Finishing(d) THEN 0 ELSE 1

RepeatsInv == \A d \in Contents : written[d] <= crashes + moveFailures + Spent(d)

\* One more failure is one more in all.
LEMMA MoreFailures ==
  ASSUME NEW m \in Nat, NEW n \in Nat, NEW p \in Nat, n > m
  PROVE  p + n > p + m
  OBVIOUS

\* Steps that write no report and whose threads stay late or fail.
LEMMA OthersRepeat ==
  ASSUME TypedInv, RepeatsInv, NEW d \in Contents,
         written'[d] = written[d], {crashes', moveFailures'} \subseteq Nat,
         crashes' >= crashes, moveFailures' >= moveFailures,
         Spent(d)' >= Spent(d) \/ crashes' + moveFailures' > crashes + moveFailures
  PROVE  written'[d] <= crashes' + moveFailures' + Spent(d)'
<1>1. Spent(d) \in {0, 1} /\ Spent(d)' \in {0, 1}
  BY DEF Spent
<1>2. written[d] \in Nat /\ crashes \in Nat /\ moveFailures \in Nat
  BY Sizes DEF TypedInv, TypeOK
<1>3. written[d] <= crashes + moveFailures + Spent(d)
  BY DEF RepeatsInv
<1> QED
  BY <1>1, <1>2, <1>3

\* What a thread does about its own content, and about nobody else's.
LEMMA ThreadRepeats ==
  ASSUME TypedInv, JobsInv, InputsInv, RepeatsInv, NEW w \in Workers, Take(w) \/ Process(w)
  PROVE  RepeatsInv'
<1> USE DEF fs, main, thread, ghost, Goto, Aim
<1>0. /\ pc \in [Workers -> Locations] /\ content \in [Workers -> Contents \cup {0}]
      /\ written \in [Contents -> Nat] /\ crashes \in Nat /\ moveFailures \in Nat
  BY Sizes DEF TypedInv, TypeOK
<1>1. ASSUME /\ UNCHANGED <<written, crashes>>
             /\ moveFailures' \in Nat /\ moveFailures' >= moveFailures
             /\ \A v \in Workers \ {w} : pc'[v] = pc[v] /\ content'[v] = content[v]
             /\ \A d \in Contents : d \in Held(incoming') => d \in Held(incoming)
             /\ \/ pc[w] \in Late => pc'[w] \in Late /\ content'[w] = content[w]
                \/ content[w] \notin Held(incoming')
                \/ moveFailures' > moveFailures
      PROVE  RepeatsInv'
  <2> SUFFICES ASSUME NEW d \in Contents
               PROVE  written'[d] <= crashes' + moveFailures' + Spent(d)'
    BY DEF RepeatsInv
  <2>1. Spent(d)' >= Spent(d) \/ moveFailures' > moveFailures
    <3>1. CASE moveFailures' > moveFailures
      BY <3>1
    <3>2. CASE ~(moveFailures' > moveFailures)
      <4>1. d \in Held(incoming') /\ Finishing(d) => Finishing(d)'
        BY <1>1, <3>2 DEF Finishing
      <4>2. d \in Held(incoming') => d \in Held(incoming)
        BY <1>1
      <4> QED
        BY <4>1, <4>2 DEF Spent
    <3> QED
      BY <3>1, <3>2
  <2>2. written'[d] = written[d] /\ crashes' = crashes
        /\ moveFailures' \in Nat /\ moveFailures' >= moveFailures
    BY <1>1
  <2>3. {crashes', moveFailures'} \subseteq Nat /\ crashes' >= crashes
    BY <1>0, <2>2
  <2>4. moveFailures' > moveFailures => crashes' + moveFailures' > crashes + moveFailures
    <3>1. crashes \in Nat /\ moveFailures \in Nat /\ moveFailures' \in Nat
      BY <1>0, <2>2
    <3>2. moveFailures' > moveFailures => crashes + moveFailures' > crashes + moveFailures
      BY <3>1, MoreFailures
    <3> QED
      BY <2>2, <3>2
  <2> QED
    BY <2>1, <2>2, <2>3, <2>4, OthersRepeat
<1>2. CASE Take(w) \/ Read(w) \/ Analyze(w) \/ NameReport(w) \/ Outputs(w) \/ NameProcessed(w)
             \/ NameQuarantine(w, "nameQuarantine", "quarantine")
             \/ NameQuarantine(w, "nameRescue", "rescue") \/ Finish(w)
  <2>1. /\ UNCHANGED <<incoming, written, crashes, moveFailures>>
        /\ \A v \in Workers \ {w} : pc'[v] = pc[v] /\ content'[v] = content[v]
        /\ pc[w] \in Late => pc'[w] \in Late /\ content'[w] = content[w]
    BY <1>0, <1>2 DEF Take, Read, Analyze, NameReport, Outputs, NameProcessed, NameQuarantine,
         Finish, Late
  <2>2. Held(incoming') = Held(incoming)
    BY <2>1
  <2> QED
    BY <1>0, <1>1, <2>1, <2>2
<1>6. CASE WriteReport(w) /\ UNCHANGED written
  <2>1. /\ UNCHANGED <<incoming, crashes, moveFailures, content>> /\ pc[w] = "writeReport"
        /\ \A v \in Workers \ {w} : pc'[v] = pc[v]
    BY <1>0, <1>6 DEF WriteReport
  <2>2. Held(incoming') = Held(incoming) /\ pc[w] \notin Late
    BY <2>1 DEF Late
  <2> QED
    BY <1>0, <1>1, <1>6, <2>1, <2>2
<1>3. CASE WriteReport(w) /\ pc'[w] = "outputs"
  <2>1. /\ UNCHANGED <<incoming, crashes, moveFailures, content>>
        /\ pc[w] = "writeReport" /\ pc'[w] = "outputs"
        /\ \A v \in Workers \ {w} : pc'[v] = pc[v]
        /\ written' = [written EXCEPT ![content[w]] = @ + 1]
    BY <1>0, <1>3 DEF WriteReport
  <2>2. content[w] \in Contents
    BY <2>1 DEF TypedInv, Prepared, Analysing
  <2>3. file[w] \in DOMAIN incoming /\ incoming[file[w]] = content[w]
    BY <2>1, <2>2, Sizes DEF InputsInv, Holding
  <2>4. ~Finishing(content[w])
    <3> SUFFICES ASSUME NEW v \in Workers, content[v] = content[w], pc[v] \in Late
                 PROVE  FALSE
      BY DEF Finishing
    <3>1. file[v] \in DOMAIN incoming /\ incoming[file[v]] = content[w]
      BY <2>2, Sizes DEF InputsInv, Holding, Late
    <3>2. file[v] = file[w]
      BY <2>3, <3>1 DEF InputsInv, Holding, Single
    <3>3. v = w
      BY <2>1, <3>2, JobsDiffer DEF Late
    <3> QED
      BY <2>1, <3>3 DEF Late
  <2>5. Spent(content[w]) = 0
    BY <2>3, <2>4 DEF Spent, Held
  <2>6. Finishing(content[w])'
    BY <2>1 DEF Finishing, Late
  <2>7. Spent(content[w])' = 1
    BY <2>1, <2>6 DEF Spent, Finishing
  <2>8. \A d \in Contents \ {content[w]} :
          written'[d] = written[d] /\ (Finishing(d) => Finishing(d)')
    BY <1>0, <2>1 DEF Finishing, Late
  <2>9. \A d \in Contents \ {content[w]} : Spent(d)' >= Spent(d)
    BY <2>1, <2>8 DEF Spent
  <2>10. written'[content[w]] = written[content[w]] + 1
    BY <1>0, <2>1, <2>2
  <2>11. \A d \in Contents \ {content[w]} : written'[d] <= crashes' + moveFailures' + Spent(d)'
    BY <1>0, <2>1, <2>8, <2>9, OthersRepeat
  <2>12. written'[content[w]] <= crashes' + moveFailures' + Spent(content[w])'
    BY <1>0, <2>1, <2>2, <2>5, <2>7, <2>10 DEF RepeatsInv
  <2> QED
    BY <2>1, <2>11, <2>12 DEF RepeatsInv
<1>4. CASE Move(w)
  <2>1. /\ UNCHANGED <<written, crashes, content>>
        /\ pc[w] = "move" /\ pc'[w] \in {"finish", "nameRescue"}
        /\ \A v \in Workers \ {w} : pc'[v] = pc[v]
        /\ moveFailures' \in Nat /\ moveFailures' >= moveFailures
    BY <1>0, <1>4 DEF Move
  <2>2. content[w] \in Contents
    BY <2>1 DEF TypedInv, Prepared, Analysing
  <2>3. file[w] \in DOMAIN incoming /\ incoming[file[w]] = content[w]
    BY <2>1, <2>2, Sizes DEF InputsInv, Holding
  <2>4. CASE incoming' = Without(incoming, file[w])
    <3>1. Held(incoming') = Held(incoming) \ {content[w]}
      BY <2>3, <2>4, RemovedHeld DEF InputsInv, Holding
    <3> QED
      BY <1>1, <2>1, <3>1
  <2>5. CASE UNCHANGED incoming /\ pc'[w] = "nameRescue"
    <3>1. Held(incoming') = Held(incoming) /\ pc'[w] \in Late
      BY <2>5 DEF Late
    <3> QED
      BY <1>1, <2>1, <3>1
  <2> QED
    BY <1>0, <1>4, <2>1, <2>4, <2>5 DEF Move
<1>5. ASSUME \/ Quarantine(w, "quarantine", "nameRescue")
             \/ Quarantine(w, "rescue", "finish")
      PROVE  RepeatsInv'
  <2>1. /\ UNCHANGED <<written, crashes, content>>
        /\ pc[w] \in {"quarantine", "rescue"}
        /\ \A v \in Workers \ {w} : pc'[v] = pc[v]
        /\ moveFailures' \in Nat /\ moveFailures' >= moveFailures
    BY <1>0, <1>5 DEF Quarantine
  <2>2. content[w] \in Contents => file[w] \in DOMAIN incoming /\ incoming[file[w]] = content[w]
    BY <2>1, Sizes DEF InputsInv, Holding
  <2>3. CASE file[w] \in DOMAIN incoming /\ incoming' = Without(incoming, file[w])
    <3>1. Held(incoming') = Held(incoming) \ {incoming[file[w]]}
      BY <2>3, RemovedHeld DEF InputsInv, Holding
    <3>2. content[w] \notin Held(incoming')
      <4>1. CASE content[w] \in Contents
        BY <2>2, <3>1, <4>1
      <4>2. CASE content[w] = 0
        <5>1. 0 \notin Held(incoming)
          BY Sizes DEF TypedInv, TypeOK, IsDirectory, Held
        <5> QED
          BY <3>1, <4>2, <5>1
      <4> QED
        BY <1>0, <4>1, <4>2
    <3> QED
      BY <1>1, <2>1, <3>1, <3>2
  <2>4. CASE file[w] \notin DOMAIN incoming /\ UNCHANGED incoming
    <3>1. content[w] = 0
      BY <1>0, <2>2, <2>4
    <3>2. content[w] \notin Held(incoming')
      BY <2>4, <3>1, Sizes DEF TypedInv, TypeOK, IsDirectory, Held
    <3>3. Held(incoming') = Held(incoming)
      BY <2>4
    <3> QED
      BY <1>1, <2>1, <3>2, <3>3
  <2>5. CASE UNCHANGED incoming /\ moveFailures' = moveFailures + 1
    <3>1. Held(incoming') = Held(incoming) /\ moveFailures' > moveFailures
      BY <1>0, <2>5
    <3> QED
      BY <1>1, <2>1, <3>1
  <2> QED
    BY <1>5, <2>3, <2>4, <2>5 DEF Quarantine
<1> QED
  <2>1. CASE WriteReport(w)
    <3>1. pc'[w] = "outputs" \/ UNCHANGED written
      BY <1>0, <2>1 DEF WriteReport
    <3> QED
      BY <1>3, <1>6, <2>1, <3>1
  <2> QED
    BY <1>2, <1>4, <1>5, <2>1 DEF Process

\* Every step keeps the account of the reports.
LEMMA RepeatsStep ==
  ASSUME TypedInv, JobsInv, InputsInv, RepeatsInv, [Next]_vars
  PROVE  RepeatsInv'
<1> USE DEF fs, main, thread, ghost
<1>0. /\ written \in [Contents -> Nat] /\ crashes \in Nat /\ moveFailures \in Nat /\ drops \in Nat
  BY Sizes DEF TypedInv, TypeOK
<1>1. CASE UNCHANGED vars \/ MainStep \/ Signal
  <2>1. UNCHANGED <<incoming, pc, content, written, crashes, moveFailures>>
    BY <1>1 DEF vars, MainStep, Discover, Backpressure, Submit, ServeList, ListServed, LeaveLoop,
         Stopped, Restart, Signal
  <2>2. \A d \in Contents : Spent(d)' = Spent(d)
    BY <2>1 DEF Spent, Finishing, Held
  <2> QED
    BY <2>1, <2>2 DEF RepeatsInv
<1>2. CASE Drop
  <2>1. PICK n \in DropNames \ DOMAIN incoming : incoming' = With(incoming, n, drops + 1)
    BY <1>2 DEF Drop
  <2>2. /\ UNCHANGED <<pc, content, written, crashes, moveFailures>>
        /\ Held(incoming') = Held(incoming) \cup {drops + 1}
    BY <1>2, <2>1, AddedHeld DEF Drop
  <2>3. \A d \in Contents : Finishing(d)' = Finishing(d)
    BY <2>2 DEF Finishing
  <2>4. \A d \in Contents \ {drops + 1} : Spent(d)' = Spent(d)
    BY <2>2, <2>3 DEF Spent
  <2>5. \A d \in Contents : d = drops + 1 => written[d] = 0
    BY <1>0 DEF InputsInv, Holding
  <2>6. \A d \in Contents : Spent(d)' \in Nat
    BY DEF Spent
  <2> QED
    BY <1>0, <2>2, <2>4, <2>5, <2>6 DEF RepeatsInv
<1>3. CASE Crash
  <2>1. UNCHANGED <<written, moveFailures>> /\ crashes' = crashes + 1
    BY <1>3 DEF Crash
  <2>2. crashes' \in Nat /\ crashes' + moveFailures' > crashes + moveFailures
    BY <1>0, <2>1
  <2> QED
    BY <1>0, <2>1, <2>2, OthersRepeat DEF RepeatsInv
<1>4. CASE \E w \in Workers : Take(w) \/ Process(w)
  BY <1>4, ThreadRepeats
<1> QED
  BY <1>1, <1>2, <1>3, <1>4 DEF Next

\* At first nothing is written.
LEMMA InitRepeats == Init => RepeatsInv
<1> SUFFICES ASSUME Init PROVE RepeatsInv
  OBVIOUS
<1>1. \A d \in Contents : Spent(d) \in Nat
  BY DEF Spent
<1> QED
  BY <1>1 DEF Init, RepeatsInv

\* An input has a second report only after a crash or a failed move, whatever
\* collides, however stale the snapshot, and with any number of threads.
THEOREM RepeatsNeedFailures == Spec => []RepeatedOnlyAfterFailure
<1> DEFINE All == TypedInv /\ JobsInv /\ InputsInv /\ RepeatsInv
<1>1. Init => All
  BY InitTyped, InitJobs, InitInputs, InitRepeats
<1>2. All /\ [Next]_vars => All'
  BY TypeStep, JobsStep, InputsStep, RepeatsStep
<1>3. All => RepeatedOnlyAfterFailure
  <2> SUFFICES ASSUME All, NEW d \in Contents PROVE written[d] <= 1 + crashes + moveFailures
    BY DEF RepeatedOnlyAfterFailure
  <2>1. Spent(d) \in {0, 1}
    BY DEF Spent
  <2>2. written[d] \in Nat /\ crashes \in Nat /\ moveFailures \in Nat
    BY Sizes DEF TypedInv, TypeOK
  <2> QED
    BY <2>1, <2>2 DEF RepeatsInv
<1> QED
  BY <1>1, <1>2, <1>3, PTL DEF Spec
=============================================================================
