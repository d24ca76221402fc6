--------------------------- MODULE PortalArchive ---------------------------
(***************************************************************************)
(* One case in the PostgreSQL archive of the on-prem portal.  A worker     *)
(* that has analysed an alert of the case upserts its row and deletes its  *)
(* chunks in one transaction, embeds, replaces the chunks in a second one, *)
(* and marks the row failed in a third one when that fails; beside the     *)
(* workers an operator rebuilds the chunks and retention deletes the row   *)
(* once it has expired.  Alerts with one correlation id are analyses of    *)
(* one case, whatever their file names are, and are archived side by side  *)
(* by the worker threads (FileDrop).                                       *)
(*                                                                         *)
(* The database runs at READ COMMITTED, its default: a statement sees what *)
(* was committed when it began, waits for the rows it writes while another *)
(* transaction holds them, and goes on with what that one left.  A version *)
(* stands for one analysis, with its row and its chunks.                   *)
(***************************************************************************)
EXTENDS Integers, FiniteSets, FiniteSetsExt, Relation

CONSTANTS
    Jobs,           \* analyses archived by workers
    Old,            \* an analysis archived long ago, whose row has expired
    Rebuild, Sweep, \* rebuild_case_chunks by an operator; delete_expired_cases
    Related,        \* pairs of versions the upsert takes for one source
    Fallback,       \* versions without a structured analysis
    Sizes,          \* how many chunks build_case_chunks makes of each version
    None,           \* no row, no chunk
    Untouched,      \* a row the transaction has not written
    MaxAttempts,    \* CASE_ARCHIVE_WRITE_MAX_ATTEMPTS
    MaxFaults       \* bound: timeouts, lost answers, failed embeddings, crashes

Versions == Jobs \cup {Old}
Procs == Jobs \cup {Rebuild, Sweep}
Statuses == {"pending", "ready", "failed", "not_indexed"}
Rows == [version : Versions, status : Statuses]

ASSUME PortalAssumption ==
    /\ Related \subseteq Versions \X Versions
    /\ \A v \in Versions : <<v, v>> \in Related
    /\ Fallback \subseteq Versions
    /\ Sizes \subseteq [Versions -> Nat]
    /\ {Old, Rebuild, Sweep, None, Untouched} \cap Jobs = {}
    /\ Old # None /\ Rebuild # Sweep /\ None # Untouched
    /\ {None, Untouched} \cap Rows = {}
    /\ MaxAttempts \in Nat \ {0} /\ MaxFaults \in Nat

VARIABLES
    size,       \* the member of Sizes of this behaviour
    row,        \* cases: version and retrieval_status of the row
    chunks,     \* case_chunks: the version each chunk id was inserted from
    tx,         \* what the open transaction of each process has written and holds
    call,       \* the function each process is in
    step,       \* its next statement
    todo,       \* chunk ids its statement has still to visit
    skip,       \* those of them whose chunk has been deleted since it began
    fetched,    \* the record the rebuild works with
    tries,      \* failed attempts of the call
    result,     \* what archive_case_for_portal came to
    overtaken,  \* ghost: a status was set for a version that was not the row's, and
                \* no clean pass has indexed the row's own since
    clean,      \* ghost: passes of store_case_chunks since whose first statement
                \* no other analysis has stored chunks
    faults      \* faults so far

db == <<row, chunks, overtaken>>
portalVars == <<size, db, clean, tx, call, step, todo, skip, fetched, tries, result, faults>>

ChunksOf(v) == 1 .. size[v]
Slots == UNION {ChunksOf(v) : v \in Versions}
Record(p) == IF p = Rebuild THEN fetched ELSE p

NoTx == [row |-> Untouched, chunks |-> [s \in {} |-> None], gone |-> {}, refers |-> FALSE]
PortalInit ==
    /\ size \in Sizes
    /\ row \in {None, [version |-> Old, status |-> IF size[Old] = 0 THEN "not_indexed" ELSE "ready"]}
    /\ chunks = [s \in Slots |-> IF row # None /\ s \in ChunksOf(Old) THEN Old ELSE None]
    /\ tx = [p \in Procs |-> NoTx]
    /\ call = [p \in Procs |-> IF p \in Jobs THEN "archive" ELSE IF p = Sweep THEN "sweep" ELSE "rebuild"]
    /\ step = [p \in Procs |-> IF p \in Jobs THEN "upsert" ELSE IF p = Sweep THEN "look" ELSE "fetch"]
    /\ todo = [p \in Procs |-> {}]
    /\ skip = [p \in Procs |-> {}]
    /\ fetched = None
    /\ tries = [p \in Procs |-> 0]
    /\ result = [j \in Jobs |-> "none"]
    /\ overtaken = FALSE
    /\ clean = {}
    /\ faults = 0

-----------------------------------------------------------------------------
(* Rows, locks and waiting *)

\* What p sees of a chunk id, and who keeps it from writing.
Seen(p, s) == IF s \in DOMAIN tx[p].chunks THEN tx[p].chunks[s] ELSE chunks[s]
ChunkHolders(p, s) == {q \in Procs \ {p} : s \in DOMAIN tx[q].chunks}
RowHolders(p) == {q \in Procs \ {p} : tx[q].row # Untouched}

\* A chunk inserted for a case locks its row against deletion, not against an
\* update of other columns; it must find the row, so it waits for its deletion.
Fresh(p) == Seen(p, Min(todo[p])) = None
Referrers(p) == {q \in Procs \ {p} : tx[q].refers}
Deleters(p) == {q \in RowHolders(p) : tx[q].row = None}

\* Whom p has to wait for; who only waits himself holds up nobody.
Blockers(p) ==
    CASE step[p] \in {"upsert", "status"} -> RowHolders(p)
      [] step[p] = "remove" -> RowHolders(p) \cup Referrers(p)
      [] step[p] = "delete" -> IF Min(todo[p]) \in skip[p] THEN {} ELSE ChunkHolders(p, Min(todo[p]))
      [] step[p] = "insert" -> ChunkHolders(p, Min(todo[p])) \cup (IF Fresh(p) THEN Deleters(p) ELSE {})
      [] OTHER -> {}
At(p, s) == step[p] = s /\ Blockers(p) = {}

With(f, x, v) == [y \in DOMAIN f \cup {x} |-> IF y = x THEN v ELSE f[y]]
WriteRow(p, r) == tx' = [tx EXCEPT ![p].row = r]
WriteChunk(p, s, v, refers) ==
    tx' = [tx EXCEPT ![p] = [row |-> @.row, chunks |-> With(@.chunks, s, v),
                             gone |-> IF v = None THEN @.gone \cup {s} ELSE @.gone,
                             refers |-> @.refers \/ refers]]

StepTo(p, s) == step' = [step EXCEPT ![p] = s]
Enter(p, c, s) ==
    /\ call' = [call EXCEPT ![p] = c]
    /\ StepTo(p, s)
    /\ todo' = [todo EXCEPT ![p] = {}]
    /\ tries' = [tries EXCEPT ![p] = 0]
Return(p, r) ==
    /\ Enter(p, "over", "none")
    /\ result' = IF p \in Jobs THEN [result EXCEPT ![p] = r] ELSE result

\* The end of a transaction: what it wrote takes effect, or nothing does.  A
\* statement begun before it does not see the chunks that came in the place of
\* those it deleted.
Apply(p) ==
    /\ row' = IF tx[p].row = Untouched THEN row ELSE tx[p].row
    /\ chunks' = [s \in Slots |-> Seen(p, s)]
    /\ tx' = [tx EXCEPT ![p] = NoTx]
    /\ overtaken' = CASE call[p] = "archive" -> FALSE
                      [] call[p] \in {"index", "mark"} /\ tx[p].row # Untouched ->
                           \/ tx[p].row.version # Record(p)
                           \/ overtaken /\ ~(call[p] = "index" /\ p \in clean)
                      [] OTHER -> overtaken
    /\ clean' = IF call[p] = "index" THEN {q \in clean \ {p} : Record(q) = Record(p)} ELSE clean
    /\ skip' = [q \in Procs |-> skip[q] \cup (IF step[q] = "delete" THEN todo[q] \cap tx[p].gone ELSE {})]

\* Alternatives, each a plausible slip in the definition after it, show that
\* the properties notice; no behaviour uses them.
LeftOpen(p) == UNCHANGED <<db, clean, tx, skip>>
Rollback(p) ==
    /\ tx' = [tx EXCEPT ![p] = NoTx]
    /\ skip' = [skip EXCEPT ![p] = {}]
    /\ clean' = clean \ {p}
    /\ UNCHANGED db

-----------------------------------------------------------------------------
(* write_case_record_once: the first transaction *)

\* A retrieval_status the upsert does not take from the new record.
StatusKept(v) ==
    [version |-> v, status |-> IF row # None THEN row.status ELSE "pending"]
Archived(v) ==
    [version |-> v, status |-> IF v \in Fallback THEN "not_indexed" ELSE "pending"]

\* ON CONFLICT DO UPDATE, if the row there is of the same source ...
Upsert(j) ==
    /\ At(j, "upsert")
    /\ row # None => <<row.version, j>> \in Related
    /\ WriteRow(j, Archived(j))
    /\ StepTo(j, "scan")
    /\ UNCHANGED <<size, db, clean, call, todo, skip, fetched, tries, result, faults>>

\* ... and CaseArchiveConflictError if it is not.
Conflict(j) ==
    /\ At(j, "upsert")
    /\ row # None /\ <<row.version, j>> \notin Related
    /\ Return(j, "conflict")
    /\ UNCHANGED <<size, db, clean, tx, skip, fetched, faults>>

-----------------------------------------------------------------------------
(* DELETE FROM case_chunks WHERE case_id: in the first transaction, in the  *)
(* second, and in the cascade of a deleted case                             *)

\* What comes when the statement has visited all rows but those left.
Proceed(p, left) ==
    LET inserts == call[p] = "index" /\ size[Record(p)] > 0
    IN  /\ todo' = [todo EXCEPT ![p] = IF left = {} /\ inserts THEN ChunksOf(Record(p)) ELSE left]
        /\ StepTo(p, IF left # {} THEN "delete"
                     ELSE IF inserts THEN "insert"
                     ELSE IF call[p] = "index" THEN "status" ELSE "commit")

Scan(p) ==
    /\ At(p, "scan")
    /\ Proceed(p, {s \in Slots : Seen(p, s) # None})
    /\ clean' = IF call[p] = "index" THEN clean \cup {p} ELSE clean
    /\ UNCHANGED <<size, db, tx, call, skip, fetched, tries, result, faults>>

\* A chunk that is gone by now is passed over, and so is one inserted in its
\* place since the statement began.
Delete(p) ==
    /\ At(p, "delete")
    /\ LET s == Min(todo[p])
       IN  /\ IF s \in skip[p] \/ Seen(p, s) = None THEN UNCHANGED tx ELSE WriteChunk(p, s, None, FALSE)
           /\ skip' = [skip EXCEPT ![p] = @ \ {s}]
           /\ Proceed(p, todo[p] \ {s})
    /\ UNCHANGED <<size, db, clean, call, fetched, tries, result, faults>>

-----------------------------------------------------------------------------
(* store_case_chunks and mark_case_retrieval_status *)

\* _encode_chunk_vectors, outside the transaction.
Embed(p) ==
    /\ At(p, "embed")
    /\ StepTo(p, "scan")
    /\ UNCHANGED <<size, db, clean, tx, call, todo, skip, fetched, tries, result, faults>>

\* INSERT ... ON CONFLICT (chunk_id) DO UPDATE, once per chunk.
Insert(p) ==
    /\ At(p, "insert")
    /\ Fresh(p) => row # None
    /\ WriteChunk(p, Min(todo[p]), Record(p), Fresh(p))
    /\ todo' = [todo EXCEPT ![p] = @ \ {Min(@)}]
    /\ StepTo(p, IF todo[p] = {Min(todo[p])} THEN "status" ELSE "insert")
    /\ UNCHANGED <<size, db, clean, call, skip, fetched, tries, result, faults>>

\* UPDATE cases SET retrieval_status WHERE case_id, whatever the row is by now.
SetStatus(p) ==
    /\ At(p, "status")
    /\ IF row = None THEN UNCHANGED tx
       ELSE WriteRow(p, [row EXCEPT !.status = IF call[p] = "mark" THEN "failed"
                                               ELSE IF size[Record(p)] = 0 THEN "not_indexed" ELSE "ready"])
    /\ StepTo(p, "commit")
    /\ UNCHANGED <<size, db, clean, call, todo, skip, fetched, tries, result, faults>>

Commit(p) ==
    /\ At(p, "commit")
    /\ Apply(p)
    /\ CASE call[p] = "archive" -> Enter(p, "index", "embed") /\ UNCHANGED result
         [] call[p] = "index" -> Return(p, "stored")
         [] call[p] = "mark" -> Return(p, "unindexed")
         [] call[p] = "sweep" -> Return(p, "swept")
    /\ UNCHANGED <<size, fetched, faults>>

-----------------------------------------------------------------------------
(* Failures *)

\* The call raises: archive_case_for_portal marks the case, or returns False.
GiveUp(p) ==
    IF p \in Jobs /\ call[p] = "index"
    THEN Enter(p, "mark", "status") /\ UNCHANGED result
    ELSE Return(p, CASE call[p] = "archive" -> "dropped" [] call[p] = "mark" -> "unmarked" [] OTHER -> "stopped")

\* _is_retryable: once more, up to CASE_ARCHIVE_WRITE_MAX_ATTEMPTS.
Retry(p) ==
    IF call[p] = "sweep" \/ tries[p] + 1 >= MaxAttempts THEN GiveUp(p)
    ELSE /\ tries' = [tries EXCEPT ![p] = @ + 1]
         /\ todo' = [todo EXCEPT ![p] = {}]
         /\ StepTo(p, CASE call[p] = "archive" -> "upsert" [] call[p] = "index" -> "scan" [] OTHER -> "status")
         /\ UNCHANGED <<call, result>>

Fault == faults < MaxFaults /\ faults' = faults + 1

\* A statement is cancelled or the connection is lost.
Timeout(p) ==
    /\ step[p] \in {"upsert", "scan", "delete", "insert", "status", "remove", "commit"}
    /\ Fault
    /\ Rollback(p)
    /\ Retry(p)
    /\ UNCHANGED <<size, fetched>>

\* The commit takes effect and its answer is lost.
LostCommit(p) ==
    /\ At(p, "commit")
    /\ Fault
    /\ Apply(p)
    /\ Retry(p)
    /\ UNCHANGED <<size, fetched>>

\* ForeignKeyViolation is not among the names that are retried ...
NoCase(p) ==
    /\ At(p, "insert")
    /\ Fresh(p) /\ row = None
    /\ Rollback(p)
    /\ GiveUp(p)
    /\ UNCHANGED <<size, fetched, faults>>

\* ... and neither is DeadlockDetected, by which PostgreSQL ends a circle of
\* transactions that wait for each other at one of them.
Waiters == {p \in Procs : Blockers(p) # {}}
Waits == [e \in Waiters \X Waiters |-> e[2] \in Blockers(e[1])]
Deadlocked == {p \in Waiters : TransitiveClosure(Waits, Waiters)[p, p]}
BreakDeadlock(p) ==
    /\ p \in Deadlocked
    /\ Rollback(p)
    /\ GiveUp(p)
    /\ UNCHANGED <<size, fetched, faults>>

\* What the embedding model raises is not a CaseChunkWriteError: it passes
\* through archive_case_for_portal, and the row stays as it is.
EmbedFails(p) ==
    /\ At(p, "embed")
    /\ Fault
    /\ Return(p, "raised")
    /\ UNCHANGED <<size, db, clean, tx, skip, fetched>>

\* The analyzer dies and starts again: its transactions are rolled back, and
\* inputs that were not finished are analysed again.
Restart ==
    LET again == {j \in Jobs : call[j] # "over"}
    IN  /\ Fault
        /\ tx' = [p \in Procs |-> IF p = Rebuild THEN tx[p] ELSE NoTx]
        /\ call' = [p \in Procs |-> IF p \in again THEN "archive" ELSE IF p = Sweep THEN "sweep" ELSE call[p]]
        /\ step' = [p \in Procs |-> IF p \in again THEN "upsert" ELSE IF p = Sweep THEN "look" ELSE step[p]]
        /\ todo' = [p \in Procs |-> IF p = Rebuild THEN todo[p] ELSE {}]
        /\ skip' = [p \in Procs |-> IF p = Rebuild THEN skip[p] ELSE {}]
        /\ clean' = clean \cap {Rebuild}
        /\ tries' = [p \in Procs |-> IF p = Rebuild THEN tries[p] ELSE 0]
        /\ UNCHANGED <<size, db, fetched, result>>

-----------------------------------------------------------------------------
(* rebuild_case_chunks and delete_expired_cases *)

Rebuildable == row # None /\ row.status # "not_indexed" /\ row.version \notin Fallback
Fetch ==
    /\ At(Rebuild, "fetch")
    /\ IF Rebuildable
       THEN Enter(Rebuild, "index", "embed") /\ fetched' = row.version /\ UNCHANGED result
       ELSE Return(Rebuild, "skipped") /\ UNCHANGED fetched
    /\ UNCHANGED <<size, db, clean, tx, skip, faults>>

\* The CTE expired ...
Look ==
    /\ At(Sweep, "look")
    /\ IF row # None /\ row.version = Old
       THEN StepTo(Sweep, "remove") /\ UNCHANGED <<call, todo, tries, result>>
       ELSE Return(Sweep, "swept")
    /\ UNCHANGED <<size, db, clean, tx, skip, fetched, faults>>

\* ... and the DELETE, which joins it on case_id alone: after a wait it takes
\* the row of that id, whatever its expires_at has become.
Remove ==
    /\ At(Sweep, "remove")
    /\ IF row = None THEN StepTo(Sweep, "commit") /\ UNCHANGED tx
       ELSE WriteRow(Sweep, None) /\ StepTo(Sweep, "scan")
    /\ UNCHANGED <<size, db, clean, call, todo, skip, fetched, tries, result, faults>>

-----------------------------------------------------------------------------
Work(p) ==
    \/ p \in Jobs /\ (Upsert(p) \/ Conflict(p))
    \/ p = Rebuild /\ Fetch
    \/ p = Sweep /\ (Look \/ Remove)
    \/ Scan(p) \/ Delete(p) \/ Embed(p) \/ Insert(p) \/ NoCase(p) \/ SetStatus(p) \/ Commit(p)

PortalNext ==
    \/ \E p \in Procs : Work(p) \/ BreakDeadlock(p) \/ Timeout(p) \/ LostCommit(p) \/ EmbedFails(p)
    \/ Restart

PortalSpec == PortalInit /\ [][PortalNext]_portalVars

\* While one process can go on, or a circle of them can be broken, something
\* happens; faults need not happen.
FairPortalSpec == PortalSpec /\ WF_portalVars(\E p \in Procs : Work(p) \/ BreakDeadlock(p))

-----------------------------------------------------------------------------
(* Properties *)

PortalTypeOK ==
    /\ size \in Sizes
    /\ row \in Rows \cup {None}
    /\ chunks \in [Slots -> Versions \cup {None}]
    /\ tx \in [Procs -> [row : Rows \cup {None, Untouched},
                         chunks : UNION {[S -> Versions \cup {None}] : S \in SUBSET Slots},
                         gone : SUBSET Slots, refers : BOOLEAN]]
    /\ call \in [Procs -> {"archive", "index", "mark", "rebuild", "sweep", "over"}]
    /\ todo \in [Procs -> SUBSET Slots] /\ skip \in [Procs -> SUBSET Slots]
    /\ fetched \in Versions \cup {None}
    /\ tries \in [Procs -> 0 .. MaxAttempts - 1]
    /\ result \in [Jobs -> {"none", "stored", "unindexed", "unmarked", "dropped", "raised", "conflict"}]
    /\ overtaken \in BOOLEAN /\ clean \subseteq Procs /\ faults \in 0 .. MaxFaults

\* A case that chat searches (case_chat.py selects retrieval_status = 'ready')
\* has the chunks of its own analysis, all of them and no other, and a case
\* whose structured analysis was reported stored is searched, unless it has no
\* chunks: in every interleaving of workers, rebuild and retention, and after
\* every failure.  Two analyses indexed at once can break this, when one stores
\* its chunks, or sets its status, under the row of the other; from there on
\* the case is excepted until its row is archived anew or the row's own
\* analysis is indexed from beginning to end with no other one storing chunks
\* in between.
SearchIsTruthful ==
    row # None /\ ~overtaken =>
        /\ row.status = "ready" =>
              \A s \in Slots : chunks[s] = IF s \in ChunksOf(row.version) THEN row.version ELSE None
        /\ row.version \in Jobs \ Fallback /\ result[row.version] = "stored" =>
              row.status = IF size[row.version] = 0 THEN "not_indexed" ELSE "ready"

\* Every archive, rebuild and retention pass comes to its end, although each
\* waits for locks of the others and takes rows in another order.
EveryCallEnds == <>(\A p \in Procs : call[p] = "over")
=============================================================================
