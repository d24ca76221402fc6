--------------------------- MODULE SideEffectLock ---------------------------
(***************************************************************************)
(* The file-backed idempotency guard of the on-prem service                *)
(* (onprem_service/idempotency.py) around one external write, as its two   *)
(* callers use it: sinks.update_splunk_notable and                         *)
(* servicenow.create_servicenow_incident.                                  *)
(*                                                                         *)
(* One key is modelled: the marker and the lock of a key are two files of  *)
(* their own, and no step touches the files of two keys.  The actors are   *)
(* the worker threads of one service process whose inputs share the key    *)
(* (a.json and a.txt have the same finding id, and so has a file dropped   *)
(* again under its old name).  Every file operation is an atomic step and  *)
(* any number of steps of other threads may come between two of them.      *)
(*                                                                         *)
(* Time is counted in coarse units and only where the code compares it:    *)
(* the age of the lock file and how long a caller has been waiting.        *)
(***************************************************************************)
EXTENDS Naturals, FiniteSets

CONSTANTS
    Workers,      \* threads of the service working on inputs with this key
    Nobody,       \* the lock file does not exist
    Orphan,       \* the lock file exists and no running thread created it
    WaitTimeout,  \* _LOCK_WAIT_TIMEOUT_SECONDS, in units of time
    StaleAfter,   \* _LOCK_STALE_SECONDS, in units of time
    HoldMax,      \* the longest a live thread keeps the lock (POST timeout)
    MaxJobs,      \* bound: inputs each thread processes
    MaxCrashes,   \* bound: restarts of the process
    Faults        \* the failures that may happen in a run

FaultKinds ==
    {"crash", "lockWrite", "unlink", "release", "markerWrite", "ambiguous",
     "retention"}

ASSUME ActorsAssumption ==
    /\ Nobody \notin Workers
    /\ Orphan \notin Workers
    /\ Nobody # Orphan

ASSUME TimesAssumption ==
    /\ WaitTimeout \in Nat
    /\ StaleAfter \in Nat
    /\ HoldMax \in Nat
    /\ HoldMax <= StaleAfter

ASSUME BoundsAssumption ==
    /\ MaxJobs \in Nat
    /\ MaxCrashes \in Nat
    /\ Faults \subseteq FaultKinds

VARIABLES
    marker,   \* the marker file of the key exists
    lock,     \* ghost content of the lock file: who created it
    lockAge,  \* now - st_mtime of the lock file, capped past StaleAfter
    pc,       \* where each thread is in the guarded write
    pruning,  \* retention has judged the lock file old and unlinks it next
    waited,   \* time since each thread computed its deadline, capped
    outcome,  \* what the guarded write reports for the current input
    jobs,     \* inputs each thread has left
    crashes,  \* restarts so far
    applied,  \* writes the external system has carried out
    lapses    \* ghost: kinds of events that happened and weaken the guard

vars == <<marker, lock, lockAge, pruning, pc, waited, outcome, jobs, crashes,
          applied, lapses>>

Locations ==
    {"idle", "read", "open", "stat", "unlink", "recheck", "post", "record",
     "release", "done"}

\* The loop of begin_side_effect that runs before the lock is acquired.
Waiting == {"read", "open", "stat", "unlink"}

\* From the creation of the lock file to its removal.
Holding == {"recheck", "post", "record", "release"}

Outcomes == {"none", "success", "unrecorded", "skipped", "error"}

\* "orphan": a lock file was left behind by a thread that no longer runs.
LapseKinds == {"orphan", "steal", "ambiguous", "markerWrite", "crash", "retention"}

TypeOK ==
    /\ marker \in BOOLEAN
    /\ lock \in Workers \cup {Nobody, Orphan}
    /\ lockAge \in 0 .. (StaleAfter + 1)
    /\ pruning \in BOOLEAN
    /\ pc \in [Workers -> Locations]
    /\ waited \in [Workers -> 0 .. WaitTimeout]
    /\ outcome \in [Workers -> Outcomes]
    /\ jobs \in [Workers -> 0 .. MaxJobs]
    /\ crashes \in 0 .. MaxCrashes
    /\ applied \in Nat
    /\ lapses \subseteq LapseKinds

Init ==
    /\ marker = FALSE
    /\ lock = Nobody
    /\ lockAge = 0
    /\ pruning = FALSE
    /\ pc = [w \in Workers |-> "idle"]
    /\ waited = [w \in Workers |-> 0]
    /\ outcome = [w \in Workers |-> "none"]
    /\ jobs = [w \in Workers |-> MaxJobs]
    /\ crashes = 0
    /\ applied = 0
    /\ lapses = {}

-----------------------------------------------------------------------------
(* Helpers *)

Goto(w, from, to) == pc[w] = from /\ pc' = [pc EXCEPT ![w] = to]

Report(w, result) == outcome' = [outcome EXCEPT ![w] = result]

LockExists == lock # Nobody

\* _lock_is_stale; a lock file that has vanished counts as fresh.
LockIsStale == LockExists /\ lockAge > StaleAfter

DeadlinePassed(w) == waited[w] >= WaitTimeout

\* unlink of the lock path by w, or by retention (Nobody): nothing ties the file to its creator, so the
\* lock of another running thread goes as readily as one's own.
UnlinkLock(w) ==
    /\ lock' = Nobody
    /\ lockAge' = 0
    /\ lapses' = IF lock \in Workers \ {w} THEN lapses \cup {"steal"} ELSE lapses

\* The lock file stays and its creator goes on without it.
Orphaned == lock' = Orphan /\ lapses' = lapses \cup {"orphan"}

-----------------------------------------------------------------------------
(* begin_side_effect *)

\* A thread reaches the guarded write of its next input: the deadline is set.
Begin(w) ==
    /\ jobs[w] > 0
    /\ Goto(w, "idle", "read")
    /\ waited' = [waited EXCEPT ![w] = 0]
    /\ Report(w, "none")
    /\ UNCHANGED <<pruning, marker, lock, lockAge, jobs, crashes, applied, lapses>>

\* Top of the loop: a marker ends the call with should_execute = False.
ReadMarker(w) ==
    /\ \/ marker /\ Goto(w, "read", "done") /\ Report(w, "skipped")
       \/ ~marker /\ Goto(w, "read", "open") /\ UNCHANGED outcome
    /\ UNCHANGED <<pruning, marker, lock, lockAge, waited, jobs, crashes, applied, lapses>>

\* _acquire_lock: O_CREAT | O_EXCL.  The file is created even when writing its
\* content then fails: the OSError leaves the lock behind.
OpenIgnoringExisting(w) ==
    /\ \/ lock' = w /\ Goto(w, "open", "recheck") /\ UNCHANGED outcome
       \/ LockExists /\ Goto(w, "open", "stat") /\ UNCHANGED <<lock, outcome>>
    /\ lockAge' = IF lock' = lock THEN lockAge ELSE 0
    /\ UNCHANGED <<pruning, marker, waited, jobs, crashes, applied, lapses>>
AcquireLock(w) ==
    /\ \/ /\ ~LockExists
          /\ lock' = w
          /\ Goto(w, "open", "recheck")
          /\ UNCHANGED <<outcome, lapses>>
       \/ /\ ~LockExists
          /\ "lockWrite" \in Faults
          /\ lock' = Orphan
          /\ lapses' = lapses \cup {"orphan"}
          /\ Goto(w, "open", "done")
          /\ Report(w, "error")
       \/ /\ LockExists
          /\ Goto(w, "open", "stat")
          /\ UNCHANGED <<lock, outcome, lapses>>
    /\ lockAge' = IF LockExists THEN lockAge ELSE 0
    /\ UNCHANGED <<pruning, marker, waited, jobs, crashes, applied>>

\* FileExistsError: a stale lock is unlinked next; otherwise the deadline
\* decides between TimeoutError and another round after a short sleep.
CheckLockNeverUnlinking(w) ==
    /\ \/ LockIsStale /\ Goto(w, "stat", "read") /\ UNCHANGED outcome
       \/ ~LockIsStale /\ DeadlinePassed(w) /\ Goto(w, "stat", "done") /\ Report(w, "error")
       \/ ~LockIsStale /\ ~DeadlinePassed(w) /\ Goto(w, "stat", "read") /\ UNCHANGED outcome
    /\ UNCHANGED <<pruning, marker, lock, lockAge, waited, jobs, crashes, applied, lapses>>
CheckLock(w) ==
    /\ \/ LockIsStale /\ Goto(w, "stat", "unlink") /\ UNCHANGED outcome
       \/ ~LockIsStale /\ DeadlinePassed(w) /\ Goto(w, "stat", "done") /\ Report(w, "error")
       \/ ~LockIsStale /\ ~DeadlinePassed(w) /\ Goto(w, "stat", "read") /\ UNCHANGED outcome
    /\ UNCHANGED <<pruning, marker, lock, lockAge, waited, jobs, crashes, applied, lapses>>

\* The unlink of a lock judged stale a moment ago; its failure is ignored and
\* either way the loop continues without looking at the deadline.
UnlinkStale(w) ==
    /\ Goto(w, "unlink", "read")
    /\ \/ UnlinkLock(w)
       \/ "unlink" \in Faults /\ UNCHANGED <<lock, lockAge, lapses>>
    /\ UNCHANGED <<pruning, marker, waited, outcome, jobs, crashes, applied>>

\* With the lock held the marker is read again; if it has appeared the lock is
\* given back and the call ends with should_execute = False.
NoRecheck(w) ==
    /\ Goto(w, "recheck", "post") /\ UNCHANGED outcome
    /\ UNCHANGED <<pruning, marker, lock, lockAge, waited, jobs, crashes, applied, lapses>>
RecheckMarker(w) ==
    /\ \/ marker /\ Goto(w, "recheck", "release") /\ Report(w, "skipped")
       \/ ~marker /\ Goto(w, "recheck", "post") /\ UNCHANGED outcome
    /\ UNCHANGED <<pruning, marker, lock, lockAge, waited, jobs, crashes, applied, lapses>>

-----------------------------------------------------------------------------
(* The external write and what follows it *)

\* requests.post and raise_for_status: the write happens and is confirmed, it
\* fails, or it happens and the answer is lost (a timeout is an error too).
PostErrorRecorded(w) ==
    /\ \/ Goto(w, "post", "record") /\ applied' = applied + 1 /\ UNCHANGED <<outcome, lapses>>
       \/ Goto(w, "post", "record") /\ UNCHANGED <<applied, outcome, lapses>>
    /\ UNCHANGED <<pruning, marker, lock, lockAge, waited, jobs, crashes>>
Post(w) ==
    /\ \/ /\ Goto(w, "post", "record")
          /\ applied' = applied + 1
          /\ UNCHANGED <<outcome, lapses>>
       \/ /\ Goto(w, "post", "release")
          /\ Report(w, "error")
          /\ UNCHANGED <<applied, lapses>>
       \/ /\ "ambiguous" \in Faults
          /\ Goto(w, "post", "release")
          /\ Report(w, "error")
          /\ applied' = applied + 1
          /\ lapses' = lapses \cup {"ambiguous"}
    /\ UNCHANGED <<pruning, marker, lock, lockAge, waited, jobs, crashes>>

\* complete_side_effect_success: write a temporary file, rename it over the
\* marker; on OSError the write stays unrecorded and the lock is released.
RecordMarker(w) ==
    /\ Goto(w, "record", "release")
    /\ \/ /\ marker' = TRUE
          /\ Report(w, "success")
          /\ UNCHANGED lapses
       \/ /\ "markerWrite" \in Faults
          /\ Report(w, "unrecorded")
          /\ lapses' = lapses \cup {"markerWrite"}
          /\ UNCHANGED marker
    /\ UNCHANGED <<pruning, lock, lockAge, waited, jobs, crashes, applied>>

\* release_side_effect_lock: unlinks whatever file is there; a failure other
\* than FileNotFoundError is only logged and the lock stays.
ReleaseLock(w) ==
    /\ Goto(w, "release", "done")
    /\ \/ UnlinkLock(w)
       \/ /\ "release" \in Faults
          /\ IF lock = w THEN Orphaned ELSE UNCHANGED <<lock, lapses>>
          /\ UNCHANGED lockAge
    /\ UNCHANGED <<pruning, marker, waited, outcome, jobs, crashes, applied>>

\* Whatever the outcome, process_notable goes on to move_to_processed.
FinishJob(w) ==
    /\ Goto(w, "done", "idle")
    /\ jobs' = [jobs EXCEPT ![w] = @ - 1]
    /\ UNCHANGED <<pruning, marker, lock, lockAge, waited, outcome, crashes, applied, lapses>>

-----------------------------------------------------------------------------
(* The environment *)

\* The process dies and is restarted: every input not yet moved is still in
\* INCOMING_DIR and starts over; the files of the key stay as they are.
Crash ==
    /\ "crash" \in Faults
    /\ crashes < MaxCrashes
    /\ crashes' = crashes + 1
    /\ pc' = [w \in Workers |-> "idle"]
    /\ pruning' = FALSE
    /\ lock' = IF LockExists THEN Orphan ELSE Nobody
    /\ lapses' = lapses \cup (IF LockExists THEN {"orphan"} ELSE {})
                       \cup {k \in {"crash"} : \E w \in Workers : pc[w] = "record"}
    /\ UNCHANGED <<marker, lockAge, waited, outcome, jobs, applied>>

\* run_retention deletes every file of the directory that is older than
\* SIDE_EFFECT_IDEMPOTENCY_RETENTION_DAYS, markers and locks alike.
PruneMarker ==
    /\ "retention" \in Faults
    /\ marker
    /\ marker' = FALSE
    /\ lapses' = lapses \cup {"retention"}
    /\ UNCHANGED <<pruning, lock, lockAge, pc, waited, outcome, jobs, crashes, applied>>

\* A file of that age is no running thread's, but nothing keeps waiting threads
\* from unlinking it first and locking anew before retention unlinks the path.
PruneCheck ==
    /\ "retention" \in Faults
    /\ ~pruning
    /\ LockIsStale
    /\ lock = Orphan
    /\ pruning' = TRUE
    /\ UNCHANGED <<marker, lock, lockAge, pc, waited, outcome, jobs, crashes, applied, lapses>>

PruneLock ==
    /\ pruning
    /\ pruning' = FALSE
    /\ \/ UnlinkLock(Nobody)
       \/ "unlink" \in Faults /\ UNCHANGED <<lock, lockAge, lapses>>
    /\ UNCHANGED <<marker, pc, waited, outcome, jobs, crashes, applied>>

\* Time passes.  A running holder is never older than HoldMax: its POST has a
\* timeout (30 s) far below the staleness limit (300 s).
Tick ==
    /\ lock \in Workers => lockAge < HoldMax
    /\ \/ LockExists /\ lockAge <= StaleAfter
       \/ \E w \in Workers : pc[w] \in Waiting /\ waited[w] < WaitTimeout
    /\ lockAge' = IF LockExists /\ lockAge <= StaleAfter THEN lockAge + 1 ELSE lockAge
    /\ waited' = [w \in Workers |->
                    IF pc[w] \in Waiting /\ waited[w] < WaitTimeout
                    THEN waited[w] + 1 ELSE waited[w]]
    /\ UNCHANGED <<pruning, marker, lock, pc, outcome, jobs, crashes, applied, lapses>>

-----------------------------------------------------------------------------

Step(w) ==
    \/ Begin(w) \/ ReadMarker(w) \/ AcquireLock(w) \/ CheckLock(w)
    \/ UnlinkStale(w) \/ RecheckMarker(w) \/ Post(w) \/ RecordMarker(w)
    \/ ReleaseLock(w) \/ FinishJob(w)

Next ==
    \/ \E w \in Workers : Step(w)
    \/ Crash
    \/ PruneMarker
    \/ PruneCheck
    \/ PruneLock
    \/ Tick

Spec == Init /\ [][Next]_vars

\* Threads of the pool are scheduled by the operating system, time passes, and
\* the unlink of a stale lock does not fail for ever: begin_side_effect goes on
\* trying it without looking at its deadline.
Fairness ==
    /\ WF_vars(Tick)
    /\ \A w \in Workers : WF_vars(Step(w)) /\ SF_vars(UnlinkStale(w) /\ lock' = Nobody)

FairSpec == Spec /\ Fairness

-----------------------------------------------------------------------------
(* Properties *)

\* Mutual exclusion as long as no lock was taken from a running thread: every
\* thread between creating and removing the lock file owns the file that is
\* there, so two threads are never in the guarded write together.  Neither
\* begin_side_effect nor release_side_effect_lock checks whose lock it unlinks.
HolderOwnsLock ==
    "steal" \notin lapses => \A w \in Workers : pc[w] \in Holding => lock = w

\* The external write is carried out at most once per key unless one of the
\* named events happened: a lock taken from a running thread, an answer lost
\* after the write, a marker that could not be written, a crash between the
\* write and its marker, a marker deleted by retention.
AtMostOnceUnlessLapse ==
    lapses \subseteq {"orphan"} => applied <= 1

\* A caller told that the write was already completed is told the truth: the
\* write has happened, through every interleaving, crash and failed release.
SkipMeansApplied ==
    \A w \in Workers : outcome[w] = "skipped" => applied > 0

\* A lock is taken from a running thread only after some lock was orphaned by a
\* crash, a failed content write or a failed release: neither the age test nor
\* retention alone robs a holder whose POST respects its timeout.
StealNeedsOrphan ==
    "steal" \in lapses => "orphan" \in lapses

\* Every call of begin_side_effect returns, to a skip, an execution or an
\* error: the wait is bounded and a lock left behind never blocks for ever.
EveryCallReturns ==
    \A w \in Workers : pc[w] = "read" ~> pc[w] \in {"done", "post", "idle"}

=============================================================================
