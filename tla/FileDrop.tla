------------------------------ MODULE FileDrop ------------------------------
(***************************************************************************)
(* The file-drop service of the on-prem analyzer: producers rename files   *)
(* into INCOMING_DIR, the main loop of onprem_main.py discovers them and   *)
(* hands them to worker threads (or works through them itself in           *)
(* sequential mode), and process_notable takes each file to PROCESSED_DIR  *)
(* or QUARANTINE_DIR after writing its report to REPORT_DIR.               *)
(*                                                                         *)
(* A file name is a base ("a.json") with the counters that collision       *)
(* handling appended to its stem: a_1.json is [base |-> aj, path |-> <<1>>]*)
(* whether the service produced it or somebody dropped it under that name. *)
(* A file's content is the number of the drop that created it, which is    *)
(* also its modification time.  Directories are functions from names to    *)
(* contents.  Every file operation is a step of its own: the name chosen   *)
(* by a collision loop is used one step later, and a move acts on whatever *)
(* the name denotes by then.                                               *)
(***************************************************************************)
EXTENDS Integers, Sequences, FiniteSets

CONSTANTS
    Bases,           \* undecorated file names: stem and extension
    Stems,           \* stems: what names reports
    Stem,            \* the stem of each base
    DropNames,       \* the names producers use
    Workers,         \* threads of the pool; one thread in sequential mode
    Idle,            \* a worker's file when it has none
    Modes,           \* what CONCURRENCY_ENABLED may be
    MaxQueueDepth,   \* MAX_QUEUE_DEPTH
    MaxDrops,        \* bound: files dropped
    MaxCrashes,      \* bound: kills and power losses
    MaxStops,        \* bound: graceful stops
    MaxFailures      \* bound: moves, report writes and thread starts that fail

Names == [base : Bases, path : Seq(Nat)]
ReportNames == [stem : Stems, path : Seq(Nat)]

ASSUME NamesAssumption ==
    /\ Stem \in [Bases -> Stems]
    /\ DropNames \subseteq Names
    /\ Idle \notin Names

ASSUME SizesAssumption ==
    /\ Modes \subseteq BOOLEAN
    /\ MaxQueueDepth \in Nat \ {0}
    /\ {MaxDrops, MaxCrashes, MaxStops, MaxFailures} \subseteq Nat
    /\ IsFiniteSet(Workers)
    /\ FALSE \in Modes => \A v, w \in Workers : v = w

VARIABLES
    \* the file system
    incoming, processed, quarantine, reports,
    \* the main loop
    loop,       \* where it is
    snapshot,   \* what discover_files returned: names with their mtimes
    slots,      \* available_slots
    inFlight,   \* in_flight
    pending,    \* submitted to the executor and not yet started, with mtimes
    leaked,     \* names in in_flight whose job has no done-callback
    started,    \* whether the executor has a thread
    stopping,   \* _shutdown_requested
    concurrent, \* CONCURRENCY_ENABLED, the same at every start
    \* the threads
    pc, file, content, target,
    \* ghosts and bounds
    drops,      \* files dropped so far
    written,    \* reports written of each content
    raced,      \* contents whose last report was written onto a name that
                \* another thread was also about to write
    crashes, stops,
    moveFailures,   \* moves that failed with an OSError
    faults          \* report writes and thread starts that failed

fs     == <<incoming, processed, quarantine, reports>>
main   == <<loop, snapshot, slots, inFlight, pending, leaked, started, stopping, concurrent>>
thread == <<pc, file, content, target>>
ghost  == <<drops, written, raced, crashes, stops, moveFailures, faults>>
vars   == <<fs, main, thread, ghost>>

Contents == 1 .. MaxDrops

Locations ==
    {"idle", "read", "analyze", "nameReport", "writeReport", "outputs",
     "nameProcessed", "move", "nameQuarantine", "quarantine", "nameRescue",
     "rescue", "finish"}

\* A directory: finitely many names, each with a content.
IsDirectory(dir, names) ==
    /\ DOMAIN dir \subseteq names
    /\ \A n \in DOMAIN dir : dir[n] \in Contents

\* A report has the content it was made from, or none if its write failed.
IsReportDirectory(dir) ==
    /\ DOMAIN dir \subseteq ReportNames
    /\ \A n \in DOMAIN dir : dir[n] \in Contents \cup {0}

TypeOK ==
    /\ IsDirectory(incoming, Names)
    /\ IsDirectory(processed, Names)
    /\ IsDirectory(quarantine, Names)
    /\ IsReportDirectory(reports)
    /\ loop \in {"poll", "slots", "submit", "serve", "drain", "stopped"}
    /\ IsDirectory(snapshot, Names)
    /\ slots \in Int
    /\ inFlight \subseteq Names
    /\ IsDirectory(pending, Names)
    /\ leaked \subseteq Names
    /\ started \in BOOLEAN
    /\ stopping \in BOOLEAN
    /\ concurrent \in Modes
    /\ pc \in [Workers -> Locations]
    /\ file \in [Workers -> Names \cup {Idle}]
    /\ \A w \in Workers : pc[w] = "idle" <=> file[w] = Idle
    /\ content \in [Workers -> Contents \cup {0}]
    /\ target \in [Workers -> Names \cup ReportNames \cup {Idle}]
    /\ drops \in 0 .. MaxDrops
    /\ written \in [Contents -> Nat]
    /\ raced \subseteq Contents
    /\ crashes \in 0 .. MaxCrashes
    /\ stops \in 0 .. MaxStops
    /\ moveFailures \in 0 .. MaxFailures
    /\ faults \in 0 .. MaxFailures

Empty == [n \in {} |-> 0]

Init ==
    /\ incoming = Empty /\ processed = Empty
    /\ quarantine = Empty /\ reports = Empty
    /\ loop = "poll" /\ snapshot = Empty /\ slots = 0
    /\ inFlight = {} /\ pending = Empty
    /\ leaked = {} /\ started = FALSE /\ stopping = FALSE
    /\ concurrent \in Modes
    /\ pc = [w \in Workers |-> "idle"]
    /\ file = [w \in Workers |-> Idle]
    /\ content = [w \in Workers |-> 0]
    /\ target = [w \in Workers |-> Idle]
    /\ drops = 0
    /\ written = [d \in Contents |-> 0]
    /\ raced = {}
    /\ crashes = 0 /\ stops = 0 /\ moveFailures = 0 /\ faults = 0

-----------------------------------------------------------------------------
(* Names and directories *)

Without(dir, n) == [m \in DOMAIN dir \ {n} |-> dir[m]]

\* Opening for writing or renaming onto n replaces what n denoted.
With(dir, n, c) == [m \in DOMAIN dir \cup {n} |-> IF m = n THEN c ELSE dir[m]]

Suffixed(n, k) == [n EXCEPT !.path = Append(@, k)]

\* The collision loop: the name itself if it is free, otherwise the first
\* counter that makes it free.
UnsuffixedName(n, dir) == n
FreeName(n, dir) ==
    IF n \notin DOMAIN dir THEN n
    ELSE Suffixed(n, CHOOSE k \in 1 .. Cardinality(DOMAIN dir) + 1 :
                         /\ Suffixed(n, k) \notin DOMAIN dir
                         /\ \A j \in 1 .. k - 1 : Suffixed(n, j) \in DOMAIN dir)

\* get_notable_id: reports are named after the stem, so a.json and a.txt share
\* the report names.
ReportName(n) == [stem |-> Stem[n.base], path |-> n.path]

Oldest(dir, n) == n \in DOMAIN dir /\ \A m \in DOMAIN dir : dir[n] <= dir[m]

\* Whether the bound allows another failure.
MayFail == moveFailures + faults < MaxFailures

Busy == {w \in Workers : pc[w] # "idle"}

-----------------------------------------------------------------------------
(* Producers *)

\* A complete file appears under a free name: upload to a temporary name, then
\* rename.  (A producer that reuses a name still in INCOMING_DIR replaces its
\* own file; that is not modelled.)
Drop ==
    /\ drops < MaxDrops
    /\ \E n \in DropNames \ DOMAIN incoming :
         incoming' = With(incoming, n, drops + 1)
    /\ drops' = drops + 1
    /\ UNCHANGED <<processed, quarantine, reports, main, thread,
                   written, raced, crashes, stops, moveFailures, faults>>

-----------------------------------------------------------------------------
(* The main loop: _run_concurrent and _run_sequential *)

\* discover_files: names with their modification times.
Discover ==
    /\ loop = "poll"
    /\ ~stopping
    /\ incoming # Empty
    /\ snapshot' = incoming
    /\ loop' = IF concurrent THEN "slots" ELSE "submit"
    /\ UNCHANGED <<fs, slots, inFlight, pending, leaked, started, stopping, concurrent,
                   thread, ghost>>

\* The end of an iteration: its locals are dead and the loop sleeps.
ForgetSnapshot == loop' = "poll" /\ snapshot' = Empty /\ slots' = 0

\* available_slots, and backpressure when there is none.
NoBackpressure ==
    /\ loop = "slots"
    /\ slots' = MaxQueueDepth
    /\ loop' = "submit"
    /\ UNCHANGED <<fs, snapshot, inFlight, pending, leaked, started, stopping, concurrent,
                   thread, ghost>>
Backpressure ==
    /\ loop = "slots"
    /\ LET available == MaxQueueDepth - Cardinality(inFlight) IN
         \/ available <= 0 /\ ForgetSnapshot
         \/ available > 0 /\ slots' = available /\ loop' = "submit" /\ UNCHANGED snapshot
    /\ UNCHANGED <<fs, inFlight, pending, leaked, started, stopping, concurrent, thread, ghost>>

\* The oldest discovered files that are not in flight, as many as there are
\* slots, are submitted.  The snapshot may be stale by now: a file in it may
\* have been moved and dropped from in_flight since.  executor.submit queues
\* the job and then starts a thread if the pool wants one; when that raises
\* (RuntimeError: can't start new thread), the iteration ends with this name in
\* in_flight, its job queued without the callback that would take the name out
\* again, and the younger files left for a later iteration.
Submit ==
    /\ loop = "submit"
    /\ concurrent
    /\ LET free == DOMAIN snapshot \ inFlight IN
       \E batch \in SUBSET free :
         /\ Cardinality(batch) <= slots
         /\ \A f \in batch, g \in free \ batch : snapshot[f] < snapshot[g]
         /\ inFlight' = inFlight \cup batch
         /\ pending' = [f \in DOMAIN pending \cup batch |->
                           IF f \in batch THEN snapshot[f] ELSE pending[f]]
         /\ \/ /\ batch = free \/ Cardinality(batch) = slots
               /\ started' = (started \/ batch # {})
               /\ UNCHANGED <<leaked, faults>>
            \/ \E f \in batch :
                 /\ \A g \in batch : snapshot[g] <= snapshot[f]
                 /\ MayFail
                 /\ faults' = faults + 1
                 /\ leaked' = leaked \cup {f}
                 /\ started' = (started \/ batch # {f})
    /\ ForgetSnapshot
    /\ UNCHANGED <<fs, stopping, concurrent, thread, drops, written, raced, crashes, stops,
                   moveFailures>>

\* Sequential mode works through the whole list before it looks again.
ServeList ==
    /\ loop = "submit"
    /\ ~concurrent
    /\ pending' = snapshot
    /\ snapshot' = Empty
    /\ loop' = "serve"
    /\ UNCHANGED <<fs, slots, inFlight, leaked, started, stopping, concurrent, thread, ghost>>

ListServed ==
    /\ loop = "serve"
    /\ Busy = {}
    /\ pending = Empty \/ stopping
    /\ pending' = Empty
    /\ loop' = "poll"
    /\ UNCHANGED <<fs, snapshot, slots, inFlight, leaked, started, stopping, concurrent,
                   thread, ghost>>

\* SIGTERM sets a flag; the loop sees it before the next discovery, and the
\* executor then finishes everything submitted (shutdown(wait=True)).
Signal ==
    /\ stops < MaxStops
    /\ loop # "stopped"
    /\ ~stopping
    /\ stopping' = TRUE
    /\ stops' = stops + 1
    /\ UNCHANGED <<fs, loop, snapshot, slots, inFlight, pending, leaked, started,
                   concurrent, thread, drops, written, raced, crashes, moveFailures, faults>>

LeaveLoop ==
    /\ loop = "poll"
    /\ stopping
    /\ loop' = "drain"
    /\ UNCHANGED <<fs, snapshot, slots, inFlight, pending, leaked, started,
                   stopping, concurrent, thread, ghost>>

\* A job that no thread could be started for goes down with the process, and
\* so do in_flight and the names leaked into it.
Stopped ==
    /\ loop = "drain"
    /\ pending = Empty \/ (concurrent /\ ~started)
    /\ Busy = {}
    /\ loop' = "stopped"
    /\ inFlight' = {} /\ pending' = Empty /\ leaked' = {} /\ started' = FALSE
    /\ UNCHANGED <<fs, snapshot, slots, stopping, concurrent, thread, ghost>>

Restart ==
    /\ loop = "stopped"
    /\ loop' = "poll"
    /\ stopping' = FALSE
    /\ UNCHANGED <<fs, snapshot, slots, inFlight, pending, leaked, started,
                   concurrent, thread, ghost>>

\* Power loss, or systemd killing a stop that outlives TimeoutStopSec: only
\* the directories survive, and the service is started again.
Crash ==
    /\ crashes < MaxCrashes
    /\ crashes' = crashes + 1
    /\ loop' = "poll" /\ snapshot' = Empty /\ slots' = 0
    /\ inFlight' = {} /\ pending' = Empty
    /\ leaked' = {} /\ started' = FALSE /\ stopping' = FALSE
    /\ pc' = [w \in Workers |-> "idle"]
    /\ file' = [w \in Workers |-> Idle]
    /\ content' = [w \in Workers |-> 0]
    /\ target' = [w \in Workers |-> Idle]
    /\ UNCHANGED <<fs, concurrent, drops, written, raced, stops, moveFailures, faults>>

-----------------------------------------------------------------------------
(* process_notable, one thread at a time *)

Goto(w, from, to) == pc[w] = from /\ pc' = [pc EXCEPT ![w] = to]

Aim(w, name) == target' = [target EXCEPT ![w] = name]

\* A thread of the pool takes the oldest submitted file.
Take(w) ==
    /\ IF concurrent THEN started ELSE loop = "serve" => ~stopping
    /\ Goto(w, "idle", "read")
    /\ \E f \in DOMAIN pending :
         /\ Oldest(pending, f)
         /\ file' = [file EXCEPT ![w] = f]
         /\ pending' = Without(pending, f)
    /\ UNCHANGED <<fs, loop, snapshot, slots, inFlight, leaked, started, stopping, concurrent,
                   content, target, ghost>>

\* read_notable_text: the file is gone, is rejected (unreadable, too large,
\* empty), is not UTF-8, which no handler expects, or is read.
Read(w) ==
    /\ IF file[w] \in DOMAIN incoming
       THEN /\ content' = [content EXCEPT ![w] = incoming[file[w]]]
            /\ \E next \in {"analyze", "nameQuarantine", "nameRescue"} : Goto(w, "read", next)
       ELSE /\ Goto(w, "read", "nameQuarantine")
            /\ UNCHANGED content
    /\ UNCHANGED <<fs, main, file, target, ghost>>

\* The LLM call: an analysis, an error response or an exception.
Analyze(w) ==
    /\ \E next \in {"nameReport", "nameQuarantine", "nameRescue"} : Goto(w, "analyze", next)
    /\ UNCHANGED <<fs, main, file, content, target, ghost>>

\* write_markdown_to_file: the collision loop, then write_text.
NameReport(w) ==
    /\ Goto(w, "nameReport", "writeReport")
    /\ Aim(w, FreeName(ReportName(file[w]), reports))
    /\ UNCHANGED <<fs, main, file, content, ghost>>

\* The threads about to write the name that w is about to write.
Rivals(w) ==
    {v \in Workers \ {w} : pc[v] = "writeReport" /\ target[v] = target[w]}

\* An OSError leaves the file as it was or empty, and the exception handler
\* sends the input to quarantine.
WriteReport(w) ==
    /\ \/ /\ Goto(w, "writeReport", "outputs")
          /\ reports' = With(reports, target[w], content[w])
          /\ written' = [written EXCEPT ![content[w]] = @ + 1]
          /\ raced' = IF Rivals(w) = {} THEN raced \ {content[w]}
                                        ELSE raced \cup {content[w]}
          /\ UNCHANGED faults
       \/ /\ MayFail
          /\ Goto(w, "writeReport", "nameRescue")
          /\ faults' = faults + 1
          /\ \E empty \in BOOLEAN :
               reports' = IF empty THEN With(reports, target[w], 0) ELSE reports
          /\ UNCHANGED <<written, raced>>
    /\ UNCHANGED <<incoming, processed, quarantine, main, file, content, target,
                   drops, crashes, stops, moveFailures>>

\* HTML report, case archive, Splunk writeback: their failures are logged; an
\* uncaught exception sends the input to quarantine.
Outputs(w) ==
    /\ Goto(w, "outputs", "nameProcessed") \/ Goto(w, "outputs", "nameRescue")
    /\ UNCHANGED <<fs, main, file, content, target, ghost>>

\* move_to_processed: the collision loop, then the rename of whatever the
\* input's name denotes onto whatever the chosen name denotes.  shutil.move is
\* a rename as long as the directories are on one file system, which is assumed
\* here; across file systems it would copy and then unlink, and a crash in
\* between would leave the input in both places.
NameProcessed(w) ==
    /\ Goto(w, "nameProcessed", "move")
    /\ Aim(w, FreeName(file[w], processed))
    /\ UNCHANGED <<fs, main, file, content, ghost>>

MoveCopying(w) ==
    /\ Goto(w, "move", "finish")
    /\ file[w] \in DOMAIN incoming
    /\ processed' = With(processed, target[w], incoming[file[w]])
    /\ UNCHANGED <<incoming, quarantine, reports, main, file, content, target,
                   ghost>>
Move(w) ==
    /\ \/ /\ file[w] \in DOMAIN incoming
          /\ Goto(w, "move", "finish")
          /\ processed' = With(processed, target[w], incoming[file[w]])
          /\ incoming' = Without(incoming, file[w])
          /\ UNCHANGED moveFailures
       \/ /\ file[w] \notin DOMAIN incoming
          /\ Goto(w, "move", "nameRescue")
          /\ UNCHANGED <<incoming, processed, moveFailures>>
       \/ /\ MayFail
          /\ Goto(w, "move", "nameRescue")
          /\ moveFailures' = moveFailures + 1
          /\ UNCHANGED <<incoming, processed>>
    /\ UNCHANGED <<quarantine, reports, main, file, content, target, drops,
                   written, raced, crashes, stops, faults>>

\* move_to_quarantine.  A rejection calls it, and if that move fails, the
\* exception handler calls it again (quarantine_after_failure); when the
\* handler's move fails, that is logged and the job is over.
NameQuarantine(w, from, to) ==
    /\ Goto(w, from, to)
    /\ Aim(w, FreeName(file[w], quarantine))
    /\ UNCHANGED <<fs, main, file, content, ghost>>

Quarantine(w, from, failed) ==
    /\ \/ /\ file[w] \in DOMAIN incoming
          /\ Goto(w, from, "finish")
          /\ quarantine' = With(quarantine, target[w], incoming[file[w]])
          /\ incoming' = Without(incoming, file[w])
          /\ UNCHANGED moveFailures
       \/ /\ file[w] \notin DOMAIN incoming
          /\ Goto(w, from, failed)
          /\ UNCHANGED <<incoming, quarantine, moveFailures>>
       \/ /\ file[w] \in DOMAIN incoming
          /\ MayFail
          /\ Goto(w, from, failed)
          /\ moveFailures' = moveFailures + 1
          /\ UNCHANGED <<incoming, quarantine>>
    /\ UNCHANGED <<processed, reports, main, file, content, target, drops,
                   written, raced, crashes, stops, faults>>

\* job_done_callback, run by the thread that finished the job if the job has
\* one.
FinishKeepingName(w) ==
    /\ Goto(w, "finish", "idle")
    /\ file' = [file EXCEPT ![w] = Idle]
    /\ content' = [content EXCEPT ![w] = 0]
    /\ Aim(w, Idle)
    /\ UNCHANGED <<fs, main, ghost>>
Finish(w) ==
    /\ Goto(w, "finish", "idle")
    /\ inFlight' = IF file[w] \in leaked THEN inFlight ELSE inFlight \ {file[w]}
    /\ file' = [file EXCEPT ![w] = Idle]
    /\ content' = [content EXCEPT ![w] = 0]
    /\ Aim(w, Idle)
    /\ UNCHANGED <<fs, loop, snapshot, slots, pending, leaked, started, stopping, concurrent,
                   ghost>>

-----------------------------------------------------------------------------

MainStep ==
    \/ Discover \/ Backpressure \/ Submit \/ ServeList \/ ListServed
    \/ LeaveLoop \/ Stopped \/ Restart

Process(w) ==
    \/ Read(w) \/ Analyze(w) \/ NameReport(w) \/ WriteReport(w) \/ Outputs(w)
    \/ NameProcessed(w) \/ Move(w) \/ NameQuarantine(w, "nameQuarantine", "quarantine")
    \/ Quarantine(w, "quarantine", "nameRescue")
    \/ NameQuarantine(w, "nameRescue", "rescue")
    \/ Quarantine(w, "rescue", "finish")
    \/ Finish(w)

Next ==
    \/ Drop
    \/ MainStep
    \/ Signal
    \/ Crash
    \/ \E w \in Workers : Take(w) \/ Process(w)

Spec == Init /\ [][Next]_vars

\* The main loop and the threads keep running; stopped services are started
\* again (systemd, the operator).
Fairness ==
    /\ WF_vars(MainStep)
    /\ \A w \in Workers : WF_vars(Take(w) \/ Process(w))

FairSpec == Spec /\ Fairness

-----------------------------------------------------------------------------
(* Properties *)

\* The contents that a directory holds.
Held(dir) == {dir[n] : n \in DOMAIN dir}

\* No input is ever lost or doubled: every file dropped is in exactly one of
\* INCOMING_DIR, PROCESSED_DIR and QUARANTINE_DIR, whatever collides, crashes
\* or fails.  Hazard: the collision loops check a name and use it later.
EveryInputKept ==
    \A d \in 1 .. drops :
        /\ \E dir \in {incoming, processed, quarantine} : d \in Held(dir)
        /\ Held(incoming) \cap (Held(processed) \cup Held(quarantine)) = {}
        /\ Held(processed) \cap Held(quarantine) = {}

\* An input reaches PROCESSED_DIR only with a report of its own in REPORT_DIR:
\* its content was analysed, and nobody overwrote the report afterwards.  The
\* one exception is a report that two threads wrote under one name, both having
\* found it free (inputs that share a stem, worked on at once).
ProcessedHasReport ==
    Held(processed) \ raced \subseteq Held(reports)

\* A second report of one input appears only after a crash or a failed move:
\* neither a stale snapshot, a thread that could not be started nor a graceful
\* stop repeats the work.
RepeatedOnlyAfterFailure ==
    \A d \in Contents : written[d] <= 1 + crashes + moveFailures

\* Jobs and in_flight agree: everything submitted or running is in flight, no
\* file has two jobs, nothing else is in flight but the names that a failed
\* submit left behind, and in_flight never exceeds MAX_QUEUE_DEPTH.
InFlightExact ==
    concurrent =>
        /\ Cardinality(inFlight) <= MaxQueueDepth
        /\ inFlight = DOMAIN pending \cup {file[w] : w \in Busy} \cup leaked
        /\ \A w \in Busy : file[w] \notin DOMAIN pending
        /\ \A v, w \in Busy : file[v] = file[w] => v = w

\* What keeps a file waiting for a restart: a failed submit left its name, or
\* as many names as there are slots, in in_flight.
Stuck(n) == n \in leaked \/ Cardinality(leaked) >= MaxQueueDepth

\* Every input dropped leaves INCOMING_DIR in the end, through backpressure,
\* stale snapshots, stops and restarts, unless it is stuck: and then it is
\* once the service has been started again.
EveryInputHandled ==
    \A d \in Contents :
        d \in Held(incoming) ~>
            \/ d \notin Held(incoming)
            \/ \E n \in DOMAIN incoming : incoming[n] = d /\ Stuck(n)
=============================================================================
