---------------------------- MODULE BlobPipeline ----------------------------
(***************************************************************************)
(* The Azure analyzer for one input blob: intake of its versions, the      *)
(* analyzer queue, and process_blob_created from the ETag-conditional read *)
(* through the report blobs, the Splunk writeback guarded by a Cosmos      *)
(* reservation, and the case archive, to the embed request                 *)
(* (REPORT_SINK_MODE=notable_rest, side-effect idempotency, case archive   *)
(* and case QA enabled).                                                   *)
(*                                                                         *)
(* A message has one invocation at most: the host renews its lease while   *)
(* the function runs.  Every call to a store is an atomic step.  A call    *)
(* that raises and is not caught fails the invocation, with or without its *)
(* effect: Fail before the call's action, or after it.                     *)
(***************************************************************************)
EXTENDS Integers, FiniteSets

CONSTANTS
    Messages,       \* analyzer queue messages
    MaxVersion,     \* bound: how often the blob is written under its name
    MaxDequeue,     \* maxDequeueCount of host.json
    LockOutlasts,   \* SIDE_EFFECT_IDEMPOTENCY_LOCK_SECONDS > functionTimeout
    FailClosed,     \* CASE_ARCHIVE_FAILURE_MODE = fail_closed
    Faults,         \* the failures that may happen in a run
    MaxFaults       \* bound: how many of them

FaultKinds == {"fail", "store", "refused", "lostAnswer", "archive", "ttl"}

ASSUME JobsAssumption ==
    /\ IsFiniteSet(Messages)
    /\ MaxVersion \in Nat \ {0}

ASSUME LimitsAssumption ==
    /\ MaxDequeue \in Nat \ {0}
    /\ LockOutlasts \in BOOLEAN
    /\ FailClosed \in BOOLEAN
    /\ Faults \subseteq FaultKinds
    /\ MaxFaults \in Nat

VARIABLES
    version,    \* the version of the blob in the input container
    etag,       \* the version each message announces, 0 before it is sent
    pc,         \* where each message, or the invocation working on it, is
    dequeues,   \* dequeue count of each message
    report,     \* the version each report blob was written for, 0 if absent
    item,       \* status and fencing token of the Cosmos reservation
    stale,      \* whether the reservation is older than the lock
    token,      \* the fencing token of each invocation, or the one it read
    applied,    \* comments Splunk has added
    runs,       \* the runs of the case item
    latest,     \* its case_envelope_key, as the run's version; 0 if not set
    hasCase,    \* whether the case item exists
    envelopes,  \* versions whose envelope blob exists
    key,        \* the envelope key archive_case returned to each invocation
    requested,  \* envelope keys sent to the embed queue
    overtaken,  \* ghost: jobs that were past their read when the blob changed
    renewals,   \* ghost: reservations taken over or released
    expiries,   \* ghost: reservations deleted by Cosmos
    faults      \* failures so far

vars == <<version, etag, pc, dequeues, report, item, stale, token, applied, runs, latest,
          hasCase, envelopes, key, requested, overtaken, renewals, expiries, faults>>

guard == <<item, stale, token, applied, renewals, expiries>>
archive == <<runs, latest, hasCase, envelopes, key, requested>>
intake == <<version, etag, dequeues, overtaken>>

Kinds == {"md", "json"}
Versions == 1 .. MaxVersion

Waiting == {"unpublished", "queued"}
Ended == {"done", "superseded", "poison"}
Sink == {"md", "json", "reserve", "found", "takeover", "again", "seen", "post", "record",
         "mark", "release"}
Archiving == {"look", "create", "reread", "write", "publish"}
PastRead == Sink \cup Archiving \cup {"enqueue"}
Running == {"read"} \cup PastRead

Outcomes == {"completed", "external_success_unrecorded"}

\* A uuid4 is known by who made it, in which delivery, and for which request.
Tokens == Messages \X (0 .. MaxDequeue) \X {"put", "take"}
NoItem == [status |-> "absent"]
InProgress(t) == [status |-> "in_progress", token |-> t]
Items == [status : {"in_progress"} \cup Outcomes, token : Tokens]

\* A run of the case: claimed by one invocation, then completed.
NoRun == [state |-> "none"]
Claimed(m) == [state |-> "claimed", by |-> <<m, dequeues[m]>>]
Completed(m) == [state |-> "completed", by |-> <<m, dequeues[m]>>]
Runs == [state : {"claimed", "completed"}, by : Messages \X (0 .. MaxDequeue)]

TypeOK ==
    /\ version \in Versions
    /\ etag \in [Messages -> 0 .. MaxVersion]
    /\ pc \in [Messages -> Waiting \cup Running \cup Ended]
    /\ dequeues \in [Messages -> 0 .. MaxDequeue]
    /\ report \in [Kinds -> 0 .. MaxVersion]
    /\ item \in Items \cup {NoItem}
    /\ stale \in BOOLEAN
    /\ token \in [Messages -> Tokens]
    /\ applied \in Nat
    /\ runs \in [Versions -> Runs \cup {NoRun}]
    /\ latest \in 0 .. MaxVersion
    /\ hasCase \in BOOLEAN
    /\ envelopes \subseteq Versions
    /\ key \in [Messages -> 0 .. MaxVersion]
    /\ requested \subseteq Versions
    /\ overtaken \subseteq Messages
    /\ renewals \in Nat
    /\ expiries \in Nat
    /\ faults \in 0 .. MaxFaults

Init ==
    /\ version = 1
    /\ etag = [m \in Messages |-> 0]
    /\ pc = [m \in Messages |-> "unpublished"]
    /\ dequeues = [m \in Messages |-> 0]
    /\ report = [k \in Kinds |-> 0]
    /\ item = NoItem
    /\ stale = FALSE
    /\ token = [m \in Messages |-> <<m, 0, "put">>]
    /\ applied = 0
    /\ runs = [v \in Versions |-> NoRun]
    /\ latest = 0
    /\ hasCase = FALSE
    /\ envelopes = {}
    /\ key = [m \in Messages |-> 0]
    /\ requested = {}
    /\ overtaken = {}
    /\ renewals = 0
    /\ expiries = 0
    /\ faults = 0

-----------------------------------------------------------------------------
(* Helpers *)

Goto(m, from, to) == pc[m] = from /\ pc' = [pc EXCEPT ![m] = to]

Fault(kind) == kind \in Faults /\ faults < MaxFaults /\ faults' = faults + 1
NoFault == UNCHANGED faults

\* An invocation that raises: the message is seen again, until the host moves
\* it to the poison queue.
Retry(m) == IF dequeues[m] < MaxDequeue THEN "queued" ELSE "poison"

PutToken(m) == <<m, dequeues[m], "put">>
TakeoverToken(m) == <<m, dequeues[m], "take">>

\* The ETag of the item changes with every write, so the item is the one an
\* invocation created or read exactly if its status and its token are.
Owns(m) == item = InProgress(token[m])

SetStatus(status) == item' = [item EXCEPT !.status = status]

\* The invocation a reservation belongs to is still running.
OwnerRuns == \E m \in Messages :
    pc[m] \in Running /\ item.token \in {PutToken(m), TakeoverToken(m)}

-----------------------------------------------------------------------------
(* Intake and queue *)

\* The producer writes the blob again under its name.
Replace ==
    /\ version < MaxVersion
    /\ version' = version + 1
    /\ overtaken' = overtaken \cup {m \in Messages : pc[m] \in PastRead}
    /\ UNCHANGED <<etag, pc, dequeues, report, guard, archive, faults>>

\* publish_blob_trigger_input: the polling trigger reports a version it saw,
\* maybe twice, maybe after the next one was written.
Publish(m) ==
    /\ Goto(m, "unpublished", "queued")
    /\ \E v \in 1 .. version : etag' = [etag EXCEPT ![m] = v]
    /\ UNCHANGED <<version, dequeues, overtaken, report, guard, archive, faults>>

\* analyzer_queue: the host starts process_blob_created.
Dequeue(m) ==
    /\ Goto(m, "queued", "read")
    /\ dequeues' = [dequeues EXCEPT ![m] = @ + 1]
    /\ UNCHANGED <<version, etag, overtaken, report, guard, archive, faults>>

\* read_blob_result with if_match, and the analysis: a blob that was replaced
\* is somebody else's job.
ReadWithoutMatch(m) ==
    /\ Goto(m, "read", "md")
    /\ UNCHANGED <<intake, report, guard, archive, faults>>
ReadFirstTimeOnly(m) ==
    /\ \/ version = etag[m] /\ dequeues[m] = 1 /\ Goto(m, "read", "md")
       \/ ~(version = etag[m] /\ dequeues[m] = 1) /\ Goto(m, "read", "superseded")
    /\ UNCHANGED <<intake, report, guard, archive, faults>>
Read(m) ==
    /\ \/ version = etag[m] /\ Goto(m, "read", "md")
       \/ version # etag[m] /\ Goto(m, "read", "superseded")
    /\ UNCHANGED <<intake, report, guard, archive, faults>>

\* The invocation dies or raises: a timeout, a lost host, a failed read,
\* analysis, report write, reservation or publication.  What the archive
\* raises is ArchiveFails.
Fail(m) ==
    /\ Fault("fail")
    /\ pc[m] \in Running
    /\ pc' = [pc EXCEPT ![m] = Retry(m)]
    /\ UNCHANGED <<intake, report, guard, archive>>

-----------------------------------------------------------------------------
(* The sink: report blobs, then the guarded writeback *)

\* write_to_blob_sink: the report is named after the finding, and overwritten.
WriteReport(m, kind, next) ==
    /\ Goto(m, kind, next)
    /\ report' = [report EXCEPT ![kind] = etag[m]]
    /\ UNCHANGED <<intake, guard, archive, faults>>

\* begin_side_effect, create_if_absent: once, and again when the item that was
\* in the way has gone.
CreateOverwriting(m, attempt, conflict) ==
    /\ Goto(m, attempt, "post")
    /\ item' = InProgress(PutToken(m))
    /\ stale' = FALSE
    /\ token' = [token EXCEPT ![m] = PutToken(m)]
    /\ UNCHANGED <<intake, report, applied, renewals, expiries, archive, faults>>
Create(m, attempt, conflict) ==
    /\ \/ /\ item = NoItem
          /\ Goto(m, attempt, "post")
          /\ item' = InProgress(PutToken(m))
          /\ stale' = FALSE
          /\ token' = [token EXCEPT ![m] = PutToken(m)]
       \/ /\ item # NoItem
          /\ Goto(m, attempt, conflict)
          /\ UNCHANGED <<item, stale, token>>
    /\ UNCHANGED <<intake, report, applied, renewals, expiries, archive, faults>>

\* begin_side_effect, the read of the first attempt: a stale reservation may
\* be taken over, any other is skipped, and a skip is a success of the sink.
Found(m) ==
    /\ \/ item = NoItem /\ Goto(m, "found", "again") /\ UNCHANGED token
       \/ /\ item # NoItem /\ item.status = "in_progress" /\ stale
          /\ Goto(m, "found", "takeover")
          /\ token' = [token EXCEPT ![m] = item.token]
       \/ /\ item # NoItem /\ ~(item.status = "in_progress" /\ stale)
          /\ Goto(m, "found", "look")
          /\ UNCHANGED token
    /\ UNCHANGED <<intake, report, item, stale, applied, renewals, expiries, archive, faults>>

\* begin_side_effect, the read of the second attempt: skipped, whatever it is.
Seen(m) ==
    /\ Goto(m, "seen", "look")
    /\ UNCHANGED <<intake, report, guard, archive, faults>>

\* replace_if_match on the ETag that was read: one of several wins, the others
\* skip.
TakeOver(m) ==
    /\ \/ /\ Owns(m)
          /\ Goto(m, "takeover", "post")
          /\ item' = InProgress(TakeoverToken(m))
          /\ stale' = FALSE
          /\ renewals' = renewals + 1
       \/ /\ ~Owns(m)
          /\ Goto(m, "takeover", "look")
          /\ UNCHANGED <<item, stale, renewals>>
    /\ token' = [token EXCEPT ![m] = TakeoverToken(m)]
    /\ UNCHANGED <<intake, report, applied, expiries, archive, faults>>

\* requests.post and raise_for_status: a refusal and a lost answer both raise
\* RequestException.
PostErrorRecorded(m) ==
    /\ Goto(m, "post", "record")
    /\ \/ applied' = applied + 1 /\ NoFault
       \/ Fault("refused") /\ UNCHANGED applied
    /\ UNCHANGED <<intake, report, item, stale, token, renewals, expiries, archive>>
Post(m) ==
    /\ \/ Goto(m, "post", "record") /\ applied' = applied + 1 /\ NoFault
       \/ Goto(m, "post", "release") /\ applied' = applied + 1 /\ Fault("lostAnswer")
       \/ Goto(m, "post", "release") /\ UNCHANGED applied /\ Fault("refused")
    /\ UNCHANGED <<intake, report, item, stale, token, renewals, expiries, archive>>

\* complete_side_effect_success: the sink succeeds whether or not the outcome
\* could be recorded.  A read that raises is given up; a replace that raises,
\* done or not, goes on to mark_side_effect_state.
Record(m) ==
    /\ \/ Owns(m) /\ Goto(m, "record", "look") /\ SetStatus("completed") /\ NoFault
       \/ ~Owns(m) /\ Goto(m, "record", "look") /\ UNCHANGED item /\ NoFault
       \/ Goto(m, "record", "look") /\ UNCHANGED item /\ Fault("store")
       \/ Owns(m) /\ Goto(m, "record", "mark") /\ UNCHANGED item /\ Fault("store")
       \/ Owns(m) /\ Goto(m, "record", "mark") /\ SetStatus("completed") /\ Fault("store")
    /\ UNCHANGED <<intake, report, stale, token, applied, renewals, expiries, archive>>

\* mark_side_effect_state("external_success_unrecorded")
Mark(m) ==
    /\ Goto(m, "mark", "look")
    /\ \/ Owns(m) /\ SetStatus("external_success_unrecorded") /\ NoFault
       \/ ~Owns(m) /\ UNCHANGED item /\ NoFault
       \/ UNCHANGED item /\ Fault("store")
    /\ UNCHANGED <<intake, report, stale, token, applied, renewals, expiries, archive>>

\* release_side_effect_lock, and PipelineSinkError from process_blob_created.
Release(m) ==
    /\ Goto(m, "release", Retry(m))
    /\ \/ Owns(m) /\ item' = NoItem /\ renewals' = renewals + 1 /\ NoFault
       \/ ~Owns(m) /\ UNCHANGED <<item, renewals>> /\ NoFault
       \/ UNCHANGED <<item, renewals>> /\ Fault("store")
    /\ UNCHANGED <<intake, report, stale, token, applied, expiries, archive>>

-----------------------------------------------------------------------------
(* archive_case and the embed request *)

\* What archive_case raises is logged and dropped, or fails the invocation.
Raised(m, from) == Goto(m, from, IF FailClosed THEN Retry(m) ELSE "done")

\* get_case: an item that exists is a replay, which returns the key it finds,
\* or the key this run would have when none is set yet.
Look(m) ==
    /\ \/ ~hasCase /\ Goto(m, "look", "create") /\ UNCHANGED key
       \/ /\ hasCase
          /\ Goto(m, "look", "enqueue")
          /\ key' = [key EXCEPT ![m] = IF latest # 0 THEN latest ELSE etag[m]]
    /\ UNCHANGED <<intake, report, guard, runs, latest, hasCase, envelopes, requested, faults>>

\* create_case_if_absent, with the run claimed in it.
CreateCase(m) ==
    /\ \/ /\ ~hasCase
          /\ Goto(m, "create", "write")
          /\ hasCase' = TRUE
          /\ runs' = [runs EXCEPT ![etag[m]] = Claimed(m)]
       \/ hasCase /\ Goto(m, "create", "reread") /\ UNCHANGED <<hasCase, runs>>
    /\ UNCHANGED <<intake, report, guard, latest, envelopes, key, requested, faults>>

\* The loser of the creation reads the winner's item: its own run is there and
\* completed, or there and claimed by a duplicate, or is added; _claim_run gives
\* up when the item changes under it.
Reread(m) ==
    LET run == runs[etag[m]] IN
    /\ \/ /\ Goto(m, "reread", "enqueue") /\ run.state = "completed" /\ NoFault
          /\ key' = [key EXCEPT ![m] = etag[m]] /\ UNCHANGED runs
       \/ /\ Goto(m, "reread", "write") /\ run.state = "claimed" /\ NoFault
          /\ UNCHANGED <<key, runs>>
       \/ /\ Goto(m, "reread", "write") /\ run = NoRun /\ NoFault
          /\ runs' = [runs EXCEPT ![etag[m]] = Claimed(m)] /\ UNCHANGED key
       \/ Goto(m, "reread", "done") /\ run = NoRun /\ Fault("archive") /\ UNCHANGED <<key, runs>>
    /\ UNCHANGED <<intake, report, guard, latest, hasCase, envelopes, requested>>

\* write_blob with overwrite=False: a duplicate of the same version raises.
WriteEnvelopeLater(m) ==
    /\ Goto(m, "write", "publish")
    /\ UNCHANGED <<intake, report, guard, archive, faults>>
WriteEnvelope(m) ==
    /\ \/ /\ etag[m] \notin envelopes
          /\ Goto(m, "write", "publish")
          /\ envelopes' = envelopes \cup {etag[m]}
       \/ etag[m] \in envelopes /\ Raised(m, "write") /\ UNCHANGED envelopes
    /\ UNCHANGED <<intake, report, guard, runs, latest, hasCase, key, requested, faults>>

\* publish_case_run_if_latest, by the invocation whose claim the item holds;
\* the later processed_at keeps case_envelope_key.
PublishRun(m) ==
    /\ \/ /\ Goto(m, "publish", "enqueue")
          /\ runs[etag[m]] = Claimed(m)
          /\ runs' = [runs EXCEPT ![etag[m]] = Completed(m)]
          /\ latest' \in {etag[m]} \cup ({latest} \ {0})
          /\ key' = [key EXCEPT ![m] = etag[m]]
          /\ NoFault
       \/ /\ Goto(m, "publish", "done")
          /\ runs[etag[m]] # Claimed(m) \/ Cardinality({v \in Versions : runs[v] # NoRun}) > 1
          /\ UNCHANGED <<runs, latest, key, faults>>
    /\ UNCHANGED <<intake, report, guard, hasCase, envelopes, requested>>

\* An exception in archive_case, before or after the store call.
ArchiveFails(m) ==
    /\ Fault("archive")
    /\ pc[m] \in Archiving
    /\ Raised(m, pc[m])
    /\ UNCHANGED <<intake, report, guard, archive>>

\* enqueue_case_embed
Enqueue(m) ==
    /\ Goto(m, "enqueue", "done")
    /\ requested' = requested \cup {key[m]}
    /\ UNCHANGED <<intake, report, guard, runs, latest, hasCase, envelopes, key, faults>>

-----------------------------------------------------------------------------
(* Time *)

\* started_at falls behind the lock.
Lapse ==
    /\ item # NoItem
    /\ item.status = "in_progress"
    /\ ~stale
    /\ LockOutlasts => ~OwnerRuns
    /\ stale' = TRUE
    /\ UNCHANGED <<intake, pc, report, item, token, applied, renewals, expiries, archive, faults>>

\* Cosmos deletes the reservation when its retention since the creation is over:
\* every replace computes its ttl from the expires_at of the creation.  A day is
\* longer than an invocation, so the one that created it has ended; one that took
\* it over since may be running.
CreatorRuns == \E m \in Messages : pc[m] \in Running /\ item.token = PutToken(m)
Expire ==
    /\ Fault("ttl")
    /\ item # NoItem
    /\ ~CreatorRuns
    /\ item' = NoItem
    /\ stale' = FALSE
    /\ expiries' = expiries + 1
    /\ UNCHANGED <<intake, pc, report, token, applied, renewals, archive>>

-----------------------------------------------------------------------------

Step(m) ==
    \/ Publish(m) \/ Dequeue(m) \/ Read(m)
    \/ WriteReport(m, "md", "json") \/ WriteReport(m, "json", "reserve")
    \/ Create(m, "reserve", "found") \/ Found(m) \/ TakeOver(m)
    \/ Create(m, "again", "seen") \/ Seen(m)
    \/ Post(m) \/ Record(m) \/ Mark(m) \/ Release(m)
    \/ Look(m) \/ CreateCase(m) \/ Reread(m) \/ WriteEnvelope(m) \/ PublishRun(m)
    \/ Enqueue(m)

Next ==
    \/ Replace
    \/ \E m \in Messages : Step(m) \/ Fail(m) \/ ArchiveFails(m)
    \/ Lapse
    \/ Expire

Spec == Init /\ [][Next]_vars

\* The trigger polls, the host dequeues and invocations run; nothing has to
\* fail, be replaced or grow old.
FairSpec == Spec /\ \A m \in Messages : WF_vars(Step(m))

-----------------------------------------------------------------------------
(* Properties *)

\* The reservation of the finding, as the abstract module sees it.
Guard == INSTANCE Reservation WITH
    slot <- item,
    armed <- {token[m] : m \in {n \in Messages : pc[n] = "post"}},
    effects <- applied

\* ETags in place of conditions on the token, deletion in place of "uncertain":
\* the same promise.  Every POST is the one try of a reservation that was won,
\* and an outcome is recorded only by the owner, after its POST.
GuardsTheWrite == Guard!Spec

\* An outcome on the item, for which every later delivery and every later
\* version of the blob skips its writeback, stands for a comment in Splunk.
OutcomeMeansApplied ==
    item # NoItem /\ item.status # "in_progress" => applied > 0

\* A report goes back to an older version of the blob only through a job that
\* had read that version before the blob was replaced: a message redelivered,
\* retried or delivered late never undoes a newer report.
OldReportOnlyIfOvertaken ==
    [][\A k \in Kinds : report'[k] < report[k] =>
           \E m \in overtaken : pc[m] = k /\ report'[k] = etag[m]]_vars

\* A run that is completed, and the run the case item points at, have their
\* envelope: what the portal opens is there, whatever failed on the way.
CompletedRunIsWhole ==
    /\ \A v \in Versions : runs[v].state = "completed" => v \in envelopes
    /\ latest # 0 => runs[latest].state = "completed"

\* A version of the blob that was announced is answered: by reports of it,
\* unless it is replaced first, a message ends in the poison queue, where an
\* operator sees it, or a job overtaken by the replacement writes as well.
\* Superseded jobs never leave a version without a report.
AnnouncedIsAnswered ==
    \A v \in Versions :
        version = v /\ (\E m \in Messages : etag[m] = v) ~>
            \/ \A k \in Kinds : report[k] = v
            \/ version # v
            \/ \E m \in Messages : pc[m] = "poison"
            \/ overtaken # {}
=============================================================================
