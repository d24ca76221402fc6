# Verification of the notable-analysis services

This directory holds TLA+ models of the concurrent and fault-tolerant parts of
the repository, the TLC configurations that check them on small instances, and
TLAPS proofs of their main properties for every value of the constants. All
paths below are relative to the repository root; `onprem_service/` stands for
`src/llm_notable_analysis_onprem_systemd/src/llm_notable_analysis_onprem_systemd/onprem_service/`,
`s3/` for `src/s3_notable_pipeline/src/s3_notable_pipeline/` and `azure/` for
`src/azure_notable_pipeline/src/azure_notable_pipeline/`.

## 1. The system

The product analyses security alerts ("notables") with a language model. An
alert arrives as a file, an S3 object or a blob; the service reads it, asks the
model, writes reports, may write the result back to Splunk or ServiceNow,
archives the case, and indexes it for a portal in which analysts search cases
and chat about them. There are three live implementations of the same contract.

### Components, state and operations

| Component | State it keeps | Operations | Hard behaviour |
|---|---|---|---|
| On-prem file-drop service (`onprem_main.py`, `ingest.py`, `sinks.py`) | the directories INCOMING, PROCESSED, QUARANTINE and REPORT; `in_flight` and the executor's queue in memory | poll, submit, process, move, stop | worker threads next to the main loop; check-then-act on file names; crash and kill between steps |
| On-prem side-effect guard (`onprem_service/idempotency.py`) | one marker and one lock file per key | begin, complete, release | lock files with takeover by age; ambiguous POSTs; retention deleting files in use |
| On-prem retention (`retention.py`) | ages of files, case and chat rows | move to archive, delete | runs from the main loop and from a timer at once |
| On-prem case archive (`case_archive_flow.py`, `case_store.py`, `case_search.py`) | PostgreSQL rows of cases and chunks | archive, index, mark, rebuild, delete when expired | two transactions per archive beside those of other workers, a rebuild and retention; locks in different orders; retries after lost answers |
| On-prem search and chat (`case_chat.py`, `case_chat_history.py`, `portal_app.py`) | PostgreSQL rows | search, chat | replays of chat turns |
| AWS analyzer (`s3/lambda_handler.py`, `s3/idempotency.py`) | SQS messages, S3 report objects, one DynamoDB item per side effect | receive, analyse, write reports, reserve, POST, complete | redelivery, crashes at any step, lost answers, leases and fencing tokens |
| AWS cases (`s3/case_archive.py`, `s3/case_embed.py`, `s3/case_chat_history.py`) | DynamoDB items, S3 envelopes and chunks | archive once per run, publish, embed, chat turns | several stores per operation, conditional writes |
| Azure analyzer (`azure/blob_handler.py`, `azure/queue_publisher.py`, `azure/queue_monitor.py`) | blobs with ETags, storage queues | normalise, analyse, archive, enqueue | superseded blobs, poison messages |
| Azure side-effect guard (`azure/idempotency.py`) | a Cosmos document per side effect | as on AWS, with ETags | as on AWS |
| Azure chat gate (`azure/chat_quota.py`) | one Cosmos document per user: window, counters, leases, recent request ids | acquire, release | read-modify-write by many workers; expiry of leases, ids and the document itself |
| ServiceNow synchronisation (closed tickets, dispositions; three copies) | a cursor, ticket rows | incremental pull, reconcile | partial failure against an advancing cursor |
| LLM client SDK (`src/onprem-llm-sdk`) | a semaphore | complete with retries | retries while a slot is held |

`src/s3_notable_pipeline_commercial` is a second copy of the AWS pipeline; its
`idempotency.py` is byte-identical. Generators, prompt handling, configuration,
front ends, templates and prototypes keep no shared state; `PROJECT.json` lists
them all, with the reason why they are not modelled.

### How they interact

* Producers rename files into INCOMING; the main loop hands them to a thread
  pool. A worker calls the model, may create a ServiceNow incident and update a
  Splunk notable (both through the side-effect guard), writes reports, archives
  the case, and moves the file. Retention deletes old files under everybody.
* S3 notifies SQS; SQS invokes the Lambda; it writes two or three report
  objects, then reserves, POSTs and completes; SQS deletes or redelivers the
  message according to `batchItemFailures`.
* An archived case sends an embed request over a queue; the embedder rewrites
  the case's chunks and its retrieval status.
* Closed tickets are pulled into a table by one scheduled function and indexed
  by another; only the table's `index_status` stands between them.
* On-prem, the worker archives and indexes the case itself, in PostgreSQL; an operator's
  script rebuilds its chunks, and the retention loop deletes it, at any time.
* A blob's trigger puts a message per version on a queue; the analyzer reads the
  blob on the ETag the message names, and walks through reports, guarded
  writeback, archive and embed request.
* The portal's chat endpoint asks the gate (Azure), runs the chat, stores the
  turn and releases the lease, in that order and in one HTTP request.

### What makes each component correct

* File drop: no input is lost or doubled; a processed input has its own report;
  `in_flight` is exact and bounded; every input is handled in the end.
* Side-effect guards: at most one writer per key, an external write is repeated
  only after an event that excuses it, a skip is truthful, an outcome is final,
  nothing disappears behind a reported success.
* Case archive and embedding: readers see only committed runs, chunks are replaced
  without a gap, no case stays pending behind acknowledged messages.
* On-prem case archive: what chat searches is the current analysis of a case, whole; a
  case reported stored can be found; nobody waits for ever.
* Chat history: the limit of a session is not oversold, a turn is stored once,
  what was reported stored is there.
* Ticket synchronisation: no update falls behind the cursor, what is called ready
  can be found, a listed ticket stays active and becomes searchable.
* Blob pipeline: a newer report is not undone, a completed run has its envelope,
  an announced version is answered or visibly given up.
* Chat gate: the number of running calls, the requests and the budget of a
  window stay within their limits; a request id is counted once; a lost round of
  its loop is another's change.

`PROJECT.json` lists 40 hazards of this code, each at its line, with the
properties that guard it or the reason why none does yet.

## 2. The modules

Each component has one module with its state, actions and properties, an `MC`
module where an instance needs constant definitions, and some a module of
proofs. `LeasedWriteback` and `BlobPipeline` are two implementations of one
abstract module, `Reservation`. Otherwise the modules do not share state: the
guard and the file-drop service meet only in that a worker is inside the guard
during one step (`Outputs`) of `FileDrop`, and `FileDrop` shows which inputs can
share a key at one time; `CaseArchive` begins where a message of
`LeasedWriteback` has passed its sink; `ChatHistory` is what happens inside the
`Finish` of a chat call.

Some definitions are followed or preceded by an alternative whose name says how it
differs (`NoRecheck`, `PutRowKeepingStatus`, ...). No behaviour uses them: each is a
plausible slip, and replacing the definition by it makes a property fail.

### SideEffectLock: `onprem_service/idempotency.py`

One key. `marker` and `lock` are its two files; `lock` also records, as a ghost,
which thread created the file, because the code cannot know. Every file
operation is one action: `ReadMarker`, `AcquireLock` (O_CREAT|O_EXCL),
`CheckLock` (age and deadline), `UnlinkStale`, `RecheckMarker`, `Post`,
`RecordMarker`, `ReleaseLock`. `Post` has three outcomes: applied and confirmed,
failed, applied but reported as failed. Time is counted in units, and only as
the age of the lock and the time a caller has waited. `lapses` is a ghost set of
the kinds of event that have weakened the guard: five after which the code
cannot help repeating a write, and the orphaning of a lock, which alone does no
harm.
Retention's deletion of a lock is two steps, `PruneCheck` (its age) and `PruneLock` (the
unlink): in between the lock may have been removed and taken by a running thread, and then
the unlink is a steal.
`HoldMax` states what the POST timeout (30 s, against 300 s of staleness) gives:
a running holder's lock is never stale.

### FileDrop: `onprem_main.py`, `ingest.py`, `sinks.py`

Directories are functions from names to contents; a content is the number of
its drop, which is its modification time as well. A name is a base with the
counters that collision handling appended, so `a_1.json` is the same name
whether somebody dropped it or the service made it. Choosing a name and using
it are two actions, as in the code (`NameReport`/`WriteReport`,
`NameProcessed`/`Move`, `NameQuarantine`/`Quarantine`); a move acts on whatever
the names denote by then. `Quarantine` appears twice in `Process`: a rejection
whose move fails falls into the exception handler, which moves once more.
A write of a report may fail (`WriteReport`), leaving the file as it was or empty, and
sends the input to quarantine. The main loop is `Discover`, `Backpressure`, `Submit` (or `ServeList`,
`ListServed` in sequential mode), `LeaveLoop` and `Stopped`; the mode is chosen at the
start (`concurrent`). `executor.submit` queues
the job before it starts a thread, and may fail to start one (`Submit`): the name stays
in `in_flight` (`leaked`), the job in the queue without the callback that would take
the name out, and the rest of the batch waits; `started` says whether the pool has any
thread. The ghost `raced` holds the inputs whose report was written onto a name that
another thread was about to write as well.

Abstractions: the model call is a choice of outcomes; the comprehension that
filters against `in_flight` is one atomic read; Markdown reports are enabled,
and the HTML file, whose code is the same, is left out; the output sinks may
fail but change no state here; a discovery that raises is a stuttering step; the
directories are on one file system, so a move is a rename (across file systems
`shutil.move` copies and unlinks, and a crash between the two would leave the input
twice); `write_text` is one step, so a crash in the middle of it, which would leave a
truncated report beside an input that is taken again, is left out;
retention does not touch these directories; producers use only free names.

### LeasedWriteback: `s3/idempotency.py`, `s3/lambda_handler.py`

All messages about one finding id, hence one DynamoDB `item` (status and fencing
token) and the report objects of one or two inputs. A message is queued,
received (at most `MaxReceives` times), and then walks through `Analyze`,
`PutArtifact` (twice), `Reserve`, `ReadItem`, `TakeOver`, `Post`, `Complete`,
`FenceAfterSuccess` or `MarkUncertain`, and `Ack`. Every store call may fail
before or after it took effect. `age` is the time since the item's `started_at`;
a takeover sets it to the time since its caller entered `begin_side_effect`, as
the code does. A message has one running invocation at most because the queue
hides it for longer than an invocation can run (`LambdaTimeout <= Visibility`;
the template's 360 s at most 900 s against 960 s); a duplicate delivery is a
second message. `Expire` is DynamoDB's TTL. `expires_at` is set when the item is
created, a day or more ahead, and no takeover renews it: the invocation that created the
item has ended by then, one that took it over may be running. The ghost `bereft` keeps
the tokens of those. GetItem has no ConsistentRead, so `ReadItem` may see an older
version of the item, or none (the fault "lag").

### ChatQuota: `azure/chat_quota.py`

The document of one user and his calls on any number of workers. `ReadClock`,
`ReadDoc` and `Create`/`Replace` are three actions with an ETag between the last
two; `Reread` and `Remove` are the release. `Expire` is the deletion by Cosmos
TTL, which counts from the last write. What a call decides from what it read
(`NewDocument`, `Admits`, `Admitted`, `Without`) are plain operators. All
workers share one clock and reads are strongly consistent, as the store's
docstring requires. The replay of stored answers that precedes the gate is not
modelled.

### Reservation: what a side-effect guard promises

One key: `slot` is free, held by a fencing token, or settled with an outcome;
`armed` are the tokens that may still try the external write. A reservation is
granted when the slot is free or held (a takeover), allows one try, and is settled or
released by its owner after the try. `Expire` deletes it by age at any time, also when
its holder has still to try. It is the specification both cloud guards are refined to. On
AWS `armed` are the tokens of the invocations at `Post`, and nothing is released. What it
implies is `effects <= 1 + renewals + expiries`: one write, plus one for each
reservation that was taken over or released, plus one for each that the store deleted.

### BlobPipeline: `azure/blob_handler.py`, `azure/idempotency.py`, `azure/case_archive.py`

One input blob that may be written again under its name, and the queue messages
about its versions. `etag` is the version a message announces; `Read` is
conditional on it, and a message whose version is gone ends as superseded. Then
follow both report blobs, the reservation (first attempt, read, takeover, second
attempt), the POST, its recording or release, and `archive_case` with its run:
look, create, reread, envelope, publication. `Fail` is an exception anywhere or
the death of the invocation: the message is queued again until `MaxDequeue`, then
it is poison. The Cosmos ETag is not kept as a number: it changes with every write, so
an item is the one read exactly if its status and token are (`Owns`).
`stale` replaces the age of the reservation: under `LockOutlasts` it can only become
TRUE when its owner no longer runs. `Expire` is Cosmos TTL: every replace recomputes
`ttl` from the `expires_at` of the creation (`cosmos_store.py:769`), so it spares the
invocation that created the item (`CreatorRuns`), but not one that took it over.

### CaseArchive: `s3/case_archive.py`, `s3/case_embed.py`

One case whose runs (one per S3 object version) are archived by any number of
messages. `state`, `fence`, `latest` and `retrieval` are attributes of the
CaseIndex item, `envelope` the objects of the runs. `Receive` is the first look at the
item; `Claim` is its conditional write, `Replay` what an attempt does when it
finds its run there. The embedder lists what exists (`StartEmbed`), writes each
chunk, prunes what it listed and did not write, and sets the status. `overlapped`
records that two rewrites were under way together, because nothing in the code
keeps them apart.

### ChatHistory: `s3/case_chat_history.py`

One session. A request walks through `Ask` (replay and validation), `Resolve`,
`Extend`, `Check`, `Load`, `Reserve` (with `Conflict` and a bounded number of
tries), `Persist` and, if that fails, `Release`. A message item remembers which
request wrote it, because its key contains the time of that request. Deletions of
the last turn or of the session take several steps, beside the requests, and read
the messages without ConsistentRead, so they may miss some (`Views`).
`MaxAttempts` bounds the tries of a reservation (the code's constant is larger).

### TicketSync: `s3/servicenow_closed_ticket_sync.py`, `s3/closed_ticket_index.py`

All tickets, the customer query in ServiceNow (`source`), the table rows, the
envelope objects, the OpenSearch chunks, and the two scheduled functions. The content of
a ticket is the time of its last update, which is part of the hashed payload. The
sync is `StartSync` (purge scan), `PurgeObjects`/`PurgeRow`, `FetchPage` (by offset, over a
window that may shift meanwhile: `missed` records what an update shifted to a page that
had been read, and what failed in an upsert, until it is stored), `SkipSame` or `PutEnvelope`/`PutRow` per ticket in cursor
order, `ListPage`/`Deactivate`, `WriteCursor`; the reconciliation reads its listing by
offset too, and `hidden` records what an update shifted to a page of it that had been
read; any step may fail the run, and an
upsert may fail alone. The indexer reads a row, loads the envelope and clears the old
chunks, writes the new ones and sets the status without a condition: a row that has
gone becomes a stub of two attributes.

### PortalArchive: `onprem_service/case_archive_flow.py`, `case_store.py`, `case_search.py`, `retention.py`

One case. Every SQL statement is an action, those that visit several chunks one per
chunk: `Upsert` or `Conflict`, `Scan` and `Delete` (in the first transaction, the
second, and the cascade of a deleted row), `Insert`, `SetStatus`, `Commit`; `Embed`
lies between the transactions. `call` and `step` are where each process is; `tx` is
what its transaction has written, which is also what it has locked. `Blockers` are
whom the next statement waits for; `BreakDeadlock` ends one of a circle of them.
What PostgreSQL does (visibility at READ COMMITTED, row locks, the key lock of a
reference, deadlock detection) is modelled from its use and marked external.
`Retry` and `GiveUp` follow the names in `_RETRYABLE_EXCEPTION_NAMES`, which include
neither DeadlockDetected nor ForeignKeyViolation. A version stands for an analysis with
its row and chunks; chunk ids are ordinals of their sections, so versions share them.
A `Delete` passes over chunks that another transaction has deleted and replaced since
its statement began (`skip`, from the `gone` of the transactions that committed).
`overtaken` records that a status was set for a version which was not the row's.
Archiving the case again clears it, and so does a pass that indexes the row's own
version from beginning to end while no other version stores chunks (`clean`). The
rebuild and retention run once.

## 3. The runs

`tlc -config <run>.cfg <module>.tla`, the module as listed in `PROJECT.json`;
every run finishes within five minutes with two workers, most within two. CHECK_DEADLOCK is off
where the bounded environment runs out of inputs and the system rightly stops.

| Run | Shows |
|---|---|
| `lock_guard` | two threads, every fault, retention in two steps and a restart: exclusion until a lock is taken from a running thread, at most one write unless a lapse, truthful skips, and every `begin_side_effect` returns |
| `drop_progress` | either mode, one thread, a queue of one, colliding names, crash, stop, one failed move, report or submit: no input lost or doubled, work repeated only after a failure, every input handled in the end unless a failed submit holds it back |
| `drop_concurrent` | two threads and a queue of two, two inputs with one report name, one failure: each processed input has its own report unless two threads wrote one name at once; `in_flight` exact |
| `lease_safety` | duplicate delivery, every fault, TTL also under a running taker: one writer besides one whose item TTL deleted, truthful skips, comment equals report, the item is a `Reservation` |
| `lease_progress` | with a visibility timeout above invocation plus lock, nothing is lost behind a success, and all messages come to rest with the writeback made, fenced, or left to an operator |
| `quota_safety` | concurrency limit, one count per request id, lost rounds are real changes, and the limits of a window unless a write straddles windows |
| `ticket_sync` | sync and indexer in every order, updates, retention and a failure: the cursor leaves nothing behind, ready is searchable, rows have envelopes, listed stays active and becomes searchable, unless an update shifted it past a page of the reconciliation |
| `case_archive` | two runs, one of them delivered twice, two embedders, two failures: only committed runs are visible, pending means requested, chunks are replaced without a gap, quiet cases are whole, pending ends |
| `chat_history` | four requests for two turns, up to three of them for one, at the limit of the session, a deletion and a failure: no overselling, a sequence number belongs to one turn until a reservation is given back, duplicates only of concurrent requests, what is reported stored is there |
| `portal_archive` | two analyses, rebuild, retention, deadlocks, one fault: what is searched is the current analysis, whole, what was reported stored is searched, unless a replaced analysis interfered and the current one has not been indexed by itself since; everybody comes to an end |
| `blob_pipeline` | two messages, two versions, two faults, TTL also under a running taker: truthful outcomes, whole runs, no return of old reports, the item is a `Reservation`, announced versions are answered |

### Where the code and its documents part

One run ends in a counterexample, on purpose. It checks a statement of the
repository against what the code does; `PROJECT.json` quotes the line.

| Run | Counterexample |
|---|---|
| `chat_duplicate` | two concurrent requests with one client_request_id both pass the check, and the second reserves again after the first has persisted; message keys contain the time, so `attribute_not_exists` protects nothing, and the turn is stored twice |

Other disagreements follow from the same modules with other constants or
another invariant, and have no run of their own:

* On-prem guard: with three threads, a second thread that judged the same
  orphaned lock stale removes the lock the first has just taken, and both post
  (the age test `idempotency.py:127` and the unlink `:129` are two steps), while
  `RECOVERY_BEHAVIOR_AND_RESPONSIBILITIES.md:100` speaks of a per-key lock.
  A lock that can never be unlinked keeps a caller in its loop beyond the 30 s
  deadline, because that branch (`:132`) never reads it; the fairness of
  `lock_guard` assumes that unlinking works in the end. Retention too unlinks a
  lock by a decision it made earlier (`retention.py:173`, `:176`), and may take one that
  a running thread has just created.
* A POST whose answer is lost is repeated by the next input with the key although
  nothing crashed (the lapse `"ambiguous"`), while
  `RECOVERY_BEHAVIOR_AND_RESPONSIBILITIES.md:135` of the on-prem service names
  only a crash.
* File drop: without the exception for `raced` ProcessedHasReport fails in
  `drop_concurrent`: two inputs that share a stem (`a.json`, `a.txt`) are worked on at
  once, two threads find one report name free, and the later write truncates the earlier
  report (`sinks.py:41`), against `RECOVERY_BEHAVIOR_AND_RESPONSIBILITIES.md:37` and
  `END_TO_END_DIAGRAMS.md:103` ("One file ... maps to ... one report").
  With two threads and `DropNames <- LooksSuffixed`, EveryInputKept fails: they move
  different inputs onto one name in PROCESSED. Without the exception for `Stuck`
  EveryInputHandled fails: the name of a failed submit (`onprem_main.py:506`, `:517`)
  stays in `in_flight` until the service is started again, so a later file of that name
  is never taken, and after `MAX_QUEUE_DEPTH` of them none is.
* AWS writeback: with the proportions of the template's defaults (invocation up to
  360 s, lock 900 s, visibility 960 s) NoSilentLoss fails: an invocation that
  reserves late and dies is redelivered while its reservation is fresh, the
  message is skipped and acknowledged, and no comment exists. A POST that certainly
  failed is recorded as uncertain and blocks its key, while the AWS
  `RECOVERY_BEHAVIOR_AND_RESPONSIBILITIES.md:185` says that it is released. Without the
  exception for `bereft` SingleWriter fails although the lock outlasts invocations: TTL
  deletes the item under the invocation that took it over (`expires_at` is that of the
  creation, `idempotency.py:128`, `:171`), another message reserves, and both post. A read
  that lags behind the store makes an abandoned reservation look fresh, and its message is
  acknowledged.
* Chat gate: without the exception for straddling writes a window admits more calls
  than its limit: the clock is read before the document (`chat_quota.py:78`),
  and a call that crosses the end of a window sets the counters back.
* Ticket sync: with `Overlap = 0`, or without the exception for what an update shifted,
  NothingFallsBehind fails: the pages of a run are cut by offset out of a listing that
  an update makes shorter before the offset (`servicenow_closed_ticket_sync.py:327`), so
  an entry between two pages is in neither, and later ones of the run may move the
  cursor past it by more than the overlap. The listing of the reconciliation is paged
  in the same way (`:850`): without the exception for `hidden` ListedStaysActive fails,
  because an unchanged ticket that an update shifts to a page already read is deactivated,
  although the listing does not count as truncated (`:387`); its content hash is what it
  was, so the next upsert skips it (`:604`), and it stays inactive until it changes. With
  `MaxRecords = 1` CatchesUp fails: as many tickets as the limit at the start of
  the window are fetched again in every run, and the others never. The chunks of a
  purged or deactivated ticket stay in OpenSearch; a status set after a purge creates a
  row of two attributes; the cursor may move backward.
* Case archive: the loser of the race to create a case is acknowledged and its run
  never archived (`case_archive.py:278`); a lost embed request is not repeated
  if an earlier run has made the case ready (`:518`); two overlapping rewrites
  can leave the chunks of one run partly deleted while the status says ready, hence
  the premise of QuietIsWhole; "failed" may overwrite "ready".
* Chat history: a release after a later reservation lets sequence numbers be used
  twice; a killed request keeps its capacity for ever; deleting the last turn does not
  lower message_count; a session deleted under a request leaves orphaned messages; an
  opening turn that failed can never be stored again under its id; Extend may create
  an item of nothing but dates.
* On-prem case archive: without the exception for overtaken statuses SearchIsTruthful
  fails. `store_case_chunks_once` deletes what its statement sees, so of two analyses
  indexed at once the later one keeps those chunks of the other whose ordinals it does
  not use (`case_search.py:668`), although it is to "replace stored chunks for one
  case"; and an analysis that has been replaced still sets the status of the row.
  A PoC fallback is indexed from its alert and becomes ready, while
  `analyst_portal_case_archive_technical_spec.md:258` says that no chunks are built and
  it stays not_indexed; SearchIsTruthful therefore asks nothing of the status of one. What the embedding model raises is not a CaseChunkWriteError:
  it leaves `archive_case_for_portal`, which is not to fail ingest, and the row stays
  pending; so it does when the commit's answer and all retries are lost. A case
  archived again while retention waits for its row is deleted (`retention.py:195`).
* Blob pipeline: a POST that Splunk has carried out, but whose answer is lost, deletes
  the reservation (`blob_handler.py:666`), and the queue's retry adds the comment
  again, while `SPLUNK_ELASTICSEARCH_WRITEBACK.md:21` asks to reconcile first.
* Blob pipeline: a replay that finds no envelope yet asks for the embedding of an
  envelope that is never written; an invocation that dies between creating the case
  and its envelope leaves the case without one; a second version's analysis is not
  archived; a skip of a reservation in progress counts as success, so a comment may be
  lost; an overtaken job may leave the reports of an older version, or Markdown and
  JSON of different ones; all versions share one writeback key; TTL may delete a
  reservation while the invocation that took it over runs, and another one posts beside it.

### Bounds, and why they are enough

* `MaxJobs`, `MaxDrops`, `MaxReceives`, `MaxTime`, `MaxCrashes`, `MaxStops`,
  `MaxFailures`, `MaxDeletes`, `MaxFails`, `MaxFaults`, `MaxVersion` and
  `Closing` only limit how often the environment acts. Two actors and one or two
  faults are enough for each race described above; a third drop re-uses a
  name, a third call meets counters that were set back, a third delivery
  duplicates a run beside another.
* Units of time are coarse. What matters is their order: wait < stale, hold <=
  stale; invocation <= lock or not, visibility against invocation plus lock;
  lease <= dedupe, and whether window, lease and id end together or apart. The
  runs take one instance of each order the configuration allows.
* `MaxAttempts = 2` stands for the code's 8 (chat gate), 5 (chat history) and the
  configured number of the case archive: the last round and one before it.
* `portal_archive` has two analyses of which the later has fewer chunks, or none at all;
  the second is a fallback, and not of the expired row's source, though the first is of
  both. Two chunk ids suffice for statements that pass each other. One fault: deadlocks
  are not counted, and a timeout or crash at any step is one.
* `ticket_sync` has two tickets, two updates, pages of one, and limits of two for a run
  and a reconciliation, so that in both a full page, a second page, an update between the
  two, a full run and a cut-off listing happen. `chat_history` has room for two
  turns, so that the last place is contended, also by their duplicates. Five requests,
  of which four are made, give either turn a retry and one of them two. Three
  requests for one turn matter: the first stores the turn, the second reserves it
  again, and the third, which had shared the first reservation, stores under it
  too. Then two messages of a turn have one number, and OrderIsUnique is worded
  accordingly; after a release even two turns may have one.
* Symmetry is used only in safety runs, and only on threads, requests of one turn,
  messages of the same object, and analyses, none of which the modules distinguish.
* `drop_progress` has one worker, so that liveness can be checked in both modes, with
  every kind of failure; a queue of one for three drops makes backpressure common.
  `drop_concurrent` has two workers and no crash or stop, which only shorten what
  two threads do together: both of its properties are proved with them.
* `lease_progress` leaves out the store's faults and TTL, with which a message may take its
  own reservation for another's: LossIsByOwnReservation says what they can do.
* `lease_safety` and `blob_pipeline` have a lock longer than an invocation. The
  shorter one that both configurations accept is left to the proofs, which
  assume nothing about times except where a theorem says so.

### Fairness

Weak fairness on what the platform really schedules: each thread's next
step and the main loop (the operating system; systemd restarts a stopped
service), the steps of each delivered message (SQS and Lambda, or the Functions
host), the two schedules of the ticket functions, and the clock. Strong fairness in
two places: an attempt to unlink a stale lock, repeated every fraction of a second,
succeeds in the end; and a ticket that is again and again pending or failed when the
indexer looks has its turn, because a batch (500 tickets by default) takes every such
ticket once. `CaseArchive` assumes only that some message and some embed
request goes on, `PortalArchive` that something happens while a process can go on or a
deadlock can be broken. ChatQuota and ChatHistory have no fairness: a worker
that dies takes no further step. No fault, drop, update, deletion, signal or crash is fair, and
no particular outcome of a choice is: the model may fail every analysis.

## 4. What is proved

TLAPS checks the following for every value of the constants that satisfies the
ASSUMEs of the modules; TLC evaluates the same ASSUMEs in every run.

### OnPremProofs

Both components through which the worker threads write: the guard and the archive.
Of SideEffectLock:

* `TypeCorrect` (TypeOK). Not inductive alone: `FinishJob` counts down, so
  `BusyHasJob` (who is not idle has an input left) goes with it.
* `MutualExclusion` (HolderOwnsLock). Inductive given TypeOK: the only steps
  that change the lock are its creation from nothing, one's own release, and an
  unlink, by a thread or by retention, that is either of an orphan or records a steal.
* `AtMostOnce` (AtMostOnceUnlessLapse), through `WriteAccounted`: without lapses
  an applied write is covered by the marker or by the one thread that is about
  to record it, and while a thread is about to post nothing has been applied.
  It needs MutualExclusion to know that there is one such thread.
* `SkipIsTruthful` (SkipMeansApplied), with `MarkerWitnessesWrite`.
* `LiveHoldersKeepLock` (StealNeedsOrphan). The invariant `OnlyLiveLocks` ties
  the lock's age to a holder that Tick keeps within `HoldMax <= StaleAfter`, so
  until a lock is orphaned none is ever judged stale, by a thread or by retention. It needs MutualExclusion
  for the releases.

Of PortalArchive, for any number of analyses, any chunk sets, tries and faults:

* `PortalTypeCorrect` (PortalTypeOK).
* `PortalInvariant`, the inductive invariant. `PlacedInv`: every process is at a place of
  the call it makes. `RowWritten` and `ChunksWritten`: what an open transaction has
  written follows from its call and step. `Exclusive`: one transaction at a time holds
  the row, and one each chunk id. `Referenced`: a row that an inserted chunk refers to
  is not deleted. `Committed` is about what everybody sees.
* `SearchTruthful` (SearchIsTruthful), from `Committed`. The argument is about three kinds
  of commit. Who deletes chunks while holding the row (the first transaction, the
  cascade) misses none, because nobody can insert meanwhile (`DeletesAll`), so the new
  row has no chunks of an older analysis. Who indexes holds the row at its commit and
  leaves exactly its own chunks if its pass was clean (`LeavesOwn`: no other version has
  stored chunks since its first statement, so it visits every chunk of another version);
  if it was not, or its version is not the row's, `overtaken` stays or is set. And who found no row to update has nothing to commit that is not gone already
  (`FoundNoRow`). A call ends as stored only after such an index, so a row of its
  version has the status that goes with its chunks (`StoredIsShown`).

### LeasedWritebackProofs

* `TypeCorrect` (TypeOK). Inductive as `TypedInv`, with two facts: who is past
  the analysis has one (`AnalysisChosen`), and who takes over entered
  `begin_side_effect` after its start (`StartedInTime`), which keeps TakeOver's
  subtraction a natural number.
* `SingleWriterTheorem` (SingleWriter). The inductive `WriterInv` has four
  parts: tokens are spent once (`TokensSpent`), a token that is wanted for a
  takeover was read from a stale item (`WantedIsStale`), who writes owns the
  item, which is no older than its invocation, unless TTL deleted it under him
  (`WriterOwns`), and an invocation
  runs for at most its timeout (`InTime`). The last two are why a running
  writer's item cannot be stale when `LambdaTimeout <= LockSeconds`.
* `AppliedBoundedTheorem` (AppliedBounded), without any assumption on times.
  `Allowance` counts those about to post: applied plus posters is at most the
  number of reservations ever made, and a reservation is the first one, a
  takeover, or follows an expiry. It is arithmetic on cardinalities.
* `SkipIsTruthful` (SkipMeansApplied) and `CommentMatchesReport`
  (PostedIsStored), the latter through the facts that an invocation past the
  sink has its own analysis stored and that stored reports never change.
* `LossIsByOwnReservation`, for every timing and every fault, the template's defaults
  included: when all messages are acknowledged and TTL has deleted nothing, NoSilentLoss
  holds, or the message whose delivery made the reservation of the moment (the
  `Keeper`) was itself acknowledged without learning an outcome (`SkippedItself`). So a
  writeback is never lost to another message's reservation: who skips on account of it
  leaves a Keeper that is not acknowledged, or has posted (`KeeperTold`).
* `NothingIsSilentlyLost` excludes that case too, under `KeepersReturnLate`:
  `LambdaTimeout + LockSeconds < Visibility`, and no store call that fails after it took
  effect or reads an old item. The template's defaults do not satisfy the first
  (section 3). While no comment has been added the Keeper is not acknowledged
  (`KeeperAnswers`): its own delivery goes on to POST or fails, and when it comes back
  the reservation is stale (`KeptOrStale`), so it takes over instead of skipping.
* `OutcomesAreFinal` (OutcomeIsFinal), an action property: every update is
  conditional on in_progress and the own token.
* `ImplementsReservation` (GuardsTheWrite): the initial states map to initial
  states of `Reservation`, and each action to a grant, a try, a settlement, an expiry or a
  stutter. A grant needs that a new token is not armed yet, which `TokensSpent` gives,
  and a settlement that its owner is past its POST; an expiry needs nothing.

### ChatQuotaProofs

All five properties of `quota_safety`, for any number of calls and any limits
that config.py accepts.

* `TypeCorrect` (TypeOK), inductive as `TypedInv`: no entry expires beyond a
  horizon, so the maximum that the ttl is made from exists and lies in the
  future; who is about to write has a draft; who is in a loop has a round left.
* `RoundsAreChanges` (LostRoundsAreChanges). `RoundsCounted` adds that a call
  whose ETag is out of date has seen a change its attempts do not count yet.
* The others rest on `DraftsFollow`: a draft is what its call made of the
  document that still has its ETag, so an accepted write admits into the
  current document although it was decided on an earlier read. `EffectStep`
  then reduces every action to one of four effects on the document: nothing, an
  admission, a removal, a deletion.
* `IdsCountedOnce` (CountedOncePerId). The id of a counted call stays in the
  document while its entry lives (`Remembered`), which needs that the document's
  ttl covers its entries (`Lasting`) and that no clock reading is in the future
  (`PastReadings`).
* `ConcurrencyBounded` (ConcurrencyLimit). Every leased call has its lease in the
  document (`LeasesHeld`): a release removes by request id, and two unfinished
  calls have different ids by IdsCountedOnce as long as neither has outlived its
  id. The leases inject into the document's, which are at most MaxConcurrency.
* `WindowsBounded` (WindowLimitUnlessStraddled). The document counts exactly the
  requests of its own window (`CountsWindow`), no request is of a later one, and
  the document is deleted only after its window, so no count starts over while
  its window lasts. It needs that windows do not overlap (`WindowsInOrder`).

### FileDropProofs

All the invariants that the two `drop` runs check, and TypeOK, for any names, threads, queue depth and
numbers of drops, crashes, stops and failures.

* `TypeCorrect` (TypeOK), as `TypedInv`: directories are finite, a thread that analyses
  has read something, and a thread that is about to move or write has a name of its
  own base or stem (`Prepared`).
* `InFlightIsExact` (InFlightExact), through `JobsInv`: the slots that Backpressure
  counted are still free at Submit, because jobs end in between and none is added; a
  name that a failed submit leaked stays in `in_flight`, whatever becomes of its job.
* `InputsAreKept` (EveryInputKept) under `SeparateNames`: there is one thread, or the names
  used differ in more than a counter. `FreeNameIsFree` shows that the collision loop ends
  and returns a free name (a pigeonhole argument over the directory, and a
  well-founded one for the least counter). `Holding` says that what a thread read is
  what its name denotes until it has moved it, since no two threads share a file.
  `FreshInv` says that a chosen name is still free when it is used: another
  thread's choice has another base. A move then takes one content from one directory to
  another (`MovedKept`).
* `ProcessedHaveReports` (ProcessedHasReport), unconditionally. `ReportedInv`: the report of
  what is processed, or about to be moved there, is in REPORT_DIR, unless it is in `raced`
  (`Due`), and no thread is about to write the name of a report that is due. A chosen
  name was free, so it is never one of those; two threads that chose one name are rivals
  when the first of them writes, and its input joins `raced`.
* `NoReportIsRaced`: under `SeparateStems`, no two threads choose one report name, and
  every processed input has its report without exception.
* `RepeatsNeedFailures` (RepeatedOnlyAfterFailure), unconditionally. `RepeatsInv`: the
  reports of a content are at most the failures so far, plus one once it is on its way
  out of INCOMING_DIR or has left it (`Spent`); nobody else can be on the way with it.

`SeparateNames` and `SeparateStems` hold with one thread, which sequential mode is. Without them the
concurrent service does overwrite: see section 3.

### BlobPipelineProofs

Four of the five properties of `blob_pipeline`, for any number of messages, versions,
deliveries and failures of every kind (`AnnouncedIsAnswered` is liveness).

* `TypeCorrect` (TypeOK), inductive as `TypedInv`: a sent message announces a
  version there has been, a waiting one has a delivery left, and archive_case
  returns no empty key.
* `OutcomesAreTruthful` (OutcomeMeansApplied), through `SuccessWasReal`: who
  is about to record a success has had one, since Post leads there only with
  its effect.
* `RunsAreWhole` (CompletedRunIsWhole), through `EnvelopeFirst`: a claim whose
  invocation is past its write has its envelope, and it is completed under the
  claim only.
* `OldReportsOnlyByOvertaken` (OldReportOnlyIfOvertaken), an action property, from
  `ReadWasCurrent`: a job past its conditional read works for the version of the
  moment or is in `overtaken`, and no report is of a later version.
* `ImplementsReservation` (GuardsTheWrite), as for LeasedWriteback. Here an owner may
  delete its item: Release needs that it is past its POST. TTL may delete the item
  of an invocation that took it over and has still to POST; no later item has its token.
* `CommentsBounded` uses that refinement and nothing else of the pipeline: applied is at
  most 1 + renewals + expiries. The inductive `Covered` counts the tries that are still
  armed: comments made plus tries left are at most the renewals and expiries plus one for
  the reservation of the moment. A grant arms one token and makes, or replaces, one
  reservation; whatever deletes one is counted, so the next grant may arm another try.

### TicketSyncProofs

The four invariants of `ticket_sync`, for any number of tickets and updates and any
limits.

* `TypeCorrect` (TypeOK), with `Places`: a fetch has rows left to ask for.
* `EnvelopesAreThere` (RowHasEnvelope), through `InOrder`: the sync holds no entry that
  is older than its row, and the entry between its two writes has its envelope.
* `ListedStayActive` (ListedStaysActive). `PagesListed` is the point: between two pages,
  every stored ticket listed before the offset has been seen or is in `hidden`. A page that
  came back shorter than its limit is the last one (`ShortPageIsLast`): ranks are unique
  (`RankIsUnique`) and leave no gap (`FewBefore`), so an entry beyond it would have filled
  it. `ActiveInv` carries that through the deactivation: who is about to be deactivated
  is not listed as it is stored, or is hidden.
* `ReadyIsTruthful` (ReadyIsSearchable), through `ReadyInv`: the ticket being indexed
  is not called ready before its chunks are there, and what was loaded is as
  new as its row, unless the row was overtaken.
* `NoTicketFallsBehind` (NothingFallsBehind). NothingFallsBehind is not inductive: the cursor
  is written at the end of a run, and what it may pass is decided before. `RestIsLater`:
  during a run, a listed entry is stored, missed, in the batch, or no older than the
  candidate and everything in the batch. Storing the first of the batch keeps that, and
  at the end the batch is empty, so what is left over is not before the candidate and,
  with the overlap, in the next window. `PagesRead` says that what the offset has gone
  past was read or missed, so a page is of the oldest entries that are left
  (`RankIsTime`). `Marks`: no cursor is ahead of ServiceNow, so an update comes after it.

### CaseArchiveProofs

The four safety properties of `case_archive`, for any runs, deliveries,
receive counts, embedders and chunks.

* `TypeCorrect` (TypeOK), with `Receipts`: what is queued may be received again, and an
  attempt that is not acknowledged has sent no embed request.
* `OnlyCommittedIsReached` (OnlyCommittedIsVisible), through `Committed`: who completes a run
  has put its envelope, who publishes has a completed run, and an attempt that
  saw no item claims only if there is none, so a claim never takes a completed run back.
* `PendingIsRequested` (PendingMeansRequested), through `Requested`: a completed run that is
  pending has a request or an unacknowledged delivery of its own.
* `ChunksStay` (SharedChunksStay), an action property, from `Apart`: what a rewrite
  will prune is never its own.
* `QuietCaseIsWhole` (QuietIsWhole), through `Rewrites`: the only rewrite under way has
  filled the slots it passed, and every foreign chunk is on its list, so after
  the prune the case is whole. `RewritesOf` reduces each step to its own rewrite.

### ChatHistoryProofs

The four properties of `chat_history`, for any number of requests, turns, deletions
and failures, and any limit.

* `TypeCorrect` (TypeOK), with `Counted`: two places are counted for every reservation,
  so a release never takes `message_count` below zero.
* `NeverOversold` (CapacityIsNotOversold), through `RoomInv`: messages plus promised
  messages are at most the count, and the count is within the limit, also after
  the reservation a request is about to make. A request that persists under a
  reservation made by another uses up that reservation, so the sum never grows.
* `SequencesBelongToTurns` (OrderIsUnique). `Claim(b, t)` says that a turn uses a base:
  in a reservation, in a request about to persist, or in a message. Claims of
  different turns are two apart and below the count (`OrderInv`), and only a
  reservation makes a new one, at the count.
* `WhatIsStoredIsThere` (StoredIsThere), through `StoredInv`: messages come in whole turns.
* `StoredOnce` (OnceUnlessShared), through `OnceInv`: of a turn that is not shared, one
  request works, and past its check there is no message of it.

### Only model-checked

Everything temporal: liveness under fairness and ENABLED are outside the prover's
reach, and so is induction over data. Every invariant and every action property of the
runs is proved, two of them under a stated condition: EveryInputKept (SeparateNames) and
NoSilentLoss (KeepersReturnLate).

## 5. Plan

Done: the three guards and gates with proofs (SideEffectLock, LeasedWriteback,
ChatQuota); FileDrop, TicketSync, CaseArchive, ChatHistory and BlobPipeline with runs
and proofs; Reservation and its two implementations; PortalArchive with its run and
proof.

Next: the two-stage deletions of `retention.py` over the directories of FileDrop; and the
semaphore and retries of the LLM SDK.

## 6. Not modelled, and why

* Prompting, parsing and scoring of model output, retrieval, and report layout, by
  far the largest part of the code: data without protocol. The analysis is a choice of outcomes.
* ServiceNow incident creation: the same reservation, but its result is part of
  the report.
* The OpenSearch copy of case chunks, listing and ownership of chat sessions,
  attachments and journals of tickets, `fail_open` on AWS.
* The copies of the cloud modules on the other cloud and on PostgreSQL where they
  follow the same plan (chat history and embedding on Cosmos, ticket sync on Cosmos
  and PostgreSQL).
* Clock differences between machines: the guards compare clocks of different
  hosts; the models use one clock.
* Front ends, templates, scripts, prototypes and demonstrations.
