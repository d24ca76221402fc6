-------------------------- MODULE LeasedWriteback --------------------------
(***************************************************************************)
(* The AWS analyzer's guarded Splunk writeback for one finding: SQS        *)
(* deliveries of lambda_handler.handler, the create-only report objects of *)
(* write_to_s3_sink, and the DynamoDB reservation of idempotency.py around *)
(* the POST of write_to_splunk_rest (SPLUNK_SINK_MODE=notable_rest with    *)
(* side-effect idempotency enabled).                                       *)
(*                                                                         *)
(* The messages modelled share the finding id, hence one DynamoDB item;    *)
(* messages for the same S3 object also share its report objects.  A       *)
(* message has one running invocation at most, because the queue hides it  *)
(* for longer than an invocation may run; a duplicate delivery is a        *)
(* message of its own.  Every call to a store is an atomic step.           *)
(***************************************************************************)
EXTENDS Integers, FiniteSets

CONSTANTS
    Messages,       \* queue messages about this finding
    Objects,        \* S3 input objects they announce
    ObjectOf,       \* the object of each message
    Analyses,       \* the different reports the model may write for an object
    Absent,         \* no report object, no analysis yet
    LambdaTimeout,  \* longest invocation, in units of time
    LockSeconds,    \* SIDE_EFFECT_IDEMPOTENCY_LOCK_SECONDS, in units of time
    Visibility,     \* VisibilityTimeout of the analyzer queue
    MaxReceives,    \* maxReceiveCount of its redrive policy
    MaxExpiries,    \* bound: TTL deletions of the item
    Faults          \* the failures that may happen in a run

FaultKinds ==
    {"crash", "analysis", "store", "lag", "rejected", "lostAnswer", "archive", "ttl"}

ASSUME DataAssumption ==
    /\ IsFiniteSet(Messages)
    /\ ObjectOf \in [Messages -> Objects]
    /\ Absent \notin Analyses

\* The template's defaults: 360 (at most 900), 900 and 960 seconds; the lock may
\* be set to less than an invocation takes.
ASSUME TimesAssumption ==
    /\ LambdaTimeout \in Nat
    /\ LockSeconds \in Nat
    /\ Visibility \in Nat
    /\ LambdaTimeout <= Visibility

ASSUME BoundsAssumption ==
    /\ MaxReceives \in Nat
    /\ MaxExpiries \in Nat
    /\ Faults \subseteq FaultKinds

VARIABLES
    pc,         \* where each message, or the invocation working on it, is
    receives,   \* ApproximateReceiveCount of each message
    since,      \* time since each message was last received
    analysis,   \* what the current invocation of each message will report
    report,     \* the report objects stored for each input object
    item,       \* status and fencing token of the DynamoDB item
    age,        \* now - started_at of the item, capped past LockSeconds
    started,    \* since when begin_side_effect was entered: its started_at
    token,      \* the fencing token each invocation holds, or wants to replace
    told,       \* the marker status a skipped invocation was shown
    applied,    \* comments Splunk has added
    posted,     \* ghost: which report was posted for which object
    takeovers,  \* ghost: stale reservations taken over
    expiries,   \* TTL deletions so far
    bereft      \* ghost: tokens whose item TTL deleted under a writer

vars == <<pc, receives, since, analysis, report, item, age, started, token,
          told, applied, posted, takeovers, expiries, bereft>>

\* What the invocations of one message keep to themselves.
local == <<receives, since, started, analysis>>
ledger == <<item, age, takeovers, expiries, bereft>>
splunk == <<applied, posted>>

Kinds == {"md", "json"}

\* A uuid4 is known by who made it, in which delivery, and for which request.
Tokens == Messages \X (0 .. MaxReceives) \X {"put", "take"}

Running ==
    {"analyze", "md", "json", "reserve", "read", "takeover", "post", "record",
     "fence", "mark", "done"}

\* From a won reservation to the last write to its item.
Writing == {"post", "record", "fence", "mark"}

Statuses == {"in_progress", "completed", "uncertain"}

Items == [status : Statuses, token : Tokens]

NoItem == [status |-> "absent"]

TypeOK ==
    /\ pc \in [Messages -> Running \cup {"queued", "failed", "acked", "dead"}]
    /\ receives \in [Messages -> 0 .. MaxReceives]
    /\ since \in [Messages -> 0 .. Visibility]
    /\ analysis \in [Messages -> Analyses \cup {Absent}]
    /\ report \in [Objects -> [Kinds -> Analyses \cup {Absent}]]
    /\ item \in Items \cup {NoItem}
    /\ age \in 0 .. (LockSeconds + 1)
    /\ started \in [Messages -> 0 .. Visibility]
    /\ token \in [Messages -> Tokens]
    /\ told \in [Messages -> Statuses \cup {"unknown", "nothing"}]
    /\ applied \in Nat
    /\ posted \subseteq Objects \X Analyses
    /\ takeovers \in Nat
    /\ expiries \in 0 .. MaxExpiries
    /\ bereft \subseteq Tokens

Init ==
    /\ pc = [m \in Messages |-> "queued"]
    /\ receives = [m \in Messages |-> 0]
    /\ since = [m \in Messages |-> 0]
    /\ analysis = [m \in Messages |-> Absent]
    /\ report = [o \in Objects |-> [k \in Kinds |-> Absent]]
    /\ item = NoItem
    /\ age = 0
    /\ started = [m \in Messages |-> 0]
    /\ token = [m \in Messages |-> <<m, 0, "put">>]
    /\ told = [m \in Messages |-> "nothing"]
    /\ applied = 0
    /\ posted = {}
    /\ takeovers = 0
    /\ expiries = 0
    /\ bereft = {}

-----------------------------------------------------------------------------
(* Helpers *)

Goto(m, from, to) == pc[m] = from /\ pc' = [pc EXCEPT ![m] = to]

InProgress(t) == [status |-> "in_progress", token |-> t]

PutToken(m) == <<m, receives[m], "put">>
TakeoverToken(m) == <<m, receives[m], "take">>

\* The condition of every update: status in_progress and the own token.
Owns(m) == item = InProgress(token[m])

\* _is_stale_in_progress
IsStaleAtOnce == item.status = "in_progress"
IsStale == item.status = "in_progress" /\ age > LockSeconds

Capped(a) == IF a <= LockSeconds THEN a ELSE LockSeconds + 1

SetStatus(status) == item' = [item EXCEPT !.status = status]

-----------------------------------------------------------------------------
(* The queue *)

\* The event source hands the message to an invocation of handler.
Receive(m) ==
    /\ Goto(m, "queued", "analyze")
    /\ receives[m] < MaxReceives
    /\ receives' = [receives EXCEPT ![m] = @ + 1]
    /\ since' = [since EXCEPT ![m] = 0]
    /\ started' = [started EXCEPT ![m] = 0]
    /\ analysis' = [analysis EXCEPT ![m] = Absent]
    /\ told' = [told EXCEPT ![m] = "nothing"]
    /\ UNCHANGED <<report, token, ledger, splunk>>

\* The redrive policy: a message received maxReceiveCount times is moved to
\* the dead-letter queue.
DeadLetter(m) ==
    /\ Goto(m, "queued", "dead")
    /\ receives[m] = MaxReceives
    /\ UNCHANGED <<local, token, report, told, ledger, splunk>>

\* The sink succeeded and the case is archived: the message is not among
\* batchItemFailures and SQS deletes it.  An archive that fails under
\* CASE_ARCHIVE_FAILURE_MODE=fail_closed fails the record after all.
Ack(m) ==
    /\ \/ Goto(m, "done", "acked")
       \/ "archive" \in Faults /\ Goto(m, "done", "failed")
    /\ UNCHANGED <<local, token, report, told, ledger, splunk>>

\* A failed message is seen again when its visibility timeout has passed.
Reappear(m) ==
    /\ Goto(m, "failed", "queued")
    /\ since[m] = Visibility
    /\ UNCHANGED <<local, token, report, told, ledger, splunk>>

\* The invocation dies: a timeout, an out-of-memory kill, a lost host.
Crash(m) ==
    /\ "crash" \in Faults
    /\ pc[m] \in Running
    /\ pc' = [pc EXCEPT ![m] = "failed"]
    /\ UNCHANGED <<local, token, report, told, ledger, splunk>>

-----------------------------------------------------------------------------
(* Analysis and the S3 sink *)

\* analyze_ttp: the model's answer differs from one call to the next; a
\* Bedrock failure makes the message a batch item failure.
Analyze(m) ==
    /\ \/ /\ Goto(m, "analyze", "md")
          /\ \E a \in Analyses : analysis' = [analysis EXCEPT ![m] = a]
       \/ "analysis" \in Faults /\ Goto(m, "analyze", "failed") /\ UNCHANGED analysis
    /\ UNCHANGED <<receives, since, started, report, token, told, ledger, splunk>>

\* _put_s3_report_artifact: create with IfNoneMatch "*"; an object that is
\* there already must have the same bytes, anything else fails the sink and
\* with it the record, and the writeback is not tried.
PutArtifactOverwriting(m, kind, next) ==
    /\ Goto(m, kind, next)
    /\ report' = [report EXCEPT ![ObjectOf[m]][kind] = analysis[m]]
    /\ UNCHANGED <<local, token, told, ledger, splunk>>
PutArtifact(m, kind, next) ==
    LET stored == report[ObjectOf[m]][kind] IN
    /\ \/ /\ stored = Absent
          /\ Goto(m, kind, next)
          /\ report' = [report EXCEPT ![ObjectOf[m]][kind] = analysis[m]]
       \/ stored = analysis[m] /\ Goto(m, kind, next) /\ UNCHANGED report
       \/ stored \notin {Absent, analysis[m]} /\ Goto(m, kind, "failed") /\ UNCHANGED report
       \/ "store" \in Faults /\ Goto(m, kind, "failed") /\ UNCHANGED report
    /\ UNCHANGED <<local, token, told, ledger, splunk>>

-----------------------------------------------------------------------------
(* begin_side_effect *)

\* PutItem with attribute_not_exists(id); started_at is read before it.  An answer lost by the network makes
\* the SDK send it again, and the second try fails on the first one's item.
Reserve(m) ==
    LET create == /\ item = NoItem
                  /\ item' = InProgress(PutToken(m))
                  /\ age' = 0
        keep == UNCHANGED <<item, age>> IN
    /\ \/ create /\ Goto(m, "reserve", "post")
       \/ item # NoItem /\ keep /\ Goto(m, "reserve", "read")
       \/ "store" \in Faults /\ create /\ Goto(m, "reserve", "read")
       \/ "store" \in Faults /\ (create \/ keep) /\ Goto(m, "reserve", "failed")
    /\ started' = [started EXCEPT ![m] = since[m]]
    /\ token' = [token EXCEPT ![m] = PutToken(m)]
    /\ UNCHANGED <<receives, since, analysis, report, told, takeovers, expiries, bereft, splunk>>

\* GetItem after a failed condition.  A stale reservation is taken over;
\* whatever else is there, or nothing any more, ends the call with
\* should_execute = False and the sink reports "skipped", which is a success.
\* The read does not ask for ConsistentRead: it may show the table before the
\* item was made, or an earlier reservation; taking that over fails on its token.
ReadItemOnly(m) ==
    /\ item # NoItem
    /\ Goto(m, "read", "done")
    /\ told' = [told EXCEPT ![m] = item.status]
    /\ UNCHANGED <<local, report, token, ledger, splunk>>
ReadItem(m) ==
    /\ \/ /\ item # NoItem /\ IsStale
          /\ Goto(m, "read", "takeover")
          /\ token' = [token EXCEPT ![m] = item.token]
          /\ UNCHANGED told
       \/ /\ item # NoItem /\ ~IsStale
          /\ Goto(m, "read", "done")
          /\ told' = [told EXCEPT ![m] = item.status]
          /\ UNCHANGED token
       \/ /\ item = NoItem
          /\ Goto(m, "read", "done")
          /\ told' = [told EXCEPT ![m] = "unknown"]
          /\ UNCHANGED token
       \/ /\ "lag" \in Faults
          /\ Goto(m, "read", "done")
          /\ \E view \in {"unknown", "in_progress"} : told' = [told EXCEPT ![m] = view]
          /\ UNCHANGED token
       \/ "store" \in Faults /\ Goto(m, "read", "failed") /\ UNCHANGED <<token, told>>
    /\ UNCHANGED <<local, report, ledger, splunk>>

\* UpdateItem on the status, started_at and token that were read, which sets
\* started_at to when begin_side_effect was entered: one of
\* several invocations that saw the same stale item wins, the others skip.
TakeOver(m) ==
    LET won == /\ Owns(m)
               /\ item' = InProgress(TakeoverToken(m))
               /\ age' = Capped(since[m] - started[m])
               /\ takeovers' = takeovers + 1
        keep == UNCHANGED <<item, age, takeovers>>
        skip == /\ Goto(m, "takeover", "done")
                /\ told' = [told EXCEPT ![m] = "in_progress"] IN
    /\ \/ won /\ Goto(m, "takeover", "post") /\ UNCHANGED told
       \/ ~Owns(m) /\ keep /\ skip
       \/ "store" \in Faults /\ won /\ skip
       \/ "store" \in Faults /\ (won \/ keep) /\ Goto(m, "takeover", "failed") /\ UNCHANGED told
    /\ token' = [token EXCEPT ![m] = TakeoverToken(m)]
    /\ UNCHANGED <<local, report, expiries, bereft, splunk>>

-----------------------------------------------------------------------------
(* The POST and what follows it *)

\* requests.post and raise_for_status.  A refusal, a connection error and a
\* lost answer all raise, and the handler of the exception cannot tell them
\* apart.
PostErrorCompleted(m) ==
    /\ Goto(m, "post", "record")
    /\ \/ applied' = applied + 1 /\ posted' = posted \cup {<<ObjectOf[m], analysis[m]>>}
       \/ UNCHANGED <<applied, posted>>
    /\ UNCHANGED <<local, token, report, told, ledger>>
Post(m) ==
    LET added == /\ applied' = applied + 1
                 /\ posted' = posted \cup {<<ObjectOf[m], analysis[m]>>} IN
    /\ \/ Goto(m, "post", "record") /\ added
       \/ "lostAnswer" \in Faults /\ Goto(m, "post", "mark") /\ added
       \/ "rejected" \in Faults /\ Goto(m, "post", "mark") /\ UNCHANGED splunk
    /\ UNCHANGED <<local, token, report, told, ledger>>

\* complete_side_effect_success: conditional on the own token; any failure,
\* even one that only lost the answer, goes on to mark_side_effect_uncertain.
Complete(m) ==
    /\ \/ Owns(m) /\ Goto(m, "record", "done") /\ SetStatus("completed")
       \/ ~Owns(m) /\ Goto(m, "record", "fence") /\ UNCHANGED item
       \/ "store" \in Faults /\ Goto(m, "record", "fence") /\ UNCHANGED item
       \/ "store" \in Faults /\ Owns(m) /\ Goto(m, "record", "fence") /\ SetStatus("completed")
    /\ UNCHANGED <<age, takeovers, expiries, bereft, local, token, report, told, splunk>>

\* mark_side_effect_uncertain after a confirmed POST: "uncertain" is reported
\* and counts as success whether or not the item could be written.
FenceAfterSuccess(m) ==
    /\ Goto(m, "fence", "done")
    /\ \/ Owns(m) /\ SetStatus("uncertain")
       \/ ~Owns(m) /\ UNCHANGED item
       \/ "store" \in Faults /\ UNCHANGED item
    /\ UNCHANGED <<age, takeovers, expiries, bereft, local, token, report, told, splunk>>

\* mark_side_effect_uncertain after an exception: recorded, the result is
\* "uncertain" and a success of the sink; not recorded, it is an error.
MarkReleasing(m) ==
    /\ Owns(m)
    /\ Goto(m, "mark", "failed")
    /\ item' = NoItem
    /\ UNCHANGED <<age, takeovers, expiries, bereft, local, token, report, told, splunk>>
MarkUncertain(m) ==
    /\ \/ Owns(m) /\ Goto(m, "mark", "done") /\ SetStatus("uncertain")
       \/ ~Owns(m) /\ Goto(m, "mark", "failed") /\ UNCHANGED item
       \/ "store" \in Faults /\ Goto(m, "mark", "failed") /\ UNCHANGED item
       \/ "store" \in Faults /\ Owns(m) /\ Goto(m, "mark", "failed") /\ SetStatus("uncertain")
    /\ UNCHANGED <<age, takeovers, expiries, bereft, local, token, report, told, splunk>>

-----------------------------------------------------------------------------
(* Time *)

\* DynamoDB deletes the item SIDE_EFFECT_IDEMPOTENCY_RETENTION_DAYS after it
\* was created.  A day is longer than an invocation, so the invocation that
\* created it has ended; but a takeover does not renew expires_at, and the item
\* may go while its taker runs.
Expire ==
    /\ "ttl" \in Faults
    /\ expiries < MaxExpiries
    /\ item # NoItem
    /\ \A m \in Messages : pc[m] \in Running => item.token # PutToken(m)
    /\ item' = NoItem
    /\ age' = 0
    /\ expiries' = expiries + 1
    /\ bereft' = bereft \cup {token[m] : m \in {n \in Messages :
                                pc[n] \in Writing /\ token[n] = item.token}}
    /\ UNCHANGED <<pc, local, token, report, told, splunk, takeovers>>

\* An invocation that has used up LambdaTimeout takes no more time: it
\* finishes its step or dies.
Tick ==
    /\ \A m \in Messages : pc[m] \in Running => since[m] < LambdaTimeout
    /\ \/ \E m \in Messages : pc[m] \in Running
       \/ \E m \in Messages : pc[m] = "failed" /\ since[m] < Visibility
    /\ since' = [m \in Messages |->
                   IF pc[m] \in Running \cup {"failed"} /\ since[m] < Visibility
                   THEN since[m] + 1 ELSE since[m]]
    /\ age' = IF item # NoItem THEN Capped(age + 1) ELSE age
    /\ UNCHANGED <<pc, receives, started, analysis, report, item, token, told, takeovers,
                   expiries, bereft, splunk>>

-----------------------------------------------------------------------------

Step(m) ==
    \/ Receive(m) \/ DeadLetter(m) \/ Ack(m) \/ Reappear(m)
    \/ Analyze(m) \/ PutArtifact(m, "md", "json") \/ PutArtifact(m, "json", "reserve")
    \/ Reserve(m) \/ ReadItem(m) \/ TakeOver(m)
    \/ Post(m) \/ Complete(m) \/ FenceAfterSuccess(m) \/ MarkUncertain(m)

Next ==
    \/ \E m \in Messages : Step(m) \/ Crash(m)
    \/ Expire
    \/ Tick

Spec == Init /\ [][Next]_vars

\* SQS keeps delivering, invocations run, time passes; nothing has to fail.
FairSpec ==
    Spec /\ WF_vars(Tick) /\ \A m \in Messages : WF_vars(Step(m))

-----------------------------------------------------------------------------
(* Properties *)

\* While the lock outlasts every invocation, an invocation between its
\* reservation and the last write to its item owns the item, so there is one at
\* most: a redelivered message never writes back next to a running one.  Only
\* one whose item TTL deleted under it may be running beside the next.
SingleWriter ==
    LambdaTimeout <= LockSeconds =>
        \A m \in Messages : pc[m] \in Writing /\ token[m] \notin bereft =>
            /\ item # NoItem
            /\ item.token = token[m]
            /\ \A n \in Messages : pc[n] \in Writing /\ token[n] \notin bereft => n = m

\* Comments are added once, and once more for every stale reservation taken
\* over and every item deleted by TTL: no redelivery, lost answer, failed
\* store call or slow invocation adds another one by itself.
AppliedBounded ==
    applied <= 1 + takeovers + expiries

\* A message acknowledged because the writeback was already completed is not
\* lost: the comment is there.
SkipMeansApplied ==
    \A m \in Messages : told[m] = "completed" => applied > 0

\* The comment in Splunk is the report in S3: whatever was posted for an
\* object is what both its report objects hold, however often the model was
\* asked again.
PostedIsStored ==
    \A p \in posted : \A k \in Kinds : report[p[1]][k] = p[2]

\* A reservation that reached an outcome keeps it until TTL deletes the item:
\* an invocation that was overtaken cannot turn "uncertain" into "completed",
\* or the other way round, or reopen the key.
OutcomeIsFinal ==
    [][item # NoItem /\ item.status # "in_progress" => item' \in {item, NoItem}]_vars

\* The reservation of the finding, as the abstract module sees it.
Guard == INSTANCE Reservation WITH
    Outcomes <- {"completed", "uncertain"},
    slot <- item,
    armed <- {token[m] : m \in {n \in Messages : pc[n] = "post"}},
    effects <- applied,
    renewals <- takeovers

\* The code implements the reservation: through retries, crashes, takeovers
\* and lost answers, every POST is the one try of a reservation that was won,
\* and an outcome is recorded only by the owner, after its POST.
GuardsTheWrite == Guard!Spec

\* When every message is acknowledged, the comment was added or the item says
\* that somebody has to look: no writeback disappears behind a success.
\* docs/operations/platform/RECOVERY_BEHAVIOR_AND_RESPONSIBILITIES.md promises
\* "Stale lock reclaim: allow retry after abandoned in-progress idempotency
\* reservations".
NoSilentLoss ==
    (\A m \in Messages : pc[m] = "acked") =>
        applied > 0 \/ (item # NoItem /\ item.status = "uncertain")

\* Every message comes to rest for good, acknowledged or in the dead-letter
\* queue, and the writeback with them: the comment is added, the item says that
\* nobody knows, or a message is left for an operator, through crashes at any
\* point, failed analyses, refusals and lost answers.
WritebackSettles ==
    <>[](/\ \A m \in Messages : pc[m] \in {"acked", "dead"}
         /\ \/ applied > 0
            \/ item # NoItem /\ item.status = "uncertain"
            \/ \E m \in Messages : pc[m] = "dead")
=============================================================================
