---------------------------- MODULE CaseArchive ----------------------------
(***************************************************************************)
(* One logical case in the AWS pipeline: archive_case claims an immutable  *)
(* run in the CaseIndex item, writes the run's envelope, completes the run *)
(* and moves latest_run, and asks for embedding over SQS; the embedder     *)
(* rewrites the chunk objects of the case and sets retrieval_status.       *)
(*                                                                         *)
(* Every alert of one finding id is a run of the same case.  A delivery is *)
(* one SQS message of an alert that has passed its report sink: the sink   *)
(* compares the reports of a redelivery with the stored ones, so what the  *)
(* attempts of one run archive is the same (LeasedWriteback models it).    *)
(* Case QA is on, failures are fail_closed, and the chunks are S3 objects  *)
(* only, as without OPENSEARCH_ENDPOINT.                                   *)
(***************************************************************************)
EXTENDS Integers, FiniteSets

CONSTANTS
    Runs,           \* run ids, one per S3 object version
    Deliveries,     \* messages of the analyzer queue
    RunOf,          \* the run each of them is about
    Size,           \* the chunks build_case_chunks makes of each run
    None,           \* no run, no claim
    Workers,        \* bound: concurrent embed invocations
    MaxReceives,    \* maxReceiveCount of both queues
    MaxFails        \* bound: failures in a behaviour

ASSUME ArchiveAssumption ==
    /\ RunOf \in [Deliveries -> Runs]
    /\ Size \in [Runs -> Nat \ {0}]
    /\ None \notin Runs \cup {"pending", "ready", "failed"}
    /\ MaxReceives \in Nat \ {0}
    /\ {Workers, MaxFails} \subseteq Nat

VARIABLES
    state,      \* CaseIndex: the state of each run's attribute, "none" if it has none
    fence,      \* CaseIndex: its fencing_token
    latest,     \* CaseIndex: latest_run_id
    retrieval,  \* CaseIndex: retrieval_status, None while there is no item
    envelope,   \* runs whose envelope object exists
    at,         \* where each delivery is
    tries,      \* how often it was received
    held,       \* the fencing token its attempt finalizes with
    sawItem,    \* whether its attempt found an item when it looked first
    job,        \* where each embed request is, by the attempt that sent it
    received,   \* how often it was received, as long as it is there
    obsolete,   \* obsolete_keys of its rewrite: existing_keys - new_keys
    written,    \* chunks its rewrite has put
    chunk,      \* the chunk objects: the run each slot was written from
    overlapped, \* ghost: two rewrites of the case were under way at once
    fails       \* failures so far

index == <<state, fence, latest, retrieval>>
archiver == <<at, tries, held, sawItem>>
embedder == <<job, received, obsolete, written, chunk, overlapped>>
vars == <<index, envelope, archiver, embedder, fails>>

Attempts == Deliveries \X (1 .. MaxReceives)
Slots == UNION {1 .. Size[r] : r \in Runs}
SlotsOf(r) == 1 .. Size[r]
Embedding == {"write", "prune", "status"}

TypeOK ==
    /\ state \in [Runs -> {"none", "claimed", "completed"}]
    /\ fence \in [Runs -> Attempts \cup {None}]
    /\ latest \in Runs \cup {None}
    /\ retrieval \in {None, "pending", "ready", "failed"}
    /\ envelope \subseteq Runs
    /\ at \in [Deliveries -> {"queued", "claim", "reread", "envelope", "finalize",
                              "again", "publish", "acked", "dead"}]
    /\ tries \in [Deliveries -> 0 .. MaxReceives]
    /\ held \in [Deliveries -> Attempts \cup {None}]
    /\ sawItem \in [Deliveries -> BOOLEAN]
    /\ job \in [Attempts -> {"none", "queued", "done", "dead"} \cup Embedding]
    /\ received \in [Attempts -> 0 .. MaxReceives]
    /\ obsolete \in [Attempts -> SUBSET Slots]
    /\ written \in [Attempts -> Nat]
    /\ chunk \in [Slots -> Runs \cup {None}]
    /\ overlapped \in BOOLEAN
    /\ fails \in 0 .. MaxFails

Init ==
    /\ state = [r \in Runs |-> "none"]
    /\ fence = [r \in Runs |-> None]
    /\ latest = None
    /\ retrieval = None
    /\ envelope = {}
    /\ at = [d \in Deliveries |-> "queued"]
    /\ tries = [d \in Deliveries |-> 0]
    /\ held = [d \in Deliveries |-> None]
    /\ sawItem = [d \in Deliveries |-> FALSE]
    /\ job = [a \in Attempts |-> "none"]
    /\ received = [a \in Attempts |-> 0]
    /\ obsolete = [a \in Attempts |-> {}]
    /\ written = [a \in Attempts |-> 0]
    /\ chunk = [s \in Slots |-> None]
    /\ overlapped = FALSE
    /\ fails = 0

-----------------------------------------------------------------------------
(* archive_case *)

Goto(d, from, to) == at[d] = from /\ at' = [at EXCEPT ![d] = to]
Attempt(d) == <<d, tries[d]>>

\* Alternatives, each a plausible slip in the definition after it, show that
\* the properties notice; no behaviour uses them.
ReplayNotRepublishing(d, from) ==
    /\ state[RunOf[d]] # "none"
    /\ Goto(d, from, IF state[RunOf[d]] = "completed" THEN "acked" ELSE "envelope")
    /\ held' = [held EXCEPT ![d] = fence[RunOf[d]]]

\* What an attempt does once it finds its own run: a completed one may still
\* need its embed request, a claimed one is recovered under the stored fence.
Replay(d, from) ==
    \/ /\ state[RunOf[d]] = "completed"
       /\ Goto(d, from, IF retrieval = "pending" THEN "publish" ELSE "acked")
       /\ UNCHANGED held
    \/ /\ state[RunOf[d]] = "claimed"
       /\ Goto(d, from, "envelope")
       /\ held' = [held EXCEPT ![d] = fence[RunOf[d]]]

\* The analyzer receives the message, its report sink succeeds, and
\* archive_case reads the item.
Receive(d) ==
    /\ \/ Replay(d, "queued")
       \/ state[RunOf[d]] = "none" /\ Goto(d, "queued", "claim") /\ UNCHANGED held
    /\ tries' = [tries EXCEPT ![d] = @ + 1]
    /\ sawItem' = [sawItem EXCEPT ![d] = state[RunOf[d]] = "none" /\ retrieval # None]
    /\ UNCHANGED <<index, envelope, embedder, fails>>

\* put_item of a new case, or update_item with the run's attribute: each is
\* conditional on what was read, and a conflict is looked at again.
Claim(d) ==
    LET r == RunOf[d]
        free == IF sawItem[d] THEN state[r] = "none" ELSE retrieval = None IN
    /\ \/ /\ free
          /\ Goto(d, "claim", "envelope")
          /\ state' = [state EXCEPT ![r] = "claimed"]
          /\ fence' = [fence EXCEPT ![r] = Attempt(d)]
          /\ held' = [held EXCEPT ![d] = Attempt(d)]
          /\ retrieval' = IF sawItem[d] THEN retrieval ELSE "pending"
       \/ ~free /\ Goto(d, "claim", "reread") /\ UNCHANGED <<state, fence, held, retrieval>>
    /\ sawItem' = [sawItem EXCEPT ![d] = FALSE]
    /\ UNCHANGED <<latest, envelope, tries, embedder, fails>>

\* The item after a conflict; one without the run is "already held".
Reread(d) ==
    /\ \/ Replay(d, "reread")
       \/ state[RunOf[d]] = "none" /\ Goto(d, "reread", "acked") /\ UNCHANGED held
    /\ UNCHANGED <<index, envelope, tries, sawItem, embedder, fails>>

NoEnvelope(d) ==
    /\ Goto(d, "envelope", "finalize")
    /\ UNCHANGED <<index, envelope, tries, held, sawItem, embedder, fails>>

\* _verify_or_write_envelope: create-only, and the same bytes if it exists.
PutEnvelope(d) ==
    /\ Goto(d, "envelope", "finalize")
    /\ envelope' = envelope \cup {RunOf[d]}
    /\ UNCHANGED <<index, tries, held, sawItem, embedder, fails>>

\* _finalize_run_and_publish_embed: complete the run and move latest_run in
\* one conditional update; whoever finds it done only repairs the handoff.
Finalize(d) ==
    LET r == RunOf[d]
        mine == state[r] = "claimed" /\ fence[r] = held[d] IN
    /\ \/ /\ mine
          /\ Goto(d, "finalize", "publish")
          /\ state' = [state EXCEPT ![r] = "completed"]
          /\ latest' = r
       \/ ~mine /\ Goto(d, "finalize", "again") /\ UNCHANGED <<state, latest>>
    /\ held' = [held EXCEPT ![d] = None]
    /\ UNCHANGED <<fence, retrieval, envelope, tries, sawItem, embedder, fails>>

FinalizedBefore(d) ==
    /\ state[RunOf[d]] = "completed"
    /\ Goto(d, "again", IF retrieval = "pending" THEN "publish" ELSE "acked")
    /\ UNCHANGED <<index, envelope, tries, held, sawItem, embedder, fails>>

\* send_message on the embed queue, and the record's success.
Publish(d) ==
    /\ Goto(d, "publish", "acked")
    /\ job' = [job EXCEPT ![Attempt(d)] = "queued"]
    /\ UNCHANGED <<index, envelope, tries, held, sawItem, received, obsolete, written, chunk,
                   overlapped, fails>>

\* A store or queue call raises or the Lambda dies: the message comes back
\* until its receive count is spent.  (A request to embed that was sent while
\* its answer was lost is one more request for the same run; two deliveries
\* of a run send as many.)
ArchiveFails(d) ==
    /\ fails < MaxFails
    /\ at[d] \notin {"queued", "acked", "dead"}
    /\ at' = [at EXCEPT ![d] = IF tries[d] < MaxReceives THEN "queued" ELSE "dead"]
    /\ held' = [held EXCEPT ![d] = None]
    /\ sawItem' = [sawItem EXCEPT ![d] = FALSE]
    /\ fails' = fails + 1
    /\ UNCHANGED <<index, envelope, tries, embedder>>

-----------------------------------------------------------------------------
(* embed_case_envelope *)

Target(a) == RunOf[a[1]]
Active == {a \in Attempts : job[a] \in Embedding}
JobGoto(a, from, to) == job[a] = from /\ job' = [job EXCEPT ![a] = to]

StartEmbedClearing(a) ==
    /\ JobGoto(a, "queued", "write")
    /\ Cardinality(Active) < Workers
    /\ received' = [received EXCEPT ![a] = @ + 1]
    /\ chunk' = [s \in Slots |-> None]
    /\ overlapped' = (overlapped \/ Active # {})
    /\ UNCHANGED <<index, envelope, archiver, obsolete, written, fails>>

\* The embedder receives the request, and rewrite_case_chunks lists what is
\* there before it asks for the embeddings of all chunks.
StartEmbed(a) ==
    /\ JobGoto(a, "queued", "write")
    /\ Cardinality(Active) < Workers
    /\ received' = [received EXCEPT ![a] = @ + 1]
    /\ obsolete' = [obsolete EXCEPT ![a] = {s \in Slots \ SlotsOf(Target(a)) : chunk[s] # None}]
    /\ overlapped' = (overlapped \/ Active # {})
    /\ UNCHANGED <<index, envelope, archiver, written, chunk, fails>>

WriteChunkOnce(a) ==
    LET s == written[a] + 1 IN
    /\ JobGoto(a, "write", IF s = Size[Target(a)] THEN "prune" ELSE "write")
    /\ chunk' = [chunk EXCEPT ![s] = IF @ = None THEN Target(a) ELSE @]
    /\ written' = [written EXCEPT ![a] = s]
    /\ UNCHANGED <<index, envelope, archiver, received, obsolete, overlapped, fails>>

\* One put_object of its loop, over whatever the slot holds.
WriteChunk(a) ==
    LET s == written[a] + 1 IN
    /\ JobGoto(a, "write", IF s = Size[Target(a)] THEN "prune" ELSE "write")
    /\ chunk' = [chunk EXCEPT ![s] = Target(a)]
    /\ written' = [written EXCEPT ![a] = s]
    /\ UNCHANGED <<index, envelope, archiver, received, obsolete, overlapped, fails>>

\* The keys it found and did not write are deleted.
Prune(a) ==
    /\ JobGoto(a, "prune", "status")
    /\ chunk' = [s \in Slots |-> IF s \in obsolete[a] THEN None ELSE chunk[s]]
    /\ UNCHANGED <<index, envelope, archiver, received, obsolete, written, overlapped, fails>>

\* update_retrieval_status and the end of the message.
Released(a) ==
    /\ obsolete' = [obsolete EXCEPT ![a] = {}]
    /\ written' = [written EXCEPT ![a] = 0]

SetReady(a) ==
    /\ JobGoto(a, "status", "done")
    /\ retrieval' = "ready"
    /\ received' = [received EXCEPT ![a] = 0]
    /\ Released(a)
    /\ UNCHANGED <<state, fence, latest, envelope, archiver, chunk, overlapped, fails>>

EmbedFailsDropping(a) ==
    /\ fails < MaxFails
    /\ job[a] \in Embedding
    /\ job' = [job EXCEPT ![a] = "done"]
    /\ UNCHANGED retrieval
    /\ Released(a)
    /\ fails' = fails + 1
    /\ UNCHANGED <<state, fence, latest, envelope, archiver, received, chunk, overlapped>>

\* A call raises: "failed" is set, unless that fails too or the Lambda dies,
\* perhaps with "ready" already set; the message comes back until its receive
\* count is spent.
EmbedFails(a) ==
    /\ fails < MaxFails
    /\ job[a] \in Embedding
    /\ job' = [job EXCEPT ![a] = IF received[a] < MaxReceives THEN "queued" ELSE "dead"]
    /\ \/ retrieval' \in {"failed", retrieval}
       \/ job[a] = "status" /\ retrieval' = "ready"
    /\ Released(a)
    /\ fails' = fails + 1
    /\ UNCHANGED <<state, fence, latest, envelope, archiver, received, chunk, overlapped>>

-----------------------------------------------------------------------------

ArchiveStep(d) ==
    \/ Receive(d) \/ Claim(d) \/ Reread(d) \/ PutEnvelope(d)
    \/ Finalize(d) \/ FinalizedBefore(d) \/ Publish(d)

EmbedStep(a) ==
    StartEmbed(a) \/ WriteChunk(a) \/ Prune(a) \/ SetReady(a)

Next ==
    \/ \E d \in Deliveries : ArchiveStep(d) \/ ArchiveFails(d)
    \/ \E a \in Attempts : EmbedStep(a) \/ EmbedFails(a)

Spec == Init /\ [][Next]_vars

\* SQS keeps delivering what is queued, and invocations go on; nothing has to
\* fail.  Which message or invocation comes first is not assumed.
FairSpec ==
    /\ Spec
    /\ WF_vars(\E d \in Deliveries : ArchiveStep(d))
    /\ WF_vars(\E a \in Attempts : EmbedStep(a))

-----------------------------------------------------------------------------
(* Properties *)

\* What readers can reach is committed: latest_run and every completed run
\* have their envelope, and a chunk comes from a completed run, through every
\* recovery of a claim and every replayed message.
OnlyCommittedIsVisible ==
    /\ latest # None => state[latest] = "completed"
    /\ \A r \in Runs : state[r] = "completed" => r \in envelope
    /\ \A s \in Slots : chunk[s] # None => state[chunk[s]] = "completed"

\* No case is stuck in "pending" behind acknowledged messages: if its run is
\* complete and its messages are gone, an embed request has been sent.
PendingMeansRequested ==
    \A r \in Runs :
        (/\ state[r] = "completed" /\ retrieval = "pending"
         /\ \A d \in Deliveries : RunOf[d] = r => at[d] = "acked")
            => \E a \in Attempts : job[a] # "none"

\* rewrite_case_chunks: "Replace embedded chunk objects without deleting
\* usable chunks until writes succeed."  A chunk every run has, once there, is
\* never missing again, however rewrites of different runs interleave or fail.
SharedChunksStay ==
    [][\A s \in Slots :
        chunk[s] # None /\ (\A r \in Runs : s \in SlotsOf(r)) => chunk'[s] # None]_vars

\* When rewrites did not overlap and none is left to do or given up, a case
\* that is ready has all chunks of one completed run and no other, also after
\* a rewrite that failed half way and was repeated.
QuietIsWhole ==
    (/\ ~overlapped
     /\ retrieval = "ready"
     /\ \A a \in Attempts : job[a] \in {"none", "done"})
        => \E r \in Runs :
             /\ state[r] = "completed"
             /\ chunk = [s \in Slots |-> IF s \in SlotsOf(r) THEN r ELSE None]

\* A completed case leaves "pending", or a message is in a dead-letter queue
\* for an operator to find.
PendingIsSettled ==
    \A r \in Runs :
        (state[r] = "completed" /\ retrieval = "pending")
            ~> \/ retrieval \in {"ready", "failed"}
               \/ \E d \in Deliveries : at[d] = "dead"
               \/ \E a \in Attempts : job[a] = "dead"

=============================================================================
