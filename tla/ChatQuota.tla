----------------------------- MODULE ChatQuota -----------------------------
(***************************************************************************)
(* The distributed admission gate of the Azure portal's chat               *)
(* (azure_notable_pipeline/chat_quota.py, CosmosChatQuota) and the way     *)
(* portal_handler._handle_chat_gate uses it: acquire, run the chat,        *)
(* release.                                                                *)
(*                                                                         *)
(* The quota document of one user is modelled; documents of two users      *)
(* never meet.  The actors are chat calls of that user on any number of    *)
(* Function App workers.  A worker reads the clock, reads the document,    *)
(* and writes it back if its ETag has not changed: three steps, between    *)
(* which other workers act and time passes.  Point reads are strongly      *)
(* consistent.  All workers read the same clock.                           *)
(***************************************************************************)
EXTENDS Integers, FiniteSets, FiniteSetsExt

CONSTANTS
    Calls,           \* chat calls of the user
    Ids,             \* request ids
    IdOf,            \* the request id of each call; a retry repeats it
    NoDoc,           \* the user has no quota document
    MaxConcurrency,  \* PORTAL_CHAT_PER_USER_MAX_CONCURRENCY
    MaxRequests,     \* PORTAL_CHAT_MAX_REQUESTS_PER_WINDOW
    Cost,            \* PORTAL_CHAT_BUDGET_UNITS_PER_REQUEST
    MaxBudget,       \* PORTAL_CHAT_MAX_BUDGET_UNITS_PER_WINDOW
    WindowSeconds,   \* PORTAL_CHAT_QUOTA_WINDOW_SECONDS
    LeaseSeconds,    \* PORTAL_CHAT_LEASE_SECONDS
    DedupeSeconds,   \* PORTAL_CHAT_REQUEST_DEDUPE_SECONDS
    MaxAttempts,     \* max_attempts of CosmosChatQuota
    MaxTime,         \* bound: the clock stops here
    Faults           \* the failures that may happen in a run

FaultKinds == {"store"}

ASSUME CallsAssumption ==
    /\ IsFiniteSet(Calls)
    /\ IdOf \in [Calls -> Ids]

\* What config.py validates.
ASSUME LimitsAssumption ==
    /\ MaxConcurrency \in Nat \ {0}
    /\ MaxRequests \in Nat \ {0}
    /\ Cost \in Nat \ {0}
    /\ MaxBudget \in Nat
    /\ Cost <= MaxBudget
    /\ WindowSeconds \in Nat \ {0}
    /\ LeaseSeconds \in Nat \ {0}
    /\ DedupeSeconds \in Nat
    /\ LeaseSeconds <= DedupeSeconds
    /\ MaxAttempts \in Nat \ {0}

ASSUME BoundsAssumption ==
    /\ MaxTime \in Nat
    /\ Faults \subseteq FaultKinds

\* A document read as absent by mistake would be a document of its own.
ASSUME NoDocAssumption ==
    NoDoc \notin [window : Int, count : Int, budget : Int, ttl : Int,
                  leases : SUBSET [id : Ids, expires : Int],
                  recent : SUBSET [id : Ids, expires : Int]]

VARIABLES
    now,       \* the clock, in seconds since the start of some window
    doc,       \* the quota document in Cosmos
    etag,      \* its _etag: no two writes leave the same one
    gone,      \* when the document's ttl deletes it
    pc,        \* where each call is
    at,        \* the clock reading each call works with
    draft,     \* the document each call is about to write
    base,      \* the etag of the document each draft was made from
    attempt,   \* rounds of its loop each call has lost
    changes,   \* ghost: changes of the document since the loop began, capped
    charged,   \* ghost: calls counted by a write of theirs
    wrote,     \* ghost: when each call was counted
    straddled, \* ghost: some write used a clock reading of an earlier window
    outlived   \* ghost: some call ran on after its request id was forgotten

vars == <<now, doc, etag, gone, pc, at, draft, base, attempt, changes,
          charged, wrote, straddled, outlived>>

Acquiring == {"clock", "read", "create", "replace"}
Releasing == {"reread", "remove"}

Entries == [id : Ids, expires : Nat]

Documents ==
    [window : Nat, count : Nat, budget : Nat, ttl : Nat,
     leases : SUBSET Entries, recent : SUBSET Entries]

TypeOK ==
    /\ now \in 0 .. MaxTime
    /\ doc \in Documents \cup {NoDoc}
    /\ etag \in Nat
    /\ gone \in Nat
    /\ pc \in [Calls -> Acquiring \cup Releasing \cup
                        {"running", "done", "denied", "error"}]
    /\ at \in [Calls -> 0 .. MaxTime]
    /\ draft \in [Calls -> Documents \cup {NoDoc}]
    /\ base \in [Calls -> Nat]
    /\ attempt \in [Calls -> 0 .. MaxAttempts]
    /\ changes \in [Calls -> 0 .. MaxAttempts]
    /\ charged \subseteq Calls
    /\ wrote \in [Calls -> 0 .. MaxTime]
    /\ straddled \in BOOLEAN
    /\ outlived \in BOOLEAN

Init ==
    /\ now = 0
    /\ doc = NoDoc
    /\ etag = 0
    /\ gone = 0
    /\ pc = [c \in Calls |-> "clock"]
    /\ at = [c \in Calls |-> 0]
    /\ draft = [c \in Calls |-> NoDoc]
    /\ base = [c \in Calls |-> 0]
    /\ attempt = [c \in Calls |-> 0]
    /\ changes = [c \in Calls |-> 0]
    /\ charged = {}
    /\ wrote = [c \in Calls |-> 0]
    /\ straddled = FALSE
    /\ outlived = FALSE

-----------------------------------------------------------------------------
(* _new_document and _admit_existing: what a call makes of what it read *)

WindowOf(t) == t - (t % WindowSeconds)

Lease(c) == [id |-> IdOf[c], expires |-> at[c] + LeaseSeconds]
Recent(c) == [id |-> IdOf[c], expires |-> at[c] + DedupeSeconds]

\* The document must outlive its window and everything it remembers.
RetentionEnd(c, entries) ==
    Max({WindowOf(at[c]) + WindowSeconds} \cup {e.expires : e \in entries})

NewDocument(c) ==
    [window |-> WindowOf(at[c]), count |-> 1, budget |-> Cost,
     leases |-> {Lease(c)}, recent |-> {Recent(c)},
     ttl |-> RetentionEnd(c, {Lease(c), Recent(c)}) - at[c]]

Unexpired(entries, t) == {e \in entries : e.expires > t}

\* The counters start over when the window is not the document's.
UsedCount(d, c) == IF d.window = WindowOf(at[c]) THEN d.count ELSE 0
UsedBudget(d, c) == IF d.window = WindowOf(at[c]) THEN d.budget ELSE 0

IsDuplicate(d, c) == \E e \in Unexpired(d.recent, at[c]) : e.id = IdOf[c]

AdmitsIgnoringLeases(d, c) ==
    /\ ~IsDuplicate(d, c)
    /\ UsedCount(d, c) < MaxRequests
    /\ UsedBudget(d, c) + Cost <= MaxBudget
AdmitsOneMore(d, c) ==
    /\ ~IsDuplicate(d, c)
    /\ Cardinality(Unexpired(d.leases, at[c])) < MaxConcurrency
    /\ UsedCount(d, c) <= MaxRequests
    /\ UsedBudget(d, c) <= MaxBudget
Admits(d, c) ==
    /\ ~IsDuplicate(d, c)
    /\ Cardinality(Unexpired(d.leases, at[c])) < MaxConcurrency
    /\ UsedCount(d, c) < MaxRequests
    /\ UsedBudget(d, c) + Cost <= MaxBudget

Admitted(d, c) ==
    LET leases == Unexpired(d.leases, at[c]) \cup {Lease(c)}
        recent == Unexpired(d.recent, at[c]) \cup {Recent(c)} IN
    [window |-> WindowOf(at[c]), count |-> UsedCount(d, c) + 1,
     budget |-> UsedBudget(d, c) + Cost, leases |-> leases, recent |-> recent,
     ttl |-> RetentionEnd(c, leases \cup recent) - at[c]]

Without(d, c) == [d EXCEPT !.leases = {e \in @ : e.id # IdOf[c]}]

-----------------------------------------------------------------------------
(* Helpers *)

Goto(c, from, to) == pc[c] = from /\ pc' = [pc EXCEPT ![c] = to]

\* Everybody who is in a loop has seen one more change of the document.
Changed ==
    changes' = [c \in Calls |-> IF changes[c] < MaxAttempts
                                THEN changes[c] + 1 ELSE changes[c]]

\* The store accepts the draft of c; its ttl counts from the write.
Store(c) ==
    /\ doc' = draft[c]
    /\ etag' = etag + 1
    /\ gone' = now + draft[c].ttl
    /\ Changed

StoredNothing == UNCHANGED <<doc, etag, gone, changes>>

\* A write that admits c.
Charge(c) ==
    /\ charged' = charged \cup {c}
    /\ wrote' = [wrote EXCEPT ![c] = now]
    /\ straddled' = (straddled \/ WindowOf(at[c]) < WindowOf(now))
    /\ outlived' = (outlived \/ now >= at[c] + DedupeSeconds)

\* What c is about to write, and the etag it was read with.
Draft(c, d) ==
    /\ draft' = [draft EXCEPT ![c] = d]
    /\ base' = [base EXCEPT ![c] = etag]

\* A draft is written once, or not at all.
Discard(c) ==
    /\ draft' = [draft EXCEPT ![c] = NoDoc]
    /\ base' = [base EXCEPT ![c] = 0]

ChargedNothing == UNCHANGED <<charged, wrote, straddled, outlived>>

\* A round of the loop is lost; the last one ends it.
NextRoundWithoutReading(c, from, again, end) ==
    /\ attempt' = [attempt EXCEPT ![c] = @ + 1]
    /\ Goto(c, from, IF attempt[c] + 1 < MaxAttempts THEN from ELSE end)
NextRound(c, from, again, end) ==
    /\ attempt' = [attempt EXCEPT ![c] = @ + 1]
    /\ Goto(c, from, IF attempt[c] + 1 < MaxAttempts THEN again ELSE end)

-----------------------------------------------------------------------------
(* acquire *)

ReadClock(c) ==
    /\ Goto(c, "clock", "read")
    /\ at' = [at EXCEPT ![c] = now]
    /\ UNCHANGED <<now, draft, base, attempt>> /\ StoredNothing /\ ChargedNothing

\* read_item and the decision, which only looks at what was read.
ReadDoc(c) ==
    /\ \/ /\ doc = NoDoc
          /\ Goto(c, "read", "create")
          /\ Draft(c, NewDocument(c))
       \/ /\ doc # NoDoc /\ Admits(doc, c)
          /\ Goto(c, "read", "replace")
          /\ Draft(c, Admitted(doc, c))
       \/ /\ doc # NoDoc /\ ~Admits(doc, c)
          /\ Goto(c, "read", "denied")
          /\ UNCHANGED <<draft, base>>
    /\ UNCHANGED <<now, at, attempt>> /\ StoredNothing /\ ChargedNothing

\* create_if_absent
Create(c) ==
    /\ \/ /\ doc = NoDoc
          /\ Goto(c, "create", "running")
          /\ Store(c) /\ Charge(c)
          /\ UNCHANGED attempt
       \/ /\ doc # NoDoc
          /\ NextRound(c, "create", "clock", "error")
          /\ StoredNothing /\ ChargedNothing
    /\ Discard(c)
    /\ UNCHANGED <<now, at>>

\* replace_if_match; a document deleted meanwhile is a lost round as well.
ReplaceBlindly(c) ==
    /\ Goto(c, "replace", "running")
    /\ Store(c) /\ Charge(c) /\ Discard(c)
    /\ UNCHANGED <<now, at, attempt>>
Replace(c) ==
    /\ \/ /\ doc # NoDoc /\ etag = base[c]
          /\ Goto(c, "replace", "running")
          /\ Store(c) /\ Charge(c)
          /\ UNCHANGED attempt
       \/ /\ doc = NoDoc \/ etag # base[c]
          /\ NextRound(c, "replace", "clock", "error")
          /\ StoredNothing /\ ChargedNothing
    /\ Discard(c)
    /\ UNCHANGED <<now, at>>

\* Cosmos is unavailable, or its answer to a write is lost: acquire raises and
\* the call gets 503; its lease, if any, is left to expire.
StoreFails(c) ==
    /\ "store" \in Faults
    /\ pc[c] \in {"read", "create", "replace"}
    /\ pc' = [pc EXCEPT ![c] = "error"]
    /\ \/ StoredNothing /\ ChargedNothing
       \/ pc[c] = "create" /\ doc = NoDoc /\ Store(c) /\ Charge(c)
       \/ pc[c] = "replace" /\ doc # NoDoc /\ etag = base[c] /\ Store(c) /\ Charge(c)
    /\ Discard(c)
    /\ UNCHANGED <<now, at, attempt>>

-----------------------------------------------------------------------------
(* The chat, and release *)

\* The chat service answered or raised: the finally clause releases.
Finish(c) ==
    /\ Goto(c, "running", "reread")
    /\ attempt' = [attempt EXCEPT ![c] = 0]
    /\ changes' = [changes EXCEPT ![c] = 0]
    /\ UNCHANGED <<now, doc, etag, gone, at, draft, base>> /\ ChargedNothing

\* Nothing to release when the document or the lease is gone.
Reread(c) ==
    /\ \/ /\ \/ doc = NoDoc
             \/ doc # NoDoc /\ Without(doc, c) = doc
          /\ Goto(c, "reread", "done")
          /\ UNCHANGED <<draft, base>>
       \/ /\ doc # NoDoc /\ Without(doc, c) # doc
          /\ Goto(c, "reread", "remove")
          /\ Draft(c, Without(doc, c))
    /\ UNCHANGED <<now, at, attempt>> /\ StoredNothing /\ ChargedNothing

\* The last lost round leaves the lease to expire.
Remove(c) ==
    /\ \/ doc # NoDoc /\ etag = base[c] /\ Goto(c, "remove", "done") /\ Store(c) /\ UNCHANGED attempt
       \/ doc = NoDoc /\ Goto(c, "remove", "done") /\ StoredNothing /\ UNCHANGED attempt
       \/ /\ doc # NoDoc /\ etag # base[c]
          /\ NextRound(c, "remove", "reread", "done")
          /\ StoredNothing
    /\ Discard(c)
    /\ UNCHANGED <<now, at>> /\ ChargedNothing

\* An exception of the store in release is logged; the lease is left.
ReleaseFails(c) ==
    /\ "store" \in Faults
    /\ pc[c] \in Releasing
    /\ pc' = [pc EXCEPT ![c] = "done"]
    /\ \/ StoredNothing
       \/ pc[c] = "remove" /\ doc # NoDoc /\ etag = base[c] /\ Store(c)
    /\ Discard(c)
    /\ UNCHANGED <<now, at, attempt>> /\ ChargedNothing

-----------------------------------------------------------------------------
(* The environment *)

\* Cosmos deletes the document when its ttl has passed.
Expire ==
    /\ doc # NoDoc
    /\ now >= gone
    /\ doc' = NoDoc
    /\ etag' = etag + 1
    /\ Changed
    /\ UNCHANGED <<now, gone, pc, at, draft, base, attempt>> /\ ChargedNothing

Unreleased(c) == pc[c] \in {"running"} \cup Releasing

Tick ==
    /\ now < MaxTime
    /\ now' = now + 1
    /\ outlived' = (outlived \/ \E c \in Calls : Unreleased(c) /\ now' >= at[c] + DedupeSeconds)
    /\ UNCHANGED <<pc, at, draft, base, attempt, charged, wrote, straddled>>
    /\ StoredNothing

-----------------------------------------------------------------------------

Step(c) ==
    \/ ReadClock(c) \/ ReadDoc(c) \/ Create(c) \/ Replace(c) \/ StoreFails(c)
    \/ Finish(c) \/ Reread(c) \/ Remove(c) \/ ReleaseFails(c)

Next ==
    \/ \E c \in Calls : Step(c)
    \/ Expire
    \/ Tick

\* Nothing is fair: a worker that dies with its call takes no further step of it.
Spec == Init /\ [][Next]_vars

-----------------------------------------------------------------------------
(* Properties *)

\* A call that runs the chat under a lease that has not expired.
Leased(c) == pc[c] = "running" /\ now < at[c] + LeaseSeconds

\* Any number of workers together run at most MaxConcurrency chats of a user
\* whose leases are alive, whatever the order of their reads and writes and
\* whichever of them crash, as long as no call comes back after its request id
\* was forgotten: release would then take a lease of a later call.
ConcurrencyLimit ==
    ~outlived => Cardinality({c \in Calls : Leased(c)}) <= MaxConcurrency

\* A request id is counted once per dedupe interval: of two counted calls with
\* the same id, one was counted after the other's entry expired.
CountedOncePerId ==
    \A b, c \in charged :
        b # c /\ IdOf[b] = IdOf[c] =>
            \/ wrote[b] >= at[c] + DedupeSeconds
            \/ wrote[c] >= at[b] + DedupeSeconds

ChargedIn(w) == {c \in charged : WindowOf(at[c]) = w}

\* Requests and budget stay inside the limits of every window, counting also
\* calls whose write was accepted and never confirmed, as long as no write
\* uses a clock reading of an earlier window.
WindowLimitUnlessStraddled ==
    ~straddled =>
        \A c \in charged :
            LET n == Cardinality(ChargedIn(WindowOf(at[c]))) IN
            n <= MaxRequests /\ n * Cost <= MaxBudget

\* A call fails with "contention exceeded the retry limit", or defers its
\* release, only after at least that many changes by others.
LostRoundsAreChanges ==
    \A c \in Calls : attempt[c] <= changes[c]
=============================================================================
