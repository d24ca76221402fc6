----------------------------- MODULE TicketSync -----------------------------
(***************************************************************************)
(* Closed ServiceNow tickets in the AWS pipeline: the daily sync of        *)
(* servicenow_closed_ticket_sync.py (retention purge, cursor, upsert,      *)
(* reconciliation) and, next to it, the daily indexer of                   *)
(* closed_ticket_index.py.  Both are Lambdas with a schedule of their own  *)
(* over one DynamoDB table, one S3 prefix and one OpenSearch index, and    *)
(* nothing but the table's index_status stands between them.               *)
(*                                                                         *)
(* The content of a ticket is the time of its last update: sys_updated_on  *)
(* is part of the hashed payload, so another update is another hash.       *)
(***************************************************************************)
EXTENDS Integers, FiniteSets

CONSTANTS
    N,              \* tickets, known by their sys_id 1 .. N
    MaxTime,        \* bound: updates carry a sys_updated_on of at most this
    Overlap,        \* SERVICENOW_CLOSED_TICKET_CURSOR_OVERLAP_HOURS
    PageSize,       \* PAGE_SIZE
    MaxRecords,     \* MAX_RECORDS_PER_RUN
    MaxReconcile,   \* MAX_RECONCILE_IDS_PER_RUN
    Closing,        \* bound: tickets whose retention ends within a behaviour
    MaxFails        \* bound: failures in a behaviour

ASSUME SizesAssumption ==
    /\ {N, MaxTime, MaxFails} \subseteq Nat
    /\ {Overlap, PageSize, MaxRecords, MaxReconcile} \subseteq Nat \ {0}
    /\ Closing \subseteq 1 .. N

VARIABLES
    source,     \* ServiceNow: last update of each ticket, and whether the customer query lists it
    expired,    \* tickets whose closed_at + retention has passed
    row,        \* the ticket table
    envelope,   \* the envelope object of each ticket, 0 if there is none
    chunks,     \* the content of its OpenSearch chunks, 0 if there are none
    cursor,     \* the sync cursor: <<cursor_value, cursor_sys_id>>
    sync,       \* where the sync run is
    todo,       \* rows it still has to purge or to persist, as <<updated, ticket>>
    offset,     \* sysparm_offset of the page to fetch
    candidate,  \* cursor_candidate
    seen,       \* seen_ids of the reconciliation
    indexer,    \* where the indexer is
    current,    \* the ticket it works on, 0 if none
    doc,        \* content of the envelope it loaded
    hidden,     \* ghost: listed entries that a reconciliation paged past
    missed,     \* ghost: listed <<updated, ticket>> that a run passed over and none stored since
    overtaken,  \* ghost: tickets rewritten by the sync while being indexed
    fails       \* failures so far

syncVars == <<sync, todo, offset, candidate, seen>>
indexVars == <<indexer, current, doc>>
ghosts == <<hidden, missed, overtaken>>
vars == <<source, expired, row, envelope, chunks, cursor, syncVars, indexVars, ghosts, fails>>

Tickets == 1 .. N
Times == 1 .. MaxTime
Entries == Times \X Tickets
NoCursor == <<0, 0>>

Statuses == {"pending", "not_indexed", "ready", "failed"}
NoRow == [kind |-> "none"]
Stub(s) == [kind |-> "stub", status |-> s]
Row(v, a, s) == [kind |-> "row", at |-> v, active |-> a, status |-> s]
Rows == {NoRow} \cup {Stub(s) : s \in Statuses}
        \cup {Row(v, a, s) : v \in Times, a \in BOOLEAN, s \in Statuses}

TypeOK ==
    /\ source \in [Tickets -> [at : 0 .. MaxTime, listed : BOOLEAN]]
    /\ expired \subseteq Tickets
    /\ row \in [Tickets -> Rows]
    /\ envelope \in [Tickets -> 0 .. MaxTime]
    /\ chunks \in [Tickets -> 0 .. MaxTime]
    /\ cursor \in Entries \cup {NoCursor}
    /\ sync \in {"idle", "purge", "fetch", "upsert", "put", "list", "deactivate", "cursor"}
    /\ todo \subseteq Entries
    /\ offset \in Nat
    /\ candidate \in Entries \cup {NoCursor}
    /\ seen \subseteq Tickets
    /\ indexer \in {"idle", "load", "loadInactive", "index", "status"}
    /\ current \in Tickets \cup {0}
    /\ doc \in 0 .. MaxTime
    /\ hidden \subseteq Entries
    /\ missed \subseteq Entries
    /\ overtaken \subseteq Tickets
    /\ fails \in 0 .. MaxFails

Init ==
    /\ source = [t \in Tickets |-> [at |-> 0, listed |-> FALSE]]
    /\ expired = {}
    /\ row = [t \in Tickets |-> NoRow]
    /\ envelope = [t \in Tickets |-> 0]
    /\ chunks = [t \in Tickets |-> 0]
    /\ cursor = NoCursor
    /\ sync = "idle"
    /\ todo = {}
    /\ offset = 0
    /\ candidate = NoCursor
    /\ seen = {}
    /\ indexer = "idle"
    /\ current = 0
    /\ doc = 0
    /\ hidden = {}
    /\ missed = {}
    /\ overtaken = {}
    /\ fails = 0

-----------------------------------------------------------------------------
(* Helpers *)

SyncGoto(from, to) == sync = from /\ sync' = to
IndexGoto(from, to) == indexer = from /\ indexer' = to

\* sysparm_order_by sys_updated_on,sys_id, and the sort of the mapped rows.
Before(a, b) == a[1] < b[1] \/ (a[1] = b[1] /\ a[2] < b[2])
Rank(e, S) == Cardinality({f \in S : Before(f, e)})
IsFirst(e, S) == e \in S /\ \A f \in S \ {e} : Before(e, f)

\* _cursor_clause and the customer query, at this moment.
FromCursor(c) == c
After(c) == <<c[1] - Overlap, c[2]>>
Listed == {e \in Entries : source[e[2]].listed /\ source[e[2]].at = e[1]}
Window == {e \in Listed : cursor = NoCursor \/ Before(After(cursor), e)}

HasRow(t) == row[t].kind = "row"
Stored(e) == HasRow(e[2]) /\ row[e[2]].at = e[1]

\* What is listed now where the fetch has already been, and was not there then:
\* sysparm_offset counts in a listing that gets shorter before the offset when
\* a ticket is updated or closed no longer.
Slipped == {e \in Window \ todo : sync = "fetch" /\ Rank(e, Window) < offset /\ ~Stored(e)}

\* The same of a reconciliation, among the tickets whose content is stored:
\* the upsert skips it, so whoever is hidden and deactivated stays inactive.
Concealed ==
    {e \in Listed : sync = "list" /\ Rank(e, Listed) < offset /\ Stored(e) /\ e[2] \notin seen}

\* Who has not been deactivated by the end of the run is not hidden any more.
EndOfRun ==
    /\ sync' = "idle" /\ todo' = {} /\ offset' = 0 /\ candidate' = NoCursor /\ seen' = {}
    /\ hidden' = {e \in hidden : Stored(e) /\ ~row[e[2]].active}

\* sysparm_limit of the page to fetch, and the page: a listing is fetched until
\* a page is short, or the maximum is reached.
Limit(max) == IF PageSize <= max - offset THEN PageSize ELSE max - offset
Page(S, limit) == {e \in S : Rank(e, S) \in offset .. offset + limit - 1}

AtLeast(a, b) == IF Before(a, b) THEN b ELSE a

-----------------------------------------------------------------------------
(* ServiceNow and time *)

\* A ticket is closed, changed, reopened or closed again.
Update(t) ==
    /\ \E v \in Times, l \in BOOLEAN :
        /\ v > source[t].at
        /\ \A u \in Tickets : v >= source[u].at
        /\ source' = [source EXCEPT ![t] = [at |-> v, listed |-> l]]
    /\ UNCHANGED <<expired, row, envelope, chunks, cursor, syncVars, indexVars, overtaken, fails>>
    /\ missed' = {e \in missed : e[2] # t} \cup Slipped'
    /\ hidden' = {e \in hidden : e[2] # t} \cup Concealed'

\* closed_at + CLOSED_TICKET_RETENTION_DAYS passes.
Expire(t) ==
    /\ t \in Closing \ expired
    /\ expired' = expired \cup {t}
    /\ UNCHANGED <<source, row, envelope, chunks, cursor, syncVars, indexVars, ghosts, fails>>

\* DynamoDB's TTL deletes the item, and only the item.
TimeToLive(t) ==
    /\ t \in expired
    /\ HasRow(t)
    /\ row' = [row EXCEPT ![t] = NoRow]
    /\ UNCHANGED <<source, expired, envelope, chunks, cursor, syncVars, indexVars, ghosts, fails>>

-----------------------------------------------------------------------------
(* run_closed_ticket_sync *)

\* The scan of _purge_expired_tickets: stubs have no expires_at_epoch.
StartSync ==
    /\ SyncGoto("idle", "purge")
    /\ todo' = {<<row[t].at, t>> : t \in {u \in expired : HasRow(u)}}
    /\ UNCHANGED <<source, expired, row, envelope, chunks, cursor, offset, candidate, seen,
                   indexVars, ghosts, fails>>

\* Its loop: the objects under the ticket's prefix, then the item.
PurgeObjects ==
    /\ sync = "purge"
    /\ \E e \in todo :
        /\ envelope[e[2]] # 0
        /\ envelope' = [envelope EXCEPT ![e[2]] = 0]
    /\ UNCHANGED <<source, expired, row, chunks, cursor, syncVars, indexVars, ghosts, fails>>

PurgeRow ==
    /\ sync = "purge"
    /\ \E e \in todo :
        /\ envelope[e[2]] = 0
        /\ row' = [row EXCEPT ![e[2]] = NoRow]
        /\ todo' = todo \ {e}
    /\ UNCHANGED <<source, expired, envelope, chunks, cursor, sync, offset, candidate, seen,
                   indexVars, ghosts, fails>>

PurgeDone ==
    /\ todo = {}
    /\ SyncGoto("purge", "fetch")
    /\ UNCHANGED <<source, expired, row, envelope, chunks, cursor, todo, offset, candidate, seen,
                   indexVars, ghosts, fails>>

\* One page of _fetch_table_rows; a short page or MAX_RECORDS_PER_RUN rows
\* end the fetch.
FetchPage ==
    LET limit == Limit(MaxRecords)
        page == Page(Window, limit) IN
    /\ sync = "fetch"
    /\ todo' = todo \cup page
    /\ IF Cardinality(page) < limit \/ offset + limit = MaxRecords
       THEN sync' = "upsert" /\ offset' = 0
       ELSE sync' = "fetch" /\ offset' = offset + limit
    /\ UNCHANGED <<source, expired, row, envelope, chunks, cursor, candidate, seen,
                   indexVars, ghosts, fails>>

\* _upsert_ticket, oldest row first: nothing to do for the content that is
\* stored already; otherwise the envelope is put, and then the item.
SkipSame(e) ==
    /\ sync = "upsert" /\ IsFirst(e, todo)
    /\ Stored(e)
    /\ todo' = todo \ {e}
    /\ candidate' = AtLeast(candidate, e)
    /\ missed' = missed \ {e}
    /\ UNCHANGED <<source, expired, row, envelope, chunks, cursor, sync, offset, seen,
                   indexVars, hidden, overtaken, fails>>

PutEnvelopeLater(e) ==
    /\ IsFirst(e, todo)
    /\ SyncGoto("upsert", "put")
    /\ ~Stored(e)
    /\ UNCHANGED <<source, expired, row, envelope, chunks, cursor, todo, offset, candidate, seen,
                   indexVars, ghosts, fails>>
PutEnvelope(e) ==
    /\ IsFirst(e, todo)
    /\ SyncGoto("upsert", "put")
    /\ ~Stored(e)
    /\ envelope' = [envelope EXCEPT ![e[2]] = e[1]]
    /\ UNCHANGED <<source, expired, row, chunks, cursor, todo, offset, candidate, seen,
                   indexVars, ghosts, fails>>

PutRowKeepingStatus(e) ==
    LET t == e[2]
        status == IF row[t] = NoRow THEN "pending" ELSE row[t].status IN
    /\ IsFirst(e, todo)
    /\ SyncGoto("put", "upsert")
    /\ row' = [row EXCEPT ![t] = Row(e[1], TRUE, status)]
    /\ overtaken' = IF t = current THEN overtaken \cup {t} ELSE overtaken \ {t}
    /\ missed' = missed \ {e} /\ hidden' = hidden \ {e}
    /\ todo' = todo \ {e}
    /\ candidate' = AtLeast(candidate, e)
    /\ UNCHANGED <<source, expired, envelope, chunks, cursor, offset, seen, indexVars,
                   fails>>
PutRow(e) ==
    LET t == e[2]
        status == IF t \in expired THEN "not_indexed" ELSE "pending" IN
    /\ IsFirst(e, todo)
    /\ SyncGoto("put", "upsert")
    /\ row' = [row EXCEPT ![t] = Row(e[1], TRUE, status)]
    /\ overtaken' = IF t = current THEN overtaken \cup {t} ELSE overtaken \ {t}
    /\ missed' = missed \ {e} /\ hidden' = hidden \ {e}
    /\ todo' = todo \ {e}
    /\ candidate' = AtLeast(candidate, e)
    /\ UNCHANGED <<source, expired, envelope, chunks, cursor, offset, seen, indexVars,
                   fails>>

\* The attachments or the upsert of one ticket raise, or its row cannot be
\* read: the run records the error and goes on with the next.
UpsertFails(e) ==
    /\ fails < MaxFails
    /\ sync \in {"upsert", "put"} /\ IsFirst(e, todo)
    /\ sync' = "upsert"
    /\ todo' = todo \ {e}
    /\ missed' = missed \cup ({e} \cap Listed)
    /\ fails' = fails + 1
    /\ UNCHANGED <<source, expired, row, envelope, chunks, cursor, offset, candidate, seen,
                   indexVars, hidden, overtaken>>

\* should_reconcile depends on the last reconciliation, days ago or yesterday.
UpsertDone ==
    /\ todo = {}
    /\ SyncGoto("upsert", "list") \/ SyncGoto("upsert", "cursor")
    /\ UNCHANGED <<source, expired, row, envelope, chunks, cursor, todo, offset, candidate, seen,
                   indexVars, ghosts, fails>>

\* _reconcile_active_tickets, one page at a time: a listing that reaches its
\* maximum, or is empty, deactivates nothing; nor does one that fails.
ListPage ==
    LET limit == Limit(MaxReconcile)
        page == Page(Listed, limit)
        short == Cardinality(page) < limit
        ids == seen \cup {e[2] : e \in page} IN
    /\ \/ short /\ ids # {} /\ SyncGoto("list", "deactivate") /\ offset' = 0 /\ seen' = ids
       \/ short /\ ids = {} /\ SyncGoto("list", "cursor") /\ offset' = 0 /\ seen' = {}
       \/ /\ ~short /\ offset + limit = MaxReconcile
          /\ SyncGoto("list", "cursor") /\ offset' = 0 /\ seen' = {}
       \/ /\ ~short /\ offset + limit # MaxReconcile
          /\ SyncGoto("list", "list") /\ offset' = offset + limit /\ seen' = ids
    /\ UNCHANGED <<source, expired, row, envelope, chunks, cursor, todo, candidate,
                   indexVars, ghosts, fails>>

\* _deactivate_tickets, with a condition on is_active; a ticket whose update
\* fails is left alone, also by the second try.
DeactivateSeen ==
    /\ SyncGoto("deactivate", "cursor")
    /\ seen' = {}
    /\ \E done \in SUBSET {t \in seen : HasRow(t) /\ row[t].active} :
        row' = [t \in Tickets |->
                  IF t \in done THEN [row[t] EXCEPT !.active = FALSE] ELSE row[t]]
    /\ UNCHANGED <<source, expired, envelope, chunks, cursor, todo, offset, candidate,
                   indexVars, ghosts, fails>>
Deactivate ==
    /\ SyncGoto("deactivate", "cursor")
    /\ seen' = {}
    /\ \E done \in SUBSET {t \in Tickets \ seen : HasRow(t) /\ row[t].active} :
        row' = [t \in Tickets |->
                  IF t \in done THEN [row[t] EXCEPT !.active = FALSE] ELSE row[t]]
    /\ UNCHANGED <<source, expired, envelope, chunks, cursor, todo, offset, candidate,
                   indexVars, ghosts, fails>>

WriteCursor ==
    /\ sync = "cursor"
    /\ cursor' = IF candidate = NoCursor THEN cursor ELSE candidate
    /\ EndOfRun
    /\ UNCHANGED <<source, expired, row, envelope, chunks, indexVars, missed, overtaken, fails>>

\* The run ends early: a refused token, too many malformed rows, a store that
\* does not answer, a Lambda that is killed.
SyncFails ==
    /\ fails < MaxFails
    /\ sync # "idle"
    /\ EndOfRun
    /\ fails' = fails + 1
    /\ UNCHANGED <<source, expired, row, envelope, chunks, cursor, indexVars, missed, overtaken>>

-----------------------------------------------------------------------------
(* index_pending_closed_tickets *)

\* _update_index_status is an UpdateItem without a condition: it creates an
\* item of two attributes where there is none.
Marked(r, s) == IF r.kind = "row" THEN [r EXCEPT !.status = s] ELSE Stub(s)

EndOfTicket(s) ==
    /\ row' = [row EXCEPT ![current] = Marked(@, s)]
    /\ indexer' = "idle" /\ current' = 0 /\ doc' = 0

\* A ticket that fetch_pending_ticket_ids returned has its turn, and
\* index_closed_ticket reads its row again; one without an envelope key fails.
ReadRowPendingOnly(t) ==
    /\ indexer = "idle"
    /\ row[t] # NoRow /\ row[t].status = "pending"
    /\ indexer' = "load" /\ current' = t
    /\ overtaken' = overtaken \ {t}
    /\ UNCHANGED <<source, expired, row, envelope, chunks, cursor, syncVars, doc, hidden, missed, fails>>
ReadRow(t) ==
    LET r == row[t] IN
    /\ indexer = "idle"
    /\ r # NoRow /\ r.status \in {"pending", "failed"}
    /\ \/ /\ HasRow(t)
          /\ indexer' = IF r.active THEN "load" ELSE "loadInactive"
          /\ current' = t
          /\ UNCHANGED row
       \/ /\ ~HasRow(t)
          /\ row' = [row EXCEPT ![t] = Marked(@, "failed")]
          /\ UNCHANGED <<indexer, current>>
    /\ overtaken' = overtaken \ {t}
    /\ UNCHANGED <<source, expired, envelope, chunks, cursor, syncVars, doc, hidden, missed, fails>>

\* _load_envelope, where a missing object raises, and _ticket_is_indexable;
\* then the chunks are built and embedded, and delete_by_query removes the
\* ticket's old ones.  Nobody else touches the index, so the reads and the
\* delete are one step.
LoadAndClear ==
    LET indexable == indexer = "load" /\ current \notin expired IN
    /\ indexer \in {"load", "loadInactive"}
    /\ \/ envelope[current] = 0 /\ EndOfTicket("failed") /\ UNCHANGED chunks
       \/ envelope[current] # 0 /\ ~indexable /\ EndOfTicket("not_indexed") /\ UNCHANGED chunks
       \/ /\ envelope[current] # 0 /\ indexable
          /\ indexer' = "index"
          /\ doc' = envelope[current]
          /\ chunks' = [chunks EXCEPT ![current] = 0]
          /\ UNCHANGED <<row, current>>
    /\ UNCHANGED <<source, expired, envelope, cursor, syncVars, ghosts, fails>>

\* index_documents
IndexChunks ==
    /\ IndexGoto("index", "status")
    /\ chunks' = [chunks EXCEPT ![current] = doc]
    /\ UNCHANGED <<source, expired, row, envelope, cursor, syncVars, current, doc, ghosts, fails>>

MarkReady ==
    /\ indexer = "status"
    /\ EndOfTicket("ready")
    /\ UNCHANGED <<source, expired, envelope, chunks, cursor, syncVars, ghosts, fails>>

\* An exception marks the ticket failed; it cannot even do that, or the Lambda
\* is killed.
IndexFails ==
    /\ fails < MaxFails
    /\ indexer # "idle"
    /\ \/ EndOfTicket("failed")
       \/ indexer' = "idle" /\ current' = 0 /\ doc' = 0 /\ UNCHANGED row
    /\ fails' = fails + 1
    /\ UNCHANGED <<source, expired, envelope, chunks, cursor, syncVars, ghosts>>

-----------------------------------------------------------------------------

SyncStep ==
    \/ StartSync \/ PurgeObjects \/ PurgeRow \/ PurgeDone \/ FetchPage
    \/ \E e \in todo : SkipSame(e) \/ PutEnvelope(e) \/ PutRow(e)
    \/ UpsertDone \/ ListPage \/ Deactivate \/ WriteCursor

IndexStep ==
    \/ \E t \in Tickets : ReadRow(t)
    \/ LoadAndClear \/ IndexChunks \/ MarkReady

Next ==
    \/ \E t \in Tickets : Update(t) \/ Expire(t) \/ TimeToLive(t)
    \/ SyncStep \/ SyncFails \/ \E e \in todo : UpsertFails(e)
    \/ IndexStep \/ IndexFails

Spec == Init /\ [][Next]_vars

\* Both schedules keep firing and what they start goes on; nothing has to fail.
\* A batch of the indexer takes every pending or failed ticket once, so one
\* that fails for ever does not keep the others from their turn.
FairSpec ==
    /\ Spec
    /\ WF_vars(SyncStep) /\ WF_vars(IndexStep)
    /\ \A t \in Tickets : SF_vars(ReadRow(t))

-----------------------------------------------------------------------------
(* Properties *)

\* A closed ticket that is not stored as it is now will be fetched by the next
\* run: the cursor moves past it only if its own upsert failed, or an update
\* shifted it to a page that the run had fetched already.  The cursor is the
\* newest stored row of a batch that is cut off, read page by page and may be
\* older than the last one.
\* CLOSED_TICKET_RAG_PLAN.md promises "Backfill, then incrementally pull new
\* and changed tickets using source IDs and update cursors".
NothingFallsBehind ==
    \A e \in Listed \ missed :
        e[2] \in expired \/ Stored(e) \/ e \in Window

\* A ticket the table calls ready is searchable with the content the table
\* holds, unless the sync rewrote it while it was being indexed: through
\* crashes between the delete and the index call, failed status updates and
\* upserts that stop half way.
ReadyIsSearchable ==
    \A t \in Tickets :
        HasRow(t) /\ row[t].status = "ready" /\ t \notin overtaken => chunks[t] >= row[t].at

\* A row that has not expired has its envelope, of its own content or a newer
\* one: the indexer never finds less than the table promises.
RowHasEnvelope ==
    \A t \in Tickets \ expired : HasRow(t) => envelope[t] >= row[t].at

\* Reconciliation deactivates a ticket that ServiceNow lists as it is stored
\* only if an update between two pages of its listing shifted the ticket to a
\* page that had been read; such a row stays inactive, because its content is
\* skipped.  A listing that is cut off, or fails, deactivates nobody.
ListedStaysActive ==
    \A t \in Tickets :
        /\ HasRow(t) /\ source[t].listed /\ source[t].at = row[t].at
        /\ <<row[t].at, t>> \notin hidden
        => row[t].active

\* Once nothing changes, every listed ticket is stored as it is and, unless a
\* rewrite overtook the indexer or a reconciliation paged past it, ends up
\* active and indexed, whatever failed before.
CatchesUp ==
    <>[](\A e \in Listed \ missed :
            \/ e[2] \in expired
            \/ /\ Stored(e)
               /\ \/ e \in hidden
                  \/ /\ row[e[2]].active
                     /\ e[2] \notin overtaken => row[e[2]].status = "ready")
=============================================================================
