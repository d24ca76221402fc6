-------------------------- MODULE TicketSyncProofs --------------------------
(***************************************************************************)
(* Proofs about TicketSync for any number of tickets, any page, run and    *)
(* reconciliation limits, any updates and any number of failures.          *)
(***************************************************************************)
EXTENDS TicketSync, FiniteSetTheorems, WellFoundedInduction, TLAPS

-----------------------------------------------------------------------------
(* Rows *)

\* What the sync puts is a row, and what it says is what was put.
LEMMA RowIs ==
  ASSUME NEW v \in Times, NEW a \in BOOLEAN, NEW s \in Statuses
  PROVE  /\ Row(v, a, s) \in Rows
         /\ Row(v, a, s).kind = "row" /\ Row(v, a, s).at = v
         /\ Row(v, a, s).active = a /\ Row(v, a, s).status = s
  BY DEF Row, Rows

\* A row of the table has all four attributes.
LEMMA RowHas ==
  ASSUME NEW r \in Rows, r.kind = "row"
  PROVE  /\ r.at \in Times /\ r.active \in BOOLEAN /\ r.status \in Statuses
         /\ r = Row(r.at, r.active, r.status)
  BY DEF Row, Stub, Rows, NoRow

\* The item that is absent is no row.
LEMMA NoRowIs == NoRow \in Rows /\ NoRow.kind # "row"
  BY DEF NoRow, Rows

\* The indexer's update changes nothing but the status, and makes no row.
LEMMA MarkedIs ==
  ASSUME NEW r \in Rows, NEW s \in Statuses
  PROVE  /\ Marked(r, s) \in Rows
         /\ Marked(r, s).kind = "row" <=> r.kind = "row"
         /\ r.kind = "row" => /\ Marked(r, s).at = r.at
                              /\ Marked(r, s).active = r.active
                              /\ Marked(r, s).status = s
<1>1. CASE r.kind = "row"
  <2>1. r = Row(r.at, r.active, r.status) /\ r.at \in Times /\ r.active \in BOOLEAN
    BY <1>1, RowHas
  <2>2. Marked(r, s) = Row(r.at, r.active, s)
    BY <1>1, <2>1 DEF Marked, Row
  <2> QED
    BY <1>1, <2>1, <2>2, RowIs
<1>2. CASE r.kind # "row"
  <2>1. Marked(r, s) = Stub(s)
    BY <1>2 DEF Marked
  <2> QED
    BY <1>2, <2>1 DEF Stub, Rows
<1> QED
  BY <1>1, <1>2

\* Deactivation changes nothing but is_active.
LEMMA InactiveIs ==
  ASSUME NEW r \in Rows, r.kind = "row"
  PROVE  /\ [r EXCEPT !.active = FALSE] \in Rows
         /\ [r EXCEPT !.active = FALSE].kind = "row"
         /\ [r EXCEPT !.active = FALSE].at = r.at
         /\ ~[r EXCEPT !.active = FALSE].active
         /\ [r EXCEPT !.active = FALSE].status = r.status
<1>1. PICK v \in Times, a \in BOOLEAN, s \in Statuses : r = Row(v, a, s)
  BY RowHas
<1>2. [r EXCEPT !.active = FALSE] = Row(v, FALSE, s)
  <2>1. ASSUME NEW b PROVE [Row(v, a, s) EXCEPT !.active = b] = Row(v, b, s)
    BY DEF Row
  <2> QED
    BY <1>1, <2>1, Zenon
<1>3. r.at = v /\ r.status = s
  BY <1>1, RowIs
<1>4. /\ Row(v, FALSE, s) \in Rows
      /\ Row(v, FALSE, s).kind = "row" /\ Row(v, FALSE, s).at = v
      /\ ~Row(v, FALSE, s).active /\ Row(v, FALSE, s).status = s
  BY RowIs
<1> QED
  BY <1>2, <1>3, <1>4

-----------------------------------------------------------------------------
(* Type correctness *)

\* A fetch has rows left to ask for, and an indexer that is busy has a ticket.
Places ==
    /\ sync \in {"idle", "purge", "fetch"} => offset < MaxRecords
    /\ sync \in {"upsert", "put"} => offset = 0
    /\ sync = "list" => offset < MaxReconcile
    /\ indexer # "idle" => current \in Tickets

TypedInv == TypeOK /\ Places

\* The constants are natural numbers, the limits positive.
LEMMA Sizes ==
  /\ N \in Nat /\ MaxTime \in Nat /\ MaxFails \in Nat
  /\ Overlap \in Nat /\ PageSize \in Nat /\ MaxRecords \in Nat /\ MaxReconcile \in Nat
  /\ Overlap > 0 /\ PageSize > 0 /\ MaxRecords > 0 /\ MaxReconcile > 0
  BY SizesAssumption

\* A time is a positive number, a ticket is not 0, and an entry has one of each.
LEMMA Ranges ==
  /\ \A v \in Times : v \in 0 .. MaxTime /\ v \in Nat /\ v > 0
  /\ \A v \in 0 .. MaxTime : v \in Nat /\ (v # 0 => v \in Times)
  /\ 0 \in 0 .. MaxTime
  /\ \A t \in Tickets : t \in Nat /\ t # 0
  /\ \A e \in Entries : e[1] \in Times /\ e[2] \in Tickets /\ e = <<e[1], e[2]>>
  /\ \A v \in Times, t \in Tickets : <<v, t>> \in Entries
  BY Sizes DEF Times, Tickets, Entries

\* A page fits under the maximum, and one that does not reach it leaves room
\* for another.
LEMMA RoomLeft ==
  ASSUME NEW max \in Nat, offset \in Nat, offset < max
  PROVE  /\ Limit(max) \in Nat /\ Limit(max) > 0
         /\ offset + Limit(max) \in Nat
         /\ offset + Limit(max) # max => offset + Limit(max) < max
  BY Sizes DEF Limit

\* Every step keeps the types.
LEMMA TypeStep ==
  TypedInv /\ [Next]_vars => TypedInv'
<1> SUFFICES ASSUME TypedInv, [Next]_vars PROVE TypedInv'
  OBVIOUS
<1> USE Sizes, Ranges
    DEF TypedInv, TypeOK, Places, SyncGoto, IndexGoto, EndOfRun, HasRow, syncVars, indexVars,
        ghosts
<1>1. ASSUME NEW t \in Tickets, Update(t) PROVE TypedInv'
  <2>1. missed' \subseteq Entries /\ hidden' \subseteq Entries
    BY <1>1 DEF Update, Slipped, Concealed, Window, Listed
  <2> QED
    BY <1>1, <2>1 DEF Update
<1>2. ASSUME NEW t \in Tickets, Expire(t) PROVE TypedInv'
  BY <1>2 DEF Expire
<1>3. ASSUME NEW t \in Tickets, TimeToLive(t) PROVE TypedInv'
  <2>1. row' \in [Tickets -> Rows]
    BY <1>3, NoRowIs DEF TimeToLive
  <2> QED
    BY <1>3, <2>1 DEF TimeToLive
<1>4. ASSUME StartSync PROVE TypedInv'
  <2>1. todo' \subseteq Entries
    BY <1>4, RowHas DEF StartSync
  <2> QED
    BY <1>4, <2>1 DEF StartSync
<1>5. ASSUME PurgeObjects PROVE TypedInv'
  BY <1>5 DEF PurgeObjects
<1>6. ASSUME PurgeRow PROVE TypedInv'
  <2>1. row' \in [Tickets -> Rows]
    BY <1>6, NoRowIs DEF PurgeRow
  <2> QED
    BY <1>6, <2>1 DEF PurgeRow
<1>7. ASSUME PurgeDone PROVE TypedInv'
  BY <1>7 DEF PurgeDone
<1>8. ASSUME FetchPage PROVE TypedInv'
  <2>1. Window \subseteq Entries
    BY DEF Window, Listed
  <2>2. todo' \subseteq Entries
    BY <1>8, <2>1 DEF FetchPage, Page
  <2>3. /\ sync' \in {"upsert", "fetch"}
        /\ sync' = "upsert" => offset' = 0
        /\ sync' = "fetch" => /\ offset + Limit(MaxRecords) # MaxRecords
                             /\ offset' = offset + Limit(MaxRecords)
    BY <1>8 DEF FetchPage
  <2>4. /\ offset + Limit(MaxRecords) \in Nat
        /\ offset + Limit(MaxRecords) # MaxRecords => offset + Limit(MaxRecords) < MaxRecords
    BY <1>8, RoomLeft DEF FetchPage
  <2>5. offset' \in Nat /\ (sync' = "fetch" => offset' < MaxRecords)
    BY <2>3, <2>4
  <2> QED
    BY <1>8, <2>2, <2>3, <2>5 DEF FetchPage
<1>9. ASSUME NEW e \in todo, SkipSame(e) PROVE TypedInv'
  BY <1>9 DEF SkipSame, AtLeast
<1>10. ASSUME NEW e \in todo, PutEnvelope(e) PROVE TypedInv'
  BY <1>10 DEF PutEnvelope
<1>11. ASSUME NEW e \in todo, PutRow(e) PROVE TypedInv'
  <2>1. row' \in [Tickets -> Rows]
    BY <1>11, RowIs DEF PutRow, Statuses
  <2> QED
    BY <1>11, <2>1 DEF PutRow, AtLeast
<1>12. ASSUME NEW e \in todo, UpsertFails(e) PROVE TypedInv'
  BY <1>12 DEF UpsertFails, Listed
<1>13. ASSUME UpsertDone PROVE TypedInv'
  BY <1>13 DEF UpsertDone
<1>14. ASSUME ListPage PROVE TypedInv'
  <2>1. Listed \subseteq Entries
    BY DEF Listed
  <2>2. seen' \subseteq Tickets
    BY <1>14, <2>1 DEF ListPage, Page
  <2>3. /\ sync' \in {"list", "deactivate", "cursor"}
        /\ sync' # "list" => offset' = 0
        /\ sync' = "list" => /\ offset + Limit(MaxReconcile) # MaxReconcile
                            /\ offset' = offset + Limit(MaxReconcile)
    BY <1>14 DEF ListPage
  <2>4. /\ offset + Limit(MaxReconcile) \in Nat
        /\ offset + Limit(MaxReconcile) # MaxReconcile => offset + Limit(MaxReconcile) < MaxReconcile
    BY <1>14, RoomLeft DEF ListPage
  <2>5. offset' \in Nat /\ (sync' = "list" => offset' < MaxReconcile)
    BY <2>3, <2>4
  <2> QED
    BY <1>14, <2>2, <2>3, <2>5 DEF ListPage
<1>15. ASSUME Deactivate PROVE TypedInv'
  <2>1. row' \in [Tickets -> Rows]
    BY <1>15, InactiveIs DEF Deactivate
  <2> QED
    BY <1>15, <2>1 DEF Deactivate
<1>16. ASSUME WriteCursor PROVE TypedInv'
  BY <1>16 DEF WriteCursor
<1>17. ASSUME SyncFails PROVE TypedInv'
  BY <1>17 DEF SyncFails
<1>18. ASSUME NEW t \in Tickets, ReadRow(t) PROVE TypedInv'
  <2>1. row' \in [Tickets -> Rows]
    BY <1>18, MarkedIs DEF ReadRow, Statuses
  <2> QED
    BY <1>18, <2>1 DEF ReadRow
<1>19. ASSUME LoadAndClear PROVE TypedInv'
  <2>1. row' \in [Tickets -> Rows]
    BY <1>19, MarkedIs DEF LoadAndClear, EndOfTicket, Statuses
  <2> QED
    BY <1>19, <2>1 DEF LoadAndClear, EndOfTicket
<1>20. ASSUME IndexChunks PROVE TypedInv'
  BY <1>20 DEF IndexChunks
<1>21. ASSUME MarkReady PROVE TypedInv'
  <2>1. row' \in [Tickets -> Rows]
    BY <1>21, MarkedIs DEF MarkReady, EndOfTicket, Statuses
  <2> QED
    BY <1>21, <2>1 DEF MarkReady, EndOfTicket
<1>22. ASSUME IndexFails PROVE TypedInv'
  <2>1. row' \in [Tickets -> Rows]
    BY <1>22, MarkedIs DEF IndexFails, EndOfTicket, Statuses
  <2> QED
    BY <1>22, <2>1 DEF IndexFails, EndOfTicket
<1>23. ASSUME UNCHANGED vars PROVE TypedInv'
  BY <1>23 DEF vars
<1> QED
  BY <1>1, <1>2, <1>3, <1>4, <1>5, <1>6, <1>7, <1>8, <1>9, <1>10,
     <1>11, <1>12, <1>13, <1>14, <1>15, <1>16, <1>17, <1>18, <1>19, <1>20,
     <1>21, <1>22, <1>23
  DEF Next, SyncStep, IndexStep

\* The first state is well typed.
LEMMA TypeInit == Init => TypedInv
  BY Sizes, Ranges, NoRowIs DEF Init, TypedInv, TypeOK, Places

\* The typed invariant holds throughout: every later lemma starts from it.
LEMMA Typed == Spec => []TypedInv
<1>1. UNCHANGED vars /\ TypedInv => TypedInv'
  BY TypeStep
<1> QED
  BY TypeInit, TypeStep, PTL DEF Spec

\* The state of the sync and of the indexer is well typed: every item of the
\* table is a row or a stub, and the cursor is an entry or not set.
THEOREM TypeCorrect == Spec => []TypeOK
  BY Typed, PTL DEF TypedInv

-----------------------------------------------------------------------------
(* Envelopes and rows *)

\* The sync holds no entry that is older than its row, or newer than
\* ServiceNow; what it purges has expired; the entry between its two writes
\* has its envelope.
InOrder ==
    /\ \A t \in Tickets : HasRow(t) => row[t].at <= source[t].at
    /\ sync \in {"idle", "list", "deactivate", "cursor"} => todo = {}
    /\ sync = "purge" => \A e \in todo : e[2] \in expired
    /\ sync \in {"fetch", "upsert", "put"} =>
           \A e \in todo : e[1] <= source[e[2]].at /\ (HasRow(e[2]) => row[e[2]].at <= e[1])
    /\ sync = "put" => \A e \in todo : IsFirst(e, todo) => envelope[e[2]] = e[1]

\* What is to be put is no newer than ServiceNow.
LEMMA TodoInOrder ==
  ASSUME InOrder, sync = "put" PROVE \A e \in todo : e[1] <= source[e[2]].at
  BY DEF InOrder

EnvelopeInv == InOrder /\ RowHasEnvelope

\* Who is first is the only one.
LEMMA FirstIsUnique ==
  ASSUME NEW S \in SUBSET Entries, NEW e, NEW f, IsFirst(e, S), IsFirst(f, S)
  PROVE  e = f
<1> SUFFICES ASSUME e # f PROVE FALSE
  OBVIOUS
<1>1. Before(e, f) /\ Before(f, e) /\ e \in Entries /\ f \in Entries
  BY DEF IsFirst
<1> QED
  BY <1>1, Ranges DEF Before

\* An update of the index status, or a deactivation, changes neither which
\* tickets have rows nor what they are of.
SameTimes ==
    \A t \in Tickets :
        row'[t].kind = "row" => row[t].kind = "row" /\ row'[t].at = row[t].at

\* A step that leaves all but index_status and is_active alone.
LEMMA SameTimesKeep ==
  ASSUME TypedInv, EnvelopeInv, SameTimes, UNCHANGED <<source, expired, envelope, sync, todo>>
  PROVE  EnvelopeInv'
<1>1. \A t \in Tickets : HasRow(t)' => HasRow(t) /\ row'[t].at = row[t].at
  BY DEF SameTimes, HasRow
<1>2. InOrder'
  <2>1. sync = "put" => \A e \in todo : IsFirst(e, todo) => envelope'[e[2]] = e[1]
    BY DEF EnvelopeInv, InOrder
  <2>2. \A e \in todo : IsFirst(e, todo)' => IsFirst(e, todo)
    BY DEF IsFirst
  <2> QED
    BY <1>1, <2>1, <2>2, Ranges DEF EnvelopeInv, InOrder, TypedInv, TypeOK
<1>3. RowHasEnvelope'
  BY <1>1 DEF EnvelopeInv, RowHasEnvelope
<1> QED
  BY <1>2, <1>3 DEF EnvelopeInv

\* Every step keeps the envelope ahead of its row.
LEMMA EnvelopeStep ==
  TypedInv /\ EnvelopeInv /\ [Next]_vars => EnvelopeInv'
<1> SUFFICES ASSUME TypedInv, EnvelopeInv, [Next]_vars PROVE EnvelopeInv'
  OBVIOUS
<1> USE Sizes, Ranges
    DEF TypedInv, TypeOK, Places, SyncGoto, IndexGoto, EndOfRun, HasRow, syncVars, indexVars,
        ghosts, EnvelopeInv, InOrder, RowHasEnvelope
<1>1. ASSUME NEW t \in Tickets, Update(t) PROVE EnvelopeInv'
  <2>1. /\ \A u \in Tickets : source[u].at <= source'[u].at
        /\ UNCHANGED <<expired, row, envelope, sync, todo>>
    BY <1>1 DEF Update
  <2>2. InOrder'
    <3>1. \A u \in Tickets : source[u].at \in Nat /\ source'[u].at \in Nat
      BY <1>1 DEF Update
    <3>2. \A u \in Tickets : row[u].kind = "row" => row[u].at \in Nat
      BY RowHas
    <3>3. \A f \in todo : f[1] \in Nat /\ f[2] \in Tickets
      OBVIOUS
    <3>4. \A f \in todo : IsFirst(f, todo)' => IsFirst(f, todo)
      BY <2>1 DEF IsFirst
    <3> QED
      BY <2>1, <3>1, <3>2, <3>3, <3>4
  <2> QED
    BY <2>1, <2>2
<1>2. ASSUME NEW t \in Tickets, Expire(t) PROVE EnvelopeInv'
  BY <1>2 DEF Expire, IsFirst
<1>3. ASSUME NEW t \in Tickets, TimeToLive(t) PROVE EnvelopeInv'
  <2>1. \A u \in Tickets : row'[u].kind = "row" => row'[u] = row[u]
    BY <1>3, NoRowIs DEF TimeToLive
  <2> QED
    BY <1>3, <2>1 DEF TimeToLive, IsFirst
<1>4. ASSUME StartSync PROVE EnvelopeInv'
  BY <1>4 DEF StartSync, IsFirst
<1>5. ASSUME PurgeObjects PROVE EnvelopeInv'
  BY <1>5 DEF PurgeObjects
<1>6. ASSUME PurgeRow PROVE EnvelopeInv'
  <2>1. \A t \in Tickets : row'[t].kind = "row" => row'[t] = row[t]
    BY <1>6, NoRowIs DEF PurgeRow
  <2> QED
    BY <1>6, <2>1 DEF PurgeRow, IsFirst
<1>7. ASSUME PurgeDone PROVE EnvelopeInv'
  BY <1>7 DEF PurgeDone
<1>8. ASSUME FetchPage PROVE EnvelopeInv'
  <2> DEFINE page == Page(Window, Limit(MaxRecords))
  <2>1. todo' = todo \cup page /\ sync = "fetch" /\ sync' \in {"fetch", "upsert"}
    BY <1>8 DEF FetchPage
  <2>2. \A e \in page : e \in Entries /\ e[1] = source[e[2]].at
    BY DEF Window, Listed, Page
  <2> HIDE DEF page
  <2> QED
    BY <1>8, <2>1, <2>2 DEF FetchPage
<1>9. ASSUME NEW e \in todo, SkipSame(e) PROVE EnvelopeInv'
  BY <1>9 DEF SkipSame, IsFirst
<1>10. ASSUME NEW e \in todo, PutEnvelope(e) PROVE EnvelopeInv'
  <2>1. /\ e \in Entries /\ IsFirst(e, todo) /\ todo' = todo /\ sync' = "put"
        /\ envelope' = [envelope EXCEPT ![e[2]] = e[1]]
        /\ UNCHANGED <<source, expired, row>>
    BY <1>10 DEF PutEnvelope
  <2>2. \A f \in todo : IsFirst(f, todo) => f = e
    BY <2>1, FirstIsUnique
  <2>3. \A t \in Tickets : HasRow(t) => row[t].at \in Times
    BY RowHas
  <2>4. InOrder'
    BY <1>10, <2>1, <2>2 DEF PutEnvelope, IsFirst
  <2>5. RowHasEnvelope'
    BY <1>10, <2>1, <2>3 DEF PutEnvelope
  <2> QED
    BY <2>4, <2>5
<1>11. ASSUME NEW e \in todo, PutRow(e) PROVE EnvelopeInv'
  <2>1. /\ e \in Entries /\ IsFirst(e, todo) /\ todo' = todo \ {e}
        /\ sync = "put" /\ sync' = "upsert"
        /\ UNCHANGED <<source, expired, envelope>>
    BY <1>11 DEF PutRow
  <2>p. PICK s \in Statuses : row' = [row EXCEPT ![e[2]] = Row(e[1], TRUE, s)]
    BY <1>11 DEF PutRow, Statuses
  <2>2. \A t \in Tickets : IF t = e[2] THEN row'[t].at = e[1] ELSE row'[t] = row[t]
    <3>1. Row(e[1], TRUE, s).at = e[1]
      BY DEF Row
    <3> QED
      BY <2>1, <2>p, <3>1
  <2>3. \A f \in todo' : f[2] = e[2] => e[1] <= f[1]
    BY <2>1 DEF IsFirst, Before
  <2>4. InOrder'
    <3>1. \A f \in todo' : f[2] = e[2] => row'[f[2]].at <= f[1]
      BY <2>1, <2>2, <2>3
    <3>2. \A t \in Tickets : row'[t].kind = "row" => row'[t].at <= source'[t].at
      <4>1. e[1] <= source[e[2]].at /\ e[2] \in Tickets
        <5>1. e[2] \in Tickets
          BY <2>1
        <5>2. \A f \in todo : f[1] <= source[f[2]].at
          BY <2>1, TodoInOrder
        <5> QED
          BY <5>1, <5>2
      <4>2. \A t \in Tickets \ {e[2]} : row'[t] = row[t]
        BY <2>2
      <4>3. row'[e[2]].at = e[1]
        BY <2>2, <4>1
      <4> QED
        BY <2>1, <4>1, <4>2, <4>3
    <3> QED
      BY <2>1, <2>2, <3>1, <3>2
  <2>5. RowHasEnvelope'
    BY <2>1, <2>2
  <2> QED
    BY <2>4, <2>5
<1>12. ASSUME NEW e \in todo, UpsertFails(e) PROVE EnvelopeInv'
  BY <1>12 DEF UpsertFails, IsFirst
<1>13. ASSUME UpsertDone PROVE EnvelopeInv'
  BY <1>13 DEF UpsertDone
<1>14. ASSUME ListPage PROVE EnvelopeInv'
  BY <1>14 DEF ListPage
<1>15. ASSUME Deactivate PROVE EnvelopeInv'
  <2>1. SameTimes
    BY <1>15, InactiveIs DEF Deactivate, SameTimes, EndOfTicket, Statuses
  <2> QED
    BY <1>15, <2>1, SameTimesKeep DEF Deactivate, EndOfTicket
<1>16. ASSUME WriteCursor PROVE EnvelopeInv'
  BY <1>16 DEF WriteCursor
<1>17. ASSUME SyncFails PROVE EnvelopeInv'
  BY <1>17 DEF SyncFails
<1>18. ASSUME NEW t \in Tickets, ReadRow(t) PROVE EnvelopeInv'
  <2>1. SameTimes
    BY <1>18, MarkedIs DEF ReadRow, SameTimes, EndOfTicket, Statuses
  <2> QED
    BY <1>18, <2>1, SameTimesKeep DEF ReadRow, EndOfTicket
<1>19. ASSUME LoadAndClear PROVE EnvelopeInv'
  <2>1. SameTimes
    BY <1>19, MarkedIs DEF LoadAndClear, SameTimes, EndOfTicket, Statuses
  <2> QED
    BY <1>19, <2>1, SameTimesKeep DEF LoadAndClear, EndOfTicket
<1>20. ASSUME IndexChunks PROVE EnvelopeInv'
  BY <1>20 DEF IndexChunks, IsFirst
<1>21. ASSUME MarkReady PROVE EnvelopeInv'
  <2>1. SameTimes
    BY <1>21, MarkedIs DEF MarkReady, SameTimes, EndOfTicket, Statuses
  <2> QED
    BY <1>21, <2>1, SameTimesKeep DEF MarkReady, EndOfTicket
<1>22. ASSUME IndexFails PROVE EnvelopeInv'
  <2>1. SameTimes
    BY <1>22, MarkedIs DEF IndexFails, SameTimes, EndOfTicket, Statuses
  <2> QED
    BY <1>22, <2>1, SameTimesKeep DEF IndexFails, EndOfTicket
<1>23. ASSUME UNCHANGED vars PROVE EnvelopeInv'
  BY <1>23 DEF vars
<1> QED
  BY <1>1, <1>2, <1>3, <1>4, <1>5, <1>6, <1>7, <1>8, <1>9, <1>10,
     <1>11, <1>12, <1>13, <1>14, <1>15, <1>16, <1>17, <1>18, <1>19, <1>20,
     <1>21, <1>22, <1>23
  DEF Next, SyncStep, IndexStep

\* A row that has not expired has its envelope, of its own content or newer.
THEOREM EnvelopesAreThere == Spec => []RowHasEnvelope
<1>1. Init => EnvelopeInv
  BY NoRowIs DEF Init, EnvelopeInv, InOrder, RowHasEnvelope, HasRow
<1>2. EnvelopeInv => RowHasEnvelope
  BY DEF EnvelopeInv
<1> QED
  BY <1>1, <1>2, EnvelopeStep, Typed, PTL DEF Spec

-----------------------------------------------------------------------------
(* Reconciliation *)

\* There are finitely many entries.
LEMMA EntriesFinite == IsFiniteSet(Entries)
<1>1. IsFiniteSet(Times) /\ IsFiniteSet(Tickets)
  BY Sizes, FS_Interval DEF Times, Tickets
<1> QED
  BY <1>1, FS_Product DEF Entries

Below(e, S) == {f \in S : Before(f, e)}

\* Of the entries that are left out, one has none left out before it.
LEMMA EarliestLate ==
  ASSUME NEW S \in SUBSET Entries, NEW L \in SUBSET S, L # {}
  PROVE  \E e \in L : \A f \in L : ~Before(f, e)
<1> DEFINE T == {Below(e, S) : e \in L}
<1>1. IsWellFoundedOn(StrictSubsetOrdering(Entries), SUBSET Entries)
  BY EntriesFinite, FS_StrictSubsetOrderingWellFounded, FS_FiniteSubsetsOfFinite
<1>2. T \subseteq SUBSET Entries /\ T # {}
  BY DEF Below
<1>3. PICK b \in T : \A c \in T : <<c, b>> \notin StrictSubsetOrdering(Entries)
  <2> HIDE DEF T
  <2> QED
    BY <1>1, <1>2, WFMin
<1>4. PICK e \in L : b = Below(e, S)
  BY <1>3
<1>5. ASSUME NEW f \in L, Before(f, e) PROVE FALSE
  <2>1. \A g \in S : Before(g, f) => Before(g, e)
    BY <1>5, Ranges DEF Before
  <2>2. f \in Below(e, S) /\ f \notin Below(f, S)
    BY <1>5, Ranges DEF Below, Before
  <2>3. Below(f, S) \subseteq Below(e, S) /\ Below(f, S) # Below(e, S)
    BY <2>1, <2>2 DEF Below
  <2>4. Below(f, S) \in SUBSET Entries /\ Below(e, S) \in SUBSET Entries
    BY DEF Below
  <2>5. <<Below(f, S), Below(e, S)>> \in StrictSubsetOrdering(Entries)
    BY <2>3, <2>4 DEF StrictSubsetOrdering
  <2> QED
    BY <1>3, <1>4, <2>5
<1> QED
  BY <1>5

\* A rank is a number of entries.
LEMMA RankIsNat ==
  ASSUME NEW S \in SUBSET Entries, NEW e
  PROVE  Rank(e, S) \in Nat
<1>1. IsFiniteSet({f \in S : Before(f, e)})
  BY EntriesFinite, FS_Subset
<1> QED
  BY <1>1, FS_CardinalityType DEF Rank

\* An entry that comes earlier in a listing is not newer.
LEMMA RankIsTime ==
  ASSUME NEW S \in SUBSET Entries, NEW e \in S, NEW f \in S, Rank(f, S) < Rank(e, S)
  PROVE  f[1] <= e[1]
<1> SUFFICES ASSUME Before(e, f) PROVE FALSE
  BY Ranges DEF Before
<1>1. \A g \in S : Before(g, e) => Before(g, f)
  BY Ranges DEF Before
<1>2. Below(e, S) \subseteq Below(f, S)
  BY <1>1 DEF Below
<1>3. IsFiniteSet(Below(f, S))
  BY EntriesFinite, FS_Subset DEF Below
<1>4. Cardinality(Below(e, S)) <= Cardinality(Below(f, S))
  BY <1>2, <1>3, FS_Subset
<1>5. Rank(e, S) <= Rank(f, S)
  BY <1>4 DEF Rank, Below
<1> QED
  BY <1>5, RankIsNat

\* No two entries of a listing have the same rank.
LEMMA RankIsUnique ==
  ASSUME NEW S \in SUBSET Entries, NEW e \in S, NEW f \in S, Before(e, f)
  PROVE  Rank(e, S) < Rank(f, S)
<1>1. \A g \in S : Before(g, e) => Before(g, f)
  BY Ranges DEF Before
<1>2. e \in Below(f, S) /\ e \notin Below(e, S)
  BY Ranges DEF Below, Before
<1>3. Below(e, S) \subseteq Below(f, S) /\ Below(e, S) # Below(f, S)
  BY <1>1, <1>2 DEF Below
<1>4. IsFiniteSet(Below(f, S))
  BY EntriesFinite, FS_Subset DEF Below
<1>5. /\ Cardinality(Below(e, S)) <= Cardinality(Below(f, S))
      /\ Cardinality(Below(e, S)) # Cardinality(Below(f, S))
  BY <1>3, <1>4, FS_Subset
<1>6. Rank(e, S) = Cardinality(Below(e, S)) /\ Rank(f, S) = Cardinality(Below(f, S))
  BY DEF Rank, Below
<1> QED
  BY <1>5, <1>6, RankIsNat

\* There are no more entries before an offset than it says.
LEMMA FewBefore ==
  ASSUME NEW S \in SUBSET Entries, NEW k \in Nat
  PROVE  LET first == {e \in S : Rank(e, S) < k}
         IN  IsFiniteSet(first) /\ Cardinality(first) <= k
<1> DEFINE first == {e \in S : Rank(e, S) < k}
           h == [e \in first |-> Rank(e, S)]
<1>1. h \in [first -> 0 .. k - 1]
  BY RankIsNat
<1>2. \A e, f \in first : h[e] = h[f] => e = f
  <2> SUFFICES ASSUME NEW e \in first, NEW f \in first, h[e] = h[f], e # f PROVE FALSE
    OBVIOUS
  <2>1. Before(e, f) \/ Before(f, e)
    BY Ranges DEF Before
  <2>2. Rank(e, S) = Rank(f, S) /\ Rank(e, S) \in Nat
    BY RankIsNat
  <2> QED
    BY <2>1, <2>2, RankIsUnique
<1>3. h \in Injection(first, 0 .. k - 1)
  <2> HIDE DEF h, first
  <2> QED
    BY <1>1, <1>2 DEF Injection, IsInjective
<1>4. IsFiniteSet(0 .. k - 1) /\ Cardinality(0 .. k - 1) = k
  BY FS_Interval
<1> HIDE DEF h, first
<1>5. IsFiniteSet(first) /\ Cardinality(first) <= k
  BY <1>3, <1>4, FS_Injection
<1> QED
  BY <1>5 DEF first

\* A short page is the last: nothing of the listing comes after it.
LEMMA ShortPageIsLast ==
  ASSUME NEW S \in SUBSET Entries, NEW limit \in Nat, offset \in Nat,
         Cardinality(Page(S, limit)) < limit, NEW e \in S
  PROVE  Rank(e, S) < offset + limit
<1> DEFINE first == {f \in S : Rank(f, S) < offset}
           late == {f \in S : ~(Rank(f, S) < offset + limit)}
<1> SUFFICES ASSUME e \in late PROVE FALSE
  OBVIOUS
<1>1. PICK d \in late : \A f \in late : ~Before(f, d)
  BY EarliestLate
<1>2. Below(d, S) \subseteq first \cup Page(S, limit)
  <2> SUFFICES ASSUME NEW f \in S, Before(f, d), ~(Rank(f, S) < offset)
               PROVE  f \in Page(S, limit)
    BY DEF Below
  <2>1. Rank(f, S) \in Nat /\ Rank(f, S) < offset + limit
    BY <1>1, RankIsNat
  <2> QED
    BY <2>1 DEF Page
<1>3. IsFiniteSet(first) /\ Cardinality(first) <= offset
  BY FewBefore
<1>4. IsFiniteSet(Page(S, limit))
  BY EntriesFinite, FS_Subset DEF Page
<1> HIDE DEF first
<1>5. /\ IsFiniteSet(first \cup Page(S, limit))
      /\ Cardinality(first \cup Page(S, limit))
           = Cardinality(first) + Cardinality(Page(S, limit)) - Cardinality(first \cap Page(S, limit))
  BY <1>3, <1>4, FS_Union
<1>6. Cardinality(Below(d, S)) <= Cardinality(first \cup Page(S, limit))
  BY <1>2, <1>5, FS_Subset
<1>7. IsFiniteSet(first \cap Page(S, limit))
  BY <1>3, FS_Subset
<1>8. /\ Cardinality(first) \in Nat /\ Cardinality(Page(S, limit)) \in Nat
      /\ Cardinality(first \cap Page(S, limit)) \in Nat
  BY <1>3, <1>4, <1>7, FS_CardinalityType
<1>9. Cardinality(Below(d, S)) = Rank(d, S) /\ Rank(d, S) \in Nat
  BY RankIsNat DEF Below, Rank
<1>10. ~(Rank(d, S) < offset + limit)
  BY <1>1
<1> QED
  BY <1>3, <1>5, <1>6, <1>8, <1>9, <1>10

\* What a reconciliation has gone past it has seen, or it is hidden; and so
\* has everything that is stored as it is listed when it is over.
PagesListed ==
    /\ sync = "list" =>
           \A e \in Listed : Rank(e, Listed) < offset /\ Stored(e) => e[2] \in seen \/ e \in hidden
    /\ sync = "deactivate" =>
           \A e \in Listed : Stored(e) => e[2] \in seen \/ e \in hidden

ActiveInv ==
    /\ \A t \in Tickets : source[t].listed => source[t].at # 0
    /\ PagesListed
    /\ ListedStaysActive

\* Whoever is listed is an entry of the listing.
LEMMA ListedIs ==
  ASSUME TypedInv, ActiveInv, NEW t \in Tickets, source[t].listed
  PROVE  <<source[t].at, t>> \in Listed
<1>1. source[t].at \in Times
  BY Ranges DEF ActiveInv, TypedInv, TypeOK
<1>2. <<source[t].at, t>> \in Entries
  BY <1>1, Ranges
<1> QED
  BY <1>2 DEF Listed

\* A step that adds no row, keeps the times and the activity of the others,
\* and does not touch what the deactivation goes by.
LEMMA SameActivityKeep ==
  ASSUME ActiveInv, UNCHANGED source, hidden \subseteq hidden',
         sync' \in {"list", "deactivate"} => UNCHANGED <<sync, seen, offset>>,
         \A t \in Tickets : row'[t].kind = "row" =>
             /\ row[t].kind = "row" /\ row'[t].at = row[t].at
             /\ row[t].active => row'[t].active
  PROVE  ActiveInv'
<1>1. UNCHANGED Listed /\ Listed \subseteq Entries
  BY DEF Listed
<1>2. \A e \in Listed : UNCHANGED Rank(e, Listed) /\ (Stored(e)' => Stored(e))
  BY <1>1, Ranges DEF Rank, Stored, HasRow
<1>3. PagesListed'
  <2>1. CASE sync' = "list"
    BY <1>1, <1>2, <2>1 DEF ActiveInv, PagesListed
  <2>2. CASE sync' = "deactivate"
    BY <1>1, <1>2, <2>2 DEF ActiveInv, PagesListed
  <2> QED
    BY <2>1, <2>2 DEF PagesListed
<1>4. ListedStaysActive'
  BY DEF ActiveInv, ListedStaysActive, HasRow
<1> QED
  BY <1>3, <1>4 DEF ActiveInv

\* The end of a run forgets whoever is hidden and still active.
LEMMA EndOfRunKeeps ==
  ASSUME TypedInv, ActiveInv, UNCHANGED <<source, row>>, EndOfRun
  PROVE  ActiveInv'
<1>1. ListedStaysActive'
  <2> SUFFICES ASSUME NEW t \in Tickets, HasRow(t), source[t].listed, source[t].at = row[t].at,
                      <<row[t].at, t>> \notin hidden', ~row[t].active
               PROVE  FALSE
    BY DEF ListedStaysActive, HasRow
  <2>1. <<row[t].at, t>> \in hidden
    BY DEF ActiveInv, ListedStaysActive
  <2>2. Stored(<<row[t].at, t>>)
    BY DEF Stored, HasRow
  <2> QED
    BY <2>1, <2>2 DEF EndOfRun
<1>2. PagesListed'
  BY DEF EndOfRun, PagesListed
<1> QED
  BY <1>1, <1>2 DEF ActiveInv

\* Every step keeps listed tickets active.
LEMMA ActiveStep ==
  TypedInv /\ EnvelopeInv /\ ActiveInv /\ [Next]_vars => ActiveInv'
<1> SUFFICES ASSUME TypedInv, EnvelopeInv, ActiveInv, [Next]_vars PROVE ActiveInv'
  OBVIOUS
<1> USE Sizes, Ranges
    DEF TypedInv, TypeOK, Places, SyncGoto, IndexGoto, EndOfRun, syncVars, indexVars, ghosts
<1>1. ASSUME NEW t \in Tickets, Update(t) PROVE ActiveInv'
  <2>1. PICK v \in Times, l \in BOOLEAN :
           v > source[t].at /\ source' = [source EXCEPT ![t] = [at |-> v, listed |-> l]]
    BY <1>1 DEF Update
  <2>2. /\ source'[t].at = v
        /\ \A u \in Tickets \ {t} : source'[u] = source[u]
        /\ hidden' = {e \in hidden : e[2] # t} \cup Concealed'
        /\ UNCHANGED <<row, sync, seen, offset>>
    BY <1>1, <2>1 DEF Update
  <2>3. HasRow(t) => row[t].at # v
    <3>1. HasRow(t) => row[t].at \in Nat /\ row[t].at <= source[t].at
      BY RowHas DEF HasRow, EnvelopeInv, InOrder
    <3> QED
      BY <2>1, <3>1
  <2>4. ListedStaysActive'
    BY <2>1, <2>2, <2>3 DEF ActiveInv, ListedStaysActive, HasRow
  <2>5. ASSUME sync = "list" PROVE PagesListed'
    BY <2>2, <2>5 DEF PagesListed, Concealed
  <2>6. ASSUME sync = "deactivate" PROVE PagesListed'
    <3> SUFFICES ASSUME NEW e \in Listed', Stored(e) PROVE e[2] \in seen \/ e \in hidden'
      BY <2>2, <2>6 DEF PagesListed, Stored, HasRow
    <3>1. e \in Entries /\ source'[e[2]].at = e[1] /\ source'[e[2]].listed
      BY DEF Listed
    <3>2. e[2] # t
      BY <2>2, <2>3, <3>1 DEF Stored
    <3>3. e \in Listed
      BY <2>2, <3>1, <3>2 DEF Listed
    <3> QED
      BY <2>2, <2>6, <3>2, <3>3 DEF ActiveInv, PagesListed
  <2>7. PagesListed'
    BY <2>2, <2>5, <2>6 DEF PagesListed
  <2> QED
    BY <2>1, <2>2, <2>4, <2>7 DEF ActiveInv
<1>2. ASSUME NEW t \in Tickets, Expire(t) PROVE ActiveInv'
  BY <1>2, SameActivityKeep DEF Expire
<1>3. ASSUME NEW t \in Tickets, TimeToLive(t) PROVE ActiveInv'
  <2>1. \A u \in Tickets : row'[u].kind = "row" =>
             /\ row[u].kind = "row" /\ row'[u].at = row[u].at
             /\ row[u].active => row'[u].active
    BY <1>3, NoRowIs DEF TimeToLive, EndOfTicket, Statuses, HasRow
  <2> QED
    BY <1>3, <2>1, SameActivityKeep DEF TimeToLive, EndOfTicket
<1>4. ASSUME StartSync PROVE ActiveInv'
  BY <1>4, SameActivityKeep DEF StartSync
<1>5. ASSUME PurgeObjects PROVE ActiveInv'
  BY <1>5, SameActivityKeep DEF PurgeObjects
<1>6. ASSUME PurgeRow PROVE ActiveInv'
  <2>1. \A t \in Tickets : row'[t].kind = "row" =>
             /\ row[t].kind = "row" /\ row'[t].at = row[t].at
             /\ row[t].active => row'[t].active
    BY <1>6, NoRowIs DEF PurgeRow, EndOfTicket, Statuses, HasRow
  <2> QED
    BY <1>6, <2>1, SameActivityKeep DEF PurgeRow, EndOfTicket
<1>7. ASSUME PurgeDone PROVE ActiveInv'
  BY <1>7, SameActivityKeep DEF PurgeDone
<1>8. ASSUME FetchPage PROVE ActiveInv'
  BY <1>8, SameActivityKeep DEF FetchPage
<1>9. ASSUME NEW e \in todo, SkipSame(e) PROVE ActiveInv'
  BY <1>9, SameActivityKeep DEF SkipSame
<1>10. ASSUME NEW e \in todo, PutEnvelope(e) PROVE ActiveInv'
  BY <1>10, SameActivityKeep DEF PutEnvelope
<1>11. ASSUME NEW e \in todo, PutRow(e) PROVE ActiveInv'
  <2>1. /\ e[2] \in Tickets /\ sync' = "upsert" /\ UNCHANGED source
        /\ hidden' = hidden \ {e} /\ e = <<e[1], e[2]>>
    BY <1>11 DEF PutRow
  <2>2. PICK s \in Statuses : row' = [row EXCEPT ![e[2]] = Row(e[1], TRUE, s)]
    BY <1>11 DEF PutRow, Statuses
  <2>3. /\ row'[e[2]].active
        /\ \A t \in Tickets \ {e[2]} : row'[t] = row[t]
    <3>1. Row(e[1], TRUE, s).active
      BY DEF Row
    <3> QED
      BY <2>1, <2>2, <3>1
  <2>4. ListedStaysActive'
    BY <2>1, <2>3 DEF ActiveInv, ListedStaysActive, HasRow
  <2> QED
    BY <2>1, <2>4 DEF ActiveInv, PagesListed
<1>12. ASSUME NEW e \in todo, UpsertFails(e) PROVE ActiveInv'
  BY <1>12, SameActivityKeep DEF UpsertFails
<1>13. ASSUME UpsertDone PROVE ActiveInv'
  <2>1. CASE sync' = "list"
    <3>1. /\ offset = 0 /\ UNCHANGED <<source, row, offset, hidden>>
      BY <1>13 DEF UpsertDone
    <3>2. Listed \in SUBSET Entries /\ UNCHANGED Listed
      BY <3>1 DEF Listed
    <3>3. \A e \in Listed : Rank(e, Listed) \in Nat /\ UNCHANGED Rank(e, Listed)
      BY <3>2, RankIsNat DEF Rank
    <3>4. PagesListed'
      BY <2>1, <3>1, <3>2, <3>3 DEF PagesListed
    <3> QED
      BY <3>1, <3>4 DEF ActiveInv, ListedStaysActive, HasRow
  <2>2. CASE sync' # "list"
    BY <1>13, <2>2, SameActivityKeep DEF UpsertDone
  <2> QED
    BY <2>1, <2>2
<1>14. ASSUME ListPage PROVE ActiveInv'
  <2> DEFINE limit == Limit(MaxReconcile)
             page == Page(Listed, limit)
  <2>1. /\ sync = "list" /\ UNCHANGED <<source, row, hidden>>
        /\ sync' \in {"list", "deactivate"} => seen' = seen \cup {f[2] : f \in page}
        /\ sync' = "list" => offset' = offset + limit
        /\ sync' = "deactivate" => Cardinality(page) < limit
    BY <1>14 DEF ListPage
  <2>2. offset \in Nat /\ limit \in Nat
    BY <2>1, RoomLeft
  <2>3. Listed \in SUBSET Entries /\ UNCHANGED Listed
    BY <2>1 DEF Listed
  <2>4. \A e \in Listed : Stored(e)' => Stored(e)
    BY <2>1 DEF Stored, HasRow
  <2> HIDE DEF limit
  <2>5. ASSUME NEW e \in Listed, Rank(e, Listed) < offset + limit, Stored(e)
        PROVE  e[2] \in seen \cup {f[2] : f \in page} \/ e \in hidden
    <3>1. Rank(e, Listed) < offset \/ e \in page
      BY <2>2, <2>3, <2>5, RankIsNat DEF Page
    <3> QED
      BY <2>1, <2>5, <3>1 DEF ActiveInv, PagesListed
  <2>6. sync' = "deactivate" => \A e \in Listed : Rank(e, Listed) < offset + limit
    BY <2>1, <2>2, <2>3, ShortPageIsLast
  <2>7. CASE sync' = "list"
    <3>1. \A e \in Listed : Rank(e, Listed)' = Rank(e, Listed)
      BY <2>3 DEF Rank
    <3>2. PagesListed'
      BY <2>1, <2>3, <2>4, <2>5, <2>7, <3>1 DEF PagesListed
    <3> QED
      BY <2>1, <3>2 DEF ActiveInv, ListedStaysActive, HasRow
  <2>8. CASE sync' = "deactivate"
    <3>1. PagesListed'
      BY <2>1, <2>3, <2>4, <2>5, <2>6, <2>8 DEF PagesListed
    <3> QED
      BY <2>1, <3>1 DEF ActiveInv, ListedStaysActive, HasRow
  <2>9. CASE sync' \notin {"list", "deactivate"}
    BY <2>1, <2>9, SameActivityKeep
  <2> QED
    BY <2>7, <2>8, <2>9
<1>15. ASSUME Deactivate PROVE ActiveInv'
  <2>1. /\ sync = "deactivate" /\ sync' = "cursor" /\ UNCHANGED <<source, hidden>>
    BY <1>15 DEF Deactivate
  <2>2. \A t \in Tickets : row'[t].kind = "row" =>
          /\ row[t].kind = "row" /\ row'[t].at = row[t].at
          /\ row'[t] = row[t] \/ t \in Tickets \ seen
    BY <1>15, InactiveIs DEF Deactivate, HasRow
  <2>3. ASSUME NEW t \in Tickets \ seen, row[t].kind = "row",
               source[t].listed, source[t].at = row[t].at
        PROVE  <<row[t].at, t>> \in hidden
    <3>1. <<row[t].at, t>> \in Listed /\ Stored(<<row[t].at, t>>)
      BY <2>3, ListedIs DEF Stored, HasRow
    <3> QED
      BY <2>1, <2>3, <3>1 DEF ActiveInv, PagesListed
  <2>4. ListedStaysActive'
    BY <2>1, <2>2, <2>3 DEF ActiveInv, ListedStaysActive, HasRow
  <2> QED
    BY <2>1, <2>4 DEF ActiveInv, PagesListed
<1>16. ASSUME WriteCursor PROVE ActiveInv'
  BY <1>16, EndOfRunKeeps DEF WriteCursor
<1>17. ASSUME SyncFails PROVE ActiveInv'
  BY <1>17, EndOfRunKeeps DEF SyncFails
<1>18. ASSUME NEW t \in Tickets, ReadRow(t) PROVE ActiveInv'
  <2>1. \A u \in Tickets : row'[u].kind = "row" =>
             /\ row[u].kind = "row" /\ row'[u].at = row[u].at
             /\ row[u].active => row'[u].active
    BY <1>18, MarkedIs DEF ReadRow, EndOfTicket, Statuses, HasRow
  <2> QED
    BY <1>18, <2>1, SameActivityKeep DEF ReadRow, EndOfTicket
<1>19. ASSUME LoadAndClear PROVE ActiveInv'
  <2>1. \A t \in Tickets : row'[t].kind = "row" =>
             /\ row[t].kind = "row" /\ row'[t].at = row[t].at
             /\ row[t].active => row'[t].active
    BY <1>19, MarkedIs DEF LoadAndClear, EndOfTicket, Statuses, HasRow
  <2> QED
    BY <1>19, <2>1, SameActivityKeep DEF LoadAndClear, EndOfTicket
<1>20. ASSUME IndexChunks PROVE ActiveInv'
  BY <1>20, SameActivityKeep DEF IndexChunks
<1>21. ASSUME MarkReady PROVE ActiveInv'
  <2>1. \A t \in Tickets : row'[t].kind = "row" =>
             /\ row[t].kind = "row" /\ row'[t].at = row[t].at
             /\ row[t].active => row'[t].active
    BY <1>21, MarkedIs DEF MarkReady, EndOfTicket, Statuses, HasRow
  <2> QED
    BY <1>21, <2>1, SameActivityKeep DEF MarkReady, EndOfTicket
<1>22. ASSUME IndexFails PROVE ActiveInv'
  <2>1. /\ UNCHANGED <<source, sync, seen, offset, hidden>>
        /\ UNCHANGED row \/ row' = [row EXCEPT ![current] = Marked(@, "failed")]
        /\ current \in Tickets
    BY <1>22 DEF IndexFails, EndOfTicket
  <2>2. \A t \in Tickets : row'[t] = row[t] \/ row'[t] = Marked(row[t], "failed")
    BY <2>1
  <2>3. \A t \in Tickets : row'[t].kind = "row" =>
             /\ row[t].kind = "row" /\ row'[t].at = row[t].at
             /\ row[t].active => row'[t].active
    BY <2>2, MarkedIs DEF Statuses
  <2> QED
    BY <2>1, <2>3, SameActivityKeep
<1>23. ASSUME UNCHANGED vars PROVE ActiveInv'
  BY <1>23, SameActivityKeep DEF vars
<1> QED
  BY <1>1, <1>2, <1>3, <1>4, <1>5, <1>6, <1>7, <1>8, <1>9, <1>10,
     <1>11, <1>12, <1>13, <1>14, <1>15, <1>16, <1>17, <1>18, <1>19, <1>20,
     <1>21, <1>22, <1>23
  DEF Next, SyncStep, IndexStep

\* Reconciliation deactivates nobody who is listed as stored, whatever is
\* updated between the pages of its listing, other than a ticket that such an
\* update shifted to a page that had been read.
THEOREM ListedStayActive == Spec => []ListedStaysActive
<1>1. Init => EnvelopeInv /\ ActiveInv
  BY NoRowIs
  DEF Init, EnvelopeInv, InOrder, RowHasEnvelope, HasRow, ActiveInv, PagesListed, ListedStaysActive
<1>2. ActiveInv => ListedStaysActive
  BY DEF ActiveInv
<1> QED
  BY <1>1, <1>2, EnvelopeStep, ActiveStep, Typed, PTL DEF Spec

-----------------------------------------------------------------------------
(* The index *)

\* The ticket being indexed is not called ready before its chunks are there,
\* and what was loaded, or indexed, is as new as its row.
ReadyInv ==
    /\ indexer # "idle" /\ HasRow(current) /\ current \notin overtaken =>
           /\ row[current].status # "ready"
           /\ indexer = "index" => doc >= row[current].at
           /\ indexer = "status" => chunks[current] >= row[current].at
    /\ ReadyIsSearchable

\* A step of the sync, or of time, that makes no row ready.
LEMMA RowsOnlyGo ==
  ASSUME ReadyInv, UNCHANGED <<indexVars, chunks, overtaken>>,
         \A t \in Tickets \cup {current} : row'[t].kind = "row" =>
             /\ row[t].kind = "row" /\ row'[t].at = row[t].at /\ row'[t].status = row[t].status
  PROVE  ReadyInv'
  BY DEF ReadyInv, ReadyIsSearchable, HasRow, indexVars

\* The end of a ticket, with a status that is not ready, or with its chunks.
LEMMA EndKeeps ==
  ASSUME TypedInv, ReadyInv, NEW s \in Statuses, indexer # "idle", EndOfTicket(s),
         UNCHANGED <<chunks, overtaken>>, s = "ready" => indexer = "status"
  PROVE  ReadyInv'
<1>1. current \in Tickets /\ row \in [Tickets -> Rows]
  BY DEF TypedInv, TypeOK, Places
<1>2. /\ row'[current] = Marked(row[current], s)
      /\ \A t \in Tickets \ {current} : row'[t] = row[t]
      /\ indexer' = "idle"
  BY <1>1 DEF EndOfTicket
<1>3. row'[current].kind = "row" =>
        /\ row[current].kind = "row" /\ row'[current].at = row[current].at
        /\ row'[current].status = s
  BY <1>1, <1>2, MarkedIs
<1> QED
  BY <1>1, <1>2, <1>3 DEF ReadyInv, ReadyIsSearchable, HasRow

\* Every step keeps what is ready searchable.
LEMMA ReadyStep ==
  TypedInv /\ EnvelopeInv /\ ReadyInv /\ [Next]_vars => ReadyInv'
<1> SUFFICES ASSUME TypedInv, EnvelopeInv, ReadyInv, [Next]_vars PROVE ReadyInv'
  OBVIOUS
<1> USE Sizes, Ranges
    DEF TypedInv, TypeOK, Places, SyncGoto, IndexGoto, EndOfRun, syncVars, indexVars, ghosts
<1>1. ASSUME NEW t \in Tickets, Update(t) PROVE ReadyInv'
  BY <1>1, RowsOnlyGo DEF Update
<1>2. ASSUME NEW t \in Tickets, Expire(t) PROVE ReadyInv'
  BY <1>2, RowsOnlyGo DEF Expire
<1>3. ASSUME NEW t \in Tickets, TimeToLive(t) PROVE ReadyInv'
  <2>1. \A u \in Tickets : row'[u].kind = "row" => row'[u] = row[u]
    BY <1>3, NoRowIs DEF TimeToLive, HasRow
  <2>2. indexer # "idle" => current \in Tickets
    OBVIOUS
  <2>3. UNCHANGED <<indexVars, chunks, overtaken>>
    BY <1>3 DEF TimeToLive
  <2> QED
    BY <2>1, <2>2, <2>3 DEF ReadyInv, ReadyIsSearchable, HasRow
<1>4. ASSUME StartSync PROVE ReadyInv'
  BY <1>4, RowsOnlyGo DEF StartSync
<1>5. ASSUME PurgeObjects PROVE ReadyInv'
  BY <1>5, RowsOnlyGo DEF PurgeObjects
<1>6. ASSUME PurgeRow PROVE ReadyInv'
  <2>1. \A u \in Tickets : row'[u].kind = "row" => row'[u] = row[u]
    BY <1>6, NoRowIs DEF PurgeRow, HasRow
  <2>2. indexer # "idle" => current \in Tickets
    OBVIOUS
  <2>3. UNCHANGED <<indexVars, chunks, overtaken>>
    BY <1>6 DEF PurgeRow
  <2> QED
    BY <2>1, <2>2, <2>3 DEF ReadyInv, ReadyIsSearchable, HasRow
<1>7. ASSUME PurgeDone PROVE ReadyInv'
  BY <1>7, RowsOnlyGo DEF PurgeDone
<1>8. ASSUME FetchPage PROVE ReadyInv'
  BY <1>8, RowsOnlyGo DEF FetchPage
<1>9. ASSUME NEW e \in todo, SkipSame(e) PROVE ReadyInv'
  BY <1>9, RowsOnlyGo DEF SkipSame
<1>10. ASSUME NEW e \in todo, PutEnvelope(e) PROVE ReadyInv'
  BY <1>10, RowsOnlyGo DEF PutEnvelope
<1>11. ASSUME NEW e \in todo, PutRow(e) PROVE ReadyInv'
  <2>1. e[2] \in Tickets /\ UNCHANGED <<indexVars, chunks>>
    BY <1>11 DEF PutRow
  <2>2. PICK s \in {"not_indexed", "pending"} :
           row' = [row EXCEPT ![e[2]] = Row(e[1], TRUE, s)]
    BY <1>11 DEF PutRow
  <2>3. /\ row'[e[2]].status # "ready"
        /\ \A t \in Tickets \ {e[2]} : row'[t] = row[t]
    <3>1. Row(e[1], TRUE, s).status = s
      BY DEF Row
    <3> QED
      BY <2>1, <2>2, <3>1
  <2>4. /\ e[2] = current => e[2] \in overtaken'
        /\ \A t \in Tickets \ {e[2]} : t \in overtaken' <=> t \in overtaken
    BY <1>11 DEF PutRow
  <2>5. indexer # "idle" => current \in Tickets
    OBVIOUS
  <2> QED
    BY <2>1, <2>3, <2>4, <2>5 DEF ReadyInv, ReadyIsSearchable, HasRow
<1>12. ASSUME NEW e \in todo, UpsertFails(e) PROVE ReadyInv'
  BY <1>12, RowsOnlyGo DEF UpsertFails
<1>13. ASSUME UpsertDone PROVE ReadyInv'
  BY <1>13, RowsOnlyGo DEF UpsertDone
<1>14. ASSUME ListPage PROVE ReadyInv'
  BY <1>14, RowsOnlyGo DEF ListPage
<1>15. ASSUME Deactivate PROVE ReadyInv'
  <2>1. \A t \in Tickets : row'[t].kind = "row" =>
          /\ row[t].kind = "row" /\ row'[t].at = row[t].at /\ row'[t].status = row[t].status
    BY <1>15, InactiveIs DEF Deactivate, HasRow
  <2>2. indexer # "idle" => current \in Tickets
    OBVIOUS
  <2>3. UNCHANGED <<indexVars, chunks, overtaken>>
    BY <1>15 DEF Deactivate
  <2> QED
    BY <2>1, <2>2, <2>3 DEF ReadyInv, ReadyIsSearchable, HasRow
<1>16. ASSUME WriteCursor PROVE ReadyInv'
  BY <1>16, RowsOnlyGo DEF WriteCursor
<1>17. ASSUME SyncFails PROVE ReadyInv'
  BY <1>17, RowsOnlyGo DEF SyncFails
<1>18. ASSUME NEW t \in Tickets, ReadRow(t) PROVE ReadyInv'
  <2>1. /\ indexer = "idle" /\ row[t].status # "ready" /\ overtaken' = overtaken \ {t}
        /\ chunks' = chunks
    BY <1>18 DEF ReadRow
  <2>2. CASE HasRow(t)
    <3>1. UNCHANGED row /\ current' = t /\ indexer' \in {"load", "loadInactive"}
      BY <1>18, <2>2 DEF ReadRow
    <3> QED
      BY <2>1, <3>1 DEF ReadyInv, ReadyIsSearchable, HasRow
  <2>3. CASE ~HasRow(t)
    <3>1. /\ row' = [row EXCEPT ![t] = Marked(@, "failed")] /\ indexer' = "idle"
      BY <1>18, <2>1, <2>3 DEF ReadRow
    <3>2. row'[t].kind # "row" /\ \A u \in Tickets \ {t} : row'[u] = row[u]
      <4>1. row[t] \in Rows /\ "failed" \in Statuses
        BY DEF Statuses
      <4>2. Marked(row[t], "failed").kind # "row"
        BY <2>3, <4>1, MarkedIs DEF HasRow
      <4> QED
        BY <3>1, <4>2
    <3> QED
      BY <2>1, <3>1, <3>2 DEF ReadyInv, ReadyIsSearchable, HasRow
  <2> QED
    BY <2>2, <2>3
<1>19. ASSUME LoadAndClear PROVE ReadyInv'
  <2>1. indexer \in {"load", "loadInactive"} /\ overtaken' = overtaken
    BY <1>19 DEF LoadAndClear
  <2>2. CASE (EndOfTicket("failed") \/ EndOfTicket("not_indexed")) /\ UNCHANGED chunks
    <3>1. "failed" \in Statuses /\ "not_indexed" \in Statuses
      BY DEF Statuses
    <3> QED
      BY <2>1, <2>2, <3>1, EndKeeps
  <2>3. CASE /\ envelope[current] # 0 /\ indexer = "load" /\ current \notin expired
             /\ indexer' = "index" /\ doc' = envelope[current]
             /\ chunks' = [chunks EXCEPT ![current] = 0] /\ UNCHANGED <<row, current>>
    <3>1. HasRow(current) => envelope[current] >= row[current].at
      BY <2>3 DEF EnvelopeInv, RowHasEnvelope
    <3>2. \A u \in Tickets \ {current} : chunks'[u] = chunks[u]
      BY <2>3
    <3> QED
      BY <2>1, <2>3, <3>1, <3>2 DEF ReadyInv, ReadyIsSearchable, HasRow
  <2> QED
    BY <1>19, <2>2, <2>3 DEF LoadAndClear
<1>20. ASSUME IndexChunks PROVE ReadyInv'
  <2>1. /\ indexer = "index" /\ indexer' = "status" /\ chunks' = [chunks EXCEPT ![current] = doc]
        /\ UNCHANGED <<row, current, overtaken>>
    BY <1>20 DEF IndexChunks
  <2>2. chunks'[current] = doc /\ \A u \in Tickets \ {current} : chunks'[u] = chunks[u]
    BY <2>1
  <2> QED
    BY <2>1, <2>2 DEF ReadyInv, ReadyIsSearchable, HasRow
<1>21. ASSUME MarkReady PROVE ReadyInv'
  <2>1. "ready" \in Statuses
    BY DEF Statuses
  <2> QED
    BY <1>21, <2>1, EndKeeps DEF MarkReady
<1>22. ASSUME IndexFails PROVE ReadyInv'
  <2>1. "failed" \in Statuses
    BY DEF Statuses
  <2>2. CASE EndOfTicket("failed")
    BY <1>22, <2>1, <2>2, EndKeeps DEF IndexFails
  <2>3. CASE indexer' = "idle" /\ UNCHANGED row
    BY <1>22, <2>3 DEF IndexFails, ReadyInv, ReadyIsSearchable, HasRow
  <2> QED
    BY <1>22, <2>2, <2>3 DEF IndexFails
<1>23. ASSUME UNCHANGED vars PROVE ReadyInv'
  BY <1>23, RowsOnlyGo DEF vars
<1> QED
  BY <1>1, <1>2, <1>3, <1>4, <1>5, <1>6, <1>7, <1>8, <1>9, <1>10,
     <1>11, <1>12, <1>13, <1>14, <1>15, <1>16, <1>17, <1>18, <1>19, <1>20,
     <1>21, <1>22, <1>23
  DEF Next, SyncStep, IndexStep

\* What the table calls ready is searchable with the content the table holds.
THEOREM ReadyIsTruthful == Spec => []ReadyIsSearchable
<1>1. Init => EnvelopeInv /\ ReadyInv
  BY NoRowIs
  DEF Init, EnvelopeInv, InOrder, RowHasEnvelope, HasRow, ReadyInv, ReadyIsSearchable
<1>2. ReadyInv => ReadyIsSearchable
  BY DEF ReadyInv
<1> QED
  BY <1>1, <1>2, EnvelopeStep, ReadyStep, Typed, PTL DEF Spec

-----------------------------------------------------------------------------
(* The cursor *)

\* Before a fetch there are neither pages nor a candidate, and no cursor is
\* ahead of ServiceNow: an update comes after it.
Marks ==
    /\ sync \in {"idle", "purge", "fetch"} => candidate = NoCursor
    /\ sync \in {"idle", "purge"} => offset = 0
    /\ cursor # NoCursor => cursor[1] <= source[cursor[2]].at
    /\ candidate # NoCursor => candidate[1] <= source[candidate[2]].at

\* What a run need not fetch, or has given up.
Settled(e) == e \in missed \/ e[2] \in expired \/ Stored(e)

\* What the fetch has gone past is in the batch.
PagesRead ==
    sync = "fetch" =>
        \A e \in Window : Rank(e, Window) < offset => Settled(e) \/ e \in todo

\* What is not in the batch is no older than anything in it, or stored from it:
\* the candidate does not go past it.
RestIsLater ==
    sync \notin {"idle", "purge"} =>
        \A e \in Listed :
            \/ Settled(e) \/ e \in todo
            \/ /\ \A f \in todo : f[1] <= e[1]
               /\ candidate # NoCursor => candidate[1] <= e[1]

BehindInv == Marks /\ PagesRead /\ RestIsLater /\ NothingFallsBehind

\* A step that keeps the rows of what has not expired, with their times.
RowsStay ==
    /\ expired \subseteq expired'
    /\ \A t \in Tickets \ expired :
           HasRow(t) => row'[t].kind = "row" /\ row'[t].at = row[t].at

\* What is settled stays so.
LEMMA SettledStays ==
  ASSUME RowsStay, missed \subseteq missed', NEW e \in Entries, Settled(e)
  PROVE  Settled(e)'
<1>1. e[2] \in Tickets
  BY Ranges
<1> QED
  BY <1>1 DEF RowsStay, Settled, Stored, HasRow

\* Nothing falls behind a cursor that is not written.
LEMMA NothingFalls ==
  ASSUME NothingFallsBehind, RowsStay, missed \subseteq missed', UNCHANGED <<source, cursor>>
  PROVE  NothingFallsBehind'
<1>1. UNCHANGED <<Listed, Window>>
  BY DEF Listed, Window
<1>2. Listed \subseteq Entries
  BY DEF Listed
<1>3. \A e \in Listed : Settled(e) => Settled(e)'
  BY <1>2, SettledStays
<1>4. \A e \in Listed : Settled(e) \/ e \in Window
  BY DEF NothingFallsBehind, Settled
<1> QED
  BY <1>1, <1>3, <1>4 DEF NothingFallsBehind, Settled

\* A step that leaves the batch and the cursor alone.
LEMMA BatchStays ==
  ASSUME BehindInv, RowsStay, missed' = missed,
         UNCHANGED <<source, cursor, sync, todo, offset, candidate>>
  PROVE  BehindInv'
<1>1. UNCHANGED <<Listed, Window>> /\ Window \subseteq Listed /\ Listed \subseteq Entries
  BY DEF Listed, Window
<1>2. \A e \in Listed : Settled(e) => Settled(e)'
  BY <1>1, SettledStays
<1>3. NothingFallsBehind'
  BY NothingFalls DEF BehindInv
<1>4. Marks'
  BY DEF BehindInv, Marks
<1>5. PagesRead'
  BY <1>1, <1>2 DEF BehindInv, PagesRead, Rank
<1>6. RestIsLater'
  BY <1>1, <1>2 DEF BehindInv, RestIsLater
<1> QED
  BY <1>3, <1>4, <1>5, <1>6 DEF BehindInv

\* A step from one place of the run to the next, outside the fetch.
LEMMA PlaceMoves ==
  ASSUME BehindInv, RowsStay, UNCHANGED <<source, cursor, candidate, missed>>,
         sync' # "fetch", sync' \in {"idle", "purge"} => candidate = NoCursor /\ offset' = 0,
         sync' \notin {"idle", "purge"} => sync \notin {"idle", "purge"} /\ todo' = todo
  PROVE  BehindInv'
<1>1. UNCHANGED Listed /\ Listed \subseteq Entries
  BY DEF Listed
<1>2. \A e \in Listed : Settled(e) => Settled(e)'
  BY <1>1, SettledStays
<1>3. NothingFallsBehind'
  BY NothingFalls DEF BehindInv
<1>4. Marks' /\ PagesRead'
  BY DEF BehindInv, Marks, PagesRead
<1>5. RestIsLater'
  BY <1>1, <1>2 DEF BehindInv, RestIsLater
<1> QED
  BY <1>3, <1>4, <1>5 DEF BehindInv

\* A ticket that is updated comes after the cursor, and after the batch; what
\* the update shifts before the offset is missed.
LEMMA UpdateKeeps ==
  ASSUME TypedInv, EnvelopeInv, BehindInv, NEW t \in Tickets, Update(t)
  PROVE  BehindInv'
<1>1. PICK v \in Times, l \in BOOLEAN :
         /\ \A u \in Tickets : v >= source[u].at
         /\ v > source[t].at
         /\ source' = [source EXCEPT ![t] = [at |-> v, listed |-> l]]
  BY DEF Update
<1>2. /\ UNCHANGED <<expired, row, cursor, sync, todo, offset, candidate>>
      /\ missed' = {e \in missed : e[2] # t} \cup Slipped'
  BY DEF Update, syncVars
<1>3. /\ source'[t].at = v
      /\ \A u \in Tickets \ {t} : source'[u] = source[u]
      /\ \A u \in Tickets : source[u].at \in Nat /\ source'[u].at \in Nat
      /\ v \in Nat
  BY <1>1, Ranges DEF TypedInv, TypeOK
<1>4. \A e \in Listed' : /\ e \in Entries
                         /\ IF e[2] = t THEN e[1] = v ELSE e \in Listed
  BY <1>3, Ranges DEF Listed
<1>5. cursor # NoCursor => cursor[1] \in Nat /\ cursor[2] \in Tickets
  BY Ranges DEF TypedInv, TypeOK
<1>6. candidate # NoCursor => candidate[1] \in Nat /\ candidate[2] \in Tickets
  BY Ranges DEF TypedInv, TypeOK
<1>7. Marks'
  <2>1. \A u \in Tickets : source[u].at <= source'[u].at
    BY <1>1, <1>3
  <2> QED
    BY <1>2, <1>3, <1>5, <1>6, <2>1 DEF BehindInv, Marks
<1>8. \A e \in Listed' : e[2] # t => (Settled(e) => Settled(e)') /\ (e \in Window => e \in Window')
  BY <1>2, <1>4 DEF Settled, Stored, HasRow, Window
<1>9. \A e \in Listed' : e[2] = t => e \in Window'
  <2> SUFFICES ASSUME NEW e \in Listed', e[2] = t, cursor # NoCursor
               PROVE  Before(After(cursor), e)
    BY <1>2 DEF Window, After
  <2>1. cursor[1] <= v
    BY <1>1, <1>3, <1>5 DEF BehindInv, Marks
  <2>2. cursor[1] - Overlap < v
    BY <1>3, <1>5, <2>1, Sizes
  <2> QED
    BY <1>4, <2>2 DEF Before, After
<1>10. PagesRead'
  <2> SUFFICES ASSUME (sync = "fetch")', NEW e \in Window', (Rank(e, Window) < offset)'
               PROVE  Settled(e)' \/ e \in todo'
    BY DEF PagesRead
  <2>1. e \in todo' \/ Stored(e)' \/ e \in Slipped'
    BY DEF Slipped
  <2> QED
    BY <1>2, <2>1 DEF Settled
<1>11. RestIsLater'
  <2> SUFFICES ASSUME sync \notin {"idle", "purge"}, NEW e \in Listed', e[2] = t
               PROVE  /\ \A f \in todo : f[1] <= e[1]
                      /\ candidate # NoCursor => candidate[1] <= e[1]
    BY <1>2, <1>4, <1>8 DEF BehindInv, RestIsLater
  <2>1. ASSUME NEW f \in todo PROVE f[1] <= e[1]
    <3>1. f \in Entries /\ sync \in {"fetch", "upsert", "put"}
      BY DEF TypedInv, TypeOK, EnvelopeInv, InOrder
    <3>2. f[1] <= source[f[2]].at
      BY <3>1 DEF EnvelopeInv, InOrder
    <3> QED
      BY <1>1, <1>3, <1>4, <3>1, <3>2, Ranges
  <2>2. candidate # NoCursor => candidate[1] <= e[1]
    BY <1>1, <1>3, <1>4, <1>6 DEF BehindInv, Marks
  <2> QED
    BY <2>1, <2>2
<1>12. NothingFallsBehind'
  <2>1. \A e \in Listed' : Settled(e)' \/ e \in Window'
    BY <1>4, <1>8, <1>9 DEF BehindInv, NothingFallsBehind, Settled
  <2> QED
    BY <2>1 DEF NothingFallsBehind, Settled
<1> QED
  BY <1>7, <1>10, <1>11, <1>12 DEF BehindInv

\* A page is of the oldest entries the fetch has not gone past.
LEMMA FetchKeeps ==
  ASSUME TypedInv, EnvelopeInv, BehindInv, FetchPage
  PROVE  BehindInv'
<1> DEFINE limit == Limit(MaxRecords)
           page == Page(Window, limit)
<1>1. /\ sync = "fetch" /\ todo' = todo \cup page
      /\ sync' \in {"fetch", "upsert"} /\ (sync' = "fetch" => offset' = offset + limit)
      /\ UNCHANGED <<source, expired, row, cursor, candidate, missed>>
  BY DEF FetchPage, ghosts
<1>2. offset \in Nat /\ limit \in Nat
  BY <1>1, RoomLeft, Sizes DEF TypedInv, TypeOK, Places
<1> HIDE DEF limit
<1>3. UNCHANGED <<Listed, Window>> /\ Window \subseteq Listed /\ Listed \in SUBSET Entries
  BY <1>1 DEF Listed, Window
<1>4. RowsStay
  BY <1>1 DEF RowsStay, HasRow
<1>5. \A e \in Listed : Settled(e) => Settled(e)'
  BY <1>1, <1>3, <1>4, SettledStays
<1>6. NothingFallsBehind'
  BY <1>1, <1>4, NothingFalls DEF BehindInv
<1>7. Marks'
  BY <1>1 DEF BehindInv, Marks
<1>8. PagesRead'
  <2> SUFFICES ASSUME sync' = "fetch", NEW e \in Window, Rank(e, Window) < offset + limit
               PROVE  Settled(e)' \/ e \in todo'
    BY <1>1, <1>3 DEF PagesRead, Rank
  <2>1. Rank(e, Window) < offset \/ e \in page
    BY <1>2, <1>3, RankIsNat DEF Page
  <2> QED
    BY <1>1, <1>3, <1>5, <2>1 DEF BehindInv, PagesRead
<1>9. RestIsLater'
  <2> SUFFICES ASSUME NEW e \in Listed, ~Settled(e), e \notin todo, e \notin page
               PROVE  \A f \in todo \cup page : f[1] <= e[1]
    BY <1>1, <1>3, <1>5 DEF BehindInv, RestIsLater, Marks
  <2>1. e \in Window
    BY DEF BehindInv, NothingFallsBehind, Settled
  <2>2. Rank(e, Window) \in Nat
    BY <1>3, RankIsNat
  <2>3. ~(Rank(e, Window) < offset)
    BY <1>1, <2>1 DEF BehindInv, PagesRead
  <2>4. ASSUME NEW f \in page PROVE f[1] <= e[1]
    <3>1. f \in Window /\ Rank(f, Window) < Rank(e, Window)
      BY <1>2, <1>3, <2>1, <2>2, <2>3, <2>4, RankIsNat DEF Page
    <3> QED
      BY <1>3, <2>1, <3>1, RankIsTime
  <2>5. ASSUME NEW f \in todo PROVE f[1] <= e[1]
    BY <1>1 DEF BehindInv, RestIsLater
  <2> QED
    BY <2>4, <2>5
<1> QED
  BY <1>6, <1>7, <1>8, <1>9 DEF BehindInv

\* The entry that is stored becomes the candidate, and nothing in the batch is
\* older.
LEMMA StoredKeeps ==
  ASSUME TypedInv, EnvelopeInv, BehindInv, NEW e \in todo, IsFirst(e, todo),
         sync \in {"upsert", "put"}, sync' = "upsert",
         todo' = todo \ {e}, candidate' = AtLeast(candidate, e), missed' = missed \ {e},
         UNCHANGED <<source, expired, cursor>>,
         row'[e[2]].kind = "row", row'[e[2]].at = e[1],
         \A t \in Tickets \ {e[2]} : row'[t] = row[t]
  PROVE  BehindInv'
<1>1. UNCHANGED <<Listed, Window>> /\ Listed \subseteq Entries
  BY DEF Listed, Window
<1>2. /\ todo \subseteq Entries /\ e \in Entries /\ e[1] <= source[e[2]].at
      /\ HasRow(e[2]) => row[e[2]].at <= e[1]
  BY DEF TypedInv, TypeOK, EnvelopeInv, InOrder
<1>3. Settled(e)'
  BY DEF Settled, Stored, HasRow
<1>4. ASSUME NEW f \in Listed, Settled(f) PROVE Settled(f)'
  <2>1. CASE f[2] = e[2] /\ Stored(f)
    <3>1. f[1] <= e[1] /\ e[1] <= f[1] /\ f \in Entries
      BY <1>1, <1>2, <2>1 DEF Listed, Stored
    <3>2. f = e
      BY <1>2, <2>1, <3>1, Ranges
    <3> QED
      BY <1>3, <3>2
  <2>2. CASE f[2] # e[2] /\ Stored(f)
    BY <1>1, <2>2, Ranges DEF Settled, Stored, HasRow
  <2>3. CASE f \in missed \/ f[2] \in expired
    BY <1>3, <2>3 DEF Settled
  <2> QED
    BY <1>4, <2>1, <2>2, <2>3 DEF Settled
<1>5. Marks'
  BY <1>2 DEF BehindInv, Marks, AtLeast
<1>6. NothingFallsBehind'
  <2>1. \A f \in Listed : Settled(f) \/ f \in Window
    BY DEF BehindInv, NothingFallsBehind, Settled
  <2> QED
    BY <1>1, <1>4, <2>1 DEF NothingFallsBehind, Settled
<1>7. RestIsLater'
  <2> SUFFICES ASSUME NEW f \in Listed, ~Settled(f)', f \notin todo'
               PROVE  /\ \A g \in todo' : g[1] <= f[1]
                      /\ AtLeast(candidate, e) # NoCursor => AtLeast(candidate, e)[1] <= f[1]
    BY <1>1 DEF RestIsLater
  <2>1. f # e /\ f \notin todo /\ ~Settled(f)
    BY <1>3, <1>4
  <2>2. /\ \A g \in todo : g[1] <= f[1]
        /\ candidate # NoCursor => candidate[1] <= f[1]
    BY <2>1 DEF BehindInv, RestIsLater
  <2> QED
    BY <2>2 DEF AtLeast
<1> QED
  BY <1>5, <1>6, <1>7 DEF BehindInv, PagesRead

\* Every step keeps what is not stored in reach of the cursor.
LEMMA BehindStep ==
  TypedInv /\ EnvelopeInv /\ BehindInv /\ [Next]_vars => BehindInv'
<1> SUFFICES ASSUME TypedInv, EnvelopeInv, BehindInv, [Next]_vars PROVE BehindInv'
  OBVIOUS
<1> USE DEF SyncGoto, IndexGoto, syncVars, indexVars, ghosts
<1>0. row \in [Tickets -> Rows] /\ \A t \in Tickets : row[t] \in Rows
  BY DEF TypedInv, TypeOK
<1>1. ASSUME NEW t \in Tickets, Update(t) PROVE BehindInv'
  BY <1>1, UpdateKeeps
<1>2. ASSUME NEW t \in Tickets, Expire(t) PROVE BehindInv'
  <2>1. RowsStay
    BY <1>2 DEF Expire, RowsStay, HasRow
  <2> QED
    BY <1>2, <2>1, BatchStays DEF Expire
<1>3. ASSUME NEW t \in Tickets, TimeToLive(t) PROVE BehindInv'
  <2>1. RowsStay
    BY <1>0, <1>3 DEF TimeToLive, RowsStay, HasRow
  <2> QED
    BY <1>3, <2>1, BatchStays DEF TimeToLive
<1>4. ASSUME StartSync PROVE BehindInv'
  <2>1. RowsStay
    BY <1>4 DEF StartSync, RowsStay, HasRow
  <2> QED
    BY <1>4, <2>1, PlaceMoves DEF StartSync, BehindInv, Marks
<1>5. ASSUME PurgeObjects PROVE BehindInv'
  <2>1. RowsStay
    BY <1>5 DEF PurgeObjects, RowsStay, HasRow
  <2> QED
    BY <1>5, <2>1, BatchStays DEF PurgeObjects
<1>6. ASSUME PurgeRow PROVE BehindInv'
  <2>1. RowsStay
    <3>1. PICK e \in todo : row' = [row EXCEPT ![e[2]] = NoRow]
      BY <1>6 DEF PurgeRow
    <3>2. expired' = expired /\ e[2] \in expired
      BY <1>6 DEF PurgeRow, EnvelopeInv, InOrder
    <3> QED
      BY <1>0, <3>1, <3>2 DEF RowsStay, HasRow
  <2> QED
    BY <1>6, <2>1, PlaceMoves DEF PurgeRow, BehindInv, Marks
<1>7. ASSUME PurgeDone PROVE BehindInv'
  <2>1. /\ sync = "purge" /\ sync' = "fetch" /\ todo = {} /\ offset = 0 /\ candidate = NoCursor
        /\ UNCHANGED <<source, expired, row, cursor, todo, offset, candidate, missed>>
    BY <1>7 DEF PurgeDone, BehindInv, Marks
  <2>2. UNCHANGED <<Listed, Window>> /\ Listed \in SUBSET Entries /\ Window \in SUBSET Entries
    BY <2>1 DEF Listed, Window
  <2>3. PagesRead'
    BY <2>1, <2>2, RankIsNat DEF PagesRead, Rank
  <2>4. NothingFallsBehind' /\ Marks' /\ RestIsLater'
    <3>1. RowsStay
      BY <2>1 DEF RowsStay, HasRow
    <3> QED
      BY <2>1, <3>1, NothingFalls DEF BehindInv, Marks, RestIsLater
  <2> QED
    BY <2>3, <2>4 DEF BehindInv
<1>8. ASSUME FetchPage PROVE BehindInv'
  BY <1>8, FetchKeeps
<1>9. ASSUME NEW e \in todo, SkipSame(e) PROVE BehindInv'
  <2>1. row'[e[2]].kind = "row" /\ row'[e[2]].at = e[1]
    BY <1>9 DEF SkipSame, Stored, HasRow
  <2> QED
    BY <1>9, <2>1, StoredKeeps DEF SkipSame
<1>10. ASSUME NEW e \in todo, PutEnvelope(e) PROVE BehindInv'
  <2>1. RowsStay
    BY <1>10 DEF PutEnvelope, RowsStay, HasRow
  <2> QED
    BY <1>10, <2>1, PlaceMoves DEF PutEnvelope
<1>11. ASSUME NEW e \in todo, PutRow(e) PROVE BehindInv'
  <2>1. e \in Entries /\ e[1] \in Times /\ e[2] \in Tickets
    BY Ranges DEF TypedInv, TypeOK
  <2>2. PICK s \in Statuses : row' = [row EXCEPT ![e[2]] = Row(e[1], TRUE, s)]
    BY <1>11 DEF PutRow, Statuses
  <2>3. row'[e[2]] = Row(e[1], TRUE, s) /\ \A t \in Tickets \ {e[2]} : row'[t] = row[t]
    BY <1>0, <2>1, <2>2
  <2>4. row'[e[2]].kind = "row" /\ row'[e[2]].at = e[1]
    <3>1. Row(e[1], TRUE, s).kind = "row" /\ Row(e[1], TRUE, s).at = e[1]
      BY DEF Row
    <3> QED
      BY <2>3, <3>1
  <2> QED
    BY <1>11, <2>3, <2>4, StoredKeeps DEF PutRow
<1>12. ASSUME NEW e \in todo, UpsertFails(e) PROVE BehindInv'
  <2>1. /\ sync \in {"upsert", "put"} /\ sync' = "upsert"
        /\ todo' = todo \ {e} /\ missed' = missed \cup ({e} \cap Listed)
        /\ UNCHANGED <<source, expired, row, cursor, candidate>>
    BY <1>12 DEF UpsertFails
  <2>2. RowsStay
    BY <2>1 DEF RowsStay, HasRow
  <2>3. UNCHANGED Listed /\ Listed \subseteq Entries
    BY <2>1 DEF Listed
  <2>4. \A f \in Listed : Settled(f) => Settled(f)'
    BY <2>1, <2>2, <2>3, SettledStays
  <2>5. e \in Listed => Settled(e)'
    BY <2>1 DEF Settled
  <2>6. NothingFallsBehind'
    BY <2>1, <2>2, NothingFalls DEF BehindInv
  <2>7. RestIsLater'
    BY <2>1, <2>3, <2>4, <2>5 DEF BehindInv, RestIsLater
  <2> QED
    BY <2>1, <2>6, <2>7 DEF BehindInv, Marks, PagesRead
<1>13. ASSUME UpsertDone PROVE BehindInv'
  <2>1. RowsStay
    BY <1>13 DEF UpsertDone, RowsStay, HasRow
  <2> QED
    BY <1>13, <2>1, PlaceMoves DEF UpsertDone
<1>14. ASSUME ListPage PROVE BehindInv'
  <2>1. RowsStay
    BY <1>14 DEF ListPage, RowsStay, HasRow
  <2> QED
    BY <1>14, <2>1, PlaceMoves DEF ListPage
<1>15. ASSUME Deactivate PROVE BehindInv'
  <2>1. RowsStay
    BY <1>0, <1>15, InactiveIs DEF Deactivate, RowsStay, HasRow
  <2> QED
    BY <1>15, <2>1, PlaceMoves DEF Deactivate
<1>16. ASSUME WriteCursor PROVE BehindInv'
  <2>1. /\ sync = "cursor" /\ todo = {} /\ sync' = "idle" /\ offset' = 0 /\ candidate' = NoCursor
        /\ cursor' = IF candidate = NoCursor THEN cursor ELSE candidate
        /\ UNCHANGED <<source, expired, row, missed>>
    BY <1>16 DEF WriteCursor, EndOfRun, EnvelopeInv, InOrder
  <2>2. Marks'
    BY <2>1 DEF BehindInv, Marks
  <2>3. NothingFallsBehind'
    <3> SUFFICES ASSUME NEW e \in Listed, ~Settled(e), candidate # NoCursor
                 PROVE  Before(After(candidate), e)
      BY <2>1 DEF BehindInv, NothingFallsBehind, Listed, Window, Settled, Stored, HasRow, After
    <3>1. candidate[1] <= e[1] /\ e \in Entries
      BY <2>1 DEF BehindInv, RestIsLater, Listed
    <3>2. candidate \in Entries
      BY DEF TypedInv, TypeOK
    <3>3. candidate[1] - Overlap < e[1]
      BY <3>1, <3>2, Ranges, Sizes
    <3> QED
      BY <3>3 DEF Before, After
  <2> QED
    BY <2>1, <2>2, <2>3 DEF BehindInv, PagesRead, RestIsLater
<1>17. ASSUME SyncFails PROVE BehindInv'
  <2>1. /\ sync' = "idle" /\ offset' = 0 /\ candidate' = NoCursor
        /\ UNCHANGED <<source, expired, row, cursor, missed>>
    BY <1>17 DEF SyncFails, EndOfRun
  <2>2. RowsStay
    BY <2>1 DEF RowsStay, HasRow
  <2>3. NothingFallsBehind'
    BY <2>1, <2>2, NothingFalls DEF BehindInv
  <2> QED
    BY <2>1, <2>3 DEF BehindInv, Marks, PagesRead, RestIsLater
<1>18. ASSUME NEW t \in Tickets, ReadRow(t) PROVE BehindInv'
  <2>1. RowsStay
    BY <1>0, <1>18, MarkedIs DEF ReadRow, RowsStay, Statuses, HasRow
  <2> QED
    BY <1>18, <2>1, BatchStays DEF ReadRow
<1>19. ASSUME LoadAndClear PROVE BehindInv'
  <2>1. RowsStay
    BY <1>0, <1>19, MarkedIs DEF LoadAndClear, EndOfTicket, RowsStay, Statuses, HasRow
  <2> QED
    BY <1>19, <2>1, BatchStays DEF LoadAndClear
<1>20. ASSUME IndexChunks PROVE BehindInv'
  <2>1. RowsStay
    BY <1>20 DEF IndexChunks, RowsStay, HasRow
  <2> QED
    BY <1>20, <2>1, BatchStays DEF IndexChunks
<1>21. ASSUME MarkReady PROVE BehindInv'
  <2>1. RowsStay
    BY <1>0, <1>21, MarkedIs DEF MarkReady, EndOfTicket, RowsStay, Statuses, HasRow
  <2> QED
    BY <1>21, <2>1, BatchStays DEF MarkReady
<1>22. ASSUME IndexFails PROVE BehindInv'
  <2>1. RowsStay
    BY <1>0, <1>22, MarkedIs DEF IndexFails, EndOfTicket, RowsStay, Statuses, HasRow
  <2> QED
    BY <1>22, <2>1, BatchStays DEF IndexFails
<1>23. ASSUME UNCHANGED vars PROVE BehindInv'
  <2>1. RowsStay
    BY <1>23 DEF vars, RowsStay, HasRow
  <2> QED
    BY <1>23, <2>1, BatchStays DEF vars
<1> QED
  BY <1>1, <1>2, <1>3, <1>4, <1>5, <1>6, <1>7, <1>8, <1>9, <1>10,
     <1>11, <1>12, <1>13, <1>14, <1>15, <1>16, <1>17, <1>18, <1>19, <1>20,
     <1>21, <1>22, <1>23
  DEF Next, SyncStep, IndexStep

\* A listed ticket that is not stored as it is now will be fetched by the next
\* run, whatever changes or fails and however the listing is paged, unless a
\* run passed over it: its upsert failed, or an update shifted it to a page
\* that was read already.
THEOREM NoTicketFallsBehind == Spec => []NothingFallsBehind
<1>1. Init => EnvelopeInv /\ BehindInv
  <2> SUFFICES ASSUME Init PROVE EnvelopeInv /\ BehindInv
    OBVIOUS
  <2>1. EnvelopeInv
    BY NoRowIs DEF Init, EnvelopeInv, InOrder, RowHasEnvelope, HasRow
  <2>2. Listed = {}
    BY DEF Init, Listed, Entries, Tickets
  <2> QED
    BY <2>1, <2>2
    DEF Init, BehindInv, Marks, PagesRead, RestIsLater, NothingFallsBehind
<1>2. BehindInv => NothingFallsBehind
  BY DEF BehindInv
<1> QED
  BY <1>1, <1>2, EnvelopeStep, BehindStep, Typed, PTL DEF Spec

=============================================================================
