--------------------------- MODULE ChatQuotaProofs ---------------------------
(***************************************************************************)
(* Proofs about ChatQuota for every number of calls and workers, every     *)
(* limit that config.py accepts and every choice of the failures.          *)
(*                                                                         *)
(* The argument: a draft is what its call made of the document that still  *)
(* has the ETag it was read with (DraftsFollow), so a step is one of four  *)
(* things to the document (EffectStep): nothing, an admission that keeps   *)
(* every live entry, the removal of one lease, or a deletion after the     *)
(* document's ttl.  The invariants below rest on these four, not on the    *)
(* actions.                                                                *)
(***************************************************************************)
EXTENDS ChatQuota, FiniteSetTheorems, WellFoundedInduction, TLAPS

-----------------------------------------------------------------------------
(* Numbers and windows *)

\* A non-empty set of naturals below a bound has the maximum Max chooses.
LEMMA MaxOfBounded ==
  ASSUME NEW b \in Nat, NEW S, S \subseteq 0 .. b, S # {}
  PROVE  Max(S) \in S /\ \A x \in S : Max(S) >= x
<1> DEFINE Rest == {b - x : x \in S}
<1>1. \A x \in S : x \in Nat /\ b - x \in Nat
  OBVIOUS
<1>a. Rest \subseteq Nat
  BY <1>1
<1>b. PICK s \in S : TRUE
  OBVIOUS
<1>c. b - s \in Rest
  BY <1>b
<1>2. PICK r \in Rest : \A y \in Rest : ~(<<y, r>> \in OpToRel(<, Nat))
  BY <1>a, <1>c, NatLessThanWellFounded, WFMin
<1>3. \A y \in Rest : ~(y < r)
  BY <1>a, <1>2 DEF OpToRel
<1>4. PICK m \in S : r = b - m
  BY <1>2
<1>5. \A x \in S : m >= x
  <2> TAKE x \in S
  <2>1. ~(b - x < b - m)
    BY <1>3, <1>4
  <2> QED
    BY <2>1
<1> QED
  BY <1>5 DEF Max

\* A time lies in its window.
LEMMA WindowBounds ==
  ASSUME NEW t \in Nat
  PROVE  WindowOf(t) \in Nat /\ WindowOf(t) <= t /\ t < WindowOf(t) + WindowSeconds
<1>1. t % WindowSeconds \in 0 .. (WindowSeconds - 1)
  BY LimitsAssumption
<1>2. t % WindowSeconds <= t
  BY LimitsAssumption
<1> QED
  BY <1>1, <1>2, LimitsAssumption DEF WindowOf

-----------------------------------------------------------------------------
(* Well-typed states *)

\* No entry expires later than this.
Horizon == MaxTime + DedupeSeconds

Bounded(entries) == \A e \in entries : e.expires <= Horizon

BoundedDoc(d) == d \in Documents /\ Bounded(d.leases) /\ Bounded(d.recent)

\* What a ttl must cover is in the future, so a ttl is a natural number.
LEMMA RetentionBounds ==
  ASSUME TypeOK, NEW c \in Calls, NEW E, E \subseteq Entries, Bounded(E)
  PROVE  /\ RetentionEnd(c, E) - at[c] \in Nat
         /\ RetentionEnd(c, E) \in Nat
         /\ RetentionEnd(c, E) >= WindowOf(at[c]) + WindowSeconds
         /\ \A e \in E : RetentionEnd(c, E) >= e.expires
<1> DEFINE Ends == {WindowOf(at[c]) + WindowSeconds} \cup {e.expires : e \in E}
           Far == MaxTime + DedupeSeconds + WindowSeconds
<1>1. at[c] \in Nat /\ at[c] <= MaxTime /\ MaxTime \in Nat
  BY BoundsAssumption DEF TypeOK
<1>2. /\ WindowOf(at[c]) + WindowSeconds \in 0 .. Far
      /\ at[c] < WindowOf(at[c]) + WindowSeconds
  BY <1>1, WindowBounds, LimitsAssumption
<1>3. \A e \in E : e.expires \in 0 .. Far
  BY <1>1, LimitsAssumption DEF Bounded, Horizon, Entries
<1>4. Ends \subseteq 0 .. Far /\ Ends # {}
  BY <1>2, <1>3
<1>5. Far \in Nat
  BY <1>1, LimitsAssumption
<1>6. Max(Ends) \in Ends /\ \A x \in Ends : Max(Ends) >= x
  BY <1>4, <1>5, MaxOfBounded
<1>7. Max(Ends) \in Nat /\ Max(Ends) >= WindowOf(at[c]) + WindowSeconds
  BY <1>4, <1>6
<1>8. \A e \in E : Max(Ends) >= e.expires
  BY <1>6
<1>9. RetentionEnd(c, E) = Max(Ends)
  BY DEF RetentionEnd
<1>10. Max(Ends) - at[c] \in Nat
  BY <1>1, <1>2, <1>7
<1> QED
  BY <1>7, <1>8, <1>9, <1>10

\* The entries of a call are well typed, and its id outlives its lease.
LEMMA OwnEntries ==
  ASSUME TypeOK, NEW c \in Calls
  PROVE  /\ Lease(c) \in Entries /\ Lease(c).expires <= Horizon
         /\ Recent(c) \in Entries /\ Recent(c).expires <= Horizon
         /\ Lease(c).expires <= Recent(c).expires
<1>1. at[c] \in Nat /\ at[c] <= MaxTime /\ MaxTime \in Nat
  BY BoundsAssumption DEF TypeOK
<1> QED
  BY <1>1, CallsAssumption, LimitsAssumption DEF Lease, Recent, Entries, Horizon

\* What a call makes of no document, of a document, or of a document it releases,
\* is a document again.
LEMMA NewDocumentType ==
  ASSUME TypeOK, NEW c \in Calls
  PROVE  BoundedDoc(NewDocument(c))
<1>1. /\ {Lease(c), Recent(c)} \subseteq Entries
      /\ Bounded({Lease(c), Recent(c)})
  BY OwnEntries DEF Bounded
<1>2. RetentionEnd(c, {Lease(c), Recent(c)}) - at[c] \in Nat
  BY <1>1, RetentionBounds
<1>3. WindowOf(at[c]) \in Nat
  BY WindowBounds DEF TypeOK
<1> QED
  BY <1>1, <1>2, <1>3, LimitsAssumption DEF NewDocument, BoundedDoc, Bounded, Documents

LEMMA AdmittedType ==
  ASSUME TypeOK, NEW c \in Calls, NEW d, BoundedDoc(d)
  PROVE  BoundedDoc(Admitted(d, c))
<1> DEFINE leases == Unexpired(d.leases, at[c]) \cup {Lease(c)}
           recent == Unexpired(d.recent, at[c]) \cup {Recent(c)}
<1>1. leases \subseteq Entries /\ Bounded(leases)
  BY OwnEntries DEF Bounded, BoundedDoc, Documents, Unexpired
<1>2. recent \subseteq Entries /\ Bounded(recent)
  BY OwnEntries DEF Bounded, BoundedDoc, Documents, Unexpired
<1>3. RetentionEnd(c, leases \cup recent) - at[c] \in Nat
  <2>1. leases \cup recent \subseteq Entries /\ Bounded(leases \cup recent)
    BY <1>1, <1>2 DEF Bounded
  <2> QED
    BY <2>1, RetentionBounds
<1>4. WindowOf(at[c]) \in Nat
  BY WindowBounds DEF TypeOK
<1>5. UsedCount(d, c) + 1 \in Nat /\ UsedBudget(d, c) + Cost \in Nat
  BY LimitsAssumption DEF BoundedDoc, Documents, UsedCount, UsedBudget
<1> QED
  BY <1>1, <1>2, <1>3, <1>4, <1>5 DEF Admitted, BoundedDoc, Documents

LEMMA WithoutType ==
  ASSUME NEW c \in Calls, NEW d, BoundedDoc(d)
  PROVE  BoundedDoc(Without(d, c))
BY DEF Without, BoundedDoc, Bounded, Documents

\* No document is mistaken for its absence.
LEMMA DocumentIsThere ==
  ASSUME NEW d, BoundedDoc(d)
  PROVE  d # NoDoc
BY NoDocAssumption DEF BoundedDoc, Documents, Entries

\* What makes TypeOK inductive: a document and a draft are bounded, who is about
\* to write has a draft, and who is in a loop has a round left.
DocsBounded ==
    /\ doc # NoDoc => BoundedDoc(doc)
    /\ \A c \in Calls : draft[c] # NoDoc => BoundedDoc(draft[c])

WritersHaveDrafts ==
    \A c \in Calls : pc[c] \in {"create", "replace", "remove"} => draft[c] # NoDoc

RoundsLeft ==
    \A c \in Calls : pc[c] \in Acquiring \cup Releasing => attempt[c] < MaxAttempts

TypedInv == TypeOK /\ DocsBounded /\ WritersHaveDrafts /\ RoundsLeft

LEMMA TypeInit == Init => TypedInv
<1> USE CallsAssumption, LimitsAssumption, BoundsAssumption
    DEF Init, TypeOK, DocsBounded, WritersHaveDrafts, RoundsLeft, Acquiring, Releasing
<1> SUFFICES ASSUME Init PROVE TypedInv
  OBVIOUS
<1>1. TypeOK
  <2>1. /\ at \in [Calls -> 0 .. MaxTime] /\ wrote \in [Calls -> 0 .. MaxTime]
        /\ attempt \in [Calls -> 0 .. MaxAttempts] /\ changes \in [Calls -> 0 .. MaxAttempts]
    OBVIOUS
  <2>2. pc \in [Calls -> Acquiring \cup Releasing \cup {"running", "done", "denied", "error"}]
    OBVIOUS
  <2>3. draft \in [Calls -> Documents \cup {NoDoc}] /\ base \in [Calls -> Nat]
    OBVIOUS
  <2>4. /\ now \in 0 .. MaxTime /\ doc \in Documents \cup {NoDoc} /\ etag \in Nat /\ gone \in Nat
        /\ charged \subseteq Calls
    OBVIOUS
  <2>5. straddled \in BOOLEAN /\ outlived \in BOOLEAN
    BY Zenon
  <2> QED
    BY <2>1, <2>2, <2>3, <2>4, <2>5 DEF TypeOK
<1>2. DocsBounded /\ WritersHaveDrafts /\ RoundsLeft
  OBVIOUS
<1> QED
  BY <1>1, <1>2 DEF TypedInv

\* A write, and the absence of one, leave the store well typed.
LEMMA StoreType ==
  ASSUME TypedInv, NEW c \in Calls, pc[c] \in {"create", "replace", "remove"}, Store(c)
  PROVE  /\ BoundedDoc(doc') /\ doc' # NoDoc /\ doc' \in Documents
         /\ etag' \in Nat /\ gone' \in Nat
         /\ changes' \in [Calls -> 0 .. MaxAttempts]
<1>1. BoundedDoc(draft[c])
  BY DEF TypedInv, WritersHaveDrafts, DocsBounded
<1>2. draft[c].ttl \in Nat
  BY <1>1 DEF BoundedDoc, Documents
<1> QED
  BY <1>1, <1>2, DocumentIsThere, LimitsAssumption, BoundsAssumption
  DEF TypedInv, TypeOK, Store, Changed, BoundedDoc

\* Counting a call keeps the ghosts well typed.
LEMMA ChargeType ==
  ASSUME TypeOK, NEW c \in Calls, Charge(c)
  PROVE  /\ charged' \subseteq Calls
         /\ wrote' \in [Calls -> 0 .. MaxTime]
         /\ straddled' \in BOOLEAN /\ outlived' \in BOOLEAN
BY DEF TypeOK, Charge

\* The parts of the invariant that one call's step can disturb.
LEMMA DraftType ==
  ASSUME TypedInv, NEW c \in Calls, NEW d, BoundedDoc(d), Draft(c, d)
  PROVE  /\ draft' \in [Calls -> Documents \cup {NoDoc}]
         /\ base' \in [Calls -> Nat]
         /\ draft'[c] # NoDoc
         /\ \A b \in Calls : draft'[b] # NoDoc => BoundedDoc(draft'[b])
         /\ \A b \in Calls : b # c => draft'[b] = draft[b]
BY DocumentIsThere DEF TypedInv, TypeOK, DocsBounded, Draft, BoundedDoc

LEMMA DiscardType ==
  ASSUME TypedInv, NEW c \in Calls, Discard(c)
  PROVE  /\ draft' \in [Calls -> Documents \cup {NoDoc}]
         /\ base' \in [Calls -> Nat]
         /\ \A b \in Calls : draft'[b] # NoDoc => BoundedDoc(draft'[b])
         /\ \A b \in Calls : b # c => draft'[b] = draft[b]
BY DEF TypedInv, TypeOK, DocsBounded, Discard

\* Every action keeps the four parts of TypedInv.
LEMMA TypeStep == TypedInv /\ [Next]_vars => TypedInv'
<1> SUFFICES ASSUME TypedInv, [Next]_vars PROVE TypedInv'
  OBVIOUS
<1> USE CallsAssumption, LimitsAssumption, BoundsAssumption
    DEF Goto, StoredNothing, ChargedNothing, Acquiring, Releasing
<1>0. TypeOK /\ DocsBounded /\ WritersHaveDrafts /\ RoundsLeft
  BY DEF TypedInv
<1>1. ASSUME NEW c \in Calls, ReadClock(c) PROVE TypedInv'
  BY <1>0, <1>1 DEF ReadClock, TypedInv, TypeOK, DocsBounded, WritersHaveDrafts, RoundsLeft
<1>2. ASSUME NEW c \in Calls, ReadDoc(c) PROVE TypedInv'
  <2>1. CASE Goto(c, "read", "denied") /\ UNCHANGED <<draft, base>>
    BY <1>0, <1>2, <2>1
    DEF ReadDoc, TypedInv, TypeOK, DocsBounded, WritersHaveDrafts, RoundsLeft
  <2>2. ASSUME NEW to \in {"create", "replace"}, Goto(c, "read", to),
               NEW d, BoundedDoc(d), Draft(c, d)
        PROVE  TypedInv'
    BY <1>0, <1>2, <2>2, DraftType
    DEF ReadDoc, TypedInv, TypeOK, DocsBounded, WritersHaveDrafts, RoundsLeft
  <2>3. BoundedDoc(NewDocument(c)) /\ (doc # NoDoc => BoundedDoc(Admitted(doc, c)))
    BY <1>0, NewDocumentType, AdmittedType DEF DocsBounded
  <2> QED
    BY <1>2, <2>1, <2>2, <2>3 DEF ReadDoc
<1>3. ASSUME NEW c \in Calls, Create(c) PROVE TypedInv'
  <2>1. CASE Store(c) /\ Charge(c) /\ UNCHANGED attempt /\ Goto(c, "create", "running")
    BY <1>0, <1>3, <2>1, StoreType, ChargeType, DiscardType
    DEF Create, TypedInv, TypeOK, DocsBounded, WritersHaveDrafts, RoundsLeft
  <2>2. CASE StoredNothing /\ ChargedNothing /\ NextRound(c, "create", "clock", "error")
    BY <1>0, <1>3, <2>2, DiscardType
    DEF Create, NextRound, TypedInv, TypeOK, DocsBounded, WritersHaveDrafts, RoundsLeft
  <2> QED
    BY <1>3, <2>1, <2>2 DEF Create
<1>4. ASSUME NEW c \in Calls, Replace(c) PROVE TypedInv'
  <2>1. CASE Store(c) /\ Charge(c) /\ UNCHANGED attempt /\ Goto(c, "replace", "running")
    BY <1>0, <1>4, <2>1, StoreType, ChargeType, DiscardType
    DEF Replace, TypedInv, TypeOK, DocsBounded, WritersHaveDrafts, RoundsLeft
  <2>2. CASE StoredNothing /\ ChargedNothing /\ NextRound(c, "replace", "clock", "error")
    BY <1>0, <1>4, <2>2, DiscardType
    DEF Replace, NextRound, TypedInv, TypeOK, DocsBounded, WritersHaveDrafts, RoundsLeft
  <2> QED
    BY <1>4, <2>1, <2>2 DEF Replace
<1>5. ASSUME NEW c \in Calls, StoreFails(c) PROVE TypedInv'
  <2>1. CASE StoredNothing /\ ChargedNothing
    BY <1>0, <1>5, <2>1, DiscardType
    DEF StoreFails, TypedInv, TypeOK, DocsBounded, WritersHaveDrafts, RoundsLeft
  <2>2. CASE pc[c] \in {"create", "replace"} /\ Store(c) /\ Charge(c)
    BY <1>0, <1>5, <2>2, StoreType, ChargeType, DiscardType
    DEF StoreFails, TypedInv, TypeOK, DocsBounded, WritersHaveDrafts, RoundsLeft
  <2> QED
    BY <1>5, <2>1, <2>2 DEF StoreFails
<1>6. ASSUME NEW c \in Calls, Finish(c) PROVE TypedInv'
  BY <1>0, <1>6 DEF Finish, TypedInv, TypeOK, DocsBounded, WritersHaveDrafts, RoundsLeft
<1>7. ASSUME NEW c \in Calls, Reread(c) PROVE TypedInv'
  <2>1. CASE Goto(c, "reread", "done") /\ UNCHANGED <<draft, base>>
    BY <1>0, <1>7, <2>1
    DEF Reread, TypedInv, TypeOK, DocsBounded, WritersHaveDrafts, RoundsLeft
  <2>2. CASE Goto(c, "reread", "remove") /\ doc # NoDoc /\ Draft(c, Without(doc, c))
    <3>1. BoundedDoc(Without(doc, c))
      BY <1>0, <2>2, WithoutType DEF DocsBounded
    <3> QED
      BY <1>0, <1>7, <2>2, <3>1, DraftType
      DEF Reread, TypedInv, TypeOK, DocsBounded, WritersHaveDrafts, RoundsLeft
  <2> QED
    BY <1>7, <2>1, <2>2 DEF Reread
<1>8. ASSUME NEW c \in Calls, Remove(c) PROVE TypedInv'
  <2>1. CASE Store(c) /\ UNCHANGED attempt /\ Goto(c, "remove", "done")
    BY <1>0, <1>8, <2>1, StoreType, DiscardType
    DEF Remove, TypedInv, TypeOK, DocsBounded, WritersHaveDrafts, RoundsLeft
  <2>2. CASE StoredNothing /\ UNCHANGED attempt /\ Goto(c, "remove", "done")
    BY <1>0, <1>8, <2>2, DiscardType
    DEF Remove, TypedInv, TypeOK, DocsBounded, WritersHaveDrafts, RoundsLeft
  <2>3. CASE StoredNothing /\ NextRound(c, "remove", "reread", "done")
    BY <1>0, <1>8, <2>3, DiscardType
    DEF Remove, NextRound, TypedInv, TypeOK, DocsBounded, WritersHaveDrafts, RoundsLeft
  <2> QED
    BY <1>8, <2>1, <2>2, <2>3 DEF Remove
<1>9. ASSUME NEW c \in Calls, ReleaseFails(c) PROVE TypedInv'
  <2>1. CASE StoredNothing
    BY <1>0, <1>9, <2>1, DiscardType
    DEF ReleaseFails, TypedInv, TypeOK, DocsBounded, WritersHaveDrafts, RoundsLeft
  <2>2. CASE pc[c] = "remove" /\ Store(c)
    BY <1>0, <1>9, <2>2, StoreType, DiscardType
    DEF ReleaseFails, TypedInv, TypeOK, DocsBounded, WritersHaveDrafts, RoundsLeft
  <2> QED
    BY <1>9, <2>1, <2>2 DEF ReleaseFails
<1>10. CASE Expire
  BY <1>0, <1>10 DEF Expire, Changed, TypedInv, TypeOK, DocsBounded, WritersHaveDrafts, RoundsLeft
<1>11. CASE Tick
  BY <1>0, <1>11 DEF Tick, TypedInv, TypeOK, DocsBounded, WritersHaveDrafts, RoundsLeft
<1>12. CASE UNCHANGED vars
  BY <1>0, <1>12 DEF vars, TypedInv, TypeOK, DocsBounded, WritersHaveDrafts, RoundsLeft
<1> QED
  BY <1>1, <1>2, <1>3, <1>4, <1>5, <1>6, <1>7, <1>8, <1>9, <1>10, <1>11, <1>12
  DEF Next, Step

LEMMA Typed == Spec => []TypedInv
BY TypeInit, TypeStep, PTL DEF Spec

\* Every reachable state of the gate is well typed.
THEOREM TypeCorrect == Spec => []TypeOK
<1>1. TypedInv => TypeOK
  BY DEF TypedInv
<1> QED
  BY <1>1, Typed, PTL

-----------------------------------------------------------------------------
(* Lost rounds *)

\* A call whose draft no longer fits the document has seen a change that its
\* attempts do not count yet.
RoundsCounted ==
    \A c \in Calls :
        /\ attempt[c] <= changes[c]
        /\ pc[c] = "create" /\ doc # NoDoc => attempt[c] < changes[c]
        /\ pc[c] \in {"replace", "remove"} /\ (doc = NoDoc \/ etag # base[c])
               => attempt[c] < changes[c]

LEMMA ChangedCounts ==
  ASSUME TypedInv, RoundsCounted, Changed, NEW b \in Calls
  PROVE  /\ attempt[b] <= changes'[b]
         /\ pc[b] \in Acquiring \cup Releasing => attempt[b] < changes'[b]
BY LimitsAssumption DEF TypedInv, TypeOK, RoundsLeft, RoundsCounted, Changed

\* A round is lost only to a change that was counted after the round began.
LEMMA RoundsStep ==
  ASSUME TypedInv, TypedInv', RoundsCounted, [Next]_vars
  PROVE  RoundsCounted'
<1> USE LimitsAssumption
    DEF RoundsCounted, Goto, StoredNothing, ChargedNothing, TypedInv, TypeOK, Draft, Discard,
        NextRound
<1>0. \A b \in Calls : pc[b] \in {"create", "replace", "remove"} =>
                           pc[b] \in Acquiring \cup Releasing
  BY DEF Acquiring, Releasing
<1>1. ASSUME NEW c \in Calls, ReadClock(c) PROVE RoundsCounted'
  BY <1>1 DEF ReadClock
<1>2. ASSUME NEW c \in Calls, ReadDoc(c) PROVE RoundsCounted'
  BY <1>2 DEF ReadDoc
<1>3. ASSUME NEW c \in Calls, Create(c) PROVE RoundsCounted'
  <2>1. CASE StoredNothing
    BY <1>3, <2>1 DEF Create, Store
  <2>2. CASE Changed
    BY <1>0, <1>3, <2>2, ChangedCounts DEF Create
  <2> QED
    BY <1>3, <2>1, <2>2 DEF Create, Store
<1>4. ASSUME NEW c \in Calls, Replace(c) PROVE RoundsCounted'
  <2>1. CASE StoredNothing
    BY <1>4, <2>1 DEF Replace, Store
  <2>2. CASE Changed
    BY <1>0, <1>4, <2>2, ChangedCounts DEF Replace
  <2> QED
    BY <1>4, <2>1, <2>2 DEF Replace, Store
<1>5. ASSUME NEW c \in Calls, StoreFails(c) PROVE RoundsCounted'
  <2>1. CASE StoredNothing
    BY <1>5, <2>1 DEF StoreFails
  <2>2. CASE Changed
    BY <1>0, <1>5, <2>2, ChangedCounts DEF StoreFails
  <2> QED
    BY <1>5, <2>1, <2>2 DEF StoreFails, Store
<1>6. ASSUME NEW c \in Calls, Finish(c) PROVE RoundsCounted'
  BY <1>6 DEF Finish
<1>7. ASSUME NEW c \in Calls, Reread(c) PROVE RoundsCounted'
  BY <1>7 DEF Reread
<1>8. ASSUME NEW c \in Calls, Remove(c) PROVE RoundsCounted'
  <2>1. CASE StoredNothing
    BY <1>8, <2>1 DEF Remove, Store
  <2>2. CASE Changed
    BY <1>0, <1>8, <2>2, ChangedCounts DEF Remove
  <2> QED
    BY <1>8, <2>1, <2>2 DEF Remove, Store
<1>9. ASSUME NEW c \in Calls, ReleaseFails(c) PROVE RoundsCounted'
  <2>1. CASE StoredNothing
    BY <1>9, <2>1 DEF ReleaseFails
  <2>2. CASE Changed
    BY <1>0, <1>9, <2>2, ChangedCounts DEF ReleaseFails
  <2> QED
    BY <1>9, <2>1, <2>2 DEF ReleaseFails, Store
<1>10. CASE Expire
  BY <1>0, <1>10, ChangedCounts DEF Expire
<1>11. CASE Tick
  BY <1>11 DEF Tick
<1>12. CASE UNCHANGED vars
  BY <1>12 DEF vars
<1> QED
  BY <1>1, <1>2, <1>3, <1>4, <1>5, <1>6, <1>7, <1>8, <1>9, <1>10, <1>11, <1>12
  DEF Next, Step

\* No call gives up, and no release is deferred, without as many changes of the
\* document by others.
THEOREM RoundsAreChanges == Spec => []LostRoundsAreChanges
<1>1. Init => RoundsCounted
  BY LimitsAssumption DEF Init, RoundsCounted
<1>2. RoundsCounted => LostRoundsAreChanges
  BY DEF RoundsCounted, LostRoundsAreChanges
<1> QED
  BY <1>1, <1>2, RoundsStep, Typed, PTL DEF Spec

-----------------------------------------------------------------------------
(* What a call writes when it is admitted *)

\* Document n grants c its lease, remembers its id, and lasts long enough.
Grants(c, n) ==
    /\ Lease(c) \in n.leases
    /\ Recent(c) \in n.recent
    /\ IsFiniteSet(n.leases) /\ Cardinality(n.leases) <= MaxConcurrency
    /\ n.window = WindowOf(at[c])
    /\ n.window + WindowSeconds <= at[c] + n.ttl
    /\ \A e \in n.leases \cup n.recent : e.expires <= at[c] + n.ttl

\* A first document counts one request.
Opens(n) == n.count = 1 /\ n.budget = Cost

\* Compared with the document d that c read, n keeps every entry that had not
\* expired, and none of them has the id of c; it counts one request more, or the
\* first of another window.
Keeps(d, c, n) ==
    /\ \A e \in d.leases : e.expires > at[c] => e \in n.leases
    /\ \A e \in d.recent : e.expires > at[c] => e \in n.recent /\ e.id # IdOf[c]
    /\ n.count = UsedCount(d, c) + 1 /\ n.count <= MaxRequests
    /\ n.budget = UsedBudget(d, c) + Cost /\ n.budget <= MaxBudget

\* A new document grants its call what it asked for and counts it alone.
LEMMA NewDocumentGrants ==
  ASSUME TypedInv, NEW c \in Calls
  PROVE  Grants(c, NewDocument(c)) /\ Opens(NewDocument(c))
<1> DEFINE E == {Lease(c), Recent(c)}
<1>0. TypeOK
  BY DEF TypedInv
<1>1. E \subseteq Entries /\ Bounded(E)
  BY <1>0, OwnEntries DEF Bounded
<1>2. /\ RetentionEnd(c, E) \in Nat
      /\ RetentionEnd(c, E) >= WindowOf(at[c]) + WindowSeconds
      /\ \A e \in E : RetentionEnd(c, E) >= e.expires
  BY <1>0, <1>1, RetentionBounds
<1>3. at[c] \in Nat
  BY <1>0 DEF TypeOK
<1>4. IsFiniteSet({Lease(c)}) /\ Cardinality({Lease(c)}) = 1
  BY FS_Singleton
<1>5. at[c] + (RetentionEnd(c, E) - at[c]) = RetentionEnd(c, E)
  BY <1>2, <1>3
<1> HIDE DEF E
<1>6. /\ NewDocument(c).leases = {Lease(c)} /\ NewDocument(c).recent = {Recent(c)}
      /\ NewDocument(c).window = WindowOf(at[c])
      /\ NewDocument(c).ttl = RetentionEnd(c, E) - at[c]
  BY DEF NewDocument, E
<1>7. \A e \in {Lease(c)} \cup {Recent(c)} : e.expires <= RetentionEnd(c, E)
  BY <1>1, <1>2 DEF E, Entries
<1>8. WindowOf(at[c]) \in Nat
  BY <1>3, WindowBounds
<1>9. Opens(NewDocument(c))
  BY DEF Opens, NewDocument
<1> QED
  BY <1>2, <1>4, <1>5, <1>6, <1>7, <1>8, <1>9, LimitsAssumption DEF Grants

\* An admission into an existing document keeps everything that is alive.
LEMMA AdmittedGrants ==
  ASSUME TypedInv, NEW c \in Calls, doc # NoDoc, Admits(doc, c), IsFiniteSet(doc.leases)
  PROVE  Grants(c, Admitted(doc, c)) /\ Keeps(doc, c, Admitted(doc, c))
<1> DEFINE live == Unexpired(doc.leases, at[c])
           leases == live \cup {Lease(c)}
           recent == Unexpired(doc.recent, at[c]) \cup {Recent(c)}
           E == leases \cup recent
<1>0. TypeOK /\ BoundedDoc(doc)
  BY DEF TypedInv, DocsBounded
<1>1. E \subseteq Entries /\ Bounded(E)
  BY <1>0, OwnEntries DEF Bounded, BoundedDoc, Documents, Unexpired
<1>2. /\ RetentionEnd(c, E) \in Nat
      /\ RetentionEnd(c, E) >= WindowOf(at[c]) + WindowSeconds
      /\ \A e \in E : RetentionEnd(c, E) >= e.expires
  BY <1>0, <1>1, RetentionBounds
<1>3. at[c] \in Nat
  BY <1>0 DEF TypeOK
<1>4. at[c] + (RetentionEnd(c, E) - at[c]) = RetentionEnd(c, E)
  BY <1>2, <1>3
<1>5. IsFiniteSet(leases) /\ Cardinality(leases) <= MaxConcurrency
  <2>1. live \subseteq doc.leases
    BY DEF Unexpired
  <2>2. IsFiniteSet(live) /\ Cardinality(live) \in Nat
    BY <2>1, FS_Subset, FS_CardinalityType
  <2>3. Cardinality(live) < MaxConcurrency
    BY DEF Admits
  <2>4. IsFiniteSet(leases)
        /\ (Cardinality(leases) = Cardinality(live) \/ Cardinality(leases) = Cardinality(live) + 1)
    BY <2>2, FS_AddElement
  <2> QED
    BY <2>2, <2>3, <2>4, LimitsAssumption
<1>6. /\ Admitted(doc, c).leases = leases /\ Admitted(doc, c).recent = recent
      /\ Admitted(doc, c).window = WindowOf(at[c])
      /\ Admitted(doc, c).ttl = RetentionEnd(c, E) - at[c]
  BY DEF Admitted
<1>7. Keeps(doc, c, Admitted(doc, c))
  <2>1. /\ Admitted(doc, c).count = UsedCount(doc, c) + 1
        /\ Admitted(doc, c).budget = UsedBudget(doc, c) + Cost
    BY DEF Admitted
  <2>2. UsedCount(doc, c) \in Nat /\ UsedBudget(doc, c) \in Nat
    BY <1>0 DEF UsedCount, UsedBudget, BoundedDoc, Documents
  <2>3. UsedCount(doc, c) + 1 <= MaxRequests /\ UsedBudget(doc, c) + Cost <= MaxBudget
    BY <2>2, LimitsAssumption DEF Admits
  <2>4. /\ \A e \in doc.leases : e.expires > at[c] => e \in leases
        /\ \A e \in doc.recent : e.expires > at[c] => e \in recent /\ e.id # IdOf[c]
    BY DEF Admits, IsDuplicate, Unexpired
  <2> QED
    BY <1>6, <2>1, <2>3, <2>4 DEF Keeps
<1>8. Lease(c) \in leases /\ Recent(c) \in recent
  OBVIOUS
<1>9. WindowOf(at[c]) \in Nat
  BY <1>3, WindowBounds
<1>10. \A e \in leases \cup recent : e.expires <= RetentionEnd(c, E)
  BY <1>1, <1>2 DEF Entries
<1> HIDE DEF E, leases, recent
<1> QED
  BY <1>2, <1>4, <1>5, <1>6, <1>7, <1>8, <1>9, <1>10, LimitsAssumption DEF Grants

-----------------------------------------------------------------------------
(* What a step does to the document *)

\* A draft is what its call made of the document that still has the ETag it
\* read; a draft for a new document was made of nothing.
DraftsFollow ==
    /\ doc # NoDoc => IsFiniteSet(doc.leases) /\ Cardinality(doc.leases) <= MaxConcurrency
    /\ \A c \in Calls :
        /\ base[c] <= etag
        /\ pc[c] = "create" => Grants(c, draft[c]) /\ Opens(draft[c])
        /\ pc[c] = "replace" /\ doc # NoDoc /\ etag = base[c] =>
               Grants(c, draft[c]) /\ Keeps(doc, c, draft[c])
        /\ pc[c] = "remove" /\ doc # NoDoc /\ etag = base[c] =>
               draft[c] = Without(doc, c)

\* Nobody is admitted and the document stays as it is.
Quiet ==
    /\ UNCHANGED <<doc, etag, gone, charged, wrote, straddled>>
    /\ now' \in {now, now + 1}
    /\ ~outlived' => /\ ~outlived
                     /\ now' = now \/ \A c \in Calls :
                                          Unreleased(c) => now' < at[c] + DedupeSeconds

\* The write of c is accepted: it is admitted.
Admission(c) ==
    /\ pc[c] \in {"create", "replace"}
    /\ doc' = draft[c] /\ doc' # NoDoc /\ gone' = now + draft[c].ttl
    /\ Grants(c, draft[c])
    /\ doc = NoDoc => Opens(draft[c])
    /\ doc # NoDoc => Keeps(doc, c, draft[c])
    /\ Charge(c)
    /\ pc'[c] \notin Acquiring
    /\ UNCHANGED <<now, at>>

\* The lease of c is given back.
Removal(c) ==
    /\ pc[c] = "remove"
    /\ doc # NoDoc /\ doc' = Without(doc, c) /\ doc' # NoDoc
    /\ gone' = now + doc.ttl
    /\ UNCHANGED <<now, at, charged, wrote, straddled, outlived>>

\* The store deletes a document that has outlived its ttl.
Deletion ==
    /\ now >= gone
    /\ doc' = NoDoc
    /\ UNCHANGED <<now, at, charged, wrote, straddled, outlived>>

\* How one call's position may change: only the reader of a clock gets a new
\* reading, nobody goes back to acquiring, and who is unfinished was admitted.
Moves ==
    \A c \in Calls :
        /\ at'[c] = at[c] \/ (pc[c] = "clock" /\ at'[c] = now)
        /\ pc'[c] \in Acquiring => pc[c] \in Acquiring
        /\ Unreleased(c)' => Unreleased(c) \/ Admission(c)
        /\ pc'[c] = "running" => pc[c] = "running" \/ Admission(c)

Effect == Quiet \/ (\E c \in Calls : Admission(c)) \/ (\E c \in Calls : Removal(c)) \/ Deletion

\* A write the store accepts is an admission or a removal.
LEMMA AcceptedDraft ==
  ASSUME TypedInv, DraftsFollow, NEW c \in Calls, Store(c), Charge(c), UNCHANGED <<now, at>>,
         pc'[c] \notin Acquiring,
         \/ pc[c] = "create" /\ doc = NoDoc
         \/ pc[c] = "replace" /\ doc # NoDoc /\ etag = base[c]
  PROVE  Admission(c)
BY StoreType DEF DraftsFollow, Store, Admission

LEMMA AcceptedRemoval ==
  ASSUME TypedInv, DraftsFollow, NEW c \in Calls, Store(c), ChargedNothing, UNCHANGED <<now, at>>,
         pc[c] = "remove", doc # NoDoc, etag = base[c]
  PROVE  Removal(c)
<1>1. draft[c] = Without(doc, c) /\ draft[c].ttl = doc.ttl
  BY DEF DraftsFollow, Without, TypedInv, DocsBounded, BoundedDoc, Documents
<1> QED
  BY <1>1, StoreType DEF Store, ChargedNothing, Removal

\* Every action does one of the four things to the document.
LEMMA EffectStep ==
  ASSUME TypedInv, DraftsFollow, [Next]_vars
  PROVE  Effect /\ Moves
<1> USE DEF Goto, Unreleased, Acquiring, Releasing
<1>0. TypeOK /\ outlived \in BOOLEAN
  BY DEF TypedInv, TypeOK
<1>1. ASSUME NEW c \in Calls, ReadClock(c) PROVE Effect /\ Moves
  BY <1>0, <1>1 DEF TypeOK, ReadClock, StoredNothing, ChargedNothing, Effect, Quiet, Moves
<1>2. ASSUME NEW c \in Calls, ReadDoc(c) PROVE Effect /\ Moves
  BY <1>0, <1>2 DEF TypeOK, ReadDoc, StoredNothing, ChargedNothing, Effect, Quiet, Moves
<1>3. ASSUME NEW c \in Calls, Create(c) PROVE Effect /\ Moves
  <2>1. CASE StoredNothing /\ ChargedNothing /\ NextRound(c, "create", "clock", "error")
    BY <1>0, <1>3, <2>1
    DEF TypeOK, Create, NextRound, StoredNothing, ChargedNothing, Effect, Quiet, Moves
  <2>2. CASE doc = NoDoc /\ Store(c) /\ Charge(c) /\ Goto(c, "create", "running")
    <3>1. Admission(c)
      BY <1>0, <1>3, <2>2, AcceptedDraft DEF Create, TypeOK
    <3> QED
      BY <1>0, <1>3, <2>2, <3>1 DEF TypeOK, Create, Effect, Moves
  <2> QED
    BY <1>3, <2>1, <2>2 DEF Create
<1>4. ASSUME NEW c \in Calls, Replace(c) PROVE Effect /\ Moves
  <2>1. CASE StoredNothing /\ ChargedNothing /\ NextRound(c, "replace", "clock", "error")
    BY <1>0, <1>4, <2>1
    DEF TypeOK, Replace, NextRound, StoredNothing, ChargedNothing, Effect, Quiet, Moves
  <2>2. CASE /\ doc # NoDoc /\ etag = base[c]
             /\ Store(c) /\ Charge(c) /\ Goto(c, "replace", "running")
    <3>1. Admission(c)
      BY <1>0, <1>4, <2>2, AcceptedDraft DEF Replace, TypeOK
    <3> QED
      BY <1>0, <1>4, <2>2, <3>1 DEF TypeOK, Replace, Effect, Moves
  <2> QED
    BY <1>4, <2>1, <2>2 DEF Replace
<1>5. ASSUME NEW c \in Calls, StoreFails(c) PROVE Effect /\ Moves
  <2>0. Moves
    BY <1>0, <1>5 DEF TypeOK, StoreFails, Moves
  <2>1. CASE StoredNothing /\ ChargedNothing
    BY <1>0, <1>5, <2>0, <2>1 DEF StoreFails, StoredNothing, ChargedNothing, Effect, Quiet
  <2>2. CASE pc[c] = "create" /\ doc = NoDoc /\ Store(c) /\ Charge(c)
    BY <1>0, <1>5, <2>0, <2>2, AcceptedDraft DEF StoreFails, Effect, TypeOK
  <2>3. CASE pc[c] = "replace" /\ doc # NoDoc /\ etag = base[c] /\ Store(c) /\ Charge(c)
    BY <1>0, <1>5, <2>0, <2>3, AcceptedDraft DEF StoreFails, Effect, TypeOK
  <2> QED
    BY <1>5, <2>1, <2>2, <2>3 DEF StoreFails
<1>6. ASSUME NEW c \in Calls, Finish(c) PROVE Effect /\ Moves
  BY <1>0, <1>6 DEF TypeOK, Finish, ChargedNothing, Effect, Quiet, Moves
<1>7. ASSUME NEW c \in Calls, Reread(c) PROVE Effect /\ Moves
  BY <1>0, <1>7 DEF TypeOK, Reread, StoredNothing, ChargedNothing, Effect, Quiet, Moves
<1>8. ASSUME NEW c \in Calls, Remove(c) PROVE Effect /\ Moves
  <2>0. Moves
    BY <1>0, <1>8 DEF TypeOK, Remove, NextRound, Moves
  <2>1. CASE StoredNothing
    BY <1>0, <1>8, <2>0, <2>1 DEF Remove, StoredNothing, ChargedNothing, Effect, Quiet
  <2>2. CASE pc[c] = "remove" /\ doc # NoDoc /\ etag = base[c] /\ Store(c)
    BY <1>8, <2>0, <2>2, AcceptedRemoval DEF Remove, Effect
  <2> QED
    BY <1>8, <2>1, <2>2 DEF Remove
<1>9. ASSUME NEW c \in Calls, ReleaseFails(c) PROVE Effect /\ Moves
  <2>0. Moves
    BY <1>0, <1>9 DEF TypeOK, ReleaseFails, Moves
  <2>1. CASE StoredNothing
    BY <1>0, <1>9, <2>0, <2>1 DEF ReleaseFails, StoredNothing, ChargedNothing, Effect, Quiet
  <2>2. CASE pc[c] = "remove" /\ doc # NoDoc /\ etag = base[c] /\ Store(c)
    BY <1>9, <2>0, <2>2, AcceptedRemoval DEF ReleaseFails, Effect
  <2> QED
    BY <1>9, <2>1, <2>2 DEF ReleaseFails
<1>10. CASE Expire
  BY <1>10 DEF Expire, ChargedNothing, Effect, Deletion, Moves
<1>11. CASE Tick
  <2>1. \A c \in Calls : at[c] \in Nat /\ at[c] + DedupeSeconds \in Nat
    BY <1>0, LimitsAssumption, BoundsAssumption DEF TypeOK
  <2>2. now' \in Nat /\ outlived' \in BOOLEAN
    BY <1>0, <1>11, BoundsAssumption DEF TypeOK, Tick
  <2>3. ~outlived' => /\ ~outlived
                      /\ \A c \in Calls : Unreleased(c) => now' < at[c] + DedupeSeconds
    <3>1. ASSUME ~outlived', NEW c \in Calls, Unreleased(c)
          PROVE  ~(now' >= at[c] + DedupeSeconds)
      BY <1>11, <3>1, Zenon DEF Tick
    <3>2. ~outlived' => ~outlived
      BY <1>11, Zenon DEF Tick
    <3> HIDE DEF Unreleased
    <3> QED
      BY <2>1, <2>2, <3>1, <3>2
  <2> HIDE DEF Unreleased
  <2>4. Quiet
    BY <1>11, <2>3 DEF Tick, StoredNothing, Quiet
  <2>5. Moves
    BY <1>11 DEF Tick, Moves, Unreleased
  <2> QED
    BY <2>4, <2>5 DEF Effect
<1>12. CASE UNCHANGED vars
  BY <1>0, <1>12 DEF vars, Effect, Quiet, Moves
<1> QED
  BY <1>1, <1>2, <1>3, <1>4, <1>5, <1>6, <1>7, <1>8, <1>9, <1>10, <1>11, <1>12
  DEF Next, Step

\* A grant depends on the clock reading of its own call alone.
LEMMA GrantsStable ==
  ASSUME NEW c \in Calls, at'[c] = at[c], draft'[c] = draft[c], Grants(c, draft[c])
  PROVE  Grants(c, draft[c])'
BY DEF Grants, Lease, Recent, WindowOf

\* What a draft keeps depends on the document it was made of.
LEMMA KeepsStable ==
  ASSUME NEW c \in Calls, at'[c] = at[c], draft'[c] = draft[c], doc' = doc,
         Keeps(doc, c, draft[c])
  PROVE  Keeps(doc, c, draft[c])'
BY DEF Keeps, UsedCount, UsedBudget, WindowOf

\* A release leaves no more leases than there were.
LEMMA WithoutFinite ==
  ASSUME TypedInv, NEW c \in Calls, doc # NoDoc,
         IsFiniteSet(doc.leases), Cardinality(doc.leases) <= MaxConcurrency
  PROVE  /\ IsFiniteSet(Without(doc, c).leases)
         /\ Cardinality(Without(doc, c).leases) <= MaxConcurrency
<1>1. Without(doc, c).leases \subseteq doc.leases
  BY DEF Without, TypedInv, DocsBounded, BoundedDoc, Documents
<1>2. /\ IsFiniteSet(Without(doc, c).leases)
      /\ Cardinality(Without(doc, c).leases) <= Cardinality(doc.leases)
      /\ Cardinality(Without(doc, c).leases) \in Nat /\ Cardinality(doc.leases) \in Nat
  BY <1>1, FS_Subset, FS_CardinalityType
<1> QED
  BY <1>2, LimitsAssumption

\* A draft made before the ETag changed is never accepted, and a draft made of
\* nothing stays what it was.
LEMMA AfterChange ==
  ASSUME TypedInv, DraftsFollow, NEW c \in Calls,
         etag' = etag + 1, at' = at, Discard(c),
         \E to \in {"running", "error", "done"} : pc' = [pc EXCEPT ![c] = to],
         doc' # NoDoc => IsFiniteSet(doc'.leases) /\ Cardinality(doc'.leases) <= MaxConcurrency
  PROVE  DraftsFollow'
<1> USE DEF TypedInv, TypeOK, Discard
<1>1. \A b \in Calls : base'[b] \in Nat /\ base'[b] <= etag /\ etag' # base'[b] /\ base'[b] <= etag'
  BY DEF DraftsFollow
<1>2. ASSUME NEW b \in Calls, pc'[b] = "create" PROVE Grants(b, draft[b])' /\ Opens(draft[b])'
  <2>1. b # c /\ pc[b] = "create" /\ draft'[b] = draft[b] /\ at'[b] = at[b]
    BY <1>2
  <2> QED
    BY <2>1, GrantsStable DEF DraftsFollow, Opens
<1> QED
  BY <1>1, <1>2 DEF DraftsFollow

\* Nothing stored: who keeps his place and his draft keeps the relation.
LEMMA Unstored ==
  ASSUME TypedInv, DraftsFollow, NEW c \in Calls, UNCHANGED <<doc, etag>>,
         \A b \in Calls \ {c} : /\ pc'[b] = pc[b] /\ at'[b] = at[b]
                                /\ draft'[b] = draft[b] /\ base'[b] = base[b],
         pc'[c] \notin {"create", "replace", "remove"},
         base'[c] \in {0, base[c]}
  PROVE  DraftsFollow'
<1>1. ASSUME NEW b \in Calls PROVE base'[b] <= etag'
  BY DEF DraftsFollow, TypedInv, TypeOK
<1>2. ASSUME NEW b \in Calls, pc'[b] = "create" PROVE Grants(b, draft[b])' /\ Opens(draft[b])'
  BY <1>2, GrantsStable DEF DraftsFollow, Opens
<1>3. ASSUME NEW b \in Calls, pc'[b] = "replace", doc' # NoDoc, etag' = base'[b]
      PROVE  Grants(b, draft[b])' /\ Keeps(doc, b, draft[b])'
  BY <1>3, GrantsStable, KeepsStable DEF DraftsFollow
<1>4. ASSUME NEW b \in Calls, pc'[b] = "remove", doc' # NoDoc, etag' = base'[b]
      PROVE  (draft[b] = Without(doc, b))'
  BY <1>4 DEF DraftsFollow, Without
<1>5. doc' # NoDoc => IsFiniteSet(doc'.leases) /\ Cardinality(doc'.leases) <= MaxConcurrency
  BY DEF DraftsFollow
<1> QED
  BY <1>1, <1>2, <1>3, <1>4, <1>5 DEF DraftsFollow

\* Every action keeps drafts and the document they were made of together.
LEMMA DraftsStep ==
  ASSUME TypedInv, DraftsFollow, [Next]_vars
  PROVE  DraftsFollow'
<1> USE DEF Goto, StoredNothing, ChargedNothing
<1>0. TypeOK
  BY DEF TypedInv
<1>1. ASSUME NEW c \in Calls, ReadClock(c) PROVE DraftsFollow'
  BY <1>0, <1>1, Unstored DEF ReadClock, TypeOK
<1>2. ASSUME NEW c \in Calls, ReadDoc(c) PROVE DraftsFollow'
  <2>1. CASE Goto(c, "read", "denied") /\ UNCHANGED <<draft, base>>
    BY <1>0, <1>2, <2>1, Unstored DEF ReadDoc, TypeOK
  <2>2. CASE doc = NoDoc /\ Goto(c, "read", "create") /\ Draft(c, NewDocument(c))
    <3>1. draft'[c] = NewDocument(c) /\ base'[c] = etag /\ pc'[c] = "create"
      BY <1>0, <2>2 DEF Draft, TypeOK
    <3>2. Grants(c, draft[c])' /\ Opens(draft[c])'
      BY <1>2, <3>1, NewDocumentGrants DEF ReadDoc, Grants, Opens, Lease, Recent, WindowOf
    <3>3. \A b \in Calls \ {c} : pc'[b] = pc[b] /\ draft'[b] = draft[b] /\ base'[b] = base[b]
      BY <1>0, <2>2 DEF Draft, TypeOK
    <3>4. \A b \in Calls : pc'[b] = "create" => Grants(b, draft[b])' /\ Opens(draft[b])'
      BY <1>2, <3>2, <3>3, GrantsStable DEF ReadDoc, DraftsFollow, Opens
    <3>5. \A b \in Calls : base'[b] <= etag'
      BY <1>0, <1>2, <3>1, <3>3 DEF ReadDoc, DraftsFollow, TypeOK
    <3> QED
      BY <1>2, <2>2, <3>1, <3>3, <3>4, <3>5 DEF ReadDoc, DraftsFollow
  <2>3. CASE /\ doc # NoDoc /\ Admits(doc, c)
             /\ Goto(c, "read", "replace") /\ Draft(c, Admitted(doc, c))
    <3>1. draft'[c] = Admitted(doc, c) /\ base'[c] = etag /\ pc'[c] = "replace"
      BY <1>0, <2>3 DEF Draft, TypeOK
    <3>2. Grants(c, Admitted(doc, c)) /\ Keeps(doc, c, Admitted(doc, c))
      BY <2>3, AdmittedGrants DEF DraftsFollow
    <3>3. Grants(c, draft[c])' /\ Keeps(doc, c, draft[c])'
      BY <1>2, <3>1, <3>2 DEF ReadDoc, Grants, Keeps, UsedCount, UsedBudget, Lease, Recent, WindowOf
    <3>4. \A b \in Calls \ {c} : pc'[b] = pc[b] /\ draft'[b] = draft[b] /\ base'[b] = base[b]
      BY <1>0, <2>3 DEF Draft, TypeOK
    <3>5. \A b \in Calls : pc'[b] = "create" => Grants(b, draft[b])' /\ Opens(draft[b])'
      BY <1>2, <3>1, <3>4, GrantsStable DEF ReadDoc, DraftsFollow, Opens
    <3>6. \A b \in Calls : pc'[b] = "replace" /\ doc' # NoDoc /\ etag' = base'[b] =>
              Grants(b, draft[b])' /\ Keeps(doc, b, draft[b])'
      BY <1>2, <3>3, <3>4, GrantsStable, KeepsStable DEF ReadDoc, DraftsFollow
    <3>7. \A b \in Calls : base'[b] <= etag'
      BY <1>0, <1>2, <3>1, <3>4 DEF ReadDoc, DraftsFollow, TypeOK
    <3>8. \A b \in Calls : pc'[b] = "remove" /\ doc' # NoDoc /\ etag' = base'[b] =>
              (draft[b] = Without(doc, b))'
      BY <1>2, <3>1, <3>4 DEF ReadDoc, DraftsFollow, Without
    <3> QED
      BY <1>2, <3>5, <3>6, <3>7, <3>8 DEF ReadDoc, DraftsFollow
  <2> QED
    BY <1>2, <2>1, <2>2, <2>3 DEF ReadDoc
<1>3. ASSUME NEW c \in Calls, Create(c) PROVE DraftsFollow'
  <2>1. CASE StoredNothing /\ NextRound(c, "create", "clock", "error")
    BY <1>0, <1>3, <2>1, Unstored DEF Create, NextRound, Discard, TypeOK
  <2>2. CASE doc = NoDoc /\ Store(c) /\ Charge(c) /\ Goto(c, "create", "running")
    <3>1. Grants(c, draft[c])
      BY <2>2 DEF DraftsFollow
    <3> QED
      BY <1>3, <2>2, <3>1, AfterChange DEF Create, Store, Grants
  <2> QED
    BY <1>3, <2>1, <2>2 DEF Create
<1>4. ASSUME NEW c \in Calls, Replace(c) PROVE DraftsFollow'
  <2>1. CASE StoredNothing /\ NextRound(c, "replace", "clock", "error")
    BY <1>0, <1>4, <2>1, Unstored DEF Replace, NextRound, Discard, TypeOK
  <2>2. CASE doc # NoDoc /\ etag = base[c] /\ Store(c) /\ Goto(c, "replace", "running")
    <3>1. Grants(c, draft[c])
      BY <2>2 DEF DraftsFollow
    <3> QED
      BY <1>4, <2>2, <3>1, AfterChange DEF Replace, Store, Grants
  <2> QED
    BY <1>4, <2>1, <2>2 DEF Replace
<1>5. ASSUME NEW c \in Calls, StoreFails(c) PROVE DraftsFollow'
  <2>1. CASE StoredNothing
    BY <1>0, <1>5, <2>1, Unstored DEF StoreFails, Discard, TypeOK
  <2>2. CASE /\ \/ pc[c] = "create"
                \/ pc[c] = "replace" /\ doc # NoDoc /\ etag = base[c]
             /\ Store(c)
    <3>1. Grants(c, draft[c])
      BY <2>2 DEF DraftsFollow
    <3> QED
      BY <1>5, <2>2, <3>1, AfterChange DEF StoreFails, Store, Grants
  <2> QED
    BY <1>5, <2>1, <2>2 DEF StoreFails
<1>6. ASSUME NEW c \in Calls, Finish(c) PROVE DraftsFollow'
  BY <1>0, <1>6, Unstored DEF Finish, TypeOK
<1>7. ASSUME NEW c \in Calls, Reread(c) PROVE DraftsFollow'
  <2>1. CASE Goto(c, "reread", "done") /\ UNCHANGED <<draft, base>>
    BY <1>0, <1>7, <2>1, Unstored DEF Reread, TypeOK
  <2>2. CASE doc # NoDoc /\ Goto(c, "reread", "remove") /\ Draft(c, Without(doc, c))
    <3>1. draft'[c] = Without(doc, c) /\ base'[c] = etag /\ pc'[c] = "remove"
      BY <1>0, <2>2 DEF Draft, TypeOK
    <3>4. \A b \in Calls \ {c} : pc'[b] = pc[b] /\ draft'[b] = draft[b] /\ base'[b] = base[b]
      BY <1>0, <2>2 DEF Draft, TypeOK
    <3>5. \A b \in Calls : pc'[b] = "create" => Grants(b, draft[b])' /\ Opens(draft[b])'
      BY <1>7, <3>1, <3>4, GrantsStable DEF Reread, DraftsFollow, Opens
    <3>6. \A b \in Calls : pc'[b] = "replace" /\ doc' # NoDoc /\ etag' = base'[b] =>
              Grants(b, draft[b])' /\ Keeps(doc, b, draft[b])'
      BY <1>7, <3>1, <3>4, GrantsStable, KeepsStable DEF Reread, DraftsFollow
    <3>7. \A b \in Calls : base'[b] <= etag'
      BY <1>0, <1>7, <3>1, <3>4 DEF Reread, DraftsFollow, TypeOK
    <3>8. ASSUME NEW b \in Calls, pc'[b] = "remove", doc' # NoDoc, etag' = base'[b]
          PROVE  (draft[b] = Without(doc, b))'
      <4>1. doc' = doc /\ etag' = etag
        BY <1>7 DEF Reread
      <4>2. CASE b = c
        BY <3>1, <4>1, <4>2 DEF Without
      <4>3. CASE b # c
        BY <3>4, <3>8, <4>1, <4>3 DEF DraftsFollow, Without
      <4> QED
        BY <4>2, <4>3
    <3> QED
      BY <1>7, <3>5, <3>6, <3>7, <3>8 DEF Reread, DraftsFollow
  <2> QED
    BY <1>7, <2>1, <2>2 DEF Reread
<1>8. ASSUME NEW c \in Calls, Remove(c) PROVE DraftsFollow'
  <2>1. CASE StoredNothing
    BY <1>0, <1>8, <2>1, Unstored DEF Remove, NextRound, Discard, TypeOK
  <2>2. CASE doc # NoDoc /\ etag = base[c] /\ Goto(c, "remove", "done") /\ Store(c)
    <3>1. doc' = Without(doc, c)
      BY <2>2 DEF DraftsFollow, Store
    <3>2. IsFiniteSet(doc'.leases) /\ Cardinality(doc'.leases) <= MaxConcurrency
      BY <2>2, <3>1, WithoutFinite DEF DraftsFollow
    <3> QED
      BY <1>8, <2>2, <3>2, AfterChange DEF Remove, Store
  <2> QED
    BY <1>8, <2>1, <2>2 DEF Remove
<1>9. ASSUME NEW c \in Calls, ReleaseFails(c) PROVE DraftsFollow'
  <2>1. CASE StoredNothing
    BY <1>0, <1>9, <2>1, Unstored DEF ReleaseFails, Discard, TypeOK
  <2>2. CASE pc[c] = "remove" /\ doc # NoDoc /\ etag = base[c] /\ Store(c)
    <3>1. doc' = Without(doc, c)
      BY <2>2 DEF DraftsFollow, Store
    <3>2. IsFiniteSet(doc'.leases) /\ Cardinality(doc'.leases) <= MaxConcurrency
      BY <2>2, <3>1, WithoutFinite DEF DraftsFollow
    <3> QED
      BY <1>9, <2>2, <3>2, AfterChange DEF ReleaseFails, Store
  <2> QED
    BY <1>9, <2>1, <2>2 DEF ReleaseFails
<1>10. CASE Expire
  <2>1. \A b \in Calls : pc'[b] = "create" => Grants(b, draft[b])' /\ Opens(draft[b])'
    BY <1>10, GrantsStable DEF Expire, DraftsFollow, Opens
  <2>2. \A b \in Calls : base'[b] <= etag'
    BY <1>0, <1>10 DEF Expire, DraftsFollow, TypeOK
  <2> QED
    BY <1>10, <2>1, <2>2 DEF Expire, DraftsFollow
<1>11. CASE Tick
  BY <1>11 DEF Tick, DraftsFollow, Grants, Opens, Keeps, UsedCount, UsedBudget, Without,
               Lease, Recent, WindowOf
<1>12. CASE UNCHANGED vars
  BY <1>12 DEF vars, DraftsFollow, Grants, Opens, Keeps, UsedCount, UsedBudget, Without,
               Lease, Recent, WindowOf
<1> QED
  BY <1>1, <1>2, <1>3, <1>4, <1>5, <1>6, <1>7, <1>8, <1>9, <1>10, <1>11, <1>12
  DEF Next, Step

\* What holds while drafts follow the document, in every reachable state.
LEMMA Followed == Spec => [](TypedInv /\ DraftsFollow)
<1>1. Init => DraftsFollow
  BY DEF Init, DraftsFollow
<1> QED
  BY <1>1, DraftsStep, Typed, PTL DEF Spec

-----------------------------------------------------------------------------
(* What the document remembers *)

\* A clock reading is not in the future, who was counted was counted later than
\* he read the clock and acquires no more, and who runs was counted.
PastReadings ==
    \A c \in Calls :
        /\ at[c] <= now
        /\ c \in charged => pc[c] \notin Acquiring /\ at[c] <= wrote[c] /\ wrote[c] <= now
        /\ Unreleased(c) => c \in charged

\* The document stays until its window has ended and its entries have expired.
Lasting ==
    doc # NoDoc =>
        /\ gone <= now + doc.ttl
        /\ doc.window + WindowSeconds <= gone
        /\ \A e \in doc.leases \cup doc.recent : e.expires <= gone

\* The id of a counted call is in the document until its entry expires.
Remembered ==
    \A c \in charged :
        now < at[c] + DedupeSeconds => doc # NoDoc /\ Recent(c) \in doc.recent

RecallInv == PastReadings /\ Lasting /\ Remembered /\ CountedOncePerId

\* The numbers the leaves below compare.
Numbers ==
    /\ now \in Nat /\ now' \in Nat /\ now <= now' /\ gone \in Nat /\ gone' \in Nat
    /\ \A c \in Calls : at[c] \in Nat /\ at'[c] \in Nat /\ wrote[c] \in Nat /\ wrote'[c] \in Nat
    /\ doc # NoDoc => doc.ttl \in Nat /\ doc.window \in Nat
                      /\ \A e \in doc.leases \cup doc.recent : e.expires \in Nat
    /\ doc' # NoDoc => doc'.ttl \in Nat /\ doc'.window \in Nat
                       /\ \A e \in doc'.leases \cup doc'.recent : e.expires \in Nat

\* All these are numbers, and time does not run backwards.
LEMMA NumbersHere ==
  ASSUME TypedInv, TypedInv', Effect
  PROVE  Numbers
<1>1. now \in Nat /\ now' \in Nat /\ gone \in Nat /\ gone' \in Nat
  BY BoundsAssumption DEF TypedInv, TypeOK
<1>2. now <= now'
  BY <1>1 DEF Effect, Quiet, Admission, Removal, Deletion
<1>3. \A c \in Calls : at[c] \in Nat /\ at'[c] \in Nat /\ wrote[c] \in Nat /\ wrote'[c] \in Nat
  BY BoundsAssumption DEF TypedInv, TypeOK
<1>4. doc # NoDoc => doc.ttl \in Nat /\ doc.window \in Nat
                     /\ \A e \in doc.leases \cup doc.recent : e.expires \in Nat
  BY DEF TypedInv, TypeOK, Documents, Entries
<1>5. doc' # NoDoc => doc'.ttl \in Nat /\ doc'.window \in Nat
                      /\ \A e \in doc'.leases \cup doc'.recent : e.expires \in Nat
  BY DEF TypedInv, TypeOK, Documents, Entries
<1> QED
  BY <1>1, <1>2, <1>3, <1>4, <1>5 DEF Numbers

\* Nobody reads the clock again after he was counted.
LEMMA PastReadingsStep ==
  ASSUME TypedInv, TypedInv', Numbers, PastReadings, Effect, Moves
  PROVE  PastReadings'
<1>0. \A c \in Calls : Admission(c) => c \in charged'
  BY DEF Admission, Charge
<1>1. ASSUME NEW c \in Calls PROVE at'[c] <= now'
  BY <1>1 DEF Numbers, PastReadings, Moves
<1>2. ASSUME NEW c \in Calls, c \in charged
      PROVE  at'[c] = at[c] /\ pc'[c] \notin Acquiring
  BY <1>2 DEF PastReadings, Moves, Acquiring
<1>3. charged \subseteq charged'
  BY DEF Effect, Quiet, Admission, Charge, Removal, Deletion
<1>4. ASSUME NEW c \in Calls, Unreleased(c)' PROVE c \in charged'
  BY <1>0, <1>3, <1>4 DEF PastReadings, Moves
<1>5. ASSUME NEW c \in Calls, c \in charged'
      PROVE  pc'[c] \notin Acquiring /\ at'[c] <= wrote'[c] /\ wrote'[c] <= now'
  <2>1. CASE UNCHANGED <<charged, wrote>>
    BY <1>2, <1>5, <2>1 DEF PastReadings, Numbers
  <2>2. ASSUME NEW b \in Calls, Admission(b)
        PROVE  pc'[c] \notin Acquiring /\ at'[c] <= wrote'[c] /\ wrote'[c] <= now'
    <3>1. charged' = charged \cup {b} /\ wrote' = [wrote EXCEPT ![b] = now]
          /\ pc'[b] \notin Acquiring /\ now' = now /\ at' = at
      BY <2>2 DEF Admission, Charge
    <3>2. wrote \in [Calls -> 0 .. MaxTime]
      BY DEF TypedInv, TypeOK
    <3>3. CASE c = b
      BY <3>1, <3>2, <3>3 DEF PastReadings, Numbers
    <3>4. CASE c # b
      BY <1>2, <1>5, <3>1, <3>2, <3>4 DEF PastReadings
    <3> QED
      BY <3>3, <3>4
  <2> QED
    BY <2>1, <2>2 DEF Effect, Quiet, Removal, Deletion
<1> QED
  BY <1>1, <1>4, <1>5 DEF PastReadings

\* No write shortens the life of the document below what it remembers.
LEMMA LastingStep ==
  ASSUME TypedInv, Numbers, PastReadings, Lasting, Effect
  PROVE  Lasting'
<1>1. CASE Quiet
  BY <1>1 DEF Numbers, Lasting, Quiet
<1>2. ASSUME NEW c \in Calls, Admission(c) PROVE Lasting'
  <2>1. at[c] <= now /\ at[c] \in Nat
    BY DEF PastReadings, Numbers
  <2>2. /\ gone' = now + doc'.ttl /\ now' = now
        /\ doc'.window + WindowSeconds <= at[c] + doc'.ttl
        /\ \A e \in doc'.leases \cup doc'.recent : e.expires <= at[c] + doc'.ttl
    BY <1>2 DEF Admission, Grants
  <2>3. /\ doc' # NoDoc /\ doc'.ttl \in Nat /\ doc'.window \in Nat
        /\ \A e \in doc'.leases \cup doc'.recent : e.expires \in Nat
    BY <1>2 DEF Numbers, Admission
  <2> QED
    BY <2>1, <2>2, <2>3, LimitsAssumption DEF Numbers, Lasting
<1>3. ASSUME NEW c \in Calls, Removal(c) PROVE Lasting'
  <2>1. /\ doc'.ttl = doc.ttl /\ doc'.window = doc.window /\ doc'.recent = doc.recent
        /\ doc'.leases \subseteq doc.leases
        /\ gone' = now + doc.ttl /\ now' = now /\ doc # NoDoc
    BY <1>3 DEF Removal, Without, TypedInv, DocsBounded, BoundedDoc, Documents
  <2>2. gone <= gone'
    BY <2>1 DEF Lasting
  <2>3. doc.window + WindowSeconds \in Nat
    BY <2>1, LimitsAssumption DEF Numbers
  <2> QED
    BY <2>1, <2>2, <2>3 DEF Lasting, Numbers
<1>4. CASE Deletion
  BY <1>4 DEF Deletion, Lasting
<1> QED
  BY <1>1, <1>2, <1>3, <1>4 DEF Effect

\* Who was counted reads the clock no more: his entry is the one he wrote.
LEMMA SameEntry ==
  ASSUME PastReadings, Moves, NEW c \in charged, c \in Calls
  PROVE  at'[c] = at[c] /\ Recent(c)' = Recent(c) /\ Lease(c)' = Lease(c)
BY DEF PastReadings, Moves, Acquiring, Recent, Lease

\* No accepted write and no deletion forgets a live id.
LEMMA RememberedStep ==
  ASSUME TypedInv, Numbers, PastReadings, Lasting, Remembered, Effect, Moves
  PROVE  Remembered'
<1>0. charged \subseteq Calls
  BY DEF TypedInv, TypeOK
<1>1. ASSUME NEW c \in charged, now' < at'[c] + DedupeSeconds
      PROVE  /\ at'[c] = at[c] /\ Recent(c)' = Recent(c)
             /\ now < at[c] + DedupeSeconds
             /\ doc # NoDoc /\ Recent(c) \in doc.recent
             /\ Recent(c).expires = at[c] + DedupeSeconds
  <2>1. at'[c] = at[c] /\ Recent(c)' = Recent(c) /\ at[c] + DedupeSeconds \in Nat
    BY <1>0, SameEntry, LimitsAssumption DEF Numbers
  <2>2. now < at[c] + DedupeSeconds
    BY <1>1, <2>1 DEF Numbers
  <2> QED
    BY <2>1, <2>2 DEF Remembered, Recent
<1>2. CASE Quiet
  BY <1>1, <1>2 DEF Quiet, Remembered
<1>3. ASSUME NEW b \in Calls, Admission(b) PROVE Remembered'
  <2>1. doc' = draft[b] /\ doc' # NoDoc /\ Recent(b) \in doc'.recent /\ Recent(b)' = Recent(b)
        /\ charged' = charged \cup {b}
    BY <1>3 DEF Admission, Grants, Charge, Recent
  <2>2. ASSUME NEW c \in charged, now' < at'[c] + DedupeSeconds
        PROVE  Recent(c)' \in doc'.recent
    <3>1. Recent(c).expires > at[b]
      BY <1>0, <1>1, <2>2 DEF PastReadings, Numbers
    <3> QED
      BY <1>1, <1>3, <2>1, <2>2, <3>1 DEF Admission, Keeps
  <2> QED
    BY <2>1, <2>2 DEF Remembered
<1>4. ASSUME NEW b \in Calls, Removal(b) PROVE Remembered'
  <2>1. charged' = charged /\ doc' # NoDoc /\ doc'.recent = doc.recent
    BY <1>4 DEF Removal, Without, TypedInv, DocsBounded, BoundedDoc, Documents
  <2> QED
    BY <1>1, <2>1 DEF Remembered
<1>5. CASE Deletion
  <2>1. ASSUME NEW c \in charged, now' < at'[c] + DedupeSeconds PROVE FALSE
    <3>1. Recent(c).expires <= gone /\ now >= gone
      BY <1>1, <1>5, <2>1 DEF Lasting, Deletion
    <3> QED
      BY <1>0, <1>1, <2>1, <3>1, LimitsAssumption DEF Numbers
  <2> QED
    BY <1>5, <2>1 DEF Deletion, Remembered
<1> QED
  BY <1>2, <1>3, <1>4, <1>5 DEF Effect

\* The one who is admitted has an id that no live entry has.
LEMMA CountedOnceStep ==
  ASSUME TypedInv, Numbers, PastReadings, Remembered, CountedOncePerId, Effect, Moves
  PROVE  CountedOncePerId'
<1>0. charged \subseteq Calls
  BY DEF TypedInv, TypeOK
<1>1. \A c \in charged : at'[c] = at[c]
  BY <1>0, SameEntry
<1>2. CASE UNCHANGED <<charged, wrote>>
  BY <1>1, <1>2 DEF CountedOncePerId
<1>3. ASSUME NEW c \in Calls, Admission(c) PROVE CountedOncePerId'
  <2>1. /\ charged' = charged \cup {c} /\ at' = at
        /\ wrote'[c] = now /\ \A b \in Calls \ {c} : wrote'[b] = wrote[b]
    BY <1>3 DEF Admission, Charge, TypedInv, TypeOK
  <2>2. c \notin charged
    BY <1>3 DEF Admission, PastReadings, Acquiring
  <2>3. ASSUME NEW b \in charged, IdOf[b] = IdOf[c] PROVE wrote'[c] >= at'[b] + DedupeSeconds
    <3> SUFFICES ASSUME now < at[b] + DedupeSeconds PROVE FALSE
      BY <1>0, <2>1, LimitsAssumption DEF Numbers
    <3>1. /\ doc # NoDoc /\ Recent(b) \in doc.recent
          /\ Recent(b).expires = at[b] + DedupeSeconds /\ Recent(b).id = IdOf[b]
      BY DEF Remembered, Recent
    <3>2. Recent(b).expires > at[c]
      BY <1>0, <3>1, LimitsAssumption DEF PastReadings, Numbers
    <3> QED
      BY <1>3, <2>3, <3>1, <3>2 DEF Admission, Keeps
  <2> QED
    BY <1>0, <2>1, <2>2, <2>3 DEF CountedOncePerId
<1> QED
  BY <1>2, <1>3 DEF Effect, Quiet, Removal, Deletion

\* The four effects keep the whole of RecallInv.
LEMMA RecallStep ==
  ASSUME TypedInv, TypedInv', DraftsFollow, RecallInv, [Next]_vars
  PROVE  RecallInv' /\ Numbers /\ Effect /\ Moves
<1>1. Effect /\ Moves /\ Numbers
  BY EffectStep, NumbersHere
<1> QED
  BY <1>1, PastReadingsStep, LastingStep, RememberedStep, CountedOnceStep DEF RecallInv

LEMMA Recalled == Spec => [](TypedInv /\ DraftsFollow /\ RecallInv)
<1>1. Init => RecallInv
  BY DEF Init, RecallInv, PastReadings, Lasting, Remembered, CountedOncePerId, Unreleased, Releasing
<1> QED
  BY <1>1, RecallStep, Followed, PTL DEF Spec

\* A request id is counted once per dedupe interval, however the reads and
\* writes of its retries interleave, and whichever answers of the store are lost.
THEOREM IdsCountedOnce == Spec => []CountedOncePerId
<1>1. RecallInv => CountedOncePerId
  BY DEF RecallInv
<1> QED
  BY <1>1, Recalled, PTL

-----------------------------------------------------------------------------
(* Concurrency *)

\* While nobody has outlived his request id, every unfinished call's id is still
\* remembered, and the lease of every leased call is in the document.
LeasesHeld ==
    ~outlived =>
        /\ \A c \in Calls : Unreleased(c) => now < at[c] + DedupeSeconds
        /\ \A c \in Calls : Leased(c) => doc # NoDoc /\ Lease(c) \in doc.leases

\* Two unfinished calls whose ids are remembered have different ids.
LEMMA DistinctIds ==
  ASSUME TypedInv, PastReadings, CountedOncePerId,
         NEW b \in Calls, NEW c \in Calls, b # c, b \in charged, c \in charged,
         now < at[b] + DedupeSeconds, now < at[c] + DedupeSeconds
  PROVE  IdOf[b] # IdOf[c]
<1>1. /\ wrote[b] \in Nat /\ wrote[c] \in Nat /\ now \in Nat /\ at[b] \in Nat /\ at[c] \in Nat
      /\ wrote[b] <= now /\ wrote[c] <= now
  BY BoundsAssumption DEF TypedInv, TypeOK, PastReadings
<1>2. ~(wrote[b] >= at[c] + DedupeSeconds) /\ ~(wrote[c] >= at[b] + DedupeSeconds)
  BY <1>1, LimitsAssumption
<1> QED
  BY <1>2 DEF CountedOncePerId

\* No accepted write and no deletion takes a live lease but its own.
LEMMA LeasesHeldStep ==
  ASSUME TypedInv, Numbers, RecallInv, PastReadings', LeasesHeld, Effect, Moves
  PROVE  LeasesHeld'
<1> SUFFICES ASSUME ~outlived' PROVE LeasesHeld'
  BY DEF LeasesHeld
<1>0. PastReadings /\ Lasting /\ CountedOncePerId /\ charged \subseteq Calls
  BY DEF RecallInv, TypedInv, TypeOK
<1>1. ~outlived
  <2>1. CASE Quiet
    BY <2>1 DEF Quiet
  <2>2. ASSUME NEW c \in Calls, Admission(c) PROVE ~outlived
    BY <2>2, Zenon DEF Admission, Charge
  <2>3. ASSUME NEW c \in Calls, Removal(c) PROVE ~outlived
    BY <2>3, Zenon DEF Removal
  <2>4. CASE Deletion
    BY <2>4, Zenon DEF Deletion
  <2> QED
    BY <2>1, <2>2, <2>3, <2>4, Zenon DEF Effect
<1>2. \A c \in Calls : Unreleased(c) => now < at[c] + DedupeSeconds
  BY <1>1 DEF LeasesHeld
<1>3. ASSUME NEW c \in Calls, Admission(c) PROVE now' = now /\ at'[c] = at[c] /\ now < at[c] + DedupeSeconds
  <2>1. ~(now >= at[c] + DedupeSeconds)
    BY <1>3, Zenon DEF Admission, Charge
  <2> QED
    BY <1>3, <2>1, LimitsAssumption DEF Numbers, Admission
<1>4. ASSUME NEW c \in Calls, Unreleased(c)' PROVE now' < at'[c] + DedupeSeconds
  <2>1. CASE Admission(c)
    BY <1>3, <2>1
  <2>2. CASE Unreleased(c)
    <3>1. at'[c] = at[c]
      BY <1>0, <2>2, SameEntry DEF PastReadings
    <3>2. now' < at[c] + DedupeSeconds
      BY <1>2, <2>2 DEF Effect, Quiet, Admission, Removal, Deletion
    <3> QED
      BY <3>1, <3>2
  <2> QED
    BY <1>4, <2>1, <2>2 DEF Moves
<1>5. ASSUME NEW c \in Calls, Leased(c)' PROVE doc' # NoDoc /\ Lease(c)' \in doc'.leases
  <2>1. CASE Admission(c)
    <3>1. doc' # NoDoc /\ Lease(c) \in doc'.leases
      BY <2>1 DEF Admission, Grants
    <3> QED
      BY <2>1, <3>1 DEF Admission, Lease
  <2>2. CASE pc[c] = "running"
    <3>1. Unreleased(c) /\ c \in charged
      BY <1>0, <2>2 DEF PastReadings, Unreleased
    <3>2. at'[c] = at[c] /\ Lease(c)' = Lease(c)
      BY <1>0, <3>1, SameEntry
    <3>3. now' < at[c] + LeaseSeconds
      BY <1>5, <3>2 DEF Leased
    <3>4. now < at[c] + LeaseSeconds
      BY <3>3, LimitsAssumption DEF Numbers
    <3>5. /\ doc # NoDoc /\ Lease(c) \in doc.leases
          /\ Lease(c).expires = at[c] + LeaseSeconds /\ Lease(c).id = IdOf[c]
      BY <1>1, <2>2, <3>4 DEF LeasesHeld, Leased, Lease
    <3>6. CASE Quiet
      BY <3>2, <3>5, <3>6 DEF Quiet
    <3>7. ASSUME NEW b \in Calls, Admission(b) PROVE doc' # NoDoc /\ Lease(c) \in doc'.leases
      <4>1. Lease(c).expires > at[b]
        BY <1>0, <3>4, <3>5, LimitsAssumption DEF PastReadings, Numbers
      <4> QED
        BY <3>5, <3>7, <4>1 DEF Admission, Keeps
    <3>8. ASSUME NEW b \in Calls, Removal(b) PROVE doc' # NoDoc /\ Lease(c) \in doc'.leases
      <4>1. Unreleased(b) /\ b \in charged /\ b # c
        BY <1>0, <2>2, <3>8 DEF Removal, PastReadings, Unreleased, Releasing
      <4>2. IdOf[c] # IdOf[b]
        BY <1>0, <1>2, <3>1, <4>1, DistinctIds
      <4> QED
        BY <3>5, <3>8, <4>2 DEF Removal, Without, TypedInv, DocsBounded, BoundedDoc, Documents
    <3>9. CASE Deletion
      <4>1. Lease(c).expires <= gone /\ now >= gone
        BY <1>0, <3>5, <3>9 DEF Lasting, Deletion
      <4> QED
        BY <3>4, <3>5, <4>1, LimitsAssumption DEF Numbers
    <3> QED
      BY <3>2, <3>6, <3>7, <3>8, <3>9 DEF Effect
  <2> QED
    BY <1>5, <2>1, <2>2 DEF Moves, Leased
<1> QED
  BY <1>4, <1>5 DEF LeasesHeld

\* The leased calls have leases of their own in the document.
LEMMA LeasesCount ==
  ASSUME TypedInv, DraftsFollow, RecallInv, LeasesHeld
  PROVE  ConcurrencyLimit
<1> DEFINE S == {c \in Calls : Leased(c)}
           f == [c \in S |-> Lease(c)]
<1> SUFFICES ASSUME ~outlived PROVE Cardinality(S) <= MaxConcurrency
  BY DEF ConcurrencyLimit
<1>1. CASE S = {}
  BY <1>1, FS_EmptySet, LimitsAssumption
<1>2. CASE S # {}
  <2>1. \A c \in S : /\ c \in charged /\ now < at[c] + DedupeSeconds
                     /\ doc # NoDoc /\ Lease(c) \in doc.leases
    BY DEF LeasesHeld, Leased, Unreleased, RecallInv, PastReadings
  <2>2. doc # NoDoc /\ IsFiniteSet(doc.leases) /\ Cardinality(doc.leases) <= MaxConcurrency
    BY <1>2, <2>1 DEF DraftsFollow
  <2>3. \A b, c \in S : b # c => IdOf[b] # IdOf[c]
    BY <2>1, DistinctIds DEF RecallInv
  <2>4. f \in [S -> doc.leases]
    BY <2>1
  <2>5. \A b, c \in S : f[b] = f[c] => b = c
    BY <2>3 DEF Lease
  <2>6. f \in Injection(S, doc.leases)
    BY <2>4, <2>5 DEF Injection, IsInjective
  <2>7. IsFiniteSet(S) /\ Cardinality(S) <= Cardinality(doc.leases)
    BY <2>2, <2>6, FS_Injection
  <2>8. Cardinality(S) \in Nat /\ Cardinality(doc.leases) \in Nat
    BY <2>2, <2>7, FS_CardinalityType
  <2> QED
    BY <2>2, <2>7, <2>8, LimitsAssumption
<1> QED
  BY <1>1, <1>2

\* All workers together run at most MaxConcurrency leased chats of a user, as long
\* as no call comes back after its request id was forgotten.
THEOREM ConcurrencyBounded == Spec => []ConcurrencyLimit
<1>1. Init => LeasesHeld
  BY DEF Init, LeasesHeld, Unreleased, Releasing, Leased
<1>2. TypedInv /\ TypedInv' /\ DraftsFollow /\ RecallInv /\ LeasesHeld /\ [Next]_vars => LeasesHeld'
  <2>1. RecallInv' => PastReadings'
    BY DEF RecallInv
  <2> QED
    BY <2>1, RecallStep, LeasesHeldStep
<1>3. TypedInv /\ DraftsFollow /\ RecallInv /\ LeasesHeld => ConcurrencyLimit
  BY LeasesCount
<1> QED
  BY <1>1, <1>2, <1>3, Recalled, PTL DEF Spec

-----------------------------------------------------------------------------
(* Requests and budget of a window *)

\* Windows do not overlap: the start of the window grows with the clock.
LEMMA WindowsInOrder ==
  ASSUME NEW s \in Nat, NEW t \in Nat, s <= t
  PROVE  WindowOf(s) <= WindowOf(t)
<1> DEFINE W == WindowSeconds
           p == s \div W
           q == t \div W
<1>1. W \in Nat /\ W > 0
  BY LimitsAssumption
<1>2. p \in Int /\ q \in Int
  BY <1>1
<1>3. s = W * p + (s % W) /\ t = W * q + (t % W)
  BY <1>1
<1>4. s % W \in 0 .. (W - 1) /\ t % W \in 0 .. (W - 1)
  BY <1>1
<1>5. WindowOf(s) = W * p /\ WindowOf(t) = W * q
  BY <1>1, <1>2, <1>3, <1>4 DEF WindowOf
<1> HIDE DEF W, p, q
<1>6. p <= q
  <2> SUFFICES ASSUME q + 1 <= p PROVE FALSE
    BY <1>2
  <2>1. W * (q + 1) <= W * p
    BY <1>1, <1>2
  <2>2. W * (q + 1) = W * q + W /\ W * p \in Int /\ W * q \in Int
    BY <1>1, <1>2
  <2>3. /\ (s % W) \in Int /\ (t % W) \in Int
        /\ (s % W) >= 0 /\ (t % W) < W
    BY <1>1, <1>4
  <2> QED
    BY <1>1, <1>3, <2>1, <2>2, <2>3
<1>7. W * p <= W * q
  BY <1>1, <1>2, <1>6
<1> QED
  BY <1>5, <1>7

Used(w) == Cardinality(ChargedIn(w))

Within(w) == Used(w) <= MaxRequests /\ Used(w) * Cost <= MaxBudget

\* While no write used a clock reading of an earlier window, the document counts
\* the requests of its own window, which is the last one with a request, and is
\* deleted only after that window.
CountsWindow ==
    ~straddled =>
        /\ doc # NoDoc =>
               /\ doc.count = Used(doc.window)
               /\ doc.budget = Used(doc.window) * Cost
               /\ doc.window <= WindowOf(now)
               /\ \A c \in charged : WindowOf(at[c]) <= doc.window
        /\ doc = NoDoc => \A c \in charged : WindowOf(at[c]) + WindowSeconds <= now
        /\ \A c \in charged : Within(WindowOf(at[c]))

\* The requests of a window are counted in natural numbers.
LEMMA UsedType ==
  ASSUME TypedInv, NEW w
  PROVE  IsFiniteSet(ChargedIn(w)) /\ Used(w) \in Nat
<1>1. ChargedIn(w) \subseteq Calls
  BY DEF ChargedIn, TypedInv, TypeOK
<1>2. IsFiniteSet(ChargedIn(w))
  BY <1>1, CallsAssumption, FS_Subset
<1> QED
  BY <1>2, FS_CardinalityType DEF Used

\* Nobody is admitted: no window has one request more.
LEMMA SameUse ==
  ASSUME TypedInv, PastReadings, Moves, charged' = charged
  PROVE  /\ \A c \in charged : WindowOf(at'[c]) = WindowOf(at[c])
         /\ \A w : Used(w)' = Cardinality(ChargedIn(w))
<1>1. \A c \in charged : at'[c] = at[c]
  BY SameEntry DEF TypedInv, TypeOK
<1>2. ASSUME NEW w PROVE ChargedIn(w)' = ChargedIn(w)
  BY <1>1 DEF ChargedIn, WindowOf
<1> QED
  BY <1>1, <1>2 DEF Used

\* The document that c writes counts c, and everybody else of its window.
LEMMA AdmissionCounts ==
  ASSUME TypedInv, TypedInv', Numbers, PastReadings, CountsWindow, ~straddled',
         NEW c \in Calls, Admission(c)
  PROVE  CountsWindow'
<1> PICK w : w = WindowOf(at[c])
  OBVIOUS
<1>0. /\ charged \subseteq Calls
      /\ \A b \in Calls : at[b] \in Nat /\ at[b] <= now /\ WindowOf(at[b]) \in Nat
      /\ now \in Nat /\ WindowOf(now) \in Nat /\ w \in Nat
      /\ \A b \in Calls : WindowOf(at[b]) <= WindowOf(now)
  <2>1. charged \subseteq Calls /\ now \in Nat /\ \A b \in Calls : at[b] \in Nat /\ at[b] <= now
    BY DEF TypedInv, TypeOK, PastReadings, Numbers
  <2> QED
    BY <2>1, WindowBounds, WindowsInOrder
<1>1. ~straddled /\ w = WindowOf(now)
  <2>1. ~straddled /\ ~(WindowOf(at[c]) < WindowOf(now))
    BY Zenon DEF Admission, Charge
  <2> QED
    BY <1>0, <2>1
<1>2. charged' = charged \cup {c} /\ at' = at /\ now' = now /\ doc' = draft[c] /\ doc' # NoDoc
  BY DEF Admission, Charge
<1>3. c \notin charged
  BY DEF Admission, PastReadings, Acquiring
<1>4. doc'.window = w
  BY DEF Admission, Grants
<1>5. \A b \in charged' : WindowOf(at'[b]) <= w
  BY <1>0, <1>1, <1>2
<1>6. ASSUME NEW v PROVE Used(v) \in Nat /\ Used(v)' = (IF v = w THEN Used(v) + 1 ELSE Used(v))
  <2>1. CASE v = w
    <3>1. ChargedIn(v)' = ChargedIn(v) \cup {c} /\ c \notin ChargedIn(v)
      BY <1>2, <1>3, <2>1 DEF ChargedIn, WindowOf
    <3> QED
      BY <2>1, <3>1, UsedType, FS_AddElement DEF Used
  <2>2. CASE v # w
    <3>1. ChargedIn(v)' = ChargedIn(v)
      BY <1>2, <2>2 DEF ChargedIn, WindowOf
    <3> QED
      BY <2>2, <3>1, UsedType DEF Used
  <2> QED
    BY <2>1, <2>2
<1>7. /\ doc'.count = Used(w) + 1 /\ doc'.budget = Used(w) * Cost + Cost
      /\ doc'.count <= MaxRequests /\ doc'.budget <= MaxBudget
  <2>1. CASE doc # NoDoc /\ doc.window = w
    <3>1. UsedCount(doc, c) = Used(w) /\ UsedBudget(doc, c) = Used(w) * Cost
      BY <1>1, <2>1 DEF CountsWindow, UsedCount, UsedBudget
    <3> QED
      BY <1>2, <2>1, <3>1 DEF Admission, Keeps
  <2>2. CASE doc = NoDoc \/ doc.window # w
    <3>1. \A b \in charged : WindowOf(at[b]) # w
      <4>1. CASE doc = NoDoc
        <5>1. now < WindowOf(now) + WindowSeconds
          BY <1>0, WindowBounds
        <5> QED
          BY <1>0, <1>1, <4>1, <5>1, LimitsAssumption DEF CountsWindow
      <4>2. CASE doc # NoDoc /\ doc.window # w
        <5>1. doc.window \in Nat /\ doc.window < w
          BY <1>0, <1>1, <4>2 DEF CountsWindow, Numbers
        <5> QED
          BY <1>0, <1>1, <4>2, <5>1 DEF CountsWindow
      <4> QED
        BY <2>2, <4>1, <4>2
    <3>2. Used(w) = 0
      BY <3>1, FS_EmptySet DEF Used, ChargedIn
    <3>3. doc'.count = 1 /\ doc'.budget = Cost
      <4>1. CASE doc = NoDoc
        BY <1>2, <4>1 DEF Admission, Opens
      <4>2. CASE doc # NoDoc /\ doc.window # w
        BY <1>2, <4>2, LimitsAssumption DEF Admission, Keeps, UsedCount, UsedBudget
      <4> QED
        BY <2>2, <4>1, <4>2
    <3> QED
      BY <3>2, <3>3, LimitsAssumption
  <2> QED
    BY <2>1, <2>2
<1>8. Used(w)' = Used(w) + 1 /\ (Used(w) + 1) * Cost = Used(w) * Cost + Cost
  BY <1>6, LimitsAssumption
<1>9. /\ doc'.count = Used(doc.window)'
      /\ doc'.budget = (Used(doc.window) * Cost)'
      /\ doc'.window <= WindowOf(now)'
  BY <1>0, <1>1, <1>2, <1>4, <1>6, <1>7, <1>8 DEF Used, ChargedIn, WindowOf
<1>10. \A b \in charged' : WindowOf(at'[b]) <= doc'.window
  BY <1>4, <1>5
<1>11. ASSUME NEW b \in charged' PROVE Within(WindowOf(at[b]))'
  <2>1. ASSUME NEW v, v = WindowOf(at'[b]) PROVE Used(v)' <= MaxRequests /\ Used(v)' * Cost <= MaxBudget
    <3>1. CASE v = w
      BY <1>7, <1>8, <3>1
    <3>2. CASE v # w
      <4>1. b \in charged
        BY <1>2, <2>1, <3>2
      <4>2. Within(v)
        BY <1>1, <1>2, <2>1, <4>1 DEF CountsWindow
      <4> QED
        BY <1>6, <3>2, <4>2 DEF Within
    <3> QED
      BY <3>1, <3>2
  <2> QED
    BY <2>1 DEF Within, Used, ChargedIn, WindowOf
<1> QED
  BY <1>2, <1>9, <1>10, <1>11 DEF CountsWindow

\* The four effects keep the count of the document right.
LEMMA CountsWindowStep ==
  ASSUME TypedInv, TypedInv', Numbers, PastReadings, Lasting, CountsWindow, Effect, Moves
  PROVE  CountsWindow'
<1> SUFFICES ASSUME ~straddled' PROVE CountsWindow'
  BY DEF CountsWindow
<1>1. ASSUME NEW c \in Calls, Admission(c) PROVE CountsWindow'
  BY <1>1, AdmissionCounts
<1>2. CASE charged' = charged /\ straddled' = straddled
  <2>0. charged \subseteq Calls /\ \A b \in charged : at'[b] = at[b] /\ WindowOf(at[b]) \in Nat
    BY SameEntry, WindowBounds DEF TypedInv, TypeOK, Numbers
  <2>1. \A v : Used(v)' = Used(v)
    BY <1>2, <2>0 DEF Used, ChargedIn, WindowOf
  <2>2. ~straddled
    BY <1>2, Zenon
  <2>3. \A b \in charged' : Within(WindowOf(at[b]))'
    <3>1. ASSUME NEW b \in charged PROVE Within(WindowOf(at[b]))'
      BY <1>2, <2>0, <2>2 DEF CountsWindow, Within, Used, ChargedIn, WindowOf
    <3> QED
      BY <1>2, <3>1
  <2>4. now' \in Nat /\ now \in Nat /\ now <= now' /\ WindowOf(now) <= WindowOf(now)'
        /\ WindowOf(now) \in Nat /\ WindowOf(now)' \in Nat
    <3>1. WindowOf(now') \in Nat /\ WindowOf(now) <= WindowOf(now')
      BY WindowsInOrder, WindowBounds DEF Numbers
    <3> QED
      BY <3>1, WindowBounds DEF Numbers, WindowOf
  <2>5. CASE doc' # NoDoc
    <3>1. /\ doc # NoDoc
          /\ doc'.window = doc.window /\ doc'.count = doc.count /\ doc'.budget = doc.budget
      <4>1. CASE Quiet
        BY <2>5, <4>1 DEF Quiet
      <4>2. ASSUME NEW c \in Calls, Removal(c)
            PROVE  /\ doc # NoDoc
                   /\ doc'.window = doc.window /\ doc'.count = doc.count
                   /\ doc'.budget = doc.budget
        BY <4>2 DEF Removal, Without, TypedInv, DocsBounded, BoundedDoc, Documents
      <4>3. ASSUME NEW c \in Calls, Admission(c) PROVE FALSE
        BY <1>2, <4>3 DEF Admission, Charge, PastReadings, Acquiring
      <4> QED
        BY <2>5, <4>1, <4>2, <4>3 DEF Effect, Deletion
    <3>2. /\ doc'.count = Used(doc.window)'
          /\ doc'.budget = (Used(doc.window) * Cost)'
      BY <1>2, <2>0, <2>1, <2>2, <3>1 DEF CountsWindow, Used, ChargedIn, WindowOf
    <3>3. doc'.window <= WindowOf(now)'
      BY <2>2, <2>4, <3>1 DEF CountsWindow, Numbers
    <3>4. \A b \in charged' : WindowOf(at'[b]) <= doc'.window
      BY <1>2, <2>0, <2>2, <3>1 DEF CountsWindow
    <3> QED
      BY <2>3, <2>5, <3>2, <3>3, <3>4 DEF CountsWindow
  <2>6. CASE doc' = NoDoc
    <3>1. \A b \in charged : WindowOf(at[b]) + WindowSeconds <= now
      <4>1. CASE doc = NoDoc
        BY <2>2, <4>1 DEF CountsWindow
      <4>2. CASE doc # NoDoc
        <5>1. now >= gone
          BY <2>6, <4>2 DEF Effect, Quiet, Admission, Removal, Deletion
        <5>2. doc.window + WindowSeconds <= now /\ doc.window \in Nat
          BY <4>2, <5>1, LimitsAssumption DEF Lasting, Numbers
        <5>3. \A b \in charged : WindowOf(at[b]) <= doc.window
          BY <2>2, <4>2 DEF CountsWindow
        <5> QED
          BY <2>0, <2>4, <5>2, <5>3, LimitsAssumption
      <4> QED
        BY <4>1, <4>2
    <3>2. \A b \in charged' : WindowOf(at'[b]) + WindowSeconds <= now'
      BY <1>2, <2>0, <2>4, <3>1, LimitsAssumption
    <3> QED
      BY <2>3, <2>6, <3>2 DEF CountsWindow, WindowOf
  <2> QED
    BY <2>5, <2>6
<1> QED
  BY <1>1, <1>2 DEF Effect, Quiet, Removal, Deletion

\* No window takes more requests or more budget than its limits, as long as no
\* write uses a clock reading of an earlier window.
THEOREM WindowsBounded == Spec => []WindowLimitUnlessStraddled
<1>1. Init => CountsWindow
  BY DEF Init, CountsWindow
<1>2. /\ TypedInv /\ TypedInv' /\ DraftsFollow /\ RecallInv /\ CountsWindow /\ [Next]_vars
      => CountsWindow'
  BY RecallStep, CountsWindowStep DEF RecallInv
<1>3. CountsWindow => WindowLimitUnlessStraddled
  <2> SUFFICES ASSUME CountsWindow, ~straddled, NEW c \in charged
               PROVE  LET n == Cardinality(ChargedIn(WindowOf(at[c])))
                      IN  n <= MaxRequests /\ n * Cost <= MaxBudget
    BY DEF WindowLimitUnlessStraddled
  <2>1. Within(WindowOf(at[c]))
    BY DEF CountsWindow
  <2> QED
    BY <2>1 DEF Within, Used
<1> QED
  BY <1>1, <1>2, <1>3, Recalled, PTL DEF Spec
=============================================================================
