------------------------- MODULE CaseArchiveProofs -------------------------
(***************************************************************************)
(* Proofs about CaseArchive: what readers of a case can reach, the handoff *)
(* to the embedder, and the rewrite of the chunks.                         *)
(***************************************************************************)
EXTENDS CaseArchive, TLAPS

-----------------------------------------------------------------------------
(* Type correctness *)

\* The receive counts leave room for the next receive of what is queued, and
\* an attempt that has not been acknowledged has sent no embed request.
Receipts ==
    /\ \A d \in Deliveries :
        /\ at[d] = "queued" => tries[d] < MaxReceives
        /\ at[d] # "queued" => tries[d] > 0
        /\ \A k \in 1 .. MaxReceives :
            k > tries[d] \/ (k = tries[d] /\ at[d] # "acked") =>
                job[<<d, k>>] = "none" /\ received[<<d, k>>] = 0
    /\ \A a \in Attempts : job[a] = "queued" => received[a] < MaxReceives

TypedInv == TypeOK /\ Receipts

\* What the constants are.
LEMMA Sizes ==
  /\ RunOf \in [Deliveries -> Runs] /\ None \notin Runs
  /\ None \notin {"pending", "ready", "failed"}
  /\ MaxReceives \in Nat /\ MaxReceives > 0 /\ MaxFails \in Nat
  /\ \A r \in Runs : Size[r] \in Nat /\ Size[r] > 0
  BY ArchiveAssumption

\* An attempt is a delivery and the number of the receive; its target is a run,
\* whose slots are slots.
LEMMA Ranges ==
  /\ \A a \in Attempts : a[1] \in Deliveries /\ a[2] \in 1 .. MaxReceives /\ a = <<a[1], a[2]>>
  /\ \A d \in Deliveries, k \in 1 .. MaxReceives : <<d, k>> \in Attempts
  /\ \A a \in Attempts : Target(a) \in Runs
  /\ \A r \in Runs : SlotsOf(r) \subseteq Slots
  /\ \A d1, d2, k1, k2 : <<d1, k1>> = <<d2, k2>> => d1 = d2 /\ k1 = k2
  BY Sizes DEF Attempts, Target, Slots, SlotsOf

\* The attempt under way is one.
LEMMA AttemptIs ==
  ASSUME TypedInv, NEW d \in Deliveries, at[d] # "queued"
  PROVE  Attempt(d) \in Attempts /\ tries[d] \in 1 .. MaxReceives
<1>1. tries[d] \in 1 .. MaxReceives
  BY Sizes DEF TypedInv, TypeOK, Receipts
<1> QED
  BY <1>1, Ranges DEF Attempt

\* A flag of one delivery is set.
LEMMA FlagIs ==
  ASSUME NEW f \in [Deliveries -> BOOLEAN], NEW d \in Deliveries, NEW b \in BOOLEAN
  PROVE  [f EXCEPT ![d] = b] \in [Deliveries -> BOOLEAN]
  OBVIOUS

\* Every step keeps the types.
LEMMA TypeStep ==
  TypedInv /\ [Next]_vars => TypeOK'
<1> SUFFICES ASSUME TypedInv, [Next]_vars PROVE TypeOK'
  OBVIOUS
<1> USE Sizes, Ranges
    DEF TypedInv, TypeOK, Goto, JobGoto, index, archiver, embedder
<1>1. ASSUME NEW d \in Deliveries, Receive(d) PROVE TypeOK'
  <2>1. tries[d] < MaxReceives /\ tries[d] + 1 \in 0 .. MaxReceives
    BY <1>1 DEF Receive, Replay, Receipts
  <2>2. (state[RunOf[d]] = "none" /\ retrieval # None) \in BOOLEAN
    OBVIOUS
  <2>3. sawItem' \in [Deliveries -> BOOLEAN]
    BY <1>1, <2>2, FlagIs DEF Receive
  <2>4. tries' \in [Deliveries -> 0 .. MaxReceives]
    BY <1>1, <2>1 DEF Receive
  <2>5. /\ at' \in [Deliveries -> {"queued", "claim", "reread", "envelope", "finalize",
                                 "again", "publish", "acked", "dead"}]
        /\ held' \in [Deliveries -> Attempts \cup {None}]
    BY <1>1 DEF Receive, Replay
  <2> QED
    BY <1>1, <2>3, <2>4, <2>5 DEF Receive
<1>2. ASSUME NEW d \in Deliveries, Claim(d) PROVE TypeOK'
  <2>1. Attempt(d) \in Attempts
    BY <1>2, AttemptIs DEF Claim
  <2>2. state' \in [Runs -> {"none", "claimed", "completed"}]
    BY <1>2 DEF Claim
  <2>7. fence' = [fence EXCEPT ![RunOf[d]] = Attempt(d)] \/ fence' = fence
    BY <1>2 DEF Claim
  <2>5. fence' \in [Runs -> Attempts \cup {None}]
    BY <2>1, <2>7
  <2>6. held' \in [Deliveries -> Attempts \cup {None}]
    BY <1>2, <2>1 DEF Claim
  <2>3. retrieval' \in {None, "pending", "ready", "failed"}
    BY <1>2 DEF Claim
  <2>8. at' \in [Deliveries -> {"queued", "claim", "reread", "envelope", "finalize",
                              "again", "publish", "acked", "dead"}]
    BY <1>2 DEF Claim
  <2>4. sawItem' \in [Deliveries -> BOOLEAN]
    BY <1>2, FlagIs DEF Claim
  <2> QED
    BY <1>2, <2>2, <2>3, <2>4, <2>5, <2>6, <2>8 DEF Claim
<1>3. ASSUME NEW d \in Deliveries, Reread(d) PROVE TypeOK'
  BY <1>3 DEF Reread, Replay
<1>4. ASSUME NEW d \in Deliveries, PutEnvelope(d) PROVE TypeOK'
  BY <1>4 DEF PutEnvelope
<1>5. ASSUME NEW d \in Deliveries, Finalize(d) PROVE TypeOK'
  <2>1. state' \in [Runs -> {"none", "claimed", "completed"}]
    BY <1>5 DEF Finalize
  <2>3. latest' \in Runs \cup {None}
    BY <1>5 DEF Finalize
  <2>4. at' \in [Deliveries -> {"queued", "claim", "reread", "envelope", "finalize",
                              "again", "publish", "acked", "dead"}]
    BY <1>5 DEF Finalize
  <2>2. held' \in [Deliveries -> Attempts \cup {None}]
    BY <1>5 DEF Finalize
  <2> QED
    BY <1>5, <2>1, <2>2, <2>3, <2>4 DEF Finalize
<1>6. ASSUME NEW d \in Deliveries, FinalizedBefore(d) PROVE TypeOK'
  BY <1>6 DEF FinalizedBefore
<1>7. ASSUME NEW d \in Deliveries, Publish(d) PROVE TypeOK'
  <2>1. Attempt(d) \in Attempts
    BY <1>7, AttemptIs DEF Publish
  <2> QED
    BY <1>7, <2>1 DEF Publish
<1>8. ASSUME NEW d \in Deliveries, ArchiveFails(d) PROVE TypeOK'
  BY <1>8 DEF ArchiveFails
<1>9. ASSUME NEW a \in Attempts, StartEmbed(a) PROVE TypeOK'
  <2>1. received[a] < MaxReceives
    BY <1>9 DEF StartEmbed, Receipts
  <2>2. {s \in Slots \ SlotsOf(Target(a)) : chunk[s] # None} \in SUBSET Slots
    OBVIOUS
  <2>3. (overlapped \/ Active # {}) \in BOOLEAN
    OBVIOUS
  <2> QED
    BY <1>9, <2>1, <2>2, <2>3 DEF StartEmbed, Embedding
<1>10. ASSUME NEW a \in Attempts, WriteChunk(a) PROVE TypeOK'
  <2>0. /\ chunk' = [chunk EXCEPT ![written[a] + 1] = Target(a)]
        /\ written' = [written EXCEPT ![a] = written[a] + 1]
    BY <1>10 DEF WriteChunk
  <2>1. chunk' \in [Slots -> Runs \cup {None}]
    BY <2>0
  <2>3. written' \in [Attempts -> Nat]
    BY <2>0
  <2>2. job' \in [Attempts -> {"none", "queued", "done", "dead"} \cup Embedding]
    BY <1>10 DEF WriteChunk, Embedding
  <2> QED
    BY <1>10, <2>1, <2>2, <2>3 DEF WriteChunk
<1>11. ASSUME NEW a \in Attempts, Prune(a) PROVE TypeOK'
  BY <1>11 DEF Prune, Embedding
<1>12. ASSUME NEW a \in Attempts, SetReady(a) PROVE TypeOK'
  BY <1>12 DEF SetReady, Released
<1>13. ASSUME NEW a \in Attempts, EmbedFails(a) PROVE TypeOK'
  BY <1>13 DEF EmbedFails, Released, Embedding
<1>14. ASSUME UNCHANGED vars PROVE TypeOK'
  BY <1>14 DEF vars
<1> QED
  BY <1>1, <1>2, <1>3, <1>4, <1>5, <1>6, <1>7, <1>8, <1>9, <1>10,
     <1>11, <1>12, <1>13, <1>14
  DEF Next, ArchiveStep, EmbedStep

\* Every step keeps the receive counts.
LEMMA ReceiptsStep ==
  TypedInv /\ [Next]_vars => Receipts'
<1> SUFFICES ASSUME TypedInv, [Next]_vars PROVE Receipts'
  OBVIOUS
<1> USE Sizes, Ranges
    DEF TypedInv, TypeOK, Receipts, Goto, JobGoto, index, archiver, embedder
<1>1. ASSUME NEW d \in Deliveries, Receive(d) PROVE Receipts'
  BY <1>1 DEF Receive, Replay
<1>2. ASSUME NEW d \in Deliveries, Claim(d) PROVE Receipts'
  BY <1>2 DEF Claim
<1>3. ASSUME NEW d \in Deliveries, Reread(d) PROVE Receipts'
  BY <1>3 DEF Reread, Replay
<1>4. ASSUME NEW d \in Deliveries, PutEnvelope(d) PROVE Receipts'
  BY <1>4 DEF PutEnvelope
<1>5. ASSUME NEW d \in Deliveries, Finalize(d) PROVE Receipts'
  BY <1>5 DEF Finalize
<1>6. ASSUME NEW d \in Deliveries, FinalizedBefore(d) PROVE Receipts'
  BY <1>6 DEF FinalizedBefore
<1>7. ASSUME NEW d \in Deliveries, Publish(d) PROVE Receipts'
  <2>1. Attempt(d) = <<d, tries[d]>> /\ tries[d] \in 1 .. MaxReceives /\ Attempt(d) \in Attempts
    BY <1>7, AttemptIs DEF Publish, Attempt
  <2>2. received[Attempt(d)] = 0
    BY <1>7, <2>1 DEF Publish
  <2>3. /\ job' = [job EXCEPT ![Attempt(d)] = "queued"] /\ UNCHANGED <<tries, received>>
        /\ at' = [at EXCEPT ![d] = "acked"] /\ at[d] = "publish"
    BY <1>7 DEF Publish
  <2>4. ASSUME NEW c \in Deliveries, NEW k \in 1 .. MaxReceives,
               k > tries[c] \/ (k = tries[c] /\ at'[c] # "acked")
        PROVE  job'[<<c, k>>] = "none"
    <3>1. <<c, k>> # Attempt(d) /\ job[<<c, k>>] = "none"
      BY <2>1, <2>3, <2>4
    <3> QED
      BY <2>1, <2>3, <3>1
  <2>5. \A b \in Attempts : job'[b] = "queued" => received[b] < MaxReceives
    BY <2>1, <2>2, <2>3
  <2> QED
    BY <2>3, <2>4, <2>5
<1>8. ASSUME NEW d \in Deliveries, ArchiveFails(d) PROVE Receipts'
  BY <1>8 DEF ArchiveFails
<1>9. ASSUME NEW a \in Attempts, StartEmbed(a) PROVE Receipts'
  BY <1>9 DEF StartEmbed
<1>10. ASSUME NEW a \in Attempts, WriteChunk(a) PROVE Receipts'
  BY <1>10 DEF WriteChunk
<1>11. ASSUME NEW a \in Attempts, Prune(a) PROVE Receipts'
  BY <1>11 DEF Prune
<1>12. ASSUME NEW a \in Attempts, SetReady(a) PROVE Receipts'
  BY <1>12 DEF SetReady, Released
<1>13. ASSUME NEW a \in Attempts, EmbedFails(a) PROVE Receipts'
  <2>1. /\ job[a] # "none" /\ UNCHANGED <<at, tries, received>>
        /\ job' = [job EXCEPT ![a] = IF received[a] < MaxReceives THEN "queued" ELSE "dead"]
    BY <1>13 DEF EmbedFails, Embedding
  <2> QED
    BY <2>1
<1>14. ASSUME UNCHANGED vars PROVE Receipts'
  BY <1>14 DEF vars
<1> QED
  BY <1>1, <1>2, <1>3, <1>4, <1>5, <1>6, <1>7, <1>8, <1>9, <1>10,
     <1>11, <1>12, <1>13, <1>14
  DEF Next, ArchiveStep, EmbedStep

\* The first state is well typed.
LEMMA TypeInit == Init => TypedInv
<1> SUFFICES ASSUME Init PROVE TypeOK /\ Receipts
  BY DEF TypedInv
<1>1. TypeOK
  <2>1. /\ tries \in [Deliveries -> 0 .. MaxReceives]
        /\ received \in [Attempts -> 0 .. MaxReceives]
        /\ written \in [Attempts -> Nat]
        /\ fails \in 0 .. MaxFails
    BY Sizes DEF Init
  <2>2. /\ obsolete \in [Attempts -> SUBSET Slots]
        /\ chunk \in [Slots -> Runs \cup {None}]
        /\ job \in [Attempts -> {"none", "queued", "done", "dead"} \cup Embedding]
    BY DEF Init
  <2> QED
    BY <2>1, <2>2 DEF Init, TypeOK
<1>2. Receipts
  BY Sizes, Ranges DEF Init, Receipts
<1> QED
  BY <1>1, <1>2

\* The typed invariant holds throughout: every later lemma starts from it.
LEMMA Typed == Spec => []TypedInv
<1>1. TypedInv /\ [Next]_vars => TypedInv'
  BY TypeStep, ReceiptsStep DEF TypedInv
<1> QED
  BY <1>1, TypeInit, PTL DEF Spec

\* The state of the archive is well typed, for any runs, deliveries and
\* receive counts, and any failures.
THEOREM TypeCorrect == Spec => []TypeOK
<1>1. TypedInv => TypeOK
  BY DEF TypedInv
<1> QED
  BY <1>1, Typed, PTL

-----------------------------------------------------------------------------
(* What is committed *)

\* The facts of TypeOK the steps below need, without the sets they come from.
LEMMA Shapes ==
  ASSUME TypedInv
  PROVE  /\ DOMAIN state = Runs /\ DOMAIN at = Deliveries /\ DOMAIN sawItem = Deliveries
         /\ DOMAIN job = Attempts
         /\ DOMAIN chunk = Slots /\ DOMAIN written = Attempts /\ DOMAIN obsolete = Attempts
         /\ \A r \in Runs : state[r] \in {"none", "claimed", "completed"}
         /\ \A d \in Deliveries : RunOf[d] \in Runs
         /\ \A s \in Slots : chunk[s] \in Runs \cup {None}
         /\ \A a \in Attempts : written[a] \in Nat
         /\ latest \in Runs \cup {None} /\ envelope \subseteq Runs
         /\ state = [r \in Runs |-> state[r]] /\ at = [d \in Deliveries |-> at[d]]
         /\ job = [a \in Attempts |-> job[a]] /\ chunk = [s \in Slots |-> chunk[s]]
  BY Sizes DEF TypedInv, TypeOK

\* An attempt that completes its run has put the envelope, one that publishes
\* has a completed run, and so has every embed request; before there is an item
\* no run is claimed.
Committed ==
    /\ \A d \in Deliveries :
        /\ at[d] = "finalize" => RunOf[d] \in envelope
        /\ at[d] = "publish" => state[RunOf[d]] = "completed"
        /\ sawItem[d] => retrieval # None
    /\ \A a \in Attempts : job[a] # "none" => state[Target(a)] = "completed"
    /\ retrieval = None => \A r \in Runs : state[r] = "none"
    /\ OnlyCommittedIsVisible

\* A completed run stays completed.
LEMMA CompletedStays ==
  ASSUME TypedInv, Committed, [Next]_vars
  PROVE  \A r \in Runs : state[r] = "completed" => state'[r] = "completed"
<1> DEFINE P == \A r \in Runs : state[r] = "completed" => state'[r] = "completed"
<1> USE Sizes, Shapes DEF Committed, Goto, JobGoto, index, archiver, embedder
<1>1. ASSUME NEW d \in Deliveries, Receive(d) PROVE P
  BY <1>1 DEF Receive, Replay
<1>2. ASSUME NEW d \in Deliveries, Claim(d) PROVE P
  BY <1>2 DEF Claim
<1>3. ASSUME NEW d \in Deliveries, Reread(d) PROVE P
  BY <1>3 DEF Reread, Replay
<1>4. ASSUME NEW d \in Deliveries, PutEnvelope(d) PROVE P
  BY <1>4 DEF PutEnvelope
<1>5. ASSUME NEW d \in Deliveries, Finalize(d) PROVE P
  BY <1>5 DEF Finalize
<1>6. ASSUME NEW d \in Deliveries, FinalizedBefore(d) PROVE P
  BY <1>6 DEF FinalizedBefore
<1>7. ASSUME NEW d \in Deliveries, Publish(d) PROVE P
  BY <1>7 DEF Publish
<1>8. ASSUME NEW d \in Deliveries, ArchiveFails(d) PROVE P
  BY <1>8 DEF ArchiveFails
<1>9. ASSUME NEW a \in Attempts, StartEmbed(a) PROVE P
  BY <1>9 DEF StartEmbed
<1>10. ASSUME NEW a \in Attempts, WriteChunk(a) PROVE P
  BY <1>10 DEF WriteChunk
<1>11. ASSUME NEW a \in Attempts, Prune(a) PROVE P
  BY <1>11 DEF Prune
<1>12. ASSUME NEW a \in Attempts, SetReady(a) PROVE P
  BY <1>12 DEF SetReady, Released
<1>13. ASSUME NEW a \in Attempts, EmbedFails(a) PROVE P
  BY <1>13 DEF EmbedFails, Released
<1>14. ASSUME UNCHANGED vars PROVE P
  BY <1>14 DEF vars
<1> QED
  BY <1>1, <1>2, <1>3, <1>4, <1>5, <1>6, <1>7, <1>8, <1>9, <1>10,
     <1>11, <1>12, <1>13, <1>14
  DEF Next, ArchiveStep, EmbedStep

\* Every step keeps what is committed.
LEMMA CommittedStep ==
  TypedInv /\ Committed /\ [Next]_vars => Committed'
<1> SUFFICES ASSUME TypedInv, Committed, [Next]_vars PROVE Committed'
  OBVIOUS
<1>0. \A r \in Runs : state[r] = "completed" => state'[r] = "completed"
  BY CompletedStays
<1> USE Sizes, Shapes, Ranges, <1>0
    DEF Committed, OnlyCommittedIsVisible, Goto, JobGoto, index, archiver, embedder, Embedding
<1>1. ASSUME NEW d \in Deliveries, Receive(d) PROVE Committed'
  <2>1. \A c \in Deliveries : sawItem'[c] => sawItem[c] \/ retrieval # None
    BY <1>1 DEF Receive
  <2>2. /\ \A c \in Deliveries : at'[c] = "finalize" => at[c] = "finalize"
        /\ \A c \in Deliveries :
               at'[c] = "publish" => at[c] = "publish" \/ state[RunOf[c]] = "completed"
        /\ UNCHANGED <<state, latest, retrieval, envelope, job, chunk>>
    BY <1>1 DEF Receive, Replay
  <2> QED
    BY <2>1, <2>2
<1>2. ASSUME NEW d \in Deliveries, Claim(d) PROVE Committed'
  <2>1. \A r \in Runs : state'[r] = "completed" <=> state[r] = "completed"
    BY <1>2 DEF Claim
  <2>2. retrieval' = None => retrieval = None /\ state' = state
    BY <1>2 DEF Claim
  <2>3. /\ \A c \in Deliveries : at'[c] \in {"finalize", "publish"} => at'[c] = at[c]
        /\ UNCHANGED <<latest, envelope, job, chunk>>
    BY <1>2 DEF Claim
  <2> QED
    BY <1>2, <2>1, <2>2, <2>3 DEF Claim
<1>3. ASSUME NEW d \in Deliveries, Reread(d) PROVE Committed'
  BY <1>3 DEF Reread, Replay
<1>4. ASSUME NEW d \in Deliveries, PutEnvelope(d) PROVE Committed'
  BY <1>4 DEF PutEnvelope
<1>5. ASSUME NEW d \in Deliveries, Finalize(d) PROVE Committed'
  BY <1>5 DEF Finalize
<1>6. ASSUME NEW d \in Deliveries, FinalizedBefore(d) PROVE Committed'
  BY <1>6 DEF FinalizedBefore
<1>7. ASSUME NEW d \in Deliveries, Publish(d) PROVE Committed'
  <2>1. Attempt(d) \in Attempts
    BY <1>7, AttemptIs DEF Publish
  <2>2. job' = [job EXCEPT ![Attempt(d)] = "queued"] /\ job'[Attempt(d)] = "queued"
    BY <1>7, <2>1 DEF Publish
  <2>3. Target(Attempt(d)) = RunOf[d]
    BY DEF Target, Attempt
  <2> QED
    BY <1>7, <2>1, <2>2, <2>3 DEF Publish
<1>8. ASSUME NEW d \in Deliveries, ArchiveFails(d) PROVE Committed'
  BY <1>8 DEF ArchiveFails
<1>9. ASSUME NEW a \in Attempts, StartEmbed(a) PROVE Committed'
  BY <1>9 DEF StartEmbed
<1>10. ASSUME NEW a \in Attempts, WriteChunk(a) PROVE Committed'
  BY <1>10 DEF WriteChunk
<1>11. ASSUME NEW a \in Attempts, Prune(a) PROVE Committed'
  BY <1>11 DEF Prune
<1>12. ASSUME NEW a \in Attempts, SetReady(a) PROVE Committed'
  BY <1>12 DEF SetReady, Released
<1>13. ASSUME NEW a \in Attempts, EmbedFails(a) PROVE Committed'
  BY <1>13 DEF EmbedFails, Released
<1>14. ASSUME UNCHANGED vars PROVE Committed'
  BY <1>14 DEF vars
<1> QED
  BY <1>1, <1>2, <1>3, <1>4, <1>5, <1>6, <1>7, <1>8, <1>9, <1>10,
     <1>11, <1>12, <1>13, <1>14
  DEF Next, ArchiveStep, EmbedStep

\* A request to embed, or a delivery of the run that has not been acknowledged.
Requested ==
    \A r \in Runs :
        state[r] = "completed" /\ retrieval = "pending" =>
            \/ \E a \in Attempts : job[a] # "none"
            \/ \E d \in Deliveries : RunOf[d] = r /\ at[d] # "acked"

\* Every step keeps a pending case requested, or about to be.
LEMMA RequestedStep ==
  TypedInv /\ Committed /\ Requested /\ [Next]_vars => Requested'
<1> SUFFICES ASSUME TypedInv, Committed, Requested, [Next]_vars PROVE Requested'
  OBVIOUS
<1> USE Sizes, Shapes, Ranges
    DEF Committed, Requested, Goto, JobGoto, index, archiver, embedder, Embedding
<1>1. ASSUME NEW d \in Deliveries, Receive(d) PROVE Requested'
  BY <1>1 DEF Receive, Replay
<1>2. ASSUME NEW d \in Deliveries, Claim(d) PROVE Requested'
  BY <1>2 DEF Claim
<1>3. ASSUME NEW d \in Deliveries, Reread(d) PROVE Requested'
  BY <1>3 DEF Reread, Replay
<1>4. ASSUME NEW d \in Deliveries, PutEnvelope(d) PROVE Requested'
  BY <1>4 DEF PutEnvelope
<1>5. ASSUME NEW d \in Deliveries, Finalize(d) PROVE Requested'
  <2>1. /\ \A r \in Runs \ {RunOf[d]} : state'[r] = state[r]
        /\ at'[d] # "acked" /\ \A c \in Deliveries : at'[c] = "acked" => at[c] = "acked"
        /\ UNCHANGED <<retrieval, job>>
    BY <1>5 DEF Finalize
  <2> QED
    BY <2>1
<1>6. ASSUME NEW d \in Deliveries, FinalizedBefore(d) PROVE Requested'
  BY <1>6 DEF FinalizedBefore
<1>7. ASSUME NEW d \in Deliveries, Publish(d) PROVE Requested'
  <2>1. Attempt(d) \in Attempts
    BY <1>7, AttemptIs DEF Publish
  <2>2. job' = [job EXCEPT ![Attempt(d)] = "queued"] /\ job'[Attempt(d)] = "queued"
    BY <1>7, <2>1 DEF Publish
  <2> QED
    BY <2>1, <2>2
<1>8. ASSUME NEW d \in Deliveries, ArchiveFails(d) PROVE Requested'
  BY <1>8 DEF ArchiveFails
<1>9. ASSUME NEW a \in Attempts, StartEmbed(a) PROVE Requested'
  BY <1>9 DEF StartEmbed
<1>10. ASSUME NEW a \in Attempts, WriteChunk(a) PROVE Requested'
  BY <1>10 DEF WriteChunk
<1>11. ASSUME NEW a \in Attempts, Prune(a) PROVE Requested'
  BY <1>11 DEF Prune
<1>12. ASSUME NEW a \in Attempts, SetReady(a) PROVE Requested'
  BY <1>12 DEF SetReady, Released
<1>13. ASSUME NEW a \in Attempts, EmbedFails(a) PROVE Requested'
  BY <1>13 DEF EmbedFails, Released
<1>14. ASSUME UNCHANGED vars PROVE Requested'
  BY <1>14 DEF vars
<1> QED
  BY <1>1, <1>2, <1>3, <1>4, <1>5, <1>6, <1>7, <1>8, <1>9, <1>10,
     <1>11, <1>12, <1>13, <1>14
  DEF Next, ArchiveStep, EmbedStep

-----------------------------------------------------------------------------
(* The chunks *)

\* What a rewrite will prune is not its own.
Apart ==
    \A a \in Attempts : obsolete[a] \cap SlotsOf(Target(a)) = {}

\* Every step keeps the two apart.
LEMMA ApartStep ==
  TypedInv /\ Apart /\ [Next]_vars => Apart'
<1> SUFFICES ASSUME TypedInv, Apart, [Next]_vars PROVE Apart'
  OBVIOUS
<1> USE Sizes, Shapes, Ranges DEF Apart, Goto, JobGoto, index, archiver, embedder
<1>1. ASSUME NEW d \in Deliveries, Receive(d) PROVE Apart'
  BY <1>1 DEF Receive, Replay
<1>2. ASSUME NEW d \in Deliveries, Claim(d) PROVE Apart'
  BY <1>2 DEF Claim
<1>3. ASSUME NEW d \in Deliveries, Reread(d) PROVE Apart'
  BY <1>3 DEF Reread, Replay
<1>4. ASSUME NEW d \in Deliveries, PutEnvelope(d) PROVE Apart'
  BY <1>4 DEF PutEnvelope
<1>5. ASSUME NEW d \in Deliveries, Finalize(d) PROVE Apart'
  BY <1>5 DEF Finalize
<1>6. ASSUME NEW d \in Deliveries, FinalizedBefore(d) PROVE Apart'
  BY <1>6 DEF FinalizedBefore
<1>7. ASSUME NEW d \in Deliveries, Publish(d) PROVE Apart'
  BY <1>7 DEF Publish
<1>8. ASSUME NEW d \in Deliveries, ArchiveFails(d) PROVE Apart'
  BY <1>8 DEF ArchiveFails
<1>9. ASSUME NEW a \in Attempts, StartEmbed(a) PROVE Apart'
  BY <1>9 DEF StartEmbed
<1>10. ASSUME NEW a \in Attempts, WriteChunk(a) PROVE Apart'
  BY <1>10 DEF WriteChunk
<1>11. ASSUME NEW a \in Attempts, Prune(a) PROVE Apart'
  BY <1>11 DEF Prune
<1>12. ASSUME NEW a \in Attempts, SetReady(a) PROVE Apart'
  BY <1>12 DEF SetReady, Released
<1>13. ASSUME NEW a \in Attempts, EmbedFails(a) PROVE Apart'
  BY <1>13 DEF EmbedFails, Released
<1>14. ASSUME UNCHANGED vars PROVE Apart'
  BY <1>14 DEF vars
<1> QED
  BY <1>1, <1>2, <1>3, <1>4, <1>5, <1>6, <1>7, <1>8, <1>9, <1>10,
     <1>11, <1>12, <1>13, <1>14
  DEF Next, ArchiveStep, EmbedStep

Shared(s) == \A r \in Runs : s \in SlotsOf(r)

\* A step keeps a chunk that every run has.
LEMMA SharedStep ==
  ASSUME TypedInv, Apart, [Next]_vars, NEW s \in Slots, chunk[s] # None, Shared(s)
  PROVE  chunk'[s] # None
<1> USE Sizes, Shapes, Ranges DEF Apart, Shared, Goto, JobGoto, index, archiver, embedder
<1>1. ASSUME NEW d \in Deliveries, Receive(d) PROVE chunk'[s] # None
  BY <1>1 DEF Receive, Replay
<1>2. ASSUME NEW d \in Deliveries, Claim(d) PROVE chunk'[s] # None
  BY <1>2 DEF Claim
<1>3. ASSUME NEW d \in Deliveries, Reread(d) PROVE chunk'[s] # None
  BY <1>3 DEF Reread, Replay
<1>4. ASSUME NEW d \in Deliveries, PutEnvelope(d) PROVE chunk'[s] # None
  BY <1>4 DEF PutEnvelope
<1>5. ASSUME NEW d \in Deliveries, Finalize(d) PROVE chunk'[s] # None
  BY <1>5 DEF Finalize
<1>6. ASSUME NEW d \in Deliveries, FinalizedBefore(d) PROVE chunk'[s] # None
  BY <1>6 DEF FinalizedBefore
<1>7. ASSUME NEW d \in Deliveries, Publish(d) PROVE chunk'[s] # None
  BY <1>7 DEF Publish
<1>8. ASSUME NEW d \in Deliveries, ArchiveFails(d) PROVE chunk'[s] # None
  BY <1>8 DEF ArchiveFails
<1>9. ASSUME NEW a \in Attempts, StartEmbed(a) PROVE chunk'[s] # None
  BY <1>9 DEF StartEmbed
<1>10. ASSUME NEW a \in Attempts, WriteChunk(a) PROVE chunk'[s] # None
  BY <1>10 DEF WriteChunk
<1>11. ASSUME NEW a \in Attempts, Prune(a) PROVE chunk'[s] # None
  BY <1>11 DEF Prune
<1>12. ASSUME NEW a \in Attempts, SetReady(a) PROVE chunk'[s] # None
  BY <1>12 DEF SetReady, Released
<1>13. ASSUME NEW a \in Attempts, EmbedFails(a) PROVE chunk'[s] # None
  BY <1>13 DEF EmbedFails, Released
<1>14. ASSUME UNCHANGED vars PROVE chunk'[s] # None
  BY <1>14 DEF vars
<1> QED
  BY <1>1, <1>2, <1>3, <1>4, <1>5, <1>6, <1>7, <1>8, <1>9, <1>10,
     <1>11, <1>12, <1>13, <1>14
  DEF Next, ArchiveStep, EmbedStep

\* The slots a rewrite has written hold its run, and those that are neither
\* written nor to be written nor to be pruned are empty.
Progressed(a, n) ==
    \A s \in Slots :
        /\ s \in 1 .. n /\ s \in SlotsOf(Target(a)) => chunk[s] = Target(a)
        /\ s \notin SlotsOf(Target(a)) => chunk[s] = None \/ s \in obsolete[a]

Whole(r) == \A s \in Slots : chunk[s] = IF s \in SlotsOf(r) THEN r ELSE None

\* An idle rewrite has written nothing; the one under way, of which there is no
\* other, has done what its place says; and a ready case at rest is whole.
Rewrites ==
    /\ \A a \in Attempts : job[a] \notin Embedding => written[a] = 0
    /\ \A a \in Attempts : job[a] = "write" => written[a] < Size[Target(a)]
    /\ ~overlapped =>
        /\ \A a, b \in Active : a = b
        /\ \A a \in Attempts :
            /\ job[a] = "write" => Progressed(a, written[a])
            /\ job[a] = "prune" => Progressed(a, Size[Target(a)])
            /\ job[a] = "status" => Whole(Target(a))
        /\ retrieval = "ready" /\ (\A a \in Attempts : job[a] \in {"none", "done"}) =>
            \E r \in Runs : state[r] = "completed" /\ Whole(r)

\* A step of the archive, beside the rewrites.
LEMMA RewritesBeside ==
  ASSUME TypedInv, Rewrites, UNCHANGED <<received, obsolete, written, chunk, overlapped>>,
         retrieval' = "ready" => retrieval = "ready",
         \A a \in Attempts : job'[a] = job[a] \/ (job[a] = "none" /\ job'[a] = "queued"),
         \A r \in Runs : state[r] = "completed" => state'[r] = "completed"
  PROVE  Rewrites'
<1> USE DEF Rewrites, Embedding
<1>1. \A a \in Attempts : (job'[a] \in Embedding <=> job[a] \in Embedding)
                            /\ (job'[a] \in Embedding => job'[a] = job[a])
  BY Zenon
<1>2. Active' = Active
  BY <1>1 DEF Active
<1>3. \A a \in Attempts : job'[a] \in {"none", "done"} => job'[a] = job[a]
  OBVIOUS
<1> QED
  BY <1>1, <1>2, <1>3 DEF Progressed, Whole


\* The rewrite under way is the only one, unless rewrites overlapped.
LEMMA Alone ==
  ASSUME Rewrites, ~overlapped, NEW a \in Attempts, job[a] \in Embedding
  PROVE  \A b \in Attempts \ {a} : job[b] \notin Embedding
  BY DEF Rewrites, Active

\* The goal of a step of the rewrite a: what is to be shown of a alone, if no
\* other rewrite is under way afterwards.
LEMMA RewritesOf ==
  ASSUME TypedInv, Rewrites, NEW a \in Attempts,
         \A b \in Attempts \ {a} : job'[b] = job[b] /\ written'[b] = written[b],
         ~overlapped' => \A b \in Attempts \ {a} : job[b] \notin Embedding,
         job'[a] \notin Embedding => written'[a] = 0,
         job'[a] = "write" => written'[a] < Size[Target(a)],
         ~overlapped' =>
            /\ job'[a] = "write" => Progressed(a, written[a])'
            /\ job'[a] = "prune" => Progressed(a, Size[Target(a)])'
            /\ job'[a] = "status" => Whole(Target(a))'
            /\ retrieval' = "ready" /\ job'[a] \in {"none", "done"} =>
                   \E r \in Runs : state'[r] = "completed" /\ Whole(r)'
  PROVE  Rewrites'
<1>1. /\ \A b \in Attempts : job'[b] \notin Embedding => written'[b] = 0
      /\ \A b \in Attempts : job'[b] = "write" => written'[b] < Size[Target(b)]
  BY DEF Rewrites
<1>2. ASSUME ~overlapped'
      PROVE  /\ \A b, c \in Active' : b = c
             /\ \A b \in Attempts :
                 /\ job'[b] = "write" => Progressed(b, written[b])'
                 /\ job'[b] = "prune" => Progressed(b, Size[Target(b)])'
                 /\ job'[b] = "status" => Whole(Target(b))'
             /\ retrieval' = "ready" /\ (\A b \in Attempts : job'[b] \in {"none", "done"}) =>
                 \E r \in Runs : state'[r] = "completed" /\ Whole(r)'
  <2>1. \A b \in Attempts \ {a} : job'[b] \notin Embedding
    BY <1>2
  <2>2. \A b, c \in Active' : b = c
    BY <2>1 DEF Active
  <2>3. \A b \in Attempts : job'[b] \in {"write", "prune", "status"} => b = a
    BY <2>1 DEF Embedding
  <2> QED
    BY <1>2, <2>2, <2>3
<1> QED
  BY <1>1, <1>2 DEF Rewrites

\* The numbers up to the next.
LEMMA NextNumber ==
  \A k \in Nat : \A n \in 1 .. k + 1 : n = k + 1 \/ n \in 1 .. k
  OBVIOUS

\* Every step keeps the rewrites in order.
LEMMA RewritesStep ==
  TypedInv /\ Committed /\ Apart /\ Rewrites /\ [Next]_vars => Rewrites'
<1> SUFFICES ASSUME TypedInv, Committed, Apart, Rewrites, [Next]_vars PROVE Rewrites'
  OBVIOUS
<1>0. \A r \in Runs : state[r] = "completed" => state'[r] = "completed"
  BY CompletedStays
<1> USE Sizes, Shapes, Ranges DEF Goto, JobGoto, index, archiver, embedder
<1>1. ASSUME NEW d \in Deliveries, Receive(d) PROVE Rewrites'
  BY <1>1, <1>0, RewritesBeside DEF Receive, Replay
<1>2. ASSUME NEW d \in Deliveries, Claim(d) PROVE Rewrites'
  BY <1>2, <1>0, RewritesBeside DEF Claim
<1>3. ASSUME NEW d \in Deliveries, Reread(d) PROVE Rewrites'
  BY <1>3, <1>0, RewritesBeside DEF Reread, Replay
<1>4. ASSUME NEW d \in Deliveries, PutEnvelope(d) PROVE Rewrites'
  BY <1>4, <1>0, RewritesBeside DEF PutEnvelope
<1>5. ASSUME NEW d \in Deliveries, Finalize(d) PROVE Rewrites'
  BY <1>5, <1>0, RewritesBeside DEF Finalize
<1>6. ASSUME NEW d \in Deliveries, FinalizedBefore(d) PROVE Rewrites'
  BY <1>6, <1>0, RewritesBeside DEF FinalizedBefore
<1>7. ASSUME NEW d \in Deliveries, Publish(d) PROVE Rewrites'
  <2>1. Attempt(d) \in Attempts /\ job[Attempt(d)] = "none"
    BY <1>7, AttemptIs DEF Publish, Attempt, TypedInv, Receipts
  <2>2. \A a \in Attempts : job'[a] = job[a] \/ (job[a] = "none" /\ job'[a] = "queued")
    BY <1>7, <2>1 DEF Publish
  <2> QED
    BY <1>7, <1>0, <2>2, RewritesBeside DEF Publish
<1>8. ASSUME NEW d \in Deliveries, ArchiveFails(d) PROVE Rewrites'
  BY <1>8, <1>0, RewritesBeside DEF ArchiveFails
<1>9. ASSUME NEW a \in Attempts, StartEmbed(a) PROVE Rewrites'
  <2>1. /\ \A b \in Attempts \ {a} : job'[b] = job[b] /\ written'[b] = written[b]
        /\ job'[a] = "write" /\ written'[a] = written[a] /\ job[a] = "queued"
        /\ ~overlapped' => ~overlapped /\ Active = {}
    BY <1>9 DEF StartEmbed
  <2>2. written'[a] = 0
    BY <2>1 DEF Rewrites, Embedding
  <2>3. ~overlapped' => \A b \in Attempts \ {a} : job[b] \notin Embedding
    BY <2>1 DEF Active
  <2>4. /\ obsolete'[a] = {s \in Slots \ SlotsOf(Target(a)) : chunk[s] # None}
        /\ chunk' = chunk
    BY <1>9 DEF StartEmbed, TypedInv, TypeOK
  <2>5. Progressed(a, written[a])'
    BY <2>2, <2>4 DEF Progressed
  <2>6. 0 < Size[Target(a)] /\ "write" \in Embedding
    BY DEF Embedding
  <2> QED
    BY <2>1, <2>2, <2>3, <2>5, <2>6, RewritesOf
<1>10. ASSUME NEW a \in Attempts, WriteChunk(a) PROVE Rewrites'
  <2> DEFINE s == written[a] + 1
  <2>1. /\ \A b \in Attempts \ {a} : job'[b] = job[b] /\ written'[b] = written[b]
        /\ job[a] = "write" /\ job'[a] = (IF s = Size[Target(a)] THEN "prune" ELSE "write")
        /\ written'[a] = s /\ chunk' = [chunk EXCEPT ![s] = Target(a)]
        /\ UNCHANGED <<obsolete, overlapped>>
    BY <1>10 DEF WriteChunk
  <2>2. s \in Nat /\ s <= Size[Target(a)] /\ s > 0 /\ Size[Target(a)] \in Nat
    BY <2>1 DEF Rewrites
  <2>3. ~overlapped' => \A b \in Attempts \ {a} : job[b] \notin Embedding
    BY <2>1, Alone DEF Embedding
  <2>4. s \in SlotsOf(Target(a)) /\ s \in Slots
    BY <2>2 DEF SlotsOf
  <2>5. ASSUME ~overlapped' PROVE Progressed(a, written[a])'
    <3>1. Progressed(a, written[a])
      BY <2>1, <2>5 DEF Rewrites
    <3>2. written'[a] = s /\ \A n \in 1 .. s : n = s \/ n \in 1 .. written[a]
      BY <2>1, NextNumber
    <3> HIDE DEF s
    <3>3. \A u \in Slots : u # s => chunk'[u] = chunk[u]
      BY <2>1
    <3>4. chunk'[s] = Target(a)
      BY <2>1, <2>4
    <3>5. \A u \in Slots : u \in 1 .. s /\ u # s => u \in 1 .. written[a]
      BY <3>2
    <3> QED
      BY <2>1, <2>4, <3>1, <3>2, <3>3, <3>4, <3>5 DEF Progressed
  <2>6. job'[a] = "write" => written'[a] < Size[Target(a)]
    BY <2>1, <2>2
  <2>7. job'[a] = "prune" => written'[a] = Size[Target(a)]
    BY <2>1
  <2>8. job'[a] \in {"write", "prune"} /\ job'[a] \in Embedding
    BY <2>1 DEF Embedding
  <2>9. ~overlapped' /\ job'[a] = "prune" => Progressed(a, Size[Target(a)])'
    BY <2>5, <2>7 DEF Progressed
  <2> HIDE DEF s
  <2> QED
    BY <2>1, <2>3, <2>5, <2>6, <2>8, <2>9, RewritesOf
<1>11. ASSUME NEW a \in Attempts, Prune(a) PROVE Rewrites'
  <2>1. /\ \A b \in Attempts \ {a} : job'[b] = job[b] /\ written'[b] = written[b]
        /\ job[a] = "prune" /\ job'[a] = "status"
        /\ \A s \in Slots : chunk'[s] = IF s \in obsolete[a] THEN None ELSE chunk[s]
        /\ UNCHANGED <<written, overlapped>>
    BY <1>11 DEF Prune
  <2>2. ~overlapped' => \A b \in Attempts \ {a} : job[b] \notin Embedding
    BY <2>1, Alone DEF Embedding
  <2>3. ASSUME ~overlapped' PROVE Whole(Target(a))'
    <3>1. Progressed(a, Size[Target(a)])
      BY <2>1, <2>3 DEF Rewrites
    <3>2. obsolete[a] \cap SlotsOf(Target(a)) = {}
      BY DEF Apart
    <3> QED
      BY <2>1, <3>1, <3>2 DEF Progressed, Whole, SlotsOf
  <2>4. "status" \in Embedding
    BY DEF Embedding
  <2> QED
    BY <2>1, <2>2, <2>3, <2>4, RewritesOf
<1>12. ASSUME NEW a \in Attempts, SetReady(a) PROVE Rewrites'
  <2>1. /\ \A b \in Attempts \ {a} : job'[b] = job[b] /\ written'[b] = written[b]
        /\ job[a] = "status" /\ job'[a] = "done" /\ written'[a] = 0
        /\ UNCHANGED <<state, chunk, overlapped>>
    BY <1>12 DEF SetReady, Released
  <2>2. ~overlapped' => \A b \in Attempts \ {a} : job[b] \notin Embedding
    BY <2>1, Alone DEF Embedding
  <2>3. Target(a) \in Runs /\ state'[Target(a)] = "completed"
    BY <2>1 DEF Committed
  <2>4. ~overlapped' => Whole(Target(a))'
    BY <2>1 DEF Rewrites, Whole
  <2> QED
    BY <2>1, <2>2, <2>3, <2>4, RewritesOf
<1>13. ASSUME NEW a \in Attempts, EmbedFails(a) PROVE Rewrites'
  <2>1. /\ \A b \in Attempts \ {a} : job'[b] = job[b] /\ written'[b] = written[b]
        /\ job[a] \in Embedding /\ job'[a] \in {"queued", "dead"} /\ written'[a] = 0
        /\ UNCHANGED overlapped
    BY <1>13 DEF EmbedFails, Released
  <2>2. ~overlapped' => \A b \in Attempts \ {a} : job[b] \notin Embedding
    BY <2>1, Alone
  <2> QED
    BY <2>1, <2>2, RewritesOf
<1>14. ASSUME UNCHANGED vars PROVE Rewrites'
  BY <1>14, <1>0, RewritesBeside DEF vars
<1> QED
  BY <1>1, <1>2, <1>3, <1>4, <1>5, <1>6, <1>7, <1>8, <1>9, <1>10,
     <1>11, <1>12, <1>13, <1>14
  DEF Next, ArchiveStep, EmbedStep

-----------------------------------------------------------------------------
(* The theorems *)

\* All of it together is inductive.
ArchiveInv == TypedInv /\ Committed /\ Requested /\ Apart /\ Rewrites

\* The first state has no run, no request and no chunk.
LEMMA ArchiveInit == Init => ArchiveInv
<1> SUFFICES ASSUME Init PROVE ArchiveInv
  OBVIOUS
<1>1. Committed /\ Requested
  BY Ranges DEF Init, Committed, Requested, OnlyCommittedIsVisible
<1>2. Apart
  BY DEF Init, Apart
<1>3. Rewrites
  BY Ranges, Sizes DEF Init, Rewrites, Active, Embedding
<1> QED
  BY <1>1, <1>2, <1>3, TypeInit DEF ArchiveInv

\* Every reachable state satisfies it.
LEMMA ArchiveInvariant == Spec => []ArchiveInv
<1>1. ArchiveInv /\ [Next]_vars => ArchiveInv'
  BY TypeStep, ReceiptsStep, CommittedStep, RequestedStep, ApartStep, RewritesStep
  DEF ArchiveInv, TypedInv
<1> QED
  BY <1>1, ArchiveInit, PTL DEF Spec

\* Readers reach only what is committed: latest_run, every completed run and
\* every chunk lead to a completed run with its envelope, for any number of
\* alerts, redeliveries and failures.
THEOREM OnlyCommittedIsReached == Spec => []OnlyCommittedIsVisible
<1>1. ArchiveInv => OnlyCommittedIsVisible
  BY DEF ArchiveInv, Committed
<1> QED
  BY <1>1, ArchiveInvariant, PTL

\* Acknowledged messages leave no completed run pending without a request.
THEOREM PendingIsRequested == Spec => []PendingMeansRequested
<1>1. ArchiveInv => PendingMeansRequested
  BY DEF ArchiveInv, Requested, PendingMeansRequested
<1> QED
  BY <1>1, ArchiveInvariant, PTL

\* A chunk that every run of the case has, once there, is never missing again,
\* for any number of embedders and of chunks.
THEOREM ChunksStay == Spec => SharedChunksStay
<1>1. ArchiveInv /\ [Next]_vars =>
        [\A s \in Slots :
            chunk[s] # None /\ (\A r \in Runs : s \in SlotsOf(r)) => chunk'[s] # None]_vars
  BY SharedStep DEF ArchiveInv, Shared
<1> QED
  BY <1>1, ArchiveInvariant, PTL DEF Spec, SharedChunksStay

\* A case that is ready, at rest, and was never rewritten by two at once, has
\* exactly the chunks of one completed run.
THEOREM QuietCaseIsWhole == Spec => []QuietIsWhole
<1>1. ASSUME ArchiveInv, ~overlapped, retrieval = "ready",
             \A a \in Attempts : job[a] \in {"none", "done"}
      PROVE  \E r \in Runs :
                 /\ state[r] = "completed"
                 /\ chunk = [s \in Slots |-> IF s \in SlotsOf(r) THEN r ELSE None]
  <2>1. PICK r \in Runs : state[r] = "completed" /\ Whole(r)
    BY <1>1 DEF ArchiveInv, Rewrites
  <2>2. chunk = [s \in Slots |-> chunk[s]]
    BY <1>1, Shapes DEF ArchiveInv
  <2> QED
    BY <2>1, <2>2 DEF Whole
<1>2. ArchiveInv => QuietIsWhole
  BY <1>1 DEF QuietIsWhole
<1> QED
  BY <1>2, ArchiveInvariant, PTL

=============================================================================
