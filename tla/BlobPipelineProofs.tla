------------------------- MODULE BlobPipelineProofs -------------------------
(***************************************************************************)
(* Proofs about BlobPipeline for every number of messages and versions,    *)
(* every dequeue limit, any lock and any number of failures.               *)
(***************************************************************************)
EXTENDS BlobPipeline, FiniteSetTheorems, TLAPS

-----------------------------------------------------------------------------
(* Type correctness *)

\* A message that was sent announces a version there has been.
Announced ==
    \A m \in Messages :
        /\ etag[m] <= version
        /\ pc[m] # "unpublished" => etag[m] \in Versions

\* A message in the queue has been dequeued less often than the limit.
TriesLeft ==
    \A m \in Messages : pc[m] \in Waiting => dequeues[m] < MaxDequeue

\* archive_case never returns without a key.
KeyReturned == \A m \in Messages : pc[m] = "enqueue" => key[m] \in Versions

TypedInv == TypeOK /\ Announced /\ TriesLeft /\ KeyReturned

\* What an update on the ETag that was read does to the item.
LEMMA OwnedUpdate ==
  ASSUME TypeOK, NEW m \in Messages, Owns(m), NEW s \in Outcomes, SetStatus(s)
  PROVE  /\ item' = [status |-> s, token |-> token[m]]
         /\ item' \in Items
         /\ item # NoItem /\ item' # NoItem
         /\ item.status = "in_progress" /\ item.token = token[m]
<1>1. token[m] \in Tokens
  BY DEF TypeOK
<1> QED
  BY <1>1 DEF Owns, InProgress, SetStatus, Items, NoItem, Outcomes

\* What begin_side_effect writes is an item.
LEMMA ReservationType ==
  ASSUME TypeOK, NEW m \in Messages
  PROVE  /\ PutToken(m) \in Tokens /\ TakeoverToken(m) \in Tokens
         /\ InProgress(PutToken(m)) \in Items /\ InProgress(TakeoverToken(m)) \in Items
  BY DEF TypeOK, PutToken, TakeoverToken, Tokens, InProgress, Items

\* What archive_case writes is a run.
LEMMA RunType ==
  ASSUME TypeOK, NEW m \in Messages
  PROVE  Claimed(m) \in Runs /\ Completed(m) \in Runs
  BY DEF TypeOK, Claimed, Completed, Runs

\* Every step keeps the types, and what a message announces, counts and returns.
LEMMA TypeStep ==
  TypedInv /\ [Next]_vars => TypedInv'
<1> SUFFICES ASSUME TypedInv, [Next]_vars PROVE TypedInv'
  OBVIOUS
<1> USE JobsAssumption, LimitsAssumption
    DEF TypedInv, TypeOK, Announced, TriesLeft, KeyReturned, Versions, Goto, Fault, NoFault,
        Retry, Raised, guard, archive, intake, Waiting, Running, PastRead, Sink, Archiving, Ended
<1>1. ASSUME NEW m \in Messages, Publish(m) PROVE TypedInv'
  BY <1>1 DEF Publish
<1>2. ASSUME NEW m \in Messages, Dequeue(m) PROVE TypedInv'
  BY <1>2 DEF Dequeue
<1>3. ASSUME NEW m \in Messages, Read(m) PROVE TypedInv'
  BY <1>3 DEF Read
<1>4. ASSUME NEW m \in Messages, WriteReport(m, "md", "json") PROVE TypedInv'
  BY <1>4 DEF WriteReport
<1>5. ASSUME NEW m \in Messages, WriteReport(m, "json", "reserve") PROVE TypedInv'
  BY <1>5 DEF WriteReport
<1>6. ASSUME NEW m \in Messages, Create(m, "reserve", "found") PROVE TypedInv'
  <2>1. item' \in Items \cup {NoItem} /\ stale' \in BOOLEAN /\ token' \in [Messages -> Tokens]
    BY <1>6, ReservationType DEF Create
  <2>2. pc' \in [Messages -> Waiting \cup Running \cup Ended]
    BY <1>6 DEF Create
  <2> QED
    BY <1>6, <2>1, <2>2 DEF Create
<1>7. ASSUME NEW m \in Messages, Create(m, "again", "seen") PROVE TypedInv'
  <2>1. item' \in Items \cup {NoItem} /\ stale' \in BOOLEAN /\ token' \in [Messages -> Tokens]
    BY <1>7, ReservationType DEF Create
  <2>2. pc' \in [Messages -> Waiting \cup Running \cup Ended]
    BY <1>7 DEF Create
  <2> QED
    BY <1>7, <2>1, <2>2 DEF Create
<1>8. ASSUME NEW m \in Messages, Found(m) PROVE TypedInv'
  <2>1. item # NoItem => item.token \in Tokens
    BY DEF Items
  <2>2. token' \in [Messages -> Tokens] /\ pc' \in [Messages -> Waiting \cup Running \cup Ended]
    BY <1>8, <2>1 DEF Found
  <2> QED
    BY <1>8, <2>2 DEF Found
<1>9. ASSUME NEW m \in Messages, Seen(m) PROVE TypedInv'
  BY <1>9 DEF Seen
<1>10. ASSUME NEW m \in Messages, TakeOver(m) PROVE TypedInv'
  <2>1. /\ item' \in Items \cup {NoItem} /\ stale' \in BOOLEAN
        /\ token' \in [Messages -> Tokens]
    BY <1>10, ReservationType DEF TakeOver
  <2>3. renewals' \in Nat
    BY <1>10 DEF TakeOver
  <2>2. pc' \in [Messages -> Waiting \cup Running \cup Ended]
    BY <1>10 DEF TakeOver
  <2> QED
    BY <1>10, <2>1, <2>2, <2>3 DEF TakeOver
<1>11. ASSUME NEW m \in Messages, Post(m) PROVE TypedInv'
  <2>1. applied' \in Nat
    BY <1>11 DEF Post
  <2>4. pc' \in [Messages -> Waiting \cup Running \cup Ended]
    BY <1>11 DEF Post
  <2>5. faults' \in 0 .. MaxFaults
    BY <1>11 DEF Post
  <2>2. UNCHANGED <<intake, report, item, stale, token, renewals, expiries, archive>>
    BY <1>11 DEF Post
  <2>3. /\ pc[m] = "post"
        /\ pc' = [pc EXCEPT ![m] = "record"] \/ pc' = [pc EXCEPT ![m] = "release"]
    BY <1>11 DEF Post
  <2>6. TypeOK'
    BY <2>1, <2>2, <2>4, <2>5
  <2>7. Announced'
    BY <2>2, <2>3, <2>4
  <2>8. TriesLeft'
    BY <2>2, <2>3, <2>4
  <2>9. KeyReturned'
    BY <2>2, <2>3, <2>4
  <2> QED
    BY <2>6, <2>7, <2>8, <2>9
<1>12. ASSUME NEW m \in Messages, Record(m) PROVE TypedInv'
  <2>1. item' \in Items \cup {NoItem}
    BY <1>12, OwnedUpdate DEF Record, Outcomes
  <2>2. pc' \in [Messages -> Waiting \cup Running \cup Ended]
    BY <1>12 DEF Record
  <2>5. faults' \in 0 .. MaxFaults
    BY <1>12 DEF Record
  <2>3. /\ pc[m] = "record"
        /\ pc' = [pc EXCEPT ![m] = "look"] \/ pc' = [pc EXCEPT ![m] = "mark"]
    BY <1>12 DEF Record
  <2>4. UNCHANGED <<intake, report, stale, token, applied, renewals, expiries, archive>>
    BY <1>12 DEF Record
  <2>6. TypeOK'
    BY <2>1, <2>2, <2>4, <2>5
  <2>7. Announced'
    BY <2>2, <2>3, <2>4
  <2>8. TriesLeft'
    BY <2>2, <2>3, <2>4
  <2>9. KeyReturned'
    BY <2>2, <2>3, <2>4
  <2> QED
    BY <2>6, <2>7, <2>8, <2>9
<1>13. ASSUME NEW m \in Messages, Mark(m) PROVE TypedInv'
  <2>1. item' \in Items \cup {NoItem}
    BY <1>13, OwnedUpdate DEF Mark, Outcomes
  <2>2. pc' \in [Messages -> Waiting \cup Running \cup Ended] /\ faults' \in 0 .. MaxFaults
    BY <1>13 DEF Mark
  <2>3. pc' = [pc EXCEPT ![m] = "look"]
    BY <1>13 DEF Mark
  <2>4. UNCHANGED <<intake, report, stale, token, applied, renewals, expiries, archive>>
    BY <1>13 DEF Mark
  <2> QED
    BY <1>13, <2>1, <2>2, <2>3, <2>4 DEF Mark
<1>14. ASSUME NEW m \in Messages, Release(m) PROVE TypedInv'
  BY <1>14 DEF Release
<1>15. ASSUME NEW m \in Messages, Look(m) PROVE TypedInv'
  <2>1. etag[m] \in Versions
    BY <1>15 DEF Look
  <2>2. key' \in [Messages -> 0 .. MaxVersion] /\ pc' \in [Messages -> Waiting \cup Running \cup Ended]
    BY <1>15, <2>1 DEF Look
  <2>3. KeyReturned'
    <3>1. ASSUME NEW n \in Messages, pc'[n] = "enqueue" PROVE key'[n] \in Versions
      <4>1. CASE n = m
        BY <1>15, <2>1, <3>1, <4>1 DEF Look
      <4>2. CASE n # m
        BY <1>15, <3>1, <4>2 DEF Look
      <4> QED
        BY <4>1, <4>2
    <3> QED
      BY <3>1
  <2> QED
    BY <1>15, <2>2, <2>3 DEF Look
<1>16. ASSUME NEW m \in Messages, CreateCase(m) PROVE TypedInv'
  <2>1. etag[m] \in Versions
    BY <1>16 DEF CreateCase
  <2>2. /\ runs' \in [Versions -> Runs \cup {NoRun}]
    BY <1>16, <2>1, RunType DEF CreateCase
  <2>3. pc' \in [Messages -> Waiting \cup Running \cup Ended]
    BY <1>16 DEF CreateCase
  <2>4. KeyReturned'
    BY <1>16, <2>1 DEF CreateCase
  <2> QED
    BY <1>16, <2>1, <2>2, <2>3, <2>4 DEF CreateCase
<1>17. ASSUME NEW m \in Messages, Reread(m) PROVE TypedInv'
  <2>1. etag[m] \in Versions
    BY <1>17 DEF Reread
  <2>2. runs' \in [Versions -> Runs \cup {NoRun}]
    BY <1>17, <2>1, RunType DEF Reread
  <2>5. key' \in [Messages -> 0 .. MaxVersion]
    BY <1>17 DEF Reread
  <2>6. faults' \in 0 .. MaxFaults
    BY <1>17 DEF Reread
  <2>3. pc' \in [Messages -> Waiting \cup Running \cup Ended]
    BY <1>17 DEF Reread
  <2>4. KeyReturned'
    BY <1>17, <2>1 DEF Reread
  <2> QED
    BY <1>17, <2>2, <2>3, <2>4, <2>5, <2>6 DEF Reread
<1>18. ASSUME NEW m \in Messages, WriteEnvelope(m) PROVE TypedInv'
  BY <1>18 DEF WriteEnvelope
<1>19. ASSUME NEW m \in Messages, PublishRun(m) PROVE TypedInv'
  <2>1. etag[m] \in Versions
    BY <1>19 DEF PublishRun
  <2>2. /\ runs' \in [Versions -> Runs \cup {NoRun}]
        /\ latest' \in 0 .. MaxVersion
        /\ key' \in [Messages -> 0 .. MaxVersion]
        /\ faults' \in 0 .. MaxFaults
    BY <1>19, <2>1, RunType DEF PublishRun
  <2>3. pc' \in [Messages -> Waiting \cup Running \cup Ended]
    BY <1>19 DEF PublishRun
  <2>4. KeyReturned'
    BY <1>19, <2>1 DEF PublishRun
  <2> QED
    BY <1>19, <2>1, <2>2, <2>3, <2>4 DEF PublishRun
<1>20. ASSUME NEW m \in Messages, Enqueue(m) PROVE TypedInv'
  BY <1>20 DEF Enqueue
<1>21. ASSUME NEW m \in Messages, Fail(m) PROVE TypedInv'
  BY <1>21 DEF Fail
<1>22. ASSUME NEW m \in Messages, ArchiveFails(m) PROVE TypedInv'
  BY <1>22 DEF ArchiveFails
<1>23. ASSUME Replace PROVE TypedInv'
  BY <1>23 DEF Replace
<1>24. ASSUME Lapse PROVE TypedInv'
  BY <1>24 DEF Lapse
<1>25. ASSUME Expire PROVE TypedInv'
  <2>1. item' = NoItem /\ stale' = FALSE /\ expiries' = expiries + 1
    BY <1>25 DEF Expire
  <2>2. expiries' \in Nat
    BY <2>1
  <2>5. item' \in Items \cup {NoItem} /\ stale' \in BOOLEAN
    BY <2>1
  <2>3. faults' \in 0 .. MaxFaults
    BY <1>25 DEF Expire
  <2>4. UNCHANGED <<intake, pc, report, token, applied, renewals, archive>>
    BY <1>25 DEF Expire
  <2> QED
    BY <2>2, <2>3, <2>4, <2>5
<1>26. ASSUME UNCHANGED vars PROVE TypedInv'
  BY <1>26 DEF vars
<1> QED
  BY <1>1, <1>2, <1>3, <1>4, <1>5, <1>6, <1>7, <1>8, <1>9, <1>10,
     <1>11, <1>12, <1>13, <1>14, <1>15, <1>16, <1>17, <1>18, <1>19, <1>20,
     <1>21, <1>22, <1>23, <1>24, <1>25, <1>26
  DEF Next, Step

\* The first state is well typed.
LEMMA TypeInit == Init => TypedInv
<1> SUFFICES ASSUME Init PROVE TypedInv
  OBVIOUS
<1>1. \A m \in Messages : <<m, 0, "put">> \in Tokens
  BY LimitsAssumption DEF Tokens
<1>2. /\ version \in Versions /\ latest \in 0 .. MaxVersion
      /\ etag \in [Messages -> 0 .. MaxVersion] /\ key \in [Messages -> 0 .. MaxVersion]
      /\ dequeues \in [Messages -> 0 .. MaxDequeue]
      /\ report \in [Kinds -> 0 .. MaxVersion]
      /\ faults \in 0 .. MaxFaults
  BY JobsAssumption, LimitsAssumption DEF Init, Versions
<1>3. /\ pc \in [Messages -> Waiting \cup Running \cup Ended]
      /\ token \in [Messages -> Tokens]
      /\ runs \in [Versions -> Runs \cup {NoRun}]
      /\ item \in Items \cup {NoItem}
  BY <1>1 DEF Init, Waiting
<1>4. TypeOK
  BY <1>2, <1>3 DEF Init, TypeOK
<1> QED
  BY <1>4, JobsAssumption, LimitsAssumption DEF Init, TypedInv, Announced, TriesLeft, KeyReturned

\* The typed invariant holds throughout: every later lemma starts from it.
LEMMA Typed == Spec => []TypedInv
  BY TypeInit, TypeStep, PTL DEF Spec

\* The state of the pipeline is well typed: nothing is asked of the embedder
\* but keys of versions, and no message is dequeued beyond the limit.
THEOREM TypeCorrect == Spec => []TypeOK
  BY Typed, PTL DEF TypedInv

-----------------------------------------------------------------------------
(* Truthful outcomes *)

\* Who is about to record a success has had one.
SuccessWasReal ==
    /\ \A m \in Messages : pc[m] \in {"record", "mark"} => applied > 0
    /\ OutcomeMeansApplied

\* A step past the POST comes from a POST that Splunk answered.
LEMMA SuccessStep ==
  TypeOK /\ SuccessWasReal /\ [Next]_vars => SuccessWasReal'
<1> SUFFICES ASSUME TypeOK, SuccessWasReal, [Next]_vars PROVE SuccessWasReal'
  OBVIOUS
<1> USE DEF TypeOK, SuccessWasReal, OutcomeMeansApplied, Goto, Fault, NoFault, guard, Retry, Raised
<1>1. ASSUME NEW m \in Messages, Publish(m) PROVE SuccessWasReal'
  BY <1>1 DEF Publish
<1>2. ASSUME NEW m \in Messages, Dequeue(m) PROVE SuccessWasReal'
  BY <1>2 DEF Dequeue
<1>3. ASSUME NEW m \in Messages, Read(m) PROVE SuccessWasReal'
  BY <1>3 DEF Read
<1>4. ASSUME NEW m \in Messages, WriteReport(m, "md", "json") PROVE SuccessWasReal'
  BY <1>4 DEF WriteReport
<1>5. ASSUME NEW m \in Messages, WriteReport(m, "json", "reserve") PROVE SuccessWasReal'
  BY <1>5 DEF WriteReport
<1>6. ASSUME NEW m \in Messages, Create(m, "reserve", "found") PROVE SuccessWasReal'
  BY <1>6 DEF Create, InProgress
<1>7. ASSUME NEW m \in Messages, Create(m, "again", "seen") PROVE SuccessWasReal'
  BY <1>7 DEF Create, InProgress
<1>8. ASSUME NEW m \in Messages, Found(m) PROVE SuccessWasReal'
  BY <1>8 DEF Found
<1>9. ASSUME NEW m \in Messages, Seen(m) PROVE SuccessWasReal'
  BY <1>9 DEF Seen
<1>10. ASSUME NEW m \in Messages, TakeOver(m) PROVE SuccessWasReal'
  BY <1>10 DEF TakeOver, InProgress
<1>11. ASSUME NEW m \in Messages, Post(m) PROVE SuccessWasReal'
  BY <1>11 DEF Post
<1>12. ASSUME NEW m \in Messages, Record(m) PROVE SuccessWasReal'
  BY <1>12 DEF Record
<1>13. ASSUME NEW m \in Messages, Mark(m) PROVE SuccessWasReal'
  BY <1>13 DEF Mark
<1>14. ASSUME NEW m \in Messages, Release(m) PROVE SuccessWasReal'
  BY <1>14 DEF Release
<1>15. ASSUME NEW m \in Messages, Look(m) PROVE SuccessWasReal'
  BY <1>15 DEF Look
<1>16. ASSUME NEW m \in Messages, CreateCase(m) PROVE SuccessWasReal'
  BY <1>16 DEF CreateCase
<1>17. ASSUME NEW m \in Messages, Reread(m) PROVE SuccessWasReal'
  BY <1>17 DEF Reread
<1>18. ASSUME NEW m \in Messages, WriteEnvelope(m) PROVE SuccessWasReal'
  BY <1>18 DEF WriteEnvelope
<1>19. ASSUME NEW m \in Messages, PublishRun(m) PROVE SuccessWasReal'
  BY <1>19 DEF PublishRun
<1>20. ASSUME NEW m \in Messages, Enqueue(m) PROVE SuccessWasReal'
  BY <1>20 DEF Enqueue
<1>21. ASSUME NEW m \in Messages, Fail(m) PROVE SuccessWasReal'
  BY <1>21 DEF Fail
<1>22. ASSUME NEW m \in Messages, ArchiveFails(m) PROVE SuccessWasReal'
  BY <1>22 DEF ArchiveFails
<1>23. ASSUME Replace PROVE SuccessWasReal'
  BY <1>23 DEF Replace
<1>24. ASSUME Lapse PROVE SuccessWasReal'
  BY <1>24 DEF Lapse
<1>25. ASSUME Expire PROVE SuccessWasReal'
  BY <1>25 DEF Expire
<1>26. ASSUME UNCHANGED vars PROVE SuccessWasReal'
  BY <1>26 DEF vars
<1> QED
  BY <1>1, <1>2, <1>3, <1>4, <1>5, <1>6, <1>7, <1>8, <1>9, <1>10,
     <1>11, <1>12, <1>13, <1>14, <1>15, <1>16, <1>17, <1>18, <1>19, <1>20,
     <1>21, <1>22, <1>23, <1>24, <1>25, <1>26
  DEF Next, Step

\* Reservations that say "completed" or "external_success_unrecorded" are
\* truthful for any failures: later deliveries skip a comment that is there.
THEOREM OutcomesAreTruthful == Spec => []OutcomeMeansApplied
<1>1. Init => SuccessWasReal
  BY DEF Init, SuccessWasReal, OutcomeMeansApplied
<1>2. SuccessWasReal => OutcomeMeansApplied
  BY DEF SuccessWasReal
<1> QED
  BY <1>1, <1>2, SuccessStep, TypeCorrect, PTL DEF Spec

-----------------------------------------------------------------------------
(* Whole runs *)

\* The order of the archive: who publishes has put its envelope, and there is
\* neither a run nor a key before there is a case.
EnvelopeFirst ==
    /\ \A m \in Messages :
        /\ pc[m] = "publish" => etag[m] \in envelopes
        /\ pc[m] \in {"reread", "write", "publish"} => hasCase
    /\ ~hasCase => latest = 0 /\ \A v \in Versions : runs[v] = NoRun

WholeInv == EnvelopeFirst /\ CompletedRunIsWhole

\* Every step keeps the envelope ahead of the completion of its run.
LEMMA WholeStep ==
  TypedInv /\ WholeInv /\ [Next]_vars => WholeInv'
<1> SUFFICES ASSUME TypedInv, WholeInv, [Next]_vars PROVE WholeInv'
  OBVIOUS
<1> USE DEF TypedInv, TypeOK, Announced, WholeInv, EnvelopeFirst, CompletedRunIsWhole, Goto, Fault,
            NoFault, archive, intake, Retry, Raised
<1>1. ASSUME NEW m \in Messages, Publish(m) PROVE WholeInv'
  BY <1>1 DEF Publish
<1>2. ASSUME NEW m \in Messages, Dequeue(m) PROVE WholeInv'
  BY <1>2 DEF Dequeue
<1>3. ASSUME NEW m \in Messages, Read(m) PROVE WholeInv'
  BY <1>3 DEF Read
<1>4. ASSUME NEW m \in Messages, WriteReport(m, "md", "json") PROVE WholeInv'
  BY <1>4 DEF WriteReport
<1>5. ASSUME NEW m \in Messages, WriteReport(m, "json", "reserve") PROVE WholeInv'
  BY <1>5 DEF WriteReport
<1>6. ASSUME NEW m \in Messages, Create(m, "reserve", "found") PROVE WholeInv'
  BY <1>6 DEF Create
<1>7. ASSUME NEW m \in Messages, Create(m, "again", "seen") PROVE WholeInv'
  BY <1>7 DEF Create
<1>8. ASSUME NEW m \in Messages, Found(m) PROVE WholeInv'
  BY <1>8 DEF Found
<1>9. ASSUME NEW m \in Messages, Seen(m) PROVE WholeInv'
  BY <1>9 DEF Seen
<1>10. ASSUME NEW m \in Messages, TakeOver(m) PROVE WholeInv'
  BY <1>10 DEF TakeOver
<1>11. ASSUME NEW m \in Messages, Post(m) PROVE WholeInv'
  BY <1>11 DEF Post
<1>12. ASSUME NEW m \in Messages, Record(m) PROVE WholeInv'
  BY <1>12 DEF Record
<1>13. ASSUME NEW m \in Messages, Mark(m) PROVE WholeInv'
  BY <1>13 DEF Mark
<1>14. ASSUME NEW m \in Messages, Release(m) PROVE WholeInv'
  BY <1>14 DEF Release
<1>15. ASSUME NEW m \in Messages, Look(m) PROVE WholeInv'
  BY <1>15 DEF Look
<1>16. ASSUME NEW m \in Messages, CreateCase(m) PROVE WholeInv'
  <2>1. etag[m] \in Versions
    BY <1>16 DEF CreateCase
  <2>2. Claimed(m).state = "claimed" /\ NoRun.state = "none"
    BY DEF Claimed, NoRun
  <2> QED
    BY <1>16, <2>1, <2>2 DEF CreateCase
<1>17. ASSUME NEW m \in Messages, Reread(m) PROVE WholeInv'
  <2>1. etag[m] \in Versions
    BY <1>17 DEF Reread
  <2>2. Claimed(m).state = "claimed" /\ NoRun.state = "none"
    BY DEF Claimed, NoRun
  <2>3. /\ runs' = runs \/ (runs[etag[m]] = NoRun /\ runs' = [runs EXCEPT ![etag[m]] = Claimed(m)])
        /\ UNCHANGED <<etag, latest, hasCase, envelopes>>
    BY <1>17 DEF Reread
  <2>4. CompletedRunIsWhole'
    <3>1. CASE runs' = runs
      BY <2>3, <3>1
    <3>2. CASE runs[etag[m]] = NoRun /\ runs' = [runs EXCEPT ![etag[m]] = Claimed(m)]
      <4>1. \A v \in Versions : runs'[v] = IF v = etag[m] THEN Claimed(m) ELSE runs[v]
        BY <2>1, <3>2
      <4>2. latest # 0 => latest \in Versions /\ latest # etag[m]
        BY <2>2, <3>2, JobsAssumption DEF Versions
      <4> QED
        BY <2>2, <2>3, <4>1, <4>2
    <3> QED
      BY <2>3, <3>1, <3>2
  <2>5. hasCase
    BY <1>17 DEF Reread
  <2> QED
    BY <1>17, <2>3, <2>4, <2>5 DEF Reread
<1>18. ASSUME NEW m \in Messages, WriteEnvelope(m) PROVE WholeInv'
  BY <1>18 DEF WriteEnvelope
<1>19. ASSUME NEW m \in Messages, PublishRun(m) PROVE WholeInv'
  <2>1. etag[m] \in Versions
    BY <1>19 DEF PublishRun
  <2>2. Completed(m).state = "completed"
    BY DEF Completed
  <2>3. CASE UNCHANGED <<runs, latest>>
    BY <1>19, <2>3 DEF PublishRun
  <2>4. CASE /\ pc[m] = "publish" /\ pc' = [pc EXCEPT ![m] = "enqueue"]
             /\ runs' = [runs EXCEPT ![etag[m]] = Completed(m)]
             /\ latest' \in {etag[m]} \cup ({latest} \ {0})
    <3>1. \A v \in Versions : runs'[v] = IF v = etag[m] THEN Completed(m) ELSE runs[v]
      BY <2>1, <2>4
    <3>2. UNCHANGED <<etag, envelopes, hasCase>>
      BY <1>19 DEF PublishRun
    <3>3. latest' \in Versions
      BY <2>1, <2>4, JobsAssumption DEF Versions
    <3>4. CompletedRunIsWhole'
      BY <2>1, <2>2, <2>4, <3>1, <3>2, <3>3
    <3>5. EnvelopeFirst'
      BY <2>1, <2>4, <3>2
    <3> QED
      BY <3>4, <3>5
  <2> QED
    BY <1>19, <2>3, <2>4 DEF PublishRun
<1>20. ASSUME NEW m \in Messages, Enqueue(m) PROVE WholeInv'
  BY <1>20 DEF Enqueue
<1>21. ASSUME NEW m \in Messages, Fail(m) PROVE WholeInv'
  BY <1>21 DEF Fail
<1>22. ASSUME NEW m \in Messages, ArchiveFails(m) PROVE WholeInv'
  BY <1>22 DEF ArchiveFails
<1>23. ASSUME Replace PROVE WholeInv'
  BY <1>23 DEF Replace
<1>24. ASSUME Lapse PROVE WholeInv'
  BY <1>24 DEF Lapse
<1>25. ASSUME Expire PROVE WholeInv'
  BY <1>25 DEF Expire
<1>26. ASSUME UNCHANGED vars PROVE WholeInv'
  BY <1>26 DEF vars
<1> QED
  BY <1>1, <1>2, <1>3, <1>4, <1>5, <1>6, <1>7, <1>8, <1>9, <1>10,
     <1>11, <1>12, <1>13, <1>14, <1>15, <1>16, <1>17, <1>18, <1>19, <1>20,
     <1>21, <1>22, <1>23, <1>24, <1>25, <1>26
  DEF Next, Step

\* Whatever fails between the stores, and however many messages and versions
\* race for the case: a completed run and the run the case points at have
\* their envelope.
THEOREM RunsAreWhole == Spec => []CompletedRunIsWhole
<1>1. Init => WholeInv
  BY DEF Init, WholeInv, EnvelopeFirst, CompletedRunIsWhole, NoRun
<1>2. WholeInv => CompletedRunIsWhole
  BY DEF WholeInv
<1> QED
  BY <1>1, <1>2, WholeStep, Typed, PTL DEF Spec

-----------------------------------------------------------------------------
(* Reports and versions *)

\* A job past its conditional read works for the version of the moment, or
\* was overtaken; no report is of a later one.
ReadWasCurrent ==
    /\ \A m \in Messages : pc[m] \in PastRead => etag[m] = version \/ m \in overtaken
    /\ \A k \in Kinds : report[k] <= version

\* Every step keeps the version that was read current, or its job overtaken.
LEMMA CurrentStep ==
  TypedInv /\ ReadWasCurrent /\ [Next]_vars => ReadWasCurrent'
<1> SUFFICES ASSUME TypedInv, ReadWasCurrent, [Next]_vars PROVE ReadWasCurrent'
  OBVIOUS
<1> USE DEF TypedInv, TypeOK, Announced, Versions, ReadWasCurrent, PastRead, Sink, Archiving,
            Goto, Fault, NoFault, intake, guard, archive, Retry, Raised
<1>1. ASSUME NEW m \in Messages, Publish(m) PROVE ReadWasCurrent'
  BY <1>1 DEF Publish
<1>2. ASSUME NEW m \in Messages, Dequeue(m) PROVE ReadWasCurrent'
  BY <1>2 DEF Dequeue
<1>3. ASSUME NEW m \in Messages, Read(m) PROVE ReadWasCurrent'
  BY <1>3 DEF Read
<1>4. ASSUME NEW m \in Messages, WriteReport(m, "md", "json") PROVE ReadWasCurrent'
  BY <1>4 DEF WriteReport
<1>5. ASSUME NEW m \in Messages, WriteReport(m, "json", "reserve") PROVE ReadWasCurrent'
  BY <1>5 DEF WriteReport
<1>6. ASSUME NEW m \in Messages, Create(m, "reserve", "found") PROVE ReadWasCurrent'
  BY <1>6 DEF Create
<1>7. ASSUME NEW m \in Messages, Create(m, "again", "seen") PROVE ReadWasCurrent'
  BY <1>7 DEF Create
<1>8. ASSUME NEW m \in Messages, Found(m) PROVE ReadWasCurrent'
  BY <1>8 DEF Found
<1>9. ASSUME NEW m \in Messages, Seen(m) PROVE ReadWasCurrent'
  BY <1>9 DEF Seen
<1>10. ASSUME NEW m \in Messages, TakeOver(m) PROVE ReadWasCurrent'
  BY <1>10 DEF TakeOver
<1>11. ASSUME NEW m \in Messages, Post(m) PROVE ReadWasCurrent'
  BY <1>11 DEF Post
<1>12. ASSUME NEW m \in Messages, Record(m) PROVE ReadWasCurrent'
  BY <1>12 DEF Record
<1>13. ASSUME NEW m \in Messages, Mark(m) PROVE ReadWasCurrent'
  BY <1>13 DEF Mark
<1>14. ASSUME NEW m \in Messages, Release(m) PROVE ReadWasCurrent'
  BY <1>14 DEF Release
<1>15. ASSUME NEW m \in Messages, Look(m) PROVE ReadWasCurrent'
  BY <1>15 DEF Look
<1>16. ASSUME NEW m \in Messages, CreateCase(m) PROVE ReadWasCurrent'
  BY <1>16 DEF CreateCase
<1>17. ASSUME NEW m \in Messages, Reread(m) PROVE ReadWasCurrent'
  BY <1>17 DEF Reread
<1>18. ASSUME NEW m \in Messages, WriteEnvelope(m) PROVE ReadWasCurrent'
  BY <1>18 DEF WriteEnvelope
<1>19. ASSUME NEW m \in Messages, PublishRun(m) PROVE ReadWasCurrent'
  BY <1>19 DEF PublishRun
<1>20. ASSUME NEW m \in Messages, Enqueue(m) PROVE ReadWasCurrent'
  BY <1>20 DEF Enqueue
<1>21. ASSUME NEW m \in Messages, Fail(m) PROVE ReadWasCurrent'
  BY <1>21 DEF Fail
<1>22. ASSUME NEW m \in Messages, ArchiveFails(m) PROVE ReadWasCurrent'
  BY <1>22 DEF ArchiveFails
<1>23. ASSUME Replace PROVE ReadWasCurrent'
  BY <1>23 DEF Replace
<1>24. ASSUME Lapse PROVE ReadWasCurrent'
  BY <1>24 DEF Lapse
<1>25. ASSUME Expire PROVE ReadWasCurrent'
  BY <1>25 DEF Expire
<1>26. ASSUME UNCHANGED vars PROVE ReadWasCurrent'
  BY <1>26 DEF vars
<1> QED
  BY <1>1, <1>2, <1>3, <1>4, <1>5, <1>6, <1>7, <1>8, <1>9, <1>10,
     <1>11, <1>12, <1>13, <1>14, <1>15, <1>16, <1>17, <1>18, <1>19, <1>20,
     <1>21, <1>22, <1>23, <1>24, <1>25, <1>26
  DEF Next, Step

\* Only WriteReport changes a report, and what it writes is older only for a job overtaken.
LEMMA OldReport ==
  ASSUME TypedInv, ReadWasCurrent, [Next]_vars, NEW k \in Kinds, report'[k] < report[k]
  PROVE  \E m \in overtaken : pc[m] = k /\ report'[k] = etag[m]
<1>1. ASSUME NEW m \in Messages, NEW kind \in Kinds, NEW next, WriteReport(m, kind, next)
      PROVE  m \in overtaken /\ pc[m] = k /\ report'[k] = etag[m]
  <2>1. report'[kind] = etag[m] /\ (kind # k => report'[k] = report[k])
    BY <1>1 DEF WriteReport, TypedInv, TypeOK
  <2>2. kind = k
    BY <2>1 DEF TypedInv, TypeOK
  <2>3. pc[m] = k
    BY <1>1, <2>2 DEF WriteReport, Goto
  <2>4. etag[m] # version
    BY <2>1, <2>2 DEF TypedInv, TypeOK, Versions, ReadWasCurrent
  <2>5. pc[m] \in PastRead
    BY <2>3 DEF PastRead, Sink, Kinds
  <2> QED
    BY <2>1, <2>2, <2>3, <2>4, <2>5 DEF ReadWasCurrent
<1>2. ASSUME UNCHANGED report PROVE FALSE
  BY <1>2 DEF TypedInv, TypeOK
<1>3. ASSUME NEW m \in Messages, Step(m) \/ Fail(m) \/ ArchiveFails(m)
      PROVE  \/ WriteReport(m, "md", "json") \/ WriteReport(m, "json", "reserve")
             \/ UNCHANGED report
  BY <1>3 DEF Step, Fail, ArchiveFails, Publish, Dequeue, Read, Create, Found, TakeOver, Seen,
              Post, Record, Mark, Release, Look, CreateCase, Reread, WriteEnvelope, PublishRun,
              Enqueue
<1>4. "md" \in Kinds /\ "json" \in Kinds
  BY DEF Kinds
<1>5. Replace \/ Lapse \/ Expire \/ UNCHANGED vars => UNCHANGED report
  BY DEF Replace, Lapse, Expire, vars
<1> QED
  BY <1>1, <1>2, <1>3, <1>4, <1>5 DEF Next

\* A report goes back to an older version of the blob only through a job that
\* had read that version before the blob was replaced.
THEOREM OldReportsOnlyByOvertaken == Spec => OldReportOnlyIfOvertaken
<1>1. Init => ReadWasCurrent
  BY DEF Init, ReadWasCurrent, PastRead, Sink, Archiving
<1>2. TypedInv /\ ReadWasCurrent /\ [Next]_vars => ReadWasCurrent'
  BY CurrentStep
<1>3. TypedInv /\ ReadWasCurrent /\ [Next]_vars
        => [\A k \in Kinds : report'[k] < report[k] =>
               \E m \in overtaken : pc[m] = k /\ report'[k] = etag[m]]_vars
  BY OldReport
<1> QED
  BY <1>1, <1>2, <1>3, Typed, PTL DEF Spec, OldReportOnlyIfOvertaken

-----------------------------------------------------------------------------
(* The reservation is implemented *)

\* Where an invocation still has to do with its own reservation.
Writing == {"post", "record", "mark", "release"}

\* A writing invocation holds a token it made itself.
WriterMade ==
    \A m \in Messages : pc[m] \in Writing => token[m] \in {PutToken(m), TakeoverToken(m)}

\* The tokens whose invocations are about to post: Guard's armed.
PostTokens == {token[m] : m \in {n \in Messages : pc[n] = "post"}}

\* Every step keeps WriterMade.
LEMMA WriterMadeStep ==
  ASSUME TypeOK, WriterMade, [Next]_vars
  PROVE  WriterMade'
<1> USE DEF TypeOK, WriterMade, Goto, Writing, PutToken, TakeoverToken, guard, archive, intake,
        Waiting, Running, PastRead, Sink, Archiving, Ended, Retry, Raised
<1>1. ASSUME NEW m \in Messages, Publish(m) PROVE WriterMade'
  BY <1>1 DEF Publish
<1>2. ASSUME NEW m \in Messages, Dequeue(m) PROVE WriterMade'
  BY <1>2 DEF Dequeue
<1>3. ASSUME NEW m \in Messages, Read(m) PROVE WriterMade'
  BY <1>3 DEF Read
<1>4. ASSUME NEW m \in Messages, WriteReport(m, "md", "json") PROVE WriterMade'
  BY <1>4 DEF WriteReport
<1>5. ASSUME NEW m \in Messages, WriteReport(m, "json", "reserve") PROVE WriterMade'
  BY <1>5 DEF WriteReport
<1>6. ASSUME NEW m \in Messages, Create(m, "reserve", "found") PROVE WriterMade'
  BY <1>6 DEF Create
<1>7. ASSUME NEW m \in Messages, Found(m) PROVE WriterMade'
  BY <1>7 DEF Found
<1>8. ASSUME NEW m \in Messages, TakeOver(m) PROVE WriterMade'
  BY <1>8 DEF TakeOver
<1>9. ASSUME NEW m \in Messages, Create(m, "again", "seen") PROVE WriterMade'
  BY <1>9 DEF Create
<1>10. ASSUME NEW m \in Messages, Seen(m) PROVE WriterMade'
  BY <1>10 DEF Seen
<1>11. ASSUME NEW m \in Messages, Post(m) PROVE WriterMade'
  BY <1>11 DEF Post
<1>12. ASSUME NEW m \in Messages, Record(m) PROVE WriterMade'
  BY <1>12 DEF Record
<1>13. ASSUME NEW m \in Messages, Mark(m) PROVE WriterMade'
  BY <1>13 DEF Mark
<1>14. ASSUME NEW m \in Messages, Release(m) PROVE WriterMade'
  BY <1>14 DEF Release
<1>15. ASSUME NEW m \in Messages, Look(m) PROVE WriterMade'
  BY <1>15 DEF Look
<1>16. ASSUME NEW m \in Messages, CreateCase(m) PROVE WriterMade'
  BY <1>16 DEF CreateCase
<1>17. ASSUME NEW m \in Messages, Reread(m) PROVE WriterMade'
  BY <1>17 DEF Reread
<1>18. ASSUME NEW m \in Messages, WriteEnvelope(m) PROVE WriterMade'
  BY <1>18 DEF WriteEnvelope
<1>19. ASSUME NEW m \in Messages, PublishRun(m) PROVE WriterMade'
  BY <1>19 DEF PublishRun
<1>20. ASSUME NEW m \in Messages, Enqueue(m) PROVE WriterMade'
  BY <1>20 DEF Enqueue
<1>21. ASSUME NEW m \in Messages, Fail(m) PROVE WriterMade'
  BY <1>21 DEF Fail
<1>22. ASSUME NEW m \in Messages, ArchiveFails(m) PROVE WriterMade'
  BY <1>22 DEF ArchiveFails
<1>23. CASE Replace
  BY <1>23 DEF Replace
<1>24. CASE Lapse
  BY <1>24 DEF Lapse
<1>25. CASE Expire
  BY <1>25 DEF Expire
<1>26. CASE UNCHANGED vars
  BY <1>26 DEF vars
<1> QED
  BY <1>1, <1>2, <1>3, <1>4, <1>5, <1>6, <1>7, <1>8, <1>9, <1>10,
     <1>11, <1>12, <1>13, <1>14, <1>15, <1>16, <1>17, <1>18, <1>19, <1>20,
     <1>21, <1>22, <1>23, <1>24, <1>25, <1>26
  DEF Next, Step

\* What a message's step does to the tokens about to post.
LEMMA PostTokensMove ==
  ASSUME TypeOK, TypeOK', WriterMade, NEW m \in Messages,
         \A n \in Messages \ {m} : pc'[n] = pc[n] /\ token'[n] = token[n]
  PROVE  /\ pc[m] # "post" /\ pc'[m] # "post" => PostTokens' = PostTokens
         /\ pc[m] # "post" /\ pc'[m] = "post" => PostTokens' = PostTokens \cup {token'[m]}
         /\ pc[m] = "post" /\ pc'[m] # "post" => PostTokens' = PostTokens \ {token[m]}
<1> USE DEF TypeOK, PostTokens
<1>1. ASSUME pc[m] = "post"
      PROVE  \A n \in Messages : pc[n] = "post" /\ n # m => token[n] # token[m]
  BY <1>1 DEF WriterMade, Writing, PutToken, TakeoverToken
<1>2. ASSUME pc[m] # "post", pc'[m] # "post" PROVE PostTokens' = PostTokens
  <2>1. \A n \in Messages : pc'[n] = "post" <=> pc[n] = "post"
    BY <1>2
  <2>2. \A n \in Messages : pc[n] = "post" => token'[n] = token[n]
    BY <1>2
  <2> QED
    BY <2>1, <2>2
<1>3. ASSUME pc[m] # "post", pc'[m] = "post" PROVE PostTokens' = PostTokens \cup {token'[m]}
  <2>1. \A n \in Messages : pc'[n] = "post" <=> pc[n] = "post" \/ n = m
    BY <1>3
  <2>2. \A n \in Messages : pc[n] = "post" => token'[n] = token[n]
    BY <1>3
  <2> QED
    BY <2>1, <2>2
<1>4. ASSUME pc[m] = "post", pc'[m] # "post" PROVE PostTokens' = PostTokens \ {token[m]}
  <2>1. \A n \in Messages : pc'[n] = "post" <=> pc[n] = "post" /\ n # m
    BY <1>4
  <2>2. \A n \in Messages : pc'[n] = "post" => token'[n] = token[n]
    BY <1>4, <2>1
  <2> QED
    BY <1>1, <1>4, <2>1, <2>2
<1> QED
  BY <1>2, <1>3, <1>4

\* A fresh token is not about to be posted under, nor is one past its POST.
LEMMA NotArmed ==
  ASSUME TypeOK, WriterMade, NEW m \in Messages, pc[m] # "post"
  PROVE  /\ PutToken(m) \notin PostTokens /\ TakeoverToken(m) \notin PostTokens
         /\ pc[m] \in Writing => token[m] \notin PostTokens
  BY DEF TypeOK, WriterMade, PostTokens, Writing, PutToken, TakeoverToken

\* Every step of the pipeline is a step of the reservation, or none.
LEMMA GuardStep ==
  ASSUME TypeOK, TypeOK', WriterMade, [Next]_vars
  PROVE  [Guard!Next]_(Guard!vars)
<1>0. /\ Guard!vars = <<item, PostTokens, applied, renewals, expiries>>
      /\ Guard!vars' = <<item', PostTokens', applied', renewals', expiries'>>
  BY DEF Guard!vars, PostTokens
<1> DEFINE idle == UNCHANGED <<item, applied, renewals, expiries>> /\ PostTokens' = PostTokens
<1>idle. ASSUME idle PROVE Guard!vars' = Guard!vars
  BY <1>0, <1>idle
<1>settle. ASSUME NEW m \in Messages, pc[m] \in Writing, pc[m] # "post", Owns(m),
                  SetStatus("completed") \/ SetStatus("external_success_unrecorded"),
                  UNCHANGED <<applied, renewals, expiries>>, PostTokens' = PostTokens
           PROVE  \E t \in Tokens : Guard!Settle(t)
  <2>1. /\ \E o \in Outcomes : item' = [status |-> o, token |-> token[m]]
        /\ token[m] \in Tokens
    BY <1>settle, OwnedUpdate DEF Outcomes, TypeOK
  <2> QED
    BY <1>settle, <2>1, NotArmed
    DEF Guard!Settle, Guard!Settled, Guard!Held, Owns, InProgress, PostTokens
<1>create. ASSUME NEW m \in Messages, NEW from, NEW to, Create(m, from, to),
                  from # "post", to # "post"
           PROVE  idle \/ (\E t \in Tokens : Guard!Grant(t))
  <2>1. /\ pc[m] = from
        /\ \A n \in Messages \ {m} : pc'[n] = pc[n] /\ token'[n] = token[n]
        /\ UNCHANGED <<applied, renewals, expiries>>
    BY <1>create DEF Create, Goto, TypeOK
  <2>2. PutToken(m) \notin PostTokens
    BY <1>create, <2>1, NotArmed
  <2>3. ASSUME item = NoItem, item' = InProgress(PutToken(m)), pc'[m] = "post",
               token'[m] = PutToken(m)
        PROVE  \E t \in Tokens : Guard!Grant(t)
    <3>1. PostTokens' = PostTokens \cup {PutToken(m)}
      BY <1>create, <2>1, <2>3, PostTokensMove
    <3> QED
      BY <2>1, <2>2, <2>3, <3>1, ReservationType
      DEF Guard!Grant, Guard!Free, Guard!Held, NoItem, InProgress, PostTokens
  <2>4. ASSUME UNCHANGED item, pc'[m] # "post" PROVE idle
    BY <1>create, <2>1, <2>4, PostTokensMove
  <2>5. \/ UNCHANGED item /\ pc'[m] # "post"
        \/ /\ item = NoItem /\ item' = InProgress(PutToken(m))
           /\ pc'[m] = "post" /\ token'[m] = PutToken(m)
    BY <1>create DEF Create, Goto, TypeOK
  <2> QED
    BY <2>3, <2>4, <2>5
<1>failed. ASSUME NEW m \in Messages, pc[m] = "post", pc'[m] # "post",
                  \A n \in Messages \ {m} : pc'[n] = pc[n] /\ token'[n] = token[n],
                  UNCHANGED <<item, renewals, expiries>>, applied' \in {applied, applied + 1}
           PROVE  \E t \in Tokens : Guard!Try(t)
  <2>1. token[m] \in PostTokens /\ token[m] \in Tokens
    BY <1>failed DEF PostTokens, TypeOK
  <2>2. PostTokens' = PostTokens \ {token[m]}
    BY <1>failed, PostTokensMove
  <2> QED
    BY <1>failed, <2>1, <2>2 DEF Guard!Try, PostTokens
<1> USE DEF guard, archive, intake
<1>1. ASSUME NEW m \in Messages, Publish(m) PROVE idle
  <2>1. /\ pc[m] # "post" /\ pc'[m] # "post"
        /\ \A n \in Messages \ {m} : pc'[n] = pc[n] /\ token'[n] = token[n]
        /\ UNCHANGED <<item, applied, renewals, expiries>>
    BY <1>1 DEF Publish, Goto, TypeOK
  <2> QED
    BY <2>1, PostTokensMove
<1>2. ASSUME NEW m \in Messages, Dequeue(m) PROVE idle
  <2>1. /\ pc[m] # "post" /\ pc'[m] # "post"
        /\ \A n \in Messages \ {m} : pc'[n] = pc[n] /\ token'[n] = token[n]
        /\ UNCHANGED <<item, applied, renewals, expiries>>
    BY <1>2 DEF Dequeue, Goto, TypeOK
  <2> QED
    BY <2>1, PostTokensMove
<1>3. ASSUME NEW m \in Messages, Read(m) PROVE idle
  <2>1. /\ pc[m] # "post" /\ pc'[m] # "post"
        /\ \A n \in Messages \ {m} : pc'[n] = pc[n] /\ token'[n] = token[n]
        /\ UNCHANGED <<item, applied, renewals, expiries>>
    BY <1>3 DEF Read, Goto, TypeOK
  <2> QED
    BY <2>1, PostTokensMove
<1>4. ASSUME NEW m \in Messages, WriteReport(m, "md", "json") PROVE idle
  <2>1. /\ pc[m] # "post" /\ pc'[m] # "post"
        /\ \A n \in Messages \ {m} : pc'[n] = pc[n] /\ token'[n] = token[n]
        /\ UNCHANGED <<item, applied, renewals, expiries>>
    BY <1>4 DEF WriteReport, Goto, TypeOK
  <2> QED
    BY <2>1, PostTokensMove
<1>5. ASSUME NEW m \in Messages, WriteReport(m, "json", "reserve") PROVE idle
  <2>1. /\ pc[m] # "post" /\ pc'[m] # "post"
        /\ \A n \in Messages \ {m} : pc'[n] = pc[n] /\ token'[n] = token[n]
        /\ UNCHANGED <<item, applied, renewals, expiries>>
    BY <1>5 DEF WriteReport, Goto, TypeOK
  <2> QED
    BY <2>1, PostTokensMove
<1>6. ASSUME NEW m \in Messages, Create(m, "reserve", "found")
     PROVE  idle \/ (\E t \in Tokens : Guard!Grant(t))
  BY <1>6, <1>create
<1>7. ASSUME NEW m \in Messages, Found(m) PROVE idle
  <2>1. /\ pc[m] # "post" /\ pc'[m] # "post"
        /\ \A n \in Messages \ {m} : pc'[n] = pc[n] /\ token'[n] = token[n]
        /\ UNCHANGED <<item, applied, renewals, expiries>>
    BY <1>7 DEF Found, Goto, TypeOK
  <2> QED
    BY <2>1, PostTokensMove
<1>8. ASSUME NEW m \in Messages, TakeOver(m)
     PROVE  idle \/ (\E t \in Tokens : Guard!Grant(t))
  <2>1. /\ pc[m] = "takeover" /\ token'[m] = TakeoverToken(m)
        /\ \A n \in Messages \ {m} : pc'[n] = pc[n] /\ token'[n] = token[n]
        /\ UNCHANGED <<applied, expiries>>
    BY <1>8 DEF TakeOver, Goto, TypeOK
  <2>2. TakeoverToken(m) \notin PostTokens
    BY <2>1, NotArmed
  <2>3. ASSUME pc'[m] # "post", UNCHANGED <<item, renewals, expiries>> PROVE idle
    BY <2>1, <2>3, PostTokensMove
  <2>4. ASSUME Owns(m), item' = InProgress(TakeoverToken(m)), renewals' = renewals + 1
        PROVE  \E t \in Tokens : Guard!Grant(t)
    <3>1. token[m] \in Tokens
      BY DEF TypeOK
    <3>2. PostTokens' \in {PostTokens, PostTokens \cup {TakeoverToken(m)}}
      BY <2>1, PostTokensMove
    <3> QED
      BY <2>1, <2>2, <2>4, <3>1, <3>2, ReservationType
      DEF Guard!Grant, Guard!Held, Owns, InProgress, PostTokens
  <2>5. \/ pc'[m] # "post" /\ UNCHANGED <<item, renewals, expiries>>
        \/ Owns(m) /\ item' = InProgress(TakeoverToken(m)) /\ renewals' = renewals + 1
    BY <1>8 DEF TakeOver, Goto, TypeOK
  <2> QED
    BY <2>3, <2>4, <2>5
<1>9. ASSUME NEW m \in Messages, Create(m, "again", "seen")
     PROVE  idle \/ (\E t \in Tokens : Guard!Grant(t))
  BY <1>9, <1>create
<1>10. ASSUME NEW m \in Messages, Seen(m) PROVE idle
  <2>1. /\ pc[m] # "post" /\ pc'[m] # "post"
        /\ \A n \in Messages \ {m} : pc'[n] = pc[n] /\ token'[n] = token[n]
        /\ UNCHANGED <<item, applied, renewals, expiries>>
    BY <1>10 DEF Seen, Goto, TypeOK
  <2> QED
    BY <2>1, PostTokensMove
<1>11. ASSUME NEW m \in Messages, Post(m) PROVE \E t \in Tokens : Guard!Try(t)
  <2>1. /\ pc[m] = "post" /\ pc'[m] # "post"
        /\ \A n \in Messages \ {m} : pc'[n] = pc[n] /\ token'[n] = token[n]
        /\ UNCHANGED <<item, renewals, expiries>> /\ applied' \in {applied, applied + 1}
    BY <1>11 DEF Post, Goto, TypeOK
  <2> QED
    BY <2>1, <1>failed
<1>12. ASSUME NEW m \in Messages, Record(m)
      PROVE  idle \/ (\E t \in Tokens : Guard!Settle(t))
  <2>1. /\ pc[m] = "record" /\ pc'[m] # "post"
        /\ \A n \in Messages \ {m} : pc'[n] = pc[n] /\ token'[n] = token[n]
        /\ UNCHANGED <<applied, renewals, expiries>>
        /\ \/ item' = item
           \/ Owns(m) /\ (SetStatus("completed") \/ SetStatus("external_success_unrecorded"))
    BY <1>12 DEF Record, Goto, TypeOK
  <2>2. PostTokens' = PostTokens
    BY <2>1, PostTokensMove
  <2>3. pc[m] \in Writing /\ pc[m] # "post"
    BY <2>1 DEF Writing
  <2> QED
    BY <2>1, <2>2, <2>3, <1>settle
<1>13. ASSUME NEW m \in Messages, Mark(m)
      PROVE  idle \/ (\E t \in Tokens : Guard!Settle(t))
  <2>1. /\ pc[m] = "mark" /\ pc'[m] # "post"
        /\ \A n \in Messages \ {m} : pc'[n] = pc[n] /\ token'[n] = token[n]
        /\ UNCHANGED <<applied, renewals, expiries>>
        /\ \/ item' = item
           \/ Owns(m) /\ (SetStatus("completed") \/ SetStatus("external_success_unrecorded"))
    BY <1>13 DEF Mark, Goto, TypeOK
  <2>2. PostTokens' = PostTokens
    BY <2>1, PostTokensMove
  <2>3. pc[m] \in Writing /\ pc[m] # "post"
    BY <2>1 DEF Writing
  <2> QED
    BY <2>1, <2>2, <2>3, <1>settle
<1>14. ASSUME NEW m \in Messages, Release(m)
      PROVE  idle \/ (\E t \in Tokens : Guard!Release(t))
  <2>1. /\ pc[m] = "release" /\ pc'[m] # "post"
        /\ \A n \in Messages \ {m} : pc'[n] = pc[n] /\ token'[n] = token[n]
        /\ UNCHANGED <<applied, expiries>>
    BY <1>14 DEF Release, Goto, Retry, TypeOK
  <2>2. PostTokens' = PostTokens /\ token[m] \notin PostTokens
    BY <2>1, PostTokensMove, NotArmed DEF Writing
  <2>3. \/ UNCHANGED <<item, renewals, expiries>>
        \/ Owns(m) /\ item' = NoItem /\ renewals' = renewals + 1
    BY <1>14 DEF Release
  <2>4. ASSUME Owns(m), item' = NoItem, renewals' = renewals + 1
        PROVE  \E t \in Tokens : Guard!Release(t)
    <3>1. token[m] \in Tokens
      BY DEF TypeOK
    <3> QED
      BY <2>1, <2>2, <2>4, <3>1
      DEF Guard!Release, Guard!Held, Guard!Free, NoItem, Owns, InProgress, PostTokens
  <2> QED
    BY <2>1, <2>2, <2>3, <2>4
<1>15. ASSUME NEW m \in Messages, Look(m) PROVE idle
  <2>1. /\ pc[m] # "post" /\ pc'[m] # "post"
        /\ \A n \in Messages \ {m} : pc'[n] = pc[n] /\ token'[n] = token[n]
        /\ UNCHANGED <<item, applied, renewals, expiries>>
    BY <1>15 DEF Look, Goto, TypeOK
  <2> QED
    BY <2>1, PostTokensMove
<1>16. ASSUME NEW m \in Messages, CreateCase(m) PROVE idle
  <2>1. /\ pc[m] # "post" /\ pc'[m] # "post"
        /\ \A n \in Messages \ {m} : pc'[n] = pc[n] /\ token'[n] = token[n]
        /\ UNCHANGED <<item, applied, renewals, expiries>>
    BY <1>16 DEF CreateCase, Goto, TypeOK
  <2> QED
    BY <2>1, PostTokensMove
<1>17. ASSUME NEW m \in Messages, Reread(m) PROVE idle
  <2>1. /\ pc[m] # "post" /\ pc'[m] # "post"
        /\ \A n \in Messages \ {m} : pc'[n] = pc[n] /\ token'[n] = token[n]
        /\ UNCHANGED <<item, applied, renewals, expiries>>
    BY <1>17 DEF Reread, Goto, TypeOK
  <2> QED
    BY <2>1, PostTokensMove
<1>18. ASSUME NEW m \in Messages, WriteEnvelope(m) PROVE idle
  <2>1. /\ pc[m] # "post" /\ pc'[m] # "post"
        /\ \A n \in Messages \ {m} : pc'[n] = pc[n] /\ token'[n] = token[n]
        /\ UNCHANGED <<item, applied, renewals, expiries>>
    BY <1>18 DEF WriteEnvelope, Goto, TypeOK, Raised, Retry
  <2> QED
    BY <2>1, PostTokensMove
<1>19. ASSUME NEW m \in Messages, PublishRun(m) PROVE idle
  <2>1. /\ pc[m] # "post" /\ pc'[m] # "post"
        /\ \A n \in Messages \ {m} : pc'[n] = pc[n] /\ token'[n] = token[n]
        /\ UNCHANGED <<item, applied, renewals, expiries>>
    BY <1>19 DEF PublishRun, Goto, TypeOK
  <2> QED
    BY <2>1, PostTokensMove
<1>20. ASSUME NEW m \in Messages, Enqueue(m) PROVE idle
  <2>1. /\ pc[m] # "post" /\ pc'[m] # "post"
        /\ \A n \in Messages \ {m} : pc'[n] = pc[n] /\ token'[n] = token[n]
        /\ UNCHANGED <<item, applied, renewals, expiries>>
    BY <1>20 DEF Enqueue, Goto, TypeOK
  <2> QED
    BY <2>1, PostTokensMove
<1>21. ASSUME NEW m \in Messages, Fail(m)
      PROVE  idle \/ (\E t \in Tokens : Guard!Try(t))
  <2>1. /\ pc'[m] # "post"
        /\ \A n \in Messages \ {m} : pc'[n] = pc[n] /\ token'[n] = token[n]
        /\ UNCHANGED <<item, applied, renewals, expiries>>
    BY <1>21 DEF Fail, Retry, TypeOK
  <2>2. CASE pc[m] = "post"
    BY <2>1, <2>2, <1>failed
  <2>3. CASE pc[m] # "post"
    BY <2>1, <2>3, PostTokensMove
  <2> QED
    BY <2>2, <2>3
<1>22. ASSUME NEW m \in Messages, ArchiveFails(m) PROVE idle
  <2>1. /\ pc[m] # "post" /\ pc'[m] # "post"
        /\ \A n \in Messages \ {m} : pc'[n] = pc[n] /\ token'[n] = token[n]
        /\ UNCHANGED <<item, applied, renewals, expiries>>
    BY <1>22 DEF ArchiveFails, Goto, TypeOK, Archiving, Raised, Retry
  <2> QED
    BY <2>1, PostTokensMove
<1>23. ASSUME Expire PROVE Guard!Expire
  <2>1. PostTokens' = PostTokens
    BY <1>23 DEF Expire, PostTokens
  <2> QED
    BY <1>23, <2>1 DEF Expire, Guard!Expire, Guard!Free, NoItem, PostTokens
<1>24. ASSUME Replace \/ Lapse \/ UNCHANGED vars PROVE idle
  BY <1>24 DEF Replace, Lapse, vars, PostTokens
<1> HIDE DEF idle
<1>act. ASSUME \E t \in Tokens :
                   Guard!Grant(t) \/ Guard!Try(t) \/ Guard!Settle(t) \/ Guard!Release(t)
        PROVE  Guard!Next
  BY <1>act DEF Guard!Next
<1>exp. Guard!Expire => Guard!Next
  BY DEF Guard!Next
<1>a. ASSUME NEW m \in Messages, Step(m) \/ Fail(m) \/ ArchiveFails(m)
      PROVE  idle \/ Guard!Next
  <2>1. CASE Create(m, "reserve", "found") \/ Create(m, "again", "seen") \/ TakeOver(m)
    BY <2>1, <1>6, <1>8, <1>9, <1>act
  <2>2. CASE Post(m) \/ Record(m) \/ Mark(m)
    BY <2>2, <1>11, <1>12, <1>13, <1>act
  <2>3. CASE Release(m) \/ Fail(m)
    BY <2>3, <1>14, <1>21, <1>act
  <2>4. CASE Publish(m) \/ Dequeue(m) \/ Read(m) \/ Found(m) \/ Seen(m) \/ ArchiveFails(m)
    BY <2>4, <1>1, <1>2, <1>3, <1>7, <1>10, <1>22
  <2>5. CASE WriteReport(m, "md", "json") \/ WriteReport(m, "json", "reserve")
    BY <2>5, <1>4, <1>5
  <2>6. CASE Look(m) \/ CreateCase(m) \/ Reread(m) \/ WriteEnvelope(m) \/ PublishRun(m) \/ Enqueue(m)
    BY <2>6, <1>15, <1>16, <1>17, <1>18, <1>19, <1>20
  <2> QED
    BY <1>a, <2>1, <2>2, <2>3, <2>4, <2>5, <2>6 DEF Step
<1>b. idle \/ Guard!Next
  BY <1>a, <1>exp, <1>23, <1>24 DEF Next
<1> QED
  BY <1>b, <1>idle

\* The pipeline's Splunk writeback implements the abstract reservation: every
\* POST is the one try of a reservation that was won, and only the owner
\* records an outcome, after its POST.
THEOREM ImplementsReservation == Spec => GuardsTheWrite
<1>1. Init => Guard!Init /\ WriterMade
  BY DEF Init, Guard!Init, Guard!Free, NoItem, WriterMade, Writing
<1>2. TypeOK /\ TypeOK' /\ WriterMade /\ [Next]_vars => WriterMade' /\ [Guard!Next]_(Guard!vars)
  BY WriterMadeStep, GuardStep
<1> QED
  BY <1>1, <1>2, TypeCorrect, PTL DEF Spec, GuardsTheWrite, Guard!Spec

-----------------------------------------------------------------------------
(* What the refinement is for *)

\* The reservation of the moment accounts for one comment; comments made and
\* comments that may still be tried are covered by it and the renewals.
Allowance == IF item = Guard!Free THEN 0 ELSE 1
Covered ==
    /\ IsFiniteSet(PostTokens)
    /\ applied + Cardinality(PostTokens) <= renewals + expiries + Allowance

\* A stored reservation is not an absent one.
LEMMA StoredIsNotFree ==
  ASSUME NEW t, NEW o PROVE Guard!Held(t) # Guard!Free /\ Guard!Settled(t, o) # Guard!Free
<1>1. "token" \in DOMAIN Guard!Held(t) /\ "token" \in DOMAIN Guard!Settled(t, o)
  BY DEF Guard!Held, Guard!Settled
<1>2. "token" \notin DOMAIN Guard!Free
  BY DEF Guard!Free
<1> QED
  BY <1>1, <1>2

\* The arithmetic of one grant.
LEMMA Sum ==
  ASSUME NEW e \in Nat, NEW c \in Nat, NEW d \in Nat, NEW r \in Nat, NEW a \in Nat,
         NEW s \in Nat, NEW b \in Nat, NEW x \in Nat,
         e + c <= r + x + a, d <= c + 1, s + b = r + a + 1
  PROVE  e + d <= s + x + b
  OBVIOUS

\* A grant arms one token and is covered by the reservation it makes.
LEMMA GrantCovers ==
  ASSUME TypeOK, TypeOK', Covered, NEW t \in Tokens, Guard!Grant(t) PROVE Covered'
<1>1. /\ t \notin PostTokens /\ PostTokens' \in {PostTokens, PostTokens \cup {t}}
      /\ item' = Guard!Held(t) /\ UNCHANGED <<applied, expiries>>
      /\ \/ item = Guard!Free /\ UNCHANGED renewals
         \/ (\E u \in Tokens : item = Guard!Held(u)) /\ renewals' = renewals + 1
  BY DEF Guard!Grant, PostTokens
<1>2. renewals' + Allowance' = renewals + Allowance + 1
  <2>1. item' # Guard!Free /\ \A u : Guard!Held(u) # Guard!Free
    BY <1>1, StoredIsNotFree
  <2>2. CASE item = Guard!Free /\ UNCHANGED renewals
    BY <2>1, <2>2 DEF Allowance, TypeOK
  <2>3. CASE item # Guard!Free /\ renewals' = renewals + 1
    BY <2>1, <2>3 DEF Allowance, TypeOK
  <2> QED
    BY <1>1, <2>1, <2>2, <2>3
<1>3. IsFiniteSet(PostTokens') /\ Cardinality(PostTokens') <= Cardinality(PostTokens) + 1
  <2>1. CASE PostTokens' = PostTokens
    BY <2>1, FS_CardinalityType DEF Covered
  <2>2. CASE PostTokens' = PostTokens \cup {t}
    <3>1. /\ IsFiniteSet(PostTokens \cup {t})
          /\ Cardinality(PostTokens \cup {t}) = Cardinality(PostTokens) + 1
      BY <1>1, FS_AddElement DEF Covered
    <3> QED
      BY <2>2, <3>1, FS_CardinalityType
  <2> QED
    BY <1>1, <2>1, <2>2
<1>4. Cardinality(PostTokens) \in Nat /\ Cardinality(PostTokens') \in Nat
  BY <1>3, FS_CardinalityType DEF Covered
<1>5. /\ applied \in Nat /\ renewals \in Nat /\ expiries \in Nat /\ Allowance \in Nat
      /\ renewals' \in Nat /\ Allowance' \in Nat
  BY DEF TypeOK, Allowance
<1>6. applied + Cardinality(PostTokens) <= renewals + expiries + Allowance
  BY DEF Covered
<1>7. applied + Cardinality(PostTokens') <= renewals' + expiries' + Allowance'
  BY <1>1, <1>2, <1>3, <1>4, <1>5, <1>6, Sum
<1> QED
  BY <1>1, <1>3, <1>7 DEF Covered

\* A try spends its token, whether the comment was added or not.
LEMMA TryCovers ==
  ASSUME TypeOK, Covered, NEW t \in Tokens, Guard!Try(t) PROVE Covered'
<1>1. /\ t \in PostTokens /\ PostTokens' = PostTokens \ {t}
      /\ applied' \in {applied, applied + 1} /\ UNCHANGED <<item, renewals, expiries>>
  BY DEF Guard!Try, PostTokens
<1>2. IsFiniteSet(PostTokens') /\ Cardinality(PostTokens') = Cardinality(PostTokens) - 1
  BY <1>1, FS_RemoveElement DEF Covered
<1>3. Cardinality(PostTokens) \in Nat
  BY FS_CardinalityType DEF Covered
<1>4. Allowance' = Allowance
  BY <1>1 DEF Allowance
<1>5. applied \in Nat /\ renewals \in Nat /\ expiries \in Nat /\ Allowance \in Nat
  BY DEF TypeOK, Allowance
<1> QED
  BY <1>1, <1>2, <1>3, <1>4, <1>5 DEF Covered

\* An outcome spends nothing, and a reservation that is deleted is renewed in
\* the count.
LEMMA OthersCover ==
  ASSUME TypeOK, Covered,
         Guard!Expire \/ \E t \in Tokens : Guard!Settle(t) \/ Guard!Release(t)
  PROVE  Covered'
<1>1. PostTokens' = PostTokens /\ applied' = applied
  BY DEF Guard!Expire, Guard!Settle, Guard!Release, PostTokens
<1>2. renewals' + expiries' + Allowance' = renewals + expiries + Allowance
  <2>1. CASE Guard!Expire
    BY <2>1 DEF Guard!Expire, Allowance, TypeOK
  <2>2. CASE \E t \in Tokens : Guard!Settle(t)
    BY <2>2, StoredIsNotFree DEF Guard!Settle, Allowance
  <2>3. CASE \E t \in Tokens : Guard!Release(t)
    BY <2>3, StoredIsNotFree DEF Guard!Release, Allowance, TypeOK
  <2> QED
    BY <2>1, <2>2, <2>3
<1> QED
  BY <1>1, <1>2 DEF Covered

\* Whatever implements the abstract reservation is covered by it.
LEMMA CoveredStep ==
  TypeOK /\ TypeOK' /\ Covered /\ [Guard!Next]_(Guard!vars) => Covered'
<1> SUFFICES ASSUME TypeOK, TypeOK', Covered, [Guard!Next]_(Guard!vars) PROVE Covered'
  OBVIOUS
<1>1. CASE UNCHANGED Guard!vars
  BY <1>1 DEF Guard!vars, Covered, PostTokens, Allowance
<1>2. CASE Guard!Next
  BY <1>2, GrantCovers, TryCovers, OthersCover DEF Guard!Next
<1> QED
  BY <1>1, <1>2

\* Through the refinement alone: one comment, and one more for every
\* reservation taken over, released or expired.
THEOREM CommentsBounded == Spec => [](applied <= 1 + renewals + expiries)
<1>1. Guard!Init => Covered
  <2>1. Guard!Init => PostTokens = {} /\ applied = 0 /\ renewals = 0 /\ expiries = 0 /\ Allowance = 0
    BY DEF Guard!Init, PostTokens, Allowance
  <2> QED
    BY <2>1, FS_EmptySet DEF Covered
<1>2. TypeOK /\ Covered => applied <= 1 + renewals + expiries
  <2> SUFFICES ASSUME TypeOK, Covered PROVE applied <= 1 + renewals + expiries
    OBVIOUS
  <2>1. Cardinality(PostTokens) \in Nat
    BY FS_CardinalityType DEF Covered
  <2> QED
    BY <2>1 DEF Covered, Allowance, TypeOK
<1> QED
  BY <1>1, <1>2, CoveredStep, ImplementsReservation, TypeCorrect, PTL
  DEF GuardsTheWrite, Guard!Spec
=============================================================================
