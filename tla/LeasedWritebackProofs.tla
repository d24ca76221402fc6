----------------------- MODULE LeasedWritebackProofs -----------------------
(***************************************************************************)
(* Proofs about LeasedWriteback for every number of messages and objects,  *)
(* every timing, every bound and every choice of the failures.             *)
(***************************************************************************)
EXTENDS LeasedWriteback, FiniteSetTheorems, TLAPS

-----------------------------------------------------------------------------
(* Type correctness *)

\* Past the analysis an invocation has something to report.
AnalysisChosen ==
    \A m \in Messages : pc[m] \in Running \ {"analyze"} => analysis[m] \in Analyses

\* begin_side_effect is entered after the message was received.
StartedInTime == \A m \in Messages : started[m] <= since[m]

TypedInv == TypeOK /\ AnalysisChosen /\ StartedInTime

\* What an update under the own token does to the item.
LEMMA OwnedUpdate ==
  ASSUME TypeOK, NEW m \in Messages, Owns(m), NEW s \in Statuses, SetStatus(s)
  PROVE  /\ item' = [status |-> s, token |-> token[m]]
         /\ item' \in Items
         /\ item # NoItem /\ item' # NoItem
         /\ item.status = "in_progress" /\ item.token = token[m]
<1>1. token[m] \in Tokens
  BY DEF TypeOK
<1> QED
  BY <1>1 DEF Owns, InProgress, SetStatus, Items, NoItem, Statuses

LEMMA ReservationType ==
  ASSUME TypeOK, NEW m \in Messages
  PROVE  /\ PutToken(m) \in Tokens /\ TakeoverToken(m) \in Tokens
         /\ InProgress(PutToken(m)) \in Items /\ InProgress(TakeoverToken(m)) \in Items
  BY DEF TypeOK, PutToken, TakeoverToken, Tokens, InProgress, Items, Statuses

LEMMA TypeStep ==
  TypedInv /\ [Next]_vars => TypedInv'
<1> SUFFICES ASSUME TypedInv, [Next]_vars PROVE TypedInv'
  OBVIOUS
<1> USE DataAssumption, TimesAssumption, BoundsAssumption
    DEF TypedInv, TypeOK, AnalysisChosen, StartedInTime, Goto, Running, Kinds, local, ledger, splunk
<1>1. ASSUME NEW m \in Messages, Receive(m) PROVE TypedInv'
  <2>1. receives' \in [Messages -> 0 .. MaxReceives]
    BY <1>1 DEF Receive
  <2> QED
    BY <1>1, <2>1 DEF Receive
<1>2. ASSUME NEW m \in Messages, DeadLetter(m) PROVE TypedInv'
  BY <1>2 DEF DeadLetter
<1>3. ASSUME NEW m \in Messages, Ack(m) PROVE TypedInv'
  BY <1>3 DEF Ack
<1>4. ASSUME NEW m \in Messages, Reappear(m) PROVE TypedInv'
  BY <1>4 DEF Reappear
<1>5. ASSUME NEW m \in Messages, Analyze(m) PROVE TypedInv'
  <2>1. /\ pc' \in [Messages -> Running \cup {"queued", "failed", "acked", "dead"}]
        /\ analysis' \in [Messages -> Analyses \cup {Absent}]
    BY <1>5 DEF Analyze
  <2>2. AnalysisChosen'
    BY <1>5 DEF Analyze
  <2> QED
    BY <1>5, <2>1, <2>2 DEF Analyze
<1>6. ASSUME NEW m \in Messages, PutArtifact(m, "md", "json") PROVE TypedInv'
  <2>1. ObjectOf[m] \in Objects /\ (pc[m] = "md" => analysis[m] \in Analyses)
    BY <1>6
  <2>2. report' \in [Objects -> [Kinds -> Analyses \cup {Absent}]]
    <3>1. report[ObjectOf[m]] \in [Kinds -> Analyses \cup {Absent}]
      BY <2>1
    <3> QED
      BY <1>6, <2>1, <3>1 DEF PutArtifact
  <2>3. pc' \in [Messages -> Running \cup {"queued", "failed", "acked", "dead"}]
    BY <1>6 DEF PutArtifact
  <2>4. AnalysisChosen'
    BY <1>6 DEF PutArtifact
  <2> QED
    BY <1>6, <2>2, <2>3, <2>4 DEF PutArtifact
<1>7. ASSUME NEW m \in Messages, PutArtifact(m, "json", "reserve") PROVE TypedInv'
  <2>1. ObjectOf[m] \in Objects /\ (pc[m] = "json" => analysis[m] \in Analyses)
    BY <1>7
  <2>2. report' \in [Objects -> [Kinds -> Analyses \cup {Absent}]]
    <3>1. report[ObjectOf[m]] \in [Kinds -> Analyses \cup {Absent}]
      BY <2>1
    <3> QED
      BY <1>7, <2>1, <3>1 DEF PutArtifact
  <2>3. pc' \in [Messages -> Running \cup {"queued", "failed", "acked", "dead"}]
    BY <1>7 DEF PutArtifact
  <2>4. AnalysisChosen'
    BY <1>7 DEF PutArtifact
  <2> QED
    BY <1>7, <2>2, <2>3, <2>4 DEF PutArtifact
<1>8. ASSUME NEW m \in Messages, Reserve(m) PROVE TypedInv'
  <2>1. /\ item' \in Items \cup {NoItem}
        /\ age' \in 0 .. (LockSeconds + 1)
        /\ token' \in [Messages -> Tokens]
        /\ started' \in [Messages -> 0 .. Visibility]
        /\ StartedInTime'
    BY <1>8, ReservationType DEF Reserve
  <2> QED
    BY <1>8, <2>1 DEF Reserve
<1>9. ASSUME NEW m \in Messages, ReadItem(m) PROVE TypedInv'
  <2>1. item # NoItem => item.token \in Tokens /\ item.status \in Statuses
    BY DEF Items
  <2>2. told' \in [Messages -> Statuses \cup {"unknown", "nothing"}]
    BY <1>9, <2>1 DEF ReadItem, Statuses
  <2>3. token' \in [Messages -> Tokens]
    BY <1>9, <2>1 DEF ReadItem
  <2> QED
    BY <1>9, <2>2, <2>3 DEF ReadItem
<1>10. ASSUME NEW m \in Messages, TakeOver(m) PROVE TypedInv'
  <2>1. /\ item' \in Items \cup {NoItem}
        /\ age' \in 0 .. (LockSeconds + 1)
        /\ token' \in [Messages -> Tokens]
        /\ takeovers' \in Nat
    BY <1>10, ReservationType DEF TakeOver, Capped
  <2>2. told' \in [Messages -> Statuses \cup {"unknown", "nothing"}]
    BY <1>10 DEF TakeOver, Statuses
  <2> QED
    BY <1>10, <2>1, <2>2 DEF TakeOver
<1>11. ASSUME NEW m \in Messages, Post(m) PROVE TypedInv'
  BY <1>11 DEF Post
<1>12. ASSUME NEW m \in Messages, Complete(m) PROVE TypedInv'
  <2>1. item' \in Items \cup {NoItem}
    BY <1>12, OwnedUpdate DEF Complete, Statuses
  <2> QED
    BY <1>12, <2>1 DEF Complete
<1>13. ASSUME NEW m \in Messages, FenceAfterSuccess(m) PROVE TypedInv'
  <2>1. item' \in Items \cup {NoItem}
    BY <1>13, OwnedUpdate DEF FenceAfterSuccess, Statuses
  <2> QED
    BY <1>13, <2>1 DEF FenceAfterSuccess
<1>14. ASSUME NEW m \in Messages, MarkUncertain(m) PROVE TypedInv'
  <2>1. item' \in Items \cup {NoItem}
    BY <1>14, OwnedUpdate DEF MarkUncertain, Statuses
  <2> QED
    BY <1>14, <2>1 DEF MarkUncertain
<1>15. ASSUME NEW m \in Messages, Crash(m) PROVE TypedInv'
  BY <1>15 DEF Crash
<1>16. CASE Expire
  BY <1>16 DEF Expire
<1>17. CASE Tick
  <2>1. since' \in [Messages -> 0 .. Visibility]
    BY <1>17 DEF Tick
  <2>2. age' \in 0 .. (LockSeconds + 1)
    BY <1>17 DEF Tick, Capped
  <2> QED
    BY <1>17, <2>1, <2>2 DEF Tick
<1>18. CASE UNCHANGED vars
  BY <1>18 DEF vars, local, ledger, splunk
<1> QED
  BY <1>1, <1>2, <1>3, <1>4, <1>5, <1>6, <1>7, <1>8, <1>9, <1>10,
     <1>11, <1>12, <1>13, <1>14, <1>15, <1>16, <1>17, <1>18
  DEF Next, Step

LEMMA TypeInit == Init => TypedInv
<1> SUFFICES ASSUME Init PROVE TypedInv
  OBVIOUS
<1> USE DataAssumption, TimesAssumption, BoundsAssumption DEF Init
<1>1. token \in [Messages -> Tokens]
  BY DEF Tokens
<1>2. told \in [Messages -> Statuses \cup {"unknown", "nothing"}]
  OBVIOUS
<1>3. report \in [Objects -> [Kinds -> Analyses \cup {Absent}]]
  OBVIOUS
<1>4. AnalysisChosen
  BY DEF AnalysisChosen, Running
<1> QED
  BY <1>1, <1>2, <1>3, <1>4 DEF TypedInv, TypeOK, StartedInTime, Running

\* The facts every later proof starts from.
LEMMA Typed == Spec => []TypedInv
BY TypeInit, TypeStep, PTL DEF Spec

\* Every reachable state of the writeback is well typed.
THEOREM TypeCorrect == Spec => []TypeOK
BY Typed, PTL DEF TypedInv

-----------------------------------------------------------------------------
(* One writer at a time *)

BeforeReserve == {"analyze", "md", "json", "reserve"}
BeforeTakeover == BeforeReserve \cup {"read", "takeover"}

\* The tokens no later step can write anew: what makes a uuid4 fresh.
Spent ==
    {t \in Tokens :
        \/ t[2] < receives[t[1]]
        \/ /\ t[2] = receives[t[1]]
           /\ pc[t[1]] \notin IF t[3] = "put" THEN BeforeReserve ELSE BeforeTakeover}

TokensSpent ==
    /\ item # NoItem => item.token \in Spent
    /\ \A m \in Messages : pc[m] = "takeover" => token[m] \in Spent

\* The item a takeover has judged stale stays stale while its token stays.
WantedIsStale ==
    \A m \in Messages :
        pc[m] = "takeover" /\ item # NoItem /\ item.token = token[m] => age > LockSeconds

\* A writing invocation holds a token it made itself.  Unless TTL deleted its
\* item, the item is there, and no older than the invocation.
WriterOwns ==
    \A m \in Messages : pc[m] \in Writing =>
        /\ token[m] \in {PutToken(m), TakeoverToken(m)}
        /\ token[m] \notin bereft =>
               /\ item # NoItem
               /\ item.token = token[m]
               /\ age <= since[m]

InTime == \A m \in Messages : pc[m] \in Running => since[m] <= LambdaTimeout

WriterInv == TokensSpent /\ WantedIsStale /\ WriterOwns /\ InTime

\* Spent tokens stay spent.
LEMMA SpentStays ==
  ASSUME TypeOK, TypeOK', [Next]_vars, NEW t \in Spent
  PROVE  t \in Spent'
<1> USE DEF TypeOK, Spent, Goto, Running, BeforeReserve, BeforeTakeover, Tokens, local
<1>1. ASSUME NEW m \in Messages, Receive(m) PROVE t \in Spent'
  BY <1>1 DEF Receive
<1>2. ASSUME NEW m \in Messages, DeadLetter(m) PROVE t \in Spent'
  BY <1>2 DEF DeadLetter
<1>3. ASSUME NEW m \in Messages, Ack(m) PROVE t \in Spent'
  BY <1>3 DEF Ack
<1>4. ASSUME NEW m \in Messages, Reappear(m) PROVE t \in Spent'
  BY <1>4 DEF Reappear
<1>5. ASSUME NEW m \in Messages, Analyze(m) PROVE t \in Spent'
  BY <1>5 DEF Analyze
<1>6. ASSUME NEW m \in Messages, PutArtifact(m, "md", "json") PROVE t \in Spent'
  BY <1>6 DEF PutArtifact
<1>7. ASSUME NEW m \in Messages, PutArtifact(m, "json", "reserve") PROVE t \in Spent'
  BY <1>7 DEF PutArtifact
<1>8. ASSUME NEW m \in Messages, Reserve(m) PROVE t \in Spent'
  BY <1>8 DEF Reserve
<1>9. ASSUME NEW m \in Messages, ReadItem(m) PROVE t \in Spent'
  BY <1>9 DEF ReadItem
<1>10. ASSUME NEW m \in Messages, TakeOver(m) PROVE t \in Spent'
  BY <1>10 DEF TakeOver
<1>11. ASSUME NEW m \in Messages, Post(m) PROVE t \in Spent'
  BY <1>11 DEF Post
<1>12. ASSUME NEW m \in Messages, Complete(m) PROVE t \in Spent'
  BY <1>12 DEF Complete
<1>13. ASSUME NEW m \in Messages, FenceAfterSuccess(m) PROVE t \in Spent'
  BY <1>13 DEF FenceAfterSuccess
<1>14. ASSUME NEW m \in Messages, MarkUncertain(m) PROVE t \in Spent'
  BY <1>14 DEF MarkUncertain
<1>15. ASSUME NEW m \in Messages, Crash(m) PROVE t \in Spent'
  BY <1>15 DEF Crash
<1>16. CASE Expire
  BY <1>16 DEF Expire
<1>17. CASE Tick
  BY <1>17 DEF Tick
<1>18. CASE UNCHANGED vars
  BY <1>18 DEF vars, local, ledger, splunk
<1> QED
  BY <1>1, <1>2, <1>3, <1>4, <1>5, <1>6, <1>7, <1>8, <1>9, <1>10,
     <1>11, <1>12, <1>13, <1>14, <1>15, <1>16, <1>17, <1>18
  DEF Next, Step

\* A token about to be written is fresh, and a written one is spent.
LEMMA FreshToken ==
  ASSUME TypeOK, NEW m \in Messages
  PROVE  /\ pc[m] = "reserve" => PutToken(m) \notin Spent
         /\ pc[m] = "takeover" => TakeoverToken(m) \notin Spent
  BY DEF TypeOK, Spent, PutToken, TakeoverToken, BeforeReserve, BeforeTakeover

LEMMA WrittenToken ==
  ASSUME TypeOK, NEW m \in Messages, UNCHANGED receives,
         NEW next \in {"read", "post", "failed", "done"}
  PROVE  /\ Goto(m, "reserve", next) => PutToken(m) \in Spent'
         /\ Goto(m, "takeover", next) /\ next # "read" => TakeoverToken(m) \in Spent'
  BY DEF TypeOK, Spent, PutToken, TakeoverToken, BeforeReserve, BeforeTakeover, Goto, Tokens

LEMMA TokensSpentStep ==
  ASSUME TypeOK, TypeOK', TokensSpent, [Next]_vars
  PROVE  TokensSpent'
<1>0. \A t \in Spent : t \in Spent'
  BY SpentStays
<1> USE DEF TypeOK, TokensSpent, Goto, local, ledger, splunk
<1>1. ASSUME NEW m \in Messages, Receive(m) PROVE TokensSpent'
  BY <1>1, <1>0 DEF Receive
<1>2. ASSUME NEW m \in Messages, DeadLetter(m) PROVE TokensSpent'
  BY <1>2, <1>0 DEF DeadLetter
<1>3. ASSUME NEW m \in Messages, Ack(m) PROVE TokensSpent'
  BY <1>3, <1>0 DEF Ack
<1>4. ASSUME NEW m \in Messages, Reappear(m) PROVE TokensSpent'
  BY <1>4, <1>0 DEF Reappear
<1>5. ASSUME NEW m \in Messages, Analyze(m) PROVE TokensSpent'
  BY <1>5, <1>0 DEF Analyze
<1>6. ASSUME NEW m \in Messages, PutArtifact(m, "md", "json") PROVE TokensSpent'
  BY <1>6, <1>0 DEF PutArtifact
<1>7. ASSUME NEW m \in Messages, PutArtifact(m, "json", "reserve") PROVE TokensSpent'
  BY <1>7, <1>0 DEF PutArtifact
<1>8. ASSUME NEW m \in Messages, Reserve(m) PROVE TokensSpent'
  BY <1>8, <1>0, WrittenToken DEF Reserve, InProgress, NoItem
<1>9. ASSUME NEW m \in Messages, ReadItem(m) PROVE TokensSpent'
  BY <1>9, <1>0 DEF ReadItem, IsStale, NoItem
<1>10. ASSUME NEW m \in Messages, TakeOver(m) PROVE TokensSpent'
  BY <1>10, <1>0, WrittenToken DEF TakeOver, InProgress, NoItem
<1>11. ASSUME NEW m \in Messages, Post(m) PROVE TokensSpent'
  BY <1>11, <1>0 DEF Post
<1>12. ASSUME NEW m \in Messages, Complete(m) PROVE TokensSpent'
  BY <1>12, <1>0, OwnedUpdate DEF Complete, Statuses
<1>13. ASSUME NEW m \in Messages, FenceAfterSuccess(m) PROVE TokensSpent'
  BY <1>13, <1>0, OwnedUpdate DEF FenceAfterSuccess, Statuses
<1>14. ASSUME NEW m \in Messages, MarkUncertain(m) PROVE TokensSpent'
  BY <1>14, <1>0, OwnedUpdate DEF MarkUncertain, Statuses
<1>15. ASSUME NEW m \in Messages, Crash(m) PROVE TokensSpent'
  BY <1>15, <1>0 DEF Crash
<1>16. CASE Expire
  BY <1>16, <1>0 DEF Expire
<1>17. CASE Tick
  BY <1>17, <1>0 DEF Tick
<1>18. CASE UNCHANGED vars
  BY <1>0, <1>18 DEF vars, local, ledger, splunk
<1> QED
  BY <1>1, <1>2, <1>3, <1>4, <1>5, <1>6, <1>7, <1>8, <1>9, <1>10,
     <1>11, <1>12, <1>13, <1>14, <1>15, <1>16, <1>17, <1>18
  DEF Next, Step

LEMMA WantedIsStaleStep ==
  ASSUME TypeOK, TypeOK', TokensSpent, WantedIsStale, [Next]_vars
  PROVE  WantedIsStale'
<1> USE TimesAssumption DEF TypeOK, WantedIsStale, Goto, local, ledger, splunk
<1>1. ASSUME NEW m \in Messages, Receive(m) PROVE WantedIsStale'
  BY <1>1 DEF Receive
<1>2. ASSUME NEW m \in Messages, DeadLetter(m) PROVE WantedIsStale'
  BY <1>2 DEF DeadLetter
<1>3. ASSUME NEW m \in Messages, Ack(m) PROVE WantedIsStale'
  BY <1>3 DEF Ack
<1>4. ASSUME NEW m \in Messages, Reappear(m) PROVE WantedIsStale'
  BY <1>4 DEF Reappear
<1>5. ASSUME NEW m \in Messages, Analyze(m) PROVE WantedIsStale'
  BY <1>5 DEF Analyze
<1>6. ASSUME NEW m \in Messages, PutArtifact(m, "md", "json") PROVE WantedIsStale'
  BY <1>6 DEF PutArtifact
<1>7. ASSUME NEW m \in Messages, PutArtifact(m, "json", "reserve") PROVE WantedIsStale'
  BY <1>7 DEF PutArtifact
<1>8. ASSUME NEW m \in Messages, Reserve(m) PROVE WantedIsStale'
  BY <1>8, FreshToken DEF Reserve, InProgress, NoItem, TokensSpent
<1>9. ASSUME NEW m \in Messages, ReadItem(m) PROVE WantedIsStale'
  BY <1>9 DEF ReadItem, IsStale, NoItem
<1>10. ASSUME NEW m \in Messages, TakeOver(m) PROVE WantedIsStale'
  BY <1>10, FreshToken DEF TakeOver, InProgress, NoItem, TokensSpent
<1>11. ASSUME NEW m \in Messages, Post(m) PROVE WantedIsStale'
  BY <1>11 DEF Post
<1>12. ASSUME NEW m \in Messages, Complete(m) PROVE WantedIsStale'
  BY <1>12, OwnedUpdate DEF Complete, Statuses
<1>13. ASSUME NEW m \in Messages, FenceAfterSuccess(m) PROVE WantedIsStale'
  BY <1>13, OwnedUpdate DEF FenceAfterSuccess, Statuses
<1>14. ASSUME NEW m \in Messages, MarkUncertain(m) PROVE WantedIsStale'
  BY <1>14, OwnedUpdate DEF MarkUncertain, Statuses
<1>15. ASSUME NEW m \in Messages, Crash(m) PROVE WantedIsStale'
  BY <1>15 DEF Crash
<1>16. CASE Expire
  BY <1>16 DEF Expire
<1>17. CASE Tick
  BY <1>17 DEF Tick, Capped
<1>18. CASE UNCHANGED vars
  BY <1>18 DEF vars, local, ledger, splunk
<1> QED
  BY <1>1, <1>2, <1>3, <1>4, <1>5, <1>6, <1>7, <1>8, <1>9, <1>10,
     <1>11, <1>12, <1>13, <1>14, <1>15, <1>16, <1>17, <1>18
  DEF Next, Step

LEMMA InTimeStep ==
  ASSUME TypeOK, TypeOK', InTime, [Next]_vars
  PROVE  InTime'
<1> USE TimesAssumption DEF TypeOK, InTime, Goto, Running, local, ledger, splunk
<1>1. ASSUME NEW m \in Messages, Receive(m) PROVE InTime'
  BY <1>1 DEF Receive
<1>2. ASSUME NEW m \in Messages, DeadLetter(m) PROVE InTime'
  BY <1>2 DEF DeadLetter
<1>3. ASSUME NEW m \in Messages, Ack(m) PROVE InTime'
  BY <1>3 DEF Ack
<1>4. ASSUME NEW m \in Messages, Reappear(m) PROVE InTime'
  BY <1>4 DEF Reappear
<1>5. ASSUME NEW m \in Messages, Analyze(m) PROVE InTime'
  BY <1>5 DEF Analyze
<1>6. ASSUME NEW m \in Messages, PutArtifact(m, "md", "json") PROVE InTime'
  BY <1>6 DEF PutArtifact
<1>7. ASSUME NEW m \in Messages, PutArtifact(m, "json", "reserve") PROVE InTime'
  BY <1>7 DEF PutArtifact
<1>8. ASSUME NEW m \in Messages, Reserve(m) PROVE InTime'
  BY <1>8 DEF Reserve
<1>9. ASSUME NEW m \in Messages, ReadItem(m) PROVE InTime'
  BY <1>9 DEF ReadItem
<1>10. ASSUME NEW m \in Messages, TakeOver(m) PROVE InTime'
  BY <1>10 DEF TakeOver
<1>11. ASSUME NEW m \in Messages, Post(m) PROVE InTime'
  BY <1>11 DEF Post
<1>12. ASSUME NEW m \in Messages, Complete(m) PROVE InTime'
  BY <1>12 DEF Complete
<1>13. ASSUME NEW m \in Messages, FenceAfterSuccess(m) PROVE InTime'
  BY <1>13 DEF FenceAfterSuccess
<1>14. ASSUME NEW m \in Messages, MarkUncertain(m) PROVE InTime'
  BY <1>14 DEF MarkUncertain
<1>15. ASSUME NEW m \in Messages, Crash(m) PROVE InTime'
  BY <1>15 DEF Crash
<1>16. CASE Expire
  BY <1>16 DEF Expire
<1>17. CASE Tick
  BY <1>17 DEF Tick
<1>18. CASE UNCHANGED vars
  BY <1>18 DEF vars, local, ledger, splunk
<1> QED
  BY <1>1, <1>2, <1>3, <1>4, <1>5, <1>6, <1>7, <1>8, <1>9, <1>10,
     <1>11, <1>12, <1>13, <1>14, <1>15, <1>16, <1>17, <1>18
  DEF Next, Step

\* As long as the lock outlasts every invocation, the writer keeps its item.
LEMMA WriterOwnsStep ==
  ASSUME TypeOK, TypeOK', WriterInv, [Next]_vars, LambdaTimeout <= LockSeconds
  PROVE  WriterOwns'
<1> USE TimesAssumption
    DEF TypeOK, WriterInv, WriterOwns, Goto, Writing, PutToken, TakeoverToken,
        local, ledger, splunk
<1>1. ASSUME NEW m \in Messages, Receive(m) PROVE WriterOwns'
  BY <1>1 DEF Receive
<1>2. ASSUME NEW m \in Messages, DeadLetter(m) PROVE WriterOwns'
  BY <1>2 DEF DeadLetter
<1>3. ASSUME NEW m \in Messages, Ack(m) PROVE WriterOwns'
  BY <1>3 DEF Ack
<1>4. ASSUME NEW m \in Messages, Reappear(m) PROVE WriterOwns'
  BY <1>4 DEF Reappear
<1>5. ASSUME NEW m \in Messages, Analyze(m) PROVE WriterOwns'
  BY <1>5 DEF Analyze
<1>6. ASSUME NEW m \in Messages, PutArtifact(m, "md", "json") PROVE WriterOwns'
  BY <1>6 DEF PutArtifact
<1>7. ASSUME NEW m \in Messages, PutArtifact(m, "json", "reserve") PROVE WriterOwns'
  BY <1>7 DEF PutArtifact
<1>8. ASSUME NEW m \in Messages, Reserve(m) PROVE WriterOwns'
  BY <1>8 DEF Reserve, InProgress, NoItem
<1>9. ASSUME NEW m \in Messages, ReadItem(m) PROVE WriterOwns'
  BY <1>9 DEF ReadItem
<1>10. ASSUME NEW m \in Messages, TakeOver(m) PROVE WriterOwns'
  BY <1>10 DEF TakeOver, Capped, Owns, InProgress, NoItem, WantedIsStale, InTime, Running
<1>11. ASSUME NEW m \in Messages, Post(m) PROVE WriterOwns'
  BY <1>11 DEF Post
<1>12. ASSUME NEW m \in Messages, Complete(m) PROVE WriterOwns'
  BY <1>12, OwnedUpdate DEF Complete, Statuses
<1>13. ASSUME NEW m \in Messages, FenceAfterSuccess(m) PROVE WriterOwns'
  BY <1>13, OwnedUpdate DEF FenceAfterSuccess, Statuses
<1>14. ASSUME NEW m \in Messages, MarkUncertain(m) PROVE WriterOwns'
  BY <1>14, OwnedUpdate DEF MarkUncertain, Statuses
<1>15. ASSUME NEW m \in Messages, Crash(m) PROVE WriterOwns'
  BY <1>15 DEF Crash
<1>16. CASE Expire
  BY <1>16 DEF Expire
<1>17. CASE Tick
  BY <1>17 DEF Tick, Capped, Running
<1>18. CASE UNCHANGED vars
  BY <1>18 DEF vars, local, ledger, splunk
<1> QED
  BY <1>1, <1>2, <1>3, <1>4, <1>5, <1>6, <1>7, <1>8, <1>9, <1>10,
     <1>11, <1>12, <1>13, <1>14, <1>15, <1>16, <1>17, <1>18
  DEF Next, Step

LEMMA WriterStep ==
  ASSUME TypeOK, TypeOK', WriterInv, [Next]_vars, LambdaTimeout <= LockSeconds
  PROVE  WriterInv'
  BY TokensSpentStep, WantedIsStaleStep, InTimeStep, WriterOwnsStep DEF WriterInv

\* While the lock outlasts every invocation, an invocation between its reservation
\* and the last write to its item owns the item, and is the only one, except for
\* those whose item TTL deleted under them.
THEOREM SingleWriterTheorem == Spec => []SingleWriter
<1>1. CASE LambdaTimeout <= LockSeconds
  <2>1. Init => WriterInv
    BY <1>1, TypeInit DEF TypedInv, Init, WriterInv, TokensSpent, WantedIsStale, WriterOwns, InTime,
       Writing, Running, NoItem
  <2>2. TypeOK /\ TypeOK' /\ WriterInv /\ [Next]_vars => WriterInv'
    BY <1>1, WriterStep
  <2>3. TypeOK /\ WriterInv => SingleWriter
    BY DEF TypeOK, WriterInv, WriterOwns, SingleWriter, PutToken, TakeoverToken
  <2> QED
    BY <2>1, <2>2, <2>3, TypeCorrect, PTL DEF Spec
<1>2. CASE ~(LambdaTimeout <= LockSeconds)
  <2>1. SingleWriter
    BY <1>2 DEF SingleWriter
  <2> QED
    BY <2>1, PTL
<1> QED
  BY <1>1, <1>2

-----------------------------------------------------------------------------
(* How often the comment is added *)

Posters == {m \in Messages : pc[m] = "post"}

\* A reservation, a takeover and a TTL deletion each allow one POST, which has
\* been sent, is about to be sent, or never will be.
Allowance ==
    applied + Cardinality(Posters)
        <= takeovers + expiries + (IF item = NoItem THEN 0 ELSE 1)

LEMMA PostersFinite ==
  IsFiniteSet(Posters) /\ Cardinality(Posters) \in Nat
<1>1. IsFiniteSet(Posters)
  BY DataAssumption, FS_Subset DEF Posters
<1> QED
  BY <1>1, FS_CardinalityType

\* What a message's step does to the number of messages about to post.
LEMMA PostersMove ==
  ASSUME TypeOK, NEW m \in Messages, NEW from, NEW to, Goto(m, from, to)
  PROVE  /\ from # "post" /\ to # "post" => Cardinality(Posters)' = Cardinality(Posters)
         /\ from # "post" /\ to = "post" => Cardinality(Posters)' = Cardinality(Posters) + 1
         /\ from = "post" /\ to # "post" => Cardinality(Posters)' = Cardinality(Posters) - 1
<1>1. Posters' = IF to = "post" THEN Posters \cup {m} ELSE Posters \ {m}
  BY DEF TypeOK, Posters, Goto
<1>2. m \in Posters <=> from = "post"
  BY DEF Posters, Goto
<1>3. CASE to = "post"
  BY <1>1, <1>2, <1>3, PostersFinite, FS_AddElement
<1>4. CASE to # "post"
  BY <1>1, <1>2, <1>4, PostersFinite, FS_RemoveElement
<1> QED
  BY <1>3, <1>4

LEMMA AllowanceStep ==
  ASSUME TypeOK, TypeOK', Allowance, [Next]_vars
  PROVE  Allowance'
<1>0. /\ Cardinality(Posters) \in Nat /\ Cardinality(Posters)' \in Nat
      /\ pc' = pc => Cardinality(Posters)' = Cardinality(Posters)
  <2>1. pc' = pc => Posters' = Posters
    BY DEF Posters
  <2>2. IsFiniteSet(Posters')
    BY DataAssumption, FS_Subset DEF Posters
  <2> QED
    BY <2>1, <2>2, PostersFinite, FS_CardinalityType
<1> USE <1>0 DEF TypeOK, Allowance, local, ledger, splunk
<1>1. ASSUME NEW m \in Messages, Receive(m) PROVE Allowance'
  BY <1>1, PostersMove DEF Receive
<1>2. ASSUME NEW m \in Messages, DeadLetter(m) PROVE Allowance'
  BY <1>2, PostersMove DEF DeadLetter
<1>3. ASSUME NEW m \in Messages, Ack(m) PROVE Allowance'
  BY <1>3, PostersMove DEF Ack
<1>4. ASSUME NEW m \in Messages, Reappear(m) PROVE Allowance'
  BY <1>4, PostersMove DEF Reappear
<1>5. ASSUME NEW m \in Messages, Analyze(m) PROVE Allowance'
  BY <1>5, PostersMove DEF Analyze
<1>6. ASSUME NEW m \in Messages, PutArtifact(m, "md", "json") PROVE Allowance'
  BY <1>6, PostersMove DEF PutArtifact
<1>7. ASSUME NEW m \in Messages, PutArtifact(m, "json", "reserve") PROVE Allowance'
  BY <1>7, PostersMove DEF PutArtifact
<1>8. ASSUME NEW m \in Messages, Reserve(m) PROVE Allowance'
  BY <1>8, PostersMove DEF Reserve, InProgress, NoItem
<1>9. ASSUME NEW m \in Messages, ReadItem(m) PROVE Allowance'
  BY <1>9, PostersMove DEF ReadItem
<1>10. ASSUME NEW m \in Messages, TakeOver(m) PROVE Allowance'
  BY <1>10, PostersMove DEF TakeOver, InProgress, NoItem, Owns
<1>11. ASSUME NEW m \in Messages, Post(m) PROVE Allowance'
  BY <1>11, PostersMove DEF Post
<1>12. ASSUME NEW m \in Messages, Complete(m) PROVE Allowance'
  BY <1>12, PostersMove, OwnedUpdate DEF Complete, Statuses
<1>13. ASSUME NEW m \in Messages, FenceAfterSuccess(m) PROVE Allowance'
  BY <1>13, PostersMove, OwnedUpdate DEF FenceAfterSuccess, Statuses
<1>14. ASSUME NEW m \in Messages, MarkUncertain(m) PROVE Allowance'
  <2>1. item # NoItem <=> item' # NoItem
    BY <1>14, OwnedUpdate DEF MarkUncertain, Statuses
  <2>2. Cardinality(Posters)' = Cardinality(Posters)
    BY <1>14, PostersMove DEF MarkUncertain
  <2> QED
    BY <1>14, <2>1, <2>2 DEF MarkUncertain
<1>15. ASSUME NEW m \in Messages, Crash(m) PROVE Allowance'
  <2>1. Goto(m, pc[m], "failed")
    BY <1>15 DEF Crash, Goto
  <2> QED
    BY <1>15, <2>1, PostersMove DEF Crash
<1>16. CASE Expire
  BY <1>16 DEF Expire
<1>17. CASE Tick
  BY <1>17 DEF Tick
<1>18. CASE UNCHANGED vars
  BY <1>18 DEF vars, local, ledger, splunk
<1> QED
  BY <1>1, <1>2, <1>3, <1>4, <1>5, <1>6, <1>7, <1>8, <1>9, <1>10,
     <1>11, <1>12, <1>13, <1>14, <1>15, <1>16, <1>17, <1>18
  DEF Next, Step

\* Comments are added at most once, plus once for every stale reservation
\* taken over and every item deleted by TTL.
THEOREM AppliedBoundedTheorem == Spec => []AppliedBounded
<1>1. Init => Allowance
  <2> SUFFICES ASSUME Init PROVE Allowance
    OBVIOUS
  <2>1. Posters = {}
    BY DEF Init, Posters
  <2> QED
    BY <2>1, FS_EmptySet DEF Init, Allowance
<1>2. TypeOK /\ TypeOK' /\ Allowance /\ [Next]_vars => Allowance'
  BY AllowanceStep
<1>3. TypeOK /\ Allowance => AppliedBounded
  BY PostersFinite DEF TypeOK, Allowance, AppliedBounded
<1> QED
  BY <1>1, <1>2, <1>3, TypeCorrect, PTL DEF Spec

-----------------------------------------------------------------------------
(* What a skip is told *)

\* A comment was added before anybody writes, reads or passes on "completed".
KnownApplied ==
    /\ item # NoItem /\ item.status = "completed" => applied > 0
    /\ \A m \in Messages :
           pc[m] \in {"record", "fence"} \/ told[m] = "completed" => applied > 0

LEMMA KnownAppliedStep ==
  ASSUME TypeOK, TypeOK', KnownApplied, [Next]_vars
  PROVE  KnownApplied'
<1> USE DEF TypeOK, KnownApplied, Goto, local, ledger, splunk
<1>1. ASSUME NEW m \in Messages, Receive(m) PROVE KnownApplied'
  BY <1>1 DEF Receive
<1>2. ASSUME NEW m \in Messages, DeadLetter(m) PROVE KnownApplied'
  BY <1>2 DEF DeadLetter
<1>3. ASSUME NEW m \in Messages, Ack(m) PROVE KnownApplied'
  BY <1>3 DEF Ack
<1>4. ASSUME NEW m \in Messages, Reappear(m) PROVE KnownApplied'
  BY <1>4 DEF Reappear
<1>5. ASSUME NEW m \in Messages, Analyze(m) PROVE KnownApplied'
  BY <1>5 DEF Analyze
<1>6. ASSUME NEW m \in Messages, PutArtifact(m, "md", "json") PROVE KnownApplied'
  BY <1>6 DEF PutArtifact
<1>7. ASSUME NEW m \in Messages, PutArtifact(m, "json", "reserve") PROVE KnownApplied'
  BY <1>7 DEF PutArtifact
<1>8. ASSUME NEW m \in Messages, Reserve(m) PROVE KnownApplied'
  BY <1>8 DEF Reserve, InProgress
<1>9. ASSUME NEW m \in Messages, ReadItem(m) PROVE KnownApplied'
  BY <1>9 DEF ReadItem
<1>10. ASSUME NEW m \in Messages, TakeOver(m) PROVE KnownApplied'
  BY <1>10 DEF TakeOver, InProgress
<1>11. ASSUME NEW m \in Messages, Post(m) PROVE KnownApplied'
  BY <1>11 DEF Post
<1>12. ASSUME NEW m \in Messages, Complete(m) PROVE KnownApplied'
  BY <1>12, OwnedUpdate DEF Complete, Statuses
<1>13. ASSUME NEW m \in Messages, FenceAfterSuccess(m) PROVE KnownApplied'
  BY <1>13, OwnedUpdate DEF FenceAfterSuccess, Statuses
<1>14. ASSUME NEW m \in Messages, MarkUncertain(m) PROVE KnownApplied'
  BY <1>14, OwnedUpdate DEF MarkUncertain, Statuses
<1>15. ASSUME NEW m \in Messages, Crash(m) PROVE KnownApplied'
  BY <1>15 DEF Crash
<1>16. CASE Expire
  BY <1>16 DEF Expire
<1>17. CASE Tick
  BY <1>17 DEF Tick
<1>18. CASE UNCHANGED vars
  BY <1>18 DEF vars, local, ledger, splunk
<1> QED
  BY <1>1, <1>2, <1>3, <1>4, <1>5, <1>6, <1>7, <1>8, <1>9, <1>10,
     <1>11, <1>12, <1>13, <1>14, <1>15, <1>16, <1>17, <1>18
  DEF Next, Step

\* A message acknowledged because the marker says "completed" has its comment.
THEOREM SkipIsTruthful == Spec => []SkipMeansApplied
<1>1. Init => KnownApplied
  BY DEF Init, KnownApplied
<1>2. TypeOK /\ TypeOK' /\ KnownApplied /\ [Next]_vars => KnownApplied'
  BY KnownAppliedStep
<1>3. KnownApplied => SkipMeansApplied
  BY DEF KnownApplied, SkipMeansApplied
<1> QED
  BY <1>1, <1>2, <1>3, TypeCorrect, PTL DEF Spec

-----------------------------------------------------------------------------
(* Nothing is lost behind a success *)

\* The message whose invocation made the reservation of the moment.
Keeper == item.token[1]

Undecided == item # NoItem /\ item.status = "in_progress"

\* Until a comment was added, whoever reserved has not been told to skip: his
\* message is with an invocation, waiting in the queue, or in its dead letters.
KeeperAnswers ==
    Undecided /\ applied = 0 => pc[Keeper] \notin {"done", "acked"}

\* While nothing was added, a reservation is stale before its keeper is delivered
\* again: until then it is at least as old as the rest of the delivery that made it.
KeptOrStale ==
    Undecided /\ applied = 0 =>
        \/ age > LockSeconds
        \/ /\ item.token[2] = receives[Keeper]
           /\ pc[Keeper] \in Running \cup {"failed"}
           /\ age >= since[Keeper] - started[Keeper]

\* A keeper who comes to the item again made it in an earlier delivery, and
\* nobody else renews it in his name.
EarlierReservation ==
    \A m \in Messages : item # NoItem /\ Keeper = m =>
        /\ pc[m] \in BeforeTakeover => item.token[2] < receives[m]
        /\ pc[m] = "takeover" => item.token = token[m]

StartedEarly == \A m \in Messages : started[m] <= LambdaTimeout

\* Until TTL deletes an item, there is one since the first reservation.
FirstReserves ==
    item = NoItem /\ expiries = 0 =>
        \A m \in Messages : pc[m] \in BeforeReserve \cup {"queued", "failed", "dead"}

KeeperInv ==
    KeeperAnswers /\ KeptOrStale /\ EarlierReservation /\ StartedEarly /\ FirstReserves

\* A failed message is seen again when a reservation made in its last delivery
\* is stale, no call of the store is reported failed after it took effect, and no
\* read shows an earlier state.
KeepersReturnLate ==
    /\ LambdaTimeout + LockSeconds < Visibility
    /\ Faults \cap {"store", "lag"} = {}

\* A reservation has a status and a token of one of the messages.
LEMMA ItemParts ==
  ASSUME TypeOK, item # NoItem
  PROVE  /\ item = [status |-> item.status, token |-> item.token]
         /\ Keeper \in Messages
         /\ item.token[2] \in 0 .. MaxReceives
BY DEF TypeOK, Items, Tokens, Keeper

\* Every step keeps the keeper of an undecided reservation answerable for it.
LEMMA KeeperStep ==
  ASSUME TypeOK, TypeOK', StartedInTime, TokensSpent, InTime, KnownApplied, KeeperInv,
         KeepersReturnLate, [Next]_vars
  PROVE  KeeperInv'
<1> USE TimesAssumption, ItemParts
    DEF TypeOK, KeeperInv, KeeperAnswers, KeptOrStale, EarlierReservation, StartedEarly,
        FirstReserves, Keeper, Undecided, BeforeTakeover, BeforeReserve, Running, Goto,
        local, ledger, splunk
<1>1. ASSUME NEW m \in Messages, Receive(m) PROVE KeeperInv'
  <2>1. KeeperAnswers' /\ KeptOrStale' /\ EarlierReservation'
    BY <1>1 DEF Receive, TokensSpent, Spent
  <2>2. StartedEarly' /\ FirstReserves'
    BY <1>1 DEF Receive
  <2> QED
    BY <2>1, <2>2
<1>2. ASSUME NEW m \in Messages, DeadLetter(m) PROVE KeeperInv'
  BY <1>2 DEF DeadLetter
<1>3. ASSUME NEW m \in Messages, Ack(m) PROVE KeeperInv'
  <2>1. KeeperAnswers' /\ KeptOrStale'
    BY <1>3 DEF Ack
  <2>2. EarlierReservation' /\ StartedEarly' /\ FirstReserves'
    BY <1>3 DEF Ack
  <2> QED
    BY <2>1, <2>2
<1>4. ASSUME NEW m \in Messages, Reappear(m) PROVE KeeperInv'
  <2>1. KeptOrStale'
    BY <1>4 DEF Reappear, KeepersReturnLate
  <2>2. KeeperAnswers' /\ EarlierReservation' /\ StartedEarly' /\ FirstReserves'
    BY <1>4 DEF Reappear
  <2> QED
    BY <2>1, <2>2
<1>5. ASSUME NEW m \in Messages, Analyze(m) PROVE KeeperInv'
  BY <1>5 DEF Analyze
<1>6. ASSUME NEW m \in Messages, PutArtifact(m, "md", "json") PROVE KeeperInv'
  BY <1>6 DEF PutArtifact
<1>7. ASSUME NEW m \in Messages, PutArtifact(m, "json", "reserve") PROVE KeeperInv'
  BY <1>7 DEF PutArtifact
<1>8. ASSUME NEW m \in Messages, Reserve(m) PROVE KeeperInv'
  <2>1. KeeperAnswers' /\ KeptOrStale'
    BY <1>8 DEF Reserve, InProgress, NoItem, PutToken
  <2>2. EarlierReservation'
    BY <1>8 DEF Reserve, InProgress, NoItem, PutToken, KeepersReturnLate
  <2>3. StartedEarly'
    BY <1>8 DEF Reserve, InTime
  <2>4. FirstReserves'
    BY <1>8 DEF Reserve, InProgress, NoItem
  <2> QED
    BY <2>1, <2>2, <2>3, <2>4
<1>9. ASSUME NEW m \in Messages, ReadItem(m) PROVE KeeperInv'
  BY <1>9 DEF ReadItem, IsStale, NoItem, KeepersReturnLate
<1>10. ASSUME NEW m \in Messages, TakeOver(m) PROVE KeeperInv'
  <2>1. KeeperAnswers'
    BY <1>10 DEF TakeOver, InProgress, NoItem, Owns, TakeoverToken, KeepersReturnLate
  <2>2. KeptOrStale'
    BY <1>10 DEF TakeOver, InProgress, NoItem, Owns, Capped, TakeoverToken, StartedInTime
  <2>3. EarlierReservation'
    BY <1>10 DEF TakeOver, InProgress, NoItem, Owns, TakeoverToken
  <2>4. StartedEarly' /\ FirstReserves'
    BY <1>10 DEF TakeOver, InProgress, NoItem, Owns
  <2> QED
    BY <2>1, <2>2, <2>3, <2>4
<1>11. ASSUME NEW m \in Messages, Post(m) PROVE KeeperInv'
  BY <1>11 DEF Post
<1>12. ASSUME NEW m \in Messages, Complete(m) PROVE KeeperInv'
  <2>1. KeeperAnswers' /\ KeptOrStale'
    BY <1>12, OwnedUpdate DEF Complete, Statuses, KnownApplied
  <2>2. EarlierReservation' /\ FirstReserves'
    BY <1>12, OwnedUpdate DEF Complete, Statuses
  <2>3. StartedEarly'
    BY <1>12 DEF Complete
  <2> QED
    BY <2>1, <2>2, <2>3
<1>13. ASSUME NEW m \in Messages, FenceAfterSuccess(m) PROVE KeeperInv'
  <2>1. KeeperAnswers' /\ KeptOrStale'
    BY <1>13, OwnedUpdate DEF FenceAfterSuccess, Statuses, KnownApplied
  <2>2. EarlierReservation' /\ FirstReserves'
    BY <1>13, OwnedUpdate DEF FenceAfterSuccess, Statuses
  <2>3. StartedEarly'
    BY <1>13 DEF FenceAfterSuccess
  <2> QED
    BY <2>1, <2>2, <2>3
<1>14. ASSUME NEW m \in Messages, MarkUncertain(m) PROVE KeeperInv'
  <2>1. KeeperAnswers' /\ KeptOrStale'
    BY <1>14, OwnedUpdate DEF MarkUncertain, Statuses
  <2>2. EarlierReservation' /\ FirstReserves'
    BY <1>14, OwnedUpdate DEF MarkUncertain, Statuses
  <2>3. StartedEarly'
    BY <1>14 DEF MarkUncertain
  <2> QED
    BY <2>1, <2>2, <2>3
<1>15. ASSUME NEW m \in Messages, Crash(m) PROVE KeeperInv'
  BY <1>15 DEF Crash
<1>16. CASE Expire
  BY <1>16 DEF Expire
<1>17. CASE Tick
  BY <1>17 DEF Tick, Capped
<1>18. CASE UNCHANGED vars
  BY <1>18 DEF vars
<1> QED
  BY <1>1, <1>2, <1>3, <1>4, <1>5, <1>6, <1>7, <1>8, <1>9, <1>10,
     <1>11, <1>12, <1>13, <1>14, <1>15, <1>16, <1>17, <1>18
  DEF Next, Step

\* When a message is redelivered later than a reservation takes to go stale, and
\* the store answers truly, no writeback disappears behind a success before TTL
\* deletes the item: when all messages are acknowledged, the comment was added or
\* the item says that somebody has to look.
THEOREM NothingIsSilentlyLost ==
  ASSUME Messages # {}, KeepersReturnLate
  PROVE  Spec => [](expiries = 0 => NoSilentLoss)
<1> DEFINE Inv == TypedInv /\ TokensSpent /\ InTime /\ KnownApplied /\ KeeperInv
<1>1. Init => Inv
  <2>1. Init => TokensSpent /\ InTime /\ KnownApplied /\ KeeperInv
    BY TimesAssumption DEF Init, TokensSpent, InTime, Running, KnownApplied, KeeperInv,
       KeeperAnswers, KeptOrStale, EarlierReservation, StartedEarly, FirstReserves, Undecided
  <2> QED
    BY <2>1, TypeInit
<1>2. Inv /\ [Next]_vars => Inv'
  <2> SUFFICES ASSUME Inv, [Next]_vars PROVE Inv'
    OBVIOUS
  <2>1. TypedInv'
    BY TypeStep
  <2> QED
    BY <2>1, TokensSpentStep, InTimeStep, KnownAppliedStep, KeeperStep DEF TypedInv
<1>3. Inv => (expiries = 0 => NoSilentLoss)
  <2> SUFFICES ASSUME Inv, expiries = 0, \A m \in Messages : pc[m] = "acked", applied = 0
               PROVE  item # NoItem /\ item.status = "uncertain"
    BY DEF NoSilentLoss, TypedInv, TypeOK
  <2>1. item # NoItem
    BY DEF KeeperInv, FirstReserves, BeforeReserve
  <2>2. item.status # "in_progress"
    BY <2>1, ItemParts DEF KeeperInv, KeeperAnswers, Undecided, TypedInv
  <2>3. item.status # "completed"
    BY <2>1 DEF KnownApplied
  <2> QED
    BY <2>1, <2>2, <2>3 DEF TypedInv, TypeOK, Items, Statuses
<1> QED
  BY <1>1, <1>2, <1>3, PTL DEF Spec

\* What a skipped invocation was told about a reservation that is not settled,
\* or that its read did not show.
Unsettled == {"in_progress", "unknown"}

\* A keeper who has nevertheless been told to skip was told so on account of his
\* own reservation.
KeeperTold ==
    Undecided /\ applied = 0 /\ pc[Keeper] \in {"done", "acked"} => told[Keeper] \in Unsettled

LEMMA KeeperToldStep ==
  ASSUME TypeOK, TypeOK', KnownApplied, KeeperTold, [Next]_vars
  PROVE  KeeperTold'
<1> USE ItemParts
    DEF TypeOK, KeeperTold, Keeper, Undecided, Unsettled, Goto, local, ledger, splunk
<1>1. ASSUME NEW m \in Messages, Receive(m) PROVE KeeperTold'
  BY <1>1 DEF Receive
<1>2. ASSUME NEW m \in Messages, DeadLetter(m) PROVE KeeperTold'
  BY <1>2 DEF DeadLetter
<1>3. ASSUME NEW m \in Messages, Ack(m) PROVE KeeperTold'
  BY <1>3 DEF Ack
<1>4. ASSUME NEW m \in Messages, Reappear(m) PROVE KeeperTold'
  BY <1>4 DEF Reappear
<1>5. ASSUME NEW m \in Messages, Analyze(m) PROVE KeeperTold'
  BY <1>5 DEF Analyze
<1>6. ASSUME NEW m \in Messages, PutArtifact(m, "md", "json") PROVE KeeperTold'
  BY <1>6 DEF PutArtifact
<1>7. ASSUME NEW m \in Messages, PutArtifact(m, "json", "reserve") PROVE KeeperTold'
  BY <1>7 DEF PutArtifact
<1>8. ASSUME NEW m \in Messages, Reserve(m) PROVE KeeperTold'
  BY <1>8 DEF Reserve, InProgress, NoItem, PutToken
<1>9. ASSUME NEW m \in Messages, ReadItem(m) PROVE KeeperTold'
  BY <1>9 DEF ReadItem, NoItem
<1>10. ASSUME NEW m \in Messages, TakeOver(m) PROVE KeeperTold'
  BY <1>10 DEF TakeOver, InProgress, NoItem, Owns, TakeoverToken
<1>11. ASSUME NEW m \in Messages, Post(m) PROVE KeeperTold'
  BY <1>11 DEF Post
<1>12. ASSUME NEW m \in Messages, Complete(m) PROVE KeeperTold'
  BY <1>12, OwnedUpdate DEF Complete, Statuses, KnownApplied
<1>13. ASSUME NEW m \in Messages, FenceAfterSuccess(m) PROVE KeeperTold'
  BY <1>13, OwnedUpdate DEF FenceAfterSuccess, Statuses, KnownApplied
<1>14. ASSUME NEW m \in Messages, MarkUncertain(m) PROVE KeeperTold'
  BY <1>14, OwnedUpdate DEF MarkUncertain, Statuses
<1>15. ASSUME NEW m \in Messages, Crash(m) PROVE KeeperTold'
  BY <1>15 DEF Crash
<1>16. CASE Expire
  BY <1>16 DEF Expire
<1>17. CASE Tick
  BY <1>17 DEF Tick
<1>18. CASE UNCHANGED vars
  BY <1>18 DEF vars
<1> QED
  BY <1>1, <1>2, <1>3, <1>4, <1>5, <1>6, <1>7, <1>8, <1>9, <1>10,
     <1>11, <1>12, <1>13, <1>14, <1>15, <1>16, <1>17, <1>18
  DEF Next, Step

LEMMA FirstReservesStep ==
  ASSUME TypeOK, TypeOK', FirstReserves, [Next]_vars
  PROVE  FirstReserves'
<1> USE BoundsAssumption DEF TypeOK, FirstReserves, BeforeReserve, Running, Goto, local, ledger, splunk
<1>1. ASSUME NEW m \in Messages, Receive(m) \/ DeadLetter(m) \/ Ack(m) \/ Reappear(m)
      PROVE  FirstReserves'
  BY <1>1 DEF Receive, DeadLetter, Ack, Reappear
<1>2. ASSUME NEW m \in Messages,
             Analyze(m) \/ PutArtifact(m, "md", "json") \/ PutArtifact(m, "json", "reserve")
      PROVE  FirstReserves'
  BY <1>2 DEF Analyze, PutArtifact
<1>3. ASSUME NEW m \in Messages, Reserve(m) PROVE FirstReserves'
  BY <1>3 DEF Reserve, InProgress, NoItem
<1>4. ASSUME NEW m \in Messages, ReadItem(m) \/ TakeOver(m) PROVE FirstReserves'
  BY <1>4 DEF ReadItem, TakeOver, InProgress, NoItem
<1>5. ASSUME NEW m \in Messages, Post(m) \/ Crash(m) PROVE FirstReserves'
  BY <1>5 DEF Post, Crash
<1>6. ASSUME NEW m \in Messages, Complete(m) PROVE FirstReserves'
  BY <1>6, OwnedUpdate DEF Complete, Statuses
<1>7. ASSUME NEW m \in Messages, FenceAfterSuccess(m) PROVE FirstReserves'
  BY <1>7, OwnedUpdate DEF FenceAfterSuccess, Statuses
<1>8. ASSUME NEW m \in Messages, MarkUncertain(m) PROVE FirstReserves'
  BY <1>8, OwnedUpdate DEF MarkUncertain, Statuses
<1>9. CASE Expire \/ Tick
  BY <1>9 DEF Expire, Tick
<1>10. CASE UNCHANGED vars
  BY <1>10 DEF vars
<1> QED
  BY <1>1, <1>2, <1>3, <1>4, <1>5, <1>6, <1>7, <1>8, <1>9, <1>10 DEF Next, Step

\* The one way a writeback can disappear: nothing was added, and the message that
\* made the reservation was acknowledged because it met that reservation, or did
\* not see what became of it.
SkippedItself ==
    /\ applied = 0
    /\ Undecided
    /\ pc[Keeper] = "acked"
    /\ told[Keeper] \in Unsettled

\* For every timing and every fault: when all messages are acknowledged and TTL
\* has deleted nothing, the comment was added, the item says that somebody has to
\* look, or the message that made the reservation has skipped on its account.
\* No message is ever lost to somebody else's reservation.
THEOREM LossIsByOwnReservation ==
  ASSUME Messages # {}
  PROVE  Spec => [](expiries = 0 => NoSilentLoss \/ SkippedItself)
<1> DEFINE Inv == KnownApplied /\ KeeperTold /\ FirstReserves
<1>1. Init => Inv
  BY DEF Init, KnownApplied, KeeperTold, Undecided, FirstReserves, BeforeReserve
<1>2. TypeOK /\ TypeOK' /\ Inv /\ [Next]_vars => Inv'
  BY KnownAppliedStep, KeeperToldStep, FirstReservesStep
<1>3. TypeOK /\ Inv => (expiries = 0 => NoSilentLoss \/ SkippedItself)
  <2> SUFFICES ASSUME TypeOK, Inv, expiries = 0, \A m \in Messages : pc[m] = "acked",
                      applied = 0, ~(item # NoItem /\ item.status = "uncertain")
               PROVE  SkippedItself
    BY DEF NoSilentLoss, TypeOK
  <2>1. item # NoItem
    BY DEF FirstReserves, BeforeReserve
  <2>2. item.status # "completed"
    BY <2>1 DEF KnownApplied
  <2>3. Undecided
    BY <2>1, <2>2 DEF TypeOK, Items, Statuses, Undecided
  <2> QED
    BY <2>1, <2>3, ItemParts DEF SkippedItself, KeeperTold
<1> QED
  BY <1>1, <1>2, <1>3, TypeCorrect, PTL DEF Spec

-----------------------------------------------------------------------------
(* The comment and the report objects *)

\* An invocation past a report object has found or left its own report there.
StoredFirst ==
    \A m \in Messages :
        /\ pc[m] \in {"json", "reserve", "read", "takeover", "post"} =>
               report[ObjectOf[m]]["md"] = analysis[m]
        /\ pc[m] \in {"reserve", "read", "takeover", "post"} =>
               report[ObjectOf[m]]["json"] = analysis[m]

StoredInv == AnalysisChosen /\ StoredFirst /\ PostedIsStored

\* A report object never changes.
LEMMA ReportKept ==
  ASSUME TypeOK, [Next]_vars, NEW o \in Objects, NEW k \in Kinds, report[o][k] # Absent
  PROVE  report'[o][k] = report[o][k]
<1> USE DataAssumption DEF TypeOK, Kinds, local, ledger, splunk
<1>1. ASSUME NEW m \in Messages, Receive(m) PROVE report'[o][k] = report[o][k]
  BY <1>1 DEF Receive
<1>2. ASSUME NEW m \in Messages, DeadLetter(m) PROVE report'[o][k] = report[o][k]
  BY <1>2 DEF DeadLetter
<1>3. ASSUME NEW m \in Messages, Ack(m) PROVE report'[o][k] = report[o][k]
  BY <1>3 DEF Ack
<1>4. ASSUME NEW m \in Messages, Reappear(m) PROVE report'[o][k] = report[o][k]
  BY <1>4 DEF Reappear
<1>5. ASSUME NEW m \in Messages, Analyze(m) PROVE report'[o][k] = report[o][k]
  BY <1>5 DEF Analyze
<1>6. ASSUME NEW m \in Messages, PutArtifact(m, "md", "json") PROVE report'[o][k] = report[o][k]
  BY <1>6 DEF PutArtifact
<1>7. ASSUME NEW m \in Messages, PutArtifact(m, "json", "reserve") PROVE report'[o][k] = report[o][k]
  BY <1>7 DEF PutArtifact
<1>8. ASSUME NEW m \in Messages, Reserve(m) PROVE report'[o][k] = report[o][k]
  BY <1>8 DEF Reserve
<1>9. ASSUME NEW m \in Messages, ReadItem(m) PROVE report'[o][k] = report[o][k]
  BY <1>9 DEF ReadItem
<1>10. ASSUME NEW m \in Messages, TakeOver(m) PROVE report'[o][k] = report[o][k]
  BY <1>10 DEF TakeOver
<1>11. ASSUME NEW m \in Messages, Post(m) PROVE report'[o][k] = report[o][k]
  BY <1>11 DEF Post
<1>12. ASSUME NEW m \in Messages, Complete(m) PROVE report'[o][k] = report[o][k]
  BY <1>12 DEF Complete
<1>13. ASSUME NEW m \in Messages, FenceAfterSuccess(m) PROVE report'[o][k] = report[o][k]
  BY <1>13 DEF FenceAfterSuccess
<1>14. ASSUME NEW m \in Messages, MarkUncertain(m) PROVE report'[o][k] = report[o][k]
  BY <1>14 DEF MarkUncertain
<1>15. ASSUME NEW m \in Messages, Crash(m) PROVE report'[o][k] = report[o][k]
  BY <1>15 DEF Crash
<1>16. CASE Expire
  BY <1>16 DEF Expire
<1>17. CASE Tick
  BY <1>17 DEF Tick
<1>18. CASE UNCHANGED vars
  BY <1>18 DEF vars, local, ledger, splunk
<1> QED
  BY <1>1, <1>2, <1>3, <1>4, <1>5, <1>6, <1>7, <1>8, <1>9, <1>10,
     <1>11, <1>12, <1>13, <1>14, <1>15, <1>16, <1>17, <1>18
  DEF Next, Step

LEMMA StoredFirstStep ==
  ASSUME TypeOK, TypeOK', AnalysisChosen, StoredFirst, [Next]_vars
  PROVE  StoredFirst'
<1>0. /\ \A m \in Messages : ObjectOf[m] \in Objects
      /\ \A o \in Objects : \A k \in Kinds : report[o][k] # Absent => report'[o][k] = report[o][k]
      /\ \A m \in Messages : pc[m] \in Running \ {"analyze"} => analysis[m] # Absent
  BY ReportKept, DataAssumption DEF AnalysisChosen
<1> USE <1>0 DEF TypeOK, StoredFirst, Goto, Kinds, Running, local, ledger, splunk
<1>1. ASSUME NEW m \in Messages, Receive(m) PROVE StoredFirst'
  BY <1>1 DEF Receive
<1>2. ASSUME NEW m \in Messages, DeadLetter(m) PROVE StoredFirst'
  BY <1>2 DEF DeadLetter
<1>3. ASSUME NEW m \in Messages, Ack(m) PROVE StoredFirst'
  BY <1>3 DEF Ack
<1>4. ASSUME NEW m \in Messages, Reappear(m) PROVE StoredFirst'
  BY <1>4 DEF Reappear
<1>5. ASSUME NEW m \in Messages, Analyze(m) PROVE StoredFirst'
  BY <1>5 DEF Analyze
<1>6. ASSUME NEW m \in Messages, PutArtifact(m, "md", "json") PROVE StoredFirst'
  BY <1>6 DEF PutArtifact
<1>7. ASSUME NEW m \in Messages, PutArtifact(m, "json", "reserve") PROVE StoredFirst'
  BY <1>7 DEF PutArtifact
<1>8. ASSUME NEW m \in Messages, Reserve(m) PROVE StoredFirst'
  BY <1>8 DEF Reserve
<1>9. ASSUME NEW m \in Messages, ReadItem(m) PROVE StoredFirst'
  BY <1>9 DEF ReadItem
<1>10. ASSUME NEW m \in Messages, TakeOver(m) PROVE StoredFirst'
  BY <1>10 DEF TakeOver
<1>11. ASSUME NEW m \in Messages, Post(m) PROVE StoredFirst'
  BY <1>11 DEF Post
<1>12. ASSUME NEW m \in Messages, Complete(m) PROVE StoredFirst'
  BY <1>12 DEF Complete
<1>13. ASSUME NEW m \in Messages, FenceAfterSuccess(m) PROVE StoredFirst'
  BY <1>13 DEF FenceAfterSuccess
<1>14. ASSUME NEW m \in Messages, MarkUncertain(m) PROVE StoredFirst'
  BY <1>14 DEF MarkUncertain
<1>15. ASSUME NEW m \in Messages, Crash(m) PROVE StoredFirst'
  BY <1>15 DEF Crash
<1>16. CASE Expire
  BY <1>16 DEF Expire
<1>17. CASE Tick
  BY <1>17 DEF Tick
<1>18. CASE UNCHANGED vars
  BY <1>18 DEF vars, local, ledger, splunk
<1> QED
  BY <1>1, <1>2, <1>3, <1>4, <1>5, <1>6, <1>7, <1>8, <1>9, <1>10,
     <1>11, <1>12, <1>13, <1>14, <1>15, <1>16, <1>17, <1>18
  DEF Next, Step

LEMMA PostedIsStoredStep ==
  ASSUME TypeOK, TypeOK', StoredInv, [Next]_vars
  PROVE  PostedIsStored'
<1>0. \A o \in Objects : \A k \in Kinds : report[o][k] # Absent => report'[o][k] = report[o][k]
  BY ReportKept
<1>1. \A p \in posted : p[1] \in Objects /\ p[2] # Absent
  BY DataAssumption DEF TypeOK
<1>2. \A p \in posted : \A k \in Kinds : report'[p[1]][k] = p[2]
  BY <1>0, <1>1 DEF StoredInv, PostedIsStored
<1>3. ASSUME NEW m \in Messages, Post(m) PROVE PostedIsStored'
  <2>1. \/ posted' = posted
        \/ posted' = posted \cup {<<ObjectOf[m], analysis[m]>>}
    BY <1>3 DEF Post, splunk
  <2>2. report' = report /\ \A k \in Kinds : report[ObjectOf[m]][k] = analysis[m]
    BY <1>3 DEF Post, Goto, StoredInv, StoredFirst, Kinds
  <2> QED
    BY <1>2, <2>1, <2>2 DEF PostedIsStored
<1>4. CASE UNCHANGED posted
  BY <1>2, <1>4 DEF PostedIsStored
<1>5. CASE \A m \in Messages : ~Post(m)
  BY <1>4, <1>5 DEF Next, Step, Receive, DeadLetter, Ack, Reappear, Analyze, PutArtifact,
     Reserve, ReadItem, TakeOver, Complete, FenceAfterSuccess, MarkUncertain, Crash, Expire,
     Tick, vars, splunk
<1> QED
  BY <1>3, <1>5

\* Whatever was posted for an object is what both its report objects hold.
THEOREM CommentMatchesReport == Spec => []PostedIsStored
<1>1. Init => StoredInv
  BY TypeInit DEF TypedInv, Init, StoredInv, StoredFirst, PostedIsStored
<1>2. TypeOK /\ TypeOK' /\ AnalysisChosen' /\ StoredInv /\ [Next]_vars => StoredInv'
  BY StoredFirstStep, PostedIsStoredStep DEF StoredInv
<1>3. StoredInv => PostedIsStored
  BY DEF StoredInv
<1> QED
  BY <1>1, <1>2, <1>3, Typed, PTL DEF Spec, TypedInv

-----------------------------------------------------------------------------
(* Outcomes are final *)

LEMMA OutcomeStep ==
  ASSUME TypeOK, [Next]_vars, item # NoItem, item.status # "in_progress"
  PROVE  item' \in {item, NoItem}
<1> USE DEF local, ledger, splunk
<1>1. ASSUME NEW m \in Messages, Receive(m) PROVE item' \in {item, NoItem}
  BY <1>1 DEF Receive
<1>2. ASSUME NEW m \in Messages, DeadLetter(m) PROVE item' \in {item, NoItem}
  BY <1>2 DEF DeadLetter
<1>3. ASSUME NEW m \in Messages, Ack(m) PROVE item' \in {item, NoItem}
  BY <1>3 DEF Ack
<1>4. ASSUME NEW m \in Messages, Reappear(m) PROVE item' \in {item, NoItem}
  BY <1>4 DEF Reappear
<1>5. ASSUME NEW m \in Messages, Analyze(m) PROVE item' \in {item, NoItem}
  BY <1>5 DEF Analyze
<1>6. ASSUME NEW m \in Messages, PutArtifact(m, "md", "json") PROVE item' \in {item, NoItem}
  BY <1>6 DEF PutArtifact
<1>7. ASSUME NEW m \in Messages, PutArtifact(m, "json", "reserve") PROVE item' \in {item, NoItem}
  BY <1>7 DEF PutArtifact
<1>8. ASSUME NEW m \in Messages, Reserve(m) PROVE item' \in {item, NoItem}
  BY <1>8 DEF Reserve, Owns, InProgress
<1>9. ASSUME NEW m \in Messages, ReadItem(m) PROVE item' \in {item, NoItem}
  BY <1>9 DEF ReadItem
<1>10. ASSUME NEW m \in Messages, TakeOver(m) PROVE item' \in {item, NoItem}
  BY <1>10 DEF TakeOver, Owns, InProgress
<1>11. ASSUME NEW m \in Messages, Post(m) PROVE item' \in {item, NoItem}
  BY <1>11 DEF Post
<1>12. ASSUME NEW m \in Messages, Complete(m) PROVE item' \in {item, NoItem}
  BY <1>12 DEF Complete, Owns, InProgress
<1>13. ASSUME NEW m \in Messages, FenceAfterSuccess(m) PROVE item' \in {item, NoItem}
  BY <1>13 DEF FenceAfterSuccess, Owns, InProgress
<1>14. ASSUME NEW m \in Messages, MarkUncertain(m) PROVE item' \in {item, NoItem}
  BY <1>14 DEF MarkUncertain, Owns, InProgress
<1>15. ASSUME NEW m \in Messages, Crash(m) PROVE item' \in {item, NoItem}
  BY <1>15 DEF Crash
<1>16. CASE Expire
  BY <1>16 DEF Expire
<1>17. CASE Tick
  BY <1>17 DEF Tick
<1>18. CASE UNCHANGED vars
  BY <1>18 DEF vars, local, ledger, splunk
<1> QED
  BY <1>1, <1>2, <1>3, <1>4, <1>5, <1>6, <1>7, <1>8, <1>9, <1>10,
     <1>11, <1>12, <1>13, <1>14, <1>15, <1>16, <1>17, <1>18
  DEF Next, Step

\* A reservation that reached an outcome keeps it until TTL deletes the item.
THEOREM OutcomesAreFinal == Spec => OutcomeIsFinal
<1>1. TypeOK /\ [Next]_vars
        => [item # NoItem /\ item.status # "in_progress" => item' \in {item, NoItem}]_vars
  BY OutcomeStep
<1> QED
  BY <1>1, TypeCorrect, PTL DEF Spec, OutcomeIsFinal

-----------------------------------------------------------------------------
(* The reservation is implemented *)

\* A writing invocation holds a token it made itself.
WriterMade ==
    \A m \in Messages : pc[m] \in Writing => token[m] \in {PutToken(m), TakeoverToken(m)}

\* The tokens whose invocations are about to post: Guard's armed.
PostTokens == {token[m] : m \in {n \in Messages : pc[n] = "post"}}

LEMMA WriterMadeStep ==
  ASSUME TypeOK, WriterMade, [Next]_vars
  PROVE  WriterMade'
<1> USE DEF TypeOK, WriterMade, Goto, Writing, PutToken, TakeoverToken, local, ledger, splunk
<1>1. ASSUME NEW m \in Messages, Receive(m) PROVE WriterMade'
  BY <1>1 DEF Receive
<1>2. ASSUME NEW m \in Messages, DeadLetter(m) PROVE WriterMade'
  BY <1>2 DEF DeadLetter
<1>3. ASSUME NEW m \in Messages, Ack(m) PROVE WriterMade'
  BY <1>3 DEF Ack
<1>4. ASSUME NEW m \in Messages, Reappear(m) PROVE WriterMade'
  BY <1>4 DEF Reappear
<1>5. ASSUME NEW m \in Messages, Analyze(m) PROVE WriterMade'
  BY <1>5 DEF Analyze
<1>6. ASSUME NEW m \in Messages, PutArtifact(m, "md", "json") PROVE WriterMade'
  BY <1>6 DEF PutArtifact
<1>7. ASSUME NEW m \in Messages, PutArtifact(m, "json", "reserve") PROVE WriterMade'
  BY <1>7 DEF PutArtifact
<1>8. ASSUME NEW m \in Messages, Reserve(m) PROVE WriterMade'
  BY <1>8 DEF Reserve
<1>9. ASSUME NEW m \in Messages, ReadItem(m) PROVE WriterMade'
  BY <1>9 DEF ReadItem
<1>10. ASSUME NEW m \in Messages, TakeOver(m) PROVE WriterMade'
  BY <1>10 DEF TakeOver
<1>11. ASSUME NEW m \in Messages, Post(m) PROVE WriterMade'
  BY <1>11 DEF Post
<1>12. ASSUME NEW m \in Messages, Complete(m) PROVE WriterMade'
  BY <1>12 DEF Complete
<1>13. ASSUME NEW m \in Messages, FenceAfterSuccess(m) PROVE WriterMade'
  BY <1>13 DEF FenceAfterSuccess
<1>14. ASSUME NEW m \in Messages, MarkUncertain(m) PROVE WriterMade'
  BY <1>14 DEF MarkUncertain
<1>15. ASSUME NEW m \in Messages, Crash(m) PROVE WriterMade'
  BY <1>15 DEF Crash
<1>16. CASE Expire
  BY <1>16 DEF Expire
<1>17. CASE Tick
  BY <1>17 DEF Tick
<1>18. CASE UNCHANGED vars
  BY <1>18 DEF vars, local, ledger, splunk
<1> QED
  BY <1>1, <1>2, <1>3, <1>4, <1>5, <1>6, <1>7, <1>8, <1>9, <1>10,
     <1>11, <1>12, <1>13, <1>14, <1>15, <1>16, <1>17, <1>18
  DEF Next, Step

\* What a message's step does to the tokens about to post.
LEMMA PostTokensMove ==
  ASSUME TypeOK, TypeOK', WriterMade, NEW m \in Messages,
         \A n \in Messages \ {m} : pc'[n] = pc[n] /\ token'[n] = token[n]
  PROVE  /\ pc[m] # "post" /\ pc'[m] # "post" => PostTokens' = PostTokens
         /\ pc[m] # "post" /\ pc'[m] = "post" => PostTokens' = PostTokens \cup {token'[m]}
         /\ pc[m] = "post" /\ pc'[m] # "post" => PostTokens' = PostTokens \ {token[m]}
<1> USE DEF TypeOK, PostTokens
<1>1. ASSUME pc[m] = "post"
      PROVE  \A n \in Messages : pc[n] = "post" /\ n # m => token[n] # token[m]
  BY <1>1 DEF WriterMade, Writing, PutToken, TakeoverToken
<1>2. ASSUME pc[m] # "post", pc'[m] # "post" PROVE PostTokens' = PostTokens
  <2>1. \A n \in Messages : pc'[n] = "post" <=> pc[n] = "post"
    BY <1>2
  <2>2. \A n \in Messages : pc[n] = "post" => token'[n] = token[n]
    BY <1>2
  <2> QED
    BY <2>1, <2>2
<1>3. ASSUME pc[m] # "post", pc'[m] = "post" PROVE PostTokens' = PostTokens \cup {token'[m]}
  <2>1. \A n \in Messages : pc'[n] = "post" <=> pc[n] = "post" \/ n = m
    BY <1>3
  <2>2. \A n \in Messages : pc[n] = "post" => token'[n] = token[n]
    BY <1>3
  <2> QED
    BY <2>1, <2>2
<1>4. ASSUME pc[m] = "post", pc'[m] # "post" PROVE PostTokens' = PostTokens \ {token[m]}
  <2>1. \A n \in Messages : pc'[n] = "post" <=> pc[n] = "post" /\ n # m
    BY <1>4
  <2>2. \A n \in Messages : pc'[n] = "post" => token'[n] = token[n]
    BY <1>4, <2>1
  <2> QED
    BY <1>1, <1>4, <2>1, <2>2
<1> QED
  BY <1>2, <1>3, <1>4

\* A fresh token is not about to be posted under, nor is one past its POST.
LEMMA NotArmed ==
  ASSUME TypeOK, WriterMade, NEW m \in Messages, pc[m] # "post"
  PROVE  /\ PutToken(m) \notin PostTokens /\ TakeoverToken(m) \notin PostTokens
         /\ pc[m] \in Writing => token[m] \notin PostTokens
  BY DEF TypeOK, WriterMade, PostTokens, Writing, PutToken, TakeoverToken

LEMMA GuardStep ==
  ASSUME TypeOK, TypeOK', WriterMade, [Next]_vars
  PROVE  [Guard!Next]_(Guard!vars)
<1>0. /\ Guard!vars = <<item, PostTokens, applied, takeovers, expiries>>
      /\ Guard!vars' = <<item', PostTokens', applied', takeovers', expiries'>>
  BY DEF Guard!vars, PostTokens
<1> DEFINE idle == UNCHANGED <<item, applied, takeovers, expiries>> /\ PostTokens' = PostTokens
<1>idle. ASSUME idle PROVE Guard!vars' = Guard!vars
  BY <1>0, <1>idle
<1>settle. ASSUME NEW m \in Messages, pc[m] \in Writing, pc[m] # "post", Owns(m),
                  SetStatus("completed") \/ SetStatus("uncertain"),
                  UNCHANGED <<applied, takeovers, expiries>>, PostTokens' = PostTokens
           PROVE  \E t \in Tokens : Guard!Settle(t)
  <2>1. /\ item' = [status |-> "completed", token |-> token[m]]
           \/ item' = [status |-> "uncertain", token |-> token[m]]
        /\ token[m] \in Tokens
    BY <1>settle, OwnedUpdate DEF Statuses, TypeOK
  <2> QED
    BY <1>settle, <2>1, NotArmed
    DEF Guard!Settle, Guard!Settled, Guard!Held, Owns, InProgress, PostTokens
<1> USE DEF local, ledger, splunk
<1>1. ASSUME NEW m \in Messages, Receive(m) PROVE idle
  <2>1. /\ pc[m] # "post" /\ pc'[m] # "post"
        /\ \A n \in Messages \ {m} : pc'[n] = pc[n] /\ token'[n] = token[n]
    BY <1>1 DEF Receive, Goto, TypeOK
  <2>2. PostTokens' = PostTokens
    BY <2>1, PostTokensMove
  <2> QED
    BY <1>1, <2>2 DEF Receive
<1>2. ASSUME NEW m \in Messages, DeadLetter(m) PROVE idle
  <2>1. /\ pc[m] # "post" /\ pc'[m] # "post"
        /\ \A n \in Messages \ {m} : pc'[n] = pc[n] /\ token'[n] = token[n]
    BY <1>2 DEF DeadLetter, Goto, TypeOK
  <2>2. PostTokens' = PostTokens
    BY <2>1, PostTokensMove
  <2> QED
    BY <1>2, <2>2 DEF DeadLetter
<1>3. ASSUME NEW m \in Messages, Ack(m) PROVE idle
  <2>1. /\ pc[m] # "post" /\ pc'[m] # "post"
        /\ \A n \in Messages \ {m} : pc'[n] = pc[n] /\ token'[n] = token[n]
    BY <1>3 DEF Ack, Goto, TypeOK
  <2>2. PostTokens' = PostTokens
    BY <2>1, PostTokensMove
  <2> QED
    BY <1>3, <2>2 DEF Ack
<1>4. ASSUME NEW m \in Messages, Reappear(m) PROVE idle
  <2>1. /\ pc[m] # "post" /\ pc'[m] # "post"
        /\ \A n \in Messages \ {m} : pc'[n] = pc[n] /\ token'[n] = token[n]
    BY <1>4 DEF Reappear, Goto, TypeOK
  <2>2. PostTokens' = PostTokens
    BY <2>1, PostTokensMove
  <2> QED
    BY <1>4, <2>2 DEF Reappear
<1>5. ASSUME NEW m \in Messages, Analyze(m) PROVE idle
  <2>1. /\ pc[m] # "post" /\ pc'[m] # "post"
        /\ \A n \in Messages \ {m} : pc'[n] = pc[n] /\ token'[n] = token[n]
    BY <1>5 DEF Analyze, Goto, TypeOK
  <2>2. PostTokens' = PostTokens
    BY <2>1, PostTokensMove
  <2> QED
    BY <1>5, <2>2 DEF Analyze
<1>6. ASSUME NEW m \in Messages, PutArtifact(m, "md", "json") PROVE idle
  <2>1. /\ pc[m] # "post" /\ pc'[m] # "post"
        /\ \A n \in Messages \ {m} : pc'[n] = pc[n] /\ token'[n] = token[n]
    BY <1>6 DEF PutArtifact, Goto, TypeOK
  <2>2. PostTokens' = PostTokens
    BY <2>1, PostTokensMove
  <2> QED
    BY <1>6, <2>2 DEF PutArtifact
<1>7. ASSUME NEW m \in Messages, PutArtifact(m, "json", "reserve") PROVE idle
  <2>1. /\ pc[m] # "post" /\ pc'[m] # "post"
        /\ \A n \in Messages \ {m} : pc'[n] = pc[n] /\ token'[n] = token[n]
    BY <1>7 DEF PutArtifact, Goto, TypeOK
  <2>2. PostTokens' = PostTokens
    BY <2>1, PostTokensMove
  <2> QED
    BY <1>7, <2>2 DEF PutArtifact
<1>8. ASSUME NEW m \in Messages, Reserve(m)
      PROVE  idle \/ (\E t \in Tokens : Guard!Grant(t))
  <2>1. /\ pc[m] = "reserve" /\ token'[m] = PutToken(m)
        /\ \A n \in Messages \ {m} : pc'[n] = pc[n] /\ token'[n] = token[n]
        /\ UNCHANGED <<applied, takeovers, expiries>>
    BY <1>8 DEF Reserve, Goto, TypeOK
  <2>2. PutToken(m) \notin PostTokens
    BY <2>1, NotArmed
  <2>3. PostTokens' \in {PostTokens, PostTokens \cup {PutToken(m)}}
    BY <2>1, PostTokensMove
  <2>4. ASSUME item' = item, pc'[m] # "post" PROVE idle
    BY <2>1, <2>4, PostTokensMove
  <2>5. ASSUME item = NoItem, item' = InProgress(PutToken(m))
        PROVE  \E t \in Tokens : Guard!Grant(t)
    BY <2>1, <2>2, <2>3, <2>5, ReservationType
    DEF Guard!Grant, Guard!Free, Guard!Held, NoItem, InProgress, PostTokens
  <2>6. \/ item' = item /\ pc'[m] # "post"
        \/ item = NoItem /\ item' = InProgress(PutToken(m))
    BY <1>8 DEF Reserve, Goto, TypeOK
  <2> QED
    BY <2>4, <2>5, <2>6
<1>9. ASSUME NEW m \in Messages, ReadItem(m) PROVE idle
  <2>1. /\ pc[m] # "post" /\ pc'[m] # "post"
        /\ \A n \in Messages \ {m} : pc'[n] = pc[n] /\ token'[n] = token[n]
    BY <1>9 DEF ReadItem, Goto, TypeOK
  <2>2. PostTokens' = PostTokens
    BY <2>1, PostTokensMove
  <2> QED
    BY <1>9, <2>2 DEF ReadItem
<1>10. ASSUME NEW m \in Messages, TakeOver(m)
       PROVE  idle \/ (\E t \in Tokens : Guard!Grant(t))
  <2>1. /\ pc[m] = "takeover" /\ token'[m] = TakeoverToken(m)
        /\ \A n \in Messages \ {m} : pc'[n] = pc[n] /\ token'[n] = token[n]
        /\ UNCHANGED <<applied, expiries>>
    BY <1>10 DEF TakeOver, Goto, TypeOK
  <2>2. TakeoverToken(m) \notin PostTokens
    BY <2>1, NotArmed
  <2>3. PostTokens' \in {PostTokens, PostTokens \cup {TakeoverToken(m)}}
    BY <2>1, PostTokensMove
  <2>4. ASSUME pc'[m] # "post", UNCHANGED <<item, takeovers>> PROVE idle
    BY <2>1, <2>4, PostTokensMove
  <2>5. ASSUME Owns(m), item' = InProgress(TakeoverToken(m)), takeovers' = takeovers + 1
        PROVE  \E t \in Tokens : Guard!Grant(t)
    <3>1. token[m] \in Tokens
      BY DEF TypeOK
    <3> QED
      BY <2>1, <2>2, <2>3, <2>5, <3>1, ReservationType
      DEF Guard!Grant, Guard!Held, Owns, InProgress, PostTokens
  <2>6. \/ pc'[m] # "post" /\ UNCHANGED <<item, takeovers>>
        \/ Owns(m) /\ item' = InProgress(TakeoverToken(m)) /\ takeovers' = takeovers + 1
    BY <1>10 DEF TakeOver, Goto, TypeOK
  <2> QED
    BY <2>4, <2>5, <2>6
<1>11. ASSUME NEW m \in Messages, Post(m) PROVE \E t \in Tokens : Guard!Try(t)
  <2>1. /\ pc[m] = "post" /\ pc'[m] # "post"
        /\ \A n \in Messages \ {m} : pc'[n] = pc[n] /\ token'[n] = token[n]
    BY <1>11 DEF Post, Goto, TypeOK
  <2>2. token[m] \in PostTokens /\ token[m] \in Tokens
    BY <2>1 DEF PostTokens, TypeOK
  <2>3. PostTokens' = PostTokens \ {token[m]}
    BY <2>1, PostTokensMove
  <2> QED
    BY <1>11, <2>2, <2>3 DEF Post, Guard!Try, PostTokens
<1>12. ASSUME NEW m \in Messages, Complete(m)
       PROVE  idle \/ (\E t \in Tokens : Guard!Settle(t))
  <2>1. /\ pc[m] = "record" /\ pc'[m] # "post"
        /\ \A n \in Messages \ {m} : pc'[n] = pc[n] /\ token'[n] = token[n]
        /\ UNCHANGED <<applied, takeovers, expiries>>
        /\ \/ item' = item
           \/ Owns(m) /\ (SetStatus("completed") \/ SetStatus("uncertain"))
    BY <1>12 DEF Complete, Goto, TypeOK
  <2>2. PostTokens' = PostTokens
    BY <2>1, PostTokensMove
  <2>3. pc[m] \in Writing /\ pc[m] # "post"
    BY <2>1 DEF Writing
  <2>4. CASE item' = item
    BY <2>1, <2>2, <2>4
  <2>5. CASE Owns(m) /\ (SetStatus("completed") \/ SetStatus("uncertain"))
    BY <2>1, <2>2, <2>3, <2>5, <1>settle
  <2> QED
    BY <2>1, <2>4, <2>5
<1>13. ASSUME NEW m \in Messages, FenceAfterSuccess(m)
       PROVE  idle \/ (\E t \in Tokens : Guard!Settle(t))
  <2>1. /\ pc[m] = "fence" /\ pc'[m] # "post"
        /\ \A n \in Messages \ {m} : pc'[n] = pc[n] /\ token'[n] = token[n]
        /\ UNCHANGED <<applied, takeovers, expiries>>
        /\ \/ item' = item
           \/ Owns(m) /\ (SetStatus("completed") \/ SetStatus("uncertain"))
    BY <1>13 DEF FenceAfterSuccess, Goto, TypeOK
  <2>2. PostTokens' = PostTokens
    BY <2>1, PostTokensMove
  <2>3. pc[m] \in Writing /\ pc[m] # "post"
    BY <2>1 DEF Writing
  <2>4. CASE item' = item
    BY <2>1, <2>2, <2>4
  <2>5. CASE Owns(m) /\ (SetStatus("completed") \/ SetStatus("uncertain"))
    BY <2>1, <2>2, <2>3, <2>5, <1>settle
  <2> QED
    BY <2>1, <2>4, <2>5
<1>14. ASSUME NEW m \in Messages, MarkUncertain(m)
       PROVE  idle \/ (\E t \in Tokens : Guard!Settle(t))
  <2>1. /\ pc[m] = "mark" /\ pc'[m] # "post"
        /\ \A n \in Messages \ {m} : pc'[n] = pc[n] /\ token'[n] = token[n]
        /\ UNCHANGED <<applied, takeovers, expiries>>
        /\ \/ item' = item
           \/ Owns(m) /\ (SetStatus("completed") \/ SetStatus("uncertain"))
    BY <1>14 DEF MarkUncertain, Goto, TypeOK
  <2>2. PostTokens' = PostTokens
    BY <2>1, PostTokensMove
  <2>3. pc[m] \in Writing /\ pc[m] # "post"
    BY <2>1 DEF Writing
  <2>4. CASE item' = item
    BY <2>1, <2>2, <2>4
  <2>5. CASE Owns(m) /\ (SetStatus("completed") \/ SetStatus("uncertain"))
    BY <2>1, <2>2, <2>3, <2>5, <1>settle
  <2> QED
    BY <2>1, <2>4, <2>5
<1>15. ASSUME NEW m \in Messages, Crash(m)
       PROVE  idle \/ (\E t \in Tokens : Guard!Try(t))
  <2>1. /\ pc'[m] # "post"
        /\ \A n \in Messages \ {m} : pc'[n] = pc[n] /\ token'[n] = token[n]
    BY <1>15 DEF Crash, TypeOK
  <2>2. CASE pc[m] = "post"
    <3>1. token[m] \in PostTokens /\ token[m] \in Tokens
      BY <2>2 DEF PostTokens, TypeOK
    <3>2. PostTokens' = PostTokens \ {token[m]}
      BY <2>1, <2>2, PostTokensMove
    <3> QED
      BY <1>15, <3>1, <3>2 DEF Crash, Guard!Try, PostTokens
  <2>3. CASE pc[m] # "post"
    <3>1. PostTokens' = PostTokens
      BY <2>1, <2>3, PostTokensMove
    <3> QED
      BY <1>15, <3>1 DEF Crash
  <2> QED
    BY <2>2, <2>3
<1>16. ASSUME Expire PROVE Guard!Expire
  <2>1. PostTokens' = PostTokens
    BY <1>16 DEF Expire, PostTokens
  <2> QED
    BY <1>16, <2>1 DEF Expire, Guard!Expire, Guard!Free, NoItem, PostTokens
<1>17. ASSUME Tick PROVE idle
  BY <1>17 DEF Tick, PostTokens
<1>18. ASSUME UNCHANGED vars PROVE idle
  BY <1>18 DEF vars, PostTokens
<1> HIDE DEF idle
<1>act. ASSUME \E t \in Tokens : Guard!Grant(t) \/ Guard!Try(t) \/ Guard!Settle(t)
        PROVE  Guard!Next
  BY <1>act DEF Guard!Next
<1>exp. Guard!Expire => Guard!Next
  BY DEF Guard!Next
<1>a. ASSUME NEW m \in Messages, Step(m) \/ Crash(m) PROVE idle \/ Guard!Next
  <2>1. CASE Reserve(m)
    BY <2>1, <1>8, <1>act
  <2>2. CASE TakeOver(m)
    BY <2>2, <1>10, <1>act
  <2>3. CASE Post(m) \/ Complete(m)
    BY <2>3, <1>11, <1>12, <1>act
  <2>4. CASE FenceAfterSuccess(m) \/ MarkUncertain(m)
    BY <2>4, <1>13, <1>14, <1>act
  <2>5. CASE Crash(m)
    BY <2>5, <1>15, <1>act
  <2>6. CASE Receive(m) \/ DeadLetter(m) \/ Ack(m) \/ Reappear(m) \/ Analyze(m) \/ ReadItem(m)
    BY <2>6, <1>1, <1>2, <1>3, <1>4, <1>5, <1>9
  <2>7. CASE PutArtifact(m, "md", "json") \/ PutArtifact(m, "json", "reserve")
    BY <2>7, <1>6, <1>7
  <2> QED
    BY <1>a, <2>1, <2>2, <2>3, <2>4, <2>5, <2>6, <2>7 DEF Step
<1>b. idle \/ Guard!Next
  BY <1>a, <1>exp, <1>16, <1>17, <1>18 DEF Next
<1> QED
  BY <1>b, <1>idle

\* The guarded writeback implements the abstract reservation: every POST is
\* the one try of a reservation that was won, only the owner records an
\* outcome, after its POST, and nobody replaces an outcome.
THEOREM ImplementsReservation == Spec => GuardsTheWrite
<1>1. Init => Guard!Init /\ WriterMade
  BY DEF Init, Guard!Init, Guard!Free, NoItem, WriterMade, Writing
<1>2. TypeOK /\ TypeOK' /\ WriterMade /\ [Next]_vars => WriterMade' /\ [Guard!Next]_(Guard!vars)
  BY WriterMadeStep, GuardStep
<1> QED
  BY <1>1, <1>2, TypeCorrect, PTL DEF Spec, GuardsTheWrite, Guard!Spec

=============================================================================
