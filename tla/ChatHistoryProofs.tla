------------------------- MODULE ChatHistoryProofs -------------------------
(***************************************************************************)
(* Proofs about ChatHistory: the capacity of a session, the order of its   *)
(* transcript, and what a request may say it stored.                       *)
(***************************************************************************)
EXTENDS ChatHistory, FiniteSetTheorems, TLAPS

-----------------------------------------------------------------------------
(* Type correctness *)

Pending == {t \in Turns : Reserved(t)}

\* A request that has a base has a number, only a deletion of the last turn has
\* chosen messages, and an answer comes after a question.
Places ==
    /\ \A q \in Requests : at[q] \in {"reserve", "persist"} => base[q] \in Nat
    /\ eraser # "last" => doomed = {}
    /\ \A m \in messages : m.role = "assistant" => m.sequence > 0

\* Sets are finite, and every reservation is counted.
Counted ==
    /\ IsFiniteSet(messages)
    /\ IsFiniteSet(Pending)
    /\ 2 * Cardinality(Pending) <= count

TypedInv == TypeOK /\ Places /\ Counted

\* What the constants are.
LEMMA Sizes ==
  /\ TurnOf \in [Requests -> Turns]
  /\ MaxMessages \in Nat /\ MaxMessages > 0 /\ MaxAttempts \in Nat /\ MaxAttempts > 0
  /\ MaxDeletes \in Nat /\ MaxFails \in Nat
  BY HistoryAssumption

\* A turn of two messages has its request, its roles and its sequences.
LEMMA TurnIs ==
  ASSUME TypeOK, Places, NEW q \in Requests, at[q] = "persist"
  PROVE  /\ base[q] \in Nat
         /\ \A m \in Turn(q) :
                /\ m.role \in {"user", "assistant"} /\ m.of = q /\ m.sequence \in Nat
                /\ m.role = "user" => m.sequence = base[q]
                /\ m.role = "assistant" => m.sequence = base[q] + 1 /\ m.sequence > 0
         /\ Message("user", q, base[q]) \in Turn(q)
         /\ Message("assistant", q, base[q] + 1) \in Turn(q)
<1>1. base[q] \in Nat
  BY DEF Places
<1> QED
  BY <1>1 DEF Turn, Message

\* Storing a turn adds at most two messages.
LEMMA TurnIsTwo ==
  ASSUME IsFiniteSet(messages), NEW q
  PROVE  /\ IsFiniteSet(messages \cup Turn(q))
         /\ Cardinality(messages) \in Nat
         /\ Cardinality(messages \cup Turn(q)) \in Nat
         /\ Cardinality(messages \cup Turn(q)) <= Cardinality(messages) + 2
<1> DEFINE u == Message("user", q, base[q])
           a == Message("assistant", q, base[q] + 1)
<1> HIDE DEF u, a
<1>1. ASSUME NEW S, IsFiniteSet(S), NEW x
      PROVE  /\ IsFiniteSet(S \cup {x}) /\ Cardinality(S) \in Nat
             /\ Cardinality(S \cup {x}) \in Nat
             /\ Cardinality(S \cup {x}) <= Cardinality(S) + 1
  <2>1. /\ IsFiniteSet(S \cup {x})
        /\ Cardinality(S \cup {x}) = IF x \in S THEN Cardinality(S) ELSE Cardinality(S) + 1
    BY <1>1, FS_AddElement
  <2>2. Cardinality(S) \in Nat
    BY <1>1, FS_CardinalityType
  <2> QED
    BY <2>1, <2>2
<1>2. (messages \cup {u}) \cup {a} = messages \cup Turn(q)
  BY DEF Turn, u, a
<1> DEFINE M == messages \cup {u}
<1>3. /\ IsFiniteSet(M) /\ Cardinality(messages) \in Nat /\ Cardinality(M) \in Nat
      /\ Cardinality(M) <= Cardinality(messages) + 1
  BY <1>1
<1> HIDE DEF M
<1>4. /\ IsFiniteSet(M \cup {a}) /\ Cardinality(M \cup {a}) \in Nat
      /\ Cardinality(M \cup {a}) <= Cardinality(M) + 1
  BY <1>1, <1>3
<1>5. M \cup {a} = messages \cup Turn(q)
  BY <1>2 DEF M
<1> QED
  BY <1>3, <1>4, <1>5

\* A reservation more.
LEMMA OneMore ==
  ASSUME TypedInv, NEW t \in Turns, ~Reserved(t), NEW b \in Nat,
         pending' = [pending EXCEPT ![t] = b]
  PROVE  /\ IsFiniteSet(Pending') /\ Cardinality(Pending) \in Nat
         /\ Cardinality(Pending') = Cardinality(Pending) + 1
<1>1. Pending' = Pending \cup {t} /\ t \notin Pending
  BY DEF TypedInv, TypeOK, Pending, Reserved, NoBase
<1> QED
  BY <1>1, FS_AddElement, FS_CardinalityType DEF TypedInv, Counted

\* A reservation less.
LEMMA OneLess ==
  ASSUME TypedInv, NEW t \in Turns, Reserved(t), pending' = [pending EXCEPT ![t] = NoBase]
  PROVE  /\ IsFiniteSet(Pending') /\ Cardinality(Pending) \in Nat
         /\ Cardinality(Pending') \in Nat
         /\ Cardinality(Pending') = Cardinality(Pending) - 1
<1>1. Pending' = Pending \ {t} /\ t \in Pending
  BY DEF TypedInv, TypeOK, Pending, Reserved
<1>2. IsFiniteSet(Pending)
  BY DEF TypedInv, Counted
<1> QED
  BY <1>1, <1>2, FS_RemoveElement, FS_CardinalityType

\* No reservations are none.
LEMMA NoneLeft ==
  ASSUME pending' = [u \in Turns |-> NoBase]
  PROVE  /\ IsFiniteSet(Pending') /\ Cardinality(Pending') = 0
<1>1. Pending' = {}
  BY DEF Pending, Reserved
<1> QED
  BY <1>1, FS_EmptySet

\* The sizes are numbers.
LEMMA Cardinals ==
  ASSUME TypedInv
  PROVE  /\ Cardinality(messages) \in Nat /\ Cardinality(Pending) \in Nat /\ count \in Nat
         /\ \A S \in SUBSET messages :
                /\ IsFiniteSet(S) /\ Cardinality(S) \in Nat
                /\ Cardinality(S) <= Cardinality(messages)
  BY FS_CardinalityType, FS_Subset DEF TypedInv, TypeOK, Counted

\* A deletion takes messages that are there.
LEMMA LastTurnIs ==
  \A seen \in Views : seen \subseteq messages /\ \A rows \in LastTurn(seen) : rows \subseteq seen
<1>1. \A seen \in Views : seen \subseteq messages
  BY DEF Views
<1>2. ASSUME NEW seen, NEW rows \in LastTurn(seen) PROVE rows \subseteq seen
  BY DEF LastTurn
<1> QED
  BY <1>1, <1>2

\* Every step keeps the types.
LEMMA TypeStep ==
  TypedInv /\ [Next]_vars => TypeOK'
<1> SUFFICES ASSUME TypedInv, [Next]_vars PROVE TypeOK'
  OBVIOUS
<1> USE Sizes DEF TypedInv, TypeOK, Goto, item, clients, ghosts, Ended, Working
<1>1. ASSUME NEW q \in Requests, Ask(q) PROVE TypeOK'
  BY <1>1 DEF Ask
<1>2. ASSUME NEW q \in Requests, Resolve(q) PROVE TypeOK'
  BY <1>2 DEF Resolve
<1>3. ASSUME NEW q \in Requests, Extend(q) PROVE TypeOK'
  BY <1>3 DEF Extend
<1>4. ASSUME NEW q \in Requests, Check(q) PROVE TypeOK'
  BY <1>4 DEF Check
<1>5. ASSUME NEW q \in Requests, Load(q) PROVE TypeOK'
  <2>1. count' \in Nat /\ base' \in [Requests -> Nat \cup {NoBase}]
    BY <1>5, Cardinals DEF Load
  <2>2. at' \in [Requests -> {"new"} \cup Working \cup Ended]
    BY <1>5 DEF Load
  <2> QED
    BY <1>5, <2>1, <2>2 DEF Load
<1>6. ASSUME NEW q \in Requests, Reserve(q) PROVE TypeOK'
  BY <1>6 DEF Reserve
<1>7. ASSUME NEW q \in Requests, Conflict(q) PROVE TypeOK'
  BY <1>7 DEF Conflict
<1>8. ASSUME NEW q \in Requests, Persist(q) PROVE TypeOK'
  <2>1. \A m \in messages' :
           m.role \in {"user", "assistant"} /\ m.of \in Requests /\ m.sequence \in Nat
    BY <1>8, TurnIs DEF Persist
  <2>2. pending' \in [Turns -> Nat \cup {NoBase}]
    BY <1>8 DEF Persist
  <2> QED
    BY <1>8, <2>1, <2>2 DEF Persist
<1>9. ASSUME NEW q \in Requests, PersistFails(q) PROVE TypeOK'
  <2>1. \A m \in messages' :
           m.role \in {"user", "assistant"} /\ m.of \in Requests /\ m.sequence \in Nat
    BY <1>9, TurnIs DEF PersistFails
  <2>2. pending' \in [Turns -> Nat \cup {NoBase}]
    BY <1>9 DEF PersistFails
  <2> QED
    BY <1>9, <2>1, <2>2 DEF PersistFails
<1>10. ASSUME NEW q \in Requests, Release(q) PROVE TypeOK'
  <2>1. count' \in Nat /\ pending' \in [Turns -> Nat \cup {NoBase}]
    <3>1. CASE session = "row" /\ Reserved(TurnOf[q])
      <4>1. count' = count - 2 /\ pending' = [pending EXCEPT ![TurnOf[q]] = NoBase]
        BY <1>10, <3>1 DEF Release
      <4>2. Cardinality(Pending) \in Nat /\ Cardinality(Pending) - 1 \in Nat
        BY <3>1, <4>1, OneLess
      <4> QED
        BY <4>1, <4>2 DEF Counted
    <3> QED
      BY <1>10, <3>1 DEF Release
  <2> QED
    BY <1>10, <2>1 DEF Release
<1>11. ASSUME NEW q \in Requests, Killed(q) PROVE TypeOK'
  BY <1>11 DEF Killed
<1>12. ASSUME StartDeleteLast PROVE TypeOK'
  BY <1>12, LastTurnIs DEF StartDeleteLast
<1>13. ASSUME StartDeleteSession PROVE TypeOK'
  BY <1>13 DEF StartDeleteSession
<1>14. ASSUME DeleteLast PROVE TypeOK'
  BY <1>14 DEF DeleteLast
<1>15. ASSUME DeleteMessages PROVE TypeOK'
  BY <1>15 DEF DeleteMessages, Places
<1>16. ASSUME DeleteItem PROVE TypeOK'
  BY <1>16 DEF DeleteItem
<1>17. ASSUME UNCHANGED vars PROVE TypeOK'
  BY <1>17 DEF vars
<1> QED
  BY <1>1, <1>2, <1>3, <1>4, <1>5, <1>6, <1>7, <1>8, <1>9, <1>10,
     <1>11, <1>12, <1>13, <1>14, <1>15, <1>16, <1>17
  DEF Next, Step, Erase

\* The first state is well typed.
LEMMA TypeInit == Init => TypedInv
<1> SUFFICES ASSUME Init PROVE TypedInv
  OBVIOUS
<1>1. Pending = {}
  BY DEF Init, Pending, Reserved
<1>2. Counted
  BY <1>1, FS_EmptySet DEF Init, Counted
<1>3. TypeOK /\ Places
  <2>1. /\ attempt \in [Requests -> 0 .. MaxAttempts - 1]
        /\ base \in [Requests -> Nat \cup {NoBase}]
        /\ pending \in [Turns -> Nat \cup {NoBase}]
        /\ deletes \in 0 .. MaxDeletes /\ fails \in 0 .. MaxFails /\ count \in Nat
    BY Sizes DEF Init
  <2>2. at \in [Requests -> {"new"} \cup Working \cup Ended]
    BY DEF Init
  <2>3. Places
    BY DEF Init, Places
  <2> QED
    BY <2>1, <2>2, <2>3 DEF Init, TypeOK
<1> QED
  BY <1>2, <1>3 DEF TypedInv


\* Every step keeps the bases and the choice of a deletion.
LEMMA PlacesStep ==
  TypedInv /\ [Next]_vars => Places'
<1> SUFFICES ASSUME TypedInv, [Next]_vars PROVE Places'
  OBVIOUS
<1> USE Sizes DEF TypedInv, TypeOK, Places, Goto, item, clients, ghosts, Working
<1>1. ASSUME NEW q \in Requests, Ask(q) PROVE Places'
  BY <1>1 DEF Ask
<1>2. ASSUME NEW q \in Requests, Resolve(q) PROVE Places'
  BY <1>2 DEF Resolve
<1>3. ASSUME NEW q \in Requests, Extend(q) PROVE Places'
  BY <1>3 DEF Extend
<1>4. ASSUME NEW q \in Requests, Check(q) PROVE Places'
  BY <1>4 DEF Check
<1>5. ASSUME NEW q \in Requests, Load(q) PROVE Places'
  BY <1>5, Cardinals DEF Load, Reserved
<1>6. ASSUME NEW q \in Requests, Reserve(q) PROVE Places'
  BY <1>6 DEF Reserve
<1>7. ASSUME NEW q \in Requests, Conflict(q) PROVE Places'
  BY <1>7 DEF Conflict, Reserved
<1>8. ASSUME NEW q \in Requests, Persist(q) PROVE Places'
  <2>1. \A m \in messages' : m.role = "assistant" => m.sequence > 0
    BY <1>8, TurnIs DEF Persist
  <2> QED
    BY <1>8, <2>1 DEF Persist
<1>9. ASSUME NEW q \in Requests, PersistFails(q) PROVE Places'
  <2>1. \A m \in messages' : m.role = "assistant" => m.sequence > 0
    BY <1>9, TurnIs DEF PersistFails
  <2> QED
    BY <1>9, <2>1 DEF PersistFails
<1>10. ASSUME NEW q \in Requests, Release(q) PROVE Places'
  BY <1>10 DEF Release
<1>11. ASSUME NEW q \in Requests, Killed(q) PROVE Places'
  BY <1>11 DEF Killed
<1>12. ASSUME StartDeleteLast PROVE Places'
  BY <1>12 DEF StartDeleteLast
<1>13. ASSUME StartDeleteSession PROVE Places'
  BY <1>13 DEF StartDeleteSession
<1>14. ASSUME DeleteLast PROVE Places'
  BY <1>14 DEF DeleteLast
<1>15. ASSUME DeleteMessages PROVE Places'
  BY <1>15 DEF DeleteMessages
<1>16. ASSUME DeleteItem PROVE Places'
  BY <1>16 DEF DeleteItem
<1>17. ASSUME UNCHANGED vars PROVE Places'
  BY <1>17 DEF vars
<1> QED
  BY <1>1, <1>2, <1>3, <1>4, <1>5, <1>6, <1>7, <1>8, <1>9, <1>10,
     <1>11, <1>12, <1>13, <1>14, <1>15, <1>16, <1>17
  DEF Next, Step, Erase

\* Every step keeps the sets finite and the reservations counted.
LEMMA CountedStep ==
  TypedInv /\ [Next]_vars => Counted'
<1> SUFFICES ASSUME TypedInv, [Next]_vars PROVE Counted'
  OBVIOUS
<1> USE Sizes, Cardinals DEF Counted, Goto, item, clients, ghosts
<1>0. /\ IsFiniteSet(messages) /\ IsFiniteSet(Pending) /\ 2 * Cardinality(Pending) <= count
      /\ \A q \in Requests : TurnOf[q] \in Turns
  BY DEF TypedInv
<1>00. UNCHANGED pending => Pending' = Pending
  BY DEF Pending, Reserved
<1>1. ASSUME NEW q \in Requests, Ask(q) PROVE Counted'
  BY <1>1, <1>0, <1>00 DEF Ask
<1>2. ASSUME NEW q \in Requests, Resolve(q) PROVE Counted'
  BY <1>2, <1>0, <1>00, NoneLeft DEF Resolve
<1>3. ASSUME NEW q \in Requests, Extend(q) PROVE Counted'
  BY <1>3, <1>0, <1>00 DEF Extend
<1>4. ASSUME NEW q \in Requests, Check(q) PROVE Counted'
  BY <1>4, <1>0, <1>00 DEF Check
<1>5. ASSUME NEW q \in Requests, Load(q) PROVE Counted'
  BY <1>5, <1>0, <1>00 DEF Load
<1>6. ASSUME NEW q \in Requests, Reserve(q) PROVE Counted'
  BY <1>6, <1>0, <1>00, OneMore DEF Reserve
<1>7. ASSUME NEW q \in Requests, Conflict(q) PROVE Counted'
  BY <1>7, <1>0, <1>00 DEF Conflict
<1>8. ASSUME NEW q \in Requests, Persist(q) PROVE Counted'
  <2>1. IsFiniteSet(messages')
    BY <1>8, <1>0, TurnIsTwo DEF Persist
  <2>2. /\ Reserved(TurnOf[q]) /\ TurnOf[q] \in Turns
        /\ pending' = [pending EXCEPT ![TurnOf[q]] = NoBase] /\ UNCHANGED count
    BY <1>8, <1>0 DEF Persist
  <2>3. IsFiniteSet(Pending') /\ Cardinality(Pending') = Cardinality(Pending) - 1
    BY <2>2, OneLess
  <2> QED
    BY <1>0, <2>1, <2>2, <2>3
<1>9. ASSUME NEW q \in Requests, PersistFails(q) PROVE Counted'
  <2>1. IsFiniteSet(messages')
    BY <1>9, <1>0, TurnIsTwo DEF PersistFails
  <2>2. IsFiniteSet(Pending') /\ Cardinality(Pending') \in Nat
        /\ Cardinality(Pending') <= Cardinality(Pending)
    BY <1>9, <1>0, <1>00, OneLess DEF PersistFails
  <2> QED
    BY <1>9, <1>0, <2>1, <2>2 DEF PersistFails
<1>10. ASSUME NEW q \in Requests, Release(q) PROVE Counted'
  BY <1>10, <1>0, <1>00, OneLess DEF Release
<1>11. ASSUME NEW q \in Requests, Killed(q) PROVE Counted'
  BY <1>11, <1>0, <1>00 DEF Killed
<1>12. ASSUME StartDeleteLast PROVE Counted'
  BY <1>12, <1>0, <1>00 DEF StartDeleteLast
<1>13. ASSUME StartDeleteSession PROVE Counted'
  BY <1>13, <1>0, <1>00 DEF StartDeleteSession
<1>14. ASSUME DeleteLast PROVE Counted'
  BY <1>14, <1>0, <1>00 DEF DeleteLast
<1>15. ASSUME DeleteMessages PROVE Counted'
  <2>1. messages' \in SUBSET messages
    BY <1>15 DEF DeleteMessages
  <2> QED
    BY <1>15, <1>0, <1>00, <2>1 DEF DeleteMessages
<1>16. ASSUME DeleteItem PROVE Counted'
  BY <1>16, <1>0, NoneLeft DEF DeleteItem
<1>17. ASSUME UNCHANGED vars PROVE Counted'
  BY <1>17, <1>0, <1>00 DEF vars
<1> QED
  BY <1>1, <1>2, <1>3, <1>4, <1>5, <1>6, <1>7, <1>8, <1>9, <1>10,
     <1>11, <1>12, <1>13, <1>14, <1>15, <1>16, <1>17
  DEF Next, Step, Erase

\* The typed invariant holds throughout: every later lemma starts from it.
LEMMA Typed == Spec => []TypedInv
<1>1. TypedInv /\ [Next]_vars => TypedInv'
  BY TypeStep, PlacesStep, CountedStep DEF TypedInv
<1> QED
  BY <1>1, TypeInit, PTL DEF Spec

\* The state of a session is well typed, for any number of requests and turns,
\* any limit and any failures; in particular a release never takes the count
\* below zero, because every reservation is counted.
THEOREM TypeCorrect == Spec => []TypeOK
<1>1. TypedInv => TypeOK
  BY DEF TypedInv
<1> QED
  BY <1>1, Typed, PTL

-----------------------------------------------------------------------------
(* Capacity *)

\* As long as the session is not deleted: an item that is not there has no
\* messages, messages and reservations together are counted, and the count
\* is within the limit, also after the reservation a request is about to make.
RoomInv ==
    /\ \A q \in Requests : at[q] = "reserve" => base[q] + 2 <= MaxMessages
    /\ ~wiped /\ session # "row" => messages = {} /\ count = 0
    /\ ~wiped /\ session = "row" =>
        /\ Cardinality(messages) + 2 * Cardinality(Pending) <= count
        /\ count <= MaxMessages

\* Every step keeps the session within its limit.
LEMMA RoomStep ==
  TypedInv /\ RoomInv /\ [Next]_vars => RoomInv'
<1> SUFFICES ASSUME TypedInv, RoomInv, [Next]_vars PROVE RoomInv'
  OBVIOUS
<1>0. /\ IsFiniteSet(messages) /\ IsFiniteSet(Pending)
      /\ \A q \in Requests : TurnOf[q] \in Turns /\ base[q] \in Nat \cup {NoBase}
      /\ DOMAIN base = Requests /\ DOMAIN at = Requests
      /\ base = [q \in Requests |-> base[q]] /\ at = [q \in Requests |-> at[q]]
  BY Sizes DEF TypedInv, TypeOK, Counted
<1>00. UNCHANGED pending => Pending' = Pending
  BY DEF Pending, Reserved
<1> USE Sizes, Cardinals DEF RoomInv, Goto, item, clients, ghosts
<1>1. ASSUME NEW q \in Requests, Ask(q) PROVE RoomInv'
  BY <1>1, <1>0, <1>00 DEF Ask
<1>2. ASSUME NEW q \in Requests, Resolve(q) PROVE RoomInv'
  BY <1>2, <1>0, <1>00, NoneLeft, FS_EmptySet DEF Resolve
<1>3. ASSUME NEW q \in Requests, Extend(q) PROVE RoomInv'
  BY <1>3, <1>0, <1>00 DEF Extend
<1>4. ASSUME NEW q \in Requests, Check(q) PROVE RoomInv'
  BY <1>4, <1>0, <1>00 DEF Check
<1>5. ASSUME NEW q \in Requests, Load(q) PROVE RoomInv'
  BY <1>5, <1>0, <1>00 DEF Load
<1>6. ASSUME NEW q \in Requests, Reserve(q) PROVE RoomInv'
  BY <1>6, <1>0, <1>00, OneMore DEF Reserve
<1>7. ASSUME NEW q \in Requests, Conflict(q) PROVE RoomInv'
  BY <1>7, <1>0, <1>00 DEF Conflict
<1>8. ASSUME NEW q \in Requests, Persist(q) PROVE RoomInv'
  <2>1. /\ Cardinality(messages \cup Turn(q)) \in Nat
        /\ Cardinality(messages \cup Turn(q)) <= Cardinality(messages) + 2
    BY <1>0, TurnIsTwo
  <2>2. CASE ~UNCHANGED <<messages, pending>>
    <3>1. /\ Reserved(TurnOf[q]) /\ TurnOf[q] \in Turns /\ session = "row"
          /\ pending' = [pending EXCEPT ![TurnOf[q]] = NoBase]
          /\ messages' = messages \cup Turn(q)
          /\ \A p \in Requests : at'[p] = "reserve" => at[p] = "reserve"
          /\ UNCHANGED <<session, count, base, wiped>>
      BY <1>8, <1>0, <2>2 DEF Persist
    <3>2. Cardinality(Pending') = Cardinality(Pending) - 1
      BY <3>1, OneLess
    <3> QED
      BY <1>0, <2>1, <3>1, <3>2
  <2>3. CASE UNCHANGED <<messages, pending>>
    BY <1>8, <1>0, <1>00, <2>3 DEF Persist
  <2> QED
    BY <1>8, <2>2, <2>3 DEF Persist
<1>9. ASSUME NEW q \in Requests, PersistFails(q) PROVE RoomInv'
  <2>1. /\ Cardinality(messages \cup Turn(q)) \in Nat
        /\ Cardinality(messages \cup Turn(q)) <= Cardinality(messages) + 2
    BY <1>0, TurnIsTwo
  <2>2. CASE ~UNCHANGED <<messages, pending>>
    <3>1. /\ Reserved(TurnOf[q]) /\ TurnOf[q] \in Turns /\ session = "row"
          /\ pending' = [pending EXCEPT ![TurnOf[q]] = NoBase]
          /\ messages' = messages \cup Turn(q)
          /\ \A p \in Requests : at'[p] = "reserve" => at[p] = "reserve"
          /\ UNCHANGED <<session, count, base, wiped>>
      BY <1>9, <1>0, <2>2 DEF PersistFails
    <3>2. Cardinality(Pending') = Cardinality(Pending) - 1
      BY <3>1, OneLess
    <3> QED
      BY <1>0, <2>1, <3>1, <3>2
  <2>3. CASE UNCHANGED <<messages, pending>>
    BY <1>9, <1>0, <1>00, <2>3 DEF PersistFails
  <2> QED
    BY <1>9, <2>2, <2>3 DEF PersistFails
<1>10. ASSUME NEW q \in Requests, Release(q) PROVE RoomInv'
  BY <1>10, <1>0, <1>00, OneLess DEF Release
<1>11. ASSUME NEW q \in Requests, Killed(q) PROVE RoomInv'
  BY <1>11, <1>0, <1>00 DEF Killed
<1>12. ASSUME StartDeleteLast PROVE RoomInv'
  BY <1>12, <1>0, <1>00 DEF StartDeleteLast
<1>13. ASSUME StartDeleteSession PROVE RoomInv'
  BY <1>13, <1>0, <1>00 DEF StartDeleteSession
<1>14. ASSUME DeleteLast PROVE RoomInv'
  <2>1. /\ Cardinality(messages') \in Nat /\ Cardinality(messages') <= Cardinality(messages)
        /\ messages = {} => messages' = {}
    BY <1>14 DEF DeleteLast
  <2> QED
    BY <1>14, <1>0, <1>00, <2>1 DEF DeleteLast
<1>15. ASSUME DeleteMessages PROVE RoomInv'
  <2>1. messages' \in SUBSET messages
    BY <1>15 DEF DeleteMessages
  <2> QED
    BY <1>15, <1>0, <1>00, <2>1 DEF DeleteMessages
<1>16. ASSUME DeleteItem PROVE RoomInv'
  BY <1>16, <1>0 DEF DeleteItem
<1>17. ASSUME UNCHANGED vars PROVE RoomInv'
  BY <1>17, <1>0, <1>00 DEF vars
<1> QED
  BY <1>1, <1>2, <1>3, <1>4, <1>5, <1>6, <1>7, <1>8, <1>9, <1>10,
     <1>11, <1>12, <1>13, <1>14, <1>15, <1>16, <1>17
  DEF Next, Step, Erase

-----------------------------------------------------------------------------
(* Order *)

\* The base b is used by the turn t: reserved, about to be stored, or stored.
Claim(b, t) ==
    \/ b # NoBase /\ pending[t] = b
    \/ \E q \in Requests : at[q] = "persist" /\ base[q] = b /\ TurnOf[q] = t
    \/ \E m \in messages : /\ TurnOf[m.of] = t
                           /\ \/ m.role = "user" /\ m.sequence = b
                              \/ m.role = "assistant" /\ m.sequence = b + 1

\* As long as nothing is given back, the bases in use are below the count, and
\* two of them are those of one turn or two apart.
OrderInv ==
    ~released /\ ~wiped =>
        \A b, c \in Nat, t, u \in Turns :
            Claim(b, t) /\ Claim(c, u) =>
                /\ b + 2 <= count
                /\ b + 2 <= c \/ c + 2 <= b \/ (b = c /\ t = u)

\* A step that claims nothing new, or the next base for one turn.
LEMMA ClaimsKeep ==
  ASSUME TypedInv, OrderInv, count' \in Nat, NEW v \in Turns,
         released => released', wiped => wiped',
         ~released' /\ ~wiped' =>
            \A b \in Nat, t \in Turns :
                /\ Claim(b, t)' => Claim(b, t) \/ (b = count /\ t = v /\ count' >= count + 2)
                /\ Claim(b, t) => count' >= count
  PROVE  OrderInv'
<1> SUFFICES ASSUME ~released', ~wiped', NEW b \in Nat, NEW c \in Nat,
                    NEW t \in Turns, NEW u \in Turns, Claim(b, t)', Claim(c, u)'
             PROVE  b + 2 <= count' /\ (b + 2 <= c \/ c + 2 <= b \/ (b = c /\ t = u))
  BY DEF OrderInv
<1>1. count \in Nat
  BY Cardinals
<1>2. /\ Claim(b, t) \/ (b = count /\ t = v /\ count' >= count + 2)
      /\ Claim(c, u) \/ (c = count /\ u = v /\ count' >= count + 2)
      /\ Claim(b, t) \/ Claim(c, u) => count' >= count
  OBVIOUS
<1>3. /\ Claim(b, t) => b + 2 <= count
      /\ Claim(c, u) => c + 2 <= count
      /\ Claim(b, t) /\ Claim(c, u) => b + 2 <= c \/ c + 2 <= b \/ (b = c /\ t = u)
  BY DEF OrderInv
<1> HIDE DEF Claim
<1> QED
  BY <1>1, <1>2, <1>3


\* A step that claims nothing new, and does not lower the count.
LEMMA NoNewClaim ==
  ASSUME TypedInv, OrderInv, count' \in Nat, released => released', wiped => wiped',
         ~released' /\ ~wiped' =>
            /\ count' >= count
            /\ \A b \in Nat, t \in Turns : Claim(b, t)' => Claim(b, t)
  PROVE  OrderInv'
<1>1. CASE Turns = {}
  BY <1>1 DEF OrderInv
<1>2. CASE Turns # {}
  BY <1>2, ClaimsKeep
<1> QED
  BY <1>1, <1>2

\* Every step keeps the order.
LEMMA OrderStep ==
  TypedInv /\ RoomInv /\ OrderInv /\ [Next]_vars => OrderInv'
<1> SUFFICES ASSUME TypedInv, RoomInv, OrderInv, [Next]_vars PROVE OrderInv'
  OBVIOUS
<1>0. /\ count \in Nat /\ DOMAIN at = Requests /\ DOMAIN base = Requests
      /\ DOMAIN pending = Turns
      /\ \A q \in Requests : TurnOf[q] \in Turns
      /\ at = [q \in Requests |-> at[q]] /\ base = [q \in Requests |-> base[q]]
      /\ pending = [t \in Turns |-> pending[t]]
  BY Sizes DEF TypedInv, TypeOK
<1>00. count' \in Nat
  BY TypeStep DEF TypeOK
<1> USE DEF Goto, item, clients, ghosts
<1>1. ASSUME NEW q \in Requests, Ask(q) PROVE OrderInv'
  <2>1. \A b \in Nat, t \in Turns : Claim(b, t)' => Claim(b, t)
    BY <1>1, <1>0 DEF Ask, Claim, NoBase, Reserved
  <2> QED
    BY <1>1, <1>0, <1>00, <2>1, NoNewClaim DEF Ask
<1>2. ASSUME NEW q \in Requests, Resolve(q) PROVE OrderInv'
  <2>1. CASE UNCHANGED item
    <3>1. \A b \in Nat, t \in Turns : Claim(b, t)' => Claim(b, t)
      BY <1>2, <1>0, <2>1 DEF Resolve, Claim
    <3> QED
      BY <1>2, <1>0, <1>00, <2>1, <3>1, NoNewClaim DEF Resolve
  <2>2. CASE ~UNCHANGED item
    <3>1. /\ session # "row" /\ count' = 0 /\ pending' = [u \in Turns |-> NoBase]
          /\ \A p \in Requests : at'[p] = "persist" => at[p] = "persist"
          /\ UNCHANGED <<messages, base, released, wiped>>
      BY <1>2, <1>0, <2>2 DEF Resolve
    <3>2. ~wiped => count = 0
      BY <3>1 DEF RoomInv
    <3>3. \A b \in Nat, t \in Turns : Claim(b, t)' => Claim(b, t)
      BY <1>0, <3>1 DEF Claim
    <3> QED
      BY <1>0, <1>00, <3>1, <3>2, <3>3, NoNewClaim
  <2> QED
    BY <2>1, <2>2
<1>3. ASSUME NEW q \in Requests, Extend(q) PROVE OrderInv'
  <2>1. \A b \in Nat, t \in Turns : Claim(b, t)' => Claim(b, t)
    BY <1>3, <1>0 DEF Extend, Claim, NoBase, Reserved
  <2> QED
    BY <1>3, <1>0, <1>00, <2>1, NoNewClaim DEF Extend
<1>4. ASSUME NEW q \in Requests, Check(q) PROVE OrderInv'
  <2>1. \A b \in Nat, t \in Turns : Claim(b, t)' => Claim(b, t)
    BY <1>4, <1>0 DEF Check, Claim, NoBase, Reserved
  <2> QED
    BY <1>4, <1>0, <1>00, <2>1, NoNewClaim DEF Check
<1>5. ASSUME NEW q \in Requests, Load(q) PROVE OrderInv'
  <2>1. \A b \in Nat, t \in Turns : Claim(b, t)' => Claim(b, t)
    BY <1>5, <1>0 DEF Load, Claim, NoBase, Reserved
  <2>2. count' >= count
    BY <1>5, <1>0, Cardinals DEF Load
  <2> QED
    BY <1>5, <1>00, <2>1, <2>2, NoNewClaim DEF Load
<1>6. ASSUME NEW q \in Requests, Reserve(q) PROVE OrderInv'
  <2> DEFINE v == TurnOf[q]
  <2>0. v \in Turns
    BY <1>0
  <2>1. \A b \in Nat, t \in Turns :
           /\ Claim(b, t)' => Claim(b, t) \/ (b = count /\ t = v /\ count' >= count + 2)
           /\ Claim(b, t) => count' >= count
    <3>1. CASE at'[q] = "persist"
      <4>1. /\ at[q] = "reserve" /\ base[q] = count /\ count' = count + 2 /\ base' = base
            /\ at' = [at EXCEPT ![q] = "persist"]
            /\ pending' = [pending EXCEPT ![v] = count] /\ UNCHANGED messages
        BY <1>6, <1>0, <3>1 DEF Reserve
      <4> HIDE DEF v
      <4>2. \A p \in Requests : at'[p] = "persist" => p = q \/ at[p] = "persist"
        BY <1>0, <4>1
      <4>3. \A t \in Turns : pending'[t] = IF t = v THEN count ELSE pending[t]
        BY <1>0, <2>0, <4>1
      <4>4. v = TurnOf[q]
        BY DEF v
      <4> QED
        BY <1>0, <4>1, <4>2, <4>3, <4>4 DEF Claim
    <3>2. CASE at'[q] # "persist"
      <4>1. /\ UNCHANGED <<count, pending, base, messages>>
            /\ \A p \in Requests : at'[p] = "persist" => at[p] = "persist"
        BY <1>6, <1>0, <3>2 DEF Reserve
      <4> QED
        BY <1>0, <4>1 DEF Claim
    <3> QED
      BY <3>1, <3>2
  <2> HIDE DEF v
  <2>2. UNCHANGED <<released, wiped>>
    BY <1>6 DEF Reserve
  <2> QED
    BY <1>00, <2>0, <2>1, <2>2, ClaimsKeep
<1>7. ASSUME NEW q \in Requests, Conflict(q) PROVE OrderInv'
  <2>1. \A b \in Nat, t \in Turns : Claim(b, t)' => Claim(b, t)
    BY <1>7, <1>0 DEF Conflict, Claim, NoBase, Reserved
  <2> QED
    BY <1>7, <1>0, <1>00, <2>1, NoNewClaim DEF Conflict
<1>8. ASSUME NEW q \in Requests, Persist(q) PROVE OrderInv'
  <2>1. ASSUME NEW b \in Nat, NEW t \in Turns, Claim(b, t)' PROVE Claim(b, t)
    <3>1. /\ \A u \in Turns : pending'[u] # NoBase => pending'[u] = pending[u]
          /\ \A p \in Requests : at'[p] = "persist" => at[p] = "persist"
          /\ base' = base /\ at[q] = "persist"
          /\ messages' = messages \/ messages' = messages \cup Turn(q)
      BY <1>8, <1>0 DEF Persist
    <3>2. \A m \in Turn(q) :
             /\ m.role \in {"user", "assistant"} /\ m.of = q /\ m.sequence \in Nat
             /\ m.role = "user" => m.sequence = base[q]
             /\ m.role = "assistant" => m.sequence = base[q] + 1
      BY <3>1, TurnIs DEF TypedInv
    <3>3. base[q] \in Nat
      BY <3>1, TurnIs DEF TypedInv
    <3> QED
      BY <2>1, <3>1, <3>2, <3>3 DEF Claim, NoBase
  <2> QED
    BY <1>8, <1>0, <1>00, <2>1, NoNewClaim DEF Persist
<1>9. ASSUME NEW q \in Requests, PersistFails(q) PROVE OrderInv'
  <2>1. ASSUME NEW b \in Nat, NEW t \in Turns, Claim(b, t)' PROVE Claim(b, t)
    <3>1. /\ \A u \in Turns : pending'[u] # NoBase => pending'[u] = pending[u]
          /\ \A p \in Requests : at'[p] = "persist" => at[p] = "persist"
          /\ base' = base /\ at[q] = "persist"
          /\ messages' = messages \/ messages' = messages \cup Turn(q)
      BY <1>9, <1>0 DEF PersistFails
    <3>2. \A m \in Turn(q) :
             /\ m.role \in {"user", "assistant"} /\ m.of = q /\ m.sequence \in Nat
             /\ m.role = "user" => m.sequence = base[q]
             /\ m.role = "assistant" => m.sequence = base[q] + 1
      BY <3>1, TurnIs DEF TypedInv
    <3>3. base[q] \in Nat
      BY <3>1, TurnIs DEF TypedInv
    <3> QED
      BY <2>1, <3>1, <3>2, <3>3 DEF Claim, NoBase
  <2> QED
    BY <1>9, <1>0, <1>00, <2>1, NoNewClaim DEF PersistFails
<1>10. ASSUME NEW q \in Requests, Release(q) PROVE OrderInv'
  <2>1. CASE session = "row" /\ Reserved(TurnOf[q])
    BY <1>10, <2>1 DEF Release, OrderInv
  <2>2. CASE ~(session = "row" /\ Reserved(TurnOf[q]))
    <3>1. \A b \in Nat, t \in Turns : Claim(b, t)' => Claim(b, t)
      BY <1>10, <1>0, <2>2 DEF Release, Claim
    <3> QED
      BY <1>10, <1>0, <1>00, <2>2, <3>1, NoNewClaim DEF Release
  <2> QED
    BY <2>1, <2>2
<1>11. ASSUME NEW q \in Requests, Killed(q) PROVE OrderInv'
  <2>1. \A b \in Nat, t \in Turns : Claim(b, t)' => Claim(b, t)
    BY <1>11, <1>0 DEF Killed, Claim, NoBase, Reserved
  <2> QED
    BY <1>11, <1>0, <1>00, <2>1, NoNewClaim DEF Killed
<1>12. ASSUME StartDeleteLast PROVE OrderInv'
  <2>1. \A b \in Nat, t \in Turns : Claim(b, t)' => Claim(b, t)
    BY <1>12, <1>0 DEF StartDeleteLast, Claim, NoBase, Reserved
  <2> QED
    BY <1>12, <1>0, <1>00, <2>1, NoNewClaim DEF StartDeleteLast
<1>13. ASSUME StartDeleteSession PROVE OrderInv'
  <2>1. \A b \in Nat, t \in Turns : Claim(b, t)' => Claim(b, t)
    BY <1>13, <1>0 DEF StartDeleteSession, Claim, NoBase, Reserved
  <2> QED
    BY <1>13, <1>0, <1>00, <2>1, NoNewClaim DEF StartDeleteSession
<1>14. ASSUME DeleteLast PROVE OrderInv'
  <2>1. \A b \in Nat, t \in Turns : Claim(b, t)' => Claim(b, t)
    BY <1>14, <1>0 DEF DeleteLast, Claim, NoBase, Reserved
  <2> QED
    BY <1>14, <1>0, <1>00, <2>1, NoNewClaim DEF DeleteLast
<1>15. ASSUME DeleteMessages PROVE OrderInv'
  <2>1. \A b \in Nat, t \in Turns : Claim(b, t)' => Claim(b, t)
    BY <1>15, <1>0 DEF DeleteMessages, Claim, NoBase, Reserved
  <2> QED
    BY <1>15, <1>0, <1>00, <2>1, NoNewClaim DEF DeleteMessages
<1>16. ASSUME DeleteItem PROVE OrderInv'
  BY <1>16 DEF DeleteItem, OrderInv
<1>17. ASSUME UNCHANGED vars PROVE OrderInv'
  <2>1. \A b \in Nat, t \in Turns : Claim(b, t)' => Claim(b, t)
    BY <1>17, <1>0 DEF vars, Claim, NoBase, Reserved
  <2> QED
    BY <1>17, <1>0, <1>00, <2>1, NoNewClaim DEF vars
<1> QED
  BY <1>1, <1>2, <1>3, <1>4, <1>5, <1>6, <1>7, <1>8, <1>9, <1>10,
     <1>11, <1>12, <1>13, <1>14, <1>15, <1>16, <1>17
  DEF Next, Step, Erase

-----------------------------------------------------------------------------
(* What is stored *)

\* Both messages of one request for the turn.
WholeTurn(t) ==
    \E m \in messages : /\ m.role = "user" /\ TurnOf[m.of] = t
                        /\ Message("assistant", m.of, m.sequence + 1) \in messages

\* As long as nothing is deleted, no message is alone, and what a request was
\* told is stored is there.
StoredInv ==
    deletes = 0 =>
        /\ eraser = "idle"
        /\ \A m \in messages : WholeTurn(TurnOf[m.of])
        /\ \A q \in Requests : at[q] \in {"stored", "replayed"} => WholeTurn(TurnOf[q])

\* A step that removes no message and adds none but those of whole turns.
LEMMA StoredKeep ==
  ASSUME TypedInv, StoredInv, messages \subseteq messages', eraser' = eraser,
         \A m \in messages' \ messages : WholeTurn(TurnOf[m.of])',
         \A q \in Requests :
            at'[q] \in {"stored", "replayed"} =>
                \/ at[q] \in {"stored", "replayed"} \/ WholeTurn(TurnOf[q])'
                \/ \E m \in messages : TurnOf[m.of] = TurnOf[q],
         deletes' = deletes
  PROVE  StoredInv'
<1> SUFFICES ASSUME deletes = 0
             PROVE  /\ eraser' = "idle"
                    /\ \A m \in messages' : WholeTurn(TurnOf[m.of])'
                    /\ \A q \in Requests :
                          at'[q] \in {"stored", "replayed"} => WholeTurn(TurnOf[q])'
  BY DEF StoredInv
<1>1. \A t : WholeTurn(t) => WholeTurn(t)'
  BY DEF WholeTurn
<1>2. /\ eraser = "idle"
      /\ \A m \in messages : WholeTurn(TurnOf[m.of])
      /\ \A q \in Requests : at[q] \in {"stored", "replayed"} => WholeTurn(TurnOf[q])
  BY DEF StoredInv
<1>3. \A m \in messages' : WholeTurn(TurnOf[m.of])'
  BY <1>1, <1>2
<1>4. ASSUME NEW q \in Requests, at'[q] \in {"stored", "replayed"} PROVE WholeTurn(TurnOf[q])'
  <2>1. CASE at[q] \in {"stored", "replayed"}
    BY <1>1, <1>2, <2>1
  <2>2. CASE \E m \in messages : TurnOf[m.of] = TurnOf[q]
    BY <1>1, <1>2, <2>2
  <2> QED
    BY <1>4, <2>1, <2>2
<1> QED
  BY <1>2, <1>3, <1>4

\* A request that stores its turn stores both messages.
LEMMA TurnIsWhole ==
  ASSUME TypedInv, NEW q \in Requests, at[q] = "persist", messages' = messages \cup Turn(q)
  PROVE  /\ WholeTurn(TurnOf[q])'
         /\ \A m \in messages' \ messages : m.of = q
<1>1. /\ Message("user", q, base[q]) \in messages'
      /\ Message("assistant", q, base[q] + 1) \in messages'
      /\ \A m \in messages' \ messages : m.of = q
  BY TurnIs DEF TypedInv
<1>2. WholeTurn(TurnOf[q])'
  BY <1>1 DEF WholeTurn, Message
<1> QED
  BY <1>1, <1>2

\* Every step keeps what is stored.
LEMMA StoredStep ==
  TypedInv /\ StoredInv /\ [Next]_vars => StoredInv'
<1> SUFFICES ASSUME TypedInv, StoredInv, [Next]_vars PROVE StoredInv'
  OBVIOUS
<1>0. deletes \in Nat /\ at = [q \in Requests |-> at[q]]
  BY Sizes DEF TypedInv, TypeOK
<1> USE DEF Goto, item, clients, ghosts
<1>1. ASSUME NEW q \in Requests, Ask(q) PROVE StoredInv'
  BY <1>1, <1>0, StoredKeep DEF Ask, Answered
<1>2. ASSUME NEW q \in Requests, Resolve(q) PROVE StoredInv'
  BY <1>2, <1>0, StoredKeep DEF Resolve
<1>3. ASSUME NEW q \in Requests, Extend(q) PROVE StoredInv'
  BY <1>3, <1>0, StoredKeep DEF Extend
<1>4. ASSUME NEW q \in Requests, Check(q) PROVE StoredInv'
  BY <1>4, <1>0, StoredKeep DEF Check, Answered
<1>5. ASSUME NEW q \in Requests, Load(q) PROVE StoredInv'
  BY <1>5, <1>0, StoredKeep DEF Load
<1>6. ASSUME NEW q \in Requests, Reserve(q) PROVE StoredInv'
  BY <1>6, <1>0, StoredKeep DEF Reserve
<1>7. ASSUME NEW q \in Requests, Conflict(q) PROVE StoredInv'
  BY <1>7, <1>0, StoredKeep DEF Conflict
<1>8. ASSUME NEW q \in Requests, Persist(q) PROVE StoredInv'
  <2>1. WholeTurn(TurnOf[q])' /\ \A m \in messages' \ messages : m.of = q
    BY <1>8, TurnIsWhole DEF Persist
  <2> QED
    BY <1>8, <1>0, <2>1, StoredKeep DEF Persist
<1>9. ASSUME NEW q \in Requests, PersistFails(q) PROVE StoredInv'
  <2>1. CASE messages' = messages
    BY <1>9, <1>0, <2>1, StoredKeep DEF PersistFails
  <2>2. CASE messages' # messages
    <3>1. /\ at[q] = "persist" /\ messages' = messages \cup Turn(q)
          /\ \A p \in Requests :
                 at'[p] \in {"stored", "replayed"} => at[p] \in {"stored", "replayed"}
          /\ UNCHANGED <<eraser, deletes>>
      BY <1>9, <1>0, <2>2 DEF PersistFails
    <3>2. WholeTurn(TurnOf[q])' /\ \A m \in messages' \ messages : m.of = q
      BY <3>1, TurnIsWhole
    <3> QED
      BY <3>1, <3>2, StoredKeep
  <2> QED
    BY <2>1, <2>2
<1>10. ASSUME NEW q \in Requests, Release(q) PROVE StoredInv'
  BY <1>10, <1>0, StoredKeep DEF Release
<1>11. ASSUME NEW q \in Requests, Killed(q) PROVE StoredInv'
  BY <1>11, <1>0, StoredKeep DEF Killed
<1>12. ASSUME StartDeleteLast PROVE StoredInv'
  BY <1>12, <1>0 DEF StartDeleteLast, StoredInv
<1>13. ASSUME StartDeleteSession PROVE StoredInv'
  BY <1>13, <1>0 DEF StartDeleteSession, StoredInv
<1>14. ASSUME DeleteLast PROVE StoredInv'
  BY <1>14 DEF DeleteLast, StoredInv
<1>15. ASSUME DeleteMessages PROVE StoredInv'
  BY <1>15 DEF DeleteMessages, StoredInv
<1>16. ASSUME DeleteItem PROVE StoredInv'
  BY <1>16 DEF DeleteItem, StoredInv
<1>17. ASSUME UNCHANGED vars PROVE StoredInv'
  BY <1>17, <1>0, StoredKeep DEF vars
<1> QED
  BY <1>1, <1>2, <1>3, <1>4, <1>5, <1>6, <1>7, <1>8, <1>9, <1>10,
     <1>11, <1>12, <1>13, <1>14, <1>15, <1>16, <1>17
  DEF Next, Step, Erase

\* As long as nothing is deleted, and for a turn that no two requests worked on
\* at once: one request works on it, a request past its check finds no message
\* of it, and it is stored once.
OnceInv ==
    deletes = 0 =>
        \A t \in Turns \ shared :
            /\ \A p, q \in Requests :
                TurnOf[p] = t /\ TurnOf[q] = t /\ at[p] \in Working /\ at[q] \in Working => p = q
            /\ \A q \in Requests :
                TurnOf[q] = t /\ at[q] \in {"load", "reserve", "conflict", "persist"} =>
                    \A m \in messages : TurnOf[m.of] # t
            /\ \A m, n \in messages :
                TurnOf[m.of] = t /\ TurnOf[n.of] = t /\ m.role = n.role => m = n

\* A whole turn has its answer.
LEMMA WholeIsAnswered == \A t : WholeTurn(t) => Answered(t)
<1> SUFFICES ASSUME NEW t, NEW m \in messages, TurnOf[m.of] = t,
                    Message("assistant", m.of, m.sequence + 1) \in messages
             PROVE  Answered(t)
  BY DEF WholeTurn
<1>1. /\ Message("assistant", m.of, m.sequence + 1).role = "assistant"
      /\ Message("assistant", m.of, m.sequence + 1).of = m.of
  BY DEF Message
<1> QED
  BY <1>1 DEF Answered

\* A step that stores nothing, and lets no request start to work.
LEMMA OnceKeep ==
  ASSUME OnceInv, messages' = messages, deletes' = deletes, shared' = shared,
         \A q \in Requests :
            /\ at'[q] \in Working => at[q] \in Working
            /\ at'[q] \in {"load", "reserve", "conflict", "persist"} =>
                \/ at[q] \in {"load", "reserve", "conflict", "persist"}
                \/ \A m \in messages : TurnOf[m.of] # TurnOf[q]
  PROVE  OnceInv'
  BY DEF OnceInv

\* A request stores its turn, and works no more on it than to give up.
LEMMA OncePersisted ==
  ASSUME TypedInv, OnceInv, NEW q \in Requests, at[q] = "persist",
         messages' = messages \cup Turn(q), deletes' = deletes, shared' = shared,
         at'[q] \in {"stored", "release"},
         \A p \in Requests \ {q} : at'[p] = at[p]
  PROVE  OnceInv'
<1> SUFFICES ASSUME deletes = 0, NEW t \in Turns \ shared
             PROVE  /\ \A p, r \in Requests :
                        TurnOf[p] = t /\ TurnOf[r] = t /\ at'[p] \in Working /\ at'[r] \in Working
                            => p = r
                    /\ \A p \in Requests :
                        TurnOf[p] = t /\ at'[p] \in {"load", "reserve", "conflict", "persist"} =>
                            \A m \in messages' : TurnOf[m.of] # t
                    /\ \A m, n \in messages' :
                        TurnOf[m.of] = t /\ TurnOf[n.of] = t /\ m.role = n.role => m = n
  BY DEF OnceInv
<1>1. \A p \in Requests : at'[p] \in Working => at[p] \in Working
  BY DEF Working
<1>2. /\ \A p, r \in Requests :
            TurnOf[p] = t /\ TurnOf[r] = t /\ at[p] \in Working /\ at[r] \in Working => p = r
      /\ \A p \in Requests :
            TurnOf[p] = t /\ at[p] \in {"load", "reserve", "conflict", "persist"} =>
                \A m \in messages : TurnOf[m.of] # t
      /\ \A m, n \in messages :
            TurnOf[m.of] = t /\ TurnOf[n.of] = t /\ m.role = n.role => m = n
  BY DEF OnceInv
<1>3. \A m \in Turn(q) : m.of = q /\ \A n \in Turn(q) : m.role = n.role => m = n
  BY DEF Turn, Message
<1>4. TurnOf[q] = t => \A m \in messages : TurnOf[m.of] # t
  BY <1>2
<1>5. \A p \in Requests :
          TurnOf[p] = t /\ at'[p] \in {"load", "reserve", "conflict", "persist"} =>
              \A m \in messages' : TurnOf[m.of] # t
  <2> SUFFICES ASSUME NEW p \in Requests, TurnOf[p] = t, NEW m \in messages', TurnOf[m.of] = t,
                      at'[p] \in {"load", "reserve", "conflict", "persist"}
               PROVE  FALSE
    OBVIOUS
  <2>1. p # q /\ at[p] = at'[p] /\ at[p] \in Working /\ at[q] \in Working
    BY DEF Working
  <2>2. m \in messages \/ TurnOf[q] = t
    BY <1>3
  <2> QED
    BY <1>2, <2>1, <2>2
<1>6. \A m, n \in messages' :
          TurnOf[m.of] = t /\ TurnOf[n.of] = t /\ m.role = n.role => m = n
  BY <1>2, <1>3, <1>4
<1> QED
  BY <1>1, <1>2, <1>5, <1>6

\* Every step keeps that.
LEMMA OnceStep ==
  TypedInv /\ StoredInv /\ OnceInv /\ [Next]_vars => OnceInv'
<1> SUFFICES ASSUME TypedInv, StoredInv, OnceInv, [Next]_vars PROVE OnceInv'
  OBVIOUS
<1>0. deletes \in Nat /\ at = [q \in Requests |-> at[q]] /\ \A q \in Requests : TurnOf[q] \in Turns
  BY Sizes DEF TypedInv, TypeOK
<1> USE DEF Goto, item, clients, ghosts
<1>1. ASSUME NEW q \in Requests, Ask(q) PROVE OnceInv'
  <2> DEFINE t == TurnOf[q]
  <2>1. /\ \A p \in Requests \ {q} : at'[p] = at[p]
        /\ at'[q] \in {"replayed", "refused", "resolve"}
        /\ at[q] = "new" /\ UNCHANGED <<messages, deletes>>
        /\ shared' = IF \E p \in Requests \ {q} : TurnOf[p] = t /\ at[p] \in Working
                     THEN shared \cup {t} ELSE shared
    BY <1>1, <1>0 DEF Ask
  <2>2. \A u \in Turns \ shared' : u \in Turns \ shared
    BY <2>1
  <2>3. t \notin shared' => \A p \in Requests \ {q} : TurnOf[p] = t => at[p] \notin Working
    BY <2>1
  <2>4. \A p \in Requests : at'[p] \in {"load", "reserve", "conflict", "persist"} => p # q
    BY <2>1
  <2>5. ASSUME deletes = 0, NEW u \in Turns \ shared', NEW p \in Requests, NEW r \in Requests,
               TurnOf[p] = u, TurnOf[r] = u, at'[p] \in Working, at'[r] \in Working
        PROVE  p = r
    <3>1. CASE u = t
      BY <2>1, <2>3, <2>5, <3>1
    <3>2. CASE u # t
      BY <2>1, <2>2, <2>5, <3>2 DEF OnceInv
    <3> QED
      BY <3>1, <3>2
  <2> HIDE DEF t
  <2> QED
    BY <2>1, <2>2, <2>4, <2>5 DEF OnceInv
<1>2. ASSUME NEW q \in Requests, Resolve(q) PROVE OnceInv'
  BY <1>2, <1>0, OnceKeep DEF Resolve, Working
<1>3. ASSUME NEW q \in Requests, Extend(q) PROVE OnceInv'
  BY <1>3, <1>0, OnceKeep DEF Extend, Working
<1>4. ASSUME NEW q \in Requests, Check(q) PROVE OnceInv'
  <2>1. deletes = 0 /\ ~Answered(TurnOf[q]) => \A m \in messages : TurnOf[m.of] # TurnOf[q]
    BY WholeIsAnswered DEF StoredInv
  <2>2. CASE deletes = 0
    BY <1>4, <1>0, <2>1, <2>2, OnceKeep DEF Check, Working
  <2>3. CASE deletes # 0
    BY <1>4, <2>3 DEF Check, OnceInv
  <2> QED
    BY <2>2, <2>3
<1>5. ASSUME NEW q \in Requests, Load(q) PROVE OnceInv'
  BY <1>5, <1>0, OnceKeep DEF Load, Working
<1>6. ASSUME NEW q \in Requests, Reserve(q) PROVE OnceInv'
  BY <1>6, <1>0, OnceKeep DEF Reserve, Working
<1>7. ASSUME NEW q \in Requests, Conflict(q) PROVE OnceInv'
  BY <1>7, <1>0, OnceKeep DEF Conflict, Working
<1>8. ASSUME NEW q \in Requests, Persist(q) PROVE OnceInv'
  BY <1>8, <1>0, OncePersisted DEF Persist
<1>9. ASSUME NEW q \in Requests, PersistFails(q) PROVE OnceInv'
  <2>1. CASE messages' = messages
    BY <1>9, <1>0, <2>1, OnceKeep DEF PersistFails, Working
  <2>2. CASE messages' # messages
    BY <1>9, <1>0, <2>2, OncePersisted DEF PersistFails
  <2> QED
    BY <2>1, <2>2
<1>10. ASSUME NEW q \in Requests, Release(q) PROVE OnceInv'
  BY <1>10, <1>0, OnceKeep DEF Release, Working
<1>11. ASSUME NEW q \in Requests, Killed(q) PROVE OnceInv'
  BY <1>11, <1>0, OnceKeep DEF Killed, Working
<1>12. ASSUME StartDeleteLast PROVE OnceInv'
  BY <1>12, <1>0 DEF StartDeleteLast, OnceInv
<1>13. ASSUME StartDeleteSession PROVE OnceInv'
  BY <1>13, <1>0 DEF StartDeleteSession, OnceInv
<1>14. ASSUME DeleteLast PROVE OnceInv'
  BY <1>14 DEF DeleteLast, StoredInv, OnceInv
<1>15. ASSUME DeleteMessages PROVE OnceInv'
  BY <1>15 DEF DeleteMessages, StoredInv, OnceInv
<1>16. ASSUME DeleteItem PROVE OnceInv'
  BY <1>16 DEF DeleteItem, StoredInv, OnceInv
<1>17. ASSUME UNCHANGED vars PROVE OnceInv'
  BY <1>17, <1>0, OnceKeep DEF vars, Working
<1> QED
  BY <1>1, <1>2, <1>3, <1>4, <1>5, <1>6, <1>7, <1>8, <1>9, <1>10,
     <1>11, <1>12, <1>13, <1>14, <1>15, <1>16, <1>17
  DEF Next, Step, Erase

-----------------------------------------------------------------------------
(* The theorems *)

\* All of it together is inductive.
ChatInv == TypedInv /\ RoomInv /\ OrderInv /\ StoredInv /\ OnceInv

\* The first state has no message and no reservation.
LEMMA ChatInit == Init => ChatInv
<1> SUFFICES ASSUME Init PROVE ChatInv
  OBVIOUS
<1>1. Pending = {}
  BY DEF Init, Pending, Reserved
<1>2. RoomInv
  BY <1>1, FS_EmptySet, Sizes DEF Init, RoomInv
<1>3. OrderInv
  BY DEF Init, OrderInv, Claim
<1>4. StoredInv /\ OnceInv
  BY DEF Init, StoredInv, OnceInv, Working
<1> QED
  BY <1>2, <1>3, <1>4, TypeInit DEF ChatInv

\* Every reachable state satisfies it.
LEMMA ChatInvariant == Spec => []ChatInv
<1>1. ChatInv /\ [Next]_vars => ChatInv'
  BY TypeStep, PlacesStep, CountedStep, RoomStep, OrderStep, StoredStep, OnceStep
  DEF ChatInv, TypedInv
<1> QED
  BY <1>1, ChatInit, PTL DEF Spec

\* The limit of a session is never oversold, for any number of requests and
\* turns, however they race, fail and share reservations.
THEOREM NeverOversold == Spec => []CapacityIsNotOversold
<1>1. ASSUME ChatInv, session = "row", ~wiped
      PROVE  Cardinality(messages) + 2 * Cardinality(Pending) <= MaxMessages
  <2>1. /\ Cardinality(messages) + 2 * Cardinality(Pending) <= count
        /\ count <= MaxMessages
    BY <1>1 DEF ChatInv, RoomInv
  <2> QED
    BY <1>1, <2>1, Cardinals, Sizes DEF ChatInv
<1>2. ChatInv => CapacityIsNotOversold
  BY <1>1 DEF CapacityIsNotOversold, Pending
<1> QED
  BY <1>2, ChatInvariant, PTL

\* As long as no reservation is given back, a sequence number belongs to one
\* turn, and to one side of it.
THEOREM SequencesBelongToTurns == Spec => []OrderIsUnique
<1>1. ASSUME ChatInv, ~released, ~wiped, NEW m \in messages, NEW n \in messages,
             m.sequence = n.sequence
      PROVE  m.role = n.role /\ TurnOf[m.of] = TurnOf[n.of]
  <2> DEFINE first(x) == IF x.role = "user" THEN x.sequence ELSE x.sequence - 1
  <2>1. \A x \in messages : /\ x.role \in {"user", "assistant"} /\ x.of \in Requests
                            /\ x.sequence \in Nat /\ TurnOf[x.of] \in Turns
    BY <1>1, Sizes DEF ChatInv, TypedInv, TypeOK
  <2>2. \A x \in messages : x.role = "assistant" => x.sequence > 0
    BY <1>1 DEF ChatInv, TypedInv, Places
  <2>3. \A x \in messages : first(x) \in Nat /\ Claim(first(x), TurnOf[x.of])
    BY <2>1, <2>2 DEF Claim
  <2>4. /\ first(m) + 2 <= first(n) \/ first(n) + 2 <= first(m)
           \/ (first(m) = first(n) /\ TurnOf[m.of] = TurnOf[n.of])
    BY <1>1, <2>1, <2>3 DEF ChatInv, OrderInv
  <2> QED
    BY <1>1, <2>1, <2>3, <2>4
<1>2. ChatInv => OrderIsUnique
  BY <1>1 DEF OrderIsUnique
<1> QED
  BY <1>2, ChatInvariant, PTL

\* What a request was told is stored is there, as long as nothing is deleted.
THEOREM WhatIsStoredIsThere == Spec => []StoredIsThere
<1>1. ChatInv => StoredIsThere
  BY DEF ChatInv, StoredInv, WholeTurn, StoredIsThere
<1> QED
  BY <1>1, ChatInvariant, PTL

\* A turn that no two requests worked on at once is stored once, as long as
\* nothing is deleted, whatever failed and however often it was retried.
THEOREM StoredOnce == Spec => []OnceUnlessShared
<1>1. ChatInv => \A m \in messages : TurnOf[m.of] \in Turns
  BY Sizes DEF ChatInv, TypedInv, TypeOK
<1>2. ChatInv => OnceUnlessShared
  BY <1>1 DEF ChatInv, OnceInv, OnceUnlessShared
<1> QED
  BY <1>2, ChatInvariant, PTL

=============================================================================
