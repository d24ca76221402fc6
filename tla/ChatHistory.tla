---------------------------- MODULE ChatHistory ----------------------------
(***************************************************************************)
(* One chat session of the AWS portal: case_chat_history.py on DynamoDB,   *)
(* with the chat route of portal_handler.py around it.  A request asks for *)
(* a turn, known by its client_request_id; several requests may be about   *)
(* the same turn (a retry, a double click).  Requests of the turn Opening  *)
(* name no session: its id is derived from theirs, so all of them mean     *)
(* this session; the others name it.                                       *)
(*                                                                         *)
(* Ownership, scope and expiry are always in order here, and the client    *)
(* supports transactions.                                                  *)
(***************************************************************************)
EXTENDS Integers, FiniteSets

CONSTANTS
    Requests,       \* bound: the chat requests of a behaviour
    Turns,          \* client_request_ids
    TurnOf,         \* the turn each request asks for
    Opening,        \* the turn whose requests name no session
    MaxMessages,    \* CASE_QA_MAX_MESSAGES_PER_SESSION
    MaxAttempts,    \* tries of _reserve_turn_capacity
    MaxDeletes,     \* bound: deletions in a behaviour
    MaxFails        \* bound: failures in a behaviour

ASSUME HistoryAssumption ==
    /\ TurnOf \in [Requests -> Turns]
    /\ {MaxMessages, MaxAttempts} \subseteq Nat \ {0}
    /\ {MaxDeletes, MaxFails} \subseteq Nat

VARIABLES
    session,    \* the session item: "none", "bare" (no more than its dates) or "row"
    count,      \* message_count
    pending,    \* pending_turns: the base sequence of each, NoBase if it is not there
    messages,   \* the message items
    at,         \* where each request is
    base,       \* the message_count it read, then the sequence it was given
    attempt,    \* its tries to reserve
    eraser,     \* where the deletion under way is
    doomed,     \* the messages it has chosen
    shared,     \* ghost: turns two requests were working on at once
    released,   \* ghost: a reservation was given back
    wiped,      \* ghost: the session was deleted
    deletes,    \* deletions so far
    fails       \* failures so far

item == <<session, count, pending>>
clients == <<at, base, attempt>>
ghosts == <<shared, released, wiped>>
vars == <<item, messages, clients, eraser, doomed, ghosts, deletes, fails>>

NoBase == -1
Message(r, q, s) == [role |-> r, of |-> q, sequence |-> s]
Ended == {"stored", "replayed", "refused", "error", "killed"}
Working == {"resolve", "extend", "check", "load", "reserve", "conflict", "persist", "release"}

TypeOK ==
    /\ session \in {"none", "bare", "row"}
    /\ count \in Nat
    /\ pending \in [Turns -> Nat \cup {NoBase}]
    /\ \A m \in messages :
        m.role \in {"user", "assistant"} /\ m.of \in Requests /\ m.sequence \in Nat
    /\ at \in [Requests -> {"new"} \cup Working \cup Ended]
    /\ base \in [Requests -> Nat \cup {NoBase}]
    /\ attempt \in [Requests -> 0 .. MaxAttempts - 1]
    /\ eraser \in {"idle", "last", "messages", "item"}
    /\ doomed \subseteq messages
    /\ shared \subseteq Turns
    /\ {released, wiped} \subseteq BOOLEAN
    /\ deletes \in 0 .. MaxDeletes
    /\ fails \in 0 .. MaxFails

\* The session may be there already, left empty by an opening turn that failed.
Init ==
    /\ session \in {"none", "row"}
    /\ count = 0
    /\ pending = [t \in Turns |-> NoBase]
    /\ messages = {}
    /\ at = [q \in Requests |-> "new"]
    /\ base = [q \in Requests |-> NoBase]
    /\ attempt = [q \in Requests |-> 0]
    /\ eraser = "idle"
    /\ doomed = {}
    /\ shared = {}
    /\ released = FALSE
    /\ wiped = FALSE
    /\ deletes = 0
    /\ fails = 0

-----------------------------------------------------------------------------

Goto(q, from, to) == at[q] = from /\ at' = [at EXCEPT ![q] = to]
Answered(t) == \E m \in messages : m.role = "assistant" /\ TurnOf[m.of] = t
Full == count + 2 > MaxMessages
Reserved(t) == pending[t] # NoBase

(* The chat route before it asks the model *)

\* get_idempotent_chat_response and validate_chat_history_request: a stored
\* answer is returned; a session that is named must exist and have room,
\* counted in messages and not in reservations.
Ask(q) ==
    LET t == TurnOf[q]
        found == session = "row" IN
    /\ \/ found /\ Answered(t) /\ Goto(q, "new", "replayed")
       \/ /\ t # Opening
          /\ ~found \/ (~Answered(t) /\ Cardinality(messages) + 2 > MaxMessages)
          /\ Goto(q, "new", "refused")
       \/ /\ ~(found /\ Answered(t))
          /\ t = Opening \/ (found /\ Cardinality(messages) + 2 <= MaxMessages)
          /\ Goto(q, "new", "resolve")
    /\ shared' = IF \E p \in Requests \ {q} : TurnOf[p] = t /\ at[p] \in Working
                 THEN shared \cup {t} ELSE shared
    /\ UNCHANGED <<item, messages, base, attempt, eraser, doomed, released, wiped, deletes, fails>>

(* persist_chat_history *)

\* _resolve_session_id: a new item is put for an opening turn, which fails if
\* there is one already; a session that is named is loaded ...
Resolve(q) ==
    LET t == TurnOf[q] IN
    /\ \/ t = Opening /\ session = "none" /\ Goto(q, "resolve", "check")
       \/ t = Opening /\ session # "none" /\ Goto(q, "resolve", "error")
       \/ t # Opening /\ session = "row" /\ Goto(q, "resolve", "extend")
       \/ t # Opening /\ session # "row" /\ Goto(q, "resolve", "error")
    /\ IF t = Opening /\ session = "none"
       THEN session' = "row" /\ count' = 0 /\ pending' = [u \in Turns |-> NoBase]
       ELSE UNCHANGED item
    /\ UNCHANGED <<messages, base, attempt, eraser, doomed, ghosts, deletes, fails>>

\* ... and its dates are updated, without a condition.
Extend(q) ==
    /\ Goto(q, "extend", "check")
    /\ session' = IF session = "none" THEN "bare" ELSE session
    /\ UNCHANGED <<count, pending, messages, base, attempt, eraser, doomed, ghosts, deletes, fails>>

\* Whether another request has stored the turn in the meantime.
Check(q) ==
    /\ Goto(q, "check", IF Answered(TurnOf[q]) THEN "stored" ELSE "load")
    /\ UNCHANGED <<item, messages, base, attempt, eraser, doomed, ghosts, deletes, fails>>

\* _reserve_turn_capacity up to its update: the count is raised to the number
\* of messages if it is lower (on the condition that it is still the one read,
\* so reading and raising is one step), and the item is loaded.
Load(q) ==
    LET t == TurnOf[q]
        raised == IF Cardinality(messages) > count THEN Cardinality(messages) ELSE count IN
    /\ \/ session # "row" /\ Goto(q, "load", "error") /\ UNCHANGED <<count, base>>
       \/ /\ session = "row"
          /\ count' = raised
          /\ \/ Reserved(t) /\ Goto(q, "load", "persist") /\ base' = [base EXCEPT ![q] = pending[t]]
             \/ /\ ~Reserved(t) /\ raised + 2 > MaxMessages
                /\ Goto(q, "load", "error") /\ UNCHANGED base
             \/ /\ ~Reserved(t) /\ raised + 2 <= MaxMessages
                /\ Goto(q, "load", "reserve") /\ base' = [base EXCEPT ![q] = raised]
    /\ UNCHANGED <<session, pending, messages, attempt, eraser, doomed, ghosts, deletes, fails>>

\* Alternatives, each a plausible slip in the definition after it, show that
\* the properties notice; no behaviour uses them.
ReserveUnconditionally(q) ==
    /\ session = "row"
    /\ Goto(q, "reserve", "persist")
    /\ count' = base[q] + 2
    /\ pending' = [pending EXCEPT ![TurnOf[q]] = base[q]]
    /\ UNCHANGED <<session, messages, base, attempt, eraser, doomed, ghosts, deletes, fails>>

\* The conditional update: the count is the one read, the turn not pending.
Reserve(q) ==
    LET t == TurnOf[q]
        unchanged == session = "row" /\ count = base[q] /\ ~Reserved(t) IN
    /\ \/ /\ unchanged
          /\ Goto(q, "reserve", "persist")
          /\ count' = count + 2
          /\ pending' = [pending EXCEPT ![t] = count]
       \/ ~unchanged /\ Goto(q, "reserve", "conflict") /\ UNCHANGED <<count, pending>>
    /\ UNCHANGED <<session, messages, base, attempt, eraser, doomed, ghosts, deletes, fails>>

\* After a conflict: another request has reserved for the turn, there is room
\* and a try left, or the request is given up.
Conflict(q) ==
    LET t == TurnOf[q]
        again == session = "row" /\ ~Reserved(t) /\ ~Full /\ attempt[q] < MaxAttempts - 1 IN
    /\ \/ /\ session = "row" /\ Reserved(t)
          /\ Goto(q, "conflict", "persist")
          /\ base' = [base EXCEPT ![q] = pending[t]]
          /\ UNCHANGED attempt
       \/ /\ again
          /\ Goto(q, "conflict", "load")
          /\ attempt' = [attempt EXCEPT ![q] = @ + 1]
          /\ UNCHANGED base
       \/ /\ ~again /\ ~(session = "row" /\ Reserved(t))
          /\ Goto(q, "conflict", "error")
          /\ UNCHANGED <<base, attempt>>
    /\ UNCHANGED <<item, messages, eraser, doomed, ghosts, deletes, fails>>

\* _transact_persist_turn: both messages and the end of the reservation, or
\* nothing.  The keys of the messages hold the time, so the conditions on them
\* always hold, and only the one on the reservation counts.
Turn(q) == {Message("user", q, base[q]), Message("assistant", q, base[q] + 1)}

Persist(q) ==
    /\ session = "row" /\ Reserved(TurnOf[q])
    /\ Goto(q, "persist", "stored")
    /\ messages' = messages \cup Turn(q)
    /\ pending' = [pending EXCEPT ![TurnOf[q]] = NoBase]
    /\ UNCHANGED <<session, count, base, attempt, eraser, doomed, ghosts, deletes, fails>>

PersistErrorIgnored(q) ==
    /\ Goto(q, "persist", "stored")
    /\ fails < MaxFails
    /\ fails' = fails + 1
    /\ UNCHANGED <<item, messages, base, attempt, eraser, doomed, ghosts, deletes>>

PersistedByHalf(q) ==
    /\ Goto(q, "persist", "release")
    /\ session = "row" /\ Reserved(TurnOf[q]) /\ fails < MaxFails
    /\ fails' = fails + 1
    /\ messages' = messages \cup {Message("user", q, base[q])}
    /\ UNCHANGED <<item, base, attempt, eraser, doomed, ghosts, deletes>>

\* The transaction is cancelled, for its condition or for want of capacity; or
\* it goes through and the answer is lost.
PersistFails(q) ==
    LET t == TurnOf[q]
        valid == session = "row" /\ Reserved(t) IN
    /\ Goto(q, "persist", "release")
    /\ \/ ~valid /\ UNCHANGED <<messages, pending, fails>>
       \/ valid /\ fails < MaxFails /\ fails' = fails + 1 /\ UNCHANGED <<messages, pending>>
       \/ /\ valid /\ fails < MaxFails /\ fails' = fails + 1
          /\ messages' = messages \cup Turn(q)
          /\ pending' = [pending EXCEPT ![t] = NoBase]
    /\ UNCHANGED <<session, count, base, attempt, eraser, doomed, ghosts, deletes>>

\* _release_turn_capacity, whose own failure is ignored.
Release(q) ==
    LET t == TurnOf[q] IN
    /\ Goto(q, "release", "error")
    /\ IF session = "row" /\ Reserved(t)
       THEN /\ count' = count - 2
            /\ pending' = [pending EXCEPT ![t] = NoBase]
            /\ released' = TRUE
       ELSE UNCHANGED <<count, pending, released>>
    /\ UNCHANGED <<session, messages, base, attempt, eraser, doomed, shared, wiped, deletes, fails>>

\* A store raises, or the Lambda runs into its timeout or is killed.
Killed(q) ==
    /\ fails < MaxFails
    /\ at[q] \in Working
    /\ at' = [at EXCEPT ![q] = "killed"]
    /\ fails' = fails + 1
    /\ UNCHANGED <<item, messages, base, attempt, eraser, doomed, ghosts, deletes>>

-----------------------------------------------------------------------------
(* Deletions *)

\* A query that is not ConsistentRead may miss what was stored lately.  Bound:
\* one message, or those of one request.
Views ==
    {messages \ late : late \in {{}} \cup {{m} : m \in messages}
                                    \cup {{m \in messages : m.of = q} : q \in Requests}}

\* delete_last_chat_turn: of what it has seen, the last user message in the
\* order of sequences and the first assistant message after it; rows of one
\* sequence come in either order.
LastTurn(seen) ==
    LET users == {m \in seen : m.role = "user"}
        last == {m \in users : \A n \in users : n.sequence <= m.sequence}
        after(m) == {n \in seen : n.role = "assistant" /\ n.sequence > m.sequence}
        first(m) == {n \in after(m) : \A o \in after(m) : n.sequence <= o.sequence}
    IN {{m} : m \in {u \in last : after(u) = {}}} \cup UNION {{{m, n} : n \in first(m)} : m \in last}

StartDeleteLast ==
    /\ deletes < MaxDeletes
    /\ eraser = "idle" /\ session = "row"
    /\ \E seen \in Views : \E rows \in LastTurn(seen) : doomed' = rows
    /\ eraser' = "last"
    /\ deletes' = deletes + 1
    /\ UNCHANGED <<item, messages, clients, ghosts, fails>>

\* Its loop, the user message first; message_count stays as it is.
DeleteLast ==
    /\ eraser = "last"
    /\ eraser' = "idle"
    /\ doomed' = {}
    /\ messages' \in {messages \ doomed, messages \ {m \in doomed : m.role = "user"}}
    /\ fails' = IF messages' = messages \ doomed THEN fails ELSE fails + 1
    /\ fails' <= MaxFails
    /\ UNCHANGED <<item, clients, ghosts, deletes>>

\* delete_chat_session, or the session falls to _enforce_user_session_cap when
\* the user opens another: the messages it finds, and later the item.
StartDeleteSession ==
    /\ deletes < MaxDeletes
    /\ eraser = "idle" /\ session = "row"
    /\ eraser' = "messages"
    /\ deletes' = deletes + 1
    /\ UNCHANGED <<item, messages, clients, doomed, ghosts, fails>>

DeleteMessages ==
    /\ eraser = "messages"
    /\ eraser' = "item"
    /\ \E seen \in Views : messages' = messages \ seen
    /\ UNCHANGED <<item, clients, doomed, ghosts, deletes, fails>>

DeleteItem ==
    /\ eraser = "item"
    /\ eraser' = "idle"
    /\ wiped' = TRUE
    /\ session' = "none" /\ count' = 0 /\ pending' = [t \in Turns |-> NoBase]
    /\ UNCHANGED <<messages, clients, doomed, shared, released, deletes, fails>>

-----------------------------------------------------------------------------

Step(q) ==
    \/ Ask(q) \/ Resolve(q) \/ Extend(q) \/ Check(q) \/ Load(q) \/ Reserve(q)
    \/ Conflict(q) \/ Persist(q) \/ PersistFails(q) \/ Release(q)

Erase == DeleteLast \/ DeleteMessages \/ DeleteItem

Next ==
    \/ \E q \in Requests : Step(q) \/ Killed(q)
    \/ StartDeleteLast \/ StartDeleteSession \/ Erase

Spec == Init /\ [][Next]_vars

-----------------------------------------------------------------------------
(* Properties *)

\* Until the session is deleted, the limit is never oversold: the messages
\* there are and those the reservations promise fit together, also when
\* requests race for the last place, share a reservation, fail after reserving
\* or meet the deletion of a turn.
CapacityIsNotOversold ==
    session = "row" /\ ~wiped =>
        Cardinality(messages) + 2 * Cardinality({t \in Turns : Reserved(t)}) <= MaxMessages

\* As long as no reservation was given back and the session is not deleted,
\* turns are never interleaved or confused in the order of the transcript: a
\* sequence number belongs to one turn, and to one side of it, also when
\* requests race to reserve it.  (Not to one message: a request that shares a
\* reservation may be overtaken by one that has stored the turn and one that
\* has reserved it again.)  _allocate_turn_sequences: "Atomically reserve two
\* monotonic message sequence numbers for one turn."
OrderIsUnique ==
    released \/ wiped \/ \A m, n \in messages :
        m.sequence = n.sequence => m.role = n.role /\ TurnOf[m.of] = TurnOf[n.of]

\* A turn is stored twice only if two requests for it were at work at once, or
\* something was deleted: retries after an error, a kill or a lost answer find
\* what is stored.
OnceUnlessShared ==
    deletes = 0 => \A m, n \in messages :
        m.role = n.role /\ TurnOf[m.of] = TurnOf[n.of] /\ m # n => TurnOf[m.of] \in shared

\* A request that was told its turn is stored leaves a whole turn, unless
\* something was deleted: its own messages or those of another request for it.
StoredIsThere ==
    \A q \in Requests :
        at[q] \in {"stored", "replayed"} /\ deletes = 0 =>
            \E m \in messages :
                /\ m.role = "user" /\ TurnOf[m.of] = TurnOf[q]
                /\ Message("assistant", m.of, m.sequence + 1) \in messages

\* ANALYST_PORTAL_OPERATIONS.md: "Duplicate chat requests return the previously
\* committed turn (idempotent)."
OneTurnPerRequestId ==
    \A m, n \in messages : m.role = n.role /\ TurnOf[m.of] = TurnOf[n.of] => m = n
=============================================================================
