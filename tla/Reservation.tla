---------------------------- MODULE Reservation ----------------------------
(***************************************************************************)
(* What side-effect idempotency promises about one key, whatever store     *)
(* keeps the reservation: an external write is tried only under a          *)
(* reservation, once per reservation, and an outcome is recorded only by   *)
(* the owner, after its try.  Every implementation reads the same:         *)
(* idempotency.py of the AWS and of the Azure pipeline, and the call sites *)
(* in write_to_splunk_rest.                                                *)
(***************************************************************************)
EXTENDS Naturals

CONSTANTS
    Tokens,     \* fencing tokens
    Outcomes    \* what a finished reservation may say

VARIABLES
    slot,       \* the stored reservation of the key, Free if there is none
    armed,      \* tokens whose callers may still try the external write
    effects,    \* external writes carried out
    renewals,   \* reservations taken over, or deleted by their owner
    expiries    \* reservations deleted by age

vars == <<slot, armed, effects, renewals, expiries>>

Free == [status |-> "absent"]
Held(t) == [status |-> "in_progress", token |-> t]
Settled(t, o) == [status |-> o, token |-> t]

TypeOK ==
    /\ slot \in {Free} \cup {Held(t) : t \in Tokens}
                \cup {Settled(t, o) : t \in Tokens, o \in Outcomes}
    /\ armed \subseteq Tokens
    /\ effects \in Nat
    /\ renewals \in Nat
    /\ expiries \in Nat

Init ==
    /\ slot = Free
    /\ armed = {}
    /\ effects = 0
    /\ renewals = 0
    /\ expiries = 0

\* A reservation is created, or replaces one that nobody has settled; the
\* caller may try the write, unless the store's answer never reached it.
Grant(t) ==
    /\ t \notin armed
    /\ \/ slot = Free /\ UNCHANGED renewals
       \/ (\E u \in Tokens : slot = Held(u)) /\ renewals' = renewals + 1
    /\ slot' = Held(t)
    /\ armed' \in {armed, armed \cup {t}}
    /\ UNCHANGED <<effects, expiries>>

\* The one try a reservation allows: it succeeds or not.
Try(t) ==
    /\ t \in armed
    /\ armed' = armed \ {t}
    /\ effects' \in {effects, effects + 1}
    /\ UNCHANGED <<slot, renewals, expiries>>

\* The owner records an outcome after its try.
Settle(t) ==
    /\ slot = Held(t)
    /\ t \notin armed
    /\ \E o \in Outcomes : slot' = Settled(t, o)
    /\ UNCHANGED <<armed, effects, renewals, expiries>>

\* The owner gives the reservation back after its try.
Release(t) ==
    /\ slot = Held(t)
    /\ t \notin armed
    /\ slot' = Free
    /\ renewals' = renewals + 1
    /\ UNCHANGED <<armed, effects, expiries>>

\* The store deletes the reservation by the age of its creation, also when who
\* took it over since has still to try.
Expire ==
    /\ slot # Free
    /\ slot' = Free
    /\ expiries' = expiries + 1
    /\ UNCHANGED <<armed, effects, renewals>>

Next == Expire \/ \E t \in Tokens : Grant(t) \/ Try(t) \/ Settle(t) \/ Release(t)

Spec == Init /\ [][Next]_vars

\* One write, and one more for every reservation replaced or deleted.
EffectsBounded == effects <= 1 + renewals + expiries
=============================================================================
