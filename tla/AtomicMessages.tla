---------------------------- MODULE AtomicMessages ----------------------------
(***************************************************************************)
(* What the state machine promises about one message (spec 4.5 and 7):    *)
(* the committed store changes only when a message completes, a message   *)
(* that fails leaves it as it was, and one that succeeds changes only the *)
(* keys it is entitled to: its own footprint.                             *)
(***************************************************************************)
CONSTANTS
    Msgs,           \* the messages a sender may submit
    Footprint(_),   \* Footprint(m): the store keys message m may change
    InitStore,      \* the committed store before the first message
    NoOutcome       \* the outcome before any message completed

VARIABLES
    store,          \* the committed store
    outcome         \* the last completed message and whether it succeeded

vars == <<store, outcome>>

Init ==
    /\ store = InitStore
    /\ outcome = NoOutcome

\* The keys whose value a step changes.
Changed == {k \in DOMAIN store : store'[k] # store[k]}

\* Message m completes; it succeeded iff ok.
Complete(m, ok) ==
    /\ outcome' = [msg |-> m, ok |-> ok]
    /\ DOMAIN store' = DOMAIN store
    /\ IF ok THEN Changed \subseteq Footprint(m)
             ELSE store' = store

Next == \E m \in Msgs, ok \in BOOLEAN : Complete(m, ok)

Spec == Init /\ [][Next]_vars

=============================================================================
