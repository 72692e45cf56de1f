---------------------------- MODULE OneShotGate ----------------------------
(***************************************************************************)
(* What a one-shot barrier promises: nobody passes before the gate opens,  *)
(* it opens when Count threads stand before it or when its owner opens it  *)
(* to take it down, and once it is open newcomers are refused.             *)
(***************************************************************************)
EXTENDS Naturals, FiniteSets

CONSTANTS Threads, Count

VARIABLES inside,  \* the threads that arrived before the gate opened
          open,    \* the gate is open, for good
          passed,  \* the threads that were let through
          refused  \* the threads that were turned away

gateVars == <<inside, open, passed, refused>>

Init == /\ inside = {}
        /\ open = FALSE
        /\ passed = {}
        /\ refused = {}

\* A thread arrives, and there are not enough of them yet.
Arrive(t) == /\ ~open
             /\ t \notin inside
             /\ inside' = inside \cup {t}
             /\ Cardinality(inside') < Count
             /\ UNCHANGED <<open, passed, refused>>

\* The last of Count threads opens the gate and passes.
ArriveLast(t) == /\ ~open
                 /\ t \notin inside
                 /\ inside' = inside \cup {t}
                 /\ Cardinality(inside') >= Count
                 /\ open' = TRUE
                 /\ passed' = passed \cup {t}
                 /\ UNCHANGED refused

Pass(t) == /\ open
           /\ t \in inside
           /\ passed' = passed \cup {t}
           /\ UNCHANGED <<inside, open, refused>>

Refuse(t) == /\ open
             /\ t \notin inside
             /\ refused' = refused \cup {t}
             /\ UNCHANGED <<inside, open, passed>>

\* The owner takes the gate down, which lets everybody inside go.
TakeDown == /\ open' = TRUE
            /\ UNCHANGED <<inside, passed, refused>>

Next == \/ \E t \in Threads : Arrive(t) \/ ArriveLast(t) \/ Pass(t) \/ Refuse(t)
        \/ TakeDown

Spec == Init /\ [][Next]_gateVars
=============================================================================
