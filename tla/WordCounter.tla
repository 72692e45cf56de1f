----------------------------- MODULE WordCounter -----------------------------
(***************************************************************************)
(* What a map of word counts promises: a word that is added is counted     *)
(* once and for ever, and the reports about a word never go back and never *)
(* run ahead of what was added.                                            *)
(***************************************************************************)
EXTENDS Naturals

CONSTANT Words

VARIABLES counts,   \* per word, how often it was added
          reported  \* per word, the latest count anybody was told

Init == /\ counts = [w \in Words |-> 0]
        /\ reported = [w \in Words |-> 0]

Add(w) == /\ counts' = [counts EXCEPT ![w] = @ + 1]
          /\ UNCHANGED reported

Report(w) == /\ \E n \in reported[w] .. counts[w] : reported' = [reported EXCEPT ![w] = n]
             /\ UNCHANGED counts

Next == \E w \in Words : Add(w) \/ Report(w)

Spec == Init /\ [][Next]_<<counts, reported>>
=============================================================================
