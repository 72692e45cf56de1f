---------------------------- MODULE CoherentLines ----------------------------
(***************************************************************************)
(* What a coherence protocol owes its caches, whatever states it uses: a   *)
(* read gives the reader a copy and takes nobody's away, a write leaves    *)
(* the writer with the only copy, and the fact that memory is out of date  *)
(* is never forgotten.                                                     *)
(***************************************************************************)
CONSTANTS Caches, AddressLines

VARIABLES copies,  \* copies[l]: the caches with a valid copy of line l
          dirty    \* dirty[l]: line l was written, memory is out of date

Init == /\ copies = [l \in AddressLines |-> {}]
        /\ dirty = [l \in AddressLines |-> FALSE]

Read(c, l) == /\ copies' = [copies EXCEPT ![l] = copies[l] \cup {c}]
              /\ UNCHANGED dirty

Write(c, l) == /\ copies' = [copies EXCEPT ![l] = {c}]
               /\ dirty' = [dirty EXCEPT ![l] = TRUE]

Next == \E c \in Caches, l \in AddressLines : Read(c, l) \/ Write(c, l)

Spec == Init /\ [][Next]_<<copies, dirty>>
=============================================================================
