--------------------------- MODULE BlockAllocator ---------------------------
(***************************************************************************)
(* What an allocator promises: a block it hands out belongs to nobody      *)
(* else until it is taken back.                                            *)
(***************************************************************************)
CONSTANTS Blocks, NoBlock

VARIABLES live,  \* the blocks handed out and not taken back
          last   \* the block the latest request got

Init == live = {} /\ last = NoBlock

HandOut(b) == /\ b \notin live
              /\ live' = live \cup {b}
              /\ last' = b

\* A request for no bytes gets some block that is nobody's and owns nothing of it.
HandOutNothing(b) == b \notin live /\ last' = b /\ UNCHANGED live

TakeBack(b) == live' = live \ {b} /\ UNCHANGED last

\* The whole memory is given up, or nothing is promised any longer.
Reset == live' = {} /\ UNCHANGED last

Next == \/ \E b \in Blocks : HandOut(b) \/ HandOutNothing(b) \/ TakeBack(b)
        \/ Reset

Spec == Init /\ [][Next]_<<live, last>>
=============================================================================
