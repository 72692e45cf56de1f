------------------------------ MODULE LineFifo ------------------------------
(***************************************************************************)
(* What a line pipe promises its users: the lines that writers put in come *)
(* out once each, in the order they went in, to whichever reader asks.     *)
(* The two kernel line pipes of the repository (a linked list and a ring   *)
(* of slots) are both shown to implement this specification.               *)
(***************************************************************************)
EXTENDS Sequences

CONSTANTS Readers,   \* the processes that read lines
          Lines,     \* the lines that may be written
          NoLine     \* what a reader holds before its first line

VARIABLES queue,     \* the lines written and not yet read, oldest first
          received   \* the last line each reader got

Init == /\ queue = <<>>
        /\ received = [r \in Readers |-> NoLine]

\* A writer's line is accepted.
Put(line) == /\ queue' = Append(queue, line)
             /\ UNCHANGED received

\* Reader r gets the oldest line.
Get(r) == /\ queue # <<>>
          /\ queue' = Tail(queue)
          /\ received' = [received EXCEPT ![r] = Head(queue)]

\* The device goes away and whatever nobody read goes with it.
Discard == /\ queue' = <<>>
           /\ UNCHANGED received

Next == \/ \E line \in Lines : Put(line)
        \/ \E r \in Readers : Get(r)
        \/ Discard

Spec == Init /\ [][Next]_<<queue, received>>
=============================================================================
