---------------------------- MODULE MCConference ----------------------------
(***************************************************************************)
(* The conference on small parties: a speaker between two clients that     *)
(* leave; two clients that talk until both socket buffers of a connection  *)
(* are full; comings, goings and failures.                                 *)
(***************************************************************************)
EXTENDS Conference, TLC

CONSTANTS ann, bob, cat

Party(ls, who, n) == [lines |-> ls, leavers |-> who, faults |-> n]

MCParties == {Party(ann :> 1 @@ bob :> 0 @@ cat :> 0, {bob, cat}, 0),
              Party(ann :> 2 @@ bob :> 3, {}, 0),
              Party(ann :> 1 @@ bob :> 0, {ann, bob}, 1)}
=============================================================================
