----------------------------- MODULE ProcessTree -----------------------------
(***************************************************************************)
(* process.c: a process of height h starts child_count processes of height *)
(* h - 1, each running the same program, and waits for them.  A process is *)
(* numbered when it is forked; the shell is no part of the model.          *)
(***************************************************************************)
EXTENDS Integers

CONSTANTS Heights, ChildCounts,  \* the arguments of the program
          MaxProcesses,          \* bound: the processes the system can hold
          Misfortunes            \* bound: how often execvp fails

ASSUME TreeAssumption == /\ Heights \subseteq Int
                         /\ ChildCounts \subseteq Int
                         /\ MaxProcesses \in Nat
                         /\ Misfortunes \in Nat

None == 0
Procs == 1..MaxProcesses

VARIABLES child_count,
          proc,     \* pc, height, i, parent, and reaped
          failures  \* bound: the failed calls of execvp

treeVars == <<child_count, proc, failures>>

NoProc == [pc |-> "unborn", height |-> 0, i |-> 0, parent |-> None, reaped |-> FALSE]

TreeInit == /\ child_count = 0
            /\ proc = [p \in Procs |-> NoProc]
            /\ failures = 0

Unborn == {p \in Procs : proc[p].pc = "unborn"}
Children(p) == {q \in Procs : proc[q].parent = p /\ ~proc[q].reaped}
Over(p) == proc[p].pc \in {"done", "aborted"}

\* main, with both arguments.
MainStart(height, count) ==
    /\ Unborn = Procs
    /\ child_count' = count
    /\ proc' = [proc EXCEPT ![1].pc = "main", ![1].height = height]
    /\ UNCHANGED failures

\* main up to its call of create_child_processes.
Descend(p) == /\ proc[p].pc = "main"
              /\ proc' = [proc EXCEPT ![p].pc = IF proc[p].height > 1 THEN "fork" ELSE "done"]
              /\ UNCHANGED <<child_count, failures>>

\* fork: the child replaces its program by one of a smaller height.
ForkChild(p, q) ==
    /\ proc[p].pc = "fork"
    /\ proc[p].i < child_count
    /\ proc[q].pc = "unborn"
    /\ proc' = [proc EXCEPT ![p].i = @ + 1,
                            ![q] = [NoProc EXCEPT !.pc = "main", !.height = proc[p].height - 1, !.parent = p]]
    /\ UNCHANGED <<child_count, failures>>

\* execvp fails: the child goes on in its parent's loop, as one more parent.
ForkCopy(p, q) ==
    /\ proc[p].pc = "fork"
    /\ proc[p].i < child_count
    /\ proc[q].pc = "unborn"
    /\ failures < Misfortunes
    /\ failures' = failures + 1
    /\ proc' = [proc EXCEPT ![p].i = @ + 1,
                            ![q] = [proc[p] EXCEPT !.i = @ + 1, !.parent = p]]
    /\ UNCHANGED child_count

\* fork fails: abort, and the children that there are go on without a parent.
ForkFails(p) == /\ proc[p].pc = "fork"
                /\ proc[p].i < child_count
                /\ Unborn = {}
                /\ proc' = [proc EXCEPT ![p].pc = "aborted"]
                /\ UNCHANGED <<child_count, failures>>

\* Mistaken variant: the counter starts anew before the waits.
LoopEndsAnew(p) == /\ proc[p].pc = "fork"
                   /\ proc[p].i >= child_count
                   /\ proc' = [proc EXCEPT ![p].pc = "wait", ![p].i = 0]
                   /\ UNCHANGED <<child_count, failures>>

LoopEnds(p) == /\ proc[p].pc = "fork"
               /\ proc[p].i >= child_count
               /\ proc' = [proc EXCEPT ![p].pc = "wait"]
               /\ UNCHANGED <<child_count, failures>>

\* i counts down to -1, one wait more than there are children to start: wait
\* takes a child that is over, and fails at once when there is none left.
Wait(p) == /\ proc[p].pc = "wait"
           /\ LET counted == [proc EXCEPT ![p].i = IF @ > 0 THEN @ - 1 ELSE 0,
                                          ![p].pc = IF proc[p].i > 0 THEN "wait" ELSE "done"]
              IN  \/ \E q \in Children(p) :
                       Over(q) /\ proc' = [counted EXCEPT ![q].reaped = TRUE]
                  \/ Children(p) = {} /\ proc' = counted
           /\ UNCHANGED <<child_count, failures>>

TreeNext == \/ \E h \in Heights, n \in ChildCounts : MainStart(h, n)
            \/ \E p \in Procs : \/ Descend(p) \/ ForkFails(p) \/ LoopEnds(p) \/ Wait(p)
                                \/ \E q \in Unborn : /\ \A r \in Unborn : q <= r
                                                     /\ (ForkChild(p, q) \/ ForkCopy(p, q))

TreeSpec == TreeInit /\ [][TreeNext]_treeVars

----------------------------------------------------------------------------
\* A process that returns from main has waited for every process it started,
\* for those, too, that are copies of it because execvp failed.
ParentsOutlive == \A p, q \in Procs : proc[p].pc = "done" /\ proc[q].parent = p => proc[q].reaped
=============================================================================
