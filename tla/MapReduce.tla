------------------------------ MODULE MapReduce ------------------------------
(***************************************************************************)
(* The MapReduce engine of systems_program/proj2 (mapreduce.c). The parent *)
(* splits the file behind newlines and forks a child per split. Every      *)
(* child maps its split; child 0 then waits for SIGUSR1, which the parent  *)
(* sends before its last wait(), and reduces.                              *)
(*                                                                         *)
(* Steps of the parent: split, fork, loop (at the head of its last loop),  *)
(* wait, and then returned, exited (the file cannot be split) or aborted   *)
(* (fork failed). Steps of a child: unborn, map, and for child 0 install   *)
(* (before signal()), poll, asleep and reduce; then exited or killed.      *)
(***************************************************************************)
EXTENDS UserFunctions

CONSTANTS Files,      \* the input files considered
          SplitNums,  \* the numbers of splits considered
          Garbage     \* a line written from an overflown check_word

ASSUME FilesAssumption == Files \subseteq Seq(Bytes)
ASSUME SplitNumsAssumption == SplitNums \subseteq Nat

VARIABLES task, file, split_num,  \* the arguments of the program
          data_splits,
          parent, i,              \* the parent's step, and its loop counter
          child,                  \* per worker, its step
          sigusr1,                \* none, pending, or seen by the handler
          inter,                  \* per worker, its intermediate file
          result,                 \* the result file: empty, or one output
          reaped                  \* the workers wait() returned

args == <<task, file, split_num>>
vars == <<args, data_splits, parent, i, child, sigusr1, inter, result, reaped>>

Workers == 0 .. split_num - 1
Dead == {"exited", "killed"}
ChildSteps == Dead \cup {"unborn", "map", "install", "poll", "asleep", "reduce"}
Ended == {"returned", "exited", "aborted"}

TypeOK ==
    /\ task \in {"counter", "finder"}
    /\ file \in Files
    /\ split_num \in SplitNums
    /\ DOMAIN data_splits = Workers
    /\ parent \in Ended \cup {"split", "fork", "loop", "wait"}
    /\ i \in 0 .. split_num
    /\ child \in [Workers -> ChildSteps]
    /\ sigusr1 \in {"none", "pending", "seen"}
    /\ DOMAIN inter = Workers
    /\ reaped \in SUBSET Workers

Init == /\ task \in {"counter", "finder"}
        /\ file \in Files
        /\ split_num \in SplitNums
        /\ data_splits = [k \in Workers |-> [start |-> 0, size |-> 0]]
        /\ parent = "split"
        /\ i = 0
        /\ child = [k \in Workers |-> "unborn"]
        /\ sigusr1 = "none"
        /\ inter = [k \in Workers |-> <<>>]
        /\ result = <<>>
        /\ reaped = {}

-----------------------------------------------------------------------------
\* Mistaken variant: splits end where they end.
EndFromAnywhere(bytes, offset) == offset

\* The first newline from `offset` on ends a split and begins the next one;
\* beyond the end of the file if there is none.
EndFrom(bytes, offset) ==
    CHOOSE p \in offset .. Len(bytes) + offset + 1 :
        /\ \A q \in offset .. p - 1 : q < Len(bytes) => bytes[q + 1] # NewLine
        /\ IF p < Len(bytes) THEN bytes[p + 1] = NewLine ELSE p > Len(bytes)

\* start_offset when split k of n is made, for every k
StartOffsets(bytes, n) ==
    LET start_offset[k \in 0 .. n] ==
          IF k = 0 THEN 0 ELSE EndFrom(bytes, start_offset[k - 1] + Len(bytes) \div n)
    IN  start_offset

Splittable == \A k \in 1 .. split_num - 1 : StartOffsets(file, split_num)[k] < Len(file)

\* initialize_data_split: the last split takes what is left.
SplitAt(k) ==
    LET start_offset == StartOffsets(file, split_num)
    IN  [start |-> start_offset[k],
         size |-> (IF k = split_num - 1 THEN Len(file) ELSE start_offset[k + 1]) - start_offset[k]]

Split == /\ parent = "split"
         /\ IF Splittable
            THEN data_splits' = [k \in Workers |-> SplitAt(k)] /\ parent' = "fork"
            ELSE UNCHANGED data_splits /\ parent' = "exited"
         /\ UNCHANGED <<args, i, child, sigusr1, inter, result, reaped>>

Fork == /\ parent = "fork"
        /\ i < split_num
        /\ child' = [child EXCEPT ![i] = "map"]
        /\ i' = i + 1
        /\ UNCHANGED <<args, data_splits, parent, sigusr1, inter, result, reaped>>

ForkFails == /\ parent = "fork"
             /\ i < split_num
             /\ parent' = "aborted"
             /\ UNCHANGED <<args, data_splits, i, child, sigusr1, inter, result, reaped>>

AllForked == /\ parent = "fork"
             /\ i = split_num
             /\ parent' = "loop"
             /\ i' = 0
             /\ UNCHANGED <<args, data_splits, child, sigusr1, inter, result, reaped>>

\* Mistaken variant: the signal is sent before the first wait.
SignalsNow == i = 0

\* kill() comes before the last of the split_num calls of wait().
SignalsBeforeWait == i = split_num - 1

LoopHead == /\ parent = "loop"
            /\ i < split_num
            /\ sigusr1' = IF SignalsBeforeWait THEN "pending" ELSE sigusr1
            /\ parent' = "wait"
            /\ UNCHANGED <<args, data_splits, i, child, inter, result, reaped>>

\* wait() returns any child that ended, whoever it is.
Wait == /\ parent = "wait"
        /\ \E k \in Workers \ reaped : child[k] \in Dead /\ reaped' = reaped \cup {k}
        /\ i' = i + 1
        /\ parent' = "loop"
        /\ UNCHANGED <<args, data_splits, child, sigusr1, inter, result>>

\* Mistaken variant: does not wait for the last child.
ReturnEarly == /\ parent = "loop"
               /\ i >= split_num - 1
               /\ parent' = "returned"
               /\ UNCHANGED <<args, data_splits, i, child, sigusr1, inter, result, reaped>>

Return == /\ parent = "loop"
          /\ i = split_num
          /\ parent' = "returned"
          /\ UNCHANGED <<args, data_splits, i, child, sigusr1, inter, result, reaped>>

-----------------------------------------------------------------------------
MapFunc(k) == IF task = "counter" THEN LetterCounterMap(file, data_splits[k])
                                  ELSE WordFinderMap(file, data_splits[k])

ReduceFunc(files) == IF task = "counter" THEN LetterCounterReduce(files)
                                         ELSE WordFinderReduce(files)

WordTooLong(k) == task = "finder" /\ Overflows(file, data_splits[k])

AfterMap(k) == IF k = 0 THEN "install" ELSE "exited"

Map(k) == /\ child[k] = "map"
          /\ ~WordTooLong(k)
          /\ inter' = [inter EXCEPT ![k] = MapFunc(k)]
          /\ child' = [child EXCEPT ![k] = AfterMap(k)]
          /\ UNCHANGED <<args, data_splits, parent, i, sigusr1, result, reaped>>

\* The word runs over the end of check_word: the child dies or writes
\* something or goes on as if nothing had happened.
MapOverflows(k) ==
    /\ child[k] = "map"
    /\ WordTooLong(k)
    /\ \E lines \in {<<>>, <<Garbage>>, MapFunc(k)} : inter' = [inter EXCEPT ![k] = lines]
    /\ \E step \in {AfterMap(k), "killed"} : child' = [child EXCEPT ![k] = step]
    /\ UNCHANGED <<args, data_splits, parent, i, sigusr1, result, reaped>>

Child0(from, to) == /\ 0 \in Workers
                    /\ child[0] = from
                    /\ child' = [child EXCEPT ![0] = to]

InstallHandler == /\ Child0("install", "poll")
                  /\ UNCHANGED <<args, data_splits, parent, i, sigusr1, inter, result, reaped>>

\* SIGUSR1 reaches child 0. It kills a child that has not installed the
\* handler, and ends a sleep() unless it comes between the test of
\* handler_called and the call: then the child still sleeps to the end.
Deliver == /\ sigusr1 = "pending"
           /\ \/ /\ Child0("map", "killed") \/ Child0("install", "killed")
                 /\ UNCHANGED sigusr1
              \/ /\ Child0("poll", "poll") \/ Child0("asleep", "poll") \/ Child0("asleep", "asleep")
                 /\ sigusr1' = "seen"
           /\ UNCHANGED <<args, data_splits, parent, i, inter, result, reaped>>

\* while(handler_called == 0) sleep(1)
Poll == /\ Child0("poll", IF sigusr1 = "seen" THEN "reduce" ELSE "asleep")
        /\ UNCHANGED <<args, data_splits, parent, i, sigusr1, inter, result, reaped>>

\* Mistaken variant: pause() in place of sleep(1), which only a signal ends.
SleepsForEver == FALSE

SleepOver == /\ Child0("asleep", "poll")
             /\ UNCHANGED <<args, data_splits, parent, i, sigusr1, inter, result, reaped>>

Reduce == /\ Child0("reduce", "exited")
          /\ result' = <<ReduceFunc(inter)>>
          /\ UNCHANGED <<args, data_splits, parent, i, sigusr1, inter, reaped>>

ParentStep == Split \/ Fork \/ ForkFails \/ AllForked \/ LoopHead \/ Wait \/ Return

ChildStep(k) == Map(k) \/ MapOverflows(k)

ReducerStep == InstallHandler \/ Deliver \/ Poll \/ SleepOver \/ Reduce

Next == \/ ParentStep
        \/ \E k \in Workers : ChildStep(k)
        \/ ReducerStep

Spec == Init /\ [][Next]_vars

\* Processes run, signals arrive and sleeps end.
Fairness == /\ WF_vars(ParentStep)
            /\ WF_vars(\E k \in Workers : ChildStep(k))
            /\ WF_vars(InstallHandler \/ Poll \/ SleepOver \/ Reduce)
            /\ WF_vars(Deliver)

FairSpec == Spec /\ Fairness
-----------------------------------------------------------------------------
\* The reducer rewinds the descriptors it shares with the workers only after
\* all of them have ended (mapreduce.c:98 against 90), since the signal waits
\* for all children but one and child 0 cannot end without it.
ReduceAfterMaps ==
    0 \in Workers /\ child[0] = "reduce" => \A k \in Workers \ {0} : child[k] \in Dead

\* The result file is right, for both tasks, however the file is split: the
\* byte that letter_counter_map reads beyond its split is a newline, no line
\* is in two splits, and nothing is written before it is complete. A word
\* that is too long for check_word voids the promise.
Expected == IF task = "counter" THEN LettersOf(file) ELSE LinesWithWord(file)
ResultIsExact ==
    result # <<>> /\ (\A k \in Workers : ~WordTooLong(k)) => result = <<Expected>>

\* mapreduce() leaves no child behind, and when it leaves no result either it
\* is because child 0 was killed, by SIGUSR1 (mapreduce.c:116 before 94) or by
\* a long word.
NothingLeftBehind ==
    parent = "returned" =>
        /\ \A k \in Workers : child[k] \in Dead
        /\ 0 \in Workers => (result = <<>> <=> child[0] = "killed")

\* mapreduce() ends: no wait() lasts for ever, although the parent waits for
\* child 0 and child 0 for the parent's signal.
ParentEnds == <>(parent \in Ended)
=============================================================================
