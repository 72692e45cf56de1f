----------------------------- MODULE ProcessList -----------------------------
(***************************************************************************)
(* The character device that lists the processes (process_list.c) and the  *)
(* program that prints the list (process_list_user.c).  Opening the device *)
(* takes a snapshot: it walks the kernel's list of tasks with the global   *)
(* cursor task_list, which all openers share, while processes come and go. *)
(* A line of the buffer is a pair of a pid and a state; the size of the    *)
(* buffer is counted in lines.                                             *)
(***************************************************************************)
EXTENDS Integers, Sequences, SequencesExt, FiniteSetsExt

CONSTANTS Viewers,   \* the runs of process_list_user
          Pids,      \* the processes, all positive
          FirstPids, \* the sequence of those that run at the beginning
          Mortal,    \* bound: the processes that may end
          StateOf,   \* the state of each process, a long
          MaxLines   \* bound: the lines that a snapshot may grow to

init_task == 0

ASSUME PslistAssumption ==
    /\ init_task \notin Pids
    /\ FirstPids \in Seq(Pids)
    /\ \A i, j \in DOMAIN FirstPids : FirstPids[i] = FirstPids[j] => i = j
    /\ MaxLines \in Nat

VARIABLES task_list,  \* the cursor
          next_task,  \* the links of the kernel's list
          born, dead, \* the processes that have started, and ended
          viewer,     \* pc, the snapshot, the pid loaded for the next line
          shown,      \* what a viewer prints
          lasting,    \* history: the processes alive from a viewer's first step on
          alone,      \* history: no other snapshot was taken during this one
          allocated   \* the blocks of memory that dev_open got for a viewer

taskVars == <<next_task, born, dead>>
pslistVars == <<task_list, taskVars, viewer, shown, lasting, alone, allocated>>

\* The kernel's list, as the links lead through it.
Linked(seq) ==
    LET ring == <<init_task>> \o seq \o <<init_task>>
    IN  [p \in Pids \cup {init_task} |->
           IF p \in Range(ring) THEN ring[Min({i \in DOMAIN ring : ring[i] = p}) + 1] ELSE init_task]

NoView == [pc |-> "start", buffer |-> <<>>, pid |-> init_task]

PslistInit == /\ task_list = init_task
              /\ next_task = Linked(FirstPids)
              /\ born = Range(FirstPids)
              /\ dead = {}
              /\ viewer = [v \in Viewers |-> NoView]
              /\ shown = [v \in Viewers |-> <<>>]
              /\ lasting = [v \in Viewers |-> {}]
              /\ alone = [v \in Viewers |-> TRUE]
              /\ allocated = [v \in Viewers |-> 0]

Walking == {v \in Viewers : viewer[v].pc \in {"next", "pid", "rest"}}

----------------------------------------------------------------------------
\* Processes start at the end of the list; one that ends keeps its own link,
\* so that a reader that stands on it finds its way back.
Fork(p) == /\ p \notin born
           /\ born' = born \cup {p}
           /\ \E last \in (born \ dead) \cup {init_task} :
                /\ next_task[last] = init_task
                /\ last # init_task \/ born = dead
                /\ next_task' = [next_task EXCEPT ![last] = p, ![p] = init_task]
           /\ UNCHANGED <<task_list, dead, viewer, shown, lasting, alone, allocated>>

Exit(p) == /\ p \in (Mortal \cap born) \ dead
           /\ dead' = dead \cup {p}
           /\ \E before \in (born \ dead) \cup {init_task} :
                /\ next_task[before] = p
                /\ next_task' = [next_task EXCEPT ![before] = next_task[p]]
           /\ lasting' = [v \in Viewers |-> lasting[v] \ {p}]
           /\ UNCHANGED <<task_list, born, viewer, shown, alone, allocated>>

----------------------------------------------------------------------------
\* dev_open: the two blocks, or -ENOMEM after the first was given back.
OpenFails(v) == /\ viewer[v].pc = "start"
                /\ viewer' = [viewer EXCEPT ![v].pc = "done"]
                /\ UNCHANGED <<task_list, taskVars, shown, lasting, alone, allocated>>

Open(v) == /\ viewer[v].pc = "start"
           /\ viewer' = [viewer EXCEPT ![v].pc = "next"]
           /\ allocated' = [allocated EXCEPT ![v] = 2]
           /\ task_list' = init_task
           /\ lasting' = [lasting EXCEPT ![v] = born \ dead]
           /\ alone' = [w \in Viewers |-> alone[w] /\ (w \in Walking \cup {v} => Walking = {})]
           /\ UNCHANGED <<taskVars, shown>>

\* The test of the loop: the cursor goes on, and the walk ends at init_task.
Next_task(v) == /\ viewer[v].pc = "next"
                /\ task_list' = next_task[task_list]
                /\ viewer' = [viewer EXCEPT ![v].pc = IF task_list' = init_task THEN "read" ELSE "pid"]
                /\ UNCHANGED <<taskVars, shown, lasting, alone, allocated>>

\* The arguments of sprintf are loaded from the cursor one by one.
LoadPid(v) == /\ viewer[v].pc = "pid"
              /\ viewer' = [viewer EXCEPT ![v].pc = "rest", ![v].pid = task_list]
              /\ UNCHANGED <<task_list, taskVars, shown, lasting, alone, allocated>>

PrintTask(v) == /\ viewer[v].pc = "rest"
                /\ Len(viewer[v].buffer) < MaxLines
                /\ viewer' = [viewer EXCEPT ![v].pc = "next",
                                            ![v].buffer = Append(@, <<viewer[v].pid, StateOf[task_list]>>)]
                /\ UNCHANGED <<task_list, taskVars, shown, lasting, alone, allocated>>

----------------------------------------------------------------------------
\* The names that print_state writes for the bits of a state: bits 4 and 5
\* have none, and all of them are set in -1.
StateName == [i \in {0, 1, 2, 3, 6, 7, 8, 9, 10, 11} |->
                <<"TASK_INTERRUPTIBLE", "TASK_UNINTERRUPTIBLE", "TASK_STOPPED", "TASK_TRACED", "", "",
                  "TASK_DEAD", "TASK_WAKEKILL", "TASK_WAKING", "TASK_PARKED", "TASK_NOLOAD", "TASK_NEW">>[i + 1]]

StateNames(state) ==
    {StateName[i] : i \in {j \in DOMAIN StateName : (state \div 2^j) % 2 = 1}}
    \cup (IF state = -1 THEN {"TASK_UNRUNNABLE"} ELSE {})
    \cup (IF state = 0 THEN {"TASK_RUNNING"} ELSE {})

\* Mistaken variant: the final NUL is not counted.
Dev_readUncounted(size, offset, len) ==
    LET actual == IF size - offset >= len - 1 THEN len - 1 ELSE size - offset
    IN  [copied |-> actual, result |-> actual]

\* dev_read copies what is left, or one character less than was asked for, and
\* a final NUL that it counts in its result but not in the offset.
Dev_read(size, offset, len) ==
    IF offset >= size THEN [copied |-> 0, result |-> 0]
    ELSE LET remain == size - offset
             actual == IF remain >= len - 1 THEN len - 1 ELSE remain
         IN  [copied |-> actual, result |-> actual + 1]

\* print_ps stops one character before the end it is given: the NUL.
Lines(buffer, size) == [i \in 1..(size - 1) |-> <<buffer[i][1], StateNames(buffer[i][2])>>]

\* main of process_list_user reads once, with a buffer of the device's size.
ReadAndPrint(v) ==
    /\ viewer[v].pc = "read"
    /\ LET text == viewer[v].buffer
           read == Dev_read(Len(text), 0, MaxLines + 1)
       IN  shown' = [shown EXCEPT ![v] = Lines(text, read.result)]
    /\ viewer' = [viewer EXCEPT ![v].pc = "close"]
    /\ UNCHANGED <<task_list, taskVars, lasting, alone, allocated>>

\* dev_release
Release(v) == /\ viewer[v].pc = "close"
              /\ viewer' = [viewer EXCEPT ![v] = [NoView EXCEPT !.pc = "done"]]
              /\ allocated' = [allocated EXCEPT ![v] = 0]
              /\ shown' = [shown EXCEPT ![v] = <<>>]
              /\ lasting' = [lasting EXCEPT ![v] = {}]
              /\ UNCHANGED <<task_list, taskVars, alone>>

PslistNext == \/ \E p \in Pids : Fork(p) \/ Exit(p)
              \/ \E v \in Viewers : \/ OpenFails(v) \/ Open(v) \/ Next_task(v) \/ LoadPid(v)
                                    \/ PrintTask(v) \/ ReadAndPrint(v) \/ Release(v)
PslistSpec == PslistInit /\ [][PslistNext]_pslistVars

----------------------------------------------------------------------------
\* A snapshot that overlapped no other lists each process at most once and
\* every process that lived all through it, each with its own state.
SnapshotIsWhole ==
    \A v \in Viewers :
        viewer[v].pc = "close" /\ alone[v] =>
            /\ \A i, j \in DOMAIN shown[v] : shown[v][i][1] = shown[v][j][1] => i = j
            /\ lasting[v] \subseteq {shown[v][i][1] : i \in DOMAIN shown[v]}
            /\ \A i \in DOMAIN shown[v] : shown[v][i][2] = StateNames(StateOf[shown[v][i][1]])
=============================================================================
