------------------------------ MODULE PipeRing ------------------------------
(***************************************************************************)
(* The character device /dev/pipe (operating_systems/assignment2/test.c):  *)
(* the same line pipe as linepipe.c, kept in a ring of max_table_size      *)
(* slots between read_ptr and write_ptr (both -1 when it is empty), with   *)
(* the same lock and the same two wait queues.                             *)
(*                                                                         *)
(* The steps of a process (pc) are those of LinePipe: closed, open, lock,  *)
(* first, check, asleep, relock, second and dead. Both handlers return     *)
(* with the lock held when copying from or to the user fails.              *)
(*                                                                         *)
(* fops has no .owner, so that rmmod takes the module away from under the  *)
(* processes that have the device open, sleep in it or are inside a call.  *)
(* Such a process is stale. Its next step meets unmapped memory, or goes   *)
(* on: while exit_device is not through, or in the memory of the next      *)
(* insmod, where it has strayed. A stale sleeper is forgotten: asleep on a *)
(* wait queue that initialize_device has made anew.                        *)
(***************************************************************************)
EXTENDS Integers, Sequences, FiniteSets

CONSTANTS Readers, Writers,  \* the processes that may use the device
          Lines, NoLine,     \* contents of a line; the empty line
          max_table_size,    \* the module parameter: number of slots
          Events,            \* what the environment may do, from AllEvents
          MaxDebt, MaxCount, \* bounds of the model: no call starts unless
                             \* -MaxDebt < elements_count < MaxCount and
                             \* write_ptr < MaxCount
          MaxInside          \* bound of the model: rmmod comes if the processes
                             \* there are and those it leaves stale are no more

\* "straycall": calls start even after a stale process has strayed.
AllEvents == {"signal", "badread", "badwrite", "close", "straycall"}

ASSUME UsersAssumption == Readers \cap Writers = {}
ASSUME SizeAssumption == max_table_size \in Nat \ {0}
ASSUME BoundsAssumption == MaxDebt \in Nat /\ MaxCount \in Nat /\ MaxInside \in Nat
ASSUME EventsAssumption == Events \subseteq AllEvents
ASSUME LinesAssumption == NoLine \notin Lines

VARIABLES active,          \* the processes there are in this run
          loaded,          \* the module is in the kernel
          buffer_table,    \* the slots
          read_ptr, write_ptr,
          elements_count,
          lock,            \* buffer_lock: the set of its holders
          pc,              \* where each process is
          stale,           \* the processes whose open file is of an earlier load
          strayed,         \* history: a stale process has run since the last load
          got              \* history: the last line copied to each reader's buffer
                           \* by a module in which nobody had strayed

ring == <<buffer_table, read_ptr, write_ptr, elements_count>>
modules == <<loaded, stale, strayed>>
vars == <<active, modules, ring, lock, pc, got>>

Procs == Readers \cup Writers
Slots == 0 .. max_table_size - 1
Outside == {"closed", "open", "dead"}
Sleeping == {"asleep", "forgotten"}
Steps == Outside \cup Sleeping \cup {"lock", "first", "check", "relock", "second"}

TypeOK ==
    /\ active \in SUBSET Procs
    /\ loaded \in BOOLEAN
    /\ buffer_table \in [Slots -> Lines \cup {NoLine}]
    /\ read_ptr \in Slots \cup {-1}
    /\ write_ptr \in Nat \cup {-1}
    /\ elements_count \in Int
    /\ lock \in SUBSET Procs
    /\ pc \in [Procs -> Steps]
    /\ stale \in SUBSET Procs
    /\ strayed \in BOOLEAN
    /\ got \in [Readers -> Lines \cup {NoLine}]

\* The slots initialize_device allocates, zeroed.
FreshTable == [i \in Slots |-> NoLine]

Init == /\ active \in SUBSET Procs
        /\ loaded = TRUE
        /\ buffer_table = FreshTable
        /\ read_ptr = -1
        /\ write_ptr = -1
        /\ elements_count = 0
        /\ lock = {}
        /\ pc = [p \in Procs |-> "closed"]
        /\ stale = {}
        /\ strayed = FALSE
        /\ got = [r \in Readers |-> NoLine]

-----------------------------------------------------------------------------
Goto(p, step) == pc' = [pc EXCEPT ![p] = step]

\* wake_up_interruptible: the sleepers that sleep go back to their test.
WakeAndGoto(sleepers, p, step) ==
    pc' = [q \in Procs |-> IF q = p THEN step
                           ELSE IF q \in sleepers /\ pc[q] = "asleep" THEN "check"
                           ELSE pc[q]]

\* p runs in the module's code and on its variables.
Runs(p) == /\ strayed' = (strayed \/ p \in stale)
           /\ UNCHANGED <<active, loaded, stale>>

Open(p) == /\ loaded
           /\ p \in active
           /\ pc[p] = "closed"
           /\ Goto(p, "open")
           /\ UNCHANGED <<active, modules, ring, lock, got>>

Close(p) == /\ "close" \in Events
            /\ pc[p] = "open"
            /\ Goto(p, "closed")
            /\ stale' = stale \ {p}
            /\ UNCHANGED <<active, loaded, strayed, ring, lock, got>>

\* exit_device, whoever has the device open: no reference is counted.
Unload == /\ "close" \in Events
          /\ loaded
          /\ loaded' = FALSE
          /\ stale' = stale \cup {p \in Procs : pc[p] \notin {"closed", "dead"}}
          /\ Cardinality(active) + Cardinality(stale') <= MaxInside
          /\ UNCHANGED <<active, strayed, ring, lock, pc, got>>

\* A later insmod brings fresh variables and a fresh lock, initialize_device
\* fresh slots and empty wait queues.
Load == /\ ~loaded
        /\ loaded' = TRUE
        /\ strayed' = FALSE
        /\ buffer_table' = FreshTable
        /\ read_ptr' = -1
        /\ write_ptr' = -1
        /\ elements_count' = 0
        /\ lock' = {}
        /\ pc' = [p \in Procs |-> IF pc[p] = "asleep" THEN "forgotten" ELSE pc[p]]
        /\ UNCHANGED <<active, stale, got>>

\* The memory of a stale process's module is gone: it is killed as it runs.
Fault(p) == /\ p \in stale
            /\ pc[p] \in Sleeping => "signal" \in Events
            /\ Goto(p, "dead")
            /\ stale' = stale \ {p}
            /\ UNCHANGED <<active, loaded, strayed, ring, lock, got>>

Call(p) == /\ pc[p] = "open"
           /\ -MaxDebt < elements_count /\ elements_count < MaxCount
           /\ write_ptr < MaxCount
           /\ strayed => "straycall" \in Events
           /\ Goto(p, "lock")
           /\ UNCHANGED <<active, modules, ring, lock, got>>

Lock(p) == /\ pc[p] \in {"lock", "relock"}
           /\ lock = {}
           /\ lock' = {p}
           /\ Goto(p, IF pc[p] = "lock" THEN "first" ELSE "second")
           /\ Runs(p)
           /\ UNCHANGED <<ring, got>>

\* A signal ends a mutex_lock_interruptible or the wait: -ERESTARTSYS.
Interrupted(p) == /\ "signal" \in Events
                  /\ pc[p] \in {"lock", "relock", "asleep"}
                  /\ Goto(p, "open")
                  /\ Runs(p)
                  /\ UNCHANGED <<ring, lock, got>>

\* A forgotten sleeper links its neighbours of old: the queue, made anew in the
\* same place, loses sleepers or finds forgotten ones again.
Rouse(p) == /\ "signal" \in Events
            /\ pc[p] = "forgotten"
            /\ \E found \in SUBSET {q \in Procs : /\ pc[q] \in Sleeping
                                                  /\ q \in Readers <=> p \in Readers} :
                 pc' = [q \in Procs |->
                          IF q = p THEN "open"
                          ELSE IF q \in found THEN "asleep"
                          ELSE IF pc[q] = "asleep" /\ (q \in Readers <=> p \in Readers)
                          THEN "forgotten" ELSE pc[q]]
            /\ Runs(p)
            /\ UNCHANGED <<ring, lock, got>>

\* The condition of wait_event_interruptible, tested without the lock.
Condition(p) == IF p \in Readers THEN elements_count > 0
                                 ELSE elements_count < max_table_size

CheckCondition(p) == /\ pc[p] = "check"
                     /\ Goto(p, IF Condition(p) THEN "relock" ELSE "asleep")
                     /\ Runs(p)
                     /\ UNCHANGED <<ring, lock, got>>
-----------------------------------------------------------------------------
\* The count that sends a caller to its wait queue.
BlockingCount(p) == IF p \in Readers THEN 0 ELSE max_table_size

Blocks(p) == /\ pc[p] = "first"
             /\ elements_count = BlockingCount(p)
             /\ lock' = {}
             /\ Goto(p, "check")
             /\ Runs(p)
             /\ UNCHANGED <<ring, got>>

\* p goes on to the slots; after a wait it does not look at the count again.
Proceeds(p) == \/ pc[p] = "second"
               \/ pc[p] = "first" /\ elements_count # BlockingCount(p)

After(i) == IF i = max_table_size - 1 THEN 0 ELSE i + 1

\* Mistaken variant: the pointers are not reset when the last line goes.
AdvanceKeeps(r) ==
    /\ read_ptr' = After(read_ptr)
    /\ UNCHANGED write_ptr
    /\ elements_count' = elements_count - 1
    /\ lock' = {}
    /\ WakeAndGoto(IF elements_count' = max_table_size - 1 THEN Writers ELSE {},
                   r, "open")

\* The end of device_read: the pointers, the count and the wake-up.
Advance(r) ==
    /\ IF read_ptr = write_ptr
       THEN read_ptr' = -1 /\ write_ptr' = -1
       ELSE read_ptr' = After(read_ptr) /\ UNCHANGED write_ptr
    /\ elements_count' = elements_count - 1
    /\ lock' = {}
    /\ WakeAndGoto(IF elements_count' = max_table_size - 1 THEN Writers ELSE {},
                   r, "open")

\* What r has been given, as far as it is remembered.
Copied(r, line) == got' = IF strayed' THEN got ELSE [got EXCEPT ![r] = line]

\* Mistaken variant: advances first, then copies.
TakeAfter(r) == /\ Proceeds(r)
                /\ read_ptr # -1
                /\ Runs(r)
                /\ Copied(r, buffer_table[After(read_ptr)])
                /\ buffer_table' = [buffer_table EXCEPT ![After(read_ptr)] = NoLine]
                /\ Advance(r)

Take(r) == /\ Proceeds(r)
           /\ read_ptr # -1
           /\ Runs(r)
           /\ Copied(r, buffer_table[read_ptr])
           /\ buffer_table' = [buffer_table EXCEPT ![read_ptr] = NoLine]
           /\ Advance(r)

\* copy_to_user fails: device_read returns -1 with the lock held.
TakeFails(r) == /\ "badread" \in Events
                /\ Proceeds(r)
                /\ read_ptr # -1
                /\ Goto(r, "open")
                /\ Runs(r)
                /\ UNCHANGED <<ring, lock, got>>

\* buffer_table[-1] is whatever lies before the table: following it kills the
\* process in the critical section, or yields a line nobody wrote.
WildRead(r) == /\ Proceeds(r)
               /\ read_ptr = -1
               /\ Runs(r)
               /\ \/ /\ Goto(r, "dead")
                     /\ UNCHANGED <<ring, lock, got>>
                  \/ /\ Copied(r, NoLine)
                     /\ Advance(r)
                     /\ UNCHANGED buffer_table

\* The slot device_write chooses. It wraps only when slot 0 is not the next
\* to be read, so that a ring that is overfull leads past the last slot.
WriteSlot == IF read_ptr = -1 \/ (write_ptr = max_table_size - 1 /\ read_ptr # 0)
             THEN 0
             ELSE write_ptr + 1

MovePointers == /\ write_ptr' = WriteSlot
                /\ read_ptr' = IF read_ptr = -1 THEN 0 ELSE read_ptr

\* Mistaken variant: wakes readers at the second line.
CountAndWakeLate(w) ==
    /\ elements_count' = elements_count + 1
    /\ lock' = {}
    /\ WakeAndGoto(IF elements_count' = 2 THEN Readers ELSE {}, w, "open")

\* The end of device_write: the count and the wake-up.
CountAndWake(w) ==
    /\ elements_count' = elements_count + 1
    /\ lock' = {}
    /\ WakeAndGoto(IF elements_count' = 1 THEN Readers ELSE {}, w, "open")

Add(w, line) == /\ Proceeds(w)
                /\ WriteSlot \in Slots
                /\ MovePointers
                /\ buffer_table' = [buffer_table EXCEPT ![WriteSlot] = line]
                /\ CountAndWake(w)
                /\ Runs(w)
                /\ UNCHANGED got

\* copy_from_user fails once the pointers have moved, and the lock stays.
AddFails(w) == /\ "badwrite" \in Events
               /\ Proceeds(w)
               /\ WriteSlot \in Slots
               /\ MovePointers
               /\ Goto(w, "open")
               /\ Runs(w)
               /\ UNCHANGED <<buffer_table, elements_count, lock, got>>

\* The word past the table is followed: that kills the process in the critical
\* section, fails the copy, or writes to memory that is not the pipe's.
WildWrite(w) == /\ Proceeds(w)
                /\ WriteSlot \notin Slots
                /\ MovePointers
                /\ \/ /\ \E step \in {"dead", "open"} : Goto(w, step)
                      /\ UNCHANGED <<elements_count, lock>>
                   \/ CountAndWake(w)
                /\ Runs(w)
                /\ UNCHANGED <<buffer_table, got>>

ReaderStep(r) == Take(r) \/ TakeFails(r) \/ WildRead(r)

WriterStep(w) == (\E line \in Lines : Add(w, line)) \/ AddFails(w) \/ WildWrite(w)

Next == \/ Load
        \/ Unload
        \/ \E p \in Procs : \/ Open(p)
                            \/ Close(p)
                            \/ Fault(p)
                            \/ Call(p)
                            \/ Lock(p)
                            \/ Interrupted(p)
                            \/ Rouse(p)
                            \/ CheckCondition(p)
                            \/ Blocks(p)
        \/ \E r \in Readers : ReaderStep(r)
        \/ \E w \in Writers : WriterStep(w)

Spec == Init /\ [][Next]_vars
-----------------------------------------------------------------------------
\* At most one process holds the lock, and until a stale one strays into the
\* module whoever is past the lock holds it, whatever handler returned without
\* unlocking before (test.c:130-133 and 189-192).
MutualExclusion ==
    /\ \A p, q \in lock : p = q
    /\ ~strayed => \A p \in Procs \ stale : pc[p] \in {"first", "second"} => lock = {p}

\* A sleeper has nothing to do, though only the transitions to one line and to
\* max_table_size - 1 lines wake anybody, and however wrong the count and the
\* pointers have become (test.c:147 and 195). It is not true of those that
\* rmmod found asleep: they are forgotten. But a reload over them forgets nobody
\* else, until one of those that it left inside goes on in the new module.
NoLostWakeup ==
    ~strayed =>
      /\ \A r \in Readers \ stale : pc[r] \in Sleeping => elements_count <= 0
      /\ \A w \in Writers \ stale : pc[w] \in Sleeping => elements_count >= max_table_size

\* One reader and one writer at most, which is what the ring is good for: two
\* readers or writers woken together do not test the count again.
OneEach == \A p, q \in active : (p \in Readers <=> q \in Readers) => p = q

\* The slots from read_ptr to write_ptr, around the end of the table.
Span == IF read_ptr <= write_ptr
        THEN write_ptr - read_ptr + 1
        ELSE max_table_size - read_ptr + write_ptr + 1

\* Between one reader and one writer the two pointers always span exactly
\* elements_count slots, also after a reload over a call that has not gone on
\* yet. Except after a write that failed half-way, which leaves the lock held
\* so that nobody sees it.
PointersSpanCount ==
    OneEach /\ ~strayed =>
      \/ read_ptr = -1 /\ write_ptr = -1 /\ elements_count = 0
      \/ /\ {read_ptr, write_ptr} \subseteq Slots
         /\ elements_count = Span
      \/ \E w \in lock : pc[w] \notin {"first", "second"}

\* The slots from read_ptr on, elements_count of them, are the lines written
\* and not read, so that one reader and one writer have a first-in first-out
\* pipe. Nothing is claimed of more processes, nor of a module into which one
\* has strayed: the mapping is then constant.
SlotOf(i) == IF read_ptr + i - 1 < max_table_size
             THEN read_ptr + i - 1
             ELSE read_ptr + i - 1 - max_table_size
Unread == IF OneEach /\ ~strayed
          THEN [i \in 1 .. elements_count |-> buffer_table[SlotOf(i)]]
          ELSE <<>>
Received == IF OneEach THEN got ELSE [r \in Readers |-> NoLine]
Fifo == INSTANCE LineFifo WITH queue <- Unread, received <- Received
IsFifo == Fifo!Spec
=============================================================================
