------------------------------ MODULE LinePipe ------------------------------
(***************************************************************************)
(* The character device /dev/linepipe (operating_systems/proj3/linepipe.c).*)
(* Writers append lines to a linked list of at most N lines, readers take  *)
(* them from its head. A mutex guards the list; a reader that finds it     *)
(* empty and a writer that finds it full give the mutex up, sleep in a     *)
(* wait queue and take the mutex again when they are woken.                *)
(*                                                                         *)
(* A process runs dev_read or dev_write in these steps (pc):               *)
(*   closed, open     outside any call, without or with the file open      *)
(*   lock             in the first mutex_lock_interruptible                *)
(*   first            holds the mutex and tests list_size                  *)
(*   check            in wait_event_interruptible, about to test the       *)
(*                    condition, which it does without the mutex           *)
(*   asleep           in the wait queue, until woken or interrupted        *)
(*   relock           in the second mutex_lock_interruptible               *)
(*   second           holds the mutex again and does not test again        *)
(*   dead             took a line from an empty list: the kernel killed it *)
(*                    inside the critical section                          *)
(***************************************************************************)
EXTENDS Integers, Sequences

CONSTANTS Readers, Writers,  \* the processes that use the device
          Lines, NoLine,     \* contents of a line; "no line yet"
          N,                 \* the module parameter: size of the buffer
          Events,            \* what the environment may do, from AllEvents
          MaxList            \* bound of the model: no write starts when the
                             \* list holds this many lines

\* signal: a signal interrupts a sleep; nomem: kmalloc fails; badread and
\* badwrite: copying to or from the user fails; close: processes close and
\* reopen the file, and the module may be unloaded and loaded again.
AllEvents == {"signal", "nomem", "badread", "badwrite", "close"}

ASSUME UsersAssumption == Readers \cap Writers = {}
ASSUME SizeAssumption == N \in Nat \ {0} /\ MaxList \in Nat
ASSUME EventsAssumption == Events \subseteq AllEvents
ASSUME LinesAssumption == NoLine \notin Lines

VARIABLES loaded,     \* the module is in the kernel
          list,       \* buffer_list, the lines from head to tail
          list_size,  \* the counter the code keeps beside it
          mutex,      \* buffer_mutex_lock: the set of its holders
          pc,         \* where each process is
          got         \* the last line copied to each reader's buffer

vars == <<loaded, list, list_size, mutex, pc, got>>

Procs == Readers \cup Writers
Outside == {"closed", "open", "dead"}
Steps == Outside \cup {"lock", "first", "check", "asleep", "relock", "second"}

TypeOK ==
    /\ loaded \in BOOLEAN
    /\ list \in Seq(Lines)
    /\ list_size \in Nat
    /\ mutex \in SUBSET Procs
    /\ pc \in [Procs -> Steps]
    /\ got \in [Readers -> Lines \cup {NoLine}]

\* The module has been inserted and nobody has opened the device.
Init == /\ loaded = TRUE
        /\ list = <<>>
        /\ list_size = 0
        /\ mutex = {}
        /\ pc = [p \in Procs |-> "closed"]
        /\ got = [r \in Readers |-> NoLine]

-----------------------------------------------------------------------------
Goto(p, step) == pc' = [pc EXCEPT ![p] = step]

\* wake_up_interruptible on the queue where `sleepers` wait: each of them
\* that sleeps returns to the test of its condition. p moves on to `step`.
WakeAndGoto(sleepers, p, step) ==
    pc' = [q \in Procs |-> IF q = p THEN step
                           ELSE IF q \in sleepers /\ pc[q] = "asleep" THEN "check"
                           ELSE pc[q]]

Open(p) == /\ loaded
           /\ pc[p] = "closed"
           /\ Goto(p, "open")
           /\ UNCHANGED <<loaded, list, list_size, mutex, got>>

Close(p) == /\ "close" \in Events
            /\ pc[p] = "open"
            /\ Goto(p, "closed")
            /\ UNCHANGED <<loaded, list, list_size, mutex, got>>

\* rmmod, which the reference the open files hold on the module prevents.
\* linepipe_exit starts its walk from NULL, so it frees no line; the list is
\* unreachable afterwards all the same.
Unload == /\ "close" \in Events
          /\ loaded
          /\ \A p \in Procs : pc[p] \in {"closed", "dead"}
          /\ loaded' = FALSE
          /\ UNCHANGED <<list, list_size, mutex, pc, got>>

\* Mistaken variant: the counter survives the reload.
LoadKeepsSize == /\ ~loaded
                 /\ loaded' = TRUE
                 /\ list' = <<>>
                 /\ mutex' = {}
                 /\ UNCHANGED <<list_size, pc, got>>

\* insmod: linepipe_init resets the list, and the mutex is a fresh one.
Load == /\ ~loaded
        /\ loaded' = TRUE
        /\ list' = <<>>
        /\ list_size' = 0
        /\ mutex' = {}
        /\ UNCHANGED <<pc, got>>

\* A process enters dev_read or dev_write.
Call(p) == /\ pc[p] = "open"
           /\ p \in Writers => Len(list) < MaxList
           /\ Goto(p, "lock")
           /\ UNCHANGED <<loaded, list, list_size, mutex, got>>

\* mutex_lock_interruptible succeeds, the first or the second time.
Lock(p) == /\ pc[p] \in {"lock", "relock"}
           /\ mutex = {}
           /\ mutex' = {p}
           /\ Goto(p, IF pc[p] = "lock" THEN "first" ELSE "second")
           /\ UNCHANGED <<loaded, list, list_size, got>>

\* A signal ends either mutex_lock_interruptible or the wait: -ERESTARTSYS.
Interrupted(p) == /\ "signal" \in Events
                  /\ pc[p] \in {"lock", "relock", "asleep"}
                  /\ Goto(p, "open")
                  /\ UNCHANGED <<loaded, list, list_size, mutex, got>>

\* Mistaken variants: one condition off by one each.
ConditionLax(p) == IF p \in Readers THEN list_size > 0 ELSE list_size <= N

ConditionEmpty(p) == IF p \in Readers THEN list_size >= 0 ELSE list_size < N

\* wait_event_interruptible tests its condition: a reader waits for
\* list_size > 0, a writer for list_size < max_buffer_size.
Condition(p) == IF p \in Readers THEN list_size > 0 ELSE list_size < N

CheckCondition(p) == /\ pc[p] = "check"
                     /\ Goto(p, IF Condition(p) THEN "relock" ELSE "asleep")
                     /\ UNCHANGED <<loaded, list, list_size, mutex, got>>
-----------------------------------------------------------------------------
\* dev_read, in the critical section: no line, so give the mutex up and wait.
ReadBlocks(r) == /\ pc[r] = "first"
                 /\ list_size = 0
                 /\ mutex' = {}
                 /\ Goto(r, "check")
                 /\ UNCHANGED <<loaded, list, list_size, got>>

\* A reader goes for the head of the list. After a wait it does so without
\* looking at list_size again.
Reading(r) == pc[r] = "second" \/ (pc[r] = "first" /\ list_size # 0)

\* Mistaken variant: writers are woken at N lines and not at N - 1.
TakeWakesLate(r) == /\ Reading(r)
                    /\ list # <<>>
                    /\ got' = [got EXCEPT ![r] = Head(list)]
                    /\ list' = Tail(list)
                    /\ list_size' = list_size - 1
                    /\ mutex' = {}
                    /\ WakeAndGoto(IF list_size' = N THEN Writers ELSE {}, r, "open")
                    /\ UNCHANGED loaded

Take(r) == /\ Reading(r)
           /\ list # <<>>
           /\ got' = [got EXCEPT ![r] = Head(list)]
           /\ list' = Tail(list)
           /\ list_size' = list_size - 1
           /\ mutex' = {}
           /\ WakeAndGoto(IF list_size' = N - 1 THEN Writers ELSE {}, r, "open")
           /\ UNCHANGED loaded

\* copy_to_user fails: dev_read returns 0 and leaves the mutex locked.
TakeFails(r) == /\ "badread" \in Events
                /\ Reading(r)
                /\ list # <<>>
                /\ Goto(r, "open")
                /\ UNCHANGED <<loaded, list, list_size, mutex, got>>

\* current_buff is NULL and strlen(current_buff->line) kills the process.
TakeNull(r) == /\ Reading(r)
               /\ list = <<>>
               /\ Goto(r, "dead")
               /\ UNCHANGED <<loaded, list, list_size, mutex, got>>

\* dev_write, in the critical section: the buffer is exactly full.
WriteBlocks(w) == /\ pc[w] = "first"
                  /\ list_size = N
                  /\ mutex' = {}
                  /\ Goto(w, "check")
                  /\ UNCHANGED <<loaded, list, list_size, got>>

\* A writer goes on to append, after a wait without a second look.
Writing(w) == pc[w] = "second" \/ (pc[w] = "first" /\ list_size # N)

\* Mistaken variants: the line goes to the head; the readers are not woken.
AddFirst(w, line) ==
    /\ Writing(w)
    /\ list' = <<line>> \o list
    /\ list_size' = list_size + 1
    /\ mutex' = {}
    /\ WakeAndGoto(IF list_size = 0 THEN Readers ELSE {}, w, "open")
    /\ UNCHANGED <<loaded, got>>

AddQuietly(w, line) ==
    /\ Writing(w)
    /\ list' = Append(list, line)
    /\ list_size' = list_size + 1
    /\ mutex' = {}
    /\ Goto(w, "open")
    /\ UNCHANGED <<loaded, got>>

\* Only the line that ends an empty list wakes the readers.
Add(w, line) ==
    /\ Writing(w)
    /\ list' = Append(list, line)
    /\ list_size' = list_size + 1
    /\ mutex' = {}
    /\ WakeAndGoto(IF list_size = 0 THEN Readers ELSE {}, w, "open")
    /\ UNCHANGED <<loaded, got>>

\* Either kmalloc or copy_from_user fails: the write gives up and unlocks.
AddFails(w) == /\ Events \cap {"nomem", "badwrite"} # {}
               /\ Writing(w)
               /\ mutex' = {}
               /\ Goto(w, "open")
               /\ UNCHANGED <<loaded, list, list_size, got>>

ReaderStep(r) == \/ ReadBlocks(r)
                 \/ Take(r)
                 \/ TakeFails(r)
                 \/ TakeNull(r)

WriterStep(w) == \/ WriteBlocks(w)
                 \/ \E line \in Lines : Add(w, line)
                 \/ AddFails(w)

Next == \/ Load
        \/ Unload
        \/ \E p \in Procs : \/ Open(p)
                            \/ Close(p)
                            \/ Call(p)
                            \/ Lock(p)
                            \/ Interrupted(p)
                            \/ CheckCondition(p)
        \/ \E r \in Readers : ReaderStep(r)
        \/ \E w \in Writers : WriterStep(w)

Spec == Init /\ [][Next]_vars

\* consumer.c and producer.c call again and again, a running process goes
\* on, and the kernel's mutex is granted in the order of the requests.
\* Nothing obliges the environment to send signals, fail or close.
Fairness ==
    /\ \A p \in Procs : /\ WF_vars(Open(p))
                        /\ WF_vars(Call(p))
                        /\ SF_vars(Lock(p))
                        /\ WF_vars(CheckCondition(p))
    /\ \A r \in Readers : WF_vars(ReadBlocks(r) \/ Take(r))
    /\ \A w \in Writers : WF_vars(WriteBlocks(w) \/ \E line \in Lines : Add(w, line))

FairSpec == Spec /\ Fairness
-----------------------------------------------------------------------------
\* At most one process is in a critical section, and while it is the mutex
\* is its own: two processes never change the list together, whatever error
\* path, signal or reload came before.
MutualExclusion ==
    /\ \A p, q \in mutex : p = q
    /\ \A p \in Procs : pc[p] \in {"first", "second"} => mutex = {p}

\* The counter and the list, which every handler updates apart, agree
\* (linepipe.c:131-134 and 179-190).
SizeCountsList == list_size = Len(list)

\* No sleeper has missed its wake-up: a process in a wait queue has nothing
\* to do there. dev_read wakes writers only when it leaves N - 1 lines and
\* dev_write wakes readers only when it ends an empty list.
NoLostWakeup ==
    /\ \A r \in Readers : pc[r] = "asleep" => list_size = 0
    /\ \A w \in Writers : pc[w] = "asleep" => list_size >= N

\* Lines leave the pipe once each and in the order of the writes, whatever
\* fails and whoever dies.
Fifo == INSTANCE LineFifo WITH queue <- list, received <- got
IsFifo == Fifo!Spec

\* The buffer never holds more lines than the parameter N allows. True of one
\* writer only: two that were woken together both append (linepipe.c:148-190).
CapacityRespected == list_size <= N

\* No reader takes a line from an empty list. True of one reader only: two
\* that were woken together both take (linepipe.c:113-126).
NoNullRead == \A r \in Readers : pc[r] # "dead"

\* A call that has begun comes to an end: nobody sleeps or waits for ever.
InCall(p) == pc[p] \notin Outside
CallsComplete == \A p \in Procs : InCall(p) ~> ~InCall(p)
=============================================================================
