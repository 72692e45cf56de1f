--------------------------- MODULE LinePipeProofs ---------------------------
(***************************************************************************)
(* Theorems of LinePipe, for every number of readers, writers and lines,   *)
(* every buffer size and every choice of what the environment may do.      *)
(*                                                                         *)
(* Invariant below is inductive. Its parts need each other: that nobody    *)
(* sleeps through a wake-up rests on the counter agreeing with the list,   *)
(* that on each critical section having the mutex to itself, and both on   *)
(* nobody being inside a call when the module is reloaded.                 *)
(***************************************************************************)
EXTENDS LinePipe, TLAPS

\* While the module is out of the kernel nobody is inside one of its calls.
UnloadedIsQuiet == ~loaded => \A p \in Procs : pc[p] \in {"closed", "dead"}

Invariant == /\ TypeOK
             /\ MutualExclusion
             /\ SizeCountsList
             /\ NoLostWakeup
             /\ UnloadedIsQuiet

\* One writer: it appends only below N, because once it has seen room nobody
\* else takes it.
RoomStays == /\ list_size <= N
             /\ \A w \in Writers : pc[w] \in {"relock", "second"} => list_size < N

\* One reader: once it has seen a line nobody else takes it.
LineStays == \A r \in Readers : /\ pc[r] # "dead"
                                /\ pc[r] \in {"relock", "second"} => list_size > 0

-----------------------------------------------------------------------------
\* The initial state satisfies the invariant.
LEMMA InitInvariant == Init => Invariant
  BY SizeAssumption
  DEF Init, Invariant, TypeOK, MutualExclusion, SizeCountsList, NoLostWakeup,
      UnloadedIsQuiet, Steps, Outside, Procs

\* Every step keeps the types (linepipe.c: list_size never goes negative,
\* because a reader that finds no line dies before it counts down).
LEMMA StepTypeOK == Invariant /\ [Next]_vars => TypeOK'
<1> SUFFICES ASSUME Invariant, [Next]_vars PROVE TypeOK'
  OBVIOUS
<1> USE DEF TypeOK, Steps, Outside, Procs
<1>0. /\ TypeOK
      /\ SizeCountsList
  BY DEF Invariant
<1>1. CASE Load
  BY <1>0, <1>1 DEF Load
<1>2. CASE Unload
  BY <1>0, <1>2 DEF Unload
<1>3. ASSUME NEW p \in Procs, Open(p) PROVE TypeOK'
  BY <1>0, <1>3 DEF Open, Goto
<1>4. ASSUME NEW p \in Procs, Close(p) PROVE TypeOK'
  BY <1>0, <1>4 DEF Close, Goto
<1>5. ASSUME NEW p \in Procs, Call(p) PROVE TypeOK'
  BY <1>0, <1>5 DEF Call, Goto
<1>6. ASSUME NEW p \in Procs, Lock(p) PROVE TypeOK'
  BY <1>0, <1>6 DEF Lock, Goto
<1>7. ASSUME NEW p \in Procs, Interrupted(p) PROVE TypeOK'
  BY <1>0, <1>7 DEF Interrupted, Goto
<1>8. ASSUME NEW p \in Procs, CheckCondition(p) PROVE TypeOK'
  BY <1>0, <1>8 DEF CheckCondition, Goto
<1>9. ASSUME NEW r \in Readers, ReadBlocks(r) PROVE TypeOK'
  BY <1>0, <1>9 DEF ReadBlocks, Goto
<1>10. ASSUME NEW r \in Readers, Take(r) PROVE TypeOK'
  <2>1. /\ Head(list) \in Lines
        /\ Tail(list) \in Seq(Lines)
        /\ list_size - 1 \in Nat
    BY <1>0, <1>10 DEF Take, SizeCountsList
  <2>2. pc' \in [Procs -> Steps]
    BY <1>0, <1>10 DEF Take, WakeAndGoto
  <2> QED BY <1>0, <1>10, <2>1, <2>2 DEF Take
<1>11. ASSUME NEW r \in Readers, TakeFails(r) PROVE TypeOK'
  BY <1>0, <1>11 DEF TakeFails, Goto
<1>12. ASSUME NEW r \in Readers, TakeNull(r) PROVE TypeOK'
  BY <1>0, <1>12 DEF TakeNull, Goto
<1>13. ASSUME NEW w \in Writers, WriteBlocks(w) PROVE TypeOK'
  BY <1>0, <1>13 DEF WriteBlocks, Goto
<1>14. ASSUME NEW w \in Writers, NEW line \in Lines, Add(w, line) PROVE TypeOK'
  <2>1. pc' \in [Procs -> Steps]
    BY <1>0, <1>14 DEF Add, WakeAndGoto
  <2> QED BY <1>0, <1>14, <2>1 DEF Add
<1>15. ASSUME NEW w \in Writers, AddFails(w) PROVE TypeOK'
  BY <1>0, <1>15 DEF AddFails, Goto
<1>16. CASE UNCHANGED vars
  BY <1>0, <1>16 DEF vars
<1> QED
  BY <1>1, <1>2, <1>3, <1>4, <1>5, <1>6, <1>7, <1>8, <1>9, <1>10, <1>11,
     <1>12, <1>13, <1>14, <1>15, <1>16
  DEF Next, ReaderStep, WriterStep
\* A process enters a critical section only from a free mutex, and every exit
\* but the leaking one frees it.
LEMMA StepMutualExclusion ==
    Invariant /\ [Next]_vars => MutualExclusion'
<1> SUFFICES ASSUME Invariant, [Next]_vars PROVE MutualExclusion'
  OBVIOUS
<1> USE DEF MutualExclusion, TypeOK, Procs, Steps, Outside
<1>0. TypeOK /\ MutualExclusion /\ UnloadedIsQuiet
  BY DEF Invariant
<1>1. CASE Load
  BY <1>0, <1>1, SizeAssumption DEF Load, UnloadedIsQuiet
<1>2. CASE Unload
  BY <1>0, <1>2 DEF Unload
<1>3. ASSUME NEW p \in Procs, Open(p) PROVE MutualExclusion'
  BY <1>0, <1>3, SizeAssumption DEF Open, Goto
<1>4. ASSUME NEW p \in Procs, Close(p) PROVE MutualExclusion'
  BY <1>0, <1>4, SizeAssumption DEF Close, Goto
<1>5. ASSUME NEW p \in Procs, Call(p) PROVE MutualExclusion'
  BY <1>0, <1>5, SizeAssumption DEF Call, Goto
<1>6. ASSUME NEW p \in Procs, Lock(p) PROVE MutualExclusion'
  BY <1>0, <1>6, SizeAssumption DEF Lock, Goto
<1>7. ASSUME NEW p \in Procs, Interrupted(p) PROVE MutualExclusion'
  BY <1>0, <1>7, SizeAssumption DEF Interrupted, Goto
<1>8. ASSUME NEW p \in Procs, CheckCondition(p) PROVE MutualExclusion'
  BY <1>0, <1>8, SizeAssumption, UsersAssumption DEF CheckCondition, Goto, Condition
<1>9. ASSUME NEW r \in Readers, ReadBlocks(r) PROVE MutualExclusion'
  BY <1>0, <1>9, SizeAssumption DEF ReadBlocks, Goto
<1>10. ASSUME NEW r \in Readers, Take(r) PROVE MutualExclusion'
  BY <1>0, <1>10, SizeAssumption, UsersAssumption DEF Take, SizeCountsList, Reading, WakeAndGoto
<1>11. ASSUME NEW r \in Readers, TakeFails(r) PROVE MutualExclusion'
  BY <1>0, <1>11, SizeAssumption DEF TakeFails, Goto, Reading
<1>12. ASSUME NEW r \in Readers, TakeNull(r) PROVE MutualExclusion'
  BY <1>0, <1>12, SizeAssumption DEF TakeNull, SizeCountsList, Goto, Reading
<1>13. ASSUME NEW w \in Writers, WriteBlocks(w) PROVE MutualExclusion'
  BY <1>0, <1>13, SizeAssumption DEF WriteBlocks, Goto
<1>14. ASSUME NEW w \in Writers, NEW line \in Lines, Add(w, line) PROVE MutualExclusion'
  BY <1>0, <1>14, SizeAssumption, UsersAssumption DEF Add, SizeCountsList, Writing, WakeAndGoto
<1>15. ASSUME NEW w \in Writers, AddFails(w) PROVE MutualExclusion'
  BY <1>0, <1>15, SizeAssumption DEF AddFails, Goto, Writing
<1>16. CASE UNCHANGED vars
  BY <1>0, <1>16 DEF vars
<1> QED
  BY <1>1, <1>2, <1>3, <1>4, <1>5, <1>6, <1>7, <1>8, <1>9, <1>10, <1>11,
     <1>12, <1>13, <1>14, <1>15, <1>16
  DEF Next, ReaderStep, WriterStep

\* The counter moves with the list.
LEMMA StepSizeCountsList ==
    Invariant /\ [Next]_vars => SizeCountsList'
<1> SUFFICES ASSUME Invariant, [Next]_vars PROVE SizeCountsList'
  OBVIOUS
<1> USE DEF SizeCountsList, TypeOK
<1>0. TypeOK /\ SizeCountsList
  BY DEF Invariant
<1>1. CASE Load
  BY <1>0, <1>1, SizeAssumption DEF Load, UnloadedIsQuiet
<1>2. CASE Unload
  BY <1>0, <1>2 DEF Unload
<1>3. ASSUME NEW p \in Procs, Open(p) PROVE SizeCountsList'
  BY <1>0, <1>3, SizeAssumption DEF Open, Goto
<1>4. ASSUME NEW p \in Procs, Close(p) PROVE SizeCountsList'
  BY <1>0, <1>4, SizeAssumption DEF Close, Goto
<1>5. ASSUME NEW p \in Procs, Call(p) PROVE SizeCountsList'
  BY <1>0, <1>5, SizeAssumption DEF Call, Goto
<1>6. ASSUME NEW p \in Procs, Lock(p) PROVE SizeCountsList'
  BY <1>0, <1>6, SizeAssumption DEF Lock, Goto
<1>7. ASSUME NEW p \in Procs, Interrupted(p) PROVE SizeCountsList'
  BY <1>0, <1>7, SizeAssumption DEF Interrupted, Goto
<1>8. ASSUME NEW p \in Procs, CheckCondition(p) PROVE SizeCountsList'
  BY <1>0, <1>8, SizeAssumption, UsersAssumption DEF CheckCondition, Goto, Condition
<1>9. ASSUME NEW r \in Readers, ReadBlocks(r) PROVE SizeCountsList'
  BY <1>0, <1>9, SizeAssumption DEF ReadBlocks, Goto
<1>10. ASSUME NEW r \in Readers, Take(r) PROVE SizeCountsList'
  BY <1>0, <1>10, SizeAssumption, UsersAssumption DEF Take, SizeCountsList, Reading, WakeAndGoto
<1>11. ASSUME NEW r \in Readers, TakeFails(r) PROVE SizeCountsList'
  BY <1>0, <1>11, SizeAssumption DEF TakeFails, Goto, Reading
<1>12. ASSUME NEW r \in Readers, TakeNull(r) PROVE SizeCountsList'
  BY <1>0, <1>12, SizeAssumption DEF TakeNull, SizeCountsList, Goto, Reading
<1>13. ASSUME NEW w \in Writers, WriteBlocks(w) PROVE SizeCountsList'
  BY <1>0, <1>13, SizeAssumption DEF WriteBlocks, Goto
<1>14. ASSUME NEW w \in Writers, NEW line \in Lines, Add(w, line) PROVE SizeCountsList'
  BY <1>0, <1>14, SizeAssumption, UsersAssumption DEF Add, SizeCountsList, Writing, WakeAndGoto
<1>15. ASSUME NEW w \in Writers, AddFails(w) PROVE SizeCountsList'
  BY <1>0, <1>15, SizeAssumption DEF AddFails, Goto, Writing
<1>16. CASE UNCHANGED vars
  BY <1>0, <1>16 DEF vars
<1> QED
  BY <1>1, <1>2, <1>3, <1>4, <1>5, <1>6, <1>7, <1>8, <1>9, <1>10, <1>11,
     <1>12, <1>13, <1>14, <1>15, <1>16
  DEF Next, ReaderStep, WriterStep

\* rmmod happens only when every file is closed, and none opens after it.
LEMMA StepUnloadedIsQuiet ==
    Invariant /\ [Next]_vars => UnloadedIsQuiet'
<1> SUFFICES ASSUME Invariant, [Next]_vars PROVE UnloadedIsQuiet'
  OBVIOUS
<1> USE DEF UnloadedIsQuiet, TypeOK, Procs, Steps, Outside
<1>0. TypeOK /\ UnloadedIsQuiet
  BY DEF Invariant
<1>1. CASE Load
  BY <1>0, <1>1, SizeAssumption DEF Load, UnloadedIsQuiet
<1>2. CASE Unload
  BY <1>0, <1>2 DEF Unload
<1>3. ASSUME NEW p \in Procs, Open(p) PROVE UnloadedIsQuiet'
  BY <1>0, <1>3, SizeAssumption DEF Open, Goto
<1>4. ASSUME NEW p \in Procs, Close(p) PROVE UnloadedIsQuiet'
  BY <1>0, <1>4, SizeAssumption DEF Close, Goto
<1>5. ASSUME NEW p \in Procs, Call(p) PROVE UnloadedIsQuiet'
  BY <1>0, <1>5, SizeAssumption DEF Call, Goto
<1>6. ASSUME NEW p \in Procs, Lock(p) PROVE UnloadedIsQuiet'
  BY <1>0, <1>6, SizeAssumption DEF Lock, Goto
<1>7. ASSUME NEW p \in Procs, Interrupted(p) PROVE UnloadedIsQuiet'
  BY <1>0, <1>7, SizeAssumption DEF Interrupted, Goto
<1>8. ASSUME NEW p \in Procs, CheckCondition(p) PROVE UnloadedIsQuiet'
  BY <1>0, <1>8, SizeAssumption, UsersAssumption DEF CheckCondition, Goto, Condition
<1>9. ASSUME NEW r \in Readers, ReadBlocks(r) PROVE UnloadedIsQuiet'
  BY <1>0, <1>9, SizeAssumption DEF ReadBlocks, Goto
<1>10. ASSUME NEW r \in Readers, Take(r) PROVE UnloadedIsQuiet'
  BY <1>0, <1>10, SizeAssumption, UsersAssumption DEF Take, SizeCountsList, Reading, WakeAndGoto
<1>11. ASSUME NEW r \in Readers, TakeFails(r) PROVE UnloadedIsQuiet'
  BY <1>0, <1>11, SizeAssumption DEF TakeFails, Goto, Reading
<1>12. ASSUME NEW r \in Readers, TakeNull(r) PROVE UnloadedIsQuiet'
  BY <1>0, <1>12, SizeAssumption DEF TakeNull, SizeCountsList, Goto, Reading
<1>13. ASSUME NEW w \in Writers, WriteBlocks(w) PROVE UnloadedIsQuiet'
  BY <1>0, <1>13, SizeAssumption DEF WriteBlocks, Goto
<1>14. ASSUME NEW w \in Writers, NEW line \in Lines, Add(w, line) PROVE UnloadedIsQuiet'
  BY <1>0, <1>14, SizeAssumption, UsersAssumption DEF Add, SizeCountsList, Writing, WakeAndGoto
<1>15. ASSUME NEW w \in Writers, AddFails(w) PROVE UnloadedIsQuiet'
  BY <1>0, <1>15, SizeAssumption DEF AddFails, Goto, Writing
<1>16. CASE UNCHANGED vars
  BY <1>0, <1>16 DEF vars
<1> QED
  BY <1>1, <1>2, <1>3, <1>4, <1>5, <1>6, <1>7, <1>8, <1>9, <1>10, <1>11,
     <1>12, <1>13, <1>14, <1>15, <1>16
  DEF Next, ReaderStep, WriterStep

\* The two boundary tests of dev_read and dev_write wake whoever may go on.
LEMMA StepNoLostWakeup ==
    Invariant /\ [Next]_vars => NoLostWakeup'
<1> SUFFICES ASSUME Invariant, [Next]_vars PROVE NoLostWakeup'
  OBVIOUS
<1> USE DEF NoLostWakeup, TypeOK, Procs, Steps, Outside
<1>0. TypeOK /\ SizeCountsList /\ NoLostWakeup /\ UnloadedIsQuiet
  BY DEF Invariant
<1>1. CASE Load
  BY <1>0, <1>1, SizeAssumption DEF Load, UnloadedIsQuiet
<1>2. CASE Unload
  BY <1>0, <1>2 DEF Unload
<1>3. ASSUME NEW p \in Procs, Open(p) PROVE NoLostWakeup'
  BY <1>0, <1>3, SizeAssumption DEF Open, Goto
<1>4. ASSUME NEW p \in Procs, Close(p) PROVE NoLostWakeup'
  BY <1>0, <1>4, SizeAssumption DEF Close, Goto
<1>5. ASSUME NEW p \in Procs, Call(p) PROVE NoLostWakeup'
  BY <1>0, <1>5, SizeAssumption DEF Call, Goto
<1>6. ASSUME NEW p \in Procs, Lock(p) PROVE NoLostWakeup'
  BY <1>0, <1>6, SizeAssumption DEF Lock, Goto
<1>7. ASSUME NEW p \in Procs, Interrupted(p) PROVE NoLostWakeup'
  BY <1>0, <1>7, SizeAssumption DEF Interrupted, Goto
<1>8. ASSUME NEW p \in Procs, CheckCondition(p) PROVE NoLostWakeup'
  BY <1>0, <1>8, SizeAssumption, UsersAssumption DEF CheckCondition, Goto, Condition
<1>9. ASSUME NEW r \in Readers, ReadBlocks(r) PROVE NoLostWakeup'
  BY <1>0, <1>9, SizeAssumption DEF ReadBlocks, Goto
<1>10. ASSUME NEW r \in Readers, Take(r) PROVE NoLostWakeup'
  BY <1>0, <1>10, SizeAssumption, UsersAssumption DEF Take, SizeCountsList, Reading, WakeAndGoto
<1>11. ASSUME NEW r \in Readers, TakeFails(r) PROVE NoLostWakeup'
  BY <1>0, <1>11, SizeAssumption DEF TakeFails, Goto, Reading
<1>12. ASSUME NEW r \in Readers, TakeNull(r) PROVE NoLostWakeup'
  BY <1>0, <1>12, SizeAssumption DEF TakeNull, SizeCountsList, Goto, Reading
<1>13. ASSUME NEW w \in Writers, WriteBlocks(w) PROVE NoLostWakeup'
  BY <1>0, <1>13, SizeAssumption DEF WriteBlocks, Goto
<1>14. ASSUME NEW w \in Writers, NEW line \in Lines, Add(w, line) PROVE NoLostWakeup'
  BY <1>0, <1>14, SizeAssumption, UsersAssumption DEF Add, SizeCountsList, Writing, WakeAndGoto
<1>15. ASSUME NEW w \in Writers, AddFails(w) PROVE NoLostWakeup'
  BY <1>0, <1>15, SizeAssumption DEF AddFails, Goto, Writing
<1>16. CASE UNCHANGED vars
  BY <1>0, <1>16 DEF vars
<1> QED
  BY <1>1, <1>2, <1>3, <1>4, <1>5, <1>6, <1>7, <1>8, <1>9, <1>10, <1>11,
     <1>12, <1>13, <1>14, <1>15, <1>16
  DEF Next, ReaderStep, WriterStep

-----------------------------------------------------------------------------
\* The invariant holds in every reachable state.
THEOREM InvariantHolds == Spec => []Invariant
<1>1. Init => Invariant
  BY InitInvariant
<1>2. Invariant /\ [Next]_vars => Invariant'
  BY StepTypeOK, StepMutualExclusion, StepSizeCountsList, StepNoLostWakeup,
     StepUnloadedIsQuiet
  DEF Invariant
<1> QED
  BY <1>1, <1>2, PTL DEF Spec

\* dev_read and dev_write keep their variables in range.
THEOREM TypeCorrect == Spec => []TypeOK
  BY InvariantHolds, PTL DEF Invariant

\* buffer_mutex_lock keeps the critical sections apart.
THEOREM Exclusion == Spec => []MutualExclusion
  BY InvariantHolds, PTL DEF Invariant

\* list_size is the number of lines in the list.
THEOREM CounterAgrees == Spec => []SizeCountsList
  BY InvariantHolds, PTL DEF Invariant

\* No reader sleeps beside a line and no writer beside room, for any number
\* of both, although each handler wakes at one value of the counter only.
THEOREM WakeupsArrive == Spec => []NoLostWakeup
  BY InvariantHolds, PTL DEF Invariant

\* With one writer, room that has been seen stays.
LEMMA StepRoomStays ==
    (\E x : Writers = {x}) /\ Invariant /\ RoomStays /\ [Next]_vars => RoomStays'
<1> SUFFICES ASSUME (\E x : Writers = {x}) /\ Invariant /\ RoomStays, [Next]_vars PROVE RoomStays'
  OBVIOUS
<1> USE DEF RoomStays, TypeOK, Procs, Steps, Outside
<1>0. (\E x : Writers = {x}) /\ TypeOK /\ SizeCountsList /\ UnloadedIsQuiet /\ RoomStays
  BY DEF Invariant
<1>1. CASE Load
  BY <1>0, <1>1, SizeAssumption DEF Load, UnloadedIsQuiet
<1>2. CASE Unload
  BY <1>0, <1>2 DEF Unload
<1>3. ASSUME NEW p \in Procs, Open(p) PROVE RoomStays'
  BY <1>0, <1>3, SizeAssumption DEF Open, Goto
<1>4. ASSUME NEW p \in Procs, Close(p) PROVE RoomStays'
  BY <1>0, <1>4, SizeAssumption DEF Close, Goto
<1>5. ASSUME NEW p \in Procs, Call(p) PROVE RoomStays'
  BY <1>0, <1>5, SizeAssumption DEF Call, Goto
<1>6. ASSUME NEW p \in Procs, Lock(p) PROVE RoomStays'
  BY <1>0, <1>6, SizeAssumption DEF Lock, Goto
<1>7. ASSUME NEW p \in Procs, Interrupted(p) PROVE RoomStays'
  BY <1>0, <1>7, SizeAssumption DEF Interrupted, Goto
<1>8. ASSUME NEW p \in Procs, CheckCondition(p) PROVE RoomStays'
  BY <1>0, <1>8, SizeAssumption, UsersAssumption DEF CheckCondition, Goto, Condition
<1>9. ASSUME NEW r \in Readers, ReadBlocks(r) PROVE RoomStays'
  BY <1>0, <1>9, SizeAssumption DEF ReadBlocks, Goto
<1>10. ASSUME NEW r \in Readers, Take(r) PROVE RoomStays'
  BY <1>0, <1>10, SizeAssumption, UsersAssumption DEF Take, SizeCountsList, Reading, WakeAndGoto
<1>11. ASSUME NEW r \in Readers, TakeFails(r) PROVE RoomStays'
  BY <1>0, <1>11, SizeAssumption DEF TakeFails, Goto, Reading
<1>12. ASSUME NEW r \in Readers, TakeNull(r) PROVE RoomStays'
  BY <1>0, <1>12, SizeAssumption DEF TakeNull, SizeCountsList, Goto, Reading
<1>13. ASSUME NEW w \in Writers, WriteBlocks(w) PROVE RoomStays'
  BY <1>0, <1>13, SizeAssumption DEF WriteBlocks, Goto
<1>14. ASSUME NEW w \in Writers, NEW line \in Lines, Add(w, line) PROVE RoomStays'
  <2>1. list_size < N
    BY <1>0, <1>14, SizeAssumption DEF Add, Writing
  <2>2. \A v \in Writers : v = w
    BY <1>0
  <2>3. pc'[w] = "open"
    BY <1>14 DEF Add, WakeAndGoto
  <2> QED BY <1>0, <1>14, <2>1, <2>2, <2>3, SizeAssumption DEF Add
<1>15. ASSUME NEW w \in Writers, AddFails(w) PROVE RoomStays'
  BY <1>0, <1>15, SizeAssumption DEF AddFails, Goto, Writing
<1>16. CASE UNCHANGED vars
  BY <1>0, <1>16 DEF vars
<1> QED
  BY <1>1, <1>2, <1>3, <1>4, <1>5, <1>6, <1>7, <1>8, <1>9, <1>10, <1>11,
     <1>12, <1>13, <1>14, <1>15, <1>16
  DEF Next, ReaderStep, WriterStep

\* With one reader, a line that has been seen stays.
LEMMA StepLineStays ==
    (\E x : Readers = {x}) /\ Invariant /\ LineStays /\ [Next]_vars => LineStays'
<1> SUFFICES ASSUME (\E x : Readers = {x}) /\ Invariant /\ LineStays, [Next]_vars PROVE LineStays'
  OBVIOUS
<1> USE DEF LineStays, TypeOK, Procs, Steps, Outside
<1>0. (\E x : Readers = {x}) /\ TypeOK /\ SizeCountsList /\ UnloadedIsQuiet /\ LineStays
  BY DEF Invariant
<1>1. CASE Load
  BY <1>0, <1>1, SizeAssumption DEF Load, UnloadedIsQuiet
<1>2. CASE Unload
  BY <1>0, <1>2 DEF Unload
<1>3. ASSUME NEW p \in Procs, Open(p) PROVE LineStays'
  BY <1>0, <1>3, SizeAssumption DEF Open, Goto
<1>4. ASSUME NEW p \in Procs, Close(p) PROVE LineStays'
  BY <1>0, <1>4, SizeAssumption DEF Close, Goto
<1>5. ASSUME NEW p \in Procs, Call(p) PROVE LineStays'
  BY <1>0, <1>5, SizeAssumption DEF Call, Goto
<1>6. ASSUME NEW p \in Procs, Lock(p) PROVE LineStays'
  BY <1>0, <1>6, SizeAssumption DEF Lock, Goto
<1>7. ASSUME NEW p \in Procs, Interrupted(p) PROVE LineStays'
  BY <1>0, <1>7, SizeAssumption DEF Interrupted, Goto
<1>8. ASSUME NEW p \in Procs, CheckCondition(p) PROVE LineStays'
  BY <1>0, <1>8, SizeAssumption, UsersAssumption DEF CheckCondition, Goto, Condition
<1>9. ASSUME NEW r \in Readers, ReadBlocks(r) PROVE LineStays'
  BY <1>0, <1>9, SizeAssumption DEF ReadBlocks, Goto
<1>10. ASSUME NEW r \in Readers, Take(r) PROVE LineStays'
  BY <1>0, <1>10, SizeAssumption, UsersAssumption DEF Take, SizeCountsList, Reading, WakeAndGoto
<1>11. ASSUME NEW r \in Readers, TakeFails(r) PROVE LineStays'
  BY <1>0, <1>11, SizeAssumption DEF TakeFails, Goto, Reading
<1>12. ASSUME NEW r \in Readers, TakeNull(r) PROVE LineStays'
  BY <1>0, <1>12, SizeAssumption DEF TakeNull, SizeCountsList, Goto, Reading
<1>13. ASSUME NEW w \in Writers, WriteBlocks(w) PROVE LineStays'
  BY <1>0, <1>13, SizeAssumption DEF WriteBlocks, Goto
<1>14. ASSUME NEW w \in Writers, NEW line \in Lines, Add(w, line) PROVE LineStays'
  <2>1. \A r \in Readers : \/ pc'[r] = pc[r]
                           \/ pc[r] = "asleep" /\ pc'[r] = "check"
    BY <1>0, <1>14, UsersAssumption DEF Add, WakeAndGoto
  <2> QED BY <1>0, <1>14, <2>1 DEF Add
<1>15. ASSUME NEW w \in Writers, AddFails(w) PROVE LineStays'
  BY <1>0, <1>15, SizeAssumption DEF AddFails, Goto, Writing
<1>16. CASE UNCHANGED vars
  BY <1>0, <1>16 DEF vars
<1> QED
  BY <1>1, <1>2, <1>3, <1>4, <1>5, <1>6, <1>7, <1>8, <1>9, <1>10, <1>11,
     <1>12, <1>13, <1>14, <1>15, <1>16
  DEF Next, ReaderStep, WriterStep

\* One writer never overfills the pipe, with any number of readers.
THEOREM OneWriterFits ==
    ASSUME \E x : Writers = {x}
    PROVE  Spec => []CapacityRespected
<1>1. Init => RoomStays
  BY SizeAssumption DEF Init, RoomStays, Procs
<1>2. Invariant /\ RoomStays /\ [Next]_vars => RoomStays'
  BY StepRoomStays
<1>3. RoomStays => CapacityRespected
  BY DEF RoomStays, CapacityRespected
<1> QED
  BY <1>1, <1>2, <1>3, InvariantHolds, PTL DEF Spec

\* One reader never reads from an empty pipe, with any number of writers.
THEOREM OneReaderFinds ==
    ASSUME \E x : Readers = {x}
    PROVE  Spec => []NoNullRead
<1>1. Init => LineStays
  BY DEF Init, LineStays, Procs
<1>2. Invariant /\ LineStays /\ [Next]_vars => LineStays'
  BY StepLineStays
<1>3. LineStays => NoNullRead
  BY DEF LineStays, NoNullRead
<1> QED
  BY <1>1, <1>2, <1>3, InvariantHolds, PTL DEF Spec

-----------------------------------------------------------------------------
\* Whatever the readers, the writers and the environment do, the device is a
\* FIFO of lines: a step of the code is a step of LineFifo or changes neither
\* the list nor a reader's buffer.
THEOREM ImplementsFifo == Spec => IsFifo
<1>1. Init => Fifo!Init
  BY DEF Init, Fifo!Init
<1>2. [Next]_vars => [Fifo!Next]_<<list, got>>
  <2> SUFFICES ASSUME [Next]_vars PROVE [Fifo!Next]_<<list, got>>
    OBVIOUS
  <2> USE DEF Fifo!Next, Fifo!Put, Fifo!Get, Fifo!Discard
  <2>1. CASE Load
    BY <2>1 DEF Load
  <2>2. ASSUME NEW r \in Readers, Take(r) PROVE Fifo!Get(r)
    BY <2>2 DEF Take
  <2>3. ASSUME NEW w \in Writers, NEW line \in Lines, Add(w, line)
        PROVE  Fifo!Put(line)
    BY <2>3 DEF Add
  <2>4. CASE Unload \/ UNCHANGED vars
    BY <2>4 DEF Unload, vars
  <2>5. ASSUME NEW p \in Procs,
               \/ Open(p) \/ Close(p) \/ Call(p) \/ Lock(p)
               \/ Interrupted(p) \/ CheckCondition(p)
        PROVE  UNCHANGED <<list, got>>
    BY <2>5 DEF Open, Close, Call, Lock, Interrupted, CheckCondition
  <2>6. ASSUME NEW r \in Readers, ReadBlocks(r) \/ TakeFails(r) \/ TakeNull(r)
        PROVE  UNCHANGED <<list, got>>
    BY <2>6 DEF ReadBlocks, TakeFails, TakeNull
  <2>7. ASSUME NEW w \in Writers, WriteBlocks(w) \/ AddFails(w)
        PROVE  UNCHANGED <<list, got>>
    BY <2>7 DEF WriteBlocks, AddFails
  <2> QED
    BY <2>1, <2>2, <2>3, <2>4, <2>5, <2>6, <2>7 DEF Next, ReaderStep, WriterStep
<1> QED
  BY <1>1, <1>2, PTL DEF Spec, IsFifo, Fifo!Spec

=============================================================================
