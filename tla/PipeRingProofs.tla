--------------------------- MODULE PipeRingProofs ---------------------------
(***************************************************************************)
(* Theorems of PipeRing, for any readers, writers and number of slots:     *)
(* what survives every interleaving, failure and reload (Invariant), and   *)
(* what the ring guarantees one reader and one writer (Pairwise).          *)
(***************************************************************************)
EXTENDS PipeRing, TLAPS

\* Whoever is inside a call of a module that is out of the kernel is stale.
UnloadedIsQuiet == ~loaded => \A p \in Procs \ stale : pc[p] \in {"closed", "dead"}

\* Only stale sleepers are forgotten, until one of them has strayed.
OthersRemembered == ~strayed => \A p \in Procs \ stale : pc[p] # "forgotten"

Invariant == /\ TypeOK
             /\ MutualExclusion
             /\ NoLostWakeup
             /\ UnloadedIsQuiet
             /\ OthersRemembered

-----------------------------------------------------------------------------
LEMMA InitInvariant == Init => Invariant
<1> SUFFICES ASSUME Init PROVE Invariant
  OBVIOUS
<1>1. TypeOK
  <2>1. buffer_table \in [Slots -> Lines \cup {NoLine}]
    BY DEF Init, FreshTable
  <2>2. pc \in [Procs -> Steps] /\ got \in [Readers -> Lines \cup {NoLine}]
    BY DEF Init, Steps, Outside
  <2>3. loaded \in BOOLEAN /\ strayed \in BOOLEAN
    BY DEF Init
  <2> QED
    BY <2>1, <2>2, <2>3 DEF Init, TypeOK
<1>2. MutualExclusion
  BY DEF Init, MutualExclusion
<1>3. NoLostWakeup /\ UnloadedIsQuiet /\ OthersRemembered
  BY DEF Init, NoLostWakeup, UnloadedIsQuiet, OthersRemembered, Sleeping, Procs
<1> QED
  BY <1>1, <1>2, <1>3 DEF Invariant

\* The slot a write goes to is never negative.
LEMMA WriteSlotNat == TypeOK => WriteSlot \in Nat
  BY SizeAssumption DEF TypeOK, WriteSlot, Slots

\* Every step keeps the types: read_ptr stays in the table, write_ptr may leave it.
LEMMA StepTypeOK == Invariant /\ [Next]_vars => TypeOK'
<1> SUFFICES ASSUME Invariant, [Next]_vars PROVE TypeOK'
  OBVIOUS
<1>0. TypeOK
  BY DEF Invariant
<1> USE DEF TypeOK, Steps, Outside, Sleeping, Procs, Slots, ring, modules, Runs, Copied
<1>1. CASE Load
  <2>1. /\ buffer_table' \in [Slots -> Lines \cup {NoLine}]
        /\ read_ptr' \in Slots \cup {-1} /\ write_ptr' \in Nat \cup {-1} /\ elements_count' \in Int
    BY <1>1 DEF Load, FreshTable
  <2>2. pc' \in [Procs -> Steps]
    BY <1>0, <1>1 DEF Load
  <2>3. loaded' \in BOOLEAN /\ strayed' \in BOOLEAN
    BY <1>1 DEF Load
  <2>4. (lock \in SUBSET Procs)' /\ UNCHANGED <<active, stale, got>>
    BY <1>1 DEF Load
  <2> QED
    BY <1>0, <2>1, <2>2, <2>3, <2>4
<1>2. CASE Unload
  BY <1>0, <1>2 DEF Unload
<1>3. ASSUME NEW p \in Procs, Open(p) \/ Close(p) \/ Call(p) PROVE TypeOK'
  BY <1>0, <1>3 DEF Open, Close, Call, Goto
<1>4. ASSUME NEW p \in Procs, Lock(p) PROVE TypeOK'
  BY <1>0, <1>4 DEF Lock, Goto
<1>5. ASSUME NEW p \in Procs, Interrupted(p) PROVE TypeOK'
  BY <1>0, <1>5 DEF Interrupted, Goto
<1>6. ASSUME NEW p \in Procs, CheckCondition(p) PROVE TypeOK'
  BY <1>0, <1>6 DEF CheckCondition, Condition, Goto
<1>7. ASSUME NEW p \in Procs, Blocks(p) PROVE TypeOK'
  BY <1>0, <1>7 DEF Blocks, Goto
<1>8. ASSUME NEW r \in Readers, Take(r) PROVE TypeOK'
  BY <1>0, <1>8, SizeAssumption DEF Take, Proceeds, Advance, WakeAndGoto, After
<1>9. ASSUME NEW r \in Readers, TakeFails(r) PROVE TypeOK'
  BY <1>0, <1>9 DEF TakeFails, Proceeds, Goto
<1>10. ASSUME NEW r \in Readers, WildRead(r) PROVE TypeOK'
  BY <1>0, <1>10, SizeAssumption DEF WildRead, Proceeds, Advance, WakeAndGoto, Goto, After
<1>11. ASSUME NEW w \in Writers, NEW line \in Lines, Add(w, line) PROVE TypeOK'
  BY <1>0, <1>11, WriteSlotNat, SizeAssumption DEF Add, Proceeds, CountAndWake, WakeAndGoto, MovePointers
<1>12. ASSUME NEW w \in Writers, AddFails(w) PROVE TypeOK'
  BY <1>0, <1>12, WriteSlotNat, SizeAssumption DEF AddFails, Proceeds, Goto, MovePointers
<1>13. ASSUME NEW w \in Writers, WildWrite(w) PROVE TypeOK'
  BY <1>0, <1>13, WriteSlotNat, SizeAssumption DEF WildWrite, Proceeds, CountAndWake, WakeAndGoto, Goto, MovePointers
<1>14. ASSUME NEW p \in Procs, Fault(p) PROVE TypeOK'
  BY <1>0, <1>14 DEF Fault, Goto
<1>15. ASSUME NEW p \in Procs, Rouse(p) PROVE TypeOK'
  BY <1>0, <1>15 DEF Rouse
<1>16. CASE UNCHANGED vars
  BY <1>0, <1>16 DEF vars
<1> QED
  BY <1>1, <1>2, <1>3, <1>4, <1>5, <1>6, <1>7, <1>8, <1>9, <1>10, <1>11, <1>12, <1>13,
     <1>14, <1>15, <1>16
  DEF Next, ReaderStep, WriterStep

\* Whoever leaves a critical section and frees the lock was alone in it.
LEMMA LeavingKeepsApart ==
    ASSUME MutualExclusion, NEW p \in Procs, pc[p] \in {"first", "second"}, Runs(p),
           lock' = {}, pc'[p] \notin {"first", "second"},
           \A q \in Procs : q # p /\ pc'[q] \in {"first", "second"} => pc'[q] = pc[q]
    PROVE  MutualExclusion'
<1>1. CASE strayed \/ p \in stale
  BY <1>1 DEF MutualExclusion, Runs
<1>2. CASE ~strayed /\ p \notin stale
  <2>1. lock = {p} /\ stale' = stale
    BY <1>2 DEF MutualExclusion, Runs
  <2>2. \A q \in Procs \ stale : pc'[q] \notin {"first", "second"}
    BY <1>2, <2>1 DEF MutualExclusion
  <2> QED
    BY <2>1, <2>2 DEF MutualExclusion
<1> QED
  BY <1>1, <1>2

\* Every entry into a critical section needs a free lock.
LEMMA StepMutualExclusion == Invariant /\ [Next]_vars => MutualExclusion'
<1> SUFFICES ASSUME Invariant, [Next]_vars PROVE MutualExclusion'
  OBVIOUS
<1>0. TypeOK /\ MutualExclusion /\ UnloadedIsQuiet
  BY DEF Invariant
<1>1. CASE Load
  BY <1>0, <1>1 DEF Load, UnloadedIsQuiet,
     MutualExclusion, TypeOK, Procs, ring, modules, Runs
<1>2. CASE Unload
  BY <1>0, <1>2 DEF Unload,
     MutualExclusion, TypeOK, Procs, ring, modules, Runs
<1>3. ASSUME NEW p \in Procs, Open(p) \/ Close(p) \/ Call(p) PROVE MutualExclusion'
  BY <1>0, <1>3 DEF Open, Close, Call, Goto,
     MutualExclusion, TypeOK, Procs, ring, modules, Runs
<1>4. ASSUME NEW p \in Procs, Lock(p) PROVE MutualExclusion'
  BY <1>0, <1>4 DEF Lock, Goto,
     MutualExclusion, TypeOK, Procs, ring, modules, Runs
<1>5. ASSUME NEW p \in Procs, Interrupted(p) PROVE MutualExclusion'
  BY <1>0, <1>5 DEF Interrupted, Goto,
     MutualExclusion, TypeOK, Procs, ring, modules, Runs
<1>6. ASSUME NEW p \in Procs, CheckCondition(p) PROVE MutualExclusion'
  BY <1>0, <1>6 DEF CheckCondition, Condition, Goto,
     MutualExclusion, TypeOK, Procs, ring, modules, Runs
<1>7. ASSUME NEW p \in Procs, Blocks(p) PROVE MutualExclusion'
  <2>1. /\ pc[p] \in {"first", "second"} /\ Runs(p)
        /\ lock' = {} /\ pc'[p] \notin {"first", "second"}
        /\ \A q \in Procs : q # p /\ pc'[q] \in {"first", "second"} => pc'[q] = pc[q]
    BY <1>0, <1>7 DEF Blocks, Goto, TypeOK, Procs
  <2> QED
    BY <1>0, <2>1, LeavingKeepsApart DEF Procs
<1>8. ASSUME NEW r \in Readers, Take(r) PROVE MutualExclusion'
  <2>1. /\ pc[r] \in {"first", "second"} /\ Runs(r)
        /\ lock' = {} /\ pc'[r] \notin {"first", "second"}
        /\ \A q \in Procs : q # r /\ pc'[q] \in {"first", "second"} => pc'[q] = pc[q]
    BY <1>0, <1>8 DEF Take, Proceeds, Advance, WakeAndGoto, TypeOK, Procs
  <2> QED
    BY <1>0, <2>1, LeavingKeepsApart DEF Procs
<1>9. ASSUME NEW r \in Readers, TakeFails(r) PROVE MutualExclusion'
  BY <1>0, <1>9 DEF TakeFails, Proceeds, Goto,
     MutualExclusion, TypeOK, Procs, ring, modules, Runs
<1>10. ASSUME NEW r \in Readers, WildRead(r) PROVE MutualExclusion'
  <2>0. CASE lock' # {}
    BY <1>0, <1>10, <2>0 DEF WildRead, Proceeds, Advance, WakeAndGoto, Goto, TypeOK, Procs, Runs, MutualExclusion
  <2>1. CASE lock' = {}
    <3>1. /\ pc[r] \in {"first", "second"} /\ Runs(r)
          /\ lock' = {} /\ pc'[r] \notin {"first", "second"}
          /\ \A q \in Procs : q # r /\ pc'[q] \in {"first", "second"} => pc'[q] = pc[q]
      BY <1>0, <2>1, <1>10 DEF WildRead, Proceeds, Advance, WakeAndGoto, Goto, TypeOK, Procs
    <3> QED
      BY <1>0, <3>1, LeavingKeepsApart DEF Procs
  <2> QED
    BY <2>0, <2>1
<1>11. ASSUME NEW w \in Writers, NEW line \in Lines, Add(w, line) PROVE MutualExclusion'
  <2>1. /\ pc[w] \in {"first", "second"} /\ Runs(w)
        /\ lock' = {} /\ pc'[w] \notin {"first", "second"}
        /\ \A q \in Procs : q # w /\ pc'[q] \in {"first", "second"} => pc'[q] = pc[q]
    BY <1>0, <1>11 DEF Add, Proceeds, CountAndWake, WakeAndGoto, TypeOK, Procs
  <2> QED
    BY <1>0, <2>1, LeavingKeepsApart DEF Procs
<1>12. ASSUME NEW w \in Writers, AddFails(w) PROVE MutualExclusion'
  BY <1>0, <1>12 DEF AddFails, Proceeds, Goto,
     MutualExclusion, TypeOK, Procs, ring, modules, Runs
<1>13. ASSUME NEW w \in Writers, WildWrite(w) PROVE MutualExclusion'
  <2>0. CASE lock' # {}
    BY <1>0, <1>13, <2>0 DEF WildWrite, Proceeds, CountAndWake, WakeAndGoto, Goto, TypeOK, Procs, Runs, MutualExclusion
  <2>1. CASE lock' = {}
    <3>1. /\ pc[w] \in {"first", "second"} /\ Runs(w)
          /\ lock' = {} /\ pc'[w] \notin {"first", "second"}
          /\ \A q \in Procs : q # w /\ pc'[q] \in {"first", "second"} => pc'[q] = pc[q]
      BY <1>0, <2>1, <1>13 DEF WildWrite, Proceeds, CountAndWake, WakeAndGoto, Goto, TypeOK, Procs
    <3> QED
      BY <1>0, <3>1, LeavingKeepsApart DEF Procs
  <2> QED
    BY <2>0, <2>1
<1>14. ASSUME NEW p \in Procs, Fault(p) PROVE MutualExclusion'
  BY <1>0, <1>14 DEF Fault, Goto,
     MutualExclusion, TypeOK, Procs, ring, modules, Runs
<1>15. ASSUME NEW p \in Procs, Rouse(p) PROVE MutualExclusion'
  BY <1>0, <1>15 DEF Rouse,
     MutualExclusion, TypeOK, Procs, ring, modules, Runs
<1>16. CASE UNCHANGED vars
  BY <1>0, <1>16 DEF vars,
     MutualExclusion, TypeOK, Procs, ring, modules, Runs
<1> QED
  BY <1>1, <1>2, <1>3, <1>4, <1>5, <1>6, <1>7, <1>8, <1>9, <1>10, <1>11, <1>12, <1>13,
     <1>14, <1>15, <1>16
  DEF Next, ReaderStep, WriterStep

\* Whom rmmod finds inside it makes stale, and nobody else comes in.
LEMMA StepUnloadedIsQuiet == Invariant /\ [Next]_vars => UnloadedIsQuiet'
<1> SUFFICES ASSUME Invariant, [Next]_vars PROVE UnloadedIsQuiet'
  OBVIOUS
<1>0. TypeOK /\ UnloadedIsQuiet
  BY DEF Invariant
<1> USE DEF UnloadedIsQuiet, TypeOK, Steps, Outside, Sleeping, Procs, ring, modules, Runs
<1>1. CASE Load
  BY <1>0, <1>1 DEF Load
<1>2. CASE Unload
  BY <1>0, <1>2 DEF Unload
<1>3. ASSUME NEW p \in Procs, Open(p) \/ Close(p) \/ Call(p) PROVE UnloadedIsQuiet'
  BY <1>0, <1>3 DEF Open, Close, Call, Goto
<1>4. ASSUME NEW p \in Procs, Lock(p) PROVE UnloadedIsQuiet'
  BY <1>0, <1>4 DEF Lock, Goto
<1>5. ASSUME NEW p \in Procs, Interrupted(p) PROVE UnloadedIsQuiet'
  BY <1>0, <1>5 DEF Interrupted, Goto
<1>6. ASSUME NEW p \in Procs, CheckCondition(p) PROVE UnloadedIsQuiet'
  BY <1>0, <1>6 DEF CheckCondition, Condition, Goto
<1>7. ASSUME NEW p \in Procs, Blocks(p) PROVE UnloadedIsQuiet'
  BY <1>0, <1>7 DEF Blocks, Goto
<1>8. ASSUME NEW r \in Readers, Take(r) PROVE UnloadedIsQuiet'
  BY <1>0, <1>8 DEF Take, Proceeds, Advance, WakeAndGoto
<1>9. ASSUME NEW r \in Readers, TakeFails(r) PROVE UnloadedIsQuiet'
  BY <1>0, <1>9 DEF TakeFails, Proceeds, Goto
<1>10. ASSUME NEW r \in Readers, WildRead(r) PROVE UnloadedIsQuiet'
  BY <1>0, <1>10 DEF WildRead, Proceeds, Advance, WakeAndGoto, Goto
<1>11. ASSUME NEW w \in Writers, NEW line \in Lines, Add(w, line) PROVE UnloadedIsQuiet'
  BY <1>0, <1>11 DEF Add, Proceeds, CountAndWake, WakeAndGoto
<1>12. ASSUME NEW w \in Writers, AddFails(w) PROVE UnloadedIsQuiet'
  BY <1>0, <1>12 DEF AddFails, Proceeds, Goto
<1>13. ASSUME NEW w \in Writers, WildWrite(w) PROVE UnloadedIsQuiet'
  BY <1>0, <1>13 DEF WildWrite, Proceeds, CountAndWake, WakeAndGoto, Goto
<1>14. ASSUME NEW p \in Procs, Fault(p) PROVE UnloadedIsQuiet'
  BY <1>0, <1>14 DEF Fault, Goto
<1>15. ASSUME NEW p \in Procs, Rouse(p) PROVE UnloadedIsQuiet'
  BY <1>0, <1>15 DEF Rouse
<1>16. CASE UNCHANGED vars
  BY <1>0, <1>16 DEF vars
<1> QED
  BY <1>1, <1>2, <1>3, <1>4, <1>5, <1>6, <1>7, <1>8, <1>9, <1>10, <1>11, <1>12, <1>13,
     <1>14, <1>15, <1>16
  DEF Next, ReaderStep, WriterStep

\* A reload finds nobody asleep but the stale; one of them that goes on has strayed.
LEMMA StepOthersRemembered == Invariant /\ [Next]_vars => OthersRemembered'
<1> SUFFICES ASSUME Invariant, [Next]_vars PROVE OthersRemembered'
  OBVIOUS
<1>0. TypeOK /\ UnloadedIsQuiet /\ OthersRemembered
  BY DEF Invariant
<1> USE DEF OthersRemembered, TypeOK, Steps, Outside, Sleeping, Procs, ring, modules, Runs
<1>1. CASE Load
  BY <1>0, <1>1 DEF Load, UnloadedIsQuiet
<1>2. CASE Unload
  BY <1>0, <1>2 DEF Unload
<1>3. ASSUME NEW p \in Procs, Open(p) \/ Close(p) \/ Call(p) PROVE OthersRemembered'
  BY <1>0, <1>3 DEF Open, Close, Call, Goto
<1>4. ASSUME NEW p \in Procs, Lock(p) PROVE OthersRemembered'
  BY <1>0, <1>4 DEF Lock, Goto
<1>5. ASSUME NEW p \in Procs, Interrupted(p) PROVE OthersRemembered'
  BY <1>0, <1>5 DEF Interrupted, Goto
<1>6. ASSUME NEW p \in Procs, CheckCondition(p) PROVE OthersRemembered'
  BY <1>0, <1>6 DEF CheckCondition, Condition, Goto
<1>7. ASSUME NEW p \in Procs, Blocks(p) PROVE OthersRemembered'
  BY <1>0, <1>7 DEF Blocks, Goto
<1>8. ASSUME NEW r \in Readers, Take(r) PROVE OthersRemembered'
  BY <1>0, <1>8 DEF Take, Proceeds, Advance, WakeAndGoto
<1>9. ASSUME NEW r \in Readers, TakeFails(r) PROVE OthersRemembered'
  BY <1>0, <1>9 DEF TakeFails, Proceeds, Goto
<1>10. ASSUME NEW r \in Readers, WildRead(r) PROVE OthersRemembered'
  BY <1>0, <1>10 DEF WildRead, Proceeds, Advance, WakeAndGoto, Goto
<1>11. ASSUME NEW w \in Writers, NEW line \in Lines, Add(w, line) PROVE OthersRemembered'
  BY <1>0, <1>11 DEF Add, Proceeds, CountAndWake, WakeAndGoto
<1>12. ASSUME NEW w \in Writers, AddFails(w) PROVE OthersRemembered'
  BY <1>0, <1>12 DEF AddFails, Proceeds, Goto
<1>13. ASSUME NEW w \in Writers, WildWrite(w) PROVE OthersRemembered'
  BY <1>0, <1>13 DEF WildWrite, Proceeds, CountAndWake, WakeAndGoto, Goto
<1>14. ASSUME NEW p \in Procs, Fault(p) PROVE OthersRemembered'
  BY <1>0, <1>14 DEF Fault, Goto
<1>15. ASSUME NEW p \in Procs, Rouse(p) PROVE OthersRemembered'
  BY <1>0, <1>15 DEF Rouse
<1>16. CASE UNCHANGED vars
  BY <1>0, <1>16 DEF vars
<1> QED
  BY <1>1, <1>2, <1>3, <1>4, <1>5, <1>6, <1>7, <1>8, <1>9, <1>10, <1>11, <1>12, <1>13,
     <1>14, <1>15, <1>16
  DEF Next, ReaderStep, WriterStep

\* The two boundary tests wake whoever may go on.
LEMMA StepNoLostWakeup == Invariant /\ [Next]_vars => NoLostWakeup'
<1> SUFFICES ASSUME Invariant, [Next]_vars PROVE NoLostWakeup'
  OBVIOUS
<1>0. TypeOK /\ NoLostWakeup /\ UnloadedIsQuiet /\ OthersRemembered
  BY DEF Invariant
<1> USE DEF NoLostWakeup, TypeOK, Steps, Outside, Sleeping, Procs, ring, modules, Runs
<1>1. CASE Load
  BY <1>0, <1>1 DEF Load, UnloadedIsQuiet
<1>2. CASE Unload
  BY <1>0, <1>2 DEF Unload
<1>3. ASSUME NEW p \in Procs, Open(p) \/ Close(p) \/ Call(p) PROVE NoLostWakeup'
  BY <1>0, <1>3 DEF Open, Close, Call, Goto
<1>4. ASSUME NEW p \in Procs, Lock(p) PROVE NoLostWakeup'
  BY <1>0, <1>4 DEF Lock, Goto
<1>5. ASSUME NEW p \in Procs, Interrupted(p) PROVE NoLostWakeup'
  BY <1>0, <1>5 DEF Interrupted, Goto
<1>6. ASSUME NEW p \in Procs, CheckCondition(p) PROVE NoLostWakeup'
  BY <1>0, <1>6, UsersAssumption, SizeAssumption DEF CheckCondition, Condition, Goto
<1>7. ASSUME NEW p \in Procs, Blocks(p) PROVE NoLostWakeup'
  BY <1>0, <1>7 DEF Blocks, Goto
<1>8. ASSUME NEW r \in Readers, Take(r) PROVE NoLostWakeup'
  BY <1>0, <1>8, UsersAssumption, SizeAssumption DEF Take, Proceeds, Advance, WakeAndGoto, OthersRemembered
<1>9. ASSUME NEW r \in Readers, TakeFails(r) PROVE NoLostWakeup'
  BY <1>0, <1>9 DEF TakeFails, Proceeds, Goto
<1>10. ASSUME NEW r \in Readers, WildRead(r) PROVE NoLostWakeup'
  BY <1>0, <1>10, UsersAssumption, SizeAssumption DEF WildRead, Proceeds, Advance, WakeAndGoto, Goto, OthersRemembered
<1>11. ASSUME NEW w \in Writers, NEW line \in Lines, Add(w, line) PROVE NoLostWakeup'
  BY <1>0, <1>11, UsersAssumption, SizeAssumption DEF Add, Proceeds, CountAndWake, WakeAndGoto, OthersRemembered
<1>12. ASSUME NEW w \in Writers, AddFails(w) PROVE NoLostWakeup'
  BY <1>0, <1>12 DEF AddFails, Proceeds, Goto
<1>13. ASSUME NEW w \in Writers, WildWrite(w) PROVE NoLostWakeup'
  BY <1>0, <1>13, UsersAssumption, SizeAssumption DEF WildWrite, Proceeds, CountAndWake, WakeAndGoto, Goto, OthersRemembered
<1>14. ASSUME NEW p \in Procs, Fault(p) PROVE NoLostWakeup'
  BY <1>0, <1>14 DEF Fault, Goto
<1>15. ASSUME NEW p \in Procs, Rouse(p) PROVE NoLostWakeup'
  BY <1>0, <1>15 DEF Rouse, OthersRemembered
<1>16. CASE UNCHANGED vars
  BY <1>0, <1>16 DEF vars
<1> QED
  BY <1>1, <1>2, <1>3, <1>4, <1>5, <1>6, <1>7, <1>8, <1>9, <1>10, <1>11, <1>12, <1>13,
     <1>14, <1>15, <1>16
  DEF Next, ReaderStep, WriterStep

\* The invariant holds in every reachable state.
THEOREM InvariantHolds == Spec => []Invariant
<1>1. Init => Invariant
  BY InitInvariant
<1>2. Invariant /\ [Next]_vars => Invariant'
  BY StepTypeOK, StepMutualExclusion, StepNoLostWakeup, StepUnloadedIsQuiet,
     StepOthersRemembered
  DEF Invariant
<1> QED
  BY <1>1, <1>2, PTL DEF Spec

\* The handlers keep their variables in range, except write_ptr.
THEOREM TypeCorrect == Spec => []TypeOK
  BY InvariantHolds, PTL DEF Invariant

\* buffer_lock keeps the critical sections apart.
THEOREM Exclusion == Spec => []MutualExclusion
  BY InvariantHolds, PTL DEF Invariant

\* No wake-up is lost, even with a count that no longer counts the lines, and
\* a reload forgets nobody but those it left inside.
THEOREM WakeupsArrive == Spec => []NoLostWakeup
  BY InvariantHolds, PTL DEF Invariant

-----------------------------------------------------------------------------
\* What one reader and one writer can rely on. What either saw before it took
\* the lock again still holds, because only the other one undoes it.
Pairwise ==
    /\ PointersSpanCount
    /\ stale \subseteq active
    /\ \A p \in Procs \ active : pc[p] = "closed"
    /\ OneEach /\ ~strayed =>
          /\ elements_count \in 0 .. max_table_size
          /\ \A r \in Readers \ stale : pc[r] \in {"relock", "second"} => elements_count > 0
          /\ \A w \in Writers \ stale :
                pc[w] \in {"relock", "second"} => elements_count < max_table_size

\* Who goes on to the slots is alone with a ring that is as it should be, and
\* finds a line, or room for one.
LEMMA SoundRing ==
    ASSUME Invariant, Pairwise, OneEach, ~strayed, NEW p \in Procs \ stale, Proceeds(p)
    PROVE  /\ lock = {p}
           /\ \/ read_ptr = -1 /\ write_ptr = -1 /\ elements_count = 0
              \/ /\ read_ptr \in Slots /\ write_ptr \in Slots
                 /\ elements_count = Span
           /\ p \in Readers => elements_count > 0 /\ read_ptr # -1
           /\ p \in Writers => elements_count < max_table_size
<1>1. /\ lock = {p}
      /\ ~ \E w \in lock : pc[w] \notin {"first", "second"}
  BY DEF Proceeds, Invariant, MutualExclusion
<1>2. \/ read_ptr = -1 /\ write_ptr = -1 /\ elements_count = 0
      \/ /\ read_ptr \in Slots /\ write_ptr \in Slots
         /\ elements_count = Span
  BY <1>1 DEF Pairwise, PointersSpanCount
<1>3. p \in Readers => elements_count > 0
  BY SizeAssumption DEF Pairwise, Proceeds, BlockingCount
<1>4. p \in Writers => elements_count < max_table_size
  BY SizeAssumption, UsersAssumption DEF Pairwise, Proceeds, BlockingCount
<1> QED
  BY <1>1, <1>2, <1>3, <1>4 DEF Slots

\* No step of one reader and one writer leaves the table.
LEMMA NothingWild ==
    ASSUME Invariant, Pairwise, OneEach, ~strayed, NEW p \in Procs \ stale, Proceeds(p)
    PROVE  /\ p \in Readers => ~WildRead(p)
           /\ p \in Writers => WriteSlot \in Slots
  BY SoundRing, SizeAssumption DEF WildRead, WriteSlot, Slots, Span

\* There is one reader and one writer.
LEMMA Alone ==
    ASSUME Invariant, Pairwise, OneEach, NEW p \in Procs, pc[p] # "closed",
           NEW q \in Procs, q # p, pc[q] # "closed"
    PROVE  p \in Readers <=> q \in Writers
  BY UsersAssumption DEF Pairwise, OneEach, Procs

\* No process comes or goes in a run.
LEMMA SameUsers == [Next]_vars => UNCHANGED active
  BY DEF Next, Load, Unload, Open, Close, Call, Lock, Interrupted, CheckCondition,
         Blocks, ReaderStep, WriterStep, Take, TakeFails, WildRead, Add, AddFails,
         WildWrite, Fault, Rouse, Runs, modules, vars

\* Who is not of this run neither moves nor is stale.
LEMMA StepOutsiders ==
    ASSUME Invariant, Pairwise, [Next]_vars
    PROVE  (stale \subseteq active /\ \A p \in Procs \ active : pc[p] = "closed")'
<1> DEFINE Mover(p) == p \in active
                       /\ \A q \in Procs : pc[q] = "closed" => q = p \/ pc'[q] = "closed"
<1>0. /\ stale \subseteq active /\ \A p \in Procs \ active : pc[p] = "closed"
      /\ pc \in [Procs -> Steps] /\ UNCHANGED active
  BY SameUsers DEF Pairwise, Invariant, TypeOK
<1>1. stale' \subseteq active
  BY <1>0 DEF Next, Load, Unload, Open, Close, Call, Lock, Interrupted, CheckCondition,
     Blocks, ReaderStep, WriterStep, Take, TakeFails, WildRead, Add, AddFails,
     WildWrite, Fault, Rouse, Runs, modules, vars
<1>2. CASE Load \/ Unload \/ UNCHANGED vars
  BY <1>0, <1>1, <1>2 DEF Load, Unload, vars
<1>3. ASSUME NEW p \in Procs,
             \/ Open(p) \/ Close(p) \/ Fault(p) \/ Call(p) \/ Lock(p)
             \/ Interrupted(p) \/ CheckCondition(p) \/ Blocks(p)
      PROVE  Mover(p)
  BY <1>0, <1>3 DEF Open, Close, Fault, Call, Lock, Interrupted, CheckCondition, Blocks, Goto
<1>4. ASSUME NEW p \in Procs, Rouse(p) PROVE Mover(p)
  BY <1>0, <1>4 DEF Rouse, Sleeping
<1>5. ASSUME NEW r \in Readers, ReaderStep(r) PROVE Mover(r)
  BY <1>0, <1>5 DEF ReaderStep, Take, TakeFails, WildRead, Proceeds, Advance, Goto, WakeAndGoto, Procs
<1>6. ASSUME NEW w \in Writers, WriterStep(w) PROVE Mover(w)
  BY <1>0, <1>6 DEF WriterStep, Add, AddFails, WildWrite, Proceeds, CountAndWake, Goto, WakeAndGoto, Procs
<1>7. ASSUME NEW p \in Procs, Mover(p)
      PROVE  \A q \in Procs \ active : pc'[q] = "closed"
  BY <1>0, <1>7
<1> HIDE DEF Mover
<1>8. \A q \in Procs \ active : pc'[q] = "closed"
  BY <1>0, <1>2, <1>3, <1>4, <1>5, <1>6, <1>7 DEF Next, Procs
<1> QED
  BY <1>0, <1>1, <1>8

\* Every step keeps what the pair relies on.
LEMMA StepPairwise == Invariant /\ Pairwise /\ [Next]_vars => Pairwise'
<1> SUFFICES ASSUME Invariant, Pairwise, [Next]_vars PROVE Pairwise'
  OBVIOUS
<1>a. TypeOK /\ MutualExclusion /\ UnloadedIsQuiet
  BY DEF Invariant
<1>b. UNCHANGED active
  BY SameUsers
<1>c. OneEach' <=> OneEach
  BY <1>b DEF OneEach
<1>d. (stale \subseteq active /\ \A p \in Procs \ active : pc[p] = "closed")'
  BY StepOutsiders
<1>1. CASE ~OneEach \/ strayed'
  BY <1>1, <1>c, <1>d DEF Pairwise, PointersSpanCount
<1>2. CASE OneEach /\ ~strayed'
  <2>0. ASSUME NEW p \in Procs, Runs(p)
        PROVE  ~strayed /\ p \in Procs \ stale /\ stale' = stale
    BY <1>2, <2>0 DEF Runs
  <2>1. CASE Load
    BY <1>a, <1>b, <1>d, <2>1, SizeAssumption
    DEF Load, UnloadedIsQuiet, Pairwise, PointersSpanCount, TypeOK, Procs
  <2>2. CASE Unload \/ UNCHANGED vars
    BY <1>2, <1>c, <1>d, <2>2 DEF Unload, vars, modules, ring, Pairwise, PointersSpanCount, Span
  <2>3. ASSUME NEW p \in Procs, Open(p) \/ Close(p) \/ Call(p) \/ Fault(p) PROVE Pairwise'
    BY <1>a, <1>2, <1>c, <1>d, <2>3 DEF Open, Close, Call, Fault, Goto, ring, modules,
       Pairwise, PointersSpanCount, Span, MutualExclusion, TypeOK, Procs
  <2>4. ASSUME NEW p \in Procs, Lock(p) \/ Interrupted(p) \/ Blocks(p) PROVE Pairwise'
    <3>1. ~strayed /\ p \in Procs \ stale /\ stale' = stale
      BY <2>0, <2>4 DEF Lock, Interrupted, Blocks
    <3> QED
      BY <1>a, <1>2, <1>c, <1>d, <2>4, <3>1 DEF Lock, Interrupted, Blocks, Goto, ring,
         Pairwise, PointersSpanCount, Span, MutualExclusion, TypeOK, Procs
  <2>5. ASSUME NEW p \in Procs, CheckCondition(p) PROVE Pairwise'
    <3>1. ~strayed /\ p \in Procs \ stale /\ stale' = stale
      BY <2>0, <2>5 DEF CheckCondition
    <3> QED
      BY <1>a, <1>2, <1>c, <1>d, <2>5, <3>1, UsersAssumption DEF CheckCondition, Condition,
         Goto, ring, Pairwise, PointersSpanCount, Span, MutualExclusion, TypeOK, Procs
  <2>6. ASSUME NEW p \in Procs, Rouse(p) PROVE Pairwise'
    <3>1. ~strayed /\ p \in Procs \ stale
      BY <2>0, <2>6 DEF Rouse
    <3> QED
      BY <2>6, <3>1 DEF Rouse, Invariant, OthersRemembered
  <2>7. ASSUME NEW r \in Readers, Take(r) PROVE Pairwise'
    <3>0. ~strayed /\ r \in Procs \ stale /\ stale' = stale
      BY <2>0, <2>7 DEF Take, Procs
    <3>1. /\ lock = {r} /\ elements_count > 0 /\ Proceeds(r)
          /\ read_ptr \in Slots /\ write_ptr \in Slots /\ elements_count = Span
      BY <1>2, <2>7, <3>0, SoundRing DEF Take
    <3>2. /\ elements_count' = elements_count - 1
          /\ \/ read_ptr' = -1 /\ write_ptr' = -1 /\ elements_count' = 0
             \/ read_ptr' \in Slots /\ write_ptr' \in Slots /\ elements_count' = Span'
      BY <3>1, <2>7, SizeAssumption DEF Take, Advance, After, Span, Slots
    <3>3. \A q \in Procs : pc'[q] \in {"relock", "second"} => q # r /\ pc[q] = pc'[q]
      BY <1>a, <2>7 DEF Take, Advance, WakeAndGoto
    <3>4. \A q \in Readers : pc'[q] \notin {"relock", "second"}
      BY <1>a, <1>2, <3>1, <3>3, Alone, UsersAssumption DEF Proceeds, Procs
    <3>5. elements_count' \in 0 .. max_table_size - 1
      BY <1>2, <3>0, <3>1, <3>2, SizeAssumption DEF Pairwise
    <3> QED
      BY <1>a, <1>2, <1>d, <3>2, <3>3, <3>4, <3>5, SizeAssumption DEF Pairwise, PointersSpanCount
  <2>8. ASSUME NEW r \in Readers, TakeFails(r) PROVE Pairwise'
    <3>1. ~strayed /\ r \in Procs \ stale /\ stale' = stale
      BY <2>0, <2>8 DEF TakeFails, Procs
    <3> QED
      BY <1>a, <1>2, <1>c, <1>d, <2>8, <3>1 DEF TakeFails, Proceeds, Goto, ring, Pairwise,
         PointersSpanCount, Span, MutualExclusion, TypeOK, Procs
  <2>9. ASSUME NEW w \in Writers, NEW line \in Lines, Add(w, line) PROVE Pairwise'
    <3>0. ~strayed /\ w \in Procs \ stale /\ stale' = stale
      BY <2>0, <2>9 DEF Add, Procs
    <3>1. /\ lock = {w} /\ elements_count < max_table_size /\ Proceeds(w)
          /\ \/ read_ptr = -1 /\ write_ptr = -1 /\ elements_count = 0
             \/ /\ read_ptr \in Slots /\ write_ptr \in Slots
                /\ elements_count = Span
      BY <1>2, <2>9, <3>0, SoundRing DEF Add
    <3>2. /\ elements_count' = elements_count + 1
          /\ read_ptr' \in Slots /\ write_ptr' \in Slots /\ elements_count' = Span'
      <4>1. /\ elements_count' = elements_count + 1
            /\ write_ptr' = WriteSlot
            /\ read_ptr' = IF read_ptr = -1 THEN 0 ELSE read_ptr
        BY <2>9 DEF Add, MovePointers, CountAndWake
      <4>2. CASE read_ptr = -1
        BY <3>1, <4>1, <4>2, SizeAssumption DEF WriteSlot, Span, Slots
      <4>3. CASE read_ptr # -1 /\ write_ptr = max_table_size - 1
        BY <3>1, <4>1, <4>3, SizeAssumption DEF WriteSlot, Span, Slots
      <4>4. CASE read_ptr # -1 /\ write_ptr # max_table_size - 1
        BY <3>1, <4>1, <4>4, SizeAssumption DEF WriteSlot, Span, Slots
      <4> QED BY <4>2, <4>3, <4>4
    <3>3. \A q \in Procs : pc'[q] \in {"relock", "second"} => q # w /\ pc[q] = pc'[q]
      BY <1>a, <2>9 DEF Add, CountAndWake, WakeAndGoto
    <3>4. \A q \in Writers : pc'[q] \notin {"relock", "second"}
      BY <1>a, <1>2, <3>1, <3>3, Alone, UsersAssumption DEF Proceeds, Procs
    <3>5. elements_count' \in 1 .. max_table_size
      BY <1>2, <3>0, <3>1, <3>2, SizeAssumption DEF Pairwise
    <3> QED
      BY <1>a, <1>2, <1>d, <3>2, <3>3, <3>4, <3>5, SizeAssumption DEF Pairwise, PointersSpanCount
  <2>10. ASSUME NEW w \in Writers, AddFails(w) PROVE Pairwise'
    <3>0. ~strayed /\ w \in Procs \ stale /\ stale' = stale
      BY <2>0, <2>10 DEF AddFails, Procs
    <3>1. lock' = {w} /\ pc' = [pc EXCEPT ![w] = "open"] /\ UNCHANGED elements_count
      BY <1>a, <2>10, <3>0 DEF AddFails, Proceeds, MutualExclusion, Goto
    <3>2. PointersSpanCount'
      BY <1>a, <3>1 DEF PointersSpanCount, TypeOK, Procs
    <3> QED
      BY <1>a, <1>2, <1>c, <1>d, <3>0, <3>1, <3>2 DEF Pairwise, TypeOK, Procs
  <2>11. ASSUME NEW r \in Readers PROVE ~WildRead(r)
    BY <1>2, <2>0, NothingWild DEF WildRead, Procs
  <2>12. ASSUME NEW w \in Writers PROVE ~WildWrite(w)
    BY <1>2, <2>0, NothingWild DEF WildWrite, Procs
  <2> QED
    BY <2>1, <2>2, <2>3, <2>4, <2>5, <2>6, <2>7, <2>8, <2>9, <2>10, <2>11, <2>12
    DEF Next, ReaderStep, WriterStep
<1> QED BY <1>1, <1>2

\* The pair's guarantees hold in every reachable state.
LEMMA PairwiseHolds == Spec => []Pairwise
<1>1. Init => Pairwise
  BY SizeAssumption DEF Init, Pairwise, PointersSpanCount, Procs
<1>2. Invariant /\ Pairwise /\ [Next]_vars => Pairwise'
  BY StepPairwise
<1> QED
  BY <1>1, <1>2, InvariantHolds, PTL DEF Spec

\* Between one reader and one writer the pointers span the lines counted.
THEOREM PointersAgree == Spec => []PointersSpanCount
  BY PairwiseHolds, PTL DEF Pairwise

-----------------------------------------------------------------------------
\* The abstract queue once a stale process has strayed, or with several
\* readers or writers.
LEMMA NothingClaimed == ~(OneEach /\ ~strayed) => Unread = <<>>
  BY DEF Unread

\* What a step that strays does to what the readers have got: nothing.
LEMMA StraysKeepsReceived ==
    ASSUME [Next]_vars, strayed' PROVE UNCHANGED got
  BY DEF Next, Load, Unload, Open, Close, Call, Lock, Interrupted, CheckCondition,
     Blocks, ReaderStep, WriterStep, Take, TakeFails, WildRead, Copied, Add, AddFails,
     WildWrite, Fault, Rouse, vars

\* A step that leaves the ring alone, and does not stray, stutters.
LEMMA RingUnchanged ==
    ASSUME UNCHANGED <<active, ring, strayed, got>> PROVE UNCHANGED <<Unread, Received>>
  BY DEF ring, Unread, Received, SlotOf, OneEach

\* The lines of a sound ring form a sequence.
LEMMA UnreadSeq ==
    ASSUME Invariant, Pairwise, OneEach, ~strayed, \E p \in Procs \ stale : Proceeds(p)
    PROVE  /\ Unread \in Seq(Lines \cup {NoLine})
           /\ Len(Unread) = elements_count
           /\ Unread = [i \in 1 .. elements_count |-> buffer_table[SlotOf(i)]]
<1>1. elements_count \in Nat /\ elements_count <= max_table_size
  BY SizeAssumption DEF Pairwise
<1>2. \/ elements_count = 0
      \/ read_ptr \in Slots
  BY SoundRing DEF Pairwise, PointersSpanCount
<1>3. \A i \in 1 .. elements_count : SlotOf(i) \in Slots
  BY <1>1, <1>2, SizeAssumption DEF SlotOf, Slots
<1>4. \A i \in 1 .. elements_count : buffer_table[SlotOf(i)] \in Lines \cup {NoLine}
  BY <1>3 DEF Invariant, TypeOK
<1> QED BY <1>1, <1>4 DEF Unread

\* device_read takes the first of the unread lines.
LEMMA TakeIsGet ==
    ASSUME Invariant, Pairwise, OneEach, NEW r \in Readers, Take(r), OneEach', ~strayed'
    PROVE  Fifo!Get(r)
<1>0. ~strayed /\ r \in Procs \ stale /\ Proceeds(r)
  BY DEF Take, Runs, Procs
<1>1. /\ elements_count \in Nat /\ elements_count > 0
      /\ read_ptr \in Slots /\ write_ptr \in Slots /\ elements_count = Span
      /\ elements_count <= max_table_size
  BY <1>0, SoundRing, SizeAssumption DEF Pairwise
<1>2. /\ elements_count' = elements_count - 1
      /\ \A i \in 1 .. elements_count - 1 :
            /\ SlotOf(i)' = SlotOf(i + 1)
            /\ SlotOf(i + 1) # read_ptr
            /\ SlotOf(i + 1) \in Slots
  <2>1. CASE read_ptr = write_ptr
    BY <1>1, <2>1 DEF Take, Advance, Span, Slots
  <2>2. CASE read_ptr # write_ptr
    <3>1. elements_count' = elements_count - 1 /\ read_ptr' = After(read_ptr)
      BY <2>2 DEF Take, Advance
    <3>2. ASSUME NEW i \in 1 .. elements_count - 1
          PROVE  /\ SlotOf(i)' = SlotOf(i + 1)
                 /\ SlotOf(i + 1) # read_ptr
                 /\ SlotOf(i + 1) \in Slots
      BY <1>1, <3>1, SizeAssumption DEF SlotOf, After, Slots
    <3> QED BY <3>1, <3>2
  <2> QED BY <2>1, <2>2
<1>3. \A i \in 1 .. elements_count - 1 :
          buffer_table'[SlotOf(i)'] = buffer_table[SlotOf(i + 1)]
  BY <1>2 DEF Take, Invariant, TypeOK
<1>4. Unread' = [i \in 1 .. elements_count - 1 |-> buffer_table[SlotOf(i + 1)]]
  BY <1>2, <1>3 DEF Unread
<1>5. /\ Unread \in Seq(Lines \cup {NoLine}) /\ Len(Unread) = elements_count
      /\ Unread = [i \in 1 .. elements_count |-> buffer_table[SlotOf(i)]]
  BY <1>0, UnreadSeq
<1>6. Unread # <<>> /\ Head(Unread) = buffer_table[read_ptr] /\ Unread' = Tail(Unread)
  <2>2. Unread # <<>> /\ Head(Unread) = buffer_table[SlotOf(1)]
    BY <1>1, <1>5
  <2>3. SlotOf(1) = read_ptr
    BY <1>1, SizeAssumption DEF SlotOf, Slots
  <2>4. Tail(Unread) = [i \in 1 .. elements_count - 1 |-> Unread[i + 1]]
    BY <1>1, <1>5
  <2>5. \A i \in 1 .. elements_count - 1 : Unread[i + 1] = buffer_table[SlotOf(i + 1)]
    BY <1>1, <1>5
  <2> QED BY <1>4, <2>2, <2>3, <2>4, <2>5
<1> QED
  BY <1>6 DEF Take, Copied, Received, Fifo!Get

\* device_write appends to the unread lines.
LEMMA AddIsPut ==
    ASSUME Invariant, Pairwise, OneEach, NEW w \in Writers, NEW line \in Lines,
           Add(w, line), OneEach', ~strayed'
    PROVE  Fifo!Put(line)
<1>0. ~strayed /\ w \in Procs \ stale /\ Proceeds(w)
  BY DEF Add, Runs, Procs
<1>1. /\ elements_count \in Nat /\ elements_count < max_table_size
      /\ \/ read_ptr = -1 /\ write_ptr = -1 /\ elements_count = 0
         \/ /\ read_ptr \in Slots /\ write_ptr \in Slots
            /\ elements_count = Span
  BY <1>0, SoundRing, SizeAssumption DEF Pairwise
<1>2. /\ elements_count' = elements_count + 1
      /\ \A i \in 1 .. elements_count + 1 :
            SlotOf(i)' = IF i = elements_count + 1 THEN WriteSlot ELSE SlotOf(i)
      /\ \A i \in 1 .. elements_count : SlotOf(i) # WriteSlot /\ SlotOf(i) \in Slots
  <2>1. /\ elements_count' = elements_count + 1
        /\ read_ptr' = IF read_ptr = -1 THEN 0 ELSE read_ptr
    BY DEF Add, MovePointers, CountAndWake
  <2>2. CASE read_ptr = -1
    BY <1>1, <2>1, <2>2, SizeAssumption DEF SlotOf, WriteSlot, Slots, Span
  <2>3. CASE read_ptr # -1
    <3>1. read_ptr' = read_ptr /\ read_ptr \in Slots /\ write_ptr \in Slots
      BY <1>1, <2>1, <2>3
    <3>2. SlotOf(elements_count + 1) = WriteSlot
      BY <1>1, <3>1, SizeAssumption DEF SlotOf, WriteSlot, Slots, Span
    <3>3. ASSUME NEW i \in 1 .. elements_count
          PROVE  SlotOf(i) # SlotOf(elements_count + 1) /\ SlotOf(i) \in Slots
      BY <1>1, <3>1, SizeAssumption DEF SlotOf, Slots
    <3>4. \A i \in 1 .. elements_count + 1 : SlotOf(i)' = SlotOf(i)
      BY <3>1 DEF SlotOf
    <3> QED BY <1>1, <2>1, <3>2, <3>3, <3>4
  <2> QED BY <2>2, <2>3
<1>3. /\ \A i \in 1 .. elements_count : buffer_table'[SlotOf(i)'] = buffer_table[SlotOf(i)]
      /\ buffer_table'[WriteSlot] = line
  BY <1>2 DEF Add, Invariant, TypeOK
<1>4. Unread' = [i \in 1 .. elements_count + 1 |-> buffer_table'[SlotOf(i)']]
  BY <1>2 DEF Unread
<1>5. /\ Unread \in Seq(Lines \cup {NoLine}) /\ Len(Unread) = elements_count
      /\ Unread = [i \in 1 .. elements_count |-> buffer_table[SlotOf(i)]]
  BY <1>0, UnreadSeq
<1>6. Unread' = Append(Unread, line)
  <2>2. Append(Unread, line) =
          [i \in 1 .. elements_count + 1 |-> IF i = elements_count + 1 THEN line ELSE Unread[i]]
    BY <1>1, <1>5
  <2>3. ASSUME NEW i \in 1 .. elements_count + 1
        PROVE  buffer_table'[SlotOf(i)'] = IF i = elements_count + 1 THEN line ELSE Unread[i]
    BY <1>1, <1>2, <1>3, <1>5
  <2> QED BY <1>4, <2>2, <2>3
<1> QED
  BY <1>6 DEF Add, Received, Fifo!Put

\* One reader and one writer have a first-in first-out pipe of lines, through
\* signals, failing copies and reloads of the module, until a process that a
\* reload left inside goes on in it.
THEOREM ImplementsFifo == Spec => IsFifo
<1>1. Init => Fifo!Init
  BY DEF Init, Fifo!Init, Unread, Received
<1>2. Invariant /\ Pairwise /\ Pairwise' /\ [Next]_vars => [Fifo!Next]_<<Unread, Received>>
  <2> SUFFICES ASSUME Invariant, Pairwise, Pairwise', [Next]_vars
               PROVE  [Fifo!Next]_<<Unread, Received>>
    OBVIOUS
  <2>1. UNCHANGED active /\ (OneEach' <=> OneEach)
    BY SameUsers DEF OneEach
  <2>2. CASE ~OneEach
    BY <2>1, <2>2 DEF Unread, Received
  <2>3. CASE OneEach /\ strayed'
    <3>1. Unread' = <<>> /\ UNCHANGED Received
      BY <2>1, <2>3, NothingClaimed, StraysKeepsReceived DEF Received, Unread
    <3> QED BY <3>1 DEF Fifo!Next, Fifo!Discard
  <2>4. CASE OneEach /\ ~strayed'
    <3>0. OneEach /\ OneEach' /\ ~strayed' /\ strayed \in BOOLEAN /\ strayed' \in BOOLEAN
      BY <2>1, <2>4, StepTypeOK DEF Invariant, TypeOK
    <3>1. CASE Load
      BY <3>0, <3>1 DEF Load, Unread, Received, Fifo!Next, Fifo!Discard
    <3>2. CASE Unload \/ UNCHANGED vars
      BY <3>2, RingUnchanged DEF Unload, vars, modules
    <3>3. ASSUME NEW p \in Procs, Runs(p)
          PROVE  ~strayed /\ p \in Procs \ stale /\ UNCHANGED <<active, strayed>>
      BY <3>0, <3>3 DEF Runs
    <3>4. ASSUME NEW p \in Procs,
                 \/ Open(p) \/ Close(p) \/ Call(p) \/ Fault(p) \/ Lock(p) \/ Interrupted(p)
                 \/ Rouse(p) \/ CheckCondition(p) \/ Blocks(p)
          PROVE  UNCHANGED <<Unread, Received>>
      <4>1. UNCHANGED <<active, ring, strayed, got>>
        BY <3>3, <3>4 DEF Open, Close, Call, Fault, Lock, Interrupted, Rouse,
           CheckCondition, Blocks, modules
      <4> QED BY <4>1, RingUnchanged
    <3>5. ASSUME NEW r \in Readers, ReaderStep(r)
          PROVE  Fifo!Get(r) \/ UNCHANGED <<Unread, Received>>
      <4>1. CASE Take(r)
        BY <3>0, <4>1, TakeIsGet
      <4>2. CASE TakeFails(r)
        BY <3>3, <4>2, RingUnchanged DEF TakeFails, Procs
      <4>3. ~WildRead(r)
        BY <3>0, <3>3, NothingWild DEF WildRead, Procs
      <4> QED BY <3>5, <4>1, <4>2, <4>3 DEF ReaderStep
    <3>6. ASSUME NEW w \in Writers, WriterStep(w)
          PROVE  (\E line \in Lines : Fifo!Put(line)) \/ UNCHANGED <<Unread, Received>>
      <4>1. ASSUME NEW line \in Lines, Add(w, line) PROVE Fifo!Put(line)
        BY <3>0, <4>1, AddIsPut
      <4>2. CASE AddFails(w)
        <5>0. ~strayed /\ w \in Procs \ stale /\ Proceeds(w)
          BY <3>3, <4>2 DEF AddFails, Procs
        <5>1. /\ \/ read_ptr' = read_ptr
                 \/ elements_count = 0
              /\ UNCHANGED <<buffer_table, elements_count, got>>
          BY <3>0, <4>2, <5>0, SoundRing DEF AddFails, MovePointers, Slots
        <5> QED BY <3>0, <5>0, <5>1 DEF Unread, Received, SlotOf
      <4>3. ~WildWrite(w)
        BY <3>0, <3>3, NothingWild DEF WildWrite, Procs
      <4> QED BY <3>6, <4>1, <4>2, <4>3 DEF WriterStep
    <3> QED
      BY <3>1, <3>2, <3>4, <3>5, <3>6 DEF Next, Fifo!Next
  <2> QED BY <2>2, <2>3, <2>4
<1> QED
  BY <1>1, <1>2, InvariantHolds, PairwiseHolds, PTL DEF Spec, IsFifo, Fifo!Spec

=============================================================================
