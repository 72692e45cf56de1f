------------------------ MODULE BarrierAndSortProofs ------------------------
(***************************************************************************)
(* Theorems of MyBarrier, for any finite set of threads and any count,     *)
(* with spurious wake-ups and a destruction at any moment, of              *)
(* ThreadedSort, for any files and sizes of the pieces, and of PhoneBook,  *)
(* for any contacts and any numbers that rand returns.                     *)
(*                                                                         *)
(* Invariant is inductive: it adds to the checked invariants of the        *)
(* barrier where the threads counted in executed_count are (Places) and    *)
(* what a joined main may assume of them (JoinedFirst).                    *)
(*                                                                         *)
(* SortInv is the one of the sort: in every phase the pieces hold the      *)
(* numbers of the file, each once, by a bijection from their places to     *)
(* those of the file, and the pieces whose thread is through are in order. *)
(* A cut, a sorted piece and a round of merges each are a bijection of     *)
(* places, which is composed with the one before.                          *)
(*                                                                         *)
(* PhoneInv is the one of the directory.  The work is in what _quick_sort  *)
(* and _binary_search return: a call of the sort moves contacts inside its *)
(* part only (Shuffled) and leaves the part in order (Sorts), and a round  *)
(* of the search leaves out no place of the name (Searched).               *)
(***************************************************************************)
EXTENDS MyBarrier, ThreadedSort, PhoneBook, FiniteSetTheorems, SequenceTheorems, WellFoundedInduction, TLAPS

\* A thread is counted from its arrival on, and executed_count is the number
\* of those counted.
Places ==
    /\ executed_count = Cardinality(arrived)
    /\ \A t \in Threads :
          /\ pc[t] \in {"start", "lock", "locked"} => t \notin arrived
          /\ pc[t] \in {"blocked", "relock", "relocked"} => t \in arrived
          /\ pc[t] # "done" => result[t] = "none"

\* A main that joins starts to destroy only when every thread has returned.
JoinedFirst ==
    joins /\ main \notin {"create"} => \A t \in Threads : pc[t] = "done"

\* Only main, past its wake-up call, ends the life of the barrier, and it gets
\* past its first lock only if there is one.
LifeEnds ==
    /\ barrier \in {"destroyed", "freed"} => main \in {"free", "done"}
    /\ main \notin {"create", "crashed"} => barrier # "null"

Invariant == /\ TypeOK
             /\ NobodyBlockedAfterEvent
             /\ HoldersAgree
             /\ Places
             /\ JoinedFirst
             /\ LifeEnds

-----------------------------------------------------------------------------
LEMMA InitInvariant == Init => Invariant
  BY FS_EmptySet
  DEF Init, Invariant, TypeOK, NobodyBlockedAfterEvent, HoldersAgree, Places,
      JoinedFirst, LifeEnds, ThreadSteps, MainSteps, Main

\* Every step keeps the types.
LEMMA StepTypeOK == Invariant /\ [Next]_vars => TypeOK'
<1> SUFFICES ASSUME Invariant, [Next]_vars PROVE TypeOK'
  OBVIOUS
<1> USE DEF TypeOK, ThreadSteps, MainSteps
<1>0. TypeOK
  BY DEF Invariant
<1>1. ASSUME NEW t \in Threads, Call(t) PROVE TypeOK'
  BY <1>0, <1>1 DEF Call, Return
<1>2. ASSUME NEW t \in Threads, Lock(t) PROVE TypeOK'
  BY <1>0, <1>2 DEF Lock
<1>3. ASSUME NEW t \in Threads, UseDestroyed(t) \/ Spurious(t) PROVE TypeOK'
  BY <1>0, <1>3 DEF UseDestroyed, Spurious
<1>4. ASSUME NEW t \in Threads, TurnedAway(t) \/ Leave(t) PROVE TypeOK'
  BY <1>0, <1>4 DEF TurnedAway, Leave, Return
<1>5. ASSUME NEW t \in Threads, Arrive(t) PROVE TypeOK'
  BY <1>0, <1>5 DEF Arrive
<1>6. ASSUME NEW t \in Threads, ArriveLast(t) PROVE TypeOK'
  BY <1>0, <1>6 DEF ArriveLast, Woken
<1>7. ASSUME NEW t \in Threads, BlockAgain(t) PROVE TypeOK'
  BY <1>0, <1>7 DEF BlockAgain
<1>8. CASE DestroyLock
  BY <1>0, <1>8 DEF DestroyLock
<1>9. CASE DestroyWake
  BY <1>0, <1>9 DEF DestroyWake, Woken
<1>10. CASE CondDestroy \/ MutexDestroy \/ Free
  BY <1>0, <1>10 DEF CondDestroy, MutexDestroy, Free
<1>11. CASE UNCHANGED vars
  BY <1>0, <1>11 DEF vars
<1> QED
  BY <1>1, <1>2, <1>3, <1>4, <1>5, <1>6, <1>7, <1>8, <1>9, <1>10, <1>11
  DEF Next, ThreadStep, Destroy

\* Whoever sets the event wakes everybody, and nobody blocks after it.
LEMMA StepNobodyBlocked == Invariant /\ [Next]_vars => NobodyBlockedAfterEvent'
<1> SUFFICES ASSUME Invariant, [Next]_vars PROVE NobodyBlockedAfterEvent'
  OBVIOUS
<1> USE DEF NobodyBlockedAfterEvent, TypeOK, ThreadSteps, MainSteps
<1>0. TypeOK /\ NobodyBlockedAfterEvent
  BY DEF Invariant
<1>1. ASSUME NEW t \in Threads, Call(t) PROVE NobodyBlockedAfterEvent'
  BY <1>0, <1>1 DEF Call, Return
<1>2. ASSUME NEW t \in Threads, Lock(t) PROVE NobodyBlockedAfterEvent'
  BY <1>0, <1>2 DEF Lock
<1>3. ASSUME NEW t \in Threads, UseDestroyed(t) \/ Spurious(t) PROVE NobodyBlockedAfterEvent'
  BY <1>0, <1>3 DEF UseDestroyed, Spurious
<1>4. ASSUME NEW t \in Threads, TurnedAway(t) \/ Leave(t) PROVE NobodyBlockedAfterEvent'
  BY <1>0, <1>4 DEF TurnedAway, Leave, Return
<1>5. ASSUME NEW t \in Threads, Arrive(t) PROVE NobodyBlockedAfterEvent'
  BY <1>0, <1>5 DEF Arrive
<1>6. ASSUME NEW t \in Threads, ArriveLast(t) PROVE NobodyBlockedAfterEvent'
  BY <1>0, <1>6 DEF ArriveLast, Woken
<1>7. ASSUME NEW t \in Threads, BlockAgain(t) PROVE NobodyBlockedAfterEvent'
  BY <1>0, <1>7 DEF BlockAgain
<1>8. CASE DestroyLock
  BY <1>0, <1>8 DEF DestroyLock
<1>9. CASE DestroyWake
  BY <1>0, <1>9 DEF DestroyWake, Woken
<1>10. CASE CondDestroy \/ MutexDestroy \/ Free
  BY <1>0, <1>10 DEF CondDestroy, MutexDestroy, Free
<1>11. CASE UNCHANGED vars
  BY <1>0, <1>11 DEF vars
<1> QED
  BY <1>1, <1>2, <1>3, <1>4, <1>5, <1>6, <1>7, <1>8, <1>9, <1>10, <1>11
  DEF Next, ThreadStep, Destroy

\* The mutex goes to one thread or to main, and only when it is free.
LEMMA StepHoldersAgree == Invariant /\ [Next]_vars => HoldersAgree'
<1> SUFFICES ASSUME Invariant, [Next]_vars PROVE HoldersAgree'
  OBVIOUS
<1> USE DEF HoldersAgree, TypeOK, ThreadSteps, MainSteps, Main
<1>0. TypeOK /\ HoldersAgree
  BY DEF Invariant
<1>1. ASSUME NEW t \in Threads, Call(t) PROVE HoldersAgree'
  BY <1>0, <1>1, MainAssumption DEF Call, Return
<1>2. ASSUME NEW t \in Threads, Lock(t) PROVE HoldersAgree'
  BY <1>0, <1>2, MainAssumption DEF Lock
<1>3. ASSUME NEW t \in Threads, UseDestroyed(t) \/ Spurious(t) PROVE HoldersAgree'
  BY <1>0, <1>3, MainAssumption DEF UseDestroyed, Spurious
<1>4. ASSUME NEW t \in Threads, TurnedAway(t) \/ Leave(t) PROVE HoldersAgree'
  BY <1>0, <1>4, MainAssumption DEF TurnedAway, Leave, Return
<1>5. ASSUME NEW t \in Threads, Arrive(t) PROVE HoldersAgree'
  BY <1>0, <1>5, MainAssumption DEF Arrive
<1>6. ASSUME NEW t \in Threads, ArriveLast(t) PROVE HoldersAgree'
  BY <1>0, <1>6, MainAssumption DEF ArriveLast, Woken
<1>7. ASSUME NEW t \in Threads, BlockAgain(t) PROVE HoldersAgree'
  BY <1>0, <1>7, MainAssumption DEF BlockAgain
<1>8. CASE DestroyLock
  BY <1>0, <1>8, MainAssumption DEF DestroyLock
<1>9. CASE DestroyWake
  BY <1>0, <1>9, MainAssumption DEF DestroyWake, Woken
<1>10. CASE CondDestroy \/ MutexDestroy \/ Free
  BY <1>0, <1>10, MainAssumption DEF CondDestroy, MutexDestroy, Free
<1>11. CASE UNCHANGED vars
  BY <1>0, <1>11, MainAssumption DEF vars
<1> QED
  BY <1>1, <1>2, <1>3, <1>4, <1>5, <1>6, <1>7, <1>8, <1>9, <1>10, <1>11
  DEF Next, ThreadStep, Destroy

\* A thread is counted once, when it arrives.
LEMMA StepPlaces == Invariant /\ [Next]_vars => Places'
<1> SUFFICES ASSUME Invariant, [Next]_vars PROVE Places'
  OBVIOUS
<1> USE DEF Places, TypeOK, ThreadSteps
<1>0. TypeOK /\ Places
  BY DEF Invariant
<1>1. ASSUME NEW t \in Threads, Call(t) PROVE Places'
  BY <1>0, <1>1 DEF Call, Return
<1>2. ASSUME NEW t \in Threads, Lock(t) PROVE Places'
  BY <1>0, <1>2 DEF Lock
<1>3. ASSUME NEW t \in Threads, UseDestroyed(t) \/ Spurious(t) PROVE Places'
  BY <1>0, <1>3 DEF UseDestroyed, Spurious
<1>4. ASSUME NEW t \in Threads, TurnedAway(t) \/ Leave(t) PROVE Places'
  BY <1>0, <1>4 DEF TurnedAway, Leave, Return
<1>5. ASSUME NEW t \in Threads, Arrive(t) PROVE Places'
  <2>1. Cardinality(arrived') = Cardinality(arrived) + 1
    BY <1>0, <1>5, FS_AddElement, FS_Subset, ThreadsAssumption DEF Arrive
  <2> QED BY <1>0, <1>5, <2>1 DEF Arrive
<1>6. ASSUME NEW t \in Threads, ArriveLast(t) PROVE Places'
  <2>1. Cardinality(arrived') = Cardinality(arrived) + 1
    BY <1>0, <1>6, FS_AddElement, FS_Subset, ThreadsAssumption DEF ArriveLast
  <2>2. /\ pc' = [Woken EXCEPT ![t] = "done"]
        /\ result' = [result EXCEPT ![t] = "passed"]
        /\ arrived' = arrived \cup {t}
        /\ executed_count' = executed_count + 1
    BY <1>6 DEF ArriveLast
  <2>3. pc'[t] = "done"
    BY <2>2 DEF Woken
  <2>4. \A u \in Threads \ {t} :
           pc'[u] = IF pc[u] = "blocked" THEN "relock" ELSE pc[u]
    BY <2>2 DEF Woken
  <2>5. \A u \in Threads \ {t} : result'[u] = result[u]
    BY <1>0, <2>2
  <2> QED BY <1>0, <2>1, <2>2, <2>3, <2>4, <2>5
<1>7. ASSUME NEW t \in Threads, BlockAgain(t) PROVE Places'
  BY <1>0, <1>7 DEF BlockAgain
<1>8. CASE DestroyLock
  BY <1>0, <1>8 DEF DestroyLock
<1>9. CASE DestroyWake
  BY <1>0, <1>9 DEF DestroyWake, Woken
<1>10. CASE CondDestroy \/ MutexDestroy \/ Free
  BY <1>0, <1>10 DEF CondDestroy, MutexDestroy, Free
<1>11. CASE UNCHANGED vars
  BY <1>0, <1>11 DEF vars
<1> QED
  BY <1>1, <1>2, <1>3, <1>4, <1>5, <1>6, <1>7, <1>8, <1>9, <1>10, <1>11
  DEF Next, ThreadStep, Destroy

\* A thread that has returned stays so.
LEMMA StepJoinedFirst == Invariant /\ [Next]_vars => JoinedFirst'
<1> SUFFICES ASSUME Invariant, [Next]_vars PROVE JoinedFirst'
  OBVIOUS
<1> USE DEF JoinedFirst, TypeOK, ThreadSteps, MainSteps
<1>0. TypeOK /\ JoinedFirst
  BY DEF Invariant
<1>1. ASSUME NEW t \in Threads, Call(t) PROVE JoinedFirst'
  BY <1>0, <1>1 DEF Call, Return
<1>2. ASSUME NEW t \in Threads, Lock(t) PROVE JoinedFirst'
  BY <1>0, <1>2 DEF Lock
<1>3. ASSUME NEW t \in Threads, UseDestroyed(t) \/ Spurious(t) PROVE JoinedFirst'
  BY <1>0, <1>3 DEF UseDestroyed, Spurious
<1>4. ASSUME NEW t \in Threads, TurnedAway(t) \/ Leave(t) PROVE JoinedFirst'
  BY <1>0, <1>4 DEF TurnedAway, Leave, Return
<1>5. ASSUME NEW t \in Threads, Arrive(t) PROVE JoinedFirst'
  BY <1>0, <1>5 DEF Arrive
<1>6. ASSUME NEW t \in Threads, ArriveLast(t) PROVE JoinedFirst'
  BY <1>0, <1>6 DEF ArriveLast, Woken
<1>7. ASSUME NEW t \in Threads, BlockAgain(t) PROVE JoinedFirst'
  BY <1>0, <1>7 DEF BlockAgain
<1>8. CASE DestroyLock
  BY <1>0, <1>8 DEF DestroyLock
<1>9. CASE DestroyWake
  BY <1>0, <1>9 DEF DestroyWake, Woken
<1>10. CASE CondDestroy \/ MutexDestroy \/ Free
  BY <1>0, <1>10 DEF CondDestroy, MutexDestroy, Free
<1>11. CASE UNCHANGED vars
  BY <1>0, <1>11 DEF vars
<1> QED
  BY <1>1, <1>2, <1>3, <1>4, <1>5, <1>6, <1>7, <1>8, <1>9, <1>10, <1>11
  DEF Next, ThreadStep, Destroy

\* The barrier dies by the last two steps of mybarrier_destroy only.
LEMMA StepLifeEnds == Invariant /\ [Next]_vars => LifeEnds'
<1> SUFFICES ASSUME Invariant, [Next]_vars PROVE LifeEnds'
  OBVIOUS
<1> USE DEF LifeEnds, TypeOK, MainSteps
<1>0. TypeOK /\ LifeEnds
  BY DEF Invariant
<1>1. ASSUME NEW t \in Threads, Call(t) PROVE LifeEnds'
  BY <1>0, <1>1 DEF Call, Return
<1>2. ASSUME NEW t \in Threads, Lock(t) PROVE LifeEnds'
  BY <1>0, <1>2 DEF Lock
<1>3. ASSUME NEW t \in Threads, UseDestroyed(t) \/ Spurious(t) PROVE LifeEnds'
  BY <1>0, <1>3 DEF UseDestroyed, Spurious
<1>4. ASSUME NEW t \in Threads, TurnedAway(t) \/ Leave(t) PROVE LifeEnds'
  BY <1>0, <1>4 DEF TurnedAway, Leave, Return
<1>5. ASSUME NEW t \in Threads, Arrive(t) PROVE LifeEnds'
  BY <1>0, <1>5 DEF Arrive
<1>6. ASSUME NEW t \in Threads, ArriveLast(t) PROVE LifeEnds'
  BY <1>0, <1>6 DEF ArriveLast, Woken
<1>7. ASSUME NEW t \in Threads, BlockAgain(t) PROVE LifeEnds'
  BY <1>0, <1>7 DEF BlockAgain
<1>8. CASE DestroyLock
  BY <1>0, <1>8 DEF DestroyLock
<1>9. CASE DestroyWake
  BY <1>0, <1>9 DEF DestroyWake, Woken
<1>10. CASE CondDestroy \/ MutexDestroy \/ Free
  BY <1>0, <1>10 DEF CondDestroy, MutexDestroy, Free
<1>11. CASE UNCHANGED vars
  BY <1>0, <1>11 DEF vars
<1> QED
  BY <1>1, <1>2, <1>3, <1>4, <1>5, <1>6, <1>7, <1>8, <1>9, <1>10, <1>11
  DEF Next, ThreadStep, Destroy

-----------------------------------------------------------------------------
\* The invariant holds in every reachable state.
THEOREM InvariantHolds == Spec => []Invariant
<1>1. Invariant /\ [Next]_vars => Invariant'
  BY StepTypeOK, StepNobodyBlocked, StepHoldersAgree, StepPlaces,
     StepJoinedFirst, StepLifeEnds
  DEF Invariant
<1> QED
  BY InitInvariant, <1>1, PTL DEF Spec

\* mybarrier.c keeps its fields and its threads' states in range.
THEOREM TypeCorrect == Spec => []TypeOK
  BY InvariantHolds, PTL DEF Invariant

\* pthread_cond_destroy is never called on a condition somebody waits for.
THEOREM NobodyIsLeftBlocked == Spec => []NobodyBlockedAfterEvent
  BY InvariantHolds, PTL DEF Invariant

\* Waiters and destroyer are never in a critical section together.
THEOREM CriticalSections == Spec => []HoldersAgree
  BY InvariantHolds, PTL DEF Invariant

\* Destroying after joining is safe, for any number of threads.
THEOREM JoiningIsSafe == Spec => []SafeIfJoined
<1>1. Init => SafeIfJoined
  BY DEF Init, SafeIfJoined
<1>2. Invariant /\ SafeIfJoined /\ [Next]_vars => SafeIfJoined'
  <2> SUFFICES ASSUME Invariant, SafeIfJoined, [Next]_vars, joins',
                      NEW t \in Threads
               PROVE  pc'[t] # "undefined"
    BY DEF SafeIfJoined
  <2>1. joins
    BY DEF Next, ThreadStep, Call, Lock, UseDestroyed, TurnedAway, Arrive,
           ArriveLast, Leave, BlockAgain, Spurious, Destroy, DestroyLock,
           DestroyWake, CondDestroy, MutexDestroy, Free, vars
  <2>2. ASSUME NEW u \in Threads, UseDestroyed(u) PROVE FALSE
    BY <2>1, <2>2 DEF UseDestroyed, Invariant, LifeEnds, JoinedFirst
  <2>3. pc[t] # "undefined" /\ pc \in [Threads -> ThreadSteps]
    BY <2>1 DEF SafeIfJoined, Invariant, TypeOK
  <2> QED
    BY <2>2, <2>3
    DEF Next, ThreadStep, Call, Return, Lock, TurnedAway, Arrive, ArriveLast,
        Woken, Leave, BlockAgain, Spurious, Destroy, DestroyLock, DestroyWake,
        CondDestroy, MutexDestroy, Free, vars
<1> QED
  BY <1>1, <1>2, InvariantHolds, PTL DEF Spec

-----------------------------------------------------------------------------
\* The gate counts with the same Cardinality.
LEMMA SameCardinality == \A S : Gate!Cardinality(S) = Cardinality(S)
  BY Zenon DEF Gate!Cardinality, Cardinality, Gate!IsFiniteSet, IsFiniteSet

\* The barrier implements the one-shot gate, however main and the threads
\* interleave and whenever the barrier is destroyed.
THEOREM ImplementsGate == Spec => IsGate
<1> DEFINE isOpen == event_occured # 0
           passedBar == {t \in Threads : result[t] = "passed"}
           refusedBar == {t \in Threads : /\ pc[t] = "done"
                                          /\ result[t] = "refused"
                                          /\ barrier # "null"}
           gateBar == <<arrived, isOpen, passedBar, refusedBar>>
<1>1. Init => Gate!Init
  BY DEF Init, Gate!Init
<1>2. Invariant /\ [Next]_vars => [Gate!Next]_(Gate!gateVars)
  <2> SUFFICES ASSUME Invariant, [Next]_vars PROVE [Gate!Next]_gateBar
    BY DEF Gate!gateVars
  <2> USE DEF Invariant, TypeOK, ThreadSteps
  <2>1. ASSUME NEW t \in Threads, Call(t) PROVE UNCHANGED gateBar
    BY <2>1 DEF Call, Return, Places
  <2>2. ASSUME NEW t \in Threads,
               Lock(t) \/ UseDestroyed(t) \/ Spurious(t) \/ BlockAgain(t)
        PROVE  UNCHANGED gateBar
    BY <2>2 DEF Lock, UseDestroyed, Spurious, BlockAgain
  <2>3. ASSUME NEW t \in Threads, TurnedAway(t) PROVE [Gate!Refuse(t)]_gateBar
    <3>1. UNCHANGED <<arrived, isOpen, barrier>> /\ isOpen /\ t \notin arrived
      BY <2>3 DEF TurnedAway, Places
    <3>2. UNCHANGED passedBar
      BY <2>3 DEF TurnedAway, Return, Places
    <3>3. refusedBar' = refusedBar \cup {t} \/ UNCHANGED refusedBar
      BY <2>3 DEF TurnedAway, Return, Places
    <3> QED BY <3>1, <3>2, <3>3 DEF Gate!Refuse, Gate!gateVars
  <2>4. ASSUME NEW t \in Threads, Arrive(t) PROVE Gate!Arrive(t)
    <3>1. /\ ~isOpen /\ UNCHANGED isOpen
          /\ t \notin arrived /\ arrived' = arrived \cup {t}
      BY <2>4 DEF Arrive, Places
    <3>2. executed_count' = Cardinality(arrived') /\ executed_count' = executed_count + 1
      BY <2>4, StepPlaces DEF Arrive, Places, Next, ThreadStep
    <3>3. Gate!Cardinality(arrived') < Count
      BY <2>4, <3>2, CountAssumption, SameCardinality DEF Arrive
    <3>4. UNCHANGED passedBar /\ UNCHANGED refusedBar
      BY <2>4 DEF Arrive
    <3> QED BY <3>1, <3>3, <3>4 DEF Gate!Arrive
  <2>5. ASSUME NEW t \in Threads, ArriveLast(t) PROVE Gate!ArriveLast(t)
    <3>1. /\ ~isOpen /\ isOpen'
          /\ t \notin arrived /\ arrived' = arrived \cup {t}
      BY <2>5 DEF ArriveLast, Places
    <3>2. executed_count' = Cardinality(arrived') /\ executed_count' = executed_count + 1
      BY <2>5, StepPlaces DEF ArriveLast, Places, Next, ThreadStep
    <3>3. Gate!Cardinality(arrived') >= Count
      BY <2>5, <3>2, CountAssumption, SameCardinality DEF ArriveLast
    <3>4. passedBar' = passedBar \cup {t}
      BY <2>5 DEF ArriveLast
    <3>5. UNCHANGED refusedBar
      BY <2>5 DEF ArriveLast, Woken, Places
    <3> QED BY <3>1, <3>3, <3>4, <3>5 DEF Gate!ArriveLast
  <2>6. ASSUME NEW t \in Threads, Leave(t) PROVE Gate!Pass(t)
    <3>1. UNCHANGED <<arrived, isOpen>> /\ isOpen /\ t \in arrived
      BY <2>6 DEF Leave, Places
    <3>2. passedBar' = passedBar \cup {t} /\ UNCHANGED refusedBar
      BY <2>6 DEF Leave, Return, Places
    <3> QED BY <3>1, <3>2 DEF Gate!Pass
  <2>7. CASE DestroyWake
    <3>1. isOpen' = TRUE /\ UNCHANGED arrived
      BY <2>7 DEF DestroyWake
    <3>2. UNCHANGED passedBar /\ UNCHANGED refusedBar
      BY <2>7 DEF DestroyWake, Woken
    <3> QED BY <3>1, <3>2 DEF Gate!Next, Gate!TakeDown
  <2>8. CASE DestroyLock \/ CondDestroy
    BY <2>8 DEF DestroyLock, CondDestroy
  <2>9. CASE MutexDestroy \/ Free
    <3>1. /\ UNCHANGED <<arrived, isOpen, pc, result>>
          /\ barrier # "null" /\ barrier' # "null"
      BY <2>9 DEF MutexDestroy, Free, LifeEnds
    <3> QED BY <3>1
  <2>10. CASE UNCHANGED vars
    BY <2>10 DEF vars
  <2> QED
    BY <2>1, <2>2, <2>3, <2>4, <2>5, <2>6, <2>7, <2>8, <2>9, <2>10
    DEF Next, ThreadStep, Destroy, Gate!Next, Gate!gateVars
<1> QED
  BY <1>1, <1>2, InvariantHolds, PTL DEF Spec, IsGate, Gate!Spec

----------------------------------------------------------------------------
\* Where the pieces have a number.
PlacesIn(pieces) == {p \in Nat \X Nat : p[1] \in DOMAIN pieces /\ p[2] \in DOMAIN pieces[p[1]]}

\* The pieces hold the numbers, each once.
Hold(pieces, numbers) ==
    \E from \in Bijection(PlacesIn(pieces), DOMAIN numbers) :
        \A p \in PlacesIn(pieces) : pieces[p[1]][p[2]] = numbers[from[p]]

\* The pieces that are through are in order, if the file can be.
InOrder(through) == Fits(data) => \A i \in through : Ascending(sp_array[i])

SortInv ==
    /\ data \in Seq(Int)
    /\ sortPc \in {"qsort", "merge", "done"} =>
         sp_array \in Seq(Seq(Int)) /\ sp_array # <<>> /\ Hold(sp_array, data)
    /\ sortPc = "qsort" => InOrder(DOMAIN sp_array \ sorting) /\ sorting \subseteq DOMAIN sp_array
    /\ sortPc = "merge" =>
         /\ InOrder(DOMAIN sp_array)
         /\ Len(sp_array) > 1
         /\ output \in Seq(Seq(Int)) /\ Len(output) = Len(sp_array) \div 2
         /\ sorting \subseteq DOMAIN output
         /\ \A i \in DOMAIN output \ sorting : output[i] = Merge(sp_array[2 * i - 1], sp_array[2 * i])
    /\ sortPc = "done" => InOrder(DOMAIN sp_array) /\ Len(sp_array) = 1
\* Induction from 0 up to n.
LEMMA CountUp ==
    ASSUME NEW n \in Nat, NEW S, 0 \in S, \A k \in 0 .. n - 1 : k \in S => k + 1 \in S
    PROVE  0 .. n \subseteq S
<1> DEFINE Less == {p \in Nat \X Nat : p[1] < p[2]}
           N == (0 .. n) \ S
<1> SUFFICES ASSUME N # {} PROVE FALSE
  OBVIOUS
<1>1. IsWellFoundedOn(Less, Nat)
  BY NatLessThanWellFounded DEF OpToRel
<1>2. PICK m \in N : \A k \in N : ~(<<k, m>> \in Less)
  <2>1. N \subseteq Nat
    OBVIOUS
  <2> HIDE DEF Less, N
  <2> QED
    BY <1>1, <2>1, WFMin
<1>3. m \in 1 .. n
  OBVIOUS
<1>4. m - 1 \in 0 .. n - 1 /\ m - 1 \in 0 .. n /\ (m - 1) + 1 = m
  BY <1>3
<1>5. m - 1 \notin S
  BY <1>4
<1>6. <<m - 1, m>> \in Less
  BY <1>3, <1>4
<1> QED
  BY <1>2, <1>4, <1>5, <1>6

\* What a bijection is, in the terms the proofs use.
LEMMA BijectionIs ==
    ASSUME NEW S, NEW T, NEW f
    PROVE  f \in Bijection(S, T) <=> /\ f \in [S -> T]
                                     /\ \A x, y \in S : f[x] = f[y] => x = y
                                     /\ \A z \in T : \E x \in S : f[x] = z
  BY DEF Bijection, Injection, Surjection, IsInjective

\* How many of the first k elements of a merge are from s.
LEMMA TakenSteps ==
    ASSUME NEW s \in Seq(Int), NEW t \in Seq(Int)
    PROVE  LET taken == Taken(s, t)
               n == Len(s) + Len(t)
           IN  /\ n \in Nat
               /\ taken[0] = 0
               /\ \A k \in 1..n :
                    taken[k] = IF /\ taken[k - 1] < Len(s)
                                  /\ \/ k - 1 - taken[k - 1] = Len(t)
                                     \/ s[taken[k - 1] + 1] < t[k - 1 - taken[k - 1] + 1]
                               THEN taken[k - 1] + 1 ELSE taken[k - 1]
<1> DEFINE n == Len(s) + Len(t)
           Step(k, i) == IF i < Len(s) /\ (k - 1 - i = Len(t) \/ s[i + 1] < t[k - 1 - i + 1])
                         THEN i + 1 ELSE i
           Fix(m, f) == f = [k \in 0..m |-> IF k = 0 THEN 0 ELSE Step(k, f[k - 1])]
           Good == {m \in 0..n : \E f : Fix(m, f)}
<1>1. n \in Nat
  OBVIOUS
<1> HIDE DEF n
<1>2. 0 \in Good
  <2> DEFINE f == [k \in 0..0 |-> 0]
  <2>1. Fix(0, f)
    OBVIOUS
  <2> HIDE DEF Fix, f
  <2> QED
    BY <1>1, <2>1
<1>3. ASSUME NEW m \in 0..(n - 1), m \in Good PROVE m + 1 \in Good
  <2>1. PICK f : Fix(m, f)
    BY <1>3
  <2> DEFINE g == [k \in 0..(m + 1) |-> IF k = m + 1 THEN Step(m + 1, f[m]) ELSE f[k]]
  <2> HIDE DEF Step
  <2>2. \A k \in 0..m : f[k] = IF k = 0 THEN 0 ELSE Step(k, f[k - 1])
    BY <2>1
  <2>3. ASSUME NEW k \in 0..(m + 1) PROVE g[k] = IF k = 0 THEN 0 ELSE Step(k, g[k - 1])
    <3>0. m \in Nat /\ k \in Nat /\ m + 1 # 0 /\ (m + 1) - 1 = m
      BY <1>1
    <3>1. CASE k = m + 1
      <4>1. g[k] = Step(m + 1, f[m])
        BY <3>1
      <4>2. k - 1 = m /\ m \in 0..(m + 1) /\ m # m + 1
        BY <3>0, <3>1
      <4>3. g[k - 1] = f[m]
        BY <4>2
      <4> QED
        BY <3>0, <3>1, <4>1, <4>3
    <3>2. CASE k \in 0..m
      <4>1. k # m + 1 /\ g[k] = f[k]
        BY <3>0, <3>2
      <4>2. k # 0 => g[k - 1] = f[k - 1]
        BY <3>0, <3>2
      <4> QED
        BY <2>2, <3>2, <4>1, <4>2
    <3> QED
      BY <3>0, <3>1, <3>2
  <2>4. g = [k \in 0..(m + 1) |-> g[k]]
    OBVIOUS
  <2>5. Fix(m + 1, g)
    <3> HIDE DEF g
    <3> QED
      BY <2>3, <2>4
  <2>6. m + 1 \in 0..n
    BY <1>1
  <2> HIDE DEF Fix
  <2> QED
    BY <2>5, <2>6
<1>4. n \in Good
  <2>1. 0..n \subseteq Good
    <3> HIDE DEF Good
    <3> QED
      BY <1>1, <1>2, <1>3, CountUp
  <2> HIDE DEF Good
  <2> QED
    BY <1>1, <2>1
<1> DEFINE taken == CHOOSE f : Fix(n, f)
<1>5. Fix(n, taken)
  <2>1. \E f : Fix(n, f)
    BY <1>4
  <2> HIDE DEF Fix
  <2> QED
    BY <2>1
<1>6. Taken(s, t) = taken
  BY DEF Taken, n
<1> HIDE DEF taken
<1>7. \A k \in 0..n : taken[k] = IF k = 0 THEN 0 ELSE Step(k, taken[k - 1])
  BY <1>5
<1>8. taken[0] = 0 /\ \A k \in 1..n : taken[k] = Step(k, taken[k - 1])
  BY <1>1, <1>7
<1> QED
  BY <1>1, <1>6, <1>8 DEF n

\* Each element of a merge is the next one of s or the next one of t, and is
\* not greater than the next one of the other.
LEMMA MergeSteps ==
    ASSUME NEW s \in Seq(Int), NEW t \in Seq(Int)
    PROVE  LET taken == Taken(s, t)
               n == Len(s) + Len(t)
           IN  /\ n \in Nat /\ taken[0] = 0 /\ taken[n] = Len(s)
               /\ Merge(s, t) \in Seq(Int) /\ Len(Merge(s, t)) = n
               /\ \A k \in 0..n : taken[k] \in 0..Len(s) /\ k - taken[k] \in 0..Len(t)
               /\ \A k \in 1..n :
                    \/ /\ taken[k] = taken[k - 1] + 1
                       /\ Merge(s, t)[k] = s[taken[k]]
                       /\ k - taken[k] < Len(t) => s[taken[k]] <= t[k - taken[k] + 1]
                    \/ /\ taken[k] = taken[k - 1]
                       /\ k - taken[k] = (k - 1) - taken[k - 1] + 1
                       /\ Merge(s, t)[k] = t[k - taken[k]]
                       /\ taken[k] < Len(s) => t[k - taken[k]] <= s[taken[k] + 1]
<1> DEFINE taken == Taken(s, t)
           a == Len(s)
           b == Len(t)
           n == a + b
<1>0. n \in Nat /\ a \in Nat /\ b \in Nat /\ (\A i \in 1..a : s[i] \in Int) /\ (\A i \in 1..b : t[i] \in Int)
  BY ElementOfSeq
<1>1. /\ taken[0] = 0
      /\ \A k \in 1..n :
           taken[k] = IF /\ taken[k - 1] < a
                         /\ \/ k - 1 - taken[k - 1] = b
                            \/ s[taken[k - 1] + 1] < t[k - 1 - taken[k - 1] + 1]
                      THEN taken[k - 1] + 1 ELSE taken[k - 1]
  BY TakenSteps
<1>2. Merge(s, t) = [k \in 1..n |-> IF taken[k] > taken[k - 1] THEN s[taken[k]] ELSE t[k - taken[k]]]
  BY DEF Merge
<1> HIDE DEF taken, a, b, n
<1> DEFINE Good == {k \in 0..n : taken[k] \in 0..a /\ k - taken[k] \in 0..b}
<1>3. 0 \in Good
  BY <1>0, <1>1
<1>4. ASSUME NEW k \in 0..(n - 1), k \in Good PROVE k + 1 \in Good
  <2>1. k + 1 \in 1..n /\ k + 1 \in 0..n /\ (k + 1) - 1 = k
    BY <1>0
  <2>2. taken[k] \in 0..a /\ k - taken[k] \in 0..b
    BY <1>4
  <2>3. taken[k + 1] = IF taken[k] < a /\ (k - taken[k] = b \/ s[taken[k] + 1] < t[k - taken[k] + 1])
                       THEN taken[k] + 1 ELSE taken[k]
    <3>1. taken[k + 1] = IF /\ taken[(k + 1) - 1] < a
                            /\ \/ (k + 1) - 1 - taken[(k + 1) - 1] = b
                               \/ s[taken[(k + 1) - 1] + 1] < t[(k + 1) - 1 - taken[(k + 1) - 1] + 1]
                         THEN taken[(k + 1) - 1] + 1 ELSE taken[(k + 1) - 1]
      BY <1>1, <2>1
    <3> QED
      BY <2>1, <3>1
  <2>4. \/ taken[k + 1] = taken[k] + 1 /\ taken[k] < a
        \/ taken[k + 1] = taken[k] /\ (k - taken[k] # b \/ ~(taken[k] < a))
    BY <2>3
  <2>5. k < n /\ n = a + b
    BY <1>0 DEF n
  <2>6. taken[k + 1] \in 0..a /\ (k + 1) - taken[k + 1] \in 0..b
    <3> DEFINE i == taken[k]
    <3>1. i \in 0..a /\ k - i \in 0..b /\ k < a + b /\ k \in Nat
      BY <2>2, <2>5
    <3>2. (taken[k + 1] = i + 1 /\ i < a) \/ (taken[k + 1] = i /\ (k - i # b \/ ~(i < a)))
      BY <2>4
    <3> HIDE DEF i
    <3>3. CASE taken[k + 1] = i + 1 /\ i < a
      BY <1>0, <3>1, <3>3
    <3>4. CASE taken[k + 1] = i /\ (k - i # b \/ ~(i < a))
      BY <1>0, <3>1, <3>4
    <3> QED
      BY <3>2, <3>3, <3>4
  <2> QED
    BY <2>1, <2>6
<1>5. \A k \in 0..n : taken[k] \in 0..a /\ k - taken[k] \in 0..b
  <2>1. 0..n \subseteq Good
    <3> HIDE DEF Good
    <3> QED
      BY <1>0, <1>3, <1>4, CountUp
  <2> QED
    BY <2>1
<1>6. taken[n] = a
  <2>1. n \in 0..n /\ n = a + b
    BY <1>0 DEF n
  <2> QED
    BY <1>0, <1>5, <2>1
<1>7. ASSUME NEW k \in 1..n
      PROVE  /\ \/ /\ taken[k] = taken[k - 1] + 1
                   /\ Merge(s, t)[k] = s[taken[k]]
                   /\ k - taken[k] < b => s[taken[k]] <= t[k - taken[k] + 1]
                \/ /\ taken[k] = taken[k - 1]
                   /\ k - taken[k] = (k - 1) - taken[k - 1] + 1
                   /\ Merge(s, t)[k] = t[k - taken[k]]
                   /\ taken[k] < a => t[k - taken[k]] <= s[taken[k] + 1]
             /\ Merge(s, t)[k] \in Int
  <2> DEFINE i == taken[k - 1]
             j == (k - 1) - i
  <2>1. i \in 0..a /\ j \in 0..b /\ taken[k] \in 0..a /\ k - taken[k] \in 0..b /\ k \in Nat /\ k - 1 \in Nat
    BY <1>0, <1>5
  <2>2. taken[k] = IF i < a /\ (j = b \/ s[i + 1] < t[j + 1]) THEN i + 1 ELSE i
    BY <1>1
  <2>3. Merge(s, t)[k] = IF taken[k] > i THEN s[taken[k]] ELSE t[k - taken[k]]
    BY <1>2
  <2>4. taken[k] = i + 1 => k - taken[k] = j
    BY <2>1
  <2>5. taken[k] = i => k - taken[k] = j + 1
    BY <2>1
  <2>6. CASE i < a /\ (j = b \/ s[i + 1] < t[j + 1])
    <3>1. taken[k] = i + 1 /\ k - taken[k] = j
      BY <2>2, <2>4, <2>6
    <3> HIDE DEF j
    <3>2. Merge(s, t)[k] = s[taken[k]]
      BY <2>1, <2>3, <3>1
    <3>3. k - taken[k] < b => s[taken[k]] <= t[k - taken[k] + 1]
      <4>1. j < b => s[i + 1] \in Int /\ t[j + 1] \in Int
        BY <1>0, <2>1, <2>6 DEF j
      <4>2. j < b => s[i + 1] < t[j + 1]
        BY <1>0, <2>6
      <4>3. j < b => s[i + 1] <= t[j + 1]
        BY <4>1, <4>2
      <4> QED
        BY <3>1, <4>3
    <3>4. s[taken[k]] \in Int
      BY <1>0, <2>1, <2>6, <3>1
    <3> QED
      BY <3>1, <3>2, <3>3, <3>4
  <2>7. CASE ~(i < a /\ (j = b \/ s[i + 1] < t[j + 1]))
    <3>1. taken[k] = i /\ k - taken[k] = j + 1
      BY <2>2, <2>5, <2>7
    <3>2. Merge(s, t)[k] = t[k - taken[k]]
      BY <2>1, <2>3, <3>1
    <3>3. j + 1 \in 1..b
      BY <1>0, <2>1, <3>1
    <3>4. taken[k] < a => t[k - taken[k]] <= s[taken[k] + 1]
      <4> HIDE DEF j
      <4>1. i < a => s[i + 1] \in Int /\ t[j + 1] \in Int
        BY <1>0, <2>1, <3>3
      <4>2. i < a => ~(s[i + 1] < t[j + 1])
        BY <2>7
      <4> QED
        BY <3>1, <4>1, <4>2
    <3> QED
      BY <1>0, <3>1, <3>2, <3>3, <3>4
  <2> QED
    BY <2>6, <2>7
<1>8. Merge(s, t) \in Seq(Int) /\ Len(Merge(s, t)) = n
  <2>1. Merge(s, t) \in [1..n -> Int]
    BY <1>2, <1>7
  <2> QED
    BY <1>0, <2>1
<1> QED
  BY <1>0, <1>1, <1>5, <1>6, <1>7, <1>8 DEF taken, a, b, n

\* The counts grow, and every element of either piece has its turn.
LEMMA MergeTurns ==
    ASSUME NEW s \in Seq(Int), NEW t \in Seq(Int)
    PROVE  LET taken == Taken(s, t)
               n == Len(s) + Len(t)
           IN  /\ \A p \in 0..n, q \in 0..n :
                    p <= q => taken[p] <= taken[q] /\ p - taken[p] <= q - taken[q]
               /\ \A i \in 1..Len(s) : \E k \in 1..n : taken[k] = i /\ taken[k - 1] < taken[k]
               /\ \A j \in 1..Len(t) : \E k \in 1..n : k - taken[k] = j /\ taken[k] = taken[k - 1]
<1> DEFINE taken == Taken(s, t)
           a == Len(s)
           b == Len(t)
           n == a + b
<1>0. n \in Nat /\ a \in Nat /\ b \in Nat
  OBVIOUS
<1>1. /\ taken[0] = 0 /\ taken[n] = a
      /\ \A k \in 0..n : taken[k] \in 0..a /\ k - taken[k] \in 0..b
      /\ \A k \in 1..n : \/ taken[k] = taken[k - 1] + 1
                         \/ taken[k] = taken[k - 1] /\ k - taken[k] = (k - 1) - taken[k - 1] + 1
  BY MergeSteps
<1> HIDE DEF taken, a, b, n
<1>2. \A k \in 0..n : taken[k] \in Nat /\ k - taken[k] \in Nat
  BY <1>0, <1>1
<1>3. ASSUME NEW k \in 0..(n - 1)
      PROVE  /\ k + 1 \in 1..n /\ k + 1 \in 0..n /\ k \in 0..n /\ (k + 1) - 1 = k
             /\ \/ taken[k + 1] = taken[k] + 1 /\ (k + 1) - taken[k + 1] = k - taken[k]
                \/ taken[k + 1] = taken[k] /\ (k + 1) - taken[k + 1] = k - taken[k] + 1
  <2>1. k + 1 \in 1..n /\ k + 1 \in 0..n /\ k \in 0..n /\ (k + 1) - 1 = k
    BY <1>0
  <2>2. \/ taken[k + 1] = taken[(k + 1) - 1] + 1
        \/ /\ taken[k + 1] = taken[(k + 1) - 1]
           /\ (k + 1) - taken[k + 1] = ((k + 1) - 1) - taken[(k + 1) - 1] + 1
    BY <1>1, <2>1
  <2>3. taken[k + 1] = taken[k] + 1 => (k + 1) - taken[k + 1] = k - taken[k]
    BY <1>2, <2>1
  <2> QED
    BY <2>1, <2>2, <2>3
<1>4. ASSUME NEW p \in 0..n, NEW q \in 0..n, p <= q
      PROVE  taken[p] <= taken[q] /\ p - taken[p] <= q - taken[q]
  <2> DEFINE Good == {k \in 0..n : p <= k => taken[p] <= taken[k] /\ p - taken[p] <= k - taken[k]}
  <2>1. 0 \in Good
    BY <1>0, <1>2
  <2>2. ASSUME NEW k \in 0..(n - 1), k \in Good PROVE k + 1 \in Good
    <3>1. CASE p = k + 1
      BY <1>2, <1>3, <3>1
    <3>2. CASE p <= k
      <4>1. taken[p] <= taken[k] /\ p - taken[p] <= k - taken[k]
        BY <2>2, <3>2
      <4>2. taken[k] <= taken[k + 1] /\ k - taken[k] <= (k + 1) - taken[k + 1]
        <5> DEFINE x == taken[k]
                   u == k - taken[k]
        <5>1. x \in Nat /\ u \in Nat
          BY <1>2, <1>3
        <5>2. \/ taken[k + 1] = x + 1 /\ (k + 1) - taken[k + 1] = u
              \/ taken[k + 1] = x /\ (k + 1) - taken[k + 1] = u + 1
          BY <1>3
        <5>3. x <= x + 1 /\ x <= x /\ u <= u /\ u <= u + 1
          BY <5>1
        <5> HIDE DEF x, u
        <5>4. x <= taken[k + 1] /\ u <= (k + 1) - taken[k + 1]
          BY <5>2, <5>3
        <5> QED
          BY <5>4 DEF x, u
      <4>3. taken[p] \in Nat /\ taken[k] \in Nat /\ taken[k + 1] \in Nat
        BY <1>2, <1>3
      <4>4. taken[p] <= taken[k + 1] /\ p - taken[p] <= (k + 1) - taken[k + 1]
        BY <4>1, <4>2, <4>3
      <4> QED
        BY <1>3, <4>4
    <3>3. CASE ~(p <= k + 1)
      BY <1>3, <3>3
    <3> QED
      BY <3>1, <3>2, <3>3
  <2>3. 0..n \subseteq Good
    <3> HIDE DEF Good
    <3> QED
      BY <1>0, <2>1, <2>2, CountUp
  <2> QED
    BY <1>4, <2>3
<1> DEFINE Met == {k \in 0..n : \A i \in 1..taken[k] : \E q \in 1..n : taken[q] = i /\ taken[q - 1] < taken[q]}
<1>5. 0 \in Met
  BY <1>0, <1>1
<1>6. ASSUME NEW k \in 0..(n - 1), k \in Met PROVE k + 1 \in Met
  <2>1. \A i \in 1..taken[k] : \E q \in 1..n : taken[q] = i /\ taken[q - 1] < taken[q]
    BY <1>6
  <2>2. CASE taken[k + 1] = taken[k]
    BY <1>3, <2>1, <2>2
  <2>3. CASE taken[k + 1] = taken[k] + 1
    <3>1. \A i \in 1..taken[k + 1] : i \in 1..taken[k] \/ i = taken[k + 1]
      BY <1>2, <1>3, <2>3
    <3>2. taken[(k + 1) - 1] < taken[k + 1]
      BY <1>2, <1>3, <2>3
    <3>3. \A i \in 1..taken[k + 1] : \E q \in 1..n : taken[q] = i /\ taken[q - 1] < taken[q]
      BY <1>3, <2>1, <3>1, <3>2
    <3> QED
      BY <1>3, <3>3
  <2> QED
    BY <1>3, <2>2, <2>3
<1>7. \A i \in 1..a : \E k \in 1..n : taken[k] = i /\ taken[k - 1] < taken[k]
  <2>1. 0..n \subseteq Met
    <3> HIDE DEF Met
    <3> QED
      BY <1>0, <1>5, <1>6, CountUp
  <2>2. n \in Met
    <3> HIDE DEF Met
    <3> QED
      BY <1>0, <2>1
  <2> QED
    BY <1>1, <2>2
<1> DEFINE Seen == {k \in 0..n : \A j \in 1..(k - taken[k]) : \E q \in 1..n : q - taken[q] = j /\ taken[q] = taken[q - 1]}
<1>8. 0 \in Seen
  BY <1>0, <1>1
<1>9. ASSUME NEW k \in 0..(n - 1), k \in Seen PROVE k + 1 \in Seen
  <2>1. \A j \in 1..(k - taken[k]) : \E q \in 1..n : q - taken[q] = j /\ taken[q] = taken[q - 1]
    BY <1>9
  <2>2. CASE (k + 1) - taken[k + 1] = k - taken[k]
    BY <1>3, <2>1, <2>2
  <2>3. CASE taken[k + 1] = taken[k] /\ (k + 1) - taken[k + 1] = k - taken[k] + 1
    <3>1. \A j \in 1..((k + 1) - taken[k + 1]) : j \in 1..(k - taken[k]) \/ j = (k + 1) - taken[k + 1]
      BY <1>2, <1>3, <2>3
    <3>2. taken[k + 1] = taken[(k + 1) - 1]
      BY <1>3, <2>3
    <3>3. \A j \in 1..((k + 1) - taken[k + 1]) : \E q \in 1..n : q - taken[q] = j /\ taken[q] = taken[q - 1]
      BY <1>3, <2>1, <3>1, <3>2
    <3> QED
      BY <1>3, <3>3
  <2> QED
    BY <1>3, <2>2, <2>3
<1>10. \A j \in 1..b : \E k \in 1..n : k - taken[k] = j /\ taken[k] = taken[k - 1]
  <2>1. 0..n \subseteq Seen
    <3> HIDE DEF Seen
    <3> QED
      BY <1>0, <1>8, <1>9, CountUp
  <2>2. n \in Seen
    <3> HIDE DEF Seen
    <3> QED
      BY <1>0, <2>1
  <2>3. n - taken[n] = b
    BY <1>0, <1>1 DEF n
  <2> QED
    BY <2>2, <2>3
<1> QED
  BY <1>4, <1>7, <1>10 DEF taken, a, b, n

\* Two pieces in order are merged into one in order.
LEMMA MergeAscends ==
    ASSUME NEW s \in Seq(Int), NEW t \in Seq(Int), Ascending(s), Ascending(t)
    PROVE  Ascending(Merge(s, t))
<1> DEFINE taken == Taken(s, t)
           m == Merge(s, t)
           a == Len(s)
           b == Len(t)
           n == a + b
<1>0. n \in Nat /\ a \in Nat /\ b \in Nat /\ (\A i \in 1..a : s[i] \in Int) /\ (\A i \in 1..b : t[i] \in Int)
  BY ElementOfSeq
<1>1. /\ DOMAIN m = 1..n
      /\ \A k \in 0..n : taken[k] \in 0..a /\ k - taken[k] \in 0..b
      /\ \A k \in 1..n :
           \/ /\ taken[k] = taken[k - 1] + 1
              /\ m[k] = s[taken[k]]
              /\ k - taken[k] < b => s[taken[k]] <= t[k - taken[k] + 1]
           \/ /\ taken[k] = taken[k - 1]
              /\ k - taken[k] = (k - 1) - taken[k - 1] + 1
              /\ m[k] = t[k - taken[k]]
              /\ taken[k] < a => t[k - taken[k]] <= s[taken[k] + 1]
  <2>1. m \in Seq(Int) /\ Len(m) = n
    BY MergeSteps
  <2>2. DOMAIN m = 1..n
    BY <2>1
  <2> QED
    BY <2>2, MergeSteps
<1> DEFINE Turn(k) ==
             \/ /\ taken[k] = taken[k - 1] + 1
                /\ m[k] = s[taken[k]]
                /\ k - taken[k] < b => s[taken[k]] <= t[k - taken[k] + 1]
             \/ /\ taken[k] = taken[k - 1]
                /\ k - taken[k] = (k - 1) - taken[k - 1] + 1
                /\ m[k] = t[k - taken[k]]
                /\ taken[k] < a => t[k - taken[k]] <= s[taken[k] + 1]
<1>t. \A k \in 1..n : Turn(k)
  BY <1>1
<1>2. \A p \in 0..n, q \in 0..n : p <= q => taken[p] <= taken[q] /\ p - taken[p] <= q - taken[q]
  BY MergeTurns
<1>3. /\ \A i, j \in 1..a : i <= j => s[i] <= s[j]
      /\ \A i, j \in 1..b : i <= j => t[i] <= t[j]
  <2>1. DOMAIN s = 1..a /\ DOMAIN t = 1..b
    OBVIOUS
  <2>2. \A i, j \in 1..a : i < j => s[i] <= s[j]
    BY <2>1 DEF Ascending
  <2>3. \A i, j \in 1..b : i < j => t[i] <= t[j]
    BY <2>1 DEF Ascending
  <2> HIDE DEF a, b
  <2>4. \A i, j \in 1..a : i <= j => s[i] <= s[j]
    <3> SUFFICES ASSUME NEW i \in 1..a, NEW j \in 1..a, i <= j PROVE s[i] <= s[j]
      OBVIOUS
    <3>1. s[i] \in Int /\ (i < j \/ i = j)
      BY <1>0
    <3> QED
      BY <2>2, <3>1
  <2>5. \A i, j \in 1..b : i <= j => t[i] <= t[j]
    <3> SUFFICES ASSUME NEW i \in 1..b, NEW j \in 1..b, i <= j PROVE t[i] <= t[j]
      OBVIOUS
    <3>1. t[i] \in Int /\ (i < j \/ i = j)
      BY <1>0
    <3> QED
      BY <2>3, <3>1
  <2> QED
    BY <2>4, <2>5
<1> HIDE DEF taken, m, a, b, n, Turn
<1>4. ASSUME NEW p \in 1..n, NEW q \in 1..n, p < q PROVE m[p] <= m[q]
  <2>t. Turn(p) /\ Turn(q)
    BY <1>t
  <2> DEFINE i == taken[p]
             j == p - taken[p]
             k == taken[q]
             l == q - taken[q]
  <2>1. i \in 0..a /\ j \in 0..b /\ k \in 0..a /\ l \in 0..b /\ i <= k /\ j <= l
    BY <1>0, <1>1, <1>2, <1>4
  <2>2. /\ p \in 0..n /\ p - 1 \in 0..n /\ q - 1 \in 0..n /\ p <= q - 1
        /\ taken[p - 1] \in Nat /\ taken[q - 1] \in Nat /\ taken[p - 1] <= i /\ i <= taken[q - 1]
        /\ j <= (q - 1) - taken[q - 1]
    <3>1. p \in 0..n /\ p - 1 \in 0..n /\ q - 1 \in 0..n /\ p <= q - 1
      BY <1>0, <1>4
    <3>2. taken[p - 1] <= i /\ i <= taken[q - 1] /\ j <= (q - 1) - taken[q - 1]
      BY <1>2, <3>1
    <3> QED
      BY <1>0, <1>1, <3>1, <3>2
  <2>3. \/ /\ i > 0 /\ m[p] = s[i]
           /\ j < b => s[i] <= t[j + 1]
        \/ /\ j > 0 /\ m[p] = t[j]
           /\ i < a => t[j] <= s[i + 1]
    <3> DEFINE x == taken[p - 1]
               y == (p - 1) - taken[p - 1]
    <3>1. \/ i = x + 1 /\ m[p] = s[i] /\ (j < b => s[i] <= t[j + 1])
          \/ j = y + 1 /\ m[p] = t[j] /\ (i < a => t[j] <= s[i + 1])
      BY <2>t DEF Turn
    <3>2. x \in Nat /\ y \in Nat
      BY <1>0, <1>1, <2>2
    <3> HIDE DEF x, y, i, j
    <3>3. (i = x + 1 => i > 0) /\ (j = y + 1 => j > 0)
      BY <3>2
    <3> QED
      BY <3>1, <3>3
  <2>4. \/ /\ k > i /\ m[q] = s[k]
        \/ /\ l > j /\ m[q] = t[l]
    <3> DEFINE x == taken[q - 1]
               y == (q - 1) - taken[q - 1]
    <3>1. \/ k = x + 1 /\ m[q] = s[k]
          \/ l = y + 1 /\ m[q] = t[l]
      BY <2>t DEF Turn
    <3>2. i \in Nat /\ j \in Nat
      BY <2>1
    <3>3. x \in Nat /\ y \in Int /\ i <= x /\ j <= y
      BY <2>2
    <3> HIDE DEF x, y, i, j, k, l
    <3>4. (k = x + 1 => k > i) /\ (l = y + 1 => l > j)
      BY <3>2, <3>3
    <3> QED
      BY <3>1, <3>4
  <2> HIDE DEF i, j, k, l
  <2>5. ASSUME i > 0, m[p] = s[i], j < b => s[i] <= t[j + 1] PROVE m[p] <= m[q]
    <3>1. i \in 1..a /\ s[i] \in Int
      BY <1>0, <2>1, <2>5
    <3>2. CASE k > i /\ m[q] = s[k]
      <4>1. k \in 1..a /\ i <= k
        BY <1>0, <2>1, <3>2
      <4> QED
        BY <1>3, <2>5, <3>1, <3>2, <4>1
    <3>3. CASE l > j /\ m[q] = t[l]
      <4>1. l \in 1..b /\ j + 1 \in 1..b /\ j + 1 <= l /\ j < b
        BY <1>0, <2>1, <3>3
      <4>2. s[i] <= t[j + 1] /\ t[j + 1] <= t[l] /\ t[l] \in Int /\ t[j + 1] \in Int
        BY <1>0, <1>3, <2>5, <4>1
      <4> QED
        BY <2>5, <3>1, <3>3, <4>2
    <3> QED
      BY <2>4, <3>2, <3>3
  <2>6. ASSUME j > 0, m[p] = t[j], i < a => t[j] <= s[i + 1] PROVE m[p] <= m[q]
    <3>1. j \in 1..b /\ t[j] \in Int
      BY <1>0, <2>1, <2>6
    <3>2. CASE k > i /\ m[q] = s[k]
      <4>1. k \in 1..a /\ i + 1 \in 1..a /\ i + 1 <= k /\ i < a
        BY <1>0, <2>1, <3>2
      <4>2. t[j] <= s[i + 1] /\ s[i + 1] <= s[k] /\ s[k] \in Int /\ s[i + 1] \in Int
        BY <1>0, <1>3, <2>6, <4>1
      <4> QED
        BY <2>6, <3>1, <3>2, <4>2
    <3>3. CASE l > j /\ m[q] = t[l]
      <4>1. l \in 1..b /\ j <= l
        BY <1>0, <2>1, <3>3
      <4> QED
        BY <1>3, <2>6, <3>1, <3>3, <4>1
    <3> QED
      BY <2>4, <3>2, <3>3
  <2> QED
    BY <2>3, <2>5, <2>6
<1> QED
  BY <1>1, <1>4 DEF Ascending, m

\* Pieces that have the numbers of others hold what these held.
LEMMA Rearranged ==
    ASSUME NEW old, NEW new, NEW numbers, Hold(old, numbers),
           NEW f \in Bijection(PlacesIn(new), PlacesIn(old)),
           \A p \in PlacesIn(new) : new[p[1]][p[2]] = old[f[p][1]][f[p][2]]
    PROVE  Hold(new, numbers)
<1>1. PICK from \in Bijection(PlacesIn(old), DOMAIN numbers) :
        \A p \in PlacesIn(old) : old[p[1]][p[2]] = numbers[from[p]]
  BY DEF Hold
<1>2. /\ from \in [PlacesIn(old) -> DOMAIN numbers]
      /\ \A x, y \in PlacesIn(old) : from[x] = from[y] => x = y
      /\ \A z \in DOMAIN numbers : \E x \in PlacesIn(old) : from[x] = z
  BY BijectionIs
<1>3. /\ f \in [PlacesIn(new) -> PlacesIn(old)]
      /\ \A x, y \in PlacesIn(new) : f[x] = f[y] => x = y
      /\ \A z \in PlacesIn(old) : \E x \in PlacesIn(new) : f[x] = z
  BY BijectionIs
<1> DEFINE g == [p \in PlacesIn(new) |-> from[f[p]]]
<1>4. g \in Bijection(PlacesIn(new), DOMAIN numbers)
  <2>1. g \in [PlacesIn(new) -> DOMAIN numbers]
    BY <1>2, <1>3
  <2>2. \A x, y \in PlacesIn(new) : g[x] = g[y] => x = y
    BY <1>2, <1>3
  <2>3. ASSUME NEW z \in DOMAIN numbers PROVE \E x \in PlacesIn(new) : g[x] = z
    <3>1. PICK y \in PlacesIn(old) : from[y] = z
      BY <1>2
    <3>2. PICK x \in PlacesIn(new) : f[x] = y
      BY <1>3
    <3> QED
      BY <3>1, <3>2
  <2> HIDE DEF g
  <2> QED
    BY <2>1, <2>2, <2>3, BijectionIs
<1>5. \A p \in PlacesIn(new) : new[p[1]][p[2]] = numbers[g[p]]
  BY <1>1, <1>3
<1> HIDE DEF g
<1> QED
  BY <1>4, <1>5 DEF Hold

\* The places of pieces are the pairs of a piece and a position in it.
LEMMA PlaceIs ==
    ASSUME NEW pieces \in Seq(Seq(Int))
    PROVE  /\ \A i, k : <<i, k>> \in PlacesIn(pieces) <=> i \in 1..Len(pieces) /\ k \in 1..Len(pieces[i])
           /\ \A p \in PlacesIn(pieces) : p = <<p[1], p[2]>> /\ <<p[1], p[2]>> \in PlacesIn(pieces)
           /\ \A i \in 1..Len(pieces) : pieces[i] \in Seq(Int) /\ Len(pieces[i]) \in Nat
<1>1. DOMAIN pieces = 1..Len(pieces) /\ Len(pieces) \in Nat
  OBVIOUS
<1>2. ASSUME NEW i \in 1..Len(pieces)
      PROVE  pieces[i] \in Seq(Int) /\ Len(pieces[i]) \in Nat /\ DOMAIN pieces[i] = 1..Len(pieces[i])
  <2>1. pieces[i] \in Seq(Int)
    BY ElementOfSeq
  <2> QED
    BY <2>1
<1>3. ASSUME NEW i, NEW k
      PROVE  <<i, k>> \in PlacesIn(pieces) <=> i \in 1..Len(pieces) /\ k \in 1..Len(pieces[i])
  <2>1. <<i, k>> \in PlacesIn(pieces) <=> i \in Nat /\ k \in Nat /\ i \in DOMAIN pieces /\ k \in DOMAIN pieces[i]
    BY DEF PlacesIn
  <2>2. i \in 1..Len(pieces) => i \in Nat
    OBVIOUS
  <2>3. i \in 1..Len(pieces) /\ k \in 1..Len(pieces[i]) => k \in Nat
    BY <1>2
  <2> QED
    BY <1>1, <1>2, <2>1, <2>2, <2>3
<1>4. \A p \in PlacesIn(pieces) : p = <<p[1], p[2]>>
  BY DEF PlacesIn
<1> QED
  BY <1>2, <1>3, <1>4

\* A piece that is put in another order.
LEMMA PieceSorted ==
    ASSUME NEW pieces \in Seq(Seq(Int)), NEW numbers, Hold(pieces, numbers),
           NEW i \in 1..Len(pieces), NEW o \in Orders(pieces[i])
    PROVE  /\ [pieces EXCEPT ![i] = o] \in Seq(Seq(Int))
           /\ Len([pieces EXCEPT ![i] = o]) = Len(pieces)
           /\ Hold([pieces EXCEPT ![i] = o], numbers)
<1> DEFINE new == [pieces EXCEPT ![i] = o]
           s == pieces[i]
<1>1. s \in Seq(Int) /\ DOMAIN s = 1..Len(s) /\ Len(s) \in Nat
  BY PlaceIs
<1>2. PICK perm \in Bijection(DOMAIN s, DOMAIN s) : o = [k \in DOMAIN s |-> s[perm[k]]]
  BY DEF Orders
<1>3. /\ perm \in [DOMAIN s -> DOMAIN s]
      /\ \A x, y \in DOMAIN s : perm[x] = perm[y] => x = y
      /\ \A z \in DOMAIN s : \E x \in DOMAIN s : perm[x] = z
  BY BijectionIs
<1>4. o \in Seq(Int) /\ Len(o) = Len(s)
  <2>1. \A k \in 1..Len(s) : s[perm[k]] \in Int
    BY <1>1, <1>3, ElementOfSeq
  <2> DEFINE n == Len(s)
  <2>2. o \in [1..n -> Int] /\ n \in Nat
    BY <1>1, <1>2, <2>1
  <2> HIDE DEF n
  <2>3. o \in Seq(Int) /\ Len(o) = n
    BY <2>2
  <2> QED
    BY <2>3 DEF n
<1>5. new \in Seq(Seq(Int)) /\ Len(new) = Len(pieces)
  BY <1>4
<1>6. new[i] = o /\ \A j \in 1..Len(pieces) \ {i} : new[j] = pieces[j]
  OBVIOUS
<1> HIDE DEF new, s
<1>7. \A j \in 1..Len(pieces) : Len(new[j]) = Len(pieces[j])
  BY <1>4, <1>6 DEF s
<1>8. \A j, k : <<j, k>> \in PlacesIn(new) <=> <<j, k>> \in PlacesIn(pieces)
  <2>1. \A j, k : <<j, k>> \in PlacesIn(new) <=> j \in 1..Len(new) /\ k \in 1..Len(new[j])
    BY <1>5, PlaceIs
  <2>2. \A j, k : <<j, k>> \in PlacesIn(pieces) <=> j \in 1..Len(pieces) /\ k \in 1..Len(pieces[j])
    BY PlaceIs
  <2> SUFFICES ASSUME NEW j, NEW k PROVE <<j, k>> \in PlacesIn(new) <=> <<j, k>> \in PlacesIn(pieces)
    OBVIOUS
  <2>3. 1..Len(new) = 1..Len(pieces)
    BY <1>5
  <2>4. j \in 1..Len(pieces) => 1..Len(new[j]) = 1..Len(pieces[j])
    BY <1>7
  <2> QED
    BY <2>1, <2>2, <2>3, <2>4
<1>9. /\ \A p \in PlacesIn(new) : p = <<p[1], p[2]>> /\ <<p[1], p[2]>> \in PlacesIn(new)
      /\ \A p \in PlacesIn(pieces) : p = <<p[1], p[2]>> /\ <<p[1], p[2]>> \in PlacesIn(pieces)
  BY <1>5, PlaceIs
<1>10. \A k : <<i, k>> \in PlacesIn(pieces) <=> k \in DOMAIN s
  BY <1>1, PlaceIs DEF s
<1> DEFINE f == [p \in PlacesIn(new) |-> IF p[1] = i THEN <<i, perm[p[2]]>> ELSE p]
<1>11. \A j, k : <<j, k>> \in PlacesIn(new) => f[<<j, k>>] = IF j = i THEN <<i, perm[k]>> ELSE <<j, k>>
  OBVIOUS
<1>12. f \in [PlacesIn(new) -> PlacesIn(pieces)]
  <2>1. ASSUME NEW p \in PlacesIn(new) PROVE (IF p[1] = i THEN <<i, perm[p[2]]>> ELSE p) \in PlacesIn(pieces)
    <3>1. p = <<p[1], p[2]>> /\ <<p[1], p[2]>> \in PlacesIn(pieces)
      BY <1>8, <1>9
    <3>2. p[1] = i => p[2] \in DOMAIN s /\ perm[p[2]] \in DOMAIN s
      BY <1>3, <1>10, <3>1
    <3> QED
      BY <1>10, <3>1, <3>2
  <2> QED
    BY <2>1
<1>13. ASSUME NEW x \in PlacesIn(new), NEW y \in PlacesIn(new), f[x] = f[y] PROVE x = y
  <2>1. /\ x = <<x[1], x[2]>> /\ <<x[1], x[2]>> \in PlacesIn(pieces)
        /\ y = <<y[1], y[2]>> /\ <<y[1], y[2]>> \in PlacesIn(pieces)
    BY <1>8, <1>9
  <2>2. /\ f[x] = IF x[1] = i THEN <<i, perm[x[2]]>> ELSE x
        /\ f[y] = IF y[1] = i THEN <<i, perm[y[2]]>> ELSE y
    OBVIOUS
  <2>a. f[x] = f[y]
    BY <1>13
  <2> HIDE DEF f
  <2>b. /\ f[x][1] = x[1] /\ f[x][2] = IF x[1] = i THEN perm[x[2]] ELSE x[2]
        /\ f[y][1] = y[1] /\ f[y][2] = IF y[1] = i THEN perm[y[2]] ELSE y[2]
    BY <2>2
  <2>3. x[1] = y[1]
    BY <2>a, <2>b
  <2>4. CASE x[1] = i
    <3>0. perm[x[2]] = perm[y[2]]
      BY <2>a, <2>b, <2>3, <2>4
    <3>1. x[2] \in DOMAIN s /\ y[2] \in DOMAIN s /\ perm[x[2]] = perm[y[2]]
      BY <1>10, <2>1, <2>3, <2>4, <3>0
    <3>2. x[2] = y[2]
      BY <1>3, <3>1
    <3> QED
      BY <2>1, <2>3, <3>2
  <2>5. CASE x[1] # i
    BY <2>a, <2>2, <2>3, <2>5
  <2> QED
    BY <2>4, <2>5
<1>14. ASSUME NEW z \in PlacesIn(pieces) PROVE \E x \in PlacesIn(new) : f[x] = z
  <2>1. z = <<z[1], z[2]>> /\ <<z[1], z[2]>> \in PlacesIn(new)
    BY <1>8, <1>9
  <2>2. CASE z[1] = i
    <3>1. PICK k \in DOMAIN s : perm[k] = z[2]
      <4>1. z[2] \in DOMAIN s
        BY <1>8, <1>10, <2>1, <2>2
      <4> QED
        BY <1>3, <4>1
    <3>2. <<i, k>> \in PlacesIn(new)
      BY <1>8, <1>10
    <3>3. f[<<i, k>>] = <<i, z[2]>>
      BY <1>11, <3>1, <3>2
    <3> HIDE DEF f
    <3> QED
      BY <2>1, <2>2, <3>2, <3>3
  <2>3. CASE z[1] # i
    <3>1. f[<<z[1], z[2]>>] = <<z[1], z[2]>>
      BY <1>11, <2>1, <2>3
    <3> HIDE DEF f
    <3> QED
      BY <2>1, <3>1
  <2> QED
    BY <2>2, <2>3
<1>15. ASSUME NEW p \in PlacesIn(new) PROVE new[p[1]][p[2]] = pieces[f[p][1]][f[p][2]]
  <2>1. p = <<p[1], p[2]>> /\ <<p[1], p[2]>> \in PlacesIn(pieces)
    BY <1>8, <1>9
  <2>2. f[p] = IF p[1] = i THEN <<i, perm[p[2]]>> ELSE p
    OBVIOUS
  <2> HIDE DEF f
  <2>3. CASE p[1] = i
    <3>1. p[2] \in DOMAIN s
      BY <1>10, <2>1, <2>3
    <3>2. new[p[1]][p[2]] = s[perm[p[2]]]
      BY <1>2, <1>6, <2>3, <3>1
    <3>3. f[p][1] = i /\ f[p][2] = perm[p[2]]
      BY <2>2, <2>3
    <3> QED
      BY <3>2, <3>3 DEF s
  <2>4. CASE p[1] # i
    <3>1. p[1] \in 1..Len(pieces)
      BY <2>1, PlaceIs
    <3> QED
      BY <1>6, <2>2, <2>4, <3>1
  <2> QED
    BY <2>3, <2>4
<1> HIDE DEF f
<1>16. f \in Bijection(PlacesIn(new), PlacesIn(pieces))
  BY <1>12, <1>13, <1>14, BijectionIs
<1>17. Hold(new, numbers)
  BY <1>15, <1>16, Rearranged
<1> QED
  BY <1>5, <1>17 DEF new

\* Which of the two pieces the k-th element of their merge is from, 1 for the
\* first and 0 for the second, and where it was there.
Side(s, t, k) == IF Taken(s, t)[k] > Taken(s, t)[k - 1] THEN 1 ELSE 0
At(s, t, k) == IF Side(s, t, k) = 1 THEN Taken(s, t)[k] ELSE k - Taken(s, t)[k]

\* A merge takes each element of the two pieces once.
TakesEach(s, t, n) ==
    /\ \A k \in 1..n : \/ Side(s, t, k) = 1 /\ At(s, t, k) \in 1..Len(s) /\ Merge(s, t)[k] = s[At(s, t, k)]
                       \/ Side(s, t, k) = 0 /\ At(s, t, k) \in 1..Len(t) /\ Merge(s, t)[k] = t[At(s, t, k)]
    /\ \A k, l \in 1..n : Side(s, t, k) = Side(s, t, l) /\ At(s, t, k) = At(s, t, l) => k = l
    /\ \A i \in 1..Len(s) : \E k \in 1..n : Side(s, t, k) = 1 /\ At(s, t, k) = i
    /\ \A j \in 1..Len(t) : \E k \in 1..n : Side(s, t, k) = 0 /\ At(s, t, k) = j

LEMMA MergeTakesEach ==
    ASSUME NEW s \in Seq(Int), NEW t \in Seq(Int)
    PROVE  TakesEach(s, t, Len(s) + Len(t))
<1> DEFINE taken == Taken(s, t)
           m == Merge(s, t)
           a == Len(s)
           b == Len(t)
           n == a + b
<1>0. n \in Nat /\ a \in Nat /\ b \in Nat
  OBVIOUS
<1>1. /\ \A k \in 0..n : taken[k] \in 0..a /\ k - taken[k] \in 0..b
      /\ \A k \in 1..n : \/ taken[k] = taken[k - 1] + 1 /\ m[k] = s[taken[k]]
                         \/ /\ taken[k] = taken[k - 1] /\ m[k] = t[k - taken[k]]
                            /\ k - taken[k] = (k - 1) - taken[k - 1] + 1
  BY MergeSteps
<1>2. /\ \A p \in 0..n, q \in 0..n : p <= q => taken[p] <= taken[q] /\ p - taken[p] <= q - taken[q]
      /\ \A i \in 1..a : \E k \in 1..n : taken[k] = i /\ taken[k - 1] < taken[k]
      /\ \A j \in 1..b : \E k \in 1..n : k - taken[k] = j /\ taken[k] = taken[k - 1]
  BY MergeTurns
<1>3. \A k : /\ Side(s, t, k) = IF taken[k] > taken[k - 1] THEN 1 ELSE 0
             /\ At(s, t, k) = IF Side(s, t, k) = 1 THEN taken[k] ELSE k - taken[k]
  BY DEF Side, At
<1> HIDE DEF taken, m, a, b, n
<1>4. \A k \in 1..n : k \in 0..n /\ k - 1 \in 0..n /\ taken[k] \in Nat /\ taken[k - 1] \in Nat
  BY <1>0, <1>1
<1>5. ASSUME NEW k \in 1..n
      PROVE  \/ /\ Side(s, t, k) = 1 /\ At(s, t, k) \in 1..a /\ m[k] = s[At(s, t, k)]
                /\ At(s, t, k) = taken[k] /\ taken[k] = taken[k - 1] + 1
             \/ /\ Side(s, t, k) = 0 /\ At(s, t, k) \in 1..b /\ m[k] = t[At(s, t, k)]
                /\ At(s, t, k) = k - taken[k] /\ k - taken[k] = (k - 1) - taken[k - 1] + 1
                /\ taken[k] = taken[k - 1]
  <2>1. CASE taken[k] = taken[k - 1] + 1 /\ m[k] = s[taken[k]]
    <3>1. taken[k] > taken[k - 1] /\ taken[k] # 0
      BY <1>4, <2>1
    <3>2. taken[k] \in 1..a
      BY <1>0, <1>1, <1>4, <3>1
    <3> QED
      BY <1>3, <2>1, <3>1, <3>2
  <2>2. CASE /\ taken[k] = taken[k - 1] /\ m[k] = t[k - taken[k]]
             /\ k - taken[k] = (k - 1) - taken[k - 1] + 1
    <3>1. ~(taken[k] > taken[k - 1])
      BY <1>4, <2>2
    <3>2. k - taken[k] # 0
      BY <1>0, <1>1, <1>4, <2>2
    <3>3. k - taken[k] \in 1..b
      BY <1>0, <1>1, <1>4, <3>2
    <3> QED
      BY <1>3, <2>2, <3>1, <3>3
  <2> QED
    BY <1>1, <2>1, <2>2
<1>6. ASSUME NEW k \in 1..n, NEW l \in 1..n, k < l,
             Side(s, t, k) = Side(s, t, l), At(s, t, k) = At(s, t, l)
      PROVE  FALSE
  <2>1. l - 1 \in 0..n /\ k \in 0..n /\ k <= l - 1
    BY <1>0, <1>6
  <2>2. taken[k] <= taken[l - 1] /\ k - taken[k] <= (l - 1) - taken[l - 1]
    BY <1>2, <2>1
  <2>a. Side(s, t, k) = Side(s, t, l) /\ At(s, t, k) = At(s, t, l)
    BY <1>6
  <2>b. taken[k] \in Nat /\ taken[l - 1] \in Nat /\ k \in Nat /\ l \in Nat
    BY <1>4, <1>0
  <2>c. \/ Side(s, t, l) = 1 /\ At(s, t, l) = taken[l - 1] + 1
        \/ Side(s, t, l) = 0 /\ At(s, t, l) = (l - 1) - taken[l - 1] + 1
    <3>1. \/ Side(s, t, l) = 1 /\ At(s, t, l) = taken[l] /\ taken[l] = taken[l - 1] + 1
          \/ /\ Side(s, t, l) = 0 /\ At(s, t, l) = l - taken[l]
             /\ l - taken[l] = (l - 1) - taken[l - 1] + 1
      BY <1>5
    <3> QED
      BY <3>1
  <2>d. \/ Side(s, t, k) = 1 /\ At(s, t, k) = taken[k]
        \/ Side(s, t, k) = 0 /\ At(s, t, k) = k - taken[k]
    BY <1>5
  <2>e. taken[k] # taken[l - 1] + 1 /\ k - taken[k] # (l - 1) - taken[l - 1] + 1
    <3> DEFINE x == taken[k]
               y == taken[l - 1]
    <3>1. x \in Nat /\ y \in Nat /\ k \in Nat /\ l \in Nat /\ x <= y /\ k - x <= (l - 1) - y
      BY <2>2, <2>b
    <3> HIDE DEF x, y
    <3>2. x # y + 1 /\ k - x # (l - 1) - y + 1
      BY <3>1
    <3> QED
      BY <3>2 DEF x, y
  <2> QED
    BY <2>a, <2>c, <2>d, <2>e
<1>7. \A k, l \in 1..n : Side(s, t, k) = Side(s, t, l) /\ At(s, t, k) = At(s, t, l) => k = l
  <2> SUFFICES ASSUME NEW k \in 1..n, NEW l \in 1..n,
                      Side(s, t, k) = Side(s, t, l), At(s, t, k) = At(s, t, l)
               PROVE  k = l
    OBVIOUS
  <2>1. k < l \/ l < k \/ k = l
    OBVIOUS
  <2> QED
    BY <1>6, <2>1
<1>8. ASSUME NEW i \in 1..a PROVE \E k \in 1..n : Side(s, t, k) = 1 /\ At(s, t, k) = i
  <2>1. PICK k \in 1..n : taken[k] = i /\ taken[k - 1] < taken[k]
    BY <1>2
  <2>2. Side(s, t, k) = 1
    BY <1>3, <1>4, <2>1
  <2> QED
    BY <1>3, <2>1, <2>2
<1>9. ASSUME NEW j \in 1..b PROVE \E k \in 1..n : Side(s, t, k) = 0 /\ At(s, t, k) = j
  <2>1. PICK k \in 1..n : k - taken[k] = j /\ taken[k] = taken[k - 1]
    BY <1>2
  <2>2. Side(s, t, k) = 0
    BY <1>3, <1>4, <2>1
  <2>3. At(s, t, k) = k - taken[k]
    BY <1>3, <2>2
  <2> QED
    BY <2>1, <2>2, <2>3
<1>10. \A k \in 1..n : \/ Side(s, t, k) = 1 /\ At(s, t, k) \in 1..Len(s) /\ Merge(s, t)[k] = s[At(s, t, k)]
                       \/ Side(s, t, k) = 0 /\ At(s, t, k) \in 1..Len(t) /\ Merge(s, t)[k] = t[At(s, t, k)]
  <2>1. ASSUME NEW k \in 1..n
        PROVE  \/ Side(s, t, k) = 1 /\ At(s, t, k) \in 1..a /\ m[k] = s[At(s, t, k)]
               \/ Side(s, t, k) = 0 /\ At(s, t, k) \in 1..b /\ m[k] = t[At(s, t, k)]
    BY <1>5
  <2> QED
    BY <2>1 DEF a, b, m
<1>11. \A i \in 1..Len(s) : \E k \in 1..n : Side(s, t, k) = 1 /\ At(s, t, k) = i
  BY <1>8 DEF a
<1>12. \A j \in 1..Len(t) : \E k \in 1..n : Side(s, t, k) = 0 /\ At(s, t, k) = j
  BY <1>9 DEF b
<1>13. TakesEach(s, t, n)
  BY <1>7, <1>10, <1>11, <1>12 DEF TakesEach
<1> QED
  BY <1>13 DEF a, b, n

\* The pieces that go into the next round.
NextRound(old, merged) == IF Len(old) % 2 = 1 THEN Append(merged, Last(old)) ELSE merged

\* The pieces of the next round are the merged pairs and the odd piece, if any.
LEMMA NextRoundIs ==
    ASSUME NEW old \in Seq(Seq(Int)), old # <<>>, NEW merged \in Seq(Seq(Int)), Len(merged) = Len(old) \div 2
    PROVE  LET new == NextRound(old, merged)
               m == Len(merged)
               n == Len(old)
           IN  /\ new \in Seq(Seq(Int)) /\ new # <<>>
               /\ m \in Nat /\ n \in Nat
               /\ \A i \in 1..m : i \in 1..Len(new) /\ new[i] = merged[i] /\ 2 * i - 1 \in 1..n /\ 2 * i \in 1..n
               /\ \/ n = 2 * m + 1 /\ Len(new) = m + 1 /\ new[m + 1] = old[n]
                  \/ n = 2 * m /\ Len(new) = m
<1> DEFINE m == Len(merged)
           n == Len(old)
           new == NextRound(old, merged)
<1>1. m \in Nat /\ n \in Nat /\ n # 0 /\ m = n \div 2
  OBVIOUS
<1> HIDE DEF m, n
<1>2. (n % 2 = 1 /\ n = 2 * m + 1) \/ (n % 2 # 1 /\ n = 2 * m)
  BY <1>1
<1>3. \A i \in 1..m : 2 * i - 1 \in 1..n /\ 2 * i \in 1..n
  BY <1>1, <1>2
<1>4. CASE n % 2 = 1
  <2>1. old[n] \in Seq(Int)
    BY <1>1, ElementOfSeq DEF n
  <2>2. Last(old) = old[n]
    BY DEF Last, n
  <2>3. new = Append(merged, old[n])
    BY <1>4, <2>2 DEF NextRound, n
  <2>4. new \in Seq(Seq(Int)) /\ Len(new) = m + 1 /\ new[m + 1] = old[n] /\ (\A i \in 1..m : new[i] = merged[i])
    BY <2>1, <2>3 DEF m
  <2>5. new # <<>> /\ \A i \in 1..m : i \in 1..(m + 1)
    BY <1>1, <2>4
  <2> HIDE DEF new
  <2> QED
    BY <1>1, <1>2, <1>3, <1>4, <2>4, <2>5 DEF new, m, n
<1>5. CASE n % 2 # 1
  <2>1. new = merged
    BY <1>5 DEF NextRound, n
  <2>2. new \in Seq(Seq(Int)) /\ Len(new) = m
    BY <2>1 DEF m
  <2>3. m # 0 /\ new # <<>>
    BY <1>1, <1>2, <1>5, <2>2
  <2> HIDE DEF new
  <2> QED
    BY <1>1, <1>2, <1>3, <1>5, <2>1, <2>2, <2>3 DEF new, m, n
<1> QED
  BY <1>4, <1>5

\* A round of merges loses no number and adds none.
LEMMA RoundHolds ==
    ASSUME NEW old \in Seq(Seq(Int)), old # <<>>,
           NEW merged \in Seq(Seq(Int)), Len(merged) = Len(old) \div 2,
           \A i \in 1..Len(merged) : merged[i] = Merge(old[2 * i - 1], old[2 * i]),
           NEW numbers, Hold(old, numbers)
    PROVE  Hold(NextRound(old, merged), numbers)
<1> DEFINE new == NextRound(old, merged)
           m == Len(merged)
           n == Len(old)
           S(i, k) == Side(old[2 * i - 1], old[2 * i], k)
           A(i, k) == At(old[2 * i - 1], old[2 * i], k)
           size(i) == Len(old[2 * i - 1]) + Len(old[2 * i])
<1>1. /\ new \in Seq(Seq(Int)) /\ new # <<>>
      /\ m \in Nat /\ n \in Nat
      /\ \A i \in 1..m : i \in 1..Len(new) /\ new[i] = merged[i] /\ 2 * i - 1 \in 1..n /\ 2 * i \in 1..n
      /\ \/ n = 2 * m + 1 /\ Len(new) = m + 1 /\ new[m + 1] = old[n]
         \/ n = 2 * m /\ Len(new) = m
  BY NextRoundIs
<1>2. \A i \in 1..m : old[2 * i - 1] \in Seq(Int) /\ old[2 * i] \in Seq(Int)
  BY <1>1, PlaceIs
<1>3. ASSUME NEW i \in 1..m
      PROVE  /\ Len(new[i]) = size(i)
             /\ \A k \in 1..size(i) :
                  \/ S(i, k) = 1 /\ A(i, k) \in 1..Len(old[2 * i - 1]) /\ new[i][k] = old[2 * i - 1][A(i, k)]
                  \/ S(i, k) = 0 /\ A(i, k) \in 1..Len(old[2 * i]) /\ new[i][k] = old[2 * i][A(i, k)]
             /\ \A k, l \in 1..size(i) : S(i, k) = S(i, l) /\ A(i, k) = A(i, l) => k = l
             /\ \A j \in 1..Len(old[2 * i - 1]) : \E k \in 1..size(i) : S(i, k) = 1 /\ A(i, k) = j
             /\ \A j \in 1..Len(old[2 * i]) : \E k \in 1..size(i) : S(i, k) = 0 /\ A(i, k) = j
  <2> DEFINE s == old[2 * i - 1]
             t == old[2 * i]
  <2>1. s \in Seq(Int) /\ t \in Seq(Int)
    BY <1>2
  <2>2. new[i] = Merge(s, t)
    BY <1>1
  <2> HIDE DEF s, t, new
  <2>3. Len(Merge(s, t)) = Len(s) + Len(t)
    BY <2>1, MergeSteps
  <2>b. TakesEach(s, t, Len(s) + Len(t))
    BY <2>1, MergeTakesEach
  <2>5. Len(new[i]) = Len(s) + Len(t)
    BY <2>2, <2>3
  <2>6. \A k : S(i, k) = Side(s, t, k) /\ A(i, k) = At(s, t, k)
    BY DEF s, t
  <2>7. size(i) = Len(s) + Len(t)
    BY DEF s, t
  <2>4. TakesEach(s, t, size(i))
    BY <2>b, <2>7
  <2> HIDE DEF S, A, size
  <2>8. /\ \A k \in 1..size(i) :
             \/ S(i, k) = 1 /\ A(i, k) \in 1..Len(s) /\ new[i][k] = s[A(i, k)]
             \/ S(i, k) = 0 /\ A(i, k) \in 1..Len(t) /\ new[i][k] = t[A(i, k)]
        /\ \A k, l \in 1..size(i) : S(i, k) = S(i, l) /\ A(i, k) = A(i, l) => k = l
        /\ \A j \in 1..Len(s) : \E k \in 1..size(i) : S(i, k) = 1 /\ A(i, k) = j
        /\ \A j \in 1..Len(t) : \E k \in 1..size(i) : S(i, k) = 0 /\ A(i, k) = j
    <3>1. \A k \in 1..size(i) :
             \/ S(i, k) = 1 /\ A(i, k) \in 1..Len(s) /\ new[i][k] = s[A(i, k)]
             \/ S(i, k) = 0 /\ A(i, k) \in 1..Len(t) /\ new[i][k] = t[A(i, k)]
      <4> TAKE k \in 1..size(i)
      <4>1. \/ Side(s, t, k) = 1 /\ At(s, t, k) \in 1..Len(s) /\ Merge(s, t)[k] = s[At(s, t, k)]
            \/ Side(s, t, k) = 0 /\ At(s, t, k) \in 1..Len(t) /\ Merge(s, t)[k] = t[At(s, t, k)]
        BY <2>4 DEF TakesEach
      <4>2. S(i, k) = Side(s, t, k) /\ A(i, k) = At(s, t, k)
        BY <2>6
      <4> QED
        BY <2>2, <4>1, <4>2
    <3>2. \A k, l \in 1..size(i) : S(i, k) = S(i, l) /\ A(i, k) = A(i, l) => k = l
      BY <2>4, <2>6 DEF TakesEach
    <3>3. \A j \in 1..Len(s) : \E k \in 1..size(i) : S(i, k) = 1 /\ A(i, k) = j
      BY <2>4, <2>6 DEF TakesEach
    <3>4. \A j \in 1..Len(t) : \E k \in 1..size(i) : S(i, k) = 0 /\ A(i, k) = j
      BY <2>4, <2>6 DEF TakesEach
    <3> QED
      BY <3>1, <3>2, <3>3, <3>4
  <2> QED
    BY <2>5, <2>7, <2>8 DEF s, t
<1> HIDE DEF new, m, n, S, A, size
<1> DEFINE f == [p \in PlacesIn(new) |->
                   IF p[1] <= m THEN <<2 * p[1] - S(p[1], p[2]), A(p[1], p[2])>> ELSE <<n, p[2]>>]
<1>4. /\ \A p \in PlacesIn(new) : p = <<p[1], p[2]>> /\ p[1] \in 1..Len(new) /\ p[2] \in 1..Len(new[p[1]])
      /\ \A p \in PlacesIn(old) : p = <<p[1], p[2]>> /\ p[1] \in 1..n /\ p[2] \in 1..Len(old[p[1]])
  BY <1>1, PlaceIs DEF n
<1>5. /\ \A i, k : <<i, k>> \in PlacesIn(new) <=> i \in 1..Len(new) /\ k \in 1..Len(new[i])
      /\ \A i, k : <<i, k>> \in PlacesIn(old) <=> i \in 1..n /\ k \in 1..Len(old[i])
  BY <1>1, PlaceIs DEF n
\* Where a place of the next round is from.
<1>6. ASSUME NEW p \in PlacesIn(new)
      PROVE  /\ f[p] \in PlacesIn(old) /\ f[p] = <<f[p][1], f[p][2]>>
             /\ new[p[1]][p[2]] = old[f[p][1]][f[p][2]]
             /\ \/ /\ p[1] \in 1..m /\ p[2] \in 1..size(p[1])
                   /\ f[p][1] = 2 * p[1] - S(p[1], p[2]) /\ f[p][2] = A(p[1], p[2])
                   /\ S(p[1], p[2]) \in {0, 1}
                \/ p[1] = m + 1 /\ n = 2 * m + 1 /\ f[p][1] = n /\ f[p][2] = p[2]
  <2> DEFINE i == p[1]
             k == p[2]
  <2>1. i \in 1..Len(new) /\ k \in 1..Len(new[i])
    BY <1>4
  <2>2. f[p] = IF i <= m THEN <<2 * i - S(i, k), A(i, k)>> ELSE <<n, k>>
    OBVIOUS
  <2> HIDE DEF f, i, k
  <2>3. CASE i \in 1..m
    <3>1. k \in 1..size(i) /\ i <= m
      BY <1>1, <1>3, <2>1, <2>3
    <3>2. f[p] = <<2 * i - S(i, k), A(i, k)>> /\ f[p][1] = 2 * i - S(i, k) /\ f[p][2] = A(i, k)
      BY <2>2, <3>1
    <3>3. 2 * i - 1 \in 1..n /\ 2 * i \in 1..n /\ 2 * i - 0 = 2 * i
      BY <1>1, <2>3
    <3>4. \/ S(i, k) = 1 /\ A(i, k) \in 1..Len(old[2 * i - 1]) /\ new[i][k] = old[2 * i - 1][A(i, k)]
          \/ S(i, k) = 0 /\ A(i, k) \in 1..Len(old[2 * i]) /\ new[i][k] = old[2 * i][A(i, k)]
      BY <1>3, <2>3, <3>1
    <3>5. /\ f[p][1] \in 1..n /\ f[p][2] \in 1..Len(old[f[p][1]])
          /\ new[i][k] = old[f[p][1]][f[p][2]] /\ S(i, k) \in {0, 1}
      <4>1. CASE S(i, k) = 1 /\ A(i, k) \in 1..Len(old[2 * i - 1]) /\ new[i][k] = old[2 * i - 1][A(i, k)]
        BY <3>2, <3>3, <4>1
      <4>2. CASE S(i, k) = 0 /\ A(i, k) \in 1..Len(old[2 * i]) /\ new[i][k] = old[2 * i][A(i, k)]
        BY <3>2, <3>3, <4>2
      <4> QED
        BY <3>4, <4>1, <4>2
    <3>6. f[p] \in PlacesIn(old) /\ f[p] = <<f[p][1], f[p][2]>>
      BY <1>5, <3>2, <3>5
    <3> QED
      BY <2>3, <3>1, <3>2, <3>5, <3>6 DEF i, k
  <2>4. CASE i \notin 1..m
    <3>1. i = m + 1 /\ n = 2 * m + 1 /\ new[i] = old[n] /\ ~(i <= m) /\ n \in 1..n
      <4>1. i \in Int /\ 1 <= i /\ i <= Len(new)
        BY <1>1, <2>1
      <4>2. ~(i <= m)
        BY <1>1, <2>4, <4>1
      <4>3. Len(new) # m /\ i = m + 1
        BY <1>1, <4>1, <4>2
      <4> QED
        BY <1>1, <4>2, <4>3
    <3>2. f[p] = <<n, k>> /\ f[p][1] = n /\ f[p][2] = k
      BY <2>2, <3>1
    <3>a. k \in 1..Len(old[n])
      BY <2>1, <3>1
    <3>b. <<n, k>> \in PlacesIn(old)
      BY <1>5, <3>a, <3>1
    <3>3. f[p] \in PlacesIn(old)
      BY <3>b, <3>2
    <3> QED
      BY <3>1, <3>2, <3>3 DEF i, k
  <2> QED
    BY <2>3, <2>4
<1>7. f \in [PlacesIn(new) -> PlacesIn(old)]
  BY <1>6
<1>8. \A i, k : <<i, k>> \in PlacesIn(new) /\ i <= m => f[<<i, k>>] = <<2 * i - S(i, k), A(i, k)>>
  OBVIOUS
<1>9. \A i, k : <<i, k>> \in PlacesIn(new) /\ ~(i <= m) => f[<<i, k>>] = <<n, k>>
  OBVIOUS
<1> HIDE DEF f
<1>10. ASSUME NEW x \in PlacesIn(new), NEW y \in PlacesIn(new), f[x] = f[y] PROVE x = y
  <2>1. x = <<x[1], x[2]>> /\ y = <<y[1], y[2]>> /\ f[x][1] = f[y][1] /\ f[x][2] = f[y][2]
    BY <1>4, <1>10
  <2>2. CASE x[1] \in 1..m /\ y[1] \in 1..m
    <3>1. /\ 2 * x[1] - S(x[1], x[2]) = 2 * y[1] - S(y[1], y[2])
          /\ A(x[1], x[2]) = A(y[1], y[2])
          /\ S(x[1], x[2]) \in {0, 1} /\ S(y[1], y[2]) \in {0, 1}
          /\ x[2] \in 1..size(x[1]) /\ y[2] \in 1..size(y[1])
      <4>1. \A p \in PlacesIn(new) : p[1] \in 1..m =>
              /\ p[2] \in 1..size(p[1])
              /\ f[p][1] = 2 * p[1] - S(p[1], p[2]) /\ f[p][2] = A(p[1], p[2])
              /\ S(p[1], p[2]) \in {0, 1}
        <5> SUFFICES ASSUME NEW p \in PlacesIn(new), p[1] \in 1..m
                     PROVE  /\ p[2] \in 1..size(p[1])
                            /\ f[p][1] = 2 * p[1] - S(p[1], p[2]) /\ f[p][2] = A(p[1], p[2])
                            /\ S(p[1], p[2]) \in {0, 1}
          OBVIOUS
        <5>1. p[1] # m + 1
          BY <1>1
        <5> QED
          BY <1>6, <5>1
      <4> QED
        BY <2>1, <2>2, <4>1
    <3>2. x[1] = y[1] /\ S(x[1], x[2]) = S(y[1], y[2])
      <4>1. \A i, j \in Nat : \A a, b \in {0, 1} : 2 * i - a = 2 * j - b => i = j /\ a = b
        OBVIOUS
      <4>2. x[1] \in Nat /\ y[1] \in Nat
        BY <2>2
      <4> QED
        BY <3>1, <4>1, <4>2
    <3>3. x[2] = y[2]
      <4> DEFINE i == x[1]
                 k == x[2]
                 l == y[2]
      <4>1. i \in 1..m /\ k \in 1..size(i) /\ l \in 1..size(i) /\ S(i, k) = S(i, l) /\ A(i, k) = A(i, l)
        BY <2>2, <3>1, <3>2
      <4> HIDE DEF i, k, l
      <4>2. k = l
        BY <1>3, <4>1
      <4> QED
        BY <4>2 DEF k, l
    <3> QED
      BY <2>1, <3>2, <3>3
  <2>3. CASE x[1] \notin 1..m /\ y[1] \notin 1..m
    BY <1>6, <2>1, <2>3
  <2>4. ASSUME NEW p \in PlacesIn(new), NEW q \in PlacesIn(new), p[1] \in 1..m, q[1] \notin 1..m, f[p][1] = f[q][1]
        PROVE  FALSE
    <3>1. p[1] \in 1..m /\ f[p][1] = 2 * p[1] - S(p[1], p[2]) /\ S(p[1], p[2]) \in {0, 1}
      BY <1>1, <1>6, <2>4
    <3>2. n = 2 * m + 1 /\ f[q][1] = n
      BY <1>6, <2>4
    <3>3. f[p][1] <= 2 * m
      BY <1>1, <3>1
    <3> QED
      BY <1>1, <2>4, <3>2, <3>3
  <2> QED
    BY <2>1, <2>2, <2>3, <2>4
<1>11. ASSUME NEW z \in PlacesIn(old) PROVE \E x \in PlacesIn(new) : f[x] = z
  <2> DEFINE i == z[1]
             j == z[2]
  <2>1. z = <<i, j>> /\ i \in 1..n /\ j \in 1..Len(old[i])
    BY <1>4
  <2> HIDE DEF i, j
  <2>2. \/ n = 2 * m + 1 /\ i = n
        \/ \E h \in 1..m : i = 2 * h - 1
        \/ \E h \in 1..m : i = 2 * h
    <3>1. i % 2 = 0 => i = 2 * (i \div 2) /\ i \div 2 \in Nat
      BY <2>1
    <3>2. i % 2 = 1 => i = 2 * (i \div 2 + 1) - 1 /\ i \div 2 \in Nat
      BY <2>1
    <3>3. i % 2 = 0 \/ i % 2 = 1
      BY <2>1
    <3>4. CASE i % 2 = 0
      <4>1. i \div 2 \in 1..m
        BY <1>1, <2>1, <3>1, <3>4
      <4> QED
        BY <3>1, <3>4, <4>1
    <3>5. CASE i % 2 = 1 /\ ~(n = 2 * m + 1 /\ i = n)
      <4>1. i \div 2 + 1 \in 1..m
        BY <1>1, <2>1, <3>2, <3>5
      <4> QED
        BY <3>2, <3>5, <4>1
    <3> QED
      BY <3>3, <3>4, <3>5
  <2>3. CASE n = 2 * m + 1 /\ i = n
    <3>1. Len(new) = m + 1 /\ new[m + 1] = old[n] /\ m + 1 \in 1..Len(new) /\ ~(m + 1 <= m)
      BY <1>1, <2>3
    <3>2. <<m + 1, j>> \in PlacesIn(new)
      BY <1>5, <2>1, <2>3, <3>1
    <3>3. f[<<m + 1, j>>] = <<n, j>>
      BY <1>9, <3>1, <3>2
    <3> QED
      BY <2>1, <2>3, <3>2, <3>3
  <2>4. ASSUME NEW h \in 1..m, i = 2 * h - 1 PROVE \E x \in PlacesIn(new) : f[x] = z
    <3>1. PICK k \in 1..size(h) : S(h, k) = 1 /\ A(h, k) = j
      BY <1>3, <2>1, <2>4
    <3>2. <<h, k>> \in PlacesIn(new) /\ h <= m
      <4>1. h \in 1..Len(new) /\ h <= m
        BY <1>1
      <4>2. k \in 1..Len(new[h])
        BY <1>3, <3>1
      <4> QED
        BY <1>5, <4>1, <4>2
    <3>3. f[<<h, k>>] = <<i, j>>
      BY <1>8, <2>4, <3>1, <3>2
    <3> QED
      BY <2>1, <3>2, <3>3
  <2>5. ASSUME NEW h \in 1..m, i = 2 * h PROVE \E x \in PlacesIn(new) : f[x] = z
    <3>1. PICK k \in 1..size(h) : S(h, k) = 0 /\ A(h, k) = j
      BY <1>3, <2>1, <2>5
    <3>2. <<h, k>> \in PlacesIn(new) /\ h <= m
      <4>1. h \in 1..Len(new) /\ h <= m
        BY <1>1
      <4>2. k \in 1..Len(new[h])
        BY <1>3, <3>1
      <4> QED
        BY <1>5, <4>1, <4>2
    <3>3. f[<<h, k>>] = <<i, j>>
      <4>1. 2 * h - 0 = 2 * h
        BY <1>1
      <4> QED
        BY <1>8, <2>5, <3>1, <3>2, <4>1
    <3> QED
      BY <2>1, <3>2, <3>3
  <2> QED
    BY <2>2, <2>3, <2>4, <2>5
<1>12. f \in Bijection(PlacesIn(new), PlacesIn(old))
  BY <1>7, <1>10, <1>11, BijectionIs
<1>13. \A p \in PlacesIn(new) : new[p[1]][p[2]] = old[f[p][1]][f[p][2]]
  BY <1>6
<1> QED
  BY <1>12, <1>13, Rearranged DEF new

\* A round of merges of pieces in order makes pieces in order.
LEMMA RoundAscends ==
    ASSUME NEW old \in Seq(Seq(Int)), old # <<>>,
           NEW merged \in Seq(Seq(Int)), Len(merged) = Len(old) \div 2,
           \A i \in 1..Len(merged) : merged[i] = Merge(old[2 * i - 1], old[2 * i]),
           \A i \in DOMAIN old : Ascending(old[i])
    PROVE  \A i \in DOMAIN NextRound(old, merged) : Ascending(NextRound(old, merged)[i])
<1> DEFINE new == NextRound(old, merged)
           m == Len(merged)
           n == Len(old)
<1>1. /\ new \in Seq(Seq(Int)) /\ m \in Nat /\ n \in Nat
      /\ \A i \in 1..m : i \in 1..Len(new) /\ new[i] = merged[i] /\ 2 * i - 1 \in 1..n /\ 2 * i \in 1..n
      /\ \/ n = 2 * m + 1 /\ Len(new) = m + 1 /\ new[m + 1] = old[n]
         \/ n = 2 * m /\ Len(new) = m
  BY NextRoundIs
<1>2. DOMAIN old = 1..n
  OBVIOUS
<1> HIDE DEF new
<1>3. DOMAIN new = 1..Len(new)
  BY <1>1
<1>4. ASSUME NEW i \in 1..m PROVE Ascending(new[i])
  <2>1. new[i] = Merge(old[2 * i - 1], old[2 * i])
    BY <1>1
  <2>2. old[2 * i - 1] \in Seq(Int) /\ old[2 * i] \in Seq(Int)
    BY <1>1, PlaceIs
  <2>3. Ascending(old[2 * i - 1]) /\ Ascending(old[2 * i])
    BY <1>1, <1>2
  <2> QED
    BY <2>1, <2>2, <2>3, MergeAscends
<1>5. ASSUME NEW i \in 1..Len(new), i \notin 1..m PROVE Ascending(new[i])
  <2>1. i = m + 1 /\ new[i] = old[n] /\ n \in 1..n
    BY <1>1, <1>5
  <2> QED
    BY <1>2, <2>1
<1> QED
  BY <1>3, <1>4, <1>5 DEF new

\* The first positions of pieces of the same size are that size apart.
LEMMA TimesGrows ==
    ASSUME NEW size \in Nat, NEW i \in Nat, NEW j \in Nat, i < j
    PROVE  i * size + size <= j * size /\ i * size \in Nat /\ (i + 1) * size = i * size + size
<1>1. i * size \in Nat /\ (i + 1) * size = i * size + size
  OBVIOUS
<1> DEFINE d == j - i - 1
<1>2. d \in Nat /\ j = (i + 1) + d
  OBVIOUS
<1> HIDE DEF d
<1>3. j * size = (i + 1) * size + d * size /\ d * size \in Nat /\ d * size >= 0
  BY <1>2
<1> QED
  BY <1>1, <1>3

\* The pieces that a file is cut into hold its numbers.
LEMMA CutHolds ==
    ASSUME NEW numbers \in Seq(Int), NEW n \in Nat, n > 0, n <= Len(numbers)
    PROVE  LET pieces == [i \in 1..n |-> Piece(numbers, n, i)]
           IN  pieces \in Seq(Seq(Int)) /\ Len(pieces) = n /\ Hold(pieces, numbers)
<1> DEFINE L == Len(numbers)
           size == L \div n
           first(i) == (i - 1) * size
           len(i) == IF i = n THEN L - first(n) ELSE size
           pieces == [i \in 1..n |-> Piece(numbers, n, i)]
<1>0. L \in Nat /\ DOMAIN numbers = 1..L /\ n <= L
  OBVIOUS
<1>1. size \in Nat /\ size > 0 /\ n * size <= L
  <2> HIDE DEF L
  <2>1. \A a, b \in Nat : b > 0 /\ b <= a => (a \div b) \in Nat /\ a \div b > 0 /\ b * (a \div b) <= a
    OBVIOUS
  <2> QED
    BY <1>0, <2>1
<1> HIDE DEF L, size
<1>2. /\ \A i \in 1..n : first(i) \in Nat /\ (i * size = first(i) + size)
      /\ \A i, j \in 1..n : i < j => first(i) + size <= first(j)
      /\ first(n) + size <= L
  <2>1. ASSUME NEW i \in 1..n PROVE first(i) \in Nat /\ i * size = first(i) + size
    <3>1. i - 1 \in Nat /\ i \in Nat /\ i - 1 < i /\ (i - 1) + 1 = i
      OBVIOUS
    <3> QED
      BY <1>1, <3>1, TimesGrows
  <2>2. ASSUME NEW i \in 1..n, NEW j \in 1..n, i < j PROVE first(i) + size <= first(j)
    <3>1. i - 1 \in Nat /\ j - 1 \in Nat /\ i - 1 < j - 1
      BY <2>2
    <3> QED
      BY <1>1, <3>1, TimesGrows
  <2>3. first(n) + size <= L
    <3>1. n \in 1..n
      OBVIOUS
    <3> QED
      BY <1>1, <2>1, <3>1
  <2> QED
    BY <2>1, <2>2, <2>3
<1>3. \A i : Piece(numbers, n, i) = SubSeq(numbers, first(i) + 1, IF i = n THEN L ELSE i * size)
  BY DEF Piece, L, size
<1> HIDE DEF first
<1>4. \A i \in 1..n : /\ first(i) + size <= L /\ first(i) + len(i) <= L
                      /\ len(i) \in Nat /\ first(i) \in Nat
                      /\ i # n => i < n
  <2> SUFFICES ASSUME NEW i \in 1..n
               PROVE  /\ first(i) + size <= L /\ first(i) + len(i) <= L
                      /\ len(i) \in Nat /\ first(i) \in Nat
                      /\ i # n => i < n
    OBVIOUS
  <2> DEFINE x == first(i)
             z == first(n)
  <2>1. n \in 1..n /\ x \in Nat /\ z \in Nat /\ z + size <= L
    BY <1>2
  <2>2. i = n \/ i < n
    OBVIOUS
  <2>3. CASE i = n
    <3>1. x = z /\ len(i) = L - z
      BY <2>3
    <3> HIDE DEF x, z, len
    <3>2. len(i) \in Nat /\ x + len(i) <= L /\ x + size <= L
      BY <1>0, <1>1, <2>1, <3>1
    <3> QED
      BY <2>1, <2>3, <3>2 DEF x
  <2>4. CASE i < n
    <3>1. x + size <= z
      BY <1>2, <2>1, <2>4
    <3>2. len(i) = size
      BY <2>4
    <3> HIDE DEF x, z, len
    <3>3. x + size <= L
      BY <1>0, <1>1, <2>1, <3>1
    <3> QED
      BY <1>1, <2>1, <2>4, <3>2, <3>3 DEF x
  <2> QED
    BY <2>2, <2>3, <2>4
<1>5. ASSUME NEW i \in 1..n
      PROVE  /\ Piece(numbers, n, i) \in Seq(Int) /\ Len(Piece(numbers, n, i)) = len(i)
             /\ \A k \in 1..len(i) : Piece(numbers, n, i)[k] = numbers[first(i) + k]
  <2> DEFINE a == first(i) + 1
             b == IF i = n THEN L ELSE i * size
  <2>1. a \in 1..(L + 1) /\ b \in (a - 1)..L /\ b - a + 1 = len(i)
    <3>1. first(i) \in Nat /\ first(i) + size <= L /\ first(i) + len(i) <= L /\ len(i) \in Nat
      BY <1>4
    <3> DEFINE x == first(i)
    <3>2. CASE i = n
      <4>1. b = L /\ len(i) = L - x
        BY <3>2
      <4>2. a = x + 1
        OBVIOUS
      <4> HIDE DEF a, b, len, x
      <4>3. x \in Nat /\ x + len(i) <= L /\ len(i) \in Nat
        BY <3>1 DEF x
      <4> QED
        BY <1>0, <4>1, <4>2, <4>3
    <3>3. CASE i # n
      <4>1. b = x + size /\ len(i) = size
        BY <1>2, <3>3
      <4>2. a = x + 1
        OBVIOUS
      <4> HIDE DEF a, b, len, x
      <4>3. x \in Nat /\ x + size <= L
        BY <3>1 DEF x
      <4> QED
        BY <1>0, <1>1, <4>1, <4>2, <4>3
    <3> QED
      BY <3>2, <3>3
  <2>2. Piece(numbers, n, i) = SubSeq(numbers, a, b)
    BY <1>3
  <2> HIDE DEF a, b, len
  <2>3. /\ SubSeq(numbers, a, b) \in Seq(Int) /\ Len(SubSeq(numbers, a, b)) = b - a + 1
        /\ \A k \in 1..(b - a + 1) : SubSeq(numbers, a, b)[k] = numbers[a + k - 1]
    <3>1. a \in Int /\ b \in Int /\ (a <= b \/ b - a + 1 = 0)
      BY <1>0, <2>1
    <3>2. ASSUME NEW k \in a .. b PROVE numbers[k] \in Int
      <4>1. k \in 1..Len(numbers)
        BY <1>0, <2>1 DEF L
      <4> QED
        BY <4>1, ElementOfSeq
    <3>3. /\ SubSeq(numbers, a, b) \in Seq(Int)
          /\ Len(SubSeq(numbers, a, b)) = IF a <= b THEN b - a + 1 ELSE 0
          /\ \A k \in 1..(b - a + 1) : SubSeq(numbers, a, b)[k] = numbers[a + k - 1]
      BY <3>1, <3>2, SubSeqProperties
    <3>4. ~(a <= b) => b - a + 1 = 0
      BY <3>1
    <3> QED
      BY <3>3, <3>4
  <2>4. \A k \in 1..len(i) : a + k - 1 = first(i) + k
    BY <1>4 DEF a
  <2> QED
    BY <2>1, <2>2, <2>3, <2>4
<1>6. pieces \in Seq(Seq(Int)) /\ Len(pieces) = n /\ (\A i \in 1..n : pieces[i] = Piece(numbers, n, i))
  <2>1. pieces \in [1..n -> Seq(Int)]
    BY <1>5
  <2> QED
    BY <2>1
<1> HIDE DEF pieces, len
<1>7. /\ \A i, k : <<i, k>> \in PlacesIn(pieces) <=> i \in 1..n /\ k \in 1..len(i)
      /\ \A p \in PlacesIn(pieces) : p = <<p[1], p[2]>> /\ <<p[1], p[2]>> \in PlacesIn(pieces)
  BY <1>5, <1>6, PlaceIs
<1>8. ASSUME NEW i \in 1..n, NEW k \in 1..len(i)
      PROVE  first(i) + k \in 1..L /\ \A j \in 1..n : i < j => first(i) + k <= first(j)
  <2>1. first(i) \in Nat /\ first(i) + len(i) <= L /\ len(i) \in Nat
    BY <1>4
  <2>2. first(i) + k \in 1..L
    BY <1>0, <2>1
  <2>3. ASSUME NEW j \in 1..n, i < j PROVE first(i) + k <= first(j)
    <3>1. i # n /\ len(i) = size
      BY <2>3 DEF len
    <3>2. first(i) + size <= first(j) /\ first(j) \in Nat
      BY <1>2, <2>3
    <3> QED
      BY <1>1, <2>1, <3>1, <3>2
  <2> QED
    BY <2>2, <2>3
<1> DEFINE h == [p \in PlacesIn(pieces) |-> first(p[1]) + p[2]]
<1>9. \A p \in PlacesIn(pieces) : h[p] = first(p[1]) + p[2]
  OBVIOUS
<1>10. \A i, k : <<i, k>> \in PlacesIn(pieces) => h[<<i, k>>] = first(i) + k
  OBVIOUS
<1>11. h \in [PlacesIn(pieces) -> 1..L]
  BY <1>7, <1>8
<1> HIDE DEF h
<1>12. ASSUME NEW x \in PlacesIn(pieces), NEW y \in PlacesIn(pieces), h[x] = h[y] PROVE x = y
  <2>1. /\ x = <<x[1], x[2]>> /\ x[1] \in 1..n /\ x[2] \in 1..len(x[1])
        /\ y = <<y[1], y[2]>> /\ y[1] \in 1..n /\ y[2] \in 1..len(y[1])
    BY <1>7
  <2>2. first(x[1]) + x[2] = first(y[1]) + y[2] /\ first(x[1]) \in Nat /\ first(y[1]) \in Nat
    BY <1>4, <1>9, <1>12, <2>1
  <2>3. x[2] > 0 /\ y[2] > 0 /\ x[2] \in Int /\ y[2] \in Int
    BY <1>4, <2>1
  <2>4. ~(x[1] < y[1])
    <3>1. x[1] < y[1] => first(x[1]) + x[2] <= first(y[1])
      BY <1>8, <2>1
    <3> QED
      BY <2>2, <2>3, <3>1
  <2>5. ~(y[1] < x[1])
    <3>1. y[1] < x[1] => first(y[1]) + y[2] <= first(x[1])
      BY <1>8, <2>1
    <3> QED
      BY <2>2, <2>3, <3>1
  <2>6. x[1] = y[1]
    BY <2>1, <2>4, <2>5
  <2>7. x[2] = y[2]
    BY <2>2, <2>3, <2>6
  <2> QED
    BY <2>1, <2>6, <2>7
<1>13. ASSUME NEW z \in 1..L PROVE \E x \in PlacesIn(pieces) : h[x] = z
  <2>1. CASE z > first(n)
    <3> DEFINE k == z - first(n)
    <3>1. n \in 1..n /\ len(n) = L - first(n) /\ first(n) \in Nat
      BY <1>4 DEF len
    <3>2. k \in 1..len(n) /\ first(n) + k = z
      BY <1>0, <2>1, <3>1
    <3> HIDE DEF k
    <3> QED
      BY <1>7, <1>10, <3>1, <3>2
  <2>2. CASE z <= first(n)
    <3> DEFINE q == (z - 1) \div size
               i == q + 1
               k == ((z - 1) % size) + 1
    <3>1. q \in Nat /\ k \in 1..size /\ z = size * q + k
      <4>1. \A a, b \in Nat : b > 0 => (a \div b) \in Nat /\ (a % b) \in 0..(b - 1) /\ a = b * (a \div b) + (a % b)
        OBVIOUS
      <4>2. z - 1 \in Nat /\ size \in Nat /\ size > 0
        BY <1>0, <1>1
      <4>3. q \in Nat /\ (z - 1) % size \in 0..(size - 1) /\ z - 1 = size * q + ((z - 1) % size)
        BY <4>1, <4>2
      <4>4. size * q \in Nat
        BY <4>2, <4>3
      <4>5. k - 1 = (z - 1) % size /\ k \in 1..size
        BY <4>2, <4>3
      <4>6. z - 1 = size * q + (k - 1) /\ k \in Int
        BY <4>3, <4>5
      <4> HIDE DEF q, k
      <4>7. \A a \in Nat : z - 1 = a + (k - 1) => z = a + k
        BY <1>0, <4>6
      <4> QED
        BY <4>3, <4>4, <4>5, <4>6, <4>7
    <3> HIDE DEF q, k
    <3>2. size * q = q * size /\ q * size \in Nat
      BY <1>1, <3>1
    <3>3. q < n - 1
      <4> SUFFICES ASSUME n - 1 <= q PROVE FALSE
        BY <3>1
      <4>1. first(n) <= q * size
        <5>1. n - 1 \in Nat /\ (n - 1 < q \/ n - 1 = q)
          BY <3>1
        <5>2. (n - 1) * size <= q * size
          <6>1. n - 1 < q => (n - 1) * size + size <= q * size /\ (n - 1) * size \in Nat
            BY <1>1, <3>1, <5>1, TimesGrows
          <6>2. n - 1 = q => (n - 1) * size <= q * size
            BY <3>2
          <6> QED
            BY <1>1, <3>2, <5>1, <6>1, <6>2
        <5> QED
          BY <5>2 DEF first
      <4>2. first(n) \in Nat
        BY <1>4
      <4> QED
        BY <1>0, <1>1, <2>2, <3>1, <3>2, <4>1, <4>2
    <3>4. i \in 1..n /\ i # n /\ i - 1 = q
      BY <3>1, <3>3
    <3>5. len(i) = size /\ first(i) = q * size
      BY <3>4 DEF len, first
    <3>6. first(i) + k = z
      BY <3>1, <3>2, <3>5
    <3> HIDE DEF i
    <3> QED
      BY <1>7, <1>10, <3>1, <3>4, <3>5, <3>6
  <2>3. first(n) \in Nat
    BY <1>4
  <2> QED
    BY <1>0, <2>1, <2>2, <2>3
<1>14. h \in Bijection(PlacesIn(pieces), DOMAIN numbers)
  BY <1>0, <1>11, <1>12, <1>13, BijectionIs
<1>15. ASSUME NEW p \in PlacesIn(pieces) PROVE pieces[p[1]][p[2]] = numbers[h[p]]
  <2>1. p[1] \in 1..n /\ p[2] \in 1..len(p[1])
    BY <1>7
  <2> QED
    BY <1>5, <1>6, <1>9, <2>1
<1>16. Hold(pieces, numbers)
  BY <1>14, <1>15 DEF Hold
<1> QED
  BY <1>6, <1>16 DEF pieces

\* A sorted piece has what the piece had, and where no difference of two
\* numbers of the file wraps, it is in order.
LEMMA QSortedIs ==
    ASSUME IntMax \in Nat,
           NEW pieces \in Seq(Seq(Int)), NEW numbers \in Seq(Int), Hold(pieces, numbers),
           NEW i \in 1..Len(pieces), NEW o \in QSorted(pieces[i])
    PROVE  o \in Orders(pieces[i]) /\ (Fits(numbers) => Ascending(o))
<1> DEFINE s == pieces[i]
<1>1. s \in Seq(Int) /\ DOMAIN s = 1..Len(s) /\ Len(s) \in Nat
  BY PlaceIs
<1>2. o \in Orders(s) /\ (IsOrder(ToSet(s)) => \A k, l \in DOMAIN s : k < l => cmpfunc(o[k], o[l]) <= 0)
  BY DEF QSorted
<1>3. PICK from \in Bijection(PlacesIn(pieces), DOMAIN numbers) :
        \A p \in PlacesIn(pieces) : pieces[p[1]][p[2]] = numbers[from[p]]
  BY DEF Hold
<1>4. \A k \in DOMAIN s : s[k] \in Int /\ \E d \in DOMAIN numbers : s[k] = numbers[d]
  <2> TAKE k \in DOMAIN s
  <2>1. <<i, k>> \in PlacesIn(pieces)
    BY <1>1, PlaceIs
  <2>2. from \in [PlacesIn(pieces) -> DOMAIN numbers]
    BY BijectionIs
  <2>3. s[k] = numbers[from[<<i, k>>]]
    BY <1>3, <2>1
  <2>4. s[k] \in Int
    BY <1>1, ElementOfSeq
  <2> QED
    BY <2>1, <2>2, <2>3, <2>4
<1>5. ToSet(s) = {s[k] : k \in DOMAIN s}
  BY DEF ToSet
<1> HIDE DEF s
<1>6. ASSUME Fits(numbers), NEW m \in ToSet(s), NEW n \in ToSet(s)
      PROVE  m \in Int /\ n \in Int /\ cmpfunc(m, n) = m - n
  <2>1. m \in Int /\ n \in Int /\ m - n <= IntMax /\ n - m <= IntMax
    <3>1. PICK a \in DOMAIN numbers : m = numbers[a]
      BY <1>4, <1>5
    <3>2. PICK b \in DOMAIN numbers : n = numbers[b]
      BY <1>4, <1>5
    <3>3. m \in Int /\ n \in Int
      BY <1>4, <1>5
    <3> QED
      BY <1>6, <3>1, <3>2, <3>3 DEF Fits
  <2> QED
    BY <2>1 DEF cmpfunc, Wrap, IntMin
<1>7. ASSUME Fits(numbers) PROVE IsOrder(ToSet(s))
  <2>1. \A m, n \in ToSet(s) : cmpfunc(m, n) <= 0 <=> cmpfunc(n, m) >= 0
    BY <1>6, <1>7
  <2>2. \A l, m, n \in ToSet(s) : cmpfunc(l, m) <= 0 /\ cmpfunc(m, n) <= 0 => cmpfunc(l, n) <= 0
    BY <1>6, <1>7
  <2> QED
    BY <2>1, <2>2 DEF IsOrder
<1>8. ASSUME Fits(numbers) PROVE Ascending(o)
  <2>1. PICK perm \in Bijection(DOMAIN s, DOMAIN s) : o = [k \in DOMAIN s |-> s[perm[k]]]
    BY <1>2 DEF Orders
  <2>2. perm \in [DOMAIN s -> DOMAIN s]
    BY BijectionIs
  <2>3. DOMAIN o = DOMAIN s /\ \A k \in DOMAIN s : o[k] \in ToSet(s)
    BY <1>5, <2>1, <2>2
  <2>4. ASSUME NEW k \in DOMAIN s, NEW l \in DOMAIN s, k < l PROVE o[k] <= o[l]
    <3>1. cmpfunc(o[k], o[l]) <= 0
      BY <1>2, <1>7, <1>8, <2>4
    <3>2. o[k] \in Int /\ o[l] \in Int /\ cmpfunc(o[k], o[l]) = o[k] - o[l]
      BY <1>6, <1>8, <2>3
    <3> QED
      BY <3>1, <3>2
  <2> QED
    BY <2>3, <2>4 DEF Ascending
<1> QED
  BY <1>2, <1>8 DEF s

\* One piece that holds all the numbers is an order of them.
LEMMA OnePieceIsAnOrder ==
    ASSUME NEW pieces \in Seq(Seq(Int)), Len(pieces) = 1, NEW numbers \in Seq(Int), Hold(pieces, numbers)
    PROVE  pieces[1] \in Orders(numbers)
<1> DEFINE s == pieces[1]
           a == Len(s)
           b == Len(numbers)
<1>1. s \in Seq(Int) /\ a \in Nat /\ b \in Nat /\ DOMAIN s = 1..a /\ DOMAIN numbers = 1..b
  BY PlaceIs
<1>2. PICK from \in Bijection(PlacesIn(pieces), DOMAIN numbers) :
        \A p \in PlacesIn(pieces) : pieces[p[1]][p[2]] = numbers[from[p]]
  BY DEF Hold
<1>3. /\ from \in [PlacesIn(pieces) -> DOMAIN numbers]
      /\ \A x, y \in PlacesIn(pieces) : from[x] = from[y] => x = y
      /\ \A z \in DOMAIN numbers : \E x \in PlacesIn(pieces) : from[x] = z
  BY BijectionIs
<1>4. /\ \A k : <<1, k>> \in PlacesIn(pieces) <=> k \in 1..a
      /\ \A p \in PlacesIn(pieces) : p = <<1, p[2]>> /\ p[2] \in 1..a
  <2>1. \A i : i \in 1..Len(pieces) <=> i = 1
    OBVIOUS
  <2> QED
    BY <2>1, PlaceIs
<1> DEFINE perm == [k \in 1..a |-> from[<<1, k>>]]
<1>5. perm \in Bijection(1..a, 1..b)
  <2>1. perm \in [1..a -> 1..b]
    BY <1>1, <1>3, <1>4
  <2>2. ASSUME NEW x \in 1..a, NEW y \in 1..a, perm[x] = perm[y] PROVE x = y
    <3>1. from[<<1, x>>] = from[<<1, y>>] /\ <<1, x>> \in PlacesIn(pieces) /\ <<1, y>> \in PlacesIn(pieces)
      BY <1>4, <2>2
    <3>2. <<1, x>> = <<1, y>>
      BY <1>3, <3>1
    <3> QED
      BY <3>2
  <2>3. ASSUME NEW z \in 1..b PROVE \E x \in 1..a : perm[x] = z
    <3>1. PICK p \in PlacesIn(pieces) : from[p] = z
      BY <1>1, <1>3
    <3>2. p = <<1, p[2]>> /\ p[2] \in 1..a
      BY <1>4
    <3>3. perm[p[2]] = z
      BY <3>1, <3>2
    <3> QED
      BY <3>2, <3>3
  <2> HIDE DEF perm, a, b
  <2> QED
    BY <2>1, <2>2, <2>3, BijectionIs
<1>6. \A k \in 1..a : s[k] = numbers[perm[k]]
  BY <1>2, <1>4
<1> HIDE DEF perm, s, a, b
<1>7. a = b
  <2>1. IsFiniteSet(1..a) /\ Cardinality(1..a) = a /\ Cardinality(1..b) = b
    BY <1>1, FS_Interval
  <2>2. Cardinality(1..b) = Cardinality(1..a)
    <3>1. ExistsBijection(1..a, 1..b)
      BY <1>5 DEF ExistsBijection
    <3> QED
      BY <2>1, <3>1, FS_Bijection
  <2> QED
    BY <2>1, <2>2
<1>8. s = [k \in DOMAIN numbers |-> numbers[perm[k]]]
  <2>1. s = [k \in 1..a |-> s[k]]
    BY <1>1
  <2> QED
    BY <1>1, <1>6, <1>7, <2>1
<1> QED
  BY <1>1, <1>5, <1>7, <1>8 DEF Orders, s

\* A round starts with pieces that hold the file, in order if they can be.
LEMMA RoundKeeps ==
    ASSUME data \in Seq(Int), NEW pieces \in Seq(Seq(Int)), pieces # <<>>, Hold(pieces, data),
           Fits(data) => \A i \in DOMAIN pieces : Ascending(pieces[i]),
           Round(pieces)
    PROVE  SortInv'
<1> DEFINE m == Len(pieces) \div 2
<1>1. m \in Nat /\ Len(pieces) \in Nat /\ Len(pieces) # 0 /\ (m > 0 <=> Len(pieces) > 1)
  OBVIOUS
<1> HIDE DEF m
<1>2. /\ sortPc' = IF m > 0 THEN "merge" ELSE "done"
      /\ sp_array' = pieces /\ data' = data
      /\ sorting' = 1..m
      /\ output' = [i \in 1..m |-> <<>>]
  BY DEF Round, m
<1>3. output' \in Seq(Seq(Int)) /\ Len(output') = m /\ DOMAIN output' = 1..m
  <2>1. output' \in [1..m -> Seq(Int)]
    BY <1>2
  <2> QED
    BY <1>1, <1>2, <2>1
<1>4. Hold(pieces, data)' /\ Hold(sp_array, data)'
  BY <1>2
<1>5. (InOrder(DOMAIN sp_array))'
  <2>1. Fits(data') => \A i \in DOMAIN pieces : Ascending(pieces[i])
    BY <1>2
  <2> QED
    BY <1>2, <2>1 DEF InOrder
<1>6. CASE m > 0
  <2>1. sortPc' = "merge" /\ Len(sp_array') > 1 /\ Len(output') = Len(sp_array') \div 2
    BY <1>1, <1>2, <1>3, <1>6 DEF m
  <2> QED
    BY <1>2, <1>3, <1>4, <1>5, <2>1 DEF SortInv
<1>7. CASE ~(m > 0)
  <2>1. sortPc' = "done" /\ Len(sp_array') = 1
    <3> DEFINE n == Len(pieces)
    <3>a. n \in Nat /\ n # 0 /\ ~(n > 1)
      BY <1>1, <1>7
    <3> HIDE DEF n
    <3>b. n = 1
      BY <3>a
    <3>1. Len(pieces) = 1
      BY <3>b DEF n
    <3> QED
      BY <1>2, <1>7, <3>1
  <2> QED
    BY <1>2, <1>4, <1>5, <2>1 DEF SortInv
<1> QED
  BY <1>6, <1>7

\* main cuts the file into pieces that hold it.
LEMMA MainSortKeeps ==
    ASSUME SortInv, NEW command \in Commands, MainSort(command)
    PROVE  SortInv'
<1> DEFINE numbers == command.numbers
           n == command.split_num
           pieces == [i \in 1..n |-> Piece(numbers, n, i)]
<1>1. numbers \in Seq(Int) /\ n \in Nat
  <2>1. numbers \in Seq(IntMin..IntMax) /\ n \in Nat
    BY SortAssumption
  <2>2. IntMin..IntMax \subseteq Int
    OBVIOUS
  <2>3. numbers \in Seq(Int)
    BY <2>1, <2>2, SeqMonotonic
  <2> QED
    BY <2>1, <2>3
<1>2. /\ data' = numbers
      /\ sortPc' \in {"exit", "sigfpe", "qsort"}
      /\ sortPc' = "qsort" => ~(Len(numbers) < n) /\ n # 0 /\ sp_array' = pieces
      /\ sorting' = DOMAIN sp_array'
  BY DEF MainSort
<1>3. CASE sortPc' = "qsort"
  <2>1. n > 0 /\ n <= Len(numbers) /\ sp_array' = pieces
    BY <1>1, <1>2, <1>3
  <2>2. pieces \in Seq(Seq(Int)) /\ Len(pieces) = n /\ Hold(pieces, numbers)
    BY <1>1, <2>1, CutHolds
  <2>3. pieces # <<>>
    <3> HIDE DEF pieces
    <3>1. Len(pieces) > 0
      BY <2>1, <2>2
    <3> QED
      BY <3>1
  <2> HIDE DEF pieces, numbers, n
  <2>4. Hold(sp_array', data')
    BY <1>2, <2>1, <2>2
  <2>5. (InOrder(DOMAIN sp_array \ sorting))' /\ sorting' \subseteq DOMAIN sp_array'
    BY <1>2 DEF InOrder
  <2>6. Hold(sp_array, data)'
    BY <2>4
  <2> QED
    BY <1>1, <1>2, <1>3, <2>1, <2>2, <2>3, <2>5, <2>6 DEF SortInv
<1>4. CASE sortPc' # "qsort"
  BY <1>1, <1>2, <1>4 DEF SortInv
<1> QED
  BY <1>3, <1>4

\* A thread that sorts a piece adds it to those in order.
LEMMA QuickSortKeeps ==
    ASSUME SortInv, NEW i \in sorting, QuickSort(i)
    PROVE  SortInv'
<1>1. /\ sortPc = "qsort" /\ sortPc' = "qsort" /\ data' = data /\ sorting' = sorting \ {i}
      /\ data \in Seq(Int) /\ sp_array \in Seq(Seq(Int)) /\ sp_array # <<>> /\ Hold(sp_array, data)
      /\ InOrder(DOMAIN sp_array \ sorting) /\ sorting \subseteq DOMAIN sp_array
  BY DEF QuickSort, SortInv
<1>2. PICK o \in QSorted(sp_array[i]) : sp_array' = [sp_array EXCEPT ![i] = o]
  BY DEF QuickSort
<1>3. DOMAIN sp_array = 1..Len(sp_array) /\ i \in 1..Len(sp_array) /\ Len(sp_array) \in Nat
  BY <1>1
<1>4. o \in Orders(sp_array[i]) /\ (Fits(data) => Ascending(o))
  BY <1>1, <1>3, SortAssumption, QSortedIs
<1>5. sp_array' \in Seq(Seq(Int)) /\ Len(sp_array') = Len(sp_array) /\ Hold(sp_array', data)
  BY <1>1, <1>2, <1>3, <1>4, PieceSorted
<1>6. sp_array' # <<>> /\ DOMAIN sp_array' = DOMAIN sp_array
  BY <1>1, <1>2, <1>3, <1>5
<1>7. (InOrder(DOMAIN sp_array \ sorting))'
  <2>1. ASSUME Fits(data), NEW j \in DOMAIN sp_array \ (sorting \ {i}) PROVE Ascending(sp_array'[j])
    <3>1. CASE j = i
      BY <1>2, <1>3, <1>4, <2>1, <3>1
    <3>2. CASE j # i
      <4>1. sp_array'[j] = sp_array[j] /\ j \in DOMAIN sp_array \ sorting
        BY <1>2, <3>2
      <4> QED
        BY <1>1, <2>1, <4>1 DEF InOrder
    <3> QED
      BY <3>1, <3>2
  <2>2. Fits(data') => \A j \in DOMAIN sp_array' \ sorting' : Ascending(sp_array'[j])
    BY <1>1, <1>6, <2>1
  <2> QED
    BY <2>2 DEF InOrder
<1>8. Hold(sp_array, data)'
  BY <1>1, <1>5
<1> QED
  BY <1>1, <1>5, <1>6, <1>7, <1>8 DEF SortInv

\* A thread that merges a pair leaves the pieces of its round alone.
LEMMA MergeSortKeeps ==
    ASSUME SortInv, NEW i \in sorting, MergeSort(i)
    PROVE  SortInv'
<1> DEFINE s == sp_array[2 * i - 1]
           t == sp_array[2 * i]
<1>1. /\ sortPc = "merge" /\ sortPc' = "merge" /\ data' = data /\ sp_array' = sp_array
      /\ sorting' = sorting \ {i}
      /\ output' = [output EXCEPT ![i] = Merge(s, t)]
  BY DEF MergeSort
<1>2. /\ data \in Seq(Int) /\ sp_array \in Seq(Seq(Int)) /\ sp_array # <<>> /\ Hold(sp_array, data)
      /\ InOrder(DOMAIN sp_array) /\ Len(sp_array) > 1
      /\ output \in Seq(Seq(Int)) /\ Len(output) = Len(sp_array) \div 2
      /\ sorting \subseteq DOMAIN output
      /\ \A j \in DOMAIN output \ sorting : output[j] = Merge(sp_array[2 * j - 1], sp_array[2 * j])
  BY <1>1 DEF SortInv
<1>3. i \in 1..Len(output) /\ DOMAIN output = 1..Len(output)
  BY <1>2
<1>4. 2 * i - 1 \in 1..Len(sp_array) /\ 2 * i \in 1..Len(sp_array)
  BY <1>2, <1>3, NextRoundIs
<1>5. s \in Seq(Int) /\ t \in Seq(Int)
  BY <1>2, <1>4, PlaceIs
<1> HIDE DEF s, t
<1>6. Merge(s, t) \in Seq(Int)
  BY <1>5, MergeSteps
<1>7. output' \in Seq(Seq(Int)) /\ Len(output') = Len(output) /\ DOMAIN output' = DOMAIN output
  BY <1>1, <1>2, <1>6
<1>8. ASSUME NEW j \in DOMAIN output \ (sorting \ {i})
      PROVE  output'[j] = Merge(sp_array[2 * j - 1], sp_array[2 * j])
  <2>1. CASE j = i
    BY <1>1, <1>3, <2>1 DEF s, t
  <2>2. CASE j # i
    BY <1>1, <1>2, <2>2
  <2> QED
    BY <2>1, <2>2
<1>9. \A j \in DOMAIN output' \ sorting' : output'[j] = Merge(sp_array'[2 * j - 1], sp_array'[2 * j])
  BY <1>1, <1>7, <1>8
<1>10. (InOrder(DOMAIN sp_array))' /\ Hold(sp_array, data)'
  BY <1>1, <1>2 DEF InOrder
<1> QED
  BY <1>1, <1>2, <1>7, <1>9, <1>10 DEF SortInv

\* main joins the threads of a round and starts the next one.
LEMMA JoinsKeep ==
    ASSUME SortInv, JoinSorts \/ JoinMerges
    PROVE  SortInv'
<1>1. data \in Seq(Int)
  BY DEF SortInv
<1>2. CASE JoinSorts
  <2>1. sortPc = "qsort" /\ sorting = {} /\ Round(sp_array)
    BY <1>2 DEF JoinSorts
  <2>2. /\ sp_array \in Seq(Seq(Int)) /\ sp_array # <<>> /\ Hold(sp_array, data)
        /\ InOrder(DOMAIN sp_array \ sorting)
    BY <2>1 DEF SortInv
  <2>3. Fits(data) => \A i \in DOMAIN sp_array : Ascending(sp_array[i])
    BY <2>1, <2>2 DEF InOrder
  <2> QED
    BY <1>1, <2>1, <2>2, <2>3, RoundKeeps
<1>3. CASE JoinMerges
  <2> DEFINE new == NextRound(sp_array, output)
  <2>1. sortPc = "merge" /\ sorting = {} /\ Round(new)
    BY <1>3 DEF JoinMerges, NextRound
  <2>2. /\ sp_array \in Seq(Seq(Int)) /\ sp_array # <<>> /\ Hold(sp_array, data)
        /\ InOrder(DOMAIN sp_array)
        /\ output \in Seq(Seq(Int)) /\ Len(output) = Len(sp_array) \div 2
        /\ \A j \in DOMAIN output \ sorting : output[j] = Merge(sp_array[2 * j - 1], sp_array[2 * j])
    BY <2>1 DEF SortInv
  <2>3. \A i \in 1..Len(output) : output[i] = Merge(sp_array[2 * i - 1], sp_array[2 * i])
    <3>1. DOMAIN output \ sorting = 1..Len(output)
      BY <2>1, <2>2
    <3> QED
      BY <2>2, <3>1
  <2>4. new \in Seq(Seq(Int)) /\ new # <<>>
    BY <2>2, NextRoundIs
  <2>5. Hold(new, data)
    BY <2>2, <2>3, RoundHolds
  <2>6. Fits(data) => \A i \in DOMAIN new : Ascending(new[i])
    <3>1. Fits(data) => \A i \in DOMAIN sp_array : Ascending(sp_array[i])
      BY <2>2 DEF InOrder
    <3> QED
      BY <2>2, <2>3, <3>1, RoundAscends
  <2> HIDE DEF new
  <2> QED
    BY <1>1, <2>1, <2>4, <2>5, <2>6, RoundKeeps
<1> QED
  BY <1>2, <1>3

\* What threaded_msort.c prints is what it read, each number as often, and it is
\* in order unless two numbers of the file differ by more than an int holds:
\* for every file, every size of the pieces and every order of the threads.
THEOREM SortStaysRight == SortSpec => []SortIsRight
<1>1. SortInit => SortInv
  <2> SUFFICES ASSUME SortInit PROVE SortInv
    OBVIOUS
  <2>1. sortPc = "start" /\ data \in Seq(Int)
    BY DEF SortInit
  <2> QED
    BY <2>1 DEF SortInv
<1>2. SortInv /\ [SortNext]_sortVars => SortInv'
  <2> SUFFICES ASSUME SortInv, [SortNext]_sortVars PROVE SortInv'
    OBVIOUS
  <2>1. CASE sortPc = "start" /\ \E command \in Commands : MainSort(command)
    BY <2>1, MainSortKeeps
  <2>2. CASE \E i \in sorting : QuickSort(i)
    BY <2>2, QuickSortKeeps
  <2>3. CASE \E i \in sorting : MergeSort(i)
    BY <2>3, MergeSortKeeps
  <2>4. CASE JoinSorts \/ JoinMerges
    BY <2>4, JoinsKeep
  <2>5. CASE CreateAborts
    <3>1. sortPc' = "abort" /\ data' = data
      BY <2>5 DEF CreateAborts
    <3>2. data \in Seq(Int)
      BY DEF SortInv
    <3> QED
      BY <3>1, <3>2 DEF SortInv
  <2>6. CASE UNCHANGED sortVars
    <3>1. /\ sortPc' = sortPc /\ data' = data /\ sp_array' = sp_array
          /\ sorting' = sorting /\ output' = output
      BY <2>6 DEF sortVars
    <3> QED
      BY <3>1 DEF SortInv, InOrder
  <2> QED
    BY <2>1, <2>2, <2>3, <2>4, <2>5, <2>6 DEF SortNext
<1>3. SortInv => SortIsRight
  <2> SUFFICES ASSUME SortInv, sortPc = "done"
               PROVE  sp_array[1] \in Orders(data) /\ (Fits(data) => Ascending(sp_array[1]))
    BY DEF SortIsRight
  <2>1. /\ data \in Seq(Int) /\ sp_array \in Seq(Seq(Int)) /\ Len(sp_array) = 1
        /\ Hold(sp_array, data) /\ InOrder(DOMAIN sp_array)
    BY DEF SortInv
  <2>2. 1 \in DOMAIN sp_array
    BY <2>1
  <2> QED
    BY <2>1, <2>2, OnePieceIsAnOrder DEF InOrder
<1> QED
  BY <1>1, <1>2, <1>3, PTL DEF SortSpec

-----------------------------------------------------------------------------
\* A loop of n rounds that keeps its value in V has a value after each round.
Keeps(round, n, V) == \A k \in 1 .. n : \A v \in V : round[<<k, v>>] \in V
Values(f, n, base, round) == f[0] = base /\ \A k \in 1 .. n : f[k] = round[<<k, f[k - 1]>>]

LEMMA LoopHasValues ==
    ASSUME NEW n \in Nat, NEW V, NEW base \in V, NEW round, Keeps(round, n, V)
    PROVE  \E f \in [0 .. n -> V] : Values(f, n, base, round)
<1> USE DEF Keeps, Values
<1> DEFINE Good == {m \in 0 .. n :
                      \E f \in [0 .. m -> V] : f[0] = base /\ \A k \in 1 .. m : f[k] = round[<<k, f[k - 1]>>]}
<1>1. 0 \in Good
  <2> DEFINE f == [k \in 0 .. 0 |-> base]
  <2>1. f \in [0 .. 0 -> V] /\ f[0] = base
    OBVIOUS
  <2>2. \A k \in 1 .. 0 : f[k] = round[<<k, f[k - 1]>>]
    OBVIOUS
  <2> HIDE DEF f
  <2> QED
    BY <2>1, <2>2
<1>2. ASSUME NEW m \in 0 .. n - 1, m \in Good PROVE m + 1 \in Good
  <2>1. PICK f \in [0 .. m -> V] : f[0] = base /\ \A k \in 1 .. m : f[k] = round[<<k, f[k - 1]>>]
    BY <1>2
  <2>2. m + 1 \in 1 .. n /\ m + 1 \in 0 .. n /\ m \in Nat /\ m + 1 # 0 /\ m \in 0 .. m /\ (m + 1) - 1 = m
    OBVIOUS
  <2> DEFINE g == [k \in 0 .. m + 1 |-> IF k = m + 1 THEN round[<<m + 1, f[m]>>] ELSE f[k]]
  <2>3. /\ g[m + 1] = round[<<m + 1, f[m]>>]
        /\ \A k \in 0 .. m : k \in 0 .. m + 1 /\ k # m + 1 /\ g[k] = f[k]
    BY <2>2
  <2>4. g \in [0 .. m + 1 -> V]
    <3>1. round[<<m + 1, f[m]>>] \in V
      BY <2>2
    <3>2. \A k \in 0 .. m + 1 : k # m + 1 => k \in 0 .. m
      BY <2>2
    <3> QED
      BY <3>1, <3>2
  <2> HIDE DEF g
  <2>5. g[0] = base
    BY <2>1, <2>2, <2>3
  <2>6. ASSUME NEW k \in 1 .. m + 1 PROVE g[k] = round[<<k, g[k - 1]>>]
    <3>1. CASE k = m + 1
      <4>1. k - 1 = m
        BY <2>2, <3>1
      <4>2. g[k - 1] = f[m]
        BY <2>2, <2>3, <4>1
      <4> QED
        BY <2>3, <3>1, <4>2
    <3>2. CASE k # m + 1
      <4>1. k \in 1 .. m /\ k \in 0 .. m /\ k - 1 \in 0 .. m
        BY <2>2, <3>2
      <4>2. f[k] = round[<<k, f[k - 1]>>]
        BY <2>1, <4>1
      <4>3. g[k] = f[k] /\ g[k - 1] = f[k - 1]
        BY <2>3, <4>1
      <4> QED
        BY <4>2, <4>3
    <3> QED
      BY <3>1, <3>2
  <2> QED
    BY <2>2, <2>4, <2>5, <2>6
<1>3. 0 .. n \subseteq Good
  <2> HIDE DEF Good
  <2> QED
    BY <1>1, <1>2, CountUp
<1>4. n \in Good
  <2> HIDE DEF Good
  <2> QED
    BY <1>3
<1> QED
  BY <1>4

-----------------------------------------------------------------------------
\* The contacts of t are those of s, and only places from a to b have others.
Moves(from, n, a, b) ==
    /\ from \in [1 .. n -> 1 .. n]
    /\ \A x, y \in 1 .. n : from[x] = from[y] => x = y
    /\ \A z \in 1 .. n : \E x \in 1 .. n : from[x] = z
    /\ \A x \in 1 .. n : x \notin a .. b => from[x] = x

Shuffled(s, t, n, a, b) ==
    \E from \in [1 .. n -> 1 .. n] : Moves(from, n, a, b) /\ \A x \in 1 .. n : t[x] = s[from[x]]

LEMMA ShuffleNone ==
    ASSUME NEW n \in Nat, NEW a, NEW b, NEW s, NEW t, \A x \in 1 .. n : t[x] = s[x]
    PROVE  Shuffled(s, t, n, a, b)
<1> DEFINE from == [x \in 1 .. n |-> x]
<1>1. from \in [1 .. n -> 1 .. n] /\ \A x \in 1 .. n : from[x] = x
  OBVIOUS
<1> HIDE DEF from
<1>2. Moves(from, n, a, b)
  BY <1>1 DEF Moves
<1> QED
  BY <1>1, <1>2 DEF Shuffled

LEMMA ShuffleThen ==
    ASSUME NEW n \in Nat, NEW a, NEW b, NEW s, NEW t, NEW u, Shuffled(s, t, n, a, b), Shuffled(t, u, n, a, b)
    PROVE  Shuffled(s, u, n, a, b)
<1>1. PICK f \in [1 .. n -> 1 .. n] : Moves(f, n, a, b) /\ \A x \in 1 .. n : t[x] = s[f[x]]
  BY DEF Shuffled
<1>2. PICK g \in [1 .. n -> 1 .. n] : Moves(g, n, a, b) /\ \A x \in 1 .. n : u[x] = t[g[x]]
  BY DEF Shuffled
<1> DEFINE h == [x \in 1 .. n |-> f[g[x]]]
<1>3. h \in [1 .. n -> 1 .. n] /\ \A x \in 1 .. n : h[x] = f[g[x]]
  OBVIOUS
<1> HIDE DEF h
<1>4. \A x, y \in 1 .. n : h[x] = h[y] => x = y
  <2> SUFFICES ASSUME NEW x \in 1 .. n, NEW y \in 1 .. n, h[x] = h[y] PROVE x = y
    OBVIOUS
  <2>1. g[x] \in 1 .. n /\ g[y] \in 1 .. n /\ f[g[x]] = f[g[y]]
    BY <1>3
  <2>2. g[x] = g[y]
    BY <1>1, <2>1 DEF Moves
  <2> QED
    BY <1>2, <2>2 DEF Moves
<1>5. ASSUME NEW z \in 1 .. n PROVE \E x \in 1 .. n : h[x] = z
  <2>1. PICK y \in 1 .. n : f[y] = z
    BY <1>1 DEF Moves
  <2>2. PICK x \in 1 .. n : g[x] = y
    BY <1>2 DEF Moves
  <2> QED
    BY <1>3, <2>1, <2>2
<1>6. ASSUME NEW x \in 1 .. n, x \notin a .. b PROVE h[x] = x
  <2>1. g[x] = x
    BY <1>2, <1>6 DEF Moves
  <2>2. f[x] = x
    BY <1>1, <1>6 DEF Moves
  <2> QED
    BY <1>3, <2>1, <2>2
<1>7. Moves(h, n, a, b)
  BY <1>3, <1>4, <1>5, <1>6 DEF Moves
<1>8. ASSUME NEW x \in 1 .. n PROVE u[x] = s[h[x]]
  BY <1>1, <1>2, <1>3
<1> QED
  BY <1>3, <1>7, <1>8 DEF Shuffled

LEMMA ShuffleWider ==
    ASSUME NEW n \in Nat, NEW a, NEW b, NEW c, NEW d, NEW s, NEW t, Shuffled(s, t, n, a, b), a .. b \subseteq c .. d
    PROVE  Shuffled(s, t, n, c, d)
<1>1. PICK f \in [1 .. n -> 1 .. n] : Moves(f, n, a, b) /\ \A x \in 1 .. n : t[x] = s[f[x]]
  BY DEF Shuffled
<1>2. Moves(f, n, c, d)
  BY <1>1 DEF Moves
<1> QED
  BY <1>1, <1>2 DEF Shuffled

\* Where the contacts of t come from
LEMMA ShuffleFrom ==
    ASSUME NEW n \in Nat, NEW a, NEW b, NEW s, NEW t, Shuffled(s, t, n, a, b), NEW x \in 1 .. n
    PROVE  /\ x \notin a .. b => t[x] = s[x]
           /\ x \in a .. b => \E y \in 1 .. n : y \in a .. b /\ t[x] = s[y]
<1>1. PICK f \in [1 .. n -> 1 .. n] : Moves(f, n, a, b) /\ \A y \in 1 .. n : t[y] = s[f[y]]
  BY DEF Shuffled
<1>2. x \notin a .. b => t[x] = s[x]
  BY <1>1 DEF Moves
<1>3. ASSUME x \in a .. b PROVE f[x] \in a .. b
  <2> SUFFICES ASSUME f[x] \notin a .. b PROVE FALSE
    OBVIOUS
  <2>1. f[x] \in 1 .. n /\ f[f[x]] = f[x]
    BY <1>1 DEF Moves
  <2>2. f[x] = x
    BY <1>1, <2>1 DEF Moves
  <2> QED
    BY <1>3, <2>2
<1> QED
  BY <1>1, <1>2, <1>3

LEMMA SwapIs ==
    ASSUME NEW n \in Nat, NEW s \in [1 .. n -> Contacts], NEW x \in 1 .. n, NEW y \in 1 .. n
    PROVE  /\ _swap_contact(s, x, y) \in [1 .. n -> Contacts]
           /\ _swap_contact(s, x, y)[x] = s[y] /\ _swap_contact(s, x, y)[y] = s[x]
           /\ \A z \in 1 .. n : z # x /\ z # y => _swap_contact(s, x, y)[z] = s[z]
  BY DEF _swap_contact

LEMMA ShuffleSwap ==
    ASSUME NEW n \in Nat, NEW a, NEW b, NEW s \in [1 .. n -> Contacts],
           NEW x \in 1 .. n, NEW y \in 1 .. n, x \in a .. b, y \in a .. b
    PROVE  Shuffled(s, _swap_contact(s, x, y), n, a, b)
<1> DEFINE from == [z \in 1 .. n |-> IF z = x THEN y ELSE IF z = y THEN x ELSE z]
           t == _swap_contact(s, x, y)
<1>1. /\ from \in [1 .. n -> 1 .. n]
      /\ from[x] = y /\ from[y] = x /\ \A z \in 1 .. n : z # x /\ z # y => from[z] = z
  OBVIOUS
<1>2. t[x] = s[y] /\ t[y] = s[x] /\ \A z \in 1 .. n : z # x /\ z # y => t[z] = s[z]
  BY SwapIs
<1> HIDE DEF from, t
<1>3. \A z, w \in 1 .. n : from[z] = from[w] => z = w
  BY <1>1
<1>4. \A z \in 1 .. n : \E w \in 1 .. n : from[w] = z
  BY <1>1
<1>5. \A z \in 1 .. n : z \notin a .. b => from[z] = z
  BY <1>1
<1>6. Moves(from, n, a, b)
  BY <1>1, <1>3, <1>4, <1>5 DEF Moves
<1>7. \A z \in 1 .. n : t[z] = s[from[z]]
  BY <1>1, <1>2
<1> QED
  BY <1>1, <1>6, <1>7 DEF Shuffled, t

-----------------------------------------------------------------------------
\* The order of a sort
Before(c, d) == _compare_contacts(c, d, 1) < 1

LEMMA NamesAreOrdered ==
    /\ \A m, n \in Nat \X Nat : NameLess(m, n) \/ NameLess(n, m) \/ m = n
    /\ \A m, n \in Nat \X Nat : NameLess(m, n) => ~NameLess(n, m)
    /\ \A l, m, n \in Nat \X Nat : NameLess(l, m) /\ NameLess(m, n) => NameLess(l, n)
<1>1. \A m, n \in Nat \X Nat : m[1] = n[1] /\ m[2] = n[2] => m = n
  OBVIOUS
<1>2. \A m \in Nat \X Nat : m[1] \in Nat /\ m[2] \in Nat
  OBVIOUS
<1> QED
  BY <1>1, <1>2 DEF NameLess

LEMMA ContactsAreOrdered ==
    /\ \A c, d \in Contacts : Before(c, d) \/ Before(d, c)
    /\ \A c, d, e \in Contacts : Before(c, d) /\ Before(d, e) => Before(c, e)
    /\ \A c, d \in Contacts : Before(c, d) => ~NameLess(d.name, c.name)
<1>1. \A c \in Contacts : c.name \in Nat \X Nat /\ c.phone_number \in Nat
  BY NamesAssumption, PhonesAssumption DEF Contacts
<1>2. \A c, d \in Contacts :
         Before(c, d) <=> \/ NameLess(c.name, d.name)
                          \/ c.name = d.name /\ c.phone_number <= d.phone_number
  <2> TAKE c, d \in Contacts
  <2>1. c.name \in Nat \X Nat /\ d.name \in Nat \X Nat /\ c.phone_number \in Nat /\ d.phone_number \in Nat
    BY <1>1
  <2>2. NameLess(c.name, d.name) \/ NameLess(d.name, c.name) \/ c.name = d.name
    BY <2>1, NamesAreOrdered
  <2>3. CASE NameLess(c.name, d.name)
    BY <2>3 DEF Before, _compare_contacts
  <2>4. CASE NameLess(d.name, c.name)
    <3>1. ~NameLess(c.name, d.name) /\ c.name # d.name
      BY <2>1, <2>4, NamesAreOrdered
    <3> QED
      BY <2>4, <3>1 DEF Before, _compare_contacts
  <2>5. CASE c.name = d.name
    <3>1. ~NameLess(c.name, d.name) /\ ~NameLess(d.name, c.name)
      BY <2>1, <2>5, NamesAreOrdered
    <3> QED
      BY <2>1, <2>5, <3>1 DEF Before, _compare_contacts
  <2> QED
    BY <2>2, <2>3, <2>4, <2>5
<1>3. \A c, d \in Contacts : Before(c, d) \/ Before(d, c)
  BY <1>1, <1>2, NamesAreOrdered
<1>4. ASSUME NEW c \in Contacts, NEW d \in Contacts, NEW e \in Contacts, Before(c, d), Before(d, e) PROVE Before(c, e)
  <2>1. /\ c.name \in Nat \X Nat /\ d.name \in Nat \X Nat /\ e.name \in Nat \X Nat
        /\ c.phone_number \in Nat /\ d.phone_number \in Nat /\ e.phone_number \in Nat
    BY <1>1
  <2>2. CASE NameLess(c.name, d.name) \/ NameLess(d.name, e.name)
    <3>1. NameLess(c.name, d.name) \/ c.name = d.name
      BY <1>2, <1>4
    <3>2. NameLess(d.name, e.name) \/ d.name = e.name
      BY <1>2, <1>4
    <3>3. NameLess(c.name, e.name)
      BY <2>1, <2>2, <3>1, <3>2, NamesAreOrdered
    <3> QED
      BY <1>2, <3>3
  <2>3. CASE ~NameLess(c.name, d.name) /\ ~NameLess(d.name, e.name)
    <3>1. /\ c.name = d.name /\ c.phone_number <= d.phone_number
          /\ d.name = e.name /\ d.phone_number <= e.phone_number
      BY <1>2, <1>4, <2>3
    <3>2. c.name = e.name /\ c.phone_number <= e.phone_number
      BY <2>1, <3>1
    <3> QED
      BY <1>2, <3>2
  <2> QED
    BY <2>2, <2>3
<1>5. ASSUME NEW c \in Contacts, NEW d \in Contacts, Before(c, d) PROVE ~NameLess(d.name, c.name)
  <2>1. NameLess(c.name, d.name) \/ c.name = d.name
    BY <1>2, <1>5
  <2>2. c.name \in Nat \X Nat /\ d.name \in Nat \X Nat
    BY <1>1
  <2> QED
    BY <2>1, <2>2, NamesAreOrdered
<1> QED
  BY <1>3, <1>4, <1>5

-----------------------------------------------------------------------------
\* The loop of _do_partition
Arrays(n) == [1 .. n -> Contacts]

Compared(t, n, a, b, acc, k) ==
    /\ acc.s \in Arrays(n)
    /\ acc.pIndex \in a .. a + k
    /\ Shuffled(t, acc.s, n, a, b - 1)
    /\ \A x \in a .. acc.pIndex - 1 : Before(acc.s[x], t[b])
    /\ \A x \in acc.pIndex .. a + k - 1 : ~Before(acc.s[x], t[b])

Partitioned(t, n, a, b, part) ==
    /\ part.s \in Arrays(n)
    /\ part.pIndex \in a .. b
    /\ Shuffled(t, part.s, n, a, b)
    /\ \A x \in a .. part.pIndex - 1 : Before(part.s[x], part.s[part.pIndex])
    /\ \A x \in part.pIndex + 1 .. b : Before(part.s[part.pIndex], part.s[x])

\* A round, on an array in which k contacts of the part have been compared
Compare(t, a, b, k, acc) ==
    IF _compare_contacts(acc.s[a + k - 1], t[b], 1) < 1
    THEN [s |-> _swap_contact(acc.s, a + k - 1, acc.pIndex), pIndex |-> acc.pIndex + 1]
    ELSE acc

LEMMA CompareKeeps ==
    ASSUME NEW n \in Nat, NEW t \in Arrays(n), NEW a \in 1 .. n, NEW b \in a .. n,
           NEW k \in 1 .. b - a, NEW acc, Compared(t, n, a, b, acc, k - 1)
    PROVE  Compared(t, n, a, b, Compare(t, a, b, k, acc), k)
<1> DEFINE x == a + k - 1
           p == acc.pIndex
           s == acc.s
           j == k - 1
<1>1. /\ s \in Arrays(n) /\ p \in a .. a + j
      /\ Shuffled(t, s, n, a, b - 1)
      /\ \A y \in a .. p - 1 : Before(s[y], t[b])
      /\ \A y \in p .. a + j - 1 : ~Before(s[y], t[b])
  BY DEF Compared
<1>2. x \in 1 .. n /\ x \in a .. b - 1 /\ a + j - 1 = x - 1 /\ a + j = x /\ a + k = x + 1 /\ x \in Int
  OBVIOUS
<1>3. p \in a .. x /\ p \in 1 .. n /\ p \in a .. b - 1 /\ p \in Int
  BY <1>1, <1>2
<1>4. Compare(t, a, b, k, acc) = IF Before(s[x], t[b]) THEN [s |-> _swap_contact(s, x, p), pIndex |-> p + 1] ELSE acc
  BY DEF Compare, Before
<1> HIDE DEF x, p, s, j
<1>5. CASE Before(s[x], t[b])
  <2> DEFINE u == _swap_contact(s, x, p)
             next == [s |-> u, pIndex |-> p + 1]
  <2>1. /\ u \in Arrays(n) /\ u[x] = s[p] /\ u[p] = s[x]
        /\ \A z \in 1 .. n : z # x /\ z # p => u[z] = s[z]
    BY <1>1, <1>2, <1>3, SwapIs DEF Arrays
  <2>2. Shuffled(s, u, n, a, b - 1)
    BY <1>1, <1>2, <1>3, ShuffleSwap DEF Arrays
  <2> HIDE DEF u
  <2>3. Shuffled(t, u, n, a, b - 1)
    <3> DEFINE c == b - 1
    <3>1. Shuffled(t, s, n, a, c) /\ Shuffled(s, u, n, a, c)
      BY <1>1, <2>2
    <3> HIDE DEF c
    <3>2. Shuffled(t, u, n, a, c)
      BY <3>1, ShuffleThen
    <3> QED
      BY <3>2 DEF c
  <2>4. ASSUME NEW y \in a .. (p + 1) - 1 PROVE Before(u[y], t[b])
    <3>1. CASE y = p
      BY <1>5, <2>1, <3>1
    <3>2. CASE y # p
      <4>1. y \in a .. p - 1 /\ y \in 1 .. n /\ y # x
        BY <1>2, <1>3, <3>2
      <4> QED
        BY <1>1, <2>1, <3>2, <4>1
    <3> QED
      BY <3>1, <3>2
  <2>5. ASSUME NEW y \in p + 1 .. a + k - 1 PROVE ~Before(u[y], t[b])
    <3>0. y \in p + 1 .. x /\ y \in 1 .. n /\ y # p
      BY <1>2, <1>3
    <3>1. CASE y = x
      <4>1. p \in p .. a + j - 1
        BY <1>2, <1>3, <3>0, <3>1
      <4> QED
        BY <1>1, <2>1, <3>1, <4>1
    <3>2. CASE y # x
      <4>1. y \in p .. a + j - 1
        BY <1>2, <1>3, <3>0, <3>2
      <4> QED
        BY <1>1, <2>1, <3>0, <3>2, <4>1
    <3> QED
      BY <3>1, <3>2
  <2>6. p + 1 \in a .. a + k
    BY <1>2, <1>3
  <2>7. Compared(t, n, a, b, next, k)
    BY <2>1, <2>3, <2>4, <2>5, <2>6 DEF Compared
  <2> QED
    BY <1>4, <1>5, <2>7 DEF u
<1>6. CASE ~Before(s[x], t[b])
  <2>1. p \in a .. a + k
    BY <1>2, <1>3
  <2>2. ASSUME NEW y \in p .. a + k - 1 PROVE ~Before(s[y], t[b])
    <3>1. y = x \/ y \in p .. a + j - 1
      BY <1>2, <1>3
    <3> QED
      BY <1>1, <1>6, <3>1
  <2>3. Compared(t, n, a, b, acc, k)
    BY <1>1, <2>1, <2>2 DEF Compared, s, p
  <2> QED
    BY <1>4, <1>6, <2>3
<1> QED
  BY <1>5, <1>6

LEMMA PartitionIs ==
    ASSUME NEW n \in Nat, NEW t \in Arrays(n), NEW a \in 1 .. n, NEW b \in a .. n
    PROVE  Partitioned(t, n, a, b, _do_partition(t, a, b))
<1> DEFINE m == b - a
           V == [s : Arrays(n), pIndex : Int]
           base == [s |-> t, pIndex |-> a]
           Step(k, acc) == Compare(t, a, b, k, acc)
           Fix(f) == f = [k \in 0 .. m |-> IF k = 0 THEN base ELSE Step(k, f[k - 1])]
           passed == CHOOSE f : Fix(f)
           last == passed[m]
<1>1. _do_partition(t, a, b) = [s |-> _swap_contact(last.s, last.pIndex, b), pIndex |-> last.pIndex]
  BY DEF _do_partition, Compare
<1>2. m \in Nat /\ base \in V /\ Compared(t, n, a, b, base, 0)
  <2>1. Shuffled(t, t, n, a, b - 1)
    BY ShuffleNone
  <2>2. m \in Nat /\ base \in V /\ a \in Int
    BY DEF Arrays
  <2>3. base.s = t /\ base.pIndex = a
    OBVIOUS
  <2> HIDE DEF base
  <2>4. base.pIndex \in a .. a + 0 /\ a .. base.pIndex - 1 = {} /\ base.pIndex .. a + 0 - 1 = {}
    BY <2>2, <2>3
  <2> QED
    BY <2>1, <2>2, <2>3, <2>4 DEF Compared
<1> DEFINE Can(k, acc) == Compared(t, n, a, b, acc, k - 1)
           round == [z \in (1 .. m) \X V |-> IF Can(z[1], z[2]) THEN Step(z[1], z[2]) ELSE base]
<1>3. ASSUME NEW k \in 1 .. m, NEW acc \in V, Can(k, acc)
      PROVE  Compared(t, n, a, b, Step(k, acc), k) /\ Step(k, acc) \in V
  <2>1. Compared(t, n, a, b, Step(k, acc), k)
    BY <1>3, CompareKeeps
  <2>2. Step(k, acc) = acc \/ Step(k, acc) = [s |-> Step(k, acc).s, pIndex |-> Step(k, acc).pIndex]
    BY DEF Compare
  <2>3. Step(k, acc).s \in Arrays(n) /\ Step(k, acc).pIndex \in Int
    BY <2>1 DEF Compared
  <2>4. Step(k, acc) \in V
    <3> HIDE DEF Step
    <3> QED
      BY <2>2, <2>3
  <2> QED
    BY <2>1, <2>4
<1> HIDE DEF Step
<1>4. \A k \in 1 .. m : \A acc \in V : round[<<k, acc>>] = IF Can(k, acc) THEN Step(k, acc) ELSE base
  OBVIOUS
<1> HIDE DEF round
<1>5. Keeps(round, m, V)
  <2> SUFFICES ASSUME NEW k \in 1 .. m, NEW acc \in V PROVE round[<<k, acc>>] \in V
    BY DEF Keeps
  <2>1. CASE Can(k, acc)
    <3>1. Step(k, acc) \in V
      BY <1>3, <2>1
    <3>2. round[<<k, acc>>] = Step(k, acc)
      BY <1>4, <2>1
    <3> QED
      BY <3>1, <3>2
  <2>2. CASE ~Can(k, acc)
    <3>1. round[<<k, acc>>] = base
      BY <1>4, <2>2
    <3> QED
      BY <1>2, <3>1
  <2> QED
    BY <2>1, <2>2
<1>6. \E f : Fix(f)
  <2> HIDE DEF Can, V, base, m
  <2>1. PICK f \in [0 .. m -> V] : Values(f, m, base, round)
    BY <1>2, <1>5, LoopHasValues
  <2> DEFINE S == {k \in 0 .. m : Compared(t, n, a, b, f[k], k)}
  <2>2. 0 \in S
    BY <1>2, <2>1 DEF Values
  <2>3. ASSUME NEW k \in 0 .. m - 1, k \in S PROVE k + 1 \in S
    <3>1. k + 1 \in 1 .. m /\ k + 1 \in 0 .. m /\ (k + 1) - 1 = k /\ k \in 0 .. m
      BY <1>2
    <3>2. f[k + 1] = round[<<k + 1, f[k]>>] /\ f[k] \in V
      BY <2>1, <3>1 DEF Values
    <3>3. Can(k + 1, f[k])
      BY <2>3, <3>1 DEF Can
    <3>4. f[k + 1] = Step(k + 1, f[k])
      BY <1>4, <3>1, <3>2, <3>3
    <3> QED
      BY <1>3, <3>1, <3>2, <3>3, <3>4
  <2>4. 0 .. m \subseteq S
    <3> HIDE DEF S
    <3> QED
      BY <1>2, <2>2, <2>3, CountUp
  <2>5. ASSUME NEW k \in 1 .. m PROVE f[k] = Step(k, f[k - 1])
    <3>1. k - 1 \in 0 .. m
      BY <1>2
    <3>2. Can(k, f[k - 1]) /\ f[k - 1] \in V
      BY <2>1, <2>4, <3>1 DEF Can
    <3> QED
      BY <1>4, <2>1, <3>2 DEF Values
  <2>6. ASSUME NEW k \in 0 .. m PROVE f[k] = IF k = 0 THEN base ELSE Step(k, f[k - 1])
    <3>1. k = 0 \/ k \in 1 .. m
      BY <1>2
    <3> QED
      BY <1>2, <2>1, <2>5, <3>1 DEF Values
  <2>7. f = [k \in 0 .. m |-> IF k = 0 THEN base ELSE Step(k, f[k - 1])]
    BY <2>1, <2>6
  <2> QED
    BY <2>7
<1>7. Fix(passed)
  <2> HIDE DEF Fix
  <2> QED
    BY <1>6
<1> HIDE DEF passed
<1>8. passed[0] = base /\ \A k \in 1 .. m : passed[k] = Step(k, passed[k - 1])
  <2>1. \A k \in 0 .. m : passed[k] = IF k = 0 THEN base ELSE Step(k, passed[k - 1])
    <3> HIDE DEF base, m
    <3> QED
      BY <1>7
  <2> HIDE DEF base
  <2> QED
    BY <1>2, <2>1
<1> DEFINE S == {k \in 0 .. m : Compared(t, n, a, b, passed[k], k)}
<1>9. 0 \in S
  <2> HIDE DEF base, m
  <2> QED
    BY <1>2, <1>8
<1>10. ASSUME NEW k \in 0 .. m - 1, k \in S PROVE k + 1 \in S
  <2> HIDE DEF base
  <2>1. k + 1 \in 1 .. m /\ k + 1 \in 0 .. m /\ (k + 1) - 1 = k /\ k \in 0 .. m
    BY <1>2
  <2>2. passed[k + 1] = Step(k + 1, passed[k])
    BY <1>8, <2>1
  <2> DEFINE j == k + 1
  <2>3. j \in 1 .. b - a /\ j - 1 = k
    BY <2>1
  <2>4. Compared(t, n, a, b, passed[k], j - 1)
    BY <1>10, <2>3
  <2> HIDE DEF j
  <2>5. Compared(t, n, a, b, Compare(t, a, b, j, passed[k]), j)
    BY <2>3, <2>4, CompareKeeps
  <2> QED
    BY <2>1, <2>2, <2>5 DEF j, Step
<1>11. m \in S
  <2> HIDE DEF S, m
  <2> QED
    BY <1>2, <1>9, <1>10, CountUp
<1> DEFINE p == last.pIndex
           s == last.s
           u == _swap_contact(s, p, b)
           part == [s |-> u, pIndex |-> p]
<1>12. /\ s \in Arrays(n) /\ p \in a .. b
       /\ Shuffled(t, s, n, a, b - 1)
       /\ \A x \in a .. p - 1 : Before(s[x], t[b])
       /\ \A x \in p .. b - 1 : ~Before(s[x], t[b])
  <2>1. Compared(t, n, a, b, last, m) /\ a + m = b /\ a + m - 1 = b - 1
    BY <1>11
  <2> HIDE DEF m
  <2>2. /\ s \in Arrays(n) /\ p \in a .. a + m
        /\ Shuffled(t, s, n, a, b - 1)
        /\ \A x \in a .. p - 1 : Before(s[x], t[b])
        /\ \A x \in p .. a + m - 1 : ~Before(s[x], t[b])
    <3> HIDE DEF last
    <3> QED
      BY <2>1 DEF Compared
  <2> HIDE DEF last, p, s
  <2> QED
    BY <2>1, <2>2
<1> HIDE DEF last, p, s
<1>13. p \in 1 .. n /\ b \in 1 .. n /\ p \in Int /\ b \in a .. b
  BY <1>12
<1>14. /\ u \in Arrays(n) /\ u[p] = s[b] /\ u[b] = s[p]
       /\ \A z \in 1 .. n : z # p /\ z # b => u[z] = s[z]
  BY <1>12, <1>13, SwapIs DEF Arrays
<1>15. s[b] = t[b]
  <2> DEFINE c == b - 1
  <2>1. b \notin a .. c /\ Shuffled(t, s, n, a, c)
    BY <1>12
  <2> HIDE DEF c
  <2> QED
    BY <1>13, <2>1, ShuffleFrom
<1>16. Shuffled(t, u, n, a, b)
  <2>1. Shuffled(s, u, n, a, b)
    BY <1>12, <1>13, ShuffleSwap DEF Arrays
  <2>2. Shuffled(t, s, n, a, b)
    <3> DEFINE c == b - 1
    <3>1. a .. c \subseteq a .. b /\ Shuffled(t, s, n, a, c)
      BY <1>12
    <3> HIDE DEF c
    <3> QED
      BY <3>1, ShuffleWider
  <2> HIDE DEF u
  <2> QED
    BY <2>1, <2>2, ShuffleThen
<1> HIDE DEF u
<1>17. ASSUME NEW x \in a .. p - 1 PROVE Before(u[x], u[p])
  <2>1. x \in 1 .. n /\ x # p /\ x # b
    BY <1>12, <1>13
  <2> QED
    BY <1>12, <1>14, <1>15, <2>1
<1>18. ASSUME NEW x \in p + 1 .. b PROVE Before(u[p], u[x])
  <2>1. x \in 1 .. n /\ x # p /\ p \in p .. b - 1
    BY <1>12, <1>13
  <2>2. u[x] \in Contacts /\ t[b] \in Contacts
    BY <1>13, <1>14, <2>1 DEF Arrays
  <2>3. ~Before(u[x], t[b])
    <3>1. CASE x = b
      BY <1>12, <1>14, <2>1, <3>1
    <3>2. CASE x # b
      <4>1. x \in p .. b - 1
        BY <1>13, <3>2
      <4> QED
        BY <1>12, <1>14, <2>1, <3>2, <4>1
    <3> QED
      BY <3>1, <3>2
  <2> QED
    BY <1>14, <1>15, <2>2, <2>3, ContactsAreOrdered
<1>19. part.s = u /\ part.pIndex = p
  OBVIOUS
<1> HIDE DEF part
<1>20. Partitioned(t, n, a, b, part)
  BY <1>12, <1>14, <1>16, <1>17, <1>18, <1>19 DEF Partitioned
<1> QED
  BY <1>1, <1>20 DEF part, u, p, s

-----------------------------------------------------------------------------
\* A call of quick, when those that it makes do what f does
Pivoted(t, a, b, rand) == _do_partition(_swap_contact(t, _get_random(a, b + 1, rand[<<a, b>>]), b), a, b)
Called(f, t, a, b, rand) ==
    IF a >= b THEN t
    ELSE f[<<f[<<Pivoted(t, a, b, rand).s, a, Pivoted(t, a, b, rand).pIndex - 1>>],
             Pivoted(t, a, b, rand).pIndex + 1, b>>]

\* What all the calls return, when those that they make do what f does
CallsFrom(f, n, rand) == [c \in Calls(n) |-> Called(f, c[1], c[2], c[3], rand)]

LEMMA QuickSortIs ==
    ASSUME NEW s, NEW rand
    PROVE  _quick_sort(s, rand) = (CHOOSE f : f = CallsFrom(f, Len(s), rand))[<<s, 1, Len(s)>>]
  BY DEF _quick_sort, Called, Pivoted, CallsFrom

\* rand returns a number for each part of n contacts.
Drawn(rand, n) == \A a, b \in 1 .. n : rand[<<a, b>>] \in Nat

LEMMA PivotedIs ==
    ASSUME NEW n \in Nat, NEW t \in Arrays(n), NEW a \in 1 .. n, NEW b \in a .. n, NEW rand, Drawn(rand, n)
    PROVE  Partitioned(t, n, a, b, Pivoted(t, a, b, rand))
<1> DEFINE drawn == rand[<<a, b>>]
           r == _get_random(a, b + 1, drawn)
           u == _swap_contact(t, r, b)
           part == Pivoted(t, a, b, rand)
<1>1. r \in a .. b
  <2> DEFINE d == (b + 1) - a
  <2>1. d \in Nat /\ d > 0 /\ b = d + a - 1 /\ a \in Int /\ b \in Int
    OBVIOUS
  <2>4. drawn \in Nat
    BY DEF Drawn
  <2>2. r = (drawn % d) + a
    BY DEF _get_random
  <2> HIDE DEF d, r, drawn
  <2>3. drawn % d \in 0 .. d - 1
    BY <2>1, <2>4
  <2> QED
    BY <2>1, <2>2, <2>3
<1> HIDE DEF r, drawn
<1>2. r \in 1 .. n /\ b \in 1 .. n /\ b \in a .. b
  BY <1>1
<1>3. u \in Arrays(n) /\ Shuffled(t, u, n, a, b)
  BY <1>1, <1>2, SwapIs, ShuffleSwap DEF Arrays
<1> HIDE DEF u
<1>4. Partitioned(u, n, a, b, _do_partition(u, a, b))
  BY <1>3, PartitionIs
<1>5. part = _do_partition(u, a, b)
  BY DEF Pivoted, u, r, drawn
<1> HIDE DEF part
<1>6. Partitioned(u, n, a, b, part)
  BY <1>4, <1>5
<1>7. Shuffled(u, part.s, n, a, b)
  BY <1>6 DEF Partitioned
<1>8. Shuffled(t, part.s, n, a, b)
  BY <1>3, <1>7, ShuffleThen
<1>9. Partitioned(t, n, a, b, part)
  BY <1>6, <1>8 DEF Partitioned
<1> QED
  BY <1>9 DEF part

-----------------------------------------------------------------------------
\* r is t with the contacts from a to b in order.
Ordered(r, a, b) == \A x, y \in a .. b : x < y => Before(r[x], r[y])
Sorts(t, r, n, a, b) == r \in Arrays(n) /\ Shuffled(t, r, n, a, b) /\ Ordered(r, a, b)

\* The two parts sorted, one after the other, the whole is.
LEMMA PartsSorted ==
    ASSUME NEW n \in Nat, NEW t \in Arrays(n), NEW a \in 1 .. n, NEW b \in a .. n,
           NEW part, Partitioned(t, n, a, b, part), NEW p, p = part.pIndex,
           NEW l, Sorts(part.s, l, n, a, p - 1), NEW r, Sorts(l, r, n, p + 1, b)
    PROVE  Sorts(t, r, n, a, b)
<1> DEFINE s == part.s
           c == p - 1
           d == p + 1
<1>1. /\ s \in Arrays(n) /\ p \in a .. b
      /\ Shuffled(t, s, n, a, b)
      /\ \A x \in a .. c : Before(s[x], s[p])
      /\ \A x \in d .. b : Before(s[p], s[x])
  BY DEF Partitioned
<1>2. l \in Arrays(n) /\ Shuffled(s, l, n, a, c) /\ Ordered(l, a, c)
  BY DEF Sorts
<1>3. r \in Arrays(n) /\ Shuffled(l, r, n, d, b) /\ Ordered(r, d, b)
  BY DEF Sorts
<1>4. /\ p \in 1 .. n /\ p \in a .. b /\ p \notin a .. c /\ p \notin d .. b
      /\ \A x \in a .. c : x \in 1 .. n /\ x \notin d .. b /\ x \in a .. b
      /\ \A x \in d .. b : x \in 1 .. n /\ x \notin a .. c /\ x \in a .. b
      /\ \A x \in a .. b : x \in a .. c \/ x = p \/ x \in d .. b
      /\ \A x \in a .. c : \A y \in d .. b : x < p /\ p < y /\ x < y
      /\ a .. c \subseteq a .. b /\ d .. b \subseteq a .. b
  BY <1>1
<1> HIDE DEF s, c, d
<1>5. Shuffled(t, r, n, a, b)
  <2>1. Shuffled(s, l, n, a, b)
    BY <1>2, <1>4, ShuffleWider
  <2>2. Shuffled(l, r, n, a, b)
    BY <1>3, <1>4, ShuffleWider
  <2>3. Shuffled(t, l, n, a, b)
    BY <1>1, <2>1, ShuffleThen
  <2> QED
    BY <2>2, <2>3, ShuffleThen
<1>6. r[p] = s[p] /\ r[p] \in Contacts
  <2>1. l[p] = s[p]
    BY <1>2, <1>4, ShuffleFrom
  <2>2. r[p] = l[p]
    BY <1>3, <1>4, ShuffleFrom
  <2> QED
    BY <1>3, <1>4, <2>1, <2>2 DEF Arrays
<1>7. ASSUME NEW x \in a .. c PROVE r[x] = l[x] /\ r[x] \in Contacts /\ Before(r[x], r[p])
  <2>1. x \in 1 .. n /\ x \notin d .. b
    BY <1>4
  <2>2. r[x] = l[x]
    BY <1>3, <2>1, ShuffleFrom
  <2>3. PICK y \in 1 .. n : y \in a .. c /\ l[x] = s[y]
    BY <1>2, <2>1, ShuffleFrom
  <2>4. r[x] \in Contacts
    BY <1>3, <2>1 DEF Arrays
  <2> QED
    BY <1>1, <1>6, <2>2, <2>3, <2>4
<1>8. ASSUME NEW x \in d .. b PROVE r[x] \in Contacts /\ Before(r[p], r[x])
  <2>1. x \in 1 .. n
    BY <1>4
  <2>2. PICK y \in 1 .. n : y \in d .. b /\ r[x] = l[y]
    BY <1>3, <2>1, ShuffleFrom
  <2>3. l[y] = s[y]
    BY <1>2, <1>4, <2>2, ShuffleFrom
  <2>4. r[x] \in Contacts
    BY <1>3, <2>1 DEF Arrays
  <2> QED
    BY <1>1, <1>6, <2>2, <2>3, <2>4
<1>9. ASSUME NEW x \in a .. b, NEW y \in a .. b, x < y PROVE Before(r[x], r[y])
  <2>0. x \in Int /\ y \in Int /\ p \in Int
    BY <1>4
  <2>1. CASE x \in a .. c /\ y \in a .. c
    BY <1>2, <1>7, <1>9, <2>1 DEF Ordered
  <2>2. CASE x \in a .. c /\ y = p
    BY <1>7, <2>2
  <2>3. CASE x \in a .. c /\ y \in d .. b
    BY <1>6, <1>7, <1>8, <2>3, ContactsAreOrdered
  <2>4. CASE x = p /\ y \in d .. b
    BY <1>8, <2>4
  <2>5. CASE x \in d .. b /\ y \in d .. b
    BY <1>3, <1>9, <2>5 DEF Ordered
  <2>6. CASE (x = p /\ y = p) \/ (x = p /\ y \in a .. c) \/ (x \in d .. b /\ y = p) \/ (x \in d .. b /\ y \in a .. c)
    <3>1. \A z \in a .. c : z < p
      BY <1>1 DEF c
    <3>2. \A z \in d .. b : p < z
      BY <1>1 DEF d
    <3>3. \A z \in a .. c : z \in Int
      OBVIOUS
    <3>4. \A z \in d .. b : z \in Int
      OBVIOUS
    <3> QED
      BY <1>9, <2>0, <2>6, <3>1, <3>2, <3>3, <3>4
  <2> QED
    BY <1>4, <2>1, <2>2, <2>3, <2>4, <2>5, <2>6
<1> QED
  BY <1>3, <1>5, <1>9 DEF Sorts, Ordered

\* A part of one contact, or of none, is in order.
LEMMA LittleIsSorted ==
    ASSUME NEW n \in Nat, NEW t \in Arrays(n), NEW a \in Int, NEW b \in Int, a >= b
    PROVE  Sorts(t, t, n, a, b)
<1>1. Shuffled(t, t, n, a, b)
  BY ShuffleNone
<1> QED
  BY <1>1 DEF Sorts, Ordered

-----------------------------------------------------------------------------
\* The calls that a call makes are calls on smaller parts.
LEMMA SmallerCalls ==
    ASSUME NEW n \in Nat, NEW t \in Arrays(n), NEW a \in 1 .. n + 1, NEW b \in 0 .. n, a < b,
           NEW rand, Drawn(rand, n),
           NEW s, s = Pivoted(t, a, b, rand).s, NEW p, p = Pivoted(t, a, b, rand).pIndex
    PROVE  /\ a \in 1 .. n /\ b \in a .. n
           /\ Partitioned(t, n, a, b, Pivoted(t, a, b, rand))
           /\ s \in Arrays(n) /\ p \in a .. b
           /\ <<s, a, p - 1>> \in Calls(n)
           /\ \A l \in Arrays(n) : <<l, p + 1, b>> \in Calls(n)
<1> DEFINE part == Pivoted(t, a, b, rand)
<1>1. a \in 1 .. n /\ b \in a .. n
  OBVIOUS
<1>2. Partitioned(t, n, a, b, part)
  BY <1>1, PivotedIs
<1> HIDE DEF part
<1>3. s \in Arrays(n) /\ p \in a .. b
  BY <1>2 DEF Partitioned, part
<1>4. p - 1 \in 0 .. n /\ p + 1 \in 1 .. n + 1
  BY <1>1, <1>3
<1> QED
  BY <1>1, <1>2, <1>3, <1>4 DEF Calls, Arrays, part

LEMMA CallIs ==
    ASSUME NEW n \in Nat, NEW c \in Calls(n)
    PROVE  /\ c[1] \in Arrays(n) /\ c[2] \in 1 .. n + 1 /\ c[3] \in 0 .. n
           /\ c[2] \in Int /\ c[3] \in Int /\ c = <<c[1], c[2], c[3]>>
           /\ c[3] - c[2] + 1 <= n
  BY DEF Calls, Arrays

Results(n) == [Calls(n) -> Arrays(n)]

LEMMA RoundIsResult ==
    ASSUME NEW n \in Nat, NEW rand, Drawn(rand, n), NEW f \in Results(n)
    PROVE  CallsFrom(f, n, rand) \in Results(n)
<1> SUFFICES ASSUME NEW c \in Calls(n) PROVE Called(f, c[1], c[2], c[3], rand) \in Arrays(n)
  BY DEF CallsFrom, Results
<1> DEFINE t == c[1]
           a == c[2]
           b == c[3]
           s == Pivoted(t, a, b, rand).s
           p == Pivoted(t, a, b, rand).pIndex
<1>1. t \in Arrays(n) /\ a \in 1 .. n + 1 /\ b \in 0 .. n
  BY CallIs
<1> HIDE DEF t, a, b
<1>2. CASE a >= b
  BY <1>1, <1>2 DEF Called, t, a, b
<1>3. CASE a < b
  <2> HIDE DEF s, p
  <2>1. s = Pivoted(t, a, b, rand).s /\ p = Pivoted(t, a, b, rand).pIndex
    BY DEF s, p
  <2>2. <<s, a, p - 1>> \in Calls(n) /\ \A l \in Arrays(n) : <<l, p + 1, b>> \in Calls(n)
    BY <1>1, <1>3, <2>1, SmallerCalls
  <2>3. f[<<s, a, p - 1>>] \in Arrays(n)
    BY <2>2 DEF Results
  <2>4. f[<<f[<<s, a, p - 1>>], p + 1, b>>] \in Arrays(n)
    BY <2>2, <2>3 DEF Results
  <2>5. Called(f, t, a, b, rand) = f[<<f[<<s, a, p - 1>>], p + 1, b>>]
    <3>1. ~(a >= b)
      BY <1>1, <1>3
    <3> QED
      BY <2>1, <3>1 DEF Called
  <2> QED
    BY <2>4, <2>5 DEF t, a, b
<1> QED
  BY <1>1, <1>2, <1>3

\* The calls on parts of at most k contacts return by now what they will.
Settled(f, n, rand, k) == \A c \in Calls(n) : c[3] - c[2] + 1 <= k => CallsFrom(f, n, rand)[c] = f[c]

LEMMA RoundSettles ==
    ASSUME NEW n \in Nat, NEW rand, Drawn(rand, n), NEW f \in Results(n), NEW k \in Nat, Settled(f, n, rand, k)
    PROVE  Settled(CallsFrom(f, n, rand), n, rand, k + 1)
<1> DEFINE g == CallsFrom(f, n, rand)
           h == CallsFrom(g, n, rand)
<1>1. g \in Results(n)
  BY RoundIsResult
<1>2. /\ \A c \in Calls(n) : g[c] = Called(f, c[1], c[2], c[3], rand)
      /\ \A c \in Calls(n) : h[c] = Called(g, c[1], c[2], c[3], rand)
  BY DEF CallsFrom
<1>3. \A c \in Calls(n) : c[3] - c[2] + 1 <= k => g[c] = f[c]
  BY DEF Settled
<1> HIDE DEF g, h
<1>4. ASSUME NEW c \in Calls(n), c[3] - c[2] + 1 <= k + 1 PROVE h[c] = g[c]
  <2> DEFINE t == c[1]
             a == c[2]
             b == c[3]
             s == Pivoted(t, a, b, rand).s
             p == Pivoted(t, a, b, rand).pIndex
             lower == <<s, a, p - 1>>
             upper(l) == <<l, p + 1, b>>
  <2>1. t \in Arrays(n) /\ a \in 1 .. n + 1 /\ b \in 0 .. n /\ b - a + 1 <= k + 1
    BY <1>4, CallIs
  <2>2. g[c] = Called(f, t, a, b, rand) /\ h[c] = Called(g, t, a, b, rand)
    BY <1>2
  <2> HIDE DEF t, a, b
  <2>3. CASE a >= b
    BY <2>2, <2>3 DEF Called
  <2>4. CASE a < b
    <3> HIDE DEF s, p
    <3>1. s = Pivoted(t, a, b, rand).s /\ p = Pivoted(t, a, b, rand).pIndex
      BY DEF s, p
    <3>2. p \in a .. b /\ lower \in Calls(n) /\ \A l \in Arrays(n) : upper(l) \in Calls(n)
      BY <2>1, <2>4, <3>1, SmallerCalls
    <3>3. lower[2] = a /\ lower[3] = p - 1 /\ \A l \in Arrays(n) : upper(l)[2] = p + 1 /\ upper(l)[3] = b
      OBVIOUS
    <3>4. (p - 1) - a + 1 <= k /\ b - (p + 1) + 1 <= k
      BY <2>1, <3>2
    <3>5. /\ Called(f, t, a, b, rand) = f[upper(f[lower])]
          /\ Called(g, t, a, b, rand) = g[upper(g[lower])]
      <4>1. ~(a >= b)
        BY <2>1, <2>4
      <4> QED
        BY <3>1, <4>1 DEF Called
    <3> HIDE DEF lower, upper
    <3>6. g[lower] = f[lower]
      BY <1>3, <3>2, <3>3, <3>4
    <3>7. f[lower] \in Arrays(n)
      BY <3>2 DEF Results
    <3>8. g[upper(f[lower])] = f[upper(f[lower])]
      BY <1>3, <3>2, <3>3, <3>4, <3>7
    <3> QED
      BY <2>2, <3>5, <3>6, <3>8
  <2> QED
    BY <2>1, <2>3, <2>4
<1> QED
  BY <1>4 DEF Settled, g, h

\* So there is a function that returns what its calls do.
LEMMA QuickExists ==
    ASSUME NEW n \in Nat, NEW rand, Drawn(rand, n)
    PROVE  \E f \in Results(n) : f = CallsFrom(f, n, rand)
<1> DEFINE V == Results(n)
           base == [c \in Calls(n) |-> c[1]]
           round == [z \in (1 .. n) \X V |-> CallsFrom(z[2], n, rand)]
<1>1. base \in V
  BY CallIs DEF Results
<1>2. \A k \in 1 .. n : \A f \in V : round[<<k, f>>] = CallsFrom(f, n, rand)
  OBVIOUS
<1>3. Settled(base, n, rand, 0)
  <2> SUFFICES ASSUME NEW c \in Calls(n), c[3] - c[2] + 1 <= 0 PROVE CallsFrom(base, n, rand)[c] = base[c]
    BY DEF Settled
  <2>1. c[2] >= c[3]
    BY CallIs
  <2>2. Called(base, c[1], c[2], c[3], rand) = c[1]
    BY <2>1 DEF Called
  <2>3. base[c] = c[1]
    OBVIOUS
  <2> QED
    BY <2>2, <2>3 DEF CallsFrom
<1> HIDE DEF V, base, round
<1>4. Keeps(round, n, V)
  BY <1>2, RoundIsResult DEF Keeps, V
<1>5. PICK g \in [0 .. n -> V] : Values(g, n, base, round)
  BY <1>1, <1>4, LoopHasValues
<1> DEFINE S == {k \in 0 .. n : Settled(g[k], n, rand, k)}
<1>6. 0 \in S
  BY <1>3, <1>5 DEF Values
<1>7. ASSUME NEW k \in 0 .. n - 1, k \in S PROVE k + 1 \in S
  <2>1. k + 1 \in 1 .. n /\ k + 1 \in 0 .. n /\ (k + 1) - 1 = k /\ k \in 0 .. n /\ k \in Nat
    OBVIOUS
  <2>2. g[k] \in V /\ g[k + 1] = CallsFrom(g[k], n, rand)
    BY <1>2, <1>5, <2>1 DEF Values
  <2>3. Settled(g[k], n, rand, k)
    BY <1>7
  <2>4. Settled(CallsFrom(g[k], n, rand), n, rand, k + 1)
    BY <2>1, <2>2, <2>3, RoundSettles DEF V
  <2> QED
    BY <2>1, <2>2, <2>4
<1>8. n \in S
  <2>1. 0 .. n \subseteq S
    <3> HIDE DEF S
    <3> QED
      BY <1>6, <1>7, CountUp
  <2>2. n \in 0 .. n
    OBVIOUS
  <2> HIDE DEF S
  <2> QED
    BY <2>1, <2>2
<1>9. g[n] \in Results(n) /\ Settled(g[n], n, rand, n)
  BY <1>5, <1>8 DEF V
<1> DEFINE f == g[n]
<1> HIDE DEF f
<1>10. f \in Results(n) /\ \A c \in Calls(n) : CallsFrom(f, n, rand)[c] = f[c]
  BY <1>9, CallIs DEF Settled, f
<1>11. CallsFrom(f, n, rand) \in Results(n)
  BY <1>10, RoundIsResult
<1>12. f = CallsFrom(f, n, rand)
  BY <1>10, <1>11 DEF Results
<1> QED
  BY <1>10, <1>12

\* Whatever rand draws, a call sorts its part.
LEMMA CallSorts ==
    ASSUME NEW n \in Nat, NEW rand, Drawn(rand, n), NEW f, f = CallsFrom(f, n, rand)
    PROVE  \A c \in Calls(n) : Sorts(c[1], f[c], n, c[2], c[3])
<1>1. \A c \in Calls(n) : f[c] = Called(f, c[1], c[2], c[3], rand)
  BY DEF CallsFrom
<1> DEFINE S == {k \in 0 .. n : \A c \in Calls(n) : c[3] - c[2] + 1 <= k => Sorts(c[1], f[c], n, c[2], c[3])}
<1>2. ASSUME NEW c \in Calls(n), c[2] >= c[3] PROVE Sorts(c[1], f[c], n, c[2], c[3])
  <2>1. c[1] \in Arrays(n) /\ c[2] \in Int /\ c[3] \in Int
    BY CallIs
  <2>2. f[c] = c[1]
    BY <1>1, <1>2 DEF Called
  <2> QED
    BY <1>2, <2>1, <2>2, LittleIsSorted
<1>3. 0 \in S
  <2>1. \A c \in Calls(n) : c[3] - c[2] + 1 <= 0 => c[2] >= c[3]
    BY CallIs
  <2> QED
    BY <1>2, <2>1
<1>4. ASSUME NEW k \in 0 .. n - 1, k \in S PROVE k + 1 \in S
  <2>0. k + 1 \in 0 .. n
    OBVIOUS
  <2>1. ASSUME NEW c \in Calls(n), c[3] - c[2] + 1 <= k + 1, c[2] < c[3] PROVE Sorts(c[1], f[c], n, c[2], c[3])
    <3> DEFINE t == c[1]
               a == c[2]
               b == c[3]
               part == Pivoted(t, a, b, rand)
               s == part.s
               p == part.pIndex
               lower == <<s, a, p - 1>>
               l == f[lower]
               upper == <<l, p + 1, b>>
               r == f[upper]
    <3>1. t \in Arrays(n) /\ a \in 1 .. n + 1 /\ b \in 0 .. n /\ b - a + 1 <= k + 1 /\ a < b
      BY <2>1, CallIs
    <3>2. f[c] = Called(f, t, a, b, rand)
      BY <1>1
    <3> HIDE DEF t, a, b
    <3>3. f[c] = r
      <4>1. ~(a >= b)
        BY <3>1
      <4> QED
        BY <3>2, <4>1 DEF Called
    <3>4. s = Pivoted(t, a, b, rand).s /\ p = Pivoted(t, a, b, rand).pIndex
      OBVIOUS
    <3> HIDE DEF part, s, p
    <3>5. /\ a \in 1 .. n /\ b \in a .. n /\ Partitioned(t, n, a, b, part)
          /\ p \in a .. b /\ lower \in Calls(n) /\ \A x \in Arrays(n) : <<x, p + 1, b>> \in Calls(n)
      BY <3>1, <3>4, SmallerCalls DEF part
    <3>6. (p - 1) - a + 1 <= k /\ b - (p + 1) + 1 <= k
      BY <3>1, <3>5
    <3>7. lower[1] = s /\ lower[2] = a /\ lower[3] = p - 1
      OBVIOUS
    <3> HIDE DEF lower
    <3>8. Sorts(lower[1], f[lower], n, lower[2], lower[3])
      BY <1>4, <3>5, <3>6, <3>7
    <3>9. Sorts(s, l, n, a, p - 1)
      BY <3>7, <3>8
    <3>10. l \in Arrays(n)
      BY <3>9 DEF Sorts
    <3> HIDE DEF l
    <3>11. upper[1] = l /\ upper[2] = p + 1 /\ upper[3] = b /\ upper \in Calls(n)
      BY <3>5, <3>10
    <3> HIDE DEF upper
    <3>12. Sorts(upper[1], f[upper], n, upper[2], upper[3])
      BY <1>4, <3>6, <3>11
    <3>13. Sorts(l, r, n, p + 1, b)
      BY <3>11, <3>12
    <3> HIDE DEF r
    <3>14. Sorts(part.s, l, n, a, p - 1) /\ p = part.pIndex
      BY <3>9 DEF s, p
    <3>15. Sorts(t, r, n, a, b)
      BY <3>1, <3>5, <3>13, <3>14, PartsSorted
    <3> QED
      BY <3>3, <3>15 DEF t, a, b
  <2>2. \A c \in Calls(n) : c[2] >= c[3] \/ c[2] < c[3]
    BY CallIs
  <2> QED
    BY <1>2, <2>0, <2>1, <2>2
<1>5. n \in S
  <2> HIDE DEF S
  <2> QED
    BY <1>3, <1>4, CountUp
<1> QED
  BY <1>5, CallIs

LEMMA QuickSorts ==
    ASSUME NEW s \in Seq(Contacts), NEW rand, Drawn(rand, Len(s))
    PROVE  Sorts(s, _quick_sort(s, rand), Len(s), 1, Len(s))
<1> DEFINE n == Len(s)
           quick == CHOOSE f : f = CallsFrom(f, n, rand)
           c == <<s, 1, n>>
<1>1. n \in Nat /\ s \in Arrays(n)
  BY DEF Arrays
<1>7. Drawn(rand, n)
  OBVIOUS
<1>2. _quick_sort(s, rand) = quick[c]
  BY QuickSortIs
<1>3. quick = CallsFrom(quick, n, rand)
  <2> HIDE DEF n
  <2> QED
    BY <1>1, <1>7, QuickExists
<1>4. c[1] = s /\ c[2] = 1 /\ c[3] = n /\ c \in Calls(n)
  BY <1>1 DEF Calls, Arrays
<1> HIDE DEF n, quick, c
<1>5. Sorts(c[1], quick[c], n, c[2], c[3])
  BY <1>1, <1>3, <1>4, <1>7, CallSorts
<1>6. Sorts(s, quick[c], n, 1, n)
  BY <1>4, <1>5
<1> QED
  BY <1>2, <1>6 DEF n

-----------------------------------------------------------------------------
\* How often a contact is in the directory
SameContacts(s, t) == \A c : Times(t, c) = Times(s, c)

LEMMA TimesIsNumber ==
    ASSUME NEW s \in Seq(Contacts), NEW c
    PROVE  IsFiniteSet({x \in DOMAIN s : s[x] = c}) /\ Times(s, c) \in Nat
<1> DEFINE S == {x \in DOMAIN s : s[x] = c}
<1>1. IsFiniteSet(1 .. Len(s)) /\ S \in SUBSET (1 .. Len(s))
  BY FS_Interval
<1> HIDE DEF S
<1>2. IsFiniteSet(S)
  BY <1>1, FS_Subset
<1>3. Cardinality(S) \in Nat
  BY <1>2, FS_CardinalityType
<1> QED
  BY <1>2, <1>3 DEF S, Times

LEMMA ShuffleKeeps ==
    ASSUME NEW s \in Seq(Contacts), NEW t \in Seq(Contacts), NEW a, NEW b,
           Len(t) = Len(s), Shuffled(s, t, Len(s), a, b)
    PROVE  SameContacts(s, t)
<1> DEFINE n == Len(s)
<1>1. PICK from \in [1 .. n -> 1 .. n] : Moves(from, n, a, b) /\ \A x \in 1 .. n : t[x] = s[from[x]]
  BY DEF Shuffled
<1>2. DOMAIN s = 1 .. n /\ DOMAIN t = 1 .. n
  OBVIOUS
<1> HIDE DEF n
<1> SUFFICES ASSUME NEW c PROVE Times(t, c) = Times(s, c)
  BY DEF SameContacts
<1> DEFINE S == {x \in DOMAIN s : s[x] = c}
           T == {x \in DOMAIN t : t[x] = c}
           f == [x \in T |-> from[x]]
<1>3. f \in [T -> S] /\ \A x \in T : f[x] = from[x]
  BY <1>1, <1>2
<1>4. \A x \in T : x \in 1 .. n
  BY <1>2
<1>5. \A x, y \in T : f[x] = f[y] => x = y
  BY <1>1, <1>3, <1>4 DEF Moves
<1>6. ASSUME NEW z \in S PROVE \E x \in T : f[x] = z
  <2>1. z \in 1 .. n /\ s[z] = c
    BY <1>2
  <2>2. PICK x \in 1 .. n : from[x] = z
    BY <1>1, <2>1 DEF Moves
  <2>3. x \in T
    BY <1>1, <1>2, <2>1, <2>2
  <2> QED
    BY <1>3, <2>2, <2>3
<1> HIDE DEF S, T, f
<1>7. f \in Bijection(T, S)
  BY <1>3, <1>5, <1>6, BijectionIs
<1>8. IsFiniteSet(T)
  BY TimesIsNumber DEF T
<1>9. Cardinality(S) = Cardinality(T)
  BY <1>7, <1>8, FS_Bijection DEF ExistsBijection
<1> QED
  BY <1>9 DEF Times, S, T

\* A sort leaves the same contacts, in order, whatever rand draws.
LEMMA SortContactIs ==
    ASSUME NEW s \in Seq(Contacts), NEW rand, Drawn(rand, Len(s))
    PROVE  /\ sort_contact(s, rand) \in Seq(Contacts)
           /\ Len(sort_contact(s, rand)) = Len(s)
           /\ ContactsInOrder(sort_contact(s, rand))
           /\ SameContacts(s, sort_contact(s, rand))
<1> DEFINE r == sort_contact(s, rand)
           n == Len(s)
<1>1. CASE n < 2
  <2>1. r = s
    BY <1>1 DEF sort_contact
  <2>2. ContactsInOrder(s)
    BY <1>1 DEF ContactsInOrder, Before
  <2> QED
    BY <2>1, <2>2 DEF SameContacts
<1>2. CASE ~(n < 2)
  <2>1. Sorts(s, r, n, 1, n)
    BY <1>2, QuickSorts DEF sort_contact
  <2>2. n \in Nat
    OBVIOUS
  <2> HIDE DEF r
  <2>3. r \in [1 .. n -> Contacts] /\ Shuffled(s, r, n, 1, n) /\ \A x, y \in 1 .. n : x < y => Before(r[x], r[y])
    BY <2>1 DEF Sorts, Arrays, Ordered
  <2>4. r \in Seq(Contacts) /\ Len(r) = n /\ DOMAIN r = 1 .. n
    BY <2>2, <2>3
  <2>5. SameContacts(s, r)
    BY <2>3, <2>4, ShuffleKeeps
  <2>6. ContactsInOrder(r)
    BY <2>3, <2>4 DEF ContactsInOrder, Before
  <2> QED
    BY <2>4, <2>5, <2>6 DEF r
<1> QED
  BY <1>1, <1>2

\* A contact at the end is there once more.
LEMMA AppendTimes ==
    ASSUME NEW s \in Seq(Contacts), NEW e \in Contacts, NEW c
    PROVE  Times(Append(s, e), c) = IF c = e THEN Times(s, c) + 1 ELSE Times(s, c)
<1> DEFINE t == Append(s, e)
           m == Len(s) + 1
           S == {x \in DOMAIN s : s[x] = c}
           T == {x \in DOMAIN t : t[x] = c}
<1>1. DOMAIN t = 1 .. m /\ DOMAIN s = 1 .. m - 1 /\ t[m] = e /\ m \in Nat
      /\ \A x \in 1 .. m - 1 : t[x] = s[x]
  BY AppendProperties
<1>2. m \notin S /\ m \in 1 .. m /\ \A x \in 1 .. m : x = m \/ x \in 1 .. m - 1
  BY <1>1
<1>3. IsFiniteSet(S)
  BY TimesIsNumber
<1> HIDE DEF t, m
<1>4. c = e => T = S \cup {m}
  BY <1>1, <1>2
<1>5. c # e => T = S
  BY <1>1, <1>2
<1> HIDE DEF S, T
<1>6. Cardinality(S \cup {m}) = Cardinality(S) + 1
  BY <1>2, <1>3, FS_AddElement
<1>7. Times(t, c) = Cardinality(T) /\ Times(s, c) = Cardinality(S)
  BY DEF Times, S, T
<1> QED
  BY <1>4, <1>5, <1>6, <1>7 DEF t

\* An array without its last contact has that one once less.
LEMMA FrontTimes ==
    ASSUME NEW s \in Seq(Contacts), Len(s) > 0, NEW c
    PROVE  /\ Front(s) \in Seq(Contacts) /\ Len(Front(s)) = Len(s) - 1 /\ s[Len(s)] \in Contacts
           /\ Times(s, c) = IF c = s[Len(s)] THEN Times(Front(s), c) + 1 ELSE Times(Front(s), c)
<1> DEFINE t == Front(s)
           e == s[Len(s)]
<1>1. t \in Seq(Contacts) /\ Len(t) = Len(s) - 1 /\ e \in Contacts /\ \A x \in 1 .. Len(t) : t[x] = s[x]
  <2> DEFINE m == Len(s) - 1
  <2>1. m \in Nat /\ 1 \in 1 .. Len(s) + 1 /\ m \in 0 .. Len(s) /\ m <= Len(s)
    OBVIOUS
  <2>2. t = SubSeq(s, 1, m)
    BY DEF Front
  <2> HIDE DEF m, t
  <2>3. t \in Seq(Contacts) /\ Len(t) = m /\ \A x \in 1 .. m : t[x] = s[x]
    BY <2>1, <2>2
  <2>4. e \in Contacts
    BY ElementOfSeq
  <2> QED
    BY <2>3, <2>4 DEF m
<1> HIDE DEF t
<1>2. /\ Append(t, e) \in Seq(Contacts) /\ Len(Append(t, e)) = Len(s)
      /\ \A x \in 1 .. Len(s) : Append(t, e)[x] = s[x]
  BY <1>1, AppendProperties
<1>3. Append(t, e) = s
  <2> DEFINE u == Append(t, e)
  <2> HIDE DEF u
  <2>1. u \in Seq(Contacts) /\ Len(u) = Len(s) /\ \A x \in 1 .. Len(s) : u[x] = s[x]
    BY <1>2 DEF u
  <2>2. u = s
    BY <2>1, SeqEqual
  <2> QED
    BY <2>2 DEF u
<1>4. Times(Append(t, e), c) = IF c = e THEN Times(t, c) + 1 ELSE Times(t, c)
  BY <1>1, AppendTimes
<1> QED
  BY <1>1, <1>3, <1>4 DEF t

\* The contact at place x of s, and no other, is not in r, which is in order.
Without(s, x, r) ==
    /\ r \in Seq(Contacts) /\ Len(r) = Len(s) - 1 /\ ContactsInOrder(r)
    /\ \A c : Times(s, c) = IF c = s[x] THEN Times(r, c) + 1 ELSE Times(r, c)

LEMMA DeleteIs ==
    ASSUME NEW s \in Seq(Contacts), NEW x \in 1 .. Len(s), NEW rand, Drawn(rand, Len(s)),
           NEW r, r = sort_contact(Front(_swap_contact(s, x, Len(s))), rand)
    PROVE  Without(s, x, r)
<1> DEFINE n == Len(s)
           u == _swap_contact(s, x, n)
           t == Front(u)
<1>1. n \in Nat /\ n > 0 /\ n \in 1 .. n /\ s \in Arrays(n) /\ s \in [1 .. n -> Contacts] /\ x \in 1 .. n
  BY DEF Arrays
<1>2. u \in [1 .. n -> Contacts] /\ u[n] = s[x]
  BY <1>1, SwapIs
<1>3. Shuffled(s, u, n, 1, n)
  BY <1>1, ShuffleSwap DEF Arrays
<1> HIDE DEF u
<1>4. u \in Seq(Contacts) /\ Len(u) = n
  <2> HIDE DEF n
  <2> QED
    BY <1>1, <1>2
<1>5. SameContacts(s, u)
  BY <1>3, <1>4, ShuffleKeeps
<1>6. /\ t \in Seq(Contacts) /\ Len(t) = n - 1
      /\ \A c : Times(u, c) = IF c = s[x] THEN Times(t, c) + 1 ELSE Times(t, c)
  BY <1>1, <1>2, <1>4, FrontTimes
<1>9. Drawn(rand, Len(t))
  <2>1. 1 .. Len(t) \subseteq 1 .. Len(s)
    BY <1>1, <1>6
  <2> HIDE DEF t, n
  <2> QED
    BY <2>1 DEF Drawn
<1> HIDE DEF t
<1>7. r = sort_contact(t, rand)
  BY DEF t, u
<1>8. r \in Seq(Contacts) /\ Len(r) = Len(t) /\ ContactsInOrder(r) /\ SameContacts(t, r)
  BY <1>6, <1>7, <1>9, SortContactIs
<1> QED
  BY <1>5, <1>6, <1>8 DEF SameContacts, Without

-----------------------------------------------------------------------------
\* After k rounds of a search in s
Searched(s, name, r, k) ==
    /\ r.start \in Int /\ r.end \in Int /\ 1 <= r.start /\ r.end <= Len(s)
    /\ r.status \in 1 .. Len(s) \cup {-1}
    /\ r.status > 0 => s[r.status].name = name
    /\ r.status < 0 => r.end - r.start + 1 <= Len(s) - k \/ r.start > r.end
    /\ r.status < 0 /\ ContactsInOrder(s) => Named(s, name) \subseteq r.start .. r.end

Ranges == [start : Int, end : Int, status : Int]

LEMMA HalveIsRange ==
    ASSUME NEW s, NEW target, NEW r \in Ranges
    PROVE  Halve(s, target, r) \in Ranges
<1> DEFINE mid == r.start + (r.end - r.start) \div 2
           comp == _compare_contacts(s[mid], target, 0)
<1>1. mid \in Int
  BY DEF Ranges
<1>2. Halve(s, target, r) = IF r.status > 0 \/ r.start > r.end THEN r
                            ELSE IF comp = 0 THEN [r EXCEPT !.status = mid]
                            ELSE IF comp < 0 THEN [r EXCEPT !.start = mid + 1]
                            ELSE [r EXCEPT !.end = mid - 1]
  BY DEF Halve
<1> HIDE DEF mid, comp
<1> QED
  BY <1>1, <1>2 DEF Ranges

\* The contact in the middle is the one, or the half that is left out has not
\* the name.
LEMMA HalveSearches ==
    ASSUME NEW s \in Seq(Contacts), NEW target, NEW name \in Nat \X Nat, target.name = name,
           NEW r \in Ranges, NEW k \in Nat, Searched(s, name, r, k)
    PROVE  Searched(s, name, Halve(s, target, r), k + 1)
<1> DEFINE n == Len(s)
           a == r.start
           b == r.end
           mid == a + (b - a) \div 2
           d == s[mid]
           comp == _compare_contacts(d, target, 0)
           h == Halve(s, target, r)
<1>0. /\ n \in Nat /\ a \in Int /\ b \in Int /\ 1 <= a /\ b <= n
      /\ r.status \in 1 .. n \cup {-1}
      /\ r.status > 0 => s[r.status].name = name
      /\ r.status < 0 => b - a + 1 <= n - k \/ a > b
      /\ r.status < 0 /\ ContactsInOrder(s) => Named(s, name) \subseteq a .. b
  BY DEF Searched
<1>1. h = IF r.status > 0 \/ a > b THEN r
          ELSE IF comp = 0 THEN [r EXCEPT !.status = mid]
          ELSE IF comp < 0 THEN [r EXCEPT !.start = mid + 1]
          ELSE [r EXCEPT !.end = mid - 1]
  BY DEF Halve
<1> HIDE DEF n, h
<1>2. CASE r.status > 0 \/ a > b
  <2>1. h = r
    BY <1>1, <1>2
  <2>2. r.status < 0 => a > b
    BY <1>0, <1>2
  <2>3. Searched(s, name, r, k + 1)
    BY <1>0, <2>2 DEF Searched, n
  <2> QED
    BY <2>1, <2>3 DEF h
<1>3. CASE ~(r.status > 0 \/ a > b)
  <2>1. a <= b /\ r.status = -1
    BY <1>0, <1>3
  <2>2. mid \in a .. b
    <3> DEFINE m == b - a
    <3>1. m \in Nat /\ b = a + m
      BY <1>0, <2>1
    <3>2. mid = a + (m \div 2)
      OBVIOUS
    <3> HIDE DEF m, mid
    <3>3. m \div 2 \in 0 .. m
      BY <3>1
    <3>4. \A x \in Int, y \in Nat : \A z \in 0 .. y : x + z \in x .. (x + y)
      OBVIOUS
    <3>5. a + (m \div 2) \in a .. (a + m)
      BY <1>0, <3>1, <3>3, <3>4
    <3> QED
      BY <3>1, <3>2, <3>5
  <2> HIDE DEF mid
  <2>3. mid \in 1 .. n /\ mid \in Int
    BY <1>0, <2>2
  <2>4. d \in Contacts
    BY <2>3, ElementOfSeq DEF n
  <2>5. d.name \in Nat \X Nat
    BY <2>4, NamesAssumption DEF Contacts
  <2> HIDE DEF d
  <2>6. comp = IF NameLess(d.name, name) THEN -1 ELSE IF NameLess(name, d.name) THEN 1 ELSE 0
    BY DEF _compare_contacts
  <2> HIDE DEF comp
  <2>7. DOMAIN s = 1 .. n
    BY DEF n
  <2>8. \A x \in 1 .. n : s[x] \in Contacts
    BY ElementOfSeq DEF n
  <2>9. CASE comp = 0
    <3>1. h = [r EXCEPT !.status = mid]
      BY <1>1, <1>3, <2>9
    <3>2. h.start = a /\ h.end = b /\ h.status = mid
      BY <3>1 DEF Ranges
    <3>3. d.name = name
      BY <2>5, <2>6, <2>9, NamesAreOrdered
    <3>4. mid > 0
      BY <2>3
    <3>5. Searched(s, name, h, k + 1)
      BY <1>0, <2>3, <3>2, <3>3, <3>4 DEF Searched, n, d
    <3> QED
      BY <3>5 DEF h
  <2>10. CASE NameLess(d.name, name)
    <3>1. h = [r EXCEPT !.start = mid + 1]
      BY <1>1, <1>3, <2>6, <2>10
    <3>2. h.start = mid + 1 /\ h.end = b /\ h.status = -1
      BY <2>1, <3>1 DEF Ranges
    <3>3. ASSUME ContactsInOrder(s), NEW x \in Named(s, name) PROVE x \in mid + 1 .. b
      <4>1. x \in 1 .. n /\ x \in a .. b /\ s[x].name = name
        BY <1>0, <2>1, <2>7, <3>3 DEF Named
      <4>2. ASSUME x <= mid PROVE FALSE
        <5>1. CASE x = mid
          <6>1. d.name = name
            BY <4>1, <5>1 DEF d
          <6> QED
            BY <2>5, <2>10, <6>1, NamesAreOrdered
        <5>2. CASE x # mid
          <6>1. x < mid
            BY <2>3, <4>1, <4>2, <5>2
          <6>2. Before(s[x], d)
            BY <2>3, <2>7, <3>3, <4>1, <6>1 DEF ContactsInOrder, Before, d
          <6>3. ~NameLess(d.name, s[x].name)
            BY <2>4, <2>8, <4>1, <6>2, ContactsAreOrdered
          <6> QED
            BY <2>10, <4>1, <6>3
        <5> QED
          BY <5>1, <5>2
      <4> QED
        BY <2>3, <4>1, <4>2
    <3>4. 1 <= mid + 1 /\ mid + 1 \in Int /\ (b - (mid + 1) + 1 <= n - (k + 1) \/ mid + 1 > b)
      <4>1. mid \in Int /\ 1 <= mid /\ a <= mid
        BY <2>2, <2>3
      <4>2. b - a + 1 <= n - k
        BY <1>0, <2>1
      <4>3. a \in Int /\ b \in Int /\ n \in Nat
        BY <1>0
      <4> HIDE DEF a, b
      <4> QED
        BY <4>1, <4>2, <4>3
    <3>5. -1 \in 1 .. n \cup {-1} /\ ~(-1 > 0) /\ -1 < 0
      OBVIOUS
    <3>6. ContactsInOrder(s) => Named(s, name) \subseteq h.start .. h.end
      BY <3>2, <3>3
    <3>7. Searched(s, name, h, k + 1)
      BY <1>0, <3>2, <3>4, <3>5, <3>6 DEF Searched, n
    <3> QED
      BY <3>7 DEF h
  <2>11. CASE NameLess(name, d.name)
    <3>0. ~NameLess(d.name, name)
      BY <2>5, <2>11, NamesAreOrdered
    <3>1. h = [r EXCEPT !.end = mid - 1]
      BY <1>1, <1>3, <2>6, <2>11, <3>0
    <3>2. h.start = a /\ h.end = mid - 1 /\ h.status = -1
      BY <2>1, <3>1 DEF Ranges
    <3>3. ASSUME ContactsInOrder(s), NEW x \in Named(s, name) PROVE x \in a .. mid - 1
      <4>1. x \in 1 .. n /\ x \in a .. b /\ s[x].name = name
        BY <1>0, <2>1, <2>7, <3>3 DEF Named
      <4>2. ASSUME x >= mid PROVE FALSE
        <5>1. CASE x = mid
          <6>1. d.name = name
            BY <4>1, <5>1 DEF d
          <6> QED
            BY <2>5, <2>11, <6>1, NamesAreOrdered
        <5>2. CASE x # mid
          <6>1. mid < x
            BY <2>3, <4>1, <4>2, <5>2
          <6>2. Before(d, s[x])
            BY <2>3, <2>7, <3>3, <4>1, <6>1 DEF ContactsInOrder, Before, d
          <6>3. ~NameLess(s[x].name, d.name)
            BY <2>4, <2>8, <4>1, <6>2, ContactsAreOrdered
          <6> QED
            BY <2>11, <4>1, <6>3
        <5> QED
          BY <5>1, <5>2
      <4> QED
        BY <2>3, <4>1, <4>2
    <3>4. mid - 1 <= n /\ mid - 1 \in Int /\ ((mid - 1) - a + 1 <= n - (k + 1) \/ a > mid - 1)
      <4>1. mid \in Int /\ mid <= n /\ mid <= b
        BY <2>2, <2>3
      <4>2. b - a + 1 <= n - k
        BY <1>0, <2>1
      <4>3. a \in Int /\ b \in Int /\ n \in Nat
        BY <1>0
      <4> HIDE DEF a, b
      <4> QED
        BY <4>1, <4>2, <4>3
    <3>5. -1 \in 1 .. n \cup {-1} /\ ~(-1 > 0) /\ -1 < 0
      OBVIOUS
    <3>6. ContactsInOrder(s) => Named(s, name) \subseteq h.start .. h.end
      BY <3>2, <3>3
    <3>7. Searched(s, name, h, k + 1)
      BY <1>0, <3>2, <3>4, <3>5, <3>6 DEF Searched, n
    <3> QED
      BY <3>7 DEF h
  <2> QED
    BY <2>6, <2>9, <2>10, <2>11
<1> QED
  BY <1>2, <1>3

\* A search finds only a contact of the name, and in an array in order it
\* finds one when there is one.
Finds(s, name, found) ==
    /\ found \in 1 .. Len(s) \cup {-1}
    /\ found > 0 => s[found].name = name
    /\ found < 0 /\ ContactsInOrder(s) => Named(s, name) = {}

LEMMA SearchIs ==
    ASSUME NEW s \in Seq(Contacts), NEW target, NEW name \in Nat \X Nat, target.name = name,
           NEW found, found = _binary_search(s, target)
    PROVE  Finds(s, name, found)
<1> DEFINE n == Len(s)
           base == [start |-> 1, end |-> n, status |-> -1]
           round == [z \in (1 .. n) \X Ranges |-> Halve(s, target, z[2])]
           Fix(f) == f = [k \in 0 .. n |-> IF k = 0 THEN base ELSE Halve(s, target, f[k - 1])]
           range == CHOOSE f : Fix(f)
<1>1. found = range[n].status
  BY DEF _binary_search
<1>2. n \in Nat /\ base \in Ranges
  BY DEF Ranges
<1>3. Searched(s, name, base, 0)
  <2>1. base.start = 1 /\ base.end = n /\ base.status = -1
    OBVIOUS
  <2>2. -1 \in 1 .. n \cup {-1} /\ ~(-1 > 0) /\ n - 1 + 1 <= n - 0 /\ 1 <= 1 /\ 1 \in Int /\ n \in Int /\ n <= n
    BY <1>2
  <2>3. Named(s, name) \subseteq 1 .. n
    BY DEF Named
  <2> HIDE DEF base
  <2> QED
    BY <2>1, <2>2, <2>3 DEF Searched
<1>4. \A k \in 1 .. n : \A r \in Ranges : round[<<k, r>>] = Halve(s, target, r)
  OBVIOUS
<1> HIDE DEF round, base, n
<1>5. Keeps(round, n, Ranges)
  BY <1>4, HalveIsRange DEF Keeps
<1>6. \E f : Fix(f)
  <2>1. PICK f \in [0 .. n -> Ranges] : Values(f, n, base, round)
    BY <1>2, <1>5, LoopHasValues
  <2>2. ASSUME NEW k \in 0 .. n PROVE f[k] = IF k = 0 THEN base ELSE Halve(s, target, f[k - 1])
    <3>1. CASE k = 0
      BY <2>1, <3>1 DEF Values
    <3>2. CASE k \in 1 .. n
      <4>1. k - 1 \in 0 .. n /\ k # 0
        BY <1>2, <3>2
      <4>2. f[k - 1] \in Ranges
        BY <2>1, <4>1
      <4>3. f[k] = round[<<k, f[k - 1]>>]
        BY <2>1, <3>2 DEF Values
      <4> QED
        BY <1>4, <3>2, <4>1, <4>2, <4>3
    <3>3. k = 0 \/ k \in 1 .. n
      BY <1>2
    <3> QED
      BY <3>1, <3>2, <3>3
  <2> QED
    BY <2>1, <2>2
<1>7. Fix(range)
  <2> HIDE DEF Fix
  <2> QED
    BY <1>6
<1> HIDE DEF range
<1>8. \A k \in 0 .. n : range[k] = IF k = 0 THEN base ELSE Halve(s, target, range[k - 1])
  BY <1>7
<1> DEFINE S == {k \in 0 .. n : range[k] \in Ranges /\ Searched(s, name, range[k], k)}
<1>9. 0 \in S
  <2>1. 0 \in 0 .. n /\ range[0] = base
    BY <1>2, <1>8
  <2> QED
    BY <1>2, <1>3, <2>1
<1>10. ASSUME NEW k \in 0 .. n - 1, k \in S PROVE k + 1 \in S
  <2>1. k + 1 \in 0 .. n /\ k + 1 # 0 /\ (k + 1) - 1 = k /\ k \in 0 .. n /\ k \in Nat
    BY <1>2
  <2>2. range[k + 1] = Halve(s, target, range[k])
    BY <1>8, <2>1
  <2>3. range[k] \in Ranges /\ Searched(s, name, range[k], k)
    BY <1>10
  <2>4. Halve(s, target, range[k]) \in Ranges
    BY <2>3, HalveIsRange
  <2>5. Searched(s, name, Halve(s, target, range[k]), k + 1)
    BY <2>1, <2>3, HalveSearches
  <2> QED
    BY <2>1, <2>2, <2>4, <2>5
<1>11. n \in S
  <2> HIDE DEF S, Fix
  <2>1. 0 .. n \subseteq S
    BY <1>2, <1>9, <1>10, CountUp
  <2> QED
    BY <1>2, <2>1
<1> DEFINE r == range[n]
<1> HIDE DEF r
<1>12. Searched(s, name, r, n) /\ found = r.status
  BY <1>1, <1>11 DEF r
<1>13. /\ found \in 1 .. n \cup {-1} /\ r.start \in Int /\ r.end \in Int
       /\ found > 0 => s[found].name = name
       /\ found < 0 => r.end - r.start + 1 <= n - n \/ r.start > r.end
       /\ found < 0 /\ ContactsInOrder(s) => Named(s, name) \subseteq r.start .. r.end
  BY <1>12 DEF Searched, n
<1>14. found < 0 => r.start .. r.end = {}
  BY <1>2, <1>13
<1> QED
  BY <1>13, <1>14 DEF n, Finds

-----------------------------------------------------------------------------
\* The inductive invariant: the property, and that the array is not in order
\* by history before it is filled.
PhoneInv == /\ contents \in Seq(Contacts) /\ Len(contents) <= MaxSize
            /\ menu = "start" => ~sorted
            /\ DirectoryIsKept

LEMMA NoneFewer ==
    ASSUME NEW s \in Seq(Contacts), NEW t \in Seq(Contacts), SameContacts(s, t)
    PROVE  Fewer(s, t) = {} /\ Fewer(t, s) = {}
<1>1. \A c : Times(s, c) \in Nat /\ Times(t, c) = Times(s, c)
  BY TimesIsNumber DEF SameContacts
<1> QED
  BY <1>1 DEF Fewer

\* A choice that leaves the same contacts keeps what is promised of them.
LEMMA SameIsKept ==
    ASSUME contents \in Seq(Contacts), contents' \in Seq(Contacts), before' = contents,
           SameContacts(contents, contents'), menu' # "insert", ~(menu' = "delete" /\ index' > 0)
    PROVE  OnlyTheChosenChange'
<1>1. Fewer(contents, contents') = {} /\ Fewer(contents', contents) = {}
  BY NoneFewer
<1> QED
  BY <1>1 DEF OnlyTheChosenChange

LEMMA RandDraws ==
    ASSUME NEW rand \in Draws, NEW n \in Nat, n <= MaxSize
    PROVE  Drawn(rand, n)
<1>1. rand \in [Parts -> Nat] /\ 1 .. n \subseteq 1 .. MaxSize
  BY SizeAssumption, DrawsAssumption
<1> SUFFICES ASSUME NEW a \in 1 .. n, NEW b \in 1 .. n PROVE rand[<<a, b>>] \in Nat
  BY DEF Drawn
<1>2. <<a, b>> \in Parts
  BY <1>1 DEF Parts
<1> QED
  BY <1>1, <1>2

LEMMA NamesArePairs == ASSUME NEW name \in Names PROVE name \in Nat \X Nat
  BY NamesAssumption

LEMMA SearchFinds ==
    ASSUME contents \in Seq(Contacts), NEW name \in Names, NEW found, found = search_contact(name)
    PROVE  Finds(contents, name, found)
<1> DEFINE target == [name |-> name, phone_number |-> 0]
<1>1. target.name = name /\ name \in Nat \X Nat
  BY NamesArePairs
<1> DEFINE s == contents
<1>2. found = _binary_search(s, target)
  BY DEF search_contact
<1>3. s \in Seq(Contacts)
  OBVIOUS
<1> HIDE DEF target, s
<1>4. Finds(s, name, found)
  BY <1>1, <1>2, <1>3, SearchIs
<1> QED
  BY <1>4 DEF s

LEMMA CreateKeeps ==
    ASSUME PhoneInv, NEW list \in Lists, create(list)
    PROVE  PhoneInv'
<1>1. /\ contents' = list /\ before' = list /\ menu' = "create" /\ menu = "start" /\ sorted' = sorted
      /\ list \in Seq(Contacts) /\ Len(list) <= MaxSize
  BY ListsAssumption DEF create
<1>2. sorted' = FALSE \/ ~sorted'
  BY <1>1 DEF PhoneInv
<1>3. Fewer(list, list) = {}
  BY <1>1, NoneFewer DEF SameContacts
<1>4. OnlyTheChosenChange'
  BY <1>1, <1>3 DEF OnlyTheChosenChange
<1> QED
  BY <1>1, <1>2, <1>4 DEF PhoneInv, DirectoryIsKept

LEMMA ChooseSortKeeps ==
    ASSUME PhoneInv, NEW rand \in Draws, ChooseSort(rand)
    PROVE  PhoneInv'
<1>1. /\ contents' = sort_contact(contents, rand) /\ before' = contents /\ menu' = "sort"
      /\ contents \in Seq(Contacts) /\ Len(contents) <= MaxSize
  BY DEF PhoneInv, ChooseSort, Choose
<1>5. Drawn(rand, Len(contents))
  BY <1>1, RandDraws
<1>2. /\ contents' \in Seq(Contacts) /\ Len(contents') = Len(contents)
      /\ ContactsInOrder(contents') /\ SameContacts(contents, contents')
  BY <1>1, <1>5, SortContactIs
<1>3. OnlyTheChosenChange'
  BY <1>1, <1>2, SameIsKept
<1>4. ContactsInOrder(contents)'
  BY <1>2
<1> QED
  BY <1>1, <1>2, <1>3, <1>4 DEF PhoneInv, DirectoryIsKept

LEMMA ChooseSearchKeeps ==
    ASSUME PhoneInv, NEW name \in Names, ChooseSearch(name)
    PROVE  PhoneInv'
<1>1. /\ contents' = contents /\ sorted' = sorted /\ before' = contents /\ menu' = "search"
      /\ index' = search_contact(name) /\ wanted' = name
      /\ contents \in Seq(Contacts) /\ Len(contents) <= MaxSize /\ (sorted => ContactsInOrder(contents))
  BY DEF PhoneInv, DirectoryIsKept, ChooseSearch, Choose
<1>2. OnlyTheChosenChange'
  <2>1. SameContacts(contents, contents')
    BY <1>1 DEF SameContacts
  <2> QED
    BY <1>1, <2>1, SameIsKept
<1>3. ASSUME sorted PROVE SearchIsRight'
  <2>1. /\ index' \in 1 .. Len(contents) \cup {-1}
        /\ index' > 0 => contents[index'].name = name
        /\ index' < 0 => Named(contents, name) = {}
    BY <1>1, <1>3, SearchFinds DEF Finds
  <2>2. ASSUME ~(index' < 0) PROVE index' \in Named(contents, name)
    <3>1. index' \in 1 .. Len(contents) /\ index' > 0 /\ DOMAIN contents = 1 .. Len(contents)
      BY <1>1, <2>1, <2>2
    <3> QED
      BY <2>1, <3>1 DEF Named
  <2> QED
    BY <1>1, <2>1, <2>2 DEF SearchIsRight
<1>4. sorted' => ContactsInOrder(contents)'
  BY <1>1
<1> QED
  BY <1>1, <1>2, <1>3, <1>4 DEF PhoneInv, DirectoryIsKept

LEMMA ChooseDeleteKeeps ==
    ASSUME PhoneInv, NEW name \in Names, NEW rand \in Draws, ChooseDelete(name, rand)
    PROVE  PhoneInv'
<1>1. /\ before' = contents /\ menu' = "delete" /\ menu # "start"
      /\ index' = search_contact(name) /\ wanted' = name
      /\ contents \in Seq(Contacts) /\ Len(contents) <= MaxSize /\ (sorted => ContactsInOrder(contents))
  BY DEF PhoneInv, DirectoryIsKept, ChooseDelete, Choose
<1>2. /\ index' \in 1 .. Len(contents) \cup {-1}
      /\ index' > 0 => contents[index'].name = name
  BY <1>1, SearchFinds DEF Finds
<1>3. CASE index' < 0
  <2>1. contents' = contents /\ sorted' = sorted
    BY <1>3 DEF ChooseDelete
  <2>2. SameContacts(contents, contents') /\ ~(index' > 0)
    BY <1>2, <1>3, <2>1 DEF SameContacts
  <2>3. OnlyTheChosenChange'
    BY <1>1, <2>1, <2>2, SameIsKept
  <2>4. sorted' => ContactsInOrder(contents)'
    BY <1>1, <2>1
  <2> QED
    BY <1>1, <2>1, <2>3, <2>4 DEF PhoneInv, DirectoryIsKept
<1>4. CASE ~(index' < 0)
  <2> DEFINE x == index'
             s == contents
             r == contents'
  <2>1. x \in 1 .. Len(s) /\ x > 0 /\ s[x].name = name
    BY <1>1, <1>2, <1>4
  <2>0. x \in 1 .. Len(s)
    BY <2>1
  <2>2. r = sort_contact(Front(_swap_contact(s, x, Len(s))), rand)
    BY <1>4 DEF ChooseDelete, delete_contact
  <2>3. s \in Seq(Contacts)
    BY <1>1
  <2>9. Drawn(rand, Len(s))
    BY <1>1, RandDraws
  <2> HIDE DEF x, s, r
  <2>10. Without(s, x, r)
    BY <2>0, <2>2, <2>3, <2>9, DeleteIs
  <2>4. /\ r \in Seq(Contacts) /\ Len(r) = Len(s) - 1 /\ ContactsInOrder(r)
        /\ \A c : Times(s, c) = IF c = s[x] THEN Times(r, c) + 1 ELSE Times(r, c)
    BY <2>10 DEF Without
  <2>5. \A c : Times(s, c) \in Nat /\ Times(r, c) \in Nat
    BY <2>3, <2>4, TimesIsNumber
  <2>6. Fewer(r, s) = {} /\ \A c \in Fewer(s, r) : c.name = name
    <3>1. \A c : ~(Times(s, c) < Times(r, c))
      BY <2>4, <2>5
    <3>2. \A c : Times(r, c) < Times(s, c) => c = s[x]
      BY <2>4, <2>5
    <3> QED
      BY <2>1, <3>1, <3>2 DEF Fewer
  <2>7. OnlyTheChosenChange'
    BY <1>1, <2>1, <2>4, <2>6 DEF OnlyTheChosenChange, x, s, r
  <2>8. ContactsInOrder(contents)' /\ contents' \in Seq(Contacts) /\ Len(contents') <= MaxSize
    <3>1. Len(s) \in Nat /\ Len(s) <= MaxSize
      BY <1>1 DEF s
    <3>2. Len(r) <= MaxSize
      BY <2>4, <3>1, SizeAssumption
    <3> QED
      BY <2>4, <3>2 DEF r
  <2> QED
    BY <1>1, <2>7, <2>8 DEF PhoneInv, DirectoryIsKept
<1> QED
  BY <1>3, <1>4

LEMMA InsertKeeps ==
    ASSUME PhoneInv, NEW name \in Names, NEW junk \in Phones, NEW rand \in Draws, insert_contact(name, junk, rand)
    PROVE  PhoneInv'
<1> DEFINE e == [name |-> name, phone_number |-> junk]
           s == contents
           t == Append(s, e)
           r == contents'
<1>1. /\ before' = s /\ menu' = "insert" /\ wanted' = name
      /\ s \in Seq(Contacts) /\ Len(s) < MaxSize
      /\ r = sort_contact(t, rand)
  BY DEF PhoneInv, insert_contact, Choose
<1>2. e \in Contacts /\ e.name = name
  BY DEF Contacts
<1> HIDE DEF e, s
<1>3. t \in Seq(Contacts) /\ Len(t) = Len(s) + 1
  BY <1>1, <1>2, AppendProperties
<1>4. \A c : Times(t, c) = IF c = e THEN Times(s, c) + 1 ELSE Times(s, c)
  BY <1>1, <1>2, AppendTimes
<1>10. Drawn(rand, Len(t)) /\ Len(t) <= MaxSize
  <2>1. Len(t) \in Nat /\ Len(t) <= MaxSize
    BY <1>1, <1>3, SizeAssumption
  <2> HIDE DEF t
  <2> QED
    BY <2>1, RandDraws
<1> HIDE DEF t, r
<1>5. r \in Seq(Contacts) /\ Len(r) = Len(t) /\ ContactsInOrder(r) /\ SameContacts(t, r)
  BY <1>1, <1>3, <1>10, SortContactIs
<1>6. \A c : Times(s, c) \in Nat /\ Times(r, c) = IF c = e THEN Times(s, c) + 1 ELSE Times(s, c)
  BY <1>1, <1>4, <1>5, TimesIsNumber DEF SameContacts
<1>7. Fewer(s, r) = {} /\ \A c \in Fewer(r, s) : c.name = name
  <2>1. \A c : ~(Times(r, c) < Times(s, c))
    BY <1>6
  <2>2. \A c : Times(s, c) < Times(r, c) => c = e
    BY <1>6
  <2> QED
    BY <1>2, <2>1, <2>2 DEF Fewer
<1>8. OnlyTheChosenChange'
  BY <1>1, <1>3, <1>5, <1>7 DEF OnlyTheChosenChange, s, r
<1>9. ContactsInOrder(contents)' /\ contents' \in Seq(Contacts) /\ Len(contents') <= MaxSize
  BY <1>5, <1>10 DEF r
<1> QED
  BY <1>1, <1>8, <1>9 DEF PhoneInv, DirectoryIsKept

\* Whatever the file holds and whatever rand draws, every sort of the directory
\* leaves it in order, a search of a sorted one finds a name exactly when it is
\* there, and only the contact of a deletion or an insertion goes or comes.
THEOREM DirectoryStaysKept == PhoneSpec => []DirectoryIsKept
<1>1. PhoneInit => PhoneInv
  <2> SUFFICES ASSUME PhoneInit PROVE PhoneInv
    OBVIOUS
  <2>1. contents = <<>> /\ before = <<>> /\ menu = "start" /\ sorted = FALSE
    BY DEF PhoneInit
  <2>2. contents \in Seq(Contacts) /\ Len(contents) <= MaxSize /\ SameContacts(before, contents)
    BY <2>1, SizeAssumption DEF SameContacts
  <2>3. Fewer(before, contents) = {} /\ Fewer(contents, before) = {}
    BY <2>1, <2>2, NoneFewer
  <2>4. OnlyTheChosenChange
    BY <2>1, <2>3 DEF OnlyTheChosenChange
  <2> QED
    BY <2>1, <2>2, <2>4 DEF PhoneInv, DirectoryIsKept
<1>2. PhoneInv /\ [PhoneNext]_phoneVars => PhoneInv'
  <2> SUFFICES ASSUME PhoneInv, [PhoneNext]_phoneVars PROVE PhoneInv'
    OBVIOUS
  <2>1. ASSUME NEW list \in Lists, create(list) PROVE PhoneInv'
    BY <2>1, CreateKeeps
  <2>2. ASSUME NEW rand \in Draws, ChooseSort(rand) PROVE PhoneInv'
    BY <2>2, ChooseSortKeeps
  <2>3. ASSUME NEW rand \in Draws, NEW name \in Names, ChooseDelete(name, rand) PROVE PhoneInv'
    BY <2>3, ChooseDeleteKeeps
  <2>4. ASSUME NEW rand \in Draws, NEW name \in Names, NEW junk \in Phones, insert_contact(name, junk, rand)
        PROVE  PhoneInv'
    BY <2>4, InsertKeeps
  <2>5. ASSUME NEW name \in Names, ChooseSearch(name) PROVE PhoneInv'
    BY <2>5, ChooseSearchKeeps
  <2>6. CASE UNCHANGED phoneVars
    BY <2>6 DEF phoneVars, PhoneInv, DirectoryIsKept, ContactsInOrder, SearchIsRight, OnlyTheChosenChange, Fewer
  <2> QED
    BY <2>1, <2>2, <2>3, <2>4, <2>5, <2>6 DEF PhoneNext
<1>3. PhoneInv => DirectoryIsKept
  BY DEF PhoneInv
<1> QED
  BY <1>1, <1>2, <1>3, PTL DEF PhoneSpec
=============================================================================
