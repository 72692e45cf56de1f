------------------------------ MODULE MyBarrier ------------------------------
(***************************************************************************)
(* The pthread barrier of systems_program/proj3 (mybarrier.c) with its     *)
(* driver barrier1.c: threads call mybarrier_wait once each, main calls    *)
(* mybarrier_destroy. The barrier is one-shot: event_occured is set once   *)
(* and never reset.                                                        *)
(*                                                                         *)
(* Steps of a thread (pc):                                                 *)
(*   start               asleep before its call                            *)
(*   lock, locked        entering and holding the mutex in mybarrier_wait  *)
(*   blocked             in pthread_cond_wait                              *)
(*   relock, relocked    leaving pthread_cond_wait: without and with mutex *)
(*   done                mybarrier_wait returned                           *)
(*   undefined           used the mutex of a destroyed or freed barrier    *)
(* Steps of main: create, lock, locked, conddestroy, mutexdestroy, free,   *)
(* then done, failed (mybarrier_destroy returned -1) or crashed.           *)
(***************************************************************************)
EXTENDS Naturals, FiniteSets

CONSTANTS Threads,  \* the threads main creates
          Count     \* the number mybarrier_init is given

ASSUME ThreadsAssumption == IsFiniteSet(Threads)
ASSUME CountAssumption == Count \in Nat

VARIABLES joins,           \* main waits for its threads before it destroys
          barrier,         \* the object: null, live, destroyed or freed
          mutex,           \* the threads that hold barrier->mutex, or {Main}
          executed_count,
          event_occured,
          arrived,         \* auxiliary: who is counted in executed_count
          pc, result,      \* per thread: its step, and what the call returned
          main             \* main's step

vars == <<joins, barrier, mutex, executed_count, event_occured, arrived,
          pc, result, main>>

Main == "main"
ASSUME MainAssumption == Main \notin Threads

ThreadSteps == {"start", "lock", "locked", "blocked", "relock", "relocked",
                "done", "undefined"}
MainSteps == {"create", "lock", "locked", "conddestroy", "mutexdestroy",
              "free", "done", "failed", "crashed"}

TypeOK ==
    /\ joins \in BOOLEAN
    /\ barrier \in {"null", "live", "destroyed", "freed"}
    /\ mutex \in {{}} \cup {{t} : t \in Threads \cup {Main}}
    /\ executed_count \in Nat
    /\ event_occured \in Nat
    /\ arrived \in SUBSET Threads
    /\ pc \in [Threads -> ThreadSteps]
    /\ result \in [Threads -> {"none", "passed", "refused"}]
    /\ main \in MainSteps

\* mybarrier_init returned a fresh barrier or NULL. barrier1.c does not join
\* its threads before it destroys; a client that does is started as well.
Init == /\ joins \in BOOLEAN
        /\ barrier \in {"null", "live"}
        /\ mutex = {}
        /\ executed_count = 0
        /\ event_occured = 0
        /\ arrived = {}
        /\ pc = [t \in Threads |-> "start"]
        /\ result = [t \in Threads |-> "none"]
        /\ main = "create"

-----------------------------------------------------------------------------
Return(t, r) == /\ pc' = [pc EXCEPT ![t] = "done"]
                /\ result' = [result EXCEPT ![t] = r]

\* mybarrier_wait is called: -1 at once if there is no barrier.
Call(t) == /\ pc[t] = "start"
           /\ IF barrier = "null"
              THEN Return(t, "refused")
              ELSE pc' = [pc EXCEPT ![t] = "lock"] /\ UNCHANGED result
           /\ UNCHANGED <<joins, barrier, mutex, executed_count, event_occured,
                          arrived, main>>

\* The mutex is granted, on entry or at the end of pthread_cond_wait.
Lock(t) == /\ pc[t] \in {"lock", "relock"}
           /\ barrier = "live"
           /\ mutex = {}
           /\ mutex' = {t}
           /\ pc' = [pc EXCEPT ![t] = IF pc[t] = "lock" THEN "locked" ELSE "relocked"]
           /\ UNCHANGED <<joins, barrier, executed_count, event_occured, arrived,
                          result, main>>

\* The mutex no longer exists: whatever follows is undefined.
UseDestroyed(t) == /\ pc[t] \in {"lock", "relock"}
                   /\ barrier \in {"destroyed", "freed"}
                   /\ pc' = [pc EXCEPT ![t] = "undefined"]
                   /\ UNCHANGED <<joins, barrier, mutex, executed_count,
                                  event_occured, arrived, result, main>>

\* The event is over: a late thread gets -1.
TurnedAway(t) == /\ pc[t] = "locked"
                 /\ event_occured # 0
                 /\ mutex' = {}
                 /\ Return(t, "refused")
                 /\ UNCHANGED <<joins, barrier, executed_count, event_occured,
                                arrived, main>>

\* Not yet Count threads: pthread_cond_wait gives the mutex up and blocks.
Arrive(t) == /\ pc[t] = "locked"
             /\ event_occured = 0
             /\ executed_count + 1 < Count
             /\ executed_count' = executed_count + 1
             /\ arrived' = arrived \cup {t}
             /\ mutex' = {}
             /\ pc' = [pc EXCEPT ![t] = "blocked"]
             /\ UNCHANGED <<joins, barrier, event_occured, result, main>>

\* Every thread blocked on the condition variable starts to leave it.
Woken == [u \in Threads |-> IF pc[u] = "blocked" THEN "relock" ELSE pc[u]]

\* Mistaken variant: the last thread forgets to broadcast.
ArriveLastQuiet(t) == /\ pc[t] = "locked"
                      /\ event_occured = 0
                      /\ executed_count + 1 >= Count
                      /\ executed_count' = executed_count + 1
                      /\ arrived' = arrived \cup {t}
                      /\ event_occured' = event_occured + 1
                      /\ mutex' = {}
                      /\ pc' = [pc EXCEPT ![t] = "done"]
                      /\ result' = [result EXCEPT ![t] = "passed"]
                      /\ UNCHANGED <<joins, barrier, main>>

\* The last of Count threads sets the event and wakes all the others.
ArriveLast(t) == /\ pc[t] = "locked"
                 /\ event_occured = 0
                 /\ executed_count + 1 >= Count
                 /\ executed_count' = executed_count + 1
                 /\ arrived' = arrived \cup {t}
                 /\ event_occured' = event_occured + 1
                 /\ mutex' = {}
                 /\ pc' = [Woken EXCEPT ![t] = "done"]
                 /\ result' = [result EXCEPT ![t] = "passed"]
                 /\ UNCHANGED <<joins, barrier, main>>

\* pthread_cond_wait may also return for no reason.
Spurious(t) == /\ pc[t] = "blocked"
               /\ pc' = [pc EXCEPT ![t] = "relock"]
               /\ UNCHANGED <<joins, barrier, mutex, executed_count,
                              event_occured, arrived, result, main>>

\* Mistaken variant: an if in place of the loop.
LeaveUnchecked(t) == /\ pc[t] = "relocked"
                     /\ mutex' = {}
                     /\ Return(t, "passed")
                     /\ UNCHANGED <<joins, barrier, executed_count, event_occured,
                                    arrived, main>>

\* The loop of lines 88-93: leave if the event occurred, else block again.
Leave(t) == /\ pc[t] = "relocked"
            /\ event_occured # 0
            /\ mutex' = {}
            /\ Return(t, "passed")
            /\ UNCHANGED <<joins, barrier, executed_count, event_occured,
                           arrived, main>>

BlockAgain(t) == /\ pc[t] = "relocked"
                 /\ event_occured = 0
                 /\ mutex' = {}
                 /\ pc' = [pc EXCEPT ![t] = "blocked"]
                 /\ UNCHANGED <<joins, barrier, executed_count, event_occured,
                                arrived, result, main>>
-----------------------------------------------------------------------------
\* Mistaken variant: main waits for the event and not for its threads.
DestroyAfterEvent == /\ main = "create"
                     /\ joins => event_occured # 0
                     /\ IF barrier = "null"
                        THEN main' = "crashed" /\ UNCHANGED mutex
                        ELSE mutex = {} /\ mutex' = {Main} /\ main' = "locked"
                     /\ UNCHANGED <<joins, barrier, executed_count, event_occured,
                                    arrived, pc, result>>

\* main enters mybarrier_destroy, which locks without testing for NULL.
DestroyLock == /\ main = "create"
               /\ joins => \A t \in Threads : pc[t] = "done"
               /\ IF barrier = "null"
                  THEN main' = "crashed" /\ UNCHANGED mutex
                  ELSE mutex = {} /\ mutex' = {Main} /\ main' = "locked"
               /\ UNCHANGED <<joins, barrier, executed_count, event_occured,
                              arrived, pc, result>>

\* Mistaken variant: the waiters are not woken.
DestroyQuiet == /\ main = "locked"
                /\ event_occured' = event_occured + 1
                /\ mutex' = {}
                /\ main' = "conddestroy"
                /\ UNCHANGED <<joins, barrier, executed_count, arrived, pc, result>>

\* The event is declared over, everybody is woken, the mutex is released.
DestroyWake == /\ main = "locked"
               /\ event_occured' = event_occured + 1
               /\ pc' = Woken
               /\ mutex' = {}
               /\ main' = "conddestroy"
               /\ UNCHANGED <<joins, barrier, executed_count, arrived, result>>

\* pthread_cond_destroy, which must find nobody blocked.
CondDestroy == /\ main = "conddestroy"
               /\ main' = "mutexdestroy"
               /\ UNCHANGED <<joins, barrier, mutex, executed_count,
                              event_occured, arrived, pc, result>>

\* pthread_mutex_destroy refuses a locked mutex (EBUSY): mybarrier_destroy
\* then returns -1 and leaves the barrier as it is, without its condition.
MutexDestroy == /\ main = "mutexdestroy"
                /\ IF mutex = {}
                   THEN barrier' = "destroyed" /\ main' = "free"
                   ELSE UNCHANGED barrier /\ main' = "failed"
                /\ UNCHANGED <<joins, mutex, executed_count, event_occured,
                               arrived, pc, result>>

Free == /\ main = "free"
        /\ barrier' = "freed"
        /\ main' = "done"
        /\ UNCHANGED <<joins, mutex, executed_count, event_occured, arrived,
                       pc, result>>

ThreadStep(t) == \/ Call(t)
                 \/ Lock(t)
                 \/ UseDestroyed(t)
                 \/ TurnedAway(t)
                 \/ Arrive(t)
                 \/ ArriveLast(t)
                 \/ Leave(t)
                 \/ BlockAgain(t)

Destroy == DestroyLock \/ DestroyWake \/ CondDestroy \/ MutexDestroy \/ Free

Next == \/ \E t \in Threads : ThreadStep(t) \/ Spurious(t)
        \/ Destroy

Spec == Init /\ [][Next]_vars

\* Threads run and the mutex is granted in turn; a wait may return for no
\* reason but does not have to.
Fairness == \A t \in Threads :
    /\ WF_vars(Call(t) \/ TurnedAway(t) \/ Arrive(t) \/ ArriveLast(t)
                 \/ Leave(t) \/ BlockAgain(t))
    /\ SF_vars(Lock(t))

FairSpec == Spec /\ Fairness
-----------------------------------------------------------------------------
\* pthread_cond_destroy never finds a thread blocked: once the event occurred
\* nobody blocks, although waiters and destroyer only share a counter.
NobodyBlockedAfterEvent == event_occured # 0 => \A t \in Threads : pc[t] # "blocked"

\* The critical sections of waiters and destroyer exclude each other, through
\* every return of pthread_cond_wait.
HoldersAgree ==
    /\ \A t \in Threads : pc[t] \in {"locked", "relocked"} => mutex = {t}
    /\ main = "locked" => mutex = {Main}

\* A client that joins its threads first never touches a dead barrier.
\* barrier1.c does not join, and there late and leaving threads do.
SafeIfJoined == joins => \A t \in Threads : pc[t] # "undefined"

\* The barrier is a one-shot gate: no thread passes early (not even on a
\* spurious wake-up), and whoever comes after the event is refused.
Gate == INSTANCE OneShotGate WITH
    inside <- arrived,
    open <- event_occured # 0,
    passed <- {t \in Threads : result[t] = "passed"},
    refused <- {t \in Threads : pc[t] = "done" /\ result[t] = "refused" /\ barrier # "null"}
IsGate == Gate!Spec

\* With at least Count threads and no destruction before they are through,
\* every thread returns.
EveryoneReturns ==
    joins /\ barrier = "live" ~> \A t \in Threads : pc[t] = "done"
=============================================================================
