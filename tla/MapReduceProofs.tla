--------------------------- MODULE MapReduceProofs ---------------------------
(***************************************************************************)
(* Proofs about MapReduce, for every file, every word and every number of  *)
(* splits. First the process structure: the signal is sent when all        *)
(* children but one have been waited for, and child 0 cannot be one of     *)
(* those unless it is dead, so the reducer reads complete files. Then what *)
(* it computes: the splits are the file, cut before newlines, so that the  *)
(* counts of the parts add up, and no line is in two parts                 *)
(* (ResultStaysExact).                                                     *)
(***************************************************************************)
EXTENDS MapReduce, FiniteSetTheorems, SequenceTheorems, WellFoundedInduction, TLAPS

Others == Workers \ {0}
AfterMapping == Dead \cup {"install", "poll", "asleep", "reduce"}
Ready(k) == IF k = 0 THEN child[k] \in AfterMapping \ {"killed"} ELSE child[k] \in Dead

\* inter is a function on the workers (its values are left open).
InterIsFunction == inter = [k \in Workers |-> inter[k]]

\* Where the parent is, and how many children it has waited for.
ParentInv ==
    /\ parent \in {"split", "fork"} => reaped = {}
    /\ parent \in {"loop", "wait"} => Cardinality(reaped) = i
    /\ parent = "wait" => i < split_num
    /\ parent = "returned" => Cardinality(reaped) = split_num
    /\ parent = "split" => i = 0
    /\ parent \in {"split", "fork"} => \A k \in Workers : k >= i => child[k] = "unborn"

\* The signal comes when at most one child has not been waited for.
SignalInv ==
    /\ sigusr1 # "none" => Cardinality(reaped) >= split_num - 1
    /\ sigusr1 # "none" => parent \notin {"split", "fork"}

ChildInv ==
    /\ \A k \in reaped : child[k] \in Dead
    /\ \A k \in Others : child[k] \in Dead \cup {"unborn", "map"}
    /\ 0 \in Workers /\ child[0] \in {"reduce", "exited"} => sigusr1 = "seen"
    /\ result # <<>> <=> 0 \in Workers /\ child[0] = "exited"

\* A worker that is through with its map has written its whole output.
OutputInv == \A k \in Workers : Ready(k) /\ ~WordTooLong(k) => inter[k] = MapFunc(k)

ResultInv ==
    result # <<>> => result = <<ReduceFunc(inter)>> /\ \A k \in Workers : Ready(k)

IInv == /\ TypeOK
        /\ InterIsFunction
        /\ ParentInv
        /\ SignalInv
        /\ ChildInv
        /\ OutputInv
        /\ ResultInv

\* The result is the reduction of what the map function makes of each split,
\* as if the workers had run one after the other: the processes and the
\* signal add nothing and lose nothing.
ResultIsComposed ==
    result # <<>> /\ (\A k \in Workers : ~WordTooLong(k))
        => result = <<ReduceFunc([k \in Workers |-> MapFunc(k)])>>

-----------------------------------------------------------------------------
LEMMA WorkersFinite ==
  ASSUME split_num \in Nat
  PROVE  /\ IsFiniteSet(Workers) /\ Cardinality(Workers) = split_num
         /\ 0 \in Workers => Cardinality(Others) = split_num - 1
<1>1. IsFiniteSet(Workers) /\ Cardinality(Workers) = split_num
  BY FS_Interval DEF Workers
<1>2. ASSUME 0 \in Workers PROVE Cardinality(Others) = split_num - 1
  BY <1>1, <1>2, FS_RemoveElement DEF Others
<1> QED
  BY <1>1, <1>2

\* If all children but one have been waited for and child 0 is alive, it is
\* the one, and all the others are dead.
LEMMA OthersDead ==
  ASSUME IInv, 0 \in Workers, child[0] \notin Dead, sigusr1 # "none"
  PROVE  \A k \in Others : child[k] \in Dead
<1>1. split_num \in Nat /\ reaped \subseteq Workers
  BY SplitNumsAssumption DEF IInv, TypeOK
<1>2. reaped \subseteq Others
  BY <1>1 DEF IInv, ChildInv, Others
<1>3. IsFiniteSet(Others) /\ Cardinality(Others) = split_num - 1
  BY <1>1, WorkersFinite, FS_Subset DEF Others
<1>4. Cardinality(reaped) >= split_num - 1
  BY DEF IInv, SignalInv
<1>5. Cardinality(reaped) \in Nat /\ Cardinality(reaped) <= Cardinality(Others)
  BY <1>2, <1>3, FS_Subset, FS_CardinalityType
<1>6. reaped = Others
  BY <1>1, <1>2, <1>3, <1>4, <1>5, FS_Subset
<1> QED
  BY <1>6 DEF IInv, ChildInv

LEMMA InitInv == Init => IInv
<1> SUFFICES ASSUME Init PROVE IInv
  OBVIOUS
<1>1. split_num \in Nat
  BY SplitNumsAssumption DEF Init
<1>2. TypeOK
  BY <1>1 DEF Init, TypeOK, Workers, ChildSteps, Dead, Ended
<1>3. InterIsFunction /\ ParentInv /\ SignalInv /\ ChildInv /\ OutputInv /\ ResultInv
  BY DEF Init, InterIsFunction, ParentInv, SignalInv, ChildInv, OutputInv, ResultInv,
         Ready, AfterMapping, Others, Dead
<1> QED
  BY <1>2, <1>3 DEF IInv

-----------------------------------------------------------------------------
LEMMA StepType == IInv /\ [Next]_vars => TypeOK' /\ InterIsFunction'
<1> SUFFICES ASSUME IInv, [Next]_vars PROVE TypeOK' /\ InterIsFunction'
  OBVIOUS
<1> USE SplitNumsAssumption
        DEF TypeOK, InterIsFunction, Workers, ChildSteps, Dead, Ended, args
<1>0. TypeOK /\ InterIsFunction /\ (parent = "wait" => i < split_num)
  BY DEF IInv, ParentInv
<1>1. ASSUME Split \/ Fork \/ ForkFails \/ AllForked PROVE TypeOK' /\ InterIsFunction'
  BY <1>0, <1>1 DEF Split, Fork, ForkFails, AllForked
<1>2. ASSUME LoopHead \/ Wait \/ Return PROVE TypeOK' /\ InterIsFunction'
  BY <1>0, <1>2 DEF LoopHead, Wait, Return
<1>3. ASSUME NEW k \in Workers, ChildStep(k) PROVE TypeOK' /\ InterIsFunction'
  BY <1>0, <1>3 DEF ChildStep, Map, MapOverflows, AfterMap
<1>4. ASSUME ReducerStep PROVE TypeOK' /\ InterIsFunction'
  BY <1>0, <1>4 DEF ReducerStep, InstallHandler, Deliver, Poll, SleepOver, Reduce, Child0
<1>5. ASSUME UNCHANGED vars PROVE TypeOK' /\ InterIsFunction'
  BY <1>0, <1>5 DEF vars
<1> QED
  BY <1>1, <1>2, <1>3, <1>4, <1>5 DEF Next, ParentStep

\* The count of waits is the number of children waited for.
LEMMA StepParent == IInv /\ [Next]_vars => ParentInv' /\ SignalInv'
<1> SUFFICES ASSUME IInv, [Next]_vars PROVE ParentInv' /\ SignalInv'
  OBVIOUS
<1> USE DEF ParentInv, SignalInv, args
<1>0. ParentInv /\ SignalInv
  BY DEF IInv
<1>1. /\ split_num \in Nat
      /\ i \in 0 .. split_num
      /\ reaped \subseteq Workers
      /\ parent \in Ended \cup {"split", "fork", "loop", "wait"}
      /\ child \in [Workers -> ChildSteps]
  BY SplitNumsAssumption DEF IInv, TypeOK
<1>2. IsFiniteSet(reaped) /\ Cardinality(reaped) \in Nat
  BY <1>1, WorkersFinite, FS_Subset, FS_CardinalityType
<1>3. ASSUME Split \/ Fork \/ ForkFails \/ AllForked PROVE ParentInv' /\ SignalInv'
  <2>1. UNCHANGED <<args, sigusr1, reaped>> /\ sigusr1 = "none" /\ reaped = {}
    BY <1>0, <1>3 DEF Split, Fork, ForkFails, AllForked
  <2>2. SignalInv'
    BY <2>1
  <2>3. CASE Split
    BY <1>0, <2>1, <2>3 DEF Split, Workers
  <2>4. CASE Fork
    BY <1>0, <1>1, <2>1, <2>4 DEF Fork, Workers
  <2>5. CASE ForkFails \/ AllForked
    BY <1>0, <2>1, <2>5, FS_EmptySet DEF ForkFails, AllForked
  <2> QED
    BY <1>3, <2>2, <2>3, <2>4, <2>5
<1>4. ASSUME LoopHead PROVE ParentInv' /\ SignalInv'
  BY <1>0, <1>1, <1>2, <1>4 DEF LoopHead, SignalsBeforeWait, Workers
<1>5. ASSUME Wait PROVE ParentInv' /\ SignalInv'
  <2>1. PICK k \in Workers \ reaped : reaped' = reaped \cup {k}
    BY <1>5 DEF Wait
  <2>2. Cardinality(reaped') = Cardinality(reaped) + 1
    BY <1>2, <2>1, FS_AddElement
  <2> QED
    BY <1>0, <1>1, <1>2, <1>5, <2>2 DEF Wait, Workers
<1>6. ASSUME Return PROVE ParentInv' /\ SignalInv'
  BY <1>0, <1>1, <1>6 DEF Return, Workers
<1>7. ASSUME NEW k \in Workers, ChildStep(k) PROVE ParentInv' /\ SignalInv'
  BY <1>0, <1>1, <1>7 DEF ChildStep, Map, MapOverflows, AfterMap, Workers
<1>8. ASSUME ReducerStep PROVE ParentInv' /\ SignalInv'
  BY <1>0, <1>1, <1>8
     DEF ReducerStep, InstallHandler, Deliver, Poll, SleepOver, Reduce, Child0, Workers
<1>9. ASSUME UNCHANGED vars PROVE ParentInv' /\ SignalInv'
  BY <1>0, <1>9 DEF vars, Workers
<1> QED
  BY <1>3, <1>4, <1>5, <1>6, <1>7, <1>8, <1>9 DEF Next, ParentStep

\* Dead children stay dead, and child 0 reduces only after the signal.
LEMMA StepChild == IInv /\ [Next]_vars => ChildInv'
<1> SUFFICES ASSUME IInv, [Next]_vars PROVE ChildInv'
  OBVIOUS
<1> USE DEF ChildInv, Dead, Others, args
<1>0. ChildInv /\ ParentInv
  BY DEF IInv
<1>1. /\ split_num \in Nat
      /\ i \in 0 .. split_num
      /\ reaped \subseteq Workers
      /\ child \in [Workers -> ChildSteps]
  BY SplitNumsAssumption DEF IInv, TypeOK
<1>2. ASSUME Split \/ ForkFails \/ AllForked \/ Return PROVE ChildInv'
  BY <1>0, <1>1, <1>2 DEF Split, ForkFails, AllForked, Return, Workers
<1>3. ASSUME Fork PROVE ChildInv'
  BY <1>0, <1>1, <1>3 DEF Fork, Workers
<1>4. ASSUME LoopHead PROVE ChildInv'
  BY <1>0, <1>1, <1>4 DEF LoopHead, SignalsBeforeWait, IInv, SignalInv, Workers
<1>5. ASSUME Wait PROVE ChildInv'
  BY <1>0, <1>1, <1>5 DEF Wait, Workers
<1>6. ASSUME NEW k \in Workers, ChildStep(k) PROVE ChildInv'
  BY <1>0, <1>1, <1>6 DEF ChildStep, Map, MapOverflows, AfterMap, Workers
<1>7. ASSUME ReducerStep PROVE ChildInv'
  BY <1>0, <1>1, <1>7
     DEF ReducerStep, InstallHandler, Deliver, Poll, SleepOver, Reduce, Child0, Workers
<1>8. ASSUME UNCHANGED vars PROVE ChildInv'
  BY <1>0, <1>8 DEF vars, Workers
<1> QED
  BY <1>2, <1>3, <1>4, <1>5, <1>6, <1>7, <1>8 DEF Next, ParentStep

\* An intermediate file is written once, and read when all are written.
LEMMA StepOutput == IInv /\ [Next]_vars => OutputInv' /\ ResultInv'
<1> SUFFICES ASSUME IInv, [Next]_vars PROVE OutputInv' /\ ResultInv'
  OBVIOUS
<1> USE DEF OutputInv, ResultInv, Ready, AfterMapping, Dead, args
<1>0. OutputInv /\ ResultInv /\ ChildInv /\ ParentInv
  BY DEF IInv
<1>1. /\ split_num \in Nat
      /\ i \in 0 .. split_num
      /\ child \in [Workers -> ChildSteps]
      /\ DOMAIN inter = Workers
      /\ InterIsFunction
  BY SplitNumsAssumption DEF IInv, TypeOK
<1>2. ASSUME Split PROVE OutputInv' /\ ResultInv'
  <2>1. UNCHANGED <<args, child, result>> /\ parent = "split"
    BY <1>2 DEF Split
  <2>2. \A k \in Workers : child[k] = "unborn"
    BY <1>0, <1>1, <2>1 DEF ParentInv, Workers
  <2>3. result = <<>>
    BY <1>0, <2>2 DEF ChildInv
  <2> QED
    BY <2>1, <2>2, <2>3 DEF Workers
<1>3. ASSUME Fork PROVE OutputInv' /\ ResultInv'
  BY <1>0, <1>1, <1>3 DEF Fork, ParentInv, Workers, MapFunc, WordTooLong, ReduceFunc
<1>4. ASSUME UNCHANGED <<args, data_splits, child, inter, result>>
      PROVE  OutputInv' /\ ResultInv'
  BY <1>0, <1>4 DEF Workers, MapFunc, WordTooLong, ReduceFunc
<1>5. ASSUME NEW k \in Workers, ChildStep(k) PROVE OutputInv' /\ ResultInv'
  <2>1. child[k] = "map" /\ ~Ready(k) /\ result = <<>>
    BY <1>0, <1>5 DEF ChildStep, Map, MapOverflows
  <2>2. \A j \in Workers : j # k => child'[j] = child[j] /\ inter'[j] = inter[j]
    BY <1>1, <1>5 DEF ChildStep, Map, MapOverflows
  <2>3. ~WordTooLong(k) => inter'[k] = MapFunc(k)
    BY <1>1, <1>5 DEF ChildStep, Map, MapOverflows
  <2>4. UNCHANGED <<args, data_splits, result>>
    BY <1>5 DEF ChildStep, Map, MapOverflows
  <2> QED
    BY <1>0, <2>1, <2>2, <2>3, <2>4 DEF Workers, MapFunc, WordTooLong
<1>6. ASSUME InstallHandler \/ Deliver \/ Poll \/ SleepOver PROVE OutputInv' /\ ResultInv'
  BY <1>0, <1>1, <1>6
     DEF ChildInv, InstallHandler, Deliver, Poll, SleepOver, Child0, Workers,
         MapFunc, WordTooLong, ReduceFunc
<1>7. ASSUME Reduce PROVE OutputInv' /\ ResultInv'
  <2>1. 0 \in Workers /\ child[0] = "reduce" /\ child' = [child EXCEPT ![0] = "exited"]
    BY <1>7 DEF Reduce, Child0
  <2>2. \A k \in Others : child[k] \in Dead
    BY <1>0, <2>1, OthersDead DEF ChildInv
  <2>3. \A k \in Workers : Ready(k) /\ Ready(k)'
    BY <1>1, <2>1, <2>2 DEF Others
  <2>4. UNCHANGED <<args, data_splits, inter>> /\ result' = <<ReduceFunc(inter)>>
    BY <1>7 DEF Reduce
  <2> QED
    BY <1>0, <2>3, <2>4 DEF Workers, MapFunc, WordTooLong, ReduceFunc
<1> QED
  BY <1>2, <1>3, <1>4, <1>5, <1>6, <1>7
     DEF Next, ParentStep, ReducerStep, ForkFails, AllForked, LoopHead, Wait, Return, vars

-----------------------------------------------------------------------------
\* The inductive invariant holds in every reachable state.
THEOREM InvariantHolds == Spec => []IInv
<1>1. IInv /\ [Next]_vars => IInv'
  BY StepType, StepParent, StepChild, StepOutput DEF IInv
<1> QED
  BY InitInv, <1>1, PTL DEF Spec

\* Every reachable state is well typed.
THEOREM TypeCorrect == Spec => []TypeOK
<1>1. IInv => TypeOK
  BY DEF IInv
<1> QED
  BY InvariantHolds, <1>1, PTL

\* The reducer starts when every map worker has ended, whatever the number of
\* splits and wherever the signal finds child 0 (mapreduce.c:114-118).
THEOREM ReducerIsLast == Spec => []ReduceAfterMaps
<1>1. IInv => ReduceAfterMaps
  BY OthersDead DEF ReduceAfterMaps, IInv, ChildInv, Others, Dead
<1> QED
  BY InvariantHolds, <1>1, PTL

\* When mapreduce() returns, all its children are dead, and there is a result
\* unless child 0 was killed.
THEOREM ReturnIsClean == Spec => []NothingLeftBehind
<1>1. ASSUME IInv PROVE NothingLeftBehind
  <2> SUFFICES ASSUME parent = "returned"
               PROVE  /\ \A k \in Workers : child[k] \in Dead
                      /\ 0 \in Workers => (result = <<>> <=> child[0] = "killed")
    BY DEF NothingLeftBehind
  <2>1. split_num \in Nat /\ reaped \subseteq Workers /\ Cardinality(reaped) = split_num
    BY <1>1, SplitNumsAssumption DEF IInv, TypeOK, ParentInv
  <2>2. reaped = Workers
    BY <2>1, WorkersFinite, FS_Subset
  <2>3. \A k \in Workers : child[k] \in Dead
    BY <1>1, <2>2 DEF IInv, ChildInv
  <2> QED
    BY <1>1, <2>3 DEF IInv, ChildInv, Dead
<1> QED
  BY InvariantHolds, <1>1, PTL

\* The result is the composition of the map and reduce functions.
THEOREM ResultComposed == Spec => []ResultIsComposed
<1>1. ASSUME IInv PROVE ResultIsComposed
  <2> SUFFICES ASSUME result # <<>>, \A k \in Workers : ~WordTooLong(k)
               PROVE  result = <<ReduceFunc([k \in Workers |-> MapFunc(k)])>>
    BY DEF ResultIsComposed
  <2>1. \A k \in Workers : inter[k] = MapFunc(k)
    BY <1>1 DEF IInv, OutputInv, ResultInv
  <2>2. inter = [k \in Workers |-> MapFunc(k)]
    BY <1>1, <2>1 DEF IInv, InterIsFunction
  <2> QED
    BY <1>1, <2>2 DEF IInv, ResultInv
<1> QED
  BY InvariantHolds, <1>1, PTL
-----------------------------------------------------------------------------
\* Counting and loops. Induction from 0 up to n:
LEMMA CountUp ==
    ASSUME NEW n \in Nat, NEW S, 0 \in S, \A k \in 0 .. n - 1 : k \in S => k + 1 \in S
    PROVE  0 .. n \subseteq S
<1> DEFINE Less == {p \in Nat \X Nat : p[1] < p[2]}
           N == (0 .. n) \ S
<1> SUFFICES ASSUME N # {} PROVE FALSE
  OBVIOUS
<1>1. IsWellFoundedOn(Less, Nat)
  BY NatLessThanWellFounded DEF OpToRel
<1>2. PICK m \in N : \A k \in N : ~(<<k, m>> \in Less)
  <2>1. N \subseteq Nat
    OBVIOUS
  <2> HIDE DEF Less, N
  <2> QED
    BY <1>1, <2>1, WFMin
<1>3. m \in 1 .. n
  OBVIOUS
<1>4. m - 1 \in 0 .. n - 1 /\ m - 1 \in 0 .. n /\ (m - 1) + 1 = m
  BY <1>3
<1>5. m - 1 \notin S
  BY <1>4
<1>6. <<m - 1, m>> \in Less
  BY <1>3, <1>4
<1> QED
  BY <1>2, <1>4, <1>5, <1>6

\* A loop of n rounds that keeps its value in V has a value after each round.
Keeps(round, n, V) == \A k \in 1 .. n : \A v \in V : round[<<k, v>>] \in V
Values(f, n, base, round) == f[0] = base /\ \A k \in 1 .. n : f[k] = round[<<k, f[k - 1]>>]

LEMMA LoopHasValues ==
    ASSUME NEW n \in Nat, NEW V, NEW base \in V, NEW round, Keeps(round, n, V)
    PROVE  \E f \in [0 .. n -> V] : Values(f, n, base, round)
<1> USE DEF Keeps, Values
<1> DEFINE Good == {m \in 0 .. n :
                      \E f \in [0 .. m -> V] : f[0] = base /\ \A k \in 1 .. m : f[k] = round[<<k, f[k - 1]>>]}
<1>1. 0 \in Good
  <2> DEFINE f == [k \in 0 .. 0 |-> base]
  <2>1. f \in [0 .. 0 -> V] /\ f[0] = base
    OBVIOUS
  <2>2. \A k \in 1 .. 0 : f[k] = round[<<k, f[k - 1]>>]
    OBVIOUS
  <2> HIDE DEF f
  <2> QED
    BY <2>1, <2>2
<1>2. ASSUME NEW m \in 0 .. n - 1, m \in Good PROVE m + 1 \in Good
  <2>1. PICK f \in [0 .. m -> V] : f[0] = base /\ \A k \in 1 .. m : f[k] = round[<<k, f[k - 1]>>]
    BY <1>2
  <2>2. m + 1 \in 1 .. n /\ m + 1 \in 0 .. n /\ m \in Nat /\ m + 1 # 0 /\ m \in 0 .. m /\ (m + 1) - 1 = m
    OBVIOUS
  <2> DEFINE g == [k \in 0 .. m + 1 |-> IF k = m + 1 THEN round[<<m + 1, f[m]>>] ELSE f[k]]
  <2>3. /\ g[m + 1] = round[<<m + 1, f[m]>>]
        /\ \A k \in 0 .. m : k \in 0 .. m + 1 /\ k # m + 1 /\ g[k] = f[k]
    BY <2>2
  <2>4. g \in [0 .. m + 1 -> V]
    <3>1. round[<<m + 1, f[m]>>] \in V
      BY <2>2
    <3>2. \A k \in 0 .. m + 1 : k # m + 1 => k \in 0 .. m
      BY <2>2
    <3> QED
      BY <3>1, <3>2
  <2> HIDE DEF g
  <2>5. g[0] = base
    BY <2>1, <2>2, <2>3
  <2>6. ASSUME NEW k \in 1 .. m + 1 PROVE g[k] = round[<<k, g[k - 1]>>]
    <3>1. CASE k = m + 1
      <4>1. k - 1 = m
        BY <2>2, <3>1
      <4>2. g[k - 1] = f[m]
        BY <2>2, <2>3, <4>1
      <4> QED
        BY <2>3, <3>1, <4>2
    <3>2. CASE k # m + 1
      <4>1. k \in 1 .. m /\ k \in 0 .. m /\ k - 1 \in 0 .. m
        BY <2>2, <3>2
      <4>2. f[k] = round[<<k, f[k - 1]>>]
        BY <2>1, <4>1
      <4>3. g[k] = f[k] /\ g[k - 1] = f[k - 1]
        BY <2>3, <4>1
      <4> QED
        BY <4>2, <4>3
    <3> QED
      BY <3>1, <3>2
  <2> QED
    BY <2>2, <2>4, <2>5, <2>6
<1>3. 0 .. n \subseteq Good
  <2> HIDE DEF Good
  <2> QED
    BY <1>1, <1>2, CountUp
<1>4. n \in Good
  <2> HIDE DEF Good
  <2> QED
    BY <1>3
<1> QED
  BY <1>4

\* The positions from a + 1 to b where s has byte
Spots(s, byte, a, b) == {j \in a + 1 .. b : s[j] = byte}

LEMMA SpotsFinite ==
    ASSUME NEW s, NEW byte, NEW a \in Nat, NEW b \in Nat
    PROVE  IsFiniteSet(Spots(s, byte, a, b)) /\ Cardinality(Spots(s, byte, a, b)) \in Nat
<1>1. IsFiniteSet(a + 1 .. b)
  BY FS_Interval
<1>2. Spots(s, byte, a, b) \subseteq a + 1 .. b
  BY DEF Spots
<1> QED
  BY <1>1, <1>2, FS_Subset, FS_CardinalityType

\* Counting one part after the other
LEMMA SpotsAdd ==
    ASSUME NEW s, NEW byte, NEW a \in Nat, NEW b \in Nat, NEW c \in Nat, a <= b, b <= c
    PROVE  Cardinality(Spots(s, byte, a, c))
             = Cardinality(Spots(s, byte, a, b)) + Cardinality(Spots(s, byte, b, c))
<1> DEFINE A == Spots(s, byte, a, b)
           B == Spots(s, byte, b, c)
<1>1. Spots(s, byte, a, c) = A \cup B /\ A \cap B = {}
  BY DEF Spots
<1>2. IsFiniteSet(A) /\ IsFiniteSet(B) /\ Cardinality(A) \in Nat /\ Cardinality(B) \in Nat
  BY SpotsFinite
<1> HIDE DEF A, B
<1>3. Cardinality(A \cup B) = Cardinality(A) + Cardinality(B) - Cardinality(A \cap B)
  BY <1>2, FS_Union
<1>4. Cardinality(A \cap B) = 0
  BY <1>1, FS_EmptySet
<1> QED
  BY <1>1, <1>2, <1>3, <1>4 DEF A, B

\* s has from c to e what t has from a to b.
Moved(s, t, a, b, c, e) == a <= c /\ e - c = b - a /\ \A j \in a + 1 .. b : s[j + (c - a)] = t[j]

LEMMA SpotsMoved ==
    ASSUME NEW s, NEW t, NEW byte, NEW a \in Nat, NEW b \in Nat, NEW c \in Nat, NEW e \in Nat,
           Moved(s, t, a, b, c, e)
    PROVE  Cardinality(Spots(s, byte, c, e)) = Cardinality(Spots(t, byte, a, b))
<1> DEFINE S == Spots(s, byte, c, e)
           T == Spots(t, byte, a, b)
<1> DEFINE d == c - a
<1>0. d \in Nat /\ c = a + d /\ e = b + d
  BY DEF Moved
<1>1. \A j : j \in T <=> j \in a + 1 .. b /\ t[j] = byte
  BY DEF Spots
<1>2. \A j : j \in S <=> j \in c + 1 .. e /\ s[j] = byte
  BY DEF Spots
<1>3. IsFiniteSet(T) /\ IsFiniteSet(S)
  BY SpotsFinite
<1>a. \A j \in a + 1 .. b : s[j + d] = t[j]
  BY DEF Moved
<1> HIDE DEF S, T, d
<1> DEFINE f == [j \in T |-> j + d]
<1>4. f \in Bijection(T, S)
  <2>1. f \in [T -> S]
    <3>1. ASSUME NEW j \in T PROVE j + d \in S
      <4>1. j \in a + 1 .. b /\ t[j] = byte
        BY <1>1
      <4>2. j + d \in c + 1 .. e
        BY <1>0, <4>1
      <4>3. s[j + d] = byte
        BY <1>a, <4>1
      <4> QED
        BY <1>2, <4>2, <4>3
    <3> QED
      BY <3>1
  <2>2. ASSUME NEW x \in T, NEW y \in T, f[x] = f[y] PROVE x = y
    <3>1. x \in Int /\ y \in Int
      BY <1>1
    <3> QED
      BY <1>0, <2>2, <3>1
  <2>3. ASSUME NEW z \in S PROVE \E x \in T : f[x] = z
    <3>1. z \in c + 1 .. e /\ s[z] = byte
      BY <1>2
    <3>2. z - d \in a + 1 .. b /\ (z - d) + d = z
      BY <1>0, <3>1
    <3>3. z - d \in T
      BY <1>1, <1>a, <3>1, <3>2
    <3> QED
      BY <3>2, <3>3
  <2> HIDE DEF f
  <2> QED
    BY <2>1, <2>2, <2>3 DEF Bijection, Injection, Surjection, IsInjective
<1>5. Cardinality(S) = Cardinality(T)
  <2>1. ExistsBijection(T, S)
    BY <1>4 DEF ExistsBijection
  <2> QED
    BY <1>3, <2>1, FS_Bijection
<1> QED
  BY <1>5 DEF S, T

\* Occurrences in a part of a sequence
LEMMA OccurrencesIn ==
    ASSUME NEW s, NEW byte, NEW a \in Nat, NEW b \in Nat, a <= b
    PROVE  Occurrences(byte, SubSeq(s, a + 1, b)) = Cardinality(Spots(s, byte, a, b))
<1> DEFINE t == SubSeq(s, a + 1, b)
           n == b - a
<1>1. n \in Nat /\ DOMAIN t = 1 .. n /\ \A j \in 1 .. n : t[j] = s[j + a]
  OBVIOUS
<1> HIDE DEF t
<1>2. Occurrences(byte, t) = Cardinality(Spots(t, byte, 0, n))
  <2>1. {k \in DOMAIN t : t[k] = byte} = Spots(t, byte, 0, n)
    BY <1>1 DEF Spots
  <2> QED
    BY <2>1 DEF Occurrences
<1> HIDE DEF n
<1>3. Cardinality(Spots(s, byte, a, b)) = Cardinality(Spots(t, byte, 0, n))
  <2> DEFINE first == 0
  <2>1. first \in Nat /\ n \in Nat /\ b - a = n - first
    BY <1>1 DEF n
  <2>2. Moved(s, t, first, n, a, b)
    BY <1>1, <2>1 DEF Moved
  <2> HIDE DEF first
  <2>3. Cardinality(Spots(s, byte, a, b)) = Cardinality(Spots(t, byte, first, n))
    BY <2>1, <2>2, SpotsMoved
  <2> QED
    BY <2>3 DEF first
<1> QED
  BY <1>2, <1>3 DEF t

LEMMA OccurrencesOf ==
    ASSUME NEW s \in Seq(Bytes), NEW byte
    PROVE  /\ Occurrences(byte, s) = Cardinality(Spots(s, byte, 0, Len(s)))
           /\ Occurrences(byte, s) \in Nat
<1>1. {k \in DOMAIN s : s[k] = byte} = Spots(s, byte, 0, Len(s))
  BY DEF Spots
<1>2. Len(s) \in Nat
  OBVIOUS
<1> QED
  BY <1>1, <1>2, SpotsFinite DEF Occurrences

\* The newlines among the first k bytes
Upto(s, k) == Occurrences(NewLine, SubSeq(s, 1, k))

\* They grow by at most one with each byte.
LEMMA UptoSteps ==
    ASSUME NEW s \in Seq(Bytes)
    PROVE  /\ Len(s) \in Nat
           /\ \A k \in 0 .. Len(s) : Upto(s, k) = Cardinality(Spots(s, NewLine, 0, k)) /\ Upto(s, k) \in Nat
           /\ Upto(s, 0) = 0 /\ Upto(s, Len(s)) = Occurrences(NewLine, s)
           /\ \A j, k \in 0 .. Len(s) : j <= k => Upto(s, j) <= Upto(s, k)
           /\ \A k \in 0 .. Len(s) - 1 : Upto(s, k + 1) \in {Upto(s, k), Upto(s, k) + 1}
<1> DEFINE n == Len(s)
           Before(k) == Cardinality(Spots(s, NewLine, 0, k))
<1>0. n \in Nat
  OBVIOUS
<1>1. \A k \in Nat : Upto(s, k) = Before(k) /\ Before(k) \in Nat
  <2> TAKE k \in Nat
  <2>1. Before(k) \in Nat
    BY SpotsFinite
  <2> DEFINE first == 0
  <2>2. first \in Nat /\ first <= k
    OBVIOUS
  <2> HIDE DEF first
  <2>3. Occurrences(NewLine, SubSeq(s, first + 1, k)) = Cardinality(Spots(s, NewLine, first, k))
    BY <2>2, OccurrencesIn
  <2> QED
    BY <2>1, <2>3 DEF Upto, first
<1>2. Before(0) = 0
  <2>1. Spots(s, NewLine, 0, 0) = {}
    BY DEF Spots
  <2> QED
    BY <2>1, FS_EmptySet
<1>3. Before(n) = Occurrences(NewLine, s)
  BY OccurrencesOf
<1>4. ASSUME NEW j \in Nat, NEW k \in Nat, j <= k
      PROVE  Before(k) = Before(j) + Cardinality(Spots(s, NewLine, j, k)) /\ Cardinality(Spots(s, NewLine, j, k)) \in Nat
  <2> DEFINE first == 0
  <2>2. first \in Nat /\ first <= j
    OBVIOUS
  <2> HIDE DEF first
  <2>3. Cardinality(Spots(s, NewLine, first, k))
          = Cardinality(Spots(s, NewLine, first, j)) + Cardinality(Spots(s, NewLine, j, k))
    BY <1>4, <2>2, SpotsAdd
  <2> QED
    BY <2>3, SpotsFinite DEF first
<1>5. ASSUME NEW k \in Nat PROVE Cardinality(Spots(s, NewLine, k, k + 1)) \in {0, 1}
  <2>1. Spots(s, NewLine, k, k + 1) = {} \/ Spots(s, NewLine, k, k + 1) = {k + 1}
    BY DEF Spots
  <2>2. Cardinality({}) = 0 /\ Cardinality({k + 1}) = 1
    BY FS_EmptySet, FS_Singleton
  <2> QED
    BY <2>1, <2>2
<1> HIDE DEF Before, n
<1>6. \A j, k \in 0 .. n : j <= k => Before(j) <= Before(k)
  <2> SUFFICES ASSUME NEW j \in 0 .. n, NEW k \in 0 .. n, j <= k PROVE Before(j) <= Before(k)
    OBVIOUS
  <2>1. j \in Nat /\ k \in Nat
    OBVIOUS
  <2>2. Before(k) = Before(j) + Cardinality(Spots(s, NewLine, j, k)) /\ Cardinality(Spots(s, NewLine, j, k)) \in Nat
    BY <1>4, <2>1
  <2> QED
    BY <1>1, <2>1, <2>2
<1>7. ASSUME NEW k \in 0 .. n - 1 PROVE Before(k + 1) \in {Before(k), Before(k) + 1}
  <2>1. k \in Nat /\ k + 1 \in Nat /\ k <= k + 1
    OBVIOUS
  <2> DEFINE one == Cardinality(Spots(s, NewLine, k, k + 1))
  <2>2. Before(k + 1) = Before(k) + one
    BY <1>4, <2>1
  <2>3. one \in {0, 1} /\ Before(k) \in Nat
    BY <1>1, <1>5, <2>1
  <2> HIDE DEF one
  <2>4. CASE one = 0
    BY <2>2, <2>3, <2>4
  <2>5. CASE one = 1
    BY <2>2, <2>3, <2>5
  <2> QED
    BY <2>3, <2>4, <2>5
<1>8. \A k \in 0 .. n : k \in Nat
  BY <1>0
<1>9. \A k \in 0 .. n - 1 : k \in Nat /\ k + 1 \in Nat
  BY <1>0
<1> QED
  BY <1>0, <1>1, <1>2, <1>3, <1>6, <1>7, <1>8, <1>9 DEF Before, n

\* So every number of newlines is reached.
LEMMA LinesAreThere ==
    ASSUME NEW s \in Seq(Bytes), NEW number \in 0 .. Occurrences(NewLine, s)
    PROVE  \E k \in 0 .. Len(s) : Upto(s, k) = number
<1> DEFINE n == Len(s)
           Good == {k \in 0 .. n : \A m \in 0 .. Upto(s, k) : \E j \in 0 .. n : Upto(s, j) = m}
<1>1. /\ n \in Nat
      /\ \A k \in 0 .. n : Upto(s, k) \in Nat
      /\ Upto(s, 0) = 0 /\ Upto(s, n) = Occurrences(NewLine, s)
      /\ \A k \in 0 .. n - 1 : Upto(s, k + 1) \in {Upto(s, k), Upto(s, k) + 1}
  BY UptoSteps
<1> HIDE DEF n
<1>2. 0 \in Good
  BY <1>1
<1>3. ASSUME NEW k \in 0 .. n - 1, k \in Good PROVE k + 1 \in Good
  <2>1. k \in 0 .. n /\ k + 1 \in 0 .. n /\ Upto(s, k) \in Nat
    BY <1>1
  <2>2. ASSUME NEW m \in 0 .. Upto(s, k + 1) PROVE \E j \in 0 .. n : Upto(s, j) = m
    <3>1. m = Upto(s, k + 1) \/ m \in 0 .. Upto(s, k)
      BY <1>1, <2>1
    <3> QED
      BY <1>3, <2>1, <3>1
  <2> QED
    BY <2>1, <2>2
<1>4. 0 .. n \subseteq Good
  <2> HIDE DEF Good
  <2> QED
    BY <1>1, <1>2, <1>3, CountUp
<1>5. n \in 0 .. n
  BY <1>1
<1> QED
  BY <1>1, <1>4, <1>5 DEF n

\* The least and the greatest of a set of numbers
LEMMA LeastAndGreatest ==
    ASSUME NEW m \in Nat, NEW S \in SUBSET (0 .. m), S # {}
    PROVE  /\ Min(S) \in S /\ \A y \in S : Min(S) <= y
           /\ Max(S) \in S /\ \A y \in S : y <= Max(S)
<1> DEFINE Less == {p \in Nat \X Nat : p[1] < p[2]}
           N == {k \in Nat : m - k \in S}
<1>1. IsWellFoundedOn(Less, Nat)
  BY NatLessThanWellFounded DEF OpToRel
<1>2. S \subseteq Nat /\ N \subseteq Nat
  OBVIOUS
<1>3. N # {}
  <2>1. PICK y \in S : TRUE
    OBVIOUS
  <2>2. m - y \in Nat /\ m - (m - y) = y
    BY <2>1
  <2>3. m - y \in N
    BY <2>2
  <2> QED
    BY <2>3
<1>4. \E x \in S : \A y \in S : x <= y
  <2>1. PICK x \in S : \A y \in S : ~(<<y, x>> \in Less)
    <3> HIDE DEF Less
    <3> QED
      BY <1>1, <1>2, WFMin
  <2>2. ASSUME NEW y \in S PROVE x <= y
    <3>1. x \in Nat /\ y \in Nat
      BY <1>2
    <3>2. ~(y < x)
      BY <2>1, <3>1
    <3> QED
      BY <3>1, <3>2
  <2> QED
    BY <2>2
<1>5. \E x \in S : \A y \in S : x >= y
  <2>1. PICK k \in N : \A j \in N : ~(<<j, k>> \in Less)
    <3> HIDE DEF Less, N
    <3> QED
      BY <1>1, <1>2, <1>3, WFMin
  <2>2. ASSUME NEW y \in S PROVE m - k >= y
    <3>1. m - y \in Nat /\ m - (m - y) = y /\ k \in Nat /\ y \in Nat
      BY <1>2
    <3>2. m - y \in N
      BY <3>1
    <3>3. ~(m - y < k)
      BY <2>1, <3>1, <3>2
    <3> QED
      BY <3>1, <3>3
  <2> QED
    BY <2>2
<1>6. Min(S) \in S /\ \A y \in S : Min(S) <= y
  BY <1>4 DEF Min
<1>7. Max(S) \in S /\ \A y \in S : Max(S) >= y
  BY <1>5 DEF Max
<1>8. \A y \in S : y <= Max(S)
  BY <1>2, <1>7
<1> QED
  BY <1>6, <1>7, <1>8

\* The bytes after a and up to b are the line after `number` newlines.
Ends(s, number, a, b) ==
    /\ a \in 0 .. Len(s) /\ b \in 0 .. Len(s)
    /\ Upto(s, a) = number /\ Upto(s, b) = number
    /\ \A k \in 0 .. Len(s) : Upto(s, k) = number => a <= k /\ k <= b

LEMMA LineWithEnds ==
    ASSUME NEW s \in Seq(Bytes), NEW number, NEW a \in Nat, NEW b \in Nat, Ends(s, number, a, b)
    PROVE  LineOf(s, number) = SubSeq(s, a + 1, b)
<1> DEFINE n == Len(s)
           in == {k \in 0 .. n : Upto(s, k) = number}
<1>1. n \in Nat /\ in \in SUBSET (0 .. n) /\ a \in in /\ b \in in /\ in # {}
  BY DEF Ends
<1>2. \A k \in in : a <= k /\ k <= b
  BY DEF Ends
<1>3. LineOf(s, number) = SubSeq(s, Min(in) + 1, Max(in))
  BY DEF LineOf, Upto
<1> HIDE DEF in, n
<1>4. /\ Min(in) \in in /\ \A y \in in : Min(in) <= y
      /\ Max(in) \in in /\ \A y \in in : y <= Max(in)
  BY <1>1, LeastAndGreatest
<1>s. \A x \in in : x \in Int
  BY <1>1
<1>5. Min(in) \in Int /\ Max(in) \in Int /\ a \in Int /\ b \in Int
  BY <1>1, <1>4, <1>s
<1>6. Min(in) <= a /\ a <= Min(in) /\ Max(in) <= b /\ b <= Max(in)
  BY <1>1, <1>2, <1>4
<1>7. Min(in) = a /\ Max(in) = b
  BY <1>5, <1>6
<1> QED
  BY <1>3, <1>7

LEMMA LineHasEnds ==
    ASSUME NEW s \in Seq(Bytes), NEW number \in 0 .. Occurrences(NewLine, s)
    PROVE  \E a, b \in Nat : Ends(s, number, a, b)
<1> DEFINE n == Len(s)
           in == {k \in 0 .. n : Upto(s, k) = number}
<1>1. n \in Nat /\ in \in SUBSET (0 .. n)
  OBVIOUS
<1>2. in # {}
  BY LinesAreThere
<1>3. \A k : k \in in <=> k \in 0 .. n /\ Upto(s, k) = number
  OBVIOUS
<1> HIDE DEF in
<1>4. /\ Min(in) \in in /\ \A y \in in : Min(in) <= y
      /\ Max(in) \in in /\ \A y \in in : y <= Max(in)
  <2> HIDE DEF n
  <2> QED
    BY <1>1, <1>2, LeastAndGreatest
<1>5. Ends(s, number, Min(in), Max(in))
  BY <1>3, <1>4 DEF Ends
<1>s. \A x \in in : x \in Nat
  BY <1>1
<1>6. Min(in) \in Nat /\ Max(in) \in Nat
  BY <1>4, <1>s
<1> QED
  BY <1>5, <1>6

LEMMA LineIs ==
    ASSUME NEW s \in Seq(Bytes), NEW number \in 0 .. Occurrences(NewLine, s)
    PROVE  LineOf(s, number) \in Seq(Bytes)
<1>1. PICK a \in Nat, b \in Nat : Ends(s, number, a, b)
  BY LineHasEnds
<1>2. LineOf(s, number) = SubSeq(s, a + 1, b)
  BY <1>1, LineWithEnds
<1>3. a + 1 \in 1 .. Len(s) + 1 /\ b \in 0 .. Len(s)
  BY <1>1 DEF Ends
<1>4. DOMAIN SubSeq(s, a + 1, b) = 1 .. b - a /\ (b - a < 0 \/ b - a \in Nat)
  <2>1. a + 1 <= b + 1 \/ b < a
    OBVIOUS
  <2> QED
    BY <1>3, <2>1
<1> QED
  BY <1>2, <1>3, SubSeqProperties

LEMMA SubSeqMoved ==
    ASSUME NEW s \in Seq(Bytes), NEW t \in Seq(Bytes), NEW a \in Nat, NEW b \in Nat, NEW c \in Nat, NEW e \in Nat,
           b <= Len(t), e <= Len(s), Moved(s, t, a, b, c, e)
    PROVE  SubSeq(s, c + 1, e) = SubSeq(t, a + 1, b)
<1>1. /\ \A j \in a + 1 .. b : t[j] \in Bytes
      /\ \A j \in c + 1 .. e : s[j] \in Bytes
  BY ElementOfSeq
<1>2. a + 1 \in Int /\ c + 1 \in Int /\ b \in Int /\ e \in Int
  OBVIOUS
<1> DEFINE S == SubSeq(s, c + 1, e)
           T == SubSeq(t, a + 1, b)
<1>3. /\ T \in Seq(Bytes)
      /\ Len(T) = (IF a + 1 <= b THEN b - (a + 1) + 1 ELSE 0)
      /\ \A j \in 1 .. b - (a + 1) + 1 : T[j] = t[(a + 1) + j - 1]
  BY <1>1, <1>2, SubSeqProperties
<1>4. /\ S \in Seq(Bytes)
      /\ Len(S) = (IF c + 1 <= e THEN e - (c + 1) + 1 ELSE 0)
      /\ \A j \in 1 .. e - (c + 1) + 1 : S[j] = s[(c + 1) + j - 1]
  BY <1>1, <1>2, SubSeqProperties
<1>m. a <= c /\ e - c = b - a /\ \A j \in a + 1 .. b : s[j + (c - a)] = t[j]
  BY DEF Moved
<1> HIDE DEF S, T
<1>5. Len(S) = Len(T) /\ Len(T) \in Nat
  BY <1>3, <1>4, <1>m
<1>6. ASSUME NEW j \in 1 .. Len(T) PROVE S[j] = T[j]
  <2>1. j \in 1 .. b - (a + 1) + 1 /\ j \in 1 .. e - (c + 1) + 1 /\ j \in Int
    BY <1>3, <1>5, <1>m
  <2>2. S[j] = s[(c + 1) + j - 1] /\ T[j] = t[(a + 1) + j - 1]
    BY <1>3, <1>4, <2>1
  <2>3. a + j \in a + 1 .. b /\ (a + 1) + j - 1 = a + j /\ (c + 1) + j - 1 = (a + j) + (c - a)
    BY <2>1
  <2>4. s[(a + j) + (c - a)] = t[a + j]
    BY <2>3, <1>m
  <2> QED
    BY <2>2, <2>3, <2>4
<1>7. S = T
  BY <1>3, <1>4, <1>5, <1>6, SeqEqual
<1> QED
  BY <1>7 DEF S, T

\* What is in the parts of u \o v
LEMMA ConcatParts ==
    ASSUME NEW u \in Seq(Bytes), NEW v \in Seq(Bytes)
    PROVE  /\ u \o v \in Seq(Bytes) /\ Len(u \o v) = Len(u) + Len(v)
           /\ Len(u) \in Nat /\ Len(v) \in Nat
           /\ \A k \in 1 .. Len(u) : (u \o v)[k] = u[k]
           /\ \A k \in 1 .. Len(v) : (u \o v)[k + Len(u)] = v[k]
<1>1. /\ u \o v \in Seq(Bytes) /\ Len(u \o v) = Len(u) + Len(v)
      /\ \A p \in 1 .. Len(u) + Len(v) : (u \o v)[p] = IF p <= Len(u) THEN u[p] ELSE v[p - Len(u)]
  BY ConcatProperties
<1>2. Len(u) \in Nat /\ Len(v) \in Nat
  OBVIOUS
<1> DEFINE n == Len(u)
           m == Len(v)
           w == u \o v
<1>3. /\ n \in Nat /\ m \in Nat
      /\ \A p \in 1 .. n + m : w[p] = IF p <= n THEN u[p] ELSE v[p - n]
  BY <1>1, <1>2
<1> HIDE DEF n, m, w
<1>4. \A k \in 1 .. n : w[k] = u[k]
  BY <1>3
<1>5. ASSUME NEW k \in 1 .. m PROVE w[k + n] = v[k]
  <2>1. k + n \in 1 .. n + m /\ ~(k + n <= n) /\ (k + n) - n = k
    BY <1>3
  <2> QED
    BY <1>3, <2>1
<1> QED
  BY <1>1, <1>2, <1>4, <1>5 DEF n, m, w

\* Counting in u \o v
LEMMA ConcatSpots ==
    ASSUME NEW u \in Seq(Bytes), NEW v \in Seq(Bytes), NEW byte
    PROVE  /\ \A k \in 0 .. Len(u) : Cardinality(Spots(u \o v, byte, 0, k)) = Cardinality(Spots(u, byte, 0, k))
           /\ \A k \in 0 .. Len(v) : Cardinality(Spots(u \o v, byte, 0, Len(u) + k))
                  = Occurrences(byte, u) + Cardinality(Spots(v, byte, 0, k))
<1> DEFINE n == Len(u)
           m == Len(v)
           w == u \o v
           first == 0
<1>1. /\ n \in Nat /\ m \in Nat /\ first \in Nat
      /\ \A k \in 1 .. n : w[k] = u[k]
      /\ \A k \in 1 .. m : w[k + n] = v[k]
  BY ConcatParts
<1>2. Occurrences(byte, u) = Cardinality(Spots(u, byte, first, n))
  BY OccurrencesOf
<1>f. first = 0
  OBVIOUS
<1> HIDE DEF n, m, w, first
<1>3. ASSUME NEW k \in 0 .. n PROVE Cardinality(Spots(w, byte, first, k)) = Cardinality(Spots(u, byte, first, k))
  <2>1. k \in Nat /\ first \in Nat
    BY <1>1
  <2>2. Moved(w, u, first, k, first, k)
    <3>1. ASSUME NEW j \in first + 1 .. k PROVE w[j + (first - first)] = u[j]
      <4>1. j \in 1 .. n /\ j + (first - first) = j
        BY <1>1, <1>f
      <4> QED
        BY <1>1, <4>1
    <3> QED
      BY <2>1, <3>1 DEF Moved
  <2> QED
    BY ONLY <2>1, <2>2, SpotsMoved
<1>4. ASSUME NEW k \in 0 .. m
      PROVE  Cardinality(Spots(w, byte, first, n + k)) = Occurrences(byte, u) + Cardinality(Spots(v, byte, first, k))
  <2> DEFINE last == n + k
  <2>1. last \in Nat /\ k \in Nat /\ n \in Nat /\ first \in Nat /\ first <= n /\ n <= last /\ last - n = k - first /\ n \in 0 .. n
    BY <1>1, <1>f
  <2>2. Moved(w, v, first, k, n, last)
    <3>1. ASSUME NEW j \in first + 1 .. k PROVE w[j + (n - first)] = v[j]
      <4>1. j \in 1 .. m /\ j + (n - first) = j + n
        BY <1>1, <1>f
      <4> QED
        BY <1>1, <4>1
    <3> QED
      BY <2>1, <3>1 DEF Moved
  <2> HIDE DEF last
  <2>3. Cardinality(Spots(w, byte, n, last)) = Cardinality(Spots(v, byte, first, k))
    BY ONLY <2>1, <2>2, SpotsMoved
  <2>4. Cardinality(Spots(w, byte, first, last))
          = Cardinality(Spots(w, byte, first, n)) + Cardinality(Spots(w, byte, n, last))
    BY <1>1, <2>1, SpotsAdd
  <2>5. Cardinality(Spots(w, byte, first, n)) = Occurrences(byte, u)
    BY <1>2, <1>3, <2>1
  <2> QED
    BY <2>3, <2>4, <2>5 DEF last
<1> QED
  BY <1>3, <1>4 DEF n, m, w, first

LEMMA ConcatOccurrences ==
    ASSUME NEW u \in Seq(Bytes), NEW v \in Seq(Bytes), NEW byte
    PROVE  Occurrences(byte, u \o v) = Occurrences(byte, u) + Occurrences(byte, v)
<1>1. u \o v \in Seq(Bytes) /\ Len(u \o v) = Len(u) + Len(v) /\ Len(v) \in 0 .. Len(v)
  BY ConcatParts
<1>2. Occurrences(byte, u \o v) = Cardinality(Spots(u \o v, byte, 0, Len(u) + Len(v)))
  BY <1>1, OccurrencesOf
<1>3. Cardinality(Spots(u \o v, byte, 0, Len(u) + Len(v)))
        = Occurrences(byte, u) + Cardinality(Spots(v, byte, 0, Len(v)))
  BY <1>1, ConcatSpots
<1>4. Cardinality(Spots(v, byte, 0, Len(v))) = Occurrences(byte, v)
  BY OccurrencesOf
<1> QED
  BY <1>2, <1>3, <1>4

LEMMA ConcatUpto ==
    ASSUME NEW u \in Seq(Bytes), NEW v \in Seq(Bytes)
    PROVE  /\ \A k \in 0 .. Len(u) : Upto(u \o v, k) = Upto(u, k)
           /\ \A k \in 0 .. Len(v) : Upto(u \o v, Len(u) + k) = Occurrences(NewLine, u) + Upto(v, k)
<1> DEFINE n == Len(u)
           m == Len(v)
           w == u \o v
<1>1. w \in Seq(Bytes) /\ n \in Nat /\ m \in Nat /\ Len(w) = n + m
  BY ConcatParts
<1>2. \A k \in 0 .. Len(w) : Upto(w, k) = Cardinality(Spots(w, NewLine, 0, k))
  <2> HIDE DEF w
  <2> QED
    BY <1>1, UptoSteps
<1>3. /\ \A k \in 0 .. n : Upto(u, k) = Cardinality(Spots(u, NewLine, 0, k))
      /\ \A k \in 0 .. m : Upto(v, k) = Cardinality(Spots(v, NewLine, 0, k))
  BY UptoSteps
<1>4. /\ \A k \in 0 .. n : Cardinality(Spots(w, NewLine, 0, k)) = Cardinality(Spots(u, NewLine, 0, k))
      /\ \A k \in 0 .. m : Cardinality(Spots(w, NewLine, 0, n + k))
             = Occurrences(NewLine, u) + Cardinality(Spots(v, NewLine, 0, k))
  BY ConcatSpots
<1> HIDE DEF n, m, w
<1>5. \A k \in 0 .. n : k \in 0 .. Len(w)
  BY <1>1
<1>6. \A k \in 0 .. m : n + k \in 0 .. Len(w)
  BY <1>1
<1> QED
  BY <1>2, <1>3, <1>4, <1>5, <1>6 DEF n, m, w

\* Where v begins with a newline, no line is in both parts of u \o v.
BeginsLine(v) == v # <<>> /\ v[1] = NewLine

LEMMA UptoAfterNewLine ==
    ASSUME NEW v \in Seq(Bytes), BeginsLine(v)
    PROVE  \A k \in 1 .. Len(v) : Upto(v, k) >= 1
<1>1. /\ Len(v) \in Nat
      /\ \A k \in 0 .. Len(v) : Upto(v, k) = Cardinality(Spots(v, NewLine, 0, k)) /\ Upto(v, k) \in Nat
      /\ \A j, k \in 0 .. Len(v) : j <= k => Upto(v, j) <= Upto(v, k)
  BY UptoSteps
<1>2. Len(v) \in Nat \ {0}
  BY EmptySeq DEF BeginsLine
<1> DEFINE n == Len(v)
<1> HIDE DEF n
<1>3. n \in Nat \ {0} /\ 1 \in 0 .. n
  BY <1>2 DEF n
<1>4. Upto(v, 1) = 1
  <2>1. Spots(v, NewLine, 0, 1) = {1}
    BY DEF Spots, BeginsLine
  <2>2. Cardinality({1}) = 1
    BY FS_Singleton
  <2> QED
    BY <1>1, <1>3, <2>1, <2>2 DEF n
<1>5. ASSUME NEW k \in 1 .. n PROVE Upto(v, k) >= 1
  <2>1. k \in 0 .. n /\ 1 <= k
    BY <1>3
  <2>2. Upto(v, 1) <= Upto(v, k) /\ Upto(v, k) \in Nat
    BY <1>1, <1>3, <2>1 DEF n
  <2> QED
    BY <1>4, <2>2
<1> QED
  BY <1>5 DEF n

LEMMA EndsLeft ==
    ASSUME NEW u \in Seq(Bytes), NEW v \in Seq(Bytes), BeginsLine(v),
           NEW number \in 0 .. Occurrences(NewLine, u), NEW a \in Nat, NEW b \in Nat, Ends(u, number, a, b)
    PROVE  Ends(u \o v, number, a, b)
<1> DEFINE n == Len(u)
           m == Len(v)
           w == u \o v
           before == Occurrences(NewLine, u)
<1>1. n \in Nat /\ m \in Nat /\ Len(w) = n + m /\ before \in Nat
  BY ConcatParts, OccurrencesOf
<1>2. /\ \A k \in 0 .. n : Upto(w, k) = Upto(u, k)
      /\ \A k \in 0 .. m : Upto(w, n + k) = before + Upto(v, k)
  BY ConcatUpto
<1>3. /\ \A k \in 0 .. m : Upto(v, k) \in Nat
      /\ \A k \in 1 .. m : Upto(v, k) >= 1
  BY UptoSteps, UptoAfterNewLine
<1>4. /\ a \in 0 .. n /\ b \in 0 .. n /\ Upto(u, a) = number /\ Upto(u, b) = number
      /\ \A k \in 0 .. n : Upto(u, k) = number => a <= k /\ k <= b
      /\ number \in 0 .. before
  BY DEF Ends
<1> HIDE DEF n, m, w, before
<1>5. a \in 0 .. Len(w) /\ b \in 0 .. Len(w)
  BY <1>1, <1>4
<1>6. ASSUME NEW k \in 0 .. Len(w), Upto(w, k) = number PROVE a <= k /\ k <= b
  <2>1. CASE k \in 0 .. n
    BY <1>2, <1>4, <1>6, <2>1
  <2>2. CASE k \notin 0 .. n
    <3> DEFINE j == k - n
    <3>1. j \in 1 .. m /\ j \in 0 .. m /\ k = n + j
      BY <1>1, <2>2
    <3> HIDE DEF j
    <3>2. Upto(w, n + j) = before + Upto(v, j) /\ Upto(v, j) >= 1 /\ Upto(v, j) \in Nat
      BY <1>2, <1>3, <3>1
    <3>3. number = before + Upto(v, j)
      BY <1>6, <3>1, <3>2
    <3> QED
      BY <1>1, <1>4, <3>2, <3>3
  <2> QED
    BY <2>1, <2>2
<1> QED
  BY <1>2, <1>4, <1>5, <1>6 DEF Ends, w

LEMMA EndsRight ==
    ASSUME NEW u \in Seq(Bytes), NEW v \in Seq(Bytes), BeginsLine(v),
           NEW number \in 1 .. Occurrences(NewLine, v), NEW a \in Nat, NEW b \in Nat, Ends(v, number, a, b)
    PROVE  Ends(u \o v, Occurrences(NewLine, u) + number, Len(u) + a, Len(u) + b)
<1> DEFINE n == Len(u)
           m == Len(v)
           w == u \o v
           before == Occurrences(NewLine, u)
<1>1. n \in Nat /\ m \in Nat /\ Len(w) = n + m /\ before \in Nat
  BY ConcatParts, OccurrencesOf
<1>2. /\ \A k \in 0 .. n : Upto(w, k) = Upto(u, k)
      /\ \A k \in 0 .. m : Upto(w, n + k) = before + Upto(v, k)
  BY ConcatUpto
<1>3. /\ \A k \in 0 .. m : Upto(v, k) \in Nat
      /\ \A k \in 0 .. n : Upto(u, k) <= before /\ Upto(u, k) \in Nat
  <2>1. \A k \in 0 .. n : k <= n /\ n \in 0 .. n
    BY <1>1
  <2> QED
    BY <2>1, UptoSteps
<1>4. /\ a \in 0 .. m /\ b \in 0 .. m /\ Upto(v, a) = number /\ Upto(v, b) = number
      /\ \A k \in 0 .. m : Upto(v, k) = number => a <= k /\ k <= b
      /\ number \in Nat \ {0}
  BY OccurrencesOf DEF Ends
<1> HIDE DEF n, m, w, before
<1>5. n + a \in 0 .. Len(w) /\ n + b \in 0 .. Len(w)
  BY <1>1, <1>4
<1>6. ASSUME NEW k \in 0 .. Len(w), Upto(w, k) = before + number PROVE n + a <= k /\ k <= n + b
  <2>1. CASE k \in 0 .. n /\ k # n
    <3>1. Upto(w, k) <= before /\ Upto(w, k) \in Nat
      BY <1>2, <1>3, <2>1
    <3> QED
      BY <1>1, <1>4, <1>6, <3>1
  <2>2. CASE k = n \/ k \notin 0 .. n
    <3> DEFINE j == k - n
    <3>1. j \in 0 .. m /\ k = n + j /\ j \in Nat
      BY <1>1, <2>2
    <3> HIDE DEF j
    <3>2. Upto(w, n + j) = before + Upto(v, j) /\ Upto(v, j) \in Nat
      BY <1>2, <1>3, <3>1
    <3>3. Upto(v, j) = number
      BY <1>1, <1>4, <1>6, <3>1, <3>2
    <3>4. a <= j /\ j <= b
      BY <1>4, <3>1, <3>3
    <3> QED
      BY <1>1, <3>1, <3>4
  <2> QED
    BY <2>1, <2>2
<1>7. Upto(w, n + a) = before + number /\ Upto(w, n + b) = before + number
  BY <1>2, <1>4
<1> QED
  BY <1>5, <1>6, <1>7 DEF Ends, w, n, before

\* A line that has moved
LEMMA LinesMoved ==
    ASSUME NEW s \in Seq(Bytes), NEW t \in Seq(Bytes), NEW x, NEW y,
           NEW a \in Nat, NEW b \in Nat, NEW c \in Nat, NEW e \in Nat,
           Ends(s, x, c, e), Ends(t, y, a, b), Moved(s, t, a, b, c, e)
    PROVE  LineOf(s, x) = LineOf(t, y)
<1>1. LineOf(s, x) = SubSeq(s, c + 1, e)
  BY LineWithEnds
<1>2. LineOf(t, y) = SubSeq(t, a + 1, b)
  BY LineWithEnds
<1>3. b <= Len(t) /\ e <= Len(s)
  BY DEF Ends
<1>4. SubSeq(s, c + 1, e) = SubSeq(t, a + 1, b)
  BY <1>3, SubSeqMoved
<1> QED
  BY <1>1, <1>2, <1>4

LEMMA ConcatLines ==
    ASSUME NEW u \in Seq(Bytes), NEW v \in Seq(Bytes), BeginsLine(v)
    PROVE  /\ \A number \in 0 .. Occurrences(NewLine, u) : LineOf(u \o v, number) = LineOf(u, number)
           /\ \A number \in 1 .. Occurrences(NewLine, v) :
                  LineOf(u \o v, Occurrences(NewLine, u) + number) = LineOf(v, number)
<1> DEFINE n == Len(u)
           m == Len(v)
           w == u \o v
<1>1. /\ w \in Seq(Bytes) /\ Len(w) = n + m /\ n \in Nat /\ m \in Nat
      /\ \A k \in 1 .. n : w[k] = u[k]
      /\ \A k \in 1 .. m : w[k + n] = v[k]
  BY ConcatParts
<1>w. w \in Seq(Bytes)
  BY <1>1
<1>2. ASSUME NEW number \in 0 .. Occurrences(NewLine, u) PROVE LineOf(w, number) = LineOf(u, number)
  <2>1. PICK a \in Nat, b \in Nat : Ends(u, number, a, b)
    BY LineHasEnds
  <2>2. Ends(w, number, a, b)
    BY <2>1, EndsLeft
  <2>3. b \in 0 .. n
    BY <2>1 DEF Ends
  <2> HIDE DEF w, n, m
  <2>4. Moved(w, u, a, b, a, b)
    <3>1. ASSUME NEW j \in a + 1 .. b PROVE w[j + (a - a)] = u[j]
      <4>1. j \in 1 .. n /\ j + (a - a) = j
        BY <1>1, <2>3
      <4> QED
        BY <1>1, <4>1
    <3> QED
      BY <3>1 DEF Moved
  <2> QED
    BY <1>w, <2>1, <2>2, <2>4, LinesMoved
<1>3. ASSUME NEW number \in 1 .. Occurrences(NewLine, v)
      PROVE  LineOf(w, Occurrences(NewLine, u) + number) = LineOf(v, number)
  <2>1. number \in 0 .. Occurrences(NewLine, v)
    BY OccurrencesOf
  <2>2. PICK a \in Nat, b \in Nat : Ends(v, number, a, b)
    BY <2>1, LineHasEnds
  <2> DEFINE c == n + a
             e == n + b
             late == Occurrences(NewLine, u) + number
  <2>3. Ends(w, late, c, e)
    BY <2>2, EndsRight
  <2>4. b \in 0 .. m
    BY <2>2 DEF Ends
  <2>5. c \in Nat /\ e \in Nat /\ c = n + a /\ e = n + b
    BY <1>1
  <2> HIDE DEF w, n, m, c, e, late
  <2>6. Moved(w, v, a, b, c, e)
    <3>1. ASSUME NEW j \in a + 1 .. b PROVE w[j + (c - a)] = v[j]
      <4>1. j \in 1 .. m /\ j + (c - a) = j + n
        BY <1>1, <2>4, <2>5
      <4> QED
        BY <1>1, <4>1
    <3>2. a <= c /\ e - c = b - a
      BY <1>1, <2>5
    <3> QED
      BY <3>1, <3>2 DEF Moved
  <2>7. c \in Nat /\ e \in Nat
    BY <2>5
  <2>8. LineOf(w, late) = LineOf(v, number)
    BY <1>w, <2>2, <2>3, <2>6, <2>7, LinesMoved
  <2> QED
    BY <2>8 DEF late
<1> QED
  BY <1>2, <1>3 DEF w

\* The loop of word_finder_map
Lines(s) == Occurrences(NewLine, s) + 1
Added(s, number, found) == IF HasWord(LineOf(s, number)) THEN Append(found, LineOf(s, number)) ELSE found
Matches(s, f) ==
    /\ f \in [0 .. Lines(s) -> Seq(Seq(Bytes))]
    /\ f[0] = <<>>
    /\ \A k \in 1 .. Lines(s) : f[k] = Added(s, k - 1, f[k - 1])
    /\ f[Lines(s)] = MatchingLines(s)

LEMMA MatchingSteps ==
    ASSUME NEW s \in Seq(Bytes)
    PROVE  Lines(s) \in Nat \ {0} /\ \E f : Matches(s, f)
<1> DEFINE n == Lines(s)
           V == Seq(Seq(Bytes))
           Step(k, found) == Added(s, k - 1, found)
           Fix(f) == f = [k \in 0 .. n |-> IF k = 0 THEN <<>> ELSE Step(k, f[k - 1])]
           round == [p \in (1 .. n) \X V |-> Step(p[1], p[2])]
           added == CHOOSE f : Fix(f)
<1>1. n \in Nat \ {0} /\ \A k \in 1 .. n : k - 1 \in 0 .. Occurrences(NewLine, s)
  BY OccurrencesOf DEF Lines
<1>2. MatchingLines(s) = added[n]
  BY DEF MatchingLines, Lines, Added
<1> HIDE DEF n
<1>3. ASSUME NEW k \in 1 .. n, NEW found \in V PROVE Step(k, found) \in V
  <2>1. LineOf(s, k - 1) \in Seq(Bytes)
    BY <1>1, LineIs
  <2>2. Append(found, LineOf(s, k - 1)) \in V
    BY <2>1, AppendProperties
  <2> QED
    BY <2>2 DEF Added
<1>4. <<>> \in V
  OBVIOUS
<1> HIDE DEF V, Step
<1>5. \A k \in 1 .. n : \A v \in V : round[<<k, v>>] = Step(k, v)
  OBVIOUS
<1> HIDE DEF round
<1>6. Keeps(round, n, V)
  BY <1>3, <1>5 DEF Keeps
<1> DEFINE base == <<>>
<1>7. n \in Nat /\ base \in V
  BY <1>1, <1>4
<1> HIDE DEF base
<1>8. PICK f \in [0 .. n -> V] : Values(f, n, base, round)
  BY <1>6, <1>7, LoopHasValues
<1>9. Fix(f)
  <2>1. ASSUME NEW k \in 0 .. n, k # 0 PROVE f[k] = Step(k, f[k - 1])
    <3>1. k \in 1 .. n /\ k - 1 \in 0 .. n
      BY <1>1, <2>1
    <3> QED
      BY <1>5, <1>8, <3>1 DEF Values
  <2>2. \A k \in 0 .. n : f[k] = IF k = 0 THEN <<>> ELSE Step(k, f[k - 1])
    BY <1>8, <2>1 DEF Values, base
  <2>3. f = [k \in 0 .. n |-> f[k]]
    OBVIOUS
  <2> QED
    BY <2>2, <2>3
<1>10. Fix(added)
  <2> HIDE DEF Fix
  <2> QED
    BY <1>9
<1> HIDE DEF added
<1>11. /\ added[0] = <<>> /\ \A k \in 1 .. n : added[k] = Step(k, added[k - 1])
       /\ added = [k \in 0 .. n |-> added[k]]
  <2>1. \A k \in 0 .. n : added[k] = IF k = 0 THEN <<>> ELSE Step(k, added[k - 1])
    BY <1>10
  <2>2. added = [k \in 0 .. n |-> added[k]]
    BY <1>10
  <2>3. 0 \in 0 .. n /\ \A k \in 1 .. n : k \in 0 .. n /\ k # 0
    BY <1>1
  <2> QED
    BY <2>1, <2>2, <2>3
<1> HIDE DEF Fix
<1> DEFINE Good == {k \in 0 .. n : added[k] \in V}
<1>12. 0 .. n \subseteq Good
  <2>1. 0 \in Good
    BY <1>1, <1>4, <1>11
  <2>2. ASSUME NEW k \in 0 .. n - 1, k \in Good PROVE k + 1 \in Good
    <3>1. k + 1 \in 1 .. n /\ k + 1 \in 0 .. n /\ (k + 1) - 1 = k
      BY <1>1
    <3>2. added[k + 1] = Step(k + 1, added[k]) /\ added[k] \in V
      BY <1>11, <2>2, <3>1
    <3> QED
      BY <1>3, <3>1, <3>2
  <2> HIDE DEF Good
  <2> QED
    BY <1>1, <2>1, <2>2, CountUp
<1>13. added \in [0 .. n -> V]
  BY <1>11, <1>12
<1>14. Matches(s, added)
  BY <1>2, <1>11, <1>13 DEF Matches, n, V, Step
<1> QED
  BY <1>1, <1>14 DEF n

\* The first line of a part that is empty or begins with a newline is empty.
LEMMA FirstLineIsEmpty ==
    ASSUME NEW s \in Seq(Bytes), s = <<>> \/ BeginsLine(s), NEW found
    PROVE  Added(s, 0, found) = found
<1> DEFINE first == 0
<1>1. /\ Len(s) \in Nat /\ Upto(s, 0) = 0
      /\ \A k \in 1 .. Len(s) : Upto(s, k) >= 1
  <2>1. Len(s) \in Nat /\ Upto(s, 0) = 0
    BY UptoSteps
  <2>2. CASE s = <<>>
    <3>1. Len(s) = 0
      BY <2>2, EmptySeq
    <3> QED
      BY <2>1, <3>1
  <2>3. CASE BeginsLine(s)
    BY <2>1, <2>3, UptoAfterNewLine
  <2> QED
    BY <2>1, <2>2, <2>3
<1>2. \A k \in 0 .. Len(s) : Upto(s, k) = 0 => k = 0
  <2> SUFFICES ASSUME NEW k \in 0 .. Len(s), k # 0 PROVE Upto(s, k) # 0
    OBVIOUS
  <2>1. k \in 1 .. Len(s) /\ k \in 0 .. Len(s)
    BY <1>1
  <2>2. Upto(s, k) >= 1 /\ Upto(s, k) \in Nat
    BY <1>1, <2>1, UptoSteps
  <2> QED
    BY <2>2
<1>3. 0 \in 0 .. Len(s)
  BY <1>1
<1>4. Ends(s, 0, first, first)
  BY <1>1, <1>2, <1>3 DEF Ends
<1>5. first \in Nat /\ first < first + 1
  OBVIOUS
<1> HIDE DEF first
<1>6. LineOf(s, 0) = SubSeq(s, first + 1, first)
  BY <1>4, <1>5, LineWithEnds
<1>7. SubSeq(s, first + 1, first) = <<>>
  <2>1. first + 1 \in Int /\ first \in Int /\ first < first + 1
    BY <1>5
  <2> QED
    BY <2>1, SubSeqEmpty
<1>8. Len(Word) \in Nat \ {0}
  BY WordAssumption, EmptySeq
<1>9. ~HasWord(<<>>)
  BY <1>8 DEF HasWord
<1> QED
  BY <1>6, <1>7, <1>9 DEF Added

LEMMA MatchingEmpty == MatchingLines(<<>>) = <<>>
<1> DEFINE s == <<>>
<1>1. s \in Seq(Bytes) /\ s = <<>>
  OBVIOUS
<1>2. Occurrences(NewLine, s) = 0
  <2>1. {k \in DOMAIN s : s[k] = NewLine} = {}
    OBVIOUS
  <2> QED
    BY <2>1, FS_EmptySet DEF Occurrences
<1> HIDE DEF s
<1>3. PICK f : Matches(s, f)
  BY <1>1, MatchingSteps
<1>4. Lines(s) = 1 /\ 1 \in 1 .. 1 /\ 1 - 1 = 0
  BY <1>2 DEF Lines
<1>5. f[0] = <<>> /\ f[1] = Added(s, 0, f[0]) /\ f[1] = MatchingLines(s)
  BY <1>3, <1>4 DEF Matches
<1>6. Added(s, 0, f[0]) = f[0]
  BY <1>1, FirstLineIsEmpty
<1> QED
  BY <1>5, <1>6 DEF s

LEMMA MatchingConcat ==
    ASSUME NEW u \in Seq(Bytes), NEW v \in Seq(Bytes), BeginsLine(v)
    PROVE  MatchingLines(u \o v) = MatchingLines(u) \o MatchingLines(v)
<1> DEFINE w == u \o v
           V == Seq(Seq(Bytes))
           n == Lines(u)
           before == Occurrences(NewLine, u)
           after == Occurrences(NewLine, v)
<1>1. w \in Seq(Bytes)
  BY ConcatParts
<1>2. /\ \A number \in 0 .. before : LineOf(w, number) = LineOf(u, number)
      /\ \A number \in 1 .. after : LineOf(w, before + number) = LineOf(v, number)
  BY ConcatLines
<1>3. /\ n = before + 1 /\ before \in Nat /\ after \in Nat /\ Lines(v) = after + 1
      /\ Lines(w) = n + after
  <2>1. Occurrences(NewLine, w) = before + after
    BY ConcatOccurrences
  <2> QED
    BY <2>1, OccurrencesOf DEF Lines
<1> HIDE DEF w
<1>4. PICK fu : Matches(u, fu)
  BY MatchingSteps
<1>5. PICK fv : Matches(v, fv)
  BY MatchingSteps
<1>6. PICK fw : Matches(w, fw)
  BY <1>1, MatchingSteps
<1> HIDE DEF n, before, after, V
<1>7. /\ fu[0] = <<>> /\ \A k \in 1 .. n : fu[k] = Added(u, k - 1, fu[k - 1])
      /\ fu[n] = MatchingLines(u) /\ \A k \in 0 .. n : fu[k] \in V
  BY <1>4 DEF Matches, n, V
<1>8. /\ fv[0] = <<>> /\ \A k \in 1 .. after + 1 : fv[k] = Added(v, k - 1, fv[k - 1])
      /\ fv[after + 1] = MatchingLines(v) /\ \A k \in 0 .. after + 1 : fv[k] \in V
  BY <1>3, <1>5 DEF Matches, V
<1>9. /\ fw[0] = <<>> /\ \A k \in 1 .. n + after : fw[k] = Added(w, k - 1, fw[k - 1])
      /\ fw[n + after] = MatchingLines(w)
  BY <1>3, <1>6 DEF Matches
<1> DEFINE Early == {k \in 0 .. n : fw[k] = fu[k]}
           Late == {k \in 0 .. after : fw[n + k] = fu[n] \o fv[k + 1]}
<1>10. 0 .. n \subseteq Early
  <2>1. 0 \in Early
    BY <1>3, <1>7, <1>9
  <2>2. ASSUME NEW k \in 0 .. n - 1, k \in Early PROVE k + 1 \in Early
    <3>1. k + 1 \in 1 .. n /\ k + 1 \in 0 .. n /\ k + 1 \in 1 .. n + after /\ (k + 1) - 1 = k /\ k \in 0 .. before
      BY <1>3
    <3>2. fw[k + 1] = Added(w, k, fw[k]) /\ fu[k + 1] = Added(u, k, fu[k])
      BY <1>7, <1>9, <3>1
    <3>3. LineOf(w, k) = LineOf(u, k)
      BY <1>2, <3>1
    <3>4. fw[k] = fu[k]
      BY <2>2
    <3>5. fw[k + 1] = fu[k + 1]
      BY <3>2, <3>3, <3>4 DEF Added
    <3> QED
      BY <3>1, <3>5
  <2> HIDE DEF Early
  <2>3. n \in Nat
    BY <1>3
  <2> QED
    BY <2>1, <2>2, <2>3, CountUp
<1>11. fw[n] = fu[n] /\ fu[n] \in V
  BY <1>3, <1>7, <1>10
<1>12. 0 .. after \subseteq Late
  <2>1. 0 \in Late
    <3>1. 1 \in 1 .. after + 1 /\ 1 - 1 = 0 /\ 0 + 1 = 1 /\ n + 0 = n /\ 0 \in 0 .. after
      BY <1>3
    <3>2. fv[1] = Added(v, 0, fv[0])
      BY <1>8, <3>1
    <3>3. fv[1] = <<>>
      BY <1>8, <3>2, FirstLineIsEmpty
    <3>4. fu[n] \o <<>> = fu[n]
      BY <1>11, ConcatEmptySeq DEF V
    <3>5. fw[n + 0] = fu[n] \o fv[0 + 1]
      BY <1>11, <3>1, <3>3, <3>4
    <3> QED
      BY <3>1, <3>5
  <2>2. ASSUME NEW k \in 0 .. after - 1, k \in Late PROVE k + 1 \in Late
    <3>1. /\ k + 1 \in 0 .. after /\ k + 1 \in 1 .. after /\ n + (k + 1) \in 1 .. n + after
          /\ (n + (k + 1)) - 1 = n + k /\ n + k = before + (k + 1)
          /\ (k + 1) + 1 \in 1 .. after + 1 /\ ((k + 1) + 1) - 1 = k + 1 /\ k + 1 \in 0 .. after + 1
      BY <1>3
    <3> DEFINE line == LineOf(v, k + 1)
               found == fv[k + 1]
    <3>2. LineOf(w, n + k) = line
      BY <1>2, <3>1
    <3>3. fw[n + (k + 1)] = Added(w, n + k, fw[n + k])
      BY <1>9, <3>1
    <3>4. fv[(k + 1) + 1] = Added(v, k + 1, found)
      BY <1>8, <3>1
    <3>5. fw[n + k] = fu[n] \o found
      BY <2>2
    <3>6. found \in V /\ line \in Seq(Bytes)
      <4>1. k + 1 \in 0 .. Occurrences(NewLine, v)
        BY <3>1 DEF after
      <4>2. line \in Seq(Bytes)
        <5> DEFINE number == k + 1
        <5>1. number \in 0 .. Occurrences(NewLine, v)
          BY <4>1
        <5> HIDE DEF number
        <5>2. LineOf(v, number) \in Seq(Bytes)
          BY <5>1, LineIs
        <5> QED
          BY <5>2 DEF number
      <4>3. found \in V
        BY <1>8, <3>1
      <4> QED
        BY <4>2, <4>3
    <3> HIDE DEF line, found
    <3>7. Append(fu[n] \o found, line) = fu[n] \o Append(found, line)
      <4>1. fu[n] \in Seq(Seq(Bytes)) /\ found \in Seq(Seq(Bytes)) /\ <<line>> \in Seq(Seq(Bytes))
        BY <1>11, <3>6 DEF V
      <4>2. (fu[n] \o found) \in Seq(Seq(Bytes))
        BY <4>1, ConcatProperties
      <4>3. /\ Append(fu[n] \o found, line) = (fu[n] \o found) \o <<line>>
            /\ Append(found, line) = found \o <<line>>
        BY <3>6, <4>1, <4>2, AppendIsConcat
      <4>4. (fu[n] \o found) \o <<line>> = fu[n] \o (found \o <<line>>)
        <5> DEFINE one == <<line>>
                   x == fu[n]
                   T == Seq(Bytes)
        <5>1. x \in Seq(T) /\ one \in Seq(T) /\ found \in Seq(T)
          BY <4>1
        <5> HIDE DEF one, x, T
        <5>2. (x \o found) \o one = x \o (found \o one)
          BY <5>1, ConcatAssociative, SMTT(30)
        <5> QED
          BY <5>2 DEF one, x
      <4> QED
        BY <4>3, <4>4
    <3>8. fw[n + (k + 1)] = fu[n] \o fv[(k + 1) + 1]
      <4>1. CASE HasWord(line)
        BY <3>2, <3>3, <3>4, <3>5, <3>7, <4>1 DEF Added, line
      <4>2. CASE ~HasWord(line)
        BY <3>2, <3>3, <3>4, <3>5, <4>2 DEF Added, line
      <4> QED
        BY <4>1, <4>2
    <3> QED
      BY <3>1, <3>8
  <2> HIDE DEF Late
  <2>3. after \in Nat
    BY <1>3
  <2> QED
    BY <2>1, <2>2, <2>3, CountUp
<1>13. after \in 0 .. after
  BY <1>3
<1> QED
  BY <1>7, <1>8, <1>9, <1>12, <1>13 DEF w

\* A split ends at a newline, or there is none left.
LEMMA EndFromIs ==
    ASSUME NEW bytes \in Seq(Bytes), NEW offset \in Nat
    PROVE  /\ EndFrom(bytes, offset) \in Nat /\ offset <= EndFrom(bytes, offset)
           /\ EndFrom(bytes, offset) < Len(bytes) => bytes[EndFrom(bytes, offset) + 1] = NewLine
<1> DEFINE n == Len(bytes)
           Is(p) == /\ \A q \in offset .. p - 1 : q < n => bytes[q + 1] # NewLine
                    /\ IF p < n THEN bytes[p + 1] = NewLine ELSE p > n
           S == {q \in 0 .. n : offset <= q /\ q < n /\ bytes[q + 1] = NewLine}
           end == EndFrom(bytes, offset)
<1>1. n \in Nat
  OBVIOUS
<1> HIDE DEF n
<1>2. \E p \in offset .. n + offset + 1 : Is(p)
  <2>1. CASE S # {}
    <3> DEFINE p == Min(S)
    <3>1. p \in S /\ \A q \in S : p <= q
      <4>1. S \in SUBSET (0 .. n)
        OBVIOUS
      <4> HIDE DEF S
      <4> QED
        BY <1>1, <2>1, <4>1, LeastAndGreatest
    <3> HIDE DEF p
    <3>2. p \in 0 .. n /\ offset <= p /\ p < n /\ bytes[p + 1] = NewLine
      BY <3>1
    <3>3. ASSUME NEW q \in offset .. p - 1, q < n PROVE bytes[q + 1] # NewLine
      <4>1. q \in 0 .. n /\ offset <= q /\ ~(p <= q)
        BY <1>1, <3>2
      <4>2. q \notin S
        BY <3>1, <4>1
      <4> QED
        BY <3>3, <4>1, <4>2
    <3>4. p \in offset .. n + offset + 1
      BY <1>1, <3>2
    <3> QED
      BY <3>2, <3>3, <3>4
  <2>2. CASE S = {}
    <3> DEFINE p == n + offset + 1
    <3>1. p \in offset .. n + offset + 1 /\ ~(p < n) /\ p > n
      BY <1>1
    <3>2. ASSUME NEW q \in offset .. p - 1, q < n PROVE bytes[q + 1] # NewLine
      <4>1. q \in 0 .. n /\ offset <= q
        BY <1>1, <3>2
      <4> QED
        BY <2>2, <3>2, <4>1
    <3> HIDE DEF p
    <3>3. Is(p)
      BY <3>1, <3>2
    <3> QED
      BY <3>1, <3>3
  <2> QED
    BY <2>1, <2>2
<1>3. end = CHOOSE p \in offset .. n + offset + 1 : Is(p)
  BY DEF EndFrom, n
<1> HIDE DEF Is, end
<1>4. end \in offset .. n + offset + 1 /\ Is(end)
  BY <1>2, <1>3
<1>5. end \in Nat /\ offset <= end /\ (end < n => bytes[end + 1] = NewLine)
  BY <1>1, <1>4 DEF Is
<1> QED
  BY <1>5 DEF end, n

\* The loop of split_data, which sets start_offset
LEMMA OffsetSteps ==
    ASSUME NEW bytes \in Seq(Bytes), NEW n \in Nat \ {0}
    PROVE  /\ StartOffsets(bytes, n)[0] = 0
           /\ \A k \in 0 .. n : StartOffsets(bytes, n)[k] \in Nat
           /\ \A k \in 1 .. n : /\ StartOffsets(bytes, n)[k - 1] <= StartOffsets(bytes, n)[k]
                                /\ StartOffsets(bytes, n)[k] < Len(bytes)
                                     => bytes[StartOffsets(bytes, n)[k] + 1] = NewLine
<1> DEFINE size == Len(bytes) \div n
           Step(k, offset) == EndFrom(bytes, offset + size)
           Fix(f) == f = [k \in 0 .. n |-> IF k = 0 THEN 0 ELSE Step(k, f[k - 1])]
           round == [p \in (1 .. n) \X Nat |-> Step(p[1], p[2])]
           start_offset == CHOOSE f : Fix(f)
<1>1. size \in Nat
  <2>1. Len(bytes) \in Nat
    OBVIOUS
  <2> QED
    BY <2>1
<1>2. StartOffsets(bytes, n) = start_offset
  BY DEF StartOffsets
<1> HIDE DEF size
<1>3. ASSUME NEW k \in 1 .. n, NEW offset \in Nat
      PROVE  /\ Step(k, offset) \in Nat /\ offset <= Step(k, offset)
             /\ Step(k, offset) < Len(bytes) => bytes[Step(k, offset) + 1] = NewLine
  <2> DEFINE from == offset + size
  <2>1. from \in Nat /\ offset <= from
    BY <1>1
  <2> HIDE DEF from
  <2>2. /\ EndFrom(bytes, from) \in Nat /\ from <= EndFrom(bytes, from)
        /\ EndFrom(bytes, from) < Len(bytes) => bytes[EndFrom(bytes, from) + 1] = NewLine
    BY <2>1, EndFromIs
  <2> DEFINE end == EndFrom(bytes, from)
  <2> HIDE DEF end
  <2>3. end \in Nat /\ offset <= end /\ (end < Len(bytes) => bytes[end + 1] = NewLine)
    BY <2>1, <2>2 DEF end
  <2> QED
    BY <2>3 DEF end, from
<1> HIDE DEF Step
<1>5. \A k \in 1 .. n : \A v \in Nat : round[<<k, v>>] = Step(k, v)
  OBVIOUS
<1> HIDE DEF round
<1>6. Keeps(round, n, Nat)
  BY <1>3, <1>5 DEF Keeps
<1> DEFINE base == 0
<1>7. n \in Nat /\ base \in Nat
  OBVIOUS
<1> HIDE DEF base
<1>8. PICK f \in [0 .. n -> Nat] : Values(f, n, base, round)
  BY <1>6, <1>7, LoopHasValues
<1>9. Fix(f)
  <2>1. ASSUME NEW k \in 0 .. n, k # 0 PROVE f[k] = Step(k, f[k - 1])
    <3>1. k \in 1 .. n /\ k - 1 \in 0 .. n
      BY <2>1
    <3> QED
      BY <1>5, <1>8, <3>1 DEF Values
  <2>2. \A k \in 0 .. n : f[k] = IF k = 0 THEN 0 ELSE Step(k, f[k - 1])
    BY <1>8, <2>1 DEF Values, base
  <2>3. f = [k \in 0 .. n |-> f[k]]
    OBVIOUS
  <2> QED
    BY <2>2, <2>3
<1>10. Fix(start_offset)
  <2> HIDE DEF Fix
  <2> QED
    BY <1>9
<1> HIDE DEF start_offset
<1>11. start_offset[0] = 0 /\ \A k \in 1 .. n : start_offset[k] = Step(k, start_offset[k - 1])
  <2>1. \A k \in 0 .. n : start_offset[k] = IF k = 0 THEN 0 ELSE Step(k, start_offset[k - 1])
    BY <1>10
  <2>3. 0 \in 0 .. n /\ \A k \in 1 .. n : k \in 0 .. n /\ k # 0
    OBVIOUS
  <2> QED
    BY <2>1, <2>3
<1> HIDE DEF Fix
<1> DEFINE Good == {k \in 0 .. n : start_offset[k] \in Nat}
<1>12. 0 .. n \subseteq Good
  <2>1. 0 \in Good
    BY <1>11
  <2>2. ASSUME NEW k \in 0 .. n - 1, k \in Good PROVE k + 1 \in Good
    <3>1. k + 1 \in 1 .. n /\ k + 1 \in 0 .. n /\ (k + 1) - 1 = k
      OBVIOUS
    <3>2. start_offset[k + 1] = Step(k + 1, start_offset[k]) /\ start_offset[k] \in Nat
      BY <1>11, <2>2, <3>1
    <3> QED
      BY <1>3, <3>1, <3>2
  <2> HIDE DEF Good
  <2> QED
    BY <1>7, <2>1, <2>2, CountUp
<1>13. ASSUME NEW k \in 1 .. n
       PROVE  /\ start_offset[k - 1] <= start_offset[k]
              /\ start_offset[k] < Len(bytes) => bytes[start_offset[k] + 1] = NewLine
  <2>1. k - 1 \in 0 .. n
    OBVIOUS
  <2>2. start_offset[k - 1] \in Nat /\ start_offset[k] = Step(k, start_offset[k - 1])
    BY <1>11, <1>12, <2>1
  <2> QED
    BY <1>3, <2>2
<1> QED
  BY <1>2, <1>11, <1>12, <1>13

\* Where split k of n begins, and the one before it ends
Cut(bytes, n, k) == IF k = n THEN Len(bytes) ELSE StartOffsets(bytes, n)[k]
Splits(bytes, n) == \A k \in 1 .. n - 1 : StartOffsets(bytes, n)[k] < Len(bytes)
Part(bytes, n, k) == [start |-> Cut(bytes, n, k), size |-> Cut(bytes, n, k + 1) - Cut(bytes, n, k)]

\* The splits are the file, cut before newlines.
LEMMA Cuts ==
    ASSUME NEW bytes \in Seq(Bytes), NEW n \in Nat \ {0}, Splits(bytes, n)
    PROVE  /\ Cut(bytes, n, 0) = 0 /\ Cut(bytes, n, n) = Len(bytes)
           /\ \A k \in 0 .. n : Cut(bytes, n, k) \in Nat /\ Cut(bytes, n, k) <= Len(bytes)
           /\ \A k \in 0 .. n - 1 : Cut(bytes, n, k) <= Cut(bytes, n, k + 1)
           /\ \A k \in 1 .. n - 1 : /\ Cut(bytes, n, k) < Len(bytes)
                                    /\ bytes[Cut(bytes, n, k) + 1] = NewLine
<1> DEFINE offset == StartOffsets(bytes, n)
           len == Len(bytes)
<1>1. len \in Nat
  OBVIOUS
<1>2. /\ offset[0] = 0 /\ \A k \in 0 .. n : offset[k] \in Nat
      /\ \A k \in 1 .. n : offset[k - 1] <= offset[k] /\ (offset[k] < len => bytes[offset[k] + 1] = NewLine)
  BY OffsetSteps
<1>3. \A k \in 1 .. n - 1 : offset[k] < len
  BY DEF Splits
<1>4. \A k : Cut(bytes, n, k) = IF k = n THEN len ELSE offset[k]
  BY DEF Cut
<1> HIDE DEF offset, len
<1>5. Cut(bytes, n, 0) = 0 /\ Cut(bytes, n, n) = len
  BY <1>2, <1>4
<1>6. ASSUME NEW k \in 1 .. n - 1
      PROVE  Cut(bytes, n, k) = offset[k] /\ offset[k] \in Nat /\ offset[k] < len /\ bytes[offset[k] + 1] = NewLine
  <2>1. k # n /\ k \in 0 .. n /\ k \in 1 .. n
    OBVIOUS
  <2> QED
    BY <1>2, <1>3, <1>4, <2>1
<1>7. ASSUME NEW k \in 0 .. n PROVE Cut(bytes, n, k) \in Nat /\ Cut(bytes, n, k) <= len
  <2>1. k = 0 \/ k = n \/ k \in 1 .. n - 1
    OBVIOUS
  <2> QED
    BY <1>1, <1>5, <1>6, <2>1
<1>8. ASSUME NEW k \in 0 .. n - 1 PROVE Cut(bytes, n, k) <= Cut(bytes, n, k + 1)
  <2>1. k \in 0 .. n /\ k # n /\ k + 1 \in 1 .. n /\ (k + 1) - 1 = k
    OBVIOUS
  <2>2. CASE k + 1 = n
    BY <1>5, <1>7, <2>1, <2>2
  <2>3. CASE k + 1 # n
    <3>1. Cut(bytes, n, k) = offset[k] /\ Cut(bytes, n, k + 1) = offset[k + 1]
      BY <1>4, <2>1, <2>3
    <3>2. offset[k] <= offset[k + 1]
      BY <1>2, <2>1
    <3> QED
      BY <3>1, <3>2
  <2> QED
    BY <2>2, <2>3
<1>9. \A k \in 1 .. n - 1 : Cut(bytes, n, k) < len /\ bytes[Cut(bytes, n, k) + 1] = NewLine
  BY <1>6
<1> QED
  BY <1>5, <1>7, <1>8, <1>9 DEF len

\* letter_counter_map counts in its split, and the newline after it.
LEMMA LettersOfPart ==
    ASSUME NEW bytes \in Seq(Bytes), NEW n \in Nat \ {0}, Splits(bytes, n), NEW k \in 0 .. n - 1, NEW c \in Letters
    PROVE  LetterCounterMap(bytes, Part(bytes, n, k))[c]
             = Cardinality(Spots(bytes, c, Cut(bytes, n, k), Cut(bytes, n, k + 1)))
<1> DEFINE a == Cut(bytes, n, k)
           b == Cut(bytes, n, k + 1)
           len == Len(bytes)
           split == Part(bytes, n, k)
<1>1. split.start = a /\ split.size = b - a
  BY DEF Part
<1>2. len \in Nat /\ DOMAIN bytes = 1 .. len
  OBVIOUS
<1>3. /\ a \in Nat /\ b \in Nat /\ a <= b /\ b <= len
      /\ b = len \/ (b < len /\ bytes[b + 1] = NewLine)
  <2>1. k \in 0 .. n /\ k + 1 \in 0 .. n /\ (k + 1 = n \/ k + 1 \in 1 .. n - 1)
    OBVIOUS
  <2> HIDE DEF split
  <2> QED
    BY <2>1, Cuts
<1>4. LetterCounterMap(bytes, split)[c] = Cardinality({j \in DOMAIN bytes :
          split.start < j /\ j <= split.start + split.size + 1 /\ bytes[j] = c})
  BY DEF LetterCounterMap
<1> HIDE DEF a, b, len, split
<1>5. c # NewLine
  BY BytesAssumption
<1>6. {j \in DOMAIN bytes : split.start < j /\ j <= split.start + split.size + 1 /\ bytes[j] = c}
        = Spots(bytes, c, a, b)
  <2>1. split.start + split.size + 1 = b + 1
    BY <1>1, <1>3
  <2>2. ASSUME NEW j \in DOMAIN bytes, split.start < j, j <= split.start + split.size + 1, bytes[j] = c
        PROVE  j \in a + 1 .. b
    <3>1. j \in 1 .. len /\ a < j /\ j <= b + 1
      BY <1>1, <1>2, <2>1, <2>2
    <3>2. j # b + 1
      BY <1>2, <1>3, <1>5, <2>2, <3>1
    <3> QED
      BY <1>3, <3>1, <3>2
  <2>3. ASSUME NEW j \in a + 1 .. b
        PROVE  j \in DOMAIN bytes /\ split.start < j /\ j <= split.start + split.size + 1
    BY <1>1, <1>2, <1>3, <2>1
  <2> QED
    BY <2>2, <2>3 DEF Spots
<1> QED
  BY <1>4, <1>6 DEF a, b, split

\* The letters of the file, if each worker has counted those of its split
LEMMA LettersReduced ==
    ASSUME NEW bytes \in Seq(Bytes), NEW n \in Nat \ {0}, Splits(bytes, n), NEW counts,
           counts = [k \in 0 .. n - 1 |-> LetterCounterMap(bytes, Part(bytes, n, k))]
    PROVE  LetterCounterReduce(counts) = LettersOf(bytes)
<1> DEFINE V == [Letters -> Nat]
           Step(k, array) == [c \in Letters |-> array[c] + counts[k - 1][c]]
           base == [c \in Letters |-> 0]
           Fix(f) == f = [k \in 0 .. n |-> [c \in Letters |-> IF k = 0 THEN 0 ELSE f[k - 1][c] + counts[k - 1][c]]]
           round == [p \in (1 .. n) \X V |-> Step(p[1], p[2])]
           letter_array == CHOOSE f : Fix(f)
           cut == [k \in 0 .. n |-> Cut(bytes, n, k)]
<1>1. Cardinality(DOMAIN counts) = n
  <2>1. DOMAIN counts = 0 .. n - 1 /\ 0 \in Int /\ n - 1 \in Int
    OBVIOUS
  <2> QED
    BY <2>1, FS_Interval
<1>2. LetterCounterReduce(counts) = letter_array[n]
  BY <1>1 DEF LetterCounterReduce
<1>3. /\ cut[0] = 0 /\ cut[n] = Len(bytes)
      /\ \A k \in 0 .. n : cut[k] \in Nat
      /\ \A k \in 0 .. n - 1 : cut[k] <= cut[k + 1]
  <2>1. 0 \in 0 .. n /\ n \in 0 .. n /\ \A k \in 0 .. n - 1 : k \in 0 .. n /\ k + 1 \in 0 .. n
    OBVIOUS
  <2> QED
    BY <2>1, Cuts
<1>4. ASSUME NEW k \in 1 .. n, NEW c \in Letters
      PROVE  /\ counts[k - 1][c] = Cardinality(Spots(bytes, c, cut[k - 1], cut[k]))
             /\ counts[k - 1][c] \in Nat
  <2>1. k - 1 \in 0 .. n - 1 /\ k - 1 \in 0 .. n /\ k \in 0 .. n /\ (k - 1) + 1 = k
    OBVIOUS
  <2>2. counts[k - 1] = LetterCounterMap(bytes, Part(bytes, n, k - 1))
    BY <2>1
  <2> DEFINE j == k - 1
  <2>3. LetterCounterMap(bytes, Part(bytes, n, j))[c] = Cardinality(Spots(bytes, c, Cut(bytes, n, j), Cut(bytes, n, j + 1)))
    <3>1. j \in 0 .. n - 1
      BY <2>1
    <3> HIDE DEF j, Fix, round, letter_array
    <3> QED
      BY <3>1, LettersOfPart
  <2>4. cut[k - 1] = Cut(bytes, n, j) /\ cut[k] = Cut(bytes, n, j + 1)
    BY <2>1
  <2>5. cut[k - 1] \in Nat /\ cut[k] \in Nat
    BY <1>3, <2>1
  <2> QED
    BY <2>2, <2>3, <2>4, <2>5, SpotsFinite
<1> HIDE DEF cut
<1>5. ASSUME NEW k \in 1 .. n, NEW array \in V PROVE Step(k, array) \in V
  <2>1. ASSUME NEW c \in Letters PROVE array[c] + counts[k - 1][c] \in Nat
    <3>1. counts[k - 1][c] \in Nat /\ array[c] \in Nat
      BY <1>4
    <3> DEFINE x == counts[k - 1][c]
               y == array[c]
    <3>2. x \in Nat /\ y \in Nat
      BY <3>1
    <3> HIDE DEF x, y
    <3>3. y + x \in Nat
      BY <3>2
    <3> QED
      BY <3>3 DEF x, y
  <2> QED
    BY <2>1
<1>6. base \in V
  OBVIOUS
<1>7. \A f : Fix(f) <=> f = [k \in 0 .. n |-> IF k = 0 THEN base ELSE Step(k, f[k - 1])]
  <2> TAKE f
  <2>1. \A k \in 0 .. n : [c \in Letters |-> IF k = 0 THEN 0 ELSE f[k - 1][c] + counts[k - 1][c]]
                            = IF k = 0 THEN base ELSE Step(k, f[k - 1])
    <3> TAKE k \in 0 .. n
    <3>1. CASE k = 0
      BY <3>1
    <3>2. CASE k # 0
      BY <3>2
    <3> QED
      BY <3>1, <3>2
  <2> QED
    BY <2>1
<1> HIDE DEF Fix, Step, base, V
<1>8. \A k \in 1 .. n : \A v \in V : round[<<k, v>>] = Step(k, v)
  OBVIOUS
<1> HIDE DEF round
<1>9. Keeps(round, n, V)
  BY <1>5, <1>8 DEF Keeps
<1>10. n \in Nat
  OBVIOUS
<1>11. PICK f \in [0 .. n -> V] : Values(f, n, base, round)
  BY <1>6, <1>9, <1>10, LoopHasValues
<1>12. Fix(f)
  <2>1. ASSUME NEW k \in 0 .. n, k # 0 PROVE f[k] = Step(k, f[k - 1])
    <3>1. k \in 1 .. n /\ k - 1 \in 0 .. n
      BY <2>1
    <3> QED
      BY <1>8, <1>11, <3>1 DEF Values
  <2>2. \A k \in 0 .. n : f[k] = IF k = 0 THEN base ELSE Step(k, f[k - 1])
    BY <1>11, <2>1 DEF Values
  <2>3. f = [k \in 0 .. n |-> f[k]]
    OBVIOUS
  <2>4. f = [k \in 0 .. n |-> IF k = 0 THEN base ELSE Step(k, f[k - 1])]
    BY <2>2, <2>3
  <2> QED
    BY <1>7, <2>4
<1>13. Fix(letter_array)
  BY <1>12
<1> HIDE DEF letter_array
<1>14. letter_array[0] = base /\ \A k \in 1 .. n : letter_array[k] = Step(k, letter_array[k - 1])
  <2>1. letter_array = [k \in 0 .. n |-> IF k = 0 THEN base ELSE Step(k, letter_array[k - 1])]
    BY <1>7, <1>13
  <2>2. \A k \in 0 .. n : letter_array[k] = IF k = 0 THEN base ELSE Step(k, letter_array[k - 1])
    BY <2>1
  <2>3. 0 \in 0 .. n /\ \A k \in 1 .. n : k \in 0 .. n /\ k # 0
    OBVIOUS
  <2> QED
    BY <2>2, <2>3
<1> DEFINE Good == {k \in 0 .. n : letter_array[k] = [c \in Letters |-> Cardinality(Spots(bytes, c, 0, cut[k]))]}
<1>15. 0 .. n \subseteq Good
  <2>1. 0 \in Good
    <3>1. ASSUME NEW c \in Letters PROVE Cardinality(Spots(bytes, c, 0, cut[0])) = 0
      <4>1. Spots(bytes, c, 0, cut[0]) = {}
        BY <1>3 DEF Spots
      <4> QED
        BY <4>1, FS_EmptySet
    <3>2. base = [c \in Letters |-> Cardinality(Spots(bytes, c, 0, cut[0]))]
      BY <3>1 DEF base
    <3> QED
      BY <1>14, <3>2
  <2>2. ASSUME NEW k \in 0 .. n - 1, k \in Good PROVE k + 1 \in Good
    <3>1. k + 1 \in 1 .. n /\ k + 1 \in 0 .. n /\ (k + 1) - 1 = k /\ k \in 0 .. n
      OBVIOUS
    <3>2. letter_array[k + 1] = Step(k + 1, letter_array[k])
      BY <1>14, <3>1
    <3>3. ASSUME NEW c \in Letters
          PROVE  letter_array[k][c] + counts[(k + 1) - 1][c] = Cardinality(Spots(bytes, c, 0, cut[k + 1]))
      <4> DEFINE first == 0
                 a == cut[k]
                 b == cut[k + 1]
      <4>1. first \in Nat /\ a \in Nat /\ b \in Nat /\ first <= a /\ a <= b
        BY <1>3, <3>1
      <4>2. counts[(k + 1) - 1][c] = Cardinality(Spots(bytes, c, a, b))
        BY <1>4, <3>1
      <4>3. letter_array[k][c] = Cardinality(Spots(bytes, c, first, a))
        BY <2>2
      <4> HIDE DEF first, a, b
      <4>4. Cardinality(Spots(bytes, c, first, b))
              = Cardinality(Spots(bytes, c, first, a)) + Cardinality(Spots(bytes, c, a, b))
        BY <4>1, SpotsAdd
      <4> QED
        BY <4>2, <4>3, <4>4 DEF first, b
    <3>4. Step(k + 1, letter_array[k]) = [c \in Letters |-> Cardinality(Spots(bytes, c, 0, cut[k + 1]))]
      BY <3>3 DEF Step
    <3> QED
      BY <3>1, <3>2, <3>4
  <2> HIDE DEF Good
  <2> QED
    BY <1>10, <2>1, <2>2, CountUp
<1>16. letter_array[n] = [c \in Letters |-> Cardinality(Spots(bytes, c, 0, Len(bytes)))]
  <2>1. n \in 0 .. n
    OBVIOUS
  <2> QED
    BY <1>3, <1>15, <2>1
<1>17. \A c \in Letters : Occurrences(c, bytes) = Cardinality(Spots(bytes, c, 0, Len(bytes)))
  BY OccurrencesOf
<1> QED
  BY <1>2, <1>16, <1>17 DEF LettersOf

\* Parts that are empty, or begin with a newline, are searched one by one.
LEMMA MatchingParts ==
    ASSUME NEW u \in Seq(Bytes), NEW v \in Seq(Bytes), u = <<>> \/ v = <<>> \/ BeginsLine(v)
    PROVE  /\ MatchingLines(u \o v) = MatchingLines(u) \o MatchingLines(v)
           /\ MatchingLines(v) \in Seq(Seq(Bytes))
<1>1. ASSUME NEW s \in Seq(Bytes) PROVE MatchingLines(s) \in Seq(Seq(Bytes))
  <2>1. PICK f : Matches(s, f)
    BY MatchingSteps
  <2>2. Lines(s) \in 0 .. Lines(s)
    BY MatchingSteps
  <2> QED
    BY <2>1, <2>2 DEF Matches
<1>2. CASE u = <<>>
  <2>1. u \o v = v
    BY <1>2, ConcatEmptySeq
  <2>2. <<>> \o MatchingLines(v) = MatchingLines(v)
    BY <1>1, ConcatEmptySeq
  <2> QED
    BY <1>1, <1>2, <2>1, <2>2, MatchingEmpty
<1>3. CASE v = <<>>
  <2>1. u \o v = u
    BY <1>3, ConcatEmptySeq
  <2>2. MatchingLines(u) \o <<>> = MatchingLines(u)
    BY <1>1, ConcatEmptySeq
  <2> QED
    BY <1>1, <1>3, <2>1, <2>2, MatchingEmpty
<1>4. CASE BeginsLine(v)
  BY <1>1, <1>4, MatchingConcat
<1> QED
  BY <1>2, <1>3, <1>4

\* One more split
LEMMA MatchingNextPart ==
    ASSUME NEW bytes \in Seq(Bytes), NEW n \in Nat \ {0}, Splits(bytes, n), NEW k \in 0 .. n - 1
    PROVE  /\ MatchingLines(SubSeq(bytes, 1, Cut(bytes, n, k + 1)))
                = MatchingLines(SubSeq(bytes, 1, Cut(bytes, n, k))) \o WordFinderMap(bytes, Part(bytes, n, k))
           /\ WordFinderMap(bytes, Part(bytes, n, k)) \in Seq(Seq(Bytes))
<1> DEFINE a == Cut(bytes, n, k)
           b == Cut(bytes, n, k + 1)
           len == Len(bytes)
           split == Part(bytes, n, k)
           u == SubSeq(bytes, 1, a)
           v == SubSeq(bytes, a + 1, b)
<1>1. split.start = a /\ split.size = b - a
  BY DEF Part
<1>2. len \in Nat
  OBVIOUS
<1>3. /\ a \in Nat /\ b \in Nat /\ a <= b /\ b <= len
      /\ k = 0 => a = 0
      /\ k # 0 => a < len /\ bytes[a + 1] = NewLine
  <2>1. k \in 0 .. n /\ k + 1 \in 0 .. n /\ (k # 0 => k \in 1 .. n - 1)
    OBVIOUS
  <2> HIDE DEF split, u, v
  <2> QED
    BY <2>1, Cuts
<1>4. WordFinderMap(bytes, split) = MatchingLines(SubSeq(bytes, split.start + 1, split.start + split.size))
  BY DEF WordFinderMap
<1> HIDE DEF a, b, split, u, v
<1>5. split.start + 1 = a + 1 /\ split.start + split.size = b
  BY <1>1, <1>3
<1>6. WordFinderMap(bytes, split) = MatchingLines(v)
  BY <1>4, <1>5 DEF v
<1>7. u \in Seq(Bytes) /\ v \in Seq(Bytes)
  <2>1. /\ \A j \in 1 .. a : bytes[j] \in Bytes
        /\ \A j \in a + 1 .. b : bytes[j] \in Bytes
    <3>1. /\ \A j \in 1 .. a : j \in 1 .. Len(bytes)
          /\ \A j \in a + 1 .. b : j \in 1 .. Len(bytes)
      BY <1>2, <1>3
    <3> QED
      BY <3>1, ElementOfSeq
  <2>2. 1 \in Int /\ a \in Int /\ a + 1 \in Int /\ b \in Int
    BY <1>3
  <2> QED
    BY <2>1, <2>2, SubSeqProperties DEF u, v
<1>8. SubSeq(bytes, 1, b) = u \o v
  <2>1. 1 \in 1 .. Len(bytes) + 1 /\ a \in 1 - 1 .. Len(bytes) /\ b \in a .. Len(bytes)
    BY <1>2, <1>3
  <2> QED
    BY <2>1, ConcatAdjacentSubSeq DEF u, v
<1>9. u = <<>> \/ v = <<>> \/ BeginsLine(v)
  <2>1. CASE k = 0
    <3>1. a \in Int /\ 1 \in Int /\ a < 1
      BY <1>3, <2>1
    <3>2. u = <<>>
      BY <3>1, SubSeqEmpty DEF u
    <3> QED
      BY <3>2
  <2>2. CASE a = b
    <3>1. a + 1 \in Int /\ b \in Int /\ b < a + 1
      BY <1>3, <2>2
    <3>2. v = <<>>
      BY <3>1, SubSeqEmpty DEF v
    <3> QED
      BY <3>2
  <2>3. CASE k # 0 /\ a # b
    <3>1. bytes[a + 1] = NewLine /\ 1 \in 1 .. b - a /\ b - a \in Nat \ {0}
      BY <1>3, <2>3
    <3>2. v[1] = bytes[a + 1] /\ Len(v) = b - a
      BY <1>3, <3>1 DEF v
    <3>3. v # <<>>
      BY <3>1, <3>2, EmptySeq
    <3> QED
      BY <3>1, <3>2, <3>3 DEF BeginsLine
  <2> QED
    BY <2>1, <2>2, <2>3
<1>10. MatchingLines(u \o v) = MatchingLines(u) \o MatchingLines(v) /\ MatchingLines(v) \in Seq(Seq(Bytes))
  BY <1>7, <1>9, MatchingParts
<1> QED
  BY <1>6, <1>8, <1>10 DEF a, b, split, u

\* The lines of the file, if each worker has found those of its split
LEMMA LinesReduced ==
    ASSUME NEW bytes \in Seq(Bytes), NEW n \in Nat \ {0}, Splits(bytes, n), NEW lines,
           lines = [k \in 0 .. n - 1 |-> WordFinderMap(bytes, Part(bytes, n, k))]
    PROVE  WordFinderReduce(lines) = LinesWithWord(bytes)
<1> DEFINE V == Seq(Seq(Bytes))
           Step(k, found) == found \o lines[k - 1]
           base == <<>>
           Fix(f) == f = [k \in 0 .. n |-> IF k = 0 THEN base ELSE Step(k, f[k - 1])]
           round == [p \in (1 .. n) \X V |-> Step(p[1], p[2])]
           written == CHOOSE f : Fix(f)
<1>1. Cardinality(DOMAIN lines) = n
  <2>1. DOMAIN lines = 0 .. n - 1 /\ 0 \in Int /\ n - 1 \in Int
    OBVIOUS
  <2> QED
    BY <2>1, FS_Interval
<1>2. WordFinderReduce(lines) = written[n]
  BY <1>1 DEF WordFinderReduce
<1>3. ASSUME NEW k \in 0 .. n - 1
      PROVE  /\ lines[k] \in V
             /\ MatchingLines(SubSeq(bytes, 1, Cut(bytes, n, k + 1)))
                  = MatchingLines(SubSeq(bytes, 1, Cut(bytes, n, k))) \o lines[k]
  <2>1. lines[k] = WordFinderMap(bytes, Part(bytes, n, k))
    OBVIOUS
  <2> HIDE DEF Fix, round, written, Step, base
  <2> QED
    BY <2>1, MatchingNextPart
<1>4. base \in V
  OBVIOUS
<1>5. ASSUME NEW k \in 1 .. n, NEW found \in V PROVE Step(k, found) \in V
  <2>1. k - 1 \in 0 .. n - 1
    OBVIOUS
  <2>2. lines[k - 1] \in V
    BY <1>3, <2>1
  <2> QED
    BY <2>2, ConcatProperties
<1> HIDE DEF Step, base, V
<1>8. \A k \in 1 .. n : \A v \in V : round[<<k, v>>] = Step(k, v)
  OBVIOUS
<1> HIDE DEF round
<1>9. Keeps(round, n, V)
  BY <1>5, <1>8 DEF Keeps
<1>10. n \in Nat
  OBVIOUS
<1>11. PICK f \in [0 .. n -> V] : Values(f, n, base, round)
  BY <1>4, <1>9, <1>10, LoopHasValues
<1>12. Fix(f)
  <2>1. ASSUME NEW k \in 0 .. n, k # 0 PROVE f[k] = Step(k, f[k - 1])
    <3>1. k \in 1 .. n /\ k - 1 \in 0 .. n
      BY <2>1
    <3> QED
      BY <1>8, <1>11, <3>1 DEF Values
  <2>2. \A k \in 0 .. n : f[k] = IF k = 0 THEN base ELSE Step(k, f[k - 1])
    BY <1>11, <2>1 DEF Values
  <2>3. f = [k \in 0 .. n |-> f[k]]
    OBVIOUS
  <2> QED
    BY <2>2, <2>3
<1>13. Fix(written)
  <2> HIDE DEF Fix
  <2> QED
    BY <1>12
<1> HIDE DEF written
<1>14. written[0] = base /\ \A k \in 1 .. n : written[k] = Step(k, written[k - 1])
  <2>1. \A k \in 0 .. n : written[k] = IF k = 0 THEN base ELSE Step(k, written[k - 1])
    BY <1>13
  <2>2. 0 \in 0 .. n /\ \A k \in 1 .. n : k \in 0 .. n /\ k # 0
    OBVIOUS
  <2> QED
    BY <2>1, <2>2
<1> HIDE DEF Fix
<1>15. Cut(bytes, n, 0) = 0 /\ Cut(bytes, n, n) = Len(bytes)
  BY Cuts
<1> DEFINE Good == {k \in 0 .. n : written[k] = MatchingLines(SubSeq(bytes, 1, Cut(bytes, n, k)))}
<1>16. 0 .. n \subseteq Good
  <2>1. 0 \in Good
    <3>1. SubSeq(bytes, 1, Cut(bytes, n, 0)) = <<>>
      <4> DEFINE last == Cut(bytes, n, 0)
      <4>1. 1 \in Int /\ last \in Int /\ last < 1
        BY <1>15
      <4> HIDE DEF last
      <4>2. SubSeq(bytes, 1, last) = <<>>
        BY <4>1, SubSeqEmpty
      <4> QED
        BY <4>2 DEF last
    <3>2. written[0] = MatchingLines(SubSeq(bytes, 1, Cut(bytes, n, 0)))
      BY ONLY <1>14, <3>1, MatchingEmpty DEF base
    <3>3. 0 \in 0 .. n
      OBVIOUS
    <3> QED
      BY <3>2, <3>3
  <2>2. ASSUME NEW k \in 0 .. n - 1, k \in Good PROVE k + 1 \in Good
    <3>1. k + 1 \in 1 .. n /\ k + 1 \in 0 .. n /\ (k + 1) - 1 = k
      OBVIOUS
    <3>2. written[k + 1] = written[k] \o lines[k]
      BY <1>14, <3>1 DEF Step
    <3>3. written[k] = MatchingLines(SubSeq(bytes, 1, Cut(bytes, n, k)))
      BY <2>2
    <3>4. written[k + 1] = MatchingLines(SubSeq(bytes, 1, Cut(bytes, n, k + 1)))
      BY <1>3, <3>2, <3>3
    <3> QED
      BY <3>1, <3>4
  <2> HIDE DEF Good
  <2> QED
    BY <1>10, <2>1, <2>2, CountUp
<1>17. written[n] = MatchingLines(SubSeq(bytes, 1, Len(bytes)))
  <2>1. n \in 0 .. n
    OBVIOUS
  <2> QED
    BY <1>15, <1>16, <2>1
<1>18. SubSeq(bytes, 1, Len(bytes)) = bytes
  BY SubSeqFull
<1> QED
  BY <1>2, <1>17, <1>18 DEF LinesWithWord

-----------------------------------------------------------------------------
\* The workers are given the splits of the file.
SplitsInv ==
    \/ parent \in {"split", "exited"} /\ \A k \in Workers : child[k] = "unborn"
    \/ Splittable /\ data_splits = [k \in Workers |-> SplitAt(k)]

LEMMA InitSplits == Init => SplitsInv
  BY DEF Init, SplitsInv

LEMMA StepSplits == IInv /\ SplitsInv /\ [Next]_vars => SplitsInv'
<1> SUFFICES ASSUME IInv, SplitsInv, [Next]_vars PROVE SplitsInv'
  OBVIOUS
<1>1. ParentInv /\ ChildInv /\ child \in [Workers -> ChildSteps]
  BY DEF IInv, TypeOK
<1> DEFINE Made == Splittable /\ data_splits = [k \in Workers |-> SplitAt(k)]
<1>2. ASSUME UNCHANGED <<args, data_splits>>, Made PROVE SplitsInv'
  BY <1>2 DEF args, SplitsInv, Splittable, SplitAt, Workers
<1>3. CASE Split
  <2>1. UNCHANGED <<args, child>> /\ parent = "split" /\ \A k \in Workers : k >= i => child[k] = "unborn"
    BY <1>1, <1>3 DEF Split, ParentInv
  <2>2. \A k \in Workers : child[k] = "unborn"
    BY <1>1, <2>1 DEF ParentInv, Workers
  <2>3. CASE Splittable
    <3>1. data_splits' = [k \in Workers |-> SplitAt(k)]
      BY <1>3, <2>3 DEF Split
    <3> QED
      BY <2>1, <2>3, <3>1 DEF args, SplitsInv, Splittable, SplitAt, Workers
  <2>4. CASE ~Splittable
    BY <1>3, <2>1, <2>2, <2>4 DEF Split, SplitsInv, args, Workers
  <2> QED
    BY <2>3, <2>4
<1>4. CASE UNCHANGED vars
  BY <1>4 DEF vars, args, SplitsInv, Splittable, SplitAt, Workers
<1>5. CASE Next /\ ~Split
  <2>1. UNCHANGED <<args, data_splits>>
    BY <1>5 DEF Next, ParentStep, ChildStep, ReducerStep, Fork, ForkFails, AllForked, LoopHead, Wait, Return,
                Map, MapOverflows, InstallHandler, Deliver, Poll, SleepOver, Reduce
  <2>2. CASE Made
    BY <1>2, <2>1, <2>2
  <2>3. CASE ~Made
    <3>1. parent \in {"split", "exited"} /\ \A k \in Workers : child[k] = "unborn"
      BY <2>3 DEF SplitsInv
    <3>2. FALSE
      BY <1>5, <3>1
         DEF Next, ParentStep, ChildStep, ReducerStep, Fork, ForkFails, AllForked, LoopHead, Wait, Return,
             Map, MapOverflows, InstallHandler, Deliver, Poll, SleepOver, Reduce, Child0
    <3> QED
      BY <3>2
  <2> QED
    BY <2>2, <2>3
<1> QED
  BY <1>3, <1>4, <1>5

\* The reduction of what the map function makes of the splits is the result
\* for the whole file, for every file and every number of splits.
LEMMA ReducedIsExpected ==
    ASSUME file \in Seq(Bytes), split_num \in Nat \ {0}, Splittable, task \in {"counter", "finder"},
           data_splits = [k \in Workers |-> SplitAt(k)]
    PROVE  ReduceFunc([k \in Workers |-> MapFunc(k)]) = Expected
<1>1. Splits(file, split_num)
  BY DEF Splits, Splittable
<1>2. ASSUME NEW k \in Workers PROVE data_splits[k] = Part(file, split_num, k)
  <2>1. k # split_num /\ (k + 1 = split_num <=> k = split_num - 1)
    BY DEF Workers
  <2>2. data_splits[k] = SplitAt(k)
    OBVIOUS
  <2> QED
    BY <2>1, <2>2 DEF SplitAt, Part, Cut
<1>3. CASE task = "counter"
  <2> DEFINE counts == [k \in 0 .. split_num - 1 |-> LetterCounterMap(file, Part(file, split_num, k))]
  <2>1. [k \in Workers |-> MapFunc(k)] = counts
    BY <1>2, <1>3 DEF MapFunc, Workers
  <2>2. LetterCounterReduce(counts) = LettersOf(file)
    BY <1>1, LettersReduced
  <2> HIDE DEF counts
  <2> QED
    BY <1>3, <2>1, <2>2 DEF ReduceFunc, Expected
<1>4. CASE task = "finder"
  <2> DEFINE lines == [k \in 0 .. split_num - 1 |-> WordFinderMap(file, Part(file, split_num, k))]
  <2>1. [k \in Workers |-> MapFunc(k)] = lines
    BY <1>2, <1>4 DEF MapFunc, Workers
  <2>2. WordFinderReduce(lines) = LinesWithWord(file)
    BY <1>1, LinesReduced
  <2> HIDE DEF lines
  <2> QED
    BY <1>4, <2>1, <2>2 DEF ReduceFunc, Expected
<1> QED
  BY <1>3, <1>4

\* The result file is right for every file and every number of splits, for
\* both tasks: no letter is counted twice and no line is lost or found twice
\* where the file is cut (mapreduce.c:23-50, usr_functions.c).
THEOREM ResultStaysExact == Spec => []ResultIsExact
<1>1. IInv /\ SplitsInv /\ ResultIsComposed => ResultIsExact
  <2> SUFFICES ASSUME IInv, SplitsInv, ResultIsComposed, result # <<>>, \A k \in Workers : ~WordTooLong(k)
               PROVE  result = <<Expected>>
    BY DEF ResultIsExact
  <2>1. 0 \in Workers /\ child[0] = "exited"
    BY DEF IInv, ChildInv
  <2>2. file \in Seq(Bytes) /\ split_num \in Nat \ {0} /\ task \in {"counter", "finder"}
    BY <2>1, FilesAssumption, SplitNumsAssumption DEF IInv, TypeOK, Workers
  <2>3. Splittable /\ data_splits = [k \in Workers |-> SplitAt(k)]
    BY <2>1 DEF SplitsInv
  <2>4. result = <<ReduceFunc([k \in Workers |-> MapFunc(k)])>>
    BY DEF ResultIsComposed
  <2> QED
    BY <2>2, <2>3, <2>4, ReducedIsExpected
<1> QED
  BY InvariantHolds, ResultComposed, InitSplits, StepSplits, <1>1, PTL DEF Spec
=============================================================================
