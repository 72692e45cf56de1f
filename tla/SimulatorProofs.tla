-------------------------- MODULE SimulatorProofs --------------------------
(***************************************************************************)
(* Theorems of the simulators of a processor's parts.                      *)
(*                                                                         *)
(* Moesi, for any number of caches and lines: the three safety invariants  *)
(* and the types are inductive together. A read probe may turn M into O    *)
(* only because an M copy was the sole one, and the refinement needs that  *)
(* again where a write puts nothing on the bus.                            *)
(*                                                                         *)
(* Scoreboard, for any program: what may be issued together keeps the      *)
(* order of writes, and each cycle is paid by one of an instruction's own  *)
(* cycles. Induction over numbers is done with the least counterexample.   *)
(*                                                                         *)
(* BranchPredictor, for any branches and any length of the history: each   *)
(* counter leans to its branch's latest outcome, and the index of the      *)
(* global table shifts.                                                    *)
(***************************************************************************)
EXTENDS Moesi, Scoreboard, BranchPredictor, FiniteSetTheorems, SequenceTheorems, WellFoundedInduction, TLAPS

-----------------------------------------------------------------------------
(* The MOESI cache simulator.                                              *)

Invariant == TypeOK /\ SoleOwner /\ OneOwner /\ SharedIsShared

\* What each access leaves in the accessed line, and that it leaves the other
\* lines alone, without the nested functions.
LEMMA AccessEffect ==
    ASSUME TypeOK, NEW c \in Caches, NEW l \in AddressLines, Access(c, l)
    PROVE  /\ TypeOK'
           /\ \A d \in Caches, m \in AddressLines :
                 m # l => current_state'[d][m] = current_state[d][m]
           /\ \/ /\ current_state[c][l] # "I"
                 /\ \A d \in Caches : current_state'[d][l] = current_state[d][l]
              \/ /\ current_state[c][l] = "I"
                 /\ current_state'[c][l] = IF HitsElsewhere(c, l) THEN "S" ELSE "E"
                 /\ \A d \in Caches \ {c} :
                       current_state'[d][l] = AfterProbeRead(current_state[d][l])
              \/ /\ current_state[c][l] \in {"M", "E"}
                 /\ current_state'[c][l] = "M"
                 /\ \A d \in Caches \ {c} : current_state'[d][l] = current_state[d][l]
              \/ /\ current_state[c][l] \in {"S", "O", "I"}
                 /\ current_state'[c][l] = "M"
                 /\ \A d \in Caches \ {c} : current_state'[d][l] = "I"
<1> USE DEF TypeOK, States, Access
<1>1. CASE ReadHit(c, l)
  BY <1>1 DEF ReadHit
<1>2. CASE ReadMiss(c, l)
  BY <1>2 DEF ReadMiss, Update, AfterProbeRead
<1>3. CASE WriteOwned(c, l)
  BY <1>3 DEF WriteOwned, Update
<1>4. CASE WriteShared(c, l)
  BY <1>4 DEF WriteShared, Update
<1>5. CASE WriteMiss(c, l)
  BY <1>5 DEF WriteMiss, Update
<1> QED
  BY <1>1, <1>2, <1>3, <1>4, <1>5

\* One access preserves the invariant.
LEMMA AccessInvariant ==
    ASSUME Invariant, NEW c \in Caches, NEW l \in AddressLines, Access(c, l)
    PROVE  Invariant'
<1> USE DEF Invariant
<1>0. TypeOK'
  BY AccessEffect
<1>1. SoleOwner'
  <2> SUFFICES ASSUME NEW a \in Caches, NEW b \in Caches, NEW m \in AddressLines,
                      a # b, current_state'[a][m] \in {"M", "E"}
               PROVE  current_state'[b][m] = "I"
    BY DEF SoleOwner
  <2>1. CASE m # l
    BY <2>1, AccessEffect DEF SoleOwner
  <2>2. CASE m = l /\ a = c
    BY <2>2, AccessEffect DEF SoleOwner, HitsElsewhere, AfterProbeRead
  <2>3. CASE m = l /\ a # c
    BY <2>3, AccessEffect DEF SoleOwner, TypeOK, States, AfterProbeRead
  <2> QED BY <2>1, <2>2, <2>3
<1>2. OneOwner'
  <2> SUFFICES ASSUME NEW a \in Caches, NEW b \in Caches, NEW m \in AddressLines,
                      a # b, current_state'[a][m] = "O"
               PROVE  current_state'[b][m] \in {"S", "I"}
    BY DEF OneOwner
  <2>1. CASE m # l
    BY <2>1, AccessEffect DEF OneOwner
  <2>2. CASE m = l /\ a = c
    BY <2>2, AccessEffect DEF OneOwner
  <2>3. CASE m = l /\ a # c
    <3>1. current_state[a][l] \in {"M", "O"}
      BY <2>3, AccessEffect DEF TypeOK, States, AfterProbeRead
    <3>2. current_state[b][l] \in {"S", "I"}
      BY <3>1, <2>3 DEF SoleOwner, OneOwner
    <3>3. current_state'[a][l] # "I" /\ current_state[a][l] # "I"
      BY <3>1, <2>3
    <3> QED
      BY <2>3, <3>1, <3>2, <3>3, AccessEffect DEF HitsElsewhere, AfterProbeRead
  <2> QED BY <2>1, <2>2, <2>3
<1>3. SharedIsShared'
  <2> SUFFICES ASSUME NEW d \in Caches, NEW m \in AddressLines,
                      current_state'[d][m] \in {"S", "O"}
               PROVE  \E e \in Caches \ {d} : current_state'[e][m] # "I"
    BY DEF SharedIsShared, HitsElsewhere
  <2>1. CASE m # l
    BY <2>1, AccessEffect DEF SharedIsShared, HitsElsewhere
  <2>2. CASE m = l /\ d = c
    BY <2>2, AccessEffect
    DEF SharedIsShared, HitsElsewhere, TypeOK, States, AfterProbeRead
  <2>3. CASE m = l /\ d # c
    BY <2>3, AccessEffect
    DEF SharedIsShared, HitsElsewhere, TypeOK, States, AfterProbeRead
  <2> QED BY <2>1, <2>2, <2>3
<1> QED BY <1>0, <1>1, <1>2, <1>3

\* The invariant holds in every reachable state.
THEOREM InvariantHolds == Spec => []Invariant
<1>1. Init => Invariant
  BY DEF Init, Invariant, TypeOK, States, SoleOwner, OneOwner, SharedIsShared
<1>2. Invariant /\ [Next]_vars => Invariant'
  <2> SUFFICES ASSUME Invariant, [Next]_vars PROVE Invariant'
    OBVIOUS
  <2>1. ASSUME NEW c \in Caches, NEW l \in AddressLines, Access(c, l)
        PROVE  Invariant'
    BY <2>1, AccessInvariant
  <2>2. CASE BadInput \/ UNCHANGED vars
    <3>1. current_state' = current_state /\ TypeOK'
      BY <2>2 DEF BadInput, vars, Invariant, TypeOK
    <3>2. SoleOwner' /\ OneOwner'
      BY <3>1 DEF Invariant, SoleOwner, OneOwner
    <3>3. SharedIsShared'
      BY <3>1 DEF Invariant, SharedIsShared, HitsElsewhere
    <3> QED BY <3>1, <3>2, <3>3 DEF Invariant
  <2> QED BY <2>1, <2>2 DEF Next
<1> QED
  BY <1>1, <1>2, PTL DEF Spec

\* Every line of every cache is always in one of the five states.
THEOREM TypeCorrect == Spec => []TypeOK
  BY InvariantHolds, PTL DEF Invariant

\* For any number of caches an M or E copy is the only valid one, and an O
\* copy has only S copies beside it.
THEOREM Ownership == Spec => []OwnersExclude
  BY InvariantHolds, PTL DEF Invariant, OwnersExclude

\* S and O copies always have company.
THEOREM SharingIsReal == Spec => []SharedIsShared
  BY InvariantHolds, PTL DEF Invariant

-----------------------------------------------------------------------------
\* The five states implement coherent lines: reads only add a copy, writes
\* leave one, and a line stays dirty once it has been written.
THEOREM ImplementsCoherence == Spec => IsCoherent
<1> DEFINE Copies(l) == {c \in Caches : current_state[c][l] # "I"}
           Dirty(l) == \E c \in Caches : current_state[c][l] \in {"M", "O"}
           copiesBar == [l \in AddressLines |-> Copies(l)]
           dirtyBar == [l \in AddressLines |-> Dirty(l)]
<1>1. Init => Coherent!Init
  BY DEF Init, Coherent!Init
<1>2. Invariant /\ Invariant' /\ [Next]_vars => [Coherent!Next]_<<copiesBar, dirtyBar>>
  <2> SUFFICES ASSUME Invariant, [Next]_vars
               PROVE  [Coherent!Next]_<<copiesBar, dirtyBar>>
    OBVIOUS
  <2>1. ASSUME NEW c \in Caches, NEW l \in AddressLines, Access(c, l)
        PROVE  Coherent!Read(c, l) \/ Coherent!Write(c, l)
    <3>1. \A m \in AddressLines \ {l} : Copies(m)' = Copies(m) /\ Dirty(m)' = Dirty(m)
      BY <2>1, AccessEffect DEF Invariant
    <3>2. \/ Copies(l)' = Copies(l) \cup {c} /\ Dirty(l)' = Dirty(l)
          \/ Copies(l)' = {c} /\ Dirty(l)'
      <4> TypeOK /\ TypeOK' /\ SoleOwner
        BY <2>1, AccessEffect DEF Invariant
      <4>1. CASE /\ current_state[c][l] # "I"
                 /\ \A d \in Caches : current_state'[d][l] = current_state[d][l]
        BY <4>1
      <4>2. CASE /\ current_state[c][l] = "I"
                 /\ current_state'[c][l] = IF HitsElsewhere(c, l) THEN "S" ELSE "E"
                 /\ \A d \in Caches \ {c} :
                       current_state'[d][l] = AfterProbeRead(current_state[d][l])
        <5>1. current_state'[c][l] \in {"S", "E"}
          BY <4>2
        <5>2. \A d \in Caches \ {c} :
                 /\ current_state'[d][l] # "I" <=> current_state[d][l] # "I"
                 /\ current_state'[d][l] \in {"M", "O"}
                       <=> current_state[d][l] \in {"M", "O"}
          BY <4>2 DEF AfterProbeRead
        <5>3. Copies(l)' = Copies(l) \cup {c}
          BY <5>1, <5>2
        <5>4. Dirty(l)' = Dirty(l)
          BY <5>1, <5>2, <4>2
        <5> QED BY <5>3, <5>4
      <4>3. CASE /\ current_state[c][l] \in {"M", "E"}
                 /\ current_state'[c][l] = "M"
                 /\ \A d \in Caches \ {c} : current_state'[d][l] = current_state[d][l]
        <5>1. \A d \in Caches \ {c} : current_state'[d][l] = "I"
          BY <4>3 DEF SoleOwner
        <5> QED BY <4>3, <5>1
      <4>4. CASE /\ current_state[c][l] \in {"S", "O", "I"}
                 /\ current_state'[c][l] = "M"
                 /\ \A d \in Caches \ {c} : current_state'[d][l] = "I"
        BY <4>4
      <4> QED BY <2>1, <4>1, <4>2, <4>3, <4>4, AccessEffect
    <3>3. CASE Copies(l)' = Copies(l) \cup {c} /\ Dirty(l)' = Dirty(l)
      <4>1. copiesBar' = [copiesBar EXCEPT ![l] = copiesBar[l] \cup {c}]
        BY <3>1, <3>3
      <4>2. dirtyBar' = dirtyBar
        BY <3>1, <3>3
      <4> QED BY <4>1, <4>2 DEF Coherent!Read
    <3>4. CASE Copies(l)' = {c} /\ Dirty(l)'
      <4>1. copiesBar' = [copiesBar EXCEPT ![l] = {c}]
        BY <3>1, <3>4
      <4>2. dirtyBar' = [dirtyBar EXCEPT ![l] = TRUE]
        BY <3>1, <3>4
      <4> QED BY <4>1, <4>2 DEF Coherent!Write
    <3> QED BY <3>2, <3>3, <3>4
  <2>2. CASE BadInput \/ UNCHANGED vars
    BY <2>2 DEF BadInput, vars
  <2> QED BY <2>1, <2>2 DEF Next, Coherent!Next
<1> QED
  BY <1>1, <1>2, InvariantHolds, PTL DEF Spec, IsCoherent, Coherent!Spec

-----------------------------------------------------------------------------
(* The scoreboard.                                                         *)

\* Those that are in a unit.
InFlight == {i \in Instructions : status[i] = "Issued"}

Registers == (UNION {ToSet(board.instructions[i].operands) : i \in Instructions}) \ {NoRegister}

BoardTypeOK ==
    /\ board \in Boards
    /\ scorePc \in {"clock", "issue", "dispatch", "done", "exit"}
    /\ cycle \in Nat
    /\ status \in [Instructions -> {"Waiting", "Dispatched", "Issued", "Completed"}]
    /\ cyclesLeft \in [Instructions -> Nat]
    /\ DOMAIN processingInst = Units
    /\ queue \in Seq(Instructions)
    /\ writer \in [Registers -> Nat]
    /\ DOMAIN producers = Instructions

\* The cycles c that may be left to i in stage s of unit u.
TimeIn(u, s, i, c) ==
    CASE u = "ALU"  -> c = 1
      [] u = "MUL"  -> c = 5 - s
      [] u = "DIV"  -> c \in 1..8
      [] u = "LOAD" -> IF isCacheMiss(i)
                       THEN IF s = 1 THEN c = 2 + board.cacheMiss ELSE c \in 1..(1 + board.cacheMiss)
                       ELSE c = 3 - s

\* The stages p of unit u hold each instruction once, with the cycles left.
StagesHold(u, p, remaining) ==
    /\ p \in [1..Stages(u) -> Instructions \cup {0}]
    /\ \A s \in 1..Stages(u) :
         p[s] # 0 => /\ TimeIn(u, s, p[s], remaining[p[s]])
                     /\ \A t \in 1..Stages(u) : p[t] = p[s] => t = s

\* A unit holds what was issued to it.
UnitsHold ==
    /\ \A u \in Units : StagesHold(u, processingInst[u], cyclesLeft)
    /\ \A u \in Units : \A i \in InUnit(u) : status[i] = "Issued" /\ isSupported(i) /\ getUnitByInstruction(i) = u
    /\ \A i \in InFlight : isSupported(i) /\ i \in InUnit(getUnitByInstruction(i))

\* The busy registers are the destinations of what is in a unit, each of one.
BusyIsRight == /\ busy = {getDestination(i) : i \in InFlight}
               /\ \A i, j \in InFlight : getDestination(i) = getDestination(j) => i = j

\* Instructions leave the program in its order, and a register holds what a
\* completed one wrote.
TakenInOrder ==
    /\ \A i, j \in Instructions : i < j /\ status[i] = "Waiting" => status[j] = "Waiting"
    /\ \A r \in Registers :
         writer[r] # 0 => /\ writer[r] \in Instructions /\ status[writer[r]] = "Completed"
                          /\ getDestination(writer[r]) = r

\* In order, what is in a unit is younger than the completed writers of its
\* destination, and these are not younger than the one the register is from.
WritesInOrder ==
    board.orderType = "inorder" =>
      /\ queue = <<>>
      /\ \A i \in Instructions : status[i] # "Dispatched"
      /\ \A i \in InFlight, j \in Instructions :
           status[j] = "Completed" /\ getDestination(i) = getDestination(j) => j < i
      /\ \A r \in Registers : \A j \in Instructions :
           status[j] = "Completed" /\ getDestination(j) = r => j <= writer[r]

\* Out of order, the queue holds what is dispatched, the oldest first, and none
\* that is left behind reads what a younger one wrote or is about to.
QueueIsRight ==
    board.orderType # "inorder" =>
      /\ \A i \in Instructions : status[i] = "Dispatched" <=> i \in ToSet(queue)
      /\ \A k, l \in DOMAIN queue : k < l => queue[k] < queue[l]
      /\ \A i \in Instructions \ Issued, j \in Issued : i < j => getDestination(j) \notin Sources(i)

\* What was issued read the right writers.
ReadsAreRight ==
    \A i \in Issued : \A r \in Sources(i) :
      IF board.orderType = "inorder" THEN producers[i][r] = Producer(i, r) ELSE producers[i][r] < i

\* The cycles that i has still to go.
Ahead(i) ==
    CASE status[i] = "Waiting"    -> Alone(i)
      [] status[i] = "Dispatched" -> IF isSupported(i) THEN Alone(i) - 1 ELSE 0
      [] status[i] = "Issued"     -> cyclesLeft[i]
      [] status[i] = "Completed"  -> 0

AllAhead == SumTo([i \in Instructions |-> Ahead(i)], Len(board.instructions))
Altogether == SumTo([i \in Instructions |-> Alone(i)], Len(board.instructions))

\* Dispatching an instruction that no unit knows brings nothing nearer to its
\* end, but it is the last one.
Lost == IF \E i \in Instructions : status[i] = "Dispatched" /\ ~isSupported(i) THEN 1 ELSE 0

\* A cycle that moves nothing in the units and issues nothing dispatches.
CyclesArePaid ==
    LET Paid == cycle + 1 + AllAhead <= Altogether + Lost
    IN  /\ scorePc \in {"clock", "issue", "dispatch"} => cycle + AllAhead <= Altogether + Lost
        /\ scorePc = "issue" => Paid \/ (InFlight = {} /\ ~isCompleted)
        /\ scorePc = "dispatch" =>
             \/ Paid
             \/ /\ board.orderType # "inorder" /\ Waiting # {}
                /\ \A i \in Instructions : status[i] # "Dispatched"
        /\ cycle <= 1 + Altogether

BoardRuns == /\ BoardTypeOK /\ UnitsHold /\ BusyIsRight /\ TakenInOrder /\ WritesInOrder /\ QueueIsRight
             /\ ReadsAreRight /\ CyclesArePaid
             /\ scorePc = "exit" => \E i \in Instructions : ~isSupported(i)
             /\ scorePc = "done" => isCompleted

BoardInv == IF scorePc = "start" THEN BoardInit ELSE BoardRuns

\* Min(N) is the least member of N.
LEMMA LeastIsMember ==
    ASSUME NEW N \in SUBSET Nat, N # {}
    PROVE  Min(N) \in N /\ \A n \in N : Min(N) <= n
<1> DEFINE Less == {p \in Nat \X Nat : p[1] < p[2]}
<1>1. IsWellFoundedOn(Less, Nat)
  BY NatLessThanWellFounded DEF OpToRel
<1>2. PICK m \in N : \A n \in N : ~(<<n, m>> \in Less)
  <2> HIDE DEF Less
  <2> QED
    BY <1>1, WFMin
<1>3. ASSUME NEW n \in N PROVE m <= n
  <2>1. n \in Nat /\ m \in Nat
    OBVIOUS
  <2>2. <<n, m>> \in Nat \X Nat /\ <<n, m>> \notin Less
    BY <1>2, <2>1
  <2>3. ~(n < m)
    BY <2>2
  <2> QED
    BY <2>1, <2>3
<1>4. m \in {x \in N : \A n \in N : x <= n}
  BY <1>3
<1>5. Min(N) \in {x \in N : \A n \in N : x <= n}
  BY <1>4 DEF Min
<1> QED
  BY <1>5


\* The sum of n numbers is the last of its partial sums.
LEMMA PartialSums ==
    ASSUME NEW n \in Nat, NEW a \in [1..n -> Nat]
    PROVE  \E s \in [0..n -> Nat] : /\ s[0] = 0
                                    /\ \A k \in 1..n : s[k] = s[k - 1] + a[k]
                                    /\ SumTo(a, n) = s[n]
<1> DEFINE Fix(m, s) == s = [k \in 0..m |-> IF k = 0 THEN 0 ELSE s[k - 1] + a[k]]
           Bad == {m \in 0..n : ~ \E s : Fix(m, s)}
<1>1. Bad = {}
  <2> SUFFICES ASSUME Bad # {} PROVE FALSE
    OBVIOUS
  <2> DEFINE m == Min(Bad)
  <2>0. Bad \in SUBSET Nat
    OBVIOUS
  <2>1. m \in Bad /\ \A k \in Bad : m <= k
    <3> HIDE DEF Bad
    <3> QED
      BY <2>0, LeastIsMember
  <2> HIDE DEF m
  <2>2. CASE m = 0
    <3> DEFINE s == [k \in 0..0 |-> 0]
    <3>1. Fix(0, s)
      OBVIOUS
    <3> QED
      BY <2>1, <2>2, <3>1
  <2>3. CASE m # 0
    <3>0. m \in 0..n
      BY <2>1
    <3>1. m \in 1..n /\ m - 1 \in 0..n /\ m - 1 \notin Bad
      <4> HIDE DEF Bad
      <4> QED
        BY <2>1, <2>3, <3>0
    <3>2. PICK s : Fix(m - 1, s)
      BY <3>1
    <3> DEFINE t == [k \in 0..m |-> IF k = m THEN s[m - 1] + a[m] ELSE s[k]]
    <3> HIDE DEF Bad
    <3>3. \A k \in 0..(m - 1) : s[k] = IF k = 0 THEN 0 ELSE s[k - 1] + a[k]
      BY <3>2
    <3>4. \A k \in 0..m : t[k] = IF k = 0 THEN 0 ELSE t[k - 1] + a[k]
      BY <3>1, <3>3
    <3>5. t = [k \in 0..m |-> t[k]]
      OBVIOUS
    <3>6. Fix(m, t)
      <4> HIDE DEF t
      <4> QED
        BY <3>4, <3>5
    <3> QED
      BY <2>1, <3>6 DEF Bad
  <2> QED
    BY <2>2, <2>3
<1> DEFINE s == CHOOSE s : Fix(n, s)
<1>2. Fix(n, s)
  <2>1. n \in 0..n /\ n \notin Bad
    <3> HIDE DEF Bad
    <3> QED
      BY <1>1
  <2>2. \E t : Fix(n, t)
    BY <2>1
  <2> HIDE DEF Fix
  <2> QED
    BY <2>2
<1>3. SumTo(a, n) = s[n]
  BY DEF SumTo
<1> HIDE DEF s
<1>4. s = [k \in 0..n |-> s[k]] /\ s[0] = 0 /\ \A k \in 1..n : s[k] = s[k - 1] + a[k]
  BY <1>2
<1> HIDE DEF Fix
<1>5. \A k \in 0..n : s[k] \in Nat
  <2> DEFINE None == {k \in 0..n : s[k] \notin Nat}
  <2> SUFFICES ASSUME None # {} PROVE FALSE
    OBVIOUS
  <2> DEFINE m == Min(None)
  <2>0. None \in SUBSET Nat
    OBVIOUS
  <2>1. m \in None /\ \A k \in None : m <= k
    <3> HIDE DEF None
    <3> QED
      BY <2>0, LeastIsMember
  <2> HIDE DEF m
  <2>a. m \in 0..n /\ s[m] \notin Nat
    BY <2>1
  <2>b. m # 0
    BY <1>4, <2>a
  <2>2. m \in 1..n /\ m - 1 \in 0..n /\ m - 1 \notin None
    <3> HIDE DEF None
    <3> QED
      BY <2>1, <2>a, <2>b
  <2>3. s[m - 1] \in Nat /\ a[m] \in Nat
    BY <2>2
  <2> QED
    <3>1. s[m] = s[m - 1] + a[m]
      BY <1>4, <2>2
    <3>2. s[m] \in Nat
      BY <2>3, <3>1
    <3> QED
      BY <2>a, <3>2
<1> QED
  BY <1>3, <1>4, <1>5

\* A sum of numbers that are not greater is not greater, and is smaller when
\* one of them is.
LEMMA SmallerSum ==
    ASSUME NEW n \in Nat, NEW a \in [1..n -> Nat], NEW b \in [1..n -> Nat], NEW j \in Nat,
           \A k \in 1..n : a[k] <= b[k],
           j \in 1..n => a[j] < b[j]
    PROVE  /\ SumTo(a, n) \in Nat /\ SumTo(b, n) \in Nat
           /\ SumTo(a, n) <= SumTo(b, n)
           /\ j \in 1..n => SumTo(a, n) + 1 <= SumTo(b, n)
<1>1. PICK s \in [0..n -> Nat] : /\ s[0] = 0
                                 /\ \A k \in 1..n : s[k] = s[k - 1] + a[k]
                                 /\ SumTo(a, n) = s[n]
  BY PartialSums
<1>2. PICK t \in [0..n -> Nat] : /\ t[0] = 0
                                 /\ \A k \in 1..n : t[k] = t[k - 1] + b[k]
                                 /\ SumTo(b, n) = t[n]
  BY PartialSums
<1> DEFINE Bad == {k \in 0..n : ~(s[k] <= t[k] /\ (j \in 1..k => s[k] + 1 <= t[k]))}
<1>3. Bad = {}
  <2> SUFFICES ASSUME Bad # {} PROVE FALSE
    OBVIOUS
  <2> DEFINE m == Min(Bad)
  <2>0. Bad \in SUBSET Nat
    OBVIOUS
  <2>1. m \in Bad /\ \A k \in Bad : m <= k
    <3> HIDE DEF Bad
    <3> QED
      BY <2>0, LeastIsMember
  <2> HIDE DEF m
  <2>a. m \in 0..n /\ ~(s[m] <= t[m] /\ (j \in 1..m => s[m] + 1 <= t[m]))
    BY <2>1
  <2>2. m # 0
    BY <1>1, <1>2, <2>a
  <2>3. m \in 1..n /\ m - 1 \in 0..n /\ m - 1 \notin Bad
    <3> HIDE DEF Bad
    <3> QED
      BY <2>1, <2>a, <2>2
  <2>4. s[m - 1] <= t[m - 1] /\ (j \in 1..(m - 1) => s[m - 1] + 1 <= t[m - 1])
    BY <2>3
  <2>5. s[m] = s[m - 1] + a[m] /\ t[m] = t[m - 1] + b[m] /\ a[m] <= b[m]
    BY <1>1, <1>2, <2>3
  <2>6. a[m] \in Nat /\ b[m] \in Nat /\ s[m - 1] \in Nat /\ t[m - 1] \in Nat
    BY <2>3
  <2>c. \A p, q, x, y \in Nat : p <= q /\ x <= y => p + x <= q + y
    OBVIOUS
  <2>7. s[m] <= t[m]
    BY <2>4, <2>5, <2>6, <2>c
  <2>8. ASSUME j \in 1..m PROVE s[m] + 1 <= t[m]
    <3>1. CASE j = m
      <4>1. a[m] < b[m]
        BY <2>3, <3>1
      <4>2. \A p, q, x, y \in Nat : p <= q /\ x < y => (p + x) + 1 <= q + y
        OBVIOUS
      <4> QED
        BY <2>4, <2>5, <2>6, <4>1, <4>2
    <3>2. CASE j # m
      <4>1. j \in 1..(m - 1)
        BY <2>3, <2>8, <3>2
      <4>2. s[m - 1] + 1 <= t[m - 1]
        BY <2>4, <4>1
      <4>3. \A p, q, x, y \in Nat : p + 1 <= q /\ x <= y => (p + x) + 1 <= q + y
        OBVIOUS
      <4> QED
        BY <2>5, <2>6, <4>2, <4>3
    <3> QED
      BY <3>1, <3>2
  <2> QED
    BY <2>a, <2>7, <2>8
<1>4. n \in 0..n /\ n \notin Bad
  <2> HIDE DEF Bad
  <2> QED
    BY <1>3
<1>5. s[n] <= t[n] /\ (j \in 1..n => s[n] + 1 <= t[n])
  BY <1>4
<1> QED
  BY <1>1, <1>2, <1>5

LEMMA UnitTable ==
    /\ Units = {"ALU", "MUL", "DIV", "LOAD"}
    /\ Stages("ALU") = 1 /\ Stages("MUL") = 4 /\ Stages("DIV") = 1 /\ Stages("LOAD") = 2
    /\ Latency["ALU"] = 1 /\ Latency["MUL"] = 4 /\ Latency["DIV"] = 8 /\ Latency["LOAD"] = 2
BY DEF Units, Stages, Latency

\* An operation has one unit, and LDM has LOAD.
LEMMA UnitOf ==
    ASSUME NEW i, isSupported(i)
    PROVE  /\ getUnitByInstruction(i) \in Units
           /\ isCacheMiss(i) => getUnitByInstruction(i) = "LOAD"
<1> DEFINE u == getUnitByInstruction(i)
<1>1. u \in Units /\ operation(i) \in Supported[u]
  BY DEF isSupported, getUnitByInstruction
<1> HIDE DEF u
<1>2. operation(i) = "LDM" => u = "LOAD"
  BY <1>1, UnitTable DEF Supported
<1> QED
  BY <1>1, <1>2 DEF u, isCacheMiss

\* What the shift of a pipeline does.
LEMMA Shifted ==
    ASSUME NEW S, 0 \in S, NEW n \in Nat, n # 0, NEW p \in [1..n -> S]
    PROVE  /\ <<0>> \o Front(p) \in [1..n -> S]
           /\ (<<0>> \o Front(p))[1] = 0
           /\ \A s \in 2..n : (<<0>> \o Front(p))[s] = p[s - 1]
<1>1. p \in Seq(S) /\ Len(p) = n
  OBVIOUS
<1> DEFINE f == Front(p)
<1>2. f \in Seq(S) /\ Len(f) = n - 1 /\ \A k \in 1..(n - 1) : f[k] = p[k]
  BY <1>1 DEF Front
<1> HIDE DEF f
<1> DEFINE g == <<0>> \o f
<1>3. g \in Seq(S) /\ Len(g) = n /\ g[1] = 0 /\ \A k \in 2..n : g[k] = f[k - 1]
  BY <1>2
<1> HIDE DEF g
<1>4. \A k \in 2..n : k - 1 \in 1..(n - 1)
  OBVIOUS
<1>5. g \in [1..n -> S]
  BY <1>3
<1> QED
  BY <1>2, <1>3, <1>4, <1>5 DEF g, f

LEMMA Program ==
    ASSUME board \in Boards
    PROVE  /\ Len(board.instructions) \in Nat
           /\ Instructions = 1..Len(board.instructions)
           /\ board.cacheMiss \in Nat
           /\ \A i \in Instructions : Sources(i) \subseteq Registers
<1> DEFINE sets == {ToSet(board.instructions[i].operands) : i \in Instructions}
<1>0. Registers = (UNION sets) \ {NoRegister}
  BY DEF Registers
<1>1. /\ board.instructions \in Seq([operation : STRING, operands : [1..3 -> STRING \cup {NoRegister}]])
      /\ board.cacheMiss \in Nat
  BY BoardAssumption
<1>2. Instructions = 1..Len(board.instructions) /\ Len(board.instructions) \in Nat
  BY <1>1 DEF Instructions
<1>3. ASSUME NEW i \in Instructions PROVE Sources(i) \subseteq Registers
  <2> DEFINE o == board.instructions[i].operands
  <2>1. DOMAIN o = 1..3
    <3>1. board.instructions[i] \in [operation : STRING, operands : [1..3 -> STRING \cup {NoRegister}]]
      BY <1>1, <1>2, <1>3, ElementOfSeq
    <3> QED
      BY <3>1
  <2>2. o[1] \in ToSet(o) /\ o[2] \in ToSet(o) /\ o[3] \in ToSet(o)
    <3> HIDE DEF o
    <3> QED
      BY <2>1 DEF ToSet
  <2>3. Sources(i) \subseteq {o[1], o[2], o[3]} \ {NoRegister}
    BY DEF Sources
  <2>4. ToSet(o) \ {NoRegister} \subseteq Registers
    <3>1. ToSet(o) \in {ToSet(board.instructions[j].operands) : j \in Instructions}
      BY <1>3
    <3>2. ToSet(o) \in sets
      BY <3>1
    <3> HIDE DEF o, sets
    <3> QED
      BY <1>0, <3>2
  <2> QED
    BY <2>2, <2>3, <2>4
<1> QED
  BY <1>1, <1>2, <1>3

\* One cycle of one unit.
LEMMA UnitClock ==
    ASSUME board \in Boards, NEW u \in Units, StagesHold(u, processingInst[u], cyclesLeft),
           NEW remaining,
           \A i \in InUnit(u) : remaining[i] = cyclesLeft[i] - IF i \in Advancing(u) THEN 1 ELSE 0
    PROVE  /\ InUnit(u) = {processingInst[u][s] : s \in 1..Stages(u)} \ {0}
           /\ InUnit(u) \subseteq Instructions
           /\ \A i \in InUnit(u) : cyclesLeft[i] \in Nat \ {0}
           /\ Finishing(u) \subseteq Advancing(u)
           /\ Advancing(u) \subseteq InUnit(u)
           /\ InUnit(u) # {} => Advancing(u) # {}
           /\ \A i \in Finishing(u) : cyclesLeft[i] = 1
           /\ StagesHold(u, StagesAfter(u), remaining)
           /\ \A i : (i # 0 /\ \E s \in 1..Stages(u) : StagesAfter(u)[s] = i)
                     <=> i \in InUnit(u) \ Finishing(u)
<1> DEFINE p == processingInst[u]
           q == StagesAfter(u)
           n == Stages(u)
<1>0. /\ p \in [1..n -> Instructions \cup {0}]
      /\ \A s \in 1..n : p[s] # 0 => /\ TimeIn(u, s, p[s], cyclesLeft[p[s]])
                                     /\ \A t \in 1..n : p[t] = p[s] => t = s
  BY DEF StagesHold
<1>1. InUnit(u) = {p[s] : s \in 1..n} \ {0}
  BY <1>0 DEF InUnit, ToSet
<1>2. n \in Nat /\ n # 0 /\ n \in 1..n
  BY UnitTable
<1>3. 0 \notin Instructions /\ board.cacheMiss \in Nat
  BY Program
<1>4. LastOf(u) = p[n]
  BY DEF LastOf
<1>a. \A i \in InUnit(u) : \E s \in 1..n : p[s] = i /\ i # 0
  BY <1>1
<1>b. \A s \in 1..n : p[s] # 0 => p[s] \in InUnit(u) /\ p[s] \in Instructions
  BY <1>0, <1>1
<1>5. \A i \in InUnit(u) : i \in Instructions /\ cyclesLeft[i] \in Nat \ {0}
  <2> SUFFICES ASSUME NEW s \in 1..n, p[s] # 0
               PROVE  p[s] \in Instructions /\ cyclesLeft[p[s]] \in Nat \ {0}
    BY <1>a
  <2> DEFINE c == cyclesLeft[p[s]]
  <2>1. TimeIn(u, s, p[s], c)
    BY <1>0
  <2> HIDE DEF c
  <2>2. CASE u = "MUL"
    <3>1. c = 5 - s /\ s \in 1..4
      BY <2>1, <2>2, UnitTable DEF TimeIn
    <3>2. c \in Nat \ {0}
      BY <3>1
    <3> QED
      BY <1>b, <3>2 DEF c
  <2>3. CASE u = "LOAD"
    <3>1. s \in 1..2
      BY <2>3, UnitTable
    <3>2. c \in {2 + board.cacheMiss, 3 - s} \cup 1..(1 + board.cacheMiss)
      BY <2>1, <2>3 DEF TimeIn
    <3>3. c \in Nat \ {0}
      BY <1>3, <3>1, <3>2
    <3> QED
      BY <1>b, <3>3 DEF c
  <2>4. CASE u = "ALU"
    <3>1. c \in Nat \ {0}
      BY <2>1, <2>4 DEF TimeIn
    <3> QED
      BY <1>b, <3>1 DEF c
  <2>5. CASE u = "DIV"
    <3>1. c \in 1..8
      BY <2>1, <2>5 DEF TimeIn
    <3>2. c \in Nat \ {0}
      BY <3>1
    <3> QED
      BY <1>b, <3>2 DEF c
  <2> QED
    BY <2>2, <2>3, <2>4, <2>5, UnitTable
\* A pipeline moves on.
<1>6. ASSUME u # "DIV", u = "LOAD" => ~LoadIsStuck
      PROVE  /\ Advancing(u) = InUnit(u)
             /\ Finishing(u) = {p[n]} \ {0}
             /\ StagesAfter(u) = <<0>> \o Front(p)
  BY <1>4, <1>6, UnitTable DEF Advancing, Finishing, StagesAfter
<1>7. ASSUME u # "DIV", u = "LOAD" => ~LoadIsStuck, NEW s \in 1..n, p[s] # 0
      PROVE  /\ s = n => cyclesLeft[p[s]] = 1
             /\ s # n => s + 1 \in 1..n /\ TimeIn(u, s + 1, p[s], cyclesLeft[p[s]] - 1)
  <2> DEFINE c == cyclesLeft[p[s]]
  <2>1. TimeIn(u, s, p[s], c)
    BY <1>7, <1>0
  <2>2. u = "LOAD" /\ s = n /\ isCacheMiss(p[s]) => ~(c > 1)
    BY <1>4, <1>7 DEF LoadIsStuck
  <2> HIDE DEF c
  <2>3. CASE u = "ALU"
    BY <2>1, <2>3, UnitTable DEF TimeIn, c
  <2>4. CASE u = "MUL"
    <3>1. c = 5 - s /\ s \in 1..4 /\ n = 4
      BY <2>1, <2>4, UnitTable DEF TimeIn
    <3>2. s # n => s + 1 \in 1..4 /\ c - 1 = 5 - (s + 1)
      BY <3>1
    <3>3. s = n => c = 1
      BY <3>1
    <3> QED
      BY <2>4, <3>1, <3>2, <3>3 DEF TimeIn, c
  <2>5. CASE u = "LOAD"
    <3>1. s \in 1..2 /\ n = 2
      BY <2>5, UnitTable
    <3>2. CASE s = 2
      <4>1. c = 1
        BY <1>3, <2>1, <2>2, <2>5, <3>1, <3>2 DEF TimeIn
      <4> QED
        BY <3>1, <3>2, <4>1 DEF c
    <3>3. CASE s = 1
      <4>1. c = 2 + IF isCacheMiss(p[s]) THEN board.cacheMiss ELSE 0
        BY <2>1, <2>5, <3>3 DEF TimeIn
      <4>2. IF isCacheMiss(p[s]) THEN c - 1 \in 1..(1 + board.cacheMiss) ELSE c - 1 = 3 - (s + 1)
        BY <1>3, <3>3, <4>1
      <4>3. TimeIn(u, s + 1, p[s], c - 1)
        BY <2>5, <3>3, <4>2 DEF TimeIn
      <4> QED
        BY <3>1, <3>3, <4>3 DEF c
    <3> QED
      BY <3>1, <3>2, <3>3
  <2> QED
    BY <1>7, <2>3, <2>4, <2>5, UnitTable
<1>8. ASSUME u # "DIV", u = "LOAD" => ~LoadIsStuck
      PROVE  /\ \A i \in Finishing(u) : cyclesLeft[i] = 1
             /\ StagesHold(u, q, remaining)
             /\ \A i : (i # 0 /\ \E s \in 1..n : q[s] = i) <=> i \in InUnit(u) \ Finishing(u)
  <2> DEFINE S == Instructions \cup {0}
  <2>1. q \in [1..n -> S] /\ q[1] = 0 /\ \A s \in 2..n : q[s] = p[s - 1]
    <3>1. 0 \in S /\ p \in [1..n -> S]
      BY <1>0
    <3>2. q = <<0>> \o Front(p)
      BY <1>6, <1>8
    <3>3. n \in Nat /\ n # 0
      BY <1>2
    <3> DEFINE g == <<0>> \o Front(p)
    <3> HIDE DEF S, q, n, p
    <3>4. g \in [1..n -> S] /\ g[1] = 0 /\ \A s \in 2..n : g[s] = p[s - 1]
      BY <3>1, <3>3, Shifted
    <3> HIDE DEF g
    <3> QED
      BY <3>2, <3>4 DEF g
  <2>2. \A i \in Finishing(u) : cyclesLeft[i] = 1
    BY <1>2, <1>6, <1>7, <1>8
  <2> HIDE DEF q, p, n
  <2>3. ASSUME NEW s \in 1..n, q[s] # 0
        PROVE  /\ s - 1 \in 1..n /\ s - 1 # n /\ q[s] = p[s - 1] /\ s \in 2..n
               /\ remaining[q[s]] = cyclesLeft[q[s]] - 1
               /\ TimeIn(u, s, q[s], remaining[q[s]])
    <3>1. s \in 2..n
      BY <2>1, <2>3
    <3>2. s - 1 \in 1..n /\ s - 1 # n /\ (s - 1) + 1 = s /\ q[s] = p[s - 1]
      BY <1>2, <2>1, <3>1
    <3>3. q[s] \in InUnit(u)
      BY <1>b, <2>3, <3>2
    <3>4. remaining[q[s]] = cyclesLeft[q[s]] - 1
      BY <1>6, <1>8, <3>3
    <3>5. TimeIn(u, (s - 1) + 1, p[s - 1], cyclesLeft[p[s - 1]] - 1)
      BY <1>7, <1>8, <2>3, <3>2
    <3> QED
      BY <3>1, <3>2, <3>4, <3>5
  <2>4. ASSUME NEW s \in 1..n, q[s] # 0, NEW t \in 1..n, q[t] = q[s] PROVE t = s
    <3>1. s - 1 \in 1..n /\ t - 1 \in 1..n /\ p[s - 1] = q[s] /\ p[t - 1] = q[s]
      BY <2>3, <2>4
    <3>2. t - 1 = s - 1
      BY <1>0, <2>4, <3>1
    <3> QED
      BY <3>2
  <2>5. StagesHold(u, q, remaining)
    BY <2>1, <2>3, <2>4 DEF StagesHold, n
  <2>6. ASSUME NEW i, i # 0, NEW s \in 1..n, q[s] = i PROVE i \in InUnit(u) \ Finishing(u)
    <3>1. s - 1 \in 1..n /\ s - 1 # n /\ i = p[s - 1]
      BY <2>3, <2>6
    <3>2. i \in InUnit(u)
      BY <1>b, <2>6, <3>1
    <3>3. i # p[n]
      BY <1>0, <1>2, <2>6, <3>1
    <3> QED
      BY <1>6, <1>8, <3>2, <3>3
  <2>7. ASSUME NEW i \in InUnit(u) \ Finishing(u) PROVE i # 0 /\ \E s \in 1..n : q[s] = i
    <3>1. PICK s \in 1..n : p[s] = i /\ i # 0
      BY <1>a
    <3>2. s # n
      BY <1>6, <1>8, <2>7, <3>1
    <3>3. s + 1 \in 2..n /\ s + 1 \in 1..n /\ (s + 1) - 1 = s
      BY <1>2, <3>2
    <3>4. q[s + 1] = p[(s + 1) - 1]
      BY <2>1, <3>3
    <3> QED
      BY <3>1, <3>3, <3>4
  <2> QED
    BY <2>2, <2>5, <2>6, <2>7
\* A division that is not over, or a load that waits for its data.
<1>9. ASSUME q = p, Finishing(u) = {}, Advancing(u) \subseteq InUnit(u),
             \A i \in Advancing(u) : /\ cyclesLeft[i] > 1
                                     /\ u = "DIV" \/ (u = "LOAD" /\ p[2] = i /\ isCacheMiss(i))
      PROVE  /\ StagesHold(u, q, remaining)
             /\ \A i : (i # 0 /\ \E s \in 1..n : q[s] = i) <=> i \in InUnit(u) \ Finishing(u)
  <2>1. ASSUME NEW s \in 1..n, p[s] # 0 PROVE TimeIn(u, s, p[s], remaining[p[s]])
    <3> DEFINE c == cyclesLeft[p[s]]
               d == remaining[p[s]]
    <3>1. TimeIn(u, s, p[s], c) /\ p[s] \in InUnit(u) /\ c \in Nat
      BY <1>0, <1>b, <1>5, <2>1
    <3>2. CASE p[s] \notin Advancing(u)
      <4>1. d = c
        BY <3>1, <3>2
      <4> QED
        BY <3>1, <4>1
    <3>3. CASE p[s] \in Advancing(u)
      <4>1. d = c - 1 /\ c > 1
        BY <1>9, <3>1, <3>3
      <4> HIDE DEF c, d
      <4>2. CASE u = "DIV"
        <5>1. c \in 1..8
          BY <3>1, <4>2 DEF TimeIn
        <5>2. d \in 1..8
          BY <4>1, <5>1
        <5> QED
          BY <4>2, <5>2 DEF TimeIn, d
      <4>3. CASE u = "LOAD" /\ p[2] = p[s] /\ isCacheMiss(p[s])
        <5>1. s = 2
          BY <1>0, <2>1, <4>3, UnitTable
        <5>2. c \in 1..(1 + board.cacheMiss)
          BY <3>1, <4>3, <5>1 DEF TimeIn
        <5>3. d \in 1..(1 + board.cacheMiss)
          BY <1>3, <4>1, <5>2
        <5> QED
          BY <4>3, <5>1, <5>3 DEF TimeIn, d
      <4> QED
        BY <1>9, <3>3, <4>2, <4>3
    <3> QED
      BY <3>2, <3>3
  <2>2. StagesHold(u, q, remaining)
    BY <1>0, <1>9, <2>1 DEF StagesHold
  <2> HIDE DEF q, p, n
  <2>3. \A i : (i # 0 /\ \E s \in 1..n : q[s] = i) <=> i \in InUnit(u) \ Finishing(u)
    BY <1>9, <1>a, <1>b
  <2> QED
    BY <2>2, <2>3
<1>c. /\ InUnit(u) = {p[s] : s \in 1..n} \ {0}
      /\ InUnit(u) \subseteq Instructions
      /\ \A i \in InUnit(u) : cyclesLeft[i] \in Nat \ {0}
  BY <1>1, <1>5
<1> DEFINE Moved == /\ Finishing(u) \subseteq Advancing(u)
                    /\ Advancing(u) \subseteq InUnit(u)
                    /\ InUnit(u) # {} => Advancing(u) # {}
                    /\ \A i \in Finishing(u) : cyclesLeft[i] = 1
                    /\ StagesHold(u, q, remaining)
                    /\ \A i : (i # 0 /\ \E s \in 1..n : q[s] = i) <=> i \in InUnit(u) \ Finishing(u)
<1>10. ASSUME u # "DIV", u = "LOAD" => ~LoadIsStuck PROVE Moved
  <2>1. Advancing(u) = InUnit(u) /\ Finishing(u) = {p[n]} \ {0}
    BY <1>6, <1>10
  <2>2. /\ \A i \in Finishing(u) : cyclesLeft[i] = 1
        /\ StagesHold(u, q, remaining)
        /\ \A i : (i # 0 /\ \E s \in 1..n : q[s] = i) <=> i \in InUnit(u) \ Finishing(u)
    BY <1>8, <1>10
  <2>3. Finishing(u) \subseteq InUnit(u)
    BY <1>2, <1>b, <2>1
  <2> HIDE DEF q, p, n
  <2> QED
    BY <2>1, <2>2, <2>3
<1>11. ASSUME u = "LOAD", LoadIsStuck PROVE Moved
  <2>1. n = 2 /\ p[2] # 0 /\ isCacheMiss(p[2]) /\ cyclesLeft[p[2]] > 1
    BY <1>4, <1>11, UnitTable DEF LoadIsStuck
  <2>2. Advancing(u) = {p[2]} /\ Finishing(u) = {} /\ q = p
    BY <1>4, <1>11, <2>1, UnitTable DEF Advancing, Finishing, StagesAfter
  <2>3. p[2] \in InUnit(u)
    BY <1>2, <1>b, <2>1
  <2>4. /\ StagesHold(u, q, remaining)
        /\ \A i : (i # 0 /\ \E s \in 1..n : q[s] = i) <=> i \in InUnit(u) \ Finishing(u)
    BY <1>9, <1>11, <2>1, <2>2, <2>3
  <2> HIDE DEF q, p, n
  <2> QED
    BY <2>2, <2>3, <2>4
<1>12. ASSUME u = "DIV", Finishing(u) = {} PROVE Moved
  <2>1. Advancing(u) = InUnit(u) /\ q = p
    BY <1>12 DEF Advancing, StagesAfter
  <2>2. ASSUME NEW i \in InUnit(u) PROVE cyclesLeft[i] > 1
    <3>1. cyclesLeft[i] # 1
      BY <1>12, <2>2 DEF Finishing
    <3> QED
      BY <1>5, <3>1
  <2>3. /\ StagesHold(u, q, remaining)
        /\ \A i : (i # 0 /\ \E s \in 1..n : q[s] = i) <=> i \in InUnit(u) \ Finishing(u)
    BY <1>9, <1>12, <2>1, <2>2
  <2> HIDE DEF q, p, n
  <2> QED
    BY <1>12, <2>1, <2>3
<1>13. ASSUME u = "DIV", Finishing(u) # {} PROVE Moved
  <2>1. Advancing(u) = InUnit(u) /\ q = <<0>> /\ n = 1 /\ Finishing(u) = {i \in InUnit(u) : cyclesLeft[i] = 1}
    BY <1>13, UnitTable DEF Advancing, StagesAfter, Finishing
  <2>2. InUnit(u) = {p[1]} \ {0}
    BY <1>1, <2>1
  <2>3. Finishing(u) = InUnit(u)
    BY <1>13, <2>1, <2>2
  <2>4. StagesHold(u, q, remaining)
    BY <2>1 DEF StagesHold
  <2>5. \A s \in 1..n : q[s] = 0
    BY <2>1
  <2>6. \A i \in Finishing(u) : cyclesLeft[i] = 1
    BY <2>1
  <2>7. \A i : (i # 0 /\ \E s \in 1..n : q[s] = i) <=> i \in InUnit(u) \ Finishing(u)
    BY <2>3, <2>5
  <2> HIDE DEF q, p, n
  <2> QED
    BY <2>1, <2>3, <2>4, <2>6, <2>7
<1>14. Moved
  <2> HIDE DEF Moved
  <2> QED
    BY <1>10, <1>11, <1>12, <1>13, UnitTable
<1> QED
  BY <1>c, <1>14

\* What a step that keeps the program says of it before, it says after.
LEMMA SameProgram ==
    ASSUME board' = board
    PROVE  /\ Instructions' = Instructions /\ Registers' = Registers
           /\ \A i : isSupported(i)' <=> isSupported(i)
           /\ \A i : getUnitByInstruction(i)' = getUnitByInstruction(i)
           /\ \A i : getDestination(i)' = getDestination(i)
           /\ \A i : Sources(i)' = Sources(i)
           /\ \A i : Alone(i)' = Alone(i)
           /\ \A i, r : Producer(i, r)' = Producer(i, r)
           /\ Altogether' = Altogether
           /\ \A u, p, r : StagesHold(u, p, r)' <=> StagesHold(u, p, r)
<1>1. Instructions' = Instructions /\ Registers' = Registers
  BY DEF Instructions, Registers
<1>2. \A i : operation(i)' = operation(i)
  BY DEF operation
<1>3. \A i : isSupported(i)' <=> isSupported(i)
  BY <1>2 DEF isSupported
<1>4. \A i : getUnitByInstruction(i)' = getUnitByInstruction(i)
  BY <1>2 DEF getUnitByInstruction
<1>5. \A i : getDestination(i)' = getDestination(i) /\ Sources(i)' = Sources(i)
  BY <1>2 DEF getDestination, Sources
<1>6. \A i : Alone(i)' = Alone(i)
  BY <1>3, <1>4 DEF Alone
<1>7. \A i, r : Producer(i, r)' = Producer(i, r)
  BY <1>1, <1>5 DEF Producer
<1>8. Altogether' = Altogether
  BY <1>1, <1>6 DEF Altogether
<1>9. \A i : isCacheMiss(i)' <=> isCacheMiss(i)
  BY <1>2 DEF isCacheMiss
<1>10. \A u, s, i, c : TimeIn(u, s, i, c)' <=> TimeIn(u, s, i, c)
  BY <1>9 DEF TimeIn
<1>11. \A u, p, r : StagesHold(u, p, r)' <=> StagesHold(u, p, r)
  BY <1>1, <1>10 DEF StagesHold
<1> QED
  BY <1>1, <1>3, <1>4, <1>5, <1>6, <1>7, <1>8, <1>11

LEMMA AheadTyped ==
    ASSUME BoardTypeOK
    PROVE  /\ \A i \in Instructions : Ahead(i) \in Nat /\ Alone(i) \in Nat
           /\ \A i \in Instructions : isSupported(i) => Alone(i) >= 3
<1>1. board.cacheMiss \in Nat
  BY Program DEF BoardTypeOK
<1>2. ASSUME NEW i \in Instructions PROVE Alone(i) \in Nat /\ (isSupported(i) => Alone(i) >= 3)
  <2>1. CASE isSupported(i)
    <3>1. Latency[getUnitByInstruction(i)] \in 1..8
      BY <2>1, UnitOf, UnitTable
    <3>2. Alone(i) = Latency[getUnitByInstruction(i)] + board.cacheMiss + 2
      BY <2>1 DEF Alone
    <3> DEFINE l == Latency[getUnitByInstruction(i)]
    <3> HIDE DEF l
    <3> QED
      BY <1>1, <3>1, <3>2 DEF l
  <2>2. CASE ~isSupported(i)
    BY <2>2 DEF Alone
  <2> QED
    BY <2>1, <2>2
<1>3. ASSUME NEW i \in Instructions PROVE Ahead(i) \in Nat
  <2>1. status[i] \in {"Waiting", "Dispatched", "Issued", "Completed"} /\ cyclesLeft[i] \in Nat
    BY <1>3 DEF BoardTypeOK
  <2>2. isSupported(i) => Alone(i) - 1 \in Nat
    BY <1>2, <1>3
  <2> QED
    BY <1>2, <1>3, <2>1, <2>2 DEF Ahead
<1> QED
  BY <1>2, <1>3

\* The cycles that are ahead, when no instruction gets more of them.
LEMMA CyclesFall ==
    ASSUME BoardTypeOK, BoardTypeOK', board' = board, NEW j \in Nat,
           \A i \in Instructions : Ahead(i)' <= Ahead(i),
           j \in Instructions => Ahead(j)' < Ahead(j)
    PROVE  /\ AllAhead \in Nat /\ AllAhead' \in Nat /\ Altogether \in Nat /\ Altogether' = Altogether
           /\ AllAhead' <= AllAhead
           /\ j \in Instructions => AllAhead' + 1 <= AllAhead
<1> DEFINE n == Len(board.instructions)
           a == [i \in Instructions |-> Ahead(i)]
           b == [i \in Instructions |-> Ahead(i)']
           c == [i \in Instructions |-> Alone(i)]
<1>1. n \in Nat /\ Instructions = 1..n
  BY Program DEF BoardTypeOK
<1>2. Instructions' = Instructions /\ Altogether' = Altogether
  BY SameProgram
<1>3. a \in [1..n -> Nat] /\ c \in [1..n -> Nat]
  BY <1>1, AheadTyped
<1>4. ASSUME NEW i \in Instructions PROVE Ahead(i)' \in Nat
  <2>1. status'[i] \in {"Waiting", "Dispatched", "Issued", "Completed"} /\ cyclesLeft'[i] \in Nat
    BY <1>2, <1>4 DEF BoardTypeOK
  <2>2. Alone(i)' \in Nat /\ (isSupported(i)' => Alone(i)' - 1 \in Nat)
    BY <1>4, SameProgram, AheadTyped
  <2> QED
    BY <2>1, <2>2 DEF Ahead
<1>5. b \in [1..n -> Nat]
  BY <1>1, <1>4
<1>6. \A k \in 1..n : b[k] <= a[k]
  BY <1>1
<1>7. j \in 1..n => b[j] < a[j]
  BY <1>1
<1>8. AllAhead = SumTo(a, n) /\ Altogether = SumTo(c, n)
  BY DEF AllAhead, Altogether
<1>9. AllAhead' = SumTo(b, n)
  BY <1>2 DEF AllAhead
<1> HIDE DEF a, b, c, n
<1>10. /\ SumTo(b, n) \in Nat /\ SumTo(a, n) \in Nat /\ SumTo(b, n) <= SumTo(a, n)
       /\ j \in 1..n => SumTo(b, n) + 1 <= SumTo(a, n)
  BY <1>1, <1>3, <1>5, <1>6, <1>7, SmallerSum
<1>11. SumTo(c, n) \in Nat
  <2>1. \A k \in 1..n : c[k] <= c[k]
    BY <1>1, <1>3
  <2>2. n + 1 \in Nat /\ n + 1 \notin 1..n
    BY <1>1
  <2> QED
    BY <1>1, <1>3, <2>1, <2>2, SmallerSum
<1> QED
  BY <1>1, <1>2, <1>8, <1>9, <1>10, <1>11

LEMMA SumsTyped ==
    ASSUME BoardTypeOK
    PROVE  AllAhead \in Nat /\ Altogether \in Nat
<1> DEFINE n == Len(board.instructions)
           a == [i \in Instructions |-> Ahead(i)]
           c == [i \in Instructions |-> Alone(i)]
<1>1. n \in Nat /\ Instructions = 1..n
  BY Program DEF BoardTypeOK
<1>2. a \in [1..n -> Nat] /\ c \in [1..n -> Nat]
  BY <1>1, AheadTyped
<1>3. AllAhead = SumTo(a, n) /\ Altogether = SumTo(c, n)
  BY DEF AllAhead, Altogether
<1> HIDE DEF a, c, n
<1>4. n + 1 \in Nat /\ n + 1 \notin 1..n
  BY <1>1
<1>5. (\A k \in 1..n : a[k] <= a[k]) /\ (\A k \in 1..n : c[k] <= c[k])
  BY <1>2
<1>6. SumTo(a, n) \in Nat /\ SumTo(c, n) \in Nat
  BY <1>1, <1>2, <1>4, <1>5, SmallerSum
<1> QED
  BY <1>3, <1>6

\* What is in the units advances, if there is anything, and passes the tests
\* of the program.
LEMMA UnitsAdvance ==
    ASSUME BoardTypeOK, UnitsHold, BusyIsRight
    PROVE  /\ AllFinishing \subseteq AllAdvancing
           /\ AllAdvancing \subseteq InFlight
           /\ InFlight # {} => AllAdvancing # {}
           /\ \A i \in InFlight : cyclesLeft[i] \in Nat \ {0}
           /\ \A u \in Units : \A i \in InUnit(u) :
                /\ i \in InFlight
                /\ i \in AllAdvancing <=> i \in Advancing(u)
                /\ i \in AllFinishing <=> i \in Finishing(u)
           /\ ~ClockFails
<1>1. board \in Boards
  BY DEF BoardTypeOK
<1>2. ASSUME NEW u \in Units
      PROVE  /\ InUnit(u) \subseteq InFlight
             /\ \A i \in InUnit(u) : cyclesLeft[i] \in Nat \ {0} /\ getUnitByInstruction(i) = u
             /\ Finishing(u) \subseteq Advancing(u)
             /\ Advancing(u) \subseteq InUnit(u)
             /\ InUnit(u) # {} => Advancing(u) # {}
             /\ \A i \in Finishing(u) : cyclesLeft[i] = 1
  <2> DEFINE r == [i \in InUnit(u) |-> cyclesLeft[i] - IF i \in Advancing(u) THEN 1 ELSE 0]
  <2>1. \A i \in InUnit(u) : r[i] = cyclesLeft[i] - IF i \in Advancing(u) THEN 1 ELSE 0
    OBVIOUS
  <2>2. StagesHold(u, processingInst[u], cyclesLeft)
    BY <1>2 DEF UnitsHold
  <2> HIDE DEF r
  <2>3. /\ InUnit(u) \subseteq Instructions
        /\ \A i \in InUnit(u) : cyclesLeft[i] \in Nat \ {0}
        /\ Finishing(u) \subseteq Advancing(u)
        /\ Advancing(u) \subseteq InUnit(u)
        /\ InUnit(u) # {} => Advancing(u) # {}
        /\ \A i \in Finishing(u) : cyclesLeft[i] = 1
    BY <1>1, <1>2, <2>1, <2>2, UnitClock
  <2>4. \A i \in InUnit(u) : status[i] = "Issued" /\ getUnitByInstruction(i) = u
    BY <1>2 DEF UnitsHold
  <2> QED
    BY <2>3, <2>4 DEF InFlight
<1>3. ASSUME NEW i \in InFlight
      PROVE  getUnitByInstruction(i) \in Units /\ i \in InUnit(getUnitByInstruction(i))
  BY <1>3, UnitOf DEF UnitsHold
<1>4. AllFinishing \subseteq AllAdvancing /\ AllAdvancing \subseteq InFlight
  BY <1>2 DEF AllFinishing, AllAdvancing
<1>5. InFlight # {} => AllAdvancing # {}
  BY <1>2, <1>3 DEF AllAdvancing
<1>6. \A i \in InFlight : cyclesLeft[i] \in Nat \ {0}
  BY <1>2, <1>3
<1>7. ASSUME NEW u \in Units, NEW i \in InUnit(u)
      PROVE  /\ i \in AllAdvancing <=> i \in Advancing(u)
             /\ i \in AllFinishing <=> i \in Finishing(u)
             /\ i \in InFlight
  <2>1. \A v \in Units : i \in Advancing(v) => v = u
    BY <1>2, <1>7
  <2>2. \A v \in Units : i \in Finishing(v) => v = u
    BY <1>2, <1>7
  <2>3. i \in AllAdvancing <=> i \in Advancing(u)
    BY <1>7, <2>1 DEF AllAdvancing
  <2>4. i \in AllFinishing <=> i \in Finishing(u)
    BY <1>7, <2>2 DEF AllFinishing
  <2> QED
    BY <1>2, <1>7, <2>3, <2>4
<1>8. \A i \in AllFinishing : cyclesLeft[i] = 1
  BY <1>2 DEF AllFinishing
<1>9. ~ClockFails
  <2>1. ~ \E i \in AllAdvancing : cyclesLeft[i] = 0
    BY <1>4, <1>6
  <2>2. ~ \E i \in AllFinishing : cyclesLeft[i] # 1 \/ getDestination(i) \notin busy
    BY <1>4, <1>8 DEF BusyIsRight
  <2>3. ~ \E i, j \in AllFinishing : i # j /\ getDestination(i) = getDestination(j)
    BY <1>4 DEF BusyIsRight
  <2> QED
    BY <2>1, <2>2, <2>3 DEF ClockFails
<1> QED
  BY <1>4, <1>5, <1>6, <1>7, <1>9

\* A cycle of all units.
LEMMA ClockEffect ==
    ASSUME BoardTypeOK, UnitsHold, BusyIsRight, TakenInOrder, advanceClock
    PROVE  /\ scorePc = "clock" /\ scorePc' = "issue" /\ ~isCompleted
           /\ board' = board /\ cycle' = cycle /\ queue' = queue /\ producers' = producers
           /\ status' \in [Instructions -> {"Waiting", "Dispatched", "Issued", "Completed"}]
           /\ \A i \in Instructions : IF i \in AllFinishing THEN status[i] = "Issued" /\ status'[i] = "Completed"
                                                            ELSE status'[i] = status[i]
           /\ cyclesLeft' \in [Instructions -> Nat]
           /\ \A i \in AllAdvancing : i \in InFlight /\ cyclesLeft'[i] < cyclesLeft[i]
           /\ \A i \in Instructions \ AllAdvancing : cyclesLeft'[i] = cyclesLeft[i]
           /\ AllFinishing \subseteq AllAdvancing /\ (InFlight # {} => AllAdvancing # {})
           /\ UnitsHold' /\ BusyIsRight' /\ DOMAIN processingInst' = Units
           /\ writer' \in [Registers -> Nat]
           /\ \A r \in Registers : \/ /\ writer'[r] = writer[r]
                                      /\ \A i \in AllFinishing : getDestination(i) # r
                                   \/ writer'[r] \in AllFinishing /\ getDestination(writer'[r]) = r
<1>1. /\ AllFinishing \subseteq AllAdvancing
      /\ AllAdvancing \subseteq InFlight
      /\ InFlight # {} => AllAdvancing # {}
      /\ \A i \in InFlight : cyclesLeft[i] \in Nat \ {0}
      /\ \A u \in Units : \A i \in InUnit(u) :
           /\ i \in InFlight
           /\ i \in AllAdvancing <=> i \in Advancing(u)
           /\ i \in AllFinishing <=> i \in Finishing(u)
      /\ ~ClockFails
  BY UnitsAdvance
<1>2. /\ scorePc = "clock" /\ scorePc' = "issue" /\ ~isCompleted
      /\ board' = board /\ cycle' = cycle /\ queue' = queue /\ producers' = producers
      /\ cyclesLeft' = [i \in Instructions |-> cyclesLeft[i] - (IF i \in AllAdvancing THEN 1 ELSE 0)]
      /\ status' = [i \in Instructions |-> IF i \in AllFinishing THEN "Completed" ELSE status[i]]
      /\ processingInst' = [u \in Units |-> StagesAfter(u)]
      /\ busy' = busy \ {getDestination(i) : i \in AllFinishing}
      /\ writer' = [r \in DOMAIN writer |->
                      LET new == {i \in AllFinishing : getDestination(i) = r}
                      IN  IF new = {} THEN writer[r] ELSE Max(new)]
  BY <1>1 DEF advanceClock
<1>3. board \in Boards
  BY DEF BoardTypeOK
<1>4. InFlight \subseteq Instructions /\ \A i \in InFlight : status[i] = "Issued"
  BY DEF InFlight
<1>5. /\ status' \in [Instructions -> {"Waiting", "Dispatched", "Issued", "Completed"}]
      /\ \A i \in Instructions : IF i \in AllFinishing THEN status[i] = "Issued" /\ status'[i] = "Completed"
                                                       ELSE status'[i] = status[i]
  BY <1>1, <1>2, <1>4 DEF BoardTypeOK
<1>6. \A i \in Instructions : cyclesLeft'[i] = cyclesLeft[i] - (IF i \in AllAdvancing THEN 1 ELSE 0)
  BY <1>2
<1>7. /\ \A i \in AllAdvancing : i \in InFlight /\ cyclesLeft'[i] < cyclesLeft[i] /\ cyclesLeft'[i] \in Nat
      /\ \A i \in Instructions \ AllAdvancing : cyclesLeft'[i] = cyclesLeft[i]
  BY <1>1, <1>4, <1>6 DEF BoardTypeOK
<1>8. cyclesLeft' \in [Instructions -> Nat]
  BY <1>2, <1>7 DEF BoardTypeOK
<1>9. /\ Instructions' = Instructions
      /\ \A i : isSupported(i)' <=> isSupported(i)
      /\ \A i : getUnitByInstruction(i)' = getUnitByInstruction(i)
      /\ \A i : getDestination(i)' = getDestination(i)
      /\ \A u, p, r : StagesHold(u, p, r)' <=> StagesHold(u, p, r)
  BY <1>2, SameProgram
<1>10. InFlight' = InFlight \ AllFinishing
  BY <1>5, <1>9 DEF InFlight
<1>11. ASSUME NEW u \in Units
       PROVE  /\ StagesHold(u, processingInst'[u], cyclesLeft')
              /\ InUnit(u)' = InUnit(u) \ Finishing(u)
  <2>1. StagesHold(u, processingInst[u], cyclesLeft)
    BY <1>11 DEF UnitsHold
  <2>2. \A i \in InUnit(u) : i \in Instructions
    BY <1>1, <1>4, <1>11
  <2>3. \A i \in InUnit(u) : cyclesLeft'[i] = cyclesLeft[i] - IF i \in Advancing(u) THEN 1 ELSE 0
    BY <1>1, <1>6, <1>11, <2>2
  <2>4. /\ StagesHold(u, StagesAfter(u), cyclesLeft')
        /\ \A i : (i # 0 /\ \E s \in 1..Stages(u) : StagesAfter(u)[s] = i)
                  <=> i \in InUnit(u) \ Finishing(u)
    BY <1>3, <1>11, <2>1, <2>3, UnitClock
  <2>5. processingInst'[u] = StagesAfter(u)
    BY <1>2, <1>11
  <2>6. DOMAIN StagesAfter(u) = 1..Stages(u)
    BY <2>4 DEF StagesHold
  <2>7. InUnit(u)' = {i \in ToSet(StagesAfter(u)) : i # 0}
    BY <2>5 DEF InUnit
  <2>8. \A i : i \in ToSet(StagesAfter(u)) <=> \E s \in 1..Stages(u) : StagesAfter(u)[s] = i
    BY <2>6 DEF ToSet
  <2>9. InUnit(u)' = InUnit(u) \ Finishing(u)
    BY <2>4, <2>7, <2>8
  <2> QED
    BY <2>4, <2>5, <2>9
<1>12. UnitsHold'
  <2>1. \A u \in Units : StagesHold(u, processingInst[u], cyclesLeft)'
    BY <1>9, <1>11
  <2>2. ASSUME NEW u \in Units, NEW i \in InUnit(u)'
        PROVE  (status[i] = "Issued" /\ isSupported(i) /\ getUnitByInstruction(i) = u)'
    <3>1. i \in InUnit(u) /\ i \notin Finishing(u)
      BY <1>11, <2>2
    <3>2. status[i] = "Issued" /\ isSupported(i) /\ getUnitByInstruction(i) = u
      BY <2>2, <3>1 DEF UnitsHold
    <3>3. i \notin AllFinishing /\ i \in Instructions
      BY <1>1, <1>4, <2>2, <3>1
    <3> QED
      BY <1>5, <1>9, <3>2, <3>3
  <2>3. ASSUME NEW i \in InFlight'
        PROVE  (isSupported(i) /\ i \in InUnit(getUnitByInstruction(i)))'
    <3>1. i \in InFlight /\ i \notin AllFinishing
      BY <1>10, <2>3
    <3>0. PICK u : u = getUnitByInstruction(i)
      OBVIOUS
    <3>2. isSupported(i) /\ i \in InUnit(u) /\ u \in Units
      BY <3>0, <3>1, UnitOf DEF UnitsHold
    <3>a. i \notin Finishing(u)
      BY <1>1, <3>1, <3>2
    <3>b. InUnit(u)' = InUnit(u) \ Finishing(u)
      BY <1>11, <3>2
    <3>3. i \in InUnit(u)'
      BY <3>2, <3>a, <3>b
    <3>4. getUnitByInstruction(i)' = u /\ isSupported(i)'
      BY <1>9, <3>0, <3>2
    <3> QED
      BY <3>3, <3>4 DEF InUnit
  <2> QED
    BY <2>1, <2>2, <2>3 DEF UnitsHold
<1>13. BusyIsRight'
  <2>1. busy' = {getDestination(i) : i \in InFlight \ AllFinishing}
    BY <1>1, <1>2 DEF BusyIsRight
  <2>2. busy' = {getDestination(i)' : i \in InFlight'}
    BY <1>9, <1>10, <2>1
  <2>3. \A i, j \in InFlight' : getDestination(i)' = getDestination(j)' => i = j
    BY <1>9, <1>10 DEF BusyIsRight
  <2> QED
    BY <2>2, <2>3 DEF BusyIsRight
<1>14. ASSUME NEW r \in Registers
       PROVE  \/ /\ writer'[r] = writer[r]
                 /\ \A i \in AllFinishing : getDestination(i) # r
              \/ writer'[r] \in AllFinishing /\ getDestination(writer'[r]) = r
  <2> DEFINE new == {i \in AllFinishing : getDestination(i) = r}
  <2>1. writer'[r] = IF new = {} THEN writer[r] ELSE Max(new)
    BY <1>2, <1>14 DEF BoardTypeOK
  <2>2. CASE new = {}
    BY <2>1, <2>2
  <2>3. CASE new # {}
    <3>1. PICK i \in AllFinishing : getDestination(i) = r
      BY <2>3
    <3>2. new = {i}
      BY <1>1, <3>1 DEF BusyIsRight
    <3>3. i \in Nat
      BY <1>1, <1>3, <1>4, <3>1, Program
    <3>4. Max({i}) = i
      BY <3>3 DEF Max
    <3> HIDE DEF new
    <3> QED
      BY <2>1, <2>3, <3>1, <3>2, <3>4
  <2> QED
    BY <2>2, <2>3
<1>15. writer' \in [Registers -> Nat]
  <2>1. \A i \in AllFinishing : i \in Nat
    BY <1>1, <1>3, <1>4, Program
  <2>2. \A r \in Registers : writer[r] \in Nat
    BY DEF BoardTypeOK
  <2>3. \A r \in Registers : writer'[r] \in Nat
    BY <1>14, <2>1, <2>2
  <2>4. writer' = [r \in Registers |-> writer'[r]]
    BY <1>2 DEF BoardTypeOK
  <2> QED
    BY <2>3, <2>4
<1>16. DOMAIN processingInst' = Units
  BY <1>2
<1> QED
  BY <1>1, <1>2, <1>5, <1>7, <1>8, <1>12, <1>13, <1>14, <1>15, <1>16

\* What the issue of an instruction does that its unit can take and that
\* no busy register holds back.
LEMMA IssueEffect ==
    ASSUME BoardTypeOK, UnitsHold, BusyIsRight, NEW i \in Instructions,
           status[i] \in {"Waiting", "Dispatched"}, isSupported(i), canIssue(i), ~isDependant(i),
           issueInstruction(i), board' = board
    PROVE  /\ scorePc' \in {"issue", "dispatch"}
           /\ status' \in [Instructions -> {"Waiting", "Dispatched", "Issued", "Completed"}]
           /\ status'[i] = "Issued" /\ \A j \in Instructions \ {i} : status'[j] = status[j]
           /\ cyclesLeft' \in [Instructions -> Nat]
           /\ cyclesLeft'[i] + 2 <= Alone(i) /\ \A j \in Instructions \ {i} : cyclesLeft'[j] = cyclesLeft[j]
           /\ DOMAIN producers' = Instructions
           /\ producers'[i] = [r \in Sources(i) |-> writer[r]]
           /\ \A j \in Instructions \ {i} : producers'[j] = producers[j]
           /\ \A r \in Sources(i) \cup {getDestination(i)}, j \in InFlight : getDestination(j) # r
           /\ DOMAIN processingInst' = Units
           /\ UnitsHold' /\ BusyIsRight'
<1>1. PICK u : u = getUnitByInstruction(i)
  OBVIOUS
<1>2. PICK c : c = Latency[u] + IF isCacheMiss(i) THEN board.cacheMiss ELSE 0
  OBVIOUS
<1>3. /\ status' = [status EXCEPT ![i] = "Issued"]
      /\ cyclesLeft' = [cyclesLeft EXCEPT ![i] = c]
      /\ processingInst' = [processingInst EXCEPT ![u][1] = i]
      /\ busy' = busy \cup {getDestination(i)}
      /\ producers' = [producers EXCEPT ![i] = [r \in Sources(i) |-> writer[r]]]
      /\ scorePc' \in {"issue", "dispatch"}
  BY <1>1, <1>2 DEF issueInstruction
<1>4. /\ u \in Units /\ (isCacheMiss(i) => u = "LOAD")
      /\ processingInst[u][1] = 0
  BY <1>1, UnitOf DEF canIssue
<1>5. /\ board \in Boards /\ board.cacheMiss \in Nat /\ i \in Nat /\ i # 0
      /\ 0 \notin Instructions
  BY Program DEF BoardTypeOK
<1>6. c \in Nat /\ c + 2 <= Alone(i)
  <2>1. Latency[u] \in Nat
    BY <1>4, UnitTable
  <2>2. Alone(i) = Latency[u] + board.cacheMiss + 2
    BY <1>1 DEF Alone
  <2> DEFINE l == Latency[u]
  <2> HIDE DEF l
  <2> QED
    BY <1>2, <1>5, <2>1, <2>2 DEF l
<1>7. TimeIn(u, 1, i, c)
  <2>1. CASE isCacheMiss(i)
    BY <1>2, <1>4, <1>5, <2>1, UnitTable DEF TimeIn
  <2>2. CASE ~isCacheMiss(i)
    <3>1. c = Latency[u]
      BY <1>2, <1>4, <2>2, UnitTable
    <3>2. CASE u = "MUL"
      BY <3>1, <3>2, UnitTable DEF TimeIn
    <3>3. CASE u = "DIV"
      BY <3>1, <3>3, UnitTable DEF TimeIn
    <3>4. CASE u = "LOAD"
      BY <2>2, <3>1, <3>4, UnitTable DEF TimeIn
    <3>5. CASE u = "ALU"
      BY <3>1, <3>5, UnitTable DEF TimeIn
    <3> QED
      BY <1>4, <3>2, <3>3, <3>4, <3>5, UnitTable
  <2> QED
    BY <2>1, <2>2
<1>8. /\ status' \in [Instructions -> {"Waiting", "Dispatched", "Issued", "Completed"}]
      /\ status'[i] = "Issued" /\ \A j \in Instructions \ {i} : status'[j] = status[j]
  BY <1>3 DEF BoardTypeOK
<1>9. /\ cyclesLeft' \in [Instructions -> Nat]
      /\ cyclesLeft'[i] = c /\ \A j \in Instructions \ {i} : cyclesLeft'[j] = cyclesLeft[j]
  BY <1>3, <1>6 DEF BoardTypeOK
<1>10. /\ DOMAIN producers' = Instructions
       /\ producers'[i] = [r \in Sources(i) |-> writer[r]]
       /\ \A j \in Instructions \ {i} : producers'[j] = producers[j]
  BY <1>3 DEF BoardTypeOK
<1>11. /\ DOMAIN processingInst' = Units
       /\ processingInst'[u] = [processingInst[u] EXCEPT ![1] = i]
       /\ \A v \in Units \ {u} : processingInst'[v] = processingInst[v]
  BY <1>3, <1>4 DEF BoardTypeOK
<1>12. \A r \in Sources(i) \cup {getDestination(i)}, j \in InFlight : getDestination(j) # r
  BY DEF isDependant, BusyIsRight
<1>13. /\ Instructions' = Instructions
       /\ \A j : isSupported(j)' <=> isSupported(j)
       /\ \A j : getUnitByInstruction(j)' = getUnitByInstruction(j)
       /\ \A j : getDestination(j)' = getDestination(j)
       /\ \A v, p, r : StagesHold(v, p, r)' <=> StagesHold(v, p, r)
  BY SameProgram
<1>14. InFlight' = InFlight \cup {i} /\ i \notin InFlight
  BY <1>8, <1>13 DEF InFlight
<1>15. BusyIsRight'
  <2>1. busy' = {getDestination(j) : j \in InFlight \cup {i}}
    BY <1>3 DEF BusyIsRight
  <2>2. busy' = {getDestination(j)' : j \in InFlight'}
    BY <1>13, <1>14, <2>1
  <2>3. \A j, k \in InFlight' : getDestination(j)' = getDestination(k)' => j = k
    BY <1>12, <1>13, <1>14 DEF BusyIsRight
  <2> QED
    BY <2>2, <2>3 DEF BusyIsRight
<1>16. ASSUME NEW v \in Units
       PROVE  /\ InUnit(v) = {processingInst[v][s] : s \in 1..Stages(v)} \ {0}
              /\ processingInst[v] \in [1..Stages(v) -> Instructions \cup {0}]
              /\ InUnit(v) \subseteq Instructions /\ i \notin InUnit(v)
  <2>1. processingInst[v] \in [1..Stages(v) -> Instructions \cup {0}]
    BY <1>16 DEF UnitsHold, StagesHold
  <2>2. InUnit(v) = {processingInst[v][s] : s \in 1..Stages(v)} \ {0}
    BY <2>1 DEF InUnit, ToSet
  <2>3. InUnit(v) \subseteq Instructions
    BY <2>1, <2>2
  <2>4. i \notin InUnit(v)
    BY <1>16 DEF UnitsHold
  <2> QED
    BY <2>1, <2>2, <2>3, <2>4
<1>17. ASSUME NEW v \in Units \ {u}
       PROVE  InUnit(v)' = InUnit(v) /\ StagesHold(v, processingInst'[v], cyclesLeft')
  <2>1. InUnit(v)' = InUnit(v)
    BY <1>11, <1>17 DEF InUnit
  <2>2. \A s \in 1..Stages(v) : processingInst[v][s] # 0 =>
             processingInst[v][s] \in Instructions \ {i}
    BY <1>16, <1>17
  <2>3. StagesHold(v, processingInst[v], cyclesLeft)
    BY <1>17 DEF UnitsHold
  <2>4. StagesHold(v, processingInst[v], cyclesLeft')
    BY <1>9, <2>2, <2>3 DEF StagesHold
  <2> QED
    BY <1>11, <1>17, <2>1, <2>4
<1>18. StagesHold(u, processingInst'[u], cyclesLeft') /\ InUnit(u)' = InUnit(u) \cup {i}
  <2>1. PICK p : p = processingInst[u]
    OBVIOUS
  <2>2. PICK q : q = processingInst'[u]
    OBVIOUS
  <2>3. 1 \in 1..Stages(u)
    BY <1>4, UnitTable
  <2>4. /\ p \in [1..Stages(u) -> Instructions \cup {0}]
        /\ InUnit(u) = {p[s] : s \in 1..Stages(u)} \ {0}
        /\ i \notin InUnit(u) /\ p[1] = 0
    BY <1>4, <1>16, <2>1
  <2>5. /\ q \in [1..Stages(u) -> Instructions \cup {0}]
        /\ q[1] = i /\ \A s \in 1..Stages(u) \ {1} : q[s] = p[s]
    BY <1>11, <2>1, <2>2, <2>3, <2>4
  <2>6. StagesHold(u, p, cyclesLeft)
    BY <1>4, <2>1 DEF UnitsHold
  <2>7. \A s \in 1..Stages(u) : p[s] # i
    BY <1>5, <2>4
  <2>8. ASSUME NEW s \in 1..Stages(u), q[s] # 0
        PROVE  /\ TimeIn(u, s, q[s], cyclesLeft'[q[s]])
               /\ \A t \in 1..Stages(u) : q[t] = q[s] => t = s
    <3>1. CASE s = 1
      BY <1>7, <1>9, <2>5, <2>7, <3>1
    <3>2. CASE s # 1
      <4>1. q[s] = p[s] /\ p[s] # i /\ p[s] \in Instructions
        BY <2>4, <2>5, <2>7, <2>8, <3>2
      <4>2. TimeIn(u, s, p[s], cyclesLeft[p[s]]) /\ \A t \in 1..Stages(u) : p[t] = p[s] => t = s
        BY <2>6, <2>8, <4>1 DEF StagesHold
      <4>3. cyclesLeft'[p[s]] = cyclesLeft[p[s]]
        BY <1>9, <4>1
      <4> QED
        BY <2>5, <4>1, <4>2, <4>3
    <3> QED
      BY <3>1, <3>2
  <2>9. StagesHold(u, q, cyclesLeft')
    BY <2>5, <2>8 DEF StagesHold
  <2>10. InUnit(u)' = {q[s] : s \in 1..Stages(u)} \ {0}
    BY <2>2, <2>5 DEF InUnit, ToSet
  <2>11. {q[s] : s \in 1..Stages(u)} \ {0} = ({p[s] : s \in 1..Stages(u)} \ {0}) \cup {i}
    BY <1>5, <2>3, <2>4, <2>5
  <2> QED
    BY <2>2, <2>4, <2>9, <2>10, <2>11
<1>19. UnitsHold'
  <2>1. \A v \in Units : StagesHold(v, processingInst[v], cyclesLeft)'
    BY <1>13, <1>17, <1>18
  <2>2. ASSUME NEW v \in Units, NEW j \in InUnit(v)'
        PROVE  (status[j] = "Issued" /\ isSupported(j) /\ getUnitByInstruction(j) = v)'
    <3>1. CASE j = i
      <4>1. v = u
        BY <1>16, <1>17, <2>2, <3>1
      <4> QED
        BY <1>1, <1>8, <1>13, <3>1, <4>1
    <3>2. CASE j # i
      <4>1. j \in InUnit(v)
        BY <1>17, <1>18, <2>2, <3>2
      <4>2. j \in Instructions
        BY <1>16, <2>2, <4>1
      <4>3. status[j] = "Issued" /\ isSupported(j) /\ getUnitByInstruction(j) = v
        BY <2>2, <4>1 DEF UnitsHold
      <4> QED
        BY <1>8, <1>13, <3>2, <4>2, <4>3
    <3> QED
      BY <3>1, <3>2
  <2>3. ASSUME NEW j \in InFlight'
        PROVE  (isSupported(j) /\ j \in InUnit(getUnitByInstruction(j)))'
    <3>1. PICK v : v = getUnitByInstruction(j)
      OBVIOUS
    <3>2. isSupported(j) /\ v \in Units /\ j \in InUnit(v)'
      <4>1. CASE j = i
        BY <1>1, <1>4, <1>18, <3>1, <4>1
      <4>2. CASE j # i
        <5>1. isSupported(j) /\ v \in Units /\ j \in InUnit(v)
          BY <1>14, <2>3, <3>1, <4>2, UnitOf DEF UnitsHold
        <5> QED
          BY <1>17, <1>18, <5>1
      <4> QED
        BY <4>1, <4>2
    <3>3. getUnitByInstruction(j)' = v /\ isSupported(j)'
      BY <1>13, <3>1, <3>2
    <3> QED
      BY <3>2, <3>3 DEF InUnit
  <2> QED
    BY <2>1, <2>2, <2>3 DEF UnitsHold
<1> QED
  BY <1>3, <1>6, <1>8, <1>9, <1>10, <1>11, <1>12, <1>15, <1>19

LEMMA ClockKeepsOrder ==
    ASSUME BoardRuns, advanceClock
    PROVE  BoardTypeOK' /\ TakenInOrder' /\ WritesInOrder' /\ QueueIsRight' /\ ReadsAreRight'
<1>1. BoardTypeOK /\ UnitsHold /\ BusyIsRight /\ TakenInOrder /\ WritesInOrder /\ QueueIsRight /\ ReadsAreRight
  BY DEF BoardRuns
<1>2. /\ scorePc' = "issue"
      /\ board' = board /\ cycle' = cycle /\ queue' = queue /\ producers' = producers
      /\ status' \in [Instructions -> {"Waiting", "Dispatched", "Issued", "Completed"}]
      /\ \A i \in Instructions : IF i \in AllFinishing THEN status[i] = "Issued" /\ status'[i] = "Completed"
                                                       ELSE status'[i] = status[i]
      /\ cyclesLeft' \in [Instructions -> Nat]
      /\ \A i \in AllAdvancing : i \in InFlight
      /\ AllFinishing \subseteq AllAdvancing
      /\ DOMAIN processingInst' = Units
      /\ writer' \in [Registers -> Nat]
      /\ \A r \in Registers : \/ /\ writer'[r] = writer[r]
                                 /\ \A i \in AllFinishing : getDestination(i) # r
                              \/ writer'[r] \in AllFinishing /\ getDestination(writer'[r]) = r
  BY <1>1, ClockEffect
<1>3. /\ Instructions' = Instructions /\ Registers' = Registers
      /\ \A i : getDestination(i)' = getDestination(i)
      /\ \A i : Sources(i)' = Sources(i)
      /\ \A i, r : Producer(i, r)' = Producer(i, r)
  BY <1>2, SameProgram
<1>4. /\ Instructions \subseteq Nat /\ AllFinishing \subseteq InFlight /\ InFlight \subseteq Instructions
      /\ \A i \in Instructions : status[i] \in {"Waiting", "Dispatched", "Issued", "Completed"}
      /\ \A i \in Instructions : status'[i] = "Waiting" <=> status[i] = "Waiting"
      /\ \A i \in Instructions : status'[i] = "Dispatched" <=> status[i] = "Dispatched"
      /\ \A i \in Instructions : status'[i] = "Issued" => status[i] = "Issued" /\ i \notin AllFinishing
      /\ \A i \in Instructions : status'[i] = "Completed" <=> status[i] = "Completed" \/ i \in AllFinishing
      /\ \A i \in AllFinishing : status[i] = "Issued" /\ status'[i] = "Completed"
  BY <1>1, <1>2, Program DEF InFlight, BoardTypeOK
<1>5. BoardTypeOK'
  BY <1>1, <1>2, <1>3 DEF BoardTypeOK
<1>6. TakenInOrder'
  <2>1. ASSUME NEW r \in Registers, writer'[r] # 0
        PROVE  writer'[r] \in Instructions /\ status'[writer'[r]] = "Completed" /\ getDestination(writer'[r]) = r
    BY <1>1, <1>2, <1>4, <2>1 DEF TakenInOrder
  <2>2. \A i, j \in Instructions : i < j /\ status'[i] = "Waiting" => status'[j] = "Waiting"
    BY <1>1, <1>4 DEF TakenInOrder
  <2> QED
    BY <1>3, <2>1, <2>2 DEF TakenInOrder
<1>7. Issued' = Issued /\ Issued \subseteq Instructions
  <2>1. \A i \in Instructions : status'[i] \in {"Issued", "Completed"} <=> status[i] \in {"Issued", "Completed"}
    BY <1>2
  <2> QED
    BY <1>3, <2>1 DEF Issued
<1>8. ReadsAreRight'
  BY <1>1, <1>2, <1>3, <1>7 DEF ReadsAreRight
<1>9. QueueIsRight'
  BY <1>1, <1>2, <1>3, <1>4, <1>7 DEF QueueIsRight
<1>10. WritesInOrder'
  <2> SUFFICES ASSUME board.orderType = "inorder" PROVE WritesInOrder'
    BY <1>2 DEF WritesInOrder
  <2>1. queue' = <<>> /\ \A i \in Instructions : status'[i] # "Dispatched"
    BY <1>1, <1>2, <1>4 DEF WritesInOrder
  <2>2. ASSUME NEW i \in Instructions, status'[i] = "Issued", NEW j \in Instructions,
               status'[j] = "Completed", getDestination(i) = getDestination(j)
        PROVE  j < i
    <3>1. i \in InFlight /\ i \notin AllFinishing
      BY <1>4, <2>2 DEF InFlight
    <3>2. j \notin AllFinishing
      BY <1>1, <1>4, <2>2, <3>1 DEF BusyIsRight
    <3>3. status[j] = "Completed"
      BY <1>4, <2>2, <3>2
    <3> QED
      BY <1>1, <2>2, <3>1, <3>3 DEF WritesInOrder
  <2>3. ASSUME NEW r \in Registers, NEW j \in Instructions, status'[j] = "Completed", getDestination(j) = r
        PROVE  j <= writer'[r]
    <3>1. CASE \E i \in AllFinishing : getDestination(i) = r
      <4>1. PICK k : k = writer'[r]
        OBVIOUS
      <4>2. k \in AllFinishing /\ getDestination(k) = r /\ k \in Nat /\ k \in InFlight
        BY <1>2, <1>4, <2>3, <3>1, <4>1
      <4>3. CASE status[j] = "Completed"
        <5>1. j < k
          BY <1>1, <2>3, <4>2, <4>3 DEF WritesInOrder
        <5> QED
          BY <1>4, <2>3, <4>1, <4>2, <5>1
      <4>4. CASE j \in AllFinishing
        <5>1. j = k
          BY <1>1, <1>4, <2>3, <4>2, <4>4 DEF BusyIsRight
        <5> QED
          BY <4>1, <4>2, <5>1
      <4> QED
        BY <1>4, <2>3, <4>3, <4>4
    <3>2. CASE ~ \E i \in AllFinishing : getDestination(i) = r
      <4>1. writer'[r] = writer[r]
        BY <1>2, <2>3, <3>2
      <4>2. status[j] = "Completed"
        BY <1>4, <2>3, <3>2
      <4> QED
        BY <1>1, <2>3, <4>1, <4>2 DEF WritesInOrder
    <3> QED
      BY <3>1, <3>2
  <2> QED
    BY <1>3, <2>1, <2>2, <2>3 DEF WritesInOrder, InFlight
<1> QED
  BY <1>5, <1>6, <1>8, <1>9, <1>10

LEMMA ClockKeepsRuns ==
    ASSUME BoardRuns, advanceClock
    PROVE  BoardRuns'
<1>1. BoardTypeOK /\ UnitsHold /\ BusyIsRight /\ TakenInOrder /\ CyclesArePaid
  BY DEF BoardRuns
<1>2. /\ scorePc = "clock" /\ scorePc' = "issue" /\ ~isCompleted
      /\ board' = board /\ cycle' = cycle
      /\ \A i \in Instructions : IF i \in AllFinishing THEN status[i] = "Issued" /\ status'[i] = "Completed"
                                                       ELSE status'[i] = status[i]
      /\ cyclesLeft' \in [Instructions -> Nat]
      /\ \A i \in AllAdvancing : i \in InFlight /\ cyclesLeft'[i] < cyclesLeft[i]
      /\ \A i \in Instructions \ AllAdvancing : cyclesLeft'[i] = cyclesLeft[i]
      /\ AllFinishing \subseteq AllAdvancing /\ (InFlight # {} => AllAdvancing # {})
      /\ UnitsHold' /\ BusyIsRight'
  BY <1>1, ClockEffect
<1>3. BoardTypeOK' /\ TakenInOrder' /\ WritesInOrder' /\ QueueIsRight' /\ ReadsAreRight'
  BY ClockKeepsOrder
<1>4. /\ Instructions' = Instructions
      /\ \A i : isSupported(i)' <=> isSupported(i)
      /\ \A i : Alone(i)' = Alone(i)
  BY <1>2, SameProgram
<1>5. /\ \A i \in Instructions : cyclesLeft[i] \in Nat /\ cyclesLeft'[i] \in Nat
      /\ \A i \in Instructions : status[i] \in {"Waiting", "Dispatched", "Issued", "Completed"}
      /\ \A i \in AllAdvancing : i \in Instructions /\ status[i] = "Issued"
      /\ \A i \in Instructions : Alone(i) \in Nat /\ Ahead(i) \in Nat
      /\ Instructions \subseteq Nat
  BY <1>1, <1>2, AheadTyped, Program DEF BoardTypeOK, InFlight
<1>6. ASSUME NEW i \in Instructions
      PROVE  Ahead(i)' <= Ahead(i) /\ (i \in AllAdvancing => Ahead(i)' < Ahead(i))
  <2>1. CASE i \in AllFinishing
    <3>1. Ahead(i)' = 0 /\ Ahead(i) = cyclesLeft[i] /\ i \in AllAdvancing
      BY <1>2, <1>6, <2>1 DEF Ahead
    <3> QED
      BY <1>2, <1>5, <1>6, <3>1
  <2>2. CASE i \in AllAdvancing \ AllFinishing
    <3>1. Ahead(i)' = cyclesLeft'[i] /\ Ahead(i) = cyclesLeft[i]
      BY <1>2, <1>5, <1>6, <2>2 DEF Ahead
    <3> QED
      BY <1>2, <1>5, <1>6, <2>2, <3>1
  <2>3. CASE i \notin AllAdvancing
    <3>1. status'[i] = status[i] /\ cyclesLeft'[i] = cyclesLeft[i]
      BY <1>2, <1>6, <2>3
    <3>2. Ahead(i)' = Ahead(i)
      BY <1>4, <3>1 DEF Ahead
    <3> QED
      BY <1>5, <1>6, <2>3, <3>2
  <2> QED
    BY <1>2, <2>1, <2>2, <2>3
<1>7. PICK j \in Nat : AllAdvancing # {} => j \in AllAdvancing
  BY <1>5
<1>8. /\ AllAhead \in Nat /\ AllAhead' \in Nat /\ Altogether \in Nat /\ Altogether' = Altogether
      /\ AllAhead' <= AllAhead
      /\ AllAdvancing # {} => AllAhead' + 1 <= AllAhead
  <2>1. CASE AllAdvancing # {}
    BY <1>1, <1>2, <1>3, <1>5, <1>6, <1>7, <2>1, CyclesFall
  <2>2. CASE AllAdvancing = {}
    <3>1. 0 \notin Instructions
      BY <1>1, Program DEF BoardTypeOK
    <3> QED
      BY <1>1, <1>2, <1>3, <1>6, <2>2, <3>1, CyclesFall
  <2> QED
    BY <2>1, <2>2
<1>9. /\ Lost' = Lost /\ Lost \in {0, 1}
  <2>1. \A i \in Instructions : status'[i] = "Dispatched" <=> status[i] = "Dispatched"
    BY <1>2
  <2> QED
    BY <1>4, <2>1 DEF Lost
<1>10. ASSUME AllAdvancing = {} PROVE InFlight' = {} /\ ~isCompleted'
  <2>1. InFlight = {} /\ \A i \in Instructions : status'[i] = status[i]
    BY <1>2, <1>10
  <2> QED
    BY <1>2, <1>4, <2>1 DEF InFlight, isCompleted
<1>11. CyclesArePaid'
  <2>1. cycle + AllAhead <= Altogether + Lost /\ cycle <= 1 + Altogether /\ cycle \in Nat
    BY <1>1, <1>2 DEF CyclesArePaid, BoardTypeOK
  <2>2. cycle' + AllAhead' <= Altogether' + Lost' /\ cycle' <= 1 + Altogether'
    BY <1>2, <1>8, <1>9, <2>1
  <2>3. CASE AllAdvancing # {}
    <3>0. \A c, x, y, t, l \in Nat : y + 1 <= x /\ c + x <= t + l => c + 1 + y <= t + l
      OBVIOUS
    <3>a. Lost \in Nat
      BY <1>9
    <3>1. cycle' + 1 + AllAhead' <= Altogether' + Lost'
      BY <1>2, <1>8, <1>9, <2>1, <2>3, <3>0, <3>a
    <3> QED
      BY <1>2, <2>2, <3>1 DEF CyclesArePaid
  <2>4. CASE AllAdvancing = {}
    BY <1>2, <1>10, <2>2, <2>4 DEF CyclesArePaid
  <2> QED
    BY <2>3, <2>4
<1> QED
  BY <1>2, <1>3, <1>11 DEF BoardRuns

LEMMA MaxIs ==
    ASSUME NEW N \in SUBSET Nat, NEW m \in N, \A n \in N : n <= m
    PROVE  Max(N) = m
<1>1. m \in {x \in N : \A n \in N : n <= x}
  OBVIOUS
<1>2. \A x \in N : (\A n \in N : n <= x) => x = m
  OBVIOUS
<1>3. Max(N) \in N /\ \A n \in N : Max(N) >= n
  BY <1>1 DEF Max
<1>4. \A n \in N : n <= Max(N)
  BY <1>3
<1> QED
  BY <1>2, <1>3, <1>4

\* The next instruction of the program reads the last writers before it.
LEMMA NextReadsRight ==
    ASSUME BoardRuns, board.orderType = "inorder",
           NEW i \in Instructions, status[i] = "Waiting",
           \A j \in Instructions : status[j] = "Waiting" => i <= j,
           NEW r \in Sources(i),
           \A j \in InFlight : getDestination(j) # r
    PROVE  writer[r] = Producer(i, r)
<1> DEFINE N == {j \in Instructions : j < i /\ getDestination(j) = r} \cup {0}
<1>1. BoardTypeOK /\ TakenInOrder /\ WritesInOrder
  BY DEF BoardRuns
<1>2. r \in Registers /\ Instructions \subseteq Nat /\ 0 \notin Instructions
  BY <1>1, Program DEF BoardTypeOK
<1>3. N \in SUBSET Nat
  <2>1. ASSUME NEW j \in N PROVE j \in Nat
    <3>1. j \in Instructions \/ j = 0
      OBVIOUS
    <3> QED
      BY <1>2, <3>1
  <2> HIDE DEF N
  <2> QED
    BY <2>1
<1>4. writer[r] \in N
  <2>1. CASE writer[r] = 0
    BY <2>1
  <2>2. CASE writer[r] # 0
    <3>1. PICK j : j = writer[r]
      OBVIOUS
    <3>2. j \in Instructions /\ status[j] = "Completed" /\ getDestination(j) = r
      BY <1>1, <1>2, <2>2, <3>1 DEF TakenInOrder
    <3>3. ~(i < j) /\ i # j
      BY <1>1, <3>2 DEF TakenInOrder
    <3>4. j < i
      BY <1>2, <3>2, <3>3
    <3> QED
      BY <3>1, <3>2, <3>4
  <2> QED
    BY <2>1, <2>2
<1>5. ASSUME NEW j \in N PROVE j <= writer[r]
  <2>1. writer[r] \in Nat
    BY <1>1, <1>2 DEF BoardTypeOK
  <2>2. CASE j = 0
    BY <2>1, <2>2
  <2>3. CASE j # 0
    <3>1. j \in Instructions /\ j < i /\ getDestination(j) = r
      BY <1>5, <2>3
    <3>2. status[j] # "Waiting"
      BY <1>2, <3>1
    <3>3. status[j] # "Issued" /\ status[j] # "Dispatched"
      BY <1>1, <3>1 DEF InFlight, WritesInOrder
    <3>4. status[j] = "Completed"
      BY <1>1, <3>1, <3>2, <3>3 DEF BoardTypeOK
    <3> QED
      BY <1>1, <1>2, <3>1, <3>4 DEF WritesInOrder
  <2> QED
    BY <2>2, <2>3
<1>6. Producer(i, r) = Max(N)
  BY DEF Producer
<1> HIDE DEF N
<1> QED
  BY <1>3, <1>4, <1>5, <1>6, MaxIs

\* The issue of an instruction that is next, or was the first of the queue
\* that nothing holds back.
LEMMA IssueKeepsRuns ==
    ASSUME BoardRuns, scorePc = "issue", NEW i \in Instructions,
           isSupported(i), canIssue(i), ~isDependant(i), issueInstruction(i),
           board' = board, cycle' = cycle, writer' = writer,
           board.orderType = "inorder" =>
             /\ queue' = queue /\ status[i] = "Waiting"
             /\ \A j \in Instructions : status[j] = "Waiting" => i <= j,
           board.orderType # "inorder" =>
             /\ status[i] = "Dispatched" /\ ~isAntiDependant(i)
             /\ \A j \in Instructions : j \in ToSet(queue') <=> j \in ToSet(queue) /\ j # i
             /\ \A k, l \in DOMAIN queue' : k < l => queue'[k] < queue'[l],
           queue' \in Seq(Instructions)
    PROVE  BoardRuns'
<1>1. /\ BoardTypeOK /\ UnitsHold /\ BusyIsRight /\ TakenInOrder /\ WritesInOrder /\ QueueIsRight
      /\ ReadsAreRight /\ CyclesArePaid
  BY DEF BoardRuns
<1>2. /\ scorePc' \in {"issue", "dispatch"}
      /\ status' \in [Instructions -> {"Waiting", "Dispatched", "Issued", "Completed"}]
      /\ status'[i] = "Issued" /\ \A j \in Instructions \ {i} : status'[j] = status[j]
      /\ cyclesLeft' \in [Instructions -> Nat]
      /\ cyclesLeft'[i] + 2 <= Alone(i) /\ \A j \in Instructions \ {i} : cyclesLeft'[j] = cyclesLeft[j]
      /\ DOMAIN producers' = Instructions
      /\ producers'[i] = [r \in Sources(i) |-> writer[r]]
      /\ \A j \in Instructions \ {i} : producers'[j] = producers[j]
      /\ \A r \in Sources(i) \cup {getDestination(i)}, j \in InFlight : getDestination(j) # r
      /\ DOMAIN processingInst' = Units
      /\ UnitsHold' /\ BusyIsRight'
  <2>1. status[i] \in {"Waiting", "Dispatched"}
    OBVIOUS
  <2> QED
    BY <1>1, <2>1, IssueEffect
<1>3. /\ Instructions' = Instructions /\ Registers' = Registers
      /\ \A j : isSupported(j)' <=> isSupported(j)
      /\ \A j : getDestination(j)' = getDestination(j)
      /\ \A j : Sources(j)' = Sources(j)
      /\ \A j : Alone(j)' = Alone(j)
      /\ \A j, r : Producer(j, r)' = Producer(j, r)
  BY SameProgram
<1>4. /\ Instructions \subseteq Nat /\ 0 \notin Instructions
      /\ \A j \in Instructions : Sources(j) \subseteq Registers
  BY <1>1, Program DEF BoardTypeOK
<1>5. BoardTypeOK'
  BY <1>1, <1>2, <1>3 DEF BoardTypeOK
<1>6. TakenInOrder'
  <2>1. ASSUME NEW a \in Instructions, NEW b \in Instructions, a < b, status'[a] = "Waiting"
        PROVE  status'[b] = "Waiting"
    <3>1. a # i /\ status[a] = "Waiting"
      BY <1>2, <2>1
    <3>2. status[b] = "Waiting"
      BY <1>1, <2>1, <3>1 DEF TakenInOrder
    <3>3. b # i
      BY <1>4, <2>1, <3>1, <3>2
    <3> QED
      BY <1>2, <2>1, <3>2, <3>3
  <2>2. ASSUME NEW r \in Registers, writer[r] # 0
        PROVE  writer[r] \in Instructions /\ status'[writer[r]] = "Completed" /\ getDestination(writer[r]) = r
    <3>1. writer[r] \in Instructions /\ status[writer[r]] = "Completed" /\ getDestination(writer[r]) = r
      BY <1>1, <2>2 DEF TakenInOrder
    <3> QED
      BY <1>2, <3>1
  <2> QED
    BY <1>3, <2>1, <2>2 DEF TakenInOrder
<1>7. Issued' = Issued \cup {i} /\ Issued \subseteq Instructions /\ i \notin Issued
  <2>1. \A j \in Instructions : status'[j] \in {"Issued", "Completed"} <=> (status[j] \in {"Issued", "Completed"} \/ j = i)
    BY <1>2
  <2>2. status[i] \notin {"Issued", "Completed"}
    OBVIOUS
  <2> QED
    BY <1>3, <2>1, <2>2 DEF Issued
<1>8. ReadsAreRight'
  <2>1. ASSUME NEW j \in Issued, NEW r \in Sources(j)
        PROVE  IF board.orderType = "inorder" THEN producers'[j][r] = Producer(j, r) ELSE producers'[j][r] < j
    <3>1. producers'[j] = producers[j]
      BY <1>2, <1>7, <2>1
    <3> QED
      BY <1>1, <2>1, <3>1 DEF ReadsAreRight
  <2>2. ASSUME NEW r \in Sources(i)
        PROVE  IF board.orderType = "inorder" THEN producers'[i][r] = Producer(i, r) ELSE producers'[i][r] < i
    <3>1. producers'[i][r] = writer[r] /\ \A j \in InFlight : getDestination(j) # r
      BY <1>2, <2>2
    <3>2. CASE board.orderType = "inorder"
      BY <2>2, <3>1, <3>2, NextReadsRight
    <3>3. CASE board.orderType # "inorder"
      <4>1. CASE writer[r] = 0
        BY <1>4, <3>1, <3>3, <4>1
      <4>2. CASE writer[r] # 0
        <5>1. PICK j : j = writer[r]
          OBVIOUS
        <5>2. j \in Instructions /\ status[j] = "Completed" /\ getDestination(j) = r
          BY <1>1, <1>4, <2>2, <4>2, <5>1 DEF TakenInOrder
        <5>3. j # i /\ j \in Issued
          BY <3>3, <5>2 DEF Issued
        <5>4. ~(i < j)
          BY <1>1, <1>7, <2>2, <3>3, <5>2, <5>3 DEF QueueIsRight
        <5>5. j < i
          BY <1>4, <5>2, <5>3, <5>4
        <5> QED
          BY <3>1, <3>3, <5>1, <5>5
      <4> QED
        BY <4>1, <4>2
    <3> QED
      BY <3>2, <3>3
  <2> QED
    BY <1>3, <1>7, <2>1, <2>2 DEF ReadsAreRight
<1>9. WritesInOrder'
  <2> SUFFICES ASSUME board.orderType = "inorder" PROVE WritesInOrder'
    BY DEF WritesInOrder
  <2>1. queue' = <<>> /\ \A j \in Instructions : status'[j] # "Dispatched"
    BY <1>1, <1>2 DEF WritesInOrder
  <2>2. ASSUME NEW a \in Instructions, status'[a] = "Issued", NEW j \in Instructions,
               status'[j] = "Completed", getDestination(a) = getDestination(j)
        PROVE  j < a
    <3>1. j # i /\ status[j] = "Completed"
      BY <1>2, <2>2
    <3>2. CASE a = i
      <4>1. ~(i < j)
        BY <1>1, <2>2, <3>1 DEF TakenInOrder
      <4> QED
        BY <1>4, <2>2, <3>1, <3>2, <4>1
    <3>3. CASE a # i
      <4>1. a \in InFlight
        BY <1>2, <2>2, <3>3 DEF InFlight
      <4> QED
        BY <1>1, <2>2, <3>1, <4>1 DEF WritesInOrder
    <3> QED
      BY <3>2, <3>3
  <2>3. \A r \in Registers : \A j \in Instructions : status'[j] = "Completed" /\ getDestination(j) = r => j <= writer[r]
    BY <1>1, <1>2 DEF WritesInOrder
  <2> QED
    BY <1>3, <2>1, <2>2, <2>3 DEF WritesInOrder, InFlight
<1>10. QueueIsRight'
  <2> SUFFICES ASSUME board.orderType # "inorder" PROVE QueueIsRight'
    BY DEF QueueIsRight
  <2>1. \A j \in Instructions : status'[j] = "Dispatched" <=> j \in ToSet(queue')
    <3> SUFFICES ASSUME NEW j \in Instructions PROVE status'[j] = "Dispatched" <=> j \in ToSet(queue')
      OBVIOUS
    <3>1. j \in ToSet(queue') <=> j \in ToSet(queue) /\ j # i
      OBVIOUS
    <3>2. status[j] = "Dispatched" <=> j \in ToSet(queue)
      BY <1>1 DEF QueueIsRight
    <3>3. j # i => status'[j] = status[j]
      BY <1>2
    <3>4. status'[i] = "Issued"
      BY <1>2
    <3> QED
      BY <3>1, <3>2, <3>3, <3>4
  <2>2. ASSUME NEW a \in Instructions \ (Issued \cup {i}), NEW b \in Issued \cup {i}, a < b
        PROVE  getDestination(b) \notin Sources(a)
    <3>1. CASE b # i
      BY <1>1, <1>7, <2>2, <3>1 DEF QueueIsRight
    <3>2. CASE b = i
      <4>1. status[a] # "Waiting"
        BY <1>1, <2>2, <3>2 DEF TakenInOrder
      <4>2. status[a] = "Dispatched"
        BY <1>1, <2>2, <4>1 DEF Issued, BoardTypeOK
      <4>3. a \in ToSet(queue)
        BY <1>1, <2>2, <4>2 DEF QueueIsRight
      <4> QED
        BY <2>2, <3>2, <4>3 DEF isAntiDependant
    <3> QED
      BY <3>1, <3>2
  <2> QED
    BY <1>3, <1>7, <2>1, <2>2 DEF QueueIsRight
<1>11. CyclesArePaid'
  <2>1. /\ \A j \in Instructions : Alone(j) \in Nat /\ Ahead(j) \in Nat
        /\ cyclesLeft'[i] \in Nat
    BY <1>1, <1>2, AheadTyped
  <2>2. Ahead(i)' < Ahead(i)
    <3>1. Ahead(i)' = cyclesLeft'[i]
      BY <1>2 DEF Ahead
    <3>2. Ahead(i) \in {Alone(i), Alone(i) - 1}
      BY DEF Ahead
    <3> QED
      BY <1>2, <2>1, <3>1, <3>2
  <2>3. \A j \in Instructions \ {i} : Ahead(j)' = Ahead(j)
    BY <1>2, <1>3 DEF Ahead
  <2>4. \A j \in Instructions : Ahead(j)' <= Ahead(j)
    <3> SUFFICES ASSUME NEW j \in Instructions PROVE Ahead(j)' <= Ahead(j)
      OBVIOUS
    <3>1. CASE j = i
      <4>1. Ahead(i)' \in Nat /\ Ahead(i) \in Nat
        BY <1>2, <2>1 DEF Ahead
      <4> QED
        BY <2>2, <3>1, <4>1
    <3>2. CASE j # i
      BY <2>1, <2>3, <3>2
    <3> QED
      BY <3>1, <3>2
  <2>5. /\ AllAhead \in Nat /\ AllAhead' \in Nat /\ Altogether \in Nat /\ Altogether' = Altogether
        /\ AllAhead' + 1 <= AllAhead
    BY <1>1, <1>4, <1>5, <2>2, <2>4, CyclesFall
  <2>6. Lost' = Lost /\ Lost \in Nat
    <3>1. \A j \in Instructions : (status'[j] = "Dispatched" /\ ~isSupported(j)) <=> (status[j] = "Dispatched" /\ ~isSupported(j))
      BY <1>2
    <3> QED
      BY <1>3, <3>1 DEF Lost
  <2>7. cycle + AllAhead <= Altogether + Lost /\ cycle <= 1 + Altogether /\ cycle \in Nat
    BY <1>1 DEF CyclesArePaid, BoardTypeOK
  <2>8. \A c, x, y, t, l \in Nat : y + 1 <= x /\ c + x <= t + l => c + 1 + y <= t + l /\ c + y <= t + l
    OBVIOUS
  <2>9. /\ cycle' + 1 + AllAhead' <= Altogether' + Lost'
        /\ cycle' + AllAhead' <= Altogether' + Lost'
        /\ cycle' <= 1 + Altogether'
    BY <2>5, <2>6, <2>7, <2>8
  <2> QED
    BY <2>9 DEF CyclesArePaid
<1> QED
  BY <1>2, <1>5, <1>6, <1>8, <1>9, <1>10, <1>11 DEF BoardRuns

LEMMA Removal ==
    ASSUME NEW S, NEW q \in Seq(S), NEW k \in 1..Len(q)
    PROVE  /\ RemoveAt(q, k) \in Seq(S)
           /\ DOMAIN RemoveAt(q, k) = 1..(Len(q) - 1)
           /\ \A m \in 1..(Len(q) - 1) : RemoveAt(q, k)[m] = IF m < k THEN q[m] ELSE q[m + 1]
<1> DEFINE a == SubSeq(q, 1, k - 1)
           b == SubSeq(q, k + 1, Len(q))
<1>1. a \in Seq(S) /\ Len(a) = k - 1 /\ \A m \in 1..(k - 1) : a[m] = q[m]
  OBVIOUS
<1>2. b \in Seq(S) /\ Len(b) = Len(q) - k /\ \A m \in 1..(Len(q) - k) : b[m] = q[k + m]
  OBVIOUS
<1>3. RemoveAt(q, k) = a \o b
  BY DEF RemoveAt
<1>4. Len(q) \in Nat /\ k \in Nat /\ k <= Len(q)
  OBVIOUS
<1> HIDE DEF a, b
<1>5. /\ a \o b \in Seq(S) /\ Len(a \o b) = Len(q) - 1
      /\ DOMAIN (a \o b) = 1..(Len(q) - 1)
  BY <1>1, <1>2, <1>4
<1>6. ASSUME NEW m \in 1..(Len(q) - 1) PROVE (a \o b)[m] = IF m < k THEN q[m] ELSE q[m + 1]
  <2>1. CASE m < k
    <3>1. m \in 1..(k - 1)
      BY <1>4, <2>1
    <3> QED
      BY <1>1, <1>2, <1>4, <2>1, <3>1
  <2>2. CASE ~(m < k)
    <3>1. m - (k - 1) \in 1..(Len(q) - k) /\ k + (m - (k - 1)) = m + 1
      BY <1>4, <2>2
    <3>2. (a \o b)[m] = b[m - Len(a)]
      BY <1>1, <1>2, <1>4, <2>2
    <3> QED
      BY <1>1, <1>2, <2>2, <3>1, <3>2
  <2> QED
    BY <2>1, <2>2
<1> QED
  BY <1>3, <1>5, <1>6

\* Taking a place out of an increasing sequence of numbers.
LEMMA OneLess ==
    ASSUME NEW S \in SUBSET Nat, NEW q \in Seq(S), NEW k \in DOMAIN q,
           \A l, m \in DOMAIN q : l < m => q[l] < q[m]
    PROVE  /\ RemoveAt(q, k) \in Seq(S)
           /\ \A l, m \in DOMAIN RemoveAt(q, k) : l < m => RemoveAt(q, k)[l] < RemoveAt(q, k)[m]
           /\ \A x : x \in ToSet(RemoveAt(q, k)) <=> x \in ToSet(q) /\ x # q[k]
<1> DEFINE w == RemoveAt(q, k)
           n == Len(q)
<1>0. DOMAIN q = 1..n /\ n \in Nat /\ k \in 1..n
  OBVIOUS
<1>1. DOMAIN q = 1..n /\ n \in Nat /\ k \in 1..n /\ \A l \in 1..n : q[l] \in Nat
  <2>1. \A l \in 1..n : q[l] \in S
    BY ElementOfSeq
  <2> HIDE DEF n
  <2> QED
    BY <1>0, <2>1
<1>2. /\ w \in Seq(S) /\ DOMAIN w = 1..(n - 1)
      /\ \A m \in 1..(n - 1) : w[m] = IF m < k THEN q[m] ELSE q[m + 1]
  BY <1>1, Removal
<1> HIDE DEF w, n
<1>3. \A m \in 1..(n - 1) : m \in 1..n /\ m + 1 \in 1..n
  BY <1>1
<1>4. ASSUME NEW l \in 1..(n - 1), NEW m \in 1..(n - 1), l < m PROVE w[l] < w[m]
  <2>1. PICK a \in 1..n : w[l] = q[a] /\ a = IF l < k THEN l ELSE l + 1
    BY <1>2, <1>3
  <2>2. PICK b \in 1..n : w[m] = q[b] /\ b = IF m < k THEN m ELSE m + 1
    BY <1>2, <1>3
  <2>3. a < b
    BY <1>1, <1>4, <2>1, <2>2
  <2> QED
    BY <1>1, <2>1, <2>2, <2>3
<1>5. \A l, m \in 1..n : q[l] = q[m] => l = m
  <2> SUFFICES ASSUME NEW l \in 1..n, NEW m \in 1..n, q[l] = q[m] PROVE l = m
    OBVIOUS
  <2>1. ~(l < m) /\ ~(m < l)
    BY <1>1
  <2> QED
    BY <1>1, <2>1
<1>6. ToSet(q) = {q[m] : m \in 1..n} /\ ToSet(w) = {w[m] : m \in 1..(n - 1)}
  BY <1>1, <1>2 DEF ToSet
<1>7. ASSUME NEW m \in 1..(n - 1) PROVE w[m] \in ToSet(q) /\ w[m] # q[k]
  <2>1. PICK a \in 1..n : w[m] = q[a] /\ a = IF m < k THEN m ELSE m + 1
    BY <1>2, <1>3
  <2>2. a # k
    BY <1>1, <2>1
  <2> QED
    BY <1>1, <1>5, <1>6, <2>1, <2>2
<1>8. ASSUME NEW a \in 1..n, q[a] # q[k] PROVE \E m \in 1..(n - 1) : w[m] = q[a]
  <2>1. a # k
    BY <1>8
  <2>2. CASE a < k
    <3>1. a \in 1..(n - 1)
      BY <1>1, <2>2
    <3> QED
      BY <1>2, <2>2, <3>1
  <2>3. CASE a > k
    <3>1. a - 1 \in 1..(n - 1) /\ ~(a - 1 < k) /\ (a - 1) + 1 = a
      BY <1>1, <2>3
    <3>2. w[a - 1] = q[(a - 1) + 1]
      BY <1>2, <3>1
    <3> QED
      BY <3>1, <3>2
  <2> QED
    BY <1>1, <2>1, <2>2, <2>3
<1> QED
  BY <1>2, <1>4, <1>6, <1>7, <1>8 DEF w

\* What depends only on the variables that a step leaves alone.
LEMMA SameState ==
    ASSUME BoardRuns, board' = board, status' = status, cyclesLeft' = cyclesLeft,
           processingInst' = processingInst, busy' = busy, queue' = queue, writer' = writer,
           producers' = producers, cycle' \in Nat, scorePc' \in {"clock", "issue", "dispatch", "done", "exit"}
    PROVE  /\ BoardTypeOK' /\ UnitsHold' /\ BusyIsRight' /\ TakenInOrder' /\ WritesInOrder' /\ QueueIsRight'
           /\ ReadsAreRight'
           /\ AllAhead' = AllAhead /\ Altogether' = Altogether /\ Lost' = Lost
<1>1. /\ BoardTypeOK /\ UnitsHold /\ BusyIsRight /\ TakenInOrder /\ WritesInOrder /\ QueueIsRight
      /\ ReadsAreRight
  BY DEF BoardRuns
<1>2. /\ Instructions' = Instructions /\ Registers' = Registers
      /\ \A i : isSupported(i)' <=> isSupported(i)
      /\ \A i : getUnitByInstruction(i)' = getUnitByInstruction(i)
      /\ \A i : getDestination(i)' = getDestination(i)
      /\ \A i : Sources(i)' = Sources(i)
      /\ \A i : Alone(i)' = Alone(i)
      /\ \A i, r : Producer(i, r)' = Producer(i, r)
      /\ Altogether' = Altogether
      /\ \A u, p, r : StagesHold(u, p, r)' <=> StagesHold(u, p, r)
  BY SameProgram
<1>3. InFlight' = InFlight /\ Issued' = Issued /\ \A u : InUnit(u)' = InUnit(u)
  BY <1>2 DEF InFlight, Issued, InUnit
<1>4. BoardTypeOK'
  BY <1>1, <1>2 DEF BoardTypeOK
<1>5. UnitsHold'
  BY <1>1, <1>2, <1>3 DEF UnitsHold
<1>6. BusyIsRight'
  BY <1>1, <1>2, <1>3 DEF BusyIsRight
<1>7. TakenInOrder'
  BY <1>1, <1>2 DEF TakenInOrder
<1>8. WritesInOrder'
  BY <1>1, <1>2, <1>3 DEF WritesInOrder
<1>9. QueueIsRight'
  BY <1>1, <1>2, <1>3 DEF QueueIsRight
<1>10. ReadsAreRight'
  BY <1>1, <1>2, <1>3 DEF ReadsAreRight
<1>11. \A i : Ahead(i)' = Ahead(i)
  BY <1>2 DEF Ahead
<1>12. AllAhead' = AllAhead
  BY <1>2, <1>11 DEF AllAhead
<1>13. Lost' = Lost
  BY <1>2 DEF Lost
<1> QED
  BY <1>2, <1>4, <1>5, <1>6, <1>7, <1>8, <1>9, <1>10, <1>12, <1>13

\* With nothing in the units and something to do, nothing holds an issue back:
\* in order the next instruction has its unit and its registers, out of order
\* the first of the queue.
LEMMA NoneStalls ==
    ASSUME BoardRuns, scorePc = "issue", InFlight = {}, ~isCompleted
    PROVE  /\ issueInorder => ~IssueNone
           /\ issueOutorder /\ IssueNone =>
                /\ board.orderType # "inorder" /\ Waiting # {}
                /\ \A i \in Instructions : status[i] # "Dispatched"
<1>1. /\ BoardTypeOK /\ UnitsHold /\ BusyIsRight /\ WritesInOrder /\ QueueIsRight
  BY DEF BoardRuns
<1>2. Instructions \subseteq Nat
  BY <1>1, Program DEF BoardTypeOK
<1>3. busy = {} /\ \A i : ~isDependant(i)
  BY <1>1 DEF BusyIsRight, isDependant
<1>4. ASSUME NEW i, isSupported(i) PROVE canIssue(i)
  <2>1. PICK u \in Units : u = getUnitByInstruction(i)
    BY <1>4, UnitOf
  <2>2. InUnit(u) = {}
    <3> SUFFICES ASSUME NEW j \in InUnit(u) PROVE FALSE
      OBVIOUS
    <3>1. status[j] = "Issued"
      BY <1>1 DEF UnitsHold
    <3>2. processingInst[u] \in [1..Stages(u) -> Instructions \cup {0}]
      BY <1>1 DEF UnitsHold, StagesHold
    <3>3. j \in Instructions
      BY <3>2 DEF InUnit, ToSet
    <3> QED
      BY <3>1, <3>3 DEF InFlight
  <2>3. processingInst[u] \in [1..Stages(u) -> Instructions \cup {0}]
    BY <1>1 DEF UnitsHold, StagesHold
  <2>4. 1 \in 1..Stages(u)
    BY UnitTable
  <2>5. processingInst[u][1] \in ToSet(processingInst[u])
    BY <2>3, <2>4 DEF ToSet
  <2> QED
    BY <2>1, <2>2, <2>5 DEF canIssue, InUnit
<1>5. ASSUME \A i \in Instructions : status[i] # "Dispatched"
      PROVE  Waiting # {}
  <2>1. PICK i \in Instructions : status[i] # "Completed"
    BY DEF isCompleted
  <2>2. status[i] # "Issued"
    BY DEF InFlight
  <2> QED
    BY <1>1, <1>5, <2>1, <2>2 DEF Waiting, BoardTypeOK
<1>6. ASSUME issueInorder, IssueNone PROVE FALSE
  <2>1. board.orderType = "inorder"
    BY <1>6 DEF issueInorder
  <2>2. Waiting # {}
    BY <1>1, <1>5, <2>1 DEF WritesInOrder
  <2>3. scorePc' = "dispatch" /\ status' = status
    BY <1>6 DEF IssueNone
  <2> DEFINE i == Min(Waiting)
  <2>4. isSupported(i)
    BY <1>6, <2>2, <2>3 DEF issueInorder, IssueExits
  <2>5. issueInstruction(i)
    BY <1>3, <1>4, <1>6, <2>2, <2>4 DEF issueInorder
  <2>6. i \in Waiting
    <3>1. Waiting \in SUBSET Nat
      BY <1>2 DEF Waiting
    <3> QED
      BY <2>2, <3>1, LeastIsMember
  <2>7. status' = [status EXCEPT ![i] = "Issued"]
    BY <2>5 DEF issueInstruction
  <2>8. status'[i] = "Issued" /\ status[i] = "Waiting"
    <3> HIDE DEF i
    <3> QED
      BY <1>1, <2>6, <2>7 DEF Waiting, BoardTypeOK
  <2> QED
    BY <2>3, <2>8
<1>7. ASSUME issueOutorder, IssueNone
      PROVE  /\ board.orderType # "inorder" /\ Waiting # {}
             /\ \A i \in Instructions : status[i] # "Dispatched"
  <2>1. board.orderType # "inorder"
    BY <1>7 DEF issueOutorder
  <2>2. scorePc' = "dispatch" /\ status' = status
    BY <1>7 DEF IssueNone
  <2> DEFINE places == {k \in DOMAIN queue : \/ ~isSupported(queue[k])
                                             \/ /\ canIssue(queue[k])
                                                /\ ~isAntiDependant(queue[k])
                                                /\ ~isDependant(queue[k])}
             place == Min(places)
             i == queue[place]
  <2>3. IF places = {} THEN IssueNone /\ UNCHANGED queue
        ELSE IF ~isSupported(i) THEN IssueExits /\ UNCHANGED queue
        ELSE issueInstruction(i) /\ queue' = RemoveAt(queue, place)
    BY <1>7 DEF issueOutorder
  <2>4. places \in SUBSET Nat /\ places \subseteq DOMAIN queue
    BY <1>1 DEF BoardTypeOK
  <2>5. places = {}
    <3> SUFFICES ASSUME places # {} PROVE FALSE
      OBVIOUS
    <3>1. place \in places
      <4> HIDE DEF places
      <4> QED
        BY <2>4, LeastIsMember
    <3> HIDE DEF place, places
    <3>2. isSupported(i) /\ issueInstruction(i)
      BY <2>2, <2>3 DEF IssueExits
    <3>3. i \in Instructions /\ i \in ToSet(queue)
      BY <1>1, <2>4, <3>1, ElementOfSeq DEF BoardTypeOK, ToSet
    <3> HIDE DEF i
    <3>4. status[i] = "Dispatched"
      BY <1>1, <2>1, <3>3 DEF QueueIsRight
    <3>5. status' = [status EXCEPT ![i] = "Issued"]
      BY <3>2 DEF issueInstruction
    <3> QED
      BY <1>1, <2>2, <3>3, <3>4, <3>5 DEF BoardTypeOK
  <2>6. queue = <<>>
    <3> SUFFICES ASSUME queue # <<>> PROVE FALSE
      OBVIOUS
    <3>1. 1 \in DOMAIN queue /\ DOMAIN queue \subseteq Nat /\ \A k \in DOMAIN queue : k = 1 \/ 1 < k
      BY <1>1 DEF BoardTypeOK
    <3>2. \A j \in ToSet(queue) : j = queue[1] \/ queue[1] < j
      BY <1>1, <2>1, <3>1 DEF QueueIsRight, ToSet
    <3>3. queue[1] \in Nat /\ \A j \in ToSet(queue) : j \in Nat
      BY <1>1, <1>2, <3>1, ElementOfSeq DEF BoardTypeOK, ToSet
    <3>4. ~isAntiDependant(queue[1])
      BY <3>2, <3>3 DEF isAntiDependant
    <3>5. 1 \in places
      BY <1>3, <1>4, <3>1, <3>4
    <3> QED
      BY <2>5, <3>5
  <2>7. ToSet(queue) = {}
    BY <2>6 DEF ToSet
  <2>8. \A j \in Instructions : status[j] # "Dispatched"
    BY <1>1, <2>1, <2>7 DEF QueueIsRight
  <2> QED
    BY <1>5, <2>1, <2>8
<1> QED
  BY <1>6, <1>7

\* A phase of issue that ends, or that ends the program.
LEMMA NoIssueKeepsRuns ==
    ASSUME BoardRuns, scorePc = "issue", board' = board, cycle' = cycle, queue' = queue, writer' = writer,
           \/ issueInorder \/ issueOutorder,
           \/ IssueNone
           \/ IssueExits /\ \E i \in Instructions : ~isSupported(i)
    PROVE  BoardRuns'
<1>1. /\ status' = status /\ cyclesLeft' = cyclesLeft /\ processingInst' = processingInst
      /\ busy' = busy /\ producers' = producers
      /\ \/ scorePc' = "dispatch" /\ IssueNone
         \/ scorePc' = "exit" /\ \E i \in Instructions : ~isSupported(i)
  BY DEF IssueNone, IssueExits
<1>2. /\ BoardTypeOK' /\ UnitsHold' /\ BusyIsRight' /\ TakenInOrder' /\ WritesInOrder' /\ QueueIsRight'
      /\ ReadsAreRight'
      /\ AllAhead' = AllAhead /\ Altogether' = Altogether /\ Lost' = Lost
  <2>1. cycle' \in Nat
    BY DEF BoardRuns, BoardTypeOK
  <2> QED
    BY <1>1, <2>1, SameState
<1>3. CyclesArePaid
  BY DEF BoardRuns
<1>4. Instructions' = Instructions /\ \A i : isSupported(i)' <=> isSupported(i)
  BY SameProgram
<1>5. CASE scorePc' = "exit"
  <2>1. CyclesArePaid'
    BY <1>2, <1>3, <1>5 DEF CyclesArePaid
  <2>2. \E i \in Instructions' : ~isSupported(i)'
    BY <1>1, <1>4, <1>5
  <2> QED
    BY <1>2, <1>5, <2>1, <2>2 DEF BoardRuns
<1>6. CASE scorePc' = "dispatch" /\ IssueNone
  <2>1. CASE cycle + 1 + AllAhead <= Altogether + Lost
    <3>1. CyclesArePaid'
      BY <1>2, <1>3, <1>6, <2>1 DEF CyclesArePaid
    <3> QED
      BY <1>2, <1>6, <3>1 DEF BoardRuns
  <2>2. CASE InFlight = {} /\ ~isCompleted
    <3>1. /\ board.orderType # "inorder" /\ Waiting # {}
          /\ \A i \in Instructions : status[i] # "Dispatched"
      BY <1>6, <2>2, NoneStalls
    <3>2. /\ board'.orderType # "inorder" /\ Waiting' # {}
          /\ \A i \in Instructions' : status'[i] # "Dispatched"
      BY <1>1, <1>4, <3>1 DEF Waiting
    <3>3. CyclesArePaid'
      BY <1>2, <1>3, <1>6, <3>2 DEF CyclesArePaid
    <3> QED
      BY <1>2, <1>6, <3>3 DEF BoardRuns
  <2> QED
    BY <1>3, <2>1, <2>2 DEF CyclesArePaid
<1> QED
  BY <1>1, <1>5, <1>6

LEMMA InorderKeepsRuns ==
    ASSUME BoardRuns, issueInorder
    PROVE  BoardRuns'
<1>1. BoardTypeOK /\ WritesInOrder
  BY DEF BoardRuns
<1>2. /\ scorePc = "issue" /\ board.orderType = "inorder"
      /\ board' = board /\ cycle' = cycle /\ queue' = queue /\ writer' = writer
  BY DEF issueInorder
<1> DEFINE i == Min(Waiting)
<1>3. IF Waiting # {} /\ ~isSupported(i) THEN IssueExits
      ELSE IF Waiting # {} /\ canIssue(i) /\ ~isDependant(i) THEN issueInstruction(i)
      ELSE IssueNone
  BY DEF issueInorder
<1>4. Waiting \subseteq Instructions /\ Instructions \subseteq Nat
  BY <1>1, Program DEF Waiting, BoardTypeOK
<1>5. Waiting # {} => i \in Waiting /\ \A j \in Waiting : i <= j
  BY <1>4, LeastIsMember
<1> HIDE DEF i
<1>6. CASE Waiting # {} /\ ~isSupported(i)
  BY <1>2, <1>3, <1>4, <1>5, <1>6, NoIssueKeepsRuns
<1>7. CASE Waiting # {} /\ isSupported(i) /\ canIssue(i) /\ ~isDependant(i)
  <2>1. i \in Instructions /\ status[i] = "Waiting" /\ issueInstruction(i)
    BY <1>3, <1>5, <1>7 DEF Waiting
  <2>2. \A j \in Instructions : status[j] = "Waiting" => i <= j
    BY <1>5, <1>7 DEF Waiting
  <2>3. queue' \in Seq(Instructions)
    BY <1>1, <1>2 DEF BoardTypeOK
  <2> QED
    BY <1>2, <1>7, <2>1, <2>2, <2>3, IssueKeepsRuns
<1>8. CASE ~(Waiting # {} /\ ~isSupported(i)) /\ ~(Waiting # {} /\ canIssue(i) /\ ~isDependant(i))
  BY <1>2, <1>3, <1>8, NoIssueKeepsRuns
<1> QED
  BY <1>6, <1>7, <1>8

LEMMA OutorderKeepsRuns ==
    ASSUME BoardRuns, issueOutorder
    PROVE  BoardRuns'
<1>1. BoardTypeOK /\ QueueIsRight
  BY DEF BoardRuns
<1>2. /\ scorePc = "issue" /\ board.orderType # "inorder"
      /\ board' = board /\ cycle' = cycle /\ writer' = writer
  BY DEF issueOutorder
<1> DEFINE places == {k \in DOMAIN queue : \/ ~isSupported(queue[k])
                                           \/ /\ canIssue(queue[k])
                                              /\ ~isAntiDependant(queue[k])
                                              /\ ~isDependant(queue[k])}
           place == Min(places)
<1>3. IF places = {} THEN IssueNone /\ UNCHANGED queue
      ELSE IF ~isSupported(queue[place]) THEN IssueExits /\ UNCHANGED queue
      ELSE issueInstruction(queue[place]) /\ queue' = RemoveAt(queue, place)
  BY DEF issueOutorder
<1>4. places \in SUBSET Nat
  BY <1>1 DEF BoardTypeOK
<1>5. places # {} => place \in places
  <2> HIDE DEF places
  <2> QED
    BY <1>4, LeastIsMember
<1>6. places # {} =>
        /\ place \in DOMAIN queue
        /\ isSupported(queue[place]) => /\ canIssue(queue[place])
                                        /\ ~isAntiDependant(queue[place])
                                        /\ ~isDependant(queue[place])
  <2> HIDE DEF place
  <2> QED
    BY <1>5
<1> HIDE DEF place, places
<1>7. CASE places = {}
  BY <1>2, <1>3, <1>7, NoIssueKeepsRuns
<1>8. CASE places # {}
  <2>1. PICK k \in DOMAIN queue : k = place
    BY <1>6, <1>8
  <2>2. PICK i \in Instructions : i = queue[k]
    BY <1>1, ElementOfSeq DEF BoardTypeOK
  <2>3. CASE ~isSupported(i)
    <3>1. IssueExits /\ queue' = queue
      BY <1>3, <1>8, <2>1, <2>2, <2>3
    <3> QED
      BY <1>2, <2>3, <3>1, NoIssueKeepsRuns
  <2>4. CASE isSupported(i)
    <3>1. /\ issueInstruction(i) /\ queue' = RemoveAt(queue, k)
          /\ canIssue(i) /\ ~isAntiDependant(i) /\ ~isDependant(i)
      BY <1>3, <1>6, <1>8, <2>1, <2>2, <2>4
    <3>2. /\ Instructions \in SUBSET Nat /\ queue \in Seq(Instructions)
          /\ \A l, m \in DOMAIN queue : l < m => queue[l] < queue[m]
      BY <1>1, <1>2, Program DEF BoardTypeOK, QueueIsRight
    <3>3. /\ queue' \in Seq(Instructions)
          /\ \A l, m \in DOMAIN queue' : l < m => queue'[l] < queue'[m]
          /\ \A x : x \in ToSet(queue') <=> x \in ToSet(queue) /\ x # i
      BY <2>2, <3>1, <3>2, OneLess
    <3>4. status[i] = "Dispatched"
      <4>1. i \in ToSet(queue)
        BY <2>2 DEF ToSet
      <4> QED
        BY <1>1, <1>2, <4>1 DEF QueueIsRight
    <3> QED
      BY <1>2, <2>4, <3>1, <3>3, <3>4, IssueKeepsRuns
  <2> QED
    BY <2>3, <2>4
<1> QED
  BY <1>7, <1>8

LEMMA DispatchKeepsRuns ==
    ASSUME BoardRuns, dispatchInstruction
    PROVE  BoardRuns'
<1>1. /\ BoardTypeOK /\ UnitsHold /\ BusyIsRight /\ TakenInOrder /\ WritesInOrder /\ QueueIsRight
      /\ ReadsAreRight /\ CyclesArePaid
  BY DEF BoardRuns
<1>2. /\ scorePc = "dispatch" /\ scorePc' = "clock" /\ cycle' = cycle + 1
      /\ board' = board /\ cyclesLeft' = cyclesLeft /\ processingInst' = processingInst
      /\ busy' = busy /\ writer' = writer /\ producers' = producers
  BY DEF dispatchInstruction
<1>3. /\ cycle \in Nat
      /\ cycle + AllAhead <= Altogether + Lost /\ cycle <= 1 + Altogether
      /\ \/ cycle + 1 + AllAhead <= Altogether + Lost
         \/ /\ board.orderType # "inorder" /\ Waiting # {}
            /\ \A i \in Instructions : status[i] # "Dispatched"
  BY <1>1, <1>2 DEF CyclesArePaid, BoardTypeOK
<1>4. Lost \in {0, 1}
  BY DEF Lost
<1>5. AllAhead \in Nat /\ Altogether \in Nat
  <2>1. board \in Boards
    BY <1>1 DEF BoardTypeOK
  <2> QED
    BY <1>1, <2>1, SumsTyped
<1>6. CASE board.orderType = "inorder" \/ Waiting = {}
  <2>1. queue' = queue /\ status' = status
    BY <1>6 DEF dispatchInstruction
  <2>2. /\ BoardTypeOK' /\ UnitsHold' /\ BusyIsRight' /\ TakenInOrder' /\ WritesInOrder' /\ QueueIsRight'
        /\ ReadsAreRight'
        /\ AllAhead' = AllAhead /\ Altogether' = Altogether /\ Lost' = Lost
    BY <1>2, <1>3, <2>1, SameState
  <2>3. cycle' + AllAhead' <= Altogether' + Lost' /\ cycle' <= 1 + Altogether'
    BY <1>2, <1>3, <1>4, <1>5, <1>6, <2>2
  <2>4. CyclesArePaid'
    BY <1>2, <2>3 DEF CyclesArePaid
  <2> QED
    BY <1>2, <2>2, <2>4 DEF BoardRuns
<1>7. CASE board.orderType # "inorder" /\ Waiting # {}
  <2> DEFINE least == Min(Waiting)
  <2>0. Waiting \in SUBSET Nat /\ Instructions \subseteq Nat /\ 0 \notin Instructions
    BY <1>1, Program DEF Waiting, BoardTypeOK
  <2>a. least \in Waiting /\ \A j \in Waiting : least <= j
    BY <1>7, <2>0, LeastIsMember
  <2>b. queue' = Append(queue, least) /\ status' = [status EXCEPT ![least] = "Dispatched"]
    BY <1>7 DEF dispatchInstruction
  <2> HIDE DEF least
  <2>1. PICK w \in Instructions : w = least /\ status[w] = "Waiting"
    BY <2>a DEF Waiting
  <2>2. /\ \A j \in Instructions : status[j] = "Waiting" => w <= j
        /\ status' \in [Instructions -> {"Waiting", "Dispatched", "Issued", "Completed"}]
        /\ status'[w] = "Dispatched" /\ \A j \in Instructions \ {w} : status'[j] = status[j]
    BY <1>1, <2>a, <2>b, <2>1 DEF Waiting, BoardTypeOK
  <2>3. /\ queue' \in Seq(Instructions)
        /\ DOMAIN queue' = 1..(Len(queue) + 1)
        /\ queue'[Len(queue) + 1] = w
        /\ \A k \in 1..Len(queue) : queue'[k] = queue[k]
        /\ DOMAIN queue = 1..Len(queue) /\ Len(queue) \in Nat
    BY <1>1, <2>b, <2>1 DEF BoardTypeOK
  <2>4. /\ Instructions' = Instructions /\ Registers' = Registers
        /\ \A i : isSupported(i)' <=> isSupported(i)
        /\ \A i : getUnitByInstruction(i)' = getUnitByInstruction(i)
        /\ \A i : getDestination(i)' = getDestination(i)
        /\ \A i : Sources(i)' = Sources(i)
        /\ \A i : Alone(i)' = Alone(i)
        /\ \A i, r : Producer(i, r)' = Producer(i, r)
        /\ Altogether' = Altogether
        /\ \A u, p, r : StagesHold(u, p, r)' <=> StagesHold(u, p, r)
    BY <1>2, SameProgram
  <2>5. \A j \in Instructions : /\ status'[j] = "Issued" <=> status[j] = "Issued"
                                /\ status'[j] = "Completed" <=> status[j] = "Completed"
                                /\ status'[j] = "Waiting" <=> status[j] = "Waiting" /\ j # w
                                /\ status'[j] = "Dispatched" <=> status[j] = "Dispatched" \/ j = w
    BY <2>1, <2>2
  <2>6. InFlight' = InFlight /\ Issued' = Issued /\ \A u : InUnit(u)' = InUnit(u)
    BY <1>2, <2>4, <2>5 DEF InFlight, Issued, InUnit
  <2>7. BoardTypeOK'
    <3>1. cycle' \in Nat
      BY <1>2, <1>3
    <3> QED
      BY <1>1, <1>2, <2>2, <2>3, <2>4, <3>1 DEF BoardTypeOK
  <2>8. UnitsHold'
    <3>1. ASSUME NEW u \in Units, NEW i \in InUnit(u)
          PROVE  status'[i] = "Issued" /\ isSupported(i) /\ getUnitByInstruction(i) = u
      <4>1. status[i] = "Issued" /\ isSupported(i) /\ getUnitByInstruction(i) = u
        BY <1>1, <3>1 DEF UnitsHold
      <4>2. i \in Instructions
        <5>1. i \in InFlight
          BY <1>1, <3>1, UnitsAdvance
        <5> QED
          BY <5>1 DEF InFlight
      <4> QED
        BY <2>5, <4>1, <4>2
    <3> QED
      BY <1>1, <1>2, <2>4, <2>6, <3>1 DEF UnitsHold
  <2>9. BusyIsRight'
    BY <1>1, <1>2, <2>4, <2>6 DEF BusyIsRight
  <2>10. TakenInOrder'
    <3>1. ASSUME NEW a \in Instructions, NEW b \in Instructions, a < b, status'[a] = "Waiting"
          PROVE  status'[b] = "Waiting"
      <4>1. status[a] = "Waiting" /\ a # w /\ w <= a
        BY <2>2, <2>5, <3>1
      <4>2. status[b] = "Waiting"
        BY <1>1, <3>1, <4>1 DEF TakenInOrder
      <4>3. b # w
        BY <2>0, <3>1, <4>1
      <4> QED
        BY <2>5, <4>2, <4>3
    <3>2. ASSUME NEW r \in Registers, writer[r] # 0
          PROVE  writer[r] \in Instructions /\ status'[writer[r]] = "Completed" /\ getDestination(writer[r]) = r
      BY <1>1, <2>5, <3>2 DEF TakenInOrder
    <3> QED
      BY <1>2, <2>4, <3>1, <3>2 DEF TakenInOrder
  <2>11. WritesInOrder'
    BY <1>2, <1>7 DEF WritesInOrder
  <2>12. QueueIsRight'
    <3>1. ASSUME NEW j \in Instructions
          PROVE  status'[j] = "Dispatched" <=> j \in ToSet(queue')
      <4>1. j \in ToSet(queue') <=> j \in ToSet(queue) \/ j = w
        <5>1. j \in ToSet(queue') <=> \E k \in 1..(Len(queue) + 1) : queue'[k] = j
          BY <2>3 DEF ToSet
        <5>2. j \in ToSet(queue) <=> \E k \in 1..Len(queue) : queue[k] = j
          BY <2>3 DEF ToSet
        <5>3. \A k \in 1..(Len(queue) + 1) : k \in 1..Len(queue) \/ k = Len(queue) + 1
          BY <2>3
        <5>4. \A k \in 1..Len(queue) : k \in 1..(Len(queue) + 1)
          BY <2>3
        <5>5. Len(queue) + 1 \in 1..(Len(queue) + 1)
          BY <2>3
        <5> QED
          BY <2>3, <5>1, <5>2, <5>3, <5>4, <5>5
      <4> QED
        BY <1>1, <1>7, <2>5, <4>1 DEF QueueIsRight
    <3>2. ASSUME NEW k \in DOMAIN queue', NEW l \in DOMAIN queue', k < l
          PROVE  queue'[k] < queue'[l]
      <4>1. k \in 1..Len(queue) /\ queue'[k] = queue[k]
        BY <2>3, <3>2
      <4>2. CASE l = Len(queue) + 1
        <5>1. PICK j \in Instructions : j = queue[k]
          BY <1>1, <2>3, <4>1, ElementOfSeq DEF BoardTypeOK
        <5>2. j \in ToSet(queue)
          BY <2>3, <4>1, <5>1 DEF ToSet
        <5>3. status[j] = "Dispatched"
          BY <1>1, <1>7, <5>2 DEF QueueIsRight
        <5>4. ~(w < j) /\ w # j
          BY <1>1, <2>1, <5>3 DEF TakenInOrder
        <5>5. j < w
          BY <2>0, <5>4
        <5> QED
          BY <2>3, <4>1, <4>2, <5>1, <5>5
      <4>3. CASE l \in 1..Len(queue)
        BY <1>1, <1>7, <2>3, <3>2, <4>1, <4>3 DEF QueueIsRight
      <4> QED
        BY <2>3, <3>2, <4>2, <4>3
    <3>3. \A a \in Instructions \ Issued, b \in Issued : a < b => getDestination(b) \notin Sources(a)
      BY <1>1, <1>7 DEF QueueIsRight
    <3> QED
      BY <1>2, <2>4, <2>6, <3>1, <3>2, <3>3 DEF QueueIsRight
  <2>13. ReadsAreRight'
    BY <1>1, <1>2, <2>4, <2>6 DEF ReadsAreRight
  <2>14. \A j \in Instructions : Ahead(j) \in Nat /\ Alone(j) \in Nat /\ (isSupported(j) => Alone(j) >= 3)
    BY <1>1, AheadTyped
  <2>15. \A j \in Instructions \ {w} : Ahead(j)' = Ahead(j)
    BY <1>2, <2>2, <2>4 DEF Ahead
  <2>16. /\ Ahead(w) = Alone(w)
         /\ Ahead(w)' = IF isSupported(w) THEN Alone(w) - 1 ELSE 0
         /\ ~isSupported(w) => Alone(w) = 0
    BY <2>1, <2>2, <2>4 DEF Ahead, Alone
  <2>17. \A j \in Instructions : Ahead(j)' <= Ahead(j)
    <3>1. Ahead(w)' <= Ahead(w)
      BY <2>14, <2>16
    <3> QED
      BY <2>14, <2>15, <3>1
  <2>18. Lost' = IF Lost = 1 \/ ~isSupported(w) THEN 1 ELSE 0
    <3>1. \A j \in Instructions : (status'[j] = "Dispatched" /\ ~isSupported(j))
                                  <=> (status[j] = "Dispatched" /\ ~isSupported(j)) \/ (j = w /\ ~isSupported(w))
      BY <2>5
    <3> QED
      BY <2>4, <3>1 DEF Lost
  <2>19. cycle' + AllAhead' <= Altogether + Lost' /\ cycle' <= 1 + Altogether
    <3>0. Lost \in Nat /\ Lost' \in {0, 1}
      BY <1>4, <2>18
    <3>a. \A c, y, t \in Nat, l \in {0, 1} : c + 1 + y <= t + l => c + 1 <= 1 + t
      OBVIOUS
    <3>1. CASE isSupported(w)
      <4>1. Ahead(w)' < Ahead(w)
        BY <2>14, <2>16, <3>1
      <4>2. AllAhead' \in Nat /\ AllAhead' + 1 <= AllAhead
        BY <1>1, <1>2, <2>0, <2>7, <2>17, <4>1, CyclesFall
      <4>3. Lost' = Lost
        BY <1>4, <2>18, <3>1
      <4>4. \A c, x, y, t, l \in Nat : y + 1 <= x /\ c + x <= t + l => c + 1 + y <= t + l
        OBVIOUS
      <4>5. cycle + 1 + AllAhead' <= Altogether + Lost'
        BY <1>3, <1>5, <3>0, <4>2, <4>3, <4>4
      <4> QED
        BY <1>2, <1>3, <1>5, <3>0, <3>a, <4>2, <4>5
    <3>2. CASE ~isSupported(w)
      <4>1. AllAhead' \in Nat /\ AllAhead' <= AllAhead
        BY <1>1, <1>2, <2>0, <2>7, <2>17, CyclesFall
      <4>2. Lost' = 1
        BY <2>18, <3>2
      <4>3. CASE cycle + 1 + AllAhead <= Altogether + Lost
        <5>1. \A c, x, y, t \in Nat, l \in {0, 1} : y <= x /\ c + 1 + x <= t + l => c + 1 + y <= t + 1
          OBVIOUS
        <5>2. cycle + 1 + AllAhead' <= Altogether + Lost'
          BY <1>3, <1>4, <1>5, <4>1, <4>2, <4>3, <5>1
        <5> QED
          BY <1>2, <1>3, <1>5, <3>0, <3>a, <4>1, <5>2
      <4>4. CASE \A i \in Instructions : status[i] # "Dispatched"
        <5>1. Lost = 0
          BY <4>4 DEF Lost
        <5>2. \A c, x, y, t \in Nat : y <= x /\ c + x <= t + 0 => c + 1 + y <= t + 1
          OBVIOUS
        <5>3. cycle + 1 + AllAhead' <= Altogether + Lost'
          BY <1>3, <1>5, <4>1, <4>2, <5>1, <5>2
        <5> QED
          BY <1>2, <1>3, <1>5, <3>0, <3>a, <4>1, <5>3
      <4> QED
        BY <1>3, <4>3, <4>4
    <3> QED
      BY <3>1, <3>2
  <2>20. CyclesArePaid'
    BY <1>2, <2>4, <2>19 DEF CyclesArePaid
  <2> QED
    BY <1>2, <2>7, <2>8, <2>9, <2>10, <2>11, <2>12, <2>13, <2>20 DEF BoardRuns
<1> QED
  BY <1>6, <1>7

LEMMA SumsTypedNow == BoardTypeOK => AllAhead \in Nat /\ Altogether \in Nat
BY SumsTyped

LEMMA SumsTypedNext == BoardTypeOK' => AllAhead' \in Nat /\ Altogether' \in Nat
<1>1. (BoardTypeOK => AllAhead \in Nat /\ Altogether \in Nat)'
  BY SumsTypedNow, PTL
<1> QED
  BY <1>1

\* The constructor sets every instruction to waiting.
LEMMA LoadRuns ==
    ASSUME BoardInit, NEW file \in Boards, Load(file)
    PROVE  BoardRuns'
<1>1. /\ scorePc' = "clock" /\ board' = file /\ cycle' = 0 /\ busy' = {} /\ queue' = <<>>
      /\ processingInst' = [u \in Units |-> [s \in 1..Stages(u) |-> 0]]
      /\ status' = [i \in DOMAIN file.instructions |-> "Waiting"]
      /\ cyclesLeft' = [i \in DOMAIN file.instructions |-> 0]
      /\ producers' = [i \in DOMAIN file.instructions |-> <<>>]
      /\ writer' = [r \in (UNION {ToSet(file.instructions[i].operands) : i \in DOMAIN file.instructions})
                            \ {NoRegister} |-> 0]
  BY DEF Load, BoardInit
<1>2. Instructions' = DOMAIN file.instructions
  BY <1>1 DEF Instructions
<1>3. Registers' = (UNION {ToSet(file.instructions[i].operands) : i \in DOMAIN file.instructions}) \ {NoRegister}
  BY <1>1, <1>2 DEF Registers
<1>4. /\ \A i \in Instructions' : status'[i] = "Waiting"
      /\ \A r \in Registers' : writer'[r] = 0
      /\ \A u \in Units : processingInst'[u] = [s \in 1..Stages(u) |-> 0]
  BY <1>1, <1>2, <1>3
<1>5. InFlight' = {} /\ Issued' = {}
  BY <1>4 DEF InFlight, Issued
<1>6. BoardTypeOK'
  BY <1>1, <1>2, <1>3 DEF BoardTypeOK
<1>7. UnitsHold'
  <2>1. \A u \in Units : InUnit(u)' = {}
    BY <1>4 DEF InUnit, ToSet
  <2>2. ASSUME NEW u \in Units PROVE StagesHold(u, processingInst[u], cyclesLeft)'
    <3>1. processingInst'[u] \in [1..Stages(u) -> Instructions' \cup {0}]
      BY <1>4, <2>2
    <3> QED
      BY <1>4, <2>2, <3>1 DEF StagesHold
  <2> QED
    BY <1>5, <2>1, <2>2 DEF UnitsHold
<1>8. BusyIsRight'
  BY <1>1, <1>5 DEF BusyIsRight
<1>9. TakenInOrder'
  BY <1>4 DEF TakenInOrder
<1>10. WritesInOrder'
  BY <1>1, <1>4, <1>5 DEF WritesInOrder
<1>11. QueueIsRight'
  <2>1. ToSet(queue') = {} /\ DOMAIN queue' = {}
    BY <1>1 DEF ToSet
  <2> QED
    BY <1>4, <1>5, <2>1 DEF QueueIsRight
<1>12. ReadsAreRight'
  BY <1>5 DEF ReadsAreRight
<1>13. CyclesArePaid'
  <2> DEFINE n == Len(file.instructions)
  <2>1. n \in Nat /\ Instructions' = 1..n /\ board' \in Boards
    BY <1>1, <1>2, BoardAssumption
  <2>2. \A i \in Instructions' : Ahead(i)' = Alone(i)'
    BY <1>4 DEF Ahead
  <2>3. AllAhead' = Altogether'
    BY <2>2 DEF AllAhead, Altogether
  <2>4. Lost' = 0
    BY <1>4 DEF Lost
  <2>5. Altogether' \in Nat
    BY <1>6, SumsTypedNext
  <2>a. \A x \in Nat : 0 + x <= x + 0 /\ 0 <= 1 + x
    OBVIOUS
  <2>6. 0 + Altogether' <= Altogether' + 0 /\ 0 <= 1 + Altogether'
    BY <2>5, <2>a
  <2> QED
    BY <1>1, <2>3, <2>4, <2>6 DEF CyclesArePaid
<1> QED
  BY <1>1, <1>6, <1>7, <1>8, <1>9, <1>10, <1>11, <1>12, <1>13 DEF BoardRuns

\* The invariant says of the start what BoardInit does.
LEMMA BoardInvInductive ==
    ASSUME BoardInv, [BoardNext]_boardVars
    PROVE  BoardInv'
<1>1. CASE scorePc = "start"
  <2>1. BoardInit
    BY <1>1 DEF BoardInv
  <2>2. CASE \E file \in Boards : Load(file)
    <3>1. BoardRuns'
      BY <2>1, <2>2, LoadRuns
    <3> QED
      BY <3>1 DEF BoardInv, BoardRuns, BoardTypeOK
  <2>3. CASE UNCHANGED boardVars
    BY <1>1, <2>1, <2>3 DEF BoardInv, BoardInit, boardVars
  <2> QED
    BY <1>1, <2>2, <2>3 DEF BoardNext, advanceClock, Finish, issueInorder, issueOutorder, dispatchInstruction
<1>2. CASE scorePc # "start"
  <2>1. BoardRuns
    BY <1>2 DEF BoardInv
  <2> SUFFICES BoardRuns'
    BY DEF BoardInv, BoardRuns, BoardTypeOK
  <2>2. CASE advanceClock
    BY <2>1, <2>2, ClockKeepsRuns
  <2>3. CASE Finish
    <3>1. /\ scorePc = "clock" /\ isCompleted /\ scorePc' = "done"
          /\ board' = board /\ cycle' = cycle /\ status' = status /\ cyclesLeft' = cyclesLeft
          /\ processingInst' = processingInst /\ busy' = busy /\ queue' = queue /\ writer' = writer
          /\ producers' = producers
      BY <2>3 DEF Finish
    <3>2. cycle' \in Nat
      BY <2>1, <3>1 DEF BoardRuns, BoardTypeOK
    <3>3. /\ BoardTypeOK' /\ UnitsHold' /\ BusyIsRight' /\ TakenInOrder' /\ WritesInOrder' /\ QueueIsRight'
          /\ ReadsAreRight'
          /\ AllAhead' = AllAhead /\ Altogether' = Altogether /\ Lost' = Lost
      BY <2>1, <3>1, <3>2, SameState
    <3>4. CyclesArePaid'
      BY <2>1, <3>1, <3>3 DEF BoardRuns, CyclesArePaid
    <3>5. isCompleted'
      BY <3>1 DEF isCompleted, Instructions
    <3> QED
      BY <3>1, <3>3, <3>4, <3>5 DEF BoardRuns
  <2>4. CASE issueInorder
    BY <2>1, <2>4, InorderKeepsRuns
  <2>5. CASE issueOutorder
    BY <2>1, <2>5, OutorderKeepsRuns
  <2>6. CASE dispatchInstruction
    BY <2>1, <2>6, DispatchKeepsRuns
  <2>7. CASE UNCHANGED boardVars
    <3>1. /\ scorePc' = scorePc
          /\ board' = board /\ cycle' = cycle /\ status' = status /\ cyclesLeft' = cyclesLeft
          /\ processingInst' = processingInst /\ busy' = busy /\ queue' = queue /\ writer' = writer
          /\ producers' = producers
      BY <2>7 DEF boardVars
    <3>2. cycle' \in Nat /\ scorePc' \in {"clock", "issue", "dispatch", "done", "exit"}
      BY <2>1, <3>1 DEF BoardRuns, BoardTypeOK
    <3>3. /\ BoardTypeOK' /\ UnitsHold' /\ BusyIsRight' /\ TakenInOrder' /\ WritesInOrder' /\ QueueIsRight'
          /\ ReadsAreRight'
          /\ AllAhead' = AllAhead /\ Altogether' = Altogether /\ Lost' = Lost
      BY <2>1, <3>1, <3>2, SameState
    <3>4. Instructions' = Instructions /\ \A i : isSupported(i)' <=> isSupported(i)
      BY <3>1, SameProgram
    <3>5. InFlight' = InFlight /\ (isCompleted' <=> isCompleted) /\ Waiting' = Waiting
      BY <3>1, <3>4 DEF InFlight, isCompleted, Waiting
    <3>6. CyclesArePaid'
      BY <2>1, <3>1, <3>3, <3>4, <3>5 DEF BoardRuns, CyclesArePaid
    <3>7. /\ scorePc' = "exit" => \E i \in Instructions' : ~isSupported(i)'
          /\ scorePc' = "done" => isCompleted'
      BY <2>1, <3>1, <3>4, <3>5 DEF BoardRuns
    <3> QED
      BY <3>3, <3>6, <3>7 DEF BoardRuns
  <2> QED
    BY <1>2, <2>2, <2>3, <2>4, <2>5, <2>6, <2>7 DEF BoardNext
<1> QED
  BY <1>1, <1>2

LEMMA BoardInvHolds == BoardSpec => []BoardInv
<1>1. BoardInit => BoardInv
  BY DEF BoardInv, BoardInit
<1>2. BoardInv /\ [BoardNext]_boardVars => BoardInv'
  BY BoardInvInductive
<1> QED
  BY <1>1, <1>2, PTL DEF BoardSpec

\* The registers are left as the last writers of the program leave them.
LEMMA WritersAtTheEnd ==
    ASSUME BoardRuns, board.orderType = "inorder", isCompleted, NEW r \in Registers
    PROVE  writer[r] = Producer(Len(board.instructions) + 1, r)
<1> DEFINE n == Len(board.instructions) + 1
           N == {j \in Instructions : j < n /\ getDestination(j) = r} \cup {0}
<1>1. BoardTypeOK /\ TakenInOrder /\ WritesInOrder
  BY DEF BoardRuns
<1>2. Instructions \subseteq Nat /\ 0 \notin Instructions /\ \A j \in Instructions : j < n
  BY <1>1, Program DEF BoardTypeOK
<1>3. N \in SUBSET Nat
  <2>1. ASSUME NEW j \in N PROVE j \in Nat
    <3>1. j \in Instructions \/ j = 0
      OBVIOUS
    <3> QED
      BY <1>2, <3>1
  <2> HIDE DEF N
  <2> QED
    BY <2>1
<1> HIDE DEF n
<1>4. writer[r] \in N
  BY <1>1, <1>2 DEF TakenInOrder
<1>5. ASSUME NEW j \in N PROVE j <= writer[r]
  <2>1. writer[r] \in Nat
    BY <1>1 DEF BoardTypeOK
  <2>2. CASE j = 0
    BY <2>1, <2>2
  <2>3. CASE j # 0
    <3>1. j \in Instructions /\ getDestination(j) = r
      BY <1>5, <2>3
    <3>2. status[j] = "Completed"
      BY <3>1 DEF isCompleted
    <3> QED
      BY <1>1, <3>1, <3>2 DEF WritesInOrder
  <2> QED
    BY <2>2, <2>3
<1>6. Producer(n, r) = Max(N)
  BY DEF Producer
<1> HIDE DEF N
<1>7. Max(N) = writer[r]
  BY <1>3, <1>4, <1>5, MaxIs
<1> QED
  BY <1>6, <1>7 DEF n

\* Instructions issued in order read and leave what the program says, issued
\* out of order none reads what a later one has written; the program never
\* stops at one of its own tests, and its cycles are at most those of the
\* instructions one after the other, for every program, width and penalty.
THEOREM ProgramOrderIsKept == BoardSpec => []OrderIsKept
<1>1. BoardInv => OrderIsKept
  <2> SUFFICES ASSUME BoardInv PROVE OrderIsKept
    OBVIOUS
  <2>1. CASE scorePc = "start"
    <3>1. BoardInit
      BY <2>1 DEF BoardInv
    <3>2. Len(board.instructions) = 0 /\ Instructions = {} /\ cycle = 0
      BY <3>1 DEF BoardInit, Instructions
    <3> DEFINE a == [i \in Instructions |-> Alone(i)]
    <3>3. a \in [1..0 -> Nat]
      BY <3>2
    <3> HIDE DEF a
    <3>4. SumTo(a, 0) \in Nat
      <4>1. 0 \in Nat /\ 0 \notin 1..0 /\ \A k \in 1..0 : a[k] <= a[k]
        OBVIOUS
      <4> QED
        BY <3>3, <4>1, SmallerSum
    <3>5. cycle <= 1 + SumTo([i \in Instructions |-> Alone(i)], Len(board.instructions))
      BY <3>2, <3>4 DEF a
    <3>6. Issued = {}
      BY <3>2 DEF Issued
    <3> QED
      BY <2>1, <3>5, <3>6 DEF OrderIsKept
  <2>2. CASE scorePc # "start"
    <3>1. BoardRuns
      BY <2>2 DEF BoardInv
    <3>2. cycle <= 1 + SumTo([i \in Instructions |-> Alone(i)], Len(board.instructions))
      BY <3>1 DEF BoardRuns, CyclesArePaid, Altogether
    <3>3. DOMAIN writer = Registers
      BY <3>1 DEF BoardRuns, BoardTypeOK
    <3>4. scorePc = "done" /\ board.orderType = "inorder" =>
            \A r \in DOMAIN writer : writer[r] = Producer(Len(board.instructions) + 1, r)
      <4>1. scorePc = "done" => isCompleted
        BY <3>1 DEF BoardRuns
      <4> QED
        BY <3>1, <3>3, <4>1, WritersAtTheEnd
    <3>5. scorePc = "exit" => \E i \in Instructions : ~isSupported(i)
      BY <3>1 DEF BoardRuns
    <3>6. ReadsAreRight
      BY <3>1 DEF BoardRuns
    <3> QED
      BY <3>2, <3>4, <3>5, <3>6 DEF OrderIsKept, ReadsAreRight
  <2> QED
    BY <2>1, <2>2
<1> QED
  BY <1>1, BoardInvHolds, PTL

-----------------------------------------------------------------------------
(* The branch predictor.                                                   *)

\* j is the last turn at which b was executed.
LatestOf(b, j) == executed[j][1] = b /\ \A k \in DOMAIN executed : k > j => executed[k][1] # b

PredictorTypeOK ==
    /\ local_predictor_states \in [Ids -> 0..3]
    /\ last_global_predictor_index \in 0..(MAXIMUM_GLOBAL_PREDICTOR_STATES - 1)
    /\ executed \in Seq(Ids \X {0, 1})
    /\ counts.tournament \in Int /\ agreed.right \in Int /\ agreed.wrong \in Int

\* The counter of a branch leans to its latest outcome, so that another one
\* like it is enough to predict it.
CountersLean ==
    \A b \in Ids : \A j \in DOMAIN executed :
      LatestOf(b, j) => local_predictor_states[b] \in IF executed[j][2] = 1 THEN 1..3 ELSE 0..2

PredictorInv == PredictorTypeOK /\ CountersLean /\ PredictorsLearn

\* The equations of a power of two.
LEMMA Doubling ==
    ASSUME NEW n \in Nat
    PROVE  \E s \in [0..n -> Nat] : /\ s[0] = 1
                                    /\ \A k \in 1..n : s[k] = 2 * s[k - 1]
                                    /\ PowerOfTwo(n) = s[n]
<1> DEFINE Fix(m, s) == s = [k \in 0..m |-> IF k = 0 THEN 1 ELSE 2 * s[k - 1]]
           Bad == {m \in 0..n : ~ \E s : Fix(m, s)}
<1>1. Bad = {}
  <2> SUFFICES ASSUME Bad # {} PROVE FALSE
    OBVIOUS
  <2> DEFINE m == Min(Bad)
  <2>0. Bad \in SUBSET Nat
    OBVIOUS
  <2>1. m \in Bad /\ \A k \in Bad : m <= k
    <3> HIDE DEF Bad
    <3> QED
      BY <2>0, LeastIsMember
  <2> HIDE DEF m
  <2>2. CASE m = 0
    <3> DEFINE s == [k \in 0..0 |-> 1]
    <3>1. Fix(0, s)
      OBVIOUS
    <3> QED
      BY <2>1, <2>2, <3>1
  <2>3. CASE m # 0
    <3>0. m \in 0..n
      BY <2>1
    <3>1. m \in 1..n /\ m - 1 \in 0..n /\ m - 1 \notin Bad
      <4> HIDE DEF Bad
      <4> QED
        BY <2>1, <2>3, <3>0
    <3>2. PICK s : Fix(m - 1, s)
      BY <3>1
    <3> DEFINE t == [k \in 0..m |-> IF k = m THEN 2 * s[m - 1] ELSE s[k]]
    <3> HIDE DEF Bad
    <3>3. \A k \in 0..(m - 1) : s[k] = IF k = 0 THEN 1 ELSE 2 * s[k - 1]
      BY <3>2
    <3>4. \A k \in 0..m : t[k] = IF k = 0 THEN 1 ELSE 2 * t[k - 1]
      BY <3>1, <3>3
    <3>5. t = [k \in 0..m |-> t[k]]
      OBVIOUS
    <3>6. Fix(m, t)
      <4> HIDE DEF t
      <4> QED
        BY <3>4, <3>5
    <3> QED
      BY <2>1, <3>6 DEF Bad
  <2> QED
    BY <2>2, <2>3
<1> DEFINE s == CHOOSE s : Fix(n, s)
<1>2. Fix(n, s)
  <2>1. n \in 0..n /\ n \notin Bad
    <3> HIDE DEF Bad
    <3> QED
      BY <1>1
  <2>2. \E t : Fix(n, t)
    BY <2>1
  <2> HIDE DEF Fix
  <2> QED
    BY <2>2
<1>3. PowerOfTwo(n) = s[n]
  BY DEF PowerOfTwo
<1> HIDE DEF s
<1>4. s = [k \in 0..n |-> s[k]] /\ s[0] = 1 /\ \A k \in 1..n : s[k] = 2 * s[k - 1]
  BY <1>2
<1> HIDE DEF Fix
<1>5. \A k \in 0..n : s[k] \in Nat
  <2> DEFINE None == {k \in 0..n : s[k] \notin Nat}
  <2> SUFFICES ASSUME None # {} PROVE FALSE
    OBVIOUS
  <2> DEFINE m == Min(None)
  <2>0. None \in SUBSET Nat
    OBVIOUS
  <2>1. m \in None /\ \A k \in None : m <= k
    <3> HIDE DEF None
    <3> QED
      BY <2>0, LeastIsMember
  <2> HIDE DEF m
  <2>a. m \in 0..n /\ s[m] \notin Nat
    BY <2>1
  <2>b. m # 0
    BY <1>4, <2>a
  <2>2. m \in 1..n /\ m - 1 \in 0..n /\ m - 1 \notin None
    <3> HIDE DEF None
    <3> QED
      BY <2>1, <2>a, <2>b
  <2>3. s[m - 1] \in Nat
    BY <2>2
  <2>4. s[m] = 2 * s[m - 1]
    BY <1>4, <2>2
  <2> QED
    BY <2>a, <2>3, <2>4
<1> QED
  BY <1>3, <1>4, <1>5

\* Each power of two is twice the one before.
LEMMA PowersDouble ==
    /\ PowerOfTwo(0) = 1
    /\ \A n \in Nat : PowerOfTwo(n) \in Nat /\ PowerOfTwo(n + 1) = 2 * PowerOfTwo(n)
<1>1. PowerOfTwo(0) = 1
  BY Doubling
<1>2. ASSUME NEW n \in Nat PROVE PowerOfTwo(n) \in Nat /\ PowerOfTwo(n + 1) = 2 * PowerOfTwo(n)
  <2>1. PICK s \in [0..n -> Nat] :
          s[0] = 1 /\ (\A k \in 1..n : s[k] = 2 * s[k - 1]) /\ PowerOfTwo(n) = s[n]
    BY Doubling
  <2>2. PICK t \in [0..(n + 1) -> Nat] :
          t[0] = 1 /\ (\A k \in 1..(n + 1) : t[k] = 2 * t[k - 1]) /\ PowerOfTwo(n + 1) = t[n + 1]
    <3> DEFINE m == n + 1
    <3>1. m \in Nat
      OBVIOUS
    <3> HIDE DEF m
    <3>2. \E t \in [0..m -> Nat] : t[0] = 1 /\ (\A k \in 1..m : t[k] = 2 * t[k - 1]) /\ PowerOfTwo(m) = t[m]
      BY <3>1, Doubling
    <3> QED
      BY <3>2 DEF m
  <2> DEFINE Apart == {k \in 0..n : s[k] # t[k]}
  <2>3. Apart = {}
    <3> SUFFICES ASSUME Apart # {} PROVE FALSE
      OBVIOUS
    <3> DEFINE m == Min(Apart)
    <3>1. Apart \in SUBSET Nat
      OBVIOUS
    <3>2. m \in Apart /\ \A k \in Apart : m <= k
      <4> HIDE DEF Apart
      <4> QED
        BY <3>1, LeastIsMember
    <3> HIDE DEF m
    <3>3. m \in 0..n /\ s[m] # t[m]
      BY <3>2
    <3>4. m # 0
      BY <2>1, <2>2, <3>3
    <3>5. m \in 1..n /\ m \in 1..(n + 1) /\ m - 1 \in 0..n /\ m - 1 \notin Apart
      <4> HIDE DEF Apart
      <4> QED
        BY <3>2, <3>3, <3>4
    <3>6. s[m - 1] = t[m - 1]
      BY <3>5
    <3> QED
      BY <2>1, <2>2, <3>3, <3>5, <3>6
  <2>4. n \in 0..n /\ s[n] = t[n] /\ s[n] \in Nat
    BY <2>3
  <2>5. n + 1 \in 1..(n + 1) /\ (n + 1) - 1 = n
    OBVIOUS
  <2>6. t[n + 1] = 2 * t[n]
    BY <2>2, <2>5
  <2> QED
    BY <2>1, <2>2, <2>4, <2>6
<1> QED
  BY <1>1, <1>2

LEMMA PowersPositive == \A n \in Nat : PowerOfTwo(n) \in Nat \ {0}
<1> DEFINE None == {n \in Nat : PowerOfTwo(n) = 0}
<1>1. None = {}
  <2> SUFFICES ASSUME None # {} PROVE FALSE
    OBVIOUS
  <2> DEFINE m == Min(None)
  <2>1. None \in SUBSET Nat
    OBVIOUS
  <2>2. m \in None /\ \A k \in None : m <= k
    <3> HIDE DEF None
    <3> QED
      BY <2>1, LeastIsMember
  <2> HIDE DEF m
  <2>3. m \in Nat /\ PowerOfTwo(m) = 0
    BY <2>2
  <2>4. m # 0
    BY <2>3, PowersDouble
  <2>5. m - 1 \in Nat /\ m - 1 \notin None
    <3> HIDE DEF None
    <3> QED
      BY <2>2, <2>3, <2>4
  <2>6. PowerOfTwo((m - 1) + 1) = 2 * PowerOfTwo(m - 1) /\ PowerOfTwo(m - 1) \in Nat
    BY <2>5, PowersDouble
  <2>7. (m - 1) + 1 = m
    BY <2>3
  <2>8. PowerOfTwo(m - 1) # 0
    BY <2>5
  <2> QED
    BY <2>3, <2>6, <2>7, <2>8
<1> QED
  BY <1>1, PowersDouble

\* A power of two is an even multiple of the smaller ones.
LEMMA PowersDivide ==
    ASSUME NEW i \in Nat
    PROVE  \A j \in Nat : i < j => \E q \in Nat : PowerOfTwo(j) = PowerOfTwo(i) * (2 * q)
<1> DEFINE Bad == {j \in Nat : i < j /\ ~ \E q \in Nat : PowerOfTwo(j) = PowerOfTwo(i) * (2 * q)}
<1>1. Bad = {}
  <2> SUFFICES ASSUME Bad # {} PROVE FALSE
    OBVIOUS
  <2> DEFINE m == Min(Bad)
  <2>1. Bad \in SUBSET Nat
    OBVIOUS
  <2>2. m \in Bad /\ \A k \in Bad : m <= k
    <3> HIDE DEF Bad
    <3> QED
      BY <2>1, LeastIsMember
  <2> HIDE DEF m
  <2>3. m \in Nat /\ i < m
    BY <2>2
  <2> DEFINE j == m - 1
  <2>4. j \in Nat /\ m = j + 1 /\ i <= j /\ j \notin Bad
    <3> HIDE DEF Bad
    <3> QED
      BY <2>2, <2>3
  <2>5. PowerOfTwo(m) = 2 * PowerOfTwo(j) /\ PowerOfTwo(i) \in Nat
    <3> HIDE DEF j
    <3> QED
      BY <2>4, PowersDouble
  <2> SUFFICES \E q \in Nat : PowerOfTwo(m) = PowerOfTwo(i) * (2 * q)
    BY <2>2
  <2>6. CASE i = j
    <3>1. PowerOfTwo(m) = PowerOfTwo(i) * (2 * 1)
      BY <2>5, <2>6
    <3> QED
      BY <3>1
  <2>7. CASE i < j
    <3>1. PICK q \in Nat : PowerOfTwo(j) = PowerOfTwo(i) * (2 * q)
      BY <2>4, <2>7
    <3>2. \A x \in Nat, y \in Nat : 2 * (x * (2 * y)) = x * (2 * (2 * y))
      OBVIOUS
    <3>3. PowerOfTwo(m) = PowerOfTwo(i) * (2 * (2 * q)) /\ 2 * q \in Nat
      BY <2>5, <3>1, <3>2
    <3> QED
      BY <3>3
  <2> QED
    BY <2>4, <2>6, <2>7
<1> QED
  BY <1>1

\* What a shift by one does to the quotients.
LEMMA Halves ==
    /\ \A x \in Nat, t \in 0..1 : (2 * x + t) \div 2 = x /\ (2 * x + t) % 2 = t
    /\ \A x \in Nat : x \div 1 = x
    /\ \A x \in Int, c \in Int : (x + 2 * c) % 2 = x % 2
    /\ \A x \in Nat, p \in Nat \ {0} : (x \div 2) \div p = x \div (2 * p) /\ x \div p \in Nat
    /\ \A x \in Int, c \in Int, p \in Nat \ {0} : (x + p * c) \div p = (x \div p) + c
<1>1. \A x \in Nat, t \in 0..1 : (2 * x + t) \div 2 = x /\ (2 * x + t) % 2 = t
  OBVIOUS
<1>2. \A x \in Nat : x \div 1 = x
  OBVIOUS
<1>3. \A x \in Int, c \in Int : (x + 2 * c) % 2 = x % 2
  OBVIOUS
<1>4. ASSUME NEW x \in Nat, NEW p \in Nat \ {0}
      PROVE  (x \div 2) \div p = x \div (2 * p) /\ x \div p \in Nat
  OBVIOUS
<1>5. ASSUME NEW x \in Int, NEW c \in Int, NEW p \in Nat \ {0}
      PROVE  (x + p * c) \div p = (x \div p) + c
  OBVIOUS
<1> QED
  BY <1>1, <1>2, <1>3, <1>4, <1>5

\* The new outcome becomes bit 0 of the index, the other bits move up, and
\* the highest is lost.
LEMMA IndexShifts ==
    ASSUME NEW h \in Nat, NEW x \in 0..(PowerOfTwo(h) - 1), NEW t \in 0..1
    PROVE  LET y == (2 * x + t) % PowerOfTwo(h)
           IN  /\ y \in 0..(PowerOfTwo(h) - 1)
               /\ \A k \in 0..(h - 1) : (y \div PowerOfTwo(k)) % 2 =
                                          IF k = 0 THEN t ELSE (x \div PowerOfTwo(k - 1)) % 2
<1> DEFINE M == PowerOfTwo(h)
           y == (2 * x + t) % M
<1>1. M \in Nat \ {0}
  BY PowersPositive
<1>2. x \in Nat /\ x < M /\ 2 * x + t \in Nat /\ 2 * x + t < 2 * M
  <2> HIDE DEF M
  <2>1. x \in 0..(M - 1)
    BY DEF M
  <2> QED
    BY <1>1, <2>1
<1>3. y \in 0..(M - 1)
  <2> DEFINE z == 2 * x + t
  <2>1. z \in Nat
    BY <1>2
  <2> HIDE DEF M, z
  <2>2. z % M \in 0..(M - 1)
    BY <1>1, <2>1
  <2> QED
    BY <2>2 DEF z
<1>4. ASSUME NEW k \in 0..(h - 1)
      PROVE  (y \div PowerOfTwo(k)) % 2 = IF k = 0 THEN t ELSE (x \div PowerOfTwo(k - 1)) % 2
  <2> DEFINE N == PowerOfTwo(h - 1)
  <2>1. h - 1 \in Nat /\ k \in Nat /\ k <= h - 1
    OBVIOUS
  <2>2. M = 2 * N /\ N \in Nat \ {0}
    <3> DEFINE g == h - 1
    <3>1. g \in Nat /\ h = g + 1
      BY <2>1
    <3> HIDE DEF g
    <3>2. PowerOfTwo(h) = 2 * PowerOfTwo(g) /\ PowerOfTwo(g) \in Nat \ {0}
      BY <3>1, PowersDouble, PowersPositive
    <3> QED
      BY <3>2 DEF g
  <2> HIDE DEF M, N
  <2>3. PICK z \in Nat, e \in 0..1 : x = z + e * N /\ y = 2 * z + t
    <3> DEFINE w == 2 * x + t
    <3>1. w \in Nat /\ w < 2 * M /\ w % M = y
      BY <1>2
    <3> HIDE DEF w
    <3>2. w % M = IF w < M THEN w ELSE w - M
      BY <1>1, <3>1
    <3>3. CASE x < N
      <4>1. w < M
        BY <1>2, <2>2, <3>3 DEF w
      <4>2. x \in Nat /\ 0 \in 0..1 /\ x = x + 0 * N /\ y = 2 * x + t
        BY <1>2, <2>2, <3>1, <3>2, <4>1 DEF w
      <4> QED
        BY <4>2
    <3>4. CASE ~(x < N)
      <4>1. ~(w < M)
        BY <1>2, <2>2, <3>4 DEF w
      <4>2. x - N \in Nat /\ 1 \in 0..1 /\ x = (x - N) + 1 * N /\ y = 2 * (x - N) + t
        BY <1>2, <2>2, <3>1, <3>2, <3>4, <4>1 DEF w
      <4> QED
        BY <4>2
    <3> QED
      BY <3>3, <3>4
  <2> HIDE DEF y
  <2>4. CASE k = 0
    <3>1. PowerOfTwo(k) = 1
      BY <2>4, PowersDouble
    <3>2. y \in Nat /\ y \div 1 = y
      <4>1. y \in Nat
        BY <2>3
      <4> QED
        BY <4>1, Halves
    <3>3. y % 2 = t
      <4>1. (2 * z + t) % 2 = t
        BY Halves
      <4> QED
        BY <2>3, <4>1
    <3> QED
      BY <2>4, <3>1, <3>2, <3>3
  <2>5. CASE k # 0
    <3> DEFINE i == k - 1
               p == PowerOfTwo(i)
    <3>1. i \in Nat /\ k = i + 1 /\ i < h - 1
      BY <2>1, <2>5
    <3> HIDE DEF i
    <3>2. PowerOfTwo(k) = 2 * p /\ p \in Nat \ {0}
      BY <3>1, PowersDouble, PowersPositive
    <3>3. PICK q \in Nat : N = p * (2 * q)
      BY <2>1, <3>1, PowersDivide DEF N
    <3> HIDE DEF p
    <3>4. y \div (2 * p) = z \div p
      <4>1. y \in Nat /\ y \div 2 = z
        BY <2>3, Halves
      <4> QED
        BY <3>2, <4>1, Halves
    <3>5. \A a \in Nat, b \in Nat, c \in 0..1 : c * (a * (2 * b)) = a * (2 * (c * b)) /\ c * b \in Nat
      OBVIOUS
    <3>6. x = z + p * (2 * (e * q)) /\ e * q \in Nat
      BY <2>3, <3>2, <3>3, <3>5
    <3> DEFINE r == e * q
    <3>7. x = z + p * (2 * r) /\ r \in Nat /\ 2 * r \in Int
      BY <3>6
    <3> HIDE DEF r
    <3>8. x \div p = (z \div p) + 2 * r
      <4> DEFINE c == 2 * r
      <4>1. c \in Int /\ x = z + p * c /\ z \in Int
        BY <2>3, <3>7
      <4> HIDE DEF c
      <4>2. (z + p * c) \div p = (z \div p) + c
        BY <3>2, <4>1, Halves
      <4> QED
        BY <4>1, <4>2 DEF c
    <3>9. z \div p \in Int
      BY <2>3, <3>2, Halves
    <3>10. (x \div p) % 2 = (z \div p) % 2
      <4> DEFINE d == z \div p
      <4>1. d \in Int /\ r \in Int
        BY <3>7, <3>9
      <4> HIDE DEF d
      <4>2. (d + 2 * r) % 2 = d % 2
        BY <4>1, Halves
      <4> QED
        BY <3>8, <4>2 DEF d
    <3> QED
      BY <2>5, <3>2, <3>4, <3>10 DEF i, p
  <2> QED
    BY <2>4, <2>5
<1> QED
  BY <1>3, <1>4

LEMMA PredictorStarts == PredictorInit => PredictorInv
<1> SUFFICES ASSUME PredictorInit PROVE PredictorInv
  OBVIOUS
<1> USE DEF PredictorInit
<1>1. PowerOfTwo(HistoryBits) \in Nat \ {0}
  BY HistoryAssumption, PowersPositive
<1>2. DOMAIN executed = {} /\ executed \in Seq(Ids \X {0, 1}) /\ Len(executed) = 0
  OBVIOUS
<1>3. PredictorTypeOK
  BY <1>1, <1>2 DEF PredictorTypeOK, MAXIMUM_GLOBAL_PREDICTOR_STATES
<1>4. CountersLean
  BY <1>2 DEF CountersLean
<1>5. \A b \in Ids, taken \in {0, 1} : ~Repeated(b, taken)
  BY <1>2 DEF Repeated
<1>6. ASSUME NEW k \in 0..(HistoryBits - 1) PROVE (0 \div PowerOfTwo(k)) % 2 = 0
  <2>1. k \in Nat
    BY HistoryAssumption
  <2>2. PowerOfTwo(k) \in Nat \ {0}
    BY <2>1, PowersPositive
  <2>3. \A p \in Nat \ {0} : (0 \div p) % 2 = 0
    OBVIOUS
  <2> QED
    BY <2>2, <2>3
<1>7. \A k \in 0..(HistoryBits - 1) : ~(k < Len(executed))
  BY <1>2, HistoryAssumption
<1>8. counts.tournament \in agreed.right..(Len(executed) - agreed.wrong)
  BY <1>2
<1>9. last_global_predictor_index = 0
  OBVIOUS
<1> QED
  BY <1>3, <1>4, <1>5, <1>6, <1>7, <1>8, <1>9 DEF PredictorInv, PredictorsLearn

\* A turn of the loop: what is appended, and the counter of the branch.
LEMMA TurnEffect ==
    ASSUME PredictorTypeOK, NEW b \in Ids, NEW taken \in {0, 1}, Branch(b, taken)
    PROVE  /\ executed' \in Seq(Ids \X {0, 1})
           /\ Len(executed') = Len(executed) + 1
           /\ DOMAIN executed' = DOMAIN executed \cup {Len(executed) + 1}
           /\ executed'[Len(executed) + 1] = <<b, taken>>
           /\ \A j \in DOMAIN executed : executed'[j] = executed[j] /\ j < Len(executed) + 1
           /\ local_predictor_states' \in [Ids -> 0..3]
           /\ local_predictor_states'[b] = Saturated(local_predictor_states[b], taken)
           /\ \A c \in Ids \ {b} : local_predictor_states'[c] = local_predictor_states[c]
<1>1. executed' = Append(executed, <<b, taken>>) /\ update_local_predictor(b, taken)
  BY DEF Branch
<1>2. executed \in Seq(Ids \X {0, 1}) /\ <<b, taken>> \in Ids \X {0, 1}
  BY DEF PredictorTypeOK
<1>3. /\ executed' \in Seq(Ids \X {0, 1})
      /\ Len(executed') = Len(executed) + 1
      /\ executed'[Len(executed) + 1] = <<b, taken>>
      /\ \A j \in 1..Len(executed) : executed'[j] = executed[j]
  BY <1>1, <1>2, AppendProperties
<1>4. DOMAIN executed = 1..Len(executed) /\ DOMAIN executed' = 1..Len(executed') /\ Len(executed) \in Nat
  BY <1>2, <1>3
<1>5. DOMAIN executed' = DOMAIN executed \cup {Len(executed) + 1}
  <2>1. \A n \in Nat : 1..(n + 1) = (1..n) \cup {n + 1}
    OBVIOUS
  <2> QED
    BY <1>3, <1>4, <2>1
<1>6. \A j \in DOMAIN executed : executed'[j] = executed[j] /\ j < Len(executed) + 1
  BY <1>3, <1>4
<1>7. local_predictor_states[b] \in 0..3
  BY DEF PredictorTypeOK
<1>8. Saturated(local_predictor_states[b], taken) \in 0..3
  BY <1>7 DEF Saturated
<1>9. /\ local_predictor_states' \in [Ids -> 0..3]
      /\ local_predictor_states'[b] = Saturated(local_predictor_states[b], taken)
      /\ \A c \in Ids \ {b} : local_predictor_states'[c] = local_predictor_states[c]
  BY <1>1, <1>8 DEF PredictorTypeOK, update_local_predictor
<1> QED
  BY <1>3, <1>5, <1>6, <1>9

\* The counter leans to the new outcome, and predicts it if the latest before
\* was the same.
LEMMA TurnTeaches ==
    ASSUME PredictorInv, NEW b \in Ids, NEW taken \in {0, 1}, Branch(b, taken)
    PROVE  /\ CountersLean'
           /\ \A c \in Ids, t \in {0, 1} : Repeated(c, t)' => do_local_prediction(c)' = t
<1> DEFINE n == Len(executed) + 1
<1>0. PredictorTypeOK /\ CountersLean
  BY DEF PredictorInv
<1>1. /\ executed' \in Seq(Ids \X {0, 1})
      /\ DOMAIN executed' = DOMAIN executed \cup {n}
      /\ executed'[n] = <<b, taken>>
      /\ \A j \in DOMAIN executed : executed'[j] = executed[j] /\ j < n
      /\ local_predictor_states'[b] = Saturated(local_predictor_states[b], taken)
      /\ \A c \in Ids \ {b} : local_predictor_states'[c] = local_predictor_states[c]
  BY <1>0, TurnEffect
<1>2. DOMAIN executed \subseteq Nat /\ n \in Nat /\ local_predictor_states[b] \in 0..3
  BY <1>0 DEF PredictorTypeOK
<1> HIDE DEF n
<1>3. executed'[n][1] = b /\ executed'[n][2] = taken
  BY <1>1
<1>4. ASSUME NEW c \in Ids \ {b}, NEW j \in DOMAIN executed', LatestOf(c, j)'
      PROVE  j \in DOMAIN executed /\ LatestOf(c, j)
  <2>1. /\ executed'[j][1] = c
        /\ \A k \in DOMAIN executed' : k > j => executed'[k][1] # c
    BY <1>4 DEF LatestOf
  <2>2. j \in DOMAIN executed
    BY <1>1, <1>3, <2>1
  <2>3. executed[j][1] = c
    BY <1>1, <2>1, <2>2
  <2>4. ASSUME NEW k \in DOMAIN executed, k > j PROVE executed[k][1] # c
    BY <1>1, <2>1, <2>4
  <2> QED
    BY <2>2, <2>3, <2>4 DEF LatestOf
<1>5. ASSUME NEW j \in DOMAIN executed', LatestOf(b, j)' PROVE j = n
  <2>1. \A k \in DOMAIN executed' : k > j => executed'[k][1] # b
    BY <1>5 DEF LatestOf
  <2>2. ~(n > j)
    BY <1>1, <1>3, <2>1
  <2> QED
    BY <1>1, <1>2, <2>2
<1>6. CountersLean'
  <2>1. ASSUME NEW c \in Ids, NEW j \in DOMAIN executed', LatestOf(c, j)'
        PROVE  local_predictor_states'[c] \in IF executed'[j][2] = 1 THEN 1..3 ELSE 0..2
    <3>1. CASE c = b
      <4>1. executed'[j][2] = taken
        BY <1>3, <1>5, <2>1, <3>1
      <4>2. Saturated(local_predictor_states[b], taken) \in IF taken = 1 THEN 1..3 ELSE 0..2
        BY <1>2 DEF Saturated
      <4> QED
        BY <1>1, <3>1, <4>1, <4>2
    <3>2. CASE c # b
      <4>1. j \in DOMAIN executed /\ LatestOf(c, j)
        BY <1>4, <2>1, <3>2
      <4>2. local_predictor_states[c] \in IF executed[j][2] = 1 THEN 1..3 ELSE 0..2
        BY <1>0, <4>1 DEF CountersLean
      <4> QED
        BY <1>1, <3>2, <4>1, <4>2
    <3> QED
      BY <3>1, <3>2
  <2> QED
    BY <2>1 DEF CountersLean
<1>7. ASSUME NEW c \in Ids, NEW t \in {0, 1}, Repeated(c, t)'
      PROVE  do_local_prediction(c)' = t
  <2>1. PICK i \in DOMAIN executed', j \in DOMAIN executed' :
          /\ i < j /\ executed'[i] = <<c, t>> /\ executed'[j] = <<c, t>>
          /\ \A k \in DOMAIN executed' : k > i /\ executed'[k][1] = c => k = j
    BY <1>7 DEF Repeated
  <2>2. i \in Nat /\ j \in Nat
    BY <1>1, <1>2
  <2>3. i \in DOMAIN executed
    BY <1>1, <1>2, <2>1, <2>2
  <2>4. executed[i] = <<c, t>>
    BY <1>1, <2>1, <2>3
  <2>5. CASE c = b
    <3>1. n > i
      BY <1>1, <2>2, <2>3
    <3>2. j = n /\ t = taken
      <4>1. j = n
        BY <1>1, <1>3, <2>1, <2>5, <3>1
      <4>2. executed'[j][2] = t
        BY <2>1
      <4> QED
        BY <1>3, <4>1, <4>2
    <3>3. LatestOf(b, i)
      <4>1. ASSUME NEW k \in DOMAIN executed, k > i PROVE executed[k][1] # b
        <5>1. k \in DOMAIN executed' /\ k # n /\ executed'[k] = executed[k]
          BY <1>1, <1>2
        <5> QED
          BY <2>1, <2>5, <3>2, <4>1, <5>1
      <4>2. executed[i][1] = b
        BY <2>4, <2>5
      <4> QED
        BY <4>1, <4>2 DEF LatestOf
    <3>4. executed[i][2] = taken
      BY <2>4, <3>2
    <3>5. local_predictor_states[b] \in IF taken = 1 THEN 1..3 ELSE 0..2
      BY <1>0, <2>3, <3>3, <3>4 DEF CountersLean
    <3>6. Predict(Saturated(local_predictor_states[b], taken)) = taken
      BY <3>5 DEF Predict, Saturated
    <3> QED
      BY <1>1, <2>5, <3>2, <3>6 DEF do_local_prediction
  <2>6. CASE c # b
    <3>1. j \in DOMAIN executed /\ executed[j] = <<c, t>>
      <4>1. executed'[j][1] = c
        BY <2>1
      <4> QED
        BY <1>1, <1>3, <2>1, <2>6, <4>1
    <3>2. ASSUME NEW k \in DOMAIN executed, k > i, executed[k][1] = c PROVE k = j
      BY <1>1, <2>1, <3>2
    <3>3. Repeated(c, t)
      BY <2>1, <2>3, <2>4, <3>1, <3>2 DEF Repeated
    <3>4. do_local_prediction(c) = t
      BY <3>3 DEF PredictorInv, PredictorsLearn
    <3> QED
      BY <1>1, <2>6, <3>4 DEF do_local_prediction
  <2> QED
    BY <2>5, <2>6
<1> QED
  BY <1>6, <1>7

\* The index spells the outcomes with the new one.
LEMMA TurnIsSpelt ==
    ASSUME PredictorInv, NEW b \in Ids, NEW taken \in {0, 1}, Branch(b, taken)
    PROVE  /\ last_global_predictor_index' \in 0..(MAXIMUM_GLOBAL_PREDICTOR_STATES - 1)
           /\ \A k \in 0..(HistoryBits - 1) :
                (last_global_predictor_index' \div PowerOfTwo(k)) % 2 =
                   IF k < Len(executed') THEN executed'[Len(executed') - k][2] ELSE 0
<1> DEFINE x == last_global_predictor_index
           n == Len(executed)
<1>0. PredictorTypeOK
  BY DEF PredictorInv
<1>1. /\ Len(executed') = n + 1
      /\ executed'[n + 1] = <<b, taken>>
      /\ \A j \in DOMAIN executed : executed'[j] = executed[j]
  BY <1>0, TurnEffect
<1>2. n \in Nat /\ DOMAIN executed = 1..n
  BY <1>0 DEF PredictorTypeOK
<1>3. x' = (2 * x + taken) % PowerOfTwo(HistoryBits)
  BY DEF Branch, update_global_predictor, MAXIMUM_GLOBAL_PREDICTOR_STATES
<1>4. x \in 0..(PowerOfTwo(HistoryBits) - 1) /\ taken \in 0..1
  BY <1>0 DEF PredictorTypeOK, MAXIMUM_GLOBAL_PREDICTOR_STATES
<1>5. /\ x' \in 0..(PowerOfTwo(HistoryBits) - 1)
      /\ \A k \in 0..(HistoryBits - 1) :
           (x' \div PowerOfTwo(k)) % 2 = IF k = 0 THEN taken ELSE (x \div PowerOfTwo(k - 1)) % 2
  <2> HIDE DEF x
  <2> QED
    BY <1>3, <1>4, HistoryAssumption, IndexShifts
<1>6. ASSUME NEW k \in 0..(HistoryBits - 1)
      PROVE  (x' \div PowerOfTwo(k)) % 2 =
               IF k < Len(executed') THEN executed'[Len(executed') - k][2] ELSE 0
  <2>1. CASE k = 0
    <3>1. executed'[Len(executed') - k][2] = taken /\ k < Len(executed')
      BY <1>1, <1>2, <2>1
    <3> QED
      BY <1>5, <2>1, <3>1
  <2>2. CASE k # 0
    <3> DEFINE i == k - 1
    <3>1. i \in 0..(HistoryBits - 1) /\ k = i + 1
      BY HistoryAssumption, <2>2
    <3>2. (x \div PowerOfTwo(i)) % 2 = IF i < n THEN executed[n - i][2] ELSE 0
      <4> HIDE DEF i
      <4> QED
        BY <3>1 DEF PredictorInv, PredictorsLearn
    <3>3. (x' \div PowerOfTwo(k)) % 2 = (x \div PowerOfTwo(i)) % 2
      BY <1>5, <2>2
    <3>4. i < n => n - i \in DOMAIN executed
      BY <1>2, <3>1, HistoryAssumption
    <3>5. Len(executed') - k = n - i /\ (k < Len(executed') <=> i < n)
      BY <1>1, <1>2, <3>1, HistoryAssumption
    <3> HIDE DEF i, x, n
    <3>6. CASE i < n
      BY <1>1, <3>2, <3>3, <3>4, <3>5, <3>6
    <3>7. CASE ~(i < n)
      BY <3>2, <3>3, <3>5, <3>7
    <3> QED
      BY <3>6, <3>7
  <2> QED
    BY <2>1, <2>2
<1> QED
  BY <1>5, <1>6 DEF MAXIMUM_GLOBAL_PREDICTOR_STATES

\* The tournament is right if both are, and wrong if both are.
LEMMA TurnIsCounted ==
    ASSUME PredictorInv, NEW b \in Ids, NEW taken \in {0, 1}, Branch(b, taken)
    PROVE  /\ counts'.tournament \in Int /\ agreed'.right \in Int /\ agreed'.wrong \in Int
           /\ counts'.tournament \in agreed'.right..(Len(executed') - agreed'.wrong)
<1> DEFINE l == Hit(do_local_prediction(b), taken)
           g == Hit(do_global_prediction, taken)
           p == Hit(do_tournament_prediction(do_selection(b), do_global_prediction, do_local_prediction(b)), taken)
<1>1. l \in 0..1 /\ g \in 0..1 /\ p \in {l, g}
  BY DEF Hit, do_tournament_prediction
<1>2. /\ counts'.tournament = counts.tournament + p
      /\ agreed'.right = agreed.right + Min({l, g})
      /\ agreed'.wrong = agreed.wrong + 1 - Max({l, g})
  BY DEF Branch
<1>3. /\ counts.tournament \in Int /\ agreed.right \in Int /\ agreed.wrong \in Int
      /\ Len(executed) \in Nat
      /\ counts.tournament \in agreed.right..(Len(executed) - agreed.wrong)
  BY DEF PredictorInv, PredictorTypeOK, PredictorsLearn
<1>4. Len(executed') = Len(executed) + 1
  BY TurnEffect DEF PredictorInv
<1> HIDE DEF l, g, p
<1>5. Min({l, g}) \in {l, g} /\ Min({l, g}) <= p
  <2>1. {l, g} \in SUBSET Nat /\ {l, g} # {}
    BY <1>1
  <2>2. Min({l, g}) \in {l, g} /\ \A e \in {l, g} : Min({l, g}) <= e
    BY <2>1, LeastIsMember
  <2> QED
    BY <1>1, <2>2
<1>6. Max({l, g}) \in {l, g} /\ p <= Max({l, g})
  <2> DEFINE m == IF l <= g THEN g ELSE l
  <2>1. m \in {l, g} /\ \A e \in {l, g} : m >= e
    BY <1>1
  <2>2. m \in {e \in {l, g} : \A f \in {l, g} : e >= f}
    BY <2>1
  <2>3. Max({l, g}) \in {e \in {l, g} : \A f \in {l, g} : e >= f}
    BY <2>2 DEF Max
  <2> QED
    BY <1>1, <2>3
<1> DEFINE lo == Min({l, g})
           hi == Max({l, g})
<1>7. lo \in Int /\ hi \in Int /\ p \in Int /\ lo <= p /\ p <= hi
  BY <1>1, <1>5, <1>6
<1>8. /\ counts'.tournament = counts.tournament + p
      /\ agreed'.right = agreed.right + lo
      /\ agreed'.wrong = agreed.wrong + 1 - hi
  BY <1>2
<1> HIDE DEF lo, hi
<1>9. \A c \in Int, r \in Int, w \in Int, n \in Nat :
        c \in r..(n - w) => /\ c + p \in Int /\ r + lo \in Int /\ w + 1 - hi \in Int
                           /\ c + p \in (r + lo)..((n + 1) - (w + 1 - hi))
  BY <1>7
<1>10. LET c == counts.tournament
           r == agreed.right
           w == agreed.wrong
           n == Len(executed)
       IN  /\ c + p \in Int /\ r + lo \in Int /\ w + 1 - hi \in Int
           /\ c + p \in (r + lo)..((n + 1) - (w + 1 - hi))
  BY <1>3, <1>9
<1> QED
  BY <1>4, <1>8, <1>10

LEMMA PredictorStep == PredictorInv /\ [PredictorNext]_predictorVars => PredictorInv'
<1> SUFFICES ASSUME PredictorInv, [PredictorNext]_predictorVars PROVE PredictorInv'
  OBVIOUS
<1>1. ASSUME NEW b \in Ids, NEW taken \in {0, 1}, Branch(b, taken) PROVE PredictorInv'
  <2>1. PredictorTypeOK'
    BY <1>1, TurnEffect, TurnIsSpelt, TurnIsCounted
       DEF PredictorInv, PredictorTypeOK, MAXIMUM_GLOBAL_PREDICTOR_STATES
  <2>2. PredictorsLearn'
    BY <1>1, TurnTeaches, TurnIsSpelt, TurnIsCounted DEF PredictorsLearn
  <2> QED
    BY <1>1, <2>1, <2>2, TurnTeaches DEF PredictorInv
<1>2. CASE \/ Uninitialised
           \/ UNCHANGED predictorVars
  <2>1. UNCHANGED <<local_predictor_states, last_global_predictor_index, counts, agreed, executed>>
    BY <1>2 DEF Uninitialised, predictorVars
  <2>2. PredictorTypeOK'
    BY <2>1 DEF PredictorInv, PredictorTypeOK, MAXIMUM_GLOBAL_PREDICTOR_STATES
  <2>3. CountersLean'
    BY <2>1 DEF PredictorInv, CountersLean, LatestOf
  <2>4. PredictorsLearn'
    BY <2>1 DEF PredictorInv, PredictorsLearn, Repeated, do_local_prediction
  <2> QED
    BY <2>2, <2>3, <2>4 DEF PredictorInv
<1> QED
  BY <1>1, <1>2 DEF PredictorNext

\* For any branches, any length of the history and whatever selector_states
\* holds at the start: two equal outcomes of a branch in a row are what its
\* counter predicts next, the index spells the latest outcomes, and the
\* tournament is right where both predictors are and wrong where both are.
THEOREM PredictorsKeepLearning == PredictorSpec => []PredictorsLearn
<1>1. PredictorInv => PredictorsLearn
  BY DEF PredictorInv
<1> QED
  BY <1>1, PredictorStarts, PredictorStep, PTL DEF PredictorSpec

=============================================================================
