------------------------------ MODULE Knapsack ------------------------------
(***************************************************************************)
(* The knapsack programs of algorithms/proj3: by trying every combination  *)
(* (Q1-1), by four greedy rules (Q1-2) and by dynamic programming (Q1-3),  *)
(* and the reader of the input file that they share (knapsack.c).          *)
(***************************************************************************)
EXTENDS Integers, Sequences

CONSTANT Files \* the lines of the input file: a size, two lists, a capacity

\* The greedy rules divide by a weight and give up at a profit below zero.
ASSUME FilesAssumption ==
    Files \subseteq [size : Nat, weights : Seq(Nat \ {0}), profits : Seq(Nat), knapsack_capacity : Nat]

Methods == {"brute_force", "max_benefit", "min_weight", "max_weight", "benefit_per_unit", "dynamic"}

VARIABLES ksPc,    \* start, read, done or died
          ks,      \* size, weights, profits and knapsack_capacity
          method,  \* the procedure that is run
          chosen   \* the indices of the items that are printed

ksVars == <<ksPc, ks, method, chosen>>

KnapsackInit == /\ ksPc = "start"
                /\ ks = [size |-> 0, weights |-> <<>>, profits |-> <<>>, knapsack_capacity |-> 0]
                /\ method = "none"
                /\ chosen = {}

\* A list that is too short ends the program; what is left of one is ignored.
parse_input(file) ==
    /\ ksPc = "start"
    /\ IF file.size <= Len(file.weights) /\ file.size <= Len(file.profits)
       THEN /\ ksPc' = "read"
            /\ ks' = [file EXCEPT !.weights = SubSeq(@, 1, file.size), !.profits = SubSeq(@, 1, file.size)]
       ELSE /\ ksPc' = "died"
            /\ UNCHANGED ks
    /\ UNCHANGED <<method, chosen>>

Items == 1..ks.size
Total(values, items) ==
    LET sum[j \in 0..Len(values)] ==
          IF j = 0 THEN 0 ELSE IF j \in items THEN sum[j - 1] + values[j] ELSE sum[j - 1]
    IN  sum[Len(values)]
TotalWeight(items) == Total(ks.weights, items)
TotalProfit(items) == Total(ks.profits, items)

----------------------------------------------------------------------------
\* 1 << j
Bit[j \in Nat] == IF j = 0 THEN 1 ELSE 2 * Bit[j - 1]

\* Mistaken variant: the bits are counted from 1, and the last is never set.
CombinationFromOne(i) == {j \in Items : (i \div Bit[j]) % 2 = 1}

\* Q1-1: the bits of i are the items of the combination i, and only a better
\* one takes the place of the best so far.
Combination(i) == {j \in Items : (i \div Bit[j - 1]) % 2 = 1}

perform_brute_force ==
    LET best[i \in 0..Bit[ks.size]] ==
          IF i = 0 THEN {}
          ELSE LET comb == Combination(i - 1)
                   required_comb == best[i - 1]
               IN  IF TotalWeight(comb) <= ks.knapsack_capacity /\ TotalProfit(comb) > TotalProfit(required_comb)
                   THEN comb ELSE required_comb
    IN  best[Bit[ks.size]]

----------------------------------------------------------------------------
\* Q1-2: the first of the items with the largest, or smallest, key.
find_maximum(arr, left) == CHOOSE i \in left : \A j \in left : arr[j] < arr[i] \/ (arr[j] = arr[i] /\ i <= j)
find_minimum(arr, left) == CHOOSE i \in left : \A j \in left : arr[j] > arr[i] \/ (arr[j] = arr[i] /\ i <= j)

\* The items in the order of the rule; one that does not fit any more is
\* passed over and the rest is still tried.
Greedy(arr, largest) ==
    LET after[round \in 0..ks.size] ==
          IF round = 0 THEN [left |-> Items, added |-> {}]
          ELSE LET left == after[round - 1].left
                   added == after[round - 1].added
                   index == IF largest THEN find_maximum(arr, left) ELSE find_minimum(arr, left)
                   fits == TotalWeight(added) + ks.weights[index] <= ks.knapsack_capacity
               IN  [left |-> left \ {index}, added |-> IF fits THEN added \cup {index} ELSE added]
    IN  after[ks.size].added

perform_greedy_max_benefit_first == Greedy(ks.profits, TRUE)
perform_greedy_minimum_weight_first == Greedy(ks.weights, FALSE)
perform_greedy_maximum_weight_first == Greedy(ks.weights, TRUE)
perform_greedy_max_benefit_per_unit_first == Greedy([j \in Items |-> ks.profits[j] \div ks.weights[j]], TRUE)

----------------------------------------------------------------------------
\* Q1-3: the best profit of the first i items in a knapsack of capacity j.
Table ==
    LET table[i \in 0..ks.size] ==
          IF i = 0 THEN [j \in 0..ks.knapsack_capacity |-> 0]
          ELSE LET above == table[i - 1]
                   temp(j) == above[j - ks.weights[i]] + ks.profits[i]
               IN  [j \in 0..ks.knapsack_capacity |->
                      IF j = 0 THEN 0 ELSE IF ks.weights[i] <= j /\ temp(j) > above[j] THEN temp(j) ELSE above[j]]
    IN  table

\* From the last item back: it is in the knapsack where the profit changes.
TraceBack(table) ==
    LET after[round \in 0..ks.size] ==
          IF round = 0 THEN [temp |-> ks.knapsack_capacity, printed |-> {}]
          ELSE LET i == ks.size - (round - 1)
                   temp == after[round - 1].temp
                   printed == after[round - 1].printed
               IN  IF table[i][temp] # table[i - 1][temp]
                   THEN [temp |-> temp - ks.weights[i], printed |-> printed \cup {i}]
                   ELSE [temp |-> temp, printed |-> printed]
    IN  after[ks.size].printed

perform_dynamic_pragramming == TraceBack(Table)

----------------------------------------------------------------------------
Perform(m) == /\ ksPc = "read"
              /\ ksPc' = "done"
              /\ method' = m
              /\ chosen' = CASE m = "brute_force" -> perform_brute_force
                             [] m = "max_benefit" -> perform_greedy_max_benefit_first
                             [] m = "min_weight" -> perform_greedy_minimum_weight_first
                             [] m = "max_weight" -> perform_greedy_maximum_weight_first
                             [] m = "benefit_per_unit" -> perform_greedy_max_benefit_per_unit_first
                             [] m = "dynamic" -> perform_dynamic_pragramming
              /\ UNCHANGED ks

KnapsackNext == \/ ksPc = "start" /\ \E file \in Files : parse_input(file)
                \/ \E m \in Methods : Perform(m)

KnapsackSpec == KnapsackInit /\ [][KnapsackNext]_ksVars

----------------------------------------------------------------------------
\* Whatever the method, the items fit.  No method leaves out an item that
\* still fits and is worth something, and the two exact ones find a profit
\* that no choice of items beats.
KnapsackIsBest ==
    ksPc = "done" =>
        LET room == ks.knapsack_capacity - TotalWeight(chosen)
        IN  /\ room >= 0
            /\ \A j \in Items \ chosen : ks.profits[j] > 0 => ks.weights[j] > room
            /\ method \in {"brute_force", "dynamic"} =>
                 \A items \in SUBSET Items :
                    TotalWeight(items) <= ks.knapsack_capacity => TotalProfit(items) <= TotalProfit(chosen)
=============================================================================
