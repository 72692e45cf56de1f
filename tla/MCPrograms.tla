----------------------------- MODULE MCPrograms -----------------------------
(***************************************************************************)
(* The programs that share nothing with each other, concurrent ones first: *)
(* program is the one that runs, on each of its inputs, and the others     *)
(* stay where they begin.                                                  *)
(***************************************************************************)
EXTENDS Proxy, ProcessList, ProcessTree, ThreadedSort,
        Algorithms, PhoneBook, BranchPredictor, Scoreboard, TLC

CONSTANTS Programs, ann, bob, cat

----------------------------------------------------------------------------
\* Proxy.  Three browsers, two at a time; two of which one gives up, with a
\* failure; two for the two failures that a request can meet before it is looked up.
Crowd(asks, who, n) == [asks |-> asks, leavers |-> who, faults |-> n]
MCCrowds == {Crowd(ann :> "u" @@ bob :> "v" @@ cat :> "u", {}, 0),
             Crowd(ann :> "u" @@ bob :> "u", {bob}, 1),
             Crowd(ann :> "u" @@ bob :> "bad", {ann, bob}, 1)}

\* ProcessList
MCFirstPids == <<1, 2>>
MCStateOf == 0 :> 0 @@ 1 :> 1 @@ 2 :> 130 @@ 3 :> -1

\* ThreadedSort.  Files of up to four numbers that fit, some that do not, five
\* pieces, and arguments that the program turns away.
Command(numbers, n, file, text) ==
    [numbers |-> numbers, split_num |-> n, is_regular_file |-> file, str_is_decimal_num |-> text]
MCCommands ==
    {Command(numbers, n, TRUE, TRUE) : numbers \in UNION {[1..k -> {-3, 0, 1}] : k \in {1, 3, 4}}, n \in 0..4}
    \cup {Command(numbers, n, TRUE, TRUE) : numbers \in {<<1, -1, 0, 1, -1>>, <<-4, 3, 3, 1>>}, n \in {1, 2, 3, 5}}
    \cup {Command(<<1, 0>>, 1, file, text) : file \in BOOLEAN, text \in BOOLEAN}

----------------------------------------------------------------------------
\* Knapsack.  Every two items, every three of three weights, one file of
\* knap.txt scaled down, and one whose lists are too short.
File(n, weights, profits, capacity) ==
    [size |-> n, weights |-> weights, profits |-> profits, knapsack_capacity |-> capacity]
MCFiles ==
    {File(2, w, p, n) : w \in [1..2 -> 1..4], p \in [1..2 -> 0..2], n \in 0..5}
    \cup {File(3, w, p, n) : w \in [1..3 -> {1, 2, 4}], p \in [1..3 -> {1, 3}], n \in {3, 5}}
    \cup {File(4, <<1, 4, 2, 3>>, <<5, 14, 6, 9>>, 6), File(3, <<1, 2>>, <<1, 2>>, 2)}

\* Dijkstra.  Every graph of three nodes with edges of two lengths, and two of five.
Rows(rows) == [i \in 0..(Len(rows) - 1) |-> [j \in 0..(Len(rows) - 1) |-> rows[i + 1][j + 1]]]
MCGraphs ==
    {g \in [0..2 -> [0..2 -> {0, 1, 3}]] : \A i \in 0..2 : g[i][i] = 0}
    \cup {Rows(<<<<0, 9, 2, 0, 0>>, <<0, 0, 0, 1, 0>>, <<0, 3, 0, 7, 0>>, <<0, 0, 0, 0, 2>>, <<1, 0, 0, 0, 0>>>>),
          Rows(<<<<0, 1, -1, 0, 0>>, <<1, 0, 0, 0, 4>>, <<0, 0, 0, 5, 0>>, <<0, 2, 1, 0, 0>>, <<0, 4, 0, 0, 0>>>>)}

\* Strassen.  Both products are bilinear, so that the matrices with a single 1 decide.
Unit(n, place) == [size |-> n, matrix |-> [ij \in Square(n) |-> IF ij = place THEN 1 ELSE 0]]
MCFactors == UNION {{<<Unit(n, one), Unit(n, other)>> : one \in Square(n), other \in Square(n)} : n \in 1..4}
             \cup {<<Unit(5, <<4, x>>), Unit(5, <<x, y>>)>> : x \in 0..4, y \in 0..4}

\* PhoneBook
MCNames == {<<1, 1>>, <<1, 2>>, <<2, 1>>}
MCLists == {<<>>} \cup [1..3 -> [name : MCNames, phone_number : {1, 2}]]
\* One number for a whole sort, or another one for each part.
MCDraws == {[part \in Parts |-> drawn] : drawn \in {0, 1, 2, 5}}
           \cup {[part \in Parts |-> part[2]], [part \in Parts |-> 2 * part[1] + part[2]]}

\* BranchPredictor.  Any of the values of a counter, and two that no counter has.
MCGarbage == {-2, 0, 3, 7}

\* Scoreboard.  Every three instructions over two registers, every four of a
\* load that misses, a store and three units, the input file of the program,
\* and a longer one with and without an operation that no unit knows.
Code(op, x, y, z) == [operation |-> op, operands |-> <<x, y, z>>]
Input(codes, order, width, miss) ==
    [instructions |-> codes, orderType |-> order, issueWidth |-> width, cacheMiss |-> miss]
Three == {Code(op, x, y, NoRegister) : op \in {"ADD", "MUL", "LDM"}, x \in {"R1", "R2"}, y \in {"R1", "R2"}}
Four == {Code("LDM", "R1", "R2", NoRegister), Code("ST", "R1", "R2", NoRegister), Code("ADD", "R2", "R1", "R1"),
         Code("MUL", "R1", "R2", "R1"), Code("DIV", "R2", "R1", NoRegister)}
Example == <<Code("LDM", "R1", "R2", NoRegister), Code("ADD", "R5", "R1", "R3"),
             Code("MUL", "R6", "R1", "R3"), Code("DIV", "R7", "R1", "R3")>>
Longer(op) == <<Code("DIV", "R1", "R2", "R2"), Code("DIV", "R2", "R1", NoRegister), Code("ST", "R2", "R3", NoRegister),
                Code("LDH", "R3", "R1", "R2"), Code("SUB", "R2", "R3", "R1"), Code(op, "R1", "R1", "R1")>>
MCBoards == UNION {
    {Input(codes, order, 2, 2) : codes \in [1..3 -> Three] \cup [1..4 -> Four]}
    \cup {Input(codes, order, width, 20) : codes \in {Example, Longer("MUL"), Longer("XOR")}, width \in 1..3}
    : order \in {"inorder", "outorder"}}

----------------------------------------------------------------------------
VARIABLE program

hostVars == <<proxyVars, pslistVars, treeVars, sortVars>>
algorithmVars == <<ksVars, dijkstraVars, strassenVars, trominoVars, phoneVars>>
simulatorVars == <<predictorVars, boardVars>>
vars == <<program, hostVars, algorithmVars, simulatorVars>>

Init == /\ program \in Programs
        /\ ProxyInit /\ PslistInit /\ TreeInit /\ SortInit
        /\ KnapsackInit /\ DijkstraInit /\ StrassenInit /\ TrominoInit /\ PhoneInit
        /\ PredictorInit /\ BoardInit

HostNext ==
    \/ program = "proxy" /\ ProxyNext /\ UNCHANGED <<pslistVars, treeVars, sortVars>>
    \/ program = "process_list" /\ PslistNext /\ UNCHANGED <<proxyVars, treeVars, sortVars>>
    \/ program = "process" /\ TreeNext /\ UNCHANGED <<proxyVars, pslistVars, sortVars>>
    \/ program = "threaded_msort" /\ SortNext /\ UNCHANGED <<proxyVars, pslistVars, treeVars>>

AlgorithmNext ==
    \/ program = "knapsack" /\ KnapsackNext /\ UNCHANGED <<dijkstraVars, strassenVars, trominoVars, phoneVars>>
    \/ program = "dijkstra" /\ DijkstraNext /\ UNCHANGED <<ksVars, strassenVars, trominoVars, phoneVars>>
    \/ program = "strassen" /\ StrassenNext /\ UNCHANGED <<ksVars, dijkstraVars, trominoVars, phoneVars>>
    \/ program = "tromino" /\ TrominoNext /\ UNCHANGED <<ksVars, dijkstraVars, strassenVars, phoneVars>>
    \/ program = "phone_directory" /\ PhoneNext /\ UNCHANGED <<ksVars, dijkstraVars, strassenVars, trominoVars>>

SimulatorNext ==
    \/ program = "branch_predictor" /\ PredictorNext /\ UNCHANGED boardVars
    \/ program = "scoreboard" /\ BoardNext /\ UNCHANGED predictorVars

Next == /\ UNCHANGED program
        /\ \/ HostNext /\ UNCHANGED <<algorithmVars, simulatorVars>>
           \/ AlgorithmNext /\ UNCHANGED <<hostVars, simulatorVars>>
           \/ SimulatorNext /\ UNCHANGED <<hostVars, algorithmVars>>

Spec == Init /\ [][Next]_vars
=============================================================================
