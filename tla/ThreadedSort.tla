----------------------------- MODULE ThreadedSort -----------------------------
(***************************************************************************)
(* threaded_msort.c: main reads a file of integers and cuts it into        *)
(* split_num pieces, one thread per piece sorts it with qsort, and rounds  *)
(* of threads merge two neighbouring pieces each until one is left.        *)
(***************************************************************************)
EXTENDS Integers, Sequences, SequencesExt, Functions

CONSTANTS IntMax,   \* the largest int
          Commands  \* the files and split sizes the program is called with

IntMin == -IntMax - 1

\* The file holds ints, and a split size is a text of digits.
ASSUME SortAssumption ==
    /\ IntMax \in Nat
    /\ \A command \in Commands : command.numbers \in Seq(IntMin..IntMax) /\ command.split_num \in Nat

Wrap(n) == IF n < IntMin THEN n + (IntMax - IntMin + 1)
           ELSE IF n > IntMax THEN n - (IntMax - IntMin + 1) ELSE n

VARIABLES sortPc,   \* start, qsort, merge, done, exit, sigfpe or abort
          data,     \* the numbers of the file
          sp_array, \* the pieces
          sorting,  \* the threads that have not returned yet, by their index
          output    \* the pieces that the merge threads have returned

sortVars == <<sortPc, data, sp_array, sorting, output>>

SortInit == /\ sortPc = "start"
            /\ data = <<>>
            /\ sp_array = <<>>
            /\ sorting = {}
            /\ output = <<>>

\* A split size is any text of digits, the empty one, which atoi makes 0, included.
Usable(command) == command.is_regular_file /\ command.str_is_decimal_num

\* Every piece has the same size but for the last, which takes what remains.
Piece(numbers, split_num, i) ==
    LET size == Len(numbers) \div split_num
    IN  SubSeq(numbers, (i - 1) * size + 1, IF i = split_num THEN Len(numbers) ELSE i * size)

\* main, and compute_qsort up to its joins.  A split size of 0 is a division by zero.
MainSort(command) ==
    LET numbers == command.numbers
        split_num == command.split_num
    IN  /\ sortPc = "start"
        /\ sortPc' = IF ~Usable(command) \/ Len(numbers) < split_num THEN "exit"
                     ELSE IF split_num = 0 THEN "sigfpe" ELSE "qsort"
        /\ data' = numbers
        /\ sp_array' = IF sortPc' # "qsort" THEN <<>>
                       ELSE [i \in 1..split_num |-> Piece(numbers, split_num, i)]
        /\ sorting' = DOMAIN sp_array'
        /\ UNCHANGED output

----------------------------------------------------------------------------
\* cmpfunc returns the difference of two ints, which may not fit into an int.
cmpfunc(m, n) == Wrap(m - n)

\* qsort puts its piece in the order of cmpfunc.  Where differences wrap, that
\* may be no order, and nothing is known of what qsort makes of the piece.
Orders(s) == {[i \in DOMAIN s |-> s[perm[i]]] : perm \in Bijection(DOMAIN s, DOMAIN s)}
IsOrder(values) ==
    /\ \A m, n \in values : cmpfunc(m, n) <= 0 <=> cmpfunc(n, m) >= 0
    /\ \A l, m, n \in values : cmpfunc(l, m) <= 0 /\ cmpfunc(m, n) <= 0 => cmpfunc(l, n) <= 0
QSorted(s) == IF IsOrder(ToSet(s))
              THEN {o \in Orders(s) : \A i, j \in DOMAIN s : i < j => cmpfunc(o[i], o[j]) <= 0}
              ELSE Orders(s)

QuickSort(i) == /\ sortPc = "qsort"
                /\ i \in sorting
                /\ \E o \in QSorted(sp_array[i]) : sp_array' = [sp_array EXCEPT ![i] = o]
                /\ sorting' = sorting \ {i}
                /\ UNCHANGED <<sortPc, data, output>>

\* merge_sort: how many of the first k elements it takes from s.  It compares
\* with an element behind the end of a piece that is used up, but what it
\* takes does not depend on it.
Taken(s, t) ==
    LET taken[k \in 0..(Len(s) + Len(t))] ==
          IF k = 0 THEN 0
          ELSE LET index1 == taken[k - 1]
                   index2 == k - 1 - index1
               IN  IF index1 < Len(s) /\ (index2 = Len(t) \/ s[index1 + 1] < t[index2 + 1])
                   THEN index1 + 1 ELSE index1
    IN  taken

Merge(s, t) == LET taken == Taken(s, t)
               IN  [k \in 1..(Len(s) + Len(t)) |->
                      IF taken[k] > taken[k - 1] THEN s[taken[k]] ELSE t[k - taken[k]]]

\* A round of compute_msort, with a thread for each pair of pieces.
Round(pieces) == /\ sortPc' = IF Len(pieces) \div 2 > 0 THEN "merge" ELSE "done"
                 /\ sp_array' = pieces
                 /\ sorting' = 1..(Len(pieces) \div 2)
                 /\ output' = [i \in 1..(Len(pieces) \div 2) |-> <<>>]
                 /\ UNCHANGED data

JoinSorts == /\ sortPc = "qsort"
             /\ sorting = {}
             /\ Round(sp_array)

MergeSort(i) == /\ sortPc = "merge"
                /\ i \in sorting
                /\ output' = [output EXCEPT ![i] = Merge(sp_array[2 * i - 1], sp_array[2 * i])]
                /\ sorting' = sorting \ {i}
                /\ UNCHANGED <<sortPc, data, sp_array>>

\* Mistaken variant: an odd piece is forgotten.
JoinMergesInPairs == /\ sortPc = "merge"
                     /\ sorting = {}
                     /\ Round(output)

\* An odd piece has no partner, and goes to the next round as it is.
JoinMerges == /\ sortPc = "merge"
              /\ sorting = {}
              /\ Round(IF Len(sp_array) % 2 = 1 THEN Append(output, Last(sp_array)) ELSE output)

\* pthread_create fails, in either phase.
CreateAborts == /\ sortPc \in {"qsort", "merge"}
                /\ sorting # {}
                /\ sortPc' = "abort"
                /\ UNCHANGED <<data, sp_array, sorting, output>>

SortNext == \/ sortPc = "start" /\ \E command \in Commands : MainSort(command)
            \/ \E i \in sorting : QuickSort(i) \/ MergeSort(i)
            \/ JoinSorts \/ JoinMerges \/ CreateAborts

SortSpec == SortInit /\ [][SortNext]_sortVars

----------------------------------------------------------------------------
Fits(s) == \A i, j \in DOMAIN s : s[i] - s[j] <= IntMax
Ascending(s) == \A i, j \in DOMAIN s : i < j => s[i] <= s[j]

\* What is printed is what was read, each number as often, and it is in order
\* unless two numbers in the file differ by more than an int can hold.
SortIsRight ==
    sortPc = "done" =>
        /\ sp_array[1] \in Orders(data)
        /\ Fits(data) => Ascending(sp_array[1])
=============================================================================
