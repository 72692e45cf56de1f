------------------------------ MODULE Strassen ------------------------------
(***************************************************************************)
(* strassen.c: the product of two square matrices by Strassen's recursion, *)
(* next to the standard one.  The entries are integers here, so that both  *)
(* are exact; a matrix is a function of its row and its column.            *)
(***************************************************************************)
EXTENDS Integers, FiniteSetsExt

CONSTANT Factors \* the pairs of matrices of one size that main may draw

Square(n) == (0..(n - 1)) \X (0..(n - 1))
Matrix(n) == [size : {n}, matrix : [Square(n) -> Int]]

ASSUME FactorsAssumption == \A pair \in Factors : LET n == pair[1].size IN
                               n \in Nat /\ pair \in Matrix(n) \X Matrix(n)

VARIABLES strassenPc,        \* start or done
          factors,           \* matrixA and matrixB
          standard, strassen \* the two products that are displayed

strassenVars == <<strassenPc, factors, standard, strassen>>

StrassenInit == /\ strassenPc = "start"
                /\ factors = <<>>
                /\ standard = <<>>
                /\ strassen = <<>>

_add_matrix(A, B) == [size |-> A.size, matrix |-> [ij \in Square(A.size) |-> A.matrix[ij] + B.matrix[ij]]]
_subtract_matrix(A, B) == [size |-> A.size, matrix |-> [ij \in Square(A.size) |-> A.matrix[ij] - B.matrix[ij]]]

\* The quarters: 1 and 2 above 3 and 4.
_split_matrix(A, portion) ==
    LET half == A.size \div 2
        down == IF portion \in {3, 4} THEN half ELSE 0
        right == IF portion \in {2, 4} THEN half ELSE 0
    IN  [size |-> half, matrix |-> [ij \in Square(half) |-> A.matrix[ij[1] + down, ij[2] + right]]]

_join_matrix(A, B, C, D) ==
    LET half == A.size
        Entry(i, j) == IF i < half
                       THEN IF j < half THEN A.matrix[i, j] ELSE B.matrix[i, j - half]
                       ELSE IF j < half THEN C.matrix[i - half, j] ELSE D.matrix[i - half, j - half]
    IN  [size |-> 2 * half, matrix |-> [ij \in Square(2 * half) |-> Entry(ij[1], ij[2])]]

\* Both to a larger matrix, filled up with zeros, and back to a smaller one.
_extend_matrix(A, new_size) ==
    [size |-> new_size, matrix |-> [ij \in Square(new_size) |-> IF ij \in Square(A.size) THEN A.matrix[ij] ELSE 0]]

_do_actual_strassen(A, B) ==
    LET a == A.matrix
        b == B.matrix
        m1 == (a[0, 0] + a[1, 1]) * (b[0, 0] + b[1, 1])
        m2 == (a[1, 0] + a[1, 1]) * b[0, 0]
        m3 == a[0, 0] * (b[0, 1] - b[1, 1])
        m4 == a[1, 1] * (b[1, 0] - b[0, 0])
        m5 == (a[0, 0] + a[0, 1]) * b[1, 1]
        m6 == (a[1, 0] - a[0, 0]) * (b[0, 0] + b[0, 1])
        m7 == (a[0, 1] - a[1, 1]) * (b[1, 0] + b[1, 1])
    IN  [size |-> 2, matrix |-> [ij \in Square(2) |->
                                   CASE ij = <<0, 0>> -> m1 + m4 - m5 + m7
                                     [] ij = <<0, 1>> -> m3 + m5
                                     [] ij = <<1, 0>> -> m2 + m4
                                     [] ij = <<1, 1>> -> m1 - m2 + m3 + m6]]

\* pow(2, k)
Power[k \in Nat] == IF k = 0 THEN 1 ELSE 2 * Power[k - 1]

\* The quarters of the product, of seven products of quarters.
Seven(matrixA, matrixB, product) ==
    LET A == _split_matrix(matrixA, 1)
        B == _split_matrix(matrixA, 2)
        C == _split_matrix(matrixA, 3)
        D == _split_matrix(matrixA, 4)
        E == _split_matrix(matrixB, 1)
        F == _split_matrix(matrixB, 2)
        G == _split_matrix(matrixB, 3)
        H == _split_matrix(matrixB, 4)
        P1 == product[A, _subtract_matrix(F, H)]
        P2 == product[_add_matrix(A, B), H]
        P3 == product[_add_matrix(C, D), E]
        P4 == product[D, _subtract_matrix(G, E)]
        P5 == product[_add_matrix(A, D), _add_matrix(E, H)]
        P6 == product[_subtract_matrix(B, D), _add_matrix(G, H)]
        P7 == product[_subtract_matrix(A, C), _add_matrix(E, F)]
    IN  _join_matrix(_subtract_matrix(_add_matrix(_add_matrix(P5, P4), P6), P2),
                     _add_matrix(P1, P2),
                     _add_matrix(P3, P4),
                     _subtract_matrix(_subtract_matrix(_add_matrix(P1, P5), P3), P7))

\* Of the matrices that are halved h times until their size is 2.
_do_recur_strassen[h \in Nat] ==
    [pair \in Matrix(Power[h + 1]) \X Matrix(Power[h + 1]) |->
       IF h = 0 THEN _do_actual_strassen(pair[1], pair[2])
       ELSE Seven(pair[1], pair[2], _do_recur_strassen[h - 1])]

\* The recursion needs a power of two that is at least 2.
do_strassen_multiplication(A, B) ==
    LET h == Min({k \in 0..A.size : A.size <= Power[k + 1]})
        newSize == Power[h + 1]
    IN  IF A.size = newSize THEN _do_recur_strassen[h][A, B]
        ELSE _extend_matrix(_do_recur_strassen[h][_extend_matrix(A, newSize), _extend_matrix(B, newSize)], A.size)

\* The sums of the first terms, from none to all of n.
Sums(terms, n) == LET temp[k \in 0..n] == IF k = 0 THEN 0 ELSE temp[k - 1] + terms[k - 1] IN temp

Terms(A, B, i, j) == [k \in 0..(A.size - 1) |-> A.matrix[i, k] * B.matrix[k, j]]

do_standard_multiplication(A, B) ==
    LET size == A.size
    IN  [size |-> size, matrix |-> [ij \in Square(size) |-> Sums(Terms(A, B, ij[1], ij[2]), size)[size]]]

\* main
Multiply(A, B) == /\ strassenPc = "start"
                  /\ strassenPc' = "done"
                  /\ factors' = <<A, B>>
                  /\ standard' = do_standard_multiplication(A, B)
                  /\ strassen' = do_strassen_multiplication(A, B)

StrassenNext == strassenPc = "start" /\ \E pair \in Factors : Multiply(pair[1], pair[2])

StrassenSpec == StrassenInit /\ [][StrassenNext]_strassenVars

----------------------------------------------------------------------------
\* The recursion, with its splits, its signs and its padding, computes what the
\* definition of the product does.
ProductsAgree == standard = strassen
=============================================================================
