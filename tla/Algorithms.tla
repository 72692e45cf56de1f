----------------------------- MODULE Algorithms -----------------------------
(***************************************************************************)
(* The algorithms that start from an input file and end with a result:     *)
(* the knapsacks, the shortest paths, the products of matrices and the     *)
(* tiled board.  They share nothing, so that each keeps what it promises   *)
(* whatever the others do.                                                 *)
(***************************************************************************)
EXTENDS Knapsack, Dijkstra, Strassen, Tromino

AlgorithmsSpec == KnapsackSpec /\ DijkstraSpec /\ StrassenSpec /\ TrominoSpec

\* The algorithms compute what their definitions say: the most profitable
\* knapsack, the shortest paths of a graph, the product of two matrices and a
\* tiling of the board (Q1-1, Q1-2, Q1-3, Q2_dijikstra, strassen, tromino).
ResultsAreRight == KnapsackIsBest /\ DistancesAreShortest /\ ProductsAgree /\ TilesAreTrominoes
=============================================================================
