------------------------------ MODULE Dijkstra ------------------------------
(***************************************************************************)
(* Q2_dijikstra.c: the distances from a node of a graph that is read from  *)
(* a file as a matrix, in which an entry of 0 or less is no edge.          *)
(***************************************************************************)
EXTENDS Integers, FiniteSets, FiniteSetsExt

CONSTANTS Graphs,  \* the matrices of the input files
          INT_MAX

\* A file has as many rows as columns.
ASSUME GraphsAssumption == \A matrix \in Graphs : LET Nodes == DOMAIN matrix IN
                              /\ IsFiniteSet(Nodes) /\ Nodes = 0..(Cardinality(Nodes) - 1)
                              /\ matrix \in [Nodes -> [Nodes -> Int]]
ASSUME IntMaxAssumption == INT_MAX \in Nat

VARIABLES dijkstraPc,  \* start, round or done
          graph, src_node,
          distance, is_visited,
          rounds       \* the rounds that are over

dijkstraVars == <<dijkstraPc, graph, src_node, distance, is_visited, rounds>>

DijkstraInit == /\ dijkstraPc = "start"
                /\ graph = <<>>
                /\ src_node = 0
                /\ distance = <<>>
                /\ is_visited = <<>>
                /\ rounds = 0

Vertices == DOMAIN graph
no_of_nodes == Cardinality(Vertices)

\* main: create_graph, init_array, and the first lines of perform_dijikstra.
create_graph(matrix, src) ==
    /\ dijkstraPc = "start"
    /\ dijkstraPc' = "round"
    /\ graph' = matrix
    /\ src_node' = src
    /\ distance' = [v \in DOMAIN matrix |-> IF v = src THEN 0 ELSE INT_MAX]
    /\ is_visited' = [v \in DOMAIN matrix |-> 0]
    /\ UNCHANGED rounds

\* The last of the nearest nodes that are not visited yet.
getMinDistanceVert ==
    CHOOSE v \in Vertices :
        /\ is_visited[v] = 0
        /\ \A w \in Vertices : is_visited[w] = 0 =>
                distance[v] < distance[w] \/ (distance[v] = distance[w] /\ w <= v)

Shorter(u, v) == /\ is_visited[v] = 0 /\ v # u
                 /\ graph[u][v] > 0
                 /\ distance[u] # INT_MAX
                 /\ distance[u] + graph[u][v] < distance[v]

\* One round of perform_dijikstra.
VisitNext ==
    /\ dijkstraPc = "round"
    /\ rounds < no_of_nodes - 1
    /\ LET u == getMinDistanceVert IN
         /\ is_visited' = [is_visited EXCEPT ![u] = 1]
         /\ distance' = [v \in Vertices |-> IF Shorter(u, v) THEN distance[u] + graph[u][v] ELSE distance[v]]
    /\ rounds' = rounds + 1
    /\ UNCHANGED <<dijkstraPc, graph, src_node>>

\* print_distance; nothing is visited in the last round, where one node is left.
print_distance == /\ dijkstraPc = "round"
                  /\ rounds = no_of_nodes - 1
                  /\ dijkstraPc' = "done"
                  /\ UNCHANGED <<graph, src_node, distance, is_visited, rounds>>

DijkstraNext == \/ /\ dijkstraPc = "start"
                   /\ \E matrix \in Graphs : \E src \in DOMAIN matrix : create_graph(matrix, src)
                \/ VisitNext \/ print_distance

DijkstraSpec == DijkstraInit /\ [][DijkstraNext]_dijkstraVars

----------------------------------------------------------------------------
\* The lengths of the shortest walks of at most k edges, by their last edges.
LastEdges(matrix, lengths, v) == {u \in DOMAIN matrix : matrix[u][v] > 0 /\ lengths[u] # INT_MAX}
OneMoreEdge(matrix, lengths) ==
    [v \in DOMAIN matrix |->
       Min({lengths[v]} \cup {lengths[u] + matrix[u][v] : u \in LastEdges(matrix, lengths, v)})]
ShortestWalks(matrix, src) ==
    LET walk[k \in 0..Cardinality(DOMAIN matrix)] ==
          IF k = 0 THEN [v \in DOMAIN matrix |-> IF v = src THEN 0 ELSE INT_MAX]
          ELSE OneMoreEdge(matrix, walk[k - 1])
    IN  walk

\* What is printed are the lengths of the shortest paths, and infinity for the
\* nodes that no path reaches.
DistancesAreShortest ==
    dijkstraPc = "done" => distance = ShortestWalks(graph, src_node)[no_of_nodes - 1]
=============================================================================
