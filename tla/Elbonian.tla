------------------------------ MODULE Elbonian ------------------------------
(***************************************************************************)
(* CodeWar2013/elbonian.c: the shortest path between two points, with the  *)
(* labels on the nodes and a list of candidates, newest first.  A cost of  *)
(* 0 means that there is no edge; a temp_label of 0 that there is none     *)
(* yet.                                                                    *)
(***************************************************************************)
EXTENDS Integers, Sequences, FiniteSets

CONSTANTS MaxNode,   \* node ids are 0 .. MaxNode
          Costs      \* costs tried, 0 included

Nodes == 0 .. MaxNode
node_count == MaxNode + 1

VARIABLES
    cost_matrix,               \* [Nodes -> [Nodes -> Costs]], symmetric
    src, dst,
    start,                     \* where the search starts
    visited, curr_order_id,
    temp_label, final_label,
    data_list,                 \* candidates
    path, total_cost,          \* from dst towards src
    pc

vars == <<cost_matrix, src, dst, start, visited, curr_order_id, temp_label,
          final_label, data_list, path, total_cost, pc>>

input == <<cost_matrix, src, dst, start>>
labels == <<visited, curr_order_id, temp_label, final_label, data_list>>

peers(n) == {m \in Nodes : cost_matrix[n][m] # 0}

(* The matrix of an undirected graph, from the costs of its edges. *)
Matrices ==
    LET Edges == {e \in Nodes \X Nodes : e[1] < e[2]} IN
    {[n \in Nodes |-> [m \in Nodes |->
         IF n = m THEN 0 ELSE IF n < m THEN c[<<n, m>>] ELSE c[<<m, n>>]]] :
       c \in [Edges -> Costs]}

Init ==
    /\ cost_matrix \in Matrices
    /\ src \in Nodes /\ dst \in Nodes
    /\ start = -1
    /\ visited = {} /\ curr_order_id = 1
    /\ temp_label = [n \in Nodes |-> 0] /\ final_label = [n \in Nodes |-> 0]
    /\ data_list = <<>>
    /\ path = <<>> /\ total_cost = 0
    /\ pc = "build"

(* The row of src, or, when that is empty, the last one before it that is    *)
(* not.                                                                      *)
build_graph ==
    /\ pc = "build"
    /\ LET rows == {n \in 0 .. src : peers(n) # {}}
       IN IF rows = {}
          THEN pc' = "crash" /\ UNCHANGED start
          ELSE /\ start' = CHOOSE n \in rows : \A m \in rows : m <= n
               /\ pc' = "start"
    /\ UNCHANGED <<cost_matrix, src, dst, labels, path, total_cost>>

(* Put the nodes of S that are not yet there in front, in ascending order,   *)
(* as they stand in a peer_list.                                             *)
insert_into_dijks_list(list, S) ==
    LET new == {n \in S : \A i \in 1 .. Len(list) : list[i] # n}
        nth(k) == CHOOSE n \in new : Cardinality({m \in new : m > n}) = k - 1
    IN [k \in 1 .. Cardinality(new) |-> nth(k)] \o list

(* dijkstra_call up to its loop. *)
StartLabels ==
    /\ pc = "start"
    /\ visited' = {start}
    /\ temp_label' = [n \in Nodes |-> cost_matrix[start][n]]
    /\ data_list' = insert_into_dijks_list(<<>>, peers(start))
    /\ pc' = "loop"
    /\ UNCHANGED <<input, curr_order_id, final_label, path, total_cost>>

(* The candidate with the smallest label, the newest of them. *)
pop_from_dijks_list ==
    CHOOSE i \in 1 .. Len(data_list) :
        \A j \in 1 .. Len(data_list) :
            LET a == temp_label[data_list[i]]
                b == temp_label[data_list[j]]
            IN a < b \/ (a = b /\ i <= j)

(* Mutant: a label once given is never improved. *)
Relaxed_FirstOnly(n, m) ==
    IF temp_label[m] = 0 THEN temp_label[n] + cost_matrix[n][m] ELSE temp_label[m]

(* The label of a peer m that is not visited, from the node n just taken. *)
Relaxed(n, m) ==
    LET new == temp_label[n] + cost_matrix[n][m]
    IN IF temp_label[m] = 0 \/ new < temp_label[m] THEN new ELSE temp_label[m]

(* One turn of the loop. *)
Visit ==
    /\ pc = "loop" /\ curr_order_id < node_count
    /\ data_list # <<>>
    /\ LET i == pop_from_dijks_list
           n == data_list[i]
           fresh == peers(n) \ (visited \cup {n})
           rest == SubSeq(data_list, 1, i - 1) \o SubSeq(data_list, i + 1, Len(data_list))
       IN /\ visited' = visited \cup {n}
          /\ final_label' = [final_label EXCEPT ![n] = temp_label[n]]
          /\ temp_label' = [m \in Nodes |-> IF m \in fresh THEN Relaxed(n, m)
                                                          ELSE temp_label[m]]
          /\ data_list' = insert_into_dijks_list(rest, fresh)
    /\ curr_order_id' = curr_order_id + 1
    /\ UNCHANGED <<input, path, total_cost, pc>>

(* The list is empty before node_count nodes were visited: the head of the   *)
(* list, which holds no node, is taken for a candidate.                      *)
VisitNothing ==
    /\ pc = "loop" /\ curr_order_id < node_count
    /\ data_list = <<>>
    /\ pc' = "crash"
    /\ UNCHANGED <<input, labels, path, total_cost>>

(* end is set only where dst is taken from the list. *)
Found ==
    /\ pc = "loop" /\ curr_order_id >= node_count
    /\ IF dst \in visited \ {start}
       THEN path' = <<dst>> /\ pc' = "print"
       ELSE pc' = "crash" /\ UNCHANGED path
    /\ UNCHANGED <<input, labels, total_cost>>

Back(n) == {m \in peers(n) : final_label[m] = final_label[n] - cost_matrix[n][m]}

(* main: one step back along the labels, to the first peer that fits. *)
StepBack ==
    /\ pc = "print" /\ path[Len(path)] # start
    /\ LET n == path[Len(path)]
       IN IF Back(n) = {}
          THEN pc' = "crash" /\ UNCHANGED <<path, total_cost>>
          ELSE LET m == CHOOSE m \in Back(n) : \A k \in Back(n) : m <= k
               IN /\ path' = Append(path, m)
                  /\ total_cost' = total_cost + cost_matrix[n][m]
                  /\ UNCHANGED pc
    /\ UNCHANGED <<input, labels>>

PrintPath ==
    /\ pc = "print" /\ path[Len(path)] = start
    /\ pc' = "done"
    /\ UNCHANGED <<input, labels, path, total_cost>>

Next == build_graph \/ StartLabels \/ Visit \/ VisitNothing \/ Found \/ StepBack \/ PrintPath

Spec == Init /\ [][Next]_vars

-----------------------------------------------------------------------------
(* Properties *)

Walks(a, b) ==
    {p \in UNION {[1 .. k -> Nodes] : k \in 2 .. node_count} :
        /\ p[1] = a /\ p[Len(p)] = b
        /\ \A i \in 1 .. Len(p) - 1 : p[i + 1] \in peers(p[i])}

(* The cost of a walk up to each of its nodes, and of all of it. *)
CostTo(p) ==
    LET to[k \in 1 .. Len(p)] ==
            IF k = 1 THEN 0 ELSE to[k - 1] + cost_matrix[p[k - 1]][p[k]]
    IN to
Cost(p) == CostTo(p)[Len(p)]

Connected == \A n \in Nodes \ {src} : Walks(src, n) # {}

(* In a connected graph the search neither runs out of candidates nor loses  *)
(* its way back, and what is printed is a walk from dst to src that no other *)
(* walk undercuts, with its cost.                                            *)
ShortestPath ==
    pc \in {"done", "crash"} /\ Connected /\ src # dst =>
        /\ pc = "done"
        /\ path \in Walks(dst, src)
        /\ total_cost = Cost(path)
        /\ \A p \in Walks(src, dst) : total_cost <= Cost(p)
=============================================================================
