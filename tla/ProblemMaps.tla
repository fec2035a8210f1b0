---------------------------- MODULE ProblemMaps -----------------------------
(***************************************************************************)
(* Number partitioning and Max-Cut as models of spins, and the recounts    *)
(* that do not trust the mapping: include/anneal/problems/partition.hpp    *)
(* and maxcut.hpp.  A graph is [n, edges], the edges a sequence of         *)
(* <<u, v, weight>>, as read: repeated edges add up.                       *)
(***************************************************************************)
EXTENDS Bqm, Sequences

\* What the builders are given: numbers, or a graph without loops.
IsProblem(p) ==
    \/ p.kind = "partition" /\ p.numbers \in Seq(Int)
    \/ /\ p.kind = "maxcut" /\ p.graph.n \in Nat
       /\ p.graph.edges \in Seq((1 .. p.graph.n) \X (1 .. p.graph.n) \X Int)
       /\ \A k \in DOMAIN p.graph.edges : p.graph.edges[k][1] # p.graph.edges[k][2]

Sites(p) == IF p.kind = "partition" THEN DOMAIN p.numbers ELSE 1 .. p.graph.n

Magnitude(x) == IF x < 0 THEN -x ELSE x

\* Mutant of PartitionModel: the square's mixed terms are taken once.
PartitionModelOnce(numbers) ==
    [EmptyModel(DOMAIN numbers, TRUE) EXCEPT
        !.quad = [i \in DOMAIN numbers |-> [j \in DOMAIN numbers |->
                    IF i = j THEN 0 ELSE Unit * numbers[i] * numbers[j]]],
        !.offset = Unit * SumFunction([i \in DOMAIN numbers |-> numbers[i] * numbers[i]])]

\* partition_to_bqm: the square of the signed sum.
PartitionModel(numbers) ==
    [EmptyModel(DOMAIN numbers, TRUE) EXCEPT
        !.quad = [i \in DOMAIN numbers |-> [j \in DOMAIN numbers |->
                    IF i = j THEN 0 ELSE Unit * 2 * numbers[i] * numbers[j]]],
        !.offset = Unit * SumFunction([i \in DOMAIN numbers |-> numbers[i] * numbers[i]])]

\* partition_difference
PartitionDifference(numbers, state) ==
    Magnitude(SumFunction([i \in DOMAIN numbers |-> numbers[i] * state[i]]))

\* The weight of the edges with the numbers ks.
WeightOf(graph, ks) == SumFunction([k \in ks |-> graph.edges[k][3]])

\* maxcut_to_bqm: every edge couples its ends with its weight.
MaxcutModel(graph) ==
    [EmptyModel(1 .. graph.n, TRUE) EXCEPT
        !.quad = [i \in 1 .. graph.n |-> [j \in 1 .. graph.n |->
                    Unit * WeightOf(graph, {k \in DOMAIN graph.edges :
                        i # j /\ {graph.edges[k][1], graph.edges[k][2]} = {i, j}})]]]

\* Graph::total_weight
TotalWeight(graph) == WeightOf(graph, DOMAIN graph.edges)

\* cut_value
CutValue(graph, state) ==
    WeightOf(graph, {k \in DOMAIN graph.edges : state[graph.edges[k][1]] # state[graph.edges[k][2]]})
=============================================================================
