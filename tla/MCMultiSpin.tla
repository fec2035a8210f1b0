---------------------------- MODULE MCMultiSpin ----------------------------
(***************************************************************************)
(* Small models for TLC: up to four sites, two lanes, numbers of two bits. *)
(***************************************************************************)
EXTENDS MultiSpin, TLC

\* A model on n sites from its biases and its edges, a set of <<i, j, coupling>>.
Graph(n, isSpin, h, edges) ==
    [spin   |-> isSpin,
     linear |-> [i \in 1 .. n |-> Unit * h[i]],
     quad   |-> [i \in 1 .. n |-> [j \in 1 .. n |->
                    Unit * MapThenSumSet(LAMBDA e : e[3], {e \in edges : {i, j} = {e[1], e[2]}})]],
     offset |-> 0]

\* A star of degree three with both kinds of edges, a frustrated triangle, one edge
\* between bits beside an isolated bit; a field and a coupling of two are refused.
SmallModels == {
    Graph(4, TRUE, <<0, 0, 0, 0>>, {<<1, 2, 1>>, <<1, 3, -1>>, <<1, 4, 1>>}),
    Graph(3, TRUE, <<0, 0, 0>>, {<<1, 2, 1>>, <<2, 3, 1>>, <<1, 3, 1>>}),
    Graph(3, FALSE, <<-2, -2, 0>>, {<<1, 2, 4>>}),
    Graph(2, TRUE, <<1, 0>>, {<<1, 2, 1>>}),
    Graph(2, TRUE, <<0, 0>>, {<<1, 2, 2>>})}

\* floor(4 * exp(-rise / T)) for three temperatures.
Odds == [t \in 0 .. 2 |->
            CASE t = 0 -> (2 :> 3 @@ 4 :> 2 @@ 6 :> 1)
              [] t = 1 -> (2 :> 2 @@ 4 :> 1 @@ 6 :> 0)
              [] t = 2 -> (2 :> 1 @@ 4 :> 0 @@ 6 :> 0)]
=============================================================================
