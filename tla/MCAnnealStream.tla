--------------------------- MODULE MCAnnealStream ---------------------------
(***************************************************************************)
(* Small problems for TLC.                                                 *)
(***************************************************************************)
EXTENDS AnnealStream

Partition(numbers) == [kind |-> "partition", numbers |-> numbers]

Cut(n, edges) == [kind |-> "maxcut", graph |-> [n |-> n, edges |-> edges]]

\* Numbers that split evenly and numbers that do not; a triangle with a negative
\* edge, and a path one edge of which is listed twice, beside a lone vertex.
SmallProblems == {
    Partition(<<3, 1, 2>>),
    Partition(<<5, 1, 1>>),
    Cut(3, << <<1, 2, 1>>, <<2, 3, 2>>, <<1, 3, -1>> >>),
    Cut(4, << <<1, 2, 1>>, <<2, 1, 1>>, <<2, 3, -1>> >>)}

SmallModels == {ModelOf(p) : p \in SmallProblems}
=============================================================================
