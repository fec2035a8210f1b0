------------------------------ MODULE MapfGrid ------------------------------
(***************************************************************************)
(* The grid of mapf/grid.hpp: cells are pairs <<x, y>> (column, row), a    *)
(* cell is passable when it is in bounds and not blocked, and an agent     *)
(* has five moves: wait, or step to one of the four neighbours.            *)
(***************************************************************************)
EXTENDS Integers, Sequences

CONSTANTS
    Width,      \* number of columns
    Height,     \* number of rows
    Blocked     \* the cells the map marks '@' or 'T'

\* Grid::in_bounds
InBounds(c) == c[1] \in 0 .. Width - 1 /\ c[2] \in 0 .. Height - 1

Cells == (0 .. Width - 1) \X (0 .. Height - 1)

ASSUME GridAssumption ==
    /\ Width \in Nat \ {0}      \* Grid::parse rejects the others
    /\ Height \in Nat \ {0}
    /\ Blocked \subseteq Cells

\* Grid::passable, as the set of the cells it accepts.
Free == Cells \ Blocked

Distance(i, j) == IF i < j THEN j - i ELSE i - j

Manhattan(c, d) == Distance(c[1], d[1]) + Distance(c[2], d[2])

\* Grid::moves_from
MovesFrom(c) == {d \in Free : Manhattan(c, d) <= 1}
=============================================================================
