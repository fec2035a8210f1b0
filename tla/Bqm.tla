-------------------------------- MODULE Bqm ---------------------------------
(***************************************************************************)
(* The binary quadratic model of include/anneal/bqm.hpp: an energy over    *)
(* variables that are spins (-1, +1) or bits (0, 1), and the conversion    *)
(* from bits to spins, the one the solvers make.                           *)
(*                                                                         *)
(* A model is a record [spin, linear, quad, offset]; quad[i][j] is the     *)
(* coupling of i and j, 0 when they are not neighbours.  Numbers are in    *)
(* quarters of the code's unit, so that the conversion's divisions are     *)
(* exact on models with whole biases, as they are on doubles.              *)
(***************************************************************************)
EXTENDS Integers, FiniteSets, Functions

Unit == 4

Vars(m) == DOMAIN m.linear

\* The values a variable may have.
Values(m) == IF m.spin THEN {-1, 1} ELSE {0, 1}

States(m) == [Vars(m) -> Values(m)]

IsWhole(x) == x % Unit = 0

\* What the builders keep: edges are stored at both of their ends and never join a
\* variable to itself.  A model over bits has whole biases, see above.
IsModel(m) ==
    /\ m.spin \in BOOLEAN /\ m.offset \in Int /\ IsFiniteSet(Vars(m))
    /\ m.linear \in [Vars(m) -> Int] /\ m.quad \in [Vars(m) -> [Vars(m) -> Int]]
    /\ \A i, j \in Vars(m) : m.quad[i][j] = m.quad[j][i]
    /\ \A i \in Vars(m) : m.quad[i][i] = 0
    /\ ~m.spin => \A i \in Vars(m) :
                     IsWhole(m.linear[i]) /\ \A j \in Vars(m) : IsWhole(m.quad[i][j])

\* BQM(n, vartype), over a set of variables
EmptyModel(vars, spin) ==
    [spin |-> spin, linear |-> [i \in vars |-> 0],
     quad |-> [i \in vars |-> [j \in vars |-> 0]], offset |-> 0]

\* Sum over the neighbours of i of the coupling times the neighbour's value.
Pull(m, state, i) == SumFunction([j \in Vars(m) |-> m.quad[i][j] * state[j]])

\* What the neighbourhood and the bias want i to be.
Field(m, state, i) == m.linear[i] + Pull(m, state, i)

\* BQM::energy: every edge is seen from both of its ends, and halved.
Energy(m, state) ==
    m.offset + SumFunction([i \in Vars(m) |-> m.linear[i] * state[i]])
             + SumFunction([i \in Vars(m) |-> state[i] * Pull(m, state, i)]) \div 2

NeighborSum(m, i) == SumFunction([j \in Vars(m) |-> m.quad[i][j]])

\* The sum of all couplings, each once.
AllCouplings(m) == SumFunction([i \in Vars(m) |-> NeighborSum(m, i)]) \div 2

QuarterCouplings(m) == [i \in Vars(m) |-> [j \in Vars(m) |-> m.quad[i][j] \div 4]]

\* Mutant of ToSpin: every coupling goes into the offset from both of its ends.
ToSpinBothEnds(m) ==
    IF m.spin THEN m
    ELSE [spin   |-> TRUE,
          linear |-> [i \in Vars(m) |-> m.linear[i] \div 2 + NeighborSum(m, i) \div 4],
          quad   |-> QuarterCouplings(m),
          offset |-> m.offset + SumFunction(m.linear) \div 2 + AllCouplings(m) \div 2]

\* change_vartype(Spin): x = (s + 1) / 2
ToSpin(m) ==
    IF m.spin THEN m
    ELSE [spin   |-> TRUE,
          linear |-> [i \in Vars(m) |-> m.linear[i] \div 2 + NeighborSum(m, i) \div 4],
          quad   |-> QuarterCouplings(m),
          offset |-> m.offset + SumFunction(m.linear) \div 2 + AllCouplings(m) \div 4]

\* The state of m that a state of spins stands for.
FromSpins(m, spins) == [i \in Vars(m) |-> IF m.spin THEN spins[i] ELSE (spins[i] + 1) \div 2]
=============================================================================
