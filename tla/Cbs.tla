-------------------------------- MODULE Cbs ---------------------------------
(***************************************************************************)
(* Conflict-based search, solve_cbs in mapf/cbs.hpp.                       *)
(*                                                                         *)
(* A node of the constraint tree holds, per agent, a set of constraints    *)
(* and a shortest path that obeys them.  The search pops the cheapest      *)
(* node, and either returns it, when its paths do not collide, or replaces *)
(* it by two children, each with one more constraint on one of the two     *)
(* agents of the first collision.  Which of several shortest paths the     *)
(* space-time A* finds is left open.                                       *)
(***************************************************************************)
EXTENDS MapfPlan, Functions

CONSTANTS
    MaxExpansions,  \* max_expansions, small here so that runs end
    HasDeadline,    \* time_limit_ms > 0: the clock may stop the search anywhere
    Instances       \* inputs: [start, goal : per agent]

\* Agents are numbered: collisions are looked for in the order of their numbers.
ASSUME CbsAssumption ==
    /\ Agents \subseteq Nat
    /\ MaxExpansions \in Nat /\ HasDeadline \in BOOLEAN
    /\ Instances \subseteq [start : [Agents -> Free], goal : [Agents -> Free]]

VARIABLES
    pc,         \* "root", "search" or "done"
    task,       \* the instance, an input
    open,       \* the open list, a set of nodes
    counter,    \* the number of the next node
    expansions, \* result.expansions
    answer      \* result.success, .plan and .cost, and whether it timed out

vars == <<pc, task, open, counter, expansions, answer>>

\* Not to be on a cell at a time, and not to make a move from a time on.
VertexConstraint(c, t) == [kind |-> "vertex", from |-> c, to |-> c, t |-> t]
EdgeConstraint(c, d, t) == [kind |-> "edge", from |-> c, to |-> d, t |-> t]

-----------------------------------------------------------------------------
(* The low level *)

\* The latest time a constraint touches.
Latest(cons) == Max({0} \cup {IF c.kind = "edge" THEN c.t + 1 ELSE c.t : c \in cons})

\* Mutant of MayMove: only vertex constraints are looked up.
MayMoveVertex(c, d, t, cons) == d \in MovesFrom(c) /\ VertexConstraint(d, t + 1) \notin cons

\* A move from c at time t to d at time t + 1 that the constraints allow.
MayMove(c, d, t, cons) ==
    /\ d \in MovesFrom(c)
    /\ VertexConstraint(d, t + 1) \notin cons
    /\ EdgeConstraint(c, d, t) \notin cons

\* max_t: every cell once, after the last constraint
TimeBound(cons) == Latest(cons) + Width * Height + 1

\* Layers(start, cons)[t]: the cells the agent can be on at time t.
Layers(start, cons) ==
    LET F[t \in 0 .. TimeBound(cons)] ==
            IF t = 0 THEN {start}
            ELSE UNION {{d \in MovesFrom(c) : MayMove(c, d, t - 1, cons)} : c \in F[t - 1]}
    IN  F

\* The times at which a path may end, parked on its goal.
Arrivals(layers, goal, cons) == {t \in DOMAIN layers : t >= Latest(cons) /\ goal \in layers[t]}

\* The ways through the layers from time t on that end on the goal at time h.
Ways(layers, goal, cons, h) ==
    LET W[k \in 0 .. h] ==      \* the last k moves
            IF k = 0 THEN {<<goal>>}
            ELSE {<<x[1]>> \o x[2] : x \in
                    {y \in layers[h - k] \X W[k - 1] : MayMove(y[1], y[2][1], h - k, cons)}}
    IN  W[h]

\* low_level: the shortest paths that obey the constraints, one of which is
\* returned; none when there is none within the time bound.
LowLevel(start, goal, cons) ==
    UNION {Ways(layers, goal, cons, Min(Arrivals(layers, goal, cons))) :
             layers \in {l \in {Layers(start, cons)} : Arrivals(l, goal, cons) # {}}}

PlanAgent(a, cons) == LowLevel(task.start[a], task.goal[a], cons)

-----------------------------------------------------------------------------
(* The high level *)

\* CTNode::path_cost
NodePathCost(p) == Len(p) - 1

CostOf(paths) == SumFunction([a \in Agents |-> NodePathCost(paths[a])])

Meets(paths, a, b, t) == PathAt(paths[a], t) = PathAt(paths[b], t)

Trades(paths, a, b, t) ==
    /\ t > 0
    /\ PathAt(paths[a], t) = PathAt(paths[b], t - 1)
    /\ PathAt(paths[b], t) = PathAt(paths[a], t - 1)

\* The collisions of the paths: time, agent, other agent.
Collisions(paths) ==
    {x \in (0 .. Makespan(paths)) \X Agents \X Agents :
        /\ x[2] < x[3]
        /\ Meets(paths, x[2], x[3], x[1]) \/ Trades(paths, x[2], x[3], x[1])}

Before(x, y) ==
    \/ x[1] < y[1]
    \/ x[1] = y[1] /\ x[2] < y[2]
    \/ x[1] = y[1] /\ x[2] = y[2] /\ x[3] <= y[3]

\* first_conflict, when there is one
FirstCollision(paths) ==
    CHOOSE x \in Collisions(paths) : \A y \in Collisions(paths) : Before(x, y)

\* What a child forbids its agent: the cell of a meeting, or its own move of a
\* swap, departing one step before.
NewConstraint(paths, x, agent) ==
    IF Meets(paths, x[2], x[3], x[1])
    THEN VertexConstraint(PathAt(paths[agent], x[1]), x[1])
    ELSE EdgeConstraint(PathAt(paths[agent], x[1] - 1), PathAt(paths[agent], x[1]), x[1] - 1)

\* The children that constrain one agent, each as a set of at most one node: the
\* branch is dropped when the agent has no path left.
Children(node, x, agent) ==
    LET cons  == node.cons[agent] \cup {NewConstraint(node.paths, x, agent)}
        found == PlanAgent(agent, cons)
    IN  IF found = {} THEN {{}}
        ELSE {{[cons  |-> [node.cons EXCEPT ![agent] = cons],
                paths |-> [node.paths EXCEPT ![agent] = p],
                cost  |-> node.cost - NodePathCost(node.paths[agent]) + NodePathCost(p)]} : p \in found}

Numbered(children, n) ==
    {[cons |-> c.cons, paths |-> c.paths, cost |-> c.cost, order |-> n] : c \in children}

\* Mutant of Top: the open list is a queue.
TopOldest == CHOOSE n \in open : \A m \in open : n.order <= m.order

\* open.top(): the cheapest node, the oldest of these
Top ==
    CHOOSE n \in open : \A m \in open : n.cost < m.cost \/ (n.cost = m.cost /\ n.order <= m.order)

NoAnswer == [success |-> FALSE, timeout |-> FALSE, plan |-> <<>>, cost |-> 0]

\* to_plan: every path padded to the makespan
Padded(paths) ==
    [a \in Agents |-> [i \in 1 .. Makespan(paths) + 1 |-> PathAt(paths[a], i - 1)]]

-----------------------------------------------------------------------------
Init ==
    /\ pc = "root"
    /\ task \in Instances
    /\ open = {} /\ counter = 0 /\ expansions = 0
    /\ answer = NoAnswer

\* Every agent's unconstrained shortest path.
Root ==
    /\ pc = "root"
    /\ \A a \in Agents : PlanAgent(a, {}) # {}
    /\ \E found \in {[a \in Agents |-> PlanAgent(a, {})]} :
       \E paths \in {f \in [Agents -> UNION {found[a] : a \in Agents}] :
                        \A a \in Agents : f[a] \in found[a]} :
         open' = {[cons |-> [a \in Agents |-> {}], paths |-> paths,
                   cost |-> CostOf(paths), order |-> 0]}
    /\ counter' = 1
    /\ pc' = "search"
    /\ UNCHANGED <<task, expansions, answer>>

\* An agent's goal is unreachable.
RootFails ==
    /\ pc = "root"
    /\ \E a \in Agents : PlanAgent(a, {}) = {}
    /\ pc' = "done"
    /\ UNCHANGED <<task, open, counter, expansions, answer>>

Searching == pc = "search" /\ open # {} /\ expansions < MaxExpansions

\* The open list or the budget is used up.
GiveUp ==
    /\ pc = "search" /\ ~Searching
    /\ pc' = "done"
    /\ UNCHANGED <<task, open, counter, expansions, answer>>

\* The deadline has passed: the cheapest node is returned as it is.
Timeout ==
    /\ Searching /\ HasDeadline
    /\ answer' = [success |-> FALSE, timeout |-> TRUE, plan |-> Padded(Top.paths), cost |-> Top.cost]
    /\ pc' = "done"
    /\ UNCHANGED <<task, open, counter, expansions>>

\* The cheapest node has no collision.
Succeed ==
    /\ Searching /\ Collisions(Top.paths) = {}
    /\ answer' = [success |-> TRUE, timeout |-> FALSE, plan |-> Padded(Top.paths), cost |-> Top.cost]
    /\ open' = open \ {Top} /\ expansions' = expansions + 1
    /\ pc' = "done"
    /\ UNCHANGED <<task, counter>>

\* Mutant of Split: only the first agent of the collision is ever constrained.
SplitOneSide ==
    /\ Searching /\ Collisions(Top.paths) # {}
    /\ \E x \in {FirstCollision(Top.paths)} :
       \E left \in Children(Top, x, x[2]) :
         /\ open' = (open \ {Top}) \cup Numbered(left, counter)
         /\ counter' = counter + Cardinality(left)
    /\ expansions' = expansions + 1
    /\ UNCHANGED <<pc, task, answer>>

\* It has: one child per agent of its first collision.
Split ==
    /\ Searching /\ Collisions(Top.paths) # {}
    /\ \E x \in {FirstCollision(Top.paths)} :
       \E left \in Children(Top, x, x[2]), right \in Children(Top, x, x[3]) :
         /\ open' = (open \ {Top}) \cup Numbered(left, counter)
                                   \cup Numbered(right, counter + Cardinality(left))
         /\ counter' = counter + Cardinality(left) + Cardinality(right)
    /\ expansions' = expansions + 1
    /\ UNCHANGED <<pc, task, answer>>

Next == Root \/ RootFails \/ GiveUp \/ Timeout \/ Succeed \/ Split

Spec == Init /\ [][Next]_vars
=============================================================================
