---------------------------- MODULE StaticStream ----------------------------
(***************************************************************************)
(* solve_stream --static (src/solve_stream.cpp): the live solver process   *)
(* runs the hybrid loop once, verifies what came back a second time, and   *)
(* prints one final event for the browser to play back.                    *)
(***************************************************************************)
EXTENDS HybridProps

\* The browser and the verifier go by agent numbers.
ASSUME StaticAssumption == Agents \subseteq Nat

VARIABLES
    event,      \* the final event, once printed
    exit        \* "running", the exit code, or "killed" by a signal

static == <<vars, event, exit>>

NoEvent == [told |-> FALSE]

\* verify lists a pair of agents once.
Listed(violations) == {v \in violations : v[2] <= v[3]}

SumOfCosts(plan) == SumFunction([a \in Agents |-> PathCost(plan[a], task.goal[a])])

StaticInit == Init /\ event = NoEvent /\ exit = "running"

SolveStep == Next /\ UNCHANGED <<event, exit>>

\* The final event: the plan's own numbers next to the solver's.
PrintDone ==
    /\ pc = "done" /\ exit = "running"
    /\ result.plan # <<>>
    /\ event' = [told      |-> TRUE,
                 success   |-> result.success,
                 steps     |-> Makespan(result.plan),
                 cycles    |-> result.iterations,
                 costs     |-> SumOfCosts(result.plan),
                 conflicts |-> Cardinality(Listed(Verify(task.start, task.goal, result.plan))),
                 paths     |-> result.plan]
    /\ exit' = IF result.success THEN "0" ELSE "1"
    /\ UNCHANGED vars

\* No round has left a plan: the paths are read from an empty vector, through its
\* null pointer, with the line still in the output buffer.
ReadNoPath ==
    /\ pc = "done" /\ exit = "running"
    /\ result.plan = <<>>
    /\ exit' = "killed"
    /\ UNCHANGED <<vars, event>>

StaticNext == SolveStep \/ PrintDone \/ ReadNoPath

StaticSpec == StaticInit /\ [][StaticNext]_static

-----------------------------------------------------------------------------
(* Properties *)

\* The positions of one time step, as the browser plays the paths back.
FrameAt(t) == [a \in Agents |-> event.paths[a][t + 1]]

\* What the browser is told is what it can play: a success is a plan with no conflict
\* in it, every agent has a cell at every step and goes from its start to its goal,
\* a conflict-free playback never shows a collision, the fleet is no cheaper than its
\* shortest paths, and only a run that never had a plan to show ends without the
\* event (solve_stream.cpp:152-174, solver.hpp:129-147).
DoneEventIsTrue ==
    /\ event.told =>
         /\ event.success <=> event.conflicts = 0
         /\ event.success <=> exit = "0"
         /\ \A a \in Agents :
              /\ Len(event.paths[a]) = event.steps + 1
              /\ FrameAt(0)[a] = task.start[a] /\ FrameAt(event.steps)[a] = task.goal[a]
         /\ event.conflicts = 0 =>
              \A t \in 1 .. event.steps : StepOk(FrameAt(t - 1), FrameAt(t))
         /\ event.costs >= SumFunction([a \in Agents |->
                              Min({Len(p) : p \in Paths(a)}) - 1])
    /\ exit = "killed" <=> pc = "done" /\ exit # "running" /\ result.iterations = 0
=============================================================================
