# Verification of the annealing and path-finding code

TLA+ specifications, TLC runs and TLAPS proofs for this repository: simulated
annealing of binary quadratic models (`include/anneal/`), multi-agent path
finding on grids on top of it (`mapf/`), and the studio that runs the solvers
and streams what they do to a browser (`mapf/viz/serve.py`, `src/solve_stream.cpp`).

Run everything from this directory:

    tlc -workers 2 -config MCSolveStream.cfg MCSolveStream
    tlapm RollingProofs.tla

`PROJECT.json` lists the runs, which lines each definition models, the hazards
the properties are for, and one deliberate bug ("mutant") per property of a
passing run that makes the property fail; the mutated definitions stand beside
the real ones, as `Mutant of ...`.

## 1. The system

| part | source | state it keeps | operations |
|---|---|---|---|
| grid, plan, verifier | `mapf/grid.hpp`, `plan.hpp`, `verifier.hpp` | none | legal moves, padding, costs, list of violations |
| candidate paths | `mapf/path_gen.hpp` | none | timed A* with usage penalties and forbidden cells, menus of candidates |
| selection QUBO | `mapf/conflict_qubo.hpp` | none | build a model from menus, decode a state into one path per agent |
| hybrid loop | `mapf/solver.hpp` | menus, best plan, best violation count | select, verify, keep, grow the menus |
| conflict-based search | `mapf/cbs.hpp` | open list, node counter, expansions | root, expand, succeed, time out |
| rolling driver | `mapf/rolling.hpp` | histories, clock, positions, goals, arrivals | plan a cycle, commit step by step, brake, hold, arrive, notify |
| live solver | `src/solve_stream.cpp` | running cost, frame counter | build obstacles, callback per cycle, events on stdout; or the hybrid loop and one final event |
| studio server | `mapf/viz/serve.py` | jobs: status, events, result, process | start, read, push, finish, cancel, stream |
| studio page | `mapf/viz/app.html`, `maxcut.html` | playback | draw frames, run, cancel |
| quadratic model | `include/anneal/bqm.hpp` | biases, couplings, offset | energy, local field, conversion between bits and spins |
| plain and fast annealer | `annealer.hpp`, `fast_annealer.hpp` | spins, field cache, threshold table, best state | sweep, accept, reject, stop at the deadline |
| parallel restarts | `parallel.hpp` | counter, slots, threads | spawn, take, anneal, join, reduce |
| parallel tempering, multi-spin | `parallel_tempering.hpp`, `multispin.hpp` | replicas, bit planes | sweep, swap |
| brute force, problems | `bruteforce.hpp`, `problems/` | none | ground state; models of partition and Max-Cut, recounts |
| annealing stream | `src/anneal_stream.cpp` | state, best state | anneal, print checkpoints |
| penalty experiment | `src/mapf_penalty_experiment.cpp` | counts of a row | exhaustive search, brute force, anneal, compare |

How they interact.  A menu of paths per agent (path generation) becomes a model
(selection QUBO), which parallel restarts of the fast annealer minimise under a
deadline; the state is decoded into one path per agent.  The hybrid loop does
this until the verifier is content, the rolling driver once per cycle, after
which it commits only the first steps of the paths, each checked on its own.
The live solver runs the rolling driver with a callback and prints events; the
studio server starts it as a child process, reads its pipe in a thread and
streams the events to any number of clients; other handler threads may cancel.
In static mode the live solver runs the hybrid loop instead; for other pages the
server runs the annealing stream.

What is hard about it:

* the annealer is a heuristic under a deadline: everything downstream must be
  right for *any* answer of it;
* the rolling driver edits a plan (brakes, holds) after it was made, keeps two
  histories, a clock and the positions in step over partial commits, and serves
  listeners with slices of that history;
* obstacles move on their own, and predictions of them are wrong;
* threads: replicas taken from a shared counter; a reader thread, cancel
  handlers and streaming handlers around one job, some of its fields read
  outside the lock, a child process behind a pipe that can fill up;
* caches that replace recomputation (local fields, threshold tables, node costs
  kept by differences) and must never drift;
* loops that end only because something grows or advances.

`PROJECT.json` lists each hazard at its line, with the properties aimed at it.

What makes each part right, in a sentence each: candidate paths are legal and
end on the goal; the QUBO's ground states are the best conflict-free selections;
the hybrid loop reports what is true of its best plan; CBS returns optimal plans
without conflicts; the driver's history never shows a collision and is what the
listeners see; a studio client gets all events, once and in order, and is told
the end; the fast annealer decides as the plain one does; parallel restarts give
the sequential answer; exchanged replicas stay whole; 64 replicas in one word
decide as 64 annealers; what a stream shows is recounted and never gets worse.

## 2. The modules

    MapfGrid <- MapfPlan <- PathGen <- Rolling <- RollingProps <- SolveStream <- RollingProofs
                   |           \           \-- FleetMotion (refined by Rolling)
                   |             \-- HybridSolver <- HybridProps <- StaticStream
                   |-- Cbs <- CbsProps <- CbsProofs                  \-- HybridProofs
                   \-- SelectionQubo <------------ PenaltyExperiment <- AnnealerProofs
                           |                              |
                           v                              v
                          Bqm <- FastAnnealer <- FastAnnealerProps
                           |                       \-- Annealer (refined by FastAnnealer)
                           |---- Annealer <------------\
                           |---- ProblemMaps <------ AnnealStream <-------- StudioProofs
                           |---- MultiSpin <----------- ReplicaProofs
                           |---- ParallelTempering <- ParallelTemperingProps <- TemperingProofs
                           \---- BqmTheorems (sums; used by all *Proofs
                                   of MAPF and annealing)
    ParallelAnnealer <- ParallelAnnealerProps <- ReplicaProofs
    StudioJob <- StudioJobProps <- StudioProofs      MC* : instances for TLC

**MapfGrid, MapfPlan.** Cells, legal moves, `path_at`, `step_ok`,
`paths_conflict`, makespan, sum of costs, and `verify` as the set of violations.
`verify` reports a collision once per pair of agents and the set holds it once
from each side; all counts that are compared are doubled alike.

**PathGen.** The timed A* is modelled by the set of paths it may return:
`PathPrefixes` (the first moves, all the rolling driver looks at) and
`WholePaths` (for the hybrid loop).  Costs, penalties and random tie-breaks
decide which of these paths a menu holds, so a menu is any choice among them.
What every returned path satisfies is kept: legal moves, the end on the first
visit of the goal, the horizon, and forbidden cells tested on entry only and
only within the prediction's length.  `Detour` bounds how much longer than a
shortest path a menu's paths are.

**Rolling.** One state machine for `simulate_rolling`: `PlanCycle` (menus, QUBO,
annealing, decoding: any candidate per agent), `CommitStep` (one validated step,
with braking), `EndCommit` or `Hold`, `Arrive` (arrivals or new goals, then the
listener), `CapReached` and `AllArrived`.  The obstacle model, trajectories and
quality of prediction, is an input; so are starts, goals and whether there is a
goal provider (`lifelong`).  `chosen` keeps the
first `Execute` moves of the chosen paths, which is all that is read of them.
**FleetMotion** is what the driver promises with all planning taken away: a
trace that grows by joint steps without collisions, agents that park or are
given another goal only while they are on their goal.

**SolveStream.** The callback runs inside `Arrive`; the final event is written in
the step in which the driver returns.  The model composes the two machines: its
next-state relation conjoins the driver's actions with the process's.  Its inputs
are the obstacles `main` can build: `Scripted` patrols, in the columns and phases
of the code, and `Random` walks that the planner only knows the present of.

**StaticStream** is the same process with `--static`: every step of the hybrid
loop, then `PrintDone`, which verifies the plan a second time and prints it, or
`ReadNoPath`, when there is no plan to index and the process is killed.

**StudioJob.** One job: its reader thread (`run_ndjson_job`, `run_cbs_job`), the
solver process behind a bounded pipe, cancel handlers (`Mark`, `Kill`) and
streaming handlers (`Snapshot`, `Send`, `EndOrLoop`).  Each `with self.cv` block
is one step; every read outside the lock is a step of its own.  The process, the
operating system's signals and the clients are external and modelled by how the
server uses them: a process may die at any time, also in the middle of a line or
of its plan file.

**ParallelAnnealer.** The calling thread (`Spawn`, `Join`, `Reduce`) and workers
(`Take`, `Anneal`).  What a replica's seed leads to is an input.

**Cbs.** Nodes with constraint sets, paths and costs; `Root`, `Split`, `Succeed`,
`Timeout`, `GiveUp`.  The space-time A* is the set of shortest paths that obey
the constraints, any of which it may return.

**HybridSolver.** `Generate`, `Select` (any selection, verification, best plan),
`Grow` (any new candidates for the agents in a collision), `GiveUp`.

**Bqm, Annealer, FastAnnealer.** Energies in quarters of a unit, so the divisions
of the conversion from bits to spins are exact on whole biases, as they are on
doubles.  An accepting draw is any outcome a draw can have; draws are counted, so
"the same random stream" is a statement about states.  The fast annealer's level
decides whether the field is recomputed or cached, whether a downhill proposal
draws, and whether the table is used; the draws that levels 1 and 2 make and the
plain annealer does not are counted in `spare`.

**ParallelTempering.** Replicas on the rungs of a sorted ladder: `Accept` and
`Reject` propose, `Swap` and `Stay` are the attempts to exchange neighbours.
Temperatures only decide which exchanges are certain.

**SelectionQubo.** Operators: the default penalty, biases and couplings for given
menus, and the decoding of any state.

**PenaltyExperiment** composes it with the fast annealer, brute force and an
exhaustive search over selections: `Begin` draws menus, a penalty and a level,
`AnnealStep` is a step of the annealer, `PrintRow` compares the three answers.

**MultiSpin.** A word is the set of the lanes whose bit is 1, so the bitwise
operations are those of sets and `Incremented` is the code's ripple-carry adder.
`Draw` draws the numbers of all lanes, only when some lane needs one; `Update`
decides and flips one site in all lanes; `EndSweep` and `Finish` sample.

**ProblemMaps, AnnealStream.** The two problems as models, their recounts, and
the streaming annealer: the plain annealer's steps (the module Annealer), with a
checkpoint after the last proposal of every `Interval`-th sweep, `LastPoint` and
`Done`.

## 3. The runs

| run | module | asks |
|---|---|---|
| `solve_stream` | MCSolveStream | the one-shot driver inside the live solver, with no, a foreseen and an unforeseen obstacle |
| `rolling_fleets` | MCRolling | the driver alone, a lifelong fleet and three one-shot ones: retasking, refinement, termination |
| `studio_jobs` | MCStudioJob | both kinds of job, two cancels, one client |
| `parallel_anneal` | MCParallelAnnealer | four replicas on three threads |
| `cbs_bay` | MCCbs | five instances on a map with a bay, against a joint-state search |
| `static_stream` | MCStaticStream | the hybrid loop with menus of two, capped at three, inside the live solver in static mode |
| `penalty_experiment` | MCPenaltyExperiment | every pair of menus of up to two paths, several penalties, all levels, against brute force, exhaustive search and the plain annealer |
| `tempering` | MCParallelTempering | three rungs, five sweeps, an exchange after every second |
| `multispin` | MCMultiSpin | two lanes, five models, every word drawn, against the plain rule |
| `anneal_stream` | MCAnnealStream | two partitions and two Max-Cut problems, five sweeps, two checkpoints asked for |
| `rolling_teleport` | MCRolling | violated: the history always passes the verifier |
| `studio_lost_cancel` | MCStudioJob | violated: a cancelled solver stops |

**What `solve_stream` shows.** `AgentsNeverCollide`: no pair of agents shares a
cell or trades cells anywhere in the history, although brakes change steps after
planning.  `HistoryInStep`: clock, histories and positions agree in each phase
of a cycle.  `NeverMovesIntoObstacle` and `HitsAreExact`: agents are never moved
into or through an obstacle, and each overlap an obstacle causes is counted once.
`VerifierAccepts`: without obstacles the repository's own verifier accepts the
history.  `ReportIsConsistent`, `EventsTellTheHistory`, `LiveCostIsALowerBound`:
a client that appends frames to the first event has the paths of the last one,
the figures match those frames, and a cost once shown is never taken back.
`ReportIsConsistent` also says what the last cycle before the cap may do: commit
fewer than `Execute` steps past it, and end with agents that are not counted as
done.  `ImplementsFleet` (run `rolling_fleets`): the driver refines FleetMotion.  The
fleets of that run meet no obstacles; that the refinement survives brakes is the
theorem `Refinement`, and no run's.

**What the later runs show.** `OptimumStaysInReach`: while CBS searches, some open
node still admits a plan as good as the best there is, and no answer given up on
costs more than that plan.  `DoneEventIsTrue`: what the browser plays back is a
plan from starts to goals, conflict-free exactly when it is called a success, and
the process dies without an event exactly when no round was ever made.
`EnergiesAreTrue`, `TableCoversProposals`, `ImplementsPlainAnnealer`: caches and
tables of the fast annealer change nothing but speed.  `PenaltiesOutweighSavings`,
`GroundStateIsBestSelection`: with the default penalty or more no state of the
model pays for a violation, and whoever finds a ground state has found a best
conflict-free selection.  `LanesDecideAlone`: sharing words, counter planes and
drawn words never lets one lane see another.  `NoReplicaIsBelowTheBest`: whatever
the sampling interval, the best state returned is the best of the replicas at
every sample and at the end.  `EventsAreTrue`, `CurveDescends`: energy and
recounted objective are one figure in two units at each checkpoint, and the curve
is in order, never rises and ends in the final event.

**Bounds.** Two agents are enough for every pairwise property of the driver;
4 x 2 cells with a wall give a corridor, a bay to give way in and a column for
obstacles to cross.  `Execute` = 2 is the smallest value with partial commits,
and `MaxSteps` = 5 gives three cycles or more, so that a brake, a hold and an
arrival can follow each other and the cap is reached in the middle of a cycle.
`Window` = 1 makes the prediction shorter than what is committed, the case that
the brakes are for.  `Detour` = 1 lets paths wait, back off, and still arrive.
CBS runs on 4 x 2 cells with up to 10 expansions, enough to solve the head-on
instance; its reference search looks 8 steps ahead, further than any optimum
there.  The hybrid loop grows menus of two to a cap of three in three rounds:
growth, duplicates and the cap all occur, as does a goal that cannot be reached.  The studio's pipe holds two lines and
its solvers write three or four, so the pipe does fill.  Four replicas on three
threads make threads run out of work at different times; two energies make ties.
Three variables are the fewest with a frustrated cycle; three sweeps revisit each
spin after its neighbours changed.  Three rungs let a configuration travel over
two of them in one exchange, and five sweeps leave one without an exchange.  Two
lanes are enough for one to disturb another; the models have sites of degree 0 to
3 and counters of two and three planes, and numbers of two bits
have a threshold at every value.  Five sweeps and two points asked for make
an interval of two, with a checkpoint on the last sweep that is printed twice.

Each instance has ends (the driver returns, jobs are over), so deadlock is not
checked; that the ends are the right ones is `Terminates`, `Returns`,
`JobsFinish` and `StreamsEnd`.

**Fairness.** Rolling: weak fairness of the whole next-state relation, as one
thread runs the loop and A* and the annealer are bounded.  ParallelAnnealer: weak
fairness of every thread, as the operating system runs threads that are ready.
StudioJob: the reader, each cancel and each streaming handler keep going, because
waits on the condition variable have a timeout and re-read their condition; the
solver neither hangs nor ignores a signal; nobody has to cancel, connect,
disconnect or crash.  Safety properties need none of this.

**Where the code and its documentation part.** The two violated runs are
findings in `PROJECT.json`.

* `rolling_teleport`: an agent that brakes in one step of a cycle goes on with
  the cell *after* the one it did not enter, two cells in one step.  The history
  then fails the verifier, which `rolling.hpp:30-31` says cannot happen.  For the
  same reason `ImplementsFleet` promises no legal single moves: FleetMotion is
  about collisions, and `VerifierAccepts` is stated without obstacles.
* `studio_lost_cancel`: a cancel handled before `job.proc` is assigned (before
  `Popen`, or between it and the assignment) finds no process to terminate.  The
  reader starts the solver all the same, or goes on with it; after one line it sees
  the status at `serve.py:230` and stops reading, but stops nothing else: a solver
  with more to print than the pipe holds blocks on it for ever, and `proc.wait()`
  (`serve.py:237`) waits for it.
  In the trace TLC prints, the cancel comes before `Popen`.

Smaller ones, met while modelling and without a run of their own:

* `result.steps` may pass `max_steps` (`rolling.hpp:56`, "global clock cap"): the
  last cycle commits all it can; and agents that all arrive in that cycle are not
  reported as `all_done` (`rolling.hpp:76`, set only at the top of the loop).
* `rolling.hpp:75` says no hits occur with perfect prediction; an obstacle can
  still run over an agent that holds, in a dead end or after a brake.
* The README says a goal "jumps to a new task the instant the agent arrives";
  arrivals are looked at once per cycle.
* `solve_stream.cpp:223-224`: `last_off` is one less than the time it is said to
  be, as its counter starts at 0 with the frame of time 1.  The running cost is
  too low by at most one per agent for it, never too high.
* `Job.cancel` turns a job that is already done into a cancelled one
  (`serve.py:193`, against "in-flight" in line 21).
* `run_cbs_job` lets the exception of a torn plan file end the thread; the job
  stays running and its streams wait (`serve.py:270`).  `JobsFinish` and
  `StreamsEnd` name that exception.
* With `hardware_concurrency() == 0` no thread is started and the untouched first
  slot is returned (`parallel.hpp:63`); `SameAsSequential` is stated for at least
  one thread.
* `solver.hpp:183-184` ends the loop with "unsolvable with these candidates" when
  no menu grew; the menus may hold a conflict-free selection the annealer missed.
* `solve_stream --static` reads the paths of an empty plan, and is killed without
  a final event, when a goal cannot be reached or `--iters` is 0
  (`solve_stream.cpp:171-174`).
* `patrol_vertical` leaves a grid of one row (`solve_stream.cpp:75-78`: the span is
  at least 1); `IsBuilt` requires two rows of a grid with patrols.
* `--points` is called a maximum (`anneal_stream.cpp:38`); up to twice as many
  events are printed, which is the bound `CurveDescends` has.
* The multi-spin annealer skips sites without edges, which the plain annealer
  flips in every sweep; their spin never matters to the energy.
* The fast annealer reports `num_sweeps` also when the deadline cut the run short.
* `random_d_regular` with an odd number of vertices leaves one out of each round,
  and `classical_maxcut` starts from a best cut of -1, so that with negative
  weights it may return an empty state (`problems/maxcut.hpp:102-134`,
  `classical_maxcut.hpp`).
* On a timeout CBS may return a plan without conflicts and optimal as a failure
  (`cbs.hpp:304`, against lines 56-58).  What a timed-out answer is good for all the
  same, a bound on the optimum, is the second half of `OptimumStaysInReach`.

## 4. The proofs

**RollingProofs**, for every grid, set of agents, window, cap, obstacle model and
menu, one-shot and lifelong.  Assumptions: `GridAssumption`, `AgentsAssumption`
(finitely many, at least one), `DetourAssumption`, `RollingAssumption`, and
`ScenarioAssumption` (agents start apart; the drivers that generate scenarios
draw distinct starts).  The inductive invariant is

    IInv == TypeOK /\ HistoryInStep /\ AgentsNeverCollide /\ CycleShape /\ Parking

`AgentsNeverCollide` alone is not inductive: a committed step is checked against
`prev`, and a held one repeats `cur`, so one must know that these are where the
history ends (`HistoryInStep`, which is split by phase because `steps` lags
behind during a commit) and that in the first step of a cycle they are the same
(`CycleShape`).  A hold is safe because the last position is itself free of
shared cells (`LatestApart`).  `Parking` says a done agent is planned to stay:
from its goal the search returns the one-cell path (`MenuAtGoal`), and a brake
keeps it there too (`DoneNext`).  Proved from `IInv`: `TypeCorrect`, `Safety`,
`InStep`, `DoneForGood` (a done agent never moves again), `ClockAdvances` (every
cycle moves the clock, the safety half of termination) and `Refinement` (the
driver implements FleetMotion, under the refinement mapping `trace <- history`,
`goal <- goals`, `parked <- done`).  None of it trusts the annealer.
`ObstacleSafety` needs nothing of the plan: `NextStep` brakes an agent that would
meet an obstacle where it really is, at a time that `HistoryInStep` shows to be
the index of the recorded position, and a hold moves nobody.
`NoLeaving` rests on one more invariant, `Arriving`: only the last cell of a
chosen path is the agent's goal, so that an agent on its goal, planned from there
in every cycle, has nowhere else to go, even when a brake has it wait behind its
path (`StaysAtGoal`).

Three more theorems rest on `IInv` and one addition each.  `ExactHits` (no
overlap is counted twice or missed) needs only that a recorded position is the
history's next one.  `VerifiedHistory`: without obstacles nobody brakes, so the
agents make the legal moves of their paths or wait (`Walking`), and what the
driver calls done is on its goal (`Finished`); what the verifier then still may
object to is where agents start, hence the hypothesis `StartsAreFree`, which the
driver does not check and its callers provide (`test_mapf_io.cpp:112-117`,
`demo_rolling.cpp:82`).  `ConsistentReports` follows the listener: `Delivered`
(the frames so far are the history but its start), `Counted` (who is done has been
counted once) and `Capped` (cycles start before the cap).

In the live solver what an obstacle did is known from its step alone (`ObstacleStep`),
so `WatchersSeeNoCollision` carries safety to the screen: what a client has drawn is
the history up to some callback (`DrawnIsAPrefix`), and shows no two agents on one cell
or trading cells (`DrawnIsSafe`).  `EventsAreTheHistory` and `LiveCostsAreBounds` rest on
`StreamInv`: beside `IInv` and `Delivered`, that the events tell one story without
gaps (`Story`), that what a client has drawn of them is the history up to the last
callback (`Picture`), that the times the cost is computed
from are times at which the agents were off their goals (`Seen`), and that no
printed cost exceeds the present one (`Shown`).  `IsBuilt` says which obstacles `main` can build.

**ReplicaProofs**, for every number of replicas and threads, and every
outcome of the seeds: `IInv == TypeOK /\ OneWriterPerSlot /\ QueueShape /\ CallerShape`.
`QueueShape` says that every replica below the counter has run or is held by a
thread, so that when all threads have found the queue empty every slot is
written; `CallerShape` says when the caller knows that, and that `bestReplica` is
the first of the best slots scanned so far.  Proved: `TypeCorrect`, `SingleWriter`,
`Deterministic` (the sequential answer, in every schedule), `WriteOnce`.

Its second part is about the replicas of MultiSpin, for words of any width.  `SampleInv`
says that the best energy belongs to the best state and that no lane is below it after
a sample (`BestLane`).  Proved: `SamplesCatchTheBest`.  `LanesAreAnnealers` is about the
kernel, for any number of lanes, of digits and of neighbours: each lane flips a site
exactly when the plain rule does.  It rests on what binary digits are: adding 1 turns a
digit exactly when all lower ones are 1 (`BitOfNext`, so that the ripple-carry counter
counts, `CountDigits`), numbers with the same digits are the same (`DigitsTell`, with
which `equals` finds the lanes of each count), and the highest digit that differs decides
a comparison (`NumbersCompare`).  The counter has a plane for every degree (`DegreeFits`), and the
count gives the rise of the energy (`RiseOfFlip`).  The theorem assumes what
`MultiSpinInputs` does: thresholds of `B` bits.

**StudioProofs**, for every script of the solvers, every size of the pipe and
any number of cancel requests and clients.  Assumptions: `JobAssumption`, and
`DoneIsLast`: a solver's terminal event is the last line it writes
(`solve_stream.cpp` and `anneal_stream.cpp` print it and return).  The inductive
invariant is

    IInv == JobInv /\ StreamShape /\ ClientsFollow
    JobInv == TypeOK /\ ReaderShape /\ TerminalLine /\ ResultIsLast /\ OutcomeAgrees

`OutcomeAgrees` is disturbed by an event after the terminal one, or by a thread
that ends in error with a result.  `TerminalLine` follows the terminal line from
the solver through the pipe to the reader: behind it there is only torn output,
so nothing is pushed once there is a result (`ResultIsLast`).  `StreamShape` says
that a stream ends only after a job has stopped; as a finished job is pushed no
further event, what its client has then is all there will ever be.  Proved:
`Outcome`, `Following`, `EndIsFinal` and `CancelIsFinal`.

**CbsProofs**, for every map, fleet, budget and choice among equally short paths.
Assumptions: `CbsAssumption` (starts and goals on passable cells) and
`SlackAssumption`.  The inductive invariant `CbsInv` says that the open list is a
finite set of nodes, each with a shortest path per agent that obeys the agent's
constraints, and

* that no solution is lost: each plan without collisions, of any length, obeys the
  constraints of some open node (`NoSolutionIsLost`), as it cannot make both of
  the moves a split forbids (`SplitKeepsSolutions`);
* that every node is `Tight`: no path that obeys a constraint set ends before its
  last constraint.  The low level throws away arrivals earlier than that
  (`cbs.hpp`), which is only harmless because a split always adds a constraint
  that each of these paths would have run into (`NewConstraintReaches`);
* what has been proved of an answer (`SuccessIsBest`, `RefusalIsRight`,
  `TimeoutIsABound`).

The low level is shown to be sound and minimal (`FoundIsAWay`, `ShortestIsFound`):
its layers stop growing before the time bound, by counting cells
(`LastLayerIsClosed`), so a path that exists is found.  The verifier looks only as
far as the makespan; `VerdictCoversAllTimes` extends its verdict to all times, and
paths may be cut off after the last arrival (`Trimmed`) or wait on (`PaddingIsFree`)
without changing it or the cost.  Proved: `PathsObey`; `SuccessesAreOptimal`, the
contract of `cbs.hpp:3-4`, in terms of the repository's own verifier;
`RefusalsAreRight` (giving up with budget and time left means that there is no
plan); `TimeoutsAreBounds` (the plan a timeout returns costs no more than any plan
without collisions, as it is the cheapest open node's: `TopIsABound`, `TopCostsItsPlan`);
`OptimumIsKept`; and `SuccessesMatchTheReference`, that the run's joint
search finds the same optimum, wherever it looks far enough to find any
(`LooksFarEnough`, which the run's instances satisfy).

Its second part proves AnnealStream right for the problems
`StreamInputs` allows: any numbers, any graph without loops (`add_interaction` asserts
that), at least one variable, any number of sweeps and points.  A sum of signed numbers
squared is the energy of its model (`SquareEnergy`, `PartitionAgrees`), and the edges a
state cuts give that of a Max-Cut model (`CutEnergy`, `CutAgrees`).  `StreamInv` adds to
the energies that every printed point is true, that no point is below the best energy,
and that the number of points is that of the multiples of the interval passed
(`Passed`, `PassedBound`).  Proved: `EventsBelongTogether`, `CurveKeepsDescending`.

**BqmTheorems, AnnealerProofs**, for models, sweeps and levels of any size.  A model
is symmetric with whole weights (`IsModel`).  BqmTheorems has the algebra: sums over
finite sets, an energy as half of a symmetric sum, what a flip does to energy and
fields (`EnergyAfterFlip`, `FieldAfterFlip`), and that the conversion from bits to
spins is exact (`ToSpinIsExact`).  `FastInv` says that the cache holds the fields of
the current spins at the levels that use it, and the running energies are those of
their states.  Proved: `EnergiesStayTrue`, also in the caller's own model;
`TableIsLargeEnough`: no energy change can exceed the table that was sized by the
largest row of couplings; `FastImplementsPlain`: at each of its levels the fast
annealer takes the plain annealer's steps.

AnnealerProofs goes on to the models that select paths, for any number of agents
and menus of any length (`IsMenus`, from `ExperimentAssumption`).  The variables are
the candidates of all menus, each once (`OwnersAreListed`), so a state marks some
candidates of each agent, and the built model is symmetric and of the form
`IsSelection` (`BuiltIsSelection`).  The energy of a state is, in quarters,

    4 * travel + 4 * penalty * (the sum over agents of (marks - 1)^2) + 2 * penalty * clashes

with each clashing pair counted from both sides (`SelectionEnergy`).  A state with no
violation therefore costs its travel, any other at least the penalty, and the default
penalty exceeds the travel cost of every selection (`DefaultIsEnough`).  With
`ExperimentInv == FastInv /\ BuiltInv /\ RowInv`, which follows the experiment from its
menus to the printed row, this gives `NoSavingPays` for each state the annealer passes
through, and `GroundIsBest`: a first state of least energy exists (`GroundExists`), it
decodes to a best selection when there is a conflict-free one, and the annealer's state does so
exactly if its energy is the least.

**TemperingProofs**, for models and ladders of any size: `ControlInv` (where in its
loops the code is), `SwapInv` (attempts are rounds times pairs) and `ReplicaInv`
(every rung's energy and fields are those of its spins, through exchanges, and the
best energy is not above any).  Proved: `SwapRatesStayExact`, `ReplicasStayWhole`.

**HybridProofs**, for every grid, fleet, menu size and cap, and any selection.
`HybridAssumption` has starts and goals on passable cells and `SizeMax`, the largest
`size_t`, above the number of violations a plan on the map can conceivably have
(`Conceivable`): the code starts with that number as the fewest conflicts so far,
and would otherwise never keep a first plan.  `HybridInv` says what a menu's paths
are (`PoolInv`; a path of the timed A* walks on passable cells to the goal,
`PathsAreWhole`), that the kept plan and its verification belong together
(`KeptInv`), and when a plan has been found.  Proved: `TrueReport`,
`OnlyCollisionsFail`, `BestIsKept`; `RoundsArePaid`, by counting the paths of all menus
(`PayInv`); and, composed with the live solver, `TrueDoneEvent` and `OnlyInputsKill`:
when the process dies without an event, some agent cannot reach its goal, or no
candidates or no rounds were asked for (`NoRound`), and never because of the annealer.

Induction over data has no library theorem the installed provers can use, as these
take an operator as a parameter.  Where it is needed (sums, the layers of A*, the
joint search), the property is given as the *set* of those that have it, for which
well-foundedness can be instantiated (`SubsetInduction`, `NaturalInduction`,
`ElementInduction`), and a recursive function is shown to exist before its
definition is unfolded (`SumsExist`, `LayersExist`, `SearchExists`).

Only model-checked: liveness (`Terminates`, `Returns`, `JobsFinish`, `StreamsEnd`),
which is out of the prover's reach.  Every other property of a passing run is stated by
a theorem.

## 5. What is left out

* Text: parsing and printing of maps, scenarios, plans and options; the studio's
  other HTTP endpoints; plots, benchmarks, demos and data generation.
* Probabilities: schedules and random numbers.  A draw is any outcome.
* Floating point: biases are exact.  The fast annealer's thresholds are any
  outcome a draw can have, so their rounding is not covered.
* The converse conversion of models (spins to bits), which only tests call.
* The empty ladder of parallel tempering, whose best state the code reads from
  an empty vector, and models without variables there.
* In multi-spin, thresholds that round to one (temperatures above 10^16), and
  `lane_k`, which repeats the counter for a test.
* Generators of random graphs and the reader of Gset files.  `anneal_stream` calls two
  of them before it anneals (`anneal_stream.cpp:108`, `:121`); the graphs they return
  are inputs of AnnealStream.  `brute_force_max_cut` and the classical local search,
  which only experiments and tests call.
* The solvers' error output, a second pipe that nobody drains while they run.  They
  write one usage or error line to it (`solve_stream.cpp:101`,
  `anneal_stream.cpp:113-124`, `solve_cbs.cpp:54`), far from filling it.
* Edges whose couplings cancel: `MultiSpin.Neighbours` takes a coupling of 0 for no
  edge, while the code keeps such an edge (`bqm.hpp:52-57`) and refuses the model
  (`multispin.hpp:229-233`).
* Different penalties for one choice per agent and for conflicts:
  `SelectionQubo.BuildModel` takes one value for both, as all callers do
  (`conflict_qubo.hpp:125-179`).
* The timing of the parallel annealer at the end of the annealing stream.
* The browser page, whose code is handlers around drawing; what it is told is the
  subject of SolveStream, StaticStream, AnnealStream and StudioJob.

## 6. Plan

What is done is marked.

1. (done) Driver and abstract fleet; live solver; parallel restarts; studio job;
   CBS; hybrid loop; annealers; selection QUBO.
2. (done) Proofs of the safety of the driver, the parallel restarts and the studio
   job.
3. (done) Parallel tempering over Bqm: exchanges keep replicas whole.
4. (done) The annealing stream with the problems it anneals.
5. (done) The multi-spin kernel against the plain rule, lane by lane.
6. (done) Static mode of the live solver composed with the hybrid loop, with the
   empty plan it may get; obstacle generators; the selection QUBO composed with
   the fast annealer at all its levels, in the penalty experiment.
7. (done) Proofs of the hybrid loop and static mode, conflict-based search, the
   fast annealer, parallel tempering, the selection model's ground states, and the
   rest of the driver's and the live solver's properties.
8. (done) A timed-out CBS answer as a bound; the causes of death in static mode; what
   a client draws is free of collisions.
9. (done) Proofs about the annealing stream and about the samples, the counter and the
   comparison of the multi-spin annealer.
