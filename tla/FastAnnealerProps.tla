-------------------------- MODULE FastAnnealerProps -------------------------
(***************************************************************************)
(* What the optimised annealer must keep: the work it saves must not show. *)
(***************************************************************************)
EXTENDS FastAnnealer

\* The energies reported are the energies, in the caller's own model, of the states
\* reported, although they are only ever added to and the model was converted
\* (fast_annealer.hpp:364-368, 373-375; bqm.hpp:101-124).
EnergiesAreTrue ==
    /\ energy = Energy(model, FromSpins(model, spin))
    /\ bestEnergy = Energy(model, FromSpins(model, best))

\* The threshold of a proposal is in the table, which is sized before the first
\* spin is set, and the table is only read at whole energy changes
\* (fast_annealer.hpp:33-39, 148-163, 334-340).
TableCoversProposals ==
    Proposing /\ level = 4 /\ IntegerMode(view) /\ Change > 0 =>
        IsWhole(Change) /\ Change \div Unit < TableSize(view)

\* At every level it is the plain annealer: the same proposals and decisions in the
\* same order, although fields are cached and adjusted, and at levels 3 and 4 with
\* the same draws before each; levels 1 and 2 draw more, but never for a decision
\* the draw could change.  A deadline only stops it early
\* (fast_annealer.hpp:16-51, 289-371).
Plain == INSTANCE Annealer WITH state <- spin, draws <- draws - spare

ImplementsPlainAnnealer == Plain!PlainSpec
=============================================================================
