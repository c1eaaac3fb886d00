------------------------------- MODULE Window -------------------------------
(***************************************************************************)
(* What the components of the window share: the user, whose clicks are     *)
(* bounded, and the backend, whose failing answers are.                    *)
(***************************************************************************)
EXTENDS Naturals, Sequences, SequencesExt

CONSTANTS
  none,            \* null, undefined, the empty string: nothing there
  MaxFaults        \* bound on failing reads, writes and calls

ASSUME WindowAssumption == MaxFaults \in Nat

VARIABLES clicks, faults

\* One of the user's operations, of which there are at most "bound".
Spend(bound) == clicks < bound /\ clicks' = clicks + 1

\* The answer on the way is an error.
Fault == faults < MaxFaults /\ faults' = faults + 1

WindowInit == clicks = 0 /\ faults = 0
=============================================================================
