----------------------------- MODULE Calibrate -----------------------------
(***************************************************************************)
(* calibrate: the binary search for the value of a search knob ("ef")      *)
(* whose precision is the target.  Every probe is a full search run        *)
(* against the engine, which answers with a precision or fails.  The       *)
(* engine is a curve: the precision of each value of the knob.  Precisions *)
(* are levels 0..; equal levels are those the code's 1e-9 calls equal.     *)
(***************************************************************************)
EXTENDS Integers, FiniteSets

CONSTANTS
  MaxValue,   \* the largest value swept (1000)
  Tops,       \* values of `top`, the smallest value swept
  Targets,    \* calibration_precision
  Curves      \* functions from knob values to precisions

Knobs == UNION {(t..MaxValue) \cup (MaxValue..t) : t \in Tops}

ASSUME CalibrateAssumption ==
  /\ MaxValue \in Nat /\ Tops \subseteq Nat /\ Targets \subseteq Nat
  /\ \A c \in Curves : c \in [Knobs -> Nat]

VARIABLES
  top, target, curve,       \* the inputs
  unreachable,              \* the ground truth's ceiling is below the target
  lower, upper,             \* lower_bound, upper_bound
  lowerVisited, upperVisited,
  current, previous, previousPrecision,
  outcome,                  \* the CalibrationOutcome, an error, or none yet
  visited                   \* history: the values probed before current

inputs == <<top, target, curve, unreachable>>
vars == <<inputs, lower, upper, lowerVisited, upperVisited, current, previous,
          previousPrecision, outcome, visited>>

Pending == [kind |-> "none"]
Failed  == [kind |-> "err"]

Init ==
  /\ top \in Tops /\ target \in Targets /\ curve \in Curves
  /\ unreachable \in BOOLEAN
  /\ lower = top /\ upper = MaxValue
  /\ lowerVisited = FALSE /\ upperVisited = FALSE
  /\ current = (top + MaxValue) \div 2
  /\ previous = current /\ previousPrecision = 0
  /\ outcome = Pending /\ visited = {}

Distance(p) == IF p > target THEN p - target ELSE target - p

\* finish_calibration: what is reported of the value chosen.
Finish(value, achieved) ==
  [kind |-> "ok", value |-> value, achieved |-> achieved,
   reached |-> achieved >= target,
   note |-> IF achieved >= target THEN "none"
            ELSE IF unreachable THEN "unreachable" ELSE "topped_out"]

\* Mutant: the sides are swapped.
NarrowSwapped(p) ==
  IF p < target
  THEN /\ upper' = current /\ upperVisited' = TRUE
       /\ UNCHANGED <<lower, lowerVisited>>
  ELSE /\ lower' = current /\ lowerVisited' = TRUE
       /\ UNCHANGED <<upper, upperVisited>>

\* The probe moves one end of the interval to the current value.
Narrow(p) ==
  IF p > target
  THEN /\ upper' = current /\ upperVisited' = TRUE
       /\ UNCHANGED <<lower, lowerVisited>>
  ELSE /\ lower' = current /\ lowerVisited' = TRUE
       /\ UNCHANGED <<upper, upperVisited>>

NextValue == (lower' + upper') \div 2

\* Mutant: both ends must have been probed.
ConvergedBoth ==
  lowerVisited' /\ upperVisited' /\ NextValue \in {lower', upper'}

\* The next probe would revisit an end.
Converged ==
  \/ lowerVisited' /\ NextValue = lower'
  \/ upperVisited' /\ NextValue = upper'

\* Mutant: the farther of the two is reported.
CloserFlipped(p) ==
  IF Distance(previousPrecision) > Distance(p)
  THEN Finish(previous, previousPrecision) ELSE Finish(current, p)

\* The closer of the last two probes.
Closer(p) ==
  IF Distance(previousPrecision) < Distance(p)
  THEN Finish(previous, previousPrecision) ELSE Finish(current, p)

Probe ==
  /\ outcome = Pending
  /\ LET p == curve[current] IN
     \/ /\ p = target
        /\ outcome' = Finish(current, p)
        /\ UNCHANGED <<lower, upper, lowerVisited, upperVisited, current,
                       previous, previousPrecision>>
     \/ /\ p # target
        /\ Narrow(p)
        /\ IF Converged
           THEN /\ outcome' = Closer(p)
                /\ UNCHANGED <<current, previous, previousPrecision>>
           ELSE /\ previous' = current /\ previousPrecision' = p
                /\ current' = NextValue
                /\ UNCHANGED outcome
  /\ visited' = visited \cup {current}
  /\ UNCHANGED inputs

\* engine.search fails and `?` ends the calibration.
ProbeErr ==
  /\ outcome = Pending
  /\ outcome' = Failed
  /\ UNCHANGED <<inputs, lower, upper, lowerVisited, upperVisited, current,
                 previous, previousPrecision, visited>>

Done == outcome # Pending /\ UNCHANGED vars

Next == Probe \/ ProbeErr \/ Done

Spec == Init /\ [][Next]_vars

-----------------------------------------------------------------------------
\* Properties.

TypeOK ==
  /\ top \in Tops /\ target \in Targets /\ curve \in Curves
  /\ unreachable \in BOOLEAN
  /\ lower \in Knobs /\ upper \in Knobs /\ current \in Knobs /\ previous \in Knobs
  /\ lowerVisited \in BOOLEAN /\ upperVisited \in BOOLEAN
  /\ previousPrecision \in Nat
  /\ visited \subseteq Knobs
  /\ outcome.kind \in {"none", "ok", "err"}
  /\ outcome.kind = "ok" => outcome.value \in Knobs /\ outcome.achieved \in Nat

\* The usual case: `top` is not above the largest value swept.
InOrder == top <= MaxValue

Monotone == \A a, b \in DOMAIN curve : a <= b => curve[a] <= curve[b]

\* The interval always holds the crossing: an end that was probed lies on its
\* side of the target, and no probe between the ends was forgotten.
Bracket ==
  /\ lowerVisited => curve[lower] < target
  /\ upperVisited => curve[upper] > target
  /\ InOrder => /\ lower <= upper
                /\ \A v \in visited : outcome = Pending => v <= lower \/ v >= upper

\* No search run is spent twice on the same value: the convergence test of
\* calibrate catches the revisit of either end.
NoPointTwice ==
  InOrder /\ outcome = Pending => current \notin visited

\* When precision grows with the knob, the reported value is one of the two
\* adjacent values between which the curve crosses the target: neither has to
\* be `previous`, so this is not what the code compares.
ReportsTheCrossing ==
  /\ outcome.kind = "ok" /\ Monotone /\ InOrder
  /\ outcome.achieved = curve[outcome.value]
  => \/ outcome.achieved = target
     \/ /\ outcome.value \in {lower, upper}
        /\ upper - lower <= 1

\* finish_calibration: "The reported value is the closest point found".
ReportsTheClosest ==
  outcome.kind = "ok" /\ outcome.note = "topped_out" /\ Monotone /\ InOrder
    => \A v \in visited : Distance(curve[v]) >= Distance(outcome.achieved)

=============================================================================
