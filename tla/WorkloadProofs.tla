--------------------------- MODULE WorkloadProofs ---------------------------
(***************************************************************************)
(* What the searches of a configuration report.  For every curve, range    *)
(* and target: the calibrated parameter is the crossing.  For every schema *)
(* and set of configs: a fulltext result was measured on the analysis it   *)
(* names, a fused one with the constant it names, and any result on the    *)
(* index layout it names, whoever built, marked or left what is there.     *)
(***************************************************************************)
EXTENDS Calibrate, MCTextWorkloads, FiniteSetTheorems, TLAPS

-----------------------------------------------------------------------------
\* The calibration.

\* The values between `top` and MaxValue, whichever is larger.
Between(v) == \/ top <= v /\ v <= MaxValue
              \/ MaxValue <= v /\ v <= top

\* Both ends stay within the interval the sweep started from.
Within ==
  /\ lower \in Nat /\ upper \in Nat
  /\ Between(lower) /\ Between(upper)
  /\ Between(current) /\ Between(previous)
  /\ InOrder => lower <= upper

\* While the sweep runs, the next probe halves the interval, and it is at an
\* end only when that end has not been probed.
Aim ==
  outcome = Pending =>
    /\ current = (lower + upper) \div 2
    /\ lowerVisited => current # lower
    /\ upperVisited => current # upper

\* Where the earlier probes are: outside the interval, or its probed ends.
Trail ==
  InOrder /\ outcome = Pending =>
    /\ \A v \in visited : v <= lower \/ v >= upper
    /\ lower \in visited => lowerVisited
    /\ upper \in visited => upperVisited

Sides ==
  /\ lowerVisited => curve[lower] < target
  /\ upperVisited => curve[upper] > target

IInv == TypeOK /\ Within /\ Aim /\ Trail /\ Sides

\* A value between the two limits is one the curves are defined on.
LEMMA BetweenIsKnob ==
  ASSUME TypeOK, NEW v \in Nat, Between(v)
  PROVE  v \in Knobs
<1>1. top \in Nat /\ MaxValue \in Nat
  BY CalibrateAssumption DEF TypeOK
<1>2. CASE top <= v /\ v <= MaxValue
  <2>1. v \in top..MaxValue
    BY <1>1, <1>2
  <2> QED
    BY <2>1 DEF Knobs, TypeOK
<1>3. CASE MaxValue <= v /\ v <= top
  <2>1. v \in MaxValue..top
    BY <1>1, <1>3
  <2> QED
    BY <2>1 DEF Knobs, TypeOK
<1> QED
  BY <1>2, <1>3 DEF Between

\* The midpoint lies between the ends, and equals the upper one only when the
\* ends meet.
LEMMA Midpoint ==
  ASSUME NEW a \in Nat, NEW b \in Nat
  PROVE  LET m == (a + b) \div 2 IN
         /\ m \in Nat
         /\ a <= b => a <= m /\ m <= b /\ (m = b => a = b)
         /\ b <= a => b <= m /\ m <= a /\ (m = a => a = b)
OBVIOUS

LEMMA KnobsAreNat == Knobs \subseteq Nat
<1> SUFFICES ASSUME NEW v \in Knobs PROVE v \in Nat
  OBVIOUS
<1> QED
  BY CalibrateAssumption DEF Knobs

LEMMA InitIInv == Init => IInv
<1> SUFFICES ASSUME Init PROVE IInv
  OBVIOUS
<1>1. top \in Nat /\ MaxValue \in Nat /\ current \in Nat /\ lower = top /\ upper = MaxValue
  BY CalibrateAssumption, Midpoint DEF Init
<1>2. Between(lower) /\ Between(upper) /\ Between(current) /\ Between(previous)
  BY <1>1, Midpoint DEF Init, Between
<1>3. {lower, upper, current, previous} \subseteq Knobs
  <2>1. ASSUME NEW v \in Nat, Between(v) PROVE v \in Knobs
    <3>1. CASE top <= v /\ v <= MaxValue
      <4>1. v \in top..MaxValue BY <1>1, <3>1
      <4> QED BY <4>1 DEF Knobs, Init
    <3>2. CASE MaxValue <= v /\ v <= top
      <4>1. v \in MaxValue..top BY <1>1, <3>2
      <4> QED BY <4>1 DEF Knobs, Init
    <3> QED BY <2>1, <3>1, <3>2 DEF Between
  <2> QED
    BY <1>1, <1>2, <2>1 DEF Init
<1>4. TypeOK
  BY <1>1, <1>3 DEF Init, TypeOK, Pending
<1>5. Within
  BY <1>1, <1>2 DEF Init, Within, InOrder
<1>6. Aim /\ Trail /\ Sides
  BY <1>1 DEF Init, Aim, Trail, Sides
<1> QED
  BY <1>4, <1>5, <1>6 DEF IInv

\* A probe keeps the invariant.
LEMMA ProbeIInv == IInv /\ Probe => IInv'
<1> SUFFICES ASSUME IInv, Probe PROVE IInv'
  OBVIOUS
<1> DEFINE p == curve[current]
<1>1. /\ top \in Nat /\ MaxValue \in Nat /\ target \in Nat
      /\ lower \in Nat /\ upper \in Nat /\ current \in Nat /\ previous \in Nat
      /\ current \in Knobs /\ p \in Nat
  BY CalibrateAssumption, KnobsAreNat DEF IInv, TypeOK, Within
<1>2. UNCHANGED inputs /\ visited' = visited \cup {current} /\ outcome = Pending
  BY DEF Probe
<1>3. /\ Between(lower) /\ Between(upper) /\ Between(current) /\ Between(previous)
      /\ InOrder => lower <= upper
      /\ current = (lower + upper) \div 2
  BY <1>2 DEF IInv, Within, Aim
<1>4. \A v : Between(v)' <=> Between(v)
  BY <1>2 DEF Between, inputs
<1>5. visited' \subseteq Knobs
  BY <1>1, <1>2 DEF IInv, TypeOK
<1>6. CASE /\ p = target
           /\ outcome' = Finish(current, p)
           /\ UNCHANGED <<lower, upper, lowerVisited, upperVisited, current,
                          previous, previousPrecision>>
  <2>1. outcome' # Pending /\ outcome'.kind = "ok" /\ outcome'.value = current
          /\ outcome'.achieved = p
    BY <1>6 DEF Finish, Pending
  <2>2. TypeOK'
    BY <1>1, <1>2, <1>5, <1>6, <2>1 DEF IInv, TypeOK, inputs
  <2>3. Within' /\ Sides'
    BY <1>2, <1>4, <1>6 DEF IInv, Within, Sides, InOrder, inputs
  <2>4. Aim' /\ Trail'
    BY <2>1 DEF Aim, Trail, Pending
  <2> QED
    BY <2>2, <2>3, <2>4 DEF IInv
<1>7. CASE p # target /\ Narrow(p)
           /\ IF Converged
              THEN /\ outcome' = Closer(p)
                   /\ UNCHANGED <<current, previous, previousPrecision>>
              ELSE /\ previous' = current /\ previousPrecision' = p
                   /\ current' = NextValue
                   /\ UNCHANGED outcome
  <2>1. /\ lower' \in {lower, current} /\ upper' \in {upper, current}
        /\ lowerVisited' \in BOOLEAN /\ upperVisited' \in BOOLEAN
        /\ lower' \in Nat /\ upper' \in Nat
        /\ lower' \in Knobs /\ upper' \in Knobs
    BY <1>1, <1>7 DEF Narrow, IInv, TypeOK
  <2>2. Between(lower') /\ Between(upper')
    BY <1>3, <2>1
  <2>3. InOrder => lower' <= upper'
    BY <1>1, <1>3, <1>7, Midpoint DEF Narrow
  <2>4. Sides'
    BY <1>1, <1>2, <1>7 DEF Narrow, IInv, Sides, inputs
  <2>5. NextValue \in Nat /\ Between(NextValue)
    <3> DEFINE n == NextValue
    <3>1. /\ n \in Nat
          /\ lower' <= upper' => lower' <= n /\ n <= upper'
          /\ upper' <= lower' => upper' <= n /\ n <= lower'
      BY <2>1, Midpoint DEF NextValue
    <3> HIDE DEF n
    <3>2. Between(n)
      BY <1>1, <2>1, <2>2, <3>1 DEF Between
    <3> QED
      BY <3>1, <3>2 DEF n
  <2>6. NextValue \in Knobs
    BY <2>5, BetweenIsKnob DEF IInv
  <2>7. CASE Converged
    <3>1. outcome' = Closer(p) /\ UNCHANGED <<current, previous, previousPrecision>>
      BY <1>7, <2>7
    <3>2. /\ outcome'.kind = "ok" /\ outcome'.value \in {previous, current}
          /\ outcome'.achieved \in {previousPrecision, p}
      BY <3>1 DEF Closer, Finish
    <3>3. TypeOK'
      BY <1>1, <1>2, <1>5, <2>1, <3>1, <3>2 DEF IInv, TypeOK, inputs
    <3>4. Within'
      BY <1>2, <1>3, <1>4, <2>1, <2>2, <2>3, <3>1 DEF Within, InOrder, inputs
    <3>5. Aim' /\ Trail'
      BY <3>2 DEF Aim, Trail, Pending
    <3> QED
      BY <2>4, <3>3, <3>4, <3>5 DEF IInv
  <2>8. CASE ~Converged
    <3>1. previous' = current /\ previousPrecision' = p /\ current' = NextValue
            /\ UNCHANGED outcome
      BY <1>7, <2>8
    <3>2. TypeOK'
      BY <1>1, <1>2, <1>5, <2>1, <2>6, <3>1 DEF IInv, TypeOK, inputs
    <3>3. Within'
      BY <1>2, <1>3, <1>4, <2>1, <2>2, <2>3, <2>5, <3>1 DEF Within, InOrder, inputs
    <3>4. Aim'
      BY <2>8, <3>1 DEF Aim, Converged, NextValue
    <3>5. Trail'
      <4> SUFFICES ASSUME InOrder
                   PROVE  /\ \A v \in visited' : v <= lower' \/ v >= upper'
                          /\ lower' \in visited' => lowerVisited'
                          /\ upper' \in visited' => upperVisited'
        BY <1>2 DEF Trail, InOrder, inputs
      <4>1. /\ \A v \in visited : v \in Nat /\ (v <= lower \/ v >= upper)
            /\ lower \in visited => lowerVisited
            /\ upper \in visited => upperVisited
        BY <1>2, KnobsAreNat DEF IInv, Trail, TypeOK
      <4>2. lower <= current /\ current <= upper /\ (current = upper => lower = upper)
        BY <1>1, <1>3, Midpoint
      <4>3. CASE p > target
        <5>1. upper' = current /\ upperVisited' = TRUE /\ UNCHANGED <<lower, lowerVisited>>
          BY <1>7, <4>3 DEF Narrow
        <5>2. lower = current => Converged
          BY <1>1, <5>1 DEF Converged, NextValue
        <5> QED
          BY <1>1, <1>2, <2>8, <4>1, <4>2, <5>1, <5>2
      <4>4. CASE ~(p > target)
        <5>1. lower' = current /\ lowerVisited' = TRUE /\ UNCHANGED <<upper, upperVisited>>
          BY <1>7, <4>4 DEF Narrow
        <5>2. upper = current => Converged
          BY <1>1, <5>1 DEF Converged, NextValue
        <5> QED
          BY <1>1, <1>2, <2>8, <4>1, <4>2, <5>1, <5>2
      <4> QED
        BY <4>3, <4>4
    <3> QED
      BY <2>4, <3>2, <3>3, <3>4, <3>5 DEF IInv
  <2> QED
    BY <2>7, <2>8
<1> QED
  BY <1>6, <1>7 DEF Probe

LEMMA NextIInv == IInv /\ [Next]_vars => IInv'
<1> SUFFICES ASSUME IInv, [Next]_vars PROVE IInv'
  OBVIOUS
<1>1. CASE Probe
  BY <1>1, ProbeIInv
<1>2. CASE ProbeErr
  BY <1>2 DEF ProbeErr, IInv, TypeOK, Within, Between, Aim, Trail, Sides, InOrder,
              inputs, Failed, Pending
<1>3. CASE UNCHANGED vars
  BY <1>3 DEF vars, inputs, IInv, TypeOK, Within, Between, Aim, Trail, Sides, InOrder
<1> QED
  BY <1>1, <1>2, <1>3 DEF Next, Done

\* The strengthened invariant holds in every state of a calibration.
THEOREM SweepInvariance == Spec => []IInv
<1> QED
  BY InitIInv, NextIInv, PTL DEF Spec

\* calibrate's interval keeps its type and its ends on their side of the
\* target, and every probe but the last is outside it, for every curve.
THEOREM Brackets == Spec => [](TypeOK /\ Bracket)
<1>1. IInv => TypeOK /\ Bracket
  BY DEF IInv, Bracket, Sides, Within, Trail
<1> QED
  BY <1>1, SweepInvariance, PTL

\* No value of the knob is searched twice: each probe is new.
THEOREM NoProbeTwice == Spec => []NoPointTwice
<1>1. IInv => NoPointTwice
  <2> SUFFICES ASSUME IInv, InOrder, outcome = Pending, current \in visited PROVE FALSE
    BY DEF NoPointTwice
  <2>1. lower \in Nat /\ upper \in Nat /\ lower <= upper /\ current = (lower + upper) \div 2
    BY DEF IInv, Within, Aim
  <2>2. lower <= current /\ current <= upper /\ current \in Nat
    BY <2>1, Midpoint
  <2>3. current = lower \/ current = upper
    BY <2>1, <2>2 DEF IInv, Trail
  <2> QED
    BY <2>3 DEF IInv, Trail, Aim
<1> QED
  BY <1>1, SweepInvariance, PTL

-----------------------------------------------------------------------------
\* The probe before the current one is an end of the interval, except at the
\* first probe, which is its own predecessor.
LastProbe ==
  outcome = Pending =>
    \/ previous = current
    \/ /\ previousPrecision = curve[previous]
       /\ (previous = lower /\ lowerVisited) \/ (previous = upper /\ upperVisited)

CrossIInv == IInv /\ LastProbe /\ ReportsTheCrossing

\* A converged interval has no room for another probe.
LEMMA NoRoom ==
  ASSUME NEW a \in Nat, NEW b \in Nat, a <= b, (a + b) \div 2 \in {a, b}
  PROVE  b - a <= 1
OBVIOUS

\* A probe that ends the sweep: when the one before it lies on the same side, a
\* growing curve puts it farther from the target, so it is not the one reported.
LEMMA ConvergedCrosses ==
  ASSUME CrossIInv, IInv', UNCHANGED inputs, outcome = Pending, curve[current] # target,
         Narrow(curve[current]), Converged, outcome' = Closer(curve[current])
  PROVE  ReportsTheCrossing'
<1> DEFINE p == curve[current]
<1> SUFFICES ASSUME outcome'.achieved = curve[outcome'.value], Monotone, InOrder
             PROVE  outcome'.value \in {lower', upper'} /\ upper' - lower' <= 1
  BY DEF ReportsTheCrossing, Monotone, InOrder, inputs
<1>1. /\ target \in Nat /\ p \in Nat /\ previousPrecision \in Nat /\ DOMAIN curve = Knobs
      /\ lower \in Knobs /\ upper \in Knobs /\ current \in Knobs /\ previous \in Knobs
      /\ curve[lower] \in Nat /\ curve[upper] \in Nat
  BY CalibrateAssumption DEF CrossIInv, IInv, TypeOK
<1>2. lower \in Nat /\ upper \in Nat /\ lower <= upper /\ current = (lower + upper) \div 2
  BY DEF CrossIInv, IInv, Within, Aim
<1>3. lower <= current /\ current <= upper /\ current \in Nat
  BY <1>2, Midpoint
<1>4. lower' \in Nat /\ upper' \in Nat /\ lower' <= upper'
  BY DEF IInv, Within, InOrder, inputs
<1>5. upper' - lower' <= 1
  <2>1. (lower' + upper') \div 2 \in {lower', upper'}
    BY DEF Converged, NextValue
  <2> QED
    BY <1>4, <2>1, NoRoom
<1>6. outcome'.value \in {previous, current}
  BY DEF Closer, Finish
<1>7. current \in {lower', upper'}
  BY DEF Narrow
<1>8. CASE outcome'.value # current
  <2>1. outcome'.value = previous /\ Distance(previousPrecision) < Distance(p)
    BY <1>6, <1>8 DEF Closer, Finish
  <2>2. previous # current
    BY <1>8, <2>1
  <2>3. /\ previousPrecision = curve[previous]
        /\ (previous = lower /\ lowerVisited) \/ (previous = upper /\ upperVisited)
    BY <2>2 DEF CrossIInv, LastProbe
  <2>4. CASE p > target
    <3>1. upper' = current /\ lower' = lower
      BY <2>4 DEF Narrow
    <3>2. p <= curve[upper]
      BY <1>1, <1>3 DEF Monotone
    <3>3. previous # upper
      BY <1>1, <2>1, <2>3, <2>4, <3>2 DEF Distance
    <3> QED
      BY <1>5, <2>1, <2>3, <3>1, <3>3
  <2>5. CASE ~(p > target)
    <3>1. lower' = current /\ upper' = upper
      BY <2>5 DEF Narrow
    <3>2. curve[lower] <= p /\ p < target
      BY <1>1, <1>3, <2>5 DEF Monotone
    <3>3. previous # lower
      BY <1>1, <2>1, <2>3, <3>2 DEF Distance
    <3> QED
      BY <1>5, <2>1, <2>3, <3>1, <3>3
  <2> QED
    BY <2>4, <2>5
<1> QED
  BY <1>5, <1>7, <1>8

LEMMA ProbeCrosses == CrossIInv /\ Probe => CrossIInv'
<1> SUFFICES ASSUME CrossIInv, Probe PROVE LastProbe' /\ ReportsTheCrossing'
  BY ProbeIInv DEF CrossIInv
<1> DEFINE p == curve[current]
<1>1. UNCHANGED inputs /\ outcome = Pending /\ IInv'
  BY ProbeIInv DEF Probe, CrossIInv
<1>2. CASE p = target /\ outcome' = Finish(current, p)
  <2>1. outcome'.kind = "ok" /\ outcome'.achieved = target'
    BY <1>1, <1>2 DEF Finish, inputs
  <2> QED
    BY <2>1 DEF LastProbe, Pending, ReportsTheCrossing
<1>3. CASE p # target /\ Narrow(p) /\ Converged /\ outcome' = Closer(p)
  <2>1. outcome'.kind = "ok"
    BY <1>3 DEF Closer, Finish
  <2> QED
    BY <1>1, <1>3, <2>1, ConvergedCrosses DEF LastProbe, Pending
<1>4. CASE /\ p # target /\ Narrow(p)
           /\ previous' = current /\ previousPrecision' = p /\ UNCHANGED outcome
  <2>1. LastProbe'
    BY <1>1, <1>4 DEF LastProbe, Narrow, inputs
  <2>2. ReportsTheCrossing'
    BY <1>1, <1>4 DEF ReportsTheCrossing, Pending
  <2> QED
    BY <2>1, <2>2
<1> QED
  BY <1>2, <1>3, <1>4 DEF Probe

LEMMA NextCrosses == CrossIInv /\ [Next]_vars => CrossIInv'
<1> SUFFICES ASSUME CrossIInv, [Next]_vars PROVE CrossIInv'
  OBVIOUS
<1>1. CASE Probe
  BY <1>1, ProbeCrosses
<1>2. CASE ProbeErr
  BY <1>2, NextIInv DEF ProbeErr, CrossIInv, LastProbe, ReportsTheCrossing, Failed, Pending
<1>3. CASE UNCHANGED vars
  BY <1>3, NextIInv DEF vars, inputs, CrossIInv, LastProbe, ReportsTheCrossing, Monotone, InOrder
<1> QED
  BY <1>1, <1>2, <1>3 DEF Next, Done

\* calibrate's last two probes are all it compares, and they are enough: on a
\* curve that grows, what it reports meets the target or is one of the two
\* neighbouring values between which the curve crosses it.
THEOREM CrossingReported == Spec => []ReportsTheCrossing
<1>1. Init => CrossIInv
  BY InitIInv DEF Init, CrossIInv, LastProbe, ReportsTheCrossing, Pending
<1>2. CrossIInv => ReportsTheCrossing
  BY DEF CrossIInv
<1> QED
  BY <1>1, <1>2, NextCrosses, PTL DEF Spec

-----------------------------------------------------------------------------
\* The fulltext workload.

Parity(p) == p # None /\ NormalizesWhitespace(p)

\* The live index was created for q, and a whole corpus in it was uploaded for q; a
\* marker beside a normalised corpus is q's own, or lost.
BuiltFor(q) ==
  /\ index = CreatedIndex(q)
  /\ corpus \in {None, Short} \/ corpus = NormalizedFields(q)
  /\ corpus \notin {None, Short} /\ Parity(q) => marker \in {q, None}

\* Somebody built the index, for one profile or for none.
Origin == index # None => \E q \in Profiles \cup {None} : BuiltFor(q)

\* A run passed the startup checks, and works on the index it created itself unless it
\* was told to skip the upload.
OwnIndex ==
  LET p == IndexProfile(job.configs)
  IN  /\ job.stage # "idle" => job.configs \in EngineConfigs /\ Accepted(job.configs)
      /\ job.stage = "upload" => index = CreatedIndex(p) /\ (Parity(p) => marker = p)
      /\ job.stage = "search" /\ ~job.skip => BuiltFor(p) /\ corpus = NormalizedFields(p)

JobType == job \in [stage : {"idle", "configure", "upload", "search"}, configs : SUBSET SearchConfigs, skip : BOOLEAN]

TextIInv == JobType /\ Origin /\ OwnIndex /\ MeasuredAsPinned

\* The profile of an accepted engine config.
LEMMA ProfileOf ==
  ASSUME NEW S \in EngineConfigs, Accepted(S)
  PROVE  /\ IndexProfile(S) \in Profiles \cup {None}
         /\ (\E c \in S : UsesText(c)) => IndexProfile(S) \in Profiles
         /\ (\A c \in S : ~UsesText(c)) => IndexProfile(S) = None
         /\ (\E c \in S : ~UsesText(c)) => ~Parity(IndexProfile(S))
<1> DEFINE texts == {c \in S : UsesText(c)}
           one == CHOOSE c \in texts : TRUE
           p == [analysis |-> one.analysis, reduced |-> one.reduced,
                 text |-> IF one.analysis = "parity" THEN one.fields ELSE {}]
<1>1. CASE texts = {}
  <2>1. IndexProfile(S) = None BY <1>1 DEF IndexProfile
  <2> QED BY <1>1, <2>1 DEF Parity
<1>2. CASE texts # {}
  <2>1. one \in texts /\ one \in S /\ UsesText(one) /\ one \in SearchConfigs
    BY <1>2, FulltextAssumption
  <2>2. /\ one.analysis \in {"english", "parity"} /\ one.reduced \in BOOLEAN
        /\ ParseSpec(one) /\ ResolveFields(one) \subseteq TextFields
    BY <2>1, FulltextAssumption DEF UsesText, Accepted
  <2>3. IndexProfile(S) = p /\ (one.analysis = "parity" => one.fields # None /\ S = texts)
    <3>1. IndexProfile(S) # Refused BY DEF Accepted
    <3> QED BY <1>2, <2>1, <3>1 DEF IndexProfile
  <2>4. one.analysis = "parity" => one.fields \subseteq TextFields BY <2>2, <2>3 DEF ResolveFields
  <2>5. p \in Profiles BY <2>2, <2>4 DEF Profiles
  <2>6. (\E c \in S : ~UsesText(c)) => p.analysis # "parity" BY <2>3
  <2> QED BY <1>2, <2>3, <2>5, <2>6 DEF Parity, NormalizesWhitespace
<1> QED BY <1>1, <1>2

LEMMA TextStarts == TextInit => TextIInv
BY DEF TextInit, TextIInv, JobType, Origin, OwnIndex, MeasuredAsPinned, Idle

\* What the validation of a live index shows of the corpus beside it.
LEMMA ServedAsBuilt ==
  ASSUME Origin, Searchable, NEW p \in Profiles, NEW c, NEW recorded \in {marker, None}, Serves(p, c, recorded)
  PROVE  index.nostem = ~Stems(p) /\ index.pinned /\ corpus = NormalizedFields(p)
<1>1. index.nostem = ~Stems(p) /\ index.pinned /\ CheckMarker(p, recorded)
  BY DEF Serves, ValidateRedisIndex, ValidateOpenSearchIndex
<1>2. PICK q \in Profiles \cup {None} : BuiltFor(q) BY DEF Origin, Searchable
<1>3. corpus = NormalizedFields(q) /\ (Parity(q) => marker \in {q, None})
  BY <1>2 DEF BuiltFor, Searchable
<1>4. p # None /\ p.analysis \in {"english", "parity"} BY FulltextAssumption DEF Profiles
<1>5. q # None => q.analysis \in {"english", "parity"} BY DEF Profiles
<1>6. index.nostem = (q # None /\ ~Stems(q)) BY <1>2 DEF BuiltFor, CreatedIndex
<1>7. CASE p.analysis = "english"
  <2>1. ~Parity(q) BY <1>1, <1>6, <1>7 DEF Parity, Stems, NormalizesWhitespace
  <2> QED BY <1>1, <1>3, <1>7, <2>1 DEF NormalizedFields, Parity, NormalizesWhitespace
<1>8. CASE p.analysis = "parity"
  <2>1. q # None /\ Parity(q) BY <1>1, <1>5, <1>6, <1>8 DEF Stems, Parity, NormalizesWhitespace
  <2>2. recorded = p BY <1>1, <1>8 DEF CheckMarker, Stems
  <2>3. q = p BY <1>3, <1>4, <2>1, <2>2
  <2> QED BY <1>1, <1>3, <2>3
<1> QED BY <1>4, <1>7, <1>8

\* Both engines run a config with one mode, or the result says that they do not.
LEMMA WarnsOfModes ==
  ASSUME NEW c, NEW e \in {"redis", "opensearch"}
  PROVE  ~TotalHitsPlan(e, c).symmetric <=> TotalHitsPlan("redis", c).mode # TotalHitsPlan("opensearch", c).mode
BY DEF TotalHitsPlan

\* A search leaves index, marker and corpus alone.
LEMMA SearchLeaves ==
  ASSUME TextIInv, UNCHANGED <<server, index, marker, corpus>>, job' \in {job, Idle}
  PROVE  Origin' /\ OwnIndex'
<1>1. \A q : BuiltFor(q) => BuiltFor(q)' BY DEF BuiltFor
<1>0. Origin' BY <1>1 DEF TextIInv, Origin
<1>2. CASE job' = Idle BY <1>0, <1>2 DEF OwnIndex, Idle
<1>3. CASE job' = job
  <2>1. job.stage # "idle" => job.configs \in EngineConfigs /\ Accepted(job.configs)'
    BY <1>3 DEF TextIInv, OwnIndex, Accepted, CheckMixedTextFilters
  <2> QED BY <1>0, <1>1, <1>3, <2>1 DEF TextIInv, OwnIndex
<1> QED BY <1>0, <1>2, <1>3

\* The stage of a job changes and nothing else of it.
LEMMA JobKept ==
  ASSUME TextIInv, NEW s, job' = [job EXCEPT !.stage = s]
  PROVE  job'.stage = s /\ job'.configs = job.configs /\ job'.skip = job.skip
BY DEF TextIInv, JobType

LEMMA JobTypes == ASSUME JobType, [TextNext]_textVars PROVE JobType'
<1>1. Idle \in [stage : {"idle", "configure", "upload", "search"}, configs : SUBSET SearchConfigs, skip : BOOLEAN]
  BY DEF Idle
<1>2. CASE UNCHANGED textVars BY <1>2 DEF textVars, JobType
<1>3. ASSUME NEW S \in EngineConfigs, NEW skip \in BOOLEAN, Begin(S, skip) PROVE JobType'
  BY <1>3, FulltextAssumption DEF Begin, JobType
<1>4. CASE Configure BY <1>1, <1>4 DEF Configure, JobType
<1>5. CASE ConfigureOpenSearch BY <1>5 DEF ConfigureOpenSearch, JobType
<1>6. CASE Upload BY <1>1, <1>6 DEF Upload, JobType
<1>7. ASSUME NEW c \in SearchConfigs, SearchRedis(c) \/ SearchOpenSearch(c) \/ SearchVector(c) PROVE JobType'
  <2>1. job' \in {job, Idle} BY <1>7 DEF SearchRedis, SearchOpenSearch, SearchVector
  <2> QED BY <1>1, <2>1 DEF JobType
<1>8. CASE Delete \/ Stop BY <1>1, <1>8 DEF Delete, Stop, JobType
<1> QED BY <1>2, <1>3, <1>4, <1>5, <1>6, <1>7, <1>8 DEF TextNext

LEMMA TextKeeps == ASSUME TextIInv, [TextNext]_textVars PROVE TextIInv'
<1>0. JobType' BY JobTypes DEF TextIInv
<1> USE <1>0
<1>1. CASE UNCHANGED textVars
  <2>1. Origin' /\ OwnIndex' BY <1>1, SearchLeaves DEF textVars
  <2> QED BY <1>1, <2>1 DEF textVars, TextIInv, MeasuredAsPinned
<1>2. ASSUME NEW S \in EngineConfigs, NEW skip \in BOOLEAN, Begin(S, skip) PROVE TextIInv'
  <2>1. Origin' BY <1>2 DEF Begin, TextIInv, Origin, BuiltFor
  <2>2. OwnIndex' BY <1>2 DEF Begin, OwnIndex, Accepted, CheckMixedTextFilters
  <2> QED BY <1>2, <2>1, <2>2 DEF Begin, TextIInv, MeasuredAsPinned
<1>3. CASE Configure
  <2> DEFINE p == IndexProfile(job.configs)
  <2>1. job.stage = "configure" /\ UNCHANGED <<server, published>> BY <1>3 DEF Configure
  <2>2. p \in Profiles \cup {None}
    <3>1. job.configs \in EngineConfigs /\ Accepted(job.configs) BY <2>1 DEF TextIInv, OwnIndex
    <3> QED BY <3>1, ProfileOf
  <2>3. \/ job' = Idle /\ UNCHANGED <<index, marker, corpus>>
        \/ \E w \in WriteMarker(p, marker) :
             /\ index' = CreatedIndex(p) /\ corpus' = None /\ marker' = w.marker
             /\ job' = IF w.ok THEN [job EXCEPT !.stage = "upload"] ELSE Idle
    BY <1>3 DEF Configure
  <2>4. CASE job' = Idle /\ UNCHANGED <<index, marker, corpus>>
    <3>1. Origin' /\ OwnIndex' BY <2>1, <2>4, SearchLeaves
    <3> QED BY <2>1, <3>1 DEF TextIInv, MeasuredAsPinned
  <2>5. ASSUME NEW w \in WriteMarker(p, marker),
               index' = CreatedIndex(p), corpus' = None, marker' = w.marker,
               job' = IF w.ok THEN [job EXCEPT !.stage = "upload"] ELSE Idle
        PROVE  TextIInv'
    <3>2. Origin' BY <2>2, <2>5 DEF Origin, BuiltFor
    <3>3. w.ok /\ Parity(p) => w.marker = p
      <4>1. CASE p = None BY <4>1 DEF Parity
      <4>2. CASE p # None
        <5>1. w = [marker |-> p, ok |-> TRUE] \/ \E m : w = [marker |-> m, ok |-> Stems(p)]
          BY <4>2 DEF WriteMarker
        <5>2. w.marker = p \/ w.ok = Stems(p) BY <5>1
        <5>3. Parity(p) => ~Stems(p) BY DEF Parity, Stems, NormalizesWhitespace
        <5> QED BY <5>2, <5>3
      <4> QED BY <4>1, <4>2
    <3>4. OwnIndex'
      <4>1. CASE ~w.ok BY <2>5, <4>1 DEF OwnIndex, Idle
      <4>2. CASE w.ok
        <5>1. job' = [job EXCEPT !.stage = "upload"] BY <2>5, <4>2
        <5> QED BY <2>1, <2>5, <3>3, <4>2, <5>1 DEF TextIInv, OwnIndex, Accepted, CheckMixedTextFilters
      <4> QED BY <4>1, <4>2
    <3> QED BY <2>1, <3>2, <3>4 DEF TextIInv, MeasuredAsPinned
  <2> QED BY <2>3, <2>4, <2>5
<1>4. CASE ConfigureOpenSearch
  <2> DEFINE p == IndexProfile(job.configs)
  <2>1. /\ job.stage = "configure" /\ UNCHANGED <<server, published>>
        /\ index' = CreatedIndex(p) /\ corpus' = None /\ (p # None => marker' = p)
        /\ job' = [job EXCEPT !.stage = "upload"]
    BY <1>4 DEF ConfigureOpenSearch
  <2>2. job.configs \in EngineConfigs /\ Accepted(job.configs) BY <2>1 DEF TextIInv, OwnIndex
  <2>3. p \in Profiles \cup {None} BY <2>2, ProfileOf
  <2>4. Origin' BY <2>1, <2>3 DEF Origin, BuiltFor
  <2>5. Accepted(job.configs)' BY <2>1, <2>2, JobKept DEF Accepted, CheckMixedTextFilters
  <2>6. OwnIndex' BY <2>1, <2>2, <2>5, JobKept DEF OwnIndex, Parity
  <2> QED BY <2>1, <2>4, <2>6 DEF TextIInv, MeasuredAsPinned
<1>5. CASE Upload
  <2> DEFINE p == IndexProfile(job.configs)
  <2>1. job.stage = "upload" /\ UNCHANGED <<server, index, marker, published>> BY <1>5 DEF Upload
  <2>2. job.configs \in EngineConfigs /\ Accepted(job.configs) BY <2>1 DEF TextIInv, OwnIndex
  <2>3. p \in Profiles \cup {None} BY <2>2, ProfileOf
  <2>4. index = CreatedIndex(p) /\ (Parity(p) => marker = p) BY <2>1 DEF TextIInv, OwnIndex
  <2>5. CASE corpus' = NormalizedFields(p) /\ job' = [job EXCEPT !.stage = "search"]
    <3>1. index' = CreatedIndex(p) /\ (Parity(p) => marker' = p) BY <2>1, <2>4
    <3>2. Origin' BY <2>3, <2>5, <3>1 DEF Origin, BuiltFor
    <3>3. job'.configs = job.configs /\ job'.stage = "search" BY <2>1, <2>5, JobKept
    <3>4. Accepted(job.configs)' BY <2>1, <2>2, <3>3 DEF Accepted, CheckMixedTextFilters
    <3>5. OwnIndex' BY <2>2, <2>5, <3>1, <3>3, <3>4 DEF OwnIndex, BuiltFor
    <3> QED BY <2>1, <3>2, <3>5 DEF TextIInv, MeasuredAsPinned
  <2>6. CASE corpus' \in {None, Short} /\ job' = Idle
    <3>1. Origin' BY <2>1, <2>6 DEF TextIInv, Origin, BuiltFor
    <3>2. OwnIndex' BY <2>6 DEF OwnIndex, Idle
    <3> QED BY <2>1, <3>1, <3>2 DEF TextIInv, MeasuredAsPinned
  <2> QED BY <1>5, <2>5, <2>6 DEF Upload
<1>6. ASSUME NEW c \in SearchConfigs, SearchRedis(c) PROVE TextIInv'
  <2> DEFINE p == IndexProfile(job.configs)
             plan == TotalHitsPlan("redis", c)
             request == RedisArgs(c, plan.mode)
  <2>1. /\ job.stage = "search" /\ server.engine = "redis" /\ c \in job.configs /\ UsesText(c)
        /\ UNCHANGED <<server, index, marker, corpus>> /\ job' \in {job, Idle}
    BY <1>6 DEF SearchRedis
  <2>2. Origin' /\ OwnIndex' BY <2>1, SearchLeaves
  <2>3. job.configs \in EngineConfigs /\ Accepted(job.configs) BY <2>1 DEF TextIInv, OwnIndex
  <2>4. p \in Profiles BY <2>1, <2>3, ProfileOf
  <2>5. CASE published' = None BY <2>2, <2>5 DEF TextIInv, MeasuredAsPinned
  <2>6. CASE published' # None
    <3> DEFINE Passes(readable, probed, page, count, reply) ==
                 /\ Searchable /\ LoadQuerySet(c)
                 /\ readable \/ Stems(p)
                 /\ Serves(p, c, IF readable THEN marker ELSE None)
                 /\ ProbeWithoutCount(request, probed)
                 /\ RedisRankedPage(reply, page) /\ CheckQueryCount(c, count)
    <3>0. PICK readable \in BOOLEAN, probed \in Pages(request), page \in Pages(request),
               count \in {"right", "wrong"}, reply \in {"whole", "flagged"} :
            IF Passes(readable, probed, page, count, reply)
            THEN published' = Measured(c, plan, request, probed, page, count) /\ UNCHANGED job
            ELSE published' = None /\ job' = Idle
      BY <1>6 DEF SearchRedis
    <3> DEFINE recorded == IF readable THEN marker ELSE None
    <3>1. /\ recorded \in {marker, None}
          /\ Searchable /\ Serves(p, c, recorded) /\ ProbeWithoutCount(request, probed)
          /\ page # "shuffled" /\ CheckQueryCount(c, count)
          /\ published' = Measured(c, plan, request, probed, page, count)
      BY <2>6, <3>0 DEF RedisRankedPage, CheckRankViolations
    <3>2. index.nostem = ~Stems(p) /\ index.pinned /\ corpus = NormalizedFields(p)
      BY <2>4, <3>1, ServedAsBuilt DEF TextIInv
    <3>3. plan.symmetric <=> TotalHitsPlan("redis", c).mode = TotalHitsPlan("opensearch", c).mode
      BY WarnsOfModes
    <3>4. /\ published'.config = c /\ published'.profile = p /\ published'.index = index
          /\ published'.corpus = corpus /\ published'.warned = ~plan.symmetric /\ published'.count = count
          /\ published'.request = request /\ published'.probed = probed /\ published'.page = page
      BY <3>1 DEF Measured
    <3>5. ~request.counted => server.deep /\ probed = "same" BY <3>1 DEF ProbeWithoutCount
    <3>6. c.compound => count = "right" BY <3>1 DEF CheckQueryCount
    <3>7. MeasuredAsPinned' BY <2>1, <3>1, <3>2, <3>3, <3>4, <3>5, <3>6 DEF MeasuredAsPinned
    <3> QED BY <2>2, <3>7 DEF TextIInv
  <2> QED BY <2>5, <2>6
<1>7. ASSUME NEW c \in SearchConfigs, SearchOpenSearch(c) PROVE TextIInv'
  <2> DEFINE p == IndexProfile(job.configs)
             plan == TotalHitsPlan("opensearch", c)
             request == OpensearchBody(c, plan.mode)
  <2>1. /\ job.stage = "search" /\ server.engine = "opensearch" /\ c \in job.configs /\ UsesText(c)
        /\ UNCHANGED <<server, index, marker, corpus>> /\ job' \in {job, Idle}
    BY <1>7 DEF SearchOpenSearch
  <2>2. Origin' /\ OwnIndex' BY <2>1, SearchLeaves
  <2>3. job.configs \in EngineConfigs /\ Accepted(job.configs) BY <2>1 DEF TextIInv, OwnIndex
  <2>4. p \in Profiles BY <2>1, <2>3, ProfileOf
  <2>5. CASE published' = None BY <2>2, <2>5 DEF TextIInv, MeasuredAsPinned
  <2>6. CASE published' # None
    <3>1. PICK count \in {"right", "wrong"} :
            /\ Searchable /\ Serves(p, c, marker) /\ CheckQueryCount(c, count)
            /\ published' = Measured(c, plan, request, "same", "same", count)
      BY <1>7, <2>6 DEF SearchOpenSearch
    <3>2. index.nostem = ~Stems(p) /\ index.pinned /\ corpus = NormalizedFields(p)
      BY <2>4, <3>1, ServedAsBuilt DEF TextIInv
    <3>3. plan.symmetric <=> TotalHitsPlan("redis", c).mode = TotalHitsPlan("opensearch", c).mode
      BY WarnsOfModes
    <3>4. /\ published'.config = c /\ published'.profile = p /\ published'.index = index
          /\ published'.corpus = corpus /\ published'.warned = ~plan.symmetric /\ published'.count = count
      BY <3>1 DEF Measured
    <3>5. c.compound => count = "right" BY <3>1 DEF CheckQueryCount
    <3>6. MeasuredAsPinned' BY <2>1, <3>2, <3>3, <3>4, <3>5 DEF MeasuredAsPinned
    <3> QED BY <2>2, <3>6 DEF TextIInv
  <2> QED BY <2>5, <2>6
<1>8. ASSUME NEW c \in SearchConfigs, SearchVector(c) PROVE TextIInv'
  <2> DEFINE p == IndexProfile(job.configs)
  <2>1. /\ job.stage = "search" /\ c \in job.configs /\ ~UsesText(c)
        /\ UNCHANGED <<server, index, marker, corpus, job>>
        /\ published' = [config |-> c, index |-> index, corpus |-> corpus, skip |-> job.skip]
    BY <1>8 DEF SearchVector
  <2>2. Origin' /\ OwnIndex' BY <2>1, SearchLeaves
  <2>3. job.configs \in EngineConfigs /\ Accepted(job.configs) BY <2>1 DEF TextIInv, OwnIndex
  <2>4. ~Parity(p) /\ (server.textFilters => p = None)
    BY <2>1, <2>3, ProfileOf DEF Accepted, CheckMixedTextFilters
  <2>5. ~job.skip => index = CreatedIndex(p) /\ corpus = NormalizedFields(p)
    BY <2>1 DEF TextIInv, OwnIndex, BuiltFor
  <2>6. ~job.skip => corpus = {} /\ (server.textFilters => ~index.pinned)
    BY <2>4, <2>5 DEF NormalizedFields, Parity, CreatedIndex
  <2>7. MeasuredAsPinned' BY <2>1, <2>6 DEF MeasuredAsPinned
  <2> QED BY <2>2, <2>7 DEF TextIInv
<1>9. CASE Delete
  <2>1. job' = Idle /\ published' = None BY <1>9 DEF Delete
  <2>2. OwnIndex' BY <2>1 DEF OwnIndex, Idle
  <2>3. \/ index' = None
        \/ UNCHANGED <<index, corpus>> /\ marker' \in {None, marker}
    BY <1>9 DEF Delete
  <2>4. Origin' BY <2>3 DEF TextIInv, Origin, BuiltFor
  <2> QED BY <2>1, <2>2, <2>4 DEF TextIInv, MeasuredAsPinned
<1>10. CASE Stop
  <2>1. job' = Idle /\ published' = None /\ UNCHANGED <<index, marker>> /\ corpus' \in {corpus, None, Short}
    BY <1>10 DEF Stop
  <2>2. OwnIndex' BY <2>1 DEF OwnIndex, Idle
  <2>3. Origin' BY <2>1 DEF TextIInv, Origin, BuiltFor
  <2> QED BY <2>1, <2>2, <2>3 DEF TextIInv, MeasuredAsPinned
<1> QED
  BY <1>1, <1>2, <1>3, <1>4, <1>5, <1>6, <1>7, <1>8, <1>9, <1>10 DEF TextNext

\* The invariant of the fulltext workload.
THEOREM TextInvariance == TextSpec => []TextIInv
BY TextStarts, TextKeeps, PTL DEF TextSpec

\* For every schema and every set of engine configs: a fulltext result was measured on the
\* analysis, the corpus and the ranking it names, whoever built the index, whatever died
\* in between and whatever became of the marker.
THEOREM AnalysisIsPinned == TextSpec => []MeasuredAsPinned
BY TextInvariance, PTL DEF TextIInv

-----------------------------------------------------------------------------
\* The fused workload.

RankConstants == {s.k : s \in RrfSpecs} \cup {NoPipe}

RunRecords ==
  [stage : {"idle", "server", "put", "check", "reference", "probe", "timed", "drop", "published", "failed"},
   spec : RrfSpecs \cup {NoPipe},
   pages : SUBSET [query : RrfQueries, k : RankConstants],
   failed : BOOLEAN]

RrfTypes ==
  /\ rrfServer \in RrfServers
  /\ pipes \in [{OpensearchPipelineName(s) : s \in RrfSpecs} -> RankConstants]
  /\ rrf \in [Clients -> RunRecords]

\* Whoever wrote a pipeline, it has the constant it is named for, or is not there.
NamedByConstant ==
  \A s \in RrfSpecs : pipes[OpensearchPipelineName(s)] \in {NoPipe, s.k}

\* What a run's stage says of the checks behind it and of the pages it holds.
RunCourse(r) ==
  /\ r.stage # "idle" =>
       r.spec \in RrfSpecs /\ CheckParams(r.spec) /\ \A p \in r.pages : p.k \in {NoPipe, r.spec.k}
  /\ r.stage \notin {"idle", "server", "failed"} =>
       rrfServer.shards = 1 /\ (rrfServer.engine = "opensearch" => rrfServer.serverSide)
  /\ r.stage = "timed" => rrfServer.serverSide
  /\ r.stage \in {"drop", "published"} =>
       r.failed \/ (rrfServer.serverSide /\ {p.query : p \in r.pages} = RrfQueries)
  /\ r.stage = "published" => ~r.failed /\ \A p \in r.pages : p.k # NoPipe

RrfIInv == RrfTypes /\ NamedByConstant /\ \A c \in Clients : RunCourse(rrf[c])

LEMMA RrfStarts == RrfInit => RrfIInv
BY DEF RrfInit, RrfIInv, RrfTypes, RunRecords, RrfServers, NamedByConstant, RunCourse, NoRun, RankConstants,
       OpensearchPipelineName

\* Where one run moves and no pipeline does.
LEMMA OneRunMoves ==
  ASSUME RrfIInv, NEW c \in Clients, UNCHANGED <<rrfServer, pipes>>,
         \A d \in Clients : d # c => rrf'[d] = rrf[d],
         rrf' \in [Clients -> RunRecords],
         RunCourse(rrf'[c])
  PROVE  RrfIInv'
<1>1. RrfTypes' BY DEF RrfIInv, RrfTypes, RunRecords
<1>2. NamedByConstant' BY DEF RrfIInv, NamedByConstant
<1>3. ASSUME NEW d \in Clients PROVE RunCourse(rrf[d])'
  <2>1. RunCourse(rrf'[d]) BY DEF RrfIInv
  <2> QED BY <2>1 DEF RunCourse, CheckParams
<1> QED BY <1>1, <1>2, <1>3 DEF RrfIInv

\* The constant a query is fused with is the run's own, or there is none.
LEMMA OwnConstant ==
  ASSUME RrfIInv, NEW c \in Clients, rrf[c].stage # "idle"
  PROVE  FusedWith(c) \in {NoPipe, rrf[c].spec.k} /\ FusedWith(c) \in RankConstants
BY DEF RrfIInv, RrfTypes, RunRecords, NamedByConstant, RunCourse, FusedWith, RankConstants

LEMMA RrfKeeps == ASSUME RrfIInv, [RrfNext]_rrfVars PROVE RrfIInv'
<1>1. CASE UNCHANGED rrfVars
  BY <1>1 DEF rrfVars, RrfIInv, RrfTypes, RunRecords, NamedByConstant, RunCourse
<1>2. ASSUME NEW c \in Clients, NEW s \in RrfSpecs, StartRrf(c, s) PROVE RrfIInv'
  <2>1. rrf'[c] = [stage |-> "server", spec |-> s, pages |-> {}, failed |-> FALSE] /\ CheckParams(s)
    BY <1>2 DEF StartRrf, RrfIInv, RrfTypes, RunRecords
  <2>2. RunCourse(rrf'[c]) BY <2>1 DEF RunCourse
  <2> QED BY <1>2, <2>2, OneRunMoves DEF StartRrf, RrfIInv, RrfTypes, RunRecords
<1>3. ASSUME NEW c \in Clients, CheckServer(c) PROVE RrfIInv'
  <2>1. RunCourse(rrf'[c])
    BY <1>3 DEF CheckServer, Become, RrfIInv, RrfTypes, RunRecords, RrfServers, RunCourse
  <2> QED BY <1>3, <2>1, OneRunMoves DEF CheckServer, Become, RrfIInv, RrfTypes, RunRecords
<1>4. ASSUME NEW c \in Clients, PutPipeline(c) PROVE RrfIInv'
  <2> DEFINE s == rrf[c].spec
  <2>1. s \in RrfSpecs /\ rrf[c].stage = "put" /\ UNCHANGED rrfServer
    BY <1>4 DEF PutPipeline, RrfIInv, RunCourse
  <2>2. RrfTypes'
    BY <1>4, <2>1 DEF PutPipeline, Become, RrfIInv, RrfTypes, RunRecords, RankConstants
  <2>3. ASSUME NEW t \in RrfSpecs PROVE pipes'[OpensearchPipelineName(t)] \in {NoPipe, t.k}
    <3>1. OpensearchPipelineName(t) = OpensearchPipelineName(s) => t.k = s.k
      BY DEF OpensearchPipelineName
    <3>2. \/ pipes'[OpensearchPipelineName(t)] = pipes[OpensearchPipelineName(t)]
          \/ OpensearchPipelineName(t) = OpensearchPipelineName(s) /\ pipes'[OpensearchPipelineName(t)] = s.k
      BY <1>4 DEF PutPipeline, RrfIInv, RrfTypes, RunRecords
    <3> QED BY <3>1, <3>2 DEF RrfIInv, NamedByConstant
  <2>4. NamedByConstant' BY <2>3 DEF NamedByConstant, OpensearchPipelineName
  <2>5. ASSUME NEW d \in Clients PROVE RunCourse(rrf[d])'
    BY <1>4, <2>1 DEF PutPipeline, Become, RrfIInv, RrfTypes, RunRecords, RunCourse, CheckParams
  <2> QED BY <2>2, <2>4, <2>5 DEF RrfIInv
<1>5. ASSUME NEW c \in Clients, CheckPipeline(c) PROVE RrfIInv'
  <2>1. RunCourse(rrf'[c])
    BY <1>5 DEF CheckPipeline, Become, RrfIInv, RrfTypes, RunRecords, RunCourse
  <2> QED BY <1>5, <2>1, OneRunMoves DEF CheckPipeline, Become, RrfIInv, RrfTypes, RunRecords
<1>6. ASSUME NEW c \in Clients, BuildRrfReference(c) PROVE RrfIInv'
  <2>1. PICK stage \in {"probe", "drop", "failed"}, failed \in BOOLEAN :
          /\ rrf' = [rrf EXCEPT ![c].stage = stage, ![c].failed = failed]
          /\ rrf[c].stage = "reference" /\ (stage = "probe" \/ failed)
    BY <1>6 DEF BuildRrfReference, Unwind
  <2>2. rrf[c] \in RunRecords /\ rrf'[c] = [rrf[c] EXCEPT !.stage = stage, !.failed = failed]
    BY <2>1 DEF RrfIInv, RrfTypes
  <2>3. rrf'[c] \in RunRecords BY <2>2 DEF RunRecords
  <2>4. /\ RunCourse(rrf[c]) /\ rrf'[c].spec = rrf[c].spec /\ rrf'[c].pages = rrf[c].pages
        /\ rrf'[c].stage = stage /\ rrf'[c].failed = failed
    BY <2>2 DEF RrfIInv, RunRecords
  <2>5. RunCourse(rrf'[c]) BY <2>1, <2>4 DEF RunCourse
  <2> QED BY <1>6, <2>1, <2>3, <2>5, OneRunMoves DEF BuildRrfReference, RrfIInv, RrfTypes
<1>7. ASSUME NEW c \in Clients, ProbeRrf(c) PROVE RrfIInv'
  <2>1. PICK stage \in {"timed", "drop", "failed"}, failed \in BOOLEAN :
          /\ rrf' = [rrf EXCEPT ![c].stage = stage, ![c].failed = failed]
          /\ rrf[c].stage = "probe" /\ (stage = "timed" => rrfServer.serverSide)
          /\ (stage # "timed" => failed)
    BY <1>7 DEF ProbeRrf, Unwind
  <2>2. rrf[c] \in RunRecords /\ rrf'[c] = [rrf[c] EXCEPT !.stage = stage, !.failed = failed]
    BY <2>1 DEF RrfIInv, RrfTypes
  <2>3. rrf'[c] \in RunRecords BY <2>2 DEF RunRecords
  <2>4. /\ RunCourse(rrf[c]) /\ rrf'[c].spec = rrf[c].spec /\ rrf'[c].pages = rrf[c].pages
        /\ rrf'[c].stage = stage /\ rrf'[c].failed = failed
    BY <2>2 DEF RrfIInv, RunRecords
  <2>5. RunCourse(rrf'[c]) BY <2>1, <2>4 DEF RunCourse
  <2> QED BY <1>7, <2>1, <2>3, <2>5, OneRunMoves DEF ProbeRrf, RrfIInv, RrfTypes
<1>8. ASSUME NEW c \in Clients, NEW q \in RrfQueries, TimedQuery(c, q) PROVE RrfIInv'
  <2>1. PICK k \in {NoPipe, FusedWith(c)} :
          rrf' = [rrf EXCEPT ![c].pages = @ \cup {[query |-> q, k |-> k]}]
    BY <1>8 DEF TimedQuery
  <2>2. k \in RankConstants /\ k \in {NoPipe, rrf[c].spec.k} /\ rrf[c].stage = "timed"
    BY <1>8, <2>1, OwnConstant DEF TimedQuery, RankConstants
  <2>3. rrf[c] \in RunRecords /\ rrf'[c] = [rrf[c] EXCEPT !.pages = @ \cup {[query |-> q, k |-> k]}]
    BY <2>1 DEF RrfIInv, RrfTypes
  <2>4. rrf'[c] \in RunRecords BY <2>2, <2>3 DEF RunRecords
  <2>5. RunCourse(rrf'[c]) BY <2>2, <2>3 DEF RrfIInv, RunCourse, RunRecords
  <2> QED BY <1>8, <2>1, <2>4, <2>5, OneRunMoves DEF TimedQuery, RrfIInv, RrfTypes
<1>9. ASSUME NEW c \in Clients, EndTimed(c) PROVE RrfIInv'
  <2>1. RunCourse(rrf'[c])
    BY <1>9 DEF EndTimed, Become, HybridRrfResults, RrfIInv, RrfTypes, RunRecords, RunCourse
  <2>2. \E stage \in {"drop", "published", "failed"} : rrf' = [rrf EXCEPT ![c].stage = stage]
    BY <1>9 DEF EndTimed, Become, HybridRrfResults
  <2>3. rrf'[c] \in RunRecords /\ \A d \in Clients : d # c => rrf'[d] = rrf[d]
    BY <2>2 DEF RrfIInv, RrfTypes, RunRecords
  <2>4. rrf' \in [Clients -> RunRecords] BY <2>2, <2>3 DEF RrfIInv, RrfTypes
  <2> QED BY <1>9, <2>1, <2>3, <2>4, OneRunMoves DEF EndTimed
<1>10. ASSUME NEW c \in Clients, DropPipeline(c) PROVE RrfIInv'
  <2>1. rrf[c].stage = "drop" /\ UNCHANGED rrfServer BY <1>10 DEF DropPipeline
  <2>2. RrfTypes'
    BY <1>10 DEF DropPipeline, Become, HybridRrfResults, RrfIInv, RrfTypes, RunRecords, RankConstants
  <2>3. \A t \in RrfSpecs : pipes'[OpensearchPipelineName(t)] \in {NoPipe, pipes[OpensearchPipelineName(t)]}
    BY <1>10 DEF DropPipeline, RrfIInv, RrfTypes, RunRecords
  <2>4. NamedByConstant' BY <2>3 DEF RrfIInv, NamedByConstant, OpensearchPipelineName
  <2>5. ASSUME NEW d \in Clients PROVE RunCourse(rrf[d])'
    BY <1>10, <2>1 DEF DropPipeline, Become, HybridRrfResults, RrfIInv, RrfTypes, RunRecords, RunCourse, CheckParams
  <2> QED BY <2>2, <2>4, <2>5 DEF RrfIInv
<1>11. ASSUME NEW c \in Clients, EndRrf(c) PROVE RrfIInv'
  <2>1. rrf'[c] = NoRun BY <1>11 DEF EndRrf, RrfIInv, RrfTypes, RunRecords
  <2>2. RunCourse(rrf'[c]) BY <2>1 DEF RunCourse, NoRun
  <2> QED BY <1>11, <2>2, OneRunMoves DEF EndRrf, NoRun, RrfIInv, RrfTypes, RunRecords
<1> QED
  BY <1>1, <1>2, <1>3, <1>4, <1>5, <1>6, <1>7, <1>8, <1>9, <1>10, <1>11 DEF RrfNext

\* The invariant of hybrid-rrf runs on one server.
THEOREM RrfInvariance == RrfSpec => []RrfIInv
BY RrfStarts, RrfKeeps, PTL DEF RrfSpec

\* For every number of processes, search configs and queries: what a hybrid-rrf run
\* publishes was fused by the server with the constant it names, whoever else creates,
\* removes or leaves pipelines meanwhile.
THEOREM FusionIsOwn == RrfSpec => []FusedAsAsked
<1>1. RrfIInv => FusedAsAsked
  BY DEF RrfIInv, RunCourse, FusedAsAsked, CheckParams
<1> QED BY <1>1, RrfInvariance, PTL

-----------------------------------------------------------------------------
\* The layout of the index.

Layouts == {"vector", "no-vector", "full"}

\* The invocation that searches has read the live index back, whoever built it.
ReadBack ==
  sitting # NoSitting =>
    /\ sitting.layout \in Layouts
    /\ sitting = [stage |-> sitting.stage, config |-> sitting.config, layout |-> sitting.layout,
                  algorithm |-> sitting.algorithm, compression |-> sitting.compression]
    /\ sitting.stage = "search" => CheckIndexLayout

LayoutIInv == ReadBack /\ LabelledAsBuilt

LEMMA PlannedLayouts == ASSUME NEW c PROVE AcceptedLayouts(c) \subseteq Layouts
<1>1. CombineLayouts(Resolved(c)) \subseteq Layouts BY DEF CombineLayouts, Layouts
<1>2. PlanLayouts(c) \subseteq Layouts BY <1>1 DEF PlanLayouts, Layouts
<1>3. ApplyLayout(c, PlanLayouts(c)) \subseteq Layouts BY <1>2 DEF ApplyLayout, Layouts
<1> QED BY <1>3 DEF AcceptedLayouts

\* What a search that is answered shows of an index that was read back.
LEMMA AnsweredAsLabelled ==
  ASSUME sitting # NoSitting, sitting.stage = "search", ReadBack, NEW w \in Workloads,
         NEW totals, NEW page,
         CASE w = "fulltext" -> SearchText
           [] w = "filter-only" -> SearchFilterOnly(totals, page)
           [] OTHER -> SearchKnn(w)
  PROVE  /\ HasGroundTruth(w) => built.vector
         /\ site.engine \in Both =>
              /\ (sitting.layout # "no-vector" <=> built.vector) \/ (w = "fulltext" /\ sitting.layout = "vector")
              /\ Telling => (sitting.layout # "vector" <=> built.exact)
         /\ site.engine = "redis" /\ built.vector =>
              sitting.algorithm = built.algorithm /\ sitting.compression = built.compression
<1>1. sitting.layout \in Layouts /\ CheckIndexLayout BY DEF ReadBack
<1> USE <1>1 DEF Layouts, CheckIndexLayout, ValidateFullSchema, ValidateVectorLayout, ValidateFilterOnlySchema,
                 VerifyVectorField, Both
<1>2. CASE w = "fulltext" BY <1>2 DEF SearchText, HasGroundTruth
<1>3. CASE w = "filter-only"
  <2>1. SearchFilterOnly(totals, page) BY <1>3
  <2>2. sitting.layout \in {"full", "no-vector"} BY <2>1 DEF SearchFilterOnly, LayoutServes, RequiredLayout
  <2> QED BY <1>3, <2>1, <2>2 DEF SearchFilterOnly, HasGroundTruth
<1>4. CASE w \notin {"fulltext", "filter-only"}
  <2>1. SearchKnn(w) BY <1>4
  <2> QED BY <1>4, <2>1 DEF SearchKnn
<1> QED BY <1>2, <1>3, <1>4

LEMMA LayoutStarts == LayoutInit => LayoutIInv
BY DEF LayoutInit, LayoutIInv, ReadBack, LabelledAsBuilt

LEMMA LayoutKeeps == ASSUME LayoutIInv, [LayoutNext]_layoutVars PROVE LayoutIInv'
<1>1. CASE UNCHANGED layoutVars
  BY <1>1 DEF layoutVars, LayoutIInv, ReadBack, LabelledAsBuilt, CheckIndexLayout, ValidateFullSchema,
              ValidateVectorLayout, VerifyVectorField, Telling
<1>2. ASSUME NEW c \in LayoutConfigs, NEW env \in {"none", "SQ8", "bad"}, NEW reuse \in BOOLEAN, Sit(c, env, reuse)
      PROVE  LayoutIInv'
  <2>1. PICK l \in AcceptedLayouts(c) : \E z \in CompressionOf(c, env, l) :
          sitting' = [stage |-> IF reuse THEN "check" ELSE "build", config |-> c, layout |-> l,
                      algorithm |-> c.algorithm, compression |-> z]
    BY <1>2 DEF Sit
  <2>2. l \in Layouts BY PlannedLayouts
  <2>3. ReadBack' BY <2>1, <2>2 DEF ReadBack
  <2> QED BY <1>2, <2>3 DEF Sit, LayoutIInv, LabelledAsBuilt
<1>3. CASE BuildIndex
  <2>1. /\ sitting # NoSitting /\ sitting' \in {NoSitting, [sitting EXCEPT !.stage = "fill"]}
        /\ UNCHANGED <<site, shown>>
    BY <1>3 DEF BuildIndex
  <2>2. ReadBack' BY <2>1 DEF LayoutIInv, ReadBack
  <2> QED BY <2>1, <2>2 DEF LayoutIInv, LabelledAsBuilt, Telling
<1>4. CASE Fill
  <2>1. /\ sitting # NoSitting /\ sitting' \in {NoSitting, [sitting EXCEPT !.stage = "check"]}
        /\ UNCHANGED <<site, shown>>
    BY <1>4 DEF Fill
  <2>2. ReadBack' BY <2>1 DEF LayoutIInv, ReadBack
  <2> QED BY <2>1, <2>2 DEF LayoutIInv, LabelledAsBuilt, Telling
<1>5. CASE Check
  <2>1. /\ sitting # NoSitting /\ UNCHANGED <<site, built, shown>>
        /\ \/ sitting' = NoSitting
           \/ sitting' = [sitting EXCEPT !.stage = "search"] /\ CheckIndexLayout
    BY <1>5 DEF Check
  <2>2. sitting' = [sitting EXCEPT !.stage = "search"] =>
          /\ sitting'.layout = sitting.layout /\ sitting'.algorithm = sitting.algorithm
          /\ sitting'.compression = sitting.compression
    BY <2>1 DEF LayoutIInv, ReadBack
  <2>3. sitting' # NoSitting => CheckIndexLayout'
    BY <2>1, <2>2 DEF CheckIndexLayout, ValidateFullSchema, ValidateVectorLayout, VerifyVectorField, Telling
  <2>4. ReadBack' BY <2>1, <2>3 DEF LayoutIInv, ReadBack
  <2> QED BY <2>1, <2>4 DEF LayoutIInv, LabelledAsBuilt, Telling
<1>6. ASSUME NEW w \in Workloads, SearchWorkload(w) PROVE LayoutIInv'
  <2>1. sitting # NoSitting /\ sitting.stage = "search" /\ UNCHANGED <<site, built>> /\ sitting' \in {sitting, NoSitting}
    BY <1>6 DEF SearchWorkload
  <2>2. ReadBack'
    BY <2>1 DEF LayoutIInv, ReadBack, CheckIndexLayout, ValidateFullSchema, ValidateVectorLayout, VerifyVectorField, Telling
  <2>3. CASE shown' = NoResult BY <2>2, <2>3 DEF LayoutIInv, LabelledAsBuilt
  <2>4. CASE shown' # NoResult
    <3> DEFINE Answered(totals, page) ==
                 CASE w = "fulltext" -> SearchText
                   [] w = "filter-only" -> SearchFilterOnly(totals, page)
                   [] OTHER -> SearchKnn(w)
    <3>1. PICK totals \in {"expected", "off"}, page \in {"complete", "partial"} :
            IF Answered(totals, page) THEN Show(w) /\ UNCHANGED sitting ELSE shown' = NoResult /\ sitting' = NoSitting
      BY <1>6 DEF SearchWorkload
    <3>2. Answered(totals, page) /\ Show(w) BY <2>4, <3>1
    <3>3. /\ HasGroundTruth(w) => built.vector
          /\ site.engine \in Both =>
               /\ (sitting.layout # "no-vector" <=> built.vector) \/ (w = "fulltext" /\ sitting.layout = "vector")
               /\ Telling => (sitting.layout # "vector" <=> built.exact)
          /\ site.engine = "redis" /\ built.vector =>
               sitting.algorithm = built.algorithm /\ sitting.compression = built.compression
      BY <2>1, <3>2, AnsweredAsLabelled DEF LayoutIInv
    <3>4. /\ shown'.workload = w /\ shown'.layout = sitting.layout /\ shown'.algorithm = sitting.algorithm
          /\ shown'.compression = sitting.compression /\ shown'.index = built
      BY <3>2 DEF Show
    <3>5. LabelledAsBuilt' BY <2>1, <3>3, <3>4 DEF LabelledAsBuilt, Telling
    <3> QED BY <2>2, <3>5 DEF LayoutIInv
  <2> QED BY <2>3, <2>4
<1>7. CASE Leave
  BY <1>7 DEF Leave, LayoutIInv, ReadBack, LabelledAsBuilt
<1> QED BY <1>1, <1>2, <1>3, <1>4, <1>5, <1>6, <1>7 DEF LayoutNext

\* For every set of engine configs and every order of invocations: the layout, the algorithm
\* and the compression a result names are those of the index it was measured on, also when
\* another config in another environment built it and --skip-upload took it over.
THEOREM LayoutIsAsLabelled == LayoutSpec => []LabelledAsBuilt
<1>1. LayoutIInv => LabelledAsBuilt BY DEF LayoutIInv
<1> QED BY <1>1, LayoutStarts, LayoutKeeps, PTL DEF LayoutSpec

-----------------------------------------------------------------------------
\* Sorting.

\* A range from 1 has as many members as its end says.
LEMMA CountTo == ASSUME NEW n \in Nat PROVE IsFiniteSet(1..n) /\ Cardinality(1..n) = n
<1>1. 1 \in Int /\ n \in Int OBVIOUS
<1>2. IsFiniteSet(1..n) /\ Cardinality(1..n) = IF 1 > n THEN 0 ELSE n - 1 + 1 BY <1>1, FS_Interval
<1> QED BY <1>2

Orders(R, S) ==
  /\ \A x, y \in S : x # y => (<<x, y>> \in R /\ <<y, x>> \notin R) \/ (<<y, x>> \in R /\ <<x, y>> \notin R)
  /\ \A x, y, z \in S : <<x, y>> \in R /\ <<y, z>> \in R => <<x, z>> \in R

Sorts(s, S, R) ==
  /\ s \in [1..Cardinality(S) -> S]
  /\ \A i, j \in 1..Cardinality(S) : i < j => s[i] # s[j] /\ <<s[i], s[j]>> \in R

PartsSort(T, R) == \A U \in SUBSET T : U # T => \E s : Sorts(s, U, R)

\* n different members of a set of n are all its members.
LEMMA SortedHasAll ==
  ASSUME NEW S, IsFiniteSet(S), NEW s \in [1..Cardinality(S) -> S],
         \A i, j \in 1..Cardinality(S) : i < j => s[i] # s[j]
  PROVE  \A x \in S : \E i \in 1..Cardinality(S) : s[i] = x
<1> DEFINE n == Cardinality(S)
<1>1. n \in Nat BY FS_CardinalityType
<1>2. IsFiniteSet(1..n) /\ Cardinality(1..n) = n BY <1>1, FS_Interval
<1>3. s \in Injection(1..n, S)
  <2> HIDE DEF n
  <2>1. ASSUME NEW a \in 1..n, NEW b \in 1..n, s[a] = s[b] PROVE a = b
    <3>1. a \in Int /\ b \in Int BY <1>1
    <3>2. ~(a < b) /\ ~(b < a) BY <2>1 DEF n
    <3> QED BY <3>1, <3>2
  <2>2. s \in [1..n -> S] BY DEF n
  <2> QED BY <2>1, <2>2 DEF Injection, IsInjective
<1>4. s \in Surjection(1..n, S) BY <1>2, <1>3, FS_Injection
<1> QED BY <1>4 DEF Surjection

\* A set whose parts can be sorted has a last member.
LEMMA MaximumOf ==
  ASSUME NEW T, T # {}, IsFiniteSet(T), NEW R, Orders(R, T),
         PartsSort(T, R)
  PROVE  \E m \in T : \A x \in T \ {m} : <<x, m>> \in R
<1>1. PICK a \in T : TRUE OBVIOUS
<1> DEFINE U == T \ {a}
<1>2. U \in SUBSET T /\ U # T BY <1>1
<1>3. PICK s : Sorts(s, U, R) BY <1>2 DEF PartsSort
<1>4. IsFiniteSet(U) BY FS_RemoveElement
<1> DEFINE n == Cardinality(U)
<1>5. n \in Nat BY <1>4, FS_CardinalityType
<1>6. CASE n = 0
  <2>1. U = {} BY <1>4, <1>6, FS_EmptySet
  <2> QED BY <1>1, <2>1
<1>7. CASE n # 0
  <2>1. n \in 1..n /\ n \in Nat BY <1>5, <1>7
  <2>2. s \in [1..n -> U] /\ \A i, j \in 1..n : i < j => s[i] # s[j] /\ <<s[i], s[j]>> \in R BY <1>3 DEF Sorts
  <2> DEFINE l == s[n]
  <2>3. l \in U BY <2>1, <2>2
  <2>4. \A x \in U : \E i \in 1..n : s[i] = x
    <3> HIDE DEF U
    <3> QED BY <1>4, <2>2, SortedHasAll
  <2>5. ASSUME NEW x \in U, x # l PROVE <<x, l>> \in R
    <3>1. PICK i \in 1..n : s[i] = x BY <2>4
    <3>2. i < n BY <3>1, <2>1, <2>5
    <3> QED BY <3>1, <3>2, <2>1, <2>2
  <2>6. CASE <<a, l>> \in R
    <3>1. \A x \in T \ {l} : <<x, l>> \in R BY <2>5, <2>6
    <3> QED BY <3>1, <2>3
  <2>7. CASE <<a, l>> \notin R
    <3>1. <<l, a>> \in R BY <2>3, <2>7, <1>1 DEF Orders
    <3>2. ASSUME NEW x \in T \ {a} PROVE <<x, a>> \in R
      <4>1. CASE x = l BY <4>1, <3>1
      <4>2. CASE x # l
        <5>1. <<x, l>> \in R BY <4>2, <2>5
        <5> QED BY <5>1, <3>1, <1>1, <2>3 DEF Orders
      <4> QED BY <4>1, <4>2
    <3> QED BY <3>2, <1>1
  <2> QED BY <2>6, <2>7
<1> QED BY <1>6, <1>7

\* Every finite set can be sorted by any order of its members: the smallest part that
\* could not be sorted has a last member, and what is left can.
LEMMA CanBeSorted ==
  ASSUME NEW S, IsFiniteSet(S), NEW R, Orders(R, S)
  PROVE  \E s : Sorts(s, S, R)
<1> DEFINE Bad == {T \in SUBSET S : ~ \E s : Sorts(s, T, R)}
<1> SUFFICES ASSUME S \in Bad PROVE FALSE OBVIOUS
<1>1. Bad \subseteq FiniteSubsetsOf(S) BY FS_Subset DEF FiniteSubsetsOf
<1>2. PICK T \in Bad : \A U \in Bad : <<U, T>> \notin StrictSubsetOrdering(S)
  <2> HIDE DEF Bad
  <2>1. IsWellFoundedOn(StrictSubsetOrdering(S), FiniteSubsetsOf(S)) BY FS_StrictSubsetOrderingWellFounded
  <2>2. Bad # {} OBVIOUS
  <2> QED BY <1>1, <2>1, <2>2, WFMin
<1>3. T \in SUBSET S /\ IsFiniteSet(T) BY FS_Subset
<1>4. ASSUME NEW U \in SUBSET T, U # T PROVE \E s : Sorts(s, U, R)
  <2>1. U \in SUBSET S /\ <<U, T>> \in StrictSubsetOrdering(S) BY <1>3, <1>4 DEF StrictSubsetOrdering
  <2> QED BY <1>2, <2>1
<1>5. Orders(R, T)
  <2>1. \A x \in T : x \in S BY <1>3
  <2> QED BY <2>1 DEF Orders
<1>6. CASE T = {}
  <2>1. Cardinality(T) = 0 BY <1>6, FS_EmptySet
  <2>2. Sorts([i \in {} |-> 0], T, R) BY <2>1, <1>6 DEF Sorts
  <2> QED BY <2>2
<1>7. CASE T # {}
  <2>1. PICK m \in T : \A x \in T \ {m} : <<x, m>> \in R
    <3> HIDE DEF Bad
    <3>1. PartsSort(T, R) BY <1>4 DEF PartsSort
    <3> QED BY <1>3, <3>1, <1>5, <1>7, MaximumOf
  <2> DEFINE U == T \ {m}  n == Cardinality(U)
  <2>2. U \in SUBSET T /\ U # T BY <2>1
  <2>3. PICK s : Sorts(s, U, R) BY <2>2, <1>4
  <2>4. IsFiniteSet(U) /\ n \in Nat /\ Cardinality(T) = n + 1
    <3>1. Cardinality(U) = Cardinality(T) - 1 /\ IsFiniteSet(U) BY <1>3, <2>1, FS_RemoveElement
    <3>2. Cardinality(T) \in Nat /\ Cardinality(U) \in Nat BY <3>1, <1>3, FS_CardinalityType
    <3> QED BY <3>1, <3>2
  <2>5. s \in [1..n -> U] /\ \A i, j \in 1..n : i < j => s[i] # s[j] /\ <<s[i], s[j]>> \in R BY <2>3 DEF Sorts
  <2> DEFINE t == [i \in 1..(n + 1) |-> IF i = n + 1 THEN m ELSE s[i]]
  <2>6. t \in [1..(n + 1) -> T]
    <3>1. ASSUME NEW i \in 1..(n + 1), i # n + 1 PROVE s[i] \in T
      <4>1. i \in 1..n BY <3>1, <2>4
      <4> QED BY <4>1, <2>5
    <3> QED BY <3>1
  <2>7. ASSUME NEW i \in 1..(n + 1), NEW j \in 1..(n + 1), i < j PROVE t[i] # t[j] /\ <<t[i], t[j]>> \in R
    <3>1. i \in 1..n /\ t[i] = s[i] /\ s[i] \in U
      <4> HIDE DEF n
      <4>1. i \in Int /\ j \in Int /\ 1 <= i /\ i < j /\ j <= n + 1 BY <2>7, <2>4
      <4>2. i \in 1..n /\ i # n + 1 BY <4>1, <2>4
      <4> QED BY <4>2, <2>5
    <3>2. CASE j = n + 1
      <4>1. t[j] = m BY <3>2
      <4> QED BY <3>1, <4>1, <2>1
    <3>3. CASE j # n + 1
      <4>1. j \in 1..n /\ t[j] = s[j] BY <3>3, <2>4
      <4> QED BY <3>1, <4>1, <2>5, <2>7
    <3> QED BY <3>2, <3>3
  <2>8. Sorts(t, T, R)
    <3> HIDE DEF t
    <3> QED BY <2>4, <2>6, <2>7 DEF Sorts
  <2> QED BY <2>8
<1> QED BY <1>6, <1>7

\* What by_bucket keeps per bucket: the members of a set of positions, in order, all of them.
LEMMA AscendingSorts ==
  ASSUME NEW S, IsFiniteSet(S), S \subseteq Nat
  PROVE  /\ Cardinality(S) \in Nat /\ Ascending(S) \in [1..Cardinality(S) -> S]
         /\ \A i, j \in 1..Cardinality(S) : i < j => Ascending(S)[i] < Ascending(S)[j]
         /\ \A x \in S : \E i \in 1..Cardinality(S) : Ascending(S)[i] = x
<1> DEFINE R == {p \in Nat \X Nat : p[1] < p[2]}
<1>1. \A x, y \in Nat : <<x, y>> \in R <=> x < y OBVIOUS
<1>2. Orders(R, S) 
  <2> HIDE DEF R
  <2> QED BY <1>1 DEF Orders
<1>3. PICK s : Sorts(s, S, R) BY <1>2, CanBeSorted
<1>4. s \in [1..Cardinality(S) -> S] /\ \A i, j \in DOMAIN s : i < j => s[i] < s[j]
  <2> HIDE DEF R
  <2> QED BY <1>1, <1>3 DEF Sorts
<1> DEFINE a == Ascending(S)
<1>5. a \in [1..Cardinality(S) -> S] /\ \A i, j \in DOMAIN a : i < j => a[i] < a[j]
  BY <1>4 DEF Ascending
<1> HIDE DEF a
<1>6. DOMAIN a = 1..Cardinality(S) BY <1>5
<1>7. ASSUME NEW i \in 1..Cardinality(S), NEW j \in 1..Cardinality(S), i < j PROVE a[i] < a[j] /\ a[i] # a[j]
  <2>1. a[i] \in Nat /\ a[j] \in Nat /\ a[i] < a[j] BY <1>5, <1>6, <1>7
  <2> QED BY <2>1
<1>8. \A x \in S : \E i \in 1..Cardinality(S) : a[i] = x
  <2>1. \A i, j \in 1..Cardinality(S) : i < j => a[i] # a[j] BY <1>7
  <2> QED BY <1>5, <2>1, SortedHasAll
<1>9. Cardinality(S) \in Nat BY FS_CardinalityType
<1> QED BY <1>5, <1>7, <1>8, <1>9 DEF a

-----------------------------------------------------------------------------
\* The buckets.

\* Between the passes the run is past the preflight; a pass is the one of its
\* bucket, and is taken back at its end.
BucketTypes ==
  /\ rows \in QueryRows
  /\ host \in [engine : {"redis", "opensearch"}, reaches : BOOLEAN, modes : SUBSET Modes, requests : Nat, foreign : Nat]
  /\ hybrid \in [stage : {"idle", "between", "pass", "published", "failed", "over"}, bucket : Nat \ {0},
                 records : SUBSET [query : Nat, seq : Nat, bucket : {"50%", "10%", "1%", "0.1%"}],
                 requested : Nat, done : SUBSET Nat, failed : Nat, before : Nat, policy : Policies]

Underway == hybrid.stage \in {"between", "pass", "published"}

Course ==
  /\ IF hybrid.stage = "pass" THEN pass = Positions(ByBucket[hybrid.bucket]) ELSE pass = NoPass
  /\ Underway => /\ rows # <<>> /\ \A i \in DOMAIN rows : CheckRow(rows[i])
                 /\ hybrid.bucket <= Len(ByBucket) + 1
  /\ hybrid.stage = "pass" => hybrid.bucket <= Len(ByBucket)
  /\ hybrid.stage = "published" => hybrid.bucket > Len(ByBucket)
  /\ ran \in {NoPass, <<>>}

\* The queries of the buckets that are over.
Over == {i \in DOMAIN rows : \E k \in DOMAIN ByBucket : k < hybrid.bucket /\ rows[i].bucket = ByBucket[k]}

\* They are recorded, each once, in the order of their dispatch.
Recorded ==
  Underway =>
    /\ {r.query : r \in hybrid.records} = Over
    /\ {r.seq : r \in hybrid.records} = 1..hybrid.requested
    /\ \A r, s \in hybrid.records : r.query = s.query \/ r.seq = s.seq => r = s
    /\ \A r \in hybrid.records : r.bucket = rows[r.query].bucket

\* The server has counted only what reached it, and a bucket that is over has
\* left its evidence.
Filtered ==
  IF host.engine = "redis"
  THEN "STANDARD_KNN" \notin host.modes /\ (hybrid.policy = "ADHOC_BF" => host.modes = {"HYBRID_ADHOC_BF"})
  ELSE host.reaches \/ host.foreign > 0

Evident ==
  /\ host.modes # {}
  /\ ~host.reaches /\ host.foreign = 0 => host.requests = 0
  /\ Underway /\ hybrid.bucket > 1 => Filtered

BucketsIInv == BucketTypes /\ Course /\ Recorded /\ Evident

\* A query file is a sequence of rows.
LEMMA RowsAreSequence ==
  ASSUME BucketTypes PROVE Len(rows) \in Nat /\ DOMAIN rows = 1..Len(rows) /\ IsFiniteSet(DOMAIN rows)
<1>1. Len(rows) \in Nat /\ DOMAIN rows = 1..Len(rows) BY BucketsAssumption DEF BucketTypes
<1> QED BY <1>1, FS_Interval

\* A pass is its bucket's queries, each once.
LEMMA PassIsBucket ==
  ASSUME BucketTypes, NEW b
  PROVE  LET at == {i \in DOMAIN rows : rows[i].bucket = b}  p == Positions(b)
         IN  /\ Len(p) \in Nat /\ DOMAIN p = 1..Len(p) /\ p \in [1..Len(p) -> at]
             /\ \A i, j \in DOMAIN p : p[i] = p[j] => i = j
             /\ \A x \in at : \E i \in DOMAIN p : p[i] = x
<1> DEFINE at == {i \in DOMAIN rows : rows[i].bucket = b}  n == Cardinality(at)  p == Positions(b)
<1>1. IsFiniteSet(at) /\ at \subseteq Nat
  <2>1. at \subseteq DOMAIN rows OBVIOUS
  <2> QED BY <2>1, RowsAreSequence, FS_Subset
<1>2. p = Ascending(at) BY DEF Positions
<1> HIDE DEF p, at
<1>3. /\ n \in Nat /\ p \in [1..n -> at]
      /\ \A i, j \in 1..n : i < j => p[i] < p[j]
      /\ \A x \in at : \E i \in 1..n : p[i] = x
  BY <1>1, <1>2, AscendingSorts
<1> HIDE DEF n
<1>4. DOMAIN p = 1..n /\ Len(p) = n BY <1>3
<1>5. ASSUME NEW i \in 1..n, NEW j \in 1..n, p[i] = p[j] PROVE i = j
  <2>0. p[i] \in at /\ p[j] \in at BY <1>3
  <2>1. p[i] \in Nat /\ p[j] \in Nat BY <1>1, <2>0
  <2>3. i \in Int /\ j \in Int BY <1>3
  <2>2. ~(i < j) /\ ~(j < i) BY <1>3, <1>5, <2>1
  <2> QED BY <2>2, <2>3
<1> QED BY <1>3, <1>4, <1>5 DEF p, at

\* The buckets that have queries, each once.
LEMMA BucketsOnce ==
  ASSUME BucketTypes
  PROVE  /\ Len(ByBucket) \in Nat /\ DOMAIN ByBucket = 1..Len(ByBucket)
         /\ \A k \in DOMAIN ByBucket : ByBucket[k] \in {"50%", "10%", "1%", "0.1%"}
         /\ \A k, l \in DOMAIN ByBucket : ByBucket[k] = ByBucket[l] => k = l
         /\ \A i \in DOMAIN rows : rows[i].bucket \in {"50%", "10%", "1%", "0.1%"} =>
              \E k \in DOMAIN ByBucket : ByBucket[k] = rows[i].bucket
<1> DEFINE at == {k \in DOMAIN Buckets : \E i \in DOMAIN rows : rows[i].bucket = Buckets[k]}
           n == Cardinality(at)
<1>0. /\ DOMAIN Buckets = 1..4
      /\ Buckets[1] = "50%" /\ Buckets[2] = "10%" /\ Buckets[3] = "1%" /\ Buckets[4] = "0.1%" BY DEF Buckets
<1>1. IsFiniteSet(at) /\ at \subseteq Nat /\ at \subseteq 1..4
  <2>1. at \subseteq 1..4 BY <1>0
  <2>2. 1 \in Int /\ 4 \in Int OBVIOUS
  <2>3. IsFiniteSet(1..4) BY <2>2, FS_Interval
  <2> HIDE DEF at
  <2>4. at \in SUBSET (1..4) BY <2>1
  <2>5. IsFiniteSet(at) BY <2>3, <2>4, FS_Subset
  <2>6. at \subseteq Nat BY <2>1
  <2> QED BY <2>1, <2>5, <2>6
<1>2. Occupied = Ascending(at) BY DEF Occupied
<1>3. \A i \in DOMAIN rows : rows[i].bucket \in {"50%", "10%", "1%", "0.1%"} => \E k \in at : Buckets[k] = rows[i].bucket
  <2> SUFFICES ASSUME NEW i \in DOMAIN rows, rows[i].bucket \in {"50%", "10%", "1%", "0.1%"}
               PROVE  \E k \in DOMAIN Buckets : Buckets[k] = rows[i].bucket
    OBVIOUS
  <2>1. 1 \in 1..4 /\ 2 \in 1..4 /\ 3 \in 1..4 /\ 4 \in 1..4 OBVIOUS
  <2> QED BY <1>0, <2>1
<1> HIDE DEF at
<1>4. /\ n \in Nat /\ Occupied \in [1..n -> at]
      /\ \A i, j \in 1..n : i < j => Occupied[i] < Occupied[j]
      /\ \A x \in at : \E i \in 1..n : Occupied[i] = x
  BY <1>1, <1>2, AscendingSorts
<1> HIDE DEF n
<1>5. DOMAIN Occupied = 1..n /\ DOMAIN ByBucket = 1..n /\ \A k \in 1..n : ByBucket[k] = Buckets[Occupied[k]]
  BY <1>4 DEF ByBucket
<1>6. Len(ByBucket) = n
  <2>1. ByBucket = [k \in 1..n |-> Buckets[Occupied[k]]] BY <1>4, <1>5 DEF ByBucket
  <2> QED BY <2>1, <1>4
<1>7. \A k \in 1..n : Occupied[k] \in 1..4 BY <1>1, <1>4
<1>8. ASSUME NEW k \in 1..n, NEW l \in 1..n, ByBucket[k] = ByBucket[l] PROVE k = l
  <2>1. Occupied[k] = Occupied[l]
    <3>1. Occupied[k] \in 1..4 /\ Occupied[l] \in 1..4 /\ Buckets[Occupied[k]] = Buckets[Occupied[l]] BY <1>5, <1>7, <1>8
    <3> QED BY <3>1, <1>0
  <2>2. k \in Int /\ l \in Int /\ Occupied[k] \in Int BY <1>4, <1>7
  <2>3. ~(k < l) /\ ~(l < k) BY <2>1, <2>2, <1>4
  <2> QED BY <2>2, <2>3
<1>9. \A k \in 1..n : ByBucket[k] \in {"50%", "10%", "1%", "0.1%"}
  <2> TAKE k \in 1..n
  <2>1. Occupied[k] \in {1, 2, 3, 4} BY <1>7
  <2> QED BY <2>1, <1>0, <1>5
<1>10. ASSUME NEW i \in DOMAIN rows, rows[i].bucket \in {"50%", "10%", "1%", "0.1%"}
       PROVE  \E k \in DOMAIN ByBucket : ByBucket[k] = rows[i].bucket
  <2>1. PICK x \in at : Buckets[x] = rows[i].bucket BY <1>3, <1>10
  <2>2. PICK k \in 1..n : Occupied[k] = x BY <1>4
  <2> QED BY <2>1, <2>2, <1>5
<1> QED BY <1>4, <1>5, <1>6, <1>8, <1>9, <1>10

\* No pass has run.
LEMMA BucketsStart == BucketsInit => BucketsIInv
<1> SUFFICES ASSUME BucketsInit PROVE BucketsIInv OBVIOUS
<1>1. BucketTypes
  <2>1. host.requests = 0 /\ host.foreign = 0 /\ host.modes \in SUBSET Modes BY DEF BucketsInit
  <2> QED BY <2>1 DEF BucketsInit, BucketTypes, NoRunYet, Policies
<1>2. Course /\ Recorded BY DEF BucketsInit, Course, Recorded, NoRunYet, Underway
<1>3. Evident BY DEF BucketsInit, Evident, NoRunYet, Underway
<1> QED BY <1>1, <1>2, <1>3 DEF BucketsIInv

\* Not under way, nothing is said of the buckets.
LEMMA OffDuty ==
  ASSUME BucketsIInv, UNCHANGED <<host, rows, ran>>, pass' = NoPass,
         hybrid' = [NoRunYet EXCEPT !.stage = "failed"] \/ hybrid' = [NoRunYet EXCEPT !.stage = "over"]
  PROVE  BucketsIInv'
<1>1. BucketTypes' BY DEF BucketsIInv, BucketTypes, NoRunYet, Policies
<1>2. hybrid'.stage \in {"failed", "over"} BY DEF NoRunYet
<1>3. Course' BY <1>2 DEF BucketsIInv, Course, Underway
<1>4. Recorded' BY <1>2 DEF Recorded, Underway
<1>5. Evident' BY <1>2 DEF BucketsIInv, Evident, Underway
<1> QED BY <1>1, <1>3, <1>4, <1>5 DEF BucketsIInv

\* A run that starts has recorded nothing, and its preflight has checked every row.
LEMMA StartKeeps == ASSUME BucketsIInv, NEW p \in HybridParams, StartHybrid(p) PROVE BucketsIInv'
<1>1. PICK policy \in ResolvePolicy(p) : hybrid' = [NoRunYet EXCEPT !.stage = "between", !.policy = policy]
  BY DEF StartHybrid
<1>2. policy \in Policies
  <2>1. p.env \in Policies /\ p.config \in Policies BY DEF HybridParams
  <2>2. policy \in {"unset", p.env, p.config}
    <3>1. CASE host.engine = "opensearch" BY <1>1, <3>1 DEF ResolvePolicy
    <3>2. CASE host.engine # "opensearch" /\ p.config = "unset" BY <1>1, <3>2 DEF ResolvePolicy
    <3>3. CASE host.engine # "opensearch" /\ p.config # "unset" BY <1>1, <3>3 DEF ResolvePolicy
    <3> QED BY <3>1, <3>2, <3>3
  <2> QED BY <2>1, <2>2 DEF Policies
<1>3. /\ hybrid'.stage = "between" /\ hybrid'.bucket = 1 /\ hybrid'.records = {} /\ hybrid'.requested = 0
      /\ UNCHANGED <<host, rows, pass, ran>> /\ hybrid.stage = "idle"
  BY <1>1 DEF StartHybrid, NoRunYet
<1>4. BucketTypes'
  <2>1. hybrid' = [stage |-> "between", bucket |-> 1, records |-> {}, requested |-> 0, done |-> {}, failed |-> 0,
                   before |-> 0, policy |-> policy]
    BY <1>1 DEF NoRunYet
  <2>2. hybrid' \in [stage : {"idle", "between", "pass", "published", "failed", "over"}, bucket : Nat \ {0},
                     records : SUBSET [query : Nat, seq : Nat, bucket : {"50%", "10%", "1%", "0.1%"}],
                     requested : Nat, done : SUBSET Nat, failed : Nat, before : Nat, policy : Policies]
    BY <2>1, <1>2
  <2> QED BY <2>2, <1>3 DEF BucketsIInv, BucketTypes
<1>5. ByBucket' = ByBucket BY <1>3 DEF ByBucket, Occupied
<1>6. Course'
  <2>1. rows # <<>> /\ \A i \in DOMAIN rows : CheckRow(rows[i]) BY DEF StartHybrid, Preflight
  <2>2. Len(ByBucket) \in Nat BY BucketsOnce DEF BucketsIInv
  <2>3. pass = NoPass BY <1>3 DEF BucketsIInv, Course
  <2> QED BY <2>1, <2>2, <2>3, <1>3, <1>5 DEF BucketsIInv, Course
<1>7. Recorded'
  <2>1. Over' = {}
    <3>1. DOMAIN ByBucket = 1..Len(ByBucket) /\ Len(ByBucket) \in Nat BY BucketsOnce DEF BucketsIInv
    <3> QED BY <3>1, <1>3, <1>5 DEF Over
  <2>2. 1..0 = {} OBVIOUS
  <2> QED BY <2>1, <2>2, <1>3 DEF Recorded
<1>8. Evident' BY <1>3 DEF BucketsIInv, Evident
<1> QED BY <1>4, <1>6, <1>7, <1>8 DEF BucketsIInv

\* Within a pass, and between two, only the pass itself changes.
LEMMA WithinKeeps ==
  ASSUME BucketsIInv, Underway, BucketTypes', Course', UNCHANGED rows,
         UNCHANGED <<hybrid.bucket, hybrid.records, hybrid.requested, hybrid.policy, host.engine, host.reaches, host.modes>>,
         host'.foreign >= host.foreign,
         ~host'.reaches /\ host'.foreign = 0 => host'.requests = 0
  PROVE  BucketsIInv'
<1>1. ByBucket' = ByBucket BY DEF ByBucket, Occupied
<1>2. Recorded'
  <2>1. Over' = Over BY <1>1 DEF Over
  <2> QED BY <2>1 DEF BucketsIInv, Recorded
<1>3. Evident'
  <2>1. host.foreign \in Nat /\ host'.foreign \in Nat BY DEF BucketsIInv, BucketTypes
  <2>2. Filtered => Filtered' BY <2>1 DEF Filtered
  <2> QED BY <2>2 DEF BucketsIInv, Evident
<1> QED BY <1>2, <1>3 DEF BucketsIInv

\* A query of a pass, or a request of another client, leaves the records alone.
LEMMA PassKeepsBuckets ==
  ASSUME BucketsIInv, BeginPass \/ (\E i \in DOMAIN rows : PassQuery(i)) \/ ForeignRequest \/ PublishHybrid
  PROVE  BucketsIInv'
<1> USE DEF BucketsIInv
<1>1. CASE BeginPass
  <2>1. PICK readable \in BOOLEAN :
          IF readable
          THEN /\ pass' = Positions(ByBucket[hybrid.bucket])
               /\ hybrid' = [hybrid EXCEPT !.stage = "pass", !.done = {}, !.failed = 0, !.before = host.requests]
          ELSE pass' = NoPass /\ hybrid' = RunFailed
    BY <1>1 DEF BeginPass
  <2>2. CASE readable
    <3>1. /\ pass' = Positions(ByBucket[hybrid.bucket]) /\ hybrid.stage = "between" /\ hybrid.bucket <= Len(ByBucket)
          /\ hybrid' = [hybrid EXCEPT !.stage = "pass", !.done = {}, !.failed = 0, !.before = host.requests]
          /\ UNCHANGED <<host, rows, ran>>
      BY <1>1, <2>1, <2>2 DEF BeginPass
    <3>2. hybrid'.stage = "pass" /\ UNCHANGED <<hybrid.bucket, hybrid.records, hybrid.requested, hybrid.policy>>
      BY <3>1 DEF BucketTypes
    <3>3. BucketTypes' BY <3>1 DEF BucketTypes
    <3>4. ByBucket' = ByBucket BY <3>1 DEF ByBucket, Occupied
    <3>5. Positions(ByBucket[hybrid.bucket])' = Positions(ByBucket[hybrid.bucket]) BY <3>1, <3>2, <3>4 DEF Positions
    <3>6. Course'
      <4>1. Len(ByBucket) \in Nat /\ hybrid.bucket \in Nat BY BucketsOnce DEF BucketTypes
      <4> QED BY <4>1, <3>1, <3>2, <3>4, <3>5 DEF Course, Underway
    <3>7. Underway BY <3>1 DEF Underway
    <3>8. host.foreign \in Nat /\ (~host.reaches /\ host.foreign = 0 => host.requests = 0) BY DEF BucketTypes, Evident
    <3> QED BY <3>1, <3>2, <3>3, <3>6, <3>7, <3>8, WithinKeeps
  <2>3. CASE ~readable
    <3>1. hybrid' = [NoRunYet EXCEPT !.stage = "failed"] /\ pass' = NoPass /\ UNCHANGED <<host, rows, ran>>
      BY <1>1, <2>1, <2>3 DEF BeginPass, RunFailed
    <3> QED BY <3>1, OffDuty
  <2> QED BY <2>2, <2>3
<1>2. ASSUME NEW i \in DOMAIN rows, PassQuery(i) PROVE BucketsIInv'
  <2>1. PICK ok \in BOOLEAN :
          /\ hybrid' = [hybrid EXCEPT !.done = @ \cup {i}, !.failed = IF ok THEN @ ELSE @ + 1]
          /\ host' = [host EXCEPT !.requests = IF ok /\ host.reaches THEN @ + 1 ELSE @]
    BY <1>2 DEF PassQuery
  <2>2. hybrid.stage = "pass" /\ UNCHANGED <<rows, pass, ran>> BY <1>2 DEF PassQuery
  <2>3. UNCHANGED <<hybrid.stage, hybrid.bucket, hybrid.records, hybrid.requested, hybrid.policy>> BY <2>1 DEF BucketTypes
  <2>4. /\ UNCHANGED <<host.engine, host.reaches, host.modes, host.foreign>>
        /\ ~host'.reaches => host'.requests = host.requests
    BY <2>1 DEF BucketTypes
  <2>5. BucketTypes'
    <3>1. i \in Nat BY RowsAreSequence
    <3>2. hybrid.failed \in Nat /\ host.requests \in Nat BY DEF BucketTypes
    <3>3. (IF ok THEN hybrid.failed ELSE hybrid.failed + 1) \in Nat
          /\ (IF ok /\ host.reaches THEN host.requests + 1 ELSE host.requests) \in Nat BY <3>2
    <3> QED BY <2>1, <2>2, <3>1, <3>3 DEF BucketTypes
  <2>6. Course'
    <3>1. ByBucket' = ByBucket BY <2>2 DEF ByBucket, Occupied
    <3>2. Positions(ByBucket[hybrid.bucket])' = Positions(ByBucket[hybrid.bucket]) BY <2>2, <2>3, <3>1 DEF Positions
    <3> QED BY <2>2, <2>3, <3>1, <3>2 DEF Course, Underway
  <2>7. Underway /\ host.foreign \in Nat /\ (~host.reaches /\ host.foreign = 0 => host.requests = 0)
    BY <2>2 DEF Underway, BucketTypes, Evident
  <2> QED BY <2>2, <2>3, <2>4, <2>5, <2>6, <2>7, WithinKeeps
<1>3. CASE ForeignRequest
  <2>1. /\ hybrid.stage = "pass" /\ host' = [host EXCEPT !.requests = @ + 1, !.foreign = @ + 1]
        /\ UNCHANGED <<rows, hybrid, pass, ran>>
    BY <1>3 DEF ForeignRequest
  <2>2. /\ UNCHANGED <<host.engine, host.reaches, host.modes>>
        /\ host.foreign \in Nat /\ host'.foreign = host.foreign + 1
    BY <2>1 DEF BucketTypes
  <2>3. BucketTypes'
    <3>1. host.requests \in Nat /\ host.foreign \in Nat BY DEF BucketTypes
    <3>2. host.requests + 1 \in Nat /\ host.foreign + 1 \in Nat BY <3>1
    <3>3. host' \in [engine : {"redis", "opensearch"}, reaches : BOOLEAN, modes : SUBSET Modes, requests : Nat, foreign : Nat]
      BY <2>1, <3>2 DEF BucketTypes
    <3> QED BY <2>1, <3>3 DEF BucketTypes
  <2>4. Course'
    <3>1. ByBucket' = ByBucket BY <2>1 DEF ByBucket, Occupied
    <3>2. Positions(ByBucket[hybrid.bucket])' = Positions(ByBucket[hybrid.bucket]) BY <2>1, <3>1 DEF Positions
    <3> QED BY <2>1, <3>1, <3>2 DEF Course, Underway
  <2>5. Underway BY <2>1 DEF Underway
  <2>6. host'.foreign >= host.foreign /\ host'.foreign # 0 BY <2>2
  <2> QED BY <2>1, <2>2, <2>3, <2>4, <2>5, <2>6, WithinKeeps
<1>4. CASE PublishHybrid
  <2>1. /\ hybrid.stage = "between" /\ hybrid.bucket > Len(ByBucket)
        /\ hybrid' = [hybrid EXCEPT !.stage = "published"] /\ UNCHANGED <<host, rows, pass, ran>>
    BY <1>4 DEF PublishHybrid
  <2>2. hybrid'.stage = "published" /\ UNCHANGED <<hybrid.bucket, hybrid.records, hybrid.requested, hybrid.policy>>
    BY <2>1 DEF BucketTypes
  <2>3. BucketTypes' BY <2>1 DEF BucketTypes
  <2>4. Course'
    <3>1. ByBucket' = ByBucket BY <2>1 DEF ByBucket, Occupied
    <3> QED BY <2>1, <2>2, <3>1 DEF Course, Underway
  <2>5. Underway /\ host.foreign \in Nat /\ (~host.reaches /\ host.foreign = 0 => host.requests = 0)
    BY <2>1 DEF Underway, BucketTypes, Evident
  <2> QED BY <2>1, <2>2, <2>3, <2>4, <2>5, WithinKeeps
<1> QED BY <1>1, <1>2, <1>3, <1>4


\* A bucket leaves its evidence: the sample holds its first query, and a query
\* that was answered was counted.
LEMMA EvidenceFilters ==
  ASSUME BucketTypes, Course, Evident, hybrid.stage = "pass", Evidence, BucketReport
  PROVE  Filtered
<1> DEFINE b == ByBucket[hybrid.bucket]
<1>1. pass = Positions(b) BY DEF Course
<1>2. Len(pass) \in Nat /\ DOMAIN pass = 1..Len(pass)
  <2> HIDE DEF b
  <2> QED BY <1>1, PassIsBucket
<1>3. hybrid.failed \in Nat /\ hybrid.failed < Len(pass) BY DEF BucketTypes, BucketReport
<1>4. 1 \in DOMAIN pass BY <1>2, <1>3
<1>5. CASE host.engine = "redis"
  <2>1. 1 \in ProfileSample
    <3> DEFINE same == {j \in 1..1 : rows[pass[j]].predicate = rows[pass[1]].predicate}
    <3>1. same = {1} OBVIOUS
    <3>2. Cardinality(same) = 1 BY <3>1, FS_Singleton
    <3>3. Cardinality(same) <= SamplePerPredicate BY <3>2, BucketsAssumption
    <3> QED BY <1>4, <3>3 DEF ProfileSample
  <2>2. CheckRedisModes(hybrid.policy) BY <1>5 DEF Evidence
  <2>3. host.modes # {} BY DEF Evident
  <2>4. CASE hybrid.policy = "ADHOC_BF"
    <3>1. host.modes \subseteq {"HYBRID_ADHOC_BF"} BY <2>1, <2>2, <2>4 DEF CheckRedisModes
    <3> QED BY <3>1, <2>3, <1>5 DEF Filtered
  <2>5. CASE hybrid.policy = "BATCHES"
    <3>1. host.modes \subseteq {"HYBRID_BATCHES", "HYBRID_BATCHES_TO_ADHOC_BF"} BY <2>1, <2>2, <2>5 DEF CheckRedisModes
    <3> QED BY <3>1, <2>5, <1>5 DEF Filtered
  <2>6. CASE hybrid.policy \notin {"ADHOC_BF", "BATCHES"}
    <3>1. host.modes \subseteq Modes \ {"STANDARD_KNN"} BY <2>1, <2>2, <2>6 DEF CheckRedisModes
    <3> QED BY <3>1, <2>6, <1>5 DEF Filtered
  <2> QED BY <2>4, <2>5, <2>6
<1>6. CASE host.engine # "redis"
  <2>1. host.requests - hybrid.before >= Len(pass) - hybrid.failed
    BY <1>6 DEF Evidence, CheckOpenSearchFilteredRequests
  <2>2. host.requests \in Nat /\ hybrid.before \in Nat /\ host.foreign \in Nat BY DEF BucketTypes
  <2>3. host.requests # 0 BY <1>2, <1>3, <2>1, <2>2
  <2> QED BY <1>6, <2>2, <2>3 DEF Evident, Filtered
<1> QED BY <1>5, <1>6

\* The records of a pass, renumbered, beside those of the buckets before it.
LEMMA PassIsRecorded ==
  ASSUME BucketTypes, Course, Recorded, hybrid.stage = "pass",
         NEW all, all = hybrid.records \cup RemapRecords(hybrid.requested)
  PROVE  /\ all \in SUBSET [query : Nat, seq : Nat, bucket : {"50%", "10%", "1%", "0.1%"}]
         /\ {r.query : r \in all} = Over \cup {i \in DOMAIN rows : rows[i].bucket = ByBucket[hybrid.bucket]}
         /\ {r.seq : r \in all} = 1..(hybrid.requested + Len(pass))
         /\ \A r, s \in all : r.query = s.query \/ r.seq = s.seq => r = s
         /\ \A r \in all : r.bucket = rows[r.query].bucket
<1> DEFINE b == ByBucket[hybrid.bucket]  n == Len(pass)  o == hybrid.requested
           Of(i) == [query |-> pass[i], seq |-> i + o, bucket |-> b]
           new == RemapRecords(o)  old == hybrid.records
           at == {i \in DOMAIN rows : rows[i].bucket = b}
<1>1. /\ n \in Nat /\ DOMAIN pass = 1..n /\ pass \in [1..n -> at]
      /\ \A i, j \in DOMAIN pass : pass[i] = pass[j] => i = j
      /\ \A x \in at : \E i \in DOMAIN pass : pass[i] = x
  <2>1. pass = Positions(b) BY DEF Course
  <2> HIDE DEF b
  <2> QED BY <2>1, PassIsBucket
<1>2. new = {Of(i) : i \in 1..n} BY <1>1 DEF RemapRecords
<1>3. /\ hybrid.bucket \in DOMAIN ByBucket /\ b \in {"50%", "10%", "1%", "0.1%"} /\ o \in Nat /\ hybrid.bucket \in Nat
  <2>1. Len(ByBucket) \in Nat /\ DOMAIN ByBucket = 1..Len(ByBucket) BY BucketsOnce
  <2>2. hybrid.bucket \in DOMAIN ByBucket BY <2>1 DEF BucketTypes, Course
  <2> QED BY <2>2, BucketsOnce DEF BucketTypes
<1>4. Underway BY DEF Underway
<1>5. \A i \in 1..n : pass[i] \in DOMAIN rows /\ rows[pass[i]].bucket = b /\ pass[i] \in Nat
  <2>1. \A x \in DOMAIN rows : x \in Nat BY RowsAreSequence
  <2> QED BY <1>1, <2>1
<1>6. /\ {r.query : r \in old} = Over /\ {r.seq : r \in old} = 1..o
      /\ \A r, s \in old : r.query = s.query \/ r.seq = s.seq => r = s
      /\ \A r \in old : r.bucket = rows[r.query].bucket
  BY <1>4 DEF Recorded
<1>7. old \in SUBSET [query : Nat, seq : Nat, bucket : {"50%", "10%", "1%", "0.1%"}] BY DEF BucketTypes
<1> HIDE DEF b, n, o, new, old
<1>8. \A i \in 1..n : Of(i).query = pass[i] /\ Of(i).seq = i + o /\ Of(i).bucket = b OBVIOUS
<1>9. all = old \cup new BY DEF old, new, o
<1> HIDE DEF Of
<1>10. \A r \in new : \E i \in 1..n : r = Of(i) /\ r.query = pass[i] /\ r.seq = i + o /\ r.bucket = b
  BY <1>2, <1>8
<1>11. \A i \in 1..n : Of(i) \in new BY <1>2
<1>12. all \in SUBSET [query : Nat, seq : Nat, bucket : {"50%", "10%", "1%", "0.1%"}]
  <2>1. ASSUME NEW i \in 1..n PROVE Of(i) \in [query : Nat, seq : Nat, bucket : {"50%", "10%", "1%", "0.1%"}]
    <3>1. i + o \in Nat /\ pass[i] \in Nat BY <1>1, <1>3, <1>5
    <3> QED BY <3>1, <1>3 DEF Of
  <2> QED BY <2>1, <1>2, <1>7, <1>9
<1>13. {r.query : r \in all} = Over \cup at
  <2>1. \A x \in at : \E r \in new : r.query = x BY <1>1, <1>8, <1>11
  <2>2. \A r \in new : r.query \in at BY <1>1, <1>10
  <2>3. {r.query : r \in all} = {r.query : r \in old} \cup {r.query : r \in new} BY <1>9
  <2> HIDE DEF at
  <2>4. {r.query : r \in new} = at BY <2>1, <2>2
  <2> QED BY <2>3, <2>4, <1>6
<1>14. {r.seq : r \in all} = 1..(o + n)
  <2>1. ASSUME NEW k \in 1..(o + n) PROVE \E r \in all : r.seq = k
    <3>1. CASE k <= o
      <4>1. k \in 1..o BY <3>1, <1>3
      <4> QED BY <4>1, <1>6, <1>9
    <3>2. CASE ~(k <= o)
      <4>1. k - o \in 1..n /\ (k - o) + o = k BY <3>2, <1>1, <1>3
      <4> QED BY <4>1, <1>8, <1>9, <1>11
    <3> QED BY <3>1, <3>2
  <2>2. ASSUME NEW r \in all PROVE r.seq \in 1..(o + n)
    <3>1. CASE r \in old
      <4>1. r.seq \in 1..o BY <3>1, <1>6
      <4> QED BY <4>1, <1>1, <1>3
    <3>2. CASE r \in new
      <4>1. PICK i \in 1..n : r.seq = i + o BY <3>2, <1>10
      <4> QED BY <4>1, <1>1, <1>3
    <3> QED BY <3>1, <3>2, <1>9
  <2> QED BY <2>1, <2>2
<1>15. \A r \in all : r.bucket = rows[r.query].bucket BY <1>5, <1>6, <1>9, <1>10
<1>16. ASSUME NEW r \in old, NEW s \in new PROVE r.query # s.query /\ r.seq # s.seq
  <2>1. PICK i \in 1..n : s.query = pass[i] /\ s.seq = i + o BY <1>10
  <2>2. r.seq \in 1..o BY <1>6
  <2>3. r.seq # s.seq BY <2>1, <2>2, <1>1, <1>3
  <2>4. r.query \in Over BY <1>6
  <2>5. PICK k \in DOMAIN ByBucket : k < hybrid.bucket /\ rows[r.query].bucket = ByBucket[k] BY <2>4 DEF Over
  <2>6. ByBucket[k] # b BY <2>5, <1>3, BucketsOnce DEF b
  <2> QED BY <2>1, <2>3, <2>5, <2>6, <1>5
<1>17. ASSUME NEW r \in new, NEW s \in new, r.query = s.query \/ r.seq = s.seq PROVE r = s
  <2>1. PICK i \in 1..n : r = Of(i) /\ r.query = pass[i] /\ r.seq = i + o BY <1>10
  <2>2. PICK j \in 1..n : s = Of(j) /\ s.query = pass[j] /\ s.seq = j + o BY <1>10
  <2>3. i = j
    <3>1. CASE pass[i] = pass[j] BY <3>1, <1>1
    <3>2. CASE i + o = j + o BY <3>2, <1>1, <1>3
    <3> QED BY <2>1, <2>2, <3>1, <3>2, <1>17
  <2> QED BY <2>1, <2>2, <2>3
<1>18. \A r, s \in all : r.query = s.query \/ r.seq = s.seq => r = s BY <1>6, <1>9, <1>16, <1>17
<1> QED BY <1>12, <1>13, <1>14, <1>15, <1>18 DEF at, b, n, o

\* hybrid_pass is taken back whether the pass recorded, failed or ran short.
LEMMA EndKeeps == ASSUME BucketsIInv, EndPass PROVE BucketsIInv'
<1> USE DEF BucketsIInv
<1>1. CASE ~Evidence \/ ~BucketReport
  <2>1. hybrid' = [NoRunYet EXCEPT !.stage = "failed"] /\ pass' = NoPass /\ UNCHANGED <<host, rows, ran>>
    BY <1>1 DEF EndPass, RunFailed
  <2> QED BY <2>1, OffDuty
<1>2. CASE Evidence /\ BucketReport
  <2> DEFINE all == hybrid.records \cup RemapRecords(hybrid.requested)
  <2>1. /\ hybrid.stage = "pass" /\ pass' = NoPass /\ UNCHANGED <<host, rows, ran>>
        /\ hybrid' = [hybrid EXCEPT !.stage = "between", !.bucket = @ + 1, !.requested = @ + Len(pass), !.records = all]
    BY <1>2 DEF EndPass
  <2>2. /\ all \in SUBSET [query : Nat, seq : Nat, bucket : {"50%", "10%", "1%", "0.1%"}]
        /\ {r.query : r \in all} = Over \cup {i \in DOMAIN rows : rows[i].bucket = ByBucket[hybrid.bucket]}
        /\ {r.seq : r \in all} = 1..(hybrid.requested + Len(pass))
        /\ \A r, s \in all : r.query = s.query \/ r.seq = s.seq => r = s
        /\ \A r \in all : r.bucket = rows[r.query].bucket
    BY <2>1, PassIsRecorded
  <2>3. Filtered BY <1>2, <2>1, EvidenceFilters
  <2> HIDE DEF all
  <2>4. /\ hybrid'.stage = "between" /\ hybrid'.bucket = hybrid.bucket + 1 /\ hybrid'.records = all
        /\ hybrid'.requested = hybrid.requested + Len(pass) /\ hybrid'.policy = hybrid.policy
    BY <2>1 DEF BucketTypes
  <2>5. Len(pass) \in Nat
    <3>1. pass = Positions(ByBucket[hybrid.bucket]) BY <2>1 DEF Course
    <3> QED BY <3>1, PassIsBucket
  <2>6. BucketTypes'
    <3>1. hybrid.bucket + 1 \in Nat \ {0} /\ hybrid.requested + Len(pass) \in Nat BY <2>5 DEF BucketTypes
    <3>2. hybrid' \in [stage : {"idle", "between", "pass", "published", "failed", "over"}, bucket : Nat \ {0},
                       records : SUBSET [query : Nat, seq : Nat, bucket : {"50%", "10%", "1%", "0.1%"}],
                       requested : Nat, done : SUBSET Nat, failed : Nat, before : Nat, policy : Policies]
      BY <2>1, <2>2, <3>1 DEF BucketTypes
    <3> QED BY <2>1, <3>2 DEF BucketTypes
  <2>7. ByBucket' = ByBucket BY <2>1 DEF ByBucket, Occupied
  <2>8. Len(ByBucket) \in Nat /\ DOMAIN ByBucket = 1..Len(ByBucket) /\ hybrid.bucket \in Nat \ {0}
        /\ hybrid.bucket <= Len(ByBucket)
    BY <2>1, BucketsOnce DEF BucketTypes, Course
  <2>9. Course'
    <3>1. hybrid'.bucket <= Len(ByBucket) + 1 BY <2>4, <2>8
    <3> QED BY <2>1, <2>4, <2>7, <3>1 DEF Course, Underway
  <2>10. Recorded'
    <3>1. Over' = Over \cup {i \in DOMAIN rows : rows[i].bucket = ByBucket[hybrid.bucket]}
      <4>1. \A k \in DOMAIN ByBucket : k < hybrid'.bucket <=> k < hybrid.bucket \/ k = hybrid.bucket
        BY <2>4, <2>8
      <4>2. hybrid.bucket \in DOMAIN ByBucket BY <2>8
      <4>3. Over' = {i \in DOMAIN rows : \E k \in DOMAIN ByBucket : k < hybrid'.bucket /\ rows[i].bucket = ByBucket[k]}
        BY <2>1, <2>7 DEF Over
      <4> QED BY <4>1, <4>2, <4>3 DEF Over
    <3> QED BY <2>1, <2>2, <2>4, <3>1 DEF Recorded
  <2>11. Evident'
    <3>1. Filtered' BY <2>1, <2>3, <2>4 DEF Filtered
    <3> QED BY <2>1, <3>1 DEF Evident
  <2> QED BY <2>6, <2>9, <2>10, <2>11
<1> QED BY <1>1, <1>2

\* The invariant of a hybrid run.
LEMMA BucketsKeep == ASSUME BucketsIInv, [BucketsNext]_bucketVars PROVE BucketsIInv'
<1>1. CASE \E p \in HybridParams : StartHybrid(p) BY <1>1, StartKeeps
<1>2. CASE BeginPass \/ (\E i \in DOMAIN rows : PassQuery(i)) \/ ForeignRequest \/ PublishHybrid
  BY <1>2, PassKeepsBuckets
<1>3. CASE EndPass BY <1>3, EndKeeps
<1>4. CASE PassFails BY <1>4, OffDuty DEF PassFails, RunFailed
<1>5. CASE VectorSearch
  <2>1. pass = NoPass BY <1>5 DEF VectorSearch, BucketsIInv, Course
  <2>2. ran' = <<>> /\ pass' = NoPass /\ UNCHANGED <<host, rows>> /\ hybrid' = [NoRunYet EXCEPT !.stage = "over"]
    BY <1>5, <2>1 DEF VectorSearch
  <2>3. hybrid'.stage = "over" BY <2>2 DEF NoRunYet
  <2>4. BucketTypes' BY <2>2 DEF BucketsIInv, BucketTypes, NoRunYet, Policies
  <2>5. Course' BY <2>2, <2>3 DEF Course, Underway
  <2>6. Recorded' BY <2>3 DEF Recorded, Underway
  <2>7. Evident' BY <2>2, <2>3 DEF BucketsIInv, Evident, Underway
  <2> QED BY <2>4, <2>5, <2>6, <2>7 DEF BucketsIInv
<1>6. CASE UNCHANGED bucketVars
  <2>1. UNCHANGED <<host, rows, hybrid, pass, ran>> BY <1>6 DEF bucketVars
  <2>2. BucketTypes' BY <2>1 DEF BucketsIInv, BucketTypes
  <2>3. ByBucket' = ByBucket BY <2>1 DEF ByBucket, Occupied
  <2>4. Positions(ByBucket[hybrid.bucket])' = Positions(ByBucket[hybrid.bucket]) BY <2>1, <2>3 DEF Positions
  <2>5. Course' BY <2>1, <2>3, <2>4 DEF BucketsIInv, Course, Underway
  <2>6. Over' = Over BY <2>1, <2>3 DEF Over
  <2>7. Recorded' BY <2>1, <2>6 DEF BucketsIInv, Recorded, Underway
  <2>8. Evident' BY <2>1 DEF BucketsIInv, Evident, Underway, Filtered
  <2> QED BY <2>2, <2>5, <2>7, <2>8 DEF BucketsIInv
<1> QED BY <1>1, <1>2, <1>3, <1>4, <1>5, <1>6 DEF BucketsNext

\* What the invariant says of a published run.
LEMMA BucketsAsLabelled == BucketsIInv => RecordsIdentify /\ FilteredEvidence
<1> SUFFICES ASSUME BucketsIInv PROVE RecordsIdentify /\ FilteredEvidence OBVIOUS
<1> USE DEF BucketsIInv
<1>1. ASSUME hybrid.stage = "published"
      PROVE  /\ {r.query : r \in hybrid.records} = DOMAIN rows
             /\ {r.seq : r \in hybrid.records} = DOMAIN rows
             /\ Cardinality(hybrid.records) = Len(rows)
             /\ \A r \in hybrid.records : r.bucket = BucketOf(rows[r.query].matching, rows[r.query].corpus)
             /\ Filtered
  <2>1. Underway /\ rows # <<>> /\ hybrid.bucket > Len(ByBucket) BY <1>1 DEF Underway, Course
  <2>2. Len(rows) \in Nat /\ DOMAIN rows = 1..Len(rows) /\ IsFiniteSet(DOMAIN rows) BY RowsAreSequence
  <2>3. \A i \in DOMAIN rows : /\ rows[i].bucket = BucketOf(rows[i].matching, rows[i].corpus)
                               /\ rows[i].bucket \in {"50%", "10%", "1%", "0.1%"}
    <3> SUFFICES ASSUME NEW i \in DOMAIN rows
                 PROVE  /\ rows[i].bucket = BucketOf(rows[i].matching, rows[i].corpus)
                        /\ rows[i].bucket \in {"50%", "10%", "1%", "0.1%"}
      OBVIOUS
    <3>1. rows[i].bucket = BucketOf(rows[i].matching, rows[i].corpus) BY <2>1 DEF Course, CheckRow
    <3>2. BucketOf(rows[i].matching, rows[i].corpus) \in {"50%", "10%", "1%", "0.1%"} BY DEF BucketOf
    <3> QED BY <3>1, <3>2
  <2>4. Over = DOMAIN rows
    <3>1. ASSUME NEW i \in DOMAIN rows PROVE \E k \in DOMAIN ByBucket : k < hybrid.bucket /\ rows[i].bucket = ByBucket[k]
      <4>1. PICK k \in DOMAIN ByBucket : ByBucket[k] = rows[i].bucket BY <2>3, BucketsOnce
      <4>2. k \in 1..Len(ByBucket) /\ Len(ByBucket) \in Nat /\ hybrid.bucket \in Nat BY BucketsOnce DEF BucketTypes
      <4>3. k < hybrid.bucket BY <4>2, <2>1
      <4> QED BY <4>1, <4>3
    <3> QED BY <3>1 DEF Over
  <2>5. /\ {r.query : r \in hybrid.records} = DOMAIN rows /\ {r.seq : r \in hybrid.records} = 1..hybrid.requested
        /\ \A r, s \in hybrid.records : r.query = s.query \/ r.seq = s.seq => r = s
        /\ \A r \in hybrid.records : r.bucket = rows[r.query].bucket
    BY <2>1, <2>4 DEF Recorded
  <2>6. Cardinality(hybrid.records) = Len(rows) /\ IsFiniteSet(hybrid.records)
    <3> DEFINE name == [r \in hybrid.records |-> r.query]
    <3>1. name \in Injection(hybrid.records, DOMAIN rows) /\ name \in Surjection(hybrid.records, DOMAIN rows)
      <4>1. name \in [hybrid.records -> DOMAIN rows] BY <2>5
      <4>2. \A r, s \in hybrid.records : name[r] = name[s] => r = s BY <2>5
      <4>3. \A i \in DOMAIN rows : \E r \in hybrid.records : name[r] = i BY <2>5
      <4> HIDE DEF name
      <4> QED BY <4>1, <4>2, <4>3 DEF Injection, Surjection, IsInjective
    <3>4. IsFiniteSet(hybrid.records) /\ Cardinality(hybrid.records) = Cardinality(DOMAIN rows)
      <4> HIDE DEF name
      <4> QED BY <2>2, <3>1, FS_Injection
    <3>5. Cardinality(1..Len(rows)) = Len(rows) BY <2>2, CountTo
    <3> QED BY <3>4, <3>5, <2>2
  <2>7. hybrid.requested = Len(rows)
    <3> DEFINE number == [r \in hybrid.records |-> r.seq]
    <3>0. hybrid.requested \in Nat BY DEF BucketTypes
    <3>1. number \in Bijection(hybrid.records, 1..hybrid.requested)
      <4>1. number \in [hybrid.records -> 1..hybrid.requested] BY <2>5
      <4>2. \A r, s \in hybrid.records : number[r] = number[s] => r = s BY <2>5
      <4>3. \A i \in 1..hybrid.requested : \E r \in hybrid.records : number[r] = i BY <2>5
      <4> HIDE DEF number
      <4> QED BY <4>1, <4>2, <4>3 DEF Bijection, Injection, Surjection, IsInjective
    <3>2. ExistsBijection(hybrid.records, 1..hybrid.requested) BY <3>1 DEF ExistsBijection
    <3>3. Cardinality(1..hybrid.requested) = Cardinality(hybrid.records) BY <2>6, <3>2, FS_Bijection
    <3>4. Cardinality(1..hybrid.requested) = hybrid.requested BY <3>0, CountTo
    <3> QED BY <3>3, <3>4, <2>6
  <2>8. Filtered
    <3>1. Len(ByBucket) \in Nat /\ DOMAIN ByBucket = 1..Len(ByBucket) /\ hybrid.bucket \in Nat BY BucketsOnce DEF BucketTypes
    <3>2. DOMAIN rows # {}
      <4>1. CASE Len(rows) = 0
        <5>1. rows = [i \in 1..Len(rows) |-> rows[i]] BY BucketsAssumption DEF BucketsIInv, BucketTypes
        <5>2. 1..Len(rows) = {} BY <4>1
        <5>3. rows = [i \in {} |-> rows[i]] BY <5>1, <5>2
        <5>4. <<>> = [i \in {} |-> rows[i]] OBVIOUS
        <5> QED BY <5>3, <5>4, <2>1
      <4> QED BY <4>1, <2>2
    <3>3. PICK i \in DOMAIN rows : TRUE BY <3>2
    <3>4. DOMAIN ByBucket # {} BY <3>3, <2>3, BucketsOnce
    <3>5. hybrid.bucket > 1 BY <3>1, <3>4, <2>1
    <3> QED BY <2>1, <3>5 DEF Evident
  <2>9. \A r \in hybrid.records : r.query \in DOMAIN rows BY <2>5
  <2> QED BY <2>2, <2>3, <2>5, <2>6, <2>7, <2>8, <2>9
<1>2. RecordsIdentify BY <1>1 DEF RecordsIdentify, Course
<1>3. FilteredEvidence BY <1>1 DEF FilteredEvidence, Filtered
<1> QED BY <1>2, <1>3

-----------------------------------------------------------------------------
\* The reference of the fusion.

\* Both lists name no row twice; the reference is their fusion, and an answer
\* is a page that was scored against it.
Listed ==
  /\ lists.bm25 \in Ranked(Rows, Window) /\ lists.knn \in Ranked(Rows, Window) /\ lists.top \in 1..Window

FusionIInv ==
  /\ Listed
  /\ reference # <<>> => reference = RrfFuse
  /\ answer # <<>> =>
       /\ reference = RrfFuse
       /\ \E page \in Ranked(Rows, lists.top) :
            answer = [page |-> page, scored |-> ScorePage(page, [i \in DOMAIN page |-> FusedScore(page[i])])]

\* No reference is built, and no page is scored.
LEMMA FusionStarts == FusionInit => FusionIInv
BY DEF FusionInit, FusionIInv, Listed

\* The reference is the fusion of the two lists of its query, and stays so.
LEMMA FusionKeeps == ASSUME FusionIInv, [BuildReference \/ Answer]_fusionVars PROVE FusionIInv'
<1>1. CASE BuildReference
  <2>1. reference' = RrfFuse /\ UNCHANGED <<lists, answer>> /\ reference = <<>> BY <1>1 DEF BuildReference
  <2>2. RrfFuse' = RrfFuse BY <2>1 DEF RrfFuse, ScoreIn, RankIn
  <2>3. Listed' BY <2>1 DEF FusionIInv, Listed
  <2>4. answer # <<>> => reference = RrfFuse BY DEF FusionIInv
  <2>5. answer = <<>>
    <3>1. RrfFuse # <<>>
      <4>1. "score" \in DOMAIN RrfFuse BY DEF RrfFuse
      <4>2. "score" \notin DOMAIN <<>> OBVIOUS
      <4> QED BY <4>1, <4>2
    <3> QED BY <3>1, <2>1, <2>4
  <2> QED BY <2>1, <2>2, <2>3, <2>5 DEF FusionIInv
<1>2. CASE Answer
  <2>1. PICK page \in Ranked(Rows, lists.top) :
          answer' = [page |-> page, scored |-> ScorePage(page, [i \in DOMAIN page |-> FusedScore(page[i])])]
    BY <1>2 DEF Answer
  <2>2. UNCHANGED <<lists, reference>> /\ reference # <<>> BY <1>2 DEF Answer
  <2>3. RrfFuse' = RrfFuse BY <2>2 DEF RrfFuse, ScoreIn, RankIn
  <2>4. Listed' BY <2>2 DEF FusionIInv, Listed
  <2>5. reference = RrfFuse BY <2>2 DEF FusionIInv
  <2>6. ScorePage(page, [i \in DOMAIN page |-> FusedScore(page[i])])' = ScorePage(page, [i \in DOMAIN page |-> FusedScore(page[i])])
    BY <2>2 DEF ScorePage, ScoreQuery, StrictHits, ReferenceTopIds, Above, Tied, TieSlots, Expected, Fused, FusedScore, CheckPageScores, CheckRrfScore, At
  <2> QED BY <2>1, <2>2, <2>3, <2>4, <2>5, <2>6 DEF FusionIInv
<1>3. CASE UNCHANGED fusionVars
  <2>1. UNCHANGED <<lists, reference, answer>> BY <1>3 DEF fusionVars
  <2>3. RrfFuse' = RrfFuse BY <2>1 DEF RrfFuse, ScoreIn, RankIn
  <2>4. Listed' BY <2>1 DEF FusionIInv, Listed
  <2>6. \A page : ScorePage(page, [i \in DOMAIN page |-> FusedScore(page[i])])' = ScorePage(page, [i \in DOMAIN page |-> FusedScore(page[i])])
    BY <2>1 DEF ScorePage, ScoreQuery, StrictHits, ReferenceTopIds, Above, Tied, TieSlots, Expected, Fused, FusedScore, CheckPageScores, CheckRrfScore, At
  <2> QED BY <2>1, <2>3, <2>4, <2>6 DEF FusionIInv
<1> QED BY <1>1, <1>2, <1>3

-----------------------------------------------------------------------------
\* A rank of a list gives a score on the lattice.
LEMMA AtIsNat == ASSUME NEW r \in 1..Window PROVE At(r) \in Nat
<1>1. Scale \in Nat /\ r \in Nat /\ RankConstant + r \in Nat \ {0} BY FusionAssumption
<1> QED BY <1>1 DEF At

\* What one list adds to a score.
LEMMA ListScore ==
  ASSUME NEW list \in Ranked(Rows, Window), NEW id
  PROVE  ScoreIn(list, id) = 0 \/ \E r \in 1..Window : ScoreIn(list, id) = At(r)
<1>1. PICK m \in 0..Window : list \in [1..m -> Rows] BY DEF Ranked
<1>2. m \in Nat /\ m <= Window /\ Window \in Nat BY FusionAssumption
<1>3. CASE Contains(list, id)
  <2>1. \E r \in DOMAIN list : list[r] = id BY <1>1, <1>2, <1>3 DEF Contains
  <2>2. RankIn(list, id) \in DOMAIN list BY <2>1 DEF RankIn
  <2>3. RankIn(list, id) \in 1..Window BY <2>2, <1>1, <1>2
  <2> QED BY <2>3, <1>3 DEF ScoreIn
<1>4. CASE ~Contains(list, id) BY <1>4 DEF ScoreIn
<1> QED BY <1>3, <1>4

\* A fused score is a natural number: every reciprocal is a whole part of Scale.
LEMMA ScoresOnLattice ==
  ASSUME Listed, reference = RrfFuse, NEW id \in Rows
  PROVE  FusedScore(id) \in Nat /\ (FusedScore(id) > 0 => CheckRrfScore(FusedScore(id)))
<1> DEFINE x == ScoreIn(lists.bm25, id)  y == ScoreIn(lists.knn, id)
<1>1. FusedScore(id) = x + y BY DEF FusedScore, RrfFuse
<1>2. x = 0 \/ \E r \in 1..Window : x = At(r) BY ListScore DEF Listed
<1>3. y = 0 \/ \E r \in 1..Window : y = At(r) BY ListScore DEF Listed
<1> HIDE DEF x, y
<1>4. x \in Nat /\ y \in Nat BY <1>2, <1>3, AtIsNat
<1>5. CASE x = 0
  <2>1. FusedScore(id) = y BY <1>1, <1>4, <1>5
  <2> QED BY <2>1, <1>3, <1>4 DEF CheckRrfScore
<1>6. CASE y = 0
  <2>1. FusedScore(id) = x BY <1>1, <1>4, <1>6
  <2> QED BY <2>1, <1>2, <1>4 DEF CheckRrfScore
<1>7. CASE x # 0 /\ y # 0
  <2>1. CheckRrfScore(x + y) BY <1>2, <1>3, <1>7 DEF CheckRrfScore
  <2> QED BY <2>1, <1>1, <1>4
<1> QED BY <1>5, <1>6, <1>7

Candidates == {id \in Rows : FusedScore(id) > 0}

\* The reference is its candidates by score.
LEMMA ReferenceSorted ==
  ASSUME Listed, reference = RrfFuse
  PROVE  LET n == Cardinality(Candidates)
         IN  /\ n \in Nat /\ IsFiniteSet(Candidates) /\ Fused \in [1..n -> Candidates] /\ Len(Fused) = n
             /\ \A i, j \in 1..n : i < j => Fused[i] # Fused[j] /\ FusedScore(Fused[i]) >= FusedScore(Fused[j])
             /\ \A x \in Candidates : \E i \in 1..n : Fused[i] = x
<1> DEFINE n == Cardinality(Candidates)
           Before(a, b) == FusedScore(a) > FusedScore(b) \/ (FusedScore(a) = FusedScore(b) /\ a < b)
           R == {p \in Rows \X Rows : Before(p[1], p[2])}
<1>1. IsFiniteSet(Candidates) /\ Candidates \subseteq Rows /\ Rows \subseteq Nat
  <2>1. Candidates \in SUBSET Rows BY DEF Candidates
  <2> QED BY <2>1, FusionAssumption, FS_Subset
<1>2. n \in Nat BY <1>1, FS_CardinalityType
<1>3. \A id \in Rows : FusedScore(id) \in Nat BY ScoresOnLattice
<1>4. \A a, b \in Candidates : <<a, b>> \in R <=> Before(a, b) BY <1>1
<1> HIDE DEF R
<1>5. Orders(R, Candidates)
  <2>1. ASSUME NEW x \in Candidates, NEW y \in Candidates, x # y PROVE (Before(x, y) /\ ~Before(y, x)) \/ (Before(y, x) /\ ~Before(x, y))
    <3>1. FusedScore(x) \in Nat /\ FusedScore(y) \in Nat /\ x \in Nat /\ y \in Nat BY <1>1, <1>3
    <3> QED BY <3>1, <2>1
  <2>2. ASSUME NEW x \in Candidates, NEW y \in Candidates, NEW z \in Candidates, Before(x, y), Before(y, z) PROVE Before(x, z)
    <3>1. FusedScore(x) \in Nat /\ FusedScore(y) \in Nat /\ FusedScore(z) \in Nat /\ x \in Nat /\ y \in Nat /\ z \in Nat BY <1>1, <1>3
    <3> QED BY <3>1, <2>2
  <2> HIDE DEF Before
  <2> QED BY <1>4, <2>1, <2>2 DEF Orders
<1>6. PICK s : Sorts(s, Candidates, R) BY <1>1, <1>5, CanBeSorted
<1>7. s \in [1..n -> Candidates] /\ \A i, j \in DOMAIN s : i < j => Before(s[i], s[j])
  <2>1. s \in [1..n -> Candidates] /\ DOMAIN s = 1..n BY <1>6 DEF Sorts
  <2> HIDE DEF Before
  <2> QED BY <2>1, <1>4, <1>6 DEF Sorts
<1>8. Fused = CHOOSE t \in [1..n -> Candidates] : \A i, j \in DOMAIN t : i < j => Before(t[i], t[j])
  <2>1. \A id \in Rows : FusedScore(id) = ScoreIn(lists.bm25, id) + ScoreIn(lists.knn, id) BY DEF FusedScore, RrfFuse
  <2> DEFINE score == [id \in Rows |-> ScoreIn(lists.bm25, id) + ScoreIn(lists.knn, id)]
  <2>2. reference.score = score BY DEF RrfFuse
  <2>3. reference.ids = CHOOSE t \in [1..Cardinality({id \in Rows : score[id] > 0}) -> {id \in Rows : score[id] > 0}] :
                          \A i, j \in DOMAIN t : i < j => score[t[i]] > score[t[j]] \/ (score[t[i]] = score[t[j]] /\ t[i] < t[j])
    BY DEF RrfFuse
  <2> HIDE DEF score
  <2> QED BY <2>2, <2>3 DEF Fused, FusedScore, Candidates
<1>9. Fused \in [1..n -> Candidates] /\ \A i, j \in DOMAIN Fused : i < j => Before(Fused[i], Fused[j])
  <2> HIDE DEF Before, n
  <2> QED BY <1>7, <1>8
<1>10. DOMAIN Fused = 1..n /\ Len(Fused) = n BY <1>2, <1>9
<1>11. ASSUME NEW i \in 1..n, NEW j \in 1..n, i < j
       PROVE  Fused[i] # Fused[j] /\ FusedScore(Fused[i]) >= FusedScore(Fused[j])
  <2>1. Fused[i] \in Candidates /\ Fused[j] \in Candidates /\ Before(Fused[i], Fused[j]) BY <1>9, <1>10, <1>11
  <2>2. Fused[i] \in Nat /\ Fused[j] \in Nat /\ FusedScore(Fused[i]) \in Nat /\ FusedScore(Fused[j]) \in Nat BY <2>1, <1>1, <1>3
  <2> QED BY <2>1, <2>2
<1>12. \A x \in Candidates : \E i \in 1..n : Fused[i] = x
  <2>1. \A i, j \in 1..n : i < j => Fused[i] # Fused[j] BY <1>11
  <2> QED BY <2>1, <1>1, <1>9, SortedHasAll
<1> QED BY <1>1, <1>2, <1>9, <1>10, <1>11, <1>12

-----------------------------------------------------------------------------
\* Recall against the best legal page.

\* A set of n members has a part of every size up to n.
LEMMA PartOfSize ==
  ASSUME NEW S, IsFiniteSet(S), NEW m \in 0..Cardinality(S)
  PROVE  \E W \in SUBSET S : IsFiniteSet(W) /\ Cardinality(W) = m
<1> DEFINE n == Cardinality(S)
<1>1. n \in Nat /\ ExistsBijection(1..n, S) BY FS_CardinalityType
<1>2. PICK f : f \in Bijection(1..n, S) BY <1>1 DEF ExistsBijection
<1>3. m \in Nat /\ m <= n BY <1>1
<1> DEFINE W == {f[i] : i \in 1..m}  g == [i \in 1..m |-> f[i]]
<1>4. f \in [1..n -> S] /\ \A i, j \in 1..n : f[i] = f[j] => i = j
  BY <1>2 DEF Bijection, Injection, Surjection, IsInjective
<1>5. 1..m \subseteq 1..n BY <1>1, <1>3
<1>6. g \in Injection(1..m, W) /\ g \in Surjection(1..m, W)
  <2> HIDE DEF n
  <2>1. g \in [1..m -> W] OBVIOUS
  <2>2. \A i, j \in 1..m : g[i] = g[j] => i = j BY <1>4, <1>5
  <2>3. \A w \in W : \E i \in 1..m : g[i] = w OBVIOUS
  <2> HIDE DEF g, W
  <2> QED BY <2>1, <2>2, <2>3 DEF Injection, Surjection, IsInjective
<1>7. IsFiniteSet(1..m) /\ Cardinality(1..m) = m BY <1>3, CountTo
<1>8. IsFiniteSet(W) /\ Cardinality(W) = m
  <2> HIDE DEF g, W
  <2>1. IsFiniteSet(W) /\ Cardinality(W) <= Cardinality(1..m) /\ (Cardinality(W) = Cardinality(1..m) <=> g \in Injection(1..m, W))
    BY <1>6, <1>7, FS_Surjection
  <2> QED BY <2>1, <1>6, <1>7
<1>9. W \in SUBSET S BY <1>4, <1>5
<1> QED BY <1>8, <1>9

\* Two sets that share nothing have as many members together as apart.
LEMMA PartsAdd ==
  ASSUME NEW A, NEW B, IsFiniteSet(A), IsFiniteSet(B), A \cap B = {}
  PROVE  /\ IsFiniteSet(A \cup B) /\ Cardinality(A \cup B) = Cardinality(A) + Cardinality(B)
         /\ Cardinality(A) \in Nat /\ Cardinality(B) \in Nat
<1>1. Cardinality(A) \in Nat /\ Cardinality(B) \in Nat BY FS_CardinalityType
<1>2. Cardinality(A \cap B) = 0 BY FS_EmptySet
<1>3. IsFiniteSet(A \cup B) /\ Cardinality(A \cup B) = Cardinality(A) + Cardinality(B) - Cardinality(A \cap B) BY FS_Union
<1> QED BY <1>1, <1>2, <1>3

\* A part is no larger than the whole.
LEMMA PartSmaller ==
  ASSUME NEW A, NEW B, IsFiniteSet(B), A \subseteq B
  PROVE  /\ IsFiniteSet(A) /\ Cardinality(A) \in Nat /\ Cardinality(B) \in Nat /\ Cardinality(A) <= Cardinality(B)
         /\ A # B => Cardinality(A) < Cardinality(B)
<1>1. A \in SUBSET B OBVIOUS
<1>2. IsFiniteSet(A) /\ Cardinality(A) <= Cardinality(B) /\ (Cardinality(B) = Cardinality(A) => B = A) BY <1>1, FS_Subset
<1>3. Cardinality(A) \in Nat /\ Cardinality(B) \in Nat BY <1>2, FS_CardinalityType
<1> QED BY <1>2, <1>3

\* k of the tied ones that meet a page as often as k ones can.
Meeting(S, G, k) ==
  \E W \in SUBSET S :
     /\ IsFiniteSet(W) /\ Cardinality(W) = k
     /\ Cardinality(G \cap W) = IF Cardinality(G \cap S) < k THEN Cardinality(G \cap S) ELSE k
\* Such a part exists.
LEMMA BestTied ==
  ASSUME NEW S, IsFiniteSet(S), NEW G, NEW k, k \in 0..Cardinality(S)
  PROVE  Meeting(S, G, k)
<1> USE DEF Meeting
<1> DEFINE H == G \cap S  D == S \ G
<1>1. H \subseteq S /\ D \subseteq S /\ H \cap D = {} /\ S = H \cup D OBVIOUS
<1>2. IsFiniteSet(H) /\ IsFiniteSet(D) BY <1>1, PartSmaller
<1>3. Cardinality(S) = Cardinality(H) + Cardinality(D) /\ Cardinality(H) \in Nat /\ Cardinality(D) \in Nat
  <2> HIDE DEF H, D
  <2> QED BY <1>1, <1>2, PartsAdd
<1>4. k \in Nat /\ k <= Cardinality(S) BY <1>3
<1>5. CASE Cardinality(H) < k
  <2>1. k - Cardinality(H) \in 0..Cardinality(D) BY <1>3, <1>4, <1>5
  <2>2. PICK V \in SUBSET D : IsFiniteSet(V) /\ Cardinality(V) = k - Cardinality(H)
    <3> HIDE DEF D, H
    <3> QED BY <2>1, <1>2, PartOfSize
  <2>3. H \cap V = {} /\ H \cup V \in SUBSET S /\ G \cap (H \cup V) = H BY <2>2
  <2>4. IsFiniteSet(H \cup V) /\ Cardinality(H \cup V) = k
    <3> HIDE DEF D, H
    <3>1. Cardinality(H \cup V) = Cardinality(H) + Cardinality(V) /\ IsFiniteSet(H \cup V) BY <1>2, <2>2, <2>3, PartsAdd
    <3> QED BY <3>1, <1>3, <1>4, <2>2
  <2> QED BY <2>3, <2>4, <1>5
<1>6. CASE ~(Cardinality(H) < k)
  <2>1. k \in 0..Cardinality(H) BY <1>3, <1>4, <1>6
  <2>2. PICK V \in SUBSET H : IsFiniteSet(V) /\ Cardinality(V) = k
    <3> HIDE DEF H
    <3> QED BY <2>1, <1>2, PartOfSize
  <2>3. V \in SUBSET S /\ G \cap V = V BY <2>2
  <2> QED BY <2>2, <2>3, <1>6
<1> QED BY <1>5, <1>6

\* What is above the cutoff, and what ties with it.
LEMMA Cutoff ==
  ASSUME Listed, reference = RrfFuse
  PROVE  /\ Expected \in Nat /\ Expected <= lists.top /\ IsFiniteSet(Candidates)
         /\ IsFiniteSet(Above) /\ IsFiniteSet(Tied) /\ Above \cap Tied = {} /\ Above \cup Tied \subseteq Candidates
         /\ \A x \in Above \cup Tied, y \in Candidates \ (Above \cup Tied) : FusedScore(x) > FusedScore(y)
         /\ \A x \in Above, y \in Tied : FusedScore(x) > FusedScore(y)
         /\ \A x, y \in Tied : FusedScore(x) = FusedScore(y)
         /\ ReferenceTopIds \subseteq Above \cup Tied /\ Above \subseteq ReferenceTopIds
         /\ IsFiniteSet(ReferenceTopIds) /\ Cardinality(ReferenceTopIds) = Expected
         /\ Expected = 0 => Candidates = {}
<1> DEFINE n == Cardinality(Candidates)  e == Expected
<1>1. /\ n \in Nat /\ IsFiniteSet(Candidates) /\ Fused \in [1..n -> Candidates] /\ Len(Fused) = n
      /\ \A i, j \in 1..n : i < j => Fused[i] # Fused[j] /\ FusedScore(Fused[i]) >= FusedScore(Fused[j])
      /\ \A x \in Candidates : \E i \in 1..n : Fused[i] = x
  BY ReferenceSorted
<1>2. lists.top \in Nat /\ lists.top >= 1 BY FusionAssumption DEF Listed
<1>3. e = (IF lists.top < n THEN lists.top ELSE n) BY <1>1 DEF Expected
<1>4. e \in Nat /\ n \in Nat /\ e <= lists.top /\ e <= n BY <1>1, <1>2, <1>3
<1>5. CASE e = 0
  <2>1. n = 0 BY <1>2, <1>3, <1>5
  <2>2. Candidates = {} BY <1>1, <2>1, FS_EmptySet
  <2>3. Above = {} /\ Tied = {} BY <1>5 DEF Above, Tied
  <2>4. ReferenceTopIds = {} BY <1>5 DEF ReferenceTopIds
  <2> QED BY <1>1, <1>4, <1>5, <2>2, <2>3, <2>4, FS_EmptySet
<1>6. CASE e # 0
  <2> HIDE DEF n, e
  <2>1. e > 0 /\ e \in 1..n BY <1>1, <1>4, <1>6
  <2> DEFINE c == FusedScore(Fused[e])
  <2>2. \A id \in Candidates : id \in Rows /\ FusedScore(id) \in Nat BY ScoresOnLattice DEF Candidates
  <2>3. \A id \in Rows : FusedScore(id) \in Nat BY ScoresOnLattice
  <2>4. Fused[e] \in Candidates /\ c \in Nat /\ c > 0
    <3>1. Fused[e] \in Candidates BY <1>1, <2>1
    <3> QED BY <3>1, <2>2 DEF Candidates
  <2>5. Above = {id \in Rows : FusedScore(id) > c} /\ Tied = {id \in Rows : FusedScore(id) = c}
    BY <2>1 DEF Above, Tied, e
  <2> HIDE DEF c
  <2>6. Above \cup Tied \subseteq Candidates
    <3>1. ASSUME NEW id \in Rows, FusedScore(id) > c \/ FusedScore(id) = c PROVE FusedScore(id) > 0
      BY <2>3, <2>4, <3>1
    <3> QED BY <3>1, <2>5 DEF Candidates
  <2>7. IsFiniteSet(Above) /\ IsFiniteSet(Tied)
    <3>1. Above \subseteq Candidates /\ Tied \subseteq Candidates BY <2>6
    <3> QED BY <3>1, <1>1, PartSmaller
  <2>8. Above \cap Tied = {}
    <3>1. \A id \in Rows : ~(FusedScore(id) > c /\ FusedScore(id) = c) BY <2>3, <2>4
    <3> QED BY <3>1, <2>5
  <2>9. ASSUME NEW x \in Above \cup Tied, NEW y \in Candidates \ (Above \cup Tied) PROVE FusedScore(x) > FusedScore(y)
    <3>1. FusedScore(x) > c \/ FusedScore(x) = c BY <2>5
    <3>2. ~(FusedScore(y) > c) /\ FusedScore(y) # c BY <2>2, <2>5
    <3>3. FusedScore(x) \in Nat /\ FusedScore(y) \in Nat BY <2>2, <2>6
    <3> QED BY <3>1, <3>2, <3>3, <2>4
  <2>10. \A x \in Above, y \in Tied : FusedScore(x) > FusedScore(y) BY <2>5
  <2>11. \A x, y \in Tied : FusedScore(x) = FusedScore(y) BY <2>5
  <2>12. \A i \in 1..e : i \in 1..n /\ i \in Nat BY <1>4, <2>1
  <2>13. ReferenceTopIds \subseteq Above \cup Tied
    <3> SUFFICES ASSUME NEW i \in 1..e PROVE Fused[i] \in Above \cup Tied
      BY DEF ReferenceTopIds, e
    <3>1. Fused[i] \in Candidates /\ FusedScore(Fused[i]) \in Nat /\ Fused[i] \in Rows BY <1>1, <2>2, <2>12
    <3>2. FusedScore(Fused[i]) >= c
      <4>1. CASE i = e BY <4>1, <2>4 DEF c
      <4>2. CASE i # e
        <5>1. i < e BY <4>2, <1>4
        <5> QED BY <5>1, <1>1, <2>1, <2>12 DEF c
      <4> QED BY <4>1, <4>2
    <3>3. FusedScore(Fused[i]) > c \/ FusedScore(Fused[i]) = c BY <3>1, <3>2, <2>4
    <3> QED BY <3>1, <3>3, <2>5
  <2>14. Above \subseteq ReferenceTopIds
    <3> SUFFICES ASSUME NEW x \in Above PROVE \E i \in 1..e : Fused[i] = x
      BY DEF ReferenceTopIds, e
    <3>1. PICK i \in 1..n : Fused[i] = x BY <1>1, <2>6
    <3>2. FusedScore(Fused[i]) > c /\ FusedScore(Fused[i]) \in Nat BY <3>1, <2>2, <2>5, <2>6
    <3>3. i <= e
      <4>1. SUFFICES ASSUME e < i PROVE FALSE BY <3>1, <1>1, <1>4
      <4>2. c >= FusedScore(Fused[i]) BY <4>1, <1>1, <2>1, <3>1 DEF c
      <4> QED BY <4>2, <3>2, <2>4
    <3> QED BY <3>1, <3>3, <1>1, <1>4
  <2>15. IsFiniteSet(ReferenceTopIds) /\ Cardinality(ReferenceTopIds) = e
    <3> DEFINE f == [i \in 1..e |-> Fused[i]]
    <3>1. ReferenceTopIds = {Fused[i] : i \in 1..e} BY DEF ReferenceTopIds, e
    <3>2. f \in Injection(1..e, ReferenceTopIds) /\ f \in Surjection(1..e, ReferenceTopIds)
      <4>1. f \in [1..e -> ReferenceTopIds] /\ \A w \in ReferenceTopIds : \E i \in 1..e : f[i] = w BY <3>1
      <4>2. ASSUME NEW i \in 1..e, NEW j \in 1..e, f[i] = f[j] PROVE i = j
        <5>1. ~(i < j) /\ ~(j < i) BY <4>2, <1>1, <2>12
        <5> QED BY <5>1, <2>12
      <4> HIDE DEF f
      <4> QED BY <4>1, <4>2 DEF Injection, Surjection, IsInjective
    <3>3. IsFiniteSet(1..e) /\ Cardinality(1..e) = e BY <1>4, CountTo
    <3> HIDE DEF f
    <3>4. /\ IsFiniteSet(ReferenceTopIds)
          /\ Cardinality(ReferenceTopIds) = Cardinality(1..e) <=> f \in Injection(1..e, ReferenceTopIds)
      BY <3>2, <3>3, FS_Surjection
    <3> QED BY <3>2, <3>3, <3>4
  <2> QED BY <1>1, <1>4, <1>6, <2>6, <2>7, <2>8, <2>9, <2>10, <2>11, <2>13, <2>14, <2>15 DEF e
<1> QED BY <1>5, <1>6

\* A legal page has all above the cutoff and fills up with tied ones.
LEMMA LegalIsCut ==
  ASSUME Listed, reference = RrfFuse, NEW T
  PROVE  T \in LegalTops <=> /\ Above \subseteq T /\ T \subseteq Above \cup Tied
                             /\ Cardinality(T) = Expected
<1>1. /\ Expected \in Nat /\ IsFiniteSet(Candidates)
      /\ IsFiniteSet(Above) /\ IsFiniteSet(Tied) /\ Above \cap Tied = {} /\ Above \cup Tied \subseteq Candidates
      /\ \A x \in Above \cup Tied, y \in Candidates \ (Above \cup Tied) : FusedScore(x) > FusedScore(y)
      /\ \A x \in Above, y \in Tied : FusedScore(x) > FusedScore(y)
      /\ \A x, y \in Tied : FusedScore(x) = FusedScore(y)
      /\ ReferenceTopIds \subseteq Above \cup Tied /\ Above \subseteq ReferenceTopIds
      /\ IsFiniteSet(ReferenceTopIds) /\ Cardinality(ReferenceTopIds) = Expected
  BY Cutoff
<1>2. LegalTops = {U \in SUBSET Candidates : /\ Cardinality(U) = Expected
                                             /\ \A x \in U, y \in Candidates \ U : FusedScore(x) >= FusedScore(y)}
  BY DEF LegalTops, Candidates
<1>3. \A x \in Candidates : FusedScore(x) \in Nat BY ScoresOnLattice DEF Candidates
<1>4. ASSUME T \in LegalTops PROVE Above \subseteq T /\ T \subseteq Above \cup Tied
  <2>1. /\ T \subseteq Candidates /\ Cardinality(T) = Expected
        /\ \A x \in T, y \in Candidates \ T : FusedScore(x) >= FusedScore(y)
    BY <1>2, <1>4
  <2>2. ASSUME NEW x \in Above, x \notin T PROVE FALSE
    <3>1. x \in Candidates \ T BY <1>1, <2>2
    <3>2. T \subseteq Above
      <4> SUFFICES ASSUME NEW z \in T, z \notin Above PROVE FALSE OBVIOUS
      <4>1. FusedScore(z) >= FusedScore(x) /\ z \in Candidates BY <2>1, <3>1
      <4>2. FusedScore(x) > FusedScore(z)
        <5>1. CASE z \in Tied BY <5>1, <2>2, <1>1
        <5>2. CASE z \notin Tied BY <5>2, <4>1, <2>2, <1>1
        <5> QED BY <5>1, <5>2
      <4> QED BY <4>1, <4>2, <3>1, <1>3
    <3>3. T \subseteq ReferenceTopIds /\ T # ReferenceTopIds BY <3>2, <2>2, <1>1
    <3>4. Cardinality(T) < Cardinality(ReferenceTopIds) BY <3>3, <1>1, PartSmaller
    <3> QED BY <3>4, <2>1, <1>1
  <2>3. ASSUME NEW x \in T, x \notin Above \cup Tied PROVE FALSE
    <3>1. x \in Candidates \ (Above \cup Tied) BY <2>1, <2>3
    <3>2. ReferenceTopIds \subseteq T
      <4> SUFFICES ASSUME NEW z \in ReferenceTopIds, z \notin T PROVE FALSE OBVIOUS
      <4>1. z \in Above \cup Tied /\ z \in Candidates \ T BY <1>1
      <4>2. FusedScore(z) > FusedScore(x) BY <4>1, <3>1, <1>1
      <4>3. FusedScore(x) >= FusedScore(z) BY <4>1, <2>1, <2>3
      <4> QED BY <4>2, <4>3, <4>1, <3>1, <1>3
    <3>3. ReferenceTopIds # T BY <2>3, <1>1
    <3>4. IsFiniteSet(T) BY <2>1, <1>1, PartSmaller
    <3>5. Cardinality(ReferenceTopIds) < Cardinality(T) BY <3>2, <3>3, <3>4, PartSmaller
    <3> QED BY <3>5, <2>1, <1>1
  <2> QED BY <2>2, <2>3
<1>5. ASSUME Above \subseteq T, T \subseteq Above \cup Tied, Cardinality(T) = Expected PROVE T \in LegalTops
  <2>1. T \in SUBSET Candidates BY <1>1, <1>5
  <2>2. ASSUME NEW x \in T, NEW y \in Candidates \ T PROVE FusedScore(x) >= FusedScore(y)
    <3>1. FusedScore(x) \in Nat /\ FusedScore(y) \in Nat BY <1>3, <2>1
    <3>2. CASE y \notin Tied
      <4>1. y \in Candidates \ (Above \cup Tied) /\ x \in Above \cup Tied BY <3>2, <2>2, <1>5
      <4>2. FusedScore(x) > FusedScore(y) BY <4>1, <1>1
      <4> QED BY <4>2, <3>1
    <3>3. CASE y \in Tied
      <4>1. FusedScore(x) > FusedScore(y) \/ FusedScore(x) = FusedScore(y) BY <3>3, <2>2, <1>1, <1>5
      <4> QED BY <4>1, <3>1
    <3> QED BY <3>2, <3>3
  <2> QED BY <1>2, <1>5, <2>1, <2>2
<1>6. T \in LegalTops => Cardinality(T) = Expected BY <1>2
<1> QED BY <1>4, <1>5, <1>6

\* No legal page meets a page more often than its score, and one does as often.
LEMMA ScoreIsBest ==
  ASSUME Listed, reference = RrfFuse, NEW page
  PROVE  /\ ScoreQuery(page) \in 0..lists.top
         /\ \E T \in LegalTops : Cardinality(ToSet(page) \cap T) = ScoreQuery(page)
         /\ \A T \in LegalTops : Cardinality(ToSet(page) \cap T) <= ScoreQuery(page)
         /\ ToSet(page) \in LegalTops => ScoreQuery(page) = Expected
<1> DEFINE G == ToSet(page)  e == Expected  k == TieSlots
           a == Cardinality(G \cap Above)  t == Cardinality(G \cap Tied)
<1>1. /\ e \in Nat /\ e <= lists.top /\ IsFiniteSet(Candidates)
      /\ IsFiniteSet(Above) /\ IsFiniteSet(Tied) /\ Above \cap Tied = {} /\ Above \cup Tied \subseteq Candidates
      /\ ReferenceTopIds \subseteq Above \cup Tied /\ Above \subseteq ReferenceTopIds
      /\ IsFiniteSet(ReferenceTopIds) /\ Cardinality(ReferenceTopIds) = e
  BY Cutoff
<1>2. lists.top \in Nat BY FusionAssumption DEF Listed
<1>3. Cardinality(Above) \in Nat /\ Cardinality(Above) <= e BY <1>1, PartSmaller
<1>4. Cardinality(Tied) \in Nat /\ e <= Cardinality(Above) + Cardinality(Tied)
  <2>1. IsFiniteSet(Above \cup Tied) /\ Cardinality(Above \cup Tied) = Cardinality(Above) + Cardinality(Tied)
        /\ Cardinality(Tied) \in Nat
    BY <1>1, PartsAdd
  <2>2. Cardinality(ReferenceTopIds) <= Cardinality(Above \cup Tied) BY <1>1, <2>1, PartSmaller
  <2> QED BY <1>1, <2>1, <2>2
<1>5. k = e - Cardinality(Above) /\ k \in 0..Cardinality(Tied)
  <2>1. k = e - Cardinality(Above) BY DEF TieSlots
  <2> QED BY <2>1, <1>1, <1>3, <1>4
<1>6. /\ IsFiniteSet(G \cap Above) /\ IsFiniteSet(G \cap Tied) /\ a \in Nat /\ t \in Nat
      /\ a <= Cardinality(Above)
  <2>1. G \cap Above \subseteq Above /\ G \cap Tied \subseteq Tied OBVIOUS
  <2> HIDE DEF G
  <2> QED BY <2>1, <1>1, PartSmaller
<1>7. ScoreQuery(page) = a + (IF t < k THEN t ELSE k) BY DEF ScoreQuery
<1> HIDE DEF G, e, k
<1>8. ScoreQuery(page) \in 0..lists.top
  <2> HIDE DEF a, t
  <2>1. k \in Nat /\ a + k <= e BY <1>1, <1>3, <1>5, <1>6
  <2> QED BY <2>1, <1>1, <1>2, <1>6, <1>7
<1>9. ASSUME NEW T \in LegalTops
      PROVE  /\ Cardinality(G \cap T) = a + Cardinality(G \cap (T \cap Tied))
             /\ Cardinality(G \cap (T \cap Tied)) \in Nat /\ Cardinality(T \cap Tied) = k /\ IsFiniteSet(T \cap Tied)
  <2>1. Above \subseteq T /\ T \subseteq Above \cup Tied /\ Cardinality(T) = e BY <1>9, LegalIsCut DEF e
  <2>2. IsFiniteSet(T \cap Tied)
    <3>1. T \cap Tied \subseteq Tied OBVIOUS
    <3> QED BY <3>1, <1>1, PartSmaller
  <2>3. T = Above \cup (T \cap Tied) /\ Above \cap (T \cap Tied) = {} BY <2>1, <1>1
  <2>4. Cardinality(T) = Cardinality(Above) + Cardinality(T \cap Tied) /\ Cardinality(T \cap Tied) \in Nat
    BY <2>2, <2>3, <1>1, PartsAdd
  <2>5. Cardinality(T \cap Tied) = k
    <3> DEFINE above == Cardinality(Above)  taken == Cardinality(T \cap Tied)
    <3>1. e = above + taken /\ above \in Nat /\ taken \in Nat BY <2>1, <2>4, <1>3
    <3>2. k = e - above BY <1>5
    <3> HIDE DEF above, taken
    <3>3. taken = k BY <3>1, <3>2
    <3> QED BY <3>3 DEF taken
  <2>6. IsFiniteSet(G \cap (T \cap Tied))
    <3>1. G \cap (T \cap Tied) \subseteq T \cap Tied OBVIOUS
    <3> QED BY <3>1, <2>2, PartSmaller
  <2>7. G \cap T = (G \cap Above) \cup (G \cap (T \cap Tied)) /\ (G \cap Above) \cap (G \cap (T \cap Tied)) = {} BY <2>3
  <2>8. Cardinality(G \cap T) = a + Cardinality(G \cap (T \cap Tied)) /\ Cardinality(G \cap (T \cap Tied)) \in Nat
    BY <2>6, <2>7, <1>6, PartsAdd
  <2> QED BY <2>2, <2>5, <2>8
<1>10. ASSUME NEW T \in LegalTops PROVE Cardinality(G \cap T) <= ScoreQuery(page)
  <2> DEFINE u == Cardinality(G \cap (T \cap Tied))
  <2>1. Cardinality(G \cap T) = a + u /\ u \in Nat /\ Cardinality(T \cap Tied) = k /\ IsFiniteSet(T \cap Tied) BY <1>9
  <2>2. u <= k
    <3>1. G \cap (T \cap Tied) \subseteq T \cap Tied OBVIOUS
    <3>2. u <= Cardinality(T \cap Tied) BY <3>1, <2>1, PartSmaller
    <3> QED BY <3>2, <2>1
  <2>3. u <= t
    <3>1. G \cap (T \cap Tied) \subseteq G \cap Tied OBVIOUS
    <3> QED BY <3>1, <1>6, PartSmaller
  <2> HIDE DEF u, a, t
  <2> QED BY <2>1, <2>2, <2>3, <1>5, <1>6, <1>7
<1>11. \E T \in LegalTops : Cardinality(G \cap T) = ScoreQuery(page)
  <2>1. \E W \in SUBSET Tied :
          /\ IsFiniteSet(W) /\ Cardinality(W) = k
          /\ Cardinality(G \cap W) = IF Cardinality(G \cap Tied) < k THEN Cardinality(G \cap Tied) ELSE k
    <3> HIDE DEF a, t
    <3>1. IsFiniteSet(Tied) /\ k \in 0..Cardinality(Tied) BY <1>1, <1>5
    <3>2. Meeting(Tied, G, k) BY <3>1, BestTied
    <3> QED BY <3>2, Zenon DEF Meeting
  <2>9. PICK W \in SUBSET Tied :
          /\ IsFiniteSet(W) /\ Cardinality(W) = k
          /\ Cardinality(G \cap W) = IF t < k THEN t ELSE k
    BY <2>1, Zenon
  <2>2. Above \cap W = {} BY <1>1
  <2>3. Cardinality(Above \cup W) = Cardinality(Above) + Cardinality(W) BY <1>1, <2>9, <2>2, PartsAdd
  <2>4. Cardinality(Above \cup W) = e BY <2>9, <2>3, <1>1, <1>3, <1>5
  <2>5. Above \cup W \in LegalTops
    <3>1. Above \subseteq Above \cup W /\ Above \cup W \subseteq Above \cup Tied OBVIOUS
    <3> QED BY <2>4, <3>1, LegalIsCut DEF e
  <2>6. (Above \cup W) \cap Tied = W BY <1>1
  <2>7. Cardinality(G \cap (Above \cup W)) = a + Cardinality(G \cap W) BY <1>9, <2>5, <2>6
  <2>8. Cardinality(G \cap (Above \cup W)) = ScoreQuery(page) BY <2>9, <2>7, <1>7
  <2> QED BY <2>5, <2>8
<1>12. ASSUME G \in LegalTops PROVE ScoreQuery(page) = e
  <2>1. Above \subseteq G /\ G \subseteq Above \cup Tied /\ Cardinality(G) = e BY <1>12, LegalIsCut DEF e
  <2>2. G \cap G = G OBVIOUS
  <2>3. e <= ScoreQuery(page) BY <1>10, <1>12, <2>1, <2>2
  <2>4. ScoreQuery(page) <= e
    <3> HIDE DEF a, t
    <3> QED BY <1>1, <1>3, <1>5, <1>6, <1>7
  <2>5. ScoreQuery(page) \in Nat BY <1>2, <1>8
  <2> QED BY <2>3, <2>4, <2>5, <1>1
<1> QED BY <1>8, <1>10, <1>11, <1>12 DEF G, e

\* The recall of a page is its overlap with the legal page nearest to it.
LEMMA RecallIsBest == FusionIInv => RecallIsBestOverlap
<1> SUFFICES ASSUME FusionIInv, answer # <<>>
             PROVE  /\ \A s \in answer.scored : s.hits = BestOverlap(answer.page) /\ s.strict <= s.hits
                    /\ ToSet(answer.page) \in LegalTops /\ (\A i \in 1..(Len(answer.page) - 1) :
                          FusedScore(answer.page[i]) >= FusedScore(answer.page[i + 1])) =>
                            \E s \in answer.scored : s.hits = Expected
  BY DEF RecallIsBestOverlap
<1>1. Listed /\ reference = RrfFuse BY DEF FusionIInv
<1>2. PICK page \in Ranked(Rows, lists.top) :
        answer = [page |-> page, scored |-> ScorePage(page, [i \in DOMAIN page |-> FusedScore(page[i])])]
  BY DEF FusionIInv
<1> DEFINE scores == [i \in DOMAIN page |-> FusedScore(page[i])]
<1>3. answer.page = page /\ answer.scored = ScorePage(page, scores) BY <1>2
<1> HIDE DEF scores
<1>4. /\ ScoreQuery(page) \in 0..lists.top
      /\ \E T \in LegalTops : Cardinality(ToSet(page) \cap T) = ScoreQuery(page)
      /\ \A T \in LegalTops : Cardinality(ToSet(page) \cap T) <= ScoreQuery(page)
      /\ ToSet(page) \in LegalTops => ScoreQuery(page) = Expected
  BY <1>1, ScoreIsBest
<1>5. lists.top \in Nat BY FusionAssumption, <1>1 DEF Listed
<1>6. BestOverlap(page) = ScoreQuery(page)
  <2> DEFINE Best(n) == /\ \E T \in LegalTops : Cardinality(ToSet(page) \cap T) = n
                        /\ \A T \in LegalTops : Cardinality(ToSet(page) \cap T) <= n
  <2>1. Best(ScoreQuery(page)) BY <1>4
  <2>2. ASSUME NEW n \in 0..lists.top, Best(n) PROVE n = ScoreQuery(page)
    <3>1. n <= ScoreQuery(page) BY <2>2, <1>4
    <3>2. ScoreQuery(page) <= n BY <2>2, <1>4
    <3> QED BY <3>1, <3>2, <1>4, <1>5
  <2>3. BestOverlap(page) = CHOOSE n \in 0..lists.top : Best(n) BY DEF BestOverlap
  <2> HIDE DEF Best
  <2> QED BY <2>1, <2>2, <2>3, <1>4
<1>7. StrictHits(page) <= ScoreQuery(page)
  <2>1. ReferenceTopIds \in LegalTops
    <3>1. /\ Above \subseteq ReferenceTopIds /\ ReferenceTopIds \subseteq Above \cup Tied
          /\ Cardinality(ReferenceTopIds) = Expected
      BY <1>1, Cutoff
    <3> QED BY <3>1, <1>1, LegalIsCut
  <2> QED BY <2>1, <1>4 DEF StrictHits
<1>8. ScorePage(page, scores) \subseteq {[hits |-> ScoreQuery(page), strict |-> StrictHits(page)]} BY DEF ScorePage
<1>9. \A s \in answer.scored : s.hits = BestOverlap(answer.page) /\ s.strict <= s.hits
  BY <1>3, <1>6, <1>7, <1>8
<1>10. ASSUME ToSet(page) \in LegalTops, \A i \in 1..(Len(page) - 1) : FusedScore(page[i]) >= FusedScore(page[i + 1])
       PROVE  \E s \in answer.scored : s.hits = Expected
  <2>1. PICK m \in 0..lists.top : page \in [1..m -> Rows] /\ IsInjective(page) BY DEF Ranked
  <2>2. m \in Nat /\ m <= lists.top /\ Len(page) = m /\ DOMAIN page = 1..m BY <2>1, <1>5
  <2>3. DOMAIN scores = 1..m /\ Len(scores) = m
    <3>1. scores = [i \in 1..m |-> FusedScore(page[i])] BY <2>2 DEF scores
    <3> QED BY <3>1, <2>2
  <2>4. CheckPageScores(scores)
    <3>1. ASSUME NEW i \in 1..m PROVE CheckRrfScore(scores[i])
      <4>1. page[i] \in ToSet(page) BY <2>2 DEF ToSet
      <4>2. page[i] \in Rows /\ FusedScore(page[i]) > 0 BY <4>1, <1>10 DEF LegalTops
      <4>3. scores[i] = FusedScore(page[i]) BY <2>2 DEF scores
      <4> QED BY <4>2, <4>3, <1>1, ScoresOnLattice
    <3>2. ASSUME NEW i \in 1..(m - 1) PROVE scores[i] >= scores[i + 1]
      <4>1. i \in 1..m /\ i + 1 \in 1..m BY <2>2
      <4>2. scores[i] = FusedScore(page[i]) /\ scores[i + 1] = FusedScore(page[i + 1]) BY <4>1, <2>2 DEF scores
      <4> QED BY <4>2, <2>2, <1>10
    <3> QED BY <3>1, <3>2, <2>3 DEF CheckPageScores
  <2>5. ScorePage(page, scores) = {[hits |-> ScoreQuery(page), strict |-> StrictHits(page)]}
    <3>1. ~(Len(page) > lists.top) BY <2>2, <1>5
    <3> QED BY <3>1, <2>1, <2>4 DEF ScorePage
  <2> QED BY <2>5, <1>3, <1>4, <1>10
<1> QED BY <1>3, <1>9, <1>10

-----------------------------------------------------------------------------
\* The workloads side by side, as the run has them.

\* The one that moves keeps its invariant, the others have shown nothing.
SideBySide ==
  /\ \/ workload = "fusion" /\ FusionIInv
     \/ workload # "fusion" /\ FusionOff
  /\ \/ workload = "buckets" /\ BucketsIInv
     \/ workload # "buckets" /\ BucketsOff
  /\ \/ workload = "layout" /\ LayoutIInv
     \/ workload # "layout" /\ LayoutOff

\* A step of one leaves the others where they are.
LEMMA SideBySideStep == ASSUME SideBySide, [MCNext]_mcVars PROVE SideBySide'
<1>1. /\ FusionOff /\ UNCHANGED fusionVars => FusionOff'
      /\ BucketsOff /\ UNCHANGED bucketVars => BucketsOff'
      /\ LayoutOff /\ UNCHANGED layoutVars => LayoutOff'
  BY DEF FusionOff, fusionVars, BucketsOff, bucketVars, LayoutOff, layoutVars
<1>2. CASE AllBut("fulltext") /\ TextNext
  <2>1. workload = "fulltext" /\ workload' = "fulltext" /\ UNCHANGED fusionVars /\ UNCHANGED bucketVars /\ UNCHANGED layoutVars
    BY <1>2 DEF AllBut
  <2> QED BY <1>1, <2>1 DEF SideBySide
<1>3. CASE AllBut("fusion") /\ (BuildReference \/ Answer)
  <2>1. workload = "fusion" /\ workload' = "fusion" /\ UNCHANGED bucketVars /\ UNCHANGED layoutVars
    BY <1>3 DEF AllBut
  <2>2. FusionIInv' BY <1>3, <2>1, FusionKeeps DEF SideBySide
  <2> QED BY <1>1, <2>1, <2>2 DEF SideBySide
<1>4. CASE AllBut("rrf") /\ RrfNext
  <2>1. workload = "rrf" /\ workload' = "rrf" /\ UNCHANGED fusionVars /\ UNCHANGED bucketVars /\ UNCHANGED layoutVars
    BY <1>4 DEF AllBut
  <2> QED BY <1>1, <2>1 DEF SideBySide
<1>5. CASE AllBut("buckets") /\ BucketsNext
  <2>1. workload = "buckets" /\ workload' = "buckets" /\ UNCHANGED fusionVars /\ UNCHANGED layoutVars
    BY <1>5 DEF AllBut
  <2>2. BucketsIInv' BY <1>5, <2>1, BucketsKeep DEF SideBySide
  <2> QED BY <1>1, <2>1, <2>2 DEF SideBySide
<1>6. CASE AllBut("layout") /\ LayoutNext
  <2>1. workload = "layout" /\ workload' = "layout" /\ UNCHANGED fusionVars /\ UNCHANGED bucketVars
    BY <1>6 DEF AllBut
  <2>2. LayoutIInv' BY <1>6, <2>1, LayoutKeeps DEF SideBySide
  <2> QED BY <1>1, <2>1, <2>2 DEF SideBySide
<1>7. CASE UNCHANGED mcVars
  <2>1. workload' = workload /\ UNCHANGED fusionVars /\ UNCHANGED bucketVars /\ UNCHANGED layoutVars BY <1>7 DEF mcVars
  <2>2. FusionIInv => FusionIInv' BY <2>1, FusionKeeps
  <2>3. BucketsIInv => BucketsIInv' BY <2>1, BucketsKeep
  <2>4. LayoutIInv => LayoutIInv' BY <2>1, LayoutKeeps
  <2> QED BY <1>1, <2>1, <2>2, <2>3, <2>4 DEF SideBySide
<1> QED BY <1>2, <1>3, <1>4, <1>5, <1>6, <1>7 DEF MCNext

\* The invariant of the run that explores them side by side.
THEOREM SideBySideInvariance == MCSpec => []SideBySide
<1>1. MCInit => SideBySide
  BY FusionStarts, BucketsStart, LayoutStarts DEF MCInit, SideBySide
<1> QED BY <1>1, SideBySideStep, PTL DEF MCSpec

\* For every query file, policy and server, and every other client of the server: the
\* records of a published hybrid run are all its queries, once, under the buckets their
\* selectivity puts them in; the run was filtered as it says, or only another client's
\* filtered requests hide that it was not; no other search ran a pass's queries; and
\* the layout a result names is that of the index it was measured on.
THEOREM LabelsAreEarned == MCSpec => []LabelsTrue
<1>1. SideBySide => LabelsTrue
  <2> SUFFICES ASSUME SideBySide PROVE LabelsTrue OBVIOUS
  <2>1. RecordsIdentify /\ FilteredEvidence
    <3>1. CASE BucketsIInv BY <3>1, BucketsAsLabelled
    <3>2. CASE BucketsOff BY <3>2 DEF BucketsOff, NoRunYet, RecordsIdentify, FilteredEvidence
    <3> QED BY <3>1, <3>2 DEF SideBySide
  <2>2. LabelledAsBuilt
    <3>1. CASE LayoutIInv BY <3>1 DEF LayoutIInv
    <3>2. CASE LayoutOff BY <3>2 DEF LayoutOff, LabelledAsBuilt
    <3> QED BY <3>1, <3>2 DEF SideBySide
  <2> QED BY <2>1, <2>2 DEF LabelsTrue
<1> QED BY <1>1, SideBySideInvariance, PTL

\* For every corpus, window and pair of ranked lists: the recall of a hybrid-rrf page is
\* its overlap with the legal page nearest to it, whatever ties the cutoff splits.
THEOREM RecallIsBestOfLegal == MCSpec => []RecallIsBestOverlap
<1>1. SideBySide => RecallIsBestOverlap
  <2>1. FusionOff => RecallIsBestOverlap BY DEF FusionOff, RecallIsBestOverlap
  <2> QED BY <2>1, RecallIsBest DEF SideBySide
<1> QED BY <1>1, SideBySideInvariance, PTL

=============================================================================
