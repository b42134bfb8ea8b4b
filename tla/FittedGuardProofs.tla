------------------------- MODULE FittedGuardProofs --------------------------
(***************************************************************************)
(* The guard with the computed fit is a guard, and the window of samples   *)
(* behind its fit is the window of stamps behind its locks.                *)
(***************************************************************************)
EXTENDS FittedGuard, GuardSafetyProofs, AffineEstimatorProofs

-----------------------------------------------------------------------------
(* The computed verdicts are verdicts *)

\* Every step with a computed verdict is a step of the guard.
LEMMA FitStep == [FitNext]_fitVars => [Next]_vars
<1>1. ASSUME NEW r \in Routes, NEW stream \in Stream, NEW raw \in RawStamps,
             NEW wallError \in WallErrors, FitObserve(r, stream, raw, wallError)
      PROVE  Next
  <2> DEFINE g == FailedGates(r, [raw |-> raw, session |-> SessionNow(auth, now)])
  <2>1. Observe(r, stream, raw, g, wallError)
    BY <1>1 DEF FitObserve
  <2>2. g \in Violations
    BY FitAssumption DEF FailedGates
  <2> HIDE DEF g
  <2> QED
    BY <2>1, <2>2 DEF Next
<1> QED
  BY <1>1 DEF FitNext, fitVars, vars, Next

\* What is proved of the guard for any verdicts of the gates holds of the
\* guard that computes them: FitSpec implements Spec.
THEOREM FittedGuardIsGuard == FitSpec => Spec
BY FitStep, PTL DEF FitSpec, FitInit, Spec

\* The routes of the fitted guard rest their locks on evidence.
THEOREM FittedLocksRestOnEvidence == FitSpec => []LockRestsOnEvidence
BY FittedGuardIsGuard, LocksRestOnEvidence, PTL

\* The fitted guard implements the admission gate.
THEOREM FittedGuardImplementsGate == FitSpec => ImplementsGate
BY FittedGuardIsGuard, GuardImplementsGate, PTL

-----------------------------------------------------------------------------
(* The window of samples *)

Stamps(window) == [i \in DOMAIN window |-> window[i].raw]

Estimate == [raw : Nat, offset : Int, mapped : Nat, received : Nat]

FitType == /\ samples \in [Routes -> Seq(Sample)]
           /\ estimate \in [Routes -> Estimate]

WindowIsBounded == \A r \in Routes : Len(samples[r]) <= EstimatorWindow

\* A fitted route's mapped stamp is its source stamp plus its offset, give or
\* take the rounding of the two.
RoundingIsBounded ==
  \A r \in Routes : samples[r] # << >> =>
    estimate[r].mapped - estimate[r].raw - estimate[r].offset \in {0, 1}

\* The inductive invariant: a mapped stamp is timely because the window it is
\* read off has no stamp twice and no more samples than it may, and it follows
\* the source because the last one agreed with its offset.
FitInv == /\ FitType /\ WindowIsSampled /\ WindowIsBounded
          /\ RoundingIsBounded /\ MappedIsTimely

\* The candidate keeps the stamps distinct, and its stamps are the mapper's
\* own candidate.
LEMMA CandidateMatches ==
  ASSUME NEW m \in Mapper, NEW o \in Observation,
         NEW window \in Seq(Sample), NEW sample \in Sample,
         m.window = Stamps(window), Distinct(window), o.raw = sample.raw
  PROVE  LET next == CandidateSamples(window, sample)
         IN  /\ next \in Seq(Sample)
             /\ Candidate(m, o) = Stamps(next)
             /\ Distinct(next)
<1> DEFINE fitted == \E i \in DOMAIN window : window[i].raw = sample.raw
           longer == IF fitted THEN window ELSE Append(window, sample)
           longerStamps == IF fitted THEN m.window ELSE Append(m.window, o.raw)
           Cut(w) == IF Len(w) > EstimatorWindow THEN Tail(w) ELSE w
<1>1. CandidateSamples(window, sample) = Cut(longer)
  BY DEF CandidateSamples
<1>2. /\ DOMAIN m.window = DOMAIN window
      /\ \A i \in DOMAIN window : m.window[i] = window[i].raw
  BY DEF Stamps
<1>3. Candidate(m, o) = Cut(longerStamps)
  BY <1>2 DEF Candidate
<1>4. /\ longer \in Seq(Sample) /\ longerStamps \in Seq(Nat)
      /\ Len(longerStamps) = Len(longer)
      /\ \A i \in 1..Len(longer) : longerStamps[i] = longer[i].raw
      /\ \A i, j \in 1..Len(longer) : longer[i].raw = longer[j].raw => i = j
  <2>1. /\ m.window \in Seq(Nat) /\ Len(m.window) = Len(window)
        /\ Len(window) \in Nat /\ DOMAIN window = 1..Len(window)
        /\ o.raw \in Nat
    BY <1>2 DEF Mapper, Observation
  <2>2. CASE fitted
    BY <1>2, <2>1, <2>2 DEF Distinct
  <2>3. CASE ~fitted
    <3>1. longer = Append(window, sample) /\ longerStamps = Append(m.window, o.raw)
      BY <2>3
    <3>2. \A i \in 1..Len(window) : window[i].raw # sample.raw
      BY <2>1, <2>3
    <3> HIDE DEF longer, longerStamps, fitted
    <3>3. /\ longer \in Seq(Sample) /\ longerStamps \in Seq(Nat)
          /\ Len(longer) = Len(window) + 1 /\ Len(longerStamps) = Len(window) + 1
      BY <2>1, <3>1
    <3>4. \A i \in 1..Len(longer) :
            /\ longer[i] = IF i <= Len(window) THEN window[i] ELSE sample
            /\ longerStamps[i] = IF i <= Len(window) THEN m.window[i] ELSE o.raw
      BY <2>1, <3>1, <3>3
    <3>5. \A i \in 1..Len(longer) : i <= Len(window) \/ i = Len(window) + 1
      BY <2>1, <3>3
    <3>6. \A i \in 1..Len(longer) : longerStamps[i] = longer[i].raw
      <4> SUFFICES ASSUME NEW i \in 1..Len(longer)
                   PROVE  longerStamps[i] = longer[i].raw
        OBVIOUS
      <4>1. CASE i <= Len(window)
        <5>1. i \in 1..Len(window)
          BY <2>1, <3>3, <4>1
        <5> QED
          BY <1>2, <2>1, <3>4, <4>1, <5>1
      <4>2. CASE ~(i <= Len(window))
        BY <3>4, <4>2
      <4> QED
        BY <4>1, <4>2
    <3>7. \A i, j \in 1..Len(longer) : longer[i].raw = longer[j].raw => i = j
      <4> SUFFICES ASSUME NEW i \in 1..Len(longer), NEW j \in 1..Len(longer),
                          longer[i].raw = longer[j].raw
                   PROVE  i = j
        OBVIOUS
      <4>1. i \in 1..Len(window) \/ i = Len(window) + 1
        BY <2>1, <3>3
      <4>2. j \in 1..Len(window) \/ j = Len(window) + 1
        BY <2>1, <3>3
      <4>3. CASE i \in 1..Len(window) /\ j \in 1..Len(window)
        <5>1. longer[i] = window[i] /\ longer[j] = window[j]
          BY <2>1, <3>4, <4>3
        <5> QED
          BY <2>1, <4>3, <5>1 DEF Distinct
      <4>4. CASE i \in 1..Len(window) /\ j = Len(window) + 1
        <5>1. longer[i] = window[i] /\ longer[j] = sample
          BY <2>1, <3>4, <4>4
        <5> QED
          BY <3>2, <4>4, <5>1
      <4>5. CASE j \in 1..Len(window) /\ i = Len(window) + 1
        <5>1. longer[j] = window[j] /\ longer[i] = sample
          BY <2>1, <3>4, <4>5
        <5> QED
          BY <3>2, <4>5, <5>1
      <4> QED
        BY <4>1, <4>2, <4>3, <4>4, <4>5
    <3> QED
      BY <3>3, <3>6, <3>7
  <2> QED
    BY <2>2, <2>3
<1> HIDE DEF longer, longerStamps, fitted
<1>5. CASE Len(longer) > EstimatorWindow
  <2>1. Cut(longer) = Tail(longer) /\ Cut(longerStamps) = Tail(longerStamps)
    BY <1>4, <1>5
  <2>2. longer # << >> /\ longerStamps # << >> /\ Len(longer) \in Nat
    BY <1>4, <1>5, ThresholdAssumption
  <2>3. /\ Tail(longer) \in Seq(Sample) /\ Tail(longerStamps) \in Seq(Nat)
        /\ Len(Tail(longer)) = Len(longer) - 1
        /\ Len(Tail(longerStamps)) = Len(longer) - 1
        /\ \A i \in 1..Len(longer) - 1 :
             /\ Tail(longer)[i] = longer[i + 1]
             /\ Tail(longerStamps)[i] = longerStamps[i + 1]
             /\ i + 1 \in 1..Len(longer)
    BY <1>4, <2>2
  <2>4. Distinct(Tail(longer))
    BY <1>4, <2>2, <2>3 DEF Distinct
  <2>5. Tail(longerStamps) = Stamps(Tail(longer))
    <3> DEFINE n == Len(longer) - 1
               u == Tail(longerStamps)
               v == Tail(longer)
    <3>1. n \in Nat /\ u \in Seq(Nat) /\ v \in Seq(Sample) /\ Len(u) = n /\ Len(v) = n
      BY <2>2, <2>3
    <3>2. \A i \in 1..n : u[i] = v[i].raw
      BY <1>4, <2>3
    <3> HIDE DEF n, u, v
    <3>3. u = [i \in 1..n |-> u[i]] /\ DOMAIN v = 1..n
      BY <3>1
    <3>4. u = Stamps(v)
      BY <3>2, <3>3 DEF Stamps
    <3> QED
      BY <3>4 DEF u, v
  <2> QED
    BY <1>1, <1>3, <2>1, <2>3, <2>4, <2>5
<1>6. CASE ~(Len(longer) > EstimatorWindow)
  <2>1. Cut(longer) = longer /\ Cut(longerStamps) = longerStamps
    BY <1>4, <1>6
  <2>2. Distinct(longer) /\ longerStamps = Stamps(longer)
    BY <1>4 DEF Distinct, Stamps
  <2> QED
    BY <1>1, <1>3, <1>4, <2>1, <2>2
<1> QED
  BY <1>5, <1>6

\* What a sample does to the stamps: nothing, or it becomes the newest of its
\* stream and joins the window of its route.
Untouched(q) == /\ mappers'[q].window = mappers[q].window
                /\ mappers'[q].raw = mappers[q].raw

Joins(r, stream, raw, violates) ==
  \E o \in Observation :
    /\ o.stream = stream /\ o.raw = raw /\ o.violates = violates
    /\ Accepts(mappers[r], o)
    /\ mappers'[r].raw[stream] # mappers[r].raw[stream]
    /\ mappers'[r].window = Candidate(mappers[r], o)

LEMMA FailedRoute ==
  ASSUME NEW m \in Mapper, NEW immediate \in BOOLEAN
  PROVE  /\ RecordFailure(m, immediate).window = m.window
         /\ RecordFailure(m, immediate).raw = m.raw
BY RecordFailureFacts

LEMMA FailedRoutes ==
  ASSUME TypeOK, NEW a, NEW immediate \in BOOLEAN, AuthorityFails(a, immediate),
         NEW q \in Routes
  PROVE  Untouched(q)
<1>1. mappers[q] \in Mapper
  BY DEF TypeOK
<1>2. mappers'[q] = RecordFailure(mappers[q], immediate)
  BY DEF AuthorityFails, FailRoutes
<1> QED
  BY <1>1, <1>2, FailedRoute DEF Untouched

LEMMA ObserveWindow ==
  ASSUME BaseInv, ForwardInv, NEW r \in Routes, NEW stream \in Stream,
         NEW raw \in RawStamps, NEW violates \in Violations,
         NEW wallError \in WallErrors,
         Observe(r, stream, raw, violates, wallError), NEW q \in Routes
  PROVE  Untouched(q) \/ (q = r /\ Joins(r, stream, raw, violates))
<1> DEFINE checked == CheckAuthority(auth, now, wallError)
           verdict == AuthorityVerdict(checked, now)
           skewed == GazeboRequired /\ Domain[r] = "simulation"
           a == IF skewed
                THEN [checked EXCEPT !.skew = raw - checked.gazeboStamp]
                ELSE checked
           o == [stream |-> stream, domain |-> Domain[r], raw |-> raw,
                 mono |-> now, session |-> SessionNow(a, now),
                 violates |-> violates]
<1>0. /\ TypeOK /\ mappers \in [Routes -> Mapper] /\ mappers[q] \in Mapper
      /\ mappers[r] \in Mapper
  BY DEF BaseInv, TypeOK
<1>1. \/ AuthorityFails(checked, verdict = "hard")
      \/ UNCHANGED mappers
      \/ mappers' = [mappers EXCEPT ![r] = RecordFailure(@, FALSE)]
      \/ Deliver(a, r, o)
  BY DEF Observe
<1>2. CASE AuthorityFails(checked, verdict = "hard")
  <2>1. (verdict = "hard") \in BOOLEAN
    OBVIOUS
  <2> QED
    BY <1>0, <1>2, <2>1, FailedRoutes
<1>3. CASE UNCHANGED mappers
  BY <1>3 DEF Untouched
<1>4. CASE mappers' = [mappers EXCEPT ![r] = RecordFailure(@, FALSE)]
  BY <1>0, <1>4, FailedRoute DEF Untouched
<1>5. CASE Deliver(a, r, o)
  <2>1. o \in Observation
    <3>1. a \in Authority
      <4>1. auth \in Authority /\ now \in Nat /\ wallError \in Int /\ raw \in Int
        BY <1>0, ThresholdAssumption, BoundAssumption DEF TypeOK
      <4>2. checked \in Authority
        BY <4>1, CheckType
      <4> HIDE DEF checked
      <4>3. raw - checked.gazeboStamp \in Int
        BY <4>1, <4>2 DEF Authority
      <4> QED
        BY <4>2, <4>3 DEF Authority
    <3> HIDE DEF a
    <3> QED
      BY <1>0, <3>1, ObservationType
  <2>2. o.stream = stream /\ o.raw = raw /\ o.violates = violates
    OBVIOUS
  <2>3. mappers' = [mappers EXCEPT ![r] = ObserveMapper(@, o)]
    BY <1>5 DEF Deliver
  <2> HIDE DEF o
  <2>4. CASE q # r
    BY <1>0, <2>3, <2>4 DEF Untouched
  <2>5. CASE q = r
    <3> DEFINE m == mappers[r]
    <3>1. mappers'[r] = ObserveMapper(m, o)
      BY <1>0, <2>3
    <3>2. CASE ObserveMapper(m, o) = m
      BY <2>5, <3>1, <3>2 DEF Untouched
    <3>3. CASE \E immediate \in BOOLEAN : ObserveMapper(m, o) = RecordFailure(m, immediate)
      BY <1>0, <2>5, <3>1, <3>3, FailedRoute DEF Untouched
    <3>4. CASE Accepts(m, o) /\ ObserveMapper(m, o) = Accept(m, o)
      <4>1. ~m.seen[o.stream] => m.raw[o.stream] = 0
        BY <2>2 DEF ForwardInv
      <4>2. /\ mappers'[r].window = Candidate(m, o)
            /\ mappers'[r].raw = [m.raw EXCEPT ![o.stream] = o.raw]
        BY <3>1, <3>4, FitAssumption DEF Accept
      <4>3. m \in Mapper /\ m.raw \in [Stream -> Nat] /\ o.raw \in Nat
        BY <1>0, <2>1 DEF Mapper, Observation
      <4> HIDE DEF m
      <4>4. o.raw > m.raw[o.stream]
        BY <2>1, <3>4, <4>1, <4>3, AcceptMovesForward
      <4>5. mappers'[r].raw[stream] # m.raw[stream]
        <5>1. mappers'[r].raw[stream] = o.raw /\ m.raw[stream] \in Nat
          BY <2>2, <4>2, <4>3
        <5> QED
          BY <2>2, <4>3, <4>4, <5>1
      <4> QED
        BY <2>1, <2>2, <2>5, <3>4, <4>2, <4>5 DEF Joins, m
    <3> QED
      BY <1>0, <2>1, <3>2, <3>3, <3>4, ObserveCases
  <2> QED
    BY <2>4, <2>5
<1> QED
  BY <1>1, <1>2, <1>3, <1>4, <1>5

\* The other steps leave every window alone.
LEMMA OtherWindows ==
  ASSUME BaseInv, NEW q \in Routes,
         \/ Tick
         \/ \E stamp \in GazeboStamps, wallError \in WallErrors :
              ObserveGazeboClock(stamp, wallError)
         \/ PollTimer
         \/ FailEpochFence
  PROVE  Untouched(q)
<1>0. TypeOK /\ mappers[q] \in Mapper /\ now \in Nat
  BY ThresholdAssumption, BoundAssumption DEF BaseInv, TypeOK
<1>1. CASE UNCHANGED mappers
  BY <1>1 DEF Untouched
<1>2. CASE \E a, immediate \in BOOLEAN : AuthorityFails(a, immediate)
  BY <1>0, <1>2, FailedRoutes
<1>3. CASE mappers' = [r \in Routes |-> PollMapper(mappers[r], now)]
  <2>1. mappers'[q] = PollMapper(mappers[q], now)
    BY <1>3
  <2> QED
    BY <1>0, <2>1, PollCases, FailedRoute DEF Untouched
<1>4. CASE Tick
  BY <1>1, <1>4 DEF Tick
<1>5. CASE \E stamp \in GazeboStamps, wallError \in WallErrors :
             ObserveGazeboClock(stamp, wallError)
  <2>1. \/ UNCHANGED mappers
        \/ \E a : AuthorityFails(a, TRUE)
        \/ \E a : AuthorityFails(a, FALSE)
    BY <1>5 DEF ObserveGazeboClock
  <2> QED
    BY <1>0, <1>1, <2>1, FailedRoutes
<1>6. CASE PollTimer
  <2> PICK wallError \in WallErrors : Poll(wallError)
    BY <1>6 DEF PollTimer
  <2> DEFINE checked == CheckAuthority(auth, now, wallError)
             hard == AuthorityVerdict(checked, now) = "hard"
  <2>1. \/ AuthorityFails(checked, hard)
        \/ UNCHANGED mappers
        \/ mappers' = [r \in Routes |-> PollMapper(mappers[r], now)]
    BY DEF Poll
  <2>2. hard \in BOOLEAN
    OBVIOUS
  <2> HIDE DEF checked, hard
  <2> QED
    BY <1>0, <1>1, <1>3, <2>1, <2>2, FailedRoutes
<1>7. CASE FailEpochFence
  BY <1>0, <1>7, FailedRoutes DEF FailEpochFence
<1> QED
  BY <1>4, <1>5, <1>6, <1>7

\* A candidate of a bounded window is bounded, no shorter, and either the same
\* window or one that ends with the sample.
LEMMA CandidateShape ==
  ASSUME NEW window \in Seq(Sample), NEW sample \in Sample,
         Len(window) <= EstimatorWindow
  PROVE  LET next == CandidateSamples(window, sample)
         IN  /\ next # << >> /\ Len(next) <= EstimatorWindow
             /\ Len(next) >= Len(window)
             /\ \/ next = window
                \/ /\ Len(next) \in DOMAIN next
                   /\ next[Len(next)] = sample
<1> DEFINE fitted == \E i \in DOMAIN window : window[i].raw = sample.raw
           longer == Append(window, sample)
           next == CandidateSamples(window, sample)
<1>0. /\ EstimatorWindow \in Nat /\ EstimatorWindow >= 2 /\ Len(window) \in Nat
      /\ EstimatorWindow >= Len(window)
  BY ThresholdAssumption, FitAssumption
<1>1. CASE fitted
  <2>1. next = window
    BY <1>0, <1>1 DEF CandidateSamples
  <2>2. window # << >>
    BY <1>1
  <2> QED
    BY <1>0, <2>1, <2>2
<1>2. CASE ~fitted
  <2>1. next = IF Len(longer) > EstimatorWindow THEN Tail(longer) ELSE longer
    BY <1>2 DEF CandidateSamples
  <2>2. /\ longer \in Seq(Sample) /\ Len(longer) = Len(window) + 1
        /\ longer[Len(window) + 1] = sample
    BY <1>0
  <2> HIDE DEF longer, next
  <2>3. CASE Len(longer) > EstimatorWindow
    <3>1. next = Tail(longer) /\ Len(window) >= 2
      BY <1>0, <2>1, <2>2, <2>3
    <3>2. /\ next \in Seq(Sample) /\ Len(next) = Len(window)
          /\ next[Len(window)] = longer[Len(window) + 1]
      BY <1>0, <2>2, <3>1
    <3>3. Len(next) \in DOMAIN next /\ next[Len(next)] = sample
      BY <1>0, <2>2, <3>1, <3>2
    <3> QED
      BY <1>0, <3>1, <3>2, <3>3 DEF next
  <2>4. CASE ~(Len(longer) > EstimatorWindow)
    <3>1. next = longer
      BY <2>1, <2>4
    <3>2. Len(next) \in DOMAIN next /\ next[Len(next)] = sample
      BY <1>0, <2>2, <3>1
    <3>3. next # << >> /\ Len(next) <= EstimatorWindow /\ Len(next) >= Len(window)
      BY <1>0, <2>2, <2>4, <3>1
    <3> QED
      BY <3>2, <3>3 DEF next
  <2> QED
    BY <2>3, <2>4
<1> QED
  BY <1>1, <1>2

\* A sample the mapper of a route takes, with the verdict computed for it, and
\* what is committed for it.
Fits(r, sample, o) ==
  /\ sample \in Sample /\ o \in Observation /\ o.raw = sample.raw
  /\ Accepts(mappers[r], o) /\ o.violates = FailedGates(r, sample)

NextFit(r, sample) ==
  EstimateAffine(CandidateSamples(samples[r], sample), sample.raw)

Commits(r, sample, o) ==
  /\ mappers'[r].window = Candidate(mappers[r], o)
  /\ samples'[r] = CandidateSamples(samples[r], sample)
  /\ estimate'[r] = [raw |-> sample.raw, offset |-> NextFit(r, sample).offset,
                     mapped |-> NextFit(r, sample).mapped,
                     received |-> sample.session]

Stays(r) == /\ mappers'[r].window = mappers[r].window
            /\ samples'[r] = samples[r] /\ estimate'[r] = estimate[r]

\* An accepted sample passed the gates in force.
LEMMA GatesPassed ==
  ASSUME NEW r \in Routes, NEW sample, NEW o, Fits(r, sample, o)
  PROVE  LET m == mappers[r]
             fit == NextFit(r, sample)
         IN  /\ fit.mapped # 0
             /\ Len(m.window) >= MinLockSamples => ~PredictionFails(samples[r], sample)
             /\ Len(Candidate(m, o)) >= MinLockSamples =>
                  /\ ~QualityFails(fit)
                  /\ samples[r] # << >> => ~OffsetStepFails(fit, estimate[r])
<1>1. FailedGates(r, sample) \cap EnforcedGates(mappers[r], o) = {}
  BY DEF Fits, Accepts, SoftViolation
<1>2. /\ "range" \in Gates /\ "prediction" \in Gates /\ "quality" \in Gates
      /\ Affine
  BY FitAssumption DEF Gates
<1>3. "range" \in EnforcedGates(mappers[r], o)
  BY <1>2 DEF EnforcedGates
<1>4. Len(mappers[r].window) >= MinLockSamples => "prediction" \in EnforcedGates(mappers[r], o)
  BY <1>2 DEF EnforcedGates
<1>5. Len(Candidate(mappers[r], o)) >= MinLockSamples => "quality" \in EnforcedGates(mappers[r], o)
  BY <1>2 DEF EnforcedGates
<1>6. /\ NextFit(r, sample).mapped = 0 => "range" \in FailedGates(r, sample)
      /\ PredictionFails(samples[r], sample) => "prediction" \in FailedGates(r, sample)
      /\ QualityFails(NextFit(r, sample)) => "quality" \in FailedGates(r, sample)
      /\ samples[r] # << >> /\ OffsetStepFails(NextFit(r, sample), estimate[r])
           => "quality" \in FailedGates(r, sample)
  BY <1>2 DEF FailedGates, NextFit
<1> QED
  BY <1>1, <1>3, <1>4, <1>5, <1>6

\* What a committed sample leaves behind in its route.
LEMMA CommitIsSound ==
  ASSUME BaseInv, FitInv, NEW r \in Routes, NEW sample, NEW o, Fits(r, sample, o)
  PROVE  LET next == CandidateSamples(samples[r], sample)
             fit == NextFit(r, sample)
         IN  /\ next \in Seq(Sample) /\ Distinct(next)
             /\ Candidate(mappers[r], o) = Stamps(next)
             /\ Len(next) <= EstimatorWindow
             /\ fit.offset \in Int /\ fit.mapped \in Nat
             /\ fit.mapped - sample.raw - fit.offset \in {0, 1}
             /\ Len(next) >= MinLockSamples =>
                  \/ Absolute(fit.mapped - sample.session) <= MaxSampleAge
                  \/ Absolute(fit.mapped - sample.session) <= MaxJitter
             /\ Len(samples[r]) >= MinLockSamples =>
                  Absolute(fit.offset - estimate[r].offset) <= MaxOffsetStep
<1> DEFINE m == mappers[r]
           window == samples[r]
           next == CandidateSamples(window, sample)
           fit == NextFit(r, sample)
<1>1. /\ sample \in Sample /\ o \in Observation /\ o.raw = sample.raw
      /\ sample.raw \in Nat /\ sample.session \in Nat
  BY DEF Fits, Sample
<1>2. /\ window \in Seq(Sample) /\ Distinct(window) /\ m.window = Stamps(window)
      /\ Len(window) <= EstimatorWindow /\ m \in Mapper /\ estimate[r].offset \in Int
  BY DEF FitInv, FitType, Estimate, WindowIsSampled, WindowIsBounded, Distinct, Stamps,
         BaseInv, TypeOK
<1>3. next \in Seq(Sample) /\ Candidate(m, o) = Stamps(next) /\ Distinct(next)
  <2> HIDE DEF m, window
  <2> QED
    BY <1>1, <1>2, CandidateMatches
<1>4. /\ next # << >> /\ Len(next) <= EstimatorWindow /\ Len(next) >= Len(window)
      /\ \/ next = window
         \/ Len(next) \in DOMAIN next /\ next[Len(next)] = sample
  <2> HIDE DEF window
  <2> QED
    BY <1>1, <1>2, CandidateShape
<1>5. /\ fit.mapped # 0
      /\ Len(m.window) >= MinLockSamples => ~PredictionFails(window, sample)
      /\ Len(Candidate(m, o)) >= MinLockSamples =>
           /\ ~QualityFails(fit)
           /\ window # << >> => ~OffsetStepFails(fit, estimate[r])
  BY GatesPassed
<1>6. Len(m.window) = Len(window) /\ Len(Candidate(m, o)) = Len(next)
  <2> HIDE DEF window, next
  <2>1. Len(Stamps(window)) = Len(window) /\ Len(Stamps(next)) = Len(next)
    BY <1>2, <1>3 DEF Stamps
  <2> QED
    BY <1>2, <1>3, <2>1
<1>7. fit = EstimateAffine(next, sample.raw)
  BY DEF NextFit
<1> HIDE DEF m, window, next, fit
<1>8. /\ fit.offset \in Int /\ fit.mapped \in Nat /\ fit.jitter \in Nat
      /\ fit.mapped - sample.raw - fit.offset \in {0, 1}
      /\ \A i \in DOMAIN next : next[i].raw = sample.raw =>
           Absolute(fit.mapped - next[i].session) <= fit.jitter
  BY <1>1, <1>3, <1>4, <1>5, <1>7, EstimateIsClose
<1>9. Len(next) \in Nat /\ Len(window) \in Nat /\ MinLockSamples \in Nat
      /\ MinLockSamples >= 2 /\ MaxSampleAge \in Nat /\ MaxJitter \in Nat
      /\ MaxOffsetStep \in Nat
  BY <1>2, <1>3, ThresholdAssumption, FitAssumption
<1>10. Len(next) >= MinLockSamples =>
         \/ Absolute(fit.mapped - sample.session) <= MaxSampleAge
         \/ Absolute(fit.mapped - sample.session) <= MaxJitter
  <2> SUFFICES ASSUME Len(next) >= MinLockSamples
               PROVE  \/ Absolute(fit.mapped - sample.session) <= MaxSampleAge
                      \/ Absolute(fit.mapped - sample.session) <= MaxJitter
    OBVIOUS
  <2>1. CASE next = window
    <3>1. ~(Absolute(sample.session - fit.mapped) > MaxSampleAge)
      BY <1>4, <1>5, <1>6, <1>7, <2>1 DEF PredictionFails
    <3> QED
      BY <1>1, <1>8, <1>9, <3>1 DEF Absolute
  <2>2. CASE Len(next) \in DOMAIN next /\ next[Len(next)] = sample
    <3>1. Absolute(fit.mapped - sample.session) <= fit.jitter
      BY <1>8, <2>2
    <3>2. ~(fit.jitter > MaxJitter)
      BY <1>5, <1>6 DEF QualityFails
    <3>3. Absolute(fit.mapped - sample.session) \in Int
      BY <1>1, <1>8 DEF Absolute
    <3> QED
      BY <1>8, <1>9, <3>1, <3>2, <3>3
  <2> QED
    BY <1>4, <2>1, <2>2
<1>11. Len(window) >= MinLockSamples =>
         Absolute(fit.offset - estimate[r].offset) <= MaxOffsetStep
  <2> SUFFICES ASSUME Len(window) >= MinLockSamples
               PROVE  Absolute(fit.offset - estimate[r].offset) <= MaxOffsetStep
    OBVIOUS
  <2>1. Len(next) >= MinLockSamples /\ window # << >>
    BY <1>4, <1>9
  <2>2. ~(Absolute(fit.offset - estimate[r].offset) > MaxOffsetStep)
    BY <1>5, <1>6, <2>1 DEF OffsetStepFails
  <2>3. Absolute(fit.offset - estimate[r].offset) \in Int
    BY <1>2, <1>8 DEF Absolute
  <2> QED
    BY <1>9, <2>2, <2>3
<1> QED
  BY <1>3, <1>4, <1>8, <1>10, <1>11 DEF m, window, next, fit

\* Every step leaves a route and its fit alone, or commits a sample to both.
LEMMA FitMoves ==
  ASSUME BaseInv, ForwardInv, FitInv, [FitNext]_fitVars
  PROVE  /\ samples' = [q \in Routes |-> samples'[q]]
         /\ estimate' = [q \in Routes |-> estimate'[q]]
         /\ \A q \in Routes :
              Stays(q) \/ \E sample, o : Fits(q, sample, o) /\ Commits(q, sample, o)
<1>0. /\ samples = [q \in Routes |-> samples[q]] /\ estimate = [q \in Routes |-> estimate[q]]
      /\ samples \in [Routes -> Seq(Sample)] /\ estimate \in [Routes -> Estimate]
  BY DEF FitInv, FitType
<1>2. CASE UNCHANGED <<samples, estimate>> /\ \A q \in Routes : Untouched(q)
  BY <1>0, <1>2 DEF Untouched, Stays
<1>3. CASE UNCHANGED fitVars
  BY <1>2, <1>3 DEF fitVars, Untouched
<1>4. ASSUME NEW r \in Routes, NEW stream \in Stream, NEW raw \in RawStamps,
             NEW wallError \in WallErrors, FitObserve(r, stream, raw, wallError)
      PROVE  /\ samples' = [q \in Routes |-> samples'[q]]
             /\ estimate' = [q \in Routes |-> estimate'[q]]
             /\ \A q \in Routes :
                  Stays(q) \/ \E sample, o : Fits(q, sample, o) /\ Commits(q, sample, o)
  <2> DEFINE sample == [raw |-> raw, session |-> SessionNow(auth, now)]
             g == FailedGates(r, sample)
  <2>1. Observe(r, stream, raw, g, wallError) /\ CommitFit(r, stream, sample)
    BY <1>4 DEF FitObserve
  <2>2. g \in Violations
    BY FitAssumption DEF FailedGates
  <2>3. sample \in Sample
    <3>1. SessionNow(auth, now) \in Nat /\ raw \in Nat
      BY ThresholdAssumption, BoundAssumption
         DEF BaseInv, TypeOK, SessionNow, Authority
    <3> QED
      BY <3>1 DEF Sample
  <2>4. sample.raw = raw
    OBVIOUS
  <2> HIDE DEF g, sample
  <2>5. \A q \in Routes : Untouched(q) \/ (q = r /\ Joins(r, stream, raw, g))
    BY <2>1, <2>2, ObserveWindow
  <2>6. CASE \A q \in Routes : Untouched(q)
    <3>1. UNCHANGED <<samples, estimate>>
      BY <2>1, <2>6 DEF CommitFit, Untouched
    <3> QED
      BY <1>2, <2>6, <3>1
  <2>7. CASE Joins(r, stream, raw, g)
    <3> PICK o \in Observation :
               /\ o.stream = stream /\ o.raw = raw /\ o.violates = g
               /\ Accepts(mappers[r], o)
               /\ mappers'[r].raw[stream] # mappers[r].raw[stream]
               /\ mappers'[r].window = Candidate(mappers[r], o)
      BY <2>7 DEF Joins
    <3> DEFINE next == CandidateSamples(samples[r], sample)
               fit == EstimateAffine(next, sample.raw)
               e == [raw |-> sample.raw, offset |-> fit.offset,
                     mapped |-> fit.mapped, received |-> sample.session]
    <3>1. /\ samples' = [samples EXCEPT ![r] = next]
          /\ estimate' = [estimate EXCEPT ![r] = e]
      BY <2>1 DEF CommitFit
    <3>2. Fits(r, sample, o)
      BY <2>3, <2>4 DEF Fits, g
    <3>3. Commits(r, sample, o)
      BY <1>0, <3>1 DEF Commits, NextFit
    <3> HIDE DEF next, e
    <3>4. \A q \in Routes : q # r => samples'[q] = samples[q] /\ estimate'[q] = estimate[q]
      BY <1>0, <3>1
    <3>5. /\ samples' = [q \in Routes |-> samples'[q]]
          /\ estimate' = [q \in Routes |-> estimate'[q]]
      BY <1>0, <3>1
    <3>6. ASSUME NEW q \in Routes
          PROVE  Stays(q) \/ \E x, y : Fits(q, x, y) /\ Commits(q, x, y)
      <4>1. CASE q = r
        BY <3>2, <3>3, <4>1
      <4>2. CASE q # r
        BY <2>5, <3>4, <4>2 DEF Untouched, Stays
      <4> QED
        BY <4>1, <4>2
    <3> QED
      BY <3>5, <3>6
  <2> QED
    BY <2>5, <2>6, <2>7
<1>5. CASE /\ \/ Tick
              \/ \E stamp \in GazeboStamps, wallError \in WallErrors :
                   ObserveGazeboClock(stamp, wallError)
              \/ PollTimer
              \/ FailEpochFence
           /\ UNCHANGED <<samples, estimate>>
  BY <1>2, <1>5, OtherWindows
<1> QED
  BY <1>3, <1>4, <1>5 DEF FitNext

\* Every step keeps the fits sound.
LEMMA FitInvStep ==
  ASSUME BaseInv, ForwardInv, FitInv, [FitNext]_fitVars
  PROVE  FitInv'
<1> DEFINE Sound(w, s, e) ==
             /\ s \in Seq(Sample) /\ e \in Estimate
             /\ w = Stamps(s) /\ Distinct(s) /\ Len(s) <= EstimatorWindow
             /\ s # << >> => e.mapped - e.raw - e.offset \in {0, 1}
             /\ Len(s) >= MinLockSamples =>
                  \/ Absolute(e.mapped - e.received) <= MaxSampleAge
                  \/ Absolute(e.mapped - e.received) <= MaxJitter
<1>1. \A q \in Routes : Sound(mappers[q].window, samples[q], estimate[q])
  BY DEF FitInv, FitType, WindowIsSampled, WindowIsBounded, RoundingIsBounded,
         MappedIsTimely, Complete, Stamps, Distinct
<1>2. ASSUME NEW q \in Routes
      PROVE  Sound(mappers'[q].window, samples'[q], estimate'[q])
  <2>1. CASE Stays(q)
    BY <1>1, <2>1 DEF Stays
  <2>2. CASE \E sample, o : Fits(q, sample, o) /\ Commits(q, sample, o)
    <3> PICK sample, o : Fits(q, sample, o) /\ Commits(q, sample, o)
      BY <2>2
    <3> DEFINE next == CandidateSamples(samples[q], sample)
               fit == NextFit(q, sample)
               e == [raw |-> sample.raw, offset |-> fit.offset,
                     mapped |-> fit.mapped, received |-> sample.session]
    <3>1. mappers'[q].window = Candidate(mappers[q], o) /\ samples'[q] = next
          /\ estimate'[q] = e
      BY DEF Commits
    <3>2. /\ next \in Seq(Sample) /\ Distinct(next)
          /\ Candidate(mappers[q], o) = Stamps(next)
          /\ Len(next) <= EstimatorWindow
          /\ fit.offset \in Int /\ fit.mapped \in Nat
          /\ fit.mapped - sample.raw - fit.offset \in {0, 1}
          /\ Len(next) >= MinLockSamples =>
               \/ Absolute(fit.mapped - sample.session) <= MaxSampleAge
               \/ Absolute(fit.mapped - sample.session) <= MaxJitter
      BY CommitIsSound
    <3>3. sample.raw \in Nat /\ sample.session \in Nat
      BY DEF Fits, Sample
    <3> HIDE DEF next, fit
    <3>4. e \in Estimate
      BY <3>2, <3>3 DEF Estimate
    <3>5. /\ e.raw = sample.raw /\ e.offset = fit.offset
          /\ e.mapped = fit.mapped /\ e.received = sample.session
      OBVIOUS
    <3> HIDE DEF e
    <3> QED
      BY <3>1, <3>2, <3>4, <3>5
  <2> QED
    BY <2>1, <2>2, FitMoves
<1> HIDE DEF Sound
<1>3. /\ samples' = [q \in Routes |-> samples'[q]]
      /\ estimate' = [q \in Routes |-> estimate'[q]]
  BY FitMoves
<1>4. /\ \A q \in Routes : samples'[q] \in Seq(Sample) /\ estimate'[q] \in Estimate
      /\ \A q \in Routes : mappers'[q].window = Stamps(samples'[q]) /\ Distinct(samples'[q])
      /\ WindowIsBounded' /\ RoundingIsBounded' /\ MappedIsTimely'
  BY <1>2 DEF Sound, WindowIsBounded, RoundingIsBounded, MappedIsTimely, Complete
<1>5. FitType'
  BY <1>3, <1>4 DEF FitType
<1>6. WindowIsSampled'
  BY <1>4 DEF WindowIsSampled, Stamps, Distinct
<1> QED
  BY <1>4, <1>5, <1>6 DEF FitInv

LEMMA FitInvariant == FitSpec => [](BaseInv /\ ForwardInv /\ FitInv)
<1>1. FitInit => FitInv
  <2> SUFFICES ASSUME FitInit PROVE FitInv
    OBVIOUS
  <2>1. FitType
    BY DEF FitInit, FitType, Estimate, NoEstimate
  <2>2. \A r \in Routes : samples[r] = << >> /\ mappers[r].window = << >>
    BY DEF FitInit, Init, InitialMapper
  <2> QED
    BY <2>1, <2>2, ThresholdAssumption
       DEF FitInv, WindowIsSampled, WindowIsBounded, RoundingIsBounded,
           MappedIsTimely, Complete
<1> QED
  BY <1>1, FitInvStep, FittedGuardIsGuard, ForwardInvariant, PTL DEF FitSpec

\* The samples behind the fit carry the stamps behind the locks, each once,
\* whichever streams bring them, whatever is refused in between and whatever
\* the window drops.
THEOREM WindowsAreSampled == FitSpec => []WindowIsSampled
<1>1. FitInv => WindowIsSampled
  BY DEF FitInv
<1> QED
  BY <1>1, FitInvariant, PTL

\* What a route with a complete window projects is within max_sample_age_ns or
\* max_jitter_ns of the Session time of receipt, for every policy.
THEOREM MappedStampsAreTimely == FitSpec => []MappedIsTimely
<1>1. FitInv => MappedIsTimely
  BY DEF FitInv
<1> QED
  BY <1>1, FitInvariant, PTL

\* Between two commits on complete windows the mapped stamp moves with the
\* source stamp, to within the offset step and a nanosecond.
THEOREM MappedStampsFollowSource == FitSpec => MappedFollowsSource
<1> DEFINE Follows ==
             \A r \in Routes :
               Complete(r) /\ estimate'[r] # estimate[r] =>
                 Absolute((estimate'[r].mapped - estimate[r].mapped)
                            - (estimate'[r].raw - estimate[r].raw))
                   <= MaxOffsetStep + 1
<1>1. ASSUME BaseInv, ForwardInv, FitInv, [FitNext]_fitVars
      PROVE  Follows
  <2> SUFFICES ASSUME NEW r \in Routes, Complete(r), estimate'[r] # estimate[r]
               PROVE  Absolute((estimate'[r].mapped - estimate[r].mapped)
                                 - (estimate'[r].raw - estimate[r].raw))
                        <= MaxOffsetStep + 1
    OBVIOUS
  <2>1. PICK sample, o : Fits(r, sample, o) /\ Commits(r, sample, o)
    BY <1>1, FitMoves DEF Stays
  <2> DEFINE fit == NextFit(r, sample)
             old == estimate[r]
             new == estimate'[r]
  <2>2. new.raw = sample.raw /\ new.mapped = fit.mapped
    BY <2>1 DEF Commits
  <2>3. /\ fit.offset \in Int /\ fit.mapped \in Nat
        /\ fit.mapped - sample.raw - fit.offset \in {0, 1}
        /\ Absolute(fit.offset - old.offset) <= MaxOffsetStep
    BY <1>1, <2>1, CommitIsSound DEF Complete
  <2>4. /\ old.raw \in Nat /\ old.offset \in Int /\ old.mapped \in Nat
        /\ sample.raw \in Nat /\ MaxOffsetStep \in Nat
    BY <1>1, <2>1, FitAssumption DEF FitInv, FitType, Estimate, Fits, Sample
  <2>5. old.mapped - old.raw - old.offset \in {0, 1}
    <3>1. samples[r] # << >>
      BY ThresholdAssumption DEF Complete
    <3> QED
      BY <1>1, <3>1 DEF FitInv, RoundingIsBounded
  <2> HIDE DEF fit, old, new
  <2>6. Absolute((new.mapped - old.mapped) - (new.raw - old.raw)) <= MaxOffsetStep + 1
    BY <2>2, <2>3, <2>4, <2>5 DEF Absolute
  <2> QED
    BY <2>6 DEF old, new
<1>2. MappedFollowsSource <=> [][Follows]_fitVars
  BY PTL DEF MappedFollowsSource
<1> QED
  BY <1>1, <1>2, FitInvariant, PTL DEF FitSpec

\* The line of every window a route commits is the least-squares line of its
\* samples, since the window never holds a stamp twice.
THEOREM FitsAreLeastSquares == FitSpec => []FitIsLeastSquares
<1>1. ASSUME FitInv
      PROVE  FitIsLeastSquares
  <2> SUFFICES ASSUME NEW r \in Routes, samples[r] # << >>
               PROVE  LET window == samples[r]
                          residual == [i \in DOMAIN window |->
                                         Residual(window, Line(window), i)]
                      IN  /\ Total(residual) = 0
                          /\ Total([i \in DOMAIN window |->
                                      window[i].raw * residual[i]]) = 0
    BY Zenon DEF FitIsLeastSquares
  <2> DEFINE window == samples[r]
  <2>1. window \in Seq(Sample) /\ Distinct(window) /\ window # << >>
    BY <1>1 DEF FitInv, FitType, WindowIsSampled, Distinct
  <2> HIDE DEF window
  <2>2. LET residual == [i \in DOMAIN window |-> Residual(window, Line(window), i)]
        IN  /\ Total(residual) = 0
            /\ Total([i \in DOMAIN window |-> window[i].raw * residual[i]]) = 0
    BY <2>1, LineIsLeastSquares
  <2> QED
    BY <2>2, Zenon DEF window
<1> QED
  BY <1>1, FitInvariant, PTL
=============================================================================
