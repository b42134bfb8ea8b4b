---------------------------- MODULE FittedGuard ----------------------------
(***************************************************************************)
(* The guard with the affine fit computed.  SessionClockGuard takes the    *)
(* verdict of the estimator's gates on a sample as an input; here the      *)
(* verdict follows from the samples the route has committed and from the   *)
(* Session time at which the new one arrives.                              *)
(***************************************************************************)
EXTENDS SessionClockGuard, AffineEstimator

CONSTANTS
  MaxOffsetStep,       \* threshold.max_offset_step_ns
  MaxDrift,            \* threshold.max_drift_ppm, in 1/DriftUnit
  DriftUnit,
  MaxJitter,           \* threshold.max_jitter_ns
  MaxUncertainty,      \* threshold.max_uncertainty_ns
  SourceUncertainty    \* source_uncertainty_ns of every route

ASSUME FitAssumption ==
  /\ Affine
  /\ MaxOffsetStep \in Nat \ {0} /\ MaxDrift \in Nat \ {0}
  /\ DriftUnit \in Nat \ {0} /\ MaxJitter \in Nat \ {0}
  /\ MaxUncertainty \in Nat /\ MaxJitter <= MaxUncertainty
  /\ SourceUncertainty \in 1..MaxUncertainty
  /\ Violations = SUBSET Gates

VARIABLES
  samples,    \* samples_ of every mapper
  estimate    \* the fit a mapper's status_ carries, the stamp it was read off
              \* at and the Session time that sample arrived

fitVars == <<now, auth, mappers, event, admitted, samples, estimate>>

NoEstimate == [raw |-> 0, offset |-> 0, mapped |-> 0, received |-> 0]

\* Mutant: a stamp the other stream has brought already is fitted again.
CandidateSamples_Refit(window, sample) ==
  LET longer == Append(window, sample)
  IN  IF Len(longer) > EstimatorWindow THEN Tail(longer) ELSE longer

\* The candidate of observe; Candidate is its sequence of stamps.
CandidateSamples(window, sample) ==
  LET fitted == \E i \in DOMAIN window : window[i].raw = sample.raw
      longer == IF fitted THEN window ELSE Append(window, sample)
  IN  IF Len(longer) > EstimatorWindow THEN Tail(longer) ELSE longer

\* Mutant: the age of a sample is not predicted from the committed fit.
PredictionFails_Never(window, sample) == FALSE

PredictionFails(window, sample) ==
  /\ window # << >>
  /\ Absolute(sample.session - EstimateAffine(window, sample.raw).mapped)
       > MaxSampleAge

\* Mutant: the offset may step anywhere.
OffsetStepFails_Never(fit, committed) == FALSE

\* The offset read off the candidate at the new stamp is compared with the
\* one last read off, at another stamp and perhaps for the other stream.
OffsetStepFails(fit, committed) ==
  Absolute(fit.offset - committed.offset) > MaxOffsetStep

QualityFails(fit) ==
  \/ Absolute(fit.rise) * DriftUnit > MaxDrift * fit.run
  \/ fit.jitter > MaxJitter
  \/ SourceUncertainty + fit.jitter > MaxUncertainty

\* The gates a sample fails, enforced or not.
FailedGates(r, sample) ==
  LET fit == EstimateAffine(CandidateSamples(samples[r], sample), sample.raw)
      first == samples[r] = << >>
  IN  {g \in Gates :
         \/ g = "prediction" /\ PredictionFails(samples[r], sample)
         \/ g = "quality" /\ QualityFails(fit)
         \/ g = "quality" /\ ~first /\ OffsetStepFails(fit, estimate[r])
         \/ g = "range" /\ fit.mapped = 0}

\* The commit of observe, when the mapper took the sample: a stream's raw
\* stamp moves exactly then.
CommitFit(r, stream, sample) ==
  IF mappers'[r].raw[stream] = mappers[r].raw[stream]
  THEN UNCHANGED <<samples, estimate>>
  ELSE LET window == CandidateSamples(samples[r], sample)
           fit == EstimateAffine(window, sample.raw)
       IN  /\ samples' = [samples EXCEPT ![r] = window]
           /\ estimate' = [estimate EXCEPT ![r] =
                [raw |-> sample.raw, offset |-> fit.offset,
                 mapped |-> fit.mapped, received |-> sample.session]]

FitObserve(r, stream, raw, wallError) ==
  LET sample == [raw |-> raw, session |-> SessionNow(auth, now)]
  IN  /\ Observe(r, stream, raw, FailedGates(r, sample), wallError)
      /\ CommitFit(r, stream, sample)

FitInit ==
  /\ Init
  /\ samples = [r \in Routes |-> << >>]
  /\ estimate = [r \in Routes |-> NoEstimate]

FitNext ==
  \/ /\ \/ Tick
        \/ \E stamp \in GazeboStamps, wallError \in WallErrors :
             ObserveGazeboClock(stamp, wallError)
        \/ PollTimer
        \/ FailEpochFence
     /\ UNCHANGED <<samples, estimate>>
  \/ \E r \in Routes, stream \in Stream, raw \in RawStamps,
        wallError \in WallErrors :
       FitObserve(r, stream, raw, wallError)

FitSpec == FitInit /\ [][FitNext]_fitVars

-----------------------------------------------------------------------------
(* Properties *)

Complete(r) == Len(samples[r]) >= MinLockSamples

\* The line is the least-squares line: the residuals of every window a route
\* commits sum to zero, and so do the residuals weighted by the stamps, in
\* whatever order the two streams delivered the samples.
FitIsLeastSquares ==
  \A r \in Routes : samples[r] # << >> =>
    LET window == samples[r]
        line == Line(window)
        residual == [i \in DOMAIN window |-> Residual(window, line, i)]
    IN  /\ Total(residual) = 0
        /\ Total([i \in DOMAIN window |-> window[i].raw * residual[i]]) = 0

\* What a route with a complete window projects is close to when it arrived:
\* the mapped stamp of its newest sample is within max_sample_age_ns or
\* max_jitter_ns of the Session time of receipt, even when the stamp was
\* fitted before, for the other stream, and this receipt is in no residual.
MappedIsTimely ==
  \A r \in Routes : Complete(r) =>
    \/ Absolute(estimate[r].mapped - estimate[r].received) <= MaxSampleAge
    \/ Absolute(estimate[r].mapped - estimate[r].received) <= MaxJitter

\* Canonical stamps keep pace with source stamps: from one commit on a
\* complete window to the next, whichever streams they belong to, the mapped
\* stamp moves by what the source stamp moves, give or take the offset step
\* and a nanosecond for offset and stamp being rounded separately.  A window
\* that slides never throws the canonical timeline back by more than that.
MappedFollowsSource ==
  [][\A r \in Routes :
       Complete(r) /\ estimate'[r] # estimate[r] =>
         Absolute((estimate'[r].mapped - estimate[r].mapped)
                    - (estimate'[r].raw - estimate[r].raw))
           <= MaxOffsetStep + 1]_fitVars

\* The stamps of the window are distinct, and they are the ones the mapper's
\* counters and gates are based on.
WindowIsSampled ==
  \A r \in Routes :
    /\ mappers[r].window = [i \in DOMAIN samples[r] |-> samples[r][i].raw]
    /\ \A i, j \in DOMAIN samples[r] :
         samples[r][i].raw = samples[r][j].raw => i = j
=============================================================================
