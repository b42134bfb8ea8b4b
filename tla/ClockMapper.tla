---------------------------- MODULE ClockMapper ----------------------------
(***************************************************************************)
(* One route of the Session Clock Guard (class ClockMapper): the life of   *)
(* its lock, its two source timelines and the samples behind its estimate. *)
(*                                                                         *)
(* A guard owns one mapper per frozen route, so a mapper is a record and   *)
(* each operation of the class is an operator from a record to a record;   *)
(* SessionClockGuard holds them in its state.                              *)
(*                                                                         *)
(* The affine fit enters through its verdict: an observation carries the   *)
(* set of quality gates its fit would violate, and the mapper decides      *)
(* which of them it enforces.                                              *)
(***************************************************************************)
EXTENDS Integers, Sequences, GuardStates

CONSTANTS
  MinLockSamples,      \* threshold.min_lock_samples
  RecoverLockSamples,  \* threshold.recover_lock_samples
  LostAfterFailures,   \* threshold.lost_after_failures
  StartupLockTimeout,  \* threshold.startup_lock_timeout_ns
  MaxSampleAge,        \* threshold.max_sample_age_ns
  EstimatorWindow,     \* threshold.estimator_window (affine policies only)
  Affine,              \* session_clock.mapping is affine-to-session
  EpochStart,          \* the steady anchor M0 of the epoch
  CounterMax           \* where the saturating uint32 counters stop

\* What validateThresholdPolicy guarantees of the policy a mapper receives,
\* and the nonzero steady anchor initializeEpoch insists on.
ASSUME ThresholdAssumption ==
  /\ MinLockSamples \in Nat /\ MinLockSamples >= 2
  /\ RecoverLockSamples \in Nat \ {0}
  /\ LostAfterFailures \in Nat \ {0}
  /\ EstimatorWindow \in Nat \ {0}
  /\ Affine \in BOOLEAN
  /\ Affine => /\ MinLockSamples <= EstimatorWindow
               /\ RecoverLockSamples <= EstimatorWindow
  /\ MaxSampleAge \in Nat \ {0}
  /\ StartupLockTimeout \in Nat /\ StartupLockTimeout >= MaxSampleAge
  /\ EpochStart \in Nat \ {0}
  /\ CounterMax \in Nat
  /\ CounterMax >= MinLockSamples
  /\ CounterMax >= RecoverLockSamples
  /\ CounterMax >= LostAfterFailures

Stream == {"pose", "twist"}
Gates == {"prediction", "quality", "range"}
Counter == 0..CounterMax

Mapper == [state     : GuardState,
           seen      : [Stream -> BOOLEAN],
           raw       : [Stream -> Nat],
           mono      : [Stream -> Nat],
           window    : Seq(Nat),
           counted   : Nat,
           healthy   : Counter,
           recovery  : Counter,
           failures  : Counter]

Observation == [stream : Stream, domain : {"simulation", "physical"},
                raw : Nat, mono : Nat, session : Nat,
                violates : SUBSET Gates]

\* Mutant: the counter is not saturated.
Increment_Unbounded(n) == n + 1

\* ++counter, unless it already sits at its maximum.
Increment(n) == IF n < CounterMax THEN n + 1 ELSE n

InitialMapper ==
  [state |-> "initializing",
   seen |-> [s \in Stream |-> FALSE],
   raw |-> [s \in Stream |-> 0],
   mono |-> [s \in Stream |-> 0],
   window |-> << >>,
   counted |-> 0, healthy |-> 0, recovery |-> 0, failures |-> 0]

-----------------------------------------------------------------------------
(* Failures *)

\* Mutant: a failure keeps the healthy samples counted so far.
RecordFailure_KeepHealthy(m, immediate) ==
  LET n == Increment(m.failures) IN
  IF m.state = "lost"
  THEN m
  ELSE [m EXCEPT !.failures = n, !.recovery = 0,
                 !.state = IF immediate \/ n >= LostAfterFailures
                           THEN "lost" ELSE "degraded"]

\* recordFailure, which is also authorityFailure: Lost absorbs everything,
\* any other failure forfeits the evidence gathered so far.
RecordFailure(m, immediate) ==
  LET n == Increment(m.failures) IN
  IF m.state = "lost"
  THEN m
  ELSE [m EXCEPT !.failures = n, !.healthy = 0, !.recovery = 0,
                 !.state = IF immediate \/ n >= LostAfterFailures
                           THEN "lost" ELSE "degraded"]

\* Mutant: the startup allowance also bounds running streams.
SilenceLimit_Startup(m, s) == StartupLockTimeout

\* The steady stamp from which the silence of a stream is measured, and the
\* silence it may keep: the startup allowance until its first sample.
SilenceReference(m, s) == IF m.seen[s] THEN m.mono[s] ELSE EpochStart
SilenceLimit(m, s) == IF m.seen[s] THEN MaxSampleAge ELSE StartupLockTimeout

\* Mutant: a stream that never started is not overdue.
Overdue_SeenOnly(m, s, at) ==
  m.seen[s] /\ at - SilenceReference(m, s) > SilenceLimit(m, s)

Overdue(m, s, at) ==
  \/ at < SilenceReference(m, s)
  \/ at - SilenceReference(m, s) > SilenceLimit(m, s)

\* Mutant: only the pose timeline is polled.
PollMapper_PoseOnly(m, at) ==
  IF Overdue(m, "pose", at)
  THEN RecordFailure(m, ~m.seen["pose"] \/ at < SilenceReference(m, "pose"))
  ELSE m

\* poll: the first overdue timeline, pose before twist, is one failure; it
\* is hard for a stream that never started and for a steady clock running
\* backwards.
PollMapper(m, at) ==
  LET overdue == {s \in Stream : Overdue(m, s, at)}
      first == IF "pose" \in overdue THEN "pose" ELSE "twist"
  IN  IF overdue = {}
      THEN m
      ELSE RecordFailure(m, ~m.seen[first] \/ at < SilenceReference(m, first))

-----------------------------------------------------------------------------
(* Observations *)

\* A simulation stream may stamp zero until Gazebo time is positive.
Waiting(m, o) ==
  /\ o.raw = 0
  /\ o.domain = "simulation"
  /\ ~m.seen[o.stream]
  /\ m.state = "initializing"

Duplicate(m, o) == m.seen[o.stream] /\ o.raw = m.raw[o.stream]

\* Mutant: a stamp that moved backwards is not refused.
HardViolation_NoRollback(m, o) ==
  \/ o.mono < EpochStart
  \/ \E s \in Stream : ~m.seen[s] /\ o.mono - EpochStart > StartupLockTimeout
  \/ o.session = 0
  \/ o.raw = 0 /\ ~Waiting(m, o)
  \/ m.seen[o.stream] /\ o.raw # m.raw[o.stream] /\ o.mono <= m.mono[o.stream]

\* The checks of observe that lose the route at once.
HardViolation(m, o) ==
  \/ o.mono < EpochStart
  \/ \E s \in Stream : ~m.seen[s] /\ o.mono - EpochStart > StartupLockTimeout
  \/ o.session = 0
  \/ o.raw = 0 /\ ~Waiting(m, o)
  \/ m.seen[o.stream] /\ o.raw < m.raw[o.stream]
  \/ /\ m.seen[o.stream]
     /\ o.raw > m.raw[o.stream]
     /\ o.mono <= m.mono[o.stream]

\* The sample window with this observation in it, oldest receipt dropped
\* first; a raw stamp is fitted once even when both streams carry it.
Candidate(m, o) ==
  LET fitted == \E i \in DOMAIN m.window : m.window[i] = o.raw
      longer == IF fitted THEN m.window ELSE Append(m.window, o.raw)
  IN  IF Len(longer) > EstimatorWindow THEN Tail(longer) ELSE longer

\* The gates in force: prediction age once a complete fit was committed,
\* drift, jitter, uncertainty and offset step once the candidate is complete,
\* the range of the mapped stamp always.  The identity map meets them all:
\* its mapped stamp is the positive raw stamp, and validateSourceTiming keeps
\* the frozen uncertainty floor below max_uncertainty_ns.
EnforcedGates(m, o) ==
  IF Affine
  THEN {"range"}
         \cup {g \in {"prediction"} : Len(m.window) >= MinLockSamples}
         \cup {g \in {"quality"} : Len(Candidate(m, o)) >= MinLockSamples}
  ELSE {}

SoftViolation(m, o) == o.violates \cap EnforcedGates(m, o) # {}

\* The commit at the end of observe.  A source stamp counts towards a lock
\* once, whichever stream brings it first.
Accept(m, o) ==
  LET fresh == o.raw > m.counted
      healthy == IF fresh THEN Increment(m.healthy) ELSE m.healthy
      recovery == IF fresh /\ m.state = "degraded"
                  THEN Increment(m.recovery) ELSE m.recovery
      bothSeen == \A s \in Stream : m.seen[s] \/ s = o.stream
      locks == /\ m.state = "initializing"
               /\ bothSeen
               /\ healthy >= MinLockSamples
      relocks == /\ m.state = "degraded"
                 /\ bothSeen
                 /\ recovery >= RecoverLockSamples
  IN  [state    |-> IF locks \/ relocks THEN "locked" ELSE m.state,
       seen     |-> [m.seen EXCEPT ![o.stream] = TRUE],
       raw      |-> [m.raw EXCEPT ![o.stream] = o.raw],
       mono     |-> [m.mono EXCEPT ![o.stream] = o.mono],
       window   |-> IF Affine THEN Candidate(m, o) ELSE m.window,
       counted  |-> IF fresh THEN o.raw ELSE m.counted,
       healthy  |-> healthy,
       recovery |-> IF relocks THEN 0 ELSE recovery,
       failures |-> 0]

\* Whether observe accepts the sample (TimestampEnvelope.accepted).
Accepts(m, o) ==
  /\ m.state # "lost"
  /\ ~HardViolation(m, o)
  /\ ~Waiting(m, o)
  /\ ~Duplicate(m, o)
  /\ ~SoftViolation(m, o)

\* observe: waiting samples and exact duplicates leave no trace.
ObserveMapper(m, o) ==
  IF HardViolation(m, o) THEN RecordFailure(m, TRUE)
  ELSE IF Waiting(m, o) \/ Duplicate(m, o) THEN m
  ELSE IF SoftViolation(m, o) THEN RecordFailure(m, FALSE)
  ELSE IF Accepts(m, o) THEN Accept(m, o)
  ELSE m
=============================================================================
