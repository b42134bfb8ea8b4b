---------------------- MODULE SessionClockGuardProofs ----------------------
(***************************************************************************)
(* Theorems about SessionClockGuard for every policy, route table, run     *)
(* mode and bound its assumptions allow.                                   *)
(***************************************************************************)
EXTENDS SessionClockGuard, TLAPS

-----------------------------------------------------------------------------
(* The mapper's operators keep its type *)

\* Increment saturates: it stays within the counter's width.
LEMMA IncrementType ==
  ASSUME NEW n \in Counter
  PROVE  Increment(n) \in Counter /\ Increment(n) >= n
BY ThresholdAssumption DEF Counter, Increment

\* Counters start from zero and can hold every threshold.
LEMMA CounterFacts == 0 \in Counter /\ Counter \subseteq Nat
BY ThresholdAssumption DEF Counter

\* A fresh mapper is well typed.
LEMMA InitialMapperType == InitialMapper \in Mapper
BY CounterFacts DEF InitialMapper, Mapper, GuardState

\* recordFailure yields a mapper, touching only state and counters.
LEMMA RecordFailureType ==
  ASSUME NEW m \in Mapper, NEW immediate \in BOOLEAN
  PROVE  RecordFailure(m, immediate) \in Mapper
BY IncrementType, CounterFacts DEF RecordFailure, Mapper, GuardState

\* poll yields a mapper.
LEMMA PollMapperType ==
  ASSUME NEW m \in Mapper, NEW at \in Nat
  PROVE  PollMapper(m, at) \in Mapper
<1> DEFINE overdue == {s \in Stream : Overdue(m, s, at)}
           first == IF "pose" \in overdue THEN "pose" ELSE "twist"
<1>1. first \in Stream
  BY DEF Stream
<1>2. (~m.seen[first] \/ at < SilenceReference(m, first)) \in BOOLEAN
  OBVIOUS
<1> QED
  BY <1>2, RecordFailureType DEF PollMapper

\* The candidate window is a window.
LEMMA CandidateType ==
  ASSUME NEW m \in Mapper, NEW o \in Observation
  PROVE  Candidate(m, o) \in Seq(Nat)
<1>1. m.window \in Seq(Nat) /\ o.raw \in Nat
  BY DEF Mapper, Observation
<1> DEFINE longer == IF \E i \in DOMAIN m.window : m.window[i] = o.raw
                     THEN m.window ELSE Append(m.window, o.raw)
<1>2. longer \in Seq(Nat)
  BY <1>1
<1>3. Len(longer) > EstimatorWindow => Tail(longer) \in Seq(Nat)
  BY <1>2, ThresholdAssumption
<1> QED
  BY <1>2, <1>3 DEF Candidate

\* Accepting a sample yields a mapper.
LEMMA AcceptType ==
  ASSUME NEW m \in Mapper, NEW o \in Observation
  PROVE  Accept(m, o) \in Mapper
<1>1. Candidate(m, o) \in Seq(Nat)
  BY CandidateType
<1> QED
  BY <1>1, IncrementType, CounterFacts DEF Accept, Mapper, Observation, GuardState

\* observe yields a mapper.
LEMMA ObserveMapperType ==
  ASSUME NEW m \in Mapper, NEW o \in Observation
  PROVE  ObserveMapper(m, o) \in Mapper
BY RecordFailureType, AcceptType DEF ObserveMapper

-----------------------------------------------------------------------------
(* The authority's operators keep its type *)

\* Refreshing the cached health changes nothing else.
LEMMA RefreshType ==
  ASSUME NEW a \in Authority
  PROVE  RefreshAuthorityHealth(a) \in Authority
BY DEF RefreshAuthorityHealth, HealthOf, ClockReady, Authority

\* validateStationClock yields an authority.
LEMMA StationType ==
  ASSUME NEW a \in Authority, NEW at \in Nat, NEW wallError \in Int
  PROVE  ValidateStationClock(a, at, wallError) \in Authority
<1> DEFINE wallStep == wallError - a.wallError
           within == /\ Magnitude(wallError) <= MaxWallError
                     /\ Magnitude(wallStep) <= MaxWallStep
           refused == [a EXCEPT !.stationHealthy = FALSE]
           read == [a EXCEPT !.wallError = wallError, !.wallStep = wallStep,
                             !.age = 0, !.stationHealthy = within]
<1>1. refused \in Authority
  BY DEF Authority
<1>2. wallStep \in Int /\ within \in BOOLEAN
  BY DEF Authority
<1> HIDE DEF wallStep, within
<1>3. read \in Authority
  BY <1>2 DEF Authority
<1> QED
  BY <1>1, <1>3, RefreshType DEF ValidateStationClock, wallStep, within

\* Measuring the age of the Gazebo clock yields an authority.
LEMMA MeasureAgeType ==
  ASSUME NEW a \in Authority, NEW at \in Nat
  PROVE  MeasureAge(a, at) \in Authority
BY ThresholdAssumption DEF MeasureAge, SteadyBackwards, Authority

\* The shared prologue yields an authority.
LEMMA CheckType ==
  ASSUME NEW a \in Authority, NEW at \in Nat, NEW wallError \in Int
  PROVE  CheckAuthority(a, at, wallError) \in Authority
BY StationType, MeasureAgeType DEF CheckAuthority

\* failAuthority yields an authority.
LEMMA FailAuthorityType ==
  ASSUME NEW a \in Authority, NEW immediate \in BOOLEAN
  PROVE  FailAuthority(a, immediate) \in Authority
<1> DEFINE n == Increment(a.failures)
           distrusted == [a EXCEPT
             !.stationHealthy = @ /\ ~StationRequired,
             !.gazeboHealthy = @ /\ ~GazeboRequired]
           next == IF immediate \/ n >= LostAfterFailures
                   THEN "lost" ELSE "degraded"
<1>1. distrusted \in Authority
  BY DEF Authority
<1>2. n \in Counter /\ next \in GuardState
  BY IncrementType DEF Authority, GuardState
<1> HIDE DEF distrusted, n, next
<1>3. [distrusted EXCEPT !.failures = n, !.recovery = 0, !.state = next]
        \in Authority
  BY <1>1, <1>2, CounterFacts DEF Authority
<1> QED
  BY <1>1, <1>3, RefreshType DEF FailAuthority, distrusted, n, next

\* recordHealthyAuthority yields an authority.
LEMMA RecordHealthyType ==
  ASSUME NEW a \in Authority
  PROVE  RecordHealthyAuthority(a) \in Authority
<1> DEFINE recovery == IF a.state = "degraded" THEN Increment(a.recovery) ELSE 0
<1>1. recovery \in Counter
  BY IncrementType, CounterFacts DEF Authority
<1> HIDE DEF recovery
<1>2. ASSUME NEW st \in GuardState, NEW rec \in Counter
      PROVE  /\ [a EXCEPT !.failures = 0, !.recovery = rec, !.state = st] \in Authority
             /\ [a EXCEPT !.failures = 0] \in Authority
  BY CounterFacts DEF Authority
<1>3. a.state \in GuardState
  BY DEF Authority
<1>4. CASE a.state = "lost"
  BY <1>4, RefreshType DEF RecordHealthyAuthority
<1>5. CASE a.state = "locked"
  BY <1>2, <1>5, CounterFacts, RefreshType DEF RecordHealthyAuthority, GuardState
<1>6. CASE a.state = "initializing"
  BY <1>2, <1>6, CounterFacts, RefreshType DEF RecordHealthyAuthority, GuardState
<1>7. CASE a.state = "degraded"
  BY <1>1, <1>2, <1>7, CounterFacts, RefreshType
     DEF RecordHealthyAuthority, GuardState, recovery
<1> QED
  BY <1>3, <1>4, <1>5, <1>6, <1>7 DEF GuardState

\* An accepted Gazebo clock yields an authority.
LEMMA ClockAcceptedType ==
  ASSUME NEW a \in Authority, NEW stamp \in Nat, now \in Nat
  PROVE  /\ RateMeasured(a, stamp) \in Authority
         /\ ClockAccepted(a, stamp) \in Authority
<1> DEFINE measured == RateMeasured(a, stamp)
           rated == a.haveRate \/ (Hybrid /\ a.haveClock)
           trusted == Hybrid => rated
           rtf == IF Hybrid /\ a.haveClock THEN measured.rtf ELSE "none"
           next == [measured EXCEPT
             !.haveClock = TRUE, !.haveRate = rated,
             !.gazeboStamp = stamp, !.gazeboMono = now, !.age = 0,
             !.gazeboHealthy = trusted, !.rtf = rtf]
<1>1. measured \in Authority
  BY DEF RateMeasured, Authority
<1>2. /\ rated \in BOOLEAN /\ trusted \in BOOLEAN
      /\ rtf \in {"none", "within", "outside"}
  BY <1>1 DEF Authority, Hybrid
<1>3. ClockAccepted(a, stamp) = IF next.gazeboHealthy
                                THEN RecordHealthyAuthority(next)
                                ELSE RefreshAuthorityHealth(next)
  BY DEF ClockAccepted
<1> HIDE DEF measured, rated, trusted, rtf
<1>4. next \in Authority
  BY <1>1, <1>2 DEF Authority
<1> HIDE DEF next
<1> QED
  BY <1>1, <1>3, <1>4, RecordHealthyType, RefreshType DEF measured

-----------------------------------------------------------------------------
(* Type correctness *)

\* failAuthority at the end of a callback keeps every type.
LEMMA AuthorityFailsType ==
  ASSUME TypeOK, NEW a \in Authority, NEW immediate \in BOOLEAN,
         AuthorityFails(a, immediate)
  PROVE  TypeOK'
<1>1. auth' \in Authority
  BY FailAuthorityType DEF AuthorityFails
<1>2. mappers' \in [Routes -> Mapper]
  BY RecordFailureType DEF AuthorityFails, FailRoutes, TypeOK
<1>3. event' \in Event
  BY DEF AuthorityFails, EmitStateTransition, AggregateState, TypeOK, Event
<1> QED
  BY <1>1, <1>2, <1>3 DEF AuthorityFails, TypeOK

\* An observation the guard builds for a mapper is well typed.
LEMMA ObservationType ==
  ASSUME TypeOK, NEW a \in Authority, NEW r \in Routes, NEW s \in Stream,
         NEW raw \in RawStamps, NEW violates \in Violations
  PROVE  [stream |-> s, domain |-> Domain[r], raw |-> raw, mono |-> now,
          session |-> SessionNow(a, now), violates |-> violates] \in Observation
<1>1. SessionNow(a, now) \in Nat
  BY ThresholdAssumption, BoundAssumption DEF SessionNow, TypeOK, Authority
<1>2. Domain[r] \in {"simulation", "physical"}
  BY ModeAssumption
<1>3. raw \in Nat /\ now \in Nat /\ violates \in SUBSET Gates
  BY ThresholdAssumption, BoundAssumption DEF TypeOK
<1> QED
  BY <1>1, <1>2, <1>3 DEF Observation

\* Every step keeps every type.
LEMMA TypeStep ==
  ASSUME TypeOK, [Next]_vars
  PROVE  TypeOK'
<1>0. now \in Nat /\ auth \in Authority
  BY ThresholdAssumption, BoundAssumption DEF TypeOK
<1>1. CASE Tick
  BY <1>1, ThresholdAssumption, BoundAssumption DEF Tick, TypeOK
<1>2. ASSUME NEW stamp \in GazeboStamps, NEW wallError \in WallErrors,
             ObserveGazeboClock(stamp, wallError)
      PROVE  TypeOK'
  <2> DEFINE a == IF Hybrid THEN ValidateStationClock(auth, now, wallError)
                            ELSE auth
  <2>1. stamp \in Nat /\ wallError \in Int
    BY BoundAssumption
  <2>2. a \in Authority
    BY <1>0, <2>1, StationType
  <2>3. RateMeasured(a, stamp) \in Authority /\ ClockAccepted(a, stamp) \in Authority
    BY <1>0, <2>1, <2>2, ClockAcceptedType
  <2>4. \/ AuthorityFails(a, TRUE)
        \/ AuthorityFails(RateMeasured(a, stamp), FALSE)
        \/ /\ auth' \in {RefreshAuthorityHealth(a), ClockAccepted(a, stamp)}
           /\ UNCHANGED <<now, mappers, admitted>>
           /\ (UNCHANGED event \/ EmitStateTransition)
    BY <1>2 DEF ObserveGazeboClock
  <2> HIDE DEF a
  <2>5. CASE AuthorityFails(a, TRUE) \/ AuthorityFails(RateMeasured(a, stamp), FALSE)
    BY <2>2, <2>3, <2>5, AuthorityFailsType
  <2>6. CASE /\ auth' \in {RefreshAuthorityHealth(a), ClockAccepted(a, stamp)}
             /\ UNCHANGED <<now, mappers, admitted>>
             /\ (UNCHANGED event \/ EmitStateTransition)
    <3>1. auth' \in Authority
      BY <2>2, <2>3, <2>6, RefreshType
    <3>2. event' \in Event
      BY <2>6 DEF EmitStateTransition, AggregateState, TypeOK, Event
    <3> QED
      BY <2>6, <3>1, <3>2 DEF TypeOK
  <2> QED
    BY <2>4, <2>5, <2>6
<1>3. ASSUME NEW r \in Routes, NEW s \in Stream, NEW raw \in RawStamps,
             NEW violates \in Violations, NEW wallError \in WallErrors,
             Observe(r, s, raw, violates, wallError)
      PROVE  TypeOK'
  <2> DEFINE checked == CheckAuthority(auth, now, wallError)
             verdict == AuthorityVerdict(checked, now)
             measured == [checked EXCEPT !.skew = raw - checked.gazeboStamp]
             o(a) == [stream |-> s, domain |-> Domain[r], raw |-> raw,
                      mono |-> now, session |-> SessionNow(a, now),
                      violates |-> violates]
  <2>1. wallError \in Int /\ raw \in Nat
    BY BoundAssumption
  <2>2. checked \in Authority
    BY <1>0, <2>1, CheckType
  <2>3. measured \in Authority
    BY <2>1, <2>2 DEF Authority
  <2>4. \/ AuthorityFails(checked, verdict = "hard")
        \/ auth' = checked /\ UNCHANGED <<now, mappers, event, admitted>>
        \/ \E a \in {checked, measured} :
             \/ /\ auth' = a
                /\ mappers' = [mappers EXCEPT ![r] = RecordFailure(@, FALSE)]
                /\ EmitStateTransition
                /\ UNCHANGED <<now, admitted>>
             \/ Deliver(a, r, o(a))
    BY <1>3 DEF Observe
  <2> HIDE DEF checked, measured, verdict
  <2>5. CASE AuthorityFails(checked, verdict = "hard")
    BY <2>2, <2>5, AuthorityFailsType
  <2>6. CASE auth' = checked /\ UNCHANGED <<now, mappers, event, admitted>>
    BY <2>2, <2>6 DEF TypeOK
  <2>7. ASSUME NEW a \in {checked, measured}, auth' = a,
               mappers' = [mappers EXCEPT ![r] = RecordFailure(@, FALSE)],
               EmitStateTransition, UNCHANGED <<now, admitted>>
        PROVE  TypeOK'
    <3>1. mappers' \in [Routes -> Mapper]
      BY <2>7, RecordFailureType DEF TypeOK
    <3>2. event' \in Event
      BY <2>7 DEF EmitStateTransition, AggregateState, TypeOK, Event
    <3> QED
      BY <2>2, <2>3, <2>7, <3>1, <3>2 DEF TypeOK
  <2>8. ASSUME NEW a \in {checked, measured}, Deliver(a, r, o(a))
        PROVE  TypeOK'
    <3>1. o(a) \in Observation
      BY <2>2, <2>3, ObservationType
    <3>2. o(a).stream = s /\ o(a).raw = raw
      OBVIOUS
    <3> HIDE DEF o
    <3>3. mappers' \in [Routes -> Mapper]
      BY <2>8, <3>1, ObserveMapperType DEF Deliver, TypeOK
    <3>4. event' \in Event
      BY <2>8 DEF Deliver, EmitStateTransition, AggregateState, TypeOK, Event
    <3>5. admitted' \in [Routes -> [Stream -> Nat]]
      BY <2>1, <2>8, <3>2 DEF Deliver, TypeOK
    <3> QED
      BY <2>2, <2>3, <2>8, <3>3, <3>4, <3>5 DEF Deliver, TypeOK
  <2> QED
    BY <2>4, <2>5, <2>6, <2>7, <2>8
<1>4. CASE PollTimer
  <2> PICK wallError \in WallErrors : Poll(wallError)
    BY <1>4 DEF PollTimer
  <2> DEFINE checked == CheckAuthority(auth, now, wallError)
             verdict == AuthorityVerdict(checked, now)
  <2>1. checked \in Authority
    BY <1>0, CheckType, BoundAssumption
  <2>2. \/ AuthorityFails(checked, verdict = "hard")
        \/ auth' = checked /\ UNCHANGED <<now, mappers, event, admitted>>
        \/ /\ auth' = checked
           /\ mappers' = [r \in Routes |-> PollMapper(mappers[r], now)]
           /\ EmitStateTransition
           /\ UNCHANGED <<now, admitted>>
    BY DEF Poll
  <2> HIDE DEF checked, verdict
  <2>3. CASE AuthorityFails(checked, verdict = "hard")
    BY <2>1, <2>3, AuthorityFailsType
  <2>4. CASE auth' = checked /\ UNCHANGED <<now, mappers, event, admitted>>
    BY <2>1, <2>4 DEF TypeOK
  <2>5. CASE /\ auth' = checked
             /\ mappers' = [r \in Routes |-> PollMapper(mappers[r], now)]
             /\ EmitStateTransition
             /\ UNCHANGED <<now, admitted>>
    <3>1. mappers' \in [Routes -> Mapper]
      BY <1>0, <2>5, PollMapperType DEF TypeOK
    <3>2. event' \in Event
      BY <2>5 DEF EmitStateTransition, AggregateState, TypeOK, Event
    <3> QED
      BY <2>1, <2>5, <3>1, <3>2 DEF TypeOK
  <2> QED
    BY <2>2, <2>3, <2>4, <2>5
<1>5. CASE FailEpochFence
  BY <1>0, <1>5, AuthorityFailsType DEF FailEpochFence
<1>6. CASE UNCHANGED vars
  BY <1>6 DEF vars, TypeOK
<1> QED
  BY <1>1, <1>2, <1>3, <1>4, <1>5, <1>6 DEF Next

\* The constructor establishes every type.
LEMMA TypeInit == Init => TypeOK
<1> SUFFICES ASSUME Init PROVE TypeOK
  OBVIOUS
<1>1. auth \in Authority
  <2> DEFINE fresh == [state |-> IF GazeboRequired THEN "initializing" ELSE "locked",
               failures |-> 0, recovery |-> 0,
               stationHealthy |-> StationRequired, gazeboHealthy |-> FALSE,
               haveClock |-> FALSE, haveRate |-> FALSE,
               gazeboStamp |-> 0, gazeboMono |-> 0,
               wallError |-> 0, wallStep |-> 0, age |-> 0, skew |-> 0,
               rtf |-> "none", healthy |-> FALSE]
  <2>1. fresh \in Authority
    BY CounterFacts DEF Authority, GuardState, StationRequired
  <2>2. auth = RefreshAuthorityHealth(fresh)
    BY DEF Init, InitialAuthority
  <2> QED
    BY <2>1, <2>2, RefreshType
<1>2. mappers \in [Routes -> Mapper]
  BY InitialMapperType DEF Init
<1> QED
  BY <1>1, <1>2, ThresholdAssumption, BoundAssumption DEF Init, TypeOK, Event

\* The guard is type correct, its counters bounded, in every mode.
THEOREM TypeCorrect == Spec => []TypeOK
BY TypeInit, TypeStep, PTL DEF Spec

-----------------------------------------------------------------------------
(***************************************************************************)
(* The shapes of a step.  Whatever the callback, it leaves the authority   *)
(* in one of seven ways; the invariants below are proved shape by shape.   *)
(***************************************************************************)

\* b is a with other diagnostics: the same life, the same Gazebo clock.
SameLife(a, b) ==
  /\ b.state = a.state /\ b.failures = a.failures /\ b.recovery = a.recovery
  /\ b.gazeboHealthy = a.gazeboHealthy
  /\ b.haveClock = a.haveClock /\ b.haveRate = a.haveRate
  /\ b.gazeboStamp = a.gazeboStamp /\ b.gazeboMono = a.gazeboMono

\* The inductive invariant of the authority alone.
AuthorityInv(a) ==
  /\ a.healthy = HealthOf(a)
  /\ a.state = "locked" => a.healthy
  /\ a.state \in {"locked", "initializing"} => a.failures = 0
  /\ ~GazeboRequired => a.state \in {"locked", "lost"}

\* A life never leaves lost and never goes back to initializing.
LifeMove(from, to) ==
  /\ from = "lost" => to = "lost"
  /\ to = "initializing" => from = "initializing"

FailShape ==
  \E a \in Authority, immediate \in BOOLEAN :
    /\ SameLife(auth, a)
    /\ immediate \/ GazeboRequired
    /\ AuthorityFails(a, immediate)

QuietShape ==
  /\ auth' \in Authority /\ SameLife(auth, auth') /\ AuthorityInv(auth')
  /\ UNCHANGED <<now, mappers, event, admitted>>

ClockShape ==
  /\ auth' \in Authority /\ AuthorityInv(auth')
  /\ LifeMove(auth.state, auth'.state)
  /\ auth'.state = "lost" => auth.state = "lost"
  /\ auth'.failures <= auth.failures
  /\ EmitStateTransition
  /\ UNCHANGED <<now, mappers, admitted>>

SkewShape ==
  /\ auth' \in Authority /\ SameLife(auth, auth') /\ AuthorityInv(auth')
  /\ \E r \in Routes :
       mappers' = [mappers EXCEPT ![r] = RecordFailure(@, FALSE)]
  /\ EmitStateTransition
  /\ UNCHANGED <<now, admitted>>

PollShape ==
  /\ auth' \in Authority /\ SameLife(auth, auth') /\ AuthorityInv(auth')
  /\ mappers' = [r \in Routes |-> PollMapper(mappers[r], now)]
  /\ EmitStateTransition
  /\ UNCHANGED <<now, admitted>>

DeliverShape ==
  /\ auth' \in Authority /\ SameLife(auth, auth') /\ AuthorityInv(auth')
  /\ GazeboRequired => auth'.healthy
  /\ \E r \in Routes, o \in Observation : Deliver(auth', r, o)

Shapes ==
  \/ UNCHANGED <<auth, mappers, event, admitted>>
  \/ FailShape \/ QuietShape \/ ClockShape
  \/ SkewShape \/ PollShape \/ DeliverShape

\* Refreshing the health of an authority keeps everything but the cache.
LEMMA RefreshFacts ==
  ASSUME NEW a \in Authority
  PROVE  /\ SameLife(a, RefreshAuthorityHealth(a))
         /\ RefreshAuthorityHealth(a).healthy = HealthOf(a)
         /\ RefreshAuthorityHealth(a).stationHealthy = a.stationHealthy
         /\ HealthOf(RefreshAuthorityHealth(a)) = HealthOf(a)
<1>1. HealthOf(a) \in BOOLEAN
  BY DEF HealthOf
<1> DEFINE h == HealthOf(a)
           b == [a EXCEPT !.healthy = h]
<1>2. RefreshAuthorityHealth(a) = b
  BY DEF RefreshAuthorityHealth
<1> HIDE DEF h
<1>3. /\ SameLife(a, b) /\ b.healthy = h /\ b.stationHealthy = a.stationHealthy
  BY DEF Authority, SameLife
<1>4. HealthOf(b) = HealthOf(a)
  BY <1>3 DEF HealthOf, SameLife, ClockReady
<1> QED
  BY <1>2, <1>3, <1>4 DEF h

\* The station check only writes diagnostics, the station verdict and the
\* cache.
LEMMA StationFacts ==
  ASSUME NEW a \in Authority, NEW at \in Nat, NEW wallError \in Int
  PROVE  LET b == ValidateStationClock(a, at, wallError)
         IN  SameLife(a, b) /\ b.healthy = HealthOf(b)
<1> DEFINE wallStep == wallError - a.wallError
           within == /\ Magnitude(wallError) <= MaxWallError
                     /\ Magnitude(wallStep) <= MaxWallStep
           c == IF at < EpochStart
                THEN [a EXCEPT !.stationHealthy = FALSE]
                ELSE [a EXCEPT !.wallError = wallError, !.wallStep = wallStep,
                               !.age = 0, !.stationHealthy = within]
<1>1. wallStep \in Int /\ within \in BOOLEAN
  BY DEF Authority
<1>2. ValidateStationClock(a, at, wallError) = RefreshAuthorityHealth(c)
  BY DEF ValidateStationClock
<1> HIDE DEF wallStep, within
<1>3. c \in Authority /\ SameLife(a, c)
  BY <1>1 DEF Authority, SameLife
<1> HIDE DEF c
<1>4. SameLife(c, RefreshAuthorityHealth(c))
  BY <1>3, RefreshFacts
<1> QED
  BY <1>2, <1>3, <1>4, RefreshFacts DEF SameLife

\* Measuring the age writes the age.
LEMMA MeasureFacts ==
  ASSUME NEW a \in Authority, NEW at \in Nat
  PROVE  LET b == MeasureAge(a, at)
         IN  /\ SameLife(a, b) /\ b.healthy = a.healthy
             /\ b.stationHealthy = a.stationHealthy
             /\ HealthOf(b) = HealthOf(a)
<1> DEFINE b == MeasureAge(a, at)
<1>1. SameLife(a, b) /\ b.healthy = a.healthy /\ b.stationHealthy = a.stationHealthy
  BY DEF MeasureAge, SameLife, Authority
<1> HIDE DEF b
<1>2. HealthOf(b) = HealthOf(a)
  BY <1>1 DEF HealthOf, SameLife, ClockReady
<1> QED
  BY <1>1, <1>2 DEF b

\* An authority of the same life, with a current cache and a sound station
\* clock, is as good as the one it comes from.
LEMMA InvCarries ==
  ASSUME NEW a \in Authority, NEW b \in Authority, AuthorityInv(a),
         SameLife(a, b), b.healthy = HealthOf(b),
         StationRequired => b.stationHealthy
  PROVE  AuthorityInv(b)
BY DEF AuthorityInv, SameLife, HealthOf, ClockReady

\* The prologue of observe and poll keeps the life and a current cache, and
\* lets a callback go on only with a sound station clock.
LEMMA CheckFacts ==
  ASSUME NEW a \in Authority, NEW at \in Nat, NEW wallError \in Int,
         a.healthy = HealthOf(a)
  PROVE  LET checked == CheckAuthority(a, at, wallError)
             verdict == AuthorityVerdict(checked, at)
         IN  /\ SameLife(a, checked) /\ checked.healthy = HealthOf(checked)
             /\ verdict # "hard" => (StationRequired => checked.stationHealthy)
             /\ verdict = "soft" => GazeboRequired
<1> DEFINE station == IF StationRequired
                      THEN ValidateStationClock(a, at, wallError) ELSE a
           checked == CheckAuthority(a, at, wallError)
<1>1. station \in Authority
  BY StationType
<1>2. SameLife(a, station) /\ station.healthy = HealthOf(station)
  BY StationFacts DEF SameLife
<1>3. checked \in {station, MeasureAge(station, at)}
  BY DEF CheckAuthority
<1>4. /\ AuthorityVerdict(CheckAuthority(a, at, wallError), at) # "hard"
           => (StationRequired => checked.stationHealthy)
      /\ AuthorityVerdict(CheckAuthority(a, at, wallError), at) = "soft"
           => GazeboRequired
  BY DEF AuthorityVerdict
<1> HIDE DEF station, checked
<1>5. SameLife(a, checked) /\ checked.healthy = HealthOf(checked)
  BY <1>1, <1>2, <1>3, MeasureFacts DEF SameLife
<1> QED
  BY <1>4, <1>5 DEF checked

\* failAuthority: lost is absorbing, anything else counts one failure and
\* leaves a Locked or Initializing life behind.
LEMMA FailFacts ==
  ASSUME NEW a \in Authority, NEW immediate \in BOOLEAN
  PROVE  LET b == FailAuthority(a, immediate)
             n == Increment(a.failures)
         IN  /\ a.state = "lost" => b.state = "lost" /\ b.failures = a.failures
             /\ a.state # "lost" =>
                  /\ b.failures = n
                  /\ b.state = IF immediate \/ n >= LostAfterFailures
                               THEN "lost" ELSE "degraded"
             /\ b.healthy = HealthOf(b)
             /\ b.state \in {"degraded", "lost"}
<1> DEFINE n == Increment(a.failures)
           next == IF immediate \/ n >= LostAfterFailures
                   THEN "lost" ELSE "degraded"
           distrusted == [a EXCEPT
             !.stationHealthy = @ /\ ~StationRequired,
             !.gazeboHealthy = @ /\ ~GazeboRequired]
           c == IF a.state = "lost" THEN distrusted
                ELSE [distrusted EXCEPT !.failures = n, !.recovery = 0,
                                        !.state = next]
<1>1. FailAuthority(a, immediate) = RefreshAuthorityHealth(c)
  BY DEF FailAuthority
<1>2. n \in Counter /\ next \in {"degraded", "lost"}
  BY IncrementType DEF Authority
<1> HIDE DEF n, next
<1>3. distrusted \in Authority
  BY DEF Authority
<1>4. distrusted.state = a.state /\ distrusted.failures = a.failures
  BY DEF Authority
<1> HIDE DEF distrusted
<1>5. /\ c \in Authority
      /\ a.state = "lost" => c.state = "lost" /\ c.failures = a.failures
      /\ a.state # "lost" => c.failures = n /\ c.state = next
  BY <1>2, <1>3, <1>4, CounterFacts DEF Authority, GuardState
<1> HIDE DEF c
<1> QED
  BY <1>1, <1>2, <1>5, RefreshFacts DEF SameLife, n, next

\* recordHealthyAuthority: a life that is not lost forgets its failures, and
\* is healthy when it ends Locked over a ready, trusted clock.
LEMMA RecordHealthyFacts ==
  ASSUME NEW a \in Authority
  PROVE  LET b == RecordHealthyAuthority(a)
         IN  /\ b.healthy = HealthOf(b)
             /\ LifeMove(a.state, b.state)
             /\ b.state = "lost" => a.state = "lost"
             /\ b.state # "initializing"
             /\ a.state = "lost" => b.failures = a.failures
             /\ a.state # "lost" => b.failures = 0
             /\ b.stationHealthy = a.stationHealthy
             /\ b.gazeboHealthy = a.gazeboHealthy
             /\ b.haveClock = a.haveClock /\ b.haveRate = a.haveRate
<1> DEFINE recovery == IF a.state = "degraded" THEN Increment(a.recovery) ELSE 0
           relocks == recovery >= RecoverLockSamples
           c == CASE a.state = "lost" -> a
                  [] a.state = "degraded" ->
                       [a EXCEPT !.failures = 0,
                                 !.recovery = IF relocks THEN 0 ELSE recovery,
                                 !.state = IF relocks THEN "locked" ELSE @]
                  [] a.state = "initializing" ->
                       [a EXCEPT !.failures = 0, !.recovery = 0, !.state = "locked"]
                  [] a.state = "locked" -> [a EXCEPT !.failures = 0]
<1>1. RecordHealthyAuthority(a) = RefreshAuthorityHealth(c)
  BY DEF RecordHealthyAuthority
<1>2. recovery \in Counter /\ a.state \in GuardState
  BY IncrementType, CounterFacts DEF Authority
<1> HIDE DEF recovery, relocks
<1> DEFINE Facts == /\ c \in Authority
                    /\ LifeMove(a.state, c.state)
                    /\ c.state = "lost" => a.state = "lost"
                    /\ c.state # "initializing"
                    /\ a.state = "lost" => c.failures = a.failures
                    /\ a.state # "lost" => c.failures = 0
                    /\ c.stationHealthy = a.stationHealthy
                    /\ c.gazeboHealthy = a.gazeboHealthy
                    /\ c.haveClock = a.haveClock /\ c.haveRate = a.haveRate
<1>3. CASE a.state = "lost"
  <2>1. c = a
    BY <1>3
  <2>2. Facts
    BY <1>3, <2>1 DEF LifeMove
  <2> HIDE DEF c
  <2> QED
    BY <2>2, <1>1, RefreshFacts DEF SameLife
<1>4. CASE a.state = "degraded"
  <2>1. c = [a EXCEPT !.failures = 0,
                      !.recovery = IF relocks THEN 0 ELSE recovery,
                      !.state = IF relocks THEN "locked" ELSE @]
    BY <1>4
  <2>2. Facts
    BY <1>2, <1>4, <2>1, CounterFacts DEF LifeMove, Authority, GuardState
  <2> HIDE DEF c
  <2> QED
    BY <2>2, <1>1, RefreshFacts DEF SameLife
<1>5. CASE a.state = "initializing"
  <2>1. c = [a EXCEPT !.failures = 0, !.recovery = 0, !.state = "locked"]
    BY <1>5
  <2>2. Facts
    BY <1>5, <2>1, CounterFacts DEF LifeMove, Authority, GuardState
  <2> HIDE DEF c
  <2> QED
    BY <2>2, <1>1, RefreshFacts DEF SameLife
<1>6. CASE a.state = "locked"
  <2>1. c = [a EXCEPT !.failures = 0]
    BY <1>6
  <2>2. Facts
    BY <1>6, <2>1, CounterFacts DEF LifeMove, Authority, GuardState
  <2> HIDE DEF c
  <2> QED
    BY <2>2, <1>1, RefreshFacts DEF SameLife
<1> QED
  BY <1>2, <1>3, <1>4, <1>5, <1>6 DEF GuardState

\* Measuring the real-time factor keeps the life.
LEMMA RateFacts ==
  ASSUME NEW a \in Authority, NEW stamp \in Nat, now \in Nat
  PROVE  LET b == RateMeasured(a, stamp)
         IN  /\ b \in Authority /\ SameLife(a, b)
             /\ b.stationHealthy = a.stationHealthy
BY ClockAcceptedType DEF RateMeasured, SameLife, Authority

\* A newly accepted Gazebo clock keeps the authority invariant.
LEMMA ClockAcceptedFacts ==
  ASSUME NEW a \in Authority, NEW stamp \in Nat, now \in Nat,
         AuthorityInv(a), GazeboRequired, Hybrid => a.stationHealthy
  PROVE  LET b == ClockAccepted(a, stamp)
         IN  /\ AuthorityInv(b)
             /\ LifeMove(a.state, b.state)
             /\ b.state = "lost" => a.state = "lost"
             /\ b.failures <= a.failures
<1> DEFINE measured == RateMeasured(a, stamp)
           rated == a.haveRate \/ (Hybrid /\ a.haveClock)
           trusted == Hybrid => rated
           rtf == IF Hybrid /\ a.haveClock THEN measured.rtf ELSE "none"
           next == [measured EXCEPT
             !.haveClock = TRUE, !.haveRate = rated,
             !.gazeboStamp = stamp, !.gazeboMono = now, !.age = 0,
             !.gazeboHealthy = trusted, !.rtf = rtf]
           b == ClockAccepted(a, stamp)
<1>1. measured \in Authority /\ SameLife(a, measured)
      /\ measured.stationHealthy = a.stationHealthy
  BY RateFacts
<1>2. /\ rated \in BOOLEAN /\ trusted \in BOOLEAN
      /\ rtf \in {"none", "within", "outside"}
  BY <1>1 DEF Authority, Hybrid
<1>3. b = IF next.gazeboHealthy THEN RecordHealthyAuthority(next)
                                ELSE RefreshAuthorityHealth(next)
  BY DEF ClockAccepted
<1>4. /\ Hybrid /\ ~rated => ~a.haveClock
      /\ rated => (a.haveRate \/ Hybrid)
      /\ trusted = (Hybrid => rated)
  OBVIOUS
<1> HIDE DEF measured, rated, trusted, rtf, b
<1>5. /\ next \in Authority
      /\ next.state = a.state /\ next.failures = a.failures
      /\ next.stationHealthy = a.stationHealthy
      /\ next.haveClock = TRUE /\ next.haveRate = rated
      /\ next.gazeboHealthy = trusted
  BY <1>1, <1>2 DEF Authority, SameLife
<1> HIDE DEF next
<1>6. StationRequired => Hybrid
  BY ModeAssumption DEF StationRequired, Hybrid, GazeboRequired
<1>7. a.failures \in Nat
  BY CounterFacts DEF Authority
<1>8. CASE trusted
  <2>1. b = RecordHealthyAuthority(next)
    BY <1>3, <1>5, <1>8
  <2>2. /\ b.healthy = HealthOf(b) /\ LifeMove(a.state, b.state)
        /\ b.state = "lost" => a.state = "lost"
        /\ b.state # "initializing"
        /\ a.state = "lost" => b.failures = a.failures
        /\ a.state # "lost" => b.failures = 0
        /\ b.stationHealthy = a.stationHealthy
        /\ b.gazeboHealthy /\ b.haveClock /\ b.haveRate = rated
    BY <1>5, <1>8, <2>1, RecordHealthyFacts
  <2>3. b.state = "locked" => b.healthy
    BY <1>4, <1>6, <1>8, <2>2 DEF HealthOf, ClockReady
  <2> QED
    BY <1>7, <2>2, <2>3 DEF AuthorityInv, LifeMove, b
<1>9. CASE ~trusted
  <2>1. b = RefreshAuthorityHealth(next)
    BY <1>3, <1>5, <1>9
  <2>2. /\ b.healthy = HealthOf(b) /\ b.state = a.state
        /\ b.failures = a.failures
    BY <1>5, <2>1, RefreshFacts DEF SameLife
  <2>3. a.state # "locked"
    BY <1>2, <1>4, <1>9 DEF AuthorityInv, HealthOf, ClockReady
  <2>4. a.state \in {"initializing", "degraded", "lost"}
    BY <2>3 DEF Authority, GuardState
  <2> QED
    BY <1>7, <2>2, <2>3, <2>4 DEF AuthorityInv, LifeMove, b
<1> QED
  BY <1>2, <1>8, <1>9

\* Every step of the guard has one of the shapes.
LEMMA StepShape ==
  ASSUME TypeOK, AuthorityInv(auth), [Next]_vars
  PROVE  Shapes
<1>0. now \in Nat /\ auth \in Authority /\ auth.healthy = HealthOf(auth)
      /\ SameLife(auth, auth)
  BY ThresholdAssumption, BoundAssumption DEF TypeOK, AuthorityInv, SameLife
<1>1. CASE Tick
  BY <1>1 DEF Tick, Shapes
<1>2. ASSUME NEW stamp \in GazeboStamps, NEW wallError \in WallErrors,
             ObserveGazeboClock(stamp, wallError)
      PROVE  FailShape \/ QuietShape \/ ClockShape
  <2> DEFINE a == IF Hybrid THEN ValidateStationClock(auth, now, wallError)
                            ELSE auth
             sound == Hybrid => a.stationHealthy
  <2>1. stamp \in Nat /\ wallError \in Int
    BY BoundAssumption
  <2>2. a \in Authority /\ SameLife(auth, a) /\ a.healthy = HealthOf(a)
    BY <1>0, <2>1, StationType, StationFacts
  <2>3. /\ GazeboRequired
        /\ \/ AuthorityFails(a, TRUE)
           \/ AuthorityFails(RateMeasured(a, stamp), FALSE)
           \/ /\ sound /\ auth' = RefreshAuthorityHealth(a)
              /\ UNCHANGED <<now, mappers, event, admitted>>
           \/ /\ sound /\ auth' = ClockAccepted(a, stamp)
              /\ UNCHANGED <<now, mappers, admitted>>
              /\ EmitStateTransition
    BY <1>2 DEF ObserveGazeboClock
  <2>4. sound => AuthorityInv(a)
    <3>1. ASSUME sound PROVE StationRequired => a.stationHealthy
      BY <2>3, <3>1, ModeAssumption DEF Hybrid, StationRequired, GazeboRequired
    <3> HIDE DEF a
    <3> QED
      BY <1>0, <2>2, <3>1, InvCarries
  <2> HIDE DEF a
  <2>5. CASE AuthorityFails(a, TRUE)
    BY <2>2, <2>5 DEF FailShape
  <2>6. CASE AuthorityFails(RateMeasured(a, stamp), FALSE)
    <3>1. RateMeasured(a, stamp) \in Authority /\ SameLife(auth, RateMeasured(a, stamp))
      BY <1>0, <2>1, <2>2, RateFacts DEF SameLife
    <3> QED
      BY <2>3, <2>6, <3>1 DEF FailShape
  <2>7. CASE /\ sound /\ auth' = RefreshAuthorityHealth(a)
             /\ UNCHANGED <<now, mappers, event, admitted>>
    <3>1. /\ auth' \in Authority /\ SameLife(auth, auth')
          /\ auth'.healthy = HealthOf(auth')
      BY <2>2, <2>7, RefreshType, RefreshFacts DEF SameLife
    <3>2. StationRequired => auth'.stationHealthy
      BY <2>2, <2>3, <2>7, RefreshFacts, ModeAssumption
         DEF Hybrid, StationRequired, GazeboRequired
    <3>3. AuthorityInv(auth')
      BY <1>0, <3>1, <3>2, InvCarries
    <3> QED
      BY <2>7, <3>1, <3>3 DEF QuietShape
  <2>8. CASE /\ sound /\ auth' = ClockAccepted(a, stamp)
             /\ UNCHANGED <<now, mappers, admitted>>
             /\ EmitStateTransition
    <3>1. auth' \in Authority
      BY <1>0, <2>1, <2>2, <2>8, ClockAcceptedType
    <3>2. /\ AuthorityInv(auth') /\ LifeMove(a.state, auth'.state)
          /\ auth'.state = "lost" => a.state = "lost"
          /\ auth'.failures <= a.failures
      BY <1>0, <2>1, <2>2, <2>3, <2>4, <2>8, ClockAcceptedFacts
    <3> QED
      BY <2>2, <2>8, <3>1, <3>2 DEF ClockShape, SameLife
  <2> QED
    BY <2>3, <2>5, <2>6, <2>7, <2>8
<1>3. ASSUME NEW r \in Routes, NEW s \in Stream, NEW raw \in RawStamps,
             NEW violates \in Violations, NEW wallError \in WallErrors,
             Observe(r, s, raw, violates, wallError)
      PROVE  FailShape \/ QuietShape \/ SkewShape \/ DeliverShape
  <2> DEFINE checked == CheckAuthority(auth, now, wallError)
             verdict == AuthorityVerdict(checked, now)
             measured == [checked EXCEPT !.skew = raw - checked.gazeboStamp]
             o(a) == [stream |-> s, domain |-> Domain[r], raw |-> raw,
                      mono |-> now, session |-> SessionNow(a, now),
                      violates |-> violates]
  <2>1. wallError \in Int /\ raw \in Nat
    BY BoundAssumption
  <2>2. checked \in Authority
    BY <1>0, <2>1, CheckType
  <2>3. /\ SameLife(auth, checked) /\ checked.healthy = HealthOf(checked)
        /\ verdict # "hard" => (StationRequired => checked.stationHealthy)
        /\ verdict = "soft" => GazeboRequired
    BY <1>0, <2>1, CheckFacts
  <2>4. \/ verdict \in {"hard", "soft"} /\ AuthorityFails(checked, verdict = "hard")
        \/ /\ verdict # "hard" /\ auth' = checked
           /\ UNCHANGED <<now, mappers, event, admitted>>
        \/ \E a \in {checked, measured} :
             /\ verdict # "hard"
             /\ GazeboRequired => checked.healthy
             /\ \/ /\ auth' = a
                   /\ mappers' = [mappers EXCEPT ![r] = RecordFailure(@, FALSE)]
                   /\ EmitStateTransition
                   /\ UNCHANGED <<now, admitted>>
                \/ Deliver(a, r, o(a))
    BY <1>3 DEF Observe
  <2> HIDE DEF checked, verdict
  <2>5. /\ measured \in Authority /\ SameLife(checked, measured)
        /\ measured.healthy = checked.healthy
        /\ measured.stationHealthy = checked.stationHealthy
    BY <2>1, <2>2 DEF Authority, SameLife
  <2> HIDE DEF measured
  <2>6. HealthOf(measured) = HealthOf(checked)
    BY <2>5 DEF HealthOf, ClockReady, SameLife
  <2>7. ASSUME NEW a \in {checked, measured}, verdict # "hard"
        PROVE  a \in Authority /\ SameLife(auth, a) /\ AuthorityInv(a)
    <3>1. /\ a \in Authority /\ SameLife(auth, a) /\ a.healthy = HealthOf(a)
          /\ StationRequired => a.stationHealthy
      BY <2>2, <2>3, <2>5, <2>6, <2>7 DEF SameLife
    <3> QED
      BY <1>0, <3>1, InvCarries
  <2>8. CASE verdict \in {"hard", "soft"} /\ AuthorityFails(checked, verdict = "hard")
    BY <2>2, <2>3, <2>8 DEF FailShape
  <2>9. CASE /\ verdict # "hard" /\ auth' = checked
             /\ UNCHANGED <<now, mappers, event, admitted>>
    BY <2>7, <2>9 DEF QuietShape
  <2>10. ASSUME NEW a \in {checked, measured}, verdict # "hard", auth' = a,
                mappers' = [mappers EXCEPT ![r] = RecordFailure(@, FALSE)],
                EmitStateTransition, UNCHANGED <<now, admitted>>
         PROVE  SkewShape
    BY <2>7, <2>10 DEF SkewShape
  <2>11. ASSUME NEW a \in {checked, measured}, verdict # "hard",
                GazeboRequired => checked.healthy, Deliver(a, r, o(a))
         PROVE  DeliverShape
    <3>1. a \in Authority /\ SameLife(auth, a) /\ AuthorityInv(a)
      BY <2>7, <2>11
    <3>2. o(a) \in Observation
      BY <3>1, ObservationType
    <3>3. auth' = a
      BY <2>11 DEF Deliver
    <3> HIDE DEF o
    <3>4. Deliver(auth', r, o(a))
      BY <2>11, <3>3
    <3>5. GazeboRequired => auth'.healthy
      BY <2>5, <2>11, <3>3
    <3> QED
      BY <3>1, <3>2, <3>3, <3>4, <3>5 DEF DeliverShape
  <2> QED
    BY <2>4, <2>8, <2>9, <2>10, <2>11
<1>4. CASE PollTimer
  <2> PICK wallError \in WallErrors : Poll(wallError)
    BY <1>4 DEF PollTimer
  <2> DEFINE checked == CheckAuthority(auth, now, wallError)
             verdict == AuthorityVerdict(checked, now)
  <2>1. checked \in Authority
    BY <1>0, CheckType, BoundAssumption
  <2>2. /\ SameLife(auth, checked) /\ checked.healthy = HealthOf(checked)
        /\ verdict # "hard" => (StationRequired => checked.stationHealthy)
        /\ verdict = "soft" => GazeboRequired
    BY <1>0, CheckFacts, BoundAssumption
  <2>3. \/ verdict \in {"hard", "soft"} /\ AuthorityFails(checked, verdict = "hard")
        \/ /\ verdict # "hard" /\ auth' = checked
           /\ UNCHANGED <<now, mappers, event, admitted>>
        \/ /\ verdict # "hard" /\ auth' = checked
           /\ mappers' = [r \in Routes |-> PollMapper(mappers[r], now)]
           /\ EmitStateTransition
           /\ UNCHANGED <<now, admitted>>
    BY DEF Poll
  <2> HIDE DEF checked, verdict
  <2>4. verdict # "hard" => AuthorityInv(checked)
    BY <1>0, <2>1, <2>2, InvCarries
  <2> QED
    BY <2>1, <2>2, <2>3, <2>4 DEF Shapes, FailShape, QuietShape, PollShape
<1>5. CASE FailEpochFence
  BY <1>0, <1>5 DEF FailEpochFence, FailShape, Shapes
<1>6. CASE UNCHANGED vars
  BY <1>6 DEF vars, Shapes
<1> QED
  BY <1>1, <1>2, <1>3, <1>4, <1>5, <1>6 DEF Next, Shapes

-----------------------------------------------------------------------------
(* The authority's cached health *)

\* A failed authority satisfies the authority invariant.
LEMMA FailInv ==
  ASSUME NEW a \in Authority, NEW immediate \in BOOLEAN, AuthorityInv(auth),
         SameLife(auth, a), immediate \/ GazeboRequired
  PROVE  AuthorityInv(FailAuthority(a, immediate))
<1>1. ~GazeboRequired => FailAuthority(a, immediate).state = "lost"
  BY FailFacts DEF SameLife
<1> QED
  BY <1>1, FailFacts DEF AuthorityInv, HealthOf

\* The authority invariant is inductive.
LEMMA AuthorityInvStep ==
  ASSUME TypeOK, AuthorityInv(auth), [Next]_vars
  PROVE  AuthorityInv(auth')
<1>1. Shapes
  BY StepShape
<1>2. CASE UNCHANGED <<auth, mappers, event, admitted>>
  BY <1>2
<1>3. CASE FailShape
  BY <1>3, FailInv DEF FailShape, AuthorityFails
<1> QED
  BY <1>1, <1>2, <1>3
     DEF Shapes, QuietShape, ClockShape, SkewShape, PollShape, DeliverShape

\* The constructor's authority satisfies it.
LEMMA AuthorityInvInit == Init => AuthorityInv(auth)
BY ModeAssumption
   DEF Init, InitialAuthority, AuthorityInv, RefreshAuthorityHealth, HealthOf,
       GazeboRequired, StationRequired, ClockReady

\* In every mode the cached health is current and the authority is Locked
\* exactly while it is healthy.
THEOREM HealthAlwaysCurrent == Spec => []HealthIsCurrent
<1>1. AuthorityInv(auth) => HealthIsCurrent
  BY DEF AuthorityInv, HealthIsCurrent, HealthOf
<1>2. TypeOK /\ AuthorityInv(auth) /\ [Next]_vars => AuthorityInv(auth)'
  BY AuthorityInvStep
<1> QED
  BY <1>1, <1>2, AuthorityInvInit, TypeCorrect, PTL DEF Spec
=============================================================================
