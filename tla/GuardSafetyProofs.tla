------------------------- MODULE GuardSafetyProofs -------------------------
(***************************************************************************)
(* Theorems about the guard as a whole: how the routes follow the          *)
(* authority, what a lock rests on, what the events tell, that the guard   *)
(* implements AdmissionGate, and that a gate left open by a poll or found  *)
(* open by the health check is open for a reason.  They are proved shape   *)
(* by shape, from what SessionClockGuardProofs shows of every step.        *)
(***************************************************************************)
EXTENDS SessionClockGuardProofs

-----------------------------------------------------------------------------
(* What a step does to one route *)

\* The lock of a route rests on evidence.
EvidenceInv(m) ==
  /\ m.state = "locked" =>
       /\ \A s \in Stream : m.seen[s]
       /\ m.failures = 0
       /\ m.healthy >= MinLockSamples \/ m.healthy >= RecoverLockSamples
  /\ m.state = "degraded" => m.healthy = m.recovery /\ m.failures <= LostAfterFailures

\* A route stays as it is, fails, or accepts a sample under an authority that
\* is not merely waiting.
RouteStays(r) == mappers'[r] = mappers[r]
RouteFails(r) ==
  \E immediate \in BOOLEAN : mappers'[r] = RecordFailure(mappers[r], immediate)
RouteAccepts(r) ==
  /\ auth'.state \in {"locked", "lost"}
  /\ \E o \in Observation :
       Accepts(mappers[r], o) /\ mappers'[r] = Accept(mappers[r], o)

\* Increment is monotone.
LEMMA IncrementMonotone ==
  ASSUME NEW m \in Counter, NEW n \in Counter, m <= n
  PROVE  Increment(m) <= Increment(n)
BY ThresholdAssumption DEF Counter, Increment

\* recordFailure closes the route, counts, and leaves the timelines alone.
LEMMA RecordFailureFacts ==
  ASSUME NEW m \in Mapper, NEW immediate \in BOOLEAN
  PROVE  LET n == RecordFailure(m, immediate)
         IN  /\ n.state \in {"degraded", "lost"}
             /\ LifeMove(m.state, n.state)
             /\ m.failures <= n.failures
             /\ m.state # "lost" =>
                  /\ n.failures = Increment(m.failures)
                  /\ n.healthy = 0 /\ n.recovery = 0
                  /\ n.state = IF immediate \/ n.failures >= LostAfterFailures
                               THEN "lost" ELSE "degraded"
             /\ n.seen = m.seen /\ n.raw = m.raw /\ n.mono = m.mono
             /\ n.window = m.window
<1> DEFINE k == Increment(m.failures)
           st == IF immediate \/ k >= LostAfterFailures
                 THEN "lost" ELSE "degraded"
           n == [m EXCEPT !.failures = k, !.healthy = 0, !.recovery = 0,
                          !.state = st]
<1>1. RecordFailure(m, immediate) = IF m.state = "lost" THEN m ELSE n
  BY DEF RecordFailure
<1>2. m.failures <= m.failures /\ m.failures <= k
  <2>1. m.failures \in Counter
    BY DEF Mapper
  <2>2. k \in Counter /\ k >= m.failures
    BY <2>1, IncrementType, Zenon
  <2>3. m.failures \in Nat /\ k \in Nat
    BY <2>1, <2>2, CounterFacts
  <2> HIDE DEF k
  <2> QED
    BY <2>2, <2>3
<1>3. st = IF immediate \/ k >= LostAfterFailures THEN "lost" ELSE "degraded"
  OBVIOUS
<1> HIDE DEF k, st
<1>4. /\ n.failures = k /\ n.healthy = 0 /\ n.recovery = 0 /\ n.state = st
      /\ n.seen = m.seen /\ n.raw = m.raw /\ n.mono = m.mono
      /\ n.window = m.window
  BY DEF Mapper
<1> HIDE DEF n
<1> QED
  BY <1>1, <1>2, <1>3, <1>4 DEF LifeMove, k

\* Accepting a sample clears the failures, moves the timeline of its stream
\* and never loses or resets the route.
LEMMA AcceptFacts ==
  ASSUME NEW m \in Mapper, NEW o \in Observation, Accepts(m, o)
  PROVE  LET n == Accept(m, o)
         IN  /\ LifeMove(m.state, n.state)
             /\ m.state # "lost" /\ n.state # "lost"
             /\ n.failures = 0
             /\ n.seen = [m.seen EXCEPT ![o.stream] = TRUE]
             /\ n.raw = [m.raw EXCEPT ![o.stream] = o.raw]
             /\ n.mono = [m.mono EXCEPT ![o.stream] = o.mono]
             /\ n.state = "locked" /\ m.state # "locked" =>
                  \A s \in Stream : m.seen[s] \/ s = o.stream
BY DEF Accept, Accepts, LifeMove

\* Failures, and samples accepted before and after a failure, keep the
\* evidence of a lock.
LEMMA EvidenceFails ==
  ASSUME NEW m \in Mapper, NEW immediate \in BOOLEAN, EvidenceInv(m)
  PROVE  EvidenceInv(RecordFailure(m, immediate))
<1> DEFINE n == RecordFailure(m, immediate)
<1>1. CASE m.state = "lost"
  BY <1>1 DEF RecordFailure
<1>2. CASE m.state # "lost"
  <2>1. /\ n.healthy = 0 /\ n.recovery = 0
        /\ n.state = IF immediate \/ n.failures >= LostAfterFailures
                     THEN "lost" ELSE "degraded"
    BY <1>2, RecordFailureFacts
  <2>2. n.failures \in Nat
    BY RecordFailureType, CounterFacts DEF Mapper
  <2> HIDE DEF n
  <2>3. EvidenceInv(n)
    BY <2>1, <2>2, ThresholdAssumption DEF EvidenceInv
  <2> QED
    BY <2>3 DEF n
<1> QED
  BY <1>1, <1>2

LEMMA EvidenceAccepts ==
  ASSUME NEW m \in Mapper, NEW o \in Observation, Accepts(m, o), EvidenceInv(m)
  PROVE  EvidenceInv(Accept(m, o))
<1> DEFINE fresh == o.raw > m.counted
           healthy == IF fresh THEN Increment(m.healthy) ELSE m.healthy
           recovery == IF fresh /\ m.state = "degraded"
                       THEN Increment(m.recovery) ELSE m.recovery
           bothSeen == \A s \in Stream : m.seen[s] \/ s = o.stream
           locks == /\ m.state = "initializing"
                    /\ bothSeen
                    /\ healthy >= MinLockSamples
           relocks == /\ m.state = "degraded"
                      /\ bothSeen
                      /\ recovery >= RecoverLockSamples
           n == Accept(m, o)
<1>1. /\ healthy \in Nat /\ recovery \in Nat
      /\ m.healthy \in Nat /\ healthy >= m.healthy
  <2>1. m.healthy \in Counter /\ m.recovery \in Counter
    BY DEF Mapper
  <2>2. healthy \in Counter /\ recovery \in Counter
    BY <2>1, IncrementType
  <2>3. healthy = m.healthy \/ healthy >= m.healthy
    BY <2>1, IncrementType, Zenon
  <2> HIDE DEF healthy, recovery
  <2>4. m.healthy \in Nat /\ healthy \in Nat /\ recovery \in Nat
    BY <2>1, <2>2, CounterFacts
  <2> QED
    BY <2>3, <2>4
<1>2. m.state = "degraded" => healthy = recovery
  BY DEF EvidenceInv
<1>3. /\ n.state = IF locks \/ relocks THEN "locked" ELSE m.state
      /\ n.healthy = healthy
      /\ n.recovery = IF relocks THEN 0 ELSE recovery
      /\ n.failures = 0
      /\ n.seen = [m.seen EXCEPT ![o.stream] = TRUE]
  BY DEF Accept
<1>4. m.seen \in [Stream -> BOOLEAN]
  BY DEF Mapper
<1> HIDE DEF fresh, healthy, recovery, n
<1>5. n.state = "locked" => /\ m.state \in {"locked", "initializing", "degraded"}
                            /\ m.state # "locked" => locks \/ relocks
  BY <1>3
<1>6. n.state = "locked" => \A s \in Stream : n.seen[s]
  BY <1>3, <1>4, <1>5 DEF EvidenceInv
<1>7. n.state = "locked" =>
        n.healthy >= MinLockSamples \/ n.healthy >= RecoverLockSamples
  BY <1>1, <1>2, <1>3, <1>5, ThresholdAssumption DEF EvidenceInv
<1>8. n.state = "degraded" => n.healthy = n.recovery
  BY <1>2, <1>3
<1>9. EvidenceInv(n)
  BY <1>3, <1>6, <1>7, <1>8, ThresholdAssumption DEF EvidenceInv
<1> QED
  BY <1>9 DEF n

\* poll leaves a mapper alone or fails it.
LEMMA PollCases ==
  ASSUME NEW m \in Mapper, NEW at \in Nat
  PROVE  \/ PollMapper(m, at) = m
         \/ \E immediate \in BOOLEAN : PollMapper(m, at) = RecordFailure(m, immediate)
<1> DEFINE overdue == {s \in Stream : Overdue(m, s, at)}
           first == IF "pose" \in overdue THEN "pose" ELSE "twist"
           hard == ~m.seen[first] \/ at < SilenceReference(m, first)
<1>1. hard \in BOOLEAN
  OBVIOUS
<1>2. PollMapper(m, at) = IF overdue = {} THEN m ELSE RecordFailure(m, hard)
  BY DEF PollMapper
<1> HIDE DEF overdue, hard
<1> QED
  BY <1>1, <1>2

\* observe leaves a mapper alone, fails it or accepts the sample.
LEMMA ObserveCases ==
  ASSUME NEW m \in Mapper, NEW o \in Observation
  PROVE  \/ ObserveMapper(m, o) = m
         \/ \E immediate \in BOOLEAN :
              ObserveMapper(m, o) = RecordFailure(m, immediate)
         \/ Accepts(m, o) /\ ObserveMapper(m, o) = Accept(m, o)
BY DEF ObserveMapper

\* Every step leaves every route in one of the three ways.
LEMMA RouteSteps ==
  ASSUME TypeOK, AuthorityInv(auth), [Next]_vars, NEW r \in Routes
  PROVE  RouteStays(r) \/ RouteFails(r) \/ RouteAccepts(r)
<1>0. now \in Nat /\ mappers \in [Routes -> Mapper] /\ mappers[r] \in Mapper
  BY ThresholdAssumption, BoundAssumption DEF TypeOK
<1>1. CASE UNCHANGED mappers
  BY <1>1 DEF RouteStays
<1>2. CASE FailShape
  BY <1>2 DEF FailShape, AuthorityFails, FailRoutes, RouteFails
<1>3. CASE SkewShape
  <2> PICK q \in Routes :
        mappers' = [mappers EXCEPT ![q] = RecordFailure(@, FALSE)]
    BY <1>3 DEF SkewShape
  <2> QED
    BY <1>0 DEF RouteStays, RouteFails
<1>4. CASE PollShape
  <2>1. mappers'[r] = PollMapper(mappers[r], now)
    BY <1>4 DEF PollShape
  <2> QED
    BY <1>0, <2>1, PollCases DEF RouteStays, RouteFails
<1>5. CASE DeliverShape
  <2> PICK q \in Routes, o \in Observation : Deliver(auth', q, o)
    BY <1>5 DEF DeliverShape
  <2>1. auth'.state \in {"locked", "lost"}
    BY <1>5 DEF DeliverShape, AuthorityInv, HealthOf
  <2>2. mappers' = [mappers EXCEPT ![q] = ObserveMapper(@, o)]
    BY DEF Deliver
  <2>3. CASE q # r
    BY <1>0, <2>2, <2>3 DEF RouteStays
  <2>4. CASE q = r
    <3>1. mappers'[r] = ObserveMapper(mappers[r], o)
      BY <1>0, <2>2, <2>4
    <3> QED
      BY <1>0, <2>1, <3>1, ObserveCases DEF RouteStays, RouteFails, RouteAccepts
  <2> QED
    BY <2>3, <2>4
<1> QED
  BY <1>1, <1>2, <1>3, <1>4, <1>5, StepShape DEF Shapes, QuietShape, ClockShape

\* A route's life follows the same rule as the authority's.
LEMMA RouteLife ==
  ASSUME TypeOK, AuthorityInv(auth), [Next]_vars, NEW r \in Routes
  PROVE  LifeMove(mappers[r].state, mappers'[r].state)
<1>1. mappers[r] \in Mapper
  BY DEF TypeOK
<1>2. CASE RouteStays(r)
  BY <1>2 DEF RouteStays, LifeMove
<1>3. CASE RouteFails(r)
  BY <1>1, <1>3, RecordFailureFacts DEF RouteFails
<1>4. CASE RouteAccepts(r)
  BY <1>1, <1>4, AcceptFacts DEF RouteAccepts
<1> QED
  BY <1>2, <1>3, <1>4, RouteSteps

\* The invariants that every argument below starts from.
BaseInv == TypeOK /\ AuthorityInv(auth)

LEMMA BaseInvariant == Spec => []BaseInv
<1>1. Init => BaseInv
  BY TypeInit, AuthorityInvInit DEF BaseInv
<1>2. BaseInv /\ [Next]_vars => BaseInv'
  BY TypeStep, AuthorityInvStep DEF BaseInv
<1> QED
  BY <1>1, <1>2, PTL DEF Spec

-----------------------------------------------------------------------------
(* Locks rest on evidence *)

\* The evidence of every route survives every step.
LEMMA EvidenceStep ==
  BaseInv /\ (\A r \in Routes : EvidenceInv(mappers[r])) /\ [Next]_vars
    => (\A r \in Routes : EvidenceInv(mappers[r]))'
<1> SUFFICES ASSUME BaseInv, \A r \in Routes : EvidenceInv(mappers[r]),
                    [Next]_vars, NEW r \in Routes
             PROVE  EvidenceInv(mappers'[r])
  OBVIOUS
<1>1. mappers[r] \in Mapper /\ EvidenceInv(mappers[r])
  BY DEF BaseInv, TypeOK
<1>2. CASE RouteStays(r)
  BY <1>1, <1>2 DEF RouteStays
<1>3. CASE RouteFails(r)
  BY <1>1, <1>3, EvidenceFails DEF RouteFails
<1>4. CASE RouteAccepts(r)
  BY <1>1, <1>4, EvidenceAccepts DEF RouteAccepts
<1> QED
  BY <1>2, <1>3, <1>4, RouteSteps DEF BaseInv

\* For every policy and route table: a locked route has seen both streams,
\* has no failure on its record and has the healthy samples its lock needs; a
\* degraded one counts its recovery from its last failure.
THEOREM LocksRestOnEvidence == Spec => []LockRestsOnEvidence
<1> DEFINE Inv == \A r \in Routes : EvidenceInv(mappers[r])
<1>1. Init => Inv
  BY DEF Init, InitialMapper, EvidenceInv
<1>2. Inv => LockRestsOnEvidence
  BY DEF LockRestsOnEvidence, EvidenceInv
<1>3. BaseInv /\ Inv /\ [Next]_vars => Inv'
  BY EvidenceStep
<1> QED
  BY <1>1, <1>2, <1>3, BaseInvariant, PTL DEF Spec

-----------------------------------------------------------------------------
(* No route outlives its clock *)

\* A route that is not lost has counted at least the authority's failures: an
\* accepted sample clears them only under a Locked authority, which has none.
LossInv ==
  /\ AuthorityLossReachesRoutes
  /\ \A r \in Routes :
       mappers[r].state # "lost" => auth.failures <= mappers[r].failures

LEMMA LossStep == BaseInv /\ LossInv /\ [Next]_vars => LossInv'
<1> SUFFICES ASSUME BaseInv, LossInv, [Next]_vars, NEW r \in Routes
             PROVE  /\ auth'.state = "lost" => mappers'[r].state = "lost"
                    /\ mappers'[r].state # "lost"
                         => auth'.failures <= mappers'[r].failures
  BY DEF LossInv, AuthorityLossReachesRoutes
<1>0. /\ auth \in Authority /\ AuthorityInv(auth)
      /\ mappers[r] \in Mapper /\ mappers'[r] \in Mapper
      /\ auth' \in Authority /\ AuthorityInv(auth')
  BY TypeStep, AuthorityInvStep DEF BaseInv, TypeOK
<1>1. /\ auth.state = "lost" => mappers[r].state = "lost"
      /\ mappers[r].state # "lost" => auth.failures <= mappers[r].failures
  BY DEF LossInv, AuthorityLossReachesRoutes
<1>2. /\ auth.failures \in Nat /\ auth'.failures \in Nat
      /\ mappers[r].failures \in Nat /\ mappers'[r].failures \in Nat
  BY <1>0, CounterFacts DEF Authority, Mapper
<1>3. CASE FailShape
  <2> PICK a \in Authority, immediate \in BOOLEAN :
             SameLife(auth, a) /\ AuthorityFails(a, immediate)
    BY <1>3 DEF FailShape
  <2>1. /\ auth' = FailAuthority(a, immediate)
        /\ mappers'[r] = RecordFailure(mappers[r], immediate)
    BY DEF AuthorityFails, FailRoutes
  <2>2. CASE mappers[r].state = "lost"
    BY <2>1, <2>2 DEF RecordFailure
  <2>3. CASE mappers[r].state # "lost"
    <3>1. /\ auth'.failures = Increment(auth.failures)
          /\ auth'.state = IF immediate \/ auth'.failures >= LostAfterFailures
                           THEN "lost" ELSE "degraded"
      BY <1>1, <2>1, <2>3, FailFacts DEF SameLife
    <3>2. /\ mappers'[r].failures = Increment(mappers[r].failures)
          /\ mappers'[r].state = IF immediate
                                    \/ mappers'[r].failures >= LostAfterFailures
                                 THEN "lost" ELSE "degraded"
      BY <1>0, <2>1, <2>3, RecordFailureFacts
    <3>3. auth'.failures <= mappers'[r].failures
      <4>1. auth.failures \in Counter /\ mappers[r].failures \in Counter
        BY <1>0 DEF Authority, Mapper
      <4> QED
        BY <1>1, <2>3, <3>1, <3>2, <4>1, IncrementMonotone
    <3> QED
      BY <1>2, <3>1, <3>2, <3>3, ThresholdAssumption
  <2> QED
    BY <2>2, <2>3
<1>4. CASE ~FailShape
  <2>1. /\ auth'.failures <= auth.failures
        /\ auth'.state = "lost" => auth.state = "lost"
    <3>1. SameLife(auth, auth') \/ ClockShape
      BY <1>4, StepShape
         DEF BaseInv, Shapes, QuietShape, SkewShape, PollShape, DeliverShape,
             SameLife
    <3>2. CASE SameLife(auth, auth')
      BY <1>2, <3>2 DEF SameLife
    <3>3. CASE ClockShape
      BY <3>3 DEF ClockShape
    <3> QED
      BY <3>1, <3>2, <3>3
  <2>2. CASE RouteStays(r)
    BY <1>1, <1>2, <2>1, <2>2 DEF RouteStays
  <2>3. CASE RouteFails(r)
    <3>1. /\ LifeMove(mappers[r].state, mappers'[r].state)
          /\ mappers[r].failures <= mappers'[r].failures
      BY <1>0, <2>3, RecordFailureFacts DEF RouteFails
    <3> QED
      BY <1>1, <1>2, <2>1, <3>1 DEF LifeMove
  <2>4. CASE RouteAccepts(r)
    <3> PICK o \in Observation :
              Accepts(mappers[r], o) /\ mappers'[r] = Accept(mappers[r], o)
      BY <2>4 DEF RouteAccepts
    <3> DEFINE m == mappers[r]
    <3>1. m.state # "lost" /\ Accept(m, o).failures = 0
      <4>1. m \in Mapper /\ Accepts(m, o)
        BY <1>0
      <4> HIDE DEF m
      <4> QED
        BY <4>1, AcceptFacts
    <3>2. auth'.state = "locked"
      BY <1>1, <2>1, <2>4, <3>1 DEF RouteAccepts
    <3> QED
      BY <1>0, <3>1, <3>2 DEF AuthorityInv
  <2> QED
    BY <2>2, <2>3, <2>4, RouteSteps DEF BaseInv
<1> QED
  BY <1>3, <1>4

\* For every route table, threshold and interleaving of failures and accepted
\* samples: when failAuthority loses the clock, it has lost every route.
THEOREM NoRouteOutlivesItsClock == Spec => []AuthorityLossReachesRoutes
<1>1. Init => LossInv
  <2> SUFFICES ASSUME Init PROVE LossInv
    OBVIOUS
  <2>1. auth.state # "lost" /\ auth.failures = 0
    BY DEF Init, InitialAuthority, RefreshAuthorityHealth
  <2> QED
    BY <2>1 DEF Init, InitialMapper, LossInv, AuthorityLossReachesRoutes
<1>2. LossInv => AuthorityLossReachesRoutes
  BY DEF LossInv
<1> QED
  BY <1>1, <1>2, LossStep, BaseInvariant, PTL DEF Spec

-----------------------------------------------------------------------------
(* The aggregate moves like the gate *)

Aggregate == AggregateState(auth, mappers)

\* The aggregate of a sound authority is the worst of the states.
LEMMA AggregateFacts ==
  ASSUME NEW a \in Authority, AuthorityInv(a), NEW ms \in [Routes -> Mapper]
  PROVE  LET g == AggregateState(a, ms)
         IN  /\ g \in GuardState
             /\ g = "lost" <=>
                  a.state = "lost" \/ \E r \in Routes : ms[r].state = "lost"
             /\ g = "locked" <=>
                  a.state = "locked" /\ \A r \in Routes : ms[r].state = "locked"
             /\ g = "locked" => a.healthy
             /\ g = "initializing" =>
                  \/ a.state = "initializing"
                  \/ \E r \in Routes : ms[r].state = "initializing"
<1> DEFINE states == {ms[r].state : r \in Routes} \cup {a.state}
           Some(st) == a.state = st \/ \E r \in Routes : ms[r].state = st
           g == AggregateState(a, ms)
<1>1. /\ a.state \in GuardState
      /\ a.state = "locked" => a.healthy
      /\ a.healthy => a.state = "locked"
      /\ \A r \in Routes : ms[r].state \in GuardState
  BY DEF Authority, Mapper, AuthorityInv, HealthOf
<1>2. g = IF "lost" \in states THEN "lost"
          ELSE IF "degraded" \in states THEN "degraded"
          ELSE IF "initializing" \in states \/ ~a.healthy
               THEN "initializing" ELSE "locked"
  BY DEF AggregateState
<1>3. /\ "lost" \in states <=> Some("lost")
      /\ "degraded" \in states <=> Some("degraded")
      /\ "initializing" \in states <=> Some("initializing")
  OBVIOUS
<1> HIDE DEF states, g
<1>4. g = IF Some("lost") THEN "lost"
          ELSE IF Some("degraded") THEN "degraded"
          ELSE IF Some("initializing") \/ ~a.healthy
               THEN "initializing" ELSE "locked"
  BY <1>2, <1>3
<1>5. (a.state = "locked" /\ \A r \in Routes : ms[r].state = "locked")
        <=> ~Some("lost") /\ ~Some("degraded") /\ ~Some("initializing")
  BY <1>1 DEF GuardState
<1>6. ~a.healthy => Some("lost") \/ Some("degraded") \/ Some("initializing")
  BY <1>1 DEF GuardState
<1> HIDE DEF Some
<1>7. /\ g \in GuardState
      /\ g = "lost" <=> Some("lost")
      /\ g = "locked" <=> ~Some("lost") /\ ~Some("degraded") /\ ~Some("initializing")
      /\ g = "initializing" => Some("initializing")
  BY <1>4, <1>6 DEF GuardState
<1> QED
  BY <1>1, <1>5, <1>7 DEF Some, g

\* Nothing leaves lost and nothing goes back to initializing, so neither does
\* an aggregate that was locked.
LEMMA AggregateMoves ==
  ASSUME BaseInv, [Next]_vars
  PROVE  Aggregate' \in Moves[Aggregate] \cup {Aggregate}
<1>1. BaseInv'
  BY TypeStep, AuthorityInvStep DEF BaseInv
<1>2. LifeMove(auth.state, auth'.state)
  <2>1. CASE FailShape
    BY <2>1, FailFacts DEF FailShape, AuthorityFails, SameLife, LifeMove
  <2> QED
    BY <2>1, StepShape
       DEF BaseInv, Shapes, QuietShape, ClockShape, SkewShape, PollShape,
           DeliverShape, SameLife, LifeMove
<1>3. \A r \in Routes : LifeMove(mappers[r].state, mappers'[r].state)
  BY RouteLife DEF BaseInv
<1>0. /\ auth \in Authority /\ AuthorityInv(auth) /\ mappers \in [Routes -> Mapper]
      /\ auth' \in Authority /\ AuthorityInv(auth') /\ mappers' \in [Routes -> Mapper]
  BY <1>1 DEF BaseInv, TypeOK
<1>4. /\ Aggregate \in GuardState /\ Aggregate' \in GuardState
  BY <1>0, AggregateFacts DEF Aggregate
<1>5. Aggregate = "lost" => Aggregate' = "lost"
  BY <1>0, <1>2, <1>3, AggregateFacts DEF LifeMove, Aggregate
<1>6. Aggregate = "locked" => Aggregate' # "initializing"
  <2>1. Aggregate = "locked" =>
          /\ auth'.state # "initializing"
          /\ \A r \in Routes : mappers'[r].state # "initializing"
    BY <1>0, <1>2, <1>3, AggregateFacts DEF LifeMove, Aggregate
  <2>2. Aggregate' = "initializing" =>
          \/ auth'.state = "initializing"
          \/ \E r \in Routes : mappers'[r].state = "initializing"
    BY <1>0, AggregateFacts DEF Aggregate
  <2> QED
    BY <2>1, <2>2
<1> QED
  BY <1>4, <1>5, <1>6 DEF Moves, GuardState

\* A callback that emits nothing leaves the aggregate alone.
LEMMA SilentSteps ==
  ASSUME BaseInv, [Next]_vars
  PROVE  \/ EmitStateTransition
         \/ Aggregate' = Aggregate /\ UNCHANGED event
<1>1. BaseInv'
  BY TypeStep, AuthorityInvStep DEF BaseInv
<1>2. CASE UNCHANGED <<auth, mappers, event, admitted>>
  BY <1>2 DEF Aggregate, AggregateState
<1>3. CASE QuietShape
  <2>1. /\ auth'.state = auth.state /\ UNCHANGED <<mappers, event>>
        /\ auth'.healthy = auth.healthy
    BY <1>3, <1>1 DEF QuietShape, SameLife, BaseInv, AuthorityInv, HealthOf, TypeOK,
       Authority
  <2> QED
    BY <2>1 DEF Aggregate, AggregateState
<1> QED
  BY <1>2, <1>3, StepShape
     DEF BaseInv, Shapes, FailShape, AuthorityFails, ClockShape, SkewShape,
         PollShape, DeliverShape, Deliver

-----------------------------------------------------------------------------
(* The events tell the aggregate *)

LEMMA EventStep == BaseInv /\ EventTracksAggregate /\ [Next]_vars
                     => EventTracksAggregate'
<1> SUFFICES ASSUME BaseInv, EventTracksAggregate, [Next]_vars
             PROVE  EventTracksAggregate'
  OBVIOUS
<1>1. Aggregate' \in Moves[Aggregate] \cup {Aggregate}
  BY AggregateMoves
<1>2. Aggregate \in GuardState
  BY AggregateFacts DEF BaseInv, TypeOK, Aggregate
<1>3. /\ Aggregate # "initializing" => event = Aggregate
      /\ event \in {"locked", "lost"} => Aggregate = event
  BY DEF EventTracksAggregate, Aggregate
<1>4. EmitStateTransition =>
        event' = IF Aggregate' \in {Aggregate, "initializing"}
                 THEN event ELSE Aggregate'
  BY DEF EmitStateTransition, Aggregate
<1>5. /\ Aggregate' # "initializing" => event' = Aggregate'
      /\ event' \in {"locked", "lost"} => Aggregate' = event'
  BY <1>1, <1>2, <1>3, <1>4, SilentSteps DEF Moves, GuardState
<1> QED
  BY <1>5 DEF EventTracksAggregate, Aggregate

\* Whoever only follows the transition events knows whether output is open,
\* and whether the epoch is lost, in every mode and for every route table.
THEOREM EventsTellTheAggregate == Spec => []EventTracksAggregate
<1>1. Init => EventTracksAggregate
  <2> SUFFICES ASSUME Init PROVE EventTracksAggregate
    OBVIOUS
  <2>1. BaseInv
    BY TypeInit, AuthorityInvInit DEF BaseInv
  <2>2. /\ auth.state \in {"initializing", "locked"}
        /\ \A r \in Routes : mappers[r].state = "initializing"
    BY DEF Init, InitialAuthority, RefreshAuthorityHealth, InitialMapper
  <2>3. Aggregate \in {"initializing", "locked"}
    BY <2>2 DEF Aggregate, AggregateState
  <2>4. event = IF Aggregate = "locked" THEN "locked" ELSE "new_epoch"
    BY DEF Init, Aggregate
  <2> QED
    BY <2>3, <2>4 DEF EventTracksAggregate, Aggregate
<1> QED
  BY <1>1, EventStep, BaseInvariant, PTL DEF Spec

-----------------------------------------------------------------------------
(* The guard implements the admission gate *)

\* What was projected of a stream is not ahead of what its mapper has seen.
ForwardInv ==
  \A r \in Routes, s \in Stream :
    /\ admitted[r][s] <= mappers[r].raw[s]
    /\ ~mappers[r].seen[s] => mappers[r].raw[s] = 0

\* An accepted sample is newer than every earlier one of its stream.
LEMMA AcceptMovesForward ==
  ASSUME NEW m \in Mapper, NEW o \in Observation, Accepts(m, o),
         ~m.seen[o.stream] => m.raw[o.stream] = 0
  PROVE  o.raw > m.raw[o.stream]
<1>1. o.raw \in Nat /\ m.raw[o.stream] \in Nat /\ o.stream \in Stream
  BY DEF Mapper, Observation
<1>2. ~HardViolation(m, o) /\ ~Waiting(m, o) /\ ~Duplicate(m, o)
  BY DEF Accepts
<1>3. o.raw # 0
  BY <1>2 DEF HardViolation
<1> QED
  BY <1>1, <1>2, <1>3 DEF HardViolation, Duplicate

\* Only a delivered sample that its mapper accepts is projected, and only
\* while the whole Session is locked.
LEMMA Projections ==
  ASSUME BaseInv, ForwardInv, [Next]_vars
  PROVE  \/ UNCHANGED admitted
         \/ \E r \in Routes, o \in Observation :
              /\ Accepts(mappers[r], o)
              /\ mappers' = [mappers EXCEPT ![r] = Accept(mappers[r], o)]
              /\ Aggregate' = "locked"
              /\ admitted' = [admitted EXCEPT ![r][o.stream] = o.raw]
              /\ o.raw > mappers[r].raw[o.stream]
<1>1. CASE DeliverShape
  <2> PICK r \in Routes, o \in Observation : Deliver(auth', r, o)
    BY <1>1 DEF DeliverShape
  <2> DEFINE m == mappers[r]
  <2>1. m \in Mapper /\ o.stream \in Stream
    BY DEF BaseInv, TypeOK, Observation
  <2>2. SUFFICES ASSUME Accepts(m, o), SensitiveOutputAllowed(auth', mappers')
                 PROVE  /\ mappers' = [mappers EXCEPT ![r] = Accept(m, o)]
                        /\ Aggregate' = "locked"
                        /\ admitted' = [admitted EXCEPT ![r][o.stream] = o.raw]
                        /\ o.raw > m.raw[o.stream]
    BY DEF Deliver
  <2>3. Aggregate' = "locked"
    BY <2>2 DEF SensitiveOutputAllowed, Aggregate
  <2>4. ObserveMapper(m, o) = Accept(m, o)
    BY <2>2 DEF ObserveMapper, Accepts
  <2>5. ~m.seen[o.stream] => m.raw[o.stream] = 0
    BY <2>1 DEF ForwardInv
  <2>6. o.raw > m.raw[o.stream]
    <3> HIDE DEF m
    <3> QED
      BY <2>1, <2>2, <2>5, AcceptMovesForward
  <2> QED
    BY <2>2, <2>3, <2>4, <2>6 DEF Deliver
<1> QED
  BY <1>1, StepShape
     DEF BaseInv, Shapes, FailShape, AuthorityFails, QuietShape, ClockShape,
         SkewShape, PollShape

LEMMA ForwardStep == BaseInv /\ ForwardInv /\ [Next]_vars => ForwardInv'
<1> SUFFICES ASSUME BaseInv, ForwardInv, [Next]_vars,
                    NEW r \in Routes, NEW s \in Stream
             PROVE  /\ admitted'[r][s] <= mappers'[r].raw[s]
                    /\ ~mappers'[r].seen[s] => mappers'[r].raw[s] = 0
  BY DEF ForwardInv
<1> DEFINE m == mappers[r]
<1>1. /\ m \in Mapper /\ m.raw[s] \in Nat /\ m.seen[s] \in BOOLEAN
      /\ m.raw \in [Stream -> Nat] /\ m.seen \in [Stream -> BOOLEAN]
      /\ admitted[r][s] \in Nat
      /\ admitted \in [Routes -> [Stream -> Nat]]
      /\ mappers \in [Routes -> Mapper]
  BY DEF BaseInv, TypeOK, Mapper
<1>2. admitted[r][s] <= m.raw[s] /\ (~m.seen[s] => m.raw[s] = 0)
  BY DEF ForwardInv
<1>3. \/ mappers'[r].raw = m.raw /\ mappers'[r].seen = m.seen
      \/ \E o \in Observation :
           /\ o.raw > m.raw[o.stream]
           /\ mappers'[r].raw = [m.raw EXCEPT ![o.stream] = o.raw]
           /\ mappers'[r].seen = [m.seen EXCEPT ![o.stream] = TRUE]
  <2>1. CASE RouteStays(r)
    BY <2>1 DEF RouteStays
  <2>2. CASE RouteFails(r)
    <3> PICK immediate \in BOOLEAN : mappers'[r] = RecordFailure(m, immediate)
      BY <2>2 DEF RouteFails
    <3> HIDE DEF m
    <3> QED
      BY <1>1, RecordFailureFacts
  <2>3. CASE RouteAccepts(r)
    <3> PICK o \in Observation : Accepts(m, o) /\ mappers'[r] = Accept(m, o)
      BY <2>3 DEF RouteAccepts
    <3>1. o.stream \in Stream
      BY DEF Observation
    <3>2. ~m.seen[o.stream] => m.raw[o.stream] = 0
      BY <3>1 DEF ForwardInv
    <3> HIDE DEF m
    <3>3. o.raw > m.raw[o.stream]
      BY <1>1, <3>2, AcceptMovesForward
    <3>4. /\ Accept(m, o).raw = [m.raw EXCEPT ![o.stream] = o.raw]
          /\ Accept(m, o).seen = [m.seen EXCEPT ![o.stream] = TRUE]
      BY <1>1, AcceptFacts
    <3> QED
      BY <3>3, <3>4
  <2> QED
    BY <2>1, <2>2, <2>3, RouteSteps DEF BaseInv
<1> HIDE DEF m
<1>4. m.raw[s] <= mappers'[r].raw[s] /\ mappers'[r].raw[s] \in Nat
      /\ (~mappers'[r].seen[s] => mappers'[r].raw[s] = 0)
  <2>1. CASE mappers'[r].raw = m.raw /\ mappers'[r].seen = m.seen
    BY <1>1, <1>2, <2>1
  <2>2. ASSUME NEW o \in Observation, o.raw > m.raw[o.stream],
               mappers'[r].raw = [m.raw EXCEPT ![o.stream] = o.raw],
               mappers'[r].seen = [m.seen EXCEPT ![o.stream] = TRUE]
        PROVE  /\ m.raw[s] <= mappers'[r].raw[s] /\ mappers'[r].raw[s] \in Nat
               /\ ~mappers'[r].seen[s] => mappers'[r].raw[s] = 0
    <3>1. o.stream \in Stream /\ o.raw \in Nat
      BY DEF Observation
    <3>2. CASE o.stream = s
      <4>1. mappers'[r].raw[s] = o.raw /\ mappers'[r].seen[s] = TRUE
        BY <1>1, <2>2, <3>1, <3>2
      <4> QED
        BY <1>1, <2>2, <3>1, <3>2, <4>1
    <3>3. CASE o.stream # s
      <4>1. mappers'[r].raw[s] = m.raw[s] /\ mappers'[r].seen[s] = m.seen[s]
        BY <1>1, <2>2, <3>1, <3>3
      <4> QED
        BY <1>1, <1>2, <4>1
    <3> QED
      BY <3>2, <3>3
  <2> QED
    BY <1>3, <2>1, <2>2
<1>5. CASE UNCHANGED admitted
  BY <1>1, <1>2, <1>4, <1>5
<1>6. CASE ~UNCHANGED admitted
  <2> PICK q \in Routes, o \in Observation :
             /\ Accepts(mappers[q], o)
             /\ mappers' = [mappers EXCEPT ![q] = Accept(mappers[q], o)]
             /\ admitted' = [admitted EXCEPT ![q][o.stream] = o.raw]
    BY <1>6, Projections
  <2>1. CASE q = r /\ o.stream = s
    <3>1. mappers'[r] = Accept(m, o) /\ Accepts(m, o)
      BY <1>1, <2>1 DEF m
    <3>2. Accept(m, o).raw = [m.raw EXCEPT ![o.stream] = o.raw]
      BY <1>1, <3>1, AcceptFacts
    <3>3. admitted'[r][s] = o.raw /\ o.raw \in Nat
      BY <1>1, <2>1 DEF Observation
    <3> QED
      BY <1>1, <1>4, <2>1, <3>1, <3>2, <3>3
  <2>2. CASE ~(q = r /\ o.stream = s)
    <3>1. admitted'[r][s] = admitted[r][s]
      BY <1>1, <2>2 DEF Observation
    <3> QED
      BY <1>1, <1>2, <1>4, <3>1
  <2> QED
    BY <2>1, <2>2
<1> QED
  BY <1>5, <1>6

LEMMA ForwardInvariant == Spec => [](BaseInv /\ ForwardInv)
<1>1. Init => ForwardInv
  <2>1. Init => \A r \in Routes, s \in Stream :
                  admitted[r][s] = 0 /\ mappers[r].raw[s] = 0
    BY DEF Init, InitialMapper
  <2> QED
    BY <2>1 DEF ForwardInv
<1> QED
  BY <1>1, ForwardStep, BaseInvariant, PTL DEF Spec

\* A step of the guard is a step of the gate, or none.
LEMMA GateStep ==
  BaseInv /\ ForwardInv /\ [Next]_vars => [Gate!GateNext]_(Gate!gateVars)
<1> SUFFICES ASSUME BaseInv, ForwardInv, [Next]_vars
             PROVE  [Gate!GateNext]_(Gate!gateVars)
  OBVIOUS
<1>1. Aggregate' \in Moves[Aggregate] \cup {Aggregate}
  BY AggregateMoves
<1>2. CASE UNCHANGED admitted
  <2>1. CASE Aggregate' = Aggregate
    BY <1>2, <2>1 DEF Gate!gateVars, Aggregate
  <2>2. CASE Aggregate' \in Moves[Aggregate]
    <3>1. AggregateState(auth', mappers') \in Gate!Moves[AggregateState(auth, mappers)]
      BY <2>2 DEF Aggregate, Gate!Moves, Moves, Gate!GuardState, GuardState
    <3>2. Gate!Move
      BY <1>2, <3>1 DEF Gate!Move
    <3> QED
      BY <3>2 DEF Gate!GateNext
  <2> QED
    BY <1>1, <2>1, <2>2
<1>3. CASE ~UNCHANGED admitted
  <2> PICK r \in Routes, o \in Observation :
             /\ Aggregate' = "locked"
             /\ admitted' = [admitted EXCEPT ![r][o.stream] = o.raw]
             /\ o.raw > mappers[r].raw[o.stream]
    BY <1>3, Projections
  <2>1. Aggregate # "lost"
    BY <1>1 DEF Moves
  <2>2. /\ o.stream \in Stream /\ o.raw \in Nat
        /\ admitted \in [Routes -> [Stream -> Nat]]
        /\ mappers[r].raw[o.stream] \in Nat
    BY DEF BaseInv, TypeOK, Observation, Mapper
  <2>3. admitted[r][o.stream] <= mappers[r].raw[o.stream]
    BY <2>2 DEF ForwardInv
  <2>4. admitted'[r][o.stream] = o.raw
    BY <2>2
  <2>5. admitted' = [admitted EXCEPT ![r][o.stream] = admitted'[r][o.stream]]
    BY <2>4, Zenon
  <2>6. admitted'[r][o.stream] > admitted[r][o.stream]
    <3>1. admitted[r][o.stream] \in Nat
      BY <2>2
    <3> QED
      BY <2>2, <2>3, <2>4, <3>1
  <2>7. Gate!Project
    BY <2>1, <2>2, <2>5, <2>6 DEF Gate!Project, Aggregate
  <2> QED
    BY <2>7 DEF Gate!GateNext
<1> QED
  BY <1>2, <1>3

\* The guard implements AdmissionGate, for every policy, route table and run
\* mode: the aggregate makes only legal moves, and canonical samples go out
\* one at a time, in source order, through a locked gate.
THEOREM GuardImplementsGate == Spec => ImplementsGate
<1>1. Init => Gate!GateInit
  <2> SUFFICES ASSUME Init PROVE Gate!GateInit
    OBVIOUS
  <2>1. /\ auth.state \in {"initializing", "locked"}
        /\ \A r \in Routes : mappers[r].state = "initializing"
    BY DEF Init, InitialAuthority, RefreshAuthorityHealth, InitialMapper
  <2>2. AggregateState(auth, mappers) \in {"initializing", "locked"}
    BY <2>1 DEF AggregateState
  <2> QED
    BY <2>2 DEF Gate!GateInit, Init
<1> QED
  BY <1>1, GateStep, ForwardInvariant, PTL DEF Spec, ImplementsGate, Gate!GateSpec

-----------------------------------------------------------------------------
(* What the prologue of observe and poll measures *)

\* An authority that passed the station check, is not lost and runs on a
\* steady clock has just had the age of its Gazebo clock measured.
LEMMA CheckedAge ==
  ASSUME NEW a \in Authority, NEW at \in Nat, NEW wallError \in Int,
         GazeboRequired,
         LET checked == CheckAuthority(a, at, wallError)
         IN  /\ StationRequired => checked.stationHealthy
             /\ ~SteadyBackwards(checked, at)
             /\ checked.state # "lost" /\ checked.haveClock
  PROVE  LET checked == CheckAuthority(a, at, wallError)
         IN  checked.age = at - checked.gazeboMono
<1> DEFINE station == IF StationRequired
                      THEN ValidateStationClock(a, at, wallError) ELSE a
           checked == CheckAuthority(a, at, wallError)
<1>1. station \in Authority
  BY StationType
<1>2. checked = IF StationRequired => station.stationHealthy
                THEN MeasureAge(station, at) ELSE station
  BY DEF CheckAuthority
<1>3. /\ StationRequired => checked.stationHealthy
      /\ ~SteadyBackwards(checked, at)
      /\ checked.state # "lost" /\ checked.haveClock
  OBVIOUS
<1> HIDE DEF station, checked
<1>4. checked = MeasureAge(station, at)
  BY <1>2, <1>3
<1>5. SameLife(station, checked)
  BY <1>1, <1>4, MeasureFacts
<1>6. /\ ~SteadyBackwards(station, at) /\ station.state # "lost"
      /\ station.haveClock
  BY <1>3, <1>5 DEF SameLife, SteadyBackwards
<1>7. checked = [station EXCEPT !.age = at - station.gazeboMono]
  BY <1>4, <1>6 DEF MeasureAge
<1>8. checked.age = at - station.gazeboMono /\ checked.gazeboMono = station.gazeboMono
  BY <1>1, <1>7 DEF Authority
<1> QED
  BY <1>8 DEF checked

\* A healthy authority is never refused in silence, and one that is let
\* through has a fresh Gazebo clock where one is required.
LEMMA VerdictIsFresh ==
  ASSUME NEW a \in Authority, NEW at \in Nat, NEW wallError \in Int,
         GazeboRequired,
         LET checked == CheckAuthority(a, at, wallError)
         IN  /\ checked.state = "locked" /\ ClockReady(checked)
             /\ AuthorityVerdict(checked, at) \notin {"hard", "soft"}
  PROVE  LET checked == CheckAuthority(a, at, wallError)
         IN  /\ AuthorityVerdict(checked, at) = "valid"
             /\ checked.age <= MaxAuthorityAge
             /\ at - checked.gazeboMono <= MaxAuthorityAge
<1> DEFINE checked == CheckAuthority(a, at, wallError)
<1>1. checked \in Authority
  BY CheckType
<1>2. /\ checked.state = "locked" /\ ClockReady(checked)
      /\ AuthorityVerdict(checked, at) \notin {"hard", "soft"}
  OBVIOUS
<1>3. /\ StationRequired => checked.stationHealthy
      /\ ~SteadyBackwards(checked, at)
      /\ checked.age <= MaxAuthorityAge \/ AgeValid(checked, at)
  <2> HIDE DEF checked
  <2>1. checked.haveClock /\ checked.age \in Nat /\ MaxAuthorityAge \in Nat
    BY <1>1, <1>2, BoundAssumption DEF ClockReady, Authority
  <2> QED
    BY <1>2, <2>1 DEF AuthorityVerdict, ImmediateLoss, AgeValid
<1>4. checked.age = at - checked.gazeboMono
  BY <1>2, <1>3, CheckedAge DEF ClockReady
<1> HIDE DEF checked
<1>5. checked.age \in Nat /\ checked.gazeboMono \in Nat
  BY <1>1 DEF Authority
<1>6. checked.age <= MaxAuthorityAge
  BY <1>3, <1>4, <1>5 DEF AgeValid
<1>7. AgeValid(checked, at)
  BY <1>2, <1>3, <1>4, <1>6 DEF AgeValid, ClockReady
<1>8. AuthorityVerdict(checked, at) = "valid"
  BY <1>3, <1>7 DEF AuthorityVerdict
<1> QED
  BY <1>4, <1>6, <1>8 DEF checked

-----------------------------------------------------------------------------
(* A poll that leaves output open *)

\* A poll that leaves a route locked has found none of its streams silent.
LEMMA PollFindsSilence ==
  ASSUME NEW m \in Mapper, NEW at \in Nat, NEW s \in Stream,
         PollMapper(m, at).state = "locked"
  PROVE  ~Silent(PollMapper(m, at), s, at)
<1> DEFINE overdue == {t \in Stream : Overdue(m, t, at)}
           first == IF "pose" \in overdue THEN "pose" ELSE "twist"
           hard == ~m.seen[first] \/ at < SilenceReference(m, first)
<1>1. PollMapper(m, at) = IF overdue = {} THEN m ELSE RecordFailure(m, hard)
  BY DEF PollMapper
<1>2. hard \in BOOLEAN
  OBVIOUS
<1>3. overdue = {}
  <2> HIDE DEF overdue, hard
  <2> QED
    BY <1>1, <1>2, RecordFailureFacts
<1>4. PollMapper(m, at) = m /\ ~Overdue(m, s, at)
  BY <1>1, <1>3
<1> QED
  BY <1>4 DEF Silent, Overdue, SilenceReference, SilenceLimit

LEMMA PollStep ==
  ASSUME BaseInv, PollTimer, Open'
  PROVE  /\ \A r \in Routes, s \in Stream : ~Silent(mappers'[r], s, now)
         /\ GazeboRequired => now - auth'.gazeboMono <= MaxAuthorityAge
<1>0. /\ now \in Nat /\ auth \in Authority /\ mappers \in [Routes -> Mapper]
      /\ AuthorityInv(auth) /\ auth.healthy = HealthOf(auth)
  BY ThresholdAssumption, BoundAssumption DEF BaseInv, TypeOK, AuthorityInv
<1>1. PICK wallError \in WallErrors : Poll(wallError)
  BY DEF PollTimer
<1>2. wallError \in Int
  BY BoundAssumption
<1> DEFINE checked == CheckAuthority(auth, now, wallError)
           verdict == AuthorityVerdict(checked, now)
<1>3. checked \in Authority /\ SameLife(auth, checked)
      /\ checked.healthy = HealthOf(checked)
  BY <1>0, <1>2, CheckType, CheckFacts
<1>4. BaseInv'
  <2>1. [Next]_vars
    BY DEF Next
  <2> QED
    BY <2>1, TypeStep, AuthorityInvStep DEF BaseInv
<1>5. /\ auth' \in Authority /\ AuthorityInv(auth')
      /\ mappers' \in [Routes -> Mapper]
      /\ auth'.healthy /\ AggregateState(auth', mappers') = "locked"
  BY <1>4 DEF BaseInv, TypeOK, Open, SensitiveOutputAllowed
<1>6. auth'.state = "locked" /\ \A r \in Routes : mappers'[r].state = "locked"
  BY <1>5, AggregateFacts
<1>7. GazeboRequired => ClockReady(auth')
  BY <1>5 DEF AuthorityInv, HealthOf
<1>8. auth' = checked /\ verdict \notin {"hard", "soft"}
  <2>1. ASSUME NEW immediate \in BOOLEAN, auth' = FailAuthority(checked, immediate)
        PROVE  FALSE
    <3> HIDE DEF checked
    <3> QED
      BY <1>3, <1>6, <2>1, FailFacts
  <2> QED
    BY <1>1, <2>1 DEF Poll, AuthorityFails
<1>9. GazeboRequired =>
        verdict = "valid" /\ now - checked.gazeboMono <= MaxAuthorityAge
  BY <1>0, <1>2, <1>6, <1>7, <1>8, VerdictIsFresh
<1>10. ~GazeboRequired => verdict = "valid"
  BY <1>8 DEF AuthorityVerdict
<1>11. mappers' = [r \in Routes |-> PollMapper(mappers[r], now)]
  BY <1>1, <1>9, <1>10 DEF Poll
<1>12. ASSUME NEW r \in Routes, NEW s \in Stream
       PROVE  ~Silent(mappers'[r], s, now)
  <2>1. mappers'[r] = PollMapper(mappers[r], now) /\ mappers[r] \in Mapper
    BY <1>0, <1>11
  <2> QED
    BY <1>0, <1>6, <2>1, PollFindsSilence
<1> QED
  BY <1>8, <1>9, <1>12

\* For every policy and route table: when poll() leaves output open, no
\* required stream of any route had been silent for longer than
\* max_sample_age_ns and the Gazebo clock, where required, was fresh.
THEOREM PollsCloseSilence == Spec => PollClosesSilence
<1>1. BaseInv /\ [Next]_vars =>
        [PollTimer /\ Open' =>
           /\ \A r \in Routes, s \in Stream : ~Silent(mappers'[r], s, now)
           /\ GazeboRequired => now - auth'.gazeboMono <= MaxAuthorityAge]_vars
  BY PollStep
<1> QED
  BY <1>1, BaseInvariant, PTL DEF Spec, PollClosesSilence

-----------------------------------------------------------------------------
(* The diagnostics of the authority *)

\* b carries the readings of a.
SameReadings(a, b) ==
  /\ b.wallError = a.wallError /\ b.wallStep = a.wallStep
  /\ b.skew = a.skew /\ b.rtf = a.rtf
  /\ b.haveClock = a.haveClock /\ b.haveRate = a.haveRate
  /\ b.gazeboStamp = a.gazeboStamp

\* What the readings mean, whatever the authority's state: the wall readings
\* of a healthy station are within bounds, a clock is known exactly when its
\* stamp is, and a mode that lacks a witness leaves its readings at zero.
Readings(a) ==
  /\ a.haveRate => a.haveClock
  /\ a.haveClock <=> a.gazeboStamp # 0
  /\ ~GazeboRequired => ~a.haveClock /\ a.skew = 0
  /\ StationRequired /\ a.stationHealthy =>
       /\ Magnitude(a.wallError) <= MaxWallError
       /\ Magnitude(a.wallStep) <= MaxWallStep
  /\ ~StationRequired => a.wallError = 0 /\ a.wallStep = 0
  /\ ~Hybrid => a.rtf = "none"

\* What a Locked authority vouches for.
Vouched(a) ==
  a.state = "locked" => /\ a.age <= MaxAuthorityAge
                        /\ Hybrid => a.rtf = "within"

\* Readings survive any operation that keeps them and trusts the station no
\* more than before.
LEMMA ReadingsCarry ==
  ASSUME NEW a, NEW b, Readings(a), SameReadings(a, b),
         StationRequired /\ b.stationHealthy => a.stationHealthy
  PROVE  Readings(b)
BY DEF Readings, SameReadings

\* Refreshing the cache keeps all diagnostics.
LEMMA RefreshReadings ==
  ASSUME NEW a \in Authority
  PROVE  LET b == RefreshAuthorityHealth(a)
         IN  /\ SameReadings(a, b) /\ b.age = a.age /\ b.state = a.state
             /\ b.stationHealthy = a.stationHealthy
<1> DEFINE h == HealthOf(a)
           b == [a EXCEPT !.healthy = h]
<1>1. RefreshAuthorityHealth(a) = b
  BY DEF RefreshAuthorityHealth
<1> HIDE DEF h
<1>2. /\ SameReadings(a, b) /\ b.age = a.age /\ b.state = a.state
      /\ b.stationHealthy = a.stationHealthy
  BY DEF Authority, SameReadings
<1> QED
  BY <1>1, <1>2

\* validateStationClock calls the station healthy only within bounds, and
\* never makes the authority look older.
LEMMA StationReadings ==
  ASSUME NEW a \in Authority, NEW at \in Nat, NEW wallError \in Int,
         StationRequired, Readings(a)
  PROVE  LET b == ValidateStationClock(a, at, wallError)
         IN  /\ Readings(b) /\ b.skew = a.skew
             /\ Vouched(a) => Vouched(b)
<1> DEFINE wallStep == wallError - a.wallError
           within == /\ Magnitude(wallError) <= MaxWallError
                     /\ Magnitude(wallStep) <= MaxWallStep
           refused == [a EXCEPT !.stationHealthy = FALSE]
           read == [a EXCEPT !.wallError = wallError, !.wallStep = wallStep,
                             !.age = 0, !.stationHealthy = within]
           c == IF at < EpochStart THEN refused ELSE read
<1>1. wallStep \in Int /\ within \in BOOLEAN
  BY DEF Authority
<1>2. ValidateStationClock(a, at, wallError) = RefreshAuthorityHealth(c)
  BY DEF ValidateStationClock
<1>3. within => /\ Magnitude(wallError) <= MaxWallError
                /\ Magnitude(wallStep) <= MaxWallStep
  OBVIOUS
<1> HIDE DEF wallStep, within
<1>4. /\ refused \in Authority /\ SameReadings(a, refused)
      /\ refused.age = a.age /\ refused.state = a.state
      /\ ~refused.stationHealthy
  BY DEF Authority, SameReadings
<1>5. /\ read \in Authority /\ read.state = a.state /\ read.age = 0
      /\ read.wallError = wallError /\ read.wallStep = wallStep
      /\ read.stationHealthy = within
      /\ read.skew = a.skew /\ read.rtf = a.rtf
      /\ read.haveClock = a.haveClock /\ read.haveRate = a.haveRate
      /\ read.gazeboStamp = a.gazeboStamp
  BY <1>1 DEF Authority
<1> HIDE DEF refused, read
<1>6. Readings(refused) /\ refused.skew = a.skew /\ (Vouched(a) => Vouched(refused))
  BY <1>4 DEF Readings, SameReadings, Vouched
<1>7. Readings(read) /\ read.skew = a.skew /\ (Vouched(a) => Vouched(read))
  BY <1>3, <1>5, BoundAssumption DEF Readings, Vouched
<1>8. c \in Authority /\ Readings(c) /\ c.skew = a.skew /\ (Vouched(a) => Vouched(c))
  BY <1>4, <1>5, <1>6, <1>7
<1> HIDE DEF c
<1>9. LET b == RefreshAuthorityHealth(c)
      IN  /\ SameReadings(c, b) /\ b.age = c.age /\ b.state = c.state
          /\ b.stationHealthy = c.stationHealthy
  BY <1>8, RefreshReadings
<1> DEFINE b == RefreshAuthorityHealth(c)
<1> HIDE DEF b
<1>10. Readings(b) /\ b.skew = c.skew /\ (Vouched(c) => Vouched(b))
  BY <1>8, <1>9, ReadingsCarry DEF SameReadings, Vouched, b
<1> QED
  BY <1>2, <1>8, <1>10 DEF b

\* Measuring the age changes the age alone.
LEMMA MeasureReadings ==
  ASSUME NEW a \in Authority, NEW at \in Nat, Readings(a)
  PROVE  Readings(MeasureAge(a, at)) /\ MeasureAge(a, at).skew = a.skew
<1> DEFINE b == MeasureAge(a, at)
<1>1. SameReadings(a, b) /\ b.stationHealthy = a.stationHealthy
  BY DEF MeasureAge, SameReadings, Authority
<1> HIDE DEF b
<1>2. Readings(b) /\ b.skew = a.skew
  BY <1>1, ReadingsCarry DEF SameReadings
<1> QED
  BY <1>2 DEF b

\* failAuthority keeps the readings and vouches for nothing.
LEMMA FailReadings ==
  ASSUME NEW a \in Authority, NEW immediate \in BOOLEAN, Readings(a)
  PROVE  LET b == FailAuthority(a, immediate)
         IN  Readings(b) /\ b.skew = a.skew /\ Vouched(b)
<1> DEFINE n == Increment(a.failures)
           next == IF immediate \/ n >= LostAfterFailures
                   THEN "lost" ELSE "degraded"
           distrusted == [a EXCEPT
             !.stationHealthy = @ /\ ~StationRequired,
             !.gazeboHealthy = @ /\ ~GazeboRequired]
           c == IF a.state = "lost" THEN distrusted
                ELSE [distrusted EXCEPT !.failures = n, !.recovery = 0,
                                        !.state = next]
           b == FailAuthority(a, immediate)
<1>1. b = RefreshAuthorityHealth(c)
  BY DEF FailAuthority
<1>2. n \in Counter /\ next \in {"degraded", "lost"}
  BY IncrementType DEF Authority
<1>3. b.state \in {"degraded", "lost"}
  BY FailFacts
<1> HIDE DEF n, next, b
<1>4. /\ distrusted \in Authority /\ SameReadings(a, distrusted)
      /\ distrusted.stationHealthy => ~StationRequired
  BY DEF Authority, SameReadings
<1> HIDE DEF distrusted
<1>5. /\ c \in Authority /\ SameReadings(distrusted, c)
      /\ c.stationHealthy = distrusted.stationHealthy
  <2> DEFINE d == [distrusted EXCEPT !.failures = n, !.recovery = 0,
                                     !.state = next]
  <2>1. d \in Authority
    BY <1>2, <1>4, CounterFacts DEF Authority, GuardState
  <2>2. SameReadings(distrusted, d) /\ d.stationHealthy = distrusted.stationHealthy
    BY <1>4 DEF Authority, SameReadings
  <2>3. SameReadings(distrusted, distrusted)
    BY DEF SameReadings
  <2> HIDE DEF d
  <2>4. c = IF a.state = "lost" THEN distrusted ELSE d
    BY DEF d
  <2> QED
    BY <1>4, <2>1, <2>2, <2>3, <2>4
<1> HIDE DEF c
<1>6. /\ SameReadings(a, b)
      /\ b.stationHealthy => ~StationRequired
  BY <1>1, <1>4, <1>5, RefreshReadings DEF SameReadings
<1>7. Readings(b) /\ b.skew = a.skew
  BY <1>6, ReadingsCarry DEF SameReadings
<1> QED
  BY <1>3, <1>7 DEF Vouched, b

\* recordHealthyAuthority keeps every reading.
LEMMA RecordHealthyReadings ==
  ASSUME NEW a \in Authority
  PROVE  LET b == RecordHealthyAuthority(a)
         IN  /\ SameReadings(a, b) /\ b.age = a.age
             /\ b.stationHealthy = a.stationHealthy
<1> DEFINE recovery == IF a.state = "degraded" THEN Increment(a.recovery) ELSE 0
           relocks == recovery >= RecoverLockSamples
           degraded == [a EXCEPT !.failures = 0,
                                 !.recovery = IF relocks THEN 0 ELSE recovery,
                                 !.state = IF relocks THEN "locked" ELSE @]
           fresh == [a EXCEPT !.failures = 0, !.recovery = 0, !.state = "locked"]
           locked == [a EXCEPT !.failures = 0]
           Keeps(c) == /\ c \in Authority /\ SameReadings(a, c) /\ c.age = a.age
                       /\ c.stationHealthy = a.stationHealthy
<1>1. recovery \in Counter /\ a.state \in GuardState
  BY IncrementType, CounterFacts DEF Authority
<1>2. \E c \in {a, degraded, fresh, locked} :
        RecordHealthyAuthority(a) = RefreshAuthorityHealth(c)
  <2>1. CASE a.state = "lost"
    BY <2>1 DEF RecordHealthyAuthority
  <2>2. CASE a.state = "degraded"
    BY <2>2 DEF RecordHealthyAuthority
  <2>3. CASE a.state = "initializing"
    BY <2>3 DEF RecordHealthyAuthority
  <2>4. CASE a.state = "locked"
    BY <2>4 DEF RecordHealthyAuthority
  <2> QED
    BY <1>1, <2>1, <2>2, <2>3, <2>4 DEF GuardState
<1> HIDE DEF recovery, relocks
<1>3. Keeps(a)
  BY DEF SameReadings
<1>4. Keeps(degraded)
  BY <1>1, CounterFacts DEF Authority, GuardState, SameReadings
<1>5. Keeps(fresh) /\ Keeps(locked)
  BY CounterFacts DEF Authority, GuardState, SameReadings
<1> HIDE DEF degraded, fresh, locked
<1>6. ASSUME NEW c \in {a, degraded, fresh, locked}
      PROVE  LET b == RefreshAuthorityHealth(c)
             IN  /\ SameReadings(a, b) /\ b.age = a.age
                 /\ b.stationHealthy = a.stationHealthy
  <2>1. Keeps(c)
    BY <1>3, <1>4, <1>5
  <2> QED
    BY <2>1, RefreshReadings DEF SameReadings
<1> QED
  BY <1>2, <1>6

\* Measuring the real-time factor writes that reading, in Hybrid alone.
LEMMA RateReadings ==
  ASSUME NEW a \in Authority, NEW stamp \in Nat, now \in Nat, Readings(a)
  PROVE  LET b == RateMeasured(a, stamp)
         IN  /\ Readings(b) /\ b.skew = a.skew
             /\ Hybrid /\ a.haveClock /\ stamp > a.gazeboStamp
                  /\ RateWithin(a, stamp) => b.rtf = "within"
<1> DEFINE b == RateMeasured(a, stamp)
<1>1. /\ b.wallError = a.wallError /\ b.wallStep = a.wallStep
      /\ b.skew = a.skew /\ (~Hybrid => b.rtf = a.rtf)
      /\ b.haveClock = a.haveClock /\ b.haveRate = a.haveRate
      /\ b.gazeboStamp = a.gazeboStamp /\ b.stationHealthy = a.stationHealthy
      /\ Hybrid /\ a.haveClock /\ stamp > a.gazeboStamp
           /\ RateWithin(a, stamp) => b.rtf = "within"
  BY DEF RateMeasured, Authority
<1> HIDE DEF b
<1>2. Readings(b)
  BY <1>1 DEF Readings
<1> QED
  BY <1>1, <1>2 DEF b

\* A clock that is neither refused nor judged too slow or too fast is one
\* the authority can vouch for.
LEMMA ClockReadings ==
  ASSUME NEW a \in Authority, NEW stamp \in Nat, now \in Nat,
         AuthorityInv(a), Readings(a), GazeboRequired, stamp # 0,
         ~ClockHard(a, stamp), ~ClockSoft(a, stamp)
  PROVE  LET b == ClockAccepted(a, stamp)
         IN  Readings(b) /\ b.skew = a.skew /\ Vouched(b)
<1> DEFINE measured == RateMeasured(a, stamp)
           rated == a.haveRate \/ (Hybrid /\ a.haveClock)
           trusted == Hybrid => rated
           rtf == IF Hybrid /\ a.haveClock THEN measured.rtf ELSE "none"
           next == [measured EXCEPT
             !.haveClock = TRUE, !.haveRate = rated,
             !.gazeboStamp = stamp, !.gazeboMono = now, !.age = 0,
             !.gazeboHealthy = trusted, !.rtf = rtf]
           b == ClockAccepted(a, stamp)
<1>1. /\ measured \in Authority /\ SameLife(a, measured)
      /\ measured.stationHealthy = a.stationHealthy
      /\ Readings(measured) /\ measured.skew = a.skew
  BY RateFacts, RateReadings
<1>2. Hybrid /\ a.haveClock => measured.rtf = "within"
  <2>1. a.haveClock => a.gazeboStamp \in Nat /\ stamp > a.gazeboStamp
    BY DEF ClockHard, ClockSoft, Authority
  <2>2. Hybrid /\ a.haveClock => RateWithin(a, stamp)
    BY DEF ClockSoft
  <2> QED
    BY <2>1, <2>2, RateReadings
<1>3. /\ rated \in BOOLEAN /\ trusted \in BOOLEAN
      /\ rtf \in {"none", "within", "outside"}
  BY <1>1 DEF Authority, Hybrid
<1>4. b = IF next.gazeboHealthy THEN RecordHealthyAuthority(next)
                                ELSE RefreshAuthorityHealth(next)
  BY DEF ClockAccepted
<1>5. /\ trusted /\ Hybrid => rtf = "within"
      /\ ~Hybrid => rtf = "none"
      /\ ~trusted => Hybrid /\ ~a.haveClock
  BY <1>2 DEF Readings
<1> HIDE DEF measured, rated, trusted, rtf, b
<1>6. /\ next \in Authority /\ next.state = a.state /\ next.age = 0
      /\ next.haveClock = TRUE /\ next.haveRate = rated
      /\ next.gazeboStamp = stamp /\ next.gazeboHealthy = trusted
      /\ next.rtf = rtf /\ next.skew = measured.skew
      /\ next.wallError = measured.wallError /\ next.wallStep = measured.wallStep
      /\ next.stationHealthy = measured.stationHealthy
  BY <1>1, <1>3 DEF Authority, SameLife
<1> HIDE DEF next
<1>7. Readings(next)
  BY <1>1, <1>5, <1>6 DEF Readings
<1>8. /\ SameReadings(next, b) /\ b.age = 0
      /\ b.stationHealthy = next.stationHealthy
      /\ ~trusted => b.state = a.state
  BY <1>4, <1>6, RecordHealthyReadings, RefreshReadings
<1>9. Readings(b) /\ b.skew = a.skew
  BY <1>1, <1>6, <1>7, <1>8, ReadingsCarry DEF SameReadings
<1>10. ~trusted => a.state # "locked"
  BY <1>5 DEF AuthorityInv, HealthOf, ClockReady
<1>11. Vouched(b)
  BY <1>3, <1>5, <1>6, <1>8, <1>10, BoundAssumption DEF Vouched, SameReadings
<1> QED
  BY <1>9, <1>11 DEF b

\* The prologue keeps the readings, and unless its verdict is a failure the
\* checked authority is one to vouch for.
LEMMA CheckReadings ==
  ASSUME NEW a \in Authority, NEW at \in Nat, NEW wallError \in Int,
         AuthorityInv(a), Readings(a), Vouched(a)
  PROVE  LET checked == CheckAuthority(a, at, wallError)
         IN  /\ Readings(checked) /\ checked.skew = a.skew
             /\ AuthorityVerdict(checked, at) \notin {"hard", "soft"}
                  => Vouched(checked)
<1> DEFINE station == IF StationRequired
                      THEN ValidateStationClock(a, at, wallError) ELSE a
           checked == CheckAuthority(a, at, wallError)
<1>1. /\ station \in Authority /\ Readings(station) /\ station.skew = a.skew
      /\ Vouched(station) /\ SameLife(a, station)
  BY StationType, StationReadings, StationFacts DEF SameLife
<1>2. /\ checked \in {station, MeasureAge(station, at)}
      /\ ~GazeboRequired => checked = station
  BY DEF CheckAuthority
<1>3. AuthorityInv(a) => a.healthy = HealthOf(a)
  BY DEF AuthorityInv
<1>4. /\ checked \in Authority /\ SameLife(a, checked)
      /\ checked.healthy = HealthOf(checked)
  BY <1>3, CheckType, CheckFacts
<1>5. ASSUME AuthorityVerdict(checked, at) \notin {"hard", "soft"},
             checked.state = "locked", GazeboRequired
      PROVE  checked.age <= MaxAuthorityAge
  <2>1. StationRequired => checked.stationHealthy
    BY <1>5 DEF AuthorityVerdict
  <2>2. AuthorityInv(checked)
    <3> HIDE DEF checked
    <3> QED
      BY <1>4, <2>1, InvCarries
  <2>3. ClockReady(checked)
    BY <1>5, <2>2 DEF AuthorityInv, HealthOf
  <2> QED
    BY <1>5, <2>3, VerdictIsFresh
<1> HIDE DEF station, checked
<1>6. Readings(checked) /\ checked.skew = a.skew
  BY <1>1, <1>2, MeasureReadings
<1>7. checked.rtf = station.rtf
  BY <1>1, <1>2 DEF MeasureAge, Authority
<1>8. AuthorityVerdict(checked, at) \notin {"hard", "soft"} => Vouched(checked)
  BY <1>1, <1>2, <1>4, <1>5, <1>7 DEF Vouched, SameLife
<1> QED
  BY <1>6, <1>8 DEF checked

-----------------------------------------------------------------------------
(* The diagnostics of an open gate *)

\* A simulation route that is not locked accounts for an excessive skew.
SkewAccounted ==
  Magnitude(auth.skew) > MaxSkew =>
    \E r \in Routes : Domain[r] = "simulation" /\ mappers[r].state # "locked"

DiagnosticsInv == Readings(auth) /\ Vouched(auth) /\ SkewAccounted

\* How a step may treat the skew: leave it while no simulation route locks,
\* or measure it and, when it is excessive, fail the route it was read from.
SkewMoves ==
  \/ /\ auth'.skew = auth.skew
     /\ \A r \in Routes : Domain[r] = "simulation" /\ mappers[r].state # "locked"
                           => mappers'[r].state # "locked"
  \/ Magnitude(auth'.skew) <= MaxSkew
  \/ \E r \in Routes : Domain[r] = "simulation" /\ mappers'[r].state # "locked"

\* A failing callback keeps the diagnostics in order.
LEMMA FailDiagnostics ==
  ASSUME BaseInv, NEW a \in Authority, NEW immediate \in BOOLEAN,
         Readings(a), a.skew = auth.skew, AuthorityFails(a, immediate)
  PROVE  Readings(auth') /\ Vouched(auth') /\ SkewMoves
<1>1. Readings(auth') /\ Vouched(auth') /\ auth'.skew = auth.skew
  BY FailReadings DEF AuthorityFails
<1>2. \A r \in Routes : mappers'[r].state # "locked"
  BY RecordFailureFacts DEF AuthorityFails, FailRoutes, BaseInv, TypeOK
<1> QED
  BY <1>1, <1>2 DEF SkewMoves

\* A Gazebo clock message keeps the diagnostics in order.
LEMMA ClockDiagnostics ==
  ASSUME BaseInv, Readings(auth), Vouched(auth),
         NEW stamp \in GazeboStamps, NEW wallError \in WallErrors,
         ObserveGazeboClock(stamp, wallError)
  PROVE  Readings(auth') /\ Vouched(auth') /\ SkewMoves
<1> DEFINE a == IF Hybrid THEN ValidateStationClock(auth, now, wallError)
                          ELSE auth
<1>1. /\ now \in Nat /\ auth \in Authority /\ AuthorityInv(auth)
      /\ stamp \in Nat /\ wallError \in Int
      /\ auth.healthy = HealthOf(auth) /\ SameLife(auth, auth)
  BY ThresholdAssumption, BoundAssumption
     DEF BaseInv, TypeOK, AuthorityInv, SameLife
<1>2. Hybrid => StationRequired
  BY DEF Hybrid, StationRequired
<1>3. /\ a \in Authority /\ Readings(a) /\ Vouched(a) /\ a.skew = auth.skew
      /\ SameLife(auth, a) /\ a.healthy = HealthOf(a)
  BY <1>1, <1>2, StationType, StationReadings, StationFacts
<1>4. /\ GazeboRequired
      /\ \/ AuthorityFails(a, TRUE)
         \/ AuthorityFails(RateMeasured(a, stamp), FALSE)
         \/ auth' = RefreshAuthorityHealth(a) /\ UNCHANGED mappers
         \/ /\ Hybrid => a.stationHealthy
            /\ stamp # 0 /\ ~ClockHard(a, stamp) /\ ~ClockSoft(a, stamp)
            /\ auth' = ClockAccepted(a, stamp) /\ UNCHANGED mappers
  BY DEF ObserveGazeboClock
<1> HIDE DEF a
<1>5. CASE AuthorityFails(a, TRUE)
  BY <1>3, <1>5, FailDiagnostics
<1>6. CASE AuthorityFails(RateMeasured(a, stamp), FALSE)
  <2>1. /\ RateMeasured(a, stamp) \in Authority
        /\ Readings(RateMeasured(a, stamp))
        /\ RateMeasured(a, stamp).skew = auth.skew
    BY <1>1, <1>3, RateFacts, RateReadings
  <2> QED
    BY <1>6, <2>1, FailDiagnostics
<1>7. CASE auth' = RefreshAuthorityHealth(a) /\ UNCHANGED mappers
  <2>1. /\ SameReadings(a, auth') /\ auth'.age = a.age /\ auth'.state = a.state
        /\ auth'.stationHealthy = a.stationHealthy
    BY <1>3, <1>7, RefreshReadings
  <2>2. Readings(auth')
    BY <1>3, <2>1, ReadingsCarry
  <2> QED
    BY <1>3, <1>7, <2>1, <2>2 DEF SameReadings, Vouched, SkewMoves
<1>8. CASE /\ Hybrid => a.stationHealthy
           /\ stamp # 0 /\ ~ClockHard(a, stamp) /\ ~ClockSoft(a, stamp)
           /\ auth' = ClockAccepted(a, stamp) /\ UNCHANGED mappers
  <2>1. StationRequired => a.stationHealthy
    BY <1>4, <1>8, ModeAssumption DEF Hybrid, StationRequired, GazeboRequired
  <2>2. AuthorityInv(a)
    BY <1>1, <1>3, <2>1, InvCarries
  <2>3. Readings(auth') /\ auth'.skew = a.skew /\ Vouched(auth')
    BY <1>1, <1>3, <1>4, <1>8, <2>2, ClockReadings
  <2> QED
    BY <1>3, <1>8, <2>3 DEF SkewMoves
<1> QED
  BY <1>4, <1>5, <1>6, <1>7, <1>8

\* A source sample keeps the diagnostics in order: the skew it brings is
\* judged before its route may lock.
LEMMA ObserveDiagnostics ==
  ASSUME BaseInv, Readings(auth), Vouched(auth),
         NEW q \in Routes, NEW s \in Stream, NEW raw \in RawStamps,
         NEW violates \in Violations, NEW wallError \in WallErrors,
         Observe(q, s, raw, violates, wallError)
  PROVE  Readings(auth') /\ Vouched(auth') /\ SkewMoves
<1> DEFINE checked == CheckAuthority(auth, now, wallError)
           verdict == AuthorityVerdict(checked, now)
           skewed == GazeboRequired /\ Domain[q] = "simulation"
           measured == [checked EXCEPT !.skew = raw - checked.gazeboStamp]
           a == IF skewed THEN measured ELSE checked
<1>1. /\ now \in Nat /\ auth \in Authority /\ AuthorityInv(auth)
      /\ raw \in Nat /\ wallError \in Int /\ mappers \in [Routes -> Mapper]
  BY ThresholdAssumption, BoundAssumption DEF BaseInv, TypeOK
<1>2. /\ checked \in Authority /\ Readings(checked) /\ checked.skew = auth.skew
      /\ verdict \notin {"hard", "soft"} => Vouched(checked)
  BY <1>1, CheckType, CheckReadings
<1>3. \/ AuthorityFails(checked, verdict = "hard")
      \/ /\ verdict \notin {"hard", "soft"}
         /\ auth' = checked /\ UNCHANGED mappers
      \/ /\ verdict \notin {"hard", "soft"}
         /\ skewed /\ auth' = a
         /\ mappers' = [mappers EXCEPT ![q] = RecordFailure(@, FALSE)]
      \/ /\ verdict \notin {"hard", "soft"}
         /\ ~(skewed /\ Magnitude(a.skew) > MaxSkew) /\ auth' = a
         /\ \E m : mappers' = [mappers EXCEPT ![q] = m]
  BY DEF Observe, Deliver
<1> HIDE DEF checked, verdict
<1>4. /\ measured.wallError = checked.wallError
      /\ measured.wallStep = checked.wallStep /\ measured.rtf = checked.rtf
      /\ measured.haveClock = checked.haveClock
      /\ measured.haveRate = checked.haveRate
      /\ measured.gazeboStamp = checked.gazeboStamp
      /\ measured.stationHealthy = checked.stationHealthy
      /\ measured.age = checked.age /\ measured.state = checked.state
      /\ measured.skew \in Int
  BY <1>1, <1>2 DEF Authority
<1> HIDE DEF measured
<1>5. /\ Readings(a)
      /\ verdict \notin {"hard", "soft"} => Vouched(a)
      /\ ~skewed => a.skew = auth.skew
      /\ a.skew \in Int
  BY <1>2, <1>4 DEF Readings, Vouched, Authority
<1>6. CASE AuthorityFails(checked, verdict = "hard")
  BY <1>2, <1>6, FailDiagnostics
<1>7. CASE /\ verdict \notin {"hard", "soft"}
           /\ auth' = checked /\ UNCHANGED mappers
  BY <1>2, <1>7 DEF SkewMoves
<1>8. CASE /\ verdict \notin {"hard", "soft"}
           /\ skewed /\ auth' = a
           /\ mappers' = [mappers EXCEPT ![q] = RecordFailure(@, FALSE)]
  <2>1. mappers'[q].state # "locked"
    BY <1>1, <1>8, RecordFailureFacts
  <2> HIDE DEF a
  <2> QED
    BY <1>5, <1>8, <2>1 DEF SkewMoves
<1>9. CASE /\ verdict \notin {"hard", "soft"}
           /\ ~(skewed /\ Magnitude(a.skew) > MaxSkew) /\ auth' = a
           /\ \E m : mappers' = [mappers EXCEPT ![q] = m]
  <2> HIDE DEF a
  <2>1. CASE skewed
    <3>1. Magnitude(a.skew) <= MaxSkew
      BY <1>5, <1>9, <2>1, BoundAssumption DEF Magnitude
    <3> QED
      BY <1>5, <1>9, <3>1 DEF SkewMoves
  <2>2. CASE ~skewed
    <3>1. \A r \in Routes : Domain[r] = "simulation" => r # q
      BY <2>2, ModeAssumption DEF GazeboRequired
    <3>2. \A r \in Routes : Domain[r] = "simulation" => mappers'[r] = mappers[r]
      BY <1>1, <1>9, <3>1
    <3> QED
      BY <1>5, <1>9, <2>2, <3>2 DEF SkewMoves
  <2> QED
    BY <2>1, <2>2
<1> QED
  BY <1>3, <1>6, <1>7, <1>8, <1>9

\* A poll keeps the diagnostics in order.
LEMMA PollDiagnostics ==
  ASSUME BaseInv, Readings(auth), Vouched(auth), PollTimer
  PROVE  Readings(auth') /\ Vouched(auth') /\ SkewMoves
<1> PICK wallError \in WallErrors : Poll(wallError)
  BY DEF PollTimer
<1> DEFINE checked == CheckAuthority(auth, now, wallError)
           verdict == AuthorityVerdict(checked, now)
<1>1. /\ now \in Nat /\ auth \in Authority /\ AuthorityInv(auth)
      /\ wallError \in Int /\ mappers \in [Routes -> Mapper]
  BY ThresholdAssumption, BoundAssumption DEF BaseInv, TypeOK
<1>2. /\ checked \in Authority /\ Readings(checked) /\ checked.skew = auth.skew
      /\ verdict \notin {"hard", "soft"} => Vouched(checked)
  BY <1>1, CheckType, CheckReadings
<1>3. \/ AuthorityFails(checked, verdict = "hard")
      \/ /\ verdict \notin {"hard", "soft"} /\ auth' = checked
         /\ \/ UNCHANGED mappers
            \/ mappers' = [r \in Routes |-> PollMapper(mappers[r], now)]
  BY DEF Poll
<1> HIDE DEF checked, verdict
<1>4. CASE AuthorityFails(checked, verdict = "hard")
  BY <1>2, <1>4, FailDiagnostics
<1>5. CASE /\ verdict \notin {"hard", "soft"} /\ auth' = checked
           /\ \/ UNCHANGED mappers
              \/ mappers' = [r \in Routes |-> PollMapper(mappers[r], now)]
  <2>1. ASSUME NEW r \in Routes, mappers[r].state # "locked"
        PROVE  mappers'[r].state # "locked"
    <3>1. mappers'[r] \in {mappers[r], PollMapper(mappers[r], now)}
          /\ mappers[r] \in Mapper
      BY <1>1, <1>5
    <3> QED
      BY <1>1, <2>1, <3>1, PollCases, RecordFailureFacts
  <2> QED
    BY <1>2, <1>5, <2>1 DEF SkewMoves
<1> QED
  BY <1>3, <1>4, <1>5

LEMMA DiagnosticsStep ==
  ASSUME BaseInv, DiagnosticsInv, [Next]_vars
  PROVE  DiagnosticsInv'
<1>0. Readings(auth) /\ Vouched(auth) /\ SkewAccounted /\ auth.skew \in Int
  BY DEF DiagnosticsInv, BaseInv, TypeOK, Authority
<1>1. CASE UNCHANGED <<auth, mappers>>
  BY <1>0, <1>1 DEF DiagnosticsInv, SkewAccounted, Readings, Vouched
<1>2. Tick \/ UNCHANGED vars => UNCHANGED <<auth, mappers>>
  BY DEF Tick, vars
<1>3. FailEpochFence => Readings(auth') /\ Vouched(auth') /\ SkewMoves
  BY <1>0, FailDiagnostics DEF FailEpochFence, BaseInv, TypeOK
<1>4. CASE Readings(auth') /\ Vouched(auth') /\ SkewMoves
  <2>1. SkewAccounted'
    <3>0. BaseInv'
      BY TypeStep, AuthorityInvStep DEF BaseInv
    <3>1. auth'.skew \in Int /\ MaxSkew \in Nat
      BY <3>0, BoundAssumption DEF BaseInv, TypeOK, Authority
    <3> QED
      BY <1>0, <1>4, <3>1 DEF SkewAccounted, SkewMoves, Magnitude
  <2> QED
    BY <1>4, <2>1 DEF DiagnosticsInv, Readings, Vouched
<1> QED
  BY <1>0, <1>1, <1>2, <1>3, <1>4, ClockDiagnostics, ObserveDiagnostics, PollDiagnostics
     DEF Next

\* In every mode, while sensitive output is allowed the authority status that
\* observe, poll and observeGazeboClock leave behind is one the installed
\* health check admits: fresh, within skew, wall and rate bounds, with every
\* route locked, and without readings of a witness the mode does not have.
THEOREM OpenAlwaysAdmissible == Spec => []OpenIsAdmissible
<1>1. Init => DiagnosticsInv
  <2> SUFFICES ASSUME Init PROVE DiagnosticsInv
    OBVIOUS
  <2>1. /\ auth.haveClock = FALSE /\ auth.haveRate = FALSE
        /\ auth.gazeboStamp = 0 /\ auth.skew = 0 /\ auth.rtf = "none"
        /\ auth.wallError = 0 /\ auth.wallStep = 0 /\ auth.age = 0
        /\ auth.state = IF GazeboRequired THEN "initializing" ELSE "locked"
    BY DEF Init, InitialAuthority, RefreshAuthorityHealth
  <2>2. Hybrid => GazeboRequired
    BY DEF Hybrid, GazeboRequired
  <2> QED
    BY <2>1, <2>2, BoundAssumption
       DEF DiagnosticsInv, Readings, Vouched, SkewAccounted, Magnitude
<1>2. BaseInv /\ DiagnosticsInv => OpenIsAdmissible
  <2> SUFFICES ASSUME BaseInv, DiagnosticsInv, Open
               PROVE  LockedAdmission(auth, mappers)
    BY DEF OpenIsAdmissible
  <2>1. /\ auth \in Authority /\ AuthorityInv(auth)
        /\ mappers \in [Routes -> Mapper]
        /\ auth.healthy /\ AggregateState(auth, mappers) = "locked"
        /\ Readings(auth) /\ Vouched(auth) /\ SkewAccounted
    BY DEF BaseInv, TypeOK, Open, SensitiveOutputAllowed, DiagnosticsInv
  <2>2. auth.state = "locked" /\ \A r \in Routes : mappers[r].state = "locked"
    BY <2>1, AggregateFacts
  <2>3. auth.age <= MaxAuthorityAge /\ auth.rtf = IF Hybrid THEN "within" ELSE "none"
    BY <2>1, <2>2 DEF Readings, Vouched
  <2>4. /\ StationRequired => auth.stationHealthy
        /\ GazeboRequired => ClockReady(auth)
    BY <2>1 DEF AuthorityInv, HealthOf
  <2>5. IF GazeboRequired
        THEN /\ ClockReady(auth) /\ auth.gazeboStamp # 0
             /\ Magnitude(auth.skew) <= MaxSkew
        ELSE ~ClockReady(auth) /\ auth.gazeboStamp = 0 /\ auth.skew = 0
    <3>1. auth.skew \in Int /\ MaxSkew \in Nat
      BY <2>1, BoundAssumption DEF Authority
    <3>2. Magnitude(auth.skew) <= MaxSkew
      BY <2>1, <2>2, <3>1 DEF SkewAccounted, Magnitude
    <3> QED
      BY <2>1, <2>4, <3>2 DEF Readings, ClockReady
  <2>6. IF StationRequired
        THEN /\ Magnitude(auth.wallError) <= MaxWallError
             /\ Magnitude(auth.wallStep) <= MaxWallStep
        ELSE auth.wallError = 0 /\ auth.wallStep = 0
    BY <2>1, <2>4 DEF Readings
  <2> QED
    BY <2>1, <2>2, <2>3, <2>5, <2>6 DEF LockedAdmission, SensitiveOutputAllowed
<1>3. BaseInv /\ DiagnosticsInv /\ [Next]_vars => DiagnosticsInv'
  BY DiagnosticsStep
<1> QED
  BY <1>1, <1>2, <1>3, BaseInvariant, PTL DEF Spec
=============================================================================
