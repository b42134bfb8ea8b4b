------------------------- MODULE SessionClockGuard -------------------------
(***************************************************************************)
(* The guard of one epoch (class SessionClockGuard): a clock authority,    *)
(* one ClockMapper per frozen route, and the aggregate state that opens    *)
(* and closes canonical output.                                            *)
(*                                                                         *)
(* Every public method that changes state is one action.  The node calls   *)
(* them from a single-threaded spinner, so an action is one whole          *)
(* callback; what interleaves is the order of the callbacks (Gazebo clock, *)
(* pose and twist of every route, the poll timer) and the passage of       *)
(* steady time between them.                                               *)
(***************************************************************************)
EXTENDS ClockMapper

CONSTANTS
  RunMode,          \* run_mode
  Routes,           \* the slots of the frozen route table
  Domain,           \* source_domain of each slot
  MaxAuthorityAge,  \* threshold.max_authority_age_ns
  MaxSkew,          \* threshold.max_gazebo_clock_skew_ns
  MaxWallError,     \* threshold.max_station_wall_error_ns
  MaxWallStep,      \* threshold.max_station_wall_step_ns
  MinRate, MaxRate, \* the real-time-factor thresholds, in 1/RateUnit
  RateUnit,
  WallAnchor,       \* W0, the system wall at the epoch start
  MaxSteady,        \* bound: the steady clock stops here
  GazeboStamps,     \* bound: stamps a Gazebo clock message may carry
  RawStamps,        \* bound: stamps a source sample may carry
  Violations,       \* bound: verdicts of the affine gates on a sample
  WallErrors        \* bound: system wall minus Session time at a reading

\* What validateRoutes, validateModeClockPolicy and the constructor require.
ASSUME ModeAssumption ==
  /\ RunMode \in {"simulation", "physical", "hybrid"}
  /\ Domain \in [Routes -> {"simulation", "physical"}]
  /\ RunMode = "simulation" => \A r \in Routes : Domain[r] = "simulation"
  /\ RunMode = "physical" => \A r \in Routes : Domain[r] = "physical"
  /\ RunMode = "hybrid" => {Domain[r] : r \in Routes}
                             = {"simulation", "physical"}
  /\ Affine = (RunMode # "simulation")

ASSUME BoundAssumption ==
  /\ MaxAuthorityAge \in Nat \ {0} /\ StartupLockTimeout >= MaxAuthorityAge
  /\ MaxSkew \in Nat \ {0}
  /\ MaxWallError \in Nat \ {0}
  /\ MaxWallStep \in Nat \ {0} /\ MaxWallStep <= MaxWallError
  /\ MinRate \in Nat \ {0} /\ MaxRate \in Nat /\ RateUnit \in Nat \ {0}
  /\ MinRate <= RateUnit /\ RateUnit <= MaxRate /\ MinRate < MaxRate
  /\ WallAnchor \in Nat \ {0}
  /\ MaxSteady \in Nat /\ MaxSteady >= EpochStart
  /\ GazeboStamps \subseteq Nat
  /\ RawStamps \subseteq Nat
  /\ Violations \subseteq SUBSET Gates
  /\ WallErrors \subseteq Int /\ 0 \in WallErrors

VARIABLES
  now,       \* std::chrono::steady_clock
  auth,      \* the authority members of SessionClockGuard
  mappers,   \* entries_: the mapper of every route
  event,     \* kind of the newest transition event
  admitted   \* raw stamp of the newest sample cleared for canonical output

vars == <<now, auth, mappers, event, admitted>>

GazeboRequired == RunMode # "physical"
StationRequired == RunMode # "simulation"
Hybrid == RunMode = "hybrid"

Authority == [state          : GuardState,
              failures       : Counter,
              recovery       : Counter,
              stationHealthy : BOOLEAN,
              gazeboHealthy  : BOOLEAN,
              haveClock      : BOOLEAN,
              haveRate       : BOOLEAN,
              gazeboStamp    : Nat,
              gazeboMono     : Nat,
              wallError      : Int,
              wallStep       : Int,
              age            : Nat,
              skew           : Int,
              rtf            : {"none", "within", "outside"},
              healthy        : BOOLEAN]

Event == {"new_epoch", "locked", "degraded", "lost"}

Magnitude(i) == IF i < 0 THEN -i ELSE i

-----------------------------------------------------------------------------
(* The authority *)

ClockReady(a) == a.haveClock /\ (Hybrid => a.haveRate)

\* authority_status_.healthy is a cache: every path that touches what it is
\* computed from has to refresh it.
HealthOf(a) ==
  /\ a.state = "locked"
  /\ StationRequired => a.stationHealthy
  /\ GazeboRequired => a.gazeboHealthy /\ ClockReady(a)

RefreshAuthorityHealth(a) == [a EXCEPT !.healthy = HealthOf(a)]

SessionNow(a, at) ==
  IF ~StationRequired THEN a.gazeboStamp
  ELSE IF at < EpochStart THEN 0
  ELSE WallAnchor + (at - EpochStart)

\* Mutant: the wall step is not bounded.
ValidateStationClock_NoStep(a, at, wallError) ==
  RefreshAuthorityHealth(
    [a EXCEPT !.wallError = wallError, !.wallStep = wallError - a.wallError,
              !.age = 0,
              !.stationHealthy = Magnitude(wallError) <= MaxWallError])

\* validateStationClock: the reading becomes the reference of the next step
\* whether or not it is within bounds.  Its verdict is stationHealthy.
ValidateStationClock(a, at, wallError) ==
  LET wallStep == wallError - a.wallError
      within == /\ Magnitude(wallError) <= MaxWallError
                /\ Magnitude(wallStep) <= MaxWallStep
  IN  RefreshAuthorityHealth(
        IF at < EpochStart
        THEN [a EXCEPT !.stationHealthy = FALSE]
        ELSE [a EXCEPT !.wallError = wallError, !.wallStep = wallStep,
                       !.age = 0, !.stationHealthy = within])

\* validateGazeboAuthorityAge: what it writes, and its verdicts.
SteadyBackwards(a, at) ==
  at < EpochStart \/ (a.haveClock /\ at < a.gazeboMono)

MeasureAge(a, at) ==
  IF SteadyBackwards(a, at) \/ a.state = "lost"
  THEN a
  ELSE [a EXCEPT !.age = at - (IF a.haveClock THEN a.gazeboMono
                                              ELSE EpochStart)]

ImmediateLoss(a, at) ==
  \/ SteadyBackwards(a, at)
  \/ /\ a.state # "lost"
     /\ ~a.haveClock
     /\ at - EpochStart > StartupLockTimeout

AgeValid(a, at) ==
  /\ ~SteadyBackwards(a, at)
  /\ a.state # "lost"
  /\ a.haveClock
  /\ at - a.gazeboMono <= MaxAuthorityAge
  /\ Hybrid => a.haveRate

\* The prologue observe and poll share: the authority after its checks, and
\* whether they end the call with a hard failure, a soft one, a silent
\* refusal, or let it go on.
CheckAuthority(a, at, wallError) ==
  LET station == IF StationRequired
                 THEN ValidateStationClock(a, at, wallError) ELSE a
  IN  IF GazeboRequired /\ (StationRequired => station.stationHealthy)
      THEN MeasureAge(station, at)
      ELSE station

\* Mutant: a failed station check does not fail the authority.
AuthorityVerdict_StationIgnored(checked, at) ==
  IF ~GazeboRequired \/ AgeValid(checked, at) THEN "valid"
  ELSE IF ImmediateLoss(checked, at) THEN "hard"
  ELSE IF checked.haveClock /\ checked.age > MaxAuthorityAge THEN "soft"
  ELSE "refused"

\* Mutant: a stale Gazebo clock is only a failure once its rate is known.
AuthorityVerdict_StaleUnrated(checked, at) ==
  IF StationRequired /\ ~checked.stationHealthy THEN "hard"
  ELSE IF ~GazeboRequired \/ AgeValid(checked, at) THEN "valid"
  ELSE IF ImmediateLoss(checked, at) THEN "hard"
  ELSE IF ClockReady(checked) /\ checked.age > MaxAuthorityAge THEN "soft"
  ELSE "refused"

AuthorityVerdict(checked, at) ==
  IF StationRequired /\ ~checked.stationHealthy THEN "hard"
  ELSE IF ~GazeboRequired \/ AgeValid(checked, at) THEN "valid"
  ELSE IF ImmediateLoss(checked, at) THEN "hard"
  ELSE IF checked.haveClock /\ checked.age > MaxAuthorityAge THEN "soft"
  ELSE "refused"

\* failAuthority, authority half; FailRoutes is its loop over the routes.
FailAuthority(a, immediate) ==
  LET n == Increment(a.failures)
      distrusted == [a EXCEPT
        !.stationHealthy = @ /\ ~StationRequired,
        !.gazeboHealthy = @ /\ ~GazeboRequired]
  IN  RefreshAuthorityHealth(
        IF a.state = "lost"
        THEN distrusted
        ELSE [distrusted EXCEPT
                !.failures = n, !.recovery = 0,
                !.state = IF immediate \/ n >= LostAfterFailures
                          THEN "lost" ELSE "degraded"])

\* Mutant: an immediate loss reaches the routes as a plain failure.
FailRoutes_Soft(ms, immediate) ==
  [r \in Routes |-> RecordFailure(ms[r], FALSE)]

FailRoutes(ms, immediate) ==
  [r \in Routes |-> RecordFailure(ms[r], immediate)]

\* Mutant: healthy clocks do not end a run of consecutive failures.
RecordHealthyAuthority_KeepFailures(a) ==
  LET recovery == IF a.state = "degraded" THEN Increment(a.recovery) ELSE 0
      relocks == recovery >= RecoverLockSamples
  IN  RefreshAuthorityHealth(
        CASE a.state \in {"lost", "locked"} -> a
          [] a.state = "degraded" ->
               [a EXCEPT !.recovery = IF relocks THEN 0 ELSE recovery,
                         !.state = IF relocks THEN "locked" ELSE @]
          [] a.state = "initializing" ->
               [a EXCEPT !.recovery = 0, !.state = "locked"])

\* Mutant: the cached health is not refreshed when the authority locks.
RecordHealthyAuthority_StaleHealth(a) ==
  IF a.state = "initializing"
  THEN [a EXCEPT !.failures = 0, !.recovery = 0, !.state = "locked"]
  ELSE RefreshAuthorityHealth(a)

RecordHealthyAuthority(a) ==
  LET recovery == IF a.state = "degraded" THEN Increment(a.recovery) ELSE 0
      relocks == recovery >= RecoverLockSamples
  IN  RefreshAuthorityHealth(
        CASE a.state = "lost" -> a
          [] a.state = "degraded" ->
               [a EXCEPT !.failures = 0,
                         !.recovery = IF relocks THEN 0 ELSE recovery,
                         !.state = IF relocks THEN "locked" ELSE @]
          [] a.state = "initializing" ->
               [a EXCEPT !.failures = 0, !.recovery = 0, !.state = "locked"]
          [] a.state = "locked" -> [a EXCEPT !.failures = 0])

-----------------------------------------------------------------------------
(* The aggregate *)

AggregateState(a, ms) ==
  LET states == {ms[r].state : r \in Routes} \cup {a.state}
  IN  IF "lost" \in states THEN "lost"
      ELSE IF "degraded" \in states THEN "degraded"
      ELSE IF "initializing" \in states \/ ~a.healthy THEN "initializing"
      ELSE "locked"

\* Mutant: a healthy authority is enough.
SensitiveOutputAllowed_AuthorityOnly(a, ms) == a.healthy

SensitiveOutputAllowed(a, ms) ==
  a.healthy /\ AggregateState(a, ms) = "locked"

\* validateLockedAdmission: what the health checker demands of the published
\* aggregate status beyond the identities, which never change.
LockedAdmission(a, ms) ==
  /\ AggregateState(a, ms) = "locked" /\ a.state = "locked" /\ a.healthy
  /\ SensitiveOutputAllowed(a, ms)
  /\ \A r \in Routes : ms[r].state = "locked"
  /\ a.age <= MaxAuthorityAge
  /\ IF GazeboRequired
     THEN ClockReady(a) /\ a.gazeboStamp # 0 /\ Magnitude(a.skew) <= MaxSkew
     ELSE ~ClockReady(a) /\ a.gazeboStamp = 0 /\ a.skew = 0
  /\ IF StationRequired
     THEN /\ Magnitude(a.wallError) <= MaxWallError
          /\ Magnitude(a.wallStep) <= MaxWallStep
     ELSE a.wallError = 0 /\ a.wallStep = 0
  /\ a.rtf = IF Hybrid THEN "within" ELSE "none"

\* emitStateTransition: no event announces a return to initializing.
EmitStateTransition ==
  LET before == AggregateState(auth, mappers)
      after == AggregateState(auth', mappers')
  IN  event' = IF after \in {before, "initializing"} THEN event ELSE after

-----------------------------------------------------------------------------
(* The operations *)

Tick ==
  /\ now < MaxSteady
  /\ now' = now + 1
  /\ UNCHANGED <<auth, mappers, event, admitted>>

\* Mutant: the failing return forgets emitStateTransition.
AuthorityFails_Silent(a, immediate) ==
  /\ auth' = FailAuthority(a, immediate)
  /\ mappers' = FailRoutes(mappers, immediate)
  /\ UNCHANGED <<now, event, admitted>>

\* failAuthority as the last effect of a callback.
AuthorityFails(a, immediate) ==
  /\ auth' = FailAuthority(a, immediate)
  /\ mappers' = FailRoutes(mappers, immediate)
  /\ EmitStateTransition
  /\ UNCHANGED <<now, admitted>>

\* A Gazebo clock message is refused for good, ...
ClockHard(a, stamp) ==
  \/ SteadyBackwards(a, now) \/ (a.haveClock /\ now = a.gazeboMono)
  \/ ~a.haveClock /\ now - EpochStart > StartupLockTimeout
  \/ a.haveClock /\ stamp < a.gazeboStamp

\* ... or costs one failure, leaving the accepted clock in place ...
RateWithin(a, stamp) ==
  LET gazeboDelta == (stamp - a.gazeboStamp) * RateUnit
      steadyDelta == now - a.gazeboMono
  IN  MinRate * steadyDelta <= gazeboDelta /\ gazeboDelta <= MaxRate * steadyDelta

RateMeasured(a, stamp) ==
  IF Hybrid /\ a.haveClock /\ stamp > a.gazeboStamp
  THEN [a EXCEPT !.rtf = IF RateWithin(a, stamp) THEN "within" ELSE "outside"]
  ELSE a

\* Mutant: the real-time factor is reported but not enforced.
ClockSoft_NoRate(a, stamp) == a.haveClock /\ stamp = a.gazeboStamp

ClockSoft(a, stamp) ==
  /\ a.haveClock
  /\ \/ stamp = a.gazeboStamp
     \/ Hybrid /\ ~RateWithin(a, stamp)

\* ... or becomes the clock.  Hybrid trusts it from its second sample on.
ClockAccepted(a, stamp) ==
  LET rated == a.haveRate \/ (Hybrid /\ a.haveClock)
      next == [RateMeasured(a, stamp) EXCEPT
        !.haveClock = TRUE, !.haveRate = rated,
        !.gazeboStamp = stamp, !.gazeboMono = now, !.age = 0,
        !.gazeboHealthy = Hybrid => rated,
        !.rtf = IF Hybrid /\ a.haveClock THEN @ ELSE "none"]
  IN  IF next.gazeboHealthy
      THEN RecordHealthyAuthority(next)
      ELSE RefreshAuthorityHealth(next)

ObserveGazeboClock(stamp, wallError) ==
  LET a == IF Hybrid THEN ValidateStationClock(auth, now, wallError) ELSE auth
      stationFails == Hybrid /\ ~a.stationHealthy
      hard == stationFails \/ ClockHard(a, stamp)
      waiting == ~hard /\ stamp = 0
      soft == ~hard /\ ~waiting /\ ClockSoft(a, stamp)
  IN  /\ GazeboRequired
      /\ \/ /\ hard
            /\ AuthorityFails(a, TRUE)
         \/ /\ waiting
            /\ auth' = RefreshAuthorityHealth(a)
            /\ UNCHANGED <<now, mappers, event, admitted>>
         \/ /\ soft
            /\ AuthorityFails(RateMeasured(a, stamp), FALSE)
         \/ /\ ~hard /\ ~waiting /\ ~soft
            /\ auth' = ClockAccepted(a, stamp)
            /\ UNCHANGED <<now, mappers, admitted>>
            /\ EmitStateTransition

\* A sample reaches its mapper, and is projected when the mapper takes it
\* and the whole Session is locked afterwards.
Deliver(a, r, o) ==
  /\ auth' = a
  /\ mappers' = [mappers EXCEPT ![r] = ObserveMapper(@, o)]
  /\ EmitStateTransition
  /\ admitted' = IF /\ Accepts(mappers[r], o)
                    /\ SensitiveOutputAllowed(auth', mappers')
                 THEN [admitted EXCEPT ![r][o.stream] = o.raw]
                 ELSE admitted
  /\ UNCHANGED now

Observe(r, stream, raw, violates, wallError) ==
  LET checked == CheckAuthority(auth, now, wallError)
      verdict == AuthorityVerdict(checked, now)
      refused == \/ verdict = "refused"
                 \/ verdict = "valid" /\ GazeboRequired /\ ~checked.healthy
      proceeds == verdict = "valid" /\ ~refused
      skewed == GazeboRequired /\ Domain[r] = "simulation"
      a == IF skewed
           THEN [checked EXCEPT !.skew = raw - checked.gazeboStamp]
           ELSE checked
      skewFails == skewed /\ Magnitude(a.skew) > MaxSkew
      o == [stream |-> stream, domain |-> Domain[r], raw |-> raw,
            mono |-> now, session |-> SessionNow(a, now),
            violates |-> violates]
  IN  \/ /\ verdict \in {"hard", "soft"}
         /\ AuthorityFails(checked, verdict = "hard")
      \/ /\ refused
         /\ auth' = checked
         /\ UNCHANGED <<now, mappers, event, admitted>>
      \/ /\ proceeds /\ skewFails
         /\ auth' = a
         /\ mappers' = [mappers EXCEPT ![r] = RecordFailure(@, FALSE)]
         /\ EmitStateTransition
         /\ UNCHANGED <<now, admitted>>
      \/ /\ proceeds /\ ~skewFails
         /\ Deliver(a, r, o)

Poll(wallError) ==
  LET checked == CheckAuthority(auth, now, wallError)
      verdict == AuthorityVerdict(checked, now)
  IN  \/ /\ verdict \in {"hard", "soft"}
         /\ AuthorityFails(checked, verdict = "hard")
      \/ /\ verdict = "refused"
         /\ auth' = checked
         /\ UNCHANGED <<now, mappers, event, admitted>>
      \/ /\ verdict = "valid"
         /\ auth' = checked
         /\ mappers' = [r \in Routes |-> PollMapper(mappers[r], now)]
         /\ EmitStateTransition
         /\ UNCHANGED <<now, admitted>>

FailEpochFence == AuthorityFails(auth, TRUE)

\* The constructor: a new_epoch event, followed by locked when nothing but
\* the station anchors has to be waited for.
InitialAuthority ==
  RefreshAuthorityHealth(
    [state |-> IF GazeboRequired THEN "initializing" ELSE "locked",
     failures |-> 0, recovery |-> 0,
     stationHealthy |-> StationRequired, gazeboHealthy |-> FALSE,
     haveClock |-> FALSE, haveRate |-> FALSE,
     gazeboStamp |-> 0, gazeboMono |-> 0,
     wallError |-> 0, wallStep |-> 0, age |-> 0, skew |-> 0, rtf |-> "none",
     healthy |-> FALSE])

Init ==
  /\ now = EpochStart
  /\ auth = InitialAuthority
  /\ mappers = [r \in Routes |-> InitialMapper]
  /\ event = IF AggregateState(auth, mappers) = "locked"
             THEN "locked" ELSE "new_epoch"
  /\ admitted = [r \in Routes |-> [s \in Stream |-> 0]]

PollTimer == \E wallError \in WallErrors : Poll(wallError)

Next ==
  \/ Tick
  \/ \E stamp \in GazeboStamps, wallError \in WallErrors :
       ObserveGazeboClock(stamp, wallError)
  \/ \E r \in Routes, stream \in Stream, raw \in RawStamps,
        violates \in Violations, wallError \in WallErrors :
       Observe(r, stream, raw, violates, wallError)
  \/ PollTimer
  \/ FailEpochFence

Spec == Init /\ [][Next]_vars

\* The wall timer keeps firing: the spinner serves its callback queue in order,
\* so no flood of messages starves it.  A timer that fires may find nothing to
\* do, and it does not choose its wall reading: a wall that is never again seen
\* to err is one that every later poll reads without error.
PollTimerFires == []<>(auth.wallError # 0) \/ WF_vars(Poll(0))

FairSpec == Spec /\ WF_vars(Tick) /\ PollTimerFires

-----------------------------------------------------------------------------
(* Properties *)

Open == SensitiveOutputAllowed(auth, mappers)
Silent(m, s, at) == m.seen[s] /\ at - m.mono[s] > MaxSampleAge

\* Every member keeps its type; the saturating counters stay within their
\* width however long failures or healthy samples go on.
TypeOK ==
  /\ now \in EpochStart..MaxSteady
  /\ auth \in Authority
  /\ mappers \in [Routes -> Mapper]
  /\ event \in Event
  /\ admitted \in [Routes -> [Stream -> Nat]]

\* A lost authority has lost every route: failAuthority counts one failure on
\* the authority and one on each mapper, and although accepted samples clear
\* the mappers' counters independently, no route ever outlives its clock.
AuthorityLossReachesRoutes ==
  auth.state = "lost" => \A r \in Routes : mappers[r].state = "lost"

\* The cached authority_status_.healthy is never stale, and the authority is
\* Locked exactly while it is healthy: no path of validateStationClock,
\* failAuthority or observeGazeboClock leaves a Locked authority whose
\* station or Gazebo witness has failed.
HealthIsCurrent ==
  /\ auth.healthy = HealthOf(auth)
  /\ auth.healthy <=> auth.state = "locked"

\* Whoever follows only the transition events knows the aggregate: the newest
\* event is locked or lost exactly while the aggregate is, and degraded
\* whenever it is, although several returns of observe, poll and
\* observeGazeboClock emit nothing.
EventTracksAggregate ==
  LET aggregate == AggregateState(auth, mappers)
  IN  /\ aggregate # "initializing" => event = aggregate
      /\ event \in {"locked", "lost"} => aggregate = event

\* While output is open, the diagnostics published with the aggregate status
\* pass the installed health check: age, skew, wall error and step and
\* real-time factor are those of an admissible authority, although each is
\* written by a different callback and before its own gate is judged.
OpenIsAdmissible == Open => LockedAdmission(auth, mappers)

\* A locked route has seen both streams, has no failure on its record and has
\* earned its lock since the last failure; a degraded one starts from zero.
LockRestsOnEvidence ==
  \A r \in Routes :
    LET m == mappers[r] IN
    /\ m.state = "locked" =>
         /\ \A s \in Stream : m.seen[s]
         /\ m.failures = 0
         /\ m.healthy >= MinLockSamples \/ m.healthy >= RecoverLockSamples
    /\ m.state = "degraded" => m.healthy = m.recovery /\ m.failures <= LostAfterFailures

\* When a poll leaves output open, no required stream of any route had been
\* silent for longer than max_sample_age_ns, and the authority was fresh.
PollClosesSilence ==
  [][PollTimer /\ Open' =>
       /\ \A r \in Routes, s \in Stream : ~Silent(mappers'[r], s, now)
       /\ GazeboRequired => now - auth'.gazeboMono <= MaxAuthorityAge]_vars

\* Output does not stay open while some required stream is silent: the poll
\* timer closes it, unless every silent stream speaks again first.
SilenceCloses ==
  LET silence == \E r \in Routes, s \in Stream : Silent(mappers[r], s, now)
  IN  (Open /\ silence) ~> (~Open \/ ~silence)

\* The startup allowance ends: every stream of every route starts, or its
\* route is lost, whatever the authority is doing meanwhile.
StartupResolves ==
  <>(\A r \in Routes : \/ mappers[r].state = "lost"
                        \/ \A s \in Stream : mappers[r].seen[s])

\* The guard implements the admission gate: the aggregate is the gate, and
\* what observe clears for canonical publication is what goes through it.
Gate == INSTANCE AdmissionGate WITH
          Slots <- Routes, Streams <- Stream,
          gate <- AggregateState(auth, mappers), projected <- admitted

\* Every step of the guard is a legal move of the gate: lost is final, lock
\* never reverts to initializing, and samples go out only through a locked
\* gate, one at a time and in source order.
ImplementsGate == Gate!GateSpec

-----------------------------------------------------------------------------
(* Statements of the documentation that the code does not keep *)

\* docs/architecture.md: canonical output stays closed while the affine
\* window is underfilled.
UnderfilledStaysClosed ==
  Affine /\ Open => \A r \in Routes : Len(mappers[r].window) >= MinLockSamples

\* docs/architecture.md: a strictly lower stamp of the same stream is a hard
\* epoch loss.
RollbackIsHardLoss ==
  [][\A r \in Routes, s \in Stream, raw \in RawStamps,
        violates \in Violations, wallError \in WallErrors :
       (/\ Open
        /\ mappers[r].seen[s] /\ raw < mappers[r].raw[s]
        /\ AuthorityVerdict(CheckAuthority(auth, now, wallError), now) = "valid"
        /\ Observe(r, s, raw, violates, wallError))
       => mappers'[r].state = "lost"]_vars

\* README.md: one missing stream closes output.  It must then stay closed
\* until the missing stream is heard again.
SilentStreamStaysClosed ==
  [][AggregateState(auth, mappers) = "degraded" /\ Open' =>
       \A r \in Routes, s \in Stream : ~Silent(mappers'[r], s, now)]_vars
=============================================================================
