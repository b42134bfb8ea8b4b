---------------------------- MODULE FrozenConfig ----------------------------
(***************************************************************************)
(* The frozen policy and its four validators, which parse runs one after   *)
(* another to decide whether a policy may start a Guard.                   *)
(*                                                                         *)
(* A threshold table maps the keys of the schema to numbers; an optional   *)
(* threshold that is missing is Absent.  Reading a missing optional is     *)
(* undefined behaviour in the code, so the order of the validators         *)
(* matters.  Nanoseconds, sample counts and factors are scaled down, and   *)
(* the limits of the schema with them.                                     *)
(***************************************************************************)
EXTENDS Integers

CONSTANTS
  Slots,            \* bound: legal slot ids, numbered in their order
  Bodies,           \* bound: legal ROS name segments
  MaxSamples,       \* 4096
  MaxPoll,          \* kMaximumGuardPollPeriodNs
  MinStartup,       \* kMinimumStartupLockTimeoutNs
  MaxStartup,       \* kMaximumStartupLockTimeoutNs
  MaxQueue,         \* 65536
  WireResolution,   \* kGazeboVrpnV24WireResolutionNs
  UnitRate,         \* the real-time factor 1.0
  UintMax           \* the largest std::uint64_t

Absent == -1

Optional == {"estimator_window", "max_offset_step", "max_drift", "max_jitter",
             "max_gazebo_clock_skew", "max_station_wall_error",
             "max_station_wall_step", "min_real_time_factor",
             "max_real_time_factor"}

Required == {"min_lock_samples", "recover_lock_samples", "lost_after_failures",
             "startup_lock_timeout", "max_uncertainty", "max_sample_age",
             "max_authority_age", "guard_poll_period", "queue_depth"}

AffineFields == {"estimator_window", "max_offset_step", "max_drift", "max_jitter"}
StationFields == {"max_station_wall_error", "max_station_wall_step"}
RateFields == {"min_real_time_factor", "max_real_time_factor"}

Modes == {"simulation", "physical", "hybrid"}
Authorities == {"gazebo-simulation", "station-wall-monotonic"}
Mappings == {"identity", "affine-to-session"}
Domains == {"simulation", "physical"}

Route == [domain : Domains, source : STRING, canonical : STRING,
          period : 0..UintMax, uncertainty : 0..UintMax]

IsConfig(c) ==
  /\ c.mode \in STRING /\ c.authority \in Authorities /\ c.mapping \in Mappings
  /\ c.thresholds \in [Required \cup Optional -> 0..UintMax \cup {Absent}]
  /\ \A f \in Required : c.thresholds[f] # Absent
  /\ DOMAIN c.routes \subseteq Slots
  /\ \A s \in DOMAIN c.routes : c.routes[s] \in Route
  /\ c.session \in STRING /\ c.contract \in STRING /\ c.delay \in STRING
  /\ c.wire \in 0..UintMax /\ c.measured \in BOOLEAN

ASSUME LimitAssumption ==
  /\ UintMax \in Nat
  /\ {MaxSamples, MaxPoll, MinStartup, MaxStartup, MaxQueue, WireResolution,
      UnitRate} \subseteq 1..UintMax
  /\ Slots \subseteq Nat \ {0}

Present(t, f) == t[f] # Absent
AllPresent(t, fields) == \A f \in fields : Present(t, f)
AnyPresent(t, fields) == \E f \in fields : Present(t, f)

-----------------------------------------------------------------------------
(* The validators *)

SampleCounts(t) ==
  /\ t["min_lock_samples"] \in 2..MaxSamples
  /\ t["recover_lock_samples"] \in 1..MaxSamples
  /\ Present(t, "estimator_window") =>
       /\ t["estimator_window"] \in 2..MaxSamples
       /\ t["min_lock_samples"] <= t["estimator_window"]
       /\ t["recover_lock_samples"] <= t["estimator_window"]

\* Mutant: the startup allowance may be shorter than the authority age.
TimeLimits_SampleAgeOnly(t) ==
  /\ t["guard_poll_period"] <= t["max_sample_age"]
  /\ t["guard_poll_period"] <= t["max_authority_age"]
  /\ t["guard_poll_period"] <= MaxPoll
  /\ t["startup_lock_timeout"] \in MinStartup..MaxStartup
  /\ t["startup_lock_timeout"] >= t["max_sample_age"]

TimeLimits(t) ==
  /\ t["guard_poll_period"] <= t["max_sample_age"]
  /\ t["guard_poll_period"] <= t["max_authority_age"]
  /\ t["guard_poll_period"] <= MaxPoll
  /\ t["startup_lock_timeout"] \in MinStartup..MaxStartup
  /\ t["startup_lock_timeout"] >= t["max_sample_age"]
  /\ t["startup_lock_timeout"] >= t["max_authority_age"]

ValidateThresholdPolicy(t) ==
  /\ SampleCounts(t)
  /\ TimeLimits(t)
  /\ \A f \in Required \cup Optional : Present(t, f) => t[f] > 0
  /\ t["queue_depth"] <= MaxQueue
  /\ Present(t, "max_jitter") => t["max_jitter"] <= t["max_uncertainty"]

\* Slots are the keys of the table, so no slot repeats.
ValidateRoutes(mode, routes) ==
  LET slots == DOMAIN routes
      domains == {routes[s].domain : s \in slots}
  IN  /\ mode \in Modes
      /\ \A s \in slots : {routes[s].source, routes[s].canonical} \subseteq Bodies
      /\ \A s, u \in slots : s # u =>
           /\ routes[s].canonical # routes[u].canonical
           /\ <<routes[s].domain, routes[s].source>>
                # <<routes[u].domain, routes[u].source>>
      /\ \A s \in slots : routes[s].period # 0 /\ routes[s].uncertainty # 0
      /\ mode = "simulation" => domains \subseteq {"simulation"}
      /\ mode = "physical" => domains \subseteq {"physical"}
      /\ mode = "hybrid" => domains = Domains

\* Mutant: an incomplete affine or station set is let through.
ValidateModeClockPolicy_Incomplete(c) ==
  LET t == c.thresholds IN
  IF c.mode = "simulation"
  THEN /\ c.authority = "gazebo-simulation" /\ c.mapping = "identity"
       /\ Present(t, "max_gazebo_clock_skew")
  ELSE /\ c.authority = "station-wall-monotonic"
       /\ c.mapping = "affine-to-session"
       /\ c.mode = "hybrid" => AllPresent(t, RateFields)

ValidateModeClockPolicy(c) ==
  LET t == c.thresholds IN
  IF c.mode = "simulation"
  THEN /\ c.authority = "gazebo-simulation" /\ c.mapping = "identity"
       /\ Present(t, "max_gazebo_clock_skew")
       /\ ~AnyPresent(t, AffineFields \cup StationFields \cup RateFields)
  ELSE /\ c.authority = "station-wall-monotonic"
       /\ c.mapping = "affine-to-session"
       /\ AllPresent(t, AffineFields \cup StationFields)
       /\ IF c.mode = "physical"
          THEN ~AnyPresent(t, RateFields \cup {"max_gazebo_clock_skew"})
          ELSE /\ AllPresent(t, RateFields \cup {"max_gazebo_clock_skew"})
               /\ t["min_real_time_factor"] <= UnitRate
               /\ t["max_real_time_factor"] >= UnitRate
               /\ t["min_real_time_factor"] < t["max_real_time_factor"]

\* Mutant: half of an odd period is rounded down.
HalfSamplePeriod_Down(r) == r.period \div 2

HalfSamplePeriod(r) == (r.period \div 2) + (r.period % 2)

\* Wire quantization plus half a sample, within 64 bits.
AboveUncertaintyFloor(r) ==
  /\ HalfSamplePeriod(r) <= UintMax - WireResolution
  /\ r.uncertainty >= WireResolution + HalfSamplePeriod(r)

ValidateSourceTiming(c) ==
  LET t == c.thresholds IN
  /\ c.wire = WireResolution
  /\ c.delay = "sample_time"
  /\ c.mapping = "affine-to-session" =>
       /\ t["max_offset_step"] >= WireResolution
       /\ t["max_jitter"] >= WireResolution
  /\ Present(t, "max_gazebo_clock_skew") =>
       t["max_gazebo_clock_skew"] >= WireResolution
  /\ Present(t, "max_station_wall_step") =>
       t["max_station_wall_step"] <= t["max_station_wall_error"]
  /\ \A s \in DOMAIN c.routes :
       /\ AboveUncertaintyFloor(c.routes[s])
       /\ t["max_uncertainty"] >= c.routes[s].uncertainty
       /\ t["max_sample_age"] >= c.routes[s].period

=============================================================================
