------------------------- MODULE PolicyLoaderProofs -------------------------
(***************************************************************************)
(* What loadFile and parse promise of an accepted policy, for any policy   *)
(* texts, any rewrite of the file while it is loaded, and any limits.      *)
(***************************************************************************)
EXTENDS PolicyLoader, FiniteSetTheorems, TLAPS

-----------------------------------------------------------------------------
(* The inductive invariant *)

\* The stages that lie behind each step of parse.
AfterOrder == {"accepted"}
AfterTiming == {"order"} \cup AfterOrder
AfterMode == {"timing"} \cup AfterTiming
AfterRoutes == {"mode"} \cup AfterMode
AfterThresholds == {"routes"} \cup AfterRoutes
AfterScalars == {"thresholds"} \cup AfterThresholds
AfterKeys == {"scalars"} \cup AfterScalars
AfterLines == {"keys"} \cup AfterKeys
AfterDigest == {"lines"} \cup AfterLines

BuiltOf(t) == [ScalarsOf(t) EXCEPT !.routes = RoutesOf(t)]

KeysOf(t) == [i \in DOMAIN t |-> KeyOf(t[i])]

\* Each check that has passed holds of the one text all of them read, which
\* no later step replaces, and of the configuration built from it so far.
LoaderInv ==
  /\ named \in Texts
  /\ stage \in AfterDigest => text = named
  /\ stage \in AfterLines => LinesParse(text)
  /\ stage \in AfterKeys => KeysKnown(text)
  /\ stage \in AfterScalars => HeaderParses(text) /\ ThresholdsParse(text)
  /\ stage \in {"thresholds", "routes"} => config = ScalarsOf(text)
  /\ stage \in AfterThresholds => ValidateThresholdPolicy(config.thresholds)
  /\ stage \in AfterRoutes =>
       /\ RoutesParse(text)
       /\ config = BuiltOf(text)
       /\ ValidateRoutes(config.mode, config.routes)
  /\ stage \in AfterMode => ValidateModeClockPolicy(config)
  /\ stage \in AfterTiming => ValidateSourceTiming(config)
  /\ stage \in AfterOrder => KeysOf(text) = CanonicalKeyOrder(config)

LEMMA BuiltFacts ==
  ASSUME NEW t
  PROVE  /\ ScalarsOf(t).mode = BuiltOf(t).mode
         /\ ScalarsOf(t).thresholds = BuiltOf(t).thresholds
         /\ BuiltOf(t).routes = RoutesOf(t)
BY DEF BuiltOf, ScalarsOf

USE DEF AfterOrder, AfterTiming, AfterMode, AfterRoutes, AfterThresholds,
        AfterScalars, AfterKeys, AfterLines, AfterDigest

LEMMA LoaderInvInit == LoadInit => LoaderInv
BY DEF LoadInit, LoaderInv

\* Before the digest matches nothing is promised but the name; afterwards
\* each step of parse adds what it checked and keeps the rest.
LEMMA LoaderInvStep ==
  ASSUME LoaderInv, [LoadNext]_loaderVars
  PROVE  LoaderInv'
<1>1. CASE Rewrite
  BY <1>1 DEF Rewrite, LoaderInv
<1>2. CASE OpenFile
  BY <1>2 DEF OpenFile, LoaderInv
<1>3. CASE ReadFile
  BY <1>3 DEF ReadFile, LoaderInv
<1>4. CASE CompareDigest
  BY <1>4 DEF CompareDigest, DigestMatches, LoaderInv
<1>5. CASE ParseLines
  BY <1>5 DEF ParseLines, Parse, LoaderInv
<1>6. CASE ParseKeys
  BY <1>6 DEF ParseKeys, Parse, LoaderInv
<1>7. CASE ParseScalars
  BY <1>7 DEF ParseScalars, Parse, LoaderInv
<1>8. CASE ParseThresholds
  BY <1>8 DEF ParseThresholds, Parse, LoaderInv
<1>9. CASE ParseRoutes
  <2>1. config = ScalarsOf(text) /\ stage = "routes" /\ text' = text
    BY <1>9 DEF ParseRoutes, Parse, LoaderInv
  <2>2. CASE stage' = "rejected"
    BY <1>9, <2>2 DEF ParseRoutes, Parse, LoaderInv
  <2>3. CASE stage' = "mode"
    <3>1. /\ RoutesParse(text) /\ ValidateRoutes(config.mode, RoutesOf(text))
          /\ config' = BuiltOf(text)
      BY <1>9, <2>1, <2>3 DEF ParseRoutes, Parse, BuiltOf
    <3>2. /\ config'.thresholds = config.thresholds
          /\ config'.mode = config.mode /\ config'.routes = RoutesOf(text)
      BY <2>1, <3>1, BuiltFacts
    <3> QED
      BY <1>9, <2>1, <2>3, <3>1, <3>2 DEF ParseRoutes, Parse, LoaderInv
  <2> QED
    BY <1>9, <2>2, <2>3 DEF ParseRoutes, Parse
<1>10. CASE ParseMode
  BY <1>10 DEF ParseMode, Parse, LoaderInv
<1>11. CASE ParseTiming
  BY <1>11 DEF ParseTiming, Parse, LoaderInv
<1>12. CASE ParseOrder
  BY <1>12 DEF ParseOrder, Parse, LoaderInv, KeysOf
<1>13. CASE UNCHANGED loaderVars
  BY <1>13 DEF loaderVars, LoaderInv
<1> QED
  BY <1>1, <1>2, <1>3, <1>4, <1>5, <1>6, <1>7, <1>8, <1>9, <1>10, <1>11, <1>12,
     <1>13 DEF LoadNext

LEMMA LoaderInvHolds == LoadSpec => []LoaderInv
BY LoaderInvInit, LoaderInvStep, PTL DEF LoadSpec

\* The text that is parsed to the end is the one the launch names.
THEOREM PolicyIsNamed == LoadSpec => []AcceptedIsNamed
<1>1. LoaderInv => AcceptedIsNamed
  BY DEF LoaderInv, AcceptedIsNamed
<1> QED
  BY <1>1, LoaderInvHolds, PTL

-----------------------------------------------------------------------------
(* Reading lines *)

\* A key that is present is read from a line that holds it.
LEMMA LineOfKey ==
  ASSUME NEW t \in Seq(Line), NEW slot, NEW name, Has(t, slot, name)
  PROVE  \E i \in DOMAIN t : /\ LineOf(t, slot, name) = t[i]
                             /\ t[i].slot = slot /\ t[i].name = name
<1>1. \E i \in DOMAIN t : KeyOf(t[i]) = <<slot, name>>
  BY DEF Has, Keys
<1> DEFINE i == CHOOSE j \in DOMAIN t : KeyOf(t[j]) = <<slot, name>>
<1>2. i \in DOMAIN t /\ KeyOf(t[i]) = <<slot, name>>
  BY <1>1
<1>3. LineOf(t, slot, name) = t[i]
  BY DEF LineOf
<1> QED
  BY <1>2, <1>3 DEF KeyOf

LEMMA LineOfType ==
  ASSUME NEW t \in Seq(Line), NEW slot, NEW name, Has(t, slot, name)
  PROVE  /\ LineOf(t, slot, name).word \in STRING
         /\ LineOf(t, slot, name).number \in Nat
         /\ LineOf(t, slot, name).name = name
<1>1. PICK i \in DOMAIN t : LineOf(t, slot, name) = t[i] /\ t[i].name = name
  BY LineOfKey
<1>2. t[i] \in Line
  BY <1>1
<1> QED
  BY <1>1, <1>2 DEF Line

LEMMA UintMaxType == UintMax \in Nat /\ Uint32Max \in Nat /\ Uint32Max <= UintMax
BY LoaderAssumption, LimitAssumption

\* None of the words the schema asks for is missing.
LEMMA WordsAreWords ==
  /\ "config.v2" # NoWord /\ "builtin-policy.v2" # NoWord /\ "session" # NoWord
  /\ "digest" # NoWord /\ "true" # NoWord /\ "false" # NoWord /\ "sample_time" # NoWord
  /\ "simulation" # NoWord /\ "physical" # NoWord /\ "hybrid" # NoWord
  /\ "gazebo-simulation" # NoWord /\ "station-wall-monotonic" # NoWord
  /\ "identity" # NoWord /\ "affine-to-session" # NoWord
BY Zenon DEF NoWord

\* A number that parses fits a std::uint64_t.
LEMMA UnsignedFits ==
  ASSUME NEW line, Unsigned(line)
  PROVE  line.number \in 0..UintMax
BY UintMaxType DEF Unsigned

\* Every table entry is missing or a std::uint64_t, and a required one is
\* not missing.
LEMMA ThresholdTable ==
  ASSUME NEW t \in Seq(Line), ThresholdsParse(t)
  PROVE  /\ ScalarsOf(t).thresholds \in [Required \cup Optional -> 0..UintMax \cup {Absent}]
         /\ \A f \in Required : ScalarsOf(t).thresholds[f] # Absent
<1> DEFINE Entry(f) == IF Has(t, 0, f) THEN Number(t, 0, f) ELSE Absent
<1>1. ScalarsOf(t).thresholds = [f \in Required \cup Optional |-> Entry(f)]
  BY DEF ScalarsOf
<1>2. \A f \in Required \cup Optional :
        Has(t, 0, f) => Number(t, 0, f) \in 0..UintMax
  BY UnsignedFits DEF ThresholdsParse, Number
<1>3. \A f \in Required \cup Optional : Entry(f) \in 0..UintMax \cup {Absent}
  BY <1>2
<1>4. \A f \in Required : Entry(f) \in 0..UintMax
  BY <1>2 DEF ThresholdsParse
<1>5. \A f \in Required : Entry(f) # Absent
  BY <1>4, UintMaxType DEF Absent
<1> HIDE DEF Entry
<1> QED
  BY <1>1, <1>3, <1>5

LEMMA BuiltIsConfig ==
  ASSUME NEW t \in Seq(Line), KeysKnown(t), HeaderParses(t), ThresholdsParse(t),
         RoutesParse(t)
  PROVE  IsConfig(BuiltOf(t))
<1> DEFINE c == BuiltOf(t)
<1>1. /\ c.thresholds \in [Required \cup Optional -> 0..UintMax \cup {Absent}]
      /\ \A f \in Required : c.thresholds[f] # Absent
  BY ThresholdTable, BuiltFacts
<1>2. /\ c.mode = Word(t, "run_mode") /\ c.authority = Word(t, "authority")
      /\ c.mapping = Word(t, "mapping") /\ c.session = Word(t, "session_id")
      /\ c.contract = Word(t, "session_contract_sha256")
      /\ c.wire = Number(t, 0, "wire_time_resolution")
      /\ c.measured = (Word(t, "measurement_enabled") = "true")
      /\ c.delay = Word(t, "timestamp_policy") /\ c.routes = RoutesOf(t)
  BY DEF BuiltOf, ScalarsOf
<1>3. c.authority \in Authorities /\ c.mapping \in Mappings
  BY <1>2 DEF HeaderParses
<1>4. \A i \in 1..10 : Has(t, 0, ScalarOrder[i])
  BY DEF HeaderParses
<1>5. /\ Has(t, 0, "session_id") /\ Has(t, 0, "session_contract_sha256")
      /\ Has(t, 0, "run_mode") /\ Has(t, 0, "timestamp_policy")
  <2>1. /\ ScalarOrder[3] = "session_id" /\ ScalarOrder[4] = "session_contract_sha256"
        /\ ScalarOrder[5] = "run_mode" /\ ScalarOrder[10] = "timestamp_policy"
    BY DEF ScalarOrder
  <2> QED
    BY <1>4, <2>1
<1>6. /\ c.mode \in STRING /\ c.session \in STRING /\ c.contract \in STRING
      /\ c.delay \in STRING
  BY <1>2, <1>5, LineOfType DEF Word
<1>7. c.wire \in 0..UintMax
  BY <1>2, UnsignedFits DEF HeaderParses, Number
<1>8. c.measured \in BOOLEAN
  BY <1>2
<1>9. DOMAIN c.routes = RouteSlots(t) /\ RouteSlots(t) \subseteq Slots
  BY <1>2 DEF RoutesOf, RouteSlots, KeysKnown
<1>10. ASSUME NEW s \in RouteSlots(t)
       PROVE  c.routes[s] \in Route
  <2>1. /\ Has(t, s, "source_body") /\ Has(t, s, "canonical_body")
    <3>1. "source_body" \in ToSet(RouteOrder) /\ "canonical_body" \in ToSet(RouteOrder)
      <4>1. RouteOrder[2] = "source_body" /\ RouteOrder[3] = "canonical_body"
            /\ DOMAIN RouteOrder = 1..5
        BY DEF RouteOrder
      <4> QED
        BY <4>1 DEF ToSet
    <3> QED
      BY <3>1 DEF RoutesParse
  <2>2. /\ LineOf(t, s, "source_body").word \in STRING
        /\ LineOf(t, s, "canonical_body").word \in STRING
    BY <2>1, LineOfType
  <2>3. /\ LineOf(t, s, "source_domain").word \in Domains
        /\ Number(t, s, "sample_period") \in 0..UintMax
        /\ Number(t, s, "source_uncertainty") \in 0..UintMax
    BY UnsignedFits DEF RoutesParse, Number
  <2> QED
    BY <1>2, <2>2, <2>3 DEF RoutesOf, Route
<1> HIDE DEF c
<1> QED
  <2>1. IsConfig(c)
    BY <1>1, <1>3, <1>6, <1>7, <1>8, <1>9, <1>10 DEF IsConfig
  <2> QED
    BY <2>1 DEF c

LEMMA BuiltConfig ==
  ASSUME LoaderInv, stage \in AfterRoutes
  PROVE  IsConfig(config) /\ config.mode \in Modes
<1>1. text \in Seq(Line)
  BY LoaderAssumption DEF LoaderInv
<1> QED
  BY <1>1, BuiltIsConfig DEF LoaderInv, ValidateRoutes

-----------------------------------------------------------------------------
(* The validators *)

\* No validator dereferences an optional threshold that is missing.
THEOREM TimingIsGuarded == LoadSpec => []TimingReadsPresent
<1>1. ASSUME LoaderInv
      PROVE  TimingReadsPresent
  <2> DEFINE t == config.thresholds
  <2> SUFFICES ASSUME stage = "timing"
               PROVE  /\ config.mapping = "affine-to-session" =>
                           AllPresent(t, {"max_offset_step", "max_jitter"})
                      /\ Present(t, "max_station_wall_step") =>
                           Present(t, "max_station_wall_error")
    BY DEF TimingReadsPresent
  <2>1. ValidateModeClockPolicy(config)
    BY <1>1 DEF LoaderInv
  <2>2. CASE config.mode = "simulation"
    <3>1. config.mapping = "identity" /\ ~Present(t, "max_station_wall_step")
      BY <2>1, <2>2 DEF ValidateModeClockPolicy, AnyPresent, StationFields
    <3> QED
      BY <3>1
  <2>3. CASE config.mode # "simulation"
    BY <2>1, <2>3 DEF ValidateModeClockPolicy, AllPresent, AffineFields, StationFields
  <2> QED
    BY <2>2, <2>3
<1> QED
  BY <1>1, LoaderInvHolds, PTL

\* A route that passes validateSourceTiming covers half its period.
LEMMA FloorCoversPeriod ==
  ASSUME NEW r \in Route, AboveUncertaintyFloor(r)
  PROVE  2 * r.uncertainty >= 2 * WireResolution + r.period
<1> DEFINE p == r.period
           u == r.uncertainty
           w == WireResolution
<1>1. p \in Nat /\ u \in Nat /\ w \in Nat
  BY LimitAssumption, UintMaxType DEF Route
<1>2. u >= w + ((p \div 2) + (p % 2))
  BY DEF AboveUncertaintyFloor, HalfSamplePeriod
<1> HIDE DEF p, u, w
<1>3. 2 * u >= 2 * w + p
  BY <1>1, <1>2
<1> QED
  BY <1>3 DEF p, u, w

\* An accepted route declares the uncertainty its period implies, and its
\* period alone never makes it silent.
THEOREM FloorsAreReal == LoadSpec => []AcceptedFloorIsReal
<1>1. ASSUME LoaderInv
      PROVE  AcceptedFloorIsReal
  <2> SUFFICES ASSUME stage = "accepted", NEW s \in DOMAIN config.routes
               PROVE  /\ 2 * config.routes[s].uncertainty
                           >= 2 * WireResolution + config.routes[s].period
                      /\ config.routes[s].period <= config.thresholds["max_sample_age"]
    BY DEF AcceptedFloorIsReal
  <2>1. config.routes[s] \in Route
        /\ config.thresholds["max_sample_age"] \in 0..UintMax
    <3>1. IsConfig(config)
      BY <1>1, BuiltConfig
    <3> QED
      BY <3>1 DEF IsConfig, Required
  <2>2. /\ AboveUncertaintyFloor(config.routes[s])
        /\ config.thresholds["max_sample_age"] >= config.routes[s].period
    BY <1>1 DEF LoaderInv, ValidateSourceTiming
  <2> QED
    BY <2>1, <2>2, FloorCoversPeriod, UintMaxType DEF Route
<1> QED
  BY <1>1, LoaderInvHolds, PTL

\* An accepted policy is a FrozenConfig the guard can be built from.
THEOREM PolicyIsUsable == LoadSpec => []AcceptedIsUsable
<1>1. ASSUME LoaderInv
      PROVE  AcceptedIsUsable
  <2> SUFFICES ASSUME stage = "accepted"
               PROVE  AcceptedIsUsable
    BY DEF AcceptedIsUsable
  <2> DEFINE t == config.thresholds
             affine == config.mapping = "affine-to-session"
  <2>1. IsConfig(config) /\ config.mode \in Modes
    BY <1>1, BuiltConfig
  <2>2. /\ ValidateThresholdPolicy(t) /\ ValidateModeClockPolicy(config)
        /\ ValidateSourceTiming(config)
    BY <1>1 DEF LoaderInv
  <2>3. affine <=> config.mode # "simulation"
    BY <2>2 DEF ValidateModeClockPolicy
  <2>4. /\ t["min_lock_samples"] >= 2 /\ t["recover_lock_samples"] >= 1
        /\ t["lost_after_failures"] >= 1
    <3>1. t["lost_after_failures"] > 0 /\ t["lost_after_failures"] \in Int
      BY <2>1, <2>2, UintMaxType
         DEF ValidateThresholdPolicy, IsConfig, Required, Present, Absent
    <3> QED
      BY <2>2, <3>1, LimitAssumption DEF ValidateThresholdPolicy, SampleCounts
  <2>5. affine => AllPresent(t, AffineFields \cup StationFields)
    BY <2>2, <2>3 DEF ValidateModeClockPolicy
  <2>6. affine => /\ t["min_lock_samples"] <= t["estimator_window"]
                  /\ t["recover_lock_samples"] <= t["estimator_window"]
    BY <2>2, <2>5
       DEF ValidateThresholdPolicy, SampleCounts, AllPresent, AffineFields
  <2>7. affine => t["max_station_wall_step"] \in 1..t["max_station_wall_error"]
    <3>1. affine => /\ Present(t, "max_station_wall_step")
                    /\ t["max_station_wall_step"] > 0
                    /\ t["max_station_wall_step"] <= t["max_station_wall_error"]
      BY <2>2, <2>5 DEF ValidateThresholdPolicy, ValidateSourceTiming,
                        AllPresent, StationFields, Optional
    <3>2. /\ t["max_station_wall_step"] \in Int
          /\ t["max_station_wall_error"] \in Int
      BY <2>1, UintMaxType DEF IsConfig, Optional, Absent
    <3> QED
      BY <3>1, <3>2
  <2>8. config.mode # "physical" => t["max_gazebo_clock_skew"] > 0
    <3>1. config.mode # "physical" => Present(t, "max_gazebo_clock_skew")
      BY <2>2 DEF ValidateModeClockPolicy, AllPresent
    <3> QED
      BY <2>2, <3>1 DEF ValidateThresholdPolicy, Optional
  <2>9. config.mode = "hybrid" => AllPresent(t, RateFields)
    BY <2>2 DEF ValidateModeClockPolicy, AllPresent
  <2>10. /\ t["startup_lock_timeout"] >= t["max_sample_age"]
         /\ t["startup_lock_timeout"] >= t["max_authority_age"]
    BY <2>2 DEF ValidateThresholdPolicy, TimeLimits
  <2> QED
    BY <2>1, <2>3, <2>4, <2>5, <2>6, <2>7, <2>8, <2>9, <2>10 DEF AcceptedIsUsable
<1> QED
  BY <1>1, LoaderInvHolds, PTL

-----------------------------------------------------------------------------
(* One text for a policy *)

\* As many keys as lines: a key determines its line.
LEMMA UniqueLine ==
  ASSUME NEW t \in Seq(Line), LinesParse(t), NEW i \in DOMAIN t
  PROVE  LineOf(t, t[i].slot, t[i].name) = t[i]
<1> DEFINE f == KeysOf(t)
           D == 1..Len(t)
           K == Keys(t)
<1>1. DOMAIN t = D /\ Len(t) \in Nat
  OBVIOUS
<1>2. IsFiniteSet(D) /\ Cardinality(D) = Len(t)
  <2> DEFINE m == Len(t)
  <2>1. m \in Int /\ m >= 0 /\ 1 \in Int
    BY <1>1
  <2> HIDE DEF m
  <2>2. IsFiniteSet(1..m) /\ Cardinality(1..m) = IF 1 > m THEN 0 ELSE m - 1 + 1
    BY <2>1, FS_Interval, Zenon
  <2>3. (IF 1 > m THEN 0 ELSE m - 1 + 1) = m
    BY <2>1
  <2> QED
    BY <2>2, <2>3 DEF m
<1>3. Cardinality(K) = Cardinality(D)
  BY <1>2 DEF LinesParse
<1>4. f \in Surjection(D, K)
  BY <1>1 DEF Surjection, KeysOf, Keys
<1> HIDE DEF f, D, K
<1>5. f \in Injection(D, K)
  BY <1>2, <1>3, <1>4, FS_SurjSameCardinalityImpliesInj
<1>6. \A a, b \in D : f[a] = f[b] => a = b
  BY <1>5 DEF Injection, IsInjective
<1>7. \A a, b \in DOMAIN t : KeyOf(t[a]) = KeyOf(t[b]) => a = b
  BY <1>1, <1>6 DEF f, KeysOf
<1>8. Has(t, t[i].slot, t[i].name)
  BY DEF Has, Keys, KeyOf
<1>9. PICK j \in DOMAIN t : /\ LineOf(t, t[i].slot, t[i].name) = t[j]
                            /\ t[j].slot = t[i].slot /\ t[j].name = t[i].name
  BY <1>8, LineOfKey
<1>10. j = i
  BY <1>7, <1>9 DEF KeyOf
<1> QED
  BY <1>9, <1>10

\* A line is determined by its key and its word, or its key and its number.
LEMMA LineIsWord ==
  ASSUME NEW l \in Line, l.form # "malformed", l.word # NoWord
  PROVE  l = WordLine(l.slot, l.name, l.word)
BY DEF Line, WordLine

LEMMA LineIsNumber ==
  ASSUME NEW l \in Line, Unsigned(l)
  PROVE  l = NumberLine(l.slot, l.name, l.number)
BY DEF Line, NumberLine, Unsigned

Header == {"schema", "policy_revision", "session_id", "session_contract_sha256",
           "run_mode", "authority", "mapping", "wire_time_resolution",
           "measurement_enabled", "timestamp_policy"}

LEMMA ScalarNames ==
  ToSet(ScalarOrder) \subseteq Header \cup Required \cup Optional
BY DEF ToSet, ScalarOrder, Header, Required, Optional

LEMMA RouteNames ==
  ToSet(RouteOrder) = {"source_domain", "source_body", "canonical_body",
                       "sample_period", "source_uncertainty"}
BY DEF ToSet, RouteOrder

\* A scalar line of an accepted text is the one Core writes.
LEMMA ScalarLines ==
  ASSUME NEW t \in Seq(Line), LinesParse(t), HeaderParses(t), ThresholdsParse(t),
         NEW c, c = BuiltOf(t), c.mode \in Modes, c.delay = "sample_time",
         NEW i \in DOMAIN t, t[i].slot = 0,
         t[i].name \in Header \cup Required \cup Optional
  PROVE  t[i] = ScalarLine(c, t[i].name)
<1> DEFINE l == t[i]
           n == t[i].name
<1>1. l \in Line /\ l.form # "malformed" /\ l.slot = 0
  BY DEF LinesParse
<1>2. LineOf(t, 0, n) = l
  BY UniqueLine
<1>3. Word(t, n) = l.word /\ Number(t, 0, n) = l.number
  BY <1>2 DEF Word, Number
<1>4. Has(t, 0, n)
  BY DEF Has, Keys, KeyOf
<1>5. /\ c.mode = Word(t, "run_mode") /\ c.authority = Word(t, "authority")
      /\ c.mapping = Word(t, "mapping") /\ c.session = Word(t, "session_id")
      /\ c.contract = Word(t, "session_contract_sha256")
      /\ c.wire = Number(t, 0, "wire_time_resolution")
      /\ c.measured = (Word(t, "measurement_enabled") = "true")
      /\ c.delay = Word(t, "timestamp_policy")
      /\ c.thresholds = [f \in Required \cup Optional |->
                           IF Has(t, 0, f) THEN Number(t, 0, f) ELSE Absent]
  BY DEF BuiltOf, ScalarsOf
<1>6. l.name = n /\ (l.word # NoWord => l = WordLine(0, n, l.word))
  BY <1>1, LineIsWord
<1>7. Unsigned(l) => l = NumberLine(0, n, l.number)
  BY <1>1, LineIsNumber
<1> HIDE DEF l, n
<1>8. CASE n \in Header \ {"wire_time_resolution"}
  <2>1. l.word # NoWord
    BY <1>3, <1>5, <1>8, WordsAreWords
       DEF Header, HeaderParses, Authorities, Mappings, Modes
  <2>2. l = WordLine(0, n, l.word)
    BY <1>6, <2>1
  <2>3. CASE n \in {"session_id", "session_contract_sha256", "run_mode", "authority",
                   "mapping", "timestamp_policy"}
    <3>1. l = ScalarLine(c, n)
      BY <1>3, <1>5, <2>2, <2>3 DEF ScalarLine
    <3> QED
      BY <3>1 DEF l, n
  <2>4. CASE n \in {"schema", "policy_revision"}
    <3>1. l = ScalarLine(c, n)
      BY <1>3, <2>2, <2>4 DEF ScalarLine, HeaderParses
    <3> QED
      BY <3>1 DEF l, n
  <2>5. CASE n = "measurement_enabled"
    <3>1. l.word \in {"true", "false"} /\ c.measured = (l.word = "true")
      BY <1>3, <1>5, <2>5 DEF HeaderParses
    <3>2. l = ScalarLine(c, n)
      BY <2>2, <2>5, <3>1 DEF ScalarLine
    <3> QED
      BY <3>2 DEF l, n
  <2> QED
    BY <1>8, <2>3, <2>4, <2>5 DEF Header
<1>9. CASE n = "wire_time_resolution"
  <2>1. Unsigned(l)
    BY <1>2, <1>9 DEF HeaderParses
  <2> QED
    BY <1>3, <1>5, <1>7, <1>9, <2>1 DEF ScalarLine, l, n
<1>10. CASE n \in Required \cup Optional
  <2>1. Unsigned(l) /\ c.thresholds[n] = l.number
    BY <1>2, <1>3, <1>4, <1>5, <1>10 DEF ThresholdsParse
  <2>2. n \notin Header
    BY <1>10 DEF Required, Optional, Header
  <2>3. ScalarLine(c, n) = NumberLine(0, n, c.thresholds[n])
    BY <2>2 DEF ScalarLine, Header
  <2> QED
    BY <1>7, <2>1, <2>3 DEF l, n
<1> QED
  BY <1>8, <1>9, <1>10 DEF n

\* A line of a route is the one Core writes.
LEMMA RouteLines ==
  ASSUME NEW t \in Seq(Line), LinesParse(t), RoutesParse(t),
         NEW mode, ValidateRoutes(mode, RoutesOf(t)),
         NEW i \in DOMAIN t, t[i].slot # 0, t[i].name \in ToSet(RouteOrder)
  PROVE  t[i] = RouteLine(RoutesOf(t)[t[i].slot], t[i].slot, t[i].name)
<1> DEFINE l == t[i]
           n == t[i].name
           s == t[i].slot
           r == RoutesOf(t)[s]
<1>1. l \in Line /\ l.form # "malformed" /\ s \in RouteSlots(t)
  BY DEF LinesParse, RouteSlots
<1>2. LineOf(t, s, n) = l
  BY UniqueLine
<1>3. /\ r.domain = LineOf(t, s, "source_domain").word
      /\ r.source = LineOf(t, s, "source_body").word
      /\ r.canonical = LineOf(t, s, "canonical_body").word
      /\ r.period = LineOf(t, s, "sample_period").number
      /\ r.uncertainty = LineOf(t, s, "source_uncertainty").number
  BY <1>1 DEF RoutesOf, Number
<1>4. /\ r.domain \in Domains /\ r.source \in Bodies /\ r.canonical \in Bodies
      /\ Unsigned(LineOf(t, s, "sample_period"))
      /\ Unsigned(LineOf(t, s, "source_uncertainty"))
  <2>1. DOMAIN RoutesOf(t) = RouteSlots(t)
    BY DEF RoutesOf
  <2>2. r.source \in Bodies /\ r.canonical \in Bodies
    BY <1>1, <2>1 DEF ValidateRoutes
  <2> QED
    BY <1>1, <1>3, <2>2 DEF RoutesParse
<1>5. r.domain # NoWord /\ r.source # NoWord /\ r.canonical # NoWord
  BY <1>4, WordsAreWords, LoaderAssumption DEF Domains
<1>6. l.word # NoWord => l = WordLine(s, n, l.word)
  BY <1>1, LineIsWord
<1>7. Unsigned(l) => l = NumberLine(s, n, l.number)
  BY <1>1, LineIsNumber
<1> HIDE DEF l, n, s, r
<1>8. l = RouteLine(r, s, n)
  <2>1. n \in {"source_domain", "source_body", "canonical_body", "sample_period",
               "source_uncertainty"}
    BY RouteNames DEF n
  <2> QED
    BY <1>2, <1>3, <1>4, <1>5, <1>6, <1>7, <2>1 DEF RouteLine
<1> QED
  BY <1>8 DEF l, n, s, r

\* What was accepted is, line by line, what Core writes for the configuration
\* built from it: a policy has one text, and no line of it goes unread.
THEOREM PolicyIsCanonical == LoadSpec => []AcceptedIsCanonical
<1>1. ASSUME LoaderInv
      PROVE  AcceptedIsCanonical
  <2> SUFFICES ASSUME stage = "accepted"
               PROVE  text = Rendering(config)
    BY DEF AcceptedIsCanonical
  <2>1. /\ text \in Seq(Line) /\ LinesParse(text) /\ KeysKnown(text)
        /\ HeaderParses(text) /\ ThresholdsParse(text) /\ RoutesParse(text)
        /\ config = BuiltOf(text) /\ ValidateRoutes(config.mode, config.routes)
        /\ config.mode \in Modes /\ config.delay = "sample_time"
        /\ KeysOf(text) = CanonicalKeyOrder(config)
    BY <1>1, LoaderAssumption, BuiltConfig DEF LoaderInv, ValidateSourceTiming
  <2> DEFINE keys == CanonicalKeyOrder(config)
             Written(i) == IF keys[i][1] = 0 THEN ScalarLine(config, keys[i][2])
                           ELSE RouteLine(config.routes[keys[i][1]], keys[i][1],
                                          keys[i][2])
  <2>2. /\ DOMAIN keys = DOMAIN text
        /\ \A i \in DOMAIN text : /\ keys[i][1] = text[i].slot
                                  /\ keys[i][2] = text[i].name
    <3> HIDE DEF keys
    <3>1. keys = [i \in DOMAIN text |-> <<text[i].slot, text[i].name>>]
      BY <2>1 DEF keys, KeysOf, KeyOf
    <3> QED
      BY <3>1
  <2>3. Rendering(config) = [i \in DOMAIN keys |-> Written(i)]
    BY DEF Rendering
  <2> HIDE DEF keys
  <2>4. ASSUME NEW i \in DOMAIN text
        PROVE  text[i] = Written(i)
    <3>1. CASE text[i].slot = 0
      <4>1. text[i].name \in Header \cup Required \cup Optional
        BY <2>1, <3>1, LimitAssumption, ScalarNames DEF KeysKnown
      <4>2. text[i] = ScalarLine(config, text[i].name)
        BY <2>1, <3>1, <4>1, ScalarLines
      <4> QED
        BY <2>2, <3>1, <4>2
    <3>2. CASE text[i].slot # 0
      <4>1. text[i].name \in ToSet(RouteOrder)
        BY <2>1, <3>2 DEF KeysKnown
      <4>2. config.routes = RoutesOf(text)
        BY <2>1, BuiltFacts
      <4>3. text[i] = RouteLine(config.routes[text[i].slot], text[i].slot, text[i].name)
        BY <2>1, <3>2, <4>1, <4>2, RouteLines
      <4> QED
        BY <2>2, <3>2, <4>3
    <3> QED
      BY <3>1, <3>2
  <2> HIDE DEF Written
  <2>5. text = [i \in DOMAIN text |-> text[i]]
    BY <2>1
  <2>6. [i \in DOMAIN text |-> text[i]] = [i \in DOMAIN keys |-> Written(i)]
    BY <2>2, <2>4
  <2> QED
    BY <2>3, <2>5, <2>6
<1> QED
  BY <1>1, LoaderInvHolds, PTL
=============================================================================
