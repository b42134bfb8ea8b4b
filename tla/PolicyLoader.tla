---------------------------- MODULE PolicyLoader ----------------------------
(***************************************************************************)
(* FrozenConfigLoader::loadFile and parse: a file is read, its digest is   *)
(* compared with the one the launch names, its key=value lines become a    *)
(* FrozenConfig, the validators run, and the order of the keys is compared *)
(* with the one order Core writes.                                         *)
(*                                                                         *)
(* A text is a sequence of lines.  A line holds a key (slot 0 for a scalar *)
(* one) and either a word or a number; its form tells the one canonical    *)
(* spelling of the number from any other, and from a line that is not      *)
(* key=value data at all (a blank, a comment, two separators).  A digest   *)
(* stands for the text it was taken of.                                    *)
(***************************************************************************)
EXTENDS FrozenConfig, SequencesExt

CONSTANTS
  Texts,        \* bound: policies whose digest a launch may name
  Rewrites,     \* bound: what the file may be rewritten with meanwhile
  MaxLines,     \* kMaximumCanonicalPolicyBytes, in lines
  Uint32Max     \* the largest std::uint32_t

ScalarOrder ==
  <<"schema", "policy_revision", "session_id", "session_contract_sha256",
    "run_mode", "authority", "mapping", "wire_time_resolution",
    "measurement_enabled", "timestamp_policy", "estimator_window",
    "min_lock_samples", "recover_lock_samples", "lost_after_failures",
    "startup_lock_timeout", "max_offset_step", "max_drift", "max_jitter",
    "max_uncertainty", "max_sample_age", "max_authority_age",
    "max_gazebo_clock_skew", "max_station_wall_error", "max_station_wall_step",
    "min_real_time_factor", "max_real_time_factor", "guard_poll_period",
    "queue_depth">>

RouteOrder == <<"source_domain", "source_body", "canonical_body",
                "sample_period", "source_uncertainty">>

Counts == {"min_lock_samples", "recover_lock_samples", "lost_after_failures",
           "queue_depth"}
Reals == {"max_drift"} \cup RateFields

\* What a line that holds a number holds for a word.
NoWord == ""

\* A line that holds a word has no number, and a word has one spelling.
Line ==
  {l \in [slot : Nat, name : STRING, word : STRING, number : Nat,
          form : {"canonical", "respelled", "malformed"}] :
     l.word # NoWord => l.number = 0 /\ l.form # "respelled"}

\* No ROS name segment is empty, and a std::uint32_t fits a std::uint64_t.
ASSUME LoaderAssumption ==
  /\ Texts \subseteq Seq(Line)
  /\ Bodies \subseteq STRING \ {NoWord}
  /\ Uint32Max \in 0..UintMax

WordLine(slot, name, word) ==
  [slot |-> slot, name |-> name, word |-> word, number |-> 0, form |-> "canonical"]
NumberLine(slot, name, number) ==
  [slot |-> slot, name |-> name, word |-> NoWord, number |-> number, form |-> "canonical"]

VARIABLES
  file,     \* what the policy file holds
  named,    \* the text whose digest the launch names
  size,     \* the length of the file when it was opened
  text,     \* what was read of it
  config,   \* the FrozenConfig under construction
  stage     \* the next step, or the verdict

loaderVars == <<file, named, size, text, config, stage>>

-----------------------------------------------------------------------------
(* Reading lines *)

KeyOf(line) == <<line.slot, line.name>>
Keys(t) == {KeyOf(t[i]) : i \in DOMAIN t}
LineOf(t, slot, name) == t[CHOOSE i \in DOMAIN t : KeyOf(t[i]) = <<slot, name>>]
Has(t, slot, name) == <<slot, name>> \in Keys(t)

\* The loop over the lines: each is key=value data, and no key repeats.
LinesParse(t) ==
  /\ \A i \in DOMAIN t : t[i].form # "malformed"
  /\ Cardinality(Keys(t)) = Len(t)

\* Every key is one of the schema's, or a field of a route.
KeysKnown(t) ==
  \A i \in DOMAIN t :
    \/ t[i].slot = 0 /\ t[i].name \in ToSet(ScalarOrder)
    \/ t[i].slot \in Slots /\ t[i].name \in ToSet(RouteOrder)

\* Mutant: a number may have leading zeros, a float trailing ones.
Unsigned_AnySpelling(line) ==
  line.number \in (IF line.name \in Counts THEN 0..Uint32Max ELSE 0..UintMax)

\* parseUnsigned, parseUint32 and parsePositiveDouble.
Unsigned(line) ==
  /\ line.form = "canonical" /\ line.word = NoWord
  /\ line.number \in (IF line.name \in Counts THEN 0..Uint32Max ELSE 0..UintMax)
  /\ line.name \in Reals => line.number > 0

Word(t, name) == LineOf(t, 0, name).word
Number(t, slot, name) == LineOf(t, slot, name).number

\* The words of the header; any run_mode passes until validateRoutes, any
\* delay policy until validateSourceTiming.
HeaderParses(t) ==
  /\ \A i \in 1..10 : Has(t, 0, ScalarOrder[i])
  /\ Word(t, "schema") = "config.v2"
  /\ Word(t, "policy_revision") = "builtin-policy.v2"
  /\ Word(t, "session_id") \in {"session"}
  /\ Word(t, "session_contract_sha256") \in {"digest"}
  /\ Word(t, "authority") \in Authorities
  /\ Word(t, "mapping") \in Mappings
  /\ Unsigned(LineOf(t, 0, "wire_time_resolution"))
  /\ Word(t, "measurement_enabled") \in {"true", "false"}

ThresholdsParse(t) ==
  /\ \A f \in Required : Has(t, 0, f)
  /\ \A f \in Required \cup Optional : Has(t, 0, f) => Unsigned(LineOf(t, 0, f))

ScalarsOf(t) ==
  [mode |-> Word(t, "run_mode"), authority |-> Word(t, "authority"),
   mapping |-> Word(t, "mapping"), session |-> Word(t, "session_id"),
   contract |-> Word(t, "session_contract_sha256"),
   wire |-> Number(t, 0, "wire_time_resolution"),
   measured |-> Word(t, "measurement_enabled") = "true",
   delay |-> Word(t, "timestamp_policy"),
   thresholds |-> [f \in Required \cup Optional |->
                     IF Has(t, 0, f) THEN Number(t, 0, f) ELSE Absent],
   routes |-> << >>]

RouteSlots(t) == {t[i].slot : i \in DOMAIN t} \ {0}

RoutesParse(t) ==
  \A s \in RouteSlots(t) :
    /\ \A name \in ToSet(RouteOrder) : Has(t, s, name)
    /\ LineOf(t, s, "source_domain").word \in Domains
    /\ Unsigned(LineOf(t, s, "sample_period"))
    /\ Unsigned(LineOf(t, s, "source_uncertainty"))

RoutesOf(t) ==
  [s \in RouteSlots(t) |->
     [domain |-> LineOf(t, s, "source_domain").word,
      source |-> LineOf(t, s, "source_body").word,
      canonical |-> LineOf(t, s, "canonical_body").word,
      period |-> Number(t, s, "sample_period"),
      uncertainty |-> Number(t, s, "source_uncertainty")]]

CanonicalKeyOrder(c) ==
  LET Stands(name) == name \in Optional => Present(c.thresholds, name)
      scalars == SelectSeq(ScalarOrder, Stands)
      slots == SetToSortSeq(DOMAIN c.routes, <)
      RouteKeys(s) == [i \in DOMAIN RouteOrder |-> <<s, RouteOrder[i]>>]
  IN  [i \in DOMAIN scalars |-> <<0, scalars[i]>>]
        \o FlattenSeq([i \in DOMAIN slots |-> RouteKeys(slots[i])])

-----------------------------------------------------------------------------
(* loadFile and parse *)

LoadInit ==
  /\ named \in Texts
  /\ file = named
  /\ size = 0
  /\ text = << >>
  /\ config = << >>
  /\ stage = "open"

\* Until the digest is compared somebody may rewrite the file; it is not
\* looked at later.
Rewrite ==
  /\ stage \in {"open", "read", "digest"}
  /\ file' \in Rewrites \cup {named}
  /\ UNCHANGED <<named, size, text, config, stage>>

OpenFile ==
  /\ stage = "open"
  /\ size' = Len(file)
  /\ stage' = IF Len(file) \in 1..MaxLines THEN "read" ELSE "rejected"
  /\ UNCHANGED <<file, named, text, config>>

ReadFile ==
  /\ stage = "read"
  /\ IF Len(file) < size THEN stage' = "rejected" /\ UNCHANGED text
     ELSE stage' = "digest" /\ text' = SubSeq(file, 1, size)
  /\ UNCHANGED <<file, named, size, config>>

\* Mutant: the digest is taken of the file, not of what was read.
DigestMatches_File == file = named

DigestMatches == text = named

CompareDigest ==
  /\ stage = "digest"
  /\ stage' = IF DigestMatches THEN "lines" ELSE "rejected"
  /\ UNCHANGED <<file, named, size, text, config>>

\* A step of parse that judges and, when it passes, builds.
Parse(at, holds, built, next) ==
  /\ stage = at
  /\ IF holds THEN stage' = next /\ config' = built
     ELSE stage' = "rejected" /\ UNCHANGED config
  /\ UNCHANGED <<file, named, size, text>>

ParseLines == Parse("lines", LinesParse(text), config, "keys")

ParseKeys == Parse("keys", KeysKnown(text), config, "scalars")

ParseScalars ==
  Parse("scalars", HeaderParses(text) /\ ThresholdsParse(text),
        ScalarsOf(text), "thresholds")

ParseThresholds ==
  Parse("thresholds", ValidateThresholdPolicy(config.thresholds), config, "routes")

ParseRoutes ==
  Parse("routes",
        RoutesParse(text) /\ ValidateRoutes(config.mode, RoutesOf(text)),
        [config EXCEPT !.routes = RoutesOf(text)], "mode")

ParseMode == Parse("mode", ValidateModeClockPolicy(config), config, "timing")

ParseTiming == Parse("timing", ValidateSourceTiming(config), config, "order")

ParseOrder ==
  Parse("order", [i \in DOMAIN text |-> KeyOf(text[i])] = CanonicalKeyOrder(config),
        config, "accepted")

LoadNext ==
  \/ Rewrite \/ OpenFile \/ ReadFile \/ CompareDigest
  \/ ParseLines \/ ParseKeys \/ ParseScalars \/ ParseThresholds
  \/ ParseRoutes \/ ParseMode \/ ParseTiming \/ ParseOrder

LoadSpec == LoadInit /\ [][LoadNext]_loaderVars

-----------------------------------------------------------------------------
(* What Core writes for a policy *)

ScalarLine(c, name) ==
  CASE name = "schema" -> WordLine(0, name, "config.v2")
    [] name = "policy_revision" -> WordLine(0, name, "builtin-policy.v2")
    [] name = "session_id" -> WordLine(0, name, c.session)
    [] name = "session_contract_sha256" -> WordLine(0, name, c.contract)
    [] name = "run_mode" -> WordLine(0, name, c.mode)
    [] name = "authority" -> WordLine(0, name, c.authority)
    [] name = "mapping" -> WordLine(0, name, c.mapping)
    [] name = "wire_time_resolution" -> NumberLine(0, name, c.wire)
    [] name = "measurement_enabled" ->
         WordLine(0, name, IF c.measured THEN "true" ELSE "false")
    [] name = "timestamp_policy" -> WordLine(0, name, c.delay)
    [] OTHER -> NumberLine(0, name, c.thresholds[name])

RouteLine(r, s, name) ==
  CASE name = "source_domain" -> WordLine(s, name, r.domain)
    [] name = "source_body" -> WordLine(s, name, r.source)
    [] name = "canonical_body" -> WordLine(s, name, r.canonical)
    [] name = "sample_period" -> NumberLine(s, name, r.period)
    [] name = "source_uncertainty" -> NumberLine(s, name, r.uncertainty)

Rendering(c) ==
  LET keys == CanonicalKeyOrder(c)
  IN  [i \in DOMAIN keys |->
         LET s == keys[i][1] IN
         IF s = 0 THEN ScalarLine(c, keys[i][2])
                  ELSE RouteLine(c.routes[s], s, keys[i][2])]

-----------------------------------------------------------------------------
(* Properties *)

\* The text that was parsed is the one whose digest the launch names, also
\* when the file is rewritten, and written back, while it is being loaded.
AcceptedIsNamed == stage = "accepted" => text = named

\* A policy has one text: what was accepted is, line by line, what Core
\* writes for the configuration built from it.  Repeated, unknown or missing
\* keys, another order and other spellings of a number are refused somewhere
\* along the way, and no line goes unread.
AcceptedIsCanonical == stage = "accepted" => text = Rendering(config)

\* No validator reads an optional threshold that is missing: whatever
\* validateSourceTiming dereferences has been required before.
TimingReadsPresent ==
  stage = "timing" =>
    LET t == config.thresholds IN
    /\ config.mapping = "affine-to-session" =>
         AllPresent(t, {"max_offset_step", "max_jitter"})
    /\ Present(t, "max_station_wall_step") => Present(t, "max_station_wall_error")

\* An accepted policy is a FrozenConfig the guard can be built from: every
\* threshold a mode reads is there, the estimator window can hold the samples
\* a lock needs, the startup allowance covers the runtime ages, and each wall
\* step within its bound keeps within the wall error.
AcceptedIsUsable ==
  stage = "accepted" =>
    LET t == config.thresholds
        affine == config.mapping = "affine-to-session"
    IN  /\ IsConfig(config) /\ config.mode \in Modes
        /\ affine <=> config.mode # "simulation"
        /\ t["min_lock_samples"] >= 2 /\ t["recover_lock_samples"] >= 1
        /\ t["lost_after_failures"] >= 1
        /\ affine =>
             /\ AllPresent(t, AffineFields \cup StationFields)
             /\ t["min_lock_samples"] <= t["estimator_window"]
             /\ t["recover_lock_samples"] <= t["estimator_window"]
             /\ t["max_station_wall_step"] \in 1..t["max_station_wall_error"]
        /\ config.mode # "physical" => t["max_gazebo_clock_skew"] > 0
        /\ config.mode = "hybrid" => AllPresent(t, RateFields)
        /\ t["startup_lock_timeout"] >= t["max_sample_age"]
        /\ t["startup_lock_timeout"] >= t["max_authority_age"]

\* An accepted route declares at least the uncertainty its wire format and
\* its sample period imply, without a rounding loss, and its own period alone
\* never makes it silent.
AcceptedFloorIsReal ==
  stage = "accepted" =>
    \A s \in DOMAIN config.routes :
      LET r == config.routes[s] IN
      /\ 2 * r.uncertainty >= 2 * WireResolution + r.period
      /\ r.period <= config.thresholds["max_sample_age"]
=============================================================================
