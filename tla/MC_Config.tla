----------------------------- MODULE MC_Config -----------------------------
(* Policies one or two edits away from a sound one of each mode, route     *)
(* tables with an edited route, and texts with an edited line.             *)
EXTENDS PolicyLoader

MCSlots == {1, 2}
MCBodies == {"a", "b"}

Common ==
  [f \in Required |->
     CASE f = "min_lock_samples" -> 2
       [] f \in {"max_uncertainty", "max_sample_age", "max_authority_age"} -> 6
       [] f = "startup_lock_timeout" -> 7
       [] OTHER -> 1]

\* The optional thresholds a mode requires, at workable values.
Needed(mode) ==
  (IF mode = "simulation" THEN {} ELSE AffineFields \cup StationFields)
  \cup (IF mode = "physical" THEN {} ELSE {"max_gazebo_clock_skew"})
  \cup (IF mode = "hybrid" THEN RateFields ELSE {})

Sound(mode) ==
  [f \in Required \cup Optional |->
     IF f \in Required THEN Common[f]
     ELSE IF f \notin Needed(mode) THEN Absent
     ELSE IF f = "min_real_time_factor" THEN 1
     ELSE IF f = "max_real_time_factor" THEN 3 ELSE 2]

Edits(f) == IF f \in Optional THEN {Absent, 0, 1, 3} ELSE {0, 1, 5, 7}

Fields == Required \cup Optional

\* Nobody, and one robot in each of the domains a mode may use.
SoundTables ==
  {<< >>} \cup
  {[s \in MCSlots |->
      [domain |-> IF s = 1 THEN d1 ELSE d2,
       source |-> IF s = 1 THEN "a" ELSE "b", canonical |-> IF s = 1 THEN "a" ELSE "b",
       period |-> 4, uncertainty |-> 4]] : d1 \in Domains, d2 \in Domains}

SoundTable(mode) ==
  CHOOSE table \in SoundTables \ {<< >>} :
    {table[s].domain : s \in MCSlots}
      = IF mode = "hybrid" THEN Domains ELSE {mode}

Timings == {<<0, 2>>, <<4, 4>>, <<5, 4>>, <<7, 6>>}

SomeRoute ==
  {[domain |-> d, source |-> x, canonical |-> y,
    period |-> p[1], uncertainty |-> p[2]] :
     d \in Domains, x \in MCBodies \cup {"-"}, y \in MCBodies \cup {"-"}, p \in Timings}

Policy(mode, thresholds, routes) ==
  [mode |-> mode,
   authority |-> IF mode = "simulation" THEN "gazebo-simulation"
                                        ELSE "station-wall-monotonic",
   mapping |-> IF mode = "simulation" THEN "identity" ELSE "affine-to-session",
   session |-> "session", contract |-> "digest", wire |-> WireResolution,
   measured |-> FALSE, delay |-> "sample_time",
   thresholds |-> thresholds, routes |-> routes]

\* One edit: a field and its new value.
Edit == {<<f, v>> \in Fields \X (Absent..7) : v \in Edits(f)}

EditedThresholds ==
  {Policy(mode, [Sound(mode) EXCEPT ![e[1]] = e[2], ![g[1]] = g[2]], SoundTable(mode)) :
     mode \in Modes, e \in Edit, g \in Edit}

EditedRoutes ==
  {Policy(mode, Sound(mode), [SoundTable(mode) EXCEPT ![s] = r]) :
     mode \in Modes, s \in MCSlots, r \in SomeRoute}
  \cup {Policy(mode, Sound(mode), [s \in {2} |-> r]) : mode \in Modes, r \in SomeRoute}

EditedClock ==
  {[Policy(mode, Sound(other), routes) EXCEPT !.authority = authority,
                                              !.mapping = mapping] :
     mode \in Modes, other \in Modes, routes \in SoundTables,
     authority \in Authorities, mapping \in Mappings}

Candidates == EditedThresholds \cup EditedRoutes \cup EditedClock

\* The text of a sound hybrid policy, with the lines from p to q replaced.
Base == Rendering(Policy("hybrid", Sound("hybrid"), SoundTable("hybrid")))
Spliced(p, q, lines) == SubSeq(Base, 1, p - 1) \o lines \o SubSeq(Base, q + 1, Len(Base))

EditedTexts ==
  {Spliced(p, p, << >>) : p \in DOMAIN Base}
  \cup {Spliced(p, p, <<Base[p], Base[p]>>) : p \in DOMAIN Base}
  \cup {Spliced(p, p + 1, <<Base[p + 1], Base[p]>>) : p \in 1..Len(Base) - 1}
  \cup {Spliced(p, p, <<[Base[p] EXCEPT !.form = form]>>) :
          p \in {q \in DOMAIN Base : Base[q].word = ""}, form \in {"respelled", "malformed"}}
  \cup {Spliced(p, p, <<[Base[p] EXCEPT !.number = UintMax + 1]>>) :
          p \in {q \in DOMAIN Base : Base[q].word = ""}}
  \cup {Spliced(p, p, <<[Base[p] EXCEPT !.word = word]>>) :
          p \in {q \in DOMAIN Base : Base[q].word # ""}, word \in {"other", "true"}}
  \cup {Spliced(p, p, <<[Base[p] EXCEPT !.name = "other"]>>) : p \in DOMAIN Base}
  \cup {Spliced(p, p, <<[Base[p] EXCEPT !.slot = 3]>>) : p \in DOMAIN Base}

MCTexts == {Rendering(c) : c \in Candidates} \cup EditedTexts

\* Another sound policy, with a shorter text than most.
MCRewrites ==
  {Rendering(Policy("simulation", Sound("simulation"), SoundTable("simulation")))}
=============================================================================
