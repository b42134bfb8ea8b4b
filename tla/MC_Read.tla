------------------------------ MODULE MC_Read ------------------------------
(* Every spelling of every class of characters in a name, some in the      *)
(* other values, names that need each escape, and texts with a segment     *)
(* missing, doubled or out of place.                                       *)
EXTENDS SecureRead

MCLimit == [jobId |-> 5, targetId |-> 4, sessionId |-> 2]
MCSchema == <<"plain">>

State(job, target) ==
  [epoch |-> 10,
   value |-> [epochId |-> <<"1", "0">>, jobId |-> job, policySha256 |-> <<"a", "0">>,
              schema |-> MCSchema, sessionContractSha256 |-> <<"1", "a">>,
              sessionId |-> <<"a">>, targetId |-> target]]

MCExpected == State(<<"plain">>, <<"plain", "a", "plain">>)
Base == Rendering(MCExpected)

MCCoreStates ==
  {State(<<"html", "separator", "quote">>, <<"control", "wide", "backslash">>),
   State(<<"a", "newline", "vtab", "space", "a">>, <<"plain">>)}

\* Base with the segments from p to q replaced.
Edit(p, q, segments) ==
  SubSeq(Base, 1, p - 1) \o segments \o SubSeq(Base, q + 1, Len(Base))

Sampled == Chars \ {"3", "4", "5", "6", "7", "8"}

\* The n-th character of a value replaced, or one put before the value.
Respelled(p, n, character) ==
  Edit(p, p, <<[Base[p] EXCEPT !.string[n] = character]>>)
Extended(p, character) ==
  Edit(p, p, <<[Base[p] EXCEPT !.string = <<character>> \o @]>>)

MCTexts ==
  {Rendering(state) : state \in MCCoreStates}
  \cup {Respelled(7, 2, <<form, c>>) : form \in Forms, c \in Sampled}
  \cup {Respelled(2, 1, <<CanonicalForm(c), c>>) : c \in Sampled}
  \cup {Respelled(p, 1, <<form, c>>) : p \in DOMAIN Keys, form \in {"raw", "unicode"},
                                        c \in {"0", "2", "wide"}}
  \cup {Extended(p, <<"raw", c>>) : p \in DOMAIN Keys, c \in {"0", "a", "space"}}
  \cup {Edit(p, p, << >>) : p \in DOMAIN Base}
  \cup {Edit(p, p, <<Base[p], Base[p]>>) : p \in DOMAIN Base}
  \cup {Base \o <<End, End>>}
  \cup {Edit(p, p + 1, <<Base[p + 1], Base[p]>>) : p \in DOMAIN Keys}

MCSplits == {4}
=============================================================================
