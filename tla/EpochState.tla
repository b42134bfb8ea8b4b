----------------------------- MODULE EpochState -----------------------------
(***************************************************************************)
(* parseCanonicalEpochState and validateEpochFenceState: what a Guard      *)
(* accepts as epoch-state.json.                                            *)
(*                                                                         *)
(* A text is a sequence of segments.  A segment is the literal before a    *)
(* value, with its brace or comma, and the string that follows; the last   *)
(* one is the closing brace and line feed.  A character of a string is     *)
(* <<form, class>>: raw, as a two-character escape, or as \u with lower-   *)
(* case ("unicode") or uppercase ("upper") hex.  A raw quote among them    *)
(* stands for a string that closes early, "open" for one that never does.  *)
(***************************************************************************)
EXTENDS Integers, SequencesExt

CONSTANTS
  Schema,          \* kEpochStateSchema, decoded
  DigestLength,    \* 64
  Limit,           \* bytes allowed in jobId, targetId and sessionId
  MaxEpochId,      \* 2^64 - 1
  Expected         \* startup epoch and the policy's lineage

Keys == <<"epochId", "jobId", "policySha256", "schema",
          "sessionContractSha256", "sessionId", "targetId">>

Segment(k, string) == [key |-> k, string |-> string]
End == Segment("}", << >>)

Forms == {"raw", "short", "unicode", "upper"}
Digits == <<"0", "1", "2", "3", "4", "5", "6", "7", "8", "9">>
LowerHex == {Digits[i] : i \in 1..10} \cup {"a"}

\* Classes of characters; "a" is a lower hex letter, "plain" the other
\* printable ASCII, "wide" two bytes of UTF-8, "newline" a control character
\* with a two-character escape and "vtab" the white space without one.
Chars == LowerHex \cup {"plain", "wide", "space", "quote", "backslash", "html",
                        "newline", "vtab", "control", "nul", "separator",
                        "invalid", "open"}

Controls == {"newline", "vtab", "control", "nul"}

\* canonicalUtf8Length of a character that stands raw.
Utf8Length(c) ==
  CASE c \in {"invalid", "open"} -> 0 [] c = "wide" -> 2 [] c = "separator" -> 3 [] OTHER -> 1

GoTrimSpace(c) == c \in {"space", "newline", "vtab", "separator"}

-----------------------------------------------------------------------------
(* CanonicalJsonCursor *)

\* Mutant: any control character may be written as a unicode escape.
ParseEscape_AnyControl(form, c) ==
  \/ form = "short" /\ c \in {"quote", "backslash", "newline"}
  \/ form = "unicode" /\ c \in Controls \cup {"html", "separator"}

ParseEscape(form, c) ==
  \/ form = "short" /\ c \in {"quote", "backslash", "newline"}
  \/ form = "unicode" /\ c \in (Controls \ {"newline"}) \cup {"html", "separator"}

\* A character that stringValue decodes.  A raw quote ends the string where
\* no literal continues, a raw backslash begins an escape.
Legible(character) ==
  LET form == character[1]
      c == character[2]
  IN  \/ /\ form = "raw" /\ Utf8Length(c) > 0
         /\ c \notin Controls \cup {"html", "separator", "backslash", "quote"}
      \/ form # "raw" /\ ParseEscape(form, c)

\* literal and stringValue in turn, key by key, then the end and no more.
KeysInOrder(bytes) ==
  /\ Len(bytes) = Len(Keys) + 1
  /\ \A i \in DOMAIN Keys :
       /\ bytes[i].key = Keys[i]
       /\ \A n \in DOMAIN bytes[i].string : Legible(bytes[i].string[n])
  /\ Last(bytes) = End

Decoded(string) == [n \in DOMAIN string |-> string[n][2]]

Fields(bytes) ==
  [k \in ToSet(Keys) |-> Decoded(bytes[CHOOSE i \in DOMAIN Keys : Keys[i] = k].string)]

-----------------------------------------------------------------------------
(* Fields *)

ByteLength(value) ==
  FoldLeft(LAMBDA n, c : n + Utf8Length(c), 0, value)

\* Mutant: a name of exactly the maximal length is refused.
CanonicalIdentity_Exclusive(value, maximum) ==
  /\ value # << >> /\ ByteLength(value) < maximum
  /\ "nul" \notin ToSet(value)
  /\ ~GoTrimSpace(Head(value)) /\ ~GoTrimSpace(Last(value))

CanonicalIdentity(value, maximum) ==
  /\ value # << >> /\ ByteLength(value) <= maximum
  /\ "nul" \notin ToSet(value)
  /\ ~GoTrimSpace(Head(value)) /\ ~GoTrimSpace(Last(value))

LowerHexDigest(value) ==
  Len(value) = DigestLength /\ ToSet(value) \subseteq LowerHex

\* stoull: the number the first n digits of a text make, and all of them.
Digit(c) == CHOOSE d \in 0..9 : Digits[d + 1] = c

Accumulated(text) ==
  LET value[n \in 0..Len(text)] ==
        IF n = 0 THEN 0 ELSE 10 * value[n - 1] + Digit(text[n])
  IN  value

Decimal(text) == Accumulated(text)[Len(text)]

ParsesEpochId(text) ==
  /\ text # << >> /\ Head(text) # "0"
  /\ ToSet(text) \subseteq ToSet(Digits)
  /\ Decimal(text) <= MaxEpochId

\* parseCanonicalEpochState returns, and returns StateOf.
Parses(bytes) ==
  /\ KeysInOrder(bytes)
  /\ LET value == Fields(bytes)
     IN  /\ ParsesEpochId(value["epochId"])
         /\ value["schema"] = Schema
         /\ CanonicalIdentity(value["jobId"], Limit["jobId"])
         /\ CanonicalIdentity(value["targetId"], Limit["targetId"])
         /\ LowerHexDigest(value["policySha256"])
         /\ LowerHexDigest(value["sessionContractSha256"])
         /\ value["sessionId"] # << >>
         /\ ByteLength(value["sessionId"]) <= Limit["sessionId"]

StateOf(bytes) ==
  LET value == Fields(bytes)
  IN  [epoch |-> Decimal(value["epochId"]), value |-> value]

ValidateEpochFenceState(state) ==
  /\ state.epoch = Expected.epoch
  /\ \A k \in {"policySha256", "sessionContractSha256", "sessionId"} :
       state.value[k] = Expected.value[k]

-----------------------------------------------------------------------------
(* Core writes the file with Go's JSON encoder; so spelled, a state has one *)
(* text.                                                                    *)

CanonicalForm(c) ==
  CASE c \in {"quote", "backslash", "newline"} -> "short"
    [] c \in {"html", "separator", "vtab", "control", "nul"} -> "unicode"
    [] OTHER -> "raw"

Spelled(value) == [i \in DOMAIN value |-> <<CanonicalForm(value[i]), value[i]>>]

Numeral[n \in Nat] ==
  IF n < 10 THEN <<Digits[n + 1]>>
  ELSE Append(Numeral[n \div 10], Digits[(n % 10) + 1])

Rendering(state) ==
  LET value == [state.value EXCEPT !["epochId"] = Numeral[state.epoch]]
  IN  Append([i \in DOMAIN Keys |-> Segment(Keys[i], Spelled(value[Keys[i]]))], End)
=============================================================================
