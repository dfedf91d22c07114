--------------------------- MODULE VersionExtractor ---------------------------
(***************************************************************************)
(* runtime/version_extractor.py: which version changes a raw change point  *)
(* states.  The loop of extract_version_changes visits the connectors of   *)
(* the text from left to right and adds at most one line for each.         *)
(*                                                                         *)
(* A text is a sequence of characters of the classes the regular           *)
(* expressions tell apart, so that a window can cut through a version as   *)
(* the slices of the code do: letters, digits, the dot, the space, "w" for *)
(* a CJK character, "," for punctuation, and Connector for any of the nine *)
(* connectors, which count as one CJK character.                           *)
(***************************************************************************)
EXTENDS Integers, Sequences, FiniteSets

CONSTANTS Texts,      \* the raw texts
          OldWindow,  \* _OLD_WINDOW: how far back old versions are looked for
          NewGap      \* _NEW_GAP: how far ahead the new version may start

Letters == {"V", "N"}
Digits  == {"1", "2"}
Connector == "C"

ASSUME ExtractorAssumption ==
  /\ Texts \subseteq Seq(Letters \cup Digits \cup {".", " ", "w", ",", Connector})
  /\ OldWindow \in Nat
  /\ NewGap \in Nat

VARIABLES
  text,   \* raw_text
  next,   \* where finditer goes on
  lines   \* the lines so far; no two are equal, so seen is their set

None == <<>>

-----------------------------------------------------------------------------
(* The regular expressions.                                                *)

All(t, S) == \A i \in DOMAIN t : t[i] \in S

\* \d+(\.\d+)+
IsDotted(t) ==
  /\ All(t, Digits \cup {"."})
  /\ \E i \in DOMAIN t : t[i] = "."
  /\ \A i \in DOMAIN t : t[i] = "." =>
       i - 1 \in DOMAIN t /\ t[i - 1] # "." /\ i + 1 \in DOMAIN t /\ t[i + 1] # "."

\* fullmatch of _VERSION_TOKEN: letters, a dotted number, letters and digits.
IsVersion(t) ==
  \E a \in 0..(Len(t) - 3) :
    /\ All(SubSeq(t, 1, a), Letters)
    /\ t[a + 1] \in Digits
    /\ \E z \in (a + 3)..Len(t) :
         /\ IsDotted(SubSeq(t, a + 1, z))
         /\ All(SubSeq(t, z + 1, Len(t)), Letters \cup Digits)

\* A match of _VERSION_TOKEN from i to j.  The look-behind keeps it from starting
\* inside a longer word, and it is as long as it can be.
IsToken(t, i, j) ==
  /\ i + 2 <= j
  /\ i > 1 => t[i - 1] \notin Letters \cup Digits \cup {"."}
  /\ IsVersion(SubSeq(t, i, j))
  /\ \A k \in (j + 1)..Len(t) : ~IsVersion(SubSeq(t, i, k))

\* What finditer finds: first and last index of each match.
Tokens(t) == {r \in (DOMAIN t) \X (DOMAIN t) : IsToken(t, r[1], r[2])}

Cut(t, range) == SubSeq(t, range[1], range[2])

\* Mutation of Window: the last character is left out.
WindowShort(t, c) == SubSeq(t, IF c > OldWindow THEN c - OldWindow ELSE 1, c - 2)

\* text[max(0, end - _OLD_WINDOW):end], end being the index of the connector.
Window(t, c) == SubSeq(t, IF c > OldWindow THEN c - OldWindow ELSE 1, c - 1)

-----------------------------------------------------------------------------
(* The parts of a line.                                                    *)

\* Mutation of NewVersion: however far away.
NewVersionAnywhere(t, c) ==
  IF \E r \in Tokens(t) : r[1] > c
  THEN Cut(t, CHOOSE r \in Tokens(t) :
                /\ r[1] > c
                /\ \A q \in Tokens(t) : q[1] > c => r[1] <= q[1])
  ELSE None

\* The first version after the connector at c, unless it starts too far away.
NewVersion(t, c) ==
  LET after == {r \in Tokens(t) : r[1] > c}
      first == CHOOSE r \in after : \A q \in after : r[1] <= q[1]
  IN  IF after = {} \/ first[1] > c + 1 + NewGap THEN None ELSE Cut(t, first)

\* The last version in the window.
OldVersion(t, c) ==
  LET w == Window(t, c)
      last == CHOOSE r \in Tokens(w) : \A q \in Tokens(w) : q[1] <= r[1]
  IN  IF Tokens(w) = {} THEN None ELSE Cut(w, last)

\* The runs of letters, digits, dots and CJK that end with the window, or at the
\* spaces that end it.
Runs(w) ==
  {r \in (DOMAIN w) \X (DOMAIN w) :
     /\ r[1] <= r[2]
     /\ All(Cut(w, r), Letters \cup Digits \cup {".", "w", Connector})
     /\ All(SubSeq(w, r[2] + 1, Len(w)), {" "})}

Subject(t, c) ==
  LET runs == Runs(Window(t, c))
  IN  IF runs = {} THEN None
      ELSE Cut(Window(t, c), CHOOSE r \in runs : \A q \in runs : r[1] <= q[1])

\* _component_prefix
Component(v) ==
  LET n == CHOOSE n \in 0..Len(v) :
             All(SubSeq(v, 1, n), Letters) /\ (n < Len(v) => v[n + 1] \notin Letters)
  IN  SubSeq(v, 1, n)

Upgrade(old, new) == <<"upgrade", old, new>>   \* "old 升级至 new"
Mention(subject, new) == <<"mention", subject, new>>

\* A version beside the connector is the old one.
Beside(subject, new) == IF subject = new THEN None ELSE Upgrade(subject, new)

\* Mutation of Behind: any version in the window will do.
BehindAny(subject, old, new) ==
  IF old # None /\ old # new THEN Upgrade(old, new)
  ELSE IF subject # None THEN Mention(subject, new) ELSE None

\* A version of the same component further back is the old one; failing that, a
\* subject without a version is named; failing that, nothing is certain.
Behind(subject, old, new) ==
  IF old # None /\ old # new /\ Component(old) = Component(new)
  THEN Upgrade(old, new)
  ELSE IF subject # None THEN Mention(subject, new) ELSE None

\* The line of the connector at c, or None.
Line(t, c) ==
  LET new == NewVersion(t, c)
      subject == Subject(t, c)
  IN  IF new = None THEN None
      ELSE IF IsVersion(subject) THEN Beside(subject, new)
      ELSE IF Tokens(subject) # {} THEN None
      ELSE Behind(subject, OldVersion(t, c), new)

-----------------------------------------------------------------------------
Seen == {lines[i] : i \in DOMAIN lines}

Start == text \in Texts /\ next = 1 /\ lines = <<>>

Connectors == {c \in next..Len(text) : text[c] = Connector}

\* if line not in seen
Add(line) ==
  lines' = IF line = None \/ line \in Seen THEN lines ELSE Append(lines, line)

\* One round of the loop.
Visit ==
  \E c \in Connectors :
    /\ \A d \in Connectors : c <= d
    /\ Add(Line(text, c))
    /\ next' = c + 1
    /\ UNCHANGED text

Extraction == Start /\ [][Visit]_<<text, next, lines>>

-----------------------------------------------------------------------------
(* Properties.                                                             *)

Stated == {Cut(text, r) : r \in Tokens(text)}

\* The window of connector c does not start inside a word.
WindowIsClean(c) ==
  c - OldWindow > 1 => text[c - OldWindow - 1] \notin Letters \cup Digits \cup {"."}

\* A line gives only versions that the text has as whole words: the new one near
\* a connector, the old one another, before it, as long as no window cuts
\* through a word (version_extractor.py:89-100).
VersionsAreStated ==
  LET tokens == Tokens(text) IN
  \A l \in Seen : \E c \in 1..(next - 1) :
    /\ text[c] = Connector
    /\ \E r \in tokens : c < r[1] /\ r[1] <= c + 1 + NewGap /\ l[3] = Cut(text, r)
    /\ l[1] = "upgrade" /\ WindowIsClean(c) =>
         l[2] # l[3] /\ \E r \in tokens : r[2] < c /\ l[2] = Cut(text, r)

\* A version that is not beside its connector is called the old one only of the
\* same component (version_extractor.py:52-73).
NeverAcrossComponents ==
  \A l \in Seen :
    l[1] = "upgrade" /\ Component(l[2]) # Component(l[3]) =>
      \E c \in 1..(next - 1) : text[c] = Connector /\ Subject(text, c) = l[2]

\* An upgrade that is spelled out, one version beside the connector and another
\* right behind it, is not missed (version_extractor.py:47-51).
SpelledOutIsFound ==
  LET tokens == Tokens(text) IN
  \A q, r \in tokens :
    /\ q[2] + 1 < next
    /\ text[q[2] + 1] = Connector
    /\ r[1] = q[2] + 2
    /\ q[2] - q[1] < OldWindow
    /\ q[1] > 1 => text[q[1] - 1] \in {",", " "}
    /\ Cut(text, q) # Cut(text, r)
    => Upgrade(Cut(text, q), Cut(text, r)) \in Seen

\* "Do not invent a version or infer an upgrade when the source does not state
\* one" (the design's boundaries; version_extractor.py:50 "never invent an
\* upgrade"): the old version of a line is a version of the text.
NeverInvents == \A l \in Seen : l[1] = "upgrade" => l[2] \in Stated

=============================================================================
