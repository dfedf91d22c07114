----------------------------- MODULE Texts_proofs -----------------------------
(***************************************************************************)
(* Proofs about what becomes of a text, for texts of every length: the     *)
(* lines that VersionExtractor reads from the source, and the way of the   *)
(* model's reply through JsonExtract and OutputPipeline to the client.     *)
(***************************************************************************)
EXTENDS VersionExtractor, OutputPipeline, TLAPS, FiniteSetTheorems, SequenceTheorems

-----------------------------------------------------------------------------
(* Numbers: least and greatest members of sets.                            *)

\* Every set of naturals that is not empty has a least member: its initial
\* segments are finite, and the strict subset order on those is well-founded.
LEMMA Least ==
  ASSUME NEW I \in SUBSET Nat, I # {}
  PROVE  \E i \in I : \A j \in I : i <= j
<1> DEFINE T == {I \cap (0..n) : n \in I}
<1>1. ASSUME NEW n \in I PROVE IsFiniteSet(I \cap (0..n))
  <2>1. IsFiniteSet(0..n)
    BY FS_Interval
  <2> QED BY <2>1, FS_Intersection
<1>2. IsWellFoundedOn(StrictSubsetOrdering(Nat), FiniteSubsetsOf(Nat))
  BY FS_StrictSubsetOrderingWellFounded
<1>3. T \subseteq FiniteSubsetsOf(Nat) /\ T # {}
  BY <1>1 DEF FiniteSubsetsOf
<1>4. \E x \in T : \A y \in T : ~(<<y, x>> \in StrictSubsetOrdering(Nat))
  <2> HIDE DEF T
  <2> QED BY <1>2, <1>3, WFMin
<1>5. PICK i \in I : \A y \in T : ~(<<y, I \cap (0..i)>> \in StrictSubsetOrdering(Nat))
  BY <1>4
<1>6. ASSUME NEW j \in I, j < i PROVE FALSE
  <2>1. I \cap (0..j) \subseteq I \cap (0..i) /\ i \notin I \cap (0..j) /\ i \in I \cap (0..i)
    BY <1>6
  <2>2. <<I \cap (0..j), I \cap (0..i)>> \in StrictSubsetOrdering(Nat)
    BY <2>1 DEF StrictSubsetOrdering
  <2> QED BY <1>5, <2>2
<1> QED BY <1>6

\* Smallest is what its name says.
LEMMA SmallestIs ==
  ASSUME NEW I \in SUBSET Nat, I # {}
  PROVE  Smallest(I) \in I /\ \A j \in I : Smallest(I) <= j
BY Least DEF Smallest

\* And a bounded one has a greatest.
LEMMA Greatest ==
  ASSUME NEW n \in Nat, NEW I \in SUBSET (0..n), I # {}
  PROVE  \E i \in I : \A j \in I : j <= i
<1> DEFINE D == {n - i : i \in I}
<1>0. \A i \in I : i \in Nat /\ n - i \in Nat
  OBVIOUS
<1>1. D \in SUBSET Nat /\ D # {}
  BY <1>0
<1>2. PICK d \in D : \A e \in D : d <= e
  BY <1>1, Least
<1>3. PICK i \in I : d = n - i
  OBVIOUS
<1>4. ASSUME NEW j \in I PROVE j <= i
  <2>1. n - j \in D
    OBVIOUS
  <2>2. n - i <= n - j
    BY <1>2, <1>3, <2>1
  <2> QED BY <1>0, <2>2
<1> QED BY <1>4

-----------------------------------------------------------------------------
(* Sequences: what a slice and a concatenation have where.                 *)

\* The characters of the sources and the tokens of the replies.  That the literals
\* of the two modules are strings is beyond the provers, so they are named.
Chars ==
  STRING \cup Letters \cup Digits \cup {".", " ", "w", ",", Connector}
         \cup {Colon, "H", "\n", "notice"}

\* Names for literals that the SMT backend cannot read.
Blank == " "
Gaps  == {",", " "}

LEMMA Slice ==
  ASSUME NEW s \in Seq(Chars), NEW m \in Nat \ {0}, NEW n \in Nat, n <= Len(s)
  PROVE  /\ SubSeq(s, m, n) \in Seq(Chars)
         /\ Len(SubSeq(s, m, n)) = IF m <= n THEN n - m + 1 ELSE 0
         /\ DOMAIN SubSeq(s, m, n) = 1..(IF m <= n THEN n - m + 1 ELSE 0)
         /\ \A i \in 1..(n - m + 1) : SubSeq(s, m, n)[i] = s[m + i - 1]
<1>1. \A i \in m..n : s[i] \in Chars
  BY ElementOfSeq
<1>2. /\ SubSeq(s, m, n) \in Seq(Chars)
      /\ Len(SubSeq(s, m, n)) = IF m <= n THEN n - m + 1 ELSE 0
      /\ \A i \in 1..(n - m + 1) : SubSeq(s, m, n)[i] = s[m + i - 1]
  BY <1>1, SubSeqProperties
<1> QED BY <1>2, LenProperties

\* A slice of a slice is a slice.
LEMMA SliceOfSlice ==
  ASSUME NEW s \in Seq(Chars), NEW a \in Nat \ {0}, NEW b \in Nat, b <= Len(s),
         NEW m \in Nat \ {0}, NEW n \in Nat, m <= n, a + n - 1 <= b
  PROVE  SubSeq(SubSeq(s, a, b), m, n) = SubSeq(s, a + m - 1, a + n - 1)
<1>1. Len(s) \in Nat
  BY LenProperties
<1>2. a \in 1..Len(s) /\ b \in 1..Len(s) /\ m \in 1..(b - a + 1) /\ n \in 1..(b - a + 1)
  BY <1>1
<1> QED BY <1>2, SubSeqOfSubSeq

-----------------------------------------------------------------------------
(* Tokens and runs of a text.                                              *)

VersionChars == Letters \cup Digits \cup {"."}

\* A set of ranges has one that starts first, and one that starts last.
LEMMA FirstRange ==
  ASSUME NEW n \in Nat, NEW Q \in SUBSET ((1..n) \X (1..n)), Q # {}
  PROVE  \E r \in Q : \A q \in Q : r[1] <= q[1]
<1> DEFINE I == {r[1] : r \in Q}
<1>1. I \in SUBSET Nat /\ I # {}
  OBVIOUS
<1>2. PICK i \in I : \A j \in I : i <= j
  BY <1>1, Least
<1> QED BY <1>2

LEMMA LastRange ==
  ASSUME NEW n \in Nat, NEW Q \in SUBSET ((1..n) \X (1..n)), Q # {}
  PROVE  \E r \in Q : \A q \in Q : q[1] <= r[1]
<1> DEFINE I == {r[1] : r \in Q}
<1>1. I \in SUBSET (0..n) /\ I # {}
  OBVIOUS
<1>2. PICK i \in I : \A j \in I : j <= i
  BY <1>1, Greatest
<1> QED BY <1>2

\* A version has three characters at least, and no other than its own kinds.
LEMMA VersionIs ==
  ASSUME NEW t \in Seq(Chars), IsVersion(t)
  PROVE  Len(t) >= 3 /\ \A i \in 1..Len(t) : t[i] \in VersionChars
<1>1. Len(t) \in Nat /\ DOMAIN t = 1..Len(t)
  BY LenProperties
<1>2. PICK a \in 0..(Len(t) - 3) :
        /\ All(SubSeq(t, 1, a), Letters)
        /\ \E z \in (a + 3)..Len(t) :
             /\ IsDotted(SubSeq(t, a + 1, z))
             /\ All(SubSeq(t, z + 1, Len(t)), Letters \cup Digits)
  BY DEF IsVersion
<1>3. PICK z \in (a + 3)..Len(t) :
        /\ IsDotted(SubSeq(t, a + 1, z))
        /\ All(SubSeq(t, z + 1, Len(t)), Letters \cup Digits)
  BY <1>2
<1>4. ASSUME NEW i \in 1..Len(t) PROVE t[i] \in VersionChars
  <2>1. CASE i <= a
    <3>1. i \in DOMAIN SubSeq(t, 1, a) /\ SubSeq(t, 1, a)[i] = t[i]
      BY <1>1, <2>1, Slice
    <3> QED BY <3>1, <1>2 DEF All, VersionChars
  <2>2. CASE a < i /\ i <= z
    <3>1. i - a \in DOMAIN SubSeq(t, a + 1, z) /\ SubSeq(t, a + 1, z)[i - a] = t[i]
      BY <1>1, <2>2, Slice
    <3> QED BY <3>1, <1>3 DEF IsDotted, All, VersionChars
  <2>3. CASE z < i
    <3>1. /\ i - z \in DOMAIN SubSeq(t, z + 1, Len(t))
          /\ SubSeq(t, z + 1, Len(t))[i - z] = t[i]
      BY <1>1, <2>3, Slice
    <3> QED BY <3>1, <1>3 DEF All, VersionChars
  <2> QED BY <1>1, <2>1, <2>2, <2>3
<1> QED BY <1>1, <1>2, <1>4

\* Only one token starts at a place.
LEMMA OneToken ==
  ASSUME NEW t \in Seq(Chars), NEW q \in Tokens(t), NEW r \in Tokens(t), q[1] = r[1]
  PROVE  q = r
<1>1. /\ DOMAIN t = 1..Len(t) /\ Len(t) \in Nat
      /\ q \in (1..Len(t)) \X (1..Len(t)) /\ r \in (1..Len(t)) \X (1..Len(t))
  BY LenProperties DEF Tokens
<1>2. ~(q[2] < r[2]) /\ ~(r[2] < q[2])
  BY <1>1 DEF Tokens, IsToken
<1> QED BY <1>1, <1>2

\* A version of a slice is a token of the text, if the characters around the slice
\* or its version are of no version.
LEMMA TokenOfSlice ==
  ASSUME NEW t \in Seq(Chars), NEW a \in Nat \ {0}, NEW b \in Nat, b <= Len(t),
         a > 1 => t[a - 1] \notin VersionChars,
         b < Len(t) => t[b + 1] \notin VersionChars,
         NEW r \in Tokens(SubSeq(t, a, b))
  PROVE  LET u == <<a + r[1] - 1, a + r[2] - 1>>
         IN  /\ u \in Tokens(t) /\ u[2] <= b
             /\ Cut(SubSeq(t, a, b), r) = Cut(t, u)
<1> DEFINE w == SubSeq(t, a, b)
<1>1. Len(t) \in Nat /\ DOMAIN t = 1..Len(t)
  BY LenProperties
<1>2. /\ w \in Seq(Chars) /\ DOMAIN w = 1..Len(w)
      /\ Len(w) = IF a <= b THEN b - a + 1 ELSE 0
      /\ \A k \in 1..(b - a + 1) : w[k] = t[a + k - 1]
  BY Slice
<1>3. r \in (1..Len(w)) \X (1..Len(w)) /\ IsToken(w, r[1], r[2])
  BY <1>2 DEF Tokens
<1> HIDE DEF w
<1>4. PICK x \in Nat, y \in Nat :
        /\ r = <<x, y>> /\ IsToken(w, x, y)
        /\ a <= b /\ 1 <= x /\ x + 2 <= y /\ y <= b - a + 1
  <2>1. PICK x \in 1..Len(w), y \in 1..Len(w) : r = <<x, y>>
    BY <1>3
  <2>2. IsToken(w, x, y) /\ x + 2 <= y
    BY <1>3, <2>1 DEF IsToken
  <2>3. a <= b /\ Len(w) = b - a + 1
    BY <1>2, <2>1
  <2>4. x \in Nat /\ y \in Nat
    BY <1>2, <2>1
  <2> QED BY <2>1, <2>2, <2>3, <2>4
<1> DEFINE i == a + x - 1
           j == a + y - 1
<1>5. i \in 1..Len(t) /\ j \in 1..Len(t) /\ j <= b /\ i + 2 <= j
  BY <1>1, <1>4
<1>6. SubSeq(w, x, y) = SubSeq(t, i, j)
  BY <1>1, <1>4, SliceOfSlice DEF w
<1>7. IsVersion(SubSeq(t, i, j))
  BY <1>4, <1>6 DEF IsToken
<1>8. i > 1 => t[i - 1] \notin VersionChars
  <2>1. CASE x = 1
    BY <1>4, <2>1
  <2>2. CASE x > 1
    <3>1. x - 1 \in 1..(b - a + 1) /\ a + (x - 1) - 1 = i - 1
      BY <1>4, <2>2
    <3>2. w[x - 1] = t[i - 1]
      BY <1>2, <3>1
    <3> QED BY <1>4, <2>2, <3>2 DEF IsToken, VersionChars
  <2> QED BY <1>4, <2>1, <2>2
<1>9. ASSUME NEW k \in (j + 1)..Len(t) PROVE ~IsVersion(SubSeq(t, i, k))
  <2>1. CASE k <= b
    <3>1. /\ k - a + 1 \in (y + 1)..Len(w)
          /\ k - a + 1 \in Nat /\ x <= k - a + 1 /\ a + (k - a + 1) - 1 = k
      BY <1>1, <1>2, <1>4, <2>1
    <3>2. SubSeq(w, x, k - a + 1) = SubSeq(t, i, k)
      BY <1>1, <1>4, <2>1, <3>1, SliceOfSlice DEF w
    <3> QED BY <1>4, <3>1, <3>2 DEF IsToken
  <2>2. CASE b < k
    <3>1. /\ SubSeq(t, i, k) \in Seq(Chars)
          /\ Len(SubSeq(t, i, k)) = k - i + 1
          /\ SubSeq(t, i, k)[b + 1 - i + 1] = t[b + 1]
      BY <1>1, <1>5, <2>2, Slice
    <3>2. b + 1 - i + 1 \in 1..Len(SubSeq(t, i, k)) /\ t[b + 1] \notin VersionChars
      BY <1>1, <1>5, <2>2, <3>1
    <3> QED BY <3>1, <3>2, VersionIs
  <2> QED BY <1>1, <1>5, <2>1, <2>2
<1>10. <<i, j>> \in Tokens(t)
  BY <1>1, <1>5, <1>7, <1>8, <1>9 DEF Tokens, IsToken, VersionChars
<1> QED BY <1>4, <1>5, <1>6, <1>10 DEF Cut, w

-----------------------------------------------------------------------------
(* The parts of a line.                                                    *)

WordChars == VersionChars \cup {"w", Connector}

\* Where the window of connector c begins.
From(c) == IF c > OldWindow THEN c - OldWindow ELSE 1

LEMMA WindowIs ==
  ASSUME text \in Seq(Chars), NEW c \in 1..Len(text)
  PROVE  /\ Window(text, c) = SubSeq(text, From(c), c - 1)
         /\ From(c) \in Nat \ {0} /\ From(c) <= c /\ c - 1 \in Nat /\ c - 1 < Len(text)
         /\ Window(text, c) \in Seq(Chars)
         /\ DOMAIN Window(text, c) = 1..(c - From(c)) /\ Len(Window(text, c)) = c - From(c)
         /\ \A k \in 1..(c - From(c)) : Window(text, c)[k] = text[From(c) + k - 1]
         /\ WindowIsClean(c) => (From(c) > 1 => text[From(c) - 1] \notin VersionChars)
<1>1. Len(text) \in Nat /\ OldWindow \in Nat
  BY LenProperties, ExtractorAssumption
<1>2. From(c) \in Nat \ {0} /\ From(c) <= c /\ c - 1 \in Nat /\ c - 1 < Len(text)
  BY <1>1 DEF From
<1>3. Window(text, c) = SubSeq(text, From(c), c - 1)
  BY DEF Window, From
<1>4. /\ Window(text, c) \in Seq(Chars) /\ DOMAIN Window(text, c) = 1..(c - From(c))
      /\ Len(Window(text, c)) = c - From(c)
      /\ \A k \in 1..(c - From(c)) : Window(text, c)[k] = text[From(c) + k - 1]
  <2> DEFINE a == From(c)
             n == IF a <= c - 1 THEN c - 1 - a + 1 ELSE 0
  <2>1. n = c - a /\ c - 1 - a + 1 = c - a
    BY <1>2
  <2>2. /\ SubSeq(text, a, c - 1) \in Seq(Chars)
        /\ Len(SubSeq(text, a, c - 1)) = n /\ DOMAIN SubSeq(text, a, c - 1) = 1..n
        /\ \A k \in 1..(c - 1 - a + 1) : SubSeq(text, a, c - 1)[k] = text[a + k - 1]
    <3> HIDE DEF a
    <3> QED BY <1>1, <1>2, Slice DEF a
  <2> HIDE DEF n
  <2> QED BY <1>3, <2>1, <2>2
<1>5. WindowIsClean(c) => (From(c) > 1 => text[From(c) - 1] \notin VersionChars)
  BY <1>1 DEF WindowIsClean, From, VersionChars
<1> QED BY <1>2, <1>3, <1>4, <1>5

\* Ranges of a text lie within it.
LEMMA TokensAreRanges ==
  ASSUME NEW t \in Seq(Chars)
  PROVE  Len(t) \in Nat /\ Tokens(t) \in SUBSET ((1..Len(t)) \X (1..Len(t)))
BY LenProperties DEF Tokens

\* The new version is a version of the text near the connector.
LEMMA NewIs ==
  ASSUME text \in Seq(Chars), NEW c \in 1..Len(text), NewVersion(text, c) # None
  PROVE  \E r \in Tokens(text) :
           /\ c < r[1] /\ r[1] <= c + 1 + NewGap
           /\ NewVersion(text, c) = Cut(text, r)
<1> DEFINE after == {r \in Tokens(text) : r[1] > c}
           first == CHOOSE r \in after : \A q \in after : r[1] <= q[1]
<1>1. after # {} /\ ~(first[1] > c + 1 + NewGap) /\ NewVersion(text, c) = Cut(text, first)
  BY DEF NewVersion
<1>2. after \in SUBSET ((1..Len(text)) \X (1..Len(text))) /\ Len(text) \in Nat
  BY TokensAreRanges
<1>3. \E r \in after : \A q \in after : r[1] <= q[1]
  <2> HIDE DEF after
  <2> QED BY <1>1, <1>2, FirstRange
<1>4. first \in after
  BY <1>3
<1>5. first \in Tokens(text) /\ first[1] \in 1..Len(text) /\ first[1] > c
  BY <1>2, <1>4
<1> HIDE DEF first
<1>6. first[1] <= c + 1 + NewGap
  <2>1. first[1] \in Nat /\ c \in Nat
    BY <1>2, <1>5
  <2>2. NewGap \in Nat
    BY ExtractorAssumption
  <2> QED BY <1>1, <2>1, <2>2
<1> QED BY <1>1, <1>5, <1>6

\* The version that is looked up in the window is one of the text before the
\* connector, if the window is clean.
LEMMA OldIs ==
  ASSUME text \in Seq(Chars), NEW c \in 1..Len(text), text[c] = Connector,
         WindowIsClean(c), OldVersion(text, c) # None
  PROVE  \E r \in Tokens(text) : r[2] < c /\ OldVersion(text, c) = Cut(text, r)
<1> DEFINE w == Window(text, c)
           last == CHOOSE r \in Tokens(w) : \A q \in Tokens(w) : q[1] <= r[1]
<1>1. Tokens(w) # {} /\ OldVersion(text, c) = Cut(w, last)
  BY DEF OldVersion
<1>2. w \in Seq(Chars) /\ Len(w) \in Nat /\ Tokens(w) \in SUBSET ((1..Len(w)) \X (1..Len(w)))
  BY WindowIs, TokensAreRanges
<1>3. last \in Tokens(w)
  BY <1>1, <1>2, LastRange
<1>4. Connector \notin VersionChars
  BY DEF Connector, VersionChars, Letters, Digits
<1> DEFINE u == <<From(c) + last[1] - 1, From(c) + last[2] - 1>>
<1>5. u \in Tokens(text) /\ u[2] <= c - 1 /\ Cut(w, last) = Cut(text, u)
  <2> HIDE DEF last
  <2>1. /\ From(c) \in Nat \ {0} /\ c - 1 \in Nat /\ c - 1 <= Len(text)
        /\ From(c) > 1 => text[From(c) - 1] \notin VersionChars
        /\ c - 1 < Len(text) => text[(c - 1) + 1] \notin VersionChars
        /\ w = SubSeq(text, From(c), c - 1)
    <3>1. Len(text) \in Nat /\ (c - 1) + 1 = c
      BY LenProperties
    <3> QED BY <1>4, <3>1, WindowIs
  <2> QED BY <1>3, <2>1, TokenOfSlice
<1>6. u[2] < c
  <2> HIDE DEF u
  <2>1. u[2] \in Nat
    BY <1>5, TokensAreRanges
  <2> QED BY <1>5, <2>1
<1> QED BY <1>1, <1>5, <1>6

\* What a run is, place by place.
LEMMA RunIs ==
  ASSUME NEW w \in Seq(Chars), NEW x \in 1..Len(w), NEW y \in x..Len(w)
  PROVE  <<x, y>> \in Runs(w) <=>
           /\ \A k \in x..y : w[k] \in WordChars
           /\ \A k \in (y + 1)..Len(w) : w[k] = Blank
<1>1. Len(w) \in Nat /\ DOMAIN w = 1..Len(w) /\ y \in 1..Len(w)
  BY LenProperties
<1>2. /\ DOMAIN SubSeq(w, x, y) = 1..(y - x + 1)
      /\ \A k \in 1..(y - x + 1) : SubSeq(w, x, y)[k] = w[x + k - 1]
  BY <1>1, Slice
<1>3. /\ DOMAIN SubSeq(w, y + 1, Len(w)) = 1..(Len(w) - y)
      /\ \A k \in 1..(Len(w) - y) : SubSeq(w, y + 1, Len(w))[k] = w[y + k]
  BY <1>1, Slice
<1>4. (\A k \in x..y : w[k] \in WordChars) <=> All(SubSeq(w, x, y), WordChars)
  <2>1. \A k \in x..y : k - x + 1 \in 1..(y - x + 1) /\ x + (k - x + 1) - 1 = k
    BY <1>1
  <2>2. \A k \in 1..(y - x + 1) : x + k - 1 \in x..y
    BY <1>1
  <2> QED BY <1>2, <2>1, <2>2 DEF All
<1>5. (\A k \in (y + 1)..Len(w) : w[k] = Blank) <=> All(SubSeq(w, y + 1, Len(w)), {Blank})
  <2>1. \A k \in (y + 1)..Len(w) : k - y \in 1..(Len(w) - y) /\ y + (k - y) = k
    BY <1>1
  <2>2. \A k \in 1..(Len(w) - y) : y + k \in (y + 1)..Len(w)
    BY <1>1
  <2> QED BY <1>3, <2>1, <2>2 DEF All
<1>6. WordChars = Letters \cup Digits \cup {".", "w", Connector}
  BY DEF WordChars, VersionChars
<1>7. <<x, y>> \in Runs(w) <=> All(SubSeq(w, x, y), WordChars) /\ All(SubSeq(w, y + 1, Len(w)), {Blank})
  <2>1. <<x, y>>[1] = x /\ <<x, y>>[2] = y /\ <<x, y>> \in (DOMAIN w) \X (DOMAIN w) /\ x <= y
    BY <1>1
  <2> QED BY <1>6, <2>1, Zenon DEF Runs, Cut, Blank
<1> QED BY <1>4, <1>5, <1>7

\* The subject is a run of the window, and no run starts before it.
LEMMA SubjectIs ==
  ASSUME text \in Seq(Chars), NEW c \in 1..Len(text), Subject(text, c) # None
  PROVE  \E r \in Runs(Window(text, c)) :
           /\ Subject(text, c) = Cut(Window(text, c), r)
           /\ \A q \in Runs(Window(text, c)) : r[1] <= q[1]
<1> DEFINE w == Window(text, c)
           first == CHOOSE r \in Runs(w) : \A q \in Runs(w) : r[1] <= q[1]
<1>1. Runs(w) # {} /\ Subject(text, c) = Cut(w, first)
  BY DEF Subject
<1>2. Len(w) \in Nat /\ Runs(w) \in SUBSET ((1..Len(w)) \X (1..Len(w)))
  BY WindowIs, LenProperties DEF Runs
<1>3. first \in Runs(w) /\ \A q \in Runs(w) : first[1] <= q[1]
  BY <1>1, <1>2, FirstRange
<1> QED BY <1>1, <1>3

\* A subject that is a version is one of the text, if the window is clean: the run
\* neither starts nor ends within a word.
LEMMA SubjectIsToken ==
  ASSUME text \in Seq(Chars), NEW c \in 1..Len(text), text[c] = Connector,
         WindowIsClean(c), Subject(text, c) # None, IsVersion(Subject(text, c))
  PROVE  \E u \in Tokens(text) : u[2] < c /\ Subject(text, c) = Cut(text, u)
<1> DEFINE w == Window(text, c)
<1>1. w \in Seq(Chars) /\ Len(w) \in Nat /\ DOMAIN w = 1..Len(w)
  BY WindowIs, LenProperties
<1>2. PICK r \in Runs(w) : /\ Subject(text, c) = Cut(w, r)
                           /\ \A q \in Runs(w) : r[1] <= q[1]
  BY SubjectIs
<1> HIDE DEF w
<1>3. PICK x \in 1..Len(w), y \in 1..Len(w) : r = <<x, y>> /\ x <= y
  <2>1. r \in (1..Len(w)) \X (1..Len(w)) /\ r[1] <= r[2]
    BY <1>1, <1>2 DEF Runs
  <2>2. r = <<r[1], r[2]>> /\ r[1] \in 1..Len(w) /\ r[2] \in 1..Len(w)
    BY <2>1
  <2> QED BY <2>1, <2>2
<1>4. /\ \A k \in x..y : w[k] \in WordChars
      /\ \A k \in (y + 1)..Len(w) : w[k] = Blank
  <2>1. y \in x..Len(w)
    BY <1>1, <1>3
  <2> QED BY <1>1, <1>2, <1>3, <2>1, RunIs
<1>5. /\ Subject(text, c) = SubSeq(w, x, y)
      /\ \A q \in Runs(w) : x <= q[1]
  BY <1>2, <1>3 DEF Cut
<1>6. x \in Nat /\ y \in Nat /\ 1 <= x /\ x <= y /\ y <= Len(w)
  BY <1>1, <1>3
<1>7. SubSeq(w, x, y) \in Seq(Chars) /\ Len(SubSeq(w, x, y)) = y - x + 1
  BY <1>1, <1>6, Slice
<1>8. x + 2 <= y
  <2>1. IsVersion(SubSeq(w, x, y))
    BY <1>5
  <2>2. Len(SubSeq(w, x, y)) >= 3
    BY <1>7, <2>1, VersionIs
  <2> QED BY <1>6, <1>7, <2>2
<1>9. x > 1 => w[x - 1] \notin VersionChars
  <2> SUFFICES ASSUME x > 1, w[x - 1] \in VersionChars PROVE FALSE
    OBVIOUS
  <2>1. x - 1 \in 1..Len(w) /\ y \in (x - 1)..Len(w)
    BY <1>6
  <2>2. \A k \in (x - 1)..y : k = x - 1 \/ k \in x..y
    BY <1>6
  <2>3. \A k \in (x - 1)..y : w[k] \in WordChars
    BY <1>4, <2>2 DEF WordChars
  <2>4. <<x - 1, y>> \in Runs(w)
    BY <1>1, <1>4, <2>1, <2>3, RunIs
  <2> QED BY <1>5, <1>6, <2>4
<1>10. ASSUME NEW k \in (y + 1)..Len(w) PROVE ~IsVersion(SubSeq(w, x, k))
  <2>1. k \in Nat /\ y < k /\ k <= Len(w)
    BY <1>1, <1>6
  <2>2. /\ SubSeq(w, x, k) \in Seq(Chars) /\ Len(SubSeq(w, x, k)) = k - x + 1
        /\ \A i \in 1..(k - x + 1) : SubSeq(w, x, k)[i] = w[x + i - 1]
    BY <1>1, <1>6, <2>1, Slice
  <2>3. k - x + 1 \in 1..(k - x + 1) /\ x + (k - x + 1) - 1 = k
    BY <1>6, <2>1
  <2>4. SubSeq(w, x, k)[k - x + 1] = Blank
    BY <1>4, <2>2, <2>3
  <2>5. Blank \notin VersionChars
    BY Zenon DEF Blank, VersionChars, Letters, Digits
  <2> QED BY <2>2, <2>3, <2>4, <2>5, VersionIs
<1>11. r \in Tokens(w)
  <2>1. IsToken(w, x, y)
    BY <1>5, <1>8, <1>9, <1>10 DEF IsToken, VersionChars
  <2> QED BY <1>1, <1>3, <1>6, <2>1 DEF Tokens
<1>12. /\ From(c) \in Nat \ {0} /\ c - 1 \in Nat /\ c - 1 <= Len(text)
       /\ From(c) > 1 => text[From(c) - 1] \notin VersionChars
       /\ c - 1 < Len(text) => text[(c - 1) + 1] \notin VersionChars
       /\ w = SubSeq(text, From(c), c - 1)
  <2>1. Len(text) \in Nat /\ (c - 1) + 1 = c /\ Connector \notin VersionChars
    BY LenProperties DEF Connector, VersionChars, Letters, Digits
  <2> QED BY <2>1, WindowIs DEF w
<1> DEFINE u == <<From(c) + r[1] - 1, From(c) + r[2] - 1>>
<1>13. u \in Tokens(text) /\ u[2] <= c - 1 /\ Cut(w, r) = Cut(text, u)
  BY <1>11, <1>12, TokenOfSlice
<1> HIDE DEF u
<1>14. u[2] < c
  <2>1. u[2] \in Nat
    BY <1>13, TokensAreRanges
  <2> QED BY <1>13, <2>1
<1> QED BY <1>2, <1>13, <1>14

\* What a line says.
LEMMA LineIs ==
  ASSUME NEW t, NEW c, Line(t, c) # None
  PROVE  LET l == Line(t, c)
             new == NewVersion(t, c)
             subject == Subject(t, c)
             old == OldVersion(t, c)
         IN  /\ new # None /\ l[3] = new
             /\ l[1] = "upgrade" =>
                  /\ l[2] # new
                  /\ \/ l[2] = subject /\ IsVersion(subject)
                     \/ l[2] = old /\ old # None /\ Component(old) = Component(new)
<1> DEFINE new == NewVersion(t, c)
           subject == Subject(t, c)
           old == OldVersion(t, c)
<1>1. new # None
  BY DEF Line
<1>2. \A a, b : /\ Upgrade(a, b)[1] = "upgrade" /\ Upgrade(a, b)[2] = a /\ Upgrade(a, b)[3] = b
                /\ Mention(a, b)[1] = "mention" /\ Mention(a, b)[3] = b
  BY DEF Upgrade, Mention
<1>3. CASE IsVersion(subject)
  <2>1. Line(t, c) = Upgrade(subject, new) /\ subject # new
    BY <1>1, <1>3 DEF Line, Beside
  <2> QED BY <1>1, <1>2, <1>3, <2>1
<1>4. CASE ~IsVersion(subject)
  <2>1. Line(t, c) = Behind(subject, old, new)
    BY <1>1, <1>4 DEF Line
  <2>2. CASE old # None /\ old # new /\ Component(old) = Component(new)
    <3>1. Line(t, c) = Upgrade(old, new)
      BY <2>1, <2>2 DEF Behind
    <3> QED BY <1>1, <1>2, <2>2, <3>1
  <2>3. CASE ~(old # None /\ old # new /\ Component(old) = Component(new))
    <3>1. Line(t, c) = Mention(subject, new)
      BY <2>1, <2>3 DEF Behind
    <3> QED BY <1>1, <1>2, <3>1
  <2> QED BY <2>2, <2>3
<1> QED BY <1>3, <1>4

-----------------------------------------------------------------------------
(* The loop.                                                               *)

Visited == {c \in 1..(next - 1) : text[c] = Connector}
LinesOf(t) == {Line(t, c) : c \in 1..Len(t)}

\* The lines are those of the connectors visited so far, and all of those.
ReadInv ==
  /\ text \in Texts
  /\ next \in 1..(Len(text) + 1)
  /\ lines \in Seq(LinesOf(text))
  /\ Seen = {Line(text, c) : c \in Visited} \ {None}

LEMMA SourceIsText ==
  ASSUME NEW t \in Texts
  PROVE  t \in Seq(Chars) /\ Len(t) \in Nat
<1> DEFINE C == Letters \cup Digits \cup {".", " ", "w", ",", Connector}
<1>1. t \in Seq(C)
  BY ExtractorAssumption
<1>2. C \subseteq Chars
  BY DEF Chars
<1> HIDE DEF C
<1>3. t \in Seq(Chars)
  BY <1>1, <1>2, SeqMonotonic
<1> QED BY <1>3, LenProperties

LEMMA StartReads == Start => ReadInv
<1> SUFFICES ASSUME Start PROVE ReadInv
  OBVIOUS
<1>1. Len(text) \in Nat
  BY SourceIsText DEF Start
<1>2. lines = <<>> /\ next = 1 /\ text \in Texts
  BY DEF Start
<1>3. lines \in Seq(LinesOf(text)) /\ DOMAIN lines = {}
  BY <1>2, EmptySeq
<1>4. Visited = {} /\ Seen = {}
  BY <1>2, <1>3 DEF Visited, Seen
<1> QED BY <1>1, <1>2, <1>3, <1>4 DEF ReadInv

\* Appending a line adds it to those seen.
LEMMA SeenGrows ==
  ASSUME NEW S, lines \in Seq(S), NEW l \in S, lines' = Append(lines, l)
  PROVE  lines' \in Seq(S) /\ Seen' = Seen \cup {l}
<1>1. /\ lines' \in Seq(S) /\ Len(lines') = Len(lines) + 1
      /\ \A i \in 1..Len(lines) : lines'[i] = lines[i]
      /\ lines'[Len(lines) + 1] = l
  BY AppendProperties
<1>2. /\ DOMAIN lines = 1..Len(lines) /\ Len(lines) \in Nat
      /\ DOMAIN lines' = 1..(Len(lines) + 1)
  BY <1>1, LenProperties
<1>3. \A i \in 1..(Len(lines) + 1) : i \in 1..Len(lines) \/ i = Len(lines) + 1
  BY <1>2
<1>4. Seen' = {lines'[i] : i \in 1..(Len(lines) + 1)}
  BY <1>2 DEF Seen
<1> QED BY <1>1, <1>2, <1>3, <1>4 DEF Seen

LEMMA VisitReads == ASSUME ReadInv, Visit PROVE ReadInv'
<1>1. PICK c \in Connectors :
        /\ \A d \in Connectors : c <= d
        /\ Add(Line(text, c)) /\ next' = c + 1 /\ text' = text
  BY DEF Visit
<1>2. Len(text) \in Nat /\ text \in Texts /\ next \in 1..(Len(text) + 1)
  BY SourceIsText DEF ReadInv
<1>3. c \in 1..Len(text) /\ next <= c /\ text[c] = Connector
  BY <1>1, <1>2 DEF Connectors
<1>4. Visited' = Visited \cup {c}
  <2>1. ASSUME NEW d \in 1..c, text[d] = Connector PROVE d = c \/ d \in Visited
    <3>1. CASE d < next
      BY <1>2, <2>1, <3>1 DEF Visited
    <3>2. CASE next <= d
      <4>1. d \in Connectors
        BY <1>2, <1>3, <2>1, <3>2 DEF Connectors
      <4> QED BY <1>1, <1>3, <4>1
    <3> QED BY <1>2, <1>3, <3>1, <3>2
  <2>2. \A d \in Visited : d \in 1..c /\ text[d] = Connector
    BY <1>2, <1>3 DEF Visited
  <2>3. Visited' = {d \in 1..c : text[d] = Connector}
    BY <1>1, <1>3, <1>2 DEF Visited
  <2> QED BY <1>2, <1>3, <2>1, <2>2, <2>3
<1>5. lines' \in Seq(LinesOf(text)) /\ Seen' = (Seen \cup {Line(text, c)}) \ {None}
  <2>1. Line(text, c) \in LinesOf(text) /\ lines \in Seq(LinesOf(text)) /\ None \notin Seen
    BY <1>3 DEF LinesOf, ReadInv
  <2>2. CASE Line(text, c) = None \/ Line(text, c) \in Seen
    <3>1. lines' = lines
      BY <1>1, <2>2 DEF Add
    <3> QED BY <2>1, <2>2, <3>1 DEF Seen
  <2>3. CASE ~(Line(text, c) = None \/ Line(text, c) \in Seen)
    <3>1. lines' = Append(lines, Line(text, c))
      BY <1>1, <2>3 DEF Add
    <3> QED BY <2>1, <2>3, <3>1, SeenGrows
  <2> QED BY <2>2, <2>3
<1>6. next' \in 1..(Len(text) + 1) /\ text' = text
  BY <1>1, <1>2, <1>3
<1>7. Seen' = {Line(text, d) : d \in Visited'} \ {None}
  BY <1>4, <1>5 DEF ReadInv
<1> QED BY <1>2, <1>5, <1>6, <1>7 DEF ReadInv

LEMMA Reading == Extraction => []ReadInv
<1>1. ReadInv /\ [Visit]_<<text, next, lines>> => ReadInv'
  <2>1. CASE Visit
    BY <2>1, VisitReads
  <2>2. CASE UNCHANGED <<text, next, lines>>
    BY <2>2 DEF ReadInv, Seen, Visited
  <2> QED BY <2>1, <2>2
<1> QED BY <1>1, StartReads, PTL DEF Extraction

\* A line belongs to a connector that was visited.
LEMMA SeenIs ==
  ASSUME ReadInv, NEW l \in Seen
  PROVE  /\ text \in Seq(Chars)
         /\ \E c \in 1..(next - 1) :
              c \in 1..Len(text) /\ text[c] = Connector /\ l = Line(text, c) /\ Line(text, c) # None
<1>1. text \in Seq(Chars) /\ Len(text) \in Nat /\ next \in 1..(Len(text) + 1)
  BY SourceIsText DEF ReadInv
<1>2. PICK c \in Visited : l = Line(text, c) /\ l # None
  BY DEF ReadInv
<1> QED BY <1>1, <1>2 DEF Visited

-----------------------------------------------------------------------------
(* What is said of versions.                                               *)

\* A line gives only versions that the text has as whole words, near and before
\* the connector, as long as no window cuts through a word
\* (version_extractor.py:89-100).
THEOREM OnlyStatedVersions == Extraction => []VersionsAreStated
<1>1. ASSUME ReadInv PROVE VersionsAreStated
  <2> SUFFICES ASSUME NEW l \in Seen
      PROVE \E c \in 1..(next - 1) :
              /\ text[c] = Connector
              /\ \E r \in Tokens(text) :
                   c < r[1] /\ r[1] <= c + 1 + NewGap /\ l[3] = Cut(text, r)
              /\ l[1] = "upgrade" /\ WindowIsClean(c) =>
                   l[2] # l[3] /\ \E r \in Tokens(text) : r[2] < c /\ l[2] = Cut(text, r)
    BY DEF VersionsAreStated
  <2>1. PICK c \in 1..(next - 1) :
          c \in 1..Len(text) /\ text[c] = Connector /\ l = Line(text, c) /\ Line(text, c) # None
    BY <1>1, SeenIs
  <2>2. text \in Seq(Chars)
    BY <1>1, SeenIs
  <2>3. NewVersion(text, c) # None /\ l[3] = NewVersion(text, c)
    BY <2>1, LineIs
  <2>4. \E r \in Tokens(text) : c < r[1] /\ r[1] <= c + 1 + NewGap /\ l[3] = Cut(text, r)
    BY <2>1, <2>2, <2>3, NewIs
  <2>5. ASSUME l[1] = "upgrade", WindowIsClean(c)
        PROVE  l[2] # l[3] /\ \E r \in Tokens(text) : r[2] < c /\ l[2] = Cut(text, r)
    <3>1. /\ l[2] # l[3]
          /\ \/ l[2] = Subject(text, c) /\ IsVersion(Subject(text, c))
             \/ l[2] = OldVersion(text, c) /\ OldVersion(text, c) # None
      BY <2>1, <2>3, <2>5, LineIs
    <3>2. CASE l[2] = Subject(text, c) /\ IsVersion(Subject(text, c))
      <4>1. Subject(text, c) # None
        <5>1. None \in Seq(Chars) /\ ~(Len(None) >= 3)
          BY EmptySeq DEF None
        <5>2. ~IsVersion(None)
          BY <5>1, VersionIs
        <5> QED BY <3>2, <5>2
      <4> QED BY <2>1, <2>2, <2>5, <3>1, <3>2, <4>1, SubjectIsToken
    <3>3. CASE l[2] = OldVersion(text, c) /\ OldVersion(text, c) # None
      BY <2>1, <2>2, <2>5, <3>1, <3>3, OldIs
    <3> QED BY <3>1, <3>2, <3>3
  <2> QED BY <2>1, <2>4, <2>5
<1> QED BY <1>1, Reading, PTL

\* An upgrade joins versions of one component, unless the old one stands beside
\* its connector (version_extractor.py:52-73).
THEOREM ComponentsStayApart == Extraction => []NeverAcrossComponents
<1>1. ASSUME ReadInv PROVE NeverAcrossComponents
  <2> SUFFICES ASSUME NEW l \in Seen, l[1] = "upgrade", Component(l[2]) # Component(l[3])
      PROVE \E c \in 1..(next - 1) : text[c] = Connector /\ Subject(text, c) = l[2]
    BY DEF NeverAcrossComponents
  <2>1. PICK c \in 1..(next - 1) : text[c] = Connector /\ l = Line(text, c) /\ Line(text, c) # None
    BY <1>1, SeenIs
  <2>2. Subject(text, c) = l[2]
    BY <2>1, LineIs
  <2> QED BY <2>1, <2>2
<1> QED BY <1>1, Reading, PTL

\* A token, by its places.
LEMMA TokenIs ==
  ASSUME NEW t \in Seq(Chars), NEW q \in Tokens(t)
  PROVE  \E x \in Nat \ {0}, y \in Nat :
           /\ q = <<x, y>> /\ x + 2 <= y /\ y <= Len(t)
           /\ SubSeq(t, x, y) \in Seq(Chars) /\ IsVersion(SubSeq(t, x, y))
           /\ \A k \in x..y : t[k] \in VersionChars
<1>1. Len(t) \in Nat /\ DOMAIN t = 1..Len(t)
  BY LenProperties
<1>2. PICK x \in 1..Len(t), y \in 1..Len(t) : q = <<x, y>>
  BY <1>1 DEF Tokens
<1>3. x + 2 <= y /\ IsVersion(SubSeq(t, x, y))
  <2>1. IsToken(t, q[1], q[2])
    BY DEF Tokens
  <2> QED BY <1>2, <2>1 DEF IsToken
<1>4. x \in Nat \ {0} /\ y \in Nat /\ y <= Len(t)
  BY <1>1, <1>2
<1>5. /\ SubSeq(t, x, y) \in Seq(Chars) /\ Len(SubSeq(t, x, y)) = y - x + 1
      /\ \A i \in 1..(y - x + 1) : SubSeq(t, x, y)[i] = t[x + i - 1]
  BY <1>3, <1>4, Slice
<1>6. ASSUME NEW k \in x..y PROVE t[k] \in VersionChars
  <2>1. k - x + 1 \in 1..(y - x + 1) /\ x + (k - x + 1) - 1 = k
    BY <1>4
  <2>2. SubSeq(t, x, y)[k - x + 1] = t[k]
    BY <1>5, <2>1
  <2> QED BY <1>3, <1>5, <2>1, <2>2, VersionIs
<1> QED BY <1>2, <1>3, <1>4, <1>5, <1>6

\* A version that ends before the connector and begins in its window, behind a
\* comma or a space, is the subject.
LEMMA SubjectBeside ==
  ASSUME text \in Seq(Chars), NEW c \in 1..Len(text),
         NEW x \in Nat \ {0}, x + 3 <= c, From(c) <= x,
         \A k \in x..(c - 1) : text[k] \in VersionChars,
         x > 1 => text[x - 1] \in Gaps
  PROVE  Subject(text, c) = SubSeq(text, x, c - 1)
<1> DEFINE w == Window(text, c)
           f == From(c)
           X == x - f + 1
           Y == c - f
<1>1. /\ w = SubSeq(text, f, c - 1) /\ f \in Nat \ {0} /\ f <= x
      /\ w \in Seq(Chars) /\ Len(w) = Y /\ DOMAIN w = 1..Y
      /\ \A k \in 1..Y : w[k] = text[f + k - 1]
      /\ Len(text) \in Nat /\ c - 1 \in Nat /\ c - 1 < Len(text)
  BY WindowIs, LenProperties
<1> HIDE DEF w, f
<1>2. X \in Nat \ {0} /\ Y \in Nat /\ X < Y /\ f + X - 1 = x /\ f + Y - 1 = c - 1
  <2>1. f \in Nat \ {0} /\ f <= x
    BY <1>1
  <2>2. Len(text) \in Nat
    BY <1>1
  <2>3. c \in Nat
    BY <2>2
  <2> QED BY <2>1, <2>3
<1>3. ASSUME NEW k \in X..Y PROVE w[k] \in VersionChars
  <2>1. k \in 1..Y /\ f + k - 1 \in x..(c - 1)
    BY <1>1, <1>2
  <2> QED BY <1>1, <2>1
<1>4. X > 1 => w[X - 1] \in Gaps
  <2> SUFFICES ASSUME X > 1 PROVE w[X - 1] \in Gaps
    OBVIOUS
  <2>1. X - 1 \in 1..Y /\ f + (X - 1) - 1 = x - 1 /\ x > 1
    BY <1>1, <1>2
  <2> QED BY <1>1, <2>1
<1>5. /\ Blank \notin VersionChars /\ VersionChars \subseteq WordChars
      /\ \A g \in Gaps : g \notin WordChars
  BY Zenon DEF Blank, Gaps, WordChars, VersionChars, Letters, Digits, Connector
<1> HIDE DEF X, Y
<1>6. <<X, Y>> \in Runs(w)
  <2>1. X \in 1..Y /\ Y \in X..Y /\ \A k \in (Y + 1)..Y : FALSE
    BY <1>2
  <2>2. X \in 1..Len(w) /\ Y \in X..Len(w) /\ \A k \in (Y + 1)..Len(w) : FALSE
    BY <1>1, <2>1
  <2> QED BY <1>1, <1>3, <1>5, <2>2, RunIs
<1>7. ASSUME NEW p \in Runs(w) PROVE X <= p[1] /\ (p[1] = X => p = <<X, Y>>)
  <2>1. PICK a \in 1..Y, b \in 1..Y : p = <<a, b>> /\ a <= b
    <3>1. p \in (1..Y) \X (1..Y) /\ p[1] <= p[2]
      BY <1>1 DEF Runs
    <3>2. p = <<p[1], p[2]>> /\ p[1] \in 1..Y /\ p[2] \in 1..Y
      BY <3>1
    <3> QED BY <3>1, <3>2
  <2>2. /\ \A k \in a..b : w[k] \in WordChars
        /\ \A k \in (b + 1)..Y : w[k] = Blank
    <3>1. a \in 1..Len(w) /\ b \in a..Len(w)
      <4>1. a \in 1..Y /\ b \in a..Y
        BY <1>2, <2>1
      <4>2. Len(w) = Y
        BY <1>1
      <4> QED BY <4>1, <4>2
    <3> QED BY <1>1, <2>1, <3>1, RunIs
  <2>3. b = Y
    <3> SUFFICES ASSUME b # Y PROVE FALSE
      OBVIOUS
    <3>1. Y \in (b + 1)..Y /\ Y \in X..Y
      BY <1>2, <2>1
    <3> QED BY <1>3, <1>5, <2>2, <3>1
  <2>4. X <= a
    <3> SUFFICES ASSUME a < X PROVE FALSE
      BY <1>2, <2>1
    <3>1. X > 1 /\ X - 1 \in a..b
      BY <1>2, <2>1, <2>3
    <3> QED BY <1>4, <1>5, <2>2, <3>1
  <2> QED BY <2>1, <2>3, <2>4
<1> DEFINE first == CHOOSE p \in Runs(w) : \A q \in Runs(w) : p[1] <= q[1]
<1>8. first \in Runs(w) /\ first[1] <= X
  <2>1. \E p \in Runs(w) : \A q \in Runs(w) : p[1] <= q[1]
    BY <1>6, <1>7
  <2>2. first \in Runs(w) /\ \A q \in Runs(w) : first[1] <= q[1]
    BY <2>1
  <2> QED BY <1>6, <2>2
<1>9. Subject(text, c) = Cut(w, first)
  BY <1>6 DEF Subject, w
<1> HIDE DEF first
<1>10. first = <<X, Y>>
  <2>1. first[1] \in 1..Y
    <3>1. first \in (DOMAIN w) \X (DOMAIN w)
      BY <1>8, Zenon DEF Runs
    <3> QED BY <1>1, <3>1
  <2> QED BY <1>2, <1>7, <1>8, <2>1
<1>11. SubSeq(w, X, Y) = SubSeq(text, x, c - 1)
  <2>1. X <= Y /\ f + Y - 1 <= c - 1 /\ c - 1 <= Len(text)
    BY <1>1, <1>2
  <2>2. SubSeq(SubSeq(text, f, c - 1), X, Y) = SubSeq(text, f + X - 1, f + Y - 1)
    BY <1>1, <1>2, <2>1, SliceOfSlice
  <2> QED BY <1>1, <1>2, <2>2
<1> QED BY <1>9, <1>10, <1>11 DEF Cut

\* A version right behind the connector is the new one.
LEMMA NewBeside ==
  ASSUME text \in Seq(Chars), NEW c \in 1..Len(text),
         NEW r \in Tokens(text), r[1] = c + 1
  PROVE  NewVersion(text, c) = Cut(text, r)
<1> DEFINE after == {p \in Tokens(text) : p[1] > c}
           first == CHOOSE p \in after : \A q \in after : p[1] <= q[1]
<1>1. Len(text) \in Nat /\ after \in SUBSET ((1..Len(text)) \X (1..Len(text)))
  BY TokensAreRanges
<1>2. r \in after
  BY <1>1
<1>3. first \in after /\ \A q \in after : first[1] <= q[1]
  <2> HIDE DEF after
  <2> QED BY <1>1, <1>2, FirstRange
<1>4. first \in Tokens(text) /\ first[1] = c + 1
  BY <1>1, <1>2, <1>3
<1>5. first = r
  <2> HIDE DEF first
  <2> QED BY <1>4, OneToken
<1>6. after # {} /\ ~(r[1] > c + 1 + NewGap)
  <2>1. NewGap \in Nat /\ Len(text) \in Nat
    BY <1>1, ExtractorAssumption, Zenon
  <2> QED BY <1>2, <2>1
<1> QED BY <1>5, <1>6 DEF NewVersion

\* An upgrade that is spelled out, one version beside the connector and another
\* right behind it, is not missed (version_extractor.py:47-51).
THEOREM SpelledOutIsUpgrade == Extraction => []SpelledOutIsFound
<1>1. ASSUME ReadInv PROVE SpelledOutIsFound
  <2> SUFFICES ASSUME NEW q \in Tokens(text), NEW r \in Tokens(text),
                      q[2] + 1 < next, text[q[2] + 1] = Connector, r[1] = q[2] + 2,
                      q[2] - q[1] < OldWindow, q[1] > 1 => text[q[1] - 1] \in Gaps,
                      Cut(text, q) # Cut(text, r)
      PROVE Upgrade(Cut(text, q), Cut(text, r)) \in Seen
    BY Zenon DEF SpelledOutIsFound, Gaps
  <2>1. text \in Seq(Chars) /\ Len(text) \in Nat /\ next \in 1..(Len(text) + 1)
    BY <1>1, SourceIsText DEF ReadInv
  <2>2. PICK x \in Nat \ {0}, y \in Nat :
          /\ q = <<x, y>> /\ x + 2 <= y /\ y <= Len(text)
          /\ SubSeq(text, x, y) \in Seq(Chars) /\ IsVersion(SubSeq(text, x, y))
          /\ \A k \in x..y : text[k] \in VersionChars
    BY <2>1, TokenIs
  <2> DEFINE c == y + 1
  <2>3. /\ c \in 1..Len(text) /\ c \in 1..(next - 1) /\ text[c] = Connector
        /\ r[1] = c + 1 /\ c - 1 = y /\ x + 3 <= c
        /\ x > 1 => text[x - 1] \in Gaps
    <3>1. q[1] = x /\ q[2] = y
      BY <2>2
    <3>2. y + 2 = y + 1 + 1
      BY <2>2
    <3> QED BY <2>1, <2>2, <3>1, <3>2
  <2>4. From(c) <= x
    <3>1. OldWindow \in Nat /\ y - x < OldWindow
      BY <2>2, ExtractorAssumption, Zenon
    <3> QED BY <2>2, <3>1 DEF From
  <2> HIDE DEF c
  <2>5. Subject(text, c) = Cut(text, q)
    <3>1. Subject(text, c) = SubSeq(text, x, c - 1)
      <4>1. \A k \in x..(c - 1) : text[k] \in VersionChars
        BY <2>2, <2>3
      <4> QED BY <2>1, <2>2, <2>3, <2>4, <4>1, SubjectBeside
    <3> QED BY <2>2, <2>3, <3>1 DEF Cut
  <2>6. NewVersion(text, c) = Cut(text, r)
    BY <2>1, <2>3, NewBeside
  <2>7. Cut(text, r) # None
    <3>1. PICK a \in Nat \ {0}, b \in Nat : r = <<a, b>> /\ IsVersion(SubSeq(text, a, b))
      BY <2>1, TokenIs
    <3>2. None \in Seq(Chars) /\ ~(Len(None) >= 3)
      BY EmptySeq DEF None
    <3>3. ~IsVersion(None)
      BY <3>2, VersionIs
    <3> QED BY <3>1, <3>3 DEF Cut
  <2>8. IsVersion(Cut(text, q))
    BY <2>2 DEF Cut
  <2>9. Line(text, c) = Upgrade(Cut(text, q), Cut(text, r))
    BY <2>5, <2>6, <2>7, <2>8 DEF Line, Beside
  <2>10. \A a, b : Upgrade(a, b) # None
    BY DEF Upgrade, None
  <2>11. c \in Visited
    BY <2>3 DEF Visited
  <2> QED BY <1>1, <2>9, <2>10, <2>11 DEF ReadInv
<1> QED BY <1>1, Reading, PTL

-----------------------------------------------------------------------------
(* Pieces of a text.                                                       *)

\* Where s o t has what.
LEMMA Concat ==
  ASSUME NEW s \in Seq(Chars), NEW t \in Seq(Chars)
  PROVE  /\ s \o t \in Seq(Chars) /\ Len(s) \in Nat /\ Len(t) \in Nat
         /\ Len(s \o t) = Len(s) + Len(t)
         /\ DOMAIN s = 1..Len(s) /\ DOMAIN t = 1..Len(t)
         /\ DOMAIN (s \o t) = 1..(Len(s) + Len(t))
         /\ \A i \in 1..Len(s) : (s \o t)[i] = s[i]
         /\ \A i \in 1..Len(t) : (s \o t)[Len(s) + i] = t[i]
         /\ \A i \in 1..(Len(s) + Len(t)) : i \notin 1..Len(s) =>
              i - Len(s) \in 1..Len(t) /\ (s \o t)[i] = t[i - Len(s)]
<1>1. /\ Len(s) \in Nat /\ Len(t) \in Nat
      /\ DOMAIN s = 1..Len(s) /\ DOMAIN t = 1..Len(t)
  BY LenProperties
<1>2. /\ s \o t \in Seq(Chars) /\ Len(s \o t) = Len(s) + Len(t)
      /\ \A i \in 1..Len(s) + Len(t) :
           (s \o t)[i] = IF i <= Len(s) THEN s[i] ELSE t[i - Len(s)]
  BY ConcatProperties
<1>3. DOMAIN (s \o t) = 1..(Len(s) + Len(t))
  BY <1>2, LenProperties
<1>4. \A i \in 1..Len(s) : (s \o t)[i] = s[i]
  BY <1>1, <1>2
<1>5. ASSUME NEW i \in 1..Len(t) PROVE (s \o t)[Len(s) + i] = t[i]
  <2>1. /\ Len(s) + i \in 1..(Len(s) + Len(t)) /\ ~(Len(s) + i <= Len(s))
        /\ Len(s) + i - Len(s) = i
    BY <1>1
  <2> QED BY <1>2, <2>1
<1>6. ASSUME NEW i \in 1..(Len(s) + Len(t)), i \notin 1..Len(s)
      PROVE  i - Len(s) \in 1..Len(t) /\ (s \o t)[i] = t[i - Len(s)]
  <2>1. ~(i <= Len(s)) /\ i - Len(s) \in 1..Len(t)
    BY <1>1, <1>6
  <2> QED BY <1>2, <2>1
<1> QED BY <1>1, <1>2, <1>3, <1>4, <1>5, <1>6

\* A text falls into what stands up to a place and the rest.
LEMMA CutAt ==
  ASSUME NEW s \in Seq(Chars), NEW m \in 0..Len(s)
  PROVE  /\ s = SubSeq(s, 1, m) \o SubSeq(s, m + 1, Len(s))
         /\ SubSeq(s, 1, m) \in Seq(Chars) /\ SubSeq(s, m + 1, Len(s)) \in Seq(Chars)
         /\ Len(SubSeq(s, 1, m)) = m
<1>1. Len(s) \in Nat
  BY LenProperties
<1>2. m \in Nat /\ m <= Len(s)
  BY <1>1
<1>3. SubSeq(s, 1, m) \in Seq(Chars) /\ Len(SubSeq(s, 1, m)) = m
  BY <1>2, Slice
<1>4. SubSeq(s, m + 1, Len(s)) \in Seq(Chars)
  BY <1>1, <1>2, Slice
<1>5. SubSeq(s, 1, m) \o SubSeq(s, m + 1, Len(s)) = SubSeq(s, 1, Len(s))
  <2>1. 1 \in 1..Len(s) + 1 /\ m \in (1 - 1)..Len(s) /\ Len(s) \in m..Len(s)
    BY <1>1, <1>2
  <2> QED BY <2>1, ConcatAdjacentSubSeq
<1>6. SubSeq(s, 1, Len(s)) = s
  BY SubSeqFull
<1> QED BY <1>3, <1>4, <1>5, <1>6

\* The end of x o y, when it begins within x.
LEMMA TailOfConcat ==
  ASSUME NEW x \in Seq(Chars), NEW y \in Seq(Chars), NEW m \in 0..Len(x)
  PROVE  SubSeq(x \o y, m + 1, Len(x \o y)) = SubSeq(x, m + 1, Len(x)) \o y
<1> DEFINE u == SubSeq(x, 1, m)
           v == SubSeq(x, m + 1, Len(x))
           w == SubSeq(x \o y, m + 1, Len(x \o y))
<1>1. x \o y \in Seq(Chars) /\ Len(x \o y) = Len(x) + Len(y) /\ Len(x) \in Nat /\ Len(y) \in Nat
  BY Concat
<1>2. x = u \o v /\ u \in Seq(Chars) /\ v \in Seq(Chars) /\ Len(u) = m
  BY CutAt
<1>3. m \in 0..Len(x \o y) /\ m + 1 \in Nat \ {0}
  BY <1>1
<1>4. /\ x \o y = SubSeq(x \o y, 1, m) \o w
      /\ SubSeq(x \o y, 1, m) \in Seq(Chars) /\ w \in Seq(Chars)
  BY <1>1, <1>3, CutAt
<1>5. SubSeq(x \o y, 1, m) = u
  <2>1. CASE m = 0
    BY <2>1, SubSeqEmpty
  <2>2. CASE m # 0
    <3>1. 1 \in 1..Len(x) /\ m \in 1..Len(x)
      BY <1>1, <2>2
    <3> QED BY <3>1, SubSeqOfConcat1
  <2> QED BY <2>1, <2>2
<1>6. x \o y = u \o (v \o y)
  <2> HIDE DEF u, v
  <2>1. (u \o v) \o y = u \o (v \o y)
    BY <1>2, ConcatAssociative
  <2> QED BY <1>2, <2>1
<1>7. v \o y \in Seq(Chars)
  BY <1>2, Concat
<1> HIDE DEF u, v, w
<1>8. w = v \o y
  BY <1>2, <1>4, <1>5, <1>6, <1>7, ConcatSimplifications
<1> QED BY <1>8 DEF w, v

\* The places of the members of W.
Places(s, W) == {i \in DOMAIN s : s[i] \in W}

LEMMA PlacesAre ==
  ASSUME NEW s \in Seq(Chars), NEW W
  PROVE  /\ Places(s, W) \in SUBSET (1..Len(s)) /\ Places(s, W) \in SUBSET (Nat \ {0})
         /\ IsFiniteSet(Places(s, W)) /\ Cardinality(Places(s, W)) \in Nat
         /\ \A I : /\ IsFiniteSet(Places(s, W) \cap I)
                   /\ Cardinality(Places(s, W) \cap I) \in Nat
                   /\ Cardinality(Places(s, W) \cap I) <= Cardinality(Places(s, W))
<1>1. Len(s) \in Nat /\ DOMAIN s = 1..Len(s)
  BY LenProperties
<1>2. Places(s, W) \in SUBSET (1..Len(s))
  BY <1>1 DEF Places
<1>3. IsFiniteSet(1..Len(s))
  BY <1>1, FS_Interval
<1>4. IsFiniteSet(Places(s, W))
  BY <1>2, <1>3, FS_Subset
<1>5. \A I : /\ IsFiniteSet(Places(s, W) \cap I)
             /\ Cardinality(Places(s, W) \cap I) <= Cardinality(Places(s, W))
  BY <1>4, FS_Intersection
<1>6. Places(s, W) \in SUBSET (Nat \ {0})
  BY <1>1, <1>2
<1> QED BY <1>2, <1>4, <1>5, <1>6, FS_CardinalityType

\* A set moved up has the same cardinality.
LEMMA Moved ==
  ASSUME NEW n \in Nat, NEW I \in SUBSET Nat, IsFiniteSet(I)
  PROVE  /\ IsFiniteSet({n + i : i \in I})
         /\ Cardinality({n + i : i \in I}) = Cardinality(I)
<1> DEFINE T == {n + i : i \in I}
           f == [i \in I |-> n + i]
<1>1. f \in [I -> T]
  OBVIOUS
<1>2. \A a, b \in I : f[a] = f[b] => a = b
  OBVIOUS
<1>3. \A t \in T : \E a \in I : f[a] = t
  OBVIOUS
<1> HIDE DEF f
<1>4. f \in Bijection(I, T)
  BY <1>1, <1>2, <1>3 DEF Bijection, Injection, Surjection, IsInjective
<1>5. ExistsBijection(I, T)
  BY <1>4 DEF ExistsBijection
<1> QED BY <1>5, FS_Bijection

\* Up to a place in y, x o y has the members of W that x has, and those of y up
\* to there.
LEMMA CountInFirst ==
  ASSUME NEW x \in Seq(Chars), NEW y \in Seq(Chars), NEW W, NEW p \in 0..Len(x)
  PROVE  Places(x \o y, W) \cap (1..p) = Places(x, W) \cap (1..p)
<1>1. /\ DOMAIN x = 1..Len(x) /\ Len(x) \in Nat /\ Len(y) \in Nat
      /\ DOMAIN (x \o y) = 1..(Len(x) + Len(y))
      /\ \A i \in 1..Len(x) : (x \o y)[i] = x[i]
  BY Concat
<1>2. \A i \in 1..p : i \in 1..Len(x) /\ i \in 1..(Len(x) + Len(y))
  BY <1>1
<1> QED BY <1>1, <1>2 DEF Places

LEMMA CountConcat ==
  ASSUME NEW x \in Seq(Chars), NEW y \in Seq(Chars), NEW W, NEW p \in 0..Len(y)
  PROVE  Cardinality(Places(x \o y, W) \cap (1..(Len(x) + p)))
           = Cardinality(Places(x, W)) + Cardinality(Places(y, W) \cap (1..p))
<1> DEFINE A == Places(x, W)
           B == Places(y, W) \cap (1..p)
           M == {Len(x) + i : i \in B}
<1>1. /\ DOMAIN x = 1..Len(x) /\ Len(x) \in Nat /\ Len(y) \in Nat /\ DOMAIN y = 1..Len(y)
      /\ DOMAIN (x \o y) = 1..(Len(x) + Len(y))
      /\ \A i \in 1..Len(x) : (x \o y)[i] = x[i]
      /\ \A i \in 1..Len(y) : (x \o y)[Len(x) + i] = y[i]
  BY Concat
<1>2. /\ IsFiniteSet(A) /\ Cardinality(A) \in Nat /\ A \in SUBSET (1..Len(x))
      /\ IsFiniteSet(B) /\ Cardinality(B) \in Nat /\ B \in SUBSET Nat
  BY PlacesAre
<1>3. Places(x \o y, W) \cap (1..(Len(x) + p)) = A \cup M
  <2>1. ASSUME NEW k \in Places(x \o y, W), k \in 1..(Len(x) + p) PROVE k \in A \cup M
    <3>1. k \in 1..(Len(x) + Len(y)) /\ (x \o y)[k] \in W
      BY <1>1 DEF Places
    <3>2. CASE k <= Len(x)
      <4>1. k \in 1..Len(x)
        BY <1>1, <3>1, <3>2
      <4> QED BY <1>1, <3>1, <4>1 DEF Places
    <3>3. CASE ~(k <= Len(x))
      <4>1. k - Len(x) \in 1..Len(y) /\ k - Len(x) \in 1..p /\ k = Len(x) + (k - Len(x))
        BY <1>1, <2>1, <3>1, <3>3
      <4>2. y[k - Len(x)] = (x \o y)[k]
        BY <1>1, <4>1
      <4>3. k - Len(x) \in B
        BY <1>1, <3>1, <4>1, <4>2 DEF Places
      <4> QED BY <4>1, <4>3
    <3> QED BY <3>2, <3>3
  <2>2. ASSUME NEW k \in A PROVE k \in Places(x \o y, W) /\ k \in 1..(Len(x) + p)
    <3>1. k \in 1..Len(x) /\ x[k] \in W
      BY <1>1 DEF Places
    <3>2. k \in 1..(Len(x) + Len(y)) /\ k \in 1..(Len(x) + p)
      BY <1>1, <3>1
    <3> QED BY <1>1, <3>1, <3>2 DEF Places
  <2>3. ASSUME NEW i \in B
        PROVE  Len(x) + i \in Places(x \o y, W) /\ Len(x) + i \in 1..(Len(x) + p)
    <3>1. i \in 1..Len(y) /\ y[i] \in W /\ i \in 1..p
      BY <1>1 DEF Places
    <3>2. Len(x) + i \in 1..(Len(x) + Len(y)) /\ Len(x) + i \in 1..(Len(x) + p)
      BY <1>1, <3>1
    <3> QED BY <1>1, <3>1, <3>2 DEF Places
  <2> HIDE DEF A, B
  <2> QED BY <2>1, <2>2, <2>3
<1>4. A \cap M = {}
  <2> SUFFICES ASSUME NEW i \in B, Len(x) + i \in A PROVE FALSE
    OBVIOUS
  <2>1. i >= 1 /\ i \in Nat
    <3>1. i \in 1..p
      OBVIOUS
    <3> QED BY <1>1, <3>1
  <2>2. Len(x) + i \in 1..Len(x)
    BY <1>2
  <2> HIDE DEF A, B
  <2> QED BY <1>1, <2>1, <2>2
<1>5. IsFiniteSet(M) /\ Cardinality(M) = Cardinality(B)
  <2> HIDE DEF B
  <2> QED BY <1>1, <1>2, Moved
<1>6. Cardinality(A \cup M) = Cardinality(A) + Cardinality(M) - Cardinality(A \cap M)
  <2> HIDE DEF A, M
  <2> QED BY <1>2, <1>5, FS_Union
<1>7. Cardinality(A \cap M) = 0
  BY <1>4, FS_EmptySet
<1> HIDE DEF A, B, M
<1>8. Cardinality(A \cup M) = Cardinality(A) + Cardinality(B)
  BY <1>2, <1>5, <1>6, <1>7
<1> QED BY <1>3, <1>8 DEF A, B

-----------------------------------------------------------------------------
(* Words: the members of W, in their order.                                *)

Rank(P, i) == Cardinality(P \cap (1..i))

\* The members of a finite set of places are numbered from 1 by their ranks.
LEMMA Ranks ==
  ASSUME NEW P \in SUBSET (Nat \ {0}), IsFiniteSet(P)
  PROVE  /\ Cardinality(P) \in Nat
         /\ \A i \in P : Rank(P, i) \in 1..Cardinality(P)
         /\ \A i, j \in P : Rank(P, i) = Rank(P, j) => i = j
         /\ \A n \in 1..Cardinality(P) : \E i \in P : Rank(P, i) = n
<1>1. Cardinality(P) \in Nat
  BY FS_CardinalityType
<1>2. ASSUME NEW i \in P
      PROVE  /\ IsFiniteSet(P \cap (1..i)) /\ Rank(P, i) \in Nat
             /\ Rank(P, i) <= Cardinality(P) /\ Rank(P, i) # 0
  <2>1. IsFiniteSet(P \cap (1..i)) /\ Cardinality(P \cap (1..i)) <= Cardinality(P)
    BY FS_Intersection
  <2>2. i \in P \cap (1..i)
    OBVIOUS
  <2>3. Cardinality(P \cap (1..i)) \in Nat /\ Cardinality(P \cap (1..i)) # 0
    BY <2>1, <2>2, FS_CardinalityType, FS_EmptySet
  <2> QED BY <2>1, <2>3 DEF Rank
<1>3. ASSUME NEW i \in P, NEW j \in P, i < j PROVE Rank(P, i) # Rank(P, j)
  <2>1. P \cap (1..i) \in SUBSET (P \cap (1..j)) /\ j \in P \cap (1..j) /\ j \notin P \cap (1..i)
    BY <1>3
  <2>2. IsFiniteSet(P \cap (1..j))
    BY <1>2
  <2> QED BY <2>1, <2>2, FS_Subset DEF Rank
<1>4. \A i, j \in P : Rank(P, i) = Rank(P, j) => i = j
  <2> SUFFICES ASSUME NEW i \in P, NEW j \in P, Rank(P, i) = Rank(P, j) PROVE i = j
    OBVIOUS
  <2>1. ~(i < j) /\ ~(j < i)
    BY <1>3
  <2> QED BY <2>1
<1>5. \A i \in P : Rank(P, i) \in 1..Cardinality(P)
  <2> SUFFICES ASSUME NEW i \in P PROVE Rank(P, i) \in 1..Cardinality(P)
    OBVIOUS
  <2>1. Rank(P, i) \in Nat /\ Rank(P, i) <= Cardinality(P) /\ Rank(P, i) # 0
    BY <1>2
  <2> QED BY <1>1, <2>1
<1> DEFINE f == [i \in P |-> Rank(P, i)]
           T == 1..Cardinality(P)
<1>6. f \in [P -> T] /\ \A i, j \in P : f[i] = f[j] => i = j
  BY <1>4, <1>5
<1>7. IsFiniteSet(T) /\ Cardinality(T) = Cardinality(P)
  BY <1>1, FS_Interval
<1>8. \A i \in P : f[i] = Rank(P, i)
  OBVIOUS
<1> HIDE DEF f
<1>9. f \in Injection(P, T)
  BY <1>6 DEF Injection, IsInjective
<1> HIDE DEF T
<1>10. f \in Surjection(P, T)
  BY <1>7, <1>9, FS_Injection
<1>11. \A n \in T : \E i \in P : f[i] = n
  BY <1>10 DEF Surjection
<1> QED BY <1>1, <1>4, <1>5, <1>8, <1>11 DEF T

\* The words of s are its members at those places.
LEMMA WordsAre ==
  ASSUME NEW s \in Seq(Chars), NEW W
  PROVE  /\ Words(s, W) \in Seq(Chars)
         /\ Len(Words(s, W)) = Cardinality(Places(s, W))
         /\ \A i \in Places(s, W) : Words(s, W)[Rank(Places(s, W), i)] = s[i]
<1> DEFINE P == Places(s, W)
           n == Cardinality(P)
           pick(k) == CHOOSE i \in P : Rank(P, i) = k
<1>1. P \in SUBSET (Nat \ {0}) /\ IsFiniteSet(P) /\ P \in SUBSET (1..Len(s))
  BY PlacesAre
<1>2. Words(s, W) = [k \in 1..n |-> s[pick(k)]]
  BY DEF Words, Places, Rank
<1> HIDE DEF P
<1>3. /\ n \in Nat /\ \A i \in P : Rank(P, i) \in 1..n
      /\ \A i, j \in P : Rank(P, i) = Rank(P, j) => i = j
      /\ \A k \in 1..n : \E i \in P : Rank(P, i) = k
  BY <1>1, Ranks
<1>4. \A k \in 1..n : pick(k) \in P
  BY <1>3
<1>5. \A k \in 1..n : s[pick(k)] \in Chars
  <2>1. \A i \in P : s[i] \in Chars
    BY <1>1, ElementOfSeq
  <2> QED BY <1>4, <2>1
<1>6. \A i \in P : pick(Rank(P, i)) = i
  BY <1>3
<1> HIDE DEF n, pick
<1>7. Words(s, W) \in [1..n -> Chars]
  BY <1>2, <1>5
<1>8. Words(s, W) \in Seq(Chars) /\ Len(Words(s, W)) = n
  BY <1>3, <1>7
<1>9. \A i \in P : Words(s, W)[Rank(P, i)] = s[i]
  BY <1>2, <1>3, <1>6
<1> QED BY <1>8, <1>9 DEF P, n

\* The words of x o y are those of x and then those of y.
LEMMA WordsConcat ==
  ASSUME NEW x \in Seq(Chars), NEW y \in Seq(Chars), NEW W
  PROVE  Words(x \o y, W) = Words(x, W) \o Words(y, W)
<1> DEFINE X == Places(x, W)
           Y == Places(y, W)
           Z == Places(x \o y, W)
           m == Cardinality(X)
           n == Cardinality(Y)
           l == Words(x \o y, W)
           r == Words(x, W) \o Words(y, W)
<1>1. /\ x \o y \in Seq(Chars) /\ Len(x) \in Nat /\ Len(y) \in Nat
      /\ Len(x \o y) = Len(x) + Len(y)
      /\ DOMAIN x = 1..Len(x) /\ DOMAIN y = 1..Len(y) /\ DOMAIN (x \o y) = 1..(Len(x) + Len(y))
      /\ \A i \in 1..Len(x) : (x \o y)[i] = x[i]
      /\ \A i \in 1..Len(y) : (x \o y)[Len(x) + i] = y[i]
  BY Concat
<1>2. /\ X \in SUBSET (Nat \ {0}) /\ IsFiniteSet(X) /\ X \in SUBSET (1..Len(x))
      /\ Y \in SUBSET (Nat \ {0}) /\ IsFiniteSet(Y) /\ Y \in SUBSET (1..Len(y))
      /\ Z \in SUBSET (1..(Len(x) + Len(y)))
      /\ m \in Nat /\ n \in Nat
  BY <1>1, PlacesAre
<1>3. Cardinality(Z) = m + n
  <2>1. Z \cap (1..(Len(x) + Len(y))) = Z /\ Y \cap (1..Len(y)) = Y /\ Len(y) \in 0..Len(y)
    BY <1>1, <1>2
  <2> QED BY <2>1, CountConcat
<1>4. \A i \in X : i \in Z /\ Rank(Z, i) = Rank(X, i) /\ (x \o y)[i] = x[i]
  <2> SUFFICES ASSUME NEW i \in X PROVE i \in Z /\ Rank(Z, i) = Rank(X, i) /\ (x \o y)[i] = x[i]
    OBVIOUS
  <2>1. i \in 1..Len(x) /\ i \in 0..Len(x) /\ i \in 1..(Len(x) + Len(y)) /\ x[i] \in W
    BY <1>1, <1>2 DEF Places
  <2>2. Rank(Z, i) = Rank(X, i)
    <3>1. Z \cap (1..i) = X \cap (1..i)
      BY <2>1, CountInFirst
    <3> QED BY <3>1, Zenon DEF Rank
  <2> QED BY <1>1, <2>1, <2>2 DEF Places
<1>5. \A i \in Y : /\ Len(x) + i \in Z /\ Rank(Z, Len(x) + i) = m + Rank(Y, i)
                   /\ (x \o y)[Len(x) + i] = y[i]
  <2> SUFFICES ASSUME NEW i \in Y
      PROVE Len(x) + i \in Z /\ Rank(Z, Len(x) + i) = m + Rank(Y, i) /\ (x \o y)[Len(x) + i] = y[i]
    OBVIOUS
  <2>1. i \in 1..Len(y) /\ i \in 0..Len(y) /\ Len(x) + i \in 1..(Len(x) + Len(y)) /\ y[i] \in W
    BY <1>1, <1>2 DEF Places
  <2>2. Rank(Z, Len(x) + i) = m + Rank(Y, i)
    BY <2>1, CountConcat DEF Rank
  <2> QED BY <1>1, <2>1, <2>2 DEF Places
<1>6. /\ l \in Seq(Chars) /\ Len(l) = m + n
      /\ \A i \in Z : l[Rank(Z, i)] = (x \o y)[i]
  BY <1>1, <1>3, WordsAre
<1>7. /\ Words(x, W) \in Seq(Chars) /\ Len(Words(x, W)) = m
      /\ \A i \in X : Words(x, W)[Rank(X, i)] = x[i]
      /\ Words(y, W) \in Seq(Chars) /\ Len(Words(y, W)) = n
      /\ \A i \in Y : Words(y, W)[Rank(Y, i)] = y[i]
  BY WordsAre
<1>8. /\ r \in Seq(Chars) /\ Len(r) = m + n
      /\ \A k \in 1..m : r[k] = Words(x, W)[k]
      /\ \A k \in 1..n : r[m + k] = Words(y, W)[k]
  BY <1>7, Concat
<1>9. /\ \A k \in 1..m : \E i \in X : Rank(X, i) = k
      /\ \A k \in 1..n : \E i \in Y : Rank(Y, i) = k
  BY <1>2, Ranks
<1> HIDE DEF X, Y, Z, m, n, l, r
<1>10. ASSUME NEW k \in 1..(m + n) PROVE l[k] = r[k]
  <2>1. CASE k <= m
    <3>1. k \in 1..m
      BY <1>2, <2>1
    <3>2. PICK i \in X : Rank(X, i) = k
      BY <1>9, <3>1
    <3>3. l[k] = x[i] /\ r[k] = x[i]
      BY <1>4, <1>6, <1>7, <1>8, <3>1, <3>2
    <3> QED BY <3>3
  <2>2. CASE ~(k <= m)
    <3>1. k - m \in 1..n /\ k = m + (k - m)
      BY <1>2, <2>2
    <3>2. PICK i \in Y : Rank(Y, i) = k - m
      BY <1>9, <3>1
    <3>3. l[k] = y[i]
      BY <1>5, <1>6, <3>1, <3>2
    <3>4. r[k] = y[i]
      BY <1>7, <1>8, <3>1, <3>2
    <3> QED BY <3>3, <3>4
  <2> QED BY <2>1, <2>2
<1>11. l = r
  BY <1>6, <1>8, <1>10, SeqEqual
<1> QED BY <1>11 DEF l, r

\* No words in a text that has none.
LEMMA NoWords ==
  ASSUME NEW s \in Seq(Chars), NEW W, ~Has(s, W)
  PROVE  Words(s, W) = <<>>
<1>1. Places(s, W) = {}
  BY DEF Has, Places
<1>2. Words(s, W) \in Seq(Chars) /\ Len(Words(s, W)) = 0
  BY <1>1, WordsAre, FS_EmptySet
<1> QED BY <1>2, EmptySeq

\* Two texts that have the members of W at the same places have the same words.
LEMMA SameWords ==
  ASSUME NEW s \in Seq(Chars), NEW t \in Seq(Chars), NEW W, Len(s) = Len(t),
         \A i \in 1..Len(s) : s[i] \in W \/ t[i] \in W => s[i] = t[i]
  PROVE  Words(s, W) = Words(t, W)
<1>1. DOMAIN s = 1..Len(s) /\ DOMAIN t = 1..Len(s)
  BY LenProperties
<1>2. Places(s, W) = Places(t, W)
  BY <1>1 DEF Places
<1> DEFINE P == Places(s, W)
<1>3. /\ Words(s, W) \in Seq(Chars) /\ Len(Words(s, W)) = Cardinality(P)
      /\ \A i \in P : Words(s, W)[Rank(P, i)] = s[i]
      /\ Words(t, W) \in Seq(Chars) /\ Len(Words(t, W)) = Cardinality(P)
      /\ \A i \in P : Words(t, W)[Rank(P, i)] = t[i]
  BY <1>2, WordsAre
<1>4. P \in SUBSET (Nat \ {0}) /\ IsFiniteSet(P)
  BY PlacesAre
<1>5. \A i \in P : s[i] = t[i]
  BY <1>1 DEF Places
<1> HIDE DEF P
<1>6. \A k \in 1..Cardinality(P) : \E i \in P : Rank(P, i) = k
  BY <1>4, Ranks
<1>7. \A k \in 1..Cardinality(P) : Words(s, W)[k] = Words(t, W)[k]
  BY <1>3, <1>5, <1>6
<1> QED BY <1>3, <1>7, SeqEqual

\* A concatenation has what its parts have.
LEMMA HasConcat ==
  ASSUME NEW x \in Seq(Chars), NEW y \in Seq(Chars), NEW W
  PROVE  Has(x \o y, W) <=> Has(x, W) \/ Has(y, W)
<1>1. /\ Len(x) \in Nat /\ Len(y) \in Nat
      /\ DOMAIN x = 1..Len(x) /\ DOMAIN y = 1..Len(y) /\ DOMAIN (x \o y) = 1..(Len(x) + Len(y))
      /\ \A i \in 1..Len(x) : (x \o y)[i] = x[i]
      /\ \A i \in 1..Len(y) : (x \o y)[Len(x) + i] = y[i]
      /\ \A i \in 1..(Len(x) + Len(y)) : i \notin 1..Len(x) =>
           i - Len(x) \in 1..Len(y) /\ (x \o y)[i] = y[i - Len(x)]
  BY Concat
<1>2. ASSUME Has(x \o y, W) PROVE Has(x, W) \/ Has(y, W)
  <2>1. PICK i \in 1..(Len(x) + Len(y)) : (x \o y)[i] \in W
    BY <1>1, <1>2 DEF Has
  <2>2. CASE i \in 1..Len(x)
    BY <1>1, <2>1, <2>2 DEF Has
  <2>3. CASE i \notin 1..Len(x)
    BY <1>1, <2>1, <2>3 DEF Has
  <2> QED BY <2>2, <2>3
<1>3. ASSUME Has(x, W) PROVE Has(x \o y, W)
  <2>1. PICK i \in 1..Len(x) : x[i] \in W
    BY <1>1, <1>3 DEF Has
  <2>2. i \in 1..(Len(x) + Len(y))
    BY <1>1
  <2> QED BY <1>1, <2>1, <2>2 DEF Has
<1>4. ASSUME Has(y, W) PROVE Has(x \o y, W)
  <2>1. PICK i \in 1..Len(y) : y[i] \in W
    BY <1>1, <1>4 DEF Has
  <2>2. Len(x) + i \in 1..(Len(x) + Len(y))
    BY <1>1
  <2> QED BY <1>1, <2>1, <2>2 DEF Has
<1> QED BY <1>2, <1>3, <1>4

-----------------------------------------------------------------------------
(* Stripping and normalizing.                                              *)

\* What Strip leaves is a slice between two characters that are no space.
LEMMA StripSlice ==
  ASSUME NEW s \in Seq(Chars), \E i \in 1..Len(s) : s[i] \notin Space
  PROVE  \E a \in 1..Len(s), b \in 1..Len(s) :
           /\ a <= b /\ Strip(s) = SubSeq(s, a, b)
           /\ s[a] \notin Space /\ s[b] \notin Space
           /\ \A i \in 1..Len(s) : i < a \/ b < i => s[i] \in Space
<1> DEFINE solid == {i \in DOMAIN s : s[i] \notin Space}
           last == CHOOSE i \in solid : \A j \in solid : j <= i
<1>1. Len(s) \in Nat /\ DOMAIN s = 1..Len(s)
  BY LenProperties
<1>2. solid # {} /\ solid \in SUBSET Nat /\ solid \in SUBSET (0..Len(s))
  BY <1>1
<1>3. Strip(s) = SubSeq(s, Smallest(solid), last)
  BY <1>2 DEF Strip
<1>4. \A i \in 1..Len(s) : i \notin solid => s[i] \in Space
  BY <1>1
<1>5. \A i \in solid : i \in 1..Len(s) /\ s[i] \notin Space
  BY <1>1
<1> HIDE DEF solid
<1>6. Smallest(solid) \in solid /\ \A j \in solid : Smallest(solid) <= j
  BY <1>2, SmallestIs
<1>7. last \in solid /\ \A j \in solid : j <= last
  <2>1. \E i \in solid : \A j \in solid : j <= i
    BY <1>1, <1>2, Greatest
  <2> QED BY <2>1
<1> DEFINE a == Smallest(solid)
<1> HIDE DEF a, last
<1>8. a \in 1..Len(s) /\ last \in 1..Len(s) /\ a <= last
  BY <1>5, <1>6, <1>7 DEF a
<1>9. ASSUME NEW i \in 1..Len(s), i < a \/ last < i PROVE s[i] \in Space
  <2>1. i \notin solid
    BY <1>1, <1>6, <1>7, <1>8, <1>9 DEF a
  <2> QED BY <1>4, <2>1
<1> QED BY <1>3, <1>5, <1>6, <1>7, <1>8, <1>9 DEF a

LEMMA StripNothing ==
  ASSUME NEW s \in Seq(Chars), \A i \in 1..Len(s) : s[i] \in Space
  PROVE  Strip(s) = <<>>
<1>1. {i \in DOMAIN s : s[i] \notin Space} = {}
  BY LenProperties
<1> QED BY <1>1 DEF Strip

\* A text is what Strip leaves, with spaces around it.
LEMMA StripIs ==
  ASSUME NEW s \in Seq(Chars)
  PROVE  /\ Strip(s) \in Seq(Chars)
         /\ \E u \in Seq(Chars), v \in Seq(Chars) :
              /\ s = u \o (Strip(s) \o v)
              /\ \A i \in 1..Len(u) : u[i] \in Space
              /\ \A i \in 1..Len(v) : v[i] \in Space
         /\ Strip(s) # <<>> => 1 \in 1..Len(Strip(s)) /\ Strip(s)[1] \notin Space
<1>0. Len(s) \in Nat
  BY LenProperties
<1>e. /\ <<>> \in Seq(Chars) /\ Len(<<>>) = 0
      /\ <<>> \o <<>> = <<>> /\ s \o <<>> = s
  BY EmptySeq, ConcatEmptySeq
<1>1. CASE \A i \in 1..Len(s) : s[i] \in Space
  <2>1. Strip(s) = <<>>
    BY <1>1, StripNothing
  <2>2. s = s \o (Strip(s) \o <<>>)
    BY <1>e, <2>1
  <2>3. \A i \in 1..Len(<<>>) : FALSE
    BY <1>e
  <2> QED BY <1>1, <1>e, <2>1, <2>2, <2>3
<1>2. CASE \E i \in 1..Len(s) : s[i] \notin Space
  <2>1. PICK a \in 1..Len(s), b \in 1..Len(s) :
           /\ a <= b /\ Strip(s) = SubSeq(s, a, b)
           /\ s[a] \notin Space /\ s[b] \notin Space
           /\ \A i \in 1..Len(s) : i < a \/ b < i => s[i] \in Space
    BY <1>2, StripSlice
  <2> DEFINE u == SubSeq(s, 1, a - 1)
             v == SubSeq(s, b + 1, Len(s))
  <2>2. a \in Nat \ {0} /\ b \in Nat /\ a <= b /\ b <= Len(s) /\ a - 1 \in Nat
    BY <1>0, <2>1
  <2>3. /\ u \in Seq(Chars) /\ Len(u) = a - 1
        /\ \A i \in 1..(a - 1) : u[i] = s[i]
    <3>1. a - 1 <= Len(s) /\ (IF 1 <= a - 1 THEN a - 1 - 1 + 1 ELSE 0) = a - 1 /\ a - 1 - 1 + 1 = a - 1
      BY <1>0, <2>2
    <3>2. /\ u \in Seq(Chars) /\ Len(u) = (IF 1 <= a - 1 THEN a - 1 - 1 + 1 ELSE 0)
          /\ \A i \in 1..(a - 1 - 1 + 1) : u[i] = s[1 + i - 1]
      BY <1>0, <2>2, <3>1, Slice
    <3>3. \A i \in 1..(a - 1) : 1 + i - 1 = i
      BY <2>2
    <3> QED BY <3>1, <3>2, <3>3
  <2>4. /\ v \in Seq(Chars) /\ Len(v) = Len(s) - b
        /\ \A i \in 1..(Len(s) - b) : v[i] = s[b + i]
    BY <1>0, <2>2, Slice
  <2>5. /\ SubSeq(s, a, b) \in Seq(Chars) /\ Len(SubSeq(s, a, b)) = b - a + 1
        /\ SubSeq(s, a, b)[1] = s[a]
    BY <1>0, <2>2, Slice
  <2>6. SubSeq(s, a, b) \o v = SubSeq(s, a, Len(s))
    <3>1. a \in 1..Len(s) + 1 /\ b \in (a - 1)..Len(s) /\ Len(s) \in b..Len(s)
      BY <1>0, <2>2
    <3> QED BY <3>1, ConcatAdjacentSubSeq
  <2>7. u \o SubSeq(s, a, Len(s)) = s
    <3>1. a - 1 \in 0..Len(s) /\ (a - 1) + 1 = a
      BY <1>0, <2>2
    <3> QED BY <3>1, CutAt
  <2>8. \A i \in 1..Len(u) : u[i] \in Space
    <3>1. \A i \in 1..(a - 1) : i \in 1..Len(s) /\ i < a
      BY <1>0, <2>2
    <3> QED BY <2>1, <2>3, <3>1
  <2>9. \A i \in 1..Len(v) : v[i] \in Space
    <3>1. \A i \in 1..(Len(s) - b) : b + i \in 1..Len(s) /\ b < b + i
      BY <1>0, <2>2
    <3> QED BY <2>1, <2>4, <3>1
  <2> HIDE DEF u, v
  <2>10. s = u \o (Strip(s) \o v)
    BY <2>1, <2>6, <2>7
  <2>11. 1 \in 1..(b - a + 1)
    BY <2>2
  <2> QED BY <2>1, <2>3, <2>4, <2>5, <2>8, <2>9, <2>10, <2>11
<1> QED BY <1>1, <1>2

\* Strip adds nothing and takes away spaces alone.
LEMMA StripHas ==
  ASSUME NEW s \in Seq(Chars), NEW W
  PROVE  /\ Has(Strip(s), W) => Has(s, W)
         /\ W \cap Space = {} /\ Has(s, W) => Has(Strip(s), W)
<1>1. Strip(s) \in Seq(Chars)
  BY StripIs
<1>2. PICK u \in Seq(Chars), v \in Seq(Chars) :
        /\ s = u \o (Strip(s) \o v)
        /\ \A i \in 1..Len(u) : u[i] \in Space
        /\ \A i \in 1..Len(v) : v[i] \in Space
  BY StripIs
<1>3. DOMAIN u = 1..Len(u) /\ DOMAIN v = 1..Len(v)
  BY LenProperties
<1> DEFINE t == Strip(s)
<1> HIDE DEF t
<1>4. Has(u \o (t \o v), W) <=> Has(u, W) \/ Has(t, W) \/ Has(v, W)
  <2>1. t \in Seq(Chars) /\ t \o v \in Seq(Chars)
    BY <1>1, Concat DEF t
  <2> QED BY <2>1, HasConcat
<1>5. W \cap Space = {} => ~Has(u, W) /\ ~Has(v, W)
  BY <1>2, <1>3 DEF Has
<1>6. Has(s, W) <=> Has(u, W) \/ Has(t, W) \/ Has(v, W)
  BY <1>2, <1>4 DEF t
<1> QED BY <1>5, <1>6 DEF t

LEMMA StripWords ==
  ASSUME NEW s \in Seq(Chars), NEW W, W \cap Space = {}
  PROVE  Words(Strip(s), W) = Words(s, W)
<1> DEFINE t == Strip(s)
<1>1. t \in Seq(Chars)
  BY StripIs
<1>2. PICK u \in Seq(Chars), v \in Seq(Chars) :
        /\ s = u \o (t \o v)
        /\ \A i \in 1..Len(u) : u[i] \in Space
        /\ \A i \in 1..Len(v) : v[i] \in Space
  BY StripIs
<1>3. DOMAIN u = 1..Len(u) /\ DOMAIN v = 1..Len(v)
  BY LenProperties
<1> HIDE DEF t
<1>4. ~Has(u, W) /\ ~Has(v, W)
  BY <1>2, <1>3 DEF Has
<1>5. t \o v \in Seq(Chars)
  BY <1>1, Concat
<1>6. Words(u \o (t \o v), W) = Words(u, W) \o (Words(t, W) \o Words(v, W))
  <2>1. Words(u \o (t \o v), W) = Words(u, W) \o Words(t \o v, W)
    BY <1>5, WordsConcat
  <2>2. Words(t \o v, W) = Words(t, W) \o Words(v, W)
    BY <1>1, WordsConcat
  <2> QED BY <2>1, <2>2
<1>7. Words(u, W) = <<>> /\ Words(v, W) = <<>> /\ Words(t, W) \in Seq(Chars)
  BY <1>1, <1>4, NoWords, WordsAre
<1>8. Words(t, W) \o <<>> = Words(t, W) /\ <<>> \o Words(t, W) = Words(t, W)
  BY <1>7, ConcatEmptySeq
<1>9. Words(s, W) = Words(t, W)
  BY <1>2, <1>6, <1>7, <1>8
<1> QED BY <1>9 DEF t

Nbsp == "&nbsp;"
Fillers == Space \cup {"<br>", Nbsp}

LEMMA NormalizeIs ==
  ASSUME NEW d \in Seq(Chars)
  PROVE  /\ Normalize(d) \in Seq(Chars) /\ Len(Normalize(d)) = Len(d)
         /\ \A i \in 1..Len(d) :
              Normalize(d)[i] = IF d[i] = "<br>" THEN "\n"
                                ELSE IF d[i] = Nbsp THEN Blank ELSE d[i]
<1>1. Len(d) \in Nat /\ DOMAIN d = 1..Len(d) /\ \A i \in 1..Len(d) : d[i] \in Chars
  BY LenProperties, ElementOfSeq
<1>2. Blank \in Chars /\ "\n" \in Chars
  BY Zenon DEF Blank, Chars
<1>3. Normalize(d) = [i \in DOMAIN d |-> IF d[i] = "<br>" THEN "\n"
                                          ELSE IF d[i] = Nbsp THEN Blank ELSE d[i]]
  BY Zenon DEF Normalize, Nbsp, Blank
<1>4. Normalize(d) \in [1..Len(d) -> Chars]
  BY <1>1, <1>2, <1>3
<1>5. Normalize(d) \in Seq(Chars) /\ Len(Normalize(d)) = Len(d)
  BY <1>1, <1>4
<1>6. \A i \in 1..Len(d) :
        Normalize(d)[i] = IF d[i] = "<br>" THEN "\n"
                          ELSE IF d[i] = Nbsp THEN Blank ELSE d[i]
  BY <1>1, <1>3
<1> QED BY <1>5, <1>6

\* A word that is no artifact stays where it is.
LEMMA NormalizeKeeps ==
  ASSUME NEW d \in Seq(Chars), NEW i \in 1..Len(d),
         d[i] \notin Fillers \/ Normalize(d)[i] \notin Fillers
  PROVE  Normalize(d)[i] = d[i]
<1>1. "\n" \in Fillers /\ Blank \in Fillers /\ "<br>" \in Fillers /\ Nbsp \in Fillers
  BY Zenon DEF Fillers, Space, Blank
<1> QED BY <1>1, NormalizeIs

LEMMA NormalizeWords ==
  ASSUME NEW d \in Seq(Chars), NEW W, W \cap Fillers = {},
         NEW m \in Nat \ {0}, NEW n \in Nat, n <= Len(d)
  PROVE  Words(SubSeq(Normalize(d), m, n), W) = Words(SubSeq(d, m, n), W)
<1>1. Normalize(d) \in Seq(Chars) /\ Len(Normalize(d)) = Len(d) /\ Len(d) \in Nat
  BY NormalizeIs, LenProperties
<1> DEFINE l == IF m <= n THEN n - m + 1 ELSE 0
           s == SubSeq(Normalize(d), m, n)
           t == SubSeq(d, m, n)
<1>2. /\ s \in Seq(Chars) /\ Len(s) = l
      /\ \A i \in 1..(n - m + 1) : s[i] = Normalize(d)[m + i - 1]
      /\ t \in Seq(Chars) /\ Len(t) = l
      /\ \A i \in 1..(n - m + 1) : t[i] = d[m + i - 1]
  BY <1>1, Slice
<1>3. \A i \in 1..l : i \in 1..(n - m + 1) /\ m + i - 1 \in 1..Len(d)
  BY <1>1
<1> HIDE DEF s, t, l
<1>4. ASSUME NEW i \in 1..l, s[i] \in W \/ t[i] \in W PROVE s[i] = t[i]
  <2>1. /\ m + i - 1 \in 1..Len(d)
        /\ s[i] = Normalize(d)[m + i - 1] /\ t[i] = d[m + i - 1]
    BY <1>2, <1>3
  <2>2. s[i] \notin Fillers \/ t[i] \notin Fillers
    BY <1>4
  <2> QED BY <2>1, <2>2, NormalizeKeeps
<1>5. Words(s, W) = Words(t, W)
  BY <1>2, <1>4, SameWords
<1> QED BY <1>5 DEF s, t

LEMMA NormalizeHas ==
  ASSUME NEW d \in Seq(Chars), NEW W, W \cap Fillers = {}, ~Has(d, W)
  PROVE  ~Has(Normalize(d), W)
<1> SUFFICES ASSUME Has(Normalize(d), W) PROVE FALSE
  OBVIOUS
<1>1. /\ DOMAIN Normalize(d) = 1..Len(d) /\ DOMAIN d = 1..Len(d)
  BY NormalizeIs, LenProperties
<1>2. PICK i \in 1..Len(d) : Normalize(d)[i] \in W
  BY <1>1 DEF Has
<1>3. Normalize(d)[i] = d[i]
  BY <1>2, NormalizeKeeps
<1> QED BY <1>1, <1>2, <1>3 DEF Has

-----------------------------------------------------------------------------
(* Version headers.                                                        *)

LEMMA HeaderIs == /\ Header \in Seq(Chars) /\ Len(Header) = 2
                  /\ Header[1] = "H" /\ Header[2] = Colon
                  /\ "H" \notin Fillers /\ Colon \notin Fillers
                  /\ Space \subseteq Fillers /\ "H" # Colon
<1>1. "H" \in Chars /\ Colon \in Chars
  BY DEF Chars
<1>2. Header \in Seq(Chars) /\ Len(Header) = 2 /\ Header[1] = "H" /\ Header[2] = Colon
  BY <1>1 DEF Header
<1>3. /\ "H" \notin Fillers /\ Colon \notin Fillers
      /\ Space \subseteq Fillers /\ "H" # Colon
  BY Zenon DEF Fillers, Space, Colon, Nbsp
<1> QED BY <1>2, <1>3

LEMMA PairIs ==
  ASSUME NEW s \in Seq(Chars), NEW i \in 1..(Len(s) - 1)
  PROVE  SubSeq(s, i, i + 1) = Header <=> s[i] = "H" /\ s[i + 1] = Colon
<1> DEFINE t == SubSeq(s, i, i + 1)
<1>1. Len(s) \in Nat
  BY LenProperties
<1>2. i \in Nat \ {0} /\ i + 1 \in Nat /\ i + 1 <= Len(s) /\ i <= i + 1
  BY <1>1
<1>3. /\ t \in Seq(Chars) /\ Len(t) = i + 1 - i + 1
      /\ \A k \in 1..(i + 1 - i + 1) : t[k] = s[i + k - 1]
  BY <1>2, Slice
<1>4. i + 1 - i + 1 = 2 /\ i + 1 - 1 = i /\ i + 2 - 1 = i + 1
  BY <1>2
<1>5. Len(t) = 2 /\ t[1] = s[i] /\ t[2] = s[i + 1]
  BY <1>3, <1>4
<1> HIDE DEF t
<1>6. t[1] = "H" /\ t[2] = Colon => t = Header
  <2>1. \A k \in 1..2 : k = 1 \/ k = 2
    OBVIOUS
  <2> SUFFICES ASSUME t[1] = "H", t[2] = Colon PROVE t = Header
    OBVIOUS
  <2>2. \A k \in 1..Len(t) : t[k] = Header[k]
    BY <1>5, <2>1, HeaderIs
  <2> QED BY <1>3, <1>5, <2>2, HeaderIs, SeqEqual
<1>7. t = Header => t[1] = "H" /\ t[2] = Colon
  BY HeaderIs
<1> QED BY <1>5, <1>6, <1>7 DEF t

\* Before i there are blanks alone, back to a line break or the start.
LineStart(s, i) ==
  \E b \in 0..(i - 1) : /\ b > 0 => s[b] = "\n"
                        /\ \A k \in (b + 1)..(i - 1) : s[k] = Blank

LEMMA HeaderLinesAre ==
  ASSUME NEW s \in Seq(Chars)
  PROVE  /\ HeaderLines(s) = {i \in 1..(Len(s) - 1) :
                                s[i] = "H" /\ s[i + 1] = Colon /\ LineStart(s, i)}
         /\ HeaderLines(s) \in SUBSET Nat
<1>1. HeaderLines(s) = {i \in 1..(Len(s) - 1) : SubSeq(s, i, i + 1) = Header /\ LineStart(s, i)}
  BY Zenon DEF HeaderLines, LineStart, Blank
<1>2. Len(s) \in Nat
  BY LenProperties
<1>3. \A i \in 1..(Len(s) - 1) : SubSeq(s, i, i + 1) = Header <=> s[i] = "H" /\ s[i + 1] = Colon
  BY PairIs
<1>4. HeaderLines(s) = {i \in 1..(Len(s) - 1) :
                          s[i] = "H" /\ s[i + 1] = Colon /\ LineStart(s, i)}
  BY <1>1, <1>3
<1> QED BY <1>2, <1>4

\* Before a place there are only spaces, if it is the first that is none: it is
\* where a line starts.
LEMMA FirstStartsLine ==
  ASSUME NEW s \in Seq(Chars), NEW i \in 1..Len(s), \A k \in 1..(i - 1) : s[k] \in Space
  PROVE  LineStart(s, i)
<1>1. Len(s) \in Nat /\ i \in Nat
  BY LenProperties
<1>2. Space = {Blank, "\n"}
  BY Zenon DEF Space, Blank
<1> DEFINE B == {b \in 1..(i - 1) : s[b] = "\n"}
<1>3. CASE B = {}
  <2>1. \A k \in 1..(i - 1) : s[k] = Blank
    BY <1>2, <1>3
  <2>2. 0 \in 0..(i - 1) /\ ~(0 > 0) /\ 0 + 1 = 1
    BY <1>1
  <2> QED BY <2>1, <2>2 DEF LineStart
<1>4. CASE B # {}
  <2>1. B \in SUBSET (0..(i - 1)) /\ i - 1 \in Nat
    BY <1>1
  <2>2. PICK b \in B : \A c \in B : c <= b
    BY <1>4, <2>1, Greatest
  <2>3. b \in 0..(i - 1) /\ s[b] = "\n"
    BY <2>1
  <2>4. ASSUME NEW k \in (b + 1)..(i - 1) PROVE s[k] = Blank
    <3>1. k \in 1..(i - 1) /\ ~(k <= b)
      BY <1>1, <2>3
    <3>2. k \notin B
      BY <2>2, <3>1
    <3> QED BY <1>2, <3>1, <3>2
  <2> QED BY <2>3, <2>4 DEF LineStart
<1> QED BY <1>3, <1>4

\* A header of a slice is one of the text, when the slice begins where only
\* spaces stand before it.
LEMMA HeaderOfSlice ==
  ASSUME NEW s \in Seq(Chars), NEW a \in 1..Len(s), NEW b \in a..Len(s),
         \A k \in 1..(a - 1) : s[k] \in Space, s[a] \notin Space,
         NEW i \in HeaderLines(SubSeq(s, a, b))
  PROVE  a + i - 1 \in HeaderLines(s) /\ a + i - 1 < b
<1> DEFINE t == SubSeq(s, a, b)
           j == a + i - 1
<1>1. Len(s) \in Nat /\ a \in Nat \ {0} /\ b \in Nat /\ a <= b /\ b <= Len(s)
  <2>1. Len(s) \in Nat
    BY LenProperties
  <2> QED BY <2>1
<1>2. /\ t \in Seq(Chars) /\ Len(t) = b - a + 1
      /\ \A k \in 1..(b - a + 1) : t[k] = s[a + k - 1]
  BY <1>1, Slice
<1> HIDE DEF t
<1>3. i \in 1..(Len(t) - 1) /\ t[i] = "H" /\ t[i + 1] = Colon /\ LineStart(t, i)
  BY <1>2, HeaderLinesAre DEF t
<1>4. /\ i \in 1..(b - a + 1) /\ i + 1 \in 1..(b - a + 1) /\ a + (i + 1) - 1 = j + 1
      /\ j \in 1..(Len(s) - 1) /\ j < b /\ j \in Nat /\ i \in Nat
  BY <1>1, <1>2, <1>3
<1>5. s[j] = "H" /\ s[j + 1] = Colon
  BY <1>2, <1>3, <1>4
<1>6. LineStart(s, j)
  <2>1. PICK c \in 0..(i - 1) : /\ c > 0 => t[c] = "\n"
                                /\ \A k \in (c + 1)..(i - 1) : t[k] = Blank
    BY <1>3 DEF LineStart
  <2>2. CASE c > 0
    <3>1. c \in 1..(b - a + 1) /\ a + c - 1 \in 0..(j - 1) /\ a + c - 1 > 0
      BY <1>1, <1>4, <2>2
    <3>2. s[a + c - 1] = "\n"
      BY <1>2, <2>1, <2>2, <3>1
    <3>3. ASSUME NEW k \in (a + c - 1 + 1)..(j - 1) PROVE s[k] = Blank
      <4>1. /\ k - a + 1 \in (c + 1)..(i - 1) /\ k - a + 1 \in 1..(b - a + 1)
            /\ a + (k - a + 1) - 1 = k
        BY <1>1, <1>4, <2>2
      <4> QED BY <1>2, <2>1, <4>1
    <3> QED BY <3>1, <3>2, <3>3 DEF LineStart
  <2>3. CASE ~(c > 0)
    <3>1. c = 0
      BY <1>4, <2>3
    <3>2. i = 1
      <4> SUFFICES ASSUME i # 1 PROVE FALSE
        OBVIOUS
      <4>1. 1 \in (c + 1)..(i - 1) /\ 1 \in 1..(b - a + 1) /\ a + 1 - 1 = a
        BY <1>1, <1>4, <3>1
      <4>2. s[a] = Blank
        BY <1>2, <2>1, <4>1
      <4>3. Blank \in Space
        BY Zenon DEF Blank, Space
      <4> QED BY <4>2, <4>3
    <3>3. j = a /\ j \in 1..Len(s)
      BY <1>1, <3>2
    <3> HIDE DEF j
    <3> QED BY <3>3, FirstStartsLine
  <2> QED BY <2>2, <2>3
<1> HIDE DEF j
<1>7. j \in HeaderLines(s)
  BY <1>4, <1>5, <1>6, HeaderLinesAre
<1> QED BY <1>4, <1>7 DEF j

\* What stands before the first header line has none.
LEMMA BodyHasNoHeader ==
  ASSUME NEW s \in Seq(Chars)
  PROVE  Body(s) \in Seq(Chars) /\ HeaderLines(Body(s)) = {}
<1>1. HeaderLines(s) \in SUBSET Nat /\ HeaderLines(s) \in SUBSET (1..(Len(s) - 1)) /\ Len(s) \in Nat
  BY HeaderLinesAre, LenProperties
<1>2. ASSUME NEW n \in 0..Len(s), \A j \in HeaderLines(s) : n <= j
      PROVE  /\ Strip(SubSeq(s, 1, n)) \in Seq(Chars)
             /\ HeaderLines(Strip(SubSeq(s, 1, n))) = {}
  <2> DEFINE p == SubSeq(s, 1, n)
  <2>1. n \in Nat /\ n <= Len(s)
    BY <1>1
  <2>2. p \in Seq(Chars) /\ Len(p) = n /\ \A k \in 1..n : p[k] = s[k]
    <3>1. p \in Seq(Chars) /\ Len(p) = n
      BY <1>2, CutAt
    <3>2. \A k \in 1..(n - 1 + 1) : p[k] = s[1 + k - 1]
      BY <2>1, Slice
    <3>3. n - 1 + 1 = n /\ \A k \in 1..n : 1 + k - 1 = k
      BY <2>1
    <3> QED BY <3>1, <3>2, <3>3
  <2>3. Strip(p) \in Seq(Chars)
    BY <2>2, StripIs
  <2>4. CASE \A k \in 1..Len(p) : p[k] \in Space
    <3>1. Strip(p) = <<>>
      BY <2>2, <2>4, StripNothing
    <3>2. Len(Strip(p)) = 0
      BY <3>1, EmptySeq
    <3> HIDE DEF p
    <3>3. HeaderLines(Strip(p)) \subseteq 1..(0 - 1)
      BY <2>3, <3>2, HeaderLinesAre
    <3>4. 1..(0 - 1) = {}
      OBVIOUS
    <3> QED BY <2>3, <3>3, <3>4 DEF p
  <2>5. CASE \E k \in 1..Len(p) : p[k] \notin Space
    <3>1. PICK a \in 1..Len(p), b \in 1..Len(p) :
            /\ a <= b /\ Strip(p) = SubSeq(p, a, b)
            /\ p[a] \notin Space /\ p[b] \notin Space
            /\ \A k \in 1..Len(p) : k < a \/ b < k => p[k] \in Space
      BY <2>2, <2>5, StripSlice
    <3>2. a \in 1..n /\ b \in 1..n /\ a \in Nat \ {0} /\ b \in Nat /\ a <= b
      BY <2>1, <2>2, <3>1
    <3>3. Strip(p) = SubSeq(s, a, b)
      <4>1. 1 \in Nat \ {0} /\ 1 + b - 1 <= n /\ 1 + a - 1 = a /\ 1 + b - 1 = b
        BY <2>1, <3>2
      <4>2. SubSeq(SubSeq(s, 1, n), a, b) = SubSeq(s, 1 + a - 1, 1 + b - 1)
        BY <2>1, <3>2, <4>1, SliceOfSlice
      <4> QED BY <3>1, <4>1, <4>2
    <3>4. s[a] \notin Space /\ \A k \in 1..(a - 1) : s[k] \in Space
      <4>1. \A k \in 1..(a - 1) : k \in 1..n /\ k < a
        BY <2>1, <3>2
      <4>2. \A k \in 1..(a - 1) : p[k] \in Space
        BY <2>2, <3>1, <4>1
      <4> HIDE DEF p
      <4> QED BY <2>2, <3>1, <3>2, <4>1, <4>2
    <3>5. a \in 1..Len(s) /\ b \in a..Len(s)
      BY <1>1, <2>1, <3>2
    <3>6. ASSUME NEW i \in HeaderLines(SubSeq(s, a, b)) PROVE FALSE
      <4>1. a + i - 1 \in HeaderLines(s) /\ a + i - 1 < b
        BY <3>4, <3>5, HeaderOfSlice
      <4>2. n <= a + i - 1 /\ a + i - 1 \in Nat
        BY <1>1, <1>2, <4>1
      <4> QED BY <2>1, <3>2, <4>1, <4>2
    <3> QED BY <2>3, <3>3, <3>6
  <2> QED BY <2>4, <2>5
<1>3. CASE HeaderLines(s) = {}
  <2>1. Body(s) = Strip(SubSeq(s, 1, Len(s)))
    BY <1>3, SubSeqFull DEF Body
  <2>2. Len(s) \in 0..Len(s)
    BY <1>1
  <2> QED BY <1>2, <1>3, <2>1, <2>2
<1>4. CASE HeaderLines(s) # {}
  <2>1. FirstHeader(s) \in HeaderLines(s) /\ \A j \in HeaderLines(s) : FirstHeader(s) <= j
    BY <1>1, <1>4, SmallestIs DEF FirstHeader
  <2>2. Body(s) = Strip(SubSeq(s, 1, FirstHeader(s) - 1))
    BY <1>4 DEF Body
  <2>3. FirstHeader(s) - 1 \in 0..Len(s) /\ \A j \in HeaderLines(s) : FirstHeader(s) - 1 <= j
    BY <1>1, <2>1
  <2> QED BY <1>2, <2>2, <2>3
<1> QED BY <1>3, <1>4

\* Strip leaves a text that begins with the header its beginning.
LEMMA StripKeepsHeader ==
  ASSUME NEW s \in Seq(Chars), Len(s) >= 2, s[1] = "H", s[2] = Colon
  PROVE  \E b \in 2..Len(s) : Strip(s) = SubSeq(s, 1, b)
<1>1. Len(s) \in Nat /\ 1 \in 1..Len(s) /\ 2 \in 1..Len(s)
  <2>1. Len(s) \in Nat
    BY LenProperties
  <2> QED BY <2>1
<1>2. s[1] \notin Space /\ s[2] \notin Space
  BY HeaderIs
<1>3. PICK a \in 1..Len(s), b \in 1..Len(s) :
        /\ a <= b /\ Strip(s) = SubSeq(s, a, b)
        /\ \A k \in 1..Len(s) : k < a \/ b < k => s[k] \in Space
  BY <1>1, <1>2, StripSlice
<1>4. ~(1 < a) /\ ~(b < 2)
  BY <1>1, <1>2, <1>3
<1>5. a = 1 /\ b \in 2..Len(s)
  BY <1>1, <1>4
<1> QED BY <1>3, <1>5

\* A block, if there is one, begins with the header.
LEMMA BlockIs ==
  ASSUME NEW s \in Seq(Chars), HeaderLines(s) # {}
  PROVE  /\ FirstHeader(s) \in HeaderLines(s) /\ FirstHeader(s) \in 1..(Len(s) - 1)
         /\ \A j \in HeaderLines(s) : FirstHeader(s) <= j
         /\ Block(s) \in Seq(Chars) /\ Len(Block(s)) >= 2
         /\ Block(s)[1] = "H" /\ Block(s)[2] = Colon
<1> DEFINE f == FirstHeader(s)
           t == SubSeq(s, f, Len(s))
<1>1. HeaderLines(s) \in SUBSET Nat /\ Len(s) \in Nat
  BY HeaderLinesAre, LenProperties
<1>2. f \in HeaderLines(s) /\ \A j \in HeaderLines(s) : f <= j
  BY <1>1, SmallestIs DEF FirstHeader
<1> HIDE DEF f
<1>3. f \in 1..(Len(s) - 1) /\ s[f] = "H" /\ s[f + 1] = Colon
  BY <1>2, HeaderLinesAre
<1>4. f \in Nat \ {0} /\ f < Len(s)
  BY <1>1, <1>3
<1>5. /\ t \in Seq(Chars) /\ Len(t) = Len(s) - f + 1
      /\ \A k \in 1..(Len(s) - f + 1) : t[k] = s[f + k - 1]
  BY <1>1, <1>4, Slice
<1>6. /\ 1 \in 1..(Len(s) - f + 1) /\ 2 \in 1..(Len(s) - f + 1)
      /\ f + 1 - 1 = f /\ f + 2 - 1 = f + 1 /\ Len(s) - f + 1 >= 2
  BY <1>1, <1>4
<1>7. Len(t) >= 2 /\ t[1] = "H" /\ t[2] = Colon
  BY <1>3, <1>5, <1>6
<1>8. Block(s) = Strip(t)
  BY DEF Block, f
<1> HIDE DEF t
<1>9. PICK b \in 2..Len(t) : Strip(t) = SubSeq(t, 1, b)
  BY <1>5, <1>7, StripKeepsHeader
<1>10. b \in Nat /\ 2 <= b /\ b <= Len(t)
  BY <1>1, <1>4, <1>5, <1>9
<1>11. /\ SubSeq(t, 1, b) \in Seq(Chars) /\ Len(SubSeq(t, 1, b)) = b - 1 + 1
       /\ \A k \in 1..(b - 1 + 1) : SubSeq(t, 1, b)[k] = t[1 + k - 1]
  BY <1>5, <1>10, Slice
<1>12. 1 \in 1..(b - 1 + 1) /\ 2 \in 1..(b - 1 + 1) /\ b - 1 + 1 >= 2 /\ 1 + 1 - 1 = 1 /\ 1 + 2 - 1 = 2
  BY <1>10
<1> QED BY <1>2, <1>3, <1>7, <1>8, <1>9, <1>11, <1>12 DEF f

-----------------------------------------------------------------------------
(* The parts of the finished text.                                         *)

LEMMA Single ==
  ASSUME NEW c \in Chars
  PROVE  /\ <<c>> \in Seq(Chars) /\ Len(<<c>>) = 1 /\ <<c>>[1] = c
         /\ \A W : Has(<<c>>, W) <=> c \in W
<1>1. <<c>> \in Seq(Chars) /\ Len(<<c>>) = 1 /\ <<c>>[1] = c /\ DOMAIN <<c>> = 1..1
  OBVIOUS
<1>2. \A i \in 1..1 : i = 1
  OBVIOUS
<1> QED BY <1>1, <1>2 DEF Has

LEMMA HasNothing == <<>> \in Seq(Chars) /\ \A W : ~Has(<<>>, W) /\ Words(<<>>, W) = <<>>
<1>1. <<>> \in Seq(Chars)
  BY EmptySeq
<1>2. \A W : ~Has(<<>>, W)
  BY DEF Has
<1> QED BY <1>1, <1>2, NoWords

\* A slice has what the text has there, and nothing else.
LEMMA HasSlice ==
  ASSUME NEW s \in Seq(Chars), NEW m \in Nat \ {0}, NEW n \in Nat, n <= Len(s)
  PROVE  /\ \A W : Has(SubSeq(s, m, n), W) => Has(s, W)
         /\ \A i \in m..n : Has(SubSeq(s, m, n), {s[i]})
<1> DEFINE l == IF m <= n THEN n - m + 1 ELSE 0
           t == SubSeq(s, m, n)
<1>1. /\ DOMAIN t = 1..l
      /\ \A k \in 1..(n - m + 1) : t[k] = s[m + k - 1]
  BY Slice
<1>2. DOMAIN s = 1..Len(s) /\ Len(s) \in Nat
  BY LenProperties
<1>3. \A k \in 1..l : k \in 1..(n - m + 1) /\ m + k - 1 \in 1..Len(s)
  BY <1>2
<1>4. \A i \in m..n : i - m + 1 \in 1..l /\ m + (i - m + 1) - 1 = i
  OBVIOUS
<1> HIDE DEF t, l
<1>5. \A W : Has(t, W) => Has(s, W)
  BY <1>1, <1>2, <1>3 DEF Has
<1>6. ASSUME NEW i \in m..n PROVE Has(t, {s[i]})
  <2>1. i - m + 1 \in 1..l /\ t[i - m + 1] = s[i]
    BY <1>1, <1>3, <1>4
  <2> QED BY <1>1, <2>1 DEF Has
<1> QED BY <1>5, <1>6 DEF t

\* The places of one token.
LEMMA AtIs ==
  ASSUME NEW s \in Seq(Chars), NEW w
  PROVE  /\ At(s, w) \in SUBSET Nat /\ At(s, w) = {i \in 1..Len(s) : s[i] = w}
         /\ At(s, w) = Places(s, {w})
         /\ At(s, w) # {} => Smallest(At(s, w)) \in At(s, w)
                             /\ \A j \in At(s, w) : Smallest(At(s, w)) <= j
<1>1. DOMAIN s = 1..Len(s) /\ Len(s) \in Nat
  BY LenProperties
<1>2. At(s, w) = {i \in 1..Len(s) : s[i] = w}
  BY <1>1 DEF At
<1>3. At(s, w) \in SUBSET Nat
  BY <1>1, <1>2
<1>4. At(s, w) = Places(s, {w})
  BY DEF At, Places
<1> HIDE DEF At
<1> QED BY <1>2, <1>3, <1>4, SmallestIs

\* What a reply brings along.
LEMMA ReplyIs ==
  ASSUME NEW r \in Replies
  PROVE  /\ r.customer \in Seq(Chars) /\ r.title \in Seq(Chars) /\ r.note \in Seq(Chars)
         /\ r.source \in Seq(Chars) /\ r.extracted \in Seq(Chars)
         /\ r.before \in Seq(Chars) /\ r.object \in Seq(Chars) /\ r.after \in Seq(Chars)
         /\ r.form # "object" => r.title = Absent /\ r.note = Absent
         /\ ~Has(r.customer, SourceWords) /\ ~Has(r.source, CustomerWords)
         /\ \A W \in {CustomerWords, SourceWords} :
              ~Has(r.title, W) /\ ~Has(r.note, W) /\ ~Has(r.extracted, W)
         /\ r.extracted # Absent =>
              /\ Len(r.extracted) >= 2 /\ r.extracted[1] = "H" /\ r.extracted[2] = Colon
              /\ \A i \in 1..Len(r.extracted) : r.extracted[i] = Colon => i = 2
         /\ IsPayload(r.object)
<1>1. /\ {r.customer, r.title, r.note, r.source, r.extracted,
          r.before, r.object, r.after} \subseteq Seq(STRING)
      /\ r.form # "object" => r.title = Absent /\ r.note = Absent
      /\ ~Has(r.customer, SourceWords) /\ ~Has(r.source, CustomerWords)
      /\ ~Has(r.title \o r.note \o r.extracted, CustomerWords \cup SourceWords)
      /\ r.extracted # Absent =>
           SubSeq(r.extracted, 1, 2) = Header /\ At(r.extracted, Colon) = {2}
      /\ IsPayload(r.object)
  BY PipelineAssumption
<1>2. STRING \subseteq Chars
  BY Zenon DEF Chars
<1>3. ASSUME NEW s \in Seq(STRING) PROVE s \in Seq(Chars)
  BY <1>2, SeqMonotonic
<1>4. /\ r.customer \in Seq(Chars) /\ r.title \in Seq(Chars) /\ r.note \in Seq(Chars)
      /\ r.source \in Seq(Chars) /\ r.extracted \in Seq(Chars)
      /\ r.before \in Seq(Chars) /\ r.object \in Seq(Chars) /\ r.after \in Seq(Chars)
  <2>1. /\ r.customer \in Seq(STRING) /\ r.title \in Seq(STRING) /\ r.note \in Seq(STRING)
        /\ r.source \in Seq(STRING) /\ r.extracted \in Seq(STRING)
        /\ r.before \in Seq(STRING) /\ r.object \in Seq(STRING) /\ r.after \in Seq(STRING)
    BY <1>1, Zenon
  <2> QED BY <1>3, <2>1, Zenon
<1>5. ASSUME NEW W \in {CustomerWords, SourceWords}
      PROVE  ~Has(r.title, W) /\ ~Has(r.note, W) /\ ~Has(r.extracted, W)
  <2> DEFINE V == CustomerWords \cup SourceWords
  <2>1. r.title \o r.note \in Seq(Chars)
    BY <1>4, Concat
  <2>2. Has(r.title \o r.note \o r.extracted, V) <=> Has(r.title \o r.note, V) \/ Has(r.extracted, V)
    BY <1>4, <2>1, HasConcat
  <2>3. Has(r.title \o r.note, V) <=> Has(r.title, V) \/ Has(r.note, V)
    BY <1>4, HasConcat
  <2>4. \A s : Has(s, W) => Has(s, V)
    BY DEF Has
  <2> QED BY <1>1, <2>2, <2>3, <2>4
<1>6. ASSUME r.extracted # Absent
      PROVE  /\ Len(r.extracted) >= 2 /\ r.extracted[1] = "H" /\ r.extracted[2] = Colon
             /\ \A i \in 1..Len(r.extracted) : r.extracted[i] = Colon => i = 2
  <2> DEFINE e == r.extracted
  <2>1. SubSeq(e, 1, 2) = Header /\ At(e, Colon) = {2} /\ e \in Seq(Chars)
    BY <1>1, <1>4, <1>6
  <2> HIDE DEF e
  <2>2. {i \in 1..Len(e) : e[i] = Colon} = {2} /\ Len(e) \in Nat
    BY <2>1, AtIs, LenProperties
  <2>3. 2 \in 1..Len(e) /\ e[2] = Colon /\ \A i \in 1..Len(e) : e[i] = Colon => i = 2
    BY <2>2
  <2>4. 1 \in 1..(Len(e) - 1) /\ SubSeq(e, 1, 1 + 1) = Header /\ Len(e) >= 2
    BY <2>1, <2>2, <2>3
  <2>5. e[1] = "H"
    BY <2>1, <2>4, PairIs
  <2> QED BY <2>3, <2>4, <2>5 DEF e
<1> QED BY <1>1, <1>4, <1>5, <1>6

\* The prefix comes from the source, has something in it, and of the source's
\* words it has those before the first number sign.
LEMMA PrefixIs ==
  ASSUME NEW s \in Seq(Chars)
  PROVE  /\ Prefix(s) \in Seq(Chars)
         /\ \A W : Blank \notin W /\ Has(Prefix(s), W) => Has(s, W)
         /\ Prefix(s) # Absent =>
              /\ 1 \in 1..Len(Prefix(s)) /\ Prefix(s)[1] \notin Space
              /\ Words(Prefix(s), SourceWords) =
                   Words(SubSeq(s, 1, Smallest(At(s, "#")) - 1), SourceWords)
<1>0. Len(s) \in Nat
  BY LenProperties
<1>1. CASE Markers(s) = {}
  BY <1>1, HasNothing DEF Prefix, Absent
<1>2. CASE Markers(s) # {}
  <2> DEFINE k == Smallest(Markers(s))
             p == SubSeq(s, 1, k)
             signs == At(p, "#")
             last == CHOOSE i \in signs : \A j \in signs : j <= i
             f == Smallest(signs)
             front == SubSeq(s, 1, f - 1)
             back == SubSeq(s, last, k)
  <2>1. Prefix(s) = Strip(Strip(front) \o <<Blank>> \o back)
    BY <1>2, Zenon DEF Prefix, Blank
  <2>2. k \in Markers(s)
    <3>1. Markers(s) \in SUBSET Nat
      BY AtIs DEF Markers
    <3> QED BY <1>2, <3>1, SmallestIs
  <2> HIDE DEF k
  <2>3. /\ k \in 1..Len(s) /\ s[k] = Marker
        /\ \E h \in At(s, "#") : h < k /\ \A j \in (h + 1)..(k - 1) : s[j] \in Space
    <3>1. k \in At(s, Marker)
      BY <2>2 DEF Markers
    <3>2. k \in 1..Len(s) /\ s[k] = Marker
      <4>1. At(s, Marker) = {i \in 1..Len(s) : s[i] = Marker}
        BY AtIs
      <4> QED BY <3>1, <4>1
    <3> QED BY <2>2, <3>2 DEF Markers
  <2>4. PICK h \in 1..Len(s) : s[h] = "#" /\ h < k /\ \A j \in (h + 1)..(k - 1) : s[j] \in Space
    <3>1. At(s, "#") = {i \in 1..Len(s) : s[i] = "#"}
      BY AtIs
    <3> QED BY <2>3, <3>1
  <2>5. k \in Nat \ {0} /\ k <= Len(s) /\ h \in Nat \ {0} /\ h < k
    BY <1>0, <2>3, <2>4
  <2>6. p \in Seq(Chars) /\ Len(p) = k /\ \A i \in 1..k : p[i] = s[i]
    <3>1. (IF 1 <= k THEN k - 1 + 1 ELSE 0) = k /\ k - 1 + 1 = k /\ \A i \in 1..k : 1 + i - 1 = i
      BY <2>5
    <3> QED BY <2>5, <3>1, Slice
  <2>7. /\ signs = {i \in 1..k : s[i] = "#"} /\ h \in signs
        /\ signs \in SUBSET Nat /\ signs \in SUBSET (0..k)
    <3>1. signs = {i \in 1..k : p[i] = "#"}
      BY <2>6, AtIs
    <3>2. signs = {i \in 1..k : s[i] = "#"}
      BY <2>6, <3>1
    <3>3. h \in 1..k
      BY <2>5
    <3> HIDE DEF signs
    <3>4. h \in signs /\ signs \in SUBSET Nat /\ signs \in SUBSET (0..k)
      BY <2>4, <2>5, <3>2, <3>3
    <3> QED BY <3>2, <3>4
  <2> HIDE DEF signs
  <2>8. last = h
    <3>1. last \in signs /\ \A j \in signs : j <= last
      <4>1. \E i \in signs : \A j \in signs : j <= i
        BY <2>5, <2>7, Greatest
      <4> QED BY <4>1
    <3> HIDE DEF last
    <3>2. last \in 1..k /\ s[last] = "#" /\ h <= last
      BY <2>7, <3>1
    <3>3. "#" # Marker /\ "#" \notin Space
      BY Zenon DEF Marker, Space
    <3>4. last # k
      BY <2>3, <3>2, <3>3
    <3>5. ~(last \in (h + 1)..(k - 1))
      BY <2>4, <3>2, <3>3
    <3> QED BY <2>5, <3>2, <3>4, <3>5
  <2>9. f \in signs /\ \A j \in signs : f <= j
    BY <2>7, SmallestIs
  <2>10. f = Smallest(At(s, "#"))
    <3> DEFINE g == Smallest(At(s, "#"))
    <3>1. /\ At(s, "#") = {i \in 1..Len(s) : s[i] = "#"}
          /\ At(s, "#") # {} => g \in At(s, "#") /\ \A j \in At(s, "#") : g <= j
      BY AtIs
    <3> HIDE DEF g, f
    <3>2. f \in 1..k /\ s[f] = "#" /\ f <= h
      BY <2>7, <2>9
    <3>3. f \in 1..Len(s)
      BY <1>0, <2>5, <3>2
    <3>4. g \in 1..Len(s) /\ s[g] = "#" /\ g <= f
      BY <3>1, <3>2, <3>3
    <3>5. g \in 1..k
      BY <1>0, <2>5, <3>2, <3>4
    <3>6. f <= g
      BY <2>7, <2>9, <3>4, <3>5
    <3> QED BY <1>0, <3>2, <3>3, <3>4, <3>6 DEF g
  <2> HIDE DEF last, f
  <2>11. f \in Nat \ {0} /\ f - 1 \in Nat /\ f - 1 <= Len(s)
    <3>1. f \in 1..k
      BY <2>7, <2>9
    <3> QED BY <1>0, <2>5, <3>1
  <2>12. /\ front \in Seq(Chars) /\ back \in Seq(Chars) /\ Strip(front) \in Seq(Chars)
         /\ \A W : Has(front, W) => Has(s, W)
         /\ \A W : Has(back, W) => Has(s, W)
    <3>1. front \in Seq(Chars) /\ \A W : Has(front, W) => Has(s, W)
      BY <1>0, <2>11, Slice, HasSlice
    <3>2. back \in Seq(Chars) /\ \A W : Has(back, W) => Has(s, W)
      BY <1>0, <2>5, <2>8, Slice, HasSlice
    <3> HIDE DEF front
    <3> QED BY <3>1, <3>2, StripIs
  <2>13. ~Has(back, SourceWords)
    <3>1. /\ DOMAIN back = 1..(k - h + 1)
          /\ \A i \in 1..(k - h + 1) : back[i] = s[h + i - 1]
      BY <1>0, <2>5, <2>8, Slice
    <3>2. \A i \in 1..(k - h + 1) :
            h + i - 1 = h \/ h + i - 1 = k \/ h + i - 1 \in (h + 1)..(k - 1)
      BY <2>5
    <3> HIDE DEF back
    <3>3. \A i \in 1..(k - h + 1) : back[i] = "#" \/ back[i] = Marker \/ back[i] \in Space
      BY <2>3, <2>4, <3>1, <3>2
    <3>4. "#" \notin SourceWords /\ Marker \notin SourceWords /\ SourceWords \cap Space = {}
      BY Zenon DEF SourceWords, Marker, Space
    <3> QED BY <3>1, <3>3, <3>4 DEF Has
  <2> HIDE DEF front, back
  <2> DEFINE b == <<Blank>>
             x == Strip(front) \o b
             y == x \o back
  <2>14. b \in Seq(Chars) /\ \A W : Has(b, W) <=> Blank \in W
    <3>1. Blank \in Chars
      BY Zenon DEF Blank, Chars
    <3> QED BY <3>1, Single
  <2>15. x \in Seq(Chars) /\ y \in Seq(Chars)
    <3> HIDE DEF b
    <3>1. x \in Seq(Chars)
      BY <2>12, <2>14, Concat
    <3> HIDE DEF x
    <3> QED BY <2>12, <3>1, Concat
  <2>16. Prefix(s) = Strip(y)
    BY <2>1
  <2> HIDE DEF b
  <2>17. ASSUME NEW W, Blank \notin W, Has(Strip(y), W) PROVE Has(s, W)
    <3>1. Has(y, W)
      BY <2>15, <2>17, StripHas
    <3>2. Has(x, W) \/ Has(back, W)
      <4> HIDE DEF x
      <4> QED BY <2>12, <2>15, <3>1, HasConcat
    <3>3. Has(x, W) => Has(Strip(front), W) \/ Has(b, W)
      BY <2>12, <2>14, HasConcat
    <3>4. Has(Strip(front), W) => Has(front, W)
      BY <2>12, StripHas
    <3> QED BY <2>12, <2>14, <2>17, <3>2, <3>3, <3>4
  <2>18. Words(Strip(y), SourceWords) = Words(front, SourceWords)
    <3>1. SourceWords \cap Space = {} /\ Blank \notin SourceWords
      BY Zenon DEF SourceWords, Space, Blank
    <3>2. /\ Words(Strip(y), SourceWords) = Words(y, SourceWords)
          /\ Words(Strip(front), SourceWords) = Words(front, SourceWords)
      BY <2>12, <2>15, <3>1, StripWords
    <3>3. Words(x, SourceWords) = Words(Strip(front), SourceWords) \o Words(b, SourceWords)
      <4>1. Strip(front) \in Seq(Chars) /\ b \in Seq(Chars)
        BY <2>12, <2>14
      <4> QED BY <4>1, WordsConcat
    <3>4. Words(y, SourceWords) = Words(x, SourceWords) \o Words(back, SourceWords)
      <4> HIDE DEF x
      <4>1. x \in Seq(Chars) /\ back \in Seq(Chars)
        BY <2>12, <2>15
      <4> QED BY <4>1, WordsConcat
    <3>5. Words(b, SourceWords) = <<>> /\ Words(back, SourceWords) = <<>>
      BY <2>12, <2>13, <2>14, <3>1, NoWords
    <3>6. Words(front, SourceWords) \in Seq(Chars)
      BY <2>12, WordsAre
    <3>7. Words(front, SourceWords) \o <<>> = Words(front, SourceWords)
      BY <3>6, ConcatEmptySeq
    <3> HIDE DEF x, y
    <3> QED BY <3>2, <3>3, <3>4, <3>5, <3>7
  <2> HIDE DEF y
  <2>19. Strip(y) \in Seq(Chars)
         /\ (Strip(y) # <<>> => 1 \in 1..Len(Strip(y)) /\ Strip(y)[1] \notin Space)
    BY <2>15, StripIs
  <2> QED BY <2>10, <2>16, <2>17, <2>18, <2>19 DEF Absent, front
<1> QED BY <1>1, <1>2

\* What the validator makes of a reply are texts.
LEMMA VerifiedIs ==
  ASSUME NEW r \in Replies
  PROVE  Title(r) \in Seq(Chars) /\ Description(r) \in Seq(Chars)
<1>1. r.customer \in Seq(Chars) /\ r.title \in Seq(Chars) /\ Len(r.customer) \in Nat
  BY ReplyIs, LenProperties
<1> DEFINE c == r.customer
           f == FirstColon(c)
<1>2. CASE r.form = "object"
  BY <1>1, <1>2 DEF Title, Description
<1>3. CASE r.form # "object" /\ Colons(c) = {}
  <2>1. Title(r) = Strip(c) /\ Description(r) = Strip(c)
    BY <1>3 DEF Title, Description
  <2> QED BY <1>1, <2>1, StripIs
<1>4. CASE r.form # "object" /\ Colons(c) # {}
  <2>1. /\ Title(r) = Strip(SubSeq(c, 1, f - 1))
        /\ Description(r) = Strip(SubSeq(c, f + 1, Len(c)))
    BY <1>4 DEF Title, Description
  <2>2. f \in 1..Len(c)
    BY <1>1, <1>4, AtIs DEF Colons, FirstColon
  <2>3. f - 1 \in Nat /\ f - 1 <= Len(c) /\ f + 1 \in Nat \ {0}
    BY <1>1, <2>2
  <2> HIDE DEF f, c
  <2>4. SubSeq(c, 1, f - 1) \in Seq(Chars) /\ SubSeq(c, f + 1, Len(c)) \in Seq(Chars)
    BY <1>1, <2>3, Slice DEF c
  <2> QED BY <2>1, <2>4, StripIs
<1> QED BY <1>2, <1>3, <1>4

\* What the validator cuts out of a reply has none of the source's words, and the
\* title has of the customer's those before the colon, or all if there is none.
LEMMA VerifiedHas ==
  ASSUME NEW r \in Replies
  PROVE  /\ ~Has(Title(r), SourceWords) /\ ~Has(Description(r), SourceWords)
         /\ Words(Title(r), CustomerWords) =
              IF r.form = "object" THEN <<>>
              ELSE IF Colons(r.customer) = {} THEN Words(r.customer, CustomerWords)
              ELSE Words(SubSeq(r.customer, 1, FirstColon(r.customer) - 1), CustomerWords)
<1> DEFINE c == r.customer
           f == FirstColon(c)
           C == CustomerWords
           S == SourceWords
<1>1. /\ c \in Seq(Chars) /\ r.title \in Seq(Chars) /\ Len(c) \in Nat
      /\ ~Has(c, S) /\ ~Has(r.title, C) /\ ~Has(r.title, S)
  BY ReplyIs, LenProperties
<1>2. C \cap Space = {} /\ S \cap Space = {}
  BY Zenon DEF CustomerWords, SourceWords, Space
<1>3. CASE r.form = "object"
  <2>1. Title(r) = r.title /\ Description(r) = c
    BY <1>3 DEF Title, Description
  <2> QED BY <1>1, <1>3, <2>1, NoWords
<1>4. CASE r.form # "object" /\ Colons(c) = {}
  <2>1. Title(r) = Strip(c) /\ Description(r) = Strip(c)
    BY <1>4 DEF Title, Description
  <2> HIDE DEF C, S
  <2>2. ~Has(Strip(c), S) /\ Words(Strip(c), C) = Words(c, C)
    BY <1>1, <1>2, StripHas, StripWords
  <2> QED BY <1>4, <2>1, <2>2 DEF C, S
<1>5. CASE r.form # "object" /\ Colons(c) # {}
  <2> DEFINE s == SubSeq(c, 1, f - 1)
             t == SubSeq(c, f + 1, Len(c))
  <2>1. Title(r) = Strip(s) /\ Description(r) = Strip(t)
    BY <1>5 DEF Title, Description
  <2>2. f \in 1..Len(c)
    BY <1>1, <1>5, AtIs DEF Colons, FirstColon
  <2>3. /\ f - 1 \in Nat /\ f - 1 <= Len(c) /\ f + 1 \in Nat \ {0} /\ 1 \in Nat \ {0}
        /\ Len(c) \in Nat /\ Len(c) <= Len(c)
    BY <1>1, <2>2
  <2> HIDE DEF f, C, S
  <2>4. s \in Seq(Chars) /\ t \in Seq(Chars) /\ ~Has(s, S) /\ ~Has(t, S)
    BY <1>1, <2>3, Slice, HasSlice
  <2> HIDE DEF s, t
  <2>5. ~Has(Strip(s), S) /\ ~Has(Strip(t), S) /\ Words(Strip(s), C) = Words(s, C)
    BY <1>2, <2>4, StripHas, StripWords
  <2> QED BY <1>5, <2>1, <2>5 DEF s, f, C, S
<1> QED BY <1>3, <1>4, <1>5

\* The headers of a text are those of what it is normalized to.
LEMMA HeadersAre ==
  ASSUME NEW d \in Seq(Chars)
  PROVE  Headers(d) = HeaderLines(Normalize(d))
<1> DEFINE N == Normalize(d)
           Open(i) == \A k \in 1..(i - 1) :
                        d[k] \in {Blank, Nbsp} \/ \E b \in k..(i - 1) : d[b] \in {"\n", "<br>"}
<1>1. Headers(d) = {i \in 1..(Len(d) - 1) : SubSeq(d, i, i + 1) = Header /\ Open(i)}
  BY Zenon DEF Headers, Blank, Nbsp
<1>2. /\ N \in Seq(Chars) /\ Len(N) = Len(d) /\ Len(d) \in Nat
      /\ \A i \in 1..Len(d) : N[i] = IF d[i] = "<br>" THEN "\n"
                                      ELSE IF d[i] = Nbsp THEN Blank ELSE d[i]
  BY NormalizeIs, LenProperties
<1>3. /\ Blank # "\n" /\ Nbsp # "<br>" /\ Nbsp # "\n" /\ Blank # "<br>"
      /\ "H" \notin {"\n", "<br>", Nbsp, Blank} /\ Colon \notin {"\n", "<br>", Nbsp, Blank}
  BY Zenon DEF Blank, Nbsp, Colon
<1> HIDE DEF N
<1>4. \A i \in 1..Len(d) : /\ N[i] = "\n" <=> d[i] \in {"\n", "<br>"}
                           /\ N[i] = Blank <=> d[i] \in {Blank, Nbsp}
                           /\ N[i] = "H" <=> d[i] = "H"
                           /\ N[i] = Colon <=> d[i] = Colon
  BY <1>2, <1>3
<1>5. \A i \in 1..(Len(d) - 1) : SubSeq(d, i, i + 1) = Header <=> N[i] = "H" /\ N[i + 1] = Colon
  <2> SUFFICES ASSUME NEW i \in 1..(Len(d) - 1)
      PROVE SubSeq(d, i, i + 1) = Header <=> N[i] = "H" /\ N[i + 1] = Colon
    OBVIOUS
  <2>1. i \in 1..Len(d) /\ i + 1 \in 1..Len(d)
    BY <1>2
  <2> QED BY <1>4, <2>1, PairIs
<1>6. ASSUME NEW i \in 1..(Len(d) - 1), Open(i) PROVE LineStart(N, i)
  <2> DEFINE B == {b \in 1..(i - 1) : N[b] = "\n"}
  <2>0. i \in Nat /\ \A k \in 1..(i - 1) : k \in 1..Len(d)
    BY <1>2
  <2>1. CASE B = {}
    <3>1. ASSUME NEW k \in 1..(i - 1) PROVE N[k] = Blank
      <4>1. ~ \E b \in k..(i - 1) : d[b] \in {"\n", "<br>"}
        <5>1. \A b \in k..(i - 1) : b \in 1..(i - 1)
          BY <2>0
        <5> QED BY <1>4, <2>0, <2>1, <5>1
      <4>2. d[k] \in {Blank, Nbsp}
        BY <1>6, <4>1
      <4> QED BY <1>4, <2>0, <4>2
    <3>2. 0 \in 0..(i - 1) /\ ~(0 > 0) /\ 0 + 1 = 1
      BY <2>0
    <3> QED BY <3>1, <3>2 DEF LineStart
  <2>2. CASE B # {}
    <3>1. B \in SUBSET (0..(i - 1)) /\ i - 1 \in Nat
      BY <2>0
    <3>2. PICK b \in B : \A c \in B : c <= b
      BY <2>2, <3>1, Greatest
    <3>3. b \in 0..(i - 1) /\ N[b] = "\n"
      BY <3>1
    <3>4. ASSUME NEW k \in (b + 1)..(i - 1) PROVE N[k] = Blank
      <4>1. k \in 1..(i - 1) /\ \A c \in k..(i - 1) : c \in 1..(i - 1) /\ ~(c <= b)
        BY <2>0, <3>3
      <4>2. \A c \in k..(i - 1) : c \notin B
        BY <3>2, <4>1
      <4>3. \A c \in k..(i - 1) : d[c] \notin {"\n", "<br>"}
        BY <1>4, <2>0, <4>1, <4>2
      <4>4. d[k] \in {Blank, Nbsp}
        BY <1>6, <4>1, <4>3
      <4> QED BY <1>4, <2>0, <4>1, <4>4
    <3> QED BY <3>3, <3>4 DEF LineStart
  <2> QED BY <2>1, <2>2
<1>7. ASSUME NEW i \in 1..(Len(d) - 1), LineStart(N, i) PROVE Open(i)
  <2>0. i \in Nat /\ \A k \in 1..(i - 1) : k \in 1..Len(d)
    BY <1>2
  <2>1. PICK b \in 0..(i - 1) : /\ b > 0 => N[b] = "\n"
                                /\ \A k \in (b + 1)..(i - 1) : N[k] = Blank
    BY <1>7 DEF LineStart
  <2>2. ASSUME NEW k \in 1..(i - 1)
        PROVE  d[k] \in {Blank, Nbsp} \/ \E c \in k..(i - 1) : d[c] \in {"\n", "<br>"}
    <3>1. CASE b < k
      <4>1. k \in (b + 1)..(i - 1)
        BY <2>0, <3>1
      <4> QED BY <1>4, <2>0, <2>1, <4>1
    <3>2. CASE k <= b
      <4>1. b \in k..(i - 1) /\ b > 0 /\ b \in 1..(i - 1)
        BY <2>0, <3>2
      <4> QED BY <1>4, <2>0, <2>1, <4>1
    <3> QED BY <2>0, <3>1, <3>2
  <2> QED BY <2>2
<1> HIDE DEF Open
<1>8. Headers(d) = {i \in 1..(Len(N) - 1) : N[i] = "H" /\ N[i + 1] = Colon /\ LineStart(N, i)}
  BY <1>1, <1>2, <1>5, <1>6, <1>7
<1> QED BY <1>2, <1>8, HeaderLinesAre DEF N

\* The finished text: a version block on lines of its own, what leads the body,
\* the body, and the notice.
Plain(r) == Normalize(Description(r))
TheBlock(r) == VersionBlock(Plain(r), r.extracted)
Front(r) == IF TheBlock(r) = Absent THEN <<>> ELSE TheBlock(r) \o <<"\n">>
LeadIn(r) ==
  IF Prefix(r.source) # Absent
  THEN IF Body(Plain(r)) = Absent THEN Prefix(r.source) ELSE Prefix(r.source) \o <<Blank>>
  ELSE IF Title(r) = Absent THEN <<>> ELSE Title(r) \o <<Colon>>
Intro == <<"\n", "notice", Colon>>
Notice(r) == IF r.note = Absent THEN <<>> ELSE Intro \o Normalize(r.note)

Finished(r) == (Front(r) \o LeadIn(r)) \o (Body(Plain(r)) \o Notice(r))

LEMMA IntroIs == /\ Intro \in Seq(Chars) /\ Len(Intro) = 3
                 /\ Intro[1] = "\n" /\ Intro[2] = "notice" /\ Intro[3] = Colon
                 /\ \A W : Has(Intro, W) <=> "\n" \in W \/ "notice" \in W \/ Colon \in W
<1>1. "\n" \in Chars /\ "notice" \in Chars /\ Colon \in Chars
  BY DEF Chars
<1>2. /\ Intro \in Seq(Chars) /\ Len(Intro) = 3 /\ DOMAIN Intro = 1..3
      /\ Intro[1] = "\n" /\ Intro[2] = "notice" /\ Intro[3] = Colon
  BY <1>1 DEF Intro
<1>3. \A i \in 1..3 : i = 1 \/ i = 2 \/ i = 3
  OBVIOUS
<1>4. ASSUME NEW W PROVE Has(Intro, W) <=> "\n" \in W \/ "notice" \in W \/ Colon \in W
  BY <1>2, <1>3 DEF Has
<1> QED BY <1>2, <1>4

LEMMA PartsAre ==
  ASSUME NEW r \in Replies
  PROVE  /\ Plain(r) \in Seq(Chars) /\ Body(Plain(r)) \in Seq(Chars)
         /\ TheBlock(r) \in Seq(Chars) /\ Front(r) \in Seq(Chars)
         /\ LeadIn(r) \in Seq(Chars) /\ Notice(r) \in Seq(Chars)
         /\ Front(r) \o LeadIn(r) \in Seq(Chars)
         /\ Body(Plain(r)) \o Notice(r) \in Seq(Chars) /\ Finished(r) \in Seq(Chars)
<1>0. "\n" \in Chars /\ Colon \in Chars /\ Blank \in Chars
  BY Zenon DEF Chars, Blank
<1>1. Plain(r) \in Seq(Chars)
  BY VerifiedIs, NormalizeIs DEF Plain
<1>2. Body(Plain(r)) \in Seq(Chars)
  BY <1>1, BodyHasNoHeader
<1>3. TheBlock(r) \in Seq(Chars)
  <2>1. Block(Plain(r)) \in Seq(Chars)
    <3>1. CASE HeaderLines(Plain(r)) = {}
      BY <3>1, HasNothing DEF Block, Absent
    <3>2. CASE HeaderLines(Plain(r)) # {}
      BY <1>1, <3>2, BlockIs
    <3> QED BY <3>1, <3>2
  <2> QED BY <2>1, ReplyIs DEF TheBlock, VersionBlock
<1>4. Front(r) \in Seq(Chars)
  BY <1>0, <1>3, Single, Concat, HasNothing DEF Front
<1>5. LeadIn(r) \in Seq(Chars)
  <2>1. Title(r) \in Seq(Chars) /\ Prefix(r.source) \in Seq(Chars)
    BY VerifiedIs, ReplyIs, PrefixIs
  <2>2. Title(r) \o <<Colon>> \in Seq(Chars) /\ Prefix(r.source) \o <<Blank>> \in Seq(Chars)
    BY <1>0, <2>1, Single, Concat
  <2> QED BY <2>1, <2>2, HasNothing DEF LeadIn
<1>6. Notice(r) \in Seq(Chars)
  <2>1. Normalize(r.note) \in Seq(Chars)
    BY ReplyIs, NormalizeIs
  <2>2. Intro \o Normalize(r.note) \in Seq(Chars)
    BY <2>1, IntroIs, Concat
  <2> QED BY <2>2, HasNothing DEF Notice
<1>7. Front(r) \o LeadIn(r) \in Seq(Chars) /\ Body(Plain(r)) \o Notice(r) \in Seq(Chars)
  BY <1>2, <1>4, <1>5, <1>6, Concat
<1>8. Finished(r) \in Seq(Chars)
  BY <1>7, Concat DEF Finished
<1> QED BY <1>1, <1>2, <1>3, <1>4, <1>5, <1>6, <1>7, <1>8

\* What _finish makes of the verified parts.
LEMMA FinishedIs ==
  ASSUME NEW r \in Replies
  PROVE  LET line == IF Prefix(r.source) # Absent
                     THEN PrefixLine(Prefix(r.source), Body(Plain(r)))
                     ELSE OutputLine(Title(r), Body(Plain(r)))
         IN  Prepend(TheBlock(r), line)
               \o (IF r.note = Absent THEN <<>>
                   ELSE <<"\n", "notice", Colon>> \o Normalize(r.note)) = Finished(r)
<1> DEFINE p == Prefix(r.source)
           d == Body(Plain(r))
           t == Title(r)
           line == IF p # Absent THEN PrefixLine(p, d) ELSE OutputLine(t, d)
<1>1. /\ d \in Seq(Chars) /\ TheBlock(r) \in Seq(Chars) /\ LeadIn(r) \in Seq(Chars)
      /\ Front(r) \in Seq(Chars) /\ Notice(r) \in Seq(Chars)
  BY PartsAre
<1>2. p \in Seq(Chars) /\ t \in Seq(Chars)
  BY ReplyIs, VerifiedIs, PrefixIs
<1>3. /\ <<"\n">> \in Seq(Chars) /\ <<Blank>> \in Seq(Chars) /\ <<Colon>> \in Seq(Chars)
  <2>1. "\n" \in Chars /\ Colon \in Chars /\ Blank \in Chars
    BY Zenon DEF Chars, Blank
  <2> QED BY <2>1, Single
<1>4. PrefixLine(p, d) = IF d = <<>> THEN p ELSE p \o <<Blank>> \o d
  BY Zenon DEF PrefixLine, Absent, Blank
<1>5. OutputLine(t, d) = IF t = <<>> THEN d ELSE t \o <<Colon>> \o d
  BY Zenon DEF OutputLine, Absent
<1>6. LeadIn(r) = IF p # <<>> THEN (IF d = <<>> THEN p ELSE p \o <<Blank>>)
                  ELSE IF t = <<>> THEN <<>> ELSE t \o <<Colon>>
  BY Zenon DEF LeadIn, Absent
<1> HIDE DEF p, d, t
<1>7. d \o <<>> = d /\ p \o <<>> = p /\ <<>> \o d = d
  BY <1>1, <1>2, ConcatEmptySeq
<1>8. line = LeadIn(r) \o d
  BY <1>4, <1>5, <1>6, <1>7 DEF Absent
<1> HIDE DEF line
<1>9. Prepend(TheBlock(r), line) = Front(r) \o (LeadIn(r) \o d)
  <2>1. line \in Seq(Chars)
    BY <1>1, <1>8, Concat
  <2>2. <<>> \o line = line
    BY <2>1, ConcatEmptySeq
  <2>3. Prepend(TheBlock(r), line) = Front(r) \o line
    BY <2>2 DEF Prepend, Front
  <2> QED BY <1>8, <2>3
<1>10. (Front(r) \o (LeadIn(r) \o d)) \o Notice(r) = (Front(r) \o LeadIn(r)) \o (d \o Notice(r))
  <2>1. LeadIn(r) \o d \in Seq(Chars) /\ d \o Notice(r) \in Seq(Chars)
    BY <1>1, Concat
  <2>2. (Front(r) \o (LeadIn(r) \o d)) \o Notice(r) = Front(r) \o ((LeadIn(r) \o d) \o Notice(r))
    BY <1>1, <2>1, ConcatAssociative
  <2>3. (LeadIn(r) \o d) \o Notice(r) = LeadIn(r) \o (d \o Notice(r))
    BY <1>1, ConcatAssociative
  <2>4. (Front(r) \o LeadIn(r)) \o (d \o Notice(r)) = Front(r) \o (LeadIn(r) \o (d \o Notice(r)))
    BY <1>1, <2>1, ConcatAssociative
  <2> QED BY <2>2, <2>3, <2>4
<1>11. Prepend(TheBlock(r), line) \o Notice(r) = Finished(r)
  BY <1>9, <1>10 DEF Finished, d
<1> QED BY <1>11, Zenon DEF line, p, d, t, Notice, Intro

\* Whatever a part has, the whole has, and the other way round.
LEMMA FinishedHas ==
  ASSUME NEW r \in Replies, NEW W
  PROVE  Has(Finished(r), W) <=>
           Has(Front(r), W) \/ Has(LeadIn(r), W) \/ Has(Body(Plain(r)), W) \/ Has(Notice(r), W)
<1> DEFINE a == Front(r)
           b == LeadIn(r)
           c == Body(Plain(r))
           d == Notice(r)
<1>1. /\ a \in Seq(Chars) /\ b \in Seq(Chars) /\ c \in Seq(Chars) /\ d \in Seq(Chars)
      /\ a \o b \in Seq(Chars) /\ c \o d \in Seq(Chars)
  BY PartsAre
<1>2. Finished(r) = (a \o b) \o (c \o d)
  BY DEF Finished
<1> HIDE DEF a, b, c, d
<1>3. Has((a \o b) \o (c \o d), W) <=> Has(a \o b, W) \/ Has(c \o d, W)
  BY <1>1, HasConcat
<1>4. Has(a \o b, W) <=> Has(a, W) \/ Has(b, W)
  BY <1>1, HasConcat
<1>5. Has(c \o d, W) <=> Has(c, W) \/ Has(d, W)
  BY <1>1, HasConcat
<1> QED BY <1>2, <1>3, <1>4, <1>5 DEF a, b, c, d

-----------------------------------------------------------------------------
(* The steps of the pipeline.                                              *)

Whole(r) == r.before \o r.object \o r.after

\* What each stage has made of the reply.
PipeInv ==
  /\ reply \in Replies
  /\ stage \in {"received", "replied", "unreadable", "verified", "refused",
                "answered", "kept", "blank"}
  /\ stage = "unreadable" => ~HasPayload(Whole(reply))
  /\ stage \in {"verified", "answered", "kept", "blank"} => Description(reply) # <<>>
  /\ stage = "verified" =>
       title = Title(reply) /\ description = Description(reply) /\ note = reply.note
  /\ stage = "answered" => answer = Finished(reply)
  /\ stage = "kept" => answer = Strip(Finished(reply)) /\ answer # <<>>
  /\ stage = "blank" => Strip(Finished(reply)) = <<>>

LEMMA PipeSteps == Spec => []PipeInv
<1>1. Init => PipeInv
  BY DEF Init, PipeInv
<1>2. ASSUME PipeInv, [Next]_vars PROVE PipeInv'
  <2>1. CASE Extract
    BY <1>2, <2>1 DEF Extract, PipeInv, Whole
  <2>2. CASE Verify
    BY <1>2, <2>2 DEF Verify, Valid, PipeInv
  <2>3. CASE Refuse
    BY <1>2, <2>3 DEF Refuse, PipeInv
  <2>4. CASE Finish
    <3>1. /\ stage = "verified" /\ stage' = "answered" /\ reply' = reply
          /\ title = Title(reply) /\ description = Description(reply) /\ note = reply.note
          /\ reply \in Replies
      BY <1>2, <2>4 DEF Finish, PipeInv
    <3>2. answer' = Finished(reply)
      <4>1. answer' =
              LET line == IF Prefix(reply.source) # Absent
                          THEN PrefixLine(Prefix(reply.source), Body(Plain(reply)))
                          ELSE OutputLine(Title(reply), Body(Plain(reply)))
              IN  Prepend(TheBlock(reply), line)
                    \o (IF reply.note = Absent THEN <<>>
                        ELSE <<"\n", "notice", Colon>> \o Normalize(reply.note))
        BY <2>4, <3>1, Zenon DEF Finish, Plain, TheBlock
      <4> QED BY <3>1, <4>1, FinishedIs, Zenon
    <3> QED BY <1>2, <3>1, <3>2 DEF PipeInv
  <2>5. CASE Take
    <3>1. stage = "answered" /\ reply' = reply /\ answer = Finished(reply) /\ reply \in Replies
      BY <1>2, <2>5 DEF Take, PipeInv
    <3>2. /\ answer' = Strip(answer)
          /\ stage' = IF Strip(answer) = <<>> THEN "blank" ELSE "kept"
      BY <2>5 DEF Take
    <3> QED BY <1>2, <3>1, <3>2 DEF PipeInv
  <2>6. CASE UNCHANGED vars
    BY <1>2, <2>6 DEF vars, PipeInv
  <2> QED BY <1>2, <2>1, <2>2, <2>3, <2>4, <2>5, <2>6 DEF Next
<1> QED BY <1>1, <1>2, PTL DEF Spec

\* What strip leaves nothing of has no parts but a description of fillers.
LEMMA NothingIsShown ==
  ASSUME NEW r \in Replies, Strip(Finished(r)) = <<>>
  PROVE  /\ Title(r) = Absent /\ r.note = Absent
         /\ Prefix(r.source) = Absent /\ r.extracted = Absent
         /\ \A i \in 1..Len(Description(r)) : Description(r)[i] \in Fillers
<1>2. /\ Plain(r) \in Seq(Chars) /\ TheBlock(r) \in Seq(Chars) /\ Finished(r) \in Seq(Chars)
  BY PartsAre
<1>3. /\ r.extracted \in Seq(Chars) /\ r.source \in Seq(Chars)
      /\ r.note \in Seq(Chars)
  BY ReplyIs
<1>4. Title(r) \in Seq(Chars) /\ Description(r) \in Seq(Chars) /\ Prefix(r.source) \in Seq(Chars)
  BY <1>3, VerifiedIs, PrefixIs
<1>5. ASSUME NEW W, W \cap Space = {}
      PROVE  ~Has(Front(r), W) /\ ~Has(LeadIn(r), W) /\ ~Has(Body(Plain(r)), W) /\ ~Has(Notice(r), W)
  <2>1. ~Has(Finished(r), W)
    BY <1>2, <1>5, HasNothing, StripHas
  <2> QED BY <2>1, FinishedHas
<1>6. "notice" \notin Space /\ Colon \notin Space /\ "H" \notin Space
  BY Zenon DEF Space, Colon
<1>7. r.note = Absent
  <2> SUFFICES ASSUME r.note # Absent PROVE FALSE
    OBVIOUS
  <2>1. Notice(r) = Intro \o Normalize(r.note) /\ Normalize(r.note) \in Seq(Chars)
    BY <1>3, NormalizeIs DEF Notice
  <2>2. Has(Notice(r), {"notice"})
    BY <2>1, IntroIs, HasConcat
  <2> QED BY <1>5, <1>6, <2>2
<1>8. TheBlock(r) = Absent
  <2> SUFFICES ASSUME TheBlock(r) # Absent PROVE FALSE
    OBVIOUS
  <2>1. Len(TheBlock(r)) >= 2 /\ TheBlock(r)[1] = "H"
    <3>1. CASE r.extracted # Absent
      <4>1. TheBlock(r) = r.extracted
        BY <3>1 DEF TheBlock, VersionBlock
      <4> QED BY <3>1, <4>1, ReplyIs
    <3>2. CASE r.extracted = Absent
      <4>1. TheBlock(r) = Block(Plain(r))
        BY <3>2 DEF TheBlock, VersionBlock
      <4>2. HeaderLines(Plain(r)) # {}
        BY <4>1 DEF Block
      <4> QED BY <1>2, <4>1, <4>2, BlockIs
    <3> QED BY <3>1, <3>2
  <2>2. Has(TheBlock(r), {"H"})
    <3>1. 1 \in DOMAIN TheBlock(r)
      <4>1. DOMAIN TheBlock(r) = 1..Len(TheBlock(r)) /\ Len(TheBlock(r)) \in Nat
        BY <1>2, LenProperties
      <4> QED BY <2>1, <4>1
    <3> QED BY <2>1, <3>1 DEF Has
  <2>3. Front(r) = TheBlock(r) \o <<"\n">> /\ <<"\n">> \in Seq(Chars)
    <3>1. "\n" \in Chars
      BY DEF Chars
    <3> QED BY <3>1, Single DEF Front
  <2>4. Has(Front(r), {"H"})
    <3> DEFINE x == <<"\n">>
               W == {"H"}
    <3>1. /\ Has(TheBlock(r), W) /\ Front(r) = TheBlock(r) \o x
          /\ x \in Seq(Chars) /\ TheBlock(r) \in Seq(Chars)
      BY <1>2, <2>2, <2>3
    <3> HIDE DEF x, W
    <3>2. Has(Front(r), W)
      BY <3>1, HasConcat
    <3> QED BY <3>2 DEF W
  <2> QED BY <1>5, <1>6, <2>4
<1>9. r.extracted = Absent /\ HeaderLines(Plain(r)) = {}
  <2>1. r.extracted = Absent
    BY <1>8 DEF TheBlock, VersionBlock
  <2>2. Block(Plain(r)) = <<>>
    BY <1>8, <2>1 DEF TheBlock, VersionBlock, Absent
  <2>3. ~(Len(Block(Plain(r))) >= 2)
    BY <2>2, EmptySeq
  <2> QED BY <1>2, <2>1, <2>3, BlockIs
<1>10. Prefix(r.source) = Absent
  <2> SUFFICES ASSUME Prefix(r.source) # Absent PROVE FALSE
    OBVIOUS
  <2> DEFINE p == Prefix(r.source)
  <2>1. 1 \in 1..Len(p) /\ p[1] \notin Space
    BY <1>3, PrefixIs
  <2>2. p \in Seq(Chars) /\ DOMAIN p = 1..Len(p)
    BY <1>4, LenProperties
  <2>3. LeadIn(r) = p \/ LeadIn(r) = p \o <<Blank>>
    BY DEF LeadIn
  <2>4. <<Blank>> \in Seq(Chars)
    <3>1. Blank \in Chars
      BY Zenon DEF Chars, Blank
    <3> QED BY <3>1, Single
  <2> HIDE DEF p
  <2>5. Has(p, {p[1]})
    BY <2>1, <2>2 DEF Has
  <2>6. Has(LeadIn(r), {p[1]})
    <3> DEFINE x == <<Blank>>
               W == {p[1]}
    <3>1. Has(p, W) /\ (LeadIn(r) = p \/ LeadIn(r) = p \o x) /\ x \in Seq(Chars)
      BY <2>3, <2>4, <2>5
    <3> HIDE DEF x, W
    <3>2. p \in Seq(Chars) /\ Has(p \o x, W)
      BY <2>2, <3>1, HasConcat
    <3>3. Has(LeadIn(r), W)
      BY <3>1, <3>2
    <3> QED BY <3>3 DEF W
  <2> QED BY <1>5, <2>1, <2>6
<1>11. Title(r) = Absent
  <2> SUFFICES ASSUME Title(r) # Absent PROVE FALSE
    OBVIOUS
  <2>1. LeadIn(r) = Title(r) \o <<Colon>>
    BY <1>10 DEF LeadIn
  <2>2. <<Colon>> \in Seq(Chars) /\ Has(<<Colon>>, {Colon})
    <3>1. Colon \in Chars
      BY DEF Chars
    <3> QED BY <3>1, Single
  <2>3. Has(LeadIn(r), {Colon})
    <3> DEFINE x == <<Colon>>
               W == {Colon}
    <3>1. Has(x, W) /\ x \in Seq(Chars) /\ LeadIn(r) = Title(r) \o x
      BY <2>1, <2>2
    <3> HIDE DEF x, W
    <3>2. Has(LeadIn(r), W)
      BY <1>4, <3>1, HasConcat
    <3> QED BY <3>2 DEF W
  <2> QED BY <1>5, <1>6, <2>3
<1>12. ASSUME NEW i \in 1..Len(Description(r)) PROVE Description(r)[i] \in Fillers
  <2> SUFFICES ASSUME Description(r)[i] \notin Fillers PROVE FALSE
    OBVIOUS
  <2>1. Plain(r)[i] = Description(r)[i] /\ Len(Plain(r)) = Len(Description(r))
    BY <1>4, NormalizeKeeps, NormalizeIs DEF Plain
  <2>2. Plain(r)[i] \notin Space
    BY <2>1, HeaderIs
  <2>3. Has(Plain(r), {Plain(r)[i]})
    <3>1. DOMAIN Plain(r) = 1..Len(Plain(r))
      BY <1>2, LenProperties
    <3> QED BY <2>1, <3>1 DEF Has
  <2>4. Body(Plain(r)) = Strip(Plain(r))
    BY <1>9 DEF Body
  <2>5. Has(Body(Plain(r)), {Plain(r)[i]})
    BY <1>2, <2>2, <2>3, <2>4, StripHas
  <2> QED BY <1>5, <2>2, <2>5
<1> QED BY <1>7, <1>9, <1>10, <1>11, <1>12

\* ... and the other way round.
LEMMA NothingToShow ==
  ASSUME NEW r \in Replies,
         Title(r) = Absent, r.note = Absent, Prefix(r.source) = Absent, r.extracted = Absent,
         \A i \in 1..Len(Description(r)) : Description(r)[i] \in Fillers
  PROVE  Strip(Finished(r)) = <<>>
<1> DEFINE d == Description(r)
           N == Plain(r)
<1>1. d \in Seq(Chars) /\ N \in Seq(Chars) /\ Len(N) = Len(d)
      /\ \A i \in 1..Len(d) : N[i] = IF d[i] = "<br>" THEN "\n"
                                     ELSE IF d[i] = Nbsp THEN Blank ELSE d[i]
  BY VerifiedIs, NormalizeIs DEF Plain
<1>2. /\ "\n" \in Space /\ Blank \in Space /\ "H" \notin Space
      /\ \A w \in Fillers : w \in Space \/ w = "<br>" \/ w = Nbsp
  BY Zenon DEF Space, Blank, Fillers
<1> HIDE DEF N, d
<1>3. \A i \in 1..Len(N) : N[i] \in Space
  <2> SUFFICES ASSUME NEW i \in 1..Len(N) PROVE N[i] \in Space
    OBVIOUS
  <2>1. d[i] \in Fillers
    BY <1>1 DEF d
  <2> QED BY <1>1, <1>2, <2>1
<1>4. HeaderLines(N) = {}
  <2>1. HeaderLines(N) = {i \in 1..(Len(N) - 1) :
                            N[i] = "H" /\ N[i + 1] = Colon /\ LineStart(N, i)}
    BY <1>1, HeaderLinesAre
  <2>2. Len(N) \in Nat
    BY <1>1, LenProperties
  <2>3. \A i \in 1..(Len(N) - 1) : i \in 1..Len(N)
    BY <2>2
  <2> QED BY <1>2, <1>3, <2>1, <2>3
<1>5. Strip(N) = <<>>
  BY <1>1, <1>3, StripNothing
<1>6. Body(N) = <<>> /\ Block(N) = <<>>
  BY <1>4, <1>5 DEF Body, Block, Absent
<1>7. Front(r) = <<>>
  BY <1>6 DEF Front, TheBlock, VersionBlock, Absent, N
<1>8. LeadIn(r) = <<>> /\ Notice(r) = <<>>
  BY DEF LeadIn, Notice
<1>9. <<>> \o <<>> = <<>>
  BY HasNothing, ConcatEmptySeq
<1>10. Finished(r) = <<>>
  BY <1>6, <1>7, <1>8, <1>9 DEF Finished, N
<1>11. \A i \in 1..Len(<<>>) : <<>>[i] \in Space
  <2>1. Len(<<>>) = 0
    BY EmptySeq
  <2> QED BY <2>1
<1> QED BY <1>10, <1>11, HasNothing, StripNothing

\* What strip leaves has only fillers, if and only if what it is given has.
LEMMA StripFillers ==
  ASSUME NEW s \in Seq(Chars)
  PROVE  /\ (\A i \in 1..Len(Strip(s)) : Strip(s)[i] \in Fillers) <=>
              (\A i \in 1..Len(s) : s[i] \in Fillers)
         /\ Strip(s) = <<>> <=> \A i \in 1..Len(s) : s[i] \in Space
<1> DEFINE t == Strip(s)
<1>1. t \in Seq(Chars) /\ DOMAIN t = 1..Len(t) /\ DOMAIN s = 1..Len(s) /\ Space \subseteq Fillers
  <2>1. t \in Seq(Chars)
    BY StripIs
  <2> QED BY <2>1, LenProperties, HeaderIs
<1> HIDE DEF t
<1>2. ASSUME \A i \in 1..Len(t) : t[i] \in Fillers, NEW i \in 1..Len(s)
      PROVE  s[i] \in Fillers
  <2> SUFFICES ASSUME s[i] \notin Fillers PROVE FALSE
    OBVIOUS
  <2>1. Has(s, {s[i]}) /\ {s[i]} \cap Space = {}
    BY <1>1, <1>2 DEF Has
  <2>2. Has(t, {s[i]})
    BY <2>1, StripHas DEF t
  <2> QED BY <1>1, <1>2, <2>2 DEF Has
<1>3. ASSUME \A i \in 1..Len(s) : s[i] \in Fillers, NEW i \in 1..Len(t)
      PROVE  t[i] \in Fillers
  <2>1. Has(t, {t[i]})
    BY <1>1, <1>3 DEF Has
  <2>2. Has(s, {t[i]})
    BY <2>1, StripHas DEF t
  <2> QED BY <1>1, <1>3, <2>2 DEF Has
<1>4. ASSUME t = <<>>, NEW i \in 1..Len(s) PROVE s[i] \in Space
  <2> SUFFICES ASSUME s[i] \notin Space PROVE FALSE
    OBVIOUS
  <2>1. Has(s, {s[i]}) /\ {s[i]} \cap Space = {}
    BY <1>1, <1>4 DEF Has
  <2>2. Has(t, {s[i]})
    BY <2>1, StripHas DEF t
  <2> QED BY <1>4, <2>2, HasNothing
<1> QED BY <1>2, <1>3, <1>4, StripNothing DEF t

\* What the validator cuts is wordless as the reply is.
LEMMA CutIsWordless ==
  ASSUME NEW r \in Replies, Description(r) # <<>>
  PROVE  LET c == r.customer
             f == FirstColon(c)
         IN  Title(r) = Absent /\ (\A i \in 1..Len(Description(r)) : Description(r)[i] \in Fillers)
             <=>
             IF r.form = "object"
             THEN r.title = Absent /\ \A i \in DOMAIN c : c[i] \in Fillers
             ELSE /\ Colons(c) # {}
                  /\ \A i \in 1..(f - 1) : c[i] \in Space
                  /\ \A i \in DOMAIN SubSeq(c, f + 1, Len(c)) :
                       SubSeq(c, f + 1, Len(c))[i] \in Fillers
<1> DEFINE c == r.customer
           f == FirstColon(c)
           s == SubSeq(c, 1, f - 1)
           t == SubSeq(c, f + 1, Len(c))
<1>1. c \in Seq(Chars) /\ Len(c) \in Nat /\ DOMAIN c = 1..Len(c)
  BY ReplyIs, LenProperties
<1>2. CASE r.form = "object"
  <2>1. Title(r) = r.title /\ Description(r) = c
    BY <1>2 DEF Title, Description
  <2> QED BY <1>1, <1>2, <2>1
<1>3. CASE r.form # "object" /\ Colons(c) = {}
  <2>1. Title(r) = Description(r)
    BY <1>3 DEF Title, Description
  <2> QED BY <1>3, <2>1 DEF Absent
<1>4. CASE r.form # "object" /\ Colons(c) # {}
  <2>1. Title(r) = Strip(s) /\ Description(r) = Strip(t)
    BY <1>4 DEF Title, Description
  <2>2. f \in 1..Len(c)
    BY <1>1, <1>4, AtIs DEF Colons, FirstColon
  <2> HIDE DEF f, c
  <2>3. f - 1 \in Nat /\ f - 1 <= Len(c) /\ f + 1 \in Nat \ {0} /\ 1 \in Nat \ {0}
        /\ Len(c) <= Len(c) /\ f - 1 - 1 + 1 = f - 1
    BY <1>1, <2>2
  <2>4. s \in Seq(Chars) /\ t \in Seq(Chars)
    BY <1>1, <2>3, Slice
  <2>5. Len(s) = f - 1 /\ \A i \in 1..(f - 1) : s[i] = c[i]
    <3>1. /\ Len(s) = IF 1 <= f - 1 THEN f - 1 - 1 + 1 ELSE 0
          /\ \A i \in 1..(f - 1 - 1 + 1) : s[i] = c[1 + i - 1]
      BY <1>1, <2>3, Slice
    <3>2. \A i \in 1..(f - 1) : 1 + i - 1 = i
      OBVIOUS
    <3>3. ~(1 <= f - 1) => f - 1 = 0
      BY <1>1, <2>2
    <3> QED BY <2>3, <3>1, <3>2, <3>3
  <2>6. DOMAIN t = 1..Len(t)
    BY <2>4, LenProperties
  <2> HIDE DEF s, t
  <2>7. /\ Strip(s) = <<>> <=> \A i \in 1..Len(s) : s[i] \in Space
        /\ (\A i \in 1..Len(Strip(t)) : Strip(t)[i] \in Fillers) <=>
             (\A i \in 1..Len(t) : t[i] \in Fillers)
    BY <2>4, StripFillers
  <2>8. Strip(s) = <<>> <=> \A i \in 1..(f - 1) : c[i] \in Space
    BY <2>5, <2>7
  <2> QED BY <1>4, <2>1, <2>6, <2>7, <2>8 DEF Absent, c, f, t
<1> QED BY <1>2, <1>3, <1>4

\* The replies that the service accepts and the client refuses as blank are those
\* of nothing but spaces and artifacts
\* (validator.py:31-34, change_pilot.py:64-70, xlsx_change_pilot.py:287-290).
THEOREM BlankIsWordless == Spec => []BlankIsPaidAgain
<1>1. ASSUME PipeInv PROVE BlankIsPaidAgain
  <2> DEFINE r == reply
             c == reply.customer
             f == FirstColon(c)
             t == SubSeq(c, f + 1, Len(c))
             wordless == IF r.form = "object"
                         THEN r.title = Absent /\ \A i \in DOMAIN c : c[i] \in Fillers
                         ELSE /\ Colons(c) # {}
                              /\ \A i \in 1..(f - 1) : c[i] \in Space
                              /\ \A i \in DOMAIN t : t[i] \in Fillers
  <2> SUFFICES ASSUME stage \in {"kept", "blank"}
      PROVE  stage = "blank" <=> /\ wordless /\ reply.note = Absent
                                 /\ Prefix(reply.source) = Absent
                                 /\ reply.extracted = Absent
    BY Zenon DEF BlankIsPaidAgain, Fillers, Nbsp
  <2>1. /\ r \in Replies /\ Description(r) # <<>>
        /\ stage = "blank" <=> Strip(Finished(r)) = <<>>
    BY <1>1 DEF PipeInv
  <2>2. wordless <=> /\ Title(r) = Absent
                     /\ \A i \in 1..Len(Description(r)) : Description(r)[i] \in Fillers
    BY <2>1, CutIsWordless
  <2> HIDE DEF wordless
  <2> QED BY <2>1, <2>2, NothingIsShown, NothingToShow
<1> QED BY <1>1, PipeSteps, PTL

\* A block that there is opens the finished text.
LEMMA BlockLeads ==
  ASSUME NEW r \in Replies, HeaderLines(Plain(r)) # {} \/ r.extracted # Absent
  PROVE  /\ Front(r) = TheBlock(r) \o <<"\n">> /\ <<"\n">> \in Seq(Chars)
         /\ Len(Finished(r)) >= 2 /\ Finished(r)[1] = "H" /\ Finished(r)[2] = Colon
<1> DEFINE b == TheBlock(r)
           n == <<"\n">>
           y == LeadIn(r)
           z == Body(Plain(r)) \o Notice(r)
<1>1. /\ Plain(r) \in Seq(Chars) /\ b \in Seq(Chars) /\ y \in Seq(Chars) /\ z \in Seq(Chars)
  BY PartsAre
<1>2. Len(b) >= 2 /\ b[1] = "H" /\ b[2] = Colon
  <2>1. CASE r.extracted # Absent
    <3>1. b = r.extracted
      BY <2>1 DEF TheBlock, VersionBlock
    <3> QED BY <2>1, <3>1, ReplyIs
  <2>2. CASE r.extracted = Absent
    <3>1. b = Block(Plain(r))
      BY <2>2 DEF TheBlock, VersionBlock
    <3>2. HeaderLines(Plain(r)) # {}
      BY <2>2
    <3> QED BY <1>1, <3>1, <3>2, BlockIs
  <2> QED BY <2>1, <2>2
<1>3. b # Absent
  <2>1. ~(Len(<<>>) >= 2)
    BY EmptySeq
  <2> QED BY <1>2, <2>1 DEF Absent
<1>4. Front(r) = b \o n
  BY <1>3 DEF Front
<1>5. n \in Seq(Chars)
  <2>1. "\n" \in Chars
    BY DEF Chars
  <2> QED BY <2>1, Single
<1>6. Finished(r) = ((b \o n) \o y) \o z
  BY <1>4 DEF Finished
<1> HIDE DEF b, n, y, z
<1>7. /\ b \o n \in Seq(Chars) /\ Len(b \o n) >= 2
      /\ (b \o n)[1] = "H" /\ (b \o n)[2] = Colon
  <2>1. 1 \in 1..Len(b) /\ 2 \in 1..Len(b) /\ Len(b) \in Nat /\ Len(n) \in Nat
    BY <1>1, <1>2, <1>5, Concat
  <2> QED BY <1>1, <1>2, <1>5, <2>1, Concat
<1> DEFINE x == b \o n
<1> HIDE DEF x
<1>8. /\ x \o y \in Seq(Chars) /\ Len(x \o y) >= 2
      /\ (x \o y)[1] = "H" /\ (x \o y)[2] = Colon
  <2>0. x \in Seq(Chars) /\ Len(x) >= 2 /\ x[1] = "H" /\ x[2] = Colon
    BY <1>7 DEF x
  <2>1. 1 \in 1..Len(x) /\ 2 \in 1..Len(x) /\ Len(x) \in Nat /\ Len(y) \in Nat
    BY <1>1, <2>0, Concat
  <2> QED BY <1>1, <2>0, <2>1, Concat
<1> DEFINE w == x \o y
<1> HIDE DEF w
<1>9. Len(w \o z) >= 2 /\ (w \o z)[1] = "H" /\ (w \o z)[2] = Colon
  <2>0. w \in Seq(Chars) /\ Len(w) >= 2 /\ w[1] = "H" /\ w[2] = Colon
    BY <1>8 DEF w
  <2>1. 1 \in 1..Len(w) /\ 2 \in 1..Len(w) /\ Len(w) \in Nat /\ Len(z) \in Nat
    BY <1>1, <2>0, Concat
  <2> QED BY <1>1, <2>0, <2>1, Concat
<1> QED BY <1>4, <1>5, <1>6, <1>9 DEF w, x, b, n

\* With versions from the source no other line has the header.
LEMMA OneHeader ==
  ASSUME NEW r \in Replies, r.extracted # Absent,
         ~Has(Title(r), {"H"}), ~Has(r.note, {"H"}), ~Has(r.source, {"H"}),
         NEW i \in HeaderLines(Finished(r))
  PROVE  i = 1
<1> DEFINE e == r.extracted
           n == <<"\n">>
           A == Front(r) \o LeadIn(r)
           B == Body(Plain(r))
           N == Notice(r)
           F == Finished(r)
<1>1. /\ B \in Seq(Chars) /\ N \in Seq(Chars) /\ A \in Seq(Chars) /\ F \in Seq(Chars)
      /\ Front(r) \in Seq(Chars) /\ LeadIn(r) \in Seq(Chars) /\ B \o N \in Seq(Chars)
      /\ Plain(r) \in Seq(Chars)
  BY PartsAre
<1>2. F = A \o (B \o N)
  BY DEF Finished
<1>3. HeaderLines(B) = {}
  BY <1>1, BodyHasNoHeader
<1>4. /\ e \in Seq(Chars) /\ Len(e) \in Nat
      /\ \A k \in 1..Len(e) : e[k] = Colon => k = 2
  BY ReplyIs, LenProperties
<1>5. Front(r) = e \o n /\ n \in Seq(Chars) /\ Len(n) = 1 /\ n[1] = "\n"
  <2>1. TheBlock(r) = e
    BY DEF TheBlock, VersionBlock
  <2>2. "\n" \in Chars
    BY DEF Chars
  <2> QED BY <2>1, <2>2, BlockLeads, Single
<1>6. "\n" # "H" /\ "\n" # Colon /\ Blank # "H" /\ Colon # "H" /\ "notice" # "H"
      /\ {"H"} \cap Fillers = {}
  BY Zenon DEF Colon, Blank, Fillers, Space, Nbsp
<1>7. ~Has(LeadIn(r), {"H"})
  <2>1. ~Has(Prefix(r.source), {"H"}) /\ Prefix(r.source) \in Seq(Chars)
    <3>1. r.source \in Seq(Chars) /\ Blank \notin {"H"}
      BY <1>6, ReplyIs
    <3> QED BY <3>1, PrefixIs
  <2>2. Blank \in Chars /\ Colon \in Chars
    BY Zenon DEF Blank, Chars
  <2> DEFINE x == <<Blank>>
             y == <<Colon>>
             W == {"H"}
  <2>3. /\ x \in Seq(Chars) /\ ~Has(x, W) /\ y \in Seq(Chars) /\ ~Has(y, W)
    BY <1>6, <2>2, Single
  <2>4. Title(r) \in Seq(Chars) /\ ~Has(Title(r), W) /\ ~Has(Prefix(r.source), W)
    BY <2>1, VerifiedIs
  <2>5. LeadIn(r) = IF Prefix(r.source) # Absent
                    THEN IF B = Absent THEN Prefix(r.source) ELSE Prefix(r.source) \o x
                    ELSE IF Title(r) = Absent THEN <<>> ELSE Title(r) \o y
    BY DEF LeadIn
  <2> HIDE DEF x, y, W, B
  <2>6. ~Has(Title(r) \o y, W) /\ ~Has(Prefix(r.source) \o x, W) /\ ~Has(<<>>, W)
    BY <2>1, <2>3, <2>4, HasConcat, HasNothing
  <2>7. ~Has(LeadIn(r), W)
    BY <2>4, <2>5, <2>6
  <2> QED BY <2>7 DEF W
<1>8. /\ ~Has(N, {"H"})
      /\ N # <<>> => N[1] = "\n"
  <2> DEFINE m == Normalize(r.note)
             W == {"H"}
  <2>1. m \in Seq(Chars) /\ ~Has(m, W) /\ ~Has(Intro, W) /\ Intro \in Seq(Chars)
    <3>1. r.note \in Seq(Chars)
      BY ReplyIs
    <3> QED BY <1>6, <3>1, NormalizeIs, NormalizeHas, IntroIs
  <2>2. N = IF r.note = Absent THEN <<>> ELSE Intro \o m
    BY DEF Notice
  <2> HIDE DEF m, W, N
  <2>3. ~Has(Intro \o m, W) /\ ~Has(<<>>, W)
    BY <2>1, HasConcat, HasNothing
  <2>4. (Intro \o m)[1] = "\n"
    <3>1. 1 \in 1..Len(Intro)
      BY IntroIs
    <3> QED BY <2>1, <3>1, IntroIs, Concat
  <2>5. ~Has(N, W)
    BY <2>2, <2>3
  <2> QED BY <2>2, <2>4, <2>5 DEF W
<1>9. /\ i \in 1..(Len(F) - 1) /\ F[i] = "H" /\ F[i + 1] = Colon /\ LineStart(F, i)
  BY <1>1, HeaderLinesAre
<1> HIDE DEF e, n, A, B, N, F
<1>10. /\ Len(A) \in Nat /\ Len(B) \in Nat /\ Len(N) \in Nat
       /\ Len(F) = Len(A) + (Len(B) + Len(N)) /\ Len(B \o N) = Len(B) + Len(N)
       /\ \A k \in 1..Len(A) : F[k] = A[k]
       /\ \A k \in 1..(Len(B) + Len(N)) : F[Len(A) + k] = (B \o N)[k]
       /\ \A k \in 1..Len(B) : (B \o N)[k] = B[k]
       /\ \A k \in 1..Len(N) : (B \o N)[Len(B) + k] = N[k]
       /\ DOMAIN N = 1..Len(N)
  <2>1. /\ Len(B) \in Nat /\ Len(N) \in Nat /\ Len(B \o N) = Len(B) + Len(N)
        /\ \A k \in 1..Len(B) : (B \o N)[k] = B[k]
        /\ \A k \in 1..Len(N) : (B \o N)[Len(B) + k] = N[k]
        /\ DOMAIN N = 1..Len(N)
    BY <1>1, Concat
  <2>2. /\ Len(A) \in Nat /\ Len(A \o (B \o N)) = Len(A) + Len(B \o N)
        /\ \A k \in 1..Len(A) : (A \o (B \o N))[k] = A[k]
        /\ \A k \in 1..Len(B \o N) : (A \o (B \o N))[Len(A) + k] = (B \o N)[k]
    BY <1>1, Concat
  <2> QED BY <1>2, <2>1, <2>2
<1>11. i \in Nat /\ 1 <= i /\ i + 1 <= Len(F)
  BY <1>9, <1>10
<1>12. CASE i <= Len(A)
  <2> DEFINE f == Front(r)
             l == LeadIn(r)
  <2>1. /\ Len(f) = Len(e) + 1 /\ Len(A) = Len(f) + Len(l) /\ Len(l) \in Nat
        /\ \A k \in 1..Len(e) : f[k] = e[k]
        /\ f[Len(e) + 1] = "\n"
        /\ \A k \in 1..Len(f) : A[k] = f[k]
        /\ \A k \in 1..Len(l) : A[Len(f) + k] = l[k]
        /\ DOMAIN l = 1..Len(l)
    <3>1. 1 \in 1..Len(n)
      BY <1>5
    <3>2. /\ Len(e \o n) = Len(e) + Len(n)
          /\ \A k \in 1..Len(e) : (e \o n)[k] = e[k]
          /\ (e \o n)[Len(e) + 1] = n[1]
      BY <1>4, <1>5, <3>1, Concat
    <3>3. A = f \o l /\ f = e \o n
      BY <1>5 DEF A
    <3>4. f \in Seq(Chars) /\ l \in Seq(Chars)
      BY <1>1
    <3> HIDE DEF f, l
    <3>5. /\ Len(f \o l) = Len(f) + Len(l) /\ Len(l) \in Nat
          /\ \A k \in 1..Len(f) : (f \o l)[k] = f[k]
          /\ \A k \in 1..Len(l) : (f \o l)[Len(f) + k] = l[k]
          /\ DOMAIN l = 1..Len(l)
      BY <3>4, Concat
    <3> QED BY <1>5, <3>2, <3>3, <3>5
  <2>2. ~Has(l, {"H"})
    BY <1>7
  <2> HIDE DEF f, l
  <2>3. i \in 1..Len(A) /\ A[i] = "H"
    BY <1>9, <1>10, <1>11, <1>12
  <2>4. CASE i > Len(e) + 1
    <3>1. i - Len(f) \in 1..Len(l) /\ i = Len(f) + (i - Len(f))
      BY <1>4, <2>1, <2>3, <2>4
    <3>2. l[i - Len(f)] = "H"
      BY <2>1, <2>3, <3>1
    <3> QED BY <2>1, <2>2, <3>1, <3>2 DEF Has
  <2>5. CASE i = Len(e) + 1
    <3>1. i \in 1..Len(f)
      BY <1>4, <2>1, <2>5
    <3> QED BY <1>6, <2>1, <2>3, <2>5, <3>1
  <2>6. CASE i = Len(e)
    <3>1. i + 1 \in 1..Len(f) /\ i + 1 \in 1..Len(A) /\ i + 1 = Len(e) + 1
      BY <1>4, <2>1, <2>6
    <3>2. F[i + 1] = "\n"
      BY <1>10, <2>1, <3>1
    <3> QED BY <1>6, <1>9, <3>2
  <2>7. CASE i < Len(e)
    <3>1. i + 1 \in 1..Len(f) /\ i + 1 \in 1..Len(A) /\ i + 1 \in 1..Len(e)
      BY <1>4, <1>11, <2>1, <2>7
    <3>2. e[i + 1] = Colon
      BY <1>9, <1>10, <2>1, <3>1
    <3> QED BY <1>4, <1>11, <3>1, <3>2
  <2> QED BY <1>4, <1>11, <2>4, <2>5, <2>6, <2>7
<1>13. CASE ~(i <= Len(A))
  <2> DEFINE j == i - Len(A)
  <2>1. /\ j \in 1..(Len(B) + Len(N)) /\ j + 1 \in 1..(Len(B) + Len(N)) /\ j \in Nat
        /\ Len(A) + j = i /\ Len(A) + (j + 1) = i + 1
    BY <1>10, <1>11, <1>13
  <2>2. (B \o N)[j] = "H" /\ (B \o N)[j + 1] = Colon
    BY <1>9, <1>10, <2>1
  <2> HIDE DEF j
  <2>3. j <= Len(B)
    <3> SUFFICES ASSUME ~(j <= Len(B)) PROVE FALSE
      OBVIOUS
    <3>1. j - Len(B) \in 1..Len(N) /\ j = Len(B) + (j - Len(B))
      BY <1>10, <2>1
    <3>2. N[j - Len(B)] = "H"
      BY <1>10, <2>2, <3>1
    <3> QED BY <1>8, <1>10, <3>1, <3>2 DEF Has
  <2>4. j # Len(B)
    <3> SUFFICES ASSUME j = Len(B) PROVE FALSE
      OBVIOUS
    <3>1. 1 \in 1..Len(N) /\ j + 1 = Len(B) + 1
      BY <1>10, <2>1
    <3>2. N # <<>>
      <4>1. Len(N) # 0
        BY <1>10, <3>1
      <4> QED BY <4>1, EmptySeq
    <3>3. (B \o N)[j + 1] = "\n"
      BY <1>8, <1>10, <3>1, <3>2
    <3> QED BY <1>6, <2>2, <3>3
  <2>5. j \in 1..Len(B) /\ j + 1 \in 1..Len(B) /\ j \in 1..(Len(B) - 1)
    BY <1>10, <2>1, <2>3, <2>4
  <2>6. B[j] = "H" /\ B[j + 1] = Colon
    BY <1>10, <2>2, <2>5
  <2>7. \A k \in 1..Len(B) : F[Len(A) + k] = B[k]
    <3>1. \A k \in 1..Len(B) : k \in 1..(Len(B) + Len(N))
      BY <1>10
    <3> QED BY <1>10, <3>1
  <2>8. LineStart(B, j)
    <3>1. PICK b \in 0..(i - 1) : /\ b > 0 => F[b] = "\n"
                                  /\ \A k \in (b + 1)..(i - 1) : F[k] = Blank
      BY <1>9 DEF LineStart
    <3>2. CASE b > Len(A)
      <4> DEFINE c == b - Len(A)
      <4>1. c \in 0..(j - 1) /\ c \in 1..Len(B) /\ Len(A) + c = b /\ b > 0 /\ b \in Nat
        BY <1>10, <1>11, <2>1, <2>5, <3>2
      <4>2. B[c] = "\n"
        BY <2>7, <3>1, <4>1
      <4>3. ASSUME NEW k \in (c + 1)..(j - 1) PROVE B[k] = Blank
        <5>1. k \in 1..Len(B) /\ Len(A) + k \in (b + 1)..(i - 1)
          BY <1>10, <1>11, <2>1, <2>5, <4>1
        <5> QED BY <2>7, <3>1, <5>1
      <4> HIDE DEF c
      <4> QED BY <4>1, <4>2, <4>3 DEF LineStart
    <3>3. CASE ~(b > Len(A))
      <4>1. ASSUME NEW k \in 1..(j - 1) PROVE B[k] = Blank
        <5>1. k \in 1..Len(B) /\ Len(A) + k \in (b + 1)..(i - 1)
          BY <1>10, <1>11, <2>1, <2>5, <3>3
        <5> QED BY <2>7, <3>1, <5>1
      <4>2. 0 \in 0..(j - 1) /\ ~(0 > 0) /\ 0 + 1 = 1
        BY <2>5, <2>1
      <4> QED BY <4>1, <4>2 DEF LineStart
    <3> QED BY <3>2, <3>3
  <2>9. j \in HeaderLines(B)
    BY <1>1, <2>5, <2>6, <2>8, HeaderLinesAre DEF B
  <2> QED BY <1>3, <2>9 DEF B
<1> QED BY <1>12, <1>13

\* A release note opens with its versions (runtime.py:217-219).
THEOREM VersionsComeFirst == Spec => []VersionsLead
<1>1. ASSUME PipeInv PROVE VersionsLead
  <2> DEFINE r == reply
             F == Finished(reply)
  <2> SUFFICES ASSUME stage = "kept", Headers(Description(reply)) # {} \/ reply.extracted # Absent
      PROVE  /\ SubSeq(answer, 1, 2) = Header
             /\ reply.extracted # Absent
                /\ ~Has(Title(reply) \o reply.note \o reply.source, {"H"}) =>
                  HeaderLines(answer) = {1}
    BY DEF VersionsLead
  <2>1. r \in Replies /\ answer = Strip(F)
    BY <1>1 DEF PipeInv
  <2>2. Title(r) \in Seq(Chars) /\ Description(r) \in Seq(Chars)
    BY <2>1, VerifiedIs
  <2>3. HeaderLines(Plain(r)) # {} \/ r.extracted # Absent
    BY <2>2, HeadersAre DEF Plain
  <2>4. F \in Seq(Chars) /\ Len(F) >= 2 /\ F[1] = "H" /\ F[2] = Colon
    BY <2>1, <2>3, PartsAre, BlockLeads
  <2>5. Len(F) \in Nat
    BY <2>4, LenProperties
  <2> HIDE DEF F
  <2>6. PICK b \in 2..Len(F) : Strip(F) = SubSeq(F, 1, b)
    BY <2>4, StripKeepsHeader
  <2>7. b \in Nat /\ 2 <= b /\ b <= Len(F)
    BY <2>5, <2>6
  <2>8. SubSeq(answer, 1, 2) = Header
    <3>1. SubSeq(SubSeq(F, 1, b), 1, 2) = SubSeq(F, 1 + 1 - 1, 1 + 2 - 1)
      <4>1. 1 \in Nat \ {0} /\ 2 \in Nat /\ 1 <= 2 /\ 1 + 2 - 1 <= b
        BY <2>7
      <4> QED BY <2>4, <2>7, <4>1, SliceOfSlice
    <3>2. SubSeq(F, 1, 1 + 1) = Header
      <4>1. 1 \in 1..(Len(F) - 1) /\ F[1 + 1] = Colon
        BY <2>4, <2>5
      <4> QED BY <2>4, <4>1, PairIs
    <3> QED BY <2>1, <2>6, <3>1, <3>2
  <2>9. ASSUME r.extracted # Absent, ~Has(Title(r) \o r.note \o r.source, {"H"})
        PROVE  HeaderLines(answer) = {1}
    <3>1. ~Has(Title(r), {"H"}) /\ ~Has(r.note, {"H"}) /\ ~Has(r.source, {"H"})
      <4> DEFINE W == {"H"}
      <4>1. Title(r) \in Seq(Chars) /\ r.note \in Seq(Chars) /\ r.source \in Seq(Chars)
        BY <2>1, <2>2, ReplyIs
      <4>2. Title(r) \o r.note \in Seq(Chars)
        BY <4>1, Concat
      <4>3. Has(Title(r) \o r.note \o r.source, W) <=> Has(Title(r) \o r.note, W) \/ Has(r.source, W)
        BY <4>1, <4>2, HasConcat
      <4>4. Has(Title(r) \o r.note, W) <=> Has(Title(r), W) \/ Has(r.note, W)
        BY <4>1, HasConcat
      <4> QED BY <2>9, <4>3, <4>4
    <3>2. /\ answer \in Seq(Chars) /\ Len(answer) = b
          /\ answer[1] = "H" /\ answer[2] = Colon
      <4>1. (IF 1 <= b THEN b - 1 + 1 ELSE 0) = b /\ 1 \in 1..(b - 1 + 1) /\ 2 \in 1..(b - 1 + 1)
            /\ 1 + 1 - 1 = 1 /\ 1 + 2 - 1 = 2
        BY <2>7
      <4> QED BY <2>1, <2>4, <2>6, <2>7, <4>1, Slice
    <3>3. 1 \in HeaderLines(answer)
      <4>1. 1 \in 1..Len(answer) /\ 1 \in 1..(Len(answer) - 1) /\ \A k \in 1..(1 - 1) : FALSE
        BY <2>7, <3>2
      <4>2. LineStart(answer, 1)
        BY <3>2, <4>1, FirstStartsLine
      <4>3. answer[1 + 1] = Colon
        BY <3>2
      <4> QED BY <3>2, <4>1, <4>2, <4>3, HeaderLinesAre
    <3>4. ASSUME NEW i \in HeaderLines(answer) PROVE i = 1
      <4>1. /\ 1 \in 1..Len(F) /\ b \in 1..Len(F) /\ F[1] \notin Space
            /\ \A k \in 1..(1 - 1) : FALSE
        BY <2>4, <2>7, HeaderIs
      <4>2. 1 + i - 1 \in HeaderLines(F)
        BY <2>1, <2>4, <2>6, <4>1, HeaderOfSlice
      <4>3. 1 + i - 1 = i
        <5>1. i \in Nat
          BY <3>2, HeaderLinesAre
        <5> QED BY <5>1
      <4> QED BY <2>1, <2>9, <3>1, <4>2, <4>3, OneHeader DEF F
    <3> QED BY <3>3, <3>4
  <2> QED BY <2>8, <2>9
<1> QED BY <1>1, PipeSteps, PTL

\* The words of the finished text are those of its block, of its prefix or else its
\* title, and of its body.
LEMMA FinishedWords ==
  ASSUME NEW r \in Replies, NEW W, W \cap Fillers = {}, Colon \notin W, "notice" \notin W,
         ~Has(r.note, W)
  PROVE  Words(Finished(r), W) =
           Words(TheBlock(r), W)
             \o ((IF Prefix(r.source) = Absent THEN Words(Title(r), W)
                  ELSE Words(Prefix(r.source), W)) \o Words(Body(Plain(r)), W))
<1> DEFINE a == Front(r)
           b == LeadIn(r)
           c == Body(Plain(r))
           d == Notice(r)
           p == Prefix(r.source)
           t == Title(r)
           k == TheBlock(r)
           x == <<Blank>>
           y == <<Colon>>
           n == <<"\n">>
           m == Normalize(r.note)
<1>1. /\ a \in Seq(Chars) /\ b \in Seq(Chars) /\ c \in Seq(Chars) /\ d \in Seq(Chars)
      /\ a \o b \in Seq(Chars) /\ c \o d \in Seq(Chars) /\ k \in Seq(Chars)
  BY PartsAre
<1>2. p \in Seq(Chars) /\ t \in Seq(Chars) /\ m \in Seq(Chars) /\ r.note \in Seq(Chars)
  BY ReplyIs, VerifiedIs, PrefixIs, NormalizeIs
<1>3. Blank \notin W /\ "\n" \notin W
  <2>1. Blank \in Fillers /\ "\n" \in Fillers
    BY Zenon DEF Fillers, Space, Blank
  <2> QED BY <2>1
<1>4. /\ x \in Seq(Chars) /\ ~Has(x, W) /\ y \in Seq(Chars) /\ ~Has(y, W)
      /\ n \in Seq(Chars) /\ ~Has(n, W)
  <2>1. Blank \in Chars /\ Colon \in Chars /\ "\n" \in Chars
    BY Zenon DEF Blank, Chars
  <2> QED BY <1>3, <2>1, Single
<1>5. Intro \in Seq(Chars) /\ ~Has(Intro, W)
  BY <1>3, IntroIs
<1>6. ~Has(m, W)
  BY <1>2, NormalizeHas
<1>7. /\ a = IF k = <<>> THEN <<>> ELSE k \o n
      /\ b = IF p # <<>> THEN (IF c = <<>> THEN p ELSE p \o x)
             ELSE IF t = <<>> THEN <<>> ELSE t \o y
      /\ d = IF r.note = <<>> THEN <<>> ELSE Intro \o m
      /\ Finished(r) = (a \o b) \o (c \o d)
  BY DEF Front, LeadIn, Notice, Finished, Absent
<1> HIDE DEF a, b, c, d, p, t, k, x, y, n, m
<1>c. ASSUME NEW f \in Seq(Chars), NEW g \in Seq(Chars)
      PROVE  Words(f \o g, W) = Words(f, W) \o Words(g, W)
  BY <1>c, WordsConcat
<1> DEFINE q == IF p = <<>> THEN t ELSE p
<1>8. /\ Words(x, W) = <<>> /\ Words(y, W) = <<>> /\ Words(n, W) = <<>>
      /\ Words(Intro, W) = <<>> /\ Words(m, W) = <<>> /\ Words(<<>>, W) = <<>>
  BY <1>2, <1>4, <1>5, <1>6, <1>7, NoWords, HasNothing
<1>9. /\ Words(k, W) \in Seq(Chars) /\ Words(p, W) \in Seq(Chars) /\ Words(c, W) \in Seq(Chars)
      /\ Words(t, W) \in Seq(Chars)
  BY <1>1, <1>2, WordsAre
<1>10. /\ Words(k, W) \o <<>> = Words(k, W) /\ Words(p, W) \o <<>> = Words(p, W)
       /\ Words(t, W) \o <<>> = Words(t, W)
       /\ Words(c, W) \o <<>> = Words(c, W) /\ <<>> \o <<>> = <<>>
  BY <1>9, HasNothing, ConcatEmptySeq
<1>11. Words(a, W) = Words(k, W)
  <2>1. Words(k \o n, W) = Words(k, W) \o Words(n, W)
    BY <1>1, <1>4, <1>c
  <2> QED BY <1>7, <1>8, <1>10, <2>1
<1>12. Words(b, W) = Words(q, W)
  <2>1. Words(p \o x, W) = Words(p, W) \o Words(x, W)
    BY <1>2, <1>4, <1>c
  <2>2. Words(t \o y, W) = Words(t, W) \o Words(y, W)
    BY <1>2, <1>4, <1>c
  <2>3. CASE p # <<>>
    BY <1>7, <1>8, <1>10, <2>1, <2>3
  <2>4. CASE p = <<>>
    BY <1>7, <1>8, <1>10, <2>2, <2>4
  <2> QED BY <2>3, <2>4
<1>13. Words(d, W) = <<>>
  <2>1. Words(Intro \o m, W) = Words(Intro, W) \o Words(m, W)
    BY <1>2, <1>5, <1>c
  <2> QED BY <1>7, <1>8, <1>10, <2>1
<1>14. Words((a \o b) \o (c \o d), W) =
         (Words(a, W) \o Words(b, W)) \o (Words(c, W) \o Words(d, W))
  <2>1. Words((a \o b) \o (c \o d), W) = Words(a \o b, W) \o Words(c \o d, W)
    BY <1>1, <1>c
  <2>2. Words(a \o b, W) = Words(a, W) \o Words(b, W)
    BY <1>1, <1>c
  <2>3. Words(c \o d, W) = Words(c, W) \o Words(d, W)
    BY <1>1, <1>c
  <2> QED BY <2>1, <2>2, <2>3
<1>15. (Words(k, W) \o Words(q, W)) \o Words(c, W) = Words(k, W) \o (Words(q, W) \o Words(c, W))
  BY <1>9, ConcatAssociative
<1> HIDE DEF q
<1>16. Words(Finished(r), W) = Words(k, W) \o (Words(q, W) \o Words(c, W))
  BY <1>7, <1>10, <1>11, <1>12, <1>13, <1>14, <1>15
<1>17. Words(q, W) = IF p = Absent THEN Words(t, W) ELSE Words(p, W)
  BY DEF q, Absent
<1> QED BY <1>16, <1>17 DEF k, p, c, t

\* Neither the body nor the model's own block has what the text has not.
LEMMA SplitHas ==
  ASSUME NEW s \in Seq(Chars), NEW W, ~Has(s, W)
  PROVE  ~Has(Body(s), W) /\ ~Has(Block(s), W)
<1>1. CASE HeaderLines(s) = {}
  <2>1. Body(s) = Strip(s) /\ Block(s) = <<>>
    BY <1>1 DEF Body, Block, Absent
  <2> QED BY <2>1, StripHas, HasNothing
<1>2. CASE HeaderLines(s) # {}
  <2> DEFINE f == FirstHeader(s)
             x == SubSeq(s, 1, f - 1)
             y == SubSeq(s, f, Len(s))
  <2>1. Body(s) = Strip(x) /\ Block(s) = Strip(y)
    BY <1>2 DEF Body, Block
  <2>2. f \in 1..(Len(s) - 1) /\ Len(s) \in Nat
    BY <1>2, BlockIs, LenProperties
  <2> HIDE DEF f
  <2>3. f \in Nat \ {0} /\ f - 1 \in Nat /\ f - 1 <= Len(s)
    BY <2>2
  <2>4. x \in Seq(Chars) /\ ~Has(x, W)
    BY <2>3, Slice, HasSlice
  <2>5. y \in Seq(Chars) /\ ~Has(y, W)
    BY <2>2, <2>3, Slice, HasSlice
  <2> HIDE DEF x, y
  <2> QED BY <2>1, <2>4, <2>5, StripHas
<1> QED BY <1>1, <1>2

\* The words for the customer in the body and the block are those of the
\* description, and there is none of the source's.
LEMMA SplitWords ==
  ASSUME NEW r \in Replies
  PROVE  LET d == Description(r)
             f == FirstHeader(Plain(r))
             C == CustomerWords
             S == SourceWords
         IN  /\ Words(TheBlock(r), S) = <<>> /\ Words(Body(Plain(r)), S) = <<>>
             /\ HeaderLines(Plain(r)) = {} =>
                  Words(TheBlock(r), C) = <<>> /\ Words(Body(Plain(r)), C) = Words(d, C)
             /\ HeaderLines(Plain(r)) # {} =>
                  /\ Words(Body(Plain(r)), C) = Words(SubSeq(d, 1, f), C)
                  /\ Words(TheBlock(r), C) =
                       IF r.extracted # Absent THEN <<>> ELSE Words(SubSeq(d, f, Len(d)), C)
<1> DEFINE d == Description(r)
           N == Plain(r)
           f == FirstHeader(N)
           e == r.extracted
           C == CustomerWords
           S == SourceWords
<1>1. /\ d \in Seq(Chars) /\ e \in Seq(Chars) /\ ~Has(d, S) /\ ~Has(e, C) /\ ~Has(e, S)
  BY ReplyIs, VerifiedIs, VerifiedHas
<1>2. N = Normalize(d)
  BY DEF Plain
<1>3. N \in Seq(Chars) /\ Len(N) = Len(d) /\ Len(d) \in Nat
  BY <1>1, <1>2, NormalizeIs, LenProperties
<1>4. /\ C \cap Fillers = {} /\ C \cap Space = {} /\ "H" \notin C /\ S \cap Fillers = {}
  BY Zenon DEF CustomerWords, SourceWords, Fillers, Space, Nbsp
<1>5. TheBlock(r) = IF e # <<>> THEN e ELSE Block(N)
  BY DEF TheBlock, VersionBlock, Absent
<1>6. Body(N) \in Seq(Chars) /\ Block(N) \in Seq(Chars)
  <2>1. CASE HeaderLines(N) = {}
    BY <1>3, <2>1, BodyHasNoHeader, HasNothing DEF Block, Absent
  <2>2. CASE HeaderLines(N) # {}
    BY <1>3, <2>2, BodyHasNoHeader, BlockIs
  <2> QED BY <2>1, <2>2
<1>7. Words(e, C) = <<>> /\ Words(e, S) = <<>>
  BY <1>1, NoWords
<1>8. Words(TheBlock(r), S) = <<>> /\ Words(Body(N), S) = <<>>
  <2>1. ~Has(N, S)
    BY <1>1, <1>2, <1>4, NormalizeHas
  <2>2. ~Has(Body(N), S) /\ ~Has(Block(N), S)
    BY <1>3, <2>1, SplitHas
  <2>3. Words(Body(N), S) = <<>> /\ Words(Block(N), S) = <<>>
    BY <1>6, <2>2, NoWords
  <2> QED BY <1>5, <1>7, <2>3
<1> HIDE DEF N, d, e, C, S
<1>9. ASSUME NEW m \in Nat \ {0}, NEW n \in Nat, n <= Len(d)
      PROVE  /\ SubSeq(N, m, n) \in Seq(Chars)
             /\ Words(Strip(SubSeq(N, m, n)), C) = Words(SubSeq(d, m, n), C)
  <2> DEFINE t == SubSeq(N, m, n)
  <2>1. t \in Seq(Chars)
    BY <1>3, <1>9, Slice
  <2>2. Words(t, C) = Words(SubSeq(d, m, n), C)
    BY <1>1, <1>2, <1>4, <1>9, NormalizeWords
  <2> HIDE DEF t
  <2>3. Words(Strip(t), C) = Words(t, C)
    BY <1>4, <2>1, StripWords
  <2> QED BY <2>1, <2>2, <2>3 DEF t
<1>10. ASSUME HeaderLines(N) = {}
       PROVE  Words(TheBlock(r), C) = <<>> /\ Words(Body(N), C) = Words(d, C)
  <2>1. SubSeq(N, 1, Len(d)) = N /\ SubSeq(d, 1, Len(d)) = d
    <3>1. SubSeq(N, 1, Len(N)) = N
      BY <1>3, SubSeqFull
    <3>2. SubSeq(d, 1, Len(d)) = d
      BY <1>1, SubSeqFull
    <3> QED BY <1>3, <3>1, <3>2
  <2>2. Words(Strip(SubSeq(N, 1, Len(d))), C) = Words(SubSeq(d, 1, Len(d)), C)
    BY <1>3, <1>9
  <2>3. Words(Strip(N), C) = Words(d, C)
    BY <2>1, <2>2
  <2>4. Body(N) = Strip(N) /\ Block(N) = <<>>
    BY <1>10 DEF Body, Block, Absent
  <2>5. Words(<<>>, C) = <<>>
    BY HasNothing
  <2> QED BY <1>5, <1>7, <2>3, <2>4, <2>5
<1>11. ASSUME HeaderLines(N) # {}
       PROVE  /\ Words(Body(N), C) = Words(SubSeq(d, 1, f), C)
              /\ Words(TheBlock(r), C) =
                   IF e # <<>> THEN <<>> ELSE Words(SubSeq(d, f, Len(d)), C)
  <2>1. /\ Body(N) = Strip(SubSeq(N, 1, f - 1)) /\ Block(N) = Strip(SubSeq(N, f, Len(N)))
    BY <1>11 DEF Body, Block
  <2>2. f \in 1..(Len(N) - 1) /\ N[f] = "H"
    <3>1. f \in HeaderLines(N) /\ f \in 1..(Len(N) - 1)
      BY <1>3, <1>11, BlockIs
    <3>2. HeaderLines(N) = {i \in 1..(Len(N) - 1) :
                              N[i] = "H" /\ N[i + 1] = Colon /\ LineStart(N, i)}
      BY <1>3, HeaderLinesAre
    <3> QED BY <3>1, <3>2
  <2> HIDE DEF f
  <2>3. f \in Nat \ {0} /\ f - 1 \in Nat /\ f <= Len(d) /\ f - 1 <= Len(d) /\ f \in 1..Len(d)
    BY <1>3, <2>2
  <2>4. Words(Body(N), C) = Words(SubSeq(d, 1, f - 1), C)
    BY <1>9, <2>1, <2>3
  <2>5. d[f] = "H"
    <3>1. N[f] \notin Fillers
      BY <2>2, HeaderIs
    <3> QED BY <1>1, <1>2, <2>2, <2>3, <3>1, NormalizeKeeps
  <2>6. Words(SubSeq(d, 1, f), C) = Words(SubSeq(d, 1, f - 1), C)
    <3> DEFINE h == <<"H">>
               x == SubSeq(d, 1, f - 1)
    <3>1. SubSeq(d, 1, f) = x \o h
      <4>1. 1 \in 1..Len(d) /\ f \in 1..Len(d)
        BY <1>3, <2>3
      <4>2. SubSeq(d, 1, f) = SubSeq(d, 1, f - 1) \o <<d[f]>>
        BY <1>1, <4>1, SubSeqRecursiveSecond
      <4> QED BY <2>5, <4>2
    <3>2. h \in Seq(Chars) /\ ~Has(h, C)
      <4>1. "H" \in Chars
        BY DEF Chars
      <4> QED BY <1>4, <4>1, Single
    <3>3. x \in Seq(Chars)
      BY <1>1, <2>3, Slice
    <3> HIDE DEF h, x
    <3>4. Words(x \o h, C) = Words(x, C) \o Words(h, C) /\ Words(h, C) = <<>>
      BY <3>2, <3>3, WordsConcat, NoWords
    <3>5. Words(x, C) \in Seq(Chars)
      BY <3>3, WordsAre
    <3>6. Words(x, C) \o <<>> = Words(x, C)
      BY <3>5, ConcatEmptySeq
    <3>7. Words(SubSeq(d, 1, f), C) = Words(x, C)
      BY <3>1, <3>4, <3>6
    <3> QED BY <3>7 DEF x
  <2>7. Words(Block(N), C) = Words(SubSeq(d, f, Len(d)), C)
    BY <1>3, <1>9, <2>1, <2>3
  <2> QED BY <1>5, <1>7, <2>4, <2>6, <2>7
<1> QED BY <1>8, <1>10, <1>11 DEF Absent, N, d, e, C, S

\* Every word of the description is kept once, those before the colon of a string
\* lead them unless a prefix does, and of the source's own words there are those
\* that lead its change sheet (validator.py:31-34, runtime.py:65-78, 193-210, 249-262).
THEOREM WordsAreKept == Spec => []CustomerTextKept
<1>1. ASSUME PipeInv PROVE CustomerTextKept
  <2> DEFINE r == reply
             c == reply.customer
             d == Description(reply)
             src == reply.source
             H == Headers(Description(reply))
             f == Smallest(H)
             p == Prefix(reply.source)
             F == Finished(reply)
             B == Body(Plain(reply))
             k == TheBlock(reply)
             C == CustomerWords
             S == SourceWords
             titled == IF r.form = "object" THEN <<>>
                       ELSE IF Colons(c) = {} THEN Words(c, C)
                       ELSE Words(SubSeq(c, 1, FirstColon(c) - 1), C)
             moved == IF H = {} \/ r.extracted # Absent THEN <<>>
                      ELSE Words(SubSeq(d, f, Len(d)), C)
             rest == IF H = {} THEN Words(d, C) ELSE Words(SubSeq(d, 1, f), C)
  <2> SUFFICES ASSUME stage = "kept"
      PROVE  /\ Words(answer, C) =
                  moved \o (IF p = Absent THEN titled ELSE <<>>) \o rest
             /\ Words(answer, S) =
                  IF p = Absent THEN <<>>
                  ELSE Words(SubSeq(src, 1, Smallest(At(src, "#")) - 1), S)
    BY Zenon DEF CustomerTextKept
  <2>1. r \in Replies /\ answer = Strip(F)
    BY <1>1 DEF PipeInv
  <2>2. Title(r) \in Seq(Chars) /\ d \in Seq(Chars)
    BY <2>1, VerifiedIs
  <2>3. /\ src \in Seq(Chars) /\ ~Has(src, C)
        /\ ~Has(r.note, C) /\ ~Has(Title(r), S) /\ ~Has(r.note, S)
        /\ Words(Title(r), C) = titled
    BY <2>1, ReplyIs, VerifiedHas
  <2>4. /\ C \cap Fillers = {} /\ Colon \notin C /\ "notice" \notin C
        /\ C \cap Space = {} /\ Blank \notin C
        /\ S \cap Fillers = {} /\ Colon \notin S /\ "notice" \notin S
        /\ S \cap Space = {} /\ Blank \notin S
    BY Zenon DEF CustomerWords, SourceWords, Fillers, Space, Nbsp, Blank, Colon
  <2>5. F \in Seq(Chars) /\ B \in Seq(Chars) /\ k \in Seq(Chars)
    BY <2>1, PartsAre
  <2>6. p \in Seq(Chars) /\ ~Has(p, C)
    BY <2>3, <2>4, PrefixIs
  <2>7. /\ Words(F, C) = Words(k, C) \o ((IF p = Absent THEN Words(Title(r), C)
                                         ELSE Words(p, C)) \o Words(B, C))
        /\ Words(F, S) = Words(k, S) \o ((IF p = Absent THEN Words(Title(r), S)
                                         ELSE Words(p, S)) \o Words(B, S))
    BY <2>1, <2>3, <2>4, FinishedWords
  <2>8. H = HeaderLines(Plain(r)) /\ f = FirstHeader(Plain(r))
    BY <2>2, HeadersAre DEF Plain, FirstHeader
  <2>9. /\ Words(k, S) = <<>> /\ Words(B, S) = <<>>
        /\ H = {} => Words(k, C) = <<>> /\ Words(B, C) = Words(d, C)
        /\ H # {} =>
             /\ Words(B, C) = Words(SubSeq(d, 1, f), C)
             /\ Words(k, C) =
                  IF r.extracted # Absent THEN <<>> ELSE Words(SubSeq(d, f, Len(d)), C)
    BY <2>1, <2>8, SplitWords
  <2>10. p # Absent => Words(p, S) = Words(SubSeq(src, 1, Smallest(At(src, "#")) - 1), S)
    BY <2>3, PrefixIs
  <2> DEFINE g == IF p = Absent THEN titled ELSE <<>>
  <2>11. Words(k, C) = moved /\ Words(B, C) = rest
    BY <2>9
  <2>12. Words(answer, C) = Words(F, C) /\ Words(answer, S) = Words(F, S)
    BY <2>1, <2>4, <2>5, StripWords
  <2> HIDE DEF F, B, k, p, C, S, f, H, moved, rest, titled, d
  <2>13. /\ Words(p, C) = <<>> /\ Words(Title(r), S) = <<>>
         /\ Words(Title(r), C) \in Seq(Chars) /\ Words(p, S) \in Seq(Chars)
         /\ Words(k, C) \in Seq(Chars) /\ Words(B, C) \in Seq(Chars)
    BY <2>2, <2>3, <2>5, <2>6, NoWords, WordsAre
  <2>14. Words(F, C) = moved \o (g \o rest)
    BY <2>3, <2>7, <2>11, <2>13
  <2>15. moved \o (g \o rest) = (moved \o g) \o rest
    <3>1. moved \in Seq(Chars) /\ g \in Seq(Chars) /\ rest \in Seq(Chars)
      BY <2>3, <2>11, <2>13, HasNothing
    <3> HIDE DEF g
    <3> QED BY <3>1, ConcatAssociative
  <2>16. Words(F, S) = IF p = Absent THEN <<>> ELSE Words(p, S)
    <3>1. /\ <<>> \o <<>> = <<>> /\ <<>> \o (<<>> \o <<>>) = <<>>
          /\ <<>> \o (Words(p, S) \o <<>>) = Words(p, S)
      BY <2>13, HasNothing, ConcatEmptySeq
    <3> QED BY <2>7, <2>9, <2>13, <3>1
  <2> QED BY <2>10, <2>12, <2>14, <2>15, <2>16
<1> QED BY <1>1, PipeSteps, PTL

-----------------------------------------------------------------------------
(* The object in the reply.                                                *)

\* Names for literals that the SMT backend cannot read.
LBrace == "{"
RBrace == "}"
LQuoted == "s{"
RQuoted == "s}"
Unthink == "</think>"
Break == "\n"

\* What lstrip leaves alone.
Solid(s) == {i \in DOMAIN s : s[i] \notin Space}

LEMMA SolidIs ==
  ASSUME NEW s \in Seq(Chars)
  PROVE  /\ Solid(s) = {i \in 1..Len(s) : s[i] \notin Space} /\ Len(s) \in Nat
         /\ Lstrip(s) = IF Solid(s) = {} THEN <<>> ELSE SubSeq(s, Smallest(Solid(s)), Len(s))
         /\ Solid(s) # {} =>
              /\ Smallest(Solid(s)) \in 1..Len(s) /\ s[Smallest(Solid(s))] \notin Space
              /\ \A j \in Solid(s) : Smallest(Solid(s)) <= j
         /\ \A w : Begins(s, w) <=> Solid(s) # {} /\ s[Smallest(Solid(s))] = w
<1>1. Len(s) \in Nat /\ DOMAIN s = 1..Len(s)
  BY LenProperties
<1>2. Solid(s) = {i \in 1..Len(s) : s[i] \notin Space}
  BY <1>1 DEF Solid
<1>3. Lstrip(s) = IF Solid(s) = {} THEN <<>> ELSE SubSeq(s, Smallest(Solid(s)), Len(s))
  BY Zenon DEF Lstrip, Solid, Space
<1>4. Solid(s) \in SUBSET Nat
  BY <1>1, <1>2
<1> DEFINE k == Smallest(Solid(s))
           t == SubSeq(s, k, Len(s))
<1>5. ASSUME Solid(s) # {}
      PROVE  k \in 1..Len(s) /\ s[k] \notin Space /\ \A j \in Solid(s) : k <= j
  <2>1. k \in Solid(s) /\ \A j \in Solid(s) : k <= j
    BY <1>4, <1>5, SmallestIs
  <2> HIDE DEF k
  <2> QED BY <1>2, <2>1
<1>6. ASSUME NEW w PROVE Begins(s, w) <=> Solid(s) # {} /\ s[k] = w
  <2>1. CASE Solid(s) = {}
    BY <1>3, <2>1 DEF Begins
  <2>2. CASE Solid(s) # {}
    <3>1. k \in 1..Len(s)
      BY <1>5, <2>2
    <3> HIDE DEF k
    <3>2. /\ k \in Nat \ {0} /\ k <= Len(s) /\ 1 \in 1..(Len(s) - k + 1)
          /\ (IF k <= Len(s) THEN Len(s) - k + 1 ELSE 0) # 0 /\ k + 1 - 1 = k
      BY <1>1, <3>1
    <3>3. t \in Seq(Chars) /\ Len(t) # 0 /\ t[1] = s[k]
      BY <1>1, <3>2, Slice
    <3>4. Lstrip(s) = t
      BY <1>3, <2>2 DEF k
    <3> HIDE DEF t
    <3>5. Len(<<>>) = 0
      OBVIOUS
    <3>6. t # <<>> /\ Head(t) = t[1]
      BY <3>3, <3>5
    <3>7. Begins(s, w) <=> s[k] = w
      BY <3>3, <3>4, <3>6 DEF Begins
    <3> QED BY <2>2, <3>7
  <2> QED BY <2>1, <2>2
<1> QED BY <1>1, <1>2, <1>3, <1>5, <1>6

\* Stripping the front of x o y, and cutting it behind its first w, leave y alone.
LEMMA LstripConcat ==
  ASSUME NEW s \in Seq(Chars), Solid(s) # {}
  PROVE  /\ Lstrip(s) \in Seq(Chars) /\ \E u \in Seq(Chars) : s = u \o Lstrip(s)
         /\ \A y \in Seq(Chars) :
              /\ Solid(s \o y) # {} /\ Smallest(Solid(s \o y)) = Smallest(Solid(s))
              /\ Lstrip(s \o y) = Lstrip(s) \o y
<1> DEFINE k == Smallest(Solid(s))
<1>1. /\ k \in 1..Len(s) /\ s[k] \notin Space /\ Len(s) \in Nat
      /\ \A j \in Solid(s) : k <= j
      /\ Solid(s) = {i \in 1..Len(s) : s[i] \notin Space}
      /\ Lstrip(s) = SubSeq(s, k, Len(s))
  BY SolidIs
<1> HIDE DEF k
<1>2. k - 1 \in 0..Len(s) /\ k - 1 + 1 = k
  BY <1>1
<1>3. /\ s = SubSeq(s, 1, k - 1) \o Lstrip(s)
      /\ SubSeq(s, 1, k - 1) \in Seq(Chars) /\ Lstrip(s) \in Seq(Chars)
  BY <1>1, <1>2, CutAt
<1>4. ASSUME NEW y \in Seq(Chars)
      PROVE  /\ Solid(s \o y) # {} /\ Smallest(Solid(s \o y)) = k
             /\ Lstrip(s \o y) = Lstrip(s) \o y
  <2> DEFINE z == s \o y
             l == Smallest(Solid(z))
  <2>1. /\ z \in Seq(Chars) /\ Len(y) \in Nat /\ Len(z) = Len(s) + Len(y)
        /\ \A i \in 1..Len(s) : z[i] = s[i]
    BY Concat
  <2>2. SubSeq(z, k, Len(z)) = Lstrip(s) \o y
    BY <1>1, <1>2, TailOfConcat
  <2> HIDE DEF z
  <2>3. k \in 1..Len(z) /\ z[k] \notin Space
    BY <1>1, <2>1
  <2>4. /\ Solid(z) = {i \in 1..Len(z) : z[i] \notin Space}
        /\ Lstrip(z) = IF Solid(z) = {} THEN <<>> ELSE SubSeq(z, l, Len(z))
    BY <2>1, SolidIs
  <2>5. k \in Solid(z) /\ Solid(z) # {}
    BY <2>3, <2>4
  <2>6. l \in 1..Len(z) /\ z[l] \notin Space /\ l <= k
    BY <2>1, <2>5, SolidIs
  <2> HIDE DEF l
  <2>7. l \in 1..Len(s)
    BY <1>1, <2>1, <2>6
  <2>8. l \in Solid(s)
    BY <1>1, <2>1, <2>6, <2>7
  <2>9. l = k
    BY <1>1, <2>6, <2>7, <2>8
  <2> QED BY <2>2, <2>4, <2>5, <2>9 DEF z, l
<1> QED BY <1>3, <1>4 DEF k

LEMMA AfterConcat ==
  ASSUME NEW s \in Seq(Chars), NEW w, At(s, w) # {}
  PROVE  /\ After(s, w) \in Seq(Chars) /\ \E u \in Seq(Chars) : s = u \o After(s, w)
         /\ \A y \in Seq(Chars) :
              At(s \o y, w) # {} /\ After(s \o y, w) = After(s, w) \o y
<1> DEFINE k == Smallest(At(s, w))
<1>1. /\ k \in At(s, w) /\ \A j \in At(s, w) : k <= j
      /\ At(s, w) = {i \in 1..Len(s) : s[i] = w}
  BY AtIs
<1>2. After(s, w) = SubSeq(s, k + 1, Len(s))
  BY DEF After
<1> HIDE DEF k
<1>3. Len(s) \in Nat
  BY LenProperties
<1>4. k \in 1..Len(s) /\ s[k] = w /\ k \in 0..Len(s)
  BY <1>1, <1>3
<1>5. /\ s = SubSeq(s, 1, k) \o After(s, w)
      /\ SubSeq(s, 1, k) \in Seq(Chars) /\ After(s, w) \in Seq(Chars)
  BY <1>2, <1>4, CutAt
<1>6. ASSUME NEW y \in Seq(Chars)
      PROVE  At(s \o y, w) # {} /\ After(s \o y, w) = After(s, w) \o y
  <2> DEFINE z == s \o y
             l == Smallest(At(z, w))
  <2>1. /\ z \in Seq(Chars) /\ Len(y) \in Nat /\ Len(z) = Len(s) + Len(y)
        /\ \A i \in 1..Len(s) : z[i] = s[i]
    BY Concat
  <2>2. SubSeq(z, k + 1, Len(z)) = After(s, w) \o y
    BY <1>2, <1>4, TailOfConcat
  <2> HIDE DEF z
  <2>3. k \in 1..Len(z) /\ z[k] = w
    BY <1>3, <1>4, <2>1
  <2>4. At(z, w) = {i \in 1..Len(z) : z[i] = w} /\ After(z, w) = SubSeq(z, l + 1, Len(z))
    BY <2>1, AtIs DEF After
  <2>5. k \in At(z, w)
    BY <2>3, <2>4
  <2>6. l \in At(z, w) /\ l <= k
    BY <2>1, <2>5, AtIs
  <2> HIDE DEF l
  <2>7. l \in 1..Len(z) /\ z[l] = w
    BY <2>4, <2>6
  <2>8. l \in 1..Len(s)
    BY <1>3, <1>4, <2>6, <2>7
  <2>9. l \in At(s, w)
    BY <1>1, <2>1, <2>7, <2>8
  <2>10. l = k
    BY <1>1, <1>4, <2>6, <2>8, <2>9
  <2> QED BY <2>2, <2>4, <2>5, <2>10 DEF z
<1> QED BY <1>5, <1>6

\* What x o y begins with, if y begins with something else, x begins with.
LEMMA BeginsConcat ==
  ASSUME NEW s \in Seq(Chars), NEW y \in Seq(Chars), NEW w,
         1 \in 1..Len(y), y[1] \notin Space, y[1] # w
  PROVE  /\ Begins(s \o y, w) <=> Begins(s, w)
         /\ Begins(s, w) => Solid(s) # {}
<1> DEFINE z == s \o y
           k == Smallest(Solid(s))
           l == Smallest(Solid(z))
<1>1. /\ z \in Seq(Chars) /\ Len(y) \in Nat /\ Len(s) \in Nat /\ Len(z) = Len(s) + Len(y)
      /\ \A i \in 1..Len(s) : z[i] = s[i]
      /\ \A i \in 1..Len(y) : z[Len(s) + i] = y[i]
  BY Concat
<1>2. Begins(s, w) <=> Solid(s) # {} /\ s[k] = w
  BY SolidIs
<1>3. CASE Solid(s) # {}
  <2>1. Solid(z) # {} /\ l = k
    BY <1>3, LstripConcat
  <2>2. k \in 1..Len(s)
    BY <1>3, SolidIs
  <2> HIDE DEF z, k, l
  <2>3. z[l] = s[k]
    BY <1>1, <2>1, <2>2
  <2>4. Begins(z, w) <=> Solid(z) # {} /\ z[l] = w
    BY <1>1, SolidIs DEF l
  <2> QED BY <1>2, <1>3, <2>1, <2>3, <2>4 DEF z
<1>4. CASE Solid(s) = {}
  <2> HIDE DEF z
  <2>1. Begins(z, w) <=> Solid(z) # {} /\ z[l] = w
    BY <1>1, SolidIs
  <2>2. Solid(z) = {i \in 1..Len(z) : z[i] \notin Space} /\ Solid(s) = {i \in 1..Len(s) : s[i] \notin Space}
    BY <1>1, SolidIs
  <2>3. z[Len(s) + 1] = y[1] /\ Len(s) + 1 \in 1..Len(z)
    BY <1>1
  <2>4. Len(s) + 1 \in Solid(z)
    BY <2>2, <2>3
  <2>5. l \in 1..Len(z) /\ z[l] \notin Space /\ l <= Len(s) + 1
    BY <1>1, <2>4, SolidIs
  <2> HIDE DEF l
  <2>6. l \notin 1..Len(s)
    BY <1>1, <1>4, <2>2, <2>5
  <2>7. l = Len(s) + 1
    BY <1>1, <2>5, <2>6
  <2> QED BY <1>2, <1>4, <2>1, <2>3, <2>7 DEF z
<1> QED BY <1>2, <1>3, <1>4

\* An object opens with a brace, has no tag in it, and ends with the brace that
\* closes the first.
LEMMA ObjectIs ==
  ASSUME NEW c \in Seq(Chars), IsPayload(c)
  PROVE  /\ Len(c) \in Nat /\ 1 \in 1..Len(c) /\ c[1] = LBrace
         /\ \A p \in 1..Len(c) : c[p] # Unthink /\ (Nesting(c, p) > 0 <=> p < Len(c))
         /\ LBrace \notin Space /\ LBrace # "<think>" /\ LBrace # "fence"
<1> DEFINE M == {LBrace, RBrace, "key", "customer", LQuoted, RQuoted, " ", "\n"}
<1>1. Len(c) \in Nat /\ DOMAIN c = 1..Len(c)
  BY LenProperties
<1>2. \A p \in DOMAIN c : c[p] \in M /\ (Nesting(c, p) > 0 <=> p < Len(c))
  <2>1. IsJson(c)
    BY DEF IsPayload
  <2> QED BY <2>1, Zenon DEF IsJson, LBrace, RBrace, LQuoted, RQuoted
<1>3. Unthink \notin M
  BY Zenon DEF LBrace, RBrace, LQuoted, RQuoted, Unthink
<1>4. LBrace \notin Space /\ LBrace # "<think>" /\ LBrace # "fence"
  BY Zenon DEF LBrace, Space
<1> HIDE DEF M
<1>5. \E p \in 1..Len(c) : Nesting(c, p) = 1
  <2>1. \E p \in At(c, "customer") : Nesting(c, p) = 1
    BY DEF IsPayload
  <2>2. At(c, "customer") = {i \in 1..Len(c) : c[i] = "customer"}
    BY AtIs
  <2> QED BY <2>1, <2>2
<1>6. 1 \in 1..Len(c) /\ 1 < Len(c)
  <2>1. PICK p \in 1..Len(c) : Nesting(c, p) = 1
    BY <1>5
  <2>2. p < Len(c)
    BY <1>1, <1>2, <2>1
  <2> QED BY <1>1, <2>2
<1>7. c[1] = LBrace
  <2> DEFINE L == At(c, LBrace) \cap (1..1)
             R == At(c, RBrace) \cap (1..1)
  <2>1. Nesting(c, 1) = Cardinality(L) - Cardinality(R)
    BY Zenon DEF Nesting, LBrace, RBrace
  <2>2. Nesting(c, 1) > 0
    BY <1>1, <1>2, <1>6
  <2>3. /\ At(c, LBrace) = Places(c, {LBrace}) /\ At(c, RBrace) = Places(c, {RBrace})
        /\ At(c, LBrace) = {i \in 1..Len(c) : c[i] = LBrace}
    BY AtIs
  <2>4. Cardinality(L) \in Nat /\ Cardinality(R) \in Nat
    BY <2>3, PlacesAre
  <2>5. L # {}
    <3>1. L = {} => Cardinality(L) = 0
      BY FS_EmptySet
    <3> HIDE DEF L, R
    <3> QED BY <2>1, <2>2, <2>4, <3>1
  <2>6. 1 \in At(c, LBrace)
    <3>1. \A i \in 1..1 : i = 1
      OBVIOUS
    <3> QED BY <2>5, <3>1
  <2> QED BY <2>3, <2>6
<1> QED BY <1>1, <1>2, <1>3, <1>4, <1>6, <1>7

\* A reasoning block before the object goes, and takes nothing of the object
\* with it.
LEMMA ShownIs ==
  ASSUME NEW s \in Seq(Chars), NEW c \in Seq(Chars), NEW t \in Seq(Chars), IsPayload(c),
         Begins(s, "<think>") /\ At(s, Unthink) = {} => At(t, Unthink) = {}
  PROVE  /\ StripThink(s) \in Seq(Chars)
         /\ StripThink(s \o (c \o t)) = StripThink(s) \o (c \o t)
<1> DEFINE y == c \o t
           B(x) == Begins(x, "<think>")
<1>1. /\ y \in Seq(Chars) /\ Len(y) \in Nat /\ 1 \in 1..Len(y) /\ y[1] = c[1]
      /\ y[1] \notin Space /\ y[1] # "<think>"
  <2>1. 1 \in 1..Len(c) /\ c[1] \notin Space /\ c[1] # "<think>" /\ Len(c) \in Nat
    BY ObjectIs
  <2>2. y \in Seq(Chars) /\ Len(t) \in Nat /\ Len(y) = Len(c) + Len(t) /\ y[1] = c[1]
    BY <2>1, Concat
  <2> HIDE DEF y
  <2> QED BY <2>1, <2>2
<1>2. \A x : StripThink(x) = IF B(x) /\ At(x, Unthink) # {} THEN After(x, Unthink) ELSE x
  BY Zenon DEF StripThink, Unthink
<1>3. At(y, Unthink) # {} => At(t, Unthink) # {}
  <2> SUFFICES ASSUME NEW i \in At(y, Unthink) PROVE At(t, Unthink) # {}
    OBVIOUS
  <2>1. /\ At(y, Unthink) = {j \in 1..Len(y) : y[j] = Unthink}
        /\ At(t, Unthink) = {j \in 1..Len(t) : t[j] = Unthink}
    BY <1>1, AtIs
  <2>2. i \in 1..Len(y) /\ y[i] = Unthink
    BY <2>1
  <2>3. i \in 1..(Len(c) + Len(t))
    BY <2>2, Concat
  <2>4. i \notin 1..Len(c)
    <3> SUFFICES ASSUME i \in 1..Len(c) PROVE FALSE
      OBVIOUS
    <3>1. y[i] = c[i]
      BY Concat
    <3> QED BY <2>2, <3>1, ObjectIs
  <2>5. i - Len(c) \in 1..Len(t) /\ t[i - Len(c)] = Unthink
    BY <2>2, <2>3, <2>4, Concat
  <2>6. i - Len(c) \in At(t, Unthink)
    BY <2>1, <2>5
  <2> QED BY <2>6
<1> HIDE DEF y
<1>4. B(s \o y) <=> B(s)
  BY <1>1, BeginsConcat
<1>5. CASE At(s, Unthink) # {}
  <2>1. /\ After(s, Unthink) \in Seq(Chars) /\ At(s \o y, Unthink) # {}
        /\ After(s \o y, Unthink) = After(s, Unthink) \o y
    BY <1>1, <1>5, AfterConcat
  <2> QED BY <1>2, <1>4, <1>5, <2>1 DEF y
<1>6. CASE At(s, Unthink) = {}
  <2>1. StripThink(s) = s
    BY <1>2, <1>6
  <2>2. B(s) => At(s \o y, Unthink) = {}
    <3> SUFFICES ASSUME B(s), NEW i \in At(s \o y, Unthink) PROVE FALSE
      OBVIOUS
    <3>1. At(y, Unthink) = {}
      BY <1>3, <1>6
    <3>2. s \o y \in Seq(Chars) /\ Len(s \o y) = Len(s) + Len(y)
      BY <1>1, Concat
    <3>3. /\ At(s \o y, Unthink) = {j \in 1..Len(s \o y) : (s \o y)[j] = Unthink}
          /\ At(s, Unthink) = {j \in 1..Len(s) : s[j] = Unthink}
          /\ At(y, Unthink) = {j \in 1..Len(y) : y[j] = Unthink}
      BY <1>1, <3>2, AtIs
    <3>4. i \in 1..(Len(s) + Len(y)) /\ (s \o y)[i] = Unthink
      BY <3>2, <3>3
    <3>5. CASE i \in 1..Len(s)
      <4>1. s[i] = Unthink
        BY <1>1, <3>4, <3>5, Concat
      <4> QED BY <1>6, <3>3, <3>5, <4>1
    <3>6. CASE i \notin 1..Len(s)
      <4>1. i - Len(s) \in 1..Len(y) /\ y[i - Len(s)] = Unthink
        BY <1>1, <3>4, <3>6, Concat
      <4> QED BY <3>1, <3>3, <4>1
    <3> QED BY <3>5, <3>6
  <2>3. StripThink(s \o y) = s \o y
    BY <1>2, <1>4, <2>2
  <2> QED BY <2>1, <2>3 DEF y
<1> QED BY <1>5, <1>6

\* What ends a text within its end.
LEMMA EndOfEnd ==
  ASSUME NEW u \in Seq(Chars), NEW v \in Seq(Chars), NEW x \in Seq(Chars)
  PROVE  u \o v \in Seq(Chars) /\ u \o (v \o x) = (u \o v) \o x
<1>1. (u \o v) \o x = u \o (v \o x)
  BY ConcatAssociative
<1>2. u \o v \in Seq(Chars)
  BY Concat
<1> QED BY <1>1, <1>2

LEMMA EndBehind ==
  ASSUME NEW u \in Seq(Chars), NEW l \in Seq(Chars), NEW w, At(l, w) # {}
  PROVE  /\ After(l, w) \in Seq(Chars)
         /\ \E v \in Seq(Chars) : u \o l = v \o After(l, w)
<1>1. After(l, w) \in Seq(Chars) /\ \E v \in Seq(Chars) : l = v \o After(l, w)
  BY AfterConcat
<1>2. PICK v \in Seq(Chars) : l = v \o After(l, w)
  BY <1>1
<1>3. u \o v \in Seq(Chars) /\ u \o (v \o After(l, w)) = (u \o v) \o After(l, w)
  BY <1>1, EndOfEnd
<1>4. u \o l = (u \o v) \o After(l, w)
  BY <1>2, <1>3
<1> QED BY <1>1, <1>3, <1>4

\* The fence of a line of its own before the object goes, and with it nothing
\* but what stands before.
LEMMA FenceIs ==
  ASSUME NEW s \in Seq(Chars), NEW y \in Seq(Chars),
         1 \in 1..Len(y), y[1] \notin Space, y[1] # "fence",
         ~(Begins(s, "fence") /\ At(Lstrip(s), Break) = {})
  PROVE  \E u \in Seq(Chars), x \in Seq(Chars) : s = u \o x /\ StripFence(s \o y) = x \o y
<1>1. Begins(s \o y, "fence") <=> Begins(s, "fence")
  BY BeginsConcat
<1>2. StripFence(s \o y) =
        IF ~Begins(s \o y, "fence") THEN s \o y
        ELSE IF At(Lstrip(s \o y), Break) = {} THEN <<>> ELSE After(Lstrip(s \o y), Break)
  BY Zenon DEF StripFence, Break
<1>3. CASE ~Begins(s, "fence")
  <2>1. StripFence(s \o y) = s \o y
    BY <1>1, <1>2, <1>3
  <2>2. <<>> \in Seq(Chars) /\ s = <<>> \o s
    BY EmptySeq, ConcatEmptySeq
  <2> QED BY <2>1, <2>2
<1>4. CASE Begins(s, "fence")
  <2> DEFINE l == Lstrip(s)
  <2>1. Solid(s) # {} /\ At(l, Break) # {}
    BY <1>4, BeginsConcat
  <2>2. /\ l \in Seq(Chars) /\ \E u \in Seq(Chars) : s = u \o l
        /\ Lstrip(s \o y) = l \o y
    BY <2>1, LstripConcat
  <2>3. StripFence(s \o y) = IF At(l \o y, Break) = {} THEN <<>> ELSE After(l \o y, Break)
    BY <1>1, <1>2, <1>4, <2>2
  <2> HIDE DEF l
  <2>4. l \in Seq(Chars) /\ At(l, Break) # {}
    BY <2>1, <2>2
  <2>5. At(l \o y, Break) # {} /\ After(l \o y, Break) = After(l, Break) \o y
    BY <2>4, AfterConcat
  <2>6. PICK u \in Seq(Chars) : s = u \o l
    BY <2>2
  <2>7. /\ After(l, Break) \in Seq(Chars)
        /\ \E v \in Seq(Chars) : u \o l = v \o After(l, Break)
    BY <2>4, EndBehind
  <2> QED BY <2>3, <2>5, <2>6, <2>7
<1> QED BY <1>3, <1>4

LBraces == {LBrace, LQuoted}
RBraces == {RBrace, RQuoted}

LEMMA DepthIs ==
  ASSUME NEW s \in Seq(Chars)
  PROVE  /\ Opening(s) = Places(s, LBraces) /\ Closing(s) = Places(s, RBraces)
         /\ \A p : /\ Cardinality(Places(s, LBraces) \cap (1..p)) \in Nat
                   /\ Cardinality(Places(s, RBraces) \cap (1..p)) \in Nat
                   /\ Depth(s, p) = Cardinality(Places(s, LBraces) \cap (1..p))
                                      - Cardinality(Places(s, RBraces) \cap (1..p))
<1>1. Opening(s) = At(s, LBrace) \cup At(s, LQuoted)
  BY Zenon DEF Opening, LBrace, LQuoted
<1>2. Closing(s) = At(s, RBrace) \cup At(s, RQuoted)
  BY Zenon DEF Closing, RBrace, RQuoted
<1>3. /\ Opening(s) = Places(s, LBraces) /\ Closing(s) = Places(s, RBraces)
  BY <1>1, <1>2 DEF At, Places, LBraces, RBraces
<1> QED BY <1>3, PlacesAre DEF Depth

\* How deep x o y is, in x and in y.
LEMMA DepthConcat ==
  ASSUME NEW x \in Seq(Chars), NEW y \in Seq(Chars)
  PROVE  /\ \A p \in 0..Len(x) : Depth(x \o y, p) = Depth(x, p)
         /\ \E k \in Int : \A p \in 0..Len(y) : Depth(x \o y, Len(x) + p) = k + Depth(y, p)
<1>1. x \o y \in Seq(Chars)
  BY Concat
<1>2. ASSUME NEW p \in 0..Len(x) PROVE Depth(x \o y, p) = Depth(x, p)
  <2>1. /\ Places(x \o y, LBraces) \cap (1..p) = Places(x, LBraces) \cap (1..p)
        /\ Places(x \o y, RBraces) \cap (1..p) = Places(x, RBraces) \cap (1..p)
    BY CountInFirst
  <2>2. /\ Depth(x \o y, p) = Cardinality(Places(x \o y, LBraces) \cap (1..p))
                                - Cardinality(Places(x \o y, RBraces) \cap (1..p))
        /\ Depth(x, p) = Cardinality(Places(x, LBraces) \cap (1..p))
                           - Cardinality(Places(x, RBraces) \cap (1..p))
    BY <1>1, DepthIs
  <2> QED BY <2>1, <2>2
<1> DEFINE a == Cardinality(Places(x, LBraces))
           b == Cardinality(Places(x, RBraces))
<1>3. a \in Nat /\ b \in Nat
  BY PlacesAre
<1>4. ASSUME NEW p \in 0..Len(y) PROVE Depth(x \o y, Len(x) + p) = a - b + Depth(y, p)
  <2> DEFINE c == Cardinality(Places(y, LBraces) \cap (1..p))
             d == Cardinality(Places(y, RBraces) \cap (1..p))
             e == Cardinality(Places(x \o y, LBraces) \cap (1..(Len(x) + p)))
             f == Cardinality(Places(x \o y, RBraces) \cap (1..(Len(x) + p)))
  <2>1. e = a + c /\ f = b + d
    BY CountConcat
  <2>2. Depth(x \o y, Len(x) + p) = e - f
    BY <1>1, DepthIs
  <2>3. Depth(y, p) = c - d /\ c \in Nat /\ d \in Nat
    BY DepthIs
  <2> HIDE DEF a, b, c, d, e, f
  <2> QED BY <1>3, <2>1, <2>2, <2>3
<1> HIDE DEF a, b
<1>5. a - b \in Int
  BY <1>3
<1> QED BY <1>2, <1>4, <1>5

\* Two tokens have no place in common.
LEMMA CountTwo ==
  ASSUME NEW s \in Seq(Chars), NEW v, NEW w, v # w, NEW I
  PROVE  /\ Cardinality(Places(s, {v, w}) \cap I) =
              Cardinality(At(s, v) \cap I) + Cardinality(At(s, w) \cap I)
         /\ Cardinality(At(s, v) \cap I) \in Nat /\ Cardinality(At(s, w) \cap I) \in Nat
<1> DEFINE V == At(s, v) \cap I
           W == At(s, w) \cap I
<1>1. At(s, v) = Places(s, {v}) /\ At(s, w) = Places(s, {w})
  BY AtIs
<1>2. /\ IsFiniteSet(V) /\ IsFiniteSet(W) /\ Cardinality(V) \in Nat /\ Cardinality(W) \in Nat
  BY <1>1, PlacesAre
<1>3. Places(s, {v, w}) \cap I = V \cup W /\ V \cap W = {}
  BY DEF At, Places
<1> HIDE DEF V, W
<1>4. Cardinality(V \cup W) = Cardinality(V) + Cardinality(W) - Cardinality(V \cap W)
  BY <1>2, FS_Union
<1>5. Cardinality(V \cap W) = 0
  BY <1>3, FS_EmptySet
<1>6. Cardinality(V \cup W) = Cardinality(V) + Cardinality(W)
  BY <1>2, <1>4, <1>5
<1> QED BY <1>2, <1>3, <1>6 DEF V, W

\* An object whose strings close the braces they open is one deep at its first
\* token and to nothing at its last, and never between.
LEMMA ObjectDepth ==
  ASSUME NEW c \in Seq(Chars), IsPayload(c),
         \A i \in 1..Len(c) : ~(Cardinality(At(c, RQuoted) \cap (1..i)) >
                                Cardinality(At(c, LQuoted) \cap (1..i))),
         Cardinality(At(c, LQuoted)) = Cardinality(At(c, RQuoted))
  PROVE  /\ \A p \in 1..Len(c) : Depth(c, p) \in Int /\ (Depth(c, p) >= 1 <=> p < Len(c))
         /\ Depth(c, 1) = 1
<1>1. /\ Len(c) \in Nat /\ 1 \in 1..Len(c) /\ c[1] = LBrace
      /\ \A p \in 1..Len(c) : Nesting(c, p) > 0 <=> p < Len(c)
  BY ObjectIs
<1>2. LBrace # LQuoted /\ RBrace # RQuoted /\ LBrace \notin RBraces
  BY Zenon DEF LBrace, RBrace, LQuoted, RQuoted, RBraces
<1>3. ASSUME NEW p \in 1..Len(c)
      PROVE  Depth(c, p) \in Int /\ (Depth(c, p) >= 1 <=> p < Len(c))
  <2> DEFINE i == Cardinality(At(c, LBrace) \cap (1..p))
             j == Cardinality(At(c, LQuoted) \cap (1..p))
             k == Cardinality(At(c, RBrace) \cap (1..p))
             l == Cardinality(At(c, RQuoted) \cap (1..p))
             m == Cardinality(Places(c, LBraces) \cap (1..p))
             n == Cardinality(Places(c, RBraces) \cap (1..p))
  <2>1. m = i + j /\ i \in Nat /\ j \in Nat
    <3>1. /\ Cardinality(Places(c, {LBrace, LQuoted}) \cap (1..p)) = i + j
          /\ i \in Nat /\ j \in Nat
      <4> HIDE DEF i, j
      <4> QED BY <1>2, CountTwo DEF i, j
    <3> QED BY <3>1 DEF LBraces
  <2>2. n = k + l /\ k \in Nat /\ l \in Nat
    <3>1. /\ Cardinality(Places(c, {RBrace, RQuoted}) \cap (1..p)) = k + l
          /\ k \in Nat /\ l \in Nat
      <4> HIDE DEF k, l
      <4> QED BY <1>2, CountTwo DEF k, l
    <3> QED BY <3>1 DEF RBraces
  <2>3. Depth(c, p) = m - n
    BY DepthIs
  <2>4. Nesting(c, p) = i - k
    BY Zenon DEF Nesting, LBrace, RBrace
  <2>5. ~(l > j)
    OBVIOUS
  <2>6. p = Len(c) => l = j
    <3> SUFFICES ASSUME p = Len(c) PROVE l = j
      OBVIOUS
    <3>1. /\ At(c, LQuoted) = {q \in 1..Len(c) : c[q] = LQuoted}
          /\ At(c, RQuoted) = {q \in 1..Len(c) : c[q] = RQuoted}
      BY AtIs
    <3>2. At(c, LQuoted) \cap (1..p) = At(c, LQuoted) /\ At(c, RQuoted) \cap (1..p) = At(c, RQuoted)
      BY <3>1
    <3> QED BY <3>2
  <2>7. Nesting(c, p) > 0 <=> p < Len(c)
    BY <1>1
  <2> HIDE DEF i, j, k, l, m, n
  <2>8. p < Len(c) \/ p = Len(c)
    BY <1>1
  <2> QED BY <1>1, <2>1, <2>2, <2>3, <2>4, <2>5, <2>6, <2>7, <2>8
<1>4. Depth(c, 1) = 1
  <2>1. Places(c, LBraces) \cap (1..1) = {1} /\ Places(c, RBraces) \cap (1..1) = {}
    <3>1. \A i \in 1..1 : i = 1
      OBVIOUS
    <3>2. 1 \in DOMAIN c /\ LBrace \in LBraces /\ 1 \in 1..1
      BY <1>1, LenProperties DEF LBraces
    <3> QED BY <1>1, <1>2, <3>1, <3>2 DEF Places
  <2>2. Cardinality({1}) = 1 /\ Cardinality({}) = 0
    BY FS_Singleton, FS_EmptySet
  <2>3. Depth(c, 1) = Cardinality(Places(c, LBraces) \cap (1..1))
                        - Cardinality(Places(c, RBraces) \cap (1..1))
    BY DepthIs
  <2>4. Depth(c, 1) = Cardinality({1}) - Cardinality({})
    BY <2>1, <2>3
  <2>5. Depth(c, 1) = 1 - 0
    BY <2>2, <2>4, Zenon
  <2> QED BY <2>5
<1> QED BY <1>3, <1>4

\* Behind fewer opening braces than are tried, the object is tried as it stands.
LEMMA ObjectIsTried ==
  ASSUME NEW x \in Seq(Chars), NEW c \in Seq(Chars), NEW t \in Seq(Chars), IsPayload(c),
         \A i \in 1..Len(c) : ~(Cardinality(At(c, RQuoted) \cap (1..i)) >
                                Cardinality(At(c, LQuoted) \cap (1..i))),
         Cardinality(At(c, LQuoted)) = Cardinality(At(c, RQuoted)),
         Cardinality(Opening(x)) < MaxScan
  PROVE  c \in Candidates(x \o (c \o t))
<1> DEFINE y == c \o t
           s == x \o y
           i == Len(x) + 1
           e == Len(x) + Len(c)
<1>1. /\ y \in Seq(Chars) /\ Len(y) = Len(c) + Len(t) /\ Len(t) \in Nat
      /\ \A j \in 1..Len(c) : y[j] = c[j]
  BY Concat
<1>2. Len(c) \in Nat /\ 1 \in 1..Len(c) /\ c[1] = LBrace
  BY ObjectIs
<1>3. /\ \A p \in 1..Len(c) : Depth(c, p) \in Int /\ (Depth(c, p) >= 1 <=> p < Len(c))
      /\ Depth(c, 1) = 1
  BY ObjectDepth
<1>4. \A p \in 0..Len(c) : Depth(y, p) = Depth(c, p)
  BY DepthConcat
<1>5. \A W : Places(y, W) \cap (1..1) = Places(c, W) \cap (1..1)
  <2>1. 1 \in 0..Len(c)
    BY <1>2
  <2> QED BY <2>1, CountInFirst
<1> HIDE DEF y
<1>6. /\ s \in Seq(Chars) /\ Len(s) = Len(x) + Len(y) /\ Len(x) \in Nat
      /\ \A j \in 1..Len(y) : s[Len(x) + j] = y[j]
  BY <1>1, Concat
<1>7. PICK k \in Int : \A p \in 0..Len(y) : Depth(s, Len(x) + p) = k + Depth(y, p)
  BY <1>1, DepthConcat
<1>8. \A p \in 1..Len(c) : p \in 0..Len(c) /\ p \in 0..Len(y)
  BY <1>1, <1>2
<1>9. \A p \in 1..Len(c) : Depth(s, Len(x) + p) = k + Depth(c, p)
  BY <1>4, <1>7, <1>8
<1>10. i \in Starts(s)
  <2>1. Opening(s) = Places(s, LBraces) /\ Opening(x) = Places(x, LBraces)
    BY <1>6, DepthIs
  <2>2. s[i] = LBrace
    <3>1. 1 \in 1..Len(y)
      BY <1>1, <1>2
    <3> QED BY <1>1, <1>2, <1>6, <3>1
  <2>3. i \in 1..Len(s) /\ DOMAIN s = 1..Len(s)
    <3>1. DOMAIN s = 1..Len(s)
      BY <1>6, LenProperties
    <3> HIDE DEF s
    <3> QED BY <1>1, <1>2, <1>6, <3>1
  <2>4. i \in Opening(s)
    BY <2>1, <2>2, <2>3 DEF Places, LBraces
  <2>5. Cardinality(Places(s, LBraces) \cap (1..i))
          = Cardinality(Places(x, LBraces)) + Cardinality(Places(y, LBraces) \cap (1..1))
    <3>1. 1 \in 0..Len(y)
      BY <1>1, <1>2
    <3>2. ASSUME NEW p \in 0..Len(y)
          PROVE  Cardinality(Places(s, LBraces) \cap (1..(Len(x) + p)))
                   = Cardinality(Places(x, LBraces)) + Cardinality(Places(y, LBraces) \cap (1..p))
      BY <1>1, CountConcat
    <3> HIDE DEF s
    <3> QED BY <3>1, <3>2
  <2>6. Cardinality(Places(c, LBraces) \cap (1..1)) = 1
    <3>1. \A j \in 1..1 : j = 1
      OBVIOUS
    <3>2. 1 \in DOMAIN c /\ LBrace \in LBraces /\ 1 \in 1..1
      BY <1>2, LenProperties DEF LBraces
    <3>3. Places(c, LBraces) \cap (1..1) = {1}
      BY <1>2, <3>1, <3>2 DEF Places
    <3> QED BY <3>3, FS_Singleton
  <2>7. Cardinality(Places(x, LBraces)) \in Nat
    BY PlacesAre
  <2>8. MaxScan \in Nat
    BY ScanAssumption
  <2>9. Cardinality(Opening(s) \cap (1..i)) <= MaxScan
    <3> DEFINE u == Cardinality(Places(s, LBraces) \cap (1..i))
               v == Cardinality(Places(x, LBraces))
    <3>1. v < MaxScan
      BY <2>1
    <3>2. u = v + 1
      BY <1>5, <2>5, <2>6
    <3>3. Cardinality(Opening(s) \cap (1..i)) = u
      BY <2>1
    <3>4. v \in Nat
      BY <2>7
    <3> HIDE DEF u, v
    <3>5. u <= MaxScan
      BY <2>8, <3>1, <3>2, <3>4
    <3> QED BY <3>3, <3>5
  <2> HIDE DEF s, i
  <2> QED BY <2>4, <2>9 DEF Starts
<1> HIDE DEF s
<1>11. Depth(s, i) = k + 1
  BY <1>2, <1>3, <1>9
<1>12. /\ e \in Ends(s, i) /\ Ends(s, i) \in SUBSET Nat
       /\ \A j \in Ends(s, i) : e <= j
  <2>1. e \in i..Len(s) /\ Len(c) \in 1..Len(c)
    BY <1>1, <1>2, <1>6
  <2>2. Depth(s, e) < k + 1
    <3>1. Depth(s, Len(x) + Len(c)) = k + Depth(c, Len(c))
      BY <1>9, <2>1
    <3>2. ~(Depth(c, Len(c)) >= 1) /\ Depth(c, Len(c)) \in Int
      BY <1>2, <1>3, <2>1
    <3> QED BY <3>1, <3>2
  <2>3. Ends(s, i) = {p \in i..Len(s) : Depth(s, p) < k + 1}
    BY <1>11 DEF Ends
  <2>4. e \in Ends(s, i)
    BY <2>1, <2>2, <2>3
  <2>5. ASSUME NEW j \in i..Len(s), j < e PROVE ~(Depth(s, j) < k + 1)
    <3>1. j - Len(x) \in 1..Len(c) /\ j - Len(x) < Len(c) /\ Len(x) + (j - Len(x)) = j
      BY <1>1, <1>2, <1>6, <2>5
    <3>2. Depth(s, j) = k + Depth(c, j - Len(x))
      BY <1>9, <3>1
    <3>3. Depth(c, j - Len(x)) >= 1 /\ Depth(c, j - Len(x)) \in Int
      BY <1>3, <3>1
    <3> HIDE DEF i, e
    <3> QED BY <3>2, <3>3
  <2>6. \A j \in i..Len(s) : j \in Nat /\ (j < e \/ e <= j)
    BY <1>2, <1>6
  <2> HIDE DEF i, e
  <2> QED BY <2>3, <2>4, <2>5, <2>6
<1>13. Smallest(Ends(s, i)) = e
  <2>1. Smallest(Ends(s, i)) \in Ends(s, i) /\ Smallest(Ends(s, i)) <= e
    BY <1>12, SmallestIs
  <2>2. e <= Smallest(Ends(s, i)) /\ Smallest(Ends(s, i)) \in Nat /\ e \in Nat
    BY <1>12, <2>1
  <2> HIDE DEF i, e
  <2> QED BY <2>1, <2>2
<1>14. SubSeq(s, i, e) = c
  <2>1. /\ i \in (Len(x) + 1)..(Len(x) + Len(y)) /\ e \in i..(Len(x) + Len(y))
        /\ i - Len(x) = 1 /\ e - Len(x) = Len(c)
    BY <1>1, <1>2, <1>6
  <2>2. SubSeq(s, i, e) = SubSeq(y, 1, Len(c))
    <3>1. SubSeq(x \o y, i, e) = SubSeq(y, i - Len(x), e - Len(x))
      <4> HIDE DEF i, e
      <4> QED BY <1>1, <2>1, SubSeqOfConcat2
    <3> QED BY <2>1, <3>1 DEF s
  <2>3. SubSeq(y, 1, Len(c)) = SubSeq(c, 1, Len(c))
    <3>1. 1 \in 1..Len(c) /\ Len(c) \in 1..Len(c)
      BY <1>2
    <3> QED BY <3>1, SubSeqOfConcat1 DEF y
  <2>4. SubSeq(c, 1, Len(c)) = c
    BY SubSeqFull
  <2> QED BY <2>2, <2>3, <2>4
<1> HIDE DEF i, e
<1>15. c \in Candidates(s)
  <2>1. i \in {j \in Starts(s) : Ends(s, j) # {}}
    BY <1>10, <1>12
  <2> QED BY <1>13, <1>14, <2>1 DEF Candidates
<1> QED BY <1>15 DEF s, y

\* The object is found unless one of the five reasons holds (runtime.py:101-168).
THEOREM ObjectIsFound == Spec => []PayloadIsFound
<1>1. ASSUME PipeInv PROVE PayloadIsFound
  <2> DEFINE b == reply.before
             o == reply.object
             a == reply.after
             shown == StripThink(b)
             Unclosed == \E i \in DOMAIN o : Cardinality(At(o, RQuoted) \cap (1..i)) >
                                             Cardinality(At(o, LQuoted) \cap (1..i))
             Uneven == Cardinality(At(o, LQuoted)) # Cardinality(At(o, RQuoted))
             TooMany == Cardinality(Opening(shown)) >= MaxScan
             FenceOnly == Begins(shown, "fence") /\ At(Lstrip(shown), Break) = {}
             Swallowed == /\ Begins(b, "<think>") /\ At(b, Unthink) = {}
                          /\ At(a, Unthink) # {}
  <2> SUFFICES ASSUME stage = "unreadable", ~Unclosed, ~Uneven, ~TooMany, ~FenceOnly, ~Swallowed
      PROVE  FALSE
    BY Zenon DEF PayloadIsFound, RQuoted, LQuoted, Break, Unthink
  <2>1. reply \in Replies /\ ~HasPayload(Whole(reply))
    BY <1>1 DEF PipeInv
  <2>2. /\ b \in Seq(Chars) /\ o \in Seq(Chars) /\ a \in Seq(Chars) /\ IsPayload(o)
    BY <2>1, ReplyIs
  <2>3. \A i \in 1..Len(o) : ~(Cardinality(At(o, RQuoted) \cap (1..i)) >
                               Cardinality(At(o, LQuoted) \cap (1..i)))
    BY <2>2, LenProperties
  <2>4. Cardinality(At(o, LQuoted)) = Cardinality(At(o, RQuoted))
    OBVIOUS
  <2>5. Whole(reply) = b \o (o \o a)
    <3> HIDE DEF b, o, a
    <3>1. (b \o o) \o a = b \o (o \o a)
      BY <2>2, ConcatAssociative
    <3> QED BY <3>1 DEF Whole, b, o, a
  <2>6. ~(Cardinality(Opening(shown)) >= MaxScan)
    OBVIOUS
  <2>7. ~(Begins(shown, "fence") /\ At(Lstrip(shown), Break) = {})
    OBVIOUS
  <2>8. Begins(b, "<think>") /\ At(b, Unthink) = {} => At(a, Unthink) = {}
    OBVIOUS
  <2> HIDE DEF b, o, a, Unclosed, Uneven, TooMany, FenceOnly, Swallowed
  <2>9. shown \in Seq(Chars) /\ StripThink(b \o (o \o a)) = shown \o (o \o a)
    BY <2>2, <2>8, ShownIs
  <2> HIDE DEF shown
  <2> DEFINE y == o \o a
  <2>10. y \in Seq(Chars) /\ 1 \in 1..Len(y) /\ y[1] \notin Space /\ y[1] # "fence"
    <3>1. /\ Len(o) \in Nat /\ 1 \in 1..Len(o) /\ o[1] \notin Space /\ o[1] # "fence"
      BY <2>2, ObjectIs
    <3>2. /\ y \in Seq(Chars) /\ Len(a) \in Nat /\ Len(y) = Len(o) + Len(a) /\ y[1] = o[1]
      BY <2>2, <3>1, Concat
    <3> HIDE DEF y
    <3> QED BY <3>1, <3>2
  <2> HIDE DEF y
  <2>11. PICK u \in Seq(Chars), x \in Seq(Chars) :
           shown = u \o x /\ StripFence(shown \o y) = x \o y
    BY <2>7, <2>9, <2>10, FenceIs
  <2>12. Cardinality(Opening(x)) < MaxScan
    <3> DEFINE k == Cardinality(Places(x, LBraces))
               l == Cardinality(Places(u, LBraces))
               m == Cardinality(Places(shown, LBraces))
               n == Cardinality(Places(u \o x, LBraces) \cap (1..(Len(u) + Len(x))))
    <3>1. k \in Nat /\ l \in Nat /\ m \in Nat /\ n <= m /\ n \in Nat
      BY <2>9, <2>11, PlacesAre
    <3>2. n = l + Cardinality(Places(x, LBraces) \cap (1..Len(x)))
      <4>1. Len(x) \in 0..Len(x)
        BY LenProperties
      <4> QED BY <4>1, CountConcat
    <3>3. Places(x, LBraces) \cap (1..Len(x)) = Places(x, LBraces)
      BY PlacesAre
    <3>4. Opening(x) = Places(x, LBraces) /\ Opening(shown) = Places(shown, LBraces)
      BY <2>9, DepthIs
    <3>5. ~(m >= MaxScan) /\ n = l + k
      BY <2>6, <3>2, <3>3, <3>4
    <3>6. MaxScan \in Nat
      BY ScanAssumption
    <3> HIDE DEF k, l, m, n
    <3>7. k < MaxScan
      BY <3>1, <3>5, <3>6
    <3> QED BY <3>4, <3>7 DEF k
  <2>13. o \in Candidates(x \o y)
    BY <2>2, <2>3, <2>4, <2>12, ObjectIsTried DEF y
  <2>14. StripFence(StripThink(Whole(reply))) = x \o y
    BY <2>5, <2>9, <2>11 DEF y
  <2>15. HasPayload(Whole(reply))
    BY <2>2, <2>13, <2>14 DEF HasPayload
  <2> QED BY <2>1, <2>15
<1> QED BY <1>1, PipeSteps, PTL

=============================================================================
