-------------------------- MODULE ChangeSheet_proofs --------------------------
(***************************************************************************)
(* Proofs about ChangeSheet, for sheets of every size and every set of     *)
(* workbooks.                                                              *)
(***************************************************************************)
EXTENDS ChangeSheet, TLAPS, FiniteSetTheorems

-----------------------------------------------------------------------------
(* The inductive invariant, in parts.                                      *)

\* The workbook is one of the given ones, and where there is a target it is one
\* of its sheets.
BookKnown ==
  /\ book \in Books
  /\ target # 0 => target \in DOMAIN book
  /\ origin # 0 => origin \in DOMAIN book
  /\ stage \in {"start", "read", "refined"} =>
       target = 0 /\ written = [c \in Cells |-> 0]
  /\ stage = "start" => origin = 0
  /\ stage \in {"start", "read"} => texts = {}

\* A range is gone only for a text that is meant to go into it.
SplitForText ==
  target # 0 =>
    \A n \in book[target].merges \ merges :
      \E r \in texts : <<r, column>> \in n

\* Texts are written into module cells of refined rows, and into no others.
WrittenAreTexts ==
  \A c \in Cells : written[c] # 0 => \E r \in texts : c = <<r, column>>

\* A row that has its text has a module cell that shows.
WrittenShow ==
  stage \in {"writing", "saved"} =>
    \A r \in texts : written[<<r, column>>] = r => ~Covered(<<r, column>>)

SavedIsWhole == stage = "saved" => Left = {}

IInv ==
  /\ TypeOK
  /\ BookKnown
  /\ SplitForText
  /\ WrittenAreTexts
  /\ WrittenShow
  /\ SavedIsWhole
  /\ ChangesAreRead

-----------------------------------------------------------------------------
(* Facts about reading.                                                    *)

\* Rows are counted by natural numbers.
LEMMA CountsAreNatural ==
  ASSUME NEW T, T \subseteq 1..Rows
  PROVE  IsFiniteSet(T) /\ Cardinality(T) \in Nat
<1>1. IsFiniteSet(1..Rows)
  BY SheetAssumption, FS_Interval
<1>2. IsFiniteSet(T)
  BY <1>1, FS_Subset
<1> QED BY <1>2, FS_CardinalityType

\* The best candidate has the most change points below it.
LEMMA BestHasMost ==
  ASSUME NEW b, NEW k \in Candidates(b), IsBest(b, k), NEW l \in Candidates(b)
  PROVE  Cardinality(ChangesBelow(b[l[1]], l[2])) <=
           Cardinality(ChangesBelow(b[k[1]], k[2]))
<1> DEFINE C(x) == Cardinality(ChangesBelow(b[x[1]], x[2]))
<1>1. C(k) \in Nat /\ C(l) \in Nat
  <2>1. ChangesBelow(b[k[1]], k[2]) \subseteq 1..Rows
    BY SheetAssumption DEF ChangesBelow, Below, Candidates, Cells
  <2>2. ChangesBelow(b[l[1]], l[2]) \subseteq 1..Rows
    BY SheetAssumption DEF ChangesBelow, Below, Candidates, Cells
  <2> QED BY <2>1, <2>2, CountsAreNatural
<1>2. CASE l = k
  BY <1>1, <1>2
<1>3. CASE l # k
  <2>1. C(l) < C(k) \/ C(l) = C(k)
    BY <1>3 DEF IsBest, Score, Precedes
  <2> QED BY <2>1, <1>1
<1> QED BY <1>2, <1>3

\* Reading takes the change points of the best candidate along.
LEMMA ReadTakesMost ==
  ASSUME TypeOK, BookKnown, Read
  PROVE  ChangesAreRead'
<1>1. PICK k \in Candidates(book) :
        IsBest(book, k) /\ points' = Points(book, k) /\ origin' = k[1]
  BY DEF Read
<1> DEFINE Taken == {r \in DOMAIN points' : points'[r] = "change"}
<1>4. Taken = ChangesBelow(book[k[1]], k[2])
  BY <1>1 DEF ChangesBelow, Points
<1>5. Cardinality(Taken) = Cardinality(ChangesBelow(book[k[1]], k[2]))
  BY <1>4
<1>6. ASSUME NEW l \in Candidates(book)
      PROVE  Cardinality(ChangesBelow(book[l[1]], l[2])) <= Cardinality(Taken)
  <2>1. Cardinality(ChangesBelow(book[l[1]], l[2])) <=
          Cardinality(ChangesBelow(book[k[1]], k[2]))
    BY <1>1, BestHasMost
  <2> QED BY <1>5, <2>1
<1>7. book' = book
  BY DEF Read
<1> QED BY <1>6, <1>7 DEF ChangesAreRead

-----------------------------------------------------------------------------
(* The invariant.                                                          *)

LEMMA InitIInv == Init => IInv
<1> SUFFICES ASSUME Init PROVE IInv
  OBVIOUS
<1>1. TypeOK
  BY SheetAssumption DEF Init, TypeOK, Cells
<1>2. BookKnown /\ SplitForText /\ WrittenAreTexts /\ WrittenShow
      /\ SavedIsWhole /\ ChangesAreRead
  BY DEF Init, BookKnown, SplitForText, WrittenAreTexts, WrittenShow,
         SavedIsWhole, ChangesAreRead
<1> QED BY <1>1, <1>2 DEF IInv

\* What a step that leaves sheet and results alone keeps.
LEMMA SheetAlone ==
  ASSUME IInv, UNCHANGED <<book, texts, sheetVars>>
  PROVE  /\ SplitForText' /\ WrittenAreTexts'
         /\ stage \in {"writing", "saved"} \/ stage' \notin {"writing", "saved"}
              => WrittenShow'
  BY DEF IInv, SplitForText, WrittenAreTexts, WrittenShow, Covered, sheetVars

LEMMA ReadKeeps == ASSUME IInv, Read PROVE IInv'
<1> USE DEF IInv
<1>1. PICK k \in Candidates(book) : points' = Points(book, k) /\ origin' = k[1]
  BY DEF Read
<1>2. k[1] \in DOMAIN book /\ k[2][1] \in 1..Rows
  BY DEF Candidates, Cells
<1>3. DOMAIN book = 1..Len(book) /\ Len(book) \in Nat
  BY SheetAssumption DEF BookKnown
<1>4. TypeOK'
  <2>1. DOMAIN points' \subseteq 1..Rows /\ points' \in [DOMAIN points' -> Values \ {"none"}]
    <3>1. DOMAIN points' = Below(book[k[1]], k[2]) /\ Below(book[k[1]], k[2]) \subseteq 1..Rows
      BY <1>1, <1>2, SheetAssumption DEF Points, Below
    <3>2. book[k[1]] \in Sheets /\ k[2][2] \in 1..Cols
      BY <1>2, SheetAssumption DEF BookKnown, Candidates, Cells
    <3>3. ASSUME NEW r \in Below(book[k[1]], k[2])
          PROVE  book[k[1]].value[<<r, k[2][2]>>] \in Values \ {"none"}
      BY <3>1, <3>2 DEF Below, Sheets, Cells
    <3> QED BY <1>1, <3>1, <3>3 DEF Points
  <2>2. texts = {}
    BY DEF Read, BookKnown
  <2> QED BY <1>1, <1>2, <1>3, <2>1, <2>2 DEF Read, TypeOK, sheetVars
<1>5. BookKnown'
  BY <1>1, <1>2 DEF Read, BookKnown, sheetVars
<1>6. ChangesAreRead'
  BY ReadTakesMost
<1>7. SavedIsWhole' /\ WrittenShow'
  BY DEF Read, SavedIsWhole, WrittenShow
<1>8. SplitForText' /\ WrittenAreTexts'
  BY SheetAlone DEF Read
<1> QED BY <1>4, <1>5, <1>6, <1>7, <1>8

\* The steps that only say how the run goes on, or ends.
LEMMA MoveKeeps ==
  ASSUME IInv, Reject \/ Refine \/ Raise \/ Remind \/ Save
  PROVE  IInv'
<1> USE DEF IInv
<1>1. UNCHANGED <<book, points, origin, sheetVars>>
  BY DEF Reject, Refine, Raise, Remind, Save
<1>2. /\ stage' \in {"refined", "saved", "reminded", "rejected", "raised"}
      /\ stage' = "saved" => stage = "writing" /\ Left = {} /\ texts' = texts
      /\ stage' = "refined" => stage = "read" /\ texts' \in SUBSET DOMAIN points
      /\ stage' # "refined" => texts' = texts
  BY DEF Reject, Refine, Raise, Remind, Save
<1>3. TypeOK'
  BY <1>1, <1>2 DEF TypeOK, sheetVars
<1>4. BookKnown'
  BY <1>1, <1>2 DEF BookKnown, sheetVars
<1>5. SplitForText' /\ WrittenAreTexts'
  <2>1. CASE stage' = "refined"
    BY <2>1, <1>1, <1>2 DEF BookKnown, SplitForText, WrittenAreTexts, sheetVars
  <2>2. CASE stage' # "refined"
    BY <2>2, <1>1, <1>2, SheetAlone
  <2> QED BY <2>1, <2>2
<1>6. WrittenShow' /\ SavedIsWhole'
  BY <1>1, <1>2 DEF WrittenShow, SavedIsWhole, Left, Covered, sheetVars
<1>7. ChangesAreRead'
  BY <1>1 DEF ChangesAreRead
<1> QED BY <1>3, <1>4, <1>5, <1>6, <1>7

LEMMA OpenKeeps == ASSUME IInv, Open PROVE IInv'
<1> USE DEF IInv
<1>1. PICK i \in WithModule : \E c \in ModuleHeaders(book[i]) :
        target' = i /\ column' = c[2] /\ merges' = book[i].merges
  BY DEF Open
<1>2. i \in DOMAIN book /\ column' \in 1..Cols
  BY <1>1 DEF WithModule, ModuleHeaders, Cells
<1>3. DOMAIN book = 1..Len(book) /\ Len(book) \in Nat
  BY SheetAssumption DEF BookKnown
<1>4. TypeOK'
  BY <1>1, <1>2, <1>3 DEF Open, TypeOK
<1>5. BookKnown'
  BY <1>1, <1>2 DEF Open, BookKnown
<1>6. \A c \in Cells : written'[c] = 0
  BY DEF Open, BookKnown
<1>7. WrittenAreTexts' /\ WrittenShow'
  <2>1. WrittenAreTexts'
    BY <1>6 DEF WrittenAreTexts
  <2>2. ASSUME NEW r \in texts' PROVE written'[<<r, column'>>] # r
    <3>1. r \in 1..Rows /\ r # 0
      BY <1>4, SheetAssumption DEF TypeOK
    <3> QED BY <1>2, <1>6, <3>1 DEF Cells
  <2> QED BY <2>1, <2>2 DEF WrittenShow
<1>8. SplitForText' /\ SavedIsWhole' /\ ChangesAreRead'
  BY <1>1 DEF Open, SplitForText, SavedIsWhole, ChangesAreRead
<1> QED BY <1>4, <1>5, <1>7, <1>8

LEMMA WriteKeeps == ASSUME IInv, NEW r \in 1..Rows, Write(r) PROVE IInv'
<1> USE DEF IInv
<1>1. r \in texts /\ stage = "writing"
  BY DEF Write, Turn, Left
<1>2. merges' \subseteq merges
  BY DEF Write
<1>3. <<r, column>> \in Cells
  BY <1>1 DEF TypeOK, Cells
<1>4. written' = [written EXCEPT ![<<r, column>>] = r]
  BY DEF Write
<1>5. TypeOK'
  <2>1. written' \in [Cells -> 0..Rows]
    <3>1. written \in [Cells -> 0..Rows] /\ r \in 0..Rows
      BY SheetAssumption DEF TypeOK
    <3> QED BY <3>1, <1>4
  <2> QED BY <1>2, <2>1 DEF Write, TypeOK
<1>6. BookKnown' /\ SavedIsWhole' /\ ChangesAreRead'
  BY <1>1 DEF Write, BookKnown, SavedIsWhole, ChangesAreRead
<1>7. SplitForText'
  BY <1>1 DEF Write, SplitForText
<1>8. WrittenAreTexts'
  BY <1>1, <1>3, <1>4 DEF Write, WrittenAreTexts, TypeOK
<1>9. WrittenShow'
  <2> SUFFICES ASSUME NEW q \in texts, written'[<<q, column>>] = q,
                      NEW m \in merges', <<q, column>> \in m,
                      <<q, column>> # Anchor(m)
               PROVE  FALSE
    BY DEF Write, WrittenShow, Covered
  <2>1. CASE q = r
    BY <2>1, <1>2 DEF Write, Covered
  <2>2. CASE q # r
    <3>1. written[<<q, column>>] = q
      <4>1. <<q, column>> # <<r, column>>
        BY <2>2
      <4>2. <<q, column>> \in Cells
        BY <1>1, SheetAssumption DEF TypeOK, Cells
      <4> QED BY <4>1, <4>2, <1>4 DEF TypeOK
    <3> QED BY <3>1, <1>1, <1>2 DEF WrittenShow, Covered
  <2> QED BY <2>1, <2>2
<1> QED BY <1>5, <1>6, <1>7, <1>8, <1>9

THEOREM Invariance == Spec => []IInv
<1>1. IInv /\ [Next]_vars => IInv'
  <2> SUFFICES ASSUME IInv, [Next]_vars PROVE IInv'
    OBVIOUS
  <2>1. CASE Read
    BY <2>1, ReadKeeps
  <2>2. CASE Reject \/ Refine \/ Raise \/ Remind \/ Save
    BY <2>2, MoveKeeps
  <2>3. CASE Open
    BY <2>3, OpenKeeps
  <2>4. CASE \E r \in 1..Rows : Write(r)
    BY <2>4, WriteKeeps
  <2>5. CASE UNCHANGED vars
    BY <2>5 DEF IInv, TypeOK, BookKnown, SplitForText, WrittenAreTexts,
       WrittenShow, SavedIsWhole, ChangesAreRead, Left, Covered, vars, sheetVars
  <2> QED BY <2>1, <2>2, <2>3, <2>4, <2>5 DEF Next
<1> QED BY <1>1, InitIInv, PTL DEF Spec

-----------------------------------------------------------------------------
(* The properties.                                                         *)

\* Type correctness.
THEOREM Typing == Spec => []TypeOK
<1>1. IInv => TypeOK
  BY DEF IInv
<1> QED BY <1>1, Invariance, PTL

\* However many sheets and headers there are, the texts that are read hold as
\* many change points as stand below any of the headers.
THEOREM ReadingTakesMost == Spec => []ChangesAreRead
<1>1. IInv => ChangesAreRead
  BY DEF IInv
<1> QED BY <1>1, Invariance, PTL

\* Every refined row shows its text in the file, for every way to merge cells.
THEOREM TextsShow == Spec => []TextsAreShown
<1>1. IInv => TextsAreShown
  <2> SUFFICES ASSUME IInv, stage = "saved", NEW r \in texts
               PROVE  written[ShownIn(merges, <<r, column>>)] = r
    BY DEF TextsAreShown
  <2>1. written[<<r, column>>] = r
    BY DEF IInv, SavedIsWhole, Left
  <2>2. ~Covered(<<r, column>>)
    BY <2>1 DEF IInv, WrittenShow
  <2>3. ShownIn(merges, <<r, column>>) = <<r, column>>
    <3>1. CASE Over(merges, <<r, column>>) = {}
      BY <3>1 DEF ShownIn
    <3>2. CASE Over(merges, <<r, column>>) # {}
      <4> DEFINE n == CHOOSE m \in Over(merges, <<r, column>>) : TRUE
      <4>1. n \in Over(merges, <<r, column>>)
        BY <3>2
      <4>2. n \in merges /\ <<r, column>> \in n
        BY <4>1 DEF Over
      <4>3. Anchor(n) = <<r, column>>
        BY <2>2, <4>2 DEF Covered
      <4> QED BY <3>2, <4>3 DEF ShownIn
    <3> QED BY <3>1, <3>2
  <2> QED BY <2>1, <2>3
<1> QED BY <1>1, Invariance, PTL

\* No other cell shows anything but what it did.
THEOREM OthersKeep == Spec => []OthersKeepTheirs
<1>1. IInv => OthersKeepTheirs
  <2> SUFFICES ASSUME IInv, stage = "saved", NEW c \in Cells,
                      \A r \in texts :
                        <<r, column>> \notin {c} \cup UNION Over(book[target].merges, c)
               PROVE  /\ ShownIn(merges, c) = ShownIn(book[target].merges, c)
                      /\ written[ShownIn(merges, c)] = 0
    BY DEF OthersKeepTheirs
  <2> USE DEF IInv
  <2>1. target # 0 /\ target \in DOMAIN book /\ merges \subseteq book[target].merges
    BY DEF TypeOK, BookKnown
  <2>2. Over(merges, c) = Over(book[target].merges, c)
    <3>1. ASSUME NEW n \in Over(book[target].merges, c) PROVE n \in merges
      <4>1. \A r \in texts : <<r, column>> \notin n
        OBVIOUS
      <4> QED BY <2>1, <4>1 DEF SplitForText, Over
    <3> QED BY <3>1, <2>1 DEF Over
  <2>3. ShownIn(merges, c) = ShownIn(book[target].merges, c)
    BY <2>2 DEF ShownIn
  <2>4. /\ ShownIn(merges, c) \in Cells
        /\ \A r \in texts : ShownIn(merges, c) # <<r, column>>
    <3>1. CASE Over(book[target].merges, c) = {}
      <4>1. ShownIn(merges, c) = c
        BY <3>1, <2>2 DEF ShownIn
      <4>2. \A r \in texts : <<r, column>> # c
        OBVIOUS
      <4> QED BY <4>1, <4>2
    <3>2. CASE Over(book[target].merges, c) # {}
      <4> DEFINE n == CHOOSE m \in Over(book[target].merges, c) : TRUE
      <4>1. n \in Over(book[target].merges, c) /\ ShownIn(merges, c) = Anchor(n)
        BY <3>2, <2>2 DEF ShownIn
      <4>2. book[target] \in Sheets
        BY <2>1, SheetAssumption DEF BookKnown
      <4>3. n \subseteq Cells /\ Anchor(n) \in n
        BY <4>1, <4>2 DEF Sheets, Anchor, Over
      <4> QED BY <4>1, <4>3
    <3> QED BY <3>1, <3>2
  <2>5. written[ShownIn(merges, c)] = 0
    BY <2>4 DEF WrittenAreTexts
  <2> QED BY <2>3, <2>5
<1> QED BY <1>1, Invariance, PTL

=============================================================================
