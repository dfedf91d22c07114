----------------------------- MODULE ChangeSheet -----------------------------
(***************************************************************************)
(* One run of scripts/xlsx_change_pilot.py on a workbook: main reads the   *)
(* change points of the most likely column of any sheet, has the service   *)
(* refine them (BatchPromise: each point gets a text or fails, or an       *)
(* exception ends the run), and writes each text into the module column of *)
(* the row number its point came from.                                     *)
(*                                                                         *)
(* Of a cell's value there is left what the code tells apart: nothing, a   *)
(* change-point header, a module header, a word that is both, a text that  *)
(* looks like a change point, another text.  openpyxl is external: of a    *)
(* merged range only the anchor, its upper left cell, has a value.         *)
(***************************************************************************)
EXTENDS Integers, FiniteSets, Sequences

CONSTANTS Rows, Cols,   \* size of the sheets
          HeaderRows,   \* rows searched for a module header
          Books         \* the workbooks, each a sequence of sheets

Cells == (1..Rows) \X (1..Cols)
Values == {"none", "points", "module", "modulepoints", "change", "other"}

Anchor(m) == CHOOSE c \in m : \A d \in m : c[1] <= d[1] /\ c[2] <= d[2]

Sheets ==
  {s \in [value : [Cells -> Values], merges : SUBSET SUBSET Cells] :
     \A m \in s.merges :
       /\ \E c \in m : \A d \in m : c[1] <= d[1] /\ c[2] <= d[2]
       /\ \A c \in m \ {Anchor(m)} : s.value[c] = "none"
       /\ \A n \in s.merges : n = m \/ n \cap m = {}}

ASSUME SheetAssumption ==
  /\ Rows \in Nat /\ Cols \in Nat /\ HeaderRows \in Nat
  /\ Books \subseteq Seq(Sheets)

VARIABLES
  book,     \* the workbook on disk
  stage,    \* how far main got, or how it ended
  points,   \* of the row of each change point, the value that was read
  origin,   \* number of the sheet they are of, which the code forgets
  texts,    \* the rows whose points were refined
  target,   \* number of the sheet written to
  column,   \* its module column
  merges,   \* its merged ranges by now
  written   \* of each of its cells, the row whose text was written, or 0

sheetVars == <<target, column, merges, written>>
vars == <<book, stage, points, origin, texts, sheetVars>>

-----------------------------------------------------------------------------
(* Reading.                                                                *)

\* iter_rows: row by row, and each from the left.
Precedes(c, d) == c[1] < d[1] \/ (c[1] = d[1] /\ c[2] < d[2])

\* The rows below a header that hold something in its column.
Below(sheet, head) ==
  {r \in (head[1] + 1)..Rows : sheet.value[<<r, head[2]>>] # "none"}

ChangesBelow(sheet, head) ==
  {r \in Below(sheet, head) : sheet.value[<<r, head[2]>>] = "change"}

\* Each header with points is a candidate, named by sheet and cell.
Candidates(b) ==
  {k \in (DOMAIN b) \X Cells :
     /\ b[k[1]].value[k[2]] \in {"points", "modulepoints"}
     /\ Below(b[k[1]], k[2]) # {}}

\* Mutation of Score: every row counts alike.
ScoreRows(b, k) == <<0, Cardinality(Below(b[k[1]], k[2]))>>

Score(b, k) == <<Cardinality(ChangesBelow(b[k[1]], k[2])),
                 Cardinality(Below(b[k[1]], k[2]))>>

\* The highest score, the first of several.
IsBest(b, k) ==
  \A l \in Candidates(b) \ {k} :
    \/ Precedes(Score(b, l), Score(b, k))
    \/ /\ Score(b, l) = Score(b, k)
       /\ k[1] < l[1] \/ (k[1] = l[1] /\ Precedes(k[2], l[2]))

Init ==
  /\ book \in Books
  /\ stage = "start"
  /\ points = <<>> /\ origin = 0 /\ texts = {}
  /\ target = 0 /\ column = 0 /\ merges = {} /\ written = [c \in Cells |-> 0]

\* The change points of a candidate.
Points(b, k) ==
  [r \in Below(b[k[1]], k[2]) |-> b[k[1]].value[<<r, k[2][2]>>]]

\* Mutation of Read: the header row is counted twice.
ReadShifted ==
  /\ stage = "start"
  /\ \E k \in Candidates(book) :
       /\ IsBest(book, k)
       /\ points' = [r \in {q + 1 : q \in DOMAIN Points(book, k)} |-> Points(book, k)[r - 1]]
       /\ origin' = k[1]
  /\ stage' = "read"
  /\ UNCHANGED <<book, texts, sheetVars>>

\* read_change_points
Read ==
  /\ stage = "start"
  /\ \E k \in Candidates(book) :
       /\ IsBest(book, k)
       /\ points' = Points(book, k) /\ origin' = k[1]
  /\ stage' = "read"
  /\ UNCHANGED <<book, texts, sheetVars>>

\* The refined rows still to be written.
Left == {r \in texts : written[<<r, column>>] # r}

\* Each end with a message and exit status 2: no file, no usable point, no token
\* or no health; once there are texts, no file any more; or nowhere to save.
Reject ==
  /\ \/ stage \in {"start", "read"}
     \/ stage = "refined" /\ texts # {}
     \/ stage = "writing" /\ Left = {}
  /\ stage' = "rejected"
  /\ UNCHANGED <<book, points, origin, texts, sheetVars>>

\* process_in_batches returns its results ...
Refine ==
  /\ stage = "read"
  /\ texts' \in SUBSET DOMAIN points
  /\ stage' = "refined"
  /\ UNCHANGED <<book, points, origin, sheetVars>>

\* ... or raises, and takes the texts that are there already with it.
Raise ==
  /\ stage = "read"
  /\ stage' = "raised"
  /\ UNCHANGED <<book, points, origin, texts, sheetVars>>

-----------------------------------------------------------------------------
(* Writing back.                                                           *)

\* _module_column: the first module header, in the first rows.
ModuleHeaders(sheet) ==
  {c \in Cells : c[1] <= HeaderRows
                 /\ sheet.value[c] \in {"module", "modulepoints"}}

WithModule == {i \in DOMAIN book : ModuleHeaders(book[i]) # {}}

\* The first sheet that has such a column.
Open ==
  /\ stage = "refined"
  /\ texts # {}
  /\ \E i \in WithModule :
       /\ \A j \in WithModule : i <= j
       /\ \E c \in ModuleHeaders(book[i]) :
            /\ \A d \in ModuleHeaders(book[i]) \ {c} : Precedes(c, d)
            /\ target' = i /\ column' = c[2]
       /\ merges' = book[i].merges
  /\ stage' = "writing"
  /\ UNCHANGED <<book, points, origin, texts, written>>

\* No text or no such column: a reminder, exit status 0.
Remind ==
  /\ stage = "refined"
  /\ texts = {} \/ WithModule = {}
  /\ stage' = "reminded"
  /\ UNCHANGED <<book, points, origin, texts, sheetVars>>

\* A MergedCell: its own value, if it had one, would not show.
Covered(c) == \E m \in merges : c \in m /\ c # Anchor(m)

Turn(r) == stage = "writing" /\ r \in Left /\ \A q \in Left : r <= q

\* Mutation of Write: a merged cell is written like any other.
WriteCovered(r) ==
  /\ Turn(r)
  /\ written' = [written EXCEPT ![<<r, column>>] = r]
  /\ UNCHANGED <<book, stage, points, origin, texts, target, column, merges>>

\* Mutation of Write: a merged range is told by its rows alone.
WriteRowsApart(r) ==
  /\ Turn(r)
  /\ merges' = IF Covered(<<r, column>>)
               THEN {m \in merges : \A c \in m : c[1] # r} ELSE merges
  /\ written' = [written EXCEPT ![<<r, column>>] = r]
  /\ UNCHANGED <<book, stage, points, origin, texts, target, column>>

\* One successful point, in order of rows: a range that covers its module cell
\* is split before the text is written.
Write(r) ==
  /\ Turn(r)
  /\ merges' = IF Covered(<<r, column>>)
               THEN {m \in merges : <<r, column>> \notin m} ELSE merges
  /\ written' = [written EXCEPT ![<<r, column>>] = r]
  /\ UNCHANGED <<book, stage, points, origin, texts, target, column>>

\* workbook.save: <stem>_AI.xlsx
Save ==
  /\ stage = "writing" /\ Left = {}
  /\ stage' = "saved"
  /\ UNCHANGED <<book, points, origin, texts, sheetVars>>

Next ==
  \/ Read \/ Reject \/ Refine \/ Raise
  \/ Open \/ Remind \/ (\E r \in 1..Rows : Write(r)) \/ Save

Spec == Init /\ [][Next]_vars

-----------------------------------------------------------------------------
(* Properties.                                                             *)

\* Type invariant.  Results are there for points alone.
TypeOK ==
  /\ stage \in {"start", "read", "refined", "writing",
                "saved", "reminded", "rejected", "raised"}
  /\ DOMAIN points \subseteq 1..Rows
  /\ points \in [DOMAIN points -> Values \ {"none"}]
  /\ origin \in 0..Len(book)
  /\ texts \subseteq DOMAIN points
  /\ target \in 0..Len(book) /\ column \in 0..Cols
  /\ stage \in {"writing", "saved"} => target # 0 /\ column # 0
  /\ target # 0 => merges \subseteq book[target].merges
  /\ written \in [Cells -> 0..Rows]

\* "Ranking by change-point-like content ... keeps a merged section title ...
\* from out-ranking the real ... column" (xlsx_change_pilot.py:144-147): among
\* the texts that were read are as many change points as stand below any header
\* of any sheet.
ChangesAreRead ==
  origin # 0 =>
    \A k \in Candidates(book) :
      Cardinality(ChangesBelow(book[k[1]], k[2])) <=
        Cardinality({r \in DOMAIN points : points[r] = "change"})

\* The ranges of m over cell c, and the cell whose value a reader sees in c.
Over(m, c) == {n \in m : c \in n}
ShownIn(m, c) ==
  IF Over(m, c) = {} THEN c ELSE Anchor(CHOOSE n \in Over(m, c) : TRUE)

\* "Every successful point replaces the module-column cell of the row"
\* (xlsx_change_pilot.py:186): in the file, the module cell of each such row
\* shows the text of this row, whatever ranges the column was merged into.
TextsAreShown ==
  stage = "saved" =>
    \A r \in texts : written[ShownIn(merges, <<r, column>>)] = r

\* A range is split only for a text that had to go into it: every cell that
\* shared no range with a refined row's module cell shows what it showed
\* (xlsx_change_pilot.py:217-222).
OthersKeepTheirs ==
  stage = "saved" =>
    \A c \in Cells :
      LET near == {c} \cup UNION Over(book[target].merges, c)
      IN  (\A r \in texts : <<r, column>> \notin near) =>
            /\ ShownIn(merges, c) = ShownIn(book[target].merges, c)
            /\ written[ShownIn(merges, c)] = 0

\* "... replaces the module-column cell of the row it came from"
\* (xlsx_change_pilot.py:186-187): of the sheet it came from, too.
RowsAreTheirs == stage = "saved" => target = origin

=============================================================================
