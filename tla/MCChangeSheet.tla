---------------------------- MODULE MCChangeSheet ----------------------------
(***************************************************************************)
(* Workbooks of one or two sheets of four rows and two columns.            *)
(***************************************************************************)
EXTENDS ChangeSheet

\* A column of values.
Col(a, b, c, d) == <<a, b, c, d>>
Sheet(left, right, m) ==
  [value |-> [c \in Cells |-> IF c[2] = 1 THEN left[c[1]] ELSE right[c[1]]],
   merges |-> m]

\* The cells of column col in the rows of R.
Range(R, col) == R \X {col}

Lefts ==
  {Col(a, b, c, d) : a \in {"module", "modulepoints", "other"},
                     b \in {"module", "change", "none"},
                     c \in {"other", "none"}, d \in {"module", "none"}}
Rights ==
  {Col(a, b, c, d) : a \in {"points", "other"}, b \in {"points", "change"},
                     c \in {"module", "change", "none"}, d \in {"none", "change"}}

Merged ==
  {{}, {Range(2..3, 1)}, {Range(2..4, 1)}, {Range(3..4, 1), Range(1..2, 1)},
   {Range(2..3, 1), Range(3..4, 2)}, {(2..3) \X (1..2)}}

MCSheets ==
  {s \in {Sheet(l, r, m) : l \in Lefts, r \in Rights, m \in Merged} : s \in Sheets}

\* A list of the modules, and a change sheet without a module column.
Cover == Sheet(Col("other", "module", "other", "none"),
               Col("none", "none", "none", "none"), {})
Plain == Sheet(Col("points", "change", "change", "none"),
               Col("other", "other", "none", "none"), {})

MCBooks ==
  {<<s>> : s \in MCSheets}
    \cup {<<x, s>> : x \in {Cover, Plain},
                     s \in {t \in MCSheets : /\ t.value[<<1, 1>>] = "module"
                                           /\ t.value[<<1, 2>>] = "points"}}

=============================================================================
