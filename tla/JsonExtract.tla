----------------------------- MODULE JsonExtract -----------------------------
(***************************************************************************)
(* _extract_json: where in the text of a reply the JSON object is that has *)
(* the customer's text.                                                    *)
(*                                                                         *)
(* A text is a sequence of tokens: the two braces; "key" and "customer", a *)
(* member of an object, its value included unless a brace follows; "s{"    *)
(* and "s}", a member whose string has a brace in it; the reasoning tags,  *)
(* the code fence, the line break, the space, and "w", a word outside any  *)
(* string, which no JSON has.                                              *)
(***************************************************************************)
EXTENDS Integers, Sequences, FiniteSets

CONSTANT MaxScan   \* _MAX_JSON_SCAN

ASSUME ScanAssumption == MaxScan \in Nat

Smallest(I) == CHOOSE i \in I : \A j \in I : i <= j
At(s, w) == {i \in DOMAIN s : s[i] = w}

\* What follows the first w.
After(s, w) == SubSeq(s, Smallest(At(s, w)) + 1, Len(s))

\* str.lstrip()
Lstrip(s) ==
  LET solid == {i \in DOMAIN s : s[i] \notin {" ", "\n"}}
  IN  IF solid = {} THEN <<>> ELSE SubSeq(s, Smallest(solid), Len(s))

Begins(s, w) == Lstrip(s) # <<>> /\ Head(Lstrip(s)) = w

\* _strip_think_block
StripThink(s) ==
  IF Begins(s, "<think>") /\ At(s, "</think>") # {} THEN After(s, "</think>") ELSE s

\* _strip_code_fence: the rest of the fence's line goes with it.
StripFence(s) ==
  IF ~Begins(s, "fence") THEN s
  ELSE IF At(Lstrip(s), "\n") = {} THEN <<>> ELSE After(Lstrip(s), "\n")

\* The scan tells neither strings nor prose from JSON.
Opening(s) == At(s, "{") \cup At(s, "s{")
Closing(s) == At(s, "}") \cup At(s, "s}")
Depth(s, p) == Cardinality(Opening(s) \cap (1..p)) - Cardinality(Closing(s) \cap (1..p))

\* Mutation of Starts: one brace less.
StartsButLast(s) ==
  {i \in Opening(s) : Cardinality(Opening(s) \cap (1..i)) < MaxScan}

\* The first braces, and for each the text up to the one that closes it.
Starts(s) == {i \in Opening(s) : Cardinality(Opening(s) \cap (1..i)) <= MaxScan}
Ends(s, i) == {p \in i..Len(s) : Depth(s, p) < Depth(s, i)}
Candidates(s) == {SubSeq(s, i, Smallest(Ends(s, i))) :
                    i \in {j \in Starts(s) : Ends(s, j) # {}}}

\* json.loads: an object, and every one in it the value of a member.
Nesting(c, p) == Cardinality(At(c, "{") \cap (1..p)) - Cardinality(At(c, "}") \cap (1..p))
IsJson(c) ==
  /\ \A p \in DOMAIN c :
       /\ c[p] \in {"{", "}", "key", "customer", "s{", "s}", " ", "\n"}
       /\ Nesting(c, p) > 0 <=> p < Len(c)
       /\ p > 1 /\ c[p] = "{" => c[p - 1] \in {"key", "customer"}

\* A top-level customer_output.
IsPayload(c) ==
  IsJson(c) /\ \E p \in At(c, "customer") : Nesting(c, p) = 1

\* An object that parses is preferred if it is a payload; without one, the
\* validator refuses what is left.
HasPayload(s) == \E c \in Candidates(StripFence(StripThink(s))) : IsPayload(c)

=============================================================================
