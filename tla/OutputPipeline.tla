---------------------------- MODULE OutputPipeline ----------------------------
(***************************************************************************)
(* What becomes of the text a model replied with: the JSON object in it is *)
(* found (JsonExtract), OutputValidator checks it, _finish builds the      *)
(* customer text, and the batch client takes it, or calls it a failure and *)
(* asks again.                                                             *)
(*                                                                         *)
(* Customer and source texts are sequences of tokens: words, the space,    *)
(* the line break, the two HTML artifacts, the version header, which is    *)
(* the word "H" and the full-width colon, and the number sign with the     *)
(* detail marker of a change sheet.  The version block that the source     *)
(* yields (build_version_block, see VersionExtractor) is an input.         *)
(***************************************************************************)
EXTENDS JsonExtract

CONSTANT Replies   \* the replies, each with its source

Colon == ":"
Marker == "detail:"
Space == {" ", "\n"}
Header == <<"H", Colon>>
Absent == <<>>   \* None; of a title the empty text, too: the code treats them alike

\* The words that stand for the customer's text and those of the source.
CustomerWords == {"a", "b"}
SourceWords == {"module", "reference"}
Has(s, W) == \E i \in DOMAIN s : s[i] \in W

\* The object is preceded and followed by other text.  customer is the string
\* form of customer_output, or its description; source is the raw text;
\* extracted is what build_version_block makes of the source's versions, with
\* no other colon than its header's.
ASSUME PipelineAssumption ==
  \A r \in Replies :
    /\ r.form \in {"object", "string"}
    /\ r.flagged \in BOOLEAN       \* find_sensitive_matches finds something
    /\ {r.customer, r.title, r.note, r.source, r.extracted,
        r.before, r.object, r.after} \subseteq Seq(STRING)
    /\ r.form = "string" => r.title = Absent /\ r.note = Absent
    /\ ~Has(r.customer, SourceWords) /\ ~Has(r.source, CustomerWords)
    /\ ~Has(r.title \o r.note \o r.extracted, CustomerWords \cup SourceWords)
    /\ r.extracted # Absent =>
         SubSeq(r.extracted, 1, 2) = Header /\ At(r.extracted, Colon) = {2}
    /\ IsPayload(r.object)

VARIABLES
  reply,     \* the reply and its source
  stage,     \* how far it got
  title, description, note,   \* VerifiedOutput
  answer     \* customer_line, then what the client keeps of it

vars == <<reply, stage, title, description, note, answer>>

-----------------------------------------------------------------------------
(* Texts.                                                                  *)

\* str.strip()
Strip(s) ==
  LET solid == {i \in DOMAIN s : s[i] \notin Space}
      last == CHOOSE i \in solid : \A j \in solid : j <= i
  IN  IF solid = {} THEN <<>> ELSE SubSeq(s, Smallest(solid), last)

\* Mutation of Normalize: only the spaces.
NormalizeSpaces(s) == [i \in DOMAIN s |-> IF s[i] = "&nbsp;" THEN " " ELSE s[i]]

\* _normalize_html_artifacts
Normalize(s) ==
  [i \in DOMAIN s |-> IF s[i] = "<br>" THEN "\n"
                      ELSE IF s[i] = "&nbsp;" THEN " " ELSE s[i]]

\* The lines of s that begin, after spaces, with the version header.
HeaderLines(s) ==
  {i \in 1..(Len(s) - 1) :
     /\ SubSeq(s, i, i + 1) = Header
     /\ \E b \in 0..(i - 1) : /\ b > 0 => s[b] = "\n"
                              /\ \A k \in (b + 1)..(i - 1) : s[k] = " "}

FirstHeader(s) == Smallest(HeaderLines(s))

\* _split_version_block: the first such line and all that follows ...
Block(s) ==
  IF HeaderLines(s) = {} THEN Absent ELSE Strip(SubSeq(s, FirstHeader(s), Len(s)))

\* Mutation of Body: the section stays where it was, too.
BodyWhole(s) == Strip(s)

\* ... and what stands before.
Body(s) ==
  IF HeaderLines(s) = {} THEN Strip(s) ELSE Strip(SubSeq(s, 1, FirstHeader(s) - 1))

\* build_customer_output_line
OutputLine(t, d) == IF t = Absent THEN d ELSE t \o <<Colon>> \o d

\* _SOURCE_SECTION: the detail marker behind a number sign of the first line.
Markers(s) ==
  {k \in At(s, Marker) :
     \E h \in At(s, "#") : /\ h < k /\ \A j \in (h + 1)..(k - 1) : s[j] \in Space
                          /\ \A j \in 1..(h - 1) : s[j] # "\n"}

\* _clean_prefix: of the sections before the marker, the first alone stays.
Prefix(s) ==
  LET k == Smallest(Markers(s))
      signs == At(SubSeq(s, 1, k), "#")
      last == CHOOSE i \in signs : \A j \in signs : j <= i
  IN  IF Markers(s) = {} THEN Absent
      ELSE Strip(Strip(SubSeq(s, 1, Smallest(signs) - 1)) \o <<" ">> \o SubSeq(s, last, k))

\* The fixed-prefix template, without the title.
PrefixLine(p, d) == IF d = Absent THEN p ELSE p \o <<" ">> \o d

\* Mutation of VersionBlock: the model's own block is not a fallback.
VersionBlockExtracted(d, extracted) == extracted

\* The extractor's block wins.
VersionBlock(d, extracted) == IF extracted # Absent THEN extracted ELSE Block(d)

Prepend(block, line) == IF block = Absent THEN line ELSE block \o <<"\n">> \o line

-----------------------------------------------------------------------------
Init ==
  /\ reply \in Replies
  /\ stage = "received"
  /\ title = Absent /\ description = Absent /\ note = Absent /\ answer = Absent

\* customer_output as the validator takes it.  A string is cut at its first colon;
\* partition leaves one without a colon whole, so that it is title and description.
Colons(s) == At(s, Colon)
FirstColon(s) == Smallest(Colons(s))

Title(r) ==
  IF r.form = "object" THEN r.title
  ELSE IF Colons(r.customer) = {} THEN Strip(r.customer)
  ELSE Strip(SubSeq(r.customer, 1, FirstColon(r.customer) - 1))

Description(r) ==
  IF r.form = "object" THEN r.customer
  ELSE IF Colons(r.customer) = {} THEN Strip(r.customer)
  ELSE Strip(SubSeq(r.customer, FirstColon(r.customer) + 1, Len(r.customer)))

\* The schema wants a description, and the patterns must not match.
Valid(r) == Description(r) # <<>> /\ ~r.flagged

\* _extract_json and json.loads.  Without a payload the service answers
\* AGENT_OUTPUT_INVALID.
Extract ==
  /\ stage = "received"
  /\ stage' = IF HasPayload(reply.before \o reply.object \o reply.after)
              THEN "replied" ELSE "unreadable"
  /\ UNCHANGED <<reply, title, description, note, answer>>

Verify ==
  /\ stage = "replied"
  /\ Valid(reply)
  /\ stage' = "verified"
  /\ title' = Title(reply)
  /\ description' = Description(reply)
  /\ note' = reply.note
  /\ UNCHANGED <<reply, answer>>

\* OutputInvalidError, with the same answer.
Refuse ==
  /\ stage = "replied"
  /\ ~Valid(reply)
  /\ stage' = "refused"
  /\ UNCHANGED <<reply, title, description, note, answer>>

\* _finish
Finish ==
  /\ stage = "verified"
  /\ LET plain == Normalize(description)
         body == Body(plain)
         line == IF Prefix(reply.source) # Absent
                 THEN PrefixLine(Prefix(reply.source), body)
                 ELSE OutputLine(title, body)
     IN  answer' = Prepend(VersionBlock(plain, reply.extracted), line)
                     \o (IF note = Absent THEN <<>>
                         ELSE <<"\n", "notice", Colon>> \o Normalize(note))
  /\ stage' = "answered"
  /\ UNCHANGED <<reply, title, description, note>>

\* call_change_pilot: a blank text is a failure, and will be asked for again.
Take ==
  /\ stage = "answered"
  /\ answer' = Strip(answer)
  /\ stage' = IF Strip(answer) = <<>> THEN "blank" ELSE "kept"
  /\ UNCHANGED <<reply, title, description, note>>

Next == Extract \/ Verify \/ Refuse \/ Finish \/ Take

Spec == Init /\ [][Next]_vars

-----------------------------------------------------------------------------
(* Properties.                                                             *)

\* Where a version header stands at the head of a line, whatever was written for
\* breaks and spaces.
Headers(d) ==
  LET Gap(k) == d[k] \in {" ", "&nbsp;"}
      Break(k) == d[k] \in {"\n", "<br>"}
  IN  {i \in 1..(Len(d) - 1) :
         /\ SubSeq(d, i, i + 1) = Header
         /\ \A k \in 1..(i - 1) : Gap(k) \/ \E b \in k..(i - 1) : Break(b)}

\* The members of s that are in W, in their order.
Words(s, W) ==
  LET places == {i \in DOMAIN s : s[i] \in W}
  IN  [n \in 1..Cardinality(places) |->
         s[CHOOSE i \in places : Cardinality(places \cap (1..i)) = n]]

\* Which of the words that the model wrote for the customer are in the text the
\* client keeps, and how often.  Those of the description are there once and in
\* their order, the version section moved to the front; what stands behind a
\* header is missing if the source itself stated versions.  Those that a string
\* has before its first colon lead them, but not behind a change sheet's prefix;
\* so a string without a colon has every word twice.  Of the source's own words
\* there are, if it has a detail marker, those before the first number sign, and
\* no reference behind it (validator.py:31-34, runtime.py:65-78, 193-210, 249-262).
CustomerTextKept ==
  stage = "kept" =>
    LET c == reply.customer
        d == Description(reply)
        src == reply.source
        first == Smallest(Headers(d))
        Own(s) == Words(s, CustomerWords)
        titled == IF reply.form = "object" THEN <<>>
                  ELSE IF Colons(c) = {} THEN Own(c)
                  ELSE Own(SubSeq(c, 1, FirstColon(c) - 1))
        moved == IF Headers(d) = {} \/ reply.extracted # Absent THEN <<>>
                 ELSE Own(SubSeq(d, first, Len(d)))
        rest == IF Headers(d) = {} THEN Own(d) ELSE Own(SubSeq(d, 1, first))
        Lead == SubSeq(src, 1, Smallest(At(src, "#")) - 1)
    IN  /\ Own(answer) =
             moved \o (IF Prefix(src) = Absent THEN titled ELSE <<>>) \o rest
        /\ Words(answer, SourceWords) =
             IF Prefix(src) = Absent THEN <<>> ELSE Words(Lead, SourceWords)

\* "release notes open with version changes rather than burying them inside the
\* description" (runtime.py:217-219): with versions from the source or from the
\* description, the text begins with the header.  If they are the source's, no
\* other line has it, unless the title, the note or the source brought it along.
VersionsLead ==
  stage = "kept" /\ (Headers(Description(reply)) # {} \/ reply.extracted # Absent) =>
    /\ SubSeq(answer, 1, 2) = Header
    /\ reply.extracted # Absent
         /\ ~Has(Title(reply) \o reply.note \o reply.source, {"H"}) =>
         HeaderLines(answer) = {1}

\* What the service accepts and counts as a success, and the client refuses as
\* blank and pays for again: a description of nothing but spaces and artifacts,
\* with no title, note, prefix or versions to stand beside it; and nothing else.
\* A string must have its colon for that, and nothing before it
\* (validator.py:31-34, change_pilot.py:64-70, xlsx_change_pilot.py:287-290).
BlankIsPaidAgain ==
  stage \in {"kept", "blank"} =>
    LET c == reply.customer
        Filler(s) == \A i \in DOMAIN s : s[i] \in Space \cup {"<br>", "&nbsp;"}
        wordless == IF reply.form = "object" THEN reply.title = Absent /\ Filler(c)
                    ELSE /\ Colons(c) # {}
                         /\ \A i \in 1..(FirstColon(c) - 1) : c[i] \in Space
                         /\ Filler(SubSeq(c, FirstColon(c) + 1, Len(c)))
    IN  stage = "blank" <=> /\ wordless /\ reply.note = Absent
                            /\ Prefix(reply.source) = Absent
                            /\ reply.extracted = Absent

\* "Reasoning blocks may themselves contain '{'/'}' ... so a naive first-`{`
\* slice is not reliable" (runtime.py:126-133): the object is found whatever
\* stands around it.  It may be missed only for a brace in one of its strings
\* that its strings do not close, for MaxScan braces before it that no reasoning
\* block hides, for a fence on its own line, or for a reasoning block that is
\* closed behind it.
PayloadIsFound ==
  stage = "unreadable" =>
    LET o == reply.object
        shown == StripThink(reply.before)
    IN  \/ \E i \in DOMAIN o : Cardinality(At(o, "s}") \cap (1..i)) >
                               Cardinality(At(o, "s{") \cap (1..i))
        \/ Cardinality(At(o, "s{")) # Cardinality(At(o, "s}"))
        \/ Cardinality(Opening(shown)) >= MaxScan
        \/ Begins(shown, "fence") /\ At(Lstrip(shown), "\n") = {}
        \/ /\ Begins(reply.before, "<think>") /\ At(reply.before, "</think>") = {}
           /\ At(reply.after, "</think>") # {}

=============================================================================
