--------------------------- MODULE MCOutputPipeline ---------------------------
(* Customer texts of up to four pieces, so that a header can stand before,    *)
(* between and behind words and come twice, with every break and space; each  *)
(* with and without a title, a note, a prefix and versions of the source.     *)
(* One of them is found in every text, and goes with every source.            *)
EXTENDS OutputPipeline, SequencesExt

\* The sequences of at most n members of S.
UpTo(n, S) == UNION {[1..k -> S] : k \in 0..n}

Pieces == {<<"a">>, <<"b">>, Header, <<"\n">>, <<"<br>">>, <<" ">>, <<"&nbsp;">>}

Customers == {FlattenSeq(p) : p \in UpTo(4, Pieces)}

Plain == <<"{", "customer", "}">>
Prefixed == <<"module", "#", Marker>>

Objects ==
  [form : {"object"}, customer : Customers,
   title : {Absent, <<"H">>, <<"t", "<br>", "t">>}, note : {Absent, <<"n", "<br>", "n">>},
   source : {Absent, Prefixed}, extracted : {Absent, Header \o <<"\n", "x">>},
   flagged : {FALSE}, before : {Absent}, object : {Plain}, after : {Absent}]

Strings ==
  [form : {"string"}, customer : {t \o c : t \in {<<"b", Colon>>, <<Colon>>, <<>>}, c \in Customers},
   title : {Absent}, note : {Absent}, source : {Absent, Prefixed},
   extracted : {Absent, Header \o <<"\n", "x">>}, flagged : BOOLEAN,
   before : {Absent}, object : {Plain}, after : {Absent}]

\* Replies as they come ...
Texts ==
  [form : {"object"}, customer : {<<"a">>}, title : {Absent}, note : {Absent},
   source : {Absent}, extracted : {Absent}, flagged : {FALSE},
   before : UpTo(4, {"{", "}", "key", "w", "<think>", "</think>", "fence", "\n"}),
   object : {Plain, <<"{", "s{", "s}", "customer", "}">>,
             <<"{", "s}", "s{", "customer", "}">>, <<"{", "customer", "s{", "}">>,
             <<"{", "key", "{", "key", "}", "customer", "{", "key", "}", "}">>},
   after : {Absent, <<"}">>, <<"\n", "fence">>, <<"{", "key", "}">>, <<"</think>">>}]

\* ... and sources: a module, then references and the marker in any order.
Sources ==
  [form : {"object"}, customer : {<<"a">>}, title : {Absent}, note : {Absent},
   source : {<<"module">> \o FlattenSeq(p) :
               p \in UpTo(4, {<<"#", "reference">>, <<"#">>, <<"\n">>, <<" ">>, <<Marker>>})},
   extracted : {Absent}, flagged : {FALSE},
   before : {Absent}, object : {Plain}, after : {Absent}]

MCReplies == Objects \cup Strings \cup Texts \cup Sources

=============================================================================
