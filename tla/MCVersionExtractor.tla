-------------------------- MODULE MCVersionExtractor --------------------------
(* Texts of up to four pieces before a connector, and four ways to go on     *)
(* after it, one with a second connector.  The window is five characters and *)
(* the gap two, so that a version can be cut, kept, or out of reach, and can *)
(* stand beside its connector or behind a word.                              *)
EXTENDS VersionExtractor, SequencesExt

MCOldWindow == 5
MCNewGap == 2

Pieces == {<<"1", ".", "1">>, <<"V", "1", ".", "2">>, <<"1">>, <<"w">>, <<",">>, <<" ">>}

Before == {FlattenSeq(p) : p \in UNION {[1..n -> Pieces] : n \in 0..4}}

After == {<<" ", "1", ".", "2">>, <<"V", "1", ".", "1">>,
          <<"w", "w", ",", "1", ".", "2">>,
          <<"1", ".", "2", ",", "1", ".", "1", Connector, "1", ".", "2">>}

MCTexts == {b \o <<Connector>> \o a : b \in Before, a \in After}

=============================================================================
