------------------------------ MODULE MCChunker ------------------------------
(* Instances of Chunker for TLC: texts of up to six characters, and longer   *)
(* ones without full stops; the separators are those of the code.            *)
EXTENDS Chunker

Texts(kinds, lengths) == UNION {[1..n -> kinds] : n \in lengths}
MCChunkTexts == Texts({"word", "stop", "space"}, 0..6) \cup Texts({"word", "line"}, {7})
MCChunkOptions == [maxChunkSize : {3, 4}, overlapSize : {0, 1, 2}, preserveSentences : BOOLEAN]
MCSeparators == <<<<"line", "line">>, <<"line">>, <<"stop", "space">>, <<"space">>, <<>>>>
=============================================================================
