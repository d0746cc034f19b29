------------------------------ MODULE Chunker ------------------------------
(***************************************************************************)
(* services/indexing-service/src/chunker.ts: FixedSizeChunker.chunk.  The   *)
(* text is cut into splits, the splits are merged with an overlap, and what *)
(* is left when the blanks at both ends are gone are the chunks.  One call  *)
(* is synchronous; an iteration of one of its loops is a step here, so that *)
(* what the loops keep can be said of every state.                          *)
(*                                                                          *)
(* A character is its position in the text, a string of the program a       *)
(* sequence of positions; of the characters only the kind matters.          *)
(***************************************************************************)
EXTENDS Integers, Sequences, FiniteSetsExt, SequencesExt

CONSTANTS
    ChunkTexts,    \* sequences of kinds of characters
    ChunkOptions,  \* records of maxChunkSize, overlapSize, preserveSentences
    Separators     \* DEFAULT_CHUNKER_OPTIONS.separators: sequences of kinds

CharacterKinds == {"word", "stop", "space", "line"}

ChunkerAssumption ==
    /\ ChunkTexts \subseteq Seq(CharacterKinds)
    /\ ChunkOptions \subseteq [maxChunkSize : Nat \ {0}, overlapSize : Nat,
                               preserveSentences : BOOLEAN]
    /\ Separators \in Seq(Seq(CharacterKinds))

ASSUME ChunkerConstants == ChunkerAssumption

VARIABLE chunking   \* the call: its text and options, what remains to be cut,
                    \* the splits, the merged splits and the chunks

chunkerVars == <<chunking>>

Positions == 1..Len(chunking.text)
Visible(i) == chunking.text[i] \notin {"space", "line"}

ChunkerTypeOK ==
    /\ chunking.text \in ChunkTexts
    /\ chunking.options \in ChunkOptions
    /\ chunking.at \in {"split", "merge", "emit", "done"}
    /\ chunking.remaining \in Seq(Positions)
    /\ chunking.splits \in Seq(Seq(Positions))
    /\ chunking.merged \in Seq(Seq(Positions))
    /\ chunking.chunks \in Seq([sequence_number : Nat, text : Seq(Positions)])

(* A call is about to cut its text; an empty or blank one has no chunks.     *)
ChunkerInit ==
    \E t \in ChunkTexts, o \in ChunkOptions :
        chunking = [text |-> t, options |-> o,
                    at |-> IF \A i \in DOMAIN t : t[i] \in {"space", "line"}
                           THEN "done" ELSE "split",
                    remaining |-> [i \in DOMAIN t |-> i],
                    splits |-> <<>>, merged |-> <<>>, chunks |-> <<>>]

(* slice.lastIndexOf(sep): where sep last begins in the slice, from 0, or -1. *)
LastIndexOf(slice, sep) ==
    Max({-1} \cup {i \in 0..(Len(slice) - Len(sep)) :
                       \A k \in DOMAIN sep : chunking.text[slice[i + k]] = sep[k]})

(* Where the first of the separators that occurs late enough in the next    *)
(* maxChunkSize characters ends; an empty separator always does.            *)
SplitIndex(remaining) ==
    LET max == chunking.options.maxChunkSize
        last(k) == LastIndexOf(SubSeq(remaining, 1, max), Separators[k])
        good == {k \in DOMAIN Separators : Separators[k] = <<>> \/ 10 * last(k) > 3 * max}
    IN IF good = {} \/ Separators[Min(good)] = <<>>
       THEN max
       ELSE last(Min(good)) + Len(Separators[Min(good)])

(* splitBySeparators, splitFixedSize: one more split.                       *)
CutSplit ==
    /\ chunking.at = "split"
    /\ LET rest == chunking.remaining
           max == chunking.options.maxChunkSize
           cut == IF Len(rest) <= max THEN Len(rest)
                  ELSE IF chunking.options.preserveSentences THEN SplitIndex(rest) ELSE max
       IN chunking' = [chunking EXCEPT
              !.splits = Append(@, SubSeq(rest, 1, cut)),
              !.remaining = SubSeq(rest, cut + 1, Len(rest)),
              !.at = IF cut = Len(rest) THEN "merge" ELSE "split"]

(* prev.slice(-n)                                                           *)
LastCharacters(s, n) == SubSeq(s, Max({1, Len(s) - n + 1}), Len(s))

(* Mutant: the overlap is added whatever the size it makes.                 *)
MergedUnbounded(merged, split) ==
    LET current == LastCharacters(Last(merged), chunking.options.overlapSize) \o split
    IN IF Len(split) < chunking.options.maxChunkSize
       THEN [merged EXCEPT ![Len(merged)] = current]
       ELSE Append(merged, split)

(* A further split takes the end of the chunk before it along and its place, *)
(* if both fit into one chunk, and is a chunk of its own otherwise.          *)
Merged(merged, split) ==
    LET current == LastCharacters(Last(merged), chunking.options.overlapSize) \o split
    IN IF Len(current) <= chunking.options.maxChunkSize
       THEN [merged EXCEPT ![Len(merged)] = current]
       ELSE Append(merged, split)

(* mergeSplitsWithOverlap: nothing to merge, the first split, a further one. *)
MergeSplit ==
    /\ chunking.at = "merge"
    /\ LET s == chunking.splits
           next == IF chunking.merged = <<>> THEN <<Head(s)>>
                   ELSE Merged(chunking.merged, Head(s))
       IN IF chunking.merged = <<>> /\ (Len(s) <= 1 \/ chunking.options.overlapSize <= 0)
          THEN chunking' = [chunking EXCEPT !.merged = s, !.splits = <<>>, !.at = "emit"]
          ELSE chunking' = [chunking EXCEPT !.merged = next, !.splits = Tail(s),
                                            !.at = IF Len(s) = 1 THEN "emit" ELSE "merge"]

(* chunkText.trim()                                                         *)
Trim(s) ==
    LET visible == {k \in DOMAIN s : Visible(s[k])} IN
    IF visible = {} THEN <<>> ELSE SubSeq(s, Min(visible), Max(visible))

(* The loop of chunk(): a merged split that is blank is passed over, any     *)
(* other one is the next chunk.                                             *)
EmitChunk ==
    /\ chunking.at = "emit"
    /\ LET trimmed == Trim(Head(chunking.merged))
           seq == Len(chunking.chunks)
       IN chunking' = [chunking EXCEPT
              !.chunks = IF trimmed = <<>> THEN @
                         ELSE Append(@, [sequence_number |-> seq, text |-> trimmed]),
              !.merged = Tail(@),
              !.at = IF Len(chunking.merged) = 1 THEN "done" ELSE "emit"]

ChunkerNext == CutSplit \/ MergeSplit \/ EmitChunk

ChunkerSpec == ChunkerInit /\ [][ChunkerNext]_chunkerVars

-----------------------------------------------------------------------------
Contiguous(s) == \A k \in 1..(Len(s) - 1) : s[k + 1] = s[k] + 1

(* Nothing is cut off or repeated by the splits, whatever the separators:    *)
(* put together they are the text.                                          *)
SplitsAreTheText ==
    chunking.at = "split" =>
        LET pieces == Append(chunking.splits, chunking.remaining) IN
        /\ \A k \in DOMAIN pieces : pieces[k] # <<>> /\ Contiguous(pieces[k])
        /\ Head(Head(pieces)) = 1 /\ Last(Last(pieces)) = Len(chunking.text)
        /\ \A k \in 1..(Len(pieces) - 1) : Head(pieces[k + 1]) = Last(pieces[k]) + 1

InSomeChunk(i) == \E k \in DOMAIN chunking.chunks : i \in Range(chunking.chunks[k].text)

(* What chunk() returns is fit for the embedding API and the indexes, for    *)
(* any separators and sizes: every chunk is a piece of the text of at most   *)
(* maxChunkSize characters that begins and ends visibly; the chunks follow   *)
(* one another, numbered without a gap, to the end of the text; and without  *)
(* an overlap all that is visible of the text is in some chunk.              *)
ChunksAreSound ==
    /\ SplitsAreTheText
    /\ \A k \in DOMAIN chunking.chunks :
          LET c == chunking.chunks[k] IN
          /\ c.sequence_number = k - 1
          /\ Len(c.text) \in 1..chunking.options.maxChunkSize
          /\ Contiguous(c.text) /\ Visible(Head(c.text)) /\ Visible(Last(c.text))
          /\ k > 1 => Head(c.text) > Last(chunking.chunks[k - 1].text)
    /\ chunking.at = "emit" => Last(Last(chunking.merged)) = Len(chunking.text)
    /\ chunking.at = "done" /\ chunking.options.overlapSize = 0 =>
          \A i \in Positions : Visible(i) => InSomeChunk(i)

(* The README: FixedSizeChunker "splits text into overlapping chunks": all   *)
(* of the text that is visible is in some chunk.                             *)
TextIsKept ==
    chunking.at = "done" => \A i \in Positions : Visible(i) => InSomeChunk(i)
=============================================================================
