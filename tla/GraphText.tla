------------------------------ MODULE GraphText ------------------------------
(***************************************************************************)
(* services/memory-graph-service, the part that reads text: the entity      *)
(* extractor and the relation detector, as operators on the chunks of a     *)
(* document.  A chunk is a sequence of sentences, a sentence a sequence of  *)
(* tokens [w, k]: a word, and whether it is capitalised ("cap"), a date     *)
(* ("date") or neither ("low").  Confidences are thousandths.               *)
(*                                                                          *)
(* A name is a sequence of words; the code compares names in lower case,    *)
(* which here is the sequence itself.  Left out: entity types, evidence,    *)
(* names of one or two letters, "city of x" places, and the cap of 500      *)
(* entities per document.                                                   *)
(***************************************************************************)
EXTENDS Integers, Sequences, FiniteSets, FiniteSetsExt, SequencesExt

CONSTANTS
    RelationWords,  \* PREPOSITION_PATTERNS, one word to a pattern, in the
                    \* order they are tried: <<[word, type], ...>>
    AlphaOrder,     \* the names that occur, in alphabetical order
    LogRatio        \* LogRatio[n][m]: 1000 * ln(n / m), rounded

MinEntityConfidence   == 300
MinRelationConfidence == 400
MinCoOccurrence       == 2
MaxSentenceDistance   == 3

AtMost(n, limit) == IF n <= limit THEN n ELSE limit

Sentences(chunks) == UNION {{<<c, s>> : s \in DOMAIN chunks[c]} : c \in DOMAIN chunks}
Places(chunks) == UNION {{<<p[1], p[2], i>> : i \in DOMAIN chunks[p[1]][p[2]]} :
                            p \in Sentences(chunks)}
Token(chunks, p) == chunks[p[1]][p[2]][p[3]]

(* A text is a sequence of chunks of sentences of its tokens, and a logarithm *)
(* ln(n / m) of no more chunks than there are is not negative.               *)
TokensOf(chunks) == {Token(chunks, p) : p \in Places(chunks)}
IsText(chunks) == /\ chunks \in Seq(Seq(Seq(TokensOf(chunks))))
                  /\ \A m \in 1..Len(chunks) : LogRatio[Len(chunks)][m] \in Nat

WordsAt(sentence, a, b) == [i \in 1..(b - a + 1) |-> sentence[a + i - 1].w]

(* text.includes(words)                                                     *)
Includes(sentence, words) ==
    \E a \in 1..(Len(sentence) - Len(words) + 1) :
        WordsAt(sentence, a, a + Len(words) - 1) = words
ChunkIncludes(chunk, words) == \E s \in DOMAIN chunk : Includes(chunk[s], words)

-----------------------------------------------------------------------------
(* What namePattern matches: the maximal runs of capitalised words, as      *)
(* <<chunk, sentence, first, last>>.                                        *)
Mentions(chunks) ==
    LET Cap(c, s, i) == i \in DOMAIN chunks[c][s] /\ chunks[c][s][i].k = "cap"
    IN  UNION {{<<p[1], p[2], p[3], b>> : b \in
                  {b \in p[3]..Len(chunks[p[1]][p[2]]) :
                     /\ \A i \in p[3]..b : Cap(p[1], p[2], i)
                     /\ ~Cap(p[1], p[2], p[3] - 1) /\ ~Cap(p[1], p[2], b + 1)}} :
                 p \in Places(chunks)}

NameAt(chunks, m) == WordsAt(chunks[m[1]][m[2]], m[3], m[4])

(* extractTFIDFKeyTerms: tf * ln(chunks / df) for each word.                *)
TermScore(chunks, word) ==
    LET tf == Cardinality({p \in Places(chunks) : Token(chunks, p).w = word})
        df == Cardinality({c \in DOMAIN chunks : ChunkIncludes(chunks[c], <<word>>)})
    IN  tf * LogRatio[Len(chunks)][df]

(* The entities of a document: a name mentioned n times has confidence 0.5  *)
(* + 0.1 (n - 1), at most 1; a date 0.7; the score of a one-word name is    *)
(* added to it, and a word with a score above 1.5 becomes an entity.        *)
Candidates(chunks) ==
    LET mentions == Mentions(chunks)
        named    == {NameAt(chunks, m) : m \in mentions}
        count(n) == Cardinality({m \in mentions : NameAt(chunks, m) = n})
        dates    == {<<Token(chunks, p).w>> : p \in
                        {p \in Places(chunks) : Token(chunks, p).k = "date"}}
        words    == {<<Token(chunks, p).w>> : p \in Places(chunks)}
        boost(n) == IF Len(n) = 1 THEN TermScore(chunks, n[1]) \div 10 ELSE 0
        entity(n, c) == [name |-> n, confidence |-> AtMost(c, 1000)]
    IN  {e \in  {entity(n, AtMost(400 + 100 * count(n), 1000) + boost(n)) : n \in named}
           \cup {entity(n, 700 + boost(n)) : n \in dates \ named}
           \cup {entity(n, TermScore(chunks, n[1]) \div 10) : n \in
                    {n \in words \ (named \cup dates) : TermScore(chunks, n[1]) > 1500}} :
           e.confidence >= MinEntityConfidence}

-----------------------------------------------------------------------------
(* A relation names its ends: "exact" when both names are spelled as the    *)
(* entities are.                                                            *)
Rel(a, b, t, c, exact) == [source |-> a, target |-> b, type |-> t, confidence |-> c,
                           exact |-> exact]

(* "a word b", or "b is word a": the first pattern that matches, per chunk. *)
ExplicitRelations(names, chunk) ==
    LET says(s, a, word, b) ==
            \/ Includes(s, a \o <<word>> \o b)
            \/ Includes(s, b \o <<"is", word>> \o a)
        hits(a, b) == {i \in DOMAIN RelationWords :
                         \E k \in DOMAIN chunk : says(chunk[k], a, RelationWords[i].word, b)}
        pairs == {p \in names \X names : p[1] # p[2] /\ hits(p[1], p[2]) # {}}
    IN  {Rel(p[1], p[2], RelationWords[Min(hits(p[1], p[2]))].type, 700, TRUE) : p \in pairs}

(* Two names in the same chunk, in at least two chunks.                     *)
CoOccurrences(names, chunks) ==
    LET together(a, b) == Cardinality({c \in DOMAIN chunks :
                             ChunkIncludes(chunks[c], a) /\ ChunkIncludes(chunks[c], b)})
        before(a, b) == \E i, j \in DOMAIN AlphaOrder :
                            i < j /\ AlphaOrder[i] = a /\ AlphaOrder[j] = b
        pairs == {p \in names \X names : before(p[1], p[2])
                                         /\ together(p[1], p[2]) >= MinCoOccurrence}
    IN  {Rel(p[1], p[2], "related_to",
             AtMost((together(p[1], p[2]) * 2000) \div Len(chunks), 1000), TRUE) : p \in pairs}

(* Two names in sentences of a chunk that are at most three apart.  The     *)
(* ends are spelled with a capital first letter only, which is not the name *)
(* of an entity of two words.                                               *)
ProximityRelations(names, chunk) ==
    LET close == {p \in (DOMAIN chunk) \X (DOMAIN chunk) :
                    p[1] < p[2] /\ p[2] - p[1] <= MaxSentenceDistance}
        score(p) == Max({200, 500 - (500 * (p[2] - p[1] - 1)) \div MaxSentenceDistance})
        meets(a, b, p) == Includes(chunk[p[1]], a) /\ Includes(chunk[p[2]], b)
    IN  {Rel(h[1], h[2], "nearby", score(h[3]), Len(h[1]) = 1 /\ Len(h[2]) = 1) : h \in
            {h \in names \X names \X close :
                h[1] # h[2] /\ meets(h[1], h[2], h[3])
                /\ score(h[3]) >= MinRelationConfidence}}

(* detectRelations: of those with the same ends and type the most           *)
(* confident one, if it is confident enough.                                *)
DetectRelations(names, chunks) ==
    LET all == (UNION {ExplicitRelations(names, chunks[c]) : c \in DOMAIN chunks})
                 \cup CoOccurrences(names, chunks)
                 \cup (UNION {ProximityRelations(names, chunks[c]) : c \in DOMAIN chunks})
        key(r) == <<r.source, r.type, r.target>>
    IN  {r \in all : /\ \A o \in all : key(o) = key(r) => o.confidence <= r.confidence
                     /\ r.confidence >= MinRelationConfidence}
=============================================================================
