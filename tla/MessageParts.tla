----------------------------- MODULE MessageParts -----------------------------
(***************************************************************************)
(* How an answer is split into the messages that are sent (formatting.py).     *)
(* A draft is a sequence of blocks, its paragraphs, or its lines when it is one  *)
(* bulleted list; a block is a sequence of sentences, and a sentence of the      *)
(* lengths of its words.  Blocks are two characters apart, all else one.         *)
(*                                                                         *)
(* The limits are those of the code, to scale.                               *)
(***************************************************************************)
EXTENDS Naturals, SequencesExt

CONSTANTS
    SoftLimit,   \* DEFAULT_WHATSAPP_CHUNK_LIMIT
    HardLimit,   \* HARD_WHATSAPP_CHUNK_LIMIT
    MinChars,    \* min_chars of merge_short_chunks
    Lengths,     \* the lengths of words
    MaxLength    \* bound: of words in a sentence, sentences in a block and blocks

ASSUME LimitsAssumption ==
    /\ SoftLimit \in Nat \ {0} /\ HardLimit \in Nat /\ MinChars \in Nat /\ MaxLength \in Nat
    /\ SoftLimit <= HardLimit
    /\ Lengths \subseteq Nat \ {0}

UpTo(set) == UNION { [1 .. n -> set] : n \in 1 .. MaxLength }

Drafts == UpTo(UpTo(UpTo(Lengths)))

\* A part has its words in their order, and its length.
Join(a, b, gap) == [words |-> a.words \o b.words, size |-> a.size + gap + b.size]

WordPart(length) == [words |-> <<length>>, size |-> length]

JoinAll(parts) == FoldLeft(LAMBDA a, b : Join(a, b, 1), Head(parts), Tail(parts))

SentencePart(sentence) == JoinAll([n \in DOMAIN sentence |-> WordPart(sentence[n])])

BlockPart(block) == JoinAll([n \in DOMAIN block |-> SentencePart(block[n])])

\* What every loop keeps: the chunks so far and the current one, if any.
Start == [chunks |-> <<>>, current |-> <<>>]

Flushed(state) == state.chunks \o state.current

Candidate(state, part) ==
    IF state.current = <<>> THEN part ELSE Join(Head(state.current), part, 1)

Extend(state, candidate) == [state EXCEPT !.current = <<candidate>>]

Renew(state, part) == [chunks |-> Flushed(state), current |-> <<part>>]

\* A word beyond the limit is cut.
Cut(length) ==
    [ n \in 1 .. ((length + HardLimit - 1) \div HardLimit) |->
        WordPart(IF n * HardLimit <= length THEN HardLimit ELSE length % HardLimit) ]

\* split_long_text
AddWord(state, length) ==
    LET part == WordPart(length)
        candidate == Candidate(state, part)
    IN  CASE candidate.size <= HardLimit -> Extend(state, candidate)
          [] candidate.size > HardLimit /\ length <= HardLimit -> Renew(state, part)
          [] length > HardLimit -> [chunks |-> Flushed(state) \o Cut(length), current |-> <<>>]

\* A long sentence takes the place of what came before it.
AddSentenceMutant(state, sentence) ==
    LET part == SentencePart(sentence)
        candidate == Candidate(state, part)
    IN  IF part.size > HardLimit
        THEN [chunks |-> state.chunks \o Flushed(FoldLeft(AddWord, Start, sentence)),
              current |-> <<>>]
        ELSE IF candidate.size <= SoftLimit THEN Extend(state, candidate)
        ELSE Renew(state, part)

\* split_oversized_block
AddSentence(state, sentence) ==
    LET part == SentencePart(sentence)
        candidate == Candidate(state, part)
    IN  IF part.size > HardLimit
        THEN [chunks |-> Flushed(state) \o Flushed(FoldLeft(AddWord, Start, sentence)),
              current |-> <<>>]
        ELSE IF candidate.size <= SoftLimit THEN Extend(state, candidate)
        ELSE Renew(state, part)

SplitBlock(part, block) ==
    IF part.size <= SoftLimit THEN <<part>> ELSE Flushed(FoldLeft(AddSentence, Start, block))

\* The blocks that fit in one are put together; the last one is still open.
AddBlock(state, block) ==
    LET part == BlockPart(block)
        joined == Join(state.part, part, 2)
    IN  IF joined.size <= SoftLimit THEN [state EXCEPT !.part = joined]
        ELSE [chunks |-> state.chunks \o SplitBlock(state.part, state.block),
              part |-> part, block |-> block]

Chunks(draft) ==
    LET first == [chunks |-> <<>>, part |-> BlockPart(Head(draft)), block |-> Head(draft)]
        last == FoldLeft(AddBlock, first, Tail(draft))
    IN  last.chunks \o SplitBlock(last.part, last.block)

\* A chunk that is a message of its own, and two that are put together.
Alone(part) == [words |-> part.words, size |-> part.size, alone |-> TRUE]

Together(a, b) ==
    LET both == Join(a, b, 2) IN [words |-> both.words, size |-> both.size, alone |-> FALSE]

\* A short chunk goes with the next one, or else with the message before it.
MergeStep(chunks, state, n) ==
    LET short == chunks[n].size < MinChars
        next == IF n < Len(chunks) THEN Together(chunks[n], chunks[n + 1]) ELSE Alone(chunks[n])
        before == IF state.merged # <<>> THEN Together(Last(state.merged), chunks[n])
                  ELSE Alone(chunks[n])
    IN  IF state.skip THEN [state EXCEPT !.skip = FALSE]
        ELSE IF short /\ n < Len(chunks) /\ next.size <= HardLimit
        THEN [merged |-> Append(state.merged, next), skip |-> TRUE]
        ELSE IF short /\ state.merged # <<>> /\ before.size <= HardLimit
        THEN [state EXCEPT !.merged = Append(Front(@), before)]
        ELSE [state EXCEPT !.merged = Append(@, Alone(chunks[n]))]

\* merge_short_chunks
Merged(chunks) ==
    FoldLeft(LAMBDA state, n : MergeStep(chunks, state, n), [merged |-> <<>>, skip |-> FALSE],
             [n \in DOMAIN chunks |-> n]).merged

\* split_whatsapp_messages
Parts(draft) == Merged(Chunks(draft))

-----------------------------------------------------------------------------
\* The words of a draft, those beyond the limit cut.
DraftWords(draft) ==
    LET words == FlattenSeq(FlattenSeq(draft))
    IN  FlattenSeq([ n \in DOMAIN words |->
                       [ m \in DOMAIN Cut(words[n]) |-> Cut(words[n])[m].size ] ])

\* What the parts of a draft must be: they hold its words, all of them and in their
\* order; none is beyond the hard limit; and none is a chunk left alone that is short
\* and would fit in one message with a neighbour.  Two short chunks together may
\* still be short beside a message with room: merge_short_chunks never looks back
\* at what it has put together.
WellSplit(draft) ==
    LET parts == Parts(draft)
    IN  /\ FlattenSeq([n \in DOMAIN parts |-> parts[n].words]) = DraftWords(draft)
        /\ \A n \in DOMAIN parts : parts[n].size <= HardLimit
        /\ \A n \in 1 .. Len(parts) - 1 :
             parts[n].size + 2 + parts[n + 1].size <= HardLimit =>
               \A part \in {parts[n], parts[n + 1]} : part.alone => part.size >= MinChars

AllWellSplit == \A draft \in Drafts : WellSplit(draft)
=============================================================================
