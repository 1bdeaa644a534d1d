---------------------------- MODULE BlockChunker ----------------------------
(***************************************************************************)
(* Splitting a reply into messages (services/block-chunker.ts).  A text is  *)
(* a sequence of paragraphs, a paragraph a sequence of sentences; a         *)
(* sentence is modelled by what identifies it and its length.  A chunk      *)
(* keeps the sentences it is made of and its length with the separators.    *)
(* Both loops break at paragraph or sentence ends only: code blocks are     *)
(* looked for and then not used, and count as text.                         *)
(***************************************************************************)
EXTENDS Naturals, Sequences, SequencesExt

CONSTANTS MinChars, MaxChars, BreakOn, Coalesce

Blank == [items |-> <<>>, len |-> 0]
Joined(c, d, gap) == IF c.len = 0 THEN d ELSE [items |-> c.items \o d.items, len |-> c.len + gap + d.len]
Sentence(s) == [items |-> <<s.id>>, len |-> s.len]
Paragraph(p) == FoldLeft(LAMBDA c, s : Joined(c, Sentence(s), 1), Blank, p)

\* The chunks so far and the one being filled; closing it, or not if it is blank.
NoChunks == [done |-> <<>>, cur |-> Blank]
Begun(st, c) == [done |-> IF st.cur.len = 0 THEN st.done ELSE Append(st.done, st.cur), cur |-> c]
Filled(st, c, gap) == [st EXCEPT !.cur = Joined(@, c, gap)]
Closed(st) == Begun(st, Blank).done

\* #chunkBySentence: the last sentence, which no blank follows, has a rule of its own.
SentenceStep(st, s) == IF st.cur.len + s.len + 1 > MaxChars /\ st.cur.len >= MinChars
                       THEN Begun(st, Sentence(s)) ELSE Filled(st, Sentence(s), 1)
BySentence(p) ==
    LET st == FoldLeft(SentenceStep, NoChunks, Front(p))
    IN Closed(IF st.cur.len + Last(p).len + 1 <= MaxChars THEN Filled(st, Sentence(Last(p)), 1)
              ELSE Begun(st, Sentence(Last(p))))

\* #chunkByParagraph: a paragraph too long for a chunk that is itself too short is broken up.
Pack(st, c) == IF st.cur.len + c.len + 1 <= MaxChars THEN Filled(st, c, 1) ELSE Begun(st, c)
ParagraphStep(st, p) ==
    LET par == Paragraph(p)
    IN CASE st.cur.len + par.len + 2 <= MaxChars \/ st.cur.len = 0 -> Filled(st, par, 2)
         [] st.cur.len >= MinChars /\ st.cur.len + par.len + 2 > MaxChars -> Begun(st, par)
         [] OTHER -> FoldLeft(Pack, st, BySentence(p))
ByParagraph(text) == Closed(FoldLeft(ParagraphStep, NoChunks, text))

\* #coalesceChunks: short chunks join the one before, the first of them waits for the next.
CoalesceStepDropping(out, c) ==
    IF out # <<>> /\ Last(out).len < MinChars /\ Last(out).len + c.len + 1 <= MaxChars
       THEN Append(Front(out), Joined(Last(out), c, 1))
    ELSE IF c.len < MinChars /\ out # <<>> THEN out
    ELSE Append(out, c)
CoalesceStep(out, c) ==
    IF out # <<>> /\ (c.len < MinChars \/ (Last(out).len < MinChars /\ Last(out).len + c.len + 1 <= MaxChars))
    THEN Append(Front(out), Joined(Last(out), c, 1)) ELSE Append(out, c)

\* The sentences of a text that is broken at sentences only.
Flat(text) == FoldLeft(LAMBDA all, p : all \o p, <<>>, text)

\* chunk, whichever way the chunker is configured.
Chunked(breakOn, coalesce, text) ==
    LET chunks == IF text = <<>> THEN <<>> ELSE IF breakOn = "paragraph" THEN ByParagraph(text) ELSE BySentence(Flat(text))
    IN IF coalesce /\ Len(chunks) > 1 THEN FoldLeft(CoalesceStep, <<>>, chunks) ELSE chunks
Chunks(text) == Chunked(BreakOn, Coalesce, text)

(***************************************************************************)
(* Properties.                                                              *)
(***************************************************************************)

Items(chunks) == Flat([i \in DOMAIN chunks |-> chunks[i].items])
Sentences(text) == [i \in DOMAIN Flat(text) |-> Flat(text)[i].id]

\* The chunks of a text are all of its sentences, each once and in order, whatever is split, packed
\* and coalesced; and a chunk is too long by less than a short chunk, or holds a whole paragraph
\* that is, and the short chunks around it (a long paragraph is broken up only after one).  Where
\* two short chunks make one that is too long there may be many in a row, all coalesced into one.
LongerThan(text, n) == \E i \in DOMAIN text : Paragraph(text[i]).len + 2 * MinChars >= n
Tight == 2 * MinChars > MaxChars + 1
ChunksWhole(text) ==
    \A breakOn \in {"paragraph", "sentence"}, coalesce \in BOOLEAN :
        LET chunks == Chunked(breakOn, coalesce, text)
        IN /\ Items(chunks) = Sentences(text)
           /\ \/ coalesce /\ Tight
              \/ \A c \in Range(chunks) : c.len <= MaxChars + MinChars \/ LongerThan(text, c.len)
=============================================================================
