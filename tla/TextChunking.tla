----------------------------- MODULE TextChunking -----------------------------
(***************************************************************************)
(* chunk_pages of backend/app/pipeline/chunk.py: the pages of a document,  *)
(* paragraph by paragraph and piece by piece, become overlapping chunks.   *)
(*                                                                         *)
(* A character is its position in source, the text of the whole document;  *)
(* blanks and separators inside chunks are Blank, which is 0.              *)
(***************************************************************************)
EXTENDS TextSplitting, FiniteSets

CONSTANTS
    Target,     \* target_chars
    Overlap,    \* overlap_chars, less than Target
    Shapes,     \* paragraphs a page may hold: sentences, words, lengths
    Pages,      \* page numbers
    MaxParagraphs   \* bound on the paragraphs of a document

VARIABLES
    paragraphs, \* paragraphs still to read, in page order
    pieces,     \* pieces of the current paragraph still to place
    readPage,   \* its page
    source,     \* auxiliary: the text read so far, each character as its page
    text,       \* current_parts, joined
    chars,      \* current_chars
    page,       \* current_page
    offset,     \* doc_offset
    chunks,     \* the result
    done

vars == <<paragraphs, pieces, readPage, source, text, chars, page, offset, chunks, done>>

Separator == <<Blank, Blank>>

Texts ==
    {ps \in UNION {[1..n -> [page : Pages, shape : Shapes]] : n \in 0..MaxParagraphs} :
        \A i, j \in DOMAIN ps : i <= j => ps[i].page <= ps[j].page}

Characters(t) == {t[i] : i \in DOMAIN t} \ {Blank}

TypeOK ==
    /\ Range(paragraphs) \subseteq [page : Pages, shape : Shapes]
    /\ readPage \in Pages \cup {0}
    /\ page \in Pages \cup {0}
    /\ \A i \in DOMAIN source : source[i] \in Pages \cup {Blank}
    /\ \A t \in {text} \cup {pieces[i] : i \in DOMAIN pieces} :
           Characters(t) \subseteq DOMAIN source
    /\ chars \in Nat
    /\ offset \in Nat
    /\ \A i \in DOMAIN chunks :
           /\ Characters(chunks[i].text) \subseteq DOMAIN source
           /\ chunks[i].page \in Pages /\ chunks[i].start \in Nat
    /\ done \in BOOLEAN

Init ==
    /\ paragraphs \in Texts
    /\ pieces = <<>> /\ readPage = 0 /\ source = <<>>
    /\ text = <<>> /\ chars = 0
    /\ page = IF paragraphs = <<>> THEN 0 ELSE paragraphs[1].page
    /\ offset = 0 /\ chunks = <<>> /\ done = FALSE
-------------------------------------------------------------------------------
(* The paragraph of a given shape whose first character is at position n.  *)
Place(shape, n) ==
    LET WordAt(len, from) == [i \in 1..len |-> from + i - 1]
        PutWord(acc, len) ==
            [words |-> Append(acc.words, WordAt(len, acc.next)), next |-> acc.next + len + 1]
        PutSentence(acc, lens) ==
            LET s == FoldLeft(PutWord, [words |-> <<>>, next |-> acc.next], lens)
            IN  [sentences |-> Append(acc.sentences, s.words), next |-> s.next]
    IN  FoldLeft(PutSentence, [sentences |-> <<>>, next |-> n], shape).sentences

(* The pages of a text that is read from position n on.                    *)
PagesOf(par, p) ==
    [i \in DOMAIN ParagraphText(par) |-> IF ParagraphText(par)[i] = Blank THEN Blank ELSE p]

StartParagraph ==
    /\ pieces = <<>> /\ paragraphs # <<>>
    /\ LET gap == IF source = <<>> THEN <<>> ELSE Separator
           par == Place(Head(paragraphs).shape, Len(source) + Len(gap) + 1)
       IN  /\ pieces' = SplitLargePara(par, Target)
           /\ readPage' = Head(paragraphs).page
           /\ source' = source \o gap \o PagesOf(par, Head(paragraphs).page)
    /\ paragraphs' = Tail(paragraphs)
    /\ UNCHANGED <<text, chars, page, offset, chunks, done>>

(* str.strip(): what is blank at the ends goes.                            *)
Strip(t) ==
    LET solid == {i \in DOMAIN t : t[i] # Blank}
    IN  IF solid = {} THEN <<>> ELSE SubSeq(t, Min(solid), Max(solid))

(* _tail: full[-max_chars:], which for 0 is full[0:], the whole text.      *)
LastChars(t) ==
    IF Len(t) <= Overlap \/ Overlap = 0 THEN t
    ELSE SubSeq(t, Len(t) - Overlap + 1, Len(t))

Overflows(piece) == text # <<>> /\ chars + Len(Separator) + Len(piece) > Target

Chunk == [text |-> Strip(text), page |-> page, start |-> offset]

(* _emit_chunk: the chunk is recorded, the offset moves by its length.     *)
Emit ==
    /\ chunks' = Append(chunks, Chunk)
    /\ offset' = offset + Len(Chunk.text)

(* Mutant: the piece that overflows a chunk is lost.                       *)
PutAfterLosing(before, count, piece) ==
    /\ text' = IF before = <<>> THEN piece ELSE before
    /\ chars' = Len(text')

(* The piece goes behind what the chunk holds already.                     *)
PutAfter(before, count, piece) ==
    /\ text' = IF before = <<>> THEN piece ELSE before \o Separator \o piece
    /\ chars' = count + Len(piece) + (IF before = <<>> THEN 0 ELSE Len(Separator))

(* A piece that fits.  Only the first piece of an empty chunk sets its page*)
Fill ==
    /\ pieces # <<>> /\ ~Overflows(Head(pieces))
    /\ PutAfter(text, chars, Head(pieces))
    /\ page' = IF text = <<>> THEN readPage ELSE page
    /\ pieces' = Tail(pieces)
    /\ UNCHANGED <<paragraphs, readPage, source, offset, chunks, done>>

(* A piece that does not: the chunk is emitted, the next one starts with   *)
(* its tail, whatever the piece's length, and keeps its page.              *)
Overflow ==
    /\ pieces # <<>> /\ Overflows(Head(pieces))
    /\ Emit
    /\ PutAfter(LastChars(text), Len(LastChars(text)), Head(pieces))
    /\ pieces' = Tail(pieces)
    /\ UNCHANGED <<paragraphs, readPage, source, page, done>>

(* The last chunk.                                                         *)
Flush ==
    /\ pieces = <<>> /\ paragraphs = <<>> /\ ~done
    /\ IF text = <<>> THEN UNCHANGED <<chunks, offset>> ELSE Emit
    /\ text' = <<>> /\ chars' = 0 /\ done' = TRUE
    /\ UNCHANGED <<paragraphs, pieces, readPage, source, page>>

Next == StartParagraph \/ Fill \/ Overflow \/ Flush

Spec == Init /\ [][Next]_vars
-------------------------------------------------------------------------------
Unread == UNION {Characters(pieces[i]) : i \in DOMAIN pieces}
Chunked == UNION {Characters(chunks[i].text) : i \in DOMAIN chunks}

(* However a paragraph is split, not a character of the document is lost:  *)
(* each is in a chunk, in the chunk being filled or still to be placed; and*)
(* where every word fits in a piece no chunk grows beyond an overlap, a    *)
(* separator and one piece, however often overlaps are carried on.         *)
ChunksKeepText ==
    /\ {i \in DOMAIN source : source[i] # Blank} = Chunked \cup Characters(text) \cup Unread
    /\ \A i \in DOMAIN chunks : Len(chunks[i].text) <= Overlap + Len(Separator) + Target
===============================================================================
