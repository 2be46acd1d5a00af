----------------------------- MODULE TextSplitting -----------------------------
(***************************************************************************)
(* How backend/app/pipeline/chunk.py breaks an oversized paragraph.        *)
(*                                                                         *)
(* A word is a sequence of characters, any values but Blank.  A sentence   *)
(* is a sequence of words, a paragraph a sequence of sentences; a text is  *)
(* a sequence of characters and Blanks.                                    *)
(***************************************************************************)
EXTENDS SequencesExt, Integers

CONSTANT Blank

(* " ".join(texts).                                                        *)
Join(texts) ==
    FoldLeft(LAMBDA acc, t : IF acc = <<>> THEN t ELSE acc \o <<Blank>> \o t, <<>>, texts)

(* Greedy grouping: an item joins the last group while the running count   *)
(* stays within max.  The separator is taken before a full group is given  *)
(* out and still added to the count of the next one, which is one more     *)
(* than its text.                                                          *)
Pack(texts, max) ==
    LET Put(acc, t) ==
            LET sep  == IF acc.groups = <<>> THEN 0 ELSE 1
                size == acc.size + sep + Len(t)
            IN  IF acc.groups # <<>> /\ size <= max
                THEN [groups |-> [acc.groups EXCEPT ![Len(acc.groups)] = Append(@, t)], size |-> size]
                ELSE [groups |-> Append(acc.groups, <<t>>), size |-> sep + Len(t)]
    IN  FoldLeft(Put, [groups |-> <<>>, size |-> 0], texts).groups

JoinEach(groups) == [i \in DOMAIN groups |-> Join(groups[i])]

HardSplit(words, max) == JoinEach(Pack(words, max))

SentenceTexts(par) == JoinEach(par)
ParagraphText(par) == Join(SentenceTexts(par))

(* The words of a text: str.split().                                       *)
Words(text) ==
    LET Put(words, c) ==
            IF c = Blank THEN Append(words, <<>>)
            ELSE IF words = <<>> THEN <<<<c>>>>
            ELSE [words EXCEPT ![Len(words)] = Append(@, c)]
    IN  SelectSeq(FoldLeft(Put, <<>>, text), LAMBDA w : w # <<>>)

(* _split_large_para: whole if it fits; by words if it is one sentence;    *)
(* else by sentences, each group of which is split by words again.         *)
SplitLargePara(par, target) ==
    LET groups == JoinEach(Pack(SentenceTexts(par), target))
    IN  IF Len(ParagraphText(par)) <= target THEN <<ParagraphText(par)>>
        ELSE IF Len(par) = 1 THEN HardSplit(par[1], target)
        ELSE FlattenSeq([i \in DOMAIN groups |-> HardSplit(Words(groups[i]), target)])
===============================================================================
