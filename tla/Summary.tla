------------------------------ MODULE Summary ------------------------------
(***************************************************************************)
(* The map-reduce of the daily summary (ai_utils._summarize_chunked and      *)
(* _chunk_words), one loop iteration or model call per step.  Texts are      *)
(* their numbers of words, and chunks the words from..to they span; what a    *)
(* model call answers is any number of words.                                *)
(***************************************************************************)
EXTENDS Naturals, Sequences

CONSTANTS CHUNK_WORDS, CHUNK_OVERLAP, MIN_SUMMARY_WORDS,
          FOLDS,        \* passes over partial summaries
          MaxWords,     \* bound: words of a text
          MaxAnswer     \* bound: words a model call answers

ASSUME SummaryAssumption ==
    /\ CHUNK_WORDS \in Nat \ {0} /\ CHUNK_OVERLAP \in Nat /\ CHUNK_OVERLAP < CHUNK_WORDS
    /\ MIN_SUMMARY_WORDS \in Nat /\ FOLDS \in Nat
    /\ MaxWords \in Nat /\ MaxAnswer \in Nat

VARIABLES
    pc,       \* where the thread is
    words,    \* words of the text being chunked: the day's, later joined partials
    start,    \* the loop variable of _chunk_words, words left behind
    chunks,   \* the chunks so far
    joined,   \* words of the partial summaries so far
    done,     \* partials so far of this pass
    folds,    \* passes over partial summaries so far
    input     \* words given to the model in the last call

vars == <<pc, words, start, chunks, joined, done, folds, input>>

Places == {"called", "splitting", "tail", "mapping", "folding", "returned", "raised"}

(* size counts a word that two joined chunks share twice. *)
Chunk(from, to, size) == [from |-> from, to |-> to, size |-> size]

Init ==
    /\ pc = "called" /\ words \in 0..MaxWords
    /\ start = 0 /\ chunks = <<>> /\ joined = 0 /\ done = 0 /\ folds = 0 /\ input = 0

(* Too short to summarise: the text itself. *)
TooShort ==
    /\ pc = "called" /\ words < MIN_SUMMARY_WORDS
    /\ pc' = "returned"
    /\ UNCHANGED <<words, start, chunks, joined, done, folds, input>>

(* _chunk_words: one chunk, or a loop. *)
ChunkWords(n) ==
    /\ words' = n /\ start' = 0 /\ done' = 0 /\ joined' = 0
    /\ IF n <= CHUNK_WORDS
       THEN pc' = "mapping" /\ chunks' = <<Chunk(1, n, n)>>
       ELSE pc' = "splitting" /\ chunks' = <<>>

Called ==
    /\ pc = "called" /\ words >= MIN_SUMMARY_WORDS
    /\ ChunkWords(words)
    /\ UNCHANGED <<folds, input>>

Smaller(a, b) == IF a < b THEN a ELSE b

(* Mutants: the loop goes on at the end of the text; chunks do not overlap  *)
(* but leave a gap.                                                         *)
MutNoBreak ==
    /\ pc = "splitting"
    /\ LET end == Smaller(start + CHUNK_WORDS, words) IN
       /\ chunks' = <<Chunk(start + 1, end, end - start)>>
       /\ start' = end - CHUNK_OVERLAP
    /\ UNCHANGED <<pc, words, joined, done, folds, input>>
MutGap ==
    /\ pc = "splitting"
    /\ LET end == Smaller(start + CHUNK_WORDS, words) IN
       /\ chunks' = Append(chunks, Chunk(start + 1, end, end - start))
       /\ IF end = words THEN pc' = "tail" /\ UNCHANGED start
          ELSE pc' = "splitting" /\ start' = end + CHUNK_OVERLAP
    /\ UNCHANGED <<words, joined, done, folds, input>>

(* One iteration: the chunk [start, end), then break, or step back by the *)
(* overlap.                                                               *)
Split ==
    /\ pc = "splitting"
    /\ LET end == Smaller(start + CHUNK_WORDS, words) IN
       /\ chunks' = Append(chunks, Chunk(start + 1, end, end - start))
       /\ IF end = words THEN pc' = "tail" /\ UNCHANGED start
          ELSE pc' = "splitting" /\ start' = end - CHUNK_OVERLAP
    /\ UNCHANGED <<words, joined, done, folds, input>>

LastChunk == chunks[Len(chunks)]

(* Mutant: whatever is last joins its predecessor. *)
MutTailIsShort == Len(chunks) >= 2

TailIsShort == Len(chunks) >= 2 /\ LastChunk.size < CHUNK_WORDS \div 2

(* A short tail joins its predecessor. *)
JoinTail ==
    /\ pc = "tail"
    /\ pc' = "mapping"
    /\ chunks' =
         IF TailIsShort
         THEN LET before == chunks[Len(chunks) - 1] IN
              Append(SubSeq(chunks, 1, Len(chunks) - 2),
                     Chunk(before.from, LastChunk.to, before.size + LastChunk.size))
         ELSE chunks
    /\ UNCHANGED <<words, start, joined, done, folds, input>>

(* The model, or its loading, raises: so does the summary. *)
SummarizeRaises ==
    /\ pc = "mapping" \/ (pc = "folding" /\ folds < FOLDS /\ joined <= CHUNK_WORDS)
    /\ pc' = "raised"
    /\ UNCHANGED <<words, start, chunks, joined, done, folds, input>>

(* _summarize_once for the next chunk: the answer itself when there is one *)
(* chunk, a partial summary when there are several or in a later pass.     *)
Map ==
    /\ pc = "mapping"
    /\ input' = chunks[done + 1].size
    /\ \E answer \in 0..MaxAnswer : joined' = joined + answer
    /\ done' = done + 1
    /\ pc' = IF done + 1 < Len(chunks) THEN "mapping"
             ELSE IF Len(chunks) = 1 /\ folds = 0 THEN "returned" ELSE "folding"
    /\ UNCHANGED <<words, start, chunks, folds>>

(* The partials fit a single pass. *)
LastPass ==
    /\ pc = "folding" /\ folds < FOLDS /\ joined <= CHUNK_WORDS
    /\ input' = joined
    /\ \E answer \in 0..MaxAnswer : joined' = answer
    /\ pc' = "returned"
    /\ UNCHANGED <<words, start, chunks, done, folds>>

(* Mutant: passes are not counted. *)
MutFoldsForever ==
    /\ pc = "folding" /\ joined > CHUNK_WORDS
    /\ ChunkWords(joined)
    /\ UNCHANGED <<folds, input>>

Fold ==
    /\ pc = "folding" /\ folds < FOLDS /\ joined > CHUNK_WORDS
    /\ folds' = folds + 1
    /\ ChunkWords(joined)
    /\ UNCHANGED input

(* The passes are used up: cut off, without another call. *)
Truncate ==
    /\ pc = "folding" /\ folds = FOLDS
    /\ joined' = Smaller(joined, CHUNK_WORDS)
    /\ pc' = "returned"
    /\ UNCHANGED <<words, start, chunks, done, folds, input>>

Next ==
    \/ TooShort \/ Called \/ Split \/ JoinTail \/ SummarizeRaises
    \/ Map \/ LastPass \/ Fold \/ Truncate

Spec == Init /\ [][Next]_vars

(* The thread runs. *)
FairSpec == Spec /\ WF_vars(Next)

-----------------------------------------------------------------------------
Chunks == [from : Nat, to : Nat, size : Nat]

(* Every variable has its type. *)
TypeOK ==
    /\ pc \in Places
    /\ {words, start, joined, done, folds, input} \subseteq Nat
    /\ chunks \in Seq(Chunks)

(* Once a text is split, every word of it is in a chunk, in order: the first *)
(* chunk starts and the last ends with it, and each starts where the one     *)
(* before it ends, less the overlap.                                        *)
NothingLeftOut ==
    pc = "mapping" =>
        /\ chunks # <<>> /\ chunks[1].from = 1 /\ LastChunk.to = words
        /\ \A i \in 1..(Len(chunks) - 1) :
              chunks[i + 1].from + CHUNK_OVERLAP = chunks[i].to + 1

(* No call is given more words than a chunk and a short tail have, and none *)
(* on a chunk of a longer text less than half a chunk, which the model      *)
(* would pad ("a short tail joins its predecessor").                        *)
CallsFit ==
    /\ input <= CHUNK_WORDS + CHUNK_WORDS \div 2
    /\ pc = "mapping" /\ Len(chunks) > 1 =>
          \A i \in DOMAIN chunks : chunks[i].size >= CHUNK_WORDS \div 2

(* "A pathological model output can never loop forever": the summary comes, *)
(* or an exception, whatever the lengths of the answers.                    *)
SummaryComes == <>(pc \in {"returned", "raised"})

-----------------------------------------------------------------------------
(* The inductive invariant behind NothingLeftOut and CallsFit. *)

(* Chunks of a loop that has come to `start`. *)
Aligned ==
    \A i \in DOMAIN chunks :
        /\ i = 1 => chunks[i].from = 1
        /\ i > 1 => chunks[i].from + CHUNK_OVERLAP = chunks[i - 1].to + 1

Sized(limit) == \A i \in DOMAIN chunks : chunks[i].size <= limit

SplitInv ==
    pc \in {"splitting", "tail"} =>
        /\ Aligned /\ words > CHUNK_WORDS /\ done = 0
        /\ \A i \in DOMAIN chunks :
              (i < Len(chunks) \/ pc = "splitting") => chunks[i].size = CHUNK_WORDS
        /\ Sized(CHUNK_WORDS)
        /\ pc = "splitting" =>
              /\ start < words
              /\ IF chunks = <<>> THEN start = 0
                 ELSE LastChunk.to = start + CHUNK_OVERLAP
        /\ pc = "tail" => chunks # <<>> /\ LastChunk.to = words

MapInv ==
    pc = "mapping" =>
        /\ Aligned /\ chunks # <<>> /\ LastChunk.to = words
        /\ Sized(CHUNK_WORDS + CHUNK_WORDS \div 2)
        /\ Len(chunks) > 1 => \A i \in DOMAIN chunks : chunks[i].size >= CHUNK_WORDS \div 2
        /\ done < Len(chunks)

SummaryInv ==
    /\ SplitInv /\ MapInv
    /\ input <= CHUNK_WORDS + CHUNK_WORDS \div 2
=============================================================================
