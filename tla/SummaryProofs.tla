--------------------------- MODULE SummaryProofs ---------------------------
(***************************************************************************)
(* The daily summary's chunks, for every chunk size, overlap and number of  *)
(* passes, and for texts and answers of any length: nothing is left out,    *)
(* and no call of the model is given more than a chunk and a short tail.    *)
(***************************************************************************)
EXTENDS Summary, TLAPS

(* Half a chunk. *)
LEMMA Half ==
    /\ CHUNK_WORDS \div 2 \in Nat
    /\ CHUNK_WORDS \div 2 <= CHUNK_WORDS
  BY SummaryAssumption

(* What both branches of _chunk_words start from. *)
LEMMA StartOfChunks ==
    ASSUME NEW n \in Nat, ChunkWords(n), TypeOK, folds' \in Nat, UNCHANGED input,
           input <= CHUNK_WORDS + CHUNK_WORDS \div 2
    PROVE  TypeOK' /\ SummaryInv'
<1>1. CASE n <= CHUNK_WORDS
  <2>1. pc' = "mapping" /\ chunks' = <<Chunk(1, n, n)>> /\ words' = n
        /\ start' = 0 /\ done' = 0 /\ joined' = 0
    BY <1>1 DEF ChunkWords
  <2>2. Chunk(1, n, n) \in Chunks
    BY DEF Chunk, Chunks
  <2>3. TypeOK'
    BY <2>1, <2>2 DEF TypeOK, Places
  <2>4. Len(chunks') = 1 /\ DOMAIN chunks' = {1} /\ chunks'[1] = [from |-> 1, to |-> n, size |-> n]
    BY <2>1 DEF Chunk
  <2>5. MapInv'
    BY <1>1, <2>1, <2>4, Half, SummaryAssumption DEF MapInv, Aligned, Sized, LastChunk
  <2> QED
    BY <2>1, <2>3, <2>5 DEF SummaryInv, SplitInv
<1>2. CASE n > CHUNK_WORDS
  <2>1. pc' = "splitting" /\ chunks' = <<>> /\ words' = n
        /\ start' = 0 /\ done' = 0 /\ joined' = 0
    BY <1>2, SummaryAssumption DEF ChunkWords
  <2>2. TypeOK'
    BY <2>1 DEF TypeOK, Places
  <2>3. SplitInv'
    BY <1>2, <2>1, SummaryAssumption DEF SplitInv, Aligned, Sized
  <2> QED
    BY <2>1, <2>2, <2>3 DEF SummaryInv, MapInv
<1> QED
  BY <1>1, <1>2, SummaryAssumption

(* An iteration of the loop keeps the chunks aligned and full-sized. *)
LEMMA SplitKeeps ==
    ASSUME TypeOK, SummaryInv, Split
    PROVE  TypeOK' /\ SummaryInv'
<1> DEFINE end == Smaller(start + CHUNK_WORDS, words)
           chunk == Chunk(start + 1, end, end - start)
<1>1. /\ pc = "splitting" /\ chunks' = Append(chunks, chunk)
      /\ IF end = words THEN pc' = "tail" /\ start' = start
         ELSE pc' = "splitting" /\ start' = end - CHUNK_OVERLAP
      /\ UNCHANGED <<words, joined, done, folds, input>>
  BY DEF Split
<1>2. /\ Aligned /\ words > CHUNK_WORDS /\ done = 0 /\ start < words
      /\ \A i \in DOMAIN chunks : chunks[i].size = CHUNK_WORDS
      /\ IF chunks = <<>> THEN start = 0 ELSE LastChunk.to = start + CHUNK_OVERLAP
  BY <1>1 DEF SummaryInv, SplitInv
<1>3. end \in Nat /\ end > start /\ end <= start + CHUNK_WORDS /\ end <= words
      /\ (end # words => end = start + CHUNK_WORDS)
  BY <1>2, SummaryAssumption DEF Smaller, TypeOK
<1> HIDE DEF end
<1>4. chunk \in Chunks /\ chunk.from = start + 1 /\ chunk.to = end /\ chunk.size = end - start
  BY <1>3 DEF Chunk, Chunks, TypeOK
<1> HIDE DEF chunk
<1>5. chunks \in Seq(Chunks) /\ start \in Nat /\ words \in Nat
  BY DEF TypeOK
<1>6. /\ chunks' \in Seq(Chunks) /\ Len(chunks') = Len(chunks) + 1
      /\ DOMAIN chunks' = 1..(Len(chunks) + 1) /\ DOMAIN chunks = 1..Len(chunks)
      /\ \A i \in DOMAIN chunks : chunks'[i] = chunks[i]
      /\ chunks'[Len(chunks) + 1] = chunk
      /\ Len(chunks) \in Nat
  BY <1>1, <1>4, <1>5
<1>7. start' \in Nat
  BY <1>1, <1>3, <1>5, SummaryAssumption
<1>8. TypeOK'
  BY <1>1, <1>6, <1>7 DEF TypeOK, Places
<1>9. LastChunk'.to = end
  BY <1>4, <1>6 DEF LastChunk
<1>10. Aligned'
  <2> SUFFICES ASSUME NEW i \in 1..(Len(chunks) + 1)
               PROVE  /\ i = 1 => chunks'[i].from = 1
                      /\ i > 1 => chunks'[i].from + CHUNK_OVERLAP = chunks'[i - 1].to + 1
    BY <1>6 DEF Aligned
  <2>1. CASE i <= Len(chunks)
    <3>1. i \in DOMAIN chunks /\ (i > 1 => i - 1 \in DOMAIN chunks)
      BY <1>6, <2>1
    <3> QED
      BY <1>2, <1>6, <3>1 DEF Aligned
  <2>2. CASE i = Len(chunks) + 1
    <3>1. CASE chunks = <<>>
      BY <1>2, <1>4, <1>6, <2>2, <3>1
    <3>2. CASE chunks # <<>>
      <4>1. Len(chunks) > 0 /\ Len(chunks) \in DOMAIN chunks
        BY <1>5, <1>6, <3>2
      <4>2. chunks'[i - 1].to = start + CHUNK_OVERLAP
        BY <1>2, <1>6, <2>2, <3>2, <4>1 DEF LastChunk
      <4> QED
        BY <1>4, <1>5, <1>6, <2>2, <4>1, <4>2, SummaryAssumption
    <3> QED
      BY <3>1, <3>2
  <2> QED
    BY <1>6, <2>1, <2>2
<1>11. CASE end = words
  <2>1. pc' = "tail" /\ start' = start
    BY <1>1, <1>11
  <2>2. \A i \in DOMAIN chunks' : i < Len(chunks') => chunks'[i].size = CHUNK_WORDS
    BY <1>2, <1>6
  <2>3. Sized(CHUNK_WORDS)'
    <3>1. chunk.size <= CHUNK_WORDS
      BY <1>3, <1>4, <1>5, SummaryAssumption
    <3> QED
      BY <1>2, <1>6, <3>1, SummaryAssumption DEF Sized
  <2>4. chunks' # <<>>
    BY <1>6
  <2>5. SplitInv'
    BY <1>1, <1>2, <1>9, <1>10, <1>11, <2>1, <2>2, <2>3, <2>4 DEF SplitInv
  <2> QED
    BY <1>1, <1>8, <2>1, <2>5 DEF SummaryInv, MapInv
<1>12. CASE end # words
  <2>1. pc' = "splitting" /\ start' = end - CHUNK_OVERLAP
    BY <1>1, <1>12
  <2>2. \A i \in DOMAIN chunks' : chunks'[i].size = CHUNK_WORDS
    <3>1. chunk.size = CHUNK_WORDS
      BY <1>3, <1>4, <1>5, <1>12, SummaryAssumption
    <3> QED
      BY <1>2, <1>6, <3>1
  <2>3. Sized(CHUNK_WORDS)'
    BY <2>2, SummaryAssumption DEF Sized
  <2>4. start' < words /\ LastChunk'.to = start' + CHUNK_OVERLAP /\ chunks' # <<>>
    BY <1>3, <1>5, <1>6, <1>9, <1>12, <2>1, SummaryAssumption
  <2>5. SplitInv'
    BY <1>1, <1>2, <1>10, <2>1, <2>2, <2>3, <2>4 DEF SplitInv
  <2> QED
    BY <1>1, <1>8, <2>1, <2>5 DEF SummaryInv, MapInv
<1> QED
  BY <1>11, <1>12

(* Joining a short tail keeps the chunks aligned and makes one of at most  *)
(* a chunk and a half.                                                     *)
LEMMA JoinTailKeeps ==
    ASSUME TypeOK, SummaryInv, JoinTail
    PROVE  TypeOK' /\ SummaryInv'
<1>1. /\ pc = "tail" /\ pc' = "mapping"
      /\ UNCHANGED <<words, start, joined, done, folds, input>>
  BY DEF JoinTail
<1>2. /\ Aligned /\ done = 0 /\ chunks # <<>> /\ LastChunk.to = words
      /\ \A i \in DOMAIN chunks : i < Len(chunks) => chunks[i].size = CHUNK_WORDS
      /\ Sized(CHUNK_WORDS)
  BY <1>1 DEF SummaryInv, SplitInv
<1> DEFINE n == Len(chunks)
<1>3. chunks \in Seq(Chunks) /\ n \in Nat /\ n >= 1 /\ DOMAIN chunks = 1..n
  BY <1>2 DEF TypeOK
<1>4. \A i \in 1..n : chunks[i] \in Chunks
                      /\ chunks[i].from \in Nat /\ chunks[i].to \in Nat /\ chunks[i].size \in Nat
  <2>1. \A i \in 1..n : chunks[i] \in Chunks
    BY <1>3
  <2> QED
    BY <2>1 DEF Chunks
<1>5. LastChunk = chunks[n]
  BY DEF LastChunk
<1>6. CASE TailIsShort
  <2> DEFINE before == chunks[n - 1]
             both == Chunk(before.from, chunks[n].to, before.size + chunks[n].size)
  <2>1. n >= 2 /\ chunks[n].size < CHUNK_WORDS \div 2
    BY <1>5, <1>6 DEF TailIsShort
  <2>2. chunks' = Append(SubSeq(chunks, 1, n - 2), both)
    BY <1>5, <1>6 DEF JoinTail
  <2>3. n - 1 \in 1..n /\ n \in 1..n
    BY <1>3, <2>1
  <2>4. both \in Chunks /\ both.from = before.from /\ both.to = chunks[n].to
        /\ both.size = before.size + chunks[n].size
    BY <1>4, <2>3 DEF Chunk, Chunks
  <2> HIDE DEF both
  <2>5. SubSeq(chunks, 1, n - 2) \in Seq(Chunks) /\ Len(SubSeq(chunks, 1, n - 2)) = n - 2
        /\ \A i \in 1..(n - 2) : SubSeq(chunks, 1, n - 2)[i] = chunks[i]
    BY <1>3, <2>1
  <2>6. /\ chunks' \in Seq(Chunks) /\ Len(chunks') = n - 1 /\ DOMAIN chunks' = 1..(n - 1)
        /\ \A i \in 1..(n - 2) : chunks'[i] = chunks[i]
        /\ chunks'[n - 1] = both
    BY <1>3, <2>1, <2>2, <2>4, <2>5
  <2>7. TypeOK'
    BY <1>1, <2>6 DEF TypeOK, Places
  <2>8. before.size = CHUNK_WORDS
    BY <1>2, <1>3, <2>3
  <2>9. Aligned'
    <3> SUFFICES ASSUME NEW i \in 1..(n - 1)
                 PROVE  /\ i = 1 => chunks'[i].from = 1
                        /\ i > 1 => chunks'[i].from + CHUNK_OVERLAP = chunks'[i - 1].to + 1
      BY <2>6 DEF Aligned
    <3>1. chunks'[i].from = chunks[i].from
      BY <1>3, <2>4, <2>6
    <3>2. i > 1 => chunks'[i - 1] = chunks[i - 1]
      BY <1>3, <2>6
    <3>3. i \in DOMAIN chunks
      BY <1>3
    <3> QED
      BY <1>2, <3>1, <3>2, <3>3 DEF Aligned
  <2>10. LastChunk'.to = words /\ chunks' # <<>>
    BY <1>2, <1>3, <1>5, <2>1, <2>4, <2>6 DEF LastChunk
  <2>11. both.size <= CHUNK_WORDS + CHUNK_WORDS \div 2 /\ both.size >= CHUNK_WORDS \div 2
    BY <1>4, <2>1, <2>3, <2>4, <2>8, Half, SummaryAssumption
  <2>12. \A i \in 1..(n - 2) : chunks[i].size = CHUNK_WORDS
    BY <1>2, <1>3
  <2>13. /\ Sized(CHUNK_WORDS + CHUNK_WORDS \div 2)'
         /\ \A i \in DOMAIN chunks' : chunks'[i].size >= CHUNK_WORDS \div 2
    <3>1. ASSUME NEW i \in 1..(n - 1)
          PROVE  /\ chunks'[i].size <= CHUNK_WORDS + CHUNK_WORDS \div 2
                 /\ chunks'[i].size >= CHUNK_WORDS \div 2
      <4>1. CASE i = n - 1
        BY <2>6, <2>11, <4>1
      <4>2. CASE i # n - 1
        <5>1. i \in 1..(n - 2)
          <6> HIDE DEF n
          <6> QED
            BY <1>3, <2>1, <4>2
        <5>2. chunks'[i].size = CHUNK_WORDS
          BY <2>6, <2>12, <5>1
        <5> QED
          BY <5>2, Half, SummaryAssumption
      <4> QED
        BY <4>1, <4>2
    <3> QED
      BY <2>6, <3>1 DEF Sized
  <2>14. MapInv'
    BY <1>1, <1>2, <1>3, <2>1, <2>6, <2>9, <2>10, <2>13 DEF MapInv
  <2> QED
    BY <1>1, <2>7, <2>14 DEF SummaryInv, SplitInv
<1>7. CASE ~TailIsShort
  <2>1. chunks' = chunks
    BY <1>7 DEF JoinTail
  <2>2. TypeOK'
    BY <1>1, <2>1 DEF TypeOK, Places
  <2>3. n > 1 => chunks[n].size >= CHUNK_WORDS \div 2
    BY <1>3, <1>4, <1>5, <1>7, Half DEF TailIsShort
  <2>4. n > 1 => \A i \in DOMAIN chunks : chunks[i].size >= CHUNK_WORDS \div 2
    BY <1>2, <1>3, <2>3, Half, SummaryAssumption
  <2>5. Sized(CHUNK_WORDS + CHUNK_WORDS \div 2)
    BY <1>2, <1>3, <1>4, Half, SummaryAssumption DEF Sized
  <2>6. MapInv'
    BY <1>1, <1>2, <1>3, <2>1, <2>4, <2>5 DEF MapInv, Aligned, Sized, LastChunk
  <2> QED
    BY <1>1, <2>2, <2>6 DEF SummaryInv, SplitInv
<1> QED
  BY <1>6, <1>7

(* Calls of the model leave the chunks alone and are given one of them, or *)
(* partial summaries that fit a chunk.                                     *)
LEMMA CallsKeep ==
    ASSUME TypeOK, SummaryInv, Map \/ LastPass
    PROVE  TypeOK' /\ SummaryInv'
<1>1. CASE Map
  <2>1. /\ pc = "mapping" /\ input' = chunks[done + 1].size
        /\ done' = done + 1 /\ UNCHANGED <<words, start, chunks, folds>>
        /\ pc' = "mapping" => done + 1 < Len(chunks)
        /\ pc' \in {"mapping", "returned", "folding"}
    BY <1>1 DEF Map
  <2>2. PICK answer \in 0..MaxAnswer : joined' = joined + answer
    BY <1>1 DEF Map
  <2>3. MapInv
    BY DEF SummaryInv
  <2>4. done + 1 \in DOMAIN chunks /\ chunks[done + 1] \in Chunks
    BY <2>1, <2>3 DEF MapInv, TypeOK
  <2>5. input' \in Nat /\ input' <= CHUNK_WORDS + CHUNK_WORDS \div 2
    BY <2>1, <2>3, <2>4 DEF MapInv, Sized, Chunks
  <2>6. joined' \in Nat
    BY <2>2, SummaryAssumption DEF TypeOK
  <2>7. TypeOK'
    BY <2>1, <2>5, <2>6 DEF TypeOK, Places
  <2>8. MapInv'
    BY <2>1, <2>3 DEF MapInv, Aligned, Sized, LastChunk
  <2> QED
    BY <2>1, <2>5, <2>7, <2>8 DEF SummaryInv, SplitInv
<1>2. CASE LastPass
  <2>1. joined' \in Nat
    BY <1>2 DEF LastPass
  <2>2. TypeOK'
    BY <1>2, <2>1 DEF LastPass, TypeOK, Places
  <2>3. input' <= CHUNK_WORDS + CHUNK_WORDS \div 2
    BY <1>2, Half, SummaryAssumption DEF LastPass, TypeOK
  <2> QED
    BY <1>2, <2>2, <2>3 DEF LastPass, SummaryInv, SplitInv, MapInv
<1> QED
  BY <1>1, <1>2

-----------------------------------------------------------------------------
(* The invariant. *)

(* A text that has only just arrived. *)
LEMMA InitEstablishes == Init => TypeOK /\ SummaryInv
  BY Half, SummaryAssumption DEF Init, TypeOK, Places, SummaryInv, SplitInv, MapInv

(* Every step of the loops preserves the invariant. *)
LEMMA NextKeeps == TypeOK /\ SummaryInv /\ [Next]_vars => (TypeOK /\ SummaryInv)'
<1> SUFFICES ASSUME TypeOK, SummaryInv, [Next]_vars
             PROVE  TypeOK' /\ SummaryInv'
  OBVIOUS
<1>1. CASE TooShort \/ SummarizeRaises
  BY <1>1 DEF TooShort, SummarizeRaises, TypeOK, Places, SummaryInv, SplitInv, MapInv
<1>2. CASE Called
  <2>1. ChunkWords(words) /\ words \in Nat /\ folds' \in Nat /\ input' = input
    BY <1>2 DEF Called, TypeOK
  <2> QED
    BY <2>1, StartOfChunks DEF SummaryInv
<1>3. CASE Split
  BY <1>3, SplitKeeps
<1>4. CASE JoinTail
  BY <1>4, JoinTailKeeps
<1>5. CASE Map \/ LastPass
  BY <1>5, CallsKeep
<1>6. CASE Fold
  <2>1. folds' \in Nat
    BY <1>6 DEF Fold, TypeOK
  <2>2. ChunkWords(joined) /\ joined \in Nat /\ input' = input
    BY <1>6 DEF Fold, TypeOK
  <2> QED
    BY <2>1, <2>2, StartOfChunks DEF SummaryInv
<1>7. CASE Truncate
  BY <1>7, SummaryAssumption
     DEF Truncate, Smaller, TypeOK, Places, SummaryInv, SplitInv, MapInv
<1>8. CASE UNCHANGED vars
  BY <1>8 DEF vars, TypeOK, SummaryInv, SplitInv, MapInv, Aligned, Sized, LastChunk
<1> QED
  BY <1>1, <1>2, <1>3, <1>4, <1>5, <1>6, <1>7, <1>8 DEF Next

(* The invariant holds of every reachable state. *)
LEMMA Inductive == Spec => [](TypeOK /\ SummaryInv)
  BY InitEstablishes, NextKeeps, PTL DEF Spec

-----------------------------------------------------------------------------
(* The theorems. *)

(* Every variable keeps its type; in particular the loop never steps back  *)
(* before the start of the text, nor does a call read beyond the chunks.    *)
THEOREM TypeCorrect == Spec => []TypeOK
  BY Inductive, PTL

(* The chunks of _chunk_words cover the text from its first word to its     *)
(* last, in order, with exactly the overlap between neighbours.            *)
THEOREM EveryWordIsInAChunk == Spec => []NothingLeftOut
<1>1. TypeOK /\ SummaryInv => NothingLeftOut
  <2> SUFFICES ASSUME TypeOK, MapInv, pc = "mapping"
               PROVE  /\ chunks # <<>> /\ chunks[1].from = 1 /\ LastChunk.to = words
                      /\ \A i \in 1..(Len(chunks) - 1) :
                            chunks[i + 1].from + CHUNK_OVERLAP = chunks[i].to + 1
    BY DEF SummaryInv, NothingLeftOut
  <2>1. Aligned /\ chunks # <<>> /\ LastChunk.to = words
    BY DEF MapInv
  <2>2. DOMAIN chunks = 1..Len(chunks) /\ Len(chunks) \in Nat /\ Len(chunks) >= 1
    BY <2>1 DEF TypeOK
  <2>3. chunks[1].from = 1
    BY <2>1, <2>2 DEF Aligned
  <2>4. ASSUME NEW i \in 1..(Len(chunks) - 1)
        PROVE  chunks[i + 1].from + CHUNK_OVERLAP = chunks[i].to + 1
    <3>1. i + 1 \in DOMAIN chunks /\ i + 1 > 1 /\ (i + 1) - 1 = i
      BY <2>2
    <3> QED
      BY <2>1, <3>1 DEF Aligned
  <2> QED
    BY <2>1, <2>3, <2>4
<1> QED
  BY <1>1, Inductive, PTL

(* No call of the model is given more than a chunk and a half, and none on *)
(* a part of a longer text less than half a chunk.                         *)
THEOREM EveryCallFits == Spec => []CallsFit
<1>1. SummaryInv => CallsFit
  BY DEF SummaryInv, MapInv, CallsFit, Sized
<1> QED
  BY <1>1, Inductive, PTL
=============================================================================
