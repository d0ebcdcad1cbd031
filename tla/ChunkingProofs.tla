---------------------------- MODULE ChunkingProofs ----------------------------
(***************************************************************************)
(* Proofs about Chunking for every document and every token budget: the    *)
(* chunks cover the document in order, share no more than the overlap, and *)
(* exceed the budget by no more than one overlap, one sentence and one     *)
(* merged tail.                                                            *)
(***************************************************************************)
EXTENDS Chunking, SequenceTheorems, TLAPS

-----------------------------------------------------------------------------
LEMMA ChunkInit == Init => ChunkInv
  BY DocumentsType DEF Init, ChunkInv, TypeOK, RunsInDocument, CurrentContinues,
     Covers, OverlapFits, ExcessBounded, IsDocument

(* Two chunks of one run make a chunk of two. *)
LEMMA ConcatTwo ==
    ASSUME NEW a \in Seq(Runs), NEW b \in Seq(Runs), Len(a) = 1, Len(b) = 1
    PROVE  /\ a \o b \in Seq(Runs) /\ Len(a \o b) = 2
           /\ (a \o b)[1] = a[1] /\ (a \o b)[2] = b[1]
  <1>1. /\ a \o b \in Seq(Runs)
        /\ Len(a \o b) = Len(a) + Len(b)
        /\ \A i \in 1..(Len(a) + Len(b)) :
              (a \o b)[i] = IF i <= Len(a) THEN a[i] ELSE b[i - Len(a)]
    BY ConcatProperties, Zenon
  <1>2. /\ 1 \in 1..(1 + 1) /\ 2 \in 1..(1 + 1) /\ 1 + 1 = 2
        /\ 1 <= 1 /\ ~(2 <= 1) /\ 2 - 1 = 1
    OBVIOUS
  <1> QED
    BY <1>1, <1>2, Zenon

(* With a chunk before the last two, the first one is such a chunk. *)
LEMMA FirstOfSeveral ==
    ASSUME NEW n \in Nat, n > 1
    PROVE  n - 1 = 1 \/ 1 \in 1..(n - 2)
  OBVIOUS

(* The types the steps below need. *)
LEMMA Ranges ==
    ASSUME ChunkInv
    PROVE  /\ Len(ends) \in Nat /\ Len(chunks) \in Nat
           /\ chunks \in Seq(Seq(Runs))
           /\ first \in 1..(Len(ends) + 1) /\ next \in first..(Len(ends) + 1)
           /\ \A k \in 1..Len(chunks) :
                 /\ chunks[k] \in Seq(Runs) /\ Len(chunks[k]) \in {1, 2}
                 /\ FirstOf(chunks[k]) \in 1..Len(ends)
                 /\ LastOf(chunks[k]) \in 1..Len(ends)
  <1>1. /\ Len(ends) \in Nat /\ Len(chunks) \in Nat
        /\ chunks \in Seq(Seq(Runs))
        /\ first \in 1..(Len(ends) + 1) /\ next \in first..(Len(ends) + 1)
    BY DEF ChunkInv, TypeOK, IsDocument
  <1>2. ASSUME NEW k \in 1..Len(chunks)
        PROVE  /\ chunks[k] \in Seq(Runs) /\ Len(chunks[k]) \in {1, 2}
               /\ FirstOf(chunks[k]) \in 1..Len(ends)
               /\ LastOf(chunks[k]) \in 1..Len(ends)
    <2>1. chunks[k] \in Seq(Runs)
      BY <1>1
    <2>2. /\ Len(chunks[k]) \in {1, 2}
          /\ \A j \in 1..Len(chunks[k]) :
                /\ chunks[k][j].from \in 1..Len(ends)
                /\ chunks[k][j].to \in chunks[k][j].from..Len(ends)
      BY DEF ChunkInv, RunsInDocument
    <2>3. 1 \in 1..Len(chunks[k]) /\ Len(chunks[k]) \in 1..Len(chunks[k])
      BY <2>2
    <2>4. ASSUME NEW j \in 1..Len(chunks[k])
          PROVE  chunks[k][j].to \in 1..Len(ends)
      <3>1. /\ chunks[k][j].from \in 1..Len(ends)
            /\ chunks[k][j].to \in chunks[k][j].from..Len(ends)
        BY <2>2
      <3> QED
        BY <1>1, <3>1
    <2> QED
      BY <2>1, <2>2, <2>3, <2>4 DEF FirstOf, LastOf
  <1> QED
    BY <1>1, <1>2

(* The current list grows by one sentence. *)
LEMMA FitsInv == ASSUME ChunkInv, PackFits PROVE ChunkInv'
  <1>1. /\ stage = "pack" /\ next <= Len(ends) /\ next' = next + 1
        /\ first = next \/ Tokens(ends, first, next) <= MaxTokens
        /\ ends' = ends /\ first' = first /\ chunks' = chunks /\ stage' = stage
    BY DEF PackFits
  <1>2. TypeOK'
    BY <1>1, Ranges DEF ChunkInv, TypeOK
  <1>3. RunsInDocument' /\ Covers' /\ OverlapFits' /\ ExcessBounded'
    BY <1>1 DEF ChunkInv, RunsInDocument, Covers, OverlapFits, ExcessBounded
  <1>4. FitsButForLast(ends, Run(first, next))
    <2>1. CASE first = next
      <3>1. Tokens(ends, next, next - 1) = 0
        BY Ranges DEF Tokens
      <3> QED
        BY <2>1, <3>1, ConfigType DEF FitsButForLast, Run
    <2>2. CASE Tokens(ends, first, next) <= MaxTokens
      BY <2>2 DEF FitsButForLast, Run
    <2> QED
      BY <1>1, <2>1, <2>2
  <1>5. next' - 1 = next /\ first' < next' /\ first' # next'
    BY <1>1, Ranges
  <1>6. CurrentContinues'
    <2>1. ASSUME chunks # <<>>
          PROVE  /\ LastOf(chunks[Len(chunks)]) \in Nat
                 /\ LastOf(chunks[Len(chunks)]) + 1 < next
      <3>1. Len(chunks) \in 1..Len(chunks)
        BY <2>1, Ranges
      <3> QED
        BY <1>1, <2>1, <3>1, Ranges DEF ChunkInv, CurrentContinues
    <2>2. ASSUME chunks # <<>>
          PROVE  LastOf(chunks[Len(chunks)]) + 1 < next'
      BY <1>1, <2>1, <2>2, Ranges
    <2> QED
      BY <1>1, <1>4, <1>5, <2>2 DEF ChunkInv, CurrentContinues
  <1> QED
    BY <1>2, <1>3, <1>6 DEF ChunkInv

-----------------------------------------------------------------------------
(* A chunk of one run behind the others, when the list is not empty.       *)
LEMMA AppendKeeps ==
    ASSUME ChunkInv, stage = "pack", first < next, UNCHANGED ends,
           chunks' = Append(chunks, <<Run(first, next - 1)>>)
    PROVE  /\ chunks' \in Seq(Seq(Runs)) /\ Len(chunks') = Len(chunks) + 1
           /\ chunks' # <<>>
           /\ \A k \in 1..Len(chunks) : chunks'[k] = chunks[k]
           /\ chunks'[Len(chunks')] = <<Run(first, next - 1)>>
           /\ (stage' # "pack" => next = Len(ends) + 1) => Covers'
           /\ OverlapFits'
           /\ ExcessBounded'
           /\ RunsInDocument'
  <1> DEFINE n == Len(chunks)
             chunk == <<Run(first, next - 1)>>
  <1>1. /\ first \in 1..Len(ends) /\ next - 1 \in first..Len(ends)
        /\ Len(ends) \in Nat /\ first \in Nat /\ next \in Nat
        /\ chunks \in Seq(Seq(Runs)) /\ n \in Nat
    BY DEF ChunkInv, TypeOK, IsDocument
  <1>2. /\ Run(first, next - 1) \in Runs /\ chunk \in Seq(Runs)
        /\ Len(chunk) = 1 /\ FirstOf(chunk) = first /\ LastOf(chunk) = next - 1
        /\ chunk[1] = Run(first, next - 1)
    BY <1>1 DEF Run, Runs, FirstOf, LastOf
  <1> HIDE DEF chunk
  <1>3. /\ chunks' \in Seq(Seq(Runs)) /\ Len(chunks') = n + 1
        /\ \A k \in 1..n : chunks'[k] = chunks[k]
        /\ chunks'[n + 1] = chunk
    BY <1>1, <1>2 DEF chunk
  <1>4. \A k \in 1..Len(chunks') : k \in 1..n \/ k = n + 1
    BY <1>1, <1>3
  <1>5. n > 0 => /\ first \in FirstOf(chunks[n])..(LastOf(chunks[n]) + 1)
                 /\ LastOf(chunks[n]) < next - 1
                 /\ Tokens(ends, first, LastOf(chunks[n])) <= OverlapTokens
                 /\ first > FirstOf(chunks[n]) =>
                       Tokens(ends, first - 1, LastOf(chunks[n])) > OverlapTokens
    <2>1. ASSUME n > 0
          PROVE  /\ FirstOf(chunks[n]) \in Nat /\ LastOf(chunks[n]) \in Nat
                 /\ chunks # <<>>
      BY <1>1, <2>1, Ranges
    <2>2. ASSUME n > 0
          PROVE  LastOf(chunks[n]) + 1 < next
      BY <2>1, <2>2 DEF ChunkInv, CurrentContinues
    <2> QED
      BY <1>1, <2>1, <2>2 DEF ChunkInv, CurrentContinues
  <1>6. \A k \in 1..n : /\ FirstOf(chunks[k]) \in Nat /\ LastOf(chunks[k]) \in Nat
                        /\ FirstOf(chunks[k])' = FirstOf(chunks[k])
                        /\ LastOf(chunks[k])' = LastOf(chunks[k])
    BY <1>3, Ranges
  <1>7. FirstOf(chunks'[n + 1]) = first /\ LastOf(chunks'[n + 1]) = next - 1
    BY <1>2, <1>3
  <1>8. Len(chunks') - 1 = n /\ ends' = ends
    BY <1>1, <1>3
  <1>9. RunsInDocument'
    BY <1>1, <1>2, <1>3, <1>4 DEF ChunkInv, RunsInDocument, Run
  <1>10. ASSUME stage' # "pack" => next = Len(ends) + 1
        PROVE  Covers'
    <2>1. ASSUME n = 0
          PROVE  first = 1
      BY <1>1, <2>1 DEF ChunkInv, CurrentContinues
    <2>2. FirstOf(chunks'[1]) = 1
      BY <1>1, <1>3, <1>6, <1>7, <2>1 DEF ChunkInv, Covers, FirstOf
    <2>3. ASSUME NEW k \in 1..n
          PROVE  /\ FirstOf(chunks'[k]) <= FirstOf(chunks'[k + 1])
                 /\ FirstOf(chunks'[k + 1]) <= LastOf(chunks'[k]) + 1
                 /\ LastOf(chunks'[k]) < LastOf(chunks'[k + 1])
      <3>1. CASE k = n
        BY <1>1, <1>3, <1>5, <1>6, <1>7, <3>1
      <3>2. CASE k < n
        <4>1. k \in 1..(n - 1) /\ k + 1 \in 1..n
          BY <1>1, <3>2
        <4> QED
          BY <1>3, <4>1 DEF ChunkInv, Covers
      <3> QED
        BY <1>1, <3>1, <3>2
    <2>4. stage' # "pack" => LastOf(chunks'[Len(chunks')]) = Len(ends')
      BY <1>1, <1>3, <1>7, <1>10, <1>8
    <2>5. Len(chunks') > 0
      BY <1>1, <1>3
    <2>6. \A k \in 1..(Len(chunks') - 1) :
            /\ FirstOf(chunks'[k]) <= FirstOf(chunks'[k + 1])
            /\ FirstOf(chunks'[k + 1]) <= LastOf(chunks'[k]) + 1
            /\ LastOf(chunks'[k]) < LastOf(chunks'[k + 1])
      BY <1>8, <2>3
    <2> QED
      BY <2>2, <2>4, <2>5, <2>6 DEF Covers
  <1>11. OverlapFits'
    <2>1. ASSUME NEW k \in 1..n
          PROVE  /\ Tokens(ends, FirstOf(chunks'[k + 1]), LastOf(chunks'[k]))
                       <= OverlapTokens
                 /\ FirstOf(chunks'[k + 1]) > FirstOf(chunks'[k]) =>
                       Tokens(ends, FirstOf(chunks'[k + 1]) - 1, LastOf(chunks'[k]))
                         > OverlapTokens
      <3>1. CASE k = n
        BY <1>1, <1>3, <1>5, <1>7, <3>1
      <3>2. CASE k < n
        <4>1. k \in 1..(n - 1) /\ k + 1 \in 1..n
          BY <1>1, <3>2
        <4> QED
          BY <1>3, <4>1 DEF ChunkInv, OverlapFits
      <3> QED
        BY <1>1, <3>1, <3>2
    <2> QED
      BY <1>8, <2>1 DEF OverlapFits
  <1>12. ExcessBounded'
    <2>1. FitsButForLast(ends, Run(first, next - 1))
      BY <1>1 DEF ChunkInv, CurrentContinues
    <2>2. ASSUME NEW k \in 1..n
          PROVE  FitsButForLast(ends, chunks[k][1]) /\ Len(chunks[k]) = 1
      BY <1>1, <2>2 DEF ChunkInv, ExcessBounded, RunsInDocument
    <2>3. ASSUME NEW k \in 1..Len(chunks')
          PROVE  FitsButForLast(ends, chunks'[k][1]) /\ Len(chunks'[k]) # 2
      <3>1. CASE k \in 1..n
        <4>1. FitsButForLast(ends, chunks[k][1]) /\ Len(chunks[k]) = 1
          BY <2>2, <3>1
        <4>2. chunks'[k] = chunks[k]
          BY <1>3, <3>1, Zenon
        <4> QED
          BY <4>1, <4>2
      <3>2. CASE k = n + 1
        BY <1>2, <1>3, <2>1, <3>2
      <3> QED
        BY <1>4, <3>1, <3>2
    <2>4. \A k \in 1..Len(chunks') :
            FitsButForLast(ends, chunks'[k][1]) /\ Len(chunks'[k]) # 2
      BY <2>3, Zenon
    <2> QED
      BY <1>8, <2>4 DEF ExcessBounded
  <1> QED
    BY <1>1, <1>3, <1>9, <1>10, <1>11, <1>12 DEF chunk

(* The list is closed, and the next one begins with the overlap.           *)
LEMMA ClosesInv == ASSUME ChunkInv, PackCloses PROVE ChunkInv'
  <1>1. PICK i \in first..next : StartsOverlap(i) /\ first' = i
    BY DEF PackCloses
  <1>2. /\ stage = "pack" /\ stage' = "pack" /\ next <= Len(ends) /\ first < next
        /\ chunks' = Append(chunks, <<Run(first, next - 1)>>)
        /\ next' = next + 1 /\ UNCHANGED ends
        /\ Len(ends) \in Nat /\ first \in Nat \ {0} /\ next \in Nat
    BY DEF PackCloses, ChunkInv, TypeOK, IsDocument
  <1>3. /\ chunks' \in Seq(Seq(Runs)) /\ chunks' # <<>>
        /\ chunks'[Len(chunks')] = <<Run(first, next - 1)>>
        /\ Covers' /\ OverlapFits' /\ ExcessBounded' /\ RunsInDocument'
    BY <1>2, AppendKeeps
  <1>4. TypeOK'
    BY <1>1, <1>2, <1>3 DEF ChunkInv, TypeOK, IsDocument
  <1>5. FirstOf(chunks'[Len(chunks')]) = first /\ LastOf(chunks'[Len(chunks')]) = next - 1
    BY <1>2, <1>3 DEF FirstOf, LastOf, Run
  <1>6. FitsButForLast(ends, Run(i, next))
    BY <1>1, <1>2 DEF StartsOverlap, FitsButForLast, Run
  <1>7. CurrentContinues'
    BY <1>1, <1>2, <1>3, <1>5, <1>6 DEF CurrentContinues, StartsOverlap,
       FitsButForLast, Run, Tokens, Before, FirstOf, LastOf
  <1> QED
    BY <1>3, <1>4, <1>7 DEF ChunkInv

LEMMA EndsInv == ASSUME ChunkInv, PackEnds PROVE ChunkInv'
  <1>1. /\ stage = "pack" /\ stage' = "merge" /\ next = Len(ends) + 1
        /\ UNCHANGED <<ends, first, next>>
        /\ Len(ends) \in Nat /\ first \in Nat \ {0} /\ next \in Nat /\ first <= next
    BY DEF PackEnds, ChunkInv, TypeOK, IsDocument
  <1>2. CurrentContinues'
    BY <1>1 DEF CurrentContinues
  <1>3. CASE first < next
    <2>1. chunks' = Append(chunks, <<Run(first, next - 1)>>)
      BY <1>3 DEF PackEnds
    <2>2. /\ chunks' \in Seq(Seq(Runs))
          /\ Covers' /\ OverlapFits' /\ ExcessBounded' /\ RunsInDocument'
      BY <1>1, <1>3, <2>1, AppendKeeps
    <2>3. TypeOK'
      BY <1>1, <2>2 DEF ChunkInv, TypeOK, IsDocument
    <2> QED
      BY <1>2, <2>2, <2>3 DEF ChunkInv
  <1>4. CASE first = next
    <2>1. chunks' = chunks /\ ends = <<>>
      BY <1>1, <1>4 DEF PackEnds, ChunkInv, CurrentContinues, TypeOK, IsDocument
    <2>2. chunks = <<>>
      <3>1. Len(ends) = 0
        BY <2>1
      <3>2. ASSUME 1 \in 1..Len(chunks)
            PROVE  FALSE
        <4>1. FirstOf(chunks[1]) \in 1..Len(ends)
          BY <3>2, Ranges
        <4> QED
          BY <3>1, <4>1
      <3> QED
        BY <3>2, Ranges
    <2> QED
      BY <1>1, <1>2, <2>1, <2>2 DEF ChunkInv, TypeOK, IsDocument, RunsInDocument,
         Covers, OverlapFits, ExcessBounded
  <1> QED
    BY <1>1, <1>3, <1>4

-----------------------------------------------------------------------------
(* The tail is merged into the chunk before it, or nothing changes.        *)
LEMMA MergeInv == ASSUME ChunkInv, MergeTail PROVE ChunkInv'
  <1> DEFINE n == Len(chunks)
  <1>1. /\ stage = "merge" /\ stage' = "done" /\ UNCHANGED <<ends, first, next>>
        /\ n \in Nat /\ chunks \in Seq(Seq(Runs)) /\ Len(ends) \in Nat
    BY DEF MergeTail, ChunkInv, TypeOK, IsDocument
  <1>2. CurrentContinues'
    BY <1>1 DEF CurrentContinues
  <1>3. CASE ~TailIsSmall
    <2>1. chunks' = chunks
      BY <1>3 DEF MergeTail
    <2>2. TypeOK' /\ RunsInDocument'
      BY <1>1, <2>1 DEF ChunkInv, TypeOK, IsDocument, RunsInDocument
    <2>3. Covers' /\ OverlapFits'
      BY <1>1, <2>1 DEF ChunkInv, Covers, OverlapFits, Tokens, Before, FirstOf,
                        LastOf
    <2>4. ExcessBounded'
      BY <1>1, <2>1 DEF ChunkInv, RunsInDocument, ExcessBounded, FitsButForLast,
                        Tokens, Before
    <2> QED
      BY <1>2, <2>2, <2>3, <2>4 DEF ChunkInv
  <1>4. CASE TailIsSmall
    <2>1. /\ n > 1
          /\ chunks' = [i \in 1..(n - 1) |->
                          IF i = n - 1 THEN chunks[i] \o chunks[n] ELSE chunks[i]]
      BY <1>1, <1>4 DEF MergeTail, TailIsSmall
    <2>0. n \in Nat /\ n > 1
      BY <1>1, <2>1
    <2>2. ASSUME NEW k \in 1..n
          PROVE  /\ chunks[k] \in Seq(Runs) /\ Len(chunks[k]) = 1
                 /\ chunks[k][1].from \in 1..Len(ends)
                 /\ chunks[k][1].to \in chunks[k][1].from..Len(ends)
                 /\ FirstOf(chunks[k]) = chunks[k][1].from
                 /\ LastOf(chunks[k]) = chunks[k][1].to
      <3>1. chunks[k] \in Seq(Runs) /\ Len(chunks[k]) = 1
        BY <1>1, Ranges DEF ChunkInv, RunsInDocument
      <3>2. /\ chunks[k][1].from \in 1..Len(ends)
            /\ chunks[k][1].to \in chunks[k][1].from..Len(ends)
        BY <3>1 DEF ChunkInv, RunsInDocument
      <3> QED
        BY <3>1, <3>2 DEF FirstOf, LastOf
    <2> DEFINE merged == chunks[n - 1] \o chunks[n]
    <2>3. /\ n - 1 \in 1..n /\ n \in 1..n
          /\ merged \in Seq(Runs) /\ Len(merged) = 2
          /\ merged[1] = chunks[n - 1][1] /\ merged[2] = chunks[n][1]
      <3>1. n - 1 \in 1..n /\ n \in 1..n
        BY <1>1, <2>1
      <3>2. /\ chunks[n - 1] \in Seq(Runs) /\ Len(chunks[n - 1]) = 1
            /\ chunks[n] \in Seq(Runs) /\ Len(chunks[n]) = 1
        BY <2>2, <3>1
      <3> QED
        BY <3>1, <3>2, ConcatTwo
    <2> HIDE DEF merged
    <2>4. /\ chunks' \in Seq(Seq(Runs)) /\ Len(chunks') = n - 1
          /\ chunks'[n - 1] = merged
          /\ \A k \in 1..(n - 2) : chunks'[k] = chunks[k]
      <3>1. /\ \A k \in 1..(n - 1) : k \in 1..n /\ (k # n - 1 => k \in 1..(n - 2))
            /\ n - 1 \in 1..(n - 1) /\ n - 1 \in Nat
            /\ \A k \in 1..(n - 2) : k \in 1..(n - 1) /\ k # n - 1
        BY <1>1, <2>1
      <3>2. /\ \A k \in 1..(n - 2) : chunks'[k] = chunks[k]
            /\ chunks'[n - 1] = merged /\ DOMAIN chunks' = 1..(n - 1)
        BY <2>1, <3>1 DEF merged
      <3>3. \A k \in 1..(n - 1) : chunks'[k] \in Seq(Runs)
        BY <2>2, <2>3, <3>1, <3>2
      <3>4. chunks' = [k \in 1..(n - 1) |-> chunks'[k]]
        BY <2>1, <3>2
      <3> QED
        BY <3>1, <3>2, <3>3, <3>4
    <2>5. \A k \in 1..Len(chunks') : k \in 1..(n - 2) \/ k = n - 1
      BY <1>1, <2>1, <2>4
    <2>6. /\ FirstOf(chunks'[n - 1]) = FirstOf(chunks[n - 1])
          /\ LastOf(chunks'[n - 1]) = LastOf(chunks[n])
      BY <1>1, <2>2, <2>3, <2>4 DEF FirstOf, LastOf
    <2>7. TypeOK'
      BY <1>1, <2>4 DEF ChunkInv, TypeOK, IsDocument
    <2>8. RunsInDocument'
      <3>1. ASSUME NEW k \in 1..Len(chunks')
            PROVE  /\ Len(chunks'[k]) \in {1, 2}
                   /\ \A j \in 1..Len(chunks'[k]) :
                         /\ chunks'[k][j].from \in 1..Len(ends)
                         /\ chunks'[k][j].to \in chunks'[k][j].from..Len(ends)
        <4>1. CASE k \in 1..(n - 2)
          <5>1. k \in 1..n /\ chunks'[k] = chunks[k]
            BY <1>1, <2>4, <4>1
          <5> QED
            BY <2>2, <5>1
        <4>2. CASE k = n - 1
          <5>1. chunks'[k] = merged /\ Len(merged) = 2
            BY <2>3, <2>4, <4>2
          <5>2. ASSUME NEW j \in 1..2
                PROVE  merged[j] = chunks[n - 1][1] \/ merged[j] = chunks[n][1]
            BY <2>3
          <5> QED
            BY <2>2, <2>3, <5>1, <5>2
        <4> QED
          BY <2>5, <4>1, <4>2
      <3> QED
        BY <1>1, <3>1 DEF RunsInDocument
    <2>9. ASSUME NEW k \in 1..(n - 2)
          PROVE  /\ k \in 1..(n - 1) /\ k + 1 \in 1..(n - 1) /\ k \in 1..n
                 /\ FirstOf(chunks'[k]) = FirstOf(chunks[k])
                 /\ LastOf(chunks'[k]) = LastOf(chunks[k])
                 /\ FirstOf(chunks'[k + 1]) = FirstOf(chunks[k + 1])
                 /\ LastOf(chunks[k + 1]) <= LastOf(chunks'[k + 1])
                 /\ {LastOf(chunks[k]), LastOf(chunks[k + 1])} \subseteq Nat
      <3>1. k \in 1..(n - 1) /\ k + 1 \in 1..(n - 1) /\ k \in 1..n /\ k + 1 \in 1..n
        BY <1>1
      <3>2. \A j \in 1..n : LastOf(chunks[j]) \in Nat
        BY Ranges
      <3>3. LastOf(chunks[n - 1]) < LastOf(chunks[n])
        BY <1>1, <2>1 DEF ChunkInv, Covers
      <3>4. k + 1 \in 1..(n - 2) \/ k + 1 = n - 1
        BY <1>1, <3>1
      <3>5. CASE k + 1 \in 1..(n - 2)
        BY <2>4, <3>1, <3>2, <3>5
      <3>6. CASE k + 1 = n - 1
        <4>1. chunks'[k + 1] = chunks'[n - 1] /\ chunks[k + 1] = chunks[n - 1]
          BY <3>6
        <4>2. chunks'[k] = chunks[k]
          BY <2>4
        <4>3. n - 1 \in 1..n /\ n \in 1..n
          BY <2>3
        <4> QED
          BY <2>6, <3>1, <3>2, <3>3, <4>1, <4>2, <4>3
      <3> QED
        BY <3>4, <3>5, <3>6
    <2>10. Covers'
      <3>1. FirstOf(chunks'[1]) = 1 /\ LastOf(chunks'[n - 1]) = Len(ends)
        <4>1. FirstOf(chunks[1]) = 1 /\ (ends # <<>> => LastOf(chunks[n]) = Len(ends))
          BY <1>1, <2>1 DEF ChunkInv, Covers
        <4>2. ends # <<>>
          <5>1. chunks[n][1].from \in 1..Len(ends)
            BY <2>2, <2>3
          <5> QED
            BY <5>1
        <4>3. n - 1 = 1 \/ 1 \in 1..(n - 2)
          BY <2>0, FirstOfSeveral
        <4> QED
          BY <2>4, <2>6, <4>1, <4>2, <4>3
      <3>2. ASSUME NEW k \in 1..(n - 2)
            PROVE  /\ FirstOf(chunks'[k]) <= FirstOf(chunks'[k + 1])
                   /\ FirstOf(chunks'[k + 1]) <= LastOf(chunks'[k]) + 1
                   /\ LastOf(chunks'[k]) < LastOf(chunks'[k + 1])
        <4>1. /\ FirstOf(chunks[k]) <= FirstOf(chunks[k + 1])
              /\ FirstOf(chunks[k + 1]) <= LastOf(chunks[k]) + 1
              /\ LastOf(chunks[k]) < LastOf(chunks[k + 1])
          BY <2>9 DEF ChunkInv, Covers
        <4>2. LastOf(chunks'[k + 1]) \in Nat
          <5>1. k + 1 \in 1..(n - 2) \/ k + 1 = n - 1
            BY <2>9
          <5>2. CASE k + 1 \in 1..(n - 2)
            <6>1. chunks'[k + 1] = chunks[k + 1]
              BY <2>4, <5>2
            <6> QED
              BY <2>9, <6>1
          <5>3. CASE k + 1 = n - 1
            <6>1. LastOf(chunks'[k + 1]) = LastOf(chunks[n])
              BY <2>6, <5>3
            <6>2. LastOf(chunks[n]) \in Nat
              <7>1. LastOf(chunks[n]) = chunks[n][1].to
                BY <2>2, <2>3, Zenon
              <7>2. /\ chunks[n][1].from \in 1..Len(ends)
                    /\ chunks[n][1].to \in chunks[n][1].from..Len(ends)
                BY <2>2, <2>3, Zenon
              <7> QED
                BY <7>1, <7>2
            <6> QED
              BY <6>1, <6>2
          <5> QED
            BY <5>1, <5>2, <5>3
        <4> QED
          BY <2>9, <4>1, <4>2
      <3>3. \A k \in 1..(Len(chunks') - 1) : k \in 1..(n - 2)
        BY <1>1, <2>4
      <3>4. Len(chunks') > 0 /\ ends' = ends /\ chunks'[Len(chunks')] = merged
        BY <1>1, <2>0, <2>4
      <3>5. \A k \in 1..(Len(chunks') - 1) :
              /\ FirstOf(chunks'[k]) <= FirstOf(chunks'[k + 1])
              /\ FirstOf(chunks'[k + 1]) <= LastOf(chunks'[k]) + 1
              /\ LastOf(chunks'[k]) < LastOf(chunks'[k + 1])
        BY <3>2, <3>3
      <3>6. LastOf(chunks'[Len(chunks')]) = Len(ends')
        BY <2>4, <3>1, <3>4
      <3> QED
        BY <3>1, <3>4, <3>5, <3>6 DEF Covers
    <2>11. OverlapFits'
      <3>1. ASSUME NEW k \in 1..(n - 2)
            PROVE  /\ Tokens(ends, FirstOf(chunks'[k + 1]), LastOf(chunks'[k]))
                         <= OverlapTokens
                   /\ FirstOf(chunks'[k + 1]) > FirstOf(chunks'[k]) =>
                         Tokens(ends, FirstOf(chunks'[k + 1]) - 1, LastOf(chunks'[k]))
                           > OverlapTokens
        BY <2>9 DEF ChunkInv, OverlapFits
      <3>2. \A k \in 1..(Len(chunks') - 1) : k \in 1..(n - 2)
        BY <1>1, <2>4
      <3>3. ends' = ends
        BY <1>1
      <3> QED
        BY <3>1, <3>2, <3>3 DEF OverlapFits
    <2>12. ExcessBounded'
      <3>1. Tokens(ends, chunks[n][1].from, chunks[n][1].to) < MinChunkTokens
        <4>1. TokenCount(ends, chunks[n]) < MinChunkTokens
          BY <1>4 DEF TailIsSmall
        <4>2. TokenCount(ends, chunks[n]) = Tokens(ends, chunks[n][1].from, chunks[n][1].to) + 0
          BY <2>2, <2>3 DEF TokenCount
        <4>3. Tokens(ends, chunks[n][1].from, chunks[n][1].to) \in Int
          <5>1. /\ chunks[n][1].from \in 1..Len(ends)
                /\ chunks[n][1].to \in 1..Len(ends)
            BY <1>1, <2>2, <2>3
          <5>2. \A i \in 1..Len(ends) : ends[i] \in Int
            BY DEF ChunkInv, TypeOK, IsDocument
          <5>3. \A i \in 1..Len(ends) : i # 1 => i - 1 \in 1..Len(ends)
            BY <1>1
          <5> QED
            BY <5>1, <5>2, <5>3 DEF Tokens, Before
        <4> QED
          BY <4>1, <4>2, <4>3
      <3>2. \A k \in 1..n : FitsButForLast(ends, chunks[k][1])
        BY DEF ChunkInv, ExcessBounded
      <3>3. ASSUME NEW k \in 1..Len(chunks')
            PROVE  /\ FitsButForLast(ends, chunks'[k][1])
                   /\ Len(chunks'[k]) = 2 =>
                         /\ k = Len(chunks')
                         /\ Tokens(ends, chunks'[k][2].from, chunks'[k][2].to)
                              < MinChunkTokens
        <4>1. CASE k \in 1..(n - 2)
          <5>1. k \in 1..n /\ chunks'[k] = chunks[k]
            BY <2>4, <2>9, <4>1, Zenon
          <5>2. Len(chunks[k]) = 1
            BY <2>2, <5>1, Zenon
          <5> QED
            BY <3>2, <5>1, <5>2
        <4>2. CASE k = n - 1
          BY <1>1, <2>3, <2>4, <3>1, <3>2, <4>2
        <4> QED
          BY <2>5, <4>1, <4>2
      <3> QED
        BY <1>1, <3>3 DEF ExcessBounded
    <2> QED
      BY <1>2, <2>7, <2>8, <2>10, <2>11, <2>12 DEF ChunkInv
  <1> QED
    BY <1>3, <1>4

-----------------------------------------------------------------------------
LEMMA ChunkNext == ChunkInv /\ [Next]_vars => ChunkInv'
  <1> SUFFICES ASSUME ChunkInv, [Next]_vars
               PROVE  ChunkInv'
    OBVIOUS
  <1>1. CASE UNCHANGED vars
    BY <1>1 DEF vars, ChunkInv, TypeOK, RunsInDocument, CurrentContinues, Covers,
       OverlapFits, ExcessBounded, FitsButForLast, Tokens, Before, FirstOf, LastOf
  <1> QED
    BY <1>1, FitsInv, ClosesInv, EndsInv, MergeInv DEF Next

(* The inductive invariant of the packing loop. *)
THEOREM ChunkInvariance == Spec => []ChunkInv
  BY ChunkInit, ChunkNext, PTL DEF Spec

(* Every variable keeps its type, and the loop its bounds. *)
THEOREM ChunkTypes == Spec => []TypeOK
  <1>1. ChunkInv => TypeOK
    BY DEF ChunkInv
  <1> QED
    BY <1>1, ChunkInvariance, PTL

(* The chunks cover the document in order, and lose no sentence. *)
THEOREM ChunksCover == Spec => []Covers
  <1>1. ChunkInv => Covers
    BY DEF ChunkInv
  <1> QED
    BY <1>1, ChunkInvariance, PTL

(* Consecutive chunks share at most the overlap, and as much of it as fits. *)
THEOREM ChunksOverlap == Spec => []OverlapFits
  <1>1. ChunkInv => OverlapFits
    BY DEF ChunkInv
  <1> QED
    BY <1>1, ChunkInvariance, PTL

(* A chunk exceeds the budget by less than an overlap, a sentence and a    *)
(* merged tail.                                                            *)
THEOREM ChunksBounded == Spec => []ExcessBounded
  <1>1. ChunkInv => ExcessBounded
    BY DEF ChunkInv
  <1> QED
    BY <1>1, ChunkInvariance, PTL

=============================================================================
