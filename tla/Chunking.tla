------------------------------- MODULE Chunking -------------------------------
(***************************************************************************)
(* SemanticClauseChunker.split (src/ingest/chunking.py): the loop of _pack *)
(* that packs the sentences of a document into chunks, and _merge_tail.    *)
(*                                                                         *)
(* A document is the sequence of its sentences, and a sentence is how many *)
(* tokens the document has up to its end: ends[i] - ends[i - 1] are the    *)
(* tokens of sentence i.  _pack only appends the next sentence and cuts    *)
(* all but a suffix, so the list of sentences of a chunk is a run          *)
(* [from, to]; a chunk is one run, or two once the tail is merged into it. *)
(***************************************************************************)
EXTENDS Integers, Sequences

CONSTANTS
    Documents,      \* sequences of sentences, as the tokens up to their ends
    MaxTokens,      \* max_tokens of ChunkConfig
    OverlapTokens,  \* overlap_tokens
    MinChunkTokens  \* min_chunk_tokens

(* A sentence has at least one token. *)
IsDocument(d) ==
    /\ d \in Seq(Nat \ {0})
    /\ \A i, j \in 1..Len(d) : i < j => d[i] < d[j]

ASSUME DocumentsType == \A d \in Documents : IsDocument(d)
ASSUME ConfigType == {MaxTokens, OverlapTokens, MinChunkTokens} \subseteq Nat

VARIABLES
    ends,    \* the document
    first,   \* the first sentence of the list "current"
    next,    \* the sentence the loop takes next; current is first .. next - 1
    chunks,  \* Seq of chunks, each a sequence of runs
    stage    \* "pack", "merge" or "done"

vars == <<ends, first, next, chunks, stage>>

Run(from, to) == [from |-> from, to |-> to]
Runs == [from : Nat \ {0}, to : Nat]

(* Tokens of document d before sentence i, and in from .. to. *)
Before(d, i) == IF i = 1 THEN 0 ELSE d[i - 1]
Tokens(d, from, to) == IF to < from THEN 0 ELSE d[to] - Before(d, from)
TokenCount(d, chunk) ==
    Tokens(d, chunk[1].from, chunk[1].to)
      + (IF Len(chunk) = 2 THEN Tokens(d, chunk[2].from, chunk[2].to) ELSE 0)

-----------------------------------------------------------------------------
Init ==
    /\ ends \in Documents
    /\ first = 1
    /\ next = 1
    /\ chunks = <<>>
    /\ stage = "pack"

(* Mutant: the tail may be one sentence too long for the overlap. *)
StartsOverlapLong(i) ==
    /\ i \in first..next
    /\ i < next => Tokens(ends, i + 1, next - 1) <= OverlapTokens
    /\ i > first => Tokens(ends, i, next - 1) > OverlapTokens

(* The overlap tail begins at i: the longest suffix of the current list    *)
(* that fits the overlap, i = next when even the last sentence does not.   *)
StartsOverlap(i) ==
    /\ i \in first..next
    /\ Tokens(ends, i, next - 1) <= OverlapTokens
    /\ i > first => Tokens(ends, i - 1, next - 1) > OverlapTokens

(* The next sentence fits, or the list is empty. *)
PackFits ==
    /\ stage = "pack"
    /\ next <= Len(ends)
    /\ first = next \/ Tokens(ends, first, next) <= MaxTokens
    /\ next' = next + 1
    /\ UNCHANGED <<ends, first, chunks, stage>>

(* Mutant: the sentence that did not fit is not put into the next chunk.   *)
PackClosesAndDrops ==
    /\ stage = "pack"
    /\ next <= Len(ends)
    /\ first < next /\ Tokens(ends, first, next) > MaxTokens
    /\ chunks' = Append(chunks, <<Run(first, next - 1)>>)
    /\ first' = next + 1
    /\ next' = next + 1
    /\ UNCHANGED <<ends, stage>>

(* It does not: close the chunk, carry the overlap, take the sentence.     *)
PackCloses ==
    /\ stage = "pack"
    /\ next <= Len(ends)
    /\ first < next /\ Tokens(ends, first, next) > MaxTokens
    /\ chunks' = Append(chunks, <<Run(first, next - 1)>>)
    /\ \E i \in first..next : StartsOverlap(i) /\ first' = i
    /\ next' = next + 1
    /\ UNCHANGED <<ends, stage>>

(* No sentence is left: what is current becomes the last chunk. *)
PackEnds ==
    /\ stage = "pack"
    /\ next > Len(ends)
    /\ chunks' = IF first < next THEN Append(chunks, <<Run(first, next - 1)>>)
                 ELSE chunks
    /\ stage' = "merge"
    /\ UNCHANGED <<ends, first, next>>

(* Mutant: a tail of the minimum size is merged, too. *)
TailIsSmallOrEqual ==
    Len(chunks) > 1 /\ TokenCount(ends, chunks[Len(chunks)]) <= MinChunkTokens

TailIsSmall ==
    Len(chunks) > 1 /\ TokenCount(ends, chunks[Len(chunks)]) < MinChunkTokens

(* A small last chunk is appended, with its overlap, to the one before.    *)
MergeTail ==
    LET n == Len(chunks) IN
    /\ stage = "merge"
    /\ stage' = "done"
    /\ chunks' = IF TailIsSmall
                 THEN [i \in 1..(n - 1) |->
                          IF i = n - 1 THEN chunks[i] \o chunks[n] ELSE chunks[i]]
                 ELSE chunks
    /\ UNCHANGED <<ends, first, next>>

Next == PackFits \/ PackCloses \/ PackEnds \/ MergeTail

Spec == Init /\ [][Next]_vars

-----------------------------------------------------------------------------
FirstOf(chunk) == chunk[1].from
LastOf(chunk) == chunk[Len(chunk)].to

TypeOK ==
    /\ IsDocument(ends)
    /\ first \in 1..(Len(ends) + 1)
    /\ next \in first..(Len(ends) + 1)
    /\ chunks \in Seq(Seq(Runs))
    /\ stage \in {"pack", "merge", "done"}

(* Chunks cover the document in order: the first begins with the first     *)
(* sentence, the last ends with the last one, and each begins no earlier   *)
(* than its predecessor, no later than right behind it, and ends behind    *)
(* it: no sentence is lost, and no chunk adds nothing.                     *)
Covers ==
    LET n == Len(chunks) IN
    /\ n > 0 => FirstOf(chunks[1]) = 1
    /\ \A k \in 1..(n - 1) :
          /\ FirstOf(chunks[k]) <= FirstOf(chunks[k + 1])
          /\ FirstOf(chunks[k + 1]) <= LastOf(chunks[k]) + 1
          /\ LastOf(chunks[k]) < LastOf(chunks[k + 1])
    /\ stage # "pack" /\ ends # <<>> => n > 0 /\ LastOf(chunks[n]) = Len(ends)

(* Consecutive chunks share at most overlap_tokens, and as many sentences  *)
(* as that allows: one more would not fit.                                 *)
OverlapFits ==
    \A k \in 1..(Len(chunks) - 1) :
        LET from == FirstOf(chunks[k + 1])
            to == LastOf(chunks[k])
        IN  /\ Tokens(ends, from, to) <= OverlapTokens
            /\ from > FirstOf(chunks[k]) =>
                  Tokens(ends, from - 1, to) > OverlapTokens

(* A run over the budget is one that the overlap and a last sentence fill: *)
(* without the last sentence it fits the overlap.                          *)
FitsButForLast(d, run) ==
    \/ Tokens(d, run.from, run.to) <= MaxTokens
    \/ Tokens(d, run.from, run.to - 1) <= OverlapTokens

(* However the sentences fall, a chunk exceeds max_tokens by less than one *)
(* overlap, one sentence and one merged tail.                              *)
ExcessBounded ==
    \A k \in 1..Len(chunks) :
        /\ FitsButForLast(ends, chunks[k][1])
        /\ Len(chunks[k]) = 2 =>
              /\ k = Len(chunks) /\ stage = "done"
              /\ Tokens(ends, chunks[k][2].from, chunks[k][2].to) < MinChunkTokens

-----------------------------------------------------------------------------
(* The strengthening ChunkingProofs proves inductive. *)

(* Runs lie in the document; only the last chunk, and only at the end, has *)
(* a second one.                                                           *)
RunsInDocument ==
    /\ \A k \in 1..Len(chunks) :
          /\ Len(chunks[k]) \in {1, 2}
          /\ \A j \in 1..Len(chunks[k]) :
                /\ chunks[k][j].from \in 1..Len(ends)
                /\ chunks[k][j].to \in chunks[k][j].from..Len(ends)
          /\ stage # "done" => Len(chunks[k]) = 1

(* The list being packed continues the last chunk: it begins with the      *)
(* overlap, and has a sentence more.                                       *)
CurrentContinues ==
    stage = "pack" =>
        LET last == chunks[Len(chunks)] IN
        /\ chunks = <<>> => first = 1
        /\ chunks # <<>> =>
              /\ first \in FirstOf(last)..(LastOf(last) + 1)
              /\ LastOf(last) + 1 < next
              /\ Tokens(ends, first, LastOf(last)) <= OverlapTokens
              /\ first > FirstOf(last) =>
                    Tokens(ends, first - 1, LastOf(last)) > OverlapTokens
        /\ first < next => FitsButForLast(ends, Run(first, next - 1))
        /\ first = next => next = 1

ChunkInv ==
    /\ TypeOK
    /\ RunsInDocument
    /\ CurrentContinues
    /\ Covers
    /\ OverlapFits
    /\ ExcessBounded

=============================================================================
