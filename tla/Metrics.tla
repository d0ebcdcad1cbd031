-------------------------------- MODULE Metrics --------------------------------
(***************************************************************************)
(* The retrieval metrics of the evaluation (src/eval/metrics.py), without  *)
(* state.  Scores are exact integers, in units of 1 / Unit.                *)
(***************************************************************************)
EXTENDS Integers, SequencesExt

CONSTANTS
    Discount, \* Discount[rank]: gain of a hit at that rank, in place of 1 / log2(rank + 1)
    Unit      \* the score 1.0

ASSUME DiscountDecreases ==
    /\ Discount \in Seq(Nat \ {0})
    /\ \A i, j \in DOMAIN Discount : i < j => Discount[j] < Discount[i]
ASSUME UnitPositive == Unit \in Nat \ {0}

-----------------------------------------------------------------------------
Top(ranked, k) == SubSeq(ranked, 1, IF k < Len(ranked) THEN k ELSE Len(ranked))

Total(values) ==
    LET sum[n \in 0..Len(values)] == IF n = 0 THEN 0 ELSE sum[n - 1] + values[n]
    IN  sum[Len(values)]

(* Each rank that holds a relevant id gains, whether or not the id was     *)
(* seen at an earlier rank.                                                *)
Gains(ranked, relevant) ==
    [rank \in DOMAIN ranked |-> IF ranked[rank] \in relevant THEN Discount[rank] ELSE 0]

NdcgAtK(ranked, relevant, k) ==
    LET ideal == Total(Top(Discount, IF Cardinality(relevant) < k
                                     THEN Cardinality(relevant) ELSE k))
    IN  IF ideal = 0 THEN 0 ELSE (Total(Gains(Top(ranked, k), relevant)) * Unit) \div ideal

Found(ranked, relevant, k) == ToSet(Top(ranked, k)) \cap relevant

(* Mutant: a document counts once per chunk. *)
RecallOfChunks(ranked, relevant, k) ==
    IF relevant = {} THEN 0
    ELSE (Len(SelectSeq(Top(ranked, k), LAMBDA id : id \in relevant)) * Unit)
             \div Cardinality(relevant)

RecallAtK(ranked, relevant, k) ==
    IF relevant = {} THEN 0
    ELSE (Cardinality(Found(ranked, relevant, k)) * Unit) \div Cardinality(relevant)

PrecisionAtK(ranked, relevant, k) ==
    IF k <= 0 THEN 0 ELSE (Cardinality(Found(ranked, relevant, k)) * Unit) \div k

Mrr(ranked, relevant) ==
    LET hits == {rank \in DOMAIN ranked : ranked[rank] \in relevant}
    IN  IF hits = {} THEN 0 ELSE Unit \div Min(hits)

CitationFaithfulness(citations, retrieved) ==
    IF citations = <<>> THEN Unit
    ELSE (Cardinality({i \in DOMAIN citations : citations[i] \in retrieved}) * Unit)
             \div Len(citations)

Mean(values) ==
    IF values = <<>> THEN 0 ELSE Total(values) \div Len(values)

=============================================================================
