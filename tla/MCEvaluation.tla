----------------------------- MODULE MCEvaluation -----------------------------
(* A small instance of Evaluation: four chunks of three documents, two     *)
(* golden queries, a cutoff of three in place of ten.                      *)
EXTENDS Evaluation

MCDiscount == <<6, 4, 2>>

Chunk(id, doc) == [id |-> id, doc |-> doc]
Chunks == {Chunk(1, "A"), Chunk(2, "A"), Chunk(3, "B"), Chunk(4, "C")}

Query(relevant, candidates, score) ==
    [relevant |-> relevant, candidates |-> candidates,
     score |-> [c \in candidates |-> score[c]]]

ById == [c \in Chunks |-> c.id % 3]
Second == Query({"B"}, Chunks, ById)
Short == Query({"A"}, Chunks \ {Chunk(1, "A"), Chunk(4, "C")}, ById)

MCGoldenSets ==
    {<<Query(relevant, candidates, score), second>> :
        relevant \in SUBSET {"A", "B", "C"},
        candidates \in {Chunks, Chunks \ {Chunk(1, "A")}},
        score \in [Chunks -> 0..2],
        second \in {Second, Short}}

MCJudgedSets == {<<Second, Short>>, <<Short, Query({"A"}, {}, ById)>>}

MCTopKGrids == {<<1, 2, 3, 4>>, <<>>}
MCMinScoreGrid == <<0, 1, 2>>
MCBaseline == [top_k |-> 3, min_score |-> {}]

MCAnswers == UNION {[1..n -> {0, 1, 2, 3, 7}] : n \in 0..3}
MCScores == [relevance : {0, 120}, faithfulness : {60, 600}]

=============================================================================
