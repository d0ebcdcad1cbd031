------------------------------ MODULE Evaluation ------------------------------
(***************************************************************************)
(* The offline evaluation of the pipeline: a golden set goes through the   *)
(* judge, over the chunks the reranker keeps of each query's candidates,   *)
(* or through one of the tuner's two walks.  One job runs, in one thread.  *)
(***************************************************************************)
EXTENDS JudgeHarness, RerankerTuner

CONSTANTS
    GoldenSets,   \* Seq([relevant, candidates, score]) sets the tuner is run on
    JudgedSets,   \* those the judge is run on
    TopKGrids,    \* Seq(top_k): grids of grid_search
    MinScoreGrid, \* Seq(min_score): grid of threshold_sweep
    SweepTopK     \* top_k of threshold_sweep

IsList(s) == Len(s) \in Nat /\ DOMAIN s = 1..Len(s)

(* A golden query, with what the model makes of its candidates. *)
IsQuery(query) ==
    /\ IsFiniteSet(query.relevant) /\ Cardinality(query.relevant) <= Unit
    /\ IsFiniteSet(query.candidates)
    /\ \A c \in query.candidates : c.id \in Int /\ query.score[c] \in Int
    /\ \A c, d \in query.candidates : c.id = d.id => c = d

ASSUME GoldenSetsType ==
    \A queries \in GoldenSets \cup JudgedSets :
        IsList(queries) /\ \A i \in DOMAIN queries : IsQuery(queries[i])
ASSUME GridsType ==
    /\ \A topKs \in TopKGrids : topKs \in Seq(Nat)
    /\ MinScoreGrid \in Seq(Int)
    /\ SweepTopK \in Nat

vars == <<judgeVars, tunerVars>>

Judge ==
    \E queries \in JudgedSets :
        /\ JudgeInit([i \in DOMAIN queries |->
                         Rerank(queries[i].candidates, queries[i].score, Baseline)],
                     "answer")
        /\ TunerInit("none", <<>>, <<>>)

Tune ==
    /\ JudgeInit(<<>>, "idle")
    /\ \E queries \in GoldenSets :
          \/ \E topKs \in TopKGrids :
                TunerInit("grid_search", queries,
                          [i \in DOMAIN topKs |-> [Baseline EXCEPT !.top_k = topKs[i]]])
          \/ TunerInit("threshold_sweep", queries,
                       [i \in DOMAIN MinScoreGrid |->
                           [top_k |-> SweepTopK, min_score |-> {MinScoreGrid[i]}]])

Init == Judge \/ Tune

Next ==
    \/ JudgeNext /\ UNCHANGED tunerVars
    \/ TunerNext /\ UNCHANGED judgeVars

(* The job goes on as long as it can: every call it makes returns or       *)
(* raises.                                                                 *)
Spec == Init /\ [][Next]_vars /\ WF_vars(Next)

-----------------------------------------------------------------------------
(* A batch ends, whatever the two models answer: with a verdict for each   *)
(* query, or with the error of one call, and the verdicts before it lost.  *)
(* A walk of the tuner ends too.                                           *)
EvaluationEnds ==
    /\ phase = "answer" ~>
          \/ phase = "raised"
          \/ phase = "returned" /\ Len(verdicts) = Len(contexts)
    /\ tuner = "running" ~> tuner \in {"returned", "raised"}

=============================================================================
