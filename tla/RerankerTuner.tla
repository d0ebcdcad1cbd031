----------------------------- MODULE RerankerTuner -----------------------------
(***************************************************************************)
(* The offline tuner of the reranker (RerankerTuner,                       *)
(* src/retrieval/rerank.py): it walks a grid of settings, sets each one on *)
(* the reranker it shares with its caller, scores every golden query with  *)
(* it, and puts the caller's setting back.                                 *)
(***************************************************************************)
EXTENDS Metrics, Reranker

CONSTANTS
    Baseline, \* the setting of the reranker when the tuner is called
    Cutoff    \* k of nDCG@k, 10 in the code

ASSUME BaselineType == Baseline \in [top_k : Nat, min_score : SUBSET Int]
ASSUME CutoffType == Cutoff \in 1..Len(Discount)
(* The unit is fine enough to tell one rank from the next, and a hit at    *)
(* the cutoff from none.                                                   *)
ASSUME UnitResolves ==
    /\ Cutoff * (Cutoff + 1) <= Unit
    /\ Total(Top(Discount, Cutoff)) <= Discount[Cutoff] * Unit

VARIABLES
    tool,   \* "grid_search", "threshold_sweep", or "none"
    golden, \* Seq([relevant, candidates, score])
    grid,   \* Seq(config), the settings to evaluate
    config, \* the setting of the reranker
    scores, \* nDCG of the queries scored at the current setting
    rows,   \* mean nDCG of the settings evaluated so far
    best,   \* the winning point of a grid search
    tuner   \* "idle", "running", "returned" or "raised"

tunerVars == <<tool, golden, grid, config, scores, rows, best, tuner>>

-----------------------------------------------------------------------------
TunerInit(name, queries, settings) ==
    /\ tool = name
    /\ golden = queries
    /\ grid = settings
    /\ config = Baseline
    /\ scores = <<>>
    /\ rows = <<>>
    /\ best = 0
    /\ tuner = IF name = "none" THEN "idle" ELSE "running"

(* The documents of what the reranker keeps, a document per chunk. *)
RankedDocs(query, setting) ==
    LET ranked == Rerank(query.candidates, query.score, setting)
    IN  [i \in DOMAIN ranked |-> ranked[i].doc]

Point == Len(rows) + 1

ScoreQuery ==
    /\ tuner = "running" /\ Point <= Len(grid) /\ Len(scores) < Len(golden)
    /\ config' = grid[Point]
    /\ LET query == golden[Len(scores) + 1]
       IN  scores' = Append(scores, NdcgAtK(RankedDocs(query, config'), query.relevant, Cutoff))
    /\ UNCHANGED <<tool, golden, grid, rows, best, tuner>>

ClosePoint ==
    /\ tuner = "running" /\ Point <= Len(grid) /\ Len(scores) = Len(golden)
    /\ rows' = Append(rows, Mean(scores))
    /\ scores' = <<>>
    /\ UNCHANGED <<tool, golden, grid, config, best, tuner>>

(* The first of the best rows, as max() returns it. *)
FirstBest ==
    CHOOSE i \in DOMAIN rows :
        /\ \A j \in DOMAIN rows : rows[j] <= rows[i]
        /\ \A j \in 1..(i - 1) : rows[j] < rows[i]

(* The grid is done.  An empty one has no best row: grid_search raises.    *)
TunerReturns ==
    /\ tuner = "running" /\ Point > Len(grid)
    /\ config' = Baseline
    /\ IF tool = "grid_search" /\ rows # <<>> THEN best' = FirstBest ELSE UNCHANGED best
    /\ tuner' = IF tool = "grid_search" /\ rows = <<>> THEN "raised" ELSE "returned"
    /\ UNCHANGED <<tool, golden, grid, scores, rows>>

(* Mutant: the setting is put back only when the grid is done. *)
TunerRaisesRetuned ==
    /\ tuner = "running" /\ Point <= Len(grid) /\ Len(scores) < Len(golden)
    /\ config' = grid[Point]
    /\ tuner' = "raised"
    /\ UNCHANGED <<tool, golden, grid, scores, rows, best>>

(* The candidates cannot be fetched, or the model does not load. *)
TunerRaises ==
    /\ tuner = "running" /\ Point <= Len(grid) /\ Len(scores) < Len(golden)
    /\ config' = Baseline
    /\ tuner' = "raised"
    /\ UNCHANGED <<tool, golden, grid, scores, rows, best>>

TunerNext ==
    \/ TunerRaises
    \/ ScoreQuery
    \/ ClosePoint
    \/ TunerReturns

-----------------------------------------------------------------------------
(* Once the tuner is done, however it ends, the reranker has the setting   *)
(* it had before: the pipeline that shares it is not left retuned.         *)
ConfigRestored ==
    tuner \in {"returned", "raised"} => config = Baseline

(* The metrics agree on whether a relevant document was found by rank k:   *)
(* nDCG, recall and precision are positive exactly if one was, and the     *)
(* reciprocal rank, which looks past rank k, is at least 1 / k exactly     *)
(* then.  Recall and precision never pass 1, and nDCG can only where a     *)
(* document is ranked as several chunks.                                   *)
MetricsAgree ==
    rows = <<>> /\ scores = <<>> => \A i \in DOMAIN golden, j \in DOMAIN grid :
        LET relevant == golden[i].relevant
            docs == RankedDocs(golden[i], grid[j])
            found == Found(docs, relevant, Cutoff) # {}
        IN  /\ found <=> NdcgAtK(docs, relevant, Cutoff) > 0
            /\ found <=> RecallAtK(docs, relevant, Cutoff) > 0
            /\ found <=> PrecisionAtK(docs, relevant, Cutoff) > 0
            /\ found <=> Mrr(docs, relevant) >= Unit \div Cutoff
            /\ RecallAtK(docs, relevant, Cutoff) <= Unit
            /\ PrecisionAtK(docs, relevant, Cutoff) <= Unit
            /\ Cardinality({docs[n] : n \in DOMAIN docs}) = Len(docs)
                  => NdcgAtK(docs, relevant, Cutoff) <= Unit

Ascending(F(_)) == \A i, j \in DOMAIN grid : i < j => F(grid[i]) < F(grid[j])
Low(setting) == CHOOSE low \in setting.min_score : TRUE

(* nDCG@k never falls as top_k grows and stays as it is from k on, and     *)
(* never rises as the minimum score does.  A grid of growing top_k is      *)
(* therefore always tuned to its first point at k or to one before it, and *)
(* of equals to the smallest.                                              *)
TunedTopKIsSmall ==
    /\ tuner = "returned" /\ tool = "grid_search" /\ Ascending(LAMBDA c : c.top_k) =>
          /\ \A i, j \in DOMAIN rows : i < j => rows[i] <= rows[j]
          /\ \A i \in DOMAIN rows :
                /\ grid[i].top_k >= Cutoff => rows[i] = rows[Len(rows)] /\ best <= i
                /\ rows[i] >= rows[best] => best <= i
    /\ tuner = "returned" /\ tool = "threshold_sweep" /\ Ascending(Low) =>
          \A i, j \in DOMAIN rows : i < j => rows[j] <= rows[i]

=============================================================================
