---------------------------- MODULE EvaluationProofs ----------------------------
(***************************************************************************)
(* Proofs about the evaluation, for golden sets, grids and settings of any *)
(* size and any answer of the models: the reranker gets its setting back;  *)
(* a job that returns has done all of its work; the metrics agree on what  *)
(* was found; a grid is tuned to the smallest setting that ranks best; and *)
(* citations are grounded in what was retrieved.                           *)
(*                                                                         *)
(* The sums, the ranks and the citations are computed along lists, so the  *)
(* lemmas about them go by induction over positions (ListProofs).          *)
(***************************************************************************)
EXTENDS Evaluation, ListProofs

USE DEF judgeVars, tunerVars, vars

-----------------------------------------------------------------------------
(* The setting of the reranker *)

(* However the tuner ends, the reranker it shares with its caller has the  *)
(* setting it had before (the finally clauses of RerankerTuner).           *)
THEOREM TunerRestores == Spec => []ConfigRestored
  <1>1. Init => ConfigRestored
    BY DEF Init, Judge, Tune, TunerInit, ConfigRestored
  <1>2. ConfigRestored /\ [Next]_vars => ConfigRestored'
    <2> SUFFICES ASSUME ConfigRestored, [Next]_vars PROVE ConfigRestored'
      OBVIOUS
    <2>1. CASE ScoreQuery \/ ClosePoint
      BY <2>1 DEF ScoreQuery, ClosePoint, ConfigRestored
    <2>2. CASE TunerReturns
      BY <2>2 DEF TunerReturns, ConfigRestored
    <2>3. CASE TunerRaises
      BY <2>3 DEF TunerRaises, ConfigRestored
    <2>4. CASE UNCHANGED tunerVars
      BY <2>4 DEF ConfigRestored
    <2> QED
      BY <2>1, <2>2, <2>3, <2>4 DEF Next, TunerNext
  <1> QED
    BY <1>1, <1>2, PTL DEF Spec

-----------------------------------------------------------------------------
(* Complete jobs *)

LEMMA AppendExtends ==
    ASSUME NEW S, NEW s \in Seq(S), NEW v
    PROVE  /\ Append(s, v) \in Seq(S \cup {v})
           /\ Len(Append(s, v)) = Len(s) + 1
           /\ Len(s) \in Nat
  <1>1. s \in Seq(S \cup {v})
    OBVIOUS
  <1> QED
    BY <1>1

(* A list made from another, value by value, is as long. *)
LEMMA LengthOfMap ==
    ASSUME NEW n \in Nat, NEW f, f = [i \in 1..n |-> f[i]]
    PROVE  Len(f) = n
  <1> DEFINE S == {f[i] : i \in 1..n}
  <1>1. f \in [1..n -> S]
    OBVIOUS
  <1>2. f \in Seq(S)
    BY <1>1
  <1> QED
    BY <1>1, <1>2

(* While a batch goes on it has judged no more queries than it has, and a  *)
(* query that is being judged is one more.                                 *)
BatchInv ==
    /\ \E S : verdicts \in Seq(S)
    /\ Len(contexts) \in Nat
    /\ phase \in {"idle", "answer", "answer_again", "judge", "repair", "raised", "returned"}
    /\ phase \in {"answer", "answer_again"} => Len(verdicts) <= Len(contexts)
    /\ phase \in {"judge", "repair"} => Len(verdicts) < Len(contexts)
    /\ phase = "returned" => Len(verdicts) = Len(contexts)

WalkInv ==
    /\ \E S : rows \in Seq(S)
    /\ Len(grid) \in Nat
    /\ tuner \in {"idle", "running", "raised", "returned"}
    /\ tuner = "running" => Len(rows) <= Len(grid)
    /\ tuner = "returned" => Len(rows) = Len(grid)

(* A verdict more is recorded for the query it is about. *)
LEMMA ConcludeKeepsBatch ==
    ASSUME NEW verdict, BatchInv, phase \in {"judge", "repair"}, Conclude(verdict)
    PROVE  BatchInv'
  <1>1. PICK S : verdicts \in Seq(S)
    BY DEF BatchInv
  <1>2. /\ verdicts' \in Seq(S \cup {verdict})
        /\ Len(verdicts') = Len(verdicts) + 1
        /\ Len(verdicts) \in Nat
    BY <1>1, AppendExtends DEF Conclude
  <1>3. phase' = "answer" /\ contexts' = contexts
    BY DEF Conclude
  <1> QED
    BY <1>2, <1>3 DEF BatchInv

(* A batch has a verdict for each query before the current one. *)
LEMMA BatchStep == BatchInv /\ (JudgeNext \/ UNCHANGED judgeVars) => BatchInv'
  <1> SUFFICES ASSUME BatchInv, JudgeNext \/ UNCHANGED judgeVars PROVE BatchInv'
    OBVIOUS
  <1>1. PICK S : verdicts \in Seq(S)
    BY DEF BatchInv
  <1>2. Len(verdicts) \in Nat
    BY <1>1
  <1>3. CASE Generate
    BY <1>2, <1>3 DEF Generate, Current, BatchInv
  <1>4. CASE GenerateFails
    BY <1>2, <1>4 DEF GenerateFails, Current, BatchInv
  <1>5. CASE JudgeReplies
    BY <1>5, ConcludeKeepsBatch DEF JudgeReplies
  <1>6. CASE JudgeUnparseable
    <2>1. CASE phase = "judge"
      BY <1>6, <2>1 DEF JudgeUnparseable, BatchInv
    <2>2. CASE phase = "repair"
      BY <1>6, <2>2, ConcludeKeepsBatch DEF JudgeUnparseable
    <2> QED
      BY <1>6, <2>1, <2>2 DEF JudgeUnparseable
  <1>7. CASE JudgeRaises
    BY <1>7 DEF JudgeRaises, BatchInv
  <1>8. CASE BatchReturns
    <2>1. /\ phase = "answer" /\ Len(verdicts) + 1 > Len(contexts)
          /\ phase' = "returned" /\ verdicts' = verdicts /\ contexts' = contexts
      BY <1>8 DEF BatchReturns, Current
    <2> QED
      BY <1>2, <2>1 DEF BatchInv
  <1>9. CASE UNCHANGED judgeVars
    BY <1>9 DEF BatchInv
  <1> QED
    BY <1>3, <1>4, <1>5, <1>6, <1>7, <1>8, <1>9 DEF JudgeNext

(* A walk has a row for each setting before the current one. *)
LEMMA WalkStep == WalkInv /\ (TunerNext \/ UNCHANGED tunerVars) => WalkInv'
  <1> SUFFICES ASSUME WalkInv, TunerNext \/ UNCHANGED tunerVars PROVE WalkInv'
    OBVIOUS
  <1>1. PICK S : rows \in Seq(S)
    BY DEF WalkInv
  <1>2. Len(rows) \in Nat
    BY <1>1
  <1>3. CASE ScoreQuery
    BY <1>3 DEF ScoreQuery, WalkInv
  <1>4. CASE ClosePoint
    <2>1. /\ rows' = Append(rows, Mean(scores)) /\ Len(rows) + 1 <= Len(grid)
          /\ tuner = "running" /\ tuner' = tuner /\ grid' = grid
      BY <1>4 DEF ClosePoint, Point
    <2>2. rows' \in Seq(S \cup {Mean(scores)}) /\ Len(rows') = Len(rows) + 1
      BY <1>1, <2>1, AppendExtends
    <2> QED
      BY <1>2, <2>1, <2>2 DEF WalkInv
  <1>5. CASE TunerReturns
    <2>1. /\ tuner = "running" /\ Len(rows) + 1 > Len(grid)
          /\ tuner' \in {"raised", "returned"} /\ rows' = rows /\ grid' = grid
      BY <1>5 DEF TunerReturns, Point
    <2> QED
      BY <1>2, <2>1 DEF WalkInv
  <1>6. CASE TunerRaises
    BY <1>6 DEF TunerRaises, WalkInv
  <1>7. CASE UNCHANGED tunerVars
    BY <1>7 DEF WalkInv
  <1> QED
    BY <1>3, <1>4, <1>5, <1>6, <1>7 DEF TunerNext

(* A job starts with neither verdicts nor rows. *)
LEMMA JobsStart == Init => BatchInv /\ WalkInv
  <1> SUFFICES ASSUME Init PROVE BatchInv /\ WalkInv
    OBVIOUS
  <1>1. <<>> \in Seq({}) /\ Len(<<>>) = 0
    OBVIOUS
  <1>2. Len(contexts) \in Nat
    <2>1. CASE Judge
      <3>1. PICK queries \in JudgedSets :
                contexts = [i \in DOMAIN queries |->
                               Rerank(queries[i].candidates, queries[i].score, Baseline)]
        BY <2>1 DEF Judge, JudgeInit
      <3>2. Len(queries) \in Nat /\ DOMAIN queries = 1..Len(queries)
        BY GoldenSetsType DEF IsList
      <3> QED
        BY <3>1, <3>2, LengthOfMap
    <2>2. CASE Tune
      BY <1>1, <2>2 DEF Tune, JudgeInit
    <2> QED
      BY <2>1, <2>2 DEF Init
  <1>3. Len(grid) \in Nat
    <2>1. CASE Judge
      BY <1>1, <2>1 DEF Judge, TunerInit
    <2>2. ASSUME NEW topKs \in TopKGrids,
                 grid = [i \in DOMAIN topKs |-> [Baseline EXCEPT !.top_k = topKs[i]]]
          PROVE  Len(grid) \in Nat
      <3>1. Len(topKs) \in Nat /\ DOMAIN topKs = 1..Len(topKs)
        BY GridsType
      <3> QED
        BY <2>2, <3>1, LengthOfMap
    <2>3. ASSUME grid = [i \in DOMAIN MinScoreGrid |->
                            [top_k |-> SweepTopK, min_score |-> {MinScoreGrid[i]}]]
          PROVE  Len(grid) \in Nat
      <3>1. Len(MinScoreGrid) \in Nat /\ DOMAIN MinScoreGrid = 1..Len(MinScoreGrid)
        BY GridsType
      <3> QED
        BY <2>3, <3>1, LengthOfMap
    <2> QED
      BY <2>1, <2>2, <2>3 DEF Init, Tune, TunerInit
  <1>4. /\ phase \in {"idle", "answer"} /\ verdicts = <<>>
        /\ tuner \in {"idle", "running"} /\ rows = <<>>
    BY DEF Init, Judge, Tune, JudgeInit, TunerInit
  <1> QED
    BY <1>1, <1>2, <1>3, <1>4 DEF BatchInv, WalkInv

(* A job that returns has done all of its work: a batch has a verdict for  *)
(* each query, a walk has a row for each setting (LLMJudge.judge_batch,    *)
(* RerankerTuner.grid_search and threshold_sweep return no partial list).  *)
THEOREM JobsAreComplete ==
    Spec => [](/\ phase = "returned" => Len(verdicts) = Len(contexts)
               /\ tuner = "returned" => Len(rows) = Len(grid))
  <1>1. BatchInv /\ WalkInv /\ [Next]_vars => (BatchInv /\ WalkInv)'
    BY BatchStep, WalkStep DEF Next
  <1>2. BatchInv /\ WalkInv =>
            /\ phase = "returned" => Len(verdicts) = Len(contexts)
            /\ tuner = "returned" => Len(rows) = Len(grid)
    BY DEF BatchInv, WalkInv
  <1> QED
    BY JobsStart, <1>1, <1>2, PTL DEF Spec

-----------------------------------------------------------------------------
(* Metrics *)

(* A part over its whole is a share. *)
LEMMA PartOverWhole ==
    ASSUME NEW a \in Nat, NEW b \in Nat \ {0}, a <= b
    PROVE  (a * Unit) \div b \in 0..Unit
  <1> DEFINE q == (a * Unit) \div b
             r == (a * Unit) % b
  <1>1. a * Unit \in Nat /\ a * Unit <= b * Unit
    BY UnitPositive
  <1>2. q \in Int /\ r \in 0..(b - 1) /\ a * Unit = b * q + r
    BY <1>1
  <1> HIDE DEF q, r
  <1>3. q >= 0
    <2> SUFFICES ASSUME q <= -1 PROVE FALSE
      BY <1>2
    <2>1. b * q <= -b
      BY <1>2
    <2> QED
      BY <1>1, <1>2, <2>1
  <1>4. q <= Unit
    <2> SUFFICES ASSUME q >= Unit + 1 PROVE FALSE
      BY <1>2, UnitPositive
    <2>1. b * q >= b * (Unit + 1)
      BY <1>2, UnitPositive
    <2>2. b * (Unit + 1) = b * Unit + b
      BY UnitPositive
    <2>3. b * Unit \in Int /\ b * q \in Int
      BY <1>2, UnitPositive
    <2> QED
      BY <1>1, <1>2, <2>1, <2>2, <2>3
  <1> QED
    BY <1>2, <1>3, <1>4, UnitPositive DEF q

(* Recall and precision are shares whatever ids the reranker returns, with *)
(* a document ranked as any number of chunks (recall_at_k, precision_at_k  *)
(* count distinct ids).                                                    *)
THEOREM SharesAreBounded ==
    ASSUME NEW S, NEW ranked \in Seq(S), NEW relevant, IsFiniteSet(relevant), NEW k \in Nat
    PROVE  /\ RecallAtK(ranked, relevant, k) \in 0..Unit
           /\ PrecisionAtK(ranked, relevant, k) \in 0..Unit
  <1> DEFINE found == Found(ranked, relevant, k)
             n == IF k < Len(ranked) THEN k ELSE Len(ranked)
             top == SubSeq(ranked, 1, n)
  <1>1. n \in Nat /\ n <= k /\ n <= Len(ranked)
    OBVIOUS
  <1>2. DOMAIN top = 1..n
    BY <1>1
  <1>3. found = {top[i] : i \in 1..n} \cap relevant
    BY <1>2 DEF Found, Top, ToSet
  <1>4. /\ IsFiniteSet(found) /\ Cardinality(found) \in Nat
        /\ Cardinality(found) <= Cardinality(relevant)
    <2>1. found \in SUBSET relevant
      BY <1>3
    <2> QED
      BY <2>1, FS_Subset, FS_CardinalityType
  <1>5. Cardinality(found) <= k
    <2> DEFINE T == {top[i] : i \in 1..n}
               f == [i \in 1..n |-> top[i]]
    <2>1. f \in Surjection(1..n, T)
      BY DEF Surjection
    <2> HIDE DEF T, f, n, top
    <2>2. IsFiniteSet(1..n) /\ Cardinality(1..n) = n
      <3>1. 1 \in Int /\ n \in Int
        BY <1>1
      <3>2. IsFiniteSet(1..n) /\ Cardinality(1..n) = IF 1 > n THEN 0 ELSE n - 1 + 1
        BY <3>1, FS_Interval
      <3> QED
        BY <1>1, <3>2
    <2>3. IsFiniteSet(T) /\ Cardinality(T) <= n
      BY <2>1, <2>2, FS_Surjection
    <2>4. found \in SUBSET T
      BY <1>3 DEF T
    <2>5. Cardinality(found) <= Cardinality(T) /\ Cardinality(T) \in Nat
      BY <2>3, <2>4, FS_Subset, FS_CardinalityType
    <2> QED
      BY <1>1, <1>4, <2>3, <2>5
  <1> HIDE DEF found, n, top
  <1>6. RecallAtK(ranked, relevant, k) \in 0..Unit
    <2>1. CASE relevant = {}
      BY <2>1, UnitPositive DEF RecallAtK
    <2>2. CASE relevant # {}
      <3>1. Cardinality(relevant) \in Nat \ {0}
        BY <2>2, FS_CardinalityType, FS_EmptySet
      <3>2. (Cardinality(found) * Unit) \div Cardinality(relevant) \in 0..Unit
        BY <1>4, <3>1, PartOverWhole
      <3> QED
        BY <2>2, <3>2 DEF RecallAtK, found
    <2> QED
      BY <2>1, <2>2
  <1>7. PrecisionAtK(ranked, relevant, k) \in 0..Unit
    <2>1. CASE k = 0
      BY <2>1, UnitPositive DEF PrecisionAtK
    <2>2. CASE k # 0
      <3>1. (Cardinality(found) * Unit) \div k \in 0..Unit
        BY <1>4, <1>5, <2>2, PartOverWhole
      <3> QED
        BY <2>2, <3>1 DEF PrecisionAtK, found
    <2> QED
      BY <2>1, <2>2
  <1> QED
    BY <1>6, <1>7

-----------------------------------------------------------------------------
(* Totals and division *)

(* The sums of the first values of a list. *)
LEMMA SumsAlongAList ==
    ASSUME NEW values \in Seq(Int)
    PROVE  \E sum \in [0..Len(values) -> Int] :
              /\ sum[0] = 0
              /\ \A n \in 1..Len(values) : sum[n] = sum[n - 1] + values[n]
              /\ Total(values) = sum[Len(values)]
  <1> DEFINE N == Len(values)
             IsSum(f) == f = [n \in 0..N |-> IF n = 0 THEN 0 ELSE f[n - 1] + values[n]]
             sum == CHOOSE f : IsSum(f)
             step == [n \in 1..N |-> [x \in Int |-> x + values[n]]]
  <1>1. N \in Nat /\ \A n \in 1..N : values[n] \in Int
    OBVIOUS
  <1>2. /\ step \in [1..N -> [Int -> Int]]
        /\ \A n \in 1..N, x \in Int : step[n][x] = x + values[n]
    BY <1>1
  <1>3. Total(values) = sum[N]
    BY DEF Total
  <1>0. step \in StepsOf(Int, N) /\ 0 \in Int
    BY <1>2 DEF StepsOf
  <1> HIDE DEF step, N
  <1>4. PICK f \in [0..N -> Int] : IsLoop(f, N, 0, step)
    BY <1>1, <1>0, LoopsHaveResults
  <1>5. IsSum(f)
    <2>1. ASSUME NEW n \in 1..N PROVE f[n] = f[n - 1] + values[n]
      <3>1. n - 1 \in 0..N
        BY <1>1
      <3>2. f[n - 1] \in Int
        BY <3>1
      <3> QED
        BY <1>2, <1>4, <3>2 DEF IsLoop
    <2>2. \A n \in 0..N : n = 0 \/ n \in 1..N
      BY <1>1
    <2>3. \A n \in 0..N : f[n] = IF n = 0 THEN 0 ELSE f[n - 1] + values[n]
      BY <1>4, <2>1, <2>2 DEF IsLoop
    <2> QED
      BY <2>3
  <1> HIDE DEF IsSum
  <1>6. IsSum(sum)
    BY <1>5
  <1> HIDE DEF sum
  <1>7. sum = [n \in 0..N |-> IF n = 0 THEN 0 ELSE sum[n - 1] + values[n]]
    BY <1>6 DEF IsSum
  <1>8. sum[0] = 0 /\ \A n \in 1..N : sum[n] = sum[n - 1] + values[n]
    BY <1>1, <1>7
  <1> DEFINE good == {n \in 0..N : sum[n] \in Int}
  <1>9. \A n \in 0..N : n \in good
    <2>1. 0 \in good
      BY <1>1, <1>8
    <2>2. ASSUME NEW n \in 1..N, n - 1 \in good PROVE n \in good
      <3>1. sum[n - 1] \in Int /\ values[n] \in Int /\ n \in 0..N
        BY <1>1, <2>2
      <3> QED
        BY <1>8, <3>1
    <2> HIDE DEF good
    <2> QED
      BY <1>1, <2>1, <2>2, AlongAList
  <1>10. sum \in [0..N -> Int]
    BY <1>7, <1>9
  <1> QED
    BY <1>3, <1>8, <1>10 DEF N

(* The running sums of natural numbers are natural numbers. *)
LEMMA SumsAreNatural ==
    ASSUME NEW values \in Seq(Nat)
    PROVE  \E sum \in [0..Len(values) -> Nat] :
              /\ sum[0] = 0
              /\ \A n \in 1..Len(values) : sum[n] = sum[n - 1] + values[n]
              /\ Total(values) = sum[Len(values)]
  <1> DEFINE N == Len(values)
  <1>1. N \in Nat /\ values \in Seq(Int) /\ \A n \in 1..N : values[n] \in Nat
    OBVIOUS
  <1>2. PICK sum \in [0..N -> Int] :
           /\ sum[0] = 0
           /\ \A n \in 1..N : sum[n] = sum[n - 1] + values[n]
           /\ Total(values) = sum[N]
    BY <1>1, SumsAlongAList
  <1> HIDE DEF N
  <1> DEFINE good == {n \in 0..N : sum[n] \in Nat}
  <1>3. 0 \in good
    BY <1>1, <1>2
  <1>4. \A n \in 1..N : n - 1 \in good => n \in good
    <2> SUFFICES ASSUME NEW n \in 1..N, n - 1 \in good PROVE n \in good
      OBVIOUS
    <2>1. sum[n - 1] \in Nat /\ values[n] \in Nat /\ n \in 0..N
      BY <1>1
    <2> QED
      BY <1>2, <2>1
  <1> HIDE DEF good
  <1>5. \A n \in 0..N : n \in good
    BY <1>1, <1>3, <1>4, AlongAList
  <1>6. sum \in [0..N -> Nat]
    BY <1>2, <1>5 DEF good
  <1> QED
    BY <1>2, <1>6 DEF N

(* A list that goes on where another ends, and is nowhere below it, has no *)
(* smaller total.                                                          *)
LEMMA TotalsKeepOrder ==
    ASSUME NEW u \in Seq(Nat), NEW v \in Seq(Nat), Len(u) <= Len(v),
           \A i \in 1..Len(u) : u[i] <= v[i]
    PROVE  Total(u) \in Nat /\ Total(v) \in Nat /\ Total(u) <= Total(v)
  <1>1. PICK s \in [0..Len(u) -> Nat] :
           /\ s[0] = 0
           /\ \A n \in 1..Len(u) : s[n] = s[n - 1] + u[n]
           /\ Total(u) = s[Len(u)]
    BY SumsAreNatural
  <1>2. PICK t \in [0..Len(v) -> Nat] :
           /\ t[0] = 0
           /\ \A n \in 1..Len(v) : t[n] = t[n - 1] + v[n]
           /\ Total(v) = t[Len(v)]
    BY SumsAreNatural
  <1> DEFINE last(n) == IF n < Len(u) THEN n ELSE Len(u)
             good == {n \in 0..Len(v) : s[last(n)] <= t[n]}
  <1>3. Len(u) \in Nat /\ Len(v) \in Nat
    OBVIOUS
  <1>4. 0 \in good
    BY <1>1, <1>2, <1>3
  <1>5. ASSUME NEW n \in 1..Len(v), n - 1 \in good PROVE n \in good
    <2>1. /\ t[n] = t[n - 1] + v[n] /\ v[n] \in Nat
          /\ t[n - 1] \in Nat /\ s[last(n - 1)] \in Nat /\ s[last(n - 1)] <= t[n - 1]
      <3>1. n - 1 \in 0..Len(v) /\ last(n - 1) \in 0..Len(u) /\ v[n] \in Nat
        BY <1>3
      <3>2. s[last(n - 1)] <= t[n - 1]
        BY <1>5
      <3> HIDE DEF last
      <3> QED
        BY <1>1, <1>2, <3>1, <3>2
    <2>2. CASE n <= Len(u)
      <3>1. /\ last(n) = n /\ last(n - 1) = n - 1
            /\ s[n] = s[n - 1] + u[n] /\ u[n] \in Nat /\ u[n] <= v[n]
        BY <1>1, <1>3, <2>2
      <3> HIDE DEF last
      <3> QED
        BY <2>1, <3>1
    <2>3. CASE ~(n <= Len(u))
      <3>1. last(n) = last(n - 1)
        BY <1>3, <2>3
      <3> HIDE DEF last
      <3> QED
        BY <2>1, <3>1
    <2> QED
      BY <2>2, <2>3
  <1>6. \A n \in 1..Len(v) : n - 1 \in good => n \in good
    BY <1>5
  <1>7. last(Len(v)) = Len(u)
    BY <1>3
  <1> HIDE DEF good
  <1>8. \A n \in 0..Len(v) : n \in good
    BY <1>3, <1>4, <1>6, AlongAList
  <1>9. s[last(Len(v))] <= t[Len(v)]
    BY <1>3, <1>8 DEF good
  <1>10. s[Len(u)] \in Nat /\ t[Len(v)] \in Nat
    <2>1. Len(u) \in 0..Len(u) /\ Len(v) \in 0..Len(v)
      BY <1>3
    <2> QED
      BY <1>1, <1>2, <2>1
  <1> HIDE DEF last
  <1> QED
    BY <1>1, <1>2, <1>7, <1>9, <1>10

(* No value of a list is above its total; a list of zeroes has none.       *)
LEMMA TotalHasParts ==
    ASSUME NEW u \in Seq(Nat)
    PROVE  /\ Total(u) \in Nat
           /\ \A i \in 1..Len(u) : u[i] <= Total(u)
           /\ (\A i \in 1..Len(u) : u[i] = 0) => Total(u) = 0
  <1>1. PICK s \in [0..Len(u) -> Nat] :
           /\ s[0] = 0
           /\ \A n \in 1..Len(u) : s[n] = s[n - 1] + u[n]
           /\ Total(u) = s[Len(u)]
    BY SumsAreNatural
  <1>2. Len(u) \in Nat /\ \A n \in 1..Len(u) : u[n] \in Nat
    OBVIOUS
  <1>3. ASSUME NEW i \in 1..Len(u) PROVE u[i] <= Total(u)
    <2> DEFINE good == {n \in 0..Len(u) : i <= n => u[i] <= s[n]}
    <2>1. 0 \in good
      BY <1>2
    <2>2. \A n \in 1..Len(u) : n - 1 \in good => n \in good
      <3> SUFFICES ASSUME NEW n \in 1..Len(u), n - 1 \in good PROVE n \in good
        OBVIOUS
      <3>1. s[n] = s[n - 1] + u[n] /\ u[n] \in Nat /\ s[n - 1] \in Nat
        BY <1>1, <1>2
      <3> QED
        BY <1>2, <3>1
    <2> HIDE DEF good
    <2>3. \A n \in 0..Len(u) : n \in good
      BY <1>2, <2>1, <2>2, AlongAList
    <2> QED
      BY <1>1, <1>2, <2>3 DEF good
  <1>4. ASSUME \A i \in 1..Len(u) : u[i] = 0 PROVE Total(u) = 0
    <2> DEFINE good == {n \in 0..Len(u) : s[n] = 0}
    <2>1. 0 \in good
      BY <1>1, <1>2
    <2>2. \A n \in 1..Len(u) : n - 1 \in good => n \in good
      BY <1>1, <1>2, <1>4
    <2> HIDE DEF good
    <2>3. \A n \in 0..Len(u) : n \in good
      BY <1>2, <2>1, <2>2, AlongAList
    <2> QED
      BY <1>1, <1>2, <2>3 DEF good
  <1> QED
    BY <1>1, <1>2, <1>3, <1>4

(* Whole division keeps the order of what is divided.                      *)
LEMMA DivisionKeepsOrder ==
    ASSUME NEW a \in Nat, NEW b \in Nat, NEW d \in Nat \ {0}, a <= b
    PROVE  a \div d \in Nat /\ b \div d \in Nat /\ a \div d <= b \div d
  <1> DEFINE p == a \div d
             q == b \div d
             r == a % d
             t == b % d
  <1>1. /\ p \in Int /\ r \in 0..(d - 1) /\ a = d * p + r
        /\ q \in Int /\ t \in 0..(d - 1) /\ b = d * q + t
    OBVIOUS
  <1> HIDE DEF p, q, r, t
  <1>2. \A x \in Int : d * x \in Int
    OBVIOUS
  <1>3. p >= 0 /\ q >= 0
    <2>1. \A x \in Int : x <= -1 => d * x <= -d
      OBVIOUS
    <2> QED
      BY <1>1, <1>2, <2>1
  <1>4. p <= q
    <2> SUFFICES ASSUME p >= q + 1 PROVE FALSE
      BY <1>1
    <2>1. d * p >= d * (q + 1) /\ d * (q + 1) = d * q + d
      BY <1>1, <1>3
    <2> QED
      BY <1>1, <1>2, <2>1
  <1> QED
    BY <1>1, <1>3, <1>4 DEF p, q

(* A number contains itself, and what is larger, at least once. *)
LEMMA DivisionIsPositive ==
    ASSUME NEW a \in Nat, NEW d \in Nat \ {0}, d <= a
    PROVE  a \div d \in Nat /\ a \div d >= 1
  <1>1. d \div d = 1
    OBVIOUS
  <1> QED
    BY <1>1, DivisionKeepsOrder

-----------------------------------------------------------------------------
(* Rankings *)

(* What the reranker does not drop, and the order it puts that in. *)
High(query, setting) ==
    {c \in query.candidates : \A low \in setting.min_score : query.score[c] >= low}
Ranking(query, setting) ==
    Sorted(High(query, setting), Highest(query.score, High(query, setting)))

IsSetting(setting) == setting.top_k \in Nat /\ setting.min_score \subseteq Int

(* Candidates are totally ordered, by score and then by id. *)
LEMMA CandidatesAreOrdered ==
    ASSUME NEW query, IsQuery(query), NEW kept \in SUBSET query.candidates
    PROVE  IsFiniteSet(kept) /\ IsStrictOrder(Highest(query.score, kept), kept)
  <1> DEFINE score == query.score
  <1>1. IsFiniteSet(kept)
    BY FS_Subset DEF IsQuery
  <1>2. /\ \A c \in kept : score[c] \in Int /\ c.id \in Int
        /\ \A c, d \in kept : c.id = d.id => c = d
    BY DEF IsQuery
  <1> HIDE DEF score
  <1>3. /\ \A c \in kept : ~Above(score, c, c)
        /\ \A c, d \in kept : c = d \/ Above(score, c, d) \/ Above(score, d, c)
        /\ \A c, d, e \in kept :
              Above(score, c, d) /\ Above(score, d, e) => Above(score, c, e)
    BY <1>2 DEF Above
  <1>4. \A c, d \in kept : <<c, d>> \in Highest(score, kept) <=> Above(score, c, d)
    BY DEF Highest
  <1>5. IsStrictOrder(Highest(score, kept), kept)
    BY <1>3, <1>4 DEF IsStrictOrder
  <1> QED
    BY <1>1, <1>5 DEF score

(* A list of values of a set, each at most once. *)
IsRanking(list, S) ==
    /\ list \in Seq(S)
    /\ \A i, j \in DOMAIN list : list[i] = list[j] => i = j

(* "cut" is what a list starts with, up to n. *)
IsCut(cut, list, n) ==
    /\ Len(cut) = Least(Len(list), n)
    /\ \A i \in 1..Len(cut) : cut[i] = list[i]

(* The ranking of a query has each candidate above the threshold once. *)
LEMMA RankingsAreSorted ==
    ASSUME NEW query, IsQuery(query), NEW setting
    PROVE  /\ IsRanking(Ranking(query, setting), query.candidates)
           /\ Len(Ranking(query, setting)) = Cardinality(High(query, setting))
  <1> DEFINE high == High(query, setting)
  <1>1. high \in SUBSET query.candidates
    BY DEF High
  <1>2. /\ Ranking(query, setting) \in Seq(high)
        /\ Len(Ranking(query, setting)) = Cardinality(high)
        /\ \A i, j \in DOMAIN Ranking(query, setting) :
              Ranking(query, setting)[i] = Ranking(query, setting)[j] => i = j
    <2> HIDE DEF high
    <2>1. IsFiniteSet(high) /\ IsStrictOrder(Highest(query.score, high), high)
      BY <1>1, CandidatesAreOrdered
    <2> QED
      BY <2>1, SortedIsSorted DEF Ranking, high
  <1> QED
    BY <1>1, <1>2 DEF IsRanking

(* The reranker keeps what its ranking starts with. *)
LEMMA RerankKeepsTheFirst ==
    ASSUME NEW query, IsQuery(query), NEW setting, IsSetting(setting)
    PROVE  LET kept == Rerank(query.candidates, query.score, setting)
           IN  /\ IsRanking(kept, query.candidates)
               /\ IsCut(kept, Ranking(query, setting), setting.top_k)
  <1> DEFINE kept == Rerank(query.candidates, query.score, setting)
             ranking == Ranking(query, setting)
             n == Least(Len(ranking), setting.top_k)
  <1>1. kept = SubSeq(ranking, 1, n)
    BY DEF Rerank, Ranking, High
  <1>2. ranking \in Seq(query.candidates)
        /\ \A i, j \in DOMAIN ranking : ranking[i] = ranking[j] => i = j
    BY RankingsAreSorted DEF IsRanking
  <1> HIDE DEF kept, ranking
  <1>3. n \in 0..Len(ranking)
    BY <1>2 DEF Least, IsSetting
  <1> HIDE DEF n
  <1>4. /\ kept \in Seq(query.candidates)
        /\ Len(kept) = n
        /\ \A i \in 1..Len(kept) : i \in DOMAIN ranking /\ kept[i] = ranking[i]
    BY <1>1, <1>2, <1>3, FirstElements
  <1>5. IsRanking(kept, query.candidates)
    BY <1>2, <1>4 DEF IsRanking
  <1>6. IsCut(kept, ranking, setting.top_k)
    BY <1>4 DEF IsCut, n
  <1> QED
    BY <1>5, <1>6 DEF kept, ranking

HasMinimum(setting, low) == setting.min_score = {low}

(* A higher minimum score only cuts off the end of the ranking. *)
LEMMA ThresholdsCutTheEnd ==
    ASSUME NEW query, IsQuery(query), NEW s, NEW t, NEW a \in Int, NEW b \in Int,
           HasMinimum(s, a), HasMinimum(t, b), a <= b
    PROVE  /\ Len(Ranking(query, t)) <= Len(Ranking(query, s))
           /\ \A i \in 1..Len(Ranking(query, t)) : Ranking(query, t)[i] = Ranking(query, s)[i]
  <1> DEFINE A == High(query, t)
             B == High(query, s)
             score == query.score
  <1>1. \A c \in query.candidates : score[c] \in Int
    BY DEF IsQuery
  <1>2. /\ A = {c \in query.candidates : score[c] >= b}
        /\ B = {c \in query.candidates : score[c] >= a}
    BY DEF High, HasMinimum
  <1>3. A \in SUBSET query.candidates /\ B \in SUBSET query.candidates
    BY <1>2
  <1> HIDE DEF A, B
  <1>4. A \subseteq B
    BY <1>1, <1>2
  <1>5. /\ IsFiniteSet(B)
        /\ IsStrictOrder(Highest(query.score, A), A)
        /\ IsStrictOrder(Highest(query.score, B), B)
    BY <1>3, CandidatesAreOrdered
  <1> HIDE DEF score
  <1>6. \A c, d \in A : <<c, d>> \in Highest(score, A) <=> <<c, d>> \in Highest(score, B)
    BY <1>4 DEF Highest
  <1>7. ASSUME NEW c \in A, NEW d \in B, <<d, c>> \in Highest(score, B) PROVE d \in A
    <2>1. Above(score, d, c)
      BY <1>7 DEF Highest
    <2>2. score[d] >= score[c]
      BY <1>1, <1>3, <2>1 DEF Above
    <2> QED
      BY <1>1, <1>2, <1>3, <2>2
  <1>8. /\ Cardinality(A) <= Cardinality(B)
        /\ \A i \in 1..Cardinality(A) :
              Sorted(A, Highest(score, A))[i] = Sorted(B, Highest(score, B))[i]
    BY <1>4, <1>5, <1>6, <1>7, FirstValues DEF score
  <1> QED
    BY <1>8, RankingsAreSorted DEF Ranking, A, B, score

(* The documents are those of the chunks that the ranking starts with.     *)
LEMMA DocsFollowTheRanking ==
    ASSUME NEW query, IsQuery(query), NEW setting, IsSetting(setting)
    PROVE  LET docs == RankedDocs(query, setting)
           IN  /\ docs \in Seq({c.doc : c \in query.candidates})
               /\ Len(docs) = Least(Len(Ranking(query, setting)), setting.top_k)
               /\ \A i \in 1..Len(docs) : docs[i] = Ranking(query, setting)[i].doc
  <1> DEFINE kept == Rerank(query.candidates, query.score, setting)
             docs == RankedDocs(query, setting)
             D == {c.doc : c \in query.candidates}
  <1>1. /\ kept \in Seq(query.candidates)
        /\ Len(kept) = Least(Len(Ranking(query, setting)), setting.top_k)
        /\ \A i \in 1..Len(kept) : kept[i] = Ranking(query, setting)[i]
    BY RerankKeepsTheFirst DEF IsRanking, IsCut
  <1>2. docs = [i \in DOMAIN kept |-> kept[i].doc]
    BY DEF RankedDocs
  <1> HIDE DEF kept, docs
  <1>3. /\ DOMAIN kept = 1..Len(kept) /\ Len(kept) \in Nat
        /\ \A i \in 1..Len(kept) : kept[i] \in query.candidates
    BY <1>1
  <1>4. \A i \in 1..Len(kept) : docs[i] = kept[i].doc /\ docs[i] \in D
    BY <1>2, <1>3
  <1> HIDE DEF D
  <1>5. docs \in [1..Len(kept) -> D]
    BY <1>2, <1>3, <1>4
  <1>6. docs \in Seq(D) /\ Len(docs) = Len(kept)
    BY <1>3, <1>5
  <1> QED
    BY <1>1, <1>4, <1>6 DEF docs, D

-----------------------------------------------------------------------------
(* nDCG *)

LEMMA TopIsACut ==
    ASSUME NEW S, NEW list \in Seq(S), NEW n \in Nat
    PROVE  /\ Top(list, n) \in Seq(S)
           /\ IsCut(Top(list, n), list, n)
           /\ Len(list) \in Nat /\ Len(Top(list, n)) \in Nat
           /\ Len(Top(list, n)) <= Len(list) /\ Len(Top(list, n)) <= n
  <1> DEFINE m == Least(Len(list), n)
  <1>1. m \in 0..Len(list) /\ m <= n /\ Len(list) \in Nat
    BY DEF Least
  <1>2. Top(list, n) = SubSeq(list, 1, m)
    <2>1. m = IF n < Len(list) THEN n ELSE Len(list)
      BY DEF Least
    <2> QED
      BY <2>1 DEF Top
  <1> HIDE DEF m
  <1>3. /\ Top(list, n) \in Seq(S) /\ Len(Top(list, n)) = m
        /\ \A i \in 1..Len(Top(list, n)) : Top(list, n)[i] = list[i]
    BY <1>1, <1>2, FirstElements
  <1> QED
    BY <1>1, <1>3 DEF IsCut, m

(* A hit gains the discount of its rank. *)
GainAt(docs, relevant, rank) == IF docs[rank] \in relevant THEN Discount[rank] ELSE 0
TopGains(docs, relevant) == Gains(Top(docs, Cutoff), relevant)

(* The gains that nDCG sums are those of the first ranks. *)
LEMMA GainsOfTheTop ==
    ASSUME NEW S, NEW docs \in Seq(S), NEW relevant
    PROVE  LET gains == TopGains(docs, relevant)
           IN  /\ gains \in Seq(Nat)
               /\ Len(gains) = Least(Len(docs), Cutoff)
               /\ \A i \in 1..Len(gains) :
                     i \in 1..Cutoff /\ gains[i] = GainAt(docs, relevant, i)
  <1> DEFINE top == Top(docs, Cutoff)
             gains == TopGains(docs, relevant)
  <1>1. Cutoff \in Nat /\ Cutoff <= Len(Discount) /\ Discount \in Seq(Nat)
    BY CutoffType, DiscountDecreases
  <1>2. /\ top \in Seq(S) /\ Len(top) \in Nat /\ Len(top) <= Cutoff
        /\ Len(top) = Least(Len(docs), Cutoff)
        /\ \A i \in 1..Len(top) : top[i] = docs[i]
    BY <1>1, TopIsACut DEF IsCut
  <1>3. gains = [i \in DOMAIN top |-> IF top[i] \in relevant THEN Discount[i] ELSE 0]
    BY DEF Gains, TopGains
  <1> HIDE DEF top, gains
  <1>4. DOMAIN top = 1..Len(top) /\ \A i \in 1..Len(top) : i \in 1..Len(Discount)
    BY <1>1, <1>2
  <1>5. \A i \in 1..Len(top) : Discount[i] \in Nat
    BY <1>1, <1>4
  <1>6. \A i \in 1..Len(top) : gains[i] = GainAt(docs, relevant, i) /\ gains[i] \in Nat
    BY <1>2, <1>3, <1>4, <1>5 DEF GainAt
  <1>7. gains \in [1..Len(top) -> Nat]
    BY <1>3, <1>4, <1>6
  <1>8. gains \in Seq(Nat) /\ Len(gains) = Len(top)
    BY <1>2, <1>7
  <1> QED
    BY <1>1, <1>2, <1>6, <1>8 DEF gains

(* The gain of an ideal ranking: zero only if nothing is relevant.         *)
IdealHits(relevant) == IF Cardinality(relevant) < Cutoff THEN Cardinality(relevant) ELSE Cutoff
IdealGain(relevant) == Total(Top(Discount, IdealHits(relevant)))

(* The ideal gain is positive if something is relevant, and at most that   *)
(* of a cutoff full of hits.                                               *)
LEMMA IdealGainIsPositive ==
    ASSUME NEW relevant, IsFiniteSet(relevant)
    PROVE  /\ IdealHits(relevant) \in 0..Cutoff
           /\ IdealGain(relevant) \in Nat
           /\ IdealGain(relevant) = 0 <=> relevant = {}
           /\ IdealGain(relevant) <= Total(Top(Discount, Cutoff))
           /\ Total(Top(Discount, Cutoff)) \in Nat
  <1> DEFINE n == IdealHits(relevant)
             ideal == Top(Discount, n)
             all == Top(Discount, Cutoff)
  <1>1. /\ Cutoff \in Nat /\ Cutoff >= 1 /\ Cutoff <= Len(Discount) /\ Discount \in Seq(Nat)
        /\ \A i \in 1..Len(Discount) : Discount[i] \in Nat \ {0}
    BY CutoffType, DiscountDecreases
  <1>2. Cardinality(relevant) \in Nat /\ (Cardinality(relevant) = 0 <=> relevant = {})
    BY FS_CardinalityType, FS_EmptySet
  <1>3. n \in 0..Cutoff /\ (n = 0 <=> relevant = {})
    BY <1>1, <1>2 DEF IdealHits
  <1> HIDE DEF n
  <1>4. /\ ideal \in Seq(Nat) /\ Len(ideal) = n
        /\ \A i \in 1..n : ideal[i] = Discount[i]
        /\ all \in Seq(Nat) /\ Len(all) = Cutoff
        /\ \A i \in 1..Cutoff : all[i] = Discount[i]
    <2>1. /\ ideal \in Seq(Nat) /\ IsCut(ideal, Discount, n)
          /\ all \in Seq(Nat) /\ IsCut(all, Discount, Cutoff)
      BY <1>1, <1>3, TopIsACut
    <2> HIDE DEF ideal, all
    <2>2. Least(Len(Discount), n) = n /\ Least(Len(Discount), Cutoff) = Cutoff
      BY <1>1, <1>3 DEF Least
    <2> QED
      BY <2>1, <2>2 DEF IsCut
  <1> HIDE DEF ideal, all
  <1>5. Total(ideal) \in Nat /\ Total(all) \in Nat /\ Total(ideal) <= Total(all)
    <2>1. Len(ideal) <= Len(all) /\ \A i \in 1..Len(ideal) : ideal[i] <= all[i]
      <3>1. Len(ideal) <= Len(all) /\ \A i \in 1..n : i \in 1..Cutoff /\ i \in 1..Len(Discount)
        BY <1>1, <1>3, <1>4
      <3>2. \A i \in 1..n : ideal[i] = all[i] /\ all[i] \in Nat
        BY <1>1, <1>4, <3>1
      <3> QED
        BY <1>4, <3>1, <3>2
    <2> QED
      BY <1>4, <2>1, TotalsKeepOrder
  <1>6. Total(ideal) = 0 <=> n = 0
    <2>1. CASE n = 0
      <3>1. \A i \in 1..Len(ideal) : ideal[i] = 0
        BY <1>4, <2>1
      <3> QED
        BY <1>4, <2>1, <3>1, TotalHasParts
    <2>2. CASE n # 0
      <3>1. 1 \in 1..Len(ideal) /\ 1 \in 1..Len(Discount) /\ ideal[1] = Discount[1]
        BY <1>1, <1>3, <1>4, <2>2
      <3>2. Discount[1] \in Nat \ {0} /\ ideal[1] <= Total(ideal)
        BY <1>1, <1>4, <3>1, TotalHasParts
      <3> QED
        BY <1>5, <2>2, <3>1, <3>2
    <2> QED
      BY <2>1, <2>2
  <1> QED
    BY <1>3, <1>5, <1>6 DEF IdealGain, ideal, all, n

(* nDCG is the gain of the top over the gain of the ideal. *)
LEMMA NdcgIsARatio ==
    ASSUME NEW S, NEW docs \in Seq(S), NEW relevant, IsFiniteSet(relevant)
    PROVE  /\ Total(TopGains(docs, relevant)) \in Nat
           /\ NdcgAtK(docs, relevant, Cutoff) =
                 IF relevant = {} THEN 0
                 ELSE (Total(TopGains(docs, relevant)) * Unit) \div IdealGain(relevant)
           /\ NdcgAtK(docs, relevant, Cutoff) \in Nat
  <1>1. Total(TopGains(docs, relevant)) \in Nat
    <2>1. TopGains(docs, relevant) \in Seq(Nat)
      BY GainsOfTheTop
    <2> QED
      BY <2>1, TotalHasParts
  <1>2. IdealGain(relevant) \in Nat /\ (IdealGain(relevant) = 0 <=> relevant = {})
    BY IdealGainIsPositive
  <1>3. NdcgAtK(docs, relevant, Cutoff) =
           IF IdealGain(relevant) = 0 THEN 0
           ELSE (Total(TopGains(docs, relevant)) * Unit) \div IdealGain(relevant)
    BY DEF NdcgAtK, IdealGain, IdealHits, TopGains
  <1>4. ASSUME relevant # {}
        PROVE  (Total(TopGains(docs, relevant)) * Unit) \div IdealGain(relevant) \in Nat
    <2> DEFINE a == Total(TopGains(docs, relevant)) * Unit
    <2>1. a \in Nat
      BY <1>1, UnitPositive
    <2> HIDE DEF a
    <2>2. a \div IdealGain(relevant) \in Nat
      BY <1>2, <1>4, <2>1, DivisionKeepsOrder
    <2> QED
      BY <2>2 DEF a
  <1> QED
    BY <1>1, <1>2, <1>3, <1>4

(* A list whose top goes on where the top of another ends has no smaller   *)
(* nDCG.                                                                   *)
LEMMA NdcgKeepsOrder ==
    ASSUME NEW S, NEW p \in Seq(S), NEW q \in Seq(S), NEW relevant, IsFiniteSet(relevant),
           Least(Len(p), Cutoff) <= Least(Len(q), Cutoff),
           \A i \in 1..Least(Len(p), Cutoff) : p[i] = q[i]
    PROVE  NdcgAtK(p, relevant, Cutoff) <= NdcgAtK(q, relevant, Cutoff)
  <1> DEFINE g == TopGains(p, relevant)
             h == TopGains(q, relevant)
  <1>1. /\ g \in Seq(Nat) /\ Len(g) = Least(Len(p), Cutoff)
        /\ \A i \in 1..Len(g) : g[i] = GainAt(p, relevant, i)
        /\ h \in Seq(Nat) /\ Len(h) = Least(Len(q), Cutoff)
        /\ \A i \in 1..Len(h) : h[i] = GainAt(q, relevant, i)
    BY GainsOfTheTop
  <1> HIDE DEF g, h
  <1>2. Len(g) \in Nat /\ Len(h) \in Nat /\ Len(g) <= Len(h)
    BY <1>1
  <1>3. ASSUME NEW i \in 1..Len(g) PROVE g[i] <= h[i]
    <2>1. i \in 1..Len(h) /\ p[i] = q[i]
      BY <1>1, <1>2
    <2>2. g[i] = h[i]
      BY <1>1, <2>1 DEF GainAt
    <2>3. g[i] \in Nat
      BY <1>1
    <2> QED
      BY <2>2, <2>3
  <1>4. Total(g) \in Nat /\ Total(h) \in Nat /\ Total(g) <= Total(h)
    BY <1>1, <1>2, <1>3, TotalsKeepOrder
  <1>5. /\ NdcgAtK(p, relevant, Cutoff) =
              IF relevant = {} THEN 0 ELSE (Total(g) * Unit) \div IdealGain(relevant)
        /\ NdcgAtK(q, relevant, Cutoff) =
              IF relevant = {} THEN 0 ELSE (Total(h) * Unit) \div IdealGain(relevant)
    BY NdcgIsARatio DEF g, h
  <1>6. IdealGain(relevant) \in Nat /\ (IdealGain(relevant) = 0 <=> relevant = {})
    BY IdealGainIsPositive
  <1> DEFINE a == Total(g) * Unit
             b == Total(h) * Unit
  <1>7. a \in Nat /\ b \in Nat /\ a <= b
    BY <1>4, UnitPositive
  <1> HIDE DEF a, b
  <1>8. relevant # {} => a \div IdealGain(relevant) <= b \div IdealGain(relevant)
    BY <1>6, <1>7, DivisionKeepsOrder
  <1> QED
    BY <1>5, <1>8 DEF a, b

-----------------------------------------------------------------------------
(* Hits *)

Hit(docs, relevant) == \E i \in 1..Len(docs) : i <= Cutoff /\ docs[i] \in relevant

(* Something is found just if there is a hit above the cutoff. *)
LEMMA FoundIsAHit ==
    ASSUME NEW S, NEW docs \in Seq(S), NEW relevant, IsFiniteSet(relevant)
    PROVE  /\ Found(docs, relevant, Cutoff) # {} <=> Hit(docs, relevant)
           /\ IsFiniteSet(Found(docs, relevant, Cutoff))
           /\ Cardinality(Found(docs, relevant, Cutoff)) \in Nat
           /\ Cardinality(Found(docs, relevant, Cutoff)) = 0
                 <=> Found(docs, relevant, Cutoff) = {}
  <1> DEFINE top == Top(docs, Cutoff)
             found == Found(docs, relevant, Cutoff)
  <1>1. Cutoff \in Nat
    BY CutoffType
  <1>2. /\ top \in Seq(S) /\ Len(top) \in Nat /\ Len(docs) \in Nat
        /\ Len(top) = Least(Len(docs), Cutoff)
        /\ \A i \in 1..Len(top) : top[i] = docs[i]
    BY <1>1, TopIsACut DEF IsCut
  <1> HIDE DEF top
  <1>3. found = {top[i] : i \in 1..Len(top)} \cap relevant
    BY <1>2 DEF Found, ToSet, top
  <1> HIDE DEF found
  <1>4. \A i \in Nat : i \in 1..Len(top) <=> i \in 1..Len(docs) /\ i <= Cutoff
    BY <1>1, <1>2 DEF Least
  <1>5. found # {} <=> Hit(docs, relevant)
    <2>1. ASSUME found # {} PROVE Hit(docs, relevant)
      <3>1. PICK i \in 1..Len(top) : top[i] \in relevant
        BY <1>3, <2>1
      <3>2. i \in Nat
        BY <1>2
      <3> QED
        BY <1>2, <1>4, <3>1, <3>2 DEF Hit
    <2>2. ASSUME Hit(docs, relevant) PROVE found # {}
      <3>1. PICK i \in 1..Len(docs) : i <= Cutoff /\ docs[i] \in relevant
        BY <2>2 DEF Hit
      <3>2. i \in 1..Len(top)
        BY <1>2, <1>4, <3>1
      <3> QED
        BY <1>2, <1>3, <3>1, <3>2
    <2> QED
      BY <2>1, <2>2
  <1>6. IsFiniteSet(found)
    <2>1. found \in SUBSET relevant
      BY <1>3
    <2> QED
      BY <2>1, FS_Subset
  <1> QED
    BY <1>5, <1>6, FS_CardinalityType, FS_EmptySet DEF found

(* Of a part of a whole that fits the unit something is seen. *)
LEMMA ShareIsPositive ==
    ASSUME NEW n \in Nat, NEW d \in Nat \ {0}, d <= Unit
    PROVE  (n * Unit) \div d > 0 <=> n # 0
  <1>1. CASE n = 0
    <2>1. n * Unit = 0
      BY <1>1, UnitPositive
    <2>2. 0 \div d = 0
      OBVIOUS
    <2> QED
      BY <1>1, <2>1, <2>2
  <1>2. CASE n # 0
    <2> DEFINE a == n * Unit
    <2>1. a \in Nat /\ d <= a
      <3>1. \A u \in Nat : n * u >= u /\ n * u \in Nat
        BY <1>2
      <3> QED
        BY <3>1, UnitPositive
    <2> HIDE DEF a
    <2>2. a \div d >= 1 /\ a \div d \in Nat
      BY <2>1, DivisionIsPositive
    <2> QED
      BY <1>2, <2>2 DEF a
  <1> QED
    BY <1>1, <1>2

(* Only the ranks up to the cutoff have a reciprocal as large as its own. *)
LEMMA EarlyRanks ==
    ASSUME NEW r \in Nat \ {0}
    PROVE  /\ Unit \div r \in Nat
           /\ Unit \div Cutoff \in Nat \ {0}
           /\ Unit \div r >= Unit \div Cutoff <=> r <= Cutoff
  <1> DEFINE p == Unit \div r
             q == Unit \div Cutoff
             a == Unit % r
             b == Unit % Cutoff
  <1>1. /\ Cutoff \in Nat \ {0} /\ Unit \in Nat \ {0} /\ Len(Discount) \in Nat
        /\ Cutoff * (Cutoff + 1) <= Unit
    BY CutoffType, UnitResolves, UnitPositive, DiscountDecreases
  <1>2. Unit = Cutoff * q + b /\ q \in Int /\ b \in 0..(Cutoff - 1)
    BY <1>1
  <1>3. Unit = r * p + a /\ p \in Int /\ a \in 0..(r - 1)
    BY <1>1
  <1>4. p \in Nat /\ q \in Nat
    BY <1>1, DivisionKeepsOrder
  <1> HIDE DEF p, q, a, b
  <1>5. q >= Cutoff + 1
    <2> SUFFICES ASSUME q <= Cutoff PROVE FALSE
      BY <1>1, <1>4
    <2>1. Cutoff * q <= Cutoff * Cutoff
      BY <1>1, <1>4
    <2>2. Cutoff * (Cutoff + 1) = Cutoff * Cutoff + Cutoff
      BY <1>1
    <2>3. Cutoff * q \in Nat /\ Cutoff * Cutoff \in Nat
      BY <1>1, <1>4
    <2> QED
      BY <1>1, <1>2, <2>1, <2>2, <2>3
  <1>6. ASSUME r <= Cutoff PROVE p >= q
    <2> SUFFICES ASSUME p + 1 <= q PROVE FALSE
      BY <1>4
    <2>1. r * (p + 1) <= r * q /\ r * (p + 1) = r * p + r
      BY <1>4
    <2>2. r * q <= Cutoff * q
      BY <1>1, <1>4, <1>6
    <2>3. r * p \in Nat /\ r * q \in Nat /\ Cutoff * q \in Nat
      BY <1>1, <1>4
    <2> QED
      BY <1>1, <1>2, <1>3, <2>1, <2>2, <2>3
  <1>7. ASSUME ~(r <= Cutoff), p >= q PROVE FALSE
    <2>1. r * q <= r * p
      BY <1>4, <1>7
    <2>2. (Cutoff + 1) * q <= r * q
      BY <1>1, <1>4, <1>7
    <2>3. (Cutoff + 1) * q = Cutoff * q + q
      BY <1>1, <1>4
    <2>4. r * p \in Nat /\ r * q \in Nat /\ Cutoff * q \in Nat
      BY <1>1, <1>4
    <2> QED
      BY <1>1, <1>2, <1>3, <1>4, <1>5, <2>1, <2>2, <2>3, <2>4
  <1> QED
    BY <1>1, <1>4, <1>5, <1>6, <1>7 DEF p, q

(* nDCG is positive exactly if there is a hit by the cutoff. *)
LEMMA NdcgSeesHits ==
    ASSUME NEW S, NEW docs \in Seq(S), NEW relevant, IsFiniteSet(relevant)
    PROVE  Hit(docs, relevant) <=> NdcgAtK(docs, relevant, Cutoff) > 0
  <1> DEFINE gains == TopGains(docs, relevant)
             ideal == IdealGain(relevant)
             top == Total(Top(Discount, Cutoff))
             dcg == Total(gains)
  <1>1. /\ Cutoff \in Nat /\ Len(docs) \in Nat /\ Len(Discount) \in Nat
        /\ Cutoff \in 1..Len(Discount)
        /\ \A i \in 1..Len(Discount) : Discount[i] \in Nat \ {0}
    BY CutoffType, DiscountDecreases
  <1>2. /\ gains \in Seq(Nat) /\ Len(gains) = Least(Len(docs), Cutoff)
        /\ \A i \in 1..Len(gains) : i \in 1..Cutoff /\ gains[i] = GainAt(docs, relevant, i)
    BY GainsOfTheTop
  <1>3. /\ ideal \in Nat /\ (ideal = 0 <=> relevant = {})
        /\ ideal <= top /\ top \in Nat /\ top <= Discount[Cutoff] * Unit
    BY IdealGainIsPositive, UnitResolves
  <1>4. /\ dcg \in Nat
        /\ NdcgAtK(docs, relevant, Cutoff) =
              IF relevant = {} THEN 0 ELSE (dcg * Unit) \div ideal
    BY NdcgIsARatio
  <1> HIDE DEF gains, ideal, top
  <1>5. ASSUME Hit(docs, relevant) PROVE NdcgAtK(docs, relevant, Cutoff) > 0
    <2>1. PICK i \in 1..Len(docs) : i <= Cutoff /\ docs[i] \in relevant
      BY <1>5 DEF Hit
    <2>2. i \in 1..Len(gains) /\ gains[i] = Discount[i]
      BY <1>1, <1>2, <2>1 DEF Least, GainAt
    <2>3. Discount[i] <= dcg
      BY <1>2, <2>2, TotalHasParts
    <2>4. Discount[Cutoff] <= Discount[i] /\ Discount[i] \in Nat /\ Discount[Cutoff] \in Nat
      <3>1. i \in DOMAIN Discount /\ Cutoff \in DOMAIN Discount
        BY <1>1, <1>2, <2>2, DiscountDecreases
      <3>2. i = Cutoff \/ i < Cutoff
        BY <1>1, <2>1
      <3>3. i < Cutoff => Discount[Cutoff] < Discount[i]
        BY <3>1, DiscountDecreases
      <3>4. Discount[i] \in Nat /\ Discount[Cutoff] \in Nat
        BY <1>1, <3>1, DiscountDecreases
      <3> QED
        BY <3>2, <3>3, <3>4
    <2> DEFINE a == dcg * Unit
    <2>5. a \in Nat /\ Discount[Cutoff] * Unit <= a
      <3>1. Discount[Cutoff] <= dcg
        BY <1>4, <2>3, <2>4
      <3>2. \A x, y \in Nat : x <= y => x * Unit <= y * Unit /\ y * Unit \in Nat
        BY UnitPositive
      <3> QED
        BY <1>4, <2>4, <3>1, <3>2
    <2>6. Discount[Cutoff] * Unit \in Nat
      BY <2>4, UnitPositive
    <2>7. ideal # 0 /\ relevant # {}
      BY <1>3, <2>1
    <2> HIDE DEF a, dcg
    <2>8. ideal <= a
      BY <1>3, <2>5, <2>6
    <2>9. a \div ideal \in Nat /\ a \div ideal >= 1
      BY <1>3, <2>5, <2>7, <2>8, DivisionIsPositive
    <2>10. NdcgAtK(docs, relevant, Cutoff) = a \div ideal
      BY <1>4, <2>7 DEF a
    <2> QED
      BY <2>9, <2>10
  <1>6. ASSUME ~Hit(docs, relevant) PROVE NdcgAtK(docs, relevant, Cutoff) = 0
    <2>1. ASSUME NEW i \in 1..Len(gains) PROVE gains[i] = 0
      <3>1. i \in 1..Len(docs) /\ i <= Cutoff
        BY <1>1, <1>2 DEF Least
      <3>2. docs[i] \notin relevant
        BY <1>6, <3>1 DEF Hit
      <3> QED
        BY <1>2, <3>2 DEF GainAt
    <2>2. dcg = 0
      BY <1>2, <2>1, TotalHasParts
    <2>3. dcg * Unit = 0
      BY <2>2, UnitPositive
    <2> HIDE DEF dcg
    <2>4. relevant # {} => 0 \div ideal = 0
      BY <1>3
    <2> QED
      BY <1>4, <2>3, <2>4
  <1> QED
    BY <1>5, <1>6

(* One more value is added to the total. *)
LEMMA TotalGrows ==
    ASSUME NEW u \in Seq(Nat), NEW v \in Seq(Nat), Len(v) = Len(u) + 1,
           \A i \in 1..Len(u) : v[i] = u[i]
    PROVE  Total(v) = Total(u) + v[Len(v)]
  <1>1. PICK s \in [0..Len(u) -> Nat] :
           /\ s[0] = 0
           /\ \A n \in 1..Len(u) : s[n] = s[n - 1] + u[n]
           /\ Total(u) = s[Len(u)]
    BY SumsAreNatural
  <1>2. PICK t \in [0..Len(v) -> Nat] :
           /\ t[0] = 0
           /\ \A n \in 1..Len(v) : t[n] = t[n - 1] + v[n]
           /\ Total(v) = t[Len(v)]
    BY SumsAreNatural
  <1>3. Len(u) \in Nat /\ Len(v) \in 1..Len(v) /\ Len(v) - 1 = Len(u)
    OBVIOUS
  <1> DEFINE good == {n \in 0..Len(u) : s[n] = t[n]}
  <1>4. 0 \in good
    BY <1>1, <1>2, <1>3
  <1>5. \A n \in 1..Len(u) : n - 1 \in good => n \in good
    BY <1>1, <1>2, <1>3
  <1> HIDE DEF good
  <1>6. \A n \in 0..Len(u) : n \in good
    BY <1>3, <1>4, <1>5, AlongAList
  <1>7. s[Len(u)] = t[Len(u)]
    BY <1>3, <1>6 DEF good
  <1> QED
    BY <1>1, <1>2, <1>3, <1>7

(* The gain of the first hits. *)
GainOf(n) == Total(Top(Discount, n))

(* A hit more at the next rank adds the discount of that rank. *)
LEMMA GainsOfHits ==
    ASSUME NEW n \in 1..Cutoff
    PROVE  GainOf(n) = GainOf(n - 1) + Discount[n]
  <1>1. /\ n \in Nat /\ n - 1 \in Nat /\ n <= Len(Discount) /\ Len(Discount) \in Nat
        /\ Discount \in Seq(Nat)
    BY CutoffType, DiscountDecreases
  <1> DEFINE u == Top(Discount, n - 1)
             v == Top(Discount, n)
  <1>2. /\ u \in Seq(Nat) /\ Len(u) = n - 1 /\ \A i \in 1..Len(u) : u[i] = Discount[i]
        /\ v \in Seq(Nat) /\ Len(v) = n /\ \A i \in 1..Len(v) : v[i] = Discount[i]
    <2>1. /\ u \in Seq(Nat) /\ IsCut(u, Discount, n - 1)
          /\ v \in Seq(Nat) /\ IsCut(v, Discount, n)
      BY <1>1, TopIsACut
    <2> HIDE DEF u, v
    <2>2. Least(Len(Discount), n - 1) = n - 1 /\ Least(Len(Discount), n) = n
      BY <1>1 DEF Least
    <2> QED
      BY <2>1, <2>2 DEF IsCut
  <1> HIDE DEF u, v
  <1>3. Len(v) = Len(u) + 1 /\ \A i \in 1..Len(u) : v[i] = u[i]
    <2>1. Len(v) = Len(u) + 1
      BY <1>1, <1>2
    <2>2. \A i \in 1..Len(u) : i \in 1..Len(v)
      BY <1>1, <1>2
    <2> QED
      BY <1>2, <2>1, <2>2
  <1>4. Total(v) = Total(u) + v[Len(v)]
    BY <1>2, <1>3, TotalGrows
  <1>5. v[Len(v)] = Discount[n]
    BY <1>1, <1>2
  <1> QED
    BY <1>4, <1>5 DEF GainOf, u, v

(* More hits at the first ranks gain more. *)
LEMMA GainsKeepOrder ==
    ASSUME NEW m \in 0..Cutoff, NEW n \in 0..Cutoff, m <= n
    PROVE  GainOf(m) \in Nat /\ GainOf(n) \in Nat /\ GainOf(m) <= GainOf(n)
  <1>1. /\ m \in Nat /\ n \in Nat /\ n <= Len(Discount) /\ Len(Discount) \in Nat
        /\ Discount \in Seq(Nat)
    BY CutoffType, DiscountDecreases
  <1> DEFINE u == Top(Discount, m)
             v == Top(Discount, n)
  <1>2. /\ u \in Seq(Nat) /\ IsCut(u, Discount, m)
        /\ v \in Seq(Nat) /\ IsCut(v, Discount, n)
    BY <1>1, TopIsACut
  <1> HIDE DEF u, v
  <1>3. Least(Len(Discount), m) = m /\ Least(Len(Discount), n) = n
    BY <1>1 DEF Least
  <1>4. Len(u) = m /\ Len(v) = n
    BY <1>2, <1>3 DEF IsCut
  <1>5. ASSUME NEW i \in 1..m PROVE u[i] <= v[i]
    <2>1. i \in 1..n /\ i \in 1..Len(v)
      BY <1>1, <1>4
    <2>2. u[i] = v[i] /\ v[i] \in Nat
      BY <1>2, <1>4, <2>1 DEF IsCut
    <2> QED
      BY <2>2
  <1>6. Total(u) \in Nat /\ Total(v) \in Nat /\ Total(u) <= Total(v)
    BY <1>2, <1>4, <1>5, TotalsKeepOrder
  <1> QED
    BY <1>6 DEF GainOf, u, v

(* Hits at any ranks gain no more than as many hits at the first ranks.    *)
HitsBy(docs, relevant, n) == {i \in 1..n : docs[i] \in relevant}

(* By induction over the ranks: what a hit at a rank gains is at most the  *)
(* discount of the first rank that the hits before it leave free.          *)
LEMMA FirstRanksGainMost ==
    ASSUME NEW S, NEW docs \in Seq(S), NEW relevant
    PROVE  LET m == Least(Len(docs), Cutoff)
               hits == HitsBy(docs, relevant, m)
           IN  /\ IsFiniteSet(hits) /\ Cardinality(hits) \in 0..Cutoff
               /\ Total(TopGains(docs, relevant)) <= GainOf(Cardinality(hits))
  <1> DEFINE g == TopGains(docs, relevant)
             m == Least(Len(docs), Cutoff)
             hits(n) == HitsBy(docs, relevant, n)
             h(n) == Cardinality(hits(n))
  <1>1. /\ Cutoff \in Nat \ {0} /\ Len(docs) \in Nat /\ Len(Discount) \in Nat
        /\ Cutoff <= Len(Discount)
        /\ \A i \in 1..Len(Discount) : i \in DOMAIN Discount /\ Discount[i] \in Nat
    BY CutoffType, DiscountDecreases
  <1>2. /\ g \in Seq(Nat) /\ Len(g) = m
        /\ \A i \in 1..Len(g) : g[i] = GainAt(docs, relevant, i)
    BY GainsOfTheTop
  <1>3. m \in 0..Cutoff
    BY <1>1 DEF Least
  <1> HIDE DEF g, m
  <1>4. PICK s \in [0..Len(g) -> Nat] :
           /\ s[0] = 0
           /\ \A n \in 1..Len(g) : s[n] = s[n - 1] + g[n]
           /\ Total(g) = s[Len(g)]
    BY <1>2, SumsAreNatural
  <1>5. ASSUME NEW n \in 0..m PROVE IsFiniteSet(hits(n)) /\ h(n) \in 0..n
    <2>1. n \in Nat /\ IsFiniteSet(1..n) /\ Cardinality(1..n) = n
      <3>1. n \in Nat /\ n \in Int /\ 1 \in Int
        BY <1>1, <1>3
      <3>2. IsFiniteSet(1..n) /\ Cardinality(1..n) = IF 1 > n THEN 0 ELSE n - 1 + 1
        BY <3>1, FS_Interval
      <3> QED
        BY <3>1, <3>2
    <2>2. hits(n) \in SUBSET (1..n)
      BY DEF HitsBy
    <2> HIDE DEF hits
    <2>3. IsFiniteSet(hits(n)) /\ Cardinality(hits(n)) <= n /\ Cardinality(hits(n)) \in Nat
      BY <2>1, <2>2, FS_Subset, FS_CardinalityType
    <2> QED
      BY <2>1, <2>3
  <1> DEFINE good == {n \in 0..m : s[n] <= GainOf(h(n))}
  <1>6. 0 \in good
    <2>1. 0 \in 0..m /\ 0 \in 0..Cutoff
      BY <1>1, <1>3
    <2>2. h(0) = 0
      BY <1>5, <2>1
    <2>3. GainOf(0) \in Nat
      BY <2>1, GainsKeepOrder
    <2> HIDE DEF h
    <2> QED
      BY <1>4, <2>1, <2>2, <2>3
  <1>7. ASSUME NEW n \in 1..m, n - 1 \in good PROVE n \in good
    <2>1. /\ n \in 1..Cutoff /\ n - 1 \in 0..m /\ n \in 0..m /\ n \in 1..Len(g)
          /\ n \in 1..Len(Discount)
      BY <1>1, <1>2, <1>3
    <2>2. /\ IsFiniteSet(hits(n - 1)) /\ h(n - 1) \in 0..(n - 1)
          /\ h(n) \in 0..n
      BY <1>5, <2>1
    <2>3. s[n - 1] <= GainOf(h(n - 1))
      BY <1>7
    <2>4. s[n - 1] \in Nat /\ s[n] = s[n - 1] + g[n] /\ g[n] = GainAt(docs, relevant, n)
      BY <1>2, <1>4, <2>1
    <2>5. GainOf(h(n - 1)) \in Nat
      <3>1. h(n - 1) \in 0..Cutoff
        BY <1>1, <2>1, <2>2
      <3> HIDE DEF h
      <3> QED
        BY <3>1, GainsKeepOrder
    <2>6. CASE docs[n] \in relevant
      <3>1. hits(n) = hits(n - 1) \cup {n} /\ n \notin hits(n - 1)
        BY <2>1, <2>6 DEF HitsBy
      <3>2. h(n) = h(n - 1) + 1
        <4> HIDE DEF hits
        <4> QED
          BY <2>2, <3>1, FS_AddElement
      <3> HIDE DEF h
      <3>3. h(n) \in 1..n /\ h(n) \in 1..Cutoff /\ h(n) - 1 = h(n - 1)
        BY <1>1, <2>1, <2>2, <3>2
      <3>4. GainOf(h(n)) = GainOf(h(n - 1)) + Discount[h(n)]
        BY <3>3, GainsOfHits
      <3>5. h(n) \in DOMAIN Discount /\ n \in DOMAIN Discount
        BY <1>1, <2>1, <3>3
      <3>6. Discount[n] \in Nat /\ Discount[h(n)] \in Nat
        BY <1>1, <2>1, <3>3
      <3>7. Discount[n] <= Discount[h(n)]
        <4>1. h(n) = n \/ h(n) < n
          BY <2>1, <3>3
        <4> QED
          BY <3>5, <3>6, <4>1, DiscountDecreases
      <3>8. g[n] = Discount[n]
        BY <2>4, <2>6 DEF GainAt
      <3> QED
        BY <2>1, <2>3, <2>4, <2>5, <3>4, <3>6, <3>7, <3>8
    <2>7. CASE docs[n] \notin relevant
      <3>1. hits(n) = hits(n - 1)
        BY <2>1, <2>7 DEF HitsBy
      <3>2. g[n] = 0
        BY <2>4, <2>7 DEF GainAt
      <3>3. s[n] = s[n - 1] /\ h(n) = h(n - 1)
        BY <2>4, <3>1, <3>2
      <3> HIDE DEF h
      <3> QED
        BY <2>1, <2>3, <3>3
    <2> QED
      BY <2>6, <2>7
  <1>8. \A n \in 1..m : n - 1 \in good => n \in good
    BY <1>7
  <1> HIDE DEF good
  <1>9. m \in Nat /\ m \in 0..m
    BY <1>1, <1>3
  <1>10. \A n \in 0..m : n \in good
    BY <1>6, <1>8, <1>9, AlongAList
  <1>11. s[m] <= GainOf(h(m))
    BY <1>9, <1>10 DEF good
  <1>12. IsFiniteSet(hits(m)) /\ h(m) \in 0..Cutoff
    BY <1>1, <1>3, <1>5, <1>9
  <1> QED
    BY <1>2, <1>4, <1>11, <1>12 DEF m, g

(* A list of distinct documents gains no more than an ideal one. *)
LEMMA NdcgIsAShare ==
    ASSUME NEW S, NEW docs \in Seq(S), NEW relevant, IsFiniteSet(relevant),
           \A i, j \in 1..Len(docs) : docs[i] = docs[j] => i = j
    PROVE  NdcgAtK(docs, relevant, Cutoff) <= Unit
  <1> DEFINE m == Least(Len(docs), Cutoff)
             hits == HitsBy(docs, relevant, m)
             dcg == Total(TopGains(docs, relevant))
             ideal == IdealGain(relevant)
  <1>1. /\ IsFiniteSet(hits) /\ Cardinality(hits) \in 0..Cutoff
        /\ dcg <= GainOf(Cardinality(hits))
    BY FirstRanksGainMost
  <1>2. Cardinality(hits) <= Cardinality(relevant)
    <2> DEFINE f == [i \in hits |-> docs[i]]
    <2>1. \A i \in hits : docs[i] \in relevant /\ i \in 1..Len(docs)
      <3>1. Len(docs) \in Nat /\ Cutoff \in Nat
        BY CutoffType
      <3> QED
        BY <3>1 DEF HitsBy, Least
    <2> HIDE DEF hits
    <2>2. f \in Injection(hits, relevant)
      BY <2>1 DEF Injection, IsInjective
    <2> QED
      BY <2>2, FS_Injection
  <1>3. Cutoff \in Nat /\ Cardinality(relevant) \in Nat
    BY CutoffType, FS_CardinalityType
  <1> HIDE DEF hits
  <1>4. /\ IdealHits(relevant) \in 0..Cutoff
        /\ Cardinality(hits) <= IdealHits(relevant)
    BY <1>1, <1>2, <1>3 DEF IdealHits
  <1>5. ideal = GainOf(IdealHits(relevant))
    BY DEF IdealGain, GainOf
  <1>6. GainOf(Cardinality(hits)) <= ideal /\ GainOf(Cardinality(hits)) \in Nat
    BY <1>1, <1>4, <1>5, GainsKeepOrder
  <1>7. /\ ideal \in Nat /\ (ideal = 0 <=> relevant = {})
        /\ dcg \in Nat
        /\ NdcgAtK(docs, relevant, Cutoff) =
              IF relevant = {} THEN 0 ELSE (dcg * Unit) \div ideal
    BY IdealGainIsPositive, NdcgIsARatio
  <1> HIDE DEF dcg, ideal
  <1>8. dcg <= ideal
    BY <1>1, <1>6, <1>7
  <1>9. relevant # {} => (dcg * Unit) \div ideal \in 0..Unit
    BY <1>7, <1>8, PartOverWhole
  <1> QED
    BY <1>7, <1>9, UnitPositive

(* The reciprocal rank is that of the cutoff, or larger, exactly if there  *)
(* is a hit by the cutoff.                                                 *)
LEMMA MrrSeesHits ==
    ASSUME NEW S, NEW docs \in Seq(S), NEW relevant
    PROVE  Hit(docs, relevant) <=> Mrr(docs, relevant) >= Unit \div Cutoff
  <1> DEFINE hits == {rank \in DOMAIN docs : docs[rank] \in relevant}
  <1>1. DOMAIN docs = 1..Len(docs) /\ Len(docs) \in Nat
    OBVIOUS
  <1>2. Mrr(docs, relevant) = IF hits = {} THEN 0 ELSE Unit \div Min(hits)
    BY DEF Mrr
  <1>3. Hit(docs, relevant) <=> \E rank \in hits : rank <= Cutoff
    BY <1>1 DEF Hit
  <1>4. hits \in SUBSET (Nat \ {0}) /\ IsFiniteSet(hits)
    <2>1. hits \in SUBSET (1..Len(docs)) /\ IsFiniteSet(1..Len(docs))
      BY <1>1, FS_Interval
    <2> HIDE DEF hits
    <2>2. 1..Len(docs) \in SUBSET (Nat \ {0})
      BY <1>1
    <2>3. IsFiniteSet(hits)
      BY <2>1, FS_Subset
    <2> QED
      BY <2>1, <2>2, <2>3
  <1> HIDE DEF hits
  <1>5. CASE hits = {}
    <2>1. Unit \div Cutoff \in Nat \ {0}
      BY EarlyRanks
    <2> QED
      BY <1>2, <1>3, <1>5, <2>1
  <1>6. CASE hits # {}
    <2>1. \E x \in hits : \A y \in hits : x <= y
      BY <1>4, <1>6, LeastExists
    <2>2. Min(hits) \in hits /\ \A y \in hits : Min(hits) <= y
      BY <2>1 DEF Min
    <2>3. Min(hits) \in Nat \ {0}
      BY <1>4, <2>2
    <2>4. Unit \div Min(hits) >= Unit \div Cutoff <=> Min(hits) <= Cutoff
      BY <2>3, EarlyRanks
    <2>5. (\E rank \in hits : rank <= Cutoff) <=> Min(hits) <= Cutoff
      BY <1>4, <2>2, <2>3, CutoffType
    <2> QED
      BY <1>2, <1>3, <1>6, <2>4, <2>5
  <1> QED
    BY <1>5, <1>6

-----------------------------------------------------------------------------
(* Scores of a setting *)

QueryScore(query, setting) == NdcgAtK(RankedDocs(query, setting), query.relevant, Cutoff)

(* The score of a query is a natural number. *)
LEMMA QueryScoreType ==
    ASSUME NEW query, IsQuery(query), NEW setting, IsSetting(setting)
    PROVE  QueryScore(query, setting) \in Nat
  <1> DEFINE docs == RankedDocs(query, setting)
             D == {c.doc : c \in query.candidates}
             relevant == query.relevant
  <1>1. docs \in Seq(D) /\ IsFiniteSet(relevant)
    BY DocsFollowTheRanking DEF IsQuery
  <1> HIDE DEF docs, D, relevant
  <1>2. NdcgAtK(docs, relevant, Cutoff) \in Nat
    BY <1>1, NdcgIsARatio
  <1> QED
    BY <1>2 DEF QueryScore, docs, relevant

(* Two rankings that agree as far as the first is kept. *)
LEMMA ScoresKeepOrder ==
    ASSUME NEW query, IsQuery(query), NEW s, IsSetting(s), NEW t, IsSetting(t),
           Least(Least(Len(Ranking(query, s)), s.top_k), Cutoff)
               <= Least(Least(Len(Ranking(query, t)), t.top_k), Cutoff),
           \A i \in 1..Least(Least(Len(Ranking(query, s)), s.top_k), Cutoff) :
               Ranking(query, s)[i] = Ranking(query, t)[i]
    PROVE  QueryScore(query, s) <= QueryScore(query, t)
  <1> DEFINE p == RankedDocs(query, s)
             q == RankedDocs(query, t)
             D == {c.doc : c \in query.candidates}
             relevant == query.relevant
             m == Least(Len(p), Cutoff)
             n == Least(Len(q), Cutoff)
  <1>1. /\ p \in Seq(D) /\ Len(p) = Least(Len(Ranking(query, s)), s.top_k)
        /\ \A i \in 1..Len(p) : p[i] = Ranking(query, s)[i].doc
        /\ q \in Seq(D) /\ Len(q) = Least(Len(Ranking(query, t)), t.top_k)
        /\ \A i \in 1..Len(q) : q[i] = Ranking(query, t)[i].doc
    BY DocsFollowTheRanking
  <1>2. IsFiniteSet(relevant)
    BY DEF IsQuery
  <1> HIDE DEF p, q, D, relevant
  <1>3. m <= n /\ \A i \in 1..m : Ranking(query, s)[i] = Ranking(query, t)[i]
    BY <1>1
  <1>4. Len(p) \in Nat /\ Len(q) \in Nat /\ Cutoff \in Nat
    BY <1>1, CutoffType
  <1>5. m \in Nat /\ n \in Nat /\ m <= Len(p) /\ n <= Len(q)
    BY <1>4 DEF Least
  <1> HIDE DEF m, n
  <1>6. \A i \in 1..m : p[i] = q[i]
    <2> SUFFICES ASSUME NEW i \in 1..m PROVE p[i] = q[i]
      OBVIOUS
    <2>1. i \in 1..Len(p) /\ i \in 1..Len(q)
      BY <1>3, <1>4, <1>5
    <2>2. Ranking(query, s)[i] = Ranking(query, t)[i]
      BY <1>3
    <2> QED
      BY <1>1, <2>1, <2>2
  <1>7. NdcgAtK(p, relevant, Cutoff) <= NdcgAtK(q, relevant, Cutoff)
    BY <1>1, <1>2, <1>3, <1>6, NdcgKeepsOrder DEF m, n
  <1> QED
    BY <1>7 DEF QueryScore, p, q, relevant

(* A query scores no less with a larger top_k, and the same from the       *)
(* cutoff on.                                                              *)
LEMMA LargerTopKScoresMore ==
    ASSUME NEW query, IsQuery(query), NEW s, IsSetting(s), NEW t, IsSetting(t),
           s.min_score = t.min_score, s.top_k <= t.top_k \/ Cutoff <= t.top_k
    PROVE  QueryScore(query, s) <= QueryScore(query, t)
  <1> DEFINE r == Ranking(query, s)
  <1>1. Ranking(query, t) = r
    BY DEF Ranking, High
  <1>2. Len(r) \in Nat
    BY RankingsAreSorted DEF IsRanking
  <1> HIDE DEF r
  <1>3. s.top_k \in Nat /\ t.top_k \in Nat /\ Cutoff \in Nat
    BY CutoffType DEF IsSetting
  <1>4. Least(Least(Len(r), s.top_k), Cutoff) <= Least(Least(Len(r), t.top_k), Cutoff)
    BY <1>2, <1>3 DEF Least
  <1> QED
    BY <1>1, <1>4, ScoresKeepOrder DEF r

(* A query scores no more with a higher minimum. *)
LEMMA HigherMinimumScoresLess ==
    ASSUME NEW query, IsQuery(query), NEW s, IsSetting(s), NEW t, IsSetting(t),
           s.top_k = t.top_k, NEW a \in Int, NEW b \in Int, a <= b,
           HasMinimum(s, a), HasMinimum(t, b)
    PROVE  QueryScore(query, t) <= QueryScore(query, s)
  <1> DEFINE p == Ranking(query, t)
             q == Ranking(query, s)
             n == Least(Least(Len(p), t.top_k), Cutoff)
  <1>1. Len(p) <= Len(q) /\ \A i \in 1..Len(p) : p[i] = q[i]
    BY ThresholdsCutTheEnd
  <1>2. Len(p) \in Nat /\ Len(q) \in Nat
    BY RankingsAreSorted DEF IsRanking
  <1> HIDE DEF p, q
  <1>3. s.top_k \in Nat /\ t.top_k \in Nat /\ Cutoff \in Nat
    BY CutoffType DEF IsSetting
  <1>4. /\ n <= Least(Least(Len(q), s.top_k), Cutoff)
        /\ n \in Nat /\ n <= Len(p)
    BY <1>1, <1>2, <1>3 DEF Least
  <1> HIDE DEF n
  <1>5. \A i \in 1..n : p[i] = q[i]
    BY <1>1, <1>2, <1>4
  <1> QED
    BY <1>4, <1>5, ScoresKeepOrder DEF p, q, n

-----------------------------------------------------------------------------
(* Rows *)

IsGolden(queries) == IsList(queries) /\ \A i \in DOMAIN queries : IsQuery(queries[i])

ScoresAt(queries, setting) == [i \in 1..Len(queries) |-> QueryScore(queries[i], setting)]
RowAt(queries, setting) == Mean(ScoresAt(queries, setting))

(* The scores of a setting are a list with one number per query, and its   *)
(* row is their mean.                                                      *)
LEMMA ScoresType ==
    ASSUME NEW queries, IsGolden(queries), NEW setting, IsSetting(setting)
    PROVE  /\ ScoresAt(queries, setting) \in Seq(Nat)
           /\ Len(ScoresAt(queries, setting)) = Len(queries) /\ Len(queries) \in Nat
           /\ \A i \in 1..Len(queries) :
                 ScoresAt(queries, setting)[i] = QueryScore(queries[i], setting)
           /\ RowAt(queries, setting) \in Nat
           /\ RowAt(queries, setting) =
                 IF Len(queries) = 0 THEN 0
                 ELSE Total(ScoresAt(queries, setting)) \div Len(queries)
  <1> DEFINE scoresAt == ScoresAt(queries, setting)
  <1>1. Len(queries) \in Nat /\ \A i \in 1..Len(queries) : QueryScore(queries[i], setting) \in Nat
    BY QueryScoreType DEF IsGolden, IsList
  <1>2. /\ scoresAt \in [1..Len(queries) -> Nat]
        /\ \A i \in 1..Len(queries) : scoresAt[i] = QueryScore(queries[i], setting)
    BY <1>1 DEF ScoresAt
  <1> HIDE DEF scoresAt
  <1>3. scoresAt \in Seq(Nat) /\ Len(scoresAt) = Len(queries)
    BY <1>1, <1>2
  <1>4. scoresAt = <<>> <=> Len(queries) = 0
    BY <1>1, <1>3
  <1>5. Mean(scoresAt) = IF Len(queries) = 0 THEN 0 ELSE Total(scoresAt) \div Len(queries)
    BY <1>3, <1>4 DEF Mean
  <1>6. Total(scoresAt) \in Nat
    BY <1>3, TotalHasParts
  <1>7. Len(queries) # 0 => Total(scoresAt) \div Len(queries) \in Nat
    BY <1>1, <1>6, DivisionKeepsOrder
  <1> QED
    BY <1>1, <1>2, <1>3, <1>5, <1>7 DEF scoresAt, RowAt

(* A setting that scores no less at any query has no smaller row. *)
LEMMA RowsKeepOrder ==
    ASSUME NEW queries, IsGolden(queries), NEW s, IsSetting(s), NEW t, IsSetting(t),
           \A i \in 1..Len(queries) :
               QueryScore(queries[i], s) <= QueryScore(queries[i], t)
    PROVE  RowAt(queries, s) <= RowAt(queries, t)
  <1> DEFINE u == ScoresAt(queries, s)
             v == ScoresAt(queries, t)
             n == Len(queries)
  <1>1. /\ u \in Seq(Nat) /\ Len(u) = n /\ n \in Nat
        /\ \A i \in 1..n : u[i] = QueryScore(queries[i], s)
        /\ RowAt(queries, s) = IF n = 0 THEN 0 ELSE Total(u) \div n
    BY ScoresType
  <1>2. /\ v \in Seq(Nat) /\ Len(v) = n
        /\ \A i \in 1..n : v[i] = QueryScore(queries[i], t)
        /\ RowAt(queries, t) = IF n = 0 THEN 0 ELSE Total(v) \div n
    BY ScoresType
  <1>3. \A i \in 1..n : u[i] <= v[i]
    BY <1>1, <1>2
  <1> HIDE DEF u, v, n
  <1>4. Total(u) \in Nat /\ Total(v) \in Nat /\ Total(u) <= Total(v)
    BY <1>1, <1>2, <1>3, TotalsKeepOrder
  <1>5. n # 0 => Total(u) \div n <= Total(v) \div n
    BY <1>1, <1>4, DivisionKeepsOrder
  <1> QED
    BY <1>1, <1>2, <1>5

(* The first of the best rows is one. *)
LEMMA FirstBestExists ==
    ASSUME rows \in Seq(Nat), rows # <<>>
    PROVE  /\ FirstBest \in DOMAIN rows
           /\ \A j \in DOMAIN rows : rows[j] <= rows[FirstBest]
           /\ \A j \in 1..(FirstBest - 1) : rows[j] < rows[FirstBest]
  <1> DEFINE R == {rows[i] : i \in 1..Len(rows)}
  <1>1. /\ Len(rows) \in Nat \ {0} /\ DOMAIN rows = 1..Len(rows)
        /\ \A i \in 1..Len(rows) : rows[i] \in Nat
    OBVIOUS
  <1>2. R \in SUBSET Int /\ IsFiniteSet(R) /\ R # {}
    <2>1. R \in SUBSET Int
      BY <1>1
    <2>2. [i \in 1..Len(rows) |-> rows[i]] \in Surjection(1..Len(rows), R)
      BY DEF Surjection
    <2>3. IsFiniteSet(1..Len(rows)) /\ 1 \in 1..Len(rows)
      BY <1>1, FS_Interval
    <2>4. R # {}
      BY <2>3
    <2> HIDE DEF R
    <2> QED
      BY <2>1, <2>2, <2>3, <2>4, FS_Surjection
  <1>3. PICK v \in R : \A w \in R : v >= w
    <2> HIDE DEF R
    <2> QED
      BY <1>2, GreatestExists
  <1> DEFINE B == {i \in 1..Len(rows) : rows[i] = v}
  <1>4. B \in SUBSET Int /\ IsFiniteSet(B) /\ B # {}
    <2>1. B \in SUBSET (1..Len(rows)) /\ B # {}
      OBVIOUS
    <2> HIDE DEF B
    <2>2. IsFiniteSet(1..Len(rows)) /\ 1..Len(rows) \in SUBSET Int
      BY <1>1, FS_Interval
    <2> QED
      BY <2>1, <2>2, FS_Subset
  <1>5. PICK i \in B : \A j \in B : i <= j
    <2> HIDE DEF B
    <2> QED
      BY <1>4, LeastExists
  <1>6. i \in DOMAIN rows /\ rows[i] = v
    BY <1>1
  <1>7. \A j \in DOMAIN rows : rows[j] <= rows[i]
    BY <1>1, <1>3, <1>6
  <1>8. ASSUME NEW j \in 1..(i - 1) PROVE rows[j] < rows[i]
    <2>1. j \in 1..Len(rows) /\ j < i
      BY <1>1, <1>6
    <2>2. rows[j] # v
      BY <1>5, <2>1
    <2> QED
      BY <1>1, <1>6, <1>7, <2>1, <2>2
  <1> HIDE DEF B, R
  <1> QED
    BY <1>6, <1>7, <1>8 DEF FirstBest

-----------------------------------------------------------------------------
(* The walk of the tuner *)

(* What a job is run on stays what it was: golden queries, and settings    *)
(* that differ from the first in the value the tool walks over.            *)
JobInputs ==
    /\ IsGolden(golden)
    /\ \/ tool = "none" /\ grid = <<>>
       \/ /\ tool = "grid_search"
          /\ \E topKs \in TopKGrids :
                grid = [i \in DOMAIN topKs |-> [Baseline EXCEPT !.top_k = topKs[i]]]
       \/ /\ tool = "threshold_sweep"
          /\ grid = [i \in DOMAIN MinScoreGrid |->
                        [top_k |-> SweepTopK, min_score |-> {MinScoreGrid[i]}]]

(* A setting of the grid, with the value it is in the grid for. *)
TopKSetting(setting) ==
    IsSetting(setting) /\ setting.min_score = Baseline.min_score
MinScoreSetting(setting, low) ==
    IsSetting(setting) /\ setting.top_k = SweepTopK /\ HasMinimum(setting, low)

(* Every setting of a grid is one, and has the value it is there for. *)
LEMMA GridSettings ==
    ASSUME JobInputs
    PROVE  /\ Len(grid) \in Nat /\ DOMAIN grid = 1..Len(grid)
           /\ \A i \in DOMAIN grid : IsSetting(grid[i])
           /\ tool = "grid_search" => \A i \in DOMAIN grid : TopKSetting(grid[i])
           /\ tool = "threshold_sweep" =>
                 /\ DOMAIN grid = DOMAIN MinScoreGrid
                 /\ \A i \in DOMAIN grid :
                       MinScoreGrid[i] \in Int /\ MinScoreSetting(grid[i], MinScoreGrid[i])
  <1>1. CASE tool = "none" /\ grid = <<>>
    BY <1>1
  <1>2. CASE tool = "grid_search"
    <2>1. PICK topKs \in TopKGrids :
             grid = [i \in DOMAIN topKs |-> [Baseline EXCEPT !.top_k = topKs[i]]]
      BY <1>2 DEF JobInputs
    <2>2. /\ Len(topKs) \in Nat /\ DOMAIN topKs = 1..Len(topKs)
          /\ \A i \in DOMAIN topKs : topKs[i] \in Nat
      BY GridsType
    <2>3. Len(grid) = Len(topKs)
      BY <2>1, <2>2, LengthOfMap
    <2>4. \A i \in DOMAIN topKs : TopKSetting([Baseline EXCEPT !.top_k = topKs[i]])
      BY <2>2, BaselineType DEF TopKSetting, IsSetting
    <2>5. \A i \in DOMAIN grid : TopKSetting(grid[i])
      BY <2>1, <2>4
    <2> QED
      BY <1>2, <2>1, <2>2, <2>3, <2>5 DEF TopKSetting
  <1>3. CASE tool = "threshold_sweep"
    <2>1. grid = [i \in DOMAIN MinScoreGrid |->
                     [top_k |-> SweepTopK, min_score |-> {MinScoreGrid[i]}]]
      BY <1>3 DEF JobInputs
    <2>2. /\ Len(MinScoreGrid) \in Nat /\ DOMAIN MinScoreGrid = 1..Len(MinScoreGrid)
          /\ \A i \in DOMAIN MinScoreGrid : MinScoreGrid[i] \in Int
      BY GridsType
    <2>3. Len(grid) = Len(MinScoreGrid)
      BY <2>1, <2>2, LengthOfMap
    <2>4. ASSUME NEW low \in Int
          PROVE  MinScoreSetting([top_k |-> SweepTopK, min_score |-> {low}], low)
      BY GridsType DEF MinScoreSetting, IsSetting, HasMinimum
    <2>5. \A i \in DOMAIN grid : MinScoreSetting(grid[i], MinScoreGrid[i])
      BY <2>1, <2>2, <2>4
    <2> QED
      BY <1>3, <2>1, <2>2, <2>3, <2>5 DEF MinScoreSetting
  <1> QED
    BY <1>1, <1>2, <1>3 DEF JobInputs

(* A job starts with what it is run on. *)
LEMMA InputsStart == Init => JobInputs
  <1> SUFFICES ASSUME Init PROVE JobInputs
    OBVIOUS
  <1>1. CASE Judge
    <2>1. golden = <<>> /\ tool = "none" /\ grid = <<>>
      BY <1>1 DEF Judge, TunerInit
    <2>2. IsGolden(<<>>)
      BY DEF IsGolden, IsList
    <2> QED
      BY <2>1, <2>2 DEF JobInputs
  <1>2. CASE Tune
    <2>1. PICK queries \in GoldenSets :
             \/ \E topKs \in TopKGrids :
                   TunerInit("grid_search", queries,
                             [i \in DOMAIN topKs |-> [Baseline EXCEPT !.top_k = topKs[i]]])
             \/ TunerInit("threshold_sweep", queries,
                          [i \in DOMAIN MinScoreGrid |->
                              [top_k |-> SweepTopK, min_score |-> {MinScoreGrid[i]}]])
      BY <1>2 DEF Tune
    <2>2. IsGolden(queries)
      BY GoldenSetsType DEF IsGolden
    <2> QED
      BY <2>1, <2>2 DEF TunerInit, JobInputs
  <1> QED
    BY <1>1, <1>2 DEF Init

(* No step changes what a job is run on. *)
LEMMA InputsStay == JobInputs /\ [Next]_vars => JobInputs'
  <1>1. [Next]_vars => UNCHANGED <<tool, golden, grid>>
    BY DEF Next, TunerNext, ScoreQuery, ClosePoint, TunerReturns, TunerRaises
  <1> QED
    BY <1>1 DEF JobInputs

(* Each row is the mean score of its setting, and the scores so far are    *)
(* those of the setting whose row is next.                                 *)
RowsInv ==
    /\ rows \in Seq(Nat) /\ scores \in Seq(Nat)
    /\ Len(rows) <= Len(grid) /\ Len(scores) <= Len(golden)
    /\ \A i \in 1..Len(rows) : rows[i] = RowAt(golden, grid[i])
    /\ Len(rows) < Len(grid) =>
          \A i \in 1..Len(scores) : scores[i] = QueryScore(golden[i], grid[Len(rows) + 1])
    /\ tuner = "returned" => Len(rows) = Len(grid)
    /\ tuner = "returned" /\ tool = "grid_search" => rows # <<>> /\ best = FirstBest

(* A walk starts without rows and scores. *)
LEMMA RowsStart == Init => RowsInv
  <1> SUFFICES ASSUME Init PROVE RowsInv
    OBVIOUS
  <1>1. JobInputs
    BY InputsStart
  <1>2. Len(grid) \in Nat /\ Len(golden) \in Nat
    BY <1>1, GridSettings DEF JobInputs, IsGolden, IsList
  <1>3. rows = <<>> /\ scores = <<>> /\ tuner \in {"idle", "running"}
    BY DEF Init, Judge, Tune, TunerInit
  <1>4. /\ <<>> \in Seq(Nat) /\ Len(<<>>) = 0
    OBVIOUS
  <1> QED
    BY <1>2, <1>3, <1>4 DEF RowsInv

(* A query scored adds its score, a point closed the mean of its scores. *)
LEMMA RowsStep == JobInputs /\ RowsInv /\ (TunerNext \/ UNCHANGED tunerVars) => RowsInv'
  <1> SUFFICES ASSUME JobInputs, RowsInv, TunerNext \/ UNCHANGED tunerVars PROVE RowsInv'
    OBVIOUS
  <1>1. /\ Len(grid) \in Nat /\ DOMAIN grid = 1..Len(grid)
        /\ \A i \in 1..Len(grid) : IsSetting(grid[i])
        /\ IsGolden(golden) /\ Len(golden) \in Nat
        /\ \A i \in 1..Len(golden) : IsQuery(golden[i])
    BY GridSettings DEF JobInputs, IsGolden, IsList
  <1>2. /\ rows \in Seq(Nat) /\ scores \in Seq(Nat)
        /\ Len(rows) \in Nat /\ Len(scores) \in Nat
    BY DEF RowsInv
  <1>3. CASE ScoreQuery
    <2> DEFINE next == Len(rows) + 1
               x == QueryScore(golden[Len(scores) + 1], grid[next])
    <2>1. /\ tuner = "running" /\ next <= Len(grid) /\ Len(scores) < Len(golden)
          /\ scores' = Append(scores, x)
          /\ UNCHANGED <<tool, golden, grid, rows, best, tuner>>
      BY <1>3 DEF ScoreQuery, Point, QueryScore
    <2>2. x \in Nat
      <3>1. Len(scores) + 1 \in 1..Len(golden) /\ next \in 1..Len(grid)
        BY <1>1, <1>2, <2>1
      <3> QED
        BY <1>1, <3>1, QueryScoreType
    <2> HIDE DEF x
    <2>3. /\ scores' \in Seq(Nat) /\ Len(scores') = Len(scores) + 1
          /\ \A i \in 1..Len(scores) : scores'[i] = scores[i]
          /\ scores'[Len(scores) + 1] = x
      BY <1>2, <2>1, <2>2
    <2>4. \A i \in 1..Len(scores) : scores[i] = QueryScore(golden[i], grid[next])
      BY <1>1, <1>2, <2>1 DEF RowsInv
    <2>5. \A i \in 1..Len(scores') : scores'[i] = QueryScore(golden[i], grid[next])
      <3>1. \A i \in 1..Len(scores') : i \in 1..Len(scores) \/ i = Len(scores) + 1
        BY <1>2, <2>3
      <3> QED
        BY <2>3, <2>4, <3>1 DEF x
    <2> QED
      BY <1>1, <1>2, <2>1, <2>3, <2>5 DEF RowsInv
  <1>4. CASE ClosePoint
    <2> DEFINE next == Len(rows) + 1
    <2>1. /\ tuner = "running" /\ next <= Len(grid) /\ Len(scores) = Len(golden)
          /\ rows' = Append(rows, Mean(scores)) /\ scores' = <<>>
          /\ UNCHANGED <<tool, golden, grid, best, tuner>>
      BY <1>4 DEF ClosePoint, Point
    <2>2. next \in 1..Len(grid) /\ IsSetting(grid[next])
      BY <1>1, <1>2, <2>1
    <2>3. scores = ScoresAt(golden, grid[next])
      <3>1. \A i \in 1..Len(golden) : scores[i] = QueryScore(golden[i], grid[next])
        BY <1>1, <1>2, <2>1 DEF RowsInv
      <3>2. scores = [i \in 1..Len(golden) |-> scores[i]]
        BY <1>2, <2>1
      <3> QED
        BY <3>1, <3>2 DEF ScoresAt
    <2>4. Mean(scores) = RowAt(golden, grid[next]) /\ Mean(scores) \in Nat
      <3>1. RowAt(golden, grid[next]) \in Nat
        BY <1>1, <2>2, ScoresType
      <3> QED
        BY <2>3, <3>1 DEF RowAt
    <2> DEFINE row == Mean(scores)
    <2> HIDE DEF row
    <2>5. row \in Nat /\ row = RowAt(golden, grid[next]) /\ rows' = Append(rows, row)
      BY <2>1, <2>4 DEF row
    <2>6. /\ rows' \in Seq(Nat) /\ Len(rows') = next
          /\ \A i \in 1..Len(rows) : rows'[i] = rows[i]
          /\ rows'[next] = row
      BY <1>2, <2>5
    <2>7. \A i \in 1..Len(rows') : rows'[i] = RowAt(golden, grid[i])
      <3>1. \A i \in 1..Len(rows') : i \in 1..Len(rows) \/ i = next
        BY <1>2, <2>6
      <3>2. \A i \in 1..Len(rows) : rows[i] = RowAt(golden, grid[i])
        BY DEF RowsInv
      <3> QED
        BY <2>5, <2>6, <3>1, <3>2
    <2>8. scores' \in Seq(Nat) /\ Len(scores') = 0
      BY <2>1
    <2> QED
      BY <1>1, <2>1, <2>6, <2>7, <2>8 DEF RowsInv
  <1>5. CASE TunerReturns
    <2>1. /\ Len(rows) + 1 > Len(grid) /\ tuner' \in {"raised", "returned"}
          /\ tool = "grid_search" /\ tuner' = "returned" => rows # <<>> /\ best' = FirstBest
          /\ UNCHANGED <<tool, golden, grid, scores, rows>>
      BY <1>5 DEF TunerReturns, Point
    <2>2. Len(rows) = Len(grid)
      BY <1>1, <1>2, <2>1 DEF RowsInv
    <2>3. FirstBest' = FirstBest
      BY <2>1 DEF FirstBest
    <2> QED
      BY <2>1, <2>2, <2>3 DEF RowsInv
  <1>6. CASE TunerRaises
    <2>1. tuner' = "raised" /\ UNCHANGED <<tool, golden, grid, scores, rows, best>>
      BY <1>6 DEF TunerRaises
    <2> QED
      BY <2>1 DEF RowsInv
  <1>7. CASE UNCHANGED tunerVars
    <2>1. FirstBest' = FirstBest
      BY <1>7 DEF FirstBest
    <2> QED
      BY <1>7, <2>1 DEF RowsInv
  <1> QED
    BY <1>3, <1>4, <1>5, <1>6, <1>7 DEF TunerNext

(* In every reachable state of an offline job its inputs are what it was   *)
(* started on, and each row of a walk is the mean score of its setting     *)
(* (grid_search and threshold_sweep of RerankerTuner).                     *)
THEOREM TunerInvariance == Spec => [](JobInputs /\ RowsInv)
  <1>1. JobInputs /\ RowsInv /\ [Next]_vars => (JobInputs /\ RowsInv)'
    BY InputsStay, RowsStep DEF Next
  <1> QED
    BY InputsStart, RowsStart, <1>1, PTL DEF Spec

-----------------------------------------------------------------------------
(* What the metrics and the rows agree on *)

(* Whatever is ranked with whatever setting, nDCG, recall and precision    *)
(* are positive exactly if a relevant document is in the top, and the      *)
(* reciprocal rank is at least that of the cutoff exactly then: a first    *)
(* hit past the cutoff leaves it positive with the others zero.  Recall    *)
(* and precision are at most one, and so is nDCG if no document is ranked  *)
(* twice (ndcg_at_k, recall_at_k, precision_at_k, mrr).                    *)
THEOREM MetricsSafe == Spec => []MetricsAgree
  <1>1. JobInputs => MetricsAgree
    <2> SUFFICES ASSUME JobInputs, NEW a \in DOMAIN golden, NEW b \in DOMAIN grid
                 PROVE  LET relevant == golden[a].relevant
                            docs == RankedDocs(golden[a], grid[b])
                            found == Found(docs, relevant, Cutoff) # {}
                        IN  /\ found <=> NdcgAtK(docs, relevant, Cutoff) > 0
                            /\ found <=> RecallAtK(docs, relevant, Cutoff) > 0
                            /\ found <=> PrecisionAtK(docs, relevant, Cutoff) > 0
                            /\ found <=> Mrr(docs, relevant) >= Unit \div Cutoff
                            /\ RecallAtK(docs, relevant, Cutoff) <= Unit
                            /\ PrecisionAtK(docs, relevant, Cutoff) <= Unit
                            /\ Cardinality({docs[n] : n \in DOMAIN docs}) = Len(docs)
                                  => NdcgAtK(docs, relevant, Cutoff) <= Unit
      BY DEF MetricsAgree
    <2> DEFINE query == golden[a]
               relevant == query.relevant
               docs == RankedDocs(query, grid[b])
               found == Found(docs, relevant, Cutoff)
               D == {c.doc : c \in query.candidates}
    <2>1. IsQuery(query) /\ IsSetting(grid[b])
      BY GridSettings DEF JobInputs, IsGolden
    <2>2. /\ docs \in Seq(D)
          /\ IsFiniteSet(relevant) /\ Cardinality(relevant) <= Unit
      <3> HIDE DEF query
      <3> QED
        BY <2>1, DocsFollowTheRanking DEF IsQuery
    <2> HIDE DEF query, relevant, docs, D
    <2>3. /\ Cutoff \in Nat \ {0} /\ Cutoff <= Unit
      <3>1. Cutoff \in Nat \ {0} /\ Cutoff * (Cutoff + 1) <= Unit /\ Unit \in Nat
        BY CutoffType, UnitResolves, UnitPositive, DiscountDecreases
      <3>2. Cutoff * (Cutoff + 1) >= Cutoff
        BY <3>1
      <3>3. Cutoff * (Cutoff + 1) \in Nat
        BY <3>1
      <3> QED
        BY <3>1, <3>2, <3>3
    <2>4. /\ found # {} <=> Hit(docs, relevant)
          /\ IsFiniteSet(found) /\ Cardinality(found) \in Nat
          /\ Cardinality(found) = 0 <=> found = {}
      BY <2>2, FoundIsAHit
    <2>5. /\ Hit(docs, relevant) <=> NdcgAtK(docs, relevant, Cutoff) > 0
          /\ Hit(docs, relevant) <=> Mrr(docs, relevant) >= Unit \div Cutoff
      BY <2>2, NdcgSeesHits, MrrSeesHits
    <2>6. /\ RecallAtK(docs, relevant, Cutoff) \in 0..Unit
          /\ PrecisionAtK(docs, relevant, Cutoff) \in 0..Unit
      BY <2>2, <2>3, SharesAreBounded
    <2>7. found # {} <=> RecallAtK(docs, relevant, Cutoff) > 0
      <3>1. CASE relevant = {}
        <4>1. found = {}
          BY <3>1 DEF Found
        <4> QED
          BY <3>1, <4>1 DEF RecallAtK
      <3>2. CASE relevant # {}
        <4>1. Cardinality(relevant) \in Nat \ {0}
          BY <2>2, <3>2, FS_CardinalityType, FS_EmptySet
        <4>2. RecallAtK(docs, relevant, Cutoff) =
                 (Cardinality(found) * Unit) \div Cardinality(relevant)
          BY <3>2 DEF RecallAtK
        <4> HIDE DEF found
        <4> QED
          BY <2>2, <2>4, <4>1, <4>2, ShareIsPositive
      <3> QED
        BY <3>1, <3>2
    <2>8. found # {} <=> PrecisionAtK(docs, relevant, Cutoff) > 0
      <3>1. PrecisionAtK(docs, relevant, Cutoff) = (Cardinality(found) * Unit) \div Cutoff
        BY <2>3 DEF PrecisionAtK
      <3> HIDE DEF found
      <3> QED
        BY <2>3, <2>4, <3>1, ShareIsPositive
    <2>9. ASSUME Cardinality({docs[n] : n \in DOMAIN docs}) = Len(docs)
          PROVE  NdcgAtK(docs, relevant, Cutoff) <= Unit
      <3> DEFINE N == 1..Len(docs)
                 T == {docs[n] : n \in N}
                 f == [n \in N |-> docs[n]]
      <3>1. Len(docs) \in Nat /\ DOMAIN docs = N
        BY <2>2
      <3>2. Cardinality(T) = Len(docs)
        BY <2>9, <3>1
      <3>3. f \in Surjection(N, T)
        BY DEF Surjection
      <3>4. IsFiniteSet(N) /\ Cardinality(N) = Len(docs)
        <4>1. IsFiniteSet(N) /\ Cardinality(N) = IF 1 > Len(docs) THEN 0 ELSE Len(docs) - 1 + 1
          BY <3>1, FS_Interval
        <4> QED
          BY <3>1, <4>1
      <3>5. f \in Injection(N, T)
        <4> HIDE DEF f, N, T
        <4> QED
          BY <3>2, <3>3, <3>4, FS_Surjection
      <3>6. \A i, j \in N : docs[i] = docs[j] => i = j
        BY <3>5 DEF Injection, IsInjective
      <3> QED
        BY <2>2, <3>6, NdcgIsAShare
    <2> QED
      BY <2>2, <2>4, <2>5, <2>6, <2>7, <2>8, <2>9, UnitPositive
         DEF found, docs, relevant, query
  <1> QED
    BY <1>1, TunerInvariance, PTL

(* Over a rising grid of top_k the rows never fall, and are equal from the *)
(* cutoff on; so the winner, the first best, is no later than the first    *)
(* setting that reaches the cutoff.                                        *)
LEMMA TopKWalk ==
    ASSUME JobInputs, RowsInv, tuner = "returned", tool = "grid_search",
           Ascending(LAMBDA c : c.top_k)
    PROVE  /\ \A i, j \in DOMAIN rows : i < j => rows[i] <= rows[j]
           /\ \A i \in DOMAIN rows :
                 /\ grid[i].top_k >= Cutoff => rows[i] = rows[Len(rows)] /\ best <= i
                 /\ rows[i] >= rows[best] => best <= i
  <1>1. /\ rows \in Seq(Nat) /\ rows # <<>> /\ best = FirstBest
        /\ Len(rows) = Len(grid) /\ DOMAIN rows = 1..Len(rows) /\ DOMAIN grid = 1..Len(grid)
        /\ Len(rows) \in Nat
        /\ \A i \in 1..Len(rows) : rows[i] = RowAt(golden, grid[i]) /\ rows[i] \in Nat
    BY GridSettings DEF RowsInv
  <1>2. /\ \A i \in DOMAIN grid : TopKSetting(grid[i])
        /\ \A i, j \in DOMAIN grid : i < j => grid[i].top_k < grid[j].top_k
    BY GridSettings DEF Ascending
  <1>3. IsGolden(golden) /\ \A i \in 1..Len(golden) : IsQuery(golden[i])
    BY DEF JobInputs, IsGolden, IsList
  <1>4. ASSUME NEW i \in DOMAIN grid, NEW j \in DOMAIN grid,
               grid[i].top_k <= grid[j].top_k \/ Cutoff <= grid[j].top_k
        PROVE  rows[i] <= rows[j]
    <2>1. IsSetting(grid[i]) /\ IsSetting(grid[j]) /\ grid[i].min_score = grid[j].min_score
      BY <1>2 DEF TopKSetting
    <2>2. \A k \in 1..Len(golden) :
             QueryScore(golden[k], grid[i]) <= QueryScore(golden[k], grid[j])
      BY <1>3, <1>4, <2>1, LargerTopKScoresMore
    <2>3. RowAt(golden, grid[i]) <= RowAt(golden, grid[j])
      BY <1>3, <2>1, <2>2, RowsKeepOrder
    <2> QED
      BY <1>1, <2>3
  <1>5. \A i \in DOMAIN grid : grid[i].top_k \in Nat
    BY <1>2 DEF TopKSetting, IsSetting
  <1>6. /\ best \in DOMAIN rows
        /\ \A j \in DOMAIN rows : rows[j] <= rows[best]
        /\ \A j \in 1..(best - 1) : rows[j] < rows[best]
    BY <1>1, FirstBestExists
  <1>7. ASSUME NEW i \in DOMAIN rows, rows[i] >= rows[best] PROVE best <= i
    <2> SUFFICES ASSUME i < best PROVE FALSE
      BY <1>1, <1>6
    <2>1. i \in 1..(best - 1)
      BY <1>1, <1>6
    <2> QED
      BY <1>1, <1>6, <1>7, <2>1
  <1>8. ASSUME NEW i \in DOMAIN rows, NEW j \in DOMAIN rows, i < j PROVE rows[i] <= rows[j]
    <2>1. grid[i].top_k < grid[j].top_k
      BY <1>1, <1>2, <1>8
    <2>2. grid[i].top_k <= grid[j].top_k
      BY <1>1, <1>5, <2>1
    <2> QED
      BY <1>1, <1>4, <2>2
  <1>9. ASSUME NEW i \in DOMAIN rows, grid[i].top_k >= Cutoff
        PROVE  rows[i] = rows[Len(rows)] /\ best <= i
    <2>1. i \in DOMAIN grid /\ Cutoff <= grid[i].top_k /\ Cutoff \in Nat
      BY <1>1, <1>5, <1>9, CutoffType
    <2>2. \A j \in DOMAIN rows : rows[j] <= rows[i]
      BY <1>1, <1>4, <2>1
    <2>3. Len(rows) \in DOMAIN rows /\ (i = Len(rows) \/ i < Len(rows))
      BY <1>1
    <2>4. rows[i] <= rows[Len(rows)]
      BY <1>1, <1>8, <2>3
    <2>5. rows[i] = rows[Len(rows)]
      BY <1>1, <2>2, <2>3, <2>4
    <2>6. rows[i] >= rows[best]
      BY <1>1, <1>6, <2>2
    <2> QED
      BY <1>7, <2>5, <2>6
  <1> QED
    BY <1>7, <1>8, <1>9

(* Over rising thresholds the rows never rise. *)
LEMMA MinScoreWalk ==
    ASSUME JobInputs, RowsInv, tuner = "returned", tool = "threshold_sweep", Ascending(Low)
    PROVE  \A i, j \in DOMAIN rows : i < j => rows[j] <= rows[i]
  <1>1. /\ rows \in Seq(Nat)
        /\ Len(rows) = Len(grid) /\ DOMAIN rows = 1..Len(rows) /\ DOMAIN grid = 1..Len(grid)
        /\ \A i \in 1..Len(rows) : rows[i] = RowAt(golden, grid[i])
    BY GridSettings DEF RowsInv
  <1>2. /\ \A i \in DOMAIN grid :
              MinScoreGrid[i] \in Int /\ MinScoreSetting(grid[i], MinScoreGrid[i])
        /\ \A i, j \in DOMAIN grid : i < j => Low(grid[i]) < Low(grid[j])
    BY GridSettings DEF Ascending
  <1>3. IsGolden(golden) /\ \A i \in 1..Len(golden) : IsQuery(golden[i])
    BY DEF JobInputs, IsGolden, IsList
  <1>4. \A i \in DOMAIN grid : Low(grid[i]) = MinScoreGrid[i]
    BY <1>2 DEF Low, MinScoreSetting, HasMinimum
  <1>5. ASSUME NEW i \in DOMAIN rows, NEW j \in DOMAIN rows, i < j PROVE rows[j] <= rows[i]
    <2> DEFINE a == MinScoreGrid[i]
               b == MinScoreGrid[j]
    <2>1. i \in DOMAIN grid /\ j \in DOMAIN grid
      BY <1>1
    <2>2. /\ IsSetting(grid[i]) /\ HasMinimum(grid[i], a) /\ a \in Int
          /\ IsSetting(grid[j]) /\ HasMinimum(grid[j], b) /\ b \in Int
          /\ grid[i].top_k = grid[j].top_k
      BY <1>2, <2>1 DEF MinScoreSetting
    <2>3. a <= b
      BY <1>2, <1>4, <1>5, <2>1
    <2> HIDE DEF a, b
    <2>4. \A k \in 1..Len(golden) :
             QueryScore(golden[k], grid[j]) <= QueryScore(golden[k], grid[i])
      BY <1>3, <2>2, <2>3, HigherMinimumScoresLess
    <2>5. RowAt(golden, grid[j]) <= RowAt(golden, grid[i])
      BY <1>3, <2>2, <2>4, RowsKeepOrder
    <2> QED
      BY <1>1, <2>5
  <1> QED
    BY <1>5

(* A rising grid is tuned to the smallest top_k of those that rank best,   *)
(* and to none past the first that reaches the cutoff: nDCG@k cannot see   *)
(* what more a larger one keeps.  Rising thresholds never gain             *)
(* (RerankerTuner.grid_search, threshold_sweep).                           *)
THEOREM TuningSafe == Spec => []TunedTopKIsSmall
  <1>1. JobInputs /\ RowsInv => TunedTopKIsSmall
    BY TopKWalk, MinScoreWalk DEF TunedTopKIsSmall
  <1> QED
    BY <1>1, TunerInvariance, PTL

-----------------------------------------------------------------------------
(* Citations *)

(* The markers that the loop skips, and where a chunk is first marked. *)
Seen(markers, n) == \E m \in 1..(n - 1) : markers[m] = markers[n]
Cites(markers, results, n) == markers[n] \in DOMAIN results /\ ~Seen(markers, n)
FirstMarker(chunk, markers, results) ==
    CHOOSE i \in DOMAIN markers :
        /\ markers[i] \in DOMAIN results /\ results[markers[i]] = chunk
        /\ \A j \in 1..(i - 1) : markers[j] # markers[i]

(* A marker that cites a chunk is its first, since results do not repeat. *)
LEMMA FirstMarkerIsOne ==
    ASSUME NEW S, NEW results, IsRanking(results, S), NEW markers \in Seq(Nat),
           NEW n \in 1..Len(markers), Cites(markers, results, n)
    PROVE  FirstMarker(results[markers[n]], markers, results) = n
  <1> DEFINE IsFirst(i) == /\ markers[i] \in DOMAIN results
                           /\ results[markers[i]] = results[markers[n]]
                           /\ \A j \in 1..(i - 1) : markers[j] # markers[i]
             first == CHOOSE i \in DOMAIN markers : IsFirst(i)
  <1>1. DOMAIN markers = 1..Len(markers) /\ Len(markers) \in Nat
    OBVIOUS
  <1>2. IsFirst(n) /\ n \in DOMAIN markers
    BY <1>1 DEF Cites, Seen
  <1>3. first \in DOMAIN markers /\ IsFirst(first)
    BY <1>2
  <1>4. first = FirstMarker(results[markers[n]], markers, results)
    BY DEF FirstMarker
  <1> HIDE DEF first
  <1>5. markers[first] = markers[n]
    BY <1>2, <1>3 DEF IsRanking
  <1>6. ~(first < n) /\ ~(n < first)
    <2>1. first < n => first \in 1..(n - 1)
      BY <1>1, <1>3
    <2>2. n < first => n \in 1..(first - 1)
      BY <1>1, <1>3
    <2> QED
      BY <1>2, <1>3, <1>5, <2>1, <2>2
  <1> QED
    BY <1>1, <1>3, <1>4, <1>6

(* The loop has cited the chunks of the markers so far, in the order of    *)
(* their first markers.                                                    *)
HasCited(cited, markers, results, n) ==
    /\ {cited[i] : i \in DOMAIN cited} =
          {results[markers[m]] : m \in {k \in 1..n : markers[k] \in DOMAIN results}}
    /\ \A i \in DOMAIN cited : FirstMarker(cited[i], markers, results) \in 1..n
    /\ \A i, j \in DOMAIN cited :
          i < j => FirstMarker(cited[i], markers, results)
                       < FirstMarker(cited[j], markers, results)

(* One marker more of an answer: the parser cites its chunk unless it has  *)
(* cited it already or there is none.                                      *)
LEMMA CitesOneMore ==
    ASSUME NEW S, NEW results, IsRanking(results, S), NEW markers \in Seq(Nat),
           NEW n \in 1..Len(markers), NEW cited \in Seq(S),
           HasCited(cited, markers, results, n - 1)
    PROVE  HasCited(IF Cites(markers, results, n) THEN Append(cited, results[markers[n]])
                    ELSE cited, markers, results, n)
  <1> DEFINE First(chunk) == FirstMarker(chunk, markers, results)
             valid(m) == {k \in 1..m : markers[k] \in DOMAIN results}
             marked(m) == {results[markers[k]] : k \in valid(m)}
             chunk == results[markers[n]]
             more == Append(cited, chunk)
  <1>1. Len(markers) \in Nat /\ n \in Nat /\ \A i \in 1..(n - 1) : i \in 1..n /\ i < n
    OBVIOUS
  <1>2. /\ {cited[i] : i \in DOMAIN cited} = marked(n - 1)
        /\ \A i \in DOMAIN cited : First(cited[i]) \in 1..(n - 1)
        /\ \A i, j \in DOMAIN cited : i < j => First(cited[i]) < First(cited[j])
    BY DEF HasCited
  <1>3. valid(n) = IF markers[n] \in DOMAIN results THEN valid(n - 1) \cup {n} ELSE valid(n - 1)
    BY <1>1
  <1>4. CASE Cites(markers, results, n)
    <2>1. First(chunk) = n
      BY <1>4, FirstMarkerIsOne
    <2>2. chunk \in S
      BY <1>4 DEF Cites, IsRanking
    <2> HIDE DEF chunk
    <2>3. /\ DOMAIN cited = 1..Len(cited) /\ Len(cited) \in Nat
          /\ DOMAIN more = 1..(Len(cited) + 1)
          /\ \A i \in 1..Len(cited) : more[i] = cited[i]
          /\ more[Len(cited) + 1] = chunk
      BY <2>2
    <2>4. \A i \in DOMAIN more : i \in 1..Len(cited) \/ i = Len(cited) + 1
      BY <2>3
    <2> HIDE DEF more
    <2>5. {more[i] : i \in DOMAIN more} = marked(n)
      <3>1. {more[i] : i \in DOMAIN more} = {cited[i] : i \in DOMAIN cited} \cup {chunk}
        <4>1. Len(cited) + 1 \in DOMAIN more /\ \A i \in DOMAIN cited : i \in DOMAIN more
          BY <2>3
        <4> QED
          BY <2>3, <2>4, <4>1
      <3>2. marked(n) = marked(n - 1) \cup {chunk}
        BY <1>3, <1>4 DEF chunk, Cites
      <3> QED
        BY <1>2, <3>1, <3>2
    <2> HIDE DEF First, valid
    <2>6. \A i \in DOMAIN more : First(more[i]) \in 1..n
      <3> SUFFICES ASSUME NEW i \in DOMAIN more PROVE First(more[i]) \in 1..n
        OBVIOUS
      <3>1. CASE i \in 1..Len(cited)
        BY <1>1, <1>2, <2>3, <3>1
      <3>2. CASE i = Len(cited) + 1
        BY <1>1, <2>1, <2>3, <3>2
      <3> QED
        BY <2>4, <3>1, <3>2
    <2>7. ASSUME NEW i \in DOMAIN more, NEW j \in DOMAIN more, i < j
          PROVE  First(more[i]) < First(more[j])
      <3>1. i \in 1..Len(cited)
        BY <2>3, <2>7
      <3>2. CASE j \in 1..Len(cited)
        BY <1>2, <2>3, <2>7, <3>1, <3>2
      <3>3. CASE j = Len(cited) + 1
        <4>1. First(more[j]) = n /\ First(more[i]) \in 1..(n - 1)
          BY <1>2, <2>1, <2>3, <3>1, <3>3
        <4> QED
          BY <1>1, <4>1
      <3> QED
        BY <2>4, <3>2, <3>3
    <2>8. HasCited(more, markers, results, n)
      BY <2>5, <2>6, <2>7 DEF HasCited, First, valid
    <2> QED
      BY <1>4, <2>8 DEF more, chunk
  <1>5. CASE ~Cites(markers, results, n)
    <2>1. marked(n) = marked(n - 1)
      <3>1. CASE markers[n] \notin DOMAIN results
        BY <1>3, <3>1
      <3>2. CASE markers[n] \in DOMAIN results
        <4>1. PICK m \in 1..(n - 1) : markers[m] = markers[n]
          BY <1>5, <3>2 DEF Cites, Seen
        <4>2. m \in valid(n - 1) /\ results[markers[m]] = chunk
          BY <3>2, <4>1
        <4> HIDE DEF valid
        <4> QED
          BY <1>3, <3>2, <4>2
      <3> QED
        BY <3>1, <3>2
    <2>2. \A i \in DOMAIN cited : First(cited[i]) \in 1..n
      <3> HIDE DEF First
      <3> QED
        BY <1>1, <1>2
    <2> QED
      BY <1>2, <1>5, <2>1, <2>2 DEF HasCited
  <1> QED
    BY <1>4, <1>5

(* The parser walks over all markers. *)
LEMMA ParserCitesAll ==
    ASSUME NEW S, NEW results, IsRanking(results, S), NEW markers \in Seq(Nat)
    PROVE  /\ ParseCitations(markers, results) \in Seq(S)
           /\ HasCited(ParseCitations(markers, results), markers, results, Len(markers))
  <1> DEFINE N == Len(markers)
             More(cited, n) == IF Cites(markers, results, n)
                               THEN Append(cited, results[markers[n]]) ELSE cited
             IsWalk(f) == f = [n \in 0..N |-> IF n = 0 THEN <<>> ELSE More(f[n - 1], n)]
             IsParse(f) ==
                 f = [n \in 0..N |->
                         IF n = 0 THEN <<>>
                         ELSE IF \/ markers[n] \notin DOMAIN results
                                 \/ \E m \in 1..(n - 1) : markers[m] = markers[n]
                         THEN f[n - 1]
                         ELSE Append(f[n - 1], results[markers[n]])]
             walk == CHOOSE f : IsParse(f)
             step == [n \in 1..N |-> [cited \in Seq(S) |-> More(cited, n)]]
  <1>1. N \in Nat
    OBVIOUS
  <1>2. ParseCitations(markers, results) = walk[N]
    BY DEF ParseCitations
  <1>3. ASSUME NEW n \in 1..N, NEW cited \in Seq(S) PROVE More(cited, n) \in Seq(S)
    <2>1. CASE Cites(markers, results, n)
      <3>1. results[markers[n]] \in S
        BY <2>1 DEF Cites, IsRanking
      <3> QED
        BY <2>1, <3>1
    <2> QED
      BY <2>1
  <1>4. ASSUME NEW f PROVE IsParse(f) <=> IsWalk(f)
    BY DEF Cites, Seen
  <1> HIDE DEF N, More, IsParse
  <1>5. /\ step \in StepsOf(Seq(S), N)
        /\ \A n \in 1..N, cited \in Seq(S) : step[n][cited] = More(cited, n)
    BY <1>3 DEF StepsOf
  <1> HIDE DEF step
  <1>6. <<>> \in Seq(S)
    OBVIOUS
  <1>7. PICK f \in [0..N -> Seq(S)] : IsLoop(f, N, <<>>, step)
    <2> DEFINE V == Seq(S)
               empty == <<>>
    <2>1. empty \in V /\ step \in StepsOf(V, N)
      BY <1>5, <1>6
    <2> HIDE DEF V, empty
    <2>2. \E f \in [0..N -> V] : IsLoop(f, N, empty, step)
      BY <1>1, <2>1, LoopsHaveResults
    <2> QED
      BY <2>2 DEF V, empty
  <1>8. IsWalk(f)
    <2>1. ASSUME NEW n \in 1..N PROVE f[n] = More(f[n - 1], n)
      <3>1. f[n - 1] \in Seq(S)
        BY <1>1
      <3> QED
        BY <1>5, <1>7, <3>1 DEF IsLoop
    <2>2. \A n \in 0..N : n = 0 \/ n \in 1..N
      BY <1>1
    <2>3. \A n \in 0..N : f[n] = IF n = 0 THEN <<>> ELSE More(f[n - 1], n)
      BY <1>7, <2>1, <2>2 DEF IsLoop
    <2> QED
      BY <2>3
  <1>9. IsWalk(walk)
    <2>1. IsParse(f)
      BY <1>4, <1>8
    <2>2. IsParse(walk)
      BY <2>1
    <2> HIDE DEF walk
    <2> QED
      BY <1>4, <2>2
  <1> HIDE DEF walk
  <1>10. walk[0] = <<>> /\ \A n \in 1..N : walk[n] = More(walk[n - 1], n)
    BY <1>1, <1>9
  <1> DEFINE good == {n \in 0..N : walk[n] \in Seq(S) /\ HasCited(walk[n], markers, results, n)}
  <1>11. 0 \in good
    <2>1. 0 \in 0..N /\ walk[0] \in Seq(S)
      BY <1>1, <1>6, <1>10
    <2>2. DOMAIN <<>> = {} /\ 1..0 = {}
      OBVIOUS
    <2>3. HasCited(<<>>, markers, results, 0)
      BY <2>2 DEF HasCited
    <2> QED
      BY <1>10, <2>1, <2>3
  <1>12. ASSUME NEW n \in 1..N, n - 1 \in good PROVE n \in good
    <2>1. /\ walk[n - 1] \in Seq(S) /\ HasCited(walk[n - 1], markers, results, n - 1)
          /\ n \in 0..N /\ n \in 1..Len(markers)
      BY <1>1, <1>12 DEF N
    <2>2. More(walk[n - 1], n) \in Seq(S)
      BY <1>3, <2>1
    <2>3. HasCited(More(walk[n - 1], n), markers, results, n)
      BY <2>1, CitesOneMore DEF More
    <2> QED
      BY <1>10, <2>1, <2>2, <2>3
  <1> HIDE DEF good
  <1>13. \A n \in 1..N : n - 1 \in good => n \in good
    BY <1>12
  <1>14. \A n \in 0..N : n \in good
    BY <1>1, <1>11, <1>13, AlongAList
  <1>15. walk[N] \in Seq(S) /\ HasCited(walk[N], markers, results, N)
    BY <1>1, <1>14 DEF good
  <1> QED
    BY <1>2, <1>15 DEF N

(* What is retrieved for a query has each chunk once, and while an answer  *)
(* is judged its citations are what the parser made of it.                 *)
CitedInv ==
    /\ \A i \in 1..Len(contexts) : \E S : IsRanking(contexts[i], S)
    /\ phase \in {"judge", "repair"} =>
          /\ answer \in Seq(Nat)
          /\ citations = ParseCitations(answer, contexts[Current])

(* A batch starts without citations, over results that do not repeat. *)
LEMMA CitedStart == Init => CitedInv
  <1> SUFFICES ASSUME Init PROVE CitedInv
    OBVIOUS
  <1>1. phase \in {"idle", "answer"}
    BY DEF Init, Judge, Tune, JudgeInit
  <1>2. ASSUME NEW i \in 1..Len(contexts) PROVE \E S : IsRanking(contexts[i], S)
    <2>1. CASE Judge
      <3>1. PICK queries \in JudgedSets :
                contexts = [k \in DOMAIN queries |->
                               Rerank(queries[k].candidates, queries[k].score, Baseline)]
        BY <2>1 DEF Judge, JudgeInit
      <3>2. /\ Len(queries) \in Nat /\ DOMAIN queries = 1..Len(queries)
            /\ \A k \in DOMAIN queries : IsQuery(queries[k])
        BY GoldenSetsType DEF IsList
      <3>3. Len(contexts) = Len(queries)
        BY <3>1, <3>2, LengthOfMap
      <3>4. i \in DOMAIN queries
        BY <3>2, <3>3
      <3> DEFINE query == queries[i]
      <3>5. contexts[i] = Rerank(query.candidates, query.score, Baseline) /\ IsQuery(query)
        BY <3>1, <3>2, <3>4
      <3>6. IsSetting(Baseline)
        BY BaselineType DEF IsSetting
      <3> HIDE DEF query
      <3>7. IsRanking(Rerank(query.candidates, query.score, Baseline), query.candidates)
        BY <3>5, <3>6, RerankKeepsTheFirst
      <3> QED
        BY <3>5, <3>7
    <2>2. CASE Tune
      <3>1. contexts = <<>>
        BY <2>2 DEF Tune, JudgeInit
      <3> QED
        BY <3>1
    <2> QED
      BY <2>1, <2>2 DEF Init
  <1> QED
    BY <1>1, <1>2 DEF CitedInv

(* Citations change with the answer they are parsed from. *)
LEMMA CitedStep == CitedInv /\ [Next]_vars => CitedInv'
  <1> SUFFICES ASSUME CitedInv, [Next]_vars PROVE CitedInv'
    OBVIOUS
  <1>1. contexts' = contexts
    BY DEF Next, JudgeNext, Generate, GenerateFails, JudgeReplies, JudgeUnparseable,
           Conclude, JudgeRaises, BatchReturns
  <1>2. CASE Generate
    <2>1. answer' \in Answers /\ citations' = ParseCitations(answer', contexts[Current])
          /\ verdicts' = verdicts
      BY <1>2 DEF Generate
    <2>2. answer' \in Seq(Nat)
      BY <2>1, AnswersType
    <2> QED
      BY <1>1, <2>1, <2>2 DEF CitedInv, Current
  <1>3. CASE JudgeUnparseable
    <2>1. \/ phase = "judge" /\ UNCHANGED <<answer, citations, verdicts>>
          \/ phase' = "answer"
      BY <1>3 DEF JudgeUnparseable, Conclude
    <2> QED
      BY <1>1, <2>1 DEF CitedInv, Current
  <1>4. CASE GenerateFails \/ JudgeReplies \/ JudgeRaises \/ BatchReturns
    <2>1. phase' \notin {"judge", "repair"}
      BY <1>4 DEF GenerateFails, JudgeReplies, Conclude, JudgeRaises, BatchReturns
    <2> QED
      BY <1>1, <2>1 DEF CitedInv
  <1>5. CASE UNCHANGED judgeVars
    BY <1>5 DEF CitedInv, Current
  <1>6. CASE JudgeNext
    BY <1>2, <1>3, <1>4, <1>6 DEF JudgeNext
  <1>7. JudgeNext \/ UNCHANGED judgeVars
    BY DEF Next
  <1> QED
    BY <1>5, <1>6, <1>7

(* A list of distinct values is all its own. *)
LEMMA AllAreFaithful ==
    ASSUME NEW S, NEW cited \in Seq(S), NEW retrieved, \A i \in DOMAIN cited : cited[i] \in retrieved
    PROVE  CitationFaithfulness(cited, retrieved) = Unit
  <1> DEFINE n == Len(cited)
  <1>1. n \in Nat /\ DOMAIN cited = 1..n /\ (cited = <<>> <=> n = 0)
    OBVIOUS
  <1>2. {i \in DOMAIN cited : cited[i] \in retrieved} = 1..n
    BY <1>1
  <1> HIDE DEF n
  <1>3. Cardinality(1..n) = n
    <2>1. Cardinality(1..n) = IF 1 > n THEN 0 ELSE n - 1 + 1
      BY <1>1, FS_Interval
    <2> QED
      BY <1>1, <2>1
  <1>4. n # 0 => (n * Unit) \div n = Unit
    <2> SUFFICES ASSUME n # 0 PROVE (n * Unit) \div n = Unit
      OBVIOUS
    <2> DEFINE q == (n * Unit) \div n
               r == (n * Unit) % n
    <2>1. q \in Int /\ r \in 0..(n - 1) /\ n * Unit = n * q + r
      <3> DEFINE a == n * Unit
      <3>1. a \in Nat /\ n \in Nat \ {0}
        BY <1>1, UnitPositive
      <3> HIDE DEF a
      <3>2. /\ a \div n \in Int /\ a % n \in 0..(n - 1)
            /\ a = n * (a \div n) + (a % n)
        BY <3>1
      <3> QED
        BY <3>2 DEF a
    <2> HIDE DEF q, r
    <2>2. n * Unit = n * q + r /\ n * q \in Int /\ n * Unit \in Int
      BY <1>1, <2>1, UnitPositive
    <2>3. ~(q >= Unit + 1)
      <3> SUFFICES ASSUME q >= Unit + 1 PROVE FALSE
        OBVIOUS
      <3>1. n * q >= n * (Unit + 1) /\ n * (Unit + 1) = n * Unit + n
        BY <1>1, <2>1, UnitPositive
      <3> QED
        BY <1>1, <2>1, <2>2, <3>1
    <2>4. ~(q <= Unit - 1)
      <3> SUFFICES ASSUME q <= Unit - 1 PROVE FALSE
        OBVIOUS
      <3>1. n * q <= n * (Unit - 1) /\ n * (Unit - 1) = n * Unit - n
        BY <1>1, <2>1, UnitPositive
      <3> QED
        BY <1>1, <2>1, <2>2, <3>1
    <2> QED
      BY <2>1, <2>3, <2>4, UnitPositive DEF q
  <1> QED
    BY <1>1, <1>2, <1>3, <1>4 DEF CitationFaithfulness, n

(* Whatever numbers the model writes into its answer, the citations that   *)
(* are judged are the retrieved chunks it names, each once, in the order   *)
(* in which it first names them (CitationGenerator._parse_citations), and  *)
(* citation_faithfulness finds no fault with them.                         *)
THEOREM CitationsSafe == Spec => []CitationsAreGrounded
  <1>1. CitedInv /\ BatchInv => CitationsAreGrounded
    <2> SUFFICES ASSUME CitedInv, BatchInv, phase = "judge"
                 PROVE  CitationsAreGrounded
      BY DEF CitationsAreGrounded
    <2> DEFINE results == contexts[Current]
               First(chunk) == FirstMarker(chunk, answer, results)
    <2>1. Current \in 1..Len(contexts)
      <3>1. Len(verdicts) \in Nat /\ Len(verdicts) < Len(contexts) /\ Len(contexts) \in Nat
        BY DEF BatchInv
      <3> QED
        BY <3>1 DEF Current
    <2>2. PICK S : IsRanking(results, S)
      BY <2>1 DEF CitedInv
    <2>3. answer \in Seq(Nat) /\ citations = ParseCitations(answer, results)
      BY DEF CitedInv
    <2> HIDE DEF results
    <2>4. citations \in Seq(S) /\ HasCited(citations, answer, results, Len(answer))
      BY <2>2, <2>3, ParserCitesAll
    <2>5. DOMAIN answer = 1..Len(answer)
      BY <2>3
    <2>6. ToSet(citations) = {results[n] : n \in ToSet(answer) \cap DOMAIN results}
      BY <2>4, <2>5 DEF HasCited, ToSet
    <2>7. \A i, j \in DOMAIN citations : i < j => First(citations[i]) < First(citations[j])
      BY <2>4 DEF HasCited
    <2>8. CitationFaithfulness(citations, ToSet(results)) = Unit
      <3>1. \A i \in DOMAIN citations : citations[i] \in ToSet(results)
        BY <2>6 DEF ToSet
      <3> QED
        BY <2>4, <3>1, AllAreFaithful
    <2> QED
      BY <2>6, <2>7, <2>8 DEF CitationsAreGrounded, FirstMarker, results
  <1>2. CitedInv /\ BatchInv /\ [Next]_vars => (CitedInv /\ BatchInv)'
    BY CitedStep, BatchStep DEF Next
  <1> QED
    BY CitedStart, JobsStart, <1>1, <1>2, PTL DEF Spec

=============================================================================
