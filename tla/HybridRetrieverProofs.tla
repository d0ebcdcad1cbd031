------------------------- MODULE HybridRetrieverProofs -------------------------
(***************************************************************************)
(* Proofs about one query, for legs of any finite size with any integer    *)
(* scores, any weights and any cross-encoder: fusion keeps every order     *)
(* that the legs agree on, normalized or not; it keeps the copy of a hit   *)
(* that comparable scores prefer; and what the caller gets is the best of  *)
(* all candidates by the cross-encoder.                                    *)
(***************************************************************************)
EXTENDS HybridRetriever, ListProofs

-----------------------------------------------------------------------------
(* Ranks *)

(* Hits are totally ordered, by score and then by id. *)
LEMMA HitsAreOrdered ==
    ASSUME NEW leg, IsLeg(leg)
    PROVE  /\ \A x \in DOMAIN leg : ~Precedes(leg, x, x)
           /\ \A x, y \in DOMAIN leg : x = y \/ Precedes(leg, x, y) \/ Precedes(leg, y, x)
           /\ \A x, y, z \in DOMAIN leg :
                 Precedes(leg, x, y) /\ Precedes(leg, y, z) => Precedes(leg, x, z)
  <1>1. \A x \in DOMAIN leg : leg[x] \in Int /\ x \in Int
    BY DEF IsLeg
  <1> QED
    BY <1>1 DEF Precedes

(* A hit that comes before another one has the smaller rank. *)
LEMMA RanksFollowScores ==
    ASSUME NEW leg, IsLeg(leg), NEW x \in DOMAIN leg, NEW y \in DOMAIN leg,
           Precedes(leg, x, y)
    PROVE  Rank(leg, x) < Rank(leg, y)
  <1> DEFINE before(z) == {w \in DOMAIN leg : Precedes(leg, w, z)}
  <1>1. before(x) \subseteq before(y) /\ x \in before(y) /\ x \notin before(x)
    BY HitsAreOrdered
  <1>2. IsFiniteSet(before(y))
    <2>1. before(y) \in SUBSET DOMAIN leg /\ IsFiniteSet(DOMAIN leg)
      BY DEF IsLeg
    <2> QED
      BY <2>1, FS_Subset
  <1>3. /\ IsFiniteSet(before(x))
        /\ Cardinality(before(x)) <= Cardinality(before(y))
        /\ Cardinality(before(x)) # Cardinality(before(y))
    BY <1>1, <1>2, FS_Subset
  <1>4. Cardinality(before(x)) \in Nat /\ Cardinality(before(y)) \in Nat
    BY <1>2, <1>3, FS_CardinalityType
  <1> HIDE DEF before
  <1>5. Cardinality(before(x)) < Cardinality(before(y))
    BY <1>3, <1>4
  <1> QED
    BY <1>4, <1>5 DEF Rank, before

(* The ranks of a leg are 1 .. its length. *)
LEMMA RanksAreBounded ==
    ASSUME NEW leg, IsLeg(leg), Cardinality(DOMAIN leg) <= MaxRank,
           NEW x \in DOMAIN leg
    PROVE  Rank(leg, x) \in 1..MaxRank
  <1> DEFINE before == {w \in DOMAIN leg : Precedes(leg, w, x)}
  <1>1. before \in SUBSET DOMAIN leg /\ IsFiniteSet(DOMAIN leg) /\ x \notin before
    BY HitsAreOrdered DEF IsLeg
  <1>2. /\ IsFiniteSet(before)
        /\ Cardinality(before) <= Cardinality(DOMAIN leg)
        /\ Cardinality(before) # Cardinality(DOMAIN leg)
    BY <1>1, FS_Subset
  <1>3. Cardinality(before) \in Nat /\ Cardinality(DOMAIN leg) \in Nat
    BY <1>1, <1>2, FS_CardinalityType
  <1>4. Rank(leg, x) = 1 + Cardinality(before)
    BY DEF Rank
  <1> HIDE DEF before
  <1> QED
    BY <1>2, <1>3, <1>4, MaxRankNat

-----------------------------------------------------------------------------
(* Contributions *)

LEMMA ExactDivision ==
    ASSUME NEW s \in Nat \ {0}, NEW d \in Nat \ {0}, s % d = 0
    PROVE  /\ s \div d \in Nat \ {0}
           /\ s = d * (s \div d)
  <1>1. s \div d \in Int /\ s = d * (s \div d) + (s % d)
    BY SMT
  <1>2. s = d * (s \div d)
    BY <1>1
  <1> DEFINE q == s \div d
  <1>3. q \in Int /\ s = d * q
    BY <1>1, <1>2
  <1> HIDE DEF q
  <1>4. q > 0
    BY <1>3
  <1> QED
    BY <1>3, <1>4 DEF q

(* Of two factors of one product, the larger goes with the smaller. *)
LEMMA LargerFactor ==
    ASSUME NEW m \in Nat \ {0}, NEW n \in Nat \ {0},
           NEW p \in Nat \ {0}, NEW q \in Nat \ {0},
           m < n, m * p = n * q
    PROVE  p > q
  <1> SUFFICES ASSUME p <= q PROVE FALSE
    OBVIOUS
  <1>1. m * p <= m * q
    OBVIOUS
  <1>2. m * q < n * q
    OBVIOUS
  <1> QED
    BY <1>1, <1>2

(* The share of a rank is positive, and falls from rank to rank. *)
Share(rank) == Scale \div (RrfK + rank)

LEMMA SharesArePositive ==
    ASSUME NEW a \in 1..MaxRank
    PROVE  Share(a) \in Nat \ {0} /\ Scale = (RrfK + a) * Share(a)
  <1>1. /\ RrfK + a \in Nat \ {0}
        /\ Scale \in Nat \ {0} /\ Scale % (RrfK + a) = 0
    BY RrfKPositive, MaxRankNat, ScaleIsExact
  <1> QED
    BY <1>1, ExactDivision DEF Share

LEMMA SharesFall ==
    ASSUME NEW a \in 1..MaxRank, NEW b \in 1..MaxRank, a < b
    PROVE  Share(a) > Share(b)
  <1>1. /\ RrfK + a \in Nat \ {0} /\ RrfK + b \in Nat \ {0}
        /\ RrfK + a < RrfK + b
    BY RrfKPositive, MaxRankNat
  <1>2. /\ Share(a) \in Nat \ {0} /\ Share(b) \in Nat \ {0}
        /\ (RrfK + a) * Share(a) = (RrfK + b) * Share(b)
    BY SharesArePositive
  <1> QED
    BY <1>1, <1>2, LargerFactor

LEMMA ContributionsAreNumbers ==
    ASSUME NEW leg, IsLeg(leg), Cardinality(DOMAIN leg) <= MaxRank,
           NEW weight \in Nat, NEW x
    PROVE  Contribution(leg, weight, x) \in Nat
  <1>1. CASE x \in DOMAIN leg
    <2>1. Rank(leg, x) \in 1..MaxRank
      BY <1>1, RanksAreBounded
    <2>2. Share(Rank(leg, x)) \in Nat
      BY <2>1, SharesArePositive
    <2>3. \A n \in Nat : weight * n \in Nat
      OBVIOUS
    <2> QED
      BY <1>1, <2>2, <2>3 DEF Contribution, Share
  <1> QED
    BY <1>1 DEF Contribution

(* What a leg adds to a hit it does not put behind another one is no less  *)
(* than what it adds to the other; and more, if it prefers the hit and has *)
(* a weight.                                                               *)
LEMMA ContributionsFollowTheLeg ==
    ASSUME NEW leg, IsLeg(leg), Cardinality(DOMAIN leg) <= MaxRank,
           NEW weight \in Nat, NEW x, NEW y, x # y
    PROVE  /\ Contribution(leg, weight, x) \in Nat
           /\ ~LegPrefers(leg, y, x) =>
                 Contribution(leg, weight, x) >= Contribution(leg, weight, y)
           /\ LegPrefers(leg, x, y) /\ weight > 0 =>
                 Contribution(leg, weight, x) > Contribution(leg, weight, y)
  <1>1. \A z \in DOMAIN leg :
           /\ Rank(leg, z) \in 1..MaxRank
           /\ Share(Rank(leg, z)) \in Nat \ {0}
           /\ Contribution(leg, weight, z) = weight * Share(Rank(leg, z))
    BY RanksAreBounded, SharesArePositive DEF Contribution, Share
  <1>2. \A z : z \notin DOMAIN leg => Contribution(leg, weight, z) = 0
    BY DEF Contribution
  <1>3. \A p \in Nat \ {0} : weight * p \in Nat /\ (weight > 0 => weight * p > 0)
    OBVIOUS
  <1>4. \A z : Contribution(leg, weight, z) \in Nat
    BY <1>1, <1>2, <1>3
  <1>5. ASSUME x \in DOMAIN leg, y \in DOMAIN leg, Precedes(leg, x, y)
        PROVE  /\ Contribution(leg, weight, x) >= Contribution(leg, weight, y)
               /\ weight > 0 =>
                     Contribution(leg, weight, x) > Contribution(leg, weight, y)
    <2>1. Share(Rank(leg, x)) > Share(Rank(leg, y))
      BY <1>1, <1>5, RanksFollowScores, SharesFall
    <2>2. \A p, q \in Nat : p > q =>
             weight * p >= weight * q /\ (weight > 0 => weight * p > weight * q)
      OBVIOUS
    <2> QED
      BY <1>1, <1>5, <2>1, <2>2
  <1>6. ASSUME ~LegPrefers(leg, y, x)
        PROVE  Contribution(leg, weight, x) >= Contribution(leg, weight, y)
    <2>1. CASE y \notin DOMAIN leg
      BY <1>2, <1>4, <2>1
    <2>2. CASE y \in DOMAIN leg
      <3>1. x \in DOMAIN leg /\ Precedes(leg, x, y)
        BY <1>6, <2>2, HitsAreOrdered DEF LegPrefers
      <3> QED
        BY <1>5, <2>2, <3>1
    <2> QED
      BY <2>1, <2>2
  <1>7. ASSUME LegPrefers(leg, x, y), weight > 0
        PROVE  Contribution(leg, weight, x) > Contribution(leg, weight, y)
    <2>1. CASE y \notin DOMAIN leg
      BY <1>1, <1>2, <1>3, <1>7, <2>1 DEF LegPrefers
    <2>2. CASE y \in DOMAIN leg
      BY <1>5, <1>7, <2>2 DEF LegPrefers
    <2> QED
      BY <2>1, <2>2
  <1> QED
    BY <1>4, <1>6, <1>7

-----------------------------------------------------------------------------
(* Normalization *)

(* A finite, nonempty set of integers has a least and a greatest element.  *)
LEMMA IntegersHaveBounds ==
    ASSUME NEW S \in SUBSET Int, IsFiniteSet(S), S # {}
    PROVE  /\ Min(S) \in S /\ \A y \in S : Min(S) <= y
           /\ Max(S) \in S /\ \A y \in S : Max(S) >= y
  <1>1. \E x \in S : \A y \in S : x <= y
    BY LeastExists
  <1>2. \E x \in S : \A y \in S : x >= y
    BY GreatestExists
  <1> QED
    BY <1>1, <1>2 DEF Min, Max

(* The least and the greatest score of a leg bound its scores, and hits    *)
(* have them.                                                              *)
LEMMA ScoresHaveBounds ==
    ASSUME NEW leg, IsLeg(leg), DOMAIN leg # {}
    PROVE  LET scores == {leg[x] : x \in DOMAIN leg}
           IN  /\ Min(scores) \in Int /\ \A x \in DOMAIN leg : Min(scores) <= leg[x]
               /\ Max(scores) \in Int /\ \A x \in DOMAIN leg : Max(scores) >= leg[x]
               /\ \E x \in DOMAIN leg : leg[x] = Min(scores)
               /\ \E x \in DOMAIN leg : leg[x] = Max(scores)
  <1> DEFINE scores == {leg[x] : x \in DOMAIN leg}
  <1>1. IsFiniteSet(scores)
    <2>1. [x \in DOMAIN leg |-> leg[x]] \in Surjection(DOMAIN leg, scores)
      BY DEF Surjection
    <2> QED
      BY <2>1, FS_Surjection DEF IsLeg
  <1>2. scores \in SUBSET Int /\ scores # {}
    BY DEF IsLeg
  <1>3. /\ Min(scores) \in scores /\ \A n \in scores : Min(scores) <= n
        /\ Max(scores) \in scores /\ \A n \in scores : Max(scores) >= n
    <2> HIDE DEF scores
    <2> QED
      BY <1>1, <1>2, IntegersHaveBounds
  <1> QED
    BY <1>2, <1>3

(* Min-max normalization, where it changes a leg at all, takes the same    *)
(* number off every score, or makes one of scores that were equal: the     *)
(* order of the hits stays.                                                *)
LEMMA NormalizationKeepsOrder ==
    ASSUME NEW leg, IsLeg(leg), NEW norm \in BOOLEAN
    PROVE  LET score == Prepared(leg, norm).score
           IN  /\ IsLeg(score)
               /\ DOMAIN score = DOMAIN leg
               /\ \A x, y \in DOMAIN leg : Precedes(score, x, y) <=> Precedes(leg, x, y)
  <1> DEFINE scores == {leg[x] : x \in DOMAIN leg}
             low == Min(scores)
             score == Prepared(leg, norm).score
  <1>1. \A x \in DOMAIN leg : x \in Int /\ leg[x] \in Int
    BY DEF IsLeg
  <1>2. CASE score = leg
    BY <1>2
  <1>3. CASE score # leg
    <2>1. norm /\ ~(Cardinality(DOMAIN leg) <= 1)
      BY <1>3 DEF Prepared, Normalize
    <2>2. DOMAIN leg # {}
      BY <2>1, FS_EmptySet
    <2>4. /\ low \in Int /\ \A x \in DOMAIN leg : low <= leg[x]
          /\ Max(scores) \in Int /\ \A x \in DOMAIN leg : Max(scores) >= leg[x]
      BY <2>2, ScoresHaveBounds
    <2>5. score = IF low = Max(scores) THEN [x \in DOMAIN leg |-> 1]
                  ELSE [x \in DOMAIN leg |-> leg[x] - low]
      BY <2>1 DEF Prepared, Normalize
    <2>6. low = Max(scores) => \A x \in DOMAIN leg : leg[x] = low
      <3> HIDE DEF low, scores
      <3> QED
        BY <1>1, <2>4
    <2> HIDE DEF score, low, scores
    <2>7. DOMAIN score = DOMAIN leg /\ \A x \in DOMAIN leg : score[x] \in Int
      BY <1>1, <2>4, <2>5
    <2>8. \A x, y \in DOMAIN leg : Precedes(score, x, y) <=> Precedes(leg, x, y)
      <3>1. CASE low = Max(scores)
        BY <2>5, <2>6, <3>1, <1>1, <2>4 DEF Precedes
      <3>2. CASE low # Max(scores)
        BY <2>5, <3>2, <1>1, <2>4 DEF Precedes
      <3> QED
        BY <3>1, <3>2
    <2>9. IsLeg(score)
      <3>1. score \in [DOMAIN score -> Int]
        BY <1>1, <2>4, <2>5, <2>7
      <3> QED
        BY <2>7, <3>1 DEF IsLeg
    <2> QED
      BY <2>7, <2>8, <2>9 DEF score
  <1> QED
    BY <1>2, <1>3

(* Normalized scores of a leg with two hits or more lie between nothing    *)
(* and the span; a best hit has all of it, and of hits that differ a worst *)
(* one has nothing.                                                        *)
LEMMA NormalizedScores ==
    ASSUME NEW leg, IsLeg(leg), Cardinality(DOMAIN leg) > 1, NEW x \in DOMAIN leg
    PROVE  LET made == Normalize(leg)
           IN  /\ made.span \in Nat \ {0}
               /\ made.score[x] \in 0..made.span
               /\ \/ \E y \in DOMAIN leg : leg[y] > leg[x]
                  \/ made.score[x] = made.span
               /\ \/ \E y \in DOMAIN leg : leg[x] > leg[y]
                  \/ \A y \in DOMAIN leg : leg[x] = leg[y]
                  \/ made.score[x] = 0
  <1> DEFINE scores == {leg[y] : y \in DOMAIN leg}
             low == Min(scores)
             high == Max(scores)
             made == Normalize(leg)
  <1>1. \A y \in DOMAIN leg : leg[y] \in Int
    BY DEF IsLeg
  <1>2. ~(Cardinality(DOMAIN leg) <= 1)
    <2>1. Cardinality(DOMAIN leg) \in Nat
      BY FS_CardinalityType DEF IsLeg
    <2> QED
      BY <2>1
  <1>3. /\ low \in Int /\ \A y \in DOMAIN leg : low <= leg[y]
        /\ high \in Int /\ \A y \in DOMAIN leg : high >= leg[y]
        /\ \E y \in DOMAIN leg : leg[y] = low
        /\ \E y \in DOMAIN leg : leg[y] = high
    BY ScoresHaveBounds
  <1>4. CASE low = high
    <2>1. made.score[x] = 1 /\ made.span = 1
      BY <1>2, <1>4 DEF Normalize
    <2>2. \A y \in DOMAIN leg : leg[x] = leg[y]
      <3> HIDE DEF low, high
      <3> QED
        BY <1>1, <1>3, <1>4
    <2> HIDE DEF made
    <2> QED
      BY <2>1, <2>2 DEF made
  <1>5. CASE low # high
    <2>1. made.score[x] = leg[x] - low /\ made.span = high - low
      BY <1>2, <1>5 DEF Normalize
    <2> HIDE DEF made, low, high
    <2> QED
      BY <1>1, <1>3, <1>5, <2>1 DEF made
  <1> QED
    BY <1>4, <1>5

-----------------------------------------------------------------------------
(* The sparse leg *)

(* The chunks before i in the sort by score are those before it in an      *)
(* order of all the chunks: no two have equally many.                      *)
SparseOrder(snapshot) ==
    {pair \in (DOMAIN snapshot) \X (DOMAIN snapshot) :
        \/ snapshot[pair[1]].score > snapshot[pair[2]].score
        \/ /\ snapshot[pair[1]].score = snapshot[pair[2]].score
           /\ pair[1] < pair[2]}

(* The sparse leg returns a leg of as many hits as asked for, or fewer,    *)
(* whatever the snapshot, each the id of one of its chunks.                *)
LEMMA SparseLegFits ==
    ASSUME NEW snapshot \in Seq([id : Int, score : Int]), NEW blank \in BOOLEAN,
           NEW most \in Nat
    PROVE  LET leg == SearchSparse(snapshot, blank, most)
           IN  /\ IsLeg(leg)
               /\ Cardinality(DOMAIN leg) <= most
               /\ \A x \in DOMAIN leg : \E i \in DOMAIN snapshot : snapshot[i].id = x
  <1> DEFINE order == SparseOrder(snapshot)
             all == DOMAIN snapshot
             place == Places(all, order)
             hits == {i \in all : ~blank /\ Cardinality(Before(snapshot, i)) < most}
             ids == {snapshot[i].id : i \in hits}
             leg == SearchSparse(snapshot, blank, most)
  <1>1. /\ all = 1..Len(snapshot) /\ Len(snapshot) \in Nat
        /\ \A i \in all : snapshot[i].score \in Int /\ snapshot[i].id \in Int
    <2> DEFINE Chunk == [id : Int, score : Int]
    <2>1. \A chunk \in Chunk : chunk.score \in Int /\ chunk.id \in Int
      OBVIOUS
    <2>2. snapshot \in Seq(Chunk)
      OBVIOUS
    <2> HIDE DEF Chunk
    <2> QED
      BY <2>1, <2>2
  <1>2. IsFiniteSet(all)
    BY <1>1, FS_Interval
  <1>3. IsStrictOrder(order, all)
    <2> DEFINE score == [i \in all |-> snapshot[i].score]
           first(i, j) == score[i] > score[j] \/ (score[i] = score[j] /\ i < j)
    <2>1. \A i, j \in all : <<i, j>> \in order <=> first(i, j)
      BY DEF SparseOrder
    <2>2. \A i \in all : score[i] \in Int /\ i \in Int
      BY <1>1
    <2> HIDE DEF order, all, score
    <2>3. /\ \A i \in all : ~first(i, i)
          /\ \A i, j \in all : i = j \/ first(i, j) \/ first(j, i)
          /\ \A i, j, k \in all : first(i, j) /\ first(j, k) => first(i, k)
      BY <2>2
    <2> HIDE DEF first
    <2> QED
      BY <2>1, <2>3 DEF IsStrictOrder
  <1>4. \A i \in all : place[i] = 1 + Cardinality(Before(snapshot, i))
    <2> SUFFICES ASSUME NEW i \in all PROVE place[i] = 1 + Cardinality(Before(snapshot, i))
      OBVIOUS
    <2>1. {j \in all : <<j, i>> \in order} = Before(snapshot, i)
      BY <1>1 DEF SparseOrder, Before
    <2> QED
      BY <2>1 DEF Places
  <1>5. /\ \A i \in all : place[i] \in Nat \ {0}
        /\ \A i, j \in all : place[i] = place[j] => i = j
    <2>1. Cardinality(all) \in Nat
      BY <1>2, FS_CardinalityType
    <2>2. \A i \in all : place[i] \in 1..Cardinality(all)
      BY <1>2, <1>3, PlacesAreABijection
    <2>3. \A i, j \in all : place[i] = place[j] => i = j
      BY <1>2, <1>3, PlacesAreABijection
    <2> HIDE DEF place, all
    <2> QED
      BY <2>1, <2>2, <2>3
  <1> HIDE DEF place, order
  <1>6. hits \subseteq all /\ \A i \in hits : place[i] \in 1..most
    <2>1. ASSUME NEW i \in hits PROVE place[i] \in 1..most
      <3>1. Cardinality(Before(snapshot, i)) < most /\ place[i] \in Nat \ {0}
        BY <1>5
      <3>2. IsFiniteSet(Before(snapshot, i))
        BY <1>2, FS_Subset DEF Before
      <3>3. Cardinality(Before(snapshot, i)) \in Nat
        BY <3>2, FS_CardinalityType
      <3> QED
        BY <1>4, <3>1, <3>3
    <2> QED
      BY <2>1
  <1> HIDE DEF hits
  <1>7. IsFiniteSet(hits) /\ Cardinality(hits) <= most
    <2>1. [i \in hits |-> place[i]] \in Injection(hits, 1..most)
      BY <1>5, <1>6 DEF Injection, IsInjective
    <2>2. IsFiniteSet(1..most) /\ Cardinality(1..most) = most
      BY FS_Interval
    <2> QED
      BY <2>1, <2>2, FS_Injection
  <1>8. IsFiniteSet(ids) /\ Cardinality(ids) <= most
    <2>1. [i \in hits |-> snapshot[i].id] \in Surjection(hits, ids)
      BY DEF Surjection
    <2>2. IsFiniteSet(ids) /\ Cardinality(ids) <= Cardinality(hits)
      BY <1>7, <2>1, FS_Surjection
    <2>3. Cardinality(ids) \in Nat /\ Cardinality(hits) \in Nat
      BY <1>7, <2>2, FS_CardinalityType
    <2> QED
      BY <1>7, <2>2, <2>3
  <1>9. leg = [id \in ids |->
                  (CHOOSE chunk \in {snapshot[i] : i \in hits} : chunk.id = id).score]
    BY DEF SearchSparse, hits
  <1>10. ASSUME NEW x \in ids
         PROVE  x \in Int /\ leg[x] \in Int /\ \E i \in all : snapshot[i].id = x
    <2> DEFINE chunk == CHOOSE c \in {snapshot[i] : i \in hits} : c.id = x
    <2>1. PICK i \in hits : snapshot[i].id = x
      OBVIOUS
    <2>2. chunk \in {snapshot[j] : j \in hits}
      BY <2>1
    <2>3. chunk.score \in Int
      <3> HIDE DEF chunk
      <3> QED
        BY <1>1, <1>6, <2>2
    <2>4. leg[x] = chunk.score
      BY <1>9
    <2> QED
      BY <1>1, <1>6, <2>1, <2>3, <2>4
  <1>11. DOMAIN leg = ids
    BY <1>9
  <1>12. leg \in [ids -> Int] /\ ids \subseteq Int
    <2> HIDE DEF ids
    <2>1. leg = [id \in ids |-> leg[id]]
      BY <1>9
    <2> HIDE DEF leg
    <2> QED
      BY <1>10, <2>1
  <1> HIDE DEF ids, leg
  <1>13. IsLeg(leg)
    BY <1>8, <1>11, <1>12 DEF IsLeg
  <1> QED
    BY <1>8, <1>10, <1>11, <1>13 DEF leg

-----------------------------------------------------------------------------
(* The fused ranking *)

LEMMA LegsAreSortable ==
    ASSUME NEW leg, IsLeg(leg)
    PROVE  /\ IsStrictOrder(BestFirst(leg), DOMAIN leg)
           /\ \A x, y \in DOMAIN leg : <<x, y>> \in BestFirst(leg) <=> Precedes(leg, x, y)
  <1>1. \A x, y \in DOMAIN leg : <<x, y>> \in BestFirst(leg) <=> Precedes(leg, x, y)
    BY DEF BestFirst
  <1> QED
    BY <1>1, HitsAreOrdered DEF IsStrictOrder

(* Fused scores are numbers, one for each hit of either leg. *)
LEMMA FusedScores ==
    ASSUME NEW s, IsLeg(s), Cardinality(DOMAIN s) <= MaxRank,
           NEW d, IsLeg(d), Cardinality(DOMAIN d) <= MaxRank,
           NEW w, w.sparse \in Nat, w.dense \in Nat, NEW norm \in BOOLEAN
    PROVE  LET score == Fused(Prepared(s, norm).score, Prepared(d, norm).score, w)
           IN  IsLeg(score) /\ DOMAIN score = DOMAIN s \cup DOMAIN d
  <1> DEFINE ss == Prepared(s, norm).score
             ds == Prepared(d, norm).score
             score == Fused(ss, ds, w)
  <1>1. /\ IsLeg(ss) /\ DOMAIN ss = DOMAIN s
        /\ IsLeg(ds) /\ DOMAIN ds = DOMAIN d
    BY NormalizationKeepsOrder
  <1>2. w.sparse \in Nat /\ w.dense \in Nat
    OBVIOUS
  <1> HIDE DEF ss, ds
  <1>3. \A x : /\ Contribution(ss, w.sparse, x) \in Nat
               /\ Contribution(ds, w.dense, x) \in Nat
    BY <1>1, <1>2, ContributionsAreNumbers
  <1>4. score = [x \in DOMAIN s \cup DOMAIN d |->
                    Contribution(ss, w.sparse, x) + Contribution(ds, w.dense, x)]
    BY <1>1 DEF Fused
  <1>5. IsFiniteSet(DOMAIN s \cup DOMAIN d)
    BY FS_Union DEF IsLeg
  <1>6. DOMAIN s \cup DOMAIN d \subseteq Int
    BY DEF IsLeg
  <1>7. score \in [DOMAIN s \cup DOMAIN d -> Int]
    <2>1. \A x : Contribution(ss, w.sparse, x) + Contribution(ds, w.dense, x) \in Int
      BY <1>3
    <2> QED
      BY <1>4, <2>1
  <1>8. DOMAIN score = DOMAIN s \cup DOMAIN d
    BY <1>4
  <1> HIDE DEF score
  <1>9. IsLeg(score)
    BY <1>5, <1>6, <1>7, <1>8 DEF IsLeg
  <1> QED
    BY <1>8, <1>9 DEF score, ss, ds

(* A list with each hit of either leg once, in the order of the fused      *)
(* scores, with the copy that was kept.                                    *)
RanksTheHits(list, s, d, w, norm) ==
    LET ids == DOMAIN s \cup DOMAIN d
        score == Fused(Prepared(s, norm).score, Prepared(d, norm).score, w)
    IN  /\ IsFiniteSet(ids) /\ Cardinality(ids) \in Nat
        /\ Len(list) = Cardinality(ids)
        /\ DOMAIN list = 1..Cardinality(ids)
        /\ \A i \in DOMAIN list :
              /\ list[i].id \in ids
              /\ list[i].copy = Copy(Prepared(s, norm), Prepared(d, norm), list[i].id)
        /\ \A x \in ids : \E i \in DOMAIN list : list[i].id = x
        /\ \A i, j \in DOMAIN list : list[i].id = list[j].id => i = j
        /\ \A i, j \in DOMAIN list :
              i < j <=> Precedes(score, list[i].id, list[j].id)

LEMMA FusedRanking ==
    ASSUME NEW s, IsLeg(s), Cardinality(DOMAIN s) <= MaxRank,
           NEW d, IsLeg(d), Cardinality(DOMAIN d) <= MaxRank,
           NEW w, w.sparse \in Nat, w.dense \in Nat, NEW norm \in BOOLEAN
    PROVE  RanksTheHits(Fuse(s, d, w, norm), s, d, w, norm)
  <1> DEFINE ids == DOMAIN s \cup DOMAIN d
             sp == Prepared(s, norm)
             dp == Prepared(d, norm)
             score == Fused(sp.score, dp.score, w)
             order == Sorted(DOMAIN score, BestFirst(score))
             list == Fuse(s, d, w, norm)
  <1>1. IsLeg(score) /\ DOMAIN score = ids
    BY FusedScores
  <1>2. list = [i \in DOMAIN order |->
                   [id |-> order[i], copy |-> Copy(sp, dp, order[i]), source |-> "fused"]]
    BY DEF Fuse
  <1> HIDE DEF score, sp, dp, list
  <1>3. IsFiniteSet(ids)
    BY <1>1 DEF IsLeg
  <1>4. /\ IsStrictOrder(BestFirst(score), ids)
        /\ \A x, y \in ids : <<x, y>> \in BestFirst(score) <=> Precedes(score, x, y)
    BY <1>1, LegsAreSortable
  <1>5. /\ Cardinality(ids) \in Nat
        /\ DOMAIN order = 1..Cardinality(ids)
        /\ \A i \in DOMAIN order : order[i] \in ids
        /\ \A x \in ids : \E i \in DOMAIN order : order[i] = x
        /\ \A i, j \in DOMAIN order : order[i] = order[j] => i = j
        /\ \A i, j \in DOMAIN order : i < j <=> <<order[i], order[j]>> \in BestFirst(score)
    <2> HIDE DEF ids
    <2>1. order = Sorted(ids, BestFirst(score))
      BY <1>1
    <2> HIDE DEF order
    <2>2. /\ order \in Seq(ids)
          /\ Cardinality(ids) \in Nat
          /\ DOMAIN order = 1..Cardinality(ids)
          /\ \A x \in ids : \E i \in DOMAIN order : order[i] = x
          /\ \A i, j \in DOMAIN order : order[i] = order[j] => i = j
          /\ \A i, j \in DOMAIN order :
                i < j <=> <<order[i], order[j]>> \in BestFirst(score)
      BY <1>3, <1>4, <2>1, SortedIsSorted
    <2> QED
      BY <2>2
  <1> HIDE DEF ids, order
  <1>6. DOMAIN list = 1..Cardinality(ids) /\ Len(list) = Cardinality(ids)
    <2>1. DOMAIN list = 1..Cardinality(ids) /\ list = [i \in DOMAIN list |-> list[i]]
      BY <1>2, <1>5
    <2>2. list \in Seq({list[i] : i \in DOMAIN list})
      BY <1>5, <2>1
    <2> QED
      BY <1>5, <2>1, <2>2
  <1>7. \A i \in DOMAIN list :
           list[i].id = order[i] /\ list[i].copy = Copy(sp, dp, order[i])
    BY <1>2
  <1>8. DOMAIN list = DOMAIN order
    BY <1>5, <1>6
  <1>9. \A i, j \in DOMAIN list : i < j <=> Precedes(score, list[i].id, list[j].id)
    BY <1>4, <1>5, <1>7, <1>8
  <1>10. /\ \A i \in DOMAIN list :
               list[i].id \in ids /\ list[i].copy = Copy(sp, dp, list[i].id)
         /\ \A x \in ids : \E i \in DOMAIN list : list[i].id = x
         /\ \A i, j \in DOMAIN list : list[i].id = list[j].id => i = j
    BY <1>5, <1>7, <1>8
  <1> QED
    BY <1>3, <1>5, <1>6, <1>9, <1>10 DEF RanksTheHits, ids, score, sp, dp, list

-----------------------------------------------------------------------------
(* Reranking *)

LEMMA Cuts ==
    ASSUME NEW S, NEW s \in Seq(S), NEW k \in Nat
    PROVE  LET cut == SubSeq(s, 1, Least(Len(s), k))
           IN  /\ cut \in Seq(S)
               /\ Len(cut) = Least(Len(s), k)
               /\ \A i \in 1..Len(cut) : i \in DOMAIN s /\ cut[i] = s[i]
  <1>1. Least(Len(s), k) \in 0..Len(s)
    BY DEF Least
  <1> QED
    BY <1>1, FirstElements

(* What the model makes of a candidate, whatever else it scores with it. *)
ScoreOf(c) == encoder[c.id][c.copy]

(* The reranked list is the best of the candidates that score high enough: *)
(* cut by the reranker, then by the request, whichever leaves less.        *)
LEMMA BestOfAll ==
    ASSUME NEW list, IsFiniteSet(DOMAIN list), top_k \in Nat,
           \A i \in DOMAIN list : list[i].id \in Int /\ ScoreOf(list[i]) \in Int,
           \A i, j \in DOMAIN list : list[i].id = list[j].id => i = j
    PROVE  LET reply == Reranked(list)
               kept == {reply[i] : i \in DOMAIN reply}
               Better(c, d) == Above(ModelScore({c, d}), c, d)
               full == Len(reply) = Least(RerankTopK, top_k)
           IN  /\ Len(reply) <= Least(RerankTopK, top_k)
               /\ \A i, j \in DOMAIN reply : i < j => Better(reply[i], reply[j])
               /\ \A i \in DOMAIN list :
                     IF ScoreOf(list[i]) < MinScore
                     THEN list[i] \notin kept
                     ELSE list[i] \in kept \/ (full /\ \A d \in kept : Better(d, list[i]))
  <1> DEFINE all == {list[i] : i \in DOMAIN list}
             score == ModelScore(all)
             high == {c \in all : \A low \in {MinScore} : score[c] >= low}
             ranked == Sorted(high, Highest(score, high))
             cut == SubSeq(ranked, 1, Least(Len(ranked), RerankTopK))
             reply == SubSeq(cut, 1, Least(Len(cut), top_k))
             Better(c, d) == Above(ModelScore({c, d}), c, d)
             size == Least(RerankTopK, top_k)
  <1>1. Reranked(list) = reply
    BY DEF Reranked, Rerank, Kept
  <1>2. \A c \in all : score[c] = ScoreOf(c) /\ score[c] \in Int /\ c.id \in Int
    BY DEF ModelScore, ScoreOf
  <1>3. \A c, d \in all : c.id = d.id => c = d
    OBVIOUS
  <1>4. \A c, d \in all : Better(c, d) <=> Above(score, c, d)
    <2>1. \A c, d \in all :
             /\ ModelScore({c, d})[c] = ScoreOf(c)
             /\ ModelScore({c, d})[d] = ScoreOf(d)
      BY DEF ModelScore, ScoreOf
    <2> HIDE DEF score, all
    <2> QED
      BY <1>2, <2>1 DEF Above
  <1>5. IsFiniteSet(all)
    <2>1. [i \in DOMAIN list |-> list[i]] \in Surjection(DOMAIN list, all)
      BY DEF Surjection
    <2> QED
      BY <2>1, FS_Surjection
  <1> HIDE DEF all, score
  <1>6. high \subseteq all /\ IsFiniteSet(high)
    BY <1>5, FS_Subset
  <1>7. \A c \in all : c \in high <=> score[c] >= MinScore
    OBVIOUS
  <1> HIDE DEF high
  <1>8. \A c, d \in high : <<c, d>> \in Highest(score, high) <=> Above(score, c, d)
    BY DEF Highest
  <1>9. IsStrictOrder(Highest(score, high), high)
    <2>1. /\ \A c \in high : ~Above(score, c, c)
          /\ \A c, d \in high : c = d \/ Above(score, c, d) \/ Above(score, d, c)
          /\ \A c, d, e \in high :
                Above(score, c, d) /\ Above(score, d, e) => Above(score, c, e)
      BY <1>2, <1>3, <1>6 DEF Above
    <2> QED
      BY <1>8, <2>1 DEF IsStrictOrder
  <1>10. /\ ranked \in Seq(high)
         /\ \A c \in high : \E i \in DOMAIN ranked : ranked[i] = c
         /\ \A i, j \in DOMAIN ranked :
               i < j <=> <<ranked[i], ranked[j]>> \in Highest(score, high)
    BY <1>6, <1>9, SortedIsSorted
  <1> HIDE DEF ranked
  <1>11. \A i, j \in DOMAIN ranked : i < j => Above(score, ranked[i], ranked[j])
    <2>1. \A i \in DOMAIN ranked : ranked[i] \in high
      BY <1>10
    <2> QED
      BY <1>8, <1>10, <2>1
  <1>12. RerankTopK \in Nat
    BY CutsType
  <1>13. /\ cut \in Seq(high)
         /\ Len(cut) = Least(Len(ranked), RerankTopK)
         /\ \A i \in 1..Len(cut) : i \in DOMAIN ranked /\ cut[i] = ranked[i]
    BY <1>10, <1>12, Cuts
  <1> HIDE DEF cut
  <1>14. /\ reply \in Seq(high)
         /\ Len(reply) = Least(Len(cut), top_k)
         /\ \A i \in 1..Len(reply) : i \in DOMAIN cut /\ reply[i] = cut[i]
    <2>1. cut \in Seq(high) /\ top_k \in Nat
      BY <1>13
    <2> QED
      BY <2>1, Cuts
  <1> HIDE DEF reply
  <1>15. /\ DOMAIN reply = 1..Len(reply) /\ DOMAIN ranked = 1..Len(ranked)
         /\ Len(reply) = Least(Len(ranked), size)
         /\ Len(reply) \in Nat /\ Len(ranked) \in Nat /\ size \in Nat
         /\ \A i \in DOMAIN reply : i \in DOMAIN ranked /\ reply[i] = ranked[i]
    <2>1. /\ Len(ranked) \in Nat /\ DOMAIN ranked = 1..Len(ranked)
          /\ DOMAIN cut = 1..Len(cut)
          /\ DOMAIN reply = 1..Len(reply) /\ Len(reply) \in Nat
      BY <1>10, <1>13, <1>14
    <2>2. Len(reply) = Least(Len(ranked), size) /\ size \in Nat
      <3>1. /\ Len(cut) = Least(Len(ranked), RerankTopK)
            /\ Len(reply) = Least(Len(cut), top_k)
        BY <1>13, <1>14
      <3>2. \A a, b, c \in Nat :
               Least(Least(a, b), c) = Least(a, Least(b, c)) /\ Least(b, c) \in Nat
        BY DEF Least
      <3> QED
        BY <1>12, <2>1, <3>1, <3>2
    <2> QED
      BY <1>13, <1>14, <2>1, <2>2
  <1>16. \A i \in DOMAIN reply : reply[i] \in high
    BY <1>14
  <1>17. Len(reply) <= size
    BY <1>15 DEF Least
  <1>18. \A i, j \in DOMAIN reply : i < j => Better(reply[i], reply[j])
    <2> HIDE DEF Better
    <2> QED
      BY <1>4, <1>6, <1>11, <1>15, <1>16
  <1>19. ASSUME NEW c \in all, ScoreOf(c) < MinScore
         PROVE  c \notin {reply[i] : i \in DOMAIN reply}
    <2>1. c \notin high
      BY <1>2, <1>7, <1>19, CutsType
    <2> QED
      BY <1>16, <2>1
  <1>20. ASSUME NEW c \in all, ~(ScoreOf(c) < MinScore),
                c \notin {reply[i] : i \in DOMAIN reply}
         PROVE  /\ Len(reply) = size
                /\ \A d \in {reply[i] : i \in DOMAIN reply} : Better(d, c)
    <2>1. c \in high
      BY <1>2, <1>7, <1>20, CutsType
    <2>2. PICK k \in DOMAIN ranked : ranked[k] = c
      BY <1>10, <2>1
    <2>3. k > Len(reply)
      BY <1>15, <1>20, <2>2
    <2>4. Len(reply) = size
      BY <1>15, <2>2, <2>3 DEF Least
    <2>5. ASSUME NEW i \in DOMAIN reply PROVE Better(reply[i], c)
      <3>1. i \in DOMAIN ranked /\ reply[i] = ranked[i] /\ i < k
        BY <1>15, <2>2, <2>3
      <3>2. Above(score, reply[i], c)
        BY <1>11, <2>2, <3>1
      <3> QED
        BY <1>4, <1>6, <1>16, <2>1, <3>2
    <2> QED
      BY <2>4, <2>5
  <1>21. \A i \in DOMAIN list : list[i] \in all
    BY DEF all
  <1> HIDE DEF Better, size
  <1> QED
    BY <1>1, <1>17, <1>18, <1>19, <1>20, <1>21 DEF Better, size

-----------------------------------------------------------------------------
(* The stages of a query *)

(* What the sparse leg may return. *)
SparseLegs ==
    {SearchSparse(snapshot, blank, CandidateK) : snapshot \in Snapshots, blank \in BOOLEAN}

(* Each stage leaves what the stages before it made, and its own result is *)
(* computed from that.                                                     *)
PipelineInv ==
    /\ weights \in Weights
    /\ normalize \in BOOLEAN
    /\ encoder \in CrossEncoders
    /\ top_k \in TopKs
    /\ stage \in {"dense", "fuse", "rerank", "done"} => sparse \in SparseLegs
    /\ stage \in {"fuse", "rerank", "done"} => dense \in Legs
    /\ stage \in {"rerank", "done"} => fused = Fuse(sparse, dense, weights, normalize)
    /\ stage = "done" => results = Reranked(fused)

(* In every state of a query its lists are what its stages made of its     *)
(* inputs, in turn: no stage changes the result of an earlier one.         *)
THEOREM PipelineInvariance == Spec => []PipelineInv
  <1>1. Init => PipelineInv
    BY DEF Init, PipelineInv
  <1>2. PipelineInv /\ [Next]_vars => PipelineInv'
    <2> SUFFICES ASSUME PipelineInv, [Next]_vars PROVE PipelineInv'
      OBVIOUS
    <2>1. CASE SparseStage
      BY <2>1 DEF SparseStage, Close, inputs, PipelineInv, SparseLegs
    <2>2. CASE DenseStage
      BY <2>2 DEF DenseStage, Close, inputs, PipelineInv
    <2>3. CASE FuseStage
      BY <2>3 DEF FuseStage, Close, inputs, PipelineInv
    <2>4. CASE RerankStage
      <3>1. /\ UNCHANGED <<weights, normalize, encoder, top_k, sparse, dense, fused>>
            /\ stage' = "done" /\ stage = "rerank" /\ results' = Reranked(fused)
        BY <2>4 DEF RerankStage, Close, inputs
      <3>2. Reranked(fused)' = Reranked(fused)
        BY <3>1 DEF Reranked, Kept, ModelScore
      <3> QED
        BY <3>1, <3>2 DEF PipelineInv
    <2>5. CASE StageRaises
      BY <2>5 DEF StageRaises, inputs, PipelineInv
    <2>6. CASE UNCHANGED vars
      <3>1. UNCHANGED <<weights, normalize, encoder, top_k, stage, sparse, dense, fused, results>>
        BY <2>6 DEF vars, inputs
      <3>2. Reranked(fused)' = Reranked(fused)
        BY <3>1 DEF Reranked, Kept, ModelScore
      <3> QED
        BY <3>1, <3>2 DEF PipelineInv
    <2> QED
      BY <2>1, <2>2, <2>3, <2>4, <2>5, <2>6 DEF Next
  <1> QED
    BY <1>1, <1>2, PTL DEF Spec

(* Both legs of a query in its later stages are legs, no longer than the   *)
(* fusion has ranks for, with a model score for the text of each hit.      *)
LEMMA LegsOfAQuery ==
    ASSUME PipelineInv, stage \in {"rerank", "done"}
    PROVE  /\ IsLeg(sparse) /\ Cardinality(DOMAIN sparse) <= MaxRank
           /\ IsLeg(dense) /\ Cardinality(DOMAIN dense) <= MaxRank
           /\ \A x \in DOMAIN sparse : encoder[x].sparse \in Int
           /\ \A x \in DOMAIN dense : encoder[x].dense \in Int
           /\ weights \in [sparse : Nat, dense : Nat]
           /\ weights.sparse \in Nat /\ weights.dense \in Nat
           /\ normalize \in BOOLEAN
           /\ fused = Fuse(sparse, dense, weights, normalize)
  <1>1. /\ sparse \in SparseLegs /\ dense \in Legs /\ encoder \in CrossEncoders
        /\ weights \in Weights /\ normalize \in BOOLEAN
        /\ fused = Fuse(sparse, dense, weights, normalize)
    BY DEF PipelineInv
  <1>2. PICK snapshot \in Snapshots, blank \in BOOLEAN :
           sparse = SearchSparse(snapshot, blank, CandidateK)
    BY <1>1 DEF SparseLegs
  <1>3. snapshot \in Seq([id : Int, score : Int])
    BY SnapshotsType
  <1>4. CandidateK \in Nat /\ CandidateK <= MaxRank /\ MaxRank \in Nat
    BY LegsFitThePool, MaxRankNat
  <1>5. /\ IsLeg(sparse) /\ Cardinality(DOMAIN sparse) <= CandidateK
        /\ \A x \in DOMAIN sparse : \E i \in DOMAIN snapshot : snapshot[i].id = x
    BY <1>2, <1>3, <1>4, SparseLegFits
  <1>6. IsLeg(dense) /\ Cardinality(DOMAIN dense) <= CandidateK
    BY <1>1, LegsFitThePool
  <1>7. \A leg : IsLeg(leg) => Cardinality(DOMAIN leg) \in Nat
    BY FS_CardinalityType DEF IsLeg
  <1>8. Cardinality(DOMAIN sparse) <= MaxRank /\ Cardinality(DOMAIN dense) <= MaxRank
    BY <1>4, <1>5, <1>6, <1>7
  <1>9. \A x \in DOMAIN sparse : encoder[x].sparse \in Int
    BY <1>1, <1>5, EveryTextHasAScore
  <1>10. \A x \in DOMAIN dense : encoder[x].dense \in Int
    BY <1>1, EveryTextHasAScore
  <1>11. weights \in [sparse : Nat, dense : Nat]
    BY <1>1, WeightsType
  <1>12. weights.sparse \in Nat /\ weights.dense \in Nat
    BY <1>11
  <1> QED
    BY <1>1, <1>5, <1>6, <1>8, <1>9, <1>10, <1>11, <1>12

LEMMA FusedOfAQuery ==
    ASSUME PipelineInv, stage \in {"rerank", "done"}
    PROVE  RanksTheHits(fused, sparse, dense, weights, normalize)
  <1>1. /\ IsLeg(sparse) /\ Cardinality(DOMAIN sparse) <= MaxRank
        /\ IsLeg(dense) /\ Cardinality(DOMAIN dense) <= MaxRank
        /\ weights.sparse \in Nat /\ weights.dense \in Nat
        /\ normalize \in BOOLEAN
        /\ fused = Fuse(sparse, dense, weights, normalize)
    BY LegsOfAQuery
  <1> QED
    BY <1>1, FusedRanking

(* The copy a hit keeps comes from a leg that has it. *)
LEMMA CopiesComeFromTheirLeg ==
    ASSUME PipelineInv, stage \in {"rerank", "done"}, NEW i \in DOMAIN fused
    PROVE  /\ fused[i].copy \in {"sparse", "dense"}
           /\ fused[i].copy = "dense" => fused[i].id \in DOMAIN dense
           /\ fused[i].copy # "dense" => fused[i].id \in DOMAIN sparse
  <1> DEFINE sp == Prepared(sparse, normalize)
             dp == Prepared(dense, normalize)
  <1>1. DOMAIN sp.score = DOMAIN sparse /\ DOMAIN dp.score = DOMAIN dense
    BY LegsOfAQuery, NormalizationKeepsOrder
  <1>2. /\ fused[i].id \in DOMAIN sparse \cup DOMAIN dense
        /\ fused[i].copy = Copy(sp, dp, fused[i].id)
    BY FusedOfAQuery DEF RanksTheHits
  <1> HIDE DEF sp, dp
  <1> QED
    BY <1>1, <1>2 DEF Copy

-----------------------------------------------------------------------------
(* Theorems *)

(* Fusion never reverses two hits the legs agree on: if no leg prefers y   *)
(* to x and a leg with a weight prefers x, x comes before y by the fused   *)
(* scores, whatever the raw scores are and whether they are normalized.    *)
THEOREM FusionAgrees ==
    ASSUME NEW s, IsLeg(s), Cardinality(DOMAIN s) <= MaxRank,
           NEW d, IsLeg(d), Cardinality(DOMAIN d) <= MaxRank,
           NEW w \in [sparse : Nat, dense : Nat], NEW norm \in BOOLEAN,
           NEW x \in DOMAIN s \cup DOMAIN d, NEW y \in DOMAIN s \cup DOMAIN d,
           ~LegPrefers(s, y, x), ~LegPrefers(d, y, x),
           \/ LegPrefers(s, x, y) /\ w.sparse > 0
           \/ LegPrefers(d, x, y) /\ w.dense > 0
    PROVE  Precedes(Fused(Prepared(s, norm).score, Prepared(d, norm).score, w), x, y)
  <1> DEFINE ss == Prepared(s, norm).score
             ds == Prepared(d, norm).score
  <1>1. x # y
    BY DEF LegPrefers
  <1>2. /\ IsLeg(ss) /\ DOMAIN ss = DOMAIN s
        /\ \A u, v \in DOMAIN s : Precedes(ss, u, v) <=> Precedes(s, u, v)
    BY NormalizationKeepsOrder
  <1>3. /\ IsLeg(ds) /\ DOMAIN ds = DOMAIN d
        /\ \A u, v \in DOMAIN d : Precedes(ds, u, v) <=> Precedes(d, u, v)
    BY NormalizationKeepsOrder
  <1>4. w.sparse \in Nat /\ w.dense \in Nat
    OBVIOUS
  <1> HIDE DEF ss, ds
  <1>5. /\ ~LegPrefers(ss, y, x) /\ ~LegPrefers(ds, y, x)
        /\ LegPrefers(s, x, y) => LegPrefers(ss, x, y)
        /\ LegPrefers(d, x, y) => LegPrefers(ds, x, y)
    BY <1>2, <1>3 DEF LegPrefers
  <1>6. /\ Contribution(ss, w.sparse, x) \in Nat /\ Contribution(ds, w.dense, x) \in Nat
        /\ Contribution(ss, w.sparse, y) \in Nat /\ Contribution(ds, w.dense, y) \in Nat
        /\ Contribution(ss, w.sparse, x) >= Contribution(ss, w.sparse, y)
        /\ Contribution(ds, w.dense, x) >= Contribution(ds, w.dense, y)
        /\ \/ Contribution(ss, w.sparse, x) > Contribution(ss, w.sparse, y)
           \/ Contribution(ds, w.dense, x) > Contribution(ds, w.dense, y)
    BY <1>1, <1>2, <1>3, <1>4, <1>5, ContributionsFollowTheLeg
  <1>7. Fused(ss, ds, w)[x] > Fused(ss, ds, w)[y]
    BY <1>2, <1>3, <1>6 DEF Fused
  <1> QED
    BY <1>7 DEF Precedes, ss, ds

-----------------------------------------------------------------------------
(* What a caller may rely on *)

(* The fused list has each hit of either leg once, with a copy its leg     *)
(* returned, and keeps every order the legs agree on (ResultFuser.fuse).   *)
THEOREM FusionSafe == Spec => []FusionRespectsTheLegs
  <1>1. PipelineInv => FusionRespectsTheLegs
    <2> SUFFICES ASSUME PipelineInv, stage \in {"rerank", "done"}
                 PROVE  FusionRespectsTheLegs
      BY DEF FusionRespectsTheLegs
    <2> DEFINE score == Fused(Prepared(sparse, normalize).score,
                              Prepared(dense, normalize).score, weights)
    <2>1. /\ Len(fused) = Cardinality(Candidates)
          /\ DOMAIN fused = 1..Cardinality(Candidates)
          /\ Cardinality(Candidates) \in Nat
          /\ \A i \in DOMAIN fused : fused[i].id \in Candidates
          /\ \A x \in Candidates : \E i \in DOMAIN fused : fused[i].id = x
          /\ \A i, j \in DOMAIN fused :
                i < j <=> Precedes(score, fused[i].id, fused[j].id)
          /\ \A i, j \in DOMAIN fused : fused[i].id = fused[j].id => i = j
      BY FusedOfAQuery DEF RanksTheHits, Candidates
    <2>2. {fused[i].id : i \in DOMAIN fused} = Candidates
      BY <2>1
    <2>3. \A i \in DOMAIN fused :
             fused[i].id \in DOMAIN (IF fused[i].copy = "dense" THEN dense ELSE sparse)
      BY CopiesComeFromTheirLeg
    <2>4. ASSUME NEW x \in Candidates, NEW y \in Candidates,
                 ~LegPrefers(sparse, y, x), ~LegPrefers(dense, y, x),
                 \/ LegPrefers(sparse, x, y) /\ weights.sparse > 0
                 \/ LegPrefers(dense, x, y) /\ weights.dense > 0
          PROVE  Position(fused, x) < Position(fused, y)
      <3>1. /\ IsLeg(sparse) /\ Cardinality(DOMAIN sparse) <= MaxRank
            /\ IsLeg(dense) /\ Cardinality(DOMAIN dense) <= MaxRank
            /\ weights \in [sparse : Nat, dense : Nat]
            /\ normalize \in BOOLEAN
        BY LegsOfAQuery
      <3>2. Precedes(score, x, y)
        BY <2>4, <3>1, FusionAgrees DEF Candidates
      <3> HIDE DEF score
      <3>3. \A z \in Candidates :
               Position(fused, z) \in DOMAIN fused /\ fused[Position(fused, z)].id = z
        BY <2>1 DEF Position
      <3> QED
        BY <2>1, <3>2, <3>3
    <2> HIDE DEF score
    <2> QED
      BY <2>1, <2>2, <2>3, <2>4 DEF FusionRespectsTheLegs
  <1> QED
    BY <1>1, PipelineInvariance, PTL

(* Of two shares, a of m and b of n, the larger is not nothing and the     *)
(* smaller is not all.                                                     *)
LEMMA LargerShare ==
    ASSUME NEW m \in Nat \ {0}, NEW n \in Nat \ {0},
           NEW a \in 0..m, NEW b \in 0..n, a * n > b * m
    PROVE  a # 0 /\ b # n
  <1>1. ASSUME a = 0 PROVE FALSE
    <2>1. a * n = 0 /\ b * m >= 0
      BY <1>1
    <2> QED
      BY <2>1
  <1>2. ASSUME b = n PROVE FALSE
    <2>1. a * n <= m * n
      OBVIOUS
    <2> QED
      BY <1>2, <2>1
  <1> QED
    BY <1>1, <1>2

(* With normalized scores, and two hits or more in each leg, the dense     *)
(* copy of a hit of both is kept only if the sparse leg has a better hit   *)
(* and the dense leg a worse one or equal ones only (ResultFuser.fuse over *)
(* normalize).  A lone hit keeps its raw score (fusion.py:88), and nothing *)
(* is said of it.                                                          *)
THEOREM CopiesSafe == Spec => []CopiesAreComparable
  <1>1. PipelineInv => CopiesAreComparable
    <2> SUFFICES ASSUME PipelineInv, stage \in {"rerank", "done"}, normalize,
                        NEW i \in DOMAIN fused,
                        fused[i].copy = "dense", fused[i].id \in DOMAIN sparse,
                        Cardinality(DOMAIN sparse) > 1, Cardinality(DOMAIN dense) > 1
                 PROVE  LET x == fused[i].id
                        IN  /\ \E y \in DOMAIN sparse : sparse[y] > sparse[x]
                            /\ \/ \E y \in DOMAIN dense : dense[x] > dense[y]
                               \/ \A y \in DOMAIN dense : dense[x] = dense[y]
      BY DEF CopiesAreComparable
    <2> DEFINE x == fused[i].id
               sp == Normalize(sparse)
               dp == Normalize(dense)
    <2>1. IsLeg(sparse) /\ IsLeg(dense)
      BY LegsOfAQuery
    <2>2. x \in DOMAIN dense
      BY CopiesComeFromTheirLeg
    <2>3. fused[i].copy = Copy(sp, dp, x)
      BY FusedOfAQuery DEF RanksTheHits, Prepared
    <2>4. DOMAIN sp.score = DOMAIN sparse /\ DOMAIN dp.score = DOMAIN dense
      <3>1. Prepared(sparse, TRUE) = sp /\ Prepared(dense, TRUE) = dp
        BY DEF Prepared
      <3>2. /\ DOMAIN Prepared(sparse, TRUE).score = DOMAIN sparse
            /\ DOMAIN Prepared(dense, TRUE).score = DOMAIN dense
        BY <2>1, NormalizationKeepsOrder
      <3> QED
        BY <3>1, <3>2
    <2>5. /\ sp.span \in Nat \ {0} /\ sp.score[x] \in 0..sp.span
          /\ (\E y \in DOMAIN sparse : sparse[y] > sparse[x]) \/ sp.score[x] = sp.span
      BY <2>1, NormalizedScores
    <2>6. /\ dp.span \in Nat \ {0} /\ dp.score[x] \in 0..dp.span
          /\ \/ \E y \in DOMAIN dense : dense[x] > dense[y]
             \/ \A y \in DOMAIN dense : dense[x] = dense[y]
             \/ dp.score[x] = 0
      BY <2>1, <2>2, NormalizedScores
    <2> HIDE DEF sp, dp
    <2>7. dp.score[x] * sp.span > sp.score[x] * dp.span
      BY <2>3, <2>4 DEF Copy
    <2>8. dp.score[x] # 0 /\ sp.score[x] # sp.span
      BY <2>5, <2>6, <2>7, LargerShare
    <2> QED
      BY <2>5, <2>6, <2>8
  <1> QED
    BY <1>1, PipelineInvariance, PTL

(* The results of a query are the best of all its candidates as the        *)
(* cross-encoder scores them, whatever the fused order                     *)
(* (CrossEncoderReranker.rerank, then the top_k of the request).           *)
THEOREM ResultsSafe == Spec => []ResultsAreTheBest
  <1>1. PipelineInv => ResultsAreTheBest
    <2> SUFFICES ASSUME PipelineInv, stage = "done" PROVE ResultsAreTheBest
      BY DEF ResultsAreTheBest
    <2>1. /\ IsFiniteSet(Candidates)
          /\ \A i \in DOMAIN fused : fused[i].id \in Candidates
          /\ \A i, j \in DOMAIN fused : fused[i].id = fused[j].id => i = j
          /\ DOMAIN fused = 1..Cardinality(Candidates)
          /\ Cardinality(Candidates) \in Nat
      BY FusedOfAQuery DEF RanksTheHits, Candidates
    <2>2. IsFiniteSet(DOMAIN fused)
      BY <2>1, FS_Interval
    <2>3. /\ IsLeg(sparse) /\ IsLeg(dense)
          /\ \A x \in DOMAIN sparse : encoder[x].sparse \in Int
          /\ \A x \in DOMAIN dense : encoder[x].dense \in Int
      BY LegsOfAQuery
    <2>4. ASSUME NEW i \in DOMAIN fused
          PROVE  fused[i].id \in Int /\ ScoreOf(fused[i]) \in Int
      <3>1. fused[i].id \in Int
        BY <2>1, <2>3 DEF Candidates, IsLeg
      <3>2. CASE fused[i].copy = "dense"
        <4>1. fused[i].id \in DOMAIN dense
          BY <3>2, CopiesComeFromTheirLeg
        <4> QED
          BY <2>3, <3>1, <3>2, <4>1 DEF ScoreOf
      <3>3. CASE fused[i].copy # "dense"
        <4>1. fused[i].id \in DOMAIN sparse /\ fused[i].copy = "sparse"
          BY <3>3, CopiesComeFromTheirLeg
        <4> QED
          BY <2>3, <3>1, <4>1 DEF ScoreOf
      <3> QED
        BY <3>2, <3>3
    <2>5. top_k \in Nat /\ results = Reranked(fused)
      BY CutsType DEF PipelineInv
    <2> QED
      BY <2>1, <2>2, <2>4, <2>5, BestOfAll DEF ResultsAreTheBest, ScoreOf
  <1> QED
    BY <1>1, PipelineInvariance, PTL

=============================================================================
