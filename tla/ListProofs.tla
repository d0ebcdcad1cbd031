------------------------------- MODULE ListProofs -------------------------------
(***************************************************************************)
(* Lemmas that the proofs of several components need: what Sorted returns, *)
(* for any finite set and any strict total order on it; slices; the least  *)
(* and the greatest of a finite set of integers; and what is computed      *)
(* along a list, by induction over its positions.                          *)
(***************************************************************************)
EXTENDS Sorting, FiniteSetTheorems, SequenceTheorems, TLAPS

(* The order is total and strict on the values. *)
IsStrictOrder(before, values) ==
    /\ \A x \in values : <<x, x>> \notin before
    /\ \A x, y \in values : x = y \/ <<x, y>> \in before \/ <<y, x>> \in before
    /\ \A x, y, z \in values :
          <<x, y>> \in before /\ <<y, z>> \in before => <<x, z>> \in before

(* A value that comes first has the smaller position. *)
LEMMA PlacesFollowTheOrder ==
    ASSUME NEW values, IsFiniteSet(values), NEW before, IsStrictOrder(before, values),
           NEW x \in values, NEW y \in values, <<x, y>> \in before
    PROVE  Places(values, before)[x] < Places(values, before)[y]
  <1> DEFINE earlier(z) == {w \in values : <<w, z>> \in before}
  <1>1. earlier(x) \subseteq earlier(y) /\ x \in earlier(y) /\ x \notin earlier(x)
    BY DEF IsStrictOrder
  <1>2. IsFiniteSet(earlier(y))
    BY FS_Subset
  <1>3. /\ IsFiniteSet(earlier(x))
        /\ Cardinality(earlier(x)) <= Cardinality(earlier(y))
        /\ Cardinality(earlier(x)) # Cardinality(earlier(y))
    BY <1>1, <1>2, FS_Subset
  <1>4. Cardinality(earlier(x)) \in Nat /\ Cardinality(earlier(y)) \in Nat
    BY <1>2, <1>3, FS_CardinalityType
  <1>5. /\ Places(values, before)[x] = 1 + Cardinality(earlier(x))
        /\ Places(values, before)[y] = 1 + Cardinality(earlier(y))
    BY DEF Places
  <1> HIDE DEF earlier
  <1> QED
    BY <1>3, <1>4, <1>5

(* The positions are 1 .. the number of values, each taken once. *)
LEMMA PlacesAreABijection ==
    ASSUME NEW values, IsFiniteSet(values), NEW before, IsStrictOrder(before, values)
    PROVE  /\ Places(values, before) \in [values -> 1..Cardinality(values)]
           /\ \A x, y \in values :
                 Places(values, before)[x] = Places(values, before)[y] => x = y
           /\ \A i \in 1..Cardinality(values) :
                 \E x \in values : Places(values, before)[x] = i
  <1> DEFINE place == Places(values, before)
             size == Cardinality(values)
  <1>1. size \in Nat
    BY FS_CardinalityType
  <1>2. ASSUME NEW x \in values PROVE place[x] \in 1..size
    <2> DEFINE earlier == {w \in values : <<w, x>> \in before}
    <2>1. x \notin earlier /\ earlier \in SUBSET values
      BY DEF IsStrictOrder
    <2>2. /\ IsFiniteSet(earlier)
          /\ Cardinality(earlier) <= size
          /\ Cardinality(earlier) # size
      BY <2>1, FS_Subset
    <2>3. Cardinality(earlier) \in Nat
      BY <2>2, FS_CardinalityType
    <2>4. place[x] = 1 + Cardinality(earlier)
      BY DEF Places
    <2> HIDE DEF earlier, place, size
    <2> QED
      BY <1>1, <2>2, <2>3, <2>4
  <1>3. place \in [values -> 1..size]
    BY <1>2 DEF Places
  <1>4. ASSUME NEW x \in values, NEW y \in values, place[x] = place[y]
        PROVE  x = y
    <2> SUFFICES ASSUME x # y PROVE FALSE
      OBVIOUS
    <2>1. place[x] \in 1..size /\ place[y] \in 1..size
      BY <1>2
    <2>2. place[x] < place[y] \/ place[y] < place[x]
      BY PlacesFollowTheOrder DEF IsStrictOrder
    <2> HIDE DEF place, size
    <2> QED
      BY <1>1, <1>4, <2>1, <2>2
  <1> HIDE DEF place
  <1>5. place \in Surjection(values, 1..size)
    <2>1. place \in Injection(values, 1..size)
      BY <1>3, <1>4 DEF Injection, IsInjective
    <2>2. IsFiniteSet(1..size) /\ Cardinality(1..size) = size
      BY <1>1, FS_Interval
    <2> QED
      BY <2>1, <2>2, FS_Injection
  <1>6. \A i \in 1..size : \E x \in values : place[x] = i
    BY <1>5 DEF Surjection
  <1> QED
    BY <1>3, <1>4, <1>6 DEF place

(* The sorted list has every value once, and no other; of two positions    *)
(* the first holds the value that comes first.                             *)
THEOREM SortedIsSorted ==
    ASSUME NEW values, IsFiniteSet(values), NEW before, IsStrictOrder(before, values)
    PROVE  LET list == Sorted(values, before)
           IN  /\ list \in Seq(values)
               /\ Cardinality(values) \in Nat
               /\ Len(list) = Cardinality(values)
               /\ DOMAIN list = 1..Cardinality(values)
               /\ \A x \in values : \E i \in DOMAIN list : list[i] = x
               /\ \A i, j \in DOMAIN list : list[i] = list[j] => i = j
               /\ \A i, j \in DOMAIN list : i < j <=> <<list[i], list[j]>> \in before
  <1> DEFINE place == Places(values, before)
             size == Cardinality(values)
             list == Sorted(values, before)
  <1>1. size \in Nat
    BY FS_CardinalityType
  <1>2. /\ \A x \in values : place[x] \in 1..size
        /\ \A x, y \in values : place[x] = place[y] => x = y
        /\ \A i \in 1..size : \E x \in values : place[x] = i
    BY PlacesAreABijection
  <1>3. \A x, y \in values : <<x, y>> \in before => place[x] < place[y]
    BY PlacesFollowTheOrder
  <1>4. list = [i \in 1..size |-> CHOOSE x \in values : place[x] = i]
    BY DEF Sorted
  <1> HIDE DEF place, size, list
  <1>5. \A i \in 1..size : list[i] \in values /\ place[list[i]] = i
    BY <1>2, <1>4
  <1>6. DOMAIN list = 1..size /\ list \in [1..size -> values]
    BY <1>4, <1>5
  <1>7. list \in Seq(values) /\ Len(list) = size
    BY <1>1, <1>6
  <1>8. \A x \in values : list[place[x]] = x
    BY <1>2, <1>5
  <1>9. \A x \in values : \E i \in DOMAIN list : list[i] = x
    BY <1>2, <1>6, <1>8
  <1>10. \A i, j \in 1..size : list[i] = list[j] => i = j
    BY <1>5
  <1>11. ASSUME NEW i \in 1..size, NEW j \in 1..size
         PROVE  i < j <=> <<list[i], list[j]>> \in before
    <2>1. /\ list[i] \in values /\ place[list[i]] = i
          /\ list[j] \in values /\ place[list[j]] = j
      BY <1>5
    <2>2. <<list[i], list[j]>> \in before => i < j
      BY <1>3, <2>1
    <2>3. <<list[j], list[i]>> \in before => j < i
      BY <1>3, <2>1
    <2>4. \/ list[i] = list[j]
          \/ <<list[i], list[j]>> \in before
          \/ <<list[j], list[i]>> \in before
      BY <2>1 DEF IsStrictOrder
    <2>5. i < j => ~(j < i) /\ i # j
      BY <1>1
    <2> QED
      BY <1>10, <2>2, <2>3, <2>4, <2>5
  <1> QED
    BY <1>1, <1>6, <1>7, <1>9, <1>10, <1>11 DEF size, list

(* The values that come before all others are sorted first. *)
LEMMA FirstValues ==
    ASSUME NEW A, NEW B, IsFiniteSet(B), A \subseteq B,
           NEW beforeA, IsStrictOrder(beforeA, A), NEW beforeB, IsStrictOrder(beforeB, B),
           \A x, y \in A : <<x, y>> \in beforeA <=> <<x, y>> \in beforeB,
           \A x \in A, y \in B : <<y, x>> \in beforeB => y \in A
    PROVE  /\ Cardinality(A) <= Cardinality(B)
           /\ \A i \in 1..Cardinality(A) : Sorted(A, beforeA)[i] = Sorted(B, beforeB)[i]
  <1> DEFINE m == Cardinality(A)
             n == Cardinality(B)
             p == Places(A, beforeA)
             q == Places(B, beforeB)
  <1>1. IsFiniteSet(A) /\ m \in Nat /\ n \in Nat /\ m <= n
    BY FS_Subset, FS_CardinalityType
  <1>2. ASSUME NEW x \in A PROVE p[x] = q[x]
    <2>1. {y \in A : <<y, x>> \in beforeA} = {y \in B : <<y, x>> \in beforeB}
      OBVIOUS
    <2>2. /\ p[x] = 1 + Cardinality({y \in A : <<y, x>> \in beforeA})
          /\ q[x] = 1 + Cardinality({y \in B : <<y, x>> \in beforeB})
      BY DEF Places
    <2> HIDE DEF p, q
    <2> QED
      BY <2>1, <2>2
  <1>3. \A i \in 1..m : \E x \in A : p[x] = i
    BY <1>1, PlacesAreABijection
  <1>4. \A x, y \in B : q[x] = q[y] => x = y
    BY PlacesAreABijection
  <1>5. /\ Sorted(A, beforeA) = [i \in 1..m |-> CHOOSE x \in A : p[x] = i]
        /\ Sorted(B, beforeB) = [i \in 1..n |-> CHOOSE x \in B : q[x] = i]
    BY DEF Sorted
  <1> HIDE DEF m, n, p, q
  <1>6. ASSUME NEW i \in 1..m
        PROVE  Sorted(A, beforeA)[i] = Sorted(B, beforeB)[i]
    <2> DEFINE a == CHOOSE x \in A : p[x] = i
               b == CHOOSE x \in B : q[x] = i
    <2>1. a \in A /\ p[a] = i
      BY <1>3
    <2>2. a \in B /\ q[a] = i
      BY <1>2, <2>1
    <2>3. b \in B /\ q[b] = i
      BY <2>2
    <2>4. a = b
      BY <1>4, <2>2, <2>3
    <2>5. i \in 1..n
      BY <1>1
    <2> QED
      BY <1>5, <2>4, <2>5
  <1> QED
    BY <1>1, <1>6 DEF m, n

(* A slice from the front. *)
LEMMA FirstElements ==
    ASSUME NEW S, NEW list \in Seq(S), NEW n \in 0..Len(list)
    PROVE  LET cut == SubSeq(list, 1, n)
           IN  /\ cut \in Seq(S)
               /\ Len(cut) = n
               /\ \A i \in 1..Len(cut) : i \in DOMAIN list /\ cut[i] = list[i]
  <1>1. \A i \in 1..n : i \in DOMAIN list /\ list[i] \in S
    OBVIOUS
  <1>2. /\ SubSeq(list, 1, n) \in Seq(S)
        /\ Len(SubSeq(list, 1, n)) = IF 1 <= n THEN n - 1 + 1 ELSE 0
        /\ \A i \in 1..n - 1 + 1 : SubSeq(list, 1, n)[i] = list[1 + i - 1]
    BY <1>1, SubSeqProperties
  <1>3. Len(SubSeq(list, 1, n)) = n
    BY <1>2
  <1>4. \A i \in 1..n : SubSeq(list, 1, n)[i] = list[i]
    <2>1. \A i \in 1..n : i \in 1..n - 1 + 1 /\ 1 + i - 1 = i
      OBVIOUS
    <2> QED
      BY <1>2, <2>1
  <1> QED
    BY <1>1, <1>2, <1>3, <1>4

-----------------------------------------------------------------------------
(* Bounds and induction *)

(* A finite, nonempty set of integers has a least element: one with a      *)
(* smallest set of elements below it.                                      *)
LEMMA LeastExists ==
    ASSUME NEW S \in SUBSET Int, IsFiniteSet(S), S # {}
    PROVE  \E x \in S : \A y \in S : x <= y
  <1> DEFINE below(x) == {y \in S : y < x}
             sides == {below(x) : x \in S}
  <1>1. \A x \in S : below(x) \in FiniteSubsetsOf(S)
    BY FS_Subset DEF FiniteSubsetsOf
  <1>2. sides \subseteq FiniteSubsetsOf(S) /\ sides # {}
    BY <1>1
  <1>3. PICK side \in sides : \A other \in sides :
           ~(<<other, side>> \in StrictSubsetOrdering(S))
    <2> HIDE DEF sides
    <2>1. IsWellFoundedOn(StrictSubsetOrdering(S), FiniteSubsetsOf(S))
      BY FS_StrictSubsetOrderingWellFounded
    <2> QED
      BY <1>2, <2>1, WFMin, Zenon
  <1>4. PICK x \in S : side = below(x)
    OBVIOUS
  <1>5. ASSUME NEW y \in S, y < x PROVE FALSE
    <2>1. \A z \in S : z < y => z < x
      BY <1>5
    <2>2. ~(y < y)
      OBVIOUS
    <2>3. below(y) \subseteq below(x) /\ y \in below(x) /\ y \notin below(y)
      BY <1>5, <2>1, <2>2
    <2>4. below(y) \in sides /\ below(y) \in SUBSET S /\ below(x) \in SUBSET S
      OBVIOUS
    <2> HIDE DEF below, sides
    <2>5. <<below(y), below(x)>> \in StrictSubsetOrdering(S)
      BY <2>3, <2>4 DEF StrictSubsetOrdering
    <2> QED
      BY <1>3, <1>4, <2>4, <2>5
  <1> QED
    BY <1>5

(* A finite set of integers that is not empty has a greatest. *)
LEMMA GreatestExists ==
    ASSUME NEW S \in SUBSET Int, IsFiniteSet(S), S # {}
    PROVE  \E x \in S : \A y \in S : x >= y
  <1> DEFINE above(x) == {y \in S : y > x}
             sides == {above(x) : x \in S}
  <1>1. \A x \in S : above(x) \in FiniteSubsetsOf(S)
    BY FS_Subset DEF FiniteSubsetsOf
  <1>2. sides \subseteq FiniteSubsetsOf(S) /\ sides # {}
    BY <1>1
  <1>3. PICK side \in sides : \A other \in sides :
           ~(<<other, side>> \in StrictSubsetOrdering(S))
    <2> HIDE DEF sides
    <2>1. IsWellFoundedOn(StrictSubsetOrdering(S), FiniteSubsetsOf(S))
      BY FS_StrictSubsetOrderingWellFounded
    <2> QED
      BY <1>2, <2>1, WFMin, Zenon
  <1>4. PICK x \in S : side = above(x)
    OBVIOUS
  <1>5. ASSUME NEW y \in S, y > x PROVE FALSE
    <2>1. \A z \in S : z > y => z > x
      BY <1>5
    <2>2. ~(y > y)
      OBVIOUS
    <2>3. above(y) \subseteq above(x) /\ y \in above(x) /\ y \notin above(y)
      BY <1>5, <2>1, <2>2
    <2>4. above(y) \in sides /\ above(y) \in SUBSET S /\ above(x) \in SUBSET S
      OBVIOUS
    <2> HIDE DEF above, sides
    <2>5. <<above(y), above(x)>> \in StrictSubsetOrdering(S)
      BY <2>3, <2>4 DEF StrictSubsetOrdering
    <2> QED
      BY <1>3, <1>4, <2>4, <2>5
  <1> QED
    BY <1>5

(* What holds at no position of a list, and is handed from each position   *)
(* to the next, holds up to its end.                                       *)
LEMMA AlongAList ==
    ASSUME NEW N \in Nat, NEW good, 0 \in good,
           \A n \in 1..N : n - 1 \in good => n \in good
    PROVE  \A n \in 0..N : n \in good
  <1> DEFINE bad == {n \in 0..N : n \notin good}
  <1> SUFFICES ASSUME bad # {} PROVE FALSE
    OBVIOUS
  <1>1. IsFiniteSet(bad) /\ bad \in SUBSET Int
    <2>1. IsFiniteSet(0..N)
      BY FS_Interval
    <2> QED
      BY <2>1, FS_Subset
  <1>2. PICK n \in bad : \A m \in bad : n <= m
    BY <1>1, LeastExists
  <1>3. n \in 1..N /\ n - 1 \in 0..N
    OBVIOUS
  <1>4. n - 1 \notin bad
    BY <1>2, <1>3
  <1> QED
    BY <1>2, <1>3, <1>4

(* A loop over a list has a result at each position: a function that       *)
(* starts with "base", and takes each position's "step" of its last value. *)
IsLoop(f, N, base, step) ==
    /\ f[0] = base
    /\ \A n \in 1..N : f[n] = step[n][f[n - 1]]

StepsOf(V, N) == [1..N -> [V -> V]]

(* By induction over the positions. *)
LEMMA LoopsHaveResults ==
    ASSUME NEW N \in Nat, NEW V, NEW base \in V, NEW step \in StepsOf(V, N)
    PROVE  \E f \in [0..N -> V] : IsLoop(f, N, base, step)
  <1> DEFINE good == {k \in 0..N : \E f \in [0..k -> V] : IsLoop(f, k, base, step)}
  <1>1. 0 \in good
    <2> DEFINE only == [n \in 0..0 |-> base]
    <2>1. only \in [0..0 -> V] /\ only[0] = base /\ 1..0 = {}
      OBVIOUS
    <2> HIDE DEF only
    <2>2. IsLoop(only, 0, base, step)
      BY <2>1 DEF IsLoop
    <2> QED
      BY <2>1, <2>2
  <1>2. ASSUME NEW k \in 1..N, k - 1 \in good PROVE k \in good
    <2>1. PICK f \in [0..(k - 1) -> V] : IsLoop(f, k - 1, base, step)
      BY <1>2
    <2> DEFINE g == [n \in 0..k |-> IF n = k THEN step[k][f[k - 1]] ELSE f[n]]
    <2>2. f[k - 1] \in V /\ step[k][f[k - 1]] \in V
      BY <2>1 DEF StepsOf
    <2>3. g \in [0..k -> V]
      BY <2>1, <2>2
    <2>4. ASSUME NEW n \in 1..k PROVE g[n] = step[n][g[n - 1]]
      <3>1. CASE n = k
        BY <3>1
      <3>2. CASE n # k
        BY <2>1, <3>2 DEF IsLoop
      <3> QED
        BY <3>1, <3>2
    <2>5. g[0] = base
      BY <2>1 DEF IsLoop
    <2> HIDE DEF g
    <2>6. IsLoop(g, k, base, step)
      BY <2>4, <2>5 DEF IsLoop
    <2> QED
      BY <2>3, <2>6
  <1> HIDE DEF good
  <1>3. \A k \in 1..N : k - 1 \in good => k \in good
    BY <1>2
  <1>4. \A k \in 0..N : k \in good
    BY <1>1, <1>3, AlongAList
  <1> QED
    BY <1>4 DEF good

=============================================================================
