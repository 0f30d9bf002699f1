------------------------------ MODULE SumLemmas ------------------------------
(***************************************************************************)
(* What MapThenSumSet computes for a finite set of natural numbers: nothing  *)
(* for the empty set, and one summand more for every element more, whichever *)
(* element the fold happens to choose.  Sizes of cached modules (module      *)
(* Reconcile) and the tokens charged to a bucket (module Exchange) are such  *)
(* sums.                                                                   *)
(*                                                                         *)
(* Proofs by induction over a finite set take a subset that violates the     *)
(* lemma and has no smaller one that does: FS_StrictSubsetOrderingWellFounded *)
(* and WFMin give it.                                                       *)
(***************************************************************************)
EXTENDS FiniteSetsExt, FiniteSetTheorems, WellFoundedInduction, TLAPS

Sum(w, S) == MapThenSumSet(LAMBDA x : w[x], S)

Pick(s) == CHOOSE x \in s : TRUE

\* The function the fold over S is defined by.
IsFold(w, S, g) ==
    g = [s \in SUBSET S |-> IF s = {} THEN 0 ELSE w[Pick(s)] + g[s \ {Pick(s)}]]

Fold(w, S) == CHOOSE g : IsFold(w, S, g)

LEMMA SumIsFold == \A w, S : Sum(w, S) = Fold(w, S)[S]
  BY Zenon DEF Sum, MapThenSumSet, MapThenFoldSet, Fold, IsFold, Pick

LEMMA PickIsElement == \A s : s /= {} => Pick(s) \in s
  BY Zenon DEF Pick

\* Among subsets of a finite set there is always a minimal one.
LEMMA MinimalSubset ==
    ASSUME NEW S, IsFiniteSet(S), NEW T, T \subseteq SUBSET S, T /= {}
    PROVE  \E s \in T : \A t \in T : t \subseteq s => t = s
<1>1. IsWellFoundedOn(StrictSubsetOrdering(S), SUBSET S)
  BY FS_StrictSubsetOrderingWellFounded, FS_FiniteSubsetsOfFinite, Zenon
<1>2. PICK s \in T : \A t \in T : ~ (<<t, s>> \in StrictSubsetOrdering(S))
  BY <1>1, WFMin, Zenon
<1>3. \A t \in T : t \subseteq s => t = s
  <2>. SUFFICES ASSUME NEW t \in T, t \subseteq s, t /= s PROVE FALSE
    OBVIOUS
  <2>1. <<t, s>> \in StrictSubsetOrdering(S)
    BY DEF StrictSubsetOrdering
  <2>. QED
    BY <2>1, <1>2
<1>. QED
  BY <1>3

LEMMA FoldUnique ==
    ASSUME NEW w, NEW S, IsFiniteSet(S), NEW R \in SUBSET S,
           NEW g, IsFold(w, S, g), NEW h, IsFold(w, R, h)
    PROVE  \A s \in SUBSET R : g[s] = h[s]
<1>. DEFINE T == {s \in SUBSET R : g[s] /= h[s]}
<1>. SUFFICES ASSUME T /= {} PROVE FALSE
  OBVIOUS
<1>1. PICK s \in T : \A t \in T : t \subseteq s => t = s
  <2>1. IsFiniteSet(R)
    BY FS_Subset
  <2>. HIDE DEF T
  <2>2. T \subseteq SUBSET R
    BY DEF T
  <2>. QED
    BY <2>1, <2>2, MinimalSubset
<1>2. CASE s = {}
  BY <1>2 DEF IsFold
<1>3. CASE s /= {}
  <2>1. Pick(s) \in s
    BY <1>3, PickIsElement
  <2>2. g[s \ {Pick(s)}] = h[s \ {Pick(s)}]
    <3>1. s \ {Pick(s)} \subseteq s /\ s \ {Pick(s)} /= s
      BY <2>1
    <3>. QED
      BY <3>1, <1>1
  <2>3. g[s] = w[Pick(s)] + g[s \ {Pick(s)}]
    BY <1>3 DEF IsFold
  <2>4. h[s] = w[Pick(s)] + h[s \ {Pick(s)}]
    BY <1>3 DEF IsFold
  <2>. QED
    BY <2>2, <2>3, <2>4
<1>. QED
  BY <1>2, <1>3

LEMMA FoldExists ==
    ASSUME NEW w, NEW S, IsFiniteSet(S)
    PROVE  \E g : IsFold(w, S, g)
<1>. DEFINE T == {s \in SUBSET S : ~ \E g : IsFold(w, s, g)}
<1>. SUFFICES ASSUME T /= {} PROVE FALSE
  OBVIOUS
<1>1. PICK s \in T : \A t \in T : t \subseteq s => t = s
  <2>. HIDE DEF T
  <2>1. T \subseteq SUBSET S
    BY DEF T
  <2>. QED
    BY <2>1, MinimalSubset
<1>2. \A u \in SUBSET s : u /= s => IsFold(w, u, Fold(w, u))
  BY <1>1 DEF Fold
<1>. DEFINE val(t) == Fold(w, t)[t]
            g == [t \in SUBSET s |-> IF t = {} THEN 0 ELSE w[Pick(t)] + val(t \ {Pick(t)})]
<1>3. \A u \in SUBSET s : u /= s => g[u] = val(u)
  <2>. SUFFICES ASSUME NEW u \in SUBSET s, u /= s PROVE g[u] = val(u)
    OBVIOUS
  <2>0. IsFold(w, u, Fold(w, u))
    BY <1>2
  <2>1. CASE u = {}
    BY <2>0, <2>1 DEF IsFold
  <2>2. CASE u /= {}
    <3>. DEFINE v == u \ {Pick(u)}
    <3>1. v \in SUBSET u /\ v /= s /\ v \in SUBSET s
      BY <2>2, PickIsElement
    <3>2. IsFiniteSet(u)
      BY FS_Subset
    <3>3. IsFold(w, v, Fold(w, v))
      BY <3>1, <1>2
    <3>4. Fold(w, u)[v] = Fold(w, v)[v]
      <4>. HIDE DEF v
      <4>. QED
        BY <2>0, <3>1, <3>2, <3>3, FoldUnique
    <3>5. val(u) = w[Pick(u)] + Fold(w, u)[v]
      BY <2>0, <2>2 DEF IsFold
    <3>. QED
      BY <2>2, <3>4, <3>5
  <2>. QED
    BY <2>1, <2>2
<1>4. IsFold(w, s, g)
  <2>1. \A t \in SUBSET s : t /= {} => g[t \ {Pick(t)}] = val(t \ {Pick(t)})
    <3>. SUFFICES ASSUME NEW t \in SUBSET s, t /= {}
                  PROVE  g[t \ {Pick(t)}] = val(t \ {Pick(t)})
      OBVIOUS
    <3>1. t \ {Pick(t)} \in SUBSET s /\ t \ {Pick(t)} /= s
      BY PickIsElement
    <3>. HIDE DEF g, val
    <3>. QED
      BY <3>1, <1>3
  <2>2. g = [t \in SUBSET s |-> IF t = {} THEN 0 ELSE w[Pick(t)] + g[t \ {Pick(t)}]]
    <3>. DEFINE f == [t \in SUBSET s |-> IF t = {} THEN 0 ELSE w[Pick(t)] + g[t \ {Pick(t)}]]
    <3>1. \A t \in SUBSET s : g[t] = f[t]
      <4>. SUFFICES ASSUME NEW t \in SUBSET s PROVE g[t] = f[t]
        OBVIOUS
      <4>1. g[t] = IF t = {} THEN 0 ELSE w[Pick(t)] + val(t \ {Pick(t)})
        OBVIOUS
      <4>2. f[t] = IF t = {} THEN 0 ELSE w[Pick(t)] + g[t \ {Pick(t)}]
        BY Zenon
      <4>. HIDE DEF g, f, val
      <4>. QED
        BY <2>1, <4>1, <4>2
    <3>2. DOMAIN g = SUBSET s /\ DOMAIN f = SUBSET s
      OBVIOUS
    <3>3. g = [t \in DOMAIN g |-> g[t]] /\ f = [t \in DOMAIN f |-> f[t]]
      OBVIOUS
    <3>. HIDE DEF g, f
    <3>4. g = f
      BY <3>1, <3>2, <3>3
    <3>. QED
      BY <3>4 DEF f
  <2>. HIDE DEF g
  <2>. QED
    BY <2>2, Zenon DEF IsFold
<1>. QED
  BY <1>1, <1>4

LEMMA FoldIsFold ==
    ASSUME NEW w, NEW S, IsFiniteSet(S)
    PROVE  IsFold(w, S, Fold(w, S))
  BY FoldExists DEF Fold

LEMMA SumOfNone == \A w : Sum(w, {}) = 0
<1>. SUFFICES ASSUME NEW w PROVE Sum(w, {}) = 0
  OBVIOUS
<1>1. IsFold(w, {}, Fold(w, {}))
  BY FoldIsFold, FS_EmptySet
<1>. QED
  BY <1>1, SumIsFold DEF IsFold

\* The fold takes the element it picks.
LEMMA SumOfPick ==
    ASSUME NEW w, NEW S, IsFiniteSet(S), S /= {}
    PROVE  Sum(w, S) = w[Pick(S)] + Sum(w, S \ {Pick(S)})
<1>. DEFINE R == S \ {Pick(S)}
<1>1. IsFold(w, S, Fold(w, S))
  BY FoldIsFold
<1>2. IsFiniteSet(R)
  BY FS_Subset
<1>3. IsFold(w, R, Fold(w, R))
  BY <1>2, FoldIsFold
<1>4. Fold(w, S)[R] = Fold(w, R)[R]
  <2>1. R \in SUBSET S
    OBVIOUS
  <2>. HIDE DEF R
  <2>. QED
    BY <1>1, <1>3, <2>1, FoldUnique
<1>5. Fold(w, S)[S] = w[Pick(S)] + Fold(w, S)[R]
  BY <1>1 DEF IsFold
<1>. QED
  BY <1>4, <1>5, SumIsFold

LEMMA SumIsNat ==
    ASSUME NEW S, IsFiniteSet(S), NEW w, \A x \in S : w[x] \in Nat
    PROVE  Sum(w, S) \in Nat
<1>. DEFINE T == {s \in SUBSET S : Sum(w, s) \notin Nat}
<1>. SUFFICES ASSUME T /= {} PROVE FALSE
  OBVIOUS
<1>1. PICK s \in T : \A t \in T : t \subseteq s => t = s
  <2>. HIDE DEF T
  <2>1. T \subseteq SUBSET S
    BY DEF T
  <2>. QED
    BY <2>1, MinimalSubset
<1>2. s /= {}
  BY SumOfNone
<1>3. Pick(s) \in s
  BY <1>2, PickIsElement
<1>4. Sum(w, s \ {Pick(s)}) \in Nat
  BY <1>1, <1>3
<1>5. Sum(w, s) = w[Pick(s)] + Sum(w, s \ {Pick(s)})
  BY <1>2, SumOfPick, FS_Subset
<1>6. w[Pick(s)] \in Nat
  BY <1>3
<1>. QED
  BY <1>4, <1>5, <1>6

\* Every element can be the first.
LEMMA SumWithout ==
    ASSUME NEW S, IsFiniteSet(S), NEW w, \A x \in S : w[x] \in Nat, NEW e \in S
    PROVE  Sum(w, S) = w[e] + Sum(w, S \ {e})
<1>. DEFINE T == {s \in SUBSET S : \E x \in s : Sum(w, s) /= w[x] + Sum(w, s \ {x})}
<1>. SUFFICES ASSUME T /= {} PROVE FALSE
  OBVIOUS
<1>1. PICK s \in T : \A t \in T : t \subseteq s => t = s
  <2>. HIDE DEF T
  <2>1. T \subseteq SUBSET S
    BY DEF T
  <2>. QED
    BY <2>1, MinimalSubset
<1>2. PICK x \in s : Sum(w, s) /= w[x] + Sum(w, s \ {x})
  OBVIOUS
<1>. DEFINE y == Pick(s)
            rest == s \ {x, y}
<1>3. y \in s
  BY PickIsElement
<1>4. Sum(w, s) = w[y] + Sum(w, s \ {y})
  BY <1>2, SumOfPick, FS_Subset
<1>5. y /= x
  BY <1>2, <1>4
<1>6. Sum(w, s \ {y}) = w[x] + Sum(w, rest)
  <2>1. s \ {y} \notin T
    BY <1>1, <1>3
  <2>2. x \in s \ {y} /\ (s \ {y}) \ {x} = rest /\ s \ {y} \in SUBSET S
    BY <1>5
  <2>. HIDE DEF y, rest
  <2>. QED
    BY <2>1, <2>2
<1>7. Sum(w, s \ {x}) = w[y] + Sum(w, rest)
  <2>1. s \ {x} \notin T
    BY <1>1, <1>2
  <2>2. y \in s \ {x} /\ (s \ {x}) \ {y} = rest /\ s \ {x} \in SUBSET S
    BY <1>3, <1>5
  <2>. HIDE DEF y, rest
  <2>. QED
    BY <2>1, <2>2
<1>8. Sum(w, rest) \in Nat /\ w[x] \in Nat /\ w[y] \in Nat
  <2>1. IsFiniteSet(rest) /\ rest \subseteq S
    BY FS_Subset
  <2>2. Sum(w, rest) \in Nat
    <3>. HIDE DEF rest
    <3>. QED
      BY <2>1, SumIsNat
  <2>. QED
    BY <1>3, <2>2
<1>. HIDE DEF y, rest, T
<1>. QED
  BY <1>2, <1>4, <1>6, <1>7, <1>8

LEMMA SumWith ==
    ASSUME NEW S, IsFiniteSet(S), NEW w, \A x \in S : w[x] \in Nat,
           NEW e, e \notin S, w[e] \in Nat
    PROVE  Sum(w, S \cup {e}) = Sum(w, S) + w[e]
<1>1. IsFiniteSet(S \cup {e})
  BY FS_AddElement
<1>. DEFINE R == S \cup {e}
<1>2. e \in R /\ R \ {e} = S /\ \A x \in R : w[x] \in Nat
  OBVIOUS
<1>. HIDE DEF R
<1>3. Sum(w, R) = w[e] + Sum(w, R \ {e})
  BY <1>1, <1>2, SumWithout DEF R
<1>4. Sum(w, R) = w[e] + Sum(w, S)
  BY <1>2, <1>3
<1>5. Sum(w, S) \in Nat
  BY SumIsNat
<1>. QED
  BY <1>4, <1>5 DEF R

\* Fewer elements, no larger a sum.
LEMMA SumOfSubset ==
    ASSUME NEW S, IsFiniteSet(S), NEW w, \A x \in S : w[x] \in Nat, NEW R \in SUBSET S
    PROVE  Sum(w, R) <= Sum(w, S)
<1>. DEFINE T == {s \in SUBSET S : R \subseteq s /\ ~ (Sum(w, R) <= Sum(w, s))}
<1>. SUFFICES ASSUME T /= {} PROVE FALSE
  OBVIOUS
<1>1. PICK s \in T : \A t \in T : t \subseteq s => t = s
  <2>. HIDE DEF T
  <2>1. T \subseteq SUBSET S
    BY DEF T
  <2>. QED
    BY <2>1, MinimalSubset
<1>2. \A t \in SUBSET S : Sum(w, t) \in Nat
  <2>. SUFFICES ASSUME NEW t \in SUBSET S PROVE Sum(w, t) \in Nat
    OBVIOUS
  <2>1. IsFiniteSet(t)
    BY FS_Subset
  <2>. QED
    BY <2>1, SumIsNat
<1>3. s /= R
  BY <1>2
<1>4. PICK e \in s : e \notin R
  BY <1>3
<1>5. Sum(w, R) <= Sum(w, s \ {e})
  BY <1>1, <1>4
<1>6. Sum(w, s) = w[e] + Sum(w, s \ {e})
  BY SumWithout, FS_Subset
<1>7. s \in SUBSET S /\ s \ {e} \in SUBSET S /\ w[e] \in Nat
  OBVIOUS
<1>8. Sum(w, s) \in Nat /\ Sum(w, s \ {e}) \in Nat /\ Sum(w, R) \in Nat
  BY <1>2, <1>7
<1>9. ~ (Sum(w, R) <= Sum(w, s))
  OBVIOUS
<1>. HIDE DEF T
<1>. QED
  BY <1>5, <1>6, <1>7, <1>8, <1>9

\* A part and the rest make the whole.
LEMMA SumOfParts ==
    ASSUME NEW S, IsFiniteSet(S), NEW w, \A x \in S : w[x] \in Nat, NEW R \in SUBSET S
    PROVE  Sum(w, S) = Sum(w, R) + Sum(w, S \ R)
<1>. DEFINE T == {s \in SUBSET S : Sum(w, S) /= Sum(w, s) + Sum(w, S \ s)}
<1>. SUFFICES ASSUME T /= {} PROVE FALSE
  OBVIOUS
<1>1. PICK s \in T : \A t \in T : t \subseteq s => t = s
  <2>. HIDE DEF T
  <2>1. T \subseteq SUBSET S
    BY DEF T
  <2>. QED
    BY <2>1, MinimalSubset
<1>2. \A t \in SUBSET S : IsFiniteSet(t) /\ Sum(w, t) \in Nat
  <2>. SUFFICES ASSUME NEW t \in SUBSET S PROVE IsFiniteSet(t) /\ Sum(w, t) \in Nat
    OBVIOUS
  <2>1. IsFiniteSet(t)
    BY FS_Subset
  <2>. QED
    BY <2>1, SumIsNat
<1>3. s /= {}
  <2>1. S \ {} = S
    OBVIOUS
  <2>2. Sum(w, S) = Sum(w, {}) + Sum(w, S \ {})
    BY <1>2, <2>1, SumOfNone
  <2>. QED
    BY <2>2
<1>4. PICK e : e \in s
  BY <1>3
<1>. DEFINE r == s \ {e}
            rest == S \ s
            more == S \ r
<1>5. r \in SUBSET S /\ rest \in SUBSET S /\ more \in SUBSET S /\ s \in SUBSET S
  OBVIOUS
<1>6. e \in more /\ more \ {e} = rest
  BY <1>4
<1>7. Sum(w, S) = Sum(w, r) + Sum(w, more)
  BY <1>1, <1>4, <1>5
<1>8. Sum(w, S) /= Sum(w, s) + Sum(w, rest)
  OBVIOUS
<1>9. \A x \in s : w[x] \in Nat
  OBVIOUS
<1>10. \A x \in more : w[x] \in Nat
  OBVIOUS
<1>11. Sum(w, s) = w[e] + Sum(w, r)
  BY <1>2, <1>4, <1>5, <1>9, SumWithout
<1>. HIDE DEF more, rest, r, T
<1>12. Sum(w, more) = w[e] + Sum(w, rest)
  <2>1. Sum(w, more) = w[e] + Sum(w, more \ {e})
    BY <1>2, <1>5, <1>6, <1>10, SumWithout
  <2>. QED
    BY <1>6, <2>1
<1>13. Sum(w, r) \in Nat /\ Sum(w, rest) \in Nat /\ w[e] \in Nat
  BY <1>2, <1>4, <1>5, <1>9
<1>. QED
  BY <1>7, <1>8, <1>11, <1>12, <1>13

\* Only the summands count.
LEMMA SumOfEqual ==
    ASSUME NEW S, IsFiniteSet(S), NEW v, NEW w, \A x \in S : v[x] = w[x]
    PROVE  Sum(v, S) = Sum(w, S)
<1>. DEFINE T == {s \in SUBSET S : Sum(v, s) /= Sum(w, s)}
<1>. SUFFICES ASSUME T /= {} PROVE FALSE
  OBVIOUS
<1>1. PICK s \in T : \A t \in T : t \subseteq s => t = s
  <2>. HIDE DEF T
  <2>1. T \subseteq SUBSET S
    BY DEF T
  <2>. QED
    BY <2>1, MinimalSubset
<1>2. s /= {}
  BY SumOfNone
<1>3. Pick(s) \in s
  BY <1>2, PickIsElement
<1>4. Sum(v, s \ {Pick(s)}) = Sum(w, s \ {Pick(s)})
  BY <1>1, <1>3
<1>5. IsFiniteSet(s)
  BY FS_Subset
<1>6. /\ Sum(v, s) = v[Pick(s)] + Sum(v, s \ {Pick(s)})
      /\ Sum(w, s) = w[Pick(s)] + Sum(w, s \ {Pick(s)})
  BY <1>2, <1>5, SumOfPick
<1>7. v[Pick(s)] = w[Pick(s)]
  BY <1>3
<1>. QED
  BY <1>4, <1>6, <1>7

\* One summand grows.
LEMMA SumChanged ==
    ASSUME NEW S, IsFiniteSet(S), NEW v, NEW w, \A x \in S : v[x] \in Nat,
           NEW e \in S, NEW n \in Nat,
           w[e] = v[e] + n, \A x \in S \ {e} : w[x] = v[x]
    PROVE  Sum(w, S) = Sum(v, S) + n
<1>1. IsFiniteSet(S \ {e})
  BY FS_Subset
<1>2. Sum(w, S \ {e}) = Sum(v, S \ {e})
  <2>. DEFINE R == S \ {e}
  <2>. HIDE DEF R
  <2>1. \A x \in R : w[x] = v[x]
    BY DEF R
  <2>2. Sum(w, R) = Sum(v, R)
    BY <1>1, <2>1, SumOfEqual DEF R
  <2>. QED
    BY <2>2 DEF R
<1>3. Sum(v, S) = v[e] + Sum(v, S \ {e})
  BY SumWithout
<1>4. Sum(w, S) = w[e] + Sum(w, S \ {e})
  <2>1. \A x \in S : w[x] \in Nat
    OBVIOUS
  <2>. QED
    BY <2>1, SumWithout
<1>5. Sum(v, S \ {e}) \in Nat
  <2>. DEFINE R == S \ {e}
  <2>1. IsFiniteSet(R) /\ \A x \in R : v[x] \in Nat
    BY <1>1
  <2>. HIDE DEF R
  <2>2. Sum(v, R) \in Nat
    BY <2>1, SumIsNat
  <2>. QED
    BY <2>2 DEF R
<1>. QED
  BY <1>2, <1>3, <1>4, <1>5

=============================================================================
