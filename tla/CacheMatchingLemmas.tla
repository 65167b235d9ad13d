------------------------ MODULE CacheMatchingLemmas ------------------------
(***************************************************************************)
(* What pruning keeps and what a search finds, for every list of entries,  *)
(* every similarity and every threshold.  Induction on a list is by its    *)
(* least counterexample.                                                   *)
(***************************************************************************)
EXTENDS CacheMatching, FiniteSetTheorems, SequenceTheorems,
        WellFoundedInduction, TLAPS

LEMMA LeastNatural ==
  ASSUME NEW T, T \subseteq Nat, T # {}
  PROVE  \E x \in T : \A y \in T : x <= y
<1> DEFINE UpTo == {0..n : n \in T}
<1>1. \A n \in Nat : 0..n \in FiniteSubsetsOf(Nat)
  BY FS_Interval DEF FiniteSubsetsOf
<1>2. UpTo \subseteq FiniteSubsetsOf(Nat) /\ UpTo # {}
  BY <1>1
<1>3. IsWellFoundedOn(StrictSubsetOrdering(Nat), FiniteSubsetsOf(Nat))
  BY FS_StrictSubsetOrderingWellFounded
<1> HIDE DEF UpTo
<1>4. PICK I \in UpTo : \A J \in UpTo : <<J, I>> \notin StrictSubsetOrdering(Nat)
  BY <1>2, <1>3, WFMin
<1>5. PICK x \in T : I = 0..x
  BY DEF UpTo
<1>6. ASSUME NEW y \in T, y < x PROVE FALSE
  <2>1. 0..y \in UpTo
    BY DEF UpTo
  <2>2. <<0..y, 0..x>> \in StrictSubsetOrdering(Nat)
    BY <1>6 DEF StrictSubsetOrdering
  <2>3. QED
    BY <1>4, <1>5, <2>1, <2>2
<1>7. QED
  BY <1>6
-----------------------------------------------------------------------------
(* The prefixes of a list are pruned one after the other. *)
PrunesPrefixes(kept, es, ago, m) ==
  kept = [n \in 0..m |->
            IF n = 0 THEN <<>>
            ELSE IF Unexpired(es[n], ago) THEN Append(kept[n - 1], es[n])
            ELSE kept[n - 1]]

LEMMA PrefixesCanBePruned ==
  ASSUME NEW es, NEW ago, NEW len \in Nat
  PROVE  \E kept : PrunesPrefixes(kept, es, ago, len)
<1> DEFINE Bad == {m \in Nat : ~ \E kept : PrunesPrefixes(kept, es, ago, m)}
<1> SUFFICES ASSUME Bad # {} PROVE FALSE
  OBVIOUS
<1>1. PICK m \in Bad : \A n \in Bad : m <= n
  BY LeastNatural
<1>2. m # 0
  <2>1. PrunesPrefixes([n \in 0..0 |-> <<>>], es, ago, 0)
    BY DEF PrunesPrefixes
  <2>2. QED
    BY <2>1
<1>3. PICK kept : PrunesPrefixes(kept, es, ago, m - 1)
  BY <1>1, <1>2
<1> DEFINE more == [n \in 0..m |->
                      IF n < m THEN kept[n]
                      ELSE IF Unexpired(es[n], ago) THEN Append(kept[n - 1], es[n])
                      ELSE kept[n - 1]]
<1>4. PrunesPrefixes(more, es, ago, m)
  <2>1. \A n \in 0..(m - 1) :
          kept[n] = IF n = 0 THEN <<>>
                    ELSE IF Unexpired(es[n], ago) THEN Append(kept[n - 1], es[n])
                    ELSE kept[n - 1]
    BY <1>2, <1>3 DEF PrunesPrefixes
  <2>2. \A n \in 0..m :
          more[n] = IF n = 0 THEN <<>>
                    ELSE IF Unexpired(es[n], ago) THEN Append(more[n - 1], es[n])
                    ELSE more[n - 1]
    BY <1>2, <2>1
  <2>3. QED
    BY <2>2 DEF PrunesPrefixes
<1>5. QED
  BY <1>4

LEMMA PrunedPrefixes ==
  ASSUME NEW es, NEW ago, NEW len \in Nat, NEW kept,
         PrunesPrefixes(kept, es, ago, len)
  PROVE  /\ kept[0] = <<>>
         /\ \A n \in 1..len :
              kept[n] = IF Unexpired(es[n], ago) THEN Append(kept[n - 1], es[n])
                        ELSE kept[n - 1]
<1>1. \A n \in 0..len :
        kept[n] = IF n = 0 THEN <<>>
                  ELSE IF Unexpired(es[n], ago) THEN Append(kept[n - 1], es[n])
                  ELSE kept[n - 1]
  BY DEF PrunesPrefixes
<1>2. 0 \in 0..len /\ kept[0] = <<>>
  BY <1>1
<1>3. QED
  BY <1>1, <1>2

(* What the prefixes of a list are pruned to. *)
KeepsUpTo(S, kept, es, ago, n) ==
  /\ kept[n] \in Seq(S) /\ Len(kept[n]) <= n
  /\ \A j \in DOMAIN kept[n] : /\ Unexpired(kept[n][j], ago)
                               /\ \E i \in 1..n : kept[n][j] = es[i]
  /\ \A i \in 1..n :
       Unexpired(es[i], ago) => \E j \in DOMAIN kept[n] : kept[n][j] = es[i]

LEMMA PrefixFacts ==
  ASSUME NEW S, NEW es \in Seq(S), NEW ago, NEW kept,
         PrunesPrefixes(kept, es, ago, Len(es)),
         NEW n \in 0..Len(es)
  PROVE  KeepsUpTo(S, kept, es, ago, n)
<1>0. Len(es) \in Nat /\ DOMAIN es = 1..Len(es) /\ \A i \in 1..Len(es) : es[i] \in S
  BY LenProperties
<1> DEFINE Bad == {m \in 0..Len(es) : ~ KeepsUpTo(S, kept, es, ago, m)}
<1> SUFFICES ASSUME Bad # {} PROVE FALSE
  OBVIOUS
<1>1. PICK m \in Bad : \A k \in Bad : m <= k
  <2>1. Bad \subseteq Nat
    BY <1>0
  <2> HIDE DEF Bad
  <2>2. QED
    BY <2>1, LeastNatural
<1>2. m # 0
  <2>1. kept[0] = <<>>
    BY <1>0, PrunedPrefixes
  <2>2. kept[0] \in Seq(S) /\ Len(kept[0]) = 0 /\ DOMAIN kept[0] = {}
    BY <2>1, EmptySeq
  <2>3. KeepsUpTo(S, kept, es, ago, 0)
    BY <2>2 DEF KeepsUpTo
  <2>4. QED
    BY <2>3
<1>3. /\ m \in 1..Len(es) /\ m - 1 \in 0..Len(es) /\ m - 1 \notin Bad
      /\ m \in Nat /\ m - 1 \in Nat
  BY <1>0, <1>1, <1>2
<1>4. KeepsUpTo(S, kept, es, ago, m - 1)
  BY <1>3
<1>5. /\ es[m] \in S
      /\ kept[m] = IF Unexpired(es[m], ago) THEN Append(kept[m - 1], es[m])
                   ELSE kept[m - 1]
  BY <1>0, <1>2, <1>3, PrunedPrefixes
<1>6. CASE ~Unexpired(es[m], ago)
  <2>1. kept[m] = kept[m - 1]
    BY <1>5, <1>6
  <2>2. KeepsUpTo(S, kept, es, ago, m)
    BY <1>3, <1>4, <1>6, <2>1, LenProperties DEF KeepsUpTo
  <2>3. QED
    BY <2>2
<1>7. CASE Unexpired(es[m], ago)
  <2> DEFINE old == kept[m - 1]
             new == kept[m]
  <2>1. old \in Seq(S) /\ new = Append(old, es[m]) /\ Len(old) <= m - 1
    BY <1>4, <1>5, <1>7 DEF KeepsUpTo
  <2>2. /\ \A j \in 1..Len(old) : /\ Unexpired(old[j], ago)
                                  /\ \E i \in 1..(m - 1) : old[j] = es[i]
        /\ \A i \in 1..(m - 1) :
             Unexpired(es[i], ago) => \E j \in 1..Len(old) : old[j] = es[i]
    BY <1>4, <2>1, LenProperties DEF KeepsUpTo
  <2> HIDE DEF old, new
  <2>3. /\ new \in Seq(S) /\ Len(old) \in Nat /\ Len(new) = Len(old) + 1
        /\ new[Len(old) + 1] = es[m]
        /\ DOMAIN new = 1..(Len(old) + 1)
        /\ \A j \in 1..Len(old) : new[j] = old[j]
    BY <1>5, <2>1, AppendProperties, LenProperties
  <2>4. \A j \in DOMAIN new : /\ Unexpired(new[j], ago)
                              /\ \E i \in 1..m : new[j] = es[i]
    <3> SUFFICES ASSUME NEW j \in 1..(Len(old) + 1)
                 PROVE  /\ Unexpired(new[j], ago)
                        /\ \E i \in 1..m : new[j] = es[i]
      BY <2>3
    <3>1. CASE j = Len(old) + 1
      BY <1>3, <1>7, <2>3, <3>1
    <3>2. CASE j # Len(old) + 1
      <4>1. j \in 1..Len(old) /\ new[j] = old[j]
        BY <2>3, <3>2
      <4>2. QED
        BY <1>3, <2>2, <4>1
    <3>3. QED
      BY <3>1, <3>2
  <2>5. \A i \in 1..m :
          Unexpired(es[i], ago) => \E j \in DOMAIN new : new[j] = es[i]
    <3> SUFFICES ASSUME NEW i \in 1..m, Unexpired(es[i], ago)
                 PROVE  \E j \in 1..(Len(old) + 1) : new[j] = es[i]
      BY <2>3
    <3>1. CASE i = m
      BY <2>3, <3>1
    <3>2. CASE i # m
      <4>1. PICK j \in 1..Len(old) : old[j] = es[i]
        BY <1>3, <2>2, <3>2
      <4>2. QED
        BY <2>3, <4>1
    <3>3. QED
      BY <3>1, <3>2
  <2>6. KeepsUpTo(S, kept, es, ago, m)
    <3>1. Len(new) <= m
      BY <1>3, <2>1, <2>3
    <3>2. QED
      BY <2>3, <2>4, <2>5, <3>1 DEF KeepsUpTo, new
  <2>7. QED
    BY <2>6
<1>8. QED
  BY <1>6, <1>7

(* Pruning keeps the entries that are alive, and no others. *)
LEMMA PrunedFacts ==
  ASSUME NEW S, NEW es \in Seq(S), NEW ago
  PROVE  /\ Pruned(es, ago) \in Seq(S)
         /\ Len(Pruned(es, ago)) <= Len(es)
         /\ \A j \in DOMAIN Pruned(es, ago) :
              /\ Unexpired(Pruned(es, ago)[j], ago)
              /\ \E i \in DOMAIN es : Pruned(es, ago)[j] = es[i]
         /\ \A i \in DOMAIN es :
              Unexpired(es[i], ago) =>
                \E j \in DOMAIN Pruned(es, ago) : Pruned(es, ago)[j] = es[i]
<1> DEFINE kept == CHOOSE f : PrunesPrefixes(f, es, ago, Len(es))
<1>1. Pruned(es, ago) = kept[Len(es)]
  BY DEF Pruned, PrunesPrefixes
<1>2. PrunesPrefixes(kept, es, ago, Len(es))
  BY PrefixesCanBePruned, LenProperties
<1> HIDE DEF kept
<1>3. KeepsUpTo(S, kept, es, ago, Len(es))
  BY <1>2, PrefixFacts, LenProperties
<1>4. QED
  BY <1>1, <1>3, LenProperties DEF KeepsUpTo
-----------------------------------------------------------------------------
LEMMA SimilarityType ==
  ASSUME NEW q \in Queries, NEW k \in Queries
  PROVE  Similarity(q, k) \in 0..Exact /\ Exact \in Nat \ {0} /\ Threshold \in 0..Exact
BY CacheAssumption DEF Similarity

(* A list that holds something similar has a best match. *)
LEMMA BestExists ==
  ASSUME NEW S, NEW es \in Seq(S), NEW q \in Queries,
         \A i \in DOMAIN es : es[i].key \in Queries,
         NEW i \in DOMAIN es, Similarity(q, es[i].key) > 0
  PROVE  \E b \in Best(q, es) : Similarity(q, es[b].key) >= Similarity(q, es[i].key)
<1> DEFINE Score(j) == Similarity(q, es[j].key)
           Gaps == {Exact - Score(j) : j \in DOMAIN es}
<1>1. \A j \in DOMAIN es : Score(j) \in 0..Exact
  BY SimilarityType
<1>2. DOMAIN es \subseteq Nat /\ Exact \in Nat
  BY LenProperties, CacheAssumption
<1> HIDE DEF Score
<1>3. PICK gap \in Gaps : \A other \in Gaps : gap <= other
  <2>1. Gaps \subseteq Nat /\ Gaps # {}
    BY <1>1, <1>2
  <2> HIDE DEF Gaps
  <2>2. QED
    BY <2>1, LeastNatural
<1> DEFINE Tops == {j \in DOMAIN es : Exact - Score(j) = gap}
<1>4. PICK b \in Tops : \A j \in Tops : b <= j
  <2>1. Tops \subseteq Nat /\ Tops # {}
    BY <1>2, <1>3
  <2> HIDE DEF Tops
  <2>2. QED
    BY <2>1, LeastNatural
<1>5. \A j \in DOMAIN es : Score(j) < Score(b) \/ (Score(j) = Score(b) /\ b <= j)
  <2> SUFFICES ASSUME NEW j \in DOMAIN es
               PROVE  Score(j) < Score(b) \/ (Score(j) = Score(b) /\ b <= j)
    OBVIOUS
  <2>1. Exact - Score(b) <= Exact - Score(j)
    BY <1>3, <1>4
  <2>2. Score(j) = Score(b) => j \in Tops
    BY <1>4
  <2>3. QED
    BY <1>1, <1>2, <1>4, <2>1, <2>2
<1>6. Score(b) >= Score(i) /\ Score(b) > 0
  <2>1. Score(i) > 0
    BY DEF Score
  <2>2. QED
    BY <1>1, <1>2, <1>4, <1>5, <2>1
<1>7. b \in Best(q, es)
  BY <1>4, <1>5, <1>6 DEF Best, Score
<1>8. QED
  BY <1>6, <1>7 DEF Score

(* Neither the guard nor a better match of another query hides a query's   *)
(* own entry from it.                                                      *)
LEMMA OwnEntryIsHit ==
  ASSUME NEW S, NEW es \in Seq(S), NEW q \in Queries,
         \A i \in DOMAIN es : es[i].key \in Queries,
         NEW i \in DOMAIN es, es[i].key = q
  PROVE  Hits(q, es) # {}
<1>1. Similarity(q, es[i].key) = Exact /\ Exact \in Nat \ {0} /\ Threshold \in 0..Exact
  BY CacheAssumption DEF Similarity
<1>2. PICK b \in Best(q, es) : Similarity(q, es[b].key) >= Exact
  BY <1>1, BestExists
<1>3. b \in DOMAIN es /\ es[b].key \in Queries
  BY DEF Best
<1>4. Similarity(q, es[b].key) = Exact
  BY <1>1, <1>2, <1>3, SimilarityType
<1>5. Numbers[q] = Numbers[es[b].key]
  BY <1>3, <1>4, CacheAssumption DEF Similarity
<1>6. b \in Hits(q, es)
  BY <1>1, <1>4, <1>5 DEF Hits, LooksLikeFalseHit
<1>7. QED
  BY <1>6

(* What is found among pruned entries is acceptable, but for its age that  *)
(* pruning has seen to.                                                    *)
LEMMA HitFacts ==
  ASSUME NEW q, NEW es, NEW i \in Hits(q, es)
  PROVE  /\ i \in DOMAIN es
         /\ Similarity(q, es[i].key) >= Threshold
         /\ ~LooksLikeFalseHit(q, es[i].key)
BY DEF Hits, Best
=============================================================================
