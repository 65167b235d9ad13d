--------------------------- MODULE CacheMatching ---------------------------
(***************************************************************************)
(* How a cache finds the answer to a query among its entries (cache.py):   *)
(* what the in-memory ResponseCache and the SharedRedisCache share.        *)
(*                                                                         *)
(* Abstractions of data: a query is a name with the numbers it contains;   *)
(* cosine similarity is a table in units of which Exact is 1.0; an entry   *)
(* has the query it answers, its key, and an age in place of its           *)
(* created_at.                                                             *)
(***************************************************************************)
EXTENDS Integers, Sequences

CONSTANTS
  Queries,
  Private,      \* the queries that _is_uncacheable
  Numbers,      \* Numbers[q]: the four-digit numbers in q
  Cosine,       \* Cosine[q][k]: the cosine of the token vectors
  Exact,        \* 1.0
  Threshold,    \* similarity_threshold
  TTL           \* ttl_seconds, in clock ticks

(* Vectors that point the same way have the same tokens, numbers included. *)
ASSUME CacheAssumption ==
  /\ Private \subseteq Queries
  /\ Exact \in Nat \ {0} /\ Threshold \in 0..Exact
  /\ Cosine \in [Queries -> [Queries -> 0..Exact]]
  /\ \A q, k \in Queries : Cosine[q][k] = Exact => Numbers[q] = Numbers[k]
  /\ TTL \in Nat \ {0}
-----------------------------------------------------------------------------
(* The guard against number mismatches. *)
LooksLikeFalseHit(q, k) ==
  Numbers[q] # {} /\ Numbers[k] # {} /\ Numbers[q] # Numbers[k]

(* Mutant: the case of equal strings is left to the cosine, which is 0 for *)
(* a query without any token.                                              *)
SimilarityByTokens(q, k) == Cosine[q][k]
Similarity(q, k) == IF q = k THEN Exact ELSE Cosine[q][k]

(* Not expired at a time so many ticks ago. *)
(* Mutant: an entry does not live to the end of its TTL. *)
UnexpiredStrictly(e, ago) == e.age - ago < TTL
Unexpired(e, ago) == e.age - ago <= TTL

(* The entries that are unexpired, in their order: SelectSeq written out,  *)
(* because the provers know nothing of that operator.                      *)
Pruned(es, ago) ==
  LET kept[n \in 0..Len(es)] ==
        IF n = 0 THEN <<>>
        ELSE IF Unexpired(es[n], ago) THEN Append(kept[n - 1], es[n])
        ELSE kept[n - 1]
  IN kept[Len(es)]

(* The index of the first of the most similar entries, if any is similar. *)
Best(q, es) ==
  LET Score(i) == Similarity(q, es[i].key)
  IN {i \in DOMAIN es :
        /\ Score(i) > 0
        /\ \A j \in DOMAIN es :
             Score(j) < Score(i) \/ (Score(j) = Score(i) /\ i <= j)}

(* The entries that lookup returns: the best one or none. *)
(* Mutant: the guard is left out. *)
HitsUnguarded(q, es) ==
  {i \in Best(q, es) : Similarity(q, es[i].key) >= Threshold}
Hits(q, es) ==
  {i \in Best(q, es) : /\ Similarity(q, es[i].key) >= Threshold
                       /\ ~LooksLikeFalseHit(q, es[i].key)}

(* An entry that may answer a query. *)
Acceptable(q, e) ==
  /\ Similarity(q, e.key) >= Threshold
  /\ ~LooksLikeFalseHit(q, e.key)
  /\ e.age <= TTL
=============================================================================
