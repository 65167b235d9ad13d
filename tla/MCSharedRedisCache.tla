------------------------- MODULE MCSharedRedisCache -------------------------
(* A small instance of SharedRedisCache for TLC: a question about 2023,    *)
(* the same about 2024, the same about no year, and a private one.         *)
EXTENDS SharedRedisCache, TLC

CONSTANTS q2023, q2024, general, secret, k2023, k2024, kgeneral

MCQueries == {q2023, q2024, general, secret}
MCPrivate == {secret}
MCNumbers ==
  [q \in MCQueries |-> CASE q = q2023 -> {2023} [] q = q2024 -> {2024} [] OTHER -> {}]
MCCosine ==
  [q \in MCQueries |-> [k \in MCQueries |->
     CASE q = k -> 2 [] secret \in {q, k} -> 0 [] OTHER -> 1]]
MCHash ==
  [q \in MCQueries \ MCPrivate |->
     CASE q = q2023 -> k2023 [] q = q2024 -> k2024 [] OTHER -> kgeneral]

MCReplicaOf == [t \in Threads |-> t]
ReplicaSymmetry == Permutations(Threads)
=============================================================================
