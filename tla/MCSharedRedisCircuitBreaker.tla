-------------------- MODULE MCSharedRedisCircuitBreaker --------------------
(* Small instances of SharedRedisCircuitBreaker for TLC. *)
EXTENDS SharedRedisCircuitBreaker, TLC

(* Clients are interchangeable: sound for the safety runs only. *)
ClientSymmetry == Permutations(Clients)
=============================================================================
