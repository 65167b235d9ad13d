-------------------------- MODULE MCCircuitBreaker --------------------------
(* Small instances of CircuitBreaker for TLC. *)
EXTENDS CircuitBreaker, TLC

(* Threads are interchangeable: sound for the safety runs only. *)
ThreadSymmetry == Permutations(Threads)
=============================================================================
