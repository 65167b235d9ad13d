-------------------------- MODULE MCResponseCache --------------------------
(* Small instances of ResponseCache for TLC: a long question about 2023,   *)
(* the same about 2024, the same about no year, one without a token to     *)
(* compare, and a private one.  The years make less of a difference to the *)
(* cosine than leaving them out does.                                      *)
EXTENDS ResponseCache, TLC

CONSTANTS q2023, q2024, general, blank, secret

MCQueries == {q2023, q2024, general, blank, secret}
MCPrivate == {secret}
MCNumbers ==
  [q \in MCQueries |-> CASE q = q2023 -> {2023} [] q = q2024 -> {2024} [] OTHER -> {}]

MCCosine ==
  [q \in MCQueries |-> [k \in MCQueries |->
     CASE q = blank \/ k = blank     -> 0
       [] q = k                      -> 4
       [] q = secret \/ k = secret   -> 1
       [] {q, k} = {q2023, q2024}    -> 3
       [] OTHER                      -> 2]]

ThreadSymmetry == Permutations(Threads)
=============================================================================
