-------------------------- MODULE ScenarioRunProofs --------------------------
(***************************************************************************)
(* Theorems about a scenario run, for every pool of workers, list of       *)
(* providers, scenario, threshold and batch.  The argument has these       *)
(* parts, each an invariant that rests on those before it:                 *)
(*   GInv  what GatewayProofs shows of the gateway survives the repair     *)
(*   TInv  the types of the runner's own variables                         *)
(*   MInv  a breaker's timer and its log tell the same time                *)
(*   DInv  no call of a repaired provider is bound to fail                 *)
(*   PInv  a request tries the providers in order and skips none           *)
(*   BInv  the responses, the money spent and the requests due balance     *)
(*   EInv  when the run is done its workers are                            *)
(*   LInv  the latencies are a list of those that were measured            *)
(*   OInv  unanswered attempts explain every opening of a circuit          *)
(*   HInv  a provider that never fails passes no request on                *)
(*   KInv  what the cache has to give was bought from a provider           *)
(*   VInv  where the circuit of a primary stands that is repaired          *)
(* The metrics are sums over bags and loops over logs, recursive functions *)
(* both; what one more element adds to them is shown first, by the         *)
(* smallest counterexample there could be.  The percentiles are a matter   *)
(* of the sorted list alone: its positions exist by rank, and going up in  *)
(* hundredths of a position the interpolated value never goes down.        *)
(***************************************************************************)
EXTENDS ScenarioRun, GatewayProofs, SequenceTheorems
-----------------------------------------------------------------------------
(* A sum over a set is a recursive function on its subsets.                *)
Some(S) == CHOOSE x \in S : TRUE

SumsUp(sum, f, D) ==
  sum = [S \in D |-> IF S = {} THEN 0 ELSE f[Some(S)] + sum[S \ {Some(S)}]]

(* The subsets of S with at most n elements.                               *)
Small(S, n) == {T \in SUBSET S : Cardinality(T) <= n}

(* Every set of naturals that is not empty has a least element.            *)
LEMMA Least ==
  ASSUME NEW T, T \subseteq Nat, T # {}
  PROVE  \E x \in T : \A y \in T : x <= y
<1> DEFINE UpTo == {0..n : n \in T}
<1>1. \A n \in Nat : 0..n \in FiniteSubsetsOf(Nat)
  BY FS_Interval DEF FiniteSubsetsOf
<1>2. UpTo \subseteq FiniteSubsetsOf(Nat) /\ UpTo # {}
  BY <1>1
<1>3. IsWellFoundedOn(StrictSubsetOrdering(Nat), FiniteSubsetsOf(Nat))
  BY FS_StrictSubsetOrderingWellFounded
<1> HIDE DEF UpTo
<1>4. PICK I \in UpTo : \A J \in UpTo : <<J, I>> \notin StrictSubsetOrdering(Nat)
  BY <1>2, <1>3, WFMin
<1>5. PICK x \in T : I = 0..x
  BY DEF UpTo
<1>6. ASSUME NEW y \in T, y < x PROVE FALSE
  <2>1. 0..y \in UpTo
    BY DEF UpTo
  <2>2. <<0..y, 0..x>> \in StrictSubsetOrdering(Nat)
    BY <1>6 DEF StrictSubsetOrdering
  <2>3. QED
    BY <1>4, <1>5, <2>1, <2>2
<1>7. QED
  BY <1>6

(* A subset of a finite set, without the element that is taken first. *)
LEMMA WithoutSome ==
  ASSUME NEW S, IsFiniteSet(S), NEW T \in SUBSET S
  PROVE  /\ IsFiniteSet(T) /\ Cardinality(T) \in Nat
         /\ Cardinality(T) = 0 <=> T = {}
         /\ T # {} => /\ Some(T) \in T
                      /\ Cardinality(T \ {Some(T)}) = Cardinality(T) - 1
         /\ \A x \in T : Cardinality(T \ {x}) = Cardinality(T) - 1
<1>1. IsFiniteSet(T)
  BY FS_Subset
<1>2. Cardinality(T) \in Nat
  BY <1>1, FS_CardinalityType
<1>3. Cardinality(T) = 0 <=> T = {}
  BY <1>1, FS_EmptySet
<1>4. T # {} => Some(T) \in T
  BY DEF Some
<1>5. \A x \in T : Cardinality(T \ {x}) = Cardinality(T) - 1
  BY <1>1, FS_RemoveElement
<1>6. QED
  BY <1>1, <1>2, <1>3, <1>4, <1>5

(* The recursion defines a function on ever larger subsets, and so on all  *)
(* of them.                                                                *)
LEMMA SumsExistUpTo ==
  ASSUME NEW f, NEW S, IsFiniteSet(S), NEW n \in Nat
  PROVE  \E sum : SumsUp(sum, f, Small(S, n))
<1> DEFINE Bad == {m \in Nat : ~ \E sum : SumsUp(sum, f, Small(S, m))}
<1> SUFFICES ASSUME Bad # {} PROVE FALSE
  OBVIOUS
<1>1. PICK m \in Bad : \A k \in Bad : m <= k
  BY Least
<1>2. m # 0
  <2>1. Small(S, 0) = {{}}
    <3>1. \A T \in SUBSET S : Cardinality(T) \in Nat /\ (Cardinality(T) = 0 <=> T = {})
      BY WithoutSome
    <3>2. QED
      BY <3>1 DEF Small
  <2>2. SumsUp([T \in Small(S, 0) |-> 0], f, Small(S, 0))
    BY <2>1 DEF SumsUp
  <2>3. QED
    BY <2>2
<1>3. PICK sum : SumsUp(sum, f, Small(S, m - 1))
  BY <1>1, <1>2
<1> DEFINE more == [T \in Small(S, m) |->
                      IF T = {} THEN 0 ELSE f[Some(T)] + sum[T \ {Some(T)}]]
<1>4. \A T \in Small(S, m - 1) :
        sum[T] = IF T = {} THEN 0 ELSE f[Some(T)] + sum[T \ {Some(T)}]
  BY <1>3 DEF SumsUp
<1>5. ASSUME NEW T \in Small(S, m), T # {}
      PROVE  more[T \ {Some(T)}] = sum[T \ {Some(T)}]
  <2> DEFINE R == T \ {Some(T)}
  <2>1. T \in SUBSET S /\ Cardinality(T) <= m
    BY DEF Small
  <2>2. Cardinality(R) = Cardinality(T) - 1 /\ Cardinality(T) \in Nat
    BY <1>5, <2>1, WithoutSome
  <2>3. R \in Small(S, m - 1) /\ R \in Small(S, m)
    BY <1>2, <2>1, <2>2 DEF Small
  <2> HIDE DEF R
  <2>4. more[R] = sum[R]
    BY <1>4, <2>3
  <2>5. QED
    BY <2>4 DEF R
<1>6. SumsUp(more, f, Small(S, m))
  BY <1>5 DEF SumsUp
<1>7. QED
  BY <1>6

LEMMA SumsExist ==
  ASSUME NEW f, NEW S, IsFiniteSet(S)
  PROVE  \E sum : SumsUp(sum, f, SUBSET S)
<1>1. Cardinality(S) \in Nat
  BY FS_CardinalityType
<1>2. \A T \in SUBSET S : Cardinality(T) <= Cardinality(S)
  BY FS_Subset
<1>3. Small(S, Cardinality(S)) = SUBSET S
  BY <1>2 DEF Small
<1>4. \E sum : SumsUp(sum, f, Small(S, Cardinality(S)))
  BY <1>1, SumsExistUpTo
<1>5. QED
  BY <1>3, <1>4

(* Two of these functions agree wherever their summands do. *)
LEMMA SumsAgree ==
  ASSUME NEW S, IsFiniteSet(S), NEW T, IsFiniteSet(T),
         NEW f, NEW sum, SumsUp(sum, f, SUBSET S),
         NEW g, NEW tum, SumsUp(tum, g, SUBSET T),
         NEW R, R \subseteq S, R \subseteq T, \A x \in R : f[x] = g[x]
  PROVE  sum[R] = tum[R]
<1> DEFINE Wrong(Q) == Q \subseteq R /\ sum[Q] # tum[Q]
           Bad == {Cardinality(Q) : Q \in {P \in SUBSET R : Wrong(P)}}
<1> SUFFICES ASSUME Wrong(R) PROVE FALSE
  OBVIOUS
<1>0. \A Q \in SUBSET R : Q \in SUBSET S /\ Q \in SUBSET T
  OBVIOUS
<1>1. \A Q \in SUBSET R : Cardinality(Q) \in Nat
  BY <1>0, WithoutSome
<1>2. PICK n \in Bad : \A m \in Bad : n <= m
  <2>1. Bad # {} /\ Bad \subseteq Nat
    BY <1>1
  <2> HIDE DEF Bad
  <2>2. QED
    BY <2>1, Least
<1>3. PICK Q \in SUBSET R : Wrong(Q) /\ n = Cardinality(Q)
  BY <1>2
<1>4. \A P \in SUBSET R : Cardinality(P) < Cardinality(Q) => sum[P] = tum[P]
  BY <1>1, <1>2, <1>3
<1>5. /\ sum[Q] = IF Q = {} THEN 0 ELSE f[Some(Q)] + sum[Q \ {Some(Q)}]
      /\ tum[Q] = IF Q = {} THEN 0 ELSE g[Some(Q)] + tum[Q \ {Some(Q)}]
  BY <1>0 DEF SumsUp
<1>6. Q # {}
  BY <1>3, <1>5
<1>7. Some(Q) \in Q /\ Cardinality(Q \ {Some(Q)}) < Cardinality(Q)
  BY <1>0, <1>1, <1>6, WithoutSome
<1>8. sum[Q \ {Some(Q)}] = tum[Q \ {Some(Q)}] /\ f[Some(Q)] = g[Some(Q)]
  BY <1>4, <1>7
<1>9. QED
  BY <1>3, <1>5, <1>6, <1>8

(* What SumFunctionOnSet computes. *)
LEMMA SumIs ==
  ASSUME NEW f, NEW S, IsFiniteSet(S)
  PROVE  \E sum : SumsUp(sum, f, SUBSET S) /\ SumFunctionOnSet(f, S) = sum[S]
<1> DEFINE sum == CHOOSE sum : SumsUp(sum, f, SUBSET S)
<1>1. SumsUp(sum, f, SUBSET S)
  BY SumsExist
<1>2. SumFunctionOnSet(f, S) = sum[S]
  BY DEF SumFunctionOnSet, FoldFunctionOnSet, MapThenFoldSet, SumsUp, Some
<1>3. QED
  BY <1>1, <1>2

(* A sum takes its elements one by one.                                    *)
LEMMA SumUnfold ==
  ASSUME NEW f, NEW S, IsFiniteSet(S)
  PROVE  SumFunctionOnSet(f, S) =
           IF S = {} THEN 0
           ELSE f[Some(S)] + SumFunctionOnSet(f, S \ {Some(S)})
<1>1. PICK sum : SumsUp(sum, f, SUBSET S) /\ SumFunctionOnSet(f, S) = sum[S]
  BY SumIs
<1> DEFINE T == S \ {Some(S)}
<1>2. IsFiniteSet(T)
  BY FS_Subset
<1>3. PICK tum : SumsUp(tum, f, SUBSET T) /\ SumFunctionOnSet(f, T) = tum[T]
  BY <1>2, SumIs
<1>4. sum[T] = tum[T]
  <2>1. T \subseteq S /\ T \subseteq T /\ \A x \in T : f[x] = f[x]
    OBVIOUS
  <2> HIDE DEF T
  <2>2. QED
    BY <1>1, <1>2, <1>3, <2>1, SumsAgree
<1>5. sum[S] = IF S = {} THEN 0 ELSE f[Some(S)] + sum[T]
  BY <1>1 DEF SumsUp
<1>6. QED
  BY <1>1, <1>3, <1>4, <1>5

(* Summands that are equal have equal sums. *)
LEMMA SumSame ==
  ASSUME NEW f, NEW g, NEW S, IsFiniteSet(S), \A x \in S : f[x] = g[x]
  PROVE  SumFunctionOnSet(f, S) = SumFunctionOnSet(g, S)
<1>1. PICK sum : SumsUp(sum, f, SUBSET S) /\ SumFunctionOnSet(f, S) = sum[S]
  BY SumIs
<1>2. PICK tum : SumsUp(tum, g, SUBSET S) /\ SumFunctionOnSet(g, S) = tum[S]
  BY SumIs
<1>3. sum[S] = tum[S]
  <2>1. S \subseteq S
    OBVIOUS
  <2>2. QED
    BY <1>1, <1>2, <2>1, SumsAgree
<1>4. QED
  BY <1>1, <1>2, <1>3

(* The order of summation does not matter. *)
LEMMA SumRemove ==
  ASSUME NEW f, NEW S, IsFiniteSet(S), \A x \in S : f[x] \in Int
  PROVE  /\ SumFunctionOnSet(f, S) \in Int
         /\ \A x \in S :
              SumFunctionOnSet(f, S) = f[x] + SumFunctionOnSet(f, S \ {x})
<1> DEFINE Sum(T) == SumFunctionOnSet(f, T)
           Right(T) == Sum(T) \in Int /\ \A x \in T : Sum(T) = f[x] + Sum(T \ {x})
           Bad == {Cardinality(T) : T \in {P \in SUBSET S : ~Right(P)}}
<1> SUFFICES ASSUME ~Right(S) PROVE FALSE
  OBVIOUS
<1>1. \A T \in SUBSET S : IsFiniteSet(T) /\ Cardinality(T) \in Nat
  BY WithoutSome
<1>2. PICK n \in Bad : \A m \in Bad : n <= m
  <2>1. Bad # {} /\ Bad \subseteq Nat
    BY <1>1
  <2> HIDE DEF Bad
  <2>2. QED
    BY <2>1, Least
<1>3. PICK T \in SUBSET S : ~Right(T) /\ n = Cardinality(T)
  BY <1>2
<1>4. \A P \in SUBSET S : Cardinality(P) < Cardinality(T) => Right(P)
  BY <1>1, <1>2, <1>3
<1> HIDE DEF Bad
<1> DEFINE c == Some(T)
<1>5. Sum(T) = IF T = {} THEN 0 ELSE f[c] + Sum(T \ {c})
  BY <1>1, SumUnfold
<1> HIDE DEF Sum
<1>6. T # {}
  BY <1>3, <1>5
<1>7. /\ c \in T /\ Cardinality(T \ {c}) < Cardinality(T)
      /\ \A x \in T : Cardinality(T \ {x}) < Cardinality(T)
  <2>1. Cardinality(T) \in Nat /\ Cardinality(T) # 0
    BY <1>6, WithoutSome
  <2>2. c \in T /\ \A x \in T : Cardinality(T \ {x}) = Cardinality(T) - 1
    BY <1>6, WithoutSome
  <2>3. QED
    BY <2>1, <2>2
<1> HIDE DEF c
<1>8. Right(T \ {c})
  BY <1>4, <1>7
<1>9. Sum(T) = f[c] + Sum(T \ {c}) /\ Sum(T) \in Int
  BY <1>5, <1>6, <1>7, <1>8
<1>10. ASSUME NEW x \in T, x # c PROVE Sum(T) = f[x] + Sum(T \ {x})
  <2>1. Right(T \ {x})
    BY <1>4, <1>7
  <2>2. (T \ {x}) \ {c} = (T \ {c}) \ {x}
    OBVIOUS
  <2>3. Sum(T \ {x}) = f[c] + Sum((T \ {c}) \ {x})
    BY <1>7, <1>10, <2>1, <2>2
  <2>4. Sum(T \ {c}) = f[x] + Sum((T \ {c}) \ {x})
    BY <1>8, <1>10
  <2>5. /\ f[c] \in Int /\ f[x] \in Int
        /\ Sum(T \ {x}) \in Int /\ Sum(T \ {c}) \in Int
    BY <1>7, <1>8, <2>1
  <2>6. Right((T \ {c}) \ {x})
    <3>1. Cardinality((T \ {c}) \ {x}) < Cardinality(T)
      <4>1. T \ {c} \in SUBSET S /\ x \in T \ {c}
        BY <1>10
      <4>2. Cardinality((T \ {c}) \ {x}) = Cardinality(T \ {c}) - 1
        BY <4>1, WithoutSome
      <4>3. QED
        BY <1>1, <1>7, <4>1, <4>2
    <3>2. QED
      BY <1>4, <3>1
  <2>7. QED
    BY <1>9, <2>3, <2>4, <2>5, <2>6
<1>11. QED
  BY <1>3, <1>9, <1>10

(* One summand has grown, or is new. *)
LEMMA SumBump ==
  ASSUME NEW S, IsFiniteSet(S), NEW x, NEW f, NEW g, NEW k \in Int,
         \A y \in S : f[y] \in Int,
         \A y \in S : y # x => g[y] = f[y],
         g[x] = (IF x \in S THEN f[x] ELSE 0) + k
  PROVE  /\ SumFunctionOnSet(f, S) \in Int
         /\ SumFunctionOnSet(g, S \cup {x}) = SumFunctionOnSet(f, S) + k
<1> DEFINE T == S \cup {x}
           R == S \ {x}
<1>1. IsFiniteSet(T) /\ IsFiniteSet(R) /\ x \in T /\ T \ {x} = R
  BY FS_AddElement, FS_RemoveElement
<1>2. g[x] \in Int /\ \A y \in T : g[y] \in Int
  OBVIOUS
<1>3. SumFunctionOnSet(g, T) = g[x] + SumFunctionOnSet(g, R)
  BY <1>1, <1>2, SumRemove
<1>4. SumFunctionOnSet(g, R) = SumFunctionOnSet(f, R)
  <2>1. \A y \in R : g[y] = f[y]
    OBVIOUS
  <2> HIDE DEF R
  <2>2. QED
    BY <1>1, <2>1, SumSame
<1>5. SumFunctionOnSet(f, R) \in Int /\ SumFunctionOnSet(f, S) \in Int
  BY <1>1, SumRemove
<1>6. SumFunctionOnSet(f, S) = (IF x \in S THEN f[x] ELSE 0) + SumFunctionOnSet(f, R)
  <2>1. CASE x \in S
    <3>1. SumFunctionOnSet(f, S) = f[x] + SumFunctionOnSet(f, R)
      BY <2>1, SumRemove
    <3>2. QED
      BY <2>1, <3>1
  <2>2. CASE x \notin S
    <3>1. R = S
      BY <2>2
    <3> HIDE DEF R
    <3>2. SumFunctionOnSet(f, R) = SumFunctionOnSet(f, S)
      BY <3>1
    <3>3. QED
      BY <1>5, <2>2, <3>2
  <2>3. QED
    BY <2>1, <2>2
<1>7. QED
  BY <1>3, <1>4, <1>5, <1>6

(* A sum stays in any set that is closed under addition.                   *)
SumsStayIn(N) == 0 \in N /\ \A a, b \in N : a + b \in N

LEMMA SumWithin ==
  ASSUME NEW N, SumsStayIn(N),
         NEW f, NEW S, IsFiniteSet(S), \A x \in S : f[x] \in N
  PROVE  SumFunctionOnSet(f, S) \in N
<1> DEFINE Sum(T) == SumFunctionOnSet(f, T)
           Bad == {Cardinality(T) : T \in {P \in SUBSET S : Sum(P) \notin N}}
<1> SUFFICES ASSUME Sum(S) \notin N PROVE FALSE
  OBVIOUS
<1>1. \A T \in SUBSET S : IsFiniteSet(T) /\ Cardinality(T) \in Nat
  BY WithoutSome
<1>2. PICK n \in Bad : \A m \in Bad : n <= m
  <2>1. Bad # {} /\ Bad \subseteq Nat
    BY <1>1
  <2> HIDE DEF Bad
  <2>2. QED
    BY <2>1, Least
<1>3. PICK T \in SUBSET S : Sum(T) \notin N /\ n = Cardinality(T)
  BY <1>2
<1>4. \A P \in SUBSET S : Cardinality(P) < Cardinality(T) => Sum(P) \in N
  BY <1>1, <1>2, <1>3
<1> HIDE DEF Bad
<1> DEFINE c == Some(T)
<1>5. Sum(T) = IF T = {} THEN 0 ELSE f[c] + Sum(T \ {c})
  BY <1>1, SumUnfold
<1> HIDE DEF Sum
<1>6. T # {}
  BY <1>3, <1>5 DEF SumsStayIn
<1>7. c \in T /\ Cardinality(T \ {c}) < Cardinality(T)
  <2>1. Cardinality(T) \in Nat /\ c \in T /\ Cardinality(T \ {c}) = Cardinality(T) - 1
    BY <1>6, WithoutSome
  <2>2. QED
    BY <2>1
<1>8. f[c] \in N /\ Sum(T \ {c}) \in N
  BY <1>4, <1>7
<1>9. QED
  BY <1>3, <1>5, <1>6, <1>8 DEF SumsStayIn

(* Natural summands have a natural sum, and it is positive just if one of  *)
(* them is.                                                                *)
LEMMA SumNat ==
  ASSUME NEW f, NEW S, IsFiniteSet(S), \A x \in S : f[x] \in Nat
  PROVE  SumFunctionOnSet(f, S) \in Nat
<1>1. SumsStayIn(Nat)
  BY DEF SumsStayIn
<1>2. QED
  BY <1>1, SumWithin

LEMMA SumPositive ==
  ASSUME NEW f, NEW S, IsFiniteSet(S), \A x \in S : f[x] \in Nat
  PROVE  SumFunctionOnSet(f, S) > 0 <=> \E x \in S : f[x] > 0
<1>1. ASSUME NEW x \in S, f[x] > 0 PROVE SumFunctionOnSet(f, S) > 0
  <2>1. SumFunctionOnSet(f, S) = f[x] + SumFunctionOnSet(f, S \ {x})
    BY SumRemove
  <2>2. SumFunctionOnSet(f, S \ {x}) \in Nat
    <3>1. IsFiniteSet(S \ {x}) /\ \A y \in S \ {x} : f[y] \in Nat
      BY FS_RemoveElement
    <3>2. QED
      BY <3>1, SumNat
  <2>3. QED
    BY <1>1, <2>1, <2>2
<1>2. ASSUME \A x \in S : ~(f[x] > 0) PROVE SumFunctionOnSet(f, S) = 0
  <2>1. \A x \in S : f[x] \in {0}
    BY <1>2
  <2>2. SumsStayIn({0})
    BY DEF SumsStayIn
  <2>3. SumFunctionOnSet(f, S) \in {0}
    BY <2>1, <2>2, SumWithin
  <2>4. QED
    BY <2>3
<1>3. QED
  BY <1>1, <1>2
-----------------------------------------------------------------------------
(* The loop over a log, one entry after the other. *)
Loops(loop, l, m) ==
  loop = [n \in 0..m |->
            IF n = 0 THEN [opened_at |-> NotOpen, times |-> <<>>]
            ELSE Measure(loop[n - 1], l[n])]

(* The loop exists for every length, and goes from entry to entry.         *)
LEMMA LoopExists ==
  ASSUME NEW l, NEW len \in Nat
  PROVE  \E loop : Loops(loop, l, len)
<1> DEFINE Bad == {m \in Nat : ~ \E loop : Loops(loop, l, m)}
<1> SUFFICES ASSUME Bad # {} PROVE FALSE
  OBVIOUS
<1>1. PICK m \in Bad : \A k \in Bad : m <= k
  BY Least
<1>2. m # 0
  <2>1. Loops([n \in 0..0 |-> [opened_at |-> NotOpen, times |-> <<>>]], l, 0)
    BY DEF Loops
  <2>2. QED
    BY <2>1
<1>3. PICK loop : Loops(loop, l, m - 1)
  BY <1>1, <1>2
<1> DEFINE more == [n \in 0..m |->
                      IF n = 0 THEN [opened_at |-> NotOpen, times |-> <<>>]
                      ELSE Measure(loop[n - 1], l[n])]
<1>4. \A n \in 0..(m - 1) :
        loop[n] = IF n = 0 THEN [opened_at |-> NotOpen, times |-> <<>>]
                  ELSE Measure(loop[n - 1], l[n])
  BY <1>3 DEF Loops
<1>5. \A n \in 0..(m - 1) : more[n] = loop[n]
  <2>1. \A n \in 0..(m - 1) : n \in 0..m
    BY <1>2
  <2>2. QED
    BY <1>4, <2>1
<1>7. \A n \in 0..m :
        more[n] = IF n = 0 THEN [opened_at |-> NotOpen, times |-> <<>>]
                  ELSE Measure(more[n - 1], l[n])
  <2>1. \A n \in 0..m :
          more[n] = IF n = 0 THEN [opened_at |-> NotOpen, times |-> <<>>]
                    ELSE Measure(loop[n - 1], l[n])
    OBVIOUS
  <2> HIDE DEF more
  <2>2. \A n \in 0..m : n # 0 => n - 1 \in 0..(m - 1)
    BY <1>2
  <2>3. QED
    BY <1>5, <2>1, <2>2
<1>8. Loops(more, l, m)
  BY <1>7 DEF Loops
<1>9. QED
  BY <1>8

LEMMA LoopStep ==
  ASSUME NEW l, NEW len \in Nat, NEW loop, Loops(loop, l, len)
  PROVE  /\ loop[0] = [opened_at |-> NotOpen, times |-> <<>>]
         /\ \A n \in 1..len : loop[n] = Measure(loop[n - 1], l[n])
<1>1. \A n \in 0..len :
        loop[n] = IF n = 0 THEN [opened_at |-> NotOpen, times |-> <<>>]
                  ELSE Measure(loop[n - 1], l[n])
  BY DEF Loops
<1>2. 0 \in 0..len /\ \A n \in 1..len : n \in 0..len /\ n # 0
  OBVIOUS
<1>3. QED
  BY <1>1, <1>2

(* Loops over logs with a common prefix agree on it. *)
LEMMA LoopPrefix ==
  ASSUME NEW l, NEW loop, NEW len \in Nat, Loops(loop, l, len),
         NEW k, NEW noop, NEW ken \in Nat, Loops(noop, k, ken),
         len <= ken, \A i \in 1..len : l[i] = k[i]
  PROVE  loop[len] = noop[len]
<1> DEFINE Bad == {m \in 0..len : loop[m] # noop[m]}
<1> SUFFICES ASSUME Bad # {} PROVE FALSE
  OBVIOUS
<1>1. PICK m \in Bad : \A n \in Bad : m <= n
  <2>1. Bad \subseteq Nat
    OBVIOUS
  <2> HIDE DEF Bad
  <2>2. QED
    BY <2>1, Least
<1>2. m # 0
  BY LoopStep
<1>3. m \in 1..len /\ m \in 1..ken /\ m - 1 \in 0..len /\ m - 1 \notin Bad
  BY <1>1, <1>2
<1>4. loop[m - 1] = noop[m - 1] /\ l[m] = k[m]
  BY <1>3
<1>5. loop[m] = Measure(loop[m - 1], l[m]) /\ noop[m] = Measure(noop[m - 1], k[m])
  BY <1>3, LoopStep
<1>6. loop[m] = noop[m]
  BY <1>4, <1>5
<1>7. QED
  BY <1>6

LEMMA MeasureAllIs ==
  ASSUME NEW l, Len(l) \in Nat
  PROVE  \E loop : Loops(loop, l, Len(l)) /\ MeasureAll(l) = loop[Len(l)]
<1> DEFINE loop == CHOOSE loop : Loops(loop, l, Len(l))
<1>1. Loops(loop, l, Len(l))
  BY LoopExists
<1>2. MeasureAll(l) = loop[Len(l)]
  BY DEF MeasureAll, Loops
<1>3. QED
  BY <1>1, <1>2

(* What an entry adds to the measurements. *)
LEMMA MeasureAppend ==
  ASSUME NEW S, NEW l \in Seq(S), NEW e \in S
  PROVE  /\ MeasureAll(<<>>) = [opened_at |-> NotOpen, times |-> <<>>]
         /\ MeasureAll(Append(l, e)) = Measure(MeasureAll(l), e)
<1> DEFINE k == Append(l, e)
<1>1. /\ Len(l) \in Nat /\ Len(k) = Len(l) + 1 /\ k[Len(k)] = e
      /\ \A i \in 1..Len(l) : l[i] = k[i]
  OBVIOUS
<1>2. MeasureAll(<<>>) = [opened_at |-> NotOpen, times |-> <<>>]
  <2>1. Len(<<>>) = 0
    OBVIOUS
  <2>2. PICK loop : Loops(loop, <<>>, 0) /\ MeasureAll(<<>>) = loop[0]
    BY <2>1, MeasureAllIs
  <2>3. QED
    BY <2>2, LoopStep
<1> HIDE DEF k
<1>3. PICK loop : Loops(loop, l, Len(l)) /\ MeasureAll(l) = loop[Len(l)]
  BY <1>1, MeasureAllIs
<1>4. PICK noop : Loops(noop, k, Len(k)) /\ MeasureAll(k) = noop[Len(k)]
  BY <1>1, MeasureAllIs
<1>5. loop[Len(l)] = noop[Len(l)]
  BY <1>1, <1>3, <1>4, LoopPrefix
<1>6. noop[Len(k)] = Measure(noop[Len(k) - 1], k[Len(k)])
  BY <1>1, <1>4, LoopStep
<1>7. MeasureAll(k) = Measure(MeasureAll(l), e)
  BY <1>1, <1>3, <1>4, <1>5, <1>6
<1>8. QED
  BY <1>2, <1>7 DEF k

(* What an entry adds to the count of a state. *)
LEMMA EnteredAppend ==
  ASSUME NEW S, NEW l \in Seq(S), NEW e \in S, NEW s
  PROVE  /\ Entered(s, <<>>) = 0
         /\ Entered(s, l) \in Nat
         /\ Entered(s, Append(l, e)) = Entered(s, l) + (IF e.to = s THEN 1 ELSE 0)
<1> DEFINE k == Append(l, e)
           where(j) == {i \in DOMAIN j : j[i].to = s}
<1>1. /\ Len(l) \in Nat /\ DOMAIN l = 1..Len(l) /\ DOMAIN k = 1..(Len(l) + 1)
      /\ k[Len(l) + 1] = e /\ \A i \in 1..Len(l) : l[i] = k[i]
  OBVIOUS
<1>2. where(<<>>) = {}
  OBVIOUS
<1>3. IsFiniteSet(1..Len(l)) /\ where(l) \subseteq 1..Len(l)
  BY <1>1, FS_Interval
<1>4. where(k) = IF e.to = s THEN where(l) \cup {Len(l) + 1} ELSE where(l)
  BY <1>1
<1>5. Len(l) + 1 \notin where(l)
  BY <1>1
<1>6. \A j : Entered(s, j) = Cardinality(where(j))
  BY DEF Entered
<1> HIDE DEF where
<1>7. IsFiniteSet(where(l)) /\ Cardinality(where(l)) \in Nat
  BY <1>3, FS_Subset, FS_CardinalityType
<1>8. Cardinality(where(l) \cup {Len(l) + 1}) = Cardinality(where(l)) + 1
  BY <1>5, <1>7, FS_AddElement
<1>9. Entered(s, k) = Cardinality(where(l)) + (IF e.to = s THEN 1 ELSE 0)
  <2>1. CASE e.to = s
    BY <1>4, <1>6, <1>8, <2>1
  <2>2. CASE e.to # s
    BY <1>4, <1>6, <1>7, <2>2
  <2>3. QED
    BY <2>1, <2>2
<1>10. Entered(s, <<>>) = 0
  BY <1>2, <1>6, FS_EmptySet
<1>11. QED
  BY <1>6, <1>7, <1>9, <1>10
-----------------------------------------------------------------------------
(* What the gateway's invariants are for the gateway's steps they are for  *)
(* the steps of a run, which add the repair to them.                       *)
GInv == IInv /\ CInv /\ NInv

LEMMA RunStepIsGatewayStep ==
  [RunNext]_<<gateway, run>> => [Next]_vars \/ Recover
BY DEF RunNext, TakeRequest, Proceed, ExpireAnswer, TimePasses, Collect, Next,
       Tick, AgeBreakers, gateway, vars, call

(* The breakers sleep past their timeouts. *)
Rested(b) ==
  [b EXCEPT !.opened_age = IF @ = NotOpened THEN @ ELSE ResetTimeout]

(* The sleep keeps a breaker sound and touches only its timer.             *)
LEMMA RestedSound ==
  ASSUME NEW b, SoundBreaker(b)
  PROVE  /\ SoundBreaker(Rested(b)) /\ Rested(b) \in Breaker
         /\ Rested(b).state = b.state
         /\ Rested(b).failure_count = b.failure_count
         /\ Rested(b).probe_in_flight = b.probe_in_flight
         /\ Rested(b).opened_age = IF b.opened_age = NotOpened THEN NotOpened
                                   ELSE ResetTimeout
BY ThresholdsAssumption
   DEF SoundBreaker, Rested, Breaker, NotOpened, BelowThreshold, Timed

LEMMA RecoverFacts ==
  ASSUME Recover
  PROVE  /\ phase = "first" /\ phase' = "last" /\ LeftInBatch = 0 /\ AllIdle
         /\ now' = now + ResetTimeout
         /\ breakers' = [p \in Providers |-> Rested(breakers[p])]
         /\ UNCHANGED <<left, pc, prompt, chain, serving, probing, cost, stored,
                        spent, executing, scenario, doomed, attempted, responses,
                        log, latencies>>
BY DEF Recover, Repair, call, Rested

LEMMA RecoverGInv == GInv /\ Recover => GInv'
<1> SUFFICES ASSUME GInv, Recover PROVE GInv'
  OBVIOUS
<1>1. /\ breakers' = [p \in Providers |-> Rested(breakers[p])]
      /\ UNCHANGED <<left, pc, prompt, chain, serving, probing, cost, stored,
                     spent, executing>>
  BY RecoverFacts
<1>2. IInv'
  BY <1>1 DEF GInv, IInv, Types, Consistent, Guarded, Alone, WithinLimits, Missed,
              Affordable, Cached
<1>3. NInv'
  BY <1>1 DEF GInv, NInv, DueBound, SpentBound, StoredBound, Due, Busy, Unstored, Buying
<1>4. CInv'
  <2>1. \A p \in Providers :
          /\ SoundBreaker(Rested(breakers[p])) /\ Rested(breakers[p]) \in Breaker
          /\ Rested(breakers[p]).probe_in_flight = breakers[p].probe_in_flight
    BY RestedSound DEF GInv, CInv
  <2>2. QED
    BY <1>1, <2>1 DEF GInv, CInv, NoLeakedProbe
<1>5. QED
  BY <1>2, <1>3, <1>4 DEF GInv

LEMMA NextGInv == GInv /\ [RunNext]_<<gateway, run>> => GInv'
BY RunStepIsGatewayStep, RecoverGInv, NextIInv, NextCInv, NextNInv DEF GInv

(* In every state of a run the gateway satisfies what GatewayProofs shows  *)
(* of it alone, the repair and the sleep between the batches included.     *)
THEOREM GatewayInvariance == RunSpec => []GInv
<1>1. RunInit => GInv
  BY InitIInv, InitCInv, InitNInv DEF RunInit, GInv
<1>2. QED
  BY <1>1, NextGInv, PTL DEF RunSpec
-----------------------------------------------------------------------------
(* The types of what the runner adds, except for the responses; and how    *)
(* far the clock has got.                                                  *)
Horizon ==
  MaxTicks + (IF Splits(scenario) /\ phase # "first" THEN ResetTimeout ELSE 0)

TInv ==
  /\ scenario \in Scenarios
  /\ phase \in {"first", "last", "done"}
  /\ phase = "first" => Splits(scenario)
  /\ now \in Nat /\ now <= Horizon
  /\ doomed \subseteq {t \in Threads : pc[t] = "calling"}
  /\ attempted \in [Threads -> SUBSET Providers]
  /\ log \in [Providers -> Seq(LogEntry)]

(* A worker's step is nobody else's. *)
LEMMA OthersStay ==
  ASSUME GInv, NEW t \in Threads, Take(t) \/ Work(t)
  PROVE  \A u \in Threads \ {t} :
           /\ pc'[u] = pc[u] /\ serving'[u] = serving[u]
           /\ chain'[u] = chain[u] /\ cost'[u] = cost[u]
BY DEF GInv, IInv, Types, Take, Work, Lookup, EnterBudgetLock, Relookup, Plan, Admit,
       Deny, Degrade, ProviderFails, ProviderSucceeds, Leave, Store, Charge, Respond,
       Go, At, call, shared

LEMMA LogTypes ==
  ASSUME TInv, GInv', LogTransitions
  PROVE  log' \in [Providers -> Seq(LogEntry)]
<1>1. ASSUME NEW p \in Providers
      PROVE  [to |-> breakers'[p].state, ts |-> now] \in LogEntry
  BY DEF TInv, GInv, CInv, Breaker, LogEntry
<1>2. QED
  BY <1>1 DEF LogTransitions, TInv

LEMMA ProceedTInv ==
  ASSUME GInv, GInv', TInv, NEW t \in Threads, Proceed(t)
  PROVE  TInv'
<1>1. \A u \in Threads \ {t} : pc'[u] = pc[u]
  BY OthersStay DEF Proceed
<1>2. doomed' \subseteq {u \in Threads : pc'[u] = "calling"}
  <2>1. CASE pc'[t] = "calling"
    <3>1. doomed' \subseteq doomed \cup {t}
      BY <2>1 DEF Proceed, DrawOutcome
    <3>2. QED
      BY <1>1, <2>1, <3>1 DEF TInv
  <2>2. CASE pc'[t] # "calling"
    <3>1. doomed' = doomed \ {t}
      BY <2>2 DEF Proceed, DrawOutcome
    <3>2. QED
      BY <1>1, <3>1 DEF TInv
  <2>3. QED
    BY <2>1, <2>2
<1>3. attempted' \in [Threads -> SUBSET Providers]
  <2>1. chain[t] \in SUBSET Providers /\ serving'[t] \in Providers \cup {Nothing}
    BY DEF GInv, IInv, Types
  <2>2. QED
    BY <2>1 DEF Proceed, Attempt, TInv
<1>4. log' \in [Providers -> Seq(LogEntry)]
  BY LogTypes DEF Proceed
<1>5. UNCHANGED <<scenario, phase, now>>
  BY DEF Proceed
<1>6. QED
  BY <1>2, <1>3, <1>4, <1>5 DEF TInv, Horizon

LEMMA RecoverTInv ==
  ASSUME TInv, Recover
  PROVE  TInv'
<1>1. /\ phase = "first" /\ phase' = "last" /\ now' = now + ResetTimeout
      /\ UNCHANGED <<pc, scenario, doomed, attempted, log>>
  BY RecoverFacts
<1>2. ResetTimeout \in Nat /\ MaxTicks \in Nat
  BY ThresholdsAssumption, ScenarioAssumption
<1>3. Splits(scenario) /\ now \in Nat /\ now <= MaxTicks
  BY <1>1, <1>2 DEF TInv, Horizon
<1>4. now' \in Nat /\ now' <= Horizon'
  BY <1>1, <1>2, <1>3 DEF Horizon
<1>5. QED
  BY <1>1, <1>2, <1>4 DEF TInv

LEMMA NextTInv ==
  ASSUME GInv, GInv', TInv, [RunNext]_<<gateway, run>>
  PROVE  TInv'
<1>1. ASSUME NEW t \in Threads, TakeRequest(t) PROVE TInv'
  <2>1. /\ pc[t] = "idle" /\ UNCHANGED run
        /\ \A u \in Threads \ {t} : pc'[u] = pc[u]
    BY <1>1, OthersStay DEF TakeRequest, Take, At
  <2>2. QED
    BY <2>1 DEF TInv, run, Horizon
<1>2. ASSUME NEW t \in Threads, Proceed(t) PROVE TInv'
  BY <1>2, ProceedTInv
<1>3. ASSUME NEW q \in Prompts, ExpireAnswer(q) PROVE TInv'
  BY <1>3 DEF ExpireAnswer, Expire, TInv, run, Horizon
<1>4. CASE TimePasses
  <2>1. /\ now' = now + 1 /\ UNCHANGED <<pc, scenario, phase, doomed, attempted, log>>
        /\ now < MaxTicks + (IF Splits(scenario) /\ phase = "last"
                             THEN ResetTimeout ELSE 0)
        /\ phase # "done"
    BY <1>4 DEF TimePasses, AgeBreakers
  <2>2. now \in Nat /\ MaxTicks \in Nat /\ ResetTimeout \in Nat
    BY ThresholdsAssumption, ScenarioAssumption DEF TInv
  <2>3. now' \in Nat /\ now' <= Horizon'
    BY <2>1, <2>2 DEF Horizon, TInv
  <2>4. QED
    BY <2>1, <2>3 DEF TInv
<1>5. CASE Recover
  BY <1>5, RecoverTInv
<1>6. CASE Collect
  BY <1>6 DEF Collect, gateway, vars, TInv, Horizon
<1>7. CASE UNCHANGED <<gateway, run>>
  BY <1>7 DEF gateway, vars, run, TInv, Horizon
<1>8. QED
  BY <1>1, <1>2, <1>3, <1>4, <1>5, <1>6, <1>7 DEF RunNext

LEMMA InitTInv == RunInit => TInv
<1> SUFFICES ASSUME RunInit PROVE TInv
  OBVIOUS
<1>1. now = 0 /\ MaxTicks \in Nat /\ ResetTimeout \in Nat
  BY ThresholdsAssumption, ScenarioAssumption DEF RunInit
<1>2. log \in [Providers -> Seq(LogEntry)]
  BY DEF RunInit
<1>3. QED
  BY <1>1, <1>2 DEF RunInit, TInv, Horizon

(* The runner's bookkeeping keeps its types. *)
THEOREM BookkeepingInvariance == RunSpec => []TInv
<1>1. GInv /\ GInv' /\ TInv /\ [RunNext]_<<gateway, run>> => TInv'
  BY NextTInv
<1>2. QED
  BY <1>1, InitTInv, GatewayInvariance, PTL DEF RunSpec
-----------------------------------------------------------------------------
(* How a breaker may move in a worker's step, with its timer.              *)
Moves(b, c) ==
  \/ c.state = b.state /\ c.opened_age = b.opened_age
  \/ /\ b.state = "open" /\ b.opened_age = ResetTimeout
     /\ c.state = "half_open" /\ c.opened_age = b.opened_age
  \/ b.state = "half_open" /\ c.state = "closed"
  \/ b.state # "open" /\ c.state = "open" /\ c.opened_age = 0

LEMMA AllowMoves ==
  ASSUME NEW b, SoundBreaker(b), Allows(b)
  PROVE  Moves(b, AfterAllow(b))
<1>1. b \in Breaker
  BY DEF SoundBreaker
<1>2. b.state = "open" => b.opened_age = ResetTimeout
  BY <1>1, ThresholdsAssumption DEF Allows, CooledDown, Breaker, NotOpened
<1>3. /\ AfterAllow(b).state = IF b.state = "open" THEN "half_open" ELSE b.state
      /\ AfterAllow(b).opened_age = b.opened_age
  BY <1>1 DEF AfterAllow, Breaker, CircuitState
<1>4. QED
  BY <1>2, <1>3 DEF Moves

LEMMA OutcomeMoves ==
  ASSUME NEW b, SoundBreaker(b)
  PROVE  Moves(b, AfterSuccess(b)) /\ Moves(b, AfterFailure(b))
BY SuccessSound, FailureSound DEF Moves

(* Every step of a worker moves every breaker in one of these ways.        *)
LEMMA WorkMoves ==
  ASSUME GInv, NEW t \in Threads, Work(t), NEW p \in Providers
  PROVE  Moves(breakers[p], breakers'[p])
<1>0. /\ breakers \in [Providers -> Breaker] /\ SoundBreaker(breakers[p])
      /\ chain[t] \in SUBSET Providers
  BY DEF GInv, CInv, IInv, Types
<1>1. CASE OffTheBreakers(t)
  <2>1. breakers' = breakers
    BY <1>1, OffTheBreakersFacts DEF GInv
  <2>2. QED
    BY <2>1 DEF Moves
<1>2. CASE Admit(t)
  <2>1. PICK q \in chain[t] :
          Allows(breakers[q]) /\ breakers' = [breakers EXCEPT ![q] = AfterAllow(@)]
    BY <1>2 DEF Admit
  <2>2. CASE q = p
    <3>1. breakers'[p] = AfterAllow(breakers[p]) /\ Allows(breakers[p])
      BY <1>0, <2>1, <2>2
    <3>2. QED
      BY <1>0, <3>1, AllowMoves
  <2>3. CASE q # p
    BY <1>0, <2>1, <2>3 DEF Moves
  <2>4. QED
    BY <2>2, <2>3
<1>3. CASE ProviderFails(t) \/ ProviderSucceeds(t)
  <2>1. \/ breakers' = [breakers EXCEPT ![serving[t]] = AfterFailure(@)]
        \/ breakers' = [breakers EXCEPT ![serving[t]] = AfterSuccess(@)]
    BY <1>3 DEF ProviderFails, ProviderSucceeds
  <2>2. CASE serving[t] = p
    <3>1. breakers'[p] \in {AfterFailure(breakers[p]), AfterSuccess(breakers[p])}
      BY <1>0, <2>1, <2>2
    <3>2. QED
      BY <1>0, <3>1, OutcomeMoves
  <2>3. CASE serving[t] # p
    BY <1>0, <2>1, <2>3 DEF Moves
  <2>4. QED
    BY <2>2, <2>3
<1>4. QED
  BY <1>1, <1>2, <1>3 DEF Work, OffTheBreakers

(* What the log of a breaker tells, and what the breaker remembers of it:  *)
(* the measurement that is under way began when the timer was set.         *)
Measured(m, closings) ==
  /\ m \in [opened_at : Int, times : Seq(Int)]
  /\ Len(m.times) = closings
  /\ \A i \in 1..Len(m.times) : m.times[i] >= ResetTimeout

Timer(b, m, time) ==
  /\ b.state # "closed" => /\ m.opened_at \in Nat /\ b.opened_age \in Nat
                           /\ m.opened_at + b.opened_age <= time
  /\ b.state = "half_open" => b.opened_age = ResetTimeout

Clocked(b, l, time) ==
  Measured(MeasureAll(l), Entered("closed", l)) /\ Timer(b, MeasureAll(l), time)

MInv == \A p \in Providers : Clocked(breakers[p], log[p], now)

(* Such a move, logged when it changes the state, leaves timer and log in  *)
(* step.                                                                   *)
LEMMA MovesClocked ==
  ASSUME NEW b \in Breaker, NEW c \in Breaker, Moves(b, c),
         NEW l \in Seq(LogEntry), NEW time \in Nat, Clocked(b, l, time),
         NEW k, k = IF c.state = b.state THEN l
                    ELSE Append(l, [to |-> c.state, ts |-> time])
  PROVE  Clocked(c, k, time)
<1> DEFINE e == [to |-> c.state, ts |-> time]
           m == MeasureAll(l)
           n == MeasureAll(k)
<1>0. ResetTimeout \in Nat
  BY ThresholdsAssumption
<1>1. CASE c.state = b.state
  <2>1. k = l /\ c.opened_age = b.opened_age
    BY <1>1 DEF Moves
  <2>2. QED
    BY <1>1, <2>1 DEF Clocked, Timer
<1>2. CASE c.state # b.state
  <2>1. e \in LogEntry /\ e.to = c.state /\ e.ts = time
    BY DEF LogEntry, Breaker
  <2>2. k = Append(l, e)
    BY <1>2
  <2>3. /\ n = Measure(m, e)
        /\ Entered("closed", l) \in Nat
        /\ Entered("closed", k) =
             Entered("closed", l) + (IF c.state = "closed" THEN 1 ELSE 0)
    <3> HIDE DEF e
    <3>1. QED
      BY <2>1, <2>2, MeasureAppend, EnteredAppend
  <2>4. Measured(m, Entered("closed", l)) /\ Timer(b, m, time)
    BY DEF Clocked
  <2> HIDE DEF m, n, e
  <2>5. CASE c.state = "half_open"
    <3>1. n = m
      BY <2>1, <2>3, <2>5 DEF Measure
    <3>2. b.state = "open" /\ b.opened_age = ResetTimeout /\ c.opened_age = b.opened_age
      BY <1>2, <2>5 DEF Moves
    <3>3. Entered("closed", k) = Entered("closed", l)
      BY <2>3, <2>5
    <3>4. Measured(n, Entered("closed", k))
      BY <2>4, <3>1, <3>3
    <3>5. Timer(c, n, time)
      BY <2>4, <2>5, <3>1, <3>2 DEF Timer
    <3>6. QED
      BY <3>4, <3>5 DEF Clocked, n
  <2>6. CASE c.state = "open"
    <3>1. n = [m EXCEPT !.opened_at = time]
      BY <2>1, <2>3, <2>6 DEF Measure
    <3>2. c.opened_age = 0
      BY <1>2, <2>6 DEF Moves
    <3>3. n.opened_at = time /\ n.times = m.times
          /\ n \in [opened_at : Int, times : Seq(Int)]
      BY <2>4, <3>1 DEF Measured
    <3>4. Measured(n, Entered("closed", k)) /\ Timer(c, n, time)
      BY <2>3, <2>4, <2>6, <3>2, <3>3 DEF Measured, Timer
    <3>5. QED
      BY <3>4 DEF Clocked, n
  <2>7. CASE c.state = "closed"
    <3>1. b.state = "half_open"
      BY <1>2, <2>7 DEF Moves
    <3>2. m.opened_at \in Nat /\ m.opened_at + ResetTimeout <= time
      BY <2>4, <3>1 DEF Timer
    <3>3. n = [opened_at |-> NotOpen, times |-> Append(m.times, time - m.opened_at)]
      BY <2>1, <2>3, <2>7, <3>2 DEF Measure, NotOpen
    <3>4. /\ time - m.opened_at \in Int /\ time - m.opened_at >= ResetTimeout
          /\ m.times \in Seq(Int)
      BY <1>0, <2>4, <3>2 DEF Measured
    <3>5. Measured(n, Entered("closed", k))
      <4>1. /\ n.times = Append(m.times, time - m.opened_at)
            /\ n \in [opened_at : Int, times : Seq(Int)]
        BY <3>3, <3>4 DEF NotOpen
      <4>2. /\ Len(m.times) = Entered("closed", l)
            /\ \A i \in 1..Len(m.times) : m.times[i] >= ResetTimeout
        BY <2>4 DEF Measured
      <4>3. Len(n.times) = Entered("closed", k)
        BY <2>3, <2>7, <3>4, <4>1, <4>2
      <4>4. \A i \in 1..Len(n.times) : n.times[i] >= ResetTimeout
        BY <3>4, <4>1, <4>2
      <4>5. QED
        BY <4>1, <4>3, <4>4 DEF Measured
    <3>6. QED
      BY <2>7, <3>5 DEF Clocked, n, Timer
  <2>8. QED
    BY <2>5, <2>6, <2>7 DEF Breaker, CircuitState
<1>3. QED
  BY <1>1, <1>2

(* A breaker that waits, for a tick or for the runner's sleep. *)
LEMMA WaitingClocked ==
  ASSUME NEW b, SoundBreaker(b), NEW l, NEW time \in Nat, Clocked(b, l, time)
  PROVE  Clocked(Aged(b), l, time + 1) /\ Clocked(Rested(b), l, time + ResetTimeout)
<1>0. ResetTimeout \in Nat /\ b \in Breaker
  BY ThresholdsAssumption DEF SoundBreaker
<1>1. /\ Aged(b).state = b.state
      /\ \/ Aged(b).opened_age = b.opened_age
         \/ /\ b.opened_age \in 0..(ResetTimeout - 1)
            /\ Aged(b).opened_age = b.opened_age + 1
  BY <1>0, AgedSound DEF Aged, Breaker
<1>2. /\ Rested(b).state = b.state
      /\ Rested(b).opened_age = IF b.opened_age = NotOpened THEN NotOpened
                                ELSE ResetTimeout
  BY RestedSound
<1>3. b.opened_age = NotOpened <=> b.state = "closed"
  BY DEF SoundBreaker, Timed
<1> DEFINE m == MeasureAll(l)
<1>4. Timer(b, m, time) /\ Measured(m, Entered("closed", l))
  BY DEF Clocked
<1> HIDE DEF m
<1>5. Timer(Aged(b), m, time + 1)
  BY <1>0, <1>1, <1>4 DEF Timer
<1>6. Timer(Rested(b), m, time + ResetTimeout)
  BY <1>0, <1>2, <1>3, <1>4 DEF Timer
<1>7. QED
  BY <1>4, <1>5, <1>6 DEF Clocked, m

LEMMA NextMInv ==
  ASSUME GInv, GInv', TInv, MInv, [RunNext]_<<gateway, run>>
  PROVE  MInv'
<1>0. /\ breakers \in [Providers -> Breaker] /\ breakers' \in [Providers -> Breaker]
      /\ \A p \in Providers : SoundBreaker(breakers[p])
      /\ now \in Nat /\ \A p \in Providers : log[p] \in Seq(LogEntry)
  BY DEF GInv, CInv, TInv
<1>1. ASSUME NEW t \in Threads, Proceed(t) PROVE MInv'
  <2> SUFFICES ASSUME NEW p \in Providers
               PROVE  Clocked(breakers'[p], log'[p], now')
    BY DEF MInv
  <2>1. now' = now /\ Moves(breakers[p], breakers'[p])
    BY <1>1, WorkMoves DEF Proceed
  <2>2. log'[p] = IF breakers'[p].state = breakers[p].state THEN log[p]
                  ELSE Append(log[p], [to |-> breakers'[p].state, ts |-> now])
    BY <1>1 DEF Proceed, LogTransitions
  <2>3. Clocked(breakers[p], log[p], now)
    BY DEF MInv
  <2>4. QED
    BY <1>0, <2>1, <2>2, <2>3, MovesClocked
<1>2. CASE TimePasses
  <2> SUFFICES ASSUME NEW p \in Providers
               PROVE  Clocked(breakers'[p], log'[p], now')
    BY DEF MInv
  <2>1. now' = now + 1 /\ log' = log /\ breakers'[p] = Aged(breakers[p])
    BY <1>2 DEF TimePasses, AgeBreakers
  <2>2. QED
    BY <1>0, <2>1, WaitingClocked DEF MInv
<1>3. CASE Recover
  <2> SUFFICES ASSUME NEW p \in Providers
               PROVE  Clocked(breakers'[p], log'[p], now')
    BY DEF MInv
  <2>1. now' = now + ResetTimeout /\ log' = log /\ breakers'[p] = Rested(breakers[p])
    BY <1>3, RecoverFacts
  <2>2. QED
    BY <1>0, <2>1, WaitingClocked DEF MInv
<1>4. ASSUME UNCHANGED <<breakers, log, now>> PROVE MInv'
  BY <1>4 DEF MInv
<1>5. ASSUME NEW t \in Threads, TakeRequest(t) PROVE UNCHANGED <<breakers, log, now>>
  BY <1>5 DEF TakeRequest, Take, shared, run
<1>6. ASSUME NEW q \in Prompts, ExpireAnswer(q) PROVE UNCHANGED <<breakers, log, now>>
  BY <1>6 DEF ExpireAnswer, Expire, run
<1>7. Collect => UNCHANGED <<breakers, log, now>>
  BY DEF Collect, gateway, vars
<1>8. UNCHANGED <<gateway, run>> => UNCHANGED <<breakers, log, now>>
  BY DEF gateway, vars, run
<1>9. QED
  BY <1>1, <1>2, <1>3, <1>4, <1>5, <1>6, <1>7, <1>8 DEF RunNext

LEMMA InitMInv == RunInit => MInv
<1> SUFFICES ASSUME RunInit, NEW p \in Providers
             PROVE  Clocked(breakers[p], log[p], now)
  BY DEF MInv
<1>1. breakers[p].state = "closed" /\ log[p] = <<>>
  BY DEF RunInit, Init, NewBreaker
<1>2. <<>> \in Seq(LogEntry) /\ [to |-> "open", ts |-> 0] \in LogEntry
  BY DEF LogEntry, CircuitState
<1>3. /\ MeasureAll(log[p]) = [opened_at |-> NotOpen, times |-> <<>>]
      /\ Entered("closed", log[p]) = 0
  BY <1>1, <1>2, MeasureAppend, EnteredAppend
<1>4. Measured(MeasureAll(log[p]), 0)
  <2>1. /\ [opened_at |-> NotOpen, times |-> <<>>] \in [opened_at : Int, times : Seq(Int)]
        /\ Len(<<>>) = 0 /\ 1..0 = {}
    BY DEF NotOpen
  <2>2. QED
    BY <1>3, <2>1 DEF Measured
<1>5. QED
  BY <1>1, <1>3, <1>4 DEF Clocked, Timer

(* The logs and the breakers keep step. *)
THEOREM LogInvariance == RunSpec => []MInv
<1>1. GInv /\ GInv' /\ TInv /\ MInv /\ [RunNext]_<<gateway, run>> => MInv'
  BY NextMInv
<1>2. QED
  BY <1>1, InitMInv, GatewayInvariance, BookkeepingInvariance, PTL DEF RunSpec

(* Every closing of a circuit is measured, and no recovery is reported to  *)
(* have taken less than the reset timeout, whatever the two batches, their *)
(* workers and the probes that fail on the way.                            *)
THEOREM RecoveryTimesAreRight == RunSpec => []RecoveriesTakeTheTimeout
<1>1. MInv => RecoveriesTakeTheTimeout
  BY DEF MInv, Clocked, Measured, RecoveriesTakeTheTimeout, RecoveryTimes
<1>2. QED
  BY <1>1, LogInvariance, PTL
-----------------------------------------------------------------------------
(* In the second batch no call of a repaired provider is going to fail:    *)
(* the runner has waited for the calls of the first.                       *)
DInv ==
  phase = "last" /\ Splits(scenario) =>
    \A t \in doomed : RecoveredRate[scenario][serving[t]] # "never"

LEMMA OnlyAdmittedCall ==
  ASSUME GInv, NEW t \in Threads, Work(t), pc'[t] = "calling"
  PROVE  Admit(t) /\ pc[t] = "attempt"
BY DEF GInv, IInv, Types, Work, Lookup, EnterBudgetLock, Relookup, Plan, Admit, Deny,
       Degrade, ProviderFails, ProviderSucceeds, Leave, Store, Charge, Respond, Go, At

LEMMA ProceedDInv ==
  ASSUME GInv, TInv, DInv, NEW t \in Threads, Proceed(t)
  PROVE  DInv'
<1>1. /\ \A u \in Threads \ {t} : serving'[u] = serving[u]
      /\ UNCHANGED <<phase, scenario>> /\ doomed \subseteq Threads
  BY OthersStay DEF Proceed, TInv
<1>2. CASE pc'[t] = "calling"
  <2>1. PICK fails \in Draws(serving'[t]) :
          doomed' = IF fails THEN doomed \cup {t} ELSE doomed
    BY <1>2 DEF Proceed, DrawOutcome
  <2>2. t \notin doomed
    BY <1>2, OnlyAdmittedCall DEF Proceed, TInv
  <2>3. phase = "last" /\ Splits(scenario) /\ fails =>
          RecoveredRate[scenario][serving'[t]] # "never"
    BY <2>1 DEF Draws
  <2>4. QED
    BY <1>1, <2>1, <2>2, <2>3 DEF DInv
<1>3. CASE pc'[t] # "calling"
  <2>1. doomed' = doomed \ {t}
    BY <1>3 DEF Proceed, DrawOutcome
  <2>2. QED
    BY <1>1, <2>1 DEF DInv
<1>4. QED
  BY <1>2, <1>3

LEMMA NextDInv ==
  ASSUME GInv, TInv, DInv, [RunNext]_<<gateway, run>>
  PROVE  DInv'
<1>1. ASSUME NEW t \in Threads, Proceed(t) PROVE DInv'
  BY <1>1, ProceedDInv
<1>2. CASE Recover
  <2>1. doomed' = {}
    BY <1>2, RecoverFacts DEF TInv, AllIdle, At
  <2>2. QED
    BY <2>1 DEF DInv
<1>3. ASSUME NEW t \in Threads, TakeRequest(t) PROVE DInv'
  BY <1>3 DEF TakeRequest, Take, call, run, DInv
<1>4. ASSUME NEW q \in Prompts, ExpireAnswer(q) PROVE DInv'
  BY <1>4 DEF ExpireAnswer, Expire, call, run, DInv
<1>5. CASE TimePasses
  BY <1>5 DEF TimePasses, AgeBreakers, call, DInv
<1>6. CASE Collect
  BY <1>6 DEF Collect, DInv
<1>7. CASE UNCHANGED <<gateway, run>>
  BY <1>7 DEF gateway, vars, run, DInv
<1>8. QED
  BY <1>1, <1>2, <1>3, <1>4, <1>5, <1>6, <1>7 DEF RunNext

(* No call that is bound to fail outlives the repair of its provider.      *)
THEOREM RepairInvariance == RunSpec => []DInv
<1>1. RunInit => DInv
  BY DEF RunInit, DInv
<1>2. QED
  BY <1>1, NextDInv, GatewayInvariance, BookkeepingInvariance, PTL DEF RunSpec

(* A circuit opens because a call of its provider fails. *)
LEMMA OpenedByFailure ==
  ASSUME GInv, NEW t \in Threads, Proceed(t), NEW p \in Providers,
         breakers'[p].state = "open", breakers[p].state # "open"
  PROVE  ProviderFails(t) /\ t \in doomed /\ serving[t] = p
<1>0. /\ breakers \in [Providers -> Breaker] /\ SoundBreaker(breakers[p])
      /\ chain[t] \in SUBSET Providers /\ pc \in [Threads -> Point]
  BY DEF GInv, CInv, IInv, Types
<1>1. ~OffTheBreakers(t)
  BY OffTheBreakersFacts DEF GInv
<1>2. ~Admit(t)
  <2> SUFFICES ASSUME Admit(t) PROVE FALSE
    OBVIOUS
  <2>1. PICK q \in chain[t] :
          Allows(breakers[q]) /\ breakers' = [breakers EXCEPT ![q] = AfterAllow(@)]
    BY DEF Admit
  <2>2. q = p
    BY <1>0, <2>1
  <2>3. Allows(breakers[p]) /\ breakers'[p] = AfterAllow(breakers[p])
    BY <1>0, <2>1, <2>2
  <2>4. AfterAllow(breakers[p]).state # "open"
    BY <1>0, <2>3, AllowSound
  <2>5. QED
    BY <2>3, <2>4
<1>3. ~ProviderSucceeds(t)
  <2> SUFFICES ASSUME ProviderSucceeds(t) PROVE FALSE
    OBVIOUS
  <2>1. breakers' = [breakers EXCEPT ![serving[t]] = AfterSuccess(@)]
    BY DEF ProviderSucceeds
  <2>2. breakers'[p] = AfterSuccess(breakers[p])
    BY <1>0, <2>1
  <2>3. QED
    BY <1>0, <2>2, SuccessSound
<1>4. ProviderFails(t)
  BY <1>1, <1>2, <1>3 DEF Proceed, Work, OffTheBreakers
<1>5. pc[t] = "calling" /\ pc'[t] = "attempt"
  BY <1>0, <1>4 DEF ProviderFails, Leave, At, Go
<1>6. t \in doomed
  BY <1>5 DEF Proceed, DrawOutcome, At
<1>7. serving[t] = p
  BY <1>0, <1>4 DEF ProviderFails
<1>8. QED
  BY <1>4, <1>6, <1>7

(* The second batch never opens the circuit of a provider that no longer   *)
(* fails: nothing of the first batch reaches it.                           *)
THEOREM RepairedProvidersStayUp == RunSpec => RecoveredStayRecovered
<1> DEFINE Mended(p) == /\ phase = "last" /\ Splits(scenario)
                        /\ RecoveredRate[scenario][p] = "never"
<1>1. ASSUME GInv, TInv, DInv, [RunNext]_<<gateway, run>>, NEW p \in Providers,
             Mended(p)
      PROVE  Entered("open", log'[p]) = Entered("open", log[p])
  <2>1. CASE log'[p] = log[p]
    BY <2>1
  <2>2. CASE log'[p] # log[p]
    <3>1. PICK t \in Threads : Proceed(t)
      BY <1>1, <2>2, RecoverFacts
         DEF RunNext, TakeRequest, ExpireAnswer, TimePasses, Collect, run
    <3>2. log'[p] = IF breakers'[p].state = breakers[p].state THEN log[p]
                    ELSE Append(log[p], [to |-> breakers'[p].state, ts |-> now])
      BY <3>1 DEF Proceed, LogTransitions
    <3>3. breakers'[p].state # "open"
      <4>1. breakers'[p].state # breakers[p].state
        BY <2>2, <3>2
      <4>2. QED
        BY <1>1, <3>1, <4>1, OpenedByFailure DEF DInv
    <3>4. [to |-> breakers'[p].state, ts |-> now] \in LogEntry
      <4>1. GInv'
        BY <1>1, NextGInv
      <4>2. QED
        BY <1>1, <4>1 DEF GInv, CInv, Breaker, TInv, LogEntry
    <3>5. log[p] \in Seq(LogEntry)
      BY <1>1 DEF TInv
    <3> DEFINE e == [to |-> breakers'[p].state, ts |-> now]
    <3>6. log'[p] = Append(log[p], e) /\ e.to # "open" /\ e \in LogEntry
      BY <2>2, <3>2, <3>3, <3>4
    <3> HIDE DEF e
    <3>7. /\ Entered("open", log[p]) \in Nat
          /\ Entered("open", Append(log[p], e)) =
               Entered("open", log[p]) + (IF e.to = "open" THEN 1 ELSE 0)
      BY <3>5, <3>6, EnteredAppend
    <3>8. QED
      BY <3>6, <3>7
  <2>3. QED
    BY <2>1, <2>2
<1>2. GInv /\ TInv /\ DInv /\ [RunNext]_<<gateway, run>> =>
        [\A p \in Providers :
           /\ phase = "last" /\ Splits(scenario)
           /\ RecoveredRate[scenario][p] = "never"
           => Entered("open", log'[p]) = Entered("open", log[p])]_<<gateway, run>>
  BY <1>1
<1>3. QED
  BY <1>2, GatewayInvariance, BookkeepingInvariance, RepairInvariance, PTL
     DEF RunSpec, RecoveredStayRecovered
-----------------------------------------------------------------------------
(* What one more response adds to the counts and to the sums. *)
FiniteBag(B) == IsABag(B) /\ IsFiniteSet(DOMAIN B)

Gains(B, r, C) ==
  /\ DOMAIN C = DOMAIN B \cup {r}
  /\ C[r] = (IF r \in DOMAIN B THEN B[r] ELSE 0) + 1
  /\ \A x \in DOMAIN B : B[x] \in Nat /\ (x # r => C[x] = B[x])

(* Adding a response to the bag counts it once more and nothing else.      *)
LEMMA OneMore ==
  ASSUME NEW B, FiniteBag(B), NEW r, NEW C, C = B (+) SetToBag({r})
  PROVE  FiniteBag(C) /\ Gains(B, r, C)
<1>1. DOMAIN C = DOMAIN B \cup {r}
  BY DEF (+), SetToBag
<1>2. /\ C[r] = (IF r \in DOMAIN B THEN B[r] ELSE 0) + 1
      /\ \A x \in DOMAIN B : x # r => C[x] = B[x] + 0
  BY DEF (+), SetToBag
<1>3. \A x \in DOMAIN B : B[x] \in Nat /\ B[x] > 0
  BY DEF FiniteBag, IsABag
<1>4. \A x \in DOMAIN B : x # r => C[x] = B[x]
  BY <1>2, <1>3
<1>5. IsFiniteSet(DOMAIN C)
  BY <1>1, FS_AddElement DEF FiniteBag
<1>6. IsABag(C)
  <2>1. \A x \in DOMAIN C : C[x] \in Nat /\ C[x] > 0
    BY <1>1, <1>2, <1>3, <1>4
  <2>2. C = [x \in DOMAIN C |-> C[x]]
    BY DEF (+)
  <2>3. QED
    BY <2>1, <2>2 DEF IsABag
<1>7. QED
  BY <1>1, <1>2, <1>3, <1>4, <1>5, <1>6 DEF FiniteBag, Gains

LEMMA HowManyNat ==
  ASSUME NEW B, FiniteBag(B), NEW those, those \subseteq DOMAIN B
  PROVE  HowMany(B, those) \in Nat
<1>1. IsFiniteSet(those)
  BY FS_Subset DEF FiniteBag
<1>2. \A x \in those : B[x] \in Nat
  BY DEF FiniteBag, IsABag
<1>3. QED
  BY <1>1, <1>2, SumNat DEF HowMany

(* A response that is not asked for does not change a count, and one that  *)
(* is asked for adds one to it.                                            *)
LEMMA HowManySame ==
  ASSUME NEW B, FiniteBag(B), NEW r, NEW C, Gains(B, r, C),
         NEW those, those \subseteq DOMAIN B, r \notin those
  PROVE  HowMany(C, those) = HowMany(B, those)
<1>1. IsFiniteSet(those)
  BY FS_Subset DEF FiniteBag
<1>2. \A x \in those : C[x] = B[x]
  BY DEF Gains
<1>3. QED
  BY <1>1, <1>2, SumSame DEF HowMany

LEMMA HowManyMore ==
  ASSUME NEW B, FiniteBag(B), NEW r, NEW C, Gains(B, r, C),
         NEW those, those \subseteq DOMAIN B, r \in DOMAIN B => r \in those
  PROVE  HowMany(C, those \cup {r}) = HowMany(B, those) + 1
<1>1. IsFiniteSet(those)
  BY FS_Subset DEF FiniteBag
<1>2. \A x \in those : B[x] \in Int
  BY DEF Gains
<1>3. C[r] = (IF r \in those THEN B[r] ELSE 0) + 1
  BY DEF Gains
<1>4. \A x \in those : x # r => C[x] = B[x]
  BY DEF Gains
<1>5. SumFunctionOnSet(C, those \cup {r}) = SumFunctionOnSet(B, those) + 1
  BY <1>1, <1>2, <1>3, <1>4, SumBump
<1>6. QED
  BY <1>5 DEF HowMany

(* The same for the count by route.                                        *)
LEMMA ByMore ==
  ASSUME NEW B, FiniteBag(B), NEW r, NEW C, Gains(B, r, C), NEW routes
  PROVE  /\ By(B, routes) \in Nat
         /\ By(C, routes) = By(B, routes) + (IF r.route \in routes THEN 1 ELSE 0)
<1> DEFINE those == {x \in DOMAIN B : x.route \in routes}
           these == {x \in DOMAIN C : x.route \in routes}
<1>1. DOMAIN C = DOMAIN B \cup {r}
  BY DEF Gains
<1>2. those \subseteq DOMAIN B
  OBVIOUS
<1>3. By(B, routes) = HowMany(B, those) /\ By(C, routes) = HowMany(C, these)
  BY DEF By
<1>4. r.route \in routes => these = those \cup {r} /\ (r \in DOMAIN B => r \in those)
  BY <1>1
<1>5. r.route \notin routes => these = those /\ r \notin those
  BY <1>1
<1> HIDE DEF these, those
<1>6. HowMany(B, those) \in Nat
  BY <1>2, HowManyNat
<1>7. CASE r.route \in routes
  BY <1>2, <1>3, <1>4, <1>6, <1>7, HowManyMore
<1>8. CASE r.route \notin routes
  <2>1. HowMany(C, those) = HowMany(B, those)
    BY <1>2, <1>5, <1>8, HowManySame
  <2>2. QED
    BY <1>3, <1>5, <1>6, <1>8, <2>1
<1>9. QED
  BY <1>7, <1>8

(* A sum over the responses grows by the amount of the one added.          *)
LEMMA SumOverMore ==
  ASSUME NEW B, FiniteBag(B), NEW r, NEW C, Gains(B, r, C),
         NEW a, NEW c, \A x \in DOMAIN C : c[x] \in Nat,
         \A x \in DOMAIN B : a[x] = c[x]
  PROVE  /\ SumOver(B, a) \in Nat
         /\ SumOver(C, c) = SumOver(B, a) + c[r]
<1> DEFINE f == [x \in DOMAIN B |-> a[x] * B[x]]
           g == [x \in DOMAIN C |-> c[x] * C[x]]
           S == DOMAIN B
<1>1. /\ DOMAIN C = S \cup {r}
      /\ C[r] = (IF r \in S THEN B[r] ELSE 0) + 1
      /\ \A x \in S : B[x] \in Nat /\ (x # r => C[x] = B[x])
  BY DEF Gains
<1>2. IsFiniteSet(S)
  BY DEF FiniteBag
<1>3. c[r] \in Nat /\ \A x \in S : a[x] \in Nat /\ a[x] = c[x]
  BY <1>1
<1>4. SumOver(B, a) = SumFunctionOnSet(f, S)
  BY DEF SumOver, SumFunction
<1>5. SumOver(C, c) = SumFunctionOnSet(g, S \cup {r})
  <2>1. SumOver(C, c) = SumFunctionOnSet(g, DOMAIN C)
    BY DEF SumOver, SumFunction
  <2>2. DOMAIN C = S \cup {r}
    BY <1>1
  <2> HIDE DEF g, S
  <2>3. QED
    BY <2>1, <2>2
<1>6. \A x \in S : f[x] \in Nat /\ (x # r => g[x] = f[x])
  BY <1>1, <1>3
<1>7. g[r] = (IF r \in S THEN f[r] ELSE 0) + c[r]
  <2>1. g[r] = c[r] * C[r]
    BY <1>1
  <2>2. CASE r \in S
    <3>1. B[r] \in Nat /\ C[r] = B[r] + 1 /\ f[r] = c[r] * B[r]
      BY <1>1, <1>3, <2>2
    <3>2. c[r] * (B[r] + 1) = c[r] * B[r] + c[r]
      BY <1>3, <3>1
    <3>3. QED
      BY <2>1, <2>2, <3>1, <3>2
  <2>3. CASE r \notin S
    BY <1>1, <1>3, <2>1, <2>3
  <2>4. QED
    BY <2>2, <2>3
<1> HIDE DEF f, g, S
<1>8. SumFunctionOnSet(f, S) \in Nat
  BY <1>2, <1>6, SumNat
<1>9. SumFunctionOnSet(g, S \cup {r}) = SumFunctionOnSet(f, S) + c[r]
  <2>1. /\ c[r] \in Int /\ \A x \in S : f[x] \in Int
        /\ \A x \in S : x # r => g[x] = f[x]
    BY <1>3, <1>6
  <2>2. QED
    BY <1>2, <1>7, <2>1, SumBump
<1>10. QED
  BY <1>4, <1>5, <1>8, <1>9
-----------------------------------------------------------------------------
(* The way of a request through its providers: they are tried in their     *)
(* order, and none is left out unless a budget forbids it.                 *)
Trying(t) == pc[t] \in {"attempt", "calling", "store", "charge"}

Latest(p, S) == p \in S /\ \A a \in S : a <= p

Path(t) ==
  /\ ~Trying(t) => attempted[t] = {}
  /\ Trying(t) => /\ \A a \in attempted[t] : \A c \in chain[t] : a < c
                  /\ ~Budgeted => attempted[t] \cup chain[t] = Providers
  /\ pc[t] = "calling" => Latest(serving[t], attempted[t])
  /\ pc[t] \in {"store", "charge"} => \E p \in Providers : Latest(p, attempted[t])
  /\ pc[t] \notin {"store", "charge"} => cost[t] = 0

PInv == \A t \in Threads : Path(t)

(* The providers are positions, the first of them 1.                       *)
LEMMA PositionsAreNatural ==
  /\ Providers \subseteq Nat \ {0} /\ Nothing \notin Providers
  /\ IsFiniteSet(Providers)
  /\ \A p \in Providers : 1 \in Providers /\ 1 <= p
<1>1. Providers = 1..Cardinality(Providers) /\ IsFiniteSet(Providers)
  BY ScenarioAssumption
<1>2. Cardinality(Providers) \in Nat
  BY <1>1, FS_CardinalityType
<1>3. QED
  BY <1>1, <1>2, GatewayAssumption DEF Nothing

(* The provider that answers is the last that was tried.                   *)
LEMMA LatestIsMax ==
  ASSUME NEW S, S \subseteq Nat, NEW p, Latest(p, S)
  PROVE  Max(S) = p
<1>1. p \in S /\ p \in Nat /\ \A y \in S : p >= y /\ y \in Nat
  BY DEF Latest
<1>2. \A x \in S : (\A y \in S : x >= y) => x = p
  <2> SUFFICES ASSUME NEW x \in S, \A y \in S : x >= y
               PROVE  x = p
    OBVIOUS
  <2>1. x >= p /\ p >= x /\ x \in Nat
    BY <1>1
  <2>2. QED
    BY <1>1, <2>1
<1>3. QED
  BY <1>1, <1>2 DEF Max

(* The worker that takes a step stays on its path.                         *)
LEMMA ProceedPath ==
  ASSUME GInv, TInv, PInv, NEW t \in Threads, Proceed(t)
  PROVE  Path(t)'
<1>0. /\ Path(t) /\ attempted \in [Threads -> SUBSET Providers]
      /\ pc \in [Threads -> Point] /\ chain \in [Threads -> SUBSET Providers]
      /\ serving \in [Threads -> Providers \cup {Nothing}]
      /\ cost \in [Threads -> 0..DearestCall] /\ DearestCall \in Nat
      /\ pc[t] # "calling" => serving[t] = Nothing
  BY GatewayAssumption DEF PInv, TInv, GInv, CInv, IInv, Types
<1>1. attempted'[t] = IF pc'[t] = "idle" THEN {}
                      ELSE IF At(t, "attempt")
                           THEN attempted[t] \cup (chain[t] \ chain'[t])
                           ELSE attempted[t]
  BY <1>0 DEF Proceed, Attempt
<1>2. CASE pc'[t] = "idle"
  <2>1. cost'[t] = 0
    BY <1>0, <1>2 DEF Path, Proceed, Work, Lookup, EnterBudgetLock, Relookup, Plan, Admit,
       Deny, Degrade, ProviderFails, ProviderSucceeds, Leave, Store, Charge, Go, At, call
  <2>2. QED
    BY <1>1, <1>2, <2>1 DEF Path, Trying
<1>3. CASE pc'[t] # "idle" /\ (Lookup(t) \/ EnterBudgetLock(t) \/ Relookup(t))
  <2>1. /\ pc[t] \in {"lookup", "enter", "relookup"}
        /\ pc'[t] \in {"enter", "relookup", "plan"} /\ cost' = cost
    BY <1>0, <1>3 DEF Lookup, EnterBudgetLock, Relookup, Respond, Go, At, call
  <2>2. QED
    BY <1>0, <1>1, <1>3, <2>1 DEF Path, Trying, At
<1>4. CASE Plan(t)
  <2>1. /\ pc[t] = "plan" /\ pc'[t] = "attempt" /\ cost' = cost
        /\ chain'[t] = ProviderChain
    BY <1>0, <1>4 DEF Plan, Go, At, call
  <2>2. attempted'[t] = {} /\ cost'[t] = 0
    BY <1>0, <1>1, <2>1 DEF Path, Trying, At
  <2>3. ~Budgeted => chain'[t] = Providers
    BY <2>1 DEF ProviderChain
  <2>4. QED
    BY <2>1, <2>2, <2>3 DEF Path, Trying
<1>5. CASE Admit(t) \/ Deny(t)
  <2>1. PICK p \in chain[t] :
          /\ First(chain[t], p)
          /\ chain' = [chain EXCEPT ![t] = @ \ {p}]
          /\ Admit(t) => serving' = [serving EXCEPT ![t] = p]
    BY <1>5 DEF Admit, Deny
  <2>2. /\ pc[t] = "attempt" /\ cost' = cost
        /\ pc'[t] \in {"calling", "attempt"}
        /\ pc'[t] = "calling" => Admit(t)
    <3>1. CASE Admit(t)
      BY <1>0, <3>1 DEF Admit, Go, At
    <3>2. CASE Deny(t)
      BY <1>0, <3>2 DEF Deny, Go, At, call
    <3>3. QED
      BY <1>5, <3>1, <3>2
  <2>3. chain'[t] = chain[t] \ {p} /\ attempted'[t] = attempted[t] \cup {p}
    BY <1>0, <1>1, <2>1, <2>2 DEF At
  <2>4. /\ \A a \in attempted[t] : \A c \in chain[t] : a < c
        /\ ~Budgeted => attempted[t] \cup chain[t] = Providers
        /\ \A c \in chain[t] : p <= c
        /\ p \in Nat /\ \A c \in chain[t] : c \in Nat
        /\ \A a \in attempted[t] : a \in Nat
    BY <1>0, <2>1, <2>2, PositionsAreNatural DEF Path, Trying, First
  <2>5. \A a \in attempted'[t] : a <= p /\ \A c \in chain'[t] : a < c
    BY <2>3, <2>4
  <2>6. ~Budgeted => attempted'[t] \cup chain'[t] = Providers
    BY <2>3, <2>4
  <2>7. pc'[t] = "calling" => serving'[t] = p
    BY <1>0, <2>1, <2>2
  <2>8. cost'[t] = 0
    BY <1>0, <2>2 DEF Path
  <2>9. QED
    BY <2>2, <2>3, <2>5, <2>6, <2>7, <2>8 DEF Path, Trying, Latest
<1>6. CASE ProviderFails(t) \/ ProviderSucceeds(t)
  <2>1. /\ pc[t] = "calling" /\ chain' = chain
        /\ \/ pc'[t] = "attempt" /\ cost' = cost
           \/ pc'[t] = "store"
    BY <1>0, <1>6 DEF ProviderFails, ProviderSucceeds, Leave, Go, At
  <2>2. attempted'[t] = attempted[t]
    BY <1>1, <2>1 DEF At
  <2>3. Latest(serving[t], attempted[t]) /\ serving[t] \in Providers
    BY <1>0, <2>1 DEF Path, Latest
  <2>4. QED
    BY <1>0, <2>1, <2>2, <2>3 DEF Path, Trying
<1>7. CASE Store(t)
  <2>1. pc[t] = "store" /\ pc'[t] = "charge" /\ chain' = chain
    BY <1>0, <1>7 DEF Store, Go, At
  <2>2. QED
    BY <1>0, <1>1, <2>1 DEF Path, Trying, At
<1>8. CASE Degrade(t) \/ Charge(t)
  BY <1>0, <1>2, <1>8 DEF Degrade, Charge, Respond, Go
<1>9. QED
  BY <1>2, <1>3, <1>4, <1>5, <1>6, <1>7, <1>8 DEF Proceed, Work

(* The other steps leave the requests alone. *)
Standing ==
  UNCHANGED <<left, pc, chain, serving, cost, spent, attempted, responses>>

LEMMA OtherSteps ==
  ASSUME [RunNext]_<<gateway, run>>,
         ~ \E t \in Threads : TakeRequest(t) \/ Proceed(t)
  PROVE  Standing
<1>1. (\E q \in Prompts : ExpireAnswer(q)) => Standing
  BY DEF ExpireAnswer, Expire, run, call, Standing
<1>2. TimePasses => Standing
  BY DEF TimePasses, AgeBreakers, call, Standing
<1>3. Recover => Standing
  BY DEF Recover, Repair, call, Standing
<1>4. Collect => Standing
  BY DEF Collect, gateway, vars, Standing
<1>5. UNCHANGED <<gateway, run>> => Standing
  BY DEF gateway, vars, run, Standing
<1>6. QED
  BY <1>1, <1>2, <1>3, <1>4, <1>5 DEF RunNext

LEMMA TakePath ==
  ASSUME GInv, NEW t \in Threads, TakeRequest(t), Path(t)
  PROVE  Path(t)'
<1>1. /\ pc[t] = "idle" /\ pc'[t] = "lookup"
      /\ UNCHANGED <<chain, serving, cost, attempted>>
  BY DEF GInv, IInv, Types, TakeRequest, Take, call, run, At, Go
<1>2. QED
  BY <1>1 DEF Path, Trying

LEMMA OthersPath ==
  ASSUME GInv, TInv, NEW t \in Threads, TakeRequest(t) \/ Proceed(t),
         NEW u \in Threads \ {t}, Path(u)
  PROVE  attempted'[u] = attempted[u] /\ Path(u)'
<1>1. attempted'[u] = attempted[u]
  BY DEF TInv, TakeRequest, Proceed, Attempt, run
<1>2. /\ pc'[u] = pc[u] /\ serving'[u] = serving[u]
      /\ chain'[u] = chain[u] /\ cost'[u] = cost[u]
  BY OthersStay DEF TakeRequest, Proceed
<1>3. QED
  BY <1>1, <1>2 DEF Path, Trying, Latest

LEMMA NextPInv == GInv /\ TInv /\ PInv /\ [RunNext]_<<gateway, run>> => PInv'
<1> SUFFICES ASSUME GInv, TInv, PInv, [RunNext]_<<gateway, run>>
             PROVE  PInv'
  OBVIOUS
<1>1. ASSUME NEW t \in Threads, TakeRequest(t) PROVE PInv'
  BY <1>1, TakePath, OthersPath DEF PInv
<1>2. ASSUME NEW t \in Threads, Proceed(t) PROVE PInv'
  BY <1>2, ProceedPath, OthersPath DEF PInv
<1>3. CASE Standing
  BY <1>3 DEF Standing, PInv, Path, Trying, Latest
<1>4. QED
  BY <1>1, <1>2, <1>3, OtherSteps

LEMMA InitPInv == RunInit => PInv
BY DEF RunInit, Init, PInv, Path, Trying

(* A request tries the providers in their order and leaves none out. *)
THEOREM PathInvariance == RunSpec => []PInv
BY InitPInv, NextPInv, GatewayInvariance, BookkeepingInvariance, PTL DEF RunSpec
-----------------------------------------------------------------------------
(* What a response may report. *)
Plausible(r) ==
  /\ r \in Response
  /\ r.route = "cache_hit" => r.attempted = {}
  /\ r.route = "primary"   => r.attempted = {1}
  /\ r.route = "fallback"  => /\ r.attempted \ {1} # {}
                              /\ ~Budgeted => 1 \in r.attempted
  /\ r.route = "static_fallback" /\ ~Budgeted => r.attempted = Providers

(* The points from which a worker returns. *)
LEMMA Returns ==
  ASSUME GInv, PInv, NEW t \in Threads, Work(t)
  PROVE  /\ pc[t] # "idle"
         /\ pc'[t] = "idle" => /\ pc[t] \in {"lookup", "relookup", "attempt", "charge"}
                               /\ pc[t] = "attempt" => chain[t] = {}
                               /\ spent' = spent + cost[t]
         /\ pc'[t] # "idle" => spent' = spent
         /\ left' = left
<1>1. /\ pc \in [Threads -> Point] /\ spent \in Nat
      /\ cost[t] \in Nat
      /\ pc[t] \notin {"store", "charge"} => cost[t] = 0
  BY GatewayAssumption DEF GInv, IInv, Types, PInv, Path
<1>2. CASE Charge(t)
  BY <1>1, <1>2 DEF Charge, Respond, Go, At
<1>3. CASE Degrade(t) \/ Lookup(t) \/ Relookup(t)
  BY <1>1, <1>3 DEF Degrade, Lookup, Relookup, Respond, Go, At, shared
<1>4. CASE Admit(t) \/ Deny(t) \/ Plan(t) \/ EnterBudgetLock(t)
  BY <1>1, <1>4 DEF Admit, Deny, Plan, EnterBudgetLock, Go, At, shared
<1>5. CASE ProviderFails(t) \/ ProviderSucceeds(t) \/ Store(t)
  BY <1>1, <1>5 DEF ProviderFails, ProviderSucceeds, Leave, Store, Go, At
<1>6. QED
  BY <1>2, <1>3, <1>4, <1>5 DEF Work

(* A worker returns a plausible response.                                  *)
LEMMA ResponseFits ==
  ASSUME GInv, TInv, PInv, NEW t \in Threads, Work(t), pc'[t] = "idle"
  PROVE  Plausible(ResponseOf(t))
<1> DEFINE r == ResponseOf(t)
<1>1. /\ Path(t) /\ attempted[t] \in SUBSET Providers
      /\ cost[t] \in 0..DearestCall
  BY DEF PInv, TInv, GInv, IInv, Types
<1>2. r.attempted = attempted[t] /\ r.cost = cost[t]
  BY DEF ResponseOf
<1>3. CASE pc[t] \in {"lookup", "relookup"}
  <2>1. r = [route |-> "cache_hit", attempted |-> attempted[t], cost |-> cost[t]]
    BY <1>3 DEF ResponseOf
  <2>2. attempted[t] = {}
    BY <1>1, <1>3 DEF Path, Trying
  <2>3. QED
    BY <1>1, <2>1, <2>2 DEF Plausible, Response, Route
<1>4. CASE pc[t] = "attempt"
  <2>1. r = [route |-> "static_fallback", attempted |-> attempted[t], cost |-> cost[t]]
    BY <1>4 DEF ResponseOf
  <2>2. ~Budgeted => attempted[t] = Providers
    BY <1>1, <1>4, Returns DEF Path, Trying
  <2>3. QED
    BY <1>1, <2>1, <2>2 DEF Plausible, Response, Route
<1>5. CASE pc[t] = "charge"
  <2>1. PICK p \in Providers : Latest(p, attempted[t])
    BY <1>1, <1>5 DEF Path
  <2>2. attempted[t] \subseteq Nat /\ p \in attempted[t]
    BY <1>1, <2>1, PositionsAreNatural DEF Latest
  <2>3. Max(attempted[t]) = p
    BY <2>1, <2>2, LatestIsMax
  <2>4. r = [route |-> IF p = 1 THEN "primary" ELSE "fallback",
             attempted |-> attempted[t], cost |-> cost[t]]
    BY <1>5, <2>3 DEF ResponseOf
  <2>5. \A a \in attempted[t] : a \in Nat \ {0} /\ a <= p
    BY <1>1, <2>1, PositionsAreNatural DEF Latest
  <2>6. p = 1 => attempted[t] = {1}
    BY <2>2, <2>5
  <2>7. ~Budgeted => 1 \in attempted[t]
    <3>1. 1 \in Providers
      BY PositionsAreNatural
    <3>2. ~Budgeted => attempted[t] \cup chain[t] = Providers
      BY <1>1, <1>5 DEF Path, Trying
    <3>3. 1 \notin chain[t]
      BY <1>1, <1>5, <2>2, <2>5 DEF Path, Trying
    <3>4. QED
      BY <3>1, <3>2, <3>3
  <2>8. CASE p = 1
    <3>1. r = [route |-> "primary", attempted |-> {1}, cost |-> cost[t]]
      BY <2>4, <2>6, <2>8
    <3>2. QED
      BY <1>1, <2>6, <2>8, <3>1 DEF Plausible, Response, Route
  <2>9. CASE p # 1
    <3>1. r = [route |-> "fallback", attempted |-> attempted[t], cost |-> cost[t]]
      BY <2>4, <2>9
    <3>2. QED
      BY <1>1, <2>2, <2>7, <2>9, <3>1 DEF Plausible, Response, Route
  <2>10. QED
    BY <2>8, <2>9
<1>6. QED
  BY <1>3, <1>4, <1>5, Returns

(* How many requests are still to be answered. *)
LEMMA DueSteps ==
  ASSUME GInv, PInv, NEW t \in Threads
  PROVE  /\ Due \in Nat
         /\ TakeRequest(t) => Due' = Due /\ spent' = spent /\ left' < left
         /\ Work(t) => Due' = Due - (IF pc'[t] = "idle" THEN 1 ELSE 0)
<1>0. left \in Nat /\ Cardinality(Busy) \in Nat /\ Busy \in SUBSET Threads
  BY CountTypes DEF GInv, NInv, DueBound, Busy
<1>1. Due \in Nat
  BY <1>0 DEF Due
<1>2. ASSUME TakeRequest(t) PROVE Due' = Due /\ spent' = spent /\ left' < left
  <2>1. /\ pc[t] = "idle" /\ pc'[t] = "lookup" /\ left > 0 /\ left' = left - 1
        /\ spent' = spent
    BY <1>2 DEF GInv, IInv, Types, TakeRequest, Take, At, Go, shared
  <2>2. \A u \in Threads \ {t} : pc'[u] = pc[u]
    BY <1>2, OthersStay DEF TakeRequest
  <2>3. Busy' = Busy \cup {t} /\ t \notin Busy
    BY <2>1, <2>2 DEF Busy
  <2>4. Cardinality(Busy') = Cardinality(Busy) + 1
    BY <1>0, <2>3, CountFacts, FS_AddElement
  <2>5. QED
    BY <1>0, <2>1, <2>4 DEF Due
<1>3. ASSUME Work(t) PROVE Due' = Due - (IF pc'[t] = "idle" THEN 1 ELSE 0)
  <2>1. pc[t] # "idle" /\ left' = left
    BY <1>3, Returns
  <2>2. \A u \in Threads \ {t} : pc'[u] = pc[u]
    BY <1>3, OthersStay
  <2>3. CASE pc'[t] = "idle"
    <3>1. Busy' = Busy \ {t} /\ t \in Busy
      BY <2>1, <2>2, <2>3 DEF Busy
    <3>2. Cardinality(Busy') = Cardinality(Busy) - 1
      BY <1>0, <3>1, CountFacts
    <3>3. QED
      BY <1>0, <2>1, <2>3, <3>2 DEF Due
  <2>4. CASE pc'[t] # "idle"
    <3>1. Busy' = Busy
      BY <2>1, <2>2, <2>4 DEF Busy
    <3>2. QED
      BY <1>0, <2>1, <2>4, <3>1 DEF Due
  <2>5. QED
    BY <2>3, <2>4
<1>4. QED
  BY <1>1, <1>2, <1>3
-----------------------------------------------------------------------------
(* The books over a bag of responses for which an amount was charged.      *)
Costs(B)     == [r \in DOMAIN B |-> r.cost]
Primaries(B) == [r \in DOMAIN B |-> Cardinality(r.attempted \cap {1})]
Others(B)    == [r \in DOMAIN B |-> Cardinality(r.attempted \ {1})]
Fallbacks    == Cardinality(Providers \ {1})

Asked(B) == By(B, Route) - By(B, {"cache_hit"})

BalancedRoutes(B) ==
  /\ By(B, SuccessfulRoutes) + By(B, {"static_fallback"}) = By(B, Route)
  /\ By(B, SuccessfulRoutes) =
       By(B, {"primary"}) + By(B, {"fallback"}) + By(B, {"cache_hit"})

BalancedAttempts(B) ==
  ~Budgeted =>
    /\ 1 \in Providers => SumOver(B, Primaries(B)) = Asked(B)
    /\ SumOver(B, Others(B)) >=
         By(B, {"fallback"}) + By(B, {"static_fallback"}) * Fallbacks
    /\ SumOver(B, Others(B)) <= (Asked(B) - By(B, {"primary"})) * Fallbacks

Books(B, amount) ==
  /\ BalancedRoutes(B)
  /\ BalancedAttempts(B)
  /\ SumOver(B, Costs(B)) = amount

(* One more response of each route. *)
LEMMA RoutesMore ==
  ASSUME NEW B, FiniteBag(B), NEW r, Plausible(r), NEW C, Gains(B, r, C)
  PROVE  /\ \A routes : By(B, routes) \in Nat
         /\ \A route \in Route :
              By(C, {route}) = By(B, {route}) + (IF r.route = route THEN 1 ELSE 0)
         /\ By(C, Route) = By(B, Route) + 1
         /\ By(C, SuccessfulRoutes) =
              By(B, SuccessfulRoutes) + (IF r.route = "static_fallback" THEN 0 ELSE 1)
<1>1. r.route \in Route
  BY DEF Plausible, Response
<1>2. \A routes : /\ By(B, routes) \in Nat
                  /\ By(C, routes) = By(B, routes) + (IF r.route \in routes THEN 1 ELSE 0)
  BY ByMore
<1>3. r.route \in SuccessfulRoutes <=> r.route # "static_fallback"
  BY <1>1 DEF SuccessfulRoutes
<1>4. \A route \in Route : r.route \in {route} <=> r.route = route
  OBVIOUS
<1>5. QED
  BY <1>1, <1>2, <1>3, <1>4

(* One more plausible response keeps the books balanced.                   *)
LEMMA BalancedRoutesMore ==
  ASSUME NEW B, FiniteBag(B), NEW r, Plausible(r), NEW C, Gains(B, r, C),
         BalancedRoutes(B)
  PROVE  BalancedRoutes(C)
<1>1. r.route \in Route
  BY DEF Plausible, Response
<1>2. /\ By(B, {"primary"}) \in Nat /\ By(B, {"fallback"}) \in Nat
      /\ By(B, {"cache_hit"}) \in Nat /\ By(B, {"static_fallback"}) \in Nat
      /\ By(B, Route) \in Nat /\ By(B, SuccessfulRoutes) \in Nat
  BY RoutesMore
<1>3. /\ By(C, {"primary"}) = By(B, {"primary"}) + (IF r.route = "primary" THEN 1 ELSE 0)
      /\ By(C, {"fallback"}) = By(B, {"fallback"}) + (IF r.route = "fallback" THEN 1 ELSE 0)
      /\ By(C, {"cache_hit"}) =
           By(B, {"cache_hit"}) + (IF r.route = "cache_hit" THEN 1 ELSE 0)
      /\ By(C, {"static_fallback"}) =
           By(B, {"static_fallback"}) + (IF r.route = "static_fallback" THEN 1 ELSE 0)
  BY RoutesMore DEF Route
<1>4. /\ By(C, Route) = By(B, Route) + 1
      /\ By(C, SuccessfulRoutes) =
           By(B, SuccessfulRoutes) + (IF r.route = "static_fallback" THEN 0 ELSE 1)
  BY RoutesMore
<1>5. QED
  BY <1>1, <1>2, <1>3, <1>4 DEF BalancedRoutes, Route

(* The numbers of attempts that a response reports. *)
LEMMA AttemptsReported ==
  ASSUME NEW r, Plausible(r)
  PROVE  /\ Fallbacks \in Nat /\ r.cost \in Nat
         /\ Cardinality(r.attempted \cap {1}) =
              IF 1 \in r.attempted THEN 1 ELSE 0
         /\ Cardinality(r.attempted \ {1}) \in Nat
         /\ Cardinality(r.attempted \ {1}) <= Fallbacks
         /\ r.route \in {"cache_hit", "primary"} => Cardinality(r.attempted \ {1}) = 0
         /\ r.route = "fallback" => Cardinality(r.attempted \ {1}) > 0
         /\ ~Budgeted => /\ r.route = "static_fallback" =>
                              Cardinality(r.attempted \ {1}) = Fallbacks
                         /\ 1 \in Providers =>
                              (1 \in r.attempted <=> r.route # "cache_hit")
<1>1. r.attempted \subseteq Providers /\ r.cost \in Nat /\ r.route \in Route
  BY GatewayAssumption DEF Plausible, Response
<1>2. IsFiniteSet(Providers \ {1}) /\ r.attempted \ {1} \subseteq Providers \ {1}
  BY <1>1, PositionsAreNatural, FS_Subset
<1> DEFINE other == r.attempted \ {1}
<1>3. /\ Cardinality(other) \in Nat /\ Cardinality(other) <= Fallbacks
      /\ Fallbacks \in Nat /\ IsFiniteSet(other)
  BY <1>2, FS_Subset, FS_CardinalityType DEF Fallbacks
<1>4. Cardinality(other) = 0 <=> other = {}
  BY <1>3, FS_EmptySet
<1>5. Cardinality({1}) = 1 /\ Cardinality({}) = 0
  BY FS_Singleton, FS_EmptySet
<1>6. /\ 1 \in r.attempted => r.attempted \cap {1} = {1}
      /\ 1 \notin r.attempted => r.attempted \cap {1} = {}
  OBVIOUS
<1>7. /\ r.route \in {"cache_hit", "primary"} => other = {}
      /\ r.route = "fallback" => other # {}
  BY DEF Plausible
<1>8. ~Budgeted => /\ r.route = "static_fallback" => other = Providers \ {1}
                   /\ 1 \in Providers => (1 \in r.attempted <=> r.route # "cache_hit")
  BY <1>1 DEF Plausible, Route
<1>9. QED
  BY <1>1, <1>3, <1>4, <1>5, <1>6, <1>7, <1>8 DEF Fallbacks

LEMMA BalancedAttemptsMore ==
  ASSUME NEW B, FiniteBag(B), \A x \in DOMAIN B : Plausible(x),
         NEW r, Plausible(r), NEW C, Gains(B, r, C), BalancedAttempts(B)
  PROVE  BalancedAttempts(C)
<1> SUFFICES ASSUME ~Budgeted
             PROVE  /\ 1 \in Providers => SumOver(C, Primaries(C)) = Asked(C)
                    /\ SumOver(C, Others(C)) >=
                         By(C, {"fallback"}) + By(C, {"static_fallback"}) * Fallbacks
                    /\ SumOver(C, Others(C)) <=
                         (Asked(C) - By(C, {"primary"})) * Fallbacks
  BY DEF BalancedAttempts
<1> DEFINE others == Cardinality(r.attempted \ {1})
           primaries == Cardinality(r.attempted \cap {1})
<1>1. DOMAIN C = DOMAIN B \cup {r} /\ \A x \in DOMAIN C : Plausible(x)
  BY DEF Gains
<1>2. /\ SumOver(B, Primaries(B)) \in Nat
      /\ SumOver(C, Primaries(C)) = SumOver(B, Primaries(B)) + primaries
  <2>0. ASSUME NEW x \in DOMAIN C
        PROVE  Cardinality(x.attempted \cap {1}) \in Nat
    <3>1. Cardinality(x.attempted \cap {1}) = IF 1 \in x.attempted THEN 1 ELSE 0
      BY <1>1, AttemptsReported
    <3>2. QED
      BY <3>1
  <2>1. /\ \A x \in DOMAIN C : Primaries(C)[x] \in Nat
        /\ \A x \in DOMAIN B : Primaries(B)[x] = Primaries(C)[x]
        /\ Primaries(C)[r] = primaries
    BY <1>1, <2>0 DEF Primaries
  <2> HIDE DEF primaries
  <2>2. QED
    BY <2>1, SumOverMore
<1>3. /\ SumOver(B, Others(B)) \in Nat
      /\ SumOver(C, Others(C)) = SumOver(B, Others(B)) + others
  <2>1. /\ \A x \in DOMAIN C : Others(C)[x] \in Nat
        /\ \A x \in DOMAIN B : Others(B)[x] = Others(C)[x]
        /\ Others(C)[r] = others
    BY <1>1, AttemptsReported DEF Others
  <2> HIDE DEF others
  <2>2. QED
    BY <2>1, SumOverMore
<1>4. /\ Fallbacks \in Nat /\ others \in Nat /\ others <= Fallbacks
      /\ primaries = IF 1 \in r.attempted THEN 1 ELSE 0
      /\ r.route \in {"cache_hit", "primary"} => others = 0
      /\ r.route = "fallback" => others > 0
      /\ r.route = "static_fallback" => others = Fallbacks
      /\ 1 \in Providers => (1 \in r.attempted <=> r.route # "cache_hit")
  BY AttemptsReported
<1> HIDE DEF others, primaries
<1> DEFINE hits == By(B, {"cache_hit"})
           firsts == By(B, {"primary"})
           seconds == By(B, {"fallback"})
           statics == By(B, {"static_fallback"})
           total == By(B, Route)
<1>5. /\ hits \in Nat /\ firsts \in Nat /\ seconds \in Nat /\ statics \in Nat
      /\ total \in Nat /\ By(C, Route) = total + 1
  BY RoutesMore
<1>6. /\ By(C, {"cache_hit"}) = hits + (IF r.route = "cache_hit" THEN 1 ELSE 0)
      /\ By(C, {"primary"}) = firsts + (IF r.route = "primary" THEN 1 ELSE 0)
      /\ By(C, {"fallback"}) = seconds + (IF r.route = "fallback" THEN 1 ELSE 0)
      /\ By(C, {"static_fallback"}) =
           statics + (IF r.route = "static_fallback" THEN 1 ELSE 0)
  BY RoutesMore DEF Route
<1>7. /\ 1 \in Providers => SumOver(B, Primaries(B)) = total - hits
      /\ SumOver(B, Others(B)) >= seconds + statics * Fallbacks
      /\ SumOver(B, Others(B)) <= ((total - hits) - firsts) * Fallbacks
  BY DEF BalancedAttempts, Asked
<1>8. r.route \in Route
  BY DEF Plausible, Response
<1> HIDE DEF hits, firsts, seconds, statics, total
<1>9. \A n \in Int : n * Fallbacks \in Int /\ (n + 1) * Fallbacks = n * Fallbacks + Fallbacks
  BY <1>4
<1>10. CASE r.route = "cache_hit"
  <2>1. /\ Asked(C) = total - hits /\ By(C, {"primary"}) = firsts
        /\ By(C, {"fallback"}) = seconds /\ By(C, {"static_fallback"}) = statics
    BY <1>5, <1>6, <1>10 DEF Asked
  <2>2. SumOver(C, Others(C)) = SumOver(B, Others(B))
    BY <1>3, <1>4, <1>10
  <2>3. 1 \in Providers => SumOver(C, Primaries(C)) = SumOver(B, Primaries(B))
    BY <1>2, <1>4, <1>10
  <2>4. QED
    BY <1>7, <2>1, <2>2, <2>3
<1>11. CASE r.route = "primary"
  <2>1. /\ Asked(C) = (total - hits) + 1 /\ By(C, {"primary"}) = firsts + 1
        /\ Asked(C) - By(C, {"primary"}) = (total - hits) - firsts
        /\ By(C, {"fallback"}) = seconds /\ By(C, {"static_fallback"}) = statics
    BY <1>5, <1>6, <1>11 DEF Asked
  <2>2. SumOver(C, Others(C)) = SumOver(B, Others(B))
    BY <1>3, <1>4, <1>11
  <2>3. 1 \in Providers => SumOver(C, Primaries(C)) = SumOver(B, Primaries(B)) + 1
    BY <1>2, <1>4, <1>11
  <2>4. QED
    BY <1>7, <2>1, <2>2, <2>3
<1>12. CASE r.route = "fallback"
  <2> DEFINE n == (total - hits) - firsts
  <2>1. /\ Asked(C) = (total - hits) + 1 /\ By(C, {"primary"}) = firsts
        /\ Asked(C) - By(C, {"primary"}) = n + 1 /\ n \in Int
        /\ By(C, {"fallback"}) = seconds + 1 /\ By(C, {"static_fallback"}) = statics
    BY <1>5, <1>6, <1>12 DEF Asked
  <2>2. SumOver(C, Others(C)) = SumOver(B, Others(B)) + others /\ others > 0
    BY <1>3, <1>4, <1>12
  <2>3. 1 \in Providers => SumOver(C, Primaries(C)) = SumOver(B, Primaries(B)) + 1
    BY <1>2, <1>4, <1>12
  <2>4. SumOver(B, Others(B)) <= n * Fallbacks
    BY <1>7
  <2> HIDE DEF n
  <2>5. SumOver(C, Others(C)) <= (n + 1) * Fallbacks
    <3>1. n * Fallbacks \in Int /\ (n + 1) * Fallbacks = n * Fallbacks + Fallbacks
      BY <1>9, <2>1
    <3>2. QED
      BY <1>3, <1>4, <2>2, <2>4, <3>1
  <2>6. SumOver(C, Others(C)) >= seconds + 1 + statics * Fallbacks
    <3>1. statics * Fallbacks \in Int
      BY <1>5, <1>9
    <3>2. QED
      BY <1>3, <1>4, <1>5, <1>7, <2>2, <3>1
  <2>7. QED
    BY <1>7, <2>1, <2>3, <2>5, <2>6
<1>13. CASE r.route = "static_fallback"
  <2> DEFINE n == (total - hits) - firsts
  <2>1. /\ Asked(C) = (total - hits) + 1 /\ By(C, {"primary"}) = firsts
        /\ Asked(C) - By(C, {"primary"}) = n + 1 /\ n \in Int
        /\ By(C, {"fallback"}) = seconds /\ By(C, {"static_fallback"}) = statics + 1
    BY <1>5, <1>6, <1>13 DEF Asked
  <2>2. SumOver(C, Others(C)) = SumOver(B, Others(B)) + Fallbacks
    BY <1>3, <1>4, <1>13
  <2>3. 1 \in Providers => SumOver(C, Primaries(C)) = SumOver(B, Primaries(B)) + 1
    BY <1>2, <1>4, <1>13
  <2>4. SumOver(B, Others(B)) <= n * Fallbacks
    BY <1>7
  <2> HIDE DEF n
  <2>5. SumOver(C, Others(C)) <= (n + 1) * Fallbacks
    <3>1. n * Fallbacks \in Int /\ (n + 1) * Fallbacks = n * Fallbacks + Fallbacks
      BY <1>9, <2>1
    <3>2. QED
      BY <1>3, <1>4, <2>2, <2>4, <3>1
  <2>6. SumOver(C, Others(C)) >= seconds + (statics + 1) * Fallbacks
    <3>1. /\ statics * Fallbacks \in Int
          /\ (statics + 1) * Fallbacks = statics * Fallbacks + Fallbacks
      BY <1>5, <1>9
    <3>2. QED
      BY <1>3, <1>4, <1>5, <1>7, <2>2, <3>1
  <2>7. QED
    BY <1>7, <2>1, <2>3, <2>5, <2>6
<1>14. QED
  BY <1>8, <1>10, <1>11, <1>12, <1>13 DEF Route

LEMMA BooksMore ==
  ASSUME NEW B, FiniteBag(B), \A x \in DOMAIN B : Plausible(x),
         NEW r, Plausible(r), NEW C, Gains(B, r, C),
         NEW amount, Books(B, amount)
  PROVE  Books(C, amount + r.cost)
<1>1. DOMAIN C = DOMAIN B \cup {r} /\ \A x \in DOMAIN C : Plausible(x)
  BY DEF Gains
<1>2. /\ \A x \in DOMAIN C : Costs(C)[x] \in Nat
      /\ \A x \in DOMAIN B : Costs(B)[x] = Costs(C)[x]
      /\ Costs(C)[r] = r.cost
  BY <1>1, AttemptsReported DEF Costs
<1>3. SumOver(C, Costs(C)) = SumOver(B, Costs(B)) + r.cost
  BY <1>2, SumOverMore
<1>4. QED
  BY <1>3, BalancedRoutesMore, BalancedAttemptsMore DEF Books

LEMMA EmptyBooks == FiniteBag(EmptyBag) /\ Books(EmptyBag, 0) /\ By(EmptyBag, Route) = 0
<1>1. DOMAIN EmptyBag = {} /\ IsABag(EmptyBag) /\ IsFiniteSet({})
  BY FS_EmptySet DEF EmptyBag, SetToBag, IsABag
<1>2. \A f : SumFunctionOnSet(f, {}) = 0
  BY <1>1, SumUnfold
<1>3. \A routes : By(EmptyBag, routes) = 0
  BY <1>1, <1>2 DEF By, HowMany
<1>4. \A a : SumOver(EmptyBag, a) = 0
  BY <1>1, <1>2 DEF SumOver, SumFunction
<1>5. Fallbacks \in Nat
  BY PositionsAreNatural, FS_Subset, FS_CardinalityType DEF Fallbacks
<1>6. BalancedRoutes(EmptyBag)
  BY <1>3 DEF BalancedRoutes
<1>7. BalancedAttempts(EmptyBag)
  BY <1>3, <1>4, <1>5 DEF BalancedAttempts, Asked
<1>8. QED
  BY <1>1, <1>3, <1>4, <1>6, <1>7 DEF FiniteBag, Books

(* The responses are those of the requests that are over; they are         *)
(* plausible, and the books over them balance with what was charged.       *)
BInv ==
  /\ FiniteBag(responses)
  /\ \A r \in DOMAIN responses : Plausible(r)
  /\ By(responses, Route) + Due = MaxRequests
  /\ Books(responses, spent)

LEMMA ProceedBInv ==
  ASSUME GInv, TInv, PInv, BInv, NEW t \in Threads, Proceed(t)
  PROVE  BInv'
<1>0. Work(t) /\ AddResponse(t)
  BY DEF Proceed
<1>1. /\ Due \in Nat /\ MaxRequests \in Nat
      /\ Due' = Due - (IF pc'[t] = "idle" THEN 1 ELSE 0)
  BY <1>0, DueSteps, GatewayAssumption
<1>2. CASE pc'[t] # "idle"
  <2>1. responses' = responses /\ spent' = spent
    BY <1>0, <1>2, Returns DEF AddResponse
  <2>2. Due' = Due
    BY <1>1, <1>2
  <2>3. QED
    BY <2>1, <2>2 DEF BInv
<1>3. CASE pc'[t] = "idle"
  <2> DEFINE r == ResponseOf(t)
  <2>1. Plausible(r) /\ r.cost = cost[t]
    BY <1>0, <1>3, ResponseFits DEF ResponseOf
  <2>2. spent' = spent + r.cost
    BY <1>0, <1>3, <2>1, Returns
  <2>3. responses' = responses (+) SetToBag({r})
    BY <1>0, <1>3 DEF AddResponse
  <2> HIDE DEF r
  <2>4. FiniteBag(responses') /\ Gains(responses, r, responses')
    BY <2>3, OneMore DEF BInv
  <2>5. \A x \in DOMAIN responses' : Plausible(x)
    BY <2>1, <2>4 DEF BInv, Gains
  <2>6. Books(responses', spent + r.cost)
    BY <2>1, <2>4, BooksMore DEF BInv
  <2>7. By(responses', Route) + Due' = MaxRequests
    <3>1. /\ By(responses', Route) = By(responses, Route) + 1
          /\ By(responses, Route) \in Nat
      BY <2>1, <2>4, RoutesMore DEF BInv
    <3>2. By(responses, Route) + Due = MaxRequests
      BY DEF BInv
    <3>3. QED
      BY <1>1, <1>3, <3>1, <3>2
  <2>8. QED
    BY <2>2, <2>4, <2>5, <2>6, <2>7 DEF BInv
<1>4. QED
  BY <1>2, <1>3

LEMMA NextBInv ==
  GInv /\ TInv /\ PInv /\ BInv /\ [RunNext]_<<gateway, run>> => BInv'
<1> SUFFICES ASSUME GInv, TInv, PInv, BInv, [RunNext]_<<gateway, run>>
             PROVE  BInv'
  OBVIOUS
<1>1. ASSUME NEW t \in Threads, Proceed(t) PROVE BInv'
  BY <1>1, ProceedBInv
<1>2. ASSUME NEW t \in Threads, TakeRequest(t) PROVE BInv'
  <2>1. Due' = Due /\ spent' = spent /\ responses' = responses
    BY <1>2, DueSteps DEF TakeRequest, run
  <2>2. QED
    BY <2>1 DEF BInv
<1>3. CASE Standing
  <2>1. Due' = Due /\ spent' = spent /\ responses' = responses
    BY <1>3 DEF Standing, Due, Busy
  <2>2. QED
    BY <2>1 DEF BInv
<1>4. QED
  BY <1>1, <1>2, <1>3, OtherSteps

LEMMA InitBInv == RunInit => BInv
<1> SUFFICES ASSUME RunInit PROVE BInv
  OBVIOUS
<1>1. responses = EmptyBag /\ spent = 0 /\ left = MaxRequests /\ Busy = {}
  BY DEF RunInit, Init, Busy
<1>2. DOMAIN EmptyBag = {}
  BY DEF EmptyBag, SetToBag
<1>3. MaxRequests \in Nat /\ Cardinality({}) = 0
  BY GatewayAssumption, FS_EmptySet
<1>4. FiniteBag(responses) /\ Books(responses, spent) /\ By(responses, Route) = 0
  BY <1>1, EmptyBooks
<1>5. Due = MaxRequests
  BY <1>1, <1>3 DEF Due
<1>6. QED
  BY <1>1, <1>2, <1>3, <1>4, <1>5 DEF BInv

(* The responses balance with the money and the requests all the time.     *)
THEOREM ResponseInvariance == RunSpec => []BInv
BY InitBInv, NextBInv, GatewayInvariance, BookkeepingInvariance, PathInvariance, PTL
   DEF RunSpec

(* When the run is done the workers are. *)
EInv == phase = "done" => left = 0 /\ AllIdle

LEMMA NextEInv ==
  GInv /\ TInv /\ PInv /\ EInv /\ [RunNext]_<<gateway, run>> => EInv'
<1> SUFFICES ASSUME GInv, TInv, PInv, EInv, [RunNext]_<<gateway, run>>, phase' = "done"
             PROVE  left' = 0 /\ AllIdle'
  BY DEF EInv
<1>0. left \in Nat
  BY DEF GInv, NInv, DueBound
<1>1. ASSUME NEW t \in Threads, Proceed(t) PROVE FALSE
  <2>1. phase = "done" /\ pc[t] # "idle"
    BY <1>1, Returns DEF Proceed
  <2>2. QED
    BY <2>1 DEF EInv, AllIdle, At
<1>2. ASSUME NEW t \in Threads, TakeRequest(t) PROVE FALSE
  <2>1. phase = "done" /\ left > 0
    BY <1>2 DEF TakeRequest, Take, run
  <2>2. QED
    BY <2>1 DEF EInv
<1>3. CASE Standing
  <2>1. left = 0 /\ AllIdle
    <3>1. CASE phase = "done"
      BY <3>1 DEF EInv
    <3>2. CASE phase # "done"
      <4>1. Collect
        BY <1>1, <1>2, <3>2
           DEF RunNext, ExpireAnswer, TimePasses, Recover, Repair, run
      <4>2. QED
        BY <1>0, <4>1 DEF Collect, LeftInBatch
    <3>3. QED
      BY <3>1, <3>2
  <2>2. QED
    BY <1>3, <2>1 DEF Standing, AllIdle, At
<1>4. QED
  BY <1>1, <1>2, <1>3, OtherSteps

(* A run that is done has taken and answered every request.                *)
THEOREM EndInvariance == RunSpec => []EInv
<1>1. RunInit => EInv
  BY DEF RunInit, EInv
<1>2. QED
  BY <1>1, NextEInv, GatewayInvariance, BookkeepingInvariance, PathInvariance, PTL
     DEF RunSpec

(* The books balance at the end of every run, however the requests of its  *)
(* workers overlap and whatever the providers do.                          *)
THEOREM BooksBalance == RunSpec => []AccountsBalance
<1>1. BInv /\ EInv => AccountsBalance
  <2> SUFFICES ASSUME BInv, EInv, phase = "done", ~Budgeted
               PROVE  LET fallbacks == Cardinality(Providers \ {1})
                          missed    == MaxRequests - metrics.cache_hits
                      IN /\ metrics.total_requests = MaxRequests
                         /\ metrics.successful_requests + metrics.failed_requests
                              = MaxRequests
                         /\ metrics.successful_requests =
                              metrics.primary_successes + metrics.fallback_successes
                                + metrics.cache_hits
                         /\ 1 \in Providers => metrics.primary_attempts = missed
                         /\ metrics.fallback_attempts >=
                              metrics.fallback_successes
                                + metrics.static_fallbacks * fallbacks
                         /\ metrics.fallback_attempts <=
                              (missed - metrics.primary_successes) * fallbacks
                         /\ metrics.estimated_cost = spent
    BY DEF AccountsBalance
  <2>1. By(responses, Route) = MaxRequests
    <3>1. left = 0 /\ Busy = {}
      BY DEF EInv, AllIdle, At, Busy
    <3>2. Due = 0
      BY <3>1, FS_EmptySet DEF Due
    <3>3. By(responses, Route) \in Nat
      <4>1. {r \in DOMAIN responses : r.route \in Route} \subseteq DOMAIN responses
        OBVIOUS
      <4>2. QED
        BY <4>1, HowManyNat DEF BInv, By
    <3>4. QED
      BY <3>2, <3>3, GatewayAssumption DEF BInv
  <2>2. /\ metrics.total_requests = By(responses, Route)
        /\ metrics.successful_requests = By(responses, SuccessfulRoutes)
        /\ metrics.failed_requests = By(responses, {"static_fallback"})
        /\ metrics.primary_successes = By(responses, {"primary"})
        /\ metrics.fallback_successes = By(responses, {"fallback"})
        /\ metrics.static_fallbacks = By(responses, {"static_fallback"})
        /\ metrics.cache_hits = By(responses, {"cache_hit"})
        /\ metrics.primary_attempts = SumOver(responses, Primaries(responses))
        /\ metrics.fallback_attempts = SumOver(responses, Others(responses))
        /\ metrics.estimated_cost = SumOver(responses, Costs(responses))
    BY DEF metrics, Metrics, Primaries, Others, Costs
  <2>3. /\ BalancedRoutes(responses)
        /\ SumOver(responses, Costs(responses)) = spent
        /\ BalancedAttempts(responses)
    BY DEF BInv, Books
  <2>4. QED
    BY <2>1, <2>2, <2>3 DEF BalancedRoutes, BalancedAttempts, Asked, Fallbacks
<1>2. QED
  BY <1>1, ResponseInvariance, EndInvariance, PTL
-----------------------------------------------------------------------------
(* The types of everything. *)
LInv == latencies \in Seq(Latencies)

LEMMA NextLInv == BInv /\ LInv /\ [RunNext]_<<gateway, run>> => LInv'
<1> SUFFICES ASSUME BInv, LInv, [RunNext]_<<gateway, run>> PROVE LInv'
  OBVIOUS
<1>1. CASE latencies' = latencies
  BY <1>1 DEF LInv
<1>2. CASE Collect
  <2> DEFINE answered == By(responses, {"primary", "fallback"})
  <2>1. answered \in Nat
    <3>1. {r \in DOMAIN responses : r.route \in {"primary", "fallback"}} \subseteq
            DOMAIN responses
      OBVIOUS
    <3>2. QED
      BY <3>1, HowManyNat DEF BInv, By
  <2>2. latencies' \in [1..answered -> Latencies]
    BY <1>2 DEF Collect
  <2> HIDE DEF answered
  <2>3. QED
    BY <2>1, <2>2 DEF LInv
<1>3. QED
  BY <1>1, <1>2
     DEF RunNext, TakeRequest, Proceed, ExpireAnswer, TimePasses, Recover, Repair, run

(* The measured latencies are a list of possible ones.                     *)
THEOREM LatencyInvariance == RunSpec => []LInv
<1>1. RunInit => LInv
  BY DEF RunInit, LInv
<1>2. QED
  BY <1>1, NextLInv, ResponseInvariance, PTL DEF RunSpec

(* Every variable of a run keeps its type: the clock ends in time, the log *)
(* entries are transitions, and there is no response too many.             *)
THEOREM RunTypeCorrect == RunSpec => []RunTypeOK
<1>1. GInv /\ TInv /\ BInv /\ LInv => RunTypeOK
  <2> SUFFICES ASSUME GInv, TInv, BInv, LInv PROVE RunTypeOK
    OBVIOUS
  <2>1. TypeOK
    BY InvariantsImplyTypeOK DEF GInv
  <2>2. now \in 0..(MaxTicks + ResetTimeout)
    BY ThresholdsAssumption, ScenarioAssumption DEF TInv, Horizon
  <2>3. By(responses, Route) <= MaxRequests
    <3>1. Due \in Nat /\ MaxRequests \in Nat
      BY CountTypes, GatewayAssumption DEF GInv, NInv, DueBound, Due
    <3>2. By(responses, Route) \in Nat
      <4>1. {r \in DOMAIN responses : r.route \in Route} \subseteq DOMAIN responses
        OBVIOUS
      <4>2. QED
        BY <4>1, HowManyNat DEF BInv, By
    <3>3. QED
      BY <3>1, <3>2 DEF BInv
  <2>4. IsABag(responses) /\ DOMAIN responses \subseteq Response
    BY DEF BInv, FiniteBag, Plausible
  <2>5. QED
    BY <2>1, <2>2, <2>3, <2>4 DEF RunTypeOK, TInv, LInv, At
<1>2. QED
  BY <1>1, GatewayInvariance, BookkeepingInvariance, ResponseInvariance,
     LatencyInvariance, PTL
-----------------------------------------------------------------------------
(* The requests under way that provider p was tried for and did not        *)
(* answer; with those that are over they explain the openings of its       *)
(* circuit.                                                                *)
Answers(t, p) == pc[t] \in {"store", "charge"} /\ Latest(p, attempted[t])

Passing(p) ==
  {t \in Threads : p \in attempted[t] /\ serving[t] # p /\ ~Answers(t, p)}

Unserved(p) == HowMany(responses, Unanswered(p)) + Cardinality(Passing(p))

Explained(b, opens, unserved) ==
  /\ opens \in Nat /\ unserved \in Nat
  /\ opens = 0 => b.state = "closed" /\ b.failure_count <= unserved
  /\ opens > 0 => unserved >= opens + FailureThreshold - 1

OInv == \A p \in Providers : Explained(breakers[p], Entered("open", log[p]), Unserved(p))

(* The response of a worker that p has passed over counts for p.           *)
LEMMA ResponseCounts ==
  ASSUME GInv, TInv, PInv, BInv, NEW t \in Threads, Proceed(t), NEW p \in Providers
  PROVE  /\ HowMany(responses, Unanswered(p)) \in Nat
         /\ HowMany(responses', Unanswered(p)') >= HowMany(responses, Unanswered(p))
         /\ pc'[t] = "idle" /\ t \in Passing(p) =>
              HowMany(responses', Unanswered(p)') = HowMany(responses, Unanswered(p)) + 1
<1> DEFINE Missing(B) ==
             {r \in DOMAIN B :
                p \in r.attempted /\ (r.route = "static_fallback" \/ p # Max(r.attempted))}
<1>1. /\ Unanswered(p) = Missing(responses) /\ Unanswered(p)' = Missing(responses')
  BY DEF Unanswered
<1>2. HowMany(responses, Missing(responses)) \in Nat
  BY HowManyNat DEF BInv
<1>3. CASE pc'[t] # "idle"
  <2>1. responses' = responses
    BY <1>3 DEF Proceed, AddResponse
  <2>2. QED
    BY <1>1, <1>2, <1>3, <2>1
<1>4. CASE pc'[t] = "idle"
  <2> DEFINE r == ResponseOf(t)
             lost == p \in r.attempted /\ (r.route = "static_fallback" \/ p # Max(r.attempted))
  <2>1. responses' = responses (+) SetToBag({r})
    BY <1>4 DEF Proceed, AddResponse
  <2>2. t \in Passing(p) => lost
    <3> SUFFICES ASSUME t \in Passing(p) PROVE lost
      OBVIOUS
    <3>1. r.attempted = attempted[t] /\ p \in attempted[t]
      BY DEF ResponseOf, Passing
    <3>2. Path(t) /\ Work(t)
      BY DEF PInv, Proceed
    <3>3. pc[t] \in {"attempt", "charge"}
      BY <1>4, <3>1, <3>2, Returns DEF Path, Trying
    <3>4. pc[t] = "attempt" => r.route = "static_fallback"
      BY DEF ResponseOf
    <3>5. pc[t] = "charge" => p # Max(attempted[t])
      <4> SUFFICES ASSUME pc[t] = "charge" PROVE p # Max(attempted[t])
        OBVIOUS
      <4>1. PICK q \in Providers : Latest(q, attempted[t])
        BY <3>2 DEF Path
      <4>2. attempted[t] \subseteq Nat
        BY PositionsAreNatural DEF TInv
      <4>3. Max(attempted[t]) = q
        BY <4>1, <4>2, LatestIsMax
      <4>4. ~Latest(p, attempted[t])
        BY DEF Passing, Answers
      <4>5. QED
        BY <4>1, <4>3, <4>4
    <3>6. QED
      BY <3>1, <3>3, <3>4, <3>5
  <2> HIDE DEF r
  <2>4. FiniteBag(responses) /\ Gains(responses, r, responses')
    BY <2>1, OneMore DEF BInv
  <2>5. DOMAIN responses' = DOMAIN responses \cup {r}
    BY <2>4 DEF Gains
  <2>6. /\ lost => /\ Missing(responses') = Missing(responses) \cup {r}
                   /\ r \in DOMAIN responses => r \in Missing(responses)
        /\ ~lost => Missing(responses') = Missing(responses) /\ r \notin Missing(responses)
        /\ Missing(responses) \subseteq DOMAIN responses
    BY <2>5
  <2> HIDE DEF Missing, lost
  <2>7. lost => HowMany(responses', Missing(responses')) =
                  HowMany(responses, Missing(responses)) + 1
    BY <2>4, <2>6, HowManyMore
  <2>8. ~lost => HowMany(responses', Missing(responses')) =
                   HowMany(responses, Missing(responses))
    BY <2>4, <2>6, HowManySame
  <2>9. QED
    BY <1>1, <1>2, <2>2, <2>7, <2>8
<1>5. QED
  BY <1>3, <1>4

(* A worker stays among those that p did not answer until it returns, and  *)
(* a failure of p puts it there.                                           *)
LEMMA PassingSteps ==
  ASSUME GInv, TInv, PInv, NEW t \in Threads, Proceed(t), NEW p \in Providers
  PROVE  /\ pc'[t] = "idle" => Passing(p)' = Passing(p) \ {t}
         /\ pc'[t] # "idle" => Passing(p) \subseteq Passing(p)'
         /\ ProviderFails(t) /\ serving[t] = p => t \in Passing(p)' /\ t \notin Passing(p)
<1>0. /\ Path(t) /\ attempted \in [Threads -> SUBSET Providers]
      /\ pc \in [Threads -> Point] /\ chain \in [Threads -> SUBSET Providers]
      /\ serving \in [Threads -> Providers \cup {Nothing}]
      /\ Work(t)
  BY DEF PInv, TInv, GInv, CInv, IInv, Types, Proceed
<1>1. attempted'[t] = IF pc'[t] = "idle" THEN {}
                      ELSE IF At(t, "attempt")
                           THEN attempted[t] \cup (chain[t] \ chain'[t])
                           ELSE attempted[t]
  BY <1>0 DEF Proceed, Attempt
<1>2. \A u \in Threads \ {t} : u \in Passing(p)' <=> u \in Passing(p)
  <2> SUFFICES ASSUME NEW u \in Threads \ {t}
               PROVE  u \in Passing(p)' <=> u \in Passing(p)
    OBVIOUS
  <2>1. attempted'[u] = attempted[u]
    BY OthersPath DEF PInv
  <2>2. pc'[u] = pc[u] /\ serving'[u] = serving[u]
    BY <1>0, OthersStay
  <2>3. Answers(u, p)' <=> Answers(u, p)
    BY <2>1, <2>2 DEF Answers, Latest
  <2>4. QED
    BY <2>1, <2>2, <2>3 DEF Passing
<1>3. ASSUME pc'[t] = "idle" PROVE Passing(p)' = Passing(p) \ {t}
  <2>1. t \notin Passing(p)'
    BY <1>1, <1>3 DEF Passing
  <2>2. QED
    BY <1>2, <2>1 DEF Passing
<1>4. ASSUME pc'[t] # "idle", t \in Passing(p) PROVE t \in Passing(p)'
  <2>0. p \in attempted[t] /\ serving[t] # p /\ ~Answers(t, p) /\ p \in attempted'[t]
    BY <1>1, <1>4 DEF Passing
  <2>1. CASE Admit(t)
    <3>1. PICK q \in chain[t] : serving' = [serving EXCEPT ![t] = q]
      BY <2>1 DEF Admit
    <3>2. serving'[t] = q /\ pc[t] = "attempt" /\ pc'[t] = "calling"
      BY <1>0, <2>1, <3>1 DEF Admit, At, Go
    <3>3. p < q /\ p \in Nat /\ q \in Nat
      BY <1>0, <2>0, <3>1, <3>2, PositionsAreNatural DEF Path, Trying
    <3>4. serving'[t] # p
      BY <3>2, <3>3
    <3>5. QED
      BY <2>0, <3>2, <3>4 DEF Passing, Answers
  <2>2. CASE ProviderSucceeds(t)
    <3>1. pc[t] = "calling" /\ pc'[t] = "store" /\ serving'[t] = Nothing
      BY <1>0, <2>2 DEF ProviderSucceeds, Leave, At, Go
    <3>2. attempted'[t] = attempted[t]
      BY <1>1, <3>1 DEF At
    <3>3. Latest(serving[t], attempted[t]) /\ attempted[t] \subseteq Nat
      BY <1>0, <3>1, PositionsAreNatural DEF Path
    <3>4. ~Latest(p, attempted[t])
      BY <2>0, <3>3 DEF Latest
    <3>5. serving'[t] # p
      BY <3>1, PositionsAreNatural
    <3>6. ~Latest(p, attempted'[t])
      BY <3>2, <3>4
    <3>7. QED
      BY <2>0, <3>5, <3>6 DEF Passing, Answers, Latest
  <2>3. CASE ProviderFails(t)
    <3>1. pc'[t] = "attempt" /\ serving'[t] = Nothing
      BY <1>0, <2>3 DEF ProviderFails, Leave, At, Go
    <3>2. QED
      BY <2>0, <3>1, PositionsAreNatural DEF Passing, Answers
  <2>4. CASE Store(t)
    <3>1. pc[t] = "store" /\ pc'[t] = "charge" /\ serving'[t] = serving[t]
      BY <1>0, <2>4 DEF Store, At, Go, call
    <3>2. attempted'[t] = attempted[t]
      BY <1>1, <3>1 DEF At
    <3>3. ~Latest(p, attempted'[t])
      BY <2>0, <3>1, <3>2 DEF Answers
    <3>4. QED
      BY <2>0, <3>1, <3>3 DEF Passing, Answers, Latest
  <2>5. CASE Deny(t)
    <3>1. pc'[t] = "attempt" /\ serving'[t] = serving[t]
      BY <1>0, <2>5 DEF Deny, At, call
    <3>2. QED
      BY <2>0, <3>1 DEF Passing, Answers
  <2>6. CASE Lookup(t) \/ EnterBudgetLock(t) \/ Relookup(t) \/ Plan(t)
    <3>1. pc[t] \in {"lookup", "enter", "relookup", "plan"}
      BY <2>6 DEF Lookup, EnterBudgetLock, Relookup, Plan, At
    <3>2. QED
      BY <1>0, <2>0, <3>1 DEF Path, Trying
  <2>7. CASE Degrade(t) \/ Charge(t)
    BY <1>0, <1>4, <2>7 DEF Degrade, Charge, Respond, Go
  <2>8. QED
    BY <1>0, <2>1, <2>2, <2>3, <2>4, <2>5, <2>6, <2>7 DEF Work
<1>5. ASSUME pc'[t] # "idle" PROVE Passing(p) \subseteq Passing(p)'
  <2>1. \A u \in Passing(p) : u \in Threads
    BY DEF Passing
  <2>2. QED
    BY <1>2, <1>4, <1>5, <2>1
<1>6. ASSUME ProviderFails(t), serving[t] = p
      PROVE  t \in Passing(p)' /\ t \notin Passing(p)
  <2>1. pc[t] = "calling" /\ pc'[t] = "attempt" /\ serving'[t] = Nothing
    BY <1>0, <1>6 DEF ProviderFails, Leave, At, Go
  <2>2. attempted'[t] = attempted[t] /\ p \in attempted[t]
    BY <1>0, <1>1, <1>6, <2>1 DEF At, Path, Latest
  <2>3. QED
    BY <1>6, <2>1, <2>2, PositionsAreNatural DEF Passing, Answers
<1>7. QED
  BY <1>3, <1>5, <1>6

(* The unserved requests of a provider never get fewer, and a failure of   *)
(* the provider adds one.                                                  *)
LEMMA UnservedSteps ==
  ASSUME GInv, TInv, PInv, BInv, NEW t \in Threads, Proceed(t), NEW p \in Providers
  PROVE  /\ Unserved(p) \in Nat /\ Unserved(p)' \in Nat
         /\ Unserved(p)' >= Unserved(p)
         /\ ProviderFails(t) /\ serving[t] = p => Unserved(p)' >= Unserved(p) + 1
<1> DEFINE over == HowMany(responses, Unanswered(p))
           P == Passing(p)
           Q == Passing(p)'
<1>1. /\ over \in Nat /\ over' >= over
      /\ pc'[t] = "idle" /\ t \in P => over' = over + 1
  BY ResponseCounts
<1>2. P \in SUBSET Threads /\ Q \in SUBSET Threads
  BY DEF Passing
<1>3. over' \in Nat
  <2>1. BInv'
    BY ProceedBInv
  <2>2. Unanswered(p)' \subseteq DOMAIN responses'
    BY DEF Unanswered
  <2>3. QED
    BY <2>1, <2>2, HowManyNat DEF BInv
<1>4. Unserved(p) = over + Cardinality(P) /\ Unserved(p)' = over' + Cardinality(Q)
  BY DEF Unserved
<1>5. /\ pc'[t] = "idle" => Q = P \ {t}
      /\ pc'[t] # "idle" => P \subseteq Q
      /\ ProviderFails(t) /\ serving[t] = p => t \in Q /\ t \notin P
  BY PassingSteps
<1> HIDE DEF over, P, Q
<1>6. /\ IsFiniteSet(P) /\ IsFiniteSet(Q)
      /\ Cardinality(P) \in Nat /\ Cardinality(Q) \in Nat
  BY <1>2, CountFacts
<1>7. CASE pc'[t] = "idle"
  <2>1. /\ t \in P => Cardinality(Q) = Cardinality(P) - 1
        /\ t \notin P => Q = P
    BY <1>2, <1>5, <1>7, CountFacts
  <2>2. ~ProviderFails(t)
    BY <1>7 DEF GInv, IInv, Types, ProviderFails, Go
  <2>3. QED
    BY <1>1, <1>3, <1>4, <1>6, <1>7, <2>1, <2>2
<1>8. CASE pc'[t] # "idle"
  <2>1. Cardinality(P) <= Cardinality(Q)
    BY <1>5, <1>6, <1>8, FS_Subset
  <2>2. ProviderFails(t) /\ serving[t] = p => Cardinality(P) + 1 <= Cardinality(Q)
    <3> SUFFICES ASSUME ProviderFails(t), serving[t] = p
                 PROVE  Cardinality(P) + 1 <= Cardinality(Q)
      OBVIOUS
    <3>1. P \cup {t} \subseteq Q /\ t \notin P
      BY <1>5, <1>8
    <3>2. Cardinality(P \cup {t}) = Cardinality(P) + 1
      BY <1>6, <3>1, FS_AddElement
    <3>3. Cardinality(P \cup {t}) <= Cardinality(Q)
      BY <1>6, <3>1, FS_Subset
    <3>4. QED
      BY <3>2, <3>3
  <2>3. QED
    BY <1>1, <1>3, <1>4, <1>6, <2>1, <2>2
<1>9. QED
  BY <1>7, <1>8

(* The failures that a closed breaker has counted. *)
LEMMA ClosedCounts ==
  ASSUME NEW b, SoundBreaker(b), b.state = "closed"
  PROVE  /\ AfterFailure(b).state = "closed" =>
              AfterFailure(b).failure_count <= b.failure_count + 1
         /\ AfterFailure(b).state = "open" => b.failure_count + 1 >= FailureThreshold
         /\ AfterFailure(b).state \in {"closed", "open"}
         /\ AfterSuccess(b).state = "closed" /\ AfterSuccess(b).failure_count = 0
         /\ AfterAllow(b) = b
         /\ b.failure_count \in Nat
<1>1. b.failure_count \in 0..CountCap /\ CountCap \in Nat
  BY ThresholdsAssumption DEF SoundBreaker, Breaker
<1>2. /\ Bump(b.failure_count) \in Nat
      /\ Bump(b.failure_count) <= b.failure_count + 1
  BY <1>1 DEF Bump
<1>3. /\ AfterFailure(b).failure_count = Bump(b.failure_count)
      /\ AfterFailure(b).state = IF Opens(b, Bump(b.failure_count)) THEN "open" ELSE "closed"
  BY DEF AfterFailure
<1>4. Opens(b, Bump(b.failure_count)) => Bump(b.failure_count) >= FailureThreshold
  BY DEF Opens
<1>5. AfterSuccess(b).state = "closed" /\ AfterSuccess(b).failure_count = 0
  BY DEF AfterSuccess, Recovers
<1>6. QED
  BY <1>1, <1>2, <1>3, <1>4, <1>5, AllowSound, ThresholdsAssumption DEF Allows

(* No other step moves a closed breaker or counts a failure. *)
LEMMA ClosedOtherwise ==
  ASSUME GInv, NEW t \in Threads, Work(t), NEW p \in Providers,
         breakers[p].state = "closed", ~(ProviderFails(t) /\ serving[t] = p)
  PROVE  /\ breakers'[p].state = "closed"
         /\ breakers'[p].failure_count <= breakers[p].failure_count
<1>0. /\ breakers \in [Providers -> Breaker] /\ SoundBreaker(breakers[p])
      /\ chain[t] \in SUBSET Providers
  BY DEF GInv, CInv, IInv, Types
<1>1. /\ AfterSuccess(breakers[p]).state = "closed"
      /\ AfterSuccess(breakers[p]).failure_count = 0
      /\ AfterAllow(breakers[p]) = breakers[p]
      /\ breakers[p].failure_count \in Nat
  BY <1>0, ClosedCounts
<1>2. CASE breakers'[p] = breakers[p]
  BY <1>1, <1>2
<1>3. CASE breakers'[p] = AfterSuccess(breakers[p])
  BY <1>1, <1>3
<1>4. CASE OffTheBreakers(t)
  BY <1>2, <1>4, OffTheBreakersFacts DEF GInv
<1>5. CASE Admit(t)
  <2>1. PICK q \in chain[t] : breakers' = [breakers EXCEPT ![q] = AfterAllow(@)]
    BY <1>5 DEF Admit
  <2>2. breakers'[p] = breakers[p]
    BY <1>0, <1>1, <2>1
  <2>3. QED
    BY <1>2, <2>2
<1>6. CASE ProviderSucceeds(t) \/ ProviderFails(t)
  <2>1. \/ breakers' = [breakers EXCEPT ![serving[t]] = AfterSuccess(@)]
        \/ /\ breakers' = [breakers EXCEPT ![serving[t]] = AfterFailure(@)]
           /\ serving[t] # p
    BY <1>6 DEF ProviderSucceeds, ProviderFails
  <2>2. breakers'[p] \in {breakers[p], AfterSuccess(breakers[p])}
    BY <1>0, <2>1
  <2>3. QED
    BY <1>2, <1>3, <2>2
<1>7. QED
  BY <1>4, <1>5, <1>6 DEF Work, OffTheBreakers

(* A step of a worker leaves the openings explained.                       *)
LEMMA ProceedExplained ==
  ASSUME GInv, GInv', TInv, PInv, BInv, NEW t \in Threads, Proceed(t),
         NEW p \in Providers,
         Explained(breakers[p], Entered("open", log[p]), Unserved(p))
  PROVE  Explained(breakers'[p], Entered("open", log'[p]), Unserved(p)')
<1> DEFINE b == breakers[p]
           c == breakers'[p]
           opens == Entered("open", log[p])
           e == [to |-> c.state, ts |-> now]
<1>0. SoundBreaker(b) /\ Work(t) /\ FailureThreshold \in Nat \ {0}
  BY ThresholdsAssumption DEF GInv, CInv, Proceed
<1>1. /\ Unserved(p) \in Nat /\ Unserved(p)' \in Nat
      /\ Unserved(p)' >= Unserved(p)
      /\ ProviderFails(t) /\ serving[t] = p => Unserved(p)' >= Unserved(p) + 1
  BY UnservedSteps
<1>2. /\ Entered("open", log'[p]) \in Nat /\ opens \in Nat
      /\ Entered("open", log'[p]) =
           opens + (IF c.state # b.state /\ c.state = "open" THEN 1 ELSE 0)
  <2>1. log[p] \in Seq(LogEntry) /\ e \in LogEntry
    BY DEF TInv, GInv, CInv, Breaker, LogEntry
  <2>2. log'[p] = IF c.state = b.state THEN log[p] ELSE Append(log[p], e)
    BY DEF Proceed, LogTransitions
  <2>3. e.to = c.state
    OBVIOUS
  <2>4. /\ opens \in Nat
        /\ Entered("open", Append(log[p], e)) = opens + (IF e.to = "open" THEN 1 ELSE 0)
    <3> HIDE DEF e
    <3>1. QED
      BY <2>1, EnteredAppend
  <2> HIDE DEF e, b, c, opens
  <2>5. QED
    BY <2>2, <2>3, <2>4 DEF opens
<1>3. /\ opens = 0 => b.state = "closed" /\ b.failure_count <= Unserved(p)
      /\ opens > 0 => Unserved(p) >= opens + FailureThreshold - 1
  BY DEF Explained
<1>4. b.failure_count \in Nat /\ c.failure_count \in Nat
  BY ThresholdsAssumption DEF GInv, CInv, SoundBreaker, Breaker
<1>5. CASE ProviderFails(t) /\ serving[t] = p
  <2>1. c = AfterFailure(b)
    BY <1>5 DEF ProviderFails, GInv, CInv
  <2>2. b.state = "closed" =>
          /\ c.state = "closed" => c.failure_count <= b.failure_count + 1
          /\ c.state = "open" => b.failure_count + 1 >= FailureThreshold
          /\ c.state \in {"closed", "open"}
    BY <1>0, <2>1, ClosedCounts
  <2>3. Unserved(p)' >= Unserved(p) + 1
    BY <1>1, <1>5
  <2> HIDE DEF b, c, opens
  <2>4. ASSUME opens = 0, c.state = "closed"
        PROVE  Explained(c, Entered("open", log'[p]), Unserved(p)')
    <3>1. Entered("open", log'[p]) = 0
      BY <1>2, <2>4
    <3>2. c.failure_count <= Unserved(p)'
      BY <1>1, <1>3, <1>4, <2>2, <2>3, <2>4
    <3>3. QED
      BY <1>1, <2>4, <3>1, <3>2 DEF Explained
  <2>5. ASSUME opens = 0, c.state = "open"
        PROVE  Explained(c, Entered("open", log'[p]), Unserved(p)')
    <3>1. Entered("open", log'[p]) = 1
      BY <1>2, <1>3, <2>5
    <3>2. Unserved(p)' >= FailureThreshold
      BY <1>0, <1>1, <1>3, <1>4, <2>2, <2>3, <2>5
    <3>3. QED
      BY <1>0, <1>1, <3>1, <3>2 DEF Explained
  <2>6. ASSUME opens > 0
        PROVE  Explained(c, Entered("open", log'[p]), Unserved(p)')
    BY <1>0, <1>1, <1>2, <1>3, <2>3, <2>6 DEF Explained
  <2>7. QED
    BY <1>2, <1>3, <2>2, <2>4, <2>5, <2>6 DEF b, c, opens
<1>6. CASE ~(ProviderFails(t) /\ serving[t] = p)
  <2>1. ~(c.state # b.state /\ c.state = "open")
    BY <1>6, OpenedByFailure
  <2>2. b.state = "closed" => c.state = "closed" /\ c.failure_count <= b.failure_count
    BY <1>0, <1>6, ClosedOtherwise
  <2> HIDE DEF b, c, opens
  <2>3. Explained(c, Entered("open", log'[p]), Unserved(p)')
    BY <1>0, <1>1, <1>2, <1>3, <1>4, <2>1, <2>2 DEF Explained
  <2>4. QED
    BY <2>3 DEF c
<1>7. QED
  BY <1>5, <1>6

LEMMA NextOInv ==
  GInv /\ GInv' /\ TInv /\ PInv /\ BInv /\ OInv /\ [RunNext]_<<gateway, run>> => OInv'
<1> SUFFICES ASSUME GInv, GInv', TInv, PInv, BInv, OInv, [RunNext]_<<gateway, run>>,
                    NEW p \in Providers
             PROVE  Explained(breakers'[p], Entered("open", log'[p]), Unserved(p)')
  BY DEF OInv
<1>0. Explained(breakers[p], Entered("open", log[p]), Unserved(p))
  BY DEF OInv
<1>1. ASSUME NEW t \in Threads, Proceed(t)
      PROVE  Explained(breakers'[p], Entered("open", log'[p]), Unserved(p)')
  BY <1>0, <1>1, ProceedExplained
<1>2. ASSUME log' = log, Unserved(p)' = Unserved(p),
             breakers'[p].state = breakers[p].state,
             breakers'[p].failure_count = breakers[p].failure_count
      PROVE  Explained(breakers'[p], Entered("open", log'[p]), Unserved(p)')
  BY <1>0, <1>2 DEF Explained
<1>3. ASSUME NEW t \in Threads, TakeRequest(t)
      PROVE  Explained(breakers'[p], Entered("open", log'[p]), Unserved(p)')
  <2>1. /\ log' = log /\ breakers' = breakers
        /\ UNCHANGED <<responses, attempted, serving>>
        /\ pc[t] = "idle" /\ pc'[t] = "lookup"
        /\ \A u \in Threads \ {t} : pc'[u] = pc[u]
    BY <1>3, OthersStay
       DEF TakeRequest, Take, shared, call, run, At, Go, GInv, IInv, Types
  <2>2. \A u \in Threads : Answers(u, p)' <=> Answers(u, p)
    BY <2>1 DEF Answers, Latest
  <2>3. Passing(p)' = Passing(p)
    BY <2>1, <2>2 DEF Passing
  <2>4. Unserved(p)' = Unserved(p)
    BY <2>1, <2>3 DEF Unserved, Unanswered
  <2>5. QED
    BY <1>2, <2>1, <2>4
<1>4. ASSUME Standing, log' = log,
             breakers'[p].state = breakers[p].state,
             breakers'[p].failure_count = breakers[p].failure_count
      PROVE  Explained(breakers'[p], Entered("open", log'[p]), Unserved(p)')
  <2>1. Passing(p)' = Passing(p)
    BY <1>4 DEF Standing, Passing, Answers, Latest
  <2>2. Unserved(p)' = Unserved(p)
    BY <1>4, <2>1 DEF Standing, Unserved, Unanswered
  <2>3. QED
    BY <1>2, <1>4, <2>2
<1>5. CASE TimePasses
  <2>1. breakers'[p] = Aged(breakers[p]) /\ log' = log
    BY <1>5 DEF TimePasses, AgeBreakers
  <2>2. /\ breakers'[p].state = breakers[p].state
        /\ breakers'[p].failure_count = breakers[p].failure_count
    BY <2>1 DEF GInv, CInv, Breaker, Aged
  <2>3. Standing
    BY <1>5 DEF TimePasses, AgeBreakers, call, Standing
  <2>4. QED
    BY <1>4, <2>1, <2>2, <2>3
<1>6. CASE Recover
  <2>1. breakers'[p] = Rested(breakers[p]) /\ log' = log
    BY <1>6, RecoverFacts
  <2>2. /\ breakers'[p].state = breakers[p].state
        /\ breakers'[p].failure_count = breakers[p].failure_count
    BY <2>1 DEF GInv, CInv, Breaker, Rested
  <2>3. Standing
    BY <1>6 DEF Recover, Repair, call, Standing
  <2>4. QED
    BY <1>4, <2>1, <2>2, <2>3
<1>7. ASSUME Standing, log' = log, breakers' = breakers
      PROVE  Explained(breakers'[p], Entered("open", log'[p]), Unserved(p)')
  BY <1>4, <1>7
<1>8. ASSUME NEW q \in Prompts, ExpireAnswer(q)
      PROVE  Standing /\ log' = log /\ breakers' = breakers
  BY <1>8 DEF ExpireAnswer, Expire, run, call, Standing
<1>9. Collect => Standing /\ log' = log /\ breakers' = breakers
  BY DEF Collect, gateway, vars, Standing
<1>10. UNCHANGED <<gateway, run>> => Standing /\ log' = log /\ breakers' = breakers
  BY DEF gateway, vars, run, Standing
<1>11. QED
  BY <1>1, <1>3, <1>5, <1>6, <1>7, <1>8, <1>9, <1>10 DEF RunNext

LEMMA InitOInv == RunInit => OInv
<1> SUFFICES ASSUME RunInit, NEW p \in Providers
             PROVE  Explained(breakers[p], Entered("open", log[p]), Unserved(p))
  BY DEF OInv
<1>1. /\ breakers[p] = NewBreaker /\ log[p] = <<>> /\ responses = EmptyBag
      /\ Passing(p) = {}
  BY DEF RunInit, Init, Passing
<1>2. Entered("open", log[p]) = 0
  <2>1. <<>> \in Seq(LogEntry) /\ [to |-> "open", ts |-> 0] \in LogEntry
    BY DEF LogEntry, CircuitState
  <2>2. QED
    BY <1>1, <2>1, EnteredAppend
<1>3. Unserved(p) = 0
  <2>1. Unanswered(p) = {}
    BY <1>1 DEF Unanswered, EmptyBag, SetToBag
  <2>2. HowMany(responses, {}) = 0 /\ Cardinality({}) = 0
    BY FS_EmptySet, SumUnfold DEF HowMany
  <2>3. QED
    BY <1>1, <2>1, <2>2 DEF Unserved
<1>4. QED
  BY <1>1, <1>2, <1>3 DEF Explained, NewBreaker

(* At every moment of a run the requests that a provider did not serve,    *)
(* over or under way, explain the failures its breaker has counted and the *)
(* times it has opened.                                                    *)
THEOREM OpeningInvariance == RunSpec => []OInv
BY NextOInv, InitOInv, GatewayInvariance, BookkeepingInvariance, PathInvariance,
   ResponseInvariance, PTL DEF RunSpec

(* circuit_open_count is never more than the responses account for: there  *)
(* are enough requests that tried the provider, called or denied, and were *)
(* not answered by it.                                                     *)
THEOREM OpeningsAreExplained == RunSpec => []OpensAreExplained
<1>1. BInv /\ PInv /\ EInv /\ OInv => OpensAreExplained
  <2> SUFFICES ASSUME BInv, PInv, EInv, OInv, phase = "done", NEW p \in Providers,
                      Entered("open", log[p]) > 0
               PROVE  HowMany(responses, Unanswered(p)) >=
                        Entered("open", log[p]) + FailureThreshold - 1
    BY DEF OpensAreExplained
  <2>1. \A t \in Threads : attempted[t] = {}
    BY DEF EInv, AllIdle, At, PInv, Path, Trying
  <2>2. Passing(p) = {}
    BY <2>1 DEF Passing
  <2>3. Unserved(p) = HowMany(responses, Unanswered(p))
    <3>1. HowMany(responses, Unanswered(p)) \in Nat
      BY HowManyNat DEF BInv, Unanswered
    <3>2. QED
      BY <2>2, <3>1, FS_EmptySet DEF Unserved
  <2>4. Explained(breakers[p], Entered("open", log[p]), Unserved(p))
    BY DEF OInv
  <2>5. QED
    BY <2>3, <2>4 DEF Explained
<1>2. QED
  BY <1>1, ResponseInvariance, PathInvariance, EndInvariance, OpeningInvariance, PTL
-----------------------------------------------------------------------------
(* Percentiles.  Of a list of naturals: how many are below a value, or not *)
(* above it.                                                               *)
Below(l, v) == {j \in DOMAIN l : l[j] < v}
UpTo(l, v)  == {j \in DOMAIN l : l[j] <= v}

LEMMA RankTypes ==
  ASSUME NEW l \in Seq(Nat), NEW v, NEW w
  PROVE  /\ DOMAIN l = 1..Len(l) /\ Len(l) \in Nat
         /\ Cardinality(Below(l, v)) \in Nat /\ Cardinality(UpTo(l, v)) \in Nat
         /\ Cardinality(UpTo(l, v)) = Len(l) => UpTo(l, v) = DOMAIN l
         /\ Below(l, v) = {} <=> Cardinality(Below(l, v)) = 0
         /\ UpTo(l, w) \subseteq Below(l, v) =>
              Cardinality(UpTo(l, w)) <= Cardinality(Below(l, v))
         /\ UpTo(l, v) = DOMAIN l => Cardinality(UpTo(l, v)) = Len(l)
<1>1. DOMAIN l = 1..Len(l) /\ Len(l) \in Nat
  OBVIOUS
<1>2. IsFiniteSet(1..Len(l)) /\ Cardinality(1..Len(l)) = Len(l)
  BY <1>1, FS_Interval
<1>3. \A S \in SUBSET DOMAIN l :
        /\ IsFiniteSet(S) /\ Cardinality(S) \in Nat
        /\ Cardinality(S) = Len(l) => S = DOMAIN l
        /\ S = {} <=> Cardinality(S) = 0
  BY <1>1, <1>2, FS_Subset, FS_CardinalityType, FS_EmptySet
<1>4. Below(l, v) \in SUBSET DOMAIN l /\ UpTo(l, v) \in SUBSET DOMAIN l
  BY DEF Below, UpTo
<1>5. UpTo(l, w) \subseteq Below(l, v) =>
        Cardinality(UpTo(l, w)) <= Cardinality(Below(l, v))
  BY <1>3, <1>4, FS_Subset
<1>6. QED
  BY <1>1, <1>2, <1>3, <1>4, <1>5

(* A finite list of naturals has a bound. *)
LEMMA ListsAreBounded ==
  ASSUME NEW l \in Seq(Nat)
  PROVE  \E v \in Nat : \A j \in 1..Len(l) : l[j] <= v
<1> DEFINE Bounded(m) == \E v \in Nat : \A j \in 1..m : l[j] <= v
<1>0. Len(l) \in Nat /\ \A j \in 1..Len(l) : l[j] \in Nat
  OBVIOUS
<1>1. ASSUME NEW m \in 0..Len(l), ~Bounded(m) PROVE FALSE
  <2> DEFINE Bad == {n \in 0..Len(l) : ~Bounded(n)}
  <2>1. PICK n \in Bad : \A k \in Bad : n <= k
    <3>1. Bad \subseteq Nat /\ Bad # {}
      <4> HIDE DEF Bounded
      <4>1. m \in Bad
        BY <1>1
      <4>2. QED
        BY <1>0, <4>1
    <3> HIDE DEF Bad
    <3>2. QED
      BY <3>1, Least
  <2>2. n \in 0..Len(l) /\ ~Bounded(n) /\ \A k \in 0..Len(l) : ~Bounded(k) => n <= k
    BY <2>1
  <2> HIDE DEF Bad
  <2>3. n # 0
    <3>1. \A j \in 1..0 : l[j] <= 0
      OBVIOUS
    <3>2. Bounded(0)
      BY <3>1
    <3> HIDE DEF Bounded
    <3>3. QED
      BY <2>2, <3>2
  <2>4. n \in 1..Len(l) /\ n - 1 \in 0..Len(l) /\ Bounded(n - 1)
    <3> HIDE DEF Bounded
    <3>1. n \in 1..Len(l) /\ n - 1 \in 0..Len(l) /\ ~(n <= n - 1)
      BY <1>0, <2>2, <2>3
    <3>2. QED
      BY <2>2, <3>1
  <2>5. PICK v \in Nat : \A j \in 1..(n - 1) : l[j] <= v
    BY <2>4
  <2>6. l[n] \in Nat /\ v + l[n] \in Nat /\ v <= v + l[n] /\ l[n] <= v + l[n]
    BY <1>0, <2>4, <2>5
  <2>7. ASSUME NEW j \in 1..n PROVE l[j] <= v + l[n]
    <3>1. l[j] \in Nat /\ v \in Nat
      BY <1>0, <2>4, <2>5
    <3>2. CASE j = n
      BY <2>6, <3>2
    <3>3. CASE j # n
      <4>1. j \in 1..(n - 1)
        BY <2>4, <3>3
      <4>2. l[j] <= v
        BY <2>5, <4>1
      <4>3. QED
        BY <2>6, <3>1, <4>2
    <3>4. QED
      BY <3>2, <3>3
  <2>8. Bounded(n)
    BY <2>6, <2>7
  <2> HIDE DEF Bounded
  <2>9. QED
    BY <2>2, <2>8
<1>2. Bounded(Len(l))
  <2>1. Len(l) \in 0..Len(l)
    BY <1>0
  <2> HIDE DEF Bounded
  <2>2. QED
    BY <1>1, <2>1
<1>3. QED
  BY <1>2

(* Every position of the sorted list has a value. *)
LEMMA RanksExist ==
  ASSUME NEW l \in Seq(Nat), NEW i \in 1..Len(l)
  PROVE  \E v \in {l[j] : j \in DOMAIN l} :
           Cardinality(Below(l, v)) < i /\ Cardinality(UpTo(l, v)) >= i
<1> DEFINE K == {v \in Nat : Cardinality(UpTo(l, v)) >= i}
<1>0. DOMAIN l = 1..Len(l) /\ Len(l) \in Nat /\ \A j \in DOMAIN l : l[j] \in Nat
  OBVIOUS
<1>1. PICK v \in K : \A w \in K : v <= w
  <2>1. PICK w \in Nat : \A j \in 1..Len(l) : l[j] <= w
    BY ListsAreBounded
  <2>2. UpTo(l, w) = DOMAIN l
    BY <1>0, <2>1 DEF UpTo
  <2>3. Cardinality(UpTo(l, w)) >= i
    <3>1. Cardinality(UpTo(l, w)) = Len(l)
      BY <2>2, RankTypes
    <3>2. QED
      BY <1>0, <3>1
  <2>4. K # {} /\ K \subseteq Nat
    BY <2>3
  <2> HIDE DEF K
  <2>5. QED
    BY <2>4, Least
<1>2. Cardinality(Below(l, v)) < i
  <2>1. CASE v = 0
    <3>1. Below(l, v) = {}
      BY <1>0, <2>1 DEF Below
    <3>2. Cardinality(Below(l, v)) = 0
      BY <3>1, FS_EmptySet
    <3>3. QED
      BY <1>0, <3>2
  <2>2. CASE v # 0
    <3>1. v - 1 \in Nat /\ v - 1 \notin K
      BY <1>1, <2>2
    <3>2. Below(l, v) = UpTo(l, v - 1)
      BY <1>0, <2>2 DEF Below, UpTo
    <3>3. Cardinality(UpTo(l, v - 1)) \in Nat /\ ~(Cardinality(UpTo(l, v - 1)) >= i)
      BY <3>1, RankTypes
    <3>4. QED
      BY <1>0, <3>2, <3>3
  <2>3. QED
    BY <2>1, <2>2
<1>3. v \in {l[j] : j \in DOMAIN l}
  <2> SUFFICES ASSUME v \notin {l[j] : j \in DOMAIN l} PROVE FALSE
    OBVIOUS
  <2>1. UpTo(l, v) = Below(l, v)
    BY <1>0 DEF Below, UpTo
  <2>2. Cardinality(Below(l, v)) \in Nat /\ Cardinality(Below(l, v)) >= i
    BY <1>1, <2>1, RankTypes
  <2>3. QED
    BY <1>0, <1>2, <2>2
<1>4. QED
  BY <1>1, <1>2, <1>3

(* The sorted list: its length, its order and its ends. *)
Ascending(s) == \A i, j \in 1..Len(s) : i <= j => s[i] <= s[j]

LEMMA SortedFacts ==
  ASSUME NEW l \in Seq(Nat), NEW s, s = Sorted(l)
  PROVE  /\ s \in Seq(Nat) /\ Len(s) = Len(l) /\ Ascending(s)
         /\ \A i \in 1..Len(l) : \E j \in DOMAIN l : s[i] = l[j]
         /\ \A j \in DOMAIN l : s[1] <= l[j] /\ l[j] <= s[Len(l)]
<1>0. DOMAIN l = 1..Len(l) /\ Len(l) \in Nat /\ \A j \in DOMAIN l : l[j] \in Nat
  OBVIOUS
<1>1. s = [i \in 1..Len(l) |->
             CHOOSE v \in {l[j] : j \in DOMAIN l} :
               Cardinality(Below(l, v)) < i /\ Cardinality(UpTo(l, v)) >= i]
  BY <1>0 DEF Sorted, Below, UpTo
<1>2. ASSUME NEW i \in 1..Len(l)
      PROVE  /\ \E j \in DOMAIN l : s[i] = l[j]
             /\ s[i] \in Nat
             /\ Cardinality(Below(l, s[i])) < i
             /\ Cardinality(UpTo(l, s[i])) >= i
  <2>1. s[i] = CHOOSE v \in {l[j] : j \in DOMAIN l} :
                 Cardinality(Below(l, v)) < i /\ Cardinality(UpTo(l, v)) >= i
    BY <1>1
  <2>2. /\ s[i] \in {l[j] : j \in DOMAIN l}
        /\ Cardinality(Below(l, s[i])) < i /\ Cardinality(UpTo(l, s[i])) >= i
    BY <2>1, RanksExist
  <2>3. QED
    BY <1>0, <2>2
<1>3. s \in [1..Len(l) -> Nat]
  BY <1>1, <1>2
<1>4. s \in Seq(Nat) /\ Len(s) = Len(l)
  BY <1>0, <1>3
<1>5. Ascending(s)
  <2> SUFFICES ASSUME NEW i \in 1..Len(l), NEW j \in 1..Len(l), i <= j,
                      ~(s[i] <= s[j])
               PROVE  FALSE
    BY <1>4 DEF Ascending
  <2>1. s[i] \in Nat /\ s[j] \in Nat /\ s[j] < s[i]
    BY <1>2
  <2>2. UpTo(l, s[j]) \subseteq Below(l, s[i])
    BY <1>0, <2>1 DEF UpTo, Below
  <2>3. Cardinality(UpTo(l, s[j])) <= Cardinality(Below(l, s[i]))
    BY <2>2, RankTypes
  <2>4. Cardinality(Below(l, s[i])) < i /\ Cardinality(UpTo(l, s[j])) >= j
    BY <1>2
  <2>5. /\ Cardinality(Below(l, s[i])) \in Nat
        /\ Cardinality(UpTo(l, s[j])) \in Nat
    BY RankTypes
  <2>6. QED
    BY <2>3, <2>4, <2>5
<1>6. ASSUME NEW j \in DOMAIN l PROVE s[1] <= l[j] /\ l[j] <= s[Len(l)]
  <2>1. 1 \in 1..Len(l) /\ Len(l) \in 1..Len(l)
    BY <1>0, <1>6
  <2>2. s[1] \in Nat /\ s[Len(l)] \in Nat /\ l[j] \in Nat
    BY <1>0, <1>2, <2>1
  <2>3. Below(l, s[1]) = {}
    <3>1. Cardinality(Below(l, s[1])) \in Nat /\ Cardinality(Below(l, s[1])) < 1
      BY <1>2, <2>1, RankTypes
    <3>2. Cardinality(Below(l, s[1])) = 0
      BY <3>1
    <3>3. QED
      BY <3>2, RankTypes
  <2>4. UpTo(l, s[Len(l)]) = DOMAIN l
    <3>1. Cardinality(UpTo(l, s[Len(l)])) >= Len(l)
      BY <1>2, <2>1
    <3>2. Cardinality(UpTo(l, s[Len(l)])) <= Len(l)
      <4>1. UpTo(l, s[Len(l)]) \subseteq 1..Len(l)
        BY <1>0 DEF UpTo
      <4>2. IsFiniteSet(1..Len(l)) /\ Cardinality(1..Len(l)) = Len(l)
        <5>1. /\ IsFiniteSet(1..Len(l))
              /\ Cardinality(1..Len(l)) = IF 1 > Len(l) THEN 0 ELSE Len(l) - 1 + 1
          BY <1>0, FS_Interval
        <5>2. QED
          BY <1>0, <2>1, <5>1
      <4>3. Cardinality(UpTo(l, s[Len(l)])) <= Cardinality(1..Len(l))
        BY <4>1, <4>2, FS_Subset
      <4>4. QED
        BY <4>2, <4>3
    <3>3. Cardinality(UpTo(l, s[Len(l)])) \in Nat
      BY RankTypes
    <3>5. Cardinality(UpTo(l, s[Len(l)])) = Len(l)
      BY <1>0, <3>1, <3>2, <3>3
    <3>4. QED
      BY <3>5, RankTypes
  <2>5. QED
    BY <2>2, <2>3, <2>4 DEF Below, UpTo
<1>7. QED
  BY <1>2, <1>4, <1>5, <1>6

(* Between two values, so many hundredths of the way. *)
Blend(a, b, m) == a * (100 - m) + b * m

LEMMA Blends ==
  ASSUME NEW a \in Nat, NEW b \in Nat, a <= b, NEW m \in 0..100, NEW n \in m..100
  PROVE  /\ Blend(a, b, m) \in Nat
         /\ 100 * a <= Blend(a, b, m) /\ Blend(a, b, m) <= 100 * b
         /\ Blend(a, b, m) <= Blend(a, b, n)
<1> DEFINE d == b - a
<1>1. d \in Nat /\ b = a + d
  OBVIOUS
<1>2. \A k \in 0..100 : Blend(a, b, k) = 100 * a + k * d
  <2> SUFFICES ASSUME NEW k \in 0..100 PROVE Blend(a, b, k) = 100 * a + k * d
    OBVIOUS
  <2>1. Blend(a, b, k) = a * (100 - k) + (a + d) * k
    BY <1>1 DEF Blend
  <2> HIDE DEF d
  <2>2. a * (100 - k) = 100 * a - a * k /\ (a + d) * k = a * k + k * d
    BY <1>1
  <2>3. a * k \in Int /\ k * d \in Int
    BY <1>1
  <2>4. QED
    BY <2>1, <2>2, <2>3
<1> HIDE DEF d
<1>3. /\ m * d \in Nat /\ n * d \in Nat /\ m * d <= n * d
      /\ n * d <= 100 * d
  <2>1. m \in Nat /\ n \in Nat /\ m <= n /\ n <= 100
    OBVIOUS
  <2>2. QED
    BY <1>1, <2>1, Prices
<1>4. Blend(a, b, m) = 100 * a + m * d /\ Blend(a, b, n) = 100 * a + n * d
  BY <1>2
<1>5. 100 * b = 100 * a + 100 * d
  BY <1>1
<1>6. QED
  BY <1>1, <1>3, <1>4, <1>5

(* The value at a position, in hundredths, between those of a list. *)
Lower(k) == k \div 100 + 1
Upper(s, k) == IF Lower(k) < Len(s) THEN Lower(k) + 1 ELSE Len(s)
Between(s, k) == Blend(s[Lower(k)], s[Upper(s, k)], k % 100)

LEMMA Hundredths ==
  ASSUME NEW k \in Nat, NEW j \in Nat, k <= j
  PROVE  /\ k \div 100 \in Nat /\ k % 100 \in 0..99
         /\ k = 100 * (k \div 100) + (k % 100)
         /\ k \div 100 <= j \div 100
         /\ k \div 100 = j \div 100 => k % 100 <= j % 100
<1>1. k \div 100 \in Nat /\ k % 100 \in 0..99 /\ k = 100 * (k \div 100) + (k % 100)
  OBVIOUS
<1>2. j \div 100 \in Nat /\ j % 100 \in 0..99 /\ j = 100 * (j \div 100) + (j % 100)
  OBVIOUS
<1> DEFINE a == k \div 100
           b == j \div 100
           c == k % 100
           d == j % 100
<1>3. a \in Nat /\ b \in Nat /\ c \in 0..99 /\ d \in 0..99
  BY <1>1, <1>2
<1>4. 100 * a + c <= 100 * b + d
  BY <1>1, <1>2
<1>5. /\ k \div 100 = a /\ j \div 100 = b /\ k % 100 = c /\ j % 100 = d
  OBVIOUS
<1> HIDE DEF a, b, c, d
<1>6. a <= b /\ (a = b => c <= d)
  BY <1>3, <1>4
<1>7. QED
  BY <1>1, <1>5, <1>6

LEMMA PositionFacts ==
  ASSUME NEW s \in Seq(Nat), Len(s) > 0, Ascending(s),
         NEW k \in Nat, k <= 100 * (Len(s) - 1)
  PROVE  /\ Lower(k) \in 1..Len(s) /\ Upper(s, k) \in 1..Len(s)
         /\ s[Lower(k)] \in Nat /\ s[Upper(s, k)] \in Nat
         /\ s[Lower(k)] <= s[Upper(s, k)]
         /\ k % 100 \in 0..99
         /\ Between(s, k) \in Nat
         /\ 100 * s[Lower(k)] <= Between(s, k)
         /\ Between(s, k) <= 100 * s[Upper(s, k)]
<1>0. Len(s) \in Nat /\ \A i \in 1..Len(s) : s[i] \in Nat
  OBVIOUS
<1>1. k \div 100 \in Nat /\ k % 100 \in 0..99 /\ k = 100 * (k \div 100) + (k % 100)
  BY Hundredths
<1>2. Lower(k) \in 1..Len(s)
  BY <1>0, <1>1 DEF Lower
<1>3. Upper(s, k) \in 1..Len(s) /\ Lower(k) <= Upper(s, k)
  BY <1>0, <1>2 DEF Upper
<1>4. s[Lower(k)] <= s[Upper(s, k)]
  BY <1>2, <1>3 DEF Ascending
<1>5. s[Lower(k)] \in Nat /\ s[Upper(s, k)] \in Nat
  BY <1>0, <1>2, <1>3
<1>6. k % 100 \in 0..100 /\ 100 \in (k % 100)..100
  BY <1>1
<1>7. QED
  BY <1>1, <1>2, <1>3, <1>4, <1>5, <1>6, Blends DEF Between

LEMMA Hundreds ==
  ASSUME NEW x \in Nat, NEW y \in Nat, NEW v \in Nat, NEW w \in Nat,
         x <= 100 * v, v <= w, 100 * w <= y
  PROVE  x <= y
OBVIOUS

(* Later positions have no smaller values. *)
LEMMA BetweenGrows ==
  ASSUME NEW s \in Seq(Nat), Len(s) > 0, Ascending(s),
         NEW k \in Nat, NEW j \in Nat, k <= j, j <= 100 * (Len(s) - 1)
  PROVE  Between(s, k) <= Between(s, j)
<1>0. Len(s) \in Nat /\ k <= 100 * (Len(s) - 1)
  OBVIOUS
<1>1. /\ k \div 100 \in Nat /\ j \div 100 \in Nat
      /\ k \div 100 <= j \div 100
      /\ k \div 100 = j \div 100 => k % 100 <= j % 100
      /\ j % 100 \in 0..99
  BY Hundredths
<1>2. /\ Lower(k) \in 1..Len(s) /\ Upper(s, k) \in 1..Len(s)
      /\ s[Lower(k)] \in Nat /\ s[Upper(s, k)] \in Nat
      /\ s[Lower(k)] <= s[Upper(s, k)] /\ k % 100 \in 0..99
      /\ Between(s, k) \in Nat /\ Between(s, k) <= 100 * s[Upper(s, k)]
  BY <1>0, PositionFacts
<1>3. /\ Lower(j) \in 1..Len(s) /\ s[Lower(j)] \in Nat
      /\ Between(s, j) \in Nat /\ 100 * s[Lower(j)] <= Between(s, j)
  BY PositionFacts
<1>4. CASE k \div 100 = j \div 100
  <2>1. Lower(k) = Lower(j) /\ Upper(s, k) = Upper(s, j)
    BY <1>4 DEF Lower, Upper
  <2>2. k % 100 \in 0..100 /\ j % 100 \in (k % 100)..100
    BY <1>1, <1>2, <1>4
  <2>3. QED
    BY <1>2, <2>1, <2>2, Blends DEF Between
<1>5. CASE k \div 100 < j \div 100
  <2>1. Upper(s, k) <= Lower(j)
    BY <1>0, <1>1, <1>3, <1>5 DEF Upper, Lower
  <2>2. s[Upper(s, k)] <= s[Lower(j)]
    BY <1>2, <1>3, <2>1 DEF Ascending
  <2>3. QED
    BY <1>2, <1>3, <2>2, Hundreds
<1>6. QED
  BY <1>1, <1>4, <1>5

(* The median is the value half way. *)
LEMMA MedianIsBetween ==
  ASSUME NEW s \in Seq(Nat), Len(s) > 0
  PROVE  Median(s) = Between(s, 50 * (Len(s) - 1))
<1> DEFINE half == Len(s) \div 2
           k == 50 * (Len(s) - 1)
<1>0. Len(s) \in Nat /\ \A i \in 1..Len(s) : s[i] \in Nat
  OBVIOUS
<1>1. CASE Len(s) % 2 = 1
  <2>1. Len(s) = 2 * half + 1 /\ half \in Nat
    BY <1>0, <1>1
  <2>2. Median(s) = 100 * s[half + 1]
    BY <1>1 DEF Median
  <2>3. k = 100 * half
    BY <2>1
  <2> HIDE DEF half, k
  <2>4. k \div 100 = half /\ k % 100 = 0
    BY <2>1, <2>3
  <2>5. Lower(k) = half + 1 /\ Upper(s, k) \in 1..Len(s)
    BY <2>1, <2>4 DEF Lower, Upper
  <2>6. Between(s, k) = s[half + 1] * (100 - 0) + s[Upper(s, k)] * 0
    BY <2>4, <2>5 DEF Between, Blend
  <2>7. s[half + 1] \in Nat /\ s[Upper(s, k)] \in Nat
    BY <1>0, <2>1, <2>5
  <2>8. Between(s, k) = Median(s)
    BY <2>2, <2>6, <2>7
  <2>9. QED
    BY <2>8 DEF k
<1>2. CASE Len(s) % 2 # 1
  <2>1. Len(s) = 2 * half /\ half \in Nat \ {0}
    BY <1>0, <1>2
  <2>2. Median(s) = 50 * (s[half] + s[half + 1])
    BY <1>2 DEF Median
  <2>3. k = 100 * (half - 1) + 50
    BY <2>1
  <2> HIDE DEF half, k
  <2>4. k \div 100 = half - 1 /\ k % 100 = 50
    BY <2>1, <2>3
  <2>5. Lower(k) = half /\ Upper(s, k) = half + 1
    BY <2>1, <2>4 DEF Lower, Upper
  <2>6. Between(s, k) = s[half] * (100 - 50) + s[half + 1] * 50
    BY <2>4, <2>5 DEF Between, Blend
  <2>7. s[half] \in Nat /\ s[half + 1] \in Nat
    BY <1>0, <2>1
  <2>8. Between(s, k) = Median(s)
    <3>1. \A v, w \in Nat : 50 * (v + w) = v * (100 - 50) + w * 50
      OBVIOUS
    <3>2. 50 * (s[half] + s[half + 1]) = s[half] * (100 - 50) + s[half + 1] * 50
      BY <2>7, <3>1
    <3>3. QED
      BY <2>2, <2>6, <3>2
  <2>9. QED
    BY <2>8 DEF k
<1>3. QED
  BY <1>1, <1>2

LEMMA PercentilesOrdered ==
  ASSUME NEW l \in Seq(Nat)
  PROVE  LET measured == {100 * l[i] : i \in DOMAIN l}
         IN /\ Percentile(l, 50) <= Percentile(l, 95)
            /\ Percentile(l, 95) <= Percentile(l, 99)
            /\ measured # {} =>
                 /\ Percentile(l, 50) >= Min(measured)
                 /\ Percentile(l, 99) <= Max(measured)
                 /\ Percentile(l, 50) = Interpolated(Sorted(l), 50)
<1> DEFINE s == Sorted(l)
           measured == {100 * l[i] : i \in DOMAIN l}
<1>0. DOMAIN l = 1..Len(l) /\ Len(l) \in Nat /\ \A j \in DOMAIN l : l[j] \in Nat
  OBVIOUS
<1>1. /\ s \in Seq(Nat) /\ Len(s) = Len(l) /\ Ascending(s)
      /\ \A i \in 1..Len(l) : \E j \in DOMAIN l : s[i] = l[j]
      /\ \A j \in DOMAIN l : s[1] <= l[j] /\ l[j] <= s[Len(l)]
  BY SortedFacts
<1>2. \A q \in {50, 95, 99} :
        Percentile(l, q) = IF s = <<>> THEN 0
                           ELSE IF q = 50 THEN Median(s) ELSE Interpolated(s, q)
  BY DEF Percentile
<1>3. \A q : Interpolated(s, q) = Between(s, (Len(s) - 1) * q)
  BY DEF Interpolated, Between, Blend, Lower, Upper
<1> HIDE DEF s
<1>4. CASE Len(l) = 0
  <2>1. s = <<>> /\ measured = {}
    BY <1>0, <1>1, <1>4, EmptySeq
  <2>2. Percentile(l, 50) = 0 /\ Percentile(l, 95) = 0 /\ Percentile(l, 99) = 0
    BY <1>2, <2>1
  <2>3. QED
    BY <2>1, <2>2
<1>5. CASE Len(l) # 0
  <2> DEFINE n == Len(s)
  <2>1. n \in Nat /\ n > 0 /\ s # <<>> /\ n = Len(l)
    BY <1>0, <1>1, <1>5
  <2>2. /\ Percentile(l, 50) = Between(s, 50 * (n - 1))
        /\ Percentile(l, 95) = Between(s, 95 * (n - 1))
        /\ Percentile(l, 99) = Between(s, 99 * (n - 1))
    <3>1. (n - 1) * 95 = 95 * (n - 1) /\ (n - 1) * 99 = 99 * (n - 1)
      BY <2>1
    <3>2. Median(s) = Between(s, 50 * (n - 1))
      BY <1>1, <2>1, MedianIsBetween
    <3>3. QED
      BY <1>2, <1>3, <2>1, <3>1, <3>2
  <2>3. Percentile(l, 50) = Interpolated(s, 50)
    <3>1. (n - 1) * 50 = 50 * (n - 1)
      BY <2>1
    <3>2. QED
      BY <1>3, <2>2, <3>1
  <2>4. /\ 0 \in Nat /\ 50 * (n - 1) \in Nat /\ 95 * (n - 1) \in Nat
        /\ 99 * (n - 1) \in Nat /\ 100 * (n - 1) \in Nat
        /\ 50 * (n - 1) <= 95 * (n - 1) /\ 95 * (n - 1) <= 99 * (n - 1)
        /\ 95 * (n - 1) <= 100 * (n - 1) /\ 99 * (n - 1) <= 100 * (n - 1)
        /\ 50 * (n - 1) <= 100 * (n - 1)
    BY <2>1
  <2>5. /\ Percentile(l, 50) <= Percentile(l, 95)
        /\ Percentile(l, 95) <= Percentile(l, 99)
    BY <1>1, <2>1, <2>2, <2>4, BetweenGrows
  <2>6. 100 * s[1] <= Percentile(l, 50) /\ Percentile(l, 99) <= 100 * s[n]
    <3> DEFINE a == 50 * (n - 1)
               b == 99 * (n - 1)
    <3>1. /\ a \in Nat /\ a <= 100 * (n - 1) /\ b \in Nat /\ b <= 100 * (n - 1)
          /\ 1 \in 1..n /\ n \in 1..n
      BY <2>1, <2>4
    <3>2. Percentile(l, 50) = Between(s, a) /\ Percentile(l, 99) = Between(s, b)
      BY <2>2
    <3> HIDE DEF a, b
    <3>3. /\ Lower(a) \in 1..n /\ s[Lower(a)] \in Nat /\ Between(s, a) \in Nat
          /\ 100 * s[Lower(a)] <= Between(s, a)
      BY <1>1, <2>1, <3>1, PositionFacts
    <3>4. /\ Upper(s, b) \in 1..n /\ s[Upper(s, b)] \in Nat /\ Between(s, b) \in Nat
          /\ Between(s, b) <= 100 * s[Upper(s, b)]
      BY <1>1, <2>1, <3>1, PositionFacts
    <3>5. s[1] <= s[Lower(a)] /\ s[Upper(s, b)] <= s[n]
      BY <1>1, <3>1, <3>3, <3>4 DEF Ascending
    <3>6. s[1] \in Nat /\ s[n] \in Nat
      BY <1>1, <3>1
    <3>7. /\ 100 * s[1] \in Nat /\ 100 * s[n] \in Nat
          /\ 100 * s[1] <= 100 * s[1] /\ 100 * s[n] <= 100 * s[n]
      BY <3>6
    <3>8. 100 * s[1] <= Between(s, a)
      BY <3>3, <3>5, <3>6, <3>7, Hundreds
    <3>9. Between(s, b) <= 100 * s[n]
      BY <3>4, <3>5, <3>6, <3>7, Hundreds
    <3>10. QED
      BY <3>2, <3>8, <3>9
  <2>7. Min(measured) = 100 * s[1] /\ Max(measured) = 100 * s[n]
    <3>1. s[1] \in Nat /\ s[n] \in Nat
      BY <1>1, <2>1
    <3>2. 100 * s[1] \in measured /\ 100 * s[n] \in measured
      <4>1. 1 \in 1..Len(l) /\ n \in 1..Len(l)
        BY <2>1
      <4>2. QED
        BY <1>1, <4>1
    <3>3. \A x \in measured : x \in Nat /\ 100 * s[1] <= x /\ x <= 100 * s[n]
      <4> SUFFICES ASSUME NEW j \in DOMAIN l
                   PROVE  /\ 100 * l[j] \in Nat /\ 100 * s[1] <= 100 * l[j]
                          /\ 100 * l[j] <= 100 * s[n]
        OBVIOUS
      <4>1. l[j] \in Nat /\ s[1] <= l[j] /\ l[j] <= s[n]
        BY <1>0, <1>1, <2>1
      <4>2. QED
        BY <3>1, <4>1
    <3> HIDE DEF measured
    <3>4. Max(measured) = 100 * s[n]
      <4>1. Latest(100 * s[n], measured) /\ measured \subseteq Nat
        BY <3>2, <3>3 DEF Latest
      <4>2. QED
        BY <4>1, LatestIsMax
    <3>5. Min(measured) = 100 * s[1]
      <4>1. \A x \in measured : (\A y \in measured : x <= y) => x = 100 * s[1]
        <5> SUFFICES ASSUME NEW x \in measured, \A y \in measured : x <= y
                     PROVE  x = 100 * s[1]
          OBVIOUS
        <5>1. x <= 100 * s[1] /\ 100 * s[1] <= x /\ x \in Nat /\ 100 * s[1] \in Nat
          BY <3>2, <3>3
        <5>2. QED
          BY <5>1
      <4>2. QED
        BY <3>2, <3>3, <4>1 DEF Min
    <3>6. QED
      BY <3>4, <3>5
  <2>8. QED
    BY <2>3, <2>5, <2>6, <2>7 DEF s
<1>6. QED
  BY <1>4, <1>5

(* The reported percentiles are in order, within what was measured, and    *)
(* the median is the interpolation at the half, for every list of          *)
(* latencies: sorting, interpolation and its last index included.          *)
THEOREM PercentilesAreInOrder == RunSpec => []PercentilesInOrder
<1>1. LInv => PercentilesInOrder
  <2> SUFFICES ASSUME LInv PROVE PercentilesInOrder
    OBVIOUS
  <2>1. latencies \in Seq(Nat)
    BY ScenarioAssumption, SeqMonotonic DEF LInv
  <2>2. QED
    BY <2>1, PercentilesOrdered DEF PercentilesInOrder
<1>2. QED
  BY <1>1, LatencyInvariance, PTL
-----------------------------------------------------------------------------
(* A provider that never fails is never passed over: no request that has   *)
(* tried it goes on to another or ends without its answer.                 *)
NeverPassed(p) ==
  /\ Passing(p) = {} /\ Unanswered(p) = {}
  /\ \A t \in doomed : serving[t] # p

HInv == \A p \in Providers : Reliable(scenario, p) => NeverPassed(p)

(* What the cache has to give was bought before.                           *)
Bought ==
  \/ \E r \in DOMAIN responses : r.route \in {"primary", "fallback"}
  \/ \E t \in Threads : pc[t] = "charge"

KInv ==
  \/ \E q \in Prompts : stored[q] > 0
  \/ \E r \in DOMAIN responses : r.route = "cache_hit"
  => Bought

(* The circuit of a primary that is repaired, if one success closes it.    *)
(* In the first batch it cannot close again.  In the second it has never   *)
(* opened; or it waits, cooled down, for a request that the cache does not *)
(* answer; or that request is probing it; or the probe has closed it.      *)
MendsPrimary ==
  /\ ~Budgeted /\ SuccessThreshold = 1
  /\ 1 \in Providers /\ Repaired(scenario, 1)

Struck ==
  /\ \A t \in Threads : serving[t] = 1 => t \in doomed
  /\ breakers[1].state = "closed" => Entered("open", log[1]) = 0

NeverOpened == breakers[1].state = "closed" /\ Entered("open", log[1]) = 0

Waiting ==
  /\ breakers[1].state # "closed" /\ ~breakers[1].probe_in_flight
  /\ breakers[1].opened_age = ResetTimeout
  /\ \A t \in Threads : 1 \notin attempted[t]
  /\ Asked(responses) <= RecoverAfter[scenario]

Probed == breakers[1].state = "half_open" /\ \E t \in Threads : serving[t] = 1

Thanked ==
  \/ \E r \in DOMAIN responses : r.route = "primary"
  \/ \E t \in Threads : Answers(t, 1)
Healed ==
  breakers[1].state = "closed" /\ Entered("closed", log[1]) > 0 /\ Thanked

VInv ==
  MendsPrimary =>
    IF phase = "first" THEN Struck ELSE NeverOpened \/ Waiting \/ Probed \/ Healed

(* How a worker's step moves the breaker of one provider, and who is in    *)
(* its callable.                                                           *)
LEMMA BreakerSteps ==
  ASSUME GInv, NEW t \in Threads, Work(t), NEW p \in Providers
  PROVE  \/ breakers'[p] = breakers[p] /\ (serving'[t] = p <=> serving[t] = p)
         \/ /\ Admit(t) /\ Allows(breakers[p]) /\ serving'[t] = p
            /\ breakers'[p] = AfterAllow(breakers[p])
         \/ /\ serving[t] = p /\ pc[t] = "calling"
            /\ ProviderFails(t) /\ pc'[t] = "attempt"
            /\ breakers'[p] = AfterFailure(breakers[p])
         \/ /\ serving[t] = p /\ pc[t] = "calling"
            /\ ProviderSucceeds(t) /\ pc'[t] = "store"
            /\ breakers'[p] = AfterSuccess(breakers[p])
<1>0. /\ breakers \in [Providers -> Breaker] /\ chain[t] \in SUBSET Providers
      /\ serving \in [Threads -> Providers \cup {Nothing}]
      /\ pc \in [Threads -> Point] /\ Nothing \notin Providers
      /\ pc[t] # "calling" => serving[t] = Nothing
  BY PositionsAreNatural DEF GInv, CInv, IInv, Types
<1>1. CASE OffTheBreakers(t)
  BY <1>1, OffTheBreakersFacts DEF GInv
<1>2. CASE Admit(t)
  <2>1. PICK q \in chain[t] :
          /\ Allows(breakers[q]) /\ breakers' = [breakers EXCEPT ![q] = AfterAllow(@)]
          /\ serving' = [serving EXCEPT ![t] = q]
    BY <1>2 DEF Admit
  <2>2. serving'[t] = q /\ serving[t] # p
    BY <1>0, <1>2, <2>1 DEF Admit, At
  <2>3. CASE q = p
    BY <1>0, <1>2, <2>1, <2>2, <2>3
  <2>4. CASE q # p
    BY <1>0, <2>1, <2>2, <2>4
  <2>5. QED
    BY <2>3, <2>4
<1>3. CASE ProviderFails(t)
  <2>1. /\ pc[t] = "calling" /\ pc'[t] = "attempt" /\ serving'[t] = Nothing
        /\ breakers' = [breakers EXCEPT ![serving[t]] = AfterFailure(@)]
    BY <1>0, <1>3 DEF ProviderFails, Leave, Go, At
  <2>2. QED
    BY <1>0, <1>3, <2>1
<1>4. CASE ProviderSucceeds(t)
  <2>1. /\ pc[t] = "calling" /\ pc'[t] = "store" /\ serving'[t] = Nothing
        /\ breakers' = [breakers EXCEPT ![serving[t]] = AfterSuccess(@)]
    BY <1>0, <1>4 DEF ProviderSucceeds, Leave, Go, At
  <2>2. QED
    BY <1>0, <1>4, <2>1
<1>5. QED
  BY <1>1, <1>2, <1>3, <1>4 DEF Work, OffTheBreakers

(* What the log counts afterwards.                                         *)
LEMMA LogSteps ==
  ASSUME GInv', TInv, NEW t \in Threads, Proceed(t), NEW p \in Providers, NEW state
  PROVE  /\ Entered(state, log[p]) \in Nat
         /\ Entered(state, log'[p]) =
              Entered(state, log[p]) +
                (IF breakers'[p].state # breakers[p].state /\ breakers'[p].state = state
                 THEN 1 ELSE 0)
<1> DEFINE e == [to |-> breakers'[p].state, ts |-> now]
<1>1. log[p] \in Seq(LogEntry) /\ e \in LogEntry
  BY DEF TInv, GInv, CInv, Breaker, LogEntry
<1>2. log'[p] = IF breakers'[p].state = breakers[p].state THEN log[p] ELSE Append(log[p], e)
  BY DEF Proceed, LogTransitions
<1>3. e.to = breakers'[p].state
  OBVIOUS
<1> HIDE DEF e
<1>4. /\ Entered(state, log[p]) \in Nat
      /\ Entered(state, Append(log[p], e)) =
           Entered(state, log[p]) + (IF e.to = state THEN 1 ELSE 0)
  BY <1>1, EnteredAppend
<1>5. QED
  BY <1>2, <1>3, <1>4

(* The responses after a step.                                             *)
LEMMA ResponsesGrow ==
  ASSUME BInv, NEW t \in Threads, Proceed(t)
  PROVE  /\ pc'[t] # "idle" => responses' = responses
         /\ pc'[t] = "idle" =>
              /\ DOMAIN responses' = DOMAIN responses \cup {ResponseOf(t)}
              /\ Gains(responses, ResponseOf(t), responses')
<1> DEFINE r == ResponseOf(t)
<1>1. CASE pc'[t] # "idle"
  BY <1>1 DEF Proceed, AddResponse
<1>2. CASE pc'[t] = "idle"
  <2>1. responses' = responses (+) SetToBag({r})
    BY <1>2 DEF Proceed, AddResponse
  <2> HIDE DEF r
  <2>2. Gains(responses, r, responses')
    BY <2>1, OneMore DEF BInv
  <2>3. DOMAIN responses' = DOMAIN responses \cup {r}
    BY <2>2 DEF Gains
  <2>4. QED
    BY <1>2, <2>2, <2>3 DEF r
<1>3. QED
  BY <1>1, <1>2

(* The provider that has answered gives the response its route.            *)
LEMMA RouteOfAnswer ==
  ASSUME TInv, NEW t \in Threads, pc[t] = "charge",
         NEW p \in Providers, Latest(p, attempted[t])
  PROVE  ResponseOf(t).route = IF p = 1 THEN "primary" ELSE "fallback"
<1>1. Max(attempted[t]) = p
  BY PositionsAreNatural, LatestIsMax DEF TInv
<1>2. QED
  BY <1>1 DEF ResponseOf

(* A call that is not bound to fail ends in an answer, and a doomed one in *)
(* a failure.                                                              *)
LEMMA OutcomeIsDrawn ==
  ASSUME GInv, NEW t \in Threads, Proceed(t), pc[t] = "calling"
  PROVE  /\ pc'[t] \in {"attempt", "store"}
         /\ pc'[t] = "attempt" <=> t \in doomed
<1>1. pc'[t] \in {"attempt", "store"}
  BY DEF GInv, IInv, Types, Proceed, Work, Lookup, EnterBudgetLock, Relookup, Plan, Admit,
         Deny, Degrade, ProviderFails, ProviderSucceeds, Leave, Store, Charge, Respond, Go, At
<1>2. QED
  BY <1>1 DEF Proceed, DrawOutcome, At
-----------------------------------------------------------------------------
(* A request is passed over only by a failure of the provider, or because  *)
(* its circuit is not closed.                                              *)
LEMMA PassedOver ==
  ASSUME GInv, TInv, PInv, NEW t \in Threads, Proceed(t), NEW p \in Providers,
         NEW u \in Threads, u \in Passing(p)', u \notin Passing(p)
  PROVE  \/ u = t /\ serving[t] = p /\ pc[t] = "calling" /\ t \in doomed
         \/ breakers[p].state # "closed"
<1>0. /\ Path(t) /\ attempted \in [Threads -> SUBSET Providers]
      /\ pc \in [Threads -> Point] /\ chain \in [Threads -> SUBSET Providers]
      /\ serving \in [Threads -> Providers \cup {Nothing}]
      /\ Work(t) /\ Nothing \notin Providers
  BY PositionsAreNatural DEF PInv, TInv, GInv, CInv, IInv, Types, Proceed
<1>1. attempted'[t] = IF pc'[t] = "idle" THEN {}
                      ELSE IF At(t, "attempt")
                           THEN attempted[t] \cup (chain[t] \ chain'[t])
                           ELSE attempted[t]
  BY <1>0 DEF Proceed, Attempt
<1>2. u = t
  <2> SUFFICES ASSUME u # t PROVE FALSE
    OBVIOUS
  <2>1. attempted'[u] = attempted[u]
    BY OthersPath DEF PInv
  <2>2. pc'[u] = pc[u] /\ serving'[u] = serving[u]
    BY <1>0, OthersStay
  <2>3. Answers(u, p)' <=> Answers(u, p)
    BY <2>1, <2>2 DEF Answers, Latest
  <2>4. QED
    BY <2>1, <2>2, <2>3 DEF Passing
<1>3. p \in attempted'[t] /\ serving'[t] # p /\ ~Answers(t, p)' /\ pc'[t] # "idle"
  BY <1>1, <1>2 DEF Passing
<1>4. p \notin attempted[t] \/ serving[t] = p \/ Answers(t, p)
  BY <1>2 DEF Passing
<1>5. CASE Admit(t)
  <2>1. PICK q \in chain[t] : /\ chain' = [chain EXCEPT ![t] = @ \ {q}]
                              /\ serving' = [serving EXCEPT ![t] = q]
    BY <1>5 DEF Admit
  <2>2. pc[t] = "attempt" /\ serving'[t] = q /\ chain'[t] = chain[t] \ {q}
    BY <1>0, <1>5, <2>1 DEF Admit, At
  <2>3. p \in attempted[t]
    BY <1>1, <1>3, <2>2
  <2>4. serving[t] = Nothing
    BY <2>2 DEF GInv, CInv
  <2>5. QED
    BY <1>0, <1>4, <2>2, <2>3, <2>4 DEF Answers
<1>6. CASE Deny(t)
  <2>1. PICK q \in chain[t] : /\ ~Allows(breakers[q])
                              /\ chain' = [chain EXCEPT ![t] = @ \ {q}]
    BY <1>6 DEF Deny
  <2>2. pc[t] = "attempt" /\ chain'[t] = chain[t] \ {q}
    BY <1>0, <1>6, <2>1 DEF Deny, At
  <2>3. serving[t] = Nothing
    BY <2>2 DEF GInv, CInv
  <2>4. p \notin attempted[t]
    BY <1>0, <1>4, <2>2, <2>3 DEF Answers
  <2>5. q = p
    BY <1>1, <1>3, <2>2, <2>4 DEF At
  <2>6. QED
    BY <2>1, <2>5 DEF Allows
<1>7. CASE ProviderFails(t)
  <2>1. pc[t] = "calling" /\ pc'[t] = "attempt"
    BY <1>0, <1>7 DEF ProviderFails, Leave, Go, At
  <2>2. t \in doomed
    BY <2>1, OutcomeIsDrawn
  <2>3. p \in attempted[t] /\ ~Answers(t, p)
    BY <1>1, <1>3, <2>1 DEF At, Answers
  <2>4. QED
    BY <1>2, <1>4, <2>1, <2>2, <2>3
<1>8. CASE ProviderSucceeds(t)
  <2>1. pc[t] = "calling" /\ pc'[t] = "store"
    BY <1>0, <1>8 DEF ProviderSucceeds, Leave, Go, At
  <2>2. attempted'[t] = attempted[t] /\ ~Answers(t, p)
    BY <1>1, <1>3, <2>1 DEF At, Answers
  <2>3. Latest(p, attempted'[t])
    BY <1>0, <1>3, <1>4, <2>1, <2>2 DEF Path
  <2>4. QED
    BY <1>3, <2>1, <2>3 DEF Answers, Latest
<1>9. CASE Store(t)
  <2>1. pc[t] = "store" /\ pc'[t] = "charge" /\ serving'[t] = serving[t]
    BY <1>0, <1>9 DEF Store, At, Go, call
  <2>2. attempted'[t] = attempted[t]
    BY <1>1, <2>1 DEF At
  <2>3. Latest(p, attempted'[t])
    BY <1>3, <1>4, <2>1, <2>2 DEF Answers, Latest
  <2>4. QED
    BY <1>3, <2>1, <2>3 DEF Answers, Latest
<1>10. CASE Lookup(t) \/ EnterBudgetLock(t) \/ Relookup(t) \/ Plan(t)
  <2>1. ~Trying(t) /\ pc[t] # "attempt"
    BY <1>0, <1>10 DEF Lookup, EnterBudgetLock, Relookup, Plan, At, Trying
  <2>2. QED
    BY <1>0, <1>1, <1>3, <2>1 DEF Path, At
<1>11. CASE Degrade(t) \/ Charge(t)
  BY <1>0, <1>3, <1>11 DEF Degrade, Charge, Respond, Go
<1>12. QED
  BY <1>0, <1>5, <1>6, <1>7, <1>8, <1>9, <1>10, <1>11 DEF Work

(* A response is given by a worker that returns from complete.             *)
LEMMA ResponseIsReturned ==
  ASSUME BInv, NEW t \in Threads, Proceed(t), NEW r \in DOMAIN responses',
         r \notin DOMAIN responses
  PROVE  pc'[t] = "idle" /\ r = ResponseOf(t)
<1>1. DOMAIN responses' # DOMAIN responses
  OBVIOUS
<1>2. pc'[t] = "idle"
  <2> SUFFICES ASSUME pc'[t] # "idle" PROVE FALSE
    OBVIOUS
  <2>1. responses' = responses
    BY ResponsesGrow
  <2>2. QED
    BY <1>1, <2>1
<1>3. DOMAIN responses' = DOMAIN responses \cup {ResponseOf(t)}
  BY <1>2, ResponsesGrow
<1>4. QED
  BY <1>2, <1>3

(* A response that counts as unanswered for a provider is a request's that *)
(* the provider has passed over.                                           *)
LEMMA LostWasPassing ==
  ASSUME GInv, TInv, PInv, BInv, NEW t \in Threads, Proceed(t), NEW p \in Providers,
         NEW r \in Unanswered(p)', r \notin Unanswered(p)
  PROVE  t \in Passing(p)
<1>0. /\ Path(t) /\ Work(t) /\ attempted[t] \subseteq Nat
      /\ Nothing \notin Providers
  BY PositionsAreNatural DEF PInv, Proceed, TInv
<1>1. /\ r \in DOMAIN responses' /\ p \in r.attempted
      /\ r.route = "static_fallback" \/ p # Max(r.attempted)
  BY DEF Unanswered
<1>2. r \notin DOMAIN responses
  BY <1>1 DEF Unanswered
<1>3. pc'[t] = "idle" /\ r = ResponseOf(t)
  BY <1>1, <1>2, ResponseIsReturned
<1>4. r.attempted = attempted[t]
  BY <1>3 DEF ResponseOf
<1>5. pc[t] \in {"attempt", "charge"}
  BY <1>0, <1>1, <1>3, <1>4, Returns DEF Path, Trying
<1>6. serving[t] # p
  BY <1>0, <1>5 DEF GInv, CInv
<1>7. ~Answers(t, p)
  <2> SUFFICES ASSUME Answers(t, p) PROVE FALSE
    OBVIOUS
  <2>1. pc[t] = "charge" /\ Latest(p, attempted[t])
    BY <1>5 DEF Answers
  <2>2. p = Max(r.attempted)
    BY <1>0, <1>4, <2>1, LatestIsMax
  <2>3. r.route = IF p = 1 THEN "primary" ELSE "fallback"
    BY <1>3, <2>1, RouteOfAnswer
  <2>4. QED
    BY <1>1, <2>2, <2>3
<1>8. QED
  BY <1>1, <1>4, <1>6, <1>7 DEF Passing

(* The circuit of a provider that passes nobody over has never opened.     *)
LEMMA NeverPassedNeverOpened ==
  ASSUME OInv, NEW p \in Providers, NeverPassed(p)
  PROVE  breakers[p].state = "closed" /\ Entered("open", log[p]) = 0
<1>1. HowMany(responses, {}) = 0 /\ Cardinality({}) = 0
  BY FS_EmptySet, SumUnfold DEF HowMany
<1>2. Unserved(p) = 0
  BY <1>1 DEF Unserved, NeverPassed
<1>3. /\ Entered("open", log[p]) \in Nat
      /\ Entered("open", log[p]) = 0 => breakers[p].state = "closed"
      /\ Entered("open", log[p]) > 0 => 0 >= Entered("open", log[p]) + FailureThreshold - 1
  BY <1>2 DEF OInv, Explained
<1>4. QED
  BY <1>3, ThresholdsAssumption

(* A provider that never fails is not called in vain.                      *)
LEMMA ReliableIsNotDoomed ==
  ASSUME GInv, GInv', TInv, TInv', NEW t \in Threads, Proceed(t), NEW p \in Providers,
         Reliable(scenario, p), \A u \in doomed : serving[u] # p
  PROVE  \A u \in doomed' : serving'[u] # p
<1> SUFFICES ASSUME NEW u \in doomed' PROVE serving'[u] # p
  OBVIOUS
<1>1. u \in Threads /\ pc'[u] = "calling"
  BY DEF TInv
<1>2. CASE u # t
  <2>1. serving'[u] = serving[u]
    BY <1>1, <1>2, OthersStay DEF Proceed
  <2>2. u \in doomed
    BY <1>2 DEF Proceed, DrawOutcome
  <2>3. QED
    BY <2>1, <2>2
<1>3. CASE u = t
  <2>1. pc[t] = "attempt"
    BY <1>1, <1>3, OnlyAdmittedCall DEF Proceed
  <2>2. t \notin doomed
    BY <2>1 DEF TInv
  <2>3. TRUE \in Draws(serving'[t])
    BY <1>1, <1>3, <2>2 DEF Proceed, DrawOutcome, Draws
  <2>4. Draws(p) = {FALSE}
    BY DEF Draws, Reliable
  <2>5. QED
    BY <1>3, <2>3, <2>4
<1>4. QED
  BY <1>2, <1>3

LEMMA ProceedHInv ==
  ASSUME GInv, GInv', TInv, TInv', PInv, BInv, OInv, HInv, NEW t \in Threads, Proceed(t)
  PROVE  HInv'
<1> SUFFICES ASSUME NEW p \in Providers, Reliable(scenario, p)
             PROVE  NeverPassed(p)'
  BY DEF Proceed, HInv, Reliable
<1>1. NeverPassed(p)
  BY DEF HInv
<1>2. breakers[p].state = "closed"
  BY <1>1, NeverPassedNeverOpened
<1>3. Passing(p)' = {}
  <2> SUFFICES ASSUME NEW u \in Passing(p)' PROVE FALSE
    OBVIOUS
  <2>1. u \in Threads
    BY DEF Passing
  <2>2. serving[t] = p /\ t \in doomed
    BY <1>1, <1>2, <2>1, PassedOver DEF NeverPassed
  <2>3. QED
    BY <1>1, <2>2 DEF NeverPassed
<1>4. Unanswered(p)' = {}
  BY <1>1, LostWasPassing DEF NeverPassed
<1>5. \A u \in doomed' : serving'[u] # p
  BY <1>1, ReliableIsNotDoomed DEF NeverPassed
<1>6. QED
  BY <1>3, <1>4, <1>5 DEF NeverPassed

(* What the steps that are no worker's leave alone.                        *)
LEMMA StandingPasses ==
  ASSUME UNCHANGED <<pc, serving, attempted, responses>>, NEW p
  PROVE  Passing(p)' = Passing(p) /\ Unanswered(p)' = Unanswered(p)
BY DEF Passing, Answers, Latest, Unanswered

LEMMA TakePasses ==
  ASSUME GInv, NEW t \in Threads, TakeRequest(t), NEW p
  PROVE  Passing(p)' = Passing(p) /\ Unanswered(p)' = Unanswered(p)
<1>1. /\ UNCHANGED <<responses, attempted, serving>>
      /\ pc[t] = "idle" /\ pc'[t] = "lookup"
      /\ \A u \in Threads \ {t} : pc'[u] = pc[u]
  BY OthersStay DEF TakeRequest, Take, call, run, At, Go, GInv, IInv, Types
<1>2. \A u \in Threads : Answers(u, p)' <=> Answers(u, p)
  BY <1>1 DEF Answers, Latest
<1>3. QED
  BY <1>1, <1>2 DEF Passing, Unanswered

(* The scenario is what it was, and no other step dooms a call.            *)
LEMMA OtherCalls ==
  ASSUME [RunNext]_<<gateway, run>>, ~ \E t \in Threads : Proceed(t)
  PROVE  UNCHANGED <<scenario, doomed, serving, log, attempted, responses>>
<1>1. ASSUME NEW t \in Threads, TakeRequest(t)
      PROVE  UNCHANGED <<scenario, doomed, serving, log, attempted, responses>>
  BY <1>1 DEF TakeRequest, Take, call, run
<1>2. ASSUME NEW q \in Prompts, ExpireAnswer(q)
      PROVE  UNCHANGED <<scenario, doomed, serving, log, attempted, responses>>
  BY <1>2 DEF ExpireAnswer, Expire, call, run
<1>3. TimePasses \/ Recover => UNCHANGED <<scenario, doomed, serving, log, attempted, responses>>
  BY DEF TimePasses, AgeBreakers, Recover, Repair, call
<1>4. Collect \/ UNCHANGED <<gateway, run>> =>
        UNCHANGED <<scenario, doomed, serving, log, attempted, responses>>
  BY DEF Collect, gateway, vars, run
<1>5. QED
  BY <1>1, <1>2, <1>3, <1>4 DEF RunNext

LEMMA NextHInv ==
  ASSUME GInv, GInv', TInv, TInv', PInv, BInv, OInv, HInv, [RunNext]_<<gateway, run>>
  PROVE  HInv'
<1>1. ASSUME NEW t \in Threads, Proceed(t) PROVE HInv'
  BY <1>1, ProceedHInv
<1>2. CASE ~ \E t \in Threads : Proceed(t)
  <2>1. UNCHANGED <<scenario, doomed, serving, attempted, responses>>
    BY <1>2, OtherCalls
  <2>2. \A p \in Providers : Passing(p)' = Passing(p) /\ Unanswered(p)' = Unanswered(p)
    <3>1. CASE \E t \in Threads : TakeRequest(t)
      BY <3>1, TakePasses
    <3>2. CASE Standing
      BY <3>2, StandingPasses DEF Standing
    <3>3. QED
      BY <1>2, <3>1, <3>2, OtherSteps
  <2>3. QED
    BY <2>1, <2>2 DEF HInv, NeverPassed, Reliable
<1>3. QED
  BY <1>1, <1>2

LEMMA InitHInv == RunInit => HInv
<1> SUFFICES ASSUME RunInit, NEW p \in Providers PROVE NeverPassed(p)
  BY DEF HInv
<1>1. Passing(p) = {} /\ doomed = {} /\ responses = EmptyBag
  BY DEF RunInit, Init, Passing
<1>2. Unanswered(p) = {}
  BY <1>1 DEF Unanswered, EmptyBag, SetToBag
<1>3. QED
  BY <1>1, <1>2 DEF NeverPassed

(* No request is lost on a provider that never fails.                      *)
THEOREM ReliableInvariance == RunSpec => []HInv
<1>1. /\ GInv /\ GInv' /\ TInv /\ TInv' /\ PInv /\ BInv /\ OInv /\ HInv
      /\ [RunNext]_<<gateway, run>>
      => HInv'
  BY NextHInv
<1>2. QED
  BY <1>1, InitHInv, GatewayInvariance, BookkeepingInvariance, PathInvariance,
     ResponseInvariance, OpeningInvariance, PTL DEF RunSpec
-----------------------------------------------------------------------------
(* What is bought stays bought: the worker that charges for it returns it. *)
LEMMA ProceedBought ==
  ASSUME GInv, TInv, PInv, BInv, NEW t \in Threads, Proceed(t), Bought
  PROVE  Bought'
<1>1. CASE \E r \in DOMAIN responses : r.route \in {"primary", "fallback"}
  BY <1>1, ResponsesGrow DEF Bought
<1>2. ASSUME NEW u \in Threads, pc[u] = "charge" PROVE Bought'
  <2>1. CASE u # t
    BY <1>2, <2>1, OthersStay DEF Proceed, Bought
  <2>2. CASE u = t
    <3>1. pc'[t] = "idle"
      BY <1>2, <2>2
         DEF GInv, IInv, Types, Proceed, Work, Lookup, EnterBudgetLock, Relookup, Plan,
             Admit, Deny, Degrade, ProviderFails, ProviderSucceeds, Leave, Store, Charge,
             Respond, Go, At
    <3>2. PICK p \in Providers : Latest(p, attempted[t])
      BY <1>2, <2>2 DEF PInv, Path
    <3>3. ResponseOf(t).route \in {"primary", "fallback"}
      BY <1>2, <2>2, <3>2, RouteOfAnswer
    <3>4. QED
      BY <3>1, <3>3, ResponsesGrow DEF Bought
  <2>3. QED
    BY <2>1, <2>2
<1>3. QED
  BY <1>1, <1>2 DEF Bought

LEMMA ProceedKInv ==
  ASSUME GInv, TInv, PInv, BInv, KInv, NEW t \in Threads, Proceed(t)
  PROVE  KInv'
<1>0. Work(t)
  BY DEF Proceed
<1>1. Bought => Bought'
  BY ProceedBought
<1>2. ASSUME NEW q \in Prompts, stored'[q] > 0 PROVE Bought'
  <2>1. CASE Store(t)
    BY <2>1 DEF Store, Go, GInv, IInv, Types, Bought
  <2>2. CASE ~Store(t)
    <3>1. stored' = stored
      BY <1>0, <2>2 DEF Work, Lookup, EnterBudgetLock, Relookup, Plan, Admit, Deny, Degrade,
                        ProviderFails, ProviderSucceeds, Charge, shared
    <3>2. QED
      BY <1>1, <1>2, <3>1 DEF KInv
  <2>3. QED
    BY <2>1, <2>2
<1>3. ASSUME NEW r \in DOMAIN responses', r.route = "cache_hit" PROVE Bought'
  <2>1. CASE r \in DOMAIN responses
    BY <1>1, <1>3, <2>1 DEF KInv
  <2>2. CASE r \notin DOMAIN responses
    <3>1. pc'[t] = "idle" /\ r = ResponseOf(t)
      BY <2>2, ResponseIsReturned
    <3>2. pc[t] \in {"lookup", "relookup"}
      <4>1. pc[t] # "attempt"
        BY <1>3, <3>1 DEF ResponseOf
      <4>2. pc[t] # "charge"
        <5> SUFFICES ASSUME pc[t] = "charge" PROVE FALSE
          OBVIOUS
        <5>1. PICK p \in Providers : Latest(p, attempted[t])
          BY DEF PInv, Path
        <5>2. QED
          BY <1>3, <3>1, <5>1, RouteOfAnswer
      <4>3. QED
        BY <1>0, <3>1, <4>1, <4>2, Returns
    <3>3. Cached(prompt[t]) /\ prompt[t] \in Prompts
      BY <1>0, <3>1, <3>2
         DEF GInv, IInv, Types, Consistent, Work, Lookup, EnterBudgetLock, Relookup, Plan,
             Admit, Deny, Degrade, ProviderFails, ProviderSucceeds, Leave, Store, Charge,
             Go, At
    <3>4. QED
      BY <1>1, <3>3 DEF KInv, Cached
  <2>3. QED
    BY <2>1, <2>2
<1>4. QED
  BY <1>2, <1>3 DEF KInv

LEMMA NextKInv ==
  ASSUME GInv, TInv, PInv, BInv, KInv, [RunNext]_<<gateway, run>>
  PROVE  KInv'
<1>1. ASSUME NEW t \in Threads, Proceed(t) PROVE KInv'
  BY <1>1, ProceedKInv
<1>2. ASSUME NEW t \in Threads, TakeRequest(t) PROVE KInv'
  <2>1. /\ UNCHANGED <<stored, responses>> /\ pc[t] = "idle"
        /\ \A u \in Threads \ {t} : pc'[u] = pc[u]
    BY <1>2, OthersStay DEF TakeRequest, Take, shared, run, At
  <2>2. Bought => Bought'
    BY <2>1 DEF Bought
  <2>3. QED
    BY <2>1, <2>2 DEF KInv
<1>3. ASSUME NEW q \in Prompts, ExpireAnswer(q) PROVE KInv'
  <2>1. UNCHANGED <<pc, responses>> /\ stored[q] > 0
    BY <1>3 DEF ExpireAnswer, Expire, run
  <2>2. QED
    BY <2>1 DEF KInv, Bought
<1>4. ASSUME UNCHANGED <<pc, responses, stored>> PROVE KInv'
  BY <1>4 DEF KInv, Bought
<1>5. TimePasses \/ Recover => UNCHANGED <<pc, responses, stored>>
  BY DEF TimePasses, AgeBreakers, Recover, Repair
<1>6. Collect \/ UNCHANGED <<gateway, run>> => UNCHANGED <<pc, responses, stored>>
  BY DEF Collect, gateway, vars, run
<1>7. QED
  BY <1>1, <1>2, <1>3, <1>4, <1>5, <1>6 DEF RunNext

LEMMA InitKInv == RunInit => KInv
BY DEF RunInit, Init, KInv, EmptyBag, SetToBag

(* The cache gives only what a provider has been paid for.                 *)
THEOREM PurchaseInvariance == RunSpec => []KInv
<1>1. GInv /\ TInv /\ PInv /\ BInv /\ KInv /\ [RunNext]_<<gateway, run>> => KInv'
  BY NextKInv
<1>2. QED
  BY <1>1, InitKInv, GatewayInvariance, BookkeepingInvariance, PathInvariance,
     ResponseInvariance, PTL DEF RunSpec
-----------------------------------------------------------------------------
(* What a method does to a breaker's state, and that one success closes a  *)
(* recovering circuit where one is asked for.                              *)
LEMMA StatesAfter ==
  ASSUME NEW b, SoundBreaker(b)
  PROVE  /\ Allows(b) => AfterAllow(b).state =
                           IF b.state = "closed" THEN "closed" ELSE "half_open"
         /\ b.state = "closed" => AfterSuccess(b).state = "closed"
         /\ SuccessThreshold = 1 /\ b.state = "half_open" => AfterSuccess(b).state = "closed"
         /\ AfterFailure(b).state = "closed" => b.state = "closed"
<1>1. Allows(b) => AfterAllow(b).state = IF b.state = "closed" THEN "closed" ELSE "half_open"
  BY AllowSound
<1>2. b.state = "closed" => AfterSuccess(b).state = "closed"
  BY SuccessSound
<1>3. ASSUME SuccessThreshold = 1, b.state = "half_open"
      PROVE  AfterSuccess(b).state = "closed"
  <2>1. b.success_count \in 0..CountCap /\ CountCap \in Nat /\ CountCap >= 1
    BY <1>3, ThresholdsAssumption DEF SoundBreaker, Breaker
  <2>2. Bump(b.success_count) >= 1
    BY <2>1 DEF Bump
  <2>3. Recovers(b, Bump(b.success_count))
    BY <1>3, <2>2 DEF Recovers
  <2>4. QED
    BY <2>3 DEF AfterSuccess
<1>4. AfterFailure(b).state = "closed" => b.state = "closed"
  BY FailureSound
<1>5. QED
  BY <1>1, <1>2, <1>3, <1>4

(* In the first batch every call of the primary fails, so its circuit does *)
(* not close again.                                                        *)
LEMMA ProceedStruck ==
  ASSUME GInv, GInv', TInv, PInv, MendsPrimary, phase = "first", Struck,
         NEW t \in Threads, Proceed(t)
  PROVE  Struck'
<1>0. /\ 1 \in Providers /\ SoundBreaker(breakers[1]) /\ Work(t)
      /\ FailRate[scenario][1] = "always"
  BY DEF MendsPrimary, Repaired, GInv, CInv, Proceed
<1>1. ASSUME NEW u \in Threads, serving'[u] = 1 PROVE u \in doomed'
  <2>1. CASE u # t
    <3>1. u \in doomed
      BY <1>0, <1>1, <2>1, OthersStay DEF Struck
    <3>2. QED
      BY <2>1, <3>1 DEF Proceed, DrawOutcome
  <2>2. CASE u = t
    <3>1. pc'[t] = "calling"
      BY <1>0, <1>1, <2>2, PositionsAreNatural DEF GInv, CInv
    <3>2. Draws(serving'[t]) = {TRUE}
      BY <1>0, <1>1, <2>2 DEF Draws
    <3>3. QED
      BY <2>2, <3>1, <3>2 DEF Proceed, DrawOutcome
  <2>3. QED
    BY <2>1, <2>2
<1>2. ASSUME breakers'[1].state = "closed" PROVE Entered("open", log'[1]) = 0
  <2>1. breakers[1].state = "closed"
    <3>1. CASE breakers'[1] = breakers[1]
      BY <1>2, <3>1
    <3>2. CASE Allows(breakers[1]) /\ breakers'[1] = AfterAllow(breakers[1])
      BY <1>0, <1>2, <3>2, StatesAfter
    <3>3. CASE breakers'[1] = AfterFailure(breakers[1])
      BY <1>0, <1>2, <3>3, StatesAfter
    <3>4. CASE serving[t] = 1 /\ pc[t] = "calling" /\ pc'[t] = "store"
      BY <3>4, OutcomeIsDrawn DEF Struck
    <3>5. QED
      BY <1>0, <3>1, <3>2, <3>3, <3>4, BreakerSteps
  <2>2. Entered("open", log[1]) = 0
    BY <2>1 DEF Struck
  <2>3. Entered("open", log'[1]) = Entered("open", log[1]) + 0
    BY <1>0, <1>2, LogSteps
  <2>4. QED
    BY <2>2, <2>3
<1>3. QED
  BY <1>1, <1>2 DEF Struck

(* In the second batch the primary does not fail.                          *)
LEMMA PrimarySteps ==
  ASSUME GInv, DInv, MendsPrimary, phase = "last", NEW t \in Threads, Proceed(t)
  PROVE  \/ breakers'[1] = breakers[1] /\ (serving'[t] = 1 <=> serving[t] = 1)
         \/ /\ Allows(breakers[1]) /\ serving'[t] = 1
            /\ breakers'[1] = AfterAllow(breakers[1])
         \/ /\ serving[t] = 1 /\ pc[t] = "calling" /\ pc'[t] = "store"
            /\ breakers'[1] = AfterSuccess(breakers[1])
<1>1. 1 \in Providers /\ Work(t)
  BY DEF MendsPrimary, Proceed
<1>2. ~(serving[t] = 1 /\ pc[t] = "calling" /\ pc'[t] = "attempt")
  BY OutcomeIsDrawn DEF DInv, MendsPrimary, Repaired
<1>3. QED
  BY <1>1, <1>2, BreakerSteps

(* The primary's answer keeps its worker going until it is returned.       *)
LEMMA ProceedThanked ==
  ASSUME GInv, TInv, PInv, BInv, 1 \in Providers, NEW t \in Threads, Proceed(t), Thanked
  PROVE  Thanked'
<1>1. CASE \E r \in DOMAIN responses : r.route = "primary"
  BY <1>1, ResponsesGrow DEF Thanked
<1>2. ASSUME NEW u \in Threads, Answers(u, 1) PROVE Thanked'
  <2>0. pc[u] \in {"store", "charge"} /\ Latest(1, attempted[u])
    BY <1>2 DEF Answers
  <2>1. CASE u # t
    <3>1. attempted'[u] = attempted[u] /\ pc'[u] = pc[u]
      BY <2>1, OthersPath, OthersStay DEF PInv, Proceed
    <3>2. Answers(u, 1)'
      BY <2>0, <3>1 DEF Answers, Latest
    <3>3. QED
      BY <3>2 DEF Thanked
  <2>2. CASE u = t
    <3>1. pc'[t] = IF pc[t] = "store" THEN "charge" ELSE "idle"
      BY <2>0, <2>2
         DEF GInv, IInv, Types, Proceed, Work, Lookup, EnterBudgetLock, Relookup, Plan,
             Admit, Deny, Degrade, ProviderFails, ProviderSucceeds, Leave, Store, Charge,
             Respond, Go, At
    <3>2. CASE pc[t] = "store"
      <4>1. attempted'[t] = attempted[t] /\ pc'[t] = "charge"
        BY <3>1, <3>2 DEF TInv, Proceed, Attempt, At
      <4>2. Answers(t, 1)'
        BY <2>0, <2>2, <4>1 DEF Answers, Latest
      <4>3. QED
        BY <4>2 DEF Thanked
    <3>3. CASE pc[t] = "charge"
      <4>1. ResponseOf(t).route = "primary"
        BY <2>0, <2>2, <3>3, RouteOfAnswer
      <4>2. ResponseOf(t) \in DOMAIN responses'
        BY <3>1, <3>3, ResponsesGrow
      <4>3. QED
        BY <4>1, <4>2 DEF Thanked
    <3>4. QED
      BY <2>0, <2>2, <3>2, <3>3
  <2>3. QED
    BY <2>1, <2>2
<1>3. QED
  BY <1>1, <1>2 DEF Thanked

(* A request that has not come to the primary is answered by the cache.    *)
LEMMA UnaskedHits ==
  ASSUME GInv, TInv, PInv, BInv, MendsPrimary, NEW t \in Threads, Proceed(t),
         1 \notin attempted[t]
  PROVE  Asked(responses') = Asked(responses)
<1>1. CASE pc'[t] # "idle"
  BY <1>1, ResponsesGrow
<1>2. CASE pc'[t] = "idle"
  <2> DEFINE r == ResponseOf(t)
  <2>1. Plausible(r) /\ 1 \notin r.attempted
    BY <1>2, ResponseFits DEF Proceed, ResponseOf
  <2>2. Gains(responses, r, responses')
    BY <1>2, ResponsesGrow
  <2> HIDE DEF r
  <2>3. r.route = "cache_hit"
    BY <2>1 DEF Plausible, Response, Route, MendsPrimary
  <2>4. /\ By(responses, Route) \in Nat /\ By(responses, {"cache_hit"}) \in Nat
        /\ By(responses', Route) = By(responses, Route) + 1
        /\ By(responses', {"cache_hit"}) = By(responses, {"cache_hit"}) + 1
    BY <2>1, <2>2, <2>3, RoutesMore DEF BInv, Route
  <2>5. QED
    BY <2>4 DEF Asked
<1>3. QED
  BY <1>1, <1>2

(* While the circuit waits, cooled down, nobody can be turned away by it,  *)
(* and the first that comes probes it.                                     *)
LEMMA ProceedWaiting ==
  ASSUME GInv, GInv', TInv, PInv, BInv, DInv, MendsPrimary, phase = "last", Waiting,
         NEW t \in Threads, Proceed(t)
  PROVE  Waiting' \/ Probed'
<1>0. /\ 1 \in Providers /\ SoundBreaker(breakers[1]) /\ Work(t) /\ Path(t)
      /\ attempted \in [Threads -> SUBSET Providers]
      /\ pc \in [Threads -> Point] /\ chain \in [Threads -> SUBSET Providers]
      /\ breakers[1].state \in {"open", "half_open"}
  BY DEF MendsPrimary, GInv, CInv, IInv, Types, Proceed, PInv, TInv, Waiting, Breaker,
         CircuitState
<1>1. Allows(breakers[1])
  BY <1>0, ThresholdsAssumption DEF Allows, CooledDown, Waiting, NotOpened
<1>2. serving[t] # 1
  BY <1>0, PositionsAreNatural DEF GInv, CInv, Path, Latest, Waiting
<1>3. CASE Allows(breakers[1]) /\ serving'[t] = 1 /\ breakers'[1] = AfterAllow(breakers[1])
  BY <1>0, <1>3, StatesAfter DEF Probed
<1>4. CASE breakers'[1] = breakers[1] /\ serving'[t] # 1
  <2>1. 1 \notin attempted'[t]
    <3> SUFFICES ASSUME 1 \in attempted'[t] PROVE FALSE
      OBVIOUS
    <3>1. pc[t] = "attempt" /\ pc'[t] # "idle" /\ 1 \in chain[t] \ chain'[t]
      BY <1>0 DEF Proceed, Attempt, At, Waiting
    <3>2. Admit(t) \/ Deny(t)
      BY <1>0, <3>1 DEF Work, Lookup, EnterBudgetLock, Relookup, Plan, Degrade,
                        ProviderFails, ProviderSucceeds, Leave, Store, Charge, Respond, Go, At
    <3>3. PICK q \in chain[t] :
            /\ chain' = [chain EXCEPT ![t] = @ \ {q}]
            /\ \/ serving' = [serving EXCEPT ![t] = q]
               \/ ~Allows(breakers[q])
      BY <3>2 DEF Admit, Deny
    <3>4. q = 1
      BY <1>0, <3>1, <3>3
    <3>5. serving'[t] = 1
      BY <1>1, <3>3, <3>4 DEF GInv, IInv, Types
    <3>6. QED
      BY <1>4, <3>5
  <2>2. \A u \in Threads : 1 \notin attempted'[u]
    <3>1. \A u \in Threads \ {t} : attempted'[u] = attempted[u]
      BY OthersPath DEF PInv
    <3>2. QED
      BY <2>1, <3>1 DEF Waiting
  <2>3. Asked(responses') = Asked(responses) /\ scenario' = scenario
    BY UnaskedHits DEF Waiting, Proceed
  <2>4. QED
    BY <1>4, <2>2, <2>3 DEF Waiting
<1>5. QED
  BY <1>2, <1>3, <1>4, PrimarySteps

(* The probe does not fail, and its success closes the circuit.            *)
LEMMA ProceedProbed ==
  ASSUME GInv, GInv', TInv, PInv, BInv, DInv, MendsPrimary, phase = "last", Probed,
         NEW t \in Threads, Proceed(t)
  PROVE  Probed' \/ Healed'
<1>0. /\ 1 \in Providers /\ SoundBreaker(breakers[1]) /\ Work(t) /\ Path(t)
      /\ attempted \in [Threads -> SUBSET Providers]
      /\ breakers[1].state = "half_open" /\ SuccessThreshold = 1
  BY DEF MendsPrimary, GInv, CInv, Proceed, PInv, TInv, Probed
<1>1. CASE breakers'[1] = breakers[1] /\ (serving'[t] = 1 <=> serving[t] = 1)
  <2>1. PICK u \in Threads : serving[u] = 1
    BY DEF Probed
  <2>2. serving'[u] = 1
    BY <1>0, <1>1, <2>1, OthersStay
  <2>3. QED
    BY <1>0, <1>1, <2>2 DEF Probed
<1>2. CASE Allows(breakers[1]) /\ serving'[t] = 1 /\ breakers'[1] = AfterAllow(breakers[1])
  BY <1>0, <1>2, StatesAfter DEF Probed
<1>3. CASE /\ serving[t] = 1 /\ pc[t] = "calling" /\ pc'[t] = "store"
           /\ breakers'[1] = AfterSuccess(breakers[1])
  <2>1. breakers'[1].state = "closed"
    BY <1>0, <1>3, StatesAfter
  <2>2. /\ Entered("closed", log[1]) \in Nat
        /\ Entered("closed", log'[1]) = Entered("closed", log[1]) + 1
    BY <1>0, <2>1, LogSteps
  <2>3. attempted'[t] = attempted[t] /\ Latest(1, attempted[t])
    BY <1>0, <1>3 DEF Proceed, Attempt, At, Path
  <2>4. Answers(t, 1)'
    BY <1>3, <2>3 DEF Answers, Latest
  <2>5. Entered("closed", log'[1]) > 0
    BY <2>2
  <2>6. QED
    BY <2>1, <2>4, <2>5 DEF Healed, Thanked
<1>4. QED
  BY <1>1, <1>2, <1>3, PrimarySteps

(* A closed circuit of the repaired primary stays closed.                  *)
LEMMA ProceedClosed ==
  ASSUME GInv, GInv', TInv, DInv, MendsPrimary, phase = "last",
         NEW t \in Threads, Proceed(t), breakers[1].state = "closed"
  PROVE  /\ breakers'[1].state = "closed"
         /\ \A state : Entered(state, log'[1]) = Entered(state, log[1])
<1>0. 1 \in Providers /\ SoundBreaker(breakers[1])
  BY DEF MendsPrimary, GInv, CInv
<1>1. breakers'[1].state = "closed"
  BY <1>0, StatesAfter, PrimarySteps
<1>2. log'[1] = log[1]
  BY <1>0, <1>1 DEF Proceed, LogTransitions
<1>3. QED
  BY <1>1, <1>2

LEMMA ProceedVInv ==
  ASSUME GInv, GInv', TInv, PInv, BInv, DInv, EInv, VInv, NEW t \in Threads, Proceed(t)
  PROVE  VInv'
<1>0. phase' = phase /\ scenario' = scenario
  BY DEF Proceed
<1> SUFFICES ASSUME MendsPrimary
             PROVE  IF phase = "first" THEN Struck'
                    ELSE (NeverOpened \/ Waiting \/ Probed \/ Healed)'
  BY <1>0 DEF VInv, MendsPrimary, Repaired, Splits
<1>1. CASE phase = "first"
  BY <1>1, ProceedStruck DEF VInv
<1>2. CASE phase # "first"
  <2>1. phase = "last"
    <3>1. pc[t] # "idle"
      BY Returns DEF Proceed
    <3>2. QED
      BY <1>2, <3>1 DEF TInv, EInv, AllIdle, At
  <2>2. CASE NeverOpened
    BY <1>2, <2>1, <2>2, ProceedClosed DEF NeverOpened
  <2>3. CASE Waiting
    BY <1>2, <2>1, <2>3, ProceedWaiting
  <2>4. CASE Probed
    BY <1>2, <2>1, <2>4, ProceedProbed
  <2>5. CASE Healed
    BY <1>2, <2>1, <2>5, ProceedClosed, ProceedThanked DEF Healed, MendsPrimary
  <2>6. QED
    BY <1>2, <2>2, <2>3, <2>4, <2>5 DEF VInv
<1>3. QED
  BY <1>1, <1>2

(* The sleep leaves the circuit as it was, or waiting for a probe; no more *)
(* than the requests of the first batch have been asked of the primary.    *)
LEMMA RecoverVInv ==
  ASSUME GInv, TInv, PInv, BInv, VInv, Recover
  PROVE  VInv'
<1> SUFFICES ASSUME MendsPrimary PROVE (NeverOpened \/ Waiting)'
  BY RecoverFacts DEF VInv, MendsPrimary, Repaired, Splits
<1>0. /\ phase = "first" /\ phase' = "last" /\ LeftInBatch = 0 /\ AllIdle
      /\ breakers' = [p \in Providers |-> Rested(breakers[p])]
      /\ UNCHANGED <<attempted, responses, log, scenario>>
  BY RecoverFacts
<1>1. 1 \in Providers /\ SoundBreaker(breakers[1]) /\ Struck
  BY <1>0 DEF MendsPrimary, GInv, CInv, VInv
<1>2. /\ breakers'[1].state = breakers[1].state
      /\ breakers'[1].probe_in_flight = breakers[1].probe_in_flight
      /\ breakers'[1].opened_age = IF breakers[1].opened_age = NotOpened THEN NotOpened
                                   ELSE ResetTimeout
  BY <1>0, <1>1, RestedSound
<1>3. CASE breakers[1].state = "closed"
  BY <1>0, <1>1, <1>2, <1>3 DEF Struck, NeverOpened
<1>4. CASE breakers[1].state # "closed"
  <2>1. breakers'[1].opened_age = ResetTimeout
    BY <1>1, <1>2, <1>4 DEF SoundBreaker, Timed
  <2>2. ~breakers[1].probe_in_flight
    <3>1. \A t \in Threads : serving[t] = Nothing
      BY <1>0 DEF GInv, CInv, AllIdle, At
    <3>2. QED
      BY <1>1, <3>1, PositionsAreNatural DEF GInv, CInv, NoLeakedProbe
  <2>3. \A t \in Threads : 1 \notin attempted[t]
    BY <1>0 DEF AllIdle, At, PInv, Path, Trying
  <2>4. Asked(responses) <= RecoverAfter[scenario]
    <3>1. Busy = {}
      BY <1>0 DEF AllIdle, At, Busy
    <3>2. left \in Nat /\ Due = left
      BY <3>1, FS_EmptySet DEF Due, GInv, NInv, DueBound
    <3>3. left = MaxRequests - RecoverAfter[scenario]
      <4>1. left - (MaxRequests - RecoverAfter[scenario]) = 0
        BY <1>0 DEF LeftInBatch
      <4>2. MaxRequests \in Nat /\ RecoverAfter[scenario] \in Nat
        BY GatewayAssumption, ScenarioAssumption DEF TInv
      <4>3. QED
        BY <3>2, <4>1, <4>2
    <3>4. MaxRequests \in Nat /\ RecoverAfter[scenario] \in Nat
      BY GatewayAssumption, ScenarioAssumption DEF TInv
    <3>5. By(responses, Route) \in Nat /\ By(responses, {"cache_hit"}) \in Nat
      BY HowManyNat DEF BInv, By
    <3>6. By(responses, Route) + left = MaxRequests
      BY <3>2 DEF BInv
    <3>7. QED
      BY <3>2, <3>3, <3>4, <3>5, <3>6 DEF Asked
  <2>5. QED
    BY <1>0, <1>2, <1>4, <2>1, <2>2, <2>3, <2>4 DEF Waiting
<1>5. QED
  BY <1>3, <1>4

(* Nothing else touches the primary's circuit, its log, or the requests    *)
(* that have come to it.                                                   *)
LEMMA QuietVInv ==
  ASSUME VInv, phase' = "first" <=> phase = "first", GInv,
         UNCHANGED <<scenario, serving, doomed, log, attempted, responses>>,
         \A t \in Threads : Answers(t, 1) => Answers(t, 1)',
         1 \in Providers =>
           /\ breakers'[1].state = breakers[1].state
           /\ breakers'[1].probe_in_flight = breakers[1].probe_in_flight
           /\ breakers[1].opened_age = ResetTimeout => breakers'[1].opened_age = ResetTimeout
  PROVE  VInv'
<1> SUFFICES ASSUME MendsPrimary
             PROVE  IF phase = "first" THEN Struck'
                    ELSE (NeverOpened \/ Waiting \/ Probed \/ Healed)'
  BY DEF VInv, MendsPrimary, Repaired, Splits
<1>1. 1 \in Providers
  BY DEF MendsPrimary
<1>2. /\ Struck => Struck'
      /\ NeverOpened => NeverOpened'
      /\ Waiting => Waiting'
      /\ Probed => Probed'
  BY <1>1 DEF Struck, NeverOpened, Waiting, Probed
<1>3. Healed => Healed'
  BY <1>1 DEF Healed, Thanked
<1>4. QED
  BY <1>2, <1>3 DEF VInv

LEMMA NextVInv ==
  ASSUME GInv, GInv', TInv, PInv, BInv, DInv, EInv, VInv, [RunNext]_<<gateway, run>>
  PROVE  VInv'
<1>1. ASSUME NEW t \in Threads, Proceed(t) PROVE VInv'
  BY <1>1, ProceedVInv
<1>2. CASE Recover
  BY <1>2, RecoverVInv
<1>3. ASSUME ~ \E t \in Threads : Proceed(t), ~Recover PROVE VInv'
  <2>1. UNCHANGED <<scenario, serving, doomed, log, attempted, responses>>
    BY <1>3, OtherCalls
  <2>2. ASSUME breakers' = breakers, phase' = phase, pc' = pc PROVE VInv'
    <3>1. \A t \in Threads : Answers(t, 1) => Answers(t, 1)'
      BY <2>1, <2>2 DEF Answers, Latest
    <3>2. QED
      BY <2>1, <2>2, <3>1, QuietVInv
  <2>3. ASSUME NEW t \in Threads, TakeRequest(t) PROVE VInv'
    <3>1. /\ breakers' = breakers /\ phase' = phase /\ pc[t] = "idle"
          /\ \A u \in Threads \ {t} : pc'[u] = pc[u]
      BY <2>3, OthersStay DEF TakeRequest, Take, shared, run, At
    <3>2. \A u \in Threads : Answers(u, 1) => Answers(u, 1)'
      BY <2>1, <3>1 DEF Answers, Latest
    <3>3. QED
      BY <2>1, <3>1, <3>2, QuietVInv
  <2>4. ASSUME NEW q \in Prompts, ExpireAnswer(q) PROVE VInv'
    BY <2>2, <2>4 DEF ExpireAnswer, Expire, run
  <2>5. CASE TimePasses
    <3>1. /\ breakers' = [p \in Providers |-> Aged(breakers[p])]
          /\ phase' = phase /\ pc' = pc
      BY <2>5 DEF TimePasses, AgeBreakers
    <3>2. \A t \in Threads : Answers(t, 1) => Answers(t, 1)'
      BY <2>1, <3>1 DEF Answers, Latest
    <3>3. ASSUME 1 \in Providers
          PROVE  /\ breakers'[1].state = breakers[1].state
                 /\ breakers'[1].probe_in_flight = breakers[1].probe_in_flight
                 /\ breakers[1].opened_age = ResetTimeout =>
                      breakers'[1].opened_age = ResetTimeout
      <4>1. SoundBreaker(breakers[1]) /\ breakers'[1] = Aged(breakers[1])
        BY <3>1, <3>3 DEF GInv, CInv
      <4>2. breakers[1].opened_age = ResetTimeout => Aged(breakers[1]) = breakers[1]
        BY ThresholdsAssumption DEF Aged
      <4>3. QED
        BY <4>1, <4>2, AgedSound
    <3>4. QED
      BY <2>1, <3>1, <3>2, <3>3, QuietVInv
  <2>6. CASE Collect
    <3>1. breakers' = breakers /\ pc' = pc /\ phase = "last" /\ phase' = "done"
      BY <2>6 DEF Collect, gateway, vars
    <3>2. \A t \in Threads : Answers(t, 1) => Answers(t, 1)'
      BY <2>1, <3>1 DEF Answers, Latest
    <3>3. QED
      BY <2>1, <3>1, <3>2, QuietVInv
  <2>7. CASE UNCHANGED <<gateway, run>>
    BY <2>2, <2>7 DEF gateway, vars, run
  <2>8. QED
    BY <1>3, <2>3, <2>4, <2>5, <2>6, <2>7 DEF RunNext
<1>4. QED
  BY <1>1, <1>2, <1>3

LEMMA InitVInv == RunInit => VInv
<1> SUFFICES ASSUME RunInit, MendsPrimary
             PROVE  phase = "first" /\ Struck
  BY DEF VInv
<1>1. phase = "first" /\ 1 \in Providers
  BY DEF RunInit, MendsPrimary, Repaired
<1>2. \A t \in Threads : serving[t] # 1
  BY <1>1, PositionsAreNatural DEF RunInit, Init
<1>3. Entered("open", log[1]) = 0
  <2>1. <<>> \in Seq(LogEntry) /\ [to |-> "open", ts |-> 0] \in LogEntry
    BY DEF LogEntry, CircuitState
  <2>2. log[1] = <<>>
    BY <1>1 DEF RunInit
  <2>3. QED
    BY <2>1, <2>2, EnteredAppend
<1>4. QED
  BY <1>1, <1>2, <1>3 DEF Struck

(* The circuit of a repaired primary is closed by the first request that   *)
(* comes to it, however late in the first batch it opened.                 *)
THEOREM MendingInvariance == RunSpec => []VInv
<1>1. /\ GInv /\ GInv' /\ TInv /\ PInv /\ BInv /\ DInv /\ EInv /\ VInv
      /\ [RunNext]_<<gateway, run>>
      => VInv'
  BY NextVInv
<1>2. QED
  BY <1>1, InitVInv, GatewayInvariance, BookkeepingInvariance, PathInvariance,
     ResponseInvariance, RepairInvariance, EndInvariance, PTL DEF RunSpec
-----------------------------------------------------------------------------
(* A count is positive just if there is something to count.                *)
LEMMA HowManySome ==
  ASSUME NEW B, FiniteBag(B), NEW those, those \subseteq DOMAIN B
  PROVE  HowMany(B, those) \in Nat /\ (HowMany(B, those) > 0 <=> those # {})
<1>1. IsFiniteSet(those)
  BY FS_Subset DEF FiniteBag
<1>2. \A x \in those : B[x] \in Nat /\ B[x] > 0
  BY DEF FiniteBag, IsABag
<1>3. QED
  BY <1>1, <1>2, SumPositive, HowManyNat DEF HowMany

LEMMA BySome ==
  ASSUME NEW B, FiniteBag(B), NEW routes
  PROVE  /\ By(B, routes) \in Nat
         /\ By(B, routes) > 0 <=> \E r \in DOMAIN B : r.route \in routes
<1> DEFINE those == {r \in DOMAIN B : r.route \in routes}
<1>1. those \subseteq DOMAIN B /\ By(B, routes) = HowMany(B, those)
  BY DEF By
<1>2. those # {} <=> \E r \in DOMAIN B : r.route \in routes
  OBVIOUS
<1> HIDE DEF those
<1>3. QED
  BY <1>1, <1>2, HowManySome

LEMMA EnteredSome ==
  ASSUME TInv, NEW state
  PROVE  /\ EnteredByAny(state, log) \in Nat
         /\ EnteredByAny(state, log) > 0 <=> \E p \in Providers : Entered(state, log[p]) > 0
<1> DEFINE f == [p \in Providers |-> Entered(state, log[p])]
<1>1. \A p \in Providers : f[p] \in Nat
  <2>1. [to |-> "open", ts |-> 0] \in LogEntry /\ \A p \in Providers : log[p] \in Seq(LogEntry)
    BY DEF LogEntry, CircuitState, TInv
  <2>2. QED
    BY <2>1, EnteredAppend
<1>2. IsFiniteSet(Providers)
  BY PositionsAreNatural
<1>3. EnteredByAny(state, log) = SumFunctionOnSet(f, Providers)
  <2>1. DOMAIN log = Providers /\ DOMAIN f = Providers
    BY DEF TInv
  <2>2. EnteredByAny(state, log) = SumFunction(f)
    BY <2>1 DEF EnteredByAny
  <2> HIDE DEF f
  <2>3. QED
    BY <2>1, <2>2 DEF SumFunction
<1>4. \A p \in Providers : f[p] = Entered(state, log[p])
  OBVIOUS
<1> HIDE DEF f
<1>5. QED
  BY <1>1, <1>2, <1>3, <1>4, SumNat, SumPositive

(* The metrics that the verdicts ask for, at the end of a run.             *)
LEMMA EndFacts ==
  ASSUME GInv, TInv, PInv, BInv, EInv, phase = "done"
  PROVE  /\ metrics.total_requests = MaxRequests /\ MaxRequests \in Nat
         /\ MaxRequests > 0
         /\ \E r \in DOMAIN responses : r.route \in Route
         /\ metrics.successful_requests + metrics.static_fallbacks = MaxRequests
         /\ metrics.successful_requests \in Nat
         /\ metrics.primary_successes = By(responses, {"primary"})
         /\ metrics.fallback_successes = By(responses, {"fallback"})
         /\ metrics.static_fallbacks = By(responses, {"static_fallback"})
         /\ metrics.cache_hits = By(responses, {"cache_hit"})
         /\ metrics.circuit_open_count = EnteredByAny("open", log)
         /\ metrics.circuit_close_count = EnteredByAny("closed", log)
         /\ metrics.recovered <=> \E p \in Providers : RecoveryTimes(log[p]) # <<>>
         /\ Asked(responses) = MaxRequests - metrics.cache_hits
         /\ \A t \in Threads : pc[t] = "idle" /\ serving[t] = Nothing
<1>1. \A t \in Threads : pc[t] = "idle" /\ serving[t] = Nothing
  BY DEF EInv, AllIdle, At, GInv, CInv
<1>2. By(responses, Route) = MaxRequests /\ MaxRequests \in Nat /\ MaxRequests > 0
  <2>1. left = 0 /\ Busy = {}
    BY <1>1 DEF EInv, Busy
  <2>2. Due = 0
    BY <2>1, FS_EmptySet DEF Due
  <2>3. By(responses, Route) \in Nat
    BY BySome DEF BInv
  <2>4. QED
    BY <2>2, <2>3, GatewayAssumption, ScenarioAssumption DEF BInv
<1>3. /\ metrics.total_requests = By(responses, Route)
      /\ metrics.successful_requests = By(responses, SuccessfulRoutes)
      /\ metrics.primary_successes = By(responses, {"primary"})
      /\ metrics.fallback_successes = By(responses, {"fallback"})
      /\ metrics.static_fallbacks = By(responses, {"static_fallback"})
      /\ metrics.cache_hits = By(responses, {"cache_hit"})
      /\ metrics.circuit_open_count = EnteredByAny("open", log)
      /\ metrics.circuit_close_count = EnteredByAny("closed", log)
      /\ metrics.recovered = \E p \in DOMAIN log : RecoveryTimes(log[p]) # <<>>
  BY DEF metrics, Metrics
<1>4. By(responses, SuccessfulRoutes) + By(responses, {"static_fallback"}) = By(responses, Route)
  BY DEF BInv, Books, BalancedRoutes
<1>5. By(responses, SuccessfulRoutes) \in Nat
  BY BySome DEF BInv
<1>6. \E r \in DOMAIN responses : r.route \in Route
  BY <1>2, BySome DEF BInv
<1>7. DOMAIN log = Providers
  BY DEF TInv
<1>8. QED
  BY <1>1, <1>2, <1>3, <1>4, <1>5, <1>6, <1>7 DEF Asked

(* A provider that never fails rules out the static fallback.              *)
LEMMA NoStaticFallback ==
  ASSUME BInv, ~Budgeted, NEW p \in Providers, NeverPassed(p)
  PROVE  \A r \in DOMAIN responses : r.route # "static_fallback"
BY DEF BInv, Plausible, NeverPassed, Unanswered

LEMMA HealthyPasses ==
  ASSUME AsConfigured, GInv, TInv, PInv, BInv, EInv, OInv, HInv, KInv, phase = "done",
         scenario = "all_healthy"
  PROVE  Passed(scenario, metrics)
<1>0. /\ \A p \in Providers : NeverPassed(p)
      /\ 1 \in Providers /\ ~Budgeted
  BY PositionsAreNatural DEF AsConfigured, TInv, HInv
<1>1. \A r \in DOMAIN responses : r.route \notin {"static_fallback", "fallback"}
  <2> SUFFICES ASSUME NEW r \in DOMAIN responses, r.route = "fallback" PROVE FALSE
    BY <1>0, NoStaticFallback
  <2>1. r.attempted \ {1} # {} /\ 1 \in r.attempted /\ r.attempted \subseteq Providers
    BY <1>0 DEF BInv, Plausible, Response
  <2>2. \A p \in r.attempted : p = Max(r.attempted)
    BY <1>0, <2>1 DEF NeverPassed, Unanswered
  <2>3. QED
    BY <2>1, <2>2
<1>2. \E r \in DOMAIN responses : r.route = "primary"
  <2>1. PICK r \in DOMAIN responses : r.route \in Route
    BY EndFacts
  <2>2. CASE r.route = "cache_hit"
    <3>1. Bought
      BY <2>2 DEF KInv
    <3>2. QED
      BY <1>1, <3>1, EndFacts DEF Bought
  <2>3. QED
    BY <1>1, <2>1, <2>2 DEF Route
<1>3. EnteredByAny("open", log) = 0
  <2>1. \A p \in Providers : ~(Entered("open", log[p]) > 0)
    BY <1>0, NeverPassedNeverOpened
  <2>2. QED
    BY <2>1, EnteredSome
<1>4. /\ By(responses, {"primary"}) > 0
      /\ By(responses, {"fallback"}) = 0 /\ By(responses, {"static_fallback"}) = 0
  <2>1. FiniteBag(responses)
    BY DEF BInv
  <2>2. /\ By(responses, {"fallback"}) \in Nat /\ ~(By(responses, {"fallback"}) > 0)
        /\ By(responses, {"static_fallback"}) \in Nat
        /\ ~(By(responses, {"static_fallback"}) > 0)
    BY <1>1, <2>1, BySome
  <2>3. By(responses, {"primary"}) > 0
    BY <1>2, <2>1, BySome
  <2>4. QED
    BY <2>2, <2>3
<1>5. AvailableAtLeast(100, metrics)
  <2>1. metrics.total_requests = MaxRequests /\ metrics.successful_requests = MaxRequests
    BY <1>4, EndFacts
  <2>2. QED
    BY <2>1, EndFacts DEF AvailableAtLeast
<1>6. /\ metrics.primary_successes > 0 /\ metrics.fallback_successes = 0
      /\ metrics.static_fallbacks = 0 /\ metrics.circuit_open_count = 0
  BY <1>3, <1>4, EndFacts
<1>7. QED
  BY <1>5, <1>6 DEF Passed

LEMMA RecoveryPasses ==
  ASSUME AsConfigured, GInv, TInv, PInv, BInv, EInv, OInv, MInv, HInv, VInv, phase = "done",
         scenario = "primary_recovers", SuccessThreshold = 1,
         metrics.circuit_open_count > 0,
         metrics.cache_hits < MaxRequests - RecoverAfter[scenario]
  PROVE  Passed(scenario, metrics)
<1>0. /\ \A p \in Providers \ {1} : NeverPassed(p)
      /\ 1 \in Providers /\ ~Budgeted /\ MendsPrimary /\ Providers \ {1} # {}
      /\ FiniteBag(responses)
  BY PositionsAreNatural DEF AsConfigured, TInv, HInv, MendsPrimary, BInv
<1>1. \A r \in DOMAIN responses : r.route # "static_fallback"
  BY <1>0, NoStaticFallback
<1>2. Entered("open", log[1]) \in Nat /\ Entered("open", log[1]) > 0
  <2>1. PICK p \in Providers : Entered("open", log[p]) > 0
    BY EndFacts, EnteredSome
  <2>2. p = 1
    BY <1>0, <2>1, NeverPassedNeverOpened
  <2>3. Entered("open", log[1]) \in Nat
    BY <1>0 DEF OInv, Explained
  <2>4. QED
    BY <2>1, <2>2, <2>3
<1>3. Healed
  <2>1. ~NeverOpened
    BY <1>2 DEF NeverOpened
  <2>2. ~Waiting
    <3>1. Asked(responses) > RecoverAfter[scenario]
      <4>1. metrics.cache_hits \in Nat /\ RecoverAfter[scenario] \in Nat
        BY <1>0, BySome, EndFacts, ScenarioAssumption DEF TInv
      <4>2. QED
        BY <4>1, EndFacts
    <3>2. Asked(responses) \in Int /\ RecoverAfter[scenario] \in Nat
      BY <1>0, BySome, ScenarioAssumption DEF TInv, Asked
    <3>3. QED
      BY <3>1, <3>2 DEF Waiting
  <2>3. ~Probed
    BY <1>0, EndFacts, PositionsAreNatural DEF Probed
  <2>4. QED
    BY <1>0, <2>1, <2>2, <2>3 DEF VInv
<1>4. By(responses, {"primary"}) > 0
  <2>1. \E r \in DOMAIN responses : r.route = "primary"
    BY <1>3, EndFacts DEF Healed, Thanked, Answers
  <2>2. QED
    BY <1>0, <2>1, BySome
<1>5. By(responses, {"fallback"}) > 0
  <2>1. Unserved(1) > 0
    BY <1>0, <1>2, ThresholdsAssumption DEF OInv, Explained
  <2>2. Passing(1) = {}
    BY EndFacts DEF PInv, Path, Trying, Passing
  <2>3. Unanswered(1) # {}
    <3>1. HowMany(responses, Unanswered(1)) \in Nat
          /\ (HowMany(responses, Unanswered(1)) > 0 <=> Unanswered(1) # {})
      BY <1>0, HowManySome DEF Unanswered
    <3>2. Unserved(1) = HowMany(responses, Unanswered(1))
      BY <2>2, <3>1, FS_EmptySet DEF Unserved
    <3>3. QED
      BY <2>1, <3>1, <3>2
  <2>4. PICK r \in DOMAIN responses :
          1 \in r.attempted /\ (r.route = "static_fallback" \/ 1 # Max(r.attempted))
    BY <2>3 DEF Unanswered
  <2>5. r.route # "primary"
    <3>1. Max({1}) = 1
      BY LatestIsMax DEF Latest
    <3>2. QED
      BY <1>1, <2>4, <3>1 DEF BInv, Plausible
  <2>6. r.route = "fallback"
    BY <1>1, <2>4, <2>5 DEF BInv, Plausible, Response, Route
  <2>7. QED
    BY <1>0, <2>6, BySome
<1>6. By(responses, {"static_fallback"}) = 0
  <2>1. By(responses, {"static_fallback"}) \in Nat /\ ~(By(responses, {"static_fallback"}) > 0)
    BY <1>0, <1>1, BySome
  <2>2. QED
    BY <2>1
<1>7. AvailableAtLeast(99, metrics)
  <2>1. metrics.total_requests = MaxRequests /\ metrics.successful_requests = MaxRequests
    BY <1>6, EndFacts
  <2>2. QED
    BY <2>1, EndFacts DEF AvailableAtLeast
<1>8. EnteredByAny("closed", log) > 0
  BY <1>0, <1>3, EnteredSome DEF Healed
<1>9. RecoveryTimes(log[1]) # <<>>
  <2>1. Len(RecoveryTimes(log[1])) > 0
    BY <1>0, <1>3 DEF Healed, MInv, Clocked, Measured, RecoveryTimes
  <2>2. QED
    BY <2>1
<1>10. /\ metrics.recovered
       /\ metrics.circuit_close_count > 0
       /\ metrics.primary_successes > 0 /\ metrics.fallback_successes > 0
  BY <1>0, <1>4, <1>5, <1>8, <1>9, EndFacts
<1>11. QED
  BY <1>7, <1>10 DEF Passed

(* With the fail rates that the two scenarios are configured with, their   *)
(* verdicts are earned whatever the pool, the list of providers, the batch *)
(* and the failure threshold: all_healthy is passed; and primary_recovers  *)
(* is, where one success closes a circuit, unless its circuit never opened *)
(* or the cache left the second batch nothing to ask of a provider.        *)
THEOREM VerdictsAreEarnedAsConfigured ==
  AsConfigured => (RunSpec => []VerdictsAreEarned)
<1>1. ASSUME AsConfigured PROVE RunSpec => []VerdictsAreEarned
  <2>1. /\ GInv /\ TInv /\ PInv /\ BInv /\ EInv /\ OInv /\ MInv /\ HInv /\ KInv /\ VInv
        => VerdictsAreEarned
    BY <1>1, HealthyPasses, RecoveryPasses DEF VerdictsAreEarned
  <2>2. QED
    BY <2>1, GatewayInvariance, BookkeepingInvariance, PathInvariance, ResponseInvariance,
       EndInvariance, OpeningInvariance, LogInvariance, ReliableInvariance,
       PurchaseInvariance, MendingInvariance, PTL
<1>2. QED
  BY <1>1
=============================================================================
