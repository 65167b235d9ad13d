------------------------ MODULE ResponseCacheProofs ------------------------
(***************************************************************************)
(* What the in-memory cache serves, finds and keeps, for any threads,      *)
(* queries and similarities, any threshold and time to live, and however   *)
(* long a thread waits for the lock.  The inductive invariant adds to the  *)
(* types that no thread is in a method with a private query, so that none  *)
(* is ever stored.                                                         *)
(***************************************************************************)
EXTENDS ResponseCache, CacheMatchingLemmas

Consistent(t) == pc[t] # "idle" => query[t] \in Queries \ Private

IInv == TypeOK /\ \A t \in Threads : Consistent(t)

LEMMA Bounds ==
  /\ MaxWait \in Nat \ {0} /\ MaxEntries \in Nat \ {0} /\ TTL \in Nat \ {0}
  /\ MaxAge \in Nat /\ MaxAge > TTL + MaxWait
BY BoundsAssumption, CacheAssumption DEF MaxAge

LEMMA InitIInv == Init => IInv
<1> SUFFICES ASSUME Init PROVE IInv
  OBVIOUS
<1>1. <<>> \in Seq(Entry) /\ Len(<<>>) = 0
  BY EmptySeq
<1>2. QED
  BY <1>1, Bounds DEF Init, IInv, TypeOK, Consistent

LEMMA EntryFacts ==
  ASSUME TypeOK
  PROVE  /\ Len(entries) \in Nat /\ DOMAIN entries = 1..Len(entries)
         /\ \A i \in DOMAIN entries :
              /\ entries[i] \in Entry
              /\ entries[i].key \in Queries \ Private
              /\ entries[i].age \in 0..MaxAge
<1>1. entries \in Seq(Entry)
  BY DEF TypeOK
<1>2. /\ Len(entries) \in Nat /\ DOMAIN entries = 1..Len(entries)
      /\ \A i \in DOMAIN entries : entries[i] \in Entry
  BY <1>1, LenProperties
<1>3. QED
  BY <1>2 DEF Entry

LEMMA EnterIInv ==
  ASSUME IInv, NEW t \in Threads, NEW method \in {"lookup", "set"},
         NEW q \in Queries, Enter(t, method, q)
  PROVE  IInv'
BY DEF IInv, TypeOK, Consistent, Enter

(* The thread that leaves a method keeps the types of what is its own. *)
LEMMA LeaveFacts ==
  ASSUME IInv, NEW t \in Threads, Leave(t)
  PROVE  /\ pc' \in [Threads -> {"idle", "lookup", "set"}] /\ pc'[t] = "idle"
         /\ query' \in [Threads -> Queries \cup {None}]
         /\ waited' \in [Threads -> 0..MaxWait]
         /\ \A u \in Threads : Consistent(u)'
         /\ \A u \in Threads \ {t} : pc'[u] = pc[u] /\ query'[u] = query[u]
BY Bounds DEF IInv, TypeOK, Consistent, Leave

LEMMA SetIInv ==
  ASSUME IInv, NEW t \in Threads, Set(t)
  PROVE  IInv'
<1> DEFINE e == [key |-> query[t], age |-> waited[t]]
<1>1. e \in Entry
  BY Bounds DEF IInv, TypeOK, Consistent, Set, Entry
<1>2. entries \in Seq(Entry) /\ Len(entries) \in Nat /\ Len(entries) < MaxEntries
  BY LenProperties DEF IInv, TypeOK, Set
<1>3. entries' = Append(entries, e)
  BY DEF Set
<1> HIDE DEF e
<1>4. entries' \in Seq(Entry) /\ Len(entries') = Len(entries) + 1
  BY <1>1, <1>2, <1>3, AppendProperties
<1>5. Len(entries') <= MaxEntries
  BY <1>2, <1>4, Bounds
<1>6. Leave(t) /\ answer' = None
  BY DEF Set
<1>7. QED
  BY <1>4, <1>5, <1>6, LeaveFacts DEF IInv, TypeOK

(* What lookup's locked section keeps and returns. *)
LEMMA LookupFacts ==
  ASSUME IInv, NEW t \in Threads, Lookup(t)
  PROVE  /\ query[t] \in Queries /\ waited[t] \in 0..MaxWait
         /\ entries' \in Seq(Entry) /\ Len(entries') <= Len(entries)
         /\ DOMAIN entries' = 1..Len(entries')
         /\ \A j \in DOMAIN entries' : /\ Unexpired(entries'[j], waited[t])
                                       /\ entries'[j].key \in Queries
                                       /\ entries'[j].age \in 0..MaxAge
         /\ \A i \in DOMAIN entries :
              Unexpired(entries[i], waited[t]) =>
                \E j \in DOMAIN entries' : entries'[j] = entries[i]
         /\ \/ /\ Hits(query[t], entries') = {}
               /\ answer' = [query |-> query[t], found |-> None]
            \/ \E i \in Hits(query[t], entries') :
                 answer' = [query |-> query[t],
                            found |-> [key |-> entries'[i].key,
                                       age |-> entries'[i].age - waited[t]]]
<1>1. query[t] \in Queries /\ waited[t] \in 0..MaxWait /\ entries \in Seq(Entry)
  BY DEF IInv, TypeOK, Consistent, Lookup
<1>2. entries' = Pruned(entries, waited[t])
  BY DEF Lookup
<1>3. /\ entries' \in Seq(Entry) /\ Len(entries') <= Len(entries)
      /\ \A j \in DOMAIN entries' : Unexpired(entries'[j], waited[t])
      /\ \A i \in DOMAIN entries :
           Unexpired(entries[i], waited[t]) =>
             \E j \in DOMAIN entries' : entries'[j] = entries[i]
  BY <1>1, <1>2, PrunedFacts
<1>4. /\ DOMAIN entries' = 1..Len(entries')
      /\ \A j \in DOMAIN entries' :
           /\ entries'[j] \in Entry
           /\ entries'[j].key \in Queries /\ entries'[j].age \in 0..MaxAge
  <2>1. /\ DOMAIN entries' = 1..Len(entries')
        /\ \A j \in DOMAIN entries' : entries'[j] \in Entry
    BY <1>3, LenProperties
  <2>2. QED
    BY <2>1 DEF Entry
<1>5. CASE Hits(query[t], entries') = {}
  <2>1. answer' = [query |-> query[t], found |-> None]
    BY <1>5 DEF Lookup
  <2>2. QED
    BY <1>1, <1>3, <1>4, <1>5, <2>1
<1>6. CASE Hits(query[t], entries') # {}
  <2> DEFINE i == CHOOSE i \in Hits(query[t], entries') : TRUE
             e == entries'[i]
  <2>1. i \in Hits(query[t], entries')
    BY <1>6
  <2>2. answer' = [query |-> query[t], found |-> [e EXCEPT !.age = @ - waited[t]]]
    BY <1>6 DEF Lookup
  <2>3. e \in [key : Queries \ Private, age : 0..MaxAge]
    BY <1>4, <2>1, HitFacts DEF Entry
  <2> HIDE DEF i, e
  <2>4. [e EXCEPT !.age = @ - waited[t]] = [key |-> e.key, age |-> e.age - waited[t]]
    BY <2>3
  <2>5. answer' = [query |-> query[t],
                   found |-> [key |-> e.key, age |-> e.age - waited[t]]]
    BY <2>2, <2>4
  <2>6. QED
    BY <1>1, <1>3, <1>4, <2>1, <2>5 DEF e
<1>7. QED
  BY <1>5, <1>6

LEMMA LookupIInv ==
  ASSUME IInv, NEW t \in Threads, Lookup(t)
  PROVE  IInv'
<1>1. Len(entries') <= MaxEntries
  BY LookupFacts, LenProperties, Bounds DEF IInv, TypeOK
<1>2. answer' \in Answer
  BY LookupFacts, HitFacts, Bounds DEF Answer
<1>3. Leave(t)
  BY DEF Lookup
<1>4. QED
  BY <1>1, <1>2, <1>3, LookupFacts, LeaveFacts DEF IInv, TypeOK

LEMMA TickIInv ==
  ASSUME IInv, Tick
  PROVE  IInv'
<1> DEFINE Age(i) == IF entries[i].age < MaxAge THEN entries[i].age + 1
                     ELSE entries[i].age
           Older(i) == [entries[i] EXCEPT !.age = Age(i)]
<1>1. \A i \in 1..Len(entries) : Older(i) \in Entry
  <2> SUFFICES ASSUME NEW i \in 1..Len(entries) PROVE Older(i) \in Entry
    OBVIOUS
  <2>1. entries[i] \in Entry /\ Age(i) \in 0..MaxAge
    BY EntryFacts, Bounds DEF IInv
  <2> HIDE DEF Age
  <2>2. QED
    BY <2>1 DEF Entry
<1>2. entries' = [i \in 1..Len(entries) |-> Older(i)]
  BY EntryFacts DEF Tick, IInv
<1> HIDE DEF Older
<1>3. entries' \in Seq(Entry) /\ Len(entries') = Len(entries)
  BY <1>1, <1>2, EntryFacts DEF IInv
<1>4. waited' \in [Threads -> 0..MaxWait]
  BY Bounds DEF Tick, IInv, TypeOK
<1>5. QED
  BY <1>3, <1>4 DEF IInv, TypeOK, Consistent, Tick

LEMMA NextIInv == IInv /\ [Next]_vars => IInv'
<1> SUFFICES ASSUME IInv, [Next]_vars PROVE IInv'
  OBVIOUS
<1>1. ASSUME Clear PROVE IInv'
  <2>1. <<>> \in Seq(Entry) /\ Len(<<>>) = 0
    BY EmptySeq
  <2>2. QED
    BY <1>1, <2>1, Bounds DEF Clear, IInv, TypeOK, Consistent
<1>2. CASE UNCHANGED vars
  BY <1>2 DEF vars, IInv, TypeOK, Consistent
<1>3. QED
  BY <1>1, <1>2, EnterIInv, LookupIInv, SetIInv, TickIInv DEF Next

(* The inductive invariant holds in every reachable state. *)
THEOREM Invariance == Spec => []IInv
BY InitIInv, NextIInv, PTL DEF Spec

(* Every variable keeps its type; in particular nothing private is stored. *)
THEOREM TypeCorrect == Spec => []TypeOK
<1>1. IInv => TypeOK
  BY DEF IInv
<1>2. QED
  BY <1>1, Invariance, PTL

(* Whatever is served is similar enough, about the same numbers, and was   *)
(* alive by the clock that the thread read before it waited for the lock.  *)
THEOREM WhatIsServedIsAcceptable == Spec => []ServesAcceptable
<1>1. Init => ServesAcceptable
  BY DEF Init, ServesAcceptable
<1>2. ASSUME IInv, ServesAcceptable, [Next]_vars
      PROVE  ServesAcceptable'
  <2>1. ASSUME NEW t \in Threads, Lookup(t) PROVE ServesAcceptable'
    <3>1. CASE answer' = [query |-> query[t], found |-> None]
      BY <3>1 DEF ServesAcceptable
    <3>2. ASSUME NEW i \in Hits(query[t], entries'),
                 answer' = [query |-> query[t],
                            found |-> [key |-> entries'[i].key,
                                       age |-> entries'[i].age - waited[t]]]
          PROVE  ServesAcceptable'
      <4>1. /\ i \in DOMAIN entries'
            /\ Similarity(query[t], entries'[i].key) >= Threshold
            /\ ~LooksLikeFalseHit(query[t], entries'[i].key)
        BY HitFacts
      <4>2. entries'[i].age - waited[t] <= TTL
        <5>1. Unexpired(entries'[i], waited[t])
          BY <1>2, <2>1, <4>1, LookupFacts
        <5>2. QED
          BY <5>1 DEF Unexpired
      <4>3. Acceptable(answer'.query, answer'.found)
        BY <3>2, <4>1, <4>2 DEF Acceptable
      <4>4. QED
        BY <4>3 DEF ServesAcceptable, Acceptable
    <3>3. QED
      BY <1>2, <2>1, <3>1, <3>2, LookupFacts
  <2>2. CASE answer' = None
    BY <2>2 DEF ServesAcceptable
  <2>3. CASE UNCHANGED vars
    BY <1>2, <2>3 DEF ServesAcceptable, vars
  <2>4. QED
    BY <1>2, <2>1, <2>2, <2>3 DEF Next, Enter, Set, Clear, Tick
<1>3. QED
  BY <1>1, <1>2, Invariance, PTL DEF Spec

(* A query's own live entry is found, whatever else is stored: the match   *)
(* that is chosen instead of it is as good and has the same numbers.       *)
THEOREM OwnAnswersAreFound == Spec => OwnAnswerIsFound
<1>1. ASSUME IInv, [Next]_vars, NEW t \in Threads,
             pc[t] = "lookup", pc'[t] = "idle",
             NEW i \in DOMAIN entries,
             entries[i].key = query[t], Unexpired(entries[i], waited[t])
      PROVE  answer'.found # None
  <2>1. Lookup(t)
    BY <1>1 DEF Next, vars, Enter, Lookup, Set, Clear, Tick, Leave, IInv, TypeOK
  <2>2. PICK j \in DOMAIN entries' : entries'[j].key = query[t]
    BY <1>1, <2>1, LookupFacts
  <2>3. Hits(query[t], entries') # {}
    BY <1>1, <2>1, <2>2, LookupFacts, OwnEntryIsHit
  <2>4. PICK k \in Hits(query[t], entries') :
          answer' = [query |-> query[t],
                     found |-> [key |-> entries'[k].key,
                                age |-> entries'[k].age - waited[t]]]
    <3>1. \/ Hits(query[t], entries') = {}
          \/ \E k \in Hits(query[t], entries') :
               answer' = [query |-> query[t],
                          found |-> [key |-> entries'[k].key,
                                     age |-> entries'[k].age - waited[t]]]
      BY <1>1, <2>1, LookupFacts
    <3>2. QED
      BY <2>3, <3>1
  <2>5. answer'.found \in [key : Queries, age : Int]
    <3>1. k \in DOMAIN entries'
      BY HitFacts
    <3>2. /\ entries'[k].key \in Queries
          /\ entries'[k].age \in 0..MaxAge /\ waited[t] \in 0..MaxWait
      BY <1>1, <2>1, <3>1, LookupFacts
    <3>3. entries'[k].age - waited[t] \in Int
      BY <3>2, Bounds
    <3>4. QED
      BY <2>4, <3>2, <3>3
  <2>6. QED
    BY <2>5, NoneAssumption
<1>2. IInv /\ [Next]_vars =>
        \A t \in Threads :
          /\ pc[t] = "lookup" /\ pc'[t] = "idle"
          /\ \E i \in DOMAIN entries :
               entries[i].key = query[t] /\ Unexpired(entries[i], waited[t])
          => answer'.found # None
  BY <1>1
<1>3. QED
  BY <1>2, Invariance, PTL DEF Spec, OwnAnswerIsFound

(* No method loses an entry that is alive, though the clock by which it    *)
(* prunes may have been read before the entry was stored.                  *)
THEOREM NothingLiveIsLost == Spec => NothingLiveIsDropped
<1>1. ASSUME IInv, [Next]_vars, NEW t \in Threads, pc'[t] # pc[t],
             NEW i \in DOMAIN entries, entries[i].age <= TTL
      PROVE  \E j \in DOMAIN entries' : entries'[j] = entries[i]
  <2>1. PICK u \in Threads :
          \/ entries' = entries
          \/ Lookup(u)
          \/ Set(u)
    BY <1>1 DEF Next, vars, Enter, Clear, Tick
  <2>2. CASE Lookup(u)
    <3>1. waited[u] \in Nat /\ entries[i].age \in Nat /\ TTL \in Nat
      BY <1>1, <2>2, LookupFacts, EntryFacts, Bounds DEF IInv
    <3>2. Unexpired(entries[i], waited[u])
      BY <1>1, <3>1 DEF Unexpired
    <3>3. QED
      BY <1>1, <2>2, <3>2, LookupFacts
  <2>3. CASE Set(u)
    <3> DEFINE e == [key |-> query[u], age |-> waited[u]]
    <3>1. e \in Entry
      BY <1>1, <2>3, Bounds DEF IInv, TypeOK, Consistent, Set, Entry
    <3>2. entries' = Append(entries, e) /\ entries \in Seq(Entry)
      BY <1>1, <2>3 DEF Set, IInv, TypeOK
    <3> HIDE DEF e
    <3>3. i \in 1..Len(entries) /\ i \in DOMAIN entries' /\ entries'[i] = entries[i]
      BY <1>1, <3>1, <3>2, AppendProperties, LenProperties
    <3>4. QED
      BY <3>3
  <2>4. QED
    BY <1>1, <2>1, <2>2, <2>3
<1>2. IInv /\ [Next]_vars =>
        ((\E t \in Threads : pc'[t] # pc[t]) =>
           \A i \in DOMAIN entries : entries[i].age <= TTL =>
             \E j \in DOMAIN entries' : entries'[j] = entries[i])
  BY <1>1
<1>3. QED
  BY <1>2, Invariance, PTL DEF Spec, NothingLiveIsDropped
=============================================================================
