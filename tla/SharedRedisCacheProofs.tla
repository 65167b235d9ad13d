----------------------- MODULE SharedRedisCacheProofs -----------------------
(***************************************************************************)
(* What the cache that replicas share serves, whose metadata it returns,   *)
(* what an outage leaves of it and what a flush removes: for any replicas  *)
(* and threads, any queries, similarities and hashes, however commands     *)
(* interleave and fail and entries expire.                                 *)
(*                                                                         *)
(* The inductive invariant says what a thread between two commands knows:  *)
(* that what it holds may be served, that the key it has read is as it was *)
(* unless it has been overtaken, that what it has not deleted yet is on    *)
(* its list or was written since; and that a replica's promises are kept   *)
(* by its fallback.                                                        *)
(***************************************************************************)
EXTENDS SharedRedisCache, CacheMatchingLemmas

Looking == {"hget_response", "hget_metadata", "scan", "hgetall"}

Paired(e) == e.metadata = e.response

(* An entry that may be held in order to be served or written. *)
Good(e) == e \in Entry /\ Paired(e) /\ e.age <= TTL

Kept(k) == db[k] = None \/ (Good(db[k]) /\ Hash[db[k].key] = k)

(* What a thread holds. *)
Holds(t) ==
  /\ pc[t] \in Looking \cup {"multi"} => query[t] \in Queries \ Private
  /\ pc[t] = "hget_metadata" =>
       Good(held[t]) /\ Hash[held[t].key] = Hash[query[t]]
  /\ pc[t] \in {"scan", "hgetall"} => held[t] = None \/ Good(held[t])
  /\ pc[t] = "multi" => Good(held[t]) /\ held[t].key = query[t]

(* The key is as it was when the thread has read the response. *)
Untouched(t) ==
  pc[t] = "hget_metadata" /\ t \notin overtaken =>
    LET e == db[Hash[query[t]]]
    IN e # None /\ e.response = held[t].response

(* What the flush has still to delete, or need not. *)
Flushing(t) ==
  pc[t] = "delete" =>
    \A k \in Keys : db[k] # None => k \in todo[t] \/ k \in rewritten[t]

(* What the replica has promised its fallback holds. *)
Mirrored(r) ==
  /\ \A i \in DOMAIN fallback[r] : Paired(fallback[r][i])
  /\ \A q \in Queries : promised[r][q] <= TTL =>
       \E i \in DOMAIN fallback[r] :
         fallback[r][i].key = q /\ fallback[r][i].age <= promised[r][q]

IInv ==
  /\ TypeOK
  /\ \A k \in Keys : Kept(k)
  /\ \A t \in Threads : Holds(t) /\ Untouched(t) /\ Flushing(t)
  /\ \A r \in Replicas : Mirrored(r)
-----------------------------------------------------------------------------
LEMMA Bounds ==
  /\ TTL \in Nat \ {0} /\ Expired \in Nat /\ Expired > TTL
  /\ MaxSets \in Nat
BY CacheAssumption, SharedAssumption DEF Expired

LEMMA InitIInv == Init => IInv
<1> SUFFICES ASSUME Init PROVE IInv
  OBVIOUS
<1>1. <<>> \in Seq(Entry) /\ DOMAIN <<>> = {}
  BY EmptySeq, LenProperties
<1>2. \A r \in Replicas : Mirrored(r)
  BY <1>1, Bounds DEF Init, Mirrored
<1>3. QED
  BY <1>1, <1>2, Bounds
     DEF Init, IInv, TypeOK, Kept, Holds, Untouched, Flushing, Looking

(* A thread that a step leaves alone knows what it knew. *)
LEMMA OtherThread ==
  ASSUME IInv, Recorded, NEW u \in Threads,
         pc'[u] = pc[u], query'[u] = query[u], held'[u] = held[u],
         todo'[u] = todo[u]
  PROVE  Holds(u)' /\ Untouched(u)' /\ Flushing(u)'
<1>1. Holds(u)'
  BY DEF IInv, Holds, Good, Paired
<1>2. Untouched(u)'
  <2> SUFFICES ASSUME pc[u] = "hget_metadata", u \notin overtaken'
               PROVE  LET e == db'[Hash[query[u]]]
                      IN e # None /\ e.response = held[u].response
    BY DEF Untouched
  <2>1. u \notin overtaken /\ ~Changed(Hash[query[u]])
    BY DEF Recorded, At
  <2>2. LET e == db[Hash[query[u]]]
        IN e # None /\ e.response = held[u].response
    BY <2>1 DEF IInv, Untouched
  <2>3. QED
    BY <2>1, <2>2 DEF Changed
<1>3. Flushing(u)'
  <2> SUFFICES ASSUME pc[u] = "delete", NEW k \in Keys, db'[k] # None
               PROVE  k \in todo[u] \/ k \in rewritten'[u]
    BY DEF Flushing
  <2>1. rewritten'[u] = rewritten[u] \cup {j \in Keys : Changed(j) /\ db'[j] # None}
    BY DEF Recorded, At
  <2>2. CASE Changed(k)
    BY <2>1, <2>2
  <2>3. CASE ~Changed(k)
    BY <2>1, <2>3 DEF Changed, IInv, Flushing
  <2>4. QED
    BY <2>2, <2>3
<1>4. QED
  BY <1>1, <1>2, <1>3

LEMMA RecordedTypes ==
  ASSUME TypeOK, Recorded
  PROVE  overtaken' \in SUBSET Threads /\ rewritten' \in [Threads -> SUBSET Keys]
BY DEF TypeOK, Recorded

(* A step that a thread takes, given what becomes of that thread and of    *)
(* what is shared.                                                         *)
Owned ==
  /\ pc \in [Threads -> Command \cup {"idle"}]
  /\ query \in [Threads -> Queries \cup {None}]
  /\ held \in [Threads -> Entry \cup {None}]
  /\ todo \in [Threads -> SUBSET Keys]
  /\ answer \in Answer \cup {None}

Remote == db \in [Keys -> Entry \cup {None}] /\ \A k \in Keys : Kept(k)

Local ==
  /\ fallback \in [Replicas -> Seq(Entry)]
  /\ sets \in 0..MaxSets
  /\ promised \in [Replicas -> [Queries -> 0..Expired]]
  /\ \A r \in Replicas : Mirrored(r)

OnlyMoves(t) ==
  \A u \in Threads \ {t} : /\ pc'[u] = pc[u] /\ query'[u] = query[u]
                           /\ held'[u] = held[u] /\ todo'[u] = todo[u]

LEMMA Parts == IInv => Owned /\ Remote /\ Local
BY DEF IInv, TypeOK, Owned, Remote, Local

LEMMA ThreadStep ==
  ASSUME IInv, Recorded, NEW t \in Threads, OnlyMoves(t),
         Owned', Remote', Local', Holds(t)', Untouched(t)', Flushing(t)'
  PROVE  IInv'
<1>1. \A u \in Threads : Holds(u)' /\ Untouched(u)' /\ Flushing(u)'
  BY OtherThread DEF OnlyMoves
<1>2. TypeOK'
  BY RecordedTypes DEF IInv, TypeOK, Owned, Remote, Local, Kept, Good
<1>3. QED
  BY <1>1, <1>2 DEF IInv, Remote, Local

LEMMA RemoteStays == ASSUME Remote, UNCHANGED db PROVE Remote'
BY DEF Remote, Kept, Good, Paired

LEMMA LocalStays ==
  ASSUME Local, UNCHANGED <<fallback, sets, promised>> PROVE Local'
BY DEF Local, Mirrored, Paired

(* A method that returns. *)
LEMMA ReturnFacts ==
  ASSUME IInv, NEW t \in Threads, Return(t), answer' \in Answer \cup {None}
  PROVE  /\ Owned' /\ OnlyMoves(t) /\ pc'[t] = "idle"
         /\ Holds(t)' /\ Untouched(t)' /\ Flushing(t)'
<1>1. Owned' /\ OnlyMoves(t) /\ pc'[t] = "idle"
  BY DEF IInv, TypeOK, Owned, OnlyMoves, Return, Go
<1>2. QED
  BY <1>1 DEF Holds, Untouched, Flushing, Looking

LEMMA AnswersFacts ==
  ASSUME IInv, NEW t \in Threads, query[t] \in Queries,
         NEW found \in Entry \cup {None}, Answers(t, found)
  PROVE  answer' \in Answer \cup {None} /\ Return(t)
BY DEF Answers, Answer

LEMMA ReturnIInv ==
  ASSUME IInv, Recorded, NEW t \in Threads, Return(t),
         answer' \in Answer \cup {None}, Remote', Local'
  PROVE  IInv'
BY ReturnFacts, ThreadStep
-----------------------------------------------------------------------------
(* The commands of lookup. *)
LEMMA KeyFacts ==
  ASSUME IInv, NEW t \in Threads, pc[t] \in Looking \cup {"multi"}
  PROVE  /\ query[t] \in Queries \ Private /\ query[t] \in Queries
         /\ Hash[query[t]] \in Keys
         /\ Kept(Hash[query[t]])
BY SharedAssumption DEF IInv, Holds

LEMMA BeginLookupIInv ==
  ASSUME IInv, Recorded, NEW t \in Threads, NEW q \in Queries, BeginLookup(t, q)
  PROVE  IInv'
<1>1. /\ Owned' /\ OnlyMoves(t) /\ pc'[t] = "hget_response"
      /\ query'[t] = q /\ q \notin Private
  BY DEF IInv, TypeOK, Owned, OnlyMoves, BeginLookup, Go, Command
<1>2. Holds(t)' /\ Untouched(t)' /\ Flushing(t)'
  BY <1>1 DEF Holds, Untouched, Flushing
<1>3. Remote' /\ Local'
  BY Parts, RemoteStays, LocalStays DEF BeginLookup, store
<1>4. QED
  BY <1>1, <1>2, <1>3, ThreadStep

LEMMA HgetResponseIInv ==
  ASSUME IInv, Recorded, NEW t \in Threads, HgetResponse(t)
  PROVE  IInv'
<1> DEFINE e == db[Hash[query[t]]]
<1>1. /\ query[t] \in Queries \ Private
      /\ e = None \/ (Good(e) /\ Hash[e.key] = Hash[query[t]])
  BY KeyFacts DEF HgetResponse, At, Looking, Kept
<1>2. /\ held' = [held EXCEPT ![t] = e]
      /\ pc' = [pc EXCEPT ![t] = IF e = None THEN "scan" ELSE "hget_metadata"]
      /\ answer' = None /\ UNCHANGED <<db, fallback, sets, promised, query, todo>>
  BY DEF HgetResponse, Go, store
<1> HIDE DEF e
<1>3. e \in Entry \cup {None}
  BY <1>1 DEF Good
<1>4. /\ Owned' /\ OnlyMoves(t) /\ held'[t] = e /\ query'[t] = query[t]
      /\ pc'[t] = IF e = None THEN "scan" ELSE "hget_metadata"
  BY <1>2, <1>3 DEF IInv, TypeOK, Owned, OnlyMoves, Command
<1>5. Holds(t)' /\ Flushing(t)'
  BY <1>1, <1>2, <1>4 DEF Holds, Flushing, Good, Paired
<1>6. Untouched(t)'
  BY <1>2, <1>4 DEF Untouched, e
<1>7. Remote' /\ Local'
  BY <1>2, Parts, RemoteStays, LocalStays
<1>8. QED
  BY <1>4, <1>5, <1>6, <1>7, ThreadStep

(* What the second HGET adds to what the first has found. *)
WithMetadata(t) ==
  [held[t] EXCEPT !.metadata = IF db[Hash[query[t]]] = None THEN None
                               ELSE db[Hash[query[t]]].metadata]

LEMMA HgetMetadataFacts ==
  ASSUME IInv, NEW t \in Threads, HgetMetadata(t)
  PROVE  /\ query[t] \in Queries
         /\ WithMetadata(t) \in Entry
         /\ WithMetadata(t).age <= TTL
         /\ Hash[WithMetadata(t).key] = Hash[query[t]]
         /\ t \notin overtaken => Paired(WithMetadata(t))
         /\ Answers(t, WithMetadata(t)) /\ UNCHANGED store
<1> DEFINE e == db[Hash[query[t]]]
           metadata == IF e = None THEN None ELSE e.metadata
           h == held[t]
<1>1. /\ query[t] \in Queries /\ pc[t] = "hget_metadata"
      /\ e = None \/ Good(e)
      /\ Good(h) /\ Hash[h.key] = Hash[query[t]]
  BY KeyFacts DEF HgetMetadata, At, Looking, Kept, IInv, Holds
<1>2. t \notin overtaken => e # None /\ e.response = h.response
  BY <1>1 DEF IInv, Untouched
<1>3. WithMetadata(t) = [h EXCEPT !.metadata = metadata]
  BY DEF WithMetadata
<1>4. Answers(t, WithMetadata(t)) /\ UNCHANGED store
  BY DEF HgetMetadata, WithMetadata
<1> HIDE DEF e, h
<1>5. metadata \in (1..MaxSets) \cup {None} /\ h \in Entry /\ h.age <= TTL
  BY <1>1 DEF Good, Entry
<1>6. t \notin overtaken => metadata = h.response
  BY <1>1, <1>2 DEF Good, Paired
<1> HIDE DEF metadata
<1> DEFINE w == [h EXCEPT !.metadata = metadata]
<1>7. /\ w \in Entry /\ w.age = h.age /\ w.key = h.key
      /\ w.response = h.response /\ w.metadata = metadata
  BY <1>5 DEF Entry
<1> HIDE DEF w
<1>8. WithMetadata(t) = w
  BY <1>3 DEF w
<1>9. QED
  BY <1>1, <1>4, <1>5, <1>6, <1>7, <1>8 DEF Paired, h

LEMMA HgetMetadataIInv ==
  ASSUME IInv, Recorded, NEW t \in Threads, HgetMetadata(t)
  PROVE  IInv'
<1>1. answer' \in Answer \cup {None} /\ Return(t)
  BY HgetMetadataFacts, AnswersFacts
<1>2. Remote' /\ Local'
  BY HgetMetadataFacts, Parts, RemoteStays, LocalStays DEF store
<1>3. QED
  BY <1>1, <1>2, ReturnIInv

LEMMA ScanIInv ==
  ASSUME IInv, Recorded, NEW t \in Threads, Scan(t)
  PROVE  IInv'
<1>0. /\ query[t] \in Queries \ Private /\ pc[t] = "scan"
      /\ held[t] = None \/ Good(held[t])
  BY KeyFacts DEF Scan, At, Looking, IInv, Holds
<1>1. Remote' /\ Local'
  BY Parts, RemoteStays, LocalStays DEF Scan, store
<1>2. CASE Live = {}
  <2>1. answer' \in Answer \cup {None} /\ Return(t)
    BY <1>0, <1>2, AnswersFacts DEF Scan
  <2>2. QED
    BY <1>1, <2>1, ReturnIInv
<1>3. CASE Live # {}
  <2>1. /\ Owned' /\ OnlyMoves(t) /\ pc'[t] = "hgetall"
        /\ UNCHANGED <<query, held>>
    <3>1. /\ todo' = [todo EXCEPT ![t] = Live] /\ Live \in SUBSET Keys
          /\ pc' = [pc EXCEPT ![t] = "hgetall"] /\ answer' = None
          /\ UNCHANGED <<query, held>>
      BY <1>3 DEF Scan, Go, Live
    <3> HIDE DEF Live
    <3>2. QED
      BY <3>1 DEF IInv, TypeOK, Owned, OnlyMoves, Command
  <2>2. Holds(t)' /\ Untouched(t)' /\ Flushing(t)'
    BY <1>0, <2>1 DEF Holds, Untouched, Flushing, Good, Paired
  <2>3. QED
    BY <1>1, <2>1, <2>2, ThreadStep
<1>4. QED
  BY <1>2, <1>3

(* The best match so far may be held, and served if it passes the guard. *)
LEMMA MatchFacts ==
  ASSUME IInv, NEW t \in Threads, pc[t] = "hgetall", NEW k \in Keys
  PROVE  LET best  == Better(query[t], db[k], held[t])
             found == Match(query[t], best)
         IN /\ best = None \/ Good(best)
            /\ found # None => /\ Good(found)
                               /\ Similarity(query[t], found.key) >= Threshold
                               /\ ~LooksLikeFalseHit(query[t], found.key)
<1>1. /\ db[k] = None \/ Good(db[k])
      /\ held[t] = None \/ Good(held[t])
  BY DEF IInv, Kept, Holds
<1>2. Better(query[t], db[k], held[t]) \in {db[k], held[t]}
  BY DEF Better
<1>3. QED
  BY <1>1, <1>2 DEF Match

LEMMA HgetallIInv ==
  ASSUME IInv, Recorded, NEW t \in Threads, Hgetall(t)
  PROVE  IInv'
<1>0. query[t] \in Queries \ Private /\ pc[t] = "hgetall"
  BY KeyFacts DEF Hgetall, At, Looking
<1>1. Remote' /\ Local'
  BY Parts, RemoteStays, LocalStays DEF Hgetall, store
<1>2. PICK k \in todo[t] :
        LET best == Better(query[t], db[k], held[t])
        IN IF todo[t] = {k}
           THEN Answers(t, Match(query[t], best))
           ELSE /\ held' = [held EXCEPT ![t] = best]
                /\ todo' = [todo EXCEPT ![t] = @ \ {k}]
                /\ answer' = None
                /\ UNCHANGED <<pc, query>>
  BY DEF Hgetall
<1> DEFINE best == Better(query[t], db[k], held[t])
           found == Match(query[t], best)
<1>3. k \in Keys
  BY DEF IInv, TypeOK
<1>4. (best = None \/ Good(best)) /\ (found = None \/ Good(found))
  BY <1>0, <1>3, MatchFacts
<1>5. /\ todo[t] = {k} => Answers(t, found)
      /\ todo[t] # {k} => /\ held' = [held EXCEPT ![t] = best]
                          /\ todo' = [todo EXCEPT ![t] = @ \ {k}]
                          /\ answer' = None
                          /\ UNCHANGED <<pc, query>>
  BY <1>2
<1> HIDE DEF best, found
<1>6. CASE todo[t] = {k}
  <2>1. answer' \in Answer \cup {None} /\ Return(t)
    BY <1>0, <1>4, <1>5, <1>6, AnswersFacts DEF Good
  <2>2. QED
    BY <1>1, <2>1, ReturnIInv
<1>7. CASE todo[t] # {k}
  <2>1. Owned' /\ OnlyMoves(t) /\ pc'[t] = "hgetall" /\ held'[t] = best
    <3>1. /\ best \in Entry \cup {None} /\ todo[t] \ {k} \in SUBSET Keys
          /\ held' = [held EXCEPT ![t] = best]
          /\ todo' = [todo EXCEPT ![t] = todo[t] \ {k}]
          /\ answer' = None /\ UNCHANGED <<pc, query>>
      BY <1>4, <1>5, <1>7 DEF IInv, TypeOK, Good
    <3>2. QED
      BY <1>0, <3>1 DEF IInv, TypeOK, Owned, OnlyMoves
  <2>2. Holds(t)' /\ Untouched(t)' /\ Flushing(t)'
    BY <1>0, <1>4, <1>5, <1>7, <2>1
       DEF Holds, Untouched, Flushing, Good, Paired, Looking
  <2>3. QED
    BY <1>1, <2>1, <2>2, ThreadStep
<1>8. QED
  BY <1>6, <1>7
-----------------------------------------------------------------------------
(* The fallback's methods. *)

(* A replica's fallback after a step, the others being left alone. *)
LEMMA LocalChanges ==
  ASSUME IInv, NEW r \in Replicas, NEW es \in Seq(Entry),
         fallback' = [fallback EXCEPT ![r] = es],
         sets' \in 0..MaxSets,
         promised' \in [Replicas -> [Queries -> 0..Expired]],
         \A p \in Replicas \ {r} : promised'[p] = promised[p],
         \A i \in DOMAIN es : Paired(es[i]),
         \A q \in Queries : promised'[r][q] <= TTL =>
           \E i \in DOMAIN es : es[i].key = q /\ es[i].age <= promised'[r][q]
  PROVE  Local'
<1>1. /\ fallback' \in [Replicas -> Seq(Entry)]
      /\ fallback'[r] = es
      /\ \A p \in Replicas \ {r} : fallback'[p] = fallback[p]
  BY DEF IInv, TypeOK
<1>2. ASSUME NEW p \in Replicas \ {r} PROVE Mirrored(p)'
  <2>1. Mirrored(p) /\ fallback'[p] = fallback[p] /\ promised'[p] = promised[p]
    BY <1>1 DEF IInv
  <2>2. QED
    BY <2>1 DEF Mirrored, Paired
<1>3. Mirrored(r)'
  BY <1>1 DEF Mirrored, Paired
<1>4. QED
  BY <1>1, <1>2, <1>3 DEF Local

LEMMA FallbackEntries ==
  ASSUME IInv, NEW r \in Replicas
  PROVE  /\ fallback[r] \in Seq(Entry)
         /\ Len(fallback[r]) \in Nat /\ DOMAIN fallback[r] = 1..Len(fallback[r])
         /\ \A i \in DOMAIN fallback[r] :
              /\ fallback[r][i] \in Entry
              /\ fallback[r][i].key \in Queries /\ fallback[r][i].age \in 0..Expired
              /\ Paired(fallback[r][i])
         /\ \A q \in Queries : promised[r][q] \in 0..Expired
<1>1. /\ fallback[r] \in Seq(Entry) /\ Mirrored(r)
      /\ \A q \in Queries : promised[r][q] \in 0..Expired
  BY DEF IInv, TypeOK
<1>2. /\ Len(fallback[r]) \in Nat /\ DOMAIN fallback[r] = 1..Len(fallback[r])
      /\ \A i \in DOMAIN fallback[r] : fallback[r][i] \in Entry
  BY <1>1, LenProperties
<1>3. QED
  BY <1>1, <1>2 DEF Mirrored, Entry

(* What is alive in a replica's fallback. *)
Alive(r) == Pruned(fallback[r], 0)

LEMMA AliveFacts ==
  ASSUME IInv, NEW r \in Replicas
  PROVE  /\ Alive(r) \in Seq(Entry)
         /\ \A i \in DOMAIN Alive(r) : /\ Good(Alive(r)[i])
                                       /\ Alive(r)[i].key \in Queries
         /\ \A q \in Queries : promised[r][q] <= TTL =>
              \E i \in DOMAIN Alive(r) :
                Alive(r)[i].key = q /\ Alive(r)[i].age <= promised[r][q]
<1>0. fallback[r] \in Seq(Entry)
  BY FallbackEntries
<1>1. /\ Alive(r) \in Seq(Entry)
      /\ \A j \in DOMAIN Alive(r) :
           /\ Unexpired(Alive(r)[j], 0)
           /\ \E i \in DOMAIN fallback[r] : Alive(r)[j] = fallback[r][i]
      /\ \A i \in DOMAIN fallback[r] :
           Unexpired(fallback[r][i], 0) =>
             \E j \in DOMAIN Alive(r) : Alive(r)[j] = fallback[r][i]
  BY <1>0, PrunedFacts DEF Alive
<1>2. ASSUME NEW j \in DOMAIN Alive(r)
      PROVE  Good(Alive(r)[j]) /\ Alive(r)[j].key \in Queries
  <2>1. PICK i \in DOMAIN fallback[r] : Alive(r)[j] = fallback[r][i]
    BY <1>1
  <2>2. fallback[r][i].age - 0 <= TTL
    BY <1>1, <2>1 DEF Unexpired
  <2>3. fallback[r][i].age <= TTL
    BY <2>2, FallbackEntries, Bounds
  <2>4. QED
    BY <2>1, <2>3, FallbackEntries DEF Good
<1>3. ASSUME NEW q \in Queries, promised[r][q] <= TTL
      PROVE  \E j \in DOMAIN Alive(r) :
               Alive(r)[j].key = q /\ Alive(r)[j].age <= promised[r][q]
  <2>1. PICK i \in DOMAIN fallback[r] :
          fallback[r][i].key = q /\ fallback[r][i].age <= promised[r][q]
    BY <1>3 DEF IInv, Mirrored
  <2>2. fallback[r][i].age - 0 <= TTL
    BY <1>3, <2>1, FallbackEntries, Bounds
  <2>3. PICK j \in DOMAIN Alive(r) : Alive(r)[j] = fallback[r][i]
    BY <1>1, <2>2 DEF Unexpired
  <2>4. QED
    BY <2>1, <2>3
<1>4. QED
  BY <1>1, <1>2, <1>3

(* What an outage leaves to be found. *)
LEMMA FallBackFacts ==
  ASSUME IInv, NEW t \in Threads, FallBack(t)
  PROVE  LET r == ReplicaOf[t]
         IN /\ r \in Replicas /\ query[t] \in Queries
            /\ fallback' = [fallback EXCEPT ![r] = Alive(r)]
            /\ UNCHANGED <<db, sets, promised>>
            /\ \/ Hits(query[t], Alive(r)) = {} /\ Answers(t, None)
               \/ \E i \in Hits(query[t], Alive(r)) : Answers(t, Alive(r)[i])
<1> DEFINE r == ReplicaOf[t]
           hits == Hits(query[t], Alive(r))
<1>1. r \in Replicas /\ query[t] \in Queries
  BY SharedAssumption, KeyFacts DEF FallBack, Looking
<1>2. /\ fallback' = [fallback EXCEPT ![r] = Alive(r)]
      /\ UNCHANGED <<db, sets, promised>>
      /\ Answers(t, IF hits = {} THEN None ELSE Alive(r)[CHOOSE i \in hits : TRUE])
  BY DEF FallBack, Alive
<1> HIDE DEF hits
<1>3. (hits = {} /\ Answers(t, None)) \/ \E i \in hits : Answers(t, Alive(r)[i])
  BY <1>2
<1>4. QED
  BY <1>1, <1>2, <1>3 DEF hits

LEMMA FallBackIInv ==
  ASSUME IInv, Recorded, NEW t \in Threads, FallBack(t)
  PROVE  IInv'
<1> DEFINE r == ReplicaOf[t]
<1>1. /\ r \in Replicas /\ query[t] \in Queries
      /\ fallback' = [fallback EXCEPT ![r] = Alive(r)]
      /\ UNCHANGED <<db, sets, promised>>
      /\ \/ Answers(t, None)
         \/ \E i \in Hits(query[t], Alive(r)) : Answers(t, Alive(r)[i])
  BY FallBackFacts
<1> HIDE DEF r
<1>2. Local'
  BY <1>1, AliveFacts, LocalChanges DEF Good, IInv, TypeOK
<1>3. Remote'
  BY <1>1, Parts, RemoteStays
<1>4. \A i \in Hits(query[t], Alive(r)) : Alive(r)[i] \in Entry
  BY <1>1, AliveFacts, HitFacts DEF Good
<1>5. answer' \in Answer \cup {None} /\ Return(t)
  BY <1>1, <1>4, AnswersFacts
<1>6. QED
  BY <1>2, <1>3, <1>5, ReturnIInv
-----------------------------------------------------------------------------
(* The commands of set. *)
LEMMA BeginSetIInv ==
  ASSUME IInv, Recorded, NEW t \in Threads, NEW q \in Queries, BeginSet(t, q)
  PROVE  IInv'
<1> DEFINE e == NewEntry(q)
           r == ReplicaOf[t]
           es == Append(fallback[r], e)
<1>1. /\ q \in Queries \ Private /\ r \in Replicas
      /\ sets' = sets + 1 /\ sets' \in 1..MaxSets
      /\ promised' = [promised EXCEPT ![r][q] = 0]
      /\ pc' = [pc EXCEPT ![t] = "multi"]
      /\ query' = [query EXCEPT ![t] = q]
      /\ held' = [held EXCEPT ![t] = e]
      /\ fallback' = [fallback EXCEPT ![r] = es]
      /\ answer' = None /\ UNCHANGED <<db, todo>>
  <2>1. q \in Queries \ Private /\ r \in Replicas
    BY SharedAssumption DEF BeginSet
  <2>2. sets' = sets + 1 /\ sets' \in 1..MaxSets
    BY Bounds DEF BeginSet, StartSet, IInv, TypeOK
  <2>3. fallback' = [fallback EXCEPT ![r] = es]
    BY DEF BeginSet, Mirror
  <2>4. /\ promised' = [promised EXCEPT ![r][q] = 0]
        /\ pc' = [pc EXCEPT ![t] = "multi"]
        /\ query' = [query EXCEPT ![t] = q]
        /\ held' = [held EXCEPT ![t] = e]
        /\ answer' = None /\ UNCHANGED <<db, todo>>
    BY DEF BeginSet, StartSet, Go
  <2>5. QED
    BY <2>1, <2>2, <2>3, <2>4
<1>2. /\ e \in Entry /\ Good(e) /\ e.key = q /\ e.age = 0
  <2>1. e = [key |-> q, response |-> sets + 1, metadata |-> sets + 1, age |-> 0]
    BY DEF NewEntry
  <2>2. 0 \in 0..Expired /\ 0 <= TTL /\ sets + 1 \in 1..MaxSets
    BY <1>1, Bounds
  <2> HIDE DEF e
  <2>3. QED
    BY <1>1, <2>1, <2>2 DEF Entry, Good, Paired
<1> HIDE DEF e, r
<1>3. /\ es \in Seq(Entry)
      /\ DOMAIN es = 1..(Len(fallback[r]) + 1)
      /\ es[Len(fallback[r]) + 1] = e
      /\ \A i \in 1..Len(fallback[r]) : es[i] = fallback[r][i]
  <2>1. fallback[r] \in Seq(Entry)
    BY <1>1, FallbackEntries
  <2>2. QED
    BY <1>2, <2>1, AppendProperties, LenProperties
<1> HIDE DEF es
<1>4. /\ promised' \in [Replicas -> [Queries -> 0..Expired]]
      /\ promised'[r][q] = 0
      /\ \A k \in Queries \ {q} : promised'[r][k] = promised[r][k]
      /\ \A p \in Replicas \ {r} : promised'[p] = promised[p]
  BY <1>1, Bounds DEF IInv, TypeOK
<1>5. \A i \in DOMAIN es : Paired(es[i])
  <2> SUFFICES ASSUME NEW i \in DOMAIN es PROVE Paired(es[i])
    OBVIOUS
  <2>1. Len(fallback[r]) \in Nat
    BY <1>1, FallbackEntries
  <2>2. CASE i = Len(fallback[r]) + 1
    BY <1>2, <1>3, <2>2 DEF Good
  <2>3. CASE i # Len(fallback[r]) + 1
    <3>1. i \in DOMAIN fallback[r] /\ es[i] = fallback[r][i]
      BY <1>1, <1>3, <2>1, <2>3, FallbackEntries
    <3>2. QED
      BY <1>1, <3>1, FallbackEntries
  <2>4. QED
    BY <2>2, <2>3
<1>6. ASSUME NEW k \in Queries, promised'[r][k] <= TTL
      PROVE  \E i \in DOMAIN es : es[i].key = k /\ es[i].age <= promised'[r][k]
  <2>0. Len(fallback[r]) \in Nat /\ DOMAIN fallback[r] = 1..Len(fallback[r])
    BY <1>1, FallbackEntries
  <2>1. CASE k = q
    <3>1. Len(fallback[r]) + 1 \in DOMAIN es
      BY <1>3, <2>0
    <3>2. QED
      BY <1>2, <1>3, <1>4, <2>1, <3>1
  <2>2. CASE k # q
    <3>1. PICK i \in DOMAIN fallback[r] :
            fallback[r][i].key = k /\ fallback[r][i].age <= promised[r][k]
      BY <1>1, <1>4, <1>6, <2>2 DEF IInv, Mirrored
    <3>2. i \in DOMAIN es /\ es[i] = fallback[r][i]
      BY <1>3, <2>0, <3>1
    <3>3. QED
      BY <1>4, <2>2, <3>1, <3>2
  <2>3. QED
    BY <2>1, <2>2
<1>7. Local'
  <2>1. sets' \in 0..MaxSets
    BY <1>1
  <2>2. QED
    BY <1>1, <1>3, <1>4, <1>5, <1>6, <2>1, LocalChanges
<1>8. Remote'
  BY <1>1, Parts, RemoteStays
<1>9. /\ Owned' /\ OnlyMoves(t)
      /\ pc'[t] = "multi" /\ query'[t] = q /\ held'[t] = e
  BY <1>1, <1>2 DEF IInv, TypeOK, Owned, OnlyMoves, Command
<1>10. Holds(t)' /\ Untouched(t)' /\ Flushing(t)'
  BY <1>1, <1>2, <1>9 DEF Holds, Untouched, Flushing, Good, Paired, Looking
<1>11. QED
  BY <1>7, <1>8, <1>9, <1>10, ThreadStep

LEMMA RemoteChanges ==
  ASSUME Remote, NEW k \in Keys, NEW e, db' = [db EXCEPT ![k] = e],
         e = None \/ (Good(e) /\ Hash[e.key] = k)
  PROVE  Remote'
<1>1. e \in Entry \cup {None}
  BY DEF Good
<1>2. db' \in [Keys -> Entry \cup {None}] /\ db'[k] = e
      /\ \A j \in Keys \ {k} : db'[j] = db[j]
  BY <1>1 DEF Remote
<1>3. ASSUME NEW j \in Keys \ {k} PROVE Kept(j)'
  <2>1. Kept(j) /\ db'[j] = db[j]
    BY <1>2 DEF Remote
  <2>2. QED
    BY <2>1 DEF Kept, Good, Paired
<1>4. Kept(k)'
  BY <1>2 DEF Kept, Good, Paired
<1>5. QED
  BY <1>2, <1>3, <1>4 DEF Remote

LEMMA MultiIInv ==
  ASSUME IInv, Recorded, NEW t \in Threads, Multi(t)
  PROVE  IInv'
<1> DEFINE h == held[t]
           e == [h EXCEPT !.age = 0]
           k == Hash[query[t]]
<1>1. /\ k \in Keys /\ Good(h) /\ h.key = query[t]
      /\ db' = [db EXCEPT ![k] = e]
      /\ Return(t) /\ answer' = None /\ UNCHANGED <<fallback, sets, promised>>
  BY KeyFacts DEF Multi, At, Written, IInv, Holds
<1> HIDE DEF h
<1>2. Good(e) /\ e.key = h.key
  <2>1. 0 \in 0..Expired /\ 0 <= TTL
    BY Bounds
  <2>2. QED
    BY <1>1, <2>1 DEF Good, Paired, Entry
<1>3. Hash[e.key] = k
  BY <1>1, <1>2
<1> HIDE DEF e, k
<1>4. Remote'
  BY <1>1, <1>2, <1>3, Parts, RemoteChanges
<1>5. Local'
  BY <1>1, Parts, LocalStays
<1>6. QED
  BY <1>1, <1>4, <1>5, ReturnIInv

LEMMA MultiFailsIInv ==
  ASSUME IInv, Recorded, NEW t \in Threads, MultiFails(t)
  PROVE  IInv'
BY Parts, RemoteStays, LocalStays, ReturnIInv DEF MultiFails, store
-----------------------------------------------------------------------------
(* The commands of flush. *)
LEMMA BeginFlushIInv ==
  ASSUME IInv, Recorded, NEW t \in Threads, BeginFlush(t)
  PROVE  IInv'
<1> DEFINE r == ReplicaOf[t]
           none == [q \in Queries |-> Expired]
<1>1. /\ r \in Replicas
      /\ fallback' = [fallback EXCEPT ![r] = <<>>]
      /\ promised' = [promised EXCEPT ![r] = none]
      /\ pc' = [pc EXCEPT ![t] = "flush_scan"]
      /\ answer' = None /\ UNCHANGED <<db, sets, query, held, todo>>
  BY SharedAssumption DEF BeginFlush, Go
<1>2. none \in [Queries -> 0..Expired] /\ \A q \in Queries : ~(none[q] <= TTL)
  BY Bounds
<1> HIDE DEF r, none
<1>3. /\ promised' \in [Replicas -> [Queries -> 0..Expired]]
      /\ promised'[r] = none
      /\ \A p \in Replicas \ {r} : promised'[p] = promised[p]
  BY <1>1, <1>2 DEF IInv, TypeOK
<1>4. <<>> \in Seq(Entry) /\ DOMAIN <<>> = {}
  BY EmptySeq, LenProperties
<1>5. Local'
  <2>1. sets' \in 0..MaxSets
    BY <1>1 DEF IInv, TypeOK
  <2>2. QED
    BY <1>1, <1>2, <1>3, <1>4, <2>1, LocalChanges
<1>6. Remote'
  BY <1>1, Parts, RemoteStays
<1>7. Owned' /\ OnlyMoves(t) /\ pc'[t] = "flush_scan"
  BY <1>1 DEF IInv, TypeOK, Owned, OnlyMoves, Command
<1>8. Holds(t)' /\ Untouched(t)' /\ Flushing(t)'
  BY <1>7 DEF Holds, Untouched, Flushing, Looking
<1>9. QED
  BY <1>5, <1>6, <1>7, <1>8, ThreadStep

LEMMA FlushScanIInv ==
  ASSUME IInv, Recorded, NEW t \in Threads, FlushScan(t)
  PROVE  IInv'
<1>1. Remote' /\ Local'
  BY Parts, RemoteStays, LocalStays DEF FlushScan, store
<1>2. CASE Live = {}
  BY <1>1, <1>2, ReturnIInv DEF FlushScan
<1>3. CASE Live # {}
  <2>1. /\ todo' = [todo EXCEPT ![t] = Live] /\ Live \in SUBSET Keys
        /\ pc' = [pc EXCEPT ![t] = "delete"] /\ answer' = None
        /\ UNCHANGED <<query, held, db>>
    BY <1>3 DEF FlushScan, Go, Live, store
  <2>2. /\ Owned' /\ OnlyMoves(t) /\ pc'[t] = "delete" /\ todo'[t] = Live
    <3> HIDE DEF Live
    <3>1. QED
      BY <2>1 DEF IInv, TypeOK, Owned, OnlyMoves, Command
  <2>3. Holds(t)' /\ Untouched(t)' /\ Flushing(t)'
    BY <2>1, <2>2 DEF Holds, Untouched, Flushing, Looking, Live
  <2>4. QED
    BY <1>1, <2>2, <2>3, ThreadStep
<1>4. QED
  BY <1>2, <1>3

LEMMA DeleteIInv ==
  ASSUME IInv, Recorded, NEW t \in Threads, Delete(t)
  PROVE  IInv'
<1>1. PICK k \in todo[t] :
        /\ db' = [db EXCEPT ![k] = None]
        /\ IF todo[t] = {k}
           THEN Return(t)
           ELSE /\ todo' = [todo EXCEPT ![t] = @ \ {k}]
                /\ UNCHANGED <<pc, query, held>>
  BY DEF Delete
<1>2. pc[t] = "delete" /\ answer' = None /\ UNCHANGED <<fallback, sets, promised>>
  BY DEF Delete, At
<1>3. k \in Keys
  BY DEF IInv, TypeOK
<1>4. Remote' /\ Local'
  BY <1>1, <1>2, <1>3, Parts, RemoteChanges, LocalStays
<1>5. CASE todo[t] = {k}
  BY <1>1, <1>2, <1>4, <1>5, ReturnIInv
<1>6. CASE todo[t] # {k}
  <2>1. /\ Owned' /\ OnlyMoves(t) /\ pc'[t] = "delete"
        /\ todo'[t] = todo[t] \ {k}
    BY <1>1, <1>2, <1>6 DEF IInv, TypeOK, Owned, OnlyMoves
  <2>2. Flushing(t)'
    <3> SUFFICES ASSUME NEW j \in Keys, db'[j] # None
                 PROVE  j \in todo'[t] \/ j \in rewritten'[t]
      BY DEF Flushing
    <3>1. j # k /\ db'[j] = db[j]
      BY <1>1, <1>3 DEF IInv, TypeOK
    <3>2. j \in todo[t] \/ j \in rewritten[t]
      BY <1>2, <3>1 DEF IInv, Flushing
    <3>3. rewritten[t] \subseteq rewritten'[t]
      BY <1>2, <2>1 DEF Recorded, At
    <3>4. QED
      BY <2>1, <3>1, <3>2, <3>3
  <2>3. Holds(t)' /\ Untouched(t)'
    BY <2>1 DEF Holds, Untouched, Looking
  <2>4. QED
    BY <1>4, <2>1, <2>2, <2>3, ThreadStep
<1>7. QED
  BY <1>5, <1>6

LEMMA FlushFailsIInv ==
  ASSUME IInv, Recorded, NEW t \in Threads, FlushFails(t)
  PROVE  IInv'
<1>1. /\ UNCHANGED db \/ \E k \in todo[t] : db' = [db EXCEPT ![k] = None]
      /\ Return(t) /\ answer' = None /\ UNCHANGED <<fallback, sets, promised>>
  BY DEF FlushFails
<1>2. todo[t] \subseteq Keys
  BY DEF IInv, TypeOK
<1>3. Remote' /\ Local'
  BY <1>1, <1>2, Parts, RemoteStays, RemoteChanges, LocalStays
<1>4. QED
  BY <1>1, <1>3, ReturnIInv
-----------------------------------------------------------------------------
LEMMA OlderFacts ==
  ASSUME NEW age \in 0..Expired
  PROVE  /\ Older(age) \in 0..Expired
         /\ Older(age) <= TTL => age <= TTL /\ Older(age) = age + 1
         /\ \A younger \in 0..Expired : younger <= age => Older(younger) <= Older(age)
BY Bounds DEF Older, Expired

LEMMA TickRemote ==
  ASSUME IInv, Tick
  PROVE  Remote'
<1> DEFINE New(k) == IF db[k] = None \/ db[k].age >= TTL THEN None
                     ELSE [db[k] EXCEPT !.age = @ + 1]
<1>1. db' = [k \in Keys |-> New(k)]
  BY DEF Tick
<1>2. ASSUME NEW k \in Keys
      PROVE  New(k) = None \/ (Good(New(k)) /\ Hash[New(k).key] = k)
  <2> DEFINE e == db[k]
  <2>1. e = None \/ (Good(e) /\ Hash[e.key] = k)
    BY DEF IInv, Kept
  <2> HIDE DEF e
  <2>2. CASE e = None \/ e.age >= TTL
    BY <2>2 DEF e
  <2>3. CASE ~(e = None \/ e.age >= TTL)
    <3>1. New(k) = [e EXCEPT !.age = @ + 1]
      BY <2>3 DEF e
    <3>2. /\ e \in Entry /\ Paired(e) /\ Hash[e.key] = k
          /\ e.age + 1 \in 0..Expired /\ e.age + 1 <= TTL
      BY <2>1, <2>3, Bounds DEF Good, Entry
    <3> HIDE DEF New
    <3>3. QED
      BY <3>1, <3>2 DEF Good, Paired, Entry
  <2>4. QED
    BY <2>2, <2>3
<1> HIDE DEF New
<1>3. ASSUME NEW k \in Keys PROVE Kept(k)' /\ db'[k] \in Entry \cup {None}
  BY <1>1, <1>2 DEF Kept, Good, Paired
<1>4. QED
  BY <1>1, <1>3 DEF Remote

LEMMA TickLocal ==
  ASSUME IInv, Tick
  PROVE  Local'
<1> DEFINE Next1(r, i) == [fallback[r][i] EXCEPT !.age = Older(@)]
           es(r) == [i \in DOMAIN fallback[r] |-> Next1(r, i)]
<1>1. /\ fallback' = [r \in Replicas |-> es(r)]
      /\ promised' = [r \in Replicas |-> [q \in Queries |-> Older(promised[r][q])]]
      /\ sets' = sets
  BY DEF Tick
<1>2. ASSUME NEW r \in Replicas, NEW i \in 1..Len(fallback[r])
      PROVE  /\ Next1(r, i) \in Entry /\ Paired(Next1(r, i))
             /\ Next1(r, i).key = fallback[r][i].key
             /\ Next1(r, i).age = Older(fallback[r][i].age)
  <2> DEFINE e == fallback[r][i]
  <2>1. e \in Entry /\ Paired(e) /\ Older(e.age) \in 0..Expired
    BY <1>2, FallbackEntries, OlderFacts
  <2> HIDE DEF e
  <2>2. Next1(r, i) = [e EXCEPT !.age = Older(@)]
    BY DEF e
  <2> HIDE DEF Next1
  <2>3. QED
    BY <2>1, <2>2 DEF Entry, Paired, e
<1>3. ASSUME NEW r \in Replicas
      PROVE  /\ fallback'[r] \in Seq(Entry)
             /\ Len(fallback[r]) \in Nat
             /\ DOMAIN fallback'[r] = 1..Len(fallback[r])
             /\ \A i \in 1..Len(fallback[r]) : fallback'[r][i] = Next1(r, i)
  <2>1. fallback'[r] = [i \in 1..Len(fallback[r]) |-> Next1(r, i)]
        /\ Len(fallback[r]) \in Nat
    BY <1>1, FallbackEntries
  <2> HIDE DEF Next1
  <2>2. fallback'[r] \in Seq(Entry)
    BY <1>2, <2>1
  <2>3. QED
    BY <2>1, <2>2
<1> HIDE DEF Next1, es
<1>4. ASSUME NEW r \in Replicas
      PROVE  Mirrored(r)'
  <2>1. \A i \in DOMAIN fallback'[r] : Paired(fallback'[r][i])
    BY <1>2, <1>3
  <2>2. ASSUME NEW q \in Queries, promised'[r][q] <= TTL
        PROVE  \E i \in DOMAIN fallback'[r] :
                 fallback'[r][i].key = q /\ fallback'[r][i].age <= promised'[r][q]
    <3>1. promised[r][q] \in 0..Expired /\ promised'[r][q] = Older(promised[r][q])
      BY <1>1, FallbackEntries
    <3>2. promised[r][q] <= TTL
      BY <2>2, <3>1, OlderFacts
    <3>3. PICK i \in DOMAIN fallback[r] :
            fallback[r][i].key = q /\ fallback[r][i].age <= promised[r][q]
      BY <3>2 DEF IInv, Mirrored
    <3>4. /\ i \in 1..Len(fallback[r]) /\ i \in DOMAIN fallback'[r]
          /\ fallback[r][i].age \in 0..Expired
      BY <1>3, <3>3, FallbackEntries
    <3>5. Older(fallback[r][i].age) <= Older(promised[r][q])
      BY <3>1, <3>3, <3>4, OlderFacts
    <3>6. QED
      BY <1>2, <1>3, <3>1, <3>3, <3>4, <3>5
  <2>3. QED
    BY <2>1, <2>2 DEF Mirrored, Paired
<1>5. /\ fallback' \in [Replicas -> Seq(Entry)]
      /\ promised' \in [Replicas -> [Queries -> 0..Expired]]
      /\ sets' \in 0..MaxSets
  <2>1. \A r \in Replicas, q \in Queries : Older(promised[r][q]) \in 0..Expired
    BY FallbackEntries, OlderFacts
  <2>2. fallback' \in [Replicas -> Seq(Entry)]
    BY <1>1, <1>3
  <2>3. QED
    BY <1>1, <2>1, <2>2 DEF IInv, TypeOK
<1>6. QED
  BY <1>4, <1>5 DEF Local

LEMMA TickIInv ==
  ASSUME IInv, Recorded, Tick
  PROVE  IInv'
<1>1. UNCHANGED <<pc, query, held, todo>> /\ answer' = None
  BY DEF Tick
<1>2. \A u \in Threads : Holds(u)' /\ Untouched(u)' /\ Flushing(u)'
  BY <1>1, OtherThread
<1>3. Owned'
  BY <1>1 DEF IInv, TypeOK, Owned
<1>4. Remote' /\ Local'
  BY TickRemote, TickLocal
<1>5. TypeOK'
  BY <1>3, <1>4, RecordedTypes DEF IInv, TypeOK, Owned, Remote, Local, Kept, Good
<1>6. QED
  BY <1>2, <1>4, <1>5 DEF IInv, Remote, Local

LEMMA StutterIInv ==
  ASSUME IInv, UNCHANGED vars
  PROVE  IInv'
BY DEF vars, store, IInv, TypeOK, Kept, Good, Paired, Holds, Untouched, Flushing,
       Mirrored

LEMMA NextIInv == IInv /\ [Next]_vars => IInv'
<1> SUFFICES ASSUME IInv, [Next]_vars PROVE IInv'
  OBVIOUS
<1>1. CASE UNCHANGED vars
  BY <1>1, StutterIInv
<1>2. CASE Next
  <2>1. Recorded
    BY <1>2 DEF Next
  <2>2. CASE Tick
    BY <2>1, <2>2, TickIInv
  <2>3. ASSUME NEW t \in Threads, NEW q \in Queries,
               BeginLookup(t, q) \/ BeginSet(t, q)
        PROVE  IInv'
    BY <2>1, <2>3, BeginLookupIInv, BeginSetIInv
  <2>4. ASSUME NEW t \in Threads,
               HgetResponse(t) \/ HgetMetadata(t) \/ Scan(t) \/ Hgetall(t) \/ FallBack(t)
        PROVE  IInv'
    BY <2>1, <2>4, HgetResponseIInv, HgetMetadataIInv, ScanIInv, HgetallIInv, FallBackIInv
  <2>5. ASSUME NEW t \in Threads,
               \/ Multi(t) \/ MultiFails(t)
               \/ BeginFlush(t) \/ FlushScan(t) \/ Delete(t) \/ FlushFails(t)
        PROVE  IInv'
    BY <2>1, <2>5, MultiIInv, MultiFailsIInv, BeginFlushIInv, FlushScanIInv,
       DeleteIInv, FlushFailsIInv
  <2>6. QED
    BY <1>2, <2>2, <2>3, <2>4, <2>5 DEF Next
<1>3. QED
  BY <1>1, <1>2

(* The inductive invariant holds in every reachable state. *)
THEOREM Invariance == Spec => []IInv
BY InitIInv, NextIInv, PTL DEF Spec

(* Every variable keeps its type; in particular nothing private is stored, *)
(* here or there, and every hash in Redis is one that lookup can use.      *)
THEOREM TypeCorrect == Spec => []TypeOK
<1>1. IInv => TypeOK
  BY DEF IInv
<1>2. QED
  BY <1>1, Invariance, PTL
-----------------------------------------------------------------------------
(* What a lookup may return to its caller. *)
Servable(t, found) ==
  /\ answer' = [query |-> query[t], found |-> found]
  /\ found.age <= TTL
  /\ \/ Hash[found.key] = Hash[query[t]]
     \/ Acceptable(query[t], found)
  /\ t \notin overtaken => Paired(found)
  /\ \A u \in Threads \ {t} : pc'[u] = pc[u]

LEMMA AnswersServes ==
  ASSUME IInv, NEW t \in Threads, NEW found, Answers(t, found), answer' # None
  PROVE  /\ found # None
         /\ answer' = [query |-> query[t], found |-> found]
         /\ \A u \in Threads \ {t} : pc'[u] = pc[u]
BY DEF Answers, Return, Go, IInv, TypeOK

LEMMA GoodMatchIsServable ==
  ASSUME IInv, NEW t \in Threads, NEW found, Answers(t, found), answer' # None,
         Good(found), Similarity(query[t], found.key) >= Threshold,
         ~LooksLikeFalseHit(query[t], found.key)
  PROVE  Servable(t, found)
BY AnswersServes DEF Servable, Acceptable, Good

LEMMA WhatIsServed ==
  ASSUME IInv, Next, answer' # None
  PROVE  \E t \in Threads : \E found : Servable(t, found)
<1>1. PICK t \in Threads : HgetMetadata(t) \/ Scan(t) \/ Hgetall(t) \/ FallBack(t)
  BY DEF Next, Tick, BeginLookup, HgetResponse, BeginSet, StartSet, Multi,
         MultiFails, BeginFlush, FlushScan, Delete, FlushFails
<1>2. CASE HgetMetadata(t)
  BY <1>2, HgetMetadataFacts, AnswersServes DEF Servable
<1>3. CASE Scan(t)
  BY <1>3, AnswersServes DEF Scan
<1>4. CASE Hgetall(t)
  <2>1. pc[t] = "hgetall"
    BY <1>4 DEF Hgetall, At
  <2>2. PICK k \in todo[t] :
          LET best == Better(query[t], db[k], held[t])
          IN IF todo[t] = {k} THEN Answers(t, Match(query[t], best))
             ELSE answer' = None
    BY <1>4 DEF Hgetall
  <2> DEFINE found == Match(query[t], Better(query[t], db[k], held[t]))
  <2>3. k \in Keys /\ Answers(t, found)
    BY <2>2 DEF IInv, TypeOK
  <2>4. found # None => /\ Good(found)
                        /\ Similarity(query[t], found.key) >= Threshold
                        /\ ~LooksLikeFalseHit(query[t], found.key)
    BY <2>1, <2>3, MatchFacts
  <2> HIDE DEF found
  <2>5. QED
    BY <2>3, <2>4, AnswersServes, GoodMatchIsServable
<1>5. CASE FallBack(t)
  <2> DEFINE live == Alive(ReplicaOf[t])
  <2>1. /\ ReplicaOf[t] \in Replicas
        /\ Answers(t, None) \/ \E i \in Hits(query[t], live) : Answers(t, live[i])
    BY <1>5, FallBackFacts
  <2>2. PICK i \in Hits(query[t], live) : Answers(t, live[i])
    BY <2>1, AnswersServes
  <2>3. /\ i \in DOMAIN live
        /\ Similarity(query[t], live[i].key) >= Threshold
        /\ ~LooksLikeFalseHit(query[t], live[i].key)
    BY HitFacts
  <2>4. Good(live[i])
    BY <2>1, <2>3, AliveFacts
  <2>5. QED
    BY <2>2, <2>3, <2>4, GoodMatchIsServable
<1>6. QED
  BY <1>1, <1>2, <1>3, <1>4, <1>5

(* Whatever is served is the same question, or a similar one about the     *)
(* same numbers, and was alive when it was read: on the exact path, in the *)
(* scan that mixes several states of the cache, and from the fallback.     *)
THEOREM WhatIsServedIsAcceptable == Spec => []ServesAcceptable
<1>1. Init => ServesAcceptable
  BY DEF Init, ServesAcceptable
<1>2. ASSUME IInv, ServesAcceptable, [Next]_vars
      PROVE  ServesAcceptable'
  <2>1. CASE UNCHANGED vars
    BY <1>2, <2>1 DEF ServesAcceptable, Acceptable, vars
  <2>2. CASE Next /\ answer' # None
    <3>1. PICK t \in Threads : \E found : Servable(t, found)
      BY <1>2, <2>2, WhatIsServed
    <3>2. QED
      BY <3>1 DEF Servable, ServesAcceptable, Acceptable
  <2>3. QED
    BY <1>2, <2>1, <2>2 DEF ServesAcceptable
<1>3. QED
  BY <1>1, <1>2, Invariance, PTL DEF Spec

(* A hit returns a response with its own metadata, unless the entry was    *)
(* replaced or removed between the two commands that read them.            *)
THEOREM MetadataIsPaired == Spec => PairedUnlessOvertaken
<1>1. ASSUME IInv, [Next]_vars, NEW t \in Threads,
             pc[t] \in Command, pc'[t] = "idle", t \notin overtaken,
             answer' # None
      PROVE  answer'.found.metadata = answer'.found.response
  <2>1. Next /\ pc'[t] # pc[t]
    BY <1>1 DEF vars, Command
  <2>2. PICK u \in Threads : \E found : Servable(u, found)
    BY <1>1, <2>1, WhatIsServed
  <2>3. u = t
    BY <2>1, <2>2 DEF Servable
  <2>4. QED
    BY <1>1, <2>2, <2>3 DEF Servable, Paired
<1>2. IInv /\ [Next]_vars =>
        \A t \in Threads :
          /\ pc[t] \in Command /\ pc'[t] = "idle" /\ t \notin overtaken
          /\ answer' # None
          => answer'.found.metadata = answer'.found.response
  BY <1>1
<1>3. QED
  BY <1>2, Invariance, PTL DEF Spec, PairedUnlessOvertaken

(* A replica that Redis fails finds what it has stored itself, until that  *)
(* expires or the replica flushes it.                                      *)
THEOREM OutagesAreSurvived == Spec => SurvivesOutage
<1>1. ASSUME IInv, NEW t \in Threads, FallBack(t),
             promised[ReplicaOf[t]][query[t]] <= TTL
      PROVE  answer' # None
  <2> DEFINE live == Alive(ReplicaOf[t])
  <2>1. /\ ReplicaOf[t] \in Replicas /\ query[t] \in Queries
        /\ \/ Hits(query[t], live) = {}
           \/ \E i \in Hits(query[t], live) : Answers(t, live[i])
    BY <1>1, FallBackFacts
  <2>2. /\ live \in Seq(Entry)
        /\ \A i \in DOMAIN live : Good(live[i]) /\ live[i].key \in Queries
        /\ \E i \in DOMAIN live : live[i].key = query[t]
    BY <1>1, <2>1, AliveFacts
  <2> HIDE DEF live
  <2>3. Hits(query[t], live) # {}
    BY <2>1, <2>2, OwnEntryIsHit
  <2>4. PICK i \in Hits(query[t], live) : Answers(t, live[i])
    BY <2>1, <2>3
  <2>5. live[i] \in Entry /\ live[i] # None
    BY <2>2, HitFacts, NoneAssumption DEF Good
  <2>6. answer' = [query |-> query[t], found |-> live[i]]
    BY <2>4, <2>5 DEF Answers
  <2>7. answer' \in Answer
    BY <2>1, <2>5, <2>6 DEF Answer
  <2>8. QED
    BY <2>7, NoneAssumption
<1>2. IInv /\ [Next]_vars =>
        \A t \in Threads :
          FallBack(t) /\ promised[ReplicaOf[t]][query[t]] <= TTL
            => answer' # None
  BY <1>1
<1>3. QED
  BY <1>2, Invariance, PTL DEF Spec, SurvivesOutage

(* A flush that meets no error has removed whatever Redis held when it     *)
(* scanned, though other replicas write, delete and flush meanwhile.       *)
THEOREM FlushesForget == Spec => FlushForgets
<1>1. ASSUME IInv, NEW t \in Threads, FlushScan(t) \/ Delete(t), pc'[t] = "idle",
             NEW k \in Keys, db'[k] # None
      PROVE  k \in rewritten[t]
  <2>1. CASE FlushScan(t)
    <3>1. Live = {} /\ db' = db
      BY <1>1, <2>1 DEF FlushScan, Go, store, IInv, TypeOK
    <3>2. QED
      BY <1>1, <3>1 DEF Live
  <2>2. CASE Delete(t)
    <3>1. PICK j \in todo[t] :
            /\ db' = [db EXCEPT ![j] = None]
            /\ todo[t] = {j} \/ pc' = pc
      BY <2>2 DEF Delete
    <3>2. pc[t] = "delete" /\ j \in Keys
      BY <1>1, <2>2 DEF Delete, At, IInv, TypeOK
    <3>3. todo[t] = {j}
      BY <1>1, <3>1, <3>2
    <3>4. k # j /\ db[k] # None
      BY <1>1, <3>1, <3>2 DEF IInv, TypeOK
    <3>5. QED
      BY <1>1, <3>2, <3>3, <3>4 DEF IInv, Flushing
  <2>3. QED
    BY <1>1, <2>1, <2>2
<1>2. IInv /\ [Next]_vars =>
        \A t \in Threads :
          (FlushScan(t) \/ Delete(t)) /\ pc'[t] = "idle"
            => {k \in Keys : db'[k] # None} \subseteq rewritten[t]
  BY <1>1
<1>3. QED
  BY <1>2, Invariance, PTL DEF Spec, FlushForgets
=============================================================================
