-------------------------- MODULE SharedRedisCache --------------------------
(***************************************************************************)
(* SharedRedisCache (cache.py): replicas of the gateway share one Redis,   *)
(* and each mirrors what it stores in a local ResponseCache, its fallback. *)
(* An action is one Redis command or one fallback method; between two of   *)
(* them the other threads and replicas go on and time passes.  Any command *)
(* may end in a RedisError, whether or not the server has carried it out.  *)
(*                                                                         *)
(* Abstractions of data, besides those of CacheMatching: a response, and   *)
(* the metadata stored with it, are the number of the set call they come   *)
(* from; a SCAN returns all keys at once; the fallback's methods are       *)
(* atomic (ResponseCache has their interleavings); the audit log and the   *)
(* scores that are returned are left out.                                  *)
(***************************************************************************)
EXTENDS CacheMatching

CONSTANTS
  Threads,
  Replicas,
  ReplicaOf,   \* ReplicaOf[t]: the replica that t is a thread of
  Keys,
  Hash,        \* Hash[q]: the key of q, by _query_hash
  MaxSets,     \* how many answers are stored
  None         \* no entry, no query, no metadata

(* _query_hash drops case and outer blanks, in which no number differs. *)
ASSUME SharedAssumption ==
  /\ ReplicaOf \in [Threads -> Replicas]
  /\ Hash \in [Queries \ Private -> Keys]
  /\ \A q, k \in Queries \ Private : Hash[q] = Hash[k] => Numbers[q] = Numbers[k]
  /\ MaxSets \in Nat

VARIABLES
  db,         \* db[k]: the hash that Redis keeps under k
  fallback,   \* fallback[r]: the entries of the replica's _fallback
  pc,         \* pc[t]: the command that thread t sends next
  query,      \* query[t]: what it looks up or sets
  held,       \* held[t]: the entry it has found, or is going to write
  todo,       \* todo[t]: the keys it has still to read or to delete
  sets,       \* the number of set calls
  answer,     \* what the last step was, if it was a hit that returned
  \* History:
  promised,   \* promised[r][q]: age of r's last entry for q, not flushed
  overtaken,  \* threads whose key was changed between their two HGETs
  rewritten   \* rewritten[t]: keys written since thread t's flush has scanned

store == <<db, fallback, sets, promised>>
vars == <<store, pc, query, held, todo, answer, overtaken, rewritten>>

Expired == TTL + 1

Entry == [key : Queries \ Private, response : 1..MaxSets,
          metadata : (1..MaxSets) \cup {None}, age : 0..Expired]

Command == {"hget_response", "hget_metadata", "scan", "hgetall",
            "multi", "flush_scan", "delete"}

(* Of an answer: who asked what, and the entry as it was read. *)
Answer == [query : Queries, found : Entry]

ASSUME NoneAssumption == None \notin Answer \cup Entry

TypeOK ==
  /\ db \in [Keys -> Entry \cup {None}]
  /\ \A k \in Keys : db[k] # None => Hash[db[k].key] = k /\ db[k].age <= TTL
  /\ fallback \in [Replicas -> Seq(Entry)]
  /\ pc \in [Threads -> Command \cup {"idle"}]
  /\ query \in [Threads -> Queries \cup {None}]
  /\ held \in [Threads -> Entry \cup {None}]
  /\ todo \in [Threads -> SUBSET Keys]
  /\ sets \in 0..MaxSets
  /\ answer \in Answer \cup {None}
  /\ promised \in [Replicas -> [Queries -> 0..Expired]]
  /\ overtaken \in SUBSET Threads
  /\ rewritten \in [Threads -> SUBSET Keys]

Init ==
  /\ db = [k \in Keys |-> None]
  /\ fallback = [r \in Replicas |-> <<>>]
  /\ pc = [t \in Threads |-> "idle"]
  /\ query = [t \in Threads |-> None]
  /\ held = [t \in Threads |-> None]
  /\ todo = [t \in Threads |-> {}]
  /\ sets = 0
  /\ answer = None
  /\ promised = [r \in Replicas |-> [q \in Queries |-> Expired]]
  /\ overtaken = {}
  /\ rewritten = [t \in Threads |-> {}]
-----------------------------------------------------------------------------
At(t, point) == pc[t] = point
Go(t, point) == pc' = [pc EXCEPT ![t] = point]

Live == {k \in Keys : db[k] # None}

(* The method returns. *)
Return(t) ==
  /\ Go(t, "idle")
  /\ query' = [query EXCEPT ![t] = None]
  /\ held' = [held EXCEPT ![t] = None]
  /\ todo' = [todo EXCEPT ![t] = {}]

(* The lookup returns an answer, or None. *)
Answers(t, found) ==
  /\ answer' = IF found = None THEN None
               ELSE [query |-> query[t], found |-> found]
  /\ Return(t)

(* The first command of lookup; private queries get no further. *)
BeginLookup(t, q) ==
  /\ At(t, "idle") /\ q \notin Private
  /\ Go(t, "hget_response")
  /\ query' = [query EXCEPT ![t] = q]
  /\ answer' = None
  /\ UNCHANGED <<store, held, todo>>

HgetResponse(t) ==
  /\ At(t, "hget_response")
  /\ LET e == db[Hash[query[t]]]
     IN /\ held' = [held EXCEPT ![t] = e]
        /\ Go(t, IF e = None THEN "scan" ELSE "hget_metadata")
  /\ answer' = None
  /\ UNCHANGED <<store, query, todo>>

(* The metadata of the same key, whatever is there by now. *)
HgetMetadata(t) ==
  /\ At(t, "hget_metadata")
  /\ LET e == db[Hash[query[t]]]
     IN Answers(t, [held[t] EXCEPT !.metadata =
                      IF e = None THEN None ELSE e.metadata])
  /\ UNCHANGED store

Scan(t) ==
  /\ At(t, "scan")
  /\ IF Live = {}
     THEN Answers(t, None)
     ELSE /\ todo' = [todo EXCEPT ![t] = Live]
          /\ Go(t, "hgetall")
          /\ answer' = None
          /\ UNCHANGED <<query, held>>
  /\ UNCHANGED store

(* The better of two matches; of equals the one that came first. *)
Better(q, e, best) ==
  IF /\ e # None
     /\ Similarity(q, e.key) > IF best = None THEN 0 ELSE Similarity(q, best.key)
  THEN e ELSE best

(* The best match, if it is close enough and passes the guard. *)
(* Mutant: the guard is left out here. *)
MatchUnguarded(q, e) ==
  IF e # None /\ Similarity(q, e.key) >= Threshold THEN e ELSE None
Match(q, e) ==
  IF /\ e # None
     /\ Similarity(q, e.key) >= Threshold
     /\ ~LooksLikeFalseHit(q, e.key)
  THEN e ELSE None

(* One reply of the pipeline, that of a key which has vanished being       *)
(* empty; the last one decides.                                            *)
Hgetall(t) ==
  /\ At(t, "hgetall")
  /\ \E k \in todo[t] :
       LET best == Better(query[t], db[k], held[t])
       IN IF todo[t] = {k}
          THEN Answers(t, Match(query[t], best))
          ELSE /\ held' = [held EXCEPT ![t] = best]
               /\ todo' = [todo EXCEPT ![t] = @ \ {k}]
               /\ answer' = None
               /\ UNCHANGED <<pc, query>>
  /\ UNCHANGED store

(* RedisError in lookup: the replica's own fallback answers. *)
FallBack(t) ==
  /\ pc[t] \in {"hget_response", "hget_metadata", "scan", "hgetall"}
  /\ LET r    == ReplicaOf[t]
         live == Pruned(fallback[r], 0)
         hits == Hits(query[t], live)
     IN /\ fallback' = [fallback EXCEPT ![r] = live]
        /\ Answers(t, IF hits = {} THEN None
                      ELSE live[CHOOSE i \in hits : TRUE])
  /\ UNCHANGED <<db, sets, promised>>
-----------------------------------------------------------------------------
NewEntry(q) ==
  [key |-> q, response |-> sets + 1, metadata |-> sets + 1, age |-> 0]

StartSet(t, q) ==
  /\ At(t, "idle")
  /\ sets < MaxSets
  /\ sets' = sets + 1
  /\ promised' = [promised EXCEPT ![ReplicaOf[t]][q] = 0]
  /\ Go(t, "multi")
  /\ query' = [query EXCEPT ![t] = q]
  /\ held' = [held EXCEPT ![t] = NewEntry(q)]
  /\ answer' = None
  /\ UNCHANGED <<db, todo>>

Mirror(t, q) ==
  fallback' = [fallback EXCEPT ![ReplicaOf[t]] = Append(@, NewEntry(q))]

(* set up to its transaction: the local copy is there whatever follows.    *)
(* Mutants: private queries are stored as well; the local copy is left to  *)
(* the outage, which finds it too late.                                    *)
BeginSetAnyway(t, q) == StartSet(t, q) /\ Mirror(t, q)
BeginSetRemotely(t, q) == q \notin Private /\ StartSet(t, q) /\ UNCHANGED fallback
BeginSet(t, q) == q \notin Private /\ StartSet(t, q) /\ Mirror(t, q)

(* HSET and EXPIRE in one transaction: the hash is replaced. *)
(* Mutant: the metadata is left out of the mapping, so an old one stays.   *)
WrittenBare(e, old) ==
  [e EXCEPT !.age = 0, !.metadata = IF old = None THEN None ELSE old.metadata]
Written(e, old) == [e EXCEPT !.age = 0]

Multi(t) ==
  /\ At(t, "multi")
  /\ db' = [db EXCEPT ![Hash[query[t]]] = Written(held[t], @)]
  /\ answer' = None
  /\ Return(t)
  /\ UNCHANGED <<fallback, sets, promised>>

(* RedisError in set is swallowed; if only the reply was lost, this is     *)
(* Multi.                                                                  *)
MultiFails(t) ==
  /\ At(t, "multi")
  /\ answer' = None
  /\ Return(t)
  /\ UNCHANGED store

BeginFlush(t) ==
  /\ At(t, "idle")
  /\ fallback' = [fallback EXCEPT ![ReplicaOf[t]] = <<>>]
  /\ promised' = [promised EXCEPT ![ReplicaOf[t]] = [q \in Queries |-> Expired]]
  /\ Go(t, "flush_scan")
  /\ answer' = None
  /\ UNCHANGED <<db, sets, query, held, todo>>

FlushScan(t) ==
  /\ At(t, "flush_scan")
  /\ IF Live = {}
     THEN Return(t)
     ELSE /\ todo' = [todo EXCEPT ![t] = Live]
          /\ Go(t, "delete")
          /\ UNCHANGED <<query, held>>
  /\ answer' = None
  /\ UNCHANGED store

(* One key is deleted, and the next one is its turn. *)
(* Mutant: the loop ends after one. *)
DeleteOne(t) ==
  /\ At(t, "delete")
  /\ \E k \in todo[t] : db' = [db EXCEPT ![k] = None]
  /\ Return(t)
  /\ answer' = None
  /\ UNCHANGED <<fallback, sets, promised>>
Delete(t) ==
  /\ At(t, "delete")
  /\ \E k \in todo[t] :
       /\ db' = [db EXCEPT ![k] = None]
       /\ IF todo[t] = {k}
          THEN Return(t)
          ELSE /\ todo' = [todo EXCEPT ![t] = @ \ {k}]
               /\ UNCHANGED <<pc, query, held>>
  /\ answer' = None
  /\ UNCHANGED <<fallback, sets, promised>>

(* RedisError in flush: what is left stays, with or without the key that   *)
(* was being deleted. *)
FlushFails(t) ==
  /\ pc[t] \in {"flush_scan", "delete"}
  /\ \/ UNCHANGED db
     \/ \E k \in todo[t] : db' = [db EXCEPT ![k] = None]
  /\ Return(t)
  /\ answer' = None
  /\ UNCHANGED <<fallback, sets, promised>>
-----------------------------------------------------------------------------
Older(age) == IF age < Expired THEN age + 1 ELSE age

(* Redis drops a key once its time to live is over; the fallback keeps its *)
(* entries until a lookup prunes them. *)
Tick ==
  /\ db' = [k \in Keys |->
              IF db[k] = None \/ db[k].age >= TTL THEN None
              ELSE [db[k] EXCEPT !.age = @ + 1]]
  /\ fallback' = [r \in Replicas |->
                    [i \in DOMAIN fallback[r] |->
                       [fallback[r][i] EXCEPT !.age = Older(@)]]]
  /\ promised' = [r \in Replicas |-> [q \in Queries |-> Older(promised[r][q])]]
  /\ <<db, fallback>>' # <<db, fallback>>
  /\ answer' = None
  /\ UNCHANGED <<sets, pc, query, held, todo>>

(* What the history variables record of a step. *)
Changed(k) ==
  \/ db[k] # None /\ db'[k] = None
  \/ db'[k] # None /\ (IF db[k] = None THEN TRUE
                       ELSE db'[k].response # db[k].response)
Recorded ==
  /\ overtaken' = {t \in Threads :
                     /\ pc'[t] = "hget_metadata" /\ At(t, "hget_metadata")
                     /\ t \in overtaken \/ Changed(Hash[query[t]])}
  /\ rewritten' = [t \in Threads |->
                     IF At(t, "delete") /\ pc'[t] = "delete"
                     THEN rewritten[t] \cup {k \in Keys : Changed(k) /\ db'[k] # None}
                     ELSE {}]

Next ==
  /\ \/ \E t \in Threads :
          \/ \E q \in Queries : BeginLookup(t, q) \/ BeginSet(t, q)
          \/ HgetResponse(t) \/ HgetMetadata(t) \/ Scan(t) \/ Hgetall(t)
          \/ FallBack(t)
          \/ Multi(t) \/ MultiFails(t)
          \/ BeginFlush(t) \/ FlushScan(t) \/ Delete(t) \/ FlushFails(t)
     \/ Tick
  /\ Recorded

Spec == Init /\ [][Next]_vars
-----------------------------------------------------------------------------
(* Whichever replica has stored it, and whichever of its three paths the   *)
(* lookup has taken, what is served is the same question, or a similar one *)
(* about the same numbers, and was alive when it was read.                 *)
ServesAcceptable ==
  answer # None =>
    /\ answer.found.age <= TTL
    /\ \/ Hash[answer.found.key] = Hash[answer.query]
       \/ Acceptable(answer.query, answer.found)

(* What a replica has stored it finds again though Redis fails, until it   *)
(* expires or the replica itself flushes it: Writes are mirrored locally   *)
(* so that outages degrade to the memory cache.                            *)
SurvivesOutage ==
  [][\A t \in Threads :
       FallBack(t) /\ promised[ReplicaOf[t]][query[t]] <= TTL
         => answer' # None]_vars

(* The metadata that a hit returns, which the gateway takes the saved cost *)
(* from, is that of the response it returns, unless another replica has    *)
(* replaced or removed the entry between the two HGETs.                    *)
PairedUnlessOvertaken ==
  [][\A t \in Threads :
       /\ pc[t] \in Command /\ pc'[t] = "idle" /\ t \notin overtaken
       /\ answer' # None
       => answer'.found.metadata = answer'.found.response]_vars

(* A flush that returns without an error has removed every entry that      *)
(* Redis had when it scanned; what is left was written since.              *)
FlushForgets ==
  [][\A t \in Threads :
       (FlushScan(t) \/ Delete(t)) /\ pc'[t] = "idle"
         => {k \in Keys : db'[k] # None} \subseteq rewritten[t]]_vars
=============================================================================
