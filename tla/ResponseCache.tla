--------------------------- MODULE ResponseCache ---------------------------
(***************************************************************************)
(* The in-memory ResponseCache (cache.py) under several threads.  lookup   *)
(* and set read the clock before they take the lock, so time passes, and   *)
(* other threads get in, between the two.                                  *)
(*                                                                         *)
(* A value and its metadata are the entry they are part of; an entry's     *)
(* age is counted up to MaxAge.  The audit log is left out.                *)
(***************************************************************************)
EXTENDS CacheMatching

CONSTANTS
  Threads,
  MaxWait,      \* how long a thread may wait for the lock
  MaxEntries,   \* how many entries the model lets the list grow to
  None          \* no query, no answer

ASSUME BoundsAssumption == {MaxWait, MaxEntries} \subseteq Nat \ {0}

ASSUME NoneAssumption == None \notin [key : Queries, age : Int]

VARIABLES
  entries,   \* _entries
  pc,        \* pc[t]: is t about to look up or to set a query
  query,     \* query[t]: that query
  waited,    \* waited[t]: the clock ticks since t read the clock
  answer     \* what the last step was, if it was a lookup that returned

vars == <<entries, pc, query, waited, answer>>

MaxAge == TTL + MaxWait + 1

Entry == [key : Queries \ Private, age : 0..MaxAge]

(* Of an answer: who asked what and which entry was found, its age being   *)
(* that at the time of asking.                                             *)
Answer == [query : Queries, found : [key : Queries, age : Int] \cup {None}]

TypeOK ==
  /\ entries \in Seq(Entry) /\ Len(entries) <= MaxEntries
  /\ pc \in [Threads -> {"idle", "lookup", "set"}]
  /\ query \in [Threads -> Queries \cup {None}]
  /\ waited \in [Threads -> 0..MaxWait]
  /\ answer \in Answer \cup {None}

Init ==
  /\ entries = <<>>
  /\ pc = [t \in Threads |-> "idle"]
  /\ query = [t \in Threads |-> None]
  /\ waited = [t \in Threads |-> 0]
  /\ answer = None
-----------------------------------------------------------------------------
(* A thread enters lookup or set and reads the clock.  Both return at once *)
(* from a private query.                                                   *)
(* Mutant: they do not.                                                    *)
EnterAnyway(t, method, q) ==
  /\ pc[t] = "idle"
  /\ pc' = [pc EXCEPT ![t] = method]
  /\ query' = [query EXCEPT ![t] = q]
  /\ answer' = None
  /\ UNCHANGED <<entries, waited>>
Enter(t, method, q) ==
  /\ pc[t] = "idle"
  /\ q \notin Private
  /\ pc' = [pc EXCEPT ![t] = method]
  /\ query' = [query EXCEPT ![t] = q]
  /\ answer' = None
  /\ UNCHANGED <<entries, waited>>

(* It leaves the method. *)
Leave(t) ==
  /\ pc' = [pc EXCEPT ![t] = "idle"]
  /\ query' = [query EXCEPT ![t] = None]
  /\ waited' = [waited EXCEPT ![t] = 0]

(* lookup's locked section. *)
Lookup(t) ==
  /\ pc[t] = "lookup"
  /\ entries' = Pruned(entries, waited[t])
  /\ LET hits == Hits(query[t], entries')
     IN answer' = [query |-> query[t],
                   found |-> IF hits = {} THEN None
                             ELSE LET e == entries'[CHOOSE i \in hits : TRUE]
                                  IN [e EXCEPT !.age = @ - waited[t]]]
  /\ Leave(t)

(* set's locked section. *)
Set(t) ==
  /\ pc[t] = "set"
  /\ Len(entries) < MaxEntries
  /\ entries' = Append(entries, [key |-> query[t], age |-> waited[t]])
  /\ answer' = None
  /\ Leave(t)

Clear ==
  /\ entries # <<>>
  /\ entries' = <<>>
  /\ answer' = None
  /\ UNCHANGED <<pc, query, waited>>

Tick ==
  /\ \A t \in Threads : pc[t] # "idle" => waited[t] < MaxWait
  /\ entries' = [i \in DOMAIN entries |->
                   [entries[i] EXCEPT !.age = IF @ < MaxAge THEN @ + 1 ELSE @]]
  /\ waited' = [t \in Threads |-> IF pc[t] = "idle" THEN 0 ELSE waited[t] + 1]
  /\ answer' = None
  /\ UNCHANGED <<pc, query>>

Next ==
  \/ \E t \in Threads :
       \/ \E q \in Queries : Enter(t, "lookup", q) \/ Enter(t, "set", q)
       \/ Lookup(t)
       \/ Set(t)
  \/ Clear
  \/ Tick

Spec == Init /\ [][Next]_vars
-----------------------------------------------------------------------------
(* Whatever was stored in whatever order, and however long the thread has  *)
(* waited for the lock, what is served is similar enough, about the same   *)
(* numbers, and was alive when it was asked for.                           *)
ServesAcceptable ==
  answer # None /\ answer.found # None
    => Acceptable(answer.query, answer.found)

(* A query's own live entry is never hidden from it, neither by the guard  *)
(* nor by a better or older match of another query.                        *)
OwnAnswerIsFound ==
  [][\A t \in Threads :
       /\ pc[t] = "lookup" /\ pc'[t] = "idle"
       /\ \E i \in DOMAIN entries :
            entries[i].key = query[t] /\ Unexpired(entries[i], waited[t])
       => answer'.found # None]_vars

(* No entry is lost before its time, whatever clock the thread that prunes *)
(* has read: a method keeps every entry that is alive.                     *)
NothingLiveIsDropped ==
  [][(\E t \in Threads : pc'[t] # pc[t]) =>
       \A i \in DOMAIN entries : entries[i].age <= TTL =>
         \E j \in DOMAIN entries' : entries'[j] = entries[i]]_vars
-----------------------------------------------------------------------------
(* lookup finds a match whenever there is an acceptable one. *)
BestGuardedMatch ==
  [][\A t \in Threads :
       /\ pc[t] = "lookup" /\ pc'[t] = "idle"
       /\ \E i \in DOMAIN entries' :
            Acceptable(query[t], entries'[i])
       => answer'.found # None]_vars
=============================================================================
