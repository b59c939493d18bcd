----------------------------- MODULE KeyedMutex -----------------------------
(***************************************************************************)
(* The reference-counted lock per key (httpapi/keyed_mutex.go) that        *)
(* serialises one user's create and clone requests.                        *)
(*                                                                         *)
(* A lock object is found or allocated, and its reference counted, under   *)
(* the map's own mutex (one step); it is then locked outside that mutex,   *)
(* and released in two steps again: unlock the object, then drop the       *)
(* reference and with the last one the map entry.  Between those steps     *)
(* other goroutines find, wait for and drop the same object.               *)
(***************************************************************************)
EXTENDS Integers, FiniteSets

CONSTANTS
  Procs,   \* request goroutines
  Keys,    \* user ids
  Locks,   \* lock objects, collected and reused when nothing refers to them
  Nothing

ASSUME MutexAssumption ==
  IsFiniteSet(Procs) /\ Nothing \notin Procs /\ Nothing \notin Keys /\ Nothing \notin Locks

VARIABLES
  locks,    \* the map: per key a lock object, or Nothing for no entry
  refs,     \* per lock object: its reference count
  holder,   \* per lock object: the goroutine that locked it, or Nothing
  pc,       \* per goroutine: "idle", "waiting", "held" or "releasing"
  key,      \* per goroutine: the key it asked for
  mine      \* per goroutine: the lock object it was given

mutexVars == <<locks, refs, holder, pc, key, mine>>

MutexInit ==
  /\ locks = [k \in Keys |-> Nothing]
  /\ refs = [l \in Locks |-> 0]
  /\ holder = [l \in Locks |-> Nothing]
  /\ pc = [p \in Procs |-> "idle"]
  /\ key = [p \in Procs |-> Nothing]
  /\ mine = [p \in Procs |-> Nothing]

Unreachable(l) ==
  /\ \A k \in Keys : locks[k] # l
  /\ \A p \in Procs : mine[p] # l

\* lock, first half: find or create the entry and count the reference.
Enlist(p, k) ==
  /\ pc[p] = "idle"
  /\ \E l \in Locks :
       /\ IF locks[k] = Nothing THEN Unreachable(l) ELSE l = locks[k]
       /\ locks' = [locks EXCEPT ![k] = l]
       /\ refs' = [refs EXCEPT ![l] = IF locks[k] = Nothing THEN 1 ELSE @ + 1]
       /\ mine' = [mine EXCEPT ![p] = l]
  /\ key' = [key EXCEPT ![p] = k]
  /\ pc' = [pc EXCEPT ![p] = "waiting"]
  /\ UNCHANGED holder

\* A busy lock sends the request away (TryLock).
AcquireOrLeave(p) ==
  /\ pc[p] = "waiting"
  /\ IF holder[mine[p]] = Nothing
     THEN /\ holder' = [holder EXCEPT ![mine[p]] = p]
          /\ pc' = [pc EXCEPT ![p] = "held"]
     ELSE pc' = [pc EXCEPT ![p] = "releasing"] /\ UNCHANGED holder
  /\ UNCHANGED <<locks, refs, key, mine>>

\* lock, second half: l.mu.Lock()
Acquire(p) ==
  /\ pc[p] = "waiting"
  /\ holder[mine[p]] = Nothing
  /\ holder' = [holder EXCEPT ![mine[p]] = p]
  /\ pc' = [pc EXCEPT ![p] = "held"]
  /\ UNCHANGED <<locks, refs, key, mine>>

\* unlock, first half: l.mu.Unlock()
Unlock(p) ==
  /\ pc[p] = "held"
  /\ holder' = [holder EXCEPT ![mine[p]] = Nothing]
  /\ pc' = [pc EXCEPT ![p] = "releasing"]
  /\ UNCHANGED <<locks, refs, key, mine>>

\* The entry goes with the first goroutine that leaves.
DelistEager(p) ==
  /\ pc[p] = "releasing"
  /\ refs' = [refs EXCEPT ![mine[p]] = @ - 1]
  /\ locks' = [locks EXCEPT ![key[p]] = Nothing]
  /\ pc' = [pc EXCEPT ![p] = "idle"]
  /\ key' = [key EXCEPT ![p] = Nothing]
  /\ mine' = [mine EXCEPT ![p] = Nothing]
  /\ UNCHANGED holder

\* The entry is never dropped.
DelistNever(p) ==
  /\ pc[p] = "releasing"
  /\ refs' = [refs EXCEPT ![mine[p]] = @ - 1]
  /\ pc' = [pc EXCEPT ![p] = "idle"]
  /\ key' = [key EXCEPT ![p] = Nothing]
  /\ mine' = [mine EXCEPT ![p] = Nothing]
  /\ UNCHANGED <<locks, holder>>

\* unlock, second half: drop the reference, and the entry with the last one
Delist(p) ==
  /\ pc[p] = "releasing"
  /\ refs' = [refs EXCEPT ![mine[p]] = @ - 1]
  /\ locks' = IF refs[mine[p]] = 1 THEN [locks EXCEPT ![key[p]] = Nothing] ELSE locks
  /\ pc' = [pc EXCEPT ![p] = "idle"]
  /\ key' = [key EXCEPT ![p] = Nothing]
  /\ mine' = [mine EXCEPT ![p] = Nothing]
  /\ UNCHANGED holder

MutexStep(p) ==
  \/ \E k \in Keys : Enlist(p, k)
  \/ Acquire(p)
  \/ Unlock(p)
  \/ Delist(p)

MutexNext == \E p \in Procs : MutexStep(p)

MutexSpec == MutexInit /\ [][MutexNext]_mutexVars

(* sync.Mutex hands itself to a goroutine that has waited too long, so one *)
(* that waits for a mutex that is released again and again gets it; a      *)
(* handler that holds a lock returns, and its deferred unlock runs.        *)
MutexFairness ==
  \A p \in Procs : SF_mutexVars(Acquire(p)) /\ WF_mutexVars(Unlock(p)) /\ WF_mutexVars(Delist(p))

MutexFairSpec == MutexSpec /\ MutexFairness

-----------------------------------------------------------------------------
Engaged(p) == pc[p] # "idle"

(* Every variable keeps its type.                                          *)
MutexTypeOK ==
  /\ locks \in [Keys -> Locks \cup {Nothing}]
  /\ refs \in [Locks -> Nat]
  /\ holder \in [Locks -> Procs \cup {Nothing}]
  /\ pc \in [Procs -> {"idle", "waiting", "held", "releasing"}]
  /\ key \in [Procs -> Keys \cup {Nothing}]
  /\ mine \in [Procs -> Locks \cup {Nothing}]

Users(l) == {p \in Procs : mine[p] = l}

(* Two goroutines are never between lock and unlock of the same key.       *)
MutualExclusion ==
  \A p, q \in Procs :
    p # q /\ pc[p] = "held" /\ pc[q] = "held" => key[p] # key[q]

(* The map holds an entry for exactly the keys somebody locked, waits for  *)
(* or is about to release, so it does not grow as users come and go.       *)
NoLeak ==
  \A k \in Keys : (locks[k] # Nothing) <=> (\E p \in Procs : key[p] = k)

(* The lock object of the map is the one its goroutines were given; its    *)
(* count is their number; and it is locked by the goroutine that says so.  *)
Given ==
  /\ \A p \in Procs : Engaged(p) =>
       /\ key[p] \in Keys /\ mine[p] \in Locks
       /\ locks[key[p]] = mine[p]
  /\ \A p \in Procs : ~Engaged(p) => key[p] = Nothing /\ mine[p] = Nothing

Counted == \A l \in Locks : refs[l] = Cardinality(Users(l))

MapInjective ==
  \A k1, k2 \in Keys : locks[k1] # Nothing /\ locks[k1] = locks[k2] => k1 = k2

Held ==
  /\ \A p \in Procs : pc[p] = "held" => holder[mine[p]] = p
  /\ \A l \in Locks : holder[l] # Nothing =>
       pc[holder[l]] = "held" /\ mine[holder[l]] = l

Needed == \A k \in Keys : locks[k] # Nothing => \E p \in Procs : key[p] = k

MutexIInv == MutexTypeOK /\ Given /\ Counted /\ MapInjective /\ Held /\ Needed

owners == [k \in Keys |-> {p \in Procs : pc[p] = "held" /\ key[p] = k}]

Abstract == INSTANCE PerKeyLock

(* The map of counted locks implements one lock per key.                   *)
ImplementsPerKeyLock == Abstract!Spec

(* A goroutine that asked for a lock gets it.                              *)
EveryoneGetsTheLock == \A p \in Procs : pc[p] = "waiting" ~> pc[p] = "held"
=============================================================================
