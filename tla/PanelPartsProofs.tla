-------------------------- MODULE PanelPartsProofs --------------------------
(* Proofs about three parts of the panel that stand on their own: mutual   *)
(* exclusion of the keyed mutex, the rate at which heartbeats earn, and the*)
(* sessions, administrators and API keys; each for any number of           *)
(* goroutines, tabs, accounts and requests.                                *)
EXTENDS KeyedMutex, AfkSession, Sessions, FiniteSetTheorems,
        WellFoundedInduction, TLAPS

(***************************************************************************)
(* The keyed mutex                                                         *)
(***************************************************************************)
LEMMA UsersFinite ==
  ASSUME NEW l \in Locks
  PROVE  IsFiniteSet(Users(l)) /\ Cardinality(Users(l)) \in Nat
  <1>1. IsFiniteSet(Users(l))
    BY MutexAssumption, FS_Subset DEF Users, MutexAssumption
  <1>2. QED
    BY <1>1, FS_CardinalityType

LEMMA InitMutexIInv == MutexInit => MutexIInv
  <1> SUFFICES ASSUME MutexInit PROVE MutexIInv
    OBVIOUS
  <1>1. MutexTypeOK
    BY DEF MutexInit, MutexTypeOK
  <1>2. Counted
    <2>1. \A l \in Locks : Users(l) = {}
      BY MutexAssumption DEF MutexInit, Users, MutexAssumption
    <2>2. QED
      BY <2>1, FS_EmptySet DEF Counted, MutexInit
  <1>3. Given /\ MapInjective /\ Held /\ Needed
    BY MutexAssumption DEF MutexInit, Given, MapInjective, Held, Needed, Engaged, MutexAssumption
  <1>4. QED
    BY <1>1, <1>2, <1>3 DEF MutexIInv

(* What Enlist and Delist do to the sets of users of the lock objects.     *)
LEMMA UsersAfterEnlist ==
  ASSUME MutexIInv, NEW p \in Procs, NEW k \in Keys, NEW l \in Locks,
         pc[p] = "idle", mine' = [mine EXCEPT ![p] = l]
  PROVE  /\ p \notin Users(l)
         /\ Users(l)' = Users(l) \cup {p}
         /\ \A m \in Locks \ {l} : Users(m)' = Users(m)
  BY MutexAssumption DEF MutexIInv, MutexTypeOK, Given, Engaged, Users, MutexAssumption

LEMMA UsersAfterDelist ==
  ASSUME MutexIInv, NEW p \in Procs, NEW l \in Locks, mine[p] = l,
         mine' = [mine EXCEPT ![p] = Nothing]
  PROVE  /\ p \in Users(l)
         /\ Users(l)' = Users(l) \ {p}
         /\ \A m \in Locks \ {l} : Users(m)' = Users(m)
  BY MutexAssumption DEF MutexIInv, MutexTypeOK, Given, Engaged, Users, MutexAssumption

LEMMA EnlistIInv ==
  ASSUME MutexIInv, NEW p \in Procs, NEW k \in Keys, Enlist(p, k)
  PROVE  MutexIInv'
  <1>1. PICK l \in Locks :
          /\ IF locks[k] = Nothing THEN Unreachable(l) ELSE l = locks[k]
          /\ locks' = [locks EXCEPT ![k] = l]
          /\ refs' = [refs EXCEPT ![l] = IF locks[k] = Nothing THEN 1 ELSE @ + 1]
          /\ mine' = [mine EXCEPT ![p] = l]
    BY DEF Enlist
  <1>2. /\ pc[p] = "idle" /\ holder' = holder
        /\ key' = [key EXCEPT ![p] = k]
        /\ pc' = [pc EXCEPT ![p] = "waiting"]
    BY DEF Enlist
  <1>3. MutexTypeOK'
    BY <1>1, <1>2 DEF MutexIInv, MutexTypeOK
  <1>4. Given'
    BY <1>1, <1>2, MutexAssumption
    DEF MutexIInv, MutexTypeOK, Given, Engaged, Needed, Unreachable, MutexAssumption
  <1>5. Counted'
    <2>1. /\ p \notin Users(l)
          /\ Users(l)' = Users(l) \cup {p}
          /\ \A m \in Locks \ {l} : Users(m)' = Users(m)
      BY <1>1, <1>2, UsersAfterEnlist
    <2>2. Cardinality(Users(l) \cup {p}) = Cardinality(Users(l)) + 1
      BY <2>1, UsersFinite, FS_AddElement
    <2>3. refs'[l] = Cardinality(Users(l)) + 1
      <3>1. CASE locks[k] = Nothing
        <4>1. Users(l) = {}
          BY <1>1, <3>1 DEF Unreachable, Users
        <4>2. QED
          BY <1>1, <3>1, <4>1, FS_EmptySet DEF MutexIInv, MutexTypeOK
      <3>2. CASE locks[k] # Nothing
        BY <1>1, <3>2 DEF MutexIInv, MutexTypeOK, Counted
      <3>3. QED
        BY <3>1, <3>2
    <2>4. \A m \in Locks \ {l} : refs'[m] = refs[m]
      BY <1>1 DEF MutexIInv, MutexTypeOK
    <2>5. QED
      BY <2>1, <2>2, <2>3, <2>4 DEF MutexIInv, Counted
  <1>6. MapInjective'
    BY <1>1, <1>2, MutexAssumption DEF MutexIInv, MutexTypeOK, MapInjective, Unreachable, MutexAssumption
  <1>7. Held'
    BY <1>1, <1>2 DEF MutexIInv, MutexTypeOK, Held, Given
  <1>8. Needed'
    BY <1>1, <1>2, MutexAssumption DEF MutexIInv, MutexTypeOK, Needed, Given, Engaged, MutexAssumption
  <1>9. QED
    BY <1>3, <1>4, <1>5, <1>6, <1>7, <1>8 DEF MutexIInv

LEMMA AcquireIInv ==
  ASSUME MutexIInv, NEW p \in Procs, Acquire(p)
  PROVE  MutexIInv'
  <1> USE DEF Acquire
  <1>1. MutexTypeOK'
    BY DEF MutexIInv, MutexTypeOK
  <1>2. Given' /\ MapInjective' /\ Needed'
    BY DEF MutexIInv, MutexTypeOK, Given, Engaged, MapInjective, Needed
  <1>3. Counted'
    BY DEF MutexIInv, Counted, Users
  <1>4. Held'
    BY MutexAssumption DEF MutexIInv, MutexTypeOK, Held, Given, Engaged, MutexAssumption
  <1>5. QED
    BY <1>1, <1>2, <1>3, <1>4 DEF MutexIInv

LEMMA UnlockIInv ==
  ASSUME MutexIInv, NEW p \in Procs, Unlock(p)
  PROVE  MutexIInv'
  <1> USE DEF Unlock
  <1>1. MutexTypeOK'
    BY DEF MutexIInv, MutexTypeOK
  <1>2. Given' /\ MapInjective' /\ Needed'
    BY DEF MutexIInv, MutexTypeOK, Given, Engaged, MapInjective, Needed
  <1>3. Counted'
    BY DEF MutexIInv, Counted, Users
  <1>4. Held'
    BY MutexAssumption DEF MutexIInv, MutexTypeOK, Held, Given, Engaged, MutexAssumption
  <1>5. QED
    BY <1>1, <1>2, <1>3, <1>4 DEF MutexIInv

LEMMA DelistIInv ==
  ASSUME MutexIInv, NEW p \in Procs, Delist(p)
  PROVE  MutexIInv'
  <1>0. PICK l \in Locks, k \in Keys : l = mine[p] /\ k = key[p] /\ locks[k] = l
    BY DEF Delist, MutexIInv, Given, Engaged
  <1>1. /\ pc[p] = "releasing" /\ holder' = holder
        /\ refs' = [refs EXCEPT ![l] = @ - 1]
        /\ locks' = IF refs[l] = 1 THEN [locks EXCEPT ![k] = Nothing] ELSE locks
        /\ pc' = [pc EXCEPT ![p] = "idle"]
        /\ key' = [key EXCEPT ![p] = Nothing]
        /\ mine' = [mine EXCEPT ![p] = Nothing]
    BY <1>0 DEF Delist
  <1>2. l \in Locks /\ k \in Keys /\ locks[k] = l
                       /\ mine[p] = l /\ key[p] = k
    BY <1>0
  <1>3. /\ p \in Users(l)
        /\ Users(l)' = Users(l) \ {p}
        /\ \A m \in Locks \ {l} : Users(m)' = Users(m)
    BY <1>1, <1>2, UsersAfterDelist
  <1>4. Cardinality(Users(l) \ {p}) = Cardinality(Users(l)) - 1
    BY <1>2, <1>3, UsersFinite, FS_RemoveElement
  <1>5. refs[l] = Cardinality(Users(l)) /\ refs[l] \in Nat
    BY <1>2 DEF MutexIInv, Counted, MutexTypeOK
  <1>6. refs[l] # 0
    BY <1>2, <1>3, <1>5, UsersFinite, FS_EmptySet
  <1>7. MutexTypeOK'
    BY <1>1, <1>2, <1>5, <1>6 DEF MutexIInv, MutexTypeOK
  <1>8. Counted'
    BY <1>1, <1>2, <1>3, <1>4, <1>5 DEF MutexIInv, MutexTypeOK, Counted
  (* with the last reference gone, nobody else is engaged on the key *)
  <1>9. refs[l] = 1 => \A q \in Procs \ {p} : mine[q] # l
    <2>1. refs[l] = 1 => Users(l) \ {p} = {}
      BY <1>2, <1>3, <1>4, <1>5, UsersFinite, FS_RemoveElement, FS_EmptySet
    <2>2. QED
      BY <2>1 DEF Users
  <1>10. Given'
    BY <1>1, <1>2, <1>9, MutexAssumption DEF MutexIInv, MutexTypeOK, Given, Engaged, MutexAssumption
  <1>11. MapInjective'
    BY <1>1, <1>2 DEF MutexIInv, MutexTypeOK, MapInjective
  <1>12. Held'
    BY <1>1, <1>2 DEF MutexIInv, MutexTypeOK, Held
  <1>13. Needed'
    <2> SUFFICES ASSUME NEW j \in Keys, locks'[j] # Nothing
                 PROVE  \E q \in Procs : key'[q] = j
      BY DEF Needed
    <2>1. locks[j] # Nothing
      BY <1>1, <1>2 DEF MutexIInv, MutexTypeOK
    <2>2. CASE j # k
      BY <2>1, <2>2, <1>1, <1>2 DEF MutexIInv, MutexTypeOK, Needed
    <2>3. CASE j = k
      <3>1. refs[l] # 1
        BY <2>3, <1>1, <1>2 DEF MutexIInv, MutexTypeOK
      <3>2. PICK q \in Procs : q # p /\ mine[q] = l
        <4>1. Cardinality(Users(l) \ {p}) # 0
          BY <3>1, <1>4, <1>5, <1>6
        <4>2. Users(l) \ {p} # {}
          BY <4>1, FS_EmptySet
        <4>3. QED
          BY <4>2 DEF Users
      <3>3. key[q] = k
        BY <3>2, <1>2, MutexAssumption
        DEF MutexIInv, Given, Engaged, MapInjective, MutexAssumption
      <3>4. QED
        BY <3>2, <3>3, <2>3, <1>1 DEF MutexIInv, MutexTypeOK
    <2>4. QED
      BY <2>2, <2>3
  <1>14. QED
    BY <1>7, <1>8, <1>10, <1>11, <1>12, <1>13 DEF MutexIInv

LEMMA MutexInvariance == MutexSpec => []MutexIInv
  <1>1. MutexIInv /\ [MutexNext]_mutexVars => MutexIInv'
    <2> SUFFICES ASSUME MutexIInv, [MutexNext]_mutexVars PROVE MutexIInv'
      OBVIOUS
    <2>1. ASSUME NEW p \in Procs, MutexStep(p) PROVE MutexIInv'
      BY <2>1, EnlistIInv, AcquireIInv, UnlockIInv, DelistIInv DEF MutexStep
    <2>2. CASE UNCHANGED mutexVars
      BY <2>2 DEF mutexVars, MutexIInv, MutexTypeOK, Given, Engaged, Counted, Users,
                  MapInjective, Held, Needed
    <2>3. QED
      BY <2>1, <2>2 DEF MutexNext
  <1>2. QED
    BY InitMutexIInv, <1>1, PTL DEF MutexSpec

(* keyedMutex.lock: at most one goroutine is between lock and unlock of a  *)
(* key, for any number of goroutines and keys.                             *)
THEOREM Safety == MutexSpec => []MutualExclusion
  <1>1. MutexIInv => MutualExclusion
    BY DEF MutexIInv, MutualExclusion, Given, Held, Engaged
  <1>2. QED
    BY <1>1, MutexInvariance, PTL

(* keyedMutex.lock: the map has entries for exactly the keys in use.       *)
THEOREM MapBounded == MutexSpec => []NoLeak
  <1>1. MutexIInv => NoLeak
    BY MutexAssumption DEF MutexIInv, NoLeak, Given, Needed, Engaged, MutexTypeOK, MutexAssumption
  <1>2. QED
    BY <1>1, MutexInvariance, PTL

(* What each step does to the abstract owners.                             *)
LEMMA EnlistAbstract ==
  ASSUME MutexIInv, NEW p \in Procs, NEW k \in Keys, Enlist(p, k)
  PROVE  owners' = owners
  BY DEF Enlist, owners, MutexIInv, MutexTypeOK

LEMMA AcquireAbstract ==
  ASSUME MutexIInv, NEW p \in Procs, Acquire(p)
  PROVE  \E k \in Keys : Abstract!Take(p, k)
  <1>1. PICK k \in Keys, l \in Locks : k = key[p] /\ l = mine[p] /\ locks[k] = l
    BY DEF Acquire, MutexIInv, Given, Engaged
  <1>2. /\ holder[l] = Nothing /\ key' = key
        /\ pc' = [pc EXCEPT ![p] = "held"]
    BY <1>1 DEF Acquire
  <1>3. ASSUME NEW q \in Procs, pc[q] = "held", key[q] = k PROVE FALSE
    BY <1>1, <1>2, <1>3, MutexAssumption DEF MutexIInv, Given, Held, Engaged, MutexAssumption
  <1>4. owners[k] = {}
    BY <1>3 DEF owners
  <1>5. owners' = [owners EXCEPT ![k] = {p}]
    <2>1. \A q \in Procs : pc'[q] = "held" <=> pc[q] = "held" \/ q = p
      BY <1>2 DEF MutexIInv, MutexTypeOK
    <2>2. \A j \in Keys : owners'[j] = IF j = k THEN {p} ELSE owners[j]
      BY <1>1, <1>2, <1>3, <2>1 DEF owners
    <2>3. QED
      BY <2>2 DEF owners
  <1>6. QED
    BY <1>4, <1>5 DEF Abstract!Take

LEMMA UnlockAbstract ==
  ASSUME MutexIInv, NEW p \in Procs, Unlock(p)
  PROVE  \E k \in Keys : Abstract!Give(p, k)
  <1>1. PICK k \in Keys : k = key[p]
    BY DEF Unlock, MutexIInv, Given, Engaged
  <1>2. pc[p] = "held" /\ key' = key /\ pc' = [pc EXCEPT ![p] = "releasing"]
    BY DEF Unlock
  <1>3. \A q \in Procs : pc[q] = "held" /\ key[q] = k => q = p
    BY <1>1, <1>2 DEF MutexIInv, Given, Held, Engaged
  <1>4. owners[k] = {p}
    BY <1>1, <1>2, <1>3 DEF owners
  <1>5. owners' = [owners EXCEPT ![k] = {}]
    <2>1. p \in Procs /\ pc \in [Procs -> {"idle", "waiting", "held", "releasing"}]
      BY DEF MutexIInv, MutexTypeOK
    <2>2. \A q \in Procs : pc'[q] = "held" <=> pc[q] = "held" /\ q # p
      BY <1>2, <2>1
    <2>3. \A j \in Keys : {q \in Procs : pc'[q] = "held" /\ key'[q] = j}
                          = IF j = k THEN {} ELSE {q \in Procs : pc[q] = "held" /\ key[q] = j}
      BY <1>1, <1>2, <1>3, <2>2
    <2>4. QED
      BY <2>3 DEF owners
  <1>6. QED
    BY <1>4, <1>5 DEF Abstract!Give

LEMMA DelistAbstract ==
  ASSUME MutexIInv, NEW p \in Procs, Delist(p)
  PROVE  owners' = owners
  BY DEF Delist, owners, MutexIInv, MutexTypeOK

(* keyedMutex as a whole: the counted lock objects implement one lock per  *)
(* key, taken and given back by its callers.                               *)
THEOREM Refinement == MutexSpec => ImplementsPerKeyLock
  <1>1. MutexInit => Abstract!Init
    BY DEF MutexInit, Abstract!Init, owners
  <1>2. MutexIInv /\ [MutexNext]_mutexVars => [Abstract!Next]_owners
    <2> SUFFICES ASSUME MutexIInv, [MutexNext]_mutexVars PROVE [Abstract!Next]_owners
      OBVIOUS
    <2>1. ASSUME NEW p \in Procs, MutexStep(p) PROVE [Abstract!Next]_owners
      BY <2>1, EnlistAbstract, AcquireAbstract, UnlockAbstract, DelistAbstract
      DEF MutexStep, Abstract!Next
    <2>2. CASE UNCHANGED mutexVars
      BY <2>2 DEF mutexVars, owners
    <2>3. QED
      BY <2>1, <2>2 DEF MutexNext
  <1>3. QED
    BY <1>1, <1>2, MutexInvariance, PTL DEF MutexSpec, ImplementsPerKeyLock, Abstract!Spec

(***************************************************************************)
(* The AFK heartbeat                                                       *)
(***************************************************************************)
LEMMA Monotone ==
  ASSUME NEW a \in Int, NEW b \in Int, NEW r \in Nat, a <= b
  PROVE  a * r <= b * r
  OBVIOUS

LEMMA SmallestNumber ==
  ASSUME NEW S, S \subseteq Nat, S # {}
  PROVE  \E n \in S : \A k \in S : n <= k
  <1>1. PICK n \in S : \A k \in S : ~(<<k, n>> \in OpToRel(<, Nat))
    BY WFMin, NatLessThanWellFounded
  <1>2. ASSUME NEW k \in S, k < n PROVE <<k, n>> \in OpToRel(<, Nat)
    <2>1. <<k, n>> \in Nat \X Nat
      OBVIOUS
    <2>2. <<k, n>>[1] < <<k, n>>[2]
      BY <1>2
    <2>3. QED
      BY <2>1, <2>2 DEF OpToRel
  <1>3. \A k \in S : ~(k < n)
    BY <1>1, <1>2, Zenon
  <1>4. QED
    BY <1>3

\* The windows that settings and defaults give, after the fallback.
LEMMA IntervalBounds ==
  /\ ShortestInterval \in Nat \ {0}
  /\ \A w \in Windows \cup {DefaultWindow} :
       /\ EffectiveWindow(w).min \in Nat /\ EffectiveWindow(w).max \in Nat
       /\ ShortestInterval <= EffectiveWindow(w).min
       /\ EffectiveWindow(w).min < EffectiveWindow(w).max
  <1> DEFINE W == Windows \cup {DefaultWindow}
             M == {EffectiveWindow(w).min : w \in W}
  <1>1. ASSUME NEW w \in W
        PROVE  /\ EffectiveWindow(w).min \in Nat \ {0} /\ EffectiveWindow(w).max \in Nat
               /\ EffectiveWindow(w).min < EffectiveWindow(w).max
    BY AfkAssumption DEF AfkAssumption, EffectiveWindow, Window
  <1>2. M \subseteq Nat \ {0} /\ M # {}
    BY <1>1
  <1>3. \E n \in M : \A k \in M : n <= k
    BY <1>2, SmallestNumber
  <1>4. \E n \in M : \A w \in W : n <= EffectiveWindow(w).min
    BY <1>3
  <1>5. ShortestInterval = CHOOSE n \in M : \A w \in W : n <= EffectiveWindow(w).min
    BY DEF ShortestInterval
  <1>6. ShortestInterval \in M /\ \A w \in W : ShortestInterval <= EffectiveWindow(w).min
    BY <1>4, <1>5
  <1>7. QED
    BY <1>1, <1>2, <1>6

BeatState == [pc : {"idle", "get", "set", "pay"}, tab : Tabs \cup {None}, at : Nat,
              started : Nat, earned : BOOLEAN]
RowState == [last : Nat, tab : Tabs, started : Nat]

Under(b) == beat[b].pc # "idle"

BeatFits(r) ==
  /\ r.pc # "idle" => r.tab \in Tabs
  /\ r.pc = "idle" => r = Idle
  /\ r.earned => r.pc \in {"set", "pay"}
  /\ r.pc = "pay" => r.earned

AfkTypeOK ==
  /\ row \in {None} \cup RowState
  /\ window \in Windows \cup {DefaultWindow}
  /\ beat \in [Beats -> BeatState]
  /\ \A b \in Beats : BeatFits(beat[b])
  /\ now \in Nat /\ credits \in Nat /\ doubled \in Nat

-----------------------------------------------------------------------------
(* What has been paid beyond one credit at a time.  Of the beats a tab has  *)
(* under way all but one are counted as doubled, and may each be paid.      *)

Serving == {b \in Beats : Under(b)}
ServedTabs == {t \in Tabs : \E b \in Beats : beat[b].tab = t}
Paid == credits - doubled + Cardinality(Serving) - Cardinality(ServedTabs)

LEMMA ServingFinite ==
  ASSUME AfkTypeOK
  PROVE  /\ IsFiniteSet(Serving) /\ IsFiniteSet(ServedTabs)
         /\ Cardinality(Serving) \in Nat /\ Cardinality(ServedTabs) \in Nat
         /\ Cardinality(ServedTabs) <= Cardinality(Serving)
  <1> DEFINE f == [b \in Serving |-> beat[b].tab]
  <1>1. IsFiniteSet(Serving)
    BY FS_Subset, AfkAssumption DEF AfkAssumption, Serving
  <1>2. f \in [Serving -> ServedTabs] /\ \A t \in ServedTabs : \E b \in Serving : f[b] = t
    BY AfkAssumption
    DEF AfkAssumption, AfkTypeOK, BeatFits, Serving, ServedTabs, Under, Idle, BeatState
  <1> HIDE DEF f
  <1>3. f \in Surjection(Serving, ServedTabs)
    BY <1>2 DEF Surjection
  <1>4. IsFiniteSet(ServedTabs) /\ Cardinality(ServedTabs) <= Cardinality(Serving)
    BY <1>1, <1>3, FS_Surjection
  <1>5. QED
    BY <1>1, <1>4, FS_CardinalityType

LEMMA PaidAtLeast ==
  ASSUME AfkTypeOK
  PROVE  Paid \in Int /\ credits - doubled <= Paid
  BY ServingFinite DEF Paid, AfkTypeOK

Others(b) == \A c \in Beats \ {b} : beat'[c] = beat[c]
Alone(b) == \A c \in Beats : beat[c].tab = beat[b].tab => c = b

LEMMA PaidStays ==
  ASSUME AfkTypeOK, AfkTypeOK', credits' = credits, doubled' = doubled,
         \A b \in Beats : beat'[b].tab = beat[b].tab /\ (Under(b)' <=> Under(b))
  PROVE  Paid' = Paid
  BY DEF Paid, Serving, ServedTabs

\* A beat begins: another of its tab's is counted as doubled.
LEMMA PaidBegins ==
  ASSUME AfkTypeOK, AfkTypeOK', NEW b \in Beats, NEW t \in Tabs, Begin(b, t)
  PROVE  Paid' = Paid
  <1>1. /\ beat[b] = Idle /\ Others(b) /\ beat'[b].tab = t /\ beat'[b].pc = "get"
        /\ credits' = credits
    BY DEF Begin, Others, AfkTypeOK, Idle
  <1>2. None \notin Tabs
    BY AfkAssumption DEF AfkAssumption
  <1>3. Serving' = Serving \cup {b} /\ b \notin Serving
    BY <1>1 DEF Serving, Under, Others, Idle
  <1>4. ServedTabs' = ServedTabs \cup {t}
    BY <1>1, <1>2 DEF ServedTabs, Others, Idle
  <1>5. doubled' = IF t \in ServedTabs THEN doubled + 1 ELSE doubled
    BY DEF Begin, ServedTabs
  <1>6. /\ Cardinality(Serving') = Cardinality(Serving) + 1
        /\ Cardinality(ServedTabs') =
             IF t \in ServedTabs THEN Cardinality(ServedTabs) ELSE Cardinality(ServedTabs) + 1
    BY <1>3, <1>4, ServingFinite, FS_AddElement
  <1>7. QED
    BY <1>1, <1>5, <1>6, ServingFinite DEF Paid, AfkTypeOK

\* A beat ends, paid or not.
LEMMA PaidEnds ==
  ASSUME AfkTypeOK, AfkTypeOK', NEW b \in Beats, Under(b), Others(b), ~Under(b)',
         doubled' = doubled, NEW n \in {0, 1}, credits' = credits + n
  PROVE  Paid' = IF Alone(b) THEN Paid + n ELSE Paid + n - 1
  <1> DEFINE t == beat[b].tab
  <1>1. t \in Tabs /\ beat'[b].tab = None /\ None \notin Tabs
    BY AfkAssumption DEF AfkAssumption, AfkTypeOK, BeatFits, Under, Idle
  <1>2. Serving' = Serving \ {b} /\ b \in Serving
    BY DEF Serving, Under, Others
  <1>3. ServedTabs' = IF Alone(b) THEN ServedTabs \ {t} ELSE ServedTabs
    BY <1>1 DEF ServedTabs, Others, Alone
  <1>4. t \in ServedTabs
    BY <1>1 DEF ServedTabs
  <1>5. /\ Cardinality(Serving') = Cardinality(Serving) - 1
        /\ Cardinality(ServedTabs') =
             IF Alone(b) THEN Cardinality(ServedTabs) - 1 ELSE Cardinality(ServedTabs)
    BY <1>2, <1>3, <1>4, ServingFinite, FS_RemoveElement
  <1>6. QED
    BY <1>5, ServingFinite DEF Paid, AfkTypeOK

-----------------------------------------------------------------------------
(* In time: what has been paid took one interval each.                      *)

Owed == Paid * ShortestInterval

LEMMA OwedMoves ==
  ASSUME AfkTypeOK
  PROVE  /\ Owed \in Int /\ ShortestInterval \in Nat \ {0}
         /\ Paid' = Paid => Owed' = Owed
         /\ Paid' = Paid + 1 => Owed' = Owed + ShortestInterval
         /\ Paid' = Paid - 1 => Owed' = Owed - ShortestInterval
  <1>1. PICK n \in Nat \ {0} : n = ShortestInterval
    BY IntervalBounds
  <1>2. PICK p \in Int : p = Paid
    BY PaidAtLeast
  <1>3. Owed = p * n /\ Owed' = Paid' * n
    BY <1>1, <1>2 DEF Owed
  <1>4. /\ p * n \in Int
        /\ (p + 1) * n = p * n + n
        /\ (p - 1) * n = p * n - n
    OBVIOUS
  <1>5. QED
    BY <1>1, <1>2, <1>3, <1>4

-----------------------------------------------------------------------------
(* The invariant.  A beat that may still be paid leaves room for one more   *)
(* interval before the times that beats of other tabs carry.                *)

Rival(t) == \E a \in Beats : beat[a].earned /\ beat[a].tab # t
Level(t) == IF Rival(t) THEN Owed + ShortestInterval ELSE Owed
AllPay(t) ==
  /\ \E b \in Beats : beat[b].tab = t
  /\ \A b \in Beats : beat[b].tab = t => beat[b].pc = "pay"

Timely ==
  \A b \in Beats : Under(b) => beat[b].at <= now /\ now <= beat[b].at + Latency

OneEarner ==
  \A a, b \in Beats : beat[a].earned /\ beat[b].earned => beat[a].tab = beat[b].tab

EarnersOwe ==
  \A a \in Beats : beat[a].earned => Owed + ShortestInterval <= beat[a].at

WritersOwe ==
  \A b \in Beats, t \in Tabs :
    beat[b].pc = "set" /\ beat[b].tab = t => Level(t) <= beat[b].at

NoRowYet == row = None => Owed <= 0 /\ \A a \in Beats : ~beat[a].earned

RowOwes ==
  row # None =>
    /\ row.last <= now /\ Owed <= row.last
    /\ \A t \in Tabs : AllPay(t) => Owed + ShortestInterval <= row.last
    /\ \A b \in Beats, t \in Tabs :
         beat[b].pc = "get" /\ beat[b].tab = t /\ row.tab = t => Level(t) <= beat[b].at

\* A row of another tab than a beat's is recent, or was there when it began.
RowRecent ==
  row # None =>
    /\ \A a \in Beats : beat[a].earned =>
         row.tab = beat[a].tab \/ beat[a].at <= row.last + Latency
    /\ \A b \in Beats : beat[b].pc = "set" /\ row.tab # beat[b].tab =>
         \/ row.last + ShortestInterval <= beat[b].at
         \/ beat[b].at <= row.last + Latency

AfkIInv ==
  /\ AfkTypeOK /\ Timely /\ OneEarner /\ EarnersOwe /\ WritersOwe
  /\ NoRowYet /\ RowOwes /\ RowRecent

LEMMA Amounts ==
  ASSUME AfkTypeOK
  PROVE  /\ Owed \in Int /\ ShortestInterval \in Nat \ {0} /\ Latency \in Nat /\ now \in Nat
         /\ \A b \in Beats : beat[b].at \in Nat /\ beat[b].earned \in BOOLEAN
         /\ row # None => row.last \in Nat /\ row.tab \in Tabs
         /\ \A t : Level(t) \in {Owed, Owed + ShortestInterval}
  BY OwedMoves, AfkAssumption DEF AfkAssumption, AfkTypeOK, BeatState, RowState, Level

\* Nothing is earned by the step: the levels move with what is owed.
NoneEarns == \A a \in Beats : beat'[a].earned => beat[a].earned /\ beat'[a].tab = beat[a].tab

LEMMA LevelMoves ==
  ASSUME NoneEarns
  PROVE  \A t : (Rival(t)' => Rival(t)) /\
                Level(t)' = IF Rival(t)' THEN Owed' + ShortestInterval ELSE Owed'
  BY DEF NoneEarns, Rival, Level

LEMMA OneBeatFits ==
  ASSUME AfkTypeOK, NEW b \in Beats, NEW r, beat' = [beat EXCEPT ![b] = r],
         r \in BeatState, BeatFits(r)
  PROVE  beat' \in [Beats -> BeatState] /\ \A c \in Beats : BeatFits(beat'[c])
  BY DEF AfkTypeOK

LEMMA EndFits == Idle \in BeatState /\ BeatFits(Idle)
  BY DEF Idle, BeatState, BeatFits

LEMMA TypesStep == AfkTypeOK /\ [Next]_vars => AfkTypeOK'
  <1> SUFFICES ASSUME AfkTypeOK, [Next]_vars PROVE AfkTypeOK'
    OBVIOUS
  <1>1. ASSUME NEW b \in Beats, beat' = [beat EXCEPT ![b] = Idle]
        PROVE  beat' \in [Beats -> BeatState] /\ \A c \in Beats : BeatFits(beat'[c])
    BY <1>1, OneBeatFits, EndFits
  <1>2. ASSUME NEW b \in Beats, NEW t \in Tabs, Begin(b, t) PROVE AfkTypeOK'
    <2> DEFINE r == [Idle EXCEPT !.pc = "get", !.tab = t, !.at = now]
    <2>1. r \in BeatState /\ BeatFits(r)
      BY DEF Idle, BeatState, BeatFits, AfkTypeOK
    <2>2. beat' = [beat EXCEPT ![b] = r]
      BY <1>2 DEF Begin
    <2> HIDE DEF r
    <2>3. beat' \in [Beats -> BeatState] /\ \A c \in Beats : BeatFits(beat'[c])
      BY <2>1, <2>2, OneBeatFits
    <2>4. doubled' \in Nat /\ UNCHANGED <<row, window, now, credits>>
      BY <1>2 DEF Begin, AfkTypeOK
    <2>5. QED
      BY <2>3, <2>4 DEF AfkTypeOK
  <1>3. ASSUME NEW b \in Beats, Read(b) PROVE AfkTypeOK'
    <2>1. UNCHANGED <<row, window, now, credits, doubled>> /\ beat[b].pc = "get"
      BY <1>3 DEF Read
    <2>2. CASE beat' = [beat EXCEPT ![b] = Idle]
      BY <1>1, <2>1, <2>2 DEF AfkTypeOK
    <2>3. CASE beat' = [beat EXCEPT ![b].pc = "set",
                                    ![b].started = IF Live(b) THEN row.started ELSE beat[b].at,
                                    ![b].earned = Earns(b)]
      <3>1. PICK st \in Nat : st = IF Live(b) THEN row.started ELSE beat[b].at
        BY DEF Live, AfkTypeOK, RowState, BeatState
      <3>2. PICK ea \in BOOLEAN : ea = Earns(b)
        BY DEF Earns
      <3> DEFINE r == [beat[b] EXCEPT !.pc = "set", !.started = st, !.earned = ea]
      <3>3. r \in BeatState /\ BeatFits(r)
        BY <2>1 DEF AfkTypeOK, BeatState, BeatFits
      <3>4. beat' = [beat EXCEPT ![b] = r]
        BY <2>3, <3>1, <3>2
      <3> HIDE DEF r
      <3>5. QED
        BY <2>1, <3>3, <3>4, OneBeatFits DEF AfkTypeOK
    <2>4. QED
      BY <1>3, <2>2, <2>3 DEF Read
  <1>4. ASSUME NEW b \in Beats, Write(b) PROVE AfkTypeOK'
    <2>1. UNCHANGED <<window, now, credits, doubled>> /\ beat[b].pc = "set"
      BY <1>4 DEF Write
    <2>2. row' \in RowState
      BY <1>4, <2>1 DEF Write, AfkTypeOK, RowState, BeatState, BeatFits
    <2>3. CASE beat' = [beat EXCEPT ![b] = Idle]
      BY <1>1, <2>1, <2>2, <2>3 DEF AfkTypeOK
    <2>4. CASE beat[b].earned /\ beat' = [beat EXCEPT ![b].pc = "pay"]
      <3> DEFINE r == [beat[b] EXCEPT !.pc = "pay"]
      <3>1. r \in BeatState /\ BeatFits(r)
        BY <2>1, <2>4 DEF AfkTypeOK, BeatState, BeatFits
      <3>2. beat' = [beat EXCEPT ![b] = r]
        BY <2>4
      <3> HIDE DEF r
      <3>3. QED
        BY <2>1, <2>2, <3>1, <3>2, OneBeatFits DEF AfkTypeOK
    <2>5. QED
      BY <1>4, <2>3, <2>4 DEF Write
  <1>5. ASSUME NEW b \in Beats, Pay(b) \/ Fail(b) PROVE AfkTypeOK'
    <2>1. /\ UNCHANGED <<row, window, now, doubled>> /\ credits' \in Nat
          /\ beat' = [beat EXCEPT ![b] = Idle]
      BY <1>5 DEF Pay, Fail, AfkTypeOK
    <2>2. QED
      BY <1>1, <2>1 DEF AfkTypeOK
  <1>6. CASE Configure
    BY <1>6 DEF Configure, AfkTypeOK
  <1>7. CASE Tick
    BY <1>7 DEF Tick, AfkTypeOK
  <1>8. CASE UNCHANGED vars
    BY <1>8 DEF vars, AfkTypeOK
  <1>9. QED
    BY <1>2, <1>3, <1>4, <1>5, <1>6, <1>7, <1>8 DEF Next

-----------------------------------------------------------------------------
(* The steps of a beat.                                                     *)

\* What holds of a beat other than the one that moves.
LEMMA OthersKeep ==
  ASSUME NEW b \in Beats, Others(b), NEW c \in Beats, c # b
  PROVE  beat'[c] = beat[c] /\ (Under(c)' <=> Under(c))
  BY DEF Others, Under

LEMMA BeginKeeps ==
  ASSUME AfkIInv, AfkTypeOK', NEW b \in Beats, NEW t \in Tabs, Begin(b, t)
  PROVE  AfkIInv'
  <1> USE DEF AfkIInv
  <1> DEFINE S == ShortestInterval
  <1>1. /\ beat[b] = Idle /\ Others(b) /\ UNCHANGED <<row, window, now, credits>>
        /\ beat'[b].pc = "get" /\ beat'[b].tab = t /\ beat'[b].at = now /\ ~beat'[b].earned
    BY DEF Begin, Others, AfkTypeOK, Idle
  <1>2. Owed' = Owed
    BY PaidBegins, OwedMoves
  <1>3. NoneEarns
    BY <1>1 DEF NoneEarns, Others
  <1>4. \A z : (Rival(z)' => Rival(z)) /\ Level(z)' \in {Owed, Level(z)}
    BY <1>2, <1>3, LevelMoves DEF Level
  <1>5. \A c \in Beats : c # b => beat'[c] = beat[c]
    BY <1>1 DEF Others
  <1>6. Timely'
    BY <1>1, <1>5, Amounts DEF Timely, Under
  <1>7. OneEarner' /\ EarnersOwe' /\ NoRowYet'
    BY <1>1, <1>2, <1>5 DEF OneEarner, EarnersOwe, NoRowYet
  <1>8. WritersOwe'
    BY <1>1, <1>4, <1>5, Amounts DEF WritersOwe, Level
  <1>9. RowOwes'
    <2> SUFFICES ASSUME row # None PROVE RowOwes'
      BY <1>1 DEF RowOwes
    <2>1. row.last <= now /\ Owed <= row.last
      BY DEF RowOwes
    <2>2. ASSUME NEW z \in Tabs, AllPay(z)' PROVE Owed + S <= row.last
      <3>1. z # t
        BY <1>1, <2>2 DEF AllPay
      <3>2. AllPay(z)
        <4>1. \E c \in Beats : c # b /\ beat[c].tab = z
          BY <1>1, <1>5, <2>2, <3>1 DEF AllPay
        <4>2. beat[b].tab # z
          BY <1>1, AfkAssumption DEF AfkAssumption, Idle
        <4>3. QED
          BY <1>5, <2>2, <4>1, <4>2 DEF AllPay
      <3>3. QED
        BY <3>2 DEF RowOwes
    <2>3. Level(t)' <= now
      <3>1. CASE Rival(t)
        <4>1. PICK a \in Beats : beat[a].earned
          BY <3>1 DEF Rival
        <4>2. Owed + S <= beat[a].at /\ beat[a].at <= now
          BY <4>1 DEF EarnersOwe, Timely, AfkTypeOK, BeatFits, Under
        <4>3. QED
          BY <1>4, <2>1, <4>2, Amounts
      <3>2. CASE ~Rival(t)
        BY <1>4, <2>1, <3>2, Amounts DEF Level
      <3>3. QED
        BY <3>1, <3>2
    <2>4. ASSUME NEW c \in Beats, NEW z \in Tabs, beat'[c].pc = "get", beat'[c].tab = z,
                 row.tab = z
          PROVE  Level(z)' <= beat'[c].at
      <3>1. CASE c = b
        BY <1>1, <2>3, <2>4, <3>1
      <3>2. CASE c # b
        <4>1. Level(z) <= beat[c].at
          BY <1>5, <2>4, <3>2 DEF RowOwes
        <4>2. QED
          BY <1>4, <1>5, <3>2, <4>1, Amounts DEF Level
      <3>3. QED
        BY <3>1, <3>2
    <2>5. QED
      BY <1>1, <1>2, <2>1, <2>2, <2>4 DEF RowOwes
  <1>10. RowRecent'
    BY <1>1, <1>5 DEF RowRecent
  <1>11. QED
    BY <1>6, <1>7, <1>8, <1>9, <1>10

\* A beat ends: what is left of its tab, if anything, owes one interval less.
LEMMA Ends ==
  ASSUME AfkTypeOK, AfkTypeOK', NEW b \in Beats, Under(b), beat' = [beat EXCEPT ![b] = Idle],
         doubled' = doubled
  PROVE  /\ Others(b) /\ NoneEarns
         /\ beat'[b].pc = "idle" /\ beat'[b].tab = None /\ ~beat'[b].earned
         /\ credits' = credits => Owed' = IF Alone(b) THEN Owed ELSE Owed - ShortestInterval
         /\ credits' = credits + 1 => Owed' = IF Alone(b) THEN Owed + ShortestInterval ELSE Owed
  <1>1. Others(b) /\ beat'[b] = Idle
    BY DEF Others, AfkTypeOK
  <1>2. beat'[b].pc = "idle" /\ beat'[b].tab = None /\ ~beat'[b].earned
    BY <1>1 DEF Idle
  <1>3. NoneEarns
    BY <1>1, <1>2 DEF NoneEarns, Others
  <1>4. credits' = credits => Paid' = IF Alone(b) THEN Paid ELSE Paid - 1
    <2>1. credits \in Nat /\ Paid \in Int
      BY PaidAtLeast DEF AfkTypeOK
    <2>2. QED
      BY <1>1, <1>2, <2>1, PaidEnds DEF Under
  <1>5. credits' = credits + 1 => Paid' = IF Alone(b) THEN Paid + 1 ELSE Paid
    <2>1. Paid \in Int
      BY PaidAtLeast
    <2>2. QED
      BY <1>1, <1>2, <2>1, PaidEnds DEF Under
  <1>6. QED
    BY <1>1, <1>2, <1>3, <1>4, <1>5, OwedMoves

LEMMA EndKeeps ==
  ASSUME AfkIInv, AfkTypeOK', NEW b \in Beats, Under(b), beat' = [beat EXCEPT ![b] = Idle],
         UNCHANGED <<row, window, now, credits, doubled>>
  PROVE  AfkIInv'
  <1> USE DEF AfkIInv
  <1> DEFINE S == ShortestInterval
  <1>1. /\ Others(b) /\ NoneEarns
        /\ beat'[b].pc = "idle" /\ beat'[b].tab = None /\ ~beat'[b].earned
        /\ Owed' = IF Alone(b) THEN Owed ELSE Owed - S
    BY Ends
  <1>2. Owed' <= Owed /\ Owed' \in Int /\ Owed \in Int /\ S \in Nat \ {0}
    BY <1>1, Amounts
  <1>3. \A z : Level(z)' <= Level(z)
    BY <1>1, <1>2, LevelMoves DEF Level
  <1>4. \A c \in Beats : c # b => beat'[c] = beat[c]
    BY <1>1 DEF Others
  <1>5. None \notin Tabs
    BY AfkAssumption DEF AfkAssumption
  <1>6. Timely' /\ OneEarner'
    BY <1>1, <1>4 DEF Timely, OneEarner, Under
  <1>7. EarnersOwe' /\ NoRowYet'
    BY <1>1, <1>2, <1>4, Amounts DEF EarnersOwe, NoRowYet
  <1>8. \A z : Level(z) \in Int /\ Level(z)' \in Int
    BY <1>2 DEF Level
  <1>9. WritersOwe'
    <2> SUFFICES ASSUME NEW c \in Beats, NEW z \in Tabs, beat'[c].pc = "set", beat'[c].tab = z
                 PROVE  Level(z)' <= beat'[c].at
      BY DEF WritersOwe
    <2>1. c # b /\ Level(z) <= beat[c].at
      BY <1>1, <1>4 DEF WritersOwe
    <2>2. QED
      BY <1>3, <1>4, <1>8, <2>1, Amounts
  <1>10. RowOwes'
    <2> SUFFICES ASSUME row # None PROVE RowOwes'
      BY DEF RowOwes
    <2>1. row.last <= now /\ Owed <= row.last
      BY DEF RowOwes
    <2>2. ASSUME NEW z \in Tabs, AllPay(z)' PROVE Owed' + S <= row.last
      <3>1. PICK d \in Beats : d # b /\ beat[d].tab = z /\ beat[d].pc = "pay"
        BY <1>1, <1>4, <1>5, <2>2 DEF AllPay
      <3>2. CASE beat[b].tab = z
        <4>1. ~Alone(b)
          BY <3>1, <3>2 DEF Alone
        <4>2. QED
          BY <1>1, <1>2, <2>1, <4>1, Amounts
      <3>3. CASE beat[b].tab # z
        <4>1. AllPay(z)
          BY <1>4, <2>2, <3>1, <3>3 DEF AllPay
        <4>2. QED
          BY <1>2, <4>1, Amounts DEF RowOwes
      <3>4. QED
        BY <3>2, <3>3
    <2>3. ASSUME NEW c \in Beats, NEW z \in Tabs, beat'[c].pc = "get", beat'[c].tab = z,
                 row.tab = z
          PROVE  Level(z)' <= beat'[c].at
      <3>1. c # b /\ Level(z) <= beat[c].at
        BY <1>1, <1>4, <2>3 DEF RowOwes
      <3>2. QED
        BY <1>3, <1>4, <1>8, <3>1, Amounts
    <2>4. QED
      BY <1>2, <2>1, <2>2, <2>3, Amounts DEF RowOwes
  <1>11. RowRecent'
    BY <1>1, <1>4 DEF RowRecent
  <1>12. QED
    BY <1>6, <1>7, <1>9, <1>10, <1>11

LEMMA PayKeeps ==
  ASSUME AfkIInv, AfkTypeOK', NEW b \in Beats, Pay(b)
  PROVE  AfkIInv'
  <1> USE DEF AfkIInv
  <1> DEFINE S == ShortestInterval
  <1>1. /\ beat[b].pc = "pay" /\ beat[b].earned /\ beat[b].tab \in Tabs /\ Under(b)
        /\ beat' = [beat EXCEPT ![b] = Idle]
        /\ credits' = credits + 1 /\ UNCHANGED <<row, window, now, doubled>>
    BY DEF Pay, AfkTypeOK, BeatFits, Under
  <1>2. /\ Others(b) /\ NoneEarns
        /\ beat'[b].pc = "idle" /\ beat'[b].tab = None /\ ~beat'[b].earned
        /\ Owed' = IF Alone(b) THEN Owed + S ELSE Owed
    BY <1>1, Ends
  <1>3. Owed' \in Int /\ Owed \in Int /\ S \in Nat \ {0}
    BY <1>2, Amounts
  <1>4. \A c \in Beats : c # b => beat'[c] = beat[c]
    BY <1>2 DEF Others
  <1>5. None \notin Tabs
    BY AfkAssumption DEF AfkAssumption
  <1>6. Timely' /\ OneEarner' /\ RowRecent'
    BY <1>1, <1>2, <1>4 DEF Timely, OneEarner, RowRecent, Under
  <1>7. NoRowYet'
    <2>1. row # None
      BY <1>1 DEF NoRowYet
    <2>2. QED
      BY <1>1, <2>1 DEF NoRowYet
  <1>8. \A z \in Tabs : ~AllPay(z)' \/ (AllPay(z) /\ ~Alone(b))
    <2> SUFFICES ASSUME NEW z \in Tabs, AllPay(z)' PROVE AllPay(z) /\ ~Alone(b)
      OBVIOUS
    <2>1. PICK d \in Beats : d # b /\ beat[d].tab = z /\ beat[d].pc = "pay"
      BY <1>2, <1>4, <1>5 DEF AllPay
    <2>2. beat[b].tab = z
      BY <1>1, <2>1 DEF OneEarner, AfkTypeOK, BeatFits
    <2>3. QED
      BY <1>1, <1>4, <2>1, <2>2 DEF AllPay, Alone
  <1>9. CASE Alone(b)
    <2>1. \A c \in Beats : ~beat'[c].earned
      BY <1>1, <1>2, <1>4, <1>9 DEF OneEarner, Alone
    <2>2. \A z : Level(z)' = Owed + S
      BY <1>2, <1>9, <2>1 DEF Level, Rival
    <2>3. \A z \in Tabs : z # beat[b].tab => Level(z) = Owed + S
      BY <1>1 DEF Level, Rival
    <2>4. EarnersOwe'
      BY <2>1 DEF EarnersOwe
    <2>5. ASSUME NEW c \in Beats, NEW z \in Tabs, beat'[c].tab = z PROVE c # b /\ z # beat[b].tab
      BY <1>2, <1>4, <1>5, <1>9, <2>5 DEF Alone
    <2>6. WritersOwe'
      BY <1>4, <2>2, <2>3, <2>5 DEF WritersOwe
    <2>7. row # None /\ Owed + S <= row.last
      <3>1. AllPay(beat[b].tab)
        BY <1>1, <1>9 DEF AllPay, Alone
      <3>2. QED
        BY <1>1, <3>1 DEF NoRowYet, RowOwes
    <2>8. RowOwes'
      <3>1. \A c \in Beats, z \in Tabs :
              beat'[c].pc = "get" /\ beat'[c].tab = z /\ row.tab = z => Level(z)' <= beat'[c].at
        BY <1>4, <2>2, <2>3, <2>5, <2>7 DEF RowOwes
      <3>2. QED
        BY <1>1, <1>2, <1>8, <1>9, <2>7, <3>1 DEF RowOwes
    <2>9. QED
      BY <1>6, <1>7, <2>4, <2>6, <2>8
  <1>10. CASE ~Alone(b)
    <2>1. Owed' = Owed
      BY <1>2, <1>10
    <2>2. \A z : Level(z)' <= Level(z) /\ Level(z) \in Int /\ Level(z)' \in Int
      BY <1>2, <1>3, <2>1, LevelMoves DEF Level
    <2>3. EarnersOwe'
      BY <1>2, <1>4, <2>1 DEF EarnersOwe
    <2>4. WritersOwe'
      <3> SUFFICES ASSUME NEW c \in Beats, NEW z \in Tabs, beat'[c].pc = "set", beat'[c].tab = z
                   PROVE  Level(z)' <= beat'[c].at
        BY DEF WritersOwe
      <3>1. c # b /\ Level(z) <= beat[c].at
        BY <1>2, <1>4 DEF WritersOwe
      <3>2. QED
        BY <1>4, <2>2, <3>1, Amounts
    <2>5. RowOwes'
      <3> SUFFICES ASSUME row # None PROVE RowOwes'
        BY <1>1 DEF RowOwes
      <3>1. ASSUME NEW c \in Beats, NEW z \in Tabs, beat'[c].pc = "get", beat'[c].tab = z,
                   row.tab = z
            PROVE  Level(z)' <= beat'[c].at
        <4>1. c # b /\ Level(z) <= beat[c].at
          BY <1>2, <1>4, <3>1 DEF RowOwes
        <4>2. QED
          BY <1>4, <2>2, <4>1, Amounts
      <3>2. \A z \in Tabs : AllPay(z)' => Owed + S <= row.last
        BY <1>8 DEF RowOwes
      <3>3. QED
        BY <1>1, <2>1, <3>1, <3>2 DEF RowOwes
    <2>6. QED
      BY <1>6, <1>7, <2>3, <2>4, <2>5
  <1>11. QED
    BY <1>9, <1>10

\* After a write the row is recent for every beat under way.
LEMMA WriteRecent ==
  ASSUME AfkIInv, AfkTypeOK', NEW b \in Beats, Write(b)
  PROVE  /\ beat[b].pc = "set" /\ beat[b].tab \in Tabs /\ Under(b)
         /\ row' # None /\ row'.last = beat[b].at /\ row'.tab = beat[b].tab
         /\ beat[b].at <= now /\ now <= beat[b].at + Latency
         /\ UNCHANGED <<window, now, credits, doubled>>
         /\ Others(b)
         /\ beat'[b].pc \in {"idle", "pay"}
         /\ RowRecent'
  <1> USE DEF AfkIInv
  <1>1. /\ beat[b].pc = "set" /\ beat[b].tab \in Tabs /\ Under(b)
        /\ UNCHANGED <<window, now, credits, doubled>>
    BY DEF Write, AfkTypeOK, BeatFits, Under
  <1>2. row'.last = beat[b].at /\ row'.tab = beat[b].tab /\ row' \in RowState
    BY <1>1 DEF Write, AfkTypeOK, RowState, BeatState
  <1>3. row' # None
    BY <1>2, AfkAssumption DEF AfkAssumption, RowState
  <1>4. beat[b].at <= now /\ now <= beat[b].at + Latency
    BY <1>1 DEF Timely
  <1>5. Others(b)
    BY DEF Write, Others, AfkTypeOK
  <1>6. beat'[b].pc \in {"idle", "pay"} /\ beat'[b].at \in {0, beat[b].at}
    BY DEF Write, AfkTypeOK, Idle, BeatState
  <1>7. ASSUME NEW c \in Beats, Under(c) PROVE beat[c].at <= row'.last + Latency
    BY <1>2, <1>4, <1>7, Amounts DEF Timely
  <1>8. RowRecent'
    <2>1. ASSUME NEW c \in Beats, beat'[c].earned \/ beat'[c].pc = "set"
          PROVE  beat'[c].at <= row'.last + Latency
      <3>1. CASE c = b
        BY <1>2, <1>6, <1>7, <1>1, <3>1, Amounts
      <3>2. CASE c # b
        BY <1>5, <1>7, <2>1, <3>2 DEF Others, Under, AfkTypeOK, BeatFits
      <3>3. QED
        BY <3>1, <3>2
    <2>2. QED
      BY <2>1 DEF RowRecent
  <1>9. QED
    BY <1>1, <1>2, <1>3, <1>4, <1>5, <1>6, <1>8

LEMMA WriteEarnedKeeps ==
  ASSUME AfkIInv, AfkTypeOK', Prompt, NEW b \in Beats, Write(b), beat[b].earned
  PROVE  AfkIInv'
  <1> USE DEF AfkIInv
  <1> DEFINE S == ShortestInterval
  <1>1. /\ beat[b].pc = "set" /\ beat[b].tab \in Tabs /\ Under(b)
        /\ row' # None /\ row'.last = beat[b].at /\ row'.tab = beat[b].tab
        /\ beat[b].at <= now /\ now <= beat[b].at + Latency
        /\ UNCHANGED <<window, now, credits, doubled>>
        /\ Others(b) /\ RowRecent'
    BY WriteRecent
  <1>2. /\ beat'[b].pc = "pay" /\ beat'[b].tab = beat[b].tab /\ beat'[b].at = beat[b].at
        /\ beat'[b].earned
    BY DEF Write, AfkTypeOK, BeatState
  <1>3. \A c \in Beats : c # b => beat'[c] = beat[c]
    BY <1>1 DEF Others
  <1>4. Owed' = Owed /\ Owed \in Int /\ S \in Nat \ {0}
    <2>1. Paid' = Paid
      BY <1>1, <1>2, <1>3, PaidStays DEF Under
    <2>2. QED
      BY <2>1, OwedMoves
  <1>5. NoneEarns
    BY <1>2, <1>3 DEF NoneEarns
  <1>6. \A z : Level(z)' <= Level(z) /\ Level(z) \in Int /\ Level(z)' \in Int
    BY <1>4, <1>5, LevelMoves DEF Level
  <1>7. Timely' /\ OneEarner' /\ EarnersOwe' /\ NoRowYet'
    BY <1>1, <1>2, <1>3, <1>4 DEF Timely, OneEarner, EarnersOwe, NoRowYet, Under
  <1>8. WritersOwe'
    <2> SUFFICES ASSUME NEW c \in Beats, NEW z \in Tabs, beat'[c].pc = "set", beat'[c].tab = z
                 PROVE  Level(z)' <= beat'[c].at
      BY DEF WritersOwe
    <2>1. c # b /\ Level(z) <= beat[c].at
      BY <1>2, <1>3 DEF WritersOwe
    <2>2. QED
      BY <1>3, <1>6, <2>1, Amounts
  <1>9. RowOwes'
    <2>1. Owed + S <= row'.last
      BY <1>1 DEF EarnersOwe
    <2>2. ASSUME NEW c \in Beats, NEW z \in Tabs, beat'[c].pc = "get", beat'[c].tab = z,
                 row'.tab = z
          PROVE  Level(z)' <= beat'[c].at
      <3>1. c # b /\ beat[c].pc = "get"
        BY <1>2, <1>3, <2>2
      <3>2. now <= beat[c].at + Latency
        BY <3>1 DEF Timely, Under
      <3>3. ~Rival(z)'
        BY <1>1, <1>2, <1>7, <2>2 DEF Rival, OneEarner
      <3>4. Level(z)' = Owed
        BY <1>4, <3>3 DEF Level
      <3>5. QED
        BY <1>1, <1>3, <1>4, <2>1, <3>1, <3>2, <3>4, Amounts DEF Prompt
    <2>3. QED
      BY <1>1, <1>4, <2>1, <2>2, Amounts DEF RowOwes
  <1>10. QED
    BY <1>1, <1>7, <1>8, <1>9

LEMMA WriteUnearnedKeeps ==
  ASSUME AfkIInv, AfkTypeOK', Prompt, NEW b \in Beats, Write(b), ~beat[b].earned
  PROVE  AfkIInv'
  <1> USE DEF AfkIInv
  <1> DEFINE S == ShortestInterval
  <1>1. /\ beat[b].pc = "set" /\ beat[b].tab \in Tabs /\ Under(b)
        /\ row' # None /\ row'.last = beat[b].at /\ row'.tab = beat[b].tab
        /\ beat[b].at <= now /\ now <= beat[b].at + Latency
        /\ UNCHANGED <<window, now, credits, doubled>>
        /\ RowRecent'
    BY WriteRecent
  <1>2. beat' = [beat EXCEPT ![b] = Idle]
    BY DEF Write
  <1>3. /\ Others(b) /\ NoneEarns
        /\ beat'[b].pc = "idle" /\ beat'[b].tab = None /\ ~beat'[b].earned
        /\ Owed' = IF Alone(b) THEN Owed ELSE Owed - S
    BY <1>1, <1>2, Ends
  <1>4. Owed' <= Owed /\ Owed' \in Int /\ Owed \in Int /\ S \in Nat \ {0}
    BY <1>3, Amounts
  <1>5. \A z : /\ Level(z)' <= Level(z) /\ Level(z) \in Int /\ Level(z)' \in Int
               /\ ~Alone(b) => Level(z)' <= Level(z) - S
    BY <1>3, <1>4, LevelMoves DEF Level
  <1>6. \A c \in Beats : c # b => beat'[c] = beat[c]
    BY <1>3 DEF Others
  <1>7. None \notin Tabs
    BY AfkAssumption DEF AfkAssumption
  <1>8. Timely' /\ OneEarner' /\ NoRowYet'
    BY <1>1, <1>3, <1>6 DEF Timely, OneEarner, NoRowYet, Under
  <1>9. EarnersOwe'
    BY <1>3, <1>4, <1>6, Amounts DEF EarnersOwe
  <1>10. WritersOwe'
    <2> SUFFICES ASSUME NEW c \in Beats, NEW z \in Tabs, beat'[c].pc = "set", beat'[c].tab = z
                 PROVE  Level(z)' <= beat'[c].at
      BY DEF WritersOwe
    <2>1. c # b /\ Level(z) <= beat[c].at
      BY <1>3, <1>6 DEF WritersOwe
    <2>2. QED
      BY <1>5, <1>6, <2>1, Amounts
  <1>11. Level(beat[b].tab) <= beat[b].at /\ Owed <= beat[b].at
    <2>1. Level(beat[b].tab) <= beat[b].at
      BY <1>1 DEF WritersOwe
    <2>2. QED
      BY <1>4, <2>1, Amounts DEF Level
  <1>12. ASSUME NEW z \in Tabs, AllPay(z)' PROVE Owed' + S <= row'.last
    <2>1. PICK d \in Beats : d # b /\ beat[d].tab = z /\ beat[d].pc = "pay"
      BY <1>3, <1>6, <1>7, <1>12 DEF AllPay
    <2>2. CASE beat[b].tab = z
      <3>1. ~Alone(b)
        BY <2>1, <2>2 DEF Alone
      <3>2. QED
        BY <1>1, <1>3, <1>4, <1>11, <3>1, Amounts
    <2>3. CASE beat[b].tab # z
      <3>1. Rival(beat[b].tab)
        BY <2>1, <2>3 DEF Rival, AfkTypeOK, BeatFits
      <3>2. Owed + S <= beat[b].at
        BY <1>11, <3>1 DEF Level
      <3>3. QED
        BY <1>1, <1>4, <3>2, Amounts
    <2>4. QED
      BY <2>2, <2>3
  <1>13. ASSUME NEW c \in Beats, NEW z \in Tabs, beat'[c].pc = "get", beat'[c].tab = z,
                row'.tab = z
         PROVE  Level(z)' <= beat'[c].at
    <2>1. c # b /\ beat[c].pc = "get" /\ beat[c].tab = z /\ z = beat[b].tab
      BY <1>1, <1>3, <1>6, <1>13
    <2>2. now <= beat[c].at + Latency
      BY <2>1 DEF Timely, Under
    <2>3. ~Alone(b)
      BY <2>1 DEF Alone
    <2>4. Level(z)' <= Level(z) - S /\ Level(z) <= beat[b].at
      BY <1>5, <1>11, <2>1, <2>3
    <2>5. Level(z) \in Int /\ Level(z)' \in Int
      BY <1>5
    <2>6. QED
      BY <1>1, <1>4, <1>6, <2>1, <2>2, <2>4, <2>5, Amounts DEF Prompt
  <1>14. RowOwes'
    BY <1>1, <1>4, <1>11, <1>12, <1>13, Amounts DEF RowOwes
  <1>15. QED
    BY <1>1, <1>8, <1>9, <1>10, <1>14

LEMMA ReadFields ==
  ASSUME AfkTypeOK, NEW b \in Beats, Read(b), beat' # [beat EXCEPT ![b] = Idle]
  PROVE  /\ beat[b].pc = "get" /\ beat[b].tab \in Tabs
         /\ UNCHANGED <<row, window, now, credits, doubled>>
         /\ beat'[b].pc = "set" /\ beat'[b].tab = beat[b].tab /\ beat'[b].at = beat[b].at
         /\ beat'[b].earned = Earns(b) /\ ~beat[b].earned
         /\ \A c \in Beats : c # b => beat'[c] = beat[c]
         /\ Live(b) => row.tab = beat[b].tab
  <1>1. /\ beat[b].pc = "get" /\ UNCHANGED <<row, window, now, credits, doubled>>
        /\ ~(Live(b) /\ row.tab # beat[b].tab)
        /\ beat' = [beat EXCEPT
            ![b].pc = "set",
            ![b].started = IF Live(b) THEN row.started ELSE beat[b].at,
            ![b].earned = Earns(b)]
    BY DEF Read
  <1>2. PICK st, ea : beat' = [beat EXCEPT ![b].pc = "set", ![b].started = st, ![b].earned = ea]
                      /\ ea = Earns(b)
    BY <1>1
  <1>3. beat \in [Beats -> BeatState] /\ beat[b].tab \in Tabs /\ ~beat[b].earned
    BY <1>1 DEF AfkTypeOK, BeatFits
  <1>4. /\ beat'[b].pc = "set" /\ beat'[b].tab = beat[b].tab /\ beat'[b].at = beat[b].at
        /\ beat'[b].earned = ea
        /\ \A c \in Beats : c # b => beat'[c] = beat[c]
    BY <1>2, <1>3 DEF BeatState
  <1>5. QED
    BY <1>1, <1>2, <1>3, <1>4

LEMMA ReadKeeps ==
  ASSUME AfkIInv, AfkTypeOK', Prompt, NEW b \in Beats, Read(b),
         beat' # [beat EXCEPT ![b] = Idle]
  PROVE  AfkIInv'
  <1> USE DEF AfkIInv
  <1> DEFINE S == ShortestInterval
  <1>1. /\ beat[b].pc = "get" /\ beat[b].tab \in Tabs
        /\ UNCHANGED <<row, window, now, credits, doubled>>
        /\ beat'[b].pc = "set" /\ beat'[b].tab = beat[b].tab /\ beat'[b].at = beat[b].at
        /\ beat'[b].earned = Earns(b) /\ ~beat[b].earned
        /\ \A c \in Beats : c # b => beat'[c] = beat[c]
        /\ Live(b) => row.tab = beat[b].tab
    BY ReadFields
  <1>2. Owed' = Owed /\ Owed \in Int /\ S \in Nat \ {0}
    <2>1. Paid' = Paid
      BY <1>1, PaidStays DEF Under
    <2>2. QED
      BY <2>1, OwedMoves
  <1>3. Timely'
    BY <1>1 DEF Timely, Under
  <1>4. beat[b].at <= now /\ now <= beat[b].at + Latency
    BY <1>1 DEF Timely, Under
  <1>5. \A z \in Tabs : AllPay(z)' => AllPay(z)
    BY <1>1 DEF AllPay
  <1>6. /\ EffectiveWindow(window).max \in Nat /\ EffectiveWindow(window).min \in Nat
        /\ S <= EffectiveWindow(window).min
        /\ EffectiveWindow(window).min < EffectiveWindow(window).max
    BY IntervalBounds DEF AfkTypeOK
  <1>7. row # None /\ ~Live(b) => row.last + S <= beat[b].at
    BY <1>6, Amounts DEF Live, Elapsed
  <1>8. CASE ~Earns(b)
    <2>1. \A a \in Beats : beat'[a].earned = beat[a].earned /\ beat'[a].tab = beat[a].tab
      BY <1>1, <1>8 DEF AfkTypeOK, BeatState
    <2>2. \A z : Level(z)' = Level(z)
      BY <1>2, <2>1 DEF Level, Rival
    <2>3. OneEarner' /\ EarnersOwe' /\ NoRowYet'
      BY <1>1, <1>2, <1>8, <2>1 DEF OneEarner, EarnersOwe, NoRowYet
    <2>4. Level(beat[b].tab) <= beat[b].at
      <3>1. CASE row = None
        BY <3>1, Amounts DEF NoRowYet, Level, Rival
      <3>2. CASE row # None /\ row.tab = beat[b].tab
        BY <1>1, <3>2 DEF RowOwes
      <3>3. CASE row # None /\ row.tab # beat[b].tab
        <4>1. row.last + S <= beat[b].at /\ Owed <= row.last
          BY <1>1, <1>7, <3>3 DEF RowOwes
        <4>2. QED
          BY <1>2, <3>3, <4>1, Amounts DEF Level
      <3>4. QED
        BY <3>1, <3>2, <3>3
    <2>5. WritersOwe'
      <3> SUFFICES ASSUME NEW c \in Beats, NEW z \in Tabs, beat'[c].pc = "set", beat'[c].tab = z
                   PROVE  Level(z) <= beat'[c].at
        BY <2>2 DEF WritersOwe
      <3>1. CASE c = b
        BY <1>1, <2>4, <3>1
      <3>2. CASE c # b
        BY <1>1, <3>2 DEF WritersOwe
      <3>3. QED
        BY <3>1, <3>2
    <2>6. RowOwes'
      <3> SUFFICES ASSUME row # None PROVE RowOwes'
        BY <1>1 DEF RowOwes
      <3>1. \A c \in Beats, z \in Tabs :
              beat'[c].pc = "get" /\ beat'[c].tab = z /\ row.tab = z => Level(z)' <= beat'[c].at
        BY <1>1, <2>2 DEF RowOwes
      <3>2. QED
        BY <1>1, <1>2, <1>5, <3>1 DEF RowOwes
    <2>7. RowRecent'
      <3> SUFFICES ASSUME row # None PROVE RowRecent'
        BY <1>1 DEF RowRecent
      <3>1. \A a \in Beats : beat'[a].earned =>
              row.tab = beat'[a].tab \/ beat'[a].at <= row.last + Latency
        BY <1>1, <1>8 DEF RowRecent
      <3>2. \A c \in Beats : beat'[c].pc = "set" /\ row.tab # beat'[c].tab =>
              \/ row.last + S <= beat'[c].at
              \/ beat'[c].at <= row.last + Latency
        BY <1>1, <1>7 DEF RowRecent
      <3>3. QED
        BY <1>1, <3>1, <3>2 DEF RowRecent
    <2>8. QED
      BY <1>3, <2>3, <2>5, <2>6, <2>7
  <1>9. CASE Earns(b)
    <2>1. /\ row # None /\ row.tab = beat[b].tab
          /\ row.last + S <= beat[b].at
      BY <1>6, <1>9, Amounts DEF Earns, Live, Elapsed
    <2>2. \A a \in Beats : beat[a].earned => beat[a].tab = beat[b].tab
      <3> SUFFICES ASSUME NEW a \in Beats, beat[a].earned, beat[a].tab # beat[b].tab PROVE FALSE
        OBVIOUS
      <3>1. beat[a].at <= row.last + Latency
        BY <2>1 DEF RowRecent
      <3>2. now <= beat[a].at + Latency
        BY DEF Timely, AfkTypeOK, BeatFits, Under
      <3>3. QED
        BY <1>2, <1>4, <2>1, <3>1, <3>2, Amounts DEF Prompt
    <2>3. \A a \in Beats : beat'[a].earned => beat'[a].tab = beat[b].tab
      BY <1>1, <2>2
    <2>4. OneEarner' /\ NoRowYet'
      BY <1>1, <2>1, <2>3 DEF OneEarner, NoRowYet
    <2>5. Owed + S <= beat[b].at /\ Owed <= row.last
      BY <1>2, <2>1, Amounts DEF RowOwes
    <2>6. EarnersOwe'
      BY <1>1, <1>2, <2>5 DEF EarnersOwe
    <2>7. Level(beat[b].tab)' = Owed /\ \A z : Level(z) \in Int
      <3>1. PICK t : t = beat[b].tab
        OBVIOUS
      <3>2. ~Rival(t)'
        BY <2>3, <3>1 DEF Rival
      <3>3. Level(t)' = Owed
        BY <1>2, <3>2 DEF Level
      <3>4. QED
        BY <1>1, <1>2, <3>1, <3>3 DEF Level
    <2>8. \A z : Level(z)' \in {Owed, Owed + S}
      BY <1>2 DEF Level
    <2>9. WritersOwe'
      <3> SUFFICES ASSUME NEW c \in Beats, NEW z \in Tabs, beat'[c].pc = "set", beat'[c].tab = z
                   PROVE  Level(z)' <= beat'[c].at
        BY DEF WritersOwe
      <3>1. CASE z = beat[b].tab
        <4>1. Level(z)' = Owed
          BY <1>1, <2>7, <3>1
        <4>2. CASE c = b
          BY <1>1, <1>2, <2>5, <4>1, <4>2, Amounts
        <4>3. CASE c # b
          <5>1. Level(z) <= beat[c].at
            BY <1>1, <4>3 DEF WritersOwe
          <5>2. QED
            BY <1>1, <1>2, <4>1, <4>3, <5>1, Amounts DEF Level
        <4>4. QED
          BY <4>2, <4>3
      <3>2. CASE z # beat[b].tab
        <4>1. c # b /\ beat[c].pc = "set" /\ beat[c].tab = z
          BY <1>1, <3>2
        <4>2. now <= beat[c].at + Latency
          BY <4>1 DEF Timely, Under
        <4>3. row.last + S <= beat[c].at \/ beat[c].at <= row.last + Latency
          BY <2>1, <3>2, <4>1 DEF RowRecent
        <4>4. row.last + S <= beat[c].at
          BY <1>2, <1>4, <2>1, <4>2, <4>3, Amounts DEF Prompt
        <4>5. QED
          BY <1>1, <1>2, <2>1, <2>5, <2>8, <4>1, <4>4, Amounts
      <3>3. QED
        BY <3>1, <3>2
    <2>10. RowOwes'
      <3>1. ASSUME NEW c \in Beats, NEW z \in Tabs, beat'[c].pc = "get", beat'[c].tab = z,
                   row.tab = z
            PROVE  Level(z)' <= beat'[c].at
        <4>1. c # b /\ Level(z) <= beat[c].at
          BY <1>1, <2>1, <3>1 DEF RowOwes
        <4>2. Level(z)' = Owed
          BY <1>1, <2>1, <2>7, <3>1
        <4>3. QED
          BY <1>1, <1>2, <4>1, <4>2, Amounts DEF Level
      <3>2. QED
        BY <1>1, <1>2, <1>5, <2>1, <3>1 DEF RowOwes
    <2>11. RowRecent'
      <3>1. \A a \in Beats : beat'[a].earned =>
              row.tab = beat'[a].tab \/ beat'[a].at <= row.last + Latency
        BY <2>1, <2>3
      <3>2. \A c \in Beats : beat'[c].pc = "set" /\ row.tab # beat'[c].tab =>
              \/ row.last + S <= beat'[c].at
              \/ beat'[c].at <= row.last + Latency
        BY <1>1, <2>1 DEF RowRecent
      <3>3. QED
        BY <1>1, <3>1, <3>2 DEF RowRecent
    <2>12. QED
      BY <1>3, <2>4, <2>6, <2>9, <2>10, <2>11
  <1>10. QED
    BY <1>8, <1>9

LEMMA AfkStep == Prompt /\ AfkIInv /\ [Next]_vars => AfkIInv'
  <1> SUFFICES ASSUME Prompt, AfkIInv, [Next]_vars PROVE AfkIInv'
    OBVIOUS
  <1> AfkTypeOK /\ AfkTypeOK'
    BY TypesStep DEF AfkIInv
  <1>1. ASSUME NEW b \in Beats, NEW t \in Tabs, Begin(b, t) PROVE AfkIInv'
    BY <1>1, BeginKeeps
  <1>2. ASSUME NEW b \in Beats, Read(b) PROVE AfkIInv'
    <2>1. CASE beat' = [beat EXCEPT ![b] = Idle]
      <3>1. Under(b) /\ UNCHANGED <<row, window, now, credits, doubled>>
        BY <1>2 DEF Read, Under
      <3>2. QED
        BY <2>1, <3>1, EndKeeps
    <2>2. CASE beat' # [beat EXCEPT ![b] = Idle]
      BY <1>2, <2>2, ReadKeeps
    <2>3. QED
      BY <2>1, <2>2
  <1>3. ASSUME NEW b \in Beats, Write(b) PROVE AfkIInv'
    BY <1>3, WriteEarnedKeeps, WriteUnearnedKeeps
  <1>4. ASSUME NEW b \in Beats, Pay(b) PROVE AfkIInv'
    BY <1>4, PayKeeps
  <1>5. ASSUME NEW b \in Beats, Fail(b) PROVE AfkIInv'
    <2>1. /\ Under(b) /\ beat' = [beat EXCEPT ![b] = Idle]
          /\ UNCHANGED <<row, window, now, credits, doubled>>
      BY <1>5 DEF Fail, Under, AfkTypeOK, BeatFits
    <2>2. QED
      BY <2>1, EndKeeps
  <1>6. CASE UNCHANGED <<row, beat, credits, doubled>> /\ now <= now' /\
             \A b \in Beats : Under(b) => now' <= beat[b].at + Latency
    <2>1. Paid' = Paid
      BY <1>6, PaidStays DEF Under
    <2>2. Owed' = Owed
      BY <2>1, OwedMoves
    <2>3. \A z : Level(z)' = Level(z)
      BY <1>6, <2>2 DEF Level, Rival
    <2>4. Timely' /\ OneEarner' /\ EarnersOwe' /\ WritersOwe' /\ NoRowYet' /\ RowRecent'
      <3>1. Timely'
        <4>1. now' \in Nat
          BY DEF AfkTypeOK
        <4>2. QED
          BY <1>6, <4>1, Amounts DEF AfkIInv, Timely, Under
      <3>2. QED
        BY <1>6, <2>2, <2>3, <3>1
        DEF AfkIInv, OneEarner, EarnersOwe, WritersOwe, NoRowYet, RowRecent
    <2>5. RowOwes'
      <3>1. row # None => row.last <= now'
        <4>1. now' \in Nat
          BY DEF AfkTypeOK
        <4>2. QED
          BY <1>6, <4>1, Amounts DEF AfkIInv, RowOwes
      <3>2. \A t : AllPay(t)' <=> AllPay(t)
        BY <1>6 DEF AllPay
      <3>3. QED
        BY <1>6, <2>2, <2>3, <3>1, <3>2 DEF AfkIInv, RowOwes
    <2>6. QED
      BY <2>4, <2>5 DEF AfkIInv
  <1>7. CASE Configure \/ UNCHANGED vars
    BY <1>6, <1>7, Amounts DEF Configure, vars, AfkIInv, Timely
  <1>8. CASE Tick
    <2>1. now' = now + 1 /\ UNCHANGED <<row, beat, credits, doubled>>
      BY <1>8 DEF Tick
    <2>2. \A b \in Beats : Under(b) => now' <= beat[b].at + Latency
      BY <1>8, <2>1, Amounts DEF Tick, Under, Idle
    <2>3. QED
      BY <1>6, <2>1, <2>2, Amounts
  <1>9. QED
    BY <1>1, <1>2, <1>3, <1>4, <1>5, <1>7, <1>8 DEF Next

LEMMA AfkStarts == Init => AfkIInv
  <1> SUFFICES ASSUME Init PROVE AfkIInv
    OBVIOUS
  <1>1. /\ row = None /\ window = DefaultWindow /\ now = 0 /\ credits = 0 /\ doubled = 0
        /\ beat = [b \in Beats |-> Idle]
    BY DEF Init
  <1>2. None \notin Tabs
    BY AfkAssumption DEF AfkAssumption
  <1>3. AfkTypeOK
    BY <1>1, EndFits DEF AfkTypeOK
  <1>4. \A b \in Beats : beat[b].pc = "idle" /\ beat[b].tab = None /\ ~beat[b].earned
    BY <1>1 DEF Idle
  <1>5. Serving = {} /\ ServedTabs = {}
    BY <1>2, <1>4 DEF Serving, ServedTabs, Under
  <1>6. Paid = 0
    BY <1>1, <1>5, FS_EmptySet DEF Paid
  <1>7. Owed = 0
    BY <1>6, IntervalBounds DEF Owed
  <1>8. Timely /\ OneEarner /\ EarnersOwe /\ WritersOwe /\ NoRowYet /\ RowOwes /\ RowRecent
    BY <1>1, <1>4, <1>7
    DEF Timely, OneEarner, EarnersOwe, WritersOwe, NoRowYet, RowOwes, RowRecent, Under
  <1>9. QED
    BY <1>3, <1>8 DEF AfkIInv

(* coinsvc.Heartbeat: a user never earns faster than one credit per        *)
(* shortest interval, beats sent before the last was answered apart, for   *)
(* any tabs, requests, windows and failures, as long as a heartbeat is     *)
(* served in less than half that interval.                                 *)
THEOREM EarnsAtRate == ASSUME Prompt PROVE Spec => []EarnRate
  <1>1. AfkIInv => EarnRate
    <2> SUFFICES ASSUME AfkIInv PROVE EarnRate
      OBVIOUS
    <2>1. AfkTypeOK
      BY DEF AfkIInv
    <2>2. Owed <= now
      BY <2>1, Amounts DEF AfkIInv, NoRowYet, RowOwes
    <2>3. PICK n \in Nat, p \in Int, k \in Int :
            n = ShortestInterval /\ p = Paid /\ k = credits - doubled /\ k <= p
      BY <2>1, PaidAtLeast, IntervalBounds DEF AfkTypeOK
    <2>4. k * n <= p * n
      BY <2>3, Monotone
    <2>5. k * n \in Int /\ p * n \in Int
      OBVIOUS
    <2>6. QED
      BY <2>1, <2>2, <2>3, <2>4, <2>5, Amounts DEF EarnRate, Owed
  <1>2. QED
    BY <1>1, AfkStarts, AfkStep, PTL DEF Spec

(***************************************************************************)
(* Sessions, administrators and API keys                                   *)
(***************************************************************************)
TokenSteps == {"rotate", "load", "issue"}
AllSteps == TokenSteps \cup {"idle", "password", "revoke", "register", "role", "remove", "key"}

TokenState == [state : {"unissued", "live", "gone"}, user : Accounts \cup {"nobody"},
               epoch : Nat]
RequestState == [pc : AllSteps, user : Accounts \cup {"nobody"}, token : Tokens \cup {0},
                 epoch : Nat, admin : BOOLEAN, stale : BOOLEAN]

\* What a request knows of its account and token fits the step it is at.
Fits(r) ==
  /\ r.pc = "idle" => r = NoRequest
  /\ r.pc # "idle" => r.user \in Accounts
  /\ r.token # 0 => r.pc \in TokenSteps
  /\ r.pc \in {"rotate", "load"} => r.token # 0
  /\ r.pc = "register" => r.epoch = 0

SessTypeOK ==
  /\ role \in [Accounts -> {"none", "user", "admin", "deleted"}]
  /\ password \in [Accounts -> Nat]
  /\ keys \in [Accounts -> Nat]
  /\ token \in [Tokens -> TokenState]
  /\ request \in [Requests -> RequestState]
  /\ issued \in [Tokens -> Nat]
  /\ \A t \in Tokens : token[t].state = "live" => token[t].user \in Accounts
  /\ \A p \in Requests : Fits(request[p])

-----------------------------------------------------------------------------
(* How a step changes one request.                                         *)

LEMMA NoRequestTyped == NoRequest \in RequestState /\ Fits(NoRequest)
  BY DEF NoRequest, RequestState, AllSteps, TokenSteps, Fits

LEMMA EndTyped ==
  ASSUME SessTypeOK, NEW p \in Requests, EndRequest(p)
  PROVE  /\ request' \in [Requests -> RequestState]
         /\ \A q \in Requests : Fits(request'[q])
  BY NoRequestTyped DEF SessTypeOK, EndRequest

LEMMA BeginTyped ==
  ASSUME SessTypeOK, NEW p \in Requests, NEW r \in RequestState, Fits(r), BeginRequest(p, r)
  PROVE  /\ request' \in [Requests -> RequestState]
         /\ \A q \in Requests : Fits(request'[q])
  BY DEF SessTypeOK, BeginRequest

LEMMA GoOnTyped ==
  ASSUME SessTypeOK, NEW p \in Requests, NEW step \in AllSteps \ {"idle", "register"}, GoOn(p, step),
         ~At(p, "idle"),
         request[p].token # 0 => step \in TokenSteps,
         step \in {"rotate", "load"} => request[p].token # 0
  PROVE  /\ request' \in [Requests -> RequestState]
         /\ \A q \in Requests : Fits(request'[q])
  <1> DEFINE r == [request[p] EXCEPT !.pc = step]
  <1>1. request[p] \in RequestState /\ Fits(request[p])
    BY DEF SessTypeOK
  <1>2. r \in RequestState
    BY <1>1 DEF RequestState
  <1>3. Fits(r)
    BY <1>1 DEF Fits, RequestState, At
  <1>4. request' = [request EXCEPT ![p] = r]
    BY DEF GoOn
  <1> HIDE DEF r
  <1>5. QED
    BY <1>2, <1>3, <1>4 DEF SessTypeOK

-----------------------------------------------------------------------------
(* Types.                                                                  *)

LEMMA RevokedTyped ==
  ASSUME SessTypeOK, NEW u, NEW kept
  PROVE  /\ Revoked(u, kept) \in [Tokens -> TokenState]
         /\ \A t \in Tokens : Revoked(u, kept)[t].state = "live" =>
                             Revoked(u, kept)[t].user \in Accounts
  BY DEF SessTypeOK, Revoked, Valid, TokenState

LEMMA TokenGoes ==
  ASSUME SessTypeOK, NEW t \in Tokens,
         token' = [token EXCEPT ![t].state = "gone"]
  PROVE  /\ token' \in [Tokens -> TokenState]
         /\ \A s \in Tokens : token'[s].state = "live" => token'[s].user \in Accounts
  <1>1. token[t] \in TokenState
    BY DEF SessTypeOK
  <1>2. [token[t] EXCEPT !.state = "gone"] \in TokenState
        /\ [token[t] EXCEPT !.state = "gone"].user = token[t].user
    BY <1>1 DEF TokenState
  <1>3. QED
    BY <1>2 DEF SessTypeOK

LEMMA OutdatedTyped ==
  ASSUME SessTypeOK, NEW p \in Requests, NEW u, request' = Outdated(u, p)
  PROVE  /\ request' \in [Requests -> RequestState]
         /\ \A q \in Requests : Fits(request'[q])
  <1>1. ASSUME NEW q \in Requests
        PROVE  request'[q] \in RequestState /\ Fits(request'[q])
    <2> DEFINE r == [request[q] EXCEPT !.stale = TRUE]
    <2>1. request[q] \in RequestState /\ Fits(request[q])
      BY DEF SessTypeOK
    <2>2. r \in RequestState
      BY <2>1 DEF RequestState
    <2>3. r.pc = request[q].pc /\ r.user = request[q].user /\ r.token = request[q].token
          /\ r.epoch = request[q].epoch
      BY <2>1 DEF RequestState
    <2>4. request[q].pc # "idle" => Fits(r)
      BY <2>1, <2>3 DEF Fits
    <2>5. \/ request'[q] = NoRequest
          \/ request'[q] = request[q]
          \/ request'[q] = r /\ request[q].pc # "idle"
      BY DEF Outdated
    <2> HIDE DEF r
    <2>6. QED
      BY <2>1, <2>2, <2>4, <2>5, NoRequestTyped
  <1>2. QED
    BY <1>1 DEF Outdated

\* A request of u that begins without a token.
Fresh(u) ==
  {r \in RequestState :
     /\ Fits(r) /\ r.pc # "idle" /\ r.user = u /\ r.token = 0
     /\ r.pc = "issue" => r.epoch = password[u]}

LEMMA StepFresh ==
  ASSUME SessTypeOK, NEW p \in Requests, NEW u \in Accounts, AccountStep(p, u)
  PROVE  \E r \in Fresh(u) : BeginRequest(p, r)
  <1> USE DEF SessTypeOK, Fresh, NoRequest, RequestState, AllSteps, TokenSteps, Fits
  <1>1. CASE BeginRegister(p, u)
    <2> DEFINE r == [NoRequest EXCEPT !.pc = "register", !.user = u, !.admin = Count = 0]
    <2>1. r \in Fresh(u)
      OBVIOUS
    <2>2. BeginRequest(p, r)
      BY <1>1 DEF BeginRegister
    <2> HIDE DEF r
    <2>3. QED
      BY <2>1, <2>2
  <1>2. CASE Login(p, u)
    <2> DEFINE r == [NoRequest EXCEPT !.pc = "issue", !.user = u, !.epoch = password[u]]
    <2>1. r \in Fresh(u)
      OBVIOUS
    <2>2. BeginRequest(p, r)
      BY <1>2 DEF Login
    <2> HIDE DEF r
    <2>3. QED
      BY <2>1, <2>2
  <1>3. CASE ChangePassword(p, u)
    <2> DEFINE r == [NoRequest EXCEPT !.pc = "password", !.user = u]
    <2>1. r \in Fresh(u)
      OBVIOUS
    <2>2. BeginRequest(p, r)
      BY <1>3 DEF ChangePassword
    <2> HIDE DEF r
    <2>3. QED
      BY <2>1, <2>2
  <1>4. CASE CreateAPIKey(p, u) \/ CountFails(p, u)
    <2> DEFINE r == [NoRequest EXCEPT !.pc = "key", !.user = u]
    <2>1. r \in Fresh(u)
      OBVIOUS
    <2>2. BeginRequest(p, r)
      BY <1>4 DEF CreateAPIKey, CountFails
    <2> HIDE DEF r
    <2>3. QED
      BY <2>1, <2>2
  <1>5. ASSUME NEW by \in Accounts, Promote(p, by, u)
        PROVE  \E r \in Fresh(u) : BeginRequest(p, r)
    <2> DEFINE r == [NoRequest EXCEPT !.pc = "role", !.user = u, !.admin = TRUE]
    <2>1. r \in Fresh(u)
      OBVIOUS
    <2>2. BeginRequest(p, r)
      BY <1>5 DEF Promote, BeginAdmin
    <2> HIDE DEF r
    <2>3. QED
      BY <2>1, <2>2
  <1>6. ASSUME NEW by \in Accounts, Demote(p, by, u)
        PROVE  \E r \in Fresh(u) : BeginRequest(p, r)
    <2> DEFINE r == [NoRequest EXCEPT !.pc = "role", !.user = u]
    <2>1. r \in Fresh(u)
      OBVIOUS
    <2>2. BeginRequest(p, r)
      BY <1>6 DEF Demote, BeginAdmin
    <2> HIDE DEF r
    <2>3. QED
      BY <2>1, <2>2
  <1>7. ASSUME NEW by \in Accounts, AdminDelete(p, by, u) \/ AdminDeleteUnchecked(p, by, u)
        PROVE  \E r \in Fresh(u) : BeginRequest(p, r)
    <2> DEFINE r == [NoRequest EXCEPT !.pc = "remove", !.user = u]
    <2>1. r \in Fresh(u)
      OBVIOUS
    <2>2. BeginRequest(p, r)
      BY <1>7 DEF AdminDelete, AdminDeleteUnchecked, BeginAdmin
    <2> HIDE DEF r
    <2>3. QED
      BY <2>1, <2>2
  <1>8. QED
    BY <1>1, <1>2, <1>3, <1>4, <1>5, <1>6, <1>7 DEF AccountStep, AdminResetUserPassword

LEMMA StepKeeps ==
  ASSUME NEW p \in Requests, NEW u \in Accounts, AccountStep(p, u)
  PROVE  UNCHANGED <<role, password, keys, token, issued, escaped, contested, elevated>>
  BY DEF AccountStep, AdminResetUserPassword, BeginRegister, Login, ChangePassword,
         CreateAPIKey, CountFails, Promote, Demote, AdminDelete, AdminDeleteUnchecked,
         BeginAdmin, accountVars, tokenHistory, adminHistory

LEMMA BeginsTyped ==
  ASSUME SessTypeOK, NEW p \in Requests, NEW u \in Accounts, AccountStep(p, u)
  PROVE  SessTypeOK'
  <1>1. PICK r \in Fresh(u) : BeginRequest(p, r)
    BY StepFresh
  <1>2. r \in RequestState /\ Fits(r)
    BY DEF Fresh
  <1>3. QED
    BY <1>1, <1>2, BeginTyped, StepKeeps DEF SessTypeOK

LEMMA RefreshTyped ==
  ASSUME SessTypeOK, NEW p \in Requests, NEW t \in Tokens, Refresh(p, t)
  PROVE  SessTypeOK'
  <1> DEFINE r == [NoRequest EXCEPT !.pc = "rotate", !.user = token[t].user,
                                    !.token = t, !.epoch = token[t].epoch]
  <1>1. /\ token[t].user \in Accounts /\ token[t].epoch \in Nat /\ t # 0
    BY SessionsAssumption DEF SessionsAssumption, Tokens, SessTypeOK, TokenState, Refresh, Valid
  <1>2. r \in RequestState /\ Fits(r)
    BY <1>1 DEF NoRequest, RequestState, AllSteps, TokenSteps, Fits
  <1>3. BeginRequest(p, r)
    BY DEF Refresh
  <1> HIDE DEF r
  <1>4. QED
    BY <1>2, <1>3, BeginTyped DEF Refresh, SessTypeOK, accountVars

LEMMA StepTyped ==
  ASSUME SessTypeOK, NEW p \in Requests, StepOf(p)
  PROVE  SessTypeOK'
  <1> USE DEF SessTypeOK, accountVars, tokenHistory, adminHistory, At, AllSteps, TokenSteps
  <1>1. request[p] \in RequestState /\ Fits(request[p])
    OBVIOUS
  <1>2. CASE Rotate(p)
    <2>1. request[p].token \in Tokens
      BY <1>1, <1>2 DEF Rotate, Fits, RequestState
    <2>2. token' \in [Tokens -> TokenState]
          /\ \A s \in Tokens : token'[s].state = "live" => token'[s].user \in Accounts
      BY <2>1, <1>2, TokenGoes DEF Rotate
    <2>3. QED
      BY <1>1, <1>2, <2>1, <2>2, GoOnTyped DEF Rotate, Fits
  <1>3. CASE RotateFails(p)
    BY <1>1, <1>3, GoOnTyped DEF RotateFails, Fits
  <1>4. CASE LoadAccount(p)
    BY <1>1, <1>4, GoOnTyped, EndTyped DEF LoadAccount, Fits
  <1>5. ASSUME NEW t \in Tokens, IssueTokenPair(p, t) PROVE SessTypeOK'
    <2>1. request[p].user \in Accounts /\ request[p].epoch \in Nat
      BY <1>1, <1>5 DEF IssueTokenPair, Fits, RequestState
    <2>2. token' \in [Tokens -> TokenState]
      BY <2>1, <1>5 DEF IssueTokenPair, TokenState
    <2>3. \A s \in Tokens : token'[s].state = "live" => token'[s].user \in Accounts
      BY <2>1, <1>5 DEF IssueTokenPair, TokenState
    <2>4. QED
      BY <1>5, <2>2, <2>3, EndTyped DEF IssueTokenPair
  <1>6. CASE IssueRefused(p)
    BY <1>6, EndTyped DEF IssueRefused
  <1>7. CASE SetPasswordHash(p)
    <2>1. request[p].user \in Accounts /\ request[p].token = 0
      BY <1>1, <1>7 DEF SetPasswordHash, Fits
    <2>2. QED
      BY <1>7, <2>1, GoOnTyped, EndTyped DEF SetPasswordHash
  <1>8. CASE DeleteAllForUser(p) \/ DeleteAllFails(p)
    <2>1. token' \in [Tokens -> TokenState]
          /\ \A s \in Tokens : token'[s].state = "live" => token'[s].user \in Accounts
      BY <1>8, RevokedTyped DEF DeleteAllForUser, DeleteAllFails
    <2>2. QED
      BY <1>8, <2>1, OutdatedTyped DEF DeleteAllForUser, DeleteAllFails
  <1>9. CASE CreateUser(p) \/ SetRole(p)
    <2>1. request[p].user \in Accounts /\ request[p].token = 0
      BY <1>1, <1>9 DEF CreateUser, SetRole, Fits
    <2>2. role' \in [Accounts -> {"none", "user", "admin", "deleted"}]
      BY <1>9, <2>1 DEF CreateUser, SetRole
    <2>3. QED
      BY <1>9, <2>1, <2>2, GoOnTyped, EndTyped DEF CreateUser, SetRole
  <1>10. CASE RemoveAccount(p)
    <2>1. token' \in [Tokens -> TokenState]
          /\ \A s \in Tokens : token'[s].state = "live" => token'[s].user \in Accounts
      BY <1>10, RevokedTyped DEF RemoveAccount
    <2>2. role' \in [Accounts -> {"none", "user", "admin", "deleted"}]
          /\ keys' \in [Accounts -> Nat]
      BY <1>10 DEF RemoveAccount
    <2>3. QED
      BY <1>10, <2>1, <2>2, EndTyped DEF RemoveAccount
  <1>11. CASE InsertKey(p)
    <2>1. PICK u \in Accounts : u = request[p].user
      BY <1>1, <1>11 DEF InsertKey, Fits
    <2>2. keys' = keys \/ keys' = [keys EXCEPT ![u] = keys[u] + 1]
      BY <1>11, <2>1 DEF InsertKey
    <2>3. keys' \in [Accounts -> Nat]
      BY <2>2
    <2>4. QED
      BY <1>11, <2>3, EndTyped DEF InsertKey
  <1>12. CASE RequestFails(p)
    BY <1>12, EndTyped DEF RequestFails
  <1>13. QED
    BY <1>2, <1>3, <1>4, <1>5, <1>6, <1>7, <1>8, <1>9, <1>10, <1>11, <1>12 DEF StepOf

LEMMA TypeStep == SessTypeOK /\ [SessionsNext]_sessionsVars => SessTypeOK'
  <1> SUFFICES ASSUME SessTypeOK, [SessionsNext]_sessionsVars PROVE SessTypeOK'
    OBVIOUS
  <1> USE DEF accountVars, tokenHistory, adminHistory
  <1>1. ASSUME NEW t \in Tokens, Revoke(t) PROVE SessTypeOK'
    BY <1>1, TokenGoes DEF Revoke, SessTypeOK
  <1>2. ASSUME NEW u \in Accounts, NEW t \in Tokens, RevokeOtherSessions(u, t) PROVE SessTypeOK'
    BY <1>2, RevokedTyped DEF RevokeOtherSessions, SessTypeOK
  <1>3. ASSUME NEW u \in Accounts, DeleteAPIKey(u) PROVE SessTypeOK'
    BY <1>3 DEF DeleteAPIKey, SessTypeOK
  <1>4. CASE PanelRestarts
    BY <1>4, NoRequestTyped DEF PanelRestarts, SessTypeOK
  <1>5. CASE UNCHANGED sessionsVars
    BY <1>5 DEF sessionsVars, SessTypeOK
  <1>6. QED
    BY <1>1, <1>2, <1>3, <1>4, <1>5, BeginsTyped, RefreshTyped, StepTyped DEF SessionsNext

-----------------------------------------------------------------------------
(* A refresh token buys one session.                                       *)

Holds(p, t) == request[p].token = t

UseOf(t) ==
  /\ token[t].state = "unissued" => issued[t] = 0 /\ \A p \in Requests : ~Holds(p, t)
  /\ t \notin contested =>
       /\ issued[t] <= 1
       /\ issued[t] = 1 => ~Valid(t)
       /\ \A p, q \in Requests : Holds(p, t) /\ Holds(q, t) => p = q
       /\ \A p \in Requests : Holds(p, t) => issued[t] = 0
       /\ \A p \in Requests : Holds(p, t) /\ ~At(p, "rotate") => ~Valid(t)

UseInv == \A t \in Tokens : UseOf(t)

\* Tokens are only taken away, and no request looks one up or spends it.
QuietStep ==
  /\ issued' = issued /\ contested' = contested
  /\ \A t \in Tokens : \/ token'[t].state = token[t].state
                       \/ token'[t].state = "gone" /\ token[t].state = "live"
  /\ \A p \in Requests :
       \/ request'[p].token = 0
       \/ /\ request'[p].token = request[p].token
          /\ request'[p].pc = "rotate" <=> request[p].pc = "rotate"

LEMMA QuietKeepsUse ==
  ASSUME UseInv, QuietStep
  PROVE  UseInv'
  <1>1. \A t \in Tokens : t # 0
    BY SessionsAssumption DEF SessionsAssumption, Tokens
  <1>2. QED
    BY <1>1 DEF UseInv, UseOf, QuietStep, Holds, At, Valid

LEMMA RevokedOnly ==
  ASSUME SessTypeOK, NEW u, NEW kept, token' = Revoked(u, kept)
  PROVE  \A t \in Tokens : \/ token'[t] = token[t]
                           \/ /\ token'[t].state = "gone" /\ token[t].state = "live"
                              /\ token'[t].user = token[t].user
                              /\ token'[t].epoch = token[t].epoch
                              /\ token[t].user = u /\ t \notin kept
  BY DEF SessTypeOK, TokenState, Revoked, Valid

(* At which step a request of an account begins, an administrator's too.   *)
LEMMA AccountBegins ==
  ASSUME SessTypeOK, NEW p \in Requests, NEW u,
         BeginRegister(p, u) \/ Login(p, u) \/ ChangePassword(p, u)
  PROVE  /\ request'[p].pc \in {"register", "issue", "password"}
         /\ \A q \in Requests \ {p} : request'[q] = request[q]
         /\ keys' = keys /\ uncounted' = uncounted
  <1>. USE DEF NoRequest, accountVars, tokenHistory, adminHistory
  <1>1. CASE BeginRegister(p, u)
    BY <1>1 DEF BeginRegister, BeginRequest, SessTypeOK
  <1>2. CASE Login(p, u)
    BY <1>2 DEF Login, BeginRequest, SessTypeOK
  <1>3. CASE ChangePassword(p, u)
    BY <1>3 DEF ChangePassword, BeginRequest, SessTypeOK
  <1>4. QED
    BY <1>1, <1>2, <1>3

LEMMA AdminBegins ==
  ASSUME SessTypeOK, NEW p \in Requests, NEW by, NEW u,
         \/ Promote(p, by, u) \/ Demote(p, by, u)
         \/ AdminDelete(p, by, u) \/ AdminDeleteUnchecked(p, by, u)
  PROVE  /\ request'[p].pc \in {"role", "remove"}
         /\ \A q \in Requests \ {p} : request'[q] = request[q]
         /\ keys' = keys /\ uncounted' = uncounted
  <1>. USE DEF NoRequest, accountVars, tokenHistory, adminHistory, BeginAdmin
  <1>1. CASE Promote(p, by, u)
    BY <1>1 DEF Promote, BeginRequest, SessTypeOK
  <1>2. CASE Demote(p, by, u)
    BY <1>2 DEF Demote, BeginRequest, SessTypeOK
  <1>3. CASE AdminDelete(p, by, u)
    BY <1>3 DEF AdminDelete, BeginRequest, SessTypeOK
  <1>4. CASE AdminDeleteUnchecked(p, by, u)
    BY <1>4 DEF AdminDeleteUnchecked, BeginRequest, SessTypeOK
  <1>5. QED
    BY <1>1, <1>2, <1>3, <1>4

LEMMA EndOnly ==
  ASSUME SessTypeOK, NEW p \in Requests, EndRequest(p)
  PROVE  \A q \in Requests : request'[q] = IF q = p THEN NoRequest ELSE request[q]
  BY DEF SessTypeOK, EndRequest

LEMMA GoOnOnly ==
  ASSUME SessTypeOK, NEW p \in Requests, NEW step, GoOn(p, step)
  PROVE  /\ \A q \in Requests \ {p} : request'[q] = request[q]
         /\ request'[p].pc = step
         /\ request'[p].user = request[p].user
         /\ request'[p].token = request[p].token
         /\ request'[p].epoch = request[p].epoch
         /\ request'[p].admin = request[p].admin
         /\ request'[p].stale = request[p].stale
  <1>1. request[p] \in RequestState
    BY DEF SessTypeOK
  <1>2. QED
    BY <1>1 DEF SessTypeOK, GoOn, RequestState

LEMMA OutdatedOnly ==
  ASSUME SessTypeOK, NEW p \in Requests, NEW u, request' = Outdated(u, p)
  PROVE  /\ request'[p] = NoRequest
         /\ \A q \in Requests \ {p} :
              /\ request'[q].pc = request[q].pc
              /\ request'[q].user = request[q].user
              /\ request'[q].token = request[q].token
              /\ request'[q].epoch = request[q].epoch
              /\ request'[q].admin = request[q].admin
              /\ request[q].stale => request'[q].stale
              /\ request[q].user = u /\ request[q].pc \in TokenSteps
                   /\ request[q].epoch < password[u] => request'[q].stale
  <1>1. request'[p] = NoRequest
    BY DEF Outdated
  <1>2. ASSUME NEW q \in Requests \ {p}
        PROVE  /\ request'[q].pc = request[q].pc
               /\ request'[q].user = request[q].user
               /\ request'[q].token = request[q].token
               /\ request'[q].epoch = request[q].epoch
               /\ request'[q].admin = request[q].admin
               /\ request[q].stale => request'[q].stale
               /\ request[q].user = u /\ request[q].pc \in TokenSteps
                    /\ request[q].epoch < password[u] => request'[q].stale
    <2>1. request[q] \in RequestState
      BY DEF SessTypeOK
    <2>2. QED
      BY <2>1 DEF Outdated, RequestState, TokenSteps
  <1>3. QED
    BY <1>1, <1>2

LEMMA FreshOnly ==
  ASSUME SessTypeOK, NEW p \in Requests, NEW u, NEW r \in Fresh(u), BeginRequest(p, r)
  PROVE  /\ request[p] = NoRequest /\ request'[p] = r
         /\ \A q \in Requests \ {p} : request'[q] = request[q]
  BY DEF SessTypeOK, BeginRequest, At, Fits

LEMMA StepOfUse ==
  ASSUME SessTypeOK, UseInv, NEW p \in Requests, StepOf(p)
  PROVE  UseInv'
  <1> USE DEF accountVars, tokenHistory, adminHistory, NoRequest
  <1>1. request[p] \in RequestState /\ Fits(request[p])
    BY DEF SessTypeOK
  <1>2. CASE Rotate(p)
    <2> DEFINE t == request[p].token
    <2>1. t \in Tokens /\ ~At(p, "idle") /\ token[t] \in TokenState
      BY <1>1, <1>2 DEF Rotate, Fits, RequestState, At, SessTypeOK
    <2>2. /\ \A s \in Tokens \ {t} : token'[s] = token[s]
          /\ token'[t].state = "gone"
      BY <1>2, <2>1 DEF Rotate, SessTypeOK, TokenState
    <2>3. /\ \A q \in Requests \ {p} : request'[q] = request[q]
          /\ request'[p].pc = "load" /\ request'[p].token = t
      BY <1>2, GoOnOnly DEF Rotate
    <2>4. issued' = issued /\ contested' = contested
      BY <1>2 DEF Rotate
    <2> HIDE DEF t
    <2>5. QED
      BY <2>1, <2>2, <2>3, <2>4 DEF UseInv, UseOf, Holds, At, Valid, t
  <1>3. CASE RotateFails(p)
    <2>1. /\ \A q \in Requests \ {p} : request'[q] = request[q]
          /\ request'[p].pc = "load" /\ request'[p].token = request[p].token
      BY <1>3, GoOnOnly DEF RotateFails
    <2>2. /\ token' = token /\ issued' = issued
          /\ contested' = contested \cup {request[p].token}
      BY <1>3 DEF RotateFails
    <2>3. QED
      BY <2>1, <2>2 DEF UseInv, UseOf, Holds, At, Valid
  <1>4. CASE LoadAccount(p)
    <2>1. QuietStep
      BY <1>4, GoOnOnly, EndOnly DEF LoadAccount, QuietStep, At
    <2>2. QED
      BY <2>1, QuietKeepsUse
  <1>5. ASSUME NEW n \in Tokens, IssueTokenPair(p, n) PROVE UseInv'
    <2>1. /\ token[n].state = "unissued" /\ token'[n].state = "live"
          /\ \A s \in Tokens \ {n} : token'[s] = token[s]
      BY <1>5 DEF IssueTokenPair, NotIssued, SessTypeOK
    <2>2. \A q \in Requests : request'[q].token =
            IF q = p THEN 0 ELSE request[q].token
      BY <1>5, EndOnly DEF IssueTokenPair
    <2>3. \A q \in Requests \ {p} : request'[q] = request[q]
      BY <1>5, EndOnly DEF IssueTokenPair
    <2>4. /\ contested' = contested /\ At(p, "issue")
          /\ \A s \in Tokens : issued'[s] =
               IF s = request[p].token THEN issued[s] + 1 ELSE issued[s]
      BY <1>5 DEF IssueTokenPair
    <2>5. \A s \in Tokens : s # 0 /\ issued[s] \in Nat
      BY SessionsAssumption DEF SessionsAssumption, Tokens, SessTypeOK
    <2>6. ASSUME NEW t \in Tokens
          PROVE  UseOf(t)'
      <3>1. CASE t = n
        BY <2>1, <2>2, <2>4, <2>5, <3>1 DEF UseInv, UseOf, Holds, At, Valid
      <3>2. CASE t = request[p].token
        BY <2>1, <2>2, <2>3, <2>4, <2>5, <3>2 DEF UseInv, UseOf, Holds, At, Valid
      <3>3. CASE t # n /\ t # request[p].token
        BY <2>1, <2>2, <2>3, <2>4, <2>5, <3>3 DEF UseInv, UseOf, Holds, At, Valid
      <3>4. QED
        BY <3>1, <3>2, <3>3
    <2>7. QED
      BY <2>6 DEF UseInv
  <1>6. CASE IssueRefused(p) \/ RequestFails(p) \/ InsertKey(p)
    <2>1. QuietStep
      BY <1>6, EndOnly DEF IssueRefused, RequestFails, InsertKey, QuietStep
    <2>2. QED
      BY <2>1, QuietKeepsUse
  <1>7. CASE SetPasswordHash(p) \/ CreateUser(p) \/ SetRole(p)
    <2>1. request[p].token = 0
      BY <1>1, <1>7 DEF SetPasswordHash, CreateUser, SetRole, At, Fits, TokenSteps
    <2>2. QuietStep
      BY <1>7, <2>1, EndOnly, GoOnOnly DEF SetPasswordHash, CreateUser, SetRole, QuietStep
    <2>3. QED
      BY <2>2, QuietKeepsUse
  <1>8. CASE DeleteAllForUser(p) \/ DeleteAllFails(p)
    <2>1. issued' = issued /\ contested' = contested
      BY <1>8 DEF DeleteAllForUser, DeleteAllFails
    <2>2. \A t \in Tokens : \/ token'[t] = token[t]
                            \/ token'[t].state = "gone" /\ token[t].state = "live"
      BY <1>8, RevokedOnly DEF DeleteAllForUser, DeleteAllFails
    <2>3. request' = Outdated(request[p].user, p)
      BY <1>8 DEF DeleteAllForUser, DeleteAllFails
    <2>4. QuietStep
      BY <2>1, <2>2, <2>3, OutdatedOnly DEF QuietStep
    <2>5. QED
      BY <2>4, QuietKeepsUse
  <1>9. CASE RemoveAccount(p)
    <2>1. issued' = issued /\ contested' = contested
      BY <1>9 DEF RemoveAccount
    <2>2. \A t \in Tokens : \/ token'[t] = token[t]
                            \/ token'[t].state = "gone" /\ token[t].state = "live"
      BY <1>9, RevokedOnly DEF RemoveAccount
    <2>3. QuietStep
      BY <1>9, <2>1, <2>2, EndOnly DEF RemoveAccount, QuietStep
    <2>4. QED
      BY <2>3, QuietKeepsUse
  <1>10. QED
    BY <1>2, <1>3, <1>4, <1>5, <1>6, <1>7, <1>8, <1>9 DEF StepOf

LEMMA RefreshUse ==
  ASSUME SessTypeOK, UseInv, NEW p \in Requests, NEW t \in Tokens, Refresh(p, t)
  PROVE  UseInv'
  <1>1. /\ token' = token /\ issued' = issued /\ Valid(t)
        /\ contested' = contested \cup {s \in {t} : \E q \in Requests : Holds(q, t)}
    BY DEF Refresh, Holds
  <1>2. /\ request'[p].token = t /\ request'[p].pc = "rotate"
        /\ \A q \in Requests \ {p} : request'[q] = request[q]
    BY DEF Refresh, BeginRequest, SessTypeOK, NoRequest
  <1>3. /\ contested \subseteq contested'
        /\ t \notin contested' => \A q \in Requests : ~Holds(q, t)
        /\ \A s \in Tokens \ {t} : s \in contested' <=> s \in contested
    BY <1>1
  <1>4. issued[t] \in Nat
    BY DEF SessTypeOK
  <1>5. ASSUME NEW s \in Tokens \ {t}, NEW q \in Requests, request'[q].token = s
        PROVE  q # p /\ request'[q] = request[q]
    BY <1>2, <1>5
  <1>6. ASSUME NEW s \in Tokens
        PROVE  UseOf(s)'
    <2>1. CASE s = t
      BY <1>1, <1>2, <1>3, <1>4, <2>1 DEF UseInv, UseOf, Holds, At, Valid
    <2>2. CASE s # t
      BY <1>1, <1>2, <1>3, <1>5, <2>2 DEF UseInv, UseOf, Holds, At, Valid
    <2>3. QED
      BY <2>1, <2>2
  <1>7. QED
    BY <1>6 DEF UseInv

LEMMA UseStep == SessTypeOK /\ UseInv /\ [SessionsNext]_sessionsVars => UseInv'
  <1> SUFFICES ASSUME SessTypeOK, UseInv, [SessionsNext]_sessionsVars PROVE UseInv'
    OBVIOUS
  <1> USE DEF accountVars, tokenHistory, adminHistory
  <1>1. ASSUME NEW p \in Requests, NEW u \in Accounts, AccountStep(p, u) PROVE UseInv'
    <2>1. PICK r \in Fresh(u) : BeginRequest(p, r)
      BY <1>1, StepFresh
    <2>2. /\ request[p] = NoRequest /\ request'[p] = r /\ r.token = 0
          /\ \A q \in Requests \ {p} : request'[q] = request[q]
      BY <2>1, FreshOnly DEF Fresh
    <2>3. QuietStep
      BY <1>1, <2>2, StepKeeps DEF QuietStep
    <2>4. QED
      BY <2>3, QuietKeepsUse
  <1>2. ASSUME NEW t \in Tokens, Revoke(t) PROVE UseInv'
    <2>1. \A s \in Tokens : token'[s] = IF s = t THEN [token[t] EXCEPT !.state = "gone"] ELSE token[s]
      BY <1>2 DEF Revoke, SessTypeOK
    <2>2. token[t] \in TokenState /\ token[t].state = "live"
      BY <1>2 DEF Revoke, Valid, SessTypeOK
    <2>3. QuietStep
      BY <1>2, <2>1, <2>2 DEF Revoke, QuietStep, TokenState
    <2>4. QED
      BY <2>3, QuietKeepsUse
  <1>3. ASSUME NEW u \in Accounts, NEW t \in Tokens, RevokeOtherSessions(u, t) PROVE UseInv'
    <2>1. request' = request /\ issued' = issued /\ contested' = contested
      BY <1>3 DEF RevokeOtherSessions
    <2>2. \A s \in Tokens : \/ token'[s] = token[s]
                            \/ token'[s].state = "gone" /\ token[s].state = "live"
      BY <1>3, RevokedOnly DEF RevokeOtherSessions
    <2>3. QuietStep
      BY <2>1, <2>2 DEF QuietStep
    <2>4. QED
      BY <2>3, QuietKeepsUse
  <1>4. CASE PanelRestarts
    <2>1. QuietStep
      BY <1>4 DEF PanelRestarts, QuietStep, NoRequest
    <2>2. QED
      BY <2>1, QuietKeepsUse
  <1>5. ASSUME NEW u \in Accounts, DeleteAPIKey(u) PROVE UseInv'
    BY <1>5, QuietKeepsUse DEF DeleteAPIKey, QuietStep
  <1>6. CASE UNCHANGED sessionsVars
    BY <1>6, QuietKeepsUse DEF sessionsVars, QuietStep
  <1>7. QED
    BY <1>1, <1>2, <1>3, <1>4, <1>5, <1>6, RefreshUse, StepOfUse DEF SessionsNext

-----------------------------------------------------------------------------
(* A new password ends the sessions of the old one.                        *)

Revoking(u) == \E p \in Requests : At(p, "revoke") /\ request[p].user = u

\* A request that goes on with what an old password bought is marked, holds a
\* token that could not be revoked, or is about to be marked.
AccountedFor(p) ==
  request[p].pc \in TokenSteps /\ request[p].epoch < password[request[p].user] =>
    request[p].stale \/ request[p].token \in escaped \/ Revoking(request[p].user)

OldTokenFound(t) ==
  Valid(t) /\ token[t].epoch < password[token[t].user] =>
    t \in escaped \/ Revoking(token[t].user)

PasswordInv ==
  /\ \A u \in Accounts : role[u] = "none" => password[u] = 0
  /\ \A t \in Tokens : OldTokenFound(t)
  /\ \A p \in Requests : AccountedFor(p)

\* Passwords stay; no request ends its revocation; live tokens and requests
\* that carry one are old ones.
CalmStep ==
  /\ password' = password /\ escaped' = escaped
  /\ \A u \in Accounts : role'[u] = "none" => role[u] = "none"
  /\ \A t \in Tokens : token'[t] = token[t] \/ token'[t].state # "live"
  /\ \A p \in Requests :
       /\ At(p, "revoke") => request'[p].pc = "revoke" /\ request'[p].user = request[p].user
       /\ request'[p].pc \in TokenSteps =>
            \/ /\ request[p].pc \in TokenSteps
               /\ request'[p].user = request[p].user /\ request'[p].token = request[p].token
               /\ request'[p].epoch = request[p].epoch
               /\ request[p].stale => request'[p].stale
            \/ request'[p].epoch = password[request'[p].user]

LEMMA CalmKeepsPassword ==
  ASSUME SessTypeOK, SessTypeOK', PasswordInv, CalmStep
  PROVE  PasswordInv'
  <1>1. \A u \in Accounts : password[u] \in Nat
    BY DEF SessTypeOK
  <1>2. \A u : Revoking(u) => Revoking(u)'
    BY DEF Revoking, CalmStep, At
  <1>3. \A u \in Accounts : role'[u] = "none" => password'[u] = 0
    BY DEF PasswordInv, CalmStep
  <1>4. ASSUME NEW t \in Tokens PROVE OldTokenFound(t)'
    BY <1>2 DEF PasswordInv, CalmStep, OldTokenFound, Valid
  <1>5. ASSUME NEW p \in Requests PROVE AccountedFor(p)'
    <2>1. request'[p].pc \in TokenSteps => request'[p].user \in Accounts
      BY DEF SessTypeOK, Fits, TokenSteps
    <2>2. CASE request'[p].epoch = password[request'[p].user]
      BY <1>1, <2>1, <2>2 DEF CalmStep, AccountedFor
    <2>3. CASE request'[p].epoch # password[request'[p].user]
      BY <1>2, <2>3 DEF PasswordInv, CalmStep, AccountedFor
    <2>4. QED
      BY <2>2, <2>3
  <1>6. QED
    BY <1>3, <1>4, <1>5 DEF PasswordInv

\* The account of p's request has its sessions revoked; those that remain
\* are put on record.
LEMMA RevocationKeepsPassword ==
  ASSUME SessTypeOK, PasswordInv, NEW p \in Requests, At(p, "revoke"),
         password' = password, role' = role, escaped \subseteq escaped',
         request' = Outdated(request[p].user, p),
         \A t \in Tokens : \/ token'[t].state # "live"
                           \/ /\ token'[t] = token[t]
                              /\ t \in OldSessions(request[p].user) => t \in escaped'
  PROVE  PasswordInv'
  <1> DEFINE u == request[p].user
  <1>1. /\ request'[p] = NoRequest
        /\ \A q \in Requests \ {p} :
              /\ request'[q].pc = request[q].pc
              /\ request'[q].user = request[q].user
              /\ request'[q].token = request[q].token
              /\ request'[q].epoch = request[q].epoch
              /\ request[q].stale => request'[q].stale
              /\ request[q].user = u /\ request[q].pc \in TokenSteps
                   /\ request[q].epoch < password[u] => request'[q].stale
    BY OutdatedOnly
  <1>2. \A v : v # u /\ Revoking(v) => Revoking(v)'
    BY <1>1 DEF Revoking, At
  <1>3. ASSUME NEW t \in Tokens PROVE OldTokenFound(t)'
    BY <1>2 DEF PasswordInv, OldTokenFound, OldSessions, Valid
  <1>4. ASSUME NEW q \in Requests PROVE AccountedFor(q)'
    <2>1. CASE q = p
      BY <1>1, <2>1 DEF AccountedFor, NoRequest, TokenSteps
    <2>2. CASE q # p
      BY <1>1, <1>2, <2>2 DEF PasswordInv, AccountedFor
    <2>3. QED
      BY <2>1, <2>2
  <1>5. QED
    BY <1>3, <1>4 DEF PasswordInv

LEMMA NewHashKeepsPassword ==
  ASSUME SessTypeOK, PasswordInv, NEW p \in Requests, SetPasswordHash(p)
  PROVE  PasswordInv'
  <1> USE DEF At
  <1>1. request[p].user \in Accounts
    BY DEF SetPasswordHash, SessTypeOK, Fits
  <1>2. /\ role' = role /\ token' = token /\ escaped' = escaped
        /\ \A q \in Requests \ {p} : request'[q] = request[q]
    BY GoOnOnly, EndOnly DEF SetPasswordHash, tokenHistory
  <1>3. CASE Registered(request[p].user)
    <2> DEFINE u == request[p].user
    <2>1. request'[p].pc = "revoke" /\ request'[p].user = u
      BY <1>3, GoOnOnly DEF SetPasswordHash
    <2>2. \A v \in Accounts \ {u} : password'[v] = password[v]
      BY <1>3 DEF SetPasswordHash, SessTypeOK
    <2>3. \A v : Revoking(v) \/ v = u => Revoking(v)'
      BY <1>2, <2>1 DEF Revoking, SetPasswordHash
    <2>4. \A v \in Accounts : role'[v] = "none" => password'[v] = 0
      BY <1>2, <1>3, <2>2 DEF PasswordInv, Registered
    <2>5. ASSUME NEW t \in Tokens PROVE OldTokenFound(t)'
      <3>1. Valid(t) => token[t].user \in Accounts
        BY DEF Valid, SessTypeOK
      <3>2. QED
        BY <1>2, <2>2, <2>3, <3>1 DEF PasswordInv, OldTokenFound, Valid
    <2>6. ASSUME NEW q \in Requests PROVE AccountedFor(q)'
      <3>1. request[q].pc \in TokenSteps => request[q].user \in Accounts
        BY DEF SessTypeOK, Fits, TokenSteps
      <3>2. QED
        BY <1>2, <2>1, <2>2, <2>3, <3>1 DEF PasswordInv, AccountedFor, TokenSteps
    <2>7. QED
      BY <2>4, <2>5, <2>6 DEF PasswordInv
  <1>4. CASE ~Registered(request[p].user)
    <2>1. password' = password /\ request'[p] = NoRequest
      BY <1>4, EndOnly DEF SetPasswordHash
    <2>2. \A v : Revoking(v) => Revoking(v)'
      BY <1>2 DEF Revoking, SetPasswordHash
    <2>3. QED
      BY <1>2, <2>1, <2>2 DEF PasswordInv, OldTokenFound, AccountedFor, Valid, NoRequest, TokenSteps
  <1>5. QED
    BY <1>3, <1>4

LEMMA IssueKeepsPassword ==
  ASSUME SessTypeOK, PasswordInv, NEW p \in Requests, NEW n \in Tokens, IssueTokenPair(p, n)
  PROVE  PasswordInv'
  <1> USE DEF At
  <1>1. /\ \A s \in Tokens \ {n} : token'[s] = token[s]
        /\ token'[n].user = request[p].user /\ token'[n].epoch = request[p].epoch
    BY DEF IssueTokenPair, SessTypeOK
  <1>2. /\ \A q \in Requests \ {p} : request'[q] = request[q]
        /\ request'[p] = NoRequest
    BY EndOnly DEF IssueTokenPair
  <1>3. /\ role' = role /\ password' = password /\ request[p].pc = "issue"
        /\ escaped \subseteq escaped'
        /\ request[p].stale \/ request[p].token \in escaped => n \in escaped'
    BY DEF IssueTokenPair, accountVars
  <1>4. \A v : Revoking(v) => Revoking(v)'
    BY <1>2, <1>3 DEF Revoking
  <1>5. ASSUME NEW t \in Tokens PROVE OldTokenFound(t)'
    <2>1. CASE t = n
      BY <1>1, <1>3, <1>4, <2>1 DEF PasswordInv, OldTokenFound, AccountedFor, TokenSteps
    <2>2. CASE t # n
      BY <1>1, <1>3, <1>4, <2>2 DEF PasswordInv, OldTokenFound, Valid
    <2>3. QED
      BY <2>1, <2>2
  <1>6. ASSUME NEW q \in Requests PROVE AccountedFor(q)'
    BY <1>2, <1>3, <1>4 DEF PasswordInv, AccountedFor, NoRequest, TokenSteps
  <1>7. QED
    BY <1>3, <1>5, <1>6 DEF PasswordInv

LEMMA RefreshKeepsPassword ==
  ASSUME SessTypeOK, PasswordInv, NEW p \in Requests, NEW t \in Tokens, Refresh(p, t)
  PROVE  PasswordInv'
  <1> USE DEF At
  <1>1. /\ role' = role /\ password' = password /\ token' = token /\ escaped' = escaped
        /\ Valid(t) /\ request[p].pc = "idle"
    BY DEF Refresh, BeginRequest, accountVars
  <1>2. /\ \A q \in Requests \ {p} : request'[q] = request[q]
        /\ request'[p].token = t /\ request'[p].user = token[t].user
        /\ request'[p].epoch = token[t].epoch
    BY DEF Refresh, BeginRequest, SessTypeOK, NoRequest
  <1>3. \A v : Revoking(v) => Revoking(v)'
    BY <1>1, <1>2 DEF Revoking
  <1>4. ASSUME NEW q \in Requests PROVE AccountedFor(q)'
    BY <1>1, <1>2, <1>3 DEF PasswordInv, AccountedFor, OldTokenFound
  <1>5. QED
    BY <1>1, <1>3, <1>4 DEF PasswordInv, OldTokenFound, Valid

LEMMA StepOfPassword ==
  ASSUME SessTypeOK, SessTypeOK', PasswordInv, NEW p \in Requests, StepOf(p)
  PROVE  PasswordInv'
  <1> USE DEF accountVars, tokenHistory, adminHistory, At, TokenSteps
  <1>1. request[p] \in RequestState /\ Fits(request[p])
    BY DEF SessTypeOK
  <1>2. CASE Rotate(p) \/ RotateFails(p) \/ LoadAccount(p)
    <2>1. \A t \in Tokens : token'[t] = token[t] \/ token'[t].state # "live"
      BY <1>2 DEF Rotate, RotateFails, LoadAccount, SessTypeOK, TokenState
    <2>2. CalmStep
      BY <1>2, <2>1, GoOnOnly, EndOnly DEF Rotate, RotateFails, LoadAccount, CalmStep, NoRequest
    <2>3. QED
      BY <2>2, CalmKeepsPassword
  <1>3. CASE IssueRefused(p) \/ RequestFails(p) \/ InsertKey(p)
    <2>1. CalmStep
      BY <1>3, EndOnly DEF IssueRefused, RequestFails, InsertKey, CalmStep, NoRequest
    <2>2. QED
      BY <2>1, CalmKeepsPassword
  <1>4. CASE CreateUser(p)
    <2> DEFINE u == request[p].user
    <2>1. u \in Accounts /\ request[p].epoch = 0
      BY <1>1, <1>4 DEF CreateUser, Fits
    <2>2. /\ \A v \in Accounts : role'[v] = "none" => role[v] = "none"
          /\ token' = token /\ password' = password /\ escaped' = escaped
          /\ \A q \in Requests \ {p} : request'[q] = request[q]
      BY <1>4, <2>1, GoOnOnly, EndOnly DEF CreateUser, SessTypeOK
    <2>3. \/ request'[p] = NoRequest
          \/ request'[p].epoch = password[u] /\ request'[p].user = u
      BY <1>4, <2>1, GoOnOnly, EndOnly DEF CreateUser, PasswordInv
    <2>4. CalmStep
      BY <1>4, <2>2, <2>3 DEF CreateUser, CalmStep, NoRequest
    <2>5. QED
      BY <2>4, CalmKeepsPassword
  <1>5. CASE SetRole(p)
    <2>1. \A v \in Accounts : role'[v] = "none" => role[v] = "none"
      BY <1>5 DEF SetRole, SessTypeOK
    <2>2. CalmStep
      BY <1>5, <2>1, GoOnOnly, EndOnly DEF SetRole, CalmStep, NoRequest
    <2>3. QED
      BY <2>2, CalmKeepsPassword
  <1>6. CASE RemoveAccount(p)
    <2>1. \A v \in Accounts : role'[v] = "none" => role[v] = "none"
      BY <1>6 DEF RemoveAccount, SessTypeOK
    <2>2. \A t \in Tokens : token'[t] = token[t] \/ token'[t].state # "live"
      BY <1>6, RevokedOnly DEF RemoveAccount
    <2>3. CalmStep
      BY <1>6, <2>1, <2>2, EndOnly DEF RemoveAccount, CalmStep, NoRequest
    <2>4. QED
      BY <2>3, CalmKeepsPassword
  <1>7. CASE DeleteAllForUser(p)
    <2>1. \A t \in Tokens : \/ token'[t].state # "live"
                            \/ token'[t] = token[t] /\ t \notin OldSessions(request[p].user)
      BY <1>7 DEF DeleteAllForUser, Revoked, OldSessions, Valid, SessTypeOK, TokenState
    <2>2. QED
      BY <1>7, <2>1, RevocationKeepsPassword DEF DeleteAllForUser
  <1>8. CASE DeleteAllFails(p)
    BY <1>8, RevocationKeepsPassword DEF DeleteAllFails
  <1>9. QED
    BY <1>2, <1>3, <1>4, <1>5, <1>6, <1>7, <1>8, NewHashKeepsPassword, IssueKeepsPassword
    DEF StepOf

LEMMA RestartKeepsPassword ==
  ASSUME SessTypeOK, PasswordInv, PanelRestarts
  PROVE  PasswordInv'
  <1>1. /\ role' = role /\ password' = password /\ token' = token
        /\ \A p \in Requests : request'[p] = NoRequest
        /\ escaped \subseteq escaped'
    BY DEF PanelRestarts, accountVars
  <1>2. \A t \in Tokens : Revoking(token[t].user) /\ t \in OldSessions(token[t].user)
                            => t \in escaped'
    BY DEF PanelRestarts, Revoking
  <1>3. ASSUME NEW t \in Tokens PROVE OldTokenFound(t)'
    BY <1>1, <1>2 DEF PasswordInv, OldTokenFound, OldSessions, Valid
  <1>4. QED
    BY <1>1, <1>3 DEF PasswordInv, AccountedFor, NoRequest, TokenSteps

LEMMA PasswordStep ==
  SessTypeOK /\ SessTypeOK' /\ PasswordInv /\ [SessionsNext]_sessionsVars => PasswordInv'
  <1> SUFFICES ASSUME SessTypeOK, SessTypeOK', PasswordInv, [SessionsNext]_sessionsVars
               PROVE  PasswordInv'
    OBVIOUS
  <1> USE DEF accountVars, tokenHistory, adminHistory, At
  <1>1. ASSUME NEW p \in Requests, NEW u \in Accounts, AccountStep(p, u) PROVE PasswordInv'
    <2>1. PICK r \in Fresh(u) : BeginRequest(p, r)
      BY <1>1, StepFresh
    <2>2. /\ request[p] = NoRequest /\ request'[p] = r
          /\ \A q \in Requests \ {p} : request'[q] = request[q]
      BY <2>1, FreshOnly
    <2>3. r.pc \in TokenSteps => r.epoch = password[u] /\ r.user = u
      BY DEF Fresh, Fits, TokenSteps
    <2>4. CalmStep
      BY <1>1, <2>2, <2>3, StepKeeps DEF CalmStep, NoRequest
    <2>5. QED
      BY <2>4, CalmKeepsPassword
  <1>2. ASSUME NEW t \in Tokens, Revoke(t) PROVE PasswordInv'
    <2>1. \A s \in Tokens : token'[s] = token[s] \/ token'[s].state # "live"
      BY <1>2 DEF Revoke, SessTypeOK, TokenState
    <2>2. CalmStep
      BY <1>2, <2>1 DEF Revoke, CalmStep
    <2>3. QED
      BY <2>2, CalmKeepsPassword
  <1>3. ASSUME NEW u \in Accounts, NEW t \in Tokens, RevokeOtherSessions(u, t)
        PROVE  PasswordInv'
    <2>1. \A s \in Tokens : token'[s] = token[s] \/ token'[s].state # "live"
      BY <1>3, RevokedOnly DEF RevokeOtherSessions
    <2>2. CalmStep
      BY <1>3, <2>1 DEF RevokeOtherSessions, CalmStep
    <2>3. QED
      BY <2>2, CalmKeepsPassword
  <1>4. ASSUME NEW u \in Accounts, DeleteAPIKey(u) PROVE PasswordInv'
    BY <1>4, CalmKeepsPassword DEF DeleteAPIKey, CalmStep
  <1>5. CASE UNCHANGED sessionsVars
    BY <1>5, CalmKeepsPassword DEF sessionsVars, CalmStep
  <1>6. QED
    BY <1>1, <1>2, <1>3, <1>4, <1>5, RefreshKeepsPassword, StepOfPassword,
       RestartKeepsPassword DEF SessionsNext

-----------------------------------------------------------------------------
(* An administrator remains.                                               *)

\* The request would take the role from its account, or the account.
Removing(p) == At(p, "remove") \/ (At(p, "role") /\ ~request[p].admin)

AdminInv ==
  /\ elevated \subseteq Accounts
  /\ ~unguarded =>
       /\ elevated # {} => \E u \in Accounts : role[u] = "admin"
       /\ \A p, q \in Requests : Administering(p) /\ Administering(q) => p = q
       /\ \A p \in Requests : Removing(p) =>
            \E u \in Accounts : u # request[p].user /\ role[u] = "admin"

\* Nobody becomes or stops to be an administrator, no such request begins.
SameAdmins ==
  /\ role' = role /\ elevated' = elevated /\ unguarded' = unguarded
  /\ \A p \in Requests :
       \/ ~Administering(p)'
       \/ /\ request'[p].pc = request[p].pc /\ request'[p].user = request[p].user
          /\ request'[p].admin = request[p].admin

LEMMA SameKeepsAdmin ==
  ASSUME AdminInv, SameAdmins
  PROVE  AdminInv'
  BY DEF AdminInv, SameAdmins, Administering, Removing, At

LEMMA AnotherAdmin ==
  ASSUME SessTypeOK, NEW u \in Accounts, NotLastAdmin(u),
         \E v \in Accounts : role[v] = "admin"
  PROVE  \E v \in Accounts : v # u /\ role[v] = "admin"
  <1> DEFINE A == {v \in Accounts : role[v] = "admin"}
  <1>1. SUFFICES ASSUME role[u] = "admin", A \subseteq {u} PROVE FALSE
    OBVIOUS
  <1>2. Cardinality(A) > 1
    BY <1>1 DEF NotLastAdmin, CountAdmins
  <1>3. A = {u}
    BY <1>1
  <1>4. Cardinality({u}) = 1
    BY FS_Singleton
  <1>5. QED
    BY <1>2, <1>3, <1>4

LEMMA BeginAdminKeepsAdmin ==
  ASSUME SessTypeOK, AdminInv, NEW p \in Requests, NEW by \in elevated, NEW u \in Accounts,
         Promote(p, by, u) \/ Demote(p, by, u) \/ AdminDelete(p, by, u)
  PROVE  AdminInv'
  <1> USE DEF At
  <1>1. PICK r : /\ BeginAdmin(p, r) /\ r.user = u
                 /\ (r.pc = "role" /\ r.admin) \/ NotLastAdmin(u)
    <2>1. CASE Promote(p, by, u)
      <3> DEFINE r == [NoRequest EXCEPT !.pc = "role", !.user = u, !.admin = TRUE]
      <3>1. r.user = u /\ r.pc = "role" /\ r.admin
        BY DEF NoRequest
      <3>2. BeginAdmin(p, r)
        BY <2>1 DEF Promote
      <3> HIDE DEF r
      <3>3. QED
        BY <3>1, <3>2
    <2>2. CASE Demote(p, by, u)
      <3> DEFINE r == [NoRequest EXCEPT !.pc = "role", !.user = u]
      <3>1. r.user = u
        BY DEF NoRequest
      <3>2. BeginAdmin(p, r) /\ NotLastAdmin(u)
        BY <2>2 DEF Demote
      <3> HIDE DEF r
      <3>3. QED
        BY <3>1, <3>2
    <2>3. CASE AdminDelete(p, by, u)
      <3> DEFINE r == [NoRequest EXCEPT !.pc = "remove", !.user = u]
      <3>1. r.user = u
        BY DEF NoRequest
      <3>2. BeginAdmin(p, r) /\ NotLastAdmin(u)
        BY <2>3 DEF AdminDelete
      <3> HIDE DEF r
      <3>3. QED
        BY <3>1, <3>2
    <2>4. QED
      BY <2>1, <2>2, <2>3
  <1>2. /\ role' = role /\ elevated' = elevated
        /\ request'[p] = r /\ \A q \in Requests \ {p} : request'[q] = request[q]
        /\ ~unguarded' => ~unguarded /\ \A q \in Requests : ~Administering(q)
    BY <1>1 DEF BeginAdmin, BeginRequest, accountVars, SessTypeOK
  <1>3. SUFFICES ASSUME ~unguarded' PROVE AdminInv'
    BY <1>2 DEF AdminInv
  <1>4. \E v \in Accounts : role[v] = "admin"
    BY <1>2, <1>3 DEF AdminInv
  <1>5. NotLastAdmin(u) => \E v \in Accounts : v # u /\ role[v] = "admin"
    BY <1>4, AnotherAdmin
  <1>6. QED
    BY <1>1, <1>2, <1>3, <1>4, <1>5 DEF AdminInv, Administering, Removing

LEMMA RoleStepKeepsAdmin ==
  ASSUME SessTypeOK, AdminInv, NEW p \in Requests,
         CreateUser(p) \/ SetRole(p) \/ RemoveAccount(p)
  PROVE  AdminInv'
  <1> USE DEF At
  <1> DEFINE u == request[p].user
  <1>1. u \in Accounts
    BY DEF SessTypeOK, Fits, CreateUser, SetRole, RemoveAccount
  <1>2. /\ \A q \in Requests \ {p} : request'[q] = request[q]
        /\ request'[p].pc \notin {"role", "remove"}
        /\ unguarded' = unguarded
    BY EndOnly, GoOnOnly DEF CreateUser, SetRole, RemoveAccount, NoRequest, adminHistory
  <1>3. /\ \A v \in Accounts \ {u} : role'[v] = role[v]
        /\ elevated \subseteq elevated' /\ elevated' \subseteq elevated \cup {u}
        /\ u \in elevated' /\ u \notin elevated => role'[u] = "admin"
    BY <1>1 DEF CreateUser, SetRole, RemoveAccount, adminHistory, SessTypeOK
  <1>4. CASE CreateUser(p)
    <2>1. role[u] = "admin" => role'[u] = "admin"
      BY <1>4 DEF CreateUser
    <2>2. \A v \in Accounts : role[v] = "admin" => role'[v] = "admin"
      BY <1>3, <2>1
    <2>3. QED
      BY <1>1, <1>2, <1>3, <2>2 DEF AdminInv, Administering, Removing
  <1>5. CASE SetRole(p) \/ RemoveAccount(p)
    <2>1. Administering(p)
      BY <1>5 DEF SetRole, RemoveAccount, Administering
    <2>2. Removing(p) \/ role'[u] = "admin" \/ role' = role
      BY <1>1, <1>5 DEF SetRole, RemoveAccount, Removing, SessTypeOK
    <2>3. QED
      BY <1>1, <1>2, <1>3, <2>1, <2>2 DEF AdminInv, Administering, Removing
  <1>6. QED
    BY <1>4, <1>5

LEMMA StepOfAdmin ==
  ASSUME SessTypeOK, AdminInv, NEW p \in Requests, StepOf(p)
  PROVE  AdminInv'
  <1> USE DEF accountVars, tokenHistory, adminHistory, At, SameAdmins, Administering, NoRequest
  <1>1. CASE Rotate(p) \/ RotateFails(p) \/ LoadAccount(p) \/ SetPasswordHash(p)
    <2>1. SameAdmins
      BY <1>1, GoOnOnly, EndOnly DEF Rotate, RotateFails, LoadAccount, SetPasswordHash
    <2>2. QED
      BY <2>1, SameKeepsAdmin
  <1>2. CASE IssueRefused(p) \/ RequestFails(p) \/ InsertKey(p)
    <2>1. SameAdmins
      BY <1>2, EndOnly DEF IssueRefused, RequestFails, InsertKey
    <2>2. QED
      BY <2>1, SameKeepsAdmin
  <1>3. ASSUME NEW n \in Tokens, IssueTokenPair(p, n) PROVE AdminInv'
    <2>1. SameAdmins
      BY <1>3, EndOnly DEF IssueTokenPair
    <2>2. QED
      BY <2>1, SameKeepsAdmin
  <1>4. CASE DeleteAllForUser(p) \/ DeleteAllFails(p)
    <2>1. SameAdmins
      BY <1>4, OutdatedOnly DEF DeleteAllForUser, DeleteAllFails
    <2>2. QED
      BY <2>1, SameKeepsAdmin
  <1>5. QED
    BY <1>1, <1>2, <1>3, <1>4, RoleStepKeepsAdmin DEF StepOf

LEMMA AccountStepAdmin ==
  ASSUME SessTypeOK, AdminInv, NEW p \in Requests, NEW u \in Accounts, AccountStep(p, u)
  PROVE  AdminInv'
  <1> USE DEF accountVars, tokenHistory, adminHistory, At, Administering, NoRequest
  <1>1. CASE BeginRegister(p, u) \/ Login(p, u) \/ ChangePassword(p, u)
    <2>1. /\ \A q \in Requests \ {p} : request'[q] = request[q]
          /\ request'[p].pc \notin {"role", "remove"}
      BY <1>1, AccountBegins
    <2>2. SameAdmins
      BY <1>1, <2>1 DEF BeginRegister, Login, ChangePassword, SameAdmins
    <2>3. QED
      BY <2>2, SameKeepsAdmin
  <1>2. CASE CreateAPIKey(p, u) \/ CountFails(p, u)
    <2>1. SameAdmins
      BY <1>2 DEF CreateAPIKey, CountFails, BeginRequest, SameAdmins, SessTypeOK
    <2>2. QED
      BY <2>1, SameKeepsAdmin
  <1>3. ASSUME NEW by \in Accounts, AdminDeleteUnchecked(p, by, u) PROVE AdminInv'
    BY <1>3 DEF AdminDeleteUnchecked, AdminInv
  <1>4. ASSUME NEW by \in Accounts,
               Promote(p, by, u) \/ Demote(p, by, u) \/ AdminDelete(p, by, u)
        PROVE  AdminInv'
    <2>1. by \in elevated
      BY <1>4 DEF Promote, Demote, AdminDelete
    <2>2. QED
      BY <1>4, <2>1, BeginAdminKeepsAdmin
  <1>5. QED
    BY <1>1, <1>2, <1>3, <1>4 DEF AccountStep, AdminResetUserPassword

LEMMA AdminStep == SessTypeOK /\ AdminInv /\ [SessionsNext]_sessionsVars => AdminInv'
  <1> SUFFICES ASSUME SessTypeOK, AdminInv, [SessionsNext]_sessionsVars PROVE AdminInv'
    OBVIOUS
  <1> USE DEF accountVars, tokenHistory, adminHistory, At, SameAdmins, Administering, NoRequest
  <1>1. ASSUME NEW p \in Requests, NEW t \in Tokens, Refresh(p, t) PROVE AdminInv'
    <2>1. SameAdmins
      BY <1>1 DEF Refresh, BeginRequest, SessTypeOK
    <2>2. QED
      BY <2>1, SameKeepsAdmin
  <1>2. ASSUME NEW u \in Accounts, NEW t \in Tokens, RevokeOtherSessions(u, t)
        PROVE  AdminInv'
    BY <1>2, SameKeepsAdmin DEF RevokeOtherSessions
  <1>3. ASSUME NEW u \in Accounts, DeleteAPIKey(u) PROVE AdminInv'
    BY <1>3, SameKeepsAdmin DEF DeleteAPIKey
  <1>4. CASE PanelRestarts
    BY <1>4, SameKeepsAdmin DEF PanelRestarts
  <1>5. CASE UNCHANGED sessionsVars
    BY <1>5, SameKeepsAdmin DEF sessionsVars
  <1>6. ASSUME NEW t \in Tokens, Revoke(t) PROVE AdminInv'
    BY <1>6, SameKeepsAdmin DEF Revoke
  <1>7. QED
    BY <1>1, <1>2, <1>3, <1>4, <1>5, <1>6, AccountStepAdmin, StepOfAdmin DEF SessionsNext

-----------------------------------------------------------------------------
(* The cap on API keys.                                                    *)

Inserting(u) == {p \in Requests : At(p, "key") /\ request[p].user = u}

KeysInv ==
  \A u \in Accounts \ uncounted :
    keys[u] + Cardinality(Inserting(u)) < MaxKeys + Cardinality(Requests)

LEMMA SomeRequests ==
  ASSUME NEW S \in SUBSET Requests
  PROVE  /\ IsFiniteSet(S) /\ Cardinality(S) \in Nat
         /\ Cardinality(Requests) \in Nat /\ Cardinality(S) <= Cardinality(Requests)
         /\ \A R \in SUBSET S : Cardinality(R) <= Cardinality(S) /\ Cardinality(R) \in Nat
         /\ \A p \in S : Cardinality(S \ {p}) = Cardinality(S) - 1
  <1>1. \A T : T \in SUBSET Requests => IsFiniteSet(T) /\ Cardinality(T) \in Nat
    BY SessionsAssumption, FS_Subset, FS_CardinalityType DEF SessionsAssumption
  <1>2. IsFiniteSet(S) /\ IsFiniteSet(Requests)
    BY <1>1
  <1>3. Cardinality(S) <= Cardinality(Requests)
    BY <1>2, FS_Subset
  <1>4. \A R \in SUBSET S : Cardinality(R) <= Cardinality(S)
    BY <1>2, FS_Subset
  <1>5. \A p \in S : Cardinality(S \ {p}) = Cardinality(S) - 1
    BY <1>2, FS_RemoveElement
  <1>6. QED
    BY <1>1, <1>3, <1>4, <1>5

\* No key is added, none is on its way that was not before.
NoNewKeys ==
  /\ uncounted \subseteq uncounted'
  /\ \A u \in Accounts : keys'[u] <= keys[u] /\ Inserting(u)' \subseteq Inserting(u)

LEMMA NoNewKeepsKeys ==
  ASSUME SessTypeOK, SessTypeOK', KeysInv, NoNewKeys
  PROVE  KeysInv'
  <1> SUFFICES ASSUME NEW u \in Accounts \ uncounted'
               PROVE  keys'[u] + Cardinality(Inserting(u)') < MaxKeys + Cardinality(Requests)
    BY DEF KeysInv
  <1>1. /\ keys[u] \in Nat /\ keys'[u] \in Nat /\ MaxKeys \in Nat
        /\ Cardinality(Requests) \in Nat
    BY SomeRequests, SessionsAssumption DEF SessTypeOK, SessionsAssumption
  <1>2. keys[u] + Cardinality(Inserting(u)) < MaxKeys + Cardinality(Requests)
    BY DEF KeysInv, NoNewKeys
  <1>3. Inserting(u) \in SUBSET Requests /\ Inserting(u)' \in SUBSET Inserting(u)
    BY DEF NoNewKeys, Inserting
  <1>4. /\ Cardinality(Inserting(u)') <= Cardinality(Inserting(u))
        /\ Cardinality(Inserting(u)) \in Nat /\ Cardinality(Inserting(u)') \in Nat
    BY <1>3, SomeRequests
  <1>5. keys'[u] <= keys[u]
    BY DEF NoNewKeys
  <1>6. QED
    BY <1>1, <1>2, <1>4, <1>5

LEMMA CreateKeepsKeys ==
  ASSUME SessTypeOK, SessTypeOK', KeysInv, NEW p \in Requests, NEW u \in Accounts,
         CreateAPIKey(p, u)
  PROVE  KeysInv'
  <1>1. /\ keys' = keys /\ uncounted' = uncounted /\ keys[u] < MaxKeys
        /\ \A q \in Requests \ {p} : request'[q] = request[q]
        /\ request'[p].user = u
    BY DEF CreateAPIKey, BeginRequest, accountVars, SessTypeOK, NoRequest
  <1> SUFFICES ASSUME NEW v \in Accounts \ uncounted
               PROVE  keys[v] + Cardinality(Inserting(v)') < MaxKeys + Cardinality(Requests)
    BY <1>1 DEF KeysInv
  <1>2. /\ keys[v] \in Nat /\ MaxKeys \in Nat /\ Cardinality(Requests) \in Nat
    BY SomeRequests, SessionsAssumption DEF SessTypeOK, SessionsAssumption
  <1>3. CASE v = u
    <2>1. Inserting(u)' \in SUBSET Requests
      BY DEF Inserting
    <2>2. Cardinality(Inserting(u)') <= Cardinality(Requests) /\ Cardinality(Inserting(u)') \in Nat
      BY <2>1, SomeRequests
    <2>3. QED
      BY <1>1, <1>2, <1>3, <2>2
  <1>4. CASE v # u
    <2>1. Inserting(v)' \in SUBSET Inserting(v) /\ Inserting(v) \in SUBSET Requests
      BY <1>1, <1>4 DEF Inserting, At
    <2>2. /\ Cardinality(Inserting(v)') <= Cardinality(Inserting(v))
          /\ Cardinality(Inserting(v)) \in Nat /\ Cardinality(Inserting(v)') \in Nat
      BY <2>1, SomeRequests
    <2>3. keys[v] + Cardinality(Inserting(v)) < MaxKeys + Cardinality(Requests)
      BY DEF KeysInv
    <2>4. QED
      BY <1>2, <2>2, <2>3
  <1>5. QED
    BY <1>3, <1>4

LEMMA InsertKeepsKeys ==
  ASSUME SessTypeOK, SessTypeOK', KeysInv, NEW p \in Requests, InsertKey(p)
  PROVE  KeysInv'
  <1> DEFINE u == request[p].user
  <1>1. u \in Accounts
    BY DEF InsertKey, At, SessTypeOK, Fits
  <1>2. /\ uncounted' = uncounted
        /\ \A v \in Accounts \ {u} : keys'[v] = keys[v]
        /\ keys'[u] \in {keys[u], keys[u] + 1}
        /\ \A q \in Requests \ {p} : request'[q] = request[q]
        /\ request'[p].pc = "idle" /\ At(p, "key")
    BY <1>1, EndOnly DEF InsertKey, SessTypeOK, NoRequest
  <1>3. ASSUME NEW v \in Accounts
        PROVE  Inserting(v)' = Inserting(v) \ {p}
    BY <1>2 DEF Inserting, At
  <1> SUFFICES ASSUME NEW v \in Accounts \ uncounted
               PROVE  keys'[v] + Cardinality(Inserting(v)') < MaxKeys + Cardinality(Requests)
    BY <1>2 DEF KeysInv
  <1>4. /\ keys[v] \in Nat /\ MaxKeys \in Nat /\ Cardinality(Requests) \in Nat
    BY SomeRequests, SessionsAssumption DEF SessTypeOK, SessionsAssumption
  <1>5. keys[v] + Cardinality(Inserting(v)) < MaxKeys + Cardinality(Requests)
    BY DEF KeysInv
  <1>6. Inserting(v) \in SUBSET Requests
    BY DEF Inserting
  <1>7. CASE v = u
    <2>1. p \in Inserting(v)
      BY <1>2, <1>7 DEF Inserting
    <2>2. /\ Cardinality(Inserting(v) \ {p}) = Cardinality(Inserting(v)) - 1
          /\ Cardinality(Inserting(v)) \in Nat
      BY <1>6, <2>1, SomeRequests
    <2>3. Cardinality(Inserting(v)') = Cardinality(Inserting(v)) - 1
      BY <1>3, <2>2
    <2>4. keys'[v] \in {keys[v], keys[v] + 1}
      BY <1>2, <1>7
    <2>5. keys'[v] \in Nat
      BY DEF SessTypeOK
    <2>6. QED
      BY <1>4, <1>5, <2>2, <2>3, <2>4, <2>5
  <1>8. CASE v # u
    <2>1. Inserting(v)' = Inserting(v)
      BY <1>2, <1>3, <1>8 DEF Inserting
    <2>2. QED
      BY <1>2, <1>5, <1>8, <2>1
  <1>9. QED
    BY <1>7, <1>8

LEMMA KeysStep ==
  SessTypeOK /\ SessTypeOK' /\ KeysInv /\ [SessionsNext]_sessionsVars => KeysInv'
  <1> SUFFICES ASSUME SessTypeOK, SessTypeOK', KeysInv, [SessionsNext]_sessionsVars
               PROVE  KeysInv'
    OBVIOUS
  <1> USE DEF accountVars, tokenHistory, adminHistory, At, NoRequest
  <1>1. \A u \in Accounts : keys[u] \in Nat
    BY DEF SessTypeOK
  <1>2. ASSUME NEW p \in Requests, keys' = keys, uncounted' = uncounted,
               request'[p].pc # "key",
               \A q \in Requests \ {p} : request'[q].pc = request[q].pc
                                         /\ request'[q].user = request[q].user
        PROVE  KeysInv'
    <2>1. \A u \in Accounts : Inserting(u)' \subseteq Inserting(u)
      BY <1>2 DEF Inserting
    <2>2. NoNewKeys
      BY <1>1, <1>2, <2>1 DEF NoNewKeys
    <2>3. QED
      BY <2>2, NoNewKeepsKeys
  <1>3. ASSUME keys' = keys, uncounted' = uncounted, request' = request PROVE KeysInv'
    BY <1>3 DEF KeysInv, Inserting
  <1>4. ASSUME NEW p \in Requests, NEW u \in Accounts, AccountStep(p, u) PROVE KeysInv'
    <2>1. CASE BeginRegister(p, u) \/ Login(p, u) \/ ChangePassword(p, u)
      <3>1. /\ keys' = keys /\ uncounted' = uncounted
            /\ \A q \in Requests \ {p} : request'[q] = request[q]
            /\ request'[p].pc # "key"
        BY <2>1, AccountBegins
      <3>2. QED
        BY <1>2, <3>1
    <2>2. ASSUME NEW by \in Accounts, Promote(p, by, u) \/ Demote(p, by, u)
                                      \/ AdminDelete(p, by, u) \/ AdminDeleteUnchecked(p, by, u)
          PROVE  KeysInv'
      <3>1. /\ keys' = keys /\ uncounted' = uncounted
            /\ \A q \in Requests \ {p} : request'[q] = request[q]
            /\ request'[p].pc # "key"
        BY <2>2, AdminBegins
      <3>2. QED
        BY <1>2, <3>1
    <2>3. CASE CountFails(p, u)
      <3>1. /\ keys' = keys /\ uncounted' = uncounted \cup {u}
            /\ \A q \in Requests \ {p} : request'[q] = request[q]
            /\ request'[p].user = u
        BY <2>3 DEF CountFails, BeginRequest, SessTypeOK
      <3>2. ASSUME NEW v \in Accounts \ uncounted' PROVE Inserting(v)' \subseteq Inserting(v)
        BY <3>1 DEF Inserting
      <3>3. ASSUME NEW v \in Accounts \ uncounted'
            PROVE  keys'[v] + Cardinality(Inserting(v)') < MaxKeys + Cardinality(Requests)
        <4>1. keys[v] + Cardinality(Inserting(v)) < MaxKeys + Cardinality(Requests)
          BY <3>1 DEF KeysInv
        <4>2. Inserting(v) \in SUBSET Requests
          BY DEF Inserting
        <4>3. /\ Cardinality(Inserting(v)') <= Cardinality(Inserting(v))
              /\ Cardinality(Inserting(v)) \in Nat /\ Cardinality(Inserting(v)') \in Nat
              /\ Cardinality(Requests) \in Nat
          BY <3>2, <4>2, SomeRequests
        <4>4. QED
          BY <1>1, <3>1, <4>1, <4>3, SessionsAssumption DEF SessionsAssumption
      <3>4. QED
        BY <3>3 DEF KeysInv
    <2>4. QED
      BY <1>4, <2>1, <2>2, <2>3, CreateKeepsKeys DEF AccountStep, AdminResetUserPassword
  <1>5. ASSUME NEW p \in Requests, NEW t \in Tokens, Refresh(p, t) PROVE KeysInv'
    BY <1>2, <1>5 DEF Refresh, BeginRequest, SessTypeOK
  <1>6. ASSUME NEW p \in Requests, StepOf(p) PROVE KeysInv'
    <2>1. CASE Rotate(p) \/ RotateFails(p) \/ LoadAccount(p) \/ SetPasswordHash(p)
      BY <1>2, <2>1, GoOnOnly, EndOnly DEF Rotate, RotateFails, LoadAccount, SetPasswordHash
    <2>2. ASSUME NEW n \in Tokens, IssueTokenPair(p, n) PROVE KeysInv'
      BY <1>2, <2>2, EndOnly DEF IssueTokenPair
    <2>3. CASE IssueRefused(p) \/ RequestFails(p)
      BY <1>2, <2>3, EndOnly DEF IssueRefused, RequestFails
    <2>4. CASE CreateUser(p) \/ SetRole(p)
      BY <1>2, <2>4, GoOnOnly, EndOnly DEF CreateUser, SetRole
    <2>5. CASE DeleteAllForUser(p) \/ DeleteAllFails(p)
      BY <1>2, <2>5, OutdatedOnly DEF DeleteAllForUser, DeleteAllFails
    <2>6. CASE RemoveAccount(p)
      <3>1. \A u \in Accounts : Inserting(u)' \subseteq Inserting(u)
        BY <2>6, EndOnly DEF RemoveAccount, Inserting
      <3>2. \A u \in Accounts : keys'[u] <= keys[u]
        BY <1>1, <2>6 DEF RemoveAccount, SessTypeOK
      <3>3. NoNewKeys
        BY <2>6, <3>1, <3>2 DEF NoNewKeys, RemoveAccount
      <3>4. QED
        BY <3>3, NoNewKeepsKeys
    <2>7. QED
      BY <1>6, <2>1, <2>2, <2>3, <2>4, <2>5, <2>6, InsertKeepsKeys DEF StepOf
  <1>7. ASSUME NEW t \in Tokens, Revoke(t) PROVE KeysInv'
    BY <1>3, <1>7 DEF Revoke
  <1>8. ASSUME NEW u \in Accounts, NEW t \in Tokens, RevokeOtherSessions(u, t) PROVE KeysInv'
    BY <1>3, <1>8 DEF RevokeOtherSessions
  <1>9. ASSUME NEW u \in Accounts, DeleteAPIKey(u) PROVE KeysInv'
    <2>1. NoNewKeys
      BY <1>1, <1>9 DEF DeleteAPIKey, NoNewKeys, Inserting, SessTypeOK
    <2>2. QED
      BY <2>1, NoNewKeepsKeys
  <1>10. CASE PanelRestarts
    <2>1. NoNewKeys
      BY <1>1, <1>10 DEF PanelRestarts, NoNewKeys, Inserting
    <2>2. QED
      BY <2>1, NoNewKeepsKeys
  <1>11. CASE UNCHANGED sessionsVars
    BY <1>3, <1>11 DEF sessionsVars
  <1>12. QED
    BY <1>4, <1>5, <1>6, <1>7, <1>8, <1>9, <1>10, <1>11 DEF SessionsNext

-----------------------------------------------------------------------------
SessIInv == SessTypeOK /\ UseInv /\ PasswordInv /\ AdminInv /\ KeysInv

LEMMA InitSessIInv == SessionsInit => SessIInv
  <1> SUFFICES ASSUME SessionsInit PROVE SessIInv
    OBVIOUS
  <1> USE DEF SessionsInit, At
  <1>1. SessTypeOK
    BY NoRequestTyped DEF SessTypeOK, NotIssued, TokenState
  <1>2. UseInv
    BY SessionsAssumption DEF UseInv, UseOf, Holds, Valid, NotIssued, NoRequest,
       SessionsAssumption, Tokens
  <1>3. PasswordInv
    BY DEF PasswordInv, OldTokenFound, AccountedFor, Valid, NotIssued, NoRequest, TokenSteps
  <1>4. AdminInv
    BY DEF AdminInv, Administering, Removing, NoRequest
  <1>5. KeysInv
    <2>1. \A u \in Accounts : Inserting(u) = {}
      BY DEF Inserting, NoRequest
    <2>2. Cardinality({}) = 0 /\ Cardinality(Requests) \in Nat /\ MaxKeys \in Nat \ {0}
      BY FS_EmptySet, SomeRequests, SessionsAssumption DEF SessionsAssumption
    <2>3. QED
      BY <2>1, <2>2 DEF KeysInv
  <1>6. QED
    BY <1>1, <1>2, <1>3, <1>4, <1>5 DEF SessIInv

LEMMA NextSessIInv == SessIInv /\ [SessionsNext]_sessionsVars => SessIInv'
  BY TypeStep, UseStep, PasswordStep, AdminStep, KeysStep DEF SessIInv

LEMMA SessInvariant == SessionsSpec => []SessIInv
  BY InitSessIInv, NextSessIInv, PTL DEF SessionsSpec

(* Refresh: a refresh token buys at most one session, unless two requests  *)
(* presented it at once or the database kept it; for any number of         *)
(* accounts, requests and tokens.                                          *)
THEOREM TokensSpentOnce == SessionsSpec => []SpentOnce
  <1>1. SessIInv => SpentOnce
    BY DEF SessIInv, UseInv, UseOf, SpentOnce
  <1>2. QED
    BY <1>1, SessInvariant, PTL

(* ChangePassword: the sessions that stem from an old password end with    *)
(* the change, but for those on record as having escaped it.               *)
THEOREM NewPasswordEndsSessions == SessionsSpec => []PasswordEndsSessions
  <1>1. SessIInv => PasswordEndsSessions
    BY DEF SessIInv, PasswordInv, OldTokenFound, Revoking, PasswordEndsSessions
  <1>2. QED
    BY <1>1, SessInvariant, PTL

(* AdminSetUserRole and AdminDeleteUser: while no two of them overlap and  *)
(* none goes unchecked, an administrator remains once there was one.       *)
THEOREM AdministratorRemains == SessionsSpec => []AdminRemains
  <1>1. SessIInv => AdminRemains
    BY DEF SessIInv, AdminInv, AdminRemains
  <1>2. QED
    BY <1>1, SessInvariant, PTL

(* CreateAPIKey: however its counts and inserts interleave, an account's   *)
(* keys exceed the cap by less than the number of requests under way.      *)
THEOREM ApiKeysCapped == SessionsSpec => []KeysCapped
  <1>1. SessIInv => KeysCapped
    <2> SUFFICES ASSUME SessIInv, NEW u \in Accounts \ uncounted
                 PROVE  keys[u] < MaxKeys + Cardinality(Requests)
      BY DEF KeysCapped
    <2>1. Inserting(u) \in SUBSET Requests
      BY DEF Inserting
    <2>2. Cardinality(Inserting(u)) \in Nat /\ Cardinality(Requests) \in Nat
          /\ MaxKeys \in Nat /\ keys[u] \in Nat
      BY <2>1, SomeRequests, SessionsAssumption DEF SessionsAssumption, SessIInv, SessTypeOK
    <2>3. QED
      BY <2>2 DEF SessIInv, KeysInv
  <1>2. QED
    BY <1>1, SessInvariant, PTL
=============================================================================
