------------------------------- MODULE LwsProofs -------------------------------
(* Proofs about Lws, for any pods, versions, sizes, keys, hashes and bounds. *)
EXTENDS Lws, TLAPS, WellFoundedInduction

(* getHighestRevision finds one among revisions whose numbers are bounded.   *)
LEMMA HighestExists ==
    ASSUME NEW S, S # {}, NEW b \in Nat, \A r \in S : r.number \in 0 .. b
    PROVE  getHighestRevision(S) # {}
<1> DEFINE T == {b - r.number : r \in S}
           Less == {z \in Nat \X Nat : z[1] < z[2]}
<1>1. IsWellFoundedOn(Less, Nat)
  BY NatLessThanWellFounded DEF OpToRel
<1>2. T \subseteq Nat /\ T # {}
  BY SMT
<1>3. PICK t \in T : \A u \in T : <<u, t>> \notin Less
  <2> HIDE DEF T, Less
  <2> QED BY <1>1, <1>2, WFMin
<1>4. PICK r \in S : t = b - r.number
  BY <1>3
<1>5. \A s \in S : s.number <= r.number
  <2> TAKE s \in S
  <2>1. b - s.number \in T /\ b - s.number \in Nat /\ t \in Nat
    BY <1>2, <1>3
  <2>2. ~ (b - s.number < t)
    BY <2>1, <1>3
  <2> QED BY <2>2, <1>4
<1> QED BY <1>4, <1>5 DEF getHighestRevision

-----------------------------------------------------------------------------
(* Types                                                                   *)

\* Numbers of revisions are bounded, so that there is a highest one.
Bounded(S) == \E b \in Nat : \A r \in S : r.number \in 0 .. b

Numbered == Bounded(revisions) /\ Bounded(seenRevisions)

TypeInv == TypeOK /\ Numbered

(* NewRevision makes a revision with a number, whose key is the given one    *)
(* or the hash.                                                              *)
LEMMA NewRevisionType ==
    ASSUME TypeInv, NEW v \in Versions, NEW k \in Labels
    PROVE  /\ NewRevision(v, k) \in Revisions
           /\ NewRevision(v, k).version = v
           /\ k # NoKey => NewRevision(v, k).key = k
<1>1. PICK b \in Nat : \A r \in seenRevisions : r.number \in 0 .. b
  BY DEF TypeInv, Numbered, Bounded
<1>2. seenRevisions # {} =>
        (CHOOSE r \in getHighestRevision(seenRevisions) : TRUE) \in seenRevisions
  <2>1. seenRevisions # {} => getHighestRevision(seenRevisions) # {}
    BY <1>1, HighestExists
  <2>2. getHighestRevision(seenRevisions) \subseteq seenRevisions
    BY DEF getHighestRevision
  <2> QED BY <2>1, <2>2
<1>3. seenRevisions # {} =>
        (CHOOSE r \in getHighestRevision(seenRevisions) : TRUE).number \in Nat
  BY <1>2 DEF TypeInv, TypeOK, Revisions
<1>4. Hash[v] \in Keys /\ (k # NoKey => k \in Keys)
  BY VersionsAssumption DEF Labels
<1> QED BY <1>3, <1>4 DEF NewRevision, Revisions

(* Creating a revision keeps the set of revisions in its type, bounded, and  *)
(* a superset of what it was.                                                *)
LEMMA CreateType ==
    ASSUME NEW S \in SUBSET Revisions, NEW r \in Revisions, Bounded(S)
    PROVE  /\ Create(r, S) \in SUBSET Revisions
           /\ Bounded(Create(r, S))
           /\ S \subseteq Create(r, S)
           /\ Create(r, S) \subseteq S \cup {r}
<1>1. PICK b \in Nat : \A s \in S : s.number \in 0 .. b
  BY DEF Bounded
<1>2. r.number \in Nat
  BY DEF Revisions
<1>3. b + r.number \in Nat /\ \A s \in S \cup {r} : s.number \in 0 .. (b + r.number)
  BY <1>1, <1>2
<1>4. Create(r, S) \subseteq S \cup {r} /\ S \subseteq Create(r, S)
  BY DEF Create
<1> QED BY <1>3, <1>4 DEF Bounded

(* GetRevision gives revisions of the cache with the key asked for.          *)
LEMMA GetRevisionKey ==
    ASSUME NEW k, NEW r \in GetRevision(k)
    PROVE  r \in seenRevisions /\ r.key = k /\ k # NoKey
BY DEF GetRevision, getHighestRevision

(* Marking an object as deleted changes nothing else.                       *)
LEMMA MarkDeleted ==
    /\ \A x \in LeaderSets : LET y == [x EXCEPT !.deleting = TRUE] IN
          y \in LeaderSets /\ y.key = x.key
    /\ \A x \in LeaderPods : LET y == [x EXCEPT !.deleting = TRUE] IN
          y \in LeaderPods /\ y.key = x.key /\ y.uid = x.uid
<1>1. ASSUME NEW x \in LeaderSets
      PROVE  LET y == [x EXCEPT !.deleting = TRUE] IN y \in LeaderSets /\ y.key = x.key
  BY DEF LeaderSets
<1>2. ASSUME NEW x \in LeaderPods
      PROVE  LET y == [x EXCEPT !.deleting = TRUE] IN
             y \in LeaderPods /\ y.key = x.key /\ y.uid = x.uid
  BY DEF LeaderPods
<1> QED BY <1>1, <1>2

(* The types hold at the start.                                              *)
LEMMA TypeInit == Init => TypeInv
<1> SUFFICES ASSUME Init PROVE TypeInv
  OBVIOUS
<1>1. TypeOK
  <2>1. /\ [key |-> NoKey, version |-> Created, deleting |-> FALSE] \in LeaderSets
        /\ [key |-> Hash[Created], version |-> Created, deleting |-> FALSE] \in LeaderSets
        /\ [number |-> 1, version |-> Created, key |-> Hash[Created]] \in Revisions
    BY VersionsAssumption DEF LeaderSets, Labels, Revisions
  <2>2. /\ leaderSts \in LeaderSets \cup {Absent} /\ lws \in Versions
        /\ revisions \subseteq Revisions
    BY <2>1, VersionsAssumption DEF Init
  <2>3. edits \in 0 .. MaxEdits /\ faults \in 0 .. MaxFaults /\ uids \in Nat
    BY BoundsAssumption DEF Init
  <2>4. /\ {pod, seenPod} \subseteq [Pods -> LeaderPods \cup {Absent}]
        /\ {worker, seenWorker} \subseteq [Pods -> WorkerSets \cup {Absent}]
    BY DEF Init
  <2> QED BY <2>2, <2>3, <2>4 DEF Init, TypeOK
<1>2. Numbered
  <2>1. \A r \in revisions : r.number = 1
    BY DEF Init
  <2> QED BY <2>1 DEF Init, Numbered, Bounded
<1> QED BY <1>1, <1>2 DEF TypeInv

(* What WorkerReads has decided when it has read.                            *)
LEMMA CallOfReads ==
    ASSUME TypeInv, NEW p \in Pods, WorkerReads(p)
    PROVE  \E r \in GetRevision(seenPod[p].key) :
              LET set == constructWorkerStatefulSet(seenPod[p], r) IN
              /\ set \in WorkerSets
              /\ workerCall' = IF seenWorker[p] # Absent THEN Absent
                               ELSE [name |-> p, set |-> set]
<1>1. PICK r \in GetRevision(seenPod[p].key) :
          workerCall' =
            IF seenWorker[p] # Absent THEN Absent
            ELSE [name |-> p, set |-> constructWorkerStatefulSet(seenPod[p], r)]
  BY DEF WorkerReads
<1>2. seenPod[p] \in LeaderPods /\ lws \in Versions /\ SizeOf[lws] # 1
  BY DEF WorkerReads, NeedsWorkers, TypeInv, TypeOK
<1>3. r \in Revisions /\ r.key = seenPod[p].key
  BY <1>1, GetRevisionKey DEF TypeInv, TypeOK
<1>4. SizeOf[lws] - 1 \in Nat \ {0}
  BY <1>2, VersionsAssumption
<1>5. constructWorkerStatefulSet(seenPod[p], r) \in WorkerSets
  BY <1>2, <1>3, <1>4 DEF constructWorkerStatefulSet, WorkerSets, LeaderPods, Revisions
<1> QED BY <1>1, <1>5

\* While the LeaderWorkerSet is there, no revision is removed.
Grows == lws' # Absent => lws # Absent /\ revisions \subseteq revisions'

(* No step leaves the types.                                                 *)
LEMMA TypeStep == TypeInv /\ [Next]_vars => TypeInv' /\ Grows
<1> SUFFICES ASSUME TypeInv, [Next]_vars
             PROVE  TypeInv' /\ Grows
  OBVIOUS
<1>0. UNCHANGED indexed
  BY DEF Next, vars
<1> USE <1>0 DEF TypeInv, Grows
<1>1. CASE LeaderFinds
  <2>1. PICK r \in GetRevision(leaderSts.key) :
            leaderCall' = [key |-> r.key, version |-> lws]
    BY <1>1 DEF LeaderFinds
  <2>2. r \in Revisions /\ lws \in Versions
    BY <1>1, <2>1, GetRevisionKey DEF LeaderFinds, LeaderActs, TypeOK
  <2>3. leaderCall' \in [key : Keys, version : Versions]
    BY <2>1, <2>2 DEF Revisions
  <2>4. NewRevision(lws, NoKey) \in Revisions
    BY <2>2, NewRevisionType DEF Labels
  <2>5. revisions' = Create(NewRevision(lws, NoKey), revisions)
    BY <1>1 DEF LeaderFinds
  <2>6. revisions' \subseteq Revisions /\ Numbered' /\ revisions \subseteq revisions'
    BY <1>1, <2>4, <2>5, CreateType DEF TypeOK, Numbered, LeaderFinds, caches
  <2>7. TypeOK'
    BY <1>1, <2>3, <2>6 DEF LeaderFinds, caches, TypeOK
  <2> QED BY <1>1, <2>2, <2>6, <2>7, NoneAssumption DEF LeaderFinds
<1>2. CASE LeaderCreates
  <2> DEFINE new == NewRevision(lws, leaderSts.key)
             cur == NewRevision(lws, NoKey)
  <2>1. lws \in Versions /\ leaderSts.key \in Labels
    BY <1>2 DEF LeaderCreates, LeaderActs, TypeOK, LeaderSets
  <2>2. new \in Revisions /\ cur \in Revisions /\ new.version = lws
    BY <2>1, NewRevisionType DEF Labels
  <2>3. /\ revisions' = Create(cur, revisions \cup {new})
        /\ leaderCall' = [key |-> new.key, version |-> lws]
    BY <1>2 DEF LeaderCreates
  <2> HIDE DEF new, cur
  <2>4. PICK b \in Nat : \A r \in revisions : r.number \in 0 .. b
    BY DEF Numbered, Bounded
  <2>5. new.number \in Nat
    BY <2>2 DEF Revisions
  <2>6. b + new.number \in Nat
        /\ \A r \in revisions \cup {new} : r.number \in 0 .. (b + new.number)
    BY <2>4, <2>5
  <2>7. revisions \cup {new} \in SUBSET Revisions
    BY <2>2 DEF TypeOK
  <2>8. revisions' \subseteq Revisions /\ Numbered' /\ revisions \subseteq revisions'
    <3>1. Bounded(revisions \cup {new})
      BY <2>6 DEF Bounded
    <3>2. /\ revisions' \in SUBSET Revisions /\ Bounded(revisions')
          /\ revisions \subseteq revisions'
      BY <2>2, <2>3, <2>7, <3>1, CreateType
    <3>3. UNCHANGED seenRevisions
      BY <1>2 DEF LeaderCreates, caches
    <3> QED BY <3>2, <3>3 DEF Numbered
  <2>9. leaderCall' \in [key : Keys, version : Versions]
    BY <2>1, <2>2, <2>3 DEF Revisions
  <2>10. TypeOK'
    BY <1>2, <2>8, <2>9 DEF LeaderCreates, caches, TypeOK
  <2> QED BY <1>2, <2>1, <2>8, <2>10, NoneAssumption DEF LeaderCreates
<1>3. CASE LeaderApplies
  <2>1. leaderSts' \in LeaderSets
    BY <1>3 DEF LeaderApplies, TypeOK, LeaderSets, Labels
  <2>2. leaderQueue' \in BOOLEAN
    BY <1>3 DEF LeaderApplies, TypeOK
  <2> QED BY <1>3, <2>1, <2>2 DEF LeaderApplies, caches, TypeOK, Numbered
<1>4. CASE LeaderListFails \/ LeaderSkips \/ LeaderWaits \/ LeaderCreateFails
  BY <1>4
  DEF LeaderListFails, LeaderSkips, LeaderWaits, LeaderCreateFails,
      vars, state, api, caches, queues, calls, TypeOK, Numbered
<1>14. CASE LeaderApplyFails
  <2>1. faults' \in 0 .. MaxFaults
    BY <1>14, BoundsAssumption DEF LeaderApplyFails, Fault, TypeOK
  <2> QED BY <1>14, <2>1 DEF LeaderApplyFails, caches, queues, TypeOK, Numbered
<1>5. ASSUME NEW p \in Pods, WorkerSkips(p) \/ WorkerWaits(p)
      PROVE  TypeInv' /\ Grows
  BY <1>5
  DEF WorkerSkips, WorkerWaits, vars, state, api, caches, queues, calls, TypeOK, Numbered
<1>6. ASSUME NEW p \in Pods, WorkerReads(p)
      PROVE  TypeInv' /\ Grows
  <2>6. workerCall' \in [name : Pods, set : WorkerSets] \cup {Absent}
    BY <1>6, CallOfReads
  <2> QED BY <1>6, <2>6 DEF WorkerReads, api, caches, TypeOK, Numbered
<1>7. CASE WorkerCreates
  <2>1. workerCall.name \in Pods /\ workerCall.set \in WorkerSets
    BY <1>7 DEF WorkerCreates, TypeOK
  <2>2. worker' \in [Pods -> WorkerSets \cup {Absent}] /\ workerQueue' \subseteq Pods
    BY <1>7, <2>1 DEF WorkerCreates, TypeOK
  <2> QED BY <1>7, <2>2 DEF WorkerCreates, caches, TypeOK, Numbered
<1>8. CASE Informers
  BY <1>8 DEF Informers, SeeRevisions, SeePod, SeeWorker, api, queues, calls, TypeOK, Numbered
<1>9. CASE CollectLeaderSts
  BY <1>9 DEF CollectLeaderSts, caches, calls, TypeOK, Numbered
<1>16. CASE CollectRevision
  <2>1. revisions' \subseteq revisions /\ lws' = Absent
    BY <1>16 DEF CollectRevision
  <2>2. Bounded(revisions')
    BY <2>1 DEF Bounded, Numbered
  <2> QED BY <1>16, <2>1, <2>2
          DEF CollectRevision, caches, queues, calls, TypeOK, Numbered
<1>15. CASE EditLws
  <2>1. edits' \in 0 .. MaxEdits
    BY <1>15, BoundsAssumption DEF EditLws, TypeOK
  <2> QED BY <1>15, <2>1 DEF EditLws, caches, calls, TypeOK, Numbered
<1>10. CASE TouchLeaderSts
  <2>1. leaderSts' \in LeaderSets
    BY <1>10, MarkDeleted DEF TouchLeaderSts, TypeOK
  <2>2. faults' \in 0 .. MaxFaults
    BY <1>10, BoundsAssumption DEF TouchLeaderSts, Fault, TypeOK
  <2> QED BY <1>10, <2>1, <2>2
          DEF TouchLeaderSts, caches, calls, TypeOK, Numbered
<1>11. ASSUME NEW p \in Pods, EvictPod(p) \/ RollPod(p) \/ PodEnds(p) \/ StartPod(p)
       PROVE  TypeInv' /\ Grows
  <2>1. PICK value \in LeaderPods \cup {Absent} :
            SetPod(p, value) /\ uids' \in Nat /\ edits' = edits /\ faults' \in 0 .. MaxFaults
    <3>1. CASE EvictPod(p) \/ RollPod(p)
      <4>1. [pod[p] EXCEPT !.deleting = TRUE] \in LeaderPods
        BY <3>1, MarkDeleted DEF EvictPod, RollPod, TypeOK
      <4>2. edits' = edits /\ uids' \in Nat /\ faults' \in 0 .. MaxFaults
        BY <3>1, BoundsAssumption DEF EvictPod, RollPod, Fault, TypeOK
      <4> QED BY <3>1, <4>1, <4>2 DEF EvictPod, RollPod
    <3>2. CASE PodEnds(p)
      BY <3>2 DEF PodEnds, TypeOK
    <3>3. CASE StartPod(p)
      <4>1. [uid |-> uids, key |-> leaderSts.key, version |-> leaderSts.version,
             deleting |-> FALSE] \in LeaderPods
        BY <3>3 DEF StartPod, LeaderPods, LeaderSets, TypeOK
      <4> QED BY <3>3, <4>1 DEF StartPod, TypeOK
    <3> QED BY <1>11, <3>1, <3>2, <3>3
  <2>2. pod' \in [Pods -> LeaderPods \cup {Absent}]
    BY <2>1 DEF SetPod, TypeOK
  <2> QED BY <2>1, <2>2 DEF SetPod, caches, queues, calls, TypeOK, Numbered
<1>12. ASSUME NEW p \in Pods, CollectWorker(p)
       PROVE  TypeInv' /\ Grows
  BY <1>12 DEF CollectWorker, caches, queues, calls, TypeOK, Numbered
<1>13. CASE UNCHANGED vars
  BY <1>13 DEF vars, state, api, caches, queues, calls, TypeOK, Numbered
<1> QED
  BY <1>1, <1>2, <1>3, <1>4, <1>14, <1>5, <1>6, <1>7, <1>8, <1>9, <1>15, <1>10, <1>11, <1>12, <1>13,
     <1>16
  DEF Next, LeaderController, WorkerController, Cluster, Faults

(* For any instance, objects, caches and calls keep their types; in          *)
(* particular constructWorkerStatefulSet never asks for zero replicas.       *)
THEOREM TypeCorrect == Spec => []TypeOK
<1>1. Spec => []TypeInv
  BY TypeInit, TypeStep, PTL DEF Spec
<1> QED BY <1>1, PTL DEF TypeInv

-----------------------------------------------------------------------------
(* Keys of revisions                                                       *)

\* Revisions go with the LeaderWorkerSet only.
Kept(key) == lws # Absent => HasRevision(key)

\* Every place a key passes through on its way to a leader pod.
KeyInv ==
    /\ lws # Absent => seenRevisions \subseteq revisions
    /\ leaderSts # Absent /\ leaderSts.key # NoKey => Kept(leaderSts.key)
    /\ leaderCall # Absent => Kept(leaderCall.key)
    /\ \A p \in Pods : pod[p] # Absent /\ pod[p].key # NoKey => Kept(pod[p].key)

(* KeyInv holds at the start.                                                *)
LEMMA KeyInit == Init => KeyInv
<1> SUFFICES ASSUME Init PROVE KeyInv
  OBVIOUS
<1>1. leaderSts # Absent /\ leaderSts.key # NoKey => HasRevision(leaderSts.key)
  <2>1. leaderSts = Absent \/ leaderSts.key = NoKey
        \/ /\ leaderSts.key = Hash[lws]
           /\ revisions = {[number |-> 1, version |-> lws, key |-> Hash[lws]]}
    BY DEF Init
  <2>2. PICK h, r : h = Hash[lws] /\ r = [number |-> 1, version |-> lws, key |-> h]
    OBVIOUS
  <2>3. r.key = h
    BY <2>2
  <2>4. revisions = {r} => HasRevision(h)
    BY <2>3 DEF HasRevision
  <2> QED BY <2>1, <2>2, <2>4
<1> QED BY <1>1 DEF Init, KeyInv, Kept

(* Every step keeps KeyInv.                                                  *)
LEMMA KeyStep == TypeInv /\ KeyInv /\ [Next]_vars => KeyInv'
<1> SUFFICES ASSUME TypeInv, KeyInv, [Next]_vars
             PROVE  KeyInv'
  OBVIOUS
<1>1. TypeInv' /\ Grows
  BY TypeStep
<1>2. \A k : Kept(k) => Kept(k)'
  BY <1>1 DEF Grows, Kept, HasRevision
<1>s. (lws # Absent => seenRevisions \subseteq revisions)'
  <2>1. CASE SeeRevisions
    BY <2>1 DEF SeeRevisions, api
  <2>2. CASE UNCHANGED seenRevisions
    BY <1>1, <2>2 DEF Grows, KeyInv
  <2> QED BY <2>1, <2>2
     DEF Next, LeaderController, WorkerController, Informers, Cluster, Faults,
      LeaderListFails, LeaderSkips, LeaderWaits, LeaderFinds, LeaderCreates,
      LeaderCreateFails, LeaderApplies, LeaderApplyFails, TouchLeaderSts,
      WorkerSkips, WorkerWaits, WorkerReads, WorkerCreates, SeePod, SeeWorker,
      EditLws, CollectLeaderSts, CollectRevision, CollectWorker, EvictPod,
      RollPod, PodEnds, StartPod, SetPod, vars, state, caches
<1>3. CASE LeaderFinds
  <2>1. PICK r \in GetRevision(leaderSts.key) :
            leaderCall' = [key |-> r.key, version |-> lws]
    BY <1>3 DEF LeaderFinds
  <2>2. r \in revisions
    BY <1>3, <2>1, GetRevisionKey DEF KeyInv, LeaderFinds, LeaderActs
  <2>3. Kept(leaderCall'.key)
    BY <2>1, <2>2 DEF Kept, HasRevision
  <2> QED BY <1>s, <1>2, <1>3, <2>3 DEF LeaderFinds, KeyInv
<1>4. CASE LeaderCreates
  <2> DEFINE new == NewRevision(lws, leaderSts.key)
             cur == NewRevision(lws, NoKey)
  <2>1. lws \in Versions /\ leaderSts.key \in Labels
    BY <1>4 DEF LeaderCreates, LeaderActs, TypeInv, TypeOK, LeaderSets
  <2>2. /\ revisions' = Create(cur, revisions \cup {new})
        /\ leaderCall' = [key |-> new.key, version |-> lws]
    BY <1>4 DEF LeaderCreates
  <2> HIDE DEF new, cur
  <2>3. new \in revisions'
    BY <2>2 DEF Create
  <2>4. Kept(leaderCall.key)'
    BY <2>2, <2>3 DEF Kept, HasRevision
  <2> QED BY <1>s, <1>2, <1>4, <2>4 DEF LeaderCreates, KeyInv
<1>5. CASE LeaderApplies
  <2>1. leaderSts'.key = leaderCall.key
    BY <1>5 DEF LeaderApplies
  <2> QED BY <1>s, <1>2, <1>5, <2>1 DEF LeaderApplies, KeyInv
<1>6. CASE TouchLeaderSts
  <2>1. leaderSts'.key = leaderSts.key /\ leaderSts # Absent
    BY <1>6, MarkDeleted DEF TouchLeaderSts, TypeInv, TypeOK
  <2> QED BY <1>s, <1>2, <1>6, <2>1 DEF TouchLeaderSts, calls, KeyInv
<1>7. ASSUME NEW p \in Pods, EvictPod(p) \/ RollPod(p) \/ PodEnds(p) \/ StartPod(p)
      PROVE  KeyInv'
  <2>1. PICK value :
            /\ SetPod(p, value)
            /\ value # Absent /\ value.key # NoKey => Kept(value.key)
    <3>1. CASE EvictPod(p) \/ RollPod(p)
      <4>1. pod[p] \in LeaderPods /\ pod[p] # Absent
        BY <3>1 DEF EvictPod, RollPod, TypeInv, TypeOK
      <4>2. [pod[p] EXCEPT !.deleting = TRUE].key = pod[p].key
        BY <4>1, MarkDeleted
      <4>3. SetPod(p, [pod[p] EXCEPT !.deleting = TRUE])
        BY <3>1 DEF EvictPod, RollPod
      <4> QED BY <4>1, <4>2, <4>3 DEF KeyInv
    <3>2. CASE PodEnds(p)
      BY <3>2 DEF PodEnds
    <3>3. CASE StartPod(p)
      <4> DEFINE new == [uid |-> uids, key |-> leaderSts.key,
                         version |-> leaderSts.version, deleting |-> FALSE]
      <4>1. SetPod(p, new) /\ leaderSts # Absent
        BY <3>3 DEF StartPod
      <4>2. new.key = leaderSts.key
        OBVIOUS
      <4> HIDE DEF new
      <4> QED BY <4>1, <4>2 DEF KeyInv
    <3> QED BY <1>7, <3>1, <3>2, <3>3
  <2>2. \A q \in Pods : pod'[q] = IF q = p THEN value ELSE pod[q]
    BY <2>1 DEF SetPod, TypeInv, TypeOK
  <2>3. \A q \in Pods : pod'[q] # Absent /\ pod'[q].key # NoKey => Kept(pod'[q].key)
    BY <2>1, <2>2 DEF KeyInv
  <2>4. UNCHANGED <<leaderSts, leaderCall>>
    BY <2>1 DEF SetPod, calls
  <2> QED BY <1>s, <1>2, <2>3, <2>4 DEF KeyInv
<1>8. CASE CollectLeaderSts \/ LeaderApplyFails
  BY <1>s, <1>2, <1>8 DEF CollectLeaderSts, LeaderApplyFails, calls, KeyInv
<1>9. CASE UNCHANGED <<leaderSts, leaderCall, pod>>
  BY <1>s, <1>2, <1>9 DEF KeyInv
<1> QED
  BY <1>3, <1>4, <1>5, <1>6, <1>7, <1>8, <1>9
  DEF Next, LeaderController, WorkerController, Informers, Cluster, Faults,
      LeaderListFails, LeaderSkips, LeaderWaits, LeaderCreateFails, WorkerSkips, WorkerWaits,
      WorkerReads, WorkerCreates, SeeRevisions, SeePod, SeeWorker, EditLws,
      CollectWorker, CollectRevision, vars, state, api, caches, queues, calls

(* For any instance and any lag of the caches, the key a leader pod carries  *)
(* is the key of a revision: Reconcile creates it before the apply, and the  *)
(* garbage collector leaves it alone while the LeaderWorkerSet is there.     *)
THEOREM KeysHaveRevisions == Spec => []LeaderKeyHasRevision
<1>1. Init => TypeInv /\ KeyInv
  BY KeyInit, TypeInit
<1>2. KeyInv => LeaderKeyHasRevision
  BY DEF KeyInv, Kept, LeaderKeyHasRevision
<1> QED BY <1>1, <1>2, TypeStep, KeyStep, PTL DEF Spec

-----------------------------------------------------------------------------
(* Worker sets                                                             *)

Recorded(set) ==
    lws # Absent =>
        \E r \in revisions : r.key = set.key /\ r.version = set.version

\* A uid is never given again: who knows the uid of the present pod p knows
\* its key.
Knows(p, uid, key) ==
    /\ uid < uids
    /\ pod[p] # Absent /\ pod[p].uid = uid => pod[p].key = key

\* What pods, cached pods, a call in flight and worker sets know.
WorkerInv ==
    /\ \A p \in Pods :
          /\ pod[p] # Absent => pod[p].uid < uids
          /\ seenPod[p] # Absent => Knows(p, seenPod[p].uid, seenPod[p].key)
          /\ worker[p] # Absent =>
                Recorded(worker[p]) /\ Knows(p, worker[p].owner, worker[p].key)
    /\ workerCall # Absent =>
          /\ Recorded(workerCall.set)
          /\ Knows(workerCall.name, workerCall.set.owner, workerCall.set.key)

(* Every step keeps WorkerInv.                                               *)
LEMMA WorkerStep == TypeInv /\ KeyInv /\ WorkerInv /\ [Next]_vars => WorkerInv'
<1> SUFFICES ASSUME TypeInv, KeyInv, WorkerInv, [Next]_vars
             PROVE  WorkerInv'
  OBVIOUS
<1>1. TypeInv' /\ Grows
  BY TypeStep
<1>2. \A set : Recorded(set) => Recorded(set)'
  BY <1>1 DEF Grows, Recorded
<1>3. ASSUME UNCHANGED <<pod, uids>>
      PROVE  \A p, u, k : Knows(p, u, k) => Knows(p, u, k)'
  BY <1>3 DEF Knows
<1>4. ASSUME NEW p \in Pods, SeePod(p)
      PROVE  WorkerInv'
  <2>1. UNCHANGED <<pod, uids, worker, workerCall, revisions>>
    BY <1>4 DEF SeePod, api, calls
  <2>2. \A q \in Pods : seenPod'[q] = IF q = p THEN pod[p] ELSE seenPod[q]
    BY <1>4 DEF SeePod, TypeInv, TypeOK
  <2>3. \A q \in Pods :
            seenPod'[q] # Absent => Knows(q, seenPod'[q].uid, seenPod'[q].key)
    BY <2>2 DEF WorkerInv, Knows
  <2> QED BY <1>2, <1>3, <2>1, <2>3 DEF WorkerInv
<1>5. ASSUME NEW p \in Pods, WorkerReads(p)
      PROVE  WorkerInv'
  <2>1. UNCHANGED <<pod, uids, worker, seenPod, revisions>>
    BY <1>5 DEF WorkerReads, api, caches
  <2>2. PICK r \in GetRevision(seenPod[p].key) :
            workerCall' =
              IF seenWorker[p] # Absent THEN Absent
              ELSE [name |-> p, set |-> constructWorkerStatefulSet(seenPod[p], r)]
    BY <1>5 DEF WorkerReads
  <2>3. r \in revisions /\ r.key = seenPod[p].key
    BY <1>5, <2>2, GetRevisionKey DEF KeyInv, WorkerReads, NeedsWorkers
  <2> DEFINE set == constructWorkerStatefulSet(seenPod[p], r)
  <2>4. set.key = r.key /\ set.version = r.version /\ set.owner = seenPod[p].uid
    BY <2>3 DEF constructWorkerStatefulSet
  <2>5. seenPod[p] # Absent
    BY <1>5 DEF WorkerReads, NeedsWorkers
  <2> HIDE DEF set
  <2>6. Recorded(set) /\ Knows(p, set.owner, set.key)
    BY <2>3, <2>4, <2>5 DEF Recorded, WorkerInv
  <2>7. workerCall' # Absent => workerCall'.name = p /\ workerCall'.set = set
    BY <2>2 DEF set
  <2>8. workerCall' # Absent =>
            /\ Recorded(workerCall'.set)
            /\ Knows(workerCall'.name, workerCall'.set.owner, workerCall'.set.key)
    BY <2>6, <2>7
  <2> QED BY <1>2, <1>3, <2>1, <2>8 DEF WorkerInv
<1>6. CASE WorkerCreates
  <2>1. UNCHANGED <<pod, uids, seenPod, revisions>> /\ workerCall' = Absent
    BY <1>6 DEF WorkerCreates, caches
  <2>2. \A q \in Pods : \/ worker'[q] = worker[q]
                        \/ q = workerCall.name /\ worker'[q] = workerCall.set
    BY <1>6 DEF WorkerCreates, TypeInv, TypeOK
  <2>3. \A q \in Pods : worker'[q] # Absent =>
            Recorded(worker'[q]) /\ Knows(q, worker'[q].owner, worker'[q].key)
    BY <1>6, <2>2 DEF WorkerCreates, WorkerInv
  <2> QED BY <1>2, <1>3, <2>1, <2>3 DEF WorkerInv
<1>7. ASSUME NEW p \in Pods, CollectWorker(p)
      PROVE  WorkerInv'
  <2>1. UNCHANGED <<pod, uids, seenPod, revisions, workerCall>>
    BY <1>7 DEF CollectWorker, caches, calls
  <2>2. \A q \in Pods : worker'[q] = worker[q] \/ worker'[q] = Absent
    BY <1>7 DEF CollectWorker, TypeInv, TypeOK
  <2> QED BY <1>2, <1>3, <2>1, <2>2 DEF WorkerInv
<1>8. ASSUME NEW p \in Pods, EvictPod(p) \/ RollPod(p) \/ PodEnds(p) \/ StartPod(p)
      PROVE  WorkerInv'
  <2>1. UNCHANGED <<seenPod, worker, workerCall, revisions>>
    BY <1>8 DEF EvictPod, RollPod, PodEnds, StartPod, SetPod, caches, calls
  <2>2. /\ \A q \in Pods : pod'[q] # Absent =>
              \/ pod'[q].uid = uids /\ uids' = uids + 1
              \/ /\ pod[q] # Absent
                 /\ pod'[q].uid = pod[q].uid /\ pod'[q].key = pod[q].key
        /\ uids' = uids \/ uids' = uids + 1
    <3>1. CASE EvictPod(p) \/ RollPod(p)
      <4> DEFINE new == [pod[p] EXCEPT !.deleting = TRUE]
      <4>1. pod[p] \in LeaderPods /\ pod[p] # Absent
        BY <3>1 DEF EvictPod, RollPod, TypeInv, TypeOK
      <4>2. new.key = pod[p].key /\ new.uid = pod[p].uid
        BY <4>1, MarkDeleted
      <4>3. SetPod(p, new) /\ uids' = uids
        BY <3>1 DEF EvictPod, RollPod
      <4> HIDE DEF new
      <4>4. \A q \in Pods : pod'[q] = IF q = p THEN new ELSE pod[q]
        BY <4>3 DEF SetPod, TypeInv, TypeOK
      <4> QED BY <4>1, <4>2, <4>3, <4>4
    <3>2. CASE PodEnds(p)
      BY <3>2 DEF PodEnds, SetPod, TypeInv, TypeOK
    <3>3. CASE StartPod(p)
      <4> DEFINE new == [uid |-> uids, key |-> leaderSts.key,
                         version |-> leaderSts.version, deleting |-> FALSE]
      <4>1. SetPod(p, new) /\ uids' = uids + 1
        BY <3>3 DEF StartPod
      <4>2. new.uid = uids
        OBVIOUS
      <4> HIDE DEF new
      <4>3. \A q \in Pods : pod'[q] = IF q = p THEN new ELSE pod[q]
        BY <4>1 DEF SetPod, TypeInv, TypeOK
      <4> QED BY <4>1, <4>2, <4>3
    <3> QED BY <1>8, <3>1, <3>2, <3>3
  <2>3. uids \in Nat
    BY DEF TypeInv, TypeOK
  <2>4. \A q \in Pods : pod[q] # Absent => pod[q].uid \in Nat
    BY DEF TypeInv, TypeOK, LeaderPods
  <2>5. ASSUME NEW q \in Pods, NEW u \in Nat, NEW k, Knows(q, u, k)
        PROVE  Knows(q, u, k)'
    BY <2>2, <2>3, <2>5 DEF Knows
  <2>6. \A q \in Pods : pod'[q] # Absent => pod'[q].uid < uids'
    BY <2>2, <2>3, <2>4 DEF WorkerInv
  <2>7. /\ \A q \in Pods : /\ seenPod[q] # Absent => seenPod[q].uid \in Nat
                           /\ worker[q] # Absent => worker[q].owner \in Nat
        /\ workerCall # Absent => workerCall.name \in Pods /\ workerCall.set.owner \in Nat
    BY DEF TypeInv, TypeOK, LeaderPods, WorkerSets
  <2> QED BY <1>2, <2>1, <2>5, <2>6, <2>7 DEF WorkerInv
<1>9. CASE UNCHANGED <<pod, uids, seenPod, worker, workerCall>>
  BY <1>2, <1>3, <1>9 DEF WorkerInv
<1> QED
  BY <1>4, <1>5, <1>6, <1>7, <1>8, <1>9
  DEF Next, LeaderController, WorkerController, Informers, Cluster, Faults,
      LeaderListFails, LeaderSkips, LeaderWaits, LeaderFinds, LeaderCreates, LeaderCreateFails,
      LeaderApplies, LeaderApplyFails, TouchLeaderSts, WorkerSkips, WorkerWaits,
      SeeRevisions, SeeWorker, EditLws, CollectLeaderSts,
      CollectRevision, vars, state, api, caches, queues, calls

(* For any instance and any lag of the caches, a worker set has a version    *)
(* that a revision of its key records, and the key of the leader it belongs  *)
(* to, even if both were deleted and made again under the same name.         *)
THEOREM WorkersStayRecorded == Spec => []WorkersAreRecorded
<1>1. Init => TypeInv /\ KeyInv /\ WorkerInv
  <2>1. Init => WorkerInv
    BY DEF Init, WorkerInv
  <2> QED BY <2>1, KeyInit, TypeInit
<1>2. WorkerInv => WorkersAreRecorded
  BY DEF WorkerInv, Recorded, Knows, WorkersAreRecorded
<1> QED BY <1>1, <1>2, TypeStep, KeyStep, WorkerStep, PTL DEF Spec

-----------------------------------------------------------------------------
(* No leader is forgotten                                                  *)

Live(p) == pod[p] # Absent /\ ~ pod[p].deleting /\ lws # Absent

Due(p) == p \in workerQueue \/ seenPod[p] # pod[p]

\* A leader that stays is due, or in a call, or has its set, or a set of its
\* name was seen, whose end will be seen, too; and a call for another leader of
\* its name is not the last.
Minded(p) ==
    /\ \/ Due(p)
       \/ workerCall # Absent /\ workerCall.name = p
       \/ worker[p] # Absent /\ worker[p].owner = pod[p].uid
       \/ seenWorker[p] # Absent
    /\ workerCall # Absent /\ workerCall.name = p =>
          Due(p) \/ workerCall.set.owner = pod[p].uid

MindedInv == \A p \in Pods : Live(p) => Minded(p)

(* A leader is minded as long as nothing about it changes,                   *)
LEMMA StaysMinded ==
    ASSUME NEW p, Live(p) => Minded(p), Live(p)' => Live(p),
           UNCHANGED <<pod[p], worker[p], seenPod[p], seenWorker[p], workerCall>>,
           p \in workerQueue => p \in workerQueue'
    PROVE  Live(p)' => Minded(p)'
BY DEF Minded, Due

(* and once it is due.                                                       *)
LEMMA DueIsMinded ==
    ASSUME NEW p, Due(p)' PROVE Minded(p)'
BY DEF Minded, Due

(* While every version has workers, no step forgets a leader.                *)
LEMMA MindedStep ==
    /\ TypeInv /\ WorkerInv /\ MindedInv /\ (lws # Absent => SizeOf[lws] # 1)
    /\ [Next]_vars
    => MindedInv'
<1> SUFFICES ASSUME TypeInv, WorkerInv, MindedInv, lws # Absent => SizeOf[lws] # 1,
                    [Next]_vars, NEW q \in Pods
             PROVE  Live(q)' => Minded(q)'
  BY DEF MindedInv
<1>q. Live(q) => Minded(q)
  BY DEF MindedInv
<1>1. ASSUME NEW p \in Pods, WorkerSkips(p)
      PROVE  Live(q)' => Minded(q)'
  <2>1. /\ workerQueue' = workerQueue \ {p}
        /\ UNCHANGED <<lws, pod, worker, seenPod, seenWorker, workerCall>>
    BY <1>1 DEF WorkerSkips, api, caches, calls
  <2>2. Live(q)' => Live(q)
    BY <2>1 DEF Live
  <2>3. CASE q = p
    <3>1. Live(q) => seenPod[q] # pod[q]
      BY <1>1, <2>3 DEF WorkerSkips, NeedsWorkers, Live
    <3> QED BY <2>1, <2>2, <3>1, DueIsMinded DEF Due
  <2>4. CASE q # p
    BY <1>q, <2>1, <2>2, <2>4, StaysMinded
  <2> QED BY <2>3, <2>4
<1>2. ASSUME NEW p \in Pods, WorkerReads(p)
      PROVE  Live(q)' => Minded(q)'
  <2>1. /\ workerQueue' = workerQueue \ {p} /\ workerCall = Absent
        /\ UNCHANGED <<lws, pod, worker, seenPod, seenWorker>>
    BY <1>2 DEF WorkerReads, WorkerTakes, api, caches
  <2>2. PICK r \in GetRevision(seenPod[p].key) :
            LET set == constructWorkerStatefulSet(seenPod[p], r) IN
            /\ set \in WorkerSets
            /\ workerCall' = IF seenWorker[p] # Absent THEN Absent
                             ELSE [name |-> p, set |-> set]
    BY <1>2, CallOfReads
  <2>3. /\ seenWorker[p] # Absent => workerCall' = Absent
        /\ seenWorker[p] = Absent =>
              /\ workerCall' # Absent /\ workerCall'.name = p
              /\ workerCall'.set.owner = seenPod[p].uid
    <3>x. PICK set : set = constructWorkerStatefulSet(seenPod[p], r)
      OBVIOUS
    <3>1. set.owner = seenPod[p].uid
      BY <3>x DEF constructWorkerStatefulSet
    <3>2. set \in WorkerSets
      BY <2>2, <3>x
    <3>3. /\ seenWorker[p] # Absent => workerCall' = Absent
          /\ seenWorker[p] = Absent => workerCall' = [name |-> p, set |-> set]
      BY <2>2, <3>x
    <3>4. [name |-> p, set |-> set] # Absent
      BY <3>2, AbsentAssumption
    <3> QED BY <3>1, <3>3, <3>4
  <2>4. CASE q = p
    <3>1. \/ seenWorker'[q] # Absent
          \/ workerCall' # Absent /\ workerCall'.name = q
      BY <2>1, <2>3, <2>4
    <3>2. workerCall' # Absent => Due(q)' \/ workerCall'.set.owner = pod'[q].uid
      BY <2>1, <2>3, <2>4 DEF Due
    <3> QED BY <3>1, <3>2 DEF Minded
  <2>5. CASE q # p
    <3>1. Live(q)' => Live(q)
      BY <2>1 DEF Live
    <3>2. Due(q) => Due(q)'
      BY <2>1, <2>5 DEF Due
    <3>3. ~ (workerCall' # Absent /\ workerCall'.name = q)
      BY <2>3, <2>5
    <3> QED BY <1>q, <2>1, <3>1, <3>2, <3>3 DEF Minded
  <2> QED BY <2>4, <2>5
<1>3. CASE WorkerCreates
  <2>1. /\ UNCHANGED <<lws, pod, seenPod, seenWorker>> /\ workerCall' = Absent
        /\ workerCall # Absent
    BY <1>3 DEF WorkerCreates, caches
  <2>2. \/ /\ worker[workerCall.name] = Absent /\ workerQueue' = workerQueue
           /\ worker' = [worker EXCEPT ![workerCall.name] = workerCall.set]
        \/ workerQueue' = workerQueue \cup {workerCall.name} /\ worker' = worker
    BY <1>3 DEF WorkerCreates
  <2>3. /\ workerCall.set # Absent
        /\ worker \in [Pods -> WorkerSets \cup {Absent}]
    BY <2>1, AbsentAssumption DEF TypeInv, TypeOK
  <2>4. (Live(q)' => Live(q)) /\ (Due(q) => Due(q)')
    BY <2>1, <2>2 DEF Live, Due
  <2>5. CASE workerCall.name = q
    <3>1. Due(q)' \/ worker'[q] = workerCall.set
      BY <2>2, <2>3, <2>5 DEF Due
    <3>2. Live(q) => Due(q)' \/ workerCall.set.owner = pod'[q].uid
      BY <1>q, <2>1, <2>4, <2>5 DEF Minded
    <3> QED BY <2>1, <2>3, <2>4, <3>1, <3>2 DEF Minded
  <2>6. CASE workerCall.name # q
    <3>1. worker'[q] = worker[q]
      BY <2>2, <2>3, <2>6
    <3> QED BY <1>q, <2>1, <2>4, <2>6, <3>1 DEF Minded
  <2> QED BY <2>5, <2>6
<1>4. ASSUME NEW p \in Pods, SeePod(p) \/ SeeWorker(p)
      PROVE  Live(q)' => Minded(q)'
  <2>1. /\ UNCHANGED <<lws, pod, worker, workerCall>>
        /\ workerQueue' = workerQueue \cup {p}
        /\ q # p => seenPod'[q] = seenPod[q] /\ seenWorker'[q] = seenWorker[q]
    BY <1>4 DEF SeePod, SeeWorker, api, calls, TypeInv, TypeOK
  <2>2. CASE q = p
    BY <2>1, <2>2, DueIsMinded DEF Due
  <2>3. CASE q # p
    <3>1. Live(q)' => Live(q)
      BY <2>1 DEF Live
    <3> QED BY <1>q, <2>1, <2>3, <3>1, StaysMinded
  <2> QED BY <2>2, <2>3
<1>5. ASSUME NEW p \in Pods, CollectWorker(p)
      PROVE  Live(q)' => Minded(q)'
  <2>1. /\ UNCHANGED <<lws, pod, seenPod, seenWorker, workerCall, workerQueue>>
        /\ pod[p] # Absent => pod[p].uid # worker[p].owner
        /\ q # p => worker'[q] = worker[q]
    BY <1>5 DEF CollectWorker, caches, queues, calls, TypeInv, TypeOK
  <2>2. (Live(q)' => Live(q)) /\ (Due(q) => Due(q)')
    BY <2>1 DEF Live, Due
  <2> QED BY <1>q, <2>1, <2>2 DEF Minded, Live
<1>6. ASSUME NEW p \in Pods, EvictPod(p) \/ RollPod(p) \/ PodEnds(p) \/ StartPod(p)
      PROVE  Live(q)' => Minded(q)'
  <2>1. /\ UNCHANGED <<lws, worker, seenPod, seenWorker, workerCall, workerQueue>>
        /\ q # p => pod'[q] = pod[q]
    BY <1>6 DEF EvictPod, RollPod, PodEnds, StartPod, SetPod, caches, queues,
       calls, TypeInv, TypeOK
  <2>2. Live(p)' => seenPod[p] # pod'[p]
    <3>1. CASE EvictPod(p) \/ RollPod(p)
      <4>1. pod[p] \in LeaderPods /\ pod'[p] = [pod[p] EXCEPT !.deleting = TRUE]
        BY <3>1 DEF EvictPod, RollPod, SetPod, TypeInv, TypeOK
      <4>2. pod'[p].deleting
        BY <4>1 DEF LeaderPods
      <4> QED BY <4>2 DEF Live
    <3>2. CASE PodEnds(p)
      BY <3>2 DEF PodEnds, SetPod, Live, TypeInv, TypeOK
    <3>3. CASE StartPod(p)
      <4>1. pod'[p].uid = uids
        BY <3>3 DEF StartPod, SetPod, TypeInv, TypeOK
      <4>2. seenPod[p] # Absent => seenPod[p].uid < uids /\ seenPod[p].uid \in Nat
        BY DEF WorkerInv, Knows, TypeInv, TypeOK, LeaderPods
      <4> QED BY <4>1, <4>2 DEF Live, TypeInv, TypeOK
    <3> QED BY <1>6, <3>1, <3>2, <3>3
  <2>3. CASE q = p
    BY <2>1, <2>2, <2>3, DueIsMinded DEF Due
  <2>4. CASE q # p
    <3>1. Live(q)' => Live(q)
      BY <2>1, <2>4 DEF Live
    <3> QED BY <1>q, <2>1, <2>4, <3>1, StaysMinded
  <2> QED BY <2>3, <2>4
<1>7. CASE EditLws \/ UNCHANGED <<lws, pod, worker, seenPod, seenWorker,
                                  workerCall, workerQueue>>
  <2>1. /\ Live(q)' => Live(q)
        /\ UNCHANGED <<pod, worker, seenPod, seenWorker, workerCall, workerQueue>>
    BY <1>7 DEF EditLws, caches, calls, Live
  <2> QED BY <1>q, <2>1, StaysMinded
<1> QED
  BY <1>1, <1>2, <1>3, <1>4, <1>5, <1>6, <1>7
  DEF Next, LeaderController, WorkerController, Informers, Cluster, Faults,
      LeaderListFails, LeaderSkips, LeaderWaits, LeaderFinds, LeaderCreates, LeaderCreateFails,
      LeaderApplies, LeaderApplyFails, TouchLeaderSts, WorkerWaits,
      SeeRevisions, CollectLeaderSts, CollectRevision, vars, state, api, caches, queues, calls

(* For any number of leaders, edits and faults and any lag of the caches:    *)
(* a leader for which nothing is left to do has its worker set, although     *)
(* Get-or-Create of worker_statefulset_reconciler.go reads a stale cache.    *)
THEOREM SettledLeadersKeepWorkers == Spec => SettledLeadersHaveWorkers
<1>1. Init => TypeInv /\ KeyInv /\ WorkerInv /\ MindedInv
  <2>1. Init => WorkerInv /\ MindedInv
    BY DEF Init, WorkerInv, MindedInv, Live
  <2> QED BY <2>1, KeyInit, TypeInit
<1>2. MindedInv => \A p \in Pods :
          /\ pod[p] # Absent /\ ~ pod[p].deleting /\ lws # Absent
          /\ Settled(p)
          => worker[p] # Absent
  BY DEF MindedInv, Minded, Live, Due, Settled
<1> QED BY <1>1, <1>2, TypeStep, KeyStep, WorkerStep, MindedStep, PTL
        DEF Spec, SettledLeadersHaveWorkers
=============================================================================
