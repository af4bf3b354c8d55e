------------------------- MODULE EppDatastoreProofs -------------------------
(***************************************************************************)
(* Proofs about EppDatastore, for every set of pods, number of target      *)
(* ports, set of objects, bound on edits and kinds of edits.               *)
(***************************************************************************)
EXTENDS EppDatastore, FiniteSetTheorems, TLAPS

USE PortsAssumption, EditsAssumption, NoneAssumption

(* A step of the environment changes the cluster and the queues only.      *)
LEMMA EnvironmentFrame ==
    Environment => UNCHANGED <<store, frame, poolFrame>>
  BY DEF Environment, CreatePod, ChangePod, DeletePod, EditPool, DeletePool,
         EnvUnchanged

(* The environment keeps the types of the objects and the queues.          *)
LEMMA EnvironmentTypes ==
    ASSUME TypeOK, Environment PROVE ClusterTypeOK'
<1> USE DEF TypeOK, ClusterTypeOK, Labels, PodObjects, EndpointPools
<1>1. ASSUME NEW p \in Pods, CreatePod(p) PROVE ClusterTypeOK'
  BY <1>1 DEF CreatePod, EditAllowed, PodEvent
<1>2. ASSUME NEW p \in Pods, ChangePod(p) PROVE ClusterTypeOK'
  BY <1>2 DEF ChangePod, EditAllowed, PodEvent
<1>3. ASSUME NEW p \in Pods, DeletePod(p) PROVE ClusterTypeOK'
  BY <1>3 DEF DeletePod, EditAllowed, PodEvent
<1>4. CASE EditPool
  BY <1>4 DEF EditPool, EditAllowed
<1>5. CASE DeletePool
  BY <1>5 DEF DeletePool, EditAllowed
<1> QED
  BY <1>1, <1>2, <1>3, <1>4, <1>5 DEF Environment

(* One step of a datastore operation, run by either controller.            *)
LEMMA DatastoreOpTypes ==
    ASSUME TypeOK, NEW self \in Procs, DatastoreOp(self) PROVE TypeOK'
<1> USE DEF TypeOK, cluster, queues, store, poolFrame, Procs, Labelled,
            PoolLabels
<1>1. ClusterTypeOK' /\ overlapped' \in BOOLEAN
  BY DEF ClusterTypeOK, DatastoreOp, AddBegin, AddLoad, AddStore, AddEnd,
         DeleteVisit, DeleteEntry, DeleteRelease, DeleteEnd, Goto
<1>2. PoolFrameTypeOK'
  BY DEF PoolFrameTypeOK, FrameTypeOK, DatastoreOp, AddBegin, AddLoad,
         AddStore, AddEnd, AddReturn, DeleteVisit, DeleteEntry,
         DeleteRelease, DeleteEnd, Goto
<1>3. StoreTypeOK' /\ FrameTypeOK'
  <2> USE DEF StoreTypeOK, FrameTypeOK, EndpointPools, Keys, Ranks
  <2>1. CASE AddBegin(self)
    BY <2>1 DEF AddBegin, Goto
  <2>2. CASE AddLoad(self)
    BY <2>2 DEF AddLoad, Goto
  <2>3. CASE AddStore(self)
    BY <2>3 DEF AddStore, Goto
  <2>4. CASE AddEnd(self)
    BY <2>4 DEF AddEnd, Goto, AddReturn
  <2>5. CASE DeleteVisit(self)
    <3>1. PICK r \in todo[self] : DeleteVisit(self)!2!(r)
      BY <2>5 DEF DeleteVisit
    <3>2. r \in Ranks /\ <<arg[self], r>> \in Keys
      BY <2>5 DEF DeleteVisit
    <3>3. UNCHANGED <<store, arg, ports>>
      BY <2>5 DEF DeleteVisit
    <3>4. CASE pods[<<arg[self], r>>] = NoInst
      BY <3>1, <3>2, <3>3, <3>4
    <3>5. CASE pods[<<arg[self], r>>] # NoInst
      BY <3>1, <3>2, <3>3, <3>5, <2>5 DEF Goto, DeleteVisit
    <3> QED
      BY <3>4, <3>5
  <2>6. CASE DeleteEntry(self)
    BY <2>6 DEF DeleteEntry, Goto
  <2>7. CASE DeleteRelease(self)
    <3>1. StoreTypeOK'
      BY <2>7 DEF DeleteRelease
    <3>2. FrameTypeOK'
      BY <2>7 DEF DeleteRelease, Goto
    <3> QED
      BY <3>1, <3>2
  <2>8. CASE DeleteEnd(self)
    BY <2>8 DEF DeleteEnd, Goto, PoolFrameTypeOK
  <2> QED
    BY <2>1, <2>2, <2>3, <2>4, <2>5, <2>6, <2>7, <2>8 DEF DatastoreOp
<1> QED
  BY <1>1, <1>2, <1>3

(* Type correctness of every reachable state.                              *)
THEOREM TypeCorrect == Spec => []TypeOK
<1> USE DEF Procs, Labels, Labelled, PoolLabels
<1>1. Init => TypeOK
  <2> SUFFICES ASSUME Init PROVE TypeOK
    OBVIOUS
  <2>1. ClusterTypeOK
    <3>1. /\ podObj \in [Pods -> PodObjects \cup {NoObj}]
          /\ inferencePool \in EndpointPools \cup {NoObj}
      BY DEF Init
    <3>2. edits \in 0 .. MaxEdits /\ strays \subseteq Pods
      BY DEF Init
    <3>3. podQueue \subseteq Pods /\ poolQueue \in BOOLEAN
      BY DEF Init
    <3> QED
      BY <3>1, <3>2, <3>3 DEF ClusterTypeOK
  <2>2. StoreTypeOK
    BY DEF Init, StoreTypeOK
  <2>3. FrameTypeOK
    BY DEF Init, FrameTypeOK
  <2>4. PoolFrameTypeOK
    BY DEF Init, PoolFrameTypeOK
  <2> QED
    BY <2>1, <2>2, <2>3, <2>4 DEF TypeOK, Init
<1>2. TypeOK /\ [Next]_vars => TypeOK'
  <2> SUFFICES ASSUME TypeOK, [Next]_vars PROVE TypeOK'
    OBVIOUS
  <2> USE DEF cluster, queues, store, frame, poolFrame
  <2>1. CASE Environment
    BY <2>1, EnvironmentFrame, EnvironmentTypes
       DEF TypeOK, StoreTypeOK, FrameTypeOK, PoolFrameTypeOK
  <2>2. CASE PodController
    <3> USE DEF TypeOK, ClusterTypeOK, StoreTypeOK, FrameTypeOK, PoolFrameTypeOK
    <3>1. CASE PodReconcile
      <4>1. PICK p \in podQueue : PodReconcile!2!(p)
        BY <3>1 DEF PodReconcile
      <4>2. podQueue' \subseteq Pods /\ arg' = [arg EXCEPT !["podReconciler"] = p]
        BY <4>1
      <4>3. \/ /\ Goto("podReconciler", "range")
               /\ todo' = [todo EXCEPT !["podReconciler"] = Ranks]
            \/ /\ Goto("podReconciler", "add")
               /\ UNCHANGED todo
        BY <4>1
      <4>4. UNCHANGED <<cluster, poolQueue, store, ports, rank, held, poolFrame>>
        BY <3>1 DEF PodReconcile
      <4> QED
        <5>1. ClusterTypeOK' /\ StoreTypeOK'
          BY <4>2, <4>4
        <5>2. pc' \in [Procs -> Labelled \cup PoolLabels] /\ overlapped' \in BOOLEAN
          BY <4>3 DEF Goto
        <5>3. FrameTypeOK'
          BY <4>2, <4>3, <4>4 DEF Goto
        <5>4. PoolFrameTypeOK'
          BY <4>3, <4>4 DEF Goto
        <5> QED
          BY <5>1, <5>2, <5>3, <5>4
    <3>2. CASE AddPanic
      BY <3>2 DEF AddPanic, Goto
    <3> QED
      BY <2>2, <3>1, <3>2, DatastoreOpTypes DEF PodController
  <2>3. CASE PoolController
    <3> USE DEF TypeOK, ClusterTypeOK, StoreTypeOK, FrameTypeOK, PoolFrameTypeOK
    <3>1. CASE PoolReconcile
      BY <3>1 DEF PoolReconcile, PoolGoto, Goto
    <3>2. CASE PoolReconcileGone
      BY <3>2 DEF PoolReconcileGone, PoolGoto, Goto
    <3>3. CASE StartStorePools
      BY <3>3 DEF StartStorePools, PoolGoto, Goto, EndpointPools
    <3>4. CASE StartSwapPool
      BY <3>4 DEF StartSwapPool, PoolGoto, Goto
    <3>5. CASE ListPods
      BY <3>5 DEF ListPods, PoolGoto, Goto
    <3>6. CASE ListPodsFails
      BY <3>6 DEF ListPodsFails, EditAllowed, PoolGoto, Goto
    <3>7. CASE SyncNext
      BY <3>7 DEF SyncNext, PoolGoto, Goto
    <3>8. CASE SyncEnd
      BY <3>8 DEF SyncEnd, PoolGoto, Goto
    <3>9. ASSUME NEW label \in {"prune", "clear"}, NEW k \in outer,
                 NEW drop, OuterVisit(label, k, drop)
          PROVE  TypeOK'
      <4>1. k[1] \in Pods /\ outer' \subseteq Keys
        BY <3>9 DEF OuterVisit, Keys
      <4>2. \/ /\ arg' = [arg EXCEPT !["poolReconciler"] = k[1]]
               /\ todo' = [todo EXCEPT !["poolReconciler"] = Ranks]
               /\ ret' = label
               /\ Goto("poolReconciler", "range")
            \/ UNCHANGED <<pc, overlapped, arg, todo, ret>>
        BY <3>9 DEF OuterVisit, PoolGoto
      <4>3. UNCHANGED <<cluster, queues, store, ports, rank, held, latest,
                        syncTodo, active>>
        BY <3>9 DEF OuterVisit
      <4> QED
        <5>1. ClusterTypeOK' /\ StoreTypeOK'
          BY <4>3
        <5>2. overlapped' \in BOOLEAN
          BY <4>2 DEF Goto
        <5>3. FrameTypeOK'
          BY <4>1, <4>2, <4>3 DEF Goto
        <5>4. PoolFrameTypeOK'
          BY <4>1, <4>2, <4>3 DEF Goto
        <5> QED
          BY <5>1, <5>2, <5>3, <5>4
    <3>10. CASE PruneVisit \/ ClearVisit
      BY <3>9, <3>10 DEF PruneVisit, ClearVisit
    <3>11. CASE PruneEnd
      BY <3>11 DEF PruneEnd, PoolGoto, Goto
    <3>12. CASE ClearMap
      BY <3>12 DEF ClearMap, PoolGoto, Goto
    <3> QED
      BY <2>3, <3>1, <3>2, <3>3, <3>4, <3>5, <3>6, <3>7, <3>8, <3>9, <3>10,
         <3>11, <3>12, DatastoreOpTypes DEF PoolController
  <2>4. CASE UNCHANGED vars
    BY <2>4 DEF vars, TypeOK, ClusterTypeOK, StoreTypeOK, FrameTypeOK,
                PoolFrameTypeOK
  <2> QED
    BY <2>1, <2>2, <2>3, <2>4 DEF Next
<1> QED
  BY <1>1, <1>2, PTL DEF Spec

-----------------------------------------------------------------------------
(* An absent entry is no endpoint key.                                     *)
LEMMA NoInstNoKey == NoInst \notin Keys
  BY DEF Keys, Ranks

(* Steps that touch neither the map nor an object, and bring nobody to the *)
(* middle of a PodDelete, keep ObjectInv.                                  *)
LEMMA ObjectFrame ==
    ASSUME ObjectInv, UNCHANGED <<pods, keyOf, stopped, held>>,
           \A s \in Procs : pc'[s] \in {"delete", "release"} =>
               pc'[s] = pc[s] /\ arg'[s] = arg[s] /\ rank'[s] = rank[s]
    PROVE  ObjectInv'
  BY DEF ObjectInv, KeyAt

(* Every operation of the datastore keeps ObjectInv, whichever controller  *)
(* runs it and whatever the other one is in the middle of.                 *)
LEMMA DatastoreOpObjects ==
    ASSUME TypeOK, ObjectInv, NEW self \in Procs, DatastoreOp(self)
    PROVE  ObjectInv'
<1> USE DEF TypeOK, StoreTypeOK, FrameTypeOK
<1>1. CASE AddBegin(self) \/ AddLoad(self) \/ AddEnd(self) \/ DeleteEnd(self)
  <2>1. UNCHANGED <<pods, keyOf, stopped, held>>
    BY <1>1 DEF AddBegin, AddLoad, AddEnd, DeleteEnd, store
  <2>2. \A s \in Procs : pc'[s] \in {"delete", "release"} =>
            pc'[s] = pc[s] /\ arg'[s] = arg[s] /\ rank'[s] = rank[s]
    <3>1. CASE AddBegin(self)
      BY <3>1 DEF AddBegin, Goto
    <3>2. CASE AddLoad(self)
      BY <3>2 DEF AddLoad, Goto
    <3>3. CASE AddEnd(self)
      BY <3>3 DEF AddEnd, AddReturn, Goto
    <3>4. CASE DeleteEnd(self)
      BY <3>4 DEF DeleteEnd, Goto, PoolFrameTypeOK
    <3> QED
      BY <1>1, <3>1, <3>2, <3>3, <3>4
  <2> QED
    BY <2>1, <2>2, ObjectFrame
<1>2. CASE AddStore(self)
  <2> DEFINE k == <<arg[self], rank[self]>>
  <2>1. PICK i \in Instances : /\ keyOf[i] = NoInst
                               /\ keyOf' = [keyOf EXCEPT ![i] = k]
                               /\ pods' = [pods EXCEPT ![k] = i]
    BY <1>2 DEF AddStore, Fresh
  <2>2. k \in Keys /\ k # NoInst
    BY <1>2 DEF AddStore, Labelled, Keys, Ranks
  <2>3. UNCHANGED <<stopped, held, arg>>
    BY <1>2 DEF AddStore, Fresh
  <2>4. i \notin stopped /\ \A q \in Keys : pods[q] # i
    BY <2>1, <2>2, NoInstNoKey DEF ObjectInv
  <2>5. \A s \in Procs : pc'[s] \in {"delete", "release"} =>
            /\ pc'[s] = pc[s] /\ rank'[s] = rank[s] /\ s # self
            /\ held[s] \in Instances /\ held[s] # i
            /\ KeyAt(s) \in Keys /\ KeyAt(s)' = KeyAt(s)
    <3>1. \A s \in Procs : pc'[s] \in {"delete", "release"} =>
            pc'[s] = pc[s] /\ rank'[s] = rank[s] /\ s # self
      BY <1>2 DEF AddStore, Goto
    <3>2. \A s \in Procs : pc[s] \in {"delete", "release"} =>
            held[s] \in Instances /\ KeyAt(s) \in Keys /\ KeyAt(s) # NoInst
      BY DEF KeyAt, Keys, Labelled, Ranks
    <3>3. \A s \in Procs : pc[s] \in {"delete", "release"} => held[s] # i
      BY <2>1, <3>2 DEF ObjectInv
    <3> QED
      BY <3>1, <3>2, <3>3, <2>3 DEF KeyAt
  <2>6. \A q \in Keys : pods'[q] # NoInst =>
            keyOf'[pods'[q]] = q /\ pods'[q] \notin stopped'
    BY <2>1, <2>2, <2>3, <2>4 DEF ObjectInv
  <2>7. \A j \in stopped' : keyOf'[j] # NoInst
    BY <2>1, <2>2, <2>3 DEF ObjectInv
  <2>8. \A s \in Procs : pc'[s] \in {"delete", "release"} =>
            keyOf'[held'[s]] = KeyAt(s)'
    BY <2>1, <2>3, <2>5 DEF ObjectInv
  <2>9. \A s \in Procs : pc'[s] = "release" => pods'[KeyAt(s)'] # held'[s]
    BY <2>1, <2>2, <2>3, <2>5 DEF ObjectInv
  <2> QED
    BY <2>6, <2>7, <2>8, <2>9 DEF ObjectInv, KeyAt
<1>3. CASE DeleteVisit(self)
  <2>1. PICK r \in todo[self] : DeleteVisit(self)!2!(r)
    BY <1>3 DEF DeleteVisit
  <2> DEFINE k == <<arg[self], r>>
  <2>2. k \in Keys
    BY <1>3 DEF DeleteVisit, Labelled, Keys
  <2>3. UNCHANGED <<pods, keyOf, stopped, arg>>
    BY <1>3 DEF DeleteVisit, store
  <2>4. CASE pods[k] = NoInst
    BY <2>1, <2>3, <2>4 DEF ObjectInv, KeyAt
  <2>5. CASE pods[k] # NoInst
    <3>1. /\ held' = [held EXCEPT ![self] = pods[k]]
          /\ rank' = [rank EXCEPT ![self] = r]
          /\ pc' = [pc EXCEPT ![self] = "delete"]
      BY <2>1, <2>5 DEF Goto
    <3>2. \A s \in Procs : pc'[s] \in {"delete", "release"} =>
              keyOf'[held'[s]] = KeyAt(s)'
      BY <2>2, <2>3, <2>5, <3>1 DEF ObjectInv, KeyAt
    <3>3. \A s \in Procs : pc'[s] = "release" => pods'[KeyAt(s)'] # held'[s]
      BY <2>2, <2>3, <2>5, <3>1 DEF ObjectInv, KeyAt
    <3> QED
      BY <2>3, <3>2, <3>3 DEF ObjectInv, KeyAt
  <2> QED
    BY <2>4, <2>5
<1>4. CASE DeleteEntry(self)
  <2>1. /\ pods' = [pods EXCEPT ![KeyAt(self)] = NoInst]
        /\ pc' = [pc EXCEPT ![self] = "release"]
        /\ pc[self] = "delete"
        /\ UNCHANGED <<keyOf, stopped, arg, rank, held>>
    BY <1>4 DEF DeleteEntry, Goto, KeyAt
  <2>2. KeyAt(self) \in Keys /\ held[self] \in Instances
    BY <2>1 DEF KeyAt, Keys, Labelled
  <2>3. \A s \in Procs : pc'[s] \in {"delete", "release"} =>
            KeyAt(s) \in Keys /\ held[s] \in Instances
    BY <2>1, <2>2 DEF KeyAt, Keys, Labelled
  <2>4. \A s \in Procs : KeyAt(s)' = KeyAt(s)
    BY <2>1 DEF KeyAt
  <2>5. \A q \in Keys : pods'[q] # NoInst => pods'[q] = pods[q]
    BY <2>1, <2>2
  <2>6. \A s \in Procs : pc'[s] \in {"delete", "release"} =>
            keyOf'[held'[s]] = KeyAt(s)'
    BY <2>1, <2>4 DEF ObjectInv
  <2>7. \A s \in Procs : pc'[s] = "release" => pods'[KeyAt(s)'] # held'[s]
    BY <2>1, <2>2, <2>3, <2>4 DEF ObjectInv
  <2> QED
    BY <2>1, <2>5, <2>6, <2>7 DEF ObjectInv, KeyAt
<1>5. CASE DeleteRelease(self)
  <2>1. /\ stopped' = stopped \cup {held[self]}
        /\ held' = [held EXCEPT ![self] = NoInst]
        /\ pc' = [pc EXCEPT ![self] = "range"]
        /\ pc[self] = "release"
        /\ UNCHANGED <<pods, keyOf, arg, rank>>
    BY <1>5 DEF DeleteRelease, Goto
  <2>2. KeyAt(self) \in Keys /\ held[self] \in Instances /\ KeyAt(self) # NoInst
    BY <2>1 DEF KeyAt, Keys, Labelled, Ranks
  <2>3. \A q \in Keys : pods[q] # held[self]
    BY <2>1, <2>2 DEF ObjectInv
  <2> QED
    BY <2>1, <2>2, <2>3 DEF ObjectInv, KeyAt
<1> QED
  BY <1>1, <1>2, <1>3, <1>4, <1>5 DEF DatastoreOp

(* Every step keeps ObjectInv.                                             *)
LEMMA ObjectStep ==
    ASSUME TypeOK, ObjectInv, [Next]_vars PROVE ObjectInv'
<1> USE DEF TypeOK, StoreTypeOK, FrameTypeOK, store
<1>1. CASE Environment
  BY <1>1, EnvironmentFrame DEF ObjectInv, KeyAt, frame
<1>2. CASE UNCHANGED vars
  BY <1>2 DEF ObjectInv, KeyAt, frame, vars
<1>3. CASE ClearMap
  BY <1>3 DEF ClearMap, ObjectInv, KeyAt, PoolGoto, Goto, Keys, Labelled, Procs
<1>4. CASE PodReconcile \/ AddPanic
  BY <1>4, ObjectFrame DEF PodReconcile, AddPanic, Goto
<1>5. CASE PruneVisit \/ ClearVisit
  BY <1>5, ObjectFrame DEF PruneVisit, ClearVisit, OuterVisit, PoolGoto, Goto
<1>6. CASE PoolReconcile \/ PoolReconcileGone \/ StartStorePools \/ StartSwapPool
  BY <1>6, ObjectFrame DEF PoolReconcile, PoolReconcileGone, StartStorePools,
                           StartSwapPool, PoolGoto, Goto
<1>7. CASE ListPods \/ ListPodsFails \/ SyncNext \/ SyncEnd \/ PruneEnd
  BY <1>7, ObjectFrame DEF ListPods, ListPodsFails, SyncNext, SyncEnd,
                           PruneEnd, PoolGoto, Goto
<1>8. CASE \E self \in Procs : DatastoreOp(self)
  BY <1>8, DatastoreOpObjects
<1> QED
  BY <1>1, <1>2, <1>3, <1>4, <1>5, <1>6, <1>7, <1>8
     DEF Next, PodController, PoolController, Procs

(* No endpoint the scheduler can read has had its metrics loop stopped,    *)
(* however the pod and the pool controller interleave inside the datastore.*)
THEOREM ServedEndpointsStayLive == Spec => []ServedEndpointsAreLive
<1>1. Init => ObjectInv
  BY DEF Init, ObjectInv, Procs
<1>2. ObjectInv => ServedEndpointsAreLive
  BY DEF ObjectInv, ServedEndpointsAreLive
<1> QED
  BY <1>1, <1>2, ObjectStep, TypeCorrect, PTL DEF Spec

-----------------------------------------------------------------------------
(* A step of a datastore operation that leaves overlapped false finds, and *)
(* leaves, the other controller idle.                                      *)
LEMMA TakingTurns ==
    ASSUME TypeOK, SerialInv, NEW self \in Procs, DatastoreOp(self),
           ~ overlapped'
    PROVE  /\ ~ overlapped
           /\ \A s \in Procs \ {self} : pc[s] = "idle" /\ pc'[s] = "idle"
<1> USE DEF TypeOK, FrameTypeOK, Procs
<1>1. ~ overlapped
  BY DEF DatastoreOp, AddBegin, AddLoad, AddStore, AddEnd, DeleteVisit,
         DeleteEntry, DeleteRelease, DeleteEnd, Goto
<1>2. Busy(self)
  BY DEF DatastoreOp, AddBegin, AddLoad, AddStore, AddEnd, DeleteVisit,
         DeleteEntry, DeleteRelease, DeleteEnd, Busy
<1>3. \A s \in Procs \ {self} : pc[s] = "idle"
  BY <1>1, <1>2 DEF SerialInv, OneBusy, Busy
<1>4. \A s \in Procs \ {self} : pc'[s] = pc[s]
  BY DEF DatastoreOp, AddBegin, AddLoad, AddStore, AddEnd, DeleteVisit,
         DeleteEntry, DeleteRelease, DeleteEnd, Goto
<1> QED
  BY <1>1, <1>3, <1>4

(* A datastore operation keeps SerialInv.                                  *)
LEMMA DatastoreOpSerial ==
    ASSUME TypeOK, ObjectInv, SerialInv, NEW self \in Procs, DatastoreOp(self)
    PROVE  SerialInv'
<1> SUFFICES ASSUME ~ overlapped'
             PROVE  /\ OneBusy' /\ LoopsReachable'
                    /\ SeenIsCurrent' /\ ClearLeavesNothing'
  BY DEF SerialInv
<1> USE DEF TypeOK, StoreTypeOK, FrameTypeOK
<1>1. OneBusy /\ LoopsReachable /\ SeenIsCurrent /\ ClearLeavesNothing
  BY TakingTurns DEF SerialInv
<1>2. \A s \in Procs \ {self} : pc[s] = "idle" /\ pc'[s] = "idle"
  BY TakingTurns
<1>3. OneBusy'
  BY <1>2 DEF OneBusy, Busy, Procs
<1>4. \A s \in Procs : s = "poolReconciler" \/ s = "podReconciler"
  BY DEF Procs
<1>5. CASE AddBegin(self) \/ AddEnd(self)
  <2>1. UNCHANGED <<pods, keyOf, stopped, held>>
    BY <1>5 DEF AddBegin, AddEnd, store
  <2>2. pc[self] \in {"add", "load"} /\ pc'[self] \in {"load", "idle", "sync"}
    BY <1>5 DEF AddBegin, AddEnd, AddReturn, Goto
  <2> QED
    BY <1>1, <1>2, <1>3, <2>1, <2>2
       DEF LoopsReachable, SeenIsCurrent, ClearLeavesNothing, Procs
<1>6. CASE AddLoad(self)
  <2>1. UNCHANGED <<pods, keyOf, stopped, held, arg>>
    BY <1>6 DEF AddLoad, store
  <2>2. pc[self] = "load" /\ pc'[self] \in {"load", "store"}
    BY <1>6 DEF AddLoad, Goto
  <2>3. pc'[self] = "store" => pods[KeyAt(self)] = NoInst /\ UNCHANGED rank
    BY <1>6 DEF AddLoad, KeyAt
  <2> QED
    BY <1>1, <1>2, <1>3, <2>1, <2>2, <2>3
       DEF LoopsReachable, SeenIsCurrent, ClearLeavesNothing, Procs, KeyAt
<1>7. CASE AddStore(self)
  <2> DEFINE k == KeyAt(self)
  <2>1. PICK i \in Instances : /\ keyOf[i] = NoInst
                               /\ keyOf' = [keyOf EXCEPT ![i] = k]
                               /\ pods' = [pods EXCEPT ![k] = i]
    BY <1>7 DEF AddStore, Fresh, KeyAt
  <2>2. k \in Keys
    BY <1>7 DEF AddStore, Labelled, Keys, KeyAt
  <2>3. UNCHANGED <<stopped, held>> /\ pc[self] = "store" /\ pc'[self] = "load"
    BY <1>7 DEF AddStore, Goto
  <2>4. pods[k] = NoInst
    BY <1>1, <2>3 DEF SeenIsCurrent
  <2>5. LoopsReachable'
    <3> SUFFICES ASSUME NEW j \in Instances, keyOf'[j] # NoInst, j \notin stopped'
                 PROVE  pods'[keyOf'[j]] = j
      BY DEF LoopsReachable
    <3>1. CASE j = i
      BY <2>1, <2>2, <3>1
    <3>2. CASE j # i
      <4>1. keyOf'[j] = keyOf[j] /\ keyOf[j] \in Keys
        BY <2>1, <3>2
      <4>2. pods[keyOf[j]] = j
        BY <1>1, <1>2, <2>3, <4>1 DEF LoopsReachable, Procs
      <4> QED
        BY <2>1, <2>2, <2>4, <4>1, <4>2
    <3> QED
      BY <3>1, <3>2
  <2> QED
    BY <1>2, <1>3, <2>3, <2>5 DEF SeenIsCurrent, ClearLeavesNothing, Procs
<1>8. CASE DeleteVisit(self)
  <2>1. PICK r \in todo[self] : DeleteVisit(self)!2!(r)
    BY <1>8 DEF DeleteVisit
  <2> DEFINE k == <<arg[self], r>>
  <2>2. k \in Keys /\ pc[self] = "range"
    BY <1>8 DEF DeleteVisit, Labelled, Keys
  <2>3. UNCHANGED <<pods, keyOf, stopped, arg, outer, ret>>
    BY <1>8 DEF DeleteVisit, store, poolFrame
  <2>4. LoopsReachable'
    BY <1>1, <1>2, <2>2, <2>3 DEF LoopsReachable, Procs
  <2>5. CASE pods[k] = NoInst
    <3>1. UNCHANGED <<pc, rank, held>> /\ todo' = [todo EXCEPT ![self] = @ \ {r}]
      BY <2>1, <2>5
    <3>2. SeenIsCurrent'
      BY <1>1, <2>3, <3>1 DEF SeenIsCurrent, KeyAt
    <3>3. ClearLeavesNothing'
      <4>1. \A q \in Keys : q = <<q[1], q[2]>>
        BY DEF Keys
      <4> QED
        BY <1>1, <1>2, <2>2, <2>3, <2>5, <3>1, <4>1 DEF ClearLeavesNothing, Procs
    <3> QED
      BY <1>3, <2>4, <3>2, <3>3
  <2>6. CASE pods[k] # NoInst
    <3>1. /\ held' = [held EXCEPT ![self] = pods[k]]
          /\ rank' = [rank EXCEPT ![self] = r]
          /\ todo' = [todo EXCEPT ![self] = @ \ {r}]
          /\ pc' = [pc EXCEPT ![self] = "delete"]
      BY <2>1, <2>6 DEF Goto
    <3>2. SeenIsCurrent'
      BY <1>2, <2>3, <3>1 DEF SeenIsCurrent, KeyAt
    <3>3. ClearLeavesNothing'
      BY <1>1, <1>2, <2>2, <2>3, <3>1 DEF ClearLeavesNothing, Procs
    <3> QED
      BY <1>3, <2>4, <3>2, <3>3
  <2> QED
    BY <2>5, <2>6
<1>9. CASE DeleteEntry(self)
  <2>1. /\ pods' = [pods EXCEPT ![KeyAt(self)] = NoInst]
        /\ pc' = [pc EXCEPT ![self] = "release"]
        /\ pc[self] = "delete"
        /\ UNCHANGED <<keyOf, stopped, arg, rank, held, todo, outer, ret>>
    BY <1>9 DEF DeleteEntry, Goto, KeyAt, poolFrame
  <2>2. KeyAt(self) \in Keys /\ held[self] \in Instances
    BY <2>1 DEF KeyAt, Keys, Labelled
  <2>3. pods[KeyAt(self)] = held[self]
    BY <1>1, <2>1 DEF SeenIsCurrent
  <2>4. LoopsReachable'
    <3> SUFFICES ASSUME NEW j \in Instances, keyOf[j] # NoInst, j \notin stopped
                 PROVE  \/ pods'[keyOf[j]] = j
                        \/ pc'[self] = "release" /\ held[self] = j
      BY <2>1 DEF LoopsReachable
    <3>1. pods[keyOf[j]] = j /\ keyOf[j] \in Keys
      BY <1>1, <1>2, <2>1 DEF LoopsReachable, Procs
    <3> QED
      BY <2>1, <2>2, <2>3, <3>1
  <2>5. SeenIsCurrent'
    BY <1>2, <2>1 DEF SeenIsCurrent
  <2>6. ClearLeavesNothing'
    <3>1. \A q \in Keys : q = <<q[1], q[2]>>
      BY DEF Keys
    <3>2. \A q \in Keys : pods'[q] # NoInst => pods[q] # NoInst /\ q # KeyAt(self)
      BY <2>1, <2>2
    <3> QED
      BY <1>1, <1>2, <2>1, <3>1, <3>2 DEF ClearLeavesNothing, KeyAt, Procs
  <2> QED
    BY <1>3, <2>4, <2>5, <2>6
<1>10. CASE DeleteRelease(self)
  <2>1. /\ stopped' = stopped \cup {held[self]}
        /\ pc' = [pc EXCEPT ![self] = "range"]
        /\ pc[self] = "release"
        /\ UNCHANGED <<pods, keyOf, arg, rank, todo, outer, ret>>
    BY <1>10 DEF DeleteRelease, Goto, poolFrame
  <2>2. LoopsReachable'
    BY <1>1, <1>2, <2>1 DEF LoopsReachable, Procs
  <2>3. SeenIsCurrent'
    BY <1>2, <2>1 DEF SeenIsCurrent
  <2>4. ClearLeavesNothing'
    BY <1>1, <1>2, <2>1 DEF ClearLeavesNothing, Procs
  <2> QED
    BY <1>3, <2>2, <2>3, <2>4
<1>11. CASE DeleteEnd(self)
  <2>1. /\ pc[self] = "range" /\ todo[self] = {}
        /\ pc' = [pc EXCEPT ![self] = IF self = "podReconciler" THEN "idle" ELSE ret]
        /\ UNCHANGED <<pods, keyOf, stopped, held, arg, rank, todo, outer, ret>>
    BY <1>11 DEF DeleteEnd, Goto, store, poolFrame
  <2>2. ret \in {"prune", "clear"}
    BY DEF PoolFrameTypeOK
  <2>3. LoopsReachable'
    BY <1>1, <1>2, <2>1, <2>2 DEF LoopsReachable, Procs
  <2>4. SeenIsCurrent'
    BY <1>2, <2>1, <2>2 DEF SeenIsCurrent
  <2>5. ClearLeavesNothing'
    BY <1>1, <1>2, <2>1, <2>2 DEF ClearLeavesNothing, Procs
  <2> QED
    BY <1>3, <2>3, <2>4, <2>5
<1> QED
  BY <1>5, <1>6, <1>7, <1>8, <1>9, <1>10, <1>11 DEF DatastoreOp

(* A step of self to a label outside of every datastore operation, that    *)
(* touches neither the map nor an object.                                  *)
LEMMA SerialFrame ==
    ASSUME TypeOK, SerialInv, UNCHANGED <<pods, keyOf, stopped, held>>,
           NEW self \in Procs, NEW label, Goto(self, label),
           pc[self] \notin {"store", "delete", "release"},
           label \notin {"store", "delete", "release"},
           pc[self] # "idle" \/ label # "idle",
           \/ self = "podReconciler"
           \/ label \notin {"range", "clear"}
           \/ SerialInv /\ ~ overlapped => ClearLeavesNothing'
    PROVE  SerialInv'
<1> SUFFICES ASSUME ~ overlapped'
             PROVE  /\ OneBusy' /\ LoopsReachable'
                    /\ SeenIsCurrent' /\ ClearLeavesNothing'
  BY DEF SerialInv
<1> USE DEF TypeOK, FrameTypeOK, Procs
<1>1. ~ overlapped /\ pc' = [pc EXCEPT ![self] = label]
  BY DEF Goto
<1>2. OneBusy /\ LoopsReachable
  BY <1>1 DEF SerialInv
<1>3. \A s \in Procs \ {self} : pc[s] = "idle" /\ pc'[s] = "idle"
  BY <1>1, <1>2 DEF OneBusy, Busy, Goto
<1>4. OneBusy'
  BY <1>3 DEF OneBusy, Busy
<1>5. LoopsReachable'
  BY <1>1, <1>2 DEF LoopsReachable
<1>6. SeenIsCurrent'
  BY <1>1, <1>3 DEF SeenIsCurrent
<1>7. ClearLeavesNothing'
  BY <1>1, <1>3 DEF ClearLeavesNothing
<1> QED
  BY <1>4, <1>5, <1>6, <1>7

(* One entry of the Range of StartPodMetricsLoop or of Clear.              *)
LEMMA OuterVisitSerial ==
    ASSUME TypeOK, SerialInv, NEW label \in {"prune", "clear"},
           NEW k \in outer, NEW drop, OuterVisit(label, k, drop),
           label = "clear" => drop
    PROVE  SerialInv'
<1> USE DEF TypeOK, StoreTypeOK, FrameTypeOK, PoolFrameTypeOK
<1>1. /\ pc["poolReconciler"] = label /\ outer' = outer \ {k}
      /\ UNCHANGED <<pods, keyOf, stopped, held, rank>>
  BY DEF OuterVisit, store
<1>2. ~ overlapped /\ label = "clear" => \A q \in Keys \ outer : pods[q] = NoInst
  BY <1>1 DEF SerialInv, ClearLeavesNothing
<1>3. k \in Keys /\ k[2] \in Ranks
  BY DEF Keys
<1>4. CASE pods[k] # NoInst /\ drop
  <2>1. /\ arg' = [arg EXCEPT !["poolReconciler"] = k[1]]
        /\ todo' = [todo EXCEPT !["poolReconciler"] = Ranks]
        /\ ret' = label
        /\ Goto("poolReconciler", "range")
    BY <1>4 DEF OuterVisit, PoolGoto
  <2>2. pc'["poolReconciler"] = "range"
    BY <2>1 DEF Goto, Procs
  <2>3. ~ overlapped => ClearLeavesNothing'
    BY <1>1, <1>2, <1>3, <2>1, <2>2 DEF ClearLeavesNothing, Procs
  <2> QED
    BY <1>1, <2>1, <2>3, SerialFrame DEF Procs
<1>5. CASE ~ (pods[k] # NoInst /\ drop)
  <2>1. UNCHANGED <<pc, overlapped, arg, todo, ret>>
    BY <1>5 DEF OuterVisit
  <2>2. ~ overlapped => OneBusy' /\ LoopsReachable' /\ SeenIsCurrent'
    BY <1>1, <2>1
       DEF SerialInv, OneBusy, Busy, LoopsReachable, SeenIsCurrent, KeyAt
  <2>3. label = "clear" => pods[k] = NoInst
    BY <1>5
  <2>4. ~ overlapped => ClearLeavesNothing'
    BY <1>1, <1>2, <2>1, <2>3 DEF ClearLeavesNothing
  <2> QED
    BY <2>1, <2>2, <2>4 DEF SerialInv
<1> QED
  BY <1>4, <1>5

(* Every step keeps SerialInv.                                             *)
LEMMA SerialStep ==
    ASSUME TypeOK, ObjectInv, SerialInv, [Next]_vars PROVE SerialInv'
<1> USE DEF store, PoolGoto
<1>1. CASE Environment \/ UNCHANGED vars
  BY <1>1, EnvironmentFrame
     DEF SerialInv, OneBusy, Busy, LoopsReachable, SeenIsCurrent,
         ClearLeavesNothing, KeyAt, frame, poolFrame, vars
<1>2. CASE PodReconcile
  <2>1. PICK label \in {"range", "add"} : Goto("podReconciler", label)
    BY <1>2 DEF PodReconcile
  <2>2. UNCHANGED <<pods, keyOf, stopped, held>> /\ pc["podReconciler"] = "idle"
    BY <1>2 DEF PodReconcile
  <2> QED
    BY <2>1, <2>2, SerialFrame DEF Procs
<1>3. CASE AddPanic
  BY <1>3, SerialFrame DEF AddPanic, Procs
<1>4. CASE PoolReconcile
  BY <1>4, SerialFrame DEF PoolReconcile, Procs
<1>5. CASE PoolReconcileGone
  <2>1. pc'["poolReconciler"] = "clear"
    BY <1>5 DEF PoolReconcileGone, Goto, Procs, TypeOK, FrameTypeOK
  <2>2. ClearLeavesNothing'
    BY <1>5, <2>1 DEF PoolReconcileGone, ClearLeavesNothing
  <2> QED
    BY <1>5, <2>2, SerialFrame DEF PoolReconcileGone, Procs
<1>6. CASE StartStorePools
  BY <1>6, SerialFrame DEF StartStorePools, Procs
<1>7. CASE StartSwapPool
  <2>1. PICK label \in {"list", "idle"} : Goto("poolReconciler", label)
    BY <1>7 DEF StartSwapPool
  <2> QED
    BY <1>7, <2>1, SerialFrame DEF StartSwapPool, Procs
<1>8. CASE ListPods
  BY <1>8, SerialFrame DEF ListPods, Procs
<1>9. CASE ListPodsFails
  BY <1>9, SerialFrame DEF ListPodsFails, Procs
<1>10. CASE SyncNext
  BY <1>10, SerialFrame DEF SyncNext, Procs
<1>11. CASE SyncEnd
  BY <1>11, SerialFrame DEF SyncEnd, Procs
<1>12. CASE PruneVisit \/ ClearVisit
  BY <1>12, OuterVisitSerial DEF PruneVisit, ClearVisit
<1>13. CASE PruneEnd
  BY <1>13, SerialFrame DEF PruneEnd, Procs
<1>14. CASE ClearMap
  <2>1. /\ pc["poolReconciler"] = "clear" /\ outer = {}
        /\ Goto("poolReconciler", "idle")
        /\ UNCHANGED <<keyOf, stopped, held>>
        /\ pods' = [q \in Keys |-> NoInst]
    BY <1>14 DEF ClearMap
  <2>2. CASE overlapped
    BY <2>1, <2>2 DEF Goto, SerialInv
  <2>3. CASE ~ overlapped
    <3>1. \A q \in Keys : pods[q] = NoInst
      BY <2>1, <2>3 DEF SerialInv, ClearLeavesNothing
    <3>2. pods' = pods
      BY <2>1, <3>1 DEF TypeOK, StoreTypeOK
    <3> QED
      BY <2>1, <3>2, SerialFrame DEF Procs
  <2> QED
    BY <2>2, <2>3 DEF TypeOK
<1>15. CASE \E self \in Procs : DatastoreOp(self)
  BY <1>15, DatastoreOpSerial
<1> QED
  BY <1>1, <1>2, <1>3, <1>4, <1>5, <1>6, <1>7, <1>8, <1>9, <1>10, <1>11,
     <1>12, <1>13, <1>14, <1>15 DEF Next, PodController, PoolController, Procs

(* While the controllers take turns, adds, resyncs, PodDelete and Clear    *)
(* never lose the last reference to a metrics loop that still runs.        *)
THEOREM NoLeakWhileSerial == Spec => []NoLeakWithoutOverlap
<1>1. Init => ObjectInv /\ SerialInv
  <2>1. Init => ObjectInv
    BY DEF Init, ObjectInv, Procs
  <2>2. Init => OneBusy /\ LoopsReachable
    BY DEF Init, OneBusy, Busy, LoopsReachable, Procs
  <2>3. Init => SeenIsCurrent /\ ClearLeavesNothing
    BY DEF Init, SeenIsCurrent, ClearLeavesNothing, Procs
  <2> QED
    BY <2>1, <2>2, <2>3 DEF SerialInv
<1>2. TypeOK /\ ObjectInv /\ SerialInv => NoLeakWithoutOverlap
  BY DEF SerialInv, LoopsReachable, NoLeakWithoutOverlap, Orphan
<1> QED
  BY <1>1, <1>2, ObjectStep, SerialStep, TypeCorrect, PTL DEF Spec

-----------------------------------------------------------------------------
(* The quiet store matches the cluster.  Where the two controllers are.    *)
podPc == pc["podReconciler"]
poolPc == pc["poolReconciler"]
Adding == {"add", "load", "store"}
Deleting == {"range", "delete", "release"}

Present(p, r) == pods[<<p, r>>] # NoInst
Filled(p, n) == \A r \in Ranks : r < n => Present(p, r)
(* The edits the store makes up for.                                         *)
SettlingEdits == {"podReady", "podDelete", "unlabelled"}

(* Pods whose place in the store may be wrong for now: a change of theirs is *)
(* queued, or they once came without the pool's name.                        *)
Excused == podQueue \cup strays

Fits(p) ==
    \A r \in Ranks : Present(p, r) <=> Wanted(p) /\ r < inferencePool.ports

(* The pool is created once and then on its way through its one reconcile;   *)
(* before the swap of store.pool the map is empty, and no pod event passes   *)
(* the filter before the selector is stored.                                 *)
NewPool == poolPc = "idle" /\ poolQueue /\ pools = NoLabel /\ pool = NoObj
Started ==
    /\ poolPc = "start" /\ ~ poolQueue /\ pools = NoLabel /\ pool = NoObj
    /\ latest = inferencePool
Selecting ==
    /\ poolPc = "swap" /\ ~ poolQueue /\ pool = NoObj
    /\ pools = inferencePool.selector /\ latest = inferencePool
Swapped ==
    /\ poolPc \in {"idle", "list", "sync", "prune"} \cup Adding /\ ~ poolQueue
    /\ pools = inferencePool.selector /\ pool = inferencePool

StageInv ==
    /\ inferencePool = NoObj =>
          pools = NoLabel /\ pool = NoObj /\ ~ poolQueue /\ poolPc = "idle"
    /\ inferencePool # NoObj => NewPool \/ Started \/ Selecting \/ Swapped
    /\ pools = NoLabel => podQueue = {}
    /\ pool = NoObj => podPc = "idle"
    /\ pool = NoObj \/ poolPc = "list" => \A p \in Pods, r \in Ranks : ~ Present(p, r)

(* The resync: a pod that changes while it runs is in the queue.             *)
SyncInv ==
    poolPc \in {"sync", "prune"} \cup Adding =>
        /\ \A p \in Pods, r \in Ranks :
              Present(p, r) => p \in active /\ r < inferencePool.ports
        /\ \A p \in Pods \ Excused : Wanted(p) <=> p \in active
        /\ syncTodo \subseteq active
        /\ poolPc \in Adding => arg["poolReconciler"] \in active
        /\ poolPc \in {"load", "store"} =>
              /\ ports["poolReconciler"] = inferencePool.ports
              /\ Filled(arg["poolReconciler"], rank["poolReconciler"])
        /\ poolPc = "store" => rank["poolReconciler"] < inferencePool.ports
        /\ poolPc = "prune" => syncTodo = {}
        /\ \A p \in active :
              \/ p \in syncTodo \/ Filled(p, inferencePool.ports)
              \/ poolPc \in Adding /\ p = arg["poolReconciler"]

(* The pod controller: what it decided when it took a pod from the queue is  *)
(* still right unless the pod is in the queue again.                         *)
CallInv ==
    pool # NoObj /\ poolPc = "idle" =>
        /\ \A p \in Pods, r \in Ranks : Present(p, r) => r < inferencePool.ports
        /\ \A p \in Pods \ Excused :
              podPc = "idle" \/ arg["podReconciler"] # p => Fits(p)
        /\ podPc \in {"load", "store"} =>
              /\ ports["podReconciler"] = inferencePool.ports
              /\ Filled(arg["podReconciler"], rank["podReconciler"])
        /\ podPc = "store" => rank["podReconciler"] < inferencePool.ports
        /\ arg["podReconciler"] \notin Excused =>
              /\ podPc \in Adding => Wanted(arg["podReconciler"])
              /\ podPc \in Deleting => ~ Wanted(arg["podReconciler"])
        /\ podPc \in Deleting => \A r \in Ranks :
              Present(arg["podReconciler"], r) =>
                  \/ r \in todo["podReconciler"]
                  \/ podPc = "delete" /\ r = rank["podReconciler"]

SettleInv == ~ overlapped => StageInv /\ SyncInv /\ CallInv

(* What the environment can do when it only creates pods and a pool,       *)
(* changes readiness and deletes pods: the pool is created once, and a pod *)
(* whose place in the store may change is put in the queue, provided the   *)
(* filter already has the pool's selector.                                 *)
LEMMA EnvironmentEdits ==
    ASSUME TypeOK, EditKinds \subseteq SettlingEdits, Environment
    PROVE  /\ podQueue \subseteq podQueue' /\ Excused \subseteq Excused'
           /\ pools = NoLabel => podQueue' = podQueue
           /\ inferencePool # NoObj =>
                 inferencePool' = inferencePool /\ poolQueue' = poolQueue
           /\ inferencePool = NoObj =>
                 \/ inferencePool' = NoObj /\ poolQueue' = poolQueue
                 \/ inferencePool' # NoObj /\ poolQueue'
           /\ inferencePool # NoObj /\ pools = inferencePool.selector =>
                 \A q \in Pods \ Excused' : Wanted(q)' <=> Wanted(q)
<1> USE DEF TypeOK, ClusterTypeOK
<1>1. UNCHANGED pools
  BY EnvironmentFrame DEF store
<1>2. ASSUME NEW p \in Pods, NEW obj \in PodObjects, PodEvent(p, obj)
      PROVE  /\ podQueue \subseteq podQueue'
             /\ pools = NoLabel => podQueue' = podQueue
             /\ Excused \subseteq Excused'
             /\ p \notin Excused' /\ pools # NoLabel => obj.label # pools
  BY <1>2 DEF PodEvent, EventFilter, PoolLabelsMatch, HasPool, Excused
<1>3. ASSUME inferencePool # NoObj, pools = inferencePool.selector
      PROVE  pools # NoLabel
  BY <1>3 DEF EndpointPools
<1>4. ASSUME NEW p \in Pods, CreatePod(p) \/ ChangePod(p) \/ DeletePod(p)
      PROVE  /\ podQueue \subseteq podQueue' /\ Excused \subseteq Excused'
             /\ pools = NoLabel => podQueue' = podQueue
             /\ inferencePool' = inferencePool /\ poolQueue' = poolQueue
             /\ inferencePool # NoObj /\ pools = inferencePool.selector =>
                   \A q \in Pods \ Excused' : Wanted(q)' <=> Wanted(q)
  <2>1. CASE CreatePod(p)
    <3>1. PICK obj \in PodObjects : /\ podObj' = [podObj EXCEPT ![p] = obj]
                                    /\ PodEvent(p, obj)
      BY <2>1 DEF CreatePod
    <3>2. podObj[p] = NoObj /\ UNCHANGED <<inferencePool, poolQueue>>
      BY <2>1 DEF CreatePod
    <3> QED
      BY <1>2, <1>3, <3>1, <3>2 DEF Wanted
  <2>2. CASE ChangePod(p)
    <3>1. PICK obj \in PodObjects :
              /\ obj.label # podObj[p].label => "relabel" \in EditKinds
              /\ podObj' = [podObj EXCEPT ![p] = obj]
              /\ PodEvent(p, obj)
      BY <2>2 DEF ChangePod
    <3>2. podObj[p] # NoObj /\ UNCHANGED <<inferencePool, poolQueue>>
      BY <2>2 DEF ChangePod
    <3>3. obj.label = podObj[p].label
      BY <3>1 DEF SettlingEdits
    <3> QED
      BY <1>2, <1>3, <3>1, <3>2, <3>3 DEF Wanted
  <2>3. CASE DeletePod(p)
    <3>1. /\ podObj[p] \in PodObjects /\ podObj[p] # NoObj
          /\ podObj' = [podObj EXCEPT ![p] = NoObj]
          /\ PodEvent(p, podObj[p])
          /\ UNCHANGED <<inferencePool, poolQueue>>
      BY <2>3 DEF DeletePod
    <3> QED
      BY <1>2, <1>3, <3>1 DEF Wanted
  <2> QED
    BY <1>4, <2>1, <2>2, <2>3
<1>5. CASE EditPool
  <2>1. PICK obj \in EndpointPools :
            /\ obj # inferencePool
            /\ inferencePool # NoObj =>
                  /\ obj.selector # inferencePool.selector
                        => "poolSelector" \in EditKinds
                  /\ obj.ports # inferencePool.ports => "poolPorts" \in EditKinds
            /\ inferencePool' = obj
    BY <1>5 DEF EditPool
  <2>2. UNCHANGED <<podQueue, strays>> /\ poolQueue' /\ Excused' = Excused
    BY <1>5 DEF EditPool, Excused
  <2>3. inferencePool = NoObj
    <3> SUFFICES ASSUME inferencePool # NoObj PROVE FALSE
      OBVIOUS
    <3>1. obj.selector = inferencePool.selector /\ obj.ports = inferencePool.ports
      BY <2>1 DEF SettlingEdits
    <3>2. inferencePool \in EndpointPools
      OBVIOUS
    <3> QED
      BY <2>1, <3>1, <3>2 DEF EndpointPools
  <2> QED
    BY <2>1, <2>2, <2>3
<1>6. ~ DeletePool
  BY DEF DeletePool, SettlingEdits
<1> QED
  BY <1>4, <1>5, <1>6 DEF Environment

(* Only the environment changes a pod, and it records what the event shows. *)
LEMMA StrayStep ==
    ASSUME TypeOK, StrayInv, [Next]_vars PROVE StrayInv'
<1>1. ASSUME NEW p \in Pods, NEW obj \in PodObjects, PodEvent(p, obj),
             podObj' = [podObj EXCEPT ![p] = obj]
      PROVE  StrayInv'
  BY <1>1 DEF StrayInv, PodEvent, TypeOK, ClusterTypeOK
<1>2. ASSUME NEW p \in Pods, CreatePod(p) \/ ChangePod(p) PROVE StrayInv'
  BY <1>1, <1>2 DEF CreatePod, ChangePod
<1>3. ASSUME NEW p \in Pods, DeletePod(p) PROVE StrayInv'
  BY <1>3 DEF DeletePod, PodEvent, StrayInv, TypeOK, ClusterTypeOK
<1>4. CASE EditPool \/ DeletePool
  BY <1>4 DEF EditPool, DeletePool, StrayInv
<1>5. CASE UNCHANGED <<podObj, strays>>
  BY <1>5 DEF StrayInv
<1>6. ASSUME NEW s \in Procs, DatastoreOp(s) PROVE UNCHANGED <<podObj, strays>>
  BY <1>6 DEF DatastoreOp, AddBegin, AddLoad, AddStore, AddEnd, DeleteVisit,
              DeleteEntry, DeleteRelease, DeleteEnd, cluster
<1>7. CASE PodController
  BY <1>5, <1>6, <1>7 DEF PodController, PodReconcile, AddPanic, cluster, Procs
<1>8. CASE PoolController
  BY <1>5, <1>6, <1>8
     DEF PoolController, PoolReconcile, PoolReconcileGone, StartStorePools,
         StartSwapPool, ListPods, ListPodsFails, SyncNext, SyncEnd, PruneVisit,
         PruneEnd, ClearVisit, ClearMap, OuterVisit, cluster, Procs
<1>9. CASE UNCHANGED vars
  BY <1>5, <1>9 DEF vars, cluster
<1> QED
  BY <1>2, <1>3, <1>4, <1>7, <1>8, <1>9 DEF Next, Environment

(* Where a pool is known to the store, the reconcile that brought it there *)
(* has stored its selector and its current ports.                          *)
LEMMA SwappedIn ==
    ASSUME StageInv,
           pool # NoObj \/ poolPc \in {"list", "sync", "prune"} \cup Adding
    PROVE  inferencePool # NoObj /\ Swapped
  BY DEF StageInv, NewPool, Started, Selecting, Swapped, Adding

(* The environment keeps SettleInv: a pod whose wish it changes is queued. *)
LEMMA SettleEnvironment ==
    ASSUME TypeOK, EditKinds \subseteq SettlingEdits, Environment,
           StageInv, SyncInv, CallInv
    PROVE  StageInv' /\ SyncInv' /\ CallInv'
<1>1. /\ UNCHANGED <<pools, pool, pods, pc, arg, ports, rank, todo, latest>>
      /\ UNCHANGED <<syncTodo, active>>
  BY EnvironmentFrame DEF store, frame, poolFrame
<1>2. podPc' = podPc /\ poolPc' = poolPc
  BY <1>1 DEF podPc, poolPc
<1>3. \A p, r : Present(p, r)' <=> Present(p, r)
  BY <1>1 DEF Present
<1>4. /\ podQueue \subseteq podQueue' /\ Excused \subseteq Excused'
      /\ pools = NoLabel => podQueue' = podQueue
  BY EnvironmentEdits
<1>5. inferencePool # NoObj =>
          inferencePool' = inferencePool /\ poolQueue' = poolQueue
  BY EnvironmentEdits
<1>6. inferencePool # NoObj /\ pools = inferencePool.selector =>
          \A q \in Pods \ Excused' : Wanted(q)' <=> Wanted(q)
  BY EnvironmentEdits
<1>7. StageInv'
  <2>1. CASE inferencePool # NoObj
    BY <1>1, <1>2, <1>3, <1>4, <1>5, <2>1
       DEF StageInv, NewPool, Started, Selecting, Swapped
  <2>2. CASE inferencePool = NoObj
    <3>1. pools = NoLabel /\ pool = NoObj /\ ~ poolQueue /\ poolPc = "idle"
      BY <2>2 DEF StageInv
    <3>2. \/ inferencePool' = NoObj /\ poolQueue' = poolQueue
          \/ inferencePool' # NoObj /\ poolQueue'
      BY <2>2, EnvironmentEdits
    <3> QED
      BY <1>1, <1>2, <1>3, <1>4, <3>1, <3>2 DEF StageInv, NewPool
  <2> QED
    BY <2>1, <2>2
<1>8. ASSUME pool # NoObj \/ poolPc \in {"list", "sync", "prune"} \cup Adding
      PROVE  /\ inferencePool' = inferencePool
             /\ \A q \in Pods \ Excused' : Wanted(q)' <=> Wanted(q)
  BY <1>5, <1>6, <1>8, SwappedIn DEF Swapped
<1>9. SyncInv'
  <2> SUFFICES ASSUME poolPc \in {"sync", "prune"} \cup Adding
               PROVE  SyncInv'
    BY <1>2 DEF SyncInv
  <2> QED
    BY <1>1, <1>2, <1>3, <1>4, <1>8 DEF SyncInv, Filled
<1>10. CallInv'
  <2> SUFFICES ASSUME pool # NoObj, poolPc = "idle"
               PROVE  CallInv'
    BY <1>1, <1>2 DEF CallInv
  <2>1. \A p \in Pods \ Excused' : Fits(p)' <=> Fits(p)
    BY <1>3, <1>8 DEF Fits
  <2>2. podPc \notin {"idle"} => arg["podReconciler"] \in Pods
    BY DEF TypeOK, FrameTypeOK, Procs, podPc
  <2>3. \A p \in Pods, r \in Ranks : Present(p, r)' => r < inferencePool'.ports
    BY <1>3, <1>8 DEF CallInv
  <2>4. \A p \in Pods \ Excused' :
              podPc' = "idle" \/ arg'["podReconciler"] # p => Fits(p)'
    BY <1>1, <1>2, <1>4, <2>1 DEF CallInv
  <2>5. podPc' \in {"load", "store"} =>
              /\ ports'["podReconciler"] = inferencePool'.ports
              /\ Filled(arg["podReconciler"], rank["podReconciler"])'
    BY <1>1, <1>2, <1>3, <1>8 DEF CallInv, Filled
  <2>6. podPc' = "store" => rank'["podReconciler"] < inferencePool'.ports
    BY <1>1, <1>2, <1>8 DEF CallInv
  <2>7. arg'["podReconciler"] \notin Excused' =>
              /\ podPc' \in Adding => Wanted(arg["podReconciler"])'
              /\ podPc' \in Deleting => ~ Wanted(arg["podReconciler"])'
    <3>1. PICK q : q = arg["podReconciler"]
      OBVIOUS
    <3>2. Wanted(arg["podReconciler"])' <=> Wanted(q)'
      BY <1>1, <3>1 DEF Wanted
    <3> QED
      BY <1>1, <1>2, <1>4, <1>8, <2>2, <3>1, <3>2 DEF CallInv, Adding, Deleting
  <2>8. podPc' \in Deleting => \A r \in Ranks :
              Present(arg["podReconciler"], r)' =>
                  \/ r \in todo'["podReconciler"]
                  \/ podPc' = "delete" /\ r = rank'["podReconciler"]
    BY <1>1, <1>2, <1>3 DEF CallInv, Present
  <2> QED
    BY <2>3, <2>4, <2>5, <2>6, <2>7, <2>8 DEF CallInv
<1> QED
  BY <1>7, <1>9, <1>10

(* After the swap StageInv only depends on the steps of the resync.        *)
LEMMA SwappedStage ==
    ASSUME TypeOK, inferencePool # NoObj, Swapped,
           UNCHANGED <<inferencePool, poolQueue, pools, pool>>,
           poolPc' \in {"idle", "sync", "prune"} \cup Adding
    PROVE  StageInv'
<1>1. pools # NoLabel /\ pool # NoObj
  BY DEF Swapped, TypeOK, ClusterTypeOK, EndpointPools
<1>2. Swapped'
  BY DEF Swapped
<1>3. "list" \notin {"idle", "sync", "prune"} \cup Adding
  BY DEF Adding
<1> QED
  BY <1>1, <1>2, <1>3 DEF StageInv

(* The first part of the pool's reconcile, up to the list of its pods.     *)
LEMMA SettleStart ==
    ASSUME TypeOK, EditKinds \subseteq SettlingEdits, ~ overlapped',
           StageInv, SyncInv, CallInv,
           \/ PoolReconcile \/ PoolReconcileGone
           \/ StartStorePools \/ StartSwapPool
    PROVE  StageInv' /\ SyncInv' /\ CallInv'
<1> USE DEF TypeOK, FrameTypeOK, Procs
<1>1. CASE PoolReconcile
  <2>1. NewPool /\ inferencePool # NoObj
    BY <1>1 DEF PoolReconcile, StageInv, Started, Selecting, Swapped, poolPc
  <2>2. /\ latest' = inferencePool /\ ~ poolQueue' /\ poolPc' = "start"
        /\ podPc' = podPc
        /\ UNCHANGED <<inferencePool, podQueue, pools, pool, pods>>
    BY <1>1 DEF PoolReconcile, PoolGoto, Goto, poolPc, podPc, cluster, store
  <2>3. \A p, r : Present(p, r)' <=> Present(p, r)
    BY <2>2 DEF Present
  <2>4. StageInv'
    BY <2>1, <2>2, <2>3 DEF StageInv, Started, NewPool
  <2>5. SyncInv' /\ CallInv'
    BY <2>2 DEF SyncInv, CallInv, Adding
  <2> QED
    BY <2>4, <2>5
<1>2. ~ PoolReconcileGone
  BY DEF PoolReconcileGone, StageInv
<1>3. CASE StartStorePools
  <2>1. Started /\ inferencePool # NoObj
    BY <1>3 DEF StartStorePools, StageInv, NewPool, Selecting, Swapped, poolPc,
                Adding
  <2>2. /\ pools' = inferencePool.selector /\ poolPc' = "swap" /\ podPc' = podPc
        /\ UNCHANGED <<inferencePool, podQueue, poolQueue, pool, pods, latest>>
    BY <1>3, <2>1 DEF StartStorePools, Started, HasPool, PoolGoto, Goto, poolPc,
                      podPc, cluster, queues, poolFrame
  <2>3. \A p, r : Present(p, r)' <=> Present(p, r)
    BY <2>2 DEF Present
  <2>4. pools' # NoLabel
    BY <2>1, <2>2 DEF ClusterTypeOK, EndpointPools
  <2>5. StageInv'
    BY <2>1, <2>2, <2>3, <2>4 DEF StageInv, Started, Selecting
  <2>6. SyncInv' /\ CallInv'
    BY <2>2 DEF SyncInv, CallInv, Adding
  <2> QED
    BY <2>5, <2>6
<1>4. CASE StartSwapPool
  <2>1. Selecting /\ inferencePool # NoObj
    BY <1>4 DEF StartSwapPool, StageInv, NewPool, Started, Swapped, poolPc,
                Adding
  <2>2. /\ pool' = inferencePool /\ poolPc' = "list" /\ podPc' = podPc
        /\ UNCHANGED <<inferencePool, podQueue, poolQueue, pools, pods>>
    BY <1>4, <2>1 DEF StartSwapPool, Selecting, PoolGoto, Goto, poolPc,
                      podPc, cluster, queues
  <2>3. \A p, r : Present(p, r)' <=> Present(p, r)
    BY <2>2 DEF Present
  <2>4. StageInv'
    BY <2>1, <2>2, <2>3 DEF StageInv, Selecting, Swapped
  <2>5. SyncInv' /\ CallInv'
    BY <2>2 DEF SyncInv, CallInv, Adding
  <2> QED
    BY <2>4, <2>5
<1> QED
  BY <1>1, <1>2, <1>3, <1>4

(* The resync: what it lists is what the cluster asks for, it adds exactly *)
(* that, and it finds nothing to prune.                                    *)
LEMMA SettleResync ==
    ASSUME TypeOK, EditKinds \subseteq SettlingEdits, OneBusy,
           StageInv, SyncInv, CallInv,
           \/ ListPods \/ ListPodsFails \/ SyncNext \/ SyncEnd
           \/ PruneVisit \/ PruneEnd
    PROVE  StageInv' /\ SyncInv' /\ CallInv'
<1> USE DEF TypeOK, FrameTypeOK, Procs
<1>1. ~ ListPodsFails
  BY DEF ListPodsFails, SettlingEdits
<1>2. poolPc \in {"list", "sync", "prune"}
  BY <1>1 DEF ListPods, SyncNext, SyncEnd, PruneVisit, OuterVisit, PruneEnd,
              poolPc
<1>3. inferencePool # NoObj /\ Swapped
  BY <1>2, SwappedIn
<1>4. podPc = "idle"
  BY <1>2 DEF OneBusy, Busy, podPc, poolPc
<1>5. /\ UNCHANGED <<inferencePool, podObj, podQueue, strays, poolQueue>>
      /\ UNCHANGED <<pools, pool, pods>>
  BY <1>1 DEF ListPods, SyncNext, SyncEnd, PruneVisit, OuterVisit, PruneEnd,
              cluster, queues, store
<1>6. (\A p, r : Present(p, r)' <=> Present(p, r))
      /\ (\A p : Wanted(p)' <=> Wanted(p))
  BY <1>5 DEF Present, Wanted
<1>7. CASE ListPods
  <2>1. poolPc = "list" /\ poolPc' = "sync"
    BY <1>7 DEF ListPods, PoolGoto, Goto, poolPc
  <2>2. /\ active' = {p \in Pods : Wanted(p)} /\ syncTodo' = active'
        /\ UNCHANGED <<arg, ports, rank>>
    BY <1>3, <1>7 DEF ListPods, Wanted, Swapped
  <2>3. \A p \in Pods, r \in Ranks : ~ Present(p, r)
    BY <2>1 DEF StageInv
  <2>4. StageInv'
    BY <1>3, <1>5, <2>1, SwappedStage
  <2>5. SyncInv'
    BY <1>6, <2>1, <2>2, <2>3 DEF SyncInv, Adding
  <2> QED
    BY <2>1, <2>4, <2>5 DEF CallInv
<1>8. CASE SyncNext
  <2>1. PICK p \in syncTodo : /\ syncTodo' = syncTodo \ {p}
                              /\ arg' = [arg EXCEPT !["poolReconciler"] = p]
    BY <1>8 DEF SyncNext
  <2>2. poolPc = "sync" /\ poolPc' = "add" /\ UNCHANGED active
    BY <1>8 DEF SyncNext, PoolGoto, Goto, poolPc
  <2>3. StageInv'
    BY <1>3, <1>5, <2>2, SwappedStage DEF Adding
  <2>4. arg'["poolReconciler"] = p
    BY <2>1
  <2>5. SyncInv'
    BY <1>5, <1>6, <2>1, <2>2, <2>4 DEF SyncInv, Filled, Adding, Excused
  <2> QED
    BY <2>2, <2>3, <2>5 DEF CallInv
<1>9. CASE SyncEnd
  <2>1. poolPc = "sync" /\ poolPc' = "prune" /\ syncTodo = {}
    BY <1>9 DEF SyncEnd, PoolGoto, Goto, poolPc
  <2>2. UNCHANGED <<syncTodo, active, arg, ports, rank>>
    BY <1>9 DEF SyncEnd
  <2>3. StageInv'
    BY <1>3, <1>5, <2>1, SwappedStage
  <2>4. SyncInv'
    BY <1>5, <1>6, <2>1, <2>2 DEF SyncInv, Filled, Adding, Excused
  <2> QED
    BY <2>1, <2>3, <2>4 DEF CallInv
<1>10. CASE PruneVisit
  <2>1. PICK k \in outer : OuterVisit("prune", k, k[1] \notin active)
    BY <1>10 DEF PruneVisit
  <2>2. poolPc = "prune"
    BY <2>1 DEF OuterVisit, poolPc
  <2>3. k \in Keys /\ k = <<k[1], k[2]>> /\ k[1] \in Pods /\ k[2] \in Ranks
    BY DEF PoolFrameTypeOK, Keys
  <2>4. ~ (pods[k] # NoInst /\ k[1] \notin active)
    BY <2>2, <2>3 DEF SyncInv, Present
  <2>5. UNCHANGED <<pc, arg, ports, rank, syncTodo, active>>
    BY <2>1, <2>4 DEF OuterVisit
  <2>6. poolPc' = poolPc
    BY <2>5 DEF poolPc
  <2>7. StageInv'
    BY <1>3, <1>5, <2>2, <2>6, SwappedStage
  <2>8. SyncInv'
    BY <1>5, <1>6, <2>2, <2>5, <2>6 DEF SyncInv, Filled, Excused
  <2> QED
    BY <2>2, <2>6, <2>7, <2>8 DEF CallInv
<1>11. CASE PruneEnd
  <2>1. /\ poolPc = "prune" /\ poolPc' = "idle" /\ podPc' = podPc
        /\ UNCHANGED <<syncTodo, active, arg>>
    BY <1>11 DEF PruneEnd, PoolGoto, Goto, poolPc, podPc, poolFrame
  <2>2. StageInv'
    BY <1>3, <1>5, <2>1, SwappedStage
  <2>3. \A p \in Pods, r \in Ranks : Present(p, r) => r < inferencePool.ports
    BY <2>1 DEF SyncInv
  <2>4. \A p \in Pods \ Excused : Fits(p)
    BY <2>1 DEF SyncInv, Fits, Filled, Adding
  <2>5. \A p \in Pods : Fits(p)' <=> Fits(p)
    BY <1>5, <1>6 DEF Fits
  <2>6. CallInv'
    BY <1>4, <1>5, <1>6, <2>1, <2>3, <2>4, <2>5
       DEF CallInv, Adding, Deleting, Excused
  <2> QED
    BY <2>1, <2>2, <2>6 DEF SyncInv, Adding
<1> QED
  BY <1>1, <1>7, <1>8, <1>9, <1>10, <1>11

(* One step of PodUpdateOrAddIfNotExist: it only adds the entry it is at,  *)
(* and it moves on past a rank once the rank has its entry.                *)
LEMMA AddStep ==
    ASSUME TypeOK, NEW self \in Procs,
           AddBegin(self) \/ AddLoad(self) \/ AddStore(self) \/ AddEnd(self)
    PROVE  /\ UNCHANGED <<podObj, inferencePool, podQueue, strays>>
           /\ UNCHANGED <<poolQueue, pools, pool>>
           /\ UNCHANGED <<arg, todo, syncTodo, active>>
           /\ \A s \in Procs \ {self} :
                 pc'[s] = pc[s] /\ ports'[s] = ports[s] /\ rank'[s] = rank[s]
           /\ \A p \in Pods, r \in Ranks :
                 Present(p, r)' <=>
                    \/ Present(p, r)
                    \/ pc[self] = "store" /\ p = arg[self] /\ r = rank[self]
           /\ \/ /\ pc[self] = "add" /\ pc'[self] = "load" /\ pool # NoObj
                 /\ ports'[self] = pool.ports /\ rank'[self] = 0
              \/ /\ pc[self] = "load" /\ rank[self] < ports[self]
                 /\ \/ pc'[self] = "store" /\ rank'[self] = rank[self]
                    \/ /\ pc'[self] = "load" /\ rank'[self] = rank[self] + 1
                       /\ Present(arg[self], rank[self])
                 /\ ports'[self] = ports[self]
              \/ /\ pc[self] = "store" /\ pc'[self] = "load"
                 /\ ports'[self] = ports[self] /\ rank'[self] = rank[self] + 1
              \/ /\ pc[self] = "load" /\ rank[self] >= ports[self]
                 /\ pc'[self] = AddReturn(self)
                 /\ ports'[self] = ports[self] /\ rank'[self] = rank[self]
<1> USE DEF TypeOK, FrameTypeOK, StoreTypeOK, cluster, queues, store, poolFrame
<1>1. CASE AddBegin(self)
  BY <1>1 DEF AddBegin, Goto, Present
<1>2. CASE AddLoad(self)
  BY <1>2 DEF AddLoad, Goto, Present
<1>3. CASE AddStore(self)
  <2> DEFINE k == <<arg[self], rank[self]>>
  <2>1. PICK i \in Instances : pods' = [pods EXCEPT ![k] = i]
    BY <1>3 DEF AddStore
  <2>2. /\ pc[self] = "store" /\ pc' = [pc EXCEPT ![self] = "load"]
        /\ rank' = [rank EXCEPT ![self] = @ + 1]
        /\ UNCHANGED <<podObj, inferencePool, podQueue, strays>>
        /\ UNCHANGED <<poolQueue, pools, pool>>
        /\ UNCHANGED <<arg, todo, ports, syncTodo, active>>
    BY <1>3 DEF AddStore, Goto
  <2>3. i # NoInst /\ k \in Keys
    BY <2>2 DEF Labelled, Keys
  <2>4. \A p \in Pods, r \in Ranks :
            Present(p, r)' <=> Present(p, r) \/ (p = arg[self] /\ r = rank[self])
    BY <2>1, <2>3 DEF Present, Keys
  <2> QED
    BY <2>2, <2>4
<1>4. CASE AddEnd(self)
  BY <1>4 DEF AddEnd, Goto, Present
<1> QED
  BY <1>1, <1>2, <1>3, <1>4

(* After the swap the pool's reconcile never deletes.                      *)
LEMMA NoPrunedPods ==
    ASSUME StageInv
    PROVE  poolPc \notin Deleting \cup {"clear"}
  BY DEF StageInv, NewPool, Started, Selecting, Swapped, Adding, Deleting

(* The adds of the resync keep SettleInv.                                  *)
LEMMA SettlePoolAdd ==
    ASSUME TypeOK, OneBusy, StageInv, SyncInv, CallInv,
           DatastoreOp("poolReconciler")
    PROVE  StageInv' /\ SyncInv' /\ CallInv'
<1> DEFINE self == "poolReconciler"
<1>1. self \in Procs
  BY DEF Procs
<1>2. AddBegin(self) \/ AddLoad(self) \/ AddStore(self) \/ AddEnd(self)
  BY NoPrunedPods DEF DatastoreOp, DeleteVisit, DeleteEntry, DeleteRelease,
                      DeleteEnd, Deleting, poolPc
<1>3. poolPc \in Adding /\ poolPc' \in Adding \cup {"sync"}
  BY <1>1, <1>2, AddStep DEF Adding, poolPc, AddReturn
<1>4. inferencePool # NoObj /\ Swapped
  BY <1>3, SwappedIn
<1>5. /\ UNCHANGED <<podObj, inferencePool, podQueue, strays>>
      /\ UNCHANGED <<poolQueue, pools, pool>>
      /\ UNCHANGED <<arg, syncTodo, active>>
  BY <1>1, <1>2, AddStep
<1>6. StageInv'
  BY <1>3, <1>4, <1>5, SwappedStage
<1>7. CallInv'
  BY <1>3 DEF CallInv, Adding
<1>8. PICK a, n, m : /\ a = arg[self] /\ n = inferencePool.ports
                     /\ m = rank'[self]
  OBVIOUS
<1>9. \A p \in Pods, r \in Ranks : Present(p, r)' <=>
          \/ Present(p, r)
          \/ poolPc = "store" /\ p = a /\ r = rank[self]
  BY <1>1, <1>2, <1>8, AddStep DEF poolPc
<1>10. \/ /\ poolPc = "add" /\ poolPc' = "load"
          /\ ports'[self] = n /\ m = 0
       \/ /\ poolPc = "load" /\ rank[self] < ports[self]
          /\ \/ poolPc' = "store" /\ m = rank[self]
             \/ /\ poolPc' = "load" /\ m = rank[self] + 1
                /\ Present(a, rank[self])
          /\ ports'[self] = ports[self]
       \/ /\ poolPc = "store" /\ poolPc' = "load"
          /\ ports'[self] = ports[self] /\ m = rank[self] + 1
       \/ /\ poolPc = "load" /\ rank[self] >= ports[self]
          /\ poolPc' = "sync"
  BY <1>1, <1>2, <1>4, <1>8, AddStep DEF poolPc, AddReturn, Swapped
<1>11. /\ a \in active /\ active \subseteq Pods
       /\ rank[self] \in Nat /\ ports[self] \in Nat /\ n \in Nat
  BY <1>3, <1>4, <1>8 DEF SyncInv, TypeOK, PoolFrameTypeOK, FrameTypeOK, Procs,
                          ClusterTypeOK, EndpointPools
<1>12. \A p \in Pods : Wanted(p)' <=> Wanted(p)
  BY <1>5 DEF Wanted
<1>13. poolPc \in {"load", "store"} =>
           ports[self] = n /\ Filled(a, rank[self])
  BY <1>3, <1>8 DEF SyncInv
<1>14. poolPc = "store" => rank[self] < n
  BY <1>3, <1>8 DEF SyncInv
<1>15. poolPc' \in {"load", "store"} => ports'[self] = n
  BY <1>10, <1>13
<1>16. poolPc' = "store" => m < n
  BY <1>10, <1>13
<1>17. ASSUME poolPc' \in {"load", "store"},
              NEW r \in Ranks, r < m
       PROVE  Present(a, r)'
  <2>1. r < rank[self] => Present(a, r) \/ poolPc = "add"
    BY <1>10, <1>13, <1>17 DEF Filled
  <2>2. r \in Nat
    BY DEF Ranks
  <2>3. r < rank[self] \/ r = rank[self] \/ poolPc = "add"
    BY <1>10, <1>11, <1>17, <2>2
  <2>4. poolPc # "add"
    BY <1>10, <1>17, <2>2
  <2>5. CASE r < rank[self]
    BY <1>9, <1>11, <2>1, <2>4, <2>5
  <2>6. CASE r = rank[self]
    <3>1. m = rank[self] + 1
      BY <1>10, <1>11, <1>17, <2>4, <2>6
    <3> QED
      BY <1>9, <1>10, <1>11, <1>17, <2>4, <2>6, <3>1
  <2> QED
    BY <2>3, <2>4, <2>5, <2>6
<1>18. \A p \in Pods, r \in Ranks : Present(p, r)' => p \in active /\ r < n
  <2>1. \A p \in Pods, r \in Ranks : Present(p, r) => p \in active /\ r < n
    BY <1>3, <1>8 DEF SyncInv
  <2> QED
    BY <1>9, <1>11, <1>14, <2>1
<1>19. ASSUME NEW p \in active, p \notin syncTodo,
              poolPc' \notin Adding \/ p # a, NEW r \in Ranks, r < n
       PROVE  Present(p, r)'
  <2>1. CASE p # a
    <3>1. Filled(p, n)
      BY <1>3, <1>8, <1>19, <2>1 DEF SyncInv
    <3> QED
      BY <1>9, <1>11, <1>19, <3>1 DEF Filled
  <2>2. CASE p = a
    <3>1. poolPc = "load" /\ rank[self] >= n
      BY <1>10, <1>13, <1>19, <2>2 DEF Adding
    <3>2. r < rank[self]
      BY <1>11, <1>19, <3>1 DEF Ranks
    <3> QED
      BY <1>9, <1>11, <1>13, <2>2, <3>1, <3>2 DEF Filled
  <2> QED
    BY <2>1, <2>2
<1>20. SyncInv'
  <2>1. /\ arg'[self] = a /\ inferencePool'.ports = n /\ rank'[self] = m
        /\ podQueue' = podQueue /\ syncTodo' = syncTodo /\ active' = active
    BY <1>5, <1>8
  <2>2. poolPc' # "prune"
    BY <1>3 DEF Adding
  <2>3. poolPc' \in {"load", "store"} =>
            Filled(arg["poolReconciler"], rank["poolReconciler"])'
    BY <1>17, <2>1 DEF Filled
  <2>4. \A p \in active' :
            \/ p \in syncTodo' \/ Filled(p, inferencePool.ports)'
            \/ poolPc' \in Adding /\ p = arg'["poolReconciler"]
    BY <1>19, <2>1 DEF Filled
  <2>5. \A p \in Pods \ Excused' : Wanted(p)' <=> p \in active'
    BY <1>3, <1>5, <1>12, <2>1 DEF SyncInv, Excused
  <2>6. syncTodo' \subseteq active'
    BY <1>3, <2>1 DEF SyncInv
  <2> QED
    BY <1>11, <1>15, <1>16, <1>18, <2>1, <2>2, <2>3, <2>4, <2>5, <2>6
       DEF SyncInv
<1> QED
  BY <1>6, <1>7, <1>20

(* The pod controller takes a pod from the queue and decides from the      *)
(* object and the selector in pools, which is the pool's by then.          *)
LEMMA SettlePodReconcile ==
    ASSUME TypeOK, StrayInv, ~ overlapped', StageInv, SyncInv, CallInv,
           PodReconcile
    PROVE  StageInv' /\ SyncInv' /\ CallInv'
<1> USE DEF TypeOK, FrameTypeOK, Procs
<1>1. PICK p \in podQueue : PodReconcile!2!(p)
  BY DEF PodReconcile
<1>2. p \in Pods /\ podQueue' = podQueue \ {p} /\ arg'["podReconciler"] = p
  BY <1>1 DEF ClusterTypeOK
<1>3. podPc = "idle" /\ podPc' \in {"range", "add"}
  BY <1>1 DEF PodReconcile, Goto, podPc
<1>4. poolPc = "idle" /\ poolPc' = "idle"
  BY <1>1 DEF Goto, Busy, poolPc
<1>5. UNCHANGED <<podObj, inferencePool, strays, poolQueue, pools, pool, pods>>
  BY DEF PodReconcile, cluster, store
<1>6. inferencePool # NoObj /\ Swapped
  BY <1>2, <1>4 DEF StageInv, NewPool, Started, Selecting
<1>7. pool # NoObj /\ HasPool("pool")
  BY <1>6 DEF Swapped, HasPool, ClusterTypeOK, EndpointPools
<1>8. StageInv'
  BY <1>4, <1>5, <1>6, SwappedStage
<1>9. SyncInv'
  BY <1>4 DEF SyncInv, Adding
<1>10. (\A q, r : Present(q, r)' <=> Present(q, r))
       /\ (\A q : Wanted(q)' <=> Wanted(q))
  BY <1>5 DEF Present, Wanted
<1>11. p \notin strays =>
           (Wanted(p) <=> ~ (\/ podObj[p] = NoObj \/ ~ IsPodReady(podObj[p])
                             \/ ~ PoolLabelsMatch(podObj[p])))
  <2>1. p \notin strays /\ podObj[p] # NoObj => podObj[p].poolName = "pool"
    BY <1>2 DEF StrayInv
  <2> QED
    BY <1>6, <1>7, <2>1 DEF Wanted, PoolLabelsMatch, HasPool, Swapped
<1>12. /\ podPc' = "add" => Wanted(p) \/ p \in strays
       /\ podPc' = "range" => /\ ~ Wanted(p) \/ p \in strays
                              /\ todo'["podReconciler"] = Ranks
  <2>1. \/ /\ Wanted(p) \/ p \in strays
           /\ Goto("podReconciler", "add")
        \/ /\ ~ Wanted(p) \/ p \in strays
           /\ Goto("podReconciler", "range")
           /\ todo' = [todo EXCEPT !["podReconciler"] = Ranks]
    BY <1>1, <1>11
  <2> QED
    BY <2>1 DEF Goto, podPc
<1>13. \A q \in Pods : Fits(q)' <=> Fits(q)
  BY <1>5, <1>10 DEF Fits
<1>14. CallInv'
  <2>1. CallInv!2!1 /\ CallInv!2!2
    BY <1>4, <1>7 DEF CallInv
  <2>2. \A q \in Pods, r \in Ranks : Present(q, r)' => r < inferencePool'.ports
    BY <1>5, <1>10, <2>1
  <2>3. \A q \in Pods \ Excused' :
            podPc' = "idle" \/ arg'["podReconciler"] # q => Fits(q)'
    BY <1>2, <1>3, <1>5, <1>13, <2>1 DEF Excused
  <2>4. Wanted(arg["podReconciler"])' <=> Wanted(p)
    BY <1>2, <1>5 DEF Wanted
  <2> QED
    BY <1>2, <1>3, <1>5, <1>12, <2>2, <2>3, <2>4
       DEF CallInv, Adding, Deleting, Excused
<1> QED
  BY <1>8, <1>9, <1>14

(* A step of a datastore operation of the pod controller finds the pool in *)
(* the store and the pool controller at rest.                              *)
LEMMA PodOpAfterSwap ==
    ASSUME TypeOK, OneBusy, StageInv, podPc # "idle"
    PROVE  /\ inferencePool # NoObj /\ pool = inferencePool /\ pool # NoObj
           /\ Swapped /\ poolPc = "idle"
<1>1. pool # NoObj
  BY DEF StageInv
<1>2. inferencePool # NoObj /\ Swapped
  BY <1>1, SwappedIn
<1>3. poolPc = "idle"
  BY DEF OneBusy, Busy, Procs, podPc, poolPc
<1> QED
  BY <1>1, <1>2, <1>3 DEF Swapped

(* The add of the pod controller fills the ranks of its pod in order.      *)
LEMMA SettlePodAdd ==
    ASSUME TypeOK, OneBusy, StageInv, SyncInv, CallInv,
           \/ AddBegin("podReconciler") \/ AddLoad("podReconciler")
           \/ AddStore("podReconciler") \/ AddEnd("podReconciler")
    PROVE  StageInv' /\ SyncInv' /\ CallInv'
<1> DEFINE self == "podReconciler"
<1>1. self \in Procs /\ "poolReconciler" \in Procs \ {self}
  BY DEF Procs
<1>2. podPc \in Adding /\ podPc' \in Adding \cup {"idle"} /\ poolPc' = poolPc
  BY <1>1, AddStep DEF Adding, podPc, poolPc, AddReturn
<1>3. /\ inferencePool # NoObj /\ pool = inferencePool /\ pool # NoObj
      /\ Swapped /\ poolPc = "idle"
  BY <1>2, PodOpAfterSwap DEF Adding
<1>4. /\ UNCHANGED <<podObj, inferencePool, podQueue, strays>>
      /\ UNCHANGED <<poolQueue, pools, pool>>
      /\ UNCHANGED <<arg, todo>>
  BY <1>1, AddStep
<1>5. StageInv'
  BY <1>2, <1>3, <1>4, SwappedStage
<1>6. SyncInv'
  BY <1>2, <1>3 DEF SyncInv, Adding
<1>7. PICK a, n, m : /\ a = arg[self] /\ n = inferencePool.ports
                     /\ m = rank'[self]
  OBVIOUS
<1>8. \A p \in Pods, r \in Ranks : Present(p, r)' <=>
          \/ Present(p, r)
          \/ podPc = "store" /\ p = a /\ r = rank[self]
  BY <1>1, <1>7, AddStep DEF podPc
<1>9. \/ /\ podPc = "add" /\ podPc' = "load"
         /\ ports'[self] = n /\ m = 0
      \/ /\ podPc = "load" /\ rank[self] < ports[self]
         /\ \/ podPc' = "store" /\ m = rank[self]
            \/ /\ podPc' = "load" /\ m = rank[self] + 1
               /\ Present(a, rank[self])
         /\ ports'[self] = ports[self]
      \/ /\ podPc = "store" /\ podPc' = "load"
         /\ ports'[self] = ports[self] /\ m = rank[self] + 1
      \/ /\ podPc = "load" /\ rank[self] >= ports[self]
         /\ podPc' = "idle"
  BY <1>1, <1>3, <1>7, AddStep DEF podPc, AddReturn
<1>10. /\ a \in Pods
       /\ rank[self] \in Nat /\ ports[self] \in Nat /\ n \in Nat
  BY <1>2, <1>3, <1>7 DEF TypeOK, FrameTypeOK, Procs, Adding, Labelled, podPc,
                          ClusterTypeOK, EndpointPools
<1>11. \A p : Wanted(p)' <=> Wanted(p)
  BY <1>4 DEF Wanted
<1>12. podPc \in {"load", "store"} =>
           ports[self] = n /\ Filled(a, rank[self])
  BY <1>3, <1>7 DEF CallInv
<1>13. podPc = "store" => rank[self] < n
  BY <1>3, <1>7 DEF CallInv
<1>14. a \notin Excused => Wanted(a)
  BY <1>2, <1>3, <1>7 DEF CallInv
<1>15. podPc' \in {"load", "store"} => ports'[self] = n
  BY <1>9, <1>12
<1>16. podPc' = "store" => m < n
  BY <1>9, <1>12
<1>17. ASSUME podPc' \in {"load", "store"}, NEW r \in Ranks, r < m
       PROVE  Present(a, r)'
  <2>1. r < rank[self] => Present(a, r) \/ podPc = "add"
    BY <1>9, <1>12, <1>17 DEF Filled
  <2>2. r \in Nat
    BY DEF Ranks
  <2>3. r < rank[self] \/ r = rank[self] \/ podPc = "add"
    BY <1>9, <1>10, <1>17, <2>2
  <2>4. podPc # "add"
    BY <1>9, <1>17, <2>2
  <2>5. CASE r < rank[self]
    BY <1>8, <1>10, <2>1, <2>4, <2>5
  <2>6. CASE r = rank[self]
    <3>1. m = rank[self] + 1
      BY <1>9, <1>10, <1>17, <2>4, <2>6
    <3> QED
      BY <1>8, <1>9, <1>10, <1>17, <2>4, <2>6, <3>1
  <2> QED
    BY <2>3, <2>4, <2>5, <2>6
<1>18. \A p \in Pods, r \in Ranks : Present(p, r)' => r < n
  <2>1. \A p \in Pods, r \in Ranks : Present(p, r) => r < n
    BY <1>3, <1>7 DEF CallInv
  <2> QED
    BY <1>8, <1>13, <2>1
<1>19. ASSUME NEW p \in Pods \ Excused, podPc' = "idle" \/ p # a
       PROVE  Fits(p)'
  <2>1. CASE p # a
    <3>1. Fits(p)
      BY <1>3, <1>7, <2>1 DEF CallInv
    <3> QED
      BY <1>4, <1>8, <1>11, <2>1, <3>1 DEF Fits
  <2>2. CASE p = a
    <3>1. podPc = "load" /\ rank[self] >= n
      BY <1>9, <1>12, <1>19, <2>2
    <3>2. \A r \in Ranks : r < n => Present(a, r)
      BY <1>10, <1>12, <3>1 DEF Filled, Ranks
    <3>3. Wanted(a)'
      BY <1>11, <1>14, <2>2
    <3>4. \A r \in Ranks : Present(a, r)' <=> r < n
      BY <1>8, <1>10, <1>18, <3>2
    <3> QED
      BY <1>4, <1>7, <2>2, <3>3, <3>4 DEF Fits
  <2> QED
    BY <2>1, <2>2
<1>20. CallInv'
  <2>1. /\ arg'[self] = a /\ inferencePool'.ports = n /\ rank'[self] = m
        /\ podQueue' = podQueue
    BY <1>4, <1>7
  <2>2. podPc' \notin Deleting
    BY <1>2 DEF Adding, Deleting
  <2>3. podPc' \in {"load", "store"} =>
            Filled(arg["podReconciler"], rank["podReconciler"])'
    BY <1>17, <2>1 DEF Filled
  <2>4. Wanted(arg["podReconciler"])' <=> Wanted(a)
    BY <1>4, <2>1 DEF Wanted
  <2> QED
    BY <1>4, <1>14, <1>15, <1>16, <1>18, <1>19, <2>1, <2>2, <2>3, <2>4
       DEF CallInv, Excused
<1> QED
  BY <1>5, <1>6, <1>20

(* PodDelete of the pod controller: an entry of its pod is still to be     *)
(* visited or is the one about to be deleted, until none is left.          *)
LEMMA SettlePodDelete ==
    ASSUME TypeOK, OneBusy, StageInv, SyncInv, CallInv,
           \/ DeleteVisit("podReconciler") \/ DeleteEntry("podReconciler")
           \/ DeleteRelease("podReconciler") \/ DeleteEnd("podReconciler")
    PROVE  StageInv' /\ SyncInv' /\ CallInv'
<1> DEFINE self == "podReconciler"
<1> USE DEF TypeOK, StoreTypeOK, FrameTypeOK, Procs
<1>1. /\ podPc \in Deleting /\ podPc' \in Deleting \cup {"idle"}
      /\ poolPc' = poolPc
  BY DEF DeleteVisit, DeleteEntry, DeleteRelease, DeleteEnd, Goto, Deleting,
         podPc, poolPc
<1>2. /\ inferencePool # NoObj /\ pool = inferencePool /\ pool # NoObj
      /\ Swapped /\ poolPc = "idle"
  BY <1>1, PodOpAfterSwap DEF Deleting
<1>3. /\ UNCHANGED <<podObj, inferencePool, podQueue, strays>>
      /\ UNCHANGED <<poolQueue, pools, pool>>
      /\ UNCHANGED arg
  BY DEF DeleteVisit, DeleteEntry, DeleteRelease, DeleteEnd, cluster, queues,
         store
<1>4. StageInv'
  BY <1>1, <1>2, <1>3, SwappedStage
<1>5. SyncInv'
  BY <1>1, <1>2 DEF SyncInv, Adding
<1>6. PICK a : a = arg[self]
  OBVIOUS
<1>7. a \in Pods
  BY <1>1, <1>6 DEF Labelled, Deleting, podPc
<1>8. /\ \A p \in Pods, r \in Ranks : Present(p, r) => r < inferencePool.ports
      /\ \A p \in Pods \ Excused : p # a => Fits(p)
      /\ a \notin Excused => ~ Wanted(a)
      /\ \A r \in Ranks : Present(a, r) =>
            r \in todo[self] \/ (podPc = "delete" /\ r = rank[self])
  BY <1>1, <1>2, <1>6 DEF CallInv
<1>9. /\ \A p \in Pods, r \in Ranks : Present(p, r)' => Present(p, r)
      /\ \A p \in Pods, r \in Ranks : Present(p, r) /\ p # a => Present(p, r)'
      /\ podPc' # "idle" => \A r \in Ranks : Present(a, r)' =>
            r \in todo'[self] \/ (podPc' = "delete" /\ r = rank'[self])
      /\ podPc' = "idle" => \A r \in Ranks : ~ Present(a, r)'
  <2>1. CASE DeleteVisit(self)
    <3>1. PICK r \in todo[self] : DeleteVisit(self)!2!(r)
      BY <2>1 DEF DeleteVisit
    <3>2. UNCHANGED pods /\ podPc = "range" /\ todo'[self] = todo[self] \ {r}
      BY <2>1, <3>1 DEF DeleteVisit, store, podPc
    <3>3. \A p, q : Present(p, q)' <=> Present(p, q)
      BY <3>2 DEF Present
    <3>4. CASE ~ Present(a, r)
      <4>1. podPc' = podPc
        BY <1>6, <3>1, <3>4 DEF Present, podPc
      <4> QED
        BY <1>8, <3>2, <3>3, <3>4, <4>1
    <3>5. CASE Present(a, r)
      <4>1. podPc' = "delete" /\ rank'[self] = r
        BY <1>6, <3>1, <3>5 DEF Present, podPc, Goto
      <4> QED
        BY <1>8, <3>2, <3>3, <4>1
    <3> QED
      BY <3>4, <3>5
  <2>2. CASE DeleteEntry(self)
    <3>1. /\ podPc = "delete" /\ podPc' = "release" /\ UNCHANGED todo
          /\ pods' = [pods EXCEPT ![<<a, rank[self]>>] = NoInst]
      BY <1>6, <2>2 DEF DeleteEntry, Goto, podPc
    <3>2. rank[self] \in Ranks /\ <<a, rank[self]>> \in Keys
      BY <1>7, <3>1 DEF podPc, Keys
    <3>3. \A p \in Pods, r \in Ranks : Present(p, r)' <=>
              Present(p, r) /\ ~ (p = a /\ r = rank[self])
      BY <3>1, <3>2 DEF Present, Keys
    <3> QED
      BY <1>7, <1>8, <3>1, <3>3
  <2>3. CASE DeleteRelease(self)
    <3>1. podPc = "release" /\ podPc' = "range" /\ UNCHANGED <<todo, pods>>
      BY <2>3 DEF DeleteRelease, Goto, podPc
    <3>2. \A p, q : Present(p, q)' <=> Present(p, q)
      BY <3>1 DEF Present
    <3> QED
      BY <1>8, <3>1, <3>2
  <2>4. CASE DeleteEnd(self)
    <3>1. podPc = "range" /\ podPc' = "idle" /\ todo[self] = {} /\ UNCHANGED pods
      BY <2>4 DEF DeleteEnd, Goto, podPc, store
    <3>2. \A p, q : Present(p, q)' <=> Present(p, q)
      BY <3>1 DEF Present
    <3> QED
      BY <1>8, <3>1, <3>2
  <2> QED
    BY <2>1, <2>2, <2>3, <2>4
<1>10. \A p : Wanted(p)' <=> Wanted(p)
  BY <1>3 DEF Wanted
<1>11. ASSUME NEW p \in Pods \ Excused, podPc' = "idle" \/ p # a
       PROVE  Fits(p)'
  <2>1. CASE p # a
    BY <1>3, <1>8, <1>9, <1>10, <2>1 DEF Fits
  <2>2. CASE p = a
    BY <1>8, <1>9, <1>10, <1>11, <2>2 DEF Fits
  <2> QED
    BY <2>1, <2>2
<1>12. CallInv'
  <2>1. arg'[self] = a
    BY <1>3, <1>6
  <2>2. podPc' \notin Adding
    BY <1>1 DEF Adding, Deleting
  <2>3. Wanted(arg["podReconciler"])' <=> Wanted(a)
    BY <1>3, <2>1 DEF Wanted
  <2>4. \A r : Present(arg["podReconciler"], r)' <=> Present(a, r)'
    BY <2>1 DEF Present
  <2>5. \A p \in Pods, r \in Ranks : Present(p, r)' => r < inferencePool'.ports
    BY <1>3, <1>8, <1>9
  <2>6. \A p \in Pods \ Excused' :
            podPc' = "idle" \/ arg'["podReconciler"] # p => Fits(p)'
    BY <1>3, <1>11, <2>1 DEF Excused
  <2>7. podPc' \in Deleting => podPc' # "idle"
    BY DEF Deleting
  <2>8. podPc' \notin {"load", "store"}
    BY <2>2 DEF Adding
  <2> QED
    BY <1>3, <1>8, <1>9, <2>1, <2>2, <2>3, <2>4, <2>5, <2>6, <2>7, <2>8
       DEF CallInv, Excused
<1> QED
  BY <1>4, <1>5, <1>12

(* Every step keeps SettleInv, as long as the controllers take turns.      *)
LEMMA SettleStep ==
    ASSUME TypeOK, StrayInv, SerialInv, SettleInv, [Next]_vars,
           EditKinds \subseteq SettlingEdits
    PROVE  SettleInv'
<1> SUFFICES ASSUME ~ overlapped'
             PROVE  StageInv' /\ SyncInv' /\ CallInv'
  BY DEF SettleInv
<1>1. CASE UNCHANGED vars
  <2>1. ~ overlapped /\ StageInv /\ SyncInv /\ CallInv
    BY <1>1 DEF SettleInv, vars, frame
  <2>2. /\ UNCHANGED <<podObj, inferencePool, podQueue, strays>>
        /\ UNCHANGED <<poolQueue, pools, pool>>
        /\ UNCHANGED <<pods, pc, arg, ports, rank, todo, latest>>
        /\ UNCHANGED <<syncTodo, active>>
    BY <1>1 DEF vars, cluster, queues, store, frame, poolFrame
  <2>3. podPc' = podPc /\ poolPc' = poolPc
    BY <2>2 DEF podPc, poolPc
  <2>4. StageInv'
    BY <2>1, <2>2, <2>3
       DEF StageInv, NewPool, Started, Selecting, Swapped, Present
  <2>5. SyncInv'
    BY <2>1, <2>2, <2>3 DEF SyncInv, Filled, Present, Wanted, Excused
  <2>6. CallInv'
    BY <2>1, <2>2, <2>3 DEF CallInv, Filled, Fits, Present, Wanted, Excused
  <2> QED
    BY <2>4, <2>5, <2>6
<1>2. ASSUME Next PROVE ~ overlapped
  <2>1. CASE Environment
    BY <2>1, EnvironmentFrame DEF frame
  <2>2. CASE PodReconcile \/ AddPanic
    BY <2>2 DEF PodReconcile, AddPanic, Goto
  <2>3. CASE \E self \in Procs : DatastoreOp(self)
    BY <2>3, TakingTurns
  <2>4. CASE \/ PoolReconcile \/ PoolReconcileGone
             \/ StartStorePools \/ StartSwapPool
    BY <2>4 DEF PoolReconcile, PoolReconcileGone, StartStorePools,
                StartSwapPool, PoolGoto, Goto
  <2>5. CASE ListPods \/ ListPodsFails \/ SyncNext \/ SyncEnd \/ PruneEnd \/ ClearMap
    BY <2>5 DEF ListPods, ListPodsFails, SyncNext, SyncEnd, PruneEnd, ClearMap,
                PoolGoto, Goto
  <2>6. CASE PruneVisit \/ ClearVisit
    BY <2>6 DEF PruneVisit, ClearVisit, OuterVisit, PoolGoto, Goto
  <2> QED
    BY <1>2, <2>1, <2>2, <2>3, <2>4, <2>5, <2>6
       DEF Next, PodController, PoolController, Procs
<1>3. CASE Next
  <2>1. OneBusy /\ StageInv /\ SyncInv /\ CallInv
    BY <1>2, <1>3 DEF SerialInv, SettleInv
  <2>2. CASE Environment
    BY <2>1, <2>2, SettleEnvironment
  <2>3. CASE PodReconcile
    BY <2>1, <2>3, SettlePodReconcile
  <2>4. ~ AddPanic
    BY <2>1 DEF AddPanic, StageInv, podPc
  <2>5. CASE DatastoreOp("podReconciler")
    BY <2>1, <2>5, SettlePodAdd, SettlePodDelete DEF DatastoreOp
  <2>6. CASE DatastoreOp("poolReconciler")
    BY <2>1, <2>6, SettlePoolAdd
  <2>7. CASE \/ PoolReconcile \/ PoolReconcileGone
             \/ StartStorePools \/ StartSwapPool
    BY <2>1, <2>7, SettleStart
  <2>8. CASE \/ ListPods \/ ListPodsFails \/ SyncNext \/ SyncEnd
             \/ PruneVisit \/ PruneEnd
    BY <2>1, <2>8, SettleResync
  <2>9. ~ (ClearVisit \/ ClearMap)
    BY <2>1, NoPrunedPods DEF ClearVisit, ClearMap, OuterVisit, poolPc
  <2> QED
    BY <1>3, <2>2, <2>3, <2>4, <2>5, <2>6, <2>7, <2>8, <2>9
       DEF Next, PodController, PoolController
<1> QED
  BY <1>1, <1>3

(* For every set of pods, number of ports and number of edits: when pods   *)
(* come, go and change readiness and nothing is left to do, the map holds  *)
(* exactly the ports of the ready pods the pool selects, provided the two  *)
(* controllers never overlapped, and leaving aside the pods that ever came *)
(* without the pool's name, which the filter keeps from the controller.   *)
(*  An event filtered before the selector is *)
(* stored is made up for by the resync's list, and a pod that changes      *)
(* during the resync is queued.  A relabelled pod, a new selector or other *)
(* ports, a deleted pool and a failed List are excluded, because the code  *)
(* does not make up for them (run epp_selector shows the selector).        *)
THEOREM QuietStoreMatches ==
    ASSUME EditKinds \subseteq SettlingEdits
    PROVE  Spec => []QuietStoreMatchesCluster
<1>1. Init => ObjectInv /\ SerialInv /\ StrayInv
  BY NoInstNoKey DEF Init, ObjectInv, SerialInv, StrayInv, OneBusy, Busy, LoopsReachable,
                     SeenIsCurrent, ClearLeavesNothing, Procs
<1>2. Init => SettleInv
  <2> SUFFICES ASSUME Init PROVE StageInv /\ SyncInv /\ CallInv
    BY DEF SettleInv
  <2>1. podPc = "idle" /\ poolPc = "idle"
    BY DEF Init, podPc, poolPc, Procs
  <2>2. \A p \in Pods, r \in Ranks : ~ Present(p, r)
    BY DEF Init, Present, Keys
  <2> QED
    BY <2>1, <2>2 DEF Init, StageInv, SyncInv, CallInv, Adding
<1>3. ASSUME TypeOK, SettleInv PROVE QuietStoreMatchesCluster
  <2> SUFFICES ASSUME Quiet, ~ overlapped, NEW p \in Pods \ strays,
                      NEW r \in Ranks
               PROVE  Present(p, r) <=> Wanted(p) /\ r < inferencePool.ports
    BY DEF QuietStoreMatchesCluster, Present
  <2>1. podPc = "idle" /\ poolPc = "idle" /\ ~ poolQueue /\ podQueue = {}
    BY DEF Quiet, Busy, Procs, podPc, poolPc
  <2>2. StageInv /\ CallInv
    BY <1>3 DEF SettleInv
  <2>3. CASE pool # NoObj
    BY <2>1, <2>2, <2>3 DEF CallInv, Fits, Excused
  <2>4. CASE pool = NoObj
    <3>1. inferencePool = NoObj
      BY <2>1, <2>2, <2>4 DEF StageInv, NewPool, Started, Selecting, Swapped
    <3> QED
      BY <2>2, <2>4, <3>1 DEF StageInv, Wanted
  <2> QED
    BY <2>3, <2>4
<1> QED
  BY <1>1, <1>2, <1>3, TypeCorrect, ObjectStep, SerialStep, StrayStep,
     SettleStep, PTL
     DEF Spec

-----------------------------------------------------------------------------
(* What the bound is made of.                                              *)

(* The sets a loop goes through are finite and get smaller by one.         *)
LEMMA LoopSets ==
    /\ IsFiniteSet(Ranks) /\ Cardinality(Ranks) = MaxPorts
    /\ IsFiniteSet(Keys)
    /\ Cardinality(Keys) \in Nat /\ Cardinality(Pods) \in Nat
<1>1. IsFiniteSet(Ranks) /\ Cardinality(Ranks) = MaxPorts
  BY FS_Interval DEF Ranks
<1>2. IsFiniteSet(Keys)
  BY <1>1, PodsAssumption, FS_Product DEF Keys
<1> QED
  BY <1>1, <1>2, PodsAssumption, FS_CardinalityType

(* What is left of a finite set once an element is taken out.              *)
LEMMA OneLess ==
    ASSUME NEW S, IsFiniteSet(S), NEW x \in S
    PROVE  /\ Cardinality(S) \in Nat \ {0}
           /\ Cardinality(S \ {x}) \in Nat
           /\ Cardinality(S \ {x}) = Cardinality(S) - 1
<1>1. Cardinality(S) \in Nat /\ IsFiniteSet(S \ {x})
  BY FS_CardinalityType, FS_RemoveElement
<1>2. Cardinality(S \ {x}) = Cardinality(S) - 1
  BY FS_RemoveElement
<1>3. Cardinality(S \ {x}) \in Nat
  BY <1>1, FS_CardinalityType
<1> QED
  BY <1>1, <1>2, <1>3

(* The sizes of what the loops have before them.                           *)
LEMMA LoopSizes ==
    ASSUME TypeOK
    PROVE  /\ \A s \in Procs : /\ IsFiniteSet(todo[s])
                               /\ Cardinality(todo[s]) \in 0 .. MaxPorts
           /\ IsFiniteSet(syncTodo)
           /\ Cardinality(syncTodo) \in 0 .. Cardinality(Pods)
           /\ IsFiniteSet(outer)
           /\ Cardinality(outer) \in 0 .. Cardinality(Keys)
<1>1. ASSUME NEW s \in Procs
      PROVE  IsFiniteSet(todo[s]) /\ Cardinality(todo[s]) \in 0 .. MaxPorts
  <2>1. todo[s] \subseteq Ranks
    BY DEF TypeOK, FrameTypeOK
  <2>2. IsFiniteSet(todo[s]) /\ Cardinality(todo[s]) <= MaxPorts
    BY <2>1, LoopSets, FS_Subset
  <2> QED
    BY <2>2, FS_CardinalityType
<1>2. IsFiniteSet(syncTodo) /\ Cardinality(syncTodo) \in 0 .. Cardinality(Pods)
  <2>1. syncTodo \subseteq Pods
    BY DEF TypeOK, PoolFrameTypeOK
  <2>2. IsFiniteSet(syncTodo) /\ Cardinality(syncTodo) <= Cardinality(Pods)
    BY <2>1, PodsAssumption, FS_Subset
  <2> QED
    BY <2>2, LoopSets, FS_CardinalityType
<1>3. IsFiniteSet(outer) /\ Cardinality(outer) \in 0 .. Cardinality(Keys)
  <2>1. outer \subseteq Keys
    BY DEF TypeOK, PoolFrameTypeOK
  <2>2. IsFiniteSet(outer) /\ Cardinality(outer) <= Cardinality(Keys)
    BY <2>1, LoopSets, FS_Subset
  <2> QED
    BY <2>2, LoopSets, FS_CardinalityType
<1> QED
  BY <1>1, <1>2, <1>3

(* What CallSteps is at each label.                                        *)
LEMMA CallStepsAt ==
    ASSUME NEW m \in Nat, NEW n \in Nat
    PROVE  /\ CallSteps("add", m, n) = 2 * MaxPorts + 2
           /\ CallSteps("load", m, n) = 2 * m + 1
           /\ CallSteps("store", m, n) = 2 * m
           /\ CallSteps("range", m, n) = 3 * n + 1
           /\ CallSteps("delete", m, n) = 3 * n + 3
           /\ CallSteps("release", m, n) = 3 * n + 2
           /\ \A at \in PoolLabels \cup {"idle"} : CallSteps(at, m, n) = 0
<1>1. \A at \in PoolLabels \cup {"idle"} : CallSteps(at, m, n) = 0
  BY DEF CallSteps, PoolLabels
<1>2. /\ CallSteps("add", m, n) = 2 * MaxPorts + 2
      /\ CallSteps("load", m, n) = 2 * m + 1
      /\ CallSteps("store", m, n) = 2 * m
  BY DEF CallSteps, AddSteps
<1>3. /\ CallSteps("range", m, n) = 3 * n + 1
      /\ CallSteps("delete", m, n) = 3 * n + 3
      /\ CallSteps("release", m, n) = 3 * n + 2
  BY DEF CallSteps, DeleteSteps
<1> QED
  BY <1>1, <1>2, <1>3

(* One more entry of a loop costs one call and the step that makes it.     *)
LEMMA OneMore ==
    ASSUME NEW n \in Nat
    PROVE  /\ OuterSteps(n) \in Nat \ {0} /\ SyncSteps(n) \in Nat
           /\ OuterSteps(n + 1) = OuterSteps(n) + 3 * MaxPorts + 2
           /\ SyncSteps(n + 1) = SyncSteps(n) + 2 * MaxPorts + 3
           /\ SyncSteps(n) > OuterSteps(Cardinality(Keys))
<1>1. \A c \in Nat : n * c \in Nat /\ (n + 1) * c = n * c + c
  OBVIOUS
<1>2. OuterSteps(Cardinality(Keys)) \in Nat
  <2>1. \A k \in Nat : k * (3 * MaxPorts + 2) \in Nat
    OBVIOUS
  <2> QED
    BY <2>1, LoopSets DEF OuterSteps, DeleteSteps
<1>3. /\ OuterSteps(n) = n * (3 * MaxPorts + 2) + 1
      /\ OuterSteps(n + 1) = (n + 1) * (3 * MaxPorts + 2) + 1
  BY DEF OuterSteps, DeleteSteps
<1>4. /\ SyncSteps(n) = n * (2 * MaxPorts + 3) + 1
                            + OuterSteps(Cardinality(Keys))
      /\ SyncSteps(n + 1) = (n + 1) * (2 * MaxPorts + 3) + 1
                            + OuterSteps(Cardinality(Keys))
  BY DEF SyncSteps, AddSteps
<1>5. /\ n * (3 * MaxPorts + 2) \in Nat
      /\ (n + 1) * (3 * MaxPorts + 2) = n * (3 * MaxPorts + 2) + (3 * MaxPorts + 2)
      /\ n * (2 * MaxPorts + 3) \in Nat
      /\ (n + 1) * (2 * MaxPorts + 3) = n * (2 * MaxPorts + 3) + (2 * MaxPorts + 3)
  BY <1>1
<1> QED
  BY <1>2, <1>3, <1>4, <1>5

(* A resync of fewer pods is no longer.                                    *)
LEMMA SyncGrows ==
    ASSUME NEW m \in Nat, NEW n \in Nat, m <= n
    PROVE  SyncSteps(m) <= SyncSteps(n)
<1>1. \A c \in Nat : m * c \in Nat /\ n * c \in Nat /\ m * c <= n * c
  OBVIOUS
<1>2. OuterSteps(Cardinality(Keys)) \in Nat
  BY OneMore, LoopSets
<1> QED
  BY <1>1, <1>2 DEF SyncSteps, AddSteps

(* What LoopSteps is at each label.                                        *)
LEMMA LoopStepsAt ==
    ASSUME NEW m \in Nat, NEW n \in Nat
    PROVE  /\ LoopSteps("start", m, n) = SyncSteps(Cardinality(Pods)) + 3
           /\ LoopSteps("swap", m, n) = SyncSteps(Cardinality(Pods)) + 2
           /\ LoopSteps("list", m, n) = SyncSteps(Cardinality(Pods)) + 1
           /\ \A at \in {"sync", "add", "load", "store"} :
                 LoopSteps(at, m, n) = SyncSteps(m)
           /\ \A at \in {"prune", "clear", "range", "delete", "release"} :
                 LoopSteps(at, m, n) = OuterSteps(n)
           /\ LoopSteps("idle", m, n) = 0
<1>1. /\ LoopSteps("start", m, n) = SyncSteps(Cardinality(Pods)) + 3
      /\ LoopSteps("swap", m, n) = SyncSteps(Cardinality(Pods)) + 2
      /\ LoopSteps("list", m, n) = SyncSteps(Cardinality(Pods)) + 1
  BY DEF LoopSteps
<1>2. \A at \in {"sync", "add", "load", "store"} :
         LoopSteps(at, m, n) = SyncSteps(m)
  BY DEF LoopSteps
<1>3. \A at \in {"prune", "clear", "range", "delete", "release"} :
         LoopSteps(at, m, n) = OuterSteps(n)
  BY DEF LoopSteps
<1>4. LoopSteps("idle", m, n) = 0
  BY DEF LoopSteps
<1> QED
  BY <1>1, <1>2, <1>3, <1>4

(* A call is at a label of its own kind until it returns.                  *)
AddLabels == {"add", "load", "store"}
DeleteLabels == {"range", "delete", "release"}

(* Each step of a call makes it shorter and leaves the loops around it and *)
(* the other controller's frame alone.                                     *)
LEMMA CallShrinks ==
    ASSUME TypeOK, PortsInv, NEW self \in Procs, DatastoreOp(self)
    PROVE  LET now == CallSteps(pc[self], PortsLeft(self),
                                Cardinality(todo[self]))
               next == CallSteps(pc[self], PortsLeft(self),
                                 Cardinality(todo[self]))'
           IN  /\ now \in Nat /\ next \in Nat /\ next < now
               /\ UNCHANGED poolFrame
               /\ \/ /\ pc[self] \in AddLabels
                     /\ pc'[self] \in AddLabels \cup {AddReturn(self)}
                  \/ /\ pc[self] \in DeleteLabels
                     /\ pc'[self] \in DeleteLabels
                          \cup {IF self = "podReconciler" THEN "idle" ELSE ret}
               /\ \A s \in Procs \ {self} :
                     /\ pc'[s] = pc[s] /\ arg'[s] = arg[s] /\ ports'[s] = ports[s]
                     /\ rank'[s] = rank[s] /\ todo'[s] = todo[s]
                     /\ held'[s] = held[s]
<1> DEFINE p == PortsLeft(self)
           q == PortsLeft(self)'
           n == Cardinality(todo[self])
           m == Cardinality(todo[self])'
<1>0. TypeOK'
  BY DatastoreOpTypes
<1>1. p \in Nat /\ n \in Nat
  BY LoopSizes DEF PortsLeft, TypeOK, FrameTypeOK
<1>2. q \in Nat
  BY <1>0 DEF PortsLeft, TypeOK, FrameTypeOK
<1>3. /\ pc \in [Procs -> Labelled \cup PoolLabels]
      /\ ports \in [Procs -> 0 .. MaxPorts]
      /\ rank \in [Procs -> 0 .. MaxPorts]
      /\ todo \in [Procs -> SUBSET Ranks]
      /\ arg \in [Procs -> Pods \cup {NoObj}]
      /\ held \in [Procs -> Instances \cup {NoInst}]
      /\ ret \in {"prune", "clear"}
  BY DEF TypeOK, FrameTypeOK, PoolFrameTypeOK
<1>4. CallSteps("sync", q, n) = 0 /\ CallSteps("idle", q, n) = 0
      /\ CallSteps(ret, q, n) = 0
  <2>1. \A at \in PoolLabels \cup {"idle"} : CallSteps(at, q, n) = 0
    BY <1>1, <1>2, CallStepsAt
  <2> HIDE DEF q, n
  <2> QED
    BY <1>3, <2>1 DEF PoolLabels
<1>5. UNCHANGED poolFrame
  BY DEF DatastoreOp, AddBegin, AddLoad, AddStore, AddEnd, DeleteVisit,
         DeleteEntry, DeleteRelease, DeleteEnd
<1> USE DEF AddLabels, DeleteLabels
<1>6. CASE AddBegin(self)
  <2>1. pc[self] = "add" /\ pc' = [pc EXCEPT ![self] = "load"]
        /\ UNCHANGED <<todo, arg, held>>
        /\ rank' = [rank EXCEPT ![self] = 0]
        /\ ports' = [ports EXCEPT ![self] = pool.ports]
    BY <1>6 DEF AddBegin, Goto
  <2>2. q <= MaxPorts
    BY <1>0, <2>1 DEF PortsLeft, TypeOK, FrameTypeOK
  <2>3. CallSteps("add", p, n) = 2 * MaxPorts + 2
        /\ CallSteps("load", q, n) = 2 * q + 1
    BY <1>1, <1>2, CallStepsAt
  <2> QED
    BY <1>1, <1>2, <1>3, <1>5, <2>1, <2>2, <2>3
<1>7. CASE AddLoad(self)
  <2>1. /\ pc[self] = "load" /\ rank[self] < ports[self]
        /\ UNCHANGED <<todo, arg, held, ports>>
        /\ \/ pc' = [pc EXCEPT ![self] = "store"] /\ rank' = rank
           \/ pc' = pc /\ rank' = [rank EXCEPT ![self] = @ + 1]
    BY <1>7 DEF AddLoad, Goto
  <2>2. \/ pc'[self] = "store" /\ q = p
        \/ pc'[self] = "load" /\ q = p - 1
    BY <1>3, <2>1 DEF PortsLeft
  <2>3. CallSteps("load", p, n) = 2 * p + 1
        /\ CallSteps("load", q, n) = 2 * q + 1
        /\ CallSteps("store", q, n) = 2 * q
    BY <1>1, <1>2, CallStepsAt
  <2> QED
    BY <1>1, <1>2, <1>3, <1>5, <2>1, <2>2, <2>3
<1>8. CASE AddStore(self)
  <2>1. /\ pc[self] = "store" /\ pc' = [pc EXCEPT ![self] = "load"]
        /\ UNCHANGED <<todo, arg, held, ports>>
        /\ rank' = [rank EXCEPT ![self] = @ + 1]
    BY <1>8 DEF AddStore, Goto
  <2>2. rank[self] < ports[self]
    BY <2>1 DEF PortsInv
  <2>3. q = p - 1
    BY <1>3, <2>1, <2>2 DEF PortsLeft
  <2>4. CallSteps("store", p, n) = 2 * p
        /\ CallSteps("load", q, n) = 2 * q + 1
    BY <1>1, <1>2, CallStepsAt
  <2> QED
    BY <1>1, <1>2, <1>3, <1>5, <2>1, <2>3, <2>4
<1>9. CASE AddEnd(self)
  <2>1. /\ pc[self] = "load" /\ pc' = [pc EXCEPT ![self] = AddReturn(self)]
        /\ UNCHANGED <<todo, arg, held, ports, rank>>
    BY <1>9 DEF AddEnd, Goto
  <2>2. CallSteps("load", p, n) = 2 * p + 1
        /\ CallSteps(AddReturn(self), q, n) = 0
    BY <1>1, <1>4, CallStepsAt DEF AddReturn
  <2> QED
    BY <1>1, <1>2, <1>3, <1>5, <2>1, <2>2
<1>10. CASE DeleteVisit(self)
  <2>1. PICK r \in todo[self] : DeleteVisit(self)!2!(r)
    BY <1>10 DEF DeleteVisit
  <2>2. /\ pc[self] = "range"
        /\ todo' = [todo EXCEPT ![self] = @ \ {r}]
        /\ UNCHANGED <<arg, ports>>
        /\ \/ UNCHANGED <<pc, rank, held>>
           \/ /\ pc' = [pc EXCEPT ![self] = "delete"]
              /\ rank' = [rank EXCEPT ![self] = r]
              /\ held' = [held EXCEPT ![self] = pods[<<arg[self], r>>]]
    BY <1>10, <2>1 DEF DeleteVisit, Goto
  <2>3. todo'[self] = todo[self] \ {r}
    BY <1>3, <2>2
  <2>4. m \in Nat /\ m = n - 1
    BY <2>3, OneLess, LoopSizes
  <2>5. /\ CallSteps("range", p, n) = 3 * n + 1
        /\ CallSteps("range", q, m) = 3 * m + 1
        /\ CallSteps("delete", q, m) = 3 * m + 3
    BY <1>1, <1>2, <2>4, CallStepsAt
  <2> HIDE DEF p, q, n, m
  <2>6. pc'[self] \in {"range", "delete"}
    BY <1>3, <2>2
  <2>7. /\ CallSteps(pc[self], p, n) \in Nat
        /\ CallSteps(pc'[self], q, m) \in Nat
        /\ CallSteps(pc'[self], q, m) < CallSteps(pc[self], p, n)
    BY <1>1, <1>2, <2>2, <2>4, <2>5, <2>6
  <2> QED
    BY <1>3, <1>5, <2>2, <2>6, <2>7 DEF p, q, n, m
<1>11. CASE DeleteEntry(self)
  <2>1. /\ pc[self] = "delete" /\ pc' = [pc EXCEPT ![self] = "release"]
        /\ UNCHANGED <<todo, arg, held, ports, rank>>
    BY <1>11 DEF DeleteEntry, Goto
  <2>2. CallSteps("delete", p, n) = 3 * n + 3
        /\ CallSteps("release", q, n) = 3 * n + 2
    BY <1>1, <1>2, CallStepsAt
  <2> QED
    BY <1>1, <1>2, <1>3, <1>5, <2>1, <2>2
<1>12. CASE DeleteRelease(self)
  <2>1. /\ pc[self] = "release" /\ pc' = [pc EXCEPT ![self] = "range"]
        /\ UNCHANGED <<todo, arg, ports, rank>>
        /\ held' = [held EXCEPT ![self] = NoInst]
    BY <1>12 DEF DeleteRelease, Goto
  <2>2. CallSteps("release", p, n) = 3 * n + 2
        /\ CallSteps("range", q, n) = 3 * n + 1
    BY <1>1, <1>2, CallStepsAt
  <2> QED
    BY <1>1, <1>2, <1>3, <1>5, <2>1, <2>2
<1>13. CASE DeleteEnd(self)
  <2>1. /\ pc[self] = "range"
        /\ pc' = [pc EXCEPT ![self] =
                     IF self = "podReconciler" THEN "idle" ELSE ret]
        /\ UNCHANGED <<todo, arg, held, ports, rank>>
    BY <1>13 DEF DeleteEnd, Goto
  <2>2. CallSteps("range", p, n) = 3 * n + 1
    BY <1>1, <1>2, CallStepsAt
  <2> QED
    BY <1>1, <1>2, <1>3, <1>4, <1>5, <2>1, <2>2
<1> QED
  BY <1>6, <1>7, <1>8, <1>9, <1>10, <1>11, <1>12, <1>13 DEF DatastoreOp

(* A Store comes after the test of the loop on the ports that were read.   *)
LEMMA PortsStep == TypeOK /\ PortsInv /\ [Next]_vars => PortsInv'
<1> SUFFICES ASSUME TypeOK, PortsInv, [Next]_vars, NEW s \in Procs,
                    pc'[s] = "store"
             PROVE  rank'[s] < ports'[s]
  BY DEF PortsInv
<1> USE DEF Procs
<1>0. /\ pc \in [Procs -> Labelled \cup PoolLabels]
      /\ ports \in [Procs -> 0 .. MaxPorts]
      /\ rank \in [Procs -> 0 .. MaxPorts]
      /\ ret \in {"prune", "clear"}
  BY DEF TypeOK, FrameTypeOK, PoolFrameTypeOK
<1>1. CASE Environment \/ UNCHANGED vars
  BY <1>1, EnvironmentFrame DEF vars, frame, PortsInv
<1>2. ASSUME NEW self \in Procs, DatastoreOp(self)
      PROVE  rank'[s] < ports'[s]
  <2>1. CASE s # self
    BY <1>2, <2>1, CallShrinks DEF PortsInv
  <2>2. CASE s = self /\ AddLoad(self)
    BY <1>0, <2>2 DEF AddLoad, Goto
  <2>3. CASE s = self /\ ~ AddLoad(self)
    BY <1>0, <1>2, <2>3 DEF DatastoreOp, AddBegin, AddStore, AddEnd, AddReturn,
       DeleteVisit, DeleteEntry, DeleteRelease, DeleteEnd, Goto
  <2> QED
    BY <2>1, <2>2, <2>3
<1>3. CASE PodReconcile \/ AddPanic
  <2>1. /\ UNCHANGED <<ports, rank>>
        /\ \/ pc' = [pc EXCEPT !["podReconciler"] = "idle"]
           \/ pc' = [pc EXCEPT !["podReconciler"] = "range"]
           \/ pc' = [pc EXCEPT !["podReconciler"] = "add"]
    BY <1>3 DEF PodReconcile, AddPanic, Goto
  <2> QED
    BY <1>0, <2>1 DEF PortsInv
<1>4. ASSUME PoolController, ~ DatastoreOp("poolReconciler")
      PROVE  rank'[s] < ports'[s]
  <2>1. /\ UNCHANGED <<ports, rank>>
        /\ \/ pc' = pc
           \/ \E l \in {"start", "swap", "list", "idle", "sync", "add", "range",
                        "prune", "clear"} :
                 pc' = [pc EXCEPT !["poolReconciler"] = l]
    BY <1>4 DEF PoolController, PoolReconcile, PoolReconcileGone,
       StartStorePools, StartSwapPool, ListPods, ListPodsFails, SyncNext,
       SyncEnd, PruneVisit, PruneEnd, ClearVisit, ClearMap, OuterVisit,
       PoolGoto, Goto
  <2> QED
    BY <1>0, <2>1 DEF PortsInv
<1> QED
  BY <1>1, <1>2, <1>3, <1>4 DEF Next, PodController, PoolController

(* A step of the pool controller outside the calls it makes: the loop it   *)
(* is in has one entry less, or it goes on to the next part.               *)
LEMMA LoopShrinks ==
    ASSUME TypeOK, TypeOK', PoolController, ~ DatastoreOp("poolReconciler"),
           Busy("poolReconciler")
    PROVE  StepsLeft("poolReconciler")' < StepsLeft("poolReconciler")
<1> DEFINE s == "poolReconciler"
           p == PortsLeft(s)
           q == PortsLeft(s)'
           n == Cardinality(todo[s])
           m == Cardinality(todo[s])'
           a == Cardinality(syncTodo)
           b == Cardinality(syncTodo)'
           o == Cardinality(outer)
           u == Cardinality(outer)'
           K == Cardinality(Keys)
           N == Cardinality(Pods)
<1>1. /\ p \in Nat /\ q \in Nat
  BY DEF PortsLeft, TypeOK, FrameTypeOK, Procs
<1>2. n \in Nat /\ a \in Nat /\ o \in Nat /\ K \in Nat /\ N \in Nat
  BY LoopSizes, LoopSets DEF Procs
<1>3. m \in 0 .. MaxPorts /\ b \in 0 .. N /\ u \in 0 .. K
  <2>1. todo'[s] \subseteq Ranks /\ syncTodo' \subseteq Pods /\ outer' \subseteq Keys
    BY DEF TypeOK, FrameTypeOK, PoolFrameTypeOK, Procs
  <2>2. m \in Nat /\ b \in Nat /\ u \in Nat
        /\ m <= MaxPorts /\ b <= N /\ u <= K
    BY <2>1, LoopSets, PodsAssumption, FS_Subset, FS_CardinalityType
  <2> QED
    BY <1>2, <2>2
<1>4. /\ pc \in [Procs -> Labelled \cup PoolLabels]
      /\ pc[s] # "idle"
      /\ IsFiniteSet(syncTodo) /\ IsFiniteSet(outer)
      /\ todo \in [Procs -> SUBSET Ranks]
      /\ outer \subseteq Keys
  BY LoopSizes DEF TypeOK, FrameTypeOK, PoolFrameTypeOK, Busy
<1>5. /\ StepsLeft(s) = CallSteps(pc[s], p, n) + LoopSteps(pc[s], a, o)
      /\ StepsLeft(s)' = CallSteps(pc'[s], q, m) + LoopSteps(pc'[s], b, u)
  BY DEF StepsLeft
<1>6. /\ SyncSteps(N) \in Nat /\ SyncSteps(a) \in Nat /\ SyncSteps(b) \in Nat
      /\ OuterSteps(o) \in Nat \ {0} /\ OuterSteps(u) \in Nat
      /\ OuterSteps(K) \in Nat
      /\ SyncSteps(a) > OuterSteps(K)
      /\ SyncSteps(b) <= SyncSteps(N)
  BY <1>2, <1>3, OneMore, SyncGrows
<1>7. /\ \A at \in PoolLabels \cup {"idle"} :
            CallSteps(at, p, n) = 0 /\ CallSteps(at, q, m) = 0
      /\ CallSteps("add", q, m) = 2 * MaxPorts + 2
      /\ CallSteps("range", q, m) = 3 * m + 1
  <2>1. m \in Nat
    BY <1>3
  <2> HIDE DEF p, q, n, m
  <2>2. \A at \in PoolLabels \cup {"idle"} : CallSteps(at, p, n) = 0
    BY <1>1, <1>2, CallStepsAt
  <2>3. /\ \A at \in PoolLabels \cup {"idle"} : CallSteps(at, q, m) = 0
        /\ CallSteps("add", q, m) = 2 * MaxPorts + 2
        /\ CallSteps("range", q, m) = 3 * m + 1
    BY <1>1, <2>1, CallStepsAt
  <2> QED
    BY <2>2, <2>3
<1>8. /\ LoopSteps("start", a, o) = SyncSteps(N) + 3
      /\ LoopSteps("swap", a, o) = SyncSteps(N) + 2
      /\ LoopSteps("list", a, o) = SyncSteps(N) + 1
      /\ LoopSteps("sync", a, o) = SyncSteps(a)
      /\ LoopSteps("prune", a, o) = OuterSteps(o)
      /\ LoopSteps("clear", a, o) = OuterSteps(o)
  BY <1>2, LoopStepsAt
<1>9. /\ LoopSteps("swap", b, u) = SyncSteps(N) + 2
      /\ LoopSteps("list", b, u) = SyncSteps(N) + 1
      /\ LoopSteps("sync", b, u) = SyncSteps(b)
      /\ LoopSteps("add", b, u) = SyncSteps(b)
      /\ LoopSteps("prune", b, u) = OuterSteps(u)
      /\ LoopSteps("clear", b, u) = OuterSteps(u)
      /\ LoopSteps("range", b, u) = OuterSteps(u)
      /\ LoopSteps("idle", b, u) = 0
  BY <1>3, LoopStepsAt
<1>10. ASSUME NEW x \in syncTodo, syncTodo' = syncTodo \ {x}
       PROVE  SyncSteps(a) = SyncSteps(b) + 2 * MaxPorts + 3
  <2>1. b \in Nat /\ a = b + 1
    BY <1>2, <1>4, <1>10, OneLess
  <2> QED
    BY <2>1, OneMore
<1>11. ASSUME NEW k \in outer, outer' = outer \ {k}
       PROVE  OuterSteps(o) = OuterSteps(u) + 3 * MaxPorts + 2
  <2>1. u \in Nat /\ o = u + 1
    BY <1>2, <1>4, <1>11, OneLess
  <2> QED
    BY <2>1, OneMore
<1>12. outer' = Keys => u = K
  OBVIOUS
<1> USE DEF Procs, PoolLabels, Labelled
<1> HIDE DEF p, q, n, m, a, b, o, u, K, N
<1>13. CASE PoolReconcile \/ PoolReconcileGone
  BY <1>4, <1>13 DEF PoolReconcile, PoolReconcileGone
<1>14. CASE StartStorePools
  <2>1. pc[s] = "start" /\ pc'[s] = "swap"
    BY <1>4, <1>14 DEF StartStorePools, PoolGoto, Goto
  <2> QED
    BY <2>1, <1>5, <1>6, <1>7, <1>8, <1>9
<1>15. CASE StartSwapPool
  <2>1. pc[s] = "swap" /\ pc'[s] \in {"list", "idle"}
    BY <1>4, <1>15 DEF StartSwapPool, PoolGoto, Goto
  <2> QED
    BY <2>1, <1>5, <1>6, <1>7, <1>8, <1>9
<1>16. CASE ListPods \/ ListPodsFails
  <2>1. pc[s] = "list" /\ pc'[s] \in {"sync", "idle"}
    BY <1>4, <1>16 DEF ListPods, ListPodsFails, PoolGoto, Goto
  <2> QED
    BY <2>1, <1>5, <1>6, <1>7, <1>8, <1>9
<1>17. CASE SyncNext
  <2>1. PICK x \in syncTodo : syncTodo' = syncTodo \ {x}
    BY <1>17 DEF SyncNext
  <2>2. pc[s] = "sync" /\ pc'[s] = "add"
    BY <1>4, <1>17 DEF SyncNext, PoolGoto, Goto
  <2>3. SyncSteps(a) = SyncSteps(b) + 2 * MaxPorts + 3
    BY <1>10, <2>1
  <2> QED
    BY <2>2, <2>3, <1>5, <1>6, <1>7, <1>8, <1>9
<1>18. CASE SyncEnd
  <2>1. pc[s] = "sync" /\ pc'[s] = "prune" /\ outer' = Keys
    BY <1>4, <1>18 DEF SyncEnd, PoolGoto, Goto
  <2> QED
    BY <2>1, <1>5, <1>6, <1>7, <1>8, <1>9, <1>12
<1>19. ASSUME NEW label \in {"prune", "clear"}, NEW k \in outer, NEW drop,
              OuterVisit(label, k, drop)
       PROVE  StepsLeft(s)' < StepsLeft(s)
  <2>1. pc[s] = label /\ pc'[s] \in {label, "range"} /\ outer' = outer \ {k}
    BY <1>4, <1>19 DEF OuterVisit, PoolGoto, Goto
  <2>2. OuterSteps(o) = OuterSteps(u) + 3 * MaxPorts + 2
    BY <1>11, <2>1
  <2> QED
    BY <2>1, <2>2, <1>3, <1>5, <1>6, <1>7, <1>8, <1>9
<1>20. CASE PruneVisit \/ ClearVisit
  BY <1>19, <1>20 DEF PruneVisit, ClearVisit
<1>21. CASE PruneEnd \/ ClearMap
  <2>1. pc[s] \in {"prune", "clear"} /\ pc'[s] = "idle"
    BY <1>4, <1>21 DEF PruneEnd, ClearMap, PoolGoto, Goto
  <2> QED
    BY <2>1, <1>5, <1>6, <1>7, <1>8, <1>9
<1> QED
  BY <1>13, <1>14, <1>15, <1>16, <1>17, <1>18, <1>20, <1>21 DEF PoolController

(* A step of a call the pool controller makes leaves its loops as long.    *)
LEMMA PoolCallShrinks ==
    ASSUME TypeOK, TypeOK', PortsInv, DatastoreOp("poolReconciler")
    PROVE  StepsLeft("poolReconciler")' < StepsLeft("poolReconciler")
<1> DEFINE s == "poolReconciler"
           now == CallSteps(pc[s], PortsLeft(s), Cardinality(todo[s]))
           next == CallSteps(pc[s], PortsLeft(s), Cardinality(todo[s]))'
           a == Cardinality(syncTodo)
           o == Cardinality(outer)
<1>1. now \in Nat /\ next \in Nat /\ next < now /\ UNCHANGED poolFrame
  BY CallShrinks DEF Procs
<1>2. a \in Nat /\ o \in Nat /\ ret \in {"prune", "clear"}
  BY LoopSizes, LoopSets DEF TypeOK, PoolFrameTypeOK
<1>3. \/ /\ pc[s] \in {"add", "load", "store"}
         /\ pc'[s] \in {"add", "load", "store", "sync"}
      \/ /\ pc[s] \in {"range", "delete", "release"}
         /\ pc'[s] \in {"range", "delete", "release", "prune", "clear"}
  BY <1>2, CallShrinks DEF AddLabels, DeleteLabels, AddReturn, Procs
<1>4. LoopSteps(pc[s], a, o) \in Nat /\ LoopSteps(pc'[s], a, o) = LoopSteps(pc[s], a, o)
  <2>1. SyncSteps(a) \in Nat /\ OuterSteps(o) \in Nat
    BY <1>2, OneMore
  <2>2. /\ \A at \in {"sync", "add", "load", "store"} :
              LoopSteps(at, a, o) = SyncSteps(a)
        /\ \A at \in {"prune", "clear", "range", "delete", "release"} :
              LoopSteps(at, a, o) = OuterSteps(o)
    BY <1>2, LoopStepsAt
  <2> HIDE DEF a, o
  <2> QED
    BY <1>3, <2>1, <2>2
<1>5. StepsLeft(s) = now + LoopSteps(pc[s], a, o)
  BY DEF StepsLeft
<1>6. StepsLeft(s)' = next + LoopSteps(pc'[s], a, o)
  BY <1>1 DEF StepsLeft, poolFrame
<1> HIDE DEF now, next, a, o
<1> QED
  BY <1>1, <1>4, <1>5, <1>6

(* One step, and what it does to a controller that is busy.                *)
LEMMA BoundedStep ==
    ASSUME TypeOK, TypeOK', PortsInv, [Next]_vars, NEW s \in Procs, Busy(s)
    PROVE  StepsLeft(s)' < StepsLeft(s) \/ UNCHANGED FrameOf(s)
<1> USE DEF Procs
<1>0. /\ pc \in [Procs -> Labelled \cup PoolLabels]
      /\ arg \in [Procs -> Pods \cup {NoObj}]
      /\ todo \in [Procs -> SUBSET Ranks]
  BY DEF TypeOK, FrameTypeOK
<1>1. CASE Environment \/ UNCHANGED vars
  BY <1>1, EnvironmentFrame DEF vars, frame, FrameOf, poolFrame
<1>2. ASSUME NEW self \in Procs, DatastoreOp(self), s # self
      PROVE  UNCHANGED FrameOf(s)
  BY <1>2, CallShrinks DEF FrameOf, poolFrame
<1>3. CASE PodController /\ s = "poolReconciler"
  <2>1. CASE PodReconcile
    BY <1>0, <1>3, <2>1 DEF PodReconcile, Goto, FrameOf, poolFrame
  <2>2. CASE AddPanic
    BY <1>0, <1>3, <2>2 DEF AddPanic, Goto, FrameOf, poolFrame
  <2> QED
    BY <1>2, <1>3, <2>1, <2>2 DEF PodController
<1>4. CASE PodController /\ s = "podReconciler"
  <2> DEFINE now == CallSteps(pc[s], PortsLeft(s), Cardinality(todo[s]))
             next == CallSteps(pc[s], PortsLeft(s), Cardinality(todo[s]))'
  <2>1. /\ now \in Nat => StepsLeft(s) = now
        /\ next \in Nat => StepsLeft(s)' = next
    BY <1>4 DEF StepsLeft
  <2>2. CASE PodReconcile
    BY <1>4, <2>2 DEF PodReconcile, Busy
  <2>3. CASE AddPanic
    <3>1. pc[s] = "add" /\ pc'[s] = "idle" /\ UNCHANGED <<ports, rank, todo>>
      BY <1>0, <1>4, <2>3 DEF AddPanic, Goto
    <3>2. PortsLeft(s) \in Nat /\ Cardinality(todo[s]) \in Nat
      BY LoopSizes DEF PortsLeft, TypeOK, FrameTypeOK
    <3>3. CallSteps("add", PortsLeft(s), Cardinality(todo[s])) = 2 * MaxPorts + 2
          /\ CallSteps("idle", PortsLeft(s), Cardinality(todo[s])) = 0
      BY <3>2, CallStepsAt
    <3>4. now = 2 * MaxPorts + 2 /\ next = 0
      BY <3>1, <3>3 DEF PortsLeft
    <3> HIDE DEF now, next
    <3> QED
      BY <2>1, <3>4
  <2>4. CASE DatastoreOp(s)
    <3>1. now \in Nat /\ next \in Nat /\ next < now
      BY <2>4, CallShrinks
    <3> HIDE DEF now, next
    <3> QED
      BY <2>1, <3>1
  <2> QED
    BY <1>4, <2>2, <2>3, <2>4 DEF PodController
<1>5. CASE PoolController /\ s = "podReconciler"
  <2>1. CASE DatastoreOp("poolReconciler")
    BY <1>2, <1>5, <2>1
  <2>2. CASE ~ DatastoreOp("poolReconciler")
    <3>1. /\ UNCHANGED <<ports, rank, held>>
          /\ \/ pc' = pc
             \/ \E l \in {"start", "swap", "list", "idle", "sync", "add", "range",
                          "prune", "clear"} :
                   pc' = [pc EXCEPT !["poolReconciler"] = l]
      BY <1>5, <2>2 DEF PoolController, PoolReconcile, PoolReconcileGone,
         StartStorePools, StartSwapPool, ListPods, ListPodsFails, SyncNext,
         SyncEnd, PruneVisit, PruneEnd, ClearVisit, ClearMap, OuterVisit,
         PoolGoto, Goto
    <3>2. arg'[s] = arg[s] /\ todo'[s] = todo[s]
      BY <1>0, <1>5, <2>2 DEF PoolController, PoolReconcile, PoolReconcileGone,
         StartStorePools, StartSwapPool, ListPods, ListPodsFails, SyncNext,
         SyncEnd, PruneVisit, PruneEnd, ClearVisit, ClearMap, OuterVisit
    <3> QED
      BY <1>0, <1>5, <3>1, <3>2 DEF FrameOf
  <2> QED
    BY <2>1, <2>2
<1>6. CASE PoolController /\ s = "poolReconciler"
  BY <1>6, LoopShrinks, PoolCallShrinks
<1> QED
  BY <1>1, <1>3, <1>4, <1>5, <1>6 DEF Next

(* The number of steps is one at every label.                              *)
LEMMA StepsAreNat ==
    ASSUME NEW at \in Labelled \cup PoolLabels,
           NEW m \in Nat, NEW n \in Nat, NEW a \in Nat, NEW o \in Nat
    PROVE  CallSteps(at, m, n) \in Nat /\ LoopSteps(at, a, o) \in Nat
<1>1. CallSteps(at, m, n) \in Nat
  <2>1. at \in {"add", "load", "store", "range", "delete", "release"}
        \/ at \in PoolLabels \cup {"idle"}
    BY DEF Labelled
  <2>2. /\ CallSteps("add", m, n) = 2 * MaxPorts + 2
        /\ CallSteps("load", m, n) = 2 * m + 1
        /\ CallSteps("store", m, n) = 2 * m
        /\ CallSteps("range", m, n) = 3 * n + 1
        /\ CallSteps("delete", m, n) = 3 * n + 3
        /\ CallSteps("release", m, n) = 3 * n + 2
    BY CallStepsAt
  <2>3. \A l \in PoolLabels \cup {"idle"} : CallSteps(l, m, n) = 0
    BY CallStepsAt
  <2> QED
    BY <2>1, <2>2, <2>3
<1>2. LoopSteps(at, a, o) \in Nat
  <2>1. SyncSteps(a) \in Nat /\ OuterSteps(o) \in Nat
        /\ SyncSteps(Cardinality(Pods)) \in Nat
    BY OneMore, LoopSets
  <2> QED
    BY <2>1, LoopStepsAt DEF Labelled, PoolLabels
<1> QED
  BY <1>1, <1>2

(* StepsLeft is a natural number, before and after a step.                 *)
LEMMA StepsCounted ==
    ASSUME TypeOK, NEW s \in Procs PROVE StepsLeft(s) \in Nat
<1>1. /\ pc[s] \in Labelled \cup PoolLabels /\ PortsLeft(s) \in Nat
      /\ Cardinality(todo[s]) \in Nat /\ Cardinality(syncTodo) \in Nat
      /\ Cardinality(outer) \in Nat
  BY LoopSizes, LoopSets DEF PortsLeft, TypeOK, FrameTypeOK
<1>2. /\ CallSteps(pc[s], PortsLeft(s), Cardinality(todo[s])) \in Nat
      /\ LoopSteps(pc[s], Cardinality(syncTodo), Cardinality(outer)) \in Nat
  BY <1>1, StepsAreNat
<1> QED
  BY <1>2 DEF StepsLeft

(* The same in the next state.                                             *)
LEMMA StepsCountedNext ==
    ASSUME TypeOK', NEW s \in Procs PROVE StepsLeft(s)' \in Nat
<1>1. /\ pc'[s] \in Labelled \cup PoolLabels /\ PortsLeft(s)' \in Nat
      /\ todo'[s] \subseteq Ranks /\ syncTodo' \subseteq Pods /\ outer' \subseteq Keys
  BY DEF PortsLeft, TypeOK, FrameTypeOK, PoolFrameTypeOK
<1>2. /\ Cardinality(todo'[s]) \in Nat /\ Cardinality(syncTodo') \in Nat
      /\ Cardinality(outer') \in Nat
  BY <1>1, LoopSets, PodsAssumption, FS_Subset, FS_CardinalityType
<1>3. /\ CallSteps(pc'[s], PortsLeft(s)', Cardinality(todo'[s])) \in Nat
      /\ LoopSteps(pc'[s], Cardinality(syncTodo'), Cardinality(outer')) \in Nat
  BY <1>1, <1>2, StepsAreNat
<1> QED
  BY <1>3 DEF StepsLeft

(* Every reconcile is bounded when it starts, and the bound holds: Clear,  *)
(* the resync and the Ranges of PodDelete never visit more than they had   *)
(* before them, whatever is stored or deleted meanwhile.  Under fairness   *)
(* this is why ReconcilesReturn holds.                                     *)
THEOREM ReconcilesStayBounded == Spec => ReconcilesAreBounded
<1>1. Init => PortsInv
  BY DEF Init, PortsInv, Procs
<1>2. PortsInv /\ TypeOK /\ TypeOK' /\ [Next]_vars
        => PortsInv' /\ [\A s \in Procs : Busy(s) =>
                            \/ StepsLeft(s)' \in 0 .. StepsLeft(s) - 1
                            \/ UNCHANGED FrameOf(s)]_vars
  <2> SUFFICES ASSUME PortsInv, TypeOK, TypeOK', [Next]_vars
               PROVE  PortsInv' /\ \A s \in Procs : Busy(s) =>
                            \/ StepsLeft(s)' \in 0 .. StepsLeft(s) - 1
                            \/ UNCHANGED FrameOf(s)
    OBVIOUS
  <2>1. PortsInv'
    BY PortsStep
  <2>2. ASSUME NEW s \in Procs, Busy(s)
        PROVE  \/ StepsLeft(s)' \in 0 .. StepsLeft(s) - 1
               \/ UNCHANGED FrameOf(s)
    <3>1. StepsLeft(s) \in Nat
      BY StepsCounted
    <3>2. StepsLeft(s)' \in Nat
      BY StepsCountedNext
    <3>3. StepsLeft(s)' < StepsLeft(s) \/ UNCHANGED FrameOf(s)
      BY <2>2, BoundedStep
    <3> QED
      BY <3>1, <3>2, <3>3
  <2> QED
    BY <2>1, <2>2
<1> QED
  BY <1>1, <1>2, TypeCorrect, PTL DEF Spec, ReconcilesAreBounded
=============================================================================
