---------------------------- MODULE EppDatastore ----------------------------
(***************************************************************************)
(* The endpoint picker's datastore (pkg/epp/datastore/datastore.go) and    *)
(* the two controllers that fill it, which run concurrently:               *)
(*   "podReconciler"   pkg/controllers/networking/inferencepool/           *)
(*                     pod_reconciler.go, takes no lock;                   *)
(*   "poolReconciler"  inferencepool_reconciler.go, holds store.mu, which  *)
(*                     nobody else takes: with one worker per controller   *)
(*                     the lock never excludes anything and is left out.   *)
(*                                                                         *)
(* The store serves one InferencePool (the runner's cache selects it by    *)
(* name).  An endpoint is one target port (rank) of one pod; its value in  *)
(* the sync.Map is a PodMetrics object, whose metrics loop runs from       *)
(* NewEndpoint until ReleaseEndpoint.  Every access of the sync.Map is a   *)
(* step of its own, because the other controller may run in between.       *)
(***************************************************************************)
EXTENDS Naturals, FiniteSets

CONSTANTS
    Pods,        \* names of pods
    Selectors,   \* values a selector asks for and a pod's labels may carry
    MaxPorts,    \* most target ports of the InferencePool
    Instances,   \* identities of PodMetrics objects, one per NewEndpoint
    MaxEdits,    \* most edits of the cluster by its users
    EditKinds,   \* which kinds of edits and faults the cluster makes
    NoLabel,     \* the labels of a pod that match no selector
    NoObj,       \* "not found" of the API server, nil of a pool pointer
    NoInst       \* an absent entry of the sync.Map

AllEditKinds == {"podReady", "podDelete", "relabel", "poolSelector",
                 "poolPorts", "poolDelete", "listError", "unlabelled"}

ASSUME PortsAssumption == MaxPorts \in Nat \ {0}
ASSUME PodsAssumption == IsFiniteSet(Pods)
ASSUME EditsAssumption == MaxEdits \in Nat /\ EditKinds \subseteq AllEditKinds
ASSUME InstancesAssumption == Instances \subseteq Nat
ASSUME NoneAssumption ==
    /\ NoInst \notin Instances /\ NoInst \notin Pods \X Nat
    /\ NoLabel \notin Selectors
    /\ NoObj \notin Pods

VARIABLES
    podObj,         \* API server and its cache: pods
    inferencePool,  \* API server and its cache: the InferencePool
    edits,          \* edits made so far
    podQueue,       \* work queue of the pod controller
    poolQueue,      \* work queue of the pool controller: is the pool in it
    pools,          \* Datastore.pools: the selector stored for the pool name
    pool,           \* Datastore.pool
    pods,           \* Datastore.pods, by endpoint key
    keyOf,          \* the key a PodMetrics object was created for
    stopped,        \* PodMetrics objects whose done channel is closed
    pc, arg, ports, rank, todo, held,     \* per controller: where it is
    latest, syncTodo, active, outer, ret, \* pool controller only
    overlapped,     \* history: both controllers were busy at once
    strays          \* history: pods an event showed without the pool's name

cluster == <<podObj, inferencePool, edits, strays>>
queues == <<podQueue, poolQueue>>
store == <<pools, pool, pods, keyOf, stopped>>
frame == <<pc, overlapped, arg, ports, rank, todo, held>>
poolFrame == <<latest, syncTodo, active, outer, ret>>
vars == <<cluster, queues, store, frame, poolFrame>>

Procs == {"podReconciler", "poolReconciler"}
Ranks == 0 .. (MaxPorts - 1)
Keys == Pods \X Ranks
Labels == Selectors \cup {NoLabel}
\* The label PoolLabelKey names this pool, or is missing or names another;
\* the labels the selector asks for are others.
PoolNames == {"pool", "none"}
PodObjects == [ready : BOOLEAN, label : Labels, poolName : PoolNames]
EndpointPools == [selector : Selectors, ports : 1 .. MaxPorts]
Busy(self) == pc[self] # "idle"

\* A step of self to label, recording whether both controllers are busy then.
Goto(self, label) ==
    /\ pc' = [pc EXCEPT ![self] = label]
    /\ overlapped' = (overlapped \/ (/\ label # "idle"
                                     /\ \A s \in Procs \ {self} : Busy(s)))

-----------------------------------------------------------------------------
(* The tests the controllers make on a pod. *)

\* Datastore.HasPool
HasPool(name) == name = "pool" /\ pools # NoLabel

\* Datastore.PoolLabelsMatch: against the selector kept in pools for the pool
\* the pod names.
PoolLabelsMatch(obj) == HasPool(obj.poolName) /\ obj.label = pools

\* utils.IsPodReady: a pod marked for deletion counts as not ready.
IsPodReady(obj) == obj.ready

\* The predicate of PodReconciler.SetupWithManager, on the object an event
\* carries: the new one of an update, the last known one of a deletion.
EventFilter(obj) == HasPool(obj.poolName) /\ PoolLabelsMatch(obj)

-----------------------------------------------------------------------------
(* The cluster: users and kubelets edit objects, informers queue events.   *)

PodEvent(p, obj) ==
    /\ podQueue' = IF EventFilter(obj) THEN podQueue \cup {p} ELSE podQueue
    /\ strays' = IF obj.poolName = "pool" THEN strays ELSE strays \cup {p}

EditAllowed == edits < MaxEdits /\ edits' = edits + 1

EnvUnchanged == UNCHANGED <<store, frame, poolFrame>>

CreatePod(p) ==
    /\ EditAllowed
    /\ podObj[p] = NoObj
    /\ \E obj \in PodObjects :
          /\ obj.poolName # "pool" => "unlabelled" \in EditKinds
          /\ podObj' = [podObj EXCEPT ![p] = obj]
          /\ PodEvent(p, obj)
    /\ UNCHANGED <<inferencePool, poolQueue>> /\ EnvUnchanged

ChangePod(p) ==
    /\ EditAllowed
    /\ podObj[p] # NoObj
    /\ \E obj \in PodObjects :
          /\ obj # podObj[p]
          /\ obj.ready # podObj[p].ready => "podReady" \in EditKinds
          /\ obj.label # podObj[p].label => "relabel" \in EditKinds
          /\ obj.poolName # podObj[p].poolName =>
                {"relabel", "unlabelled"} \subseteq EditKinds
          /\ podObj' = [podObj EXCEPT ![p] = obj]
          /\ PodEvent(p, obj)
    /\ UNCHANGED <<inferencePool, poolQueue>> /\ EnvUnchanged

DeletePod(p) ==
    /\ EditAllowed
    /\ "podDelete" \in EditKinds
    /\ podObj[p] # NoObj
    /\ podObj' = [podObj EXCEPT ![p] = NoObj]
    /\ PodEvent(p, podObj[p])
    /\ UNCHANGED <<inferencePool, poolQueue>> /\ EnvUnchanged

EditPool ==
    /\ EditAllowed
    /\ \E obj \in EndpointPools :
          /\ obj # inferencePool
          /\ inferencePool # NoObj =>
                /\ obj.selector # inferencePool.selector
                      => "poolSelector" \in EditKinds
                /\ obj.ports # inferencePool.ports => "poolPorts" \in EditKinds
          /\ inferencePool' = obj
    /\ poolQueue' = TRUE
    /\ UNCHANGED <<podObj, strays, podQueue>> /\ EnvUnchanged

DeletePool ==
    /\ EditAllowed
    /\ "poolDelete" \in EditKinds
    /\ inferencePool # NoObj
    /\ inferencePool' = NoObj
    /\ poolQueue' = TRUE
    /\ UNCHANGED <<podObj, strays, podQueue>> /\ EnvUnchanged

-----------------------------------------------------------------------------
(* Datastore.PodUpdateOrAddIfNotExist(arg), called by both controllers.    *)

AddReturn(self) == IF self = "podReconciler" THEN "idle" ELSE "sync"

\* store.pool.TargetPorts is read once, without the lock.
AddBegin(self) ==
    /\ pc[self] = "add"
    /\ pool # NoObj
    /\ ports' = [ports EXCEPT ![self] = pool.ports]
    /\ rank' = [rank EXCEPT ![self] = 0]
    /\ Goto(self, "load")
    /\ UNCHANGED <<cluster, queues, store, arg, todo, held, poolFrame>>

\* store.pool is nil: the dereference panics, controller-runtime recovers and
\* queues the pod again.
AddPanic ==
    /\ pc["podReconciler"] = "add"
    /\ pool = NoObj
    /\ podQueue' = podQueue \cup {arg["podReconciler"]}
    /\ Goto("podReconciler", "idle")
    /\ UNCHANGED <<cluster, poolQueue, store, arg, ports, rank, todo, held,
                   poolFrame>>

\* pods.Load of the next rank; an existing entry only gets new metadata.
AddLoad(self) ==
    /\ pc[self] = "load"
    /\ rank[self] < ports[self]
    /\ IF pods[<<arg[self], rank[self]>>] = NoInst
       THEN /\ Goto(self, "store")
            /\ UNCHANGED rank
       ELSE /\ rank' = [rank EXCEPT ![self] = @ + 1]
            /\ UNCHANGED <<pc, overlapped>>
    /\ UNCHANGED <<cluster, queues, store, arg, ports, todo, held, poolFrame>>

\* Identities are given out in order; they mean nothing else.
Fresh(i) ==
    /\ keyOf[i] = NoInst
    /\ \A j \in Instances : j < i => keyOf[j] # NoInst

\* Faulty: what was stored is loaded again before the next rank.
AddStoreAndLook(self) ==
    LET k == <<arg[self], rank[self]>> IN
    /\ pc[self] = "store"
    /\ \E i \in Instances :
          /\ Fresh(i)
          /\ keyOf' = [keyOf EXCEPT ![i] = k]
          /\ pods' = [pods EXCEPT ![k] = i]
    /\ Goto(self, "load")
    /\ UNCHANGED <<cluster, queues, pools, pool, stopped, arg, ports, rank, todo,
                   held, poolFrame>>

\* NewEndpoint starts the metrics loop of a new object, pods.Store publishes
\* it under the key the earlier Load found absent.
AddStore(self) ==
    LET k == <<arg[self], rank[self]>> IN
    /\ pc[self] = "store"
    /\ \E i \in Instances :
          /\ Fresh(i)
          /\ keyOf' = [keyOf EXCEPT ![i] = k]
          /\ pods' = [pods EXCEPT ![k] = i]
    /\ rank' = [rank EXCEPT ![self] = @ + 1]
    /\ Goto(self, "load")
    /\ UNCHANGED <<cluster, queues, pools, pool, stopped, arg, ports, todo,
                   held, poolFrame>>

AddEnd(self) ==
    /\ pc[self] = "load"
    /\ rank[self] >= ports[self]
    /\ Goto(self, AddReturn(self))
    /\ UNCHANGED <<cluster, queues, store, arg, ports, rank, todo, held,
                   poolFrame>>

-----------------------------------------------------------------------------
(* Datastore.PodDelete(arg): Range over the map; entries of other pods are *)
(* passed over, so only the ranks of the pod are visited.  Range is no     *)
(* snapshot: it reads an entry when it gets there.                         *)

\* Faulty: an absent entry is visited over and over.
DeleteVisitAgain(self) ==
    /\ pc[self] = "range"
    /\ \E r \in todo[self] :
          IF pods[<<arg[self], r>>] = NoInst
          THEN UNCHANGED <<pc, overlapped, rank, held, todo>>
          ELSE /\ todo' = [todo EXCEPT ![self] = @ \ {r}]
               /\ held' = [held EXCEPT ![self] = pods[<<arg[self], r>>]]
               /\ rank' = [rank EXCEPT ![self] = r]
               /\ Goto(self, "delete")
    /\ UNCHANGED <<cluster, queues, store, arg, ports, poolFrame>>

DeleteVisit(self) ==
    /\ pc[self] = "range"
    /\ \E r \in todo[self] :
          /\ todo' = [todo EXCEPT ![self] = @ \ {r}]
          /\ IF pods[<<arg[self], r>>] = NoInst
             THEN UNCHANGED <<pc, overlapped, rank, held>>
             ELSE /\ held' = [held EXCEPT ![self] = pods[<<arg[self], r>>]]
                  /\ rank' = [rank EXCEPT ![self] = r]
                  /\ Goto(self, "delete")
    /\ UNCHANGED <<cluster, queues, store, arg, ports, poolFrame>>

\* Faulty: the entry stays in the map although its object is released.
DeleteEntryForgotten(self) ==
    /\ pc[self] = "delete"
    /\ Goto(self, "release")
    /\ UNCHANGED <<cluster, queues, store, arg, ports, rank, todo, held,
                   poolFrame>>

\* pods.Delete(key) removes whatever the key maps to by now.
DeleteEntry(self) ==
    /\ pc[self] = "delete"
    /\ pods' = [pods EXCEPT ![<<arg[self], rank[self]>>] = NoInst]
    /\ Goto(self, "release")
    /\ UNCHANGED <<cluster, queues, pools, pool, keyOf, stopped, arg, ports,
                   rank, todo, held, poolFrame>>

\* ReleaseEndpoint of the object the visit saw; stopOnce makes it idempotent.
DeleteRelease(self) ==
    /\ pc[self] = "release"
    /\ stopped' = stopped \cup {held[self]}
    /\ held' = [held EXCEPT ![self] = NoInst]
    /\ Goto(self, "range")
    /\ UNCHANGED <<cluster, queues, pools, pool, pods, keyOf, arg, ports, rank,
                   todo, poolFrame>>

DeleteEnd(self) ==
    /\ pc[self] = "range"
    /\ todo[self] = {}
    /\ Goto(self, IF self = "podReconciler" THEN "idle" ELSE ret)
    /\ UNCHANGED <<cluster, queues, store, arg, ports, rank, todo, held,
                   poolFrame>>

-----------------------------------------------------------------------------
(* PodReconciler.Reconcile *)

PodReconcile ==
    /\ pc["podReconciler"] = "idle"
    /\ \E p \in podQueue :
          /\ podQueue' = podQueue \ {p}
          /\ arg' = [arg EXCEPT !["podReconciler"] = p]
          /\ IF podObj[p] = NoObj \/ ~ IsPodReady(podObj[p])
                \/ ~ PoolLabelsMatch(podObj[p])
             THEN /\ Goto("podReconciler", "range")
                  /\ todo' = [todo EXCEPT !["podReconciler"] = Ranks]
             ELSE /\ Goto("podReconciler", "add")
                  /\ UNCHANGED todo
    /\ UNCHANGED <<cluster, poolQueue, store, ports, rank, held, poolFrame>>

-----------------------------------------------------------------------------
(* InferencePoolReconciler.Reconcile, Datastore.StartPodMetricsLoop, Clear *)

PoolGoto(label) == Goto("poolReconciler", label)

\* The pool is gone: Clear() drops store.pool and ranges over the map.
PoolReconcileGone ==
    /\ pc["poolReconciler"] = "idle"
    /\ poolQueue /\ poolQueue' = FALSE
    /\ inferencePool = NoObj
    /\ pool' = NoObj
    /\ outer' = Keys
    /\ PoolGoto("clear")
    /\ UNCHANGED <<cluster, podQueue, pools, pods, keyOf, stopped, arg, ports,
                   rank, todo, held, latest, syncTodo, active, ret>>

\* Faulty: the "not found" answer of the API server is not looked at.
PoolReconcileUnchecked ==
    /\ pc["poolReconciler"] = "idle"
    /\ poolQueue /\ poolQueue' = FALSE
    /\ latest' = inferencePool
    /\ PoolGoto("start")
    /\ UNCHANGED <<cluster, podQueue, store, arg, ports, rank, todo, held,
                   syncTodo, active, outer, ret>>

PoolReconcile ==
    /\ pc["poolReconciler"] = "idle"
    /\ poolQueue /\ poolQueue' = FALSE
    /\ inferencePool # NoObj
    /\ latest' = inferencePool
    /\ PoolGoto("start")
    /\ UNCHANGED <<cluster, podQueue, store, arg, ports, rank, todo, held,
                   syncTodo, active, outer, ret>>

\* The pools entry is stored for a new pool name only, never refreshed.
StartStorePools ==
    /\ pc["poolReconciler"] = "start"
    /\ pools' = IF HasPool("pool") THEN pools ELSE latest.selector
    /\ PoolGoto("swap")
    /\ UNCHANGED <<cluster, queues, pool, pods, keyOf, stopped, arg, ports,
                   rank, todo, held, poolFrame>>

\* The current pool is replaced; only a first pool or a new selector is
\* followed by a resync of the pods.
StartSwapPool ==
    /\ pc["poolReconciler"] = "swap"
    /\ pool' = latest
    /\ PoolGoto(IF pool = NoObj \/ pool.selector # latest.selector
                THEN "list" ELSE "idle")
    /\ UNCHANGED <<cluster, queues, pools, pods, keyOf, stopped, arg, ports,
                   rank, todo, held, poolFrame>>

\* Faulty: the resync also adds pods that are not ready.
ListPodsUnready ==
    LET listed == {p \in Pods : /\ podObj[p] # NoObj
                                /\ podObj[p].label = pool.selector} IN
    /\ pc["poolReconciler"] = "list"
    /\ syncTodo' = listed
    /\ active' = listed
    /\ PoolGoto("sync")
    /\ UNCHANGED <<cluster, queues, store, arg, ports, rank, todo, held,
                   latest, outer, ret>>

ListPods ==
    LET ready == {p \in Pods : /\ podObj[p] # NoObj
                               /\ podObj[p].label = pool.selector
                               /\ IsPodReady(podObj[p])} IN
    /\ pc["poolReconciler"] = "list"
    /\ syncTodo' = ready
    /\ active' = ready
    /\ PoolGoto("sync")
    /\ UNCHANGED <<cluster, queues, store, arg, ports, rank, todo, held,
                   latest, outer, ret>>

\* The List fails: the error reaches controller-runtime, which retries.
ListPodsFails ==
    /\ pc["poolReconciler"] = "list"
    /\ "listError" \in EditKinds
    /\ EditAllowed
    /\ poolQueue' = TRUE
    /\ PoolGoto("idle")
    /\ UNCHANGED <<podObj, inferencePool, strays, podQueue, store, arg, ports,
                   rank, todo, held, poolFrame>>

SyncNext ==
    /\ pc["poolReconciler"] = "sync"
    /\ \E p \in syncTodo :
          /\ syncTodo' = syncTodo \ {p}
          /\ arg' = [arg EXCEPT !["poolReconciler"] = p]
    /\ PoolGoto("add")
    /\ UNCHANGED <<cluster, queues, store, ports, rank, todo, held, latest,
                   active, outer, ret>>

SyncEnd ==
    /\ pc["poolReconciler"] = "sync"
    /\ syncTodo = {}
    /\ outer' = Keys
    /\ PoolGoto("prune")
    /\ UNCHANGED <<cluster, queues, store, arg, ports, rank, todo, held,
                   latest, syncTodo, active, ret>>

\* One entry of an outer Range, at label: PodDelete for its pod, if drop.
OuterVisit(label, k, drop) ==
    /\ pc["poolReconciler"] = label
    /\ outer' = outer \ {k}
    /\ IF pods[k] # NoInst /\ drop
       THEN /\ arg' = [arg EXCEPT !["poolReconciler"] = k[1]]
            /\ todo' = [todo EXCEPT !["poolReconciler"] = Ranks]
            /\ ret' = label
            /\ PoolGoto("range")
       ELSE UNCHANGED <<pc, overlapped, arg, todo, ret>>
    /\ UNCHANGED <<cluster, queues, store, ports, rank, held, latest,
                   syncTodo, active>>

PruneVisit == \E k \in outer : OuterVisit("prune", k, k[1] \notin active)

PruneEnd ==
    /\ pc["poolReconciler"] = "prune"
    /\ outer = {}
    /\ PoolGoto("idle")
    /\ UNCHANGED <<cluster, queues, store, arg, ports, rank, todo, held,
                   poolFrame>>

\* Faulty: Clear drops the entries without PodDelete.
ClearVisitOnly == \E k \in outer : OuterVisit("clear", k, FALSE)

ClearVisit == \E k \in outer : OuterVisit("clear", k, TRUE)

\* pods.Clear()
ClearMap ==
    /\ pc["poolReconciler"] = "clear"
    /\ outer = {}
    /\ pods' = [k \in Keys |-> NoInst]
    /\ PoolGoto("idle")
    /\ UNCHANGED <<cluster, queues, pools, pool, keyOf, stopped, arg, ports,
                   rank, todo, held, poolFrame>>

-----------------------------------------------------------------------------

Init ==
    /\ podObj = [p \in Pods |-> NoObj]
    /\ inferencePool = NoObj
    /\ edits = 0
    /\ podQueue = {} /\ poolQueue = FALSE
    /\ pools = NoLabel /\ pool = NoObj
    /\ pods = [k \in Keys |-> NoInst]
    /\ keyOf = [i \in Instances |-> NoInst]
    /\ stopped = {}
    /\ pc = [s \in Procs |-> "idle"]
    /\ arg = [s \in Procs |-> NoObj]
    /\ ports = [s \in Procs |-> 0]
    /\ rank = [s \in Procs |-> 0]
    /\ todo = [s \in Procs |-> {}]
    /\ held = [s \in Procs |-> NoInst]
    /\ latest = NoObj /\ syncTodo = {} /\ active = {} /\ outer = {}
    /\ ret = "prune"
    /\ overlapped = FALSE /\ strays = {}

Environment ==
    \/ \E p \in Pods : CreatePod(p) \/ ChangePod(p) \/ DeletePod(p)
    \/ EditPool
    \/ DeletePool

DatastoreOp(self) ==
    \/ AddBegin(self) \/ AddLoad(self) \/ AddStore(self) \/ AddEnd(self)
    \/ DeleteVisit(self) \/ DeleteEntry(self) \/ DeleteRelease(self)
    \/ DeleteEnd(self)

PodController == PodReconcile \/ AddPanic \/ DatastoreOp("podReconciler")

PoolController ==
    \/ PoolReconcile \/ PoolReconcileGone
    \/ StartStorePools \/ StartSwapPool
    \/ ListPods \/ ListPodsFails \/ SyncNext \/ SyncEnd
    \/ PruneVisit \/ PruneEnd \/ ClearVisit \/ ClearMap
    \/ DatastoreOp("poolReconciler")

Next == Environment \/ PodController \/ PoolController

Spec == Init /\ [][Next]_vars

\* Each controller is a goroutine that keeps running; the environment is free.
FairSpec ==
    Spec /\ WF_vars(PodController) /\ WF_vars(PoolController)

-----------------------------------------------------------------------------
(* Type correctness of the datastore, the queues and both call frames.     *)
Labelled == {"idle", "add", "load", "store", "range", "delete", "release"}
PoolLabels == {"start", "swap", "list", "sync", "prune", "clear"}

ClusterTypeOK ==
    /\ podObj \in [Pods -> PodObjects \cup {NoObj}]
    /\ inferencePool \in EndpointPools \cup {NoObj}
    /\ edits \in 0 .. MaxEdits
    /\ strays \subseteq Pods
    /\ podQueue \subseteq Pods
    /\ poolQueue \in BOOLEAN

StoreTypeOK ==
    /\ pools \in Labels
    /\ pool \in EndpointPools \cup {NoObj}
    /\ pods \in [Keys -> Instances \cup {NoInst}]
    /\ keyOf \in [Instances -> Keys \cup {NoInst}]
    /\ stopped \subseteq Instances

FrameTypeOK ==
    /\ pc \in [Procs -> Labelled \cup PoolLabels]
    /\ pc["podReconciler"] \in Labelled
    /\ arg \in [Procs -> Pods \cup {NoObj}]
    /\ ports \in [Procs -> 0 .. MaxPorts]
    /\ rank \in [Procs -> 0 .. MaxPorts]
    /\ todo \in [Procs -> SUBSET Ranks]
    /\ held \in [Procs -> Instances \cup {NoInst}]
    /\ \A s \in Procs :
          /\ pc[s] \in Labelled \ {"idle"} => arg[s] \in Pods
          /\ pc[s] \in {"store", "delete", "release"} => rank[s] \in Ranks
          /\ pc[s] \in {"delete", "release"} => held[s] \in Instances

PoolFrameTypeOK ==
    /\ latest \in EndpointPools \cup {NoObj}
    /\ pc["poolReconciler"] \in {"start", "swap"} => latest # NoObj
    /\ syncTodo \subseteq Pods
    /\ active \subseteq Pods
    /\ outer \subseteq Keys
    /\ ret \in {"prune", "clear"}

TypeOK ==
    /\ ClusterTypeOK
    /\ StoreTypeOK
    /\ FrameTypeOK
    /\ PoolFrameTypeOK
    /\ overlapped \in BOOLEAN

(* The scheduler reads the map at any time.  Whatever the two controllers  *)
(* do to each other, an endpoint it can see has a metrics loop that has    *)
(* not been stopped: PodDelete removes the entry before it releases the    *)
(* object, and an object is stored only once.                              *)
ServedEndpointsAreLive ==
    \A k \in Keys : pods[k] # NoInst => pods[k] \notin stopped

(* A metrics loop that still runs, that no map entry leads to any more and *)
(* that no PodDelete is about to stop: nothing can ever stop it.           *)
Orphan(i) ==
    /\ keyOf[i] # NoInst
    /\ i \notin stopped
    /\ pods[keyOf[i]] # i
    /\ \A s \in Procs : held[s] # i

(* As long as the two controllers were never busy at the same time, adds,  *)
(* resyncs, PodDelete and Clear together stop every loop they drop from    *)
(* the map.                                                                *)
NoLeakWithoutOverlap == ~ overlapped => \A i \in Instances : ~ Orphan(i)

Quiet == ~ poolQueue /\ podQueue = {} /\ \A s \in Procs : ~ Busy(s)

Wanted(p) ==
    /\ podObj[p] # NoObj
    /\ IsPodReady(podObj[p])
    /\ inferencePool # NoObj
    /\ podObj[p].label = inferencePool.selector

(* Event filter, work queue, resync and reconcile together lose no pod:    *)
(* when nothing is left to do, and the controllers never overlapped, the   *)
(* map holds exactly one endpoint for each target port of each ready pod   *)
(* the pool selects.  A pod that was ever seen without the pool's name is  *)
(* excepted: the resync lists it by the selector alone, while its events   *)
(* are dropped by the filter.  It may come and go without touching what    *)
(* the store has of the others.                                            *)
QuietStoreMatchesCluster ==
    Quiet /\ ~ overlapped =>
        \A p \in Pods \ strays, r \in Ranks :
            (pods[<<p, r>>] # NoInst)
                <=> (Wanted(p) /\ r < inferencePool.ports)

(* Every reconcile returns, also when the other controller adds entries    *)
(* while a Range is under way.                                             *)
ReconcilesReturn == \A s \in Procs : Busy(s) ~> ~ Busy(s)

(* How many steps a controller may still take until its reconcile returns: *)
(* two for each target port of a pod that is added, three for each entry   *)
(* of a pod that is deleted, and in the pool controller one such call per  *)
(* listed pod, then one per entry of the map.                              *)
AddSteps(n) == 2 * n + 1
DeleteSteps(n) == 3 * n + 1

CallSteps(at, portsLeft, entriesLeft) ==
    CASE at = "add" -> AddSteps(MaxPorts) + 1
      [] at = "load" -> AddSteps(portsLeft)
      [] at = "store" -> AddSteps(portsLeft) - 1
      [] at = "range" -> DeleteSteps(entriesLeft)
      [] at = "delete" -> DeleteSteps(entriesLeft) + 2
      [] at = "release" -> DeleteSteps(entriesLeft) + 1
      [] OTHER -> 0

OuterSteps(n) == n * (DeleteSteps(MaxPorts) + 1) + 1
SyncSteps(n) == n * (AddSteps(MaxPorts) + 2) + 1 + OuterSteps(Cardinality(Keys))

LoopSteps(at, podsLeft, entriesLeft) ==
    CASE at = "start" -> SyncSteps(Cardinality(Pods)) + 3
      [] at = "swap" -> SyncSteps(Cardinality(Pods)) + 2
      [] at = "list" -> SyncSteps(Cardinality(Pods)) + 1
      [] at \in {"sync", "add", "load", "store"} -> SyncSteps(podsLeft)
      [] at \in {"prune", "clear", "range", "delete", "release"} ->
            OuterSteps(entriesLeft)
      [] OTHER -> 0

PortsLeft(s) == IF rank[s] < ports[s] THEN ports[s] - rank[s] ELSE 0

StepsLeft(s) ==
    CallSteps(pc[s], PortsLeft(s), Cardinality(todo[s]))
    + (IF s = "poolReconciler"
       THEN LoopSteps(pc[s], Cardinality(syncTodo), Cardinality(outer)) ELSE 0)

FrameOf(s) ==
    <<pc[s], arg[s], ports[s], rank[s], todo[s], held[s],
      IF s = "poolReconciler" THEN poolFrame ELSE <<>> >>

(* No loop of a reconcile is lengthened from outside: whatever the other   *)
(* controller stores or deletes while a Range, an add or a resync is under *)
(* way, each step of a busy controller brings its return nearer, and no    *)
(* step of anybody else touches its frame.                                 *)
ReconcilesAreBounded ==
    [][\A s \in Procs : Busy(s) =>
          \/ StepsLeft(s)' \in 0 .. StepsLeft(s) - 1
          \/ UNCHANGED FrameOf(s)]_vars

-----------------------------------------------------------------------------
(* The inductive invariants behind the bound and the object properties.    *)

(* A Store follows the Load of a rank that is one of the ports read.       *)
PortsInv == \A s \in Procs : pc[s] = "store" => rank[s] < ports[s]

(* A pod that does not name the pool now is recorded as one.               *)
StrayInv ==
    \A p \in Pods : podObj[p] # NoObj /\ podObj[p].poolName # "pool" =>
        p \in strays

KeyAt(s) == <<arg[s], rank[s]>>

(* An object is only ever in the map under the key it was made for, and    *)
(* once PodDelete holds it for release it cannot come back: what another   *)
(* controller stores there meanwhile is a new object.                      *)
ObjectInv ==
    /\ \A k \in Keys : pods[k] # NoInst =>
          keyOf[pods[k]] = k /\ pods[k] \notin stopped
    /\ \A i \in stopped : keyOf[i] # NoInst
    /\ \A s \in Procs : pc[s] \in {"delete", "release"} =>
          keyOf[held[s]] = KeyAt(s)
    /\ \A s \in Procs : pc[s] = "release" => pods[KeyAt(s)] # held[s]

(* While the controllers take turns, what a Load or a Range saw is still   *)
(* true when it is acted upon, and Clear's Range leaves nothing behind.    *)
OneBusy == \E s \in Procs : ~ Busy(s)

LoopsReachable ==
    \A i \in Instances : keyOf[i] # NoInst /\ i \notin stopped =>
        \/ pods[keyOf[i]] = i
        \/ \E s \in Procs : pc[s] = "release" /\ held[s] = i

SeenIsCurrent ==
    \A s \in Procs :
        /\ pc[s] = "store" => pods[KeyAt(s)] = NoInst
        /\ pc[s] = "delete" => pods[KeyAt(s)] = held[s]

ClearLeavesNothing ==
    /\ pc["poolReconciler"] = "clear" =>
          \A k \in Keys \ outer : pods[k] = NoInst
    /\ pc["poolReconciler"] \in {"range", "delete", "release"} /\ ret = "clear" =>
          \A k \in Keys \ outer : pods[k] # NoInst =>
              /\ k[1] = arg["poolReconciler"]
              /\ \/ k[2] \in todo["poolReconciler"]
                 \/ /\ pc["poolReconciler"] = "delete"
                    /\ k[2] = rank["poolReconciler"]

SerialInv ==
    ~ overlapped =>
        /\ OneBusy
        /\ LoopsReachable
        /\ SeenIsCurrent
        /\ ClearLeavesNothing

-----------------------------------------------------------------------------
(* What comments in the code say and the code does not do.                 *)

(* pod_reconciler.go:70: a deleted pod is deleted from the datastore.      *)
DeletedPodLeavesStore ==
    Quiet => \A p \in Pods, r \in Ranks :
                podObj[p] = NoObj => pods[<<p, r>>] = NoInst

(* pod_reconciler.go:35 and datastore.go:140: the ready pods the pool's    *)
(* selector asks for are the ones in the store.                            *)
SelectedPodsAreServed ==
    Quiet /\ ~ overlapped =>
        \A p \in Pods : Wanted(p) => pods[<<p, 0>>] # NoInst
=============================================================================
