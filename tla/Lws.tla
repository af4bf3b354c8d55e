---------------------------------- MODULE Lws ----------------------------------
(***************************************************************************)
(* The leader-worker-set controllers (pkg/controllers/workloads/lws) for   *)
(* one LeaderWorkerSet.  The leader controller keeps ControllerRevisions   *)
(* and the leader StatefulSet, whose pods are the leaders; the worker      *)
(* controller creates, for each leader pod, a worker StatefulSet of the    *)
(* same name from the revision the leader's label names.                   *)
(*                                                                         *)
(* Both read pods, worker sets and revisions from informer caches that lag *)
(* behind the API server.  The StatefulSet controller, the kubelets and    *)
(* the garbage collector run beside them.                                  *)
(*                                                                         *)
(* A version stands for what a revision records of the LeaderWorkerSet:    *)
(* leaderWorkerTemplate (with the size) and networkConfig.                 *)
(***************************************************************************)
EXTENDS Naturals, FiniteSets

CONSTANTS
    Pods,       \* names of leader pods
    Versions,   \* versions of the LeaderWorkerSet
    Created,    \* the version it is created with
    SizeOf,     \* pods of a group, by version
    Keys,       \* values of the revision label
    Hash,       \* HashRevision, by version
    MaxEdits,   \* most edits of the LeaderWorkerSet
    MaxFaults,  \* most evictions, touches of the leader set, failed applies
    NoKey,      \* the empty string
    Absent      \* "not found"

ASSUME VersionsAssumption ==
    /\ Created \in Versions
    /\ SizeOf \in [Versions -> Nat \ {0}] /\ Hash \in [Versions -> Keys]
ASSUME BoundsAssumption == MaxEdits \in Nat /\ MaxFaults \in Nat
ASSUME NoneAssumption == NoKey \notin Keys /\ Absent \notin Versions

VARIABLES
    indexed,        \* the manager has the index .metadata.controller
    lws,            \* the LeaderWorkerSet: its version
    leaderSts,      \* the leader StatefulSet
    revisions,      \* ControllerRevisions
    pod,            \* leader pods, by name
    worker,         \* worker StatefulSets, by name
    uids,           \* leader pods created so far
    edits, faults,  \* so far
    seenRevisions, seenPod, seenWorker,   \* the informer caches
    leaderQueue, workerQueue,             \* work queues
    leaderCall, workerCall                \* a Reconcile between read and write

api == <<lws, leaderSts, revisions, pod, worker, uids, edits, faults>>
caches == <<seenRevisions, seenPod, seenWorker>>
queues == <<leaderQueue, workerQueue>>
calls == <<leaderCall, workerCall>>
state == <<api, caches, queues, calls>>
vars == <<indexed, state>>

Labels == Keys \cup {NoKey}
LeaderSets == [key : Labels, version : Versions, deleting : BOOLEAN]
LeaderPods == [uid : Nat, key : Labels, version : Versions, deleting : BOOLEAN]
WorkerSets == [owner : Nat, key : Keys, version : Versions, replicas : Nat \ {0}]
Revisions == [number : Nat \ {0}, version : Versions, key : Keys]

ASSUME AbsentAssumption ==
    Absent \notin WorkerSets /\ Absent \notin [name : Pods, set : WorkerSets]

-----------------------------------------------------------------------------
(* revision.go                                                             *)

\* Names are made of hash and number.
NameTaken(r, set) ==
    \E s \in set : s.number = r.number /\ Hash[s.version] = Hash[r.version]

\* Equal numbers are told apart by the order of the list only.
getHighestRevision(set) ==
    {r \in set : \A s \in set : s.number <= r.number}

NewRevision(version, key) ==
    [number |-> IF seenRevisions = {} THEN 1
                ELSE (CHOOSE r \in getHighestRevision(seenRevisions) : TRUE).number + 1,
     version |-> version,
     key |-> IF key = NoKey THEN Hash[version] ELSE key]

\* The candidates for the revision of a key, none for the empty key.
GetRevision(key) ==
    getHighestRevision({r \in seenRevisions : key # NoKey /\ r.key = key})

Create(r, set) == IF NameTaken(r, set) THEN set ELSE set \cup {r}

-----------------------------------------------------------------------------
(* LeaderWorkerSetReconciler.Reconcile                                     *)

Fault == faults < MaxFaults /\ faults' = faults + 1

LeaderTakes == leaderCall = Absent /\ leaderQueue

\* Listing the StatefulSets of the LeaderWorkerSet needs an index that nothing
\* in the repository registers; without it every request ends here, in an
\* error and a retry.
LeaderListFails ==
    /\ LeaderTakes
    /\ lws # Absent /\ ~ indexed
    /\ UNCHANGED vars

\* Nothing to do: no LeaderWorkerSet, or no StatefulSet it controls.
LeaderSkips ==
    /\ LeaderTakes
    /\ lws # Absent => indexed /\ leaderSts = Absent
    /\ leaderQueue' = FALSE
    /\ UNCHANGED <<api, caches, workerQueue, calls>>

\* A leader set that is being deleted is looked at again later.
LeaderWaits ==
    /\ LeaderTakes
    /\ lws # Absent /\ indexed /\ leaderSts # Absent
    /\ leaderSts.deleting
    /\ UNCHANGED vars

LeaderActs ==
    /\ LeaderTakes
    /\ lws # Absent /\ indexed /\ leaderSts # Absent
    /\ ~ leaderSts.deleting

\* The revision of the leader set's key is found; another one of the current
\* version is created every time, since the comparison is one of pointers.
LeaderFinds ==
    /\ LeaderActs
    /\ \E r \in GetRevision(leaderSts.key) :
          leaderCall' = [key |-> r.key, version |-> lws]
    /\ revisions' = Create(NewRevision(lws, NoKey), revisions)
    /\ leaderQueue' = FALSE
    /\ UNCHANGED <<lws, leaderSts, pod, worker, uids, edits, faults, caches,
                   workerQueue, workerCall>>

\* Faulty: the revision is not created before the leader set refers to it.
LeaderCreatesNothing ==
    LET new == NewRevision(lws, leaderSts.key) IN
    /\ LeaderActs
    /\ GetRevision(leaderSts.key) = {}
    /\ leaderCall' = [key |-> new.key, version |-> lws]
    /\ leaderQueue' = FALSE
    /\ UNCHANGED <<api, caches, workerQueue, workerCall>>

\* No revision is found: one is created under the key, with the current version.
LeaderCreates ==
    LET new == NewRevision(lws, leaderSts.key) IN
    /\ LeaderActs
    /\ GetRevision(leaderSts.key) = {}
    /\ ~ NameTaken(new, revisions)
    /\ revisions' = Create(NewRevision(lws, NoKey), revisions \cup {new})
    /\ leaderCall' = [key |-> new.key, version |-> lws]
    /\ leaderQueue' = FALSE
    /\ UNCHANGED <<lws, leaderSts, pod, worker, uids, edits, faults, caches,
                   workerQueue, workerCall>>

\* "Already exists" is an error, after which the request is retried.
LeaderCreateFails ==
    /\ LeaderActs
    /\ GetRevision(leaderSts.key) = {}
    /\ NameTaken(NewRevision(lws, leaderSts.key), revisions)
    /\ UNCHANGED vars

\* Server-side apply: the key found above with the version read above.  A
\* change is an event for the controller itself.
LeaderApplies ==
    /\ leaderCall # Absent
    /\ leaderSts' = [key |-> leaderCall.key, version |-> leaderCall.version,
                     deleting |-> leaderSts # Absent /\ leaderSts.deleting]
    /\ leaderQueue' = (leaderQueue \/ leaderSts' # leaderSts)
    /\ leaderCall' = Absent
    /\ UNCHANGED <<lws, revisions, pod, worker, uids, edits, faults, caches,
                   workerQueue, workerCall>>

\* The error of the apply is dropped: Reconcile reports success.
LeaderApplyFails ==
    /\ leaderCall # Absent
    /\ Fault
    /\ leaderCall' = Absent
    /\ UNCHANGED <<lws, leaderSts, revisions, pod, worker, uids, edits, caches,
                   queues, workerCall>>

-----------------------------------------------------------------------------
(* WorkerStatefulSetReconciler.Reconcile                                   *)

WorkerTakes(p) == workerCall = Absent /\ p \in workerQueue

\* Faulty: a group of one pod gets a worker set, too.
NeedsWorkersUnchecked(p) ==
    /\ seenPod[p] # Absent
    /\ ~ seenPod[p].deleting
    /\ lws # Absent

\* The early returns: no pod, a pod that goes, no LeaderWorkerSet, no workers.
NeedsWorkers(p) ==
    /\ seenPod[p] # Absent
    /\ ~ seenPod[p].deleting
    /\ lws # Absent
    /\ SizeOf[lws] # 1

WorkerSkips(p) ==
    /\ WorkerTakes(p)
    /\ ~ NeedsWorkers(p)
    /\ workerQueue' = workerQueue \ {p}
    /\ UNCHANGED <<api, caches, leaderQueue, calls>>

\* The revision is not there yet: RequeueAfter.
WorkerWaits(p) ==
    /\ WorkerTakes(p)
    /\ NeedsWorkers(p)
    /\ GetRevision(seenPod[p].key) = {}
    /\ UNCHANGED vars

\* Faulty: the worker set is built from the latest version.
constructLatestWorkerSet(leader, r) ==
    [owner |-> leader.uid, key |-> leader.key, version |-> lws,
     replicas |-> SizeOf[lws] - 1]

\* ApplyRevision gives the template of the revision; the number of replicas
\* comes from the latest LeaderWorkerSet.
constructWorkerStatefulSet(leader, r) ==
    [owner |-> leader.uid, key |-> leader.key, version |-> r.version,
     replicas |-> SizeOf[lws] - 1]

\* Get-or-Create, up to the Get: a set of that name is left as it is.
WorkerReads(p) ==
    /\ WorkerTakes(p)
    /\ NeedsWorkers(p)
    /\ workerQueue' = workerQueue \ {p}
    /\ \E r \in GetRevision(seenPod[p].key) :
          workerCall' =
              IF seenWorker[p] # Absent THEN Absent
              ELSE [name |-> p, set |-> constructWorkerStatefulSet(seenPod[p], r)]
    /\ UNCHANGED <<api, caches, leaderQueue, leaderCall>>

\* Faulty: "already exists" is taken for success.
WorkerCreatesOnce ==
    /\ workerCall # Absent
    /\ workerCall' = Absent
    /\ LET p == workerCall.name IN
       worker' = IF worker[p] = Absent
                 THEN [worker EXCEPT ![p] = workerCall.set] ELSE worker
    /\ UNCHANGED <<lws, leaderSts, revisions, pod, uids, edits, faults, caches,
                   queues, leaderCall>>

\* The Create; "already exists" is an error and the request is retried.
WorkerCreates ==
    /\ workerCall # Absent
    /\ workerCall' = Absent
    /\ LET p == workerCall.name IN
       IF worker[p] = Absent
       THEN /\ worker' = [worker EXCEPT ![p] = workerCall.set]
            /\ UNCHANGED workerQueue
       ELSE /\ workerQueue' = workerQueue \cup {p}
            /\ UNCHANGED worker
    /\ UNCHANGED <<lws, leaderSts, revisions, pod, uids, edits, faults, caches,
                   leaderQueue, leaderCall>>

-----------------------------------------------------------------------------
(* Informers.  A request is queued for the pod, and for the pod that owns  *)
(* a worker set, which has the same name.                                  *)

SeePod(p) ==
    /\ seenPod[p] # pod[p]
    /\ seenPod' = [seenPod EXCEPT ![p] = pod[p]]
    /\ workerQueue' = workerQueue \cup {p}
    /\ UNCHANGED <<api, seenRevisions, seenWorker, leaderQueue, calls>>

\* Faulty: the controller does not watch the sets it owns.
SeeWorkerNotOwned(p) ==
    /\ seenWorker[p] # worker[p]
    /\ seenWorker' = [seenWorker EXCEPT ![p] = worker[p]]
    /\ UNCHANGED <<api, seenRevisions, seenPod, queues, calls>>

SeeWorker(p) ==
    /\ seenWorker[p] # worker[p]
    /\ seenWorker' = [seenWorker EXCEPT ![p] = worker[p]]
    /\ workerQueue' = workerQueue \cup {p}
    /\ UNCHANGED <<api, seenRevisions, seenPod, leaderQueue, calls>>

SeeRevisions ==
    /\ seenRevisions # revisions
    /\ seenRevisions' = revisions
    /\ UNCHANGED <<api, seenPod, seenWorker, queues, calls>>

-----------------------------------------------------------------------------
(* The cluster.                                                            *)

EditLws ==
    /\ lws # Absent
    /\ edits < MaxEdits /\ edits' = edits + 1
    /\ lws' \in (Versions \cup {Absent}) \ {lws}
    /\ leaderQueue' = TRUE
    /\ UNCHANGED <<leaderSts, revisions, pod, worker, uids, faults, caches,
                   workerQueue, calls>>

\* A status update of the leader set, or somebody deletes it.
TouchLeaderSts ==
    /\ Fault
    /\ leaderSts # Absent
    /\ \/ UNCHANGED leaderSts
       \/ leaderSts' = [leaderSts EXCEPT !.deleting = TRUE]
    /\ leaderQueue' = TRUE
    /\ UNCHANGED <<lws, revisions, pod, worker, uids, edits, caches,
                   workerQueue, calls>>

SetPod(p, value) ==
    /\ pod' = [pod EXCEPT ![p] = value]
    /\ UNCHANGED <<lws, leaderSts, revisions, worker, caches, queues, calls>>

EvictPod(p) ==
    /\ Fault
    /\ pod[p] # Absent
    /\ SetPod(p, [pod[p] EXCEPT !.deleting = TRUE])
    /\ UNCHANGED <<uids, edits>>

\* The StatefulSet controller: missing pods are created, pods of another
\* template are deleted, those of a set that is gone are collected.
StartPod(p) ==
    /\ pod[p] = Absent
    /\ leaderSts # Absent /\ ~ leaderSts.deleting
    /\ SetPod(p, [uid |-> uids, key |-> leaderSts.key,
                  version |-> leaderSts.version, deleting |-> FALSE])
    /\ uids' = uids + 1
    /\ UNCHANGED <<edits, faults>>

RollPod(p) ==
    /\ pod[p] # Absent /\ ~ pod[p].deleting
    /\ leaderSts # Absent =>
          leaderSts.key # pod[p].key \/ leaderSts.version # pod[p].version
    /\ SetPod(p, [pod[p] EXCEPT !.deleting = TRUE])
    /\ UNCHANGED <<uids, edits, faults>>

PodEnds(p) ==
    /\ pod[p] # Absent /\ pod[p].deleting
    /\ SetPod(p, Absent)
    /\ UNCHANGED <<uids, edits, faults>>

CollectWorker(p) ==
    /\ worker[p] # Absent
    /\ pod[p] # Absent => pod[p].uid # worker[p].owner
    /\ worker' = [worker EXCEPT ![p] = Absent]
    /\ UNCHANGED <<lws, leaderSts, revisions, pod, uids, edits, faults, caches,
                   queues, calls>>

\* NewRevision makes the LeaderWorkerSet the controller of the revision.
CollectRevision ==
    /\ lws = Absent
    /\ \E r \in revisions : revisions' = revisions \ {r}
    /\ UNCHANGED <<lws, leaderSts, pod, worker, uids, edits, faults, caches,
                   queues, calls>>

CollectLeaderSts ==
    /\ leaderSts # Absent
    /\ lws = Absent \/ leaderSts.deleting
    /\ leaderSts' = Absent
    /\ leaderQueue' = TRUE
    /\ UNCHANGED <<lws, revisions, pod, worker, uids, edits, faults, caches,
                   workerQueue, calls>>

-----------------------------------------------------------------------------

\* The leader set is there with a key and its revision, from a build of the
\* controller that could list it, or without a key, or not at all.
Init ==
    /\ indexed \in BOOLEAN
    /\ lws = Created
    /\ \/ leaderSts = Absent /\ revisions = {}
       \/ /\ leaderSts = [key |-> NoKey, version |-> lws, deleting |-> FALSE]
          /\ revisions = {}
       \/ /\ leaderSts = [key |-> Hash[lws], version |-> lws, deleting |-> FALSE]
          /\ revisions = {[number |-> 1, version |-> lws, key |-> Hash[lws]]}
    /\ seenRevisions = {}
    /\ pod = [p \in Pods |-> Absent] /\ seenPod = pod
    /\ worker = [p \in Pods |-> Absent] /\ seenWorker = worker
    /\ uids = 0 /\ edits = 0 /\ faults = 0
    /\ leaderQueue = TRUE /\ workerQueue = {}
    /\ leaderCall = Absent /\ workerCall = Absent

LeaderController ==
    \/ LeaderListFails \/ LeaderSkips \/ LeaderWaits \/ LeaderFinds
    \/ LeaderCreates \/ LeaderCreateFails \/ LeaderApplies

WorkerController ==
    \/ \E p \in Pods : WorkerSkips(p) \/ WorkerWaits(p) \/ WorkerReads(p)
    \/ WorkerCreates

Informers ==
    SeeRevisions \/ \E p \in Pods : SeePod(p) \/ SeeWorker(p)

Cluster ==
    \/ CollectLeaderSts \/ CollectRevision
    \/ \E p \in Pods : StartPod(p) \/ RollPod(p) \/ PodEnds(p) \/ CollectWorker(p)

Faults == LeaderApplyFails \/ TouchLeaderSts \/ \E p \in Pods : EvictPod(p)

Next ==
    /\ \/ LeaderController \/ WorkerController \/ Informers \/ Cluster
       \/ EditLws \/ Faults
    /\ UNCHANGED indexed

Spec == Init /\ [][Next]_vars

\* The work queue hands out every request; informers and garbage collector
\* keep going.  Nothing is asked of the leader controller.
FairSpec ==
    /\ Spec
    /\ WF_state(WorkerCreates)
    /\ WF_state(SeeRevisions)
    /\ \A p \in Pods :
          /\ SF_state(WorkerSkips(p) \/ WorkerReads(p))
          /\ WF_state(SeePod(p)) /\ WF_state(SeeWorker(p))
          /\ WF_state(CollectWorker(p))

-----------------------------------------------------------------------------
(* Types of the objects, their caches and the two calls.                   *)
TypeOK ==
    /\ indexed \in BOOLEAN
    /\ lws \in Versions \cup {Absent}
    /\ leaderSts \in LeaderSets \cup {Absent}
    /\ revisions \subseteq Revisions /\ seenRevisions \subseteq Revisions
    /\ {pod, seenPod} \subseteq [Pods -> LeaderPods \cup {Absent}]
    /\ {worker, seenWorker} \subseteq [Pods -> WorkerSets \cup {Absent}]
    /\ uids \in Nat /\ edits \in 0 .. MaxEdits /\ faults \in 0 .. MaxFaults
    /\ leaderQueue \in BOOLEAN /\ workerQueue \subseteq Pods
    /\ leaderCall \in [key : Keys, version : Versions] \cup {Absent}
    /\ workerCall \in [name : Pods, set : WorkerSets] \cup {Absent}

HasRevision(key) == \E r \in revisions : r.key = key

(* A leader never waits for a revision nobody has created: whatever the    *)
(* caches show and whichever Create fails, the key a leader pod carries is *)
(* the key of a revision in the API server, until the LeaderWorkerSet and  *)
(* with it its revisions are deleted.                                      *)
LeaderKeyHasRevision ==
    lws # Absent =>
        \A p \in Pods :
            pod[p] # Absent /\ pod[p].key # NoKey => HasRevision(pod[p].key)

(* Workers can be made again after a restart: a worker set has the key of  *)
(* the leader pod that owns it, also when it was created from stale caches,*)
(* and as long as the LeaderWorkerSet is there, a revision of this key     *)
(* records the version of the set.                                         *)
WorkersAreRecorded ==
    \A p \in Pods : worker[p] # Absent =>
        /\ lws # Absent =>
              \E r \in revisions :
                 r.key = worker[p].key /\ r.version = worker[p].version
        /\ pod[p] # Absent /\ pod[p].uid = worker[p].owner =>
              pod[p].key = worker[p].key

(* Nothing is left to do for a leader: its request is not queued and no    *)
(* call is about it, the caches show its pod and its set, and no set waits *)
(* for the garbage collector.                                              *)
Settled(p) ==
    /\ p \notin workerQueue
    /\ workerCall # Absent => workerCall.name # p
    /\ seenPod[p] = pod[p] /\ seenWorker[p] = worker[p]
    /\ worker[p] # Absent =>
          pod[p] # Absent /\ worker[p].owner = pod[p].uid

(* No leader is forgotten.  However the caches lag while leader and set of *)
(* one name are deleted, collected and made again between the Get and the  *)
(* Create, a leader for which nothing is left to do has a worker set of    *)
(* its own, unless a version without workers was in between.               *)
SettledLeadersHaveWorkers ==
    [](lws # Absent => SizeOf[lws] # 1) =>
        [](\A p \in Pods :
              /\ pod[p] # Absent /\ ~ pod[p].deleting /\ lws # Absent
              /\ Settled(p)
              => worker[p] # Absent)

(* Get-or-Create finds the set of a deleted leader of the same name and    *)
(* does nothing; nevertheless, unless a version without workers was in     *)
(* between, each leader pod that stays, and whose key has a revision, ends *)
(* up with a worker set of its own.  This is the worker controller's part; *)
(* keys and revisions come from the leader controller, which may be stuck. *)
LeadersGetWorkers ==
    [](lws # Absent => SizeOf[lws] # 1) =>
        \A p \in Pods :
            []<>( \/ pod[p] = Absent \/ pod[p].deleting \/ lws = Absent
                  \/ ~ HasRevision(pod[p].key)
                  \/ worker[p] # Absent /\ worker[p].owner = pod[p].uid )
=============================================================================
