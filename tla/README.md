# Verification of ai-proxy-gateway

TLA+ models of the control-plane components of this repository, TLC
configurations that check them on small instances, and TLAPS proofs of the
results that matter most. `PROJECT.json` lists the runs, the source lines each
definition models, the hazards, and the mutants that show that every property
can fail.

## 1. The system and its parts

The repository holds the pieces of a gateway for LLM inference on Kubernetes.
They are separate processes which share the API server and Envoy's xDS.

| component | state it keeps | operations | works with | what is hard |
|---|---|---|---|---|
| endpoint picker datastore (`pkg/epp/datastore`) | map of endpoints (`sync.Map`), the current pool, selectors by pool name | add, delete, resync, clear, list | both inferencepool controllers call it, the scheduler reads it | two controllers inside it at once; Range is no snapshot |
| inferencepool controllers (`pkg/controllers/networking/inferencepool`) | none of their own, work queues of controller-runtime | event filter, two `Reconcile` functions | API server, datastore | events filtered by stale selectors, retries after partial work |
| picker metrics (`pkg/epp/datalayer`) | one metrics loop per endpoint | start, refresh, update metadata, stop | model servers over HTTP, datastore | scrape in flight while metadata changes or the endpoint is released |
| picker ext_proc server and scheduler (`pkg/epp/server`, `pkg/epp/scheduling`) | request context per stream | process request headers, body, response; filter, score, pick | Envoy, datastore | stream ends at any message |
| KV event index (`.../prefix-cache-kvevents`) | sharded work queues, subscriber table, block index | subscribe, enqueue, process, evict | ZMQ publishers of the model servers | order per pod, shutdown, limits |
| extension server (`pkg/extensionserver`) | none between calls; the metadata of xDS resources carries its state | three hooks of Envoy Gateway | Envoy Gateway, Envoy | three hooks must agree; map iteration order; shared route configurations |
| Envoy Gateway pipeline (`pkg/envoygateway`) | watchable maps, IR, xDS snapshot cache | reconcile, translate, infra, snapshot | API server, Envoy | several reads per reconcile, dropped events, representations that are never deleted, a crash of the whole process |
| configuration store (`pkg/config`) | generated tables of resource types, informer caches | list, watch, read, create, update, patch, delete, run, stop | API server | generated switches in seven files that must agree; stale reads; lost watches |
| xDS stream server (`pkg/xds`) | connections, request and push channels | receive, process, push, send | Envoy | blocked senders, starved requests, failing sends |
| Envoy agent (`pkg/agent`) | an Envoy process | start, wait, stop | Envoy | exit against stop |
| leader-worker-set controllers (`pkg/controllers/workloads/lws`) | ControllerRevisions, StatefulSets, pods | two `Reconcile` functions, revision helpers | API server, StatefulSet controller | two controllers over cached reads, garbage collection |
| jobset controller (`pkg/controllers/workloads/jobset`) | jobs by status | classify, delete, finish | API server | restarts; job creation is missing in the code |
| LLM router (`pkg/llmrouter`) | pods by model, connectors | schedule, prefill, decode, proxy | model servers | two-phase hand-off that fails half-way |
| core bootstrap, kube client (`pkg/core`, `pkg/bootstrap`, `pkg/kube`) | component list | start | all of the above | wiring |
| prototypes (`pkg/cache`, `pkg/router`, `pkg/pd`), RoleBasedGroup, StormService | - | stubs | - | - |

What makes each one correct:

* datastore and controllers: no served endpoint has a stopped metrics loop; no
  loop is lost; once quiet, the map is what the cluster asks for; every
  reconcile returns.
* metrics: a stopped endpoint is not refreshed any more; what is stored was
  scraped; a live endpoint is eventually refreshed.
* extension server: exactly the routes of a pool go through its picker; the
  picker is the declared one; the listener stays valid for Envoy.
* pipeline: at rest, representations and views are those of the newest
  resources; a snapshot never goes back; the queues drain, also after a crash.
* configuration store: all tables speak of the same resources; what is read with
  a version is what the server had with it; the cache follows the server.
* xDS stream: requests are processed in order and one push at most overtakes
  them; every push is done; no receiver outlives its stream.
* leader-worker-set: each leader gets a worker set of its own, made from a
  recorded revision of its key.
* LLM router: decode only follows a prefill that succeeded, on the pods chosen.

## 2. Modules

| module | models |
|---|---|
| `EppDatastore` | `pkg/epp/datastore`, the two inferencepool controllers, start and stop of metrics loops |
| `EppDatastoreProofs` | theorems about `EppDatastore` |
| `MCEppDatastore` | instances for TLC |
| `ExtensionServer` | `pkg/extensionserver`, the hooks of one translation cycle |
| `ExtensionServerProofs` | theorems about `ExtensionServer` |
| `MCExtensionServer` | instances for TLC |
| `PodMetrics` | `pkg/epp/datalayer`: the refresh loop of one endpoint, the scrape, the merge |
| `PodMetricsProofs` | theorems about `PodMetrics` |
| `MCPodMetrics` | instances for TLC |
| `Lws` | `pkg/controllers/workloads/lws`: both controllers and the revision helpers |
| `LwsProofs` | theorems about `Lws` |
| `MCLws` | instances for TLC |
| `Follower` | abstract specification: a copy that follows a source and never goes back |
| `GatewayPipeline` | `pkg/envoygateway`: provider, translator, xDS snapshots, infra manager, composed; implements `Follower` |
| `GatewayPipelineProofs` | theorems about `GatewayPipeline`, the refinement of `Follower` among them |
| `MCGatewayPipeline` | instances for TLC |
| `ConfigTables` | the generated tables of `pkg/config/schema` and `crdclient/types.gen.go` |
| `ConfigClient` | informer, store, operations and readers over those tables |
| `ConfigClientProofs` | theorem about `ConfigClient` |
| `MCConfigClient` | instances for TLC |
| `XdsStream` | `pkg/xds`: one stream and its receiver |
| `XdsStreamProofs` | theorems about `XdsStream` |
| `MCXdsStream` | instances for TLC |

### EppDatastore

Two processes, `"podReconciler"` and `"poolReconciler"`, one worker each, as
controller-runtime runs them by default. Each has a program counter and the
locals of the call it is in (`arg`, `ports`, `rank`, `todo`, `held`; for the pool
controller also `latest`, `syncTodo`, `active`, `outer`). An endpoint key is a
pod and a rank (index of a target port). Every access to the `sync.Map` is a
step: `AddLoad` and `AddStore` are the Load and the Store of
`PodUpdateOrAddIfNotExist`; `DeleteVisit`, `DeleteEntry` and `DeleteRelease` are
the visit, the Delete and the `ReleaseEndpoint` of `PodDelete`. `Range` visits
each key at most once and reads it when it gets there. The mutex `store.mu` is
only taken by the pool controller, so it excludes nobody and is left out.

`keyOf` and `stopped` are the metrics loops: `NewEndpoint` starts one,
`ReleaseEndpoint` stops it. `overlapped` is a history variable: both controllers
have been busy at once. The cluster (`CreatePod`, `ChangePod`, `DeletePod`,
`EditPool`, `DeletePool`) edits objects and delivers the event with the edit;
work queues are sets, as controller-runtime merges equal requests. A panic is
recovered by controller-runtime, which queues the request again (`AddPanic`).

The code at this commit does not compile everywhere; readings: `store.pool` and
the endpoint pool field are one field, `endpointPool` in `StartPodMetricsLoop`
is the new pool passed to it, `PoolLabelsMatch` looks up the stored selectors by
the pool name in the pod's label.

A pod has two labels: `label` is what selectors compare, `poolName` the pool it
names under `PoolLabelKey`. The event filter wants both, the resync lists by the
selector alone. `strays` is a history variable: pods an event showed without the
pool's name.

### ExtensionServer

Envoy Gateway calls `PostRouteModify` and `PostClusterModify` for every route
and cluster in any order, then `PostTranslateModify`, then starts afresh
(`NewCycle`). An error of a hook either ends the cycle or is passed over,
depending on its configuration: both happen. The pool reference, a string of
segments joined by slashes, is a sequence; namespace, name and service of a pool
are one segment. `buildEPPMetadata` replaces a nil pointer only in its own
parameter, so missing metadata stays missing. `PostRouteModifyPanics` is the nil
dereference for a route of a pool that has no RouteAction: the hook does not
answer and the cycle fails. `constructInferencePoolsFrom` is
the set of positions of a rule's pools among its resources, `poolFilters` the
loop that appends one filter per pool, as a recursive function, and
`InferencePoolLists` gives every order that Go's map iteration may yield.

### PodMetrics

One goroutine: `SelectDone` and `SelectTick` are the cases of its `select`,
`FetchMetrics` and `FetchFails` the end of an HTTP request that `SelectTick`
started with the address of that moment. Meanwhile `UpdateMetadata`,
`StopRefreshLoop` and the cancelled context act, and the load of the servers
changes. A family is a sequence of samples of several models in any order, with
timestamps that may be equal, or zero for none; the newest samples of a model
carry its load (`Truthful`). `SpecLabels` gives the labels each gauge is
configured with, by default none, and then every model matches. `getMetric` picks
the newest matching sample, the first one of equal age; `Found` is what it may
yield, which an answer consists of, together with the labels of the cache info:
a number, nothing, or text that is no number. `promToPodMetrics` merges field by
field and leaves a field alone when its family is missing. Loads are in tenths, so that the
truncation of counts shows. The ticker is a channel of capacity one.

### Lws

One LeaderWorkerSet. A version stands for what a revision records (template,
size, network configuration). `LeaderFinds`, `LeaderCreates`, `LeaderApplies`
are the leader controller up to the revisions and from the server-side apply,
`LeaderListFails` is the List by the field index `.metadata.controller` when the
manager has no such index;
`WorkerReads` and `WorkerCreates` are the Get and the Create of the worker
controller: between the two of each, everybody else may act. Pods, worker sets
and revisions are read from caches (`seenPod`, `seenWorker`, `seenRevisions`)
that follow the API server at their own pace; the LeaderWorkerSet and the leader
set are read as they are when the call reads them, a simplification (the code
reads them from caches, too). The StatefulSet controller, kubelet and garbage
collector (`StartPod`, `RollPod`, `PodEnds`, `CollectWorker`, `CollectLeaderSts`,
`CollectRevision`) are external, modelled from what the controllers rely on and
from the owners they set: revisions go with the LeaderWorkerSet
(revision.go:88).

Readings: the code never registers the field index, so as it stands every
reconcile of the leader controller ends at leaderworkerset_reconciler.go:95;
`indexed` says whether whoever sets up the manager has added it, and both cases
are checked. A leader set may be there at the start, since with none the
controller returns before it creates one (line 98).

### Follower

What the pipeline promises for every key: the copy shows an edit
that was once the newest of the source, and moves only to newer ones, except
that a restart forgets everything. It says nothing of how fast.

### GatewayPipeline

The processes of `pkg/envoygateway/server`, which meet only in watchable maps:

* the provider: `Watch*` are the events of the cluster with the predicates of
  `WatchResources`; all of them queue one request. A Reconcile is one step per
  List: `Reconcile` lists the classes, `processGateways` the gateways of one
  class, `processHTTPRoutes` the routes of one gateway, and the cluster changes
  in between; then `Store`. Lists fail, and what the code does with the error
  (mostly nothing) is in the step. `lossy` is a history variable: the stored view
  was built with a List that failed.
* the translator takes the views in order (`Translate`) and stores one
  representation per gateway (`StoreXdsIR`); that it subscribes before the first
  Store is assumed: `startRunners` makes provider, translator and infra manager,
  starts none of them and makes no xDS server. The xDS server may subscribe late
  and then starts with what is stored (`Subscribe`, `HandleXdsIR`).
* the infra manager: `NewResourceRender` drops the representation it is given,
  so the first value ends the process with a nil dereference
  (`CreateOrUpdateProxyInfra`); `Restart` rebuilds from the cluster, with the
  snapshot counter at 0 again.

An object is the number of its last edit. The `ir.Xds` the code builds is empty so
far; the edit number in a representation records the gateway spec it was built
from. Kinds whose contents never reach a representation (EnvoyProxy, custom
backends) only have events (`WatchOther`). EnvoyPatchPolicy and
EnvoyExtensionPolicy are looked for in the group of the Gateway API
(controller.go:254, :286), where they are not, so that nothing of them is watched or
read. Readings: functions of the xDS translator that are not in the repository
give the content or nothing (`XdsTables`); a snapshot of such resources cannot be
inconsistent. `MaxEvents` bounds edits and
failed Lists together, `MaxVersion` the versions of snapshots.

### ConfigTables and ConfigClient

`ConfigTables` holds the generated tables case by case: schemas, gvk, gvr, kinds,
Go types, clients, informers, operations and translations. A switch over types is
a set of cases; each names the clientset, the resource and whether the call takes
a namespace. A definition is split where the source is longer than a page, and
each table is transcribed on its own, so that their agreement is a result and not
a definition. `Case`, `GoCase` and `GoType` are the lookups. The one place where
the names disagree is stated as it is: the constant, `Kind.String` and
`FromString` say KubernetesGateway where the schema's kind is Gateway.

`ConfigClient` then takes any one type: an informer that lists and watches
(`List`, `Watch`, `BreakWatch`), the store that waits for it (`Run`, `Stop`),
callers that write through `create`, `update`, `updateStatus`, `patch`, `delete`
or, for types these have no case for, the typed client, and readers that read
from the cache through `translationMap` or live. The repository has no caller of
these operations, so any call may come at any time; what `genPatchBytes` makes,
which is missing, too, is a new spec. What the API server does with a write
(`Store`) is external: versions, refusals, the status subresource, watch events in
order. Each write has a number, and spec and status of an object that of the
write that set them.

### XdsStream

`Stream` is `Accept`, `Begin` and its loop: `SelectRequest` is the first select
(requests only), `SelectBoth` the second. `Receive` is `Recv` and `HandOver`.
`PushType` sends one type of a push or fails, `PushDone` is the end of `Push`.
The functions the package calls and does not have are external and do what their
callers allow: `initConnection` closes `initialized` at some time or never and
may give the proxy a generator, `processRequest` registers the type or fails,
`sendPushes` offers one event at a time and waits for `done`. Contents of
responses are left out.

As the package stands, no stream gets into its loop: nothing calls `CachesSynced`
(xds_server.go:72), nothing sets `RequestRateLimit`, so that a ready server
panics at xds_server.go:82 (`Accept`), and nothing calls `Initialize`
(connection.go:44; the block for the first request at stream.go:87 is empty), so
that stream.go:29 waits for ever. The model leaves each of the three to an
embedding server, which may do it or not; the properties hold in either case, and
say something of the loop only where all three were done.

## 3. Runs

| run | instance | shows |
|---|---|---|
| `epp_races` | 2 pods, 2 ports, 2 selectors, 3 objects, 4 edits of every kind | types; served endpoints are live; no leak while the controllers take turns; neither controller lengthens a reconcile of the other |
| `epp_settled` | 1 pod that may lose or regain the pool's name, 2 ports, 2 selectors, 6 objects, 5 edits, no selector or label change, no pool deletion | the quiet store matches the cluster, pods seen without the pool's name excepted; every reconcile returns |
| `epp_deleted` | 1 pod | violation: a deleted pod comes back through a stale resync |
| `epp_selector` | 1 pod, a selector change | violation: pods of the new selector are never served |
| `ext_hooks` | 2 listeners and a probe, 2 chains each, 2 route configurations, 2 routes, 2 rules, 2 pools | pickers, chains, header routing, boundary values |
| `ext_dup_filter` | 2 routes of one pool | violation: its filter is added twice |
| `ext_nil_metadata` | a route without metadata | violation: it loses the reference |
| `pod_metrics` | 2 servers, 2 models, 2 loads, families of up to 2 samples with equal and different timestamps, a gauge with and one without labels, the cache info | gauges are scraped values; a stopped loop ends; metrics converge |
| `lws` | 1 leader pod, versions of size 3, 2 and 1, 1 edit, 1 fault, with and without the index | keys have revisions; worker sets match them; leaders get workers, and none is forgotten once all is settled |
| `gateway_pipeline` | 2 classes, 2 gateways, 1 route of both, 2 changes or failed Lists, any number of crashes | at rest gateways and routes are current; snapshots follow the gateways (refinement); the pipeline comes to rest |
| `config_client` | each of the 25 types, 2 readers, 2 namespaces, 3 writes, 1 lost watch | the tables agree; a version names one content; the cache catches up with what the operations write |
| `xds_stream` | 2 types, 4 requests, any number of pushes, with and without a limiter | requests keep their order, with one push before them at most; taken events are done; the receiver has bounded work left when the context is done, and ends |

Bounds. Two pods are enough for a resync that treats one pod while the other
changes; two ports for a `PodDelete` with several entries; the objects of
`epp_settled` are never used up (an add that found none would break
`ReconcilesReturn`), those of `epp_races` may be, which only blocks a controller
and hides no shorter behaviour. Four edits reach create pool, create pod, edit,
and one more against a running reconcile. In `ExtensionServer` two listeners
that share a configuration, and a configuration shared by two chains, are the
cases in which patching one listener can disturb another.

In `PodMetrics` nothing is bounded but the data: two loads of which one truncates
to zero, two servers to move between, two models of which one gauge tells apart
and the other, as by default, does not, and two samples, enough for an older one
before or behind a newer one and for a tie. In `Lws` one pod name is enough, because
leaders share nothing but the revisions; it is reused by pods of different uid.
One edit with one fault reaches a roll and an eviction at any point of a
reconcile, and versions with and without workers.

In `GatewayPipeline` two classes are what it takes for a Reconcile to read one
before and one after a change, and for a gateway to be in both results or in
none, two gateways for a route to be listed twice with a change in between; the
edits are counted from the state the cluster starts in, which has classes and
gateways. In `ConfigClient` three writes are a create, a status and a spec, or a
create, a delete and a create again; the tables are constant, so that checking
`TablesAgree` for all 25 types is exhaustive. In `XdsStream`
four requests fill the wire, the receiver's hand and the channel behind the one
that is processed.

`epp_settled` leaves out exactly what is known to break its invariant: a new
selector, other ports, a relabelled pod, a deleted pool, a failed List (section
6): with any one of these kinds of edits added, TLC finds the invariant violated.
Deadlock is checked in `ExtensionServer`, which goes round for ever, and
`PodMetrics`, whose servers go on, and switched off in the others, which
go quiet when the bounded edits, writes or requests are used up.

Fairness. `FairSpec` has weak fairness of each controller: its worker is a
goroutine that waits for nobody but the API server, whose answers are part of a
step. The cluster has none: nobody has to edit anything. In `PodMetrics` the
ticker ticks and a request ends (its context has a timeout); Go's `select` picks
among ready cases at random, hence strong fairness of both cases; `Converges`
also needs a server that again and again answers with complete metrics, an
assumption about the environment. In `Lws` the worker controller's queue hands out
every request (strong fairness per pod, since a request may be put back),
informers deliver, and the garbage collector removes worker sets; the leader
controller, which may be stuck without the index, StatefulSet controller, edits
and faults have no fairness. In `GatewayPipeline` the goroutines of
provider, translator and xDS server run, nobody has to restart the process, and
`ComesToRest` excludes one that crashes again and again. In `ConfigClient` the
reflector of client-go lists again after a lost watch and takes every event; Run,
callers and readers have no fairness. In `XdsStream` the receiver runs whenever it
can: it waits in `Recv` or for the channel, and both end with the context. The
loop of the stream has no fairness, since it may block in `Send` for as long as
flow control holds it up; that a request is served is therefore only shown as the
bound of `OnePushOvertakes`.

## 4. Proofs

`EppDatastoreProofs` proves, for every finite set of pods, every set of selectors
and objects, number of ports and of edits, from the assumptions named in
`EppDatastore` (`PodsAssumption`, which only the bound on the steps needs,
`PortsAssumption`, `EditsAssumption`, `InstancesAssumption`, `NoneAssumption`):

* `TypeCorrect`: `Spec => []TypeOK`. `TypeOK` is inductive; it includes which
  locals are meaningful at which label.
* `ServedEndpointsStayLive`: `Spec => []ServedEndpointsAreLive`. The property
  alone is not inductive: `PodDelete` could release an object that is still in
  the map. `ObjectInv` adds that an object is only in the map under the key it
  was made for, that the object held by a `PodDelete` was made for the key it
  works on, and that between Delete and Release the key no longer maps to it -
  whatever the other controller stored there is a new object.
* `NoLeakWhileSerial`: `Spec => []NoLeakWithoutOverlap`. `SerialInv` adds, as
  long as the controllers never overlapped: one of them is idle; every running
  loop is in the map or about to be released; what a Load or a visit saw is
  still true when it is acted upon; `Clear`'s Range leaves nothing behind the
  keys it has visited.
* `QuietStoreMatches`: `Spec => []QuietStoreMatchesCluster`, under the
  hypothesis `EditKinds \subseteq {"podReady", "podDelete", "unlabelled"}`, the
  edits of run `epp_settled`; each of the other kinds breaks it (sections 3 and 6), and
  creating pods and the pool is always allowed. It speaks of
  the pods outside `strays` (`StrayInv`: the others name the pool). `SettleInv`
  adds, as long as the controllers never overlapped: `StageInv`, how far the one reconcile of the pool has come
  (before the selector is stored no event passes the filter, before the swap of
  `store.pool` the map is empty); `SyncInv`, that during the resync a pod that is
  not queued is wanted exactly if the List had it, that the adds fill the ranks
  in order and that nothing else is in the map, so that the prune deletes
  nothing; `CallInv`, that afterwards every pod that is neither queued nor in the
  pod controller's hands has exactly its endpoints, and that what the controller
  decided for the pod in its hands is still right unless the pod is queued again.
* `ReconcilesStayBounded`: `Spec => ReconcilesAreBounded`, an action property and
  the safety half of `ReconcilesReturn`. `StepsLeft` bounds the steps a busy
  controller still takes: the ranks left of an add, the keys left of a Range, and
  for a resync as many adds and deletes as pods and keys are left, each at its
  full length. The measure falls with every step of the controller itself, and
  nobody else touches its frame. `PortsInv` is added (a Store is for a rank
  within the ports that were read), and the keys are finite because the pods
  are.

`PodMetricsProofs`, for every set of servers, loads, labels and every mapping:

* `TypeCorrect`: `Spec => []TypeOK`.
* `ScrapedGauges`: `Spec => GaugesAreScraped`, an action property. Lemma
  `GetMetricIsLoad` shows that for every family the sample `getMetric` chooses
  exists, by well-foundedness of the naturals (timestamps are bounded, and the
  first of equal age is the least index), and carries the load of a model that
  matches; `AnswerGivesLoad` lifts this to the merge. Nothing is assumed of the
  labels, which may be none.

`LwsProofs`, for every set of pods, versions, sizes, keys, hashes and any bounds:

* `TypeCorrect`: `Spec => []TypeOK`. `Numbered` (the numbers of the revisions
  are bounded) is added, for `getHighestRevision` to find one; its existence
  follows from well-foundedness of the naturals (`HighestExists`).
* `KeysHaveRevisions`: `Spec => []LeaderKeyHasRevision`. `KeyInv` follows a key
  from the call through the leader set to the pods; revisions only grow while the
  LeaderWorkerSet exists, and are collected with it.
* `WorkersStayRecorded`: `Spec => []WorkersAreRecorded`. `WorkerInv` adds that
  uids are fresh: whoever knows the uid of the present pod (a cached pod, a
  call in flight, a worker set) knows its key.
* `SettledLeadersKeepWorkers`: `Spec => SettledLeadersHaveWorkers`, the safety
  half of `LeadersGetWorkers`, with the same hypothesis that no version without
  workers is used. What is due for a leader moves between queue, cache, call and
  garbage collector; `MindedInv` says that it is always with one of them: the
  request is queued or the cache still has to show the pod, or a call is about
  to create the set, or the set is there, or the cache shows a set whose end
  will queue the request again; and a call that was made for an earlier leader
  of the name is never the last one. `AbsentAssumption` says that the null value
  is no worker set and no call.

`XdsStreamProofs`, for any set of types and number of requests:

* `RequestsStayInOrder`: `Spec => []RequestsKeepTheirOrder` and
  `TakenEventsGetDone`: `Spec => []TakenEventsAreDone`. The first is about
  sequences of different length in different places; `OrderInv` says that what
  was processed, the channel, the receiver's hand and the wire continue one
  another number by number, the wire only until the receiver gives up, and end
  with the request that was sent last.
* `OnePushOvertakesOnly`: `Spec => OnePushOvertakes`: `StepsToRequest`, which
  counts the types a push may still send, falls with every step of the stream
  while a request waits.
* `ReceiverStaysBounded`: `Spec => ReceiverIsBounded`, the safety half of
  `ReceiverEnds`: `ReceiverSteps` falls with every step of the receiver once the
  context is done, and nobody else touches it. Both use `BoundInv`: the sets of
  types are finite (they grow by one request at a time), and the channels are
  empty before the stream is accepted, that of the error until the receiver
  ends.

`ConfigClientProofs`, for every set of types out of the tables, of readers and
namespaces and any number of writes and lost watches:

* `VersionsNameContents`: `Spec => []OneVersionOneContent`. `ClientInv` adds that
  nothing held by the cache, a reader or an event is newer than the server, that
  all of it consists of writes made so far, and that events bring the cache
  forward. It uses of the tables that a type of the store with a status operation
  is translated with its status, so that a translated copy and the object it was
  made of do not differ under one version.

`GatewayPipelineProofs`, for every set of classes, gateways (finite, see
`FiniteAssumption`: a late subscriber gets them one after the other and failed
Lists are counted), routes and any number of changes, failed Lists and crashes.
`NothingAssumption` says that the null value is no value of the other kinds:

* `PipelineTypes`: `Spec => []TypeOK`. `Numbered` and `Phased` are added: numbers
  are those of edits that were made, and what a Reconcile or the translator has
  at hand at which label.
* `SnapshotsFollowGateways`: `Spec => FollowsGateways`, the refinement of
  `Follower`. `FlowInv` orders the edits of each gateway along the stages - the
  cluster, the view being built, the stored views, the results being translated,
  the one at hand, the representation, the queue, the snapshot - and `OrderInv`
  orders every stage that is a sequence; the lemmas `Chain...` say what each kind
  of step does to that order. Nothing shorter is inductive: a step takes an edit
  from any stage to the next.
* `RoutesSettle`, `GatewaysSettle`: the two invariants of the settled state. `RecInv` and `ViewInv` say that unless an event is pending the
  view shows everything that was read (`Harmless`: a change that queues no
  request changes nothing a view shows, with the exception of routes made in
  section 6), `DownInv` that the stored view is the last one on its way and that
  every gateway of it has its representation or gets it.

`ExtensionServerProofs`, for all sets of listeners, routes (finite), rules and
pools, all declared pools and all inputs of a cycle:

* `HooksTypes`: `Spec => []TypeOK`.
* `ChainsRemainValid`: `Spec => []ChainsStayValid`.
* `PoolRoutesArePicked`, `HeaderRoutedArePicked`, `PickersStayAsDeclared`:
  `Spec => []OnlyPoolRoutesArePicked`, `[]HeaderRoutedIsPicked` and
  `[]PickersAreAsDeclared`, from `MetadataPresent = {TRUE}` (otherwise run
  `ext_nil_metadata` shows that the reference is lost) and, for the first two,
  `AnnotationsAreWords`, that no annotation has a slash (section 6: with one the
  pool loses its picker).

`ServerInv` describes the state completely from the input: `HookInv` the metadata
after the hooks that have run, `FreshInv` that listeners are untouched before
`PostTranslateModify`, `PatchInv` the filters of every patched chain and the
disabled pickers of every route. The trip of a pool through its reference is
lemma `ReferenceRead`; that `poolFilters` yields one filter per pool, in order,
is shown with a least counterexample (`LeastExists`), since induction rules with
an operator parameter are out of the provers' reach. Further assumptions:
`NamesAssumption` (the names of other filters are no pool names),
`SpecsAssumption` (ports are integers), `ListsAssumption`, `NoPoolAssumption`.

Only model-checked: the liveness properties `ReconcilesReturn`,
`StoppedLoopEnds`, `Converges`, `LeadersGetWorkers`, `ComesToRest`,
`CacheCatchesUp` and `ReceiverEnds`, since liveness under fairness is out of this
prover's reach; and `TablesAgree`, which is about constants and is evaluated by
TLC for each of the 25 types.

## 5. Plan

Done: the modules of section 2, and the theorems of section 4; every invariant
and action property of a passing run is stated by one, except `TablesAgree`. What
is not modelled (section 7) has no behaviour of its own at this commit.

When the code grows: JobSet once jobs are created with an owner, the picker's
scheduler once it returns, the KV event index once tasks are queued, and the LLM
router once it has a scheduler.

## 6. Differences between code and comments

Shown by a violation run: the four findings of `PROJECT.json`. Met while
modelling and not kept as runs of their own:

* `Clear` (datastore.go:189): an endpoint added behind its Range is dropped from
  the map with its loop running.
* pod_reconciler.go:52: a pod the selector selects, without the label that names
  the pool, is listed by the resync (datastore.go:145), but all its events are
  dropped, so it stays in the store after it has failed or gone, until the next
  resync. `QuietStoreMatchesCluster` excepts such pods.
* pod_reconciler.go:62, :80: the update that takes a pod's label away is dropped
  by the event filter, so the pod stays in the store.
* datastore.go:138: a pool that keeps its selector and changes its ports is
  swapped in without a resync, so the pods in the store keep the endpoints of the
  old ports; a pool that is deleted and created again with another selector is
  matched against the first one, which stays in the table of selectors.
* datastore.go:138: after a failed List the retry finds the selector already
  swapped in and skips the resync.
* post_translate_modify.go:68: two rules with one pool yield two picker clusters
  of one name.
* post_translate_modify.go:362: an annotation value with a slash makes the pool
  reference unreadable and the pool loses its picker.
* post_route_modify.go:78: the hook writes to the RouteAction of a route of a pool
  without asking whether it has one; for a redirect or a direct response it
  panics.
* pod_metrics.go:148, epp/server/options.go:37: with the default specifications,
  which have no labels, the samples of all models match, and of those with equal
  or no timestamps the first one in the answer is taken, whichever model's it is.
* pod_metrics.go:116: a label value that is no number stores 0, although the
  comment at pod_metrics.go:273 says that the data of the last cycle is kept.
* leaderworkerset_reconciler.go:93: the List is by a field index that is registered
  nowhere, so every reconcile ends with its error, as the comment at line 91
  reports; section 2.
* leaderworkerset_reconciler.go:140 compares pointers, so a revision is created
  in every reconcile; revision.go:185 says that one is only created when the
  template hash changes.
* leaderworkerset_reconciler.go:166: the leader set keeps its first key with the
  template of the latest version, so after an edit leaders and workers are of
  different versions.
* worker_statefulset_reconciler.go:270: the number of workers is that of the
  latest version, the template that of the revision.
* leaderworkerset_reconciler.go:182: the error of the apply is dropped.
* worker_statefulset_reconciler.go:126: when the size becomes one and goes back
  before the leader controller looks, a leader created in between stays without
  workers. `LeadersGetWorkers` excludes such histories.
* provider/kubernetes/controller.go:242: an HTTPRoute update passes only when
  generation, labels and annotations change together, so an edit of the spec
  alone does not reach the view until something else happens; line 83 says that
  the update of any resource leads to a new view. `SettledRoutesAreCurrent`
  makes exactly this exception.
* provider/kubernetes/controller.go:106 and below: errors of Lists after the
  first are logged or dropped and the incomplete view is stored.
* provider/kubernetes/controller.go:254, :286: the CRDs of EnvoyPatchPolicy and
  EnvoyExtensionPolicy are looked for in gateway.networking.k8s.io/v1 and are never
  found, so that policies have no effect.
* xds/cache/cache.go:38: one counter serves all nodes, starts again after its
  largest value and at 0 after a restart, so that a node may get a version it had
  with another content.
* kind/resources.gen.go:64, :125: the kind constant of Gateway is named
  KubernetesGateway, so that `FromString("Gateway")` is Unknown.
* infra/resource_provider.go:48: the infra manager panics on its first value.
* xds/xdsgen.go:53: when the clusters need no update the generator returns no
  resources (cds.go:15) and the client is sent an empty list; the comment at
  xdsgen.go:41 says that a generator may choose to send no response.
* xds/stream.go:79: the receiver puts its error into a channel that the stream
  does not read while `reqChan` stays open, so after the client has left the
  stream only ends with a send that fails.
* xds/xds_server.go:72, :82, connection.go:44: `CachesSynced` and `Initialize` have
  no caller and `RequestRateLimit` is never set; section 2.
* jobset_reconciler.go:97: a job is classified by its conditions, and a running
  job has none: it is in no list and is not deleted when the set has finished,
  although the comment at line 108 says that all active jobs are cleaned up.
* pd/router.py:113: every request carries the transfer id "123"; line 173 sleeps
  in the event loop, which stops every other request for a second; with
  `max_tokens` 1 the decode is asked for none, after the client has got its 200
  and first chunk; the first token is not added to the prompt of the decode.
* kvevents/pool.go:128: a task that fails is added again without `Done`, so the
  queue does not hand it out again.

## 7. Not modelled

* No behaviour to check at this commit: JobSet (jobs are built without owner and
  label, and the function that creates them is missing), the picker's ext_proc
  server and scheduler (`Schedule` does not return), the KV event index (tasks
  are never queued), the LLM router (its scheduler is nil), RoleBasedGroup,
  StormService and the prototypes in `pkg/cache` and `pkg/router` (empty
  operations), the agent (starts a process and waits for it).
* Not reached: rendering of the Envoy deployment and of xDS listeners, behind
  the panic of the infra manager and behind missing functions; the two policies
  of Envoy Gateway, whose CRDs are never found.
* Wiring: `cmd`, `pkg/kube`, `pkg/bootstrap`, `pkg/core`; the code generator of
  `pkg/config/schema`, whose output is modelled; the example proxy in Python
  (`pkg/pd`), whose requests share no state.
* Within modelled components: contents of templates, resources and responses
  (versions and edit numbers stand for them); the parser of metric
  specifications, which runs once at start-up; of the generated tables, the
  agent's own collections and the names nothing uses (`KebabKind`).

`PROJECT.json` has the reason per component.
