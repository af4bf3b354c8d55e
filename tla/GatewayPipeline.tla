--------------------------- MODULE GatewayPipeline ---------------------------
(***************************************************************************)
(* From the Gateway API objects of the cluster to the snapshots Envoy is   *)
(* served (pkg/envoygateway).  Three goroutines hand each other values     *)
(* through watchable maps: the provider's reconciler rebuilds one view of  *)
(* all classes after every event its predicates let through; the           *)
(* translator turns each view into one representation per gateway; the xDS *)
(* server turns each representation into a snapshot; the infra manager     *)
(* consumes a second representation.                                       *)
(*                                                                         *)
(* The content of an object is the number of the edit that wrote it.  An   *)
(* object that is gone keeps the number of its last edit, so that a new    *)
(* one of the same name has a larger one.                                  *)
(***************************************************************************)
EXTENDS Naturals, Sequences, FiniteSets

CONSTANTS
    Classes,       \* names of GatewayClasses
    Gateways,      \* keys (namespace/name) of Gateways
    Routes,        \* keys of HTTPRoutes
    None,          \* no class, nothing stored
    RouteRefs,     \* the sets of parentRefs a route may have
    Starts,        \* bound: the class of each gateway at the start, or None
    MaxEvents,     \* bound: changes of the cluster and Lists that fail
    MaxVersion     \* math.MaxInt64

ASSUME ClassesAssumption == Classes # {}
ASSUME StartsAssumption == Starts \subseteq [Gateways -> Classes \cup {None}]
ASSUME NoneAssumption == None \notin Classes \cup Gateways
ASSUME RouteRefsAssumption ==
    \A refs \in RouteRefs : \A ref \in refs :
        /\ DOMAIN ref = {"kind", "key"}
        /\ ref.kind \in {"Gateway", "Service", "unset"} /\ ref.key \in Gateways
ASSUME FiniteAssumption == IsFiniteSet(Gateways)
ASSUME BoundsAssumption ==
    /\ MaxEvents \in Nat \ {0}
    /\ MaxVersion \in Nat \ {0}

VARIABLES
    class,      \* of each name: "absent", "ours", "foreign" or "leaving"
    gw,         \* of each key: its class, None when it is gone, and its edit
    route,      \* of each key: its parentRefs and its edit, 0 for no route;
                \* history: its last change passed the predicates
    edits,      \* how often the cluster changed
    subscribed, \* the xDS server has subscribed to the representations
    pending,    \* the one request is in the work queue
    rec,        \* the Reconcile in progress
    view,       \* GatewayAPIResources: what Reconcile stored last
    updates,    \* stored views the translator has not taken yet
    tr,         \* the translator: class results and Stores still to do
    xdsIR,      \* the representation of each gateway
    xdsQ,       \* stored representations the xDS server has not taken yet
    infraIR,    \* the gateways with a representation for the infra manager
    snapshot,   \* the snapshot of each node, named by the gateway's key
    version,    \* SnapshotCache.snapshotVersion
    alive,      \* the process runs
    lossy,      \* history: the stored view was built after a List that failed
    faults      \* calls that failed

cluster == <<class, gw, route, edits>>
provider == <<pending, rec, view, updates, lossy>>
translator == <<tr, xdsIR, infraIR>>
xds == <<xdsQ, snapshot, version>>
process == <<subscribed, alive>>
vars == <<cluster, provider, translator, xds, process, faults>>

\* What the copies hold.  The DeepCopy of the message package copies by value.
Objects(K) == UNION {[S -> 1 .. MaxEvents] : S \in SUBSET K}
Results == [class : Classes, gateways : Objects(Gateways),
            routes : Objects(Routes)]
Views == Seq(Results)
Representations == [gateway : 1 .. MaxEvents]
Snapshots == [ir : Representations, version : 1 .. MaxVersion]

ASSUME NothingAssumption ==
    /\ None \notin Results /\ None \notin Views
    /\ None \notin Representations /\ None \notin Snapshots

Idle == [pc |-> "idle", todo |-> {}, left |-> {}, built |-> <<>>,
         lossy |-> FALSE]
NoWork == [results |-> <<>>, res |-> None, xds |-> {}]
NoObjects == [o \in {} |-> 0]
NoRoute == [refs |-> {}, edit |-> 0, passed |-> FALSE]

-----------------------------------------------------------------------------
(* Watches: which changes of the cluster enqueue the request.  All of them *)
(* enqueue the same one, and the queue keeps it once.                      *)

\* The predicate of the Gateway watch reads the class when the event comes,
\* and of an update it sees the new object only.
GatewayOfOurs(c) == c # None /\ class[c] \in {"ours", "leaving"}

\* The HTTPRoute watch has three predicates and all must hold: an update
\* passes when it changes generation, labels and annotations.
RouteUpdatePasses(changes) == changes = {"spec", "labels", "annotations"}

\* Faulty: an event that comes while Reconcile runs is merged into that run.
EnqueueMerged(passes) == pending' = (pending \/ (passes /\ rec.pc = "idle"))

Enqueue(passes) == pending' = (pending \/ passes)

Edit == edits + faults < MaxEvents /\ edits' = edits + 1
Unobserved == <<rec, view, updates, lossy, translator, xds, process,
                faults>>

WatchClass(c) ==
    /\ Edit
    /\ \/ \E kind \in {"ours", "foreign"} :
            /\ class[c] = "absent"
            /\ class' = [class EXCEPT ![c] = kind]
            /\ Enqueue(alive /\ kind = "ours")
       \* The deletion is marked and its finalizer goes: only metadata changes.
       \/ /\ class[c] = "ours"
          /\ class' = [class EXCEPT ![c] = "leaving"]
          /\ UNCHANGED pending
       \/ /\ class[c] # "absent"
          /\ class' = [class EXCEPT ![c] = "absent"]
          /\ Enqueue(alive /\ class[c] # "foreign")
    /\ UNCHANGED <<gw, route>>
    /\ UNCHANGED Unobserved

\* Created, edited or moved to another class.
WatchGateway(g, c) ==
    /\ Edit
    /\ gw' = [gw EXCEPT ![g] = [class |-> c, edit |-> edits + 1]]
    /\ Enqueue(alive /\ GatewayOfOurs(c))
    /\ UNCHANGED <<class, route>>
    /\ UNCHANGED Unobserved

WatchGatewayDeleted(g) ==
    /\ Edit
    /\ gw[g].class # None
    /\ gw' = [gw EXCEPT ![g].class = None]
    /\ Enqueue(alive /\ GatewayOfOurs(gw[g].class))
    /\ UNCHANGED <<class, route>>
    /\ UNCHANGED Unobserved

\* A change of labels or annotations alone leaves the parentRefs.
WatchHTTPRoute(r, refs, changes) ==
    /\ Edit
    /\ route[r].edit = 0 \/ "spec" \in changes \/ refs = route[r].refs
    /\ LET passes == route[r].edit = 0 \/ RouteUpdatePasses(changes) IN
       /\ route' = [route EXCEPT ![r] = [refs |-> refs, edit |-> edits + 1,
                                          passed |-> passes]]
       /\ Enqueue(alive /\ passes)
    /\ UNCHANGED <<class, gw>>
    /\ UNCHANGED Unobserved

WatchHTTPRouteDeleted(r) ==
    /\ Edit
    /\ route[r].edit > 0
    /\ route' = [route EXCEPT ![r] = NoRoute]
    /\ Enqueue(alive)
    /\ UNCHANGED <<class, gw>>
    /\ UNCHANGED Unobserved

\* EnvoyProxy and the custom backends: their events enqueue the request, and
\* nothing of them reaches a representation.
WatchOther ==
    /\ Edit
    /\ Enqueue(alive)
    /\ UNCHANGED <<class, gw, route>>
    /\ UNCHANGED Unobserved

-----------------------------------------------------------------------------
(* Reconcile: one List per step, so that the cluster changes in between.   *)

\* A class that is being deleted and has lost its finalizer is left out.
ListGatewayClass == {c \in Classes : class[c] = "ours"}

\* The field index spec.gatewayClassName.
GatewaysOf(c) == {g \in Gateways : gw[g].class = c}

\* The index of HTTPRoutes by parent: a ref without kind is one to a Gateway.
ParentsOf(r) == {ref.key : ref \in {x \in route[r].refs : x.kind # "Service"}}

Fails == edits + faults < MaxEvents /\ faults' = faults + 1

Current == rec.built[Len(rec.built)]
Rebuilt(res) == [rec.built EXCEPT ![Len(rec.built)] = res]

\* Faulty: without a class of ours the request is queued again.
ReconcileRequeues ==
    /\ alive /\ pending /\ rec.pc = "idle"
    /\ pending' = (ListGatewayClass = {})
    /\ rec' = [Idle EXCEPT !.todo = ListGatewayClass,
                   !.pc = IF ListGatewayClass = {} THEN "idle" ELSE "class"]
    /\ UNCHANGED <<view, updates, lossy>>
    /\ UNCHANGED <<cluster, translator, xds, process, faults>>

\* Without a class of ours Reconcile returns and stores nothing.  A List of
\* the classes that fails changes nothing: the request is queued again.
Reconcile ==
    /\ alive /\ pending /\ rec.pc = "idle"
    /\ pending' = FALSE
    /\ rec' = IF ListGatewayClass = {} THEN Idle
              ELSE [Idle EXCEPT !.pc = "class", !.todo = ListGatewayClass]
    /\ UNCHANGED <<view, updates, lossy>>
    /\ UNCHANGED <<cluster, translator, xds, process, faults>>

\* What is read next: the routes of the gateways left, or another class.
NextPhase(todo, left) ==
    IF left # {} THEN "routes" ELSE IF todo # {} THEN "class" ELSE "store"

AddClass(c, gs, lost) == [rec EXCEPT
    !.pc = NextPhase(rec.todo \ {c}, gs), !.todo = @ \ {c}, !.left = gs,
    !.built = Append(@, [class |-> c, gateways |-> [g \in gs |-> gw[g].edit],
                         routes |-> NoObjects]),
    !.lossy = @ \/ lost]

\* The error of processGateways is assigned and not looked at: the class is
\* kept, without gateways and routes.
processGateways(c) ==
    /\ alive /\ rec.pc = "class" /\ c \in rec.todo
    /\ \/ rec' = AddClass(c, GatewaysOf(c), FALSE) /\ UNCHANGED faults
       \/ rec' = AddClass(c, {}, TRUE) /\ Fails
    /\ UNCHANGED <<pending, view, updates, lossy>>
    /\ UNCHANGED <<cluster, translator, xds, process>>

\* A route of two gateways of the class is taken once, as it was found first.
processHTTPRoute(g) ==
    LET held == Current.routes
        found == {r \in Routes : route[r].edit > 0 /\ g \in ParentsOf(r)} IN
    [r \in DOMAIN held \cup found |->
        IF r \in DOMAIN held THEN held[r] ELSE route[r].edit]

AddRoutes(g, routes, lost) == [rec EXCEPT
    !.pc = NextPhase(rec.todo, rec.left \ {g}), !.left = @ \ {g},
    !.built = Rebuilt([Current EXCEPT !.routes = routes]),
    !.lossy = @ \/ lost]

\* One List per gateway; what a failed one would have found is missing.
processHTTPRoutes(g) ==
    /\ alive /\ rec.pc = "routes" /\ g \in rec.left
    /\ \/ rec' = AddRoutes(g, processHTTPRoute(g), FALSE) /\ UNCHANGED faults
       \/ rec' = AddRoutes(g, Current.routes, TRUE) /\ Fails
    /\ UNCHANGED <<pending, view, updates, lossy>>
    /\ UNCHANGED <<cluster, translator, xds, process>>

\* A subscriber handles the stored values in the order of the Stores.
HandleSubscription(q, x) == Append(q, x)

\* The results of all classes are stored under one key, in the order in which
\* they were read.
Store ==
    /\ alive /\ rec.pc = "store"
    /\ view' = rec.built
    /\ updates' = HandleSubscription(updates, rec.built)
    /\ lossy' = rec.lossy
    /\ rec' = Idle
    /\ UNCHANGED <<pending, cluster, translator, xds, process, faults>>

-----------------------------------------------------------------------------
(* The translator.                                                         *)

\* Accepted or not: the two lists go the same way.
GetRelevantGateways(res) == DOMAIN res.gateways

InitIRs(res) == GetRelevantGateways(res)

\* What is built is all the same to Envoy so far; the edit says of which
\* gateway spec it was built.
buildIR(res, g) == [gateway |-> res.gateways[g]]

Left(t) == IF t.xds = {} /\ t.results = <<>> THEN NoWork ELSE t

\* One class result of the view at hand, or of the next one.  The
\* representations for the infra manager are stored first, those for the xDS
\* server follow one by one in any order.
Translate ==
    /\ alive /\ tr.xds = {}
    /\ \/ tr.results # <<>> /\ UNCHANGED updates
       \/ tr = NoWork /\ updates # <<>> /\ updates' = Tail(updates)
    /\ LET results == IF tr = NoWork THEN Head(updates) ELSE tr.results
           res == Head(results) IN
       /\ infraIR' = infraIR \cup InitIRs(res)
       /\ tr' = Left([results |-> Tail(results), res |-> res,
                       xds |-> InitIRs(res)])
    /\ UNCHANGED <<xdsIR, pending, rec, view, lossy>>
    /\ UNCHANGED <<cluster, xds, process, faults>>

\* Faulty: the newest stored value is handed on first.
StoreXdsIRNewestFirst(g) ==
    /\ alive /\ g \in tr.xds
    /\ LET ir == buildIR(tr.res, g) IN
       /\ xdsIR' = [xdsIR EXCEPT ![g] = ir]
       /\ xdsQ' = IF subscribed THEN <<[key |-> g, ir |-> ir]>> \o xdsQ
                  ELSE xdsQ
    /\ tr' = Left([tr EXCEPT !.xds = @ \ {g}])
    /\ UNCHANGED <<infraIR, snapshot, version>>
    /\ UNCHANGED <<cluster, provider, process, faults>>

StoreXdsIR(g) ==
    /\ alive /\ g \in tr.xds
    /\ LET ir == buildIR(tr.res, g) IN
       /\ xdsIR' = [xdsIR EXCEPT ![g] = ir]
       /\ xdsQ' = IF ~ subscribed THEN xdsQ
                  ELSE HandleSubscription(xdsQ, [key |-> g, ir |-> ir])
    /\ tr' = Left([tr EXCEPT !.xds = @ \ {g}])
    /\ UNCHANGED <<infraIR, snapshot, version>>
    /\ UNCHANGED <<cluster, provider, process, faults>>

-----------------------------------------------------------------------------
(* The xDS server.                                                         *)

\* What was stored before it subscribed is handled first, in any order of the
\* keys.
Subscribe ==
    /\ alive /\ ~ subscribed
    /\ subscribed' = TRUE
    /\ LET stored == {g \in Gateways : xdsIR[g] # None} IN
       \E keys \in [1 .. Cardinality(stored) -> stored] :
            /\ {keys[i] : i \in DOMAIN keys} = stored
            /\ xdsQ' = [i \in DOMAIN keys |->
                            [key |-> keys[i], ir |-> xdsIR[keys[i]]]]
    /\ UNCHANGED <<cluster, provider, translator, snapshot, version>>
    /\ UNCHANGED <<alive, faults>>

\* Faulty: the version starts at zero.
newSnapshotVersionFromZero(v) == IF v = MaxVersion THEN 0 ELSE v

newSnapshotVersion(v) == (IF v = MaxVersion THEN 0 ELSE v) + 1

SetSnapshotCache(node, ir) ==
    /\ version' = newSnapshotVersion(version)
    /\ snapshot' = [snapshot EXCEPT ![node] = [ir |-> ir, version |-> version']]

\* The table is only made when a resource is added.  The functions that would
\* add one for this representation are not in the repository, and their errors
\* are dropped: the table stays nil, or holds what the representation says.
XdsTables(ir) == {None, ir}

HandleXdsIR ==
    /\ alive /\ xdsQ # <<>>
    /\ xdsQ' = Tail(xdsQ)
    /\ \E table \in XdsTables(Head(xdsQ).ir) :
        IF table = None THEN UNCHANGED <<snapshot, version>>
        ELSE SetSnapshotCache(Head(xdsQ).key, table)
    /\ UNCHANGED <<cluster, provider, translator, process, faults>>

-----------------------------------------------------------------------------
(* The process.  What it holds is lost with it.                            *)

Memory(a) ==
    /\ alive' = a /\ subscribed' = FALSE
    /\ rec' = Idle /\ view' = None /\ updates' = <<>> /\ lossy' = FALSE
    /\ tr' = NoWork /\ xdsIR' = [g \in Gateways |-> None] /\ infraIR' = {}
    /\ xdsQ' = <<>> /\ snapshot' = [g \in Gateways |-> None] /\ version' = 0

\* The infra manager subscribes at any time, or never.  For the first value it
\* handles, NewResourceRender drops the representation it is given and
\* Deployment reads through the nil pointer: the panic ends the process.
CreateOrUpdateProxyInfra ==
    /\ alive /\ infraIR # {}
    /\ Memory(FALSE)
    /\ pending' = FALSE
    /\ UNCHANGED <<cluster, faults>>

\* The informers deliver every object as created.
Created ==
    \/ \E c \in Classes : class[c] \in {"ours", "leaving"}
    \/ \E r \in Routes : route[r].edit > 0

Restart ==
    /\ ~ alive
    /\ Memory(TRUE)
    /\ pending' = Created
    /\ UNCHANGED <<cluster, faults>>

\* The process starts in a cluster that has its classes and maybe gateways.
Init ==
    /\ class = [c \in Classes |-> "ours"]
    /\ \E classOf \in Starts :
            gw = [g \in Gateways |->
                    [class |-> classOf[g],
                     edit |-> IF classOf[g] = None THEN 0 ELSE 1]]
    /\ route = [r \in Routes |-> NoRoute]
    /\ edits = 1
    /\ subscribed = FALSE /\ alive = TRUE /\ faults = 0
    /\ pending = TRUE
    /\ rec = Idle /\ view = None /\ updates = <<>> /\ lossy = FALSE
    /\ tr = NoWork /\ xdsIR = [g \in Gateways |-> None] /\ infraIR = {}
    /\ xdsQ = <<>> /\ snapshot = [g \in Gateways |-> None] /\ version = 0

Changes == (SUBSET {"spec", "labels", "annotations"}) \ {{}}

Environment ==
    \/ \E c \in Classes : WatchClass(c)
    \/ \E g \in Gateways, c \in Classes : WatchGateway(g, c)
    \/ \E g \in Gateways : WatchGatewayDeleted(g)
    \/ \E r \in Routes, refs \in RouteRefs, changes \in Changes :
            WatchHTTPRoute(r, refs, changes)
    \/ \E r \in Routes : WatchHTTPRouteDeleted(r)
    \/ WatchOther

ReconcileStep ==
    \/ Reconcile \/ (\E c \in Classes : processGateways(c))
    \/ (\E g \in Gateways : processHTTPRoutes(g)) \/ Store

TranslatorStep == Translate \/ (\E g \in Gateways : StoreXdsIR(g))

Next ==
    \/ Environment \/ ReconcileStep \/ TranslatorStep \/ HandleXdsIR
    \/ Subscribe \/ CreateOrUpdateProxyInfra \/ Restart

Spec == Init /\ [][Next]_vars

\* As long as a goroutine of the provider, the translator or the xDS server can
\* take a step, one of them does.
Step == ReconcileStep \/ TranslatorStep \/ HandleXdsIR \/ Subscribe
FairSpec == Spec /\ WF_vars(Step)

-----------------------------------------------------------------------------
(* Properties                                                              *)

ClusterOK ==
    /\ class \in [Classes -> {"absent", "ours", "foreign", "leaving"}]
    /\ gw \in [Gateways -> [class : Classes \cup {None}, edit : Nat]]
    /\ route \in [Routes -> [refs : RouteRefs \cup {{}}, edit : Nat,
                           passed : BOOLEAN]]
    /\ edits \in 1 .. MaxEvents /\ faults \in 0 .. MaxEvents

ProviderOK ==
    /\ pending \in BOOLEAN /\ lossy \in BOOLEAN
    /\ rec \in [pc : {"idle", "class", "routes", "store"},
               todo : SUBSET Classes, left : SUBSET Gateways, built : Views,
               lossy : BOOLEAN]
    /\ \A i \in DOMAIN rec.built : rec.built[i].class \notin rec.todo
    /\ view \in Views \cup {None}
    /\ updates \in Seq(Views)

TranslatorOK ==
    /\ tr \in [results : Views, res : Results \cup {None},
              xds : SUBSET Gateways]
    /\ tr.res # None => tr.xds \subseteq DOMAIN tr.res.gateways
    /\ xdsIR \in [Gateways -> Representations \cup {None}]
    /\ infraIR \subseteq Gateways

XdsOK ==
    /\ xdsQ \in Seq([key : Gateways, ir : Representations])
    /\ snapshot \in [Gateways -> Snapshots \cup {None}]
    /\ version \in 0 .. MaxVersion

ProcessOK == subscribed \in BOOLEAN /\ alive \in BOOLEAN

\* Types; a Reconcile in progress works on classes of which it holds a result
\* or has not read yet, never both (controller.go, Reconcile).
TypeOK == ClusterOK /\ ProviderOK /\ TranslatorOK /\ XdsOK /\ ProcessOK

\* Everything that was enqueued or stored has been handled.
Settled ==
    /\ ~ pending /\ rec = Idle
    /\ updates = <<>> /\ tr = NoWork /\ xdsQ = <<>>

Translated == alive /\ Settled /\ ~ lossy

\* When the pipeline has nothing left to do, every gateway of a class of ours
\* has a representation made of its newest spec, although Reconcile reads the
\* cluster in several steps while it changes, the predicates drop events, and
\* representations are never deleted: a stale one belongs to a gateway that is
\* gone or to a class that is not ours any more.  A List whose error was
\* swallowed is the exception (controller.go:92 and :106, translator.go:54).
SettledGatewaysAreCurrent ==
    Translated => \A g \in Gateways :
        gw[g].class \in ListGatewayClass =>
            xdsIR[g] # None /\ xdsIR[g].gateway = gw[g].edit

\* When the reconciler is at rest the stored view shows every route of a
\* gateway of ours with its newest content and no route that is gone, although
\* their events come between the Lists of a Reconcile and a route of two
\* gateways keeps what the first List found.  An update that one of the three
\* predicates dropped is the exception, until anything else leads to a new
\* view; so is a List whose error was swallowed (gateway.go:32,
\* httproute.go:44, controller.go:106 and :242).
SettledRoutesAreCurrent ==
    (/\ alive /\ ~ pending /\ rec = Idle /\ ~ lossy
     /\ ListGatewayClass # {}) =>
        /\ view # None
        /\ \A c \in ListGatewayClass, r \in Routes :
            (route[r].passed /\ ParentsOf(r) \cap GatewaysOf(c) # {}) =>
                \E i \in DOMAIN view :
                    /\ view[i].class = c /\ r \in DOMAIN view[i].routes
                    /\ view[i].routes[r] = route[r].edit
        /\ \A i \in DOMAIN view : \A r \in DOMAIN view[i].routes :
            route[r].edit > 0

\* The snapshots follow the gateways: what is served was once the spec of that
\* gateway and never gives way to an older one, through both queues, the
\* several classes of a view and first snapshots of late subscribers
\* (watchable.go:11, translator.go:43, xds_server.go:70).
Served == [g \in Gateways |->
                IF snapshot[g] = None THEN 0 ELSE snapshot[g].ir.gateway]
Follow == INSTANCE Follower WITH Keys <- Gateways,
                source <- [g \in Gateways |-> gw[g].edit], copy <- Served
FollowsGateways == Follow!Spec

\* Once the cluster stops changing, the queues drain and the pipeline comes to
\* rest, unless the infra manager ends the process again and again.
ComesToRest == []<>(~ alive) \/ <>[]Settled
=============================================================================
