------------------------- MODULE GatewayPipelineProofs -------------------------
(* Proofs about GatewayPipeline, for any classes, gateways, routes and       *)
(* bounds.                                                                   *)
EXTENDS GatewayPipeline, TLAPS, SequenceTheorems, FiniteSetTheorems

-----------------------------------------------------------------------------
(* The inductive invariants                                                *)

(* The numbers of objects are those of edits that were made; what exists has *)
(* been written.                                                             *)
Numbered ==
    /\ edits + faults <= MaxEvents
    /\ \A g \in Gateways : /\ gw[g].edit <= edits
                           /\ gw[g].class # None => gw[g].edit >= 1
    /\ \A r \in Routes : /\ route[r].edit <= edits
                         /\ route[r].passed => route[r].edit >= 1

(* How far the reconciler and the translator are.                            *)
Phased ==
    /\ rec.pc = "idle" => rec = Idle
    /\ rec.pc \in {"routes", "store"} => rec.built # <<>>
    /\ rec.pc = "store" => rec.todo = {}
    /\ rec.pc # "routes" => rec.left = {}
    /\ \A i \in DOMAIN updates : updates[i] # <<>>
    /\ tr.xds # {} => tr.res # None
    /\ tr.xds = {} /\ tr.results = <<>> => tr = NoWork

TypeInv == TypeOK /\ Numbered /\ Phased

(* The edits of a gateway at each stage, from the newest to the oldest:      *)
(* the view being built, the stored views, the results being translated, the *)
(* one at hand, the representation, the queue.                               *)
EditsIn(v, g) == {v[i].gateways[g] : i \in {j \in DOMAIN v :
                                            g \in DOMAIN v[j].gateways}}
Waiting(g) == UNION {EditsIn(updates[i], g) : i \in DOMAIN updates}
AtHand(g) == {tr.res.gateways[h] : h \in {g} \cap tr.xds}
Represented(g) == {xdsIR[h].gateway : h \in {x \in {g} : xdsIR[x] # None}}
Queued(g) == {xdsQ[i].ir.gateway : i \in {j \in DOMAIN xdsQ : xdsQ[j].key = g}}

AtMost(S, T) == \A x \in S, y \in T : x <= y

(* Each stage holds nothing newer than any stage before it.                  *)
Chain(E, V, W, R, H, P, Q, S) ==
    /\ AtMost(V, E)
    /\ AtMost(W, E \cup V)
    /\ AtMost(R, E \cup V \cup W)
    /\ AtMost(H, E \cup V \cup W \cup R)
    /\ AtMost(P, E \cup V \cup W \cup R \cup H)
    /\ AtMost(Q, E \cup V \cup W \cup R \cup H \cup P)
    /\ AtMost(S, E \cup V \cup W \cup R \cup H \cup P \cup Q)

Flows(g) ==
    Chain({gw[g].edit}, EditsIn(rec.built, g), Waiting(g),
          EditsIn(tr.results, g), AtHand(g), Represented(g), Queued(g),
          {Served[g]})
FlowInv == \A g \in Gateways : Flows(g)

(* Every stage that is a sequence is in order.                               *)
Ascends(v) ==
    \A i, j \in DOMAIN v : i < j =>
        \A g \in DOMAIN v[i].gateways \cap DOMAIN v[j].gateways :
            v[i].gateways[g] <= v[j].gateways[g]
ViewsAscend ==
    /\ \A i \in DOMAIN updates : Ascends(updates[i])
    /\ \A i, j \in DOMAIN updates : i < j =>
          \A g \in Gateways :
              AtMost(EditsIn(updates[i], g), EditsIn(updates[j], g))
QueueAscends ==
    \A i, j \in DOMAIN xdsQ : i < j /\ xdsQ[i].key = xdsQ[j].key =>
        xdsQ[i].ir.gateway <= xdsQ[j].ir.gateway
OrderInv ==
    Ascends(rec.built) /\ Ascends(tr.results) /\ ViewsAscend /\ QueueAscends

(* A view shows a class with all its gateways and the routes whose last      *)
(* change passed, those of the gateways left of its last result excepted;    *)
(* and agrees with the cluster about the gateways of ours and the routes it  *)
(* has.                                                                      *)
Shows(v, c, left) ==
    \E i \in DOMAIN v :
        /\ v[i].class = c
        /\ GatewaysOf(c) \subseteq DOMAIN v[i].gateways
        /\ \A r \in Routes, g \in GatewaysOf(c) :
              /\ route[r].passed /\ g \in ParentsOf(r)
              /\ i = Len(v) => g \notin left
              => r \in DOMAIN v[i].routes /\ v[i].routes[r] = route[r].edit
Agrees(v) ==
    \A i \in DOMAIN v :
        /\ \A g \in DOMAIN v[i].gateways :
              gw[g].class \in ListGatewayClass =>
                  v[i].gateways[g] = gw[g].edit
        /\ \A r \in DOMAIN v[i].routes :
              /\ route[r].edit > 0
              /\ route[r].passed => v[i].routes[r] = route[r].edit

(* Unless the cluster changed again, the view that is built shows what has   *)
(* been read of it,                                                          *)
RecInv ==
    (alive /\ ~ pending /\ rec.pc # "idle" /\ ~ rec.lossy) =>
        /\ \A c \in ListGatewayClass :
              c \in rec.todo \/ Shows(rec.built, c, rec.left)
        /\ Agrees(rec.built)

(* and the stored view shows all of it.                                      *)
ViewInv ==
    (alive /\ ~ pending /\ rec.pc = "idle" /\ ~ lossy) =>
        \A c \in ListGatewayClass :
            view # None /\ Shows(view, c, {}) /\ Agrees(view)

(* The stored view is the last one on its way, and once it is taken every    *)
(* gateway of it has its representation or gets it.                          *)
Remains(g) ==
    \/ g \in tr.xds
    \/ \E i \in DOMAIN tr.results : g \in DOMAIN tr.results[i].gateways
Reaches(g) ==
    \E k \in DOMAIN view : /\ g \in DOMAIN view[k].gateways
                           /\ xdsIR[g] = buildIR(view[k], g)
DownInv ==
    view # None =>
        /\ updates # <<>> => updates[Len(updates)] = view
        /\ updates = <<>> =>
              /\ \A i \in DOMAIN tr.results :
                    \E j \in DOMAIN view : tr.results[i] = view[j]
              /\ tr.xds # {} => \E j \in DOMAIN view : tr.res = view[j]
              /\ \A j \in DOMAIN view : \A g \in DOMAIN view[j].gateways :
                    Remains(g) \/ Reaches(g)

-----------------------------------------------------------------------------
(* Data                                                                    *)

(* A map from keys to edits: its keys and its values,                        *)
LEMMA ObjectsHave ==
    ASSUME NEW K, NEW f \in Objects(K)
    PROVE  /\ DOMAIN f \subseteq K
           /\ \A k \in DOMAIN f : f[k] \in 1 .. MaxEvents
BY DEF Objects

(* and what it takes to be one.                                              *)
LEMMA ObjectsAre ==
    ASSUME NEW K, NEW S \in SUBSET K, NEW f \in [S -> 1 .. MaxEvents]
    PROVE  f \in Objects(K)
BY DEF Objects

(* The empty map is of every such type.                                      *)
LEMMA NoObjectsType ==
    /\ \A K : NoObjects \in Objects(K)
    /\ DOMAIN NoObjects = {}
BY DEF NoObjects, Objects

(* The fields of the result for a class,                                     *)
LEMMA ResultHas ==
    ASSUME NEW x \in Results
    PROVE  /\ x.class \in Classes
           /\ x.gateways \in Objects(Gateways) /\ x.routes \in Objects(Routes)
           /\ DOMAIN x.gateways \subseteq Gateways
           /\ \A g \in DOMAIN x.gateways : x.gateways[g] \in 1 .. MaxEvents
           /\ DOMAIN x.routes \subseteq Routes
<1>1. /\ x.class \in Classes
      /\ x.gateways \in Objects(Gateways) /\ x.routes \in Objects(Routes)
  BY DEF Results
<1> QED BY <1>1, ObjectsHave

(* the results of a view,                                                    *)
LEMMA ViewHas ==
    ASSUME NEW v \in Views
    PROVE  /\ Len(v) \in Nat /\ DOMAIN v = 1 .. Len(v)
           /\ \A i \in DOMAIN v : v[i] \in Results
           /\ v # <<>> => Len(v) >= 1
BY LenProperties, ElementOfSeq, EmptySeq DEF Views

(* the views on their way to the translator,                                 *)
LEMMA UpdatesHave ==
    ASSUME ProviderOK
    PROVE  /\ Len(updates) \in Nat /\ DOMAIN updates = 1 .. Len(updates)
           /\ \A i \in DOMAIN updates : updates[i] \in Views
           /\ updates # <<>> => Len(updates) >= 1
BY LenProperties, ElementOfSeq, EmptySeq DEF ProviderOK

Entries == [key : Gateways, ir : Representations]

(* and the entries on their way to the xDS server.                           *)
LEMMA QueueHas ==
    ASSUME XdsOK
    PROVE  /\ xdsQ \in Seq(Entries)
           /\ Len(xdsQ) \in Nat /\ DOMAIN xdsQ = 1 .. Len(xdsQ)
           /\ \A i \in DOMAIN xdsQ : /\ xdsQ[i] \in Entries
                                     /\ xdsQ[i].key \in Gateways
                                     /\ xdsQ[i].ir \in Representations
           /\ xdsQ # <<>> => Len(xdsQ) >= 1
<1>1. xdsQ \in Seq(Entries)
  BY DEF XdsOK, Entries
<1>2. /\ Len(xdsQ) \in Nat /\ DOMAIN xdsQ = 1 .. Len(xdsQ)
      /\ \A i \in DOMAIN xdsQ : xdsQ[i] \in Entries
      /\ xdsQ # <<>> => Len(xdsQ) >= 1
  BY <1>1, LenProperties, ElementOfSeq, EmptySeq
<1> QED BY <1>1, <1>2 DEF Entries

(* What the first element and the rest of a sequence are.                    *)
LEMMA TakeFirst ==
    ASSUME NEW S, NEW s \in Seq(S), s # <<>>
    PROVE  /\ Len(s) \in Nat \ {0} /\ DOMAIN s = 1 .. Len(s)
           /\ Head(s) = s[1] /\ 1 \in DOMAIN s /\ Head(s) \in S
           /\ Tail(s) \in Seq(S) /\ DOMAIN Tail(s) = 1 .. Len(s) - 1
           /\ Len(Tail(s)) = Len(s) - 1
           /\ \A i \in 1 .. Len(s) - 1 : Tail(s)[i] = s[i + 1]
<1>1. Len(s) \in Nat \ {0} /\ DOMAIN s = 1 .. Len(s)
  BY EmptySeq, LenProperties
<1>2. /\ Head(s) = s[1] /\ Head(s) \in S /\ Tail(s) \in Seq(S)
      /\ Len(Tail(s)) = Len(s) - 1
      /\ \A i \in 1 .. Len(s) - 1 : Tail(s)[i] = s[i + 1]
  BY <1>1, HeadTailProperties
<1>3. DOMAIN Tail(s) = 1 .. Len(Tail(s))
  BY <1>2, LenProperties
<1> QED BY <1>1, <1>2, <1>3

(* What an appended sequence is.                                             *)
LEMMA PutLast ==
    ASSUME NEW S, NEW s \in Seq(S), NEW x \in S
    PROVE  /\ Len(s) \in Nat /\ DOMAIN s = 1 .. Len(s)
           /\ Append(s, x) \in Seq(S) /\ Append(s, x) # <<>>
           /\ Len(Append(s, x)) = Len(s) + 1
           /\ DOMAIN Append(s, x) = 1 .. Len(s) + 1
           /\ \A i \in 1 .. Len(s) : Append(s, x)[i] = s[i]
           /\ Append(s, x)[Len(s) + 1] = x
<1>1. /\ Append(s, x) \in Seq(S) /\ Append(s, x) # <<>>
      /\ Len(Append(s, x)) = Len(s) + 1
      /\ \A i \in 1 .. Len(s) : Append(s, x)[i] = s[i]
      /\ Append(s, x)[Len(s) + 1] = x
  BY AppendProperties
<1>2. DOMAIN Append(s, x) = 1 .. Len(Append(s, x))
  BY <1>1, LenProperties
<1>3. Len(s) \in Nat /\ DOMAIN s = 1 .. Len(s)
  BY LenProperties
<1> QED BY <1>1, <1>2, <1>3

(* A representation made of a result.                                        *)
LEMMA buildIRType ==
    ASSUME NEW x \in Results, NEW g \in DOMAIN x.gateways
    PROVE  /\ buildIR(x, g) \in Representations
           /\ buildIR(x, g).gateway = x.gateways[g]
BY ResultHas DEF buildIR, Representations

-----------------------------------------------------------------------------
(* Types                                                                   *)

(* The types hold at the start.                                              *)
LEMMA InitType ==
    ASSUME Init
    PROVE  TypeInv
<1>1. Idle \in [pc : {"idle", "class", "routes", "store"},
                todo : SUBSET Classes, left : SUBSET Gateways,
                built : Views, lossy : BOOLEAN]
      /\ DOMAIN Idle.built = {} /\ Idle.pc = "idle" /\ Idle.left = {}
  BY EmptySeq DEF Idle, Views
<1>2. /\ NoWork \in [results : Views, res : Results \cup {None},
                     xds : SUBSET Gateways]
      /\ NoWork.res = None /\ NoWork.xds = {}
  BY EmptySeq DEF NoWork, Views
<1>10. PICK classOf \in [Gateways -> Classes \cup {None}] :
         gw = [g \in Gateways |->
                 [class |-> classOf[g],
                  edit |-> IF classOf[g] = None THEN 0 ELSE 1]]
  BY StartsAssumption DEF Init
<1>3. ClusterOK
  BY <1>10, BoundsAssumption DEF Init, ClusterOK, NoRoute
<1>4. ProviderOK
  BY <1>1, EmptySeq DEF Init, ProviderOK
<1>5. TranslatorOK
  BY <1>2 DEF Init, TranslatorOK
<1>6. XdsOK
  BY EmptySeq, BoundsAssumption DEF Init, XdsOK
<1>7. ProcessOK
  BY DEF Init, ProcessOK
<1>8. Numbered
  BY <1>10, BoundsAssumption DEF Init, Numbered, NoRoute
<1>9. Phased
  BY <1>1, <1>2, EmptySeq DEF Init, Phased
<1> QED BY <1>3, <1>4, <1>5, <1>6, <1>7, <1>8, <1>9 DEF TypeInv, TypeOK

(* A change of the cluster touches no copy of it.                            *)
LEMMA WatchType ==
    ASSUME TypeInv, Edit, UNCHANGED Unobserved, pending' \in BOOLEAN,
           ClusterOK', Numbered'
    PROVE  TypeInv'
<1>1. ProviderOK'
  BY DEF TypeInv, TypeOK, ProviderOK, Unobserved
<1>2. TranslatorOK'
  BY DEF TypeInv, TypeOK, TranslatorOK, Unobserved, translator
<1>3. XdsOK' /\ ProcessOK'
  BY DEF TypeInv, TypeOK, XdsOK, ProcessOK, Unobserved, xds, process
<1>4. Phased'
  BY DEF TypeInv, Phased, Unobserved, translator
<1> QED BY <1>1, <1>2, <1>3, <1>4 DEF TypeInv, TypeOK

(* An edit takes the next number, within the bound.                          *)
LEMMA EditCounts ==
    ASSUME TypeInv, Edit, UNCHANGED Unobserved
    PROVE  /\ edits \in Nat /\ edits' \in 1 .. MaxEvents /\ edits' = edits + 1
           /\ faults' = faults /\ faults \in 0 .. MaxEvents
           /\ edits' + faults' <= MaxEvents /\ alive' = alive
BY BoundsAssumption DEF TypeInv, TypeOK, ClusterOK, Edit, Unobserved, process

(* The events of the cluster keep the types: a class,                        *)
LEMMA WatchClassType ==
    ASSUME TypeInv, NEW c \in Classes, WatchClass(c)
    PROVE  TypeInv'
<1>1. Edit /\ UNCHANGED Unobserved /\ UNCHANGED <<gw, route>>
  BY DEF WatchClass
<1>2. class' \in [Classes -> {"absent", "ours", "foreign", "leaving"}]
  BY DEF WatchClass, TypeInv, TypeOK, ClusterOK
<1>3. pending' \in BOOLEAN
  BY DEF WatchClass, TypeInv, TypeOK, ProviderOK, Enqueue
<1>4. ClusterOK'
  BY <1>1, <1>2, EditCounts DEF TypeInv, TypeOK, ClusterOK
<1>5. Numbered'
  BY <1>1, EditCounts DEF TypeInv, TypeOK, ClusterOK, Numbered
<1> QED BY <1>1, <1>3, <1>4, <1>5, WatchType

(* a gateway that is created or edited,                                      *)
LEMMA WatchGatewayType ==
    ASSUME TypeInv, NEW g \in Gateways, NEW c \in Classes, WatchGateway(g, c)
    PROVE  TypeInv'
<1>1. Edit /\ UNCHANGED Unobserved /\ UNCHANGED <<class, route>>
  BY DEF WatchGateway
<1>2. gw' \in [Gateways -> [class : Classes \cup {None}, edit : Nat]]
  BY <1>1, EditCounts DEF WatchGateway, TypeInv, TypeOK, ClusterOK
<1>3. pending' \in BOOLEAN
  BY DEF WatchGateway, TypeInv, TypeOK, ProviderOK, Enqueue
<1>4. ClusterOK'
  BY <1>1, <1>2, EditCounts DEF TypeInv, TypeOK, ClusterOK
<1>5. Numbered'
  BY <1>1, EditCounts
  DEF WatchGateway, TypeInv, TypeOK, ClusterOK, Numbered
<1> QED BY <1>1, <1>3, <1>4, <1>5, WatchType

(* a gateway that is deleted,                                                *)
LEMMA WatchGatewayDeletedType ==
    ASSUME TypeInv, NEW g \in Gateways, WatchGatewayDeleted(g)
    PROVE  TypeInv'
<1>1. Edit /\ UNCHANGED Unobserved /\ UNCHANGED <<class, route>>
  BY DEF WatchGatewayDeleted
<1>2. gw' \in [Gateways -> [class : Classes \cup {None}, edit : Nat]]
  BY <1>1, EditCounts DEF WatchGatewayDeleted, TypeInv, TypeOK, ClusterOK
<1>3. pending' \in BOOLEAN
  BY DEF WatchGatewayDeleted, TypeInv, TypeOK, ProviderOK, Enqueue
<1>4. ClusterOK'
  BY <1>1, <1>2, EditCounts DEF TypeInv, TypeOK, ClusterOK
<1>5. Numbered'
  BY <1>1, EditCounts
  DEF WatchGatewayDeleted, TypeInv, TypeOK, ClusterOK, Numbered
<1> QED BY <1>1, <1>3, <1>4, <1>5, WatchType

(* a route,                                                                  *)
LEMMA WatchHTTPRouteType ==
    ASSUME TypeInv, NEW r \in Routes, NEW refs \in RouteRefs, NEW changes,
           WatchHTTPRoute(r, refs, changes)
    PROVE  TypeInv'
<1>1. Edit /\ UNCHANGED Unobserved /\ UNCHANGED <<class, gw>>
  BY DEF WatchHTTPRoute
<1>2. PICK passes \in BOOLEAN :
        /\ route' = [route EXCEPT ![r] = [refs |-> refs, edit |-> edits + 1,
                                           passed |-> passes]]
        /\ Enqueue(alive /\ passes)
  BY DEF WatchHTTPRoute
<1>3. route' \in [Routes -> [refs : RouteRefs \cup {{}}, edit : Nat,
                              passed : BOOLEAN]]
  BY <1>1, <1>2, EditCounts DEF TypeInv, TypeOK, ClusterOK
<1>4. pending' \in BOOLEAN
  BY <1>2 DEF TypeInv, TypeOK, ProviderOK, Enqueue
<1>5. ClusterOK'
  BY <1>1, <1>3, EditCounts DEF TypeInv, TypeOK, ClusterOK
<1>6. Numbered'
  BY <1>1, <1>2, EditCounts DEF TypeInv, TypeOK, ClusterOK, Numbered
<1> QED BY <1>1, <1>4, <1>5, <1>6, WatchType

(* a route that is deleted,                                                  *)
LEMMA WatchHTTPRouteDeletedType ==
    ASSUME TypeInv, NEW r \in Routes, WatchHTTPRouteDeleted(r)
    PROVE  TypeInv'
<1>1. Edit /\ UNCHANGED Unobserved /\ UNCHANGED <<class, gw>>
  BY DEF WatchHTTPRouteDeleted
<1>2. route' = [route EXCEPT ![r] = NoRoute] /\ Enqueue(alive)
  BY DEF WatchHTTPRouteDeleted
<1>3. route' \in [Routes -> [refs : RouteRefs \cup {{}}, edit : Nat,
                              passed : BOOLEAN]]
  BY <1>2 DEF TypeInv, TypeOK, ClusterOK, NoRoute
<1>4. pending' \in BOOLEAN
  BY <1>2 DEF TypeInv, TypeOK, ProviderOK, Enqueue
<1>5. ClusterOK'
  BY <1>1, <1>3, EditCounts DEF TypeInv, TypeOK, ClusterOK
<1>6. Numbered'
  BY <1>1, <1>2, EditCounts DEF TypeInv, TypeOK, ClusterOK, Numbered, NoRoute
<1> QED BY <1>1, <1>4, <1>5, <1>6, WatchType

(* a kind of which only the event matters;                                   *)
LEMMA WatchOtherType ==
    ASSUME TypeInv, WatchOther
    PROVE  TypeInv'
<1>1. Edit /\ UNCHANGED Unobserved /\ UNCHANGED <<class, gw, route>>
  BY DEF WatchOther
<1>2. pending' \in BOOLEAN
  BY DEF WatchOther, TypeInv, TypeOK, ProviderOK, Enqueue
<1>3. ClusterOK'
  BY <1>1, EditCounts DEF TypeInv, TypeOK, ClusterOK
<1>4. Numbered'
  BY <1>1, EditCounts DEF TypeInv, TypeOK, ClusterOK, Numbered
<1> QED BY <1>1, <1>2, <1>3, <1>4, WatchType

(* all of them together.                                                     *)
LEMMA EnvironmentType ==
    ASSUME TypeInv, Environment
    PROVE  TypeInv'
BY WatchClassType, WatchGatewayType, WatchGatewayDeletedType,
   WatchHTTPRouteType, WatchHTTPRouteDeletedType, WatchOtherType
DEF Environment

(* The parts a step leaves alone.                                            *)
LEMMA SameCluster ==
    ASSUME TypeInv, UNCHANGED <<cluster, faults>>
    PROVE  ClusterOK' /\ Numbered'
<1>1. ClusterOK'
  BY DEF TypeInv, TypeOK, ClusterOK, cluster
<1>2. Numbered'
  BY DEF TypeInv, Numbered, cluster
<1> QED BY <1>1, <1>2

(* A step of the provider leaves the types of the others alone.              *)
LEMMA SameRest ==
    ASSUME TypeInv, UNCHANGED <<cluster, translator, xds, process>>
    PROVE  /\ TranslatorOK' /\ XdsOK' /\ ProcessOK'
           /\ tr.xds # {} => tr'.res # None
<1>1. TranslatorOK'
  BY DEF TypeInv, TypeOK, TranslatorOK, translator
<1>2. XdsOK' /\ ProcessOK'
  BY DEF TypeInv, TypeOK, XdsOK, ProcessOK, xds, process
<1>3. tr.xds # {} => tr'.res # None
  BY DEF TypeInv, Phased, translator
<1> QED BY <1>1, <1>2, <1>3

(* What a step of the reconciler owes.                                       *)
LEMMA ReconcilerType ==
    ASSUME TypeInv, UNCHANGED <<cluster, translator, xds, process>>,
           faults' \in 0 .. MaxEvents, edits + faults' <= MaxEvents,
           ProviderOK',
           rec'.pc = "idle" => rec' = Idle,
           rec'.pc \in {"routes", "store"} => rec'.built # <<>>,
           rec'.pc = "store" => rec'.todo = {},
           rec'.pc # "routes" => rec'.left = {},
           \A i \in DOMAIN updates' : updates'[i] # <<>>
    PROVE  TypeInv'
<1>1. ClusterOK'
  BY DEF TypeInv, TypeOK, ClusterOK, cluster
<1>2. Numbered'
  BY DEF TypeInv, Numbered, cluster
<1>3. TranslatorOK' /\ XdsOK' /\ ProcessOK'
  BY SameRest
<1>4. tr' = tr
  BY DEF translator
<1>5. Phased'
  BY <1>4 DEF TypeInv, Phased
<1> QED BY <1>1, <1>2, <1>3, <1>5 DEF TypeInv, TypeOK

(* The provider at rest,                                                     *)
LEMMA IdleIs ==
    /\ Idle \in [pc : {"idle", "class", "routes", "store"},
                 todo : SUBSET Classes, left : SUBSET Gateways,
                 built : Views, lossy : BOOLEAN]
    /\ Idle.pc = "idle" /\ Idle.todo = {} /\ Idle.left = {}
    /\ Idle.built = <<>>
    /\ Idle.lossy = FALSE /\ DOMAIN Idle.built = {}
BY EmptySeq DEF Idle, Views

(* and the translator at rest.                                               *)
LEMMA NoWorkIs ==
    /\ NoWork \in [results : Views, res : Results \cup {None},
                   xds : SUBSET Gateways]
    /\ NoWork.results = <<>> /\ NoWork.res = None /\ NoWork.xds = {}
BY EmptySeq DEF NoWork, Views

(* Reconcile with its first List keeps the types.                            *)
LEMMA ReconcileType ==
    ASSUME TypeInv, Reconcile
    PROVE  TypeInv'
<1>1. /\ UNCHANGED <<cluster, translator, xds, process>>
      /\ faults' = faults /\ updates' = updates
      /\ view' = view /\ lossy' = lossy /\ pending' = FALSE
  BY DEF Reconcile
<1>2. faults' \in 0 .. MaxEvents /\ edits + faults' <= MaxEvents
  BY <1>1 DEF TypeInv, TypeOK, ClusterOK, Numbered
<1>3. \A i \in DOMAIN updates' : updates'[i] # <<>>
  BY <1>1 DEF TypeInv, Phased
<1>4. /\ rec' \in [pc : {"idle", "class", "routes", "store"},
                   todo : SUBSET Classes, left : SUBSET Gateways,
                   built : Views, lossy : BOOLEAN]
      /\ DOMAIN rec'.built = {}
      /\ rec'.pc = "idle" => rec' = Idle
      /\ rec'.pc \notin {"routes", "store"} /\ rec'.left = {}
  <2>1. CASE ListGatewayClass = {}
    BY <2>1, IdleIs DEF Reconcile
  <2>2. CASE ListGatewayClass # {}
    <3>1. rec' = [Idle EXCEPT !.pc = "class", !.todo = ListGatewayClass]
      BY <2>2 DEF Reconcile
    <3>2. ListGatewayClass \in SUBSET Classes
      BY DEF ListGatewayClass
    <3> QED BY <3>1, <3>2, IdleIs
  <2> QED BY <2>1, <2>2
<1>5. ProviderOK'
  BY <1>1, <1>4 DEF TypeInv, TypeOK, ProviderOK
<1> QED BY <1>1, <1>2, <1>3, <1>4, <1>5, ReconcilerType

(* What a List of the gateways finds.                                        *)
LEMMA ListedType ==
    ASSUME TypeInv, NEW c \in Classes, NEW gs \in SUBSET GatewaysOf(c)
    PROVE  [class |-> c, gateways |-> [g \in gs |-> gw[g].edit],
            routes |-> NoObjects] \in Results
<1>1. \A g \in gs : g \in Gateways /\ gw[g].edit \in 1 .. MaxEvents
  BY BoundsAssumption, NoneAssumption
  DEF GatewaysOf, TypeInv, TypeOK, ClusterOK, Numbered
<1>2. [g \in gs |-> gw[g].edit] \in Objects(Gateways)
  <2>1. [g \in gs |-> gw[g].edit] \in [gs -> 1 .. MaxEvents]
    BY <1>1
  <2> QED BY <1>1, <2>1, ObjectsAre
<1>3. NoObjects \in Objects(Routes)
  BY NoObjectsType
<1> QED BY <1>2, <1>3 DEF Results

(* A failed call is one of the events.                                       *)
LEMMA FaultsCount ==
    ASSUME TypeInv, UNCHANGED faults \/ Fails
    PROVE  faults' \in 0 .. MaxEvents /\ edits + faults' <= MaxEvents
BY BoundsAssumption DEF Fails, TypeInv, TypeOK, ClusterOK, Numbered

(* The step of processGateways.                                              *)
LEMMA ReadStep ==
    ASSUME TypeInv, NEW c \in Classes, processGateways(c)
    PROVE  \E gs \in SUBSET GatewaysOf(c), lost \in BOOLEAN :
        /\ rec' = AddClass(c, gs, lost)
        /\ ~ lost => gs = GatewaysOf(c)
        /\ faults' \in 0 .. MaxEvents /\ edits + faults' <= MaxEvents
<1>1. UNCHANGED faults \/ Fails
  BY DEF processGateways
<1>2. CASE rec' = AddClass(c, GatewaysOf(c), FALSE)
  BY <1>1, <1>2, FaultsCount
<1>3. CASE rec' = AddClass(c, {}, TRUE)
  BY <1>1, <1>3, FaultsCount
<1> QED BY <1>2, <1>3 DEF processGateways

(* The locals of a Reconcile under way.                                      *)
LEMMA RecHas ==
    ASSUME TypeInv
    PROVE  /\ rec.pc \in {"idle", "class", "routes", "store"}
           /\ rec.todo \in SUBSET Classes /\ rec.left \in SUBSET Gateways
           /\ rec.built \in Views
           /\ rec.built \in Seq(Results) /\ rec.lossy \in BOOLEAN
           /\ rec = [pc |-> rec.pc, todo |-> rec.todo, left |-> rec.left,
                     built |-> rec.built, lossy |-> rec.lossy]
BY DEF TypeInv, TypeOK, ProviderOK, Views

(* What is read next.                                                        *)
LEMMA NextPhaseIs ==
    ASSUME NEW todo, NEW left
    PROVE  /\ NextPhase(todo, left) \in {"class", "routes", "store"}
           /\ NextPhase(todo, left) # "routes" => left = {}
           /\ NextPhase(todo, left) = "store" => todo = {}
BY DEF NextPhase

(* The locals once a class has been read.                                    *)
LEMMA AddClassIs ==
    ASSUME TypeInv, NEW c \in Classes, NEW gs \in SUBSET GatewaysOf(c),
           NEW lost \in BOOLEAN, NEW new, new = AddClass(c, gs, lost), NEW res,
           res = [class |-> c, gateways |-> [g \in gs |-> gw[g].edit],
                  routes |-> NoObjects]
    PROVE  /\ res \in Results
           /\ res.class = c /\ res.gateways = [g \in gs |-> gw[g].edit]
           /\ DOMAIN res.routes = {}
           /\ new.built = Append(rec.built, res) /\ new.todo = rec.todo \ {c}
           /\ new.left = gs /\ new.lossy = (rec.lossy \/ lost)
           /\ new.pc \in {"class", "routes", "store"}
           /\ new.pc # "routes" => new.left = {}
           /\ new.pc = "store" => new.todo = {}
           /\ new = [pc |-> new.pc, todo |-> new.todo, left |-> new.left,
                     built |-> new.built, lossy |-> new.lossy]
<1>1. res \in Results
  BY ListedType
<1>2. /\ res.class = c /\ res.gateways = [g \in gs |-> gw[g].edit]
      /\ DOMAIN res.routes = {}
  BY NoObjectsType
<1>3. PICK pc : pc = NextPhase(rec.todo \ {c}, gs)
  OBVIOUS
<1>4. new = [rec EXCEPT !.pc = pc, !.todo = @ \ {c}, !.left = gs,
                        !.built = Append(@, res), !.lossy = @ \/ lost]
  BY <1>3 DEF AddClass
<1>5. /\ new.built = Append(rec.built, res) /\ new.todo = rec.todo \ {c}
      /\ new.left = gs /\ new.lossy = (rec.lossy \/ lost) /\ new.pc = pc
      /\ new = [pc |-> new.pc, todo |-> new.todo, left |-> new.left,
                built |-> new.built, lossy |-> new.lossy]
  BY <1>4, RecHas
<1>6. /\ pc \in {"class", "routes", "store"}
      /\ pc # "routes" => gs = {}
      /\ pc = "store" => rec.todo \ {c} = {}
  BY <1>3, NextPhaseIs
<1>7. /\ new.pc \in {"class", "routes", "store"}
      /\ new.pc # "routes" => new.left = {}
      /\ new.pc = "store" => new.todo = {}
  BY <1>5, <1>6
<1> QED BY <1>1, <1>2, <1>5, <1>7

(* The List of the gateways of one class keeps the types.                    *)
LEMMA processGatewaysType ==
    ASSUME TypeInv, NEW c \in Classes, processGateways(c)
    PROVE  TypeInv'
<1>1. PICK gs \in SUBSET GatewaysOf(c), lost \in BOOLEAN :
        /\ rec' = AddClass(c, gs, lost)
        /\ faults' \in 0 .. MaxEvents /\ edits + faults' <= MaxEvents
  BY ReadStep
<1>2. /\ UNCHANGED <<cluster, translator, xds, process>>
      /\ UNCHANGED <<pending, view, updates, lossy>>
      /\ c \in rec.todo
  BY DEF processGateways
<1>0. PICK res, new :
        /\ res = [class |-> c, gateways |-> [g \in gs |-> gw[g].edit],
                  routes |-> NoObjects]
        /\ new = rec' /\ new = AddClass(c, gs, lost)
  BY <1>1
<1>3. /\ res \in Results /\ res.class = c
      /\ rec'.built = Append(rec.built, res) /\ rec'.todo = rec.todo \ {c}
      /\ rec'.left = gs /\ rec'.lossy = (rec.lossy \/ lost)
      /\ rec'.pc \in {"class", "routes", "store"}
      /\ rec'.pc # "routes" => rec'.left = {}
      /\ rec'.pc = "store" => rec'.todo = {}
      /\ rec' = [pc |-> rec'.pc, todo |-> rec'.todo, left |-> rec'.left,
                 built |-> rec'.built, lossy |-> rec'.lossy]
  BY <1>0, AddClassIs
<1>4. rec'.lossy \in BOOLEAN /\ rec'.left \in SUBSET Gateways
  BY <1>3 DEF GatewaysOf
<1>5. /\ Append(rec.built, res) \in Seq(Results)
      /\ Append(rec.built, res) # <<>>
  BY <1>3, RecHas, PutLast
<1>6. rec' \in [pc : {"idle", "class", "routes", "store"},
                todo : SUBSET Classes, left : SUBSET Gateways,
                built : Views, lossy : BOOLEAN]
  BY <1>3, <1>4, <1>5, RecHas DEF Views
<1>7. \A i \in DOMAIN rec'.built : rec'.built[i].class \notin rec'.todo
  <2>1. \A i \in DOMAIN rec.built : rec.built[i].class \notin rec.todo
    BY DEF TypeInv, TypeOK, ProviderOK
  <2>2. /\ DOMAIN rec'.built = 1 .. Len(rec.built) + 1
        /\ Len(rec.built) \in Nat /\ DOMAIN rec.built = 1 .. Len(rec.built)
        /\ \A i \in 1 .. Len(rec.built) : rec'.built[i] = rec.built[i]
        /\ rec'.built[Len(rec.built) + 1] = res
    BY <1>3, RecHas, PutLast
  <2>3. ASSUME NEW i \in DOMAIN rec'.built
        PROVE  rec'.built[i].class \notin rec'.todo
    <3>1. CASE i \in 1 .. Len(rec.built)
      BY <3>1, <2>1, <2>2, <1>3
    <3>2. CASE i = Len(rec.built) + 1
      BY <3>2, <2>2, <1>3
    <3> QED BY <3>1, <3>2, <2>2
  <2> QED BY <2>3
<1>8. ProviderOK'
  BY <1>2, <1>6, <1>7 DEF TypeInv, TypeOK, ProviderOK
<1>9. \A i \in DOMAIN updates' : updates'[i] # <<>>
  BY <1>2 DEF TypeInv, Phased
<1> QED BY <1>1, <1>2, <1>3, <1>5, <1>8, <1>9, ReconcilerType

(* What the result at hand has once the routes of a gateway were found.      *)
LEMMA RoutesFound ==
    ASSUME TypeInv, rec.pc = "routes", NEW g, NEW routes,
           routes = processHTTPRoute(g)
    PROVE  /\ Current \in Results /\ routes \in Objects(Routes)
           /\ \A r \in DOMAIN Current.routes :
                 r \in DOMAIN routes /\ routes[r] = Current.routes[r]
           /\ \A r \in DOMAIN routes \ DOMAIN Current.routes :
                 r \in Routes /\ route[r].edit > 0 /\ routes[r] = route[r].edit
           /\ \A r \in Routes :
                 route[r].edit > 0 /\ g \in ParentsOf(r) => r \in DOMAIN routes
<1> DEFINE found == {r \in Routes : route[r].edit > 0 /\ g \in ParentsOf(r)}
<1>1. rec.built \in Seq(Results) /\ rec.built # <<>>
  BY RecHas DEF TypeInv, Phased
<1>2. Current \in Results
  BY <1>1, EmptySeq, LenProperties, ElementOfSeq DEF Current
<1>3. PICK held : held = Current.routes
  OBVIOUS
<1>4. /\ held \in Objects(Routes) /\ DOMAIN held \subseteq Routes
      /\ \A r \in DOMAIN held : held[r] \in 1 .. MaxEvents
  BY <1>2, <1>3, ResultHas, ObjectsHave
<1>5. \A r \in found : route[r].edit \in 1 .. MaxEvents
  BY BoundsAssumption DEF TypeInv, TypeOK, ClusterOK, Numbered
<1>6. routes = [r \in DOMAIN held \cup found |->
                  IF r \in DOMAIN held THEN held[r] ELSE route[r].edit]
  BY <1>3 DEF processHTTPRoute
<1>7. DOMAIN held \cup found \in SUBSET Routes
  BY <1>4
<1>8. routes \in [DOMAIN held \cup found -> 1 .. MaxEvents]
  BY <1>4, <1>5, <1>6
<1>9. routes \in Objects(Routes)
  BY <1>7, <1>8, ObjectsAre
<1>10. /\ \A r \in DOMAIN held : r \in DOMAIN routes /\ routes[r] = held[r]
       /\ \A r \in DOMAIN routes \ DOMAIN held :
             r \in Routes /\ route[r].edit > 0 /\ routes[r] = route[r].edit
       /\ \A r \in Routes :
             route[r].edit > 0 /\ g \in ParentsOf(r) => r \in DOMAIN routes
  BY <1>6
<1> QED BY <1>2, <1>3, <1>9, <1>10

(* The step of processHTTPRoutes, with what it has found named.              *)
LEMMA RoutesStep ==
    ASSUME TypeInv, NEW g \in Gateways, processHTTPRoutes(g)
    PROVE  \E routes \in Objects(Routes), lost \in BOOLEAN :
        /\ rec' = AddRoutes(g, routes, lost)
        /\ ~ lost => routes = processHTTPRoute(g)
        /\ faults' \in 0 .. MaxEvents /\ edits + faults' <= MaxEvents
<1>1. rec.pc = "routes" /\ (UNCHANGED faults \/ Fails)
  BY DEF processHTTPRoutes
<1>2. Current.routes \in Objects(Routes) /\ processHTTPRoute(g) \in Objects(Routes)
  BY <1>1, RoutesFound, ResultHas
<1>3. CASE rec' = AddRoutes(g, processHTTPRoute(g), FALSE)
  BY <1>1, <1>2, <1>3, FaultsCount
<1>4. CASE rec' = AddRoutes(g, Current.routes, TRUE)
  BY <1>1, <1>2, <1>4, FaultsCount
<1> QED BY <1>3, <1>4 DEF processHTTPRoutes

(* Adding the routes to the last result gives a view again.                  *)
LEMMA AddRoutesIs ==
    ASSUME TypeInv, rec.pc = "routes", NEW lost \in BOOLEAN, NEW g \in Gateways,
           NEW routes \in Objects(Routes), NEW new,
           new = AddRoutes(g, routes, lost)
    PROVE  /\ new \in [pc : {"idle", "class", "routes", "store"},
                       todo : SUBSET Classes, left : SUBSET Gateways,
                       built : Views, lossy : BOOLEAN]
           /\ new.pc \in {"class", "routes", "store"}
           /\ new.pc = "store" => rec.todo = {}
           /\ new.pc # "routes" => new.left = {}
           /\ new.todo = rec.todo /\ new.left = rec.left \ {g}
           /\ new.lossy = (rec.lossy \/ lost)
           /\ Len(rec.built) \in Nat \ {0} /\ Len(new.built) = Len(rec.built)
           /\ DOMAIN rec.built = 1 .. Len(rec.built)
           /\ DOMAIN new.built = 1 .. Len(rec.built) /\ new.built # <<>>
           /\ \A i \in 1 .. Len(rec.built) - 1 : new.built[i] = rec.built[i]
           /\ \A i \in 1 .. Len(rec.built) :
                 /\ new.built[i].class = rec.built[i].class
                 /\ new.built[i].gateways = rec.built[i].gateways
           /\ new.built[Len(rec.built)].routes = routes
           /\ Current = rec.built[Len(rec.built)]
<1> DEFINE res == [Current EXCEPT !.routes = routes]
<1>1. rec.built \in Seq(Results) /\ rec.built # <<>>
  BY RecHas DEF TypeInv, Phased
<1>2. Len(rec.built) \in Nat \ {0} /\ DOMAIN rec.built = 1 .. Len(rec.built)
  BY <1>1, EmptySeq, LenProperties
<1>3. Current = rec.built[Len(rec.built)] /\ Current \in Results
  BY <1>1, <1>2, ElementOfSeq DEF Current
<1>4. /\ res \in Results /\ res.class = Current.class
      /\ res.gateways = Current.gateways /\ res.routes = routes
  BY <1>3 DEF Results
<1> HIDE DEF res
<1>5. /\ Rebuilt(res) \in Seq(Results) /\ Len(Rebuilt(res)) = Len(rec.built)
      /\ \A i \in 1 .. Len(rec.built) :
            Rebuilt(res)[i] = IF i = Len(rec.built) THEN res ELSE rec.built[i]
  BY <1>1, <1>2, <1>4, ExceptSeq DEF Rebuilt
<1>6. DOMAIN Rebuilt(res) = 1 .. Len(rec.built) /\ Rebuilt(res) # <<>>
  BY <1>1, <1>2, <1>5, LenProperties, EmptySeq
<1>7. PICK pc, built : pc = NextPhase(rec.todo, rec.left \ {g})
                       /\ built = Rebuilt(res)
  OBVIOUS
<1>8. new = [rec EXCEPT !.pc = pc, !.left = @ \ {g},
                        !.built = built, !.lossy = @ \/ lost]
  BY <1>7 DEF AddRoutes, res
<1>9. /\ new.pc = pc /\ new.left = rec.left \ {g}
      /\ new.todo = rec.todo /\ new.built = built
      /\ new.lossy = (rec.lossy \/ lost)
      /\ new = [pc |-> new.pc, todo |-> new.todo, left |-> new.left,
                built |-> new.built, lossy |-> new.lossy]
  BY <1>8, RecHas
<1>10. /\ new.pc \in {"class", "routes", "store"}
       /\ new.pc = "store" => rec.todo = {}
       /\ new.pc # "routes" => new.left = {}
  BY <1>7, <1>9, NextPhaseIs
<1>11. new.lossy \in BOOLEAN
  BY <1>9
<1>12. new.built \in Views /\ new.left \in SUBSET Gateways
  BY <1>5, <1>7, <1>9, RecHas DEF Views
<1>13. new \in [pc : {"idle", "class", "routes", "store"},
                todo : SUBSET Classes, left : SUBSET Gateways,
                built : Views, lossy : BOOLEAN]
  BY <1>9, <1>10, <1>11, <1>12, RecHas
<1>14. \A i \in 1 .. Len(rec.built) - 1 : new.built[i] = rec.built[i]
  BY <1>2, <1>5, <1>7, <1>9
<1>15. /\ \A i \in 1 .. Len(rec.built) :
            /\ new.built[i].class = rec.built[i].class
            /\ new.built[i].gateways = rec.built[i].gateways
       /\ new.built[Len(rec.built)].routes = routes
  BY <1>2, <1>3, <1>4, <1>5, <1>7, <1>9
<1> QED BY <1>2, <1>3, <1>5, <1>6, <1>7, <1>9, <1>10, <1>13, <1>14, <1>15

(* The List of the routes of a gateway keeps the types.                      *)
LEMMA processHTTPRoutesType ==
    ASSUME TypeInv, NEW g \in Gateways, processHTTPRoutes(g)
    PROVE  TypeInv'
<1>1. PICK routes \in Objects(Routes), lost \in BOOLEAN :
        /\ rec' = AddRoutes(g, routes, lost)
        /\ faults' \in 0 .. MaxEvents /\ edits + faults' <= MaxEvents
  BY RoutesStep
<1>2. /\ UNCHANGED <<cluster, translator, xds, process>>
      /\ UNCHANGED <<pending, view, updates, lossy>>
      /\ rec.pc = "routes"
  BY DEF processHTTPRoutes
<1>3. /\ rec' \in [pc : {"idle", "class", "routes", "store"},
                   todo : SUBSET Classes, left : SUBSET Gateways,
                   built : Views, lossy : BOOLEAN]
      /\ rec'.pc \in {"class", "routes", "store"}
      /\ rec'.pc = "store" => rec.todo = {}
      /\ rec'.pc # "routes" => rec'.left = {}
      /\ rec'.todo = rec.todo /\ rec'.built # <<>>
      /\ DOMAIN rec.built = 1 .. Len(rec.built)
      /\ DOMAIN rec'.built = 1 .. Len(rec.built)
      /\ \A i \in 1 .. Len(rec.built) :
            rec'.built[i].class = rec.built[i].class
  BY <1>1, <1>2, AddRoutesIs
<1>4. ProviderOK'
  BY <1>2, <1>3 DEF TypeInv, TypeOK, ProviderOK
<1>5. \A i \in DOMAIN updates' : updates'[i] # <<>>
  BY <1>2 DEF TypeInv, Phased
<1> QED BY <1>1, <1>2, <1>3, <1>4, <1>5, ReconcilerType

(* Storing the view keeps them.                                              *)
LEMMA StoreType ==
    ASSUME TypeInv, Store
    PROVE  TypeInv'
<1>1. /\ UNCHANGED <<cluster, translator, xds, process>>
      /\ faults' = faults /\ pending' = pending
      /\ rec' = Idle /\ view' = rec.built /\ lossy' = rec.lossy
      /\ updates' = Append(updates, rec.built) /\ rec.pc = "store"
  BY DEF Store, HandleSubscription
<1>2. faults' \in 0 .. MaxEvents /\ edits + faults' <= MaxEvents
  BY <1>1 DEF TypeInv, TypeOK, ClusterOK, Numbered
<1>3. rec.built \in Views /\ rec.built # <<>> /\ rec.lossy \in BOOLEAN
  BY <1>1, RecHas DEF TypeInv, Phased
<1>4. updates \in Seq(Views) /\ pending \in BOOLEAN
  BY DEF TypeInv, TypeOK, ProviderOK
<1>5. /\ Len(updates) \in Nat /\ DOMAIN updates = 1 .. Len(updates)
      /\ updates' \in Seq(Views) /\ DOMAIN updates' = 1 .. Len(updates) + 1
      /\ \A i \in 1 .. Len(updates) : updates'[i] = updates[i]
      /\ updates'[Len(updates) + 1] = rec.built
  BY <1>1, <1>3, <1>4, PutLast
<1>6. ProviderOK'
  BY <1>1, <1>3, <1>4, <1>5, IdleIs DEF ProviderOK
<1>7. \A i \in DOMAIN updates' : updates'[i] # <<>>
  <2>1. \A i \in DOMAIN updates : updates[i] # <<>>
    BY DEF TypeInv, Phased
  <2> QED BY <1>3, <1>5, <2>1
<1> QED BY <1>1, <1>2, <1>6, <1>7, IdleIs, ReconcilerType

(* What the translator has left to do.                                       *)
LEMMA TrHas ==
    ASSUME TypeInv
    PROVE  /\ tr.results \in Views /\ tr.results \in Seq(Results)
           /\ tr.xds \in SUBSET Gateways
           /\ tr.res \in Results \cup {None}
           /\ tr.xds # {} => /\ tr.res \in Results
                             /\ tr.xds \subseteq DOMAIN tr.res.gateways
           /\ tr = [results |-> tr.results, res |-> tr.res, xds |-> tr.xds]
BY DEF TypeInv, TypeOK, TranslatorOK, Phased, Views

(* What the translator has left of a result.                                 *)
LEMMA LeftIs ==
    ASSUME NEW results \in Views, NEW res \in Results,
           NEW X \in SUBSET (DOMAIN res.gateways),
           NEW t, t = Left([results |-> results, res |-> res, xds |-> X])
    PROVE  /\ t \in [results : Views, res : Results \cup {None},
                     xds : SUBSET Gateways]
           /\ t.results = results /\ t.xds = X
           /\ t.res # None => t.xds \subseteq DOMAIN t.res.gateways
           /\ t.xds # {} => t.res = res /\ t.res # None
           /\ t.xds = {} /\ t.results = <<>> => t = NoWork
<1> DEFINE w == [results |-> results, res |-> res, xds |-> X]
<1>1. DOMAIN res.gateways \subseteq Gateways
  BY ResultHas
<1>2. /\ w \in [results : Views, res : Results \cup {None},
                xds : SUBSET Gateways]
      /\ w.results = results /\ w.xds = X /\ w.res = res
  BY <1>1
<1>3. res # None
  BY NothingAssumption
<1> HIDE DEF w
<1>4. CASE X = {} /\ results = <<>>
  <2>1. Left(w) = NoWork
    BY <1>2, <1>4 DEF Left
  <2> QED BY <2>1, <1>4, NoWorkIs DEF w
<1>5. CASE ~ (X = {} /\ results = <<>>)
  <2>1. t = w
    BY <1>2, <1>5 DEF Left, w
  <2>2. /\ w.xds = {} /\ w.results = <<>> => w = NoWork
        /\ w.res # None => w.xds \subseteq DOMAIN w.res.gateways
        /\ w.xds # {} => w.res = res /\ w.res # None
    BY <1>2, <1>3, <1>5
  <2> QED BY <2>1, <2>2, <1>2
<1> QED BY <1>4, <1>5

(* The step of Translate: the first result of the view at hand or of the     *)
(* next one.                                                                 *)
LEMMA TranslateStep ==
    ASSUME TypeInv, Translate
    PROVE  \E results \in Views :
        /\ results # <<>>
        /\ \/ tr.results # <<>> /\ results = tr.results /\ updates' = updates
           \/ /\ tr = NoWork /\ updates # <<>> /\ results = Head(updates)
              /\ updates' = Tail(updates)
        /\ infraIR' = infraIR \cup DOMAIN Head(results).gateways
        /\ tr.xds = {} /\ Head(results) \in Results
        /\ Tail(results) \in Views
        /\ tr' = Left([results |-> Tail(results), res |-> Head(results),
                       xds |-> DOMAIN Head(results).gateways])
<1>1. PICK results :
        /\ results = IF tr = NoWork THEN Head(updates) ELSE tr.results
        /\ infraIR' = infraIR \cup InitIRs(Head(results))
        /\ tr' = Left([results |-> Tail(results), res |-> Head(results),
                       xds |-> InitIRs(Head(results))])
  BY DEF Translate
<1>2. tr.xds = {}
  BY DEF Translate
<1>3. \/ tr.results # <<>> /\ updates' = updates
      \/ tr = NoWork /\ updates # <<>> /\ updates' = Tail(updates)
  BY DEF Translate
<1>4. /\ results \in Views /\ results # <<>>
      /\ \/ tr.results # <<>> /\ results = tr.results /\ updates' = updates
         \/ /\ tr = NoWork /\ updates # <<>> /\ results = Head(updates)
            /\ updates' = Tail(updates)
  <2>1. CASE tr.results # <<>> /\ updates' = updates
    BY <2>1, <1>1, TrHas, NoWorkIs
  <2>2. CASE tr = NoWork /\ updates # <<>> /\ updates' = Tail(updates)
    <3>1. updates \in Seq(Views) /\ \A i \in DOMAIN updates : updates[i] # <<>>
      BY DEF TypeInv, TypeOK, ProviderOK, Phased
    <3>2. Head(updates) \in Views /\ Head(updates) # <<>>
      BY <2>2, <3>1, TakeFirst
    <3> QED BY <2>2, <3>2, <1>1
  <2> QED BY <1>3, <2>1, <2>2
<1>5. Head(results) \in Results /\ Tail(results) \in Views
  BY <1>4, TakeFirst DEF Views
<1>6. InitIRs(Head(results)) = DOMAIN Head(results).gateways
  BY DEF InitIRs, GetRelevantGateways
<1> QED BY <1>1, <1>2, <1>4, <1>5, <1>6

(* Taking a result keeps the types,                                          *)
LEMMA TranslateType ==
    ASSUME TypeInv, Translate
    PROVE  TypeInv'
<1>1. PICK results \in Views :
        /\ updates' = updates \/ (updates # <<>> /\ updates' = Tail(updates))
        /\ infraIR' = infraIR \cup DOMAIN Head(results).gateways
        /\ Head(results) \in Results /\ Tail(results) \in Views
        /\ tr' = Left([results |-> Tail(results), res |-> Head(results),
                       xds |-> DOMAIN Head(results).gateways])
  BY TranslateStep
<1>2. /\ UNCHANGED <<xdsIR, pending, rec, view, lossy>>
      /\ UNCHANGED <<cluster, xds, process, faults>>
  BY DEF Translate
<1>3. ClusterOK' /\ Numbered'
  BY <1>2, SameCluster
<1>4. XdsOK' /\ ProcessOK'
  BY <1>2 DEF TypeInv, TypeOK, XdsOK, ProcessOK, xds, process
<1>5. updates' \in Seq(Views) /\ \A i \in DOMAIN updates' : updates'[i] # <<>>
  <2>1. updates \in Seq(Views) /\ \A i \in DOMAIN updates : updates[i] # <<>>
    BY DEF TypeInv, TypeOK, ProviderOK, Phased
  <2>2. CASE updates # <<>> /\ updates' = Tail(updates)
    <3>1. /\ Len(updates) \in Nat \ {0} /\ DOMAIN updates = 1 .. Len(updates)
          /\ Tail(updates) \in Seq(Views)
          /\ DOMAIN Tail(updates) = 1 .. Len(updates) - 1
          /\ \A i \in 1 .. Len(updates) - 1 : Tail(updates)[i] = updates[i + 1]
      BY <2>1, <2>2, TakeFirst
    <3> QED BY <2>1, <2>2, <3>1
  <2> QED BY <1>1, <2>1, <2>2
<1>6. ProviderOK'
  BY <1>2, <1>5 DEF TypeInv, TypeOK, ProviderOK
<1>7. /\ tr' \in [results : Views, res : Results \cup {None},
                  xds : SUBSET Gateways]
      /\ tr'.res # None => tr'.xds \subseteq DOMAIN tr'.res.gateways
      /\ tr'.xds # {} => tr'.res # None
      /\ tr'.xds = {} /\ tr'.results = <<>> => tr' = NoWork
  <2>1. PICK res \in Results, rest \in Views :
          tr' = Left([results |-> rest, res |-> res,
                      xds |-> DOMAIN res.gateways])
    BY <1>1
  <2>2. PICK X \in SUBSET (DOMAIN res.gateways) : X = DOMAIN res.gateways
    OBVIOUS
  <2>3. tr' = Left([results |-> rest, res |-> res, xds |-> X])
    BY <2>1, <2>2
  <2> QED BY <2>3, LeftIs
<1>8. TranslatorOK'
  BY <1>1, <1>2, <1>7, ResultHas DEF TypeInv, TypeOK, TranslatorOK
<1>9. Phased'
  BY <1>2, <1>5, <1>7 DEF TypeInv, Phased
<1> QED BY <1>3, <1>4, <1>6, <1>8, <1>9 DEF TypeInv, TypeOK

(* The step of StoreXdsIR.                                                   *)
LEMMA StoreXdsIRStep ==
    ASSUME TypeInv, NEW g \in Gateways, StoreXdsIR(g)
    PROVE  \E ir \in Representations :
        /\ ir = buildIR(tr.res, g) /\ ir.gateway = tr.res.gateways[g]
        /\ tr.res \in Results /\ g \in DOMAIN tr.res.gateways
        /\ xdsIR' = [xdsIR EXCEPT ![g] = ir]
        /\ \/ ~ subscribed /\ xdsQ' = xdsQ
           \/ subscribed /\ xdsQ' = Append(xdsQ, [key |-> g, ir |-> ir])
        /\ tr' = Left([results |-> tr.results, res |-> tr.res,
                       xds |-> tr.xds \ {g}])
<1>1. /\ tr.res \in Results /\ g \in tr.xds /\ g \in DOMAIN tr.res.gateways
      /\ tr = [results |-> tr.results, res |-> tr.res, xds |-> tr.xds]
  BY TrHas DEF StoreXdsIR
<1>2. PICK ir : /\ ir = buildIR(tr.res, g)
                /\ xdsIR' = [xdsIR EXCEPT ![g] = ir]
                /\ xdsQ' = IF ~ subscribed THEN xdsQ
                           ELSE Append(xdsQ, [key |-> g, ir |-> ir])
  BY DEF StoreXdsIR, HandleSubscription
<1>3. ir \in Representations /\ ir.gateway = tr.res.gateways[g]
  BY <1>1, <1>2, buildIRType
<1>4. tr' = Left([tr EXCEPT !.xds = @ \ {g}])
  BY DEF StoreXdsIR
<1>5. [tr EXCEPT !.xds = @ \ {g}] =
        [results |-> tr.results, res |-> tr.res, xds |-> tr.xds \ {g}]
  BY <1>1
<1>6. \/ ~ subscribed /\ xdsQ' = xdsQ
      \/ subscribed /\ xdsQ' = Append(xdsQ, [key |-> g, ir |-> ir])
  BY <1>2
<1> QED BY <1>1, <1>2, <1>3, <1>4, <1>5, <1>6

(* storing a representation,                                                 *)
LEMMA StoreXdsIRType ==
    ASSUME TypeInv, NEW g \in Gateways, StoreXdsIR(g)
    PROVE  TypeInv'
<1>1. PICK ir \in Representations :
        /\ tr.res \in Results
        /\ xdsIR' = [xdsIR EXCEPT ![g] = ir]
        /\ xdsQ' = xdsQ \/ xdsQ' = Append(xdsQ, [key |-> g, ir |-> ir])
        /\ tr' = Left([results |-> tr.results, res |-> tr.res,
                       xds |-> tr.xds \ {g}])
  BY StoreXdsIRStep
<1>2. /\ UNCHANGED <<infraIR, snapshot, version>>
      /\ UNCHANGED <<cluster, provider, process, faults>> /\ g \in tr.xds
  BY DEF StoreXdsIR
<1>3. ClusterOK' /\ Numbered'
  BY <1>2, SameCluster
<1>4. ProcessOK' /\ ProviderOK'
  BY <1>2 DEF TypeInv, TypeOK, ProviderOK, ProcessOK, process, provider
<1>5. xdsQ' \in Seq(Entries)
  <2>1. xdsQ \in Seq(Entries) /\ [key |-> g, ir |-> ir] \in Entries
    BY QueueHas DEF TypeInv, TypeOK, Entries
  <2>2. Append(xdsQ, [key |-> g, ir |-> ir]) \in Seq(Entries)
    BY <2>1, PutLast
  <2> QED BY <1>1, <2>1, <2>2
<1>6. XdsOK'
  BY <1>2, <1>5 DEF TypeInv, TypeOK, XdsOK, Entries
<1>7. /\ tr.results \in Views
      /\ tr.xds \ {g} \in SUBSET (DOMAIN tr.res.gateways)
  BY <1>2, TrHas
<1>8. /\ tr' \in [results : Views, res : Results \cup {None},
                  xds : SUBSET Gateways]
      /\ tr'.res # None => tr'.xds \subseteq DOMAIN tr'.res.gateways
      /\ tr'.xds # {} => tr'.res # None
      /\ tr'.xds = {} /\ tr'.results = <<>> => tr' = NoWork
  BY <1>1, <1>7, LeftIs
<1>9. TranslatorOK'
  BY <1>1, <1>2, <1>8 DEF TypeInv, TypeOK, TranslatorOK
<1>10. Phased'
  BY <1>2, <1>8 DEF TypeInv, Phased, provider
<1> QED BY <1>3, <1>4, <1>6, <1>9, <1>10 DEF TypeInv, TypeOK

(* The step of Subscribe: a queue of the stored representations.             *)
LEMMA SubscribeStep ==
    ASSUME TypeInv, Subscribe
    PROVE  /\ xdsQ' \in Seq(Entries)
           /\ \A i \in DOMAIN xdsQ' : /\ xdsQ'[i].key \in Gateways
                                      /\ xdsIR[xdsQ'[i].key] # None
                                      /\ xdsQ'[i].ir = xdsIR[xdsQ'[i].key]
<1> DEFINE stored == {g \in Gateways : xdsIR[g] # None}
           n == Cardinality(stored)
<1>1. n \in Nat
  BY FiniteAssumption, FS_Subset, FS_CardinalityType
<1> HIDE DEF n
<1>2. PICK keys \in [1 .. n -> stored] :
        xdsQ' = [i \in DOMAIN keys |->
                    [key |-> keys[i], ir |-> xdsIR[keys[i]]]]
  BY DEF Subscribe, n
<1>3. \A i \in 1 .. n : /\ keys[i] \in Gateways /\ xdsIR[keys[i]] # None
                        /\ xdsIR[keys[i]] \in Representations
  BY DEF TypeInv, TypeOK, TranslatorOK
<1>4. /\ DOMAIN xdsQ' = 1 .. n
      /\ \A i \in 1 .. n : /\ xdsQ'[i].key = keys[i]
                           /\ xdsQ'[i].ir = xdsIR[keys[i]]
                           /\ xdsQ'[i] \in Entries
  BY <1>2, <1>3 DEF Entries
<1>5. xdsQ' \in [1 .. n -> Entries]
  BY <1>2, <1>3 DEF Entries
<1>6. xdsQ' \in Seq(Entries)
  BY <1>1, <1>5, SeqDef
<1> QED BY <1>3, <1>4, <1>6

(* a late subscription,                                                      *)
LEMMA SubscribeType ==
    ASSUME TypeInv, Subscribe
    PROVE  TypeInv'
<1>1. /\ UNCHANGED <<cluster, provider, translator, snapshot, version>>
      /\ UNCHANGED <<alive, faults>> /\ subscribed' = TRUE
  BY DEF Subscribe
<1>2. ClusterOK' /\ Numbered'
  BY <1>1, SameCluster
<1>3. ProviderOK' /\ ProcessOK'
  BY <1>1 DEF TypeInv, TypeOK, ProviderOK, ProcessOK, provider
<1>4. TranslatorOK'
  BY <1>1 DEF TypeInv, TypeOK, TranslatorOK, translator
<1>5. XdsOK'
  BY <1>1, SubscribeStep DEF TypeInv, TypeOK, XdsOK, Entries
<1>6. Phased'
  BY <1>1 DEF TypeInv, Phased, provider, translator
<1> QED BY <1>2, <1>3, <1>4, <1>5, <1>6 DEF TypeInv, TypeOK

(* The step of HandleXdsIR: the snapshot of the first entry's node, or none. *)
LEMMA HandleXdsIRStep ==
    ASSUME TypeInv, HandleXdsIR
    PROVE  /\ xdsQ # <<>> /\ xdsQ' = Tail(xdsQ) /\ Head(xdsQ) \in Entries
           /\ \/ UNCHANGED <<snapshot, version>>
              \/ \E v \in 1 .. MaxVersion :
                    /\ version' = v /\ v = newSnapshotVersion(version)
                    /\ snapshot' = [snapshot EXCEPT ![Head(xdsQ).key] =
                            [ir |-> Head(xdsQ).ir, version |-> v]]
<1>1. xdsQ # <<>> /\ xdsQ' = Tail(xdsQ)
  BY DEF HandleXdsIR
<1>2. Head(xdsQ) \in Entries
  BY <1>1, QueueHas, TakeFirst DEF TypeInv, TypeOK
<1>3. Head(xdsQ).ir # None
  BY <1>2, NothingAssumption DEF Entries
<1>4. newSnapshotVersion(version) \in 1 .. MaxVersion
  BY BoundsAssumption DEF TypeInv, TypeOK, XdsOK, newSnapshotVersion
<1>5. \/ UNCHANGED <<snapshot, version>>
      \/ SetSnapshotCache(Head(xdsQ).key, Head(xdsQ).ir)
  BY <1>3 DEF HandleXdsIR, XdsTables
<1> QED BY <1>1, <1>2, <1>4, <1>5 DEF SetSnapshotCache

(* and a new snapshot.                                                       *)
LEMMA HandleXdsIRType ==
    ASSUME TypeInv, HandleXdsIR
    PROVE  TypeInv'
<1>1. UNCHANGED <<cluster, provider, translator, process, faults>>
  BY DEF HandleXdsIR
<1>2. ClusterOK' /\ Numbered'
  BY <1>1, SameCluster
<1>3. ProviderOK' /\ ProcessOK'
  BY <1>1 DEF TypeInv, TypeOK, ProviderOK, ProcessOK, provider, process
<1>4. TranslatorOK'
  BY <1>1 DEF TypeInv, TypeOK, TranslatorOK, translator
<1>5. xdsQ' \in Seq(Entries)
  BY HandleXdsIRStep, QueueHas, TakeFirst DEF TypeInv, TypeOK
<1>6. XdsOK'
  <2>1. /\ snapshot \in [Gateways -> Snapshots \cup {None}]
        /\ version \in 0 .. MaxVersion
        /\ Head(xdsQ).key \in Gateways /\ Head(xdsQ).ir \in Representations
    BY HandleXdsIRStep DEF TypeInv, TypeOK, XdsOK, Entries
  <2>2. CASE UNCHANGED <<snapshot, version>>
    BY <1>5, <2>1, <2>2 DEF XdsOK, Entries
  <2>3. ASSUME NEW v \in 1 .. MaxVersion, version' = v,
               snapshot' = [snapshot EXCEPT ![Head(xdsQ).key] =
                                [ir |-> Head(xdsQ).ir, version |-> v]]
        PROVE  XdsOK'
    <3>1. [ir |-> Head(xdsQ).ir, version |-> v] \in Snapshots
      BY <2>1 DEF Snapshots
    <3>2. version' \in 0 .. MaxVersion
      BY <2>3, BoundsAssumption
    <3>3. snapshot' \in [Gateways -> Snapshots \cup {None}]
      BY <2>1, <2>3, <3>1
    <3> QED BY <1>5, <3>2, <3>3 DEF XdsOK, Entries
  <2> QED BY <2>2, <2>3, HandleXdsIRStep
<1>7. Phased'
  BY <1>1 DEF TypeInv, Phased, provider, translator
<1> QED BY <1>2, <1>3, <1>4, <1>6, <1>7 DEF TypeInv, TypeOK

(* Empty memory is well typed,                                               *)
LEMMA MemoryType ==
    ASSUME TypeInv, UNCHANGED <<cluster, faults>>, NEW a \in BOOLEAN,
           Memory(a), pending' \in BOOLEAN
    PROVE  TypeInv'
<1>1. ClusterOK' /\ Numbered'
  BY SameCluster
<1>2. ProviderOK'
  BY IdleIs, EmptySeq DEF Memory, ProviderOK
<1>3. TranslatorOK'
  BY NoWorkIs DEF Memory, TranslatorOK
<1>4. XdsOK'
  BY EmptySeq, BoundsAssumption DEF Memory, XdsOK
<1>5. ProcessOK'
  BY DEF Memory, ProcessOK
<1>6. Phased'
  BY IdleIs, NoWorkIs, EmptySeq DEF Memory, Phased
<1> QED BY <1>1, <1>2, <1>3, <1>4, <1>5, <1>6 DEF TypeInv, TypeOK

(* after the panic of the infra manager                                      *)
LEMMA CreateOrUpdateProxyInfraType ==
    ASSUME TypeInv, CreateOrUpdateProxyInfra
    PROVE  TypeInv'
BY MemoryType
DEF CreateOrUpdateProxyInfra, TypeInv, TypeOK, ProcessOK

(* and after a restart.                                                      *)
LEMMA RestartType ==
    ASSUME TypeInv, Restart
    PROVE  TypeInv'
<1>1. Created \in BOOLEAN
  BY DEF Created
<1> QED BY <1>1, MemoryType DEF Restart

(* Every step keeps the types.                                               *)
LEMMA NextType ==
    ASSUME TypeInv, [Next]_vars
    PROVE  TypeInv'
<1>1. CASE Environment
  BY <1>1, EnvironmentType
<1>2. CASE ReconcileStep
  BY <1>2, ReconcileType, processGatewaysType, processHTTPRoutesType,
     StoreType DEF ReconcileStep
<1>3. CASE TranslatorStep
  BY <1>3, TranslateType, StoreXdsIRType DEF TranslatorStep
<1>4. CASE HandleXdsIR \/ Subscribe
  BY <1>4, HandleXdsIRType, SubscribeType
<1>5. CASE CreateOrUpdateProxyInfra \/ Restart
  BY <1>5, CreateOrUpdateProxyInfraType, RestartType
<1>6. CASE UNCHANGED vars
  <2>1. ClusterOK' /\ Numbered'
    BY <1>6, SameCluster DEF vars
  <2>2. ProviderOK' /\ ProcessOK' /\ XdsOK'
    BY <1>6 DEF TypeInv, TypeOK, ProviderOK, ProcessOK, XdsOK, provider,
                process, xds, vars
  <2>3. TranslatorOK'
    BY <1>6 DEF TypeInv, TypeOK, TranslatorOK, translator, vars
  <2>4. Phased'
    BY <1>6 DEF TypeInv, Phased, provider, translator, vars
  <2> QED BY <2>1, <2>2, <2>3, <2>4 DEF TypeInv, TypeOK
<1> QED BY <1>1, <1>2, <1>3, <1>4, <1>5, <1>6 DEF Next

(* What the three goroutines hold is always a value of its kind: every       *)
(* number is one of an edit that was made, and a Reconcile never has a class *)
(* both read and still to read.                                              *)
THEOREM PipelineTypes == Spec => []TypeOK
<1>1. Init => TypeInv
  BY InitType
<1>2. TypeInv /\ [Next]_vars => TypeInv'
  BY NextType
<1>3. TypeInv => TypeOK
  BY DEF TypeInv
<1> QED BY <1>1, <1>2, <1>3, PTL DEF Spec

-----------------------------------------------------------------------------
(* The order of the edits                                                  *)

(* At every stage the edits of a gateway are numbers.                        *)
LEMMA StagesAreNumbers ==
    ASSUME TypeInv, NEW g \in Gateways
    PROVE  /\ {gw[g].edit} \subseteq Nat
           /\ EditsIn(rec.built, g) \subseteq Nat
           /\ Waiting(g) \subseteq Nat
           /\ EditsIn(tr.results, g) \subseteq Nat
           /\ AtHand(g) \subseteq Nat
           /\ Represented(g) \subseteq Nat
           /\ Queued(g) \subseteq Nat
           /\ {Served[g]} \subseteq Nat
<1>1. \A v \in Views : EditsIn(v, g) \subseteq Nat
  <2> SUFFICES ASSUME NEW v \in Views, NEW i \in DOMAIN v,
                      g \in DOMAIN v[i].gateways
               PROVE  v[i].gateways[g] \in Nat
    BY DEF EditsIn
  <2>1. v[i].gateways[g] \in 1 .. MaxEvents
    BY ViewHas, ResultHas
  <2> QED BY <2>1, BoundsAssumption
<1>2. {gw[g].edit} \subseteq Nat
  BY DEF TypeInv, TypeOK, ClusterOK
<1>3. Waiting(g) \subseteq Nat
  BY <1>1, UpdatesHave DEF Waiting, TypeInv, TypeOK
<1>4. AtHand(g) \subseteq Nat
  <2> SUFFICES ASSUME g \in tr.xds
               PROVE  tr.res.gateways[g] \in Nat
    BY DEF AtHand
  <2>1. tr.res.gateways[g] \in 1 .. MaxEvents
    BY TrHas, ResultHas
  <2> QED BY <2>1, BoundsAssumption
<1>5. Represented(g) \subseteq Nat
  <2> SUFFICES ASSUME xdsIR[g] # None
               PROVE  xdsIR[g].gateway \in Nat
    BY DEF Represented
  <2>1. xdsIR[g] \in Representations
    BY DEF TypeInv, TypeOK, TranslatorOK
  <2> QED BY <2>1, BoundsAssumption DEF Representations
<1>6. Queued(g) \subseteq Nat
  BY QueueHas, BoundsAssumption DEF Queued, Representations, TypeInv, TypeOK
<1>7. {Served[g]} \subseteq Nat
  <2>1. snapshot[g] \in Snapshots \cup {None}
    BY DEF TypeInv, TypeOK, XdsOK
  <2>2. snapshot[g] # None => snapshot[g].ir.gateway \in Nat
    BY <2>1, BoundsAssumption DEF Snapshots, Representations
  <2> QED BY <2>2 DEF Served
<1> QED BY <1>1, <1>2, <1>3, <1>4, <1>5, <1>6, <1>7, RecHas, TrHas

(* The stages a step leaves alone.                                           *)
LEMMA SameStages ==
    ASSUME NEW g \in Gateways
    PROVE  /\ UNCHANGED rec => EditsIn(rec.built, g)' = EditsIn(rec.built, g)
           /\ UNCHANGED updates => Waiting(g)' = Waiting(g)
           /\ UNCHANGED tr => /\ EditsIn(tr.results, g)' = EditsIn(tr.results, g)
                              /\ AtHand(g)' = AtHand(g)
           /\ UNCHANGED xdsIR => Represented(g)' = Represented(g)
           /\ UNCHANGED xdsQ => Queued(g)' = Queued(g)
           /\ UNCHANGED snapshot => Served'[g] = Served[g]
<1>1. UNCHANGED rec => EditsIn(rec.built, g)' = EditsIn(rec.built, g)
  BY DEF EditsIn
<1>2. UNCHANGED updates => Waiting(g)' = Waiting(g)
  BY DEF Waiting, EditsIn
<1>3. UNCHANGED tr => /\ EditsIn(tr.results, g)' = EditsIn(tr.results, g)
                      /\ AtHand(g)' = AtHand(g)
  BY DEF EditsIn, AtHand
<1>4. UNCHANGED xdsIR => Represented(g)' = Represented(g)
  BY DEF Represented
<1>5. UNCHANGED xdsQ => Queued(g)' = Queued(g)
  BY DEF Queued
<1>6. UNCHANGED snapshot => Served'[g] = Served[g]
  BY DEF Served
<1> QED BY <1>1, <1>2, <1>3, <1>4, <1>5, <1>6

(* A smaller stage keeps the chain, and so does one that takes over what the *)
(* stage before it held.                                                     *)
LEMMA ChainShrinks ==
    ASSUME NEW E, NEW V, NEW W, NEW R, NEW H, NEW P, NEW Q, NEW S,
           Chain(E, V, W, R, H, P, Q, S),
           NEW V1 \in SUBSET V, NEW W1 \in SUBSET W, NEW R1 \in SUBSET R,
           NEW H1 \in SUBSET H, NEW P1 \in SUBSET P, NEW Q1 \in SUBSET Q
    PROVE  Chain(E, V1, W1, R1, H1, P1, Q1, S)
BY DEF Chain, AtMost

(* What a step does to the order of the stages: an edit raises the newest;   *)
LEMMA ChainEdits ==
    ASSUME NEW e \in Nat, NEW f \in Nat, e <= f,
           NEW V \in SUBSET Nat, NEW W \in SUBSET Nat, NEW R \in SUBSET Nat,
           NEW H \in SUBSET Nat, NEW P \in SUBSET Nat, NEW Q \in SUBSET Nat,
           NEW S \in SUBSET Nat, Chain({e}, V, W, R, H, P, Q, S)
    PROVE  Chain({f}, V, W, R, H, P, Q, S)
<1>1. \A X \in SUBSET Nat : AtMost(X, {e}) => AtMost(X, {f})
  BY DEF AtMost
<1>2. /\ AtMost(V, {e}) /\ AtMost(W, {e}) /\ AtMost(R, {e}) /\ AtMost(H, {e})
      /\ AtMost(P, {e}) /\ AtMost(Q, {e}) /\ AtMost(S, {e})
  BY DEF Chain, AtMost
<1>3. /\ AtMost(V, {f}) /\ AtMost(W, {f}) /\ AtMost(R, {f}) /\ AtMost(H, {f})
      /\ AtMost(P, {f}) /\ AtMost(Q, {f}) /\ AtMost(S, {f})
  BY <1>1, <1>2
<1> QED BY <1>3 DEF Chain, AtMost

(* a List reads the newest;                                                  *)
LEMMA ChainReads ==
    ASSUME NEW e \in Nat, NEW V, NEW W, NEW R, NEW H, NEW P, NEW Q, NEW S,
           Chain({e}, V, W, R, H, P, Q, S), NEW V1 \in SUBSET (V \cup {e})
    PROVE  Chain({e}, V1, W, R, H, P, Q, S)
BY DEF Chain, AtMost

(* Store hands the view on;                                                  *)
LEMMA ChainStores ==
    ASSUME NEW E, NEW V, NEW W, NEW R, NEW H, NEW P, NEW Q, NEW S,
           Chain(E, V, W, R, H, P, Q, S), NEW W1 \in SUBSET (W \cup V)
    PROVE  Chain(E, {}, W1, R, H, P, Q, S)
BY DEF Chain, AtMost

(* Translate takes the oldest view, result by result;                        *)
LEMMA ChainTranslates ==
    ASSUME NEW E, NEW V, NEW W, NEW R, NEW P, NEW Q, NEW S,
           Chain(E, V, W, R, {}, P, Q, S),
           NEW W1 \in SUBSET W, NEW R1 \in SUBSET (R \cup W),
           NEW H1 \in SUBSET (R \cup W), AtMost(R1, W1), AtMost(H1, W1),
           AtMost(H1, R1)
    PROVE  Chain(E, V, W1, R1, H1, P, Q, S)
BY DEF Chain, AtMost

(* StoreXdsIR makes the edit at hand the represented one;                    *)
LEMMA ChainRepresents ==
    ASSUME NEW E, NEW V, NEW W, NEW R, NEW h \in Nat, NEW P, NEW Q, NEW S,
           Chain(E, V, W, R, {h}, P, Q, S), NEW Q1 \in SUBSET (Q \cup {h})
    PROVE  Chain(E, V, W, R, {}, {h}, Q1, S)
BY DEF Chain, AtMost

(* a subscriber starts from what is represented;                             *)
LEMMA ChainSubscribes ==
    ASSUME NEW E, NEW V, NEW W, NEW R, NEW H, NEW P, NEW Q, NEW S,
           Chain(E, V, W, R, H, P, Q, S), NEW Q1 \in SUBSET P, AtMost(P, P)
    PROVE  Chain(E, V, W, R, H, P, Q1, S)
BY DEF Chain, AtMost

(* HandleXdsIR serves the oldest of the queue;                               *)
LEMMA ChainServes ==
    ASSUME NEW E, NEW V, NEW W, NEW R, NEW H, NEW P, NEW Q, NEW S,
           Chain(E, V, W, R, H, P, Q, S),
           NEW Q1 \in SUBSET Q, NEW S1 \in SUBSET Q, AtMost(S1, Q1)
    PROVE  Chain(E, V, W, R, H, P, Q1, S1)
BY DEF Chain, AtMost

(* with empty memory nothing is out of order.                                *)
LEMMA ChainForgets ==
    ASSUME NEW e \in Nat
    PROVE  Chain({e}, {}, {}, {}, {}, {}, {}, {0})
BY DEF Chain, AtMost

(* The parts of OrderInv.                                                    *)
LEMMA SameOrder ==
    ASSUME OrderInv
    PROVE  /\ UNCHANGED rec => Ascends(rec.built)'
           /\ UNCHANGED tr => Ascends(tr.results)'
           /\ UNCHANGED updates => ViewsAscend'
           /\ UNCHANGED xdsQ => QueueAscends'
<1>1. UNCHANGED rec => Ascends(rec.built)'
  BY DEF OrderInv, Ascends
<1>2. UNCHANGED tr => Ascends(tr.results)'
  BY DEF OrderInv, Ascends
<1>3. UNCHANGED updates => ViewsAscend'
  BY DEF OrderInv, ViewsAscend, Ascends, EditsIn
<1>4. UNCHANGED xdsQ => QueueAscends'
  BY DEF OrderInv, QueueAscends
<1> QED BY <1>1, <1>2, <1>3, <1>4

(* Of the gateways, at most one is written by a change of the cluster.       *)
LEMMA GatewayWritten ==
    ASSUME TypeInv, Environment
    PROVE  /\ UNCHANGED Unobserved
           /\ \/ \A g \in Gateways : gw'[g].edit = gw[g].edit
              \/ \E k \in Gateways :
                    /\ gw[k].edit < gw'[k].edit /\ gw'[k].edit \in Nat
                    /\ \A g \in Gateways \ {k} : gw'[g].edit = gw[g].edit
<1>1. UNCHANGED Unobserved
  BY DEF Environment, WatchClass, WatchGateway, WatchGatewayDeleted,
         WatchHTTPRoute, WatchHTTPRouteDeleted, WatchOther
<1>2. /\ \A g \in Gateways : gw[g].edit \in Nat /\ gw[g].edit <= edits
      /\ edits \in Nat
      /\ gw \in [Gateways -> [class : Classes \cup {None}, edit : Nat]]
  BY BoundsAssumption DEF TypeInv, TypeOK, ClusterOK, Numbered
<1>3. ASSUME NEW k \in Gateways, NEW c \in Classes, WatchGateway(k, c)
      PROVE  /\ gw[k].edit < gw'[k].edit /\ gw'[k].edit \in Nat
             /\ \A g \in Gateways \ {k} : gw'[g].edit = gw[g].edit
  <2>1. gw' = [gw EXCEPT ![k] = [class |-> c, edit |-> edits + 1]]
    BY <1>3 DEF WatchGateway
  <2> QED BY <2>1, <1>2
<1>4. ASSUME NEW k \in Gateways, WatchGatewayDeleted(k)
      PROVE  \A g \in Gateways : gw'[g].edit = gw[g].edit
  <2>1. gw' = [gw EXCEPT ![k].class = None]
    BY <1>4 DEF WatchGatewayDeleted
  <2> QED BY <2>1, <1>2
<1>5. ASSUME gw' = gw
      PROVE  \A g \in Gateways : gw'[g].edit = gw[g].edit
  BY <1>5
<1>6. \/ gw' = gw \/ \E k \in Gateways : WatchGatewayDeleted(k)
      \/ \E k \in Gateways, c \in Classes : WatchGateway(k, c)
  BY DEF Environment, WatchClass, WatchHTTPRoute, WatchHTTPRouteDeleted,
         WatchOther
<1> QED BY <1>1, <1>3, <1>4, <1>5, <1>6

(* The order of the stages through the cluster's edits,                      *)
LEMMA EnvironmentFlow ==
    ASSUME TypeInv, FlowInv, OrderInv, Environment
    PROVE  FlowInv' /\ OrderInv'
<1>1. UNCHANGED <<rec, updates, tr, xdsIR, xdsQ, snapshot>>
  BY GatewayWritten DEF Unobserved, translator, xds
<1>2. ASSUME NEW g \in Gateways
      PROVE  Flows(g)'
  <2>1. gw[g].edit \in Nat /\ gw'[g].edit \in Nat /\ gw[g].edit <= gw'[g].edit
    BY GatewayWritten, StagesAreNumbers
  <2>2. Flows(g)
    BY DEF FlowInv
  <2>3. Chain({gw'[g].edit}, EditsIn(rec.built, g), Waiting(g),
              EditsIn(tr.results, g), AtHand(g), Represented(g), Queued(g),
              {Served[g]})
    BY <2>1, <2>2, StagesAreNumbers, ChainEdits DEF Flows
  <2> QED BY <1>1, <2>3, SameStages DEF Flows
<1> QED BY <1>1, <1>2, SameOrder DEF FlowInv, OrderInv

(* A step that only touches the view being built.                            *)
LEMMA BuiltFlow ==
    ASSUME TypeInv, FlowInv, OrderInv,
           UNCHANGED <<gw, updates, tr, xdsIR, xdsQ, snapshot>>,
           \A g \in Gateways :
              EditsIn(rec'.built, g) \subseteq EditsIn(rec.built, g)
                                                  \cup {gw[g].edit},
           Ascends(rec'.built)
    PROVE  FlowInv' /\ OrderInv'
<1>1. ASSUME NEW g \in Gateways
      PROVE  Flows(g)'
  <2>1. Flows(g) /\ gw[g].edit \in Nat
    BY StagesAreNumbers DEF FlowInv
  <2>2. Chain({gw[g].edit}, EditsIn(rec'.built, g), Waiting(g),
              EditsIn(tr.results, g), AtHand(g), Represented(g), Queued(g),
              {Served[g]})
    BY <2>1, ChainReads DEF Flows
  <2>3. gw'[g].edit = gw[g].edit
    OBVIOUS
  <2> QED BY <2>2, <2>3, SameStages DEF Flows
<1>2. Ascends(rec.built)'
  BY DEF Ascends
<1> QED BY <1>1, <1>2, SameOrder DEF FlowInv, OrderInv

(* the first List,                                                           *)
LEMMA ReconcileFlow ==
    ASSUME TypeInv, FlowInv, OrderInv, Reconcile
    PROVE  FlowInv' /\ OrderInv'
<1>1. UNCHANGED <<gw, updates, tr, xdsIR, xdsQ, snapshot>>
  BY DEF Reconcile, cluster, translator, xds
<1>2. rec'.built = <<>>
  BY IdleIs DEF Reconcile
<1>3. Ascends(rec'.built) /\ \A g \in Gateways : EditsIn(rec'.built, g) = {}
  BY <1>2, EmptySeq DEF Ascends, EditsIn
<1> QED BY <1>1, <1>3, BuiltFlow

(* the Lists of a class,                                                     *)
LEMMA processGatewaysFlow ==
    ASSUME TypeInv, FlowInv, OrderInv, NEW c \in Classes, processGateways(c)
    PROVE  FlowInv' /\ OrderInv'
<1>1. UNCHANGED <<gw, updates, tr, xdsIR, xdsQ, snapshot>>
  BY DEF processGateways, cluster, translator, xds
<1> DEFINE v == rec.built
           w == rec'.built
<1>2. PICK gs \in SUBSET GatewaysOf(c), lost \in BOOLEAN :
        rec' = AddClass(c, gs, lost)
  BY ReadStep
<1>0. PICK res, new :
        /\ res = [class |-> c, gateways |-> [g \in gs |-> gw[g].edit],
                  routes |-> NoObjects]
        /\ new = rec' /\ new = AddClass(c, gs, lost)
  BY <1>2
<1>3. /\ res \in Results /\ w = Append(v, res)
      /\ res.gateways = [g \in gs |-> gw[g].edit]
  BY <1>0, AddClassIs
<1>4. /\ Len(v) \in Nat /\ DOMAIN v = 1 .. Len(v)
      /\ DOMAIN w = 1 .. Len(v) + 1
      /\ \A i \in 1 .. Len(v) : w[i] = v[i]
      /\ w[Len(v) + 1] = res
  BY <1>3, RecHas, PutLast
<1>5. /\ \A g \in DOMAIN res.gateways : res.gateways[g] = gw[g].edit
      /\ DOMAIN res.gateways \subseteq Gateways
  BY <1>3, ResultHas
<1>6. Ascends(v)
  BY DEF OrderInv
<1>7. ASSUME NEW i \in DOMAIN v, NEW g \in DOMAIN v[i].gateways
      PROVE  g \in Gateways /\ v[i].gateways[g] <= gw[g].edit
  <2>1. g \in Gateways
    BY RecHas, ViewHas, ResultHas
  <2>2. v[i].gateways[g] \in EditsIn(v, g)
    BY DEF EditsIn
  <2>3. AtMost(EditsIn(v, g), {gw[g].edit})
    BY <2>1 DEF FlowInv, Flows, Chain
  <2> QED BY <2>1, <2>2, <2>3 DEF AtMost
<1> HIDE DEF v, w
<1>8. Ascends(w)
  <2> SUFFICES ASSUME NEW i \in DOMAIN w, NEW j \in DOMAIN w, i < j,
                      NEW g \in DOMAIN w[i].gateways,
                      g \in DOMAIN w[j].gateways
               PROVE  w[i].gateways[g] <= w[j].gateways[g]
    BY DEF Ascends
  <2>1. i \in DOMAIN v /\ w[i] = v[i]
    BY <1>4
  <2>2. CASE j \in DOMAIN v
    BY <2>1, <2>2, <1>4, <1>6 DEF Ascends
  <2>3. CASE j = Len(v) + 1
    BY <2>1, <2>3, <1>4, <1>5, <1>7
  <2> QED BY <2>2, <2>3, <1>4
<1>9. \A g \in Gateways : EditsIn(w, g) \subseteq EditsIn(v, g) \cup {gw[g].edit}
  BY <1>4, <1>5 DEF EditsIn
<1> QED BY <1>1, <1>8, <1>9, BuiltFlow DEF v, w

(* the List of the routes of a gateway,                                      *)
LEMMA processHTTPRoutesFlow ==
    ASSUME TypeInv, FlowInv, OrderInv, NEW h \in Gateways, processHTTPRoutes(h)
    PROVE  FlowInv' /\ OrderInv'
<1>1. /\ UNCHANGED <<gw, updates, tr, xdsIR, xdsQ, snapshot>>
      /\ rec.pc = "routes"
  BY DEF processHTTPRoutes, cluster, translator, xds
<1>2. /\ DOMAIN rec.built = 1 .. Len(rec.built)
      /\ DOMAIN rec'.built = 1 .. Len(rec.built)
      /\ \A i \in 1 .. Len(rec.built) :
            rec'.built[i].gateways = rec.built[i].gateways
  BY <1>1, RoutesStep, AddRoutesIs
<1>3. Ascends(rec'.built)
  BY <1>2 DEF OrderInv, Ascends
<1>4. \A g \in Gateways : EditsIn(rec'.built, g) = EditsIn(rec.built, g)
  BY <1>2 DEF EditsIn
<1> QED BY <1>1, <1>3, <1>4, BuiltFlow

(* and the Store of the view.                                                *)
LEMMA StoreFlow ==
    ASSUME TypeInv, FlowInv, OrderInv, Store
    PROVE  FlowInv' /\ OrderInv'
<1>1. /\ UNCHANGED <<gw, tr, xdsIR, xdsQ, snapshot>>
      /\ rec' = Idle /\ updates' = Append(updates, rec.built)
  BY DEF Store, HandleSubscription, cluster, translator, xds
<1>2. updates \in Seq(Views) /\ rec.built \in Views
  BY RecHas DEF TypeInv, TypeOK, ProviderOK
<1>3. /\ Len(updates) \in Nat /\ DOMAIN updates = 1 .. Len(updates)
      /\ DOMAIN updates' = 1 .. Len(updates) + 1
      /\ \A i \in 1 .. Len(updates) : updates'[i] = updates[i]
      /\ updates'[Len(updates) + 1] = rec.built
  BY <1>1, <1>2, PutLast
<1>4. /\ Ascends(rec.built)'
      /\ \A g \in Gateways : EditsIn(rec.built, g)' = {}
  BY <1>1, IdleIs DEF Ascends, EditsIn
<1>5. ASSUME NEW g \in Gateways
      PROVE  Waiting(g)' = Waiting(g) \cup EditsIn(rec.built, g)
  BY <1>3 DEF Waiting, EditsIn
<1>6. ASSUME NEW g \in Gateways
      PROVE  Flows(g)'
  <2>1. Flows(g)
    BY DEF FlowInv
  <2>2. Chain({gw[g].edit}, {}, Waiting(g) \cup EditsIn(rec.built, g),
              EditsIn(tr.results, g), AtHand(g), Represented(g), Queued(g),
              {Served[g]})
    BY <2>1, ChainStores DEF Flows
  <2>3. gw'[g].edit = gw[g].edit
    BY <1>1
  <2> QED BY <1>1, <1>4, <1>5, <2>2, <2>3, SameStages DEF Flows
<1>7. ViewsAscend'
  <2>1. \A i \in DOMAIN updates' : Ascends(updates'[i])
    BY <1>3 DEF OrderInv, ViewsAscend
  <2>2. ASSUME NEW i \in DOMAIN updates', NEW j \in DOMAIN updates', i < j,
               NEW g \in Gateways
        PROVE  AtMost(EditsIn(updates'[i], g), EditsIn(updates'[j], g))
    <3>1. i \in DOMAIN updates /\ updates'[i] = updates[i]
      BY <1>3, <2>2
    <3>2. CASE j \in DOMAIN updates
      BY <1>3, <2>2, <3>1, <3>2 DEF OrderInv, ViewsAscend
    <3>3. CASE j = Len(updates) + 1
      <4>1. AtMost(Waiting(g), EditsIn(rec.built, g))
        BY DEF FlowInv, Flows, Chain, AtMost
      <4>2. EditsIn(updates[i], g) \subseteq Waiting(g)
        BY <3>1 DEF Waiting
      <4> QED BY <1>3, <3>1, <3>3, <4>1, <4>2 DEF AtMost
    <3> QED BY <1>3, <3>2, <3>3
  <2> QED BY <2>1, <2>2 DEF ViewsAscend, Ascends, AtMost, EditsIn
<1> QED BY <1>1, <1>4, <1>6, <1>7, SameOrder DEF FlowInv, OrderInv

(* The first result of a view and the others.                                *)
LEMMA FirstAndRest ==
    ASSUME NEW v \in Views, v # <<>>, Ascends(v)
    PROVE  /\ Ascends(Tail(v))
           /\ \A g : EditsIn(Tail(v), g) \subseteq EditsIn(v, g)
           /\ \A g \in DOMAIN Head(v).gateways :
                /\ Head(v).gateways[g] \in EditsIn(v, g)
                /\ AtMost({Head(v).gateways[g]}, EditsIn(Tail(v), g))
<1>1. /\ Len(v) \in Nat \ {0} /\ DOMAIN v = 1 .. Len(v)
      /\ Head(v) = v[1] /\ 1 \in DOMAIN v
      /\ DOMAIN Tail(v) = 1 .. Len(v) - 1
      /\ \A i \in 1 .. Len(v) - 1 : Tail(v)[i] = v[i + 1]
  BY TakeFirst DEF Views
<1> DEFINE t == Tail(v)
<1> HIDE DEF t
<1>2. \A i \in DOMAIN t : i + 1 \in DOMAIN v /\ t[i] = v[i + 1] /\ 1 < i + 1
  BY <1>1 DEF t
<1>3. Ascends(t)
  <2> SUFFICES ASSUME NEW i \in DOMAIN t, NEW j \in DOMAIN t, i < j,
                      NEW g \in DOMAIN t[i].gateways \cap DOMAIN t[j].gateways
               PROVE  t[i].gateways[g] <= t[j].gateways[g]
    BY DEF Ascends
  <2>1. i + 1 < j + 1
    BY <1>1 DEF t
  <2> QED BY <1>2, <2>1 DEF Ascends
<1>4. \A g : EditsIn(t, g) \subseteq EditsIn(v, g)
  BY <1>2 DEF EditsIn
<1>5. ASSUME NEW g \in DOMAIN v[1].gateways
      PROVE  /\ v[1].gateways[g] \in EditsIn(v, g)
             /\ AtMost({v[1].gateways[g]}, EditsIn(t, g))
  <2>1. v[1].gateways[g] \in EditsIn(v, g)
    BY <1>1 DEF EditsIn
  <2>2. ASSUME NEW i \in DOMAIN t, g \in DOMAIN t[i].gateways
        PROVE  v[1].gateways[g] <= t[i].gateways[g]
    BY <1>1, <1>2, <2>2 DEF Ascends
  <2> QED BY <2>1, <2>2 DEF AtMost, EditsIn
<1> QED BY <1>1, <1>3, <1>4, <1>5 DEF t

(* What the translator holds after it took a result.                         *)
LEMMA TakenResult ==
    ASSUME NEW rest, NEW res, NEW X
    PROVE  \E r : /\ Left([results |-> rest, res |-> res, xds |-> X])
                        = [results |-> rest, res |-> r, xds |-> X]
                  /\ X # {} => r = res
<1>1. CASE X = {} /\ rest = <<>>
  BY <1>1 DEF Left, NoWork
<1>2. CASE ~ (X = {} /\ rest = <<>>)
  BY <1>2 DEF Left
<1> QED BY <1>1, <1>2

(* The translator goes on with its results or takes the oldest view.         *)
LEMMA TranslateTakes ==
    ASSUME TypeInv, Translate
    PROVE  \E results \in Views :
        /\ results # <<>>
        /\ \/ tr.results # <<>> /\ results = tr.results /\ updates' = updates
           \/ /\ tr = NoWork /\ updates # <<>> /\ results = Head(updates)
              /\ updates' = Tail(updates)
        /\ tr.xds = {} /\ tr'.results = Tail(results)
        /\ tr'.xds = DOMAIN Head(results).gateways
        /\ tr'.xds # {} => tr'.res = Head(results)
<1>1. PICK results \in Views :
        /\ results # <<>>
        /\ \/ tr.results # <<>> /\ results = tr.results /\ updates' = updates
           \/ /\ tr = NoWork /\ updates # <<>> /\ results = Head(updates)
              /\ updates' = Tail(updates)
        /\ infraIR' = infraIR \cup DOMAIN Head(results).gateways
        /\ tr.xds = {} /\ Head(results) \in Results
        /\ Tail(results) \in Views
        /\ tr' = Left([results |-> Tail(results), res |-> Head(results),
                       xds |-> DOMAIN Head(results).gateways])
  BY TranslateStep
<1>2. PICK rest, res, X :
        /\ rest = Tail(results) /\ res = Head(results)
        /\ X = DOMAIN Head(results).gateways
        /\ tr' = Left([results |-> rest, res |-> res, xds |-> X])
  BY <1>1
<1>3. PICK r : /\ Left([results |-> rest, res |-> res, xds |-> X])
                      = [results |-> rest, res |-> r, xds |-> X]
               /\ X # {} => r = res
  BY TakenResult
<1>4. tr' = [results |-> rest, res |-> r, xds |-> X]
  BY <1>2, <1>3, Zenon
<1>5. tr'.results = rest /\ tr'.xds = X /\ tr'.res = r
  BY <1>4
<1> QED BY <1>1, <1>2, <1>3, <1>5

(* The order of the stages through the translator,                           *)
LEMMA TranslateFlow ==
    ASSUME TypeInv, FlowInv, OrderInv, Translate
    PROVE  FlowInv' /\ OrderInv'
<1>1. UNCHANGED <<gw, rec, xdsIR, xdsQ, snapshot>>
  BY DEF Translate, cluster, xds
<1>2. PICK results \in Views :
        /\ results # <<>>
        /\ \/ tr.results # <<>> /\ results = tr.results /\ updates' = updates
           \/ /\ tr = NoWork /\ updates # <<>> /\ results = Head(updates)
              /\ updates' = Tail(updates)
        /\ tr.xds = {} /\ tr'.results = Tail(results)
        /\ tr'.xds = DOMAIN Head(results).gateways
        /\ tr'.xds # {} => tr'.res = Head(results)
  BY TranslateTakes
<1>3. /\ tr'.results = Tail(results)
      /\ tr'.xds = DOMAIN Head(results).gateways
      /\ tr'.xds # {} => tr'.res = Head(results)
  BY <1>2
<1>4. \A g : AtHand(g)' \subseteq
                {Head(results).gateways[h] :
                    h \in {g} \cap DOMAIN Head(results).gateways}
  BY <1>3 DEF AtHand
<1>5. \A g \in Gateways : AtHand(g) = {}
  BY <1>2 DEF AtHand
<1>6. ASSUME Ascends(results), ViewsAscend',
             \A g \in Gateways :
                /\ EditsIn(results, g) \subseteq
                        EditsIn(tr.results, g) \cup Waiting(g)
                /\ Waiting(g)' \subseteq Waiting(g)
                /\ AtMost(EditsIn(results, g), Waiting(g)')
      PROVE  FlowInv' /\ OrderInv'
  <2>1. /\ Ascends(Tail(results))
        /\ \A g : EditsIn(Tail(results), g) \subseteq EditsIn(results, g)
        /\ \A g \in DOMAIN Head(results).gateways :
             /\ Head(results).gateways[g] \in EditsIn(results, g)
             /\ AtMost({Head(results).gateways[g]}, EditsIn(Tail(results), g))
    BY <1>2, <1>6, FirstAndRest
  <2>2. ASSUME NEW g \in Gateways
        PROVE  Flows(g)'
    <3>1. PICK R1 : R1 = EditsIn(Tail(results), g)
      OBVIOUS
    <3>2. PICK H1 : H1 = AtHand(g)'
      OBVIOUS
    <3>3. PICK W1 : W1 = Waiting(g)'
      OBVIOUS
    <3>4. /\ R1 \subseteq EditsIn(results, g)
          /\ H1 \subseteq EditsIn(results, g)
      BY <1>4, <2>1, <3>1, <3>2
    <3>5. AtMost(H1, R1)
      BY <1>4, <2>1, <3>1, <3>2 DEF AtMost
    <3>6. AtMost(R1, W1) /\ AtMost(H1, W1)
      BY <1>6, <3>3, <3>4 DEF AtMost
    <3>7. Chain({gw[g].edit}, EditsIn(rec.built, g), Waiting(g),
                EditsIn(tr.results, g), {}, Represented(g), Queued(g),
                {Served[g]})
      BY <1>5 DEF FlowInv, Flows
    <3>8. Chain({gw[g].edit}, EditsIn(rec.built, g), W1, R1, H1,
                Represented(g), Queued(g), {Served[g]})
      <4>1. /\ W1 \in SUBSET Waiting(g)
            /\ R1 \in SUBSET (EditsIn(tr.results, g) \cup Waiting(g))
            /\ H1 \in SUBSET (EditsIn(tr.results, g) \cup Waiting(g))
        BY <1>6, <3>3, <3>4
      <4> QED BY <3>5, <3>6, <3>7, <4>1, ChainTranslates
    <3>9. EditsIn(tr.results, g)' = R1
      BY <1>3, <3>1 DEF EditsIn
    <3>10. gw'[g].edit = gw[g].edit
      BY <1>1
    <3> QED BY <1>1, <3>2, <3>3, <3>8, <3>9, <3>10, SameStages DEF Flows
  <2>3. Ascends(tr.results)'
    BY <1>3, <2>1 DEF Ascends
  <2> QED BY <1>1, <1>6, <2>2, <2>3, SameOrder DEF FlowInv, OrderInv
<1>7. CASE tr.results # <<>> /\ results = tr.results /\ updates' = updates
  <2>1. Ascends(results) /\ ViewsAscend'
    BY <1>7, SameOrder DEF OrderInv
  <2>2. ASSUME NEW g \in Gateways
        PROVE  /\ EditsIn(results, g) = EditsIn(tr.results, g)
               /\ Waiting(g)' = Waiting(g)
               /\ AtMost(EditsIn(results, g), Waiting(g))
    <3>1. AtMost(EditsIn(tr.results, g), Waiting(g))
      BY DEF FlowInv, Flows, Chain, AtMost
    <3> QED BY <1>7, <3>1, SameStages
  <2> QED BY <1>6, <2>1, <2>2
<1>8. CASE /\ tr = NoWork /\ updates # <<>> /\ results = Head(updates)
           /\ updates' = Tail(updates)
  <2>1. /\ Len(updates) \in Nat \ {0} /\ DOMAIN updates = 1 .. Len(updates)
        /\ results = updates[1] /\ 1 \in DOMAIN updates
        /\ DOMAIN updates' = 1 .. Len(updates) - 1
        /\ \A i \in 1 .. Len(updates) - 1 : updates'[i] = updates[i + 1]
    BY <1>8, TakeFirst DEF TypeInv, TypeOK, ProviderOK
  <2>2. \A i \in DOMAIN updates' :
            /\ i + 1 \in DOMAIN updates /\ 1 < i + 1
            /\ updates'[i] = updates[i + 1]
    BY <2>1
  <2>3. Ascends(results)
    BY <2>1 DEF OrderInv, ViewsAscend
  <2>4. ViewsAscend'
    <3>1. \A i \in DOMAIN updates' : Ascends(updates'[i])
      BY <2>2 DEF OrderInv, ViewsAscend
    <3>2. ASSUME NEW i \in DOMAIN updates', NEW j \in DOMAIN updates', i < j,
                 NEW g \in Gateways
          PROVE  AtMost(EditsIn(updates'[i], g), EditsIn(updates'[j], g))
      <4>1. i + 1 < j + 1
        BY <2>1, <3>2
      <4> QED BY <2>2, <4>1 DEF OrderInv, ViewsAscend
    <3> QED BY <3>1, <3>2 DEF ViewsAscend, Ascends, AtMost, EditsIn
  <2>5. ASSUME NEW g \in Gateways
        PROVE  /\ EditsIn(results, g) \subseteq Waiting(g)
               /\ Waiting(g)' \subseteq Waiting(g)
               /\ AtMost(EditsIn(results, g), Waiting(g)')
    <3>1. EditsIn(results, g) \subseteq Waiting(g)
      BY <2>1 DEF Waiting
    <3>2. Waiting(g)' = UNION {EditsIn(updates'[i], g) : i \in DOMAIN updates'}
      BY DEF Waiting, EditsIn
    <3>3. Waiting(g)' \subseteq Waiting(g)
      BY <2>2, <3>2 DEF Waiting
    <3>4. \A i \in DOMAIN updates' :
            AtMost(EditsIn(results, g), EditsIn(updates'[i], g))
      BY <2>1, <2>2 DEF OrderInv, ViewsAscend
    <3> QED BY <3>1, <3>2, <3>3, <3>4 DEF AtMost
  <2> QED BY <1>6, <2>3, <2>4, <2>5
<1> QED BY <1>2, <1>7, <1>8

(* the representation,                                                       *)
LEMMA StoreXdsIRFlow ==
    ASSUME TypeInv, FlowInv, OrderInv, NEW k \in Gateways, StoreXdsIR(k)
    PROVE  FlowInv' /\ OrderInv'
<1>1. UNCHANGED <<gw, rec, updates, snapshot>> /\ k \in tr.xds
  BY DEF StoreXdsIR, cluster, provider
<1>2. PICK ir \in Representations :
        /\ ir = buildIR(tr.res, k) /\ ir.gateway = tr.res.gateways[k]
        /\ tr.res \in Results /\ k \in DOMAIN tr.res.gateways
        /\ xdsIR' = [xdsIR EXCEPT ![k] = ir]
        /\ \/ ~ subscribed /\ xdsQ' = xdsQ
           \/ subscribed /\ xdsQ' = Append(xdsQ, [key |-> k, ir |-> ir])
        /\ tr' = Left([results |-> tr.results, res |-> tr.res,
                       xds |-> tr.xds \ {k}])
  BY StoreXdsIRStep
<1>3. /\ tr'.results = tr.results /\ tr'.xds = tr.xds \ {k}
      /\ tr'.xds # {} => tr'.res = tr.res
  <2>1. /\ tr.results \in Views
        /\ tr.xds \ {k} \in SUBSET (DOMAIN tr.res.gateways)
    BY <1>1, TrHas
  <2> QED BY <1>2, <2>1, LeftIs
<1>4. \A g \in Gateways : EditsIn(tr.results, g)' = EditsIn(tr.results, g)
  BY <1>3 DEF EditsIn
<1>5. \A g \in Gateways \ {k} :
        AtHand(g)' = AtHand(g) /\ Represented(g)' = Represented(g)
  <2>1. \A g \in Gateways \ {k} : AtHand(g)' = AtHand(g)
    BY <1>3 DEF AtHand
  <2>2. \A g \in Gateways \ {k} : Represented(g)' = Represented(g)
    BY <1>2 DEF Represented, TypeInv, TypeOK, TranslatorOK
  <2> QED BY <2>1, <2>2
<1>6. /\ AtHand(k) = {ir.gateway} /\ AtHand(k)' = {}
      /\ Represented(k)' = {ir.gateway}
  <2>1. AtHand(k) = {ir.gateway}
    BY <1>1, <1>2 DEF AtHand
  <2>2. AtHand(k)' = {}
    BY <1>3 DEF AtHand
  <2>3. xdsIR'[k] = ir /\ ir # None
    BY <1>2, NothingAssumption DEF TypeInv, TypeOK, TranslatorOK
  <2>4. Represented(k)' = {ir.gateway}
    BY <2>3 DEF Represented
  <2> QED BY <2>1, <2>2, <2>4
<1>7. ir.gateway \in Nat
  BY <1>2, BoundsAssumption DEF Representations
<1>8. ASSUME NEW g \in Gateways
      PROVE  Queued(g)' \subseteq Queued(g) \cup (IF g = k THEN {ir.gateway} ELSE {})
  <2>1. CASE xdsQ' = xdsQ
    BY <2>1 DEF Queued
  <2>2. CASE xdsQ' = Append(xdsQ, [key |-> k, ir |-> ir])
    <3>1. xdsQ \in Seq(Entries) /\ [key |-> k, ir |-> ir] \in Entries
      BY QueueHas DEF TypeInv, TypeOK, Entries
    <3>2. /\ Len(xdsQ) \in Nat /\ DOMAIN xdsQ = 1 .. Len(xdsQ)
          /\ DOMAIN xdsQ' = 1 .. Len(xdsQ) + 1
          /\ \A i \in 1 .. Len(xdsQ) : xdsQ'[i] = xdsQ[i]
          /\ xdsQ'[Len(xdsQ) + 1] = [key |-> k, ir |-> ir]
      BY <2>2, <3>1, PutLast
    <3> QED BY <3>2 DEF Queued
  <2> QED BY <1>2, <2>1, <2>2
<1>9. ASSUME NEW g \in Gateways, g # k
      PROVE  Flows(g)'
  <2>1. Queued(g)' \in SUBSET Queued(g)
    BY <1>8, <1>9
  <2>2. Flows(g) /\ gw'[g].edit = gw[g].edit
    BY <1>1 DEF FlowInv
  <2>3. Chain({gw[g].edit}, EditsIn(rec.built, g), Waiting(g),
              EditsIn(tr.results, g), AtHand(g), Represented(g), Queued(g)',
              {Served[g]})
    BY <2>1, <2>2, ChainShrinks DEF Flows
  <2> QED BY <1>1, <1>4, <1>5, <1>9, <2>2, <2>3, SameStages DEF Flows
<1>10. Flows(k)'
  <2>1. Queued(k)' \in SUBSET (Queued(k) \cup {ir.gateway})
    BY <1>8
  <2>2. gw'[k].edit = gw[k].edit
    BY <1>1
  <2>3. Chain({gw[k].edit}, EditsIn(rec.built, k), Waiting(k),
              EditsIn(tr.results, k), {ir.gateway}, Represented(k), Queued(k),
              {Served[k]})
    BY <1>6 DEF FlowInv, Flows
  <2>4. Chain({gw[k].edit}, EditsIn(rec.built, k), Waiting(k),
              EditsIn(tr.results, k), {}, {ir.gateway}, Queued(k)',
              {Served[k]})
    BY <1>7, <2>1, <2>3, ChainRepresents
  <2> QED BY <1>1, <1>4, <1>6, <2>2, <2>4, SameStages DEF Flows
<1>11. QueueAscends'
  <2>1. CASE xdsQ' = xdsQ
    BY <2>1, SameOrder
  <2>2. CASE xdsQ' = Append(xdsQ, [key |-> k, ir |-> ir])
    <3>1. xdsQ \in Seq(Entries) /\ [key |-> k, ir |-> ir] \in Entries
      BY QueueHas DEF TypeInv, TypeOK, Entries
    <3>2. /\ Len(xdsQ) \in Nat /\ DOMAIN xdsQ = 1 .. Len(xdsQ)
          /\ DOMAIN xdsQ' = 1 .. Len(xdsQ) + 1
          /\ \A i \in 1 .. Len(xdsQ) : xdsQ'[i] = xdsQ[i]
          /\ xdsQ'[Len(xdsQ) + 1] = [key |-> k, ir |-> ir]
      BY <2>2, <3>1, PutLast
    <3>3. \A i \in DOMAIN xdsQ :
            xdsQ[i].key = k => xdsQ[i].ir.gateway <= ir.gateway
      <4>1. AtMost(Queued(k), {ir.gateway})
        BY <1>6 DEF FlowInv, Flows, Chain, AtMost
      <4> QED BY <4>1 DEF AtMost, Queued
    <3> SUFFICES ASSUME NEW i \in DOMAIN xdsQ', NEW j \in DOMAIN xdsQ',
                        i < j, xdsQ'[i].key = xdsQ'[j].key
                 PROVE  xdsQ'[i].ir.gateway <= xdsQ'[j].ir.gateway
      BY DEF QueueAscends
    <3>4. i \in DOMAIN xdsQ /\ xdsQ'[i] = xdsQ[i]
      BY <3>2
    <3>5. CASE j \in DOMAIN xdsQ
      BY <3>2, <3>4, <3>5 DEF OrderInv, QueueAscends
    <3>6. CASE j = Len(xdsQ) + 1
      BY <3>2, <3>3, <3>4, <3>6
    <3> QED BY <3>2, <3>5, <3>6
  <2> QED BY <1>2, <2>1, <2>2
<1>12. Ascends(tr.results)'
  BY <1>3 DEF OrderInv, Ascends
<1> QED BY <1>1, <1>9, <1>10, <1>11, <1>12, SameOrder DEF FlowInv, OrderInv

(* the subscription,                                                         *)
LEMMA SubscribeFlow ==
    ASSUME TypeInv, FlowInv, OrderInv, Subscribe
    PROVE  FlowInv' /\ OrderInv'
<1>1. UNCHANGED <<gw, rec, updates, tr, xdsIR, snapshot>>
  BY DEF Subscribe, cluster, provider, translator
<1>2. ASSUME NEW g \in Gateways
      PROVE  Flows(g)'
  <2>1. Queued(g)' \in SUBSET Represented(g)
    BY SubscribeStep DEF Queued, Represented
  <2>2. AtMost(Represented(g), Represented(g))
    BY StagesAreNumbers DEF Represented, AtMost
  <2>3. Flows(g) /\ gw'[g].edit = gw[g].edit
    BY <1>1 DEF FlowInv
  <2>4. Chain({gw[g].edit}, EditsIn(rec.built, g), Waiting(g),
              EditsIn(tr.results, g), AtHand(g), Represented(g), Queued(g)',
              {Served[g]})
    BY <2>1, <2>2, <2>3, ChainSubscribes DEF Flows
  <2> QED BY <1>1, <2>3, <2>4, SameStages DEF Flows
<1>3. QueueAscends'
  <2>1. \A i \in DOMAIN xdsQ' : xdsQ'[i].ir.gateway \in Nat
    <3>1. \A i \in DOMAIN xdsQ' : xdsQ'[i] \in Entries
      BY SubscribeStep, ElementOfSeq, LenProperties
    <3> QED BY <3>1, BoundsAssumption DEF Entries, Representations
  <2> QED BY <2>1, SubscribeStep DEF QueueAscends
<1> QED BY <1>1, <1>2, <1>3, SameOrder DEF FlowInv, OrderInv

(* The queue after its first entry was taken.                                *)
LEMMA TakenEntry ==
    ASSUME TypeInv, HandleXdsIR
    PROVE  /\ Len(xdsQ) \in Nat \ {0} /\ DOMAIN xdsQ = 1 .. Len(xdsQ)
           /\ Head(xdsQ) = xdsQ[1] /\ 1 \in DOMAIN xdsQ
           /\ DOMAIN xdsQ' = 1 .. Len(xdsQ) - 1
           /\ \A i \in DOMAIN xdsQ' : /\ i + 1 \in DOMAIN xdsQ /\ 1 < i + 1
                                      /\ xdsQ'[i] = xdsQ[i + 1]
<1>1. /\ Len(xdsQ) \in Nat \ {0} /\ DOMAIN xdsQ = 1 .. Len(xdsQ)
      /\ Head(xdsQ) = xdsQ[1] /\ 1 \in DOMAIN xdsQ
      /\ DOMAIN xdsQ' = 1 .. Len(xdsQ) - 1
      /\ \A i \in 1 .. Len(xdsQ) - 1 : xdsQ'[i] = xdsQ[i + 1]
  BY HandleXdsIRStep, QueueHas, TakeFirst DEF TypeInv, TypeOK
<1> QED BY <1>1

(* What a snapshot changes to was in the queue, before all that is left.     *)
LEMMA ServedWasQueued ==
    ASSUME TypeInv, OrderInv, HandleXdsIR, NEW g \in Gateways,
           Served'[g] # Served[g]
    PROVE  Served'[g] \in Queued(g) /\ AtMost({Served'[g]}, Queued(g)')
<1>1. PICK v \in 1 .. MaxVersion :
        snapshot' = [snapshot EXCEPT ![xdsQ[1].key] =
                                [ir |-> xdsQ[1].ir, version |-> v]]
  BY HandleXdsIRStep, SameStages, TakenEntry
<1>2. snapshot \in [Gateways -> Snapshots \cup {None}]
  BY DEF TypeInv, TypeOK, XdsOK
<1>3. g = xdsQ[1].key
  <2>1. g # xdsQ[1].key => snapshot'[g] = snapshot[g]
    BY <1>1, <1>2
  <2> QED BY <2>1 DEF Served
<1>4. xdsQ[1].ir \in Representations
  BY HandleXdsIRStep, TakenEntry DEF Entries
<1>5. PICK s \in Snapshots : s = [ir |-> xdsQ[1].ir, version |-> v]
  BY <1>4 DEF Snapshots
<1>6. snapshot'[g] = s /\ s.ir = xdsQ[1].ir /\ s # None
  BY <1>1, <1>2, <1>3, <1>5, NothingAssumption
<1>7. Served'[g] = xdsQ[1].ir.gateway
  BY <1>6 DEF Served
<1>8. Served'[g] \in Queued(g)
  BY <1>3, <1>7, TakenEntry DEF Queued
<1>9. \A i \in DOMAIN xdsQ' : xdsQ'[i].key = g =>
            xdsQ[1].ir.gateway <= xdsQ'[i].ir.gateway
  BY <1>3, TakenEntry DEF OrderInv, QueueAscends
<1> QED BY <1>7, <1>8, <1>9 DEF AtMost, Queued

(* and the snapshot.                                                         *)
LEMMA HandleXdsIRFlow ==
    ASSUME TypeInv, FlowInv, OrderInv, HandleXdsIR
    PROVE  FlowInv' /\ OrderInv'
<1>1. UNCHANGED <<gw, rec, updates, tr, xdsIR>>
  BY DEF HandleXdsIR, cluster, provider, translator
<1>2. Len(xdsQ) \in Nat /\ DOMAIN xdsQ' = 1 .. Len(xdsQ) - 1
  BY TakenEntry
<1>3. \A i \in DOMAIN xdsQ' : /\ i + 1 \in DOMAIN xdsQ
                              /\ xdsQ'[i] = xdsQ[i + 1]
  BY TakenEntry
<1>4. QueueAscends'
  <2> SUFFICES ASSUME NEW i \in DOMAIN xdsQ', NEW j \in DOMAIN xdsQ',
                      i < j, xdsQ'[i].key = xdsQ'[j].key
               PROVE  xdsQ'[i].ir.gateway <= xdsQ'[j].ir.gateway
    BY DEF QueueAscends
  <2>1. i + 1 < j + 1
    BY <1>2
  <2> QED BY <1>3, <2>1 DEF OrderInv, QueueAscends
<1>5. \A g \in Gateways : Queued(g)' \subseteq Queued(g)
  BY <1>3 DEF Queued
<1>6. \A g \in Gateways : Served'[g] # Served[g] =>
            Served'[g] \in Queued(g) /\ AtMost({Served'[g]}, Queued(g)')
  BY ServedWasQueued
<1>7. ASSUME NEW g \in Gateways
      PROVE  Flows(g)'
  <2>1. Flows(g) /\ gw'[g].edit = gw[g].edit /\ Queued(g)' \in SUBSET Queued(g)
    BY <1>1, <1>5 DEF FlowInv
  <2>2. CASE Served'[g] = Served[g]
    <3>1. Chain({gw[g].edit}, EditsIn(rec.built, g), Waiting(g),
                EditsIn(tr.results, g), AtHand(g), Represented(g), Queued(g)',
                {Served[g]})
      BY <2>1, ChainShrinks DEF Flows
    <3> QED BY <1>1, <2>1, <2>2, <3>1, SameStages DEF Flows
  <2>3. CASE Served'[g] # Served[g]
    <3>1. PICK S1 : S1 = {Served'[g]}
      OBVIOUS
    <3>2. S1 \in SUBSET Queued(g) /\ AtMost(S1, Queued(g)')
      BY <1>6, <2>3, <3>1
    <3>3. Chain({gw[g].edit}, EditsIn(rec.built, g), Waiting(g),
                EditsIn(tr.results, g), AtHand(g), Represented(g), Queued(g)',
                S1)
      BY <2>1, <3>2, ChainServes DEF Flows
    <3> QED BY <1>1, <2>1, <3>1, <3>3, SameStages DEF Flows
  <2> QED BY <2>2, <2>3
<1> QED BY <1>1, <1>4, <1>7, SameOrder DEF FlowInv, OrderInv

(* With nothing held anywhere the stages are in order,                       *)
LEMMA NothingHeld ==
    ASSUME rec = Idle, updates = <<>>, tr = NoWork, xdsQ = <<>>,
           xdsIR = [g \in Gateways |-> None],
           snapshot = [g \in Gateways |-> None],
           \A g \in Gateways : gw[g].edit \in Nat
    PROVE  FlowInv /\ OrderInv
<1>1. DOMAIN rec.built = {} /\ DOMAIN tr.results = {} /\ tr.xds = {}
  BY IdleIs, NoWorkIs, EmptySeq
<1>2. DOMAIN updates = {} /\ DOMAIN xdsQ = {}
  BY EmptySeq
<1>3. ASSUME NEW g \in Gateways
      PROVE  Flows(g)
  <2>1. /\ EditsIn(rec.built, g) = {} /\ EditsIn(tr.results, g) = {}
        /\ Waiting(g) = {} /\ AtHand(g) = {} /\ Queued(g) = {}
    BY <1>1, <1>2 DEF EditsIn, Waiting, AtHand, Queued
  <2>2. Represented(g) = {} /\ Served[g] = 0
    BY DEF Represented, Served
  <2>3. Chain({gw[g].edit}, {}, {}, {}, {}, {}, {}, {0})
    BY ChainForgets
  <2> QED BY <2>1, <2>2, <2>3 DEF Flows
<1>4. OrderInv
  BY <1>1, <1>2 DEF OrderInv, Ascends, ViewsAscend, QueueAscends
<1> QED BY <1>3, <1>4 DEF FlowInv

(* so they are after a crash or a restart.                                   *)
LEMMA MemoryFlow ==
    ASSUME TypeInv', NEW a, Memory(a)
    PROVE  FlowInv' /\ OrderInv'
<1>1. \A g \in Gateways : gw'[g].edit \in Nat
  BY DEF TypeInv, TypeOK, ClusterOK
<1>2. /\ rec' = Idle /\ updates' = <<>> /\ tr' = NoWork /\ xdsQ' = <<>>
      /\ xdsIR' = [g \in Gateways |-> None]
      /\ snapshot' = [g \in Gateways |-> None]
  BY DEF Memory
<1>3. /\ DOMAIN rec'.built = {} /\ DOMAIN tr'.results = {} /\ tr'.xds = {}
      /\ DOMAIN updates' = {} /\ DOMAIN xdsQ' = {}
  BY <1>2, IdleIs, NoWorkIs, EmptySeq
<1>4. ASSUME NEW g \in Gateways
      PROVE  Flows(g)'
  <2>1. /\ EditsIn(rec.built, g)' = {} /\ EditsIn(tr.results, g)' = {}
        /\ Waiting(g)' = {} /\ AtHand(g)' = {} /\ Queued(g)' = {}
    BY <1>3 DEF EditsIn, Waiting, AtHand, Queued
  <2>2. Represented(g)' = {} /\ Served'[g] = 0
    BY <1>2 DEF Represented, Served
  <2>3. Chain({gw'[g].edit}, {}, {}, {}, {}, {}, {}, {0})
    BY <1>1, ChainForgets
  <2> QED BY <2>1, <2>2, <2>3 DEF Flows
<1>5. OrderInv'
  BY <1>3 DEF OrderInv, Ascends, ViewsAscend, QueueAscends
<1> QED BY <1>4, <1>5 DEF FlowInv

(* Every step keeps the order of the stages,                                 *)
LEMMA NextFlow ==
    ASSUME TypeInv, FlowInv, OrderInv, [Next]_vars
    PROVE  FlowInv' /\ OrderInv'
<1>1. CASE Environment
  BY <1>1, EnvironmentFlow
<1>2. CASE ReconcileStep
  BY <1>2, ReconcileFlow, processGatewaysFlow, processHTTPRoutesFlow,
     StoreFlow DEF ReconcileStep
<1>3. CASE TranslatorStep
  BY <1>3, TranslateFlow, StoreXdsIRFlow DEF TranslatorStep
<1>4. CASE HandleXdsIR \/ Subscribe
  BY <1>4, HandleXdsIRFlow, SubscribeFlow
<1>5. CASE CreateOrUpdateProxyInfra \/ Restart
  BY <1>5, MemoryFlow, NextType DEF CreateOrUpdateProxyInfra, Restart, Next
<1>6. CASE UNCHANGED vars
  <2>1. UNCHANGED <<gw, rec, updates, tr, xdsIR, xdsQ, snapshot>>
    BY <1>6 DEF vars, cluster, provider, translator, xds
  <2>2. ASSUME NEW g \in Gateways
        PROVE  Flows(g)'
    <3>1. Flows(g) /\ gw'[g].edit = gw[g].edit
      BY <2>1 DEF FlowInv
    <3> QED BY <2>1, <3>1, SameStages DEF Flows
  <2> QED BY <2>1, <2>2, SameOrder DEF FlowInv, OrderInv
<1> QED BY <1>1, <1>2, <1>3, <1>4, <1>5, <1>6 DEF Next

(* which holds at the start.                                                 *)
LEMMA InitFlow ==
    ASSUME Init
    PROVE  FlowInv /\ OrderInv
<1>1. \A g \in Gateways : gw[g].edit \in Nat
  BY InitType DEF TypeInv, TypeOK, ClusterOK
<1> QED BY <1>1, NothingHeld DEF Init

(* What the snapshots do at each step.                                       *)
Source == [g \in Gateways |-> gw[g].edit]

(* The refinement of Follower: an edit is a write of the source or unseen,   *)
LEMMA WriteIsWrite ==
    ASSUME TypeInv, Environment
    PROVE  [Follow!Next]_(Follow!vars)
<1>1. Served' = Served
  BY GatewayWritten DEF Served, Unobserved, xds
<1>2. CASE \A g \in Gateways : gw'[g].edit = gw[g].edit
  <2>1. Source' = Source
    BY <1>2 DEF Source
  <2> QED BY <1>1, <2>1 DEF Follow!vars, Source
<1>3. ASSUME NEW k \in Gateways, gw[k].edit < gw'[k].edit, gw'[k].edit \in Nat,
             \A g \in Gateways \ {k} : gw'[g].edit = gw[g].edit
      PROVE  Follow!Next
  <2>1. Source' = [Source EXCEPT ![k] = Source'[k]]
    BY <1>3 DEF Source
  <2>2. gw[k].edit \in Nat
    BY StagesAreNumbers
  <2>3. Source'[k] \in Nat /\ Source'[k] > Source[k]
    BY <1>3, <2>2 DEF Source
  <2>4. Follow!Write(k)
    BY <1>1, <2>1, <2>3 DEF Follow!Write, Source
  <2> QED BY <2>4 DEF Follow!Next
<1> QED BY <1>2, <1>3, GatewayWritten

(* and a snapshot moves the copy to an edit that is no older;                *)
LEMMA HandleIsFollow ==
    ASSUME TypeInv, FlowInv, OrderInv, TypeInv', FlowInv', HandleXdsIR
    PROVE  Follow!Next
<1>1. UNCHANGED gw
  BY DEF HandleXdsIR, cluster
<1>2. ASSUME NEW g \in Gateways
      PROVE  /\ Served'[g] \in Nat /\ Served[g] <= Served'[g]
             /\ Served'[g] <= gw[g].edit
  <2>1. Served'[g] \in Nat /\ Served[g] \in Nat
    <3>1. snapshot'[g] \in Snapshots \cup {None}
      BY DEF TypeInv, TypeOK, XdsOK
    <3>2. snapshot'[g] # None => snapshot'[g].ir.gateway \in Nat
      BY <3>1, BoundsAssumption DEF Snapshots, Representations
    <3> QED BY <3>2, StagesAreNumbers DEF Served
  <2>2. Served'[g] <= gw'[g].edit
    BY DEF FlowInv, Flows, Chain, AtMost
  <2>3. Served'[g] # Served[g] => Served'[g] \in Queued(g)
    BY ServedWasQueued
  <2>4. \A x \in Queued(g) : Served[g] <= x
    BY DEF FlowInv, Flows, Chain, AtMost
  <2> QED BY <1>1, <2>1, <2>2, <2>3, <2>4
<1>3. Served' = [g \in Gateways |-> Served'[g]]
  BY DEF Served
<1>4. Source' = Source
  BY <1>1 DEF Source
<1>5. Follow!Follow
  BY <1>2, <1>3, <1>4 DEF Follow!Follow, Source
<1> QED BY <1>5 DEF Follow!Next

(* every step is a step of Follower or unseen,                               *)
LEMMA FollowStep ==
    ASSUME TypeInv, FlowInv, OrderInv, [Next]_vars
    PROVE  [Follow!Next]_(Follow!vars)
<1>1. CASE Environment
  BY <1>1, WriteIsWrite
<1>2. CASE HandleXdsIR
  BY <1>2, NextType, NextFlow, HandleIsFollow
<1>3. CASE UNCHANGED <<gw, snapshot>>
  <2>1. Served' = Served /\ Source' = Source
    BY <1>3 DEF Served, Source
  <2> QED BY <2>1 DEF Follow!vars, Source
<1>4. CASE ReconcileStep \/ TranslatorStep \/ Subscribe \/ UNCHANGED vars
  <2>1. UNCHANGED <<gw, snapshot>>
    BY <1>4 DEF ReconcileStep, Reconcile, processGateways,
       processHTTPRoutes, Store, TranslatorStep, Translate, StoreXdsIR,
       Subscribe, vars, cluster, xds
  <2> QED BY <1>3, <2>1
<1>5. CASE CreateOrUpdateProxyInfra \/ Restart
  <2>1. UNCHANGED gw /\ snapshot' = [g \in Gateways |-> None]
    BY <1>5 DEF CreateOrUpdateProxyInfra, Restart, Memory, cluster
  <2>2. Served' = [g \in Gateways |-> 0] /\ Source' = Source
    BY <2>1 DEF Served, Source
  <2>3. Follow!Forget
    BY <2>2 DEF Follow!Forget, Source
  <2> QED BY <2>3 DEF Follow!Next
<1> QED BY <1>1, <1>2, <1>4, <1>5 DEF Next

(* and initial states are initial states of Follower.                        *)
LEMMA FollowInit ==
    ASSUME Init
    PROVE  Follow!Init
<1>1. \A g \in Gateways : gw[g].edit \in Nat
  BY InitType DEF TypeInv, TypeOK, ClusterOK
<1>2. Served = [g \in Gateways |-> 0]
  BY DEF Init, Served
<1> QED BY <1>1, <1>2 DEF Follow!Init

(* The snapshots implement Follower: what is served for a gateway was once   *)
(* its spec and never gives way to an older one, whatever the number of      *)
(* views on their way and wherever the xDS server subscribes in between      *)
(* (watchable.go:11, translator.go:43, xds_server.go:70).                    *)
THEOREM SnapshotsFollowGateways == Spec => FollowsGateways
<1> DEFINE Inv == TypeInv /\ FlowInv /\ OrderInv
<1>1. Init => Inv /\ Follow!Init
  BY InitType, InitFlow, FollowInit
<1>2. Inv /\ [Next]_vars => Inv' /\ [Follow!Next]_(Follow!vars)
  BY NextType, NextFlow, FollowStep
<1> HIDE DEF Inv
<1> QED BY <1>1, <1>2, PTL DEF Spec, FollowsGateways, Follow!Spec

-----------------------------------------------------------------------------
(* The stored view                                                         *)

(* A step after which every view still shows what it showed: the changes    *)
(* that enqueue nothing, and all steps of the process.                      *)
Harmless ==
    /\ ListGatewayClass' \subseteq ListGatewayClass
    /\ \A c \in ListGatewayClass' : GatewaysOf(c)' \subseteq GatewaysOf(c)
    /\ \A r \in Routes : /\ route'[r].passed => route'[r] = route[r]
                         /\ route[r].edit > 0 => route'[r].edit > 0
    /\ \A g \in Gateways : gw'[g].class \in ListGatewayClass' => gw'[g] = gw[g]

(* A step that leaves the cluster alone is harmless.                         *)
LEMMA SameIsHarmless ==
    ASSUME UNCHANGED cluster
    PROVE  Harmless
BY DEF Harmless, cluster, ListGatewayClass, GatewaysOf

(* What a view shows it still shows after a harmless step.                   *)
LEMMA StillShown ==
    ASSUME TypeInv, Harmless, NEW v \in Views, NEW left
    PROVE  /\ \A c \in ListGatewayClass' :
                 Shows(v, c, left) => Shows(v, c, left)'
           /\ Agrees(v) => Agrees(v)'
<1>1. ASSUME NEW c \in ListGatewayClass', Shows(v, c, left)
      PROVE  Shows(v, c, left)'
  <2>1. PICK i \in DOMAIN v :
        /\ v[i].class = c
        /\ GatewaysOf(c) \subseteq DOMAIN v[i].gateways
        /\ \A r \in Routes, g \in GatewaysOf(c) :
              /\ route[r].passed /\ g \in ParentsOf(r)
              /\ i = Len(v) => g \notin left
              => r \in DOMAIN v[i].routes /\ v[i].routes[r] = route[r].edit
    BY <1>1 DEF Shows
  <2>2. GatewaysOf(c)' \subseteq GatewaysOf(c)
    BY DEF Harmless
  <2>3. ASSUME NEW r \in Routes, NEW g \in GatewaysOf(c)',
               route'[r].passed, g \in ParentsOf(r)',
               i = Len(v) => g \notin left
        PROVE  r \in DOMAIN v[i].routes /\ v[i].routes[r] = route'[r].edit
    <3>1. route'[r] = route[r]
      BY <2>3 DEF Harmless
    <3>2. ParentsOf(r)' = ParentsOf(r)
      BY <3>1 DEF ParentsOf
    <3> QED BY <2>1, <2>2, <2>3, <3>1, <3>2
  <2> QED BY <2>1, <2>2, <2>3 DEF Shows
<1>2. ASSUME Agrees(v)
      PROVE  Agrees(v)'
  <2>1. ASSUME NEW i \in DOMAIN v, NEW g \in DOMAIN v[i].gateways,
               gw'[g].class \in ListGatewayClass'
        PROVE  v[i].gateways[g] = gw'[g].edit
    <3>1. g \in Gateways
      BY ViewHas, ResultHas
    <3>2. gw'[g] = gw[g] /\ ListGatewayClass' \subseteq ListGatewayClass
      BY <2>1, <3>1 DEF Harmless
    <3> QED BY <1>2, <2>1, <3>2 DEF Agrees
  <2>2. ASSUME NEW i \in DOMAIN v, NEW r \in DOMAIN v[i].routes
        PROVE  /\ route'[r].edit > 0
               /\ route'[r].passed => v[i].routes[r] = route'[r].edit
    <3>1. r \in Routes
      BY ViewHas, ResultHas
    <3>2. /\ route'[r].passed => route'[r] = route[r]
          /\ route[r].edit > 0 => route'[r].edit > 0
      BY <3>1 DEF Harmless
    <3>3. /\ route[r].edit > 0
          /\ route[r].passed => v[i].routes[r] = route[r].edit
      BY <1>2 DEF Agrees
    <3> QED BY <3>2, <3>3
  <2> QED BY <2>1, <2>2 DEF Agrees
<1> QED BY <1>1, <1>2

(* A harmless step that leaves the reconciler and its view alone.            *)
LEMMA HarmlessKeeps ==
    ASSUME TypeInv, RecInv, ViewInv, Harmless,
           UNCHANGED <<rec, view, lossy>>, alive' => alive,
           (alive' /\ ~ pending') => ~ pending
    PROVE  RecInv' /\ ViewInv'
<1>1. ASSUME alive', ~ pending', rec'.pc # "idle", ~ rec'.lossy
      PROVE  /\ \A c \in ListGatewayClass' :
                    c \in rec'.todo \/ Shows(rec.built, c, rec.left)'
             /\ Agrees(rec.built)'
  <2>1. PICK v, left : v \in Views /\ v = rec.built /\ left = rec.left
    BY RecHas
  <2>2. /\ \A c \in ListGatewayClass : c \in rec.todo \/ Shows(v, c, left)
        /\ Agrees(v)
    BY <1>1, <2>1 DEF RecInv
  <2>3. ListGatewayClass' \subseteq ListGatewayClass
    BY DEF Harmless
  <2>4. /\ \A c \in ListGatewayClass' : c \in rec.todo \/ Shows(v, c, left)'
        /\ Agrees(v)'
    BY <2>1, <2>2, <2>3, StillShown
  <2>5. rec'.built = v /\ rec'.left = left /\ rec' = rec
    BY <2>1
  <2>6. \A c \in ListGatewayClass' :
            c \in rec'.todo \/ Shows(rec.built, c, rec.left)'
    BY <2>4, <2>5 DEF Shows
  <2>7. Agrees(rec.built)'
    BY <2>4, <2>5 DEF Agrees
  <2> QED BY <2>6, <2>7
<1>2. ASSUME alive', ~ pending', rec'.pc = "idle", ~ lossy',
             NEW c \in ListGatewayClass'
      PROVE  view' # None /\ Shows(view, c, {})' /\ Agrees(view)'
  <2>1. c \in ListGatewayClass
    BY DEF Harmless
  <2>2. view # None /\ Shows(view, c, {}) /\ Agrees(view)
    BY <1>2, <2>1 DEF ViewInv
  <2>3. view \in Views
    BY <2>2 DEF TypeInv, TypeOK, ProviderOK
  <2>4. PICK v : v \in Views /\ v = view
    BY <2>3
  <2>5. Shows(v, c, {})' /\ Agrees(v)'
    BY <2>2, <2>4, StillShown
  <2>6. Shows(view, c, {})'
    BY <2>4, <2>5 DEF Shows
  <2>7. Agrees(view)'
    BY <2>4, <2>5 DEF Agrees
  <2> QED BY <2>2, <2>6, <2>7
<1>3. RecInv'
  BY <1>1 DEF RecInv
<1>4. ViewInv'
  BY <1>2 DEF ViewInv
<1> QED BY <1>3, <1>4

(* A change that enqueues nothing is harmless.                               *)
LEMMA QuietChange ==
    ASSUME TypeInv, Environment, alive, ~ pending'
    PROVE  Harmless /\ ~ pending
<1>1. UNCHANGED Unobserved /\ alive' = alive
  BY GatewayWritten DEF Unobserved, process
<1>2. /\ class \in [Classes -> {"absent", "ours", "foreign", "leaving"}]
      /\ gw \in [Gateways -> [class : Classes \cup {None}, edit : Nat]]
      /\ route \in [Routes -> [refs : RouteRefs \cup {{}}, edit : Nat,
                             passed : BOOLEAN]]
      /\ None \notin Classes
  BY NoneAssumption DEF TypeInv, TypeOK, ClusterOK
<1>3. ASSUME NEW c \in Classes, WatchClass(c)
      PROVE  Harmless /\ ~ pending
  <2>1. UNCHANGED <<gw, route>>
    BY <1>3 DEF WatchClass
  <2>2. ~ pending
    BY <1>3 DEF WatchClass, Enqueue
  <2>3. ListGatewayClass' \subseteq ListGatewayClass
    BY <1>2, <1>3 DEF WatchClass, Enqueue, ListGatewayClass
  <2>4. \A d : GatewaysOf(d)' = GatewaysOf(d)
    BY <2>1 DEF GatewaysOf
  <2> QED BY <1>1, <2>1, <2>2, <2>3, <2>4 DEF Harmless
<1>4. ASSUME NEW g \in Gateways, NEW c \in Classes, WatchGateway(g, c)
      PROVE  Harmless /\ ~ pending
  <2>1. /\ UNCHANGED <<class, route>>
        /\ gw' = [gw EXCEPT ![g] = [class |-> c, edit |-> edits + 1]]
        /\ ~ pending /\ class[c] \notin {"ours", "leaving"}
    BY <1>2, <1>4 DEF WatchGateway, Enqueue, GatewayOfOurs
  <2>2. ListGatewayClass' = ListGatewayClass /\ c \notin ListGatewayClass
    BY <2>1 DEF ListGatewayClass
  <2>3. \A h \in Gateways : gw'[h].class \in ListGatewayClass => gw'[h] = gw[h]
    BY <1>2, <2>1, <2>2
  <2>4. \A d \in ListGatewayClass : GatewaysOf(d)' \subseteq GatewaysOf(d)
    BY <2>3 DEF GatewaysOf
  <2> QED BY <1>1, <2>1, <2>2, <2>3, <2>4 DEF Harmless
<1>5. ASSUME NEW g \in Gateways, WatchGatewayDeleted(g)
      PROVE  Harmless /\ ~ pending
  <2>1. /\ UNCHANGED <<class, route>>
        /\ gw' = [gw EXCEPT ![g].class = None] /\ ~ pending
    BY <1>5 DEF WatchGatewayDeleted, Enqueue
  <2>2. ListGatewayClass' = ListGatewayClass /\ None \notin ListGatewayClass
    BY <1>2, <2>1 DEF ListGatewayClass
  <2>3. \A h \in Gateways : gw'[h].class \in ListGatewayClass => gw'[h] = gw[h]
    BY <1>2, <2>1, <2>2
  <2>4. \A d \in ListGatewayClass : GatewaysOf(d)' \subseteq GatewaysOf(d)
    BY <2>3 DEF GatewaysOf
  <2> QED BY <1>1, <2>1, <2>2, <2>3, <2>4 DEF Harmless
<1>6. ASSUME NEW r \in Routes, NEW refs, NEW changes,
             WatchHTTPRoute(r, refs, changes)
      PROVE  Harmless /\ ~ pending
  <2>1. UNCHANGED <<class, gw>> /\ edits \in Nat
    BY <1>6, BoundsAssumption DEF WatchHTTPRoute, TypeInv, TypeOK, ClusterOK
  <2>2. /\ ~ pending
        /\ route' = [route EXCEPT ![r] = [refs |-> refs, edit |-> edits + 1,
                                           passed |-> FALSE]]
    BY <1>6 DEF WatchHTTPRoute, Enqueue
  <2>3. \A q \in Routes : /\ route'[q].passed => route'[q] = route[q]
                          /\ route[q].edit > 0 => route'[q].edit > 0
    BY <1>2, <2>1, <2>2
  <2>4. /\ ListGatewayClass' = ListGatewayClass
        /\ \A d : GatewaysOf(d)' = GatewaysOf(d)
    BY <2>1 DEF ListGatewayClass, GatewaysOf
  <2> QED BY <1>1, <2>1, <2>2, <2>3, <2>4 DEF Harmless
<1>7. ~ \E r \in Routes : WatchHTTPRouteDeleted(r)
  BY DEF WatchHTTPRouteDeleted, Enqueue
<1>8. ~ WatchOther
  BY DEF WatchOther, Enqueue
<1> QED BY <1>3, <1>4, <1>5, <1>6, <1>7, <1>8 DEF Environment

(* The view being built through the first List,                              *)
LEMMA ReconcileView ==
    ASSUME TypeInv, RecInv, ViewInv, Reconcile
    PROVE  RecInv' /\ ViewInv'
<1>1. UNCHANGED cluster
  BY DEF Reconcile
<1>2. ListGatewayClass' = ListGatewayClass
  BY <1>1 DEF cluster, ListGatewayClass
<1>3. CASE ListGatewayClass = {}
  <2>1. rec'.pc = "idle"
    BY <1>3, IdleIs DEF Reconcile
  <2> QED BY <1>2, <1>3, <2>1 DEF RecInv, ViewInv
<1>4. CASE ListGatewayClass # {}
  <2>1. rec' = [Idle EXCEPT !.pc = "class", !.todo = ListGatewayClass]
    BY <1>4 DEF Reconcile
  <2>2. /\ rec'.pc = "class" /\ rec'.todo = ListGatewayClass
        /\ rec'.built = <<>>
    BY <2>1, IdleIs
  <2>3. Len(rec'.built) = 0 /\ DOMAIN rec'.built = {}
    BY <2>2, EmptySeq
  <2>4. Agrees(rec.built)'
    BY <2>3 DEF Agrees
  <2> QED BY <1>2, <2>2, <2>4 DEF RecInv, ViewInv
<1> QED BY <1>3, <1>4

(* What a view shows, and whether it agrees, depends on the cluster only.    *)
LEMMA SameShown ==
    ASSUME UNCHANGED cluster, NEW v, NEW left
    PROVE  /\ ListGatewayClass' = ListGatewayClass
           /\ \A c : Shows(v, c, left)' = Shows(v, c, left)
           /\ Agrees(v)' = Agrees(v)
<1>1. ListGatewayClass' = ListGatewayClass
  BY DEF cluster, ListGatewayClass
<1>2. \A c : Shows(v, c, left)' = Shows(v, c, left)
  BY DEF cluster, Shows, GatewaysOf, ParentsOf
<1>3. Agrees(v)' = Agrees(v)
  BY DEF cluster, Agrees, ListGatewayClass
<1> QED BY <1>1, <1>2, <1>3

(* What a step of the reconciler that leaves the cluster alone owes.         *)
LEMMA BuiltShows ==
    ASSUME UNCHANGED cluster, rec'.pc # "idle",
           (alive' /\ ~ pending' /\ ~ rec'.lossy) =>
               /\ \A c \in ListGatewayClass :
                     c \in rec'.todo \/ Shows(rec'.built, c, rec'.left)
               /\ Agrees(rec'.built)
    PROVE  RecInv' /\ ViewInv'
<1>1. PICK w, left : w = rec'.built /\ left = rec'.left
  OBVIOUS
<1>2. ASSUME alive', ~ pending', ~ rec'.lossy
      PROVE  /\ \A c \in ListGatewayClass' :
                    c \in rec'.todo \/ Shows(rec.built, c, rec.left)'
             /\ Agrees(rec.built)'
  <2>1. /\ \A c \in ListGatewayClass' : c \in rec'.todo \/ Shows(w, c, left)'
        /\ Agrees(w)'
    BY <1>1, <1>2, SameShown
  <2>2. \A c \in ListGatewayClass' :
            c \in rec'.todo \/ Shows(rec.built, c, rec.left)'
    BY <1>1, <2>1 DEF Shows
  <2>3. Agrees(rec.built)'
    BY <1>1, <2>1 DEF Agrees
  <2> QED BY <2>2, <2>3
<1> QED BY <1>2 DEF RecInv, ViewInv

(* the List of the gateways of a class, which shows the class but for the    *)
(* routes,                                                                   *)
LEMMA processGatewaysView ==
    ASSUME TypeInv, RecInv, ViewInv, NEW c \in Classes, processGateways(c)
    PROVE  RecInv' /\ ViewInv'
<1>1. /\ UNCHANGED cluster /\ UNCHANGED <<pending, alive>>
      /\ rec.pc = "class" /\ rec.left = {}
  BY DEF processGateways, process, TypeInv, Phased
<1>2. PICK gs \in SUBSET GatewaysOf(c), lost \in BOOLEAN :
        rec' = AddClass(c, gs, lost) /\ (~ lost => gs = GatewaysOf(c))
  BY ReadStep
<1>3. PICK w, v : w = rec'.built /\ v = rec.built
  OBVIOUS
<1>0. PICK res, new :
        /\ res = [class |-> c, gateways |-> [g \in gs |-> gw[g].edit],
                  routes |-> NoObjects]
        /\ new = rec' /\ new = AddClass(c, gs, lost)
  BY <1>2
<1>11. res \in Results
  BY <1>0, AddClassIs
<1>4. /\ res \in Results
      /\ res.class = c /\ res.gateways = [g \in gs |-> gw[g].edit]
      /\ DOMAIN res.routes = {}
  BY <1>0, <1>11, NoObjectsType
<1>9. /\ new.built = Append(rec.built, res) /\ new.todo = rec.todo \ {c}
      /\ new.left = gs /\ new.lossy = (rec.lossy \/ lost)
      /\ new.pc \in {"class", "routes", "store"}
  BY <1>0, AddClassIs
<1>10. /\ w = Append(v, res) /\ rec'.todo = rec.todo \ {c}
       /\ rec'.left = gs /\ rec'.lossy = (rec.lossy \/ lost)
       /\ rec'.pc \in {"class", "routes", "store"}
  BY <1>0, <1>3, <1>9
<1>5. v \in Seq(Results)
  BY <1>3, RecHas
<1>6. /\ Len(v) \in Nat /\ DOMAIN v = 1 .. Len(v) /\ Len(w) = Len(v) + 1
      /\ DOMAIN w = 1 .. Len(v) + 1
      /\ \A i \in 1 .. Len(v) : w[i] = v[i]
      /\ w[Len(v) + 1] = res
  BY <1>4, <1>5, <1>10, PutLast
<1>7. ASSUME alive, ~ pending, ~ rec.lossy, ~ lost
      PROVE  /\ \A d \in ListGatewayClass :
                    d \in rec.todo \ {c} \/ Shows(w, d, gs)
             /\ Agrees(w)
  <2>1. /\ \A d \in ListGatewayClass : d \in rec.todo \/ Shows(v, d, {})
        /\ Agrees(v)
    BY <1>1, <1>3, <1>7 DEF RecInv
  <2>2. \A d : Shows(v, d, {}) => Shows(w, d, gs)
    BY <1>6 DEF Shows
  <2>3. Shows(w, c, gs)
    <3>1. PICK i \in DOMAIN w : i = Len(w)
      BY <1>6
    <3>2. w[i].class = c /\ DOMAIN w[i].gateways = GatewaysOf(c)
      BY <1>2, <1>4, <1>6, <1>7, <3>1
    <3>3. gs = GatewaysOf(c)
      BY <1>2, <1>7
    <3> QED BY <3>1, <3>2, <3>3 DEF Shows
  <2>4. Agrees(w)
    <3>1. ASSUME NEW i \in DOMAIN w, NEW g \in DOMAIN w[i].gateways,
                 gw[g].class \in ListGatewayClass
          PROVE  w[i].gateways[g] = gw[g].edit
      <4>1. CASE i \in DOMAIN v
        BY <1>6, <2>1, <3>1, <4>1 DEF Agrees
      <4>2. CASE i = Len(v) + 1
        BY <1>4, <1>6, <3>1, <4>2
      <4> QED BY <1>6, <4>1, <4>2
    <3>2. ASSUME NEW i \in DOMAIN w, NEW r \in DOMAIN w[i].routes
          PROVE  /\ route[r].edit > 0
                 /\ route[r].passed => w[i].routes[r] = route[r].edit
      <4>1. i \in DOMAIN v /\ w[i] = v[i]
        BY <1>4, <1>6
      <4> QED BY <2>1, <4>1 DEF Agrees
    <3> QED BY <3>1, <3>2 DEF Agrees
  <2> QED BY <2>1, <2>2, <2>3, <2>4
<1>8. (alive' /\ ~ pending' /\ ~ rec'.lossy) =>
          /\ \A d \in ListGatewayClass :
                d \in rec'.todo \/ Shows(rec'.built, d, rec'.left)
          /\ Agrees(rec'.built)
  BY <1>1, <1>3, <1>7, <1>10
<1> QED BY <1>1, <1>8, <1>10, BuiltShows

(* the List of the routes of a gateway, which are left no longer,            *)
LEMMA processHTTPRoutesView ==
    ASSUME TypeInv, RecInv, ViewInv, NEW g \in Gateways, processHTTPRoutes(g)
    PROVE  RecInv' /\ ViewInv'
<1>1. /\ UNCHANGED cluster /\ UNCHANGED <<pending, alive>>
      /\ rec.pc = "routes"
  BY DEF processHTTPRoutes, process
<1>2. PICK routes \in Objects(Routes), lost \in BOOLEAN :
        /\ rec' = AddRoutes(g, routes, lost)
        /\ ~ lost => routes = processHTTPRoute(g)
  BY RoutesStep
<1>3. PICK v, w, n, left :
        v = rec.built /\ w = rec'.built /\ n = Len(v) /\ left = rec.left
  OBVIOUS
<1>4. /\ rec'.pc \in {"class", "routes", "store"} /\ rec'.left = left \ {g}
      /\ rec'.todo = rec.todo /\ rec'.lossy = (rec.lossy \/ lost)
      /\ n \in Nat \ {0} /\ Len(w) = n
      /\ DOMAIN v = 1 .. n /\ DOMAIN w = 1 .. n
      /\ \A i \in 1 .. n - 1 : w[i] = v[i]
      /\ \A i \in 1 .. n : /\ w[i].class = v[i].class
                           /\ w[i].gateways = v[i].gateways
      /\ w[n].routes = routes /\ Current = v[n]
  BY <1>1, <1>2, <1>3, AddRoutesIs
<1>5. ASSUME alive, ~ pending, ~ rec.lossy, ~ lost
      PROVE  /\ \A d \in ListGatewayClass :
                    d \in rec.todo \/ Shows(w, d, left \ {g})
             /\ Agrees(w)
  <2>1. /\ \A d \in ListGatewayClass : d \in rec.todo \/ Shows(v, d, left)
        /\ Agrees(v)
    BY <1>1, <1>3, <1>5 DEF RecInv
  <2>2. /\ \A r \in DOMAIN v[n].routes :
              r \in DOMAIN w[n].routes /\ w[n].routes[r] = v[n].routes[r]
        /\ \A r \in DOMAIN w[n].routes \ DOMAIN v[n].routes :
              route[r].edit > 0 /\ w[n].routes[r] = route[r].edit
        /\ \A r \in Routes :
              route[r].edit > 0 /\ g \in ParentsOf(r) =>
                  r \in DOMAIN w[n].routes
    BY <1>1, <1>2, <1>4, <1>5, RoutesFound
  <2>3. Agrees(w)
    <3>1. \A i \in DOMAIN w : \A h \in DOMAIN w[i].gateways :
              gw[h].class \in ListGatewayClass =>
                  w[i].gateways[h] = gw[h].edit
      BY <1>4, <2>1 DEF Agrees
    <3>2. ASSUME NEW i \in DOMAIN w, NEW r \in DOMAIN w[i].routes
          PROVE  /\ route[r].edit > 0
                 /\ route[r].passed => w[i].routes[r] = route[r].edit
      <4>1. CASE i # n
        <5>1. i \in DOMAIN v /\ w[i] = v[i]
          BY <1>4, <4>1
        <5> QED BY <2>1, <5>1 DEF Agrees
      <4>2. CASE i = n /\ r \in DOMAIN v[n].routes
        BY <1>4, <2>1, <2>2, <4>2 DEF Agrees
      <4>3. CASE i = n /\ r \notin DOMAIN v[n].routes
        BY <2>2, <4>3
      <4> QED BY <4>1, <4>2, <4>3
    <3> QED BY <3>1, <3>2 DEF Agrees
  <2>4. ASSUME NEW d, Shows(v, d, left)
        PROVE  Shows(w, d, left \ {g})
    <3>1. PICK i \in DOMAIN v :
        /\ v[i].class = d
        /\ GatewaysOf(d) \subseteq DOMAIN v[i].gateways
        /\ \A r \in Routes, h \in GatewaysOf(d) :
              /\ route[r].passed /\ h \in ParentsOf(r)
              /\ i = Len(v) => h \notin left
              => r \in DOMAIN v[i].routes /\ v[i].routes[r] = route[r].edit
      BY <2>4 DEF Shows
    <3>2. ASSUME NEW r \in Routes, NEW h \in GatewaysOf(d), route[r].passed,
                 h \in ParentsOf(r), i = Len(w) => h \notin left \ {g}
          PROVE  r \in DOMAIN w[i].routes /\ w[i].routes[r] = route[r].edit
      <4>1. CASE i # n
        BY <1>3, <1>4, <3>1, <3>2, <4>1
      <4>2. CASE i = n /\ h \notin left
        BY <1>3, <1>4, <2>2, <3>1, <3>2, <4>2
      <4>3. CASE i = n /\ h = g
        <5>1. route[r].edit > 0
          BY <3>2 DEF TypeInv, TypeOK, ClusterOK, Numbered
        <5>2. r \in DOMAIN w[n].routes
          BY <2>2, <3>2, <4>3, <5>1
        <5>3. n \in DOMAIN w
          BY <1>4
        <5> QED BY <2>3, <3>2, <4>3, <5>2, <5>3 DEF Agrees
      <4> QED BY <1>4, <3>2, <4>1, <4>2, <4>3
    <3>3. i \in DOMAIN w /\ w[i].class = d
          /\ GatewaysOf(d) \subseteq DOMAIN w[i].gateways
      BY <1>4, <3>1
    <3> QED BY <3>2, <3>3 DEF Shows
  <2> QED BY <2>1, <2>3, <2>4
<1>6. (alive' /\ ~ pending' /\ ~ rec'.lossy) =>
          /\ \A d \in ListGatewayClass :
                d \in rec'.todo \/ Shows(rec'.built, d, rec'.left)
          /\ Agrees(rec'.built)
  BY <1>1, <1>3, <1>4, <1>5
<1> QED BY <1>1, <1>4, <1>6, BuiltShows

(* and Store, which makes it the stored view.                                *)
LEMMA StoreView ==
    ASSUME TypeInv, RecInv, ViewInv, Store
    PROVE  RecInv' /\ ViewInv'
<1>1. /\ UNCHANGED cluster /\ UNCHANGED <<pending, alive>>
      /\ rec.pc = "store" /\ rec' = Idle
      /\ view' = rec.built /\ lossy' = rec.lossy
  BY DEF Store, process
<1>2. rec'.pc = "idle"
  BY <1>1, IdleIs
<1>3. ASSUME alive', ~ pending', ~ lossy', NEW c \in ListGatewayClass'
      PROVE  view' # None /\ Shows(view, c, {})' /\ Agrees(view)'
  <2>1. PICK v : v \in Views /\ v = rec.built
    BY RecHas
  <2>2. rec.todo = {} /\ rec.left = {}
    BY <1>1 DEF TypeInv, Phased
  <2>3. ListGatewayClass' = ListGatewayClass
    BY <1>1, SameShown
  <2>4. Shows(v, c, {}) /\ Agrees(v)
    BY <1>1, <1>3, <2>1, <2>2, <2>3 DEF RecInv
  <2>5. view' = v /\ v # None
    BY <1>1, <2>1, NothingAssumption
  <2>6. Shows(v, c, {})' /\ Agrees(v)'
    BY <1>1, <2>4, SameShown
  <2>7. Shows(view, c, {})'
    BY <2>5, <2>6 DEF Shows
  <2>8. Agrees(view)'
    BY <2>5, <2>6 DEF Agrees
  <2> QED BY <2>5, <2>7, <2>8
<1>4. ViewInv'
  BY <1>3 DEF ViewInv
<1> QED BY <1>2, <1>4 DEF RecInv

(* After a crash there is no view, and a restart leaves work pending.        *)
LEMMA RestartView ==
    ASSUME TypeInv, CreateOrUpdateProxyInfra \/ Restart
    PROVE  RecInv' /\ ViewInv'
<1>1. rec'.pc = "idle"
  BY IdleIs DEF CreateOrUpdateProxyInfra, Restart, Memory
<1>2. CASE CreateOrUpdateProxyInfra
  BY <1>1, <1>2 DEF CreateOrUpdateProxyInfra, Memory, RecInv, ViewInv
<1>3. CASE Restart
  <2>1. UNCHANGED cluster /\ (~ pending' => ~ Created)
    BY <1>3 DEF Restart
  <2>2. ~ pending' => ListGatewayClass' = {}
    BY <2>1 DEF Created, cluster, ListGatewayClass
  <2> QED BY <1>1, <2>2 DEF RecInv, ViewInv
<1> QED BY <1>2, <1>3

(* Every step keeps what the views show.                                     *)
LEMMA NextView ==
    ASSUME TypeInv, RecInv, ViewInv, [Next]_vars
    PROVE  RecInv' /\ ViewInv'
<1>1. CASE Environment
  <2>1. UNCHANGED <<rec, view, lossy, alive>>
    BY <1>1, GatewayWritten DEF Unobserved, process
  <2>2. CASE alive /\ ~ pending'
    BY <1>1, <2>1, <2>2, QuietChange, HarmlessKeeps
  <2>3. CASE ~ alive \/ pending'
    BY <2>1, <2>3 DEF RecInv, ViewInv
  <2> QED BY <2>2, <2>3
<1>2. CASE ReconcileStep
  BY <1>2, ReconcileView, processGatewaysView, processHTTPRoutesView,
     StoreView DEF ReconcileStep
<1>3. CASE TranslatorStep \/ HandleXdsIR \/ Subscribe \/ UNCHANGED vars
  <2>1. UNCHANGED cluster /\ UNCHANGED <<rec, view, lossy, pending, alive>>
    BY <1>3 DEF TranslatorStep, Translate, StoreXdsIR, HandleXdsIR, Subscribe,
                vars, provider, process
  <2> QED BY <2>1, SameIsHarmless, HarmlessKeeps
<1>4. CASE CreateOrUpdateProxyInfra \/ Restart
  BY <1>4, RestartView
<1> QED BY <1>1, <1>2, <1>3, <1>4 DEF Next

-----------------------------------------------------------------------------
(* From the stored view to the representations                             *)

(* Steps that leave view and representations alone keep DownInv.             *)
LEMMA SameDown ==
    ASSUME DownInv, UNCHANGED <<view, updates, tr, xdsIR>>
    PROVE  DownInv'
BY DEF DownInv, Remains, Reaches, buildIR

(* Store puts the view last in the queue.                                    *)
LEMMA StoreDown ==
    ASSUME TypeInv, Store
    PROVE  DownInv'
<1>1. updates' = Append(updates, rec.built) /\ view' = rec.built
  BY DEF Store, HandleSubscription
<1>2. updates \in Seq(Views) /\ rec.built \in Views
  BY RecHas DEF TypeInv, TypeOK, ProviderOK
<1>3. updates' # <<>> /\ updates'[Len(updates')] = view'
  BY <1>1, <1>2, PutLast
<1> QED BY <1>3 DEF DownInv

(* Translate leaves no gateway of the view out.                              *)
LEMMA TranslateDown ==
    ASSUME TypeInv, DownInv, Translate
    PROVE  DownInv'
<1>1. UNCHANGED <<view, xdsIR>>
  BY DEF Translate
<1>2. PICK results \in Views :
        /\ results # <<>>
        /\ \/ tr.results # <<>> /\ results = tr.results /\ updates' = updates
           \/ /\ tr = NoWork /\ updates # <<>> /\ results = Head(updates)
              /\ updates' = Tail(updates)
        /\ tr.xds = {} /\ tr'.results = Tail(results)
        /\ tr'.xds = DOMAIN Head(results).gateways
        /\ tr'.xds # {} => tr'.res = Head(results)
  BY TranslateTakes
<1>3. /\ tr'.results = Tail(results)
      /\ tr'.xds = DOMAIN Head(results).gateways
      /\ tr'.xds # {} => tr'.res = Head(results)
  BY <1>2
<1>4. /\ Len(results) \in Nat \ {0} /\ DOMAIN results = 1 .. Len(results)
      /\ Head(results) = results[1] /\ 1 \in DOMAIN results
      /\ DOMAIN tr'.results = 1 .. Len(results) - 1
      /\ \A i \in 1 .. Len(results) - 1 : tr'.results[i] = results[i + 1]
  <2>1. results \in Seq(Results) /\ results # <<>>
    BY <1>2 DEF Views
  <2> QED BY <1>3, <2>1, TakeFirst
<1>5. ASSUME NEW i \in DOMAIN results, NEW g \in DOMAIN results[i].gateways
      PROVE  Remains(g)'
  <2>1. CASE i = 1
    BY <1>3, <1>4, <2>1 DEF Remains
  <2>2. CASE i # 1
    <3>1. i - 1 \in DOMAIN tr'.results /\ tr'.results[i - 1] = results[i]
      BY <1>4, <2>2
    <3> QED BY <3>1 DEF Remains
  <2> QED BY <2>1, <2>2
<1>6. ASSUME view # None,
             \A i \in DOMAIN results : \E j \in DOMAIN view : results[i] = view[j],
             updates' = <<>>,
             \A j \in DOMAIN view : \A g \in DOMAIN view[j].gateways :
                Remains(g)' \/ Reaches(g)
      PROVE  DownInv'
  <2>1. \A g : Reaches(g)' = Reaches(g)
    BY <1>1 DEF Reaches, buildIR
  <2>2. \A i \in DOMAIN tr'.results :
            \E j \in DOMAIN view' : tr'.results[i] = view'[j]
    BY <1>1, <1>4, <1>6
  <2>3. tr'.xds # {} => \E j \in DOMAIN view' : tr'.res = view'[j]
    BY <1>1, <1>3, <1>4, <1>6
  <2>4. \A j \in DOMAIN view' : \A g \in DOMAIN view'[j].gateways :
            Remains(g)' \/ Reaches(g)'
    BY <1>1, <1>6, <2>1
  <2> QED BY <1>6, <2>2, <2>3, <2>4 DEF DownInv
<1>7. CASE view = None
  BY <1>1, <1>7 DEF DownInv
<1>8. CASE /\ view # None
           /\ tr.results # <<>> /\ results = tr.results /\ updates' = updates
  <2>1. CASE updates # <<>>
    BY <1>1, <1>8, <2>1 DEF DownInv
  <2>2. CASE updates = <<>>
    <3>1. /\ \A i \in DOMAIN results : \E j \in DOMAIN view : results[i] = view[j]
          /\ \A j \in DOMAIN view : \A g \in DOMAIN view[j].gateways :
                Remains(g) \/ Reaches(g)
      BY <1>8, <2>2 DEF DownInv
    <3>2. \A g : Remains(g) => Remains(g)'
      <4>1. ASSUME NEW g, Remains(g)
            PROVE  \E i \in DOMAIN results : g \in DOMAIN results[i].gateways
        BY <1>2, <1>8, <4>1 DEF Remains
      <4> QED BY <4>1, <1>5
    <3> QED BY <1>6, <1>8, <2>2, <3>1, <3>2
  <2> QED BY <2>1, <2>2
<1>9. CASE /\ view # None /\ tr = NoWork /\ updates # <<>>
           /\ results = Head(updates) /\ updates' = Tail(updates)
  <2>1. /\ Len(updates) \in Nat \ {0} /\ results = updates[1]
        /\ DOMAIN updates' = 1 .. Len(updates) - 1
        /\ Len(updates') = Len(updates) - 1 /\ updates' \in Seq(Views)
        /\ \A i \in 1 .. Len(updates) - 1 : updates'[i] = updates[i + 1]
    BY <1>9, TakeFirst DEF TypeInv, TypeOK, ProviderOK
  <2>2. updates[Len(updates)] = view
    BY <1>9 DEF DownInv
  <2>3. CASE Len(updates) = 1
    <3>1. updates' = <<>> /\ results = view
      BY <2>1, <2>2, <2>3, EmptySeq
    <3>2. \A j \in DOMAIN view : \A g \in DOMAIN view[j].gateways : Remains(g)'
      BY <1>5, <3>1
    <3> QED BY <1>6, <1>9, <3>1, <3>2
  <2>4. CASE Len(updates) # 1
    <3>1. Len(updates) - 1 \in 1 .. Len(updates) - 1
      BY <2>1, <2>4
    <3>2. updates' # <<>> /\ updates'[Len(updates')] = view
      BY <2>1, <2>2, <2>4, <3>1, EmptySeq
    <3> QED BY <1>1, <3>2 DEF DownInv
  <2> QED BY <2>3, <2>4
<1> QED BY <1>2, <1>7, <1>8, <1>9

(* StoreXdsIR gives a gateway the representation of the view at hand.        *)
LEMMA StoreXdsIRDown ==
    ASSUME TypeInv, DownInv, NEW k \in Gateways, StoreXdsIR(k)
    PROVE  DownInv'
<1>1. UNCHANGED <<view, updates>> /\ k \in tr.xds
  BY DEF StoreXdsIR, provider
<1>2. PICK ir \in Representations :
        /\ ir = buildIR(tr.res, k) /\ ir.gateway = tr.res.gateways[k]
        /\ tr.res \in Results /\ k \in DOMAIN tr.res.gateways
        /\ xdsIR' = [xdsIR EXCEPT ![k] = ir]
        /\ \/ ~ subscribed /\ xdsQ' = xdsQ
           \/ subscribed /\ xdsQ' = Append(xdsQ, [key |-> k, ir |-> ir])
        /\ tr' = Left([results |-> tr.results, res |-> tr.res,
                       xds |-> tr.xds \ {k}])
  BY StoreXdsIRStep
<1>3. /\ tr'.results = tr.results /\ tr'.xds = tr.xds \ {k}
      /\ tr'.xds # {} => tr'.res = tr.res
  <2>1. /\ tr.results \in Views
        /\ tr.xds \ {k} \in SUBSET (DOMAIN tr.res.gateways)
    BY <1>1, TrHas
  <2> QED BY <1>2, <2>1, LeftIs
<1>4. CASE view = None \/ updates # <<>>
  BY <1>1, <1>4 DEF DownInv
<1>5. CASE view # None /\ updates = <<>>
  <2>1. /\ \A i \in DOMAIN tr.results :
            \E j \in DOMAIN view : tr.results[i] = view[j]
        /\ \E j \in DOMAIN view : tr.res = view[j]
        /\ \A j \in DOMAIN view : \A g \in DOMAIN view[j].gateways :
              Remains(g) \/ Reaches(g)
    BY <1>1, <1>5 DEF DownInv
  <2>2. PICK m \in DOMAIN view : tr.res = view[m]
    BY <2>1
  <2>3. Reaches(k)'
    <3>1. xdsIR'[k] = buildIR(view[m], k)
      BY <1>2, <2>2 DEF TypeInv, TypeOK, TranslatorOK
    <3>2. k \in DOMAIN view[m].gateways
      BY <1>2, <2>2
    <3> QED BY <1>1, <3>1, <3>2
            DEF Reaches, buildIR
  <2>4. ASSUME NEW j \in DOMAIN view, NEW g \in DOMAIN view[j].gateways, g # k
        PROVE  Remains(g)' \/ Reaches(g)'
    <3>1. view \in Views
      BY <1>5 DEF TypeInv, TypeOK, ProviderOK
    <3>2. g \in Gateways
      BY <3>1, ViewHas, ResultHas
    <3>3. xdsIR'[g] = xdsIR[g]
      BY <1>2, <2>4, <3>2 DEF TypeInv, TypeOK, TranslatorOK
    <3>4. Reaches(g) => Reaches(g)'
      BY <1>1, <3>3 DEF Reaches, buildIR
    <3>5. Remains(g) => Remains(g)'
      BY <1>3, <2>4 DEF Remains
    <3> QED BY <2>1, <3>4, <3>5
  <2>5. /\ \A i \in DOMAIN tr'.results :
            \E j \in DOMAIN view' : tr'.results[i] = view'[j]
        /\ tr'.xds # {} => \E j \in DOMAIN view' : tr'.res = view'[j]
    BY <1>1, <1>3, <2>1
  <2>6. \A j \in DOMAIN view' : \A g \in DOMAIN view'[j].gateways :
            Remains(g)' \/ Reaches(g)'
    BY <1>1, <2>3, <2>4
  <2> QED BY <1>1, <1>5, <2>5, <2>6 DEF DownInv
<1> QED BY <1>4, <1>5

(* Every step keeps DownInv.                                                 *)
LEMMA NextDown ==
    ASSUME TypeInv, DownInv, [Next]_vars
    PROVE  DownInv'
<1>1. CASE Environment
  <2>1. UNCHANGED <<view, updates, tr, xdsIR>>
    BY <1>1, GatewayWritten DEF Unobserved, translator
  <2> QED BY <2>1, SameDown
<1>2. CASE Store
  BY <1>2, StoreDown
<1>3. CASE TranslatorStep
  BY <1>3, TranslateDown, StoreXdsIRDown DEF TranslatorStep
<1>4. CASE CreateOrUpdateProxyInfra \/ Restart
  <2>1. view' = None
    BY <1>4 DEF CreateOrUpdateProxyInfra, Restart, Memory
  <2> QED BY <2>1 DEF DownInv
<1>5. CASE \/ Reconcile \/ (\E c \in Classes : processGateways(c))
           \/ (\E g \in Gateways : processHTTPRoutes(g)) \/ HandleXdsIR \/ Subscribe
           \/ UNCHANGED vars
  <2>1. UNCHANGED <<view, updates, tr, xdsIR>>
    BY <1>5 DEF Reconcile, processGateways, processHTTPRoutes,
                HandleXdsIR, Subscribe, vars, provider, translator
  <2> QED BY <2>1, SameDown
<1> QED BY <1>1, <1>2, <1>3, <1>4, <1>5 DEF Next, ReconcileStep

-----------------------------------------------------------------------------
(* At rest                                                                 *)

SettledInv == TypeInv /\ RecInv /\ ViewInv /\ DownInv

(* The invariant of the settled state holds in every reachable state.        *)
LEMMA SettledInvariant == Spec => []SettledInv
<1>1. ASSUME Init
      PROVE  SettledInv
  <2>1. TypeInv /\ rec = Idle /\ view = None /\ pending = TRUE
    BY <1>1, InitType DEF Init
  <2> QED BY <2>1, IdleIs DEF SettledInv, RecInv, ViewInv, DownInv
<1>2. SettledInv /\ [Next]_vars => SettledInv'
  BY NextType, NextView, NextDown DEF SettledInv
<1> QED BY <1>1, <1>2, PTL DEF Spec

(* When the reconciler is at rest, the stored view has every route of a      *)
(* gateway of ours with its newest content and no route that is gone, for    *)
(* any number of objects and of changes between the Lists (gateway.go:32,    *)
(* httproute.go:44, controller.go:106 and :242).                             *)
THEOREM RoutesSettle == Spec => []SettledRoutesAreCurrent
<1>1. SettledInv => SettledRoutesAreCurrent
  <2> SUFFICES ASSUME SettledInv, alive, ~ pending, rec = Idle, ~ lossy,
                      ListGatewayClass # {}
               PROVE  /\ view # None
                      /\ \A c \in ListGatewayClass, r \in Routes :
                          (/\ route[r].passed
                           /\ ParentsOf(r) \cap GatewaysOf(c) # {}) =>
                              \E i \in DOMAIN view :
                                  /\ view[i].class = c
                                  /\ r \in DOMAIN view[i].routes
                                  /\ view[i].routes[r] = route[r].edit
                      /\ \A i \in DOMAIN view :
                            \A r \in DOMAIN view[i].routes : route[r].edit > 0
    BY DEF SettledRoutesAreCurrent
  <2>1. \A c \in ListGatewayClass :
            view # None /\ Shows(view, c, {}) /\ Agrees(view)
    BY IdleIs DEF SettledInv, ViewInv
  <2>2. view # None /\ Agrees(view)
    BY <2>1
  <2>3. ASSUME NEW c \in ListGatewayClass, NEW r \in Routes, route[r].passed,
               NEW g \in ParentsOf(r) \cap GatewaysOf(c)
        PROVE  \E i \in DOMAIN view :
                  /\ view[i].class = c /\ r \in DOMAIN view[i].routes
                  /\ view[i].routes[r] = route[r].edit
    BY <2>1, <2>3 DEF Shows
  <2>4. \A i \in DOMAIN view :
            \A r \in DOMAIN view[i].routes : route[r].edit > 0
    BY <2>2 DEF Agrees
  <2> QED BY <2>2, <2>3, <2>4
<1> QED BY <1>1, SettledInvariant, PTL

(* What a gateway of ours has when nothing is left to do.                    *)
LEMMA SettledGateway ==
    ASSUME SettledInv, Translated, NEW g \in Gateways,
           gw[g].class \in ListGatewayClass
    PROVE  \E k \in DOMAIN view :
              /\ view \in Views /\ view[k] \in Results
              /\ g \in DOMAIN view[k].gateways
              /\ view[k].gateways[g] = gw[g].edit
              /\ xdsIR[g] = buildIR(view[k], g)
<1>1. /\ alive /\ ~ pending /\ rec.pc = "idle" /\ ~ lossy
      /\ updates = <<>> /\ tr = NoWork
  BY IdleIs DEF Translated, Settled
<1>2. PICK c \in ListGatewayClass : c = gw[g].class
  OBVIOUS
<1>3. view # None /\ Shows(view, c, {}) /\ Agrees(view)
  BY <1>1 DEF SettledInv, ViewInv
<1>4. view \in Views
  BY <1>3 DEF SettledInv, TypeInv, TypeOK, ProviderOK
<1>5. g \in GatewaysOf(c)
  BY <1>2 DEF GatewaysOf
<1>6. PICK i \in DOMAIN view : g \in DOMAIN view[i].gateways
  BY <1>3, <1>5 DEF Shows
<1>7. ~ Remains(g)
  BY <1>1, NoWorkIs, EmptySeq DEF Remains
<1>8. Reaches(g)
  BY <1>1, <1>3, <1>6, <1>7 DEF SettledInv, DownInv
<1>9. PICK k \in DOMAIN view : /\ g \in DOMAIN view[k].gateways
                               /\ xdsIR[g] = buildIR(view[k], g)
  BY <1>8 DEF Reaches
<1>10. view[k].gateways[g] = gw[g].edit
  BY <1>3, <1>9 DEF Agrees
<1>11. DOMAIN view = 1 .. Len(view) /\ view[k] \in Results
  BY <1>4, ViewHas
<1> QED BY <1>4, <1>9, <1>10, <1>11

(* When nothing is left to do, every gateway of a class of ours has a        *)
(* representation made of its newest spec (controller.go:92 and :106,        *)
(* translator.go:54).                                                        *)
THEOREM GatewaysSettle == Spec => []SettledGatewaysAreCurrent
<1>1. SettledInv => SettledGatewaysAreCurrent
  <2> SUFFICES ASSUME SettledInv, Translated, NEW g \in Gateways,
                      gw[g].class \in ListGatewayClass
               PROVE  xdsIR[g] # None /\ xdsIR[g].gateway = gw[g].edit
    BY DEF SettledGatewaysAreCurrent
  <2>1. PICK k \in DOMAIN view :
              /\ view[k] \in Results /\ g \in DOMAIN view[k].gateways
              /\ view[k].gateways[g] = gw[g].edit
              /\ xdsIR[g] = buildIR(view[k], g)
    BY SettledGateway
  <2>2. /\ xdsIR[g] \in Representations
        /\ xdsIR[g].gateway = view[k].gateways[g]
    BY <2>1, buildIRType
  <2> QED BY <2>1, <2>2, NothingAssumption
<1> QED BY <1>1, SettledInvariant, PTL
=============================================================================
