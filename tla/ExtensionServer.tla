--------------------------- MODULE ExtensionServer ---------------------------
(***************************************************************************)
(* The Envoy Gateway extension server (pkg/extensionserver).  In every     *)
(* translation cycle Envoy Gateway calls PostRouteModify for each route,   *)
(* PostClusterModify for each cluster, in any order, and then              *)
(* PostTranslateModify once for all resources.  The hooks tie a route rule *)
(* that refers to an InferencePool to the pool's endpoint picker: its      *)
(* reference is written, as one slash-separated string, into the metadata  *)
(* of routes and clusters, and read back when the picker's cluster and     *)
(* ext_proc filter are built.                                              *)
(*                                                                         *)
(* A pool's name stands for namespace, name and picker service: three      *)
(* segments of the reference, none of which can hold a slash.              *)
(***************************************************************************)
EXTENDS Integers, Sequences, FiniteSets, SequencesExt

CONSTANTS
    Listeners, ProbeListeners,  \* listeners, and the ones for stats, readiness
    RouteCfgs,                  \* names of route configurations
    Routes,                     \* names of routes, unique in Envoy Gateway
    Rules,                      \* route rules, each with a cluster
    Pools,                      \* InferencePools
    ResourceLists,              \* what a rule's extension resources may be
    Specs,                      \* what the InferencePools may specify together
    MetadataPresent,            \* whether resources arrive with metadata
    NoHCM, NoRds, NoCfg,        \* a chain without HCM, without RDS; no config
    Unusable,                   \* a resource that is no (readable) pool
    NoPool

ASSUME ListenersAssumption == ProbeListeners \subseteq Listeners
ASSUME MetadataAssumption == MetadataPresent \subseteq BOOLEAN
ASSUME NamesAssumption ==
    /\ Unusable \notin Pools /\ {"cors", "router"} \cap Pools = {}
    /\ {NoHCM, NoRds, NoCfg} \cap RouteCfgs = {}
    /\ NoHCM \notin {NoRds, NoCfg} /\ Routes \cap Rules = {}
ASSUME RoutesAssumption == IsFiniteSet(Routes)
ASSUME SpecsAssumption == \A s \in Specs : \A p \in Pools : s[p].port \in Int
ASSUME ListsAssumption == ResourceLists \subseteq Seq(Pools \cup {Unusable})

Ports == 0 .. 65535

\* The values of the annotations, and those taken for absent ones.
Values == {s[p].mode : s \in Specs, p \in Pools}
             \cup {s[p].override : s \in Specs, p \in Pools} \cup {"duplex", "false"}

\* What is read back of a pool reference.
InferencePools == [name : Pools, port : Ports, mode : Values, override : Values]

ASSUME NoPoolAssumption == NoPool \notin InferencePools

Chains == <<"chain", "default">>   \* FilterChains, then DefaultFilterChain
ChainNames == Range(Chains)
Hooked == Routes \cup Rules        \* what the per-resource hooks are called for
NoMeta == <<"nil">>                \* a nil *corev3.Metadata

VARIABLES
    rds,         \* route configuration named by each listener's chains
    cfgOf,       \* route configuration of each route
    ruleOf,      \* rule each route was generated from
    resources,   \* extension resources of each rule
    spec,        \* picker port and annotations of each pool
    present,     \* whether Envoy Gateway passes metadata
    phase,       \* where Envoy Gateway is in its cycle
    todo,        \* routes and rules still to be passed to a hook
    metadata,    \* pool reference in the metadata of routes and clusters
    rewrite,     \* routes with auto_host_rewrite switched off
    originalDst, \* rules whose cluster is of type ORIGINAL_DST
    eppClusters, \* picker clusters appended by PostTranslateModify
    unpatched,   \* listeners with pools, not patched yet
    filters,     \* HTTP filters of each chain, the router last
    disabled     \* ext_proc filters disabled by a route's per-filter config

input == <<rds, cfgOf, ruleOf, resources, spec, present>>
output == <<metadata, rewrite, originalDst, eppClusters, filters, disabled>>
vars == <<input, phase, todo, unpatched, output>>

-----------------------------------------------------------------------------
(* The pool reference: written by the hooks, read back by the last one.    *)

defaultEndpointPickerPort == 9002

\* Annotation values: "absent", or the value; "a/b" is two segments.
Segments(value) == IF value = "a/b" THEN <<"a", "b">> ELSE <<value>>

\* Faulty: the range of the port is not checked.
portUnchecked(port) == port

portForInferencePool(port) ==
    IF port \in Ports THEN port ELSE defaultEndpointPickerPort

getProcessingBodyModeString(s) == IF s.mode = "absent" THEN "duplex" ELSE s.mode

getAllowModeOverrideString(s) ==
    IF s.override = "absent" THEN "false" ELSE s.override

clusterRefInferencePool(p) ==
    <<p, portForInferencePool(spec[p].port)>>
        \o Segments(getProcessingBodyModeString(spec[p]))
        \o Segments(getAllowModeOverrideString(spec[p]))

\* buildEPPMetadata gets the metadata pointer by value: what it does to a nil
\* pointer stays in the callee.
buildEPPMetadata(meta, p) ==
    IF meta = NoMeta THEN NoMeta ELSE clusterRefInferencePool(p)

getProcessingBodyMode(mode) ==
    IF mode = "buffered" THEN "BUFFERED" ELSE "FULL_DUPLEX_STREAMED"

\* Faulty: the last two segments are read in the wrong order.
getPoolSwapped(meta) ==
    IF Len(meta) # 4 THEN NoPool
    ELSE [name |-> meta[1], port |-> meta[2], mode |-> meta[4],
          override |-> meta[3]]

\* A reference of any other number of segments is taken for none.
getInferencePoolByMetadata(meta) ==
    IF Len(meta) # 4 THEN NoPool
    ELSE [name |-> meta[1], port |-> meta[2], mode |-> meta[3],
          override |-> meta[4]]

PoolAt(x) == getInferencePoolByMetadata(metadata[x])
HasPoolAt(x) == PoolAt(x) # NoPool

getAllowModeOverride(override) == override = "true"

buildInferencePoolHTTPFilter(pool) ==
    [name |-> pool.name, port |-> portForInferencePool(pool.port),
     mode |-> getProcessingBodyMode(pool.mode),
     override |-> getAllowModeOverride(pool.override)]

OtherFilter(n) == [name |-> n, port |-> 0, mode |-> "", override |-> FALSE]
Router == OtherFilter("router")

-----------------------------------------------------------------------------
(* PostRouteModify and PostClusterModify.                                  *)

\* The positions of the InferencePools among the resources of a rule; what does
\* not parse, or is no InferencePool, is passed over.  The hooks look at their
\* number and, if there is one, at that one.
constructInferencePoolsFrom(list) == {i \in DOMAIN list : list[i] \in Pools}

PostRouteModify(r) ==
    LET list == resources[ruleOf[r]]
        inferencePools == constructInferencePoolsFrom(list) IN
    /\ phase = "hooks" /\ r \in todo
    /\ todo' = todo \ {r}
    /\ \/ /\ inferencePools = {}
          /\ UNCHANGED <<phase, metadata, rewrite>>
       \/ \E i \in DOMAIN list :
          /\ inferencePools = {i}
          /\ rewrite' = rewrite \cup {r}
          /\ metadata' = [metadata EXCEPT ![r] = buildEPPMetadata(@, list[i])]
          /\ UNCHANGED phase
       \/ \* the error makes Envoy Gateway give up, or go on without an answer
          /\ \E i, j \in inferencePools : i # j
          /\ phase' \in {"failed", "hooks"}
          /\ UNCHANGED <<metadata, rewrite>>
    /\ UNCHANGED <<input, unpatched, originalDst, eppClusters, filters, disabled>>

\* A route that redirects or answers by itself has no RouteAction to write to:
\* with one pool the hook panics, and Envoy Gateway gets no answer.
PostRouteModifyPanics(r) ==
    /\ phase = "hooks" /\ r \in todo
    /\ \E i \in DOMAIN resources[ruleOf[r]] :
          constructInferencePoolsFrom(resources[ruleOf[r]]) = {i}
    /\ phase' = "failed"
    /\ UNCHANGED <<input, todo, unpatched, output>>

\* Faulty: the first of several pools is taken.
PostClusterModifyFirst(c) ==
    LET list == resources[c]
        inferencePools == constructInferencePoolsFrom(list) IN
    /\ phase = "hooks" /\ c \in todo
    /\ todo' = todo \ {c}
    /\ \/ /\ inferencePools = {}
          /\ UNCHANGED <<metadata, originalDst>>
       \/ \E i \in inferencePools :
          /\ \A j \in inferencePools : i <= j
          /\ originalDst' = originalDst \cup {c}
          /\ metadata' = [metadata EXCEPT ![c] = buildEPPMetadata(@, list[i])]
    /\ UNCHANGED <<input, phase, unpatched, rewrite, eppClusters, filters,
                   disabled>>

PostClusterModify(c) ==
    LET list == resources[c]
        inferencePools == constructInferencePoolsFrom(list) IN
    /\ phase = "hooks" /\ c \in todo
    /\ todo' = todo \ {c}
    /\ \/ /\ inferencePools = {}
          /\ UNCHANGED <<phase, metadata, originalDst>>
       \/ \E i \in DOMAIN list :
          /\ inferencePools = {i}
          /\ originalDst' = originalDst \cup {c}
          /\ metadata' = [metadata EXCEPT ![c] = buildEPPMetadata(@, list[i])]
          /\ UNCHANGED phase
       \/ /\ \E i, j \in inferencePools : i # j
          /\ phase' \in {"failed", "hooks"}
          /\ UNCHANGED <<metadata, originalDst>>
    /\ UNCHANGED <<input, unpatched, rewrite, eppClusters, filters, disabled>>

-----------------------------------------------------------------------------
(* PostTranslateModify                                                     *)

\* The cluster of a pool's picker: its name and address are those of the pool,
\* its port is checked again; TLS and HTTP/2 are the same for every pool.
buildExtProcClusterForInferencePoolEndpointPicker(c, pool) ==
    [of |-> c, name |-> pool.name, port |-> portForInferencePool(pool.port)]

\* One picker cluster for each cluster that carries a pool reference.
buildClustersForInferencePoolEndpointPickers ==
    {buildExtProcClusterForInferencePoolEndpointPicker(c, PoolAt(c)) :
     c \in {x \in Rules : HasPoolAt(x)}}

findListenerRouteConfigs(l) ==
    {rds[l][ch] : ch \in ChainNames} \ {NoHCM, NoRds}

PoolRoutes(cfg) == {r \in Routes : cfgOf[r] = cfg /\ HasPoolAt(r)}

PoolListeners ==
    {l \in Listeners \ ProbeListeners :
        \E cfg \in findListenerRouteConfigs(l) : PoolRoutes(cfg) # {}}

PostTranslateModify ==
    /\ phase = "hooks" /\ todo = {}
    /\ phase' = "patch"
    /\ eppClusters' = buildClustersForInferencePoolEndpointPickers
    /\ unpatched' = PoolListeners
    /\ UNCHANGED <<input, todo, metadata, rewrite, originalDst, filters, disabled>>

\* Routes of the configurations of one chain after the other, each in an order
\* that Go's map iteration picks anew.
InferencePoolLists(l) ==
    LET RoutesOf(ch) == PoolRoutes(rds[l][ch]) IN
    {[i \in 1 .. Len(s) |-> PoolAt(s[i])] :
        s \in {s1 \o s2 : s1 \in SetToSeqs(RoutesOf(Chains[1])),
                          s2 \in SetToSeqs(RoutesOf(Chains[2]))}}

\* searchInferencePoolInFilterChain: by name, in the chain as it was.
Found(pool, chain) == \E i \in DOMAIN chain : chain[i].name = pool.name

\* The filters of the pools that are not found, in the order of the list.
poolFilters(chain, list) ==
    LET upTo[i \in 0 .. Len(list)] ==
            IF i = 0 THEN <<>>
            ELSE IF Found(list[i], chain) THEN upTo[i - 1]
            ELSE Append(upTo[i - 1], buildInferencePoolHTTPFilter(list[i]))
    IN  upTo[Len(list)]

\* Faulty: the new filters are appended after the router.
patchListenerAtEnd(chain, list) == chain \o poolFilters(chain, list)

patchListenerWithInferencePoolFilters(chain, list) ==
    Front(chain) \o poolFilters(chain, list) \o <<Last(chain)>>

\* Faulty: only routes without a pool get the filters disabled.
patchOnlyPlainRoutes(r, names) == IF HasPoolAt(r) THEN {} ELSE names

\* A route keeps only the filter of its own pool, if it has one.
patchVirtualHostWithInferencePool(r, names) ==
    IF HasPoolAt(r) THEN names \ {PoolAt(r).name} ELSE names

PatchListener(l) ==
    /\ phase = "patch" /\ l \in unpatched
    /\ unpatched' = unpatched \ {l}
    /\ \E list \in InferencePoolLists(l) :
          /\ filters' = [filters EXCEPT ![l] =
                [ch \in ChainNames |->
                    IF rds[l][ch] = NoHCM THEN @[ch]
                    ELSE patchListenerWithInferencePoolFilters(@[ch], list)]]
          /\ LET names == {list[i].name : i \in DOMAIN list} IN
             disabled' = [r \in Routes |->
                IF cfgOf[r] \in findListenerRouteConfigs(l)
                THEN disabled[r] \cup patchVirtualHostWithInferencePool(r, names)
                ELSE disabled[r]]
    /\ UNCHANGED <<input, phase, todo, metadata, rewrite, originalDst, eppClusters>>

Respond ==
    /\ phase = "patch" /\ unpatched = {}
    /\ phase' = "done"
    /\ UNCHANGED <<input, todo, unpatched, output>>

-----------------------------------------------------------------------------
(* Envoy Gateway translates its resources afresh in every cycle.           *)

FreshMetadata == [x \in Hooked |-> IF present[x] THEN <<>> ELSE NoMeta]
FreshFilters ==
    [l \in Listeners |-> [ch \in ChainNames |->
        IF rds[l][ch] = NoHCM THEN <<>> ELSE <<OtherFilter("cors"), Router>>]]

InputOK ==
    /\ rds \in [Listeners ->
                  [ChainNames -> RouteCfgs \cup {NoHCM, NoRds, NoCfg}]]
    /\ \A l \in ProbeListeners : rds[l]["chain"] = NoRds /\ rds[l]["default"] = NoHCM
    /\ cfgOf \in [Routes -> RouteCfgs]
    /\ ruleOf \in [Routes -> Rules]
    /\ resources \in [Rules -> ResourceLists]
    /\ spec \in Specs
    /\ present \in [Hooked -> MetadataPresent]

Init ==
    /\ InputOK
    /\ phase = "hooks"
    /\ todo = Hooked
    /\ metadata = FreshMetadata
    /\ rewrite = {} /\ originalDst = {} /\ eppClusters = {} /\ unpatched = {}
    /\ filters = FreshFilters
    /\ disabled = [r \in Routes |-> {}]

NewCycle ==
    /\ phase \in {"done", "failed"}
    /\ UNCHANGED input
    /\ phase' = "hooks"
    /\ todo' = Hooked
    /\ metadata' = FreshMetadata
    /\ rewrite' = {} /\ originalDst' = {} /\ eppClusters' = {}
    /\ unpatched' = {}
    /\ filters' = FreshFilters
    /\ disabled' = [r \in Routes |-> {}]

Next ==
    \/ \E r \in Routes : PostRouteModify(r) \/ PostRouteModifyPanics(r)
    \/ \E c \in Rules : PostClusterModify(c)
    \/ PostTranslateModify
    \/ \E l \in Listeners : PatchListener(l)
    \/ Respond
    \/ NewCycle

Spec == Init /\ [][Next]_vars

-----------------------------------------------------------------------------
(* The types of the output, which the input determines.                    *)
PoolNames == Pools \cup {"cors", "router"}

TypeOK ==
    /\ InputOK
    /\ phase \in {"hooks", "failed", "patch", "done"}
    /\ todo \subseteq Hooked
    /\ \A x \in Hooked : present[x] <=> metadata[x] # NoMeta
    /\ rewrite \subseteq Routes /\ originalDst \subseteq Rules
    /\ \A c \in eppClusters : c.of \in originalDst /\ c.port \in Ports
    /\ unpatched \subseteq Listeners \ ProbeListeners
    /\ \A l \in Listeners, ch \in ChainNames : \A i \in DOMAIN filters[l][ch] :
          filters[l][ch][i].name \in PoolNames
    /\ disabled \in [Routes -> SUBSET Pools]

Done == phase = "done"

\* The pool a rule refers to, if it refers to one.
WantedBy(rule) ==
    LET list == resources[rule] IN
    {list[i] : i \in {j \in DOMAIN list : constructInferencePoolsFrom(list) = {j}}}

Wanted(r) == WantedBy(ruleOf[r])

\* The ext_proc filters a request goes through that matches r in chain ch.
Pickers(l, ch, r) ==
    {f \in Range(filters[l][ch]) : f.name \in Pools \ disabled[r]}

Serves(l, ch, r) == l \notin ProbeListeners /\ rds[l][ch] = cfgOf[r]

(* Comment of maybeModifyListenerAndRoutes: only routes to an InferencePool *)
(* go through an endpoint picker, and each through its own pool's, on every *)
(* listener that shares their route configuration.                          *)
OnlyPoolRoutesArePicked ==
    Done => \A l \in Listeners, ch \in ChainNames, r \in Routes :
        Serves(l, ch, r) =>
            {f.name : f \in Pickers(l, ch, r)} = Wanted(r)

\* The declared port if there can be one, the default otherwise.
EffectivePort(port) == IF port < 0 \/ port > 65535 THEN 9002 ELSE port

(* The trip of a pool's port and annotations through the metadata string    *)
(* and back changes nothing: filter and cluster of the picker name the same *)
(* endpoint, the declared one if it is valid.                               *)
PickersAreAsDeclared ==
    Done => \A l \in Listeners, ch \in ChainNames, r \in Routes :
        Serves(l, ch, r) =>
            \A f \in Pickers(l, ch, r) :
                LET s == spec[f.name] IN
                /\ f.port = EffectivePort(s.port)
                /\ f.mode = "BUFFERED" <=> s.mode = "buffered"
                /\ f.override <=> s.override = "true"
                /\ {c.port : c \in {d \in eppClusters : d.name = f.name}}
                      = {f.port}

(* A cluster that takes its destination from the picker's header is only    *)
(* used by routes that go through a picker and keep the request's host.     *)
HeaderRoutedIsPicked ==
    Done => \A l \in Listeners, ch \in ChainNames, r \in Routes :
        Serves(l, ch, r) /\ ruleOf[r] \in originalDst =>
            Pickers(l, ch, r) # {} /\ r \in rewrite

(* Envoy refuses a chain whose last filter is not the router; the pickers   *)
(* come after the filters that were there, and only where a route of the    *)
(* listener wants them.                                                     *)
ChainsStayValid ==
    \A l \in Listeners, ch \in ChainNames :
        LET chain == filters[l][ch] IN
        chain # <<>> =>
            /\ chain[1] = OtherFilter("cors") /\ Last(chain) = Router
            /\ \A i \in 2 .. Len(chain) - 1 :
                  \E r \in Routes : /\ chain[i].name \in Wanted(r)
                                    /\ \E c \in ChainNames : Serves(l, c, r)

-----------------------------------------------------------------------------
(* What comments in the code say and the code does not do.                  *)

(* post_translate_modify.go:208: a filter is added if it is not found.      *)
FilterIsAddedOnce ==
    Done => \A l \in Listeners, ch \in ChainNames :
        LET chain == filters[l][ch] IN
        \A i, j \in DOMAIN chain : chain[i].name = chain[j].name => i = j

(* inferencepool.go:84: route metadata is initialised if it is not present. *)
MissingMetadataIsInitialised ==
    Done => \A r \in Routes : Wanted(r) # {} => metadata[r] # NoMeta
=============================================================================
