------------------------------ MODULE PodMetrics ------------------------------
(***************************************************************************)
(* The metrics of one endpoint (pkg/epp/datalayer).  A goroutine scrapes   *)
(* the model server at the endpoint's address in every interval and merges *)
(* what it finds into the metrics the scheduler reads, while the           *)
(* datastore's controllers replace the metadata (and with it the address)  *)
(* or stop the loop, and the load of the servers changes.                  *)
(*                                                                         *)
(* Loads are in tenths, so that the truncation to an integer shows.        *)
(***************************************************************************)
EXTENDS Naturals, Sequences, FiniteSets

CONSTANTS
    Addresses,    \* of model servers
    Models,       \* what a server has samples of
    ModelLabels,  \* their labels, by model
    Loads,        \* what a server's gauges may show, in tenths
    Mapping,      \* families that are configured in MetricMapping
    SpecLabels,   \* labels the MetricSpec of a gauge asks for, often none
    MaxSamples,   \* most samples of a family
    MaxTime,      \* latest timestamp, zero stands for none
    Missing,      \* an error of getMetric, a label that is not there
    Unreadable    \* a label value that strconv.Atoi refuses

Gauges == {"TotalQueuedRequests", "TotalRunningRequests", "KVCacheUtilization"}
CacheFields == {"CacheBlockSize", "CacheNumGPUBlocks"}
Fields == Gauges \cup CacheFields

ASSUME LoadsAssumption == Loads \subseteq Nat
ASSUME MappingAssumption == Mapping \subseteq Gauges \cup {"CacheConfigInfo"}
ASSUME NoneAssumption ==
    /\ {Missing, Unreadable} \cap Nat = {} /\ Missing # Unreadable
    /\ Missing \notin [CacheFields -> Nat \cup {Missing, Unreadable}]
ASSUME SamplesAssumption == MaxSamples \in Nat /\ MaxTime \in Nat

VARIABLES
    load,           \* the load of each model at each server
    metadata,       \* PodMetrics.metadata: the address
    latestMetrics,  \* PodMetrics.latestMetrics, by field
    done,           \* the done channel is closed
    cancelled,      \* the parent context is cancelled
    tick,           \* ticker.C, a channel of capacity one, holds a tick
    pc,             \* of the loop: "select", "fetch" or "exited"
    pod             \* the address the refresh in flight was started with

vars == <<load, metadata, latestMetrics, done, cancelled, tick, pc, pod>>
loop == <<latestMetrics, pc, pod>>

-----------------------------------------------------------------------------
(* What a server answers.                                                  *)

Samples == [model : Models, timestamp : 0 .. MaxTime, value : Loads]

\* The samples of a gauge family, in any order.  The newest one of a model
\* carries its load; several models may have the same timestamp, or none.
Truthful(family, loads) ==
    \A i \in DOMAIN family :
        \/ family[i].value = loads[family[i].model]
        \/ \E j \in DOMAIN family :
              /\ family[j].model = family[i].model
              /\ family[j].timestamp > family[i].timestamp

Families == UNION {[1 .. n -> Samples] : n \in 0 .. MaxSamples}

Exposition(loads) == {family \in Families : Truthful(family, loads)}

-----------------------------------------------------------------------------
(* PodMetricsClient                                                        *)

\* A spec without labels matches every sample.
labelsMatch(metricLabels, specLabels) == specLabels \subseteq metricLabels

\* The models a gauge is configured for.
Selected(g) == {m \in Models : labelsMatch(ModelLabels[m], SpecLabels[g])}

Matching(family, g) == {i \in DOMAIN family : family[i].model \in Selected(g)}

\* Faulty: the first matching sample is taken, whatever its timestamp.
getMetricFirst(family, g) ==
    IF Matching(family, g) = {} THEN Missing
    ELSE family[CHOOSE i \in Matching(family, g) :
                    \A j \in Matching(family, g) : i <= j].value

\* The newest matching sample, the first one of equal age.
getMetric(family, g) ==
    IF Matching(family, g) = {} THEN Missing
    ELSE family[CHOOSE i \in Matching(family, g) :
                    \A j \in Matching(family, g) :
                       \/ family[j].timestamp < family[i].timestamp
                       \/ /\ family[j].timestamp = family[i].timestamp
                          /\ i <= j].value

\* What getMetric may find of a gauge at a server with certain loads.
Exposed ==
    {x \in [Models -> Loads] \X (Gauges \cap Mapping) \X Families :
        x[3] \in Exposition(x[1])}

Found == {<<x[1], x[2], getMetric(x[3], x[2])>> : x \in Exposed}

\* An answer is what is found of each gauge, and the labels of the cache info,
\* if there is one.
CacheInfos == {Missing} \cup [CacheFields -> {1, Missing, Unreadable}]

Answers(a) ==
    {answer \in [gauge : [Gauges \cap Mapping -> Loads \cup {Missing}],
                 cache : IF "CacheConfigInfo" \in Mapping THEN CacheInfos
                         ELSE {Missing}] :
        \A g \in Gauges \cap Mapping : <<load[a], g, answer.gauge[g]>> \in Found}

\* int(x) for the two counts, the float itself for the utilisation.
Convert(g, value) == IF g = "KVCacheUtilization" THEN value ELSE value \div 10

\* Faulty: the error of the conversion is not looked at.
AtoiUnchecked(value) == value

\* The code stores the result although there is an error: it is zero then.
Atoi(value) == IF value = Unreadable THEN 0 ELSE value

\* Field by field: what the answer lacks stays as it was.
promToPodMetrics(answer, existing) ==
    [f \in Fields |->
        IF f \in Gauges \cap Mapping /\ answer.gauge[f] # Missing
        THEN Convert(f, answer.gauge[f])
        ELSE IF f \in CacheFields /\ answer.cache # Missing
                /\ answer.cache[f] # Missing
        THEN Atoi(answer.cache[f])
        ELSE existing[f]]

-----------------------------------------------------------------------------
(* The refresh loop.                                                       *)

\* Faulty: a waiting tick is always served first.
SelectDoneLast ==
    /\ pc = "select"
    /\ ~ tick /\ (done \/ cancelled)
    /\ pc' = "exited"
    /\ UNCHANGED <<load, metadata, latestMetrics, done, cancelled, tick, pod>>

SelectDone ==
    /\ pc = "select"
    /\ done \/ cancelled
    /\ pc' = "exited"
    /\ UNCHANGED <<load, metadata, latestMetrics, done, cancelled, tick, pod>>

\* Faulty: the address the loop was started with is used for ever.
SelectTickFirstPod ==
    /\ pc = "select"
    /\ tick /\ tick' = FALSE
    /\ pc' = "fetch"
    /\ UNCHANGED <<load, metadata, latestMetrics, done, cancelled, pod>>

\* refreshMetrics reads the metadata and sends the request.
SelectTick ==
    /\ pc = "select"
    /\ tick /\ tick' = FALSE
    /\ pod' = metadata
    /\ pc' = "fetch"
    /\ UNCHANGED <<load, metadata, latestMetrics, done, cancelled>>

\* An answer arrives; UpdateMetrics also when some of it was in error.
FetchMetrics(answer) ==
    /\ pc = "fetch"
    /\ latestMetrics' = promToPodMetrics(answer, latestMetrics)
    /\ pc' = "select"
    /\ UNCHANGED <<load, metadata, done, cancelled, tick, pod>>

\* No answer in time, a bad status or a body that does not parse.
FetchFails ==
    /\ pc = "fetch"
    /\ pc' = "select"
    /\ UNCHANGED <<load, metadata, latestMetrics, done, cancelled, tick, pod>>

UpdateMetadata(a) ==
    /\ a # metadata
    /\ metadata' = a
    /\ UNCHANGED <<load, done, cancelled, tick, loop>>

StopRefreshLoop ==
    /\ done' = TRUE
    /\ UNCHANGED <<load, metadata, cancelled, tick, loop>>

Cancel ==
    /\ cancelled' = TRUE
    /\ UNCHANGED <<load, metadata, done, tick, loop>>

\* A tick that finds the channel full is dropped; the deferred Stop ends them.
Tick ==
    /\ pc # "exited"
    /\ ~ tick /\ tick' = TRUE
    /\ UNCHANGED <<load, metadata, done, cancelled, loop>>

LoadChanges(a) ==
    /\ \E m \in Models, v \in Loads : load' = [load EXCEPT ![a][m] = v]
    /\ UNCHANGED <<metadata, done, cancelled, tick, loop>>

-----------------------------------------------------------------------------

Init ==
    /\ load \in [Addresses -> [Models -> Loads]]
    /\ metadata \in Addresses
    /\ latestMetrics = [f \in Fields |-> 0]
    /\ done = FALSE /\ cancelled = FALSE /\ tick = FALSE
    /\ pc = "select"
    /\ pod = metadata

Fetch == \E answer \in Answers(pod) : FetchMetrics(answer)

Next ==
    \/ SelectDone \/ SelectTick \/ Fetch \/ FetchFails
    \/ (\E a \in Addresses : UpdateMetadata(a) \/ LoadChanges(a))
    \/ StopRefreshLoop \/ Cancel \/ Tick

Spec == Init /\ [][Next]_vars

\* An answer with each configured gauge, and nothing else.
PlainFetch ==
    \E answer \in Answers(pod) :
        /\ answer.cache = Missing
        /\ \A g \in Gauges \cap Mapping : answer.gauge[g] # Missing
        /\ FetchMetrics(answer)

\* The request has a timeout, the ticker ticks, select picks among the ready
\* cases at random.
LoopFairness ==
    /\ WF_vars(FetchFails)
    /\ WF_vars(Tick)
    /\ SF_vars(SelectTick)
    /\ SF_vars(SelectDone)

\* Servers give a plain answer now and then.
FairSpec == Spec /\ LoopFairness /\ SF_vars(PlainFetch)

-----------------------------------------------------------------------------
(* Types of the endpoint, the loop and the servers.                        *)
TypeOK ==
    /\ load \in [Addresses -> [Models -> Loads]]
    /\ metadata \in Addresses /\ pod \in Addresses
    /\ latestMetrics \in [Fields -> Nat]
    /\ {done, cancelled, tick} \subseteq BOOLEAN
    /\ pc \in {"select", "fetch", "exited"}

(* What the scheduler reads of a gauge was, when it was stored, the load   *)
(* of a model the gauge is configured for, at the server the refresh had   *)
(* asked: not an older sample, one of a model the labels exclude, or a     *)
(* default, in whatever order and with whatever timestamps they came.      *)
GaugesAreScraped ==
    [][\A g \in Gauges : latestMetrics'[g] # latestMetrics[g] =>
          /\ g \in Mapping
          /\ \E m \in Selected(g) :
                latestMetrics'[g] = Convert(g, load[pod][m])]_vars

(* A loop that is released, or whose process shuts down, comes to its end, *)
(* however slow the server is.                                             *)
StoppedLoopEnds == (done \/ cancelled) ~> pc = "exited"

(* Once the address and its loads stay put, the gauges become loads of     *)
(* models they are configured for and remain so (with one such model, its  *)
(* load), whatever was in flight at the last change and however many       *)
(* incomplete or failed answers come in between.                           *)
Converges ==
    \A a \in Addresses, l \in [Models -> Loads] :
        <>[](metadata = a /\ load[a] = l /\ ~ done /\ ~ cancelled)
            => <>[](\A g \in Gauges \cap Mapping : \E m \in Selected(g) :
                        latestMetrics[g] = Convert(g, l[m]))
=============================================================================
