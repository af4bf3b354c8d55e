--------------------------- MODULE PodMetricsProofs ---------------------------
(* Proofs about PodMetrics, for any servers, models, loads, labels, mapping  *)
(* and number of samples.                                                    *)
EXTENDS PodMetrics, TLAPS, WellFoundedInduction

(* A set of naturals that is not empty has a least one.                      *)
LEMMA SmallestExists ==
    ASSUME NEW T \in SUBSET Nat, T # {}
    PROVE  \E t \in T : \A u \in T : t <= u
<1> DEFINE Less == {z \in Nat \X Nat : z[1] < z[2]}
<1>1. IsWellFoundedOn(Less, Nat)
  BY NatLessThanWellFounded DEF OpToRel
<1>2. PICK t \in T : \A u \in T : <<u, t>> \notin Less
  <2> HIDE DEF Less
  <2> QED BY <1>1, WFMin
<1>3. ASSUME NEW u \in T PROVE t <= u
  <2>1. ~ (u < t)
    BY <1>2
  <2> QED BY <2>1
<1> QED BY <1>2, <1>3

(* Among the matching samples of a family one is the first of the newest.    *)
LEMMA NewestExists ==
    ASSUME NEW family \in Families, NEW M, M \subseteq DOMAIN family, M # {}
    PROVE  \E i \in M : \A j \in M :
               \/ family[j].timestamp < family[i].timestamp
               \/ family[j].timestamp = family[i].timestamp /\ i <= j
<1>1. /\ M \subseteq Nat
      /\ \A i \in M : family[i].timestamp \in Nat /\ family[i].timestamp <= MaxTime
  BY SamplesAssumption DEF Families, Samples
<1> DEFINE T == {MaxTime - family[i].timestamp : i \in M}
<1>2. T \in SUBSET Nat /\ T # {}
  BY <1>1, SamplesAssumption
<1>3. PICK t \in T : \A u \in T : t <= u
  <2> HIDE DEF T
  <2> QED BY <1>2, SmallestExists
<1>4. PICK n \in M : t = MaxTime - family[n].timestamp
  BY <1>3
<1>5. \A j \in M : family[j].timestamp <= family[n].timestamp
  <2> TAKE j \in M
  <2>1. t <= MaxTime - family[j].timestamp
    BY <1>3
  <2> QED BY <1>1, <1>4, <2>1, SamplesAssumption
<1> DEFINE I == {i \in M : family[i].timestamp = family[n].timestamp}
<1>6. I \in SUBSET Nat /\ I # {}
  BY <1>1, <1>4
<1>7. PICK i \in I : \A j \in I : i <= j
  <2> HIDE DEF I
  <2> QED BY <1>6, SmallestExists
<1>8. ASSUME NEW j \in M
      PROVE  \/ family[j].timestamp < family[i].timestamp
             \/ family[j].timestamp = family[i].timestamp /\ i <= j
  <2>1. family[j].timestamp \in Nat /\ family[i].timestamp = family[n].timestamp
        /\ family[n].timestamp \in Nat
    BY <1>1, <1>4, <1>7
  <2>2. CASE family[j].timestamp = family[n].timestamp
    BY <1>7, <2>1, <2>2
  <2>3. CASE family[j].timestamp # family[n].timestamp
    BY <1>5, <2>1, <2>3
  <2> QED BY <2>2, <2>3
<1> QED BY <1>7, <1>8

(* getMetric, applied to the samples a server exposes, is an error or the    *)
(* load of a model the gauge is configured for.                              *)
LEMMA GetMetricIsLoad ==
    ASSUME NEW loads \in [Models -> Loads], NEW g \in Gauges,
           NEW family \in Exposition(loads)
    PROVE  \/ getMetric(family, g) = Missing
           \/ \E m \in Selected(g) : getMetric(family, g) = loads[m]
<1> DEFINE M == Matching(family, g)
           Best(i) == \A j \in M :
               \/ family[j].timestamp < family[i].timestamp
               \/ family[j].timestamp = family[i].timestamp /\ i <= j
<1>1. CASE M = {}
  BY <1>1 DEF getMetric
<1>2. CASE M # {}
  <2>1. family \in Families /\ Truthful(family, loads)
    BY DEF Exposition
  <2>2. \E i \in M : Best(i)
    BY <1>2, <2>1, NewestExists DEF Matching
  <2> DEFINE i == CHOOSE i \in M : Best(i)
  <2>3. i \in M /\ Best(i)
    BY <2>2
  <2>4. getMetric(family, g) = family[i].value
    BY <1>2 DEF getMetric
  <2> HIDE DEF i
  <2>5. family[i].model \in Selected(g) /\ i \in DOMAIN family
    BY <2>3 DEF Matching
  <2>6. \A j \in DOMAIN family : family[j].model = family[i].model =>
            ~ (family[j].timestamp > family[i].timestamp)
    <3> SUFFICES ASSUME NEW j \in DOMAIN family,
                        family[j].model = family[i].model
                 PROVE  ~ (family[j].timestamp > family[i].timestamp)
      OBVIOUS
    <3>1. j \in M
      BY <2>5 DEF Matching
    <3>2. family[j].timestamp \in Nat /\ family[i].timestamp \in Nat
      BY <2>1, <2>5, SamplesAssumption DEF Families, Samples
    <3> QED BY <2>3, <3>1, <3>2
  <2>7. family[i].value = loads[family[i].model]
    BY <2>1, <2>5, <2>6 DEF Truthful
  <2> QED BY <2>4, <2>5, <2>7
<1> QED BY <1>1, <1>2

(* What one answer makes of the metrics: numbers again, and a gauge that    *)
(* changes is configured and becomes a load of the server.                  *)
LEMMA AnswerGivesLoad ==
    ASSUME NEW a \in Addresses, load[a] \in [Models -> Loads],
           NEW answer \in Answers(a), NEW existing \in [Fields -> Nat]
    PROVE  LET new == promToPodMetrics(answer, existing) IN
           /\ new \in [Fields -> Nat]
           /\ \A g \in Gauges : new[g] # existing[g] =>
                  /\ g \in Mapping
                  /\ \E m \in Selected(g) : new[g] = Convert(g, load[a][m])
<1> DEFINE new == promToPodMetrics(answer, existing)
<1>1. \A v \in Loads : v \in Nat /\ v # Missing
  BY LoadsAssumption, NoneAssumption
<1>2. \A g \in Gauges \cap Mapping : <<load[a], g, answer.gauge[g]>> \in Found
  BY DEF Answers
<1>3. ASSUME NEW g \in Gauges \cap Mapping, answer.gauge[g] # Missing
      PROVE  \E m \in Selected(g) : answer.gauge[g] = load[a][m]
  <2>0. PICK x \in Exposed :
          <<load[a], g, answer.gauge[g]>> = <<x[1], x[2], getMetric(x[3], x[2])>>
    BY <1>2 DEF Found
  <2>1. PICK family \in Exposition(load[a]) :
          answer.gauge[g] = getMetric(family, g)
    BY <2>0 DEF Exposed
  <2>2. \/ getMetric(family, g) = Missing
        \/ \E m \in Selected(g) : getMetric(family, g) = load[a][m]
    BY GetMetricIsLoad
  <2> QED BY <1>3, <2>1, <2>2
<1>4. \A g \in Gauges, v \in Loads : Convert(g, v) \in Nat
  BY <1>1 DEF Convert
<1>5. answer.cache # Missing =>
          \A f \in CacheFields : answer.cache[f] # Missing =>
              Atoi(answer.cache[f]) \in Nat
  <2>1. answer.cache \in CacheInfos
    BY DEF Answers, CacheInfos
  <2> QED
    BY <2>1 DEF CacheInfos, Atoi
<1>6. \A f \in Fields : new[f] =
          IF f \in Gauges \cap Mapping /\ answer.gauge[f] # Missing
          THEN Convert(f, answer.gauge[f])
          ELSE IF f \in CacheFields /\ answer.cache # Missing
                  /\ answer.cache[f] # Missing
          THEN Atoi(answer.cache[f])
          ELSE existing[f]
  BY DEF promToPodMetrics
<1>7. \A g \in Gauges : g \notin CacheFields
  BY DEF Gauges, CacheFields
<1>8. ASSUME NEW g \in Gauges
      PROVE  /\ new[g] \in Nat
             /\ new[g] # existing[g] =>
                   /\ g \in Mapping
                   /\ \E m \in Selected(g) : new[g] = Convert(g, load[a][m])
  <2>1. g \in Fields /\ existing[g] \in Nat
    BY DEF Fields
  <2>2. CASE g \in Mapping /\ answer.gauge[g] # Missing
    <3>1. new[g] = Convert(g, answer.gauge[g])
      BY <1>6, <2>1, <2>2
    <3>2. PICK m \in Selected(g) : answer.gauge[g] = load[a][m]
      BY <1>3, <2>2
    <3>3. load[a][m] \in Loads
      BY <3>2 DEF Selected
    <3> HIDE DEF new
    <3> QED BY <1>4, <2>2, <3>1, <3>2, <3>3
  <2>3. CASE ~ (g \in Mapping /\ answer.gauge[g] # Missing)
    <3>1. new[g] = existing[g]
      BY <1>6, <1>7, <2>1, <2>3
    <3> QED BY <2>1, <3>1
  <2> QED BY <2>2, <2>3
<1>9. \A f \in CacheFields : new[f] \in Nat
  BY <1>5, <1>6, <1>7 DEF Fields
<1>10. new = [f \in Fields |-> new[f]]
  BY DEF promToPodMetrics
<1> QED
  BY <1>8, <1>9, <1>10 DEF Fields

(* The types hold at the start,                                              *)
LEMMA TypeInit == Init => TypeOK
<1> SUFFICES ASSUME Init PROVE TypeOK
  OBVIOUS
<1>1. latestMetrics \in [Fields -> Nat]
  BY DEF Init
<1>2. {done, cancelled, tick} \subseteq BOOLEAN
  BY Zenon DEF Init
<1> QED
  BY <1>1, <1>2 DEF Init, TypeOK

(* and every step keeps them.                                                *)
LEMMA TypeStep == TypeOK /\ [Next]_vars => TypeOK'
<1> SUFFICES ASSUME TypeOK, [Next]_vars PROVE TypeOK'
  OBVIOUS
<1> USE DEF TypeOK
<1>1. CASE SelectDone
  BY <1>1 DEF SelectDone
<1>2. CASE SelectTick
  BY <1>2 DEF SelectTick
<1>3. CASE Fetch
  <2>1. PICK answer \in Answers(pod) : FetchMetrics(answer)
    BY <1>3 DEF Fetch
  <2>2. latestMetrics' \in [Fields -> Nat]
    BY <2>1, AnswerGivesLoad DEF FetchMetrics
  <2> QED
    BY <2>1, <2>2 DEF FetchMetrics
<1>4. CASE FetchFails
  BY <1>4 DEF FetchFails
<1>5. CASE \E a \in Addresses : UpdateMetadata(a) \/ LoadChanges(a)
  BY <1>5 DEF UpdateMetadata, LoadChanges, loop
<1>6. CASE StopRefreshLoop \/ Cancel \/ Tick
  BY <1>6 DEF StopRefreshLoop, Cancel, Tick, loop
<1>7. CASE UNCHANGED vars
  BY <1>7 DEF vars
<1> QED
  BY <1>1, <1>2, <1>3, <1>4, <1>5, <1>6, <1>7 DEF Next

(* The metrics the scheduler reads are numbers, and the loop is in one of   *)
(* its three places, for any servers and any mapping.                       *)
THEOREM TypeCorrect == Spec => []TypeOK
  BY TypeInit, TypeStep, PTL DEF Spec

(* A step changes a gauge only to a load of the server that was asked.      *)
LEMMA GaugeStep ==
    TypeOK /\ [Next]_vars =>
        [\A g \in Gauges : latestMetrics'[g] # latestMetrics[g] =>
            /\ g \in Mapping
            /\ \E m \in Selected(g) :
                  latestMetrics'[g] = Convert(g, load[pod][m])]_vars
<1> SUFFICES ASSUME TypeOK, [Next]_vars, NEW g \in Gauges,
                    latestMetrics'[g] # latestMetrics[g]
             PROVE  /\ g \in Mapping
                    /\ \E m \in Selected(g) :
                          latestMetrics'[g] = Convert(g, load[pod][m])
  OBVIOUS
<1>1. CASE Fetch
  <2>1. PICK answer \in Answers(pod) : FetchMetrics(answer)
    BY <1>1 DEF Fetch
  <2> QED
    BY <2>1, AnswerGivesLoad DEF FetchMetrics, TypeOK
<1>2. CASE ~ Fetch
  <2>1. latestMetrics' = latestMetrics
    BY <1>2 DEF Next, vars, loop, SelectDone, SelectTick, FetchFails,
                UpdateMetadata, LoadChanges, StopRefreshLoop, Cancel, Tick
  <2> QED
    BY <2>1
<1> QED
  BY <1>1, <1>2

(* Whatever the interleaving of scrapes, moved endpoints, ticks and stops,  *)
(* a gauge only ever takes the load of a model it is configured for, at the *)
(* server the refresh had asked, however many samples that one exposes.     *)
THEOREM ScrapedGauges == Spec => GaugesAreScraped
<1>1. TypeOK /\ [Next]_vars =>
        [\A g \in Gauges : latestMetrics'[g] # latestMetrics[g] =>
            /\ g \in Mapping
            /\ \E m \in Selected(g) :
                  latestMetrics'[g] = Convert(g, load[pod][m])]_vars
  BY GaugeStep
<1> QED
  BY <1>1, TypeCorrect, PTL DEF Spec, GaugesAreScraped
=============================================================================
