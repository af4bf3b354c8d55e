------------------------- MODULE ExtensionServerProofs -------------------------
(* Proofs about ExtensionServer, for any listeners, route configurations,    *)
(* routes, rules, pools and resources.                                       *)
EXTENDS ExtensionServer, TLAPS, SequenceTheorems, FiniteSetTheorems,
        WellFoundedInduction

-----------------------------------------------------------------------------
(* Sequences and sets                                                      *)

(* An arrangement of a finite set has all of its elements and no others.     *)
LEMMA ArrangementHasAll ==
    ASSUME NEW S, IsFiniteSet(S), NEW s \in SetToSeqs(S)
    PROVE  /\ Len(s) \in Nat /\ s \in Seq(S) /\ DOMAIN s = 1 .. Len(s)
           /\ \A x \in S : \E i \in 1 .. Len(s) : s[i] = x
<1> DEFINE n == Cardinality(S)
<1>1. n \in Nat
  BY FS_CardinalityType
<1>2. /\ s \in [1 .. n -> S]
      /\ \A i, j \in 1 .. n : i # j => s[i] # s[j]
  BY DEF SetToSeqs
<1>3. s \in Seq(S) /\ Len(s) = n /\ DOMAIN s = 1 .. n
  BY <1>1, <1>2
<1>4. ASSUME NEW x \in S, \A i \in 1 .. n : s[i] # x
      PROVE  FALSE
  <2>1. IsFiniteSet(S \ {x}) /\ Cardinality(S \ {x}) = n - 1
    BY FS_RemoveElement
  <2>2. IsFiniteSet(1 .. n) /\ Cardinality(1 .. n) = n
    BY <1>1, FS_Interval
  <2>3. s \in [1 .. n -> S \ {x}]
    BY <1>2, <1>4
  <2>4. n - 1 < n
    BY <1>1
  <2>5. \E i, j \in 1 .. n : i # j /\ s[i] = s[j]
    <3> DEFINE D == 1 .. n
               T == S \ {x}
    <3>1. /\ IsFiniteSet(D) /\ IsFiniteSet(T)
          /\ Cardinality(T) < Cardinality(D) /\ s \in [D -> T]
      BY <2>1, <2>2, <2>3, <2>4
    <3>2. \E i, j \in D : i # j /\ s[i] = s[j]
      <4> HIDE DEF D, T
      <4> QED BY <3>1, FS_PigeonHole
    <3> QED BY <3>2
  <2> QED BY <1>2, <2>5
<1> QED BY <1>1, <1>3, <1>4

(* A set of naturals that is not empty has a least element.                  *)
LEMMA LeastExists ==
    ASSUME NEW T \in SUBSET Nat, T # {}
    PROVE  \E t \in T : \A u \in T : t <= u
<1> DEFINE Less == {z \in Nat \X Nat : z[1] < z[2]}
<1>1. IsWellFoundedOn(Less, Nat)
  BY NatLessThanWellFounded DEF OpToRel
<1>2. PICK t \in T : \A u \in T : <<u, t>> \notin Less
  <2> HIDE DEF Less
  <2> QED BY <1>1, WFMin
<1>3. ASSUME NEW u \in T PROVE t <= u
  <2>1. t \in Nat /\ u \in Nat
    BY <1>2
  <2>2. ~ (u < t)
    BY <1>2, <2>1
  <2> QED BY <2>1, <2>2
<1> QED BY <1>2, <1>3

(* None of the pools of the list is found in the chain: the new filters are  *)
(* those of the whole list.  The loop of the code is a recursive function:   *)
(* w is one that does what its body says, and any two of those are equal.    *)
LEMMA NoneFound ==
    ASSUME NEW chain, NEW S, NEW list \in Seq(S),
           \A i \in 1 .. Len(list) : ~ Found(list[i], chain)
    PROVE  poolFilters(chain, list)
               = [i \in 1 .. Len(list) |-> buildInferencePoolHTTPFilter(list[i])]
<1> DEFINE n == Len(list)
           b(i) == buildInferencePoolHTTPFilter(list[i])
           Step(f) == [i \in 0 .. n |->
                         IF i = 0 THEN <<>>
                         ELSE IF Found(list[i], chain) THEN f[i - 1]
                         ELSE Append(f[i - 1], b(i))]
           w == [i \in 0 .. n |-> [k \in 1 .. i |-> b(k)]]
           upTo == CHOOSE f : f = Step(f)
<1>1. n \in Nat
  OBVIOUS
<1>2. poolFilters(chain, list) = upTo[n]
  BY DEF poolFilters
<1>3. w = Step(w)
  <2>1. ASSUME NEW i \in 0 .. n PROVE w[i] = Step(w)[i]
    <3>1. CASE i = 0
      BY <3>1
    <3>2. CASE i # 0
      <4>1. i - 1 \in 0 .. n /\ i \in 1 .. n /\ ~ Found(list[i], chain)
        BY <1>1, <3>2
      <4>2. w[i] = [k \in 1 .. i |-> b(k)] /\ w[i - 1] = [k \in 1 .. i - 1 |-> b(k)]
        BY <4>1
      <4>3. Step(w)[i] = Append(w[i - 1], b(i))
        BY <3>2, <4>1
      <4>4. Append(w[i - 1], b(i)) = [k \in 1 .. i |-> b(k)]
        <5> HIDE DEF b
        <5> QED BY <4>1, <4>2
      <4> QED BY <4>2, <4>3, <4>4
    <3> QED BY <3>1, <3>2
  <2> QED BY <2>1
<1>4. upTo = Step(upTo)
  <2> HIDE DEF w, Step
  <2> QED BY <1>3
<1>5. \A i \in 0 .. n : upTo[i] = w[i]
  <2> DEFINE T == {i \in 0 .. n : upTo[i] # w[i]}
  <2> SUFFICES ASSUME T # {} PROVE FALSE
    OBVIOUS
  <2>1. PICK t \in T : \A u \in T : t <= u
    <3>1. T \in SUBSET Nat
      BY <1>1
    <3> HIDE DEF T
    <3> QED BY <3>1, LeastExists
  <2> HIDE DEF upTo, w
  <2>2. upTo[t] = Step(upTo)[t] /\ w[t] = Step(w)[t]
    BY <1>3, <1>4, Zenon
  <2>3. CASE t = 0
    BY <2>1, <2>2, <2>3
  <2>4. CASE t # 0
    <3>1. t - 1 \in 0 .. n /\ t \in 1 .. n /\ ~ Found(list[t], chain)
      BY <1>1, <2>1, <2>4
    <3>2. upTo[t - 1] = w[t - 1]
      BY <2>1, <3>1
    <3> QED BY <2>1, <2>2, <2>4, <3>1, <3>2
  <2> QED BY <2>3, <2>4
<1>6. upTo[n] = w[n]
  <2> HIDE DEF upTo, w
  <2> QED BY <1>1, <1>5
<1> QED BY <1>1, <1>2, <1>6

-----------------------------------------------------------------------------
(* The inductive invariant                                                 *)

RuleOf(x) == IF x \in Routes THEN ruleOf[x] ELSE x
Wants(x) == WantedBy(RuleOf(x))

Chosen(S) == CHOOSE p \in S : TRUE

(* What the hook of x leaves in its metadata.                                *)
Reference(x) ==
    IF Wants(x) = {} THEN FreshMetadata[x]
    ELSE buildEPPMetadata(FreshMetadata[x], Chosen(Wants(x)))

(* Hooks have marked exactly what wants one pool.                            *)
HookInv ==
    /\ metadata = [x \in Hooked |->
                     IF x \in todo THEN FreshMetadata[x] ELSE Reference(x)]
    /\ rewrite = {r \in Routes \ todo : Wants(r) # {}}
    /\ originalDst = {c \in Rules \ todo : Wants(c) # {}}

(* Listeners and virtual hosts are left alone before PostTranslateModify.    *)
FreshInv ==
    phase \in {"hooks", "failed"} =>
        /\ eppClusters = {} /\ unpatched = {} /\ filters = FreshFilters
        /\ disabled = [r \in Routes |-> {}]

(* The pools of a listener.                                                  *)
ListenerRoutes(l) ==
    {r \in Routes : cfgOf[r] \in findListenerRouteConfigs(l) /\ HasPoolAt(r)}
Names(l) == {PoolAt(r).name : r \in ListenerRoutes(l)}

Patched == PoolListeners \ unpatched

PatchedChain(list) ==
    <<OtherFilter("cors")>>
        \o [i \in 1 .. Len(list) |-> buildInferencePoolHTTPFilter(list[i])]
        \o <<Router>>

(* A listener is patched once, from a fresh chain; what a route has disabled *)
(* are the pools of the patched listeners it is served by, but for its own.  *)
PatchInv ==
    phase \in {"patch", "done"} =>
        /\ todo = {} /\ unpatched \subseteq PoolListeners
        /\ eppClusters = buildClustersForInferencePoolEndpointPickers
        /\ filters = [l \in Listeners |-> filters[l]]
        /\ \A l \in Listeners :
              \/ l \notin Patched /\ filters[l] = FreshFilters[l]
              \/ /\ l \in Patched
                 /\ \E list \in InferencePoolLists(l) :
                       filters[l] = [ch \in ChainNames |->
                           IF rds[l][ch] = NoHCM THEN <<>>
                           ELSE PatchedChain(list)]
        /\ disabled \in [Routes -> SUBSET Pools]
        /\ \A r \in Routes, p \in Pools :
              p \in disabled[r] <=>
                  \E l \in Patched :
                      /\ cfgOf[r] \in findListenerRouteConfigs(l)
                      /\ p \in patchVirtualHostWithInferencePool(r, Names(l))

ServerInv ==
    /\ InputOK /\ todo \subseteq Hooked
    /\ phase \in {"hooks", "failed", "patch", "done"}
    /\ phase = "done" => unpatched = {}
    /\ HookInv /\ FreshInv /\ PatchInv

-----------------------------------------------------------------------------
(* The pool reference                                                      *)

(* Joining one segment to two,                                               *)
LEMMA JoinedToTwo ==
    ASSUME NEW p, NEW q, NEW a PROVE <<p, q>> \o <<a>> = <<p, q, a>>
<1> DEFINE S == {p, q, a}
<1>1. <<p, q>> \in Seq(S) /\ <<a>> \in Seq(S) /\ <<p, q, a>> \in Seq(S)
  OBVIOUS
<1>2. <<p, q>> \o <<a>> \in Seq(S) /\ Len(<<p, q>> \o <<a>>) = 3
  BY <1>1
<1>3. \A i \in 1 .. 3 : (<<p, q>> \o <<a>>)[i] = <<p, q, a>>[i]
  BY <1>1
<1> QED BY <1>1, <1>2, <1>3, SeqEqual

(* and one to three.                                                         *)
LEMMA JoinedToThree ==
    ASSUME NEW p, NEW q, NEW a, NEW b PROVE <<p, q, a>> \o <<b>> = <<p, q, a, b>>
<1> DEFINE S == {p, q, a, b}
<1>1. <<p, q, a>> \in Seq(S) /\ <<b>> \in Seq(S) /\ <<p, q, a, b>> \in Seq(S)
  OBVIOUS
<1>2. <<p, q, a>> \o <<b>> \in Seq(S) /\ Len(<<p, q, a>> \o <<b>>) = 4
  BY <1>1
<1>3. \A i \in 1 .. 4 : (<<p, q, a>> \o <<b>>)[i] = <<p, q, a, b>>[i]
  BY <1>1
<1> QED BY <1>1, <1>2, <1>3, SeqEqual

(* Four segments, unless an annotation value is more than one.               *)
LEMMA SegmentsJoined ==
    ASSUME NEW p, NEW q, NEW a, NEW b,
           NEW ref, ref = <<p, q>> \o Segments(a) \o Segments(b)
    PROVE  /\ Len(ref) # 1
           /\ \/ a # "a/b" /\ b # "a/b" /\ ref = <<p, q, a, b>>
              \/ (a = "a/b" \/ b = "a/b") /\ Len(ref) # 4
<1>1. CASE a # "a/b" /\ b # "a/b"
  <2>1. ref = <<p, q>> \o <<a>> \o <<b>>
    BY <1>1 DEF Segments
  <2>2. <<p, q>> \o <<a>> = <<p, q, a>>
    BY JoinedToTwo
  <2>3. <<p, q, a>> \o <<b>> = <<p, q, a, b>>
    BY JoinedToThree
  <2>4. ref = <<p, q, a, b>>
    BY <2>1, <2>2, <2>3, Zenon
  <2>5. Len(<<p, q, a, b>>) = 4
    OBVIOUS
  <2>6. Len(ref) # 1
    BY <2>4, <2>5
  <2> QED BY <1>1, <2>4, <2>6, Zenon
<1>2. CASE a = "a/b" /\ b # "a/b"
  BY <1>2 DEF Segments
<1>3. CASE a # "a/b" /\ b = "a/b"
  BY <1>3 DEF Segments
<1>4. CASE a = "a/b" /\ b = "a/b"
  BY <1>4 DEF Segments
<1> QED BY <1>1, <1>2, <1>3, <1>4

(* What is read back of the reference to p.                                  *)
Declared(p) ==
    [name |-> p, port |-> portForInferencePool(spec[p].port),
     mode |-> getProcessingBodyModeString(spec[p]),
     override |-> getAllowModeOverrideString(spec[p])]

AnnotationsAreWords ==
    \A s \in Specs, p \in Pools : s[p].mode # "a/b" /\ s[p].override # "a/b"

(* A port outside the range is replaced by the default one.                  *)
LEMMA PortInRange == \A port : portForInferencePool(port) \in Ports
<1>1. defaultEndpointPickerPort \in Ports
  BY DEF Ports, defaultEndpointPickerPort
<1> QED BY <1>1, Zenon DEF portForInferencePool

(* The modes written into a reference are values of annotations or their     *)
(* defaults.                                                                 *)
LEMMA ValuesHave ==
    ASSUME InputOK, NEW p \in Pools
    PROVE  /\ getProcessingBodyModeString(spec[p]) \in Values
           /\ getAllowModeOverrideString(spec[p]) \in Values
<1>1. spec \in Specs
  BY DEF InputOK
<1>2. spec[p].mode \in Values /\ spec[p].override \in Values
  BY <1>1 DEF Values
<1>3. "duplex" \in Values /\ "false" \in Values
  BY DEF Values
<1>4. getProcessingBodyModeString(spec[p]) \in Values
  BY <1>2, <1>3, Zenon DEF getProcessingBodyModeString
<1>5. getAllowModeOverrideString(spec[p]) \in Values
  BY <1>2, <1>3, Zenon DEF getAllowModeOverrideString
<1> QED BY <1>4, <1>5

(* The pool a reference should give back: its name, a valid port, its        *)
(* modes.                                                                    *)
LEMMA DeclaredIs ==
    ASSUME InputOK, NEW p \in Pools
    PROVE  /\ Declared(p) \in InferencePools
           /\ Declared(p) # NoPool /\ Declared(p).name = p
           /\ Declared(p).port = portForInferencePool(spec[p].port)
           /\ Declared(p).mode = getProcessingBodyModeString(spec[p])
           /\ Declared(p).override = getAllowModeOverrideString(spec[p])
<1>1. PICK q, a, b : /\ q = portForInferencePool(spec[p].port)
                     /\ a = getProcessingBodyModeString(spec[p])
                     /\ b = getAllowModeOverrideString(spec[p])
  OBVIOUS
<1>2. q \in Ports
  BY <1>1, PortInRange, Zenon
<1>3. a \in Values /\ b \in Values
  BY <1>1, ValuesHave, Zenon
<1>4. Declared(p) = [name |-> p, port |-> q, mode |-> a, override |-> b]
  BY <1>1, Zenon DEF Declared
<1>5. [name |-> p, port |-> q, mode |-> a, override |-> b] \in InferencePools
  BY <1>2, <1>3 DEF InferencePools
<1>6. Declared(p) # NoPool
  BY <1>4, <1>5, NoPoolAssumption, Zenon
<1>7. Declared(p) \in InferencePools
  BY <1>4, <1>5, Zenon
<1> QED BY <1>1, <1>4, <1>6, <1>7

(* The trip of a pool through the metadata string gives the declared pool,   *)
(* or none if an annotation has a slash.                                     *)
LEMMA ReferenceRead ==
    ASSUME InputOK, NEW p \in Pools,
           NEW ref, ref = clusterRefInferencePool(p)
    PROVE  /\ ref # NoMeta
           /\ \/ getInferencePoolByMetadata(ref) = Declared(p)
              \/ ~ AnnotationsAreWords /\ getInferencePoolByMetadata(ref) = NoPool
<1>1. PICK q, a, b : /\ q = portForInferencePool(spec[p].port)
                     /\ a = getProcessingBodyModeString(spec[p])
                     /\ b = getAllowModeOverrideString(spec[p])
  OBVIOUS
<1>2. ref = <<p, q>> \o Segments(a) \o Segments(b)
  BY <1>1, Zenon DEF clusterRefInferencePool
<1>3. /\ Len(ref) # 1
      /\ \/ a # "a/b" /\ b # "a/b" /\ ref = <<p, q, a, b>>
         \/ (a = "a/b" \/ b = "a/b") /\ Len(ref) # 4
  BY <1>2, SegmentsJoined
<1>4. ref # NoMeta
  BY <1>3 DEF NoMeta
<1>5. CASE ref = <<p, q, a, b>>
  <2>1. getInferencePoolByMetadata(ref)
            = [name |-> p, port |-> q, mode |-> a, override |-> b]
    BY <1>5 DEF getInferencePoolByMetadata
  <2> QED BY <1>1, <1>4, <2>1, Zenon DEF Declared
<1>6. CASE (a = "a/b" \/ b = "a/b") /\ Len(ref) # 4
  <2>1. getInferencePoolByMetadata(ref) = NoPool
    BY <1>6 DEF getInferencePoolByMetadata
  <2>2. spec[p].mode = "a/b" \/ spec[p].override = "a/b"
    BY <1>1, <1>6 DEF getProcessingBodyModeString, getAllowModeOverrideString
  <2>3. ~ AnnotationsAreWords
    BY <2>2 DEF AnnotationsAreWords, InputOK
  <2> QED BY <1>4, <2>1, <2>3
<1> QED BY <1>3, <1>5, <1>6

-----------------------------------------------------------------------------
(* What the hooks leave behind                                             *)

(* A hook is for one rule, which wants at most one pool.                     *)
LEMMA WantsIs ==
    ASSUME InputOK, NEW x \in Hooked
    PROVE  /\ RuleOf(x) \in Rules /\ Wants(x) \subseteq Pools
           /\ \A p, q \in Wants(x) : p = q
<1>1. RuleOf(x) \in Rules
  BY DEF InputOK, Hooked, RuleOf
<1>2. ASSUME NEW p \in Wants(x)
      PROVE  \E i \in DOMAIN resources[RuleOf(x)] :
                /\ constructInferencePoolsFrom(resources[RuleOf(x)]) = {i}
                /\ p = resources[RuleOf(x)][i]
  BY DEF Wants, WantedBy
<1>3. Wants(x) \subseteq Pools
  BY <1>2 DEF constructInferencePoolsFrom
<1>4. \A p, q \in Wants(x) : p = q
  BY <1>2
<1> QED BY <1>1, <1>3, <1>4

(* Fresh metadata is there or not, and refers to no pool.                    *)
LEMMA FreshIs ==
    ASSUME InputOK, NEW x \in Hooked
    PROVE  /\ present[x] \in BOOLEAN
           /\ FreshMetadata[x] = NoMeta <=> ~ present[x]
           /\ getInferencePoolByMetadata(FreshMetadata[x]) = NoPool
<1>1. present[x] \in BOOLEAN
  BY MetadataAssumption DEF InputOK
<1>2. Len(<<>>) = 0 /\ Len(NoMeta) = 1 /\ NoMeta # <<>>
  BY DEF NoMeta
<1>3. FreshMetadata[x] = IF present[x] THEN <<>> ELSE NoMeta
  BY DEF FreshMetadata
<1>4. CASE present[x]
  <2>1. FreshMetadata[x] = <<>> /\ Len(FreshMetadata[x]) # 4
    BY <1>2, <1>3, <1>4
  <2> QED BY <1>1, <1>2, <1>4, <2>1 DEF getInferencePoolByMetadata
<1>5. CASE ~ present[x]
  <2>1. FreshMetadata[x] = NoMeta /\ Len(FreshMetadata[x]) # 4
    BY <1>2, <1>3, <1>5
  <2> QED BY <1>1, <1>2, <1>5, <2>1 DEF getInferencePoolByMetadata
<1> QED BY <1>4, <1>5

(* Reading the metadata gives the wanted pool as declared or none; it gives  *)
(* the pool when metadata was there and no annotation has a slash.           *)
LEMMA ReferenceIs ==
    ASSUME InputOK, NEW x \in Hooked
    PROVE  /\ Reference(x) = NoMeta <=> ~ present[x]
           /\ \/ getInferencePoolByMetadata(Reference(x)) = NoPool
              \/ \E p \in Wants(x) :
                    getInferencePoolByMetadata(Reference(x)) = Declared(p)
           /\ (AnnotationsAreWords /\ present[x] /\ Wants(x) # {}) =>
                  getInferencePoolByMetadata(Reference(x)) # NoPool
<1>1. CASE Wants(x) = {}
  <2>1. Reference(x) = FreshMetadata[x]
    BY <1>1 DEF Reference
  <2> QED BY <1>1, <2>1, FreshIs
<1>2. CASE Wants(x) # {}
  <2>1. PICK p \in Wants(x) :
           Reference(x) = buildEPPMetadata(FreshMetadata[x], p)
    <3>1. Chosen(Wants(x)) \in Wants(x)
      BY <1>2 DEF Chosen
    <3> QED BY <1>2, <3>1, Zenon DEF Reference
  <2>2. p \in Pools
    BY <2>1, WantsIs
  <2>3. CASE ~ present[x]
    <3>1. FreshMetadata[x] = NoMeta
      BY <2>3, FreshIs
    <3>2. Reference(x) = NoMeta
      BY <2>1, <3>1 DEF buildEPPMetadata
    <3>3. getInferencePoolByMetadata(Reference(x)) = NoPool
      BY <3>1, <3>2, FreshIs
    <3> QED BY <2>3, <3>2, <3>3
  <2>4. CASE present[x]
    <3>1. Reference(x) = clusterRefInferencePool(p)
      BY <2>1, <2>4, FreshIs DEF buildEPPMetadata
    <3>2. PICK ref : ref = Reference(x)
      OBVIOUS
    <3>3. /\ ref # NoMeta
          /\ \/ getInferencePoolByMetadata(ref) = Declared(p)
             \/ ~ AnnotationsAreWords /\ getInferencePoolByMetadata(ref) = NoPool
      BY <2>2, <3>1, <3>2, ReferenceRead
    <3> QED BY <2>1, <2>2, <2>4, <3>2, <3>3, DeclaredIs
  <2> QED BY <2>3, <2>4, FreshIs
<1> QED BY <1>1, <1>2

(* What reading the metadata of a resource says about its rule.              *)
LEMMA MetadataRead ==
    ASSUME InputOK, HookInv, NEW x \in Hooked
    PROVE  /\ present[x] <=> metadata[x] # NoMeta
           /\ HasPoolAt(x) => x \notin todo /\ \E p \in Wants(x) : PoolAt(x) = Declared(p)
           /\ (x \notin todo /\ AnnotationsAreWords /\ present[x] /\ Wants(x) # {})
                 => HasPoolAt(x)
<1>1. CASE x \in todo
  <2>1. metadata[x] = FreshMetadata[x]
    BY <1>1 DEF HookInv
  <2> QED BY <1>1, <2>1, FreshIs DEF HasPoolAt, PoolAt
<1>2. CASE x \notin todo
  <2>1. metadata[x] = Reference(x)
    BY <1>2 DEF HookInv
  <2> QED BY <1>2, <2>1, ReferenceIs, FreshIs DEF HasPoolAt, PoolAt
<1> QED BY <1>1, <1>2

(* A pool reference that is read comes from a hook that found its one pool.  *)
LEMMA PoolRead ==
    ASSUME InputOK, HookInv, NEW x \in Hooked, HasPoolAt(x)
    PROVE  \E p \in Pools : /\ Wants(x) = {p} /\ x \notin todo
                            /\ PoolAt(x) = Declared(p) /\ PoolAt(x).name = p
<1>1. PICK p \in Wants(x) : PoolAt(x) = Declared(p)
  BY MetadataRead
<1>2. p \in Pools /\ Wants(x) = {p} /\ x \notin todo
  BY <1>1, WantsIs, MetadataRead
<1>3. Declared(p).name = p
  BY <1>2, DeclaredIs
<1>4. PoolAt(x).name = p
  BY <1>1, <1>3
<1> QED BY <1>1, <1>2, <1>4

-----------------------------------------------------------------------------
(* The hooks of routes and clusters                                        *)

(* Within a cycle the input and what is computed from it stay.               *)
LEMMA SameInput ==
    ASSUME UNCHANGED input
    PROVE  /\ InputOK' <=> InputOK
           /\ FreshMetadata' = FreshMetadata /\ FreshFilters' = FreshFilters
           /\ \A x : Wants(x)' = Wants(x) /\ Reference(x)' = Reference(x)
<1>1. /\ rds' = rds /\ cfgOf' = cfgOf /\ ruleOf' = ruleOf
      /\ resources' = resources /\ spec' = spec /\ present' = present
  BY DEF input
<1>2. InputOK' <=> InputOK
  BY <1>1 DEF InputOK
<1>3. FreshMetadata' = FreshMetadata /\ FreshFilters' = FreshFilters
  BY <1>1 DEF FreshMetadata, FreshFilters
<1>4. ASSUME NEW x PROVE Wants(x)' = Wants(x)
  BY <1>1 DEF Wants, RuleOf, WantedBy, constructInferencePoolsFrom
<1>5. ASSUME NEW x PROVE Reference(x)' = Reference(x)
  <2>1. Wants(x)' = Wants(x)
    BY <1>4
  <2> QED BY <1>1, <1>3, <2>1 DEF Reference, buildEPPMetadata, clusterRefInferencePool
<1> QED BY <1>2, <1>3, <1>4, <1>5

(* The three ways out of a hook, by the number of pools.                     *)
LEMMA PoolsWanted ==
    ASSUME NEW u, NEW list, list = resources[u],
           NEW pools, pools = constructInferencePoolsFrom(list)
    PROVE  /\ pools = {} => WantedBy(u) = {}
           /\ \A i \in DOMAIN list : pools = {i} => WantedBy(u) = {list[i]}
           /\ \A i, j \in pools : i # j => WantedBy(u) = {}
<1>1. WantedBy(u) = {list[i] : i \in {j \in DOMAIN list : pools = {j}}}
  BY Zenon DEF WantedBy
<1> QED BY <1>1

(* The reference of a resource that wants one pool.                          *)
LEMMA ReferenceOfOne ==
    ASSUME NEW x, NEW p, Wants(x) = {p}
    PROVE  Reference(x) = buildEPPMetadata(FreshMetadata[x], p)
<1>1. Chosen({p}) = p
  BY DEF Chosen
<1>2. {p} # {}
  OBVIOUS
<1> QED BY <1>1, <1>2, Zenon DEF Reference

(* A hook that leaves the reference of its resource keeps HookInv.           *)
LEMMA HookDone ==
    ASSUME HookInv, UNCHANGED input, todo \subseteq Hooked,
           NEW x \in todo, todo' = todo \ {x},
           metadata' = [metadata EXCEPT ![x] = Reference(x)],
           rewrite' = rewrite \cup {y \in {x} \cap Routes : Wants(y) # {}},
           originalDst' = originalDst \cup {y \in {x} \cap Rules : Wants(y) # {}}
    PROVE  HookInv'
<1> DEFINE M == [y \in Hooked |->
                   IF y \in todo' THEN FreshMetadata[y] ELSE Reference(y)]
<1>1. metadata = [y \in Hooked |->
                    IF y \in todo THEN FreshMetadata[y] ELSE Reference(y)]
  BY DEF HookInv
<1>2. metadata' = M
  <2> PICK F, R : F = FreshMetadata /\ R = [y \in Hooked |-> Reference(y)]
    OBVIOUS
  <2>1. metadata = [y \in Hooked |-> IF y \in todo THEN F[y] ELSE R[y]]
    BY <1>1
  <2>2. metadata' = [metadata EXCEPT ![x] = R[x]]
    OBVIOUS
  <2>3. metadata' = [y \in Hooked |-> IF y \in todo' THEN F[y] ELSE R[y]]
    BY <2>1, <2>2
  <2> QED BY <2>3
<1>3. M = [y \in Hooked |->
             IF y \in todo' THEN FreshMetadata'[y] ELSE Reference(y)']
  BY SameInput
<1>4. rewrite' = {r \in Routes \ todo' : Wants(r) # {}}
  BY DEF HookInv
<1>5. originalDst' = {c \in Rules \ todo' : Wants(c) # {}}
  BY DEF HookInv
<1>6. rewrite' = {r \in Routes \ todo' : Wants(r)' # {}}
  BY <1>4, SameInput
<1>7. originalDst' = {c \in Rules \ todo' : Wants(c)' # {}}
  BY <1>5, SameInput
<1> QED BY <1>2, <1>3, <1>6, <1>7, Zenon DEF HookInv

(* While no listener is patched only the hooks' part of the invariant moves. *)
LEMMA HookStep ==
    ASSUME ServerInv, HookInv', UNCHANGED input, phase = "hooks",
           todo' \subseteq todo, phase' \in {"failed", "hooks"},
           UNCHANGED <<unpatched, eppClusters, filters, disabled>>
    PROVE  ServerInv'
<1>1. InputOK' /\ FreshFilters' = FreshFilters
  BY SameInput DEF ServerInv
<1>2. FreshInv'
  BY <1>1 DEF ServerInv, FreshInv
<1>3. PatchInv'
  BY DEF PatchInv
<1> QED BY <1>1, <1>2, <1>3 DEF ServerInv

(* PostRouteModify is such a hook,                                           *)
LEMMA RouteHookKeeps ==
    ASSUME ServerInv, NEW r \in Routes, PostRouteModify(r)
    PROVE  ServerInv'
<1>1. PICK list, pools : /\ list = resources[ruleOf[r]]
                         /\ pools = constructInferencePoolsFrom(list)
  OBVIOUS
<1>2. /\ phase = "hooks" /\ r \in todo /\ todo' = todo \ {r}
      /\ phase' \in {"failed", "hooks"} /\ UNCHANGED input
      /\ UNCHANGED <<unpatched, originalDst, eppClusters, filters, disabled>>
  BY DEF PostRouteModify
<1>3. /\ r \notin Rules /\ Wants(r) = WantedBy(ruleOf[r])
      /\ todo \subseteq Hooked /\ HookInv
  BY NamesAssumption DEF Wants, RuleOf, ServerInv
<1>4. /\ metadata[r] = FreshMetadata[r]
      /\ metadata = [metadata EXCEPT ![r] = FreshMetadata[r]]
  BY <1>2, <1>3 DEF HookInv
<1>5. /\ metadata' = [metadata EXCEPT ![r] = Reference(r)]
      /\ rewrite' = rewrite \cup {y \in {r} \cap Routes : Wants(y) # {}}
  <2>1. CASE pools = {} /\ UNCHANGED <<metadata, rewrite>>
    <3>1. Wants(r) = {}
      BY <1>1, <1>3, <2>1, PoolsWanted
    <3>2. Reference(r) = FreshMetadata[r]
      BY <3>1 DEF Reference
    <3> QED BY <1>4, <2>1, <3>1, <3>2
  <2>2. ASSUME NEW i \in DOMAIN list, pools = {i}, rewrite' = rewrite \cup {r},
               metadata' = [metadata EXCEPT
                              ![r] = buildEPPMetadata(metadata[r], list[i])]
        PROVE  <1>5!1 /\ <1>5!2
    <3>1. Wants(r) = {list[i]}
      BY <1>1, <1>3, <2>2, PoolsWanted
    <3>2. Reference(r) = buildEPPMetadata(FreshMetadata[r], list[i])
      BY <3>1, ReferenceOfOne
    <3> QED BY <1>4, <2>2, <3>1, <3>2
  <2>3. CASE (\E i, j \in pools : i # j) /\ UNCHANGED <<metadata, rewrite>>
    <3>1. Wants(r) = {}
      BY <1>1, <1>3, <2>3, PoolsWanted
    <3>2. Reference(r) = FreshMetadata[r]
      BY <3>1 DEF Reference
    <3> QED BY <1>4, <2>3, <3>1, <3>2
  <2> QED BY <1>1, <2>1, <2>2, <2>3, Zenon DEF PostRouteModify
<1>6. originalDst' = originalDst \cup {y \in {r} \cap Rules : Wants(y) # {}}
  BY <1>2, <1>3
<1>7. HookInv'
  BY <1>2, <1>3, <1>5, <1>6, HookDone
<1> QED BY <1>2, <1>7, HookStep

(* and so is PostClusterModify.                                              *)
LEMMA ClusterHookKeeps ==
    ASSUME ServerInv, NEW c \in Rules, PostClusterModify(c)
    PROVE  ServerInv'
<1>1. PICK list, pools : /\ list = resources[c]
                         /\ pools = constructInferencePoolsFrom(list)
  OBVIOUS
<1>2. /\ phase = "hooks" /\ c \in todo /\ todo' = todo \ {c}
      /\ phase' \in {"failed", "hooks"} /\ UNCHANGED input
      /\ UNCHANGED <<unpatched, rewrite, eppClusters, filters, disabled>>
  BY DEF PostClusterModify
<1>3. /\ c \notin Routes /\ Wants(c) = WantedBy(c)
      /\ todo \subseteq Hooked /\ HookInv
  BY NamesAssumption DEF Wants, RuleOf, ServerInv
<1>4. /\ metadata[c] = FreshMetadata[c]
      /\ metadata = [metadata EXCEPT ![c] = FreshMetadata[c]]
  BY <1>2, <1>3 DEF HookInv
<1>5. /\ metadata' = [metadata EXCEPT ![c] = Reference(c)]
      /\ originalDst' = originalDst \cup {y \in {c} \cap Rules : Wants(y) # {}}
  <2>1. CASE pools = {} /\ UNCHANGED <<metadata, originalDst>>
    <3>1. Wants(c) = {}
      BY <1>1, <1>3, <2>1, PoolsWanted
    <3>2. Reference(c) = FreshMetadata[c]
      BY <3>1 DEF Reference
    <3> QED BY <1>4, <2>1, <3>1, <3>2
  <2>2. ASSUME NEW i \in DOMAIN list, pools = {i},
               originalDst' = originalDst \cup {c},
               metadata' = [metadata EXCEPT
                              ![c] = buildEPPMetadata(metadata[c], list[i])]
        PROVE  <1>5!1 /\ <1>5!2
    <3>1. Wants(c) = {list[i]}
      BY <1>1, <1>3, <2>2, PoolsWanted
    <3>2. Reference(c) = buildEPPMetadata(FreshMetadata[c], list[i])
      BY <3>1, ReferenceOfOne
    <3> QED BY <1>4, <2>2, <3>1, <3>2
  <2>3. CASE (\E i, j \in pools : i # j) /\ UNCHANGED <<metadata, originalDst>>
    <3>1. Wants(c) = {}
      BY <1>1, <1>3, <2>3, PoolsWanted
    <3>2. Reference(c) = FreshMetadata[c]
      BY <3>1 DEF Reference
    <3> QED BY <1>4, <2>3, <3>1, <3>2
  <2> QED BY <1>1, <2>1, <2>2, <2>3, Zenon DEF PostClusterModify
<1>6. rewrite' = rewrite \cup {y \in {c} \cap Routes : Wants(y) # {}}
  BY <1>2, <1>3
<1>7. HookInv'
  BY <1>2, <1>3, <1>5, <1>6, HookDone
<1> QED BY <1>2, <1>7, HookStep

-----------------------------------------------------------------------------
(* Patching                                                                *)

(* The filter chains, and then the default one.                              *)
LEMMA ChainNamesAre ==
    Chains[1] = "chain" /\ Chains[2] = "default" /\ ChainNames = {"chain", "default"}
<1>1. Chains[1] = "chain" /\ Chains[2] = "default" /\ DOMAIN Chains = {1, 2}
  BY DEF Chains
<1> QED BY <1>1 DEF ChainNames, Range

(* The pool routes of a listener are those of its two chains.                *)
LEMMA RoutesOfListener ==
    ASSUME InputOK, NEW l \in Listeners
    PROVE  ListenerRoutes(l) = PoolRoutes(rds[l]["chain"])
                                  \cup PoolRoutes(rds[l]["default"])
<1>1. \A r \in Routes : cfgOf[r] \notin {NoHCM, NoRds}
  BY NamesAssumption DEF InputOK
<1>2. findListenerRouteConfigs(l)
          = {rds[l]["chain"], rds[l]["default"]} \ {NoHCM, NoRds}
  BY ChainNamesAre DEF findListenerRouteConfigs
<1> QED BY <1>1, <1>2 DEF ListenerRoutes, PoolRoutes

(* A route configuration has finitely many pool routes.                      *)
LEMMA RoutesAreFinite ==
    ASSUME NEW cfg PROVE IsFiniteSet(PoolRoutes(cfg)) /\ PoolRoutes(cfg) \subseteq Routes
<1>1. PoolRoutes(cfg) \in SUBSET Routes
  BY DEF PoolRoutes
<1> QED BY <1>1, RoutesAssumption, FS_Subset

(* Whatever the order, a listener's list has the pools of its routes.        *)
LEMMA ListHas ==
    ASSUME InputOK, HookInv, NEW l \in Listeners,
           NEW list \in InferencePoolLists(l)
    PROVE  /\ list \in Seq(InferencePools) /\ DOMAIN list = 1 .. Len(list)
           /\ \A i \in 1 .. Len(list) :
                 \E r \in ListenerRoutes(l) : list[i] = PoolAt(r)
           /\ \A r \in ListenerRoutes(l) :
                 \E i \in 1 .. Len(list) : list[i] = PoolAt(r)
<1> DEFINE A == PoolRoutes(rds[l]["chain"])
           B == PoolRoutes(rds[l]["default"])
           L == ListenerRoutes(l)
<1>1. PICK s1 \in SetToSeqs(A), s2 \in SetToSeqs(B) :
         list = [i \in 1 .. Len(s1 \o s2) |-> PoolAt((s1 \o s2)[i])]
  BY ChainNamesAre DEF InferencePoolLists
<1>2. IsFiniteSet(A) /\ IsFiniteSet(B)
  BY RoutesAreFinite
<1>3. /\ s1 \in Seq(A) /\ Len(s1) \in Nat /\ DOMAIN s1 = 1 .. Len(s1)
      /\ \A x \in A : \E i \in 1 .. Len(s1) : s1[i] = x
  <2> HIDE DEF A
  <2> QED BY <1>1, <1>2, ArrangementHasAll
<1>4. /\ s2 \in Seq(B) /\ Len(s2) \in Nat /\ DOMAIN s2 = 1 .. Len(s2)
      /\ \A x \in B : \E i \in 1 .. Len(s2) : s2[i] = x
  <2> HIDE DEF B
  <2> QED BY <1>1, <1>2, ArrangementHasAll
<1>5. L = A \cup B
  BY RoutesOfListener
<1> HIDE DEF A, B, L
<1>6. s1 \in Seq(L) /\ s2 \in Seq(L)
  BY <1>3, <1>4, <1>5
<1>7. PICK s : s = s1 \o s2
  OBVIOUS
<1>8. /\ s \in Seq(L) /\ Len(s) = Len(s1) + Len(s2) /\ Len(s) \in Nat
      /\ \A i \in 1 .. Len(s1) : s[i] = s1[i]
      /\ \A i \in 1 .. Len(s2) : s[Len(s1) + i] = s2[i]
  BY <1>3, <1>4, <1>6, <1>7
<1>9. \A r \in L : \E i \in 1 .. Len(s) : s[i] = r
  <2> TAKE r \in L
  <2>1. CASE r \in A
    <3>1. PICK i \in 1 .. Len(s1) : s1[i] = r
      BY <1>3, <2>1
    <3>2. i \in 1 .. Len(s) /\ s[i] = r
      BY <1>3, <1>4, <1>8, <3>1
    <3> QED BY <3>2
  <2>2. CASE r \in B
    <3>1. PICK i \in 1 .. Len(s2) : s2[i] = r
      BY <1>4, <2>2
    <3>2. Len(s1) + i \in 1 .. Len(s) /\ s[Len(s1) + i] = r
      BY <1>3, <1>4, <1>8, <3>1
    <3> QED BY <3>2
  <2> QED BY <1>5, <2>1, <2>2
<1>10. list = [i \in 1 .. Len(s) |-> PoolAt(s[i])]
  BY <1>1, <1>7
<1>11. \A i \in 1 .. Len(s) : s[i] \in L
  BY <1>8
<1>12. \A r \in L : PoolAt(r) \in InferencePools
  <2> TAKE r \in L
  <2>1. r \in Hooked /\ HasPoolAt(r)
    BY DEF L, ListenerRoutes, Hooked
  <2>2. \E p \in Pools : PoolAt(r) = Declared(p)
    BY <2>1, PoolRead
  <2> QED BY <2>2, DeclaredIs
<1>13. /\ list \in Seq(InferencePools) /\ Len(list) = Len(s)
       /\ DOMAIN list = 1 .. Len(s)
  BY <1>8, <1>10, <1>11, <1>12
<1>14. \A i \in 1 .. Len(list) : \E r \in L : list[i] = PoolAt(r)
  BY <1>10, <1>11, <1>13
<1>15. \A r \in L : \E i \in 1 .. Len(list) : list[i] = PoolAt(r)
  BY <1>9, <1>10, <1>13
<1> QED BY <1>13, <1>14, <1>15 DEF L

(* Whatever order the map is walked in, the list names the pools of the      *)
(* listener.                                                                 *)
LEMMA NamesAre ==
    ASSUME InputOK, HookInv, NEW l \in Listeners,
           NEW list \in InferencePoolLists(l)
    PROVE  /\ {list[i].name : i \in DOMAIN list} = Names(l)
           /\ Names(l) \subseteq Pools
           /\ \A i \in 1 .. Len(list) : list[i].name \in Pools
<1>1. /\ DOMAIN list = 1 .. Len(list)
      /\ \A i \in 1 .. Len(list) : \E r \in ListenerRoutes(l) : list[i] = PoolAt(r)
      /\ \A r \in ListenerRoutes(l) : \E i \in 1 .. Len(list) : list[i] = PoolAt(r)
  BY ListHas
<1>2. {list[i].name : i \in DOMAIN list} = Names(l)
  BY <1>1 DEF Names
<1>3. ASSUME NEW r \in ListenerRoutes(l) PROVE PoolAt(r).name \in Pools
  <2>1. r \in Hooked /\ HasPoolAt(r)
    BY DEF ListenerRoutes, Hooked
  <2> QED BY <2>1, PoolRead
<1>4. Names(l) \subseteq Pools
  BY <1>3 DEF Names
<1>5. \A i \in 1 .. Len(list) : list[i].name \in Pools
  BY <1>1, <1>3
<1> QED BY <1>2, <1>4, <1>5

(* The filters that were there are no pickers.                               *)
LEMMA OtherFilterIs ==
    /\ OtherFilter("cors").name = "cors" /\ Router.name = "router"
    /\ "cors" \notin Pools /\ "router" \notin Pools
  BY NamesAssumption DEF OtherFilter, Router

(* The filters of a fresh chain are those of no pool, so that all are added. *)
LEMMA FreshIsPatched ==
    ASSUME NEW list \in Seq(InferencePools),
           \A i \in 1 .. Len(list) : list[i].name \in Pools
    PROVE  patchListenerWithInferencePoolFilters(
               <<OtherFilter("cors"), Router>>, list) = PatchedChain(list)
<1>1. PICK a, b : a = OtherFilter("cors") /\ b = Router
  OBVIOUS
<1>2. a.name \notin Pools /\ b.name \notin Pools
  BY <1>1, OtherFilterIs
<1>3. \A i \in 1 .. Len(list) : ~ Found(list[i], <<a, b>>)
  BY <1>2 DEF Found
<1>4. poolFilters(<<a, b>>, list)
          = [i \in 1 .. Len(list) |-> buildInferencePoolHTTPFilter(list[i])]
  BY <1>3, NoneFound
<1>5. Front(<<a, b>>) = <<a>>
  <2>1. <<a, b>> \in Seq({a, b}) /\ <<a>> \in Seq({a, b}) /\ Len(<<a, b>>) = 2
    OBVIOUS
  <2>2. Front(<<a, b>>) = SubSeq(<<a, b>>, 1, 1)
    BY <2>1 DEF Front
  <2>3. PICK t : t = SubSeq(<<a, b>>, 1, 1)
    OBVIOUS
  <2>4. t \in Seq({a, b}) /\ Len(t) = 1 /\ t[1] = a
    BY <2>1, <2>3
  <2>5. Len(<<a>>) = Len(t) /\ \A i \in 1 .. Len(t) : t[i] = <<a>>[i]
    BY <2>4
  <2>6. t = <<a>>
    BY <2>1, <2>4, <2>5, SeqEqual
  <2> QED BY <2>2, <2>3, <2>6
<1>6. Last(<<a, b>>) = b
  BY DEF Last
<1> QED BY <1>1, <1>4, <1>5, <1>6, Zenon
        DEF patchListenerWithInferencePoolFilters, PatchedChain

(* Reading depends on the input and the metadata only.                       *)
LEMMA SameReading ==
    ASSUME UNCHANGED input, UNCHANGED metadata
    PROVE  /\ PoolListeners' = PoolListeners
           /\ buildClustersForInferencePoolEndpointPickers'
                 = buildClustersForInferencePoolEndpointPickers
           /\ \A l : /\ findListenerRouteConfigs(l)' = findListenerRouteConfigs(l)
                     /\ InferencePoolLists(l)' = InferencePoolLists(l)
                     /\ Names(l)' = Names(l)
           /\ \A r, n : patchVirtualHostWithInferencePool(r, n)'
                           = patchVirtualHostWithInferencePool(r, n)
<1>1. rds' = rds /\ cfgOf' = cfgOf
  BY DEF input
<1>2. ASSUME NEW x PROVE PoolAt(x)' = PoolAt(x) /\ (HasPoolAt(x)' <=> HasPoolAt(x))
  BY DEF PoolAt, HasPoolAt, getInferencePoolByMetadata
<1>3. ASSUME NEW l PROVE findListenerRouteConfigs(l)' = findListenerRouteConfigs(l)
  BY <1>1 DEF findListenerRouteConfigs
<1>4. ASSUME NEW c PROVE PoolRoutes(c)' = PoolRoutes(c)
  BY <1>1, <1>2 DEF PoolRoutes
<1>5. PoolListeners' = PoolListeners
  BY <1>3, <1>4 DEF PoolListeners
<1>6. buildClustersForInferencePoolEndpointPickers'
          = buildClustersForInferencePoolEndpointPickers
  BY <1>2 DEF buildClustersForInferencePoolEndpointPickers,
              buildExtProcClusterForInferencePoolEndpointPicker
<1>7. ASSUME NEW l PROVE InferencePoolLists(l)' = InferencePoolLists(l)
  BY <1>1 DEF InferencePoolLists, PoolRoutes, HasPoolAt, PoolAt
<1>8. ASSUME NEW l PROVE Names(l)' = Names(l)
  BY <1>1, <1>2, <1>3 DEF Names, ListenerRoutes
<1>9. ASSUME NEW r, NEW n
      PROVE  patchVirtualHostWithInferencePool(r, n)'
                 = patchVirtualHostWithInferencePool(r, n)
  BY <1>2 DEF patchVirtualHostWithInferencePool
<1> QED BY <1>3, <1>5, <1>6, <1>7, <1>8, <1>9

(* PostTranslateModify starts from untouched listeners and virtual hosts.    *)
LEMMA TranslateKeeps ==
    ASSUME ServerInv, PostTranslateModify
    PROVE  ServerInv'
<1>1. /\ phase = "hooks" /\ todo = {} /\ phase' = "patch" /\ todo' = todo
      /\ eppClusters' = buildClustersForInferencePoolEndpointPickers
      /\ unpatched' = PoolListeners /\ UNCHANGED input
      /\ UNCHANGED <<metadata, rewrite, originalDst, filters, disabled>>
  BY DEF PostTranslateModify
<1>2. InputOK' /\ HookInv'
  BY <1>1, SameInput DEF ServerInv, HookInv
<1>3. filters' = FreshFilters' /\ disabled' = [r \in Routes |-> {}]
  BY <1>1, SameInput DEF ServerInv, FreshInv
<1>4. PoolListeners' = PoolListeners /\ Patched' = {}
  BY <1>1, SameReading DEF Patched
<1>5. filters' = [l \in Listeners |-> filters'[l]]
  BY <1>3 DEF FreshFilters
<1>6. disabled' \in [Routes -> SUBSET Pools]
      /\ \A r \in Routes : disabled'[r] = {}
  BY <1>3
<1>7. PatchInv'
  BY <1>1, <1>3, <1>4, <1>5, <1>6, SameReading DEF PatchInv
<1>8. FreshInv'
  BY <1>1 DEF FreshInv
<1> QED BY <1>1, <1>2, <1>7, <1>8 DEF ServerInv

(* A listener is patched: its chains were fresh.                             *)
LEMMA PatchKeeps ==
    ASSUME ServerInv, NEW l \in Listeners, PatchListener(l)
    PROVE  ServerInv'
<1>1. /\ phase = "patch" /\ l \in unpatched /\ unpatched' = unpatched \ {l}
      /\ phase' = phase /\ todo' = todo /\ UNCHANGED input
      /\ UNCHANGED <<metadata, rewrite, originalDst, eppClusters>>
  BY DEF PatchListener
<1>2. PICK list \in InferencePoolLists(l) :
        /\ filters' = [filters EXCEPT ![l] =
              [ch \in ChainNames |->
                  IF rds[l][ch] = NoHCM THEN filters[l][ch]
                  ELSE patchListenerWithInferencePoolFilters(filters[l][ch], list)]]
        /\ disabled' = [r \in Routes |->
              IF cfgOf[r] \in findListenerRouteConfigs(l)
              THEN disabled[r] \cup patchVirtualHostWithInferencePool(
                                        r, {list[i].name : i \in DOMAIN list})
              ELSE disabled[r]]
  BY DEF PatchListener
<1>3. InputOK /\ HookInv /\ InputOK' /\ HookInv'
  BY <1>1, SameInput DEF ServerInv, HookInv
<1>4. /\ unpatched \subseteq PoolListeners /\ l \notin Patched
      /\ eppClusters = buildClustersForInferencePoolEndpointPickers
      /\ filters = [m \in Listeners |-> filters[m]] /\ filters[l] = FreshFilters[l]
      /\ disabled \in [Routes -> SUBSET Pools] /\ todo = {}
  BY <1>1 DEF ServerInv, PatchInv, Patched
<1>5. PoolListeners' = PoolListeners /\ Patched' = Patched \cup {l}
  BY <1>1, <1>4, SameReading DEF Patched
<1>6. /\ list \in Seq(InferencePools)
      /\ \A i \in 1 .. Len(list) : list[i].name \in Pools
      /\ {list[i].name : i \in DOMAIN list} = Names(l) /\ Names(l) \subseteq Pools
  BY <1>3, ListHas, NamesAre
<1>7. filters'[l] = [ch \in ChainNames |->
                       IF rds[l][ch] = NoHCM THEN <<>> ELSE PatchedChain(list)]
  <2>1. filters'[l] = [ch \in ChainNames |->
                  IF rds[l][ch] = NoHCM THEN filters[l][ch]
                  ELSE patchListenerWithInferencePoolFilters(filters[l][ch], list)]
    BY <1>2, <1>4
  <2>2. ASSUME NEW ch \in ChainNames
        PROVE  /\ rds[l][ch] = NoHCM => filters[l][ch] = <<>>
               /\ rds[l][ch] # NoHCM =>
                     patchListenerWithInferencePoolFilters(filters[l][ch], list)
                         = PatchedChain(list)
    <3>1. rds[l][ch] = NoHCM => filters[l][ch] = <<>>
      BY <1>4 DEF FreshFilters
    <3>2. rds[l][ch] # NoHCM => filters[l][ch] = <<OtherFilter("cors"), Router>>
      BY <1>4 DEF FreshFilters
    <3> QED BY <1>6, <3>1, <3>2, FreshIsPatched
  <2> QED BY <2>1, <2>2
<1>8. /\ filters' = [m \in Listeners |-> filters'[m]]
      /\ \A m \in Listeners \ {l} : filters'[m] = filters[m]
  BY <1>2, <1>4
<1>9. ASSUME NEW m \in Listeners
      PROVE  \/ m \notin Patched' /\ filters'[m] = FreshFilters'[m]
             \/ /\ m \in Patched'
                /\ \E s \in InferencePoolLists(m)' :
                      filters'[m] = [ch \in ChainNames |->
                          IF rds'[m][ch] = NoHCM THEN <<>> ELSE PatchedChain(s)']
  <2>1. rds' = rds /\ FreshFilters' = FreshFilters
    BY <1>1, SameInput DEF input
  <2>2. InferencePoolLists(m)' = InferencePoolLists(m)
    BY <1>1, SameReading
  <2>3. ASSUME NEW s PROVE PatchedChain(s)' = PatchedChain(s)
    BY DEF PatchedChain
  <2>4. CASE m = l
    BY <1>2, <1>5, <1>7, <2>1, <2>2, <2>3, <2>4
  <2>5. CASE m # l
    <3>1. \/ m \notin Patched /\ filters[m] = FreshFilters[m]
          \/ /\ m \in Patched
             /\ \E s \in InferencePoolLists(m) :
                   filters[m] = [ch \in ChainNames |->
                       IF rds[m][ch] = NoHCM THEN <<>> ELSE PatchedChain(s)]
      BY <1>1 DEF ServerInv, PatchInv
    <3> QED BY <1>5, <1>8, <2>1, <2>2, <2>3, <2>5, <3>1
  <2> QED BY <2>4, <2>5
<1>10. ASSUME NEW r \in Routes
       PROVE  disabled'[r] = IF cfgOf[r] \in findListenerRouteConfigs(l)
                             THEN disabled[r] \cup
                                  patchVirtualHostWithInferencePool(r, Names(l))
                             ELSE disabled[r]
  BY <1>2, <1>6
<1>11. disabled' \in [Routes -> SUBSET Pools]
  <2>1. \A r \in Routes :
           patchVirtualHostWithInferencePool(r, Names(l)) \subseteq Pools
    BY <1>6 DEF patchVirtualHostWithInferencePool
  <2>2. \A r \in Routes : disabled'[r] \subseteq Pools
    BY <1>4, <1>10, <2>1
  <2> QED BY <1>2, <2>2
<1>12. ASSUME NEW r \in Routes, NEW p \in Pools
       PROVE  p \in disabled'[r] <=>
                  \E m \in Patched' :
                     /\ cfgOf'[r] \in findListenerRouteConfigs(m)'
                     /\ p \in patchVirtualHostWithInferencePool(r, Names(m))'
  <2> DEFINE D(m) == /\ cfgOf[r] \in findListenerRouteConfigs(m)
                     /\ p \in patchVirtualHostWithInferencePool(r, Names(m))
  <2>1. p \in disabled[r] <=> \E m \in Patched : D(m)
    BY <1>1 DEF ServerInv, PatchInv
  <2>2. p \in disabled'[r] <=> p \in disabled[r] \/ D(l)
    BY <1>10
  <2>3. ASSUME NEW m
        PROVE  D(m) <=> /\ cfgOf'[r] \in findListenerRouteConfigs(m)'
                        /\ p \in patchVirtualHostWithInferencePool(r, Names(m))'
    <3>1. cfgOf' = cfgOf /\ findListenerRouteConfigs(m)' = findListenerRouteConfigs(m)
      BY <1>1, SameReading DEF input
    <3>2. patchVirtualHostWithInferencePool(r, Names(m))'
              = patchVirtualHostWithInferencePool(r, Names(m))
      <4>1. PICK n : n = Names(m)
        OBVIOUS
      <4>2. n = Names(m)'
        BY <1>1, <4>1, SameReading
      <4>3. patchVirtualHostWithInferencePool(r, n)'
                = patchVirtualHostWithInferencePool(r, n)
        BY <1>1, SameReading
      <4> QED BY <4>1, <4>2, <4>3 DEF patchVirtualHostWithInferencePool
    <3> QED BY <3>1, <3>2
  <2> HIDE DEF D
  <2>4. p \in disabled'[r] <=> \E m \in Patched' : D(m)
    BY <1>5, <2>1, <2>2
  <2> QED BY <2>3, <2>4
<1>13. eppClusters' = buildClustersForInferencePoolEndpointPickers'
  BY <1>1, <1>4, SameReading
<1>14. PatchInv'
  BY <1>1, <1>4, <1>5, <1>8, <1>9, <1>11, <1>12, <1>13 DEF PatchInv
<1>15. FreshInv' /\ phase' # "done"
  BY <1>1 DEF FreshInv
<1> QED BY <1>1, <1>3, <1>4, <1>14, <1>15 DEF ServerInv

(* All but the phase stays: the listeners remain as they were patched.       *)
LEMMA SamePatches ==
    ASSUME ServerInv, UNCHANGED <<input, todo, unpatched, output>>,
           \/ phase' = phase
           \/ phase = "patch" /\ phase' = "done" /\ unpatched = {}
           \/ phase = "hooks" /\ phase' = "failed"
    PROVE  ServerInv'
<1>1. /\ UNCHANGED input /\ todo' = todo /\ unpatched' = unpatched
      /\ metadata' = metadata /\ rewrite' = rewrite /\ originalDst' = originalDst
      /\ eppClusters' = eppClusters /\ filters' = filters /\ disabled' = disabled
      /\ rds' = rds /\ cfgOf' = cfgOf
  BY DEF output, input
<1>2. InputOK' /\ HookInv'
  BY <1>1, SameInput DEF ServerInv, HookInv
<1>3. FreshInv'
  BY <1>1, SameInput DEF ServerInv, FreshInv
<1>4. PatchInv'
  <2> SUFFICES ASSUME phase' \in {"patch", "done"} PROVE PatchInv'
    BY DEF PatchInv
  <2>1. phase \in {"patch", "done"} /\ Patched' = Patched
    BY <1>1, SameReading DEF Patched
  <2>2. ASSUME NEW l \in Listeners
        PROVE  \/ l \notin Patched' /\ filters'[l] = FreshFilters'[l]
               \/ /\ l \in Patched'
                  /\ \E list \in InferencePoolLists(l)' :
                        filters'[l] = [ch \in ChainNames |->
                            IF rds'[l][ch] = NoHCM THEN <<>> ELSE PatchedChain(list)']
    <3>1. FreshFilters' = FreshFilters /\ InferencePoolLists(l)' = InferencePoolLists(l)
      BY <1>1, SameInput, SameReading
    <3>2. ASSUME NEW s PROVE PatchedChain(s)' = PatchedChain(s)
      BY DEF PatchedChain
    <3>3. \/ l \notin Patched /\ filters[l] = FreshFilters[l]
          \/ /\ l \in Patched
             /\ \E s \in InferencePoolLists(l) :
                   filters[l] = [ch \in ChainNames |->
                       IF rds[l][ch] = NoHCM THEN <<>> ELSE PatchedChain(s)]
      BY <2>1 DEF ServerInv, PatchInv
    <3> QED BY <1>1, <2>1, <3>1, <3>2, <3>3
  <2>3. ASSUME NEW r \in Routes, NEW p \in Pools
        PROVE  p \in disabled'[r] <=>
                   \E m \in Patched' :
                      /\ cfgOf'[r] \in findListenerRouteConfigs(m)'
                      /\ p \in patchVirtualHostWithInferencePool(r, Names(m))'
    <3>1. ASSUME NEW m
          PROVE  /\ findListenerRouteConfigs(m)' = findListenerRouteConfigs(m)
                 /\ patchVirtualHostWithInferencePool(r, Names(m))'
                       = patchVirtualHostWithInferencePool(r, Names(m))
      <4>1. PICK n : n = Names(m)
        OBVIOUS
      <4>2. n = Names(m)'
        BY <1>1, <4>1, SameReading
      <4>3. patchVirtualHostWithInferencePool(r, n)'
                = patchVirtualHostWithInferencePool(r, n)
        BY <1>1, SameReading
      <4>4. patchVirtualHostWithInferencePool(r, Names(m))'
                = patchVirtualHostWithInferencePool(r, Names(m))
        BY <4>1, <4>2, <4>3 DEF patchVirtualHostWithInferencePool
      <4> QED BY <1>1, <4>4, SameReading
    <3>2. p \in disabled[r] <=>
             \E m \in Patched :
                /\ cfgOf[r] \in findListenerRouteConfigs(m)
                /\ p \in patchVirtualHostWithInferencePool(r, Names(m))
      BY <2>1 DEF ServerInv, PatchInv
    <3> QED BY <1>1, <2>1, <3>1, <3>2
  <2>4. /\ todo' = {} /\ unpatched' \subseteq PoolListeners'
        /\ eppClusters' = buildClustersForInferencePoolEndpointPickers'
    BY <1>1, <2>1, SameReading DEF ServerInv, PatchInv
  <2>5. /\ filters' = [l \in Listeners |-> filters'[l]]
        /\ disabled' \in [Routes -> SUBSET Pools]
    BY <1>1, <2>1 DEF ServerInv, PatchInv
  <2> QED BY <2>2, <2>3, <2>4, <2>5 DEF PatchInv
<1> QED BY <1>1, <1>2, <1>3, <1>4 DEF ServerInv

(* The response is sent when every listener is patched.                      *)
LEMMA RespondKeeps ==
    ASSUME ServerInv, Respond PROVE ServerInv'
  BY SamePatches DEF Respond

(* A panic leaves everything as it was.                                      *)
LEMMA PanicKeeps ==
    ASSUME ServerInv, NEW r \in Routes, PostRouteModifyPanics(r)
    PROVE  ServerInv'
  BY SamePatches DEF PostRouteModifyPanics

(* The invariant holds at the beginning of a cycle,                          *)
LEMMA FreshStart ==
    ASSUME InputOK, phase = "hooks", todo = Hooked, metadata = FreshMetadata,
           rewrite = {}, originalDst = {}, eppClusters = {}, unpatched = {},
           filters = FreshFilters, disabled = [r \in Routes |-> {}]
    PROVE  ServerInv
<1>1. metadata = [x \in Hooked |->
                    IF x \in todo THEN FreshMetadata[x] ELSE Reference(x)]
  BY DEF FreshMetadata
<1>2. Routes \ todo = {} /\ Rules \ todo = {}
  BY DEF Hooked
<1>3. HookInv
  BY <1>1, <1>2 DEF HookInv
<1>4. FreshInv /\ PatchInv
  BY DEF FreshInv, PatchInv
<1> QED BY <1>3, <1>4 DEF ServerInv

(* initially,                                                                *)
LEMMA InitHolds == Init => ServerInv
  BY FreshStart DEF Init

(* and in every later one.                                                   *)
LEMMA NewCycleKeeps ==
    ASSUME ServerInv, NewCycle PROVE ServerInv'
<1>1. /\ UNCHANGED input /\ phase' = "hooks" /\ todo' = Hooked
      /\ metadata' = FreshMetadata /\ rewrite' = {} /\ originalDst' = {}
      /\ eppClusters' = {} /\ unpatched' = {} /\ filters' = FreshFilters
      /\ disabled' = [r \in Routes |-> {}]
  BY DEF NewCycle
<1>2. InputOK' /\ metadata' = FreshMetadata' /\ filters' = FreshFilters'
  BY <1>1, SameInput DEF ServerInv
<1>3. metadata' = [x \in Hooked |->
                     IF x \in todo' THEN FreshMetadata'[x] ELSE Reference(x)']
  BY <1>1, <1>2 DEF FreshMetadata
<1>4. Routes \ todo' = {} /\ Rules \ todo' = {}
  BY <1>1 DEF Hooked
<1>5. HookInv'
  BY <1>1, <1>3, <1>4 DEF HookInv
<1>6. FreshInv' /\ PatchInv'
  BY <1>1, <1>2 DEF FreshInv, PatchInv
<1> QED BY <1>1, <1>2, <1>5, <1>6 DEF ServerInv

(* Every step keeps the invariant,                                           *)
LEMMA NextKeeps == ServerInv /\ [Next]_vars => ServerInv'
<1> SUFFICES ASSUME ServerInv, [Next]_vars PROVE ServerInv'
  OBVIOUS
<1>1. ASSUME NEW r \in Routes, PostRouteModify(r) PROVE ServerInv'
  BY <1>1, RouteHookKeeps
<1>1a. ASSUME NEW r \in Routes, PostRouteModifyPanics(r) PROVE ServerInv'
  BY <1>1a, PanicKeeps
<1>2. ASSUME NEW c \in Rules, PostClusterModify(c) PROVE ServerInv'
  BY <1>2, ClusterHookKeeps
<1>3. CASE PostTranslateModify
  BY <1>3, TranslateKeeps
<1>4. ASSUME NEW l \in Listeners, PatchListener(l) PROVE ServerInv'
  BY <1>4, PatchKeeps
<1>5. CASE Respond
  BY <1>5, RespondKeeps
<1>6. CASE NewCycle
  BY <1>6, NewCycleKeeps
<1>7. CASE UNCHANGED vars
  BY <1>7, SamePatches DEF vars
<1> QED BY <1>1, <1>1a, <1>2, <1>3, <1>4, <1>5, <1>6, <1>7 DEF Next

(* so it holds in every reachable state.                                     *)
LEMMA ServerInvHolds == Spec => []ServerInv
  BY InitHolds, NextKeeps, PTL DEF Spec

-----------------------------------------------------------------------------
(* The filters of a chain                                                  *)

(* The filter of a pool has the name of the pool.                            *)
LEMMA BuiltName == \A pool : buildInferencePoolHTTPFilter(pool).name = pool.name
  BY DEF buildInferencePoolHTTPFilter

(* A patched chain: what was there, the pickers in the order of the list,    *)
(* the router.                                                               *)
LEMMA PatchedChainHas ==
    ASSUME NEW S, NEW list \in Seq(S), NEW c, c = PatchedChain(list)
    PROVE  /\ Len(c) = Len(list) + 2 /\ DOMAIN c = 1 .. Len(c) /\ c # <<>>
           /\ c[1] = OtherFilter("cors") /\ c[Len(c)] = Router
           /\ \A i \in 1 .. Len(list) :
                 c[i + 1] = buildInferencePoolHTTPFilter(list[i])
<1>1. PICK a, b, m : /\ a = OtherFilter("cors") /\ b = Router
                     /\ m = [i \in 1 .. Len(list) |->
                               buildInferencePoolHTTPFilter(list[i])]
  OBVIOUS
<1> DEFINE T == {a, b} \cup {m[i] : i \in 1 .. Len(list)}
<1>2. Len(list) \in Nat
  OBVIOUS
<1>3. m \in Seq(T) /\ Len(m) = Len(list)
  BY <1>1, <1>2
<1>4. <<a>> \in Seq(T) /\ <<b>> \in Seq(T) /\ Len(<<a>>) = 1 /\ Len(<<b>>) = 1
  OBVIOUS
<1>5. c = <<a>> \o m \o <<b>>
  BY <1>1, Zenon DEF PatchedChain
<1> HIDE DEF T
<1>6. PICK d : d = <<a>> \o m
  OBVIOUS
<1>7. /\ d \in Seq(T) /\ Len(d) = Len(list) + 1 /\ d[1] = a
      /\ \A i \in 1 .. Len(list) : d[i + 1] = m[i]
  BY <1>2, <1>3, <1>4, <1>6
<1>8. /\ c \in Seq(T) /\ Len(c) = Len(list) + 2 /\ c[1] = a
      /\ c[Len(list) + 2] = b
      /\ \A i \in 1 .. Len(list) + 1 : c[i] = d[i]
  BY <1>2, <1>4, <1>5, <1>6, <1>7
<1>9. DOMAIN c = 1 .. Len(c) /\ c # <<>>
  BY <1>2, <1>8
<1>10. ASSUME NEW i \in 1 .. Len(list)
       PROVE  c[i + 1] = buildInferencePoolHTTPFilter(list[i])
  <2>1. i + 1 \in 1 .. Len(list) + 1
    BY <1>2
  <2>2. c[i + 1] = d[i + 1] /\ d[i + 1] = m[i]
    BY <1>7, <1>8, <2>1
  <2> QED BY <1>1, <2>2
<1> QED BY <1>1, <1>8, <1>9, <1>10

(* The pool filters of a patched chain are those of the listener's routes.   *)
LEMMA PatchedChainPools ==
    ASSUME InputOK, HookInv, NEW l \in Listeners,
           NEW list \in InferencePoolLists(l), NEW c, c = PatchedChain(list)
    PROVE  /\ \A i \in DOMAIN c :
                 \/ c[i].name \in {"cors", "router"}
                 \/ \E q \in ListenerRoutes(l) :
                       c[i] = buildInferencePoolHTTPFilter(PoolAt(q))
           /\ \A q \in ListenerRoutes(l) : \E i \in DOMAIN c :
                 c[i] = buildInferencePoolHTTPFilter(PoolAt(q))
           /\ \A i \in 2 .. Len(c) - 1 : \E q \in ListenerRoutes(l) :
                 c[i] = buildInferencePoolHTTPFilter(PoolAt(q))
<1>1. /\ list \in Seq(InferencePools)
      /\ \A i \in 1 .. Len(list) : \E r \in ListenerRoutes(l) : list[i] = PoolAt(r)
      /\ \A r \in ListenerRoutes(l) : \E i \in 1 .. Len(list) : list[i] = PoolAt(r)
  BY ListHas
<1>2. /\ Len(c) = Len(list) + 2 /\ DOMAIN c = 1 .. Len(c)
      /\ c[1] = OtherFilter("cors") /\ c[Len(c)] = Router
      /\ \A i \in 1 .. Len(list) : c[i + 1] = buildInferencePoolHTTPFilter(list[i])
  BY <1>1, PatchedChainHas
<1>3. Len(list) \in Nat
  BY <1>1
<1>4. ASSUME NEW i \in 2 .. Len(c) - 1
      PROVE  \E q \in ListenerRoutes(l) :
                 c[i] = buildInferencePoolHTTPFilter(PoolAt(q))
  <2>1. i - 1 \in 1 .. Len(list) /\ (i - 1) + 1 = i
    BY <1>2, <1>3
  <2>2. c[i] = buildInferencePoolHTTPFilter(list[i - 1])
    BY <1>2, <2>1
  <2> QED BY <1>1, <2>1, <2>2
<1>5. ASSUME NEW i \in DOMAIN c
      PROVE  i = 1 \/ i = Len(c) \/ i \in 2 .. Len(c) - 1
  BY <1>2, <1>3
<1>6. ASSUME NEW i \in DOMAIN c
      PROVE  \/ c[i].name \in {"cors", "router"}
             \/ \E q \in ListenerRoutes(l) :
                   c[i] = buildInferencePoolHTTPFilter(PoolAt(q))
  <2>1. CASE i = 1
    BY <1>2, <2>1, OtherFilterIs
  <2>2. CASE i = Len(c)
    BY <1>2, <2>2, OtherFilterIs
  <2>3. CASE i \in 2 .. Len(c) - 1
    BY <1>4, <2>3
  <2> QED BY <1>5, <2>1, <2>2, <2>3
<1>7. ASSUME NEW q \in ListenerRoutes(l)
      PROVE  \E i \in DOMAIN c : c[i] = buildInferencePoolHTTPFilter(PoolAt(q))
  <2>1. PICK i \in 1 .. Len(list) : list[i] = PoolAt(q)
    BY <1>1
  <2>2. i + 1 \in DOMAIN c
    BY <1>2, <1>3
  <2>3. c[i + 1] = buildInferencePoolHTTPFilter(PoolAt(q))
    BY <1>2, <2>1
  <2> QED BY <2>2, <2>3
<1> QED BY <1>4, <1>6, <1>7

(* A chain is fresh, or patched with a list of its listener's pools.         *)
LEMMA ChainIs ==
    ASSUME ServerInv, NEW l \in Listeners, NEW ch \in ChainNames
    PROVE  \/ filters[l][ch] = <<>> /\ rds[l][ch] = NoHCM
           \/ /\ filters[l][ch] = <<OtherFilter("cors"), Router>>
              /\ Done => l \notin PoolListeners
           \/ /\ l \in PoolListeners
              /\ \E list \in InferencePoolLists(l) :
                    filters[l][ch] = PatchedChain(list)
<1>1. CASE phase \in {"hooks", "failed"}
  <2>1. filters = FreshFilters /\ ~ Done
    BY <1>1 DEF ServerInv, FreshInv, Done
  <2> QED BY <2>1 DEF FreshFilters
<1>2. CASE phase \in {"patch", "done"}
  <2>1. \/ l \notin Patched /\ filters[l] = FreshFilters[l]
        \/ /\ l \in Patched
           /\ \E list \in InferencePoolLists(l) :
                 filters[l] = [c \in ChainNames |->
                     IF rds[l][c] = NoHCM THEN <<>> ELSE PatchedChain(list)]
    BY <1>2 DEF ServerInv, PatchInv
  <2>2. Done => Patched = PoolListeners
    BY DEF ServerInv, Patched, Done
  <2>3. CASE l \notin Patched /\ filters[l] = FreshFilters[l]
    BY <2>2, <2>3 DEF FreshFilters
  <2>4. CASE l \in Patched
    BY <2>1, <2>4 DEF Patched
  <2> QED BY <2>1, <2>3, <2>4
<1> QED BY <1>1, <1>2 DEF ServerInv

-----------------------------------------------------------------------------
(* Types and chains, whatever metadata and annotations are like            *)

(* A pool route of a listener: its rule wants the pool, and a chain serves   *)
(* it.                                                                       *)
LEMMA ListenerRoute ==
    ASSUME InputOK, HookInv, NEW l \in Listeners, NEW q \in ListenerRoutes(l)
    PROVE  \E p \in Pools :
              /\ q \in Routes /\ HasPoolAt(q) /\ Wanted(q) = {p}
              /\ PoolAt(q) = Declared(p) /\ PoolAt(q).name = p
              /\ buildInferencePoolHTTPFilter(PoolAt(q)).name = p
              /\ \E c \in ChainNames : rds[l][c] = cfgOf[q]
<1>1. q \in Routes /\ q \in Hooked /\ HasPoolAt(q)
  BY DEF ListenerRoutes, Hooked
<1>2. Wanted(q) = Wants(q)
  BY <1>1 DEF Wanted, Wants, RuleOf
<1>3. PICK p \in Pools : /\ Wants(q) = {p} /\ PoolAt(q) = Declared(p)
                         /\ PoolAt(q).name = p
  BY <1>1, PoolRead
<1>4. \E c \in ChainNames : rds[l][c] = cfgOf[q]
  BY DEF ListenerRoutes, findListenerRouteConfigs
<1>5. buildInferencePoolHTTPFilter(PoolAt(q)).name = p
  BY <1>3, BuiltName
<1> QED BY <1>1, <1>2, <1>3, <1>4, <1>5

(* A picker cluster is that of a pool a rule wants, with the declared port.  *)
LEMMA ClustersAre ==
    ASSUME ServerInv, NEW c \in eppClusters
    PROVE  \E x \in Rules, p \in Pools :
              /\ x \in originalDst /\ HasPoolAt(x) /\ Wants(x) = {p}
              /\ c.of = x /\ c.name = p
              /\ c.port = portForInferencePool(Declared(p).port)
<1>1. phase \in {"patch", "done"}
  BY DEF ServerInv, FreshInv
<1>2. todo = {} /\ c \in buildClustersForInferencePoolEndpointPickers
  BY <1>1 DEF ServerInv, PatchInv
<1>3. PICK x \in Rules :
        /\ HasPoolAt(x)
        /\ c = buildExtProcClusterForInferencePoolEndpointPicker(x, PoolAt(x))
  BY <1>2 DEF buildClustersForInferencePoolEndpointPickers
<1>4. PICK p \in Pools : /\ Wants(x) = {p} /\ PoolAt(x) = Declared(p)
                         /\ PoolAt(x).name = p
  BY <1>3, PoolRead DEF ServerInv, Hooked
<1>5. x \in originalDst
  BY <1>2, <1>4 DEF ServerInv, HookInv
<1>6. PICK pool : pool = PoolAt(x)
  OBVIOUS
<1>7. c = [of |-> x, name |-> pool.name, port |-> portForInferencePool(pool.port)]
  BY <1>3, <1>6, Zenon DEF buildExtProcClusterForInferencePoolEndpointPicker
<1>8. c.of = x /\ c.name = pool.name /\ c.port = portForInferencePool(pool.port)
  BY <1>7
<1> QED BY <1>3, <1>4, <1>5, <1>6, <1>8

(* Every filter of a chain has a known name.                                 *)
LEMMA FilterNames ==
    ASSUME ServerInv, NEW l \in Listeners, NEW ch \in ChainNames,
           NEW i \in DOMAIN filters[l][ch]
    PROVE  filters[l][ch][i].name \in PoolNames
<1>1. PICK c : c = filters[l][ch]
  OBVIOUS
<1>2. CASE c = <<>>
  BY <1>1, <1>2
<1>3. CASE c = <<OtherFilter("cors"), Router>>
  <2>1. PICK a, b : a = OtherFilter("cors") /\ b = Router
    OBVIOUS
  <2>2. c = <<a, b>> /\ a.name = "cors" /\ b.name = "router"
    BY <1>3, <2>1, OtherFilterIs
  <2>3. c[i] = a \/ c[i] = b
    BY <1>1, <2>2
  <2> QED BY <1>1, <2>2, <2>3 DEF PoolNames
<1>4. ASSUME NEW list \in InferencePoolLists(l), c = PatchedChain(list)
      PROVE  c[i].name \in PoolNames
  <2>1. \/ c[i].name \in {"cors", "router"}
        \/ \E q \in ListenerRoutes(l) :
              c[i] = buildInferencePoolHTTPFilter(PoolAt(q))
    BY <1>1, <1>4, PatchedChainPools DEF ServerInv
  <2>2. ASSUME NEW q \in ListenerRoutes(l),
               c[i] = buildInferencePoolHTTPFilter(PoolAt(q))
        PROVE  c[i].name \in Pools
    BY <2>2, ListenerRoute DEF ServerInv
  <2> QED BY <2>1, <2>2 DEF PoolNames
<1> QED BY <1>1, <1>2, <1>3, <1>4, ChainIs

(* What the hooks of the extension server read and write keeps its kind: the *)
(* metadata that was there stays, a picker cluster stands beside a cluster   *)
(* of type ORIGINAL_DST and has a valid port, filters and per-route          *)
(* configurations are those of pools.                                        *)
THEOREM HooksTypes == Spec => []TypeOK
<1>1. ServerInv => TypeOK
  <2> SUFFICES ASSUME ServerInv PROVE TypeOK
    OBVIOUS
  <2>1. /\ InputOK /\ HookInv /\ todo \subseteq Hooked
        /\ phase \in {"hooks", "failed", "patch", "done"}
    BY DEF ServerInv
  <2>2. \A x \in Hooked : present[x] <=> metadata[x] # NoMeta
    BY <2>1, MetadataRead
  <2>3. rewrite \subseteq Routes /\ originalDst \subseteq Rules
    BY <2>1 DEF HookInv
  <2>4. \A c \in eppClusters : c.of \in originalDst /\ c.port \in Ports
    BY ClustersAre, PortInRange
  <2>5. unpatched \subseteq Listeners \ ProbeListeners
    BY DEF ServerInv, FreshInv, PatchInv, PoolListeners
  <2>6. disabled \in [Routes -> SUBSET Pools]
    BY DEF ServerInv, FreshInv, PatchInv
  <2> QED BY <2>1, <2>2, <2>3, <2>4, <2>5, <2>6, FilterNames DEF TypeOK
<1> QED BY <1>1, ServerInvHolds, PTL

(* However patchListenerWithInferencePoolFilters is called, the router stays *)
(* the last filter of every chain, what was there stays first, and a picker  *)
(* is only added for a route of the listener that wants its pool.            *)
THEOREM ChainsRemainValid == Spec => []ChainsStayValid
<1>1. ServerInv => ChainsStayValid
  <2> SUFFICES ASSUME ServerInv, NEW l \in Listeners, NEW ch \in ChainNames,
                      NEW c, c = filters[l][ch], c # <<>>
               PROVE  /\ c[1] = OtherFilter("cors") /\ Last(c) = Router
                      /\ \A i \in 2 .. Len(c) - 1 :
                            \E r \in Routes : /\ c[i].name \in Wanted(r)
                                              /\ \E d \in ChainNames : Serves(l, d, r)
    BY Zenon DEF ChainsStayValid
  <2>1. CASE c = <<OtherFilter("cors"), Router>>
    <3>1. PICK a, b : a = OtherFilter("cors") /\ b = Router
      OBVIOUS
    <3>2. c = <<a, b>>
      BY <2>1, <3>1
    <3>3. c[1] = a /\ Last(c) = b /\ 2 .. Len(c) - 1 = {}
      BY <3>2 DEF Last
    <3> QED BY <3>1, <3>3
  <2>2. CASE /\ l \in PoolListeners
             /\ \E list \in InferencePoolLists(l) : c = PatchedChain(list)
    <3> PICK list \in InferencePoolLists(l) : c = PatchedChain(list)
      BY <2>2
    <3>1. InputOK /\ HookInv /\ list \in Seq(InferencePools)
      BY ListHas DEF ServerInv
    <3>2. c[1] = OtherFilter("cors") /\ c[Len(c)] = Router
      BY <3>1, PatchedChainHas
    <3>3. ASSUME NEW i \in 2 .. Len(c) - 1
          PROVE  \E r \in Routes : /\ c[i].name \in Wanted(r)
                                   /\ \E d \in ChainNames : Serves(l, d, r)
      <4>1. PICK q \in ListenerRoutes(l) :
               c[i] = buildInferencePoolHTTPFilter(PoolAt(q))
        BY <2>2, <3>1, PatchedChainPools
      <4>2. /\ q \in Routes /\ c[i].name \in Wanted(q)
            /\ \E d \in ChainNames : rds[l][d] = cfgOf[q]
        BY <3>1, <4>1, ListenerRoute
      <4>3. l \notin ProbeListeners
        BY <2>2 DEF PoolListeners
      <4> QED BY <4>2, <4>3 DEF Serves
    <3> QED BY <3>2, <3>3 DEF Last
  <2> QED BY <2>1, <2>2, ChainIs
<1> QED BY <1>1, ServerInvHolds, PTL

-----------------------------------------------------------------------------
(* The pickers a route goes through                                        *)

(* At the end of a cycle a route keeps exactly the picker filters of the     *)
(* pool that is read from its metadata.                                      *)
LEMMA DisabledAre ==
    ASSUME ServerInv, Done, NEW l \in PoolListeners, NEW r \in Routes,
           cfgOf[r] \in findListenerRouteConfigs(l), NEW p \in Names(l), p \in Pools
    PROVE  p \notin disabled[r] <=> HasPoolAt(r) /\ PoolAt(r).name = p
<1>1. Patched = PoolListeners
  BY DEF ServerInv, Done, Patched
<1>2. p \in disabled[r] <=>
         \E m \in PoolListeners :
            /\ cfgOf[r] \in findListenerRouteConfigs(m)
            /\ p \in patchVirtualHostWithInferencePool(r, Names(m))
  BY <1>1 DEF ServerInv, PatchInv, Done
<1>3. ASSUME p \notin disabled[r] PROVE HasPoolAt(r) /\ PoolAt(r).name = p
  BY <1>2, <1>3 DEF patchVirtualHostWithInferencePool
<1>4. ASSUME HasPoolAt(r), PoolAt(r).name = p PROVE p \notin disabled[r]
  BY <1>2, <1>4 DEF patchVirtualHostWithInferencePool
<1> QED BY <1>3, <1>4

(* The filters a request of a route passes: its own pool's picker, or none.  *)
LEMMA PickersAre ==
    ASSUME ServerInv, Done, NEW l \in Listeners, NEW ch \in ChainNames,
           NEW r \in Routes, Serves(l, ch, r)
    PROVE  \/ ~ HasPoolAt(r) /\ Pickers(l, ch, r) = {}
           \/ /\ HasPoolAt(r)
              /\ \E p \in Pools :
                    /\ Wanted(r) = {p}
                    /\ Pickers(l, ch, r)
                          = {buildInferencePoolHTTPFilter(Declared(p))}
<1>1. InputOK /\ HookInv
  BY DEF ServerInv
<1>2. l \notin ProbeListeners /\ rds[l][ch] = cfgOf[r]
  BY DEF Serves
<1>3. cfgOf[r] \in findListenerRouteConfigs(l) /\ rds[l][ch] # NoHCM
  BY <1>1, <1>2, NamesAssumption DEF InputOK, findListenerRouteConfigs
<1>4. HasPoolAt(r) => l \in PoolListeners /\ r \in ListenerRoutes(l)
  BY <1>2, <1>3 DEF PoolListeners, PoolRoutes, ListenerRoutes
<1>5. PICK c : c = filters[l][ch]
  OBVIOUS
<1>6. Pickers(l, ch, r) = {f \in {c[i] : i \in DOMAIN c} :
                              f.name \in Pools \ disabled[r]}
  BY <1>5 DEF Pickers, Range
<1>7. CASE l \notin PoolListeners
  <2>1. c = <<OtherFilter("cors"), Router>>
    BY <1>3, <1>5, <1>7, ChainIs
  <2>2. PICK a, b : a = OtherFilter("cors") /\ b = Router
    OBVIOUS
  <2>3. c = <<a, b>> /\ a.name \notin Pools /\ b.name \notin Pools
    BY <2>1, <2>2, OtherFilterIs
  <2>4. {c[i] : i \in DOMAIN c} = {a, b}
    BY <2>3
  <2> QED BY <1>4, <1>6, <1>7, <2>3, <2>4
<1>8. CASE l \in PoolListeners
  <2>1. PICK list \in InferencePoolLists(l) : c = PatchedChain(list)
    BY <1>3, <1>5, <1>8, ChainIs
  <2>2. /\ \A i \in DOMAIN c :
             \/ c[i].name \in {"cors", "router"}
             \/ \E q \in ListenerRoutes(l) :
                   c[i] = buildInferencePoolHTTPFilter(PoolAt(q))
        /\ \A q \in ListenerRoutes(l) : \E i \in DOMAIN c :
             c[i] = buildInferencePoolHTTPFilter(PoolAt(q))
    BY <1>1, <2>1, PatchedChainPools
  <2>3. ASSUME NEW f \in Pickers(l, ch, r)
        PROVE  \E p \in Pools :
                  /\ f = buildInferencePoolHTTPFilter(Declared(p)) /\ f.name = p
                  /\ HasPoolAt(r) /\ PoolAt(r).name = p
    <3>1. PICK i \in DOMAIN c : f = c[i] /\ f.name \in Pools \ disabled[r]
      BY <1>6
    <3>2. PICK q \in ListenerRoutes(l) :
             f = buildInferencePoolHTTPFilter(PoolAt(q))
      BY <2>2, <3>1, OtherFilterIs
    <3>3. PICK p \in Pools : /\ PoolAt(q) = Declared(p) /\ PoolAt(q).name = p
                             /\ buildInferencePoolHTTPFilter(PoolAt(q)).name = p
      BY <1>1, ListenerRoute
    <3>4. p \in Names(l) /\ p \notin disabled[r]
      BY <3>1, <3>2, <3>3 DEF Names
    <3>5. HasPoolAt(r) /\ PoolAt(r).name = p
      BY <1>3, <1>8, <3>4, DisabledAre
    <3> QED BY <3>2, <3>3, <3>5
  <2>4. CASE ~ HasPoolAt(r)
    BY <2>3, <2>4
  <2>5. CASE HasPoolAt(r)
    <3>1. r \in ListenerRoutes(l)
      BY <1>4, <2>5
    <3>2. PICK p \in Pools :
             /\ Wanted(r) = {p} /\ PoolAt(r) = Declared(p) /\ PoolAt(r).name = p
             /\ buildInferencePoolHTTPFilter(PoolAt(r)).name = p
      BY <1>1, <3>1, ListenerRoute
    <3>3. p \in Names(l)
      BY <3>1, <3>2 DEF Names
    <3>4. p \notin disabled[r]
      BY <1>3, <1>8, <2>5, <3>2, <3>3, DisabledAre
    <3>5. PICK g : g = buildInferencePoolHTTPFilter(Declared(p))
      OBVIOUS
    <3>6. g.name = p /\ \E i \in DOMAIN c : c[i] = g
      BY <2>2, <3>1, <3>2, <3>5
    <3>7. g \in Pickers(l, ch, r)
      BY <1>6, <3>4, <3>6
    <3>8. \A f \in Pickers(l, ch, r) : f = g
      BY <2>3, <3>2, <3>5
    <3>9. Pickers(l, ch, r) = {g}
      BY <3>7, <3>8
    <3> QED BY <2>5, <3>2, <3>5, <3>9
  <2> QED BY <2>4, <2>5
<1> QED BY <1>7, <1>8

(* With metadata and without slashes in annotations every wanted pool is     *)
(* read.                                                                     *)
LEMMA WantedIsRead ==
    ASSUME ServerInv, Done, MetadataPresent = {TRUE}, AnnotationsAreWords,
           NEW r \in Routes
    PROVE  HasPoolAt(r) <=> Wanted(r) # {}
<1>1. r \in Hooked /\ todo = {} /\ InputOK /\ HookInv
  BY DEF ServerInv, PatchInv, Done, Hooked
<1>2. Wants(r) = Wanted(r) /\ present[r]
  BY <1>1 DEF Wants, Wanted, RuleOf, InputOK
<1> QED BY <1>1, <1>2, MetadataRead

(* When metadata arrives and no annotation has a slash: once a cycle is      *)
(* done, a request goes through the picker of the pool its route's rule      *)
(* refers to, if it refers to one, and through no other, in every chain of   *)
(* every listener, whatever order the maps of maybeModifyListenerAndRoutes   *)
(* are walked in.                                                            *)
THEOREM PoolRoutesArePicked ==
    ASSUME MetadataPresent = {TRUE}, AnnotationsAreWords
    PROVE  Spec => []OnlyPoolRoutesArePicked
<1>1. ServerInv => OnlyPoolRoutesArePicked
  <2> SUFFICES ASSUME ServerInv, Done, NEW l \in Listeners, NEW ch \in ChainNames,
                      NEW r \in Routes, Serves(l, ch, r)
               PROVE  {f.name : f \in Pickers(l, ch, r)} = Wanted(r)
    BY DEF OnlyPoolRoutesArePicked
  <2>1. CASE ~ HasPoolAt(r) /\ Pickers(l, ch, r) = {}
    BY <2>1, WantedIsRead
  <2>2. ASSUME NEW p \in Pools, Wanted(r) = {p},
               Pickers(l, ch, r) = {buildInferencePoolHTTPFilter(Declared(p))}
        PROVE  {f.name : f \in Pickers(l, ch, r)} = Wanted(r)
    <3>1. buildInferencePoolHTTPFilter(Declared(p)).name = p
      BY BuiltName, DeclaredIs DEF ServerInv
    <3> QED BY <2>2, <3>1
  <2> QED BY <2>1, <2>2, PickersAre
<1> QED BY <1>1, ServerInvHolds, PTL

(* When metadata arrives and no annotation has a slash: a cluster of type    *)
(* ORIGINAL_DST, made by PostClusterModify, is only reached through a picker *)
(* and with the host of the request left alone by PostRouteModify.           *)
THEOREM HeaderRoutedArePicked ==
    ASSUME MetadataPresent = {TRUE}, AnnotationsAreWords
    PROVE  Spec => []HeaderRoutedIsPicked
<1>1. ServerInv => HeaderRoutedIsPicked
  <2> SUFFICES ASSUME ServerInv, Done, NEW l \in Listeners, NEW ch \in ChainNames,
                      NEW r \in Routes, Serves(l, ch, r), ruleOf[r] \in originalDst
               PROVE  Pickers(l, ch, r) # {} /\ r \in rewrite
    BY DEF HeaderRoutedIsPicked
  <2>1. todo = {} /\ HookInv
    BY DEF ServerInv, PatchInv, Done
  <2>2. /\ Wants(r) = WantedBy(ruleOf[r]) /\ Wants(r) = Wanted(r)
        /\ Wants(ruleOf[r]) = WantedBy(ruleOf[r])
    BY NamesAssumption DEF Wants, Wanted, RuleOf, ServerInv, InputOK
  <2>3. Wants(r) # {}
    BY <2>1, <2>2 DEF HookInv
  <2>4. r \in rewrite
    BY <2>1, <2>3 DEF HookInv
  <2>5. Pickers(l, ch, r) # {}
    BY <2>2, <2>3, WantedIsRead, PickersAre
  <2> QED BY <2>4, <2>5
<1> QED BY <1>1, ServerInvHolds, PTL

(* The filter of a pool: its port checked a second time, its annotations     *)
(* interpreted.                                                              *)
LEMMA DeclaredFilter ==
    ASSUME InputOK, NEW p \in Pools, NEW s, s = spec[p],
           NEW f, f = buildInferencePoolHTTPFilter(Declared(p))
    PROVE  /\ f.name = p
           /\ f.port = portForInferencePool(Declared(p).port)
           /\ f.port = EffectivePort(s.port)
           /\ f.mode = "BUFFERED" <=> s.mode = "buffered"
           /\ f.override <=> s.override = "true"
<1>1. PICK d : d = Declared(p)
  OBVIOUS
<1>2. /\ d.name = p /\ d.port = portForInferencePool(s.port)
      /\ d.mode = getProcessingBodyModeString(s)
      /\ d.override = getAllowModeOverrideString(s)
  BY <1>1, DeclaredIs
<1>3. f = [name |-> d.name, port |-> portForInferencePool(d.port),
           mode |-> getProcessingBodyMode(d.mode),
           override |-> getAllowModeOverride(d.override)]
  BY <1>1, Zenon DEF buildInferencePoolHTTPFilter
<1>4. /\ f.name = p /\ f.port = portForInferencePool(d.port)
      /\ f.mode = getProcessingBodyMode(d.mode)
      /\ f.override = getAllowModeOverride(d.override)
  BY <1>2, <1>3
<1>5. s.port \in Int
  BY SpecsAssumption DEF InputOK
<1>6. s.port \in Ports <=> ~ (s.port < 0 \/ s.port > 65535)
  <2>1. PICK n \in Int : n = s.port
    BY <1>5
  <2>2. n \in Ports <=> ~ (n < 0 \/ n > 65535)
    BY DEF Ports
  <2> QED BY <2>1, <2>2
<1>7. f.port = EffectivePort(s.port)
  <2>1. CASE s.port \in Ports
    <3>1. f.port = s.port
      BY <1>2, <1>4, <2>1, Zenon DEF portForInferencePool
    <3>2. ~ (s.port < 0 \/ s.port > 65535)
      BY <1>6, <2>1
    <3> QED BY <3>1, <3>2 DEF EffectivePort
  <2>2. CASE s.port \notin Ports
    <3>1. d.port = defaultEndpointPickerPort
      BY <1>2, <2>2, Zenon DEF portForInferencePool
    <3>2. f.port = defaultEndpointPickerPort
      BY <1>4, <3>1, Zenon DEF portForInferencePool
    <3>3. s.port < 0 \/ s.port > 65535
      BY <1>6, <2>2
    <3> QED BY <3>2, <3>3 DEF defaultEndpointPickerPort, EffectivePort
  <2> QED BY <2>1, <2>2
<1>8. f.mode = "BUFFERED" <=> s.mode = "buffered"
  BY <1>2, <1>4 DEF getProcessingBodyMode, getProcessingBodyModeString
<1>9. f.override <=> s.override = "true"
  BY <1>2, <1>4 DEF getAllowModeOverride, getAllowModeOverrideString
<1> QED BY <1>1, <1>4, <1>7, <1>8, <1>9

(* If the reference to a pool can be read at a route it can be read at every *)
(* cluster that wants the pool.                                              *)
LEMMA ReadAlike ==
    ASSUME InputOK, HookInv, todo = {}, MetadataPresent = {TRUE},
           NEW x \in Hooked, NEW y \in Hooked, NEW p \in Pools,
           Wants(x) = {p}, Wants(y) = {p}, HasPoolAt(x)
    PROVE  HasPoolAt(y)
<1>1. present[x] /\ present[y]
  BY DEF InputOK
<1>2. FreshMetadata[x] = <<>> /\ FreshMetadata[y] = <<>>
  BY <1>1 DEF FreshMetadata
<1>3. /\ Reference(x) = buildEPPMetadata(FreshMetadata[x], p)
      /\ Reference(y) = buildEPPMetadata(FreshMetadata[y], p)
  BY ReferenceOfOne
<1>4. metadata[x] = Reference(x) /\ metadata[y] = Reference(y)
  BY DEF HookInv
<1>5. metadata[x] = metadata[y]
  BY <1>2, <1>3, <1>4
<1> QED BY <1>5 DEF HasPoolAt, PoolAt

(* When metadata arrives: the picker filter of a route, after the trip of    *)
(* its pool through the metadata string, has the declared port if that is    *)
(* valid and the declared modes, and the picker's clusters, which            *)
(* PostTranslateModify builds from the metadata of other resources, have the *)
(* same port.                                                                *)
THEOREM PickersStayAsDeclared ==
    ASSUME MetadataPresent = {TRUE}
    PROVE  Spec => []PickersAreAsDeclared
<1>1. ServerInv => PickersAreAsDeclared
  <2> SUFFICES ASSUME ServerInv, Done, NEW l \in Listeners, NEW ch \in ChainNames,
                      NEW r \in Routes, Serves(l, ch, r),
                      NEW f \in Pickers(l, ch, r), NEW s, s = spec[f.name]
               PROVE  /\ f.port = EffectivePort(s.port)
                      /\ f.mode = "BUFFERED" <=> s.mode = "buffered"
                      /\ f.override <=> s.override = "true"
                      /\ {c.port : c \in {d \in eppClusters : d.name = f.name}}
                            = {f.port}
    BY DEF PickersAreAsDeclared
  <2>1. todo = {} /\ InputOK /\ HookInv
    BY DEF ServerInv, PatchInv, Done
  <2>2. PICK p \in Pools :
          /\ HasPoolAt(r) /\ Wanted(r) = {p}
          /\ f = buildInferencePoolHTTPFilter(Declared(p))
    BY PickersAre
  <2>3. f.name = p /\ f.port = portForInferencePool(Declared(p).port)
    BY <2>1, <2>2, DeclaredFilter
  <2>4. /\ f.port = EffectivePort(s.port)
        /\ f.mode = "BUFFERED" <=> s.mode = "buffered"
        /\ f.override <=> s.override = "true"
    <3>1. s = spec[p]
      BY <2>3
    <3> QED BY <2>1, <2>2, <3>1, DeclaredFilter
  <2>5. ASSUME NEW d \in eppClusters, d.name = f.name PROVE d.port = f.port
    <3>1. PICK x \in Rules, q \in Pools :
            d.name = q /\ d.port = portForInferencePool(Declared(q).port)
      BY ClustersAre
    <3>2. q = p
      BY <2>3, <2>5, <3>1
    <3> QED BY <2>3, <3>1, <3>2, Zenon
  <2>6. PICK u : u = ruleOf[r]
    OBVIOUS
  <2>7. /\ u \in Rules /\ u \in Hooked /\ r \in Hooked
        /\ Wants(r) = {p} /\ Wants(u) = {p}
    BY <2>1, <2>2, <2>6, NamesAssumption
       DEF Wants, Wanted, RuleOf, InputOK, Hooked
  <2>8. HasPoolAt(u)
    BY <2>1, <2>2, <2>7, ReadAlike
  <2>9. PoolAt(u).name = p
    BY <2>1, <2>7, <2>8, PoolRead
  <2>10. PICK d : d = buildExtProcClusterForInferencePoolEndpointPicker(u, PoolAt(u))
    OBVIOUS
  <2>11. d \in eppClusters
    BY <2>7, <2>8, <2>10
       DEF ServerInv, PatchInv, Done, buildClustersForInferencePoolEndpointPickers
  <2>12. d.name = p
    BY <2>9, <2>10 DEF buildExtProcClusterForInferencePoolEndpointPicker
  <2>13. {c.port : c \in {e \in eppClusters : e.name = f.name}} = {f.port}
    BY <2>3, <2>5, <2>11, <2>12
  <2> QED BY <2>4, <2>13
<1> QED BY <1>1, ServerInvHolds, PTL
=============================================================================
