------------------------- MODULE ConfigClientProofs -------------------------
(* Proofs about ConfigClient, for any namespaces, readers, bounds and any of *)
(* the types of the tables.                                                  *)
EXTENDS ConfigClient, TLAPS, SequenceTheorems

Objects == [rv : Nat, live : BOOLEAN, spec : Nat, status : Nat]

(* A copy of an object, with the slot it was read from or announced for.     *)
Copies == [slot : Slots, obj : Objects]

ClientTypes ==
    /\ kind \in Kinds
    /\ edits \in Nat
    /\ api \in [Slots -> Objects] /\ cache \in [Slots -> Objects]
    /\ events \in Seq(Copies)
    /\ copies \in [Readers -> Copies \cup {None}]

(* A type without a status operation has no status.                          *)
StatusWritten(x) == Case(updateStatusCalls, kind) = {} => x.status = 0

(* Nothing that is held is newer than the last write.                        *)
HeldInv ==
    \A s \in Slots : \A x \in Held(s) : x.rv <= edits /\ StatusWritten(x)

ClientInv == ClientTypes /\ OneVersionOneContent /\ HeldInv

-----------------------------------------------------------------------------
(* The tables                                                              *)

(* What two parts joined answer for an entry of one of them.                 *)
LEMMA JoinedEntries ==
    ASSUME NEW f, NEW g, NEW k
    PROVE  /\ k \in DOMAIN f => /\ k \in DOMAIN Joined(f, g)
                               /\ Joined(f, g)[k] = f[k]
           /\ k \in DOMAIN g /\ k \notin DOMAIN f =>
                 k \in DOMAIN Joined(f, g) /\ Joined(f, g)[k] = g[k]
           /\ k \notin DOMAIN f /\ k \notin DOMAIN g =>
                 k \notin DOMAIN Joined(f, g)
BY DEF Joined

(* translationMap takes the status of every type of the store but            *)
(* ReferenceGrant.                                                           *)
LEMMA StoreTranslations ==
    ASSUME NEW k \in PilotStore, k # "ReferenceGrant"
    PROVE  "status" \in translationMap[k]
<1> DEFINE f == Joined(translateBtoE, translateEtoK)
           g == Joined(translateNtoS, translateTtoX)
<1>0. translationMap = Joined(f, g)
  BY DEF translationMap
<1>1. k \in {"BackendTLSPolicy", "EnvoyFilter", "GRPCRoute", "GatewayClass",
             "HTTPRoute", "KubernetesGateway", "WasmPlugin", "InferencePool"}
  BY DEF PilotStore, GatewayAPI, pilotStableGatewayAPI
<1>2. CASE k = "BackendTLSPolicy"
  <2>1. k \in DOMAIN translateBtoE /\ "status" \in translateBtoE[k]
    BY <1>2 DEF translateBtoE, SpecAndStatus
  <2>2. k \in DOMAIN f /\ f[k] = translateBtoE[k]
    BY <2>1, JoinedEntries
  <2> HIDE DEF f, g
  <2> QED BY <1>0, <2>1, <2>2, JoinedEntries
<1>3. CASE k = "WasmPlugin"
  <2>1. k \in DOMAIN translateTtoX /\ "status" \in translateTtoX[k]
    BY <1>3 DEF translateTtoX, SpecAndStatus
  <2>2. /\ k \notin DOMAIN translateBtoE /\ k \notin DOMAIN translateEtoK
        /\ k \notin DOMAIN translateNtoS
    BY <1>3 DEF translateBtoE, translateEtoK, translateNtoS
  <2>3. k \notin DOMAIN f /\ k \in DOMAIN g /\ g[k] = translateTtoX[k]
    BY <2>1, <2>2, JoinedEntries
  <2> HIDE DEF f, g
  <2> QED BY <1>0, <2>1, <2>3, JoinedEntries
<1>4. CASE k # "BackendTLSPolicy" /\ k # "WasmPlugin"
  <2>1. k \in DOMAIN translateEtoK /\ "status" \in translateEtoK[k]
    BY <1>1, <1>4 DEF translateEtoK, SpecAndStatus
  <2>2. k \notin DOMAIN translateBtoE
    BY <1>1, <1>4 DEF translateBtoE
  <2>3. k \in DOMAIN f /\ f[k] = translateEtoK[k]
    BY <2>1, <2>2, JoinedEntries
  <2> HIDE DEF f, g
  <2> QED BY <1>0, <2>1, <2>3, JoinedEntries
<1> QED BY <1>2, <1>3, <1>4

(* updateStatus has no case for that one.                                    *)
LEMMA NoStatusCase == Case(updateStatusCalls, "ReferenceGrant") = {}
<1>1. \A v, p : /\ DOMAIN Namespaced(v, p) = DOMAIN p
               /\ DOMAIN ClusterWide(v, p) = DOMAIN p
  BY DEF Namespaced, ClusterWide
<1>2. \A f \in updateStatusCalls : "ReferenceGrant" \notin DOMAIN f
  BY <1>1 DEF updateStatusCalls
<1> QED BY <1>2 DEF Case

(* So what is read from the cache is what the cache holds.                   *)
LEMMA TranslateKeeps ==
    ASSUME kind \in PilotStore, NEW x \in Objects, StatusWritten(x)
    PROVE  Translate(x) = x
<1>1. CASE kind = "ReferenceGrant"
  <2>1. x.status = 0
    BY <1>1, NoStatusCase DEF StatusWritten
  <2> QED BY <2>1 DEF Translate, Objects
<1>2. CASE kind # "ReferenceGrant"
  <2>1. translationMap[kind] \cap {"status", "object"} # {}
    BY <1>2, StoreTranslations
  <2> QED BY <2>1 DEF Translate, Objects
<1> QED BY <1>1, <1>2

-----------------------------------------------------------------------------
(* What is held                                                            *)

(* The copies of a slot's object: at the server, in the cache, with a        *)
(* reader, in an event.                                                      *)
LEMMA HeldMembers ==
    ASSUME NEW s, NEW x
    PROVE  x \in Held(s) <=>
              \/ x = api[s] \/ x = cache[s]
              \/ \E r \in Readers : /\ copies[r] # None /\ copies[r].slot = s
                                    /\ x = copies[r].obj
              \/ \E i \in DOMAIN events : /\ events[i].slot = s
                                          /\ x = events[i].obj
BY DEF Held

(* The same, after a step.                                                   *)
LEMMA HeldMembersNext ==
    ASSUME NEW s, NEW x
    PROVE  x \in Held(s)' <=>
              \/ x = api'[s] \/ x = cache'[s]
              \/ \E r \in Readers : /\ copies'[r] # None /\ copies'[r].slot = s
                                    /\ x = copies'[r].obj
              \/ \E i \in DOMAIN events' : /\ events'[i].slot = s
                                           /\ x = events'[i].obj
BY DEF Held

(* All of it is an object.                                                   *)
LEMMA HeldObjects ==
    ASSUME ClientTypes, NEW s \in Slots, NEW x \in Held(s)
    PROVE  x \in Objects
<1>1. api[s] \in Objects /\ cache[s] \in Objects
  BY DEF ClientTypes
<1>2. \A r \in Readers : copies[r] # None => copies[r].obj \in Objects
  BY DEF ClientTypes, Copies
<1>3. \A i \in DOMAIN events : events[i].obj \in Objects
  <2>1. \A i \in DOMAIN events : events[i] \in Copies
    BY LenProperties, ElementOfSeq DEF ClientTypes
  <2> QED BY <2>1 DEF Copies
<1> QED BY <1>1, <1>2, <1>3, HeldMembers

(* A step that makes no write and gets nothing new keeps what is said of the *)
(* things that are held.                                                     *)
LEMMA NothingNewIsHeld ==
    ASSUME OneVersionOneContent, HeldInv, UNCHANGED <<kind, api, edits>>,
           \A s \in Slots : Held(s)' \subseteq Held(s)
    PROVE  OneVersionOneContent' /\ HeldInv'
<1>1. Slots' = Slots
  OBVIOUS
<1>2. OneVersionOneContent'
  BY DEF OneVersionOneContent
<1>3. HeldInv'
  BY DEF HeldInv, StatusWritten
<1> QED BY <1>2, <1>3

-----------------------------------------------------------------------------
(* Reading                                                                 *)

(* The events in the queue belong to slots.                                  *)
LEMMA EventTypes ==
    ASSUME ClientTypes
    PROVE  /\ Len(events) \in Nat /\ DOMAIN events = 1 .. Len(events)
           /\ \A i \in DOMAIN events : /\ events[i] \in Copies
                                       /\ events[i].slot \in Slots
                                       /\ events[i].obj \in Objects
<1>1. /\ Len(events) \in Nat /\ DOMAIN events = 1 .. Len(events)
      /\ \A i \in DOMAIN events : events[i] \in Copies
  BY LenProperties, ElementOfSeq DEF ClientTypes
<1> QED BY <1>1 DEF Copies

(* A new list takes the cache to what the server has and drops the events.   *)
LEMMA ListKeeps ==
    ASSUME ClientInv, List
    PROVE  ClientInv'
<1>1. /\ UNCHANGED <<kind, api, edits, copies>> /\ events' = <<>>
      /\ cache' = api \/ cache' = cache
  BY DEF List
<1>2. ClientTypes'
  BY <1>1 DEF ClientInv, ClientTypes
<1>3. DOMAIN events' = {}
  BY <1>1
<1>4. \A s \in Slots : Held(s)' \subseteq Held(s)
  BY <1>1, <1>3, HeldMembers, HeldMembersNext
<1>5. OneVersionOneContent' /\ HeldInv'
  BY <1>1, <1>4, NothingNewIsHeld DEF ClientInv
<1> QED BY <1>2, <1>5 DEF ClientInv

(* An event takes the cache of its slot forward.                             *)
LEMMA WatchKeeps ==
    ASSUME ClientInv, Watch
    PROVE  ClientInv'
<1> DEFINE e == events[1]
<1>0. ClientTypes
  BY DEF ClientInv
<1>1. /\ UNCHANGED <<kind, api, edits, copies>> /\ events # <<>>
      /\ cache' = [cache EXCEPT ![Head(events).slot] = Head(events).obj]
      /\ events' = Tail(events)
  BY DEF Watch
<1>2. /\ Len(events) \in Nat \ {0} /\ DOMAIN events = 1 .. Len(events)
      /\ Head(events) = e /\ 1 \in DOMAIN events
  BY <1>0, <1>1, EmptySeq, EventTypes DEF ClientTypes
<1>3. /\ events' \in Seq(Copies) /\ Len(events') = Len(events) - 1
      /\ DOMAIN events' = 1 .. Len(events) - 1
      /\ \A i \in 1 .. Len(events) - 1 : events'[i] = events[i + 1]
  <2>1. /\ Tail(events) \in Seq(Copies) /\ Len(Tail(events)) = Len(events) - 1
        /\ \A i \in 1 .. Len(events) - 1 : Tail(events)[i] = events[i + 1]
    BY <1>0, <1>1, <1>2, HeadTailProperties DEF ClientTypes
  <2>2. DOMAIN Tail(events) = 1 .. Len(Tail(events))
    BY <2>1, LenProperties
  <2> QED BY <1>1, <2>1, <2>2
<1>4. e.slot \in Slots /\ e.obj \in Objects
  BY <1>0, <1>2, EventTypes
<1>5. \A s \in Slots : cache'[s] = IF s = e.slot THEN e.obj ELSE cache[s]
  BY <1>0, <1>1, <1>2, <1>4 DEF ClientTypes
<1>6. cache' \in [Slots -> Objects]
  BY <1>0, <1>1, <1>2, <1>4 DEF ClientTypes
<1>7. ClientTypes'
  BY <1>0, <1>1, <1>3, <1>6 DEF ClientTypes
<1>8. ASSUME NEW s \in Slots
      PROVE  Held(s)' \subseteq Held(s)
  <2> SUFFICES ASSUME NEW x \in Held(s)' PROVE x \in Held(s)
    OBVIOUS
  <2>1. CASE x = cache'[s]
    BY <1>2, <1>5, <2>1, HeldMembers
  <2>2. CASE \E i \in DOMAIN events' : events'[i].slot = s /\ x = events'[i].obj
    <3>1. PICK i \in 1 .. Len(events) - 1 :
              events[i + 1].slot = s /\ x = events[i + 1].obj
      BY <1>3, <2>2
    <3>2. i + 1 \in DOMAIN events
      BY <1>2
    <3> QED BY <3>1, <3>2, HeldMembers
  <2>3. CASE \/ x = api'[s]
             \/ \E r \in Readers : /\ copies'[r] # None /\ copies'[r].slot = s
                                   /\ x = copies'[r].obj
    BY <1>1, <2>3, HeldMembers
  <2> QED BY <2>1, <2>2, <2>3, HeldMembersNext
<1>9. OneVersionOneContent' /\ HeldInv'
  BY <1>1, <1>8, NothingNewIsHeld DEF ClientInv
<1> QED BY <1>7, <1>9 DEF ClientInv

(* A reader gets a copy of what the cache or the server holds.               *)
LEMMA CopyKeeps ==
    ASSUME ClientInv, NEW r \in Readers, NEW s \in Slots, NEW x \in Held(s),
           copies' = [copies EXCEPT ![r] = [slot |-> s, obj |-> x]],
           UNCHANGED <<kind, api, edits, events, cache>>
    PROVE  ClientInv'
<1> DEFINE c == [slot |-> s, obj |-> x]
<1>1. c \in Copies
  BY HeldObjects DEF Copies, ClientInv
<1>2. \A v \in Readers : copies'[v] = IF v = r THEN c ELSE copies[v]
  BY DEF ClientInv, ClientTypes
<1>3. ClientTypes'
  <2>1. copies' \in [Readers -> Copies \cup {None}]
    BY <1>1 DEF ClientInv, ClientTypes
  <2> QED BY <2>1 DEF ClientInv, ClientTypes
<1>4. \A t \in Slots : Held(t)' \subseteq Held(t)
  <2> SUFFICES ASSUME NEW t \in Slots, NEW y \in Held(t)'
               PROVE  y \in Held(t)
    OBVIOUS
  <2>1. CASE \E v \in Readers : /\ copies'[v] # None /\ copies'[v].slot = t
                                /\ y = copies'[v].obj
    <3>1. PICK v \in Readers : /\ copies'[v] # None /\ copies'[v].slot = t
                               /\ y = copies'[v].obj
      BY <2>1
    <3>2. CASE v = r
      <4>1. c.slot = s /\ c.obj = x
        OBVIOUS
      <4> HIDE DEF c
      <4> QED BY <1>2, <3>1, <3>2, <4>1
    <3>3. CASE v # r
      BY <1>2, <3>1, <3>3, HeldMembers
    <3> QED BY <3>2, <3>3
  <2>2. CASE \/ y = api'[t] \/ y = cache'[t]
             \/ \E i \in DOMAIN events' : events'[i].slot = t /\ y = events'[i].obj
    BY <2>2, HeldMembers
  <2> QED BY <2>1, <2>2, HeldMembersNext
<1>5. OneVersionOneContent' /\ HeldInv'
  BY <1>4, NothingNewIsHeld DEF ClientInv
<1> QED BY <1>3, <1>5 DEF ClientInv

(* A reader of the cache holds what the cache holds.                         *)
LEMMA ReadKeeps ==
    ASSUME ClientInv, NEW r \in Readers, NEW s \in Slots, Read(r, s)
    PROVE  ClientInv'
<1>1. cache[s] \in Objects /\ cache[s] \in Held(s)
  BY HeldMembers DEF ClientInv, ClientTypes
<1>2. StatusWritten(cache[s])
  BY <1>1 DEF ClientInv, HeldInv
<1>3. Translate(cache[s]) = cache[s]
  BY <1>1, <1>2, TranslateKeeps DEF Read
<1>4. /\ copies' = [copies EXCEPT ![r] = [slot |-> s, obj |-> cache[s]]]
      /\ UNCHANGED <<kind, api, edits, events, cache>>
  BY <1>3 DEF Read
<1> QED BY <1>1, <1>4, CopyKeeps

(* A reader of a live object holds what the server has.                      *)
LEMMA ReadLiveKeeps ==
    ASSUME ClientInv, NEW r \in Readers, NEW ns \in Namespaces,
           ReadLive(r, ns)
    PROVE  ClientInv'
<1>1. PICK call : /\ copies' = [copies EXCEPT ![r] =
                                  [slot |-> Slot(call, ns),
                                   obj |-> api[Slot(call, ns)]]]
                  /\ UNCHANGED <<kind, api, edits, events, cache>>
  BY DEF ReadLive
<1>2. Slot(call, ns) \in Slots
  BY DEF Slot, Slots
<1>3. api[Slot(call, ns)] \in Held(Slot(call, ns))
  BY HeldMembers
<1> QED BY <1>1, <1>2, <1>3, CopyKeeps

-----------------------------------------------------------------------------
(* Writing                                                                 *)

(* What may be stored.                                                       *)
Storable(x) == x \in Objects /\ StatusWritten(x)

(* A write is newer than everything that is held.                            *)
LEMMA StoreKeeps ==
    ASSUME ClientInv, NEW s \in Slots, NEW obj, Storable(obj),
           Store(s, obj)
    PROVE  ClientInv'
<1>x. PICK x : x = [obj EXCEPT !.rv = edits + 1]
  OBVIOUS
<1> DEFINE e == [slot |-> s, obj |-> x]
<1>0. ClientTypes /\ OneVersionOneContent /\ HeldInv
  BY DEF ClientInv
<1>1. /\ UNCHANGED <<kind, cache, copies>>
      /\ edits' = edits + 1 /\ edits \in Nat
      /\ api' = [api EXCEPT ![s] = x]
      /\ events' = Append(events, e) \/ events' = events
  BY <1>0, <1>x DEF Store, ClientTypes
<1>2. /\ x \in Objects /\ x.rv = edits + 1 /\ e \in Copies
      /\ e.slot = s /\ e.obj = x
  BY <1>1, <1>x DEF Storable, Objects, Copies
<1>3. StatusWritten(x)'
  BY <1>1, <1>x DEF Storable, StatusWritten, Objects
<1>4. \A t \in Slots : api'[t] = IF t = s THEN x ELSE api[t]
  BY <1>0, <1>1 DEF ClientTypes
<1> HIDE DEF e
<1>5. /\ events' \in Seq(Copies)
      /\ \A i \in DOMAIN events' :
            \/ i \in DOMAIN events /\ events'[i] = events[i]
            \/ events'[i] = e
  <2>1. CASE events' = events
    <3>1. DOMAIN events = 1 .. Len(events)
      BY <1>0, EventTypes
    <3> QED BY <1>0, <2>1 DEF ClientTypes
  <2>2. CASE events' = Append(events, e)
    <3>1. /\ events' \in Seq(Copies) /\ Len(events') = Len(events) + 1
          /\ \A i \in 1 .. Len(events) : events'[i] = events[i]
          /\ events'[Len(events) + 1] = e
      BY <1>0, <1>2, <2>2, AppendProperties DEF ClientTypes
    <3>2. /\ DOMAIN events = 1 .. Len(events) /\ Len(events) \in Nat
          /\ DOMAIN events' = 1 .. Len(events) + 1
      BY <1>0, <3>1, EventTypes, LenProperties
    <3> QED BY <3>1, <3>2
  <2> QED BY <1>1, <2>1, <2>2
<1>6. ClientTypes'
  <2>1. api' \in [Slots -> Objects]
    BY <1>0, <1>1, <1>2 DEF ClientTypes
  <2> QED BY <1>0, <1>1, <1>5, <2>1 DEF ClientTypes
<1>7. ASSUME NEW t \in Slots, NEW y \in Held(t)'
      PROVE  y \in Held(t) \/ (t = s /\ y = x)
  <2>1. CASE y = api'[t] \/ y = cache'[t]
    BY <1>1, <1>4, <2>1, HeldMembers
  <2>2. CASE \E r \in Readers : /\ copies'[r] # None /\ copies'[r].slot = t
                                /\ y = copies'[r].obj
    BY <1>1, <2>2, HeldMembers
  <2>3. CASE \E i \in DOMAIN events' : events'[i].slot = t /\ y = events'[i].obj
    <3>1. PICK i \in DOMAIN events' : events'[i].slot = t /\ y = events'[i].obj
      BY <2>3
    <3>2. CASE i \in DOMAIN events /\ events'[i] = events[i]
      BY <3>1, <3>2, HeldMembers
    <3>3. CASE events'[i] = e
      BY <1>2, <3>1, <3>3
    <3> QED BY <1>5, <3>2, <3>3
  <2> QED BY <2>1, <2>2, <2>3, HeldMembersNext
<1>8. ASSUME NEW t \in Slots, NEW y \in Held(t)
      PROVE  /\ y \in Objects /\ y.rv \in Nat /\ y.rv <= edits
             /\ StatusWritten(y)
  <2>1. y \in Objects
    BY <1>0, HeldObjects
  <2> QED BY <1>0, <2>1 DEF HeldInv, Objects
<1>9. OneVersionOneContent'
  <2> SUFFICES ASSUME NEW t \in Slots, NEW y \in Held(t)', NEW z \in Held(t)',
                      y.rv = z.rv
               PROVE  y = z
    BY DEF OneVersionOneContent
  <2>1. CASE y \in Held(t) /\ z \in Held(t)
    BY <1>0, <2>1 DEF OneVersionOneContent
  <2>2. CASE y \in Held(t) /\ z = x
    BY <1>1, <1>2, <1>8, <2>2
  <2>3. CASE y = x /\ z \in Held(t)
    BY <1>1, <1>2, <1>8, <2>3
  <2> QED BY <1>7, <2>1, <2>2, <2>3
<1>10. HeldInv'
  <2> SUFFICES ASSUME NEW t \in Slots, NEW y \in Held(t)'
               PROVE  y.rv <= edits' /\ StatusWritten(y)'
    BY DEF HeldInv
  <2>1. CASE y = x
    BY <1>1, <1>2, <1>3, <2>1
  <2>2. CASE y \in Held(t)
    BY <1>1, <1>8, <2>2 DEF StatusWritten
  <2> QED BY <1>7, <2>1, <2>2
<1> QED BY <1>6, <1>9, <1>10 DEF ClientInv

(* Whatever a call writes may be stored: a new object, the server's with     *)
(* another spec or, where the type has the operation, another status.        *)
LEMMA WriteStores ==
    ASSUME ClientInv, NEW ns \in Namespaces, Write(ns)
    PROVE  \E s \in Slots : \E x : Storable(x) /\ Store(s, x)
<1>0. edits \in Nat /\ edits + 1 \in Nat
  BY DEF ClientInv, ClientTypes
<1>1. \A call : Slot(call, ns) \in Slots
  BY DEF Slot, Slots
<1>2. ASSUME NEW s \in Slots
      PROVE  api[s] \in Objects /\ StatusWritten(api[s])
  <2>1. api[s] \in Held(s)
    BY HeldMembers
  <2> QED BY <2>1 DEF ClientInv, ClientTypes, HeldInv
<1>3. CASE create(ns) \/ typedCreate(ns)
  <2>1. PICK call : Store(Slot(call, ns), New)
    BY <1>3 DEF create, typedCreate
  <2>2. Storable(New)
    BY <1>0 DEF New, Storable, Objects, StatusWritten
  <2> QED BY <1>1, <2>1, <2>2
<1>4. CASE update(ns) \/ patch(ns) \/ typedUpdate(ns)
  <2>1. PICK call : Store(Slot(call, ns),
                          [api[Slot(call, ns)] EXCEPT !.spec = edits + 1])
    BY <1>4 DEF update, patch, typedUpdate
  <2>2. Storable([api[Slot(call, ns)] EXCEPT !.spec = edits + 1])
    BY <1>0, <1>1, <1>2 DEF Storable, Objects, StatusWritten
  <2> QED BY <1>1, <2>1, <2>2
<1>5. CASE updateStatus(ns)
  <2>1. PICK call \in Case(updateStatusCalls, kind) :
            Store(Slot(call, ns),
                  [api[Slot(call, ns)] EXCEPT !.status = edits + 1])
    BY <1>5 DEF updateStatus
  <2>2. Storable([api[Slot(call, ns)] EXCEPT !.status = edits + 1])
    BY <1>0, <1>1, <1>2 DEF Storable, Objects, StatusWritten
  <2> QED BY <1>1, <2>1, <2>2
<1>6. CASE delete(ns)
  <2>1. PICK call : Store(Slot(call, ns), Absent(0))
    BY <1>6 DEF delete
  <2>2. Storable(Absent(0))
    BY DEF Absent, Storable, Objects, StatusWritten
  <2> QED BY <1>1, <2>1, <2>2
<1> QED BY <1>3, <1>4, <1>5, <1>6 DEF Write

-----------------------------------------------------------------------------
(* The invariant                                                           *)

(* The invariant holds at the start: nothing has been written.               *)
LEMMA ClientInvInit == Init => ClientInv
<1> SUFFICES ASSUME Init PROVE ClientInv
  OBVIOUS
<1>1. /\ Absent(0) \in Objects /\ Absent(0).rv = 0
      /\ StatusWritten(Absent(0))
  BY DEF Absent, Objects, StatusWritten
<1>2. ClientTypes
  BY <1>1, EmptySeq DEF Init, ClientTypes
<1>3. DOMAIN events = {} /\ \A r \in Readers : copies[r] = None
  BY DEF Init
<1>4. \A s \in Slots : api[s] = Absent(0) /\ cache[s] = Absent(0)
  BY DEF Init
<1>5. \A s \in Slots : \A x \in Held(s) : x = Absent(0)
  BY <1>3, <1>4, HeldMembers
<1>6. OneVersionOneContent
  BY <1>5 DEF OneVersionOneContent
<1>7. HeldInv
  BY <1>1, <1>5 DEF HeldInv, Init
<1> QED BY <1>2, <1>6, <1>7 DEF ClientInv

(* The steps that neither read nor write.                                    *)
LEMMA QuietKeeps ==
    ASSUME ClientInv, BreakWatch \/ Run \/ Stop \/ UNCHANGED vars
    PROVE  ClientInv'
<1>1. /\ UNCHANGED <<kind, api, edits, cache, copies>>
      /\ events' = events \/ events' = <<>>
  BY DEF BreakWatch, Run, Stop, vars
<1>2. CASE events' = events
  BY <1>1, <1>2
    DEF ClientInv, ClientTypes, OneVersionOneContent, HeldInv, Held,
        StatusWritten
<1>3. CASE events' = <<>>
  <2>1. DOMAIN events' = {}
    BY <1>3
  <2>2. ClientTypes'
    BY <1>1, <1>3, EmptySeq DEF ClientInv, ClientTypes
  <2>3. \A s \in Slots : Held(s)' \subseteq Held(s)
    BY <1>1, <2>1, HeldMembers, HeldMembersNext
  <2>4. OneVersionOneContent' /\ HeldInv'
    BY <1>1, <2>3, NothingNewIsHeld DEF ClientInv
  <2> QED BY <2>2, <2>4 DEF ClientInv
<1> QED BY <1>1, <1>2, <1>3

(* Every step keeps it.                                                      *)
LEMMA ClientInvStep == ClientInv /\ [Next]_vars => ClientInv'
<1> SUFFICES ASSUME ClientInv, [Next]_vars PROVE ClientInv'
  OBVIOUS
<1>1. CASE List
  BY <1>1, ListKeeps
<1>2. CASE Watch
  BY <1>2, WatchKeeps
<1>3. CASE BreakWatch \/ Run \/ Stop \/ UNCHANGED vars
  BY <1>3, QuietKeeps
<1>4. CASE \E r \in Readers : \/ \E s \in Slots : Read(r, s)
                              \/ \E ns \in Namespaces : ReadLive(r, ns)
  BY <1>4, ReadKeeps, ReadLiveKeeps
<1>5. CASE \E ns \in Namespaces : Write(ns)
  BY <1>5, WriteStores, StoreKeeps
<1> QED BY <1>1, <1>2, <1>3, <1>4, <1>5 DEF Next

(* So it holds in every reachable state.                                     *)
LEMMA ClientInvHolds == Spec => []ClientInv
BY ClientInvInit, ClientInvStep, PTL DEF Spec

(* Whatever a caller may do through crdclient, what is held with a version,  *)
(* in the cache, in an event, by a reader of the cache (through              *)
(* translationMap) or of the server, is what the server had with it          *)
(* (pkg/config/kube/crdclient/types.gen.go).                                 *)
THEOREM VersionsNameContents == Spec => []OneVersionOneContent
<1>1. ClientInv => OneVersionOneContent
  BY DEF ClientInv
<1> QED BY <1>1, ClientInvHolds, PTL
=============================================================================
