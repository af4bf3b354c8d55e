---------------------------- MODULE ConfigClient ----------------------------
(***************************************************************************)
(* The configuration store over the API server: an informer that lists and *)
(* watches one resource type into a cache (kubeclient), the store's life   *)
(* (crdclient.Client), callers that write through the generated operations *)
(* of crdclient and readers that take a configuration from the cache or an *)
(* object from the server.  The type is any of the tables'.                *)
(*                                                                         *)
(* The repository has the operations and no caller of them, so a caller    *)
(* may call anything at any time with any content.  Every write has a      *)
(* number; an object carries the number of its last write (its             *)
(* resourceVersion) and of the writes that set its spec and its status.    *)
(***************************************************************************)
EXTENDS ConfigTables, Sequences

CONSTANTS
    Kinds,        \* the types that are tried, a subset of All
    Namespaces,
    Readers,
    MaxEdits,     \* writes in a behaviour
    MaxBreaks     \* times the watch is lost

ASSUME ClientAssumption ==
    /\ Kinds \subseteq All /\ "" \notin Namespaces
    /\ MaxEdits \in Nat /\ MaxBreaks \in Nat

VARIABLES
    kind,     \* the type of this behaviour
    api,      \* the object of each slot of the resource gvr[kind]
    edits,    \* writes so far
    events,   \* watch events under way to the informer
    listed,   \* "never", "yes" or "broken": the informer's list and watch
    cache,    \* the informer's store
    copies,   \* what each reader has read, None before
    phase,    \* of the store: "new", "running", "stopped"
    breaks

vars == <<kind, api, edits, events, listed, cache, copies, phase, breaks>>

(* An object without a namespace has the slot "".                           *)
Slots == Namespaces \cup {""}

Slot(call, ns) == IF call.namespaced THEN ns ELSE ""

Absent(n) == [rv |-> n, live |-> FALSE, spec |-> 0, status |-> 0]

Init ==
    /\ kind \in Kinds
    /\ api = [s \in Slots |-> Absent(0)]
    /\ edits = 0
    /\ events = <<>>
    /\ listed = "never"
    /\ cache = [s \in Slots |-> Absent(0)]
    /\ copies = [r \in Readers |-> None]
    /\ phase = "new"
    /\ breaks = 0

-----------------------------------------------------------------------------
(* The informer.  It sees the objects of the type only if the client its    *)
(* case calls is the one of their resource.                                 *)
Reaches(call) == call.resource = gvr[kind]

Observed == \E call \in Case(getInformerFiltered, kind) : Reaches(call)

List ==
    /\ phase # "stopped" /\ listed # "yes"
    /\ listed' = "yes"
    /\ cache' = IF Observed THEN api ELSE cache
    /\ events' = <<>>
    /\ UNCHANGED <<kind, api, edits, copies, phase, breaks>>

Watch ==
    /\ phase # "stopped" /\ listed = "yes" /\ events # <<>>
    /\ cache' = [cache EXCEPT ![Head(events).slot] = Head(events).obj]
    /\ events' = Tail(events)
    /\ UNCHANGED <<kind, api, edits, listed, copies, phase, breaks>>

(* The connection of the watch is lost with what it had not delivered.      *)
BreakWatch ==
    /\ listed = "yes" /\ breaks < MaxBreaks
    /\ listed' = "broken" /\ events' = <<>> /\ breaks' = breaks + 1
    /\ UNCHANGED <<kind, api, edits, cache, copies, phase>>

(* The store: Run waits until every informer has listed once, then until    *)
(* it is stopped; stopping ends the informers.                              *)
informerSynced == listed # "never"

Run ==
    /\ phase = "new" /\ informerSynced
    /\ phase' = "running"
    /\ UNCHANGED <<kind, api, edits, events, listed, cache, copies, breaks>>

Stop ==
    /\ phase # "stopped"
    /\ phase' = "stopped"
    /\ UNCHANGED <<kind, api, edits, events, listed, cache, copies, breaks>>

-----------------------------------------------------------------------------
(* A configuration is read from the cache through translationMap.           *)
Translate(obj) ==
    [obj EXCEPT !.status =
        IF translationMap[kind] \cap {"status", "object"} # {}
        THEN obj.status ELSE 0]

Read(r, s) ==
    /\ kind \in PilotStore
    /\ cache[s].live
    /\ copies' = [copies EXCEPT ![r] = [slot |-> s,
                                        obj |-> Translate(cache[s])]]
    /\ UNCHANGED <<kind, api, edits, events, listed, cache, phase, breaks>>

(* A typed object is read from the server.                                  *)
ReadLive(r, ns) ==
    \E type \in GoType(kind) : \E call \in GoCase(GetClient, type) :
        /\ Reaches(call) /\ api[Slot(call, ns)].live
        /\ copies' = [copies EXCEPT ![r] = [slot |-> Slot(call, ns),
                                            obj |-> api[Slot(call, ns)]]]
        /\ UNCHANGED <<kind, api, edits, events, listed, cache, phase,
                       breaks>>

-----------------------------------------------------------------------------
(* What the API server does (external): a write gets the next number and    *)
(* is announced to the watch; a status lies behind its own subresource.  A  *)
(* call it refuses (a version that is not the object's, an object that is   *)
(* there already or is not there) changes nothing.                          *)
Store(s, obj) ==
    /\ edits < MaxEdits
    /\ edits' = edits + 1
    /\ api' = [api EXCEPT ![s] = [obj EXCEPT !.rv = edits + 1]]
    /\ events' = IF listed = "yes" /\ Observed
                 THEN Append(events, [slot |-> s, obj |-> api'[s]])
                 ELSE events
    /\ UNCHANGED <<kind, listed, cache, copies, phase, breaks>>

New == [rv |-> 0, live |-> TRUE, spec |-> edits + 1, status |-> 0]

create(ns) ==
    \E call \in Case(createCalls, kind) :
        /\ Reaches(call) /\ ~api[Slot(call, ns)].live
        /\ Store(Slot(call, ns), New)

(* The spec the caller gives, whole.                                        *)
update(ns) ==
    \E call \in Case(updateCalls, kind) :
        /\ Reaches(call) /\ api[Slot(call, ns)].live
        /\ Store(Slot(call, ns),
                 [api[Slot(call, ns)] EXCEPT !.spec = edits + 1])

updateStatus(ns) ==
    \E call \in Case(updateStatusCalls, kind) :
        /\ Reaches(call) /\ api[Slot(call, ns)].live
        /\ Store(Slot(call, ns),
                 [api[Slot(call, ns)] EXCEPT !.status = edits + 1])

(* What genPatchBytes makes of the two configurations, and what becomes of  *)
(* the spec by it, is not in the repository: a new spec, no status.         *)
patch(ns) ==
    \E call \in Case(patchCalls, kind) :
        /\ Reaches(call) /\ api[Slot(call, ns)].live
        /\ Store(Slot(call, ns),
                 [api[Slot(call, ns)] EXCEPT !.spec = edits + 1])

delete(ns) ==
    \E call \in Case(deleteCalls, kind) :
        /\ Reaches(call) /\ api[Slot(call, ns)].live
        /\ Store(Slot(call, ns), Absent(0))

(* The types crdclient has no operations for are written by the typed       *)
(* client of GetWriteClient.                                                *)
typedCreate(ns) ==
    \E type \in GoType(kind) : \E call \in GoCase(GetWriteClient, type) :
        /\ Case(createCalls, kind) = {}
        /\ Reaches(call) /\ ~api[Slot(call, ns)].live
        /\ Store(Slot(call, ns), New)

typedUpdate(ns) ==
    \E type \in GoType(kind) : \E call \in GoCase(GetWriteClient, type) :
        /\ Case(updateCalls, kind) = {}
        /\ Reaches(call) /\ api[Slot(call, ns)].live
        /\ Store(Slot(call, ns),
                 [api[Slot(call, ns)] EXCEPT !.spec = edits + 1])

-----------------------------------------------------------------------------
Write(ns) ==
    \/ create(ns) \/ update(ns) \/ updateStatus(ns) \/ patch(ns) \/ delete(ns)
    \/ typedCreate(ns) \/ typedUpdate(ns)

Next ==
    \/ List \/ Watch \/ BreakWatch \/ Run \/ Stop
    \/ \E r \in Readers :
          \/ \E s \in Slots : Read(r, s)
          \/ \E ns \in Namespaces : ReadLive(r, ns)
    \/ \E ns \in Namespaces : Write(ns)

Spec == Init /\ [][Next]_vars

(* The reflector of an informer lists again whenever its watch is lost and  *)
(* takes every event, as long as the store is not stopped.                  *)
FairSpec == Spec /\ WF_vars(List) /\ WF_vars(Watch)

-----------------------------------------------------------------------------
(* Properties.                                                              *)

(* The tables agree about the type: its names lead to one another, all of   *)
(* the clients reach the resource its schema names, in the scope its schema *)
(* and IsClusterScoped say; the older versions name the same resource;      *)
(* every type that is not built in has all the writing operations and only  *)
(* the types with a status have that one; every type of the store can be    *)
(* built, watched and translated, its status included.  The one exception   *)
(* is stated as it is: kind.FromString does not know the kind "Gateway" of  *)
(* KubernetesGateway.  The tables are constant, so the moment the store is  *)
(* built stands for all the others.                                         *)
TablesAgree ==
    edits = 0 /\ listed = "never" =>
        NamesAgree(kind) /\ ClientsAgree(kind) /\ StoreCanStart

(* What the server, the informer, its events and the readers hold of a slot. *)
Held(s) ==
    {api[s], cache[s]}
        \cup {copies[r].obj : r \in {x \in Readers :
                 copies[x] # None /\ copies[x].slot = s}}
        \cup {events[i].obj : i \in {j \in DOMAIN events :
                 events[j].slot = s}}

(* A resourceVersion names one content: whatever the informer, a watch      *)
(* event or a reader holds with a version is what the server had with that  *)
(* version, translated or not, so that a caller that hands its version to   *)
(* update or delete is answered for what it has read.                       *)
OneVersionOneContent ==
    \A s \in Slots : \A x, y \in Held(s) : x.rv = y.rv => x = y

(* Unless the store is stopped the cache comes to show what the server has  *)
(* (writes and lost watches are bounded): the informer watches the resource *)
(* that the operations of its type write.                                   *)
CacheCatchesUp == <>(phase = "stopped") \/ <>[](cache = api)
=============================================================================
