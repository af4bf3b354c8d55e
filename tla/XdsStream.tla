------------------------------ MODULE XdsStream ------------------------------
(***************************************************************************)
(* One stream of the discovery server (pkg/xds): Stream waits until the    *)
(* proxy is initialised and then serves requests and pushes, requests      *)
(* first; Receive reads the requests beside it and hands them over through *)
(* a channel of one place; a pusher hands events over through a channel    *)
(* without a place.  Functions the package calls but does not have         *)
(* (initConnection, processRequest, ProxyNeedsPush, cdsNeedsPush,          *)
(* sendPushes) are external: each may do what its callers allow.  The      *)
(* repository never sets RequestRateLimit and never calls CachesSynced or  *)
(* Initialize; a server that embeds the package may do so or not.          *)
(***************************************************************************)
EXTENDS Naturals, Sequences, FiniteSets

CONSTANTS
    Types,         \* the type URLs a client may ask for
    ClusterType,   \* the one InitDiscoveryServerGenerators registers
    MaxRequests    \* requests of a client

ASSUME StreamAssumption ==
    ClusterType \in Types /\ MaxRequests \in Nat \ {0}

VARIABLES
    ready,         \* serverReady
    limiter,       \* RequestRateLimit is set
    main,          \* where the goroutine of Stream is
    result,        \* how it ended
    receiver,      \* where the goroutine of Receive is
    client,        \* "up", or "gone" with its connection
    wire,          \* requests the client has sent and gRPC not yet delivered
    sent,          \* how many it has sent
    held,          \* the request Receive is handing over, or none
    reqChan,
    errorChan,
    processed,     \* requests that were processed, in order
    initialized,   \* the channel is closed
    generator,     \* the proxy has a generator of its own
    watched,       \* types the client asked for
    event,         \* the event of the pusher
    todo           \* types the push under way has still to send

vars == <<ready, limiter, main, result, receiver, client, wire, sent, held,
          reqChan, errorChan, processed, initialized, generator, watched, event, todo>>

receiverVars == <<receiver, held, reqChan, errorChan, wire>>
pushVars     == <<event, todo>>
setup        == <<ready, limiter, initialized, generator>>

Init ==
    /\ ready = FALSE /\ limiter \in BOOLEAN
    /\ main = "arrives" /\ result = "none"
    /\ receiver = "off"
    /\ client = "up" /\ wire = <<>> /\ sent = 0
    /\ held = <<>> /\ reqChan = <<>> /\ errorChan = <<>>
    /\ processed = <<>>
    /\ initialized = FALSE /\ generator = FALSE
    /\ watched = {}
    /\ event = "none" /\ todo = {}

-----------------------------------------------------------------------------
(* The client and the server around the stream.  CachesSynced is for the    *)
(* embedding server to call.                                                *)
CachesSynced ==
    /\ ~ready /\ ready' = TRUE
    /\ UNCHANGED <<limiter, main, result, receiverVars, client, sent,
                   processed, initialized, generator, watched, pushVars>>

ClientSends ==
    /\ client = "up" /\ main # "ended" /\ sent < MaxRequests
    /\ \E t \in Types :
          wire' = Append(wire, [number |-> sent + 1, type |-> t])
    /\ sent' = sent + 1
    /\ UNCHANGED <<setup, main, result, receiver, held, reqChan, errorChan,
                   client, processed, watched, pushVars>>

ClientLeaves ==
    /\ client = "up" /\ client' = "gone"
    /\ UNCHANGED <<setup, main, result, receiverVars, sent, processed,
                   watched, pushVars>>

(* initConnection (external) closes initialized and may give the proxy a    *)
(* generator.  Receive leaves the block for the first request empty, so it  *)
(* is again for another to call, or the stream waits for ever.              *)
Initialize ==
    /\ main # "arrives" /\ main # "ended" /\ ~initialized
    /\ initialized' = TRUE
    /\ generator' \in BOOLEAN
    /\ UNCHANGED <<ready, limiter, main, result, receiverVars, client, sent,
                   processed, watched, pushVars>>

(* The context of a stream is done when the client has left or the handler  *)
(* has returned.                                                            *)
ContextDone == client = "gone" \/ main = "ended"

-----------------------------------------------------------------------------
(* DiscoveryServer.Stream: a server that is not ready, or over its limit of *)
(* new requests, answers at once; one that is ready and has no limiter      *)
(* panics when it asks for the limit.                                       *)
Accept ==
    /\ main = "arrives"
    /\ \/ /\ ~ready
          /\ main' = "ended" /\ result' = "unavailable"
          /\ UNCHANGED receiver
       \/ /\ ready /\ ~limiter
          /\ main' = "ended" /\ result' = "panic"
          /\ UNCHANGED receiver
       \/ /\ ready /\ limiter
          /\ main' = "ended" /\ result' = "exhausted"
          /\ UNCHANGED receiver
       \/ /\ ready /\ limiter
          /\ main' = "waits" /\ receiver' = "reads"
          /\ UNCHANGED result
    /\ UNCHANGED <<setup, wire, held, reqChan, errorChan, client, sent,
                   processed, watched, pushVars>>

Begin ==
    /\ main = "waits" /\ initialized
    /\ main' = "requests"
    /\ UNCHANGED <<setup, result, receiverVars, client, sent, processed,
                   watched, pushVars>>

-----------------------------------------------------------------------------
(* Receive.  Faulty: an error of Recv is reported and the loop goes on.     *)
RecvGoesOn ==
    /\ receiver = "reads"
    /\ \/ /\ wire # <<>>
          /\ held' = <<Head(wire)>> /\ wire' = Tail(wire)
          /\ receiver' = "hands over"
          /\ UNCHANGED errorChan
       \/ /\ ContextDone
          /\ Len(errorChan) < 1
          /\ errorChan' = Append(errorChan, "error")
          /\ UNCHANGED <<receiver, held, wire>>
    /\ UNCHANGED <<setup, main, result, client, sent, reqChan, processed,
                   watched, pushVars>>

Recv ==
    /\ receiver = "reads"
    /\ \/ /\ wire # <<>>
          /\ held' = <<Head(wire)>> /\ wire' = Tail(wire)
          /\ receiver' = "hands over"
          /\ UNCHANGED errorChan
       \/ /\ ContextDone
          /\ Len(errorChan) < 1
          /\ errorChan' = Append(errorChan, "error")
          /\ receiver' = "off"
          /\ UNCHANGED <<held, wire>>
    /\ UNCHANGED <<setup, main, result, client, sent, reqChan, processed,
                   watched, pushVars>>

(* Faulty: the send to the channel does not look at the context.            *)
HandOverBlocks ==
    /\ receiver = "hands over"
    /\ Len(reqChan) < 1
    /\ reqChan' = reqChan \o held
    /\ receiver' = "reads"
    /\ held' = <<>>
    /\ UNCHANGED <<setup, main, result, wire, errorChan, client, sent,
                   processed, watched, pushVars>>

(* Faulty: the request is dropped when the channel is full.                 *)
HandOverOrDrop ==
    /\ receiver = "hands over"
    /\ \/ /\ reqChan' = IF Len(reqChan) < 1 THEN reqChan \o held ELSE reqChan
          /\ receiver' = "reads"
       \/ /\ ContextDone
          /\ receiver' = "off"
          /\ UNCHANGED reqChan
    /\ held' = <<>>
    /\ UNCHANGED <<setup, main, result, wire, errorChan, client, sent,
                   processed, watched, pushVars>>

HandOver ==
    /\ receiver = "hands over"
    /\ \/ /\ Len(reqChan) < 1
          /\ reqChan' = reqChan \o held
          /\ receiver' = "reads"
       \/ /\ ContextDone
          /\ receiver' = "off"
          /\ UNCHANGED reqChan
    /\ held' = <<>>
    /\ UNCHANGED <<setup, main, result, wire, errorChan, client, sent,
                   processed, watched, pushVars>>

-----------------------------------------------------------------------------
(* The loop of Stream.  processRequest (external) registers the type as     *)
(* watched, or fails and ends the stream.  Nothing closes reqChan or stop.  *)
Process(next) ==
    /\ reqChan # <<>>
    /\ reqChan' = Tail(reqChan)
    /\ processed' = Append(processed, Head(reqChan))
    /\ \/ /\ watched' = watched \cup {Head(reqChan).type}
          /\ main' = next
          /\ UNCHANGED result
       \/ /\ main' = "ended" /\ result' = "error"
          /\ UNCHANGED watched
    /\ UNCHANGED <<setup, receiver, held, errorChan, wire, client, sent,
                   pushVars>>

(* Faulty: the loop begins with the second select.                          *)
SelectRequestSkipped ==
    /\ main = "requests"
    /\ main' = "both"
    /\ UNCHANGED <<setup, result, receiverVars, client, sent, processed,
                   watched, pushVars>>

(* The first select takes a request if there is one.                        *)
SelectRequest ==
    /\ main = "requests"
    /\ \/ Process("both")
       \/ /\ reqChan = <<>>
          /\ main' = "both"
          /\ UNCHANGED <<setup, result, receiverVars, client, sent,
                         processed, watched, pushVars>>

(* The second waits for a request or a push.                                *)
SelectBoth ==
    /\ main = "both"
    /\ \/ Process("requests")
       \/ /\ event = "offered"
          /\ event' = "taken"
          /\ main' = "pushes"
          /\ \/ todo' = watched
             \/ todo' = {}         \* ProxyNeedsPush: no updates required
          /\ UNCHANGED <<setup, result, receiverVars, client, sent,
                         processed, watched>>

-----------------------------------------------------------------------------
(* findGenerator: the table holds the type of clusters, and no default.     *)
findGenerator(t) == t = ClusterType \/ generator

(* pushXds passes over a type without a generator and sends what the        *)
(* generator of any other made; Send may fail whether or not the client is  *)
(* still there.                                                             *)
pushXds(t) ==
    /\ todo' = todo \ {t}
    /\ UNCHANGED <<event, main, result>>

(* Faulty: done is not called when a send fails.                            *)
SendFailsUndone(t) ==
    /\ findGenerator(t)
    /\ main' = "ended" /\ result' = "error"
    /\ todo' = {}
    /\ UNCHANGED event

SendFails(t) ==
    /\ findGenerator(t)
    /\ main' = "ended" /\ result' = "error"
    /\ todo' = {}
    /\ event' = "done"

PushType ==
    /\ main = "pushes"
    /\ \E t \in todo : pushXds(t) \/ SendFails(t)
    /\ UNCHANGED <<setup, receiverVars, client, sent, processed, watched>>

(* Push calls done after pushConnection, whatever that returned.            *)
PushDone ==
    /\ main = "pushes" /\ todo = {}
    /\ event' = "done"
    /\ main' = "requests"
    /\ UNCHANGED <<setup, result, receiverVars, client, sent, processed,
                   watched, todo>>

(* The pusher (external) offers the next event when done was called for     *)
(* the last, and takes back what it offered to a stream that is over.       *)
Offer ==
    /\ main # "arrives" /\ ~ContextDone
    /\ event \in {"none", "done"} /\ event' = "offered"
    /\ UNCHANGED <<setup, main, result, receiverVars, client, sent,
                   processed, watched, todo>>

Withdraw ==
    /\ ContextDone /\ event = "offered" /\ event' = "none"
    /\ UNCHANGED <<setup, main, result, receiverVars, client, sent,
                   processed, watched, todo>>

-----------------------------------------------------------------------------
StreamStep == Accept \/ Begin \/ SelectRequest \/ SelectBoth \/ PushType
              \/ PushDone

ReceiveStep == Recv \/ HandOver

Next == CachesSynced \/ ClientSends \/ ClientLeaves \/ Initialize
        \/ StreamStep \/ ReceiveStep \/ Offer \/ Withdraw

Spec == Init /\ [][Next]_vars

(* Receive runs whenever it can.  Nothing is assumed of the loop of Stream, *)
(* which may block in Send or in processRequest.                            *)
FairSpec == Spec /\ WF_vars(ReceiveStep)

-----------------------------------------------------------------------------
(* Properties.                                                              *)

Numbers(s) == [i \in DOMAIN s |-> s[i].number]

(* Requests are processed in the order they were sent, none is skipped, and *)
(* until the stream is over or the client has left each one is processed or *)
(* in exactly one place on the way: the wire, Receive, or reqChan.          *)
RequestsKeepTheirOrder ==
    /\ Numbers(processed) = [i \in 1 .. Len(processed) |-> i]
    /\ ~ContextDone =>
          Numbers(processed \o reqChan \o held \o wire)
              = [i \in 1 .. sent |-> i]

(* An event the stream has taken is done once the stream is back in its     *)
(* loop or over, also when a send failed half way: a taken event that is    *)
(* not done would block every later push.                                   *)
TakenEventsAreDone == event = "taken" => main = "pushes"

(* The most steps the stream takes before it looks at the requests only.    *)
StepsToRequest ==
    CASE main = "requests" -> 1
      [] main = "waits"    -> 2
      [] main = "pushes"   -> Cardinality(todo) + 2
      [] main = "both"     -> Cardinality(watched) + 3
      [] OTHER             -> 0

(* One push at most overtakes a request that waits in reqChan: each step of *)
(* the stream processes it, ends the stream, or brings the select that only *)
(* takes requests nearer, whatever is offered meanwhile.                    *)
OnePushOvertakes ==
    [][reqChan # <<>> =>
          \/ processed' # processed
          \/ main' = "ended"
          \/ StepsToRequest' \in 0 .. StepsToRequest - 1
          \/ UNCHANGED <<main, todo, watched>>]_vars

ReceiverSteps ==
    2 * Len(wire) + (CASE receiver = "reads"      -> 1
                       [] receiver = "hands over" -> 2
                       [] OTHER                   -> 0)

(* When the context is done Receive has a bounded number of steps left: the *)
(* wire gets no new requests, each step takes one off or brings the end     *)
(* nearer, and the channel of one error is never full when it reports one.  *)
ReceiverIsBounded ==
    [][ContextDone /\ receiver # "off" =>
          /\ errorChan = <<>>
          /\ \/ ReceiverSteps' \in 0 .. ReceiverSteps - 1
             \/ UNCHANGED <<receiver, held, wire>>]_vars

(* The goroutine of Receive does not outlive its stream: once the client    *)
(* has left or the handler has returned it ends, also when the channel is   *)
(* full and nobody takes from it any more.                                  *)
ReceiverEnds == ContextDone ~> receiver = "off"
=============================================================================
