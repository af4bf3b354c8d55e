---------------------------- MODULE XdsStreamProofs ----------------------------
(* Proofs about XdsStream, for any types and any number of requests.         *)
EXTENDS XdsStream, TLAPS, SequenceTheorems, FiniteSetTheorems

Requests == [number : Nat, type : Types]

(* What the variables hold; a request is held exactly while it is handed     *)
(* over, and nothing has moved before the stream is accepted.                *)
StreamTypes ==
    /\ main \in {"arrives", "waits", "requests", "both", "pushes", "ended"}
    /\ receiver \in {"off", "reads", "hands over"}
    /\ client \in {"up", "gone"}
    /\ sent \in Nat
    /\ wire \in Seq(Requests) /\ held \in Seq(Requests)
    /\ reqChan \in Seq(Requests) /\ processed \in Seq(Requests)
    /\ receiver = "hands over" => Len(held) = 1
    /\ receiver # "hands over" => Len(held) = 0
    /\ main = "arrives" => receiver = "off"

(* The numbers of s go on by one from n.                                     *)
Continues(s, n) == \A i \in 1 .. Len(s) : s[i].number = n + i

(* Receive has given up: what it held, or what is on the wire, is lost.      *)
GaveUp == ContextDone /\ receiver = "off" /\ main # "arrives"

(* Every place goes on where the place before it ends; the wire goes on      *)
(* until Receive gives up, and ends with the request that was sent last.     *)
OrderInv ==
    /\ Continues(processed, 0)
    /\ Continues(reqChan, Len(processed))
    /\ Continues(held, Len(processed) + Len(reqChan))
    /\ ~ GaveUp =>
          /\ Continues(wire, Len(processed) + Len(reqChan) + Len(held))
          /\ Len(processed) + Len(reqChan) + Len(held) + Len(wire) = sent

StreamInv == StreamTypes /\ OrderInv /\ TakenEventsAreDone

-----------------------------------------------------------------------------
(* Where two sequences go on from one another, so does their concatenation.  *)
LEMMA ContinuesConcat ==
    ASSUME NEW s \in Seq(Requests), NEW t \in Seq(Requests), NEW n \in Nat,
           Continues(s, n), Continues(t, n + Len(s))
    PROVE  Continues(s \o t, n)
<1>1. /\ Len(s \o t) = Len(s) + Len(t)
      /\ \A i \in 1 .. Len(s) + Len(t) :
            (s \o t)[i] = IF i <= Len(s) THEN s[i] ELSE t[i - Len(s)]
  BY ConcatProperties
<1> SUFFICES ASSUME NEW i \in 1 .. Len(s) + Len(t)
             PROVE  (s \o t)[i].number = n + i
  BY <1>1 DEF Continues
<1>2. Len(s) \in Nat /\ Len(t) \in Nat
  BY LenProperties
<1>3. CASE i <= Len(s)
  BY <1>1, <1>2, <1>3 DEF Continues
<1>4. CASE ~ (i <= Len(s))
  <2>1. i - Len(s) \in 1 .. Len(t)
    BY <1>2, <1>4
  <2> QED BY <1>1, <1>2, <1>4, <2>1 DEF Continues
<1> QED BY <1>3, <1>4

(* A sequence that starts with 1 and goes on has the numbers 1, 2, 3...      *)
LEMMA ContinuesNumbers ==
    ASSUME NEW s \in Seq(Requests), Continues(s, 0)
    PROVE  Numbers(s) = [i \in 1 .. Len(s) |-> i]
<1>1. DOMAIN s = 1 .. Len(s) /\ Len(s) \in Nat
  BY LenProperties
<1>2. \A i \in 1 .. Len(s) : s[i].number = i
  BY <1>1 DEF Continues
<1> QED BY <1>1, <1>2 DEF Numbers

(* Taking the first request away makes the rest go on from one later.        *)
LEMMA ContinuesTail ==
    ASSUME NEW s \in Seq(Requests), s # <<>>, NEW n \in Nat, Continues(s, n)
    PROVE  /\ Head(s) \in Requests /\ Head(s).number = n + 1
           /\ Tail(s) \in Seq(Requests) /\ Len(Tail(s)) = Len(s) - 1
           /\ Len(s) \in Nat \ {0}
           /\ Continues(Tail(s), n + 1)
<1>1. Len(s) \in Nat \ {0} /\ Head(s) = s[1]
  BY EmptySeq
<1>2. /\ Head(s) \in Requests /\ Tail(s) \in Seq(Requests)
      /\ Len(Tail(s)) = Len(s) - 1
      /\ \A i \in 1 .. Len(s) - 1 : Tail(s)[i] = s[i + 1]
  BY <1>1, HeadTailProperties
<1>3. Head(s).number = n + 1
  BY <1>1 DEF Continues
<1>4. Continues(Tail(s), n + 1)
  BY <1>1, <1>2 DEF Continues
<1> QED BY <1>1, <1>2, <1>3, <1>4

(* A request with the next number may be appended.                           *)
LEMMA ContinuesAppend ==
    ASSUME NEW s \in Seq(Requests), NEW n \in Nat, Continues(s, n),
           NEW r \in Requests, r.number = n + Len(s) + 1
    PROVE  /\ Append(s, r) \in Seq(Requests)
           /\ Len(Append(s, r)) = Len(s) + 1
           /\ Continues(Append(s, r), n)
<1>1. Len(s) \in Nat
  BY LenProperties
<1>2. /\ Append(s, r) \in Seq(Requests)
      /\ Len(Append(s, r)) = Len(s) + 1
      /\ \A i \in 1 .. Len(s) : Append(s, r)[i] = s[i]
      /\ Append(s, r)[Len(s) + 1] = r
  BY AppendProperties
<1>3. ASSUME NEW i \in 1 .. Len(s) + 1
      PROVE  Append(s, r)[i].number = n + i
  <2>1. CASE i = Len(s) + 1
    BY <1>1, <1>2, <2>1
  <2>2. CASE i \in 1 .. Len(s)
    BY <1>1, <1>2, <2>2 DEF Continues
  <2> QED BY <1>1, <2>1, <2>2
<1> QED BY <1>2, <1>3 DEF Continues

-----------------------------------------------------------------------------
(* Steps                                                                   *)

(* A step that moves no request and does not undo a giving up keeps the      *)
(* order.                                                                    *)
LEMMA NothingMoves ==
    ASSUME OrderInv, UNCHANGED <<processed, reqChan, held, wire, sent>>,
           GaveUp => GaveUp'
    PROVE  OrderInv'
BY DEF OrderInv, Continues

(* Once Receive has given up, only a step of its own could bring it back,    *)
(* and it takes none.                                                        *)
LEMMA GivingUpIsFinal ==
    ASSUME StreamInv, [Next]_vars
    PROVE  GaveUp => GaveUp'
<1> SUFFICES ASSUME GaveUp PROVE GaveUp'
  OBVIOUS
<1> USE DEF GaveUp, ContextDone, StreamInv, StreamTypes, setup, receiverVars,
            pushVars
<1>1. CASE CachesSynced \/ ClientSends \/ ClientLeaves \/ Initialize
  BY <1>1 DEF CachesSynced, ClientSends, ClientLeaves, Initialize
<1>2. CASE StreamStep
  <2>1. CASE Accept \/ Begin
    BY <2>1 DEF Accept, Begin
  <2>2. CASE SelectRequest \/ SelectBoth
    BY <2>2 DEF SelectRequest, SelectBoth, Process
  <2>3. CASE PushType \/ PushDone
    BY <2>3 DEF PushType, PushDone, pushXds, SendFails
  <2> QED BY <1>2, <2>1, <2>2, <2>3 DEF StreamStep
<1>3. CASE ReceiveStep
  BY <1>3 DEF ReceiveStep, Recv, HandOver
<1>4. CASE Offer \/ Withdraw
  BY <1>4 DEF Offer, Withdraw
<1>5. CASE UNCHANGED vars
  BY <1>5 DEF vars
<1> QED BY <1>1, <1>2, <1>3, <1>4, <1>5 DEF Next

(* The client numbers its requests and puts them at the end of the wire.     *)
LEMMA ClientSendsKeeps ==
    ASSUME StreamInv, ClientSends
    PROVE  StreamTypes' /\ OrderInv'
<1>1. PICK t \in Types :
          wire' = Append(wire, [number |-> sent + 1, type |-> t])
  BY DEF ClientSends
<1> DEFINE r == [number |-> sent + 1, type |-> t]
           n == Len(processed) + Len(reqChan) + Len(held)
<1>2. /\ Len(processed) \in Nat /\ Len(reqChan) \in Nat /\ Len(held) \in Nat
      /\ wire \in Seq(Requests) /\ sent \in Nat /\ Len(wire) \in Nat
  BY LenProperties DEF StreamInv, StreamTypes
<1>3. ~ GaveUp /\ ~ GaveUp'
  BY DEF ClientSends, GaveUp, ContextDone
<1>4. Continues(wire, n) /\ n + Len(wire) = sent
  BY <1>3 DEF StreamInv, OrderInv
<1>5. r \in Requests /\ r.number = n + Len(wire) + 1 /\ n \in Nat
  BY <1>2, <1>4 DEF Requests
<1> HIDE DEF n, r
<1>6. /\ wire' \in Seq(Requests) /\ Len(wire') = Len(wire) + 1
      /\ Continues(wire', n)
  BY <1>1, <1>2, <1>4, <1>5, ContinuesAppend DEF r
<1>7. /\ UNCHANGED <<processed, reqChan, held, main, receiver, client>>
      /\ sent' = sent + 1
  BY DEF ClientSends
<1>8. StreamTypes'
  <2>1. sent' \in Nat /\ wire' \in Seq(Requests)
    BY <1>2, <1>6, <1>7
  <2> QED BY <2>1, <1>7 DEF StreamInv, StreamTypes
<1>9. OrderInv'
  <2>1. /\ Continues(processed', 0) /\ Continues(reqChan', Len(processed'))
        /\ Continues(held', Len(processed') + Len(reqChan'))
    BY <1>7 DEF StreamInv, OrderInv
  <2>2. n = Len(processed') + Len(reqChan') + Len(held')
    BY <1>7 DEF n
  <2>3. n + Len(wire') = sent'
    BY <1>2, <1>4, <1>5, <1>6, <1>7
  <2> QED BY <1>6, <2>1, <2>2, <2>3 DEF OrderInv
<1> QED BY <1>8, <1>9

(* Receive takes the first request off the wire, or gives up.                *)
LEMMA RecvKeeps ==
    ASSUME StreamInv, Recv
    PROVE  StreamTypes' /\ OrderInv'
<1> DEFINE n == Len(processed) + Len(reqChan)
<1>1. /\ Len(processed) \in Nat /\ Len(reqChan) \in Nat
      /\ Len(held) = 0 /\ held = <<>> /\ ~ GaveUp /\ main # "arrives"
      /\ wire \in Seq(Requests)
  BY LenProperties, EmptySeq DEF StreamInv, StreamTypes, Recv, GaveUp
<1>2. /\ Continues(wire, n) /\ n + Len(wire) = sent
  BY <1>1 DEF StreamInv, OrderInv, Continues
<1>3. UNCHANGED <<processed, reqChan, main, client, sent>>
  BY DEF Recv
<1>4. CASE /\ wire # <<>>
           /\ held' = <<Head(wire)>> /\ wire' = Tail(wire)
           /\ receiver' = "hands over"
  <2>1. /\ Head(wire) \in Requests /\ Head(wire).number = n + 1
        /\ wire' \in Seq(Requests) /\ Len(wire') = Len(wire) - 1
        /\ Len(wire) \in Nat \ {0} /\ Continues(wire', n + 1)
    <3>1. n \in Nat
      BY <1>1
    <3> HIDE DEF n
    <3> QED BY <1>1, <1>2, <1>4, <3>1, ContinuesTail
  <2>2. /\ held' \in Seq(Requests) /\ Len(held') = 1
        /\ Continues(held', n)
    <3>1. /\ held' \in Seq(Requests) /\ Len(held') = 1
          /\ held'[1] = Head(wire)
      <4>1. \A x \in Requests : /\ <<x>> \in Seq(Requests)
                                /\ Len(<<x>>) = 1 /\ <<x>>[1] = x
        OBVIOUS
      <4> QED BY <1>4, <2>1, <4>1, Zenon
    <3> HIDE DEF n
    <3> QED BY <2>1, <3>1 DEF Continues
  <2>3. StreamTypes'
    BY <1>1, <1>3, <1>4, <2>1, <2>2 DEF StreamInv, StreamTypes
  <2>4. OrderInv'
    BY <1>1, <1>2, <1>3, <2>1, <2>2 DEF StreamInv, OrderInv, Continues
  <2> QED BY <2>3, <2>4
<1>5. CASE /\ ContextDone
           /\ receiver' = "off"
           /\ UNCHANGED <<held, wire>>
  <2>1. GaveUp'
    BY <1>1, <1>3, <1>5 DEF GaveUp, ContextDone
  <2>2. StreamTypes'
    BY <1>1, <1>3, <1>5 DEF StreamInv, StreamTypes
  <2>3. OrderInv'
    BY <2>1, <1>3, <1>5 DEF StreamInv, OrderInv, Continues
  <2> QED BY <2>2, <2>3
<1> QED BY <1>4, <1>5 DEF Recv

(* What Receive holds goes into the empty channel, or is dropped for good.   *)
LEMMA HandOverKeeps ==
    ASSUME StreamInv, HandOver
    PROVE  StreamTypes' /\ OrderInv'
<1>1. /\ Len(processed) \in Nat /\ Len(reqChan) \in Nat
      /\ held \in Seq(Requests) /\ reqChan \in Seq(Requests)
      /\ Len(held) = 1 /\ ~ GaveUp /\ main # "arrives"
  BY LenProperties DEF StreamInv, StreamTypes, HandOver, GaveUp
<1>2. UNCHANGED <<processed, main, client, sent, wire>> /\ held' = <<>>
  BY DEF HandOver
<1>3. Len(held') = 0 /\ held' \in Seq(Requests)
  BY <1>2
<1>4. CASE /\ Len(reqChan) < 1
           /\ reqChan' = reqChan \o held
           /\ receiver' = "reads"
  <2>1. Len(reqChan) = 0
    BY <1>1, <1>4
  <2>2. reqChan' = held
    <3>1. reqChan = <<>>
      BY <1>1, <2>1, EmptySeq
    <3> QED BY <1>1, <1>4, <3>1, ConcatEmptySeq
  <2>3. StreamTypes'
    BY <1>1, <1>2, <1>3, <1>4, <2>2 DEF StreamInv, StreamTypes
  <2>4. OrderInv'
    <3>1. Continues(held', Len(processed') + Len(reqChan'))
      BY <1>3 DEF Continues
    <3>2. /\ Continues(processed', 0)
          /\ Continues(reqChan', Len(processed'))
      <4>1. Len(processed) + Len(reqChan) = Len(processed)
        BY <1>1, <2>1
      <4> QED BY <1>2, <2>2, <4>1 DEF StreamInv, OrderInv
    <3>3. Len(processed') + Len(reqChan') + Len(held')
            = Len(processed) + Len(reqChan) + Len(held)
      <4>1. Len(processed') = Len(processed) /\ Len(reqChan') = Len(held)
        BY <1>2, <2>2
      <4> QED BY <1>1, <1>3, <2>1, <4>1
    <3> QED BY <1>1, <1>2, <3>1, <3>2, <3>3 DEF StreamInv, OrderInv
  <2> QED BY <2>3, <2>4
<1>5. CASE ContextDone /\ receiver' = "off" /\ UNCHANGED reqChan
  <2>1. GaveUp'
    BY <1>1, <1>2, <1>5 DEF GaveUp, ContextDone
  <2>2. StreamTypes'
    BY <1>1, <1>2, <1>3, <1>5 DEF StreamInv, StreamTypes
  <2>3. OrderInv'
    BY <1>3, <2>1, <1>2, <1>5 DEF StreamInv, OrderInv, Continues
  <2> QED BY <2>2, <2>3
<1> QED BY <1>4, <1>5 DEF HandOver

(* A request that is processed moves from the channel to the end of what     *)
(* was processed, whether or not it ends the stream.                         *)
LEMMA ProcessKeeps ==
    ASSUME StreamInv, NEW next \in {"requests", "both"},
           main \in {"requests", "both"}, Process(next)
    PROVE  StreamTypes' /\ OrderInv'
<1> DEFINE r == Head(reqChan)
<1>1. /\ Len(processed) \in Nat /\ processed \in Seq(Requests)
      /\ reqChan \in Seq(Requests) /\ reqChan # <<>>
      /\ Len(held) \in Nat
  BY LenProperties DEF StreamInv, StreamTypes, Process
<1>2. /\ r \in Requests /\ r.number = Len(processed) + 1
      /\ Tail(reqChan) \in Seq(Requests)
      /\ Len(Tail(reqChan)) = Len(reqChan) - 1
      /\ Len(reqChan) \in Nat \ {0}
      /\ Continues(Tail(reqChan), Len(processed) + 1)
  BY <1>1, ContinuesTail DEF StreamInv, OrderInv
<1>3. /\ processed' \in Seq(Requests)
      /\ Len(processed') = Len(processed) + 1
      /\ Continues(processed', 0)
  <2>1. Continues(processed, 0) /\ processed' = Append(processed, r)
    BY DEF StreamInv, OrderInv, Process
  <2> HIDE DEF r
  <2>2. r.number = 0 + Len(processed) + 1
    BY <1>1, <1>2
  <2> QED BY <1>1, <1>2, <2>1, <2>2, ContinuesAppend
<1>4. /\ UNCHANGED <<receiver, held, wire, client, sent>>
      /\ reqChan' = Tail(reqChan) /\ main' \in {"requests", "both", "ended"}
  BY DEF Process
<1>5. GaveUp => GaveUp'
  BY <1>4 DEF GaveUp, ContextDone
<1>6. StreamTypes'
  BY <1>2, <1>3, <1>4 DEF StreamInv, StreamTypes
<1>7. OrderInv'
  BY <1>1, <1>2, <1>3, <1>4, <1>5 DEF StreamInv, OrderInv, Continues
<1> QED BY <1>6, <1>7

-----------------------------------------------------------------------------
(* The invariant                                                           *)

(* The invariant holds before the client has sent anything,                  *)
LEMMA StreamInvInit == Init => StreamInv
<1> SUFFICES ASSUME Init PROVE StreamInv
  OBVIOUS
<1>1. /\ wire = <<>> /\ held = <<>> /\ reqChan = <<>> /\ processed = <<>>
      /\ <<>> \in Seq(Requests) /\ Len(<<>>) = 0
  BY EmptySeq DEF Init
<1>2. StreamTypes
  BY <1>1 DEF Init, StreamTypes
<1>3. OrderInv
  BY <1>1 DEF Init, OrderInv, Continues
<1> QED BY <1>2, <1>3 DEF Init, StreamInv, TakenEventsAreDone

(* every step of stream, receiver, client and pusher keeps it,               *)
LEMMA StreamInvStep == StreamInv /\ [Next]_vars => StreamInv'
<1> SUFFICES ASSUME StreamInv, [Next]_vars PROVE StreamInv'
  OBVIOUS
<1>0. GaveUp => GaveUp'
  BY GivingUpIsFinal
<1>1. CASE CachesSynced \/ ClientLeaves \/ Initialize \/ Offer \/ Withdraw
  <2>1. UNCHANGED <<processed, reqChan, held, wire, sent, main, receiver>>
    BY <1>1 DEF CachesSynced, ClientLeaves, Initialize, Offer, Withdraw, setup,
                receiverVars, pushVars
  <2>2. client' \in {"up", "gone"} /\ (event' = "taken" => event = "taken")
    BY <1>1 DEF CachesSynced, ClientLeaves, Initialize, Offer, Withdraw, setup,
                receiverVars, pushVars, StreamInv, StreamTypes
  <2>3. OrderInv'
    BY <1>0, <2>1, NothingMoves DEF StreamInv
  <2> QED BY <2>1, <2>2, <2>3 DEF StreamInv, StreamTypes, TakenEventsAreDone
<1>2. CASE ClientSends
  BY <1>2, ClientSendsKeeps
     DEF ClientSends, StreamInv, TakenEventsAreDone, pushVars
<1>3. CASE Recv
  BY <1>3, RecvKeeps DEF Recv, StreamInv, TakenEventsAreDone, pushVars
<1>4. CASE HandOver
  BY <1>4, HandOverKeeps DEF HandOver, StreamInv, TakenEventsAreDone, pushVars
<1>5. CASE Accept \/ Begin \/ PushType \/ PushDone
  <2>1. UNCHANGED <<processed, reqChan, held, wire, sent, client>>
    BY <1>5 DEF Accept, Begin, PushType, PushDone, setup, receiverVars
  <2>2. OrderInv'
    BY <1>0, <2>1, NothingMoves DEF StreamInv
  <2>3. StreamTypes'
    <3>1. CASE Accept
      BY <3>1, <2>1 DEF Accept, StreamInv, StreamTypes
    <3>2. CASE Begin \/ PushType \/ PushDone
      BY <3>2, <2>1 DEF Begin, PushType, PushDone, pushXds, SendFails,
                        receiverVars, StreamInv, StreamTypes
    <3> QED BY <1>5, <3>1, <3>2
  <2>4. TakenEventsAreDone'
    BY <1>5 DEF Accept, Begin, PushType, PushDone, pushXds, SendFails, pushVars,
                StreamInv, TakenEventsAreDone
  <2> QED BY <2>2, <2>3, <2>4 DEF StreamInv
<1>6. ASSUME NEW next \in {"requests", "both"},
             main \in {"requests", "both"}, Process(next)
      PROVE  StreamInv'
  BY <1>6, ProcessKeeps DEF Process, StreamInv, TakenEventsAreDone, pushVars
<1>7. CASE SelectRequest
  <2>1. CASE reqChan = <<>> /\ main' = "both"
             /\ UNCHANGED <<setup, result, receiverVars, client, sent,
                            processed, watched, pushVars>>
    <3>1. OrderInv'
      BY <1>0, <2>1, NothingMoves DEF StreamInv, receiverVars
    <3> QED BY <1>7, <2>1, <3>1 DEF SelectRequest, StreamInv, StreamTypes,
               TakenEventsAreDone, receiverVars, pushVars
  <2> QED BY <1>6, <1>7, <2>1 DEF SelectRequest
<1>8. CASE SelectBoth
  <2>1. CASE event' = "taken" /\ main' = "pushes"
             /\ UNCHANGED <<setup, result, receiverVars, client, sent,
                            processed, watched>>
    <3>1. OrderInv'
      BY <1>0, <2>1, NothingMoves DEF StreamInv, receiverVars
    <3> QED BY <1>8, <2>1, <3>1 DEF SelectBoth, StreamInv, StreamTypes,
               TakenEventsAreDone, receiverVars
  <2> QED BY <1>6, <1>8, <2>1 DEF SelectBoth
<1>9. CASE UNCHANGED vars
  <2>1. OrderInv'
    BY <1>0, <1>9, NothingMoves DEF StreamInv, vars
  <2> QED BY <1>9, <2>1 DEF vars, StreamInv, StreamTypes, TakenEventsAreDone
<1> QED BY <1>1, <1>2, <1>3, <1>4, <1>5, <1>7, <1>8, <1>9
        DEF Next, StreamStep, ReceiveStep

(* The order of every place follows from the orders of the single places.    *)
LEMMA OrderInvSuffices == StreamInv => RequestsKeepTheirOrder
<1> SUFFICES ASSUME StreamInv PROVE RequestsKeepTheirOrder
  OBVIOUS
<1> DEFINE s2 == processed \o reqChan
           s3 == s2 \o held
           s4 == s3 \o wire
<1>0. /\ processed \in Seq(Requests) /\ reqChan \in Seq(Requests)
      /\ held \in Seq(Requests) /\ wire \in Seq(Requests)
      /\ Len(processed) \in Nat /\ Len(reqChan) \in Nat
  BY LenProperties DEF StreamInv, StreamTypes
<1>1. Numbers(processed) = [i \in 1 .. Len(processed) |-> i]
  BY <1>0, ContinuesNumbers DEF StreamInv, OrderInv
<1>2. ASSUME ~ ContextDone
      PROVE  Numbers(s4) = [i \in 1 .. sent |-> i]
  <2>0. /\ Continues(processed, 0) /\ Continues(reqChan, Len(processed))
        /\ Continues(held, Len(processed) + Len(reqChan))
        /\ Continues(wire, Len(processed) + Len(reqChan) + Len(held))
        /\ Len(processed) + Len(reqChan) + Len(held) + Len(wire) = sent
    BY <1>2 DEF StreamInv, OrderInv, GaveUp
  <2>1. /\ s2 \in Seq(Requests) /\ Len(s2) = Len(processed) + Len(reqChan)
    BY <1>0, ConcatProperties
  <2>2. Continues(s2, 0)
    <3>1. 0 + Len(processed) = Len(processed)
      BY <1>0
    <3> QED BY <1>0, <2>0, <3>1, ContinuesConcat
  <2> HIDE DEF s2
  <2>3. /\ s3 \in Seq(Requests) /\ Len(s3) = Len(s2) + Len(held)
    BY <1>0, <2>1, ConcatProperties
  <2>4. Continues(s3, 0)
    <3>1. 0 + Len(s2) = Len(processed) + Len(reqChan)
      BY <1>0, <2>1
    <3> QED BY <1>0, <2>0, <2>1, <2>2, <3>1, ContinuesConcat
  <2> HIDE DEF s3
  <2>5. /\ s4 \in Seq(Requests) /\ Len(s4) = Len(s3) + Len(wire)
    BY <1>0, <2>3, ConcatProperties
  <2>6. Continues(s4, 0)
    <3>1. 0 + Len(s3) = Len(processed) + Len(reqChan) + Len(held)
      BY <1>0, <2>1, <2>3, LenProperties
    <3> QED BY <1>0, <2>0, <2>3, <2>4, <3>1, ContinuesConcat
  <2> HIDE DEF s4
  <2>7. Len(s4) = sent
    BY <2>0, <2>1, <2>3, <2>5
  <2> QED BY <2>5, <2>6, <2>7, ContinuesNumbers
<1> QED BY <1>1, <1>2 DEF RequestsKeepTheirOrder

(* so it holds in every reachable state.                                     *)
LEMMA StreamInvHolds == Spec => []StreamInv
BY StreamInvInit, StreamInvStep, PTL DEF Spec

(* Requests are processed in the order they were sent and none is skipped;   *)
(* until the context is done none is lost between the client, Receive and    *)
(* the loop of Stream (pkg/xds/stream.go), for any number of requests.       *)
THEOREM RequestsStayInOrder == Spec => []RequestsKeepTheirOrder
BY StreamInvHolds, OrderInvSuffices, PTL

(* An event the stream took is done when the stream is back in its loop or   *)
(* over, on every path through Push (pkg/xds/stream.go, xdsgen.go).          *)
THEOREM TakenEventsGetDone == Spec => []TakenEventsAreDone
<1>1. StreamInv => TakenEventsAreDone
  BY DEF StreamInv
<1> QED BY <1>1, StreamInvHolds, PTL

-----------------------------------------------------------------------------
(* How far the next request and the end of Receive are                     *)

(* The sets a push sends and the client watches are finite; nothing is in a  *)
(* channel before the stream is accepted, and no error is in one before      *)
(* Receive ends.                                                             *)
BoundInv ==
    /\ IsFiniteSet(watched) /\ IsFiniteSet(todo)
    /\ main = "arrives" => reqChan = <<>> /\ errorChan = <<>>
    /\ receiver # "off" => errorChan = <<>>

LEMMA BoundInvInit == Init => BoundInv
BY FS_EmptySet DEF Init, BoundInv

(* The watched types grow by one type of one request at a time, and a push   *)
(* sends the watched types or fewer.                                         *)
LEMMA FiniteStep ==
    ASSUME StreamInv, BoundInv, [Next]_vars
    PROVE  IsFiniteSet(watched') /\ IsFiniteSet(todo')
<1>0. IsFiniteSet(watched) /\ IsFiniteSet(todo) /\ IsFiniteSet({})
  BY FS_EmptySet DEF BoundInv
<1>1. ASSUME NEW next, Process(next)
      PROVE  IsFiniteSet(watched') /\ IsFiniteSet(todo')
  <2>1. IsFiniteSet(watched \cup {Head(reqChan).type})
    BY <1>0, FS_AddElement
  <2> QED BY <1>0, <1>1, <2>1 DEF Process, pushVars
<1>2. CASE UNCHANGED <<watched, todo>>
  BY <1>0, <1>2
<1>3. CASE SelectBoth
  BY <1>0, <1>1, <1>3 DEF SelectBoth
<1>4. CASE SelectRequest
  BY <1>0, <1>1, <1>4 DEF SelectRequest, pushVars
<1>5. CASE PushType
  <2>1. \A t : IsFiniteSet(todo \ {t})
    BY <1>0, FS_RemoveElement
  <2>2. watched' = watched /\ (todo' = {} \/ \E t : todo' = todo \ {t})
    BY <1>5 DEF PushType, pushXds, SendFails
  <2> QED BY <1>0, <2>1, <2>2
<1> QED BY <1>2, <1>3, <1>4, <1>5
        DEF Next, StreamStep, ReceiveStep, CachesSynced, ClientSends,
            ClientLeaves, Initialize, Accept, Begin, PushDone, Recv, HandOver,
            Offer, Withdraw, vars, pushVars

(* Receive does not run before the stream is accepted, ends when it reports  *)
(* an error, and is not started again.                                       *)
LEMMA ChannelsStep ==
    ASSUME StreamInv, BoundInv, [Next]_vars
    PROVE  /\ main' = "arrives" => reqChan' = <<>> /\ errorChan' = <<>>
           /\ receiver' # "off" => errorChan' = <<>>
<1> USE DEF BoundInv, receiverVars
<1>0. main = "arrives" => receiver = "off"
  BY DEF StreamInv, StreamTypes
<1>1. CASE Recv \/ HandOver
  BY <1>0, <1>1 DEF Recv, HandOver
<1>2. CASE Accept
  BY <1>2 DEF Accept
<1>3. CASE Begin \/ PushType \/ PushDone
  BY <1>3 DEF Begin, PushType, PushDone, pushXds, SendFails
<1>4. CASE SelectRequest \/ SelectBoth
  BY <1>4 DEF SelectRequest, SelectBoth, Process
<1>5. CASE UNCHANGED <<main, receiver, reqChan, errorChan>>
  BY <1>5
<1> QED BY <1>1, <1>2, <1>3, <1>4, <1>5
        DEF Next, StreamStep, ReceiveStep, CachesSynced, ClientSends,
            ClientLeaves, Initialize, Offer, Withdraw, vars

LEMMA BoundInvHolds == Spec => []BoundInv
<1>1. StreamInv /\ BoundInv /\ [Next]_vars => BoundInv'
  BY FiniteStep, ChannelsStep DEF BoundInv
<1> QED BY <1>1, BoundInvInit, StreamInvHolds, PTL DEF Spec

(* While a request waits in reqChan, a step of the stream processes it, ends *)
(* the stream, or lowers the measure.                                        *)
LEMMA PushOvertakesStep ==
    ASSUME StreamInv, BoundInv, [Next]_vars, reqChan # <<>>
    PROVE  \/ processed' # processed
           \/ main' = "ended"
           \/ StepsToRequest' \in 0 .. StepsToRequest - 1
           \/ UNCHANGED <<main, todo, watched>>
<1>0. /\ IsFiniteSet(watched) /\ IsFiniteSet(todo) /\ IsFiniteSet({})
      /\ Cardinality(watched) \in Nat /\ Cardinality(todo) \in Nat
      /\ Cardinality({}) = 0
  BY FS_EmptySet, FS_CardinalityType DEF BoundInv
<1>1. ASSUME NEW next, Process(next) PROVE processed' # processed
  <2>1. processed \in Seq(Requests) /\ reqChan \in Seq(Requests)
    BY DEF StreamInv, StreamTypes
  <2>2. Head(reqChan) \in Requests
    BY <2>1, EmptySeq, HeadTailProperties
  <2>3. processed' = Append(processed, Head(reqChan))
    BY <1>1 DEF Process
  <2>4. Len(processed') = Len(processed) + 1 /\ Len(processed) \in Nat
    BY <2>1, <2>2, <2>3, AppendProperties, LenProperties
  <2> QED BY <2>4
<1>2. CASE UNCHANGED <<main, todo, watched>>
  BY <1>2
<1>3. CASE Accept
  BY <1>3 DEF Accept, BoundInv
<1>4. CASE Begin
  <2>1. StepsToRequest = 2 /\ StepsToRequest' = 1
    BY <1>4 DEF Begin, StepsToRequest
  <2> QED BY <2>1
<1>5. CASE SelectRequest
  BY <1>1, <1>5 DEF SelectRequest
<1>6. CASE SelectBoth
  <2>1. CASE main' = "pushes" /\ (todo' = watched \/ todo' = {})
    <3>1. StepsToRequest = Cardinality(watched) + 3
      BY <1>6 DEF SelectBoth, StepsToRequest
    <3>2. StepsToRequest' = Cardinality(todo') + 2
      BY <2>1 DEF StepsToRequest
    <3>3. Cardinality(todo') \in 0 .. Cardinality(watched)
      <4>1. CASE todo' = watched
        <5>1. Cardinality(todo') = Cardinality(watched)
          BY <4>1
        <5> QED BY <1>0, <5>1
      <4>2. CASE todo' = {}
        <5>1. Cardinality(todo') = 0
          BY <1>0, <4>2
        <5> QED BY <1>0, <5>1
      <4> QED BY <2>1, <4>1, <4>2
    <3> QED BY <1>0, <3>1, <3>2, <3>3
  <2> QED BY <1>1, <1>6, <2>1 DEF SelectBoth
<1>7. CASE PushType
  <2>1. PICK t \in todo : pushXds(t) \/ SendFails(t)
    BY <1>7 DEF PushType
  <2>2. CASE pushXds(t)
    <3>1. Cardinality(todo \ {t}) = Cardinality(todo) - 1
      BY <1>0, FS_RemoveElement
    <3>2. Cardinality(todo \ {t}) \in Nat
      BY <1>0, FS_RemoveElement, FS_CardinalityType
    <3>3. StepsToRequest = Cardinality(todo) + 2
      BY <1>7 DEF PushType, StepsToRequest
    <3>4. StepsToRequest' = Cardinality(todo \ {t}) + 2
      BY <1>7, <2>2 DEF PushType, pushXds, StepsToRequest
    <3> QED BY <1>0, <3>1, <3>2, <3>3, <3>4
  <2> QED BY <2>1, <2>2 DEF SendFails
<1>8. CASE PushDone
  <2>1. StepsToRequest = Cardinality(todo) + 2 /\ StepsToRequest' = 1
    BY <1>8 DEF PushDone, StepsToRequest
  <2> QED BY <1>0, <2>1
<1> QED BY <1>2, <1>3, <1>4, <1>5, <1>6, <1>7, <1>8
        DEF Next, StreamStep, ReceiveStep, CachesSynced, ClientSends,
            ClientLeaves, Initialize, Recv, HandOver, Offer, Withdraw, vars,
            pushVars

(* When the context is done, a step of Receive lowers its measure and no     *)
(* other step touches it.                                                    *)
LEMMA ReceiverStepsStep ==
    ASSUME StreamInv, BoundInv, [Next]_vars, ContextDone, receiver # "off"
    PROVE  /\ errorChan = <<>>
           /\ \/ ReceiverSteps' \in 0 .. ReceiverSteps - 1
              \/ UNCHANGED <<receiver, held, wire>>
<1>0. /\ errorChan = <<>> /\ wire \in Seq(Requests) /\ Len(wire) \in Nat
      /\ main # "arrives"
  BY LenProperties DEF BoundInv, StreamInv, StreamTypes
<1>1. CASE UNCHANGED <<receiver, held, wire>>
  BY <1>0, <1>1
<1>2. CASE Recv
  <2>0. ReceiverSteps = 2 * Len(wire) + 1
    BY <1>2 DEF Recv, ReceiverSteps
  <2>1. CASE wire # <<>> /\ wire' = Tail(wire) /\ receiver' = "hands over"
    <3>1. Len(wire') = Len(wire) - 1 /\ Len(wire) \in Nat \ {0}
      BY <1>0, <2>1, EmptySeq, HeadTailProperties
    <3>2. ReceiverSteps' = 2 * Len(wire') + 2
      BY <2>1 DEF ReceiverSteps
    <3> QED BY <1>0, <2>0, <3>1, <3>2
  <2>2. CASE receiver' = "off" /\ wire' = wire
    <3>1. ReceiverSteps' = 2 * Len(wire) + 0
      BY <2>2 DEF ReceiverSteps
    <3> QED BY <1>0, <2>0, <3>1
  <2> QED BY <1>2, <2>1, <2>2 DEF Recv
<1>3. CASE HandOver
  <2>0. ReceiverSteps = 2 * Len(wire) + 2
    BY <1>3 DEF HandOver, ReceiverSteps
  <2>1. CASE receiver' = "reads"
    <3>1. ReceiverSteps' = 2 * Len(wire) + 1
      BY <1>3, <2>1 DEF HandOver, ReceiverSteps
    <3> QED BY <1>0, <2>0, <3>1
  <2>2. CASE receiver' = "off"
    <3>1. ReceiverSteps' = 2 * Len(wire) + 0
      BY <1>3, <2>2 DEF HandOver, ReceiverSteps
    <3> QED BY <1>0, <2>0, <3>1
  <2> QED BY <1>3, <2>1, <2>2 DEF HandOver
<1>4. ~ ClientSends /\ ~ Accept
  BY <1>0 DEF ClientSends, ContextDone, Accept
<1>5. CASE CachesSynced \/ ClientLeaves \/ Initialize \/ Offer \/ Withdraw
  BY <1>1, <1>5 DEF CachesSynced, ClientLeaves, Initialize, Offer, Withdraw,
                    receiverVars
<1>6. CASE Begin \/ SelectRequest \/ SelectBoth \/ PushType \/ PushDone
  BY <1>1, <1>6 DEF Begin, SelectRequest, SelectBoth, Process, PushType,
                    PushDone, receiverVars
<1>7. CASE UNCHANGED vars
  BY <1>1, <1>7 DEF vars
<1> QED BY <1>2, <1>3, <1>4, <1>5, <1>6, <1>7
        DEF Next, StreamStep, ReceiveStep

(* A request in reqChan is overtaken by one push at most, of any number of   *)
(* types and however many the pusher offers: the measure StepsToRequest,     *)
(* which no step but those of Stream (pkg/xds/stream.go) changes, goes down. *)
THEOREM OnePushOvertakesOnly == Spec => OnePushOvertakes
<1>1. StreamInv /\ BoundInv /\ [Next]_vars =>
          [reqChan # <<>> =>
              \/ processed' # processed
              \/ main' = "ended"
              \/ StepsToRequest' \in 0 .. StepsToRequest - 1
              \/ UNCHANGED <<main, todo, watched>>]_vars
  BY PushOvertakesStep
<1> QED BY <1>1, StreamInvHolds, BoundInvHolds, PTL DEF Spec, OnePushOvertakes

(* Once the context is done Receive (pkg/xds/stream.go) has no more steps    *)
(* left than ReceiverSteps says, for any number of requests on the wire, and *)
(* finds room for the one error it reports.                                  *)
THEOREM ReceiverStaysBounded == Spec => ReceiverIsBounded
<1>1. StreamInv /\ BoundInv /\ [Next]_vars =>
          [ContextDone /\ receiver # "off" =>
              /\ errorChan = <<>>
              /\ \/ ReceiverSteps' \in 0 .. ReceiverSteps - 1
                 \/ UNCHANGED <<receiver, held, wire>>]_vars
  BY ReceiverStepsStep
<1> QED BY <1>1, StreamInvHolds, BoundInvHolds, PTL DEF Spec, ReceiverIsBounded
=============================================================================
