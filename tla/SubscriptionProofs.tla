------------------------- MODULE SubscriptionProofs -------------------------
(***************************************************************************)
(* Subscriptions agree with what the validator sends, are never replaced   *)
(* and do not outlive their connection, for any number of connections and  *)
(* requests.  The invariant says what the lock protects, and how the       *)
(* subscribe messages on their way relate to the subscriptions made.       *)
(*                                                                         *)
(* Every notification carries the id of a request that subscribed to it,   *)
(* whichever consumer sends it and whatever happened since the consumer    *)
(* looked the subscription up.                                             *)
(*                                                                         *)
(* An update is passed over only if the client is notified of it, where    *)
(* hashes tell events apart, and no update is sent twice, where a          *)
(* connection has one consumer.                                            *)
(***************************************************************************)
EXTENDS EventSubscription, SumProofs, SequenceTheorems, TLAPS

\* The variables that subscriptions depend on.
subscriptionVars == <<open, pc, request, event_lock, event_types, subsevt, wire, upheld>>

Subscribed(ws) == {t \in EventTypes : subsevt[ws][t] # None}
Busy(r) == pc[r] \in {"list_blocks", "sent", "replied"}

SubscribeMessages == [request : Requests, types : SUBSET EventTypes]

\* The part of TypeOK that subscriptions depend on.
SubscriptionType ==
    /\ open \subseteq Connections
    /\ pc \in [Requests -> {"new", "waiting", "list_blocks", "sent", "replied", "done"}]
    /\ request \in [Requests -> Params \cup {NoParams}]
    /\ \A r \in Requests : pc[r] # "new" => request[r] \in Params
    /\ event_types \in [Requests -> SUBSET EventTypes]
    /\ subsevt \in [Connections -> [EventTypes -> Requests \cup {None}]]
    /\ wire \in [Connections -> Seq(SubscribeMessages)]
    /\ upheld \in [Connections -> SUBSET EventTypes]

(* A subscribe request between two awaits holds the lock, its event is not *)
(* subscribed to, and the types it asks for include all that are.          *)
UnderLock ==
    \A r \in Requests : Busy(r) =>
        /\ event_lock = r
        /\ subsevt[request[r].ws][request[r].event_type] = None
        /\ Subscribed(request[r].ws) \cup {request[r].event_type} \subseteq event_types[r]

(* Whichever subscribe message the validator reads next, of a request that *)
(* waits for it or of one that gave up, it names all that is subscribed    *)
(* to; the one waited for comes last.                                      *)
OnWire ==
    \A ws \in Connections : \A i \in 1..Len(wire[ws]) :
        /\ pc[wire[ws][i].request] \in {"sent", "done"}
        /\ request[wire[ws][i].request].ws = ws
        /\ wire[ws][i].types = event_types[wire[ws][i].request]
        /\ Subscribed(ws) \subseteq wire[ws][i].types
        /\ pc[wire[ws][i].request] = "sent" => i = Len(wire[ws])

(* When the validator has taken a request's message none is left, and it   *)
(* sends what the message named.                                           *)
Replied ==
    \A r \in Requests : (pc[r] = "replied" /\ request[r].ws \in open) =>
        /\ wire[request[r].ws] = <<>>
        /\ event_types[r] \subseteq upheld[request[r].ws]

(* The inductive invariant.                                                *)
Inv ==
    /\ SubscriptionType
    /\ UnderLock
    /\ OnWire
    /\ Replied
    /\ SubscriptionsUpheld
    /\ NoneAfterClose

(* At first nothing is subscribed to and nothing is on its way.            *)
LEMMA InitInv == Init => Inv
BY EventAssumption
   DEF Init, Inv, SubscriptionType, UnderLock, Busy, Subscribed, OnWire, Replied, SubscriptionsUpheld,
       NoneAfterClose, NoParams

(* Notifications, polls, events and progress of batches do not touch the   *)
(* subscriptions.                                                          *)
LEMMA QuietSteps ==
    ASSUME \/ \E r \in Requests : consume(r) \/ produce(r)
           \/ \E block \in SUBSET Events : ValidatorEvents(block)
           \/ \E id \in Batches : BatchProgress(id)
           \/ UNCHANGED vars
    PROVE  UNCHANGED subscriptionVars
<1>1. CASE \E r \in Requests : consume(r)
  BY <1>1 DEF consume, process_msg, process_msg_looked_up, process_msg_sent, requestVars,
              validatorVars, subscriptionVars
<1>2. CASE \E r \in Requests : produce(r)
  BY <1>2 DEF produce, produce_custom_msg, produce_custom_msg_status, produce_custom_msg_failed,
         produce_custom_msg_empty,      produce_custom_msg_empty, requestVars, validatorVars, subscriptionVars
<1>3. CASE \/ \E block \in SUBSET Events : ValidatorEvents(block)
           \/ \E id \in Batches : BatchProgress(id)
           \/ UNCHANGED vars
  BY <1>3 DEF ValidatorEvents, BatchProgress, vars, requestVars, validatorVars, subscriptionVars
<1> QED
  BY <1>1, <1>2, <1>3

(* A message on its way is of a request.                                   *)
LEMMA OnWireType ==
    ASSUME SubscriptionType, NEW ws \in Connections, NEW i \in 1..Len(wire[ws])
    PROVE  wire[ws][i].request \in Requests
<1>1. wire[ws] \in Seq(SubscribeMessages)
  BY DEF SubscriptionType
<1>2. wire[ws][i] \in SubscribeMessages
  BY <1>1, ElementOfSeq
<1> QED
  BY <1>2 DEF SubscribeMessages

(* Messages stay as they should be while the requests they are of go on    *)
(* and subscriptions end.                                                  *)
LEMMA WireKept ==
    ASSUME SubscriptionType, OnWire, UNCHANGED wire,
           \A q \in Requests : pc[q] \in {"sent", "done"} =>
               /\ pc'[q] \in {pc[q], "done"}
               /\ request'[q] = request[q]
               /\ event_types'[q] = event_types[q],
           \A ws \in Connections : Subscribed(ws)' \subseteq Subscribed(ws)
    PROVE  OnWire'
<1> SUFFICES ASSUME NEW ws \in Connections, NEW i \in 1..Len(wire[ws])
             PROVE  /\ pc'[wire[ws][i].request] \in {"sent", "done"}
                    /\ request'[wire[ws][i].request].ws = ws
                    /\ wire[ws][i].types = event_types'[wire[ws][i].request]
                    /\ Subscribed(ws)' \subseteq wire[ws][i].types
                    /\ pc'[wire[ws][i].request] = "sent" => i = Len(wire[ws])
  BY DEF OnWire
<1>1. wire[ws][i].request \in Requests
  BY OnWireType
<1>2. /\ pc[wire[ws][i].request] \in {"sent", "done"}
      /\ request[wire[ws][i].request].ws = ws
      /\ wire[ws][i].types = event_types[wire[ws][i].request]
      /\ Subscribed(ws) \subseteq wire[ws][i].types
      /\ pc[wire[ws][i].request] = "sent" => i = Len(wire[ws])
  BY DEF OnWire
<1> QED
  BY <1>1, <1>2

(* Nor do they disturb the invariant, then.                                *)
LEMMA QuietStep ==
    ASSUME Inv, UNCHANGED subscriptionVars
    PROVE  Inv'
<1>1. SubscriptionType'
  BY DEF subscriptionVars, Inv, SubscriptionType
<1>2. UnderLock' /\ Replied'
  BY DEF subscriptionVars, Inv, UnderLock, Busy, Subscribed, Replied
<1>3. OnWire'
  BY WireKept DEF subscriptionVars, Inv, Subscribed
<1>4. SubscriptionsUpheld' /\ NoneAfterClose'
  BY DEF subscriptionVars, Inv, SubscriptionsUpheld, NoneAfterClose
<1> QED
  BY <1>1, <1>2, <1>3, <1>4 DEF Inv

(* A message that is received starts a request that neither holds the lock *)
(* nor has anything on its way.                                            *)
LEMMA ReceivedStep ==
    ASSUME Inv, NEW r \in Requests, NEW params \in Params, handle_websocket_request(r, params)
    PROVE  Inv'
<1> USE DEF handle_websocket_request, validatorVars
<1>1. SubscriptionType'
  BY DEF Inv, SubscriptionType
<1>2. UnderLock' /\ Replied' /\ SubscriptionsUpheld' /\ NoneAfterClose'
  BY DEF Inv, SubscriptionType, UnderLock, Busy, Subscribed, Replied, SubscriptionsUpheld,
         NoneAfterClose
<1>3. OnWire'
  BY WireKept DEF Inv, SubscriptionType, Subscribed
<1> QED
  BY <1>1, <1>2, <1>3 DEF Inv

(* A request that ends with an error, and frees the lock if it had it.     *)
LEMMA ErrorStep ==
    ASSUME Inv, NEW r \in Requests, subscribe_refused(r) \/ subscribe_failed(r)
    PROVE  Inv'
<1> USE DEF subscribe_refused, subscribe_failed, acquire, Answer, validatorVars
<1>1. SubscriptionType'
  BY DEF Inv, SubscriptionType
<1>2. UnderLock'
  <2>1. CASE subscribe_refused(r)
    BY <2>1, EventAssumption DEF Inv, SubscriptionType, UnderLock, Busy, Subscribed
  <2>2. CASE subscribe_failed(r)
    BY <2>2, EventAssumption DEF Inv, SubscriptionType, UnderLock, Busy, Subscribed
  <2> QED
    BY <2>1, <2>2
<1>3. Replied' /\ SubscriptionsUpheld' /\ NoneAfterClose'
  BY DEF Inv, SubscriptionType, Replied, SubscriptionsUpheld, NoneAfterClose
<1>4. OnWire'
  BY WireKept DEF Inv, SubscriptionType, Subscribed
<1> QED
  BY <1>1, <1>2, <1>3, <1>4 DEF Inv

(* unsubscribe runs when nobody has the lock.                              *)
LEMMA UnsubscribeStep ==
    ASSUME Inv, NEW r \in Requests, unsubscribe(r)
    PROVE  Inv'
<1> USE DEF unsubscribe, acquire, Answer, validatorVars
<1>a. /\ request[r] \in Params
      /\ request[r].ws \in Connections /\ request[r].event_type \in EventTypes
  BY EventAssumption DEF Inv, SubscriptionType
<1>b. \A q \in Requests : ~Busy(q)
  BY EventAssumption DEF Inv, UnderLock
<1>c. \A ws \in Connections : Subscribed(ws)' \subseteq Subscribed(ws)
  BY <1>a DEF Inv, SubscriptionType, Subscribed
<1>1. SubscriptionType'
  BY <1>a DEF Inv, SubscriptionType
<1>2. UnderLock' /\ Replied'
  BY <1>b DEF Inv, SubscriptionType, UnderLock, Busy, Replied
<1>3. SubscriptionsUpheld'
  BY <1>a DEF Inv, SubscriptionType, SubscriptionsUpheld
<1>4. NoneAfterClose'
  BY <1>a DEF Inv, SubscriptionType, NoneAfterClose
<1>5. OnWire'
  BY <1>c, WireKept DEF Inv, SubscriptionType
<1> QED
  BY <1>1, <1>2, <1>3, <1>4, <1>5 DEF Inv

-----------------------------------------------------------------------------
(* What is sent is a subscribe message.                                    *)
LEMMA SentType ==
    ASSUME SubscriptionType, NEW r \in Requests, NEW types \in SUBSET EventTypes,
           request[r].ws \in Connections, send_subscribe(r, types)
    PROVE  wire' \in [Connections -> Seq(SubscribeMessages)]
<1> DEFINE m == [request |-> r, types |-> types]
<1>1. m \in SubscribeMessages
  BY DEF SubscribeMessages
<1>2. wire[request[r].ws] \in Seq(SubscribeMessages)
  BY DEF SubscriptionType
<1> HIDE DEF m
<1>3. Append(wire[request[r].ws], m) \in Seq(SubscribeMessages)
  BY <1>1, <1>2
<1>4. wire' = [wire EXCEPT ![request[r].ws] = Append(wire[request[r].ws], m)]
  BY DEF send_subscribe, m
<1> QED
  BY <1>3, <1>4 DEF SubscriptionType

(* What a lock holder sends comes last and names all that is subscribed to. *)
LEMMA WireSent ==
    ASSUME SubscriptionType, OnWire, NEW r \in Requests, NEW types \in SUBSET EventTypes,
           request[r].ws \in Connections,
           pc[r] \in {"waiting", "list_blocks"}, \A q \in Requests : Busy(q) => q = r,
           pc' = [pc EXCEPT ![r] = "sent"],
           send_subscribe(r, types),
           event_types' = [event_types EXCEPT ![r] = types],
           Subscribed(request[r].ws) \subseteq types,
           UNCHANGED <<request, subsevt>>
    PROVE  OnWire'
<1> SUFFICES ASSUME NEW ws \in Connections, NEW i \in 1..Len(wire'[ws])
             PROVE  /\ pc'[wire'[ws][i].request] \in {"sent", "done"}
                    /\ request[wire'[ws][i].request].ws = ws
                    /\ wire'[ws][i].types = event_types'[wire'[ws][i].request]
                    /\ Subscribed(ws) \subseteq wire'[ws][i].types
                    /\ pc'[wire'[ws][i].request] = "sent" => i = Len(wire'[ws])
  BY DEF OnWire, Subscribed
<1>a. wire[ws] \in Seq(SubscribeMessages) /\ Len(wire[ws]) \in Nat
  BY DEF SubscriptionType
<1>1. ASSUME i \in 1..Len(wire[ws]), wire'[ws][i] = wire[ws][i]
      PROVE  /\ pc'[wire'[ws][i].request] = "done"
             /\ request[wire'[ws][i].request].ws = ws
             /\ wire'[ws][i].types = event_types'[wire'[ws][i].request]
             /\ Subscribed(ws) \subseteq wire'[ws][i].types
  <2>1. wire[ws][i].request \in Requests
    BY <1>1, OnWireType
  <2>2. /\ pc[wire[ws][i].request] \in {"sent", "done"}
        /\ request[wire[ws][i].request].ws = ws
        /\ wire[ws][i].types = event_types[wire[ws][i].request]
        /\ Subscribed(ws) \subseteq wire[ws][i].types
    BY <1>1 DEF OnWire
  <2>3. wire[ws][i].request # r /\ pc[wire[ws][i].request] = "done"
    BY <2>1, <2>2 DEF Busy
  <2> QED
    BY <1>1, <2>1, <2>2, <2>3 DEF SubscriptionType
<1>2. CASE ws # request[r].ws
  <2>1. wire'[ws] = wire[ws]
    BY <1>2 DEF send_subscribe, SubscriptionType
  <2> QED
    BY <2>1, <1>1
<1>3. CASE ws = request[r].ws
  <2>1. wire'[ws] = Append(wire[ws], [request |-> r, types |-> types])
    BY <1>3 DEF send_subscribe, SubscriptionType
  <2>2. Len(wire'[ws]) = Len(wire[ws]) + 1
    BY <2>1, <1>a
  <2>3. CASE i = Len(wire'[ws])
    <3>1. wire'[ws][i] = [request |-> r, types |-> types]
      BY <2>1, <2>2, <2>3, <1>a
    <3> QED
      BY <3>1, <1>3, <2>3 DEF SubscriptionType
  <2>4. CASE i # Len(wire'[ws])
    <3>1. i \in 1..Len(wire[ws]) /\ wire'[ws][i] = wire[ws][i]
      BY <2>1, <2>2, <2>4, <1>a
    <3> QED
      BY <3>1, <1>1
  <2> QED
    BY <2>3, <2>4
<1> QED
  BY <1>2, <1>3

(* subscribe takes the lock when nobody has it.                            *)
LEMMA SubscribeStep ==
    ASSUME Inv, NEW r \in Requests, subscribe(r)
    PROVE  Inv'
<1> USE DEF subscribe, acquire
<1>a. /\ request[r] \in Params
      /\ request[r].ws \in Connections /\ request[r].event_type \in EventTypes
  BY EventAssumption DEF Inv, SubscriptionType
<1>b. \A q \in Requests : ~Busy(q)
  BY EventAssumption DEF Inv, UnderLock
<1>c. /\ types_to_resubscribe(r) \in SUBSET EventTypes
      /\ types_to_resubscribe(r) = Subscribed(request[r].ws) \cup {request[r].event_type}
  BY <1>a DEF types_to_resubscribe, Subscribed
<1>d. \/ pc' = [pc EXCEPT ![r] = "sent"] /\ send_subscribe(r, types_to_resubscribe(r))
      \/ pc' = [pc EXCEPT ![r] = "list_blocks"] /\ UNCHANGED wire
  OBVIOUS
<1>1. SubscriptionType'
  <2>1. wire' \in [Connections -> Seq(SubscribeMessages)]
    BY <1>a, <1>c, <1>d, SentType DEF Inv, SubscriptionType
  <2>2. pc' \in [Requests -> {"new", "waiting", "list_blocks", "sent", "replied", "done"}]
        /\ \A q \in Requests : pc'[q] # "new" => pc[q] # "new"
    BY <1>d DEF Inv, SubscriptionType
  <2> QED
    BY <2>1, <2>2, <1>c DEF Inv, SubscriptionType
<1>2. UnderLock'
  <2>1. \A q \in Requests : Busy(q)' => q = r
    BY <1>b, <1>d DEF Busy, Inv, SubscriptionType
  <2>2. event_types'[r] = Subscribed(request[r].ws) \cup {request[r].event_type}
    BY <1>c DEF Inv, SubscriptionType
  <2> QED
    BY <2>1, <2>2 DEF UnderLock, Subscribed, already_subscribed
<1>3. Replied'
  BY <1>b, <1>d DEF Replied, Busy, Inv, SubscriptionType
<1>4. OnWire'
  <2>1. CASE pc' = [pc EXCEPT ![r] = "sent"] /\ send_subscribe(r, types_to_resubscribe(r))
    BY <2>1, <1>a, <1>b, <1>c, WireSent DEF Inv
  <2>2. CASE pc' = [pc EXCEPT ![r] = "list_blocks"] /\ UNCHANGED wire
    BY <2>2, WireKept DEF Inv, SubscriptionType, Subscribed
  <2> QED
    BY <2>1, <2>2, <1>d
<1>5. SubscriptionsUpheld' /\ NoneAfterClose'
  BY DEF Inv, SubscriptionsUpheld, NoneAfterClose
<1> QED
  BY <1>1, <1>2, <1>3, <1>4, <1>5 DEF Inv

(* The message is sent once the newest block is known.                     *)
LEMMA ListedBlocksStep ==
    ASSUME Inv, NEW r \in Requests, subscribe_listed_blocks(r)
    PROVE  Inv'
<1> USE DEF subscribe_listed_blocks
<1>a. /\ request[r] \in Params
      /\ request[r].ws \in Connections /\ event_types[r] \in SUBSET EventTypes
  BY EventAssumption DEF Inv, SubscriptionType
<1>b. /\ Busy(r)
      /\ \A q \in Requests : Busy(q) => q = r
      /\ Subscribed(request[r].ws) \subseteq event_types[r]
  BY DEF Inv, UnderLock, Busy
<1>1. SubscriptionType'
  <2>1. wire' \in [Connections -> Seq(SubscribeMessages)]
    BY <1>a, SentType DEF Inv
  <2> QED
    BY <2>1 DEF Inv, SubscriptionType
<1>2. UnderLock'
  <2>1. \A q \in Requests : Busy(q)' => Busy(q)
    BY <1>b DEF Busy, Inv, SubscriptionType
  <2> QED
    BY <2>1 DEF Inv, UnderLock, Subscribed
<1>3. Replied'
  BY <1>b DEF Replied, Busy, Inv, SubscriptionType
<1>4. OnWire'
  <2>1. event_types' = [event_types EXCEPT ![r] = event_types[r]]
    BY DEF Inv, SubscriptionType
  <2> QED
    BY <2>1, <1>a, <1>b, WireSent DEF Inv
<1>5. SubscriptionsUpheld' /\ NoneAfterClose'
  BY DEF Inv, SubscriptionsUpheld, NoneAfterClose
<1> QED
  BY <1>1, <1>2, <1>3, <1>4, <1>5 DEF Inv

(* The subscription is entered.  The types the validator was asked for     *)
(* include it, and no other message is on its way.                         *)
LEMMA AcceptedStep ==
    ASSUME Inv, NEW r \in Requests, subscribe_accepted(r)
    PROVE  Inv'
<1> DEFINE ws == request[r].ws
           t == request[r].event_type
<1> USE DEF subscribe_accepted, Answer, validatorVars
<1>a. ws \in Connections /\ t \in EventTypes
  BY EventAssumption DEF Inv, SubscriptionType
<1>b. /\ \A q \in Requests : Busy(q) => q = r
      /\ Subscribed(ws) \cup {t} \subseteq event_types[r]
  BY DEF Inv, UnderLock, Busy
<1>c. \/ ws \in open /\ subsevt' = [subsevt EXCEPT ![ws][t] = r]
      \/ UNCHANGED subsevt
  OBVIOUS
<1>d. ws \in open => wire[ws] = <<>> /\ event_types[r] \subseteq upheld[ws]
  BY DEF Inv, Replied
<1>e. \A w \in Connections : w # ws => subsevt'[w] = subsevt[w]
  BY <1>a, <1>c DEF Inv, SubscriptionType
<1>f. Subscribed(ws)' \subseteq Subscribed(ws) \cup {t}
  BY <1>a, <1>c DEF Inv, SubscriptionType, Subscribed
<1>1. SubscriptionType'
  <2>1. subsevt' \in [Connections -> [EventTypes -> Requests \cup {None}]]
    <3> DEFINE Row == [EventTypes -> Requests \cup {None}]
    <3>1. subsevt \in [Connections -> Row] /\ subsevt[ws] \in Row
      BY <1>a DEF Inv, SubscriptionType
    <3>2. [subsevt[ws] EXCEPT ![t] = r] \in Row
      BY <3>1
    <3>3. \/ subsevt' = [subsevt EXCEPT ![ws] = [subsevt[ws] EXCEPT ![t] = r]]
          \/ subsevt' = subsevt
      BY <1>c
    <3> HIDE DEF Row
    <3>4. subsevt' \in [Connections -> Row]
      BY <3>1, <3>2, <3>3
    <3> QED
      BY <3>4 DEF Row
  <2>2. pc' \in [Requests -> {"new", "waiting", "list_blocks", "sent", "replied", "done"}]
        /\ \A q \in Requests : pc'[q] # "new" => pc[q] # "new"
    BY DEF Inv, SubscriptionType
  <2> QED
    BY <2>1, <2>2 DEF Inv, SubscriptionType
<1>2. \A q \in Requests : ~Busy(q)'
  BY <1>b DEF Busy, Inv, SubscriptionType
<1>3. UnderLock' /\ Replied'
  BY <1>2 DEF UnderLock, Replied, Busy
<1>4. OnWire'
  <2>1. CASE UNCHANGED subsevt
    BY <2>1, WireKept DEF Inv, SubscriptionType, Subscribed
  <2>2. CASE ws \in open
    <3> SUFFICES ASSUME NEW w \in Connections, NEW i \in 1..Len(wire[w])
                 PROVE  /\ pc'[wire[w][i].request] \in {"sent", "done"}
                        /\ request[wire[w][i].request].ws = w
                        /\ wire[w][i].types = event_types[wire[w][i].request]
                        /\ Subscribed(w)' \subseteq wire[w][i].types
                        /\ pc'[wire[w][i].request] = "sent" => i = Len(wire[w])
      BY DEF OnWire
    <3>1. w # ws
      BY <2>2, <1>d
    <3>2. Subscribed(w)' = Subscribed(w)
      BY <3>1, <1>e DEF Subscribed
    <3>3. wire[w][i].request \in Requests
      BY OnWireType DEF Inv
    <3>4. /\ pc[wire[w][i].request] \in {"sent", "done"}
          /\ request[wire[w][i].request].ws = w
          /\ wire[w][i].types = event_types[wire[w][i].request]
          /\ Subscribed(w) \subseteq wire[w][i].types
          /\ pc[wire[w][i].request] = "sent" => i = Len(wire[w])
      BY DEF Inv, OnWire
    <3> QED
      BY <3>2, <3>3, <3>4 DEF Inv, SubscriptionType
  <2> QED
    BY <2>1, <2>2, <1>c
<1>5. SubscriptionsUpheld'
  <2>1. CASE UNCHANGED subsevt
    BY <2>1 DEF Inv, SubscriptionsUpheld
  <2>2. CASE ws \in open
    BY <2>2, <1>a, <1>b, <1>d, <1>e, <1>f DEF Inv, SubscriptionsUpheld, Subscribed
  <2> QED
    BY <2>1, <2>2, <1>c
<1>6. NoneAfterClose'
  BY <1>a, <1>c, <1>e DEF Inv, NoneAfterClose
<1> QED
  BY <1>1, <1>3, <1>4, <1>5, <1>6 DEF Inv

(* A close removes the subscriptions and the messages of its connection.   *)
LEMMA ExitStep ==
    ASSUME Inv, NEW ws \in Connections, register_exit(ws)
    PROVE  Inv'
<1> USE DEF register_exit, requestVars
<1>a. /\ \A w \in Connections : Subscribed(w)' \subseteq Subscribed(w)
      /\ Subscribed(ws)' = {}
      /\ \A w \in Connections : w # ws => /\ subsevt'[w] = subsevt[w]
                                          /\ wire'[w] = wire[w]
                                          /\ upheld'[w] = upheld[w]
      /\ wire'[ws] = <<>>
  BY DEF Inv, SubscriptionType, Subscribed
<1>1. SubscriptionType'
  <2>1. <<>> \in Seq(SubscribeMessages)
    OBVIOUS
  <2>2. wire' \in [Connections -> Seq(SubscribeMessages)]
    BY <2>1 DEF Inv, SubscriptionType
  <2>3. subsevt' \in [Connections -> [EventTypes -> Requests \cup {None}]]
    BY DEF Inv, SubscriptionType
  <2> QED
    BY <2>2, <2>3 DEF Inv, SubscriptionType
<1>2. UnderLock'
  <2> SUFFICES ASSUME NEW r \in Requests, Busy(r)
               PROVE  /\ event_lock = r
                      /\ subsevt'[request[r].ws][request[r].event_type] = None
                      /\ Subscribed(request[r].ws)' \cup {request[r].event_type}
                            \subseteq event_types[r]
    BY DEF UnderLock, Busy
  <2>1. request[r].ws \in Connections /\ request[r].event_type \in EventTypes
    BY EventAssumption DEF Inv, SubscriptionType, Busy
  <2>2. /\ event_lock = r
        /\ subsevt[request[r].ws][request[r].event_type] = None
        /\ Subscribed(request[r].ws) \cup {request[r].event_type} \subseteq event_types[r]
    BY DEF Inv, UnderLock
  <2> QED
    BY <2>1, <2>2, <1>a DEF Inv, SubscriptionType
<1>3. Replied'
  <2> SUFFICES ASSUME NEW r \in Requests, pc[r] = "replied", request[r].ws \in open \ {ws}
               PROVE  /\ wire'[request[r].ws] = <<>>
                      /\ event_types[r] \subseteq upheld'[request[r].ws]
    BY DEF Replied
  <2> QED
    BY <1>a DEF Inv, SubscriptionType, Replied
<1>4. OnWire'
  <2> SUFFICES ASSUME NEW w \in Connections, NEW i \in 1..Len(wire'[w])
               PROVE  /\ pc[wire'[w][i].request] \in {"sent", "done"}
                      /\ request[wire'[w][i].request].ws = w
                      /\ wire'[w][i].types = event_types[wire'[w][i].request]
                      /\ Subscribed(w)' \subseteq wire'[w][i].types
                      /\ pc[wire'[w][i].request] = "sent" => i = Len(wire'[w])
    BY DEF OnWire
  <2>1. w # ws /\ wire'[w] = wire[w]
    BY <1>a
  <2> QED
    BY <2>1, <1>a DEF Inv, OnWire
<1>5. SubscriptionsUpheld' /\ NoneAfterClose'
  <2>1. \A w \in Connections, t \in EventTypes :
            subsevt'[w][t] # None => w # ws /\ subsevt'[w][t] = subsevt[w][t]
    BY DEF Inv, SubscriptionType
  <2> QED
    BY <2>1, <1>a DEF Inv, SubscriptionsUpheld, NoneAfterClose
<1> QED
  BY <1>1, <1>2, <1>3, <1>4, <1>5 DEF Inv

(* The validator reads the oldest message: what it names includes all that *)
(* is subscribed to, and if its request still waits it was the last.       *)
LEMMA AcceptsStep ==
    ASSUME Inv, NEW ws \in Connections, ValidatorAccepts(ws)
    PROVE  Inv'
<1> DEFINE r == wire[ws][1].request
           types == wire[ws][1].types
<1>a. /\ wire[ws] \in Seq(SubscribeMessages) /\ wire[ws] # <<>>
      /\ Head(wire[ws]) = wire[ws][1]
      /\ Len(wire[ws]) \in Nat /\ 1 \in 1..Len(wire[ws])
  BY DEF ValidatorAccepts, Inv, SubscriptionType
<1>b. /\ upheld' = [upheld EXCEPT ![ws] = types]
      /\ pc' = [pc EXCEPT ![r] = IF pc[r] = "sent" THEN "replied" ELSE pc[r]]
      /\ wire' = [wire EXCEPT ![ws] = Tail(wire[ws])]
      /\ UNCHANGED <<open, request, event_lock, event_types, subsevt>>
  BY <1>a DEF ValidatorAccepts
<1>c. /\ r \in Requests
      /\ types \in SUBSET EventTypes
  <2>1. wire[ws][1] \in SubscribeMessages
    BY <1>a, ElementOfSeq
  <2> QED
    BY <2>1 DEF SubscribeMessages
<1>d. /\ pc[r] \in {"sent", "done"}
      /\ request[r].ws = ws
      /\ types = event_types[r]
      /\ Subscribed(ws) \subseteq types
      /\ pc[r] = "sent" => 1 = Len(wire[ws])
  BY <1>a DEF Inv, OnWire
<1> HIDE DEF r, types
<1>e. \A q \in Requests : /\ q # r => pc'[q] = pc[q]
                          /\ Busy(q)' <=> Busy(q)
  BY <1>b, <1>c, <1>d DEF Inv, SubscriptionType, Busy
<1>1. SubscriptionType'
  <2>1. Tail(wire[ws]) \in Seq(SubscribeMessages)
    BY <1>a
  <2>2. wire' \in [Connections -> Seq(SubscribeMessages)]
    BY <2>1, <1>b DEF Inv, SubscriptionType
  <2>3. pc' \in [Requests -> {"new", "waiting", "list_blocks", "sent", "replied", "done"}]
        /\ \A q \in Requests : pc'[q] # "new" => pc[q] # "new"
    BY <1>b, <1>c, <1>d DEF Inv, SubscriptionType
  <2> QED
    BY <2>2, <2>3, <1>b, <1>c DEF Inv, SubscriptionType
<1>2. UnderLock'
  BY <1>b, <1>e DEF Inv, UnderLock, Subscribed
<1>3. Replied'
  <2> SUFFICES ASSUME NEW q \in Requests, pc'[q] = "replied", request[q].ws \in open
               PROVE  /\ wire'[request[q].ws] = <<>>
                      /\ event_types[q] \subseteq upheld'[request[q].ws]
    BY <1>b DEF Replied
  <2>1. CASE q = r
    <3>1. pc[r] = "sent"
      BY <2>1, <1>b, <1>c, <1>d DEF Inv, SubscriptionType
    <3>2. Tail(wire[ws]) \in Seq(SubscribeMessages) /\ Len(Tail(wire[ws])) = 0
      BY <3>1, <1>a, <1>d, HeadTailProperties
    <3>3. Tail(wire[ws]) = <<>>
      BY <3>2, EmptySeq
    <3> QED
      BY <2>1, <3>3, <1>b, <1>d DEF Inv, SubscriptionType
  <2>2. CASE q # r
    <3>1. pc[q] = "replied"
      BY <2>2, <1>e
    <3>2. wire[request[q].ws] = <<>> /\ event_types[q] \subseteq upheld[request[q].ws]
      BY <3>1 DEF Inv, Replied
    <3>3. request[q].ws # ws /\ request[q].ws \in Connections
      BY <3>2, <1>a DEF Inv, SubscriptionType
    <3> QED
      BY <3>2, <3>3, <1>b DEF Inv, SubscriptionType
  <2> QED
    BY <2>1, <2>2
<1>4. OnWire'
  <2> SUFFICES ASSUME NEW w \in Connections, NEW i \in 1..Len(wire'[w])
               PROVE  /\ pc'[wire'[w][i].request] \in {"sent", "done"}
                      /\ request[wire'[w][i].request].ws = w
                      /\ wire'[w][i].types = event_types[wire'[w][i].request]
                      /\ Subscribed(w) \subseteq wire'[w][i].types
                      /\ pc'[wire'[w][i].request] = "sent" => i = Len(wire'[w])
    BY <1>b DEF OnWire, Subscribed
  <2>1. ASSUME NEW j \in 1..Len(wire[w])
        PROVE  /\ wire[w][j].request \in Requests
               /\ pc[wire[w][j].request] \in {"sent", "done"}
               /\ request[wire[w][j].request].ws = w
               /\ wire[w][j].types = event_types[wire[w][j].request]
               /\ Subscribed(w) \subseteq wire[w][j].types
               /\ pc[wire[w][j].request] = "sent" => j = Len(wire[w])
    BY OnWireType DEF Inv, OnWire
  <2>2. CASE w # ws
    <3>1. wire'[w] = wire[w]
      BY <2>2, <1>b DEF Inv, SubscriptionType
    <3>2. wire[w][i].request # r
      BY <3>1, <2>1, <2>2, <1>d
    <3> QED
      BY <3>1, <3>2, <2>1, <1>e
  <2>3. CASE w = ws
    <3>1. wire'[w] = Tail(wire[w])
      BY <2>3, <1>b DEF Inv, SubscriptionType
    <3>2. /\ Len(wire'[w]) = Len(wire[w]) - 1
          /\ i + 1 \in 1..Len(wire[w])
          /\ wire'[w][i] = wire[w][i + 1]
      BY <3>1, <2>3, <1>a
    <3>3. Len(wire[ws]) # 1
      BY <3>2, <2>3, <1>a
    <3>4. pc[r] = "done"
      BY <3>3, <1>d
    <3>5. pc' = pc
      BY <3>4, <1>b, <1>c DEF Inv, SubscriptionType
    <3> QED
      BY <3>2, <3>5, <2>1, <2>3, <1>a
  <2> QED
    BY <2>2, <2>3
<1>5. SubscriptionsUpheld'
  <2> SUFFICES ASSUME NEW w \in Connections, NEW t \in EventTypes, subsevt[w][t] # None
               PROVE  t \in upheld'[w]
    BY <1>b DEF SubscriptionsUpheld
  <2>1. t \in Subscribed(w)
    BY DEF Subscribed
  <2> QED
    BY <2>1, <1>b, <1>d DEF Inv, SubscriptionType, SubscriptionsUpheld
<1>6. NoneAfterClose'
  BY <1>b DEF Inv, NoneAfterClose
<1> QED
  BY <1>1, <1>2, <1>3, <1>4, <1>5, <1>6 DEF Inv

-----------------------------------------------------------------------------
(* The invariant holds whatever clients and validator do.                  *)
THEOREM Safety == Spec => []Inv
<1>1. Inv /\ [Next]_vars => Inv'
  <2> SUFFICES ASSUME Inv, [Next]_vars PROVE Inv'
    OBVIOUS
  <2>1. CASE Environment
    BY <2>1, ReceivedStep, ExitStep, AcceptsStep, QuietSteps, QuietStep DEF Environment
  <2>2. CASE \E r \in Requests : RequestStep(r)
    BY <2>2, ErrorStep, SubscribeStep, ListedBlocksStep, AcceptedStep, UnsubscribeStep
       DEF RequestStep
  <2>3. CASE (\E r \in Requests : consume(r) \/ produce(r)) \/ UNCHANGED vars
    BY <2>3, QuietSteps, QuietStep
  <2> QED
    BY <2>1, <2>2, <2>3 DEF Next
<1> QED
  BY InitInv, <1>1, PTL DEF Spec

(* The validator sends what the node believes it is subscribed to, for any *)
(* order of requests, timeouts, late acceptance and closes.                *)
THEOREM SubscriptionsUpheldCorrect == Spec => []SubscriptionsUpheld
<1>1. Inv => SubscriptionsUpheld
  BY DEF Inv
<1> QED
  BY Safety, <1>1, PTL

(* A closed connection has no subscription.                                *)
THEOREM NoneAfterCloseCorrect == Spec => []NoneAfterClose
<1>1. Inv => NoneAfterClose
  BY DEF Inv
<1> QED
  BY Safety, <1>1, PTL

(* A subscription is never replaced by another request for the same event. *)
THEOREM NeverReplacedCorrect == Spec => NeverReplaced
<1>1. Inv /\ [Next]_vars =>
          [\A ws \in Connections, t \in EventTypes :
              subsevt[ws][t] # None => subsevt'[ws][t] \in {subsevt[ws][t], None}]_vars
  <2> SUFFICES ASSUME Inv, [Next]_vars, NEW ws \in Connections, NEW t \in EventTypes,
                      subsevt[ws][t] # None
               PROVE  subsevt'[ws][t] \in {subsevt[ws][t], None}
    OBVIOUS
  <2>a. subsevt \in [Connections -> [EventTypes -> Requests \cup {None}]]
    BY DEF Inv, SubscriptionType
  <2>b. \A r \in Requests : pc[r] # "new" =>
            request[r].ws \in Connections /\ request[r].event_type \in EventTypes
    BY EventAssumption DEF Inv, SubscriptionType
  <2>1. ASSUME NEW r \in Requests, subscribe_accepted(r)
        PROVE  subsevt'[ws][t] = subsevt[ws][t]
    <3>1. subsevt[request[r].ws][request[r].event_type] = None
      BY <2>1 DEF subscribe_accepted, Inv, UnderLock, Busy
    <3>2. \/ subsevt' = [subsevt EXCEPT ![request[r].ws][request[r].event_type] = r]
          \/ UNCHANGED subsevt
      BY <2>1 DEF subscribe_accepted
    <3> QED
      BY <3>1, <3>2, <2>a
  <2>2. ASSUME NEW r \in Requests, unsubscribe(r)
        PROVE  subsevt'[ws][t] \in {subsevt[ws][t], None}
    BY <2>2, <2>a DEF unsubscribe
  <2>3. ASSUME NEW w \in Connections, register_exit(w)
        PROVE  subsevt'[ws][t] \in {subsevt[ws][t], None}
    BY <2>3, <2>a DEF register_exit
  <2>4. CASE Environment
    <3>1. CASE \E r \in Requests, params \in Params : handle_websocket_request(r, params)
      BY <3>1 DEF handle_websocket_request
    <3>2. CASE \E w \in Connections : ValidatorAccepts(w)
      BY <3>2 DEF ValidatorAccepts
    <3> QED
      BY <2>4, <3>1, <3>2, <2>3, QuietSteps DEF Environment, subscriptionVars
  <2>5. CASE \E r \in Requests : RequestStep(r)
    <3> PICK r \in Requests : RequestStep(r)
      BY <2>5
    <3>1. CASE subscribe_refused(r) \/ subscribe(r) \/ subscribe_listed_blocks(r)
               \/ subscribe_failed(r)
      BY <3>1 DEF subscribe_refused, subscribe, subscribe_listed_blocks, subscribe_failed
    <3> QED
      BY <3>1, <2>1, <2>2 DEF RequestStep
  <2>6. CASE (\E r \in Requests : consume(r) \/ produce(r)) \/ UNCHANGED vars
    BY <2>6, QuietSteps DEF subscriptionVars
  <2> QED
    BY <2>4, <2>5, <2>6 DEF Next
<1> QED
  BY Safety, <1>1, PTL DEF Spec, NeverReplaced

-----------------------------------------------------------------------------
(* Min picks the least element of a set of natural numbers.                *)
LEMMA LeastIndex ==
    ASSUME NEW S, S \subseteq Nat, S # {}
    PROVE  Min(S) \in S /\ \A i \in S : Min(S) =< i
BY LeastNatural DEF Min

\* A subscription that an event may be sent under.
Serves(q, ws, m) ==
    /\ q \in Requests
    /\ answer[q] = "SUBSCRIBED"
    /\ request[q].ws = ws
    /\ request[q].event_type = evt_name(m)

\* A consumer goes on with the next event of its message, or takes the next.
Receiving(r) ==
    /\ consumer' = [consumer EXCEPT ![r] = [idle EXCEPT !.pc = "receive"]]
    /\ UNCHANGED sent
Finding(r, m, msg_id, rest) ==
    /\ consumer' = [consumer EXCEPT ![r] = [pc |-> "lookup", msg |-> m, msg_id |-> msg_id,
                                            rest |-> rest]]
    /\ UNCHANGED sent

(* A request that is not over has no answer and no consumer.               *)
TaskType ==
    /\ answer \in [Requests -> {None, "error", "SUBSCRIBED", "UNSUBSCRIBED"}]
    /\ consumer = [r \in Requests |-> consumer[r]]
    /\ \A r \in Requests : pc[r] # "done" => answer[r] = None /\ consumer[r] = idle

(* A subscription is named by the request that was told it is made.        *)
Made ==
    \A ws \in Connections, t \in EventTypes : subsevt[ws][t] # None =>
        /\ answer[subsevt[ws][t]] = "SUBSCRIBED"
        /\ request[subsevt[ws][t]].ws = ws
        /\ request[subsevt[ws][t]].event_type = t

(* The id a consumer keeps over an await is of such a request, and so is   *)
(* that of every notification.                                             *)
AtHand ==
    \A r \in Requests : consumer[r].pc \in {"lookup", "drain"} =>
        Serves(consumer[r].msg_id, request[r].ws, consumer[r].msg)
Served == \A n \in sent : Serves(n.msg_id, n.ws, n.msg)

(* The inductive invariant.                                                *)
NotifyInv == Inv /\ TaskType /\ Made /\ AtHand /\ Served

(* At first there is neither answer, consumer nor notification.            *)
LEMMA InitNotifyInv == Init => NotifyInv
<1>1. Init => TaskType
  BY DEF Init, TaskType
<1>2. Init => Made /\ AtHand /\ Served
  BY DEF Init, Made, AtHand, Served, idle
<1> QED
  BY <1>1, <1>2, InitInv DEF NotifyInv

(* The loop over the events of a message stops at one that is wanted.      *)
LEMMA EventsOutcome ==
    ASSUME NEW r \in Requests, NEW list, NEW hashes, process_events(r, list, hashes)
    PROVE  \/ Receiving(r)
           \/ \E m, rest :
                 /\ wanted(request[r].ws, m)
                 /\ \/ Finding(r, m, subscription(request[r].ws, m), rest)
                    \/ notify(r, request[r].ws, m, subscription(request[r].ws, m), rest)
<1> DEFINE ws == request[r].ws
           ours == {i \in 1..Len(list) : ~skipped(ws, list[i], hashes)}
           m == list[Min(ours)]
           rest == SubSeq(list, Min(ours) + 1, Len(list))
<1>1. CASE ours = {}
  BY <1>1 DEF process_events, Receiving
<1>2. CASE ours # {}
  <2>1. ours \subseteq Nat
    OBVIOUS
  <2>2. Min(ours) \in ours
    BY <1>2, <2>1, LeastIndex
  <2>3. wanted(ws, m)
    BY <2>2 DEF skipped
  <2>4. \/ Finding(r, m, subscription(ws, m), rest)
        \/ notify(r, ws, m, subscription(ws, m), rest)
    BY <1>2 DEF process_events, Finding
  <2> QED
    BY <2>3, <2>4
<1> QED
  BY <1>1, <1>2

(* The subscription that an event is wanted by may be notified of it.      *)
LEMMA WantedServes ==
    ASSUME NotifyInv, NEW ws \in Connections, NEW m, wanted(ws, m)
    PROVE  Serves(subscription(ws, m), ws, m)
<1>1. evt_name(m) \in EventTypes
  BY EventAssumption DEF evt_name
<1>2. subscription(ws, m) \in Requests
  BY <1>1 DEF wanted, subscription, NotifyInv, Inv, SubscriptionType
<1> QED
  BY <1>1, <1>2 DEF wanted, subscription, Serves, NotifyInv, Made

(* What was answered stays answered.                                       *)
LEMMA ServesForEver ==
    ASSUME TaskType, NEW q, NEW ws, NEW m, Serves(q, ws, m),
           \A r \in Requests : pc[r] = "done" => answer'[r] = answer[r] /\ request'[r] = request[r]
    PROVE  Serves(q, ws, m)'
<1>1. q \in Requests /\ pc[q] = "done"
  BY EventAssumption DEF TaskType, Serves
<1> QED
  BY <1>1 DEF Serves, evt_name

(* A step of a consumer: an event is passed over, looked up or sent.       *)
LEMMA ConsumerStep ==
    ASSUME NotifyInv, NEW r \in Requests, NEW m, NEW msg_id, NEW rest,
           consumer[r] # idle,
           \/ consumer' = [consumer EXCEPT ![r] = idle] /\ UNCHANGED sent
           \/ Receiving(r)
           \/ /\ Serves(msg_id, request[r].ws, m)
              /\ \/ Finding(r, m, msg_id, rest)
                 \/ notify(r, request[r].ws, m, msg_id, rest),
           UNCHANGED subscriptionVars, UNCHANGED answer
    PROVE  NotifyInv'
<1>a. Inv'
  BY QuietStep DEF NotifyInv
<1>b. pc[r] = "done"
  BY DEF NotifyInv, TaskType
<1>c. /\ answer' = answer /\ request' = request /\ pc' = pc /\ subsevt' = subsevt
  BY DEF subscriptionVars
<1>d. \A q, ws, e : Serves(q, ws, e)' <=> Serves(q, ws, e)
  BY <1>c DEF Serves, evt_name
<1>e. \A q \in Requests : q # r => consumer'[q] = consumer[q]
  BY DEF Receiving, Finding, notify, NotifyInv, TaskType
<1>1. TaskType'
  <2>1. consumer' = [q \in Requests |-> consumer'[q]]
    BY DEF Receiving, Finding, notify, NotifyInv, TaskType
  <2> QED
    BY <2>1, <1>b, <1>c, <1>e DEF NotifyInv, TaskType
<1>2. Made'
  BY <1>c DEF NotifyInv, Made
<1>3. AtHand'
  <2>1. consumer'[r].pc \in {"lookup", "drain"} =>
            Serves(consumer'[r].msg_id, request[r].ws, consumer'[r].msg)
    BY DEF Receiving, Finding, notify, idle, NotifyInv, TaskType
  <2> QED
    BY <2>1, <1>c, <1>d, <1>e DEF NotifyInv, AtHand
<1>4. Served'
  <2>1. \A n \in sent' : Serves(n.msg_id, n.ws, n.msg)
    BY DEF Receiving, Finding, notify, NotifyInv, Served
  <2> QED
    BY <2>1, <1>d DEF Served
<1> QED
  BY <1>a, <1>1, <1>2, <1>3, <1>4 DEF NotifyInv

(* The steps of _consumer and _process_msg.                                *)
LEMMA ConsumeStep ==
    ASSUME NotifyInv, NEW r \in Requests, consume(r)
    PROVE  NotifyInv'
<1>a. UNCHANGED subscriptionVars /\ UNCHANGED answer
  <2>1. UNCHANGED subscriptionVars
    BY QuietSteps
  <2> QED
    BY <2>1 DEF consume, process_msg, process_msg_looked_up, process_msg_sent, requestVars
<1>b. consumer[r].pc # "none" /\ consumer[r] # idle
  BY DEF consume, process_msg, receive, process_msg_looked_up, process_msg_sent, idle
<1>c. request[r].ws \in Connections
  <2>1. pc[r] = "done"
    BY <1>b DEF NotifyInv, TaskType
  <2> QED
    BY <2>1, EventAssumption DEF NotifyInv, Inv, SubscriptionType
<1>1. ASSUME NEW list, NEW hashes, process_events(r, list, hashes)
      PROVE  NotifyInv'
  <2>1. CASE Receiving(r)
    BY <2>1, <1>a, <1>b, ConsumerStep
  <2>2. ASSUME NEW m, NEW rest, wanted(request[r].ws, m),
               \/ Finding(r, m, subscription(request[r].ws, m), rest)
               \/ notify(r, request[r].ws, m, subscription(request[r].ws, m), rest)
        PROVE  NotifyInv'
    <3>1. Serves(subscription(request[r].ws, m), request[r].ws, m)
      BY <2>2, <1>c, WantedServes
    <3> QED
      BY <2>2, <3>1, <1>a, <1>b, ConsumerStep
  <2> QED
    BY <1>1, <2>1, <2>2, EventsOutcome
<1>2. CASE process_msg(r)
  BY <1>2, <1>1 DEF process_msg
<1>3. CASE process_msg_sent(r)
  BY <1>3, <1>1 DEF process_msg_sent
<1>4. CASE process_msg_looked_up(r)
  <2>1. Serves(consumer[r].msg_id, request[r].ws, consumer[r].msg)
    BY <1>4 DEF process_msg_looked_up, NotifyInv, AtHand
  <2>2. CASE notify(r, request[r].ws, consumer[r].msg, consumer[r].msg_id, consumer[r].rest)
    BY <2>1, <2>2, <1>a, <1>b, ConsumerStep
  <2>3. CASE process_events(r, consumer[r].rest, evthashes[request[r].ws])
    BY <2>3, <1>1
  <2>4. CASE consumer' = [consumer EXCEPT ![r] = idle] /\ UNCHANGED sent
    BY <2>4, <1>a, <1>b, ConsumerStep
  <2> QED
    BY <1>4, <2>2, <2>3, <2>4 DEF process_msg_looked_up
<1> QED
  BY <1>2, <1>3, <1>4 DEF consume

(* Whatever else happens leaves the requests that are over alone, and the  *)
(* consumers that have an event at hand, unless it ends them.              *)
LEMMA OtherStep ==
    ASSUME NotifyInv, Inv', TaskType', Made', UNCHANGED sent,
           \A r \in Requests : pc[r] = "done" => answer'[r] = answer[r] /\ request'[r] = request[r],
           \A r \in Requests : consumer'[r].pc \in {"lookup", "drain"} =>
               consumer'[r] = consumer[r]
    PROVE  NotifyInv'
<1>1. AtHand'
  <2> SUFFICES ASSUME NEW r \in Requests, consumer'[r].pc \in {"lookup", "drain"}
               PROVE  Serves(consumer[r].msg_id, request[r].ws, consumer[r].msg)'
    BY DEF AtHand
  <2>1. consumer'[r] = consumer[r] /\ consumer[r] # idle
    BY DEF idle
  <2>2. pc[r] = "done" /\ request'[r] = request[r]
    BY <2>1 DEF NotifyInv, TaskType
  <2>3. PICK q, ws, m : q = consumer[r].msg_id /\ ws = request[r].ws /\ m = consumer[r].msg
    OBVIOUS
  <2>4. Serves(q, ws, m)
    BY <2>1, <2>3 DEF NotifyInv, AtHand
  <2>5. Serves(q, ws, m)'
    BY <2>4, ServesForEver DEF NotifyInv
  <2> QED
    BY <2>1, <2>2, <2>3, <2>5 DEF Serves, evt_name
<1>2. Served'
  <2> SUFFICES ASSUME NEW n \in sent
               PROVE  Serves(n.msg_id, n.ws, n.msg)'
    BY DEF Served
  <2>1. Serves(n.msg_id, n.ws, n.msg)
    BY DEF NotifyInv, Served
  <2> QED
    BY <2>1, ServesForEver DEF NotifyInv
<1> QED
  BY <1>1, <1>2 DEF NotifyInv

(* A subscription is entered under the request that is told so.            *)
LEMMA AcceptedNotifyStep ==
    ASSUME NotifyInv, NEW r \in Requests, subscribe_accepted(r)
    PROVE  NotifyInv'
<1> USE DEF subscribe_accepted, Answer
<1>a. Inv'
  BY AcceptedStep DEF NotifyInv
<1>b. /\ request[r].ws \in Connections /\ request[r].event_type \in EventTypes
      /\ consumer[r] = idle /\ UNCHANGED request
  BY EventAssumption DEF NotifyInv, Inv, SubscriptionType, TaskType
<1>c. \/ subsevt' = [subsevt EXCEPT ![request[r].ws][request[r].event_type] = r]
      \/ UNCHANGED subsevt
  OBVIOUS
<1>d. \/ consumer' = [consumer EXCEPT ![r].pc = "receive"]
      \/ UNCHANGED consumer
  BY DEF taskVars
<1>1. TaskType'
  <2>1. consumer' = [q \in Requests |-> consumer'[q]]
        /\ \A q \in Requests : q # r => consumer'[q] = consumer[q]
    BY <1>d DEF NotifyInv, TaskType
  <2> QED
    BY <2>1 DEF NotifyInv, TaskType, Inv, SubscriptionType
<1>2. Made'
  <2> SUFFICES ASSUME NEW ws \in Connections, NEW t \in EventTypes, subsevt'[ws][t] # None
               PROVE  /\ answer'[subsevt'[ws][t]] = "SUBSCRIBED"
                      /\ request[subsevt'[ws][t]].ws = ws
                      /\ request[subsevt'[ws][t]].event_type = t
    BY <1>b DEF Made
  <2>1. CASE ws = request[r].ws /\ t = request[r].event_type /\ subsevt'[ws][t] = r
    BY <2>1 DEF NotifyInv, TaskType
  <2>2. CASE subsevt'[ws][t] = subsevt[ws][t]
    <3>1. subsevt[ws][t] \in Requests
      BY <2>2 DEF NotifyInv, Inv, SubscriptionType
    <3>2. answer[subsevt[ws][t]] = "SUBSCRIBED"
      BY <2>2 DEF NotifyInv, Made
    <3>3. subsevt[ws][t] # r
      BY <3>2, EventAssumption DEF NotifyInv, TaskType
    <3> QED
      BY <2>2, <3>1, <3>2, <3>3 DEF NotifyInv, TaskType, Made
  <2> QED
    BY <2>1, <2>2, <1>b, <1>c DEF NotifyInv, Inv, SubscriptionType
<1>3. \A q \in Requests : pc[q] = "done" => answer'[q] = answer[q] /\ request'[q] = request[q]
  BY DEF NotifyInv, TaskType
<1>4. \A q \in Requests : consumer'[q].pc \in {"lookup", "drain"} => consumer'[q] = consumer[q]
  BY <1>b, <1>d DEF NotifyInv, TaskType, idle
<1> QED
  BY <1>a, <1>1, <1>2, <1>3, <1>4, OtherStep

(* The other steps of a request enter no subscription.                     *)
LEMMA RequestNotifyStep ==
    ASSUME NotifyInv, NEW r \in Requests,
           \/ \E params \in Params : handle_websocket_request(r, params)
           \/ subscribe_refused(r) \/ subscribe(r) \/ subscribe_listed_blocks(r)
           \/ subscribe_failed(r) \/ unsubscribe(r)
    PROVE  NotifyInv'
<1>a. Inv'
  BY ReceivedStep, ErrorStep, SubscribeStep, ListedBlocksStep, UnsubscribeStep DEF NotifyInv
<1>b. /\ pc[r] # "done" /\ UNCHANGED <<consumer, sent>>
      /\ \A q \in Requests : q # r => /\ pc'[q] = pc[q]
                                      /\ answer'[q] = answer[q]
                                      /\ request'[q] = request[q]
  BY DEF handle_websocket_request, subscribe_refused, subscribe, subscribe_listed_blocks,
         subscribe_failed, unsubscribe, acquire, Answer, taskVars, NotifyInv, TaskType, Inv,
         SubscriptionType
<1>c. /\ answer' \in [Requests -> {None, "error", "SUBSCRIBED", "UNSUBSCRIBED"}]
      /\ pc'[r] = "done" \/ answer'[r] = answer[r]
  BY DEF handle_websocket_request, subscribe_refused, subscribe, subscribe_listed_blocks,
         subscribe_failed, unsubscribe, Answer, NotifyInv, TaskType, Inv, SubscriptionType
<1>1. TaskType'
  BY <1>b, <1>c DEF NotifyInv, TaskType
<1>2. Made'
  <2>1. \A ws \in Connections, t \in EventTypes : subsevt'[ws][t] \in {subsevt[ws][t], None}
    <3>1. CASE unsubscribe(r)
      BY <3>1 DEF unsubscribe, NotifyInv, Inv, SubscriptionType
    <3>2. CASE ~unsubscribe(r)
      BY <3>2 DEF handle_websocket_request, subscribe_refused, subscribe,
                  subscribe_listed_blocks, subscribe_failed
    <3> QED
      BY <3>1, <3>2
  <2> SUFFICES ASSUME NEW ws \in Connections, NEW t \in EventTypes, subsevt'[ws][t] # None
               PROVE  /\ answer'[subsevt'[ws][t]] = "SUBSCRIBED"
                      /\ request'[subsevt'[ws][t]].ws = ws
                      /\ request'[subsevt'[ws][t]].event_type = t
    BY DEF Made
  <2>2. subsevt'[ws][t] = subsevt[ws][t] /\ subsevt[ws][t] \in Requests
    BY <2>1 DEF NotifyInv, Inv, SubscriptionType
  <2>3. answer[subsevt[ws][t]] = "SUBSCRIBED"
    BY <2>2 DEF NotifyInv, Made
  <2>4. subsevt[ws][t] # r
    BY <2>3, <1>b, EventAssumption DEF NotifyInv, TaskType
  <2> QED
    BY <2>2, <2>4, <1>b DEF NotifyInv, Made
<1>3. \A q \in Requests : pc[q] = "done" => answer'[q] = answer[q] /\ request'[q] = request[q]
  BY <1>b
<1> QED
  BY <1>a, <1>b, <1>1, <1>2, <1>3, OtherStep

\* Consumers and subscriptions may end; nothing else concerns notifications.
OnlyEnds ==
    /\ UNCHANGED <<answer, request, sent>>
    /\ \A q \in Requests : pc[q] = "done" <=> pc'[q] = "done"
    /\ \A ws \in Connections, t \in EventTypes : subsevt'[ws][t] \in {subsevt[ws][t], None}
    /\ consumer' = [q \in Requests |-> consumer'[q]]
    /\ \A q \in Requests : consumer'[q] \in {consumer[q], idle}

(* A close ends consumers and subscriptions; the rest touches neither.     *)
LEMMA EnvironmentNotifyStep ==
    ASSUME NotifyInv,
           \/ \E ws \in Connections : register_exit(ws) \/ ValidatorAccepts(ws)
           \/ \E block \in SUBSET Events : ValidatorEvents(block)
           \/ \E id \in Batches : BatchProgress(id)
           \/ \E r \in Requests : produce(r)
           \/ UNCHANGED vars
    PROVE  NotifyInv'
<1>a. Inv'
  BY ExitStep, AcceptsStep, QuietSteps, QuietStep DEF NotifyInv
<1>b. OnlyEnds
  <2>1. ASSUME NEW ws \in Connections, register_exit(ws)
        PROVE  OnlyEnds
    BY <2>1 DEF OnlyEnds, register_exit, requestVars, NotifyInv, TaskType, Inv, SubscriptionType
  <2>2. ASSUME NEW ws \in Connections, ValidatorAccepts(ws)
        PROVE  OnlyEnds
    <3> DEFINE head == Head(wire[ws]).request
    <3>1. pc' = [pc EXCEPT ![head] = IF pc[head] = "sent" THEN "replied" ELSE pc[head]]
      BY <2>2 DEF ValidatorAccepts
    <3>2. \A q \in Requests : pc[q] = "done" <=> pc'[q] = "done"
      BY <3>1 DEF NotifyInv, Inv, SubscriptionType
    <3> QED
      BY <2>2, <3>2 DEF OnlyEnds, ValidatorAccepts, taskVars, NotifyInv, TaskType
  <2>3. CASE \/ \E block \in SUBSET Events : ValidatorEvents(block)
             \/ \E id \in Batches : BatchProgress(id)
             \/ UNCHANGED vars
    BY <2>3 DEF OnlyEnds, ValidatorEvents, BatchProgress, vars, requestVars, taskVars, NotifyInv,
                TaskType
  <2>4. CASE \E r \in Requests : produce(r)
    BY <2>4 DEF OnlyEnds, produce, produce_custom_msg, produce_custom_msg_status,
                produce_custom_msg_failed, produce_custom_msg_empty, requestVars, NotifyInv, TaskType
  <2> QED
    BY <2>1, <2>2, <2>3, <2>4
<1>1. TaskType'
  BY <1>b DEF OnlyEnds, NotifyInv, TaskType
<1>2. Made'
  BY <1>b DEF OnlyEnds, NotifyInv, Made
<1>3. \A q \in Requests : consumer'[q].pc \in {"lookup", "drain"} => consumer'[q] = consumer[q]
  BY <1>b DEF OnlyEnds, idle
<1> QED
  BY <1>a, <1>b, <1>1, <1>2, <1>3, OtherStep DEF OnlyEnds

(* The invariant is kept by every step.                                    *)
LEMMA NotifyStep ==
    ASSUME NotifyInv, [Next]_vars
    PROVE  NotifyInv'
<1>1. CASE Environment
  BY <1>1, RequestNotifyStep, EnvironmentNotifyStep DEF Environment
<1>2. CASE \E r \in Requests : RequestStep(r)
  BY <1>2, RequestNotifyStep, AcceptedNotifyStep DEF RequestStep
<1>3. CASE \E r \in Requests : consume(r)
  BY <1>3, ConsumeStep
<1>4. CASE (\E r \in Requests : produce(r)) \/ UNCHANGED vars
  BY <1>4, EnvironmentNotifyStep
<1> QED
  BY <1>1, <1>2, <1>3, <1>4 DEF Next

(* Every notification carries the id of a request on the same connection   *)
(* that was answered SUBSCRIBED and asked for that kind of event.          *)
THEOREM NotifiedAsSubscribedCorrect == Spec => []NotifiedAsSubscribed
<1>1. NotifyInv /\ [Next]_vars => NotifyInv'
  BY NotifyStep
<1>2. NotifyInv => NotifiedAsSubscribed
  BY DEF NotifyInv, Served, Serves, NotifiedAsSubscribed
<1> QED
  BY InitNotifyInv, <1>1, <1>2, PTL DEF Spec

-----------------------------------------------------------------------------
\* Hashes of what was sent on a connection.
SentHashes(ws) == {prepare_evt_hash(n.msg) : n \in {n \in sent : n.ws = ws}}

\* The part of TypeOK that is about events.
EventType ==
    /\ event_lock \in Requests \cup {None}
    /\ consumer \in [Requests -> [pc : {"none", "receive", "lookup", "drain"},
                                  msg : Msgs \cup {None}, msg_id : Requests \cup {None},
                                  rest : Seq(Msgs)]]
    /\ producer \in [Requests -> [pc : {"none", "sleep", "list_statuses", "raised"},
                                  id : Filters \cup {None}, size : 0..Cardinality(EventTypes)]]
    /\ queue \in [Connections -> Seq(Seq(Msgs))]
    /\ happened \subseteq SUBSET Events
    /\ status \in [Batches -> 1..Len(Status)]
    /\ sent \subseteq [ws : Connections, msg_id : Requests, msg : Msgs]

(* What the validator may repeat is finite.                                *)
FiniteBlocks == IsFiniteSet(happened) /\ \A block \in happened : IsFiniteSet(block)

(* A producer belongs to a request that is over and polls a batch.         *)
Polling ==
    \A r \in Requests :
        /\ producer[r].pc # "none" => pc[r] = "done"
        /\ producer[r].pc = "list_statuses" => producer[r].id \in Batches

(* A consumer has an open connection and an entry in evthashes; the event  *)
(* it has at hand while the socket drains is sent.                         *)
Consuming ==
    \A r \in Requests :
        /\ consumer[r].pc \in {"none", "receive"} => consumer[r].rest = <<>>
        /\ consumer[r].pc \in {"lookup", "drain"} => consumer[r].msg \in Msgs
        /\ consumer[r].pc # "none" =>
              request[r].ws \in open /\ evthashes[request[r].ws] # None
        /\ consumer[r].pc = "drain" =>
              \E n \in sent : n.ws = request[r].ws /\ n.msg = consumer[r].msg

(* Only what was sent is taken for sent.                                   *)
HashesOfSent ==
    /\ evthashes = [ws \in Connections |-> evthashes[ws]]
    /\ \A ws \in Connections : evthashes[ws] # None => evthashes[ws] \subseteq SentHashes(ws)

(* What was sent on a connection that is open is remembered, or will be    *)
(* once the socket has drained.                                            *)
Remembered ==
    \A n \in sent : n.ws \in open =>
        /\ evthashes[n.ws] # None
        /\ \/ prepare_evt_hash(n.msg) \in evthashes[n.ws]
           \/ \E r \in Requests : /\ consumer[r].pc = "drain"
                                  /\ request[r].ws = n.ws
                                  /\ consumer[r].msg = n.msg

(* The inductive invariant.                                                *)
DeliveryInv ==
    /\ NotifyInv
    /\ EventType
    /\ FiniteBlocks
    /\ Polling
    /\ Consuming
    /\ HashesOfSent
    /\ Remembered

(* There are only so many subscriptions on a connection.                   *)
LEMMA SubscriptionSizes ==
    /\ Cardinality(EventTypes) \in Nat
    /\ \A types \in SUBSET EventTypes : Cardinality(types) \in 0..Cardinality(EventTypes)
<1>1. IsFiniteSet({"batch"} \cup {"blocks"} \cup {"transfer"} \cup {"atomic_swap"})
  <2>1. IsFiniteSet({"batch"})
    BY FS_Singleton
  <2>2. IsFiniteSet({"batch"} \cup {"blocks"})
    BY <2>1, FS_AddElement
  <2>3. IsFiniteSet({"batch"} \cup {"blocks"} \cup {"transfer"})
    BY <2>2, FS_AddElement
  <2> QED
    BY <2>3, FS_AddElement
<1>2. EventTypes \subseteq {"batch"} \cup {"blocks"} \cup {"transfer"} \cup {"atomic_swap"}
  BY EventAssumption
<1>3. IsFiniteSet(EventTypes)
  BY <1>1, <1>2, FS_Subset
<1>4. \A types \in SUBSET EventTypes :
          /\ Cardinality(types) \in Nat
          /\ Cardinality(types) =< Cardinality(EventTypes)
  BY <1>3, FS_Subset, FS_CardinalityType
<1> QED
  BY <1>4

(* At first there are no events.                                           *)
LEMMA InitDeliveryInv == Init => DeliveryInv
<1> SUFFICES ASSUME Init PROVE DeliveryInv
  OBVIOUS
<1> USE DEF Init
<1>1. EventType
  <2>1. Cardinality(EventTypes) \in Nat
    BY SubscriptionSizes
  <2>2. status \in [Batches -> 1..Len(Status)]
    BY EventAssumption
  <2> QED
    BY <2>1, <2>2 DEF EventType, idle, asleep
<1>2. FiniteBlocks
  BY FS_EmptySet DEF FiniteBlocks
<1>3. Polling /\ Consuming /\ HashesOfSent /\ Remembered
  BY DEF Polling, Consuming, HashesOfSent, Remembered, idle, asleep
<1> QED
  BY <1>1, <1>2, <1>3, InitNotifyInv DEF DeliveryInv

(* A finite set as a sequence.                                             *)
LEMMA SetToSeqType ==
    ASSUME NEW S, IsFiniteSet(S)
    PROVE  SetToSeq(S) \in Seq(S)
<1>1. Cardinality(S) \in Nat /\ ExistsBijection(1..Cardinality(S), S)
  BY FS_CardinalityType
<1>2. \E f \in [1..Cardinality(S) -> S] : IsInjective(f)
  BY <1>1 DEF ExistsBijection, Bijection, Injection, IsInjective
<1>3. SetToSeq(S) \in [1..Cardinality(S) -> S]
  BY <1>2 DEF SetToSeq
<1> QED
  BY <1>1, <1>3

(* The events of a block are a message.                                    *)
LEMMA EventListType ==
    ASSUME NEW block \in SUBSET Events, IsFiniteSet(block), NEW types
    PROVE  event_list(block, types) \in Seq(Msgs)
<1> DEFINE of(names) == {e \in block : EvtName[e] \in types \cap names}
<1>1. ASSUME NEW names
      PROVE  SetToSeq(of(names)) \in Seq(Msgs)
  <2>1. of(names) \in SUBSET block /\ of(names) \subseteq Msgs
    BY DEF Msgs
  <2>2. IsFiniteSet(of(names))
    BY <2>1, FS_Subset
  <2> HIDE DEF of
  <2> QED
    BY <2>1, <2>2, SetToSeqType, SeqMonotonic
<1>2. event_list(block, types) =
          SetToSeq(of({"blocks"})) \o SetToSeq(of(EventTypes \ {"blocks"}))
  BY DEF event_list
<1> HIDE DEF of
<1> QED
  BY <1>1, <1>2, ConcatProperties

(* So is what the validator sends again.                                   *)
LEMMA AgainType ==
    ASSUME FiniteBlocks, happened \subseteq SUBSET Events, NEW types,
           NEW again \in SUBSET {event_list(block, types) : block \in happened}
    PROVE  SetToSeq(again) \in Seq(Seq(Msgs))
<1> DEFINE past == {event_list(block, types) : block \in happened}
           f == [block \in happened |-> event_list(block, types)]
<1>1. f \in Surjection(happened, past)
  BY DEF Surjection
<1>2. past \subseteq Seq(Msgs)
  BY EventListType DEF FiniteBlocks
<1> HIDE DEF f, past
<1>3. IsFiniteSet(past)
  BY <1>1, FS_Surjection DEF FiniteBlocks
<1>4. IsFiniteSet(again) /\ again \subseteq past
  BY <1>3, FS_Subset DEF past
<1> QED
  BY <1>2, <1>4, SetToSeqType, SeqMonotonic
(* What consumers know stays true while they do nothing.                   *)
LEMMA ConsumersWait ==
    ASSUME DeliveryInv, UNCHANGED <<open, evthashes, consumer, sent>>,
           \A r \in Requests : pc[r] = "done" => request'[r] = request[r]
    PROVE  Consuming' /\ HashesOfSent' /\ Remembered'
<1>1. \A r \in Requests : consumer[r].pc # "none" => request'[r] = request[r]
  BY DEF DeliveryInv, NotifyInv, TaskType, idle
<1>2. Consuming'
  BY <1>1 DEF DeliveryInv, Consuming
<1>3. HashesOfSent'
  BY DEF DeliveryInv, HashesOfSent, SentHashes, prepare_evt_hash
<1>4. Remembered'
  <2> SUFFICES ASSUME NEW n \in sent, n.ws \in open
               PROVE  /\ evthashes[n.ws] # None
                      /\ \/ prepare_evt_hash(n.msg) \in evthashes[n.ws]
                         \/ \E r \in Requests : /\ consumer[r].pc = "drain"
                                                /\ request'[r].ws = n.ws
                                                /\ consumer[r].msg = n.msg
    BY DEF Remembered, prepare_evt_hash
  <2> QED
    BY <1>1 DEF DeliveryInv, Remembered
<1> QED
  BY <1>2, <1>3, <1>4

(* The steps of a request up to its answer, without a subscription made.   *)
LEMMA RequestDeliveryStep ==
    ASSUME DeliveryInv, NEW r \in Requests,
           \/ \E params \in Params : handle_websocket_request(r, params)
           \/ subscribe_refused(r) \/ subscribe(r) \/ subscribe_listed_blocks(r)
           \/ subscribe_failed(r) \/ unsubscribe(r)
    PROVE  DeliveryInv'
<1>a. NotifyInv'
  BY RequestNotifyStep DEF DeliveryInv
<1>b. /\ UNCHANGED <<open, evthashes, consumer, sent, producer, queue, happened, status>>
      /\ event_lock' \in {event_lock, r, None}
      /\ \A q \in Requests : pc[q] = "done" => pc'[q] = "done" /\ request'[q] = request[q]
  BY DEF handle_websocket_request, subscribe_refused, subscribe, subscribe_listed_blocks,
         subscribe_failed, unsubscribe, acquire, Answer, taskVars, validatorVars, DeliveryInv,
         NotifyInv, Inv, SubscriptionType
<1>1. EventType' /\ FiniteBlocks'
  BY <1>b DEF DeliveryInv, EventType, FiniteBlocks
<1>2. Polling'
  BY <1>b DEF DeliveryInv, Polling
<1>3. Consuming' /\ HashesOfSent' /\ Remembered'
  BY <1>b, ConsumersWait
<1> QED
  BY <1>a, <1>1, <1>2, <1>3 DEF DeliveryInv

(* A poll: what is asked for is a batch, and the answer one of its states. *)
LEMMA ProduceDeliveryStep ==
    ASSUME DeliveryInv, NEW r \in Requests, produce(r)
    PROVE  DeliveryInv'
<1>a. NotifyInv'
  BY EnvironmentNotifyStep DEF DeliveryInv
<1>b. UNCHANGED <<open, evthashes, consumer, sent, happened, status, event_lock, pc, request>>
  BY DEF produce, produce_custom_msg, produce_custom_msg_status, produce_custom_msg_failed,
         produce_custom_msg_empty, requestVars, validatorVars
<1>c. producer[r].pc # "none" /\ pc[r] = "done"
  BY DEF produce, produce_custom_msg, produce_custom_msg_status, produce_custom_msg_failed,
         produce_custom_msg_empty, DeliveryInv, Polling
<1>d. request[r] \in Params /\ request[r].ws \in Connections
  BY <1>c, EventAssumption DEF DeliveryInv, NotifyInv, Inv, SubscriptionType
<1> DEFINE Producers == [pc : {"none", "sleep", "list_statuses", "raised"},
                         id : Filters \cup {None}, size : 0..Cardinality(EventTypes)]
<1>e. /\ asleep \in Producers /\ [asleep EXCEPT !.pc = "sleep"] \in Producers
      /\ [asleep EXCEPT !.pc = "raised"] \in Producers
  BY SubscriptionSizes DEF asleep
<1>1. ASSUME NEW task \in Producers, producer' = [producer EXCEPT ![r] = task],
             task.pc = "list_statuses" => task.id \in Batches
      PROVE  producer' \in [Requests -> Producers] /\ Polling'
  <2>1. producer \in [Requests -> Producers]
    BY DEF DeliveryInv, EventType
  <2> HIDE DEF Producers
  <2>2. producer' \in [Requests -> Producers]
    BY <2>1, <1>1
  <2>3. \A q \in Requests : producer'[q] = IF q = r THEN task ELSE producer[q]
    BY <2>1, <1>1
  <2> QED
    BY <2>2, <2>3, <1>1, <1>b, <1>c DEF DeliveryInv, Polling
<1>2. ASSUME producer' = next_entry(r)
      PROVE  producer' \in [Requests -> Producers] /\ Polling'
  BY <1>1, <1>2, <1>e DEF next_entry, asleep
<1>3. ASSUME produce_custom_msg(r)
      PROVE  producer' \in [Requests -> Producers] /\ Polling'
  <2> DEFINE s == subsevt[request[r].ws]["batch"]
             task == [pc |-> "list_statuses", id |-> request[s].filter,
                      size |-> subsevt_size(request[r].ws)]
  <2>1. s # None /\ s \in Requests
    BY <1>3, <1>d, EventAssumption
       DEF produce_custom_msg, DeliveryInv, NotifyInv, Inv, SubscriptionType
  <2>2. request[s].event_type = "batch" /\ answer[s] = "SUBSCRIBED"
    BY <2>1, <1>d, EventAssumption DEF DeliveryInv, NotifyInv, Made
  <2>3. request[s] \in Params
    BY <2>1, <2>2, EventAssumption DEF DeliveryInv, NotifyInv, TaskType, Inv, SubscriptionType
  <2>4. request[s].filter \in Batches /\ request[s].filter \in Filters
    BY <2>2, <2>3, EventAssumption
  <2>5. subsevt_size(request[r].ws) \in 0..Cardinality(EventTypes)
    BY SubscriptionSizes DEF subsevt_size
  <2>6. task \in Producers /\ producer' = [producer EXCEPT ![r] = task]
    BY <2>4, <2>5, <1>3 DEF produce_custom_msg
  <2> HIDE DEF Producers
  <2> QED
    BY <2>4, <2>6, <1>1
<1>4. producer' \in [Requests -> Producers] /\ Polling'
  <2>1. ASSUME produce_custom_msg_empty(r)
        PROVE  producer' \in [Requests -> Producers] /\ Polling'
    BY <1>1, <1>e, <2>1 DEF produce_custom_msg_empty, asleep
  <2> QED
    BY <1>2, <1>3, <2>1 DEF produce, produce_custom_msg_status, produce_custom_msg_failed
<1>5. queue' \in [Connections -> Seq(Seq(Msgs))]
  <2>1. CASE produce_custom_msg_status(r)
    <3> DEFINE ws == request[r].ws
               m == [id |-> producer[r].id, status |-> Status[status[producer[r].id]]]
    <3>1. producer[r].id \in Batches
      BY <2>1 DEF produce_custom_msg_status, DeliveryInv, Polling
    <3>2. status[producer[r].id] \in 1..Len(Status)
      BY <3>1 DEF DeliveryInv, EventType
    <3>3. Status[status[producer[r].id]] \in Range(Status)
      BY <3>2, EventAssumption DEF Range
    <3>4. m \in Msgs
      BY <3>1, <3>3 DEF Msgs, BatchEvents
    <3>5. queue' = [queue EXCEPT ![ws] = Append(queue[ws], <<m>>)]
      BY <2>1 DEF produce_custom_msg_status
    <3>6. queue \in [Connections -> Seq(Seq(Msgs))] /\ ws \in Connections
      BY <1>d DEF DeliveryInv, EventType
    <3> HIDE DEF m, ws
    <3>7. <<m>> \in Seq(Msgs)
      BY <3>4
    <3>8. Append(queue[ws], <<m>>) \in Seq(Seq(Msgs))
      BY <3>6, <3>7
    <3> QED
      BY <3>5, <3>6, <3>8
  <2>2. CASE produce_custom_msg(r) \/ produce_custom_msg_failed(r) \/ produce_custom_msg_empty(r)
    BY <2>2 DEF produce_custom_msg, produce_custom_msg_failed, produce_custom_msg_empty,
                DeliveryInv, EventType
  <2> QED
    BY <2>1, <2>2 DEF produce
<1>6. EventType'
  BY <1>b, <1>4, <1>5 DEF DeliveryInv, EventType
<1>7. FiniteBlocks' /\ Consuming' /\ HashesOfSent' /\ Remembered'
  BY <1>b, ConsumersWait DEF DeliveryInv, FiniteBlocks
<1> QED
  BY <1>a, <1>4, <1>6, <1>7 DEF DeliveryInv

(* The validator's messages are lists of events.                           *)
LEMMA ValidatorDeliveryStep ==
    ASSUME DeliveryInv,
           \/ \E ws \in Connections : ValidatorAccepts(ws)
           \/ \E block \in SUBSET Events : ValidatorEvents(block)
           \/ \E id \in Batches : BatchProgress(id)
           \/ UNCHANGED vars
    PROVE  DeliveryInv'
<1>a. NotifyInv'
  BY EnvironmentNotifyStep DEF DeliveryInv
<1>b. UNCHANGED <<open, evthashes, consumer, producer, sent, event_lock, request>>
  BY DEF ValidatorAccepts, ValidatorEvents, BatchProgress, vars, requestVars, taskVars
<1>c. \A q \in Requests : pc[q] = "done" => pc'[q] = "done"
  <2>1. ASSUME NEW ws \in Connections, ValidatorAccepts(ws), NEW q \in Requests,
               pc[q] = "done"
        PROVE  pc'[q] = "done"
    <3> DEFINE head == Head(wire[ws]).request
    <3>1. pc' = [pc EXCEPT ![head] = IF pc[head] = "sent" THEN "replied" ELSE pc[head]]
      BY <2>1 DEF ValidatorAccepts
    <3> QED
      BY <2>1, <3>1 DEF DeliveryInv, NotifyInv, Inv, SubscriptionType
  <2> QED
    BY <2>1 DEF ValidatorEvents, BatchProgress, vars, requestVars
<1>q. queue \in [Connections -> Seq(Seq(Msgs))] /\ happened \subseteq SUBSET Events
  BY DEF DeliveryInv, EventType
<1>1. /\ queue' \in [Connections -> Seq(Seq(Msgs))]
      /\ happened' \subseteq SUBSET Events
      /\ status' \in [Batches -> 1..Len(Status)]
      /\ FiniteBlocks'
  <2>1. ASSUME NEW ws \in Connections, ValidatorAccepts(ws)
        PROVE  queue' \in [Connections -> Seq(Seq(Msgs))]
    <3> DEFINE all(types) == {event_list(block, types) : block \in happened}
    <3>1. PICK again \in SUBSET all(Head(wire[ws]).types) :
              queue' = [queue EXCEPT ![ws] = queue[ws] \o SetToSeq(again)]
      BY <2>1 DEF ValidatorAccepts
    <3>2. SetToSeq(again) \in Seq(Seq(Msgs))
      BY AgainType, <1>q DEF DeliveryInv
    <3> HIDE DEF all
    <3>3. queue[ws] \o SetToSeq(again) \in Seq(Seq(Msgs))
      BY <3>2, <1>q, ConcatProperties
    <3> QED
      BY <3>1, <3>3, <1>q
  <2>2. ASSUME NEW block \in SUBSET Events, ValidatorEvents(block)
        PROVE  queue' \in [Connections -> Seq(Seq(Msgs))] /\ FiniteBlocks'
    <3>1. \A ws \in Connections : Append(queue[ws], event_list(block, upheld[ws]))
                                     \in Seq(Seq(Msgs))
      <4> TAKE ws \in Connections
      <4>1. event_list(block, upheld[ws]) \in Seq(Msgs)
        BY <2>2, EventListType DEF ValidatorEvents
      <4> QED
        BY <4>1, <1>q
    <3>2. queue' \in [Connections -> Seq(Seq(Msgs))]
      BY <2>2, <3>1, <1>q DEF ValidatorEvents
    <3>3. FiniteBlocks'
      BY <2>2, FS_AddElement DEF ValidatorEvents, DeliveryInv, FiniteBlocks
    <3> QED
      BY <3>2, <3>3
  <2>3. ASSUME NEW id \in Batches, BatchProgress(id)
        PROVE  status' \in [Batches -> 1..Len(Status)]
    <3>1. Len(Status) \in Nat /\ status[id] \in 1..Len(Status)
      BY EventAssumption DEF DeliveryInv, EventType
    <3>2. status[id] + 1 \in 1..Len(Status)
      BY <2>3, <3>1 DEF BatchProgress
    <3> QED
      BY <2>3, <3>2 DEF BatchProgress, DeliveryInv, EventType
  <2>4. CASE \E ws \in Connections : ValidatorAccepts(ws)
    BY <2>4, <2>1 DEF ValidatorAccepts, DeliveryInv, EventType, FiniteBlocks
  <2>5. CASE \E block \in SUBSET Events : ValidatorEvents(block)
    BY <2>5, <2>2 DEF ValidatorEvents, DeliveryInv, EventType
  <2>6. CASE (\E id \in Batches : BatchProgress(id)) \/ UNCHANGED vars
    BY <2>6, <2>3 DEF BatchProgress, vars, validatorVars, DeliveryInv, EventType, FiniteBlocks
  <2> QED
    BY <2>4, <2>5, <2>6
<1>2. EventType'
  BY <1>b, <1>1 DEF DeliveryInv, EventType
<1>3. Polling'
  BY <1>b, <1>c DEF DeliveryInv, Polling
<1>4. Consuming' /\ HashesOfSent' /\ Remembered'
  BY <1>b, ConsumersWait
<1> QED
  BY <1>a, <1>1, <1>2, <1>3, <1>4 DEF DeliveryInv
(* No set of hashes is None.                                               *)
LEMMA HashesNotNone ==
    ASSUME sent \subseteq [ws : Connections, msg_id : Requests, msg : Msgs],
           NEW ws, NEW hashes \in SUBSET SentHashes(ws)
    PROVE  hashes # None
<1>1. SentHashes(ws) \subseteq Range(EvtHash) \cup BatchEvents
  BY EventAssumption DEF SentHashes, prepare_evt_hash, Msgs, Range
<1>2. hashes \in SUBSET (Range(EvtHash) \cup BatchEvents)
  BY <1>1
<1> QED
  BY <1>2, EventAssumption

(* A new subscription's consumer waits for a message, its producer sleeps. *)
LEMMA AcceptedDeliveryStep ==
    ASSUME DeliveryInv, NEW r \in Requests, subscribe_accepted(r)
    PROVE  DeliveryInv'
<1> DEFINE ws == request[r].ws
<1>a. NotifyInv'
  BY AcceptedNotifyStep DEF DeliveryInv
<1>b. /\ UNCHANGED <<open, request, queue, happened, status, sent>>
      /\ event_lock' = None
      /\ evthashes' = [evthashes EXCEPT ![ws] = IF evthashes[ws] = None THEN {} ELSE evthashes[ws]]
  BY DEF subscribe_accepted, validatorVars
<1>c. /\ request[r] \in Params /\ ws \in Connections
      /\ pc[r] = "replied" /\ consumer[r] = idle
  BY EventAssumption
     DEF subscribe_accepted, DeliveryInv, NotifyInv, Inv, SubscriptionType, TaskType
<1>d. pc' = [pc EXCEPT ![r] = "done"] /\ pc \in [Requests -> {pc[q] : q \in Requests}]
  BY DEF subscribe_accepted, Answer, DeliveryInv, NotifyInv, Inv, SubscriptionType
<1>e. {} # None
  BY EventAssumption
<1>f. /\ evthashes'[ws] # None
      /\ \A w \in Connections : evthashes[w] # None => evthashes'[w] = evthashes[w]
      /\ \A w \in Connections : evthashes'[w] = evthashes[w] \/ evthashes'[w] = {}
      /\ evthashes' = [w \in Connections |-> evthashes'[w]]
  BY <1>b, <1>c, <1>e DEF DeliveryInv, HashesOfSent
<1>g. \/ consumer' = consumer
      \/ consumer' = [consumer EXCEPT ![r].pc = "receive"] /\ ws \in open
  BY DEF subscribe_accepted, taskVars
<1>h. producer' = producer \/ producer' = [producer EXCEPT ![r].pc = "sleep"]
  BY DEF subscribe_accepted, taskVars
<1>i. \A q \in Requests :
          \/ consumer'[q] = consumer[q]
          \/ q = r /\ consumer'[q] = [idle EXCEPT !.pc = "receive"] /\ ws \in open
  BY <1>g, <1>c DEF DeliveryInv, EventType
<1>1. EventType'
  <2> DEFINE Consumers == [pc : {"none", "receive", "lookup", "drain"},
                           msg : Msgs \cup {None}, msg_id : Requests \cup {None},
                           rest : Seq(Msgs)]
             Producers == [pc : {"none", "sleep", "list_statuses", "raised"},
                           id : Filters \cup {None}, size : 0..Cardinality(EventTypes)]
  <2>1. consumer \in [Requests -> Consumers] /\ producer \in [Requests -> Producers]
    BY DEF DeliveryInv, EventType
  <2>2. [consumer[r] EXCEPT !.pc = "receive"] \in Consumers
    <3>1. consumer[r] \in Consumers
      BY <2>1
    <3> QED
      BY <3>1
  <2>3. [producer[r] EXCEPT !.pc = "sleep"] \in Producers
    <3>1. producer[r] \in Producers
      BY <2>1
    <3> QED
      BY <3>1
  <2> HIDE DEF Consumers, Producers
  <2>4. consumer' \in [Requests -> Consumers]
    BY <1>g, <2>1, <2>2
  <2>5. producer' \in [Requests -> Producers]
    BY <1>h, <2>1, <2>3
  <2> QED
    BY <2>4, <2>5, <1>b DEF DeliveryInv, EventType, Consumers, Producers
<1>2. FiniteBlocks'
  BY <1>b DEF DeliveryInv, FiniteBlocks
<1>3. Polling'
  <2>1. \A q \in Requests : \/ producer'[q] = producer[q]
                            \/ q = r /\ producer'[q].pc = "sleep"
    BY <1>h DEF DeliveryInv, EventType
  <2> QED
    BY <2>1, <1>d DEF DeliveryInv, Polling
<1>4. Consuming'
  <2> SUFFICES ASSUME NEW q \in Requests
               PROVE  /\ consumer'[q].pc \in {"none", "receive"} => consumer'[q].rest = <<>>
                      /\ consumer'[q].pc \in {"lookup", "drain"} => consumer'[q].msg \in Msgs
                      /\ consumer'[q].pc # "none" =>
                            request[q].ws \in open /\ evthashes'[request[q].ws] # None
                      /\ consumer'[q].pc = "drain" =>
                            \E n \in sent : n.ws = request[q].ws /\ n.msg = consumer'[q].msg
    BY <1>b DEF Consuming, Msgs
  <2>1. CASE q = r /\ consumer'[q] = [idle EXCEPT !.pc = "receive"] /\ ws \in open
    BY <2>1, <1>f DEF idle
  <2>2. CASE consumer'[q] = consumer[q]
    <3>1. open \subseteq Connections
      BY DEF DeliveryInv, NotifyInv, Inv, SubscriptionType
    <3> QED
      BY <2>2, <3>1, <1>f DEF DeliveryInv, Consuming
  <2> QED
    BY <2>1, <2>2, <1>i
<1>5. HashesOfSent'
  <2>1. \A w : SentHashes(w)' = SentHashes(w)
    BY <1>b DEF SentHashes, prepare_evt_hash
  <2> QED
    BY <2>1, <1>f DEF DeliveryInv, HashesOfSent
<1>6. Remembered'
  <2> SUFFICES ASSUME NEW n \in sent, n.ws \in open
               PROVE  /\ evthashes'[n.ws] # None
                      /\ \/ prepare_evt_hash(n.msg) \in evthashes'[n.ws]
                         \/ \E q \in Requests : /\ consumer'[q].pc = "drain"
                                                /\ request[q].ws = n.ws
                                                /\ consumer'[q].msg = n.msg
    BY <1>b DEF Remembered, prepare_evt_hash
  <2>1. evthashes[n.ws] # None /\ n.ws \in Connections
    BY DEF DeliveryInv, Remembered, NotifyInv, Inv, SubscriptionType
  <2>2. evthashes'[n.ws] = evthashes[n.ws]
    BY <2>1, <1>f
  <2>3. \A q \in Requests : consumer[q].pc = "drain" => consumer'[q] = consumer[q]
    BY <1>i, <1>c DEF idle
  <2> QED
    BY <2>1, <2>2, <2>3 DEF DeliveryInv, Remembered
<1> QED
  BY <1>a, <1>1, <1>2, <1>3, <1>4, <1>5, <1>6 DEF DeliveryInv

(* A close ends the tasks of the connection and leaves the others alone.   *)
LEMMA ExitDeliveryStep ==
    ASSUME DeliveryInv, NEW ws \in Connections, register_exit(ws)
    PROVE  DeliveryInv'
<1>a. NotifyInv'
  BY EnvironmentNotifyStep DEF DeliveryInv
<1>b. /\ UNCHANGED <<pc, request, event_lock, happened, status, sent>>
      /\ open' = open \ {ws}
      /\ evthashes' = [evthashes EXCEPT ![ws] = None]
      /\ consumer' = [r \in Requests |-> IF request[r].ws = ws THEN idle ELSE consumer[r]]
      /\ producer' = [r \in Requests |-> IF request[r].ws = ws THEN asleep ELSE producer[r]]
      /\ queue' = [queue EXCEPT ![ws] = <<>>]
  BY DEF register_exit, requestVars
<1>c. /\ \A w \in Connections : w # ws => evthashes'[w] = evthashes[w]
      /\ evthashes'[ws] = None
      /\ evthashes' = [w \in Connections |-> evthashes'[w]]
  BY <1>b DEF DeliveryInv, HashesOfSent
<1>1. EventType'
  <2>1. consumer' \in [Requests -> [pc : {"none", "receive", "lookup", "drain"},
                                    msg : Msgs \cup {None}, msg_id : Requests \cup {None},
                                    rest : Seq(Msgs)]]
    BY <1>b DEF DeliveryInv, EventType, idle
  <2>2. producer' \in [Requests -> [pc : {"none", "sleep", "list_statuses", "raised"},
                                    id : Filters \cup {None}, size : 0..Cardinality(EventTypes)]]
    BY <1>b, SubscriptionSizes DEF DeliveryInv, EventType, asleep
  <2> QED
    BY <2>1, <2>2, <1>b DEF DeliveryInv, EventType
<1>2. FiniteBlocks'
  BY <1>b DEF DeliveryInv, FiniteBlocks
<1>3. Polling'
  BY <1>b DEF DeliveryInv, Polling, asleep
<1>4. Consuming'
  <2> SUFFICES ASSUME NEW q \in Requests
               PROVE  /\ consumer'[q].pc \in {"none", "receive"} => consumer'[q].rest = <<>>
                      /\ consumer'[q].pc \in {"lookup", "drain"} => consumer'[q].msg \in Msgs
                      /\ consumer'[q].pc # "none" =>
                            request[q].ws \in open' /\ evthashes'[request[q].ws] # None
                      /\ consumer'[q].pc = "drain" =>
                            \E n \in sent : n.ws = request[q].ws /\ n.msg = consumer'[q].msg
    BY <1>b DEF Consuming, Msgs
  <2>1. CASE request[q].ws = ws
    BY <2>1, <1>b DEF idle
  <2>2. CASE request[q].ws # ws
    <3>1. open \subseteq Connections
      BY DEF DeliveryInv, NotifyInv, Inv, SubscriptionType
    <3>2. consumer'[q] = consumer[q]
      BY <2>2, <1>b
    <3> QED
      BY <2>2, <3>1, <3>2, <1>b, <1>c DEF DeliveryInv, Consuming
  <2> QED
    BY <2>1, <2>2
<1>5. HashesOfSent'
  <2>1. \A w : SentHashes(w)' = SentHashes(w)
    BY <1>b DEF SentHashes, prepare_evt_hash
  <2> QED
    BY <2>1, <1>c DEF DeliveryInv, HashesOfSent
<1>6. Remembered'
  <2> SUFFICES ASSUME NEW n \in sent, n.ws \in open'
               PROVE  /\ evthashes'[n.ws] # None
                      /\ \/ prepare_evt_hash(n.msg) \in evthashes'[n.ws]
                         \/ \E q \in Requests : /\ consumer'[q].pc = "drain"
                                                /\ request[q].ws = n.ws
                                                /\ consumer'[q].msg = n.msg
    BY <1>b DEF Remembered, prepare_evt_hash
  <2>1. n.ws \in open /\ n.ws \in Connections /\ n.ws # ws
    BY <1>b DEF DeliveryInv, NotifyInv, Inv, SubscriptionType
  <2>2. evthashes'[n.ws] = evthashes[n.ws]
    BY <2>1, <1>c
  <2>3. \A q \in Requests : request[q].ws = n.ws => consumer'[q] = consumer[q]
    BY <2>1, <1>b
  <2> QED
    BY <2>1, <2>2, <2>3 DEF DeliveryInv, Remembered
<1> QED
  BY <1>a, <1>1, <1>2, <1>3, <1>4, <1>5, <1>6 DEF DeliveryInv
(* What follows an event of a message.                                     *)
LEMMA SuffixEvents ==
    ASSUME NEW S, NEW s \in Seq(S), NEW k \in 1..Len(s)
    PROVE  /\ SubSeq(s, k + 1, Len(s)) \in Seq(S)
           /\ \A i \in 1..Len(s) : i > k => s[i] \in Range(SubSeq(s, k + 1, Len(s)))
<1> DEFINE n == Len(s)
           p == k + 1
           rest == SubSeq(s, p, n)
<1>a. n \in Nat /\ k \in 1..n /\ \A i \in 1..n : s[i] \in S
  BY LenProperties, ElementOfSeq
<1> HIDE DEF n
<1>1. p \in Int /\ n \in Int /\ \A i \in p..n : s[i] \in S
  BY <1>a
<1>2. k < n => p =< n
  BY <1>a
<1> HIDE DEF p
<1>3. /\ rest \in Seq(S)
      /\ p =< n => Len(rest) = n - p + 1
      /\ \A i \in 1 .. n - p + 1 : rest[i] = s[p + i - 1]
  <2>1. rest \in Seq(S)
    BY <1>1, SubSeqProperties, Zenon
  <2>2. p =< n => Len(rest) = n - p + 1
    BY <1>1, SubSeqProperties, Zenon
  <2>3. \A i \in 1 .. n - p + 1 : rest[i] = s[p + i - 1]
    BY <1>1
  <2> QED
    BY <2>1, <2>2, <2>3
<1> HIDE DEF rest
<1>4. ASSUME NEW i \in 1..n, i > k
      PROVE  s[i] \in Range(rest)
  <2>1. p =< n /\ i - p + 1 \in 1..(n - p + 1) /\ p + (i - p + 1) - 1 = i
    BY <1>4, <1>a DEF p
  <2>2. i - p + 1 \in 1..Len(rest) /\ rest[i - p + 1] = s[i]
    BY <2>1, <1>3
  <2>3. DOMAIN rest = 1..Len(rest)
    BY <1>3, LenProperties
  <2> QED
    BY <2>2, <2>3 DEF Range
<1> QED
  BY <1>3, <1>4 DEF rest, p, n

(* The loop over the events of a message leaves those after the one it     *)
(* stops at, and skips those before.                                       *)
LEMMA LoopOutcome ==
    ASSUME NEW r \in Requests, NEW list \in Seq(Msgs), NEW hashes,
           process_events(r, list, hashes)
    PROVE  \/ /\ Receiving(r)
              /\ \A e \in Range(list) : skipped(request[r].ws, e, hashes)
           \/ \E m \in Msgs, rest \in Seq(Msgs) :
                 /\ ~skipped(request[r].ws, m, hashes)
                 /\ \A e \in Range(list) :
                       e = m \/ e \in Range(rest) \/ skipped(request[r].ws, e, hashes)
                 /\ \/ /\ evt_name(m) = "blocks"
                       /\ Finding(r, m, subscription(request[r].ws, m), rest)
                    \/ /\ evt_name(m) # "blocks"
                       /\ notify(r, request[r].ws, m, subscription(request[r].ws, m), rest)
<1> DEFINE ws == request[r].ws
           n == Len(list)
           ours == {i \in 1..n : ~skipped(ws, list[i], hashes)}
           k == Min(ours)
           m == list[k]
           rest == SubSeq(list, k + 1, n)
<1>a. n \in Nat /\ DOMAIN list = 1..n /\ \A i \in 1..n : list[i] \in Msgs
  BY LenProperties, ElementOfSeq
<1>b. \A e \in Range(list) : \E i \in 1..n : e = list[i]
  BY <1>a DEF Range
<1>1. CASE ours = {}
  BY <1>1, <1>b DEF process_events, Receiving
<1>2. CASE ours # {}
  <2>1. ours \subseteq Nat
    BY <1>a
  <2>2. k \in ours /\ \A i \in ours : k =< i
    BY <1>2, <2>1, LeastIndex
  <2>3. k \in 1..n /\ m \in Msgs /\ ~skipped(ws, m, hashes)
    BY <2>2, <1>a
  <2>4. \/ evt_name(m) = "blocks" /\ Finding(r, m, subscription(ws, m), rest)
        \/ evt_name(m) # "blocks" /\ notify(r, ws, m, subscription(ws, m), rest)
    BY <1>2 DEF process_events, Finding
  <2>5. \A i \in 1..n : i < k => skipped(ws, list[i], hashes)
    BY <2>2, <2>3, <1>a
  <2> HIDE DEF k, m, ours
  <2>6. /\ rest \in Seq(Msgs)
        /\ \A i \in 1..n : i > k => list[i] \in Range(rest)
    BY <2>3, SuffixEvents
  <2> HIDE DEF rest, n
  <2>7. ASSUME NEW e \in Range(list)
        PROVE  e = m \/ e \in Range(rest) \/ skipped(ws, e, hashes)
    <3>1. PICK i \in 1..n : e = list[i]
      BY <1>b
    <3>2. CASE i < k
      BY <3>1, <3>2, <2>5
    <3>3. CASE i = k
      BY <3>1, <3>3 DEF m
    <3>4. CASE i > k
      BY <3>1, <3>4, <2>6
    <3> QED
      BY <3>2, <3>3, <3>4, <2>3, <1>a
  <2> QED
    BY <2>3, <2>4, <2>6, <2>7
<1> QED
  BY <1>1, <1>2

\* A consumer that waited for the socket notes the hash of what it sent.
Noting(r) ==
    IF consumer[r].pc = "drain"
    THEN evthashes' = [evthashes EXCEPT ![request[r].ws] =
                          evthashes[request[r].ws] \cup {prepare_evt_hash(consumer[r].msg)}]
    ELSE UNCHANGED evthashes

(* What a step of a consumer does to consumers, hashes and notifications.  *)
LEMMA ConsumerDelivery ==
    ASSUME DeliveryInv, NEW r \in Requests, consumer[r].pc # "none", NEW m, NEW msg_id, NEW rest,
           \/ /\ consumer[r].pc # "drain"
              /\ consumer' = [consumer EXCEPT ![r] = idle] /\ UNCHANGED sent
           \/ Receiving(r)
           \/ /\ m \in Msgs /\ msg_id \in Requests /\ rest \in Seq(Msgs)
              /\ \/ Finding(r, m, msg_id, rest)
                 \/ notify(r, request[r].ws, m, msg_id, rest),
           Noting(r), UNCHANGED <<open, request>>
    PROVE  /\ consumer' \in [Requests -> [pc : {"none", "receive", "lookup", "drain"},
                                          msg : Msgs \cup {None}, msg_id : Requests \cup {None},
                                          rest : Seq(Msgs)]]
           /\ sent' \subseteq [ws : Connections, msg_id : Requests, msg : Msgs]
           /\ Consuming' /\ HashesOfSent' /\ Remembered'
<1> DEFINE ws == request[r].ws
           Consumers == [pc : {"none", "receive", "lookup", "drain"},
                         msg : Msgs \cup {None}, msg_id : Requests \cup {None}, rest : Seq(Msgs)]
           task == consumer'[r]
<1>a. ws \in open /\ ws \in Connections /\ evthashes[ws] # None
  BY DEF DeliveryInv, Consuming, NotifyInv, Inv, SubscriptionType
<1>b. consumer \in [Requests -> Consumers]
  BY DEF DeliveryInv, EventType
<1>c. /\ consumer' = [consumer EXCEPT ![r] = task]
      /\ \A q \in Requests : q # r => consumer'[q] = consumer[q]
  BY <1>b DEF Receiving, Finding, notify
<1>d. \/ /\ task = [pc |-> "none", msg |-> None, msg_id |-> None, rest |-> <<>>]
         /\ sent' = sent /\ consumer[r].pc # "drain"
      \/ /\ task = [pc |-> "receive", msg |-> None, msg_id |-> None, rest |-> <<>>]
         /\ sent' = sent
      \/ /\ m \in Msgs /\ msg_id \in Requests /\ rest \in Seq(Msgs)
         /\ \/ /\ task = [pc |-> "lookup", msg |-> m, msg_id |-> msg_id, rest |-> rest]
               /\ sent' = sent
            \/ /\ task = [pc |-> "drain", msg |-> m, msg_id |-> msg_id, rest |-> rest]
               /\ sent' = sent \cup {[ws |-> ws, msg_id |-> msg_id, msg |-> m]}
  <2>1. consumer' = [consumer EXCEPT ![r] = idle] => task = idle
    BY <1>b
  <2>2. idle = [pc |-> "none", msg |-> None, msg_id |-> None, rest |-> <<>>]
    BY DEF idle
  <2>3. Receiving(r) => task = [pc |-> "receive", msg |-> None, msg_id |-> None, rest |-> <<>>]
    BY <1>b DEF Receiving, idle
  <2>4. Finding(r, m, msg_id, rest) =>
            task = [pc |-> "lookup", msg |-> m, msg_id |-> msg_id, rest |-> rest]
    BY <1>b DEF Finding
  <2>5. notify(r, ws, m, msg_id, rest) =>
            task = [pc |-> "drain", msg |-> m, msg_id |-> msg_id, rest |-> rest]
    BY <1>b DEF notify
  <2> HIDE DEF task
  <2> QED
    BY <2>1, <2>2, <2>3, <2>4, <2>5 DEF Receiving, Finding, notify
<1>1. consumer' \in [Requests -> Consumers]
  <2>1. <<>> \in Seq(Msgs)
    OBVIOUS
  <2>2. task \in Consumers
    <3>1. \A c \in {"none", "receive"} :
              [pc |-> c, msg |-> None, msg_id |-> None, rest |-> <<>>] \in Consumers
      BY <2>1
    <3>2. ASSUME m \in Msgs, msg_id \in Requests, rest \in Seq(Msgs)
          PROVE  \A c \in {"lookup", "drain"} :
                    [pc |-> c, msg |-> m, msg_id |-> msg_id, rest |-> rest] \in Consumers
      BY <3>2
    <3> HIDE DEF task, Consumers
    <3> QED
      BY <1>d, <3>1, <3>2
  <2> HIDE DEF Consumers, task
  <2> QED
    BY <2>2, <1>b, <1>c
<1>2. /\ sent' \subseteq [ws : Connections, msg_id : Requests, msg : Msgs]
      /\ sent \subseteq sent'
      /\ \A n \in sent' : n \in sent \/ (task.pc = "drain" /\ n.ws = ws /\ n.msg = task.msg)
  <2>1. sent \subseteq [ws : Connections, msg_id : Requests, msg : Msgs]
    BY DEF DeliveryInv, EventType
  <2> QED
    BY <2>1, <1>d, <1>a
<1>3. \A w : SentHashes(w) \subseteq SentHashes(w)'
  BY <1>2 DEF SentHashes, prepare_evt_hash
<1>4. /\ evthashes' = [w \in Connections |-> evthashes'[w]]
      /\ \A w \in Connections : w # ws => evthashes'[w] = evthashes[w]
      /\ \/ consumer[r].pc # "drain" /\ evthashes'[ws] = evthashes[ws]
         \/ /\ consumer[r].pc = "drain"
            /\ evthashes'[ws] = evthashes[ws] \cup {prepare_evt_hash(consumer[r].msg)}
  BY <1>a DEF Noting, DeliveryInv, HashesOfSent
<1>5. evthashes'[ws] \subseteq SentHashes(ws)
  <2>1. evthashes[ws] \subseteq SentHashes(ws)
    BY <1>a DEF DeliveryInv, HashesOfSent
  <2>2. consumer[r].pc = "drain" => prepare_evt_hash(consumer[r].msg) \in SentHashes(ws)
    BY DEF DeliveryInv, Consuming, SentHashes
  <2> QED
    BY <2>1, <2>2, <1>4
<1>6. evthashes'[ws] # None
  BY <1>5, HashesNotNone DEF DeliveryInv, EventType
<1>7. HashesOfSent'
  BY <1>3, <1>4, <1>5 DEF DeliveryInv, HashesOfSent
<1>8. Consuming'
  <2> SUFFICES ASSUME NEW q \in Requests
               PROVE  /\ consumer'[q].pc \in {"none", "receive"} => consumer'[q].rest = <<>>
                      /\ consumer'[q].pc \in {"lookup", "drain"} => consumer'[q].msg \in Msgs
                      /\ consumer'[q].pc # "none" =>
                            request[q].ws \in open /\ evthashes'[request[q].ws] # None
                      /\ consumer'[q].pc = "drain" =>
                            \E n \in sent' : n.ws = request[q].ws /\ n.msg = consumer'[q].msg
    BY DEF Consuming, Msgs
  <2>1. CASE q = r
    <3> HIDE DEF task, ws
    <3>1. /\ task.pc \in {"none", "receive"} => task.rest = <<>>
          /\ task.pc \in {"lookup", "drain"} => task.msg \in Msgs
      BY <1>d
    <3>2. ASSUME task.pc = "drain"
          PROVE  \E n \in sent' : n.ws = ws /\ n.msg = task.msg
      <4>1. [ws |-> ws, msg_id |-> msg_id, msg |-> m] \in sent' /\ task.msg = m
        BY <3>2, <1>d
      <4> QED
        BY <4>1
    <3> QED
      BY <2>1, <3>1, <3>2, <1>a, <1>6 DEF task, ws
  <2>2. CASE q # r
    <3>1. open \subseteq Connections
      BY DEF DeliveryInv, NotifyInv, Inv, SubscriptionType
    <3>2. consumer'[q] = consumer[q]
      BY <2>2, <1>c
    <3>3. consumer[q].pc # "none" =>
              request[q].ws \in open /\ evthashes'[request[q].ws] # None
      BY <3>1, <1>4, <1>6 DEF DeliveryInv, Consuming
    <3> QED
      BY <3>2, <3>3, <1>2 DEF DeliveryInv, Consuming
  <2> QED
    BY <2>1, <2>2
<1>9. Remembered'
  <2> SUFFICES ASSUME NEW n \in sent', n.ws \in open
               PROVE  /\ evthashes'[n.ws] # None
                      /\ \/ prepare_evt_hash(n.msg) \in evthashes'[n.ws]
                         \/ \E q \in Requests : /\ consumer'[q].pc = "drain"
                                                /\ request[q].ws = n.ws
                                                /\ consumer'[q].msg = n.msg
    BY DEF Remembered, prepare_evt_hash
  <2>1. CASE task.pc = "drain" /\ n.ws = ws /\ n.msg = task.msg
    BY <2>1, <1>6
  <2>2. CASE n \in sent
    <3>1. n.ws \in Connections /\ evthashes[n.ws] # None
      BY <2>2 DEF DeliveryInv, Remembered, NotifyInv, Inv, SubscriptionType
    <3>2. evthashes'[n.ws] # None /\ evthashes[n.ws] \subseteq evthashes'[n.ws]
      BY <3>1, <1>4, <1>6
    <3>3. CASE prepare_evt_hash(n.msg) \in evthashes[n.ws]
      BY <3>2, <3>3
    <3>4. ASSUME NEW q \in Requests, consumer[q].pc = "drain", request[q].ws = n.ws,
                 consumer[q].msg = n.msg
          PROVE  \/ prepare_evt_hash(n.msg) \in evthashes'[n.ws]
                 \/ consumer'[q] = consumer[q]
      BY <3>4, <1>c, <1>4
    <3> QED
      BY <2>2, <3>2, <3>3, <3>4 DEF DeliveryInv, Remembered
  <2> QED
    BY <2>1, <2>2, <1>2
<1> QED
  BY <1>1, <1>2, <1>7, <1>8, <1>9
\* A consumer takes a message from the queue, or goes on with the one it is at.
Takes(r, list) ==
    \/ /\ consumer[r].pc = "receive" /\ queue[request[r].ws] # <<>>
       /\ list = Head(queue[request[r].ws])
       /\ queue' = [queue EXCEPT ![request[r].ws] = Tail(queue[request[r].ws])]
    \/ /\ consumer[r].pc \in {"lookup", "drain"}
       /\ list = consumer[r].rest
       /\ UNCHANGED queue

\* It runs the loop over it, and takes for sent what was sent.
Loops(r, list, hashes) ==
    /\ Takes(r, list)
    /\ process_events(r, list, hashes)
    /\ evthashes[request[r].ws] \subseteq hashes
    /\ consumer[r].pc \in {"lookup", "drain"} => prepare_evt_hash(consumer[r].msg) \in hashes

\* A block it looked up is sent, or the lookup failed.
Sends(r) ==
    /\ consumer[r].pc = "lookup"
    /\ prepare_evt_hash(consumer[r].msg) \notin evthashes[request[r].ws]
    /\ notify(r, request[r].ws, consumer[r].msg, consumer[r].msg_id, consumer[r].rest)
    /\ UNCHANGED queue
Fails(r) ==
    /\ consumer[r].pc = "lookup"
    /\ consumer' = [consumer EXCEPT ![r] = idle]
    /\ UNCHANGED <<queue, sent>>

(* The steps of a consumer.                                                *)
LEMMA ConsumeCases ==
    ASSUME DeliveryInv, NEW r \in Requests, consume(r)
    PROVE  /\ consumer[r].pc # "none" /\ Noting(r)
           /\ request[r].ws \in open /\ request[r].ws \in Connections
           /\ UNCHANGED <<subscriptionVars, answer, producer, happened, status>>
           /\ \/ \E list \in Seq(Msgs), hashes \in SUBSET SentHashes(request[r].ws) :
                    Loops(r, list, hashes)
              \/ Sends(r)
              \/ Fails(r)
<1> DEFINE ws == request[r].ws
<1>a. UNCHANGED <<subscriptionVars, answer, producer, happened, status>>
  <2>1. UNCHANGED subscriptionVars
    BY QuietSteps
  <2> QED
    BY <2>1 DEF consume, process_msg, process_msg_looked_up, process_msg_sent, requestVars,
                validatorVars
<1>b. consumer[r].pc \in {"receive", "lookup", "drain"}
  BY DEF consume, process_msg, receive, process_msg_looked_up, process_msg_sent
<1>c. ws \in open /\ ws \in Connections /\ evthashes[ws] # None
  BY <1>b DEF DeliveryInv, Consuming, NotifyInv, Inv, SubscriptionType
<1>d. evthashes[ws] \in SUBSET SentHashes(ws)
  BY <1>c DEF DeliveryInv, HashesOfSent
<1>e. consumer[r].rest \in Seq(Msgs) /\ queue[ws] \in Seq(Seq(Msgs))
  BY <1>c DEF DeliveryInv, EventType
<1>1. ASSUME process_msg(r)
      PROVE  /\ Noting(r)
             /\ \E list \in Seq(Msgs), hashes \in SUBSET SentHashes(ws) : Loops(r, list, hashes)
  <2>1. queue[ws] # <<>> /\ consumer[r].pc = "receive"
    BY <1>1 DEF process_msg, receive
  <2>2. Head(queue[ws]) \in Seq(Msgs)
    BY <2>1, <1>e, HeadTailProperties
  <2>3. Loops(r, Head(queue[ws]), evthashes[ws])
    BY <1>1, <2>1 DEF process_msg, receive, Loops, Takes
  <2>4. Noting(r)
    BY <1>1, <2>1 DEF process_msg, Noting
  <2> QED
    BY <2>2, <2>3, <2>4, <1>d
<1>2. ASSUME process_msg_looked_up(r)
      PROVE  /\ Noting(r)
             /\ \/ \E list \in Seq(Msgs), hashes \in SUBSET SentHashes(ws) : Loops(r, list, hashes)
                \/ Sends(r) \/ Fails(r)
  <2>1. consumer[r].pc = "lookup" /\ UNCHANGED <<queue, evthashes>>
    BY <1>2 DEF process_msg_looked_up
  <2>2. CASE /\ prepare_evt_hash(consumer[r].msg) \in evthashes[ws]
             /\ process_events(r, consumer[r].rest, evthashes[ws])
    <3>1. Loops(r, consumer[r].rest, evthashes[ws])
      BY <2>1, <2>2 DEF Loops, Takes
    <3> QED
      BY <3>1, <2>1, <1>d, <1>e DEF Noting
  <2>3. CASE /\ prepare_evt_hash(consumer[r].msg) \notin evthashes[ws]
             /\ notify(r, ws, consumer[r].msg, consumer[r].msg_id, consumer[r].rest)
    BY <2>1, <2>3 DEF Sends, Noting
  <2>4. CASE consumer' = [consumer EXCEPT ![r] = idle] /\ UNCHANGED sent
    BY <2>1, <2>4 DEF Fails, Noting
  <2> QED
    BY <1>2, <2>2, <2>3, <2>4 DEF process_msg_looked_up
<1>3. ASSUME process_msg_sent(r)
      PROVE  /\ Noting(r)
             /\ \E list \in Seq(Msgs), hashes \in SUBSET SentHashes(ws) : Loops(r, list, hashes)
  <2> DEFINE hashes == evthashes[ws] \cup {prepare_evt_hash(consumer[r].msg)}
  <2>1. consumer[r].pc = "drain" /\ UNCHANGED queue
    BY <1>3 DEF process_msg_sent
  <2>2. prepare_evt_hash(consumer[r].msg) \in SentHashes(ws)
    BY <2>1 DEF DeliveryInv, Consuming, SentHashes
  <2>3. hashes \in SUBSET SentHashes(ws)
    BY <2>2, <1>d
  <2>4. Loops(r, consumer[r].rest, hashes)
    BY <1>3, <2>1 DEF process_msg_sent, Loops, Takes
  <2>5. Noting(r)
    BY <1>3, <2>1 DEF process_msg_sent, Noting
  <2> HIDE DEF hashes
  <2> QED
    BY <2>3, <2>4, <2>5, <1>e
<1> QED
  BY <1>a, <1>b, <1>c, <1>1, <1>2, <1>3 DEF consume

(* A step of a consumer keeps the invariant.                               *)
LEMMA ConsumeDeliveryStep ==
    ASSUME DeliveryInv, NEW r \in Requests, consume(r)
    PROVE  DeliveryInv'
<1> DEFINE ws == request[r].ws
           Done == /\ consumer' \in [Requests -> [pc : {"none", "receive", "lookup", "drain"},
                                                  msg : Msgs \cup {None},
                                                  msg_id : Requests \cup {None},
                                                  rest : Seq(Msgs)]]
                   /\ sent' \subseteq [ws : Connections, msg_id : Requests, msg : Msgs]
                   /\ Consuming' /\ HashesOfSent' /\ Remembered'
<1>a. NotifyInv'
  BY ConsumeStep DEF DeliveryInv
<1>b. /\ consumer[r].pc # "none" /\ Noting(r) /\ ws \in Connections
      /\ UNCHANGED <<subscriptionVars, answer, producer, happened, status>>
      /\ \/ \E list \in Seq(Msgs), hashes \in SUBSET SentHashes(ws) : Loops(r, list, hashes)
         \/ Sends(r)
         \/ Fails(r)
  BY ConsumeCases
<1>c. UNCHANGED <<open, request, pc, event_lock>>
  BY <1>b DEF subscriptionVars
<1>1. ASSUME NEW list \in Seq(Msgs), NEW hashes, Loops(r, list, hashes)
      PROVE  Done
  <2> HIDE DEF Done
  <2>1. process_events(r, list, hashes)
    BY <1>1 DEF Loops
  <2>2. CASE Receiving(r)
    BY <2>2, <1>b, <1>c, ConsumerDelivery DEF Done
  <2>3. ASSUME NEW m \in Msgs, NEW rest \in Seq(Msgs), ~skipped(ws, m, hashes),
               \/ Finding(r, m, subscription(ws, m), rest)
               \/ notify(r, ws, m, subscription(ws, m), rest)
        PROVE  Done
    <3>1. subscription(ws, m) \in Requests
      <4>1. wanted(ws, m)
        BY <2>3 DEF skipped
      <4> QED
        BY <4>1, <1>b, WantedServes DEF Serves, DeliveryInv
    <3> QED
      BY <2>3, <3>1, <1>b, <1>c, ConsumerDelivery DEF Done
  <2> QED
    BY <2>1, <2>2, <2>3, LoopOutcome
<1>2. ASSUME Sends(r)
      PROVE  Done
  <2>1. /\ consumer[r].msg \in Msgs /\ consumer[r].rest \in Seq(Msgs)
        /\ consumer[r].msg_id \in Requests
    BY <1>2 DEF Sends, DeliveryInv, Consuming, EventType, NotifyInv, AtHand, Serves
  <2>2. notify(r, ws, consumer[r].msg, consumer[r].msg_id, consumer[r].rest)
    BY <1>2 DEF Sends
  <2> QED
    BY <2>1, <2>2, <1>b, <1>c, ConsumerDelivery
<1>3. ASSUME Fails(r)
      PROVE  Done
  <2>1. /\ consumer[r].pc # "drain"
        /\ consumer' = [consumer EXCEPT ![r] = idle] /\ UNCHANGED sent
    BY <1>3 DEF Fails
  <2> QED
    BY <2>1, <1>b, <1>c, ConsumerDelivery
<1>4. Done
  BY <1>b, <1>1, <1>2, <1>3
<1>5. queue' \in [Connections -> Seq(Seq(Msgs))]
  <2>1. queue \in [Connections -> Seq(Seq(Msgs))] /\ queue[ws] \in Seq(Seq(Msgs))
    BY <1>b DEF DeliveryInv, EventType
  <2>2. queue[ws] # <<>> => Tail(queue[ws]) \in Seq(Seq(Msgs))
    BY <2>1, HeadTailProperties
  <2>3. \/ UNCHANGED queue
        \/ queue[ws] # <<>> /\ queue' = [queue EXCEPT ![ws] = Tail(queue[ws])]
    BY <1>b DEF Loops, Takes, Sends, Fails
  <2> QED
    BY <2>1, <2>2, <2>3
<1>6. EventType'
  BY <1>b, <1>c, <1>4, <1>5 DEF DeliveryInv, EventType
<1>7. FiniteBlocks' /\ Polling'
  BY <1>b, <1>c DEF DeliveryInv, FiniteBlocks, Polling
<1> QED
  BY <1>a, <1>4, <1>6, <1>7 DEF DeliveryInv

(* Every step keeps the invariant.                                         *)
LEMMA DeliveryStep ==
    ASSUME DeliveryInv, [Next]_vars
    PROVE  DeliveryInv'
<1>1. CASE Environment
  BY <1>1, RequestDeliveryStep, ExitDeliveryStep, ValidatorDeliveryStep DEF Environment
<1>2. CASE \E r \in Requests : RequestStep(r)
  BY <1>2, RequestDeliveryStep, AcceptedDeliveryStep DEF RequestStep
<1>3. CASE \E r \in Requests : consume(r) \/ produce(r)
  BY <1>3, ConsumeDeliveryStep, ProduceDeliveryStep
<1>4. CASE UNCHANGED vars
  BY <1>4, ValidatorDeliveryStep
<1> QED
  BY <1>1, <1>2, <1>3, <1>4 DEF Next

(* The invariant holds for any events, however they are repeated.          *)
THEOREM DeliverySafety == Spec => []DeliveryInv
<1>1. DeliveryInv /\ [Next]_vars => DeliveryInv'
  BY DeliveryStep
<1> QED
  BY InitDeliveryInv, <1>1, PTL DEF Spec

(* Every variable has the type of the structure it models: messages are    *)
(* lists of events, statuses polled are those of batches, and hashes are   *)
(* those of events.                                                        *)
THEOREM TypeCorrect == Spec => []TypeOK
<1>1. DeliveryInv => TypeOK
  <2> SUFFICES ASSUME DeliveryInv PROVE TypeOK
    OBVIOUS
  <2>1. \A ws \in Connections : evthashes[ws] # None =>
            evthashes[ws] \subseteq {prepare_evt_hash(m) : m \in Msgs}
    <3>1. \A ws : SentHashes(ws) \subseteq {prepare_evt_hash(m) : m \in Msgs}
      BY DEF DeliveryInv, EventType, SentHashes
    <3> QED
      BY <3>1 DEF DeliveryInv, HashesOfSent
  <2>2. SubscriptionType /\ TaskType /\ EventType
    BY DEF DeliveryInv, NotifyInv, Inv
  <2> QED
    BY <2>1, <2>2 DEF TypeOK, SubscriptionType, TaskType, EventType
<1> QED
  BY DeliverySafety, <1>1, PTL
-----------------------------------------------------------------------------
(* A queue that is the same, or has a message more.                        *)
LEMMA QueueGrows ==
    ASSUME NEW q \in Seq(Seq(Msgs)), NEW list \in Seq(Msgs), NEW q2,
           q2 = q \/ q2 = Append(q, list)
    PROVE  /\ Len(q) \in Nat /\ Len(q2) \in Nat /\ Len(q) =< Len(q2)
           /\ \A i \in 1..Len(q) : q2[i] = q[i]
<1>1. Len(q) \in Nat
  BY LenProperties
<1>2. CASE q2 = q
  BY <1>1, <1>2
<1>3. CASE q2 = Append(q, list)
  <2>1. Len(q2) = Len(q) + 1 /\ \A i \in 1..Len(q) : q2[i] = q[i]
    BY <1>1, <1>3, AppendProperties
  <2> QED
    BY <1>1, <2>1
<1> QED
  BY <1>2, <1>3

(* Nothing is passed over if queues grow and consumers keep their message. *)
LEMMA PendingGrows ==
    ASSUME NEW ws, Len(queue[ws]) \in Nat, Len(queue'[ws]) \in Nat,
           Len(queue[ws]) =< Len(queue'[ws]),
           \A i \in 1..Len(queue[ws]) : queue'[ws][i] = queue[ws][i],
           \A q \in Requests : (request[q].ws = ws /\ consumer[q].rest # <<>>) =>
               request'[q] = request[q] /\ consumer'[q].rest = consumer[q].rest
    PROVE  Pending(ws) \subseteq Pending(ws)'
<1> SUFFICES ASSUME NEW e \in Pending(ws) PROVE e \in Pending(ws)'
  OBVIOUS
<1>1. CASE \E i \in 1..Len(queue[ws]) : e \in Range(queue[ws][i])
  <2>1. PICK i \in 1..Len(queue[ws]) : e \in Range(queue[ws][i])
    BY <1>1
  <2>2. i \in 1..Len(queue'[ws]) /\ e \in Range(queue'[ws][i])
    BY <2>1
  <2> QED
    BY <2>2 DEF Pending, Msgs
<1>2. ASSUME NEW q \in Requests, request[q].ws = ws, e \in Range(consumer[q].rest)
      PROVE  e \in Pending(ws)'
  <2>1. consumer[q].rest # <<>>
    BY <1>2 DEF Range
  <2>2. request'[q].ws = ws /\ e \in Range(consumer'[q].rest)
    BY <1>2, <2>1
  <2> QED
    BY <2>2 DEF Pending, Msgs
<1> QED
  BY <1>1, <1>2 DEF Pending

\* What a step other than a consumer's leaves alone on an open connection.
Undisturbed(ws) ==
    /\ Pending(ws) \subseteq Pending(ws)'
    /\ \A q \in Requests : (request[q].ws = ws /\ consumer[q].pc # "none") =>
          request'[q] = request[q] /\ consumer'[q] = consumer[q]

(* The steps that touch neither queues nor consumers.                      *)
LEMMA UndisturbedSame ==
    ASSUME DeliveryInv, NEW ws \in Connections, UNCHANGED <<queue, consumer>>,
           \A q \in Requests : pc[q] = "done" => request'[q] = request[q]
    PROVE  Undisturbed(ws)
<1>1. \A q \in Requests : consumer[q].pc # "none" => request'[q] = request[q]
  BY DEF DeliveryInv, NotifyInv, TaskType, idle
<1>2. \A q \in Requests : consumer[q].rest # <<>> => consumer[q].pc # "none"
  BY DEF DeliveryInv, Consuming
<1>3. Len(queue[ws]) \in Nat
  BY DEF DeliveryInv, EventType
<1>4. Pending(ws) \subseteq Pending(ws)'
  BY <1>1, <1>2, <1>3, PendingGrows
<1> QED
  BY <1>1, <1>4 DEF Undisturbed

(* The steps that put messages in queues.                                  *)
LEMMA UndisturbedQueued ==
    ASSUME DeliveryInv, NEW ws \in Connections, UNCHANGED <<request, consumer>>,
           \/ UNCHANGED queue
           \/ \E more \in Seq(Seq(Msgs)) : queue'[ws] = queue[ws] \o more
    PROVE  Undisturbed(ws)
<1>1. queue[ws] \in Seq(Seq(Msgs)) /\ Len(queue[ws]) \in Nat
  BY DEF DeliveryInv, EventType
<1>2. /\ Len(queue'[ws]) \in Nat /\ Len(queue[ws]) =< Len(queue'[ws])
      /\ \A i \in 1..Len(queue[ws]) : queue'[ws][i] = queue[ws][i]
  <2>1. ASSUME NEW more \in Seq(Seq(Msgs)), queue'[ws] = queue[ws] \o more
        PROVE  /\ Len(queue'[ws]) \in Nat /\ Len(queue[ws]) =< Len(queue'[ws])
               /\ \A i \in 1..Len(queue[ws]) : queue'[ws][i] = queue[ws][i]
    BY <2>1, <1>1
  <2> QED
    BY <2>1, <1>1
<1>3. Pending(ws) \subseteq Pending(ws)'
  BY <1>1, <1>2, PendingGrows
<1> QED
  BY <1>3 DEF Undisturbed

(* Only consumers pass events over, on a connection that stays open.       *)
LEMMA OthersPassNothing ==
    ASSUME DeliveryInv, [Next]_vars, ~\E r \in Requests : consume(r), NEW ws \in open'
    PROVE  Undisturbed(ws)
<1>a. open' \subseteq Connections /\ ws \in Connections
  <2>1. SubscriptionType'
    BY DeliveryStep DEF DeliveryInv, NotifyInv, Inv
  <2> QED
    BY <2>1 DEF SubscriptionType
<1>q. queue \in [Connections -> Seq(Seq(Msgs))] /\ queue[ws] \in Seq(Seq(Msgs))
  BY <1>a DEF DeliveryInv, EventType
<1>1. ASSUME NEW r \in Requests,
             \/ \E params \in Params : handle_websocket_request(r, params)
             \/ subscribe_refused(r) \/ subscribe(r) \/ subscribe_listed_blocks(r)
             \/ subscribe_failed(r) \/ unsubscribe(r)
      PROVE  Undisturbed(ws)
  <2>1. /\ UNCHANGED <<queue, consumer>>
        /\ \A q \in Requests : pc[q] = "done" => request'[q] = request[q]
    BY <1>1 DEF handle_websocket_request, subscribe_refused, subscribe, subscribe_listed_blocks,
                subscribe_failed, unsubscribe, taskVars, DeliveryInv, NotifyInv, Inv,
                SubscriptionType
  <2> QED
    BY <2>1, <1>a, UndisturbedSame
<1>2. ASSUME NEW r \in Requests, subscribe_accepted(r)
      PROVE  Undisturbed(ws)
  <2>1. consumer[r] = idle /\ UNCHANGED <<queue, request>>
    BY <1>2 DEF subscribe_accepted, DeliveryInv, NotifyInv, TaskType
  <2>2. \A q \in Requests : q # r => consumer'[q] = consumer[q]
    BY <1>2 DEF subscribe_accepted, taskVars, DeliveryInv, EventType
  <2>3. \A q \in Requests : consumer[q].rest # <<>> \/ consumer[q].pc # "none" => q # r
    BY <2>1 DEF idle
  <2>4. Len(queue[ws]) \in Nat
    BY <1>q
  <2>5. Pending(ws) \subseteq Pending(ws)'
    BY <2>1, <2>2, <2>3, <2>4, PendingGrows
  <2> QED
    BY <2>1, <2>2, <2>3, <2>5 DEF Undisturbed
<1>3. ASSUME NEW r \in Requests, produce(r)
      PROVE  Undisturbed(ws)
  <2>1. UNCHANGED <<request, consumer>>
    BY <1>3 DEF produce, produce_custom_msg, produce_custom_msg_status,
                produce_custom_msg_failed, produce_custom_msg_empty, requestVars
  <2>2. CASE UNCHANGED queue
    BY <2>1, <2>2, <1>a, UndisturbedQueued
  <2>3. CASE produce_custom_msg_status(r)
    <3> DEFINE w == request[r].ws
               m == [id |-> producer[r].id, status |-> Status[status[producer[r].id]]]
    <3>1. queue' = [queue EXCEPT ![w] = Append(queue[w], <<m>>)]
      BY <2>3 DEF produce_custom_msg_status
    <3>2. queue'[ws] = queue[ws] \/ queue'[ws] = Append(queue[ws], <<m>>)
      BY <3>1, <1>a, <1>q
    <3>3. <<m>> \in Seq(Msgs)
      <4>1. producer[r].id \in Batches
        BY <2>3 DEF produce_custom_msg_status, DeliveryInv, Polling
      <4>2. status[producer[r].id] \in 1..Len(Status)
        BY <4>1 DEF DeliveryInv, EventType
      <4>3. Status[status[producer[r].id]] \in Range(Status)
        BY <4>2, EventAssumption DEF Range
      <4>4. m \in Msgs
        BY <4>1, <4>3 DEF Msgs, BatchEvents
      <4> HIDE DEF m
      <4> QED
        BY <4>4
    <3> DEFINE list == <<m>>
    <3> HIDE DEF list
    <3>4. /\ Len(queue[ws]) \in Nat /\ Len(queue'[ws]) \in Nat
          /\ Len(queue[ws]) =< Len(queue'[ws])
          /\ \A i \in 1..Len(queue[ws]) : queue'[ws][i] = queue[ws][i]
      <4>1. list \in Seq(Msgs) /\ (queue'[ws] = queue[ws] \/ queue'[ws] = Append(queue[ws], list))
        BY <3>2, <3>3 DEF list
      <4> QED
        BY <4>1, <1>q, QueueGrows
    <3>5. Pending(ws) \subseteq Pending(ws)'
      BY <3>4, <2>1, PendingGrows
    <3> QED
      BY <3>5, <2>1 DEF Undisturbed
  <2> QED
    BY <1>3, <2>2, <2>3 DEF produce, produce_custom_msg, produce_custom_msg_failed,
                            produce_custom_msg_empty
<1>4. ASSUME NEW w \in Connections, register_exit(w)
      PROVE  Undisturbed(ws)
  <2>1. ws # w /\ UNCHANGED request
    BY <1>4 DEF register_exit, requestVars
  <2>2. queue'[ws] = queue[ws]
    BY <1>4, <2>1, <1>a, <1>q DEF register_exit
  <2>3. \A q \in Requests : request[q].ws = ws => consumer'[q] = consumer[q]
    BY <1>4, <2>1 DEF register_exit
  <2>4. Len(queue[ws]) \in Nat
    BY <1>q
  <2>5. Pending(ws) \subseteq Pending(ws)'
    BY <2>1, <2>2, <2>3, <2>4, PendingGrows
  <2> QED
    BY <2>1, <2>3, <2>5 DEF Undisturbed
<1>5. ASSUME NEW w \in Connections, ValidatorAccepts(w)
      PROVE  Undisturbed(ws)
  <2>1. UNCHANGED <<request, consumer>>
    BY <1>5 DEF ValidatorAccepts, taskVars
  <2> DEFINE all(types) == {event_list(block, types) : block \in happened}
  <2>2. PICK again \in SUBSET all(Head(wire[w]).types) :
            queue' = [queue EXCEPT ![w] = queue[w] \o SetToSeq(again)]
    BY <1>5 DEF ValidatorAccepts
  <2>3. SetToSeq(again) \in Seq(Seq(Msgs))
    BY AgainType DEF DeliveryInv, EventType
  <2> HIDE DEF all
  <2>4. <<>> \in Seq(Seq(Msgs)) /\ queue[ws] = queue[ws] \o <<>>
    BY <1>q
  <2>5. \E more \in Seq(Seq(Msgs)) : queue'[ws] = queue[ws] \o more
    BY <2>2, <2>3, <2>4, <1>a, <1>q
  <2> QED
    BY <2>1, <2>5, <1>a, UndisturbedQueued
<1>6. ASSUME NEW block \in SUBSET Events, ValidatorEvents(block)
      PROVE  Undisturbed(ws)
  <2>1. UNCHANGED <<request, consumer>>
    BY <1>6 DEF ValidatorEvents, requestVars, taskVars
  <2> DEFINE list == event_list(block, upheld[ws])
  <2>2. list \in Seq(Msgs)
    BY <1>6, EventListType DEF ValidatorEvents
  <2>3. queue'[ws] = queue[ws] \/ queue'[ws] = Append(queue[ws], list)
    BY <1>6, <1>a DEF ValidatorEvents
  <2> HIDE DEF list
  <2>4. /\ Len(queue[ws]) \in Nat /\ Len(queue'[ws]) \in Nat
        /\ Len(queue[ws]) =< Len(queue'[ws])
        /\ \A i \in 1..Len(queue[ws]) : queue'[ws][i] = queue[ws][i]
    BY <2>2, <2>3, <1>q, QueueGrows
  <2>5. Pending(ws) \subseteq Pending(ws)'
    BY <2>1, <2>4, PendingGrows
  <2> QED
    BY <2>1, <2>5 DEF Undisturbed
<1>7. CASE (\E id \in Batches : BatchProgress(id)) \/ UNCHANGED vars
  <2>1. UNCHANGED <<request, consumer, queue>>
    BY <1>7 DEF BatchProgress, vars, requestVars, taskVars
  <2> QED
    BY <2>1, <1>a, UndisturbedQueued
<1>8. CASE Environment
  BY <1>8, <1>1, <1>4, <1>5, <1>6, <1>7 DEF Environment
<1>9. CASE \E r \in Requests : RequestStep(r) \/ produce(r)
  BY <1>9, <1>1, <1>2, <1>3 DEF RequestStep
<1> QED
  BY <1>7, <1>8, <1>9 DEF Next
(* What a consumer passes over was in the message it took.                 *)
LEMMA TakenFrom ==
    ASSUME DeliveryInv, NEW r \in Requests, NEW list, Takes(r, list), UNCHANGED request,
           \A q \in Requests : q # r => consumer'[q] = consumer[q],
           NEW ws \in Connections, NEW e \in Pending(ws), e \notin Pending(ws)'
    PROVE  ws = request[r].ws /\ e \in Range(list) /\ e \notin Range(consumer'[r].rest)
<1>a. /\ e \in Msgs
      /\ \A i \in 1..Len(queue'[ws]) : e \notin Range(queue'[ws][i])
      /\ \A q \in Requests : request[q].ws = ws => e \notin Range(consumer'[q].rest)
  BY DEF Pending, Msgs
<1>b. queue \in [Connections -> Seq(Seq(Msgs))] /\ queue[ws] \in Seq(Seq(Msgs))
  BY DEF DeliveryInv, EventType
<1>1. ASSUME NEW i \in 1..Len(queue[ws]), e \in Range(queue[ws][i])
      PROVE  ws = request[r].ws /\ e \in Range(list)
  <2>1. queue'[ws] # queue[ws]
    BY <1>1, <1>a
  <2>2. /\ ws = request[r].ws /\ queue[ws] # <<>> /\ list = Head(queue[ws])
        /\ queue'[ws] = Tail(queue[ws])
    BY <2>1, <1>b DEF Takes
  <2>3. CASE i = 1
    <3>1. list = queue[ws][1]
      BY <2>2, <1>b
    <3> QED
      BY <2>2, <2>3, <3>1, <1>1
  <2>4. CASE i # 1
    <3> DEFINE s == queue[ws]
    <3>1. /\ Len(s) \in Nat /\ Len(Tail(s)) = Len(s) - 1
          /\ \A j \in 1..Len(Tail(s)) : Tail(s)[j] = s[j + 1]
      BY <2>2, <1>b, HeadTailProperties, LenProperties
    <3> DEFINE n == Len(s)
               k == Len(Tail(s))
               j == i - 1
    <3>2. n \in Nat /\ k = n - 1 /\ i \in 1..n
      BY <3>1
    <3> HIDE DEF n, k
    <3>3. j \in 1..k /\ j + 1 = i
      BY <3>2, <2>4
    <3>4. Tail(s)[j] = s[i]
      BY <3>1, <3>3 DEF k
    <3> QED
      BY <3>3, <3>4, <2>2, <1>1, <1>a DEF k
  <2> QED
    BY <2>3, <2>4
<1>2. ASSUME NEW q \in Requests, request[q].ws = ws, e \in Range(consumer[q].rest)
      PROVE  ws = request[r].ws /\ e \in Range(list)
  <2>1. q = r
    BY <1>2, <1>a
  <2>2. consumer[r].rest # <<>>
    BY <1>2, <2>1 DEF Range
  <2>3. list = consumer[r].rest
    BY <2>2 DEF Takes, DeliveryInv, Consuming
  <2> QED
    BY <1>2, <2>1, <2>3
<1>3. ws = request[r].ws /\ e \in Range(list)
  BY <1>1, <1>2 DEF Pending
<1> QED
  BY <1>3, <1>a

(* A consumer leaves the others alone and takes nothing back.              *)
LEMMA ConsumesAlone ==
    ASSUME DeliveryInv, NEW r \in Requests, consume(r)
    PROVE  /\ \A q \in Requests : q # r => consumer'[q] = consumer[q]
           /\ sent \subseteq sent'
<1> DEFINE Alone == /\ \A q \in Requests : q # r => consumer'[q] = consumer[q]
                    /\ sent \subseteq sent'
<1>a. consumer = [q \in Requests |-> consumer[q]]
  BY DEF DeliveryInv, NotifyInv, TaskType
<1>1. ASSUME NEW m, NEW msg_id, NEW rest,
             \/ consumer' = [consumer EXCEPT ![r] = idle] /\ UNCHANGED sent
             \/ Receiving(r) \/ Finding(r, m, msg_id, rest)
             \/ notify(r, request[r].ws, m, msg_id, rest)
      PROVE  Alone
  BY <1>1, <1>a DEF Receiving, Finding, notify
<1> HIDE DEF Alone
<1>2. ASSUME NEW list \in Seq(Msgs), NEW hashes, Loops(r, list, hashes)
      PROVE  Alone
  <2>1. process_events(r, list, hashes)
    BY <1>2 DEF Loops
  <2> QED
    BY <2>1, <1>1, EventsOutcome
<1>3. Sends(r) \/ Fails(r) => Alone
  BY <1>1 DEF Sends, Fails
<1>4. Alone
  BY <1>2, <1>3, ConsumeCases
<1> QED
  BY <1>4 DEF Alone

(* What becomes of an event that a consumer passes over though the client  *)
(* subscribed to it.                                                       *)
LEMMA PassedOver ==
    ASSUME DeliveryInv, NEW r \in Requests, consume(r), NEW ws \in open',
           NEW m \in Pending(ws), m \notin Pending(ws)', wanted(ws, m)
    PROVE  \/ /\ evt_name(m) # "blocks"
              /\ \/ prepare_evt_hash(m) \in SentHashes(ws)
                 \/ \E n \in sent' : n.ws = ws /\ n.msg = m
           \/ /\ evt_name(m) = "blocks" /\ request[r].ws = ws
              /\ consumer'[r].pc = "lookup" /\ consumer'[r].msg = m
           \/ request[r].ws = ws /\ LookupFails(r) /\ m \in Range(consumer[r].rest)
<1>a. /\ UNCHANGED request /\ ws \in Connections
      /\ consumer \in [Requests -> {consumer[q] : q \in Requests}]
  BY ConsumeCases DEF subscriptionVars, DeliveryInv, NotifyInv, Inv, SubscriptionType, TaskType
<1>b. \A q \in Requests : q # r => consumer'[q] = consumer[q]
  BY ConsumesAlone
<1>c. ASSUME NEW list, Takes(r, list)
      PROVE  ws = request[r].ws /\ m \in Range(list) /\ m \notin Range(consumer'[r].rest)
  BY <1>a, <1>b, <1>c, TakenFrom
<1>1. ASSUME NEW list \in Seq(Msgs), NEW hashes \in SUBSET SentHashes(request[r].ws),
             Loops(r, list, hashes)
      PROVE  \/ /\ evt_name(m) # "blocks"
                /\ \/ prepare_evt_hash(m) \in SentHashes(ws)
                   \/ \E n \in sent' : n.ws = ws /\ n.msg = m
             \/ /\ evt_name(m) = "blocks" /\ request[r].ws = ws
                /\ consumer'[r].pc = "lookup" /\ consumer'[r].msg = m
  <2>1. process_events(r, list, hashes)
    BY <1>1 DEF Loops
  <2>2. ws = request[r].ws /\ m \in Range(list) /\ m \notin Range(consumer'[r].rest)
    BY <1>1, <1>c DEF Loops
  <2>3. skipped(ws, m, hashes) =>
            evt_name(m) # "blocks" /\ prepare_evt_hash(m) \in SentHashes(ws)
    BY <2>2 DEF skipped
  <2>4. CASE \A e \in Range(list) : skipped(ws, e, hashes)
    BY <2>2, <2>3, <2>4
  <2>5. ASSUME NEW e, NEW rest, m = e \/ m \in Range(rest) \/ skipped(ws, m, hashes),
               \/ evt_name(e) = "blocks" /\ Finding(r, e, subscription(ws, e), rest)
               \/ evt_name(e) # "blocks" /\ notify(r, ws, e, subscription(ws, e), rest)
        PROVE  \/ /\ evt_name(m) # "blocks"
                  /\ \/ prepare_evt_hash(m) \in SentHashes(ws)
                     \/ \E n \in sent' : n.ws = ws /\ n.msg = m
               \/ /\ evt_name(m) = "blocks"
                  /\ consumer'[r].pc = "lookup" /\ consumer'[r].msg = m
    <3>1. consumer'[r].rest = rest /\ consumer'[r].msg = e
      BY <2>5, <1>a DEF Finding, notify
    <3>2. CASE m = e
      <4>1. CASE evt_name(e) = "blocks" /\ Finding(r, e, subscription(ws, e), rest)
        BY <4>1, <3>2, <1>a DEF Finding
      <4>2. CASE evt_name(e) # "blocks" /\ notify(r, ws, e, subscription(ws, e), rest)
        <5>1. [ws |-> ws, msg_id |-> subscription(ws, e), msg |-> e] \in sent'
          BY <4>2 DEF notify
        <5> QED
          BY <5>1, <4>2, <3>2
      <4> QED
        BY <4>1, <4>2, <2>5
    <3> QED
      BY <3>1, <3>2, <2>2, <2>3, <2>5
  <2> QED
    BY <2>1, <2>2, <2>4, <2>5, LoopOutcome
<1>2. ~Sends(r)
  <2> SUFFICES ASSUME Sends(r) PROVE FALSE
    OBVIOUS
  <2>1. Takes(r, consumer[r].rest)
    BY DEF Sends, Takes
  <2>2. consumer'[r].rest = consumer[r].rest
    BY <1>a DEF Sends, notify
  <2> QED
    BY <2>1, <2>2, <1>c
<1>3. ASSUME Fails(r)
      PROVE  request[r].ws = ws /\ LookupFails(r) /\ m \in Range(consumer[r].rest)
  <2>1. Takes(r, consumer[r].rest)
    BY <1>3 DEF Fails, Takes
  <2>2. consumer'[r].pc = "none" /\ consumer[r].pc = "lookup"
    BY <1>3, <1>a DEF Fails, idle
  <2> QED
    BY <2>1, <2>2, <1>c DEF LookupFails
<1> QED
  BY <1>1, <1>2, <1>3, ConsumeCases

\* The hashes tell events apart.
HashesDiffer ==
    \A m1, m2 \in Msgs : prepare_evt_hash(m1) = prepare_evt_hash(m2) => m1 = m2

(* A hash of something sent is then that of this event.                    *)
LEMMA SentByHash ==
    ASSUME DeliveryInv, HashesDiffer, NEW ws, NEW m \in Msgs,
           prepare_evt_hash(m) \in SentHashes(ws)
    PROVE  \E n \in sent : n.ws = ws /\ n.msg = m
<1>1. PICK n \in sent : n.ws = ws /\ prepare_evt_hash(n.msg) = prepare_evt_hash(m)
  BY DEF SentHashes
<1>2. n.msg \in Msgs
  BY DEF DeliveryInv, EventType
<1> QED
  BY <1>1, <1>2 DEF HashesDiffer

(* If hashes tell events apart, an update the client subscribed to is      *)
(* passed over only if the client is notified of it, or with a block whose *)
(* lookup fails.                                                           *)
THEOREM EveryUpdateNotifiedCorrect ==
    ASSUME HashesDiffer
    PROVE  Spec => EveryUpdateNotified
<1>1. DeliveryInv /\ [Next]_vars =>
        [\A ws \in open' : \A m \in Pending(ws) \ Pending(ws)' :
            (evt_name(m) # "blocks" /\ wanted(ws, m)) =>
                \/ \E n \in sent' : n.ws = ws /\ n.msg = m
                \/ \E r \in Requests : LookupFails(r) /\ m \in Range(consumer[r].rest)]_vars
  <2> SUFFICES ASSUME DeliveryInv, [Next]_vars, NEW ws \in open', NEW m \in Pending(ws),
                      m \notin Pending(ws)', evt_name(m) # "blocks", wanted(ws, m)
               PROVE  \/ \E n \in sent' : n.ws = ws /\ n.msg = m
                      \/ \E r \in Requests : LookupFails(r) /\ m \in Range(consumer[r].rest)
    OBVIOUS
  <2>1. PICK r \in Requests : consume(r)
    BY OthersPassNothing DEF Undisturbed
  <2>2. m \in Msgs
    BY DEF Pending
  <2>3. sent \subseteq sent'
    BY <2>1, ConsumesAlone
  <2>4. prepare_evt_hash(m) \in SentHashes(ws) => \E n \in sent' : n.ws = ws /\ n.msg = m
    BY <2>2, <2>3, SentByHash
  <2> QED
    BY <2>1, <2>4, PassedOver
<1> QED
  BY DeliverySafety, <1>1, PTL DEF Spec, EveryUpdateNotified

(* A block the client subscribed to is looked up, and then sent unless the *)
(* lookup ends its consumer.                                               *)
THEOREM BlockLostOnlyWithConsumerCorrect ==
    ASSUME HashesDiffer
    PROVE  Spec => BlockLostOnlyWithConsumer
<1>1. ASSUME DeliveryInv, [Next]_vars, NEW ws \in open', NEW m \in Pending(ws),
             m \notin Pending(ws)', evt_name(m) = "blocks", wanted(ws, m)
      PROVE  \E r \in Requests : /\ request[r].ws = ws
                                 /\ \/ consumer'[r].pc = "lookup" /\ consumer'[r].msg = m
                                    \/ LookupFails(r)
  <2>1. PICK r \in Requests : consume(r)
    BY <1>1, OthersPassNothing DEF Undisturbed
  <2> QED
    BY <1>1, <2>1, PassedOver
<1>2. ASSUME DeliveryInv, [Next]_vars, NEW ws \in open', NEW r \in Requests,
             request[r].ws = ws, consumer[r].pc = "lookup",
             consumer'[r].msg # consumer[r].msg
      PROVE  \/ LookupFails(r)
             \/ \E n \in sent' : n.ws = ws /\ n.msg = consumer[r].msg
  <2>1. PICK q \in Requests : consume(q)
    BY <1>2, OthersPassNothing DEF Undisturbed
  <2>2. consume(r) /\ sent \subseteq sent'
    BY <2>1, <1>2, ConsumesAlone
  <2>3. consumer[r].msg \in Msgs /\ consumer = [p \in Requests |-> consumer[p]]
    BY <1>2 DEF DeliveryInv, Consuming, NotifyInv, TaskType
  <2>4. ASSUME NEW list, NEW hashes \in SUBSET SentHashes(ws), Loops(r, list, hashes)
        PROVE  \E n \in sent' : n.ws = ws /\ n.msg = consumer[r].msg
    <3>1. prepare_evt_hash(consumer[r].msg) \in SentHashes(ws)
      BY <1>2, <2>4 DEF Loops
    <3> QED
      BY <3>1, <2>2, <2>3, <1>2, SentByHash
  <2>5. ~Sends(r)
    BY <1>2, <2>3 DEF Sends, notify
  <2>6. Fails(r) => LookupFails(r)
    BY <2>3 DEF Fails, LookupFails, idle
  <2> QED
    BY <1>2, <2>2, <2>4, <2>5, <2>6, ConsumeCases
<1>3. DeliveryInv /\ [Next]_vars =>
        [\A ws \in open' :
            /\ \A m \in Pending(ws) \ Pending(ws)' :
                  (evt_name(m) = "blocks" /\ wanted(ws, m)) =>
                      \E r \in Requests : /\ request[r].ws = ws
                                          /\ \/ consumer'[r].pc = "lookup" /\ consumer'[r].msg = m
                                             \/ LookupFails(r)
            /\ \A r \in Requests :
                  (/\ request[r].ws = ws
                   /\ consumer[r].pc = "lookup"
                   /\ consumer'[r].msg # consumer[r].msg) =>
                      \/ LookupFails(r)
                      \/ \E n \in sent' : n.ws = ws /\ n.msg = consumer[r].msg]_vars
  BY <1>1, <1>2
<1> QED
  BY DeliverySafety, <1>3, PTL DEF Spec, BlockLostOnlyWithConsumer
(* Steps other than a consumer's notify nobody.                            *)
LEMMA OthersNotifyNobody ==
    ASSUME DeliveryInv, [Next]_vars, ~\E r \in Requests : consume(r), NEW q \in Requests,
           consumer'[q] # consumer[q]
    PROVE  consumer'[q].pc # "drain"
<1>a. \A r \in Requests : consumer[r] \in [pc : {"none", "receive", "lookup", "drain"},
                                           msg : Msgs \cup {None}, msg_id : Requests \cup {None},
                                           rest : Seq(Msgs)]
  BY DEF DeliveryInv, EventType
<1>1. ASSUME NEW r \in Requests, subscribe_accepted(r)
      PROVE  consumer'[q].pc # "drain"
  <2>1. consumer' = [consumer EXCEPT ![r].pc = "receive"]
    BY <1>1 DEF subscribe_accepted, taskVars
  <2> QED
    BY <2>1, <1>a DEF DeliveryInv, NotifyInv, TaskType
<1>2. ASSUME NEW ws \in Connections, register_exit(ws)
      PROVE  consumer'[q].pc # "drain"
  BY <1>2 DEF register_exit, idle
<1>3. ASSUME UNCHANGED consumer
      PROVE  FALSE
  BY <1>3
<1>4. CASE Environment
  <2>1. CASE \E r \in Requests, params \in Params : handle_websocket_request(r, params)
    BY <2>1, <1>3 DEF handle_websocket_request, taskVars
  <2>2. CASE \E ws \in Connections : ValidatorAccepts(ws)
    BY <2>2, <1>3 DEF ValidatorAccepts, taskVars
  <2>3. CASE \/ \E block \in SUBSET Events : ValidatorEvents(block)
             \/ \E id \in Batches : BatchProgress(id)
    BY <2>3, <1>3 DEF ValidatorEvents, BatchProgress, taskVars
  <2> QED
    BY <1>2, <1>4, <2>1, <2>2, <2>3 DEF Environment
<1>5. CASE \E r \in Requests : RequestStep(r)
  <2> PICK r \in Requests : RequestStep(r)
    BY <1>5
  <2>1. CASE \/ subscribe_refused(r) \/ subscribe(r) \/ subscribe_listed_blocks(r)
             \/ subscribe_failed(r) \/ unsubscribe(r)
    BY <2>1, <1>3 DEF subscribe_refused, subscribe, subscribe_listed_blocks, subscribe_failed,
                      unsubscribe, taskVars
  <2> QED
    BY <1>1, <2>1 DEF RequestStep
<1>6. CASE \E r \in Requests : produce(r)
  BY <1>6, <1>3 DEF produce, produce_custom_msg, produce_custom_msg_status,
                    produce_custom_msg_failed, produce_custom_msg_empty
<1>7. CASE UNCHANGED vars
  BY <1>7, <1>3 DEF vars, taskVars
<1> QED
  BY <1>4, <1>5, <1>6, <1>7 DEF Next

\* A connection has one consumer at most.
OneConsumer ==
    \A r, q \in Requests :
        (consumer[r].pc # "none" /\ consumer[q].pc # "none" /\ request[r].ws = request[q].ws) =>
            r = q

(* As long as no connection has two consumers, no update is sent twice: a  *)
(* second consumer that sends while the first waits for the socket is the  *)
(* only way to it.                                                         *)
THEOREM NotifiedAtMostOnceCorrect == Spec /\ []OneConsumer => NotifiedAtMostOnce
<1>1. ASSUME DeliveryInv, OneConsumer, [Next]_vars, NEW r \in Requests,
             consumer'[r] # consumer[r], consumer'[r].pc = "drain",
             NEW n \in sent, n.ws = request[r].ws,
             prepare_evt_hash(n.msg) = prepare_evt_hash(consumer'[r].msg)
      PROVE  FALSE
  <2> DEFINE ws == request[r].ws
  <2>1. consume(r)
    <3>1. PICK q \in Requests : consume(q)
      BY <1>1, OthersNotifyNobody
    <3> QED
      BY <1>1, <3>1, ConsumesAlone
  <2>2. /\ consumer[r].pc # "none" /\ ws \in open
        /\ \/ \E list \in Seq(Msgs), hashes \in SUBSET SentHashes(ws) : Loops(r, list, hashes)
           \/ Sends(r)
           \/ Fails(r)
    BY <1>1, <2>1, ConsumeCases
  <2>3. \/ prepare_evt_hash(n.msg) \in evthashes[ws]
        \/ consumer[r].pc = "drain" /\ consumer[r].msg = n.msg
    <3>1. \/ prepare_evt_hash(n.msg) \in evthashes[ws]
          \/ \E q \in Requests : /\ consumer[q].pc = "drain"
                                 /\ request[q].ws = ws
                                 /\ consumer[q].msg = n.msg
      BY <1>1, <2>2 DEF DeliveryInv, Remembered
    <3> QED
      BY <1>1, <2>2, <3>1 DEF OneConsumer
  <2>a. consumer = [q \in Requests |-> consumer[q]]
    BY <1>1 DEF DeliveryInv, NotifyInv, TaskType
  <2>4. ASSUME NEW list \in Seq(Msgs), NEW hashes, Loops(r, list, hashes)
        PROVE  FALSE
    <3>1. prepare_evt_hash(consumer'[r].msg) \in hashes
      BY <1>1, <2>3, <2>4 DEF Loops
    <3>2. process_events(r, list, hashes)
      BY <2>4 DEF Loops
    <3>3. ~Receiving(r)
      BY <1>1, <2>a DEF Receiving, idle
    <3>4. PICK m \in Msgs, rest \in Seq(Msgs) :
              /\ ~skipped(ws, m, hashes)
              /\ \/ evt_name(m) = "blocks" /\ Finding(r, m, subscription(ws, m), rest)
                 \/ evt_name(m) # "blocks" /\ notify(r, ws, m, subscription(ws, m), rest)
      BY <3>2, <3>3, LoopOutcome
    <3>5. ~Finding(r, m, subscription(ws, m), rest)
      BY <1>1, <2>a DEF Finding
    <3>6. evt_name(m) # "blocks" /\ consumer'[r].msg = m
      BY <3>4, <3>5, <2>a DEF notify
    <3>7. prepare_evt_hash(m) \notin hashes
      BY <3>4, <3>6 DEF skipped
    <3> QED
      BY <3>1, <3>6, <3>7
  <2>5. ~Sends(r)
    BY <1>1, <2>3, <2>a DEF Sends, notify
  <2>6. ~Fails(r)
    BY <1>1, <2>a DEF Fails, idle
  <2> QED
    BY <2>2, <2>4, <2>5, <2>6
<1>2. DeliveryInv /\ OneConsumer /\ [Next]_vars =>
        [\A r \in Requests :
            (consumer'[r] # consumer[r] /\ consumer'[r].pc = "drain") =>
                ~\E n \in sent :
                    /\ n.ws = request[r].ws
                    /\ prepare_evt_hash(n.msg) = prepare_evt_hash(consumer'[r].msg)]_vars
  BY <1>1
<1> QED
  BY DeliverySafety, <1>2, PTL DEF Spec, NotifiedAtMostOnce
=============================================================================
