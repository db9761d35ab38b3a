------------------------- MODULE EventSubscription --------------------------
(***************************************************************************)
(* Event subscriptions over a WebSocket (remme/rpc_api/event): the handlers *)
(* subscribe and unsubscribe, and the tasks a subscription starts, a        *)
(* consumer that turns the events of the connection's stream into           *)
(* notifications and, for the batch event, a producer that polls statuses.  *)
(*                                                                         *)
(* All of it runs on one asyncio loop: an action is what runs between two   *)
(* awaits.  A task is named by the request that started it; so is a         *)
(* subscription, whose entry in subsevt keeps the request's msg_id and     *)
(* validated_data.                                                          *)
(***************************************************************************)
EXTENDS Integers, Sequences, SequencesExt, FiniteSets

CONSTANTS
    Connections, \* WebSockets; a connection that was closed is not reused
    Requests,    \* RPC messages, named by their id
    Params,      \* what a message may ask for
    EventTypes,  \* the keys of EVENT_HANDLERS in play
    Filters,     \* the address or id a subscription asks for
    Batches,     \* the filters that are batch identifiers
    Events,      \* events of the validator
    EvtName,     \* the handler of an event
    Concerns,    \* the filters an event matches
    EvtHash,     \* what hash_keys selects of an event
    Status,      \* batch statuses, in the order in which a batch takes them
    MaxQueue,    \* bound on the events waiting when a status is polled
    None

BatchEvents == [id : Batches, status : Range(Status)]

ASSUME EventAssumption ==
    /\ "batch" \in EventTypes
    /\ EventTypes \subseteq {"batch", "blocks", "transfer", "atomic_swap"}
    /\ Params \subseteq [ws : Connections, method : {"subscribe", "unsubscribe"},
                       event_type : EventTypes, filter : Filters, from_block : BOOLEAN]
    /\ \A p \in Params : /\ p.from_block => p.event_type = "atomic_swap"
                         /\ p.event_type = "batch" => p.filter \in Batches
    /\ Batches \subseteq Filters
    /\ EvtName \in [Events -> EventTypes \ {"batch"}]
    /\ Concerns \in [Events -> SUBSET Filters]
    /\ DOMAIN EvtHash = Events
    /\ Status \in Seq(STRING) \ {<<>>}
    /\ MaxQueue \in Nat \ {0}
    /\ None \notin Requests \cup Events \cup BatchEvents
    /\ \A hashes \in SUBSET (Range(EvtHash) \cup BatchEvents) : hashes # None
    /\ None # "SUBSCRIBED"

VARIABLES
    open,       \* connections whose register context is entered
    pc,         \* where the handler of a request stands
    request,    \* its parameters
    answer,     \* the result it sent
    event_lock, \* the request that holds the lock
    event_types,\* event types a subscribe request asks the validator for
    subsevt,    \* active subscriptions: the request that made each
    evthashes,  \* hashes of the notifications sent, None without an entry
    consumer, producer, \* the tasks
    queue,      \* messages of the stream not yet consumed, each a list of events
    wire,       \* subscribe messages on their way to the validator
    upheld,     \* event types the validator sends on each connection
    happened,   \* validator events so far, by block
    status,     \* index of each batch's status
    sent        \* history: notifications written

requestVars == <<pc, request, answer, event_lock, event_types>>
taskVars == <<consumer, producer>>
validatorVars == <<wire, upheld, happened, status>>
vars == <<open, requestVars, subsevt, evthashes, taskVars, queue, validatorVars, sent>>

Msgs == Events \cup BatchEvents

\* What an event is called, whom it concerns and how it is hashed.  (A block is
\* also offered to the handler of swaps, which makes no response of it.)  A
\* status of a batch is passed on whatever batch the subscription asked for.
evt_name(m) == IF m \in Events THEN EvtName[m] ELSE "batch"
prepare_response(m, filter) == m \in Events => filter \in Concerns[m]
\* Seeded fault: all events of a kind have the same hash.
hash_of_name(m) == evt_name(m)
prepare_evt_hash(m) == IF m \in Events THEN EvtHash[m] ELSE m

\* A consumer has an event at hand and the rest of the message to go.
idle == [pc |-> "none", msg |-> None, msg_id |-> None, rest |-> <<>>]
asleep == [pc |-> "none", id |-> None, size |-> 0]

subsevt_size(ws) == Cardinality({t \in EventTypes : subsevt[ws][t] # None})

-----------------------------------------------------------------------------
(* handle_websocket_request starts a task per message received.            *)
handle_websocket_request(r, params) ==
    /\ pc[r] = "new"
    /\ params.ws \in open
    /\ pc' = [pc EXCEPT ![r] = "waiting"]
    /\ request' = [request EXCEPT ![r] = params]
    /\ UNCHANGED <<open, answer, event_lock, event_types, subsevt, evthashes, taskVars,
                   queue, validatorVars, sent>>

\* _handle_rpc_msg sends the result, or the error a handler raised.
Answer(r, result) ==
    /\ pc' = [pc EXCEPT ![r] = "done"]
    /\ answer' = [answer EXCEPT ![r] = result]

(* Seeded fault: the lock is not taken.                                    *)
unlocked(r) == pc[r] = "waiting"
acquire(r) == pc[r] = "waiting" /\ event_lock = None

already_subscribed(r) == subsevt[request[r].ws][request[r].event_type] # None

(* Errors before the first await: subscribed already, connection closed    *)
(* (no ws.stream), parameters that validate refuses, which any request may *)
(* have.                                                                   *)
subscribe_refused(r) ==
    /\ acquire(r)
    /\ request[r].method = "subscribe"
    /\ Answer(r, "error")
    /\ UNCHANGED <<open, request, event_lock, event_types, subsevt, evthashes, taskVars,
                   queue, validatorVars, sent>>

\* ws.stream.send of the subscribe message
send_subscribe(r, types) ==
    wire' = [wire EXCEPT ![request[r].ws] = Append(@, [request |-> r, types |-> types])]

(* Seeded fault: the validator is asked for the new event type only.       *)
only_new_type(r) == {request[r].event_type}
types_to_resubscribe(r) ==
    {t \in EventTypes : subsevt[request[r].ws][t] # None} \cup {request[r].event_type}

(* subscribe up to its first await: list_blocks, unless the client names   *)
(* the block to start from.                                                *)
subscribe(r) ==
    /\ acquire(r)
    /\ request[r].method = "subscribe"
    /\ request[r].ws \in open
    /\ ~already_subscribed(r)
    /\ event_lock' = r
    /\ event_types' = [event_types EXCEPT ![r] = types_to_resubscribe(r)]
    /\ IF request[r].from_block
       THEN pc' = [pc EXCEPT ![r] = "sent"] /\ send_subscribe(r, types_to_resubscribe(r))
       ELSE pc' = [pc EXCEPT ![r] = "list_blocks"] /\ UNCHANGED wire
    /\ UNCHANGED <<open, request, answer, subsevt, evthashes, taskVars, queue, upheld,
                   happened, status, sent>>

subscribe_listed_blocks(r) ==
    /\ pc[r] = "list_blocks"
    /\ request[r].ws \in open
    /\ pc' = [pc EXCEPT ![r] = "sent"]
    /\ send_subscribe(r, event_types[r])
    /\ UNCHANGED <<open, request, answer, event_lock, event_types, subsevt, evthashes,
                   taskVars, queue, upheld, happened, status, sent>>

(* Seeded fault: the lock stays locked when the validator does not answer. *)
subscribe_failed_locked(r) ==
    /\ pc[r] \in {"list_blocks", "sent"}
    /\ Answer(r, "error")
    /\ UNCHANGED <<open, request, event_lock, event_types, subsevt, evthashes, taskVars,
                   queue, validatorVars, sent>>

(* A timeout, a refusal by the validator, or DisconnectError.              *)
subscribe_failed(r) ==
    /\ pc[r] \in {"list_blocks", "sent"}
    /\ Answer(r, "error")
    /\ event_lock' = None
    /\ UNCHANGED <<open, request, event_types, subsevt, evthashes, taskVars, queue,
                   validatorVars, sent>>

(* The rest of subscribe, once the validator's OK is in.  The connection   *)
(* may be closed by now: the subscription then goes to a dictionary nobody *)
(* refers to any more, and the tasks end at once for want of ws.stream.    *)
subscribe_accepted(r) ==
    LET ws == request[r].ws
        t == request[r].event_type
    IN  /\ pc[r] = "replied"
        /\ evthashes' = [evthashes EXCEPT ![ws] = IF @ = None THEN {} ELSE @]
        /\ IF ws \in open
           THEN /\ subsevt' = [subsevt EXCEPT ![ws][t] = r]
                /\ consumer' = [consumer EXCEPT ![r].pc = "receive"]
                /\ producer' = IF t = "batch" THEN [producer EXCEPT ![r].pc = "sleep"]
                                              ELSE producer
           ELSE UNCHANGED <<subsevt, taskVars>>
        /\ Answer(r, "SUBSCRIBED")
        /\ event_lock' = None
        /\ UNCHANGED <<open, request, event_types, queue, validatorVars, sent>>

(* The tasks of the subscription are left running.                         *)
unsubscribe(r) ==
    /\ acquire(r)
    /\ request[r].method = "unsubscribe"
    /\ subsevt' = [subsevt EXCEPT ![request[r].ws][request[r].event_type] = None]
    /\ Answer(r, IF already_subscribed(r) THEN "UNSUBSCRIBED" ELSE "error")
    /\ UNCHANGED <<open, request, event_lock, event_types, evthashes, taskVars, queue,
                   validatorVars, sent>>

-----------------------------------------------------------------------------
(* The message at the head of the queue, taken by any consumer waiting.    *)
receive(r) ==
    /\ consumer[r].pc = "receive"
    /\ queue[request[r].ws] # <<>>
    /\ queue' = [queue EXCEPT ![request[r].ws] = Tail(@)]

\* The subscription an event is for.
subscription(ws, m) == subsevt[ws][evt_name(m)]
(* Seeded fault: events of a kind nobody subscribed to are passed on.      *)
wanted_or_unsubscribed(ws, m) ==
    subscription(ws, m) # None => prepare_response(m, request[subscription(ws, m)].filter)
wanted(ws, m) ==
    /\ subscription(ws, m) # None
    /\ prepare_response(m, request[subscription(ws, m)].filter)

(* Seeded fault: notifications carry the id of the consumer's own request. *)
notify_as_consumer(r, ws, m, msg_id, rest) ==
    /\ sent' = sent \cup {[ws |-> ws, msg_id |-> r, msg |-> m]}
    /\ consumer' = [consumer EXCEPT ![r] = [pc |-> "drain", msg |-> m, msg_id |-> r,
                                            rest |-> rest]]

(* _ws_send_str writes at once and may then wait for the socket to drain.  *)
notify(r, ws, m, msg_id, rest) ==
    /\ sent' = sent \cup {[ws |-> ws, msg_id |-> msg_id, msg |-> m]}
    /\ consumer' = [consumer EXCEPT ![r] = [pc |-> "drain", msg |-> m, msg_id |-> msg_id,
                                            rest |-> rest]]

\* Not subscribed, not for this subscription, or sent already.
skipped(ws, m, hashes) ==
    \/ ~wanted(ws, m)
    \/ evt_name(m) # "blocks" /\ prepare_evt_hash(m) \in hashes

(* The loop of _process_msg, up to its next await or the end of the        *)
(* message.  The response to a block is looked up first, and the id to     *)
(* answer under is read before that await.                                 *)
process_events(r, list, hashes) ==
    LET ws == request[r].ws
        ours == {i \in 1..Len(list) : ~skipped(ws, list[i], hashes)}
        m == list[Min(ours)]
        rest == SubSeq(list, Min(ours) + 1, Len(list))
    IN  IF ours = {}
        THEN /\ consumer' = [consumer EXCEPT ![r] = [idle EXCEPT !.pc = "receive"]]
             /\ UNCHANGED sent
        ELSE IF evt_name(m) = "blocks"
        THEN /\ consumer' = [consumer EXCEPT ![r] = [pc |-> "lookup", msg |-> m,
                                                     msg_id |-> subscription(ws, m),
                                                     rest |-> rest]]
             /\ UNCHANGED sent
        ELSE notify(r, ws, m, subscription(ws, m), rest)

process_msg(r) ==
    /\ receive(r)
    /\ process_events(r, Head(queue[request[r].ws]), evthashes[request[r].ws])
    /\ UNCHANGED <<open, requestVars, subsevt, evthashes, producer, validatorVars>>

(* Seeded fault: the exception is swallowed and the consumer goes on.      *)
process_msg_lookup_swallowed(r) ==
    LET ws == request[r].ws
        m == consumer[r].msg
    IN  /\ consumer[r].pc = "lookup"
        /\ \/ notify(r, ws, m, consumer[r].msg_id, consumer[r].rest)
           \/ process_events(r, consumer[r].rest, evthashes[ws])
        /\ UNCHANGED <<open, requestVars, subsevt, evthashes, producer, queue, validatorVars>>

(* get_block_info answers, or its exception ends the task, and the rest of *)
(* the message with it.                                                    *)
process_msg_looked_up(r) ==
    LET ws == request[r].ws
        m == consumer[r].msg
    IN  /\ consumer[r].pc = "lookup"
        /\ \/ /\ prepare_evt_hash(m) \notin evthashes[ws]
              /\ notify(r, ws, m, consumer[r].msg_id, consumer[r].rest)
           \/ /\ prepare_evt_hash(m) \in evthashes[ws]
              /\ process_events(r, consumer[r].rest, evthashes[ws])
           \/ /\ consumer' = [consumer EXCEPT ![r] = idle]
              /\ UNCHANGED sent
        /\ UNCHANGED <<open, requestVars, subsevt, evthashes, producer, queue, validatorVars>>

(* Seeded fault: the hash is not remembered.                               *)
process_msg_forgotten(r) ==
    /\ consumer[r].pc = "drain"
    /\ process_events(r, consumer[r].rest, evthashes[request[r].ws])
    /\ UNCHANGED <<open, requestVars, subsevt, evthashes, producer, queue, validatorVars>>

process_msg_sent(r) ==
    LET ws == request[r].ws
        hashes == evthashes[ws] \cup {prepare_evt_hash(consumer[r].msg)}
    IN  /\ consumer[r].pc = "drain"
        /\ evthashes' = [evthashes EXCEPT ![ws] = hashes]
        /\ process_events(r, consumer[r].rest, hashes)
        /\ UNCHANGED <<open, requestVars, subsevt, producer, queue, validatorVars>>

-----------------------------------------------------------------------------
(* A pass of the producer over subsevt[ws] awaits only at the batch       *)
(* entry, which it reads before.                                           *)
produce_custom_msg(r) ==
    LET ws == request[r].ws
        s == subsevt[ws]["batch"]
    IN  /\ producer[r].pc = "sleep"
        /\ s # None
        /\ producer' = [producer EXCEPT ![r] = [pc |-> "list_statuses", id |-> request[s].filter,
                                                size |-> subsevt_size(ws)]]
        /\ UNCHANGED <<open, requestVars, subsevt, evthashes, consumer, queue, validatorVars,
                       sent>>

(* Seeded fault: the producer stops after its first pass.                  *)
end_after_pass(r) == [producer EXCEPT ![r] = asleep]

(* Going on to the next entry raises a RuntimeError, which ends the task,  *)
(* if the dictionary has changed its size.                                 *)
next_entry(r) ==
    [producer EXCEPT ![r] =
        IF producer[r].size = subsevt_size(request[r].ws)
        THEN [asleep EXCEPT !.pc = "sleep"] ELSE asleep]

produce_custom_msg_status(r) ==
    LET ws == request[r].ws
        id == producer[r].id
    IN  /\ producer[r].pc = "list_statuses"
        /\ Len(queue[ws]) < MaxQueue
        /\ queue' = [queue EXCEPT ![ws] =
                        Append(@, <<[id |-> id, status |-> Status[status[id]]]>>)]
        /\ producer' = next_entry(r)
        /\ UNCHANGED <<open, requestVars, subsevt, evthashes, consumer, validatorVars, sent>>

(* list_statuses raises; the handler logs it.                              *)
produce_custom_msg_failed(r) ==
    /\ producer[r].pc = "list_statuses"
    /\ producer' = next_entry(r)
    /\ UNCHANGED <<open, requestVars, subsevt, evthashes, consumer, queue, validatorVars, sent>>

(* An error the validator reports is not refused by _handle_response, as   *)
(* the response declares no NOT_READY, and lists no status: the first one  *)
(* raises an IndexError, which ends the task.                              *)
produce_custom_msg_empty(r) ==
    /\ producer[r].pc = "list_statuses"
    /\ producer' = [producer EXCEPT ![r] = [asleep EXCEPT !.pc = "raised"]]
    /\ UNCHANGED <<open, requestVars, subsevt, evthashes, consumer, queue, validatorVars, sent>>

-----------------------------------------------------------------------------
(* Seeded fault: the subscriptions of a closed connection are kept.        *)
register_kept(ws) ==
    /\ ws \in open
    /\ open' = open \ {ws}
    /\ evthashes' = [evthashes EXCEPT ![ws] = None]
    /\ consumer' = [r \in Requests |-> IF request[r].ws = ws THEN idle ELSE consumer[r]]
    /\ producer' = [r \in Requests |-> IF request[r].ws = ws THEN asleep ELSE producer[r]]
    /\ queue' = [queue EXCEPT ![ws] = <<>>]
    /\ wire' = [wire EXCEPT ![ws] = <<>>]
    /\ upheld' = [upheld EXCEPT ![ws] = {}]
    /\ UNCHANGED <<requestVars, subsevt, happened, status, sent>>

(* The exit of the context manager register, once the client is gone.  A   *)
(* task of the connection does nothing visible from then on: it waits for  *)
(* events that do not come, fails for want of an entry in evthashes, or   *)
(* sees ws.closed.                                                         *)
register_exit(ws) ==
    /\ ws \in open
    /\ open' = open \ {ws}
    /\ subsevt' = [subsevt EXCEPT ![ws] = [t \in EventTypes |-> None]]
    /\ evthashes' = [evthashes EXCEPT ![ws] = None]
    /\ consumer' = [r \in Requests |-> IF request[r].ws = ws THEN idle ELSE consumer[r]]
    /\ producer' = [r \in Requests |-> IF request[r].ws = ws THEN asleep ELSE producer[r]]
    /\ queue' = [queue EXCEPT ![ws] = <<>>]
    /\ wire' = [wire EXCEPT ![ws] = <<>>]
    /\ upheld' = [upheld EXCEPT ![ws] = {}]
    /\ UNCHANGED <<requestVars, happened, status, sent>>

(* The events of a block that a connection is sent in one message: that   *)
(* of the block itself and then those of its transactions.  To keep the    *)
(* instances small, a block may lack its own event.                        *)
event_list(block, types) ==
    LET of(names) == SetToSeq({e \in block : EvtName[e] \in types \cap names})
    IN  of({"blocks"}) \o of(EventTypes \ {"blocks"})

(* The validator reads a subscribe message, whose types replace those it   *)
(* sends on the connection, and may send past blocks again.  Its reply is  *)
(* of no use to a request that has timed out.                              *)
ValidatorAccepts(ws) ==
    /\ wire[ws] # <<>>
    /\ LET head == Head(wire[ws])
           past == {event_list(block, head.types) : block \in happened} \ {<<>>}
       IN  /\ upheld' = [upheld EXCEPT ![ws] = head.types]
           /\ \E again \in SUBSET past :
                 queue' = [queue EXCEPT ![ws] = @ \o SetToSeq(again)]
           /\ pc' = [pc EXCEPT ![head.request] = IF @ = "sent" THEN "replied" ELSE @]
    /\ wire' = [wire EXCEPT ![ws] = Tail(@)]
    /\ UNCHANGED <<open, request, answer, event_lock, event_types, subsevt, evthashes,
                   taskVars, happened, status, sent>>

(* A block, with finitely many events.                                     *)
ValidatorEvents(block) ==
    /\ block # {} /\ IsFiniteSet(block)
    /\ block \cap UNION happened = {}
    /\ happened' = happened \cup {block}
    /\ queue' = [ws \in Connections |->
                    IF event_list(block, upheld[ws]) = <<>> THEN queue[ws]
                    ELSE Append(queue[ws], event_list(block, upheld[ws]))]
    /\ UNCHANGED <<open, requestVars, subsevt, evthashes, taskVars, wire, upheld, status, sent>>

BatchProgress(id) ==
    /\ status[id] < Len(Status)
    /\ status' = [status EXCEPT ![id] = @ + 1]
    /\ UNCHANGED <<open, requestVars, subsevt, evthashes, taskVars, queue, wire, upheld,
                   happened, sent>>

-----------------------------------------------------------------------------
NoParams == [ws |-> None, method |-> None, event_type |-> None, filter |-> None,
             from_block |-> FALSE]

Init ==
    /\ open = Connections
    /\ pc = [r \in Requests |-> "new"]
    /\ request = [r \in Requests |-> NoParams]
    /\ answer = [r \in Requests |-> None]
    /\ event_lock = None
    /\ event_types = [r \in Requests |-> {}]
    /\ subsevt = [ws \in Connections |-> [t \in EventTypes |-> None]]
    /\ evthashes = [ws \in Connections |-> None]
    /\ consumer = [r \in Requests |-> idle]
    /\ producer = [r \in Requests |-> asleep]
    /\ queue = [ws \in Connections |-> <<>>]
    /\ wire = [ws \in Connections |-> <<>>]
    /\ upheld = [ws \in Connections |-> {}]
    /\ happened = {}
    /\ status = [id \in Batches |-> 1]
    /\ sent = {}

RequestStep(r) ==
    \/ subscribe_refused(r) \/ subscribe(r) \/ subscribe_listed_blocks(r)
    \/ subscribe_failed(r) \/ subscribe_accepted(r) \/ unsubscribe(r)
consume(r) ==
    process_msg(r) \/ process_msg_looked_up(r) \/ process_msg_sent(r)
produce(r) ==
    \/ produce_custom_msg(r) \/ produce_custom_msg_status(r)
    \/ produce_custom_msg_failed(r) \/ produce_custom_msg_empty(r)
Environment ==
    \/ \E r \in Requests, params \in Params : handle_websocket_request(r, params)
    \/ \E ws \in Connections : register_exit(ws) \/ ValidatorAccepts(ws)
    \/ \E block \in SUBSET Events : ValidatorEvents(block)
    \/ \E id \in Batches : BatchProgress(id)

Next == Environment \/ \E r \in Requests : RequestStep(r) \/ consume(r) \/ produce(r)

Spec == Init /\ [][Next]_vars

(***************************************************************************)
(* The loop runs every task that can go on, and every call to the          *)
(* validator ends, at the latest by its timeout.  A poll of the status     *)
(* does not fail for ever.                                                 *)
(***************************************************************************)
FairSpec ==
    /\ Spec
    /\ \A r \in Requests :
          /\ WF_vars(RequestStep(r)) /\ WF_vars(consume(r)) /\ WF_vars(produce(r))
          /\ SF_vars(produce_custom_msg_status(r))

-----------------------------------------------------------------------------
(* Every variable has the type of the structure it models.                 *)
TypeOK ==
    /\ open \subseteq Connections
    /\ pc \in [Requests -> {"new", "waiting", "list_blocks", "sent", "replied", "done"}]
    /\ request \in [Requests -> Params \cup {NoParams}]
    /\ answer \in [Requests -> {None, "error", "SUBSCRIBED", "UNSUBSCRIBED"}]
    /\ event_lock \in Requests \cup {None}
    /\ event_types \in [Requests -> SUBSET EventTypes]
    /\ subsevt \in [Connections -> [EventTypes -> Requests \cup {None}]]
    /\ \A ws \in Connections : evthashes[ws] # None =>
          evthashes[ws] \subseteq {prepare_evt_hash(m) : m \in Msgs}
    /\ consumer \in [Requests -> [pc : {"none", "receive", "lookup", "drain"},
                                  msg : Msgs \cup {None}, msg_id : Requests \cup {None},
                                  rest : Seq(Msgs)]]
    /\ producer \in [Requests -> [pc : {"none", "sleep", "list_statuses", "raised"},
                                  id : Filters \cup {None}, size : 0..Cardinality(EventTypes)]]
    /\ queue \in [Connections -> Seq(Seq(Msgs))]
    /\ upheld \in [Connections -> SUBSET EventTypes]
    /\ happened \subseteq SUBSET Events
    /\ status \in [Batches -> 1..Len(Status)]
    /\ sent \subseteq [ws : Connections, msg_id : Requests, msg : Msgs]

(* The validator sends what the node believes it is subscribed to, though  *)
(* every subscribe message replaces the one before, some are read after    *)
(* their request timed out, and unsubscribe sends none.                    *)
SubscriptionsUpheld ==
    \A ws \in Connections, t \in EventTypes :
        subsevt[ws][t] # None => t \in upheld[ws]

(* Every notification carries the id of a request on the same connection   *)
(* that was answered SUBSCRIBED and asked for that kind of event, though   *)
(* any consumer of the connection may send it and may have looked the      *)
(* subscription up before an await.                                        *)
NotifiedAsSubscribed ==
    \A n \in sent :
        /\ answer[n.msg_id] = "SUBSCRIBED"
        /\ request[n.msg_id].ws = n.ws
        /\ request[n.msg_id].event_type = evt_name(n.msg)

(* A closed connection has no subscription, also when the validator's      *)
(* answer comes after the close.                                           *)
NoneAfterClose ==
    \A ws \in Connections \ open, t \in EventTypes : subsevt[ws][t] = None

(* A client's subscription is never replaced by another request for the    *)
(* same event: it stays until it is removed.                               *)
NeverReplaced ==
    [][\A ws \in Connections, t \in EventTypes :
          subsevt[ws][t] # None => subsevt'[ws][t] \in {subsevt[ws][t], None}]_vars

(* Every request is answered, however the calls to the validator end and   *)
(* whoever waits for the lock.                                             *)
EveryRequestAnswered ==
    \A r \in Requests : pc[r] = "waiting" ~> answer[r] # None

(* "Check if we already have sent update": no update is sent twice on a    *)
(* connection.                                                             *)
NotifiedAtMostOnce ==
    [][\A r \in Requests :
          (consumer'[r] # consumer[r] /\ consumer'[r].pc = "drain") =>
              ~\E n \in sent : /\ n.ws = request[r].ws
                               /\ prepare_evt_hash(n.msg) = prepare_evt_hash(consumer'[r].msg)]_vars

\* Events that wait in the queue, or in a message a consumer is at.
Pending(ws) ==
    {m \in Msgs : \/ \E i \in 1..Len(queue[ws]) : m \in Range(queue[ws][i])
                  \/ \E r \in Requests : request[r].ws = ws /\ m \in Range(consumer[r].rest)}

\* The lookup of a block fails and ends the consumer.
LookupFails(r) == consumer[r].pc = "lookup" /\ consumer'[r].pc = "none"

(* A transfer, swap or status the client subscribed to is passed over only *)
(* if the client is, or was, notified of that very event, over any number  *)
(* of consumers, subscriptions made again, messages with several events    *)
(* and past blocks that the validator repeats.  The one exception: it came *)
(* in a message with a block whose lookup fails.                           *)
EveryUpdateNotified ==
    [][\A ws \in open' : \A m \in Pending(ws) \ Pending(ws)' :
          (evt_name(m) # "blocks" /\ wanted(ws, m)) =>
              \/ \E n \in sent' : n.ws = ws /\ n.msg = m
              \/ \E r \in Requests : LookupFails(r) /\ m \in Range(consumer[r].rest)]_vars

(* A block the client subscribed to goes from its message to the consumer  *)
(* that looks it up, and that consumer goes on to other events only once   *)
(* the client is notified of the block, by this consumer or another: a     *)
(* lookup that fails loses the block only by ending its consumer.          *)
BlockLostOnlyWithConsumer ==
    [][\A ws \in open' :
          /\ \A m \in Pending(ws) \ Pending(ws)' :
                (evt_name(m) = "blocks" /\ wanted(ws, m)) =>
                    \E r \in Requests : /\ request[r].ws = ws
                                        /\ \/ consumer'[r].pc = "lookup" /\ consumer'[r].msg = m
                                           \/ LookupFails(r)
          /\ \A r \in Requests :
                (/\ request[r].ws = ws
                 /\ consumer[r].pc = "lookup"
                 /\ consumer'[r].msg # consumer[r].msg) =>
                    \/ LookupFails(r)
                    \/ \E n \in sent' : n.ws = ws /\ n.msg = consumer[r].msg]_vars

(* A batch notification is about the batch that its subscription named.    *)
BatchAsSubscribed ==
    \A n \in sent :
        evt_name(n.msg) = "batch" => n.msg.id = request[n.msg_id].filter

(* The client learns the final status of the batch it has subscribed to,   *)
(* as long as it stays subscribed and connected, unless the validator has  *)
(* answered a poll with an error and so ended the producer.                *)
BatchStatusDelivered ==
    \A r \in Requests, id \in Batches :
        (/\ \E ws \in Connections : subsevt[ws]["batch"] = r
         /\ request[r].filter = id
         /\ status[id] = Len(Status))
            ~> (\/ [id |-> id, status |-> Status[Len(Status)]] \in
                      {n.msg : n \in {n \in sent : n.ws = request[r].ws}}
                \/ \A ws \in Connections : subsevt[ws]["batch"] # r
                \/ producer[r].pc = "raised")
=============================================================================
