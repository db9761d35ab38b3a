------------------------------- MODULE RpcApi -------------------------------
(***************************************************************************)
(* The JSON-RPC methods that read the chain or submit to it                *)
(* (remme/rpc_api), over the clients (remme/clients) and the Router.       *)
(*                                                                         *)
(* Every request runs in a task of its own, and an action is what it does  *)
(* between two awaits, each of them a call to the validator.  The chain    *)
(* moves in between.  pc names the await: the block of _head_to_root, the  *)
(* entry of fetch_state, or the one call of the simpler methods.           *)
(***************************************************************************)
EXTENDS Router, FiniteSetsExt

CONSTANTS
    Requests,   \* JSON-RPC messages
    Params      \* what they may ask for: the method and its parameters

VARIABLES
    pc,         \* where the task of a request stands
    request,    \* the method and parameters of the request
    msg,        \* the call to the validator it waits for
    head_id,    \* the block its _head_to_root returned
    loop,       \* get_blocks_info's loop: next and last number, blocks found
    answer,     \* the result, or the error, sent to the client
    seen,       \* history: the blocks that were the newest meanwhile
    failed      \* history: a call to the validator failed

requestVars == <<pc, request, msg, head_id, loop, answer>>
vars == <<chainVars, requestVars, seen, failed>>

\* The methods that read one entry of the state, and those that name a head.
EntityMethods == {"get_balance", "get_public_keys_list", "get_public_key_info",
                  "get_atomic_swap_info", "get_atomic_swap_public_key"}
StateMethods == {"fetch_state", "list_state"}
FetchMethods == {"fetch_block", "fetch_batch", "fetch_transaction"}
ListMethods == {"list_blocks", "list_batches", "list_transactions"}

\* What a raw transaction may be like, in the order of the tests.
Forms == {"undecodable", "bad_key", "unknown_family", "unknown_method", "invalid", "valid"}

\* The local variables of get_blocks_info.
Loops == [i : Int, stop : Int,
          blocks : Seq([block_number : Int, header_signature : Seq(Contents),
                        previous_header_signature : Seq(Contents)])]

ASSUME ParamsAssumption ==
    /\ None \notin Params \cup Loops
    /\ \A p \in Params :
        \/ /\ p.method \in EntityMethods \cup {"get_block_number", "get_node_info"}
           /\ p.method = "get_public_key_info" => p.keyed \in BOOLEAN
        \/ p.method = "get_blocks" /\ p.start \in Int /\ p.limit \in Int
        \/ /\ p.method \in StateMethods \cup ListMethods
           /\ p.head \in Blocks \cup {None, Malformed}
           /\ p.limit \in Int \cup {None}
        \/ p.method \in FetchMethods /\ p.id \in Blocks \cup {Malformed}
        \/ p.method \in {"get_batch_status", "list_receipts"} /\ p.id \in Batches
        \/ p.method = "send_raw_transaction" /\ p.id \in Batches /\ p.form \in Forms

-----------------------------------------------------------------------------
NoAnswer == [kind |-> "none", value |-> None, head |-> None]

\* What is sent to the client.  _wrap_response adds the head it belongs to.
Return(r, value, block) ==
    /\ answer' = [answer EXCEPT ![r] = [kind |-> "result", value |-> value, head |-> block]]
    /\ pc' = [pc EXCEPT ![r] = "done"]
    /\ msg' = [msg EXCEPT ![r] = None]
Raise(r, error) ==
    /\ answer' = [answer EXCEPT ![r] = [kind |-> error, value |-> None, head |-> None]]
    /\ pc' = [pc EXCEPT ![r] = "done"]
    /\ msg' = [msg EXCEPT ![r] = None]

\* Waits for the answer to a call.
Await(r, place, m) ==
    /\ pc' = [pc EXCEPT ![r] = place]
    /\ msg' = [msg EXCEPT ![r] = m]
    /\ UNCHANGED answer

\* A new request, which _handle_rpc_msg passes to its method.
Received(r, p) ==
    /\ pc[r] = "new"
    /\ request' = [request EXCEPT ![r] = p]
    /\ seen' = [seen EXCEPT ![r] = {head}]
    /\ UNCHANGED <<chainVars, head_id, loop, failed>>

(* validate_params: the form of the method refuses the parameters.         *)
validate_params(r, p) == Received(r, p) /\ Raise(r, "RpcInvalidParamsError")

\* The methods that read one entry of the newest state, get_value.
get_value(r) == Await(r, "head", head_to_root(None))

get_balance(r, p) ==
    /\ p.method \in {"get_balance", "get_public_keys_list"}
    /\ Received(r, p)
    /\ get_value(r)

get_public_key_info(r, p) ==
    /\ p.method = "get_public_key_info"
    /\ Received(r, p)
    /\ get_value(r)

get_atomic_swap_info(r, p) ==
    /\ p.method \in {"get_atomic_swap_info", "get_atomic_swap_public_key"}
    /\ Received(r, p)
    /\ get_value(r)

get_block_number(r, p) ==
    /\ p.method = "get_block_number"
    /\ Received(r, p)
    /\ get_value(r)

rpc_fetch_state(r, p) ==
    /\ p.method = "fetch_state"
    /\ Received(r, p)
    /\ Await(r, "head", head_to_root(p.head))

rpc_list_state(r, p) ==
    /\ p.method = "list_state"
    /\ Received(r, p)
    /\ IF get_paging_controls(p.limit) THEN Await(r, "head", head_to_root(p.head))
                                       ELSE Raise(r, "CountInvalid")

list_resources(r, p) ==
    /\ p.method \in ListMethods
    /\ Received(r, p)
    /\ IF ~get_paging_controls(p.limit) THEN Raise(r, "CountInvalid")
       ELSE IF ~get_head_id(p.head) THEN Raise(r, "InvalidResourceId")
       ELSE Await(r, "call", message("block_list", p.head, None))

fetch_resource(r, p) ==
    /\ p.method \in FetchMethods
    /\ Received(r, p)
    /\ IF validate_id(p.id) THEN Await(r, "call", message("get", p.id, None))
                            ELSE Raise(r, "InvalidResourceId")

list_statuses(r, p) ==
    /\ p.method = "get_batch_status"
    /\ Received(r, p)
    /\ Await(r, "call", message("batch_status", p.id, None))

list_receipts(r, p) ==
    /\ p.method = "list_receipts"
    /\ Received(r, p)
    /\ Await(r, "call", message("receipt_get", p.id, None))

fetch_peers(r, p) ==
    /\ p.method = "get_node_info"
    /\ Received(r, p)
    /\ Await(r, "call", message("peers_get", None, None))

(* The form of a payload is tested unless its method is not known or its   *)
(* data cannot be parsed, which the transaction processor is left to       *)
(* refuse.                                                                 *)
get_proto_validator(form) == form = "unknown_method" \/ form = "valid"

send_raw_transaction(r, p) ==
    /\ p.method = "send_raw_transaction"
    /\ Received(r, p)
    /\ IF /\ p.form \notin {"undecodable", "bad_key", "unknown_family"}
          /\ get_proto_validator(p.form)
       THEN Await(r, "submit", message("batch_submit", p.id, None))
       ELSE Raise(r, "RpcGenericServerDefinedError")

-----------------------------------------------------------------------------
(* Seeded fault: the loop ends before the newest block.                    *)
blocks_before(start, limit) ==
    LET count == IF limit - start > 0 THEN start ELSE limit
    IN  [i |-> start - count, stop |-> start - 1, blocks |-> <<>>]
(* Seeded fault: more blocks may be asked for than there are.              *)
blocks_unclipped(start, limit) ==
    [i |-> start - limit, stop |-> start, blocks |-> <<>>]

\* range(start - limit, start) of get_blocks_info.
blocks_range(start, limit) ==
    LET count == IF limit - start > 0 THEN start ELSE limit
    IN  [i |-> start - count, stop |-> start, blocks |-> <<>>]

interpret_block_info(n, block) ==
    [block_number |-> n + 1, header_signature |-> block,
     previous_header_signature |-> SubSeq(block, 1, Len(block) - 1)]

(* Goes on with the loop: reads the next block's entry, or returns.        *)
get_block_info(r, l) ==
    /\ loop' = [loop EXCEPT ![r] = l]
    /\ IF l.i < l.stop THEN get_value(r)
                       ELSE Return(r, Reverse(l.blocks), None)

(* get_blocks_info asks for the configuration only if it lacks a bound.    *)
get_blocks(r, p) ==
    /\ p.method = "get_blocks"
    /\ pc[r] = "new"
    /\ request' = [request EXCEPT ![r] = p]
    /\ seen' = [seen EXCEPT ![r] = {head}]
    /\ IF p.start # 0 /\ p.limit # 0
       THEN get_block_info(r, blocks_range(p.start, p.limit))
       ELSE get_value(r) /\ UNCHANGED loop
    /\ UNCHANGED <<chainVars, head_id, failed>>

\* The bounds once the configuration is known.
default_range(p, config) ==
    LET start == IF p.start = 0 THEN config.latest_block + 1 ELSE p.start
        limit == IF p.limit = 0 THEN start - config.oldest_block + 1 ELSE p.limit
    IN  blocks_range(start, limit)

\* The address that get_value is called with.
address(r) ==
    IF request[r].method = "get_block_number" THEN CONFIG_ADDRESS
    ELSE IF request[r].method # "get_blocks" THEN ENTITY
    ELSE IF loop[r] = None THEN CONFIG_ADDRESS ELSE create_block_address(loop[r].i)

(* Seeded fault: any exception is an account without tokens.               *)
except_any(method, error) ==
    method \in {"get_balance", "get_public_keys_list", "get_block_number"}
(* The methods that answer a missing entry with 0 or an empty list.        *)
except_key_not_found(method, error) ==
    /\ error = "KeyNotFound"
    /\ method \in {"get_balance", "get_public_keys_list", "get_block_number"}

(* Seeded fault: a block that is not there is asked for again.             *)
same_block(l) == l
next_block(l) == [l EXCEPT !.i = @ + 1]

(* get_value raised.  get_blocks_info takes any exception of the           *)
(* configuration for an empty chain, and skips the blocks it does not find.*)
get_value_raised(r, error) ==
    IF request[r].method = "get_blocks" /\ loop[r] = None
    THEN Return(r, <<>>, None) /\ UNCHANGED loop
    ELSE IF request[r].method = "get_blocks" /\ error = "KeyNotFound"
    THEN get_block_info(r, next_block(loop[r]))
    ELSE IF except_key_not_found(request[r].method, error)
    THEN Return(r, 0, None) /\ UNCHANGED loop
    ELSE Raise(r, error) /\ UNCHANGED loop

(* The entry is there, but it is no key's record: parsed as one it has no  *)
(* payload.  The form takes the address of an entry of any family.         *)
without_payload(p) == p.method = "get_public_key_info" /\ ~p.keyed

get_value_returned(r, data) ==
    IF request[r].method = "get_blocks" /\ loop[r] = None
    THEN get_block_info(r, default_range(request[r], data))
    ELSE IF request[r].method = "get_blocks"
    THEN get_block_info(r, [i |-> loop[r].i + 1, stop |-> loop[r].stop,
                            blocks |-> Append(loop[r].blocks,
                                              interpret_block_info(loop[r].i, data))])
    ELSE /\ IF request[r].method = "get_block_number"
            THEN Return(r, data.latest_block + 1, None)
            ELSE IF without_payload(request[r]) THEN Raise(r, "KeyNotFound")
            ELSE Return(r, data, IF request[r].method \in StateMethods
                                 THEN head_id[r] ELSE None)
         /\ UNCHANGED loop

-----------------------------------------------------------------------------
\* The outcome of the call a request waits for.
Responded(r, x) ==
    /\ x \in Outcomes(msg[r])
    /\ failed' = [failed EXCEPT ![r] = @ \/ x.failed]
    /\ UNCHANGED <<chainVars, request, seen>>

(* _head_to_root, and the call of fetch_state that follows it.  A response *)
(* without the block, which was not refused, raises a KeyError.            *)
head_to_root_responded(r) ==
    /\ pc[r] = "head"
    /\ \E x \in Outcomes(msg[r]) :
        /\ Responded(r, x)
        /\ IF x.outcome = "data" /\ x.data # None
           THEN /\ head_id' = [head_id EXCEPT ![r] = x.data]
                /\ Await(r, "state", fetch_state(x.data, address(r)))
                /\ UNCHANGED loop
           ELSE /\ get_value_raised(r, IF x.outcome = "data" THEN "KeyError" ELSE x.outcome)
                /\ UNCHANGED head_id

fetch_state_responded(r) ==
    /\ pc[r] = "state"
    /\ \E x \in Outcomes(msg[r]) :
        /\ Responded(r, x)
        /\ IF x.outcome = "data" THEN get_value_returned(r, x.data)
                                 ELSE get_value_raised(r, x.outcome)
    /\ UNCHANGED head_id

(* The methods of one call.  Without data a block or a status is missing   *)
(* from the response, while peers and receipts are just empty lists.       *)
call_responded(r) ==
    /\ pc[r] = "call"
    /\ \E x \in Outcomes(msg[r]) :
        /\ Responded(r, x)
        /\ IF x.outcome # "data" THEN Raise(r, x.outcome)
           ELSE IF x.data # None
                THEN Return(r, x.data, IF request[r].method \in ListMethods
                                       THEN x.data ELSE None)
           ELSE IF msg[r].type \in {"peers_get", "receipt_get"} THEN Return(r, 0, None)
           ELSE Raise(r, "KeyError")
    /\ UNCHANGED <<head_id, loop>>

(* submit_batches, and the id of the batch that is returned.               *)
submit_batches_responded(r) ==
    /\ pc[r] = "submit"
    /\ \E x \in SubmitOutcomes :
        /\ status' = [status EXCEPT ![msg[r].id] =
                        IF x.taken /\ @ = "UNKNOWN" THEN "PENDING" ELSE @]
        /\ IF x.outcome = "data" THEN Return(r, msg[r].id, None) ELSE Raise(r, x.outcome)
    /\ UNCHANGED <<head, request, head_id, loop, seen, failed>>

-----------------------------------------------------------------------------
Init ==
    /\ ChainInit
    /\ pc = [r \in Requests |-> "new"]
    /\ request = [r \in Requests |-> None]
    /\ msg = [r \in Requests |-> None]
    /\ head_id = [r \in Requests |-> None]
    /\ loop = [r \in Requests |-> None]
    /\ answer = [r \in Requests |-> NoAnswer]
    /\ seen = [r \in Requests |-> {}]
    /\ failed = [r \in Requests |-> FALSE]

Call(r, p) ==
    \/ validate_params(r, p) \/ get_balance(r, p) \/ get_public_key_info(r, p)
    \/ get_atomic_swap_info(r, p) \/ get_block_number(r, p) \/ get_blocks(r, p)
    \/ rpc_fetch_state(r, p) \/ rpc_list_state(r, p) \/ list_resources(r, p)
    \/ fetch_resource(r, p) \/ list_statuses(r, p) \/ list_receipts(r, p) \/ fetch_peers(r, p)
    \/ send_raw_transaction(r, p)

Step(r) ==
    \/ head_to_root_responded(r) \/ fetch_state_responded(r) \/ call_responded(r)
    \/ submit_batches_responded(r)

Under_way(r) == pc[r] \notin {"new", "done"}

ChainMoves ==
    /\ \/ \E block \in Blocks : NewHead(block)
       \/ \E batch \in Batches, outcome \in {"COMMITTED", "INVALID"} :
            BatchSettles(batch, outcome)
    /\ seen' = [r \in Requests |-> IF Under_way(r) THEN seen[r] \cup {head'} ELSE seen[r]]
    /\ UNCHANGED <<requestVars, failed>>

Next ==
    \/ ChainMoves
    \/ \E r \in Requests : Step(r) \/ \E p \in Params : Call(r, p)

Spec == Init /\ [][Next]_vars

(***************************************************************************)
(* Every call to the validator ends, at the latest by its timeout, and the *)
(* loop then runs its task.                                                *)
(***************************************************************************)
FairSpec == Spec /\ \A r \in Requests : WF_vars(Step(r))
-----------------------------------------------------------------------------
Messages ==
    [type : {"block_list", "get", "state_get", "batch_status", "receipt_get", "peers_get",
             "batch_submit"},
     id : Blocks \cup Batches \cup {None, Malformed},
     address : {ENTITY, CONFIG_ADDRESS, None} \cup ({"block_info"} \X Int)]
(* Every variable has the type of what it models; the calls of the methods *)
(* that validate an id name no malformed one.                              *)
TypeOK ==
    /\ head \in Seq(Contents)
    /\ status \in [Batches -> {"UNKNOWN", "PENDING", "COMMITTED", "INVALID"}]
    /\ pc \in [Requests -> {"new", "head", "state", "call", "submit", "done"}]
    /\ request \in [Requests -> Params \cup {None}]
    /\ msg \in [Requests -> Messages \cup {None}]
    /\ \A r \in Requests : pc[r] = "call" => msg[r].id # Malformed
    /\ head_id \in [Requests -> Blocks \cup {None}]
    /\ loop \in [Requests -> Loops \cup {None}]
    /\ seen \in [Requests -> SUBSET Seq(Contents)]
    /\ failed \in [Requests -> BOOLEAN]

Returned(r, methods) == pc[r] = "done" /\ request[r].method \in methods /\ answer[r].kind = "result"
NotFound(r, methods) == pc[r] = "done" /\ request[r].method \in methods /\ answer[r].kind = "KeyNotFound"

(* fetch_state and list_state read twice, the block and then the state:    *)
(* what they return is what the state held at the very block they name as  *)
(* its head, the one asked for or one that was the newest meanwhile,       *)
(* though the chain may grow or change its branch between the two calls.   *)
SnapshotRead ==
    \A r \in Requests : Returned(r, StateMethods) =>
        /\ answer[r].value = state(answer[r].head, ENTITY)
        /\ IF request[r].head = None THEN answer[r].head \in seen[r]
                                     ELSE answer[r].head = request[r].head

(* A method that reads the newest state answers with what one of the       *)
(* blocks that were the newest between the request and its answer holds.   *)
(* A failed call is never shown as an empty account, an empty chain or a   *)
(* missing resource: a key is said to be missing only if one of them had   *)
(* no entry there or the entry is no key's, and then it is never described.*)
Held(method, block) ==
    IF method = "get_block_number" THEN IF block = <<>> THEN 0 ELSE Len(block) - 1
                                   ELSE writes(block)
CurrentRead ==
    \A r \in Requests :
        /\ Returned(r, EntityMethods \cup {"get_block_number"}) =>
              /\ ~without_payload(request[r])
              /\ \E b \in seen[r] : answer[r].value = Held(request[r].method, b)
        /\ NotFound(r, EntityMethods) =>
              without_payload(request[r]) \/ \E b \in seen[r] : writes(b) = 0
        /\ NotFound(r, FetchMethods) => \E b \in seen[r] : ~IsPrefix(request[r].id, b)
        /\ ~NotFound(r, {"get_block_number", "get_blocks"})

\* Blocks by number: those the state at a block has the information of.
Recorded(block) ==
    {n \in 1..MaxHeight : n - 1 \in oldest_block(block)..latest_block(block)}

(* get_blocks reads one block at a time while the chain moves on.  Unless  *)
(* a call failed, it returns the blocks newest first; each was on a branch *)
(* that was the chain meanwhile; and of those it was asked for, up to      *)
(* start (by default the newest) and at most limit many, none is missing   *)
(* that was recorded all the time.                                         *)
GetBlocks ==
    \A r \in Requests : (Returned(r, {"get_blocks"}) /\ ~failed[r]) =>
        LET result == answer[r].value
            start  == request[r].start
            limit  == request[r].limit
            newest == IF start = 0 THEN Max({Len(b) - 1 : b \in seen[r]}) ELSE start
            wanted == {n \in 1..MaxHeight : n <= newest /\ (limit # 0 => n > newest - limit)}
        IN  /\ \A j, k \in 1..Len(result) :
                  j < k => result[j].block_number > result[k].block_number
            /\ \A j \in 1..Len(result) : \E b \in seen[r] :
                  /\ IsPrefix(result[j].header_signature, b)
                  /\ result[j].block_number = Len(result[j].header_signature)
            /\ \A n \in wanted : (\A b \in seen[r] : n \in Recorded(b)) =>
                  \E j \in 1..Len(result) : result[j].block_number = n

(* Whatever start and limit a client names, no block with a negative       *)
(* number is asked for: its address would not be one, and the validator's  *)
(* refusal would fail the whole request.                                   *)
LegalAddresses ==
    \A r \in Requests : pc[r] = "state" =>
        (msg[r].address[1] = "block_info" => msg[r].address[2] >= 0)

(* "the id of the batch the transaction was included into": an id that     *)
(* send_raw_transaction returns is that of a batch the validator has.      *)
BatchIdMeansIncluded ==
    \A r \in Requests :
        Returned(r, {"send_raw_transaction"}) => status[request[r].id] # "UNKNOWN"

(* Every request is answered, however the calls to the validator end and   *)
(* however the chain grows while get_blocks goes through it.               *)
EveryRpcAnswered == \A r \in Requests : Under_way(r) ~> pc[r] = "done"
=============================================================================
