------------------------------- MODULE Router -------------------------------
(***************************************************************************)
(* The requests a node sends to its validator (remme/shared/router.py) and *)
(* what it makes of the responses.                                         *)
(*                                                                         *)
(* The validator's chain moves between two requests.  A block is named by  *)
(* the contents of the chain that ends in it, as its id hashes them; a     *)
(* block either writes to the one entity the clients ask for, an account,  *)
(* a public key, a swap or a setting, or does not touch it.                *)
(***************************************************************************)
EXTENDS Integers, Sequences, SequencesExt, FiniteSets

CONSTANTS
    MaxHeight,  \* bound on the blocks of the chain
    Window,     \* how far behind the newest one the block_info family keeps
    Batches,    \* batch ids
    Malformed,  \* an id that is not 128 hexadecimal digits
    None

Contents == {"write", "idle"}
Blocks == UNION {[1..n -> Contents] : n \in 1..MaxHeight}

ASSUME RouterAssumption ==
    /\ MaxHeight \in Nat
    /\ Window \in Nat
    /\ {None, Malformed} \cap (Blocks \cup Batches) = {}
    /\ None # Malformed
    /\ None \notin Nat \cup [latest_block : Int, oldest_block : Int]

VARIABLES
    head,     \* the newest block of the validator's chain, <<>> before genesis
    status    \* what the validator knows of each batch

chainVars == <<head, status>>

-----------------------------------------------------------------------------
(* The state the block with this id ends in.                               *)
ENTITY == <<"entity">>
CONFIG_ADDRESS == <<"config">>
create_block_address(n) == <<"block_info", n>>

\* The entity's content, by the number of its writes.
writes(block) == Cardinality({n \in 1..Len(block) : block[n] = "write"})

\* A block carries the BlockInfo of its predecessor; numbers count from 0.
latest_block(block) == Len(block) - 2
oldest_block(block) == IF latest_block(block) > Window THEN latest_block(block) - Window ELSE 0

\* Of an address that holds nothing, None.
state(block, address) ==
    CASE address = ENTITY -> IF writes(block) = 0 THEN None ELSE writes(block)
      [] address = CONFIG_ADDRESS ->
            IF latest_block(block) < 0 THEN None
            ELSE [latest_block |-> latest_block(block), oldest_block |-> oldest_block(block)]
      [] OTHER ->
            IF address[2] \in oldest_block(block)..latest_block(block)
            THEN SubSeq(block, 1, address[2] + 1) ELSE None

(* A longer branch replaces the chain, all of which starts at one genesis  *)
(* block.                                                                  *)
NewHead(block) ==
    /\ Len(block) = Len(head) + 1
    /\ head # <<>> => block[1] = head[1]
    /\ head' = block
    /\ UNCHANGED status

BatchSettles(batch, outcome) ==
    /\ status[batch] = "PENDING"
    /\ status' = [status EXCEPT ![batch] = outcome]
    /\ UNCHANGED head

ChainInit ==
    /\ head = <<>>
    /\ status = [b \in Batches |-> "UNKNOWN"]

-----------------------------------------------------------------------------
(* A request: its type, the block or batch it names (None: the newest      *)
(* block) and the address it reads.                                        *)
message(type, id, address) == [type |-> type, id |-> id, address |-> address]

(* The statuses of each type of response, as Sawtooth declares them.       *)
Statuses(type) ==
    CASE type = "block_list" ->
            {"OK", "INTERNAL_ERROR", "NOT_READY", "NO_ROOT", "NO_RESOURCE", "INVALID_PAGING",
             "INVALID_SORT", "INVALID_ID"}
      [] type = "state_get" ->
            {"OK", "INTERNAL_ERROR", "NOT_READY", "NO_ROOT", "NO_RESOURCE", "INVALID_ADDRESS",
             "INVALID_ROOT"}
      [] type \in {"get", "batch_status", "receipt_get"} ->
            {"OK", "INTERNAL_ERROR", "NO_RESOURCE", "INVALID_ID"}
      [] type = "batch_submit" -> {"OK", "INTERNAL_ERROR", "INVALID_BATCH", "QUEUE_FULL"}
      [] OTHER -> {"OK", "ERROR"}   \* peers_get

(* _handle_response.  A status the type of response does not declare is an *)
(* attribute it does not have: the AttributeError ends the tests, and what *)
(* they have not refused by then is returned as data.                      *)
handle_response(type, st) ==
    IF "NO_RESOURCE" \notin Statuses(type) THEN "data"
    ELSE IF st = "NO_RESOURCE" THEN "KeyNotFound"
    ELSE IF "NOT_READY" \notin Statuses(type) THEN "data"
    ELSE IF st = "NOT_READY" THEN "ValidatorNotReadyException"
    ELSE IF st # "OK" THEN "ClientException" ELSE "data"

\* The validator's answer to a request about the chain, when nothing fails.
Answer(m) ==
    LET found(data) == [status |-> "OK", data |-> data]
        refused(st) == [status |-> st, data |-> None]
        committed == m.id \in Blocks /\ IsPrefix(m.id, head)
        root == IF m.id = None THEN head ELSE m.id
    IN  IF m.id = Malformed THEN refused("INVALID_ID")
        ELSE IF m.type = "block_list" /\ head = <<>> THEN refused("NOT_READY")
        ELSE IF m.type = "block_list" /\ m.id = None THEN found(head)
        ELSE IF m.type \in {"block_list", "get"}
        THEN IF committed THEN found(m.id) ELSE refused("NO_RESOURCE")
        ELSE IF m.type = "state_get"
        THEN IF m.address[1] = "block_info" /\ m.address[2] < 0 THEN refused("INVALID_ADDRESS")
             ELSE IF state(root, m.address) = None THEN refused("NO_RESOURCE")
             ELSE found(state(root, m.address))
        ELSE IF m.type = "batch_status" THEN found(status[m.id])
        ELSE IF m.type = "receipt_get"
        THEN IF status[m.id] = "COMMITTED" THEN found(m.id) ELSE refused("NO_RESOURCE")
        ELSE found(1)   \* peers_get

(* What a call to the validator may come to: its answer, an error it       *)
(* reports, or none at all within ZMQ_CONNECTION_TIMEOUT.                  *)
Outcomes(m) ==
    LET reply(a) == [outcome |-> handle_response(m.type, a.status), data |-> a.data,
                     failed |-> a.status \notin {"OK", "NO_RESOURCE"}]
        broken == Statuses(m.type) \cap {"INTERNAL_ERROR", "ERROR"}
    IN  {reply(Answer(m))}
        \cup {reply([status |-> st, data |-> None]) : st \in broken}
        \cup {[outcome |-> "ClientException", data |-> None, failed |-> TRUE]}

(* The same for a batch that is submitted: whether the validator took it.  *)
SubmitOutcomes ==
    {[outcome |-> handle_response("batch_submit", st), taken |-> st = "OK"] :
        st \in Statuses("batch_submit")}
    \cup [outcome : {"ClientException"}, taken : BOOLEAN]

-----------------------------------------------------------------------------
(* Seeded fault: the pattern of an id is not tested.                       *)
validate_nothing(id) == TRUE
validate_id(id) == id # Malformed
get_head_id(id) == id # None => validate_id(id)

\* Without a limit, None, there is nothing to refuse.
get_paging_controls(limit) == limit # None => limit > 0

\* The first request of _head_to_root.
head_to_root(block_id) ==
    IF block_id = None THEN message("block_list", None, None)
                       ELSE message("get", block_id, None)

(* Seeded fault: the state is read without naming its root.                *)
fetch_newest_state(block, address) == message("state_get", None, address)

\* Its second request, at the root of the block the first one found.
fetch_state(block, address) == message("state_get", block, address)
=============================================================================
