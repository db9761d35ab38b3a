---------------------------- MODULE RpcApiProofs ----------------------------
(***************************************************************************)
(* The JSON-RPC methods answer with what the chain held, for every length  *)
(* of the chain, every number of requests and all their parameters.        *)
(*                                                                         *)
(* The invariant speaks of one request at a time.  Its parts that only     *)
(* depend on the values a request has are operators of these values, so    *)
(* that the steps of other requests leave them alone without a proof.      *)
(***************************************************************************)
EXTENDS RpcApi, SumProofs, SequenceTheorems, TLAPS

-----------------------------------------------------------------------------
(* A block is a chain of at most MaxHeight blocks that has a first one.    *)
LEMMA BlockType ==
    ASSUME NEW b
    PROVE  b \in Blocks <=> b \in Seq(Contents) /\ Len(b) \in 1..MaxHeight
<1>1. MaxHeight \in Nat
  BY RouterAssumption
<1>2. ASSUME b \in Blocks
      PROVE  b \in Seq(Contents) /\ Len(b) \in 1..MaxHeight
  <2>1. PICK n \in 1..MaxHeight : b \in [1..n -> Contents]
    BY <1>2 DEF Blocks
  <2>2. n \in Nat /\ n >= 1
    BY <1>1, <2>1
  <2>3. b \in Seq(Contents)
    BY <2>1, <2>2, SeqDef
  <2>4. Len(b) \in Nat /\ 1..Len(b) = 1..n
    BY <2>1, <2>3, LenProperties
  <2>5. Len(b) = n
    BY <2>2, <2>4
  <2> QED
    BY <2>1, <2>3, <2>5
<1>3. ASSUME b \in Seq(Contents), Len(b) \in 1..MaxHeight
      PROVE  b \in Blocks
  <2>1. b \in [1..Len(b) -> Contents]
    BY <1>3, LenProperties
  <2> QED
    BY <1>3, <2>1 DEF Blocks
<1> QED
  BY <1>2, <1>3

\* The chain: some block, or none at all before genesis.
Chains == Blocks \cup {<<>>}

(* Every chain is a sequence of no more than MaxHeight contents.           *)
LEMMA ChainType ==
    ASSUME NEW b \in Chains
    PROVE  b \in Seq(Contents) /\ Len(b) \in 0..MaxHeight
<1>1. MaxHeight \in Nat
  BY RouterAssumption
<1>2. CASE b \in Blocks
  BY <1>1, <1>2, BlockType
<1>3. CASE b = <<>>
  BY <1>1, <1>3
<1> QED
  BY <1>2, <1>3 DEF Chains

(* The entity was written a number of times.                               *)
LEMMA WritesNat ==
    ASSUME NEW b \in Chains
    PROVE  writes(b) \in Nat
<1>1. IsFiniteSet(1..Len(b))
  BY ChainType, FS_Interval
<1>2. IsFiniteSet({n \in 1..Len(b) : b[n] = "write"})
  BY <1>1, FS_Subset
<1> QED
  BY <1>2, FS_CardinalityType DEF writes

(* What is kept of the entity: nothing before its first write.             *)
LEMMA EntityState ==
    ASSUME NEW b \in Blocks
    PROVE  /\ writes(b) \in Nat
           /\ state(b, ENTITY) = None <=> writes(b) = 0
           /\ state(b, ENTITY) # None => state(b, ENTITY) = writes(b)
<1>1. writes(b) \in Nat /\ None \notin Nat
  BY WritesNat, RouterAssumption DEF Chains
<1>2. state(b, ENTITY) = IF writes(b) = 0 THEN None ELSE writes(b)
  BY DEF state, ENTITY, CONFIG_ADDRESS
<1> QED
  BY <1>1, <1>2

(* The configuration: nothing before the second block.                     *)
LEMMA ConfigState ==
    ASSUME NEW b \in Blocks
    PROVE  /\ Len(b) \in Nat /\ Len(b) >= 1
           /\ state(b, CONFIG_ADDRESS) = None <=> Len(b) = 1
           /\ state(b, CONFIG_ADDRESS) # None =>
                 /\ state(b, CONFIG_ADDRESS).latest_block = Len(b) - 2
                 /\ state(b, CONFIG_ADDRESS).oldest_block = oldest_block(b)
                 /\ oldest_block(b) \in Nat
<1>1. Len(b) \in Nat /\ Len(b) >= 1 /\ Window \in Nat
  BY BlockType, RouterAssumption
<1>2. latest_block(b) = Len(b) - 2
  BY DEF latest_block
<1>3. oldest_block(b) \in Nat
  BY <1>1, <1>2 DEF oldest_block
<1>4. CONFIG_ADDRESS # ENTITY
  BY DEF CONFIG_ADDRESS, ENTITY
<1>5. state(b, CONFIG_ADDRESS) =
        IF latest_block(b) < 0 THEN None
        ELSE [latest_block |-> latest_block(b), oldest_block |-> oldest_block(b)]
  BY <1>4 DEF state
<1>6. [latest_block |-> latest_block(b), oldest_block |-> oldest_block(b)] # None
  BY <1>1, <1>2, <1>3, RouterAssumption
<1>7. latest_block(b) < 0 <=> Len(b) = 1
  <2> DEFINE n == Len(b)
  <2>1. n \in Nat /\ n >= 1
    BY <1>1
  <2> HIDE DEF n
  <2>2. n - 2 < 0 <=> n = 1
    BY <2>1
  <2> QED
    BY <1>2, <2>2 DEF n
<1>8. CASE latest_block(b) < 0
  <2>1. Len(b) = 1
    BY <1>8, <1>7
  <2>2. state(b, CONFIG_ADDRESS) = None
    BY <1>5, <1>8
  <2> QED
    BY <1>1, <2>1, <2>2
<1>9. CASE ~(latest_block(b) < 0)
  <2>1. state(b, CONFIG_ADDRESS) =
          [latest_block |-> latest_block(b), oldest_block |-> oldest_block(b)]
    BY <1>5, <1>9
  <2>2. Len(b) # 1
    BY <1>9, <1>7
  <2>3. state(b, CONFIG_ADDRESS) # None
    BY <1>6, <2>1
  <2>4. state(b, CONFIG_ADDRESS).latest_block = Len(b) - 2
    BY <1>2, <2>1
  <2>5. state(b, CONFIG_ADDRESS).oldest_block = oldest_block(b)
    BY <2>1
  <2> QED
    BY <1>1, <1>3, <2>2, <2>3, <2>4, <2>5
<1> QED
  BY <1>8, <1>9

(* A block's information: that of the block with this number, if it is     *)
(* still kept and not yet the newest one.                                  *)
LEMMA BlockState ==
    ASSUME NEW b \in Blocks, NEW n \in Nat
    PROVE  LET d == state(b, create_block_address(n))
           IN  /\ n \notin oldest_block(b)..latest_block(b) => d = None
               /\ n \in oldest_block(b)..latest_block(b) =>
                     /\ d # None /\ d \in Blocks /\ Len(d) = n + 1 /\ IsPrefix(d, b)
<1> DEFINE d == SubSeq(b, 1, n + 1)
<1>1. create_block_address(n) # ENTITY /\ create_block_address(n) # CONFIG_ADDRESS
  BY DEF create_block_address, ENTITY, CONFIG_ADDRESS
<1>2. state(b, create_block_address(n)) =
        IF n \in oldest_block(b)..latest_block(b) THEN d ELSE None
  BY <1>1 DEF state, create_block_address
<1>3. ASSUME n \in oldest_block(b)..latest_block(b)
      PROVE  d # None /\ d \in Blocks /\ Len(d) = n + 1 /\ IsPrefix(d, b)
  <2>1. b \in Seq(Contents) /\ Len(b) \in 1..MaxHeight /\ MaxHeight \in Nat
    BY BlockType, RouterAssumption
  <2>2. n + 1 \in 1..Len(b)
    BY <1>3, <2>1 DEF latest_block, oldest_block
  <2>3. d \in Seq(Contents) /\ Len(d) = n + 1
    <3>1. \A i \in 1..(n + 1) : b[i] \in Contents
      BY <2>1, <2>2, LenProperties
    <3>2. 1 \in Int /\ n + 1 \in Int /\ 1 =< n + 1
      OBVIOUS
    <3>3. d \in Seq(Contents) /\ Len(d) = (n + 1) - 1 + 1
      BY <3>1, <3>2, SubSeqProperties, Zenon
    <3> QED
      BY <3>3
  <2> HIDE DEF d
  <2>4. d \in Blocks
    BY <2>1, <2>2, <2>3, BlockType
  <2>5. d # None
    BY <2>4, RouterAssumption
  <2>6. SubSeq(d, 1, Len(d)) = d
    BY <2>3, SubSeqFull
  <2>7. IsPrefix(d, b)
    <3>1. SubSeq(b, 1, Len(d)) = d
      BY <2>3 DEF d
    <3>2. Len(d) =< Len(b)
      BY <2>1, <2>2, <2>3
    <3> QED
      BY <2>6, <3>1, <3>2 DEF IsPrefix
  <2> QED
    BY <2>3, <2>4, <2>5, <2>7
<1> QED
  BY <1>2, <1>3

-----------------------------------------------------------------------------
(* _handle_response returns data or raises one of three exceptions.        *)
LEMMA ResponseKinds ==
    ASSUME NEW type, NEW st
    PROVE  handle_response(type, st)
               \in {"data", "KeyNotFound", "ValidatorNotReadyException", "ClientException"}
BY DEF handle_response

\* What a call comes to when the validator answers it with a status and data.
Reply(m, st, data) ==
    [outcome |-> handle_response(m.type, st), data |-> data,
     failed |-> st \notin {"OK", "NO_RESOURCE"}]

(* A call ends in one of three ways: the validator's answer, an error it   *)
(* reports, or no answer in time.                                          *)
LEMMA OutcomeCases ==
    ASSUME NEW m, NEW x \in Outcomes(m)
    PROVE  \/ x = Reply(m, Answer(m).status, Answer(m).data)
           \/ \E st \in Statuses(m.type) \cap {"INTERNAL_ERROR", "ERROR"} : x = Reply(m, st, None)
           \/ x = [outcome |-> "ClientException", data |-> None, failed |-> TRUE]
BY DEF Outcomes, Reply

(* So no exception passes for a result or for another method's error.      *)
LEMMA OutcomeKinds ==
    ASSUME NEW m, NEW x \in Outcomes(m)
    PROVE  /\ x.outcome \in {"data", "KeyNotFound", "ValidatorNotReadyException", "ClientException"}
           /\ x.failed \in BOOLEAN
<1>1. CASE x = Reply(m, Answer(m).status, Answer(m).data)
  BY <1>1, ResponseKinds DEF Reply
<1>2. ASSUME NEW st, x = Reply(m, st, None)
      PROVE  /\ x.outcome = handle_response(m.type, st)
             /\ x.failed \in BOOLEAN
  BY <1>2 DEF Reply
<1>3. CASE x = [outcome |-> "ClientException", data |-> None, failed |-> TRUE]
  BY <1>3
<1> QED
  BY <1>1, <1>2, <1>3, OutcomeCases, ResponseKinds

(* The answer about a block: the newest one if none is named, or the one   *)
(* that is, if it is on the chain.                                         *)
LEMMA HeadAnswer ==
    ASSUME NEW b \in Blocks \cup {None, Malformed}
    PROVE  LET a == Answer(head_to_root(b))
           IN  /\ b = None /\ head = <<>> => a = [status |-> "NOT_READY", data |-> None]
               /\ b = None /\ head # <<>> => a = [status |-> "OK", data |-> head]
               /\ b = Malformed => a = [status |-> "INVALID_ID", data |-> None]
               /\ b \in Blocks /\ IsPrefix(b, head) => a = [status |-> "OK", data |-> b]
               /\ b \in Blocks /\ ~IsPrefix(b, head) =>
                     a = [status |-> "NO_RESOURCE", data |-> None]
<1>1. None \notin Blocks /\ Malformed \notin Blocks /\ None # Malformed
  BY RouterAssumption
<1>2. CASE b = None
  <2>1. head_to_root(b) = [type |-> "block_list", id |-> None, address |-> None]
    BY <1>2 DEF head_to_root, message
  <2>2. CASE head = <<>>
    BY <1>1, <1>2, <2>1, <2>2 DEF Answer
  <2>3. CASE head # <<>>
    BY <1>1, <1>2, <2>1, <2>3 DEF Answer
  <2> QED
    BY <1>1, <1>2, <2>2, <2>3
<1>3. CASE b # None
  <2>1. head_to_root(b) = [type |-> "get", id |-> b, address |-> None]
    BY <1>3 DEF head_to_root, message
  <2>2. CASE b = Malformed
    BY <1>1, <1>3, <2>1, <2>2 DEF Answer
  <2>3. CASE b \in Blocks /\ IsPrefix(b, head)
    BY <1>1, <1>3, <2>1, <2>3 DEF Answer
  <2>4. CASE b \in Blocks /\ ~IsPrefix(b, head)
    BY <1>1, <1>3, <2>1, <2>4 DEF Answer
  <2> QED
    BY <1>1, <1>3, <2>2, <2>3, <2>4
<1> QED
  BY <1>2, <1>3

(* _head_to_root finds the newest block, or the block that was asked for;  *)
(* for the newest one it fails only if the call does.                      *)
LEMMA HeadOutcome ==
    ASSUME head \in Chains, NEW b \in Blocks \cup {None, Malformed},
           NEW x \in Outcomes(head_to_root(b))
    PROVE  /\ x.outcome = "data" /\ x.data # None =>
                 /\ x.data \in Blocks
                 /\ x.data = IF b = None THEN head ELSE b
           /\ x.outcome = "KeyNotFound" => b \in Blocks /\ ~IsPrefix(b, head)
           /\ b = None /\ ~x.failed => x.outcome = "data" /\ x.data # None
<1>1. None \notin Blocks /\ Malformed \notin Blocks /\ None # Malformed
  BY RouterAssumption
<1>2. /\ b = None => head_to_root(b).type = "block_list"
      /\ b # None => head_to_root(b).type = "get"
  BY DEF head_to_root, message
<1>3. CASE x = Reply(head_to_root(b), Answer(head_to_root(b)).status,
                     Answer(head_to_root(b)).data)
  <2>1. CASE b = None /\ head = <<>>
    <3>1. Answer(head_to_root(b)) = [status |-> "NOT_READY", data |-> None]
      BY <2>1, HeadAnswer
    <3>2. x = Reply(head_to_root(b), "NOT_READY", None)
      BY <1>3, <3>1
    <3>3. x.failed /\ x.data = None
      BY <3>2 DEF Reply
    <3>4. x.outcome = handle_response("block_list", "NOT_READY")
      BY <1>2, <2>1, <3>2 DEF Reply
    <3>5. x.outcome # "KeyNotFound"
      BY <3>4 DEF handle_response
    <3> QED
      BY <3>3, <3>5
  <2>2. CASE b = None /\ head # <<>>
    BY <1>1, <1>2, <1>3, <2>2, HeadAnswer DEF Reply, handle_response, Statuses, Chains
  <2>3. CASE b = Malformed
    BY <1>1, <1>2, <1>3, <2>3, HeadAnswer DEF Reply, handle_response, Statuses
  <2>4. CASE b \in Blocks
    BY <1>1, <1>2, <1>3, <2>4, HeadAnswer DEF Reply, handle_response, Statuses
  <2> QED
    BY <2>1, <2>2, <2>3, <2>4
<1>4. ASSUME NEW st \in {"INTERNAL_ERROR", "ERROR"}, x = Reply(head_to_root(b), st, None)
      PROVE  x.outcome # "KeyNotFound" /\ x.data = None /\ x.failed
  BY <1>4 DEF Reply, handle_response
<1>5. CASE x = [outcome |-> "ClientException", data |-> None, failed |-> TRUE]
  BY <1>5
<1> QED
  BY <1>3, <1>4, <1>5, OutcomeCases

(* The state is read at the block that was found, whatever the newest      *)
(* block is by then.                                                       *)
LEMMA StateOutcome ==
    ASSUME NEW b \in Blocks, NEW a, a[1] = "block_info" => ~(a[2] < 0),
           NEW x \in Outcomes(fetch_state(b, a))
    PROVE  /\ x.outcome = "data" => x.data = state(b, a) /\ x.data # None
           /\ x.outcome = "KeyNotFound" => state(b, a) = None
           /\ ~x.failed => x.outcome \in {"data", "KeyNotFound"}
<1>1. b # None /\ b # Malformed
  BY RouterAssumption
<1> DEFINE m == fetch_state(b, a)
<1>2. m = [type |-> "state_get", id |-> b, address |-> a]
  BY DEF fetch_state, message
<1> HIDE DEF m
<1>3. Answer(m) = IF state(b, a) = None THEN [status |-> "NO_RESOURCE", data |-> None]
                  ELSE [status |-> "OK", data |-> state(b, a)]
  BY <1>1, <1>2 DEF Answer
<1>4. CASE x = Reply(m, Answer(m).status, Answer(m).data)
  BY <1>2, <1>3, <1>4 DEF Reply, handle_response, Statuses
<1>5. ASSUME NEW st \in {"INTERNAL_ERROR", "ERROR"}, x = Reply(m, st, None)
      PROVE  x.outcome = "ClientException" /\ x.failed
  BY <1>2, <1>5 DEF Reply, handle_response, Statuses
<1>6. CASE x = [outcome |-> "ClientException", data |-> None, failed |-> TRUE]
  BY <1>6
<1> QED
  BY <1>4, <1>5, <1>6, OutcomeCases DEF m

-----------------------------------------------------------------------------
(* The invariant.                                                          *)

\* The blocks get_blocks owes the client after these were the newest ones:
\* those it was asked for that all of them have on record.
Newest(req, blocks) ==
    IF req.start = 0 THEN Max({Len(b) - 1 : b \in blocks}) ELSE req.start
Due(req, blocks) ==
    {n \in 1..MaxHeight :
        /\ n <= Newest(req, blocks)
        /\ req.limit # 0 => n > Newest(req, blocks) - req.limit
        /\ \A b \in blocks : n \in Recorded(b)}

\* Information about a block of a chain that was the newest meanwhile.
OnChain(info, blocks) ==
    \E b \in blocks :
        /\ IsPrefix(info.header_signature, b)
        /\ info.block_number = Len(info.header_signature)

(* The loop of get_blocks_info: what it has gathered ascends up to the     *)
(* next number, and it has missed nothing it owes so far.                  *)
LoopInv(l, req, blocks) ==
    /\ l \in Loops
    /\ l.i >= 0
    /\ \A j, k \in 1..Len(l.blocks) :
          j < k => l.blocks[j].block_number < l.blocks[k].block_number
    /\ \A j \in 1..Len(l.blocks) :
          l.blocks[j].block_number <= l.i /\ OnChain(l.blocks[j], blocks)
    /\ \A n \in Due(req, blocks) :
          /\ n <= l.stop
          /\ n <= l.i => \E j \in 1..Len(l.blocks) : l.blocks[j].block_number = n

BlocksRight(result, req, blocks) ==
    /\ \A j, k \in 1..Len(result) :
          j < k => result[j].block_number > result[k].block_number
    /\ \A j \in 1..Len(result) : OnChain(result[j], blocks)
    /\ \A n \in Due(req, blocks) : \E j \in 1..Len(result) : result[j].block_number = n

(* What the properties say of an answer.                                   *)
Right(req, a, blocks, fault) ==
    /\ (a.kind = "result" /\ req.method \in StateMethods) =>
          /\ a.value = state(a.head, ENTITY)
          /\ IF req.head = None THEN a.head \in blocks ELSE a.head = req.head
    /\ (a.kind = "result" /\ req.method \in EntityMethods \cup {"get_block_number"}) =>
          ~without_payload(req) /\ \E b \in blocks : a.value = Held(req.method, b)
    /\ (a.kind = "result" /\ req.method = "get_blocks" /\ ~fault) =>
          BlocksRight(a.value, req, blocks)
    /\ a.kind = "KeyNotFound" =>
          /\ req.method \in EntityMethods =>
                without_payload(req) \/ \E b \in blocks : writes(b) = 0
          /\ req.method \in FetchMethods => \E b \in blocks : ~IsPrefix(req.id, b)
          /\ req.method \notin {"get_block_number", "get_blocks"}

\* The methods that read the state, the block they ask for and the address.
ReadMethods == EntityMethods \cup StateMethods \cup {"get_block_number", "get_blocks"}
Asked(req) == IF req.method \in StateMethods THEN req.head ELSE None
AddressOf(req, l) ==
    IF req.method = "get_block_number" THEN CONFIG_ADDRESS
    ELSE IF req.method # "get_blocks" THEN ENTITY
    ELSE IF l = None THEN CONFIG_ADDRESS ELSE create_block_address(l.i)

\* What every request that reads the state can rely on.
ReadInv(req, l, blocks) ==
    /\ req.method \in ReadMethods
    /\ req.method = "get_blocks" /\ l # None => LoopInv(l, req, blocks)

(* Where a request stands: the call it waits for is the one its method     *)
(* makes there, and a block it goes by was the newest one since.  The      *)
(* arguments are the values the variables have for the request, and head.  *)
RequestOK(place, req, m, h, l, a, blocks, fault, top) ==
    /\ req \in Params \cup {None}
    /\ m \in Messages \cup {None}
    /\ h \in Blocks \cup {None}
    /\ l \in Loops \cup {None}
    /\ blocks \in SUBSET Chains
    /\ fault \in BOOLEAN
    /\ place # "new" => req \in Params
    /\ place # "done" => a = NoAnswer
    /\ place \notin {"new", "done"} => top \in blocks
    /\ \/ place = "new" /\ l = None
       \/ /\ place = "head"
          /\ ReadInv(req, l, blocks)
          /\ m = head_to_root(Asked(req))
       \/ /\ place = "state"
          /\ ReadInv(req, l, blocks)
          /\ h \in Blocks
          /\ m = fetch_state(h, AddressOf(req, l))
          /\ IF Asked(req) = None THEN h \in blocks ELSE h = Asked(req)
       \/ /\ place = "call"
          /\ req.method \notin ReadMethods
          /\ m.id # Malformed
          /\ req.method \in FetchMethods => req.id \in Blocks /\ m = head_to_root(req.id)
       \/ /\ place = "submit"
          /\ req.method = "send_raw_transaction"
          /\ m = message("batch_submit", req.id, None)
       \/ place = "done" /\ Right(req, a, blocks, fault)

RequestInv(r) ==
    RequestOK(pc[r], request[r], msg[r], head_id[r], loop[r], answer[r], seen[r], failed[r], head)

Inv ==
    /\ TypeOK
    /\ answer = [r \in Requests |-> answer[r]]
    /\ head \in Chains
    /\ \A r \in Requests : RequestInv(r)

-----------------------------------------------------------------------------
(* Some chain among those a request has seen is as long as any other.      *)
LEMMA LongestChain ==
    ASSUME NEW blocks \in SUBSET Chains, blocks # {}
    PROVE  LET top == Max({Len(b) - 1 : b \in blocks})
           IN  /\ top \in Int /\ \A b \in blocks : Len(b) - 1 <= top
               /\ \E b \in blocks : top = Len(b) - 1
<1> DEFINE S == {Len(b) - 1 : b \in blocks}
           T == {n \in Nat : \E x \in S : n = MaxHeight - x}
<1>1. MaxHeight \in Nat
  BY RouterAssumption
<1>2. ASSUME NEW x \in S
      PROVE  x \in Int /\ MaxHeight - x \in T
  <2>1. PICK b \in blocks : x = Len(b) - 1
    OBVIOUS
  <2>2. Len(b) \in 0..MaxHeight
    BY ChainType
  <2>3. x \in Int /\ MaxHeight - x \in Nat
    BY <1>1, <2>1, <2>2
  <2> QED
    BY <2>3
<1>3. T \in SUBSET Nat /\ T # {}
  <2>1. PICK b \in blocks : TRUE
    OBVIOUS
  <2>2. Len(b) - 1 \in S
    BY <2>1
  <2> QED
    BY <1>2, <2>2
<1>4. PICK n \in T : \A k \in T : n <= k
  BY <1>3, LeastNatural
<1>5. PICK x \in S : n = MaxHeight - x
  BY <1>4
<1> HIDE DEF S, T
<1>6. ASSUME NEW y \in S
      PROVE  x >= y
  <2>1. y \in Int /\ x \in Int /\ n <= MaxHeight - y
    BY <1>2, <1>4
  <2> QED
    BY <1>1, <1>5, <2>1
<1>7. Max(S) \in S /\ \A y \in S : Max(S) >= y
  BY <1>6 DEF Max
<1>8. Max(S) \in Int
  BY <1>2, <1>7
<1>9. ASSUME NEW b \in blocks
      PROVE  Len(b) - 1 <= Max(S)
  <2>1. Len(b) - 1 \in S
    BY DEF S
  <2>2. Len(b) - 1 \in Int /\ Max(S) >= Len(b) - 1
    BY <1>2, <1>7, <2>1
  <2> QED
    BY <1>8, <2>2
<1>10. \E b \in blocks : Max(S) = Len(b) - 1
  BY <1>7 DEF S
<1> QED
  BY <1>8, <1>9, <1>10 DEF S

(* A number that a chain has on record is below its newest block.          *)
LEMMA RecordedBound ==
    ASSUME NEW b \in Chains, NEW n \in Recorded(b)
    PROVE  /\ n \in 1..MaxHeight /\ n \in Nat /\ n >= 1
           /\ n <= Len(b) - 1
           /\ n - 1 \in oldest_block(b)..latest_block(b)
<1>1. MaxHeight \in Nat /\ Len(b) \in Nat /\ Window \in Nat
  BY RouterAssumption, ChainType
<1>2. n \in 1..MaxHeight /\ n - 1 \in oldest_block(b)..latest_block(b)
  BY DEF Recorded
<1>3. latest_block(b) = Len(b) - 2
  BY DEF latest_block
<1>4. oldest_block(b) \in Int
  BY <1>1, <1>3 DEF oldest_block
<1>5. n \in Nat /\ n >= 1 /\ n - 1 <= latest_block(b)
  BY <1>1, <1>2, <1>3, <1>4
<1>6. n <= Len(b) - 1
  <2> DEFINE k == Len(b)
  <2>1. k \in Nat /\ n - 1 <= k - 2
    BY <1>1, <1>3, <1>5
  <2> HIDE DEF k
  <2>2. n <= k - 1
    BY <1>5, <2>1
  <2> QED
    BY <2>2 DEF k
<1> QED
  BY <1>2, <1>5, <1>6

\* A request for blocks.
BlocksRequest(req) == req.start \in Int /\ req.limit \in Int

(* As the chain moves on, a request owes less and never more: a new block  *)
(* is not recorded by the older chains.                                    *)
LEMMA DueShrinks ==
    ASSUME NEW req, BlocksRequest(req),
           NEW blocks \in SUBSET Chains, blocks # {}, NEW h \in Chains
    PROVE  Due(req, blocks \cup {h}) \subseteq Due(req, blocks)
<1> DEFINE more == blocks \cup {h}
<1> SUFFICES ASSUME NEW n \in Due(req, more)
             PROVE  n \in Due(req, blocks)
  OBVIOUS
<1>1. /\ n \in 1..MaxHeight
      /\ n <= Newest(req, more)
      /\ req.limit # 0 => n > Newest(req, more) - req.limit
      /\ \A b \in more : n \in Recorded(b)
  BY DEF Due
<1>2. PICK c \in blocks : TRUE
  OBVIOUS
<1>3. n \in Nat /\ n <= Len(c) - 1 /\ Len(c) \in Nat
  BY <1>1, <1>2, RecordedBound, ChainType
<1>4. CASE req.start # 0
  BY <1>1, <1>4 DEF Due, Newest
<1>5. CASE req.start = 0
  <2> DEFINE t == Max({Len(b) - 1 : b \in blocks})
             u == Max({Len(b) - 1 : b \in more})
  <2>1. t \in Int /\ Len(c) - 1 <= t
    BY <1>2, LongestChain
  <2>2. u \in Int /\ \A b \in more : Len(b) - 1 <= u
    BY LongestChain
  <2>3. \E b \in blocks : t = Len(b) - 1
    BY LongestChain
  <2>4. t <= u
    BY <2>2, <2>3
  <2>5. Newest(req, blocks) = t /\ Newest(req, more) = u
    BY <1>5 DEF Newest
  <2> HIDE DEF t, u
  <2>6. n <= t
    BY <1>3, <2>1
  <2>7. req.limit # 0 => n > t - req.limit
    BY <1>1, <1>3, <2>1, <2>2, <2>4, <2>5 DEF BlocksRequest
  <2> QED
    BY <1>1, <2>5, <2>6, <2>7 DEF Due
<1> QED
  BY <1>4, <1>5

(* So the loop's invariant survives a new block.                           *)
LEMMA LoopMore ==
    ASSUME NEW req, BlocksRequest(req),
           NEW blocks \in SUBSET Chains, blocks # {}, NEW h \in Chains,
           NEW l, LoopInv(l, req, blocks)
    PROVE  LoopInv(l, req, blocks \cup {h})
<1>1. Due(req, blocks \cup {h}) \subseteq Due(req, blocks)
  BY DueShrinks
<1>2. \A info : OnChain(info, blocks) => OnChain(info, blocks \cup {h})
  BY DEF OnChain
<1> QED
  BY <1>1, <1>2 DEF LoopInv

\* The entries of get_blocks_info's list.
Info == [block_number : Int, header_signature : Seq(Contents),
         previous_header_signature : Seq(Contents)]

(* The parts of the loop's state have their types.                         *)
LEMMA LoopType ==
    ASSUME NEW l \in Loops
    PROVE  /\ l.i \in Int /\ l.stop \in Int /\ l.blocks \in Seq(Info)
           /\ Len(l.blocks) \in Nat
           /\ \A j \in 1..Len(l.blocks) : l.blocks[j].block_number \in Int
<1>1. l.i \in Int /\ l.stop \in Int /\ l.blocks \in Seq(Info)
  BY DEF Loops, Info
<1>2. Len(l.blocks) \in Nat /\ l.blocks \in [1..Len(l.blocks) -> Info]
  BY <1>1, LenProperties
<1>3. \A info \in Info : info.block_number \in Int
  BY DEF Info
<1> QED
  BY <1>1, <1>2, <1>3

(* range(start - limit, start) begins no later than the first block that   *)
(* is owed, and never below zero.                                          *)
LEMMA LoopStart ==
    ASSUME NEW req, NEW blocks, NEW start \in Int, NEW limit \in Int,
           \A n \in Due(req, blocks) : n <= start /\ n > start - limit
    PROVE  LoopInv(blocks_range(start, limit), req, blocks)
<1> DEFINE l == blocks_range(start, limit)
           count == IF limit - start > 0 THEN start ELSE limit
<1>0. l = [i |-> start - count, stop |-> start, blocks |-> <<>>]
  BY DEF blocks_range
<1>c. start - count \in Int /\ start - count >= 0
      /\ (start - count = 0 \/ start - count = start - limit)
  OBVIOUS
<1> HIDE DEF count
<1>1. /\ l.i \in Int /\ l.i >= 0
      /\ l.i = 0 \/ l.i = start - limit
  BY <1>0, <1>c
<1>2. <<>> \in Seq(Info) /\ Len(<<>>) = 0
  OBVIOUS
<1> HIDE DEF l
<1>3. l \in Loops
  <2> DEFINE k == start - count
  <2>1. k \in Int /\ l = [i |-> k, stop |-> start, blocks |-> <<>>]
    BY <1>0, <1>c
  <2> HIDE DEF k
  <2> QED
    BY <1>2, <2>1 DEF Loops, Info
<1>4. l.stop = start /\ l.blocks = <<>>
  BY <1>0
<1>5. 1..Len(l.blocks) = {}
  BY <1>2, <1>4
<1>6. ASSUME NEW n \in Due(req, blocks)
      PROVE  n <= l.stop /\ ~(n <= l.i)
  <2>1. n \in Int /\ n >= 1
    BY RouterAssumption DEF Due
  <2> QED
    BY <1>1, <1>4, <2>1
<1>7. LoopInv(l, req, blocks)
  BY <1>1, <1>3, <1>5, <1>6 DEF LoopInv
<1> QED
  BY <1>7 DEF l

(* Both bounds come with the request.                                      *)
LEMMA LoopStartGiven ==
    ASSUME NEW req, BlocksRequest(req), req.start # 0, req.limit # 0, NEW blocks
    PROVE  LoopInv(blocks_range(req.start, req.limit), req, blocks)
<1>1. \A n \in Due(req, blocks) : n <= req.start /\ n > req.start - req.limit
  BY DEF Due, Newest
<1> QED
  BY <1>1, LoopStart DEF BlocksRequest

(* The configuration at one of the blocks supplies a bound that is not     *)
(* given: what this block does not record is not owed.                     *)
LEMMA LoopStartDefault ==
    ASSUME NEW req, BlocksRequest(req), NEW blocks \in SUBSET Chains,
           NEW b \in blocks, b \in Blocks, state(b, CONFIG_ADDRESS) # None
    PROVE  LoopInv(default_range(req, state(b, CONFIG_ADDRESS)), req, blocks)
<1> DEFINE start == IF req.start = 0 THEN state(b, CONFIG_ADDRESS).latest_block + 1 ELSE req.start
           limit == IF req.limit = 0 THEN start - state(b, CONFIG_ADDRESS).oldest_block + 1
                                     ELSE req.limit
           top == Len(b)
           low == oldest_block(b)
<1>1. /\ state(b, CONFIG_ADDRESS).latest_block = top - 2
      /\ state(b, CONFIG_ADDRESS).oldest_block = low
      /\ top \in Nat /\ low \in Nat
  BY ConfigState
<1>2. start \in Int /\ limit \in Int
  BY <1>1 DEF BlocksRequest
<1>3. ASSUME NEW n \in Due(req, blocks)
      PROVE  n <= start /\ n > start - limit
  <2>1. /\ n \in Nat /\ n <= top - 1
        /\ n - 1 \in low..latest_block(b)
    BY RecordedBound DEF Due
  <2>2. n - 1 >= low
    BY <1>1, <2>1 DEF latest_block
  <2>3. /\ n <= Newest(req, blocks)
        /\ req.limit # 0 => n > Newest(req, blocks) - req.limit
    BY DEF Due
  <2> HIDE DEF top, low
  <2>4. CASE req.start = 0
    <3>1. start = top - 1
      BY <1>1, <2>4
    <3>2. CASE req.limit = 0
      <4>1. limit = start - low + 1
        BY <1>1, <3>2
      <4> QED
        BY <1>1, <2>1, <2>2, <3>1, <4>1
    <3>3. CASE req.limit # 0
      <4>1. limit = req.limit
        BY <3>3
      <4>2. Newest(req, blocks) \in Int /\ top - 1 <= Newest(req, blocks)
        BY <2>4, LongestChain DEF Newest, top
      <4>3. n > Newest(req, blocks) - limit
        BY <2>3, <3>3, <4>1
      <4> HIDE DEF limit, start
      <4> QED
        BY <1>1, <1>2, <2>1, <3>1, <4>2, <4>3
    <3> QED
      BY <3>2, <3>3
  <2>5. CASE req.start # 0
    <3>1. start = req.start /\ Newest(req, blocks) = req.start
      BY <2>5 DEF Newest
    <3>2. \/ limit = start - low + 1
          \/ limit = req.limit /\ req.limit # 0
      BY <1>1
    <3> HIDE DEF limit, start
    <3> QED
      BY <1>1, <1>2, <2>1, <2>2, <2>3, <3>1, <3>2
  <2> QED
    BY <2>4, <2>5
<1>4. default_range(req, state(b, CONFIG_ADDRESS)) = blocks_range(start, limit)
  BY DEF default_range
<1> HIDE DEF start, limit
<1> QED
  BY <1>2, <1>3, <1>4, LoopStart

(* A block that is found is added, and it is the one that was due.         *)
LEMMA LoopFound ==
    ASSUME NEW req, NEW blocks \in SUBSET Chains, NEW b \in blocks, b \in Blocks,
           NEW l, LoopInv(l, req, blocks),
           state(b, create_block_address(l.i)) # None
    PROVE  LoopInv([i |-> l.i + 1, stop |-> l.stop,
                    blocks |-> Append(l.blocks,
                        interpret_block_info(l.i, state(b, create_block_address(l.i))))],
                   req, blocks)
<1> DEFINE d == state(b, create_block_address(l.i))
           e == interpret_block_info(l.i, d)
           s == l.blocks
           t == Append(s, e)
           m == [i |-> l.i + 1, stop |-> l.stop, blocks |-> t]
           i == l.i
<1>1. l \in Loops /\ i \in Nat /\ l.stop \in Int /\ s \in Seq(Info)
  <2>1. l \in Loops /\ l.i >= 0
    BY DEF LoopInv
  <2>2. l.i \in Int /\ l.stop \in Int /\ l.blocks \in Seq(Info)
    BY <2>1, LoopType
  <2> QED
    BY <2>1, <2>2
<1>2. d \in Blocks /\ Len(d) = i + 1 /\ IsPrefix(d, b)
  BY <1>1, BlockState
<1>3. d \in Seq(Contents) /\ Len(d) - 1 = i
  BY <1>1, <1>2, BlockType
<1> HIDE DEF d
<1>4. e = [block_number |-> i + 1, header_signature |-> d,
           previous_header_signature |-> SubSeq(d, 1, i)]
  BY <1>3 DEF interpret_block_info
<1>5. SubSeq(d, 1, i) \in Seq(Contents)
  <2>1. \A k \in 1..i : d[k] \in Contents
    <3>1. d \in [1..Len(d) -> Contents]
      BY <1>3, LenProperties
    <3>2. 1..i \subseteq 1..Len(d)
      BY <1>1, <1>2
    <3> QED
      BY <3>1, <3>2
  <2>2. 1 \in Int /\ i \in Int
    BY <1>1
  <2> HIDE DEF i
  <2> QED
    BY <2>1, <2>2, SubSeqProperties, Zenon
<1> HIDE DEF e
<1>6. e \in Info /\ e.block_number = i + 1 /\ OnChain(e, blocks)
  BY <1>1, <1>2, <1>3, <1>4, <1>5 DEF OnChain, Info
<1> DEFINE k == Len(s)
<1>7. /\ t \in Seq(Info) /\ Len(t) = k + 1 /\ k \in Nat
      /\ \A j \in 1..k : t[j] = s[j]
      /\ t[k + 1] = e
  BY <1>1, <1>6, LenProperties, AppendProperties
<1> HIDE DEF t, k, s
<1>8. /\ \A j, h \in 1..k : j < h => s[j].block_number < s[h].block_number
      /\ \A j \in 1..k : s[j].block_number <= i /\ OnChain(s[j], blocks)
      /\ \A n \in Due(req, blocks) :
            /\ n <= l.stop
            /\ n <= i => \E j \in 1..k : s[j].block_number = n
  BY DEF LoopInv, s, k
<1> HIDE DEF i
<1>9. \A j \in 1..k : s[j].block_number \in Int
  BY <1>1, LoopType DEF k, s
<1>10. ASSUME NEW j \in 1..(k + 1), NEW h \in 1..(k + 1), j < h
       PROVE  t[j].block_number < t[h].block_number
  <2>1. j \in 1..k /\ t[j] = s[j]
    BY <1>7, <1>10
  <2>2. CASE h = k + 1
    BY <1>1, <1>6, <1>7, <1>8, <1>9, <2>1, <2>2
  <2>3. CASE h # k + 1
    <3>1. h \in 1..k /\ t[h] = s[h]
      BY <1>7, <2>3
    <3> QED
      BY <1>8, <1>10, <2>1, <3>1
  <2> QED
    BY <2>2, <2>3
<1>11. ASSUME NEW j \in 1..(k + 1)
       PROVE  t[j].block_number <= i + 1 /\ OnChain(t[j], blocks)
  <2>1. CASE j = k + 1
    BY <1>1, <1>6, <1>7, <2>1
  <2>2. CASE j # k + 1
    <3>1. j \in 1..k /\ t[j] = s[j]
      BY <1>7, <2>2
    <3> QED
      BY <1>1, <1>8, <1>9, <3>1
  <2> QED
    BY <2>1, <2>2
<1>12. ASSUME NEW n \in Due(req, blocks)
       PROVE  /\ n <= l.stop
              /\ n <= i + 1 => \E j \in 1..(k + 1) : t[j].block_number = n
  <2>1. n \in Int
    BY RouterAssumption DEF Due
  <2>2. CASE n = i + 1
    BY <1>6, <1>7, <1>8, <2>2
  <2>3. CASE n # i + 1
    <3>1. ASSUME n <= i + 1
          PROVE  \E j \in 1..(k + 1) : t[j].block_number = n
      <4>1. n <= i
        BY <1>1, <2>1, <2>3, <3>1
      <4>2. PICK j \in 1..k : s[j].block_number = n
        BY <1>8, <4>1
      <4>3. j \in 1..(k + 1) /\ t[j] = s[j]
        BY <1>7
      <4> QED
        BY <4>2, <4>3
    <3> QED
      BY <1>8, <3>1
  <2> QED
    BY <2>2, <2>3
<1>13. m \in Loops /\ m.i >= 0 /\ m.i = i + 1 /\ m.stop = l.stop /\ m.blocks = t
  BY <1>1, <1>7 DEF Loops, Info, i
<1>14. LoopInv(m, req, blocks)
  <2> HIDE DEF m
  <2> QED
    BY <1>7, <1>10, <1>11, <1>12, <1>13 DEF LoopInv
<1> QED
  BY <1>14 DEF t, s, e, d

(* A block that is not there is skipped, and was not due.                  *)
LEMMA LoopSkipped ==
    ASSUME NEW req, NEW blocks \in SUBSET Chains, NEW b \in blocks, b \in Blocks,
           NEW l, LoopInv(l, req, blocks),
           state(b, create_block_address(l.i)) = None
    PROVE  LoopInv(next_block(l), req, blocks)
<1> DEFINE m == next_block(l)
<1>1. /\ l \in Loops /\ l.i \in Nat
      /\ l = [i |-> l.i, stop |-> l.stop, blocks |-> l.blocks]
  BY DEF LoopInv, Loops
<1>2. /\ m \in Loops /\ m.i = l.i + 1 /\ m.i >= 0
      /\ m.stop = l.stop /\ m.blocks = l.blocks
  <2>1. m = [i |-> l.i + 1, stop |-> l.stop, blocks |-> l.blocks]
    BY <1>1 DEF next_block
  <2>2. l.i + 1 \in Nat /\ l.stop \in Int /\ l.blocks \in Seq(Info)
    BY <1>1, LoopType
  <2> HIDE DEF m
  <2> QED
    BY <2>1, <2>2 DEF Loops, Info
<1> HIDE DEF m
<1>3. ASSUME NEW n \in Due(req, blocks)
      PROVE  n # l.i + 1 /\ n \in Int
  <2>1. n \in Recorded(b)
    BY DEF Due
  <2>2. n \in Nat /\ n - 1 \in oldest_block(b)..latest_block(b)
    BY <2>1, RecordedBound
  <2>3. l.i \notin oldest_block(b)..latest_block(b)
    BY <1>1, BlockState
  <2> QED
    BY <1>1, <2>2, <2>3
<1>4. ASSUME NEW j \in 1..Len(l.blocks)
      PROVE  l.blocks[j].block_number <= l.i + 1
  <2>1. l.blocks[j].block_number <= l.i
    BY DEF LoopInv
  <2>2. l.blocks[j].block_number \in Int
    BY <1>1, LoopType
  <2> QED
    BY <1>1, <2>1, <2>2
<1>5. \A n \in Due(req, blocks) : n <= l.i + 1 => n <= l.i
  BY <1>1, <1>3
<1>6. LoopInv(m, req, blocks)
  BY <1>2, <1>4, <1>5 DEF LoopInv
<1> QED
  BY <1>6 DEF m

(* At the end of the loop nothing is missing, and Reverse puts the newest  *)
(* block first.                                                            *)
LEMMA LoopEnd ==
    ASSUME NEW req, NEW blocks, NEW l, LoopInv(l, req, blocks), ~(l.i < l.stop)
    PROVE  BlocksRight(Reverse(l.blocks), req, blocks)
<1> DEFINE s == l.blocks
           k == Len(s)
           t == Reverse(s)
<1>1. l \in Loops /\ l.i \in Int /\ l.stop \in Int /\ k \in Nat
  <2>1. l \in Loops
    BY DEF LoopInv
  <2> QED
    BY <2>1, LoopType
<1>2. t = [j \in 1..k |-> s[(k - j) + 1]]
  BY DEF Reverse
<1>3. Len(t) = k
  BY <1>1, <1>2
<1>4. /\ \A j, h \in 1..k : j < h => s[j].block_number < s[h].block_number
      /\ \A j \in 1..k : s[j].block_number \in Int /\ OnChain(s[j], blocks)
      /\ \A n \in Due(req, blocks) : \E j \in 1..k : s[j].block_number = n
  <2>1. \A j \in 1..k : s[j].block_number \in Int
    BY <1>1, LoopType
  <2>2. ASSUME NEW n \in Due(req, blocks)
        PROVE  n <= l.i
    <3>1. n \in Int /\ n <= l.stop
      BY RouterAssumption DEF Due, LoopInv
    <3> QED
      BY <1>1, <3>1
  <2> QED
    BY <2>1, <2>2 DEF LoopInv
<1> HIDE DEF k, s, t
<1>5. ASSUME NEW j \in 1..k
      PROVE  (k - j) + 1 \in 1..k /\ t[j] = s[(k - j) + 1]
  BY <1>1, <1>2
<1>6. ASSUME NEW j \in 1..k, NEW h \in 1..k, j < h
      PROVE  t[j].block_number > t[h].block_number
  <2>1. (k - h) + 1 < (k - j) + 1
    BY <1>1, <1>6
  <2>2. s[(k - h) + 1].block_number < s[(k - j) + 1].block_number
    BY <1>4, <1>5, <2>1
  <2> QED
    BY <1>4, <1>5, <2>2
<1>7. ASSUME NEW n \in Due(req, blocks)
      PROVE  \E j \in 1..k : t[j].block_number = n
  <2>1. PICK j \in 1..k : s[j].block_number = n
    BY <1>4
  <2>2. (k - j) + 1 \in 1..k /\ (k - ((k - j) + 1)) + 1 = j
    BY <1>1
  <2> QED
    BY <1>5, <2>1, <2>2
<1>8. BlocksRight(t, req, blocks)
  <2>1. \A j \in 1..k : OnChain(t[j], blocks)
    BY <1>4, <1>5
  <2> QED
    BY <1>3, <1>6, <1>7, <2>1 DEF BlocksRight
<1> QED
  BY <1>8 DEF s, t

-----------------------------------------------------------------------------
(* A step of one request.                                                  *)
Moves(r, place, req, m, h, l, a, blocks, fault) ==
    /\ pc' = [pc EXCEPT ![r] = place]
    /\ request' = [request EXCEPT ![r] = req]
    /\ msg' = [msg EXCEPT ![r] = m]
    /\ head_id' = [head_id EXCEPT ![r] = h]
    /\ loop' = [loop EXCEPT ![r] = l]
    /\ answer' = [answer EXCEPT ![r] = a]
    /\ seen' = [seen EXCEPT ![r] = blocks]
    /\ failed' = [failed EXCEPT ![r] = fault]
    /\ head' = head
    /\ status' \in [Batches -> {"UNKNOWN", "PENDING", "COMMITTED", "INVALID"}]

(* It keeps the invariant if the request ends up in a proper place.        *)
LEMMA MoveKeeps ==
    ASSUME Inv, NEW r \in Requests,
           NEW place, NEW req, NEW m, NEW h, NEW l, NEW a, NEW blocks, NEW fault,
           Moves(r, place, req, m, h, l, a, blocks, fault),
           RequestOK(place, req, m, h, l, a, blocks, fault, head)
    PROVE  Inv'
<1>1. /\ req \in Params \cup {None} /\ m \in Messages \cup {None}
      /\ h \in Blocks \cup {None} /\ l \in Loops \cup {None}
      /\ blocks \in SUBSET Seq(Contents) /\ fault \in BOOLEAN
      /\ place \in {"new", "head", "state", "call", "submit", "done"}
      /\ place = "call" => m.id # Malformed
  BY ChainType DEF RequestOK
<1>2. /\ pc \in [Requests -> {"new", "head", "state", "call", "submit", "done"}]
      /\ request \in [Requests -> Params \cup {None}]
      /\ msg \in [Requests -> Messages \cup {None}]
      /\ head_id \in [Requests -> Blocks \cup {None}]
      /\ loop \in [Requests -> Loops \cup {None}]
      /\ answer = [q \in Requests |-> answer[q]]
      /\ seen \in [Requests -> SUBSET Seq(Contents)]
      /\ failed \in [Requests -> BOOLEAN]
      /\ \A q \in Requests : pc[q] = "call" => msg[q].id # Malformed
  BY DEF Inv, TypeOK
<1>3. /\ pc' \in [Requests -> {"new", "head", "state", "call", "submit", "done"}]
      /\ request' \in [Requests -> Params \cup {None}]
      /\ msg' \in [Requests -> Messages \cup {None}]
      /\ head_id' \in [Requests -> Blocks \cup {None}]
      /\ loop' \in [Requests -> Loops \cup {None}]
      /\ seen' \in [Requests -> SUBSET Seq(Contents)]
      /\ failed' \in [Requests -> BOOLEAN]
  BY <1>1, <1>2 DEF Moves
<1>4. answer' = [q \in Requests |-> answer'[q]]
  BY <1>2 DEF Moves
<1>5. head' = head /\ head' \in Chains /\ head' \in Seq(Contents)
  BY ChainType DEF Inv, Moves
<1>6. /\ pc'[r] = place /\ request'[r] = req /\ msg'[r] = m /\ head_id'[r] = h
      /\ loop'[r] = l /\ answer'[r] = a /\ seen'[r] = blocks /\ failed'[r] = fault
  BY <1>2 DEF Moves
<1>7. ASSUME NEW q \in Requests, q # r
      PROVE  /\ pc'[q] = pc[q] /\ request'[q] = request[q] /\ msg'[q] = msg[q]
             /\ head_id'[q] = head_id[q] /\ loop'[q] = loop[q] /\ answer'[q] = answer[q]
             /\ seen'[q] = seen[q] /\ failed'[q] = failed[q]
  BY <1>2, <1>7 DEF Moves
<1>8. \A q \in Requests : RequestInv(q)'
  <2>1. RequestInv(r)'
    BY <1>5, <1>6 DEF RequestInv
  <2>2. ASSUME NEW q \in Requests, q # r
        PROVE  RequestInv(q)'
    <3>1. RequestInv(q)
      BY DEF Inv
    <3> QED
      BY <1>5, <1>7, <2>2, <3>1 DEF RequestInv
  <2> QED
    BY <2>1, <2>2
<1>9. \A q \in Requests : pc'[q] = "call" => msg'[q].id # Malformed
  <2>1. ASSUME NEW q \in Requests
        PROVE  pc'[q] = "call" => msg'[q].id # Malformed
    <3>1. CASE q = r
      BY <1>1, <1>6, <3>1
    <3>2. CASE q # r
      BY <1>2, <1>7, <3>2
    <3> QED
      BY <3>1, <3>2
  <2> QED
    BY <2>1
<1>10. TypeOK'
  BY <1>3, <1>5, <1>9 DEF TypeOK, Moves
<1> QED
  BY <1>4, <1>5, <1>8, <1>10 DEF Inv

(* The values of one request, and that an update by the same value is none.*)
LEMMA Values ==
    ASSUME Inv, NEW r \in Requests
    PROVE  /\ RequestOK(pc[r], request[r], msg[r], head_id[r], loop[r], answer[r], seen[r],
                        failed[r], head)
           /\ pc = [pc EXCEPT ![r] = pc[r]]
           /\ request = [request EXCEPT ![r] = request[r]]
           /\ msg = [msg EXCEPT ![r] = msg[r]]
           /\ head_id = [head_id EXCEPT ![r] = head_id[r]]
           /\ loop = [loop EXCEPT ![r] = loop[r]]
           /\ answer = [answer EXCEPT ![r] = answer[r]]
           /\ seen = [seen EXCEPT ![r] = seen[r]]
           /\ failed = [failed EXCEPT ![r] = failed[r]]
           /\ status \in [Batches -> {"UNKNOWN", "PENDING", "COMMITTED", "INVALID"}]
           /\ head \in Chains
<1>1. /\ pc = [q \in Requests |-> pc[q]]
      /\ request = [q \in Requests |-> request[q]]
      /\ msg = [q \in Requests |-> msg[q]]
      /\ head_id = [q \in Requests |-> head_id[q]]
      /\ loop = [q \in Requests |-> loop[q]]
      /\ answer = [q \in Requests |-> answer[q]]
      /\ seen = [q \in Requests |-> seen[q]]
      /\ failed = [q \in Requests |-> failed[q]]
  BY DEF Inv, TypeOK
<1>2. RequestInv(r) /\ head \in Chains
      /\ status \in [Batches -> {"UNKNOWN", "PENDING", "COMMITTED", "INVALID"}]
  BY DEF Inv, TypeOK
<1> QED
  BY <1>1, <1>2 DEF RequestInv

(* What the methods are called with.                                       *)
LEMMA ParamTypes ==
    ASSUME NEW req \in Params
    PROVE  /\ req.method = "get_blocks" => BlocksRequest(req)
           /\ req.method \in StateMethods \cup ListMethods =>
                 req.head \in Blocks \cup {None, Malformed}
           /\ req.method \in FetchMethods => req.id \in Blocks \cup {Malformed}
           /\ req.method \in {"get_batch_status", "list_receipts", "send_raw_transaction"} =>
                 req.id \in Batches
BY ParamsAssumption DEF EntityMethods, StateMethods, ListMethods, FetchMethods, BlocksRequest

(* The block a method that reads the state asks for.                       *)
LEMMA AskedType ==
    ASSUME NEW req \in Params
    PROVE  /\ Asked(req) \in Blocks \cup {None, Malformed}
           /\ Asked(req) # None => req.method \in StateMethods
           /\ req.method \notin StateMethods => Asked(req) = None
BY ParamTypes DEF Asked

\* The addresses of the state.
StateAddresses == {ENTITY, CONFIG_ADDRESS, None} \cup ({"block_info"} \X Int)

(* Every request to the validator is one of Messages.                      *)
LEMMA MessageTypes ==
    /\ \A b \in Blocks \cup {None, Malformed} : head_to_root(b) \in Messages
    /\ \A b \in Blocks, a \in StateAddresses : fetch_state(b, a) \in Messages
    /\ \A b \in Blocks \cup {None, Malformed} : message("block_list", b, None) \in Messages
    /\ \A b \in Batches : /\ message("batch_status", b, None) \in Messages
                          /\ message("receipt_get", b, None) \in Messages
                          /\ message("batch_submit", b, None) \in Messages
    /\ message("peers_get", None, None) \in Messages
BY DEF Messages, head_to_root, fetch_state, message, StateAddresses

(* No negative number gets into an address.                                *)
LEMMA AddressType ==
    ASSUME NEW req \in Params, NEW l \in Loops \cup {None}, NEW blocks, ReadInv(req, l, blocks)
    PROVE  LET a == AddressOf(req, l)
           IN  /\ a \in StateAddresses
               /\ a[1] = "block_info" => a[2] \in Nat
<1>1. ENTITY[1] # "block_info" /\ CONFIG_ADDRESS[1] # "block_info"
  BY DEF ENTITY, CONFIG_ADDRESS
<1>2. CASE req.method = "get_blocks" /\ l # None
  <2>1. LoopInv(l, req, blocks)
    BY <1>2 DEF ReadInv
  <2>2. l.i \in Nat
    BY <2>1, LoopType DEF LoopInv
  <2>3. AddressOf(req, l) = <<"block_info", l.i>>
    BY <1>2 DEF AddressOf, create_block_address
  <2> QED
    BY <2>2, <2>3 DEF StateAddresses
<1>3. CASE ~(req.method = "get_blocks" /\ l # None)
  <2>1. AddressOf(req, l) \in {ENTITY, CONFIG_ADDRESS}
    BY <1>3 DEF AddressOf
  <2> QED
    BY <1>1, <2>1 DEF StateAddresses
<1> QED
  BY <1>2, <1>3

(* A request that is under way takes a new block into account.             *)
LEMMA NewTop ==
    ASSUME NEW place, NEW req, NEW m, NEW h, NEW l, NEW a, NEW blocks, NEW fault, NEW top,
           RequestOK(place, req, m, h, l, a, blocks, fault, top), NEW new \in Chains
    PROVE  RequestOK(place, req, m, h, l, a,
                     IF place \notin {"new", "done"} THEN blocks \cup {new} ELSE blocks,
                     fault, new)
<1>1. CASE place \in {"new", "done"}
  BY <1>1 DEF RequestOK
<1>2. CASE place \notin {"new", "done"}
  <2>1. req \in Params /\ top \in blocks /\ blocks \in SUBSET Chains
    BY <1>2 DEF RequestOK
  <2>2. ReadInv(req, l, blocks) => ReadInv(req, l, blocks \cup {new})
    BY <2>1, LoopMore, ParamTypes DEF ReadInv
  <2>3. blocks \cup {new} \in SUBSET Chains /\ new \in blocks \cup {new}
    BY <2>1
  <2> QED
    BY <1>2, <2>2, <2>3 DEF RequestOK
<1> QED
  BY <1>1, <1>2

(* The chain's own steps.                                                  *)
LEMMA ChainKeeps ==
    ASSUME Inv, ChainMoves
    PROVE  Inv'
<1>1. head \in Chains /\ status \in [Batches -> {"UNKNOWN", "PENDING", "COMMITTED", "INVALID"}]
  BY DEF Inv, TypeOK
<1>2. /\ head' \in Chains
      /\ status' \in [Batches -> {"UNKNOWN", "PENDING", "COMMITTED", "INVALID"}]
  <2>1. CASE \E block \in Blocks : NewHead(block)
    BY <1>1, <2>1 DEF NewHead, Chains
  <2>2. CASE \E batch \in Batches, outcome \in {"COMMITTED", "INVALID"} :
               BatchSettles(batch, outcome)
    BY <1>1, <2>2 DEF BatchSettles
  <2> QED
    BY <2>1, <2>2 DEF ChainMoves
<1>3. /\ UNCHANGED <<pc, request, msg, head_id, loop, answer, failed>>
      /\ seen' = [q \in Requests |-> IF Under_way(q) THEN seen[q] \cup {head'} ELSE seen[q]]
  BY DEF ChainMoves, requestVars
<1>4. \A q \in Requests : RequestInv(q)'
  <2>1. ASSUME NEW q \in Requests
        PROVE  RequestInv(q)'
    <3>1. RequestInv(q)
      BY DEF Inv
    <3>2. RequestOK(pc[q], request[q], msg[q], head_id[q], loop[q], answer[q],
                    IF pc[q] \notin {"new", "done"} THEN seen[q] \cup {head'} ELSE seen[q],
                    failed[q], head')
      BY <1>2, <3>1, NewTop DEF RequestInv
    <3>3. seen'[q] = IF pc[q] \notin {"new", "done"} THEN seen[q] \cup {head'} ELSE seen[q]
      BY <1>3 DEF Under_way
    <3> QED
      BY <1>3, <3>2, <3>3 DEF RequestInv
  <2> QED
    BY <2>1
<1>5. head' \in Seq(Contents)
  BY <1>2, ChainType
<1>6. seen' \in [Requests -> SUBSET Seq(Contents)]
  BY <1>3, <1>5 DEF Inv, TypeOK
<1>7. TypeOK'
  BY <1>2, <1>3, <1>5, <1>6 DEF Inv, TypeOK
<1> QED
  BY <1>2, <1>3, <1>4, <1>7 DEF Inv

-----------------------------------------------------------------------------
(* An error that is not a missing entry claims nothing about the chain.    *)
LEMMA ErrorRight ==
    ASSUME NEW req, NEW blocks, NEW fault, NEW error,
           error \notin {"result", "KeyNotFound"}
    PROVE  Right(req, [kind |-> error, value |-> None, head |-> None], blocks, fault)
BY DEF Right

(* A new request is refused.                                               *)
LEMMA RefusedKeeps ==
    ASSUME Inv, NEW r \in Requests, NEW p \in Params, Received(r, p),
           NEW error, Raise(r, error), error \notin {"result", "KeyNotFound"}
    PROVE  Inv'
<1> DEFINE a == [kind |-> error, value |-> None, head |-> None]
<1>1. Moves(r, "done", p, None, head_id[r], loop[r], a, {head}, failed[r])
  BY Values DEF Moves, Received, Raise, chainVars
<1>2. Right(p, a, {head}, failed[r])
  BY ErrorRight
<1> HIDE DEF a
<1>3. RequestOK("done", p, None, head_id[r], loop[r], a, {head}, failed[r], head)
  BY <1>2, Values DEF RequestOK
<1> QED
  BY <1>1, <1>3, MoveKeeps

(* A new request makes its first call.                                     *)
LEMMA FirstCallKeeps ==
    ASSUME Inv, NEW r \in Requests, NEW p \in Params, Received(r, p),
           NEW place, NEW m \in Messages, Await(r, place, m),
           \/ place = "head" /\ p.method \in ReadMethods /\ m = head_to_root(Asked(p))
           \/ /\ place = "call" /\ p.method \notin ReadMethods /\ m.id # Malformed
              /\ p.method \in FetchMethods => p.id \in Blocks /\ m = head_to_root(p.id)
           \/ /\ place = "submit" /\ p.method = "send_raw_transaction"
              /\ m = message("batch_submit", p.id, None)
    PROVE  Inv'
<1>1. loop[r] = None /\ answer[r] = NoAnswer
  BY Values DEF Received, RequestOK
<1>2. Moves(r, place, p, m, head_id[r], loop[r], answer[r], {head}, failed[r])
  BY Values DEF Moves, Received, Await, chainVars
<1>3. ReadInv(p, loop[r], {head}) <=> p.method \in ReadMethods
  BY <1>1 DEF ReadInv
<1>4. RequestOK(place, p, m, head_id[r], loop[r], answer[r], {head}, failed[r], head)
  BY <1>1, <1>3, Values DEF RequestOK
<1> QED
  BY <1>2, <1>4, MoveKeeps

(* The loop of get_blocks_info goes on, or returns.                        *)
LEMMA LoopKeeps ==
    ASSUME Inv, NEW r \in Requests, NEW req \in Params, req.method = "get_blocks",
           NEW l, NEW blocks \in SUBSET Chains, head \in blocks, LoopInv(l, req, blocks),
           NEW h \in Blocks \cup {None}, NEW fault \in BOOLEAN,
           answer[r] = NoAnswer, get_block_info(r, l),
           request' = [request EXCEPT ![r] = req], seen' = [seen EXCEPT ![r] = blocks],
           head_id' = [head_id EXCEPT ![r] = h], failed' = [failed EXCEPT ![r] = fault],
           UNCHANGED chainVars
    PROVE  Inv'
<1>1. l \in Loops /\ loop' = [loop EXCEPT ![r] = l]
  BY DEF LoopInv, get_block_info
<1>2. req.method \in ReadMethods /\ req.method \notin StateMethods /\ Asked(req) = None
  BY DEF ReadMethods, StateMethods, Asked
<1>3. CASE l.i < l.stop
  <2>1. Moves(r, "head", req, head_to_root(None), h, l, answer[r], blocks, fault)
    BY <1>1, <1>3, Values DEF Moves, get_block_info, get_value, Await, chainVars
  <2>2. head_to_root(None) \in Messages
    BY MessageTypes
  <2>3. RequestOK("head", req, head_to_root(None), h, l, answer[r], blocks, fault, head)
    BY <1>1, <1>2, <2>2 DEF RequestOK, ReadInv
  <2> QED
    BY <2>1, <2>3, MoveKeeps
<1>4. CASE ~(l.i < l.stop)
  <2> DEFINE a == [kind |-> "result", value |-> Reverse(l.blocks), head |-> None]
  <2>1. Moves(r, "done", req, None, h, l, a, blocks, fault)
    BY <1>1, <1>4, Values DEF Moves, get_block_info, Return, chainVars
  <2>2. BlocksRight(a.value, req, blocks)
    BY <1>4, LoopEnd
  <2>3. a.kind = "result"
    OBVIOUS
  <2> HIDE DEF a
  <2>4. Right(req, a, blocks, fault)
    BY <1>2, <2>2, <2>3 DEF Right, EntityMethods
  <2>5. RequestOK("done", req, None, h, l, a, blocks, fault, head)
    BY <1>1, <2>4 DEF RequestOK
  <2> QED
    BY <2>1, <2>5, MoveKeeps
<1> QED
  BY <1>3, <1>4

(* Every method begins properly.                                           *)
LEMMA CallKeeps ==
    ASSUME Inv, NEW r \in Requests, NEW p \in Params, Call(r, p)
    PROVE  Inv'
<1>n. None \in Blocks \cup {None, Malformed} /\ head_to_root(None) \in Messages
  BY MessageTypes
<1>b. {None, Malformed} \cap (Blocks \cup Batches) = {} /\ None # Malformed
  BY RouterAssumption
<1>m. /\ \A b : message("get", b, None).id = b /\ message("block_list", b, None).id = b
      /\ \A b : /\ message("batch_status", b, None).id = b
                /\ message("receipt_get", b, None).id = b
                /\ message("peers_get", b, None).id = b
  BY DEF message
<1>1. CASE validate_params(r, p)
  BY <1>1, RefusedKeeps DEF validate_params
<1>2. ASSUME Received(r, p), get_value(r), p.method \in ReadMethods, p.method \notin StateMethods
      PROVE  Inv'
  <2>1. Asked(p) = None
    BY <1>2 DEF Asked
  <2> QED
    BY <1>2, <1>n, <2>1, FirstCallKeeps DEF get_value
<1>3. CASE get_balance(r, p) \/ get_public_key_info(r, p) \/ get_atomic_swap_info(r, p)
             \/ get_block_number(r, p)
  BY <1>2, <1>3 DEF get_balance, get_public_key_info, get_atomic_swap_info, get_block_number,
                    ReadMethods, EntityMethods, StateMethods
<1>4. CASE rpc_fetch_state(r, p) \/ rpc_list_state(r, p)
  <2>1. Received(r, p) /\ p.method \in StateMethods
    BY <1>4 DEF rpc_fetch_state, rpc_list_state, StateMethods
  <2>2. p.method \in ReadMethods /\ Asked(p) = p.head /\ head_to_root(p.head) \in Messages
    BY <2>1, ParamTypes, MessageTypes DEF ReadMethods, Asked
  <2>3. Await(r, "head", head_to_root(p.head)) \/ Raise(r, "CountInvalid")
    BY <1>4 DEF rpc_fetch_state, rpc_list_state
  <2> QED
    BY <2>1, <2>2, <2>3, FirstCallKeeps, RefusedKeeps
<1>5. CASE list_resources(r, p)
  <2>1. Received(r, p) /\ p.method \in ListMethods
    BY <1>5 DEF list_resources
  <2>2. p.method \notin ReadMethods /\ p.method \notin FetchMethods
    BY <2>1 DEF ListMethods, ReadMethods, EntityMethods, StateMethods, FetchMethods
  <2>3. CASE Raise(r, "CountInvalid") \/ Raise(r, "InvalidResourceId")
    BY <2>1, <2>3, RefusedKeeps
  <2>4. CASE Await(r, "call", message("block_list", p.head, None)) /\ get_head_id(p.head)
    <3>1. message("block_list", p.head, None) \in Messages
      BY <2>1, ParamTypes, MessageTypes
    <3>2. p.head # Malformed
      BY <1>b, <2>4 DEF get_head_id, validate_id
    <3> QED
      BY <1>m, <2>1, <2>2, <2>4, <3>1, <3>2, FirstCallKeeps
  <2> QED
    BY <1>5, <2>3, <2>4 DEF list_resources
<1>6. CASE fetch_resource(r, p)
  <2>1. Received(r, p) /\ p.method \in FetchMethods
    BY <1>6 DEF fetch_resource
  <2>2. p.method \notin ReadMethods
    BY <2>1 DEF ReadMethods, EntityMethods, StateMethods, FetchMethods
  <2>3. CASE Raise(r, "InvalidResourceId")
    BY <2>1, <2>3, RefusedKeeps
  <2>4. CASE Await(r, "call", message("get", p.id, None)) /\ validate_id(p.id)
    <3>1. p.id \in Blocks
      BY <2>1, <2>4, ParamTypes DEF validate_id
    <3>2. message("get", p.id, None) = head_to_root(p.id) /\ p.id # Malformed
      BY <1>b, <3>1 DEF head_to_root
    <3>3. message("get", p.id, None) \in Messages
      BY <3>1, <3>2, MessageTypes
    <3> QED
      BY <1>m, <2>1, <2>2, <2>4, <3>1, <3>2, <3>3, FirstCallKeeps
  <2> QED
    BY <1>6, <2>3, <2>4 DEF fetch_resource
<1>7. CASE list_statuses(r, p) \/ list_receipts(r, p)
  <2>1. /\ Received(r, p) /\ p.method \in {"get_batch_status", "list_receipts"}
        /\ \/ Await(r, "call", message("batch_status", p.id, None))
           \/ Await(r, "call", message("receipt_get", p.id, None))
    BY <1>7 DEF list_statuses, list_receipts
  <2>2. p.method \notin ReadMethods /\ p.method \notin FetchMethods
    BY <2>1 DEF ReadMethods, EntityMethods, StateMethods, FetchMethods
  <2>3. p.id \in Batches /\ p.id # Malformed
    BY <1>b, <2>1, ParamTypes
  <2>4. /\ message("batch_status", p.id, None) \in Messages
        /\ message("receipt_get", p.id, None) \in Messages
    BY <2>3, MessageTypes
  <2> QED
    BY <1>m, <2>1, <2>2, <2>3, <2>4, FirstCallKeeps
<1>8. CASE fetch_peers(r, p)
  <2>1. p.method \notin ReadMethods /\ p.method \notin FetchMethods
    BY <1>8 DEF fetch_peers, ReadMethods, EntityMethods, StateMethods, FetchMethods
  <2> QED
    BY <1>8, <1>b, <1>m, <2>1, MessageTypes, FirstCallKeeps DEF fetch_peers
<1>9. CASE send_raw_transaction(r, p)
  <2>1. Received(r, p) /\ p.method = "send_raw_transaction"
    BY <1>9 DEF send_raw_transaction
  <2>2. message("batch_submit", p.id, None) \in Messages
    BY <2>1, ParamTypes, MessageTypes
  <2>3. \/ Raise(r, "RpcGenericServerDefinedError")
        \/ Await(r, "submit", message("batch_submit", p.id, None))
    BY <1>9 DEF send_raw_transaction
  <2> QED
    BY <2>1, <2>2, <2>3, FirstCallKeeps, RefusedKeeps
<1>10. CASE get_blocks(r, p)
  <2>1. /\ p.method = "get_blocks" /\ pc[r] = "new"
        /\ request' = [request EXCEPT ![r] = p] /\ seen' = [seen EXCEPT ![r] = {head}]
        /\ UNCHANGED <<chainVars, head_id, failed>>
    BY <1>10 DEF get_blocks
  <2>2. p.method \in ReadMethods /\ p.method \notin StateMethods
    BY <2>1 DEF ReadMethods, StateMethods
  <2>3. CASE p.start # 0 /\ p.limit # 0
    <3> DEFINE l == blocks_range(p.start, p.limit)
    <3>1. get_block_info(r, l)
      BY <1>10, <2>3 DEF get_blocks
    <3>2. LoopInv(l, p, {head})
      BY <2>1, <2>3, ParamTypes, LoopStartGiven
    <3>3. answer[r] = NoAnswer /\ head_id[r] \in Blocks \cup {None} /\ failed[r] \in BOOLEAN
      BY <2>1, Values DEF RequestOK
    <3>4. {head} \in SUBSET Chains /\ head \in {head}
      BY Values
    <3>5. /\ head_id' = [head_id EXCEPT ![r] = head_id[r]]
          /\ failed' = [failed EXCEPT ![r] = failed[r]]
      BY <2>1, Values
    <3> HIDE DEF l
    <3> QED
      BY <2>1, <3>1, <3>2, <3>3, <3>4, <3>5, LoopKeeps
  <2>4. CASE ~(p.start # 0 /\ p.limit # 0)
    <3>1. Received(r, p) /\ get_value(r)
      BY <1>10, <2>4 DEF get_blocks, Received
    <3> QED
      BY <1>2, <2>2, <3>1
  <2> QED
    BY <2>3, <2>4
<1> QED
  BY <1>1, <1>3, <1>4, <1>5, <1>6, <1>7, <1>8, <1>9, <1>10 DEF Call

-----------------------------------------------------------------------------
\* What a request that reads the state knows when its call is over.
ReadStep(r, fault) ==
    /\ pc[r] \in {"head", "state"}
    /\ failed' = [failed EXCEPT ![r] = fault]
    /\ UNCHANGED <<chainVars, request, seen>>

\* A block that was the newest meanwhile and has nothing at the address.
NothingThere(r) ==
    \E b \in seen[r] : b \in Blocks /\ state(b, AddressOf(request[r], loop[r])) = None

(* While a request reads the state.                                        *)
LEMMA ReadValues ==
    ASSUME Inv, NEW r \in Requests, pc[r] \in {"head", "state"}
    PROVE  /\ request[r] \in Params /\ ReadInv(request[r], loop[r], seen[r])
           /\ loop[r] \in Loops \cup {None} /\ answer[r] = NoAnswer
           /\ head \in seen[r] /\ seen[r] \in SUBSET Chains
           /\ head_id[r] \in Blocks \cup {None}
BY Values DEF RequestOK

(* get_value raised: an error is passed on as it is, and a missing entry   *)
(* becomes an empty result only where a block that was the newest has no   *)
(* such entry.                                                             *)
LEMMA RaisedKeeps ==
    ASSUME Inv, NEW r \in Requests, NEW fault \in BOOLEAN, ReadStep(r, fault),
           NEW error \in {"KeyNotFound", "ValidatorNotReadyException", "ClientException",
                          "KeyError"},
           get_value_raised(r, error), UNCHANGED head_id,
           error = "KeyNotFound" /\ Asked(request[r]) = None => NothingThere(r),
           Asked(request[r]) = None /\ ~fault => error = "KeyNotFound"
    PROVE  Inv'
<1> DEFINE req == request[r]
           l == loop[r]
           blocks == seen[r]
<1>1. /\ req \in Params /\ ReadInv(req, l, blocks)
      /\ l \in Loops \cup {None} /\ answer[r] = NoAnswer
      /\ head \in blocks /\ blocks \in SUBSET Chains /\ head_id[r] \in Blocks \cup {None}
  BY ReadValues DEF ReadStep
<1>2. /\ request' = [request EXCEPT ![r] = req] /\ seen' = [seen EXCEPT ![r] = blocks]
      /\ head_id' = [head_id EXCEPT ![r] = head_id[r]]
      /\ failed' = [failed EXCEPT ![r] = fault]
      /\ head' = head /\ status' = status
      /\ status \in [Batches -> {"UNKNOWN", "PENDING", "COMMITTED", "INVALID"}]
  BY Values DEF ReadStep, chainVars
<1>3. ASSUME NEW a, UNCHANGED loop, Right(req, a, blocks, fault),
             answer' = [answer EXCEPT ![r] = a],
             pc' = [pc EXCEPT ![r] = "done"], msg' = [msg EXCEPT ![r] = None]
      PROVE  Inv'
  <2>1. Moves(r, "done", req, None, head_id[r], l, a, blocks, fault)
    BY <1>2, <1>3, Values DEF Moves
  <2>2. RequestOK("done", req, None, head_id[r], l, a, blocks, fault, head)
    BY <1>1, <1>3 DEF RequestOK
  <2> HIDE DEF req, l, blocks
  <2> QED
    BY <2>1, <2>2, MoveKeeps
<1>4. CASE req.method = "get_blocks" /\ l = None
  <2> DEFINE a == [kind |-> "result", value |-> <<>>, head |-> None]
  <2>1. Return(r, <<>>, None) /\ UNCHANGED loop
    BY <1>4 DEF get_value_raised
  <2>2. ASSUME ~fault, NEW n \in Due(req, blocks)
        PROVE  FALSE
    <3>1. PICK b \in blocks : b \in Blocks /\ state(b, AddressOf(req, l)) = None
      BY <1>4, <2>2 DEF NothingThere, Asked, StateMethods
    <3>2. AddressOf(req, l) = CONFIG_ADDRESS
      BY <1>4 DEF AddressOf
    <3>3. Len(b) = 1
      BY <3>1, <3>2, ConfigState
    <3>4. n \in Recorded(b) /\ b \in Chains
      BY <1>1, <2>2 DEF Due
    <3>5. n >= 1 /\ n <= 1 - 1 /\ n \in Nat
      BY <3>3, <3>4, RecordedBound
    <3> QED
      BY <3>5
  <2>3. ~fault => BlocksRight(<<>>, req, blocks)
    <3>1. 1..Len(<<>>) = {}
      OBVIOUS
    <3> QED
      BY <2>2, <3>1 DEF BlocksRight
  <2>4. Right(req, a, blocks, fault)
    <3>1. req.method \notin StateMethods \cup EntityMethods \cup {"get_block_number"}
      BY <1>4 DEF StateMethods, EntityMethods
    <3>2. a.kind = "result" /\ a.value = <<>>
      OBVIOUS
    <3> HIDE DEF a, req, blocks
    <3> QED
      BY <2>3, <3>1, <3>2 DEF Right
  <2> QED
    BY <1>3, <2>1, <2>4 DEF Return
<1>5. CASE ~(req.method = "get_blocks" /\ l = None)
           /\ req.method = "get_blocks" /\ error = "KeyNotFound"
  <2>1. get_block_info(r, next_block(l))
    BY <1>5 DEF get_value_raised
  <2>2. AddressOf(req, l) = create_block_address(l.i) /\ Asked(req) = None
    BY <1>5 DEF AddressOf, Asked, StateMethods
  <2>3. PICK b \in blocks : b \in Blocks /\ state(b, create_block_address(l.i)) = None
    BY <1>5, <2>2 DEF NothingThere
  <2>4. LoopInv(next_block(l), req, blocks)
    BY <1>1, <1>5, <2>3, LoopSkipped DEF ReadInv
  <2>5. UNCHANGED chainVars
    BY DEF ReadStep
  <2> HIDE DEF req, l, blocks
  <2> QED
    BY <1>1, <1>2, <1>5, <2>1, <2>4, <2>5, LoopKeeps
<1>6. CASE req.method # "get_blocks" /\ except_key_not_found(req.method, error)
  <2> DEFINE a == [kind |-> "result", value |-> 0, head |-> None]
  <2>1. Return(r, 0, None) /\ UNCHANGED loop
    BY <1>6 DEF get_value_raised
  <2>2. /\ req.method \in {"get_balance", "get_public_keys_list", "get_block_number"}
        /\ error = "KeyNotFound"
    BY <1>6 DEF except_key_not_found
  <2>3. Asked(req) = None
    BY <2>2 DEF Asked, StateMethods
  <2>4. PICK b \in blocks : b \in Blocks /\ state(b, AddressOf(req, l)) = None
    BY <2>2, <2>3 DEF NothingThere
  <2>5. 0 = Held(req.method, b)
    <3>1. CASE req.method = "get_block_number"
      <4>1. Len(b) = 1 /\ b # <<>>
        BY <2>4, <3>1, ConfigState DEF AddressOf
      <4> QED
        BY <3>1, <4>1 DEF Held
    <3>2. CASE req.method # "get_block_number"
      BY <2>2, <2>4, <3>2, EntityState DEF AddressOf, Held
    <3> QED
      BY <3>1, <3>2
  <2>6. Right(req, a, blocks, fault)
    <3>1. req.method \notin StateMethods \cup {"get_blocks"} /\ ~without_payload(req)
      BY <2>2 DEF StateMethods, without_payload
    <3>2. a.kind = "result" /\ a.value = 0
      OBVIOUS
    <3> HIDE DEF a, req, blocks
    <3> QED
      BY <2>5, <3>1, <3>2 DEF Right
  <2> QED
    BY <1>3, <2>1, <2>6 DEF Return
<1>7. CASE /\ ~(req.method = "get_blocks" /\ l = None)
           /\ ~(req.method = "get_blocks" /\ error = "KeyNotFound")
           /\ ~except_key_not_found(req.method, error)
  <2> DEFINE a == [kind |-> error, value |-> None, head |-> None]
  <2>1. Raise(r, error) /\ UNCHANGED loop
    BY <1>7 DEF get_value_raised
  <2>2. CASE error # "KeyNotFound"
    <3>1. Right(req, a, blocks, fault)
      BY <2>2, ErrorRight
    <3> QED
      BY <1>3, <2>1, <3>1 DEF Raise
  <2>3. CASE error = "KeyNotFound"
    <3>1. req.method \in ReadMethods /\ req.method \notin {"get_block_number", "get_blocks"}
      BY <1>1, <1>7, <2>3 DEF except_key_not_found, ReadInv
    <3>2. CASE req.method \in StateMethods
      <4>1. a.kind = "KeyNotFound" /\ req.method \notin EntityMethods \cup FetchMethods
        BY <2>3, <3>2 DEF StateMethods, EntityMethods, FetchMethods
      <4> HIDE DEF a, req, blocks
      <4>2. Right(req, a, blocks, fault)
        BY <3>1, <4>1 DEF Right
      <4> QED
        BY <1>3, <2>1, <4>2 DEF Raise, a
    <3>3. CASE req.method \notin StateMethods
      <4>1. PICK b \in blocks : b \in Blocks /\ state(b, AddressOf(req, l)) = None
        BY <2>3, <3>3 DEF NothingThere, Asked
      <4>2. writes(b) = 0
        BY <3>1, <4>1, EntityState DEF AddressOf
      <4>3. a.kind = "KeyNotFound" /\ req.method \notin FetchMethods
        BY <2>3, <3>1 DEF ReadMethods, StateMethods, EntityMethods, FetchMethods
      <4> HIDE DEF a, req, blocks
      <4>4. Right(req, a, blocks, fault)
        BY <3>1, <4>2, <4>3 DEF Right
      <4> QED
        BY <1>3, <2>1, <4>4 DEF Raise, a
    <3> QED
      BY <3>2, <3>3
  <2> QED
    BY <2>2, <2>3
<1> QED
  BY <1>4, <1>5, <1>6, <1>7 DEF except_key_not_found

(* get_value returned: the answer is what the state holds at the block     *)
(* that was found, and a key is missing if the entry there is no key's.    *)
LEMMA ReturnedKeeps ==
    ASSUME Inv, NEW r \in Requests, NEW fault \in BOOLEAN, ReadStep(r, fault), pc[r] = "state",
           NEW data, data = state(head_id[r], AddressOf(request[r], loop[r])), data # None,
           get_value_returned(r, data), UNCHANGED head_id
    PROVE  Inv'
<1> DEFINE req == request[r]
           l == loop[r]
           blocks == seen[r]
           b == head_id[r]
<1>1. /\ req \in Params /\ ReadInv(req, l, blocks)
      /\ l \in Loops \cup {None} /\ answer[r] = NoAnswer
      /\ head \in blocks /\ blocks \in SUBSET Chains
      /\ b \in Blocks /\ IF Asked(req) = None THEN b \in blocks ELSE b = Asked(req)
  <2>1. /\ b \in Blocks
        /\ IF Asked(req) = None THEN b \in blocks ELSE b = Asked(req)
    BY Values DEF RequestOK
  <2> QED
    BY <2>1, ReadValues DEF ReadStep
<1>2. /\ request' = [request EXCEPT ![r] = req] /\ seen' = [seen EXCEPT ![r] = blocks]
      /\ head_id' = [head_id EXCEPT ![r] = b]
      /\ failed' = [failed EXCEPT ![r] = fault]
      /\ head' = head /\ status' = status /\ UNCHANGED chainVars
      /\ status \in [Batches -> {"UNKNOWN", "PENDING", "COMMITTED", "INVALID"}]
  BY Values DEF ReadStep, chainVars
<1>3. ASSUME NEW a, UNCHANGED loop, Right(req, a, blocks, fault),
             answer' = [answer EXCEPT ![r] = a],
             pc' = [pc EXCEPT ![r] = "done"], msg' = [msg EXCEPT ![r] = None]
      PROVE  Inv'
  <2>1. Moves(r, "done", req, None, b, l, a, blocks, fault)
    BY <1>2, <1>3, Values DEF Moves
  <2>2. RequestOK("done", req, None, b, l, a, blocks, fault, head)
    BY <1>1, <1>3 DEF RequestOK
  <2> HIDE DEF req, l, blocks, b
  <2> QED
    BY <2>1, <2>2, MoveKeeps
<1>4. CASE req.method = "get_blocks" /\ l = None
  <2>1. get_block_info(r, default_range(req, data))
    BY <1>4 DEF get_value_returned
  <2>2. data = state(b, CONFIG_ADDRESS) /\ Asked(req) = None
    BY <1>4 DEF AddressOf, Asked, StateMethods
  <2> HIDE DEF req, l, blocks, b
  <2>3. LoopInv(default_range(req, data), req, blocks)
    BY <1>1, <1>4, <2>2, ParamTypes, LoopStartDefault
  <2> QED
    BY <1>1, <1>2, <1>4, <2>1, <2>3, LoopKeeps
<1>5. CASE req.method = "get_blocks" /\ l # None
  <2> DEFINE k == [i |-> l.i + 1, stop |-> l.stop,
                   blocks |-> Append(l.blocks, interpret_block_info(l.i, data))]
  <2>1. get_block_info(r, k)
    BY <1>5 DEF get_value_returned
  <2>2. data = state(b, create_block_address(l.i)) /\ Asked(req) = None
    BY <1>5 DEF AddressOf, Asked, StateMethods
  <2>3. LoopInv(l, req, blocks)
    BY <1>1, <1>5 DEF ReadInv
  <2> HIDE DEF req, l, blocks, b
  <2>4. LoopInv(k, req, blocks)
    BY <1>1, <2>2, <2>3, LoopFound
  <2> HIDE DEF k
  <2> QED
    BY <1>1, <1>2, <1>5, <2>1, <2>4, LoopKeeps
<1>6. CASE req.method = "get_block_number"
  <2> DEFINE a == [kind |-> "result", value |-> data.latest_block + 1, head |-> None]
  <2>1. Return(r, data.latest_block + 1, None) /\ UNCHANGED loop
    BY <1>6 DEF get_value_returned
  <2>2. data = state(b, CONFIG_ADDRESS) /\ b \in blocks
    BY <1>1, <1>6 DEF AddressOf, Asked, StateMethods
  <2>3. data.latest_block + 1 = Held(req.method, b)
    <3> DEFINE k == Len(b)
    <3>1. k \in Nat /\ k >= 1 /\ data.latest_block = k - 2
      BY <1>1, <2>2, ConfigState
    <3>2. b # <<>>
      BY <3>1
    <3>3. Held(req.method, b) = k - 1
      BY <1>6, <3>2 DEF Held
    <3> HIDE DEF k, req, b
    <3> QED
      BY <3>1, <3>3
  <2>4. Right(req, a, blocks, fault)
    <3>1. req.method \notin StateMethods \cup {"get_blocks"} /\ ~without_payload(req)
      BY <1>6 DEF StateMethods, without_payload
    <3>2. a.kind = "result" /\ a.value = Held(req.method, b)
      BY <2>3
    <3> HIDE DEF a, req, blocks, b
    <3> QED
      BY <2>2, <3>1, <3>2 DEF Right
  <2> QED
    BY <1>3, <2>1, <2>4 DEF Return
<1>7. CASE req.method \notin {"get_blocks", "get_block_number"}
  <2>1. data = state(b, ENTITY) /\ data = writes(b) /\ writes(b) \in Nat
    <3>1. AddressOf(req, l) = ENTITY
      BY <1>7 DEF AddressOf
    <3> QED
      BY <1>1, <3>1, EntityState
  <2>2. CASE without_payload(req)
    <3> DEFINE a == [kind |-> "KeyNotFound", value |-> None, head |-> None]
    <3>1. Raise(r, "KeyNotFound") /\ UNCHANGED loop
      BY <1>7, <2>2 DEF get_value_returned
    <3>2. req.method \notin FetchMethods \cup StateMethods
      BY <2>2 DEF without_payload, FetchMethods, StateMethods
    <3>3. a.kind = "KeyNotFound"
      OBVIOUS
    <3>4. Right(req, a, blocks, fault)
      <4> HIDE DEF a, req, blocks
      <4> QED
        BY <1>7, <2>2, <3>2, <3>3 DEF Right
    <3> QED
      BY <1>3, <3>1, <3>4 DEF Raise
  <2>3. CASE ~without_payload(req)
    <3> DEFINE a == [kind |-> "result", value |-> data,
                     head |-> IF req.method \in StateMethods THEN b ELSE None]
    <3>1. /\ UNCHANGED loop
          /\ Return(r, data, IF req.method \in StateMethods THEN b ELSE None)
      BY <1>7, <2>3 DEF get_value_returned
    <3>2. /\ a.kind = "result" /\ a.value = data
          /\ req.method \in StateMethods => a.head = b
      OBVIOUS
    <3>3. CASE req.method \in StateMethods
      <4>1. req.method \notin EntityMethods \cup {"get_block_number", "get_blocks"}
        BY <3>3 DEF StateMethods, EntityMethods
      <4>2. IF req.head = None THEN b \in blocks ELSE b = req.head
        BY <1>1, <3>3 DEF Asked
      <4> HIDE DEF a, req, blocks, b
      <4>3. Right(req, a, blocks, fault)
        BY <2>1, <3>2, <3>3, <4>1, <4>2 DEF Right
      <4> QED
        BY <1>3, <3>1, <4>3 DEF Return, a
    <3>4. CASE req.method \notin StateMethods
      <4>1. b \in blocks
        BY <1>1, <3>4 DEF Asked
      <4>2. a.value = Held(req.method, b)
        BY <1>7, <2>1, <3>2 DEF Held
      <4> HIDE DEF a, req, blocks, b
      <4>3. Right(req, a, blocks, fault)
        BY <1>7, <2>3, <3>2, <3>4, <4>1, <4>2 DEF Right
      <4> QED
        BY <1>3, <3>1, <4>3 DEF Return, a
    <3> QED
      BY <3>3, <3>4
  <2> QED
    BY <2>2, <2>3
<1> QED
  BY <1>4, <1>5, <1>6, <1>7

(* The block of _head_to_root arrives, or does not.                        *)
LEMMA HeadKeeps ==
    ASSUME Inv, NEW r \in Requests, head_to_root_responded(r)
    PROVE  Inv'
<1>1. PICK x \in Outcomes(msg[r]) :
        /\ Responded(r, x)
        /\ IF x.outcome = "data" /\ x.data # None
           THEN /\ head_id' = [head_id EXCEPT ![r] = x.data]
                /\ Await(r, "state", fetch_state(x.data, address(r)))
                /\ UNCHANGED loop
           ELSE /\ get_value_raised(r, IF x.outcome = "data" THEN "KeyError" ELSE x.outcome)
                /\ UNCHANGED head_id
  BY DEF head_to_root_responded
<1> DEFINE req == request[r]
           l == loop[r]
           blocks == seen[r]
           fault == failed[r] \/ x.failed
<1>2. /\ pc[r] = "head" /\ req \in Params /\ ReadInv(req, l, blocks)
      /\ l \in Loops \cup {None} /\ answer[r] = NoAnswer
      /\ head \in blocks /\ blocks \in SUBSET Chains /\ head \in Chains
      /\ msg[r] = head_to_root(Asked(req)) /\ failed[r] \in BOOLEAN
  BY Values DEF RequestOK, head_to_root_responded
<1>3. /\ x.outcome \in {"data", "KeyNotFound", "ValidatorNotReadyException", "ClientException"}
      /\ fault \in BOOLEAN
  BY <1>2, OutcomeKinds
<1>4. Asked(req) \in Blocks \cup {None, Malformed}
  BY <1>2, AskedType
<1>5. /\ x.outcome = "data" /\ x.data # None =>
            /\ x.data \in Blocks
            /\ x.data = IF Asked(req) = None THEN head ELSE Asked(req)
      /\ x.outcome = "KeyNotFound" => Asked(req) \in Blocks
      /\ Asked(req) = None /\ ~x.failed => x.outcome = "data" /\ x.data # None
  BY <1>2, <1>4, HeadOutcome
<1>6. /\ ReadStep(r, fault)
      /\ failed' = [failed EXCEPT ![r] = fault]
  <2>1. failed' = [failed EXCEPT ![r] = failed[r] \/ x.failed]
    BY <1>1 DEF Responded
  <2> QED
    BY <1>1, <1>2, <2>1 DEF Responded, ReadStep
<1>7. CASE x.outcome = "data" /\ x.data # None
  <2> DEFINE m == fetch_state(x.data, AddressOf(req, l))
  <2>1. address(r) = AddressOf(req, l)
    BY DEF address, AddressOf
  <2>2. m \in Messages
    BY <1>2, <1>5, <1>7, AddressType, MessageTypes
  <2>3. IF Asked(req) = None THEN x.data \in blocks ELSE x.data = Asked(req)
    BY <1>2, <1>5, <1>7
  <2>4. Moves(r, "state", req, m, x.data, l, answer[r], blocks, fault)
    BY <1>1, <1>6, <1>7, <2>1, Values DEF Moves, Await, Responded, chainVars
  <2>5. RequestOK("state", req, m, x.data, l, answer[r], blocks, fault, head)
    BY <1>2, <1>3, <1>5, <1>7, <2>2, <2>3 DEF RequestOK
  <2> HIDE DEF req, l, blocks, fault, m
  <2> QED
    BY <2>4, <2>5, MoveKeeps
<1>8. CASE ~(x.outcome = "data" /\ x.data # None)
  <2> DEFINE error == IF x.outcome = "data" THEN "KeyError" ELSE x.outcome
  <2>1. get_value_raised(r, error) /\ UNCHANGED head_id
    BY <1>1, <1>8
  <2>2. error \in {"KeyNotFound", "ValidatorNotReadyException", "ClientException", "KeyError"}
    BY <1>3
  <2>3. ~(error = "KeyNotFound" /\ Asked(req) = None)
    BY <1>5, RouterAssumption
  <2>4. ~(Asked(req) = None /\ ~fault)
    BY <1>5, <1>8
  <2> HIDE DEF error, fault
  <2> QED
    BY <1>3, <1>6, <2>1, <2>2, <2>3, <2>4, RaisedKeeps
<1> QED
  BY <1>7, <1>8

(* The entry of fetch_state arrives, or does not.                          *)
LEMMA StateKeeps ==
    ASSUME Inv, NEW r \in Requests, fetch_state_responded(r)
    PROVE  Inv'
<1>1. PICK x \in Outcomes(msg[r]) :
        /\ Responded(r, x)
        /\ IF x.outcome = "data" THEN get_value_returned(r, x.data)
                                 ELSE get_value_raised(r, x.outcome)
  BY DEF fetch_state_responded
<1> DEFINE req == request[r]
           l == loop[r]
           b == head_id[r]
           a == AddressOf(req, l)
           fault == failed[r] \/ x.failed
<1>2. /\ pc[r] = "state" /\ req \in Params /\ ReadInv(req, l, seen[r])
      /\ l \in Loops \cup {None} /\ b \in Blocks /\ msg[r] = fetch_state(b, a)
      /\ IF Asked(req) = None THEN b \in seen[r] ELSE b = Asked(req)
      /\ failed[r] \in BOOLEAN
  BY Values DEF RequestOK, fetch_state_responded
<1>3. /\ x.outcome \in {"data", "KeyNotFound", "ValidatorNotReadyException", "ClientException"}
      /\ fault \in BOOLEAN
  BY <1>2, OutcomeKinds
<1>4. a[1] = "block_info" => ~(a[2] < 0)
  <2>1. a[1] = "block_info" => a[2] \in Nat
    BY <1>2, AddressType
  <2> QED
    BY <2>1
<1>5. /\ x.outcome = "data" => x.data = state(b, a) /\ x.data # None
      /\ x.outcome = "KeyNotFound" => state(b, a) = None
      /\ ~x.failed => x.outcome \in {"data", "KeyNotFound"}
  <2> HIDE DEF a, b
  <2> QED
    BY <1>2, <1>4, StateOutcome
<1>6. ReadStep(r, fault) /\ UNCHANGED head_id
  <2>1. failed' = [failed EXCEPT ![r] = failed[r] \/ x.failed]
    BY <1>1 DEF Responded
  <2> QED
    BY <1>1, <1>2, <2>1 DEF Responded, ReadStep, fetch_state_responded
<1>7. CASE x.outcome = "data"
  <2>1. get_value_returned(r, x.data)
    BY <1>1, <1>7
  <2> HIDE DEF fault
  <2> QED
    BY <1>2, <1>3, <1>5, <1>6, <1>7, <2>1, ReturnedKeeps
<1>8. CASE x.outcome # "data"
  <2>1. get_value_raised(r, x.outcome)
    BY <1>1, <1>8
  <2>2. x.outcome = "KeyNotFound" /\ Asked(req) = None => NothingThere(r)
    BY <1>2, <1>5 DEF NothingThere
  <2>3. ~fault => x.outcome = "KeyNotFound"
    BY <1>5, <1>8
  <2> HIDE DEF fault
  <2> QED
    BY <1>3, <1>6, <1>8, <2>1, <2>2, <2>3, RaisedKeeps
<1> QED
  BY <1>7, <1>8

(* The answer to the one call of a simpler method.                         *)
LEMMA SimpleKeeps ==
    ASSUME Inv, NEW r \in Requests, call_responded(r)
    PROVE  Inv'
<1>1. PICK x \in Outcomes(msg[r]) :
        /\ Responded(r, x)
        /\ IF x.outcome # "data" THEN Raise(r, x.outcome)
           ELSE IF x.data # None
                THEN Return(r, x.data, IF request[r].method \in ListMethods
                                       THEN x.data ELSE None)
           ELSE IF msg[r].type \in {"peers_get", "receipt_get"} THEN Return(r, 0, None)
           ELSE Raise(r, "KeyError")
  BY DEF call_responded
<1> DEFINE req == request[r]
           blocks == seen[r]
           fault == failed[r] \/ x.failed
<1>2. /\ pc[r] = "call" /\ req \in Params /\ req.method \notin ReadMethods
      /\ head_id[r] \in Blocks \cup {None} /\ loop[r] \in Loops \cup {None}
      /\ head \in blocks /\ blocks \in SUBSET Chains /\ head \in Chains
      /\ req.method \in FetchMethods => req.id \in Blocks /\ msg[r] = head_to_root(req.id)
      /\ failed[r] \in BOOLEAN
  BY Values DEF RequestOK, call_responded
<1>3. /\ x.outcome \in {"data", "KeyNotFound", "ValidatorNotReadyException", "ClientException"}
      /\ fault \in BOOLEAN
  BY <1>2, OutcomeKinds
<1>4. req.method \notin StateMethods \cup EntityMethods
                        \cup {"get_block_number", "get_blocks"}
  BY <1>2 DEF ReadMethods
<1>5. ASSUME NEW a, Right(req, a, blocks, fault), answer' = [answer EXCEPT ![r] = a],
             pc' = [pc EXCEPT ![r] = "done"], msg' = [msg EXCEPT ![r] = None]
      PROVE  Inv'
  <2>1. failed' = [failed EXCEPT ![r] = failed[r] \/ x.failed]
    BY <1>1 DEF Responded
  <2>2. Moves(r, "done", req, None, head_id[r], loop[r], a, blocks, fault)
    BY <1>1, <1>5, <2>1, Values DEF Moves, Responded, call_responded, chainVars
  <2>3. RequestOK("done", req, None, head_id[r], loop[r], a, blocks, fault, head)
    BY <1>2, <1>3, <1>5 DEF RequestOK
  <2> HIDE DEF req, blocks, fault
  <2> QED
    BY <2>2, <2>3, MoveKeeps
<1>6. ASSUME NEW v, NEW h, Return(r, v, h)
      PROVE  Inv'
  <2> DEFINE a == [kind |-> "result", value |-> v, head |-> h]
  <2>1. a.kind = "result"
    OBVIOUS
  <2>2. Right(req, a, blocks, fault)
    <3> HIDE DEF a, req, blocks, fault
    <3> QED
      BY <1>4, <2>1 DEF Right
  <2> HIDE DEF req, blocks, fault
  <2> QED
    BY <1>5, <1>6, <2>2 DEF Return
<1>7. ASSUME NEW error, Raise(r, error), error \notin {"result", "KeyNotFound"}
      PROVE  Inv'
  <2>1. Right(req, [kind |-> error, value |-> None, head |-> None], blocks, fault)
    BY <1>4, <1>7, ErrorRight
  <2> HIDE DEF req, blocks, fault
  <2> QED
    BY <1>5, <1>7, <2>1 DEF Raise
<1>8. CASE x.outcome = "KeyNotFound"
  <2> DEFINE a == [kind |-> "KeyNotFound", value |-> None, head |-> None]
  <2>1. Raise(r, "KeyNotFound")
    BY <1>1, <1>8
  <2>2. req.method \in FetchMethods => ~IsPrefix(req.id, head)
    BY <1>2, <1>8, HeadOutcome
  <2>3. a.kind = "KeyNotFound"
    OBVIOUS
  <2>4. Right(req, a, blocks, fault)
    <3> HIDE DEF a, req, blocks, fault
    <3> QED
      BY <1>2, <1>4, <2>2, <2>3 DEF Right
  <2> HIDE DEF req, blocks, fault
  <2> QED
    BY <1>5, <2>1, <2>4 DEF Raise
<1> QED
  BY <1>1, <1>3, <1>6, <1>7, <1>8

(* The answer to a batch that was submitted.                               *)
LEMMA SubmitKeeps ==
    ASSUME Inv, NEW r \in Requests, submit_batches_responded(r)
    PROVE  Inv'
<1> DEFINE req == request[r]
           blocks == seen[r]
<1>1. /\ pc[r] = "submit" /\ req \in Params
      /\ req.method = "send_raw_transaction"
      /\ head_id[r] \in Blocks \cup {None} /\ loop[r] \in Loops \cup {None}
      /\ blocks \in SUBSET Chains /\ failed[r] \in BOOLEAN
  BY Values DEF RequestOK, submit_batches_responded
<1>2. PICK x \in SubmitOutcomes :
        /\ status' = [status EXCEPT ![msg[r].id] =
                        IF x.taken /\ @ = "UNKNOWN" THEN "PENDING" ELSE @]
        /\ IF x.outcome = "data" THEN Return(r, msg[r].id, None) ELSE Raise(r, x.outcome)
  BY DEF submit_batches_responded
<1>3. x.outcome \in {"data", "ClientException"}
  BY DEF SubmitOutcomes, handle_response, Statuses
<1>4. status' \in [Batches -> {"UNKNOWN", "PENDING", "COMMITTED", "INVALID"}]
  <2> DEFINE S == {"UNKNOWN", "PENDING", "COMMITTED", "INVALID"}
             k == msg[r].id
             v == IF x.taken /\ status[k] = "UNKNOWN" THEN "PENDING" ELSE status[k]
  <2>1. status \in [Batches -> S] /\ status' = [status EXCEPT ![k] = v]
    BY <1>2, Values
  <2>2. k \in Batches => v \in S
    BY <2>1
  <2> HIDE DEF S, k, v
  <2> QED
    BY <2>1, <2>2 DEF S
<1>5. ASSUME NEW a, Right(req, a, blocks, failed[r]), answer' = [answer EXCEPT ![r] = a],
             pc' = [pc EXCEPT ![r] = "done"], msg' = [msg EXCEPT ![r] = None]
      PROVE  Inv'
  <2>1. Moves(r, "done", req, None, head_id[r], loop[r], a, blocks, failed[r])
    BY <1>4, <1>5, Values DEF Moves, submit_batches_responded
  <2>2. RequestOK("done", req, None, head_id[r], loop[r], a, blocks, failed[r], head)
    BY <1>1, <1>5 DEF RequestOK
  <2> HIDE DEF req, blocks
  <2> QED
    BY <2>1, <2>2, MoveKeeps
<1>6. CASE x.outcome = "data"
  <2> DEFINE a == [kind |-> "result", value |-> msg[r].id, head |-> None]
  <2>1. Return(r, msg[r].id, None)
    BY <1>2, <1>6
  <2>2. /\ a.kind = "result"
        /\ req.method \notin StateMethods \cup EntityMethods \cup {"get_block_number", "get_blocks"}
    BY <1>1 DEF StateMethods, EntityMethods
  <2>3. Right(req, a, blocks, failed[r])
    <3> HIDE DEF a, req, blocks
    <3> QED
      BY <2>2 DEF Right
  <2> HIDE DEF req, blocks
  <2> QED
    BY <1>5, <2>1, <2>3 DEF Return
<1>7. CASE x.outcome = "ClientException"
  <2>1. Raise(r, "ClientException")
    BY <1>2, <1>7
  <2>2. Right(req, [kind |-> "ClientException", value |-> None, head |-> None],
              blocks, failed[r])
    BY ErrorRight
  <2> HIDE DEF req, blocks
  <2> QED
    BY <1>5, <2>1, <2>2 DEF Raise
<1> QED
  BY <1>3, <1>6, <1>7

-----------------------------------------------------------------------------
(* Before the first request.                                               *)
LEMMA InitInv ==
    ASSUME Init
    PROVE  Inv
<1>1. head = <<>> /\ head \in Chains /\ head \in Seq(Contents)
  BY DEF Init, ChainInit, Chains
<1>2. TypeOK
  BY <1>1 DEF Init, ChainInit, TypeOK
<1>3. answer = [r \in Requests |-> answer[r]]
  BY DEF Init
<1>4. ASSUME NEW r \in Requests
      PROVE  RequestInv(r)
  <2>1. /\ pc[r] = "new" /\ request[r] = None /\ msg[r] = None /\ head_id[r] = None
        /\ loop[r] = None /\ answer[r] = NoAnswer /\ seen[r] = {} /\ failed[r] = FALSE
    BY DEF Init
  <2> QED
    BY <2>1 DEF RequestInv, RequestOK
<1> QED
  BY <1>1, <1>2, <1>3, <1>4 DEF Inv

(* A step that changes nothing.                                            *)
LEMMA StutterKeeps ==
    ASSUME Inv, UNCHANGED vars
    PROVE  Inv'
<1>1. UNCHANGED <<head, status, pc, request, msg, head_id, loop, answer, seen, failed>>
  BY DEF vars, chainVars, requestVars
<1>2. TypeOK'
  BY <1>1 DEF Inv, TypeOK
<1>3. \A r \in Requests : RequestInv(r)'
  BY <1>1 DEF Inv, RequestInv
<1> QED
  BY <1>1, <1>2, <1>3 DEF Inv

(* The invariant holds in every reachable state, for every number of       *)
(* requests, all their parameters and every length of the chain.           *)
THEOREM Safety == Spec => []Inv
<1>1. Init => Inv
  BY InitInv
<1>2. Inv /\ [Next]_vars => Inv'
  BY ChainKeeps, CallKeeps, HeadKeeps, StateKeeps, SimpleKeeps, SubmitKeeps, StutterKeeps
  DEF Next, Step
<1> QED
  BY <1>1, <1>2, PTL DEF Spec

(* Every variable of the API keeps its type, and no malformed id reaches   *)
(* the validator from a method that tests its ids: TypeOK.                 *)
THEOREM TypeCorrect == Spec => []TypeOK
<1>1. Inv => TypeOK
  BY DEF Inv
<1> QED
  BY <1>1, Safety, PTL

(* What the invariant says of an answer that was sent.                     *)
LEMMA AnswerRight ==
    ASSUME Inv, NEW r \in Requests
    PROVE  /\ pc[r] = "done" => Right(request[r], answer[r], seen[r], failed[r])
           /\ pc[r] # "done" => answer[r].kind = "none"
BY Values DEF RequestOK, NoAnswer

(* fetch_state and list_state answer with the state at the block they name:*)
(* SnapshotRead, however the chain moves between their two calls.          *)
THEOREM SnapshotReadCorrect == Spec => []SnapshotRead
<1>1. Inv => SnapshotRead
  BY AnswerRight DEF SnapshotRead, Returned, Right
<1> QED
  BY <1>1, Safety, PTL

(* A method that reads the newest state answers with what some newest      *)
(* block of that time held, and no failed call passes for an empty         *)
(* account, chain or resource: CurrentRead.                                *)
THEOREM CurrentReadCorrect == Spec => []CurrentRead
<1>1. ASSUME Inv, NEW r \in Requests
      PROVE  /\ Returned(r, EntityMethods \cup {"get_block_number"}) =>
                    /\ ~without_payload(request[r])
                    /\ \E b \in seen[r] : answer[r].value = Held(request[r].method, b)
             /\ NotFound(r, EntityMethods) =>
                    without_payload(request[r]) \/ \E b \in seen[r] : writes(b) = 0
             /\ NotFound(r, FetchMethods) => \E b \in seen[r] : ~IsPrefix(request[r].id, b)
             /\ ~NotFound(r, {"get_block_number", "get_blocks"})
  <2>1. CASE pc[r] = "done"
    <3>1. Right(request[r], answer[r], seen[r], failed[r])
      BY <1>1, <2>1, AnswerRight
    <3> QED
      BY <2>1, <3>1 DEF Returned, NotFound, Right
  <2>2. CASE pc[r] # "done"
    <3>1. answer[r].kind = "none"
      BY <1>1, <2>2, AnswerRight
    <3> QED
      BY <2>2, <3>1 DEF Returned, NotFound
  <2> QED
    BY <2>1, <2>2
<1>2. Inv => CurrentRead
  BY <1>1 DEF CurrentRead
<1> QED
  BY <1>2, Safety, PTL

(* get_blocks returns blocks of chains that were the newest meanwhile, the *)
(* newest first, and misses none it was asked for that was on record all   *)
(* the time: GetBlocks.                                                    *)
THEOREM GetBlocksCorrect == Spec => []GetBlocks
<1>1. ASSUME Inv, NEW r \in Requests, Returned(r, {"get_blocks"}), ~failed[r]
      PROVE  BlocksRight(answer[r].value, request[r], seen[r])
  <2>1. Right(request[r], answer[r], seen[r], failed[r])
    BY <1>1, AnswerRight DEF Returned
  <2> QED
    BY <1>1, <2>1 DEF Right, Returned
<1>2. ASSUME NEW result, NEW req, NEW blocks, BlocksRight(result, req, blocks),
             NEW n \in 1..MaxHeight, n <= Newest(req, blocks),
             req.limit # 0 => n > Newest(req, blocks) - req.limit,
             \A b \in blocks : n \in Recorded(b)
      PROVE  \E j \in 1..Len(result) : result[j].block_number = n
  <2>1. n \in Due(req, blocks)
    BY <1>2 DEF Due
  <2> QED
    BY <1>2, <2>1 DEF BlocksRight
<1>3. ASSUME Inv, NEW r \in Requests, Returned(r, {"get_blocks"}), ~failed[r]
      PROVE  LET result == answer[r].value
             IN  /\ \A j, k \in 1..Len(result) :
                       j < k => result[j].block_number > result[k].block_number
                 /\ \A j \in 1..Len(result) : OnChain(result[j], seen[r])
  BY <1>1, <1>3 DEF BlocksRight
<1>4. ASSUME Inv, NEW r \in Requests, Returned(r, {"get_blocks"}), ~failed[r],
             NEW n \in 1..MaxHeight, n <= Newest(request[r], seen[r]),
             request[r].limit # 0 => n > Newest(request[r], seen[r]) - request[r].limit,
             \A b \in seen[r] : n \in Recorded(b)
      PROVE  \E j \in 1..Len(answer[r].value) : answer[r].value[j].block_number = n
  BY <1>1, <1>2, <1>4
<1>5. Inv => GetBlocks
  BY <1>3, <1>4 DEF GetBlocks, Newest, OnChain
<1> QED
  BY <1>5, Safety, PTL

(* No block with a negative number is asked for, whatever start and limit  *)
(* the client named: LegalAddresses.                                       *)
THEOREM LegalAddressesCorrect == Spec => []LegalAddresses
<1>1. ASSUME Inv, NEW r \in Requests, pc[r] = "state", msg[r].address[1] = "block_info"
      PROVE  msg[r].address[2] >= 0
  <2> DEFINE a == AddressOf(request[r], loop[r])
  <2>1. /\ request[r] \in Params /\ ReadInv(request[r], loop[r], seen[r])
        /\ loop[r] \in Loops \cup {None}
        /\ msg[r] = fetch_state(head_id[r], a)
    BY <1>1, Values DEF RequestOK
  <2>2. msg[r].address = a
    BY <2>1 DEF fetch_state, message
  <2>3. a[1] = "block_info" => a[2] \in Nat
    BY <2>1, AddressType
  <2> HIDE DEF a
  <2>4. msg[r].address[2] \in Nat
    BY <1>1, <2>2, <2>3
  <2> QED
    BY <2>4
<1>2. Inv => LegalAddresses
  BY <1>1 DEF LegalAddresses
<1> QED
  BY <1>2, Safety, PTL
=============================================================================
