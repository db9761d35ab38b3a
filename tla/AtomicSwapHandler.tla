------------------------- MODULE AtomicSwapHandler --------------------------
(***************************************************************************)
(* The AtomicSwap transaction family (remme/tp/atomic_swap.py).  A swap    *)
(* takes its amount out of the sender's account when it is opened; close   *)
(* pays it to the receiver, expire pays it back to the sender.  "Alice" in *)
(* the code is the sender of a swap opened without a secret lock           *)
(* (is_initiator), "Bob" the sender of one opened with it.                 *)
(*                                                                         *)
(* Time is counted in hours.  The latest block's BlockInfo and the         *)
(* commission setting are written by Sawtooth's block_info and settings    *)
(* families: NewBlock and SetCommission stand for them.                    *)
(*                                                                         *)
(* The receiver of a swap may be any address, also one where something     *)
(* other than an account is stored.  Close then writes an Account message  *)
(* over it, and what the record's own family reads there from then on is   *)
(* whatever these bytes parse to: AsSwap and AsPubKey are the outcomes.    *)
(* (A record without a value the handlers tell apart, such as a sender     *)
(* that is no signer, admits no transaction that one with it does not.)    *)
(***************************************************************************)
EXTENDS PubKeyHandler

CONSTANTS
    SwapIds,
    SecretKeys,
    Locks,       \* non-empty secret locks
    NoLock,      \* the empty string in secret_lock
    NoKey,       \* the empty string in secret_key
    Hash,        \* web3_hash
    Timestamps,  \* block timestamps
    UtcOffset,   \* the offset of the host's local time at each timestamp
    Commissions, \* values the swap commission setting may take
    CONFIG_ADDRESS, \* where the block information is stored
    Receivers,   \* receivers a payload may name
    AsSwap,      \* what an Account may read as where a swap is stored
    AsPubKey     \* what an Account may read as where a public key is stored

VARIABLES
    swap,            \* AtomicSwapInfo by swap identifier
    block_timestamp, \* timestamp of the latest BlockInfo, None if there is none
    commission,      \* the setting remme.settings.swap_comission, None if unset
    overwritten      \* history: records over which close wrote an Account

swapVars == <<swap, block_timestamp, commission, overwritten>>

\* The addresses where something other than an account is stored.  A swap is
\* named by the address make_address_from_data derives from its identifier.
Records == SwapIds \cup PubKeys \cup {GENESIS_ADDRESS, CONFIG_ADDRESS}

OPENED == "OPENED"
SECRET_LOCK_PROVIDED == "SECRET_LOCK_PROVIDED"
APPROVED == "APPROVED"
CLOSED == "CLOSED"
EXPIRED == "EXPIRED"

\* Seeded fault: an expired swap may still change.
CLOSED_ONLY == {CLOSED}
NOT_PERMITTED_TO_CHANGE_SWAP_STATUSES == {CLOSED, EXPIRED}

INTIATOR_TIME_LOCK == 24
NON_INTIATOR_TIME_LOCK == 48

AtomicSwapInfo ==
    [state : {OPENED, SECRET_LOCK_PROVIDED, APPROVED, CLOSED, EXPIRED},
     amount : U64, created_at : Timestamps, secret_lock : Locks \cup {NoLock},
     sender_address : Signers, receiver_address : Addresses \cup Records,
     is_initiator : BOOLEAN, secret_key : SecretKeys \cup {NoKey}]

ASSUME SwapAssumption ==
    /\ IsFiniteSet(SwapIds)
    /\ NoLock \notin Locks
    /\ NoKey \notin SecretKeys
    /\ Hash \in [SecretKeys -> Locks]
    /\ Timestamps \subseteq Nat
    /\ UtcOffset \in [Timestamps -> Int]
    /\ Commissions \subseteq Int
    /\ None \notin Timestamps \cup Commissions \cup AtomicSwapInfo
    /\ Addresses \cap Records = {}
    /\ SwapIds \cap PubKeys = {}
    /\ GENESIS_ADDRESS \notin SwapIds \cup PubKeys
    /\ CONFIG_ADDRESS \notin SwapIds \cup PubKeys \cup {GENESIS_ADDRESS}
    /\ Receivers \subseteq Addresses \cup Records
    /\ AsSwap \subseteq AtomicSwapInfo \cup {None}
    /\ AsPubKey \subseteq PubKeyStorage \cup {None}

(* The swap exists and is neither closed nor expired.                      *)
permitted_to_change(swap_id) ==
    /\ swap[swap_id] # None
    /\ swap[swap_id].state \notin NOT_PERMITTED_TO_CHANGE_SWAP_STATUSES

(* Seeded fault: the two time locks are swapped.                           *)
swapped_time_lock(s) == IF s.is_initiator THEN NON_INTIATOR_TIME_LOCK ELSE INTIATOR_TIME_LOCK
time_lock(s) == IF s.is_initiator THEN INTIATOR_TIME_LOCK ELSE NON_INTIATOR_TIME_LOCK

(* datetime.fromtimestamp without a time zone: the host's local time.      *)
get_datetime_from_timestamp(timestamp) == timestamp + UtcOffset[timestamp]

(* account.balance += amount, for a swap's amount                          *)
may_credit(address, amount) == account[address].balance + amount \in U64
credit(address, amount) == [account EXCEPT ![address].balance = @ + amount]

(* Seeded fault: the commission is forgotten.                              *)
enough_without_commission(signer, amount) == account[signer].balance >= amount

(* The amount and the commission are within the sender's balance.          *)
enough_balance(signer, amount) == account[signer].balance >= amount + commission

-----------------------------------------------------------------------------
AtomicSwapInitPayloadForm(receiver_address, amount) ==
    AddressField(receiver_address) /\ amount # 0

(* Seeded fault: the amount is taken from the account as it was before the *)
(* commission was transferred.                                             *)
swap_init_from_stale_account(signer, swap_id, receiver_address, amount, secret_lock) ==
    /\ AtomicSwapInitPayloadForm(receiver_address, amount)
    /\ swap[swap_id] = None
    /\ block_timestamp # None
    /\ commission # None
    /\ commission >= 0
    /\ enough_balance(signer, amount)
    /\ may_transfer_from_address(signer, ZERO_ADDRESS, commission)
    /\ account' = [transfer_from_address(signer, ZERO_ADDRESS, commission) EXCEPT
                     ![signer] = [account[signer] EXCEPT !.balance = @ - amount]]
    /\ swap' = [swap EXCEPT ![swap_id] =
                  [state |-> OPENED, amount |-> amount, created_at |-> block_timestamp,
                   secret_lock |-> secret_lock, sender_address |-> signer,
                   receiver_address |-> receiver_address,
                   is_initiator |-> secret_lock = NoLock, secret_key |-> NoKey]]
    /\ UNCHANGED <<genesis_status, issue, block_timestamp, commission, overwritten, pubKeyVars>>

swap_init(signer, swap_id, receiver_address, amount, secret_lock) ==
    /\ AtomicSwapInitPayloadForm(receiver_address, amount)
    /\ swap[swap_id] = None
    /\ block_timestamp # None
    /\ commission # None
    /\ commission >= 0
    /\ enough_balance(signer, amount)
    /\ may_transfer_from_address(signer, ZERO_ADDRESS, commission)
    /\ LET transfer_state == transfer_from_address(signer, ZERO_ADDRESS, commission)
       IN  account' = [transfer_state EXCEPT ![signer].balance = @ - amount]
    /\ swap' = [swap EXCEPT ![swap_id] =
                  [state |-> OPENED, amount |-> amount, created_at |-> block_timestamp,
                   secret_lock |-> secret_lock, sender_address |-> signer,
                   receiver_address |-> receiver_address,
                   is_initiator |-> secret_lock = NoLock, secret_key |-> NoKey]]
    /\ UNCHANGED <<genesis_status, issue, block_timestamp, commission, overwritten, pubKeyVars>>

(* Seeded fault: a lock that is already there may be replaced.             *)
swap_set_lock_again(signer, swap_id, secret_lock) ==
    /\ permitted_to_change(swap_id)
    /\ swap' = [swap EXCEPT ![swap_id].secret_lock = secret_lock,
                            ![swap_id].state = SECRET_LOCK_PROVIDED]
    /\ UNCHANGED <<accountVars, block_timestamp, commission, overwritten, pubKeyVars>>

(* The handler does not look at the signer.                                *)
swap_set_lock(signer, swap_id, secret_lock) ==
    /\ permitted_to_change(swap_id)
    /\ swap[swap_id].secret_lock = NoLock
    /\ swap' = [swap EXCEPT ![swap_id].secret_lock = secret_lock,
                            ![swap_id].state = SECRET_LOCK_PROVIDED]
    /\ UNCHANGED <<accountVars, block_timestamp, commission, overwritten, pubKeyVars>>

swap_approve(signer, swap_id) ==
    /\ permitted_to_change(swap_id)
    /\ swap[swap_id].is_initiator
    /\ swap[swap_id].sender_address = signer
    /\ swap[swap_id].secret_lock # NoLock
    /\ swap[swap_id].state = SECRET_LOCK_PROVIDED
    /\ swap' = [swap EXCEPT ![swap_id].state = APPROVED]
    /\ UNCHANGED <<accountVars, block_timestamp, commission, overwritten, pubKeyVars>>

(* Seeded fault: only a swap nobody has touched can be refunded.           *)
swap_expire_opened_only(signer, swap_id) ==
    /\ permitted_to_change(swap_id)
    /\ swap[swap_id].state = OPENED
    /\ swap[swap_id].sender_address = signer
    /\ block_timestamp # None
    /\ get_datetime_from_timestamp(swap[swap_id].created_at) + time_lock(swap[swap_id])
         <= get_datetime_from_timestamp(block_timestamp)
    /\ account' = credit(signer, swap[swap_id].amount)
    /\ swap' = [swap EXCEPT ![swap_id].state = EXPIRED]
    /\ UNCHANGED <<genesis_status, issue, block_timestamp, commission, overwritten, pubKeyVars>>

swap_expire(signer, swap_id) ==
    /\ permitted_to_change(swap_id)
    /\ swap[swap_id].sender_address = signer
    /\ block_timestamp # None
    /\ get_datetime_from_timestamp(swap[swap_id].created_at) + time_lock(swap[swap_id])
         <= get_datetime_from_timestamp(block_timestamp)
    /\ may_credit(signer, swap[swap_id].amount)
    /\ account' = credit(signer, swap[swap_id].amount)
    /\ swap' = [swap EXCEPT ![swap_id].state = EXPIRED]
    /\ UNCHANGED <<genesis_status, issue, block_timestamp, commission, overwritten, pubKeyVars>>

(* Any signer may close; the approval is asked for only if is_initiator.   *)
may_close(swap_id, secret_key) ==
    /\ permitted_to_change(swap_id)
    /\ swap[swap_id].secret_lock # NoLock
    /\ Hash[secret_key] = swap[swap_id].secret_lock
    /\ swap[swap_id].is_initiator => swap[swap_id].state = APPROVED

closed(swap_id, secret_key) ==
    [swap[swap_id] EXCEPT !.secret_key = secret_key, !.state = CLOSED]

(* At the receiver's address is an account, or nothing.                    *)
close_to_account(swap_id, secret_key) ==
    /\ swap[swap_id].receiver_address \in Addresses
    /\ may_credit(swap[swap_id].receiver_address, swap[swap_id].amount)
    /\ account' = credit(swap[swap_id].receiver_address, swap[swap_id].amount)
    /\ swap' = [swap EXCEPT ![swap_id] = closed(swap_id, secret_key)]
    /\ UNCHANGED <<genesis_status, issue, block_timestamp, commission, overwritten, pubKeyVars>>

(* At the receiver's address is something else.  The Account is written    *)
(* last, so a swap that pays to its own address loses its record.  (Should *)
(* the balance that the entry reads as overflow, the step is not taken.)   *)
close_over_record(swap_id, secret_key) ==
    LET receiver_address == swap[swap_id].receiver_address
        swap_closed == [swap EXCEPT ![swap_id] = closed(swap_id, secret_key)]
    IN  /\ \/ /\ receiver_address \in SwapIds
              /\ \E info \in AsSwap : swap' = [swap_closed EXCEPT ![receiver_address] = info]
              /\ UNCHANGED <<genesis_status, block_timestamp, pub_key>>
           \/ /\ receiver_address \in PubKeys
              /\ \E storage \in AsPubKey :
                    pub_key' = [pub_key EXCEPT ![receiver_address] = storage]
              /\ swap' = swap_closed
              /\ UNCHANGED <<genesis_status, block_timestamp>>
           \/ /\ receiver_address = GENESIS_ADDRESS
              /\ genesis_status' \in BOOLEAN \cup {None}
              /\ swap' = swap_closed
              /\ UNCHANGED <<block_timestamp, pub_key>>
           \/ /\ receiver_address = CONFIG_ADDRESS
              /\ block_timestamp' \in Timestamps \cup {None}
              /\ swap' = swap_closed
              /\ UNCHANGED <<genesis_status, pub_key>>
        /\ overwritten' = overwritten \cup {receiver_address}
        /\ UNCHANGED <<account, issue, commission, economy_enabled, unpaid>>

swap_close(signer, swap_id, secret_key) ==
    /\ may_close(swap_id, secret_key)
    /\ close_to_account(swap_id, secret_key) \/ close_over_record(swap_id, secret_key)

-----------------------------------------------------------------------------
(* Sawtooth's block_info family: every block carries the BlockInfo of its  *)
(* predecessor, whose timestamps never go back.                            *)
NewBlock(timestamp) ==
    /\ block_timestamp # None => timestamp > block_timestamp
    /\ block_timestamp' = timestamp
    /\ UNCHANGED <<accountVars, swap, commission, overwritten, pubKeyVars>>

(* Sawtooth's settings family.                                             *)
SetCommission(amount) ==
    /\ commission' = amount
    /\ UNCHANGED <<accountVars, swap, block_timestamp, overwritten, pubKeyVars>>

SwapInit ==
    /\ swap = [id \in SwapIds |-> None]
    /\ block_timestamp = None
    /\ commission = None
    /\ overwritten = {}

SwapNext ==
    \E signer \in Signers, swap_id \in SwapIds :
        \/ \E receiver_address \in Receivers, amount \in Amounts,
              secret_lock \in Locks \cup {NoLock} :
              swap_init(signer, swap_id, receiver_address, amount, secret_lock)
        \/ \E secret_lock \in Locks : swap_set_lock(signer, swap_id, secret_lock)
        \/ swap_approve(signer, swap_id)
        \/ swap_expire(signer, swap_id)
        \/ \E secret_key \in SecretKeys : swap_close(signer, swap_id, secret_key)

SwapEnvironmentNext ==
    \/ \E timestamp \in Timestamps : NewBlock(timestamp)
    \/ \E amount \in Commissions : SetCommission(amount)

SwapTypeOK ==
    /\ swap \in [SwapIds -> AtomicSwapInfo \cup {None}]
    /\ block_timestamp \in Timestamps \cup {None}
    /\ commission \in Commissions \cup {None}
    /\ overwritten \subseteq Records
=============================================================================
