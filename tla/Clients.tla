------------------------------ MODULE Clients -------------------------------
(***************************************************************************)
(* The clients that build the node's own transactions (remme/clients and   *)
(* the genesis script).  A transaction declares the addresses it reads and *)
(* the ones it writes; the validator refuses a handler any other, and      *)
(* CacheContextService then raises an InternalError.  The lists are        *)
(* written far from the handlers they have to fit.                         *)
(***************************************************************************)
EXTENDS TransactionProcessor

\* Addresses outside the three families.  The others are named by what is
\* stored there.
SETTINGS_SWAP_COMMISSION == "setting"
BLOCK_INFO_NAMESPACE == "block_info"

-----------------------------------------------------------------------------
(* The header of a transaction carries what its client declares.           *)
make_batch_list(addresses_input, addresses_output) ==
    [inputs |-> addresses_input, outputs |-> addresses_output]

client_genesis(signer) ==
    make_batch_list({GENESIS_ADDRESS}, {GENESIS_ADDRESS, signer})

client_transfer(signer, address_to) ==
    LET addresses_input == {address_to, signer}
    IN  make_batch_list(addresses_input, addresses_input)

(* Seeded fault: the account that collects the commission is forgotten.    *)
client_swap_init_unpaid(signer, swap_id) ==
    make_batch_list(
        {swap_id, signer, SETTINGS_SWAP_COMMISSION, ZERO_ADDRESS,
         CONFIG_ADDRESS, BLOCK_INFO_NAMESPACE},
        {swap_id, signer})

client_swap_init(signer, swap_id) ==
    make_batch_list(
        {swap_id, signer, SETTINGS_SWAP_COMMISSION, ZERO_ADDRESS,
         CONFIG_ADDRESS, BLOCK_INFO_NAMESPACE},
        {swap_id, signer, ZERO_ADDRESS})

client_swap_set_secret_lock(signer, swap_id) ==
    make_batch_list({swap_id, signer}, {swap_id})

client_swap_approve(signer, swap_id) ==
    make_batch_list({swap_id, signer}, {swap_id})

client_swap_expire(signer, swap_id) ==
    make_batch_list(
        {swap_id, signer, CONFIG_ADDRESS, BLOCK_INFO_NAMESPACE},
        {swap_id, signer})

client_swap_close(signer, swap_id, receiver_address) ==
    LET addresses_input == {swap_id, ZERO_ADDRESS, receiver_address, signer}
    IN  make_batch_list(addresses_input, addresses_input)

-----------------------------------------------------------------------------
(* What the handlers read through get_cached_data.                         *)
transfer_reads(address_from, address_to) == {address_from, address_to}
latest_block_info_reads == {CONFIG_ADDRESS, BLOCK_INFO_NAMESPACE}
swap_init_reads(signer, swap_id) ==
    {swap_id, SETTINGS_SWAP_COMMISSION, signer}
        \cup latest_block_info_reads \cup transfer_reads(signer, ZERO_ADDRESS)
swap_expire_reads(swap_id) ==
    {swap_id, swap[swap_id].sender_address} \cup latest_block_info_reads
swap_close_reads(swap_id) == {swap_id, swap[swap_id].receiver_address}

\* What a step writes: the entries that it changes.
Written ==
    {a \in Addresses : account'[a] # account[a]}
        \cup {id \in SwapIds : swap'[id] # swap[id]}
        \cup {k \in PubKeys : pub_key'[k] # pub_key[k]}
        \cup (IF genesis_status' # genesis_status THEN {GENESIS_ADDRESS} ELSE {})
        \cup (IF block_timestamp' # block_timestamp THEN {CONFIG_ADDRESS} ELSE {})

\* The validator lets the handler get and set what it needs.
Authorised(reads, declared) ==
    reads \subseteq declared.inputs /\ Written \subseteq declared.outputs

(* Whatever the state a transaction meets, whoever opened the swap it is   *)
(* about and wherever its tokens go, a transaction that the handler        *)
(* accepts and that a client has built, closing a swap for the receiver it *)
(* was opened for, touches only what the client declared.                  *)
ClientTransactionsAuthorised ==
    [][\A signer \in Signers :
          /\ \A total_supply \in Supplies :
                genesis(signer, total_supply) /\ UNCHANGED <<swapVars, pubKeyVars>> =>
                    Authorised({GENESIS_ADDRESS}, client_genesis(signer))
          /\ \A address_to \in Addresses, value \in Amounts :
                transfer(signer, address_to, value) /\ UNCHANGED <<swapVars, pubKeyVars>> =>
                    Authorised(transfer_reads(signer, address_to),
                               client_transfer(signer, address_to))
          /\ \A swap_id \in SwapIds :
                /\ \A receiver_address \in Receivers, amount \in Amounts,
                      secret_lock \in Locks \cup {NoLock} :
                      swap_init(signer, swap_id, receiver_address, amount, secret_lock) =>
                          Authorised(swap_init_reads(signer, swap_id),
                                     client_swap_init(signer, swap_id))
                /\ \A secret_lock \in Locks : swap_set_lock(signer, swap_id, secret_lock) =>
                      Authorised({swap_id}, client_swap_set_secret_lock(signer, swap_id))
                /\ swap_approve(signer, swap_id) =>
                      Authorised({swap_id}, client_swap_approve(signer, swap_id))
                /\ swap_expire(signer, swap_id) =>
                      Authorised(swap_expire_reads(swap_id), client_swap_expire(signer, swap_id))
                /\ \A secret_key \in SecretKeys : swap_close(signer, swap_id, secret_key) =>
                      Authorised(swap_close_reads(swap_id),
                                 client_swap_close(signer, swap_id,
                                                   swap[swap_id].receiver_address))
      ]_vars
=============================================================================
