--------------------------- MODULE ClientsProofs ----------------------------
(***************************************************************************)
(* What the clients declare covers what the handlers touch, for every set  *)
(* of accounts, swaps and amounts.                                         *)
(***************************************************************************)
EXTENDS Clients, TransactionProcessorProofs

(* A transfer writes only the two accounts it is between.                  *)
LEMMA TransferWrites ==
    ASSUME AccountTypeOK, NEW a \in Addresses, NEW b \in Addresses, NEW v,
           NEW x \in Addresses, transfer_from_address(a, b, v)[x] # account[x]
    PROVE  x \in {a, b}
BY DEF AccountTypeOK, transfer_from_address

(* A credit writes only the account it is for.                             *)
LEMMA CreditWrites ==
    ASSUME AccountTypeOK, NEW a \in Addresses, NEW v,
           NEW x \in Addresses, credit(a, v)[x] # account[x]
    PROVE  x \in {a}
BY DEF AccountTypeOK, credit

(* The genesis script and the account client.                              *)
LEMMA AccountClient ==
    ASSUME TypeOK, NEW signer \in Signers, UNCHANGED <<swapVars, pubKeyVars>>
    PROVE  /\ \A total_supply \in Supplies : genesis(signer, total_supply) =>
                  Authorised({GENESIS_ADDRESS}, client_genesis(signer))
           /\ \A address_to \in Addresses, value \in Amounts :
                  transfer(signer, address_to, value) =>
                      Authorised(transfer_reads(signer, address_to),
                                 client_transfer(signer, address_to))
<1>a. AccountTypeOK /\ account \in [Addresses -> Account] /\ signer \in Addresses
  BY DEF TypeOK, AccountTypeOK, Addresses
<1>1. ASSUME NEW total_supply \in Supplies, genesis(signer, total_supply)
      PROVE  Authorised({GENESIS_ADDRESS}, client_genesis(signer))
  <2>1. \A a \in Addresses : account'[a] # account[a] => a = signer
    BY <1>a, <1>1 DEF genesis
  <2>2. Written \subseteq {GENESIS_ADDRESS, signer}
    BY <2>1 DEF Written, swapVars, pubKeyVars
  <2> QED
    BY <2>2 DEF Authorised, client_genesis, make_batch_list
<1>2. ASSUME NEW address_to \in Addresses, NEW value \in Amounts,
             transfer(signer, address_to, value)
      PROVE  Authorised(transfer_reads(signer, address_to), client_transfer(signer, address_to))
  <2>1. \A a \in Addresses : account'[a] # account[a] => a \in {signer, address_to}
    BY <1>a, <1>2, TransferWrites DEF transfer
  <2>2. Written \subseteq {signer, address_to}
    BY <1>2, <2>1 DEF Written, transfer, swapVars, pubKeyVars
  <2> QED
    BY <2>2 DEF Authorised, client_transfer, make_batch_list, transfer_reads
<1> QED
  BY <1>1, <1>2

(* The three methods of the AtomicSwap client that move tokens.            *)
LEMMA SwapClientTokens ==
    ASSUME TypeOK, NEW signer \in Signers, NEW swap_id \in SwapIds
    PROVE  /\ \A receiver_address \in Receivers, amount \in Amounts,
                 secret_lock \in Locks \cup {NoLock} :
                  swap_init(signer, swap_id, receiver_address, amount, secret_lock) =>
                      Authorised(swap_init_reads(signer, swap_id),
                                 client_swap_init(signer, swap_id))
           /\ swap_expire(signer, swap_id) =>
                  Authorised(swap_expire_reads(swap_id), client_swap_expire(signer, swap_id))
           /\ \A secret_key \in SecretKeys : swap_close(signer, swap_id, secret_key) =>
                  Authorised(swap_close_reads(swap_id),
                             client_swap_close(signer, swap_id,
                                               swap[swap_id].receiver_address))
<1>a. /\ AccountTypeOK /\ account \in [Addresses -> Account]
      /\ signer \in Addresses /\ ZERO_ADDRESS \in Addresses
      /\ swap \in [SwapIds -> AtomicSwapInfo \cup {None}]
  BY DEF TypeOK, AccountTypeOK, SwapTypeOK, Addresses
<1>1. ASSUME NEW r \in Receivers, NEW n \in Amounts, NEW l \in Locks \cup {NoLock},
             swap_init(signer, swap_id, r, n, l)
      PROVE  Authorised(swap_init_reads(signer, swap_id), client_swap_init(signer, swap_id))
  <2> DEFINE paid == transfer_from_address(signer, ZERO_ADDRESS, commission)
  <2>1. account' = [paid EXCEPT ![signer].balance = @ - n]
    BY <1>1 DEF swap_init
  <2>2. DOMAIN paid = Addresses
    BY <1>a DEF transfer_from_address
  <2>3. ASSUME NEW a \in Addresses, account'[a] # account[a]
        PROVE  a \in {signer, ZERO_ADDRESS}
    <3>1. CASE a # signer
      <4>1. account'[a] = paid[a]
        BY <2>1, <2>2, <3>1
      <4> QED
        BY <1>a, <2>3, <4>1, TransferWrites
    <3> QED
      BY <3>1
  <2>4. \A id \in SwapIds : swap'[id] # swap[id] => id \in {swap_id}
    BY <1>a, <1>1 DEF swap_init
  <2>5. UNCHANGED <<genesis_status, block_timestamp, pub_key>>
    BY <1>1 DEF swap_init, pubKeyVars
  <2>6. Written \subseteq {signer, ZERO_ADDRESS, swap_id}
    BY <2>3, <2>4, <2>5 DEF Written
  <2> QED
    BY <2>6 DEF Authorised, client_swap_init, make_batch_list, swap_init_reads, transfer_reads,
                latest_block_info_reads
<1>2. ASSUME swap_expire(signer, swap_id)
      PROVE  Authorised(swap_expire_reads(swap_id), client_swap_expire(signer, swap_id))
  <2>1. \A a \in Addresses : account'[a] # account[a] => a \in {signer}
    BY <1>a, <1>2, CreditWrites DEF swap_expire
  <2>2. \A id \in SwapIds : swap'[id] # swap[id] => id \in {swap_id}
    BY <1>a, <1>2 DEF swap_expire
  <2>0. UNCHANGED <<genesis_status, block_timestamp, pub_key>>
    BY <1>2 DEF swap_expire, pubKeyVars
  <2>3. Written \subseteq {signer, swap_id}
    BY <2>0, <2>1, <2>2 DEF Written
  <2>4. swap[swap_id].sender_address = signer
    BY <1>2 DEF swap_expire
  <2> QED
    BY <2>3, <2>4 DEF Authorised, client_swap_expire, make_batch_list, swap_expire_reads,
                      latest_block_info_reads
<1>3. ASSUME NEW secret_key \in SecretKeys, swap_close(signer, swap_id, secret_key)
      PROVE  Authorised(swap_close_reads(swap_id),
                        client_swap_close(signer, swap_id, swap[swap_id].receiver_address))
  <2> DEFINE receiver == swap[swap_id].receiver_address
             swap_closed == [swap EXCEPT ![swap_id] = closed(swap_id, secret_key)]
  <2>1. Written \subseteq {receiver, swap_id}
    <3>1. CASE close_to_account(swap_id, secret_key)
      <4>1. \A a \in Addresses : account'[a] # account[a] => a \in {receiver}
        BY <1>a, <3>1, CreditWrites DEF close_to_account
      <4>2. \A id \in SwapIds : swap'[id] # swap[id] => id \in {swap_id}
        BY <1>a, <3>1 DEF close_to_account
      <4>3. UNCHANGED <<genesis_status, block_timestamp, pub_key>>
        BY <3>1 DEF close_to_account, pubKeyVars
      <4> HIDE DEF receiver
      <4> QED
        BY <4>1, <4>2, <4>3 DEF Written
    <3>2. CASE close_over_record(swap_id, secret_key)
      <4>1. /\ \/ receiver \in SwapIds
                  /\ \E info \in AsSwap : swap' = [swap_closed EXCEPT ![receiver] = info]
               \/ swap' = swap_closed
            /\ \/ receiver \in PubKeys
                  /\ \E storage \in AsPubKey : pub_key' = [pub_key EXCEPT ![receiver] = storage]
               \/ UNCHANGED pub_key
            /\ receiver = GENESIS_ADDRESS \/ UNCHANGED genesis_status
            /\ receiver = CONFIG_ADDRESS \/ UNCHANGED block_timestamp
            /\ UNCHANGED account
        BY <3>2 DEF close_over_record
      <4>2. \A id \in SwapIds \ {swap_id} : swap_closed[id] = swap[id]
        BY <1>a
      <4>3. DOMAIN swap_closed = SwapIds /\ DOMAIN pub_key = PubKeys
        BY <1>a DEF TypeOK, PubKeyTypeOK
      <4> HIDE DEF receiver, swap_closed
      <4>4. \A id \in SwapIds : swap'[id] # swap[id] => id \in {receiver, swap_id}
        BY <4>1, <4>2, <4>3
      <4>5. \A k \in PubKeys : pub_key'[k] # pub_key[k] => k = receiver
        BY <4>1, <4>3
      <4> QED
        BY <4>1, <4>4, <4>5 DEF Written
    <3> QED
      BY <1>3, <3>1, <3>2 DEF swap_close
  <2> QED
    BY <2>1 DEF Authorised, client_swap_close, make_batch_list, swap_close_reads
<1> QED
  BY <1>1, <1>2, <1>3

(* The two that only change the state of a swap.                           *)
LEMMA SwapClientStates ==
    ASSUME TypeOK, NEW signer \in Signers, NEW swap_id \in SwapIds
    PROVE  /\ \A secret_lock \in Locks : swap_set_lock(signer, swap_id, secret_lock) =>
                  Authorised({swap_id}, client_swap_set_secret_lock(signer, swap_id))
           /\ swap_approve(signer, swap_id) =>
                  Authorised({swap_id}, client_swap_approve(signer, swap_id))
<1>a. swap \in [SwapIds -> AtomicSwapInfo \cup {None}]
  BY DEF TypeOK, SwapTypeOK
<1>1. ASSUME UNCHANGED <<account, genesis_status, block_timestamp, pub_key>>,
             \A id \in SwapIds : swap'[id] # swap[id] => id = swap_id
      PROVE  Written \subseteq {swap_id}
  BY <1>1 DEF Written
<1>2. ASSUME NEW secret_lock \in Locks, swap_set_lock(signer, swap_id, secret_lock)
      PROVE  Authorised({swap_id}, client_swap_set_secret_lock(signer, swap_id))
  <2>1. /\ UNCHANGED <<account, genesis_status, block_timestamp, pub_key>>
        /\ \A id \in SwapIds : swap'[id] # swap[id] => id = swap_id
    BY <1>a, <1>2 DEF swap_set_lock, accountVars, pubKeyVars
  <2> QED
    BY <1>1, <2>1 DEF Authorised, client_swap_set_secret_lock, make_batch_list
<1>3. ASSUME swap_approve(signer, swap_id)
      PROVE  Authorised({swap_id}, client_swap_approve(signer, swap_id))
  <2>1. /\ UNCHANGED <<account, genesis_status, block_timestamp, pub_key>>
        /\ \A id \in SwapIds : swap'[id] # swap[id] => id = swap_id
    BY <1>a, <1>3 DEF swap_approve, accountVars, pubKeyVars
  <2> QED
    BY <1>1, <2>1 DEF Authorised, client_swap_approve, make_batch_list
<1> QED
  BY <1>2, <1>3

(* No transaction of the node's own clients that a handler accepts is      *)
(* refused by the validator for what it declares.                          *)
THEOREM ClientsCorrect == Spec => ClientTransactionsAuthorised
<1> DEFINE A ==
      \A signer \in Signers :
          /\ \A total_supply \in Supplies :
                genesis(signer, total_supply) /\ UNCHANGED <<swapVars, pubKeyVars>> =>
                    Authorised({GENESIS_ADDRESS}, client_genesis(signer))
          /\ \A address_to \in Addresses, value \in Amounts :
                transfer(signer, address_to, value) /\ UNCHANGED <<swapVars, pubKeyVars>> =>
                    Authorised(transfer_reads(signer, address_to),
                               client_transfer(signer, address_to))
          /\ \A swap_id \in SwapIds :
                /\ \A receiver_address \in Receivers, amount \in Amounts,
                      secret_lock \in Locks \cup {NoLock} :
                      swap_init(signer, swap_id, receiver_address, amount, secret_lock) =>
                          Authorised(swap_init_reads(signer, swap_id),
                                     client_swap_init(signer, swap_id))
                /\ \A secret_lock \in Locks : swap_set_lock(signer, swap_id, secret_lock) =>
                      Authorised({swap_id}, client_swap_set_secret_lock(signer, swap_id))
                /\ swap_approve(signer, swap_id) =>
                      Authorised({swap_id}, client_swap_approve(signer, swap_id))
                /\ swap_expire(signer, swap_id) =>
                      Authorised(swap_expire_reads(swap_id), client_swap_expire(signer, swap_id))
                /\ \A secret_key \in SecretKeys : swap_close(signer, swap_id, secret_key) =>
                      Authorised(swap_close_reads(swap_id),
                                 client_swap_close(signer, swap_id,
                                                   swap[swap_id].receiver_address))
<1>1. TypeOK => A
  BY AccountClient, SwapClientTokens, SwapClientStates
<1>2. TypeOK => [A]_vars
  BY <1>1
<1> HIDE DEF A
<1>3. Spec => [][A]_vars
  BY <1>2, TypeCorrect, PTL DEF Spec
<1> QED
  BY <1>3 DEF A, ClientTransactionsAuthorised
=============================================================================
