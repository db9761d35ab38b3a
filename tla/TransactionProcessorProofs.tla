--------------------- MODULE TransactionProcessorProofs ---------------------
(***************************************************************************)
(* Type correctness of the transaction families, for all constants.        *)
(***************************************************************************)
EXTENDS TransactionProcessor, TLAPS

(* The empty state the families start from has the right types.            *)
LEMMA InitTypeOK == Init => TypeOK
<1> SUFFICES ASSUME Init PROVE TypeOK
  OBVIOUS
<1>1. AccountTypeOK
  <2>1. 0 \in U64
    BY AccountAssumption DEF U64
  <2>2. NewAccount \in Account
    BY <2>1 DEF NewAccount, Account
  <2> QED
    BY <2>1, <2>2 DEF Init, AccountInit, AccountTypeOK
<1>2. SwapTypeOK
  BY DEF Init, SwapInit, SwapTypeOK
<1>3. PubKeyTypeOK
  BY DEF Init, PubKeyInit, PubKeyTypeOK
<1>4. QED
  BY <1>1, <1>2, <1>3 DEF TypeOK

(* What _transfer_from_address returns are accounts: the tests it makes    *)
(* keep both balances within uint64.                                       *)
LEMMA TransferTypeOK ==
    ASSUME AccountTypeOK, NEW a \in Addresses, NEW b \in Addresses, NEW v \in Nat,
           may_transfer_from_address(a, b, v)
    PROVE  transfer_from_address(a, b, v) \in [Addresses -> Account]
BY AccountAssumption
   DEF AccountTypeOK, may_transfer_from_address, transfer_from_address, Account, U64

(* Adding a swap's amount to a balance gives an account if the sum fits    *)
(* into uint64.                                                            *)
LEMMA CreditTypeOK ==
    ASSUME AccountTypeOK, NEW a \in Addresses, NEW v \in Nat, may_credit(a, v)
    PROVE  credit(a, v) \in [Addresses -> Account]
BY AccountAssumption DEF AccountTypeOK, may_credit, credit, Account, U64

(* _genesis and _transfer keep the types of the account family.            *)
LEMMA AccountNextTypeOK ==
    ASSUME AccountTypeOK, AccountNext
    PROVE  AccountTypeOK'
<1>1. CASE \E signer \in Signers, total_supply \in Supplies : genesis(signer, total_supply)
  <2> PICK signer \in Signers, total_supply \in Supplies : genesis(signer, total_supply)
    BY <1>1
  <2> QED
    BY AccountAssumption DEF genesis, AccountTypeOK, Account, NewAccount, U64, Addresses
<1>2. CASE \E signer \in Signers, b \in Addresses, v \in Amounts : transfer(signer, b, v)
  <2> PICK signer \in Signers, b \in Addresses, v \in Amounts : transfer(signer, b, v)
    BY <1>2
  <2>1. v \in Nat /\ signer \in Addresses
    BY AccountAssumption DEF Addresses
  <2>2. may_transfer_from_address(signer, b, v)
    BY DEF transfer
  <2>3. transfer_from_address(signer, b, v) \in [Addresses -> Account]
    BY <2>1, <2>2, TransferTypeOK
  <2> QED
    BY <2>3 DEF transfer, AccountTypeOK
<1> QED
  BY <1>1, <1>2 DEF AccountNext

(* A closed swap is still an AtomicSwapInfo message.                       *)
LEMMA ClosedTypeOK ==
    ASSUME NEW id \in SwapIds, NEW key \in SecretKeys, swap[id] \in AtomicSwapInfo
    PROVE  closed(id, key) \in AtomicSwapInfo
BY DEF closed, AtomicSwapInfo, CLOSED

(* Closing a swap keeps the types, also where it writes an Account over    *)
(* another record: what is read there then is one of the assumed outcomes. *)
LEMMA CloseTypeOK ==
    ASSUME AccountTypeOK, SwapTypeOK, PubKeyTypeOK, NEW signer,
           NEW id \in SwapIds, NEW key \in SecretKeys, swap_close(signer, id, key)
    PROVE  AccountTypeOK' /\ SwapTypeOK' /\ PubKeyTypeOK'
<1>1. swap[id] \in AtomicSwapInfo
  BY DEF swap_close, may_close, permitted_to_change, SwapTypeOK
<1>2. closed(id, key) \in AtomicSwapInfo
  BY <1>1, ClosedTypeOK
<1> DEFINE swap_closed == [swap EXCEPT ![id] = closed(id, key)]
<1>3. swap_closed \in [SwapIds -> AtomicSwapInfo \cup {None}]
  BY <1>2 DEF SwapTypeOK
<1>4. CASE close_to_account(id, key)
  <2>1. account' \in [Addresses -> Account]
    BY <1>1, <1>4, CreditTypeOK, AccountAssumption DEF close_to_account, AtomicSwapInfo, U64
  <2> QED
    BY <1>3, <1>4, <2>1
       DEF close_to_account, AccountTypeOK, SwapTypeOK, PubKeyTypeOK, pubKeyVars
<1>5. CASE close_over_record(id, key)
  <2> DEFINE r == swap[id].receiver_address
  <2>1. r \in Records
    BY <1>5 DEF close_over_record, Records
  <2> HIDE DEF r, swap_closed
  <2>2. swap' \in [SwapIds -> AtomicSwapInfo \cup {None}]
    <3>1. CASE \E info \in AsSwap : swap' = [swap_closed EXCEPT ![r] = info]
      BY <1>3, <3>1, SwapAssumption
    <3>2. CASE swap' = swap_closed
      BY <1>3, <3>2
    <3> QED
      BY <1>5, <3>1, <3>2 DEF close_over_record, r, swap_closed
  <2>3. pub_key' \in [PubKeys -> PubKeyStorage \cup {None}]
    <3>1. CASE \E storage \in AsPubKey : pub_key' = [pub_key EXCEPT ![r] = storage]
      BY <3>1, SwapAssumption DEF PubKeyTypeOK
    <3> QED
      BY <1>5, <3>1 DEF close_over_record, r, PubKeyTypeOK
  <2>4. genesis_status' \in BOOLEAN \cup {None} /\ block_timestamp' \in Timestamps \cup {None}
    BY <1>5 DEF close_over_record, AccountTypeOK, SwapTypeOK
  <2>5. overwritten' \subseteq Records
    BY <1>5, <2>1 DEF close_over_record, r, SwapTypeOK
  <2> QED
    BY <1>5, <2>2, <2>3, <2>4, <2>5
       DEF close_over_record, AccountTypeOK, SwapTypeOK, PubKeyTypeOK
<1> QED
  BY <1>4, <1>5 DEF swap_close

(* The five methods of the AtomicSwap family keep the types; _swap_init    *)
(* relies on its balance test covering the commission too.                 *)
LEMMA SwapNextTypeOK ==
    ASSUME AccountTypeOK, SwapTypeOK, PubKeyTypeOK, SwapNext
    PROVE  AccountTypeOK' /\ SwapTypeOK' /\ PubKeyTypeOK'
<1> PICK signer \in Signers, id \in SwapIds :
        \/ \E r \in Receivers, n \in Amounts, l \in Locks \cup {NoLock} :
              swap_init(signer, id, r, n, l)
        \/ \E l \in Locks : swap_set_lock(signer, id, l)
        \/ swap_approve(signer, id)
        \/ swap_expire(signer, id)
        \/ \E key \in SecretKeys : swap_close(signer, id, key)
  BY DEF SwapNext
<1>a. signer \in Addresses /\ ZERO_ADDRESS \in Addresses
  BY DEF Addresses
<1>1. CASE \E r \in Receivers, n \in Amounts, l \in Locks \cup {NoLock} :
              swap_init(signer, id, r, n, l)
  <2> PICK r \in Receivers, n \in Amounts, l \in Locks \cup {NoLock} :
              swap_init(signer, id, r, n, l)
    BY <1>1
  <2> DEFINE t == transfer_from_address(signer, ZERO_ADDRESS, commission)
  <2>1. commission \in Nat /\ n \in U64 /\ n \in Nat
    BY SwapAssumption, AccountAssumption DEF swap_init, SwapTypeOK, U64
  <2>2. t \in [Addresses -> Account]
    BY <2>1, <1>a, TransferTypeOK DEF swap_init
  <2>3. t[signer].balance = account[signer].balance - commission
    BY <1>a, AccountAssumption DEF transfer_from_address, AccountTypeOK, Account
  <2>4. t[signer].balance - n \in U64
    BY <2>1, <2>2, <2>3, <1>a, AccountAssumption
       DEF swap_init, enough_balance, AccountTypeOK, Account, U64
  <2>5. account' \in [Addresses -> Account]
    <3> HIDE DEF t
    <3>1. account' = [t EXCEPT ![signer].balance = t[signer].balance - n]
      BY DEF swap_init, t
    <3> QED
      BY <3>1, <2>2, <2>4, <1>a DEF Account
  <2>6. swap' \in [SwapIds -> AtomicSwapInfo \cup {None}]
    <3>1. r \in Addresses \cup Records /\ block_timestamp \in Timestamps
      BY SwapAssumption DEF swap_init, SwapTypeOK
    <3> QED
      BY <2>1, <3>1 DEF swap_init, SwapTypeOK, AtomicSwapInfo, OPENED
  <2> QED
    BY <2>5, <2>6 DEF swap_init, AccountTypeOK, SwapTypeOK, PubKeyTypeOK, pubKeyVars
<1>2. CASE \E l \in Locks : swap_set_lock(signer, id, l)
  <2> PICK l \in Locks : swap_set_lock(signer, id, l)
    BY <1>2
  <2>1. swap[id] \in AtomicSwapInfo
    BY DEF swap_set_lock, permitted_to_change, SwapTypeOK
  <2>2. swap' \in [SwapIds -> AtomicSwapInfo \cup {None}]
    BY <2>1 DEF swap_set_lock, SwapTypeOK, AtomicSwapInfo, SECRET_LOCK_PROVIDED
  <2> QED
    BY <2>2 DEF swap_set_lock, AccountTypeOK, SwapTypeOK, PubKeyTypeOK, accountVars, pubKeyVars
<1>3. CASE swap_approve(signer, id)
  <2>1. swap[id] \in AtomicSwapInfo
    BY <1>3 DEF swap_approve, permitted_to_change, SwapTypeOK
  <2>2. swap' \in [SwapIds -> AtomicSwapInfo \cup {None}]
    BY <1>3, <2>1 DEF swap_approve, SwapTypeOK, AtomicSwapInfo, APPROVED
  <2> QED
    BY <1>3, <2>2
       DEF swap_approve, AccountTypeOK, SwapTypeOK, PubKeyTypeOK, accountVars, pubKeyVars
<1>4. CASE swap_expire(signer, id)
  <2>1. swap[id] \in AtomicSwapInfo
    BY <1>4 DEF swap_expire, permitted_to_change, SwapTypeOK
  <2>2. account' \in [Addresses -> Account]
    BY <1>4, <2>1, <1>a, CreditTypeOK, AccountAssumption DEF swap_expire, AtomicSwapInfo, U64
  <2>3. swap' \in [SwapIds -> AtomicSwapInfo \cup {None}]
    BY <1>4, <2>1 DEF swap_expire, SwapTypeOK, AtomicSwapInfo, EXPIRED
  <2> QED
    BY <1>4, <2>2, <2>3 DEF swap_expire, AccountTypeOK, SwapTypeOK, PubKeyTypeOK, pubKeyVars
<1>5. CASE \E key \in SecretKeys : swap_close(signer, id, key)
  BY <1>5, CloseTypeOK
<1> QED
  BY <1>1, <1>2, <1>3, <1>4, <1>5

(* _charge_for_storing returns accounts.                                   *)
LEMMA ChargeTypeOK ==
    ASSUME AccountTypeOK, PubKeyTypeOK, NEW a \in Signers, may_charge_for_storing(a)
    PROVE  charge_for_storing(a) \in [Addresses -> Account]
<1>1. a \in Addresses /\ ZERO_ADDRESS \in Addresses /\ PUB_KEY_STORE_PRICE \in Nat
  BY DEF Addresses, PUB_KEY_STORE_PRICE
<1>2. CASE economy_enabled
  <2>1. may_transfer_from_address(a, ZERO_ADDRESS, PUB_KEY_STORE_PRICE)
    BY <1>2 DEF may_charge_for_storing
  <2>2. transfer_from_address(a, ZERO_ADDRESS, PUB_KEY_STORE_PRICE) \in [Addresses -> Account]
    BY <1>1, <2>1, TransferTypeOK
  <2> QED
    BY <1>2, <2>2 DEF charge_for_storing
<1>3. CASE ~economy_enabled
  BY <1>3 DEF charge_for_storing, AccountTypeOK
<1> QED
  BY <1>2, <1>3

(* _store_public_key_to_account returns an account.                        *)
LEMMA LinkTypeOK ==
    ASSUME NEW k \in PubKeys, NEW acc \in Account
    PROVE  store_public_key_to_account(k, acc) \in Account
BY DEF store_public_key_to_account, Account

(* The record the store methods build is a PubKeyStorage message.          *)
LEMMA StorageTypeOK ==
    ASSUME NEW owner \in Signers, NEW payload \in NewPubKeyPayload
    PROVE  NewPubKeyStorage(owner, payload) \in PubKeyStorage /\ payload.public_key \in PubKeys
BY DEF NewPubKeyStorage, PubKeyStorage, NewPubKeyPayload

(* The three methods of the pub_key family keep the types.                 *)
LEMMA PubKeyNextTypeOK ==
    ASSUME AccountTypeOK, PubKeyTypeOK, PubKeyNext
    PROVE  AccountTypeOK' /\ PubKeyTypeOK'
<1>a. Signers \subseteq Addresses
  BY DEF Addresses
<1>1. ASSUME NEW signer \in Signers, NEW payload \in NewPubKeyPayload,
             store_pub_key(signer, payload)
      PROVE  AccountTypeOK' /\ PubKeyTypeOK'
  <2> DEFINE state == charge_for_storing(signer)
  <2>1. state \in [Addresses -> Account]
    BY <1>1, ChargeTypeOK DEF store_pub_key
  <2>2. store_public_key_to_account(payload.public_key, state[signer]) \in Account
    BY <1>a, <2>1, StorageTypeOK, LinkTypeOK
  <2>3. account' \in [Addresses -> Account]
    BY <1>1, <2>1, <2>2 DEF store_pub_key
  <2>4. pub_key' \in [PubKeys -> PubKeyStorage \cup {None}]
    BY <1>1, StorageTypeOK DEF store_pub_key, PubKeyTypeOK
  <2> QED
    BY <1>1, <2>3, <2>4 DEF store_pub_key, AccountTypeOK, PubKeyTypeOK
<1>2. ASSUME NEW signer \in Signers, NEW owner \in Signers, NEW sig \in Signers,
             NEW payload \in NewPubKeyPayload,
             store_public_key_for_other(signer, owner, sig, payload)
      PROVE  AccountTypeOK' /\ PubKeyTypeOK'
  <2> DEFINE state == charge_for_storing(signer)
  <2>1. state \in [Addresses -> Account]
    BY <1>2, ChargeTypeOK DEF store_public_key_for_other
  <2>2. store_public_key_to_account(payload.public_key, account[owner]) \in Account
    BY <1>a, StorageTypeOK, LinkTypeOK DEF AccountTypeOK
  <2>3. account' \in [Addresses -> Account]
    BY <1>2, <2>1, <2>2 DEF store_public_key_for_other
  <2>4. pub_key' \in [PubKeys -> PubKeyStorage \cup {None}]
    BY <1>2, StorageTypeOK DEF store_public_key_for_other, PubKeyTypeOK
  <2>5. unpaid' \subseteq PubKeys
    BY <1>2, StorageTypeOK DEF store_public_key_for_other, PubKeyTypeOK
  <2> QED
    BY <1>2, <2>3, <2>4, <2>5 DEF store_public_key_for_other, AccountTypeOK, PubKeyTypeOK
<1>3. ASSUME NEW signer \in Signers, NEW k \in PubKeys, revoke_pub_key(signer, k)
      PROVE  AccountTypeOK' /\ PubKeyTypeOK'
  <2>1. pub_key[k] \in PubKeyStorage
    BY <1>3 DEF revoke_pub_key, PubKeyTypeOK
  <2>2. pub_key' \in [PubKeys -> PubKeyStorage \cup {None}]
    BY <1>3, <2>1 DEF revoke_pub_key, PubKeyTypeOK, PubKeyStorage
  <2> QED
    BY <1>3, <2>2 DEF revoke_pub_key, AccountTypeOK, PubKeyTypeOK, accountVars
<1> QED
  BY <1>1, <1>2, <1>3 DEF PubKeyNext

(* The families of Sawtooth the handlers read from keep the types.         *)
LEMMA EnvironmentTypeOK ==
    ASSUME TypeOK, Environment
    PROVE  TypeOK'
BY DEF Environment, SwapEnvironmentNext, NewBlock, SetCommission, SetEconomyEnabled,
       TypeOK, AccountTypeOK, SwapTypeOK, PubKeyTypeOK, accountVars, swapVars, pubKeyVars

(* A step that changes nothing keeps the types.                            *)
LEMMA StutterTypeOK ==
    ASSUME TypeOK, UNCHANGED vars
    PROVE  TypeOK'
BY DEF TypeOK, AccountTypeOK, SwapTypeOK, PubKeyTypeOK, vars, accountVars, swapVars, pubKeyVars

(* Every step keeps the types.                                             *)
LEMMA TypeStep ==
    ASSUME TypeOK, [Next]_vars
    PROVE  TypeOK'
<1>1. CASE AccountNext /\ UNCHANGED <<swapVars, pubKeyVars>>
  BY <1>1, AccountNextTypeOK DEF TypeOK, SwapTypeOK, PubKeyTypeOK, swapVars, pubKeyVars
<1>2. CASE SwapNext
  BY <1>2, SwapNextTypeOK DEF TypeOK
<1>3. CASE PubKeyNext /\ UNCHANGED swapVars
  BY <1>3, PubKeyNextTypeOK DEF TypeOK, SwapTypeOK, swapVars
<1>4. CASE Environment
  BY <1>4, EnvironmentTypeOK
<1>5. CASE UNCHANGED vars
  BY <1>5, StutterTypeOK
<1> QED
  BY <1>1, <1>2, <1>3, <1>4, <1>5 DEF Next, apply

(* Every transaction of every family keeps the types: in particular no     *)
(* balance goes below zero or above the largest uint64.                    *)
THEOREM TypeCorrect == Spec => []TypeOK
<1>1. Init => TypeOK
  BY InitTypeOK
<1>2. TypeOK /\ [Next]_vars => TypeOK'
  BY TypeStep
<1> QED
  BY <1>1, <1>2, PTL DEF Spec
=============================================================================
