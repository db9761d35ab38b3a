-------------------------- MODULE InvariantProofs ---------------------------
(***************************************************************************)
(* The safety invariants of the transaction families, for all constants:   *)
(* the lifecycle and the terms of swaps, key records and their links in    *)
(* accounts, and the state before genesis.                                 *)
(***************************************************************************)
EXTENDS TransactionProcessorProofs

(* Only the AtomicSwap family writes swaps, or over other records.         *)
LEMMA SwapWriters ==
    ASSUME [Next]_vars
    PROVE  UNCHANGED <<swap, overwritten>> \/ SwapNext
BY DEF Next, apply, Environment, SwapEnvironmentNext, NewBlock, SetCommission,
       SetEconomyEnabled, vars, swapVars

(* What _swap_close does to all that it does not write an Account over:    *)
(* the swap itself is closed, the other swaps, the keys and their links    *)
(* and the genesis status stay.                                            *)
LEMMA CloseEffect ==
    ASSUME TypeOK, NEW signer, NEW id \in SwapIds, NEW key \in SecretKeys,
           swap_close(signer, id, key)
    PROVE  /\ overwritten \subseteq overwritten'
           /\ id \notin overwritten' => swap'[id] = closed(id, key)
           /\ \A i \in SwapIds \ overwritten' : i # id => swap'[i] = swap[i]
           /\ \A k \in PubKeys \ overwritten' : pub_key'[k] = pub_key[k]
           /\ GENESIS_ADDRESS \notin overwritten' => UNCHANGED genesis_status
           /\ \A a \in Addresses : account'[a].pub_keys = account[a].pub_keys
           /\ UNCHANGED <<issue, unpaid, economy_enabled>>
<1>a. /\ swap \in [SwapIds -> AtomicSwapInfo \cup {None}]
      /\ pub_key \in [PubKeys -> PubKeyStorage \cup {None}]
      /\ account \in [Addresses -> Account]
  BY DEF TypeOK, SwapTypeOK, PubKeyTypeOK, AccountTypeOK
<1>1. CASE close_to_account(id, key)
  BY <1>a, <1>1 DEF close_to_account, credit, Account, pubKeyVars
<1>2. CASE close_over_record(id, key)
  <2> DEFINE r == swap[id].receiver_address
             swap_closed == [swap EXCEPT ![id] = closed(id, key)]
  <2>1. /\ swap_closed[id] = closed(id, key)
        /\ \A i \in SwapIds : i # id => swap_closed[i] = swap[i]
        /\ DOMAIN swap_closed = SwapIds
    BY <1>a
  <2>2. /\ \/ r \in SwapIds /\ \E info \in AsSwap : swap' = [swap_closed EXCEPT ![r] = info]
           \/ swap' = swap_closed
        /\ \/ r \in PubKeys /\ \E storage \in AsPubKey : pub_key' = [pub_key EXCEPT ![r] = storage]
           \/ UNCHANGED pub_key
        /\ r = GENESIS_ADDRESS \/ UNCHANGED genesis_status
        /\ overwritten' = overwritten \cup {r}
        /\ UNCHANGED <<account, issue, unpaid, economy_enabled>>
    BY <1>2 DEF close_over_record
  <2> HIDE DEF r, swap_closed
  <2>3. \A i \in SwapIds \ overwritten' : swap'[i] = swap_closed[i]
    BY <2>1, <2>2
  <2>4. \A k \in PubKeys \ overwritten' : pub_key'[k] = pub_key[k]
    BY <1>a, <2>2
  <2> QED
    BY <2>1, <2>2, <2>3, <2>4
<1> QED
  BY <1>1, <1>2 DEF swap_close

(* What was once overwritten stays among the overwritten records.          *)
LEMMA OverwrittenGrows ==
    ASSUME TypeOK, [Next]_vars
    PROVE  overwritten \subseteq overwritten'
<1>1. CASE SwapNext
  <2> PICK signer \in Signers, id \in SwapIds :
        \/ \E r \in Receivers, n \in Amounts, l \in Locks \cup {NoLock} :
              swap_init(signer, id, r, n, l)
        \/ \E l \in Locks : swap_set_lock(signer, id, l)
        \/ swap_approve(signer, id)
        \/ swap_expire(signer, id)
        \/ \E key \in SecretKeys : swap_close(signer, id, key)
    BY <1>1 DEF SwapNext
  <2> QED
    BY CloseEffect DEF swap_init, swap_set_lock, swap_approve, swap_expire
<1> QED
  BY <1>1, SwapWriters

(* Each of the five methods of the AtomicSwap family keeps the lock, the   *)
(* key and the state of every swap consistent.                             *)
LEMMA LifecycleStep ==
    ASSUME TypeOK, SwapLifecycle, SwapNext
    PROVE  SwapLifecycle'
<1> PICK signer \in Signers, id \in SwapIds :
        \/ \E r \in Receivers, n \in Amounts, l \in Locks \cup {NoLock} :
              swap_init(signer, id, r, n, l)
        \/ \E l \in Locks : swap_set_lock(signer, id, l)
        \/ swap_approve(signer, id)
        \/ swap_expire(signer, id)
        \/ \E key \in SecretKeys : swap_close(signer, id, key)
  BY DEF SwapNext
<1>a. swap \in [SwapIds -> AtomicSwapInfo \cup {None}]
  BY DEF TypeOK, SwapTypeOK
<1>0. /\ overwritten \subseteq overwritten'
      /\ \A other \in SwapIds \ overwritten' : other # id => swap'[other] = swap[other]
  BY <1>a, CloseEffect DEF swap_init, swap_set_lock, swap_approve, swap_expire
<1> SUFFICES ASSUME id \notin overwritten' PROVE Consistent(swap'[id])
  BY <1>0 DEF SwapLifecycle, Consistent
<1>b. swap[id] # None => swap[id] \in AtomicSwapInfo /\ Consistent(swap[id])
  BY <1>a, <1>0 DEF SwapLifecycle
<1>1. CASE \E r \in Receivers, n \in Amounts, l \in Locks \cup {NoLock} :
              swap_init(signer, id, r, n, l)
  <2> PICK r \in Receivers, n \in Amounts, l \in Locks \cup {NoLock} :
              swap_init(signer, id, r, n, l)
    BY <1>1
  <2>1. n > 0
    BY AccountAssumption DEF swap_init, AtomicSwapInitPayloadForm
  <2> QED
    BY <1>a, <2>1 DEF swap_init, Consistent, OPENED, SECRET_LOCK_PROVIDED, APPROVED, CLOSED
<1>2. CASE \E l \in Locks : swap_set_lock(signer, id, l)
  <2> PICK l \in Locks : swap_set_lock(signer, id, l)
    BY <1>2
  <2>1. /\ swap[id] \in AtomicSwapInfo /\ Consistent(swap[id])
        /\ swap[id].state # CLOSED
        /\ swap[id].secret_lock = NoLock
    BY <1>b DEF swap_set_lock, permitted_to_change, NOT_PERMITTED_TO_CHANGE_SWAP_STATUSES
  <2>2. swap' = [swap EXCEPT ![id] = [swap[id] EXCEPT !.secret_lock = l,
                                                     !.state = SECRET_LOCK_PROVIDED]]
    BY <1>a, <2>1 DEF swap_set_lock, AtomicSwapInfo
  <2>3. /\ swap'[id].secret_lock = l
        /\ swap'[id].state = SECRET_LOCK_PROVIDED
        /\ swap'[id].secret_key = swap[id].secret_key
        /\ swap'[id].is_initiator = swap[id].is_initiator
        /\ swap'[id].amount = swap[id].amount
    BY <1>a, <2>1, <2>2 DEF AtomicSwapInfo
  <2> QED
    BY <1>a, <2>1, <2>2, <2>3, SwapAssumption
       DEF Consistent, OPENED, SECRET_LOCK_PROVIDED, APPROVED, CLOSED
<1>3. CASE swap_approve(signer, id)
  BY <1>3, <1>a, <1>b
     DEF swap_approve, permitted_to_change, NOT_PERMITTED_TO_CHANGE_SWAP_STATUSES, Consistent,
         AtomicSwapInfo, OPENED, SECRET_LOCK_PROVIDED, APPROVED, CLOSED, EXPIRED
<1>4. CASE swap_expire(signer, id)
  BY <1>4, <1>a, <1>b
     DEF swap_expire, permitted_to_change, NOT_PERMITTED_TO_CHANGE_SWAP_STATUSES, Consistent,
         AtomicSwapInfo, OPENED, SECRET_LOCK_PROVIDED, APPROVED, CLOSED, EXPIRED
<1>5. CASE \E key \in SecretKeys : swap_close(signer, id, key)
  <2> PICK key \in SecretKeys : swap_close(signer, id, key)
    BY <1>5
  <2>1. /\ swap[id] \in AtomicSwapInfo /\ Consistent(swap[id])
        /\ swap[id].secret_lock # NoLock
        /\ Hash[key] = swap[id].secret_lock
    BY <1>b DEF swap_close, may_close, permitted_to_change
  <2>2. swap'[id] = [swap[id] EXCEPT !.secret_key = key, !.state = CLOSED]
    <3>1. swap'[id] = closed(id, key)
      BY CloseEffect
    <3> QED
      BY <3>1 DEF closed
  <2>3. /\ swap'[id].secret_lock = swap[id].secret_lock
        /\ swap'[id].state = CLOSED
        /\ swap'[id].secret_key = key
        /\ swap'[id].is_initiator = swap[id].is_initiator
        /\ swap'[id].amount = swap[id].amount
    BY <1>a, <2>1, <2>2 DEF AtomicSwapInfo
  <2> QED
    BY <1>a, <2>1, <2>2, <2>3, SwapAssumption
       DEF Consistent, OPENED, SECRET_LOCK_PROVIDED, APPROVED, CLOSED
<1> QED
  BY <1>1, <1>2, <1>3, <1>4, <1>5

(* However the five methods are interleaved, by whomever, the lock, the    *)
(* key and the state of every swap fit together.                           *)
THEOREM LifecycleCorrect == Spec => []SwapLifecycle
<1>1. Init => SwapLifecycle
  BY DEF Init, SwapInit, SwapLifecycle
<1>2. TypeOK /\ SwapLifecycle /\ [Next]_vars => SwapLifecycle'
  <2> SUFFICES ASSUME TypeOK, SwapLifecycle, [Next]_vars PROVE SwapLifecycle'
    OBVIOUS
  <2>1. CASE UNCHANGED <<swap, overwritten>>
    BY <2>1 DEF SwapLifecycle, Consistent
  <2> QED
    BY <2>1, SwapWriters, LifecycleStep
<1> QED
  BY <1>1, <1>2, TypeCorrect, PTL DEF Spec

-----------------------------------------------------------------------------
\* What a step may change of one swap.
TermsKept(old, new) ==
    /\ new # None
    /\ new.amount = old.amount
    /\ new.created_at = old.created_at
    /\ new.sender_address = old.sender_address
    /\ new.receiver_address = old.receiver_address
    /\ new.is_initiator = old.is_initiator
    /\ old.secret_lock # NoLock => new.secret_lock = old.secret_lock
    /\ old.state = APPROVED => new.state \in {APPROVED, CLOSED, EXPIRED}
    /\ old.state \in {CLOSED, EXPIRED} => new = old

(* Each of the five methods keeps the terms of every swap.  That an        *)
(* approved swap has its lock, so that none can be set, is SwapLifecycle.  *)
LEMMA TermsStep ==
    ASSUME TypeOK, SwapLifecycle, SwapNext, NEW i \in SwapIds \ overwritten', swap[i] # None
    PROVE  TermsKept(swap[i], swap'[i])
<1> PICK signer \in Signers, id \in SwapIds :
        \/ \E r \in Receivers, n \in Amounts, l \in Locks \cup {NoLock} :
              swap_init(signer, id, r, n, l)
        \/ \E l \in Locks : swap_set_lock(signer, id, l)
        \/ swap_approve(signer, id)
        \/ swap_expire(signer, id)
        \/ \E key \in SecretKeys : swap_close(signer, id, key)
  BY DEF SwapNext
<1>a. swap \in [SwapIds -> AtomicSwapInfo \cup {None}]
  BY DEF TypeOK, SwapTypeOK
<1>0. i \notin overwritten
  BY CloseEffect DEF swap_init, swap_set_lock, swap_approve, swap_expire
<1>b. swap[i] \in AtomicSwapInfo /\ Consistent(swap[i])
  BY <1>a, <1>0 DEF SwapLifecycle
<1>c. None \notin AtomicSwapInfo
  BY SwapAssumption
<1>1. CASE i # id
  <2>1. swap'[i] = swap[i]
    BY <1>1, <1>a, CloseEffect DEF swap_init, swap_set_lock, swap_approve, swap_expire
  <2> QED
    BY <2>1 DEF TermsKept
<1>2. CASE i = id
  <2>1. ~\E r \in Receivers, n \in Amounts, l \in Locks \cup {NoLock} :
            swap_init(signer, id, r, n, l)
    BY <1>2 DEF swap_init
  <2>2. swap[i].state \notin {CLOSED, EXPIRED}
    BY <1>2, <2>1 DEF swap_set_lock, swap_approve, swap_expire, swap_close, may_close,
                      permitted_to_change, NOT_PERMITTED_TO_CHANGE_SWAP_STATUSES
  <2>3. CASE \E l \in Locks : swap_set_lock(signer, id, l)
    <3> PICK l \in Locks : swap_set_lock(signer, id, l)
      BY <2>3
    <3>1. swap'[i] = [swap[i] EXCEPT !.secret_lock = l, !.state = SECRET_LOCK_PROVIDED]
      BY <1>2, <1>a, <1>b DEF swap_set_lock, AtomicSwapInfo
    <3>2. swap[i].secret_lock = NoLock /\ swap[i].state # APPROVED
      BY <1>2, <1>b DEF swap_set_lock, Consistent
    <3>3. swap'[i] # None
      <4>1. swap'[i] \in AtomicSwapInfo
        BY <1>b, <3>1 DEF AtomicSwapInfo, SECRET_LOCK_PROVIDED
      <4> QED
        BY <4>1, <1>c
    <3> QED
      BY <1>b, <2>2, <3>1, <3>2, <3>3 DEF AtomicSwapInfo, TermsKept
  <2>4. CASE swap_approve(signer, id)
    <3>1. swap'[i] = [swap[i] EXCEPT !.state = APPROVED]
      BY <1>2, <1>a, <1>b, <2>4 DEF swap_approve, AtomicSwapInfo
    <3>2. swap'[i] # None
      <4>1. swap'[i] \in AtomicSwapInfo
        BY <1>b, <3>1 DEF AtomicSwapInfo, APPROVED
      <4> QED
        BY <4>1, <1>c
    <3> QED
      BY <1>b, <2>2, <3>1, <3>2 DEF AtomicSwapInfo, TermsKept
  <2>5. CASE swap_expire(signer, id)
    <3>1. swap'[i] = [swap[i] EXCEPT !.state = EXPIRED]
      BY <1>2, <1>a, <1>b, <2>5 DEF swap_expire, AtomicSwapInfo
    <3>2. swap'[i] # None
      <4>1. swap'[i] \in AtomicSwapInfo
        BY <1>b, <3>1 DEF AtomicSwapInfo, EXPIRED
      <4> QED
        BY <4>1, <1>c
    <3> QED
      BY <1>b, <2>2, <3>1, <3>2 DEF AtomicSwapInfo, TermsKept
  <2>6. CASE \E key \in SecretKeys : swap_close(signer, id, key)
    <3> PICK key \in SecretKeys : swap_close(signer, id, key)
      BY <2>6
    <3>1. swap'[i] = [swap[i] EXCEPT !.secret_key = key, !.state = CLOSED]
      <4>1. swap'[id] = closed(id, key)
        BY <1>2, CloseEffect
      <4> QED
        BY <1>2, <4>1 DEF closed
    <3>2. swap'[i] # None
      <4>1. swap'[i] \in AtomicSwapInfo
        BY <1>b, <3>1 DEF AtomicSwapInfo, CLOSED
      <4> QED
        BY <4>1, <1>c
    <3> QED
      BY <1>b, <2>2, <3>1, <3>2 DEF AtomicSwapInfo, TermsKept
  <2> QED
    BY <2>1, <2>3, <2>4, <2>5, <2>6
<1> QED
  BY <1>1, <1>2

(* What was agreed when a swap was opened never changes, its lock is set   *)
(* at most once, and a closed or expired swap is final, whatever           *)
(* transactions of whatever family and signer come in between, but for one *)
(* that closes a swap with this one's address as its receiver.             *)
THEOREM TermsFixedCorrect == Spec => SwapTermsFixed
<1>1. TypeOK /\ SwapLifecycle /\ [Next]_vars =>
          [\A id \in SwapIds \ overwritten' :
              swap[id] # None => TermsKept(swap[id], swap'[id])]_vars
  <2> SUFFICES ASSUME TypeOK, SwapLifecycle, [Next]_vars,
                      NEW id \in SwapIds \ overwritten', swap[id] # None
               PROVE  TermsKept(swap[id], swap'[id])
    OBVIOUS
  <2>1. CASE UNCHANGED swap
    BY <2>1 DEF TermsKept
  <2> QED
    BY <2>1, SwapWriters, TermsStep
<1> QED
  BY <1>1, TypeCorrect, LifecycleCorrect, PTL DEF Spec, SwapTermsFixed, TermsKept

(* Where local time keeps its distance from UTC, a deposit is refunded     *)
(* only when 24 or 48 hours have really passed: what _swap_expire compares *)
(* are two local times, and their difference is that of the timestamps.    *)
THEOREM RefundsTimely ==
    ASSUME \A t, u \in Timestamps : UtcOffset[t] = UtcOffset[u]
    PROVE  Spec => RefundedOnlyAfterTimeLock
<1> DEFINE Refunded(id) ==
        (swap[id] # None /\ swap[id].state # EXPIRED /\ swap'[id].state = EXPIRED) =>
            block_timestamp - swap[id].created_at >= (IF swap[id].is_initiator THEN 24 ELSE 48)
<1>1. TypeOK /\ [Next]_vars => [\A id \in SwapIds \ overwritten' : Refunded(id)]_vars
  <2> SUFFICES ASSUME TypeOK, [Next]_vars, NEW id \in SwapIds \ overwritten', swap[id] # None,
                      swap[id].state # EXPIRED, swap'[id].state = EXPIRED
               PROVE  block_timestamp - swap[id].created_at >=
                          (IF swap[id].is_initiator THEN 24 ELSE 48)
    OBVIOUS
  <2>a. /\ swap \in [SwapIds -> AtomicSwapInfo \cup {None}]
        /\ swap[id] \in AtomicSwapInfo
        /\ block_timestamp \in Timestamps \cup {None}
    BY DEF TypeOK, SwapTypeOK
  <2>1. PICK signer \in Signers, other \in SwapIds :
            \/ \E r \in Receivers, n \in Amounts, l \in Locks \cup {NoLock} :
                  swap_init(signer, other, r, n, l)
            \/ \E l \in Locks : swap_set_lock(signer, other, l)
            \/ swap_approve(signer, other)
            \/ swap_expire(signer, other)
            \/ \E key \in SecretKeys : swap_close(signer, other, key)
    BY SwapWriters DEF SwapNext
  <2>2. other = id
    BY <2>1, <2>a, CloseEffect DEF swap_init, swap_set_lock, swap_approve, swap_expire
  <2>3. swap_expire(signer, id)
    <3>1. ~\E r \in Receivers, n \in Amounts, l \in Locks \cup {NoLock} :
              swap_init(signer, id, r, n, l)
      BY DEF swap_init
    <3>2. ASSUME NEW l \in Locks, swap_set_lock(signer, id, l)
          PROVE  swap'[id].state = SECRET_LOCK_PROVIDED
      BY <3>2, <2>a DEF swap_set_lock, AtomicSwapInfo
    <3>3. swap_approve(signer, id) => swap'[id].state = APPROVED
      BY <2>a DEF swap_approve, AtomicSwapInfo
    <3>4. ASSUME NEW key \in SecretKeys, swap_close(signer, id, key)
          PROVE  swap'[id].state = CLOSED
      <4>1. swap'[id] = closed(id, key)
        BY <3>4, CloseEffect
      <4> QED
        BY <4>1, <2>a DEF closed, AtomicSwapInfo
    <3> QED
      BY <2>1, <2>2, <3>1, <3>2, <3>3, <3>4 DEF SECRET_LOCK_PROVIDED, APPROVED, CLOSED, EXPIRED
  <2>4. /\ block_timestamp \in Nat /\ block_timestamp \in Timestamps
        /\ swap[id].created_at \in Nat /\ swap[id].created_at \in Timestamps
    BY <2>3, <2>a, SwapAssumption DEF swap_expire, AtomicSwapInfo
  <2>5. UtcOffset[block_timestamp] \in Int /\ UtcOffset[swap[id].created_at] = UtcOffset[block_timestamp]
    BY <2>4, SwapAssumption
  <2> QED
    BY <2>3, <2>4, <2>5 DEF swap_expire, get_datetime_from_timestamp, time_lock,
                            INTIATOR_TIME_LOCK, NON_INTIATOR_TIME_LOCK
<1> QED
  BY <1>1, TypeCorrect, PTL DEF Spec, RefundedOnlyAfterTimeLock

-----------------------------------------------------------------------------
(* A transfer leaves the keys linked to every account alone.               *)
LEMMA TransferKeepsLinks ==
    ASSUME AccountTypeOK, NEW a \in Addresses, NEW b \in Addresses, NEW v,
           NEW x \in Addresses
    PROVE  transfer_from_address(a, b, v)[x].pub_keys = account[x].pub_keys
BY DEF AccountTypeOK, transfer_from_address, Account

(* So does paying for the storage of a key.                                *)
LEMMA ChargeKeepsLinks ==
    ASSUME AccountTypeOK, NEW a \in Signers, NEW x \in Addresses
    PROVE  charge_for_storing(a)[x].pub_keys = account[x].pub_keys
<1>1. a \in Addresses /\ ZERO_ADDRESS \in Addresses
  BY DEF Addresses
<1> QED
  BY <1>1, TransferKeepsLinks DEF charge_for_storing

(* The steps that neither issue tokens nor store a key keep all links and  *)
(* the owner of every key whose record they do not overwrite.              *)
LinksKept ==
    /\ \A a \in Addresses : account'[a].pub_keys = account[a].pub_keys
    /\ \A k \in PubKeys \ overwritten' :
          /\ pub_key[k] = None <=> pub_key'[k] = None
          /\ pub_key[k] # None => pub_key'[k].owner = pub_key[k].owner
    /\ UNCHANGED issue

Issued(signer, total_supply) == genesis(signer, total_supply) /\ UNCHANGED pub_key

\* A key without a record is given to an owner, whose account links it.
Stored(owner, k) ==
    /\ pub_key[k] = None
    /\ pub_key' \in [PubKeys -> PubKeyStorage \cup {None}]
    /\ \A j \in PubKeys \ {k} : pub_key'[j] = pub_key[j]
    /\ pub_key'[k] # None /\ pub_key'[k].owner = owner
    /\ account'[owner].pub_keys = account[owner].pub_keys \cup {k}
    /\ \A a \in Addresses \ {owner} : account'[a].pub_keys = account[a].pub_keys
    /\ UNCHANGED issue

(* What a transfer does to the links.                                      *)
LEMMA AccountLinks ==
    ASSUME TypeOK, AccountNext, UNCHANGED pub_key
    PROVE  LinksKept \/ \E s \in Signers, n \in Supplies : Issued(s, n)
<1>1. CASE \E s \in Signers, n \in Supplies : genesis(s, n)
  BY <1>1 DEF Issued
<1>2. CASE \E s \in Signers, b \in Addresses, v \in Amounts : transfer(s, b, v)
  <2> PICK s \in Signers, b \in Addresses, v \in Amounts : transfer(s, b, v)
    BY <1>2
  <2>1. s \in Addresses
    BY DEF Addresses
  <2> QED
    BY <2>1, TransferKeepsLinks DEF transfer, LinksKept, TypeOK
<1> QED
  BY <1>1, <1>2 DEF AccountNext

(* What the AtomicSwap family does to the links.                           *)
LEMMA SwapLinks ==
    ASSUME TypeOK, SwapNext
    PROVE  LinksKept
<1> PICK signer \in Signers, id \in SwapIds :
        \/ \E r \in Receivers, n \in Amounts, l \in Locks \cup {NoLock} :
              swap_init(signer, id, r, n, l)
        \/ \E l \in Locks : swap_set_lock(signer, id, l)
        \/ swap_approve(signer, id)
        \/ swap_expire(signer, id)
        \/ \E key \in SecretKeys : swap_close(signer, id, key)
  BY DEF SwapNext
<1>a. signer \in Addresses /\ ZERO_ADDRESS \in Addresses
  BY DEF Addresses
<1>b. account \in [Addresses -> Account] /\ AccountTypeOK
  BY DEF TypeOK, AccountTypeOK
<1>1. CASE \E r \in Receivers, n \in Amounts, l \in Locks \cup {NoLock} :
              swap_init(signer, id, r, n, l)
  <2> PICK r \in Receivers, n \in Amounts, l \in Locks \cup {NoLock} :
              swap_init(signer, id, r, n, l)
    BY <1>1
  <2> DEFINE t == transfer_from_address(signer, ZERO_ADDRESS, commission)
  <2>1. commission \in Nat /\ may_transfer_from_address(signer, ZERO_ADDRESS, commission)
    BY SwapAssumption DEF swap_init, TypeOK, SwapTypeOK
  <2>2. t \in [Addresses -> Account]
    BY <1>a, <1>b, <2>1, TransferTypeOK
  <2>3. \A a \in Addresses : t[a].pub_keys = account[a].pub_keys
    BY <1>a, <1>b, TransferKeepsLinks
  <2>4. account' = [t EXCEPT ![signer].balance = @ - n] /\ UNCHANGED issue
    BY DEF swap_init
  <2>5. \A a \in Addresses : account'[a].pub_keys = t[a].pub_keys
    <3> HIDE DEF t
    <3> QED
      BY <2>2, <2>4, <1>a DEF Account
  <2> QED
    BY <2>3, <2>4, <2>5 DEF swap_init, pubKeyVars, LinksKept
<1>2. CASE \/ \E l \in Locks : swap_set_lock(signer, id, l)
           \/ swap_approve(signer, id)
  BY <1>2 DEF swap_set_lock, swap_approve, accountVars, pubKeyVars, LinksKept
<1>3. CASE swap_expire(signer, id)
  BY <1>3, <1>b DEF swap_expire, credit, Account, pubKeyVars, LinksKept
<1>4. CASE \E key \in SecretKeys : swap_close(signer, id, key)
  BY <1>4, CloseEffect DEF LinksKept
<1> QED
  BY <1>1, <1>2, <1>3, <1>4

(* What the pub_key family does to the links and records.                  *)
LEMMA PubKeyLinks ==
    ASSUME TypeOK, PubKeyNext
    PROVE  LinksKept \/ \E owner \in Signers, k \in PubKeys : Stored(owner, k)
<1>a. Signers \subseteq Addresses /\ ZERO_ADDRESS \in Addresses
  BY DEF Addresses
<1>b. AccountTypeOK /\ PubKeyTypeOK /\ account \in [Addresses -> Account]
  BY DEF TypeOK, AccountTypeOK
<1>c. pub_key \in [PubKeys -> PubKeyStorage \cup {None}]
  BY DEF TypeOK, PubKeyTypeOK
<1>d. PubKeyTypeOK'
  BY <1>b, PubKeyNextTypeOK
<1>1. ASSUME NEW signer \in Signers, NEW payload \in NewPubKeyPayload,
             store_pub_key(signer, payload)
      PROVE  Stored(signer, payload.public_key)
  <2> DEFINE k == payload.public_key
             state == charge_for_storing(signer)
  <2>1. state \in [Addresses -> Account]
    BY <1>1, <1>b, ChargeTypeOK DEF store_pub_key
  <2>2. \A a \in Addresses : state[a].pub_keys = account[a].pub_keys
    BY <1>b, ChargeKeepsLinks
  <2>3. account' = [state EXCEPT ![signer] = store_public_key_to_account(k, state[signer])]
    BY <1>1 DEF store_pub_key
  <2>4. NewPubKeyStorage(signer, payload) \in PubKeyStorage /\ k \in PubKeys
    BY StorageTypeOK
  <2>5. /\ account'[signer].pub_keys = account[signer].pub_keys \cup {k}
        /\ \A a \in Addresses \ {signer} : account'[a].pub_keys = account[a].pub_keys
    <3> HIDE DEF state
    <3> QED
      BY <1>a, <2>1, <2>2, <2>3 DEF store_public_key_to_account, Account
  <2>6. /\ pub_key[k] = None
        /\ pub_key' = [pub_key EXCEPT ![k] = NewPubKeyStorage(signer, payload)]
        /\ UNCHANGED issue
    BY <1>1 DEF store_pub_key
  <2>7. /\ pub_key'[k] = NewPubKeyStorage(signer, payload)
        /\ \A j \in PubKeys \ {k} : pub_key'[j] = pub_key[j]
    BY <1>c, <2>4, <2>6
  <2>8. pub_key'[k] # None
    BY <2>4, <2>7, PubKeyAssumption
  <2>9. pub_key'[k].owner = signer
    BY <2>7 DEF NewPubKeyStorage
  <2> QED
    BY <1>d, <2>5, <2>6, <2>7, <2>8, <2>9 DEF Stored, PubKeyTypeOK
<1>2. ASSUME NEW signer \in Signers, NEW owner \in Signers, NEW sig \in Signers,
             NEW payload \in NewPubKeyPayload,
             store_public_key_for_other(signer, owner, sig, payload)
      PROVE  Stored(owner, payload.public_key)
  <2> DEFINE k == payload.public_key
             state == charge_for_storing(signer)
  <2>1. state \in [Addresses -> Account]
    BY <1>2, <1>b, ChargeTypeOK DEF store_public_key_for_other
  <2>2. \A a \in Addresses : state[a].pub_keys = account[a].pub_keys
    BY <1>b, ChargeKeepsLinks
  <2>3. account' = [state EXCEPT ![owner] = store_public_key_to_account(k, account[owner])]
    BY <1>2 DEF store_public_key_for_other
  <2>4. NewPubKeyStorage(owner, payload) \in PubKeyStorage /\ k \in PubKeys
    BY StorageTypeOK
  <2>5. /\ account'[owner].pub_keys = account[owner].pub_keys \cup {k}
        /\ \A a \in Addresses \ {owner} : account'[a].pub_keys = account[a].pub_keys
    <3> HIDE DEF state
    <3> QED
      BY <1>a, <1>b, <2>1, <2>2, <2>3 DEF store_public_key_to_account, Account
  <2>6. /\ pub_key[k] = None
        /\ pub_key' = [pub_key EXCEPT ![k] = NewPubKeyStorage(owner, payload)]
        /\ UNCHANGED issue
    BY <1>2 DEF store_public_key_for_other
  <2>7. /\ pub_key'[k] = NewPubKeyStorage(owner, payload)
        /\ \A j \in PubKeys \ {k} : pub_key'[j] = pub_key[j]
    BY <1>c, <2>4, <2>6
  <2>8. pub_key'[k] # None
    BY <2>4, <2>7, PubKeyAssumption
  <2>9. pub_key'[k].owner = owner
    BY <2>7 DEF NewPubKeyStorage
  <2> QED
    BY <1>d, <2>5, <2>6, <2>7, <2>8, <2>9 DEF Stored, PubKeyTypeOK
<1>3. ASSUME NEW signer \in Signers, NEW k \in PubKeys, revoke_pub_key(signer, k)
      PROVE  LinksKept
  <2>1. pub_key[k] \in PubKeyStorage
    BY <1>3, <1>c DEF revoke_pub_key
  <2>2. pub_key'[k] = [pub_key[k] EXCEPT !.is_revoked = TRUE]
    BY <1>3, <1>c DEF revoke_pub_key
  <2>3. pub_key'[k] \in PubKeyStorage /\ pub_key'[k].owner = pub_key[k].owner
    BY <2>1, <2>2 DEF PubKeyStorage
  <2>4. pub_key'[k] # None /\ pub_key[k] # None
    BY <2>1, <2>3, PubKeyAssumption
  <2> QED
    BY <1>3, <1>c, <2>3, <2>4 DEF revoke_pub_key, accountVars, LinksKept
<1> QED
  BY <1>1, <1>2, <1>3, StorageTypeOK DEF PubKeyNext

(* Every step keeps the links, issues the tokens or stores a key.          *)
LEMMA LinkSteps ==
    ASSUME TypeOK, [Next]_vars
    PROVE  \/ LinksKept
           \/ \E s \in Signers, n \in Supplies : Issued(s, n)
           \/ \E owner \in Signers, k \in PubKeys : Stored(owner, k)
<1>1. CASE AccountNext /\ UNCHANGED <<swapVars, pubKeyVars>>
  BY <1>1, AccountLinks DEF pubKeyVars
<1>2. CASE SwapNext
  BY <1>2, SwapLinks
<1>3. CASE PubKeyNext /\ UNCHANGED swapVars
  BY <1>3, PubKeyLinks
<1>4. CASE Environment
  BY <1>4 DEF Environment, SwapEnvironmentNext, NewBlock, SetCommission, SetEconomyEnabled,
              accountVars, pubKeyVars, LinksKept
<1>5. CASE UNCHANGED vars
  BY <1>5 DEF vars, accountVars, pubKeyVars, LinksKept
<1> QED
  BY <1>1, <1>2, <1>3, <1>4, <1>5 DEF Next, apply
-----------------------------------------------------------------------------
(* An account lists only keys whose record names it as the owner, whoever  *)
(* paid for them and whatever became of the account since, or whose record *)
(* was overwritten.                                                        *)
THEOREM OnlyOwnKeysCorrect == Spec => []OnlyOwnKeysLinked
<1>1. Init => OnlyOwnKeysLinked
  BY DEF Init, AccountInit, NewAccount, OnlyOwnKeysLinked
<1>2. TypeOK /\ OnlyOwnKeysLinked /\ [Next]_vars => OnlyOwnKeysLinked'
  <2> SUFFICES ASSUME TypeOK, OnlyOwnKeysLinked, [Next]_vars,
                      NEW a \in Addresses, NEW k \in account'[a].pub_keys \ overwritten'
               PROVE  pub_key'[k] # None /\ pub_key'[k].owner = a
    BY DEF OnlyOwnKeysLinked
  <2>a. account \in [Addresses -> Account] /\ account' \in [Addresses -> Account]
    <3>1. TypeOK'
      BY TypeStep
    <3> QED
      BY <3>1 DEF TypeOK, AccountTypeOK
  <2>b. k \in PubKeys /\ k \notin overwritten
    BY <2>a, OverwrittenGrows DEF Account
  <2>c. \A b \in Addresses : \A j \in account[b].pub_keys \ overwritten :
            pub_key[j] # None /\ pub_key[j].owner = b
    BY DEF OnlyOwnKeysLinked
  <2>1. CASE LinksKept
    BY <2>1, <2>b, <2>c DEF LinksKept
  <2>2. CASE \E s \in Signers, n \in Supplies : Issued(s, n)
    <3> PICK s \in Signers, n \in Supplies : Issued(s, n)
      BY <2>2
    <3>1. k \in account[a].pub_keys
      BY <2>a DEF Issued, genesis, NewAccount, Account
    <3> QED
      BY <3>1, <2>b, <2>c DEF Issued
  <2>3. CASE \E owner \in Signers, j \in PubKeys : Stored(owner, j)
    <3> PICK owner \in Signers, j \in PubKeys : Stored(owner, j)
      BY <2>3
    <3>1. CASE k = j
      <4>1. k \notin account[a].pub_keys
        BY <3>1, <2>b, <2>c DEF Stored
      <4>2. a = owner
        BY <4>1 DEF Stored
      <4> QED
        BY <3>1, <4>2 DEF Stored
    <3>2. CASE k # j
      <4>1. k \in account[a].pub_keys
        BY <3>2 DEF Stored
      <4> QED
        BY <3>2, <4>1, <2>b, <2>c DEF Stored
    <3> QED
      BY <3>1, <3>2
  <2> QED
    BY <2>1, <2>2, <2>3, LinkSteps
<1> QED
  BY <1>1, <1>2, TypeCorrect, PTL DEF Spec

-----------------------------------------------------------------------------
(* Nobody can pay anything while all balances are zero.                    *)
LEMMA NothingToSpend ==
    ASSUME NEW a, account[a].balance = 0, NEW b, NEW v \in Nat
    PROVE  ~may_transfer_from_address(a, b, v)
BY DEF may_transfer_from_address

(* Only _genesis changes the genesis status, or writes over it.            *)
LEMMA StatusWriters ==
    ASSUME TypeOK, [Next]_vars, GENESIS_ADDRESS \notin overwritten'
    PROVE  UNCHANGED genesis_status \/ \E s \in Signers, n \in Supplies : genesis(s, n)
<1>1. CASE AccountNext
  BY <1>1 DEF AccountNext, transfer
<1>2. CASE SwapNext
  <2> PICK signer \in Signers, id \in SwapIds :
        \/ \E r \in Receivers, n \in Amounts, l \in Locks \cup {NoLock} :
              swap_init(signer, id, r, n, l)
        \/ \E l \in Locks : swap_set_lock(signer, id, l)
        \/ swap_approve(signer, id)
        \/ swap_expire(signer, id)
        \/ \E key \in SecretKeys : swap_close(signer, id, key)
    BY <1>2 DEF SwapNext
  <2> QED
    BY CloseEffect DEF swap_init, swap_set_lock, swap_approve, swap_expire, accountVars
<1>3. CASE PubKeyNext
  BY <1>3 DEF PubKeyNext, store_pub_key, store_public_key_for_other, revoke_pub_key, accountVars
<1>4. CASE Environment
  BY <1>4 DEF Environment, SwapEnvironmentNext, NewBlock, SetCommission, SetEconomyEnabled,
              accountVars
<1>5. CASE UNCHANGED vars
  BY <1>5 DEF vars, accountVars
<1> QED
  BY <1>1, <1>2, <1>3, <1>4, <1>5 DEF Next, apply

(* Before the genesis transaction there are no tokens, no swaps and no     *)
(* unpaid keys, whatever transactions are tried: transfers and swaps fail  *)
(* for want of tokens, and a key can only be stored with the economy off.  *)
(* So no swap can be closed over the genesis status either.                *)
THEOREM NothingBeforeGenesisCorrect == Spec => []NothingBeforeGenesis
<1>1. Init => NothingBeforeGenesis
  BY DEF Init, AccountInit, SwapInit, PubKeyInit, NewAccount, NothingBeforeGenesis
<1>2. TypeOK /\ NothingBeforeGenesis /\ [Next]_vars => NothingBeforeGenesis'
  <2> SUFFICES ASSUME TypeOK, NothingBeforeGenesis, [Next]_vars,
                      genesis_status' # TRUE, GENESIS_ADDRESS \notin overwritten'
               PROVE  /\ genesis_status' = None
                      /\ overwritten' = {}
                      /\ \A a \in Addresses : account'[a].balance = 0
                      /\ \A id \in SwapIds : swap'[id] = None
                      /\ unpaid' = {}
                      /\ issue'.address = None
    BY DEF NothingBeforeGenesis
  <2>a. Signers \subseteq Addresses /\ ZERO_ADDRESS \in Addresses
    BY DEF Addresses
  <2>0. GENESIS_ADDRESS \notin overwritten
    BY OverwrittenGrows
  <2>b. genesis_status = None /\ ~AccountNext /\ UNCHANGED genesis_status
    <3>1. ~\E s \in Signers, n \in Supplies : genesis(s, n)
      BY <2>0 DEF genesis, NothingBeforeGenesis
    <3>2. genesis_status # TRUE /\ genesis_status = None /\ UNCHANGED genesis_status
      BY <2>0, <3>1, StatusWriters DEF NothingBeforeGenesis
    <3>3. ~\E s \in Signers, b \in Addresses, v \in Amounts : transfer(s, b, v)
      <4> SUFFICES ASSUME NEW s \in Signers, NEW b \in Addresses, NEW v \in Amounts
                   PROVE  ~may_transfer_from_address(s, b, v)
        BY DEF transfer
      <4> QED
        BY <2>a, <2>0, <3>2, NothingToSpend, AccountAssumption DEF NothingBeforeGenesis
    <3> QED
      BY <3>1, <3>2, <3>3 DEF AccountNext
  <2>c. /\ \A a \in Addresses : account[a].balance = 0
        /\ \A id \in SwapIds : swap[id] = None
        /\ unpaid = {}
        /\ issue.address = None
        /\ overwritten = {}
        /\ genesis_status # TRUE
    BY <2>0, <2>b, AccountAssumption DEF NothingBeforeGenesis
  <2>1. ~SwapNext
    <3>1. ASSUME NEW s \in Signers, NEW id \in SwapIds, NEW r \in Receivers, NEW n \in Amounts,
                 NEW l \in Locks \cup {NoLock}, swap_init(s, id, r, n, l)
          PROVE  FALSE
      <4>1. commission \in Nat
        BY <3>1, SwapAssumption DEF swap_init, TypeOK, SwapTypeOK
      <4> QED
        BY <3>1, <4>1, <2>a, <2>c, NothingToSpend DEF swap_init
    <3>2. ASSUME NEW id \in SwapIds
          PROVE  ~permitted_to_change(id)
      BY <2>c DEF permitted_to_change
    <3>3. ASSUME NEW s \in Signers, NEW id \in SwapIds
          PROVE  /\ ~\E l \in Locks : swap_set_lock(s, id, l)
                 /\ ~swap_approve(s, id)
                 /\ ~swap_expire(s, id)
                 /\ ~\E key \in SecretKeys : swap_close(s, id, key)
      BY <3>2, Zenon DEF swap_set_lock, swap_approve, swap_expire, swap_close, may_close
    <3> QED
      BY <3>1, <3>3, Zenon DEF SwapNext
  <2>2. ASSUME NEW s \in Signers, may_charge_for_storing(s)
        PROVE  ~economy_enabled /\ charge_for_storing(s) = account
    <3>1. PUB_KEY_STORE_PRICE \in Nat
      BY DEF PUB_KEY_STORE_PRICE
    <3> QED
      BY <2>2, <3>1, <2>a, <2>c, NothingToSpend DEF may_charge_for_storing, charge_for_storing
  <2>3. CASE PubKeyNext /\ UNCHANGED swapVars
    <3>a. account \in [Addresses -> Account]
      BY DEF TypeOK, AccountTypeOK
    <3>1. ASSUME NEW s \in Signers, NEW payload \in NewPubKeyPayload, store_pub_key(s, payload)
          PROVE  /\ \A a \in Addresses : account'[a].balance = 0
                 /\ UNCHANGED <<unpaid, issue>>
      <4>1. account' = [account EXCEPT ![s] =
                          store_public_key_to_account(payload.public_key, account[s])]
        BY <3>1, <2>2 DEF store_pub_key
      <4> QED
        BY <3>1, <3>a, <4>1, <2>a, <2>c DEF store_pub_key, store_public_key_to_account, Account
    <3>2. ASSUME NEW s \in Signers, NEW owner \in Signers, NEW sig \in Signers,
                 NEW payload \in NewPubKeyPayload,
                 store_public_key_for_other(s, owner, sig, payload)
          PROVE  /\ \A a \in Addresses : account'[a].balance = 0
                 /\ UNCHANGED <<unpaid, issue>>
      <4>1. ~economy_enabled
        BY <3>2, <2>2 DEF store_public_key_for_other
      <4>2. account' = [account EXCEPT ![owner] =
                          store_public_key_to_account(payload.public_key, account[owner])]
        BY <3>2, <2>2 DEF store_public_key_for_other
      <4>3. \A a \in Addresses : account'[a].balance = 0
        BY <3>a, <4>2, <2>a, <2>c DEF store_public_key_to_account, Account
      <4> QED
        BY <3>2, <4>1, <4>3 DEF store_public_key_for_other
    <3>3. ASSUME NEW s \in Signers, NEW k \in PubKeys, revoke_pub_key(s, k)
          PROVE  /\ \A a \in Addresses : account'[a].balance = 0
                 /\ UNCHANGED <<unpaid, issue>>
      BY <3>3, <2>c DEF revoke_pub_key, accountVars
    <3>4. /\ \A a \in Addresses : account'[a].balance = 0
          /\ UNCHANGED <<unpaid, issue>>
      BY <2>3, <3>1, <3>2, <3>3 DEF PubKeyNext
    <3> QED
      BY <2>3, <2>b, <3>4, <2>c DEF swapVars
  <2>4. CASE Environment \/ UNCHANGED vars
    BY <2>4, <2>b, <2>c DEF Environment, SwapEnvironmentNext, NewBlock, SetCommission,
                            SetEconomyEnabled, vars, accountVars, swapVars, pubKeyVars
  <2> QED
    BY <2>b, <2>1, <2>3, <2>4 DEF Next, apply
<1> QED
  BY <1>1, <1>2, TypeCorrect, PTL DEF Spec

(* A registered key is linked to its owner's account, unless the genesis   *)
(* transaction replaced that account.  That it replaces at most one, and   *)
(* leaves the others' links alone, takes NothingBeforeGenesis.  Where the  *)
(* record or the genesis status was overwritten, nothing is said.          *)
THEOREM KeyLinkedCorrect == Spec => []KeyLinkedToOwner
<1>1. Init => KeyLinkedToOwner
  BY DEF Init, PubKeyInit, KeyLinkedToOwner
<1>2. TypeOK /\ NothingBeforeGenesis /\ KeyLinkedToOwner /\ [Next]_vars => KeyLinkedToOwner'
  <2> SUFFICES ASSUME TypeOK, NothingBeforeGenesis, KeyLinkedToOwner, [Next]_vars,
                      NEW k \in PubKeys \ overwritten', pub_key'[k] # None,
                      GENESIS_ADDRESS \notin overwritten'
               PROVE  \/ k \in account'[pub_key'[k].owner].pub_keys
                      \/ pub_key'[k].owner = issue'.address
    BY DEF KeyLinkedToOwner
  <2>0. k \notin overwritten /\ GENESIS_ADDRESS \notin overwritten
    BY OverwrittenGrows
  <2>a. Signers \subseteq Addresses
    BY DEF Addresses
  <2>b. account \in [Addresses -> Account]
    BY DEF TypeOK, AccountTypeOK
  <2>c. pub_key[k] # None => /\ pub_key[k].owner \in Signers
                             /\ \/ k \in account[pub_key[k].owner].pub_keys
                                \/ pub_key[k].owner = issue.address
    BY <2>0 DEF KeyLinkedToOwner, TypeOK, PubKeyTypeOK, PubKeyStorage
  <2>1. CASE LinksKept
    BY <2>1, <2>a, <2>c DEF LinksKept
  <2>2. CASE \E s \in Signers, n \in Supplies : Issued(s, n)
    <3> PICK s \in Signers, n \in Supplies : Issued(s, n)
      BY <2>2
    <3>1. issue.address = None /\ None \notin Signers
      BY <2>0, AccountAssumption DEF Issued, genesis, NothingBeforeGenesis
    <3>2. pub_key[k] # None /\ pub_key'[k] = pub_key[k]
      BY DEF Issued
    <3>3. pub_key[k].owner \in Signers /\ k \in account[pub_key[k].owner].pub_keys
      BY <3>1, <3>2, <2>c
    <3>4. CASE pub_key[k].owner = s
      BY <3>2, <3>4 DEF Issued, genesis
    <3>5. CASE pub_key[k].owner # s
      BY <2>a, <2>b, <3>2, <3>3, <3>5 DEF Issued, genesis
    <3> QED
      BY <3>4, <3>5
  <2>3. CASE \E owner \in Signers, j \in PubKeys : Stored(owner, j)
    <3> PICK owner \in Signers, j \in PubKeys : Stored(owner, j)
      BY <2>3
    <3>1. CASE k = j
      BY <3>1 DEF Stored
    <3>2. CASE k # j
      <4>1. pub_key'[k] = pub_key[k] /\ pub_key[k] # None /\ UNCHANGED issue
        BY <3>2 DEF Stored
      <4>2. account[pub_key[k].owner].pub_keys \subseteq account'[pub_key[k].owner].pub_keys
        BY <4>1, <2>a, <2>c DEF Stored
      <4> QED
        BY <4>1, <4>2, <2>c
    <3> QED
      BY <3>1, <3>2
  <2> QED
    BY <2>1, <2>2, <2>3, LinkSteps
<1> QED
  BY <1>1, <1>2, TypeCorrect, NothingBeforeGenesisCorrect, PTL DEF Spec

(* A key record is never replaced or withdrawn, only revoked, and a        *)
(* revoked one stays so, until a swap is closed that has the record's      *)
(* address as its receiver: _swap_close is the only way.                   *)
THEOREM RecordsForever == Spec => KeyRecordForever
<1>1. TypeOK /\ [Next]_vars =>
          [\A k \in PubKeys \ overwritten' : pub_key[k] # None =>
              pub_key'[k] \in {pub_key[k], [pub_key[k] EXCEPT !.is_revoked = TRUE]}]_vars
  <2> SUFFICES ASSUME TypeOK, [Next]_vars, NEW k \in PubKeys \ overwritten', pub_key[k] # None
               PROVE  pub_key'[k] \in {pub_key[k], [pub_key[k] EXCEPT !.is_revoked = TRUE]}
    OBVIOUS
  <2>a. pub_key \in [PubKeys -> PubKeyStorage \cup {None}]
    BY DEF TypeOK, PubKeyTypeOK
  <2>1. ASSUME NEW payload \in NewPubKeyPayload, NEW owner, pub_key[payload.public_key] = None,
               pub_key' = [pub_key EXCEPT ![payload.public_key] = NewPubKeyStorage(owner, payload)]
        PROVE  pub_key'[k] = pub_key[k]
    BY <2>1, <2>a
  <2>2. CASE PubKeyNext
    <3>1. ASSUME NEW s \in Signers, NEW j \in PubKeys, revoke_pub_key(s, j)
          PROVE  pub_key'[k] \in {pub_key[k], [pub_key[k] EXCEPT !.is_revoked = TRUE]}
      BY <3>1, <2>a DEF revoke_pub_key
    <3> QED
      BY <2>1, <2>2, <3>1 DEF PubKeyNext, store_pub_key, store_public_key_for_other
  <2>3. CASE UNCHANGED pub_key
    BY <2>3
  <2>4. CASE SwapNext
    <3> PICK signer \in Signers, id \in SwapIds :
          \/ \E r \in Receivers, n \in Amounts, l \in Locks \cup {NoLock} :
                swap_init(signer, id, r, n, l)
          \/ \E l \in Locks : swap_set_lock(signer, id, l)
          \/ swap_approve(signer, id)
          \/ swap_expire(signer, id)
          \/ \E key \in SecretKeys : swap_close(signer, id, key)
      BY <2>4 DEF SwapNext
    <3> QED
      BY CloseEffect DEF swap_init, swap_set_lock, swap_approve, swap_expire, pubKeyVars
  <2> QED
    BY <2>2, <2>3, <2>4 DEF Next, apply, Environment, SwapEnvironmentNext, NewBlock,
                            SetCommission, SetEconomyEnabled, pubKeyVars, vars
<1> QED
  BY <1>1, TypeCorrect, PTL DEF Spec, KeyRecordForever
=============================================================================
