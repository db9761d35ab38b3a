-------------------------- MODULE RefinementProofs --------------------------
(***************************************************************************)
(* The transaction families implement EscrowLedger and conserve tokens,    *)
(* for all constants, until a swap is closed whose receiver is a stored    *)
(* record.  Both follow from what each transaction is to the ledger, and   *)
(* conservation is then a matter of the ledger's steps.                    *)
(***************************************************************************)
EXTENDS InvariantProofs, SumProofs

(* What a transaction is to the ledger: tokens change hands, or nothing    *)
(* does; the supply is issued; or the price of a self-paid key appears.    *)
TokensMoved ==
    /\ \/ \E u \in Signers, h \in Addresses : Ledger!Pay(u, h)
       \/ \E u \in Signers, id \in SwapIds :
             \E n \in 0..balanceOf[u] : Ledger!Deposit(u, id, n)
       \/ \E id \in SwapIds, h \in Addresses : Ledger!Release(id, h)
       \/ UNCHANGED <<balanceOf, escrowOf>>
    /\ UNCHANGED <<issue, unpaid>>
TokensIssued ==
    /\ \E u \in Signers, n \in U64 :
          Ledger!Issue(u) /\ balanceOf' = [balanceOf EXCEPT ![u] = n] /\ issue'.amount = n
    /\ UNCHANGED unpaid
TokensCreated ==
    /\ Ledger!Windfall
    /\ \E k \in PubKeys : /\ pub_key[k] = None /\ pub_key'[k] # None
                         /\ unpaid' = unpaid \cup {k}
    /\ UNCHANGED issue
TokenStep == TokensMoved \/ TokensIssued \/ TokensCreated

(* Balances are the only part of the accounts the ledger sees.             *)
LEMMA BalanceType ==
    ASSUME AccountTypeOK
    PROVE  /\ balanceOf \in [Addresses -> Nat]
           /\ \A a \in Addresses : balanceOf[a] = account[a].balance
BY AccountAssumption DEF AccountTypeOK, Account, U64, balanceOf

(* What _transfer_from_address does to the balances.                       *)
LEMMA TransferBalances ==
    ASSUME AccountTypeOK, NEW a \in Addresses, NEW b \in Addresses, a # b, NEW v \in Nat,
           NEW x \in Addresses
    PROVE  transfer_from_address(a, b, v)[x].balance
             = [balanceOf EXCEPT ![a] = @ - v, ![b] = @ + v][x]
BY BalanceType DEF AccountTypeOK, transfer_from_address, Account, balanceOf

(* Swaps that are left alone are escrows that are left alone.              *)
LEMMA EscrowsKept == ASSUME UNCHANGED swap PROVE UNCHANGED escrowOf
BY DEF escrowOf

(* A transfer that passed its tests is a payment of the ledger.            *)
LEMMA TransferPays ==
    ASSUME AccountTypeOK, NEW u \in Signers, NEW h \in Addresses, NEW v \in Nat,
           may_transfer_from_address(u, h, v),
           \A x \in Addresses :
               account'[x].balance = transfer_from_address(u, h, v)[x].balance,
           UNCHANGED <<swap, issue, unpaid>>
    PROVE  TokenStep
<1>1. u \in Addresses /\ u # h /\ v \in 0..balanceOf[u]
  BY BalanceType DEF Addresses, may_transfer_from_address
<1>2. balanceOf' = [balanceOf EXCEPT ![u] = @ - v, ![h] = @ + v]
  <2>1. balanceOf' = [x \in Addresses |-> account'[x].balance]
    BY DEF balanceOf
  <2>2. \A x \in Addresses : transfer_from_address(u, h, v)[x].balance
                               = [balanceOf EXCEPT ![u] = @ - v, ![h] = @ + v][x]
    BY <1>1, TransferBalances
  <2>3. \A x \in Addresses :
            account'[x].balance = [balanceOf EXCEPT ![u] = @ - v, ![h] = @ + v][x]
    BY <2>2
  <2>4. balanceOf \in [Addresses -> Nat]
    BY BalanceType
  <2> QED
    BY <2>1, <2>3, <2>4
<1>3. Ledger!Pay(u, h)
  BY <1>1, <1>2, EscrowsKept DEF Ledger!Pay
<1> QED
  BY <1>1, <1>3 DEF TokenStep, TokensMoved

(* Steps that change neither balances nor swaps.                           *)
LEMMA Unseen ==
    ASSUME \A x \in Addresses : account'[x].balance = account[x].balance,
           UNCHANGED <<swap, issue, unpaid>>
    PROVE  TokenStep
<1>1. UNCHANGED balanceOf
  BY DEF balanceOf
<1> QED
  BY <1>1, EscrowsKept DEF TokenStep, TokensMoved

(* _genesis issues, as NothingBeforeGenesis tells that it finds no tokens, *)
(* and _transfer pays.                                                     *)
LEMMA AccountImplements ==
    ASSUME TypeOK, NothingBeforeGenesis, overwritten = {},
           AccountNext, UNCHANGED <<swapVars, pubKeyVars>>
    PROVE  TokenStep
<1>a. AccountTypeOK /\ UNCHANGED <<swap, unpaid>>
  BY DEF TypeOK, swapVars, pubKeyVars
<1>1. ASSUME NEW s \in Signers, NEW n \in Supplies, genesis(s, n)
      PROVE  TokenStep
  <2>1. s \in Addresses /\ n \in U64
    BY AccountAssumption DEF Addresses, U64
  <2>2. \A a \in Addresses : balanceOf[a] = 0
    BY <1>1, <1>a, BalanceType DEF genesis, NothingBeforeGenesis
  <2>3. \A id \in SwapIds : escrowOf[id].status = "unused"
    BY <1>1 DEF genesis, NothingBeforeGenesis, escrowOf
  <2>4. balanceOf' = [balanceOf EXCEPT ![s] = n]
    BY <1>1, <1>a, <2>1 DEF genesis, balanceOf, AccountTypeOK, NewAccount
  <2>5. Ledger!Issue(s)
    BY <1>a, <2>1, <2>2, <2>3, <2>4, EscrowsKept DEF Ledger!Issue
  <2>6. issue'.amount = n
    BY <1>1 DEF genesis
  <2> QED
    BY <1>a, <2>1, <2>4, <2>5, <2>6 DEF TokenStep, TokensIssued
<1>2. ASSUME NEW s \in Signers, NEW b \in Addresses, NEW v \in Amounts, transfer(s, b, v)
      PROVE  TokenStep
  BY <1>2, <1>a, TransferPays, AccountAssumption DEF transfer
<1> QED
  BY <1>1, <1>2 DEF AccountNext

(* _swap_init is a deposit with the commission as its fee: its two writes  *)
(* of the sender's account take away the sum.                              *)
LEMMA InitDeposits ==
    ASSUME TypeOK, NEW s \in Signers, NEW id \in SwapIds, NEW r \in Receivers,
           NEW n \in Amounts, NEW l \in Locks \cup {NoLock}, swap_init(s, id, r, n, l)
    PROVE  TokenStep
<1> DEFINE t == transfer_from_address(s, ZERO_ADDRESS, commission)
<1>a. AccountTypeOK /\ s \in Addresses /\ ZERO_ADDRESS \in Addresses /\ s # ZERO_ADDRESS
  BY AccountAssumption DEF TypeOK, Addresses
<1>b. commission \in Nat /\ n \in Nat
  BY SwapAssumption, AccountAssumption DEF swap_init, TypeOK, SwapTypeOK
<1>1. n \in 0..balanceOf[s] /\ commission \in 0..(balanceOf[s] - n)
  BY <1>a, <1>b, BalanceType DEF swap_init, enough_balance
<1>2. balanceOf' = [balanceOf EXCEPT ![s] = @ - (n + commission),
                                     ![ZERO_ADDRESS] = @ + commission]
  <2>1. t \in [Addresses -> Account]
    BY <1>a, <1>b, TransferTypeOK DEF swap_init
  <2>2. \A x \in Addresses : t[x].balance =
            [balanceOf EXCEPT ![s] = @ - commission, ![ZERO_ADDRESS] = @ + commission][x]
    BY <1>a, <1>b, TransferBalances
  <2>3. account' = [t EXCEPT ![s].balance = @ - n]
    BY DEF swap_init
  <2>4. \A x \in Addresses : account'[x].balance =
            IF x = s THEN t[s].balance - n ELSE t[x].balance
    <3> HIDE DEF t
    <3> QED
      BY <1>a, <2>1, <2>3 DEF Account
  <2>5. balanceOf' = [x \in Addresses |-> account'[x].balance]
    BY DEF balanceOf
  <2>6. balanceOf \in [Addresses -> Nat]
    BY <1>a, BalanceType
  <2>7. \A x \in Addresses : account'[x].balance =
            [balanceOf EXCEPT ![s] = @ - (n + commission),
                              ![ZERO_ADDRESS] = @ + commission][x]
    <3> HIDE DEF t
    <3> QED
      BY <1>a, <1>b, <2>2, <2>4, <2>6
  <2> QED
    BY <2>5, <2>6, <2>7
<1>3. escrowOf[id].status = "unused"
  BY DEF swap_init, escrowOf
<1>4. escrowOf' = [escrowOf EXCEPT ![id] = [status |-> "held", content |-> n]]
  <2> DEFINE s1 == [state |-> OPENED, amount |-> n, created_at |-> block_timestamp,
                    secret_lock |-> l, sender_address |-> s, receiver_address |-> r,
                    is_initiator |-> l = NoLock, secret_key |-> NoKey]
  <2>1. s1 \in AtomicSwapInfo
    BY AccountAssumption, SwapAssumption
       DEF swap_init, TypeOK, SwapTypeOK, AtomicSwapInfo, OPENED, U64
  <2>2. s1 # None /\ s1.state \notin {CLOSED, EXPIRED} /\ s1.amount = n
    BY <2>1, SwapAssumption DEF OPENED, CLOSED, EXPIRED
  <2>3. swap' = [swap EXCEPT ![id] = s1] /\ swap \in [SwapIds -> AtomicSwapInfo \cup {None}]
    BY DEF swap_init, TypeOK, SwapTypeOK
  <2> HIDE DEF s1
  <2> QED
    BY <2>2, <2>3 DEF escrowOf
<1>5. Ledger!Deposit(s, id, n)
  BY <1>1, <1>2, <1>3, <1>4 DEF Ledger!Deposit
<1>6. UNCHANGED <<issue, unpaid>>
  BY DEF swap_init, pubKeyVars
<1> QED
  BY <1>1, <1>5, <1>6 DEF TokenStep, TokensMoved

(* Settling an open swap with somebody releases its escrow to them.        *)
LEMMA SettlingReleases ==
    ASSUME TypeOK, NEW id \in SwapIds, permitted_to_change(id), NEW h \in Addresses,
           account' = credit(h, swap[id].amount), swap'[id] # None,
           swap'[id].state \in {CLOSED, EXPIRED},
           \A j \in SwapIds \ {id} : swap'[j] = swap[j],
           UNCHANGED <<issue, unpaid>>
    PROVE  TokenStep
<1>1. escrowOf[id] = [status |-> "held", content |-> swap[id].amount]
  BY DEF permitted_to_change, NOT_PERMITTED_TO_CHANGE_SWAP_STATUSES, escrowOf
<1>2. balanceOf' = [balanceOf EXCEPT ![h] = @ + escrowOf[id].content]
  <2>1. account \in [Addresses -> Account] /\ balanceOf' = [x \in Addresses |-> account'[x].balance]
    BY DEF TypeOK, AccountTypeOK, balanceOf
  <2>2. \A x \in Addresses : account'[x].balance =
            IF x = h THEN account[h].balance + swap[id].amount ELSE account[x].balance
    BY <2>1 DEF credit, Account
  <2>3. \A x \in Addresses : account'[x].balance =
            [balanceOf EXCEPT ![h] = @ + escrowOf[id].content][x]
    BY <1>1, <2>2 DEF balanceOf
  <2> QED
    BY <2>1, <2>3 DEF balanceOf
<1>3. escrowOf' = [escrowOf EXCEPT ![id] = [status |-> "spent", content |-> 0]]
  BY DEF escrowOf
<1>4. Ledger!Release(id, h)
  BY <1>1, <1>2, <1>3 DEF Ledger!Release
<1> QED
  BY <1>4 DEF TokenStep, TokensMoved

(* Providing a lock and approving it keep an open swap open.               *)
LEMMA OpenSwapUnseen ==
    ASSUME TypeOK, NEW id \in SwapIds, permitted_to_change(id), UNCHANGED account,
           swap'[id] # None, swap'[id].state \notin {CLOSED, EXPIRED},
           swap'[id].amount = swap[id].amount,
           \A j \in SwapIds \ {id} : swap'[j] = swap[j],
           UNCHANGED <<issue, unpaid>>
    PROVE  TokenStep
<1>1. UNCHANGED escrowOf
  BY DEF escrowOf, permitted_to_change, NOT_PERMITTED_TO_CHANGE_SWAP_STATUSES
<1>2. UNCHANGED balanceOf
  BY DEF balanceOf
<1> QED
  BY <1>1, <1>2 DEF TokenStep, TokensMoved

(* The AtomicSwap family deposits, releases, or goes unseen, unless it     *)
(* writes an Account over a record.                                        *)
LEMMA SwapImplements ==
    ASSUME TypeOK, SwapNext, overwritten' = {}
    PROVE  TokenStep
<1> PICK s \in Signers, id \in SwapIds :
        \/ \E r \in Receivers, n \in Amounts, l \in Locks \cup {NoLock} :
              swap_init(s, id, r, n, l)
        \/ \E l \in Locks : swap_set_lock(s, id, l)
        \/ swap_approve(s, id)
        \/ swap_expire(s, id)
        \/ \E key \in SecretKeys : swap_close(s, id, key)
  BY DEF SwapNext
<1>a. swap \in [SwapIds -> AtomicSwapInfo \cup {None}] /\ s \in Addresses /\ UNCHANGED unpaid
  BY CloseEffect DEF TypeOK, SwapTypeOK, Addresses, pubKeyVars,
                     swap_init, swap_set_lock, swap_approve, swap_expire
<1>b. permitted_to_change(id) => swap[id] \in AtomicSwapInfo
  BY <1>a DEF permitted_to_change
<1>c. ASSUME NEW v \in AtomicSwapInfo, swap' = [swap EXCEPT ![id] = v]
      PROVE  swap'[id] = v /\ swap'[id] # None /\ \A j \in SwapIds \ {id} : swap'[j] = swap[j]
  BY <1>a, <1>c, SwapAssumption
<1>1. CASE \E r \in Receivers, n \in Amounts, l \in Locks \cup {NoLock} :
              swap_init(s, id, r, n, l)
  BY <1>1, <1>a, InitDeposits
<1>2. ASSUME NEW l \in Locks, swap_set_lock(s, id, l)
      PROVE  TokenStep
  <2> DEFINE v == [swap[id] EXCEPT !.secret_lock = l, !.state = SECRET_LOCK_PROVIDED]
  <2>1. permitted_to_change(id) /\ UNCHANGED <<account, issue>>
    BY <1>2 DEF swap_set_lock, accountVars
  <2>2. /\ v \in AtomicSwapInfo
        /\ v.state \notin {CLOSED, EXPIRED}
        /\ v.amount = swap[id].amount
    BY <1>b, <2>1 DEF AtomicSwapInfo, SECRET_LOCK_PROVIDED, CLOSED, EXPIRED
  <2>3. swap' = [swap EXCEPT ![id] = v]
    BY <1>2, <1>a DEF swap_set_lock
  <2> HIDE DEF v
  <2> QED
    BY <1>a, <1>c, <2>1, <2>2, <2>3, OpenSwapUnseen
<1>3. CASE swap_approve(s, id)
  <2> DEFINE v == [swap[id] EXCEPT !.state = APPROVED]
  <2>1. permitted_to_change(id) /\ UNCHANGED <<account, issue>>
    BY <1>3 DEF swap_approve, accountVars
  <2>2. /\ v \in AtomicSwapInfo
        /\ v.state \notin {CLOSED, EXPIRED}
        /\ v.amount = swap[id].amount
    BY <1>b, <2>1 DEF AtomicSwapInfo, APPROVED, CLOSED, EXPIRED
  <2>3. swap' = [swap EXCEPT ![id] = v]
    BY <1>3, <1>a DEF swap_approve
  <2> HIDE DEF v
  <2> QED
    BY <1>a, <1>c, <2>1, <2>2, <2>3, OpenSwapUnseen
<1>4. CASE swap_expire(s, id)
  <2> DEFINE v == [swap[id] EXCEPT !.state = EXPIRED]
  <2>1. permitted_to_change(id) /\ account' = credit(s, swap[id].amount) /\ UNCHANGED issue
    BY <1>4 DEF swap_expire
  <2>2. v \in AtomicSwapInfo /\ v.state \in {CLOSED, EXPIRED}
    BY <1>b, <2>1 DEF AtomicSwapInfo, EXPIRED
  <2>3. swap' = [swap EXCEPT ![id] = v]
    BY <1>4, <1>a DEF swap_expire
  <2> HIDE DEF v
  <2> QED
    BY <1>a, <1>c, <2>1, <2>2, <2>3, SettlingReleases
<1>5. ASSUME NEW key \in SecretKeys, swap_close(s, id, key)
      PROVE  TokenStep
  <2>1. permitted_to_change(id)
    BY <1>5 DEF swap_close, may_close
  <2>2. close_to_account(id, key)
    BY <1>5 DEF swap_close, close_over_record
  <2>3. /\ swap[id].receiver_address \in Addresses
        /\ account' = credit(swap[id].receiver_address, swap[id].amount)
        /\ swap' = [swap EXCEPT ![id] = closed(id, key)]
        /\ UNCHANGED issue
    BY <2>2 DEF close_to_account
  <2>4. closed(id, key) \in AtomicSwapInfo /\ closed(id, key).state = CLOSED
    <3>1. closed(id, key) \in AtomicSwapInfo
      BY <1>b, <2>1, ClosedTypeOK
    <3> QED
      BY <1>b, <2>1, <3>1 DEF closed, AtomicSwapInfo
  <2> QED
    BY <1>a, <1>c, <2>1, <2>3, <2>4, SettlingReleases
<1> QED
  BY <1>1, <1>2, <1>3, <1>4, <1>5

(* The pub_key family pays the price, or leaves the balances alone, except *)
(* when a payer stores its own key: then its account is overwritten with   *)
(* the uncharged one and the price appears at the zero address.            *)
LEMMA PubKeyImplements ==
    ASSUME TypeOK, PubKeyNext, UNCHANGED swapVars
    PROVE  TokenStep
<1>a. /\ AccountTypeOK /\ PubKeyTypeOK
      /\ account \in [Addresses -> Account]
      /\ UNCHANGED swap
      /\ PUB_KEY_STORE_PRICE \in Nat
      /\ ZERO_ADDRESS \in Addresses
      /\ Signers \subseteq Addresses
      /\ ZERO_ADDRESS \notin Signers
  BY AccountAssumption
     DEF TypeOK, AccountTypeOK, swapVars, PUB_KEY_STORE_PRICE, Addresses
<1>b. ASSUME NEW s \in Signers, may_charge_for_storing(s), UNCHANGED <<issue, unpaid>>,
             \A x \in Addresses : account'[x].balance = charge_for_storing(s)[x].balance
      PROVE  TokenStep
  <2>1. CASE economy_enabled
    BY <1>a, <1>b, <2>1, TransferPays DEF may_charge_for_storing, charge_for_storing
  <2>2. CASE ~economy_enabled
    BY <1>a, <1>b, <2>2, Unseen DEF charge_for_storing
  <2> QED
    BY <2>1, <2>2
<1>1. ASSUME NEW s \in Signers, NEW payload \in NewPubKeyPayload, store_pub_key(s, payload)
      PROVE  TokenStep
  <2> DEFINE f == charge_for_storing(s)
  <2>1. may_charge_for_storing(s) /\ UNCHANGED <<issue, unpaid>>
    BY <1>1 DEF store_pub_key
  <2>2. f \in [Addresses -> Account]
    BY <1>a, <2>1, ChargeTypeOK
  <2>3. account' = [f EXCEPT ![s] = store_public_key_to_account(payload.public_key, f[s])]
    BY <1>1 DEF store_pub_key
  <2>4. \A x \in Addresses : account'[x].balance = f[x].balance
    <3> HIDE DEF f
    <3> QED
      BY <1>a, <2>2, <2>3 DEF store_public_key_to_account, Account
  <2> QED
    BY <1>b, <2>1, <2>4
<1>2. ASSUME NEW s \in Signers, NEW owner \in Signers, NEW sig \in Signers,
             NEW payload \in NewPubKeyPayload,
             store_public_key_for_other(s, owner, sig, payload)
      PROVE  TokenStep
  <2> DEFINE f == charge_for_storing(s)
  <2>1. may_charge_for_storing(s) /\ UNCHANGED issue
    BY <1>2 DEF store_public_key_for_other
  <2>u. unpaid' = IF economy_enabled /\ s = owner THEN unpaid \cup {payload.public_key} ELSE unpaid
    BY <1>2 DEF store_public_key_for_other
  <2>2. f \in [Addresses -> Account]
    BY <1>a, <2>1, ChargeTypeOK
  <2>3. account' = [f EXCEPT ![owner] =
                      store_public_key_to_account(payload.public_key, account[owner])]
    BY <1>2 DEF store_public_key_for_other
  <2>4. \A x \in Addresses :
            account'[x].balance = IF x = owner THEN account[owner].balance ELSE f[x].balance
    <3> HIDE DEF f
    <3> QED
      BY <1>a, <2>2, <2>3 DEF store_public_key_to_account, Account
  <2>5. CASE ~economy_enabled
    BY <1>a, <2>1, <2>u, <2>4, <2>5, Unseen DEF charge_for_storing
  <2>6. CASE economy_enabled
    <3>1. \A x \in Addresses : f[x].balance =
              [balanceOf EXCEPT ![s] = @ - PUB_KEY_STORE_PRICE,
                                ![ZERO_ADDRESS] = @ + PUB_KEY_STORE_PRICE][x]
      BY <1>a, <2>6, TransferBalances DEF charge_for_storing
    <3>2. CASE s # owner
      <4>1. f[owner].balance = account[owner].balance
        BY <1>a, <3>1, <3>2, BalanceType
      <4> QED
        BY <1>b, <2>1, <2>u, <3>2, <2>4, <4>1
    <3>3. CASE s = owner
      <4> HIDE DEF f
      <4>1. balanceOf' = [balanceOf EXCEPT ![ZERO_ADDRESS] = @ + PUB_KEY_STORE_PRICE]
        <5>1. balanceOf' = [x \in Addresses |-> account'[x].balance]
          BY DEF balanceOf
        <5>2. ASSUME NEW x \in Addresses
              PROVE  account'[x].balance =
                     [balanceOf EXCEPT ![ZERO_ADDRESS] = @ + PUB_KEY_STORE_PRICE][x]
          BY <1>a, <2>4, <3>1, <3>3, BalanceType
        <5>3. balanceOf \in [Addresses -> Nat]
          BY <1>a, BalanceType
        <5> QED
          BY <5>1, <5>2, <5>3
      <4>2. Ledger!Windfall
        BY <1>a, <4>1, EscrowsKept DEF Ledger!Windfall
      <4>3. payload.public_key \in PubKeys /\ pub_key[payload.public_key] = None
        BY <1>2 DEF store_public_key_for_other, NewPubKeyPayload
      <4>4. pub_key'[payload.public_key] # None
        <5>1. NewPubKeyStorage(owner, payload) \in PubKeyStorage
          BY StorageTypeOK
        <5> QED
          BY <1>2, <4>3, <5>1, PubKeyAssumption DEF store_public_key_for_other, TypeOK, PubKeyTypeOK
      <4> QED
        BY <2>1, <2>u, <2>6, <3>3, <4>2, <4>3, <4>4 DEF TokenStep, TokensCreated
    <3> QED
      BY <3>2, <3>3
  <2> QED
    BY <2>5, <2>6
<1>3. ASSUME NEW s \in Signers, NEW k \in PubKeys, revoke_pub_key(s, k)
      PROVE  TokenStep
  BY <1>3, <1>a, Unseen DEF revoke_pub_key, accountVars
<1> QED
  BY <1>1, <1>2, <1>3 DEF PubKeyNext

(* Every step of the families that overwrites no record is one of these.   *)
LEMMA TokenSteps ==
    ASSUME TypeOK, NothingBeforeGenesis, [Next]_vars, overwritten' = {}
    PROVE  TokenStep
<1>1. CASE AccountNext /\ UNCHANGED <<swapVars, pubKeyVars>>
  BY <1>1, AccountImplements, OverwrittenGrows
<1>2. CASE SwapNext
  BY <1>2, SwapImplements
<1>3. CASE PubKeyNext /\ UNCHANGED swapVars
  BY <1>3, PubKeyImplements
<1>4. CASE Environment \/ UNCHANGED vars
  <2>1. UNCHANGED <<account, swap, issue, unpaid>>
    BY <1>4 DEF Environment, SwapEnvironmentNext, NewBlock, SetCommission,
                SetEconomyEnabled, vars, accountVars, swapVars, pubKeyVars
  <2> QED
    BY <2>1, Unseen
<1> QED
  BY <1>1, <1>2, <1>3, <1>4 DEF Next, apply

(* The families implement EscrowLedger: every transaction is one step of   *)
(* the ledger (an issue, a payment, a deposit, a release, or the price of  *)
(* a self-paid key) or moves no token.  Genesis takes NothingBeforeGenesis *)
(* to be the one issue there is.  The promise ends with the first close of *)
(* a swap whose receiver is a stored record, and with nothing else.        *)
THEOREM RefinementCorrect == Spec => ImplementsEscrowLedger
<1>1. Init => Ledger!LedgerInit
  BY DEF Init, AccountInit, SwapInit, NewAccount, Ledger!LedgerInit, balanceOf, escrowOf
<1>2. TypeOK /\ NothingBeforeGenesis /\ [Next]_vars
          => [(overwritten = {})' => overwritten = {} /\ Ledger!LedgerNext]_(Ledger!ledgerVars)
  <2> SUFFICES ASSUME TypeOK, NothingBeforeGenesis, [Next]_vars, overwritten' = {}
               PROVE  overwritten = {} /\ [Ledger!LedgerNext]_(Ledger!ledgerVars)
    OBVIOUS
  <2>1. overwritten = {}
    BY OverwrittenGrows
  <2>2. Ledger!LedgerNext \/ UNCHANGED <<balanceOf, escrowOf>>
    BY TokenSteps DEF TokenStep, TokensMoved, TokensIssued, TokensCreated, Ledger!LedgerNext
  <2> QED
    BY <2>1, <2>2 DEF Ledger!ledgerVars
<1> QED
  BY <1>1, <1>2, TypeCorrect, NothingBeforeGenesisCorrect, PTL
  DEF Spec, ImplementsEscrowLedger, Ledger!LedgerSpec

-----------------------------------------------------------------------------
\* What the escrows hold, and all the tokens there are.
contentOf == [id \in SwapIds |-> escrowOf[id].content]
Total == SumFunction(balanceOf) + SumFunction(contentOf)

(* Everything that is added up is finite and a natural number.             *)
LEMMA Summands ==
    ASSUME TypeOK
    PROVE  /\ IsFiniteSet(Addresses) /\ IsFiniteSet(SwapIds)
           /\ balanceOf \in [Addresses -> Nat]
           /\ contentOf \in [SwapIds -> Nat]
           /\ contentOf = [id \in SwapIds |-> held(id)]
           /\ SumFunction(balanceOf) \in Nat /\ SumFunction(contentOf) \in Nat
<1>1. IsFiniteSet(Addresses)
  BY AccountAssumption, FS_Union, FS_Singleton DEF Addresses
<1>2. IsFiniteSet(SwapIds)
  BY SwapAssumption
<1>3. balanceOf \in [Addresses -> Nat]
  BY BalanceType DEF TypeOK
<1>4. ASSUME NEW id \in SwapIds
      PROVE  escrowOf[id].content \in Nat /\ escrowOf[id].content = held(id)
  <2>1. CASE swap[id] = None
    BY <2>1 DEF escrowOf, held, permitted_to_change
  <2>2. CASE swap[id] # None
    <3>1. swap[id].amount \in Nat
      BY <2>2, AccountAssumption DEF TypeOK, SwapTypeOK, AtomicSwapInfo, U64
    <3> QED
      BY <2>2, <3>1 DEF escrowOf, held, permitted_to_change,
                        NOT_PERMITTED_TO_CHANGE_SWAP_STATUSES
  <2> QED
    BY <2>1, <2>2
<1>5. contentOf \in [SwapIds -> Nat] /\ contentOf = [id \in SwapIds |-> held(id)]
  BY <1>4 DEF contentOf
<1> QED
  BY <1>1, <1>2, <1>3, <1>5, SumNat

(* Tokens that change hands do not change in number, and the sink, which   *)
(* is no signer and so cannot pay, does not get poorer.                    *)
LEMMA MovedConserves ==
    ASSUME TypeOK, TokensMoved
    PROVE  Total' = Total /\ balanceOf'[ZERO_ADDRESS] >= balanceOf[ZERO_ADDRESS]
<1>a. /\ IsFiniteSet(Addresses) /\ IsFiniteSet(SwapIds)
      /\ balanceOf \in [Addresses -> Nat] /\ balanceOf \in [Addresses -> Int]
      /\ contentOf \in [SwapIds -> Nat] /\ contentOf \in [SwapIds -> Int]
      /\ SumFunction(balanceOf) \in Nat /\ SumFunction(contentOf) \in Nat
  BY Summands
<1>b. ZERO_ADDRESS \in Addresses /\ Signers \subseteq Addresses /\ ZERO_ADDRESS \notin Signers
  BY AccountAssumption DEF Addresses
<1>c. contentOf' = [id \in SwapIds |-> escrowOf'[id].content]
  BY DEF contentOf
<1>d. \A id \in SwapIds : contentOf[id] = escrowOf[id].content
  BY DEF contentOf
<1>e. escrowOf = [id \in SwapIds |-> escrowOf[id]]
  BY DEF escrowOf
<1>t. Total' = SumFunction(balanceOf') + SumFunction(contentOf')
  BY DEF Total
<1>1. ASSUME NEW u \in Signers, NEW h \in Addresses, Ledger!Pay(u, h)
      PROVE  Total' = Total /\ balanceOf'[ZERO_ADDRESS] >= balanceOf[ZERO_ADDRESS]
  <2>0. PICK n \in 0..balanceOf[u] :
            balanceOf' = [balanceOf EXCEPT ![u] = @ - n, ![h] = @ + n]
    BY <1>1 DEF Ledger!Pay
  <2>1. n \in Nat /\ u \in Addresses /\ u # h
    BY <1>1, <1>a, <1>b DEF Ledger!Pay
  <2>2. balanceOf' = [balanceOf EXCEPT ![u] = balanceOf[u] - n, ![h] = balanceOf[h] + n]
    BY <1>a, <2>0, <2>1
  <2>3. balanceOf[u] \in Nat /\ balanceOf[h] \in Nat
    BY <1>a, <2>1
  <2>4. SumFunction(balanceOf')
          = SumFunction(balanceOf) + ((balanceOf[u] - n) - balanceOf[u])
                                   + ((balanceOf[h] + n) - balanceOf[h])
    <3>1. /\ balanceOf' \in [Addresses -> Int]
          /\ balanceOf'[u] = balanceOf[u] - n /\ balanceOf'[h] = balanceOf[h] + n
          /\ \A a \in Addresses \ {u, h} : balanceOf'[a] = balanceOf[a]
      BY <1>a, <2>1, <2>2, <2>3
    <3> QED
      BY <1>a, <2>1, <3>1, SumChangeTwo
  <2>5. contentOf' = contentOf
    BY <1>1 DEF Ledger!Pay, contentOf
  <2>6. Total' = Total
    BY <1>a, <1>t, <2>1, <2>3, <2>4, <2>5 DEF Total
  <2> QED
    BY <1>a, <1>b, <2>1, <2>2, <2>3, <2>6
<1>2. ASSUME NEW u \in Signers, NEW id \in SwapIds, NEW n \in 0..balanceOf[u],
             Ledger!Deposit(u, id, n)
      PROVE  Total' = Total /\ balanceOf'[ZERO_ADDRESS] >= balanceOf[ZERO_ADDRESS]
  <2>0. PICK fee \in 0..(balanceOf[u] - n) :
            balanceOf' = [balanceOf EXCEPT ![u] = @ - (n + fee), ![ZERO_ADDRESS] = @ + fee]
    BY <1>2 DEF Ledger!Deposit
  <2>1. /\ u \in Addresses /\ u # ZERO_ADDRESS
        /\ balanceOf[u] \in Nat /\ balanceOf[ZERO_ADDRESS] \in Nat
        /\ n \in Nat /\ fee \in Nat
    BY <1>a, <1>b
  <2>2. balanceOf' = [balanceOf EXCEPT ![u] = balanceOf[u] - (n + fee),
                                       ![ZERO_ADDRESS] = balanceOf[ZERO_ADDRESS] + fee]
    BY <1>a, <2>0, <2>1
  <2>3. SumFunction(balanceOf')
          = SumFunction(balanceOf)
              + ((balanceOf[u] - (n + fee)) - balanceOf[u])
              + ((balanceOf[ZERO_ADDRESS] + fee) - balanceOf[ZERO_ADDRESS])
    <3>1. /\ balanceOf' \in [Addresses -> Int]
          /\ balanceOf'[u] = balanceOf[u] - (n + fee)
          /\ balanceOf'[ZERO_ADDRESS] = balanceOf[ZERO_ADDRESS] + fee
          /\ \A a \in Addresses \ {u, ZERO_ADDRESS} : balanceOf'[a] = balanceOf[a]
      BY <1>a, <1>b, <2>1, <2>2
    <3> QED
      BY <1>a, <1>b, <2>1, <3>1, SumChangeTwo
  <2>4. contentOf[id] = 0
    BY <1>2, <1>d DEF Ledger!Deposit, escrowOf
  <2>5. contentOf' = [contentOf EXCEPT ![id] = n]
    BY <1>2, <1>a, <1>c, <1>d, <1>e DEF Ledger!Deposit
  <2>6. SumFunction(contentOf') = SumFunction(contentOf) + n - 0
    <3>1. /\ contentOf' \in [SwapIds -> Int] /\ contentOf'[id] = n
          /\ \A j \in SwapIds \ {id} : contentOf'[j] = contentOf[j]
      BY <1>a, <2>1, <2>5
    <3> QED
      BY <1>a, <2>4, <3>1, SumChange
  <2>7. Total' = Total
    BY <1>a, <1>t, <2>1, <2>3, <2>6 DEF Total
  <2> QED
    BY <1>a, <1>b, <2>1, <2>2, <2>7
<1>3. ASSUME NEW id \in SwapIds, NEW h \in Addresses, Ledger!Release(id, h)
      PROVE  Total' = Total /\ balanceOf'[ZERO_ADDRESS] >= balanceOf[ZERO_ADDRESS]
  <2>1. balanceOf[h] \in Nat /\ balanceOf[ZERO_ADDRESS] \in Nat /\ contentOf[id] \in Nat
    BY <1>a, <1>b
  <2>2. balanceOf' = [balanceOf EXCEPT ![h] = balanceOf[h] + contentOf[id]]
    BY <1>3, <1>a, <1>d DEF Ledger!Release
  <2>3. contentOf' = [contentOf EXCEPT ![id] = 0]
    BY <1>3, <1>a, <1>c, <1>d, <1>e DEF Ledger!Release
  <2>4. SumFunction(balanceOf')
          = SumFunction(balanceOf) + (balanceOf[h] + contentOf[id]) - balanceOf[h]
    <3>1. /\ balanceOf' \in [Addresses -> Int]
          /\ balanceOf'[h] = balanceOf[h] + contentOf[id]
          /\ \A a \in Addresses \ {h} : balanceOf'[a] = balanceOf[a]
      BY <1>a, <2>1, <2>2
    <3> QED
      BY <1>a, <3>1, SumChange
  <2>5. SumFunction(contentOf') = SumFunction(contentOf) + 0 - contentOf[id]
    <3>1. /\ contentOf' \in [SwapIds -> Int] /\ contentOf'[id] = 0
          /\ \A j \in SwapIds \ {id} : contentOf'[j] = contentOf[j]
      BY <1>a, <2>3
    <3> QED
      BY <1>a, <3>1, SumChange
  <2>6. Total' = Total
    BY <1>a, <1>t, <2>1, <2>4, <2>5 DEF Total
  <2> QED
    BY <1>a, <1>b, <2>1, <2>2, <2>6
<1>4. ASSUME UNCHANGED <<balanceOf, escrowOf>>
      PROVE  Total' = Total /\ balanceOf'[ZERO_ADDRESS] >= balanceOf[ZERO_ADDRESS]
  <2>1. balanceOf[ZERO_ADDRESS] \in Nat
    BY <1>a, <1>b
  <2> QED
    BY <1>4, <1>t, <2>1 DEF Total, contentOf
<1> QED
  BY <1>1, <1>2, <1>3, <1>4 DEF TokensMoved

(* The invariant: TokensConserved needs each unpaid key to be counted only *)
(* once, and that the refunds fit needs the tokens that were created to be *)
(* out of the signers' reach, in the sink.                                 *)
ConservationInv ==
    overwritten = {} =>
        /\ TokensConserved
        /\ IsFiniteSet(unpaid)
        /\ \A k \in unpaid : pub_key[k] # None
        /\ account[ZERO_ADDRESS].balance >= PUB_KEY_STORE_PRICE * Cardinality(unpaid)

\* TokensConserved in terms of the ledger.
TokensAddUp == Total = issue.amount + PUB_KEY_STORE_PRICE * Cardinality(unpaid)

(* The deposits of the open swaps are what the ledger's escrows hold.      *)
LEMMA ConservedTotal == TypeOK /\ overwritten = {} => (TokensConserved <=> TokensAddUp)
BY Summands DEF TokensConserved, TokensAddUp, Total

(* A record of a key that is not overwritten is never withdrawn.           *)
LEMMA RecordsKept ==
    ASSUME TypeOK, [Next]_vars, NEW k \in PubKeys \ overwritten', pub_key[k] # None
    PROVE  pub_key'[k] # None
BY LinkSteps DEF LinksKept, Issued, Stored

(* Every step keeps the invariant.                                         *)
LEMMA ConservationStep ==
    ASSUME TypeOK, TypeOK', NothingBeforeGenesis, ConservationInv, [Next]_vars
    PROVE  ConservationInv'
<1> SUFFICES ASSUME overwritten' = {} PROVE ConservationInv'
  BY DEF ConservationInv
<1>0. overwritten = {}
  BY OverwrittenGrows
<1>a. /\ Total = issue.amount + PUB_KEY_STORE_PRICE * Cardinality(unpaid)
      /\ TokensConserved' <=>
             Total' = issue'.amount + PUB_KEY_STORE_PRICE * Cardinality(unpaid')
  <2>1. TypeOK' /\ (overwritten = {})' => (TokensConserved' <=> TokensAddUp')
    BY ConservedTotal, PTL
  <2> QED
    BY <1>0, <2>1, ConservedTotal DEF ConservationInv, TokensAddUp, PUB_KEY_STORE_PRICE
<1>b. /\ unpaid \subseteq PubKeys /\ IsFiniteSet(unpaid) /\ Cardinality(unpaid) \in Nat
      /\ issue.amount \in Nat
      /\ PUB_KEY_STORE_PRICE = 10
  BY <1>0, AccountAssumption, FS_CardinalityType
     DEF ConservationInv, TypeOK, PubKeyTypeOK, AccountTypeOK, U64, PUB_KEY_STORE_PRICE
<1>c. ZERO_ADDRESS \in Addresses /\ Signers \subseteq Addresses /\ ZERO_ADDRESS \notin Signers
  BY AccountAssumption DEF Addresses
<1>d. /\ balanceOf[ZERO_ADDRESS] = account[ZERO_ADDRESS].balance
      /\ balanceOf'[ZERO_ADDRESS] = account'[ZERO_ADDRESS].balance
      /\ balanceOf[ZERO_ADDRESS] \in Nat /\ balanceOf'[ZERO_ADDRESS] \in Nat
      /\ balanceOf[ZERO_ADDRESS] >= 10 * Cardinality(unpaid)
  <2>1. account \in [Addresses -> Account] /\ account' \in [Addresses -> Account]
    BY DEF TypeOK, AccountTypeOK
  <2>2. account[ZERO_ADDRESS].balance \in Nat /\ account'[ZERO_ADDRESS].balance \in Nat
    BY <1>c, <2>1, AccountAssumption DEF Account, U64
  <2> QED
    BY <1>0, <1>b, <1>c, <2>2 DEF balanceOf, ConservationInv
<1>e. \A k \in unpaid : pub_key'[k] # None
  BY <1>0, <1>b, RecordsKept DEF ConservationInv
<1>s. /\ IsFiniteSet(Addresses) /\ IsFiniteSet(SwapIds)
      /\ balanceOf \in [Addresses -> Nat] /\ balanceOf \in [Addresses -> Int]
      /\ contentOf \in [SwapIds -> Nat]
      /\ SumFunction(balanceOf) \in Nat /\ SumFunction(contentOf) \in Nat
      /\ Total = SumFunction(balanceOf) + SumFunction(contentOf)
      /\ Total' = SumFunction(balanceOf') + SumFunction(contentOf')
  BY Summands DEF Total
<1>1. CASE TokensMoved
  <2>1. UNCHANGED <<issue, unpaid>>
    BY <1>1 DEF TokensMoved
  <2>2. Total' = Total /\ balanceOf'[ZERO_ADDRESS] >= balanceOf[ZERO_ADDRESS]
    BY <1>1, MovedConserves
  <2>3. TokensConserved'
    BY <1>a, <2>1, <2>2
  <2>4. account'[ZERO_ADDRESS].balance >= 10 * Cardinality(unpaid)
    BY <1>b, <1>d, <2>2
  <2> QED
    BY <1>b, <1>e, <2>1, <2>3, <2>4 DEF ConservationInv
<1>2. CASE TokensIssued
  <2>1. PICK u \in Signers, n \in U64 :
            Ledger!Issue(u) /\ balanceOf' = [balanceOf EXCEPT ![u] = n] /\ issue'.amount = n
    BY <1>2 DEF TokensIssued
  <2>2. n \in Nat /\ u \in Addresses /\ UNCHANGED unpaid
    BY <1>2, <1>c, AccountAssumption DEF TokensIssued, U64
  <2>3. \A a \in Addresses : balanceOf[a] = 0
    BY <2>1 DEF Ledger!Issue
  <2>4. /\ balanceOf' \in [Addresses -> Int] /\ balanceOf'[u] = n
        /\ \A a \in Addresses \ {u} : balanceOf'[a] = balanceOf[a]
    BY <1>s, <2>1, <2>2
  <2>5. \A id \in SwapIds : contentOf[id] = 0
    BY <2>1 DEF Ledger!Issue, contentOf, escrowOf
  <2>6. contentOf' = contentOf
    BY <2>1 DEF Ledger!Issue, contentOf
  <2>7. SumFunction(balanceOf) = 0 /\ SumFunction(contentOf) = 0
    BY <1>s, <2>3, <2>5, SumZero
  <2>8. SumFunction(balanceOf') = SumFunction(balanceOf) + balanceOf'[u] - balanceOf[u]
    BY <1>s, <2>2, <2>4, SumChange
  <2>9. Total = 0 /\ Total' = n /\ balanceOf'[ZERO_ADDRESS] = balanceOf[ZERO_ADDRESS]
    BY <1>c, <1>s, <2>1, <2>2, <2>3, <2>4, <2>6, <2>7, <2>8
  <2>10. Cardinality(unpaid) = 0
    BY <1>a, <1>b, <2>9
  <2>11. TokensConserved'
    BY <1>a, <1>b, <2>1, <2>2, <2>9, <2>10
  <2> QED
    BY <1>b, <1>d, <1>e, <2>2, <2>9, <2>11 DEF ConservationInv
<1>3. CASE TokensCreated
  <2>1. PICK k \in PubKeys : /\ pub_key[k] = None /\ pub_key'[k] # None
                              /\ unpaid' = unpaid \cup {k}
    BY <1>3 DEF TokensCreated
  <2>2. k \notin unpaid /\ UNCHANGED issue
    BY <1>0, <1>3, <2>1 DEF ConservationInv, TokensCreated
  <2>3. IsFiniteSet(unpaid') /\ Cardinality(unpaid') = Cardinality(unpaid) + 1
    BY <1>b, <2>1, <2>2, FS_AddElement
  <2>4. /\ balanceOf' \in [Addresses -> Int]
        /\ balanceOf'[ZERO_ADDRESS] = balanceOf[ZERO_ADDRESS] + 10
        /\ \A a \in Addresses \ {ZERO_ADDRESS} : balanceOf'[a] = balanceOf[a]
        /\ contentOf' = contentOf
    BY <1>3, <1>b, <1>c, <1>d, <1>s DEF TokensCreated, Ledger!Windfall, contentOf
  <2>5. SumFunction(balanceOf')
          = SumFunction(balanceOf) + balanceOf'[ZERO_ADDRESS] - balanceOf[ZERO_ADDRESS]
    BY <1>c, <1>s, <2>4, SumChange
  <2>6. Total' = Total + 10
    BY <1>d, <1>s, <2>4, <2>5
  <2>7. TokensConserved'
    BY <1>a, <1>b, <2>2, <2>3, <2>6
  <2>8. account'[ZERO_ADDRESS].balance >= 10 * Cardinality(unpaid')
    BY <1>b, <1>d, <2>3, <2>4
  <2> QED
    BY <1>b, <1>e, <2>1, <2>3, <2>7, <2>8 DEF ConservationInv
<1> QED
  BY <1>1, <1>2, <1>3, TokenSteps DEF TokenStep

(* The three families conserve tokens, for any number of signers, swaps    *)
(* and keys: nothing is lost and nothing is created but the ten tokens of  *)
(* each key stored by a payer for itself, as long as no swap is closed     *)
(* whose receiver is a stored record.                                      *)
THEOREM ConservationAlways == Spec => []ConservationInv
<1>1. Init => ConservationInv
  <2> SUFFICES ASSUME Init
               PROVE  ConservationInv
    OBVIOUS
  <2>1. TypeOK /\ unpaid = {} /\ issue.amount = 0 /\ overwritten = {}
    BY InitTypeOK DEF Init, PubKeyInit, AccountInit, SwapInit
  <2>2. /\ \A a \in Addresses : account[a].balance = 0
        /\ \A id \in SwapIds : swap[id] = None
    BY DEF Init, AccountInit, SwapInit, NewAccount
  <2>3. /\ \A a \in Addresses : balanceOf[a] = 0
        /\ \A id \in SwapIds : contentOf[id] = 0
    BY <2>2 DEF balanceOf, contentOf, escrowOf
  <2>4. /\ IsFiniteSet(Addresses) /\ IsFiniteSet(SwapIds)
        /\ balanceOf \in [Addresses -> Int] /\ contentOf \in [SwapIds -> Int]
    BY <2>1, Summands
  <2>5. Total = 0
    BY <2>3, <2>4, SumZero DEF Total
  <2>6. IsFiniteSet(unpaid) /\ Cardinality(unpaid) = 0
    BY <2>1, FS_EmptySet
  <2>7. TokensConserved
    BY <2>1, <2>5, <2>6, ConservedTotal DEF TokensAddUp, PUB_KEY_STORE_PRICE
  <2>8. ZERO_ADDRESS \in Addresses
    BY DEF Addresses
  <2> QED
    BY <2>1, <2>2, <2>6, <2>7, <2>8 DEF ConservationInv, PUB_KEY_STORE_PRICE
<1>2. TypeOK /\ TypeOK' /\ NothingBeforeGenesis /\ ConservationInv /\ [Next]_vars
          => ConservationInv'
  BY ConservationStep
<1> QED
  BY <1>1, <1>2, TypeCorrect, NothingBeforeGenesisCorrect, PTL DEF Spec

(* TokensConserved holds in every reachable state, whatever the number of  *)
(* signers, swaps and keys, the issue and the amounts: the balances and    *)
(* the deposits add up for as long as no record was overwritten.           *)
THEOREM ConservationCorrect == Spec => []TokensConserved
<1>1. ConservationInv => TokensConserved
  BY DEF ConservationInv, TokensConserved
<1> QED
  BY <1>1, ConservationAlways, PTL

(* The deposit of an open swap, its sender's balance and the sink's are    *)
(* parts of one total; the sink holds at least the tokens that exceed what *)
(* genesis issued, and that was a uint64: so the other two fit one.        *)
LEMMA RefundFits == TypeOK /\ ConservationInv => RefundNeverOverflows
<1> SUFFICES ASSUME TypeOK, ConservationInv, overwritten = {},
                    NEW id \in SwapIds, permitted_to_change(id)
             PROVE  may_credit(swap[id].sender_address, swap[id].amount)
  BY DEF RefundNeverOverflows
<1> DEFINE s == swap[id].sender_address
           n == Cardinality(unpaid)
<1>1. swap[id] \in AtomicSwapInfo /\ contentOf[id] = swap[id].amount
  <2>1. swap[id] \in AtomicSwapInfo \cup {None} /\ swap[id] # None
    BY DEF permitted_to_change, TypeOK, SwapTypeOK
  <2>2. contentOf[id] = held(id)
    BY Summands
  <2> QED
    BY <2>1, <2>2 DEF held
<1>2. s \in Signers /\ swap[id].amount \in Nat
  BY <1>1, AccountAssumption DEF AtomicSwapInfo, U64
<1>3. s \in Addresses /\ ZERO_ADDRESS \in Addresses /\ s # ZERO_ADDRESS
  BY <1>2, AccountAssumption DEF Addresses
<1>4. /\ balanceOf[s] = account[s].balance
      /\ balanceOf[ZERO_ADDRESS] = account[ZERO_ADDRESS].balance
      /\ account[s].balance \in Nat /\ account[ZERO_ADDRESS].balance \in Nat
  <2>1. balanceOf \in [Addresses -> Nat]
    BY Summands
  <2>2. balanceOf[s] \in Nat /\ balanceOf[ZERO_ADDRESS] \in Nat
    BY <1>3, <2>1
  <2> QED
    BY <1>3, <2>2 DEF balanceOf
<1>5. n \in Nat /\ account[ZERO_ADDRESS].balance >= 10 * n
  BY FS_CardinalityType DEF ConservationInv, PUB_KEY_STORE_PRICE
<1>6. issue.amount \in Nat /\ issue.amount =< MaxU64 /\ MaxU64 \in Nat
  BY AccountAssumption DEF TypeOK, AccountTypeOK, U64
<1>7. SumFunction(balanceOf) + SumFunction(contentOf) = issue.amount + 10 * n
  BY ConservedTotal DEF ConservationInv, TokensAddUp, Total, PUB_KEY_STORE_PRICE
<1>8. SumFunction(balanceOf) \in Nat /\ SumFunction(contentOf) \in Nat
  BY Summands
<1> HIDE DEF s, n
<1>9. balanceOf[s] + balanceOf[ZERO_ADDRESS] =< SumFunction(balanceOf)
  BY <1>3, Summands, SumBoundTwo
<1>10. contentOf[id] =< SumFunction(contentOf)
  BY Summands, SumBound
<1>11. account[s].balance + swap[id].amount =< MaxU64
  BY <1>1, <1>2, <1>4, <1>5, <1>6, <1>7, <1>8, <1>9, <1>10
<1> QED
  BY <1>2, <1>4, <1>6, <1>11 DEF may_credit, U64, s

(* Paying a deposit back is never refused for the sender's uint64 balance: *)
(* RefundNeverOverflows holds in every reachable state.                    *)
THEOREM RefundsFit == Spec => []RefundNeverOverflows
BY RefundFits, TypeCorrect, ConservationAlways, PTL
=============================================================================
