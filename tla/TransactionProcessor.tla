------------------------ MODULE TransactionProcessor ------------------------
(***************************************************************************)
(* The three transaction families over one state, as BasicHandler.apply    *)
(* runs them: one transaction at a time, a rejected one leaving no trace.  *)
(* All of them read and write accounts.                                    *)
(*                                                                         *)
(* A swap may name any stored record as its receiver, and closing it then  *)
(* destroys that record (close_over_record).  The properties below say     *)
(* what holds of all that was not overwritten; that overwriting happens is *)
(* part of the specification.                                              *)
(***************************************************************************)
EXTENDS AtomicSwapHandler, FiniteSetsExt

vars == <<accountVars, swapVars, pubKeyVars>>

Init == AccountInit /\ SwapInit /\ PubKeyInit

(* apply: the method of the payload selects the processor of its family.   *)
apply ==
    \/ AccountNext /\ UNCHANGED <<swapVars, pubKeyVars>>
    \/ SwapNext
    \/ PubKeyNext /\ UNCHANGED swapVars

(* Sawtooth's own families, which the handlers only read from.             *)
Environment ==
    \/ SwapEnvironmentNext
    \/ \E value \in BOOLEAN : SetEconomyEnabled(value) /\ UNCHANGED swapVars

Next == apply \/ Environment

Spec == Init /\ [][Next]_vars

(***************************************************************************)
(* A sender that wants its deposit back keeps submitting the expire        *)
(* transaction, and blocks keep coming.                                    *)
(***************************************************************************)
Expire(swap_id) == \E signer \in Signers : swap_expire(signer, swap_id)
AnyNewBlock == \E timestamp \in Timestamps : NewBlock(timestamp)

FairSpec ==
    /\ Spec
    /\ WF_vars(AnyNewBlock)
    /\ \A swap_id \in SwapIds : WF_vars(Expire(swap_id))

-----------------------------------------------------------------------------
(* Every account, swap, public key and setting has the type of its message. *)
TypeOK == AccountTypeOK /\ SwapTypeOK /\ PubKeyTypeOK

(* The lock, the key and the state of a swap fit together.                 *)
Consistent(s) ==
    /\ s.state = OPENED => (s.is_initiator <=> s.secret_lock = NoLock)
    /\ s.state \in {SECRET_LOCK_PROVIDED, APPROVED} =>
          s.is_initiator /\ s.secret_lock # NoLock
    /\ s.state = CLOSED =>
          /\ s.secret_lock # NoLock
          /\ s.secret_key # NoKey
          /\ Hash[s.secret_key] = s.secret_lock
    /\ s.state # CLOSED => s.secret_key = NoKey
    /\ ~s.is_initiator => s.secret_lock # NoLock
    /\ s.amount > 0

(* The lifecycle of a swap, over all the orders in which the five methods  *)
(* can be applied: a swap opened with a lock never waits for approval; one *)
(* opened without can be approved only once it has a lock; a closed swap   *)
(* reveals a key that opens its lock, an open or expired one reveals none. *)
(* Only a swap whose own address a closed swap paid to may be otherwise.   *)
SwapLifecycle ==
    \A id \in SwapIds \ overwritten : swap[id] # None => Consistent(swap[id])

balanceOf == [a \in Addresses |-> account[a].balance]
held(id) == IF permitted_to_change(id) THEN swap[id].amount ELSE 0

(* Tokens are conserved by every sequence of transactions of the three     *)
(* families: what the accounts hold and what is locked in open swaps add   *)
(* up to what genesis issued, plus the price of every key that was stored  *)
(* with STORE_AND_PAY for the payer itself (see PayerIsCharged).  This     *)
(* ends when a swap is closed whose receiver is a stored record.           *)
TokensConserved ==
    overwritten = {} =>
        SumFunction(balanceOf) + SumFunction([id \in SwapIds |-> held(id)])
            = issue.amount + PUB_KEY_STORE_PRICE * Cardinality(unpaid)

(* Paying an open swap's deposit back can never be refused because the     *)
(* sender's uint64 balance would overflow, even if all of uint64 was       *)
(* issued: nothing sends a deposit back twice or issues tokens twice, as   *)
(* long as no record was overwritten.                                      *)
RefundNeverOverflows ==
    overwritten = {} =>
        \A id \in SwapIds : permitted_to_change(id) =>
            may_credit(swap[id].sender_address, swap[id].amount)

(* Before the genesis transaction there is nothing to spend: no account    *)
(* holds a token and no swap was ever opened, so the fresh account         *)
(* _genesis writes over the signer's loses no balance.  The status then    *)
(* stays, unless a swap is closed whose receiver is the status' address.   *)
NothingBeforeGenesis ==
    (genesis_status # TRUE /\ GENESIS_ADDRESS \notin overwritten) =>
        /\ genesis_status = None
        /\ overwritten = {}
        /\ \A a \in Addresses : account[a].balance = 0
        /\ \A id \in SwapIds : swap[id] = None
        /\ unpaid = {}
        /\ issue.address = None

(* A registered key is linked to its owner's account, so that the owner    *)
(* finds it there, unless that account is the one the genesis transaction  *)
(* replaced.  The key's record and the account are written by different    *)
(* branches of the store handlers, and the account by every transfer.      *)
(* Where a closed swap overwrote the key's record, or the status by which  *)
(* genesis happens once, nothing is said.                                  *)
KeyLinkedToOwner ==
    \A k \in PubKeys \ overwritten : pub_key[k] # None =>
        \/ k \in account[pub_key[k].owner].pub_keys
        \/ pub_key[k].owner = issue.address
        \/ GENESIS_ADDRESS \in overwritten

(* An account lists only keys whose record names it as the owner, or was   *)
(* overwritten.                                                            *)
OnlyOwnKeysLinked ==
    \A a \in Addresses : \A k \in account[a].pub_keys \ overwritten :
        pub_key[k] # None /\ pub_key[k].owner = a

-----------------------------------------------------------------------------
(* What was agreed when a swap was opened never changes, its secret lock   *)
(* is set at most once (so the lock a sender approved is the lock that     *)
(* close tests), and a closed or expired swap is final, whoever the        *)
(* receivers of other swaps are, except for one: the close of a swap that  *)
(* has this one's address as its receiver.                                 *)
SwapTermsFixed ==
    [][\A id \in SwapIds \ overwritten' : swap[id] # None =>
          /\ swap'[id] # None
          /\ swap'[id].amount = swap[id].amount
          /\ swap'[id].created_at = swap[id].created_at
          /\ swap'[id].sender_address = swap[id].sender_address
          /\ swap'[id].receiver_address = swap[id].receiver_address
          /\ swap'[id].is_initiator = swap[id].is_initiator
          /\ swap[id].secret_lock # NoLock => swap'[id].secret_lock = swap[id].secret_lock
          /\ swap[id].state = APPROVED => swap'[id].state \in {APPROVED, CLOSED, EXPIRED}
          /\ swap[id].state \in {CLOSED, EXPIRED} => swap'[id] = swap[id]
      ]_vars

(* A deposit is refunded only when 24 hours (48 for a swap opened with a   *)
(* lock) have really passed between the block the swap was opened in and   *)
(* the latest one, as the stored block information has it.                 *)
RefundedOnlyAfterTimeLock ==
    [][\A id \in SwapIds \ overwritten' :
          (swap[id] # None /\ swap[id].state # EXPIRED /\ swap'[id].state = EXPIRED) =>
              block_timestamp - swap[id].created_at >=
                  (IF swap[id].is_initiator THEN 24 ELSE 48)
      ]_vars

(* A key record is never replaced or withdrawn: its owner and its validity *)
(* stay, and once revoked it stays revoked and cannot be registered anew,  *)
(* as long as no swap is closed whose receiver is the record's address.    *)
KeyRecordForever ==
    [][\A k \in PubKeys \ overwritten' : pub_key[k] # None =>
          pub_key'[k] \in {pub_key[k], [pub_key[k] EXCEPT !.is_revoked = TRUE]}]_vars

(* With the economy enabled, the signer of a STORE_AND_PAY transaction     *)
(* pays the price of storing the key, whoever the owner is.                *)
PayerIsCharged ==
    [][\A signer, owner \in Signers, payload \in NewPubKeyPayload :
          (economy_enabled /\ store_public_key_for_other(signer, owner, owner, payload)) =>
              account'[signer].balance = account[signer].balance - PUB_KEY_STORE_PRICE]_vars

(* Once a swap's time lock has run out within the modelled horizon, its    *)
(* deposit does not stay locked: the swap is closed or refunded, or some   *)
(* record was overwritten.                                                 *)
EverySwapSettles ==
    \A id \in SwapIds :
        (/\ swap[id] # None
         /\ \E t \in Timestamps : t >= swap[id].created_at + 48)
            ~> (\/ swap[id] # None /\ swap[id].state \in {CLOSED, EXPIRED}
                \/ overwritten # {})

-----------------------------------------------------------------------------
(* The refinement mapping to EscrowLedger: an open swap is an escrow that  *)
(* holds its amount.                                                       *)
escrowOf ==
    [id \in SwapIds |->
        IF swap[id] = None THEN [status |-> "unused", content |-> 0]
        ELSE IF swap[id].state \in {CLOSED, EXPIRED}
             THEN [status |-> "spent", content |-> 0]
             ELSE [status |-> "held", content |-> swap[id].amount]]

Ledger == INSTANCE EscrowLedger WITH
    Users <- Signers, Holders <- Addresses, Sink <- ZERO_ADDRESS,
    Escrows <- SwapIds, Supply <- U64, Price <- PUB_KEY_STORE_PRICE,
    balance <- balanceOf, escrow <- escrowOf, intact <- overwritten = {}

(* The families keep the promise of EscrowLedger until a record is         *)
(* overwritten: tokens are issued once, move only out of the signer's      *)
(* account or out of an escrow, and every swap pays out its whole amount   *)
(* exactly once.                                                           *)
ImplementsEscrowLedger == Ledger!LedgerSpec
=============================================================================
