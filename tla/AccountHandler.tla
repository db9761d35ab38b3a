--------------------------- MODULE AccountHandler ---------------------------
(***************************************************************************)
(* The account transaction family (remme/tp/account.py): accounts with a   *)
(* token balance and the addresses of the public keys linked to them, the  *)
(* one-off genesis issue and transfers.                                    *)
(*                                                                         *)
(* A signer is named by the account address that make_address_from_data    *)
(* derives from its public key (a hash, taken to be injective).  A         *)
(* transaction the handler rejects (InvalidTransaction, or a ValueError    *)
(* when a uint64 field would leave its range) changes no state: it is an   *)
(* action that is not enabled.                                             *)
(***************************************************************************)
EXTENDS Integers, FiniteSets

CONSTANTS
    Signers,          \* account addresses of the keys that sign transactions
    ZERO_ADDRESS,     \* the reserved address, '0' * 70
    GENESIS_ADDRESS,  \* where the status of genesis is stored
    ForeignAddresses, \* well-formed addresses where nothing else is stored
    PubKeys,          \* addresses of public keys (family pub_key)
    Amounts,          \* token amounts a payload may carry
    Supplies,         \* total_supply values a genesis payload may carry
    MaxU64,           \* largest value of a uint64 field
    None              \* absence of a value

ASSUME AccountAssumption ==
    /\ IsFiniteSet(Signers) /\ IsFiniteSet(ForeignAddresses)
    /\ Signers \cap ForeignAddresses = {}
    /\ ZERO_ADDRESS \notin Signers \cup ForeignAddresses
    /\ None \notin Signers \cup ForeignAddresses \cup {ZERO_ADDRESS} \cup BOOLEAN
    /\ MaxU64 \in Nat
    /\ Amounts \subseteq 0..MaxU64
    /\ Supplies \subseteq 0..MaxU64

VARIABLES
    account,        \* what each address holds, read as an Account message
    genesis_status, \* GenesisStatus.status at GENESIS_ADDRESS, None if not there
    issue           \* history: who was issued how much at genesis

accountVars == <<account, genesis_status, issue>>

Addresses == Signers \cup ForeignAddresses \cup {ZERO_ADDRESS}
U64 == 0..MaxU64
Account == [balance : U64, pub_keys : SUBSET PubKeys]

\* Account(): what get_account_by_address yields for an address without data.
NewAccount == [balance |-> 0, pub_keys |-> {}]

-----------------------------------------------------------------------------
(* _transfer_from_address: the conditions under which it does not raise.   *)
may_transfer_from_address(address_from, address_to, value) ==
    /\ value # 0
    /\ address_to \in Signers \cup {ZERO_ADDRESS}
    /\ address_from # address_to
    /\ account[address_from].balance >= value
    /\ account[address_to].balance + value \in U64

(* Seeded fault: the receiver's account is built anew, not read.           *)
transfer_to_fresh_account(address_from, address_to, value) ==
    [account EXCEPT ![address_from].balance = @ - value,
                    ![address_to] = [NewAccount EXCEPT
                                       !.balance = account[address_to].balance + value]]

(* The state it returns.  Sender and receiver are two separate messages    *)
(* and the receiver is written after the sender.                           *)
transfer_from_address(address_from, address_to, value) ==
    LET signer_account   == [account[address_from] EXCEPT !.balance = @ - value]
        receiver_account == [account[address_to] EXCEPT !.balance = @ + value]
    IN  [account EXCEPT ![address_from] = signer_account,
                        ![address_to] = receiver_account]

(* ProtoForm._gen_load turns text that is all digits into a number: of the *)
(* addresses only the zero address, which becomes 0.                       *)
gen_load(v) == IF v = ZERO_ADDRESS THEN 0 ELSE v

(* DataRequired refuses a 0, so no payload can name the zero address; only *)
(* internal transfers reach it.                                            *)
AddressField(address) == gen_load(address) # 0
TransferPayloadForm(address_to, value) == AddressField(address_to) /\ value # 0
GenesisPayloadForm(total_supply) == total_supply # 0

transfer(signer, address_to, value) ==
    /\ TransferPayloadForm(address_to, value)
    /\ may_transfer_from_address(signer, address_to, value)
    /\ account' = transfer_from_address(signer, address_to, value)
    /\ UNCHANGED <<genesis_status, issue>>

(* Seeded faults: the status is not stored; the status is not tested.      *)
genesis_without_status(signer, total_supply) ==
    /\ GenesisPayloadForm(total_supply)
    /\ genesis_status # TRUE
    /\ account' = [account EXCEPT ![signer] = [NewAccount EXCEPT !.balance = total_supply]]
    /\ issue' = [address |-> signer, amount |-> total_supply]
    /\ UNCHANGED genesis_status
genesis_again(signer, total_supply) ==
    /\ GenesisPayloadForm(total_supply)
    /\ genesis_status' = TRUE
    /\ account' = [account EXCEPT ![signer] = [NewAccount EXCEPT !.balance = total_supply]]
    /\ issue' = [address |-> signer, amount |-> total_supply]

(* _genesis: the signer's account is replaced by a fresh one.  A status    *)
(* that is there and is false is written back as it is.                    *)
genesis(signer, total_supply) ==
    /\ GenesisPayloadForm(total_supply)
    /\ genesis_status # TRUE
    /\ genesis_status' = IF genesis_status = None THEN TRUE ELSE genesis_status
    /\ account' = [account EXCEPT ![signer] = [NewAccount EXCEPT !.balance = total_supply]]
    /\ issue' = [address |-> signer, amount |-> total_supply]

AccountInit ==
    /\ account = [a \in Addresses |-> NewAccount]
    /\ genesis_status = None
    /\ issue = [address |-> None, amount |-> 0]

AccountNext ==
    \E signer \in Signers :
        \/ \E total_supply \in Supplies : genesis(signer, total_supply)
        \/ \E address_to \in Addresses, value \in Amounts :
              transfer(signer, address_to, value)

AccountTypeOK ==
    /\ account \in [Addresses -> Account]
    /\ genesis_status \in BOOLEAN \cup {None}
    /\ issue \in [address : Signers \cup {None}, amount : U64]
=============================================================================
