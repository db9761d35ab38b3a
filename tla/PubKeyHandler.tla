--------------------------- MODULE PubKeyHandler ----------------------------
(***************************************************************************)
(* The pub_key transaction family (remme/tp/pub_key.py): registering a     *)
(* public key for its owner, paid by the owner (STORE) or by another       *)
(* account (STORE_AND_PAY), and revoking it.                               *)
(*                                                                         *)
(* A public key is named by the address its record is stored at.  A        *)
(* signature is modelled by who made it: it verifies against exactly that  *)
(* key.  Validity dates are counted in days.                               *)
(***************************************************************************)
EXTENDS AccountHandler

CONSTANT Dates      \* valid_from and valid_to values a payload may carry

PUB_KEY_STORE_PRICE == 10
PUB_KEY_MAX_VALIDITY == 365

PubKeyStorage == [owner : Signers, valid_from : Dates, valid_to : Dates,
                  is_revoked : BOOLEAN]

ASSUME PubKeyAssumption ==
    /\ Dates \subseteq Int
    /\ None \notin PubKeyStorage

VARIABLES
    pub_key,         \* PubKeyStorage by public key
    economy_enabled, \* the setting remme.economy_enabled is unset or 'true'
    unpaid           \* history: keys for whose price nobody was debited

pubKeyVars == <<pub_key, economy_enabled, unpaid>>

(* NewPubKeyPayload; entity_hash_signature was made with the key signed_by. *)
NewPubKeyPayload == [public_key : PubKeys, signed_by : PubKeys,
                     valid_from : Dates, valid_to : Dates]

(* processor.verify() of the RSA, ECDSA and Ed25519 processors             *)
verify(payload) == payload.signed_by = payload.public_key

(* True if the validity does NOT exceed the maximum, whatever the name.    *)
is_public_key_validity_exceeded(payload) ==
    payload.valid_to - payload.valid_from <= PUB_KEY_MAX_VALIDITY

NewPubKeyStorage(owner, payload) ==
    [owner |-> owner, valid_from |-> payload.valid_from,
     valid_to |-> payload.valid_to, is_revoked |-> FALSE]

(* _charge_for_storing: what is left of the accounts once the price is     *)
(* transferred to the zero address, if the economy is enabled.             *)
may_charge_for_storing(address_from) ==
    economy_enabled =>
        may_transfer_from_address(address_from, ZERO_ADDRESS, PUB_KEY_STORE_PRICE)
charge_for_storing(address_from) ==
    IF economy_enabled
    THEN transfer_from_address(address_from, ZERO_ADDRESS, PUB_KEY_STORE_PRICE)
    ELSE account

store_public_key_to_account(public_key, owner_account) ==
    [owner_account EXCEPT !.pub_keys = @ \cup {public_key}]

-----------------------------------------------------------------------------
(* Seeded fault: the key is linked to the account as it was before the     *)
(* charge.                                                                 *)
store_pub_key_to_stale_account(signer, payload) ==
    /\ verify(payload)
    /\ pub_key[payload.public_key] = None
    /\ is_public_key_validity_exceeded(payload)
    /\ may_charge_for_storing(signer)
    /\ account' = [charge_for_storing(signer) EXCEPT ![signer] =
                     store_public_key_to_account(payload.public_key, account[signer])]
    /\ pub_key' = [pub_key EXCEPT ![payload.public_key] = NewPubKeyStorage(signer, payload)]
    /\ UNCHANGED <<genesis_status, issue, economy_enabled, unpaid>>

(* _store_pub_key links the key to the sender's account as it is after     *)
(* the charge.                                                             *)
store_pub_key(signer, payload) ==
    /\ verify(payload)
    /\ pub_key[payload.public_key] = None
    /\ is_public_key_validity_exceeded(payload)
    /\ may_charge_for_storing(signer)
    /\ LET state == charge_for_storing(signer)
       IN  account' = [state EXCEPT ![signer] =
                         store_public_key_to_account(payload.public_key, state[signer])]
    /\ pub_key' = [pub_key EXCEPT ![payload.public_key] = NewPubKeyStorage(signer, payload)]
    /\ UNCHANGED <<genesis_status, issue, economy_enabled, unpaid>>

(* Seeded fault: the key is linked to the payer.                           *)
store_public_key_for_payer(signer, owner, signature_by_owner, payload) ==
    /\ signature_by_owner = owner
    /\ verify(payload)
    /\ pub_key[payload.public_key] = None
    /\ is_public_key_validity_exceeded(payload)
    /\ may_charge_for_storing(signer)
    /\ LET state == charge_for_storing(signer)
       IN  account' = [state EXCEPT ![signer] =
                         store_public_key_to_account(payload.public_key, state[signer])]
    /\ pub_key' = [pub_key EXCEPT ![payload.public_key] = NewPubKeyStorage(owner, payload)]
    /\ UNCHANGED <<genesis_status, issue, economy_enabled, unpaid>>

(* _store_public_key_for_other links the key to the owner's account as it  *)
(* was read before the charge, and writes that account last.               *)
store_public_key_for_other(signer, owner, signature_by_owner, payload) ==
    /\ signature_by_owner = owner
    /\ verify(payload)
    /\ pub_key[payload.public_key] = None
    /\ is_public_key_validity_exceeded(payload)
    /\ may_charge_for_storing(signer)
    /\ LET state == charge_for_storing(signer)
       IN  account' = [state EXCEPT ![owner] =
                         store_public_key_to_account(payload.public_key, account[owner])]
    /\ pub_key' = [pub_key EXCEPT ![payload.public_key] = NewPubKeyStorage(owner, payload)]
    /\ unpaid' = IF economy_enabled /\ signer = owner
                 THEN unpaid \cup {payload.public_key} ELSE unpaid
    /\ UNCHANGED <<genesis_status, issue, economy_enabled>>

(* Seeded fault: the record of a revoked key is deleted.                   *)
revoke_by_deleting(signer, public_key) ==
    /\ pub_key[public_key] # None
    /\ pub_key[public_key].owner = signer
    /\ pub_key' = [pub_key EXCEPT ![public_key] = None]
    /\ UNCHANGED <<accountVars, economy_enabled, unpaid>>

revoke_pub_key(signer, public_key) ==
    /\ pub_key[public_key] # None
    /\ pub_key[public_key].owner = signer
    /\ ~pub_key[public_key].is_revoked
    /\ pub_key' = [pub_key EXCEPT ![public_key].is_revoked = TRUE]
    /\ UNCHANGED <<accountVars, economy_enabled, unpaid>>

-----------------------------------------------------------------------------
(* Sawtooth's settings family.                                             *)
SetEconomyEnabled(value) ==
    /\ economy_enabled' = value
    /\ UNCHANGED <<accountVars, pub_key, unpaid>>

PubKeyInit ==
    /\ pub_key = [k \in PubKeys |-> None]
    /\ economy_enabled = TRUE
    /\ unpaid = {}

PubKeyNext ==
    \E signer \in Signers :
        \/ \E payload \in NewPubKeyPayload :
              \/ store_pub_key(signer, payload)
              \/ \E owner \in Signers, signature_by_owner \in Signers :
                    store_public_key_for_other(signer, owner, signature_by_owner, payload)
        \/ \E public_key \in PubKeys : revoke_pub_key(signer, public_key)

PubKeyTypeOK ==
    /\ pub_key \in [PubKeys -> PubKeyStorage \cup {None}]
    /\ economy_enabled \in BOOLEAN
    /\ unpaid \subseteq PubKeys
=============================================================================
