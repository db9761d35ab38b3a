---------------------------- MODULE EscrowLedger ----------------------------
(***************************************************************************)
(* What the transaction families promise about tokens, whatever the swaps  *)
(* and the public keys are about.  Tokens are issued once, to a user, when *)
(* nobody holds any.  From then on they only change hands: a user pays     *)
(* from its own account, or puts a deposit into a fresh escrow and pays a  *)
(* fee to the sink; an escrow pays out once, in whole, and is never used   *)
(* again.  The sink never pays.                                            *)
(*                                                                         *)
(* Windfall is the one way in which tokens appear later: the price of a    *)
(* stored key that reaches the sink without being taken from the payer.    *)
(*                                                                         *)
(* The promise ends when the ledger is no longer intact: when a payment    *)
(* was written over a record that is not an account.  This step and those  *)
(* after it are not promised anything.                                     *)
(***************************************************************************)
EXTENDS Integers

CONSTANTS
    Users,    \* accounts that can pay
    Holders,  \* accounts that can hold tokens
    Sink,     \* the reserved account that only receives
    Escrows,
    Supply,   \* quantities that may be issued
    Price     \* price of storing a public key

VARIABLES
    balance,  \* tokens of each holder
    escrow,   \* status and content of each escrow
    intact    \* no payment was written over a record

ledgerVars == <<balance, escrow, intact>>

Issue(u) ==
    /\ \A h \in Holders : balance[h] = 0
    /\ \A e \in Escrows : escrow[e].status = "unused"
    /\ \E n \in Supply : balance' = [balance EXCEPT ![u] = n]
    /\ UNCHANGED escrow

Pay(u, h) ==
    /\ u # h
    /\ UNCHANGED escrow
    /\ \E n \in 0..balance[u] :
          balance' = [balance EXCEPT ![u] = @ - n, ![h] = @ + n]

Deposit(u, e, n) ==
    /\ escrow[e].status = "unused"
    /\ escrow' = [escrow EXCEPT ![e] = [status |-> "held", content |-> n]]
    /\ \E fee \in 0..(balance[u] - n) :
          balance' = [balance EXCEPT ![u] = @ - (n + fee), ![Sink] = @ + fee]

Release(e, h) ==
    /\ escrow[e].status = "held"
    /\ balance' = [balance EXCEPT ![h] = @ + escrow[e].content]
    /\ escrow' = [escrow EXCEPT ![e] = [status |-> "spent", content |-> 0]]

Windfall ==
    /\ balance' = [balance EXCEPT ![Sink] = @ + Price]
    /\ UNCHANGED escrow

LedgerInit ==
    /\ balance = [h \in Holders |-> 0]
    /\ escrow = [e \in Escrows |-> [status |-> "unused", content |-> 0]]
    /\ intact = TRUE

LedgerNext ==
    \/ \E u \in Users : Issue(u)
    \/ \E u \in Users, h \in Holders : Pay(u, h)
    \/ \E u \in Users, e \in Escrows : \E n \in 0..balance[u] : Deposit(u, e, n)
    \/ \E e \in Escrows, h \in Holders : Release(e, h)
    \/ Windfall

LedgerSpec == LedgerInit /\ [][intact' => intact /\ LedgerNext]_ledgerVars
=============================================================================
