----------------------- MODULE MCTransactionProcessor -----------------------
(* Small instances of TransactionProcessor and its Clients for TLC.        *)
EXTENDS Clients, FiniteSets, FiniteSetsExt, TLC

\* Timestamps in hours: both sides of the 24 and of the 48 hours after the
\* first block, and of the 24 hours after the second.
MCTimestamps == {0, 1, 23, 24, 48}
MCUtcOffset == [t \in MCTimestamps |-> 0]

\* Fewer blocks where two swaps or the key families are in play.
MCFewTimestamps == {0, 48}
MCFewUtcOffset == [t \in MCFewTimestamps |-> 0]
MCNoTimestamps == {}
MCNoUtcOffset == [t \in {} |-> 0]

CONSTANTS p1, s1, s2, alice, bob, k1, k2, l1, l2, l3

\* l3 is a lock no known key opens.
MCHash == k1 :> l1 @@ k2 :> l2
MCOneHash == k1 :> l1

\* What an Account may read as where another message was stored: nothing, a
\* swap that could have been opened, one that could not, a key's record.
MCAsSwap ==
    {None,
     [state |-> OPENED, amount |-> 1, created_at |-> 0, secret_lock |-> l1,
      sender_address |-> alice, receiver_address |-> bob,
      is_initiator |-> FALSE, secret_key |-> NoKey],
     [state |-> APPROVED, amount |-> 0, created_at |-> 0, secret_lock |-> NoLock,
      sender_address |-> bob, receiver_address |-> bob,
      is_initiator |-> FALSE, secret_key |-> NoKey]}
MCAsPubKey ==
    {None, [owner |-> bob, valid_from |-> 1, valid_to |-> 1, is_revoked |-> FALSE]}
MCNoReading == {None}

MCSwapIds == Permutations({s1, s2})
=============================================================================
