------------------------ MODULE MCEventSubscription -------------------------
(* Small instances of EventSubscription for TLC.                           *)
EXTENDS EventSubscription, TLC

CONSTANTS w1, w2, r1, r2, r3, t1, t2, b1, b2, s1, x, y

Sub(ws, event_type, filter) ==
    [ws |-> ws, method |-> "subscribe", event_type |-> event_type, filter |-> filter,
     from_block |-> FALSE]
SubFrom(ws, filter) == [Sub(ws, "atomic_swap", filter) EXCEPT !.from_block = TRUE]
Unsub(ws, event_type, filter) == [Sub(ws, event_type, filter) EXCEPT !.method = "unsubscribe"]

\* One connection, blocks, swaps from a past block and the status of a batch.
MCMixedParams == {Sub(w1, "blocks", x), SubFrom(w1, x), Sub(w1, "batch", x),
                  Unsub(w1, "blocks", x), Unsub(w1, "batch", x)}
MCMixedNames == b1 :> "blocks" @@ s1 :> "atomic_swap"
MCMixedConcerns == b1 :> {x} @@ s1 :> {x}
MCMixedHash == b1 :> b1 @@ s1 :> s1

\* Two connections that share the lock, one with a single subscription.
MCLockParams == {Sub(w1, "batch", x), Sub(w2, "blocks", x), Unsub(w2, "blocks", x)}

\* One kind of event at a time.
MCTwoTransfers == t1 :> "transfer" @@ t2 :> "transfer"
MCBothConcern == t1 :> {x} @@ t2 :> {x}
\* The second transfer leaves both accounts with the balances of the first.
MCSameBalances == t1 :> t1 @@ t2 :> t1
MCTransferParams == {Sub(w1, "transfer", x), Unsub(w1, "transfer", x)}
MCBatchAndTransfer == {Sub(w1, "batch", x), Sub(w1, "transfer", x)}
MCTwoBatches == {Sub(w1, "batch", x), Sub(w1, "batch", y), Unsub(w1, "batch", x)}

MCNoEvents == [e \in {} |-> "transfer"]
MCNoConcerns == [e \in {} |-> {}]
MCFinalOnly == <<"COMMITTED">>
MCStatus == <<"PENDING", "COMMITTED">>
MCRequests == Permutations(Requests)
=============================================================================
