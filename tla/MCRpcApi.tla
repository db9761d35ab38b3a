------------------------------ MODULE MCRpcApi ------------------------------
(* Small instances of RpcApi for TLC.                                      *)
EXTENDS RpcApi

\* Blocks a client may name: on the chain, on another branch, or too new.
MCHeads == {<<"idle">>, <<"idle", "write">>, Malformed}

\* Bounds around the ends of the chain, below zero and beyond it.
MCStarts == {-1, 0, 2, 4}
MCLimits == {-1, 0, 1, 3, 5}

\* The methods left out run the same actions on the same entry.
MCParams ==
    [method : {"get_balance", "get_atomic_swap_info", "get_block_number", "get_node_info"}]
    \cup [method : {"get_public_key_info"}, keyed : BOOLEAN]
    \cup [method : {"get_blocks"}, start : MCStarts, limit : MCLimits]
    \cup [method : {"fetch_state", "list_state", "list_blocks"}, head : MCHeads \cup {None},
          limit : {None, 0}]
    \cup [method : {"fetch_block"}, id : MCHeads]
    \cup [method : {"get_batch_status", "list_receipts"}, id : Batches]
    \cup [method : {"send_raw_transaction"}, id : Batches, form : Forms]

MCSubmitParams == [method : {"send_raw_transaction", "get_batch_status"}, id : Batches, form : Forms]
=============================================================================
