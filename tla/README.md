# A TLA+ development of remme-core

remme-core is a Hyperledger Sawtooth node: a transaction processor with three
transaction families over one state, and a JSON-RPC/WebSocket server that talks
to the validator over ZeroMQ and passes its events on to clients. This directory
models the families and the clients that build their transactions, the event
subscriptions, the JSON-RPC methods over the router, and the connection to the
validator, checks them with TLC on small instances and proves most of the
safety properties with TLAPS for every instance.

All names are those of the code where TLA+ allows it. `PROJECT.json` maps each
definition to the lines it models, each run to its properties, each hazard to
the properties aimed at it, and each property to a mutant of the model that
violates it. The mutants are in the modules, next to what they alter, under
"Seeded fault"; no specification uses them.

## 1. Inventory

| Component | State | Operations | What makes it correct |
|---|---|---|---|
| account family (`remme/tp/account.py`) | accounts: balance (uint64), linked public keys; genesis status | `_genesis`, `_transfer`, `_transfer_from_address` | issued once; tokens conserved; no balance leaves uint64 |
| AtomicSwap family (`remme/tp/atomic_swap.py`) | `AtomicSwapInfo` by id; reads block time and a setting | init, set lock, approve, expire, close | one payout of the whole amount; terms fixed; refund not before 24/48 h and never impossible |
| pub_key family (`remme/tp/pub_key.py`) | key records; links in accounts; reads a setting | store, store and pay for another, revoke | records for ever; record and link agree; the payer pays |
| dispatch (`remme/tp/basic.py`, `context.py`, `__main__.py`) | the cache of one transaction | `apply` | all or nothing |
| forms (`remme/shared/forms`) | none | validation of payloads | what they refuse cannot reach a handler |
| settings (`remme/settings`) | settings, written by Sawtooth | read a value | |
| event subscription (`remme/rpc_api/event`) | `_subsevt`, `_evthashes`, the lock, a consumer per subscription, a producer per batch subscription | subscribe, unsubscribe, `_consumer`, `_producer`, `_process_msg` | subscriptions agree with the validator's; notifications once, under the right id, none lost |
| WebSocket server (`remme/rpc_api/_base.py`) | open sockets, a task per message | `handle_websocket_request`, `_handle_rpc_msg`, `register` | every request answered; nothing kept after close |
| connection (`remme/shared/messaging.py`) | table of futures, incoming queue, receiver task | send, backoff, route, receive, close | every call gets its own reply or an error, always |
| router (`remme/shared/router.py`) | none | one request to the validator, or two for a state read; tests of ids and paging; status to exception | a state read is of one block; a refusal is not taken for data |
| RPC methods (`remme/rpc_api`), readers in `remme/clients` | a task per request, the loop of `get_blocks_info` | balance, keys, swaps, state, blocks, batches, receipts, `send_raw_transaction` | the answer was true at some moment of the request; no block skipped; every request answered |
| clients that build transactions (`remme/clients`), genesis script | the signer's key | transfer, the five swap methods, genesis | the declared addresses are those the handler needs |
| metrics, logging, key files, deployment | none the system depends on | I/O | not modelled (section 8) |

How they interact: the server opens a `Connection` per WebSocket; subscribe sends
the validator a subscription on it; the connection's receiver puts the events on
the queue the consumers read; the handlers of the families, run by the validator,
cause these events; clients submit transactions through the RPC methods, which
reach the validator through the router and read back the state the families
wrote. A transaction declares the addresses it touches; the validator refuses its
handler any other.

What is hard here (the list, with lines, is `hazards` in `PROJECT.json`):

* transactions of three families over the same accounts, with accounts read
  before and written after an internal transfer;
* five swap methods in any order by any signer, limits of uint64, time locks;
* swaps whose receiver is not an account but any stored record, which close
  overwrites;
* asyncio: all of the server interleaves at every `await`, one lock is shared by
  all connections and held across calls to the validator, a dictionary is
  iterated across an await, hashes are remembered after one;
* a read that takes two calls, or one per block, while the chain grows or changes
  its branch, and responses whose statuses not every type declares;
* lists of addresses written in the clients, far from the handlers they must fit;
* late, missing and reordered replies, timeouts, failing sends, a receiver that
  ends, a close in the middle of anything.

## 2. Modules

| Module | Models | Extends |
|---|---|---|
| `AccountHandler` | accounts, genesis, transfers, the forms in front of them | |
| `PubKeyHandler` | storing, paid storing, revoking of keys; economy setting | `AccountHandler` |
| `AtomicSwapHandler` | the five swap methods, block time, commission; the records close may write over | `PubKeyHandler` |
| `TransactionProcessor` | the composition: one state, one transaction at a time; properties | `AtomicSwapHandler` |
| `Clients` | the addresses the node's own transactions declare, against those the handlers read and write | `TransactionProcessor` |
| `EscrowLedger` | abstract: a ledger with escrows, what the families promise | |
| `EventSubscription` | subscribe, unsubscribe, consumers, producers, close | |
| `Router` | the validator's chain and batches, every request to it, what becomes of each response status | |
| `RpcApi` | the JSON-RPC methods, one action per stretch between two calls | `Router` |
| `MessageRouter` | calls, futures, receiver, backoff, timeouts, close | |
| `SumProofs` | lemmas: induction without an operator parameter, sums over finite sets | |
| `TransactionProcessorProofs`, `InvariantProofs`, `RefinementProofs`, `ClientsProofs`, `RpcApiProofs`, `MessageRouterProofs`, `SubscriptionProofs` | theorems about the module named, or about `TransactionProcessor` | |
| `MC...` | small instances | |

### Transactions

A signer is the account address derived from its public key. A transaction that
a handler rejects (`InvalidTransaction`, or a `ValueError` when a uint64 field
would leave its range) leaves no trace, so it is an action that is not enabled;
guards are the conditions the handlers and forms test. `account` is what every
address holds, including the zero address, which collects commissions and
prices, and, in swaps and transfers, addresses outside the account family.

* `gen_load` and `AddressField` keep a conversion: the form turns text that is
  all digits into a number, so the zero address becomes 0 and counts as missing.
* `_transfer_from_address` yields sender and receiver as two messages with the
  receiver written last; `transfer_from_address` does the same.
* Swap creation takes the amount from the account as the commission transfer
  left it. A commission of 0 is refused by the internal transfer, and an unset
  one by the handler.
* `get_datetime_from_timestamp` is local time: a timestamp plus the host's offset
  at that time (`UtcOffset`, arbitrary in the theorems).
* `store_public_key_for_other` writes the owner's account, read before the
  charge, after the charged accounts. `unpaid` is a history variable with the
  keys for which this undoes the charge; `issue` is another, with what genesis
  issued to whom.
* Block times and settings are written by Sawtooth's own families: `NewBlock`,
  `SetCommission` and `SetEconomyEnabled` change them at any time.

**The receiver of a swap.** `AddressField` accepts any 70 hexadecimal digits, and
`_swap_init`, unlike `_transfer_from_address`, does not ask for an address of the
account family. The receiver may be a swap (another one, open or final, or the
swap itself), a key record, the genesis status or the block information
(`Records`). `_swap_close` reads what is there as an `Account`, takes a fresh one if
that fails, and writes an `Account` over it. `swap_close` is therefore two actions:

* `close_to_account` credits an account, as intended;
* `close_over_record` replaces the record. What its own family reads there from then
  on is whatever the bytes of an `Account` parse to as the other message, so it is a
  choice: `AsSwap` for a swap, `AsPubKey` for a key (both arbitrary sets in the
  theorems, `None` for an entry that cannot be parsed), any status of genesis, any
  timestamp of the block information. A swap that pays to its own address loses its
  `CLOSED` record, because the `Account` comes second in the dictionary that is
  returned. A value that the handlers cannot tell from another, such as a
  sender that is no signer, is left out.

`overwritten`, a history variable, is the set of records this has happened to.
`docs/family-atomic-swap.rst` speaks of a "REMchain agent to receive funds", and the
handlers refuse a final swap with "No operations can be done upon the swap"; neither
says that a receiver must be an account, so the properties state exactly what is
left of each promise:

| Property | Holds |
|---|---|
| `SwapLifecycle`, `SwapTermsFixed`, `RefundedOnlyAfterTimeLock` | of every swap that no close has overwritten |
| `KeyRecordForever`, `OnlyOwnKeysLinked` | of every key whose record no close has overwritten |
| `KeyLinkedToOwner` | the same, as long as the genesis status was not overwritten |
| `NothingBeforeGenesis` | as long as the genesis status was not overwritten |
| `TokensConserved`, `RefundNeverOverflows`, `ImplementsEscrowLedger`, `EverySwapSettles` | until the first record is overwritten |

Settings are records as well; a close over one is a change of the setting, which
`SetCommission` and `SetEconomyEnabled` allow at any time. The pattern of an address is
matched at the start of the text only, so a longer text passes; a swap with such a
receiver cannot be closed, only expire, and is not in the model. Where nothing is
stored, the receiver is one of `ForeignAddresses`.

The state of a transaction is its own until it commits, and Sawtooth runs
conflicting transactions as if in sequence, so one action is one transaction.

### Clients

`Clients` adds no state: `client_*` is the pair of lists a client puts in the
header of a transaction, `*_reads` what the handler gets, and `Written` what the
step changed. A handler that writes an entry back unchanged is taken as not
writing it. `ClientTransactionsAuthorised` compares them for every transaction a
handler accepts. It closes a swap for the receiver the swap was opened for, as
the client is told the receiver by its caller, and expires it as its sender. The
pub_key client only prepares payloads; who builds those transactions is outside
this repository.

### Reads and submissions

A block is named by the contents of the chain that ends in it, so a branch is
another name, and a state is a function of a block: `state(block, address)` is the
entry the clients ask for (its value is the number of writes so far), the
configuration of the block_info family, or a block's own information, which the
family keeps for a window of past blocks. `NewHead` replaces the newest block by
any one that is one longer. A call to the validator comes to its answer at that
moment, an error the validator reports, or a timeout (`Outcomes`); what lies below
is `MessageRouter`'s business (`OwnReply`, `EveryCallReturns`).

| Code | Definitions |
|---|---|
| `Router._handle_response` | `handle_response`: the tests in their order, with the `AttributeError` a missing status raises |
| `_head_to_root`, `fetch_state`, `list_state` | two calls: `head_to_root_responded`, `fetch_state_responded` |
| `get_blocks_info` | `get_blocks`, `default_range`, `blocks_range`, `get_block_info`: one turn of the loop per two calls |
| `get_public_key_info` | a read of one entry; `without_payload` for an entry that is no key's record |
| `send_raw_transaction` | the tests in their order, then one call |
| the other methods | one action to start, `call_responded` to end |

The value of `seen`, a history variable, is the blocks that were the newest
during a request: what `SnapshotRead`, `CurrentRead` and `GetBlocks` compare an
answer with.

### Event subscriptions

One asyncio loop runs everything: an action is what runs between two awaits.
Tasks and subscriptions are named by the request that started them.

| Code | Actions |
|---|---|
| `subscribe` | `subscribe_refused`, `subscribe` (lock taken, up to the first await), `subscribe_listed_blocks`, `subscribe_failed`, `subscribe_accepted` |
| `unsubscribe` | `unsubscribe` |
| `_consumer`, `_process_msg` | `process_msg` (a message is taken), `process_msg_looked_up` (after the lookup of a block), `process_msg_sent` (after a notification is written); each goes on with the events of the message up to the next await (`process_events`) |
| `_producer`, `produce_custom_msg` | `produce_custom_msg`, `_status`, `_failed`, `_empty` |
| `register` (exit) | `register_exit` |
| validator (external) | `ValidatorAccepts`, `ValidatorEvents`, `BatchProgress` |

A message of the validator is the list of a block's events, the block's own
first, and one consumer works through it; a status the producer polled is a
message of one event. Abstractions: an event is a model value with the handler
it belongs to, the filters it matches and its hash; any request may have parameters that `validate`
refuses; the wait for the socket to drain is always a step of its own (in the
code it may take no time, a special case); after a subscription the validator
may send any past blocks again. Tasks of a closed
connection do nothing visible and end with it in the model. A block-commit event is
offered to the handler of blocks and to that of swaps, which makes no response of
it, so an event has one handler here.

### Connection to the validator

A call is named by its correlation id, a fresh uuid, and so is its reply. A
future has a state (`pending`, `result`, `failed`, `cancelled`) apart from its
entry in the table. `wait_for`'s timer cancels the future in one step and the
call ends in a later one; a reply in between meets a future that is done, and is
dropped (`InvalidStateError` is logged). A send that gives up after three
retries leaves its future in the table, as the code does. `write` on a closed
connection goes nowhere, and such a call ends by its timeout.

## 3. Runs

Passing runs. Bounds are the constants of each cfg.

| Run | Checks | Instance and why it is enough |
|---|---|---|
| `swaps` | `TypeOK`, `SwapLifecycle`, `NothingBeforeGenesis`, `SwapTermsFixed`, `RefundedOnlyAfterTimeLock`, `EverySwapSettles`, `ClientTransactionsAuthorised` | one swap that pays to an account, to an address where nothing is stored, to itself, over the genesis status or over the block information; two signers; two keys and a lock none of them opens, block times on both sides of 24 and 48 h; an unset, zero or positive commission. Each property is about one swap or one transaction; a swap that overwrites another is in `families`. 101,000 states. |
| `families` | `TokensConserved`, `KeyLinkedToOwner`, `OnlyOwnKeysLinked`, `RefundNeverOverflows`, `KeyRecordForever`, `ImplementsEscrowLedger` | all three families with two swaps and one key over the same balances, two owners, both ways of storing, validity of 0 and of 366 days, one too many, before and after genesis, economy on and off; the supply is all of uint64 (`MaxU64`), so every overflow that can happen does, and pays for a key, a commission and a deposit, or for two swaps, in any order; a swap pays to an account, to itself, to the other swap or over the key record; swaps are symmetric. 1.6 million states. |
| `subscriptions` | `TypeOK`, `SubscriptionsUpheld`, `NotifiedAsSubscribed`, `NoneAfterClose`, `NeverReplaced`, `EveryUpdateNotified`, `BlockLostOnlyWithConsumer` | three requests on one connection out of blocks, swaps from a past block, a batch with two statuses, and their cancellation; a block and a swap event come in one message or in two; three requests are enough to subscribe, cancel and subscribe again, and for two consumers; requests are symmetric |
| `answers` | `EveryRequestAnswered`, `NotifiedAtMostOnce`, `BatchStatusDelivered` | three requests on two connections, which share the lock; the connection that asks for the batch makes no other subscription; a poll succeeds, fails, or comes back without a status |
| `reads` | `TypeOK`, `SnapshotRead`, `CurrentRead`, `GetBlocks`, `LegalAddresses`, `EveryRpcAnswered` | one request of any kind, on a chain of up to `MaxHeight` = 4 blocks with any branch; the `Window` of 1 lets block information expire, and `start` and `limit` lie before, in and beyond the chain. Requests share nothing but the chain, which moves as others might move it, so one is enough. |
| `routing` | `TypeOK`, `OwnReply`, `NoStaleFuture`, `CloseFailsAll`, `OnlyLateRepliesQueued`, `SettledOnce`, `EveryCallReturns` | two calls and an event, all orders |

`MaxQueue` bounds the messages that may wait when the producer adds a status; the
queue of the code has no bound. Requests and calls happen once each, so their
number bounds everything else. Deadlock is not checked for the server and the
connection, which may rest when all requests are done or the client is gone.

Runs that find what the code does otherwise than it says (`findings`):

| Run | Shows |
|---|---|
| `self_paid` | storing a key with STORE_AND_PAY for oneself is free, and the price is created at the zero address |
| `same_balances` | a transfer that leaves both accounts with balances notified before is not notified |
| `two_consumers` | a client with two subscriptions may get one update twice |
| `other_batch` | a status of the batch of a cancelled subscription arrives under the next, for another batch |
| `producer_dies` | a subscription made while a status is being polled ends the polling for good |
| `refused_batch` | a batch that the validator refuses is answered with its id: `_handle_response` tests `NO_RESOURCE` first, which the response to a submission does not declare |

`TokensConserved` counts the `self_paid` tokens (`unpaid`), so that it shows that,
until a swap is closed onto a stored record, nothing else creates or destroys
any. `NotifiedAtMostOnce` and
`BatchStatusDelivered` pass for a connection with a single subscription and fail
with two, and `EveryUpdateNotified` passes if hashes tell events apart.
`RefundedOnlyAfterTimeLock` passes with the constant offset of `swaps`; with an
offset that grows by an hour between two blocks (local time is read without a
time zone) the lock is shorter by that hour, and nodes in different zones may
decide differently.

What else the models show, and no run is devoted to:

* the close of a swap destroys the record at its receiver's address if that is no
  account (section 2): the deposit of another open swap, a final swap, a key record;
* an error the validator reports for a poll of a status is no exception
  (`_handle_response` stops at `NOT_READY`, which the response does not declare) but an
  empty list, and the `IndexError` of its first entry ends the producer
  (`produce_custom_msg_empty`): the exception that `BatchStatusDelivered` names;
* a lookup of a block that fails ends its consumer and drops the events after
  the block in the same message: `EveryUpdateNotified` names this exception and
  `BlockLostOnlyWithConsumer` says that nothing else loses a block;
* `get_blocks_info` takes any failure to read the configuration for an empty chain,
  which is why `GetBlocks` speaks of requests without a failed call;
* `docs/apis/rpc.rst` calls the `limit` of get_blocks the number of the last
  block, and the code uses it as a count; get_block_number is said to be the
  number of blocks present and leaves out the newest, whose information comes
  with the next; `is_synced` of get_node_info is always true.

## 4. Refinement

`EscrowLedger` says what a user relies on: tokens are issued once, move only
from a user's own balance or out of an escrow, and an escrow pays out exactly
what was put in, once. `TransactionProcessor` implements it with `balance` the
balances of the accounts and `escrow[id]` unused, held with the swap's amount, or
spent (`ImplementsEscrowLedger`, checked in `families` and proved). The key
price that the self-paid store creates is an explicit step of the ledger
(`Windfall`). The ledger's third variable, `intact`, is `overwritten = {}`: with the
first payment over a record it becomes false, and from that step on nothing is
promised. Every step before is an `Issue`, `Pay`, `Deposit`, `Release` or `Windfall`.

## 5. Fairness

* `swaps`: weak fairness of new blocks and of the sender's expire transaction.
  Blocks are the validator's business; a sender who wants the deposit asks
  again. Nothing is assumed of other users.
* `answers`, `producer_dies`: weak fairness of the steps of requests,
  consumers and producers: the loop runs whatever is ready and every call has a
  timeout. Strong fairness of a successful poll of the status: the producer
  polls again after a failure, and the validator is not down for ever (a producer
  that an empty list has ended polls no more, and is exempt). Nothing
  is assumed of clients, events or the answer to a subscription.
* `reads`: weak fairness of the next step of a request: every call to the
  validator ends, at the latest by its timeout (`EveryCallReturns`). Nothing is
  assumed of the chain.
* `routing`: weak fairness of a call's own steps, timers included. Nothing is
  assumed of the validator, the receiver or close.

## 6. Proofs

For all sets of signers, addresses, keys, swaps, timestamps, offsets, amounts,
commissions, calls, connections, requests, events, chains and windows, under the
named assumptions of the modules (`AccountAssumption`, `SwapAssumption`,
`PubKeyAssumption`, `MessageAssumption`, `EventAssumption`, `RouterAssumption`,
`ParamsAssumption`): amounts are uint64 values, kinds of values do not overlap, and
there are finitely many addresses and swap ids (both are addresses of 70
hexadecimal digits). `Receivers`, `AsSwap` and `AsPubKey` are arbitrary: the
theorems cover receivers of every kind and every way a record that was
overwritten may read.

* `TransactionProcessorProofs!TypeCorrect`: `Spec => []TypeOK`. `TypeOK` is inductive.
  It says that no balance leaves uint64: the guard of each method has to imply
  the range of what the method writes (`TransferTypeOK`, `CreditTypeOK`,
  `ChargeTypeOK`), and for a new swap that commission and amount together are
  within the balance. A record that was overwritten still has its type, by what
  `SwapAssumption` says of `AsSwap` and `AsPubKey` (`CloseTypeOK`).
* `InvariantProofs!LifecycleCorrect`: `Spec => []SwapLifecycle`. Inductive together
  with `TypeOK`, which tells that a swap is a record or `None`. One step per swap
  method; transactions of other families do not touch swaps (`SwapWriters`), and
  a close changes its own swap and at most the record it pays to, which it adds to
  `overwritten` (`CloseEffect`). Since `overwritten` only grows (`OverwrittenGrows`), a swap
  that is not in it after a step was not before.
* `InvariantProofs!TermsFixedCorrect`: `Spec => SwapTermsFixed`. The action property
  needs `TypeOK` and `SwapLifecycle`: that setting a lock meets a swap without one,
  and that an open swap is not final, is known only from how state, lock and key
  fit.
* `InvariantProofs!RefundsTimely`: `RefundedOnlyAfterTimeLock`, on the hypothesis that
  the offset of local time is the same at all timestamps. Only `_swap_expire` makes
  a swap expired, and its two local times then differ as the timestamps do.
* `InvariantProofs!OnlyOwnKeysCorrect`, `KeyLinkedCorrect`, `RecordsForever`: every step
  keeps the links of all accounts, or adds the key it registers to the owner's, or
  is the genesis that starts an account afresh (`LinkSteps`). `KeyLinkedToOwner` is
  inductive only with `NothingBeforeGenesis`, by which genesis finds that no
  account was replaced before. `NothingBeforeGenesisCorrect` is inductive with `TypeOK`:
  without tokens no transfer, deposit or charge has what it takes.
* `RefinementProofs!RefinementCorrect`: `Spec => ImplementsEscrowLedger`, with the mapping
  of section 4. One lemma per family says which ledger step each method is:
  `_genesis` an issue (by `NothingBeforeGenesis`), a transfer or a charge a payment
  (`TransferPays`), `_swap_init` a deposit with the commission as fee (its balance
  test bounds both), expire and close a release (`SettlingReleases`), a self-paid
  store the windfall. A close over a record makes the ledger no longer intact, and no
  step makes it intact again. All else leaves balances and escrows alone.
* `RefinementProofs!ConservationCorrect`: `Spec => []TokensConserved`, from the
  refinement: a step that moves tokens changes the sum over the accounts and the sum
  over the escrows by amounts that cancel (`MovedConserves`), an issue starts from
  nothing, and a self-paid store adds ten tokens and one key to `unpaid`. The
  invariant (`ConservationInv`, conditional on `overwritten = {}` as the property is) adds that an unpaid key has a record, without which a
  key could be counted twice, and that the sink holds at least the tokens created.
* `RefinementProofs!RefundsFit`: `Spec => []RefundNeverOverflows`. The balance of the
  sender, the sink's and the deposit are parts of one total, which is the issue, a
  uint64, plus the tokens created, and these are in the sink (`RefundFits`).
* `SumProofs`: the library's induction theorems take an operator as a parameter, and
  the provers cannot instantiate it. A set in its place does as well: the naturals
  that satisfy a property are a subset of Nat, and a least one outside it
  (`LeastNatural`) refutes itself (`Induction`). From this `SubsetInduction` gives what
  holds of every subset of a finite set, and the sum of a function is what its
  definition in the community modules says (`SumExists`, `SumDef`) and changes as one
  or two of its values do (`SumChange`, `SumChangeTwo`).
* `ClientsProofs!ClientsCorrect`: `Spec => ClientTransactionsAuthorised`, from `TypeOK`.
  One lemma for the account methods, one for the swap methods that move tokens, one
  for the others. A close declares the receiver, whatever is stored there.
* `MessageRouterProofs`: `OwnReplyCorrect`, `NoStaleFutureCorrect`,
  `CloseFailsAllCorrect`, `OnlyLateRepliesQueuedCorrect`, `SettledOnceCorrect` and
  `TypeCorrect`, from one inductive invariant `Inv`. None of the properties is inductive alone. `Inv`
  adds `CallState` (how the place of a call, its future and its result fit),
  `Seen` (a message on its way, read or replied to was written by a call that
  got past its send) and `RepliesSent` (what is on the wire as a reply was sent
  by the validator). One lemma per group of actions: calls, receiver,
  connection, validator. `SettledOnce` is an action property that follows from
  `CallState`.
* `SubscriptionProofs`: `SubscriptionsUpheldCorrect`, `NoneAfterCloseCorrect`,
  `NeverReplacedCorrect`, from an inductive `Inv`. It adds what the lock protects
  (`UnderLock`: a request between two awaits holds it, its event is still not
  subscribed to, and the types it asks for include all that are), what is on its way
  (`OnWire`: every subscribe message, also of a request that gave up, names all that
  is subscribed to, and the one waited for is the last) and what a reply means
  (`Replied`). Without `OnWire` a message read late could take away a subscription
  made since.
* `SubscriptionProofs!NotifiedAsSubscribedCorrect`. `NotifyInv` adds that a
  subscription is named by a request that was told it is made (`Made`) and that
  the id a consumer keeps over an await is of such a request (`AtHand`); answers are
  final, so it still is when the notification is written, subscribed or not.
* `SubscriptionProofs!TypeCorrect`, `EveryUpdateNotifiedCorrect`,
  `BlockLostOnlyWithConsumerCorrect` and `NotifiedAtMostOnceCorrect` follow an event
  from its block through queue, consumer and hashes, with `DeliveryInv`: a consumer has
  an open connection and an entry in `_evthashes`, and what it has at hand while the
  socket drains is sent (`Consuming`); only what was sent is taken for sent
  (`HashesOfSent`); what was sent is remembered or is at hand of a consumer that waits
  for the socket (`Remembered`); a status polled is that of a batch (`Polling`). That
  messages are sequences needs blocks and what may be repeated to be finite
  (`FiniteBlocks`). `LoopOutcome` says what the loop of `_process_msg` skips, stops at
  and leaves; only consumers pass events over (`OthersPassNothing`), and only from the
  message they took (`TakenFrom`). The hypotheses are the causes of the violations of
  section 3: that hashes tell events apart (`HashesDiffer`, false in `same_balances`)
  for the first two action properties, and that no connection has two consumers
  (`OneConsumer`, false in `two_consumers`) for the third, where it makes the
  consumer that is about to send the only one that may have something to note.
* `RpcApiProofs`: `SnapshotReadCorrect`, `CurrentReadCorrect`, `GetBlocksCorrect`,
  `LegalAddressesCorrect` and `TypeCorrect`, from an inductive `Inv` about one request
  at a time (`RequestOK`): the call a request waits for is the one its method makes
  there; the block it goes by was asked for or was the newest since the request came;
  and an answer that was sent is `Right`. Other requests do not touch it
  (`MoveKeeps`), and a new block only adds to what it has seen (`NewTop`). The loop
  of `get_blocks_info` has its own invariant, `LoopInv`: what is gathered ascends, is
  of chains that were the newest, and holds every block owed so far. The blocks
  owed (`Due`) are those on record in all chains seen, which is why they can only get
  fewer as the chain moves on (`DueShrinks`), why the configuration of one such chain
  is a sufficient bound (`LoopStartDefault`), and why a block that is not found
  may be skipped (`LoopSkipped`). `HeadOutcome` and `StateOutcome` say what the calls
  come to: for the newest block, KeyNotFound never stands for a failed call.

## 7. Only model-checked

Liveness (`EverySwapSettles`, `EveryRequestAnswered`, `BatchStatusDelivered`,
`EveryRpcAnswered`, `EveryCallReturns`) needs fairness and `ENABLED`, which the
prover does not do. Every other property of a passing run is stated by a
theorem, some under the hypotheses that section 6 names.

## 8. Not modelled

* Of the router: expansion of headers and payloads, renaming of fields, sorting
  and the `ids` filter of the list methods, which select among what a response
  holds. Plain HTTP requests take the same path without subscriptions.
* Of the clients: key files, signing, the X.509 certificates of `pub_key.py`. Of
  the RPC methods: `personal.py`, which reads and writes the node's key file, and
  get_node_config, which reads a file; neither meets other state. `send_tokens` of
  `rpc_api/transaction.py` is not in `__all__`, so no request reaches it.
* Cryptography: a signature is the key that made it, addresses and lock hashes are
  functions. Text patterns of the forms, beyond being refused.
* E-mail and non-local addresses in swaps (carried along unread), the local-time
  shift in key validity (validity counts whole days).
* Two leaks the model shows but no property is about: an entry of `_evthashes`
  made for a connection already closed, and the future of a send that gave up.
* The file the genesis script writes, metrics, logging, deployment: I/O.

## 9. Plan

Done: the three families, their composition and the clients in front of them, the
abstract ledger, the event subscriptions, the RPC methods over the router, the
connection, and the theorems of section 6. Next:

1. compose the families' events with the subscriptions (which transfer causes
   which event, and what the client learns), and `MessageRouter` with
   `EventSubscription` under an abstract specification of a call;
2. a cross-chain swap, with the other chain as environment and the 24 and 48
   hours against each other.
