--------------------------- MODULE MessageRouter ----------------------------
(***************************************************************************)
(* The connection to the validator (remme/shared/messaging.py): calls that  *)
(* wait for the reply with their correlation id, the receiver that routes   *)
(* what it reads to the future of a call or to the incoming queue, the      *)
(* backoff of a send that fails, timeouts, and close.                       *)
(*                                                                         *)
(* An action is what runs between two awaits of the event loop.  A call is  *)
(* named by its correlation id, a fresh uuid; so is its reply.              *)
(***************************************************************************)
EXTENDS Integers, Sequences, FiniteSets

CONSTANTS
    Calls,      \* calls of Connection.send
    Events,     \* messages of the validator that answer no call
    None

ASSUME MessageAssumption ==
    /\ Calls \cap Events = {}
    /\ None \notin Calls \cup Events \cup {"pending", "result", "failed", "cancelled"}
    /\ \A e \in {"DisconnectError", "TimeoutError", "SendBackoffTimeoutError"} :
          e \notin Calls /\ e # None

VARIABLES
    pc,        \* where each call stands
    retries,   \* _Backoff.num_retries of each call
    futures,  \* state of the future of each call, None without an entry
    result,    \* the message a future holds
    returned,  \* what each call returned or raised
    queue,     \* _queue, the messages not routed to a call
    receiver,  \* the task _Receiver.start is running
    opened,    \* Connection.close was not called
    requested, \* messages on their way to the validator
    incoming,  \* messages on their way from it
    answered,  \* history: requests the validator has replied to
    emitted    \* history: events the validator has sent

callVars == <<pc, retries, futures, result, returned>>
validatorVars == <<requested, incoming, answered, emitted>>
vars == <<callVars, queue, receiver, opened, validatorVars>>

max_retries == 3

-----------------------------------------------------------------------------
(* Seeded fault: no future is made before the message is written.          *)
expect_nothing(c) ==
    /\ pc[c] = "new"
    /\ pc' = [pc EXCEPT ![c] = "write"]
    /\ UNCHANGED <<retries, futures, result, returned, queue, receiver, opened, validatorVars>>

(* _Sender.send up to its first attempt: the future is there before the    *)
(* message is written.                                                     *)
expect_reply(c) ==
    /\ pc[c] = "new"
    /\ pc' = [pc EXCEPT ![c] = "write"]
    /\ futures' = [futures EXCEPT ![c] = "pending"]
    /\ UNCHANGED <<retries, result, returned, queue, receiver, opened, validatorVars>>

(* The message is written; on a closed connection it goes nowhere.         *)
write(c) ==
    /\ pc[c] = "write"
    /\ pc' = [pc EXCEPT ![c] = "await"]
    /\ requested' = IF opened THEN requested \cup {c} ELSE requested
    /\ UNCHANGED <<retries, futures, result, returned, queue, receiver, opened, incoming,
                   answered, emitted>>

(* Seeded fault: the backoff never gives up.                               *)
do_backoff_forever(c) ==
    /\ pc[c] = "write"
    /\ retries' = [retries EXCEPT ![c] = IF @ = max_retries THEN 0 ELSE @ + 1]
    /\ UNCHANGED <<pc, futures, result, returned, queue, receiver, opened, validatorVars>>

(* Seeded fault: one attempt too many.                                     *)
do_backoff_once_more(c) ==
    /\ pc[c] = "write"
    /\ IF retries[c] > max_retries
       THEN /\ pc' = [pc EXCEPT ![c] = "done"]
            /\ returned' = [returned EXCEPT ![c] = "SendBackoffTimeoutError"]
            /\ UNCHANGED retries
       ELSE /\ retries' = [retries EXCEPT ![c] = @ + 1]
            /\ UNCHANGED <<pc, returned>>
    /\ UNCHANGED <<futures, result, queue, receiver, opened, validatorVars>>

(* zmq.error.Again: another attempt after a sleep, or SendBackoffTimeoutError *)
(* when none is left, which leaves the future behind.                      *)
do_backoff(c) ==
    /\ pc[c] = "write"
    /\ IF retries[c] = max_retries
       THEN /\ pc' = [pc EXCEPT ![c] = "done"]
            /\ returned' = [returned EXCEPT ![c] = "SendBackoffTimeoutError"]
            /\ UNCHANGED retries
       ELSE /\ retries' = [retries EXCEPT ![c] = @ + 1]
            /\ UNCHANGED <<pc, returned>>
    /\ UNCHANGED <<futures, result, queue, receiver, opened, validatorVars>>

(* Seeded fault: the future stays in the table.                            *)
keep_future(c, outcome) ==
    /\ pc' = [pc EXCEPT ![c] = "done"]
    /\ returned' = [returned EXCEPT ![c] = outcome]
    /\ UNCHANGED futures

(* The end of await_reply.                                                 *)
end_call(c, outcome) ==
    /\ pc' = [pc EXCEPT ![c] = "done"]
    /\ returned' = [returned EXCEPT ![c] = outcome]
    /\ futures' = [futures EXCEPT ![c] = None]

await_reply(c) ==
    /\ pc[c] = "await"
    /\ \/ futures[c] = "result" /\ end_call(c, result[c])
       \/ futures[c] = "failed" /\ end_call(c, "DisconnectError")
       \/ futures[c] = "cancelled" /\ end_call(c, "TimeoutError")
    /\ UNCHANGED <<retries, result, queue, receiver, opened, validatorVars>>

(* wait_for's timer: the future is cancelled unless it is done; the call   *)
(* goes on in a later step of the loop.                                    *)
timeout(c) ==
    /\ pc[c] = "await"
    /\ futures[c] = "pending"
    /\ futures' = [futures EXCEPT ![c] = "cancelled"]
    /\ UNCHANGED <<pc, retries, result, returned, queue, receiver, opened, validatorVars>>

-----------------------------------------------------------------------------
(* Seeded fault: the result of a future that is done is replaced.          *)
set_reply_again(c, m) ==
    /\ futures' = [futures EXCEPT ![c] = "result"]
    /\ result' = [result EXCEPT ![c] = m]

(* _set_reply: a second result is refused with InvalidStateError, logged.  *)
set_reply(c, m) ==
    IF futures[c] = "pending"
    THEN /\ futures' = [futures EXCEPT ![c] = "result"]
         /\ result' = [result EXCEPT ![c] = m]
    ELSE UNCHANGED <<futures, result>>

(* Seeded fault: a reply goes to any call that waits.                      *)
route_to_any(m) ==
    IF m \in Calls /\ \E c \in Calls : futures[c] = "pending"
    THEN (\E c \in Calls : futures[c] = "pending" /\ set_reply(c, m)) /\ UNCHANGED queue
    ELSE queue' = Append(queue, m) /\ UNCHANGED <<futures, result>>

route_msg(m) ==
    IF m \in Calls /\ futures[m] # None
    THEN set_reply(m, m) /\ UNCHANGED queue
    ELSE queue' = Append(queue, m) /\ UNCHANGED <<futures, result>>

(* _Receiver.start: one message read and routed.                           *)
start(m) ==
    /\ receiver
    /\ incoming # <<>>
    /\ m = Head(incoming)
    /\ incoming' = Tail(incoming)
    /\ route_msg(m)
    /\ UNCHANGED <<pc, retries, returned, receiver, opened, requested, answered, emitted>>

(* A ZMQError ends the receiver; nobody starts it again.                   *)
start_fails ==
    /\ receiver
    /\ receiver' = FALSE
    /\ UNCHANGED <<callVars, queue, opened, validatorVars>>

(* Connection.receive, by a consumer of events.                            *)
receive ==
    /\ queue # <<>>
    /\ queue' = Tail(queue)
    /\ UNCHANGED <<callVars, receiver, opened, validatorVars>>

(* Seeded fault: close does not fail the calls under way.                  *)
close_silently ==
    /\ opened
    /\ opened' = FALSE
    /\ receiver' = FALSE
    /\ UNCHANGED <<callVars, queue, validatorVars>>

(* Connection.close, with fail_all.                                        *)
close ==
    /\ opened
    /\ opened' = FALSE
    /\ receiver' = FALSE
    /\ futures' = [c \in Calls |-> IF futures[c] = "pending" THEN "failed" ELSE futures[c]]
    /\ UNCHANGED <<pc, retries, result, returned, queue, validatorVars>>

-----------------------------------------------------------------------------
(* The validator replies to requests in any order, or not at all, and      *)
(* sends events.                                                           *)
ValidatorReplies(c) ==
    /\ c \in requested
    /\ requested' = requested \ {c}
    /\ incoming' = Append(incoming, c)
    /\ answered' = answered \cup {c}
    /\ UNCHANGED <<callVars, queue, receiver, opened, emitted>>

ValidatorEmits(e) ==
    /\ e \notin emitted
    /\ emitted' = emitted \cup {e}
    /\ incoming' = Append(incoming, e)
    /\ UNCHANGED <<callVars, queue, receiver, opened, requested, answered>>

Init ==
    /\ pc = [c \in Calls |-> "new"]
    /\ retries = [c \in Calls |-> 0]
    /\ futures = [c \in Calls |-> None]
    /\ result = [c \in Calls |-> None]
    /\ returned = [c \in Calls |-> None]
    /\ queue = <<>>
    /\ receiver = TRUE
    /\ opened = TRUE
    /\ requested = {}
    /\ incoming = <<>>
    /\ answered = {}
    /\ emitted = {}

\* What moves a call on, whatever the validator does.
Go(c) == write(c) \/ do_backoff(c) \/ await_reply(c) \/ timeout(c)

Next ==
    \/ \E c \in Calls : expect_reply(c) \/ Go(c) \/ ValidatorReplies(c)
    \/ \E m \in Calls \cup Events : start(m)
    \/ \E e \in Events : ValidatorEmits(e)
    \/ start_fails \/ receive \/ close

Spec == Init /\ [][Next]_vars

(* The loop runs what can go on and timers fire; nothing is assumed of the *)
(* validator, of the network or of the receiver.                           *)
FairSpec == Spec /\ \A c \in Calls : WF_vars(Go(c))

-----------------------------------------------------------------------------
(* Every variable has the type of the structure it models.                 *)
TypeOK ==
    /\ pc \in [Calls -> {"new", "write", "await", "done"}]
    /\ retries \in [Calls -> 0..max_retries]
    /\ futures \in [Calls -> {None, "pending", "result", "failed", "cancelled"}]
    /\ result \in [Calls -> Calls \cup {None}]
    /\ returned \in [Calls -> Calls \cup {None, "DisconnectError", "TimeoutError",
                                          "SendBackoffTimeoutError"}]
    /\ queue \in Seq(Calls \cup Events)
    /\ receiver \in BOOLEAN /\ opened \in BOOLEAN
    /\ requested \subseteq Calls /\ answered \subseteq Calls
    /\ incoming \in Seq(Calls \cup Events)
    /\ emitted \subseteq Events

(* A call that returns a message returns the reply to it, which the        *)
(* validator did send.                                                     *)
OwnReply ==
    \A c \in Calls : returned[c] \in Calls => returned[c] = c /\ c \in answered

(* The table of futures holds the calls under way, and apart from them     *)
(* only calls whose message was never written: a reply to a call that is   *)
(* over never meets a future.                                              *)
NoStaleFuture ==
    \A c \in Calls : futures[c] # None =>
        \/ pc[c] \in {"write", "await"}
        \/ returned[c] = "SendBackoffTimeoutError" /\ c \notin requested \cup answered

(* Nobody waits in vain for a reply to a message that was sent: once the   *)
(* connection is closed, a call that still waits wrote its message after   *)
(* the close, and the validator never gets it.                             *)
CloseFailsAll ==
    \A c \in Calls : ~opened /\ futures[c] = "pending" => c \notin requested \cup answered

(* A reply is found among the events only if the call it answers is over.  *)
OnlyLateRepliesQueued ==
    \A i \in DOMAIN queue : queue[i] \in Calls => pc[queue[i]] = "done"

(* How a future was settled first is how the call ends: a reply, a timeout *)
(* and a close that race do not undo each other.                           *)
SettledOnce ==
    [][\A c \in Calls : futures[c] \in {"result", "failed", "cancelled"} =>
          /\ futures'[c] \in {futures[c], None}
          /\ futures'[c] = None =>
                returned'[c] = (CASE futures[c] = "result" -> result[c]
                                  [] futures[c] = "failed" -> "DisconnectError"
                                  [] futures[c] = "cancelled" -> "TimeoutError")]_vars

(* Every call returns or raises, whether or not the validator replies, the *)
(* receiver still runs or the connection is closed.                        *)
EveryCallReturns == \A c \in Calls : pc[c] = "write" ~> pc[c] = "done"
=============================================================================
