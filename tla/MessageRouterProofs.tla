------------------------ MODULE MessageRouterProofs -------------------------
(***************************************************************************)
(* Safety of the connection to the validator, for any number of calls and  *)
(* events.  The invariant relates where a call stands to its future and to *)
(* what the validator has seen of it.                                      *)
(***************************************************************************)
EXTENDS MessageRouter, TLAPS

(* Where a call stands, its future and what it returned fit together.      *)
CallState(c) ==
    /\ pc[c] = "new" => futures[c] = None /\ returned[c] = None
    /\ pc[c] \in {"write", "await"} => futures[c] # None /\ returned[c] = None
    /\ pc[c] = "done" => futures[c] = None \/ returned[c] = "SendBackoffTimeoutError"
    /\ futures[c] = "result" => result[c] = c /\ c \in answered

(* The validator has seen a call only if its message was written.          *)
Seen(c) ==
    /\ c \in requested \cup answered => pc[c] \in {"await", "done"}
    /\ returned[c] = "SendBackoffTimeoutError" => c \notin requested \cup answered

(* A reply on its way was sent by the validator.                           *)
RepliesSent == \A i \in DOMAIN incoming : incoming[i] \in Calls => incoming[i] \in answered

(* The inductive invariant: the properties of the run and the three facts  *)
(* about calls that carry them.                                            *)
Inv ==
    /\ TypeOK
    /\ \A c \in Calls : CallState(c) /\ Seen(c)
    /\ RepliesSent
    /\ OwnReply
    /\ CloseFailsAll
    /\ OnlyLateRepliesQueued

(* No call has begun, nothing is queued: the invariant holds at first.     *)
LEMMA InitInv == Init => Inv
BY MessageAssumption
   DEF Init, Inv, TypeOK, CallState, Seen, RepliesSent, OwnReply, CloseFailsAll, OnlyLateRepliesQueued, max_retries

(* A step of a call itself keeps the invariant.                            *)
LEMMA CallStep ==
    ASSUME Inv, NEW c \in Calls, expect_reply(c) \/ Go(c)
    PROVE  Inv'
<1> USE MessageAssumption DEF Inv
<1>1. CASE expect_reply(c)
  BY <1>1 DEF expect_reply, validatorVars, TypeOK, CallState, Seen, RepliesSent, OwnReply, CloseFailsAll, OnlyLateRepliesQueued
<1>2. CASE write(c)
  <2>1. TypeOK'
    BY <1>2 DEF write, TypeOK
  <2>2. \A d \in Calls : CallState(d)' /\ Seen(d)'
    BY <1>2 DEF write, TypeOK, CallState, Seen
  <2>3. RepliesSent' /\ CloseFailsAll'
    BY <1>2 DEF write, TypeOK, RepliesSent, CloseFailsAll
  <2>4. OwnReply' /\ OnlyLateRepliesQueued'
    BY <1>2 DEF write, TypeOK, OwnReply, OnlyLateRepliesQueued
  <2> QED
    BY <2>1, <2>2, <2>3, <2>4
<1>3. CASE do_backoff(c)
  <2>1. TypeOK'
    BY <1>3 DEF do_backoff, max_retries, validatorVars, TypeOK
  <2>2. \A d \in Calls : CallState(d)' /\ Seen(d)'
    BY <1>3 DEF do_backoff, validatorVars, TypeOK, CallState, Seen
  <2>3. RepliesSent' /\ CloseFailsAll'
    BY <1>3 DEF do_backoff, validatorVars, RepliesSent, CloseFailsAll
  <2>4. OwnReply'
    <3>1. \A d \in Calls : returned'[d] = returned[d] \/ returned'[d] = "SendBackoffTimeoutError"
      BY <1>3 DEF do_backoff, TypeOK
    <3> QED
      BY <1>3, <3>1 DEF do_backoff, validatorVars, OwnReply
  <2>5. /\ UNCHANGED queue
        /\ \A d \in Calls : pc[d] = "done" => pc'[d] = "done"
    BY <1>3 DEF do_backoff, TypeOK
  <2>6. OnlyLateRepliesQueued'
    BY <2>5 DEF OnlyLateRepliesQueued
  <2> QED
    BY <2>1, <2>2, <2>3, <2>4, <2>6
<1>4. CASE await_reply(c)
  <2>1. /\ \E outcome \in {result[c], "DisconnectError", "TimeoutError"} : end_call(c, outcome)
        /\ returned'[c] \in Calls => returned'[c] = c /\ c \in answered
        /\ UNCHANGED <<retries, result, queue, receiver, opened, validatorVars>>
    BY <1>4 DEF await_reply, end_call, TypeOK, CallState
  <2>2. PICK outcome \in Calls \cup {"DisconnectError", "TimeoutError"} : end_call(c, outcome)
    BY <1>4 DEF await_reply, TypeOK, CallState
  <2>3. TypeOK'
    BY <2>1, <2>2 DEF end_call, validatorVars, TypeOK
  <2>4. \A d \in Calls : CallState(d)' /\ Seen(d)'
    BY <1>4, <2>1, <2>2 DEF await_reply, end_call, validatorVars, TypeOK, CallState, Seen
  <2>5. RepliesSent' /\ CloseFailsAll' /\ OnlyLateRepliesQueued'
    BY <2>1, <2>2 DEF end_call, validatorVars, TypeOK, RepliesSent, CloseFailsAll, OnlyLateRepliesQueued
  <2>6. OwnReply'
    BY <2>1, <2>2 DEF end_call, validatorVars, TypeOK, OwnReply
  <2> QED
    BY <2>3, <2>4, <2>5, <2>6
<1>5. CASE timeout(c)
  BY <1>5 DEF timeout, validatorVars, TypeOK, CallState, Seen, RepliesSent, OwnReply, CloseFailsAll, OnlyLateRepliesQueued
<1> QED
  BY <1>1, <1>2, <1>3, <1>4, <1>5 DEF Go

(* Routing a message keeps the invariant: a reply meets the future of its  *)
(* own call, or its call is over.                                          *)
LEMMA ReceiverStep ==
    ASSUME Inv, NEW m \in Calls \cup Events, start(m)
    PROVE  Inv'
<1> USE MessageAssumption DEF Inv
<1>1. /\ incoming \in Seq(Calls \cup Events) /\ incoming # <<>>
      /\ incoming' = Tail(incoming) /\ m = incoming[1] /\ 1 \in DOMAIN incoming
  BY DEF start, TypeOK
<1>2. /\ incoming' \in Seq(Calls \cup Events)
      /\ \A i \in DOMAIN incoming' : i + 1 \in DOMAIN incoming /\ incoming'[i] = incoming[i + 1]
  BY <1>1
<1>3. RepliesSent'
  BY <1>2 DEF RepliesSent, start
<1>4. m \in Calls => m \in answered
  BY <1>1 DEF RepliesSent
<1>5. CASE m \in Calls /\ futures[m] # None
  <2>1. set_reply(m, m) /\ UNCHANGED queue
    BY <1>5 DEF start, route_msg
  <2>a. UNCHANGED <<pc, retries, returned, requested, answered, emitted, receiver, opened>>
    BY DEF start
  <2>b. /\ futures' \in [Calls -> {None, "pending", "result", "failed", "cancelled"}]
        /\ result' \in [Calls -> Calls \cup {None}]
    <3>1. CASE futures[m] = "pending"
      <4>1. /\ futures' = [futures EXCEPT ![m] = "result"]
            /\ result' = [result EXCEPT ![m] = m]
        BY <2>1, <3>1 DEF set_reply
      <4> QED
        BY <1>5, <4>1 DEF TypeOK
    <3>2. CASE futures[m] # "pending"
      BY <2>1, <3>2 DEF set_reply, TypeOK
    <3> QED
      BY <3>1, <3>2
  <2>2. TypeOK'
    BY <1>2, <2>1, <2>a, <2>b DEF TypeOK
  <2>c. \A d \in Calls : (futures[d] = None) = (futures'[d] = None)
    BY <1>5, <2>1 DEF set_reply, TypeOK
  <2>d. \A d \in Calls : futures'[d] = "result" =>
            \/ d = m /\ result'[d] = m
            \/ futures[d] = "result" /\ result'[d] = result[d]
    BY <1>5, <2>1 DEF set_reply, TypeOK
  <2>e. ASSUME NEW d \in Calls PROVE CallState(d)'
    <3>1. CallState(d)
      OBVIOUS
    <3>2. (futures[d] = "result" => result[d] = d /\ d \in answered)'
      BY <1>4, <2>a, <2>d, <3>1 DEF CallState
    <3>3. pc'[d] = pc[d] /\ returned'[d] = returned[d]
      BY <2>a
    <3>4. (futures[d] = None) = (futures'[d] = None)
      BY <2>c
    <3>5. (pc[d] = "new" => futures[d] = None /\ returned[d] = None)'
      BY <3>1, <3>3, <3>4 DEF CallState
    <3>6. (pc[d] \in {"write", "await"} => futures[d] # None /\ returned[d] = None)'
      BY <3>1, <3>3, <3>4 DEF CallState
    <3>7. (pc[d] = "done" => futures[d] = None \/ returned[d] = "SendBackoffTimeoutError")'
      BY <3>1, <3>3, <3>4 DEF CallState
    <3> QED
      BY <3>2, <3>5, <3>6, <3>7 DEF CallState
  <2>f. \A d \in Calls : Seen(d)'
    BY <2>a DEF Seen
  <2>3. \A d \in Calls : CallState(d)' /\ Seen(d)'
    BY <2>e, <2>f
  <2>4. OwnReply' /\ OnlyLateRepliesQueued'
    BY <2>1 DEF start, OwnReply, OnlyLateRepliesQueued
  <2>5. \A d \in Calls : futures'[d] = "pending" => futures[d] = "pending"
    BY <1>5, <2>1 DEF set_reply, TypeOK
  <2>6. CloseFailsAll'
    BY <2>5 DEF start, CloseFailsAll
  <2> QED
    BY <1>3, <2>2, <2>3, <2>4, <2>6
<1>6. CASE ~(m \in Calls /\ futures[m] # None)
  <2>1. queue' = Append(queue, m) /\ UNCHANGED <<futures, result>>
    BY <1>6 DEF start, route_msg
  <2>2. m \in Calls => pc[m] = "done"
    BY <1>4, <1>6 DEF CallState, Seen, TypeOK
  <2>3. OnlyLateRepliesQueued'
    BY <2>1, <2>2 DEF start, OnlyLateRepliesQueued, TypeOK
  <2> QED
    BY <1>2, <1>3, <2>1, <2>3
       DEF start, TypeOK, CallState, Seen, OwnReply, CloseFailsAll
<1> QED
  BY <1>5, <1>6

(* close, receive and the end of the receiver keep the invariant.          *)
LEMMA ConnectionStep ==
    ASSUME Inv, close \/ receive \/ start_fails
    PROVE  Inv'
<1> USE MessageAssumption DEF Inv
<1>1. CASE close
  BY <1>1 DEF close, validatorVars, TypeOK, CallState, Seen, RepliesSent, OwnReply, CloseFailsAll, OnlyLateRepliesQueued
<1>2. CASE receive
  <2>1. /\ queue' \in Seq(Calls \cup Events)
        /\ \A i \in DOMAIN queue' : i + 1 \in DOMAIN queue /\ queue'[i] = queue[i + 1]
    BY <1>2 DEF receive, TypeOK
  <2> QED
    BY <1>2, <2>1 DEF receive, callVars, validatorVars, TypeOK, CallState, Seen, RepliesSent, OwnReply, CloseFailsAll, OnlyLateRepliesQueued
<1>3. CASE start_fails
  BY <1>3 DEF start_fails, callVars, validatorVars, TypeOK, CallState, Seen, RepliesSent, OwnReply, CloseFailsAll, OnlyLateRepliesQueued
<1> QED
  BY <1>1, <1>2, <1>3

(* A reply or an event of the validator keeps the invariant.               *)
LEMMA ValidatorStep ==
    ASSUME Inv, \/ \E c \in Calls : ValidatorReplies(c)
                \/ \E e \in Events : ValidatorEmits(e)
    PROVE  Inv'
<1> USE MessageAssumption DEF Inv
<1>1. CASE \E c \in Calls : ValidatorReplies(c)
  <2> PICK c \in Calls : ValidatorReplies(c)
    BY <1>1
  <2>1. RepliesSent'
    BY DEF ValidatorReplies, RepliesSent, TypeOK
  <2> QED
    BY <2>1 DEF ValidatorReplies, callVars, TypeOK, CallState, Seen, OwnReply, CloseFailsAll, OnlyLateRepliesQueued
<1>2. CASE \E e \in Events : ValidatorEmits(e)
  <2> PICK e \in Events : ValidatorEmits(e)
    BY <1>2
  <2>1. RepliesSent'
    BY DEF ValidatorEmits, RepliesSent, TypeOK
  <2> QED
    BY <2>1 DEF ValidatorEmits, callVars, TypeOK, CallState, Seen, OwnReply, CloseFailsAll, OnlyLateRepliesQueued
<1> QED
  BY <1>1, <1>2

(* A step that changes nothing keeps the invariant.                        *)
LEMMA StutterStep ==
    ASSUME Inv, UNCHANGED vars
    PROVE  Inv'
BY DEF vars, callVars, validatorVars, Inv, TypeOK, CallState, Seen, RepliesSent, OwnReply,
       CloseFailsAll, OnlyLateRepliesQueued

(* The invariant holds in every state of the connection.                   *)
THEOREM Safety == Spec => []Inv
<1>1. Inv /\ [Next]_vars => Inv'
  BY CallStep, ReceiverStep, ConnectionStep, ValidatorStep, StutterStep DEF Next
<1> QED
  BY InitInv, <1>1, PTL DEF Spec

(* Type correctness of the connection (remme/shared/messaging.py).         *)
THEOREM TypeCorrect == Spec => []TypeOK
<1>1. Inv => TypeOK
  BY DEF Inv
<1> QED
  BY Safety, <1>1, PTL

(* A call that returns a message returns its own reply, whatever the order *)
(* of replies, timeouts, events and close.                                 *)
THEOREM OwnReplyCorrect == Spec => []OwnReply
<1>1. Inv => OwnReply
  BY DEF Inv
<1> QED
  BY Safety, <1>1, PTL

(* The table of futures holds the calls under way and those never written. *)
THEOREM NoStaleFutureCorrect == Spec => []NoStaleFuture
<1>1. Inv => NoStaleFuture
  BY DEF Inv, TypeOK, CallState, Seen, NoStaleFuture
<1> QED
  BY Safety, <1>1, PTL

(* After a close nobody waits for the reply to a message that was sent.    *)
THEOREM CloseFailsAllCorrect == Spec => []CloseFailsAll
<1>1. Inv => CloseFailsAll
  BY DEF Inv
<1> QED
  BY Safety, <1>1, PTL

(* A reply reaches the incoming queue only when its call is over.          *)
THEOREM OnlyLateRepliesQueuedCorrect == Spec => []OnlyLateRepliesQueued
<1>1. Inv => OnlyLateRepliesQueued
  BY DEF Inv
<1> QED
  BY Safety, <1>1, PTL

(* The first to settle a future, a reply, a timeout or a close, decides    *)
(* how the call ends.                                                      *)
THEOREM SettledOnceCorrect == Spec => SettledOnce
<1> DEFINE Ends(c) == CASE futures[c] = "result" -> result[c]
                        [] futures[c] = "failed" -> "DisconnectError"
                        [] futures[c] = "cancelled" -> "TimeoutError"
<1>1. Inv /\ [Next]_vars =>
          [\A c \in Calls : futures[c] \in {"result", "failed", "cancelled"} =>
              /\ futures'[c] \in {futures[c], None}
              /\ futures'[c] = None =>
                    returned'[c] = (CASE futures[c] = "result" -> result[c]
                                      [] futures[c] = "failed" -> "DisconnectError"
                                      [] futures[c] = "cancelled" -> "TimeoutError")]_vars
  <2> SUFFICES ASSUME Inv, [Next]_vars, NEW c \in Calls,
                      futures[c] \in {"result", "failed", "cancelled"}
               PROVE  /\ futures'[c] \in {futures[c], None}
                      /\ futures'[c] = None => returned'[c] = Ends(c)
    OBVIOUS
  <2>a. futures[c] # None /\ futures[c] # "pending"
    BY MessageAssumption
  <2>b. futures \in [Calls -> {None, "pending", "result", "failed", "cancelled"}]
        /\ returned \in [Calls -> Calls \cup {None, "DisconnectError", "TimeoutError",
                                             "SendBackoffTimeoutError"}]
    BY DEF Inv, TypeOK
  <2>1. CASE futures'[c] = futures[c]
    BY <2>1, <2>a
  <2>2. ASSUME NEW d \in Calls, expect_reply(d)
        PROVE  futures'[c] = futures[c]
    <3>1. futures[d] = None
      BY <2>2 DEF Inv, CallState, expect_reply
    <3> QED
      BY <2>2, <3>1, <2>a, <2>b DEF expect_reply
  <2>3. ASSUME NEW d \in Calls, await_reply(d)
        PROVE  /\ futures'[c] \in {futures[c], None}
               /\ futures'[c] = None => returned'[c] = Ends(c)
    <3>1. CASE c # d
      BY <2>3, <3>1, <2>a, <2>b DEF await_reply, end_call
    <3>2. CASE c = d
      BY <2>3, <3>2, <2>b DEF await_reply, end_call
    <3> QED
      BY <3>1, <3>2
  <2>4. ASSUME NEW d \in Calls, write(d) \/ do_backoff(d) \/ timeout(d) \/ ValidatorReplies(d)
        PROVE  futures'[c] = futures[c]
    BY <2>4, <2>a, <2>b DEF write, do_backoff, timeout, ValidatorReplies, callVars
  <2>5. ASSUME NEW m \in Calls \cup Events, start(m)
        PROVE  futures'[c] = futures[c]
    BY <2>5, <2>a, <2>b DEF start, route_msg, set_reply
  <2>6. CASE close
    BY <2>6, <2>a, <2>b DEF close
  <2>7. CASE \/ \E e \in Events : ValidatorEmits(e)
             \/ start_fails \/ receive \/ UNCHANGED vars
    BY <2>7, <2>a DEF ValidatorEmits, start_fails, receive, vars, callVars
  <2> QED
    BY <2>1, <2>2, <2>3, <2>4, <2>5, <2>6, <2>7 DEF Next, Go
<1> QED
  BY Safety, <1>1, PTL DEF Spec, SettledOnce
=============================================================================
