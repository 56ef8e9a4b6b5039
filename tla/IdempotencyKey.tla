---------------------------- MODULE IdempotencyKey ----------------------------
(***************************************************************************)
(* The Idempotency-Key middleware, for ONE key of one user and operation:  *)
(* a request claims the key in Redis, runs the handler, and records its    *)
(* answer; a repeated request is answered from the record.  Requests may   *)
(* overlap, carry another body, be cancelled by their client, lose Redis,  *)
(* or die with the process.                                                *)
(***************************************************************************)
EXTENDS Integers

CONSTANTS
  Senders,    \* request slots of the client and its retries
  Bodies,     \* request bodies, by their hash
  NoBody,
  KeyFaults   \* which faults occur: "redis", "cancel", "crash"

ASSUME KeyAssumption == NoBody \notin Bodies

VARIABLES
  key,        \* the Redis record of the key
  sender,     \* the requests, with the local state of the middleware
  (* history variables, read by no action's guard *)
  effects,    \* how often the operation has taken effect (at most 2 are told apart)
  first,      \* the body of the first effect
  unrecorded, \* an effect's answer was not recorded
  abandoned   \* a pending record outlived its request

keyVars == <<key, sender, effects, first, unrecorded, abandoned>>

NoKey == [state |-> "absent", body |-> NoBody]
Ready == [pc |-> "idle", body |-> NoBody, acted |-> FALSE, answer |-> "none"]

KeyInit ==
  /\ key = NoKey
  /\ sender = [q \in Senders |-> Ready]
  /\ effects = 0 /\ first = NoBody /\ unrecorded = FALSE /\ abandoned = FALSE

\* The request is between its claim of the key and the deferred clean-up.
Inside(q) == sender[q].pc \in {"handler", "answered"}

Answer(q, a) == sender' = [sender EXCEPT ![q].pc = "idle", ![q].answer = a]

\* Mutant: the key is looked up first and claimed without NX.
ClaimOver(q) ==
  \E b \in Bodies :
    /\ sender[q].pc = "idle" /\ key.state # "done"
    /\ key' = [state |-> "pending", body |-> b]
    /\ sender' = [sender EXCEPT ![q] = [Ready EXCEPT !.pc = "handler", !.body = b]]
    /\ UNCHANGED <<effects, first, unrecorded, abandoned>>

(* SET NX of the pending record. *)
Claim(q) ==
  \E b \in Bodies :
    /\ sender[q].pc = "idle" /\ key.state = "absent"
    /\ key' = [state |-> "pending", body |-> b]
    /\ sender' = [sender EXCEPT ![q] = [Ready EXCEPT !.pc = "handler", !.body = b]]
    /\ UNCHANGED <<effects, first, unrecorded, abandoned>>

(* The key exists: the record is read in a second call to Redis. *)
FindTaken(q) ==
  \E b \in Bodies :
    /\ sender[q].pc = "idle" /\ key.state # "absent"
    /\ sender' = [sender EXCEPT ![q] = [Ready EXCEPT !.pc = "replay", !.body = b]]
    /\ UNCHANGED <<key, effects, first, unrecorded, abandoned>>

\* Mutant: the body of the request is not compared with the record's.
ReplayAnyBody(q) ==
  /\ sender[q].pc = "replay"
  /\ Answer(q, IF key.state # "done" THEN "busy" ELSE "replayed")
  /\ UNCHANGED <<key, effects, first, unrecorded, abandoned>>

(* Busy while the first request runs or when the key is gone again, reuse    *)
(* refused for another body, else the recorded answer.                       *)
Replay(q) ==
  /\ sender[q].pc = "replay"
  /\ Answer(q, IF key.state = "absent" THEN "busy"
               ELSE IF key.body # sender[q].body THEN "reuse"
               ELSE IF key.state # "done" THEN "busy" ELSE "replayed")
  /\ UNCHANGED <<key, effects, first, unrecorded, abandoned>>

(* The handler's transaction commits. *)
TakeEffect(q) ==
  /\ sender[q].pc = "handler" /\ ~sender[q].acted
  /\ effects' = IF effects < 2 THEN effects + 1 ELSE effects
  /\ first' = IF effects = 0 THEN sender[q].body ELSE first
  /\ sender' = [sender EXCEPT ![q].acted = TRUE]
  /\ UNCHANGED <<key, unrecorded, abandoned>>

(* The handler answers with a status below 500 that fits the record; it      *)
(* refuses (4xx) or has taken effect.                                        *)
HandlerAnswers(q) ==
  /\ sender[q].pc = "handler"
  /\ sender' = [sender EXCEPT ![q].pc = "answered"]
  /\ UNCHANGED <<key, effects, first, unrecorded, abandoned>>

(* SET of the done record. *)
RecordAnswer(q) ==
  /\ sender[q].pc = "answered"
  /\ key' = [state |-> "done", body |-> sender[q].body]
  /\ Answer(q, "fresh")
  /\ UNCHANGED <<effects, first, unrecorded, abandoned>>

\* Mutant: the pending record is not deleted.
LeaveKey(q) ==
  /\ Inside(q)
  /\ sender[q].pc = "answered" => "redis" \in KeyFaults
  /\ unrecorded' = (unrecorded \/ sender[q].acted)
  /\ Answer(q, "failed")
  /\ UNCHANGED <<key, effects, first, abandoned>>

(* The deferred DEL: the handler answered 500 or above, panicked, or wrote    *)
(* more than the record holds, or the SET of its answer failed.               *)
ForgetKey(q) ==
  /\ Inside(q)
  /\ sender[q].pc = "answered" => "redis" \in KeyFaults
  /\ key' = NoKey
  /\ unrecorded' = (unrecorded \/ sender[q].acted)
  /\ Answer(q, "failed")
  /\ UNCHANGED <<effects, first, abandoned>>

(* The client goes away or Redis does: SET and DEL, on the request's own      *)
(* context, both fail.  The process dies: neither is tried.                   *)
AbandonKey(q) ==
  /\ KeyFaults \cap {"cancel", "crash", "redis"} # {}
  /\ Inside(q)
  /\ abandoned' = TRUE
  /\ unrecorded' = (unrecorded \/ sender[q].acted)
  /\ Answer(q, "failed")
  /\ UNCHANGED <<key, effects, first>>

(* The record expires after a day: no request runs that long. *)
KeyExpires ==
  /\ key.state # "absent" /\ \A q \in Senders : ~Inside(q)
  /\ key' = NoKey
  /\ sender' = [q \in Senders |-> IF sender[q].pc = "idle" THEN Ready ELSE sender[q]]
  /\ effects' = 0 /\ first' = NoBody /\ unrecorded' = FALSE /\ abandoned' = FALSE

KeyNext ==
  \/ \E q \in Senders :
       \/ Claim(q) \/ FindTaken(q) \/ Replay(q) \/ TakeEffect(q) \/ HandlerAnswers(q)
       \/ RecordAnswer(q) \/ ForgetKey(q) \/ AbandonKey(q)
  \/ KeyExpires

KeySpec == KeyInit /\ [][KeyNext]_keyVars

-----------------------------------------------------------------------------
(* Types of the record and the requests; exactly a record that is present    *)
(* has a body, and a first body is noted exactly when there is an effect.   *)
KeyTypeOK ==
  /\ key.state \in {"absent", "pending", "done"}
  /\ (key.state = "absent") = (key.body = NoBody)
  /\ effects \in 0 .. 2 /\ (effects = 0) = (first = NoBody)
  /\ \A q \in Senders : sender[q].pc \in {"idle", "handler", "answered", "replay"}

(* Within the life of the record, a mutation repeated with its key takes     *)
(* effect a second time only when the answer of the first was never recorded.*)
OncePerKey == effects > 1 => unrecorded

(* Unless an answer went unrecorded, a request is answered by a replay only  *)
(* when the mutation that took effect was asked for with the same body.      *)
ReplayMatches ==
  \A q \in Senders :
    sender[q].answer = "replayed" /\ effects > 0 =>
      unrecorded \/ sender[q].body = first

(* Nobody is told "busy" by a request that is over: a pending record belongs *)
(* to one running request, or was left by one that was cut off.              *)
PendingIsRunning ==
  key.state = "pending" =>
    abandoned \/ \E q \in Senders : Inside(q) /\ sender[q].body = key.body
=============================================================================
