------------------------------ MODULE AlarmPipeline ------------------------------
(***************************************************************************)
(* The alarm pipeline of ONE company with one enabled rule: the hourly     *)
(* dispatch, the evaluation task of each hour (alarm.evaluate), the events *)
(* it records and the delivery task of each event (alarm.notify).          *)
(*                                                                         *)
(* A rule either watches readings, and whether it breaches is the input of *)
(* an evaluation, or it compares invoices, and breaches on a new bill.  An *)
(* event is named by its place in `events`; so is its delivery task.       *)
(***************************************************************************)
EXTENDS Integers, Sequences, FiniteSets

CONSTANTS
  Last,        \* the rule's analyzers are 1 .. Last, evaluated in this order
  HourLen,     \* ticks in an hour
  MaxTime,     \* bound: the last tick
  Frequency,   \* the notification frequency a rule may have, in ticks
  MaxBill,     \* bound: bills of one analyzer
  MaxEvents,   \* bound: no evaluation breaches once so many events are recorded or due
  MaxRetry,    \* retries of a task before asynq archives it
  LookupLimit, \* eventLookupLimit: how many of a pair's newest events Notify scans
  Rules,       \* the kinds of rule explored
  Faults       \* which faults occur: "db", "queue", "mail", "crash"

Analyzers == 1 .. Last
Times == 0 .. MaxTime
Ids == 1 .. MaxEvents
HourOf(t) == t \div HourLen
Hours == {HourOf(t) : t \in Times}
RuleKinds == [invoice : BOOLEAN, freq : {0, Frequency}]

ASSUME AlarmAssumption ==
  /\ Last \in Nat \ {0} /\ HourLen \in Nat \ {0} /\ MaxTime \in Nat
  /\ Frequency \in Nat \ {0} /\ MaxBill \in Nat /\ MaxEvents \in Nat
  /\ MaxRetry \in Nat /\ LookupLimit \in Nat \ {0} /\ Rules \subseteq RuleKinds

VARIABLES
  now,        \* the clock of every process
  rule,       \* the rule: what it compares, and its frequency (0: none)
  bill,       \* bill[a]: the newest bill of analyzer a, 0 before the first
  claimed,    \* alarm_fired_bills: the (analyzer, bill) pairs claimed
  eval,       \* eval[h]: the evaluation task whose id carries hour h
  dispatched, \* hours whose dispatch has run
  events,     \* alarm_events, in the order of their insertion
  notify,     \* notify[e]: the delivery task whose id carries event e
  mailed      \* history: mailed[e], the sending times of the mails for event e

vars == <<now, rule, bill, claimed, eval, dispatched, events, notify, mailed>>

Never == -1

\* A task is not queued ("none", also after success: no Retention), waits for a
\* worker, is archived, or is at the step of its handler that comes next.
Steps == {"evaluate", "claim", "check", "create", "enqueue", "finish"}
Evaluation ==
  [state : {"none", "scheduled", "archived"} \cup Steps, tries : 0 .. MaxRetry,
   at : Times, an : Analyzers, bill : 0 .. MaxBill, quiet : BOOLEAN, event : 0 .. MaxEvents]

DeliverySteps == {"sending", "sent", "failing", "recorded"}
Delivery ==
  [state : {"none", "scheduled", "archived", "done", "dropped"} \cup DeliverySteps,
   tries : 0 .. MaxRetry, at : Times]

Event ==
  [an : Analyzers, bill : 0 .. MaxBill, hour : Hours, at : Times, suppressed : BOOLEAN,
   notified : Times \cup {Never}, error : BOOLEAN]

EvalTask(st, n) ==
  [state |-> st, tries |-> n, at |-> 0, an |-> 1, bill |-> 0, quiet |-> FALSE, event |-> 0]
DeliveryTask(st, n) == [state |-> st, tries |-> n, at |-> 0]

Written == 1 .. Len(events)

Init ==
  /\ now = 0 /\ rule \in Rules
  /\ bill = [a \in Analyzers |-> 0] /\ claimed = {}
  /\ eval = [h \in Hours |-> EvalTask("none", 0)] /\ dispatched = {}
  /\ events = <<>>
  /\ notify = [e \in Ids |-> DeliveryTask("none", 0)]
  /\ mailed = [e \in Ids |-> {}]

Tick ==
  /\ now < MaxTime /\ now' = now + 1
  /\ UNCHANGED <<rule, bill, claimed, eval, dispatched, events, notify, mailed>>

\* Billing issues a new bill for an analyzer of an invoice rule.
NewBill(a) ==
  /\ rule.invoice /\ bill[a] < MaxBill
  /\ bill' = [bill EXCEPT ![a] = @ + 1]
  /\ UNCHANGED <<now, rule, claimed, eval, dispatched, events, notify, mailed>>

--------------------------------------------------------------------------------
(* The evaluation of an hour.                                              *)

\* The hourly tick enqueues the company's evaluation.  Bound: one dispatch an hour
\* (another one conflicts with the id, or repeats a completed evaluation).
Dispatch ==
  LET h == HourOf(now) IN
  /\ h \notin dispatched
  /\ eval' = [eval EXCEPT ![h] = EvalTask("scheduled", 0)]
  /\ dispatched' = dispatched \cup {h}
  /\ UNCHANGED <<now, rule, bill, claimed, events, notify, mailed>>

\* asynq: a task that returned an error is retried, or archived.
Retried(h) ==
  IF eval[h].tries < MaxRetry THEN EvalTask("scheduled", eval[h].tries + 1)
                              ELSE EvalTask("archived", MaxRetry)

\* fire's loop: the next analyzer of the rule, or the run's summary after the last.
NextAnalyzer(t) ==
  [EvalTask(IF t.an = Last THEN "finish" ELSE "evaluate", t.tries)
     EXCEPT !.at = t.at, !.an = IF t.an = Last THEN Last ELSE t.an + 1]

\* Evaluate takes the CURRENT time, not the payload's hour.
Start(h) ==
  /\ eval[h].state = "scheduled"
  /\ eval' = [eval EXCEPT ![h] = [EvalTask("evaluate", @.tries) EXCEPT !.at = now]]
  /\ UNCHANGED <<now, rule, bill, claimed, dispatched, events, notify, mailed>>

Room ==
  LET due == {h \in Hours : eval[h].state \in {"claim", "check", "create"}}
  IN  Len(events) + Cardinality(due) < MaxEvents

\* evaluateAnalyzer found a breach; an invoice breach names the newest bill.
Breach(h) ==
  LET a == eval[h].an IN
  /\ eval[h].state = "evaluate" /\ Room
  /\ rule.invoice => bill[a] > 0
  /\ eval' = [eval EXCEPT ![h].state = IF rule.invoice THEN "claim" ELSE "check",
                          ![h].bill = bill[a]]
  /\ UNCHANGED <<now, rule, bill, claimed, dispatched, events, notify, mailed>>

NoBreach(h) ==
  /\ eval[h].state = "evaluate"
  /\ rule.invoice => bill[eval[h].an] = 0 \/ ~Room
  /\ eval' = [eval EXCEPT ![h] = NextAnalyzer(@)]
  /\ UNCHANGED <<now, rule, bill, claimed, dispatched, events, notify, mailed>>

\* MUTANT of Unclaimed: the claim is not insert-once.
UnclaimedAlways(p) == TRUE

\* MarkBillFired: insert .. on conflict do nothing returning true.
Unclaimed(p) == p \notin claimed

Claim(h) ==
  LET p == <<eval[h].an, eval[h].bill>> IN
  /\ eval[h].state = "claim"
  /\ claimed' = claimed \cup {p}
  /\ eval' = [eval EXCEPT ![h] = IF Unclaimed(p) THEN [@ EXCEPT !.state = "check"]
                                                 ELSE NextAnalyzer(@)]
  /\ UNCHANGED <<now, rule, bill, dispatched, events, notify, mailed>>

\* The events lastNotifiedAt may answer with: the newest TRIGGERED among the
\* delivered ones of the pair (ties fall to the random id).
NewestDelivered(a) ==
  LET delivered == {e \in Written : events[e].an = a /\ events[e].notified # Never}
  IN  {e \in delivered : \A f \in delivered : events[f].at <= events[e].at}

\* MUTANT of Suppressed: the window is measured from the last event, told or not.
SuppressedByEvent(a, t) ==
  {rule.freq > 0 /\ \E e \in Written : events[e].an = a /\ events[e].at > t - rule.freq}

\* The answers Suppressed may give at time t.
Suppressed(a, t) ==
  IF rule.freq = 0 \/ NewestDelivered(a) = {} THEN {FALSE}
  ELSE {events[e].notified > t - rule.freq : e \in NewestDelivered(a)}

CheckFrequency(h) ==
  /\ eval[h].state = "check"
  /\ \E q \in Suppressed(eval[h].an, eval[h].at) :
       eval' = [eval EXCEPT ![h].state = "create", ![h].quiet = q]
  /\ UNCHANGED <<now, rule, bill, claimed, dispatched, events, notify, mailed>>

\* The event is always written; a suppressed one is not announced.
CreateEvent(h) ==
  LET t == eval[h] IN
  /\ t.state = "create"
  /\ events' = Append(events, [an |-> t.an, bill |-> t.bill, hour |-> h, at |-> t.at,
                               suppressed |-> t.quiet, notified |-> Never, error |-> FALSE])
  /\ eval' = [eval EXCEPT ![h] = IF t.quiet THEN NextAnalyzer(@)
                                 ELSE [@ EXCEPT !.state = "enqueue", !.event = Len(events) + 1]]
  /\ UNCHANGED <<now, rule, bill, claimed, dispatched, notify, mailed>>

Enqueue(h) ==
  /\ eval[h].state = "enqueue"
  /\ notify' = [notify EXCEPT ![eval[h].event] = DeliveryTask("scheduled", 0)]
  /\ eval' = [eval EXCEPT ![h] = NextAnalyzer(@)]
  /\ UNCHANGED <<now, rule, bill, claimed, dispatched, events, mailed>>

\* A rule's error is noted and swallowed: the analyzers after it are skipped.
RuleFails(h) ==
  /\ \/ "db" \in Faults /\ eval[h].state \in {"evaluate", "check", "create"} /\ UNCHANGED claimed
     \/ "db" \in Faults /\ eval[h].state = "claim"
          /\ claimed' \in {claimed, claimed \cup {<<eval[h].an, eval[h].bill>>}}
     \/ "queue" \in Faults /\ eval[h].state = "enqueue" /\ UNCHANGED claimed
  /\ eval' = [eval EXCEPT ![h] = NextAnalyzer([@ EXCEPT !.an = Last])]
  /\ UNCHANGED <<now, rule, bill, dispatched, events, notify, mailed>>

\* FinishRun and appendRunSummary; asynq completes the task and frees its id.
Finish(h) ==
  /\ eval[h].state = "finish"
  /\ eval' = [eval EXCEPT ![h] = EvalTask("none", 0)]
  /\ UNCHANGED <<now, rule, bill, claimed, dispatched, events, notify, mailed>>

\* Either of them fails, or the worker dies: the WHOLE evaluation runs again.
EvalFails(h) ==
  /\ \/ "db" \in Faults /\ eval[h].state = "finish"
     \/ "crash" \in Faults /\ eval[h].state \in Steps
  /\ eval' = [eval EXCEPT ![h] = Retried(h)]
  /\ UNCHANGED <<now, rule, bill, claimed, dispatched, events, notify, mailed>>

--------------------------------------------------------------------------------
(* The delivery of an event.                                               *)

\* MUTANT of RetriedDelivery: a retry is not counted.
RetriedUncounted(e) == DeliveryTask("scheduled", notify[e].tries + 1)

RetriedDelivery(e) ==
  IF notify[e].tries < MaxRetry THEN DeliveryTask("scheduled", notify[e].tries + 1)
                                ELSE DeliveryTask("archived", MaxRetry)

Newer(e) == {f \in Written \ {e} : events[f].an = events[e].an /\ events[f].at > events[e].at}
NotOlder(e) == {f \in Written \ {e} : events[f].an = events[e].an /\ events[f].at >= events[e].at}

\* Notify reads the rule and looks the event up among the pair's newest ones.
FindEvent(e) ==
  /\ notify[e].state = "scheduled"
  /\ Cardinality(Newer(e)) < LookupLimit
  /\ notify' = [notify EXCEPT ![e].state = "sending"]
  /\ UNCHANGED <<now, rule, bill, claimed, eval, dispatched, events, mailed>>

\* It is not among them: "the event is gone; there is nothing to deliver".
MissEvent(e) ==
  /\ notify[e].state = "scheduled"
  /\ Cardinality(NotOlder(e)) >= LookupLimit
  /\ notify' = [notify EXCEPT ![e].state = "dropped"]
  /\ UNCHANGED <<now, rule, bill, claimed, eval, dispatched, events, mailed>>

\* The time that will be recorded is taken right before the mail is sent.
Send(e) ==
  /\ notify[e].state = "sending"
  /\ notify' = [notify EXCEPT ![e].state = "sent", ![e].at = now]
  /\ mailed' = [mailed EXCEPT ![e] = @ \cup {now}]
  /\ UNCHANGED <<now, rule, bill, claimed, eval, dispatched, events>>

\* No address, no SMTP settings, no password, or the server refuses.
SendFails(e) ==
  /\ "mail" \in Faults /\ notify[e].state = "sending"
  /\ notify' = [notify EXCEPT ![e].state = "failing"]
  /\ UNCHANGED <<now, rule, bill, claimed, eval, dispatched, events, mailed>>

\* MUTANT of Mark: a failure is stamped with a time, as a delivery is.
MarkAlwaysStamped(t) == [notified |-> t.at, error |-> t.state = "failing"]

\* MarkNotified's columns: a failure has no time, a delivery no error.
Mark(t) == [notified |-> IF t.state = "failing" THEN Never ELSE t.at,
            error |-> t.state = "failing"]

Record(e) ==
  /\ notify[e].state \in {"sent", "failing"}
  /\ events' = [events EXCEPT ![e].notified = Mark(notify[e]).notified,
                              ![e].error = Mark(notify[e]).error]
  /\ notify' = [notify EXCEPT ![e] = DeliveryTask("recorded", @.tries)]
  /\ UNCHANGED <<now, rule, bill, claimed, eval, dispatched, mailed>>

\* A failure to append the Messages row is ignored: the task completes.
Complete(e) ==
  /\ notify[e].state = "recorded"
  /\ notify' = [notify EXCEPT ![e] = DeliveryTask("done", 0)]
  /\ UNCHANGED <<now, rule, bill, claimed, eval, dispatched, events, mailed>>

\* MUTANT of DeliveryFailed: a mark that fails is reported as success.
DeliveryGivesUp(e) == DeliveryTask("done", 0)

\* What becomes of a delivery that returned an error.
DeliveryFailed(e) == RetriedDelivery(e)

\* The event or the rule cannot be read, or the outcome not be marked; or the
\* worker dies, also after the mark.
DeliveryFails(e) ==
  /\ \/ "db" \in Faults /\ notify[e].state \in {"scheduled", "sent", "failing"}
     \/ "crash" \in Faults /\ notify[e].state \in DeliverySteps
  /\ notify' = [notify EXCEPT ![e] = DeliveryFailed(e)]
  /\ UNCHANGED <<now, rule, bill, claimed, eval, dispatched, events, mailed>>

--------------------------------------------------------------------------------
Evaluating(h) ==
  \/ Start(h) \/ Breach(h) \/ NoBreach(h) \/ Claim(h) \/ CheckFrequency(h)
  \/ CreateEvent(h) \/ Enqueue(h) \/ RuleFails(h) \/ Finish(h) \/ EvalFails(h)

Delivering(e) ==
  \/ FindEvent(e) \/ MissEvent(e) \/ Send(e) \/ SendFails(e)
  \/ Record(e) \/ Complete(e) \/ DeliveryFails(e)

Next ==
  \/ Tick \/ Dispatch
  \/ \E a \in Analyzers : NewBill(a)
  \/ \E h \in Hours : Evaluating(h)
  \/ \E e \in Ids : Delivering(e)

Spec == Init /\ [][Next]_vars

\* asynq's workers keep taking and executing tasks; nothing is asked of the clock.
Fairness ==
  /\ \A h \in Hours : WF_vars(Evaluating(h))
  /\ \A e \in Ids : WF_vars(Delivering(e))

FairSpec == Spec /\ Fairness

--------------------------------------------------------------------------------
\* Types, and what the fields of a task mean at each step.
TypeOK ==
  /\ now \in Times /\ rule \in Rules
  /\ bill \in [Analyzers -> 0 .. MaxBill]
  /\ claimed \subseteq Analyzers \X (0 .. MaxBill)
  /\ eval \in [Hours -> Evaluation] /\ dispatched \subseteq Hours
  /\ events \in Seq(Event) /\ Len(events) <= MaxEvents
  /\ notify \in [Ids -> Delivery]
  /\ mailed \in [Ids -> SUBSET Times]

\* An invoice breach is recorded once: whatever evaluations overlap, are retried
\* or crash, no bill of an analyzer has two events (claimBill before the write).
BillFiredOnce ==
  rule.invoice =>
    \A e, f \in Written :
      events[e].an = events[f].an /\ events[e].bill = events[f].bill => e = f

\* An event is silenced only if somebody was told: a mail for its analyzer went
\* out less than one frequency before the evaluation began (R218).
SuppressedWasTold ==
  \A e \in Written : events[e].suppressed =>
    \E f \in Written : /\ events[f].an = events[e].an
                       /\ \E t \in mailed[f] : t > events[e].at - rule.freq

\* An event that reads as delivered was delivered, at the time it says
\* (MarkNotified: a zero time stores NULL).
NotifiedWasMailed ==
  \A e \in Written : events[e].notified # Never => events[e].notified \in mailed[e]

\* Every evaluation ends, and every delivery that was enqueued ends with an
\* outcome on its event, in the archive, or because the event fell out of the scan.
Settles ==
  <>[](/\ \A h \in Hours : eval[h].state \in {"none", "archived"}
       /\ \A e \in Ids :
            \/ notify[e].state \in {"none", "archived", "dropped"}
            \/ notify[e].state = "done" /\ (events[e].error \/ events[e].notified # Never))
================================================================================
