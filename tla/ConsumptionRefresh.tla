--------------------------- MODULE ConsumptionRefresh ---------------------------
(***************************************************************************)
(* consumption.refresh for ONE window: the requests ingestion makes, the   *)
(* task ids that collapse a burst of them into one task per wall-clock     *)
(* minute, the global lease that serialises the handlers, and the views a  *)
(* handler refreshes one after another.                                    *)
(*                                                                         *)
(* A row is a batch of old readings committed before its request is made.  *)
(* `now` counts minutes up to the one after the last slot, then stays there *)
(* while time goes on.  A task is named by its debounce slot, the minute   *)
(* of the clock that enqueued it.                                          *)
(***************************************************************************)
EXTENDS Integers

CONSTANTS
  Rows,       \* the batches ingestion commits
  Views,      \* how many aggregate views there are, refreshed in order 1 .. Views
  LastSlot,   \* bound: no request is made after this minute
  Timeout,    \* asynq.Timeout of an execution, in minutes
  LockTTL,    \* TTL of the lease, in minutes
  MaxRetry,   \* retries of a task before asynq archives it
  NoTask,     \* the lease is free
  Faults      \* which faults occur: "view", "redis", "release", "crash"

Slots == 0 .. LastSlot
Clock == 0 .. LastSlot + 1

ASSUME RefreshAssumption ==
  /\ Views \in Nat \ {0} /\ LastSlot \in Nat
  /\ Timeout \in Nat \ {0} /\ LockTTL \in Nat \ {0} /\ MaxRetry \in Nat
  /\ NoTask \notin Slots

VARIABLES
  now,        \* the clock of every process
  committed,  \* rows visible to a refresh that starts
  fresh,      \* fresh[v]: the rows view v has materialised
  task,       \* task[s]: the task whose id carries slot s
  holder,     \* the task whose token is in the lease's key, or NoTask
  heldFor,    \* minutes since that token was written
  slotOf,     \* history: the slot of the task a row's request went to, or NoSlot
  overran     \* history: tasks still refreshing whose lease has expired

vars == <<now, committed, fresh, task, holder, heldFor, slotOf, overran>>

NoSlot == -1

\* "none" is a free id: never enqueued, or completed (no Retention).  Scheduled
\* covers a retry that waits for its backoff and one that is due.
States == {"none", "scheduled", "waiting", "refreshing", "archived"}

TaskState ==
  [state : States, tries : 0 .. MaxRetry, age : 0 .. Timeout, view : 1 .. Views]

AtRest(st, n) == [state |-> st, tries |-> n, age |-> 0, view |-> 1]

Free == AtRest("none", 0)

Executing(s) == task[s].state \in {"waiting", "refreshing"}

\* The context of the execution is done.
Expired(s) == task[s].age = Timeout

Init ==
  /\ now = 0 /\ committed = {}
  /\ fresh = [v \in 1 .. Views |-> {}]
  /\ task = [s \in Slots |-> Free]
  /\ holder = NoTask /\ heldFor = 0
  /\ slotOf = [x \in Rows |-> NoSlot] /\ overran = {}

\* A minute passes, but never past the deadline of an execution that has not
\* noticed it, past the TTL of a key Redis has not dropped, or over a free lease
\* somebody polls for every few seconds.
Tick ==
  /\ \A s \in Slots : Executing(s) => ~Expired(s)
  /\ holder # NoTask => heldFor < LockTTL
  /\ holder = NoTask => \A s \in Slots : task[s].state # "waiting"
  /\ now' = IF now \in Slots THEN now + 1 ELSE now
  /\ task' = [s \in Slots |->
               IF Executing(s) THEN [task[s] EXCEPT !.age = @ + 1] ELSE task[s]]
  /\ heldFor' = IF holder = NoTask THEN 0 ELSE heldFor + 1
  /\ UNCHANGED <<committed, fresh, holder, slotOf, overran>>

--------------------------------------------------------------------------------
(* Ingestion's side: commit, then request.                                 *)

Commit(x) ==
  /\ x \notin committed
  /\ committed' = committed \cup {x}
  /\ UNCHANGED <<now, fresh, task, holder, heldFor, slotOf, overran>>

\* MUTANT of TaskSlot: the id is the window alone (R71 before R100).
WindowOnlyId(t) == 0

\* ConsumptionRefreshTaskID: the window, which is fixed here, and the minute.
TaskSlot(t) == t

\* EnqueueConsumptionRefresh: ErrTaskIDConflict counts as success.
Request(x) ==
  LET s == TaskSlot(now) IN
  /\ x \in committed /\ slotOf[x] = NoSlot /\ now \in Slots
  /\ task' = IF task[s].state = "none"
             THEN [task EXCEPT ![s] = AtRest("scheduled", 0)]
             ELSE task
  /\ slotOf' = [slotOf EXCEPT ![x] = s]
  /\ UNCHANGED <<now, committed, fresh, holder, heldFor, overran>>

--------------------------------------------------------------------------------
(* The queue.                                                              *)

\* MUTANT of Due: enqueued without ProcessIn.
DueAtOnce(s) == s <= now

\* ProcessIn(1 min): a task is not run within the minute of its slot.
Due(s) == s < now

\* A worker takes the task and its handler starts to poll for the lease.
Start(s) ==
  /\ task[s].state = "scheduled" /\ Due(s)
  /\ task' = [task EXCEPT ![s] = [@ EXCEPT !.state = "waiting"]]
  /\ UNCHANGED <<now, committed, fresh, holder, heldFor, slotOf, overran>>

\* MUTANT of Failed: no retry budget.
FailedForEver(s) ==
  task' = [task EXCEPT ![s] = AtRest("scheduled", task[s].tries + 1)]

\* The handler returned a plain error, or its execution was given up.
Failed(s) ==
  task' = [task EXCEPT ![s] =
             IF task[s].tries < MaxRetry
             THEN AtRest("scheduled", task[s].tries + 1)
             ELSE AtRest("archived", task[s].tries)]

\* MUTANT of Released: a plain DEL, whoever's token the key holds.
ReleasedAny(s) ==
  /\ holder' = NoTask
  /\ overran' = overran \ {s}

\* redisReleaseScript: the key is deleted only if it holds the task's token.
Released(s) ==
  /\ holder' = IF holder = s THEN NoTask ELSE holder
  /\ overran' = overran \ {s}

\* The deferred Release; Redis may fail it, and the key stays until its TTL.
Release(s) ==
  \/ Released(s)
  \/ "release" \in Faults /\ holder' = holder /\ overran' = overran \ {s}

--------------------------------------------------------------------------------
(* RefreshConsumption.                                                     *)

Acquire(s) ==
  /\ task[s].state = "waiting" /\ holder = NoTask
  /\ holder' = s /\ heldFor' = 0
  /\ task' = [task EXCEPT ![s] = [@ EXCEPT !.state = "refreshing", !.view = 1]]
  /\ UNCHANGED <<now, committed, fresh, slotOf, overran>>

\* ErrNotAcquired: only a done context ends the polling.  The re-enqueue of the
\* payload runs on that same context and fails, so the handler returns an error.
NotAcquired(s) ==
  /\ task[s].state = "waiting" /\ Expired(s)
  /\ Failed(s)
  /\ UNCHANGED <<now, committed, fresh, holder, heldFor, slotOf, overran>>

\* Any other error of the acquisition.
AcquireFails(s) ==
  /\ task[s].state = "waiting" /\ "redis" \in Faults
  /\ Failed(s)
  /\ UNCHANGED <<now, committed, fresh, holder, heldFor, slotOf, overran>>

\* refresh_continuous_aggregate on the next view materialises what is committed.
RefreshView(s) ==
  /\ task[s].state = "refreshing" /\ task[s].view < Views
  /\ fresh' = [fresh EXCEPT ![task[s].view] = @ \cup committed]
  /\ task' = [task EXCEPT ![s] = [@ EXCEPT !.view = task[s].view + 1]]
  /\ UNCHANGED <<now, committed, holder, heldFor, slotOf, overran>>

\* The last view; the task completes and its id is free again.
Finish(s) ==
  /\ task[s].state = "refreshing" /\ task[s].view = Views
  /\ fresh' = [fresh EXCEPT ![Views] = @ \cup committed]
  /\ task' = [task EXCEPT ![s] = Free]
  /\ Release(s)
  /\ UNCHANGED <<now, committed, heldFor, slotOf>>

\* A view fails, or the deadline cuts it: the remaining views are abandoned.
RefreshFails(s) ==
  /\ task[s].state = "refreshing" /\ ("view" \in Faults \/ Expired(s))
  /\ Failed(s)
  /\ Release(s)
  /\ UNCHANGED <<now, committed, fresh, heldFor, slotOf>>

\* The worker dies: the recoverer counts a retry, the lease stays to its TTL.
Crash(s) ==
  /\ "crash" \in Faults /\ Executing(s)
  /\ Failed(s)
  /\ overran' = overran \ {s}
  /\ UNCHANGED <<now, committed, fresh, holder, heldFor, slotOf>>

\* The key expires, whether or not its task is still refreshing.
LeaseExpires ==
  /\ holder # NoTask /\ heldFor = LockTTL
  /\ holder' = NoTask
  /\ overran' = IF task[holder].state = "refreshing" THEN overran \cup {holder} ELSE overran
  /\ UNCHANGED <<now, committed, fresh, task, heldFor, slotOf>>

--------------------------------------------------------------------------------

Next ==
  \/ Tick
  \/ \E x \in Rows : Commit(x) \/ Request(x)
  \/ \E s \in Slots :
       \/ Start(s) \/ Acquire(s) \/ NotAcquired(s) \/ AcquireFails(s)
       \/ RefreshView(s) \/ Finish(s) \/ RefreshFails(s) \/ Crash(s)
  \/ LeaseExpires

Spec == Init /\ [][Next]_vars

\* Time passes, workers take what is due and work, Redis drops expired keys.
\* The lease is not fair: a waiter may lose every race for it.
Fairness ==
  /\ WF_vars(Tick) /\ WF_vars(LeaseExpires)
  /\ \A s \in Slots :
       /\ WF_vars(Start(s)) /\ WF_vars(Acquire(s)) /\ WF_vars(NotAcquired(s))
       /\ WF_vars(RefreshView(s)) /\ WF_vars(Finish(s)) /\ WF_vars(RefreshFails(s))

FairSpec == Spec /\ Fairness

--------------------------------------------------------------------------------

TypeOK ==
  /\ now \in Clock /\ committed \subseteq Rows
  /\ fresh \in [1 .. Views -> SUBSET committed]
  /\ task \in [Slots -> TaskState]
  /\ holder \in Slots \cup {NoTask} /\ heldFor \in 0 .. LockTTL
  /\ slotOf \in [Rows -> Slots \cup {NoSlot}]
  /\ overran \subseteq Slots

\* The task still has view v before it.
Ahead(s, v) ==
  \/ task[s].state \in {"scheduled", "waiting"}
  \/ task[s].state = "refreshing" /\ task[s].view <= v

\* R100(2): no acknowledged request is swallowed by a task that has already
\* passed a view: until every view holds the row, the very task its request
\* created or collapsed into still has that view before it, or is archived.
NoRowForgotten ==
  \A x \in Rows : slotOf[x] # NoSlot =>
    \A v \in 1 .. Views :
      x \in fresh[v] \/ Ahead(slotOf[x], v) \/ task[slotOf[x]].state = "archived"

\* R100(4): refreshes are serialised by the one lease; two overlap only when a
\* lease has expired under one of them (no stale Release frees a later holder).
Serialised ==
  \A s, u \in Slots :
    task[s].state = "refreshing" /\ task[u].state = "refreshing" /\ s # u
      => s \in overran \/ u \in overran

\* Every acknowledged row is materialised in every view, or its task is archived.
Materialised ==
  \A x \in Rows :
    (slotOf[x] # NoSlot) ~>
      \/ \A v \in 1 .. Views : x \in fresh[v]
      \/ \E s \in Slots : slotOf[x] = s /\ task[s].state = "archived"

\* R100(4) and RefreshConsumption's doc: losing the lease to another refresh
\* consumes no retry budget and never risks archival.
ContentionIsFree ==
  [][\A s \in Slots :
       task[s].state = "waiting" =>
         task'[s].state # "archived" /\ task'[s].tries <= task[s].tries]_vars
================================================================================
