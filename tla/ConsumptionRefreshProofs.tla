------------------------ MODULE ConsumptionRefreshProofs ------------------------
(***************************************************************************)
(* Proofs about ConsumptionRefresh, for every number of rows, views, slots *)
(* and retries and every choice of faults: refreshes overlap only where a  *)
(* lease has expired, and no acknowledged request is swallowed.            *)
(***************************************************************************)
EXTENDS ConsumptionRefresh, TLAPS

USE RefreshAssumption

\* A task that refreshes holds the lease, unless the lease has expired.
LeaseInv == \A s \in Slots : task[s].state = "refreshing" => holder = s \/ s \in overran

\* What the proofs need of the types.
Shape ==
  /\ now \in Clock
  /\ task \in [Slots -> TaskState]
  /\ fresh \in [1 .. Views -> SUBSET Rows]
  /\ slotOf \in [Rows -> Slots \cup {NoSlot}]
  /\ committed \subseteq Rows
  /\ holder \in Slots \cup {NoTask}

\* A task executes only after the minute of its slot; a row is committed before
\* its request is made; no request is forgotten.
RequestInv ==
  /\ \A s \in Slots : Executing(s) => s < now
  /\ \A x \in Rows : slotOf[x] # NoSlot => x \in committed
  /\ NoRowForgotten

--------------------------------------------------------------------------------
(* Typing.                                                                 *)

\* A task at rest is typed, whatever retries it has used.
LEMMA AtRestShape ==
  ASSUME NEW st \in States, NEW n \in 0 .. MaxRetry
  PROVE  AtRest(st, n) \in TaskState /\ AtRest(st, n).state = st
<1>1. 0 \in 0 .. Timeout /\ 1 \in 1 .. Views
  BY RefreshAssumption
<1> QED BY <1>1 DEF AtRest, TaskState

\* A failed execution is scheduled again or archived, and nothing else changes.
LEMMA FailedShape ==
  ASSUME Shape, NEW s \in Slots, Failed(s)
  PROVE  /\ task' \in [Slots -> TaskState]
         /\ task'[s].state \in {"scheduled", "archived"}
         /\ \A u \in Slots : u # s => task'[u] = task[u]
<1> DEFINE n == task[s].tries
<1>1. n \in 0 .. MaxRetry /\ n \in Nat
  BY DEF Shape, TaskState
<1>2. AtRest("archived", n) \in TaskState /\ AtRest("archived", n).state = "archived"
  BY <1>1, AtRestShape DEF States
<1>3. ASSUME n < MaxRetry
      PROVE  AtRest("scheduled", n + 1) \in TaskState
             /\ AtRest("scheduled", n + 1).state = "scheduled"
  <2>1. n + 1 \in 0 .. MaxRetry
    BY <1>1, <1>3
  <2> QED BY <2>1, AtRestShape DEF States
<1> QED BY <1>2, <1>3 DEF Failed, Shape

\* Every step keeps the shape.
LEMMA ShapeStep == Shape /\ [Next]_vars => Shape'
<1> SUFFICES ASSUME Shape, [Next]_vars
             PROVE  Shape'
  OBVIOUS
<1>0. /\ Views \in Nat \ {0} /\ Timeout \in Nat \ {0} /\ MaxRetry \in Nat /\ LastSlot \in Nat
      /\ \A s \in Slots : task[s] \in TaskState
  BY DEF Shape
<1>1. CASE Tick
  <2>1. now' \in Clock
    BY <1>0, <1>1 DEF Tick, Shape, Slots, Clock
  <2>2. ASSUME NEW s \in Slots
        PROVE  task'[s] \in TaskState
    <3>1. task'[s] = IF Executing(s) THEN [task[s] EXCEPT !.age = task[s].age + 1] ELSE task[s]
      BY <1>1 DEF Tick
    <3>2. Executing(s) => task[s].age + 1 \in 0 .. Timeout
      BY <1>0, <1>1 DEF Tick, Expired, TaskState
    <3> QED BY <1>0, <3>1, <3>2 DEF TaskState
  <2>3. task' \in [Slots -> TaskState]
    BY <1>1, <2>2 DEF Tick
  <2> QED BY <1>1, <2>1, <2>3 DEF Tick, Shape
<1>2. ASSUME NEW x \in Rows, Commit(x)
      PROVE  Shape'
  BY <1>2 DEF Commit, Shape
<1>3. ASSUME NEW x \in Rows, Request(x)
      PROVE  Shape'
  <2>1. AtRest("scheduled", 0) \in TaskState
    BY <1>0, AtRestShape DEF States
  <2> QED BY <1>3, <2>1 DEF Request, TaskSlot, Shape
<1>4. ASSUME NEW s \in Slots, Start(s)
      PROVE  Shape'
  <2>1. [task[s] EXCEPT !.state = "waiting"] \in TaskState
    BY <1>0 DEF TaskState, States
  <2> QED BY <1>4, <2>1 DEF Start, Shape
<1>5. ASSUME NEW s \in Slots, Acquire(s)
      PROVE  Shape'
  <2>1. 1 \in 1 .. Views
    BY <1>0
  <2>2. [task[s] EXCEPT !.state = "refreshing", !.view = 1] \in TaskState
    BY <1>0, <2>1 DEF TaskState, States
  <2> QED BY <1>5, <2>2 DEF Acquire, Shape
<1>6. ASSUME NEW s \in Slots, NotAcquired(s) \/ AcquireFails(s) \/ Crash(s)
      PROVE  Shape'
  BY <1>6, FailedShape DEF NotAcquired, AcquireFails, Crash, Shape
<1>7. ASSUME NEW s \in Slots, RefreshView(s)
      PROVE  Shape'
  <2>1. task[s].view + 1 \in 1 .. Views
    BY <1>0, <1>7 DEF RefreshView, TaskState
  <2>2. [task[s] EXCEPT !.view = task[s].view + 1] \in TaskState
    BY <1>0, <2>1 DEF TaskState, States
  <2>3. fresh' \in [1 .. Views -> SUBSET Rows]
    BY <1>7 DEF RefreshView, Shape
  <2> QED BY <1>7, <2>2, <2>3 DEF RefreshView, Shape
<1>8. ASSUME NEW s \in Slots, Released(s) \/ Release(s)
      PROVE  holder' \in Slots \cup {NoTask}
  BY <1>8 DEF Release, Released, Shape
<1>9. ASSUME NEW s \in Slots, Finish(s)
      PROVE  Shape'
  <2>1. Free \in TaskState
    BY <1>0, AtRestShape DEF Free, States
  <2>2. fresh' \in [1 .. Views -> SUBSET Rows]
    BY <1>9 DEF Finish, Shape
  <2> QED BY <1>8, <1>9, <2>1, <2>2 DEF Finish, Shape
<1>10. ASSUME NEW s \in Slots, RefreshFails(s)
       PROVE  Shape'
  BY <1>8, <1>10, FailedShape DEF RefreshFails, Shape
<1>11. CASE LeaseExpires
  BY <1>11 DEF LeaseExpires, Shape
<1>12. CASE UNCHANGED vars
  BY <1>12 DEF vars, Shape
<1> QED
  BY <1>1, <1>2, <1>3, <1>4, <1>5, <1>6, <1>7, <1>9, <1>10, <1>11, <1>12 DEF Next

\* The initial state has the shape.
LEMMA InitShape == Init => Shape
<1>1. Free \in TaskState
  BY AtRestShape DEF Free, States
<1> QED BY <1>1 DEF Init, Shape, Clock, NoSlot

--------------------------------------------------------------------------------
(* Type correctness.                                                       *)

\* What TypeOK says beyond Shape: a view holds committed rows only, and the
\* lease is never older than its TTL.
Bounds ==
  /\ fresh \in [1 .. Views -> SUBSET committed]
  /\ heldFor \in 0 .. LockTTL
  /\ overran \subseteq Slots

\* Every step keeps the bounds: Tick waits for a lease at its TTL to be dropped.
LEMMA BoundsStep == Shape /\ Bounds /\ [Next]_vars => Bounds'
<1> SUFFICES ASSUME Shape, Bounds, [Next]_vars
             PROVE  Bounds'
  OBVIOUS
<1>0. LockTTL \in Nat \ {0} /\ 0 \in 0 .. LockTTL
  BY RefreshAssumption
<1>1. CASE Tick
  <2>1. heldFor' \in 0 .. LockTTL
    BY <1>0, <1>1 DEF Tick, Bounds
  <2> QED BY <1>1, <2>1 DEF Tick, Bounds
<1>2. ASSUME NEW x \in Rows, Commit(x) \/ Request(x)
      PROVE  Bounds'
  BY <1>2 DEF Commit, Request, Bounds
<1>3. ASSUME NEW s \in Slots,
             Start(s) \/ Acquire(s) \/ NotAcquired(s) \/ AcquireFails(s) \/ Crash(s)
      PROVE  Bounds'
  BY <1>0, <1>3 DEF Start, Acquire, NotAcquired, AcquireFails, Crash, Bounds
<1>4. ASSUME NEW s \in Slots, RefreshView(s)
      PROVE  Bounds'
  BY <1>4 DEF RefreshView, Bounds
<1>5. ASSUME NEW s \in Slots, Finish(s)
      PROVE  Bounds'
  BY <1>5 DEF Finish, Release, Released, Bounds
<1>6. ASSUME NEW s \in Slots, RefreshFails(s)
      PROVE  Bounds'
  BY <1>6 DEF RefreshFails, Release, Released, Bounds
<1>7. CASE LeaseExpires
  BY <1>7 DEF LeaseExpires, Bounds, Shape
<1>8. CASE UNCHANGED vars
  BY <1>8 DEF vars, Bounds
<1> QED
  BY <1>1, <1>2, <1>3, <1>4, <1>5, <1>6, <1>7, <1>8 DEF Next

\* The variables keep their types: no execution outlives its deadline, no task
\* its retry budget, and no view holds a row that was not committed.
THEOREM TypeCorrect == Spec => []TypeOK
<1>1. Init => Bounds
  BY RefreshAssumption DEF Init, Bounds
<1>2. Shape /\ Bounds => TypeOK
  BY DEF Shape, Bounds, TypeOK
<1> QED BY <1>1, <1>2, InitShape, ShapeStep, BoundsStep, PTL DEF Spec

--------------------------------------------------------------------------------
(* Refreshes are serialised.                                               *)

\* The deferred release frees the lease of its own task only.
LEMMA ReleaseOwn ==
  ASSUME Shape, LeaseInv, NEW s \in Slots, Release(s), task'[s].state # "refreshing",
         \A u \in Slots : u # s => task'[u] = task[u]
  PROVE  LeaseInv'
BY DEF LeaseInv, Release, Released

\* Every step keeps the lease with whoever refreshes under it.
LEMMA LeaseStep == Shape /\ LeaseInv /\ [Next]_vars => LeaseInv'
<1> SUFFICES ASSUME Shape, LeaseInv, [Next]_vars
             PROVE  LeaseInv'
  OBVIOUS
<1>1. CASE Tick
  <2>1. \A s \in Slots : task'[s].state = task[s].state
    BY <1>1 DEF Tick, Shape, TaskState
  <2> QED BY <1>1, <2>1 DEF Tick, LeaseInv
<1>2. ASSUME NEW x \in Rows, Commit(x) \/ Request(x)
      PROVE  LeaseInv'
  <2>1. AtRest("scheduled", 0).state # "refreshing"
    BY DEF AtRest
  <2> QED BY <1>2, <2>1 DEF Commit, Request, LeaseInv, Shape, TaskSlot
<1>3. ASSUME NEW s \in Slots, Start(s) \/ Acquire(s) \/ RefreshView(s)
      PROVE  LeaseInv'
  BY <1>3 DEF Start, Acquire, RefreshView, LeaseInv, Shape, TaskState
<1>4. ASSUME NEW s \in Slots, NotAcquired(s) \/ AcquireFails(s) \/ Crash(s)
      PROVE  LeaseInv'
  <2>1. /\ task'[s].state # "refreshing" /\ \A u \in Slots : u # s => task'[u] = task[u]
    BY <1>4, FailedShape DEF NotAcquired, AcquireFails, Crash
  <2>2. holder' = holder /\ overran \ {s} \subseteq overran'
    BY <1>4 DEF NotAcquired, AcquireFails, Crash
  <2> QED BY <2>1, <2>2 DEF LeaseInv
<1>5. ASSUME NEW s \in Slots, Finish(s)
      PROVE  LeaseInv'
  <2>1. Free.state # "refreshing"
    BY DEF Free, AtRest
  <2>2. task'[s].state # "refreshing" /\ \A u \in Slots : u # s => task'[u] = task[u]
    BY <1>5, <2>1 DEF Finish, Shape
  <2> QED BY <1>5, <2>2, ReleaseOwn DEF Finish
<1>6. ASSUME NEW s \in Slots, RefreshFails(s)
      PROVE  LeaseInv'
  <2>1. task'[s].state # "refreshing" /\ \A u \in Slots : u # s => task'[u] = task[u]
    BY <1>6, FailedShape DEF RefreshFails
  <2> QED BY <1>6, <2>1, ReleaseOwn DEF RefreshFails
<1>7. CASE LeaseExpires
  BY <1>7 DEF LeaseExpires, LeaseInv
<1>8. CASE UNCHANGED vars
  BY <1>8 DEF vars, LeaseInv
<1> QED
  BY <1>1, <1>2, <1>3, <1>4, <1>5, <1>6, <1>7, <1>8 DEF Next

\* Two refreshes overlap only when a lease has expired under one of them.
THEOREM SerialisedCorrect == Spec => []Serialised
<1>1. Init => LeaseInv
  BY DEF Init, LeaseInv, Free, AtRest
<1>2. Shape /\ LeaseInv => Serialised
  <2> SUFFICES ASSUME LeaseInv, NEW s \in Slots, NEW u \in Slots, s # u,
                      task[s].state = "refreshing", task[u].state = "refreshing"
               PROVE  s \in overran \/ u \in overran
    BY DEF Serialised
  <2> QED BY DEF LeaseInv
<1> QED BY <1>1, <1>2, InitShape, ShapeStep, LeaseStep, PTL DEF Spec

--------------------------------------------------------------------------------
(* No acknowledged request is forgotten.                                   *)

\* The task will still refresh view v, or operators were told that it will not.
Answers(s, v) == Ahead(s, v) \/ task[s].state = "archived"

\* A step that makes no request keeps RequestInv if it keeps every task's answer
\* for the rows that a view does not hold yet.
LEMMA KeepRequests ==
  ASSUME Shape, Shape', RequestInv, slotOf' = slotOf, committed \subseteq committed', now <= now',
         \A v \in 1 .. Views : fresh[v] \subseteq fresh'[v],
         \A s \in Slots : Executing(s)' => s < now,
         \A s \in Slots : \A v \in 1 .. Views :
           Answers(s, v) => Answers(s, v)' \/ committed \subseteq fresh'[v]
  PROVE  RequestInv'
<1>1. ASSUME NEW s \in Slots, Executing(s)'
      PROVE  s < now'
  <2>1. s < now /\ s \in Int /\ now \in Int /\ now' \in Int
    BY <1>1, RefreshAssumption DEF Shape, Slots, Clock
  <2> QED BY <2>1
<1>2. ASSUME NEW x \in Rows, slotOf'[x] # NoSlot
      PROVE  /\ x \in committed'
             /\ \A v \in 1 .. Views :
                  x \in fresh'[v] \/ Ahead(slotOf[x], v)' \/ task'[slotOf'[x]].state = "archived"
  <2>1. x \in committed /\ slotOf[x] \in Slots /\ slotOf[x] # NoSlot
    BY <1>2 DEF RequestInv, Shape
  <2>2. ASSUME NEW v \in 1 .. Views
        PROVE  x \in fresh'[v] \/ Answers(slotOf[x], v)'
    <3>1. x \in fresh[v] \/ Answers(slotOf[x], v)
      BY <2>1 DEF RequestInv, NoRowForgotten, Answers
    <3> QED BY <2>1, <3>1
  <2> QED BY <2>1, <2>2 DEF Answers
<1> QED BY <1>1, <1>2 DEF RequestInv, NoRowForgotten

\* A failed execution starts over or is archived: its answers stand.
LEMMA FailedAnswers ==
  ASSUME Shape, NEW s \in Slots, Failed(s), NEW u \in Slots, NEW v \in 1 .. Views, Answers(u, v)
  PROVE  Answers(u, v)'
BY FailedShape DEF Answers, Ahead

\* Every step keeps RequestInv: a request finds its task before its first view.
LEMMA RequestStep == Shape /\ Shape' /\ RequestInv /\ [Next]_vars => RequestInv'
<1> SUFFICES ASSUME Shape, Shape', RequestInv, [Next]_vars
             PROVE  RequestInv'
  OBVIOUS
<1>0. /\ now <= now /\ now <= now + 1 /\ now \in Int /\ Views \in Nat
      /\ \A s \in Slots : task[s] \in TaskState
      /\ \A s \in Slots : Executing(s) => s < now
      /\ \A s \in Slots : s \in Int
  BY RefreshAssumption DEF Shape, Clock, RequestInv, Slots
<1>1. CASE Tick
  <2>1. \A s \in Slots : task'[s].state = task[s].state /\ task'[s].view = task[s].view
    BY <1>0, <1>1 DEF Tick, TaskState
  <2>2. now <= now'
    BY <1>0, <1>1 DEF Tick
  <2> QED BY <1>0, <1>1, <2>1, <2>2, KeepRequests DEF Tick, Executing, Answers, Ahead
<1>2. ASSUME NEW x \in Rows, Commit(x)
      PROVE  RequestInv'
  BY <1>0, <1>2, KeepRequests DEF Commit, Executing, Answers, Ahead
<1>3. ASSUME NEW x \in Rows, Request(x)
      PROVE  RequestInv'
  <2>1. now \in Slots /\ x \in committed /\ slotOf' = [slotOf EXCEPT ![x] = now]
        /\ committed' = committed /\ fresh' = fresh /\ now' = now
    BY <1>3 DEF Request, TaskSlot
  <2>2. task[now].state \notin {"waiting", "refreshing"}
    BY <1>0, <2>1 DEF Executing
  <2>3. task[now].state \in {"none", "scheduled", "archived"}
    BY <1>0, <2>1, <2>2 DEF TaskState, States
  <2>4. AtRest("scheduled", 0).state = "scheduled"
    BY DEF AtRest
  <2>5. task'[now].state \in {"scheduled", "archived"}
        /\ \A u \in Slots : task'[u] = task[u] \/ (task[u].state = "none" /\ task'[u].state = "scheduled")
    BY <1>3, <2>1, <2>3, <2>4 DEF Request, TaskSlot, Shape
  <2>6. ASSUME NEW y \in Rows, slotOf'[y] # NoSlot
        PROVE  /\ y \in committed'
               /\ \A v \in 1 .. Views :
                    y \in fresh'[v] \/ Ahead(slotOf[y], v)' \/ task'[slotOf'[y]].state = "archived"
    <3>1. CASE y = x
      <4>1. slotOf'[y] = now
        BY <2>1, <3>1 DEF Shape
      <4> QED BY <2>1, <2>5, <3>1, <4>1 DEF Ahead
    <3>2. CASE y # x
      <4>1. slotOf'[y] = slotOf[y] /\ slotOf[y] \in Slots
        BY <2>1, <2>6, <3>2 DEF Shape
      <4>2. y \in committed /\ \A v \in 1 .. Views :
              y \in fresh[v] \/ Ahead(slotOf[y], v) \/ task[slotOf[y]].state = "archived"
        BY <2>6, <4>1 DEF RequestInv, NoRowForgotten
      <4>3. task'[slotOf[y]] = task[slotOf[y]] \/ task'[slotOf[y]].state = "scheduled"
        BY <2>5, <4>1
      <4> QED BY <2>1, <4>1, <4>2, <4>3 DEF Ahead
    <3> QED BY <3>1, <3>2
  <2>7. \A s \in Slots : Executing(s)' => s < now'
    BY <1>0, <2>1, <2>5 DEF Executing
  <2> QED BY <2>6, <2>7 DEF RequestInv, NoRowForgotten
<1>4. ASSUME NEW s \in Slots, Start(s)
      PROVE  RequestInv'
  <2>1. task[s].state = "scheduled" /\ task'[s].state = "waiting"
        /\ \A u \in Slots : u # s => task'[u] = task[u]
    BY <1>0, <1>4 DEF Start, Shape, TaskState
  <2>2. \A u \in Slots : \A v \in 1 .. Views : Answers(u, v) => Answers(u, v)'
    BY <2>1 DEF Answers, Ahead
  <2> QED BY <1>0, <1>4, <2>1, <2>2, KeepRequests DEF Start, Due, Executing
<1>5. ASSUME NEW s \in Slots, Acquire(s)
      PROVE  RequestInv'
  <2>1. /\ task[s].state = "waiting" /\ task'[s].state = "refreshing" /\ task'[s].view = 1
        /\ \A u \in Slots : u # s => task'[u] = task[u]
    BY <1>0, <1>5 DEF Acquire, Shape, TaskState
  <2>2. \A u \in Slots : \A v \in 1 .. Views : Answers(u, v) => Answers(u, v)'
    BY <2>1 DEF Answers, Ahead
  <2> QED BY <1>0, <1>5, <2>1, <2>2, KeepRequests DEF Acquire, Executing
<1>6. ASSUME NEW s \in Slots, NotAcquired(s) \/ AcquireFails(s) \/ Crash(s) \/ RefreshFails(s)
      PROVE  RequestInv'
  <2>1. /\ Failed(s) /\ slotOf' = slotOf /\ committed' = committed /\ now' = now /\ fresh' = fresh
    BY <1>6 DEF NotAcquired, AcquireFails, Crash, RefreshFails
  <2>2. \A u \in Slots : Executing(u)' => u < now
    BY <1>0, <2>1, FailedShape DEF Executing
  <2>3. \A u \in Slots : \A v \in 1 .. Views : Answers(u, v) => Answers(u, v)'
    BY <2>1, FailedAnswers
  <2> QED BY <1>0, <2>1, <2>2, <2>3, KeepRequests
<1>7. ASSUME NEW s \in Slots, RefreshView(s)
      PROVE  RequestInv'
  <2> DEFINE w == task[s].view
  <2>1. w \in 1 .. Views /\ task[s].state = "refreshing"
    BY <1>0, <1>7 DEF RefreshView, TaskState
  <2>2. /\ task'[s].state = "refreshing" /\ task'[s].view = w + 1
        /\ \A u \in Slots : u # s => task'[u] = task[u]
    BY <1>0, <1>7 DEF RefreshView, Shape, TaskState
  <2>3. \A v \in 1 .. Views : fresh[v] \subseteq fresh'[v]
    BY <1>7, <2>1 DEF RefreshView, Shape
  <2>4. committed \subseteq fresh'[w]
    BY <1>7, <2>1 DEF RefreshView, Shape
  <2>5. ASSUME NEW u \in Slots, NEW v \in 1 .. Views, Answers(u, v)
        PROVE  Answers(u, v)' \/ committed \subseteq fresh'[v]
    <3>1. u = s /\ v # w => w + 1 <= v
      BY <1>0, <2>1, <2>5 DEF Answers, Ahead
    <3> QED BY <2>1, <2>2, <2>4, <2>5, <3>1 DEF Answers, Ahead
  <2>6. \A u \in Slots : Executing(u)' => u < now
    BY <1>0, <2>1, <2>2 DEF Executing
  <2> QED BY <1>0, <1>7, <2>3, <2>5, <2>6, KeepRequests DEF RefreshView
<1>8. ASSUME NEW s \in Slots, Finish(s)
      PROVE  RequestInv'
  <2>1. Views \in 1 .. Views /\ task[s].state = "refreshing" /\ task[s].view = Views
    BY <1>8, RefreshAssumption DEF Finish
  <2>2. /\ task'[s].state = "none" /\ \A u \in Slots : u # s => task'[u] = task[u]
    BY <1>8 DEF Finish, Shape, Free, AtRest
  <2>3. (\A v \in 1 .. Views : fresh[v] \subseteq fresh'[v]) /\ committed \subseteq fresh'[Views]
    BY <1>8, <2>1 DEF Finish, Shape
  <2>4. ASSUME NEW u \in Slots, NEW v \in 1 .. Views, Answers(u, v)
        PROVE  Answers(u, v)' \/ committed \subseteq fresh'[v]
    <3>1. u = s => v = Views
      BY <1>0, <2>1, <2>4 DEF Answers, Ahead
    <3> QED BY <2>2, <2>3, <2>4, <3>1 DEF Answers, Ahead
  <2>5. \A u \in Slots : Executing(u)' => u < now
    BY <1>0, <2>2 DEF Executing
  <2> QED BY <1>0, <1>8, <2>3, <2>4, <2>5, KeepRequests DEF Finish
<1>9. CASE LeaseExpires
  BY <1>0, <1>9, KeepRequests DEF LeaseExpires, Executing, Answers, Ahead
<1>10. CASE UNCHANGED vars
  BY <1>0, <1>10, KeepRequests DEF vars, Executing, Answers, Ahead
<1> QED
  BY <1>1, <1>2, <1>3, <1>4, <1>5, <1>6, <1>7, <1>8, <1>9, <1>10 DEF Next

\* No acknowledged request is swallowed by a task that has already passed a
\* view: ProcessIn keeps a slot's task from running while the slot lasts.
THEOREM RequestsCorrect == Spec => []NoRowForgotten
<1>1. Init => RequestInv
  BY DEF Init, RequestInv, Executing, NoRowForgotten, Free, AtRest
<1>2. RequestInv => NoRowForgotten
  BY DEF RequestInv
<1> QED BY <1>1, <1>2, InitShape, ShapeStep, RequestStep, PTL DEF Spec
================================================================================
