---------------------------- MODULE IngestionProofs ----------------------------
(***************************************************************************)
(* Proofs about Ingestion, for every value of its constants: the typing,   *)
(* CursorCoverage, CursorMonotone, and RefreshOwed when no hook fails.     *)
(***************************************************************************)
EXTENDS Ingestion, TLAPS

Paging(r) == task[r].phase \in {"page", "persisted"}

\* Where the lookback of the stream starts: of the run while it may still be
\* the one that creates the cursor, of the creation afterwards.
Origin(r) == Back(IF cursor = NoTs THEN task[r].start ELSE created)

\* A run has begun by now; a page lies behind the run's position; everything
\* behind a run that may move the cursor is stored.
RunSound(r) ==
  /\ (task[r].phase = "begun" \/ Paging(r)) => task[r].start <= now
  /\ task[r].phase = "persisted" => \A t \in task[r].page : t < task[r].pos
  /\ (Paging(r) /\ task[r].adv) => Covered(Origin(r), task[r].pos)

CoverageInv == TypeOK /\ CursorCoverage /\ \A r \in Tasks : RunSound(r)

\* An owed reading is old for some run that is still paging and that will
\* find hasLoadProfile set when it ends.
OwedInv ==
  \A t \in owed : \E r \in Tasks :
    /\ Paging(r) /\ t \in Aged(r, task[r].acc)
    /\ task[r].phase = "persisted" \/ task[r].profile

--------------------------------------------------------------------------------
(* Typing.                                                                 *)

USE IngestionAssumption

\* A task that was just enqueued, or re-queued, and an idle slot are typed.
LEMMA FreshTyped ==
  ASSUME NEW j \in Jobs
  PROVE  Fresh(j) \in TaskState
BY DEF Fresh, TaskState, Phases, Time

\* A free slot is typed.
LEMMA IdleTyped == Idle \in TaskState
<1>1. Live \in Jobs
  BY DEF Jobs
<1> QED BY <1>1, FreshTyped DEF Idle, Fresh, TaskState, Phases

\* The two ends of a task keep the queue typed.
LEMMA QueueTyped ==
  ASSUME TypeOK, NEW r \in Tasks, Finished(r) \/ Failed(r)
  PROVE  task' \in [Tasks -> TaskState] /\ uniq' \in Tasks \cup {NoTask}
<1>1. task[r].job \in Jobs
  BY DEF TypeOK, TaskState
<1>2. Fresh(task[r].job) \in TaskState
  BY <1>1, FreshTyped
<1> QED BY <1>2, IdleTyped DEF TypeOK, Finished, Failed

\* The window of a run lies on the clock.
LEMMA WindowTyped ==
  ASSUME TypeOK, NEW r \in Tasks
  PROVE  /\ WindowOf(task[r].job, task[r].start).from \in Time
         /\ WindowOf(task[r].job, task[r].start).to \in Time
         /\ WindowOf(task[r].job, task[r].start).adv \in BOOLEAN
<1> DEFINE j == task[r].job
           n == task[r].start
<1>1. n \in Time /\ j \in Jobs
  BY DEF TypeOK, TaskState
<1>2. CASE j # Live
  <2>1. j.win \in [lo : Time, hi : Time]
    BY <1>1, <1>2 DEF Jobs, Backfills
  <2> QED BY <1>2, <2>1 DEF WindowOf
<1>3. CASE j = Live
  <2>1. Back(n) \in Time
    BY <1>1 DEF Back, Time
  <2> QED BY <1>1, <1>3, <2>1 DEF WindowOf, TypeOK
<1> QED BY <1>2, <1>3

\* Every step keeps the types: a run stays on the clock and within its page budget.
LEMMA TypeStep == TypeOK /\ [Next]_vars => TypeOK'
<1> SUFFICES ASSUME TypeOK, [Next]_vars
             PROVE  TypeOK'
  OBVIOUS
<1>1. CASE Tick
  BY <1>1 DEF TypeOK, Tick, history, Time
<1>2. ASSUME NEW t \in Time, Publish(t)
      PROVE  TypeOK'
  BY <1>2 DEF TypeOK, Publish
<1>3. CASE UniqueExpires
  BY <1>3 DEF TypeOK, UniqueExpires, history
<1>4. ASSUME NEW r \in Tasks, EnqueueLive(r)
      PROVE  TypeOK'
  <2>1. Fresh(Live) \in TaskState
    BY FreshTyped DEF Jobs
  <2> QED BY <1>4, <2>1 DEF TypeOK, EnqueueLive, history
<1>5. ASSUME NEW r \in Tasks, NEW b \in Backfills, EnqueueBackfill(r, b)
      PROVE  TypeOK'
  <2>1. Fresh(b) \in TaskState
    BY FreshTyped DEF Jobs
  <2> QED BY <1>5, <2>1 DEF TypeOK, EnqueueBackfill, history
<1>6. ASSUME NEW r \in Tasks, Begin(r)
      PROVE  TypeOK'
  <2>1. task[r] \in TaskState /\ now \in Time
    BY DEF TypeOK
  <2>2. [task[r] EXCEPT !.phase = "begun", !.start = now] \in TaskState
    BY <2>1 DEF TaskState, Phases
  <2> QED BY <1>6, <2>2 DEF TypeOK, Begin, history
<1>7. ASSUME NEW r \in Tasks, Decline(r)
      PROVE  TypeOK'
  BY <1>7, QueueTyped DEF TypeOK, Decline, history
<1>8. ASSUME NEW r \in Tasks, Resolve(r)
      PROVE  TypeOK'
  <2> DEFINE w == WindowOf(task[r].job, task[r].start)
  <2>1. task[r] \in TaskState /\ w.from \in Time /\ w.to \in Time /\ w.adv \in BOOLEAN
    BY WindowTyped DEF TypeOK
  <2>2. [task[r] EXCEPT !.phase = "page", !.pos = w.from, !.to = w.to, !.adv = w.adv]
           \in TaskState
    <3> HIDE DEF w
    <3> QED BY <2>1 DEF TaskState, Phases
  <2> QED BY <1>8, <2>2 DEF TypeOK, Resolve, history
<1>9. ASSUME NEW r \in Tasks, NEW end \in Time, FetchPage(r, end)
      PROVE  TypeOK'
  <2>1. Served(r, end) \subseteq Time
    BY DEF TypeOK, Served
  <2>2. task[r] \in TaskState /\ task[r].pages + 1 \in 0 .. MaxPages
    BY <1>9 DEF TypeOK, FetchPage, TaskState
  <2> DEFINE locals == [task[r] EXCEPT
                !.phase = IF Served(r, end) = {} THEN "page" ELSE "persisted",
                !.pos = end, !.pages = task[r].pages + 1, !.page = Served(r, end),
                !.acc = task[r].acc \cup Served(r, end)]
  <2>3. locals \in TaskState
    BY <2>1, <2>2 DEF TaskState, Phases
  <2>4. task' = [task EXCEPT ![r] = locals]
    BY <1>9 DEF FetchPage
  <2>5. task' \in [Tasks -> TaskState]
    <3> HIDE DEF locals
    <3> QED BY <2>3, <2>4 DEF TypeOK
  <2> QED BY <1>9, <2>1, <2>5 DEF TypeOK, FetchPage, Served, Aged
<1>10. ASSUME NEW r \in Tasks, AdvanceCursor(r)
       PROVE  TypeOK'
  <2>1. [task[r] EXCEPT !.phase = "page", !.page = {}, !.profile = TRUE] \in TaskState
    <3>1. task[r] \in TaskState
      BY DEF TypeOK
    <3>2. "page" \in Phases
      BY DEF Phases
    <3> QED BY <3>1, <3>2 DEF TaskState
  <2>2. task' \in [Tasks -> TaskState]
    BY <1>10, <2>1 DEF TypeOK, AdvanceCursor
  <2>3. cursor' \in Time \cup {NoTs}
    <3>1. PICK newest \in task[r].page :
            cursor' = IF task[r].adv THEN Larger(cursor, newest) ELSE cursor
      BY <1>10 DEF AdvanceCursor
    <3>2. newest \in Time
      BY <3>1 DEF TypeOK, TaskState
    <3> QED BY <3>1, <3>2 DEF TypeOK, Larger
  <2> QED BY <1>10, <2>2, <2>3 DEF TypeOK, AdvanceCursor
<1>11. ASSUME NEW r \in Tasks, NEW p, RequestRefresh(r, p)
       PROVE  owed' \subseteq Time
  BY <1>11 DEF TypeOK, RequestRefresh
<1>12. ASSUME NEW r \in Tasks, Complete(r)
       PROVE  TypeOK'
  BY <1>12, <1>11, QueueTyped DEF TypeOK, Complete
<1>13. ASSUME NEW r \in Tasks, FailRun(r)
       PROVE  TypeOK'
  BY <1>13, <1>11, QueueTyped DEF TypeOK, FailRun
<1>14. ASSUME NEW r \in Tasks, Crash(r)
       PROVE  TypeOK'
  BY <1>14, QueueTyped DEF TypeOK, Crash
<1>15. CASE UNCHANGED vars
  BY <1>15 DEF TypeOK, vars
<1> QED
  BY <1>1, <1>2, <1>3, <1>4, <1>5, <1>6, <1>7, <1>8, <1>9, <1>10, <1>12, <1>13, <1>14,
     <1>15 DEF Next

\* The initial state is typed.
LEMMA InitTyped == Init => TypeOK
BY IdleTyped DEF Init, TypeOK, Time

\* Every variable, the locals of every run included, keeps its type.
THEOREM TypeCorrect == Spec => []TypeOK
BY InitTyped, TypeStep, PTL DEF Spec

--------------------------------------------------------------------------------
(* The cursor is a high-water mark without holes.                          *)

\* A later instant does not start its lookback earlier.
LEMMA BackMonotone ==
  ASSUME NEW a \in Int, NEW b \in Int, a <= b
  PROVE  Back(a) <= Back(b) /\ Back(a) \in Int /\ Back(b) \in Int
BY DEF Back

\* A run that a step leaves alone stays sound, when the clock and the stored
\* readings only grow, the cursor's creation is recorded, and no reading that
\* counts appears behind the run.
LEMMA UntouchedSound ==
  ASSUME CoverageInv, TypeOK', NEW r \in Tasks,
         now <= now', stored \subseteq stored',
         cursor # NoTs => (cursor' # NoTs /\ created' = created),
         cursor = NoTs => (cursor' = NoTs \/ now <= created'),
         \A t \in avail' \ late' :
           t \in avail \ late \/ ((Paging(r) /\ task[r].adv) => task[r].pos <= t),
         task'[r] = task[r]
  PROVE  RunSound(r)'
<1>1. RunSound(r)
  BY DEF CoverageInv
<1>2. /\ task[r] \in TaskState /\ now \in Int /\ now' \in Int
      /\ task[r].start \in Int /\ task[r].pos \in Int
      /\ created \in Int /\ created' \in Int
  BY DEF CoverageInv, TypeOK, TaskState, Time, NoTs
<1>3. ASSUME Paging(r), task[r].adv
      PROVE  Covered(Origin(r), task[r].pos)'
  <2>1. /\ Origin(r) <= Origin(r)'
        /\ Origin(r) \in Int /\ Origin(r)' \in Int
    <3>1. task[r].start <= now
      BY <1>1, <1>3 DEF RunSound
    <3> QED BY <1>2, <3>1, BackMonotone DEF Origin
  <2> SUFFICES ASSUME NEW t \in avail' \ late', Origin(r)' <= t, t < task'[r].pos
               PROVE  t \in stored'
    BY DEF Covered
  <2>2. t \in Int /\ t < task[r].pos
    BY DEF TypeOK, Time
  <2>3. t \in avail \ late
    BY <1>2, <1>3, <2>2
  <2>4. Origin(r) <= t
    BY <2>1, <2>2
  <2>5. Covered(Origin(r), task[r].pos)
    BY <1>1, <1>3 DEF RunSound
  <2> QED BY <2>2, <2>3, <2>4, <2>5 DEF Covered
<1> QED BY <1>2, <1>1, <1>3 DEF RunSound, Paging

\* Nothing but the clock, the coverage or a run under way can break soundness:
\* enqueueing, ending, failing and crashing leave it alone.
LEMMA QueueSound ==
  ASSUME CoverageInv, TypeOK', UNCHANGED <<now, avail, stored, cursor, created, late>>,
         \A s \in Tasks : task'[s] = task[s] \/ task'[s].phase \in {"idle", "queued"}
  PROVE  CoverageInv'
<1>1. CursorCoverage'
  BY DEF CoverageInv, CursorCoverage, Covered
<1>2. ASSUME NEW s \in Tasks
      PROVE  RunSound(s)'
  <2>1. CASE task'[s] = task[s]
    <3>1. now <= now'
      BY DEF CoverageInv, TypeOK, Time
    <3> QED BY <2>1, <3>1, UntouchedSound
  <2>2. CASE task'[s].phase \in {"idle", "queued"}
    BY <2>2 DEF RunSound, Paging
  <2> QED BY <1>2, <2>1, <2>2
<1> QED BY <1>1, <1>2 DEF CoverageInv

\* The two ends of a task free its slot or queue it again.
LEMMA EndedPhase ==
  ASSUME TypeOK, NEW r \in Tasks, Finished(r) \/ Failed(r), NEW s \in Tasks
  PROVE  task'[s] = task[s] \/ task'[s].phase \in {"idle", "queued"}
BY DEF TypeOK, Finished, Failed, Fresh, Idle, TaskState

\* Every step keeps the coverage of the cursor and of every run that may move it.
LEMMA CoverageStep == CoverageInv /\ [Next]_vars => CoverageInv'
<1> SUFFICES ASSUME CoverageInv, [Next]_vars
             PROVE  CoverageInv'
  OBVIOUS
<1> USE DEF CoverageInv
<1>0. TypeOK'
  BY TypeStep
<1>1. CASE Tick
  <2>1. now <= now'
    BY <1>1 DEF Tick, TypeOK, Time
  <2>2. CursorCoverage'
    BY <1>1 DEF Tick, history, CursorCoverage, Covered
  <2>3. \A s \in Tasks : RunSound(s)'
    BY <1>0, <1>1, <2>1, UntouchedSound DEF Tick, history
  <2> QED BY <1>0, <2>2, <2>3
<1>2. ASSUME NEW t \in Time, Publish(t)
      PROVE  CoverageInv'
  <2>1. cursor \in Int /\ t \in Int
    BY DEF TypeOK, Time, NoTs
  <2>2. CursorCoverage'
    <3> SUFFICES ASSUME cursor # NoTs, NEW u \in avail' \ late', Back(created) <= u,
                        u < cursor + 1
                 PROVE  u \in stored
      BY <1>2 DEF Publish, CursorCoverage, Covered
    <3>1. CASE u = t
      BY <1>2, <2>1, <3>1 DEF Publish
    <3>2. CASE u # t
      BY <1>2, <3>2 DEF Publish, CursorCoverage, Covered
    <3> QED BY <3>1, <3>2
  <2>3. ASSUME NEW s \in Tasks
        PROVE  RunSound(s)'
    <3>1. task[s].pos \in Int /\ now <= now'
      BY <1>2 DEF Publish, TypeOK, TaskState, Time
    <3>2. ASSUME NEW u \in avail' \ late', u \notin avail \ late, Paging(s), task[s].adv
          PROVE  task[s].pos <= u
      BY <1>2, <2>1, <3>1, <3>2 DEF Publish, Passed, Paging
    <3> QED BY <1>0, <1>2, <3>1, <3>2, UntouchedSound DEF Publish
  <2> QED BY <1>0, <2>2, <2>3
<1>3. CASE UniqueExpires
  BY <1>0, <1>3, QueueSound DEF UniqueExpires, history
<1>4. ASSUME NEW r \in Tasks, EnqueueLive(r)
      PROVE  CoverageInv'
  BY <1>0, <1>4, QueueSound DEF EnqueueLive, history, Fresh, TypeOK
<1>5. ASSUME NEW r \in Tasks, NEW b \in Backfills, EnqueueBackfill(r, b)
      PROVE  CoverageInv'
  BY <1>0, <1>5, QueueSound DEF EnqueueBackfill, history, Fresh, TypeOK
<1>6. ASSUME NEW r \in Tasks, Begin(r)
      PROVE  CoverageInv'
  <2>1. CursorCoverage'
    BY <1>6 DEF Begin, history, CursorCoverage, Covered
  <2>2. ASSUME NEW s \in Tasks
        PROVE  RunSound(s)'
    <3>1. CASE s = r
      <4>1. task'[s].phase = "begun" /\ task'[s].start <= now'
        BY <1>6, <3>1 DEF Begin, history, TypeOK, TaskState, Time
      <4> QED BY <4>1 DEF RunSound, Paging
    <3>2. CASE s # r
      <4>1. task'[s] = task[s] /\ now <= now'
        BY <1>6, <3>2 DEF Begin, history, TypeOK, Time
      <4> QED BY <1>0, <1>6, <4>1, UntouchedSound DEF Begin, history
    <3> QED BY <3>1, <3>2
  <2> QED BY <1>0, <2>1, <2>2
<1>7. ASSUME NEW r \in Tasks, Decline(r)
      PROVE  CoverageInv'
  BY <1>0, <1>7, QueueSound, EndedPhase DEF Decline, history
<1>8. ASSUME NEW r \in Tasks, Resolve(r)
      PROVE  CoverageInv'
  <2>1. CursorCoverage'
    BY <1>8 DEF Resolve, history, CursorCoverage, Covered
  <2>2. ASSUME NEW s \in Tasks
        PROVE  RunSound(s)'
    <3>1. CASE s = r
      <4> DEFINE w == WindowOf(task[r].job, task[r].start)
      <4>1. task[r] \in TaskState /\ w.from \in Int
        BY WindowTyped DEF TypeOK, Time
      <4>2. /\ task'[r].phase = "page" /\ task'[r].start = task[r].start
            /\ task'[r].pos = w.from /\ task'[r].adv = w.adv
        <5>1. task' = [task EXCEPT ![r] = [task[r] EXCEPT !.phase = "page", !.pos = w.from,
                                                          !.to = w.to, !.adv = w.adv]]
          BY <1>8 DEF Resolve
        <5> HIDE DEF w
        <5> QED BY <5>1, <4>1 DEF TypeOK, TaskState
      <4>3. task[r].start <= now
        BY <1>8 DEF Resolve, RunSound
      <4>4. ASSUME w.adv
            PROVE  Covered(Origin(r)', w.from)
        <5>1. CASE cursor = NoTs
          <6>1. task[r].job = Live
            BY <4>4, <5>1 DEF WindowOf
          <6>2. w.from = Back(task[r].start)
            BY <5>1, <6>1 DEF WindowOf
          <6>3. Origin(r)' = Back(task[r].start)
            BY <1>8, <4>2, <5>1 DEF Resolve, history, Origin
          <6> QED BY <4>1, <6>2, <6>3 DEF Covered, TypeOK, Time
        <5>2. CASE cursor # NoTs
          <6>1. w.from <= cursor /\ cursor \in Int
            <7>1. cursor \in Int
              BY DEF TypeOK, Time, NoTs
            <7>2. CASE task[r].job = Live
              BY <5>2, <7>1, <7>2 DEF WindowOf
            <7>3. CASE task[r].job # Live
              <8>1. w.adv = (cursor # NoTs /\ cursor >= task[r].job.win.lo)
                BY <7>3 DEF WindowOf
              <8>2. w.from = task[r].job.win.lo
                BY <7>3 DEF WindowOf
              <8> QED BY <4>1, <4>4, <7>1, <8>1, <8>2
            <7> QED BY <7>1, <7>2, <7>3
          <6>2. Origin(r)' = Back(created)
            BY <1>8, <5>2 DEF Resolve, history, Origin
          <6>3. Covered(Back(created), cursor + 1)
            BY <5>2 DEF CursorCoverage
          <6> HIDE DEF w
          <6> QED BY <4>1, <6>1, <6>2, <6>3 DEF Covered, TypeOK, Time
        <5> QED BY <5>1, <5>2
      <4>5. task'[r].adv => Covered(Origin(r), task[r].pos)'
        <5> HIDE DEF w
        <5> QED BY <1>8, <4>2, <4>4 DEF Resolve, history, Covered
      <4> QED BY <1>8, <3>1, <4>2, <4>3, <4>5 DEF RunSound, Paging, Resolve, history
    <3>2. CASE s # r
      <4>1. task'[s] = task[s] /\ now <= now'
        BY <1>8, <3>2 DEF Resolve, history, TypeOK, Time
      <4> QED BY <1>0, <1>8, <4>1, UntouchedSound DEF Resolve, history
    <3> QED BY <3>1, <3>2
  <2> QED BY <1>0, <2>1, <2>2
<1>9. ASSUME NEW r \in Tasks, NEW end \in Time, FetchPage(r, end)
      PROVE  CoverageInv'
  <2>1. CursorCoverage'
    BY <1>9 DEF FetchPage, CursorCoverage, Covered
  <2>2. ASSUME NEW s \in Tasks
        PROVE  RunSound(s)'
    <3>1. CASE s = r
      <4>1. task[r] \in TaskState /\ task[r].phase = "page"
        BY <1>9 DEF FetchPage, TypeOK
      <4>2. /\ task'[r].phase \in {"page", "persisted"} /\ task'[r].start = task[r].start
            /\ task'[r].pos = end /\ task'[r].adv = task[r].adv
            /\ task'[r].page = Served(r, end)
        BY <1>9, <4>1 DEF FetchPage, TypeOK, TaskState
      <4>3. task[r].start <= now
        BY <4>1 DEF RunSound, Paging
      <4>4. ASSUME task[r].adv
            PROVE  Covered(Origin(r), task[r].pos)'
        <5> SUFFICES ASSUME NEW t \in avail \ late, Origin(r) <= t, t < end
                     PROVE  t \in stored'
          BY <1>9, <4>2 DEF FetchPage, Covered, Origin
        <5>1. CASE t < task[r].pos
          BY <1>9, <4>1, <4>4, <5>1 DEF FetchPage, RunSound, Paging, Covered
        <5>2. CASE ~(t < task[r].pos)
          <6>1. task[r].pos <= t
            BY <4>1, <5>2 DEF TypeOK, TaskState, Time
          <6>2. t \in Served(r, end)
            BY <6>1 DEF Served
          <6> QED BY <1>9, <6>2 DEF FetchPage
        <5> QED BY <5>1, <5>2
      <4> QED BY <1>9, <3>1, <4>2, <4>3, <4>4 DEF RunSound, Paging, FetchPage, Served
    <3>2. CASE s # r
      <4>1. task'[s] = task[s] /\ now <= now' /\ stored \subseteq stored'
        BY <1>9, <3>2 DEF FetchPage, TypeOK, Time
      <4> QED BY <1>0, <1>9, <4>1, UntouchedSound DEF FetchPage
    <3> QED BY <3>1, <3>2
  <2> QED BY <1>0, <2>1, <2>2
<1>10. ASSUME NEW r \in Tasks, AdvanceCursor(r)
       PROVE  CoverageInv'
  <2>1. /\ task[r] \in TaskState /\ task[r].phase = "persisted"
        /\ cursor \in Int /\ now \in Int /\ created \in Int
    BY <1>10 DEF AdvanceCursor, TypeOK, Time, NoTs
  <2>2. PICK newest \in task[r].page :
          cursor' = IF task[r].adv THEN Larger(cursor, newest) ELSE cursor
    BY <1>10 DEF AdvanceCursor
  <2>3. /\ newest \in Time /\ newest \in Int /\ newest < task[r].pos
        /\ task[r].pos \in Int /\ task[r].start <= now /\ task[r].start \in Int
    BY <2>1, <2>2 DEF TaskState, RunSound, Paging, Time
  <2>4. cursor # NoTs => cursor' # NoTs /\ created' = created
    BY <1>10, <2>1, <2>2, <2>3 DEF AdvanceCursor, Larger, NoTs, Time, TypeOK
  <2>5. cursor = NoTs => cursor' = NoTs \/ (task[r].adv /\ created' = now)
    BY <1>10, <2>2 DEF AdvanceCursor
  <2>6. CursorCoverage'
    <3> SUFFICES ASSUME cursor' # NoTs, NEW t \in avail \ late,
                        Back(created') <= t, t < cursor' + 1
                 PROVE  t \in stored
      BY <1>10 DEF AdvanceCursor, CursorCoverage, Covered
    <3>1. t \in Int
      <4>1. t \in Time
        BY DEF TypeOK
      <4> QED BY <4>1 DEF Time
    <3>2. CASE cursor # NoTs /\ t < cursor + 1
      BY <2>4, <3>2 DEF CursorCoverage, Covered
    <3>3. CASE task[r].adv /\ t < newest + 1
      <4>1. t < task[r].pos /\ Covered(Origin(r), task[r].pos)
        BY <2>1, <2>3, <3>1, <3>3 DEF RunSound, Paging
      <4>2. Origin(r) <= t
        BY <2>1, <2>3, <2>4, <2>5, <3>1, BackMonotone DEF Origin
      <4> QED BY <4>1, <4>2 DEF Covered
    <3> QED BY <2>1, <2>2, <2>3, <3>1, <3>2, <3>3 DEF Larger, NoTs, Time
  <2>7. ASSUME NEW s \in Tasks
        PROVE  RunSound(s)'
    <3>1. CASE s # r
      <4>1. task'[s] = task[s] /\ now <= now' /\ now <= now
        BY <1>10, <2>1, <3>1 DEF AdvanceCursor, TypeOK
      <4> QED BY <1>0, <1>10, <2>4, <2>5, <4>1, UntouchedSound DEF AdvanceCursor
    <3>2. CASE s = r
      <4>1. /\ task'[r].phase = "page" /\ task'[r].start = task[r].start
            /\ task'[r].pos = task[r].pos /\ task'[r].adv = task[r].adv
        BY <1>10, <2>1 DEF AdvanceCursor, TypeOK, TaskState
      <4>2. ASSUME task[r].adv
            PROVE  Covered(Origin(r), task[r].pos)'
        <5>1. Origin(r) <= Origin(r)' /\ Origin(r) \in Int /\ Origin(r)' \in Int
          BY <2>1, <2>3, <2>4, <2>5, <4>1, BackMonotone DEF Origin
        <5>2. \A t \in avail : t \in Int
          <6>1. avail \subseteq Time
            BY DEF TypeOK
          <6>2. Time \subseteq Int
            BY DEF Time
          <6> QED BY <6>1, <6>2
        <5> SUFFICES ASSUME NEW t \in avail \ late, Origin(r)' <= t, t < task[r].pos
                     PROVE  t \in stored
          BY <1>10, <4>1 DEF AdvanceCursor, Covered
        <5>3. Origin(r) <= t
          BY <5>1, <5>2
        <5> QED BY <2>1, <4>2, <5>3 DEF RunSound, Paging, Covered
      <4> QED BY <1>10, <2>3, <3>2, <4>1, <4>2 DEF RunSound, Paging, AdvanceCursor
    <3> QED BY <3>1, <3>2
  <2> QED BY <1>0, <2>6, <2>7
<1>11. ASSUME NEW r \in Tasks, Complete(r)
       PROVE  CoverageInv'
  BY <1>0, <1>11, QueueSound, EndedPhase DEF Complete
<1>12. ASSUME NEW r \in Tasks, FailRun(r)
       PROVE  CoverageInv'
  BY <1>0, <1>12, QueueSound, EndedPhase DEF FailRun
<1>13. ASSUME NEW r \in Tasks, Crash(r)
       PROVE  CoverageInv'
  BY <1>0, <1>13, QueueSound, EndedPhase DEF Crash
<1>14. CASE UNCHANGED vars
  BY <1>0, <1>14, QueueSound DEF vars
<1> QED
  BY <1>1, <1>2, <1>3, <1>4, <1>5, <1>6, <1>7, <1>8, <1>9, <1>10, <1>11, <1>12, <1>13,
     <1>14 DEF Next

\* The cursor is a high-water mark without holes, whatever the number of
\* overlapping runs, the lookback, the page sizes and the faults.
THEOREM CoverageCorrect == Spec => []CursorCoverage
<1>1. Init => CoverageInv
  <2> SUFFICES ASSUME Init
               PROVE  CoverageInv
    OBVIOUS
  <2>1. TypeOK
    BY InitTyped
  <2>2. CursorCoverage
    BY DEF Init, CursorCoverage
  <2>3. ASSUME NEW s \in Tasks
        PROVE  RunSound(s)
    BY DEF Init, RunSound, Paging, Idle, Fresh
  <2> QED BY <2>1, <2>2, <2>3 DEF CoverageInv
<1>2. CoverageInv => CursorCoverage
  BY DEF CoverageInv
<1> QED BY <1>1, <1>2, CoverageStep, PTL DEF Spec

\* The high-water mark never moves backwards, whichever run writes last.
THEOREM MonotoneCorrect == Spec => CursorMonotone
<1>1. TypeOK /\ [Next]_vars => [cursor' >= cursor]_cursor
  <2> SUFFICES ASSUME TypeOK, [Next]_vars
               PROVE  [cursor' >= cursor]_cursor
    OBVIOUS
  <2>1. ASSUME NEW r \in Tasks, AdvanceCursor(r)
        PROVE  [cursor' >= cursor]_cursor
    <3>1. PICK newest \in task[r].page :
            cursor' = IF task[r].adv THEN Larger(cursor, newest) ELSE cursor
      BY <2>1 DEF AdvanceCursor
    <3>2. newest \in Int /\ cursor \in Int
      BY <3>1 DEF TypeOK, TaskState, Time, NoTs
    <3> QED BY <3>1, <3>2 DEF Larger
  <2>2. CASE UNCHANGED cursor
    BY <2>2
  <2> QED
    BY <2>1, <2>2
       DEF Next, vars, history, Tick, Publish, UniqueExpires, EnqueueLive, EnqueueBackfill,
           Begin, Decline, Resolve, FetchPage, Complete, FailRun, Crash
<1> QED BY <1>1, TypeCorrect, PTL DEF Spec, CursorMonotone

--------------------------------------------------------------------------------
(* No refresh is forgotten, unless a hook fails.                           *)

\* A run the step leaves alone keeps what it owes.
LEMMA OwedKept ==
  ASSUME OwedInv, NEW r \in Tasks, owed' \subseteq owed,
         \A s \in Tasks : s # r => task'[s] = task[s],
         \/ ~Paging(r) \/ ~(task[r].phase = "persisted" \/ task[r].profile)
         \/ \A t \in owed' : t \notin Aged(r, task[r].acc)
  PROVE  OwedInv'
<1> SUFFICES ASSUME NEW t \in owed'
             PROVE  \E s \in Tasks : /\ Paging(s)' /\ t \in Aged(s, task[s].acc)'
                                     /\ task'[s].phase = "persisted" \/ task'[s].profile
  BY DEF OwedInv
<1>1. PICK s \in Tasks : /\ Paging(s) /\ t \in Aged(s, task[s].acc)
                         /\ task[s].phase = "persisted" \/ task[s].profile
  BY DEF OwedInv
<1>2. s # r
  BY <1>1
<1>3. task'[s] = task[s]
  BY <1>2
<1> QED BY <1>1, <1>3 DEF Paging, Aged

\* A request that is made, or whose enqueue fails, settles all the run owes.
LEMMA RequestSettles ==
  ASSUME TypeOK, NEW r \in Tasks, NEW p \in BOOLEAN, RequestRefresh(r, p)
  PROVE  /\ owed' \subseteq owed
         /\ p => \A t \in owed' : t \notin Aged(r, task[r].acc)
<1>1. task[r].acc \subseteq Time
  BY DEF TypeOK, TaskState
<1>2. ASSUME p, NEW t \in owed', t \in Aged(r, task[r].acc)
      PROVE  FALSE
  <2>1. t \in Time /\ t \in task[r].acc /\ t <= t
    BY <1>1, <1>2 DEF Aged, Time
  <2> QED BY <1>2, <2>1 DEF RequestRefresh
<1>3. owed' \subseteq owed
  BY DEF RequestRefresh
<1> QED BY <1>2, <1>3

\* The slots other than r keep their tasks when r's task ends.
LEMMA EndsAlone ==
  ASSUME TypeOK, NEW r \in Tasks, Finished(r) \/ Failed(r)
  PROVE  \A s \in Tasks : s # r => task'[s] = task[s]
BY DEF TypeOK, Finished, Failed

\* Every step but a failing hook keeps every debt with a run that will settle it.
LEMMA OwedStep ==
  ASSUME "hook" \notin Faults
  PROVE  TypeOK /\ OwedInv /\ [Next]_vars => OwedInv'
<1> SUFFICES ASSUME TypeOK, OwedInv, [Next]_vars
             PROVE  OwedInv'
  OBVIOUS
<1>1. ASSUME UNCHANGED <<task, owed>>
      PROVE  OwedInv'
  BY <1>1 DEF OwedInv, Paging, Aged
<1>2. ASSUME NEW r \in Tasks, ~Paging(r), UNCHANGED owed,
             \A s \in Tasks : s # r => task'[s] = task[s]
      PROVE  OwedInv'
  <2>1. owed' \subseteq owed
    BY <1>2
  <2> QED BY <1>2, <2>1, OwedKept
<1>3. CASE Tick \/ (\E t \in Time : Publish(t)) \/ UniqueExpires \/ UNCHANGED vars
  BY <1>1, <1>3 DEF Tick, Publish, UniqueExpires, vars, history
<1>4. ASSUME NEW r \in Tasks, EnqueueLive(r) \/ \E b \in Backfills : EnqueueBackfill(r, b)
      PROVE  OwedInv'
  BY <1>2, <1>4 DEF EnqueueLive, EnqueueBackfill, history, Paging, TypeOK
<1>5. ASSUME NEW r \in Tasks, Begin(r) \/ Resolve(r)
      PROVE  OwedInv'
  BY <1>2, <1>5 DEF Begin, Resolve, history, Paging, TypeOK
<1>6. ASSUME NEW r \in Tasks, Decline(r)
      PROVE  OwedInv'
  BY <1>2, <1>6, EndsAlone DEF Decline, history, Paging
<1>7. ASSUME NEW r \in Tasks, NEW end \in Time, FetchPage(r, end)
      PROVE  OwedInv'
  <2>1. task[r] \in TaskState /\ task[r].phase = "page"
    BY <1>7 DEF FetchPage, TypeOK
  <2>2. /\ task'[r].phase = IF Served(r, end) = {} THEN "page" ELSE "persisted"
        /\ task'[r].start = task[r].start /\ task'[r].profile = task[r].profile
        /\ task'[r].acc = task[r].acc \cup Served(r, end)
    BY <1>7, <2>1 DEF FetchPage, TypeOK, TaskState
  <2>3. \A s \in Tasks : s # r => task'[s] = task[s]
    BY <1>7 DEF FetchPage, TypeOK
  <2> SUFFICES ASSUME NEW t \in owed'
               PROVE  \E s \in Tasks : /\ Paging(s)' /\ t \in Aged(s, task[s].acc)'
                                       /\ task'[s].phase = "persisted" \/ task'[s].profile
    BY DEF OwedInv
  <2>4. CASE t \in Aged(r, Served(r, end))
    <3>1. Paging(r)' /\ t \in Aged(r, task[r].acc)' /\ task'[r].phase = "persisted"
      BY <2>2, <2>4 DEF Paging, Aged
    <3> QED BY <3>1
  <2>5. CASE t \in owed
    <3>1. PICK s \in Tasks : /\ Paging(s) /\ t \in Aged(s, task[s].acc)
                             /\ task[s].phase = "persisted" \/ task[s].profile
      BY <2>5 DEF OwedInv
    <3>2. CASE s = r
      BY <2>1, <2>2, <3>1, <3>2 DEF Paging, Aged
    <3>3. CASE s # r
      BY <2>3, <3>1, <3>3 DEF Paging, Aged
    <3> QED BY <3>2, <3>3
  <2> QED BY <1>7, <2>4, <2>5 DEF FetchPage
<1>8. ASSUME NEW r \in Tasks, AdvanceCursor(r)
      PROVE  OwedInv'
  <2>1. task[r] \in TaskState /\ task[r].phase = "persisted" /\ owed' = owed
    BY <1>8 DEF AdvanceCursor, TypeOK
  <2>2. /\ task'[r].phase = "page" /\ task'[r].profile
        /\ task'[r].start = task[r].start /\ task'[r].acc = task[r].acc
    BY <1>8, <2>1 DEF AdvanceCursor, TypeOK, TaskState
  <2>3. \A s \in Tasks : s # r => task'[s] = task[s]
    BY <1>8 DEF AdvanceCursor, TypeOK
  <2> SUFFICES ASSUME NEW t \in owed
               PROVE  \E s \in Tasks : /\ Paging(s)' /\ t \in Aged(s, task[s].acc)'
                                       /\ task'[s].phase = "persisted" \/ task'[s].profile
    BY <2>1 DEF OwedInv
  <2>4. PICK s \in Tasks : /\ Paging(s) /\ t \in Aged(s, task[s].acc)
                           /\ task[s].phase = "persisted" \/ task[s].profile
    BY DEF OwedInv
  <2>5. CASE s = r
    BY <2>2, <2>4, <2>5 DEF Paging, Aged
  <2>6. CASE s # r
    BY <2>3, <2>4, <2>6 DEF Paging, Aged
  <2> QED BY <2>5, <2>6
<1>9. ASSUME NEW r \in Tasks, Complete(r)
      PROVE  OwedInv'
  <2>1. task[r].profile \in BOOLEAN
    BY DEF TypeOK, TaskState
  <2>2. /\ owed' \subseteq owed
        /\ task[r].profile => \A t \in owed' : t \notin Aged(r, task[r].acc)
    BY <1>9, <2>1, RequestSettles DEF Complete
  <2>3. \A s \in Tasks : s # r => task'[s] = task[s]
    BY <1>9, EndsAlone DEF Complete
  <2>4. task[r].phase = "page"
    BY <1>9 DEF Complete
  <2> QED BY <2>2, <2>3, <2>4, OwedKept
<1>10. ASSUME NEW r \in Tasks, FailRun(r)
       PROVE  OwedInv'
  <2>1. \A s \in Tasks : s # r => task'[s] = task[s]
    BY <1>10, EndsAlone DEF FailRun
  <2>2. CASE task[r].phase = "page" /\ RequestRefresh(r, task[r].profile)
    <3>1. task[r].profile \in BOOLEAN
      BY DEF TypeOK, TaskState
    <3>2. /\ owed' \subseteq owed
          /\ task[r].profile => \A t \in owed' : t \notin Aged(r, task[r].acc)
      BY <2>2, <3>1, RequestSettles
    <3> QED BY <2>1, <2>2, <3>2, OwedKept
  <2>3. CASE task[r].phase = "persisted" /\ RequestRefresh(r, TRUE)
    <3>1. owed' \subseteq owed /\ \A t \in owed' : t \notin Aged(r, task[r].acc)
      BY <2>3, RequestSettles
    <3> QED BY <2>1, <3>1, OwedKept
  <2> QED BY <1>10, <2>2, <2>3 DEF FailRun
<1>11. ASSUME NEW r \in Tasks, Crash(r)
       PROVE  OwedInv'
  <2>1. owed' \subseteq owed /\ \A t \in owed' : t \notin Aged(r, task[r].acc)
    BY <1>11 DEF Crash, Aged
  <2>2. \A s \in Tasks : s # r => task'[s] = task[s]
    BY <1>11, EndsAlone DEF Crash
  <2> QED BY <2>1, <2>2, OwedKept
<1> QED
  BY <1>3, <1>4, <1>5, <1>6, <1>7, <1>8, <1>9, <1>10, <1>11 DEF Next

\* When no hook fails, no old reading a run persisted is left without the
\* refresh of its bucket, but for a crash or a failed enqueue.
THEOREM RefreshOwedCorrect ==
  ASSUME "hook" \notin Faults
  PROVE  Spec => []RefreshOwed
<1>1. Init => OwedInv
  BY DEF Init, OwedInv
<1>2. OwedInv => RefreshOwed
  BY DEF OwedInv, RefreshOwed, Paging, Running, Aged
<1>3. TypeOK /\ OwedInv /\ [Next]_vars => OwedInv'
  BY OwedStep
<1> QED BY <1>1, <1>2, <1>3, TypeCorrect, PTL DEF Spec

================================================================================
