------------------------------- MODULE Ingestion -------------------------------
(***************************************************************************)
(* integration.fetch_readings for ONE stream (one analyzer, one reading    *)
(* kind load_profile): the asynq tasks that fetch it, the window each run  *)
(* resolves, the page loop that persists readings before it moves the      *)
(* ingestion cursor, the failure and crash paths, and the request for a    *)
(* consumption.refresh a run owes for the old readings it persisted.       *)
(*                                                                         *)
(* A reading is its timestamp.  Time is discrete; `now` is the wall clock  *)
(* and stops at MaxNow.  A page is half-open, [pos, end).                  *)
(***************************************************************************)
EXTENDS Integers

CONSTANTS
  Tasks,      \* slots for fetch_readings tasks of this stream in the queue
  NoTask,     \* nobody holds the Unique lock
  Live,       \* the cursor-driven payload: Window = nil
  MaxNow,     \* bound of the clock
  Lookback,   \* InitialLookback: how far back a first run starts
  RefreshAge, \* consumptionRefreshThreshold: older readings need a refresh
  PageSpan,   \* widest page: the adapter's MaxWindow chunk
  MaxPages,   \* MaxPagesPerRun
  Windows,    \* the explicit windows of a backfill, records [lo, hi]
  Mints,      \* task-id mints of a window: one plain id, one per Force run
  Faults      \* which faults occur: "fetch", "store", "hook", "enqueue", "crash"

Time == 0 .. MaxNow

Backfills == [win : Windows, mint : Mints]
Jobs == {Live} \cup Backfills

ASSUME IngestionAssumption ==
  /\ MaxNow \in Nat /\ Lookback \in Nat /\ RefreshAge \in Nat
  /\ PageSpan \in Nat \ {0} /\ MaxPages \in Nat \ {0}
  /\ Windows \subseteq [lo : Time, hi : Time]
  /\ Live \notin Backfills
  /\ NoTask \notin Tasks

VARIABLES
  now,      \* Clock.Now()
  avail,    \* the readings the provider serves (those Validate keeps)
  stored,   \* meter_readings
  cursor,   \* ingestion_cursors.last_ts, or NoTs
  task,     \* the tasks, with the local state of the run executing each
  uniq,     \* the task holding the Unique(1h) lock of the Live payload
  taken,    \* backfill task ids in use or retained
  (* history variables, read by no action's guard *)
  created,  \* the instant the cursor was created, or NoTs
  late,     \* readings published at or below the cursor, or behind a run
  owed      \* persisted old readings whose refresh request is still due

vars == <<now, avail, stored, cursor, task, uniq, taken, created, late, owed>>
history == <<created, late, owed>>

NoTs == -1

Phases == {"idle", "queued", "begun", "page", "persisted"}

\* One task: its payload, and the locals of its current run.
TaskState ==
  [ phase : Phases, job : Jobs,
    start : Time,            \* FetchReadings' `now`
    pos   : Time,            \* reqFrom
    to    : Time,
    adv   : BOOLEAN,         \* allowCursorAdvance
    pages : 0 .. MaxPages,
    page  : SUBSET Time,     \* the page's persisted rows, in phase "persisted"
    acc   : SUBSET Time,     \* the affected range of the accumulator
    profile : BOOLEAN ]      \* hasLoadProfile

Fresh(j) ==
  [ phase |-> "queued", job |-> j, start |-> 0, pos |-> 0, to |-> 0,
    adv |-> FALSE, pages |-> 0, page |-> {}, acc |-> {}, profile |-> FALSE ]

Idle == [Fresh(Live) EXCEPT !.phase = "idle"]

Running(r) == task[r].phase \in {"begun", "page", "persisted"}

Larger(a, b) == IF a < b THEN b ELSE a

\* now - InitialLookback, on a clock that starts at 0.
Back(t) == IF t > Lookback THEN t - Lookback ELSE 0

IsNewest(m, S) == m \in S /\ \A t \in S : t <= m

Init ==
  /\ now = 0 /\ avail = {} /\ stored = {}
  /\ cursor = NoTs
  /\ task = [r \in Tasks |-> Idle]
  /\ uniq = NoTask /\ taken = {}
  /\ created = NoTs /\ late = {} /\ owed = {}

--------------------------------------------------------------------------------
(* The environment: the clock and the provider.                            *)

Tick ==
  /\ now < MaxNow
  /\ now' = now + 1
  /\ UNCHANGED <<avail, stored, cursor, task, uniq, taken, history>>

\* A run that may move the cursor has asked for t already.
Passed(r, t) == task[r].phase \in {"page", "persisted"} /\ task[r].adv /\ t < task[r].pos

\* The provider starts to serve a reading taken at t, at any time after t.
Publish(t) ==
  /\ t <= now /\ t \notin avail
  /\ avail' = avail \cup {t}
  /\ late' = IF t <= cursor \/ \E r \in Tasks : Passed(r, t) THEN late \cup {t} ELSE late
  /\ UNCHANGED <<now, stored, cursor, task, uniq, taken, created, owed>>

--------------------------------------------------------------------------------
(* The queue.                                                              *)

\* SyncAnalyzers and RefreshAnalyzer: a Live task, unless its Unique lock is
\* held (ErrDuplicateTask, which both swallow).
EnqueueLive(r) ==
  /\ task[r].phase = "idle" /\ uniq = NoTask
  /\ task' = [task EXCEPT ![r] = Fresh(Live)]
  /\ uniq' = r
  /\ UNCHANGED <<now, avail, stored, cursor, taken, history>>

\* Backfill: a windowed task, unless its TaskID is live or retained.
EnqueueBackfill(r, b) ==
  /\ task[r].phase = "idle" /\ b \notin taken
  /\ b.win.lo < b.win.hi /\ b.win.hi <= now
  /\ task' = [task EXCEPT ![r] = Fresh(b)]
  /\ taken' = taken \cup {b}
  /\ UNCHANGED <<now, avail, stored, cursor, uniq, history>>

\* The lock's hour is over while its task is still queued, running or retrying.
UniqueExpires ==
  /\ uniq # NoTask
  /\ uniq' = NoTask
  /\ UNCHANGED <<now, avail, stored, cursor, task, taken, history>>

\* The task leaves the queue done: its Unique lock goes with it.
Finished(r) ==
  /\ task' = [task EXCEPT ![r] = Idle]
  /\ uniq' = IF uniq = r THEN NoTask ELSE uniq

\* The handler returned an error, or its worker died: asynq retries while it
\* may, and archives the task when it may not (SkipRetry, retries exhausted);
\* the retry budget itself is left out.  An archived task keeps its Unique lock
\* until the lock expires, and its task id.
Failed(r) ==
  /\ \/ task' = [task EXCEPT ![r] = Fresh(task[r].job)]
     \/ task' = [task EXCEPT ![r] = Idle]
  /\ UNCHANGED uniq

--------------------------------------------------------------------------------
(* The run.                                                                *)

\* A worker takes the task; `now` is read once, for the whole run.
Begin(r) ==
  /\ task[r].phase = "queued"
  /\ task' = [task EXCEPT ![r] = [@ EXCEPT !.phase = "begun", !.start = now]]
  /\ UNCHANGED <<now, avail, stored, cursor, uniq, taken, history>>

\* The gates before the window is resolved: an inactive analyzer ends the run
\* as a success that did nothing; every other gate fails it, and nothing is
\* recorded on the cursor.
Decline(r) ==
  /\ task[r].phase = "begun" /\ "store" \in Faults
  /\ Finished(r) \/ Failed(r)
  /\ UNCHANGED <<now, avail, stored, cursor, taken, history>>

\* MUTANT of WindowOf: an explicit window may create the cursor.
WindowMayCreate(j, start) ==
  IF j # Live
  THEN [from |-> j.win.lo, to |-> j.win.hi, adv |-> cursor = NoTs \/ cursor >= j.win.lo]
  ELSE [from |-> IF cursor # NoTs THEN cursor ELSE Back(start), to |-> start, adv |-> TRUE]

\* resolveFetchWindow.
WindowOf(j, start) ==
  IF j # Live
  THEN [from |-> j.win.lo, to |-> j.win.hi, adv |-> cursor # NoTs /\ cursor >= j.win.lo]
  ELSE [from |-> IF cursor # NoTs THEN cursor ELSE Back(start), to |-> start, adv |-> TRUE]

Resolve(r) ==
  LET w == WindowOf(task[r].job, task[r].start) IN
  /\ task[r].phase = "begun"
  /\ task' = [task EXCEPT ![r] = [@ EXCEPT !.phase = "page", !.pos = w.from, !.to = w.to,
                                           !.adv = w.adv]]
  /\ UNCHANGED <<now, avail, stored, cursor, uniq, taken, history>>

\* What the adapter answers for [pos, end).
Served(r, end) == {t \in avail : task[r].pos <= t /\ t < end}

\* Readings older than the refresh threshold of the run.
Aged(r, S) == {t \in S : t + RefreshAge < task[r].start}

\* MUTANT of FetchPage: no MaxPagesPerRun.
FetchPageUnbounded(r, end) ==
  LET rows == Served(r, end) IN
  /\ task[r].phase = "page"
  /\ task[r].pos < end /\ end <= task[r].to /\ end <= task[r].pos + PageSpan
  /\ stored' = stored \cup rows
  /\ task' = [task EXCEPT ![r] =
                [@ EXCEPT !.phase = IF rows = {} THEN "page" ELSE "persisted",
                          !.pos = end, !.pages = task[r].pages + 1, !.page = rows,
                          !.acc = task[r].acc \cup rows]]
  /\ owed' = owed \cup Aged(r, rows)
  /\ UNCHANGED <<now, avail, cursor, uniq, taken, created, late>>

\* One page: fetched, validated and bulk-inserted.  The adapter may stop short
\* of the chunk (NextCursor), never at or before pos.
FetchPage(r, end) ==
  LET rows == Served(r, end) IN
  /\ task[r].phase = "page" /\ task[r].pages < MaxPages
  /\ task[r].pos < end /\ end <= task[r].to /\ end <= task[r].pos + PageSpan
  /\ stored' = stored \cup rows
  /\ task' = [task EXCEPT ![r] =
                [@ EXCEPT !.phase = IF rows = {} THEN "page" ELSE "persisted",
                          !.pos = end, !.pages = task[r].pages + 1, !.page = rows,
                          !.acc = task[r].acc \cup rows]]
  /\ owed' = owed \cup Aged(r, rows)
  /\ UNCHANGED <<now, avail, cursor, uniq, taken, created, late>>

\* MUTANT of AdvanceCursor: the cursor moves once the window is exhausted.
AdvanceAtEnd(r) ==
  /\ task[r].phase = "persisted"
  /\ \E newest \in task[r].page :
       /\ IsNewest(newest, task[r].page)
       /\ cursor' = IF task[r].adv /\ task[r].pos >= task[r].to THEN Larger(cursor, newest) ELSE cursor
  /\ task' = [task EXCEPT ![r] = [@ EXCEPT !.phase = "page", !.page = {}, !.profile = TRUE]]
  /\ created' = IF task[r].adv /\ cursor = NoTs THEN now ELSE created
  /\ UNCHANGED <<now, avail, stored, uniq, taken, late, owed>>

\* After the hooks: the page's newest row moves the cursor, never backwards,
\* when the run may move it.
AdvanceCursor(r) ==
  /\ task[r].phase = "persisted"
  /\ \E newest \in task[r].page :
       /\ IsNewest(newest, task[r].page)
       /\ cursor' = IF task[r].adv THEN Larger(cursor, newest) ELSE cursor
  /\ task' = [task EXCEPT ![r] = [@ EXCEPT !.phase = "page", !.page = {}, !.profile = TRUE]]
  /\ created' = IF task[r].adv /\ cursor = NoTs THEN now ELSE created
  /\ UNCHANGED <<now, avail, stored, uniq, taken, late, owed>>

\* MUTANT of RequestRefresh: the threshold tests the newest row (affectedTo).
RequestRefreshNewest(r, profile) ==
  LET acc == task[r].acc
      due == profile /\ acc # {} /\ Aged(r, acc) = acc
      covered == {t \in Time : \E a, b \in acc : a <= t /\ t <= b}
  IN  \/ due /\ owed' = owed \ covered
      \/ due /\ "enqueue" \in Faults /\ owed' = owed \ acc
      \/ ~due /\ UNCHANGED owed

\* maybeEnqueueConsumptionRefresh with the accumulator's flag `profile`: the
\* range from the oldest to the newest row of acc, when some row is old
\* enough.  A failed enqueue is only logged: the run gives its rows up.
RequestRefresh(r, profile) ==
  LET acc == task[r].acc
      due == profile /\ Aged(r, acc) # {}
      covered == {t \in Time : \E a, b \in acc : a <= t /\ t <= b}
  IN  \/ due /\ owed' = owed \ covered
      \/ due /\ "enqueue" \in Faults /\ owed' = owed \ acc
      \/ ~due /\ UNCHANGED owed

\* The window is exhausted.
Complete(r) ==
  /\ task[r].phase = "page" /\ task[r].pos >= task[r].to
  /\ RequestRefresh(r, task[r].profile)
  /\ Finished(r)
  /\ UNCHANGED <<now, avail, stored, cursor, taken, created, late>>

\* failFetchRun: RecordFailure leaves last_ts alone, the rows persisted so far
\* still ask for their refresh, the error goes to asynq.  It is the provider, a
\* read or the insert, the page budget, or a write after the cursor's; a hook,
\* which leaves hasLoadProfile as the pages before set it; or a write between
\* the hooks and the cursor, which finds it set.
FailRun(r) ==
  /\ \/ /\ task[r].phase = "page"
        /\ \/ task[r].pages > 0 /\ "store" \in Faults
           \/ task[r].pos < task[r].to /\ ("fetch" \in Faults \/ task[r].pages = MaxPages)
        /\ RequestRefresh(r, task[r].profile)
     \/ task[r].phase = "persisted" /\ "hook" \in Faults
        /\ RequestRefresh(r, task[r].profile)
     \/ task[r].phase = "persisted" /\ "store" \in Faults
        /\ RequestRefresh(r, TRUE)
  /\ Failed(r)
  /\ UNCHANGED <<now, avail, stored, cursor, taken, created, late>>

\* The worker dies: the run's locals are gone, asynq's recoverer re-queues the
\* task or archives it; the request it owed is never made.
Crash(r) ==
  /\ "crash" \in Faults /\ Running(r)
  /\ owed' = owed \ task[r].acc
  /\ Failed(r)
  /\ UNCHANGED <<now, avail, stored, cursor, taken, created, late>>

--------------------------------------------------------------------------------

Next ==
  \/ Tick
  \/ \E t \in Time : Publish(t)
  \/ UniqueExpires
  \/ \E r \in Tasks :
       \/ EnqueueLive(r)
       \/ \E b \in Backfills : EnqueueBackfill(r, b)
       \/ Begin(r) \/ Decline(r) \/ Resolve(r)
       \/ \E end \in Time : FetchPage(r, end)
       \/ AdvanceCursor(r) \/ Complete(r) \/ FailRun(r) \/ Crash(r)

Spec == Init /\ [][Next]_vars

\* Time passes, the schedule keeps dispatching (strongly: backfills may hold the
\* slots for a while), the workers keep working, and no step that cursor-driven
\* runs come to for ever fails for ever: a window that is resolved, a page asked
\* for at the same position, a cursor that is to move to the same reading.
Fairness ==
  /\ WF_vars(Tick) /\ WF_vars(UniqueExpires)
  /\ SF_vars(\E r \in Tasks : EnqueueLive(r))
  /\ \A r \in Tasks : WF_vars(Begin(r) \/ FailRun(r) \/ Complete(r))
  /\ SF_vars(\E r \in Tasks : task[r].job = Live /\ Resolve(r))
  /\ \A p \in Time \ {MaxNow} :
       SF_vars(\E r \in Tasks : /\ task[r].job = Live /\ task[r].pos = p
                               /\ \E end \in Time : FetchPage(r, end))
  /\ \A p \in Time :
       SF_vars(\E r \in Tasks : /\ task[r].job = Live /\ IsNewest(p, task[r].page)
                               /\ AdvanceCursor(r))

FairSpec == Spec /\ Fairness

--------------------------------------------------------------------------------

TypeOK ==
  /\ now \in Time
  /\ avail \subseteq Time /\ stored \subseteq avail
  /\ cursor \in Time \cup {NoTs}
  /\ task \in [Tasks -> TaskState]
  /\ uniq \in Tasks \cup {NoTask}
  /\ taken \subseteq Backfills
  /\ created \in Time \cup {NoTs}
  /\ late \subseteq Time /\ owed \subseteq Time

\* Every reading in [a, b) that was served in time and is valid is stored.
Covered(a, b) == \A t \in avail \ late : (a <= t /\ t < b) => t \in stored

\* The cursor is a high-water mark without holes: since it exists, everything
\* from a full lookback before the instant it was created up to and including
\* it is stored (resolveFetchWindow's promise about gaps, recent-first backfills
\* and R18's lookback; persist-before-advance across crashes and retries).
CursorCoverage == cursor # NoTs => Covered(Back(created), cursor + 1)

\* The high-water mark never moves backwards, whichever of two overlapping
\* runs writes last (CursorRecordSuccess' greatest).
CursorMonotone == [][cursor' >= cursor]_cursor

\* No persisted old reading is left to a stale aggregate: either the run that
\* persisted it is still going to ask for the refresh, or a crash or a failed
\* enqueue has swallowed the request (fetch.go:468-471: a partial run "still
\* touched real buckets that need refreshing").
RefreshOwed ==
  \A t \in owed : \E r \in Tasks : Running(r) /\ t \in task[r].acc

\* From the cursor to t, MaxPages pages as short as they come lead from each
\* instant to a reading: no empty stretch uses up the budget of every run.
WithinBudget(t) ==
  \A u \in Time : (cursor <= u /\ u < t) => \E v \in avail : u < v /\ v < u + MaxPages /\ v <= t

\* Once the cursor exists, a valid reading above it that is served in time, and
\* that no empty stretch keeps out of the budget, is stored in the end: two
\* runs that overlap, backfills, spent budgets, failures and crashes, archived
\* tasks and expired locks never wedge the stream.
CatchesUp ==
  \A t \in Time \ {0, MaxNow} :
    (cursor # NoTs /\ cursor < t /\ t \in avail \ late /\ WithinBudget(t)) ~> (t \in stored)
================================================================================
