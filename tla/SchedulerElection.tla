---------------------------- MODULE SchedulerElection ----------------------------
(***************************************************************************)
(* The election of the one active scheduler: instances that campaign for a *)
(* Postgres session advisory lock, the term each winner leads (runTerm:    *)
(* the asynq scheduler whose crons enqueue every periodic job), and the    *)
(* monitor goroutine that pings the connection holding the lock, because   *)
(* Postgres grants the lock to another replica the moment its session ends. *)
(*                                                                         *)
(* Run's waits between attempts (the retry cadence and the backoff after   *)
(* consecutive failures) are untimed; the monitor's ticker and ping        *)
(* deadline are timed, in the unit of Tick.                                *)
(***************************************************************************)
EXTENDS Integers

CONSTANTS
  Instances,
  NoOne,      \* nobody holds the advisory lock
  Orphan,     \* a session holds it whose client has gone
  Watch,      \* min(retry, maxWatchInterval): ticker period and ping deadline
  Faults      \* which faults occur: "session", "query", "lead", "crash"

ASSUME ElectionAssumption ==
  /\ Watch \in Nat \ {0}
  /\ NoOne \notin Instances /\ Orphan \notin Instances /\ NoOne # Orphan

VARIABLES
  owner,    \* whose session holds the lock, on the server
  alive,    \* ctx of Run is not done
  phase,    \* where Run is: waiting, granted, leading or ending (attempt's defer)
  flag,     \* the atomic leader flag, IsLeader()
  leadCtx,  \* leadCtx is not done
  term,     \* runTerm: off, opening its Redis client, or with its crons running
  monitor,  \* the monitor goroutine
  beat,     \* time since its ticker last fired
  conn,     \* the connection of the attempt, as the network and server have it
  gone      \* history: how long the flag has been up on a lost connection

vars == <<owner, alive, phase, flag, leadCtx, term, monitor, beat, conn, gone>>

Phases == {"waiting", "granted", "leading", "ending"}
Terms == {"off", "opening", "running"}
Monitors == {"off", "watching", "pinging", "clearing", "done"}

\* A "cut" connection answers nobody, but its session lives on and holds the
\* lock; the session of a "dead" one has ended.
Conns == {"none", "up", "cut", "dead"}

\* The lock after i's session has handed it over to h.
HandedTo(i, h) == IF owner = i THEN h ELSE owner

Init ==
  /\ owner = NoOne
  /\ alive = [i \in Instances |-> TRUE]
  /\ phase = [i \in Instances |-> "waiting"]
  /\ flag = [i \in Instances |-> FALSE]
  /\ leadCtx = [i \in Instances |-> FALSE]
  /\ term = [i \in Instances |-> "off"]
  /\ monitor = [i \in Instances |-> "off"]
  /\ beat = [i \in Instances |-> 0]
  /\ conn = [i \in Instances |-> "none"]
  /\ gone = [i \in Instances |-> 0]

Timed(i) == monitor[i] \in {"watching", "pinging"}
Misled(i) == flag[i] /\ conn[i] # "up"

\* MUTANT of Overdue: the ping runs on ctx, without a deadline of its own.
PingUnbounded(i) == monitor[i] = "watching" /\ beat[i] = Watch

\* The ticker fires, or the ping's deadline passes, before time goes on.
Overdue(i) == Timed(i) /\ beat[i] = Watch

Tick ==
  /\ \A i \in Instances : ~Overdue(i)
  /\ beat' = [i \in Instances |-> IF Timed(i) THEN beat[i] + 1 ELSE beat[i]]
  /\ gone' = [i \in Instances |-> IF Misled(i) THEN gone[i] + 1 ELSE gone[i]]
  /\ UNCHANGED <<owner, alive, phase, flag, leadCtx, term, monitor, conn>>

--------------------------------------------------------------------------------
(* attempt: the campaign.                                                  *)

\* MUTANT of TryLock: the boolean of pg_try_advisory_lock is not looked at.
TryLockUnread(i) ==
  /\ phase[i] = "waiting" /\ alive[i]
  /\ owner' = HandedTo(NoOne, i)
  /\ phase' = [phase EXCEPT ![i] = "granted"]
  /\ conn' = [conn EXCEPT ![i] = "up"]
  /\ UNCHANGED <<alive, flag, leadCtx, term, monitor, beat, gone>>

\* pg_try_advisory_lock answers true.  When it answers false, or the query
\* fails before it is run, attempt returns and nothing has changed.
TryLock(i) ==
  /\ phase[i] = "waiting" /\ alive[i] /\ owner = NoOne
  /\ owner' = i
  /\ phase' = [phase EXCEPT ![i] = "granted"]
  /\ conn' = [conn EXCEPT ![i] = "up"]
  /\ UNCHANGED <<alive, flag, leadCtx, term, monitor, beat, gone>>

\* The server grants the lock, but the query fails on the way back: pgx closes
\* the connection and attempt reports an error.
GrantLost(i) ==
  /\ "query" \in Faults
  /\ phase[i] = "waiting" /\ alive[i] /\ owner = NoOne
  /\ owner' = Orphan
  /\ UNCHANGED <<alive, phase, flag, leadCtx, term, monitor, beat, conn, gone>>

\* The flag goes up, the monitor starts, and lead is called.
Lead(i) ==
  /\ phase[i] = "granted"
  /\ phase' = [phase EXCEPT ![i] = "leading"]
  /\ flag' = [flag EXCEPT ![i] = TRUE]
  /\ leadCtx' = [leadCtx EXCEPT ![i] = TRUE]
  /\ term' = [term EXCEPT ![i] = "opening"]
  /\ monitor' = [monitor EXCEPT ![i] = "watching"]
  /\ beat' = [beat EXCEPT ![i] = 0]
  /\ gone' = [gone EXCEPT ![i] = 0]
  /\ UNCHANGED <<owner, alive, conn>>
--------------------------------------------------------------------------------
(* runTerm, on leadCtx.                                                    *)

\* The term has its Redis client and its entries: the crons run.
TermStarts(i) ==
  /\ term[i] = "opening" /\ leadCtx[i]
  /\ term' = [term EXCEPT ![i] = "running"]
  /\ UNCHANGED <<owner, alive, phase, flag, leadCtx, monitor, beat, conn, gone>>

\* MUTANT of TermFails: attempt returns, and its deferred teardown is skipped.
TermFailsAtOnce(i) ==
  /\ term[i] = "opening" /\ ("lead" \in Faults \/ ~leadCtx[i])
  /\ term' = [term EXCEPT ![i] = "off"]
  /\ phase' = [phase EXCEPT ![i] = "waiting"]
  /\ UNCHANGED <<owner, alive, flag, leadCtx, monitor, beat, conn, gone>>

\* lead returns an error or panics before its crons run: Redis does not answer,
\* leadCtx is done, an entry does not register, Start fails.
TermFails(i) ==
  /\ term[i] = "opening" /\ ("lead" \in Faults \/ ~leadCtx[i])
  /\ term' = [term EXCEPT ![i] = "off"]
  /\ phase' = [phase EXCEPT ![i] = "ending"]
  /\ UNCHANGED <<owner, alive, flag, leadCtx, monitor, beat, conn, gone>>

\* leadCtx is done: the asynq scheduler shuts down, which stops the crons.
TermEnds(i) ==
  /\ term[i] = "running" /\ ~leadCtx[i]
  /\ term' = [term EXCEPT ![i] = "off"]
  /\ phase' = [phase EXCEPT ![i] = "ending"]
  /\ UNCHANGED <<owner, alive, flag, leadCtx, monitor, beat, conn, gone>>

--------------------------------------------------------------------------------
(* monitor.                                                                *)

\* monitorCtx is done: ctx is, or the teardown asks the monitor to stop.
Stopping(i) == ~alive[i] \/ phase[i] = "ending"

\* MUTANT of Cleared: leadCtx is cancelled while the flag is still up.
ClearedLate(i) ==
  /\ leadCtx' = [leadCtx EXCEPT ![i] = FALSE]
  /\ monitor' = [monitor EXCEPT ![i] = "clearing"]
  /\ UNCHANGED <<owner, alive, phase, flag, term, beat, gone>>

\* The monitor gives leadership up: the flag goes down before leadCtx does.
Cleared(i) ==
  /\ flag' = [flag EXCEPT ![i] = FALSE]
  /\ monitor' = [monitor EXCEPT ![i] = "clearing"]
  /\ UNCHANGED <<owner, alive, phase, leadCtx, term, beat, gone>>

PingStarts(i) ==
  /\ monitor[i] = "watching" /\ beat[i] = Watch
  /\ monitor' = [monitor EXCEPT ![i] = "pinging"]
  /\ beat' = [beat EXCEPT ![i] = 0]
  /\ UNCHANGED <<owner, alive, phase, flag, leadCtx, term, conn, gone>>

PingAnswered(i) ==
  /\ monitor[i] = "pinging" /\ conn[i] = "up"
  /\ monitor' = [monitor EXCEPT ![i] = "watching"]
  /\ UNCHANGED <<owner, alive, phase, flag, leadCtx, term, beat, conn, gone>>

\* The ping fails on a lost connection, at its deadline, or because its context
\* is done; in the last two cases pgx closes a connection that was still up.
PingFails(i) ==
  /\ monitor[i] = "pinging"
  /\ conn[i] # "up" \/ beat[i] = Watch \/ Stopping(i)
  /\ conn' = IF conn[i] = "up" THEN [conn EXCEPT ![i] = "cut"] ELSE conn
  /\ Cleared(i)

MonitorStops(i) ==
  /\ monitor[i] = "watching" /\ Stopping(i)
  /\ Cleared(i)
  /\ UNCHANGED conn

\* MUTANT of CancelLead: the monitor unlocks, before lead has returned.
CancelLeadUnlocked(i) ==
  /\ monitor[i] = "clearing"
  /\ leadCtx' = [leadCtx EXCEPT ![i] = FALSE]
  /\ monitor' = [monitor EXCEPT ![i] = "done"]
  /\ owner' = IF conn[i] = "up" THEN HandedTo(i, NoOne) ELSE owner
  /\ UNCHANGED <<alive, phase, flag, term, beat, conn, gone>>

CancelLead(i) ==
  /\ monitor[i] = "clearing"
  /\ leadCtx' = [leadCtx EXCEPT ![i] = FALSE]
  /\ monitor' = [monitor EXCEPT ![i] = "done"]
  /\ UNCHANGED <<owner, alive, phase, flag, term, beat, conn, gone>>

--------------------------------------------------------------------------------
(* attempt's deferred teardown, after lead has returned.                   *)

\* The attempt is over; what it held is as before it.
Over(i) ==
  /\ phase' = [phase EXCEPT ![i] = "waiting"]
  /\ flag' = [flag EXCEPT ![i] = FALSE]
  /\ leadCtx' = [leadCtx EXCEPT ![i] = FALSE]
  /\ term' = [term EXCEPT ![i] = "off"]
  /\ monitor' = [monitor EXCEPT ![i] = "off"]
  /\ beat' = [beat EXCEPT ![i] = 0]
  /\ conn' = [conn EXCEPT ![i] = "none"]
  /\ gone' = [gone EXCEPT ![i] = 0]

\* MUTANT of Unlock: the connection goes back to the pool with its lock.
UnlockPooled(i) ==
  /\ phase[i] = "ending" /\ monitor[i] = "done"
  /\ Over(i)
  /\ UNCHANGED <<owner, alive>>

\* <-monitorDone, then releaseAdvisoryLock.  On a lost connection, or when the
\* query fails, the lock stays with the session until that ends.
Unlock(i) ==
  /\ phase[i] = "ending" /\ monitor[i] = "done"
  /\ \/ conn[i] = "up" /\ owner' = HandedTo(i, NoOne)
     \/ (conn[i] # "up" \/ "query" \in Faults) /\ owner' = HandedTo(i, Orphan)
  /\ Over(i)
  /\ UNCHANGED alive

--------------------------------------------------------------------------------
(* The server, the network and the process.                                *)

\* The network loses the connection of a campaigner; nobody is told.
Cut(i) ==
  /\ "session" \in Faults /\ conn[i] = "up"
  /\ conn' = [conn EXCEPT ![i] = "cut"]
  /\ UNCHANGED <<owner, alive, phase, flag, leadCtx, term, monitor, beat, gone>>

\* The server ends the session, and with it its lock: an operator or a failover
\* does so at any time, the keepalive when the connection is lost.
SessionEnds(i) ==
  /\ conn[i] = "cut" \/ (conn[i] = "up" /\ "session" \in Faults)
  /\ conn' = [conn EXCEPT ![i] = "dead"]
  /\ owner' = HandedTo(i, NoOne)
  /\ UNCHANGED <<alive, phase, flag, leadCtx, term, monitor, beat, gone>>

OrphanEnds ==
  /\ owner = Orphan /\ owner' = NoOne
  /\ UNCHANGED <<alive, phase, flag, leadCtx, term, monitor, beat, conn, gone>>

\* SIGTERM: ctx is done.
Stop(i) ==
  /\ alive[i] /\ alive' = [alive EXCEPT ![i] = FALSE]
  /\ UNCHANGED <<owner, phase, flag, leadCtx, term, monitor, beat, conn, gone>>

\* The process dies, and is started again unless it was told to stop; its
\* session outlives it.
Crash(i) ==
  /\ "crash" \in Faults /\ phase[i] # "waiting"
  /\ owner' = HandedTo(i, Orphan)
  /\ Over(i)
  /\ UNCHANGED alive

--------------------------------------------------------------------------------

Next ==
  \/ Tick \/ OrphanEnds
  \/ \E i \in Instances :
       \/ TryLock(i) \/ GrantLost(i) \/ Lead(i)
       \/ TermStarts(i) \/ TermFails(i) \/ TermEnds(i)
       \/ PingStarts(i) \/ PingAnswered(i) \/ PingFails(i)
       \/ MonitorStops(i) \/ CancelLead(i) \/ Unlock(i)
       \/ Cut(i) \/ SessionEnds(i) \/ Stop(i) \/ Crash(i)

Spec == Init /\ [][Next]_vars

\* Time passes, goroutines run, the server ends the sessions whose client has
\* gone, and campaigning for ever, some attempt is answered and not crashed.
Fairness ==
  /\ WF_vars(Tick) /\ WF_vars(OrphanEnds)
  /\ SF_vars(\E i \in Instances : TryLock(i)) /\ SF_vars(\E i \in Instances : Lead(i))
  /\ \A i \in Instances :
       /\ WF_vars(SessionEnds(i) /\ conn[i] = "cut")
       /\ WF_vars(TermStarts(i) \/ TermFails(i)) /\ WF_vars(TermEnds(i))
       /\ WF_vars(PingStarts(i)) /\ WF_vars(PingAnswered(i) \/ PingFails(i))
       /\ WF_vars(MonitorStops(i)) /\ WF_vars(CancelLead(i)) /\ WF_vars(Unlock(i))

FairSpec == Spec /\ Fairness

--------------------------------------------------------------------------------

TypeOK ==
  /\ owner \in Instances \cup {NoOne, Orphan}
  /\ alive \in [Instances -> BOOLEAN]
  /\ phase \in [Instances -> Phases]
  /\ flag \in [Instances -> BOOLEAN]
  /\ leadCtx \in [Instances -> BOOLEAN]
  /\ term \in [Instances -> Terms]
  /\ monitor \in [Instances -> Monitors]
  /\ beat \in [Instances -> 0 .. Watch]
  /\ conn \in [Instances -> Conns]
  /\ gone \in [Instances -> Nat]

\* "Exactly one instance is active at a time" (the package comment), as far as
\* the lock can make it so: two instances run their crons together only when
\* the session of one of them has ended under it.
ActiveApart ==
  \A i, j \in Instances :
    i # j /\ term[i] = "running" /\ term[j] = "running"
      => conn[i] = "dead" \/ conn[j] = "dead"

\* An instance that has lost its connection reports leadership for two watch
\* intervals at most: one until the ticker fires, one until the ping gives up.
NoticedInTime == \A i \in Instances : Misled(i) => gone[i] <= 2 * Watch

\* lead never sees leadCtx done while IsLeader() still reports true (the
\* comment in attempt on why leadCtx is not derived from ctx).
FlagFirst ==
  \A i \in Instances : flag[i] => leadCtx[i]

\* attempt "always releases the advisory lock", whatever way lead returns: no
\* instance between two attempts still holds it.
LockNotLeaked == \A i \in Instances : owner = i => phase[i] # "waiting"

\* Leadership is taken over, again and again, as long as an instance is up.
TakenOver == []<>((\E i \in Instances : flag[i]) \/ (\A i \in Instances : ~alive[i]))

\* The election implements Leadership.  An instance acts while it reports
\* leadership or while its term is not over.
RoleOf(i) ==
  CASE phase[i] = "waiting" -> "out"
    [] phase[i] = "granted" -> "granted"
    [] phase[i] \in {"leading", "ending"} ->
         IF flag[i] \/ term[i] # "off" THEN "acting" ELSE "leaving"

RoleMap == [i \in Instances |-> RoleOf(i)]

Promise == INSTANCE Leadership WITH lock <- owner, role <- RoleMap

ImplementsLeadership == Promise!Spec
================================================================================
