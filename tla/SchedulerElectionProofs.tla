------------------------- MODULE SchedulerElectionProofs -------------------------
(***************************************************************************)
(* Proofs about SchedulerElection, for every set of instances, every watch *)
(* interval and every choice of faults: its invariants, and that it        *)
(* implements Leadership.                                                  *)
(***************************************************************************)
EXTENDS SchedulerElection, TLAPS

USE ElectionAssumption

\* The lock and the connection: an attempt whose session lives holds the lock,
\* and nobody else does.
LockInv(i) ==
  /\ owner = i => phase[i] # "waiting"
  /\ phase[i] # "waiting" /\ conn[i] \in {"up", "cut"} => owner = i
  /\ phase[i] # "waiting" => conn[i] # "none"

\* Where attempt, lead and the monitor can be at the same time.
ThreadInv(i) ==
  /\ term[i] # "off" <=> phase[i] = "leading"
  /\ monitor[i] = "off" <=> phase[i] \in {"waiting", "granted"}
  /\ flag[i] <=> Timed(i)
  /\ leadCtx[i] <=> (Timed(i) \/ monitor[i] = "clearing")

\* How long the monitor has been unaware of a lost connection.
WatchInv(i) ==
  flag[i] =>
    /\ conn[i] = "up" => gone[i] = 0
    /\ monitor[i] = "watching" => gone[i] <= beat[i]
    /\ monitor[i] = "pinging" => gone[i] <= Watch + beat[i]

ElectionInv ==
  /\ TypeOK
  /\ \A i \in Instances : LockInv(i) /\ ThreadInv(i) /\ WatchInv(i)

--------------------------------------------------------------------------------
(* The invariant.                                                          *)

\* The initial state satisfies the invariant.
LEMMA InitElection == Init => ElectionInv
BY DEF Init, ElectionInv, TypeOK, Phases, Terms, Monitors, Conns, LockInv, ThreadInv, WatchInv,
       Timed

\* Every step keeps the variables in their types.
LEMMA TypeStep == ElectionInv /\ [Next]_vars => TypeOK'
<1> SUFFICES ASSUME ElectionInv, [Next]_vars
             PROVE  TypeOK'
  OBVIOUS
<1> USE DEF TypeOK, Phases, Terms, Monitors, Conns, HandedTo
<1>0. TypeOK /\ Watch \in Nat \ {0} /\ 0 \in 0 .. Watch
  BY DEF ElectionInv
<1>1. CASE Tick
  <2>1. beat' \in [Instances -> 0 .. Watch]
    <3>1. \A i \in Instances : Timed(i) => beat[i] + 1 \in 0 .. Watch
      BY <1>0, <1>1 DEF Tick, Overdue
    <3> QED BY <1>0, <1>1, <3>1 DEF Tick
  <2>2. gone' \in [Instances -> Nat]
    <3>1. \A i \in Instances : gone[i] + 1 \in Nat
      BY <1>0
    <3> QED BY <1>0, <1>1, <3>1 DEF Tick
  <2> QED BY <1>0, <1>1, <2>1, <2>2 DEF Tick
<1>2. CASE OrphanEnds
  BY <1>0, <1>2 DEF OrphanEnds
<1>3. ASSUME NEW i \in Instances, TryLock(i)
      PROVE  TypeOK'
  BY <1>0, <1>3 DEF TryLock
<1>4. ASSUME NEW i \in Instances, GrantLost(i)
      PROVE  TypeOK'
  BY <1>0, <1>4 DEF GrantLost
<1>5. ASSUME NEW i \in Instances, Lead(i)
      PROVE  TypeOK'
  BY <1>0, <1>5 DEF Lead
<1>6. ASSUME NEW i \in Instances, TermStarts(i) \/ TermFails(i) \/ TermEnds(i)
      PROVE  TypeOK'
  BY <1>0, <1>6 DEF TermStarts, TermFails, TermEnds
<1>7. ASSUME NEW i \in Instances, PingStarts(i)
      PROVE  TypeOK'
  BY <1>0, <1>7 DEF PingStarts
<1>8. ASSUME NEW i \in Instances, PingAnswered(i) \/ CancelLead(i)
      PROVE  TypeOK'
  BY <1>0, <1>8 DEF PingAnswered, CancelLead
<1>9. ASSUME NEW i \in Instances, PingFails(i) \/ MonitorStops(i)
      PROVE  TypeOK'
  <2>1. conn' \in [Instances -> Conns]
    BY <1>0, <1>9 DEF PingFails, MonitorStops
  <2>2. Cleared(i)
    BY <1>9 DEF PingFails, MonitorStops
  <2> QED BY <1>0, <2>1, <2>2 DEF Cleared
<1>10. ASSUME NEW i \in Instances, Unlock(i) \/ Crash(i)
       PROVE  TypeOK'
  <2>1. Over(i) /\ owner' \in Instances \cup {NoOne, Orphan} /\ alive' = alive
    BY <1>0, <1>10 DEF Unlock, Crash
  <2> QED BY <1>0, <2>1 DEF Over
<1>11. ASSUME NEW i \in Instances, Cut(i) \/ SessionEnds(i) \/ Stop(i)
       PROVE  TypeOK'
  BY <1>0, <1>11 DEF Cut, SessionEnds, Stop
<1>12. CASE UNCHANGED vars
  BY <1>0, <1>12 DEF vars
<1> QED
  BY <1>1, <1>2, <1>3, <1>4, <1>5, <1>6, <1>7, <1>8, <1>9, <1>10, <1>11, <1>12 DEF Next

\* What the invariant says of one instance.
Sound(i) == LockInv(i) /\ ThreadInv(i) /\ WatchInv(i)

\* Every step keeps every instance sound.
LEMMA SoundStep ==
  ASSUME ElectionInv, [Next]_vars, NEW j \in Instances
  PROVE  Sound(j)'
<1>0. TypeOK /\ Sound(j) /\ Watch \in Nat \ {0}
  BY DEF ElectionInv, Sound
<1>00. beat[j] \in 0 .. Watch /\ gone[j] \in Nat /\ beat[j] \in Int /\ conn[j] \in Conns
  BY <1>0 DEF TypeOK
<1> USE DEF Sound, LockInv, ThreadInv, WatchInv, Timed
<1>1. CASE Tick
  BY <1>0, <1>00, <1>1 DEF Tick, Misled, TypeOK, Overdue
<1>2. CASE OrphanEnds
  BY <1>0, <1>2 DEF OrphanEnds
<1>3. ASSUME NEW i \in Instances, TryLock(i)
      PROVE  Sound(j)'
  BY <1>0, <1>3 DEF TryLock, TypeOK
<1>4. ASSUME NEW i \in Instances, GrantLost(i)
      PROVE  Sound(j)'
  BY <1>0, <1>4 DEF GrantLost
<1>5. ASSUME NEW i \in Instances, Lead(i)
      PROVE  Sound(j)'
  BY <1>0, <1>5 DEF Lead, TypeOK
<1>6. ASSUME NEW i \in Instances, TermStarts(i) \/ TermFails(i) \/ TermEnds(i)
      PROVE  Sound(j)'
  BY <1>0, <1>6 DEF TermStarts, TermFails, TermEnds, TypeOK
<1>7. ASSUME NEW i \in Instances, PingStarts(i)
      PROVE  Sound(j)'
  BY <1>0, <1>00, <1>7 DEF PingStarts, TypeOK
<1>8. ASSUME NEW i \in Instances, PingAnswered(i)
      PROVE  Sound(j)'
  BY <1>0, <1>00, <1>8 DEF PingAnswered, TypeOK
<1>9. ASSUME NEW i \in Instances, PingFails(i) \/ MonitorStops(i)
      PROVE  Sound(j)'
  <2>1. Cleared(i) /\ (monitor[i] \in {"pinging", "watching"}) /\ owner' = owner
        /\ conn' \in {conn, [conn EXCEPT ![i] = "cut"]}
        /\ (conn' = conn \/ conn[i] = "up")
    BY <1>9 DEF PingFails, MonitorStops, Cleared
  <2> QED BY <1>0, <2>1 DEF Cleared, TypeOK
<1>10. ASSUME NEW i \in Instances, CancelLead(i)
       PROVE  Sound(j)'
  BY <1>0, <1>10 DEF CancelLead, TypeOK
<1>11. ASSUME NEW i \in Instances, Unlock(i) \/ Crash(i)
       PROVE  Sound(j)'
  <2>1. Over(i) /\ owner' \in {HandedTo(i, NoOne), HandedTo(i, Orphan)}
    BY <1>11 DEF Unlock, Crash
  <2>2. owner' # i /\ (i # j => (owner' = j <=> owner = j))
    BY <2>1, ElectionAssumption DEF HandedTo
  <2> QED BY <1>0, <2>1, <2>2 DEF Over, TypeOK
<1>12. ASSUME NEW i \in Instances, Cut(i)
       PROVE  Sound(j)'
  BY <1>0, <1>00, <1>12 DEF Cut, TypeOK
<1>13. ASSUME NEW i \in Instances, SessionEnds(i)
       PROVE  Sound(j)'
  BY <1>0, <1>00, <1>13 DEF SessionEnds, TypeOK, HandedTo
<1>14. ASSUME NEW i \in Instances, Stop(i)
       PROVE  Sound(j)'
  BY <1>0, <1>14 DEF Stop
<1>15. CASE UNCHANGED vars
  BY <1>0, <1>15 DEF vars
<1> QED
  BY <1>1, <1>2, <1>3, <1>4, <1>5, <1>6, <1>7, <1>8, <1>9, <1>10, <1>11, <1>12, <1>13, <1>14,
     <1>15 DEF Next

\* Every step keeps the invariant.
LEMMA ElectionStep == ElectionInv /\ [Next]_vars => ElectionInv'
BY TypeStep, SoundStep DEF ElectionInv, Sound

--------------------------------------------------------------------------------
(* What it implies.                                                        *)

\* The variables keep their types.
THEOREM TypeCorrect == Spec => []TypeOK
<1>1. ElectionInv => TypeOK
  BY DEF ElectionInv
<1> QED BY <1>1, InitElection, ElectionStep, PTL DEF Spec

\* Two instances run their crons together only when the session of one of them
\* has ended under it.
THEOREM ActiveApartCorrect == Spec => []ActiveApart
<1>1. ElectionInv => ActiveApart
  <2> SUFFICES ASSUME ElectionInv, NEW i \in Instances, NEW j \in Instances, i # j,
                      term[i] = "running", term[j] = "running"
               PROVE  conn[i] = "dead" \/ conn[j] = "dead"
    BY DEF ActiveApart
  <2>1. phase[i] = "leading" /\ phase[j] = "leading"
    BY DEF ElectionInv, ThreadInv
  <2> QED BY <2>1 DEF ElectionInv, LockInv, TypeOK, Conns
<1> QED BY <1>1, InitElection, ElectionStep, PTL DEF Spec

\* A lost connection is noticed within two watch intervals.
THEOREM NoticedCorrect == Spec => []NoticedInTime
<1>1. ElectionInv => NoticedInTime
  <2> SUFFICES ASSUME ElectionInv, NEW i \in Instances, flag[i], conn[i] # "up"
               PROVE  gone[i] <= 2 * Watch
    BY DEF NoticedInTime, Misled
  <2>1. beat[i] \in 0 .. Watch /\ gone[i] \in Nat /\ Watch \in Nat
    BY ElectionAssumption DEF ElectionInv, TypeOK
  <2>2. gone[i] <= beat[i] \/ gone[i] <= Watch + beat[i]
    BY DEF ElectionInv, ThreadInv, WatchInv, Timed
  <2> QED BY <2>1, <2>2
<1> QED BY <1>1, InitElection, ElectionStep, PTL DEF Spec

\* lead never sees its context done while the flag is up.
THEOREM FlagFirstCorrect == Spec => []FlagFirst
<1>1. ElectionInv => FlagFirst
  BY DEF ElectionInv, ThreadInv, FlagFirst
<1> QED BY <1>1, InitElection, ElectionStep, PTL DEF Spec

\* No instance keeps the lock between two attempts.
THEOREM LockNotLeakedCorrect == Spec => []LockNotLeaked
<1>1. ElectionInv => LockNotLeaked
  BY DEF ElectionInv, LockInv, LockNotLeaked
<1> QED BY <1>1, InitElection, ElectionStep, PTL DEF Spec

--------------------------------------------------------------------------------
(* The election implements Leadership.                                     *)

\* A step that changes the role of one instance changes the map there.
LEMMA RoleChange ==
  ASSUME NEW i \in Instances, \A j \in Instances \ {i} : RoleOf(j)' = RoleOf(j)
  PROVE  RoleMap' = [RoleMap EXCEPT ![i] = RoleOf(i)']
BY DEF RoleMap

\* A step that changes no role leaves the map alone.
LEMMA RoleKept ==
  ASSUME \A j \in Instances : RoleOf(j)' = RoleOf(j)
  PROVE  RoleMap' = RoleMap
BY DEF RoleMap

\* The initial state is one of Leadership.
LEMMA PromiseInit == Init => Promise!Init
BY DEF Init, Promise!Init, RoleMap, RoleOf

\* Every step is a step of Leadership, or changes neither the lock nor a role.
LEMMA PromiseStep == ElectionInv /\ ElectionInv' /\ [Next]_vars => [Promise!Next]_(Promise!vars)
<1> SUFFICES ASSUME ElectionInv, ElectionInv', [Next]_vars
             PROVE  Promise!Next \/ (owner' = owner /\ RoleMap' = RoleMap)
  BY DEF Promise!vars
<1>0. TypeOK /\ (\A i \in Instances : ThreadInv(i)) /\ \A i \in Instances : ThreadInv(i)'
  BY DEF ElectionInv
<1> USE DEF RoleOf
<1>1. CASE Tick
  BY <1>1, RoleKept DEF Tick
<1>2. CASE OrphanEnds
  <2>1. RoleMap' = RoleMap /\ owner # NoOne /\ owner' = NoOne
    BY <1>2, RoleKept DEF OrphanEnds
  <2> QED BY <2>1 DEF Promise!Next, Promise!Lose
<1>3. ASSUME NEW i \in Instances, TryLock(i)
      PROVE  Promise!Next
  <2>1. RoleOf(i) = "out" /\ RoleOf(i)' = "granted" /\ \A j \in Instances \ {i} : RoleOf(j)' = RoleOf(j)
    BY <1>0, <1>3 DEF TryLock, TypeOK
  <2>2. Promise!Grant(i)
    BY <1>3, <2>1, RoleChange DEF TryLock, Promise!Grant, RoleMap
  <2> QED BY <2>2 DEF Promise!Next
<1>4. ASSUME NEW i \in Instances, GrantLost(i)
      PROVE  Promise!Next
  BY <1>4, RoleKept DEF GrantLost, Promise!Next, Promise!GrantLost
<1>5. ASSUME NEW i \in Instances, Lead(i)
      PROVE  Promise!Next
  <2>1. RoleOf(i) = "granted" /\ RoleOf(i)' = "acting" /\ \A j \in Instances \ {i} : RoleOf(j)' = RoleOf(j)
    BY <1>0, <1>5 DEF Lead, TypeOK
  <2>2. Promise!Act(i)
    BY <1>5, <2>1, RoleChange DEF Lead, Promise!Act, RoleMap
  <2> QED BY <2>2 DEF Promise!Next
\* Within an attempt, a step of lead or of the monitor withdraws or stutters.
<1>6. ASSUME NEW i \in Instances, phase[i] \in {"leading", "ending"},
             phase'[i] \in {"leading", "ending"}, owner' = owner,
             flag'[i] => flag[i], term'[i] # "off" => term[i] # "off",
             \A j \in Instances \ {i} : RoleOf(j)' = RoleOf(j)
      PROVE  Promise!Next \/ (owner' = owner /\ RoleMap' = RoleMap)
  <2>1. CASE RoleOf(i)' = RoleOf(i)
    BY <1>6, <2>1, RoleKept
  <2>2. CASE RoleOf(i)' # RoleOf(i)
    <3>1. RoleOf(i) = "acting" /\ RoleOf(i)' = "leaving"
      BY <1>6, <2>2
    <3>2. Promise!Withdraw(i)
      BY <1>6, <3>1, RoleChange DEF Promise!Withdraw, RoleMap
    <3> QED BY <3>2 DEF Promise!Next
  <2> QED BY <2>1, <2>2
<1>7. ASSUME NEW i \in Instances, TermStarts(i) \/ TermFails(i) \/ TermEnds(i)
      PROVE  Promise!Next \/ (owner' = owner /\ RoleMap' = RoleMap)
  <2>1. phase[i] = "leading" /\ phase'[i] \in {"leading", "ending"} /\ term[i] # "off"
    BY <1>0, <1>7 DEF TermStarts, TermFails, TermEnds, ThreadInv, TypeOK
  <2>2. owner' = owner /\ flag' = flag /\ \A j \in Instances \ {i} : RoleOf(j)' = RoleOf(j)
    BY <1>0, <1>7 DEF TermStarts, TermFails, TermEnds, TypeOK
  <2> QED BY <1>6, <2>1, <2>2
<1>8. ASSUME NEW i \in Instances, PingStarts(i) \/ PingAnswered(i) \/ CancelLead(i)
      PROVE  owner' = owner /\ RoleMap' = RoleMap
  BY <1>8, RoleKept DEF PingStarts, PingAnswered, CancelLead
<1>9. ASSUME NEW i \in Instances, PingFails(i) \/ MonitorStops(i)
      PROVE  Promise!Next \/ (owner' = owner /\ RoleMap' = RoleMap)
  <2>1. Cleared(i) /\ monitor[i] \in {"pinging", "watching"}
    BY <1>9 DEF PingFails, MonitorStops
  <2>2. phase[i] \in {"leading", "ending"} /\ phase' = phase /\ term' = term /\ owner' = owner
    BY <1>0, <2>1 DEF Cleared, ThreadInv, TypeOK, Phases
  <2>3. ~flag'[i] /\ \A j \in Instances \ {i} : RoleOf(j)' = RoleOf(j)
    BY <1>0, <2>1 DEF Cleared, TypeOK
  <2> QED BY <1>6, <2>2, <2>3
<1>10. ASSUME NEW i \in Instances, Unlock(i)
       PROVE  Promise!Next
  <2>1. ~flag[i] /\ term[i] = "off"
    BY <1>0, <1>10 DEF Unlock, ThreadInv, Timed, TypeOK
  <2>2. RoleOf(i) = "leaving" /\ RoleOf(i)' = "out" /\ \A j \in Instances \ {i} : RoleOf(j)' = RoleOf(j)
    BY <1>0, <1>10, <2>1 DEF Unlock, Over, TypeOK
  <2>3. Promise!Leave(i)
    BY <1>10, <2>2, RoleChange DEF Unlock, HandedTo, Promise!Leave, Promise!HandedTo, RoleMap
  <2> QED BY <2>3 DEF Promise!Next
<1>11. ASSUME NEW i \in Instances, Crash(i)
       PROVE  Promise!Next
  <2>1. RoleOf(i)' = "out" /\ \A j \in Instances \ {i} : RoleOf(j)' = RoleOf(j)
    BY <1>0, <1>11 DEF Crash, Over, TypeOK
  <2>2. Promise!Die(i)
    BY <1>11, <2>1, RoleChange DEF Crash, HandedTo, Promise!Die, Promise!HandedTo, RoleMap
  <2> QED BY <2>2 DEF Promise!Next
<1>12. ASSUME NEW i \in Instances, Cut(i) \/ Stop(i)
       PROVE  owner' = owner /\ RoleMap' = RoleMap
  BY <1>12, RoleKept DEF Cut, Stop
<1>13. ASSUME NEW i \in Instances, SessionEnds(i)
       PROVE  Promise!Next \/ (owner' = owner /\ RoleMap' = RoleMap)
  <2>1. RoleMap' = RoleMap /\ owner' \in {owner, NoOne}
    BY <1>13, RoleKept DEF SessionEnds, HandedTo
  <2> QED BY <2>1 DEF Promise!Next, Promise!Lose
<1>14. CASE UNCHANGED vars
  BY <1>14, RoleKept DEF vars
<1> QED
  BY <1>1, <1>2, <1>3, <1>4, <1>5, <1>7, <1>8, <1>9, <1>10, <1>11, <1>12, <1>13, <1>14 DEF Next

\* The election implements Leadership: whatever the connections, goroutines and
\* timers do, an instance acts only after a grant and leaves only after acting.
THEOREM ImplementsCorrect == Spec => ImplementsLeadership
<1> QED
  BY InitElection, ElectionStep, PromiseInit, PromiseStep, PTL
     DEF Spec, ImplementsLeadership, Promise!Spec

================================================================================
