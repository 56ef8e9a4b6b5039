------------------------------- MODULE Leadership -------------------------------
(***************************************************************************)
(* What the scheduler's election promises, whatever its connections,       *)
(* goroutines and timers do: an instance acts only after it was granted    *)
(* the lock, and it gives a lock that it still has back only after it      *)
(* stopped acting.  The lock itself may be lost under it at any time.      *)
(***************************************************************************)

CONSTANTS
  Instances,
  NoOne,      \* the lock is free
  Orphan      \* the lock is held by a session whose client has gone

VARIABLES
  lock,
  role

vars == <<lock, role>>

Roles == {"out", "granted", "acting", "leaving"}

\* The lock after i has handed it over to h.
HandedTo(i, h) == IF lock = i THEN h ELSE lock

Init == lock = NoOne /\ role = [i \in Instances |-> "out"]

Grant(i) ==
  /\ lock = NoOne /\ role[i] = "out"
  /\ lock' = i /\ role' = [role EXCEPT ![i] = "granted"]

\* The grant happened, but its answer never arrived.
GrantLost == lock = NoOne /\ lock' = Orphan /\ UNCHANGED role

Act(i) == role[i] = "granted" /\ role' = [role EXCEPT ![i] = "acting"] /\ UNCHANGED lock

Withdraw(i) == role[i] = "acting" /\ role' = [role EXCEPT ![i] = "leaving"] /\ UNCHANGED lock

\* An instance leaves in good order when it has stopped acting.  Its session
\* releases the lock, or takes it along until the server ends the session.
Leave(i) ==
  /\ role[i] = "leaving" /\ role' = [role EXCEPT ![i] = "out"]
  /\ lock' \in {HandedTo(i, NoOne), HandedTo(i, Orphan)}

\* A process that dies stops acting at once; its session outlives it.
Die(i) ==
  /\ role' = [role EXCEPT ![i] = "out"]
  /\ lock' = HandedTo(i, Orphan)

\* The server ends the session that holds the lock.
Lose == lock # NoOne /\ lock' = NoOne /\ UNCHANGED role

Next ==
  \/ \E i \in Instances : Grant(i) \/ Act(i) \/ Withdraw(i) \/ Leave(i) \/ Die(i)
  \/ GrantLost \/ Lose

Spec == Init /\ [][Next]_vars
================================================================================
