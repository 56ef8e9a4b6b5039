----------------------------- MODULE MCIngestion -----------------------------
(* Finite instances of Ingestion for TLC.                                  *)
EXTENDS Ingestion, TLC

\* One window that ends at the newest reading and leaves an older gap before it.
MCRecentWindow == {[lo |-> 2, hi |-> 3]}

Symmetry == Permutations(Tasks)

(* A backlog after an outage: at instant 1 a first run stored the reading of *)
(* instant 0, and no task has run while the next two were published.  The    *)
(* window of the next run is longer than its budget.                         *)
Backlog ==
  /\ now = 2 /\ avail = 0 .. 2 /\ stored = {0} /\ cursor = 0 /\ created = 1
  /\ task = [r \in Tasks |-> Idle] /\ uniq = NoTask /\ taken = {}
  /\ late = {} /\ owed = {}

BacklogSpec == Backlog /\ [][Next]_vars /\ Fairness
=============================================================================
