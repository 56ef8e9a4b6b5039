--------------------------- MODULE ServicesProofs ---------------------------
(***************************************************************************)
(* Proofs about the anomalies of a suspect period, for any number of bill  *)
(* generations and operators.  The argument is the lease of the period:    *)
(* whoever writes a row holds it alone, so what it read before (there is   *)
(* no row for this reason; this row is not resolved) is still true when it *)
(* writes.                                                                 *)
(*                                                                         *)
(* Then the types of the five services that MCServices runs side by side.  *)
(***************************************************************************)
EXTENDS MCServices, ApiProofs, EnergyProofs, SequenceTheorems

Locks == {"period", "ingestion"}

Row == [reason : AnomalyReasons, resolution : Modes \cup {"open"}, told : BOOLEAN,
        overridden : SUBSET Registers, registers : SUBSET Registers]

Working == {"list", "create", "tell", "release", "reread", "reset", "cascade", "ingestion", "resolve"}
Deciding == {"reset", "cascade", "ingestion", "resolve"}
RecorderSteps == {"rest", "lease", "list", "create", "tell", "release", "bill", "done"}
ResolverSteps == {"rest", "lease", "reread"} \cup Deciding

ProcessState ==
  [pc : RecorderSteps \cup ResolverSteps, suspect : SUBSET (Registers \X AnomalyReasons),
   gap : BOOLEAN, accepted : SUBSET Registers, todo : SUBSET AnomalyReasons,
   recorded : SUBSET AnomalyReasons, target : Nat, mode : Modes,
   verdict : {"none", "no_data", "suspect", "anomaly", "billed"}]

SuspectTyped ==
  /\ anomalies \in Seq(Row) /\ ingestion \in Modes \cup {"none", "open"}
  /\ leases \in [Locks -> Processes \cup {Nobody}]
  /\ work \in [Processes -> ProcessState]
  /\ rewritten \subseteq {F2}

(* What a process at state w has read of the rows is still so, and the       *)
(* reasons it got past are answered or told.                                 *)
RecorderSound(w) ==
  /\ w.pc \in RecorderSteps
  /\ w.pc \in {"lease", "list", "create", "tell"} => w.todo # {}
  /\ w.pc = "create" => RowsFor(Current(w)) = {}
  /\ w.pc = "tell" => w.target \in RowsFor(Current(w))
  /\ \A reason \in w.recorded :
       \E i \in RowsFor(reason) : anomalies[i].told \/ Resolved(anomalies[i])
ResolverSound(w) ==
  /\ w.pc \in ResolverSteps
  /\ w.pc # "rest" => w.target \in DOMAIN anomalies \cup {F2}
  /\ w.pc \in Deciding /\ w.target # F2 => ~Resolved(anomalies[w.target])
ProcessSound(p, w) ==
  /\ p \in Recorders => RecorderSound(w)
  /\ p \in Resolvers => ResolverSound(w)

\* A lease is held exactly by the process at work under it.
KeyFor(p, w) == IF p \in Resolvers /\ w.target = F2 THEN "ingestion" ELSE "period"
Under(p, w, lock) == w.pc \in Working /\ KeyFor(p, w) = lock
LeaseHeld == \A p \in Processes, lock \in Locks : leases[lock] = p <=> Under(p, work[p], lock)

OneRowPerReason ==
  \A i, j \in DOMAIN anomalies : anomalies[i].reason = anomalies[j].reason => i = j
OverriddenRows ==
  \A i \in DOMAIN anomalies :
    anomalies[i].overridden # {} <=> anomalies[i].resolution = "manual_override"

SuspectInv ==
  /\ SuspectTyped /\ LeaseHeld /\ OneRowPerReason /\ OverriddenRows
  /\ \A p \in Processes : ProcessSound(p, work[p])

LEMMA RestingFields ==
  /\ Resting \in ProcessState /\ Resting.pc = "rest" /\ Resting.recorded = {}
  /\ \A pc \in RecorderSteps \cup ResolverSteps :
       /\ [Resting EXCEPT !.pc = pc] \in ProcessState
       /\ [Resting EXCEPT !.pc = pc].pc = pc
       /\ [Resting EXCEPT !.pc = pc].recorded = {}
BY DEF Resting, ProcessState, Modes, RecorderSteps, ResolverSteps, Deciding

LEMMA SuspectInitInv == SuspectInit => SuspectInv
<1> SUFFICES ASSUME SuspectInit PROVE SuspectInv
  OBVIOUS
<1>1. SuspectTyped
  BY RestingFields DEF SuspectInit, SuspectTyped, Locks, Modes
<1>2. LeaseHeld
  BY RestingFields, SuspectAssumption
     DEF SuspectInit, LeaseHeld, Under, Working, Locks, Processes
<1>3. OneRowPerReason /\ OverriddenRows
  BY DEF SuspectInit, OneRowPerReason, OverriddenRows
<1>4. \A p \in Processes : ProcessSound(p, work[p])
  BY RestingFields
     DEF SuspectInit, ProcessSound, RecorderSound, ResolverSound, RecorderSteps, ResolverSteps, Deciding
<1> QED BY <1>1, <1>2, <1>3, <1>4 DEF SuspectInv

\* What the step of process p does to the leases fits its new state w.
LeaseMoves(p, w) ==
  /\ leases' \in [Locks -> Processes \cup {Nobody}]
  /\ \A lock \in Locks :
       /\ leases'[lock] = p <=> Under(p, w, lock)
       /\ \A q \in Processes \ {p} : leases'[lock] = q <=> leases[lock] = q

LEMMA SuspectLeaseStep ==
  ASSUME SuspectInv, NEW p \in Processes, NEW w \in ProcessState,
         work' = [work EXCEPT ![p] = w], LeaseMoves(p, w)
  PROVE  LeaseHeld' /\ (leases \in [Locks -> Processes \cup {Nobody}])'
BY DEF SuspectInv, SuspectTyped, LeaseHeld, LeaseMoves, Under, KeyFor

\* A step that leaves the rows alone.
LEMMA SuspectPlanStep ==
  ASSUME SuspectInv, NEW p \in Processes, NEW w \in ProcessState, ProcessSound(p, w),
         work' = [work EXCEPT ![p] = w], anomalies' = anomalies,
         ingestion' \in Modes \cup {"none", "open"}, rewritten' \subseteq {F2},
         LeaseMoves(p, w)
  PROVE  SuspectInv'
<1>1. LeaseHeld' /\ (leases \in [Locks -> Processes \cup {Nobody}])'
  BY SuspectLeaseStep
<1>2. SuspectTyped'
  BY <1>1 DEF SuspectInv, SuspectTyped
<1>3. OneRowPerReason' /\ OverriddenRows'
  BY DEF SuspectInv, OneRowPerReason, OverriddenRows
<1>4. ASSUME NEW q \in Processes PROVE ProcessSound(q, work[q])'
  <2>1. CASE q = p
    <3>1. work'[q] = w BY <2>1 DEF SuspectInv, SuspectTyped
    <3>2. ProcessSound(q, work'[q]) BY <3>1, <2>1
    <3> QED BY <3>1, <3>2 DEF ProcessSound, RecorderSound, ResolverSound, RowsFor, Resolved, Current
  <2>2. CASE q # p
    <3>1. work'[q] = work[q] BY <2>2 DEF SuspectInv, SuspectTyped
    <3>2. ProcessSound(q, work[q]) BY DEF SuspectInv
    <3> QED BY <3>1, <3>2 DEF ProcessSound, RecorderSound, ResolverSound, RowsFor, Resolved, Current
  <2> QED BY <2>1, <2>2
<1> QED BY <1>1, <1>2, <1>3, <1>4 DEF SuspectInv

LEMMA LeaseKept ==
  ASSUME SuspectInv, NEW p \in Processes, NEW w, leases' = leases,
         \A lock \in Locks : Under(p, w, lock) <=> Under(p, work[p], lock)
  PROVE  LeaseMoves(p, w)
BY DEF SuspectInv, SuspectTyped, LeaseHeld, LeaseMoves

LEMMA LeaseTaken ==
  ASSUME SuspectInv, NEW p \in Processes, NEW w, w.pc \in Working, work[p].pc \notin Working,
         leases[KeyFor(p, w)] = Nobody, leases' = [leases EXCEPT ![KeyFor(p, w)] = p]
  PROVE  LeaseMoves(p, w)
<1>1. KeyFor(p, w) \in Locks /\ Nobody \notin Processes
  BY SuspectAssumption DEF KeyFor, Locks, Processes
<1> QED BY <1>1 DEF SuspectInv, SuspectTyped, LeaseHeld, LeaseMoves, Under

LEMMA LeaseFreed ==
  ASSUME SuspectInv, NEW p \in Processes, NEW w, w.pc \notin Working, leases' = Freed(p)
  PROVE  LeaseMoves(p, w)
<1>1. KeyFor(p, work[p]) \in Locks /\ Nobody \notin Processes
  BY SuspectAssumption DEF KeyFor, Locks, Processes
<1>2. \A lock \in Locks : leases[lock] = p => lock = KeyFor(p, work[p])
  BY DEF SuspectInv, LeaseHeld, Under
<1>3. leases' = [leases EXCEPT ![KeyFor(p, work[p])] = IF @ = p THEN Nobody ELSE @]
  BY DEF Freed, KeyOf, KeyFor
<1> QED BY <1>1, <1>2, <1>3 DEF SuspectInv, SuspectTyped, LeaseMoves, Under

\* What a process at work under the lease of the period rules out for others.
LEMMA SuspectLeaseAlone ==
  ASSUME SuspectInv, NEW p \in Processes, NEW q \in Processes, p # q,
         Under(p, work[p], "period")
  PROVE  ~Under(q, work[q], "period")
BY DEF SuspectInv, LeaseHeld, Locks

LEMMA Apart ==
  /\ \A r \in Recorders : r \in Processes /\ r \notin Resolvers
  /\ \A o \in Resolvers : o \in Processes /\ o \notin Recorders
BY SuspectAssumption DEF Processes

-----------------------------------------------------------------------------
\* A process whose work ends lets its lease go, or never had one.
LEMMA SuspectEndStep ==
  ASSUME SuspectInv, NEW p \in Processes, Ends(p), anomalies' = anomalies,
         ingestion' \in Modes \cup {"none", "open"}, rewritten' \subseteq {F2},
         leases' = Freed(p) \/ (work[p].pc \notin Working /\ leases' = leases)
  PROVE  SuspectInv'
<1> DEFINE w == [Resting EXCEPT !.pc = IF p \in Recorders THEN "done" ELSE "rest"]
<1>1. w \in ProcessState /\ w.recorded = {} /\ w.pc = IF p \in Recorders THEN "done" ELSE "rest"
  BY RestingFields DEF RecorderSteps, ResolverSteps, Deciding
<1>2. work' = [work EXCEPT ![p] = w]
  BY DEF Ends
<1> HIDE DEF w
<1>3. ProcessSound(p, w)
  BY <1>1, Apart DEF ProcessSound, RecorderSound, ResolverSound, RecorderSteps, ResolverSteps, Deciding
<1>4. w.pc \notin Working
  BY <1>1 DEF Working
<1>5. LeaseMoves(p, w)
  BY <1>4, LeaseFreed, LeaseKept DEF Under
<1> QED BY <1>1, <1>2, <1>3, <1>5, SuspectPlanStep

LEMMA DeriveStep ==
  ASSUME SuspectInv, NEW r \in Recorders, DerivePeriod(r)
  PROVE  SuspectInv'
<1> USE Apart
<1>1. PICK gap \in BOOLEAN, suspect \in SUBSET (Registers \X AnomalyReasons),
           accepted \in SUBSET Registers, todo \in SUBSET AnomalyReasons :
        work' = [work EXCEPT ![r] = [Resting EXCEPT
                  !.suspect = suspect, !.gap = gap, !.accepted = accepted, !.todo = todo,
                  !.pc = IF todo = {} THEN "bill" ELSE "lease"]]
  <2>1. PICK gap \in BOOLEAN, verdict \in Verdicts :
         LET overrides == {i \in Answered("manual_override") : anomalies[i].reason # "missing_readings"}
             overridden == UNION {anomalies[i].overridden : i \in overrides}
             accepts == {i \in Answered("accepted") : anomalies[i].reason # "missing_readings"}
             suspect == {<<reg, verdict[reg]>> : reg \in {x \in Registers \ overridden : verdict[x] # "sound"}}
             open == gap /\ Answered("manual_override") \cap RowsFor("missing_readings") = {}
             reasons == IF open THEN {"missing_readings"} ELSE {s[2] : s \in suspect}
         IN work' = [work EXCEPT ![r] = [Resting EXCEPT
               !.suspect = suspect, !.gap = open,
               !.accepted = UNION {anomalies[i].registers : i \in accepts},
               !.todo = reasons,
               !.pc = IF reasons = {} THEN "bill" ELSE "lease"]]
    BY DEF DerivePeriod
  <2> DEFINE overrides == {i \in Answered("manual_override") : anomalies[i].reason # "missing_readings"}
             overridden == UNION {anomalies[i].overridden : i \in overrides}
             accepts == {i \in Answered("accepted") : anomalies[i].reason # "missing_readings"}
             suspect == {<<reg, verdict[reg]>> : reg \in {x \in Registers \ overridden : verdict[x] # "sound"}}
             open == gap /\ Answered("manual_override") \cap RowsFor("missing_readings") = {}
             reasons == IF open THEN {"missing_readings"} ELSE {s[2] : s \in suspect}
             accepted == UNION {anomalies[i].registers : i \in accepts}
  <2>2. \A x \in Registers : verdict[x] # "sound" => verdict[x] \in AnomalyReasons
    BY SuspectAssumption DEF AnomalyReasons
  <2>3. suspect \in SUBSET (Registers \X AnomalyReasons)
    BY <2>2
  <2>4. reasons \in SUBSET AnomalyReasons
    BY <2>3 DEF AnomalyReasons
  <2>5. accepted \in SUBSET Registers
    <3>1. \A i \in accepts : anomalies[i].registers \subseteq Registers
      <4>1. \A i \in DOMAIN anomalies : anomalies[i] \in Row
        BY DEF SuspectInv, SuspectTyped
      <4> QED BY <4>1 DEF Answered, Row
    <3> HIDE DEF accepts
    <3> QED BY <3>1
  <2>6. open \in BOOLEAN
    OBVIOUS
  <2>7. work' = [work EXCEPT ![r] = [Resting EXCEPT
                  !.suspect = suspect, !.gap = open, !.accepted = accepted, !.todo = reasons,
                  !.pc = IF reasons = {} THEN "bill" ELSE "lease"]]
    BY <2>1
  <2> HIDE DEF suspect, reasons, accepted, open
  <2> QED BY <2>3, <2>4, <2>5, <2>6, <2>7
<1> DEFINE w == [Resting EXCEPT
                  !.suspect = suspect, !.gap = gap, !.accepted = accepted, !.todo = todo,
                  !.pc = IF todo = {} THEN "bill" ELSE "lease"]
<1>2. /\ w \in ProcessState /\ w.pc \in {"bill", "lease"} /\ w.recorded = {}
      /\ w.pc = "lease" => w.todo # {}
  BY DEF Resting, ProcessState, Modes, RecorderSteps, ResolverSteps
<1> HIDE DEF w
<1>3. ProcessSound(r, w)
  BY <1>2 DEF ProcessSound, RecorderSound, RecorderSteps
<1>4. LeaseMoves(r, w)
  BY <1>2, LeaseKept DEF DerivePeriod, At, Under, Working
<1> QED BY <1>1, <1>2, <1>3, <1>4, SuspectPlanStep DEF w, DerivePeriod, periodHistory, SuspectInv, SuspectTyped

LEMMA CurrentIn ==
  ASSUME NEW w \in ProcessState, w.todo # {}
  PROVE  Current(w) \in w.todo
<1> DEFINE Least(x) == x \in w.todo /\ \A y \in w.todo : ReasonRank[x] <= ReasonRank[y]
<1>1. w.todo \subseteq AnomalyReasons
  BY DEF ProcessState
<1>2. \E x : Least(x)
  <2>1. CASE "negative_delta" \in w.todo
    <3>1. Least("negative_delta") BY <1>1, <2>1 DEF ReasonRank, AnomalyReasons
    <3> QED BY <3>1
  <2>2. CASE "negative_delta" \notin w.todo /\ "meter_reset" \in w.todo
    <3>1. Least("meter_reset") BY <1>1, <2>2 DEF ReasonRank, AnomalyReasons
    <3> QED BY <3>1
  <2>3. CASE w.todo = {"missing_readings"}
    <3>1. Least("missing_readings") BY <2>3 DEF ReasonRank
    <3> QED BY <3>1
  <2> QED BY <1>1, <2>1, <2>2, <2>3 DEF AnomalyReasons
<1> QED BY <1>2 DEF Current

LEMMA NextReasonFields ==
  ASSUME NEW w \in ProcessState, w.todo # {}
  PROVE  /\ NextReason(w) \in ProcessState
         /\ NextReason(w).pc \in {"release", "list"}
         /\ NextReason(w).pc = "list" => NextReason(w).todo # {}
         /\ NextReason(w).recorded = w.recorded \cup {Current(w)}
BY CurrentIn DEF NextReason, ProcessState, RecorderSteps, ResolverSteps

LEMMA GoesFields ==
  ASSUME SuspectInv, NEW p \in Processes, NEW pc \in RecorderSteps \cup ResolverSteps, Goes(p, pc)
  PROVE  \E w \in ProcessState :
           /\ work' = [work EXCEPT ![p] = w] /\ w.pc = pc
           /\ w.todo = work[p].todo /\ w.recorded = work[p].recorded /\ w.target = work[p].target
<1> DEFINE w == [work[p] EXCEPT !.pc = pc]
<1>1. work[p] \in ProcessState
  BY DEF SuspectInv, SuspectTyped
<1>2. /\ w \in ProcessState /\ w.pc = pc
      /\ w.todo = work[p].todo /\ w.recorded = work[p].recorded /\ w.target = work[p].target
  BY <1>1 DEF ProcessState
<1>3. work' = [work EXCEPT ![p] = w]
  BY DEF Goes
<1> QED BY <1>2, <1>3

-----------------------------------------------------------------------------
(* A bill generation *)
LEMMA LeasePeriodStep ==
  ASSUME SuspectInv, NEW r \in Recorders, LeasePeriod(r)
  PROVE  SuspectInv'
<1> USE Apart
<1>1. work[r].pc = "lease" /\ anomalies' = anomalies /\ ingestion' = ingestion /\ rewritten' = rewritten
  BY DEF LeasePeriod, At, periodHistory
<1>2. ingestion' \in Modes \cup {"none", "open"} /\ rewritten' \subseteq {F2}
  BY <1>1 DEF SuspectInv, SuspectTyped
<1>3. CASE leases["period"] = Nobody /\ leases' = [leases EXCEPT !["period"] = r] /\ Goes(r, "list")
  <2>1. PICK w \in ProcessState :
          /\ work' = [work EXCEPT ![r] = w] /\ w.pc = "list"
          /\ w.todo = work[r].todo /\ w.recorded = work[r].recorded
    BY <1>3, GoesFields DEF RecorderSteps
  <2>2. KeyFor(r, w) = "period" /\ work[r].pc \notin Working /\ w.pc \in Working
    BY <1>1, <2>1 DEF KeyFor, Working
  <2>5. LeaseMoves(r, w)
    BY <1>3, <2>2, LeaseTaken
  <2>3. w.todo # {}
    BY <1>1, <2>1 DEF SuspectInv, ProcessSound, RecorderSound
  <2>4. ProcessSound(r, w)
    BY <2>1, <2>3 DEF SuspectInv, ProcessSound, RecorderSound, RecorderSteps
  <2> QED BY <1>1, <1>2, <2>1, <2>5, <2>4, SuspectPlanStep
<1>4. CASE Ends(r) /\ leases' = leases
  BY <1>1, <1>2, <1>4, SuspectEndStep DEF Working
<1> QED BY <1>3, <1>4 DEF LeasePeriod

LEMMA DedupStep ==
  ASSUME SuspectInv, NEW r \in Recorders, DedupByRow(r)
  PROVE  SuspectInv'
<1> USE Apart
<1>1. /\ work[r].pc = "list" /\ anomalies' = anomalies /\ ingestion' = ingestion
      /\ rewritten' = rewritten /\ leases' = leases
  BY DEF DedupByRow, At, periodHistory
<1>2. ingestion' \in Modes \cup {"none", "open"} /\ rewritten' \subseteq {F2}
  BY <1>1 DEF SuspectInv, SuspectTyped
<1>3. work[r] \in ProcessState /\ work[r].todo # {} /\ RecorderSound(work[r])
  BY <1>1 DEF SuspectInv, SuspectTyped, ProcessSound, RecorderSound
<1>4. ASSUME NEW w \in ProcessState, w.pc \in Working, work' = [work EXCEPT ![r] = w], RecorderSound(w)
      PROVE  SuspectInv'
  <2>1. LeaseMoves(r, w)
    BY <1>1, <1>4, LeaseKept DEF Under, KeyFor, Working
  <2> QED BY <1>1, <1>2, <1>4, <2>1, SuspectPlanStep DEF ProcessSound
<1>5. CASE RowsFor(Current(work[r])) = {} /\ Goes(r, "create")
  <2> DEFINE w == [work[r] EXCEPT !.pc = "create"]
  <2>1. w \in ProcessState /\ w.pc = "create" /\ w.todo = work[r].todo /\ w.recorded = work[r].recorded
    BY <1>3 DEF ProcessState, RecorderSteps
  <2>2. work' = [work EXCEPT ![r] = w]
    BY <1>5 DEF Goes
  <2> HIDE DEF w
  <2>3. Current(w) = Current(work[r])
    BY <2>1 DEF Current
  <2> QED BY <1>3, <1>4, <1>5, <2>1, <2>2, <2>3 DEF RecorderSound, RecorderSteps, Working
<1>6. CASE \E i \in RowsFor(Current(work[r])) :
             work' = [work EXCEPT ![r] = IF Resolved(anomalies[i]) \/ anomalies[i].told THEN NextReason(@)
                                         ELSE [@ EXCEPT !.pc = "tell", !.target = i]]
  <2>1. PICK i \in RowsFor(Current(work[r])) :
             work' = [work EXCEPT ![r] = IF Resolved(anomalies[i]) \/ anomalies[i].told THEN NextReason(@)
                                         ELSE [@ EXCEPT !.pc = "tell", !.target = i]]
    BY <1>6
  <2>2. CASE Resolved(anomalies[i]) \/ anomalies[i].told
    <3>1. work' = [work EXCEPT ![r] = NextReason(work[r])]
      BY <2>1, <2>2
    <3>2. RecorderSound(NextReason(work[r])) /\ NextReason(work[r]).pc \in Working
      BY <1>3, <2>2, NextReasonFields DEF RecorderSound, RecorderSteps, Working
    <3> QED BY <1>3, <1>4, <3>1, <3>2, NextReasonFields
  <2>3. CASE ~(Resolved(anomalies[i]) \/ anomalies[i].told)
    <3> DEFINE w == [work[r] EXCEPT !.pc = "tell", !.target = i]
    <3>1. i \in Nat
      BY DEF RowsFor, SuspectInv, SuspectTyped
    <3>2. /\ w \in ProcessState /\ w.pc = "tell" /\ w.target = i
          /\ w.todo = work[r].todo /\ w.recorded = work[r].recorded
      BY <1>3, <3>1 DEF ProcessState, RecorderSteps
    <3>3. work' = [work EXCEPT ![r] = w]
      BY <2>1, <2>3
    <3> HIDE DEF w
    <3>4. Current(w) = Current(work[r])
      BY <3>2 DEF Current
    <3> QED BY <1>3, <1>4, <3>2, <3>3, <3>4 DEF RecorderSound, RecorderSteps, Working
  <2> QED BY <2>2, <2>3
<1> QED BY <1>5, <1>6 DEF DedupByRow

\* A step that writes rows is taken under the lease of the period.
LEMMA SuspectRowsStep ==
  ASSUME SuspectInv, NEW p \in Processes, NEW w \in ProcessState, ProcessSound(p, w)',
         Under(p, work[p], "period"), work' = [work EXCEPT ![p] = w], LeaseMoves(p, w),
         anomalies' \in Seq(Row), ingestion' = ingestion, rewritten' \subseteq {F2},
         OneRowPerReason', OverriddenRows',
         \A i \in DOMAIN anomalies :
           /\ i \in DOMAIN anomalies' /\ anomalies'[i].reason = anomalies[i].reason
           /\ anomalies[i].told \/ Resolved(anomalies[i]) =>
                anomalies'[i].told \/ Resolved(anomalies'[i])
  PROVE  SuspectInv'
<1>1. LeaseHeld' /\ (leases \in [Locks -> Processes \cup {Nobody}])'
  BY SuspectLeaseStep
<1>2. SuspectTyped'
  BY <1>1 DEF SuspectInv, SuspectTyped
<1>3. work'[p] = w /\ \A q \in Processes \ {p} : work'[q] = work[q]
  BY DEF SuspectInv, SuspectTyped
<1>4. ASSUME NEW q \in Processes, q # p PROVE ProcessSound(q, work[q])'
  <2>1. ~Under(q, work[q], "period") /\ ProcessSound(q, work[q])
    BY <1>4, SuspectLeaseAlone DEF SuspectInv
  <2>2. ASSUME q \in Recorders PROVE RecorderSound(work[q])'
    <3>1. work[q].pc \notin Working
      BY <2>1, <2>2, Apart DEF Under, KeyFor
    <3>2. \A reason \in work[q].recorded :
            \E i \in RowsFor(reason)' : anomalies'[i].told \/ Resolved(anomalies'[i])
      <4> TAKE reason \in work[q].recorded
      <4>1. PICK i \in RowsFor(reason) : anomalies[i].told \/ Resolved(anomalies[i])
        BY <2>1, <2>2 DEF ProcessSound, RecorderSound
      <4>2. i \in RowsFor(reason)' /\ (anomalies'[i].told \/ Resolved(anomalies'[i]))
        BY <4>1 DEF RowsFor
      <4> QED BY <4>2
    <3> QED
      BY <1>3, <1>4, <2>1, <2>2, <3>1, <3>2
      DEF ProcessSound, RecorderSound, RowsFor, Resolved, Working
  <2>3. ASSUME q \in Resolvers PROVE ResolverSound(work[q])'
    <3>1. ~(work[q].pc \in Deciding /\ work[q].target # F2)
      BY <2>1, <2>3 DEF Under, KeyFor, Deciding, Working
    <3> QED
      BY <1>3, <1>4, <2>1, <2>3, <3>1 DEF ProcessSound, ResolverSound
  <2> QED BY <2>2, <2>3 DEF ProcessSound
<1>5. \A q \in Processes : ProcessSound(q, work[q])'
  BY <1>3, <1>4 DEF ProcessSound, RecorderSound, ResolverSound
<1> QED BY <1>1, <1>2, <1>5 DEF SuspectInv

LEMMA CreateStep ==
  ASSUME SuspectInv, NEW r \in Recorders, CreateRow(r)
  PROVE  SuspectInv'
<1> USE Apart
<1>1. /\ work[r].pc = "create" /\ ingestion' = ingestion
      /\ rewritten' = rewritten /\ leases' = leases
  BY DEF CreateRow, At, periodHistory
<1>2. /\ work[r] \in ProcessState /\ work[r].todo # {} /\ RecorderSound(work[r])
      /\ RowsFor(Current(work[r])) = {} /\ anomalies \in Seq(Row) /\ rewritten \subseteq {F2}
  BY <1>1 DEF SuspectInv, SuspectTyped, ProcessSound, RecorderSound
<1> DEFINE n == Len(anomalies)
           row == [reason |-> Current(work[r]), resolution |-> "open", told |-> FALSE, overridden |-> {},
                   registers |-> {s[1] : s \in {x \in work[r].suspect : x[2] = Current(work[r])}}]
<1>3. PICK w : w = [work[r] EXCEPT !.pc = "tell", !.target = n + 1]
  OBVIOUS
<1>4. /\ w \in ProcessState /\ w.pc = "tell" /\ w.target = n + 1
      /\ w.todo = work[r].todo /\ w.recorded = work[r].recorded /\ Current(w) = Current(work[r])
  <2>1. n + 1 \in Nat
    BY <1>2, LenProperties
  <2> HIDE DEF n, row
  <2>2. /\ w \in ProcessState /\ w.pc = "tell" /\ w.target = n + 1
        /\ w.todo = work[r].todo /\ w.recorded = work[r].recorded
    BY <1>2, <1>3, <2>1 DEF ProcessState, RecorderSteps
  <2> QED BY <2>2 DEF Current
<1>5. work' = [work EXCEPT ![r] = w]
  BY <1>3 DEF CreateRow
<1>6. row \in Row /\ row.reason = Current(w) /\ row.resolution = "open" /\ row.overridden = {}
  <2>1. Current(work[r]) \in AnomalyReasons
    BY <1>2, CurrentIn DEF ProcessState
  <2>2. {s[1] : s \in {x \in work[r].suspect : x[2] = Current(work[r])}} \subseteq Registers
    BY <1>2 DEF ProcessState
  <2> QED BY <1>4, <2>1, <2>2 DEF Row
<1>7. anomalies' = Append(anomalies, row)
  BY DEF CreateRow
<1> HIDE DEF row
<1>8. /\ anomalies' \in Seq(Row) /\ DOMAIN anomalies = 1..n /\ DOMAIN anomalies' = 1..(n + 1)
      /\ anomalies'[n + 1] = row /\ \A i \in 1..n : anomalies'[i] = anomalies[i]
      /\ n \in Nat
  BY <1>2, <1>6, <1>7, AppendProperties, LenProperties
<1> HIDE DEF n
<1>9. OneRowPerReason'
  <2>1. \A i \in 1..n : anomalies[i].reason # row.reason
    BY <1>2, <1>4, <1>6, <1>8 DEF RowsFor
  <2> QED BY <1>8, <2>1 DEF OneRowPerReason, SuspectInv
<1>10. OverriddenRows'
  BY <1>6, <1>8 DEF OverriddenRows, SuspectInv
<1>11. RecorderSound(w)'
  <2>1. w.target \in RowsFor(Current(w))'
    BY <1>4, <1>6, <1>8 DEF RowsFor
  <2>2. \A reason \in w.recorded : \E i \in RowsFor(reason)' : anomalies'[i].told \/ Resolved(anomalies'[i])
    BY <1>2, <1>4, <1>8 DEF RecorderSound, RowsFor
  <2> QED BY <1>2, <1>4, <2>1, <2>2 DEF RecorderSound, RecorderSteps, Resolved
<1>12. LeaseMoves(r, w) /\ Under(r, work[r], "period")
  BY <1>1, <1>4, LeaseKept DEF Under, KeyFor, Working
<1>13. \A i \in DOMAIN anomalies :
           /\ i \in DOMAIN anomalies' /\ anomalies'[i].reason = anomalies[i].reason
           /\ anomalies[i].told \/ Resolved(anomalies[i]) =>
                anomalies'[i].told \/ Resolved(anomalies'[i])
  BY <1>8
<1>14. ProcessSound(r, w)'
  BY <1>11 DEF ProcessSound
<1> QED BY <1>1, <1>2, <1>4, <1>5, <1>8, <1>9, <1>10, <1>12, <1>13, <1>14, SuspectRowsStep

LEMMA TellStep ==
  ASSUME SuspectInv, NEW r \in Recorders, TellOperator(r)
  PROVE  SuspectInv'
<1> USE Apart
<1>1. /\ work[r].pc = "tell" /\ ingestion' = ingestion
      /\ rewritten' = rewritten /\ leases' = leases
  BY DEF TellOperator, At, periodHistory
<1>2. /\ work[r] \in ProcessState /\ work[r].todo # {} /\ RecorderSound(work[r])
      /\ work[r].target \in RowsFor(Current(work[r])) /\ anomalies \in Seq(Row) /\ rewritten \subseteq {F2}
  BY <1>1 DEF SuspectInv, SuspectTyped, ProcessSound, RecorderSound
<1>3. PICK w : w = NextReason(work[r])
  OBVIOUS
<1>4. /\ w \in ProcessState /\ w.pc \in {"release", "list"} /\ (w.pc = "list" => w.todo # {})
      /\ w.recorded = work[r].recorded \cup {Current(work[r])}
  BY <1>2, <1>3, NextReasonFields
<1>5. work' = [work EXCEPT ![r] = w]
  BY <1>3 DEF TellOperator
<1>6. PICK t : t = work[r].target
  OBVIOUS
<1>7. /\ t \in DOMAIN anomalies /\ anomalies[t].reason = Current(work[r])
      /\ anomalies' = [anomalies EXCEPT ![t].told = TRUE]
  BY <1>2, <1>6 DEF RowsFor, TellOperator
<1>8. [anomalies[t] EXCEPT !.told = TRUE] \in Row
  <2>1. anomalies[t] \in Row
    BY <1>2, <1>7, ElementOfSeq, LenProperties
  <2> QED BY <2>1 DEF Row
<1>9. anomalies' = [anomalies EXCEPT ![t] = [anomalies[t] EXCEPT !.told = TRUE]]
  BY <1>7
<1>10. anomalies' \in Seq(Row) /\ DOMAIN anomalies' = DOMAIN anomalies
  BY <1>2, <1>7, <1>8, <1>9, ExceptSeq
<1>11. \A i \in DOMAIN anomalies :
         /\ anomalies'[i].reason = anomalies[i].reason /\ anomalies'[i].resolution = anomalies[i].resolution
         /\ anomalies'[i].overridden = anomalies[i].overridden
         /\ anomalies'[i].told = IF i = t THEN TRUE ELSE anomalies[i].told
  BY <1>2, <1>7, <1>9 DEF Row
<1>12. OneRowPerReason' /\ OverriddenRows'
  BY <1>10, <1>11 DEF OneRowPerReason, OverriddenRows, SuspectInv
<1>13. \A i \in DOMAIN anomalies :
           /\ i \in DOMAIN anomalies' /\ anomalies'[i].reason = anomalies[i].reason
           /\ anomalies[i].told \/ Resolved(anomalies[i]) =>
                anomalies'[i].told \/ Resolved(anomalies'[i])
  BY <1>10, <1>11 DEF Resolved
<1>14. ProcessSound(r, w)'
  <2>1. \A reason \in w.recorded : \E i \in RowsFor(reason)' : anomalies'[i].told \/ Resolved(anomalies'[i])
    <3> TAKE reason \in w.recorded
    <3>1. CASE reason = Current(work[r])
      <4>1. t \in RowsFor(reason)' /\ anomalies'[t].told
        BY <1>7, <1>10, <1>11, <3>1 DEF RowsFor
      <4> QED BY <4>1
    <3>2. CASE reason \in work[r].recorded
      <4>1. PICK i \in RowsFor(reason) : anomalies[i].told \/ Resolved(anomalies[i])
        BY <1>2, <3>2 DEF RecorderSound
      <4>2. i \in RowsFor(reason)' /\ (anomalies'[i].told \/ Resolved(anomalies'[i]))
        BY <1>13, <4>1 DEF RowsFor
      <4> QED BY <4>2
    <3> QED BY <1>4, <3>1, <3>2
  <2> QED BY <1>4, <2>1 DEF ProcessSound, RecorderSound, RecorderSteps, Resolved
<1>15. LeaseMoves(r, w) /\ Under(r, work[r], "period")
  BY <1>1, <1>4, LeaseKept DEF Under, KeyFor, Working
<1> QED BY <1>1, <1>2, <1>4, <1>5, <1>10, <1>12, <1>13, <1>14, <1>15, SuspectRowsStep

LEMMA ReleaseStep ==
  ASSUME SuspectInv, NEW r \in Recorders, ReleasePeriod(r)
  PROVE  SuspectInv'
<1> USE Apart
<1>1. anomalies' = anomalies /\ ingestion' \in Modes \cup {"none", "open"} /\ rewritten' \subseteq {F2}
  BY DEF ReleasePeriod, periodHistory, SuspectInv, SuspectTyped
<1>2. PICK w \in ProcessState :
        work' = [work EXCEPT ![r] = w] /\ w.pc = "bill" /\ w.recorded = work[r].recorded
  BY GoesFields DEF ReleasePeriod, RecorderSteps
<1>3. LeaseMoves(r, w)
  BY <1>2, LeaseFreed DEF ReleasePeriod, Working
<1>4. ProcessSound(r, w)
  BY <1>2 DEF SuspectInv, ProcessSound, RecorderSound, RecorderSteps
<1> QED BY <1>1, <1>2, <1>3, <1>4, SuspectPlanStep

LEMMA PriceStep ==
  ASSUME SuspectInv, NEW r \in Recorders, PriceOrRefuse(r)
  PROVE  SuspectInv'
<1> USE Apart
<1>1. /\ anomalies' = anomalies /\ ingestion' \in Modes \cup {"none", "open"} /\ rewritten' \subseteq {F2}
      /\ leases' = leases /\ work[r].pc = "bill" /\ work[r] \in ProcessState
  BY DEF PriceOrRefuse, At, periodHistory, SuspectInv, SuspectTyped
<1>2. PICK w : w = [work[r] EXCEPT !.pc = "done", !.target = 0, !.verdict = Refusal(work[r])]
  OBVIOUS
<1>3. Refusal(work[r]) \in {"none", "no_data", "suspect", "anomaly", "billed"}
  BY DEF Refusal
<1>4. w \in ProcessState /\ w.pc = "done" /\ w.recorded = work[r].recorded
  BY <1>1, <1>2, <1>3 DEF ProcessState, RecorderSteps
<1>5. work' = [work EXCEPT ![r] = w]
  BY <1>2 DEF PriceOrRefuse
<1>6. LeaseMoves(r, w)
  BY <1>1, <1>4, LeaseKept DEF Under, Working
<1>7. ProcessSound(r, w)
  BY <1>4 DEF SuspectInv, ProcessSound, RecorderSound, RecorderSteps
<1> QED BY <1>1, <1>4, <1>5, <1>6, <1>7, SuspectPlanStep

-----------------------------------------------------------------------------
(* An operator *)
LEMMA PickStep ==
  ASSUME SuspectInv, NEW o \in Resolvers, PickAnomaly(o)
  PROVE  SuspectInv'
<1> USE Apart
<1>1. /\ anomalies' = anomalies /\ ingestion' \in Modes \cup {"none", "open"} /\ rewritten' \subseteq {F2}
      /\ leases' = leases /\ work[o].pc = "rest" /\ anomalies \in Seq(Row)
  BY DEF PickAnomaly, SuspectInv, SuspectTyped
<1>2. PICK target \in DOMAIN anomalies \cup {F2}, mode \in Modes :
        work' = [work EXCEPT ![o] = [Resting EXCEPT !.pc = "lease", !.target = target, !.mode = mode]]
  BY DEF PickAnomaly
<1>3. PICK w : w = [Resting EXCEPT !.pc = "lease", !.target = target, !.mode = mode]
  OBVIOUS
<1>4. target \in Nat
  BY <1>1 DEF F2
<1>5. w \in ProcessState /\ w.pc = "lease" /\ w.target = target
  BY <1>3, <1>4 DEF Resting, ProcessState, ResolverSteps
<1>6. LeaseMoves(o, w)
  BY <1>1, <1>5, LeaseKept DEF Under, Working
<1>7. ProcessSound(o, w)
  BY <1>5 DEF ProcessSound, ResolverSound, ResolverSteps, Deciding
<1> QED BY <1>1, <1>2, <1>3, <1>5, <1>6, <1>7, SuspectPlanStep

LEMMA LeaseAnomalyStep ==
  ASSUME SuspectInv, NEW o \in Resolvers, LeaseAnomaly(o)
  PROVE  SuspectInv'
<1> USE Apart
<1>1. /\ anomalies' = anomalies /\ ingestion' \in Modes \cup {"none", "open"} /\ rewritten' \subseteq {F2}
      /\ work[o].pc = "lease"
  BY DEF LeaseAnomaly, At, periodHistory, SuspectInv, SuspectTyped
<1>2. CASE leases[KeyOf(o)] = Nobody /\ leases' = [leases EXCEPT ![KeyOf(o)] = o] /\ Goes(o, "reread")
  <2>1. PICK w \in ProcessState :
          work' = [work EXCEPT ![o] = w] /\ w.pc = "reread" /\ w.target = work[o].target
    BY <1>2, GoesFields DEF ResolverSteps
  <2>2. KeyOf(o) = KeyFor(o, w)
    BY <2>1 DEF KeyOf, KeyFor
  <2>5. work[o].pc \notin Working /\ w.pc \in Working
    BY <1>1, <2>1 DEF Working
  <2>3. LeaseMoves(o, w)
    BY <1>2, <2>2, <2>5, LeaseTaken
  <2>4. ProcessSound(o, w)
    BY <1>1, <2>1 DEF SuspectInv, ProcessSound, ResolverSound, ResolverSteps, Deciding
  <2> QED BY <1>1, <2>1, <2>3, <2>4, SuspectPlanStep
<1>3. CASE Ends(o) /\ leases' = leases
  BY <1>1, <1>3, SuspectEndStep DEF Working
<1> QED BY <1>2, <1>3 DEF LeaseAnomaly

\* An operator goes on under its lease with the row still open.
LEMMA DecidingStep ==
  ASSUME SuspectInv, NEW o \in Resolvers, NEW pc \in Deciding, Goes(o, pc), leases' = leases,
         work[o].pc \in Deciding \cup {"reread"}, work[o].target # F2 => ~Resolved(anomalies[work[o].target]),
         anomalies' = anomalies, ingestion' \in Modes \cup {"none", "open"}, rewritten' \subseteq {F2}
  PROVE  SuspectInv'
<1> USE Apart
<1>1. PICK w \in ProcessState :
        work' = [work EXCEPT ![o] = w] /\ w.pc = pc /\ w.target = work[o].target
  BY GoesFields DEF ResolverSteps
<1>2. LeaseMoves(o, w)
  BY <1>1, LeaseKept DEF Under, KeyFor, Deciding, Working
<1>3. ProcessSound(o, w)
  BY <1>1 DEF SuspectInv, ProcessSound, ResolverSound, ResolverSteps, Deciding
<1> QED BY <1>1, <1>2, <1>3, SuspectPlanStep

LEMMA RereadStep ==
  ASSUME SuspectInv, NEW o \in Resolvers, RereadAnomaly(o)
  PROVE  SuspectInv'
<1>1. /\ anomalies' = anomalies /\ ingestion' \in Modes \cup {"none", "open"} /\ rewritten' \subseteq {F2}
      /\ work[o].pc = "reread"
  BY DEF RereadAnomaly, At, periodHistory, SuspectInv, SuspectTyped
<1>2. CASE Ends(o) /\ leases' = Freed(o)
  BY <1>1, <1>2, SuspectEndStep, Apart
<1>3. CASE /\ ~Resolved(Target(o)) /\ leases' = leases
           /\ \E pc \in Deciding : Goes(o, pc)
  BY <1>1, <1>3, DecidingStep DEF Target, Resolved
<1>4. \/ Ends(o) /\ leases' = Freed(o)
      \/ ~Resolved(Target(o)) /\ leases' = leases /\ \E pc \in Deciding : Goes(o, pc)
  BY DEF RereadAnomaly, Deciding
<1> QED BY <1>2, <1>3, <1>4

LEMMA RegisterResetStep ==
  ASSUME SuspectInv, NEW o \in Resolvers, RegisterReset(o)
  PROVE  SuspectInv'
<1>1. /\ anomalies' = anomalies /\ ingestion' \in Modes \cup {"none", "open"} /\ rewritten' \subseteq {F2}
      /\ work[o].pc = "reset"
  BY DEF RegisterReset, At, periodHistory, SuspectInv, SuspectTyped
<1>2. work[o].target # F2 => ~Resolved(anomalies[work[o].target])
  BY <1>1, Apart DEF SuspectInv, ProcessSound, ResolverSound, Deciding
<1>3. CASE Ends(o) /\ leases' = Freed(o)
  BY <1>1, <1>3, SuspectEndStep, Apart
<1>4. CASE Goes(o, "cascade") /\ leases' = leases
  BY <1>1, <1>2, <1>4, DecidingStep DEF Deciding
<1> QED BY <1>3, <1>4 DEF RegisterReset

LEMMA CascadeStep ==
  ASSUME SuspectInv, NEW o \in Resolvers, CascadeList(o) \/ CascadeResolve(o)
  PROVE  SuspectInv'
<1>1. work[o] \in ProcessState
  BY Apart DEF SuspectInv, SuspectTyped
<1>2. /\ anomalies' = anomalies /\ ingestion' \in Modes \cup {"none", "open"} /\ rewritten' \subseteq {F2}
      /\ work[o].pc \in {"cascade", "ingestion"} /\ leases' = leases
  BY <1>1 DEF CascadeList, CascadeResolve, At, periodHistory, SuspectInv, SuspectTyped, ProcessState
<1>3. work[o].target # F2 => ~Resolved(anomalies[work[o].target])
  BY <1>2, Apart DEF SuspectInv, ProcessSound, ResolverSound, Deciding
<1>4. \E pc \in Deciding : Goes(o, pc)
  BY DEF CascadeList, CascadeResolve, Deciding
<1> QED BY <1>2, <1>3, <1>4, DecidingStep DEF Deciding

LEMMA ResolveStep ==
  ASSUME SuspectInv, NEW o \in Resolvers, ResolveRow(o)
  PROVE  SuspectInv'
<1> USE Apart
<1>1. /\ work[o].pc = "resolve" /\ leases' = Freed(o) /\ Ends(o)
      /\ work[o] \in ProcessState /\ ResolverSound(work[o]) /\ rewritten \subseteq {F2}
  BY DEF ResolveRow, At, SuspectInv, SuspectTyped, ProcessSound
<1>2. rewritten' \subseteq {F2}
  BY <1>1 DEF ResolveRow, Target, ResolverSound, Deciding
<1>3. CASE work[o].target = F2 /\ ingestion' = work[o].mode /\ anomalies' = anomalies
  BY <1>1, <1>2, <1>3, SuspectEndStep DEF ProcessState
<1>4. CASE work[o].target # F2 /\ ingestion' = ingestion
  <2>1. PICK t, mode, regs :
          /\ t = work[o].target /\ mode = work[o].mode /\ regs \in SUBSET Registers
          /\ regs # {} <=> mode = "manual_override"
          /\ anomalies' = [anomalies EXCEPT ![t] = [@ EXCEPT !.resolution = mode, !.overridden = regs]]
    BY <1>4 DEF ResolveRow
  <2>2. t \in DOMAIN anomalies /\ mode \in Modes /\ anomalies \in Seq(Row)
    BY <1>1, <1>4, <2>1 DEF ResolverSound, ProcessState, SuspectInv, SuspectTyped
  <2>3. [anomalies[t] EXCEPT !.resolution = mode, !.overridden = regs] \in Row
    <3>1. anomalies[t] \in Row
      BY <2>2, ElementOfSeq, LenProperties
    <3> QED BY <2>1, <2>2, <3>1 DEF Row
  <2>4. anomalies' \in Seq(Row) /\ DOMAIN anomalies' = DOMAIN anomalies
    BY <2>1, <2>2, <2>3, ExceptSeq
  <2>5. \A i \in DOMAIN anomalies :
          /\ anomalies'[i].reason = anomalies[i].reason /\ anomalies'[i].told = anomalies[i].told
          /\ anomalies'[i].resolution = IF i = t THEN mode ELSE anomalies[i].resolution
          /\ anomalies'[i].overridden = IF i = t THEN regs ELSE anomalies[i].overridden
    BY <2>1, <2>2 DEF Row
  <2>6. OneRowPerReason' /\ OverriddenRows'
    BY <2>1, <2>4, <2>5 DEF OneRowPerReason, OverriddenRows, SuspectInv
  <2>7. \A i \in DOMAIN anomalies :
           /\ i \in DOMAIN anomalies' /\ anomalies'[i].reason = anomalies[i].reason
           /\ anomalies[i].told \/ Resolved(anomalies[i]) =>
                anomalies'[i].told \/ Resolved(anomalies'[i])
    BY <2>2, <2>4, <2>5 DEF Resolved, Modes
  <2>8. PICK w : w = [Resting EXCEPT !.pc = "rest"]
    OBVIOUS
  <2>9. w \in ProcessState /\ w.pc = "rest" /\ work' = [work EXCEPT ![o] = w]
    BY <1>1, <2>8, RestingFields DEF Ends, ResolverSteps
  <2>10. LeaseMoves(o, w)
    BY <1>1, <2>9, LeaseFreed DEF Working
  <2>11. ProcessSound(o, w)'
    BY <2>9 DEF ProcessSound, ResolverSound, ResolverSteps, Deciding
  <2>12. Under(o, work[o], "period")
    BY <1>1, <1>4 DEF Under, KeyFor, Working
  <2> QED BY <1>2, <1>4, <2>4, <2>6, <2>7, <2>9, <2>10, <2>11, <2>12, SuspectRowsStep
<1> QED BY <1>3, <1>4 DEF ResolveRow

-----------------------------------------------------------------------------
LEMMA SuspectStep == SuspectInv /\ [SuspectNext]_suspectVars => SuspectInv'
<1> SUFFICES ASSUME SuspectInv, [SuspectNext]_suspectVars PROVE SuspectInv'
  OBVIOUS
<1>1. ASSUME NEW r \in Recorders,
             \/ DerivePeriod(r) \/ LeasePeriod(r) \/ DedupByRow(r)
             \/ CreateRow(r) \/ TellOperator(r) \/ ReleasePeriod(r) \/ PriceOrRefuse(r)
      PROVE  SuspectInv'
  BY <1>1, DeriveStep, LeasePeriodStep, DedupStep, CreateStep, TellStep, ReleaseStep, PriceStep
<1>2. ASSUME NEW o \in Resolvers,
             \/ PickAnomaly(o) \/ LeaseAnomaly(o) \/ RereadAnomaly(o) \/ RegisterReset(o)
             \/ CascadeList(o) \/ CascadeResolve(o) \/ ResolveRow(o)
      PROVE  SuspectInv'
  BY <1>2, PickStep, LeaseAnomalyStep, RereadStep, RegisterResetStep, CascadeStep, ResolveStep
<1>3. ASSUME NEW p \in Processes, WorkEnds(p) PROVE SuspectInv'
  <2>1. /\ Ends(p) /\ leases' = Freed(p) /\ anomalies' = anomalies
        /\ ingestion' \in Modes \cup {"none", "open"} /\ rewritten' \subseteq {F2}
    BY <1>3 DEF WorkEnds, periodHistory, SuspectInv, SuspectTyped
  <2> QED BY <2>1, SuspectEndStep
<1>4. CASE UNCHANGED suspectVars
  BY <1>4 DEF suspectVars, SuspectInv, SuspectTyped, LeaseHeld, Under, KeyFor, OneRowPerReason,
     OverriddenRows, ProcessSound, RecorderSound, ResolverSound, RowsFor, Resolved, Current
<1> QED BY <1>1, <1>2, <1>3, <1>4 DEF SuspectNext

(* The inductive invariant says what is promised of the period.              *)
LEMMA SuspectInvSafe == SuspectInv => SuspectTypeOK /\ RecordStands
<1> SUFFICES ASSUME SuspectInv PROVE SuspectTypeOK /\ RecordStands
  OBVIOUS
<1>1. SuspectTypeOK
  <2>1. \A i \in DOMAIN anomalies : anomalies[i].resolution \in Modes \cup {"open"}
    <3>1. \A i \in DOMAIN anomalies : anomalies[i] \in Row
      BY ElementOfSeq, LenProperties DEF SuspectInv, SuspectTyped
    <3> QED BY <3>1 DEF Row
  <2>2. \A p \in Processes : leases["period"] = p => work[p].pc \in Working
    BY DEF SuspectInv, LeaseHeld, Under, Locks
  <2> QED BY <2>1, <2>2 DEF SuspectTypeOK, SuspectInv, SuspectTyped, OverriddenRows, Working
<1>2. RecordStands
  <2>1. rewritten \cap DOMAIN anomalies = {}
    BY DEF SuspectInv, SuspectTyped, F2
  <2>2. \A r \in Recorders : \A reason \in work[r].recorded :
          \E i \in RowsFor(reason) : anomalies[i].told \/ Resolved(anomalies[i])
    BY Apart DEF SuspectInv, ProcessSound, RecorderSound
  <2> QED BY <2>1, <2>2 DEF RecordStands, SuspectInv, OneRowPerReason
<1> QED BY <1>1, <1>2

(* However many generations and operators there are, the rows are well       *)
(* formed and the holder of the period's lease is at work under it           *)
(* (consumption/resolve.go, service/billing/generate.go).                    *)
THEOREM SuspectTypeCorrect == SuspectSpec => []SuspectTypeOK
<1>1. SuspectSpec => []SuspectInv
  BY SuspectInitInv, SuspectStep, PTL DEF SuspectSpec
<1> QED BY <1>1, SuspectInvSafe, PTL

(* Of the period's own rows: one per reason, no operator's answer overwritten *)
(* by another's, and no reason passed by a run that is neither answered nor   *)
(* told, whoever races and wherever the work ends (consumption/resolve.go,    *)
(* anomalies.go).                                                             *)
THEOREM RecordStandsCorrect == SuspectSpec => []RecordStands
<1>1. SuspectSpec => []SuspectInv
  BY SuspectInitInv, SuspectStep, PTL DEF SuspectSpec
<1> QED BY <1>1, SuspectInvSafe, PTL

-----------------------------------------------------------------------------
(* Each service starts in its initial state, whichever is chosen to run.    *)
LEMMA ServicesStart ==
  ServicesInit => SessionInit /\ KeyInit /\ TokenInit /\ MeterInit /\ SuspectInit
BY DEF ServicesInit

(* A step of the composed run is a step of the chosen service, and of every  *)
(* other a stutter.                                                          *)
LEMMA ServicesStep ==
  [ServicesNext]_allVars =>
    /\ [SessionNext]_sessionVars /\ [KeyNext]_keyVars /\ [TokenNext]_tokenVars
    /\ [MeterNext]_meterVars /\ [SuspectNext]_suspectVars
BY DEF ServicesNext, allVars

(* The bookkeeping of the composed run: its behaviours are behaviours of     *)
(* each service, because only the chosen one takes steps.                    *)
LEMMA ServicesApart ==
  ServicesSpec => SessionSpec /\ KeySpec /\ TokenSpec /\ MeterSpec /\ SuspectSpec
BY ServicesStart, ServicesStep, PTL DEF ServicesSpec, SessionSpec, KeySpec, TokenSpec, MeterSpec, SuspectSpec

(* All the while, the state of every service is of its type.                *)
THEOREM ServicesTypeCorrect == ServicesSpec => []ServicesTypeOK
<1>1. SessionTypeOK /\ KeyTypeOK /\ TokenTypeOK /\ MeterTypeOK /\ SuspectTypeOK => ServicesTypeOK
  BY DEF ServicesTypeOK
<1> QED BY <1>1, ServicesApart, SessionTypeCorrect, KeyTypeCorrect, TokenTypeCorrect,
           MeterTypeCorrect, SuspectTypeCorrect, PTL
=============================================================================
