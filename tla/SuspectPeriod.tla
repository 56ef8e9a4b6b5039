----------------------------- MODULE SuspectPeriod -----------------------------
(***************************************************************************)
(* ONE billing period of ONE analyzer whose consumption may be suspect.    *)
(* Recorders are bill generations: each derives the period, records one    *)
(* anomaly and one operator message per reason under the period's lease,   *)
(* and is refused or not.  Resolvers are operators answering an anomaly    *)
(* under the same lease.  Ingestion's own anomaly (the F2 row) lies within *)
(* the period, begins at another instant and so has another lease.  The    *)
(* analyzer has readings before the period: a gap is never before its      *)
(* installation.  What is done under a lease ends within its TTL.          *)
(***************************************************************************)
EXTENDS Integers, Sequences

CONSTANTS
  Recorders, Resolvers,
  Nobody,          \* no process holds a lease
  Registers,       \* the registers of the period
  Verdicts,        \* what a derivation may make of the registers
  MaxPicks         \* bound of the answers given by operators

ASSUME SuspectAssumption ==
  /\ Verdicts \subseteq [Registers -> {"sound", "negative_delta", "meter_reset"}]
  /\ Recorders \cap Resolvers = {} /\ Nobody \notin Recorders \cup Resolvers
  /\ MaxPicks \in Nat

Processes == Recorders \cup Resolvers
AnomalyReasons == {"negative_delta", "meter_reset", "missing_readings"}
ReasonRank == [negative_delta |-> 1, meter_reset |-> 2, missing_readings |-> 3]
Modes == {"reset_registered", "manual_override", "accepted"}
F2 == 0   \* F2's row, among the targets of an operator

VARIABLES
  anomalies,   \* consumption_anomalies of the period, in order of creation
  ingestion,   \* F2's row: "none", "open" or its resolution
  leases,      \* who holds the lease of the period, and that of F2's row
  work,        \* the processes, with their locals
  (* history variables, read by no action's guard but the bounds *)
  picks,       \* answers begun
  rewritten    \* rows resolved a second time

suspectVars == <<anomalies, ingestion, leases, work, picks, rewritten>>
periodHistory == <<picks, rewritten>>

Resting == [pc |-> "rest", suspect |-> {}, gap |-> FALSE, accepted |-> {}, todo |-> {},
            recorded |-> {}, target |-> 0, mode |-> "accepted", verdict |-> "none"]

SuspectInit ==
  /\ anomalies = <<>> /\ ingestion \in {"none", "open"}
  /\ leases = [key \in {"period", "ingestion"} |-> Nobody]
  /\ work = [p \in Processes |-> Resting]
  /\ picks = 0 /\ rewritten = {}

At(p, pc) == work[p].pc = pc
Goes(p, pc) == work' = [work EXCEPT ![p].pc = pc]
Ends(p) == work' = [work EXCEPT ![p] = [Resting EXCEPT !.pc = IF p \in Recorders THEN "done" ELSE "rest"]]

KeyOf(p) == IF p \in Resolvers /\ work[p].target = F2 THEN "ingestion" ELSE "period"
Freed(p) == [leases EXCEPT ![KeyOf(p)] = IF @ = p THEN Nobody ELSE @]

Resolved(row) == row.resolution # "open"
RowsFor(reason) == {i \in DOMAIN anomalies : anomalies[i].reason = reason}
Answered(mode) == {i \in DOMAIN anomalies : anomalies[i].resolution = mode}

(***************************************************************************)
(* A bill generation: PeriodConsumptionAndRecord, then the block           *)
(***************************************************************************)
(* The derivation may come out anyhow: readings may have arrived since the   *)
(* last.  Resolved overrides then make their registers sound, or the gap a   *)
(* row; accepted registers stay suspect.                                     *)
DerivePeriod(r) ==
  /\ At(r, "rest")
  /\ \E gap \in BOOLEAN, verdict \in Verdicts :
       LET overrides == {i \in Answered("manual_override") : anomalies[i].reason # "missing_readings"}
           overridden == UNION {anomalies[i].overridden : i \in overrides}
           accepts == {i \in Answered("accepted") : anomalies[i].reason # "missing_readings"}
           suspect == {<<reg, verdict[reg]>> : reg \in {x \in Registers \ overridden : verdict[x] # "sound"}}
           open == gap /\ Answered("manual_override") \cap RowsFor("missing_readings") = {}
           reasons == IF open THEN {"missing_readings"} ELSE {s[2] : s \in suspect}
       IN /\ gap => suspect = {}
          /\ work' = [work EXCEPT ![r] = [Resting EXCEPT
               !.suspect = suspect, !.gap = open,
               !.accepted = UNION {anomalies[i].registers : i \in accepts},
               !.todo = reasons,
               !.pc = IF reasons = {} THEN "bill" ELSE "lease"]]
  /\ UNCHANGED <<anomalies, ingestion, leases, periodHistory>>

(* recordSuspectPeriod: all the reasons under one lease; a lease that cannot *)
(* be had fails the run.                                                     *)
LeasePeriod(r) ==
  /\ At(r, "lease")
  /\ \/ /\ leases["period"] = Nobody
        /\ leases' = [leases EXCEPT !["period"] = r] /\ Goes(r, "list")
     \/ /\ leases["period"] # Nobody
        /\ Ends(r) /\ UNCHANGED leases
  /\ UNCHANGED <<anomalies, ingestion, periodHistory>>

(* The reasons are recorded in a fixed order.                                *)
Current(w) == CHOOSE x \in w.todo : \A y \in w.todo : ReasonRank[x] <= ReasonRank[y]
NextReason(w) == [w EXCEPT !.todo = @ \ {Current(w)}, !.recorded = @ \cup {Current(w)},
                           !.pc = IF w.todo = {Current(w)} THEN "release" ELSE "list"]

(* The deduplication reads resolved and open rows alike; an open row whose   *)
(* message was never appended still gets it.                                 *)
\* Mutant: the deduplication sees open rows only.
DedupByOpen(r) ==
  /\ At(r, "list")
  /\ LET known == {i \in RowsFor(Current(work[r])) : ~Resolved(anomalies[i])} IN
     \/ known = {} /\ Goes(r, "create")
     \/ \E i \in known :
          work' = [work EXCEPT ![r] = IF anomalies[i].told THEN NextReason(@)
                                      ELSE [@ EXCEPT !.pc = "tell", !.target = i]]
  /\ UNCHANGED <<anomalies, ingestion, leases, periodHistory>>

DedupByRow(r) ==
  /\ At(r, "list")
  /\ LET known == RowsFor(Current(work[r])) IN
     \/ known = {} /\ Goes(r, "create")
     \/ \E i \in known :
          work' = [work EXCEPT ![r] = IF Resolved(anomalies[i]) \/ anomalies[i].told THEN NextReason(@)
                                      ELSE [@ EXCEPT !.pc = "tell", !.target = i]]
  /\ UNCHANGED <<anomalies, ingestion, leases, periodHistory>>

CreateRow(r) ==
  /\ At(r, "create")
  /\ LET reason == Current(work[r])
     IN anomalies' = Append(anomalies,
          [reason |-> reason, resolution |-> "open", told |-> FALSE, overridden |-> {},
           registers |-> {s[1] : s \in {x \in work[r].suspect : x[2] = reason}}])
  /\ work' = [work EXCEPT ![r].pc = "tell", ![r].target = Len(anomalies) + 1]
  /\ UNCHANGED <<ingestion, leases, periodHistory>>

(* AppendMessage for the row just created, or found without one.             *)
TellOperator(r) ==
  /\ At(r, "tell")
  /\ anomalies' = [anomalies EXCEPT ![work[r].target].told = TRUE]
  /\ work' = [work EXCEPT ![r] = NextReason(@)]
  /\ UNCHANGED <<ingestion, leases, periodHistory>>

ReleasePeriod(r) ==
  /\ At(r, "release")
  /\ leases' = Freed(r) /\ Goes(r, "bill")
  /\ UNCHANGED <<anomalies, ingestion, periodHistory>>

(* computeSubject: no row, a suspect row and an open anomaly each refuse.    *)
Refusal(w) ==
  CASE w.gap -> "no_data"
    [] w.suspect # {} -> "suspect"
    [] ingestion = "open" \/ Answered("open") # {} -> "anomaly"
    [] OTHER -> "billed"
PriceOrRefuse(r) ==
  /\ At(r, "bill")
  /\ work' = [work EXCEPT ![r].pc = "done", ![r].target = 0, ![r].verdict = Refusal(work[r])]
  /\ UNCHANGED <<anomalies, ingestion, leases, periodHistory>>

(***************************************************************************)
(* An operator: ResolveAnomaly                                             *)
(***************************************************************************)
(* The first read of the row, only for the key of its lease.                 *)
PickAnomaly(o) ==
  /\ work[o].pc = "rest" /\ picks < MaxPicks
  /\ picks' = picks + 1
  /\ \E target \in DOMAIN anomalies \cup (IF ingestion = "none" THEN {} ELSE {F2}), mode \in Modes :
       work' = [work EXCEPT ![o] = [Resting EXCEPT !.pc = "lease", !.target = target, !.mode = mode]]
  /\ UNCHANGED <<anomalies, ingestion, leases, rewritten>>

LeaseAnomaly(o) ==
  /\ At(o, "lease")
  /\ \/ /\ leases[KeyOf(o)] = Nobody
        /\ leases' = [leases EXCEPT ![KeyOf(o)] = o] /\ Goes(o, "reread")
     \/ /\ leases[KeyOf(o)] # Nobody
        /\ Ends(o) /\ UNCHANGED leases
  /\ UNCHANGED <<anomalies, ingestion, periodHistory>>

Target(o) == IF work[o].target = F2
             THEN [reason |-> "negative_delta", resolution |-> ingestion]
             ELSE anomalies[work[o].target]
MissingReadings(o) == Target(o).reason = "missing_readings"

(* Under the lease the row is read again: resolved meanwhile, a conflict; a  *)
(* gap has no meter to reset, and F2's row names no register to override.    *)
RereadAnomaly(o) ==
  /\ At(o, "reread")
  /\ LET resets == work[o].mode = "reset_registered"
         refused == \/ Resolved(Target(o)) \/ (resets /\ MissingReadings(o))
                    \/ (work[o].mode = "manual_override" /\ work[o].target = F2) IN
     \/ /\ refused
        /\ Ends(o) /\ leases' = Freed(o)
     \/ /\ ~refused
        /\ Goes(o, IF resets THEN "reset" ELSE IF MissingReadings(o) THEN "resolve" ELSE "cascade")
        /\ UNCHANGED leases
  /\ UNCHANGED <<anomalies, ingestion, periodHistory>>

(* validateAndPrepareReset: the period is derived again with the reset       *)
(* proposed, and refused unless every register comes out sound, the reset    *)
(* conflicts with none stored, and it is inserted.                           *)
RegisterReset(o) ==
  /\ At(o, "reset")
  /\ \/ Goes(o, "cascade") /\ UNCHANGED leases
     \/ Ends(o) /\ leases' = Freed(o)
  /\ UNCHANGED <<anomalies, ingestion, periodHistory>>

(* F2's row within the period is listed, then resolved the same way.         *)
CascadeList(o) ==
  /\ At(o, "cascade")
  /\ Goes(o, IF work[o].target # F2 /\ ingestion = "open" THEN "ingestion" ELSE "resolve")
  /\ UNCHANGED <<anomalies, ingestion, leases, periodHistory>>
CascadeResolve(o) ==
  /\ At(o, "ingestion")
  /\ ingestion' = work[o].mode
  /\ rewritten' = IF ingestion = "open" THEN rewritten ELSE rewritten \cup {F2}
  /\ Goes(o, "resolve")
  /\ UNCHANGED <<anomalies, leases, picks>>

(* Anomalies.Resolve writes the row whatever it holds.                       *)
ResolveRow(o) ==
  /\ At(o, "resolve")
  /\ rewritten' = IF Resolved(Target(o)) THEN rewritten \cup {work[o].target} ELSE rewritten
  /\ \/ /\ work[o].target = F2
        /\ ingestion' = work[o].mode /\ UNCHANGED anomalies
     \/ /\ work[o].target # F2
        /\ \E regs \in SUBSET Registers :
             /\ regs # {} <=> work[o].mode = "manual_override"
             /\ MissingReadings(o) \/ regs \subseteq Target(o).registers
             /\ anomalies' = [anomalies EXCEPT ![work[o].target] =
                                [@ EXCEPT !.resolution = work[o].mode, !.overridden = regs]]
        /\ UNCHANGED ingestion
  /\ leases' = Freed(o) /\ Ends(o)
  /\ UNCHANGED <<picks>>

(***************************************************************************)
(* Faults                                                                  *)
(***************************************************************************)
(* A repository call fails and the error returns, or the process dies and    *)
(* its lease runs out after anomalyLockTTL: either way the work ends where   *)
(* it stands.                                                                *)
WorkEnds(p) ==
  /\ work[p].pc \in {"list", "create", "tell", "reread", "cascade", "ingestion", "resolve"}
  /\ leases' = Freed(p) /\ Ends(p)
  /\ UNCHANGED <<anomalies, ingestion, periodHistory>>

SuspectNext ==
  \/ \E r \in Recorders :
       \/ DerivePeriod(r) \/ LeasePeriod(r) \/ DedupByRow(r)
       \/ CreateRow(r) \/ TellOperator(r) \/ ReleasePeriod(r) \/ PriceOrRefuse(r)
  \/ \E o \in Resolvers :
       \/ PickAnomaly(o) \/ LeaseAnomaly(o) \/ RereadAnomaly(o) \/ RegisterReset(o)
       \/ CascadeList(o) \/ CascadeResolve(o) \/ ResolveRow(o)
  \/ \E p \in Processes : WorkEnds(p)

SuspectSpec == SuspectInit /\ [][SuspectNext]_suspectVars

(***************************************************************************)
(* What is promised                                                        *)
(***************************************************************************)
(* The rows and the leases are well formed, and the holder of the period's   *)
(* lease is at work under it.                                                *)
SuspectTypeOK ==
  /\ ingestion \in Modes \cup {"none", "open"}
  /\ \A i \in DOMAIN anomalies :
       /\ anomalies[i].resolution \in Modes \cup {"open"}
       /\ anomalies[i].overridden # {} <=> anomalies[i].resolution = "manual_override"
  /\ \A p \in Processes : leases["period"] = p =>
       work[p].pc \in {"list", "create", "tell", "release", "reread", "reset", "cascade", "ingestion", "resolve"}

(* Whoever races whom over one period, and wherever their work ends: there   *)
(* is one row per reason, however often the period is derived; an operator's *)
(* answer is never overwritten by another's; and a run that got past a       *)
(* reason leaves it answered or told to an operator, even if the run that    *)
(* created the row failed before it appended the message.  This is about the *)
(* period's own rows: the row F2 that ingestion wrote has another lease, and *)
(* a cascade may overwrite the answer it was given meanwhile.                *)
RecordStands ==
  /\ \A i, j \in DOMAIN anomalies : anomalies[i].reason = anomalies[j].reason => i = j
  /\ rewritten \cap DOMAIN anomalies = {}
  /\ \A r \in Recorders : \A reason \in work[r].recorded :
       \E i \in RowsFor(reason) : anomalies[i].told \/ Resolved(anomalies[i])

(* resolve.go:29-30: an accepted period "stays unbillable-by-value but no    *)
(* longer blocks the invoice": no bill is refused for its suspect registers  *)
(* when all of them are accepted.                                            *)
AcceptedUnblocks ==
  \A r \in Recorders : work[r].verdict = "suspect" =>
    \E s \in work[r].suspect : s[1] \notin work[r].accepted
=============================================================================
