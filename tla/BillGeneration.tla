----------------------------- MODULE BillGeneration -----------------------------
(***************************************************************************)
(* The bills of ONE subject (a building) and ONE period: the generate task *)
(* with its fixed id, the executions that compute and persist a bill, the  *)
(* versions they leave behind, and the render task of each version.        *)
(*                                                                         *)
(* The inputs of a bill (readings, tariff, market prices) are a version    *)
(* number; Quality says what a computation from each version yields.  An   *)
(* execution that lost its lease goes on beside the one that replaced it.  *)
(***************************************************************************)
EXTENDS Integers, Sequences

CONSTANTS
  Execs,      \* executions that may be running, at most one of them owning the task
  NoExec,     \* the task is owned by none
  MaxInputs,  \* bound: the last version of the inputs
  Quality,    \* Quality[v]: "unusable" (ComputeError), "flagged" or "issued"
  MaxBills,   \* bound: an insert beyond it fails
  Printed,    \* bound: the bills whose PDF is followed
  Faults      \* which faults occur: "fail" (an error or a death), "lease", "render"

Inputs == 0 .. MaxInputs
Ids == 1 .. MaxBills

ASSUME BillingAssumption ==
  /\ NoExec \notin Execs /\ MaxInputs \in Nat
  /\ MaxBills \in Nat /\ Printed \subseteq Ids /\ Quality \in [Inputs -> {"unusable", "flagged", "issued"}]

VARIABLES
  inputs,     \* the version of the inputs
  bills,      \* the versions of the bill, in the order of their insertion
  gen,        \* the task billing.generate:<subject>:<period>
  exec,       \* exec[x]: an execution of it
  render,     \* render[b]: the task billing.render_pdf:<b>
  repaired    \* history: bills whose hourly rows were written by repairHourlyDetail

vars == <<inputs, bills, gen, exec, render, repaired>>

Missing == -1

\* hourly is the version of the inputs the hourly rows were priced from.
Bill == [status : {"issued", "flagged", "superseded"}, inputs : Inputs,
         hourly : Inputs \cup {Missing}, pdf : BOOLEAN]

\* Retries are not counted: a failed task is queued again or archived.
Task == [state : {"none", "queued", "active", "archived"}, force : BOOLEAN,
         owner : Execs \cup {NoExec}]

Steps == {"read", "compute", "persist", "detail", "reprice", "rewrite", "report"}

\* existing and saved name bills, 0 for none.
Execution ==
  [step : {"idle"} \cup Steps, force : BOOLEAN, existing : 0 .. MaxBills,
   computed : Inputs, saved : 0 .. MaxBills]

NoTask == [state |-> "none", force |-> FALSE, owner |-> NoExec]
Idle == [step |-> "idle", force |-> FALSE, existing |-> 0, computed |-> 0, saved |-> 0]

Written == 1 .. Len(bills)
Live == {b \in Written : bills[b].status # "superseded"}

Init ==
  /\ inputs = 0 /\ bills = <<>> /\ gen = NoTask
  /\ exec = [x \in Execs |-> Idle]
  /\ render = [b \in Printed |-> "none"]
  /\ repaired = {}

\* Readings or prices arrive, an anomaly is resolved, the tariff is changed.
InputsChange ==
  /\ inputs < MaxInputs /\ inputs' = inputs + 1
  /\ UNCHANGED <<bills, gen, exec, render, repaired>>

--------------------------------------------------------------------------------
(* Requests.                                                               *)

Queued(f) == [NoTask EXCEPT !.state = "queued", !.force = f]

\* Enqueue under a fixed id: a conflict, also with an archived task, is success.
EnqueueRender(bs) == [b \in Printed |-> IF b \in bs /\ render[b] = "none"
                                    THEN "queued" ELSE render[b]]

\* MUTANT of Dispatch: it does not look for live bills without their PDF.
DispatchGenerateOnly ==
  /\ gen' = IF gen.state = "none" THEN Queued(FALSE) ELSE gen
  /\ UNCHANGED <<inputs, bills, exec, render, repaired>>

\* The daily billing.dispatch, while the period is in its lookback: a generate task,
\* and a render task for every live bill without its PDF.
Dispatch ==
  /\ gen' = IF gen.state = "none" THEN Queued(FALSE) ELSE gen
  /\ render' = EnqueueRender({b \in Live : ~bills[b].pdf})
  /\ UNCHANGED <<inputs, bills, exec, repaired>>

\* POST /bills/compute: EnqueueReplacingFinished deletes an archived task first.
Compute(f) ==
  /\ gen.state \in {"none", "archived"}
  /\ gen' = Queued(f)
  /\ UNCHANGED <<inputs, bills, exec, render, repaired>>

--------------------------------------------------------------------------------
(* The generate task.                                                      *)

\* What asynq makes of a task whose owner returned an error, died or lost its lease.
Retried == {Queued(gen.force), [NoTask EXCEPT !.state = "archived"]}

\* The end of an execution counts only for the one that still owns the task.
EndsAs(x, t) ==
  /\ gen' = IF gen.owner = x THEN t ELSE gen
  /\ exec' = [exec EXCEPT ![x] = Idle]

\* JobGenerator.Generate starts (StartRun).
Start(x) ==
  /\ gen.state = "queued" /\ exec[x].step = "idle"
  /\ gen' = [gen EXCEPT !.state = "active", !.owner = x]
  /\ exec' = [exec EXCEPT ![x] = [Idle EXCEPT !.step = "read", !.force = gen.force]]
  /\ UNCHANGED <<inputs, bills, render, repaired>>

\* RecomputeFlagged is always on for the task; an issued bill needs Force.
Supersedes(x, b) == exec[x].force \/ bills[b].status = "flagged"

\* What is left is to report, and to ask for the PDF of a bill that was created.
Reporting(x, b) == [exec EXCEPT ![x] = [Idle EXCEPT !.step = "report", !.saved = b]]

\* Bills.Current: no live bill, one to supersede, one to repair, or one to keep.
Read(x) ==
  /\ exec[x].step = "read"
  /\ IF Live = {} THEN exec' = [exec EXCEPT ![x].step = "compute"]
     ELSE \E b \in Live :
            exec' = IF Supersedes(x, b) THEN [exec EXCEPT ![x].existing = b, ![x].step = "compute"]
                    ELSE IF bills[b].hourly = Missing
                         THEN [exec EXCEPT ![x].existing = b, ![x].step = "reprice"]
                         ELSE Reporting(x, 0)
  /\ UNCHANGED <<inputs, bills, gen, render, repaired>>

\* MUTANT of Priced: a ComputeError does not stop the generation.
PricedAnyway(x) ==
  /\ exec[x].step \in {"compute", "reprice"}
  /\ exec' = [exec EXCEPT ![x].computed = inputs,
                          ![x].step = IF @ = "compute" THEN "persist" ELSE "rewrite"]
  /\ UNCHANGED <<inputs, bills, gen, render, repaired>>

\* computeSubject succeeds.
Priced(x) ==
  /\ exec[x].step \in {"compute", "reprice"} /\ Quality[inputs] # "unusable"
  /\ exec' = [exec EXCEPT ![x].computed = inputs,
                          ![x].step = IF @ = "compute" THEN "persist" ELSE "rewrite"]
  /\ UNCHANGED <<inputs, bills, gen, render, repaired>>

\* A ComputeError: the run has failed and SkipRetry archives the task.
ComputeError(x) ==
  /\ exec[x].step \in {"compute", "reprice"} /\ Quality[inputs] = "unusable"
  /\ EndsAs(x, [NoTask EXCEPT !.state = "archived"])
  /\ UNCHANGED <<inputs, bills, render, repaired>>

NewBill(x) == [status |-> Quality[exec[x].computed], inputs |-> exec[x].computed,
               hourly |-> Missing, pdf |-> FALSE]

Saved(x) == [exec EXCEPT ![x] = [Idle EXCEPT !.step = "detail", !.saved = Len(bills) + 1,
                                             !.computed = exec[x].computed]]

\* MUTANT of Occupied: the unique index on live bills is gone.
OccupiedNever == FALSE

\* The partial unique index: the subject and period have a live bill.
Occupied == Live # {}

Create(x) ==
  /\ exec[x].step = "persist" /\ exec[x].existing = 0
  /\ ~Occupied /\ Len(bills) < MaxBills
  /\ bills' = Append(bills, NewBill(x)) /\ exec' = Saved(x)
  /\ UNCHANGED <<inputs, gen, render, repaired>>

\* MUTANT of CreateLoses: the loser goes on to write its hourly rows.
CreateLosesWrites(x) ==
  /\ exec[x].step = "persist" /\ exec[x].existing = 0 /\ Occupied
  /\ \E b \in Live : exec' = [exec EXCEPT ![x].step = "detail", ![x].saved = b]
  /\ UNCHANGED <<inputs, bills, gen, render, repaired>>

\* ErrConflict: a concurrent Generate won; its bill is the answer, not created here.
CreateLoses(x) ==
  /\ exec[x].step = "persist" /\ exec[x].existing = 0 /\ Occupied
  /\ exec' = Reporting(x, 0)
  /\ UNCHANGED <<inputs, bills, gen, render, repaired>>

\* MUTANT of Replaced: whatever bill is live now is superseded.
ReplacedCurrent(x) == Live

\* Supersede marks the bill that was READ, if it is still live.
Replaced(x) == {exec[x].existing} \cap Live

\* One transaction: the old bill is marked and the new one inserted.
Supersede(x) ==
  /\ exec[x].step = "persist" /\ exec[x].existing # 0 /\ Len(bills) < MaxBills
  /\ \E b \in Replaced(x) : bills' = Append([bills EXCEPT ![b].status = "superseded"], NewBill(x))
  /\ exec' = Saved(x)
  /\ UNCHANGED <<inputs, gen, render, repaired>>

\* BillMarkSuperseded finds no row: ErrNotFound, and SkipRetry archives the task.
SupersedeLoses(x) ==
  /\ exec[x].step = "persist" /\ exec[x].existing # 0 /\ Replaced(x) = {}
  /\ EndsAs(x, [NoTask EXCEPT !.state = "archived"])
  /\ UNCHANGED <<inputs, bills, render, repaired>>

\* ReplaceHourlyDetail of a bill just saved, or of a live one whose rows were missing.
WriteDetail(x) ==
  /\ exec[x].step = "detail"
  /\ bills' = [bills EXCEPT ![exec[x].saved].hourly = exec[x].computed]
  /\ exec' = Reporting(x, exec[x].saved)
  /\ UNCHANGED <<inputs, gen, render, repaired>>

Repair(x) ==
  /\ exec[x].step = "rewrite"
  /\ bills' = [bills EXCEPT ![exec[x].existing].hourly = exec[x].computed]
  /\ repaired' = repaired \cup {exec[x].existing}
  /\ exec' = Reporting(x, 0)
  /\ UNCHANGED <<inputs, gen, render>>

\* notify, FinishRun, and a render task if the bill is new; the id is free again.
Report(x) ==
  /\ exec[x].step = "report"
  /\ render' = EnqueueRender({exec[x].saved})
  /\ EndsAs(x, NoTask)
  /\ UNCHANGED <<inputs, bills, repaired>>

\* A read or a write fails, the insert beyond the bound too, or the worker dies.
Fails(x) ==
  /\ exec[x].step # "idle"
  /\ "fail" \in Faults \/ (exec[x].step = "persist" /\ Len(bills) = MaxBills)
  /\ \E t \in Retried : EndsAs(x, t)
  /\ UNCHANGED <<inputs, bills, render, repaired>>

\* The worker stalls past its lease: the task is recovered, the execution goes on.
LeaseLost ==
  /\ "lease" \in Faults /\ gen.state = "active"
  /\ gen' \in Retried
  /\ UNCHANGED <<inputs, bills, exec, render, repaired>>

--------------------------------------------------------------------------------
(* The render task of a bill.                                              *)

\* Write to a temporary file, rename, SetPDFPath.
Render(b) ==
  /\ render[b] = "queued"
  /\ bills' = [bills EXCEPT ![b].pdf = TRUE]
  /\ render' = [render EXCEPT ![b] = "none"]
  /\ UNCHANGED <<inputs, gen, exec, repaired>>

\* Every retry fails.
RenderFails(b) ==
  /\ "render" \in Faults /\ render[b] = "queued"
  /\ render' = [render EXCEPT ![b] = "archived"]
  /\ UNCHANGED <<inputs, bills, gen, exec, repaired>>

--------------------------------------------------------------------------------
Generating(x) ==
  \/ Start(x) \/ Read(x) \/ Priced(x) \/ ComputeError(x) \/ Create(x) \/ CreateLoses(x)
  \/ Supersede(x) \/ SupersedeLoses(x) \/ WriteDetail(x) \/ Repair(x) \/ Report(x)
  \/ Fails(x)

Rendering(b) == Render(b) \/ RenderFails(b)

Next ==
  \/ InputsChange \/ Dispatch \/ LeaseLost
  \/ \E f \in BOOLEAN : Compute(f)
  \/ \E x \in Execs : Generating(x)
  \/ \E b \in Printed : Rendering(b)

Spec == Init /\ [][Next]_vars

\* Workers keep taking and executing tasks; billing.dispatch comes every day.
Fairness ==
  /\ WF_vars(Dispatch)
  /\ \A x \in Execs : WF_vars(Generating(x))
  /\ \A b \in Printed : WF_vars(Rendering(b))

FairSpec == Spec /\ Fairness

--------------------------------------------------------------------------------
\* Types; the owner of an active task is running it.
TypeOK ==
  /\ inputs \in Inputs
  /\ bills \in Seq(Bill) /\ Len(bills) <= MaxBills
  /\ gen \in Task /\ exec \in [Execs -> Execution]
  /\ render \in [Printed -> {"none", "queued", "archived"}]
  /\ repaired \subseteq Ids

\* Once it has been billed, a subject has exactly one live bill for the period,
\* whatever executions race, die or are retried (Create and Supersede).
AlwaysBilledOnce ==
  bills # <<>> => \E b \in Live : Live = {b}

\* A bill that was issued is superseded only at the request of somebody who forces
\* it: recomputing flagged bills never replaces an issued one (R114).
IssuedStands ==
  [][\A b \in Written :
       bills[b].status = "issued" /\ bills'[b].status = "superseded" =>
         \E x \in Execs : exec[x].force /\ exec[x].existing = b /\ exec[x].step = "persist"]_vars

\* The hourly rows of a bill are priced from the inputs the bill was computed
\* from, unless they went missing and were repaired later (M-9).
DetailMatchesBill ==
  \A b \in Written : bills[b].hourly \in {Missing, bills[b].inputs} \/ b \in repaired

\* A bill that stays live gets its PDF, also when the worker died before it had
\* asked for one, unless its render task is archived (M-9).
Rendered ==
  \A b \in Printed :
    b \in Live ~> b \notin Live \/ bills[b].pdf \/ render[b] = "archived"

\* job/billing.go: "each dispatch retries, so a failing or flagged period is not
\* stuck forever": a period that is dispatched every day is billed once its inputs
\* have become complete.
NotStuck ==
  <>[](Quality[inputs] = "issued")
    => <>(\E b \in Live : bills[b].status = "issued")

================================================================================
