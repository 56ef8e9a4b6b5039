------------------------- MODULE BillGenerationProofs -------------------------
(***************************************************************************)
(* Proofs about bill generation, for any number of executions, versions of *)
(* the inputs and bills.  AlwaysBilledOnce rests on the guards of the two  *)
(* inserts alone; the two other properties need to know what an execution  *)
(* carries from the bill it read to the bill it writes.                    *)
(***************************************************************************)
EXTENDS BillGeneration, SequenceTheorems, TLAPS

\* At most one live bill, and one as soon as there is a bill at all.
OneLive ==
  /\ \A b, c \in Live : b = c
  /\ bills # <<>> => Live # {}

\* What execution e knows of the bills in the sequence bs.
Knows(e, bs) ==
  /\ e.existing <= Len(bs) /\ e.saved <= Len(bs)
  /\ e.step = "read" => e.existing = 0
  /\ e.step \in {"reprice", "rewrite"} => e.existing # 0
  /\ e.step = "persist" => Quality[e.computed] # "unusable"
  /\ e.step = "detail" => e.saved # 0 /\ bs[e.saved].inputs = e.computed
  /\ e.step \in {"compute", "persist"} /\ e.existing # 0 =>
       (e.force \/ bs[e.existing].status # "issued")

ExecsSound == \A x \in Execs : Knows(exec[x], bills)

RenderSound == \A b \in Printed : render[b] = "queued" => b \in Written

BillInv ==
  TypeOK /\ OneLive /\ ExecsSound /\ RenderSound /\ DetailMatchesBill

LEMMA IdleOK == Idle \in Execution /\ (\A bs \in Seq(Bill) : Knows(Idle, bs))
BY BillingAssumption DEF Idle, Execution, Steps, Inputs, Knows

LEMMA TasksOK ==
  /\ NoTask \in Task
  /\ \A f \in BOOLEAN : Queued(f) \in Task
  /\ \A s \in {"none", "queued", "active", "archived"} : [NoTask EXCEPT !.state = s] \in Task
BY DEF NoTask, Queued, Task

LEMMA BillInitInv == Init => BillInv
<1> SUFFICES ASSUME Init PROVE BillInv
  OBVIOUS
<1>1. Written = {} /\ Live = {}
  BY DEF Init, Written, Live
<1>2. TypeOK
  <2>1. bills \in Seq(Bill) /\ Len(bills) <= MaxBills
    BY BillingAssumption, EmptySeq DEF Init
  <2>2. inputs \in Inputs /\ gen \in Task /\ exec \in [Execs -> Execution]
    BY IdleOK, TasksOK, BillingAssumption DEF Init, Inputs
  <2> QED
    BY <2>1, <2>2 DEF Init, TypeOK
<1>3. ExecsSound
  <2>1. bills \in Seq(Bill)
    BY EmptySeq DEF Init
  <2> QED
    BY <2>1, IdleOK DEF Init, ExecsSound
<1> QED
  BY <1>1, <1>2, <1>3 DEF Init, BillInv, OneLive, RenderSound, DetailMatchesBill

\* The bills only grow, and a bill only changes in what nobody relies on.
Grown ==
  /\ bills' \in Seq(Bill) /\ Len(bills') <= MaxBills
  /\ Len(bills) <= Len(bills')
  /\ \A b \in Written : /\ bills'[b].inputs = bills[b].inputs
                        /\ bills'[b].status \in {bills[b].status, "superseded"}

LEMMA SameGrown == ASSUME BillInv, bills' = bills PROVE Grown
BY DEF BillInv, TypeOK, Grown, Written

\* The bill that is known stays as it was known.
LEMMA KnowsStays ==
  ASSUME BillInv, Grown, NEW e \in Execution, Knows(e, bills)
  PROVE  Knows(e, bills')
<1>1. Len(bills) \in Nat /\ Len(bills') \in Nat
  BY DEF BillInv, TypeOK, Grown
<1>2. e.existing \in Nat /\ e.saved \in Nat
  BY BillingAssumption DEF Execution
<1>3. e.existing # 0 => e.existing \in Written
  BY <1>1, <1>2 DEF Knows, Written
<1>4. e.saved # 0 => e.saved \in Written
  BY <1>1, <1>2 DEF Knows, Written
<1> QED
  BY <1>1, <1>2, <1>3, <1>4 DEF Knows, Grown

\* A step of one execution: the others know what they knew.
LEMMA ExecStep ==
  ASSUME BillInv, Grown, NEW x \in Execs, NEW e \in Execution,
         exec' = [exec EXCEPT ![x] = e], Knows(e, bills')
  PROVE  exec' \in [Execs -> Execution] /\ ExecsSound'
<1>1. exec \in [Execs -> Execution]
  BY DEF BillInv, TypeOK
<1>2. ASSUME NEW y \in Execs PROVE Knows(exec'[y], bills')
  <2>1. CASE y = x
    BY <1>1, <2>1
  <2>2. CASE y # x
    BY <1>1, <2>2, KnowsStays DEF BillInv, ExecsSound
  <2> QED
    BY <2>1, <2>2
<1> QED
  BY <1>1, <1>2 DEF ExecsSound

\* The same for a step that leaves the executions alone.
LEMMA ExecsStay ==
  ASSUME BillInv, Grown, exec' = exec
  PROVE  exec' \in [Execs -> Execution] /\ ExecsSound'
BY KnowsStays DEF BillInv, TypeOK, ExecsSound

\* Steps that leave the bills, or all but their PDFs, alone.
LEMMA BillsStay ==
  ASSUME BillInv, bills' = bills
  PROVE  /\ OneLive' /\ Live' = Live /\ Written' = Written
         /\ (repaired' = repaired => DetailMatchesBill')
         /\ (render' = render => RenderSound')
BY DEF BillInv, OneLive, Live, Written, DetailMatchesBill, RenderSound

--------------------------------------------------------------------------------
(* Requests and the task's own life.                                       *)

LEMMA RequestStep ==
  ASSUME BillInv, bills' = bills, exec' = exec, render' = render, repaired' = repaired,
         inputs' \in Inputs, gen' \in Task
  PROVE  BillInv'
<1>1. exec' \in [Execs -> Execution] /\ ExecsSound'
  BY SameGrown, ExecsStay
<1>2. TypeOK'
  BY <1>1 DEF BillInv, TypeOK
<1> QED
  BY <1>1, <1>2, BillsStay DEF BillInv

LEMMA EnqueueRenderOK ==
  ASSUME BillInv, NEW bs \in SUBSET Written, render' = EnqueueRender(bs), bills' = bills
  PROVE  render' \in [Printed -> {"none", "queued", "archived"}] /\ RenderSound'
BY DEF BillInv, TypeOK, RenderSound, EnqueueRender, Written

LEMMA DispatchStep == ASSUME BillInv, Dispatch PROVE BillInv'
<1>1. exec' \in [Execs -> Execution] /\ ExecsSound'
  BY SameGrown, ExecsStay DEF Dispatch
<1>2. render' \in [Printed -> {"none", "queued", "archived"}] /\ RenderSound'
  <2>1. {b \in Live : ~bills[b].pdf} \in SUBSET Written
    BY DEF Live
  <2> QED
    BY <2>1, EnqueueRenderOK DEF Dispatch
<1>3. gen' \in Task
  BY TasksOK DEF Dispatch, BillInv, TypeOK
<1>4. TypeOK'
  BY <1>1, <1>2, <1>3 DEF BillInv, TypeOK, Dispatch
<1> QED
  BY <1>1, <1>2, <1>4, BillsStay DEF BillInv, Dispatch

LEMMA EndsAsOK ==
  ASSUME BillInv, NEW x \in Execs, NEW t \in Task, EndsAs(x, t)
  PROVE  gen' \in Task /\ exec' = [exec EXCEPT ![x] = Idle]
BY DEF BillInv, TypeOK, EndsAs

LEMMA RetriedOK == ASSUME BillInv PROVE \A t \in Retried : t \in Task
<1>1. gen.force \in BOOLEAN
  BY DEF BillInv, TypeOK, Task
<1> QED
  BY <1>1, TasksOK DEF Retried

\* An execution goes to its next step and touches nothing else.
LEMMA PlanStep ==
  ASSUME BillInv, NEW x \in Execs, NEW e \in Execution, Knows(e, bills),
         exec' = [exec EXCEPT ![x] = e], bills' = bills, inputs' = inputs,
         render' = render, repaired' = repaired, gen' \in Task
  PROVE  BillInv'
<1>1. exec' \in [Execs -> Execution] /\ ExecsSound'
  BY SameGrown, ExecStep
<1>2. TypeOK'
  BY <1>1 DEF BillInv, TypeOK
<1> QED
  BY <1>1, <1>2, BillsStay DEF BillInv

LEMMA EndStep ==
  ASSUME BillInv, NEW x \in Execs, NEW t \in Task, EndsAs(x, t),
         bills' = bills, inputs' = inputs, render' = render, repaired' = repaired
  PROVE  BillInv'
<1>1. Idle \in Execution /\ Knows(Idle, bills)
  BY IdleOK DEF BillInv, TypeOK
<1> QED
  BY <1>1, EndsAsOK, PlanStep

--------------------------------------------------------------------------------
(* An execution that only reads.                                           *)

LEMMA StartStep == ASSUME BillInv, NEW x \in Execs, Start(x) PROVE BillInv'
<1> DEFINE e == [Idle EXCEPT !.step = "read", !.force = gen.force]
<1>1. e \in Execution /\ Knows(e, bills)
  BY IdleOK, BillingAssumption
     DEF BillInv, TypeOK, Task, Idle, Execution, Steps, Knows, Inputs
<1>2. gen' \in Task
  BY DEF Start, BillInv, TypeOK, Task
<1> QED
  BY <1>1, <1>2, PlanStep DEF Start

\* Execution e when it has decided what to do about bill b.
Decided(e, b, s) == [e EXCEPT !.existing = b, !.step = s]

LEMMA DecidedOK ==
  ASSUME BillInv, NEW x \in Execs, NEW b \in Written, NEW s \in Steps
  PROVE  /\ Decided(exec[x], b, s) \in Execution
         /\ Decided(exec[x], b, s).existing = b /\ Decided(exec[x], b, s).step = s
         /\ Decided(exec[x], b, s).force = exec[x].force
         /\ Decided(exec[x], b, s).saved <= Len(bills)
<1>1. exec[x] \in Execution /\ Knows(exec[x], bills)
  BY DEF BillInv, TypeOK, ExecsSound
<1>2. b \in 0 .. MaxBills
  BY BillingAssumption DEF Written, BillInv, TypeOK
<1> QED
  BY <1>1, <1>2 DEF Knows, Execution, Decided

LEMMA ReportingOK ==
  ASSUME BillInv, NEW bs \in Seq(Bill), Len(bs) <= MaxBills, NEW b \in 0 .. Len(bs)
  PROVE  LET e == [Idle EXCEPT !.step = "report", !.saved = b]
         IN  e \in Execution /\ Knows(e, bs)
BY BillingAssumption DEF Idle, Execution, Steps, Knows, Inputs

LEMMA ReadStep == ASSUME BillInv, NEW x \in Execs, Read(x) PROVE BillInv'
<1>1. exec[x] \in Execution /\ Knows(exec[x], bills) /\ exec[x].step = "read" /\ gen \in Task
  BY DEF Read, BillInv, TypeOK, ExecsSound
<1>2. CASE Live = {}
  <2> DEFINE e == [exec[x] EXCEPT !.step = "compute"]
  <2>1. exec' = [exec EXCEPT ![x] = e]
    BY <1>2 DEF Read
  <2>2. e \in Execution
    BY <1>1 DEF Execution, Steps
  <2>3. Knows(e, bills)
    BY <1>1 DEF Execution, Knows
  <2> QED
    BY <1>1, <2>1, <2>2, <2>3, PlanStep DEF Read
<1>3. CASE Live # {}
  <2>1. PICK b \in Live :
          exec' = IF Supersedes(x, b) THEN [exec EXCEPT ![x].existing = b, ![x].step = "compute"]
                  ELSE IF bills[b].hourly = Missing
                       THEN [exec EXCEPT ![x].existing = b, ![x].step = "reprice"]
                       ELSE Reporting(x, 0)
    BY <1>3 DEF Read
  <2>2. b \in Written /\ b # 0 /\ b <= Len(bills)
    BY <2>1 DEF Live, Written, BillInv, TypeOK
  <2>3. CASE Supersedes(x, b)
    <3> DEFINE e == Decided(exec[x], b, "compute")
    <3>1. exec' = [exec EXCEPT ![x] = e]
      BY <2>1, <2>3, <1>1 DEF BillInv, TypeOK, Decided
    <3>2. e \in Execution /\ e.existing = b /\ e.step = "compute" /\ e.force = exec[x].force
          /\ e.saved <= Len(bills)
      <4>1. "compute" \in Steps /\ "reprice" \in Steps
        BY DEF Steps
      <4> HIDE DEF e
      <4> QED
        BY <2>2, <4>1, DecidedOK DEF e
    <3>3. e.force \/ bills[e.existing].status # "issued"
      BY <2>3, <3>2 DEF Supersedes
    <3>4. Knows(e, bills)
      BY <2>2, <3>2, <3>3 DEF Knows
    <3> QED
      BY <1>1, <3>1, <3>2, <3>4, PlanStep DEF Read
  <2>4. CASE ~Supersedes(x, b) /\ bills[b].hourly = Missing
    <3> DEFINE e == Decided(exec[x], b, "reprice")
    <3>1. exec' = [exec EXCEPT ![x] = e]
      BY <2>1, <2>4, <1>1 DEF BillInv, TypeOK, Decided
    <3>2. e \in Execution /\ e.existing = b /\ e.step = "reprice"
          /\ e.saved <= Len(bills)
      <4>1. "compute" \in Steps /\ "reprice" \in Steps
        BY DEF Steps
      <4> HIDE DEF e
      <4> QED
        BY <2>2, <4>1, DecidedOK DEF e
    <3>3. Knows(e, bills)
      BY <2>2, <3>2 DEF Knows
    <3> QED
      BY <1>1, <3>1, <3>2, <3>3, PlanStep DEF Read
  <2>5. CASE ~Supersedes(x, b) /\ bills[b].hourly # Missing
    <3> DEFINE e == [Idle EXCEPT !.step = "report", !.saved = 0]
    <3>1. exec' = [exec EXCEPT ![x] = e]
      BY <2>1, <2>5 DEF Reporting
    <3>2. e \in Execution /\ Knows(e, bills)
      <4>1. bills \in Seq(Bill) /\ Len(bills) <= MaxBills /\ 0 \in 0 .. Len(bills)
        BY DEF BillInv, TypeOK
      <4> QED
        BY <4>1, ReportingOK
    <3> QED
      BY <1>1, <3>1, <3>2, PlanStep DEF Read
  <2> QED
    BY <2>3, <2>4, <2>5
<1> QED
  BY <1>2, <1>3

\* What the computation yields is usable, and the bill to write is the one read.
LEMMA PricedStep == ASSUME BillInv, NEW x \in Execs, Priced(x) PROVE BillInv'
<1> DEFINE e == [exec[x] EXCEPT !.computed = inputs,
                                !.step = IF @ = "compute" THEN "persist" ELSE "rewrite"]
<1>1. exec[x] \in Execution /\ Knows(exec[x], bills) /\ gen \in Task /\ inputs \in Inputs
  BY DEF BillInv, TypeOK, ExecsSound
<1>2. exec' = [exec EXCEPT ![x] = e]
  BY DEF Priced, BillInv, TypeOK
<1>3. e \in Execution
  BY <1>1 DEF Execution, Steps
<1>4. Knows(e, bills)
  BY <1>1 DEF Priced, Knows, Execution
<1> QED
  BY <1>1, <1>2, <1>3, <1>4, PlanStep DEF Priced

LEMMA CreateLosesStep == ASSUME BillInv, NEW x \in Execs, CreateLoses(x) PROVE BillInv'
<1> DEFINE e == [Idle EXCEPT !.step = "report", !.saved = 0]
<1>1. e \in Execution /\ Knows(e, bills) /\ gen \in Task
  <2>1. bills \in Seq(Bill) /\ Len(bills) <= MaxBills /\ 0 \in 0 .. Len(bills) /\ gen \in Task
    BY DEF BillInv, TypeOK
  <2> QED
    BY <2>1, ReportingOK
<1>2. exec' = [exec EXCEPT ![x] = e]
  BY DEF CreateLoses, Reporting
<1> QED
  BY <1>1, <1>2, PlanStep DEF CreateLoses

LEMMA EndingStep ==
  ASSUME BillInv, NEW x \in Execs, ComputeError(x) \/ SupersedeLoses(x) \/ Fails(x)
  PROVE  BillInv'
<1>1. PICK t \in Task : EndsAs(x, t)
  BY TasksOK, RetriedOK DEF ComputeError, SupersedeLoses, Fails
<1> QED
  BY <1>1, EndStep DEF ComputeError, SupersedeLoses, Fails

LEMMA ReportStep == ASSUME BillInv, NEW x \in Execs, Report(x) PROVE BillInv'
<1>1. exec' = [exec EXCEPT ![x] = Idle] /\ gen' \in Task
  BY TasksOK, EndsAsOK DEF Report
<1>2. exec' \in [Execs -> Execution] /\ ExecsSound'
  <2>1. Idle \in Execution /\ Knows(Idle, bills')
    BY IdleOK DEF BillInv, TypeOK, Report
  <2> QED
    BY <1>1, <2>1, SameGrown, ExecStep DEF Report
<1>3. render' \in [Printed -> {"none", "queued", "archived"}] /\ RenderSound'
  <2>1. exec[x].saved \in 0 .. Len(bills)
    BY BillingAssumption DEF BillInv, TypeOK, ExecsSound, Knows, Execution
  <2>2. EnqueueRender({exec[x].saved}) = EnqueueRender({exec[x].saved} \cap Written)
    BY <2>1, BillingAssumption DEF EnqueueRender, Written, Ids
  <2> QED
    BY <2>2, EnqueueRenderOK DEF Report
<1>4. TypeOK'
  BY <1>1, <1>2, <1>3 DEF BillInv, TypeOK, Report
<1> QED
  BY <1>2, <1>3, <1>4, BillsStay DEF BillInv, Report

--------------------------------------------------------------------------------
(* The writes.                                                             *)

\* What Append and an update of one bill do to the sequence.
LEMMA Appended ==
  ASSUME BillInv, Len(bills) < MaxBills, NEW r \in Bill, bills' = Append(bills, r)
  PROVE  /\ Grown /\ Len(bills') = Len(bills) + 1 /\ bills'[Len(bills) + 1] = r
         /\ Written' = Written \cup {Len(bills) + 1} /\ Len(bills) + 1 \notin Written
         /\ \A b \in Written : bills'[b] = bills[b]
<1>1. bills \in Seq(Bill) /\ Len(bills) \in Nat
  BY DEF BillInv, TypeOK
<1>2. /\ bills' \in Seq(Bill) /\ Len(bills') = Len(bills) + 1 /\ bills'[Len(bills) + 1] = r
      /\ \A b \in Written : bills'[b] = bills[b]
  BY <1>1, AppendProperties DEF Written
<1> QED
  BY <1>1, <1>2, BillingAssumption DEF Grown, Written

LEMMA Updated ==
  ASSUME BillInv, NEW b \in Written, NEW r \in Bill, r.inputs = bills[b].inputs,
         r.status \in {bills[b].status, "superseded"}, bills' = [bills EXCEPT ![b] = r]
  PROVE  /\ Grown /\ Len(bills') = Len(bills) /\ bills'[b] = r /\ Written' = Written
         /\ \A c \in Written \ {b} : bills'[c] = bills[c]
<1>1. bills \in Seq(Bill) /\ Len(bills) \in Nat /\ Len(bills) <= MaxBills
  BY DEF BillInv, TypeOK
<1>2. /\ bills' \in Seq(Bill) /\ Len(bills') = Len(bills) /\ bills'[b] = r
      /\ \A c \in Written \ {b} : bills'[c] = bills[c]
  BY <1>1, ExceptSeq DEF Written
<1> QED
  BY <1>1, <1>2 DEF Grown, Written

LEMMA BillOK == ASSUME BillInv, NEW b \in Written PROVE bills[b] \in Bill
BY ElementOfSeq DEF BillInv, TypeOK, Written

LEMMA NewBillOK ==
  ASSUME BillInv, NEW x \in Execs, exec[x].step = "persist"
  PROVE  /\ NewBill(x) \in Bill /\ NewBill(x).status # "superseded"
         /\ NewBill(x).inputs = exec[x].computed /\ NewBill(x).hourly = Missing
<1>1. exec[x] \in Execution /\ Knows(exec[x], bills)
  BY DEF BillInv, TypeOK, ExecsSound
<1>2. exec[x].computed \in Inputs /\ Quality[exec[x].computed] \in {"flagged", "issued"}
  BY <1>1, BillingAssumption DEF Execution, Knows
<1> QED
  BY <1>2 DEF NewBill, Bill

\* The execution after an insert: it has saved the bill it is about to detail.
LEMMA SavedOK ==
  ASSUME BillInv, NEW x \in Execs, exec[x].step = "persist", NEW bs \in Seq(Bill),
         Len(bs) = Len(bills) + 1, Len(bs) <= MaxBills, bs[Len(bs)].inputs = exec[x].computed
  PROVE  \E e \in Execution : Saved(x) = [exec EXCEPT ![x] = e] /\ Knows(e, bs)
<1> DEFINE e == [Idle EXCEPT !.step = "detail", !.saved = Len(bills) + 1,
                            !.computed = exec[x].computed]
<1>1. exec[x].computed \in Inputs /\ Len(bills) \in Nat /\ Len(bills) + 1 \in 0 .. MaxBills
  BY BillingAssumption DEF BillInv, TypeOK, Execution
<1>2. e \in Execution
  BY <1>1, IdleOK DEF Execution, Idle, Steps
<1>3. Knows(e, bs)
  BY <1>1 DEF Knows, Idle
<1> QED
  BY <1>2, <1>3 DEF Saved

\* An insert with its execution: what is left is to look at the live bills.
LEMMA InsertStep ==
  ASSUME BillInv, NEW x \in Execs, exec[x].step = "persist", Grown, exec' = Saved(x),
         Len(bills') = Len(bills) + 1, bills'[Len(bills) + 1] = NewBill(x),
         \A b \in Written : bills'[b].hourly = bills[b].hourly,
         inputs' = inputs, gen' = gen, render' = render, repaired' = repaired
  PROVE  TypeOK' /\ ExecsSound' /\ RenderSound' /\ DetailMatchesBill'
<1>1. Len(bills) \in Nat /\ Written' = Written \cup {Len(bills) + 1}
  BY DEF BillInv, TypeOK, Written
<1>2. exec' \in [Execs -> Execution] /\ ExecsSound'
  <2>1. PICK e \in Execution : Saved(x) = [exec EXCEPT ![x] = e] /\ Knows(e, bills')
    BY NewBillOK, SavedOK DEF Grown
  <2> QED
    BY <2>1, ExecStep
<1>3. TypeOK'
  BY <1>2 DEF BillInv, TypeOK, Grown
<1>4. RenderSound'
  BY <1>1 DEF BillInv, RenderSound
<1>5. DetailMatchesBill'
  BY <1>1, NewBillOK DEF BillInv, DetailMatchesBill, Grown
<1> QED
  BY <1>2, <1>3, <1>4, <1>5

LEMMA CreateStep == ASSUME BillInv, NEW x \in Execs, Create(x) PROVE BillInv'
<1>1. exec[x].step = "persist" /\ Live = {} /\ bills' = Append(bills, NewBill(x))
  BY DEF Create, Occupied
<1>2. NewBill(x) \in Bill /\ NewBill(x).status # "superseded"
  BY <1>1, NewBillOK
<1>3. /\ Grown /\ Len(bills') = Len(bills) + 1 /\ bills'[Len(bills) + 1] = NewBill(x)
      /\ Written' = Written \cup {Len(bills) + 1}
      /\ \A b \in Written : bills'[b] = bills[b]
  BY <1>1, <1>2, Appended DEF Create
<1>4. Live' = {Len(bills) + 1}
  BY <1>1, <1>2, <1>3 DEF Live
<1>5. TypeOK' /\ ExecsSound' /\ RenderSound' /\ DetailMatchesBill'
  BY <1>1, <1>3, InsertStep DEF Create
<1> QED
  BY <1>4, <1>5 DEF BillInv, OneLive

\* What Supersede does to the bills: the one that was read is still live, and marked.
LEMMA Superseded ==
  ASSUME BillInv, NEW x \in Execs, Supersede(x)
  PROVE  LET old == exec[x].existing IN
         /\ old \in Live /\ Grown
         /\ Len(bills') = Len(bills) + 1 /\ bills'[Len(bills) + 1] = NewBill(x)
         /\ Written' = Written \cup {Len(bills) + 1}
         /\ bills'[old].status = "superseded" /\ bills'[old].hourly = bills[old].hourly
         /\ \A b \in Written \ {old} : bills'[b] = bills[b]
<1> DEFINE old == exec[x].existing
           row == [bills[old] EXCEPT !.status = "superseded"]
           marked == [bills EXCEPT ![old] = row]
<1>1. old \in Live /\ bills' = Append([bills EXCEPT ![old].status = "superseded"], NewBill(x))
  BY DEF Supersede, Replaced
<1>2. old \in Written /\ bills \in Seq(Bill) /\ Len(bills) \in Nat
  BY <1>1 DEF Live, BillInv, TypeOK
<1>3. NewBill(x) \in Bill
  BY NewBillOK DEF Supersede
<1>4. /\ row \in Bill /\ row.status = "superseded" /\ row.inputs = bills[old].inputs
      /\ row.hourly = bills[old].hourly
  BY <1>2, BillOK DEF Bill
<1>5. bills' = Append(marked, NewBill(x))
  BY <1>1
<1> HIDE DEF row
<1>6. /\ marked \in Seq(Bill) /\ Len(marked) = Len(bills) /\ marked[old] = row
      /\ \A c \in Written \ {old} : marked[c] = bills[c]
  BY <1>2, <1>4, ExceptSeq DEF Written
<1> HIDE DEF marked
<1>7. /\ bills' \in Seq(Bill) /\ Len(bills') = Len(bills) + 1
      /\ bills'[Len(bills) + 1] = NewBill(x) /\ \A c \in Written : bills'[c] = marked[c]
  BY <1>3, <1>5, <1>6, AppendProperties DEF Written
<1>8. Len(bills') <= MaxBills
  BY <1>2, <1>7, BillingAssumption DEF Supersede
<1>9. Written' = Written \cup {Len(bills) + 1}
  BY <1>2, <1>7 DEF Written
<1>10. Grown
  BY <1>2, <1>4, <1>6, <1>7, <1>8 DEF Grown
<1> QED
  BY <1>1, <1>2, <1>4, <1>6, <1>7, <1>9, <1>10

LEMMA SupersedeStep == ASSUME BillInv, NEW x \in Execs, Supersede(x) PROVE BillInv'
<1> DEFINE old == exec[x].existing
<1>1. /\ old \in Live /\ Grown
      /\ Len(bills') = Len(bills) + 1 /\ bills'[Len(bills) + 1] = NewBill(x)
      /\ Written' = Written \cup {Len(bills) + 1}
      /\ bills'[old].status = "superseded" /\ bills'[old].hourly = bills[old].hourly
      /\ \A b \in Written \ {old} : bills'[b] = bills[b]
  BY Superseded
<1>2. NewBill(x).status # "superseded"
  BY NewBillOK DEF Supersede
<1>3. Live = {old}
  BY <1>1 DEF BillInv, OneLive
<1>4. Live' = {Len(bills) + 1}
  <2>1. Len(bills) + 1 \in Live'
    BY <1>1, <1>2 DEF Live
  <2>2. ASSUME NEW b \in Live', b # Len(bills) + 1 PROVE FALSE
    <3>1. b \in Written /\ bills'[b].status # "superseded"
      BY <1>1, <2>2 DEF Live
    <3>2. b # old /\ bills'[b] = bills[b]
      BY <1>1, <3>1
    <3>3. b \in Live
      BY <3>1, <3>2 DEF Live
    <3> QED
      BY <1>3, <3>2, <3>3
  <2> QED
    BY <2>1, <2>2
<1>5. TypeOK' /\ ExecsSound' /\ RenderSound' /\ DetailMatchesBill'
  <2>1. \A b \in Written : bills'[b].hourly = bills[b].hourly
    BY <1>1
  <2> QED
    BY <1>1, <2>1, InsertStep DEF Supersede
<1> QED
  BY <1>4, <1>5 DEF BillInv, OneLive

\* An update that keeps the status of a bill keeps what is live.
LEMMA LiveStays ==
  ASSUME BillInv, Written' = Written, \A b \in Written : bills'[b].status = bills[b].status,
         Len(bills') = Len(bills)
  PROVE  Live' = Live /\ OneLive'
<1>1. Live' = Live
  BY DEF Live
<1>2. bills' # <<>> => bills # <<>>
  BY EmptySeq DEF BillInv, TypeOK
<1> QED
  BY <1>1, <1>2 DEF BillInv, OneLive

\* An update of the hourly rows, or of the PDF, of one bill.
LEMMA UpdateStep ==
  ASSUME BillInv, NEW b \in Written, NEW r \in Bill, r.inputs = bills[b].inputs,
         r.status = bills[b].status, bills' = [bills EXCEPT ![b] = r]
  PROVE  /\ Grown /\ Written' = Written /\ bills'[b] = r /\ OneLive'
         /\ \A c \in Written \ {b} : bills'[c] = bills[c]
<1>1. /\ Grown /\ Len(bills') = Len(bills) /\ bills'[b] = r /\ Written' = Written
      /\ \A c \in Written \ {b} : bills'[c] = bills[c]
  BY Updated
<1>2. \A c \in Written : bills'[c].status = bills[c].status
  BY <1>1
<1> QED
  BY <1>1, <1>2, LiveStays

LEMMA WriteDetailStep == ASSUME BillInv, NEW x \in Execs, WriteDetail(x) PROVE BillInv'
<1> DEFINE b == exec[x].saved
           r == [bills[b] EXCEPT !.hourly = exec[x].computed]
           e == [Idle EXCEPT !.step = "report", !.saved = b]
<1>1. exec[x] \in Execution /\ Knows(exec[x], bills) /\ exec[x].step = "detail"
  BY DEF BillInv, TypeOK, ExecsSound, WriteDetail
<1>2. b \in Written /\ bills[b].inputs = exec[x].computed /\ exec[x].computed \in Inputs
  BY <1>1 DEF Knows, Written, Execution, BillInv, TypeOK
<1>3. /\ r \in Bill /\ r.inputs = bills[b].inputs /\ r.status = bills[b].status
      /\ r.hourly = bills[b].inputs
  BY <1>2, BillOK DEF Bill
<1>4. bills' = [bills EXCEPT ![b] = r] /\ exec' = [exec EXCEPT ![x] = e]
  BY DEF WriteDetail, Reporting
<1> HIDE DEF r
<1>5. /\ Grown /\ Written' = Written /\ bills'[b] = r /\ OneLive'
      /\ \A c \in Written \ {b} : bills'[c] = bills[c]
  BY <1>2, <1>3, <1>4, UpdateStep
<1>6. e \in Execution /\ Knows(e, bills')
  <2>1. b \in 0 .. Len(bills')
    BY <1>2, <1>5 DEF Written, Grown
  <2> QED
    BY <1>5, <2>1, ReportingOK DEF Grown
<1> HIDE DEF e
<1>7. exec' \in [Execs -> Execution] /\ ExecsSound'
  BY <1>4, <1>5, <1>6, ExecStep
<1>8. TypeOK'
  BY <1>5, <1>7 DEF BillInv, TypeOK, WriteDetail, Grown
<1>9. RenderSound' /\ DetailMatchesBill'
  BY <1>3, <1>5 DEF BillInv, RenderSound, DetailMatchesBill, WriteDetail
<1> QED
  BY <1>5, <1>7, <1>8, <1>9 DEF BillInv

LEMMA RepairStep == ASSUME BillInv, NEW x \in Execs, Repair(x) PROVE BillInv'
<1> DEFINE b == exec[x].existing
           r == [bills[b] EXCEPT !.hourly = exec[x].computed]
           e == [Idle EXCEPT !.step = "report", !.saved = 0]
<1>1. exec[x] \in Execution /\ Knows(exec[x], bills) /\ exec[x].step = "rewrite"
  BY DEF BillInv, TypeOK, ExecsSound, Repair
<1>2. b \in Written /\ b \in Ids /\ exec[x].computed \in Inputs
  BY <1>1, BillingAssumption DEF Knows, Written, Execution, BillInv, TypeOK, Ids
<1>3. /\ r \in Bill /\ r.inputs = bills[b].inputs /\ r.status = bills[b].status
  BY <1>2, BillOK DEF Bill
<1>4. bills' = [bills EXCEPT ![b] = r] /\ exec' = [exec EXCEPT ![x] = e]
  BY DEF Repair, Reporting
<1> HIDE DEF r
<1>5. /\ Grown /\ Written' = Written /\ bills'[b] = r /\ OneLive'
      /\ \A c \in Written \ {b} : bills'[c] = bills[c]
  BY <1>2, <1>3, <1>4, UpdateStep
<1>6. e \in Execution /\ Knows(e, bills')
  <2>1. 0 \in 0 .. Len(bills')
    BY <1>5 DEF Grown
  <2> QED
    BY <1>5, <2>1, ReportingOK DEF Grown
<1> HIDE DEF e
<1>7. exec' \in [Execs -> Execution] /\ ExecsSound'
  BY <1>4, <1>5, <1>6, ExecStep
<1>8. TypeOK'
  BY <1>2, <1>5, <1>7 DEF BillInv, TypeOK, Repair, Grown
<1>9. RenderSound' /\ DetailMatchesBill'
  BY <1>5 DEF BillInv, RenderSound, DetailMatchesBill, Repair
<1> QED
  BY <1>5, <1>7, <1>8, <1>9 DEF BillInv

LEMMA RenderStep == ASSUME BillInv, NEW b \in Printed, Render(b) PROVE BillInv'
<1> DEFINE r == [bills[b] EXCEPT !.pdf = TRUE]
<1>1. b \in Written
  BY DEF Render, BillInv, RenderSound
<1>2. /\ r \in Bill /\ r.inputs = bills[b].inputs /\ r.status = bills[b].status
      /\ r.hourly = bills[b].hourly
  BY <1>1, BillOK DEF Bill
<1>3. bills' = [bills EXCEPT ![b] = r]
  BY DEF Render
<1> HIDE DEF r
<1>4. /\ Grown /\ Written' = Written /\ bills'[b] = r /\ OneLive'
      /\ \A c \in Written \ {b} : bills'[c] = bills[c]
  BY <1>1, <1>2, <1>3, UpdateStep
<1>5. exec' \in [Execs -> Execution] /\ ExecsSound'
  BY <1>4, ExecsStay DEF Render
<1>6. RenderSound' /\ DetailMatchesBill'
  BY <1>1, <1>2, <1>4 DEF BillInv, TypeOK, RenderSound, DetailMatchesBill, Render
<1>7. TypeOK'
  BY <1>4, <1>5 DEF BillInv, TypeOK, Render, Grown
<1> QED
  BY <1>4, <1>5, <1>6, <1>7 DEF BillInv

LEMMA RenderFailsStep == ASSUME BillInv, NEW b \in Printed, RenderFails(b) PROVE BillInv'
<1>1. exec' \in [Execs -> Execution] /\ ExecsSound'
  BY SameGrown, ExecsStay DEF RenderFails
<1>2. RenderSound'
  BY DEF BillInv, TypeOK, RenderSound, RenderFails, Written
<1>3. TypeOK'
  BY <1>1 DEF BillInv, TypeOK, RenderFails
<1> QED
  BY <1>1, <1>2, <1>3, BillsStay DEF BillInv, RenderFails

--------------------------------------------------------------------------------
LEMMA BillStep == ASSUME BillInv, [Next]_vars PROVE BillInv'
<1>1. CASE InputsChange
  <2>1. inputs' \in Inputs /\ gen' \in Task
    BY <1>1, BillingAssumption DEF InputsChange, BillInv, TypeOK, Inputs
  <2> QED
    BY <1>1, <2>1, RequestStep DEF InputsChange
<1>2. CASE Dispatch
  BY <1>2, DispatchStep
<1>3. ASSUME NEW f \in BOOLEAN, Compute(f) PROVE BillInv'
  <2>1. gen' \in Task /\ inputs' \in Inputs
    BY <1>3, TasksOK DEF Compute, BillInv, TypeOK
  <2> QED
    BY <1>3, <2>1, RequestStep DEF Compute
<1>4. CASE LeaseLost
  <2>1. gen' \in Task /\ inputs' \in Inputs
    BY <1>4, RetriedOK DEF LeaseLost, BillInv, TypeOK
  <2> QED
    BY <1>4, <2>1, RequestStep DEF LeaseLost
<1>5. ASSUME NEW x \in Execs, Generating(x) PROVE BillInv'
  BY <1>5, StartStep, ReadStep, PricedStep, EndingStep, CreateStep, CreateLosesStep,
     SupersedeStep, WriteDetailStep, RepairStep, ReportStep DEF Generating
<1>6. ASSUME NEW b \in Printed, Rendering(b) PROVE BillInv'
  BY <1>6, RenderStep, RenderFailsStep DEF Rendering
<1>7. CASE UNCHANGED vars
  <2>1. gen' \in Task /\ inputs' \in Inputs
    BY <1>7 DEF vars, BillInv, TypeOK
  <2> QED
    BY <1>7, <2>1, RequestStep DEF vars
<1> QED
  BY <1>1, <1>2, <1>3, <1>4, <1>5, <1>6, <1>7 DEF Next

(* The types of the model, for any number of executions, inputs and bills.   *)
THEOREM BillTypeCorrect == Spec => []TypeOK
<1>1. BillInv => TypeOK
  BY DEF BillInv
<1> QED
  BY <1>1, BillInitInv, BillStep, PTL DEF Spec

(* A period that has been billed has exactly one live bill, whatever         *)
(* executions race, lose their lease or die (Create and Supersede).          *)
THEOREM AlwaysBilledCorrect == Spec => []AlwaysBilledOnce
<1>1. BillInv => AlwaysBilledOnce
  BY DEF BillInv, OneLive, AlwaysBilledOnce
<1> QED
  BY <1>1, BillInitInv, BillStep, PTL DEF Spec

(* The hourly rows of a bill come from the inputs the bill was computed      *)
(* from, unless they were repaired (ReplaceHourlyDetail).                    *)
THEOREM DetailCorrect == Spec => []DetailMatchesBill
<1>1. BillInv => DetailMatchesBill
  BY DEF BillInv
<1> QED
  BY <1>1, BillInitInv, BillStep, PTL DEF Spec

\* Only Supersede marks a bill.
StatusStays == \A b \in Written : bills'[b].status = bills[b].status

LEMMA OtherStepsKeepStatus ==
  ASSUME BillInv, [Next]_vars, \A x \in Execs : ~Supersede(x)
  PROVE  StatusStays
<1>1. CASE bills' = bills
  BY <1>1 DEF StatusStays
<1>2. ASSUME NEW x \in Execs, Create(x) PROVE StatusStays
  BY <1>2, NewBillOK, Appended DEF Create, StatusStays
<1>3. ASSUME NEW x \in Execs, WriteDetail(x) PROVE StatusStays
  BY <1>3, BillOK DEF WriteDetail, StatusStays, BillInv, TypeOK, Bill, Written
<1>4. ASSUME NEW x \in Execs, Repair(x) PROVE StatusStays
  BY <1>4, BillOK DEF Repair, StatusStays, BillInv, TypeOK, Bill, Written
<1>5. ASSUME NEW b \in Printed, Render(b) PROVE StatusStays
  BY <1>5, BillOK DEF Render, StatusStays, BillInv, TypeOK, Bill, Written
<1> QED
  BY <1>1, <1>2, <1>3, <1>4, <1>5
     DEF Next, vars, InputsChange, Dispatch, LeaseLost, Compute, Generating, Rendering, Start,
         Read, Priced, ComputeError, CreateLoses, SupersedeLoses, Report, Fails, RenderFails

(* An issued bill is superseded only by an execution that was forced and had *)
(* read that very bill (RecomputeFlagged never replaces an issued one).      *)
THEOREM IssuedStandsCorrect == Spec => IssuedStands
<1>1. BillInv /\ [Next]_vars =>
        [\A b \in Written :
           bills[b].status = "issued" /\ bills'[b].status = "superseded" =>
             \E x \in Execs :
               exec[x].force /\ exec[x].existing = b /\ exec[x].step = "persist"]_vars
  <2> SUFFICES ASSUME BillInv, [Next]_vars, NEW b \in Written,
                      bills[b].status = "issued", bills'[b].status = "superseded"
               PROVE  \E x \in Execs :
                        exec[x].force /\ exec[x].existing = b /\ exec[x].step = "persist"
    OBVIOUS
  <2>1. PICK x \in Execs : Supersede(x)
    BY OtherStepsKeepStatus DEF StatusStays
  <2>2. b = exec[x].existing /\ exec[x].step = "persist" /\ exec[x].existing # 0
    BY <2>1, Superseded DEF Supersede
  <2>3. exec[x].force
    BY <2>2 DEF BillInv, ExecsSound, Knows
  <2> QED
    BY <2>2, <2>3
<1> QED
  BY <1>1, BillInitInv, BillStep, PTL DEF Spec, IssuedStands
================================================================================
