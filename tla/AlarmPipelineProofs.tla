--------------------------- MODULE AlarmPipelineProofs ---------------------------
(***************************************************************************)
(* Proofs about the alarm pipeline, for any number of analyzers, hours and *)
(* events.  The evaluations of different hours may overlap: an evaluation  *)
(* past its claim holds the pair it claimed alone (ClaimSound), and one    *)
(* that decided to stay quiet has seen a mail go out (ToldSound).          *)
(***************************************************************************)
EXTENDS AlarmPipeline, SequenceTheorems, FiniteSetTheorems, TLAPS

PairOf(t) == <<t.an, t.bill>>

Holds(h) == eval[h].state \in {"check", "create"}

\* A pair is claimed before its event, by one evaluation, and spent with the event.
ClaimSound ==
  rule.invoice =>
    /\ \A e \in Written : PairOf(events[e]) \in claimed
    /\ \A h \in Hours : Holds(h) =>
         /\ PairOf(eval[h]) \in claimed
         /\ \A e \in Written : PairOf(events[e]) # PairOf(eval[h])
    /\ \A g, h \in Hours : Holds(g) /\ Holds(h) /\ PairOf(eval[g]) = PairOf(eval[h]) => g = h
    /\ \A e, f \in Written : PairOf(events[e]) = PairOf(events[f]) => e = f

\* A mail for analyzer a went out less than one frequency before time t.
Told(a, t) ==
  \E f \in Written : events[f].an = a /\ \E s \in mailed[f] : s > t - rule.freq

ToldSound ==
  /\ \A h \in Hours : eval[h].state = "create" /\ eval[h].quiet => Told(eval[h].an, eval[h].at)
  /\ \A e \in Written : events[e].suppressed => Told(events[e].an, events[e].at)

\* A delivery is about an event that exists, and has mailed what it will record.
DeliverySound ==
  /\ \A h \in Hours : eval[h].state = "enqueue" => eval[h].event \in Written
  /\ \A e \in Ids : notify[e].state # "none" => e \in Written
  /\ \A e \in Ids : notify[e].state = "sent" => notify[e].at \in mailed[e]
  /\ NotifiedWasMailed

DueHours == {h \in Hours : eval[h].state \in {"claim", "check", "create"}}

RoomKept == Len(events) + Cardinality(DueHours) <= MaxEvents

AlarmInv ==
  TypeOK /\ ClaimSound /\ ToldSound /\ DeliverySound /\ RoomKept

--------------------------------------------------------------------------------
(* Facts about the constants and the records.                              *)

LEMMA HoursFinite == IsFiniteSet(Hours) /\ (\A h \in SUBSET Hours : IsFiniteSet(h))
<1>1. ASSUME NEW t \in Times PROVE HourOf(t) \in 0 .. MaxTime
  BY <1>1, AlarmAssumption DEF Times, HourOf
<1>2. IsFiniteSet(0 .. MaxTime)
  BY FS_Interval, AlarmAssumption
<1>3. Hours \in SUBSET (0 .. MaxTime)
  BY <1>1 DEF Hours
<1> QED
  BY <1>2, <1>3, FS_Subset

LEMMA EvalTaskOK ==
  ASSUME NEW s \in {"none", "scheduled", "archived"} \cup Steps, NEW n \in 0 .. MaxRetry
  PROVE  /\ EvalTask(s, n) \in Evaluation /\ EvalTask(s, n).state = s
         /\ EvalTask(s, n).tries = n
BY AlarmAssumption DEF EvalTask, Evaluation, Times, Analyzers

LEMMA NextAnalyzerOK ==
  ASSUME NEW t \in Evaluation
  PROVE  /\ NextAnalyzer(t) \in Evaluation
         /\ NextAnalyzer(t).state \in {"evaluate", "finish"}
<1>1. t.an \in 1 .. Last /\ t.at \in Times /\ t.tries \in 0 .. MaxRetry
  BY DEF Evaluation, Analyzers
<1>2. (IF t.an = Last THEN Last ELSE t.an + 1) \in Analyzers
  BY <1>1, AlarmAssumption DEF Analyzers
<1> DEFINE s == IF t.an = Last THEN "finish" ELSE "evaluate"
           a == IF t.an = Last THEN Last ELSE t.an + 1
<1>3. EvalTask(s, t.tries) \in Evaluation /\ EvalTask(s, t.tries).state = s
  BY <1>1, EvalTaskOK DEF Steps
<1>4. NextAnalyzer(t) = [EvalTask(s, t.tries) EXCEPT !.at = t.at, !.an = a]
  BY DEF NextAnalyzer
<1>5. s \in {"evaluate", "finish"}
  OBVIOUS
<1> HIDE DEF s, a
<1> QED
  BY <1>1, <1>2, <1>3, <1>4, <1>5 DEF Evaluation, a

LEMMA DeliveryTaskOK ==
  ASSUME NEW s \in {"none", "scheduled", "archived", "done", "dropped"} \cup DeliverySteps,
         NEW n \in 0 .. MaxRetry
  PROVE  DeliveryTask(s, n) \in Delivery /\ DeliveryTask(s, n).state = s
BY AlarmAssumption DEF DeliveryTask, Delivery, Times

LEMMA AlarmInitInv == Init => AlarmInv
<1> SUFFICES ASSUME Init PROVE AlarmInv
  OBVIOUS
<1>1. Written = {} /\ Len(events) = 0 /\ events \in Seq(Event)
  BY EmptySeq DEF Init, Written
<1>2. 0 \in 0 .. MaxRetry /\ now \in Times /\ 0 \in 0 .. MaxBill
  BY AlarmAssumption DEF Init, Times
<1>3. \A h \in Hours : eval[h] = EvalTask("none", 0) /\ eval[h].state = "none"
  BY <1>2, EvalTaskOK DEF Init
<1>4. \A e \in Ids : notify[e] = DeliveryTask("none", 0) /\ notify[e].state = "none"
  BY <1>2, DeliveryTaskOK DEF Init
<1>5. TypeOK
  <2>1. eval \in [Hours -> Evaluation]
    BY <1>2, EvalTaskOK DEF Init
  <2>2. notify \in [Ids -> Delivery]
    BY <1>2, DeliveryTaskOK DEF Init
  <2>3. events \in Seq(Event) /\ Len(events) <= MaxEvents
    BY <1>1, AlarmAssumption
  <2>4. bill \in [Analyzers -> 0 .. MaxBill] /\ rule \in Rules
    BY <1>2 DEF Init
  <2>5. claimed = {} /\ dispatched = {} /\ mailed \in [Ids -> SUBSET Times]
    BY DEF Init
  <2> QED
    BY <1>2, <2>1, <2>2, <2>3, <2>4, <2>5 DEF TypeOK
<1>6. ClaimSound
  BY <1>1, <1>3 DEF ClaimSound, Holds
<1>7. ToldSound
  BY <1>1, <1>3 DEF ToldSound
<1>8. DeliverySound
  BY <1>1, <1>3, <1>4 DEF DeliverySound, NotifiedWasMailed
<1>9. RoomKept
  <2>1. DueHours = {}
    BY <1>3 DEF DueHours
  <2> QED
    BY <1>1, <2>1, FS_EmptySet, AlarmAssumption DEF RoomKept
<1> QED
  BY <1>5, <1>6, <1>7, <1>8, <1>9 DEF AlarmInv

--------------------------------------------------------------------------------
(* Steps of an evaluation that leave it with nothing in its hands.         *)

Empty == {"none", "scheduled", "archived", "evaluate", "finish"}

LEMMA EvalDrop ==
  ASSUME AlarmInv, NEW h \in Hours, NEW t \in Evaluation, t.state \in Empty,
         eval' = [eval EXCEPT ![h] = t], claimed \subseteq claimed',
         claimed' \subseteq Analyzers \X (0 .. MaxBill), dispatched' \subseteq Hours,
         now' = now, rule' = rule, bill' = bill, events' = events, notify' = notify,
         mailed' = mailed
  PROVE  AlarmInv'
<1>1. /\ eval' \in [Hours -> Evaluation] /\ eval'[h] = t
      /\ \A g \in Hours \ {h} : eval'[g] = eval[g]
  BY DEF AlarmInv, TypeOK
<1>2. Written' = Written
  BY DEF Written
<1>3. TypeOK'
  BY <1>1 DEF AlarmInv, TypeOK
<1>4. ~Holds(h)' /\ \A g \in Hours \ {h} : Holds(g)' = Holds(g)
  BY <1>1 DEF Holds, Empty
<1>5. ClaimSound'
  BY <1>1, <1>2, <1>4 DEF AlarmInv, ClaimSound
<1>6. \A a, s : Told(a, s)' = Told(a, s)
  BY <1>2 DEF Told
<1>7. ToldSound'
  BY <1>1, <1>2, <1>6 DEF AlarmInv, ToldSound, Empty
<1>8. DeliverySound'
  BY <1>1, <1>2 DEF AlarmInv, DeliverySound, NotifiedWasMailed, Empty
<1>9. RoomKept'
  <2>1. DueHours' \in SUBSET DueHours /\ DueHours \in SUBSET Hours
    BY <1>1 DEF DueHours, Empty
  <2>2. Cardinality(DueHours') <= Cardinality(DueHours)
    BY <2>1, HoursFinite, FS_Subset
  <2>3. Cardinality(DueHours') \in Nat /\ Cardinality(DueHours) \in Nat
    BY <2>1, HoursFinite, FS_CardinalityType
  <2>4. Len(events) \in Nat /\ MaxEvents \in Nat
    BY AlarmAssumption DEF AlarmInv, TypeOK
  <2> QED
    BY <2>2, <2>3, <2>4 DEF AlarmInv, RoomKept
<1> QED
  BY <1>3, <1>5, <1>7, <1>8, <1>9 DEF AlarmInv

LEMMA EvalOf == ASSUME AlarmInv, NEW h \in Hours PROVE eval[h] \in Evaluation
BY DEF AlarmInv, TypeOK

LEMMA RetriedOK ==
  ASSUME AlarmInv, NEW h \in Hours
  PROVE  Retried(h) \in Evaluation /\ Retried(h).state \in Empty
<1>1. eval[h].tries \in 0 .. MaxRetry
  BY EvalOf DEF Evaluation
<1>2. CASE eval[h].tries < MaxRetry
  <2>1. eval[h].tries + 1 \in 0 .. MaxRetry
    BY <1>1, <1>2, AlarmAssumption
  <2> QED
    BY <1>2, <2>1, EvalTaskOK DEF Retried, Empty
<1>3. CASE ~(eval[h].tries < MaxRetry)
  <2>1. MaxRetry \in 0 .. MaxRetry
    BY AlarmAssumption
  <2> QED
    BY <1>3, <2>1, EvalTaskOK DEF Retried, Empty
<1> QED
  BY <1>2, <1>3

LEMMA DispatchStep == ASSUME AlarmInv, Dispatch PROVE AlarmInv'
<1>1. HourOf(now) \in Hours
  BY DEF AlarmInv, TypeOK, Hours
<1>2. EvalTask("scheduled", 0) \in Evaluation /\ EvalTask("scheduled", 0).state = "scheduled"
  BY EvalTaskOK, AlarmAssumption
<1>3. dispatched' \subseteq Hours /\ claimed \subseteq Analyzers \X (0 .. MaxBill)
  BY <1>1 DEF Dispatch, AlarmInv, TypeOK
<1> QED
  BY <1>1, <1>2, <1>3, EvalDrop DEF Dispatch, Empty

LEMMA StartStep == ASSUME AlarmInv, NEW h \in Hours, Start(h) PROVE AlarmInv'
<1> DEFINE t == [EvalTask("evaluate", eval[h].tries) EXCEPT !.at = now]
<1>1. EvalTask("evaluate", eval[h].tries) \in Evaluation
      /\ EvalTask("evaluate", eval[h].tries).state = "evaluate"
  BY EvalOf, EvalTaskOK DEF Evaluation, Steps
<1>2. t \in Evaluation /\ t.state \in Empty
  BY <1>1 DEF AlarmInv, TypeOK, Evaluation, Empty
<1>3. eval' = [eval EXCEPT ![h] = t]
  BY DEF Start, AlarmInv, TypeOK
<1> HIDE DEF t
<1>4. dispatched \subseteq Hours /\ claimed \subseteq Analyzers \X (0 .. MaxBill)
  BY DEF AlarmInv, TypeOK
<1> QED
  BY <1>2, <1>3, <1>4, EvalDrop DEF Start

\* The evaluation goes on with the next analyzer, or ends, or is retried.
LEMMA LetsGo ==
  ASSUME AlarmInv, NEW h \in Hours,
         \/ NoBreach(h) \/ RuleFails(h) \/ Finish(h) \/ EvalFails(h)
         \/ Claim(h) /\ ~Unclaimed(<<eval[h].an, eval[h].bill>>)
  PROVE  AlarmInv'
<1>1. dispatched' \subseteq Hours /\ claimed \subseteq claimed'
  BY DEF AlarmInv, TypeOK, NoBreach, RuleFails, Finish, EvalFails, Claim
<1>2. claimed' \subseteq Analyzers \X (0 .. MaxBill)
  <2>1. <<eval[h].an, eval[h].bill>> \in Analyzers \X (0 .. MaxBill)
    BY EvalOf DEF Evaluation
  <2> QED
    BY <2>1 DEF AlarmInv, TypeOK, NoBreach, RuleFails, Finish, EvalFails, Claim
<1>3. PICK t \in Evaluation : t.state \in Empty /\ eval' = [eval EXCEPT ![h] = t]
  <2>1. NextAnalyzer(eval[h]) \in Evaluation /\ NextAnalyzer(eval[h]).state \in Empty
    BY EvalOf, NextAnalyzerOK DEF Empty
  <2>2. LET t == NextAnalyzer([eval[h] EXCEPT !.an = Last])
        IN  t \in Evaluation /\ t.state \in Empty
    <3>1. [eval[h] EXCEPT !.an = Last] \in Evaluation
      BY EvalOf, AlarmAssumption DEF Evaluation, Analyzers
    <3> QED
      BY <3>1, NextAnalyzerOK DEF Empty
  <2>3. EvalTask("none", 0) \in Evaluation /\ EvalTask("none", 0).state \in Empty
    BY EvalTaskOK, AlarmAssumption DEF Empty
  <2>4. \/ eval' = [eval EXCEPT ![h] = NextAnalyzer(eval[h])]
        \/ eval' = [eval EXCEPT ![h] = NextAnalyzer([eval[h] EXCEPT !.an = Last])]
        \/ eval' = [eval EXCEPT ![h] = EvalTask("none", 0)]
        \/ eval' = [eval EXCEPT ![h] = Retried(h)]
    BY DEF NoBreach, RuleFails, Finish, EvalFails, Claim, AlarmInv, TypeOK
  <2> QED
    BY <2>1, <2>2, <2>3, <2>4, RetriedOK
<1>4. /\ now' = now /\ rule' = rule /\ bill' = bill /\ events' = events
      /\ notify' = notify /\ mailed' = mailed
  BY DEF NoBreach, RuleFails, Finish, EvalFails, Claim
<1> QED
  BY <1>1, <1>2, <1>3, <1>4, EvalDrop

--------------------------------------------------------------------------------
(* A breach, from the analyzer to the delivery task.                       *)

\* The due evaluations, when one becomes due and when one no longer is.
LEMMA RoomAfter ==
  ASSUME AlarmInv, NEW h \in Hours
  PROVE  /\ Len(events) \in Nat /\ MaxEvents \in Nat /\ Cardinality(DueHours) \in Nat
         /\ Cardinality(DueHours \cup {h}) <= Cardinality(DueHours) + 1
         /\ Cardinality(DueHours \cup {h}) \in Nat
         /\ h \in DueHours => Cardinality(DueHours \ {h}) = Cardinality(DueHours) - 1
<1>1. IsFiniteSet(DueHours)
  BY HoursFinite DEF DueHours
<1>2. Cardinality(DueHours) \in Nat
  BY <1>1, FS_CardinalityType
<1>3. Len(events) \in Nat /\ MaxEvents \in Nat
  BY AlarmAssumption DEF AlarmInv, TypeOK
<1>4. Cardinality(DueHours \cup {h}) =
        IF h \in DueHours THEN Cardinality(DueHours) ELSE Cardinality(DueHours) + 1
  BY <1>1, FS_AddElement
<1>5. Cardinality(DueHours \ {h}) =
        IF h \in DueHours THEN Cardinality(DueHours) - 1 ELSE Cardinality(DueHours)
  BY <1>1, FS_RemoveElement
<1> QED
  BY <1>2, <1>3, <1>4, <1>5

LEMMA BreachStep == ASSUME AlarmInv, NEW h \in Hours, Breach(h) PROVE AlarmInv'
<1> DEFINE t == [eval[h] EXCEPT !.state = IF rule.invoice THEN "claim" ELSE "check",
                                !.bill = bill[eval[h].an]]
<1>1. eval[h] \in Evaluation /\ eval[h].an \in Analyzers /\ eval[h].state = "evaluate"
  BY EvalOf DEF Evaluation, Breach
<1>2. bill[eval[h].an] \in 0 .. MaxBill
  BY <1>1 DEF AlarmInv, TypeOK
<1>3. t \in Evaluation /\ t.state = IF rule.invoice THEN "claim" ELSE "check"
  BY <1>1, <1>2 DEF Evaluation, Steps
<1>4. eval' = [eval EXCEPT ![h] = t]
  BY DEF Breach, AlarmInv, TypeOK
<1> HIDE DEF t
<1>5. /\ eval' \in [Hours -> Evaluation] /\ eval'[h] = t
      /\ \A g \in Hours \ {h} : eval'[g] = eval[g]
  BY <1>3, <1>4 DEF AlarmInv, TypeOK
<1>6. Written' = Written
  BY DEF Written, Breach
<1>7. TypeOK'
  BY <1>5 DEF Breach, AlarmInv, TypeOK
<1>8. ClaimSound'
  <2> SUFFICES ASSUME rule.invoice PROVE ClaimSound'
    BY DEF ClaimSound, Breach
  <2>1. ~Holds(h)' /\ \A g \in Hours \ {h} : Holds(g)' = Holds(g)
    BY <1>3, <1>5 DEF Holds
  <2> QED
    BY <1>5, <1>6, <2>1 DEF AlarmInv, ClaimSound, Breach
<1>9. ToldSound'
  <2>1. \A a, s : Told(a, s)' = Told(a, s)
    BY <1>6 DEF Told, Breach
  <2> QED
    BY <1>3, <1>5, <1>6, <2>1 DEF AlarmInv, ToldSound, Breach
<1>10. DeliverySound'
  BY <1>3, <1>5, <1>6 DEF AlarmInv, DeliverySound, NotifiedWasMailed, Breach
<1>11. RoomKept'
  <2>1. DueHours' = DueHours \cup {h}
    BY <1>3, <1>5 DEF DueHours
  <2>2. Len(events) + Cardinality(DueHours) < MaxEvents
    BY DEF Breach, Room, DueHours
  <2>3. events' = events
    BY DEF Breach
  <2>4. /\ Len(events) \in Nat /\ MaxEvents \in Nat /\ Cardinality(DueHours) \in Nat
        /\ Cardinality(DueHours \cup {h}) <= Cardinality(DueHours) + 1
        /\ Cardinality(DueHours \cup {h}) \in Nat
    BY RoomAfter
  <2>5. Len(events) + Cardinality(DueHours \cup {h}) <= MaxEvents
    BY <2>2, <2>4
  <2> QED
    BY <2>1, <2>3, <2>5 DEF RoomKept
<1> QED
  BY <1>7, <1>8, <1>9, <1>10, <1>11 DEF AlarmInv

\* An evaluation whose claim was the first goes on, and holds the pair alone.
LEMMA ClaimStep ==
  ASSUME AlarmInv, NEW h \in Hours, Claim(h), Unclaimed(<<eval[h].an, eval[h].bill>>)
  PROVE  AlarmInv'
<1> DEFINE t == [eval[h] EXCEPT !.state = "check"]
<1>1. eval[h] \in Evaluation /\ eval[h].state = "claim" /\ PairOf(eval[h]) \notin claimed
  BY EvalOf DEF Claim, Unclaimed, PairOf
<1>2. t \in Evaluation /\ t.state = "check" /\ PairOf(t) = PairOf(eval[h])
  BY <1>1 DEF Evaluation, Steps, PairOf
<1>3. eval' = [eval EXCEPT ![h] = t] /\ claimed' = claimed \cup {PairOf(t)}
  BY <1>2 DEF Claim, PairOf, AlarmInv, TypeOK
<1>4. PairOf(t) \in Analyzers \X (0 .. MaxBill)
  BY <1>2 DEF Evaluation, PairOf
<1> HIDE DEF t
<1>5. /\ eval' \in [Hours -> Evaluation] /\ eval'[h] = t
      /\ \A g \in Hours \ {h} : eval'[g] = eval[g]
  BY <1>2, <1>3 DEF AlarmInv, TypeOK
<1>6. Written' = Written
  BY DEF Written, Claim
<1>7. TypeOK'
  BY <1>3, <1>4, <1>5 DEF Claim, AlarmInv, TypeOK
<1>8. ClaimSound'
  <2> SUFFICES ASSUME rule.invoice PROVE ClaimSound'
    BY DEF ClaimSound, Claim
  <2>1. Holds(h)' /\ \A g \in Hours \ {h} : Holds(g)' = Holds(g)
    BY <1>2, <1>5 DEF Holds
  <2>2. PairOf(t) \notin claimed
    BY <1>1, <1>2
  <2> QED
    BY <1>3, <1>5, <1>6, <2>1, <2>2 DEF AlarmInv, ClaimSound, Claim
<1>9. ToldSound'
  <2>1. \A a, s : Told(a, s)' = Told(a, s)
    BY <1>6 DEF Told, Claim
  <2> QED
    BY <1>2, <1>5, <1>6, <2>1 DEF AlarmInv, ToldSound, Claim
<1>10. DeliverySound'
  BY <1>2, <1>5, <1>6 DEF AlarmInv, DeliverySound, NotifiedWasMailed, Claim
<1>11. RoomKept'
  <2>1. DueHours' = DueHours
    BY <1>1, <1>2, <1>5 DEF DueHours
  <2> QED
    BY <2>1 DEF RoomKept, AlarmInv, Claim
<1> QED
  BY <1>7, <1>8, <1>9, <1>10, <1>11 DEF AlarmInv

\* A window that is open was opened by a mail (lastNotifiedAt).
LEMMA SuppressedTold ==
  ASSUME AlarmInv, NEW a, NEW t \in Times, TRUE \in Suppressed(a, t)
  PROVE  Told(a, t)
<1>1. PICK e \in NewestDelivered(a) : events[e].notified > t - rule.freq
  BY DEF Suppressed
<1>2. e \in Written /\ events[e].an = a /\ events[e].notified # Never
  BY DEF NewestDelivered
<1>3. events[e].notified \in mailed[e]
  BY <1>2 DEF AlarmInv, DeliverySound, NotifiedWasMailed
<1> QED
  BY <1>1, <1>2, <1>3 DEF Told

LEMMA CheckStep == ASSUME AlarmInv, NEW h \in Hours, CheckFrequency(h) PROVE AlarmInv'
<1>1. PICK q \in Suppressed(eval[h].an, eval[h].at) :
        eval' = [eval EXCEPT ![h].state = "create", ![h].quiet = q]
  BY DEF CheckFrequency
<1> DEFINE t == [eval[h] EXCEPT !.state = "create", !.quiet = q]
<1>2. eval[h] \in Evaluation /\ eval[h].state = "check" /\ eval[h].at \in Times
  BY EvalOf DEF CheckFrequency, Evaluation
<1>3. q \in BOOLEAN
  <2>1. CASE q \in {FALSE}
    BY <2>1
  <2>2. CASE q \in {events[e].notified > eval[h].at - rule.freq :
                    e \in NewestDelivered(eval[h].an)}
    <3>1. PICK e \in NewestDelivered(eval[h].an) :
            q = (events[e].notified > eval[h].at - rule.freq)
      BY <2>2
    <3> QED
      BY <3>1
  <2> QED
    BY <1>1, <2>1, <2>2 DEF Suppressed
<1>4. /\ t \in Evaluation /\ t.state = "create" /\ PairOf(t) = PairOf(eval[h])
      /\ t.an = eval[h].an /\ t.at = eval[h].at /\ t.quiet = q
  BY <1>2, <1>3 DEF Evaluation, Steps, PairOf
<1>5. eval' = [eval EXCEPT ![h] = t]
  BY <1>1 DEF AlarmInv, TypeOK
<1>6. t.quiet => Told(t.an, t.at)
  <2>1. CASE q = TRUE
    <3>1. TRUE \in Suppressed(eval[h].an, eval[h].at)
      BY <1>1, <2>1
    <3>2. Told(eval[h].an, eval[h].at)
      BY <1>2, <3>1, SuppressedTold
    <3> QED
      BY <1>4, <3>2
  <2>2. CASE q = FALSE
    BY <1>4, <2>2
  <2> QED
    BY <1>3, <2>1, <2>2
<1> HIDE DEF t
<1>7. /\ eval' \in [Hours -> Evaluation] /\ eval'[h] = t
      /\ \A g \in Hours \ {h} : eval'[g] = eval[g]
  BY <1>4, <1>5 DEF AlarmInv, TypeOK
<1>8. Written' = Written
  BY DEF Written, CheckFrequency
<1>9. TypeOK'
  BY <1>7 DEF CheckFrequency, AlarmInv, TypeOK
<1>10. ClaimSound'
  <2>2. \A g \in Hours : PairOf(eval'[g]) = PairOf(eval[g])
    BY <1>4, <1>7
  <2>3. \A g \in Hours : Holds(g)' <=> Holds(g)
    BY <1>2, <1>4, <1>7 DEF Holds
  <2>4. claimed' = claimed /\ rule' = rule /\ events' = events
    BY DEF CheckFrequency
  <2>5. ClaimSound
    BY DEF AlarmInv
  <2> QED
    BY <1>8, <2>2, <2>3, <2>4, <2>5 DEF ClaimSound
<1>11. ToldSound'
  <2>1. \A a, s : Told(a, s)' = Told(a, s)
    BY <1>8 DEF Told, CheckFrequency
  <2> QED
    BY <1>4, <1>6, <1>7, <1>8, <2>1 DEF AlarmInv, ToldSound, CheckFrequency
<1>12. DeliverySound'
  BY <1>4, <1>7, <1>8 DEF AlarmInv, DeliverySound, NotifiedWasMailed, CheckFrequency
<1>13. RoomKept'
  <2>1. DueHours' = DueHours
    BY <1>2, <1>4, <1>7 DEF DueHours
  <2> QED
    BY <2>1 DEF RoomKept, AlarmInv, CheckFrequency
<1> QED
  BY <1>9, <1>10, <1>11, <1>12, <1>13 DEF AlarmInv

\* The event CreateEvent appends.
NewEvent(h) ==
  [an |-> eval[h].an, bill |-> eval[h].bill, hour |-> h, at |-> eval[h].at,
   suppressed |-> eval[h].quiet, notified |-> Never, error |-> FALSE]

LEMMA EventAppended ==
  ASSUME AlarmInv, NEW h \in Hours, CreateEvent(h)
  PROVE  /\ events' \in Seq(Event) /\ Len(events') = Len(events) + 1
         /\ Len(events) + 1 <= MaxEvents /\ Len(events) \in Nat
         /\ events'[Len(events) + 1] = NewEvent(h)
         /\ \A e \in Written : events'[e] = events[e]
         /\ Written' = Written \cup {Len(events) + 1} /\ Len(events) + 1 \notin Written
<1>1. eval[h] \in Evaluation /\ events \in Seq(Event) /\ Len(events) \in Nat
  BY EvalOf DEF AlarmInv, TypeOK
<1>2. NewEvent(h) \in Event
  BY <1>1 DEF NewEvent, Event, Evaluation
<1>3. events' = Append(events, NewEvent(h))
  BY DEF CreateEvent, NewEvent
<1> HIDE DEF NewEvent
<1>4. /\ events' \in Seq(Event) /\ Len(events') = Len(events) + 1
      /\ events'[Len(events) + 1] = NewEvent(h)
      /\ \A e \in Written : events'[e] = events[e]
  BY <1>1, <1>2, <1>3, AppendProperties DEF Written
<1>5. Len(events) + 1 <= MaxEvents
  <2>1. h \in DueHours /\ IsFiniteSet(DueHours)
    BY HoursFinite DEF DueHours, CreateEvent
  <2>2. /\ Len(events) \in Nat /\ MaxEvents \in Nat /\ Cardinality(DueHours) \in Nat
        /\ Cardinality(DueHours \ {h}) = Cardinality(DueHours) - 1
    BY <2>1, RoomAfter
  <2>3. Cardinality(DueHours \ {h}) \in Nat
    BY <2>1, FS_RemoveElement, FS_CardinalityType
  <2>4. Len(events) + Cardinality(DueHours) <= MaxEvents
    BY DEF AlarmInv, RoomKept
  <2> QED
    BY <2>2, <2>3, <2>4
<1>6. Written' = Written \cup {Len(events) + 1} /\ Len(events) + 1 \notin Written
  BY <1>1, <1>4 DEF Written
<1> QED
  BY <1>1, <1>4, <1>5, <1>6

LEMMA CreateStep == ASSUME AlarmInv, NEW h \in Hours, CreateEvent(h) PROVE AlarmInv'
<1> DEFINE n == Len(events) + 1
           t == IF eval[h].quiet THEN NextAnalyzer(eval[h])
                ELSE [eval[h] EXCEPT !.state = "enqueue", !.event = n]
<1>1. /\ events' \in Seq(Event) /\ Len(events') = n /\ n <= MaxEvents /\ n \in Nat
      /\ events'[n] = NewEvent(h) /\ \A e \in Written : events'[e] = events[e]
      /\ Written' = Written \cup {n} /\ n \notin Written
  BY EventAppended
<1>2. eval[h] \in Evaluation /\ eval[h].state = "create"
  BY EvalOf DEF CreateEvent
<1>3. /\ t \in Evaluation /\ t.state \notin {"claim", "check", "create"}
      /\ t.state = "enqueue" => t.event = n
  <2>1. CASE eval[h].quiet
    BY <1>2, <2>1, NextAnalyzerOK
  <2>2. CASE ~eval[h].quiet
    <3>1. n \in 0 .. MaxEvents
      BY <1>1
    <3> QED
      BY <1>2, <2>2, <3>1 DEF Evaluation, Steps
  <2> QED
    BY <2>1, <2>2
<1>4. eval' = [eval EXCEPT ![h] = t]
  BY DEF CreateEvent
<1> HIDE DEF t, n
<1>5. /\ eval' \in [Hours -> Evaluation] /\ eval'[h] = t
      /\ \A g \in Hours \ {h} : eval'[g] = eval[g]
  BY <1>3, <1>4 DEF AlarmInv, TypeOK
<1>6. PairOf(events'[n]) = PairOf(eval[h]) /\ events'[n].an = eval[h].an
      /\ events'[n].at = eval[h].at /\ events'[n].suppressed = eval[h].quiet
      /\ events'[n].notified = Never
  BY <1>1 DEF NewEvent, PairOf
<1>7. TypeOK'
  BY <1>1, <1>5 DEF CreateEvent, AlarmInv, TypeOK
<1>8. ClaimSound'
  <2> SUFFICES ASSUME rule.invoice PROVE ClaimSound'
    BY DEF ClaimSound, CreateEvent
  <2>1. Holds(h) /\ ~Holds(h)' /\ \A g \in Hours \ {h} : Holds(g)' = Holds(g)
    BY <1>2, <1>3, <1>5 DEF Holds
  <2>2. \A e \in Written : PairOf(events[e]) # PairOf(eval[h])
    BY <2>1 DEF AlarmInv, ClaimSound
  <2>3. \A g \in Hours \ {h} : Holds(g) => PairOf(eval[g]) # PairOf(eval[h])
    BY <2>1 DEF AlarmInv, ClaimSound
  <2>4. PairOf(eval[h]) \in claimed /\ claimed' = claimed /\ rule' = rule
    BY <2>1 DEF AlarmInv, ClaimSound, CreateEvent
  <2>5. \A e \in Written' : PairOf(events'[e]) \in claimed
    BY <1>1, <1>6, <2>4 DEF AlarmInv, ClaimSound
  <2>6. \A e, f \in Written' : PairOf(events'[e]) = PairOf(events'[f]) => e = f
    BY <1>1, <1>6, <2>2 DEF AlarmInv, ClaimSound
  <2>7. \A g \in Hours : Holds(g)' =>
          /\ PairOf(eval'[g]) \in claimed
          /\ \A e \in Written' : PairOf(events'[e]) # PairOf(eval'[g])
    BY <1>1, <1>5, <1>6, <2>1, <2>3 DEF AlarmInv, ClaimSound
  <2>8. \A f, g \in Hours :
          Holds(f)' /\ Holds(g)' /\ PairOf(eval'[f]) = PairOf(eval'[g]) => f = g
    BY <1>5, <2>1 DEF AlarmInv, ClaimSound
  <2> QED
    BY <2>4, <2>5, <2>6, <2>7, <2>8 DEF ClaimSound
<1>9. ToldSound'
  <2>1. mailed' = mailed /\ rule' = rule
    BY DEF CreateEvent
  <2>3. ToldSound
    BY DEF AlarmInv
  <2>4. ASSUME NEW g \in Hours, eval'[g].state = "create", eval'[g].quiet
        PROVE  Told(eval[g].an, eval[g].at)' /\ g # h
    <3>1. g # h /\ eval'[g] = eval[g]
      BY <1>3, <1>5, <2>4
    <3>2. Told(eval[g].an, eval[g].at)
      BY <2>3, <2>4, <3>1 DEF ToldSound
    <3>3. PICK f \in Written :
            events[f].an = eval[g].an /\ \E s \in mailed[f] : s > eval[g].at - rule.freq
      BY <3>2 DEF Told
    <3> QED
      BY <1>1, <2>1, <3>1, <3>3 DEF Told
  <2>5. ASSUME NEW e \in Written', events'[e].suppressed
        PROVE  Told(events[e].an, events[e].at)'
    <3>1. CASE e \in Written
      <4>1. events'[e] = events[e]
        BY <1>1, <3>1
      <4>2. PICK f \in Written :
              events[f].an = events[e].an /\ \E s \in mailed[f] : s > events[e].at - rule.freq
        BY <2>3, <2>5, <3>1, <4>1 DEF ToldSound, Told
      <4> QED
        BY <1>1, <2>1, <4>1, <4>2 DEF Told
    <3>2. CASE e = n
      <4>1. PICK f \in Written :
              events[f].an = eval[h].an /\ \E s \in mailed[f] : s > eval[h].at - rule.freq
        BY <1>2, <1>6, <2>3, <2>5, <3>2 DEF ToldSound, Told
      <4> QED
        BY <1>1, <1>6, <2>1, <3>2, <4>1 DEF Told
    <3> QED
      BY <1>1, <3>1, <3>2
  <2> QED
    BY <2>4, <2>5 DEF ToldSound
<1>10. DeliverySound'
  <2>1. notify' = notify /\ mailed' = mailed /\ DeliverySound
    BY DEF AlarmInv, CreateEvent
  <2>2. \A g \in Hours : eval'[g].state = "enqueue" => eval'[g].event \in Written'
    BY <1>1, <1>3, <1>5, <2>1 DEF DeliverySound
  <2>3. NotifiedWasMailed'
    BY <1>1, <1>6, <2>1 DEF DeliverySound, NotifiedWasMailed
  <2> QED
    BY <1>1, <2>1, <2>2, <2>3 DEF DeliverySound
<1>11. RoomKept'
  <2>1. DueHours' = DueHours \ {h} /\ h \in DueHours
    BY <1>2, <1>3, <1>5 DEF DueHours
  <2>2. Len(events) + 1 + Cardinality(DueHours \ {h}) <= MaxEvents
    BY <2>1, RoomAfter DEF AlarmInv, RoomKept
  <2> QED
    BY <1>1, <2>1, <2>2 DEF RoomKept, n
<1> QED
  BY <1>7, <1>8, <1>9, <1>10, <1>11 DEF AlarmInv

LEMMA EnqueueStep == ASSUME AlarmInv, NEW h \in Hours, Enqueue(h) PROVE AlarmInv'
<1> DEFINE t == NextAnalyzer(eval[h])
           e == eval[h].event
           d == DeliveryTask("scheduled", 0)
<1>1. t \in Evaluation /\ t.state \in Empty
  BY EvalOf, NextAnalyzerOK DEF Empty
<1>2. e \in Written /\ e \in Ids
  BY AlarmAssumption DEF Enqueue, AlarmInv, DeliverySound, Written, TypeOK, Ids
<1>3. d \in Delivery /\ d.state = "scheduled"
  BY DeliveryTaskOK, AlarmAssumption
<1>4. /\ eval' = [eval EXCEPT ![h] = t] /\ notify' = [notify EXCEPT ![e] = d]
      /\ now' = now /\ rule' = rule /\ bill' = bill /\ claimed' = claimed
      /\ dispatched' = dispatched /\ events' = events /\ mailed' = mailed
  BY DEF Enqueue
<1>5. eval[h].state = "enqueue"
  BY DEF Enqueue
<1> HIDE DEF t, e, d
<1>6. /\ eval' \in [Hours -> Evaluation] /\ eval'[h] = t
      /\ \A g \in Hours \ {h} : eval'[g] = eval[g]
  BY <1>1, <1>4 DEF AlarmInv, TypeOK
<1>7. /\ notify' \in [Ids -> Delivery] /\ notify'[e] = d
      /\ \A f \in Ids \ {e} : notify'[f] = notify[f]
  BY <1>2, <1>3, <1>4 DEF AlarmInv, TypeOK
<1>8. Written' = Written
  BY <1>4 DEF Written
<1>9. TypeOK'
  BY <1>4, <1>6, <1>7 DEF AlarmInv, TypeOK
<1>10. ClaimSound'
  <2>1. ClaimSound
    BY DEF AlarmInv
  <2>2. ~Holds(h)' /\ \A g \in Hours \ {h} : (Holds(g)' <=> Holds(g))
    BY <1>1, <1>6 DEF Holds, Empty
  <2> QED
    BY <1>4, <1>6, <1>8, <2>1, <2>2 DEF ClaimSound
<1>11. ToldSound'
  <2>1. \A a, s : Told(a, s)' <=> Told(a, s)
    BY <1>4, <1>8 DEF Told
  <2>2. ToldSound
    BY DEF AlarmInv
  <2> QED
    BY <1>1, <1>4, <1>6, <1>8, <2>1, <2>2 DEF ToldSound, Empty
<1>12. DeliverySound'
  <2>1. DeliverySound
    BY DEF AlarmInv
  <2>2. \A g \in Hours : eval'[g].state = "enqueue" => eval'[g].event \in Written'
    BY <1>1, <1>6, <1>8, <2>1 DEF DeliverySound, Empty
  <2>3. \A f \in Ids : /\ notify'[f].state # "none" => f \in Written'
                       /\ notify'[f].state = "sent" => notify'[f].at \in mailed'[f]
    BY <1>2, <1>3, <1>4, <1>7, <1>8, <2>1 DEF DeliverySound
  <2>4. NotifiedWasMailed'
    BY <1>4, <1>8, <2>1 DEF DeliverySound, NotifiedWasMailed
  <2> QED
    BY <1>4, <1>8, <2>2, <2>3, <2>4 DEF DeliverySound
<1>13. RoomKept'
  <2>1. DueHours' = DueHours
    BY <1>1, <1>5, <1>6 DEF DueHours, Empty
  <2> QED
    BY <1>4, <2>1 DEF RoomKept, AlarmInv
<1> QED
  BY <1>9, <1>10, <1>11, <1>12, <1>13 DEF AlarmInv

--------------------------------------------------------------------------------
(* The deliveries.                                                         *)

\* Evaluations do not notice a delivery, as long as the events keep what they say.
LEMMA DeliveryFrame ==
  ASSUME AlarmInv, eval' = eval, claimed' = claimed, rule' = rule, Len(events') = Len(events),
         \A e \in Written : /\ events'[e].an = events[e].an /\ events'[e].bill = events[e].bill
                            /\ events'[e].at = events[e].at
                            /\ events'[e].suppressed = events[e].suppressed,
         \A e \in Written : mailed[e] \subseteq mailed'[e]
  PROVE  Written' = Written /\ ClaimSound' /\ ToldSound' /\ RoomKept'
<1>1. Written' = Written
  BY DEF Written
<1>2. ClaimSound'
  <2>1. ClaimSound
    BY DEF AlarmInv
  <2>2. \A h \in Hours : Holds(h)' <=> Holds(h)
    BY DEF Holds
  <2>3. \A e \in Written : PairOf(events'[e]) = PairOf(events[e])
    BY DEF PairOf
  <2> QED
    BY <1>1, <2>1, <2>2, <2>3 DEF ClaimSound
<1>3. ToldSound'
  <2>1. ToldSound
    BY DEF AlarmInv
  <2>3. ASSUME NEW h \in Hours, eval[h].state = "create", eval[h].quiet
        PROVE  Told(eval[h].an, eval[h].at)'
    <3>1. PICK f \in Written :
            events[f].an = eval[h].an /\ \E m \in mailed[f] : m > eval[h].at - rule.freq
      BY <2>1, <2>3 DEF ToldSound, Told
    <3> QED
      BY <1>1, <3>1 DEF Told
  <2>4. ASSUME NEW e \in Written, events'[e].suppressed
        PROVE  Told(events[e].an, events[e].at)'
    <3>1. PICK f \in Written :
            events[f].an = events[e].an /\ \E m \in mailed[f] : m > events[e].at - rule.freq
      BY <2>1, <2>4 DEF ToldSound, Told
    <3> QED
      BY <1>1, <3>1 DEF Told
  <2> QED
    BY <1>1, <2>3, <2>4 DEF ToldSound
<1>4. RoomKept'
  BY DEF AlarmInv, RoomKept, DueHours
<1> QED
  BY <1>1, <1>2, <1>3, <1>4

LEMMA DeliveryOf ==
  ASSUME AlarmInv, NEW e \in Ids
  PROVE  notify[e] \in Delivery /\ (notify[e].state # "none" => e \in Written)
BY DEF AlarmInv, TypeOK, DeliverySound

\* A delivery changes its own state only, and does not say it has just mailed.
LEMMA DeliveryMoves ==
  ASSUME AlarmInv, NEW e \in Ids, e \in Written, NEW d \in Delivery, d.state # "sent",
         notify' = [notify EXCEPT ![e] = d], now' = now, rule' = rule, bill' = bill,
         claimed' = claimed, eval' = eval, dispatched' = dispatched, events' = events,
         mailed' = mailed
  PROVE  AlarmInv'
<1>1. /\ notify' \in [Ids -> Delivery] /\ notify'[e] = d
      /\ \A f \in Ids \ {e} : notify'[f] = notify[f]
  BY DEF AlarmInv, TypeOK
<1>2. Written' = Written /\ ClaimSound' /\ ToldSound' /\ RoomKept'
  BY DeliveryFrame
<1>3. TypeOK'
  BY <1>1 DEF AlarmInv, TypeOK
<1>4. DeliverySound'
  <2>1. DeliverySound
    BY DEF AlarmInv
  <2> QED
    BY <1>1, <1>2, <2>1 DEF DeliverySound, NotifiedWasMailed
<1> QED
  BY <1>2, <1>3, <1>4 DEF AlarmInv

LEMMA RetriedDeliveryOK ==
  ASSUME AlarmInv, NEW e \in Ids
  PROVE  DeliveryFailed(e) \in Delivery /\ DeliveryFailed(e).state \in {"scheduled", "archived"}
<1>1. notify[e].tries \in 0 .. MaxRetry
  BY DeliveryOf DEF Delivery
<1>2. CASE notify[e].tries < MaxRetry
  <2>1. notify[e].tries + 1 \in 0 .. MaxRetry
    BY <1>1, <1>2, AlarmAssumption
  <2> QED
    BY <1>2, <2>1, DeliveryTaskOK DEF DeliveryFailed, RetriedDelivery
<1>3. CASE ~(notify[e].tries < MaxRetry)
  <2>1. MaxRetry \in 0 .. MaxRetry
    BY AlarmAssumption
  <2> QED
    BY <1>3, <2>1, DeliveryTaskOK DEF DeliveryFailed, RetriedDelivery
<1> QED
  BY <1>2, <1>3

LEMMA QuietDelivery ==
  ASSUME AlarmInv, NEW e \in Ids,
         FindEvent(e) \/ MissEvent(e) \/ SendFails(e) \/ Complete(e) \/ DeliveryFails(e)
  PROVE  AlarmInv'
<1>1. notify[e] \in Delivery /\ notify[e].state # "none" /\ e \in Written
  BY DeliveryOf DEF FindEvent, MissEvent, SendFails, Complete, DeliveryFails, DeliverySteps
<1>2. PICK d \in Delivery : d.state # "sent" /\ notify' = [notify EXCEPT ![e] = d]
  <2>1. ASSUME NEW s \in {"sending", "dropped", "failing"}
        PROVE  /\ [notify[e] EXCEPT !.state = s] \in Delivery
               /\ [notify[e] EXCEPT !.state = s].state # "sent"
    BY <1>1 DEF Delivery, DeliverySteps
  <2>2. DeliveryTask("done", 0) \in Delivery /\ DeliveryTask("done", 0).state # "sent"
    BY DeliveryTaskOK, AlarmAssumption
  <2>3. DeliveryFailed(e) \in Delivery /\ DeliveryFailed(e).state # "sent"
    BY RetriedDeliveryOK
  <2>4. \/ \E s \in {"sending", "dropped", "failing"} :
             notify' = [notify EXCEPT ![e] = [notify[e] EXCEPT !.state = s]]
        \/ notify' = [notify EXCEPT ![e] = DeliveryTask("done", 0)]
        \/ notify' = [notify EXCEPT ![e] = DeliveryFailed(e)]
    BY DEF FindEvent, MissEvent, SendFails, Complete, DeliveryFails
  <2> QED
    BY <2>1, <2>2, <2>3, <2>4
<1>3. /\ now' = now /\ rule' = rule /\ bill' = bill /\ claimed' = claimed /\ eval' = eval
      /\ dispatched' = dispatched /\ events' = events /\ mailed' = mailed
  BY DEF FindEvent, MissEvent, SendFails, Complete, DeliveryFails
<1> QED
  BY <1>1, <1>2, <1>3, DeliveryMoves

LEMMA SendStep == ASSUME AlarmInv, NEW e \in Ids, Send(e) PROVE AlarmInv'
<1> DEFINE d == [notify[e] EXCEPT !.state = "sent", !.at = now]
<1>1. notify[e] \in Delivery /\ e \in Written
  BY DeliveryOf DEF Send
<1>2. d \in Delivery /\ d.state = "sent" /\ d.at = now
  BY <1>1 DEF Delivery, DeliverySteps, AlarmInv, TypeOK
<1>3. notify' = [notify EXCEPT ![e] = d] /\ mailed' = [mailed EXCEPT ![e] = mailed[e] \cup {now}]
  BY DEF Send, AlarmInv, TypeOK
<1>4. /\ now' = now /\ rule' = rule /\ bill' = bill /\ claimed' = claimed /\ eval' = eval
      /\ dispatched' = dispatched /\ events' = events
  BY DEF Send
<1> HIDE DEF d
<1>5. /\ notify' \in [Ids -> Delivery] /\ notify'[e] = d
      /\ \A f \in Ids \ {e} : notify'[f] = notify[f]
  BY <1>2, <1>3 DEF AlarmInv, TypeOK
<1>6. /\ mailed' \in [Ids -> SUBSET Times] /\ now \in mailed'[e]
      /\ \A f \in Ids : mailed[f] \subseteq mailed'[f]
  BY <1>3 DEF AlarmInv, TypeOK
<1>7. \A f \in Written : f \in Ids
  BY AlarmAssumption DEF Written, Ids, AlarmInv, TypeOK
<1>8. Written' = Written /\ ClaimSound' /\ ToldSound' /\ RoomKept'
  BY <1>4, <1>6, <1>7, DeliveryFrame
<1>9. TypeOK'
  BY <1>4, <1>5, <1>6 DEF AlarmInv, TypeOK
<1>10. DeliverySound'
  <2>1. DeliverySound
    BY DEF AlarmInv
  <2>2. \A f \in Ids : /\ notify'[f].state # "none" => f \in Written
                       /\ notify'[f].state = "sent" => notify'[f].at \in mailed'[f]
    BY <1>1, <1>2, <1>5, <1>6, <2>1 DEF DeliverySound
  <2>3. NotifiedWasMailed'
    BY <1>4, <1>6, <1>7, <1>8, <2>1 DEF DeliverySound, NotifiedWasMailed
  <2> QED
    BY <1>4, <1>8, <2>1, <2>2, <2>3 DEF DeliverySound
<1> QED
  BY <1>8, <1>9, <1>10 DEF AlarmInv

LEMMA RecordStep == ASSUME AlarmInv, NEW e \in Ids, Record(e) PROVE AlarmInv'
<1> DEFINE d == DeliveryTask("recorded", notify[e].tries)
           m == Mark(notify[e])
           r == [events[e] EXCEPT !.notified = m.notified, !.error = m.error]
<1>1. /\ notify[e] \in Delivery /\ e \in Written /\ notify[e].state \in {"sent", "failing"}
  BY DeliveryOf DEF Record
<1>2. d \in Delivery /\ d.state = "recorded"
  BY <1>1, DeliveryTaskOK DEF Delivery, DeliverySteps
<1>3. /\ m.error \in BOOLEAN /\ m.notified \in Times \cup {Never}
      /\ m.notified # Never => m.notified \in mailed[e]
  <2>1. DeliverySound
    BY DEF AlarmInv
  <2> QED
    BY <1>1, <2>1 DEF Mark, Delivery, DeliverySound
<1>4. events[e] \in Event
  BY <1>1, ElementOfSeq DEF AlarmInv, TypeOK, Written
<1> HIDE DEF m
<1>5. /\ r \in Event /\ r.notified = m.notified /\ r.an = events[e].an
      /\ r.bill = events[e].bill /\ r.at = events[e].at /\ r.suppressed = events[e].suppressed
  BY <1>3, <1>4 DEF Event
<1>6. events' = [events EXCEPT ![e] = r] /\ notify' = [notify EXCEPT ![e] = d]
  BY DEF Record, m, AlarmInv, TypeOK
<1>7. /\ now' = now /\ rule' = rule /\ bill' = bill /\ claimed' = claimed /\ eval' = eval
      /\ dispatched' = dispatched /\ mailed' = mailed
  BY DEF Record
<1> HIDE DEF d, r
<1>8. /\ events' \in Seq(Event) /\ Len(events') = Len(events) /\ events'[e] = r
      /\ \A f \in Written \ {e} : events'[f] = events[f]
  BY <1>1, <1>5, <1>6, ExceptSeq DEF AlarmInv, TypeOK, Written
<1>9. /\ notify' \in [Ids -> Delivery] /\ notify'[e] = d
      /\ \A f \in Ids \ {e} : notify'[f] = notify[f]
  BY <1>2, <1>6 DEF AlarmInv, TypeOK
<1>10. Written' = Written /\ ClaimSound' /\ ToldSound' /\ RoomKept'
  <2>1. \A f \in Written : /\ events'[f].an = events[f].an /\ events'[f].bill = events[f].bill
                           /\ events'[f].at = events[f].at
                           /\ events'[f].suppressed = events[f].suppressed
    BY <1>5, <1>8
  <2> QED
    BY <1>7, <1>8, <2>1, DeliveryFrame
<1>11. TypeOK'
  BY <1>7, <1>8, <1>9 DEF AlarmInv, TypeOK
<1>12. DeliverySound'
  <2>1. DeliverySound
    BY DEF AlarmInv
  <2>2. \A f \in Ids : /\ notify'[f].state # "none" => f \in Written
                       /\ notify'[f].state = "sent" => notify'[f].at \in mailed'[f]
    BY <1>1, <1>2, <1>7, <1>9, <2>1 DEF DeliverySound
  <2>3. NotifiedWasMailed'
    BY <1>3, <1>5, <1>7, <1>8, <1>10, <2>1 DEF DeliverySound, NotifiedWasMailed
  <2> QED
    BY <1>7, <1>10, <2>1, <2>2, <2>3 DEF DeliverySound
<1> QED
  BY <1>10, <1>11, <1>12 DEF AlarmInv

--------------------------------------------------------------------------------
\* The clock, and billing, change nothing the invariant looks at.
LEMMA OutsideStep ==
  ASSUME AlarmInv, now' \in Times, bill' \in [Analyzers -> 0 .. MaxBill], rule' = rule,
         claimed' = claimed, eval' = eval, dispatched' = dispatched, events' = events,
         notify' = notify, mailed' = mailed
  PROVE  AlarmInv'
<1>1. Written' = Written /\ ClaimSound' /\ ToldSound' /\ RoomKept'
  BY DeliveryFrame
<1>2. TypeOK'
  BY DEF AlarmInv, TypeOK
<1>3. DeliverySound'
  BY <1>1 DEF AlarmInv, DeliverySound, NotifiedWasMailed
<1> QED
  BY <1>1, <1>2, <1>3 DEF AlarmInv

LEMMA AlarmStep == ASSUME AlarmInv, [Next]_vars PROVE AlarmInv'
<1>1. CASE Tick
  <2>1. now' \in Times /\ bill' \in [Analyzers -> 0 .. MaxBill]
    BY <1>1, AlarmAssumption DEF Tick, AlarmInv, TypeOK, Times
  <2> QED
    BY <1>1, <2>1, OutsideStep DEF Tick
<1>2. CASE Dispatch
  BY <1>2, DispatchStep
<1>3. ASSUME NEW a \in Analyzers, NewBill(a) PROVE AlarmInv'
  <2>1. now' \in Times /\ bill' \in [Analyzers -> 0 .. MaxBill]
    BY <1>3, AlarmAssumption DEF NewBill, AlarmInv, TypeOK
  <2> QED
    BY <1>3, <2>1, OutsideStep DEF NewBill
<1>4. ASSUME NEW h \in Hours, Evaluating(h) PROVE AlarmInv'
  BY <1>4, StartStep, BreachStep, ClaimStep, LetsGo, CheckStep, CreateStep, EnqueueStep
     DEF Evaluating
<1>5. ASSUME NEW e \in Ids, Delivering(e) PROVE AlarmInv'
  BY <1>5, QuietDelivery, SendStep, RecordStep DEF Delivering
<1>6. CASE UNCHANGED vars
  <2>1. now' \in Times /\ bill' \in [Analyzers -> 0 .. MaxBill]
    BY <1>6 DEF vars, AlarmInv, TypeOK
  <2> QED
    BY <1>6, <2>1, OutsideStep DEF vars
<1> QED
  BY <1>1, <1>2, <1>3, <1>4, <1>5, <1>6 DEF Next

(* The types of the model, for any number of analyzers, hours and events.    *)
THEOREM AlarmTypeCorrect == Spec => []TypeOK
<1>1. AlarmInv => TypeOK
  BY DEF AlarmInv
<1> QED
  BY <1>1, AlarmInitInv, AlarmStep, PTL DEF Spec

(* No bill of an analyzer has two events, whatever evaluations overlap, are  *)
(* retried or crash (claimBill before the event is written).                 *)
THEOREM FiredOnceCorrect == Spec => []BillFiredOnce
<1>1. AlarmInv => BillFiredOnce
  BY DEF AlarmInv, ClaimSound, PairOf, BillFiredOnce
<1> QED
  BY <1>1, AlarmInitInv, AlarmStep, PTL DEF Spec

(* An event is kept quiet only when a mail about its analyzer went out less  *)
(* than one frequency earlier (R218).                                        *)
THEOREM ToldCorrect == Spec => []SuppressedWasTold
<1>1. AlarmInv => SuppressedWasTold
  BY DEF AlarmInv, ToldSound, Told, SuppressedWasTold
<1> QED
  BY <1>1, AlarmInitInv, AlarmStep, PTL DEF Spec

(* An event that reads as delivered was mailed at the time it says.          *)
THEOREM MailedCorrect == Spec => []NotifiedWasMailed
<1>1. AlarmInv => NotifiedWasMailed
  BY DEF AlarmInv, DeliverySound
<1> QED
  BY <1>1, AlarmInitInv, AlarmStep, PTL DEF Spec
================================================================================
