------------------------------- MODULE ApiProofs -------------------------------
(***************************************************************************)
(* Proofs about the three protocols of the API: session rotation, the      *)
(* idempotency key and the iSolar token.  They share no state; each part   *)
(* ends in the theorems about its module.                                  *)
(***************************************************************************)
EXTENDS SessionRotation, IdempotencyKey, CredentialToken, FiniteSetTheorems, TLAPS

(***************************************************************************)
(* Proofs about session rotation, for any number of requests and rows.     *)
(* OneLivePerLogin is not inductive: the proof adds that a request acts on *)
(* a row that exists, and that the row a login started with exists, so     *)
(* that a new login never meets a live row of its own number.              *)
(***************************************************************************)
\* What a request has read stays true of the row, or of the clock.
RequestsSound ==
  \A r \in Requests :
    /\ request[r].pc \in {"rotate", "revoke"} => request[r].id \in Rows
    /\ request[r].pc \in {"revoke", "sweep", "update"} => request[r].reason \in Reasons
    /\ request[r].at <= clock

LoginsExist == \A i \in Rows : session[i].login \in Rows

AtMostOneLive ==
  \A i, j \in LiveRows : session[i].login = session[j].login => i = j

SessionInv == SessionTypeOK /\ RequestsSound /\ LoginsExist /\ AtMostOneLive

LEMMA SessionInitInv == SessionInit => SessionInv
BY SessionAssumption
   DEF SessionInit, SessionInv, SessionTypeOK, RequestsSound, LoginsExist, AtMostOneLive,
       SessionRow, RequestState, NoRow, NoRequest, NoSession, Reasons, Rows, LiveRows, Sessions

\* What a request may plan, so that the invariant is kept.
SoundPlan(step) ==
  /\ step \in RequestState /\ step.at <= clock
  /\ step.pc \in {"rotate", "revoke"} => step.id \in Rows
  /\ step.pc \in {"revoke", "sweep", "update"} => step.reason \in Reasons

\* A step that only changes the plan of one request keeps the invariant.
LEMMA PlanStep ==
  ASSUME SessionInv, NEW r \in Requests, NEW step, SoundPlan(step),
         request' = [request EXCEPT ![r] = step], clock' = clock, session' = session
  PROVE  SessionInv'
<1>1. SessionTypeOK'
  BY DEF SessionInv, SessionTypeOK, SoundPlan
<1>2. RequestsSound'
  BY DEF SessionInv, SessionTypeOK, RequestsSound, Rows, SoundPlan
<1>3. LoginsExist' /\ AtMostOneLive'
  BY DEF SessionInv, LoginsExist, AtMostOneLive, Rows, LiveRows
<1> QED
  BY <1>1, <1>2, <1>3 DEF SessionInv

LEMMA NoRequestOK == NoRequest \in RequestState /\ NoRequest.pc = "none" /\ NoRequest.at = 0
BY SessionAssumption DEF NoRequest, RequestState, NoSession

LEMMA RevokedFields ==
  ASSUME NEW row \in SessionRow, NEW at, NEW reason
  PROVE  LET now == Revoked(row, at, reason)
         IN  /\ now.state = "revoked" /\ now.at = at /\ now.reason = reason
             /\ now.login = row.login /\ now.expires = row.expires
             /\ at \in 0 .. MaxClock /\ reason \in Reasons => now \in SessionRow
BY DEF Revoked, SessionRow, Reasons

LEMMA LiveRowFields ==
  ASSUME NEW login, NEW expires
  PROVE  LET now == LiveRow(login, expires)
         IN  /\ now.state = "live" /\ now.at = 0 /\ now.reason = "none"
             /\ now.login = login /\ now.expires = expires
BY DEF LiveRow

LEMMA TickStep == ASSUME SessionInv, ClockTick PROVE SessionInv'
<1>1. clock \in Int /\ clock' = clock + 1 /\ clock' \in 0 .. MaxClock
  BY SessionAssumption DEF ClockTick, SessionInv, SessionTypeOK
<1>2. SessionTypeOK'
  <2>1. \A i \in Sessions : session[i].at \in Int
    BY DEF SessionInv, SessionTypeOK, SessionRow
  <2> QED
    BY <1>1, <2>1 DEF ClockTick, SessionInv, SessionTypeOK
<1>3. RequestsSound'
  <2>1. \A r \in Requests : request[r].at \in Int
    BY DEF SessionInv, SessionTypeOK, RequestState
  <2> QED
    BY <1>1, <2>1 DEF ClockTick, SessionInv, RequestsSound, Rows
<1>4. LoginsExist' /\ AtMostOneLive'
  BY DEF ClockTick, SessionInv, LoginsExist, AtMostOneLive, Rows, LiveRows
<1> QED
  BY <1>2, <1>3, <1>4 DEF SessionInv

LEMMA LoginStep == ASSUME SessionInv, Login PROVE SessionInv'
<1>1. PICK i \in Sessions :
        /\ NextRow(i) /\ UNCHANGED <<clock, request>>
        /\ session' = [session EXCEPT ![i] = LiveRow(i, clock + SessionTTL)]
  BY DEF Login
<1>2. LiveRow(i, clock + SessionTTL) \in SessionRow
  BY SessionAssumption
     DEF LiveRow, SessionRow, SessionInv, SessionTypeOK, NoSession, Reasons
<1>3. Rows' = Rows \cup {i} /\ i \notin Rows /\ LiveRows' = LiveRows \cup {i}
  BY <1>1, LiveRowFields DEF Rows, LiveRows, NextRow, LiveRow, SessionInv, SessionTypeOK
<1>4. SessionTypeOK'
  BY <1>1, <1>2, SessionAssumption DEF SessionInv, SessionTypeOK, LiveRow, Reasons
<1>5. RequestsSound'
  BY <1>1, <1>3 DEF SessionInv, RequestsSound
<1>6. LoginsExist'
  BY <1>1, <1>3 DEF SessionInv, SessionTypeOK, LoginsExist, LiveRow, Rows
<1>7. AtMostOneLive'
  <2>1. \A j \in LiveRows : session[j].login # i
    BY <1>3 DEF SessionInv, LoginsExist, LiveRows, Rows
  <2>2. i \notin LiveRows
    BY <1>3 DEF LiveRows, Rows
  <2> QED
    BY <1>1, <1>3, <2>1, <2>2 DEF SessionInv, SessionTypeOK, AtMostOneLive, LiveRow, LiveRows
<1> QED
  BY <1>4, <1>5, <1>6, <1>7 DEF SessionInv

\* What a rotation does to the rows.
LEMMA RotateRows ==
  ASSUME SessionInv, NEW r \in Requests, Rotate(r)
  PROVE  \E i \in Sessions :
           /\ request[r].id \in LiveRows /\ i \notin Rows
           /\ session' = [session EXCEPT
                ![request[r].id] = Revoked(@, request[r].at, "rotated"),
                ![i] = LiveRow(session[request[r].id].login, session[request[r].id].expires)]
           /\ session'[request[r].id] = Revoked(session[request[r].id], request[r].at, "rotated")
           /\ session'[i] =
                LiveRow(session[request[r].id].login, session[request[r].id].expires)
           /\ \A j \in Sessions \ {i, request[r].id} : session'[j] = session[j]
           /\ Rows' = Rows \cup {i}
           /\ LiveRows' = (LiveRows \ {request[r].id}) \cup {i}
<1> DEFINE old == request[r].id
<1>1. old \in Rows /\ old \in LiveRows
  BY DEF SessionInv, RequestsSound, Rotate, Rows, LiveRows
<1>2. PICK i \in Sessions :
        /\ NextRow(i)
        /\ session' = [session EXCEPT
             ![old] = Revoked(@, request[r].at, "rotated"),
             ![i] = LiveRow(session[old].login, session[old].expires)]
  BY DEF Rotate
<1>3. i \notin Rows /\ i # old /\ old \in Sessions
  BY <1>1, <1>2 DEF NextRow, Rows
<1>4. /\ session'[old] = Revoked(session[old], request[r].at, "rotated")
      /\ session'[i] = LiveRow(session[old].login, session[old].expires)
      /\ \A j \in Sessions \ {i, old} : session'[j] = session[j]
  BY <1>2, <1>3 DEF SessionInv, SessionTypeOK
<1>5. session'[old].state = "revoked" /\ session'[i].state = "live"
  <2>1. session[old] \in SessionRow
    BY <1>3 DEF SessionInv, SessionTypeOK
  <2> QED
    BY <1>4, <2>1, RevokedFields, LiveRowFields
<1>6. Rows' = Rows \cup {i}
  BY <1>1, <1>3, <1>4, <1>5 DEF Rows
<1>7. LiveRows' = (LiveRows \ {old}) \cup {i}
  BY <1>1, <1>3, <1>4, <1>5 DEF LiveRows
<1> QED
  BY <1>1, <1>2, <1>3, <1>4, <1>6, <1>7

LEMMA RotateStep ==
  ASSUME SessionInv, NEW r \in Requests, Rotate(r) PROVE SessionInv'
<1> DEFINE old == request[r].id
<1>1. PICK i \in Sessions :
        /\ old \in LiveRows /\ i \notin Rows
        /\ session' = [session EXCEPT
             ![old] = Revoked(@, request[r].at, "rotated"),
             ![i] = LiveRow(session[old].login, session[old].expires)]
        /\ session'[old] = Revoked(session[old], request[r].at, "rotated")
        /\ session'[i] = LiveRow(session[old].login, session[old].expires)
        /\ \A j \in Sessions \ {i, old} : session'[j] = session[j]
        /\ Rows' = Rows \cup {i}
        /\ LiveRows' = (LiveRows \ {old}) \cup {i}
  BY RotateRows
<1>2. clock' = clock /\ request' = [request EXCEPT ![r] = NoRequest]
  BY DEF Rotate
<1>3. /\ old \in Sessions /\ session[old] \in SessionRow
      /\ request[r].at \in 0 .. MaxClock /\ request[r].at <= clock /\ clock \in Nat
  <2>1. old \in Sessions
    BY <1>1 DEF LiveRows
  <2>2. session[old] \in SessionRow
    BY <2>1 DEF SessionInv, SessionTypeOK
  <2>3. request[r].at \in 0 .. MaxClock
    BY DEF SessionInv, SessionTypeOK, RequestState
  <2>4. request[r].at <= clock
    BY DEF SessionInv, RequestsSound
  <2>5. clock \in Nat
    BY SessionAssumption DEF SessionInv, SessionTypeOK
  <2> QED
    BY <2>1, <2>2, <2>3, <2>4, <2>5
<1>4. Revoked(session[old], request[r].at, "rotated") \in SessionRow
  BY <1>3 DEF Revoked, SessionRow, Reasons
<1>5. LiveRow(session[old].login, session[old].expires) \in SessionRow
  BY <1>3, SessionAssumption DEF LiveRow, SessionRow
<1>6. SessionTypeOK'
  <2>1. session' \in [Sessions -> SessionRow]
    BY <1>1, <1>4, <1>5 DEF SessionInv, SessionTypeOK
  <2>2. request' \in [Requests -> RequestState]
    BY <1>2, NoRequestOK DEF SessionInv, SessionTypeOK
  <2>3. \A j \in Sessions :
          /\ session'[j].state = "revoked" <=> session'[j].reason \in Reasons
          /\ session'[j].at <= clock
    <3> SUFFICES ASSUME NEW j \in Sessions
                 PROVE  /\ session'[j].state = "revoked" <=> session'[j].reason \in Reasons
                        /\ session'[j].at <= clock
      OBVIOUS
    <3>1. CASE j = i
      <4>1. /\ session'[i].state = "live" /\ session'[i].at = 0
            /\ session'[i].reason = "none"
        BY <1>1, LiveRowFields
      <4> QED
        BY <1>3, <3>1, <4>1 DEF Reasons
    <3>2. CASE j = old
      <4>1. /\ session'[old].state = "revoked" /\ session'[old].at = request[r].at
            /\ session'[old].reason = "rotated"
        BY <1>1, <1>3, RevokedFields
      <4> QED
        BY <1>3, <3>2, <4>1 DEF Reasons
    <3>3. CASE j \notin {i, old}
      BY <1>1, <3>3 DEF SessionInv, SessionTypeOK
    <3> QED
      BY <3>1, <3>2, <3>3
  <2> QED
    BY <1>2, <2>1, <2>2, <2>3 DEF SessionInv, SessionTypeOK
<1>7. RequestsSound'
  BY <1>1, <1>2, <1>3, NoRequestOK DEF SessionInv, SessionTypeOK, RequestsSound
<1>8. /\ session'[old].login = session[old].login
      /\ session'[i].login = session[old].login
      /\ i # old
  <2>1. session'[old].login = session[old].login
    BY <1>1, <1>3, RevokedFields
  <2>2. session'[i].login = session[old].login
    BY <1>1, LiveRowFields
  <2>3. i # old
    BY <1>1 DEF LiveRows, Rows
  <2> QED
    BY <2>1, <2>2, <2>3
<1>9. LoginsExist'
  BY <1>1, <1>3, <1>8 DEF SessionInv, LoginsExist, Rows, LiveRows
<1>10. AtMostOneLive'
  <2>1. \A j \in LiveRows \ {old} : session[j].login # session[old].login
    BY <1>1 DEF SessionInv, AtMostOneLive
  <2>2. \A j \in LiveRows \ {old} : j \in Sessions \ {i, old}
    BY <1>1 DEF LiveRows, Rows
  <2>3. \A j \in LiveRows' \ {i} : j \in LiveRows \ {old} /\ session'[j] = session[j]
    BY <1>1, <2>2
  <2>4. \A j, k \in LiveRows : session[j].login = session[k].login => j = k
    BY DEF SessionInv, AtMostOneLive
  <2> QED
    BY <1>8, <2>1, <2>3, <2>4 DEF AtMostOneLive
<1> QED
  BY <1>6, <1>7, <1>9, <1>10 DEF SessionInv

\* A step that revokes some live rows, each with a reason and an instant that
\* is not in the future, and ends its request.
LEMMA RevokeStep ==
  ASSUME SessionInv, NEW r \in Requests, NEW S \in SUBSET LiveRows,
         request[r].pc \in {"revoke", "update"},
         session' = [i \in Sessions |->
           IF i \in S THEN Revoked(session[i], request[r].at, request[r].reason) ELSE session[i]],
         request' = [request EXCEPT ![r] = NoRequest], clock' = clock
  PROVE  SessionInv'
<1>1. /\ request[r].reason \in Reasons /\ request[r].at \in 0 .. MaxClock
      /\ request[r].at <= clock /\ clock \in Nat
  BY DEF SessionInv, SessionTypeOK, RequestsSound, RequestState
<1>2. \A i \in Sessions :
        /\ i \in S => session'[i] = Revoked(session[i], request[r].at, request[r].reason)
        /\ i \notin S => session'[i] = session[i]
        /\ session[i] \in SessionRow
  BY DEF SessionInv, SessionTypeOK
<1>3. \A i \in S : /\ i \in Sessions
                   /\ session'[i] \in SessionRow /\ session'[i].state = "revoked"
                   /\ session'[i].at = request[r].at /\ session'[i].reason = request[r].reason
                   /\ session'[i].login = session[i].login
  <2> SUFFICES ASSUME NEW i \in S
               PROVE  /\ i \in Sessions
                      /\ session'[i] \in SessionRow /\ session'[i].state = "revoked"
                      /\ session'[i].at = request[r].at /\ session'[i].reason = request[r].reason
                      /\ session'[i].login = session[i].login
    OBVIOUS
  <2>1. i \in Sessions
    BY DEF LiveRows
  <2> QED
    BY <1>1, <1>2, <2>1, RevokedFields
<1>4. Rows' = Rows /\ LiveRows' = LiveRows \ S
  BY <1>2, <1>3 DEF Rows, LiveRows
<1>5. SessionTypeOK'
  <2>1. session' \in [Sessions -> SessionRow]
    BY <1>2, <1>3
  <2>2. request' \in [Requests -> RequestState]
    BY NoRequestOK DEF SessionInv, SessionTypeOK
  <2> QED
    BY <1>1, <1>2, <1>3, <2>1, <2>2 DEF SessionInv, SessionTypeOK
<1>6. RequestsSound'
  BY <1>1, <1>4, NoRequestOK DEF SessionInv, SessionTypeOK, RequestsSound
<1>7. LoginsExist' /\ AtMostOneLive'
  BY <1>2, <1>3, <1>4 DEF SessionInv, LoginsExist, AtMostOneLive, Rows, LiveRows
<1> QED
  BY <1>5, <1>6, <1>7 DEF SessionInv

\* A step of a request that decides what to do, or gives up.
LEMMA DecideStep ==
  ASSUME SessionInv, NEW r \in Requests,
         DetectReuse(r) \/ BeginRefresh(r) \/ BeginRevoke(r) \/ BeginSweep(r)
           \/ SweepSnapshot(r) \/ GivesUp(r)
  PROVE  SessionInv' /\ clock' = clock /\ session' = session
<1>1. clock \in 0 .. MaxClock /\ clock \in Nat /\ request[r] \in RequestState /\ Rows \subseteq Sessions
  BY SessionAssumption DEF SessionInv, SessionTypeOK, Rows
<1>2. CASE DetectReuse(r)
  <2> DEFINE step == [NoRequest EXCEPT !.pc = "sweep", !.at = clock, !.reason = "reuse_detected"]
  <2>1. request' = [request EXCEPT ![r] = step] /\ clock' = clock /\ session' = session
    BY <1>2 DEF DetectReuse, Becomes
  <2>2. /\ step \in RequestState /\ step.pc = "sweep"
        /\ step.reason = "reuse_detected" /\ step.at = clock
    BY <1>1 DEF NoRequest, RequestState, NoSession, Reasons
  <2> HIDE DEF step
  <2>3. SoundPlan(step)
    BY <1>1, <2>1, <2>2 DEF SoundPlan, Reasons
  <2> QED
    BY <2>1, <2>3, PlanStep
<1>3. CASE BeginRefresh(r)
  <2>1. PICK i \in Rows :
          /\ request' = [request EXCEPT ![r] =
               [NoRequest EXCEPT !.pc = "rotate", !.id = i, !.at = clock]]
          /\ clock' = clock /\ session' = session
    BY <1>3 DEF BeginRefresh, Becomes
  <2> DEFINE step == [NoRequest EXCEPT !.pc = "rotate", !.id = i, !.at = clock]
  <2>2. step \in RequestState /\ step.pc = "rotate" /\ step.id = i /\ step.at = clock
    BY <1>1 DEF NoRequest, RequestState, NoSession, Reasons
  <2>3. request' = [request EXCEPT ![r] = step]
    BY <2>1
  <2> HIDE DEF step
  <2>4. SoundPlan(step)
    BY <1>1, <2>1, <2>2, <2>3 DEF SoundPlan, Reasons
  <2> QED
    BY <2>1, <2>3, <2>4, PlanStep
<1>4. CASE BeginRevoke(r)
  <2>1. PICK i \in Rows :
          /\ request' = [request EXCEPT ![r] =
               [NoRequest EXCEPT !.pc = "revoke", !.id = i, !.at = clock, !.reason = "ended"]]
          /\ clock' = clock /\ session' = session
    BY <1>4 DEF BeginRevoke, Becomes
  <2> DEFINE step == [NoRequest EXCEPT !.pc = "revoke", !.id = i, !.at = clock,
                                       !.reason = "ended"]
  <2>2. /\ step \in RequestState /\ step.pc = "revoke" /\ step.id = i
        /\ step.at = clock /\ step.reason = "ended"
    BY <1>1 DEF NoRequest, RequestState, NoSession, Reasons
  <2>3. request' = [request EXCEPT ![r] = step]
    BY <2>1
  <2> HIDE DEF step
  <2>4. SoundPlan(step)
    BY <1>1, <2>1, <2>2, <2>3 DEF SoundPlan, Reasons
  <2> QED
    BY <2>1, <2>3, <2>4, PlanStep
<1>5. CASE BeginSweep(r)
  <2>1. PICK keep \in Rows \cup {NoSession} :
          /\ request' = [request EXCEPT ![r] =
               [NoRequest EXCEPT !.pc = "sweep", !.keep = keep, !.at = clock, !.reason = "ended"]]
          /\ clock' = clock /\ session' = session
    BY <1>5 DEF BeginSweep, Becomes
  <2> DEFINE step == [NoRequest EXCEPT !.pc = "sweep", !.keep = keep, !.at = clock,
                                       !.reason = "ended"]
  <2>2. /\ step \in RequestState /\ step.pc = "sweep"
        /\ step.at = clock /\ step.reason = "ended"
    BY <1>1 DEF NoRequest, RequestState, NoSession, Reasons
  <2>3. request' = [request EXCEPT ![r] = step]
    BY <2>1
  <2> HIDE DEF step
  <2>4. SoundPlan(step)
    BY <1>1, <2>1, <2>2, <2>3 DEF SoundPlan, Reasons
  <2> QED
    BY <2>1, <2>3, <2>4, PlanStep
<1>6. CASE SweepSnapshot(r)
  <2> DEFINE step == [request[r] EXCEPT !.pc = "update",
                                        !.seen = LiveRows \ {request[r].keep}]
  <2>1. request' = [request EXCEPT ![r] = step] /\ clock' = clock /\ session' = session
    BY <1>1, <1>6 DEF SweepSnapshot, SessionInv, SessionTypeOK
  <2>2. LiveRows \ {request[r].keep} \in SUBSET Sessions
    BY DEF LiveRows
  <2>3. /\ step \in RequestState /\ step.pc = "update"
        /\ step.reason = request[r].reason /\ step.at = request[r].at
    BY <1>1, <2>2 DEF RequestState
  <2>4. request[r].reason \in Reasons /\ request[r].at <= clock
    BY <1>6 DEF SweepSnapshot, SessionInv, RequestsSound
  <2> HIDE DEF step
  <2>5. SoundPlan(step)
    BY <2>1, <2>3, <2>4 DEF SoundPlan, Reasons
  <2> QED
    BY <2>1, <2>5, PlanStep
<1>7. CASE GivesUp(r)
  <2>1. request' = [request EXCEPT ![r] = NoRequest] /\ clock' = clock /\ session' = session
    BY <1>7 DEF GivesUp
  <2>2. SoundPlan(NoRequest)
    BY <1>1, NoRequestOK DEF SoundPlan
  <2> QED
    BY <2>1, <2>2, PlanStep
<1> QED
  BY <1>2, <1>3, <1>4, <1>5, <1>6, <1>7

\* The two revocations, as the set of live rows they revoke.
LEMMA RevokesLive ==
  ASSUME SessionInv, NEW r \in Requests, RevokeWithReason(r) \/ SweepUpdate(r)
  PROVE  /\ request[r].pc \in {"revoke", "update"}
         /\ request' = [request EXCEPT ![r] = NoRequest] /\ clock' = clock
         /\ \E S \in SUBSET LiveRows : session' = [i \in Sessions |->
              IF i \in S THEN Revoked(session[i], request[r].at, request[r].reason)
                         ELSE session[i]]
<1>1. CASE RevokeWithReason(r)
  <2> DEFINE S == {request[r].id} \cap LiveRows
  <2>1. session' = [i \in Sessions |->
          IF i \in S THEN Revoked(session[i], request[r].at, request[r].reason) ELSE session[i]]
    BY <1>1 DEF RevokeWithReason, SessionInv, SessionTypeOK, LiveRows
  <2>2. S \in SUBSET LiveRows
    OBVIOUS
  <2> QED
    BY <1>1, <2>1, <2>2 DEF RevokeWithReason
<1>2. CASE SweepUpdate(r)
  BY <1>2 DEF SweepUpdate
<1> QED
  BY <1>1, <1>2

LEMMA SessionStep == SessionInv /\ [SessionNext]_sessionVars => SessionInv'
<1> SUFFICES ASSUME SessionInv, [SessionNext]_sessionVars PROVE SessionInv'
  OBVIOUS
<1>1. CASE ClockTick
  BY <1>1, TickStep
<1>2. CASE Login
  BY <1>2, LoginStep
<1>3. ASSUME NEW r \in Requests, Rotate(r) PROVE SessionInv'
  BY <1>3, RotateStep
<1>4. ASSUME NEW r \in Requests,
             DetectReuse(r) \/ BeginRefresh(r) \/ BeginRevoke(r) \/ BeginSweep(r)
               \/ SweepSnapshot(r) \/ GivesUp(r)
      PROVE  SessionInv'
  BY <1>4, DecideStep
<1>5. ASSUME NEW r \in Requests, RevokeWithReason(r) \/ SweepUpdate(r) PROVE SessionInv'
  BY <1>5, RevokesLive, RevokeStep
<1>6. CASE UNCHANGED sessionVars
  BY <1>6 DEF sessionVars, SessionInv, SessionTypeOK, RequestsSound, LoginsExist,
              AtMostOneLive, Rows, LiveRows
<1> QED
  BY <1>1, <1>2, <1>3, <1>4, <1>5, <1>6 DEF SessionNext

\* What a step leaves alone, and where the live rows after it come from.
RowsKept ==
  /\ \A i \in Sessions : session[i].state = "revoked" => session'[i] = session[i]
  /\ \A i \in Rows : session'[i].login = session[i].login
  /\ \A k \in LiveRows' :
       \/ \E o \in LiveRows : session'[k].login = session[o].login
       \/ k \notin Rows /\ session'[k].login = k

LEMMA RowsStep == ASSUME SessionInv, [SessionNext]_sessionVars PROVE RowsKept
<1>1. ASSUME UNCHANGED session PROVE RowsKept
  BY <1>1 DEF RowsKept, LiveRows
<1>2. CASE Login
  <2>1. PICK i \in Sessions :
          NextRow(i) /\ session' = [session EXCEPT ![i] = LiveRow(i, clock + SessionTTL)]
    BY <1>2 DEF Login
  <2>2. /\ i \notin Rows /\ session'[i].login = i
        /\ \A j \in Sessions \ {i} : session'[j] = session[j]
    BY <2>1, LiveRowFields DEF NextRow, SessionInv, SessionTypeOK
  <2>3. session[i].state = "none"
    BY <2>2 DEF Rows
  <2>4. \A k \in LiveRows' \ {i} : k \in LiveRows /\ session'[k] = session[k]
    BY <2>2 DEF LiveRows
  <2> QED
    BY <2>2, <2>3, <2>4 DEF RowsKept, Rows
<1>3. ASSUME NEW r \in Requests, Rotate(r) PROVE RowsKept
  <2> DEFINE old == request[r].id
  <2>1. PICK i \in Sessions :
          /\ old \in LiveRows /\ i \notin Rows
          /\ session'[old] = Revoked(session[old], request[r].at, "rotated")
          /\ session'[i] = LiveRow(session[old].login, session[old].expires)
          /\ \A j \in Sessions \ {i, old} : session'[j] = session[j]
          /\ LiveRows' = (LiveRows \ {old}) \cup {i}
    BY <1>3, RotateRows
  <2>2. session[old] \in SessionRow /\ session[old].state = "live" /\ session[i].state = "none"
    BY <2>1 DEF SessionInv, SessionTypeOK, LiveRows, Rows
  <2>3. session'[old].login = session[old].login /\ session'[i].login = session[old].login
    BY <2>1, <2>2, RevokedFields, LiveRowFields
  <2>4. \A j \in LiveRows \ {old} : session'[j] = session[j]
    BY <2>1, <2>2 DEF LiveRows
  <2>5. \A j \in Sessions : session[j].state = "revoked" => session'[j] = session[j]
    BY <2>1, <2>2
  <2>6. \A j \in Rows : session'[j].login = session[j].login
    BY <2>1, <2>3 DEF Rows
  <2> QED
    BY <2>1, <2>3, <2>4, <2>5, <2>6 DEF RowsKept
<1>4. ASSUME NEW r \in Requests, RevokeWithReason(r) \/ SweepUpdate(r) PROVE RowsKept
  <2>1. PICK S \in SUBSET LiveRows : session' = [i \in Sessions |->
          IF i \in S THEN Revoked(session[i], request[r].at, request[r].reason) ELSE session[i]]
    BY <1>4, RevokesLive
  <2>2. \A i \in Sessions :
          /\ session'[i].login = session[i].login
          /\ i \in S => session'[i].state = "revoked" /\ session[i].state = "live"
          /\ i \notin S => session'[i] = session[i]
    <3>1. \A i \in Sessions : session[i] \in SessionRow
      BY DEF SessionInv, SessionTypeOK
    <3>2. \A i \in S : session[i].state = "live"
      BY DEF LiveRows
    <3> QED
      BY <2>1, <3>1, <3>2, RevokedFields
  <2> QED
    BY <2>2 DEF RowsKept, Rows, LiveRows
<1>5. ASSUME NEW r \in Requests,
             DetectReuse(r) \/ BeginRefresh(r) \/ BeginRevoke(r) \/ BeginSweep(r)
               \/ SweepSnapshot(r) \/ GivesUp(r)
      PROVE  RowsKept
  BY <1>1, <1>5, DecideStep
<1>6. CASE ClockTick
  BY <1>1, <1>6 DEF ClockTick
<1>7. CASE UNCHANGED sessionVars
  BY <1>1, <1>7 DEF sessionVars
<1> QED
  BY <1>2, <1>3, <1>4, <1>5, <1>6, <1>7 DEF SessionNext

(* The rows and the requests' locals keep their types, and a revoked row its *)
(* reason, whatever the number of requests (tenancy.go, service/auth).       *)
THEOREM SessionTypeCorrect == SessionSpec => []SessionTypeOK
<1>1. SessionInv => SessionTypeOK
  BY DEF SessionInv
<1> QED
  BY <1>1, SessionInitInv, SessionStep, PTL DEF SessionSpec

(* However the refreshes, revocations and sweeps of a user interleave, a     *)
(* login never has two live refresh tokens (Rotate's row lock).              *)
THEOREM OneLiveCorrect == SessionSpec => []OneLivePerLogin
<1>1. SessionInv => OneLivePerLogin
  <2> SUFFICES ASSUME SessionInv, NEW i \in Sessions PROVE Cardinality(LiveOf(i)) <= 1
    BY DEF OneLivePerLogin
  <2>1. CASE LiveOf(i) = {}
    BY <2>1, FS_EmptySet
  <2>2. CASE LiveOf(i) # {}
    <3>1. PICK k : k \in LiveOf(i)
      BY <2>2
    <3>2. LiveOf(i) = {k}
      BY <3>1 DEF LiveOf, SessionInv, AtMostOneLive
    <3>3. Cardinality({k}) = 1
      BY FS_Singleton
    <3> QED
      BY <3>2, <3>3
  <2> QED
    BY <2>1, <2>2
<1> QED
  BY <1>1, SessionInitInv, SessionStep, PTL DEF SessionSpec

(* A login that has lost its last live session never has one again: a        *)
(* refresh that read the row before its revocation does not revive it.       *)
THEOREM EndsCorrect == SessionSpec => EndsForGood
<1>1. SessionInv /\ [SessionNext]_sessionVars =>
        [\A i \in Rows : LiveOf(session[i].login) = {} => LiveOf(session[i].login)' = {}]_sessionVars
  <2> SUFFICES ASSUME SessionInv, [SessionNext]_sessionVars, NEW i \in Rows,
                      LiveOf(session[i].login) = {}, NEW k \in LiveOf(session[i].login)'
               PROVE  FALSE
    OBVIOUS
  <2>1. k \in LiveRows' /\ session'[k].login = session'[i].login
    BY DEF LiveOf
  <2>2. session'[i].login = session[i].login
    BY RowsStep DEF RowsKept
  <2>3. session[i].login \in Rows
    BY DEF SessionInv, LoginsExist
  <2>4. \A o \in LiveRows : session[o].login # session[i].login
    BY DEF LiveOf
  <2> QED
    BY <2>1, <2>2, <2>3, <2>4, RowsStep DEF RowsKept
<1> QED
  BY <1>1, SessionInitInv, SessionStep, PTL DEF SessionSpec, EndsForGood

(* The first revocation of a row is the one recorded (sessions.sql).         *)
THEOREM FirstReasonCorrect == SessionSpec => FirstReasonStands
<1>1. SessionInv /\ [SessionNext]_sessionVars =>
        [\A i \in Sessions :
           session[i].state = "revoked" => session'[i] = session[i]]_sessionVars
  BY RowsStep DEF RowsKept
<1> QED
  BY <1>1, SessionInitInv, SessionStep, PTL DEF SessionSpec, FirstReasonStands

-----------------------------------------------------------------------------
(***************************************************************************)
(* Proofs about the idempotency key, for any number of overlapping         *)
(* requests and any bodies.  The argument: a request inside the handler    *)
(* owns the pending record, so at most one is inside; an effect whose      *)
(* answer can still be recorded is that request's, or is recorded.         *)
(***************************************************************************)
KeyRecord == [state : {"absent", "pending", "done"}, body : Bodies \cup {NoBody}]

SenderState ==
  [pc : {"idle", "handler", "answered", "replay"}, body : Bodies \cup {NoBody},
   acted : BOOLEAN, answer : {"none", "busy", "reuse", "replayed", "fresh", "failed"}]

KeyTyped ==
  /\ key \in KeyRecord /\ (key.state = "absent" <=> key.body = NoBody)
  /\ sender \in [Senders -> SenderState]
  /\ effects \in 0 .. 2 /\ (effects = 0 <=> first = NoBody)
  /\ unrecorded \in BOOLEAN /\ abandoned \in BOOLEAN

\* A request inside the handler owns the pending record, and owns it alone.
Owned ==
  /\ \A q \in Senders : Inside(q) => key.state = "pending" /\ key.body = sender[q].body
  /\ \A p, q \in Senders : Inside(p) /\ Inside(q) => p = q
  /\ \A q \in Senders : Inside(q) /\ sender[q].acted => effects # 0

\* The first effect is recorded, or is that of a request that may record it.
Accounted ==
  effects # 0 /\ ~unrecorded =>
    \/ key.state = "done" /\ key.body = first
    \/ \E q \in Senders : Inside(q) /\ sender[q].acted /\ sender[q].body = first

Replayed ==
  \A q \in Senders :
    /\ sender[q].pc # "idle" => sender[q].answer = "none"
    /\ sender[q].answer = "replayed" => key.state = "done" /\ key.body = sender[q].body

KeyInv == KeyTyped /\ Owned /\ Accounted /\ Replayed /\ OncePerKey /\ PendingIsRunning

LEMMA KeyInitInv == KeyInit => KeyInv
<1> SUFFICES ASSUME KeyInit PROVE KeyInv
  OBVIOUS
<1>1. /\ key \in KeyRecord /\ key.state = "absent" /\ key.body = NoBody
      /\ Ready \in SenderState /\ Ready.pc = "idle" /\ Ready.answer = "none"
  BY DEF KeyInit, NoKey, KeyRecord, Ready, SenderState
<1>2. \A q \in Senders : sender[q] = Ready /\ ~Inside(q)
  BY <1>1 DEF KeyInit, Inside
<1>3. KeyTyped
  <2>1. unrecorded \in BOOLEAN /\ abandoned \in BOOLEAN
    BY DEF KeyInit
  <2>2. effects \in 0 .. 2 /\ (effects = 0 <=> first = NoBody)
    BY DEF KeyInit
  <2>3. sender \in [Senders -> SenderState]
    BY <1>1 DEF KeyInit
  <2> QED
    BY <1>1, <2>1, <2>2, <2>3 DEF KeyTyped
<1>4. Owned /\ Accounted /\ Replayed /\ OncePerKey /\ PendingIsRunning
  BY <1>1, <1>2 DEF KeyInit, Owned, Accounted, Replayed, OncePerKey, PendingIsRunning
<1> QED
  BY <1>3, <1>4 DEF KeyInv

\* A request that starts over with a body.
LEMMA ReadyFields ==
  ASSUME NEW pc \in {"handler", "replay"}, NEW b \in Bodies
  PROVE  LET now == [Ready EXCEPT !.pc = pc, !.body = b]
         IN  /\ now \in SenderState
             /\ now.pc = pc /\ now.body = b /\ now.acted = FALSE /\ now.answer = "none"
<1>1. Ready \in SenderState /\ Ready.acted = FALSE /\ Ready.answer = "none"
  BY DEF Ready, SenderState
<1> QED
  BY <1>1 DEF SenderState

\* The invariant says what the properties say.
LEMMA KeyInvImplies == KeyInv => KeyTypeOK /\ OncePerKey /\ ReplayMatches /\ PendingIsRunning
<1> SUFFICES ASSUME KeyInv PROVE KeyTypeOK /\ ReplayMatches
  BY DEF KeyInv
<1>1. KeyTypeOK
  BY DEF KeyInv, KeyTyped, KeyTypeOK, KeyRecord, SenderState
<1>2. ReplayMatches
  BY DEF KeyInv, Owned, Accounted, Replayed, ReplayMatches
<1> QED
  BY <1>1, <1>2

LEMMA ClaimStep == ASSUME KeyInv, NEW q \in Senders, Claim(q) PROVE KeyInv'
<1>1. PICK b \in Bodies :
        /\ sender[q].pc = "idle" /\ key.state = "absent"
        /\ key' = [state |-> "pending", body |-> b]
        /\ sender' = [sender EXCEPT ![q] = [Ready EXCEPT !.pc = "handler", !.body = b]]
        /\ UNCHANGED <<effects, first, unrecorded, abandoned>>
  BY DEF Claim
<1>2. /\ sender'[q].pc = "handler" /\ sender'[q].body = b /\ ~sender'[q].acted
      /\ sender'[q].answer = "none"
      /\ sender' \in [Senders -> SenderState]
      /\ \A p \in Senders \ {q} : sender'[p] = sender[p]
  <2> DEFINE now == [Ready EXCEPT !.pc = "handler", !.body = b]
  <2>1. /\ now \in SenderState
        /\ now.pc = "handler" /\ now.body = b /\ now.acted = FALSE /\ now.answer = "none"
    BY ReadyFields
  <2>2. sender' = [sender EXCEPT ![q] = now]
    BY <1>1
  <2> HIDE DEF now
  <2> QED
    BY <2>1, <2>2 DEF KeyInv, KeyTyped
<1>3. key'.state = "pending" /\ key'.body = b /\ key' \in KeyRecord
  BY <1>1 DEF KeyRecord
<1>4. KeyTyped'
  BY <1>1, <1>2, <1>3, KeyAssumption DEF KeyInv, KeyTyped
<1>5. \A p \in Senders : ~Inside(p)
  BY <1>1 DEF KeyInv, Owned
<1>6. Inside(q)' /\ \A p \in Senders \ {q} : ~Inside(p)'
  BY <1>2, <1>5 DEF Inside
<1>7. Owned'
  BY <1>2, <1>3, <1>6 DEF Owned
<1>8. Accounted' /\ OncePerKey'
  BY <1>1, <1>5 DEF KeyInv, Accounted, OncePerKey
<1>9. Replayed' /\ PendingIsRunning'
  <2>1. \A p \in Senders : sender[p].answer # "replayed"
    BY <1>1 DEF KeyInv, Replayed
  <2>2. Replayed'
    BY <1>2, <2>1 DEF KeyInv, Replayed
  <2>3. PendingIsRunning'
    BY <1>2, <1>3, <1>6 DEF PendingIsRunning
  <2> QED
    BY <2>2, <2>3
<1> QED
  BY <1>4, <1>7, <1>8, <1>9 DEF KeyInv

\* What the steps of a request that owns the record have in common.
LEMMA OnlyInside ==
  ASSUME KeyInv, NEW q \in Senders, Inside(q)
  PROVE  /\ key.state = "pending" /\ key.body = sender[q].body /\ sender[q].body \in Bodies
         /\ sender[q].answer = "none" /\ sender[q].pc # "idle"
         /\ \A p \in Senders \ {q} : ~Inside(p)
         /\ \A p \in Senders : sender[p].answer # "replayed"
         /\ effects # 0 /\ ~unrecorded => sender[q].acted /\ sender[q].body = first
<1>1. key.state = "pending" /\ key.body = sender[q].body
  BY DEF KeyInv, Owned
<1>2. sender[q].body \in Bodies
  BY <1>1, KeyAssumption DEF KeyInv, KeyTyped, KeyRecord
<1>3. sender[q].pc # "idle" /\ sender[q].answer = "none"
  BY DEF Inside, KeyInv, Replayed
<1>4. \A p \in Senders \ {q} : ~Inside(p)
  BY DEF KeyInv, Owned
<1>5. \A p \in Senders : sender[p].answer # "replayed"
  BY <1>1 DEF KeyInv, Replayed
<1>6. effects # 0 /\ ~unrecorded => sender[q].acted /\ sender[q].body = first
  BY <1>1, <1>4 DEF KeyInv, Accounted
<1> QED
  BY <1>1, <1>2, <1>3, <1>4, <1>5, <1>6

\* A request outside the handler that looks at the record changes itself only.
LEMMA OutsideStep ==
  ASSUME KeyInv, NEW q \in Senders, FindTaken(q) \/ Replay(q) PROVE KeyInv'
<1>1. /\ ~Inside(q)
      /\ UNCHANGED <<key, effects, first, unrecorded, abandoned>>
      /\ sender' \in [Senders -> SenderState]
      /\ \A p \in Senders \ {q} : sender'[p] = sender[p]
      /\ ~Inside(q)'
      /\ sender'[q].pc # "idle" => sender'[q].answer = "none"
      /\ sender'[q].answer = "replayed" => key.state = "done" /\ key.body = sender'[q].body
  <2>1. CASE FindTaken(q)
    <3>1. PICK b \in Bodies :
            /\ sender[q].pc = "idle"
            /\ sender' = [sender EXCEPT ![q] = [Ready EXCEPT !.pc = "replay", !.body = b]]
            /\ UNCHANGED <<key, effects, first, unrecorded, abandoned>>
      BY <2>1 DEF FindTaken
    <3> DEFINE now == [Ready EXCEPT !.pc = "replay", !.body = b]
    <3>2. now \in SenderState /\ now.pc = "replay" /\ now.answer = "none"
      BY ReadyFields
    <3>3. sender' = [sender EXCEPT ![q] = now]
      BY <3>1
    <3> HIDE DEF now
    <3>4. /\ sender'[q] = now /\ sender' \in [Senders -> SenderState]
          /\ \A p \in Senders \ {q} : sender'[p] = sender[p]
      BY <3>2, <3>3 DEF KeyInv, KeyTyped
    <3> QED
      BY <3>1, <3>2, <3>4 DEF Inside
  <2>2. CASE Replay(q)
    <3> DEFINE a == IF key.state = "absent" THEN "busy"
                    ELSE IF key.body # sender[q].body THEN "reuse"
                    ELSE IF key.state # "done" THEN "busy" ELSE "replayed"
    <3>1. /\ sender[q].pc = "replay"
          /\ sender' = [sender EXCEPT ![q].pc = "idle", ![q].answer = a]
          /\ UNCHANGED <<key, effects, first, unrecorded, abandoned>>
      BY <2>2 DEF Replay, Answer
    <3>2. /\ a \in {"busy", "reuse", "replayed"}
          /\ a = "replayed" => key.state = "done" /\ key.body = sender[q].body
      BY DEF KeyInv, KeyTyped, KeyRecord
    <3> HIDE DEF a
    <3>3. sender[q] \in SenderState
      BY DEF KeyInv, KeyTyped
    <3>4. /\ sender'[q].pc = "idle" /\ sender'[q].answer = a
          /\ sender'[q].body = sender[q].body /\ sender'[q] \in SenderState
          /\ \A p \in Senders \ {q} : sender'[p] = sender[p]
      BY <3>1, <3>2, <3>3 DEF KeyInv, KeyTyped, SenderState
    <3>5. sender' \in [Senders -> SenderState]
      BY <3>1, <3>4 DEF KeyInv, KeyTyped
    <3> QED
      BY <3>1, <3>2, <3>4, <3>5 DEF Inside
  <2> QED
    BY <2>1, <2>2
<1>2. \A p \in Senders : Inside(p)' <=> Inside(p)
  BY <1>1 DEF Inside
<1>3. \A p \in Senders : Inside(p) => sender'[p] = sender[p]
  BY <1>1
<1>4. KeyTyped' /\ OncePerKey'
  BY <1>1 DEF KeyInv, KeyTyped, OncePerKey
<1>5. Owned'
  BY <1>1, <1>2, <1>3 DEF KeyInv, Owned
<1>6. Accounted'
  BY <1>1, <1>2, <1>3 DEF KeyInv, Accounted
<1>7. Replayed'
  BY <1>1 DEF KeyInv, Replayed
<1>8. PendingIsRunning'
  BY <1>1, <1>2, <1>3 DEF KeyInv, PendingIsRunning
<1> QED
  BY <1>4, <1>5, <1>6, <1>7, <1>8 DEF KeyInv

LEMMA TakeEffectStep == ASSUME KeyInv, NEW q \in Senders, TakeEffect(q) PROVE KeyInv'
<1>1. Inside(q) /\ ~sender[q].acted /\ sender[q] \in SenderState
  BY DEF TakeEffect, Inside, KeyInv, KeyTyped
<1>2. UNCHANGED <<key, unrecorded, abandoned>>
  BY DEF TakeEffect
<1>3. /\ sender' \in [Senders -> SenderState]
      /\ sender'[q].pc = sender[q].pc /\ sender'[q].body = sender[q].body
      /\ sender'[q].answer = sender[q].answer /\ sender'[q].acted
      /\ \A p \in Senders \ {q} : sender'[p] = sender[p]
  BY <1>1 DEF TakeEffect, KeyInv, KeyTyped, SenderState
<1>4. \A p \in Senders : Inside(p)' <=> Inside(p)
  BY <1>3 DEF Inside
<1>5. /\ effects' # 0 /\ effects' \in 0 .. 2 /\ first' # NoBody
      /\ effects = 0 => effects' = 1 /\ first' = sender[q].body
      /\ effects # 0 => unrecorded
  <2>1. sender[q].body \in Bodies /\ (effects # 0 => unrecorded)
    BY <1>1, OnlyInside
  <2>2. CASE effects = 0
    BY <2>1, <2>2, KeyAssumption DEF TakeEffect
  <2>3. CASE effects # 0
    BY <2>1, <2>3 DEF TakeEffect, KeyInv, KeyTyped
  <2> QED
    BY <2>2, <2>3
<1>6. KeyTyped'
  BY <1>2, <1>3, <1>5 DEF KeyInv, KeyTyped
<1>7. Owned'
  BY <1>2, <1>3, <1>4, <1>5 DEF KeyInv, Owned
<1>8. Accounted' /\ OncePerKey'
  <2>1. CASE effects = 0
    BY <1>1, <1>2, <1>3, <1>4, <1>5, <2>1 DEF Accounted, OncePerKey
  <2>2. CASE effects # 0
    BY <1>2, <1>5, <2>2 DEF Accounted, OncePerKey
  <2> QED
    BY <2>1, <2>2
<1>9. Replayed' /\ PendingIsRunning'
  BY <1>1, <1>2, <1>3, <1>4 DEF KeyInv, Replayed, PendingIsRunning, Inside
<1> QED
  BY <1>6, <1>7, <1>8, <1>9 DEF KeyInv

LEMMA HandlerAnswersStep == ASSUME KeyInv, NEW q \in Senders, HandlerAnswers(q) PROVE KeyInv'
<1>1. Inside(q) /\ sender[q] \in SenderState /\ sender[q].answer = "none"
  BY OnlyInside DEF HandlerAnswers, Inside, KeyInv, KeyTyped
<1>2. UNCHANGED <<key, effects, first, unrecorded, abandoned>>
  BY DEF HandlerAnswers
<1>3. /\ sender' \in [Senders -> SenderState]
      /\ sender'[q].pc = "answered" /\ sender'[q].body = sender[q].body
      /\ sender'[q].answer = sender[q].answer /\ sender'[q].acted = sender[q].acted
      /\ \A p \in Senders \ {q} : sender'[p] = sender[p]
  BY <1>1 DEF HandlerAnswers, KeyInv, KeyTyped, SenderState
<1>4. \A p \in Senders : Inside(p)' <=> Inside(p)
  BY <1>1, <1>3 DEF Inside
<1>5. \A p \in Senders : sender'[p].body = sender[p].body /\ sender'[p].acted = sender[p].acted
  BY <1>3
<1>6. KeyTyped' /\ OncePerKey'
  BY <1>2, <1>3 DEF KeyInv, KeyTyped, OncePerKey
<1>7. Owned'
  BY <1>2, <1>4, <1>5 DEF KeyInv, Owned
<1>8. Accounted' /\ PendingIsRunning'
  BY <1>2, <1>4, <1>5 DEF KeyInv, Accounted, PendingIsRunning
<1>9. Replayed'
  BY <1>1, <1>2, <1>3 DEF KeyInv, Replayed
<1> QED
  BY <1>6, <1>7, <1>8, <1>9 DEF KeyInv

\* The request that owns the record ends.
LEMMA EndStep ==
  ASSUME KeyInv, NEW q \in Senders, RecordAnswer(q) \/ ForgetKey(q) \/ AbandonKey(q)
  PROVE  KeyInv'
<1>1. Inside(q) /\ sender[q] \in SenderState
  BY DEF RecordAnswer, ForgetKey, AbandonKey, Inside, KeyInv, KeyTyped
<1>2. effects' = effects /\ first' = first
  BY DEF RecordAnswer, ForgetKey, AbandonKey
<1>3. PICK a \in {"fresh", "failed"} : Answer(q, a)
  BY DEF RecordAnswer, ForgetKey, AbandonKey
<1>4. /\ sender' \in [Senders -> SenderState]
      /\ sender'[q].pc = "idle" /\ sender'[q].answer = a
      /\ \A p \in Senders \ {q} : sender'[p] = sender[p]
  BY <1>1, <1>3 DEF Answer, KeyInv, KeyTyped, SenderState
<1>5. \A p \in Senders : ~Inside(p)'
  BY <1>1, <1>4, OnlyInside DEF Inside
<1>6. Replayed'
  BY <1>1, <1>4, OnlyInside DEF KeyInv, Replayed
<1>7. Owned'
  BY <1>5 DEF Owned
<1>8. CASE RecordAnswer(q)
  <2>1. /\ key'.state = "done" /\ key'.body = sender[q].body /\ sender[q].body \in Bodies
        /\ key' \in KeyRecord /\ UNCHANGED <<unrecorded, abandoned>>
    BY <1>1, <1>8, OnlyInside DEF RecordAnswer, KeyRecord
  <2>2. KeyTyped' /\ OncePerKey'
    BY <1>2, <1>4, <2>1, KeyAssumption DEF KeyInv, KeyTyped, OncePerKey
  <2>3. Accounted'
    BY <1>1, <1>2, <2>1, OnlyInside DEF Accounted
  <2> QED
    BY <1>6, <1>7, <2>1, <2>2, <2>3 DEF KeyInv, PendingIsRunning
<1>9. CASE ForgetKey(q) \/ AbandonKey(q)
  <2>1. unrecorded' = (unrecorded \/ sender[q].acted)
    BY <1>9 DEF ForgetKey, AbandonKey
  <2>2. /\ key' \in KeyRecord /\ (key'.state = "absent" <=> key'.body = NoBody)
        /\ key'.state = "pending" => abandoned'
        /\ abandoned' \in BOOLEAN
    <3>1. CASE ForgetKey(q)
      BY <3>1 DEF ForgetKey, NoKey, KeyRecord, KeyInv, KeyTyped
    <3>2. CASE AbandonKey(q)
      BY <3>2 DEF AbandonKey, KeyInv, KeyTyped
    <3> QED
      BY <1>9, <3>1, <3>2
  <2>3. sender[q].acted \in BOOLEAN /\ unrecorded \in BOOLEAN
    BY <1>1 DEF SenderState, KeyInv, KeyTyped
  <2>4. KeyTyped'
    BY <1>2, <1>4, <2>1, <2>2, <2>3 DEF KeyInv, KeyTyped
  <2>5. OncePerKey'
    BY <1>2, <2>1 DEF KeyInv, OncePerKey
  <2>6. Accounted'
    BY <1>1, <1>2, <2>1, OnlyInside DEF Accounted
  <2> QED
    BY <1>6, <1>7, <2>2, <2>4, <2>5, <2>6 DEF KeyInv, PendingIsRunning
<1> QED
  BY <1>8, <1>9

LEMMA ExpireStep == ASSUME KeyInv, KeyExpires PROVE KeyInv'
<1>1. /\ key' = NoKey /\ effects' = 0 /\ first' = NoBody
      /\ unrecorded' = FALSE /\ abandoned' = FALSE
      /\ \A q \in Senders : ~Inside(q)
      /\ sender' = [q \in Senders |-> IF sender[q].pc = "idle" THEN Ready ELSE sender[q]]
  BY DEF KeyExpires
<1>2. Ready \in SenderState /\ Ready.pc = "idle" /\ Ready.answer = "none"
  BY DEF Ready, SenderState
<1>3. \A q \in Senders : /\ sender'[q] \in {Ready, sender[q]}
                         /\ sender[q].pc = "idle" => sender'[q] = Ready
  BY <1>1
<1>4. \A q \in Senders : ~Inside(q)' /\ sender'[q].answer = "none"
  BY <1>1, <1>2, <1>3 DEF Inside, KeyInv, Replayed
<1>5. KeyTyped'
  <2>1. key' \in KeyRecord /\ key'.state = "absent" /\ key'.body = NoBody
    BY <1>1 DEF NoKey, KeyRecord
  <2>2. sender' \in [Senders -> SenderState]
    BY <1>1, <1>2 DEF KeyInv, KeyTyped
  <2>3. unrecorded' \in BOOLEAN /\ abandoned' \in BOOLEAN
    BY <1>1
  <2>4. effects' \in 0 .. 2 /\ (effects' = 0 <=> first' = NoBody)
    BY <1>1
  <2> QED
    BY <2>1, <2>2, <2>3, <2>4 DEF KeyTyped
<1>6. Owned' /\ Accounted' /\ Replayed' /\ OncePerKey'
  BY <1>1, <1>4 DEF Owned, Accounted, Replayed, OncePerKey
<1>7. PendingIsRunning'
  BY <1>1 DEF PendingIsRunning, NoKey
<1> QED
  BY <1>5, <1>6, <1>7 DEF KeyInv

LEMMA KeyStep == KeyInv /\ [KeyNext]_keyVars => KeyInv'
<1> SUFFICES ASSUME KeyInv, [KeyNext]_keyVars PROVE KeyInv'
  OBVIOUS
<1>1. ASSUME NEW q \in Senders, Claim(q) PROVE KeyInv'
  BY <1>1, ClaimStep
<1>2. ASSUME NEW q \in Senders, FindTaken(q) \/ Replay(q) PROVE KeyInv'
  BY <1>2, OutsideStep
<1>3. ASSUME NEW q \in Senders, TakeEffect(q) PROVE KeyInv'
  BY <1>3, TakeEffectStep
<1>4. ASSUME NEW q \in Senders, HandlerAnswers(q) PROVE KeyInv'
  BY <1>4, HandlerAnswersStep
<1>5. ASSUME NEW q \in Senders, RecordAnswer(q) \/ ForgetKey(q) \/ AbandonKey(q) PROVE KeyInv'
  BY <1>5, EndStep
<1>6. CASE KeyExpires
  BY <1>6, ExpireStep
<1>7. CASE UNCHANGED keyVars
  BY <1>7 DEF keyVars, KeyInv, KeyTyped, Owned, Accounted, Replayed, OncePerKey,
              PendingIsRunning, Inside
<1> QED
  BY <1>1, <1>2, <1>3, <1>4, <1>5, <1>6, <1>7 DEF KeyNext

(* The record and the requests keep their types (idempotency.go).            *)
THEOREM KeyTypeCorrect == KeySpec => []KeyTypeOK
BY KeyInitInv, KeyStep, KeyInvImplies, PTL DEF KeySpec

(* Within one life of the record, a mutation takes effect twice only if the  *)
(* first answer was never recorded, whatever the faults.                     *)
THEOREM OnceCorrect == KeySpec => []OncePerKey
BY KeyInitInv, KeyStep, KeyInvImplies, PTL DEF KeySpec

(* A replayed answer is that of the same body's effect.                      *)
THEOREM ReplayCorrect == KeySpec => []ReplayMatches
BY KeyInitInv, KeyStep, KeyInvImplies, PTL DEF KeySpec

(* A pending record belongs to a running request or was cut off.             *)
THEOREM PendingCorrect == KeySpec => []PendingIsRunning
BY KeyInitInv, KeyStep, KeyInvImplies, PTL DEF KeySpec

-----------------------------------------------------------------------------
(***************************************************************************)
(* Proofs about the iSolar token, for any number of callers.  The argument *)
(* follows the lease: whoever reads, refreshes or writes the blob holds it *)
(* alone, so that what it read is still what is stored when it writes, and *)
(* a pair it was issued is still the provider's.                           *)
(***************************************************************************)
Pair == [access : Nat, refresh : Nat]
Blob == [access : Nat, refresh : Nat, edit : Nat]
CallState ==
  [pc : Holding \cup {"idle", "open", "queue", "update", "done"},
   blob : Blob, issued : Pair, got : Nat, since : Nat]

TokenTyped ==
  /\ provider \in Pair /\ extra \in Blob /\ fresh \in BOOLEAN
  /\ tokenLease \in Callers \cup {NoCaller}
  /\ caller \in [Callers -> CallState]
  /\ expired \in Nat /\ edits \in Nat /\ stranded \in BOOLEAN /\ refused \in BOOLEAN

Issuing == {"merge", "write"}

\* The blob never runs ahead of the provider nor back, and keeps up with it
\* unless a pair was lost or is on its way.
BlobSound ==
  /\ 1 <= extra.access /\ extra.access <= provider.access
  /\ 1 <= extra.refresh /\ extra.refresh <= provider.refresh
  /\ expired <= extra.access /\ (fresh => expired < extra.access)
  /\ extra.edit = edits
  /\ refused => stranded
  /\ (\A c \in Callers : caller[c].pc \notin Issuing) =>
       stranded \/ extra.refresh = provider.refresh

\* What a caller has read, still true of the state it acts on.
CallSound(c) ==
  /\ caller[c].since <= expired
  /\ caller[c].pc \in Holding => tokenLease = c
  /\ caller[c].pc = "open" => caller[c].since < extra.access
  /\ caller[c].pc = "refresh" => ~fresh /\ caller[c].blob = extra
  /\ caller[c].pc \in {"merge", "write", "stamp"} =>
       /\ ~fresh /\ expired < caller[c].issued.access
       /\ caller[c].issued = provider
  /\ caller[c].pc = "write" =>
       /\ caller[c].blob.access = provider.access /\ caller[c].blob.refresh = provider.refresh
       /\ caller[c].blob.edit = extra.edit
  /\ caller[c].pc = "stamp" =>
       extra.access = provider.access /\ extra.refresh = provider.refresh
  /\ caller[c].pc = "save" =>
       caller[c].blob.access = extra.access /\ caller[c].blob.refresh = extra.refresh
  /\ caller[c].pc = "done" => caller[c].since < caller[c].got

TokenInv == TokenTyped /\ BlobSound /\ \A c \in Callers : CallSound(c)

LEMMA NoCallFields == NoCall \in CallState /\ NoCall.pc = "idle" /\ NoCall.since = 0
BY DEF NoCall, CallState, Holding, Blob, Pair

LEMMA TokenInitInv == TokenInit => TokenInv
<1> SUFFICES ASSUME TokenInit PROVE TokenInv
  OBVIOUS
<1>1. /\ provider \in Pair /\ provider.access = 1 /\ provider.refresh = 1
      /\ extra \in Blob /\ extra.access = 1 /\ extra.refresh = 1 /\ extra.edit = 0
  BY DEF TokenInit, Pair, Blob
<1>2. \A c \in Callers : caller[c] = NoCall
  BY DEF TokenInit
<1>3. TokenTyped
  <2>1. caller \in [Callers -> CallState] /\ tokenLease \in Callers \cup {NoCaller}
    BY NoCallFields DEF TokenInit
  <2>2. expired \in Nat /\ edits \in Nat
    BY DEF TokenInit
  <2>3. fresh \in BOOLEAN /\ stranded \in BOOLEAN /\ refused \in BOOLEAN
    BY DEF TokenInit
  <2> QED
    BY <1>1, <2>1, <2>2, <2>3 DEF TokenTyped
<1>4. BlobSound
  BY <1>1 DEF TokenInit, BlobSound
<1>5. ASSUME NEW c \in Callers PROVE CallSound(c)
  <2>1. expired = 0
    BY DEF TokenInit
  <2>2. caller[c].pc = "idle" /\ caller[c].since = 0
    BY <1>2, NoCallFields
  <2>3. caller[c].since <= expired
    BY <2>1, <2>2
  <2>4. caller[c].pc \notin Holding \cup {"open", "done"}
    BY <2>2 DEF Holding
  <2> QED
    BY <2>3, <2>4 DEF CallSound, Holding
<1> QED
  BY <1>3, <1>4, <1>5 DEF TokenInv

\* The invariant says what the properties say.
LEMMA TokenInvImplies ==
  TokenInv => TokenTypeOK /\ NotStranded /\ RefreshedOnce /\ HandedOutFresh
<1> SUFFICES ASSUME TokenInv PROVE TokenTypeOK /\ NotStranded /\ RefreshedOnce /\ HandedOutFresh
  OBVIOUS
<1>1. /\ provider.access \in Nat /\ provider.refresh \in Nat
      /\ extra.access \in Nat /\ extra.refresh \in Nat
  BY DEF TokenInv, TokenTyped, Pair, Blob
<1>2. \A c \in Callers : caller[c] \in CallState /\ CallSound(c)
  BY DEF TokenInv, TokenTyped
<1>3. \A c \in Callers : caller[c].got \in Nat /\ caller[c].since \in Nat
  BY <1>2 DEF CallState
<1>4. TokenTypeOK
  BY <1>1, <1>2 DEF TokenInv, BlobSound, TokenTypeOK, CallSound, CallState
<1>5. NotStranded /\ RefreshedOnce
  BY <1>2 DEF TokenInv, BlobSound, NotStranded, RefreshedOnce, CallSound, Issuing
<1>6. HandedOutFresh
  BY <1>2, <1>3 DEF HandedOutFresh, CallSound
<1> QED
  BY <1>4, <1>5, <1>6

\* Whoever holds the lease holds it alone, and nobody acts under it when it is free.
LEMMA LeaseAlone ==
  ASSUME TokenInv
  PROVE  /\ \A c, d \in Callers : caller[c].pc \in Holding /\ d # c => caller[d].pc \notin Holding
         /\ tokenLease = NoCaller => \A c \in Callers : caller[c].pc \notin Holding
BY TokenAssumption DEF TokenInv, CallSound

\* The state as numbers, for the arithmetic of the steps.
LEMMA TokenNumbers ==
  ASSUME TokenInv
  PROVE  /\ provider.access \in Nat /\ provider.refresh \in Nat
         /\ extra.access \in Nat /\ extra.refresh \in Nat /\ extra.edit \in Nat
         /\ expired \in Nat /\ edits \in Nat
         /\ \A c \in Callers :
              /\ caller[c] \in CallState
              /\ caller[c].since \in Nat /\ caller[c].got \in Nat
              /\ caller[c].blob \in Blob /\ caller[c].issued \in Pair
              /\ caller[c].issued.access \in Nat /\ caller[c].issued.refresh \in Nat
BY DEF TokenInv, TokenTyped, Pair, Blob, CallState

\* A caller without the lease does not notice what is done under it.
LEMMA Bystander ==
  ASSUME TokenInv, NEW c \in Callers, caller'[c] = caller[c],
         \/ UNCHANGED <<provider, extra, fresh, tokenLease, expired>>
         \/ caller[c].pc \notin Holding /\ extra'.access \in Nat
              /\ extra.access <= extra'.access /\ expired' = expired
  PROVE  CallSound(c)'
<1>1. CASE UNCHANGED <<provider, extra, fresh, tokenLease, expired>>
  BY <1>1 DEF TokenInv, CallSound
<1>2. CASE caller[c].pc \notin Holding /\ extra'.access \in Nat
             /\ extra.access <= extra'.access /\ expired' = expired
  BY <1>2, TokenNumbers DEF TokenInv, CallSound, Holding
<1> QED
  BY <1>1, <1>2

\* A step of one caller that leaves the blob, the provider and the lease alone
\* and whose caller is at no point of issuing a pair.
LEMMA LocalStep ==
  ASSUME TokenInv, NEW c \in Callers, NEW next \in CallState,
         caller' = [caller EXCEPT ![c] = next],
         UNCHANGED <<provider, extra, fresh, tokenLease, kept>>,
         caller[c].pc \notin Issuing, next.pc \notin Issuing, CallSound(c)'
  PROVE  TokenInv'
<1>1. UNCHANGED <<provider, extra, fresh, tokenLease, expired, edits, stranded, refused>>
  BY DEF kept
<1>2. TokenTyped'
  BY <1>1 DEF TokenInv, TokenTyped
<1>3. caller'[c] = next /\ \A d \in Callers \ {c} : caller'[d] = caller[d]
  BY DEF TokenInv, TokenTyped
<1>4. BlobSound'
  BY <1>1, <1>3 DEF TokenInv, BlobSound
<1>5. \A d \in Callers \ {c} : CallSound(d)'
  BY <1>1, <1>3, Bystander
<1> QED
  BY <1>2, <1>4, <1>5 DEF TokenInv

LEMMA AgesStep == ASSUME TokenInv, TokenAges PROVE TokenInv'
<1>1. /\ UNCHANGED <<provider, extra, tokenLease, caller, edits, stranded, refused>>
      /\ fresh /\ fresh' = FALSE /\ expired' = extra.access
  BY DEF TokenAges
<1>2. expired < extra.access
  BY <1>1 DEF TokenInv, BlobSound
<1>3. TokenTyped'
  BY <1>1, TokenNumbers DEF TokenInv, TokenTyped
<1>4. BlobSound'
  BY <1>1, TokenNumbers DEF TokenInv, BlobSound
<1>5. ASSUME NEW c \in Callers PROVE CallSound(c)'
  BY <1>1, <1>2, TokenNumbers DEF TokenInv, CallSound
<1> QED
  BY <1>3, <1>4, <1>5 DEF TokenInv

LEMMA AskStep == ASSUME TokenInv, NEW c \in Callers, Ask(c) PROVE TokenInv'
<1> DEFINE next == [NoCall EXCEPT !.since = expired, !.pc = IF fresh THEN "open" ELSE "queue"]
<1>1. /\ caller[c].pc = "idle" /\ caller' = [caller EXCEPT ![c] = next]
      /\ UNCHANGED <<provider, extra, fresh, tokenLease, kept>>
  BY DEF Ask
<1>2. /\ next \in CallState /\ next.since = expired
      /\ next.pc = IF fresh THEN "open" ELSE "queue"
  BY NoCallFields, TokenNumbers DEF CallState
<1> HIDE DEF next
<1>3. caller'[c] = next /\ extra' = extra /\ fresh' = fresh /\ expired' = expired
  BY <1>1 DEF TokenInv, TokenTyped, kept
<1>4. fresh => expired < extra.access
  BY DEF TokenInv, BlobSound
<1>5. CallSound(c)'
  BY <1>2, <1>3, <1>4, TokenNumbers DEF CallSound, Holding
<1> QED
  BY <1>1, <1>2, <1>5, LocalStep DEF Issuing

LEMMA OpenSecretStep == ASSUME TokenInv, NEW c \in Callers, OpenSecret(c) PROVE TokenInv'
<1> DEFINE next == [caller[c] EXCEPT !.pc = "done", !.got = extra.access]
<1>1. /\ caller[c].pc = "open" /\ caller' = [caller EXCEPT ![c] = next]
      /\ UNCHANGED <<provider, extra, fresh, tokenLease, kept>>
  BY DEF OpenSecret, TokenInv, TokenTyped
<1>2. /\ next \in CallState /\ next.since = caller[c].since
      /\ next.pc = "done" /\ next.got = extra.access
  BY TokenNumbers DEF CallState
<1> HIDE DEF next
<1>3. caller'[c] = next /\ expired' = expired
  BY <1>1 DEF TokenInv, TokenTyped, kept
<1>4. caller[c].since < extra.access /\ caller[c].since <= expired
  BY <1>1 DEF TokenInv, CallSound
<1>5. CallSound(c)'
  BY <1>2, <1>3, <1>4 DEF CallSound, Holding
<1> QED
  BY <1>1, <1>2, <1>5, LocalStep DEF Issuing

LEMMA RestStep ==
  ASSUME TokenInv, NEW c \in Callers, ForgetToken(c) \/ BeginUpdate(c) PROVE TokenInv'
<1>1. PICK next \in {NoCall, [NoCall EXCEPT !.pc = "update"]} :
        /\ caller[c].pc \in {"done", "idle"} /\ caller' = [caller EXCEPT ![c] = next]
        /\ UNCHANGED <<provider, extra, fresh, tokenLease, kept>>
  BY DEF ForgetToken, BeginUpdate
<1>2. next \in CallState /\ next.pc \in {"idle", "update"} /\ next.since = 0
  BY NoCallFields DEF CallState
<1>3. caller'[c] = next /\ expired' = expired
  BY <1>1 DEF TokenInv, TokenTyped, kept
<1>4. CallSound(c)'
  BY <1>2, <1>3, TokenNumbers DEF CallSound, Holding
<1> QED
  BY <1>1, <1>2, <1>4, LocalStep DEF Issuing

LEMMA MergeStep ==
  ASSUME TokenInv, NEW c \in Callers, MergeEdit(c) PROVE TokenInv'
<1> DEFINE merged == [extra EXCEPT !.edit = edits + 1]
           next == [caller[c] EXCEPT !.pc = "save", !.blob = merged]
<1>1. /\ caller[c].pc = "edit" /\ caller' = [caller EXCEPT ![c] = next]
      /\ UNCHANGED <<provider, extra, fresh, tokenLease, kept>>
  BY DEF MergeEdit, TokenInv, TokenTyped
<1>2. /\ merged \in Blob /\ merged.access = extra.access
      /\ merged.refresh = extra.refresh
  BY TokenNumbers DEF TokenInv, TokenTyped, Blob
<1> HIDE DEF merged
<1>3. /\ next \in CallState /\ next.since = caller[c].since
      /\ next.pc = "save" /\ next.blob = merged
  BY <1>2, TokenNumbers DEF CallState, Holding
<1> HIDE DEF next
<1>4. caller'[c] = next /\ expired' = expired /\ extra' = extra /\ tokenLease' = tokenLease
  BY <1>1 DEF TokenInv, TokenTyped, kept
<1>5. tokenLease = c /\ caller[c].since <= expired
  BY <1>1 DEF TokenInv, CallSound, Holding
<1>6. CallSound(c)'
  BY <1>2, <1>3, <1>4, <1>5 DEF CallSound
<1> QED
  BY <1>1, <1>3, <1>6, LocalStep DEF Issuing

LEMMA MergeTokenStep == ASSUME TokenInv, NEW c \in Callers, MergeToken(c) PROVE TokenInv'
<1> DEFINE issued == caller[c].issued
           merged == [extra EXCEPT !.access = issued.access, !.refresh = issued.refresh]
           next == [caller[c] EXCEPT !.pc = "write", !.blob = merged]
<1>1. /\ caller[c].pc = "merge" /\ caller' = [caller EXCEPT ![c] = next]
      /\ UNCHANGED <<provider, extra, fresh, tokenLease, expired, edits, stranded, refused>>
  BY DEF MergeToken, TokenInv, TokenTyped, kept
<1>2. /\ merged \in Blob /\ merged.access = issued.access
      /\ merged.refresh = issued.refresh /\ merged.edit = extra.edit
  BY TokenNumbers DEF TokenInv, TokenTyped, Blob
<1> HIDE DEF merged
<1>3. /\ next \in CallState /\ next.since = caller[c].since /\ next.issued = issued
      /\ next.pc = "write" /\ next.blob = merged
  BY <1>2, TokenNumbers DEF CallState, Holding
<1> HIDE DEF next
<1>4. caller'[c] = next /\ \A d \in Callers \ {c} : caller'[d] = caller[d]
  BY <1>1 DEF TokenInv, TokenTyped
<1>5. /\ tokenLease = c /\ caller[c].since <= expired
      /\ ~fresh /\ issued = provider /\ expired < issued.access
  BY <1>1 DEF TokenInv, CallSound, Holding
<1>6. CallSound(c)'
  BY <1>1, <1>2, <1>3, <1>4, <1>5 DEF CallSound
<1>7. \A d \in Callers \ {c} : CallSound(d)'
  BY <1>1, <1>4, Bystander
<1>8. TokenTyped'
  BY <1>1, <1>3 DEF TokenInv, TokenTyped
<1>9. BlobSound'
  <2>1. caller'[c].pc \in Issuing
    BY <1>3, <1>4 DEF Issuing
  <2> QED
    BY <1>1, <2>1 DEF TokenInv, BlobSound
<1> QED
  BY <1>6, <1>7, <1>8, <1>9 DEF TokenInv

LEMMA LeaseStep == ASSUME TokenInv, NEW c \in Callers, LeaseToken(c) PROVE TokenInv'
<1> DEFINE next == [caller[c] EXCEPT !.pc = IF @ = "queue" THEN "recheck" ELSE "edit"]
<1>1. /\ caller[c].pc \in {"queue", "update"} /\ tokenLease = NoCaller /\ tokenLease' = c
      /\ caller' = [caller EXCEPT ![c] = next]
      /\ UNCHANGED <<provider, extra, fresh, expired, edits, stranded, refused>>
  BY DEF LeaseToken, TokenInv, TokenTyped, kept
<1>2. /\ next \in CallState /\ next.since = caller[c].since
      /\ next.pc \in {"recheck", "edit"}
  BY TokenNumbers DEF CallState, Holding
<1> HIDE DEF next
<1>3. caller'[c] = next /\ \A d \in Callers \ {c} : caller'[d] = caller[d]
  BY <1>1 DEF TokenInv, TokenTyped
<1>4. caller[c].since <= expired
  BY DEF TokenInv, CallSound
<1>5. CallSound(c)'
  BY <1>1, <1>2, <1>3, <1>4 DEF CallSound
<1>6. ASSUME NEW d \in Callers \ {c} PROVE CallSound(d)'
  <2>1. caller[d].pc \notin Holding
    BY <1>1, LeaseAlone
  <2> QED
    BY <1>1, <1>3, <2>1, TokenNumbers, Bystander
<1>7. TokenTyped'
  BY <1>1, <1>2 DEF TokenInv, TokenTyped
<1>8. BlobSound'
  BY <1>1, <1>2, <1>3 DEF TokenInv, BlobSound, Issuing
<1> QED
  BY <1>5, <1>6, <1>7, <1>8 DEF TokenInv

LEMMA RecheckStep == ASSUME TokenInv, NEW c \in Callers, Recheck(c) PROVE TokenInv'
<1>1. /\ caller[c].pc = "recheck"
      /\ UNCHANGED <<provider, extra, fresh, expired, edits, stranded, refused>>
  BY DEF Recheck, kept
<1>2. tokenLease = c /\ caller[c].since <= expired
  BY <1>1 DEF TokenInv, CallSound, Holding
<1>3. CASE fresh
  <2> DEFINE next == [caller[c] EXCEPT !.pc = "done", !.got = extra.access]
  <2>1. caller' = [caller EXCEPT ![c] = next] /\ tokenLease' = NoCaller
    BY <1>3 DEF Recheck, TokenInv, TokenTyped
  <2>2. /\ next \in CallState /\ next.since = caller[c].since
        /\ next.pc = "done" /\ next.got = extra.access
    BY TokenNumbers DEF CallState
  <2> HIDE DEF next
  <2>3. caller'[c] = next /\ \A d \in Callers \ {c} : caller'[d] = caller[d]
    BY <2>1 DEF TokenInv, TokenTyped
  <2>4. expired < extra.access
    BY <1>3 DEF TokenInv, BlobSound
  <2>5. caller[c].since < extra.access
    BY <1>2, <2>4, TokenNumbers
  <2>6. CallSound(c)'
    BY <1>1, <1>2, <2>2, <2>3, <2>5 DEF CallSound, Holding
  <2>7. ASSUME NEW d \in Callers \ {c} PROVE CallSound(d)'
    <3>1. caller[d].pc \notin Holding
      BY <1>1, LeaseAlone DEF Holding
    <3> QED
      BY <1>1, <2>3, <3>1, TokenNumbers, Bystander
  <2>8. TokenTyped'
    BY <1>1, <2>1, <2>2 DEF TokenInv, TokenTyped
  <2>9. BlobSound'
    BY <1>1, <2>2, <2>3 DEF TokenInv, BlobSound, Issuing
  <2> QED
    BY <2>6, <2>7, <2>8, <2>9 DEF TokenInv
<1>4. CASE ~fresh
  <2> DEFINE next == [caller[c] EXCEPT !.pc = "refresh", !.blob = extra]
  <2>1. caller' = [caller EXCEPT ![c] = next] /\ tokenLease' = tokenLease
    BY <1>4 DEF Recheck, TokenInv, TokenTyped
  <2>2. /\ next \in CallState /\ next.since = caller[c].since
        /\ next.pc = "refresh" /\ next.blob = extra
    BY TokenNumbers DEF CallState, Holding, TokenInv, TokenTyped
  <2> HIDE DEF next
  <2>3. caller'[c] = next
    BY <2>1 DEF TokenInv, TokenTyped
  <2>4. CallSound(c)'
    BY <1>1, <1>2, <1>4, <2>1, <2>2, <2>3 DEF CallSound
  <2>5. UNCHANGED <<provider, extra, fresh, tokenLease, kept>>
    BY <1>1, <2>1 DEF kept
  <2> QED
    BY <1>1, <2>1, <2>2, <2>4, <2>5, LocalStep DEF Issuing
<1> QED
  BY <1>3, <1>4

LEMMA RefreshStep == ASSUME TokenInv, NEW c \in Callers, Refresh(c) PROVE TokenInv'
<1> DEFINE next == [caller[c] EXCEPT !.pc = "merge", !.issued = provider']
<1>1. /\ caller[c].pc = "refresh" /\ caller' = [caller EXCEPT ![c] = next]
      /\ UNCHANGED <<extra, fresh, tokenLease, expired, edits, stranded, refused>>
  BY DEF Refresh, TokenInv, TokenTyped, kept
<1>2. /\ provider' \in Pair /\ provider'.access = provider.access + 1
      /\ provider'.refresh \in {provider.refresh, provider.refresh + 1}
  BY TokenNumbers DEF Refresh, Pair
<1>3. /\ next \in CallState /\ next.since = caller[c].since
      /\ next.pc = "merge" /\ next.issued = provider'
  BY <1>2, TokenNumbers DEF CallState, Holding
<1> HIDE DEF next
<1>4. caller'[c] = next /\ \A d \in Callers \ {c} : caller'[d] = caller[d]
  BY <1>1 DEF TokenInv, TokenTyped
<1>5. /\ tokenLease = c /\ caller[c].since <= expired /\ ~fresh
  BY <1>1 DEF TokenInv, CallSound, Holding
<1>6. expired <= extra.access /\ extra.access <= provider.access
  BY DEF TokenInv, BlobSound
<1>7. CallSound(c)'
  BY <1>1, <1>2, <1>3, <1>4, <1>5, <1>6, TokenNumbers DEF CallSound
<1>8. ASSUME NEW d \in Callers \ {c} PROVE CallSound(d)'
  <2>1. caller[d].pc \notin Holding
    BY <1>1, LeaseAlone DEF Holding
  <2> QED
    BY <1>1, <1>4, <2>1, TokenNumbers, Bystander
<1>9. TokenTyped'
  BY <1>1, <1>2, <1>3 DEF TokenInv, TokenTyped
<1>10. BlobSound'
  <2>1. caller'[c].pc \in Issuing
    BY <1>3, <1>4 DEF Issuing
  <2> QED
    BY <1>1, <1>2, <2>1, TokenNumbers DEF TokenInv, BlobSound
<1> QED
  BY <1>7, <1>8, <1>9, <1>10 DEF TokenInv

LEMMA WriteStep == ASSUME TokenInv, NEW c \in Callers, WriteToken(c) PROVE TokenInv'
<1> DEFINE next == [caller[c] EXCEPT !.pc = "stamp"]
<1>1. /\ caller[c].pc = "write" /\ caller' = [caller EXCEPT ![c] = next]
      /\ extra' = caller[c].blob
      /\ UNCHANGED <<provider, fresh, tokenLease, expired, edits, stranded, refused>>
  BY DEF WriteToken, TokenInv, TokenTyped, kept
<1>2. /\ next \in CallState /\ next.since = caller[c].since
      /\ next.pc = "stamp" /\ next.issued = caller[c].issued
  BY TokenNumbers DEF CallState, Holding
<1> HIDE DEF next
<1>3. caller'[c] = next /\ \A d \in Callers \ {c} : caller'[d] = caller[d]
  BY <1>1 DEF TokenInv, TokenTyped
<1>4. /\ tokenLease = c /\ caller[c].since <= expired
      /\ ~fresh /\ caller[c].issued = provider /\ expired < caller[c].issued.access
      /\ extra'.access = provider.access /\ extra'.refresh = provider.refresh
      /\ extra'.edit = extra.edit /\ extra' \in Blob
  BY <1>1, TokenNumbers DEF TokenInv, CallSound, Holding
<1>5. /\ 1 <= extra.access /\ extra.access <= provider.access
      /\ 1 <= extra.refresh /\ extra.refresh <= provider.refresh
      /\ extra.edit = edits /\ (refused => stranded)
  BY DEF TokenInv, BlobSound
<1>6. CallSound(c)'
  BY <1>1, <1>2, <1>3, <1>4 DEF CallSound
<1>7. ASSUME NEW d \in Callers \ {c} PROVE CallSound(d)'
  <2>1. caller[d].pc \notin Holding
    BY <1>1, LeaseAlone DEF Holding
  <2> QED
    BY <1>1, <1>3, <1>4, <1>5, <2>1, TokenNumbers, Bystander
<1>8. TokenTyped'
  BY <1>1, <1>2, <1>4 DEF TokenInv, TokenTyped
<1>9. BlobSound'
  BY <1>1, <1>4, <1>5, TokenNumbers DEF BlobSound
<1> QED
  BY <1>6, <1>7, <1>8, <1>9 DEF TokenInv

LEMMA StampStep == ASSUME TokenInv, NEW c \in Callers, StampExpiry(c) PROVE TokenInv'
<1> DEFINE next == [caller[c] EXCEPT !.pc = "done", !.got = caller[c].issued.access]
<1>1. /\ caller[c].pc = "stamp" /\ caller' = [caller EXCEPT ![c] = next]
      /\ fresh' = TRUE /\ tokenLease' = NoCaller
      /\ UNCHANGED <<provider, extra, expired, edits, stranded, refused>>
  BY DEF StampExpiry, TokenInv, TokenTyped, kept
<1>2. /\ next \in CallState /\ next.since = caller[c].since
      /\ next.pc = "done" /\ next.got = caller[c].issued.access
  BY TokenNumbers DEF CallState
<1> HIDE DEF next
<1>3. caller'[c] = next /\ \A d \in Callers \ {c} : caller'[d] = caller[d]
  BY <1>1 DEF TokenInv, TokenTyped
<1>4. /\ caller[c].since <= expired /\ expired < caller[c].issued.access
      /\ caller[c].issued.access = extra.access /\ extra.refresh = provider.refresh
  BY <1>1 DEF TokenInv, CallSound
<1>5. CallSound(c)'
  BY <1>1, <1>2, <1>3, <1>4, TokenNumbers DEF CallSound, Holding
<1>6. ASSUME NEW d \in Callers \ {c} PROVE CallSound(d)'
  <2>1. caller[d].pc \notin Holding
    BY <1>1, LeaseAlone DEF Holding
  <2>2. extra'.access \in Nat /\ extra.access <= extra'.access /\ expired' = expired
    BY <1>1, TokenNumbers
  <2> QED
    BY <1>3, <2>1, <2>2, Bystander
<1>7. TokenTyped'
  <2>1. fresh' \in BOOLEAN /\ tokenLease' \in Callers \cup {NoCaller}
    BY <1>1
  <2>2. caller' \in [Callers -> CallState]
    BY <1>1, <1>2 DEF TokenInv, TokenTyped
  <2> QED
    BY <1>1, <2>1, <2>2 DEF TokenInv, TokenTyped
<1>8. BlobSound'
  BY <1>1, <1>4 DEF TokenInv, BlobSound
<1> QED
  BY <1>5, <1>6, <1>7, <1>8 DEF TokenInv

LEMMA SaveStep == ASSUME TokenInv, NEW c \in Callers, SaveEdit(c) PROVE TokenInv'
<1>1. /\ caller[c].pc = "save" /\ caller' = [caller EXCEPT ![c] = NoCall]
      /\ extra' = caller[c].blob /\ edits' = caller[c].blob.edit /\ tokenLease' = NoCaller
      /\ UNCHANGED <<provider, fresh, expired, stranded, refused>>
  BY DEF SaveEdit
<1>2. caller'[c] = NoCall /\ \A d \in Callers \ {c} : caller'[d] = caller[d]
  BY <1>1 DEF TokenInv, TokenTyped
<1>3. extra'.access = extra.access /\ extra'.refresh = extra.refresh /\ extra' \in Blob
  BY <1>1, TokenNumbers DEF TokenInv, CallSound
<1>4. edits' \in Nat
  BY <1>1, <1>3 DEF Blob
<1>5. CallSound(c)'
  BY <1>1, <1>2, NoCallFields, TokenNumbers DEF CallSound, Holding
<1>6. ASSUME NEW d \in Callers \ {c} PROVE CallSound(d)'
  <2>1. caller[d].pc \notin Holding
    BY <1>1, LeaseAlone DEF Holding
  <2> QED
    BY <1>1, <1>2, <1>3, <2>1, TokenNumbers, Bystander
<1>7. TokenTyped'
  BY <1>1, <1>3, <1>4, NoCallFields DEF TokenInv, TokenTyped
<1>8. BlobSound'
  BY <1>1, <1>2, <1>3, NoCallFields DEF TokenInv, BlobSound, Issuing
<1> QED
  BY <1>5, <1>6, <1>7, <1>8 DEF TokenInv

\* A call that ends without the token: refused, lost or dead.
LEMMA LoseStep ==
  ASSUME TokenInv, NEW c \in Callers, RefreshRefused(c) \/ RefreshLost(c) \/ CallDies(c)
  PROVE  TokenInv'
<1>1. /\ caller' = [caller EXCEPT ![c] = NoCall]
      /\ tokenLease' \in {NoCaller, tokenLease}
      /\ tokenLease' = IF tokenLease = c THEN NoCaller ELSE tokenLease
      /\ UNCHANGED <<provider, extra, fresh, expired, edits>>
  BY DEF RefreshRefused, RefreshLost, CallDies, TokenInv, CallSound, Holding
<1>2. caller'[c] = NoCall /\ \A d \in Callers \ {c} : caller'[d] = caller[d]
  BY <1>1 DEF TokenInv, TokenTyped
<1>3. /\ stranded' \in BOOLEAN /\ refused' \in BOOLEAN
      /\ (stranded => stranded') /\ (refused' => stranded')
      /\ caller[c].pc \in Issuing => stranded'
  <2>1. CASE RefreshRefused(c)
    <3>1. /\ caller[c].pc = "refresh" /\ stranded' = stranded
          /\ refused' = (refused \/ caller[c].blob.refresh # provider.refresh)
      BY <2>1 DEF RefreshRefused
    <3>2. caller[c].blob = extra
      BY <3>1 DEF TokenInv, CallSound
    <3>3. \A d \in Callers : caller[d].pc \notin Issuing
      BY <3>1, LeaseAlone DEF Issuing, Holding
    <3>4. refused' => stranded
      BY <3>1, <3>2, <3>3 DEF TokenInv, BlobSound
    <3> QED
      BY <3>1, <3>4 DEF Issuing, TokenInv, TokenTyped
  <2>2. CASE RefreshLost(c)
    BY <2>2 DEF RefreshLost, TokenInv, TokenTyped
  <2>3. CASE CallDies(c)
    <3>1. stranded' = (stranded \/ caller[c].pc \in Issuing) /\ refused' = refused
      BY <2>3 DEF CallDies, Issuing
    <3> QED
      BY <3>1 DEF TokenInv, TokenTyped, BlobSound
  <2> QED
    BY <2>1, <2>2, <2>3
<1>4. CallSound(c)'
  BY <1>1, <1>2, NoCallFields, TokenNumbers DEF CallSound, Holding
<1>5. ASSUME NEW d \in Callers \ {c} PROVE CallSound(d)'
  <2>1. CASE tokenLease = c
    <3>1. caller[d].pc \notin Holding
      BY <2>1 DEF TokenInv, CallSound
    <3> QED
      BY <1>1, <1>2, <3>1, TokenNumbers, Bystander
  <2>2. CASE tokenLease # c
    BY <1>1, <1>2, <2>2, Bystander
  <2> QED
    BY <2>1, <2>2
<1>6. TokenTyped'
  BY <1>1, <1>3, NoCallFields DEF TokenInv, TokenTyped
<1>7. BlobSound'
  <2>1. (\A d \in Callers : caller'[d].pc \notin Issuing) =>
          stranded' \/ extra.refresh = provider.refresh
    BY <1>2, <1>3 DEF TokenInv, BlobSound
  <2>2. /\ 1 <= extra.access /\ extra.access <= provider.access
        /\ 1 <= extra.refresh /\ extra.refresh <= provider.refresh
        /\ expired <= extra.access /\ (fresh => expired < extra.access)
        /\ extra.edit = edits
    BY DEF TokenInv, BlobSound
  <2>3. refused' => stranded'
    BY <1>3
  <2>4. /\ 1 <= extra'.access /\ extra'.access <= provider'.access
        /\ 1 <= extra'.refresh /\ extra'.refresh <= provider'.refresh
        /\ expired' <= extra'.access /\ (fresh' => expired' < extra'.access)
        /\ extra'.edit = edits'
    BY <1>1, <2>2
  <2>5. (\A d \in Callers : caller'[d].pc \notin Issuing) =>
          stranded' \/ extra'.refresh = provider'.refresh
    BY <1>1, <2>1
  <2> QED
    BY <2>3, <2>4, <2>5 DEF BlobSound
<1> QED
  BY <1>4, <1>5, <1>6, <1>7 DEF TokenInv

LEMMA TokenStep == TokenInv /\ [TokenNext]_tokenVars => TokenInv'
<1> SUFFICES ASSUME TokenInv, [TokenNext]_tokenVars PROVE TokenInv'
  OBVIOUS
<1>1. CASE TokenAges
  BY <1>1, AgesStep
<1>2. ASSUME NEW c \in Callers, Ask(c) \/ OpenSecret(c) \/ LeaseToken(c) \/ Recheck(c)
      PROVE  TokenInv'
  BY <1>2, AskStep, OpenSecretStep, LeaseStep, RecheckStep
<1>3. ASSUME NEW c \in Callers, Refresh(c) \/ MergeToken(c) \/ WriteToken(c) \/ StampExpiry(c)
      PROVE  TokenInv'
  BY <1>3, RefreshStep, MergeTokenStep, WriteStep, StampStep
<1>4. ASSUME NEW c \in Callers, RefreshRefused(c) \/ RefreshLost(c) \/ CallDies(c)
      PROVE  TokenInv'
  BY <1>4, LoseStep
<1>5. ASSUME NEW c \in Callers, ForgetToken(c) \/ BeginUpdate(c) PROVE TokenInv'
  BY <1>5, RestStep
<1>6. ASSUME NEW c \in Callers, MergeEdit(c) \/ SaveEdit(c) PROVE TokenInv'
  BY <1>6, MergeStep, SaveStep
<1>7. CASE UNCHANGED tokenVars
  <2>1. UNCHANGED <<provider, extra, fresh, tokenLease, caller, expired, edits, stranded, refused>>
    BY <1>7 DEF tokenVars
  <2>2. \A c \in Callers : CallSound(c)'
    BY <2>1, Bystander
  <2> QED
    BY <2>1, <2>2 DEF TokenInv, TokenTyped, BlobSound
<1> QED
  BY <1>1, <1>2, <1>3, <1>4, <1>5, <1>6, <1>7 DEF TokenNext

(* The stored pair never runs ahead of the provider's, and whoever reads,    *)
(* merges or writes the blob holds the lease (isolar_oauth.go, service.go).  *)
THEOREM TokenTypeCorrect == TokenSpec => []TokenTypeOK
BY TokenInitInv, TokenStep, TokenInvImplies, PTL DEF TokenSpec

(* Unless a pair was lost on its way, the stored refresh token is the one    *)
(* the provider honours, and no operator's edit is overwritten.              *)
THEOREM NotStrandedCorrect == TokenSpec => []NotStranded
BY TokenInitInv, TokenStep, TokenInvImplies, PTL DEF TokenSpec

(* One caller refreshes an expiring token, however many saw it expire.       *)
THEOREM RefreshedOnceCorrect == TokenSpec => []RefreshedOnce
BY TokenInitInv, TokenStep, TokenInvImplies, PTL DEF TokenSpec

(* A token handed out was not yet expiring when it was asked for.            *)
THEOREM HandedOutCorrect == TokenSpec => []HandedOutFresh
BY TokenInitInv, TokenStep, TokenInvImplies, PTL DEF TokenSpec
=============================================================================
