---------------------------- MODULE SessionRotation ----------------------------
(***************************************************************************)
(* Refresh-token rotation for the sessions of ONE user.  Each session row  *)
(* is one refresh token; a refresh replaces it by a new row of the same    *)
(* login.  A request reads the row first and acts on what it read: the     *)
(* rotation locks the row and looks again, the revocations are single      *)
(* UPDATE statements.  A bulk UPDATE sees the rows its snapshot saw.       *)
(***************************************************************************)
EXTENDS Integers, FiniteSets

CONSTANTS
  Requests,      \* requests in flight
  MaxSessions,   \* bound of the session rows
  MaxClock,      \* bound of the clock
  RotationGrace, \* rotationGrace
  SessionTTL     \* RefreshTTL: the lifetime of a login

ASSUME SessionAssumption ==
  /\ MaxSessions \in Nat /\ MaxClock \in Nat
  /\ RotationGrace \in Nat /\ SessionTTL \in Nat

Sessions == 1 .. MaxSessions
NoSession == 0

\* "ended" stands for device_mismatch, logout, logout_all and password_change,
\* which the code tells apart nowhere.
Reasons == {"rotated", "reuse_detected", "ended"}

VARIABLES
  clock,    \* Clock.Now()
  session,  \* the rows of table sessions
  request   \* the requests, with what each has read

sessionVars == <<clock, session, request>>

\* "none": not inserted.  `login` names the row the chain started with.
NoRow == [state |-> "none", login |-> NoSession, expires |-> 0, at |-> 0, reason |-> "none"]
LiveRow(login, expires) ==
  [state |-> "live", login |-> login, expires |-> expires, at |-> 0, reason |-> "none"]

NoRequest == [pc |-> "none", id |-> NoSession, keep |-> NoSession, at |-> 0,
              reason |-> "none", seen |-> {}]

Rows == {i \in Sessions : session[i].state # "none"}
LiveRows == {i \in Sessions : session[i].state = "live"}
\* Rows are inserted in the order of their numbers.
NextRow(i) == i \notin Rows /\ \A j \in Sessions : j < i => j \in Rows

SessionInit ==
  /\ clock = 0
  /\ session = [i \in Sessions |-> NoRow]
  /\ request = [r \in Requests |-> NoRequest]

ClockTick ==
  /\ clock < MaxClock
  /\ clock' = clock + 1
  /\ UNCHANGED <<session, request>>

Login ==
  \E i \in Sessions :
    /\ NextRow(i)
    /\ session' = [session EXCEPT ![i] = LiveRow(i, clock + SessionTTL)]
    /\ UNCHANGED <<clock, request>>

(* The row a request reads admits it when it is live and unexpired. *)
Admits(i) == session[i].state = "live" /\ clock < session[i].expires

Becomes(r, step) ==
  /\ request[r].pc = "none"
  /\ request' = [request EXCEPT ![r] = step]

(* Refresh reads a revoked row: within the grace a rotated token is only      *)
(* answered token_rotated, later it revokes every session of the user.        *)
DetectReuse(r) ==
  \E i \in Rows :
    /\ session[i].state = "revoked" /\ session[i].reason = "rotated"
    /\ clock - session[i].at > RotationGrace
    /\ Becomes(r, [NoRequest EXCEPT !.pc = "sweep", !.at = clock,
                                    !.reason = "reuse_detected"])
    /\ UNCHANGED <<clock, session>>

(* Refresh reads a row that admits it, on the device it is bound to. *)
BeginRefresh(r) ==
  \E i \in Rows :
    /\ Admits(i)
    /\ Becomes(r, [NoRequest EXCEPT !.pc = "rotate", !.id = i, !.at = clock])
    /\ UNCHANGED <<clock, session>>

(* A request of an authenticated caller decides to revoke one session, live   *)
(* or not: a logout, another device, or one of the caller's own list.         *)
BeginRevoke(r) ==
  \E i \in Rows :
    /\ \E own \in Rows : Admits(own)
    /\ Becomes(r, [NoRequest EXCEPT !.pc = "revoke", !.id = i, !.at = clock,
                                    !.reason = "ended"])
    /\ UNCHANGED <<clock, session>>

(* Logout everywhere, a password change that keeps the caller's session, or   *)
(* a password reset that keeps none.                                          *)
BeginSweep(r) ==
  \E keep \in Rows \cup {NoSession} :
    /\ keep # NoSession => Admits(keep)
    /\ Becomes(r, [NoRequest EXCEPT !.pc = "sweep", !.keep = keep, !.at = clock,
                                    !.reason = "ended"])
    /\ UNCHANGED <<clock, session>>

Revoked(row, at, reason) == [row EXCEPT !.state = "revoked", !.at = at, !.reason = reason]

\* Mutant: the rotation trusts the row the request read before it.
RotateUnlocked(r) ==
  /\ request[r].pc = "rotate"
  /\ \E i \in Sessions :
       LET old == request[r].id
       IN  /\ NextRow(i)
           /\ session' = [session EXCEPT
                 ![old] = Revoked(@, request[r].at, "rotated"),
                 ![i] = LiveRow(session[old].login, session[old].expires)]
  /\ request' = [request EXCEPT ![r] = NoRequest]
  /\ UNCHANGED clock

(* Rotate: under the row lock a still live row is revoked as rotated and its  *)
(* successor inserted, in one transaction.                                    *)
Rotate(r) ==
  /\ request[r].pc = "rotate"
  /\ session[request[r].id].state = "live"
  /\ \E i \in Sessions :
       LET old == request[r].id
       IN  /\ NextRow(i)
           /\ session' = [session EXCEPT
                 ![old] = Revoked(@, request[r].at, "rotated"),
                 ![i] = LiveRow(session[old].login, session[old].expires)]
  /\ request' = [request EXCEPT ![r] = NoRequest]
  /\ UNCHANGED clock

(* ... a row revoked meanwhile answers ErrConflict and inserts nothing, and   *)
(* a request that fails or is cancelled leaves no trace.                      *)
GivesUp(r) ==
  /\ request[r].pc # "none"
  /\ request' = [request EXCEPT ![r] = NoRequest]
  /\ UNCHANGED <<clock, session>>

\* Mutant: the reason of a revocation is recorded again.
RevokeOver(r) ==
  /\ request[r].pc = "revoke"
  /\ session' = [session EXCEPT ![request[r].id] = Revoked(@, request[r].at, request[r].reason)]
  /\ request' = [request EXCEPT ![r] = NoRequest]
  /\ UNCHANGED clock

\* Mutant: the revocation records no reason.
RevokeBare(r) ==
  /\ request[r].pc = "revoke"
  /\ session' = [session EXCEPT ![request[r].id] =
       IF @.state = "live" THEN Revoked(@, request[r].at, "none") ELSE @]
  /\ request' = [request EXCEPT ![r] = NoRequest]
  /\ UNCHANGED clock

(* RevokeWithReason: only a live session is revoked, the first reason stays. *)
RevokeWithReason(r) ==
  /\ request[r].pc = "revoke"
  /\ session' = [session EXCEPT ![request[r].id] =
       IF @.state = "live" THEN Revoked(@, request[r].at, request[r].reason) ELSE @]
  /\ request' = [request EXCEPT ![r] = NoRequest]
  /\ UNCHANGED clock

(* RevokeAllForUserWithReason: the statement's snapshot ... *)
SweepSnapshot(r) ==
  /\ request[r].pc = "sweep"
  /\ request' = [request EXCEPT ![r].pc = "update",
                                ![r].seen = LiveRows \ {request[r].keep}]
  /\ UNCHANGED <<clock, session>>

(* ... and its update of the rows the snapshot saw that are still live. *)
SweepUpdate(r) ==
  /\ request[r].pc = "update"
  /\ session' = [i \in Sessions |->
       IF i \in request[r].seen \cap LiveRows
         THEN Revoked(session[i], request[r].at, request[r].reason)
         ELSE session[i]]
  /\ request' = [request EXCEPT ![r] = NoRequest]
  /\ UNCHANGED clock

SessionNext ==
  \/ ClockTick \/ Login
  \/ \E r \in Requests :
       \/ DetectReuse(r) \/ BeginRefresh(r) \/ BeginRevoke(r) \/ BeginSweep(r)
       \/ Rotate(r) \/ GivesUp(r) \/ RevokeWithReason(r)
       \/ SweepSnapshot(r) \/ SweepUpdate(r)

SessionSpec == SessionInit /\ [][SessionNext]_sessionVars

-----------------------------------------------------------------------------
SessionRow ==
  [state : {"none", "live", "revoked"}, login : Sessions \cup {NoSession},
   expires : 0 .. MaxClock + SessionTTL, at : 0 .. MaxClock, reason : Reasons \cup {"none"}]

RequestState ==
  [pc : {"none", "rotate", "revoke", "sweep", "update"},
   id : Sessions \cup {NoSession}, keep : Sessions \cup {NoSession},
   at : 0 .. MaxClock, reason : Reasons \cup {"none"}, seen : SUBSET Sessions]

(* Types of the rows and of the requests' locals; a revoked row, and no      *)
(* other, has a reason, and its instant is not in the future.                *)
SessionTypeOK ==
  /\ clock \in 0 .. MaxClock
  /\ session \in [Sessions -> SessionRow]
  /\ request \in [Requests -> RequestState]
  /\ \A i \in Sessions :
       /\ session[i].state = "revoked" <=> session[i].reason \in Reasons
       /\ session[i].at <= clock

LiveOf(login) == {i \in LiveRows : session[i].login = login}

(* Two refreshes of one token never both succeed: a login has at most one    *)
(* live session however its requests interleave.                             *)
OneLivePerLogin == \A i \in Sessions : Cardinality(LiveOf(i)) <= 1

(* A login whose session was revoked for any reason but rotation is over: no *)
(* refresh that had read the row before gives it a live session again.       *)
EndsForGood ==
  [][\A i \in Rows : LiveOf(session[i].login) = {} => LiveOf(session[i].login)' = {}]_sessionVars

(* A revocation is recorded once: the instant and the reason reuse detection *)
(* reads later are those of the first.                                       *)
FirstReasonStands ==
  [][\A i \in Sessions : session[i].state = "revoked" => session'[i] = session[i]]_sessionVars
=============================================================================
