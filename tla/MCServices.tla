----------------------------- MODULE MCServices -----------------------------
(***************************************************************************)
(* Five services that share no state: session rotation, the idempotency    *)
(* key, the iSolar token, the derivation of a meter's consumption and the  *)
(* anomalies of a suspect period.  A behaviour runs one of them, chosen at *)
(* the start, while the others rest in their initial state.                *)
(***************************************************************************)
EXTENDS SessionRotation, IdempotencyKey, CredentialToken, MeterDerivation,
        SuspectPeriod, TLC

CONSTANT ra   \* one of the registers

VARIABLE service   \* "sessions", "idempotency", "token", "meter" or "suspect"

allVars == <<service, sessionVars, keyVars, tokenVars, meterVars, suspectVars>>

ServicesInit ==
  /\ service \in {"sessions", "idempotency", "token", "meter", "suspect"}
  /\ SessionInit /\ KeyInit /\ TokenInit /\ MeterInit /\ SuspectInit
  /\ service # "suspect" => ingestion = "none"

ServicesNext ==
  /\ UNCHANGED service
  /\ \/ service = "sessions" /\ SessionNext /\ UNCHANGED <<keyVars, tokenVars, meterVars, suspectVars>>
     \/ service = "idempotency" /\ KeyNext /\ UNCHANGED <<sessionVars, tokenVars, meterVars, suspectVars>>
     \/ service = "token" /\ TokenNext /\ UNCHANGED <<sessionVars, keyVars, meterVars, suspectVars>>
     \/ service = "meter" /\ MeterNext /\ UNCHANGED <<sessionVars, keyVars, tokenVars, suspectVars>>
     \/ service = "suspect" /\ SuspectNext /\ UNCHANGED <<sessionVars, keyVars, tokenVars, meterVars>>

ServicesSpec == ServicesInit /\ [][ServicesNext]_allVars

(* The state of every service is of its type. *)
ServicesTypeOK == SessionTypeOK /\ KeyTypeOK /\ TokenTypeOK /\ MeterTypeOK /\ SuspectTypeOK

(* Two days lie between two instants: a billing snapshot (72 hours) reaches *)
(* the next bound, a load profile or a daily snapshot (36 hours) does not.  *)
MCDue == [billing |-> {0, 1, 4}, load_profile |-> 0..4, daily |-> {2, 3}]
MCTolerance == [billing |-> 1, load_profile |-> 0, daily |-> 0]
MCSeries == {
  [level |-> "hourly", bounds |-> <<0, 1, 2, 3, 4>>],
  [level |-> "daily", bounds |-> <<0, 2, 4>>],
  [level |-> "monthly", bounds |-> <<0, 2, 4>>],
  [level |-> "monthly", bounds |-> <<2, 4>>],
  [level |-> "explicit", bounds |-> <<0, 1, 2, 4>>],
  [level |-> "explicit", bounds |-> <<1, 3>>]}

(* A sound period, or one with two suspect registers, for different reasons. *)
MCVerdicts == {
  [r \in Registers |-> "sound"],
  [r \in Registers |-> IF r = ra THEN "negative_delta" ELSE "meter_reset"]}

(* Bill generations are alike, and so are operators. *)
MCSymmetry == Permutations(Recorders) \cup Permutations(Resolvers)
=============================================================================
