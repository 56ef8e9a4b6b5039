---------------------------- MODULE MCAlarmPipeline ----------------------------
(* Finite instances of AlarmPipeline for TLC.                              *)
EXTENDS AlarmPipeline, TLC

AllRules == {[invoice |-> TRUE, freq |-> 0], [invoice |-> FALSE, freq |-> Frequency]}

================================================================================
