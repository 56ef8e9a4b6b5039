------------------------- MODULE MCConsumptionRefresh -------------------------
(* Finite instances of ConsumptionRefresh for TLC.                         *)
EXTENDS ConsumptionRefresh, TLC

================================================================================
