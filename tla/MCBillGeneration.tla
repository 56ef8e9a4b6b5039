---------------------------- MODULE MCBillGeneration ----------------------------
(* Finite instances of BillGeneration for TLC.                             *)
EXTENDS BillGeneration, TLC

Improving == (0 :> "unusable") @@ (1 :> "flagged") @@ (2 :> "issued")
Improves == (0 :> "unusable") @@ (1 :> "issued")

================================================================================
