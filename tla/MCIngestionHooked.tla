-------------------------- MODULE MCIngestionHooked --------------------------
(***************************************************************************)
(* The fetches, and the hook a fetch calls after each page: two views of   *)
(* one run that share no state, so a behaviour shows one of them, chosen   *)
(* at the start, while the other rests in its initial state.               *)
(***************************************************************************)
EXTENDS MCIngestion, GenerationAccumulation

VARIABLE view   \* "fetch" or "hook"

bothVars == <<view, vars, genVars>>

\* Distinct powers: two sums of intervals are equal only when their rows are.
MCInterval == [t \in 1 .. LastTs |-> 2 ^ (t - 1)]
MCAnchors == {NoAnchor, [ts |-> 2, val |-> 9, source |-> "operator"]}
MCPages == {{1}, {2}, {1, 2}, {3, 4}, {4}}

HookedInit ==
  /\ Init /\ GenInit
  /\ view = "hook" \/ (view = "fetch" /\ anchor = NoAnchor)

HookedNext ==
  /\ UNCHANGED view
  /\ \/ view = "fetch" /\ Next /\ UNCHANGED genVars
     \/ view = "hook" /\ GenNext /\ UNCHANGED vars

HookedSpec == HookedInit /\ [][HookedNext]_bothVars
=============================================================================
