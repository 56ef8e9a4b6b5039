------------------------ MODULE GenerationAccumulation ------------------------
(***************************************************************************)
(* The pm5340 post-persist hook for ONE analyzer: interval energy is       *)
(* accumulated into the cumulative register active_export, from a          *)
(* persisted anchor.  A fetch upserts a page of rows WITHOUT the lease     *)
(* (which empties their active_export) and then calls the hook, which      *)
(* recomputes under the per-analyzer lease.  A page whose hook failed is   *)
(* fetched again by the retried task.                                      *)
(*                                                                         *)
(* A row is its 15-minute slot; an anchor at slot t lies after row t.      *)
(***************************************************************************)
EXTENDS Integers, FiniteSetsExt

CONSTANTS
  Fetches,        \* concurrent fetch_readings runs of the analyzer
  NoFetch,        \* nobody holds the generation lease
  LastTs,         \* the last slot
  PagesOf,        \* the pages a fetch may persist
  Interval,       \* interval_generation_kwh of each slot, once and for all
  AnchorLookback, \* initialAnchorLookback, in slots
  SliceSpan,      \* rangeSliceWindow, in slots
  StoredAnchors,  \* the anchors the analyzer may start with
  NoAnchor, NoValue

Ts == 1 .. LastTs

\* A row of generation_anchors.
Anchors == [ts : 0 .. LastTs, val : Int, source : {"initial", "operator", "migration"}]

ASSUME GenerationAssumption ==
  /\ LastTs \in Nat /\ AnchorLookback \in Nat /\ SliceSpan \in Nat \ {0}
  /\ NoFetch \notin Fetches /\ NoValue \notin Int
  /\ StoredAnchors \subseteq {NoAnchor} \cup Anchors /\ NoAnchor \notin Anchors
  /\ PagesOf \subseteq (SUBSET Ts) \ {{}}
  /\ \A t \in Ts : Interval[t] \in Int

VARIABLES
  rows,      \* the analyzer's load_profile rows
  export,    \* their active_export
  anchor,    \* generation_anchors
  genLease,  \* who holds the per-analyzer generation lease
  hook       \* the runs, with the locals of the hook call each is in

genVars == <<rows, export, anchor, genLease, hook>>

\* The phases in which a run holds the lease.
Locked == {"anchored", "older", "forward"}

AtRest == [pc |-> "idle", page |-> {}, at |-> 0, cum |-> 0, batch |-> <<>>]

From(w) == Min(hook[w].page)
SumOver(S) == SumFunctionOnSet(Interval, S)

\* BulkInsert of computed rows: their active_export is overwritten.
WithValues(batch) ==
  [t \in Ts |-> IF t \in DOMAIN batch THEN batch[t] ELSE export[t]]

GenInit ==
  /\ rows = {} /\ export = [t \in Ts |-> NoValue]
  /\ anchor \in StoredAnchors /\ genLease = NoFetch
  /\ hook = [w \in Fetches |-> AtRest]

(* A fetch upserts its page; a retried task fetches the same page again. *)
PersistPage(w) ==
  \E p \in PagesOf :
    /\ \/ hook[w].pc = "idle"
       \/ hook[w].pc = "failed" /\ p = hook[w].page
    /\ rows' = rows \cup p
    /\ export' = [t \in Ts |-> IF t \in p THEN NoValue ELSE export[t]]
    /\ hook' = [hook EXCEPT ![w] = [AtRest EXCEPT !.pc = "waiting", !.page = p]]
    /\ UNCHANGED <<anchor, genLease>>

(* The anchor a first contact creates: a slot before the first row around the page. *)
InitialAnchor(w) ==
  LET seen == {t \in rows : From(w) - AnchorLookback <= t /\ t <= Max(hook[w].page)}
  IN  [ts |-> Min(seen) - 1, val |-> 0, source |-> "initial"]

\* Mutant: the hook runs without waiting for the lease.
TakeUnleased(w) ==
  /\ hook[w].pc = "waiting"
  /\ genLease' = w
  /\ anchor' = IF anchor = NoAnchor THEN InitialAnchor(w) ELSE anchor
  /\ hook' = [hook EXCEPT ![w].pc = "anchored"]
  /\ UNCHANGED <<rows, export>>

(* The lease is taken and the anchor read, or created. *)
TakeLease(w) ==
  /\ hook[w].pc = "waiting" /\ genLease = NoFetch
  /\ genLease' = w
  /\ anchor' = IF anchor = NoAnchor THEN InitialAnchor(w) ELSE anchor
  /\ hook' = [hook EXCEPT ![w].pc = "anchored"]
  /\ UNCHANGED <<rows, export>>

Forward(h, ts, val) == [h EXCEPT !.pc = "forward", !.at = ts, !.cum = val, !.batch = <<>>]

(* The base is the newest row before the page when it has been derived, *)
(* else the anchor itself.                                               *)
BaseOf(w) ==
  LET before == {t \in rows : anchor.ts <= t /\ t < From(w)}
      latest == Max(before)
  IN  IF before # {} /\ export[latest] # NoValue
      THEN Forward(hook[w], latest, export[latest])
      ELSE Forward(hook[w], anchor.ts, anchor.val)

ContinueForward(w) ==
  /\ hook[w].pc = "anchored" /\ anchor.ts < From(w)
  /\ hook' = [hook EXCEPT ![w] = BaseOf(w)]
  /\ UNCHANGED <<rows, export, anchor, genLease>>

Older(w) == {t \in rows : From(w) <= t /\ t <= anchor.ts}

\* Mutant: a synthetic anchor never moves.
AnchorStays(w) ==
  /\ hook[w].pc = "anchored" /\ From(w) <= anchor.ts
  /\ Older(w) # {} /\ anchor.source = "initial"
  /\ hook' = [hook EXCEPT ![w] = Forward(@, anchor.ts, anchor.val)]
  /\ UNCHANGED <<rows, export, anchor, genLease>>

(* Rows at or before a synthetic anchor move it back. *)
MoveAnchorBack(w) ==
  /\ hook[w].pc = "anchored" /\ From(w) <= anchor.ts
  /\ Older(w) # {} /\ anchor.source = "initial"
  /\ anchor' = [ts |-> Min(Older(w)) - 1, val |-> 0, source |-> "initial"]
  /\ hook' = [hook EXCEPT ![w] = Forward(@, Min(Older(w)) - 1, 0)]
  /\ UNCHANGED <<rows, export, genLease>>

(* Rows at or before an operator's or a migration's anchor are derived      *)
(* backward from it, down to the page's first row; the anchor stays.        *)
DeriveOlder(w) ==
  /\ hook[w].pc = "anchored" /\ From(w) <= anchor.ts
  /\ Older(w) # {} /\ anchor.source # "initial"
  /\ hook' = [hook EXCEPT ![w].pc = "older", ![w].batch =
       [t \in Older(w) |-> anchor.val - SumOver({u \in Older(w) : u > t})]]
  /\ UNCHANGED <<rows, export, anchor, genLease>>

WriteOlder(w) ==
  /\ hook[w].pc = "older"
  /\ export' = WithValues(hook[w].batch)
  /\ hook' = [hook EXCEPT ![w] = Forward(@, anchor.ts, anchor.val)]
  /\ UNCHANGED <<rows, anchor, genLease>>

(* One bounded Range read of the forward recompute; the running total is    *)
(* carried to the next slice.                                               *)
ReadSlice(w) ==
  LET h == hook[w]
      to == Min({h.at + SliceSpan, LastTs})
      slice == {t \in rows : h.at < t /\ t <= to}
      upTo(t) == h.cum + SumOver({u \in slice : u <= t})
  IN  /\ h.pc = "forward" /\ h.at < LastTs
      /\ hook' = [hook EXCEPT ![w].at = to,
                    ![w].cum = h.cum + SumOver(slice),
                    ![w].batch = [t \in DOMAIN h.batch \cup slice |->
                                    IF t \in slice THEN upTo(t) ELSE h.batch[t]]]
      /\ UNCHANGED <<rows, export, anchor, genLease>>

(* The batch is written and the lease released: the page is reconciled. *)
FlushBatch(w) ==
  /\ hook[w].pc = "forward" /\ hook[w].at = LastTs
  /\ export' = WithValues(hook[w].batch)
  /\ genLease' = NoFetch
  /\ hook' = [hook EXCEPT ![w] = AtRest]
  /\ UNCHANGED <<rows, anchor>>

(* A read or write of the hook fails: the lease is released, the run fails. *)
HookFails(w) ==
  /\ hook[w].pc \in Locked
  /\ genLease' = NoFetch
  /\ hook' = [hook EXCEPT ![w] = [AtRest EXCEPT !.pc = "failed", !.page = hook[w].page]]
  /\ UNCHANGED <<rows, export, anchor>>

(* The worker dies: its lease stays until the TTL. *)
HookCrashes(w) ==
  /\ hook[w].pc \in Locked \cup {"waiting"}
  /\ hook' = [hook EXCEPT ![w] = [AtRest EXCEPT !.pc = "failed", !.page = hook[w].page]]
  /\ UNCHANGED <<rows, export, anchor, genLease>>

GenLeaseExpires ==
  /\ genLease # NoFetch /\ hook[genLease].pc \notin Locked
  /\ genLease' = NoFetch
  /\ UNCHANGED <<rows, export, anchor, hook>>

GenNext ==
  \/ \E w \in Fetches :
       \/ PersistPage(w) \/ TakeLease(w) \/ ContinueForward(w) \/ MoveAnchorBack(w)
       \/ DeriveOlder(w) \/ WriteOlder(w) \/ ReadSlice(w) \/ FlushBatch(w)
       \/ HookFails(w) \/ HookCrashes(w)
  \/ GenLeaseExpires

GenSpec == GenInit /\ [][GenNext]_genVars

-----------------------------------------------------------------------------
(* Types of the state: the values the store and the hook's locals can hold, *)
(* and the lease names the run that is inside the hook.                     *)
GenerationTypeOK ==
  /\ rows \subseteq Ts
  /\ \A t \in Ts : export[t] = NoValue \/ export[t] \in Int
  /\ \A t \in Ts \ rows : export[t] = NoValue
  /\ anchor = NoAnchor \/ anchor \in Anchors
  /\ \A w \in Fetches :
       /\ hook[w].pc \in Locked \cup {"idle", "waiting", "failed"}
       /\ hook[w].pc \in Locked => genLease = w
       /\ (hook[w].pc = "idle") = (hook[w].page = {})

\* No page at or before t still waits for its hook to succeed.
Settled(t) == \A w \in Fetches : hook[w].pc = "idle" \/ t < From(w)

(* A row behind which no page is still to be reconciled holds the anchor's  *)
(* value plus every interval between the anchor and itself, however the     *)
(* pages of concurrent fetches, backfills, failures and retries interleaved.*)
ForwardReconciled ==
  \A t \in rows :
    Settled(t) =>
      /\ anchor # NoAnchor
      /\ anchor.source = "initial" => anchor.ts < t
      /\ anchor.ts < t =>
           export[t] = anchor.val + SumOver({u \in rows : anchor.ts < u /\ u <= t})

(* Once every page is reconciled, the rows before a real anchor obey R52's  *)
(* formula: the anchor's value minus every interval strictly after the row, *)
(* up to and including the anchor's instant.                                *)
BackwardReconciled ==
  (\A w \in Fetches : hook[w].pc = "idle") /\ anchor # NoAnchor =>
    \A t \in {u \in rows : u <= anchor.ts} :
      export[t] = anchor.val - SumOver({u \in rows : t < u /\ u <= anchor.ts})
=============================================================================
