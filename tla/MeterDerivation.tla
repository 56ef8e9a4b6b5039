---------------------------- MODULE MeterDerivation ----------------------------
(***************************************************************************)
(* Invoice-grade consumption of ONE register of ONE analyzer: a cumulative *)
(* meter that may be replaced, the readings kept of it, and what           *)
(* Billing.Consumption derives from them: the boundary reading of every    *)
(* instant, the look-back, and Derive's segmentation at meter resets.      *)
(* Instants are numbered; an index counts energy units.                    *)
(***************************************************************************)
EXTENDS Integers, Sequences, FiniteSetsExt

CONSTANTS
  LastInstant,   \* bound of the instants; no meter is replaced at the last
  Usage,         \* what the site may use between two instants
  FirstIndexes,  \* what a replacement meter may show first
  MaxSwaps,      \* bound of the replacements
  MaxFlaws,      \* bound of the readings lost, blank or late
  Due,           \* the instants at which each kind of snapshot is taken
  Tolerance,     \* the snapshot tolerance of each kind
  SettleDelay,   \* how long after its end a window closes
  BucketWidth,   \* width of a calendar bucket; bucket starts are month starts
  Series,        \* the series asked for: [level, bounds]
  Blank          \* the register is not reported by a reading

Snapshots == {"billing", "load_profile", "daily"}
Kinds == Snapshots \cup {"reset"}

ASSUME MeterAssumption ==
  /\ LastInstant \in Nat /\ MaxSwaps \in Nat /\ MaxFlaws \in Nat
  /\ Usage \subseteq Nat /\ FirstIndexes \subseteq Nat /\ Blank \notin Int
  /\ Due \in [Snapshots -> SUBSET Nat] /\ Tolerance \in [Snapshots -> Nat]
  /\ SettleDelay \in Nat \ {0} /\ BucketWidth \in Nat \ {0}
  /\ \A req \in Series :
       /\ req.bounds \in Seq(Nat)
       /\ LET apart == IF req.level \in {"hourly", "explicit"} THEN 1 ELSE BucketWidth
          IN \A i, j \in DOMAIN req.bounds : i < j => req.bounds[i] + apart <= req.bounds[j]

VARIABLES
  instant,   \* the next instant
  index,     \* what the meter shows
  stored,    \* meter_readings: per kind, the register at the instants read
  late,      \* per kind, the readings taken that have not arrived
  flaws,     \* readings lost, blank or late so far
  (* history variables, read by no action's guard but the bound on swaps *)
  used,      \* used[t]: all the site had used up to instant t
  swaps,     \* the instants at which the meter was replaced
  given      \* the rows Consumption gave for the windows closed before

meterVars == <<instant, index, stored, late, flaws, used, swaps, given>>

MeterInit ==
  /\ instant = 0 /\ index = 0 /\ flaws = 0
  /\ stored = [k \in Kinds |-> <<>>] /\ late = [k \in Kinds |-> <<>>] /\ used = <<>>
  /\ swaps = {} /\ given = {}

(***************************************************************************)
(* The windows of a request, and what is loaded for it                     *)
(***************************************************************************)
First(req) == req.bounds[1]
Final(req) == req.bounds[Len(req.bounds)]
Windows(req) == {[from |-> req.bounds[i], to |-> req.bounds[i + 1]] : i \in 1..(Len(req.bounds) - 1)}

BoundaryKinds(level) ==
  CASE level = "hourly" -> {"load_profile"}
    [] level = "daily" -> {"load_profile", "daily"}
    [] OTHER -> Snapshots

(* A window has its rows only once every boundary reading had time to land; *)
(* the clock stands at the instant before the next one.                     *)
\* Mutant: the window closes with its end.
ClosedAtOnce(w, next) == next - 1 >= w.to

ClosedBucket(w, next) == next - 1 >= w.to + SettleDelay

(* The last reading of a kind at or before the first bound, but no further   *)
(* back than the kind's tolerance, except hourly.                            *)
FirstBoundaryLookback(req, kind) ==
  LET seen == {t \in DOMAIN stored[kind] : t <= First(req)} IN
  IF seen = {} THEN First(req)
  ELSE IF req.level = "hourly" THEN Max(seen)
  ELSE Max({Max(seen), First(req) - Tolerance[kind]})

(* The instants whose readings are loaded: load profiles and resets from the *)
(* earliest look-back of any kind, the other snapshots from their own.       *)
LoadAnalyzerBoundaryData(req) ==
  LET earliest == Min({FirstBoundaryLookback(req, k) : k \in BoundaryKinds(req.level)})
      since(kind, from) == {t \in DOMAIN stored[kind] : from <= t /\ t <= Final(req)}
  IN [billing      |-> since("billing", FirstBoundaryLookback(req, "billing")),
      load_profile |-> since("load_profile", earliest),
      daily        |-> since("daily", FirstBoundaryLookback(req, "daily")),
      reset        |-> since("reset", earliest)]

(***************************************************************************)
(* The reading of a boundary instant                                       *)
(***************************************************************************)
(* Twice the tolerance at a bound: the narrower of the buckets that meet     *)
(* there caps the kind's own, at half its width; explicit windows stand for  *)
(* the buckets.                                                              *)
Width(req, bound) ==
  IF req.level # "explicit" THEN BucketWidth
  ELSE Min({w.to - w.from : w \in {v \in Windows(req) : bound \in {v.from, v.to}}})
BoundaryTolerance(req, kind, bound) == Min({2 * Tolerance[kind], Width(req, bound)})

SelectBoundary(data, kind, bound) ==
  LET before == {t \in data[kind] : t <= bound}
  IN IF before = {} THEN {} ELSE {[kind |-> kind, ts |-> Max(before)]}
BoundaryCandidate(req, data, kind, bound) ==
  {r \in SelectBoundary(data, kind, bound) : 2 * (bound - r.ts) <= BoundaryTolerance(req, kind, bound)}

UsesBilling(req, bound) ==
  req.level = "monthly" \/ (req.level = "explicit" /\ bound % BucketWidth = 0)

(* The reading that stands for an instant, or none: a kind is tried when the *)
(* kinds preferred to it have no candidate.                                  *)
ResolveBoundary(req, data, bound) ==
  LET billing == BoundaryCandidate(req, data, "billing", bound)
      profile == BoundaryCandidate(req, data, "load_profile", bound)
  IN CASE req.level = "hourly" -> SelectBoundary(data, "load_profile", bound)
       [] UsesBilling(req, bound) /\ billing # {} -> billing
       [] OTHER -> IF profile # {} THEN profile ELSE BoundaryCandidate(req, data, "daily", bound)

ValueOf(r) == stored[r.kind][r.ts]

(***************************************************************************)
(* Derive: segments between the resets of (start.ts, end.ts]               *)
(***************************************************************************)
(* The single last load profile strictly between two instants, Blank when    *)
(* there is none or it misses the register.                                  *)
\* Mutant: a reading that misses the register falls back to an older one.
PriorReported(data, after, before) ==
  LET priors == {t \in data["load_profile"] :
                   after < t /\ t < before /\ stored["load_profile"][t] # Blank}
  IN IF priors = {} THEN Blank ELSE stored["load_profile"][Max(priors)]

PriorValueBefore(data, after, before) ==
  LET priors == {t \in data["load_profile"] : after < t /\ t < before}
  IN IF priors = {} THEN Blank ELSE stored["load_profile"][Max(priors)]

DeriveRegister(data, s, e) ==
  LET resets == {t \in data["reset"] : s.ts < t /\ t <= e.ts}
      last(ts) == Max({s.ts} \cup ts)
      shown(t) == IF t = s.ts THEN ValueOf(s) ELSE stored["reset"][t]
      opening(r) == last({t \in resets : t < r})
      before(r) == PriorValueBefore(data, opening(r), r)
      segment == [r \in resets |-> before(r) - shown(opening(r))]
      closing == ValueOf(e) - shown(last(resets))
      startMismatch == s.ts \in data["reset"] /\ ValueOf(s) # stored["reset"][s.ts]
      endMismatch == e.ts \in resets /\ ValueOf(e) # stored["reset"][e.ts]
      unusable == \E r \in resets : Blank \in {stored["reset"][r], before(r)}
  IN IF Blank \in {ValueOf(s), ValueOf(e)} THEN [verdict |-> "unreported"]
     ELSE IF startMismatch \/ unusable \/ endMismatch THEN [verdict |-> "meter_reset"]
     ELSE IF closing < 0 \/ \E r \in resets : segment[r] < 0 THEN [verdict |-> "negative_delta"]
     ELSE [verdict |-> "sound", value |-> closing + SumFunctionOnSet(segment, resets)]

(* The rows of the closed windows; a pair of readings of one instant emits   *)
(* nothing.                                                                  *)
ConsumptionRows(req) ==
  LET data == LoadAnalyzerBoundaryData(req)
      closed == {w \in Windows(req) : ClosedBucket(w, instant)}
      row(w, s, e) == [request |-> req, window |-> w, from |-> s.ts, to |-> e.ts,
                       derived |-> DeriveRegister(data, s, e)]
  IN UNION {{row(w, p[1], p[2]) :
               p \in {q \in ResolveBoundary(req, data, w.from) \X ResolveBoundary(req, data, w.to) :
                        q[1].ts < q[2].ts}} : w \in closed}

(***************************************************************************)
(* The meter and what is kept of it                                        *)
(***************************************************************************)
(* The readings in two sets of rows, those of the first where both have one. *)
Joined(f, g) == [t \in DOMAIN f \cup DOMAIN g |-> IF t \in DOMAIN f THEN f[t] ELSE g[t]]
TakenNow(value) == [t \in {instant} |-> value]

(* A snapshot of each kind due now arrives, shows no value for the register, *)
(* is never taken, or arrives at the next instant; what was late arrives.    *)
TakeReadings(shown, resetRow) ==
  LET due == {k \in Snapshots : instant \in Due[k]} IN
  \E value \in [due -> shown], fate \in [due -> {"stored", "blank", "lost", "late"}] :
    LET arriving(k) ==
          IF k = "reset" THEN resetRow
          ELSE IF k \in due /\ fate[k] = "stored" THEN TakenNow(value[k])
          ELSE IF k \in due /\ fate[k] = "blank" THEN TakenNow(Blank) ELSE <<>>
    IN /\ flaws' = flaws + Cardinality({k \in due : fate[k] # "stored"})
       /\ flaws' <= MaxFlaws
       /\ stored' = [k \in Kinds |-> Joined(arriving(k), Joined(late[k], stored[k]))]
       /\ late' = [k \in Kinds |-> IF k \in due /\ fate[k] = "late" THEN TakenNow(value[k]) ELSE <<>>]

(* Meanwhile Consumption was asked for every request.                        *)
Give == given' = given \cup UNION {ConsumptionRows(req) : req \in Series}

UsedBefore == IF instant = 0 THEN 0 ELSE used[instant - 1]

MeterRuns ==
  /\ instant <= LastInstant
  /\ \E u \in Usage :
       /\ index' = index + u
       /\ used' = Joined(TakenNow(UsedBefore + u), used)
       /\ TakeReadings({index + u}, <<>>)
  /\ instant' = instant + 1 /\ Give /\ UNCHANGED swaps

(* The meter is replaced at an instant: a reset row carries the new meter's  *)
(* first index, or misses this register; a snapshot of the same instant may  *)
(* be the old meter's last or the new meter's first.                         *)
MeterReplaced ==
  /\ 0 < instant /\ instant < LastInstant /\ Cardinality(swaps) < MaxSwaps
  /\ \E u \in Usage, first \in FirstIndexes :
       /\ index' = first
       /\ used' = Joined(TakenNow(UsedBefore + u), used)
       /\ \E row \in {first, Blank} : TakeReadings({index + u, first}, TakenNow(row))
  /\ swaps' = swaps \cup {instant} /\ instant' = instant + 1 /\ Give

MeterNext == MeterRuns \/ MeterReplaced
MeterSpec == MeterInit /\ [][MeterNext]_meterVars

(***************************************************************************)
(* What is promised                                                        *)
(***************************************************************************)
(* The stored state is well formed: every reading is of an instant passed,   *)
(* every replacement left a reset row, and only the last instant's readings  *)
(* are still under way.                                                      *)
MeterTypeOK ==
  /\ instant \in 0..(LastInstant + 1) /\ index \in Nat /\ flaws \in 0..MaxFlaws
  /\ DOMAIN used = 0..(instant - 1)
  /\ \A k \in Snapshots : \A t \in DOMAIN stored[k] :
       t \in Due[k] /\ t < instant /\ stored[k][t] \in Nat \cup {Blank}
  /\ swaps = DOMAIN stored["reset"]
  /\ \A k \in Snapshots : DOMAIN late[k] \subseteq {instant - 1} \ DOMAIN stored[k]

(* What the load profiles can tell of the usage in (s, e]: all of it, less   *)
(* what an old meter counted after its last load profile.                    *)
Metered(s, e) ==
  LET seen(r) == {t \in DOMAIN stored["load_profile"] : t < r}
      resets == {r \in swaps : s < r /\ r <= e}
      unseen == [r \in resets |-> used[r] - (IF seen(r) = {} THEN 0 ELSE used[Max(seen(r))])]
  IN used[e] - used[s] - SumFunctionOnSet(unseen, resets)

(* A number that reaches an invoice is the usage of its span, whatever       *)
(* readings are missing, late or blank, whatever kinds bound it and whichever *)
(* meter a reading taken at the instant of a replacement shows; a register   *)
(* is suspect only where the meter was replaced; no usage is in two rows of  *)
(* a request; and, the look-back of the hourly series apart, no row takes    *)
(* more than half of another window.                                         *)
SoundRow(row) ==
  CASE row.derived.verdict = "sound" -> row.derived.value = Metered(row.from, row.to)
    [] row.derived.verdict = "meter_reset" -> swaps \cap (row.from..row.to) # {}
    [] OTHER -> row.derived.verdict = "unreported"
Takes(row, w) == Min({row.to, w.to}) - Max({row.from, w.from})
DerivationSound ==
  \A req \in Series : LET rows == ConsumptionRows(req) IN
    /\ \A row \in rows : SoundRow(row)
    /\ \A row, next \in rows : row.window.to <= next.window.from => row.to <= next.from
    /\ req.level # "hourly" =>
         \A row \in rows : \A w \in Windows(req) \ {row.window} : 2 * Takes(row, w) <= w.to - w.from

(* Once a window is closed its row, or its absence, stands: no reading that  *)
(* arrives within the settle delay changes what was billed.                  *)
SettledForGood ==
  given = {row \in UNION {ConsumptionRows(req) : req \in Series} : ClosedBucket(row.window, instant - 1)}
=============================================================================
