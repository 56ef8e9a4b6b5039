----------------------------- MODULE EnergyProofs -----------------------------
(***************************************************************************)
(* Proofs about the energy the services compute: the cumulative register a *)
(* generation meter is given, and the consumption derived from the         *)
(* readings of a meter.  Both are sums over sets of instants, so the       *)
(* module begins with induction over finite sets and the laws of sums.     *)
(***************************************************************************)
EXTENDS GenerationAccumulation, MeterDerivation, FiniteSetTheorems, TLAPS

-----------------------------------------------------------------------------
(* Induction: n - 1 would map the naturals up to x outside S one to one into *)
(* those below x, if x were the least.                                       *)
LEMMA SetInduction ==
  ASSUME NEW S, 0 \in S, \A n \in Nat : n \in S => n + 1 \in S
  PROVE  Nat \subseteq S
<1> SUFFICES ASSUME NEW x \in Nat, x \notin S PROVE FALSE
  OBVIOUS
<1> DEFINE T == {y \in 0..x : y \notin S}
           f == [y \in T |-> y - 1]
<1>1. IsFiniteSet(T)
  <2>1. IsFiniteSet(0..x) BY FS_Interval
  <2> QED BY <2>1, FS_Subset
<1>2. IsFiniteSet(T \ {x}) /\ Cardinality(T \ {x}) < Cardinality(T)
  <2>1. x \in T OBVIOUS
  <2> HIDE DEF T
  <2>2. IsFiniteSet(T \ {x}) /\ Cardinality(T \ {x}) = Cardinality(T) - 1
    BY <1>1, <2>1, FS_RemoveElement
  <2>3. Cardinality(T) \in Nat
    BY <1>1, FS_CardinalityType
  <2> QED BY <2>2, <2>3
<1>3. f \in [T -> T \ {x}]
  <2> SUFFICES ASSUME NEW y \in T PROVE y - 1 \in T \ {x}
    OBVIOUS
  <2>1. y \in 1..x OBVIOUS
  <2>2. y - 1 \in Nat /\ (y - 1) + 1 = y BY <2>1
  <2>3. y - 1 \notin S BY <2>2
  <2> QED BY <2>1, <2>3
<1>4. PICK a, b \in T : a # b /\ f[a] = f[b]
  <2> HIDE DEF T, f
  <2> QED BY <1>1, <1>2, <1>3, FS_PigeonHole
<1>5. a \in Int /\ b \in Int /\ a - 1 = b - 1
  BY <1>4
<1> QED BY <1>4, <1>5

LEMMA OneOut ==
  ASSUME NEW s, IsFiniteSet(s)
  PROVE  /\ Cardinality(s) \in Nat /\ (Cardinality(s) = 0 <=> s = {})
         /\ \A x \in s : IsFiniteSet(s \ {x}) /\ Cardinality(s \ {x}) = Cardinality(s) - 1
<1>1. Cardinality(s) \in Nat /\ (Cardinality(s) = 0 <=> s = {})
  BY FS_CardinalityType, FS_EmptySet
<1>2. ASSUME NEW x \in s PROVE IsFiniteSet(s \ {x}) /\ Cardinality(s \ {x}) = Cardinality(s) - 1
  BY FS_RemoveElement
<1> QED BY <1>1, <1>2

(* Induction over the subsets of a finite set: what holds of a subset when   *)
(* it holds of all that have one element less holds of every subset.         *)
LEMMA SubsetInduction ==
  ASSUME NEW S, IsFiniteSet(S), NEW G,
         \A s \in SUBSET S : (\A x \in s : s \ {x} \in G) => s \in G
  PROVE  SUBSET S \subseteq G
<1> DEFINE Sized(n) == \A s \in SUBSET S : Cardinality(s) = n => s \in G
           Good == {n \in Nat : Sized(n)}
<1>1. \A s \in SUBSET S : IsFiniteSet(s)
  BY FS_Subset
<1>2. Sized(0)
  BY <1>1, OneOut
<1>3. ASSUME NEW n \in Nat, Sized(n) PROVE Sized(n + 1)
  <2> SUFFICES ASSUME NEW s \in SUBSET S, Cardinality(s) = n + 1 PROVE s \in G
    OBVIOUS
  <2>1. ASSUME NEW x \in s PROVE s \ {x} \in G
    <3>1. s \ {x} \in SUBSET S /\ Cardinality(s \ {x}) = n BY <1>1, OneOut
    <3> QED BY <1>3, <3>1
  <2> HIDE DEF Sized
  <2> QED BY <2>1
<1>4. Nat \subseteq Good
  <2> HIDE DEF Sized
  <2>1. 0 \in Good /\ \A n \in Nat : n \in Good => n + 1 \in Good
    BY <1>2, <1>3
  <2> HIDE DEF Good
  <2> QED BY <2>1, SetInduction
<1>5. ASSUME NEW s \in SUBSET S PROVE s \in G
  <2>1. Cardinality(s) \in Good
    <3> HIDE DEF Good
    <3> QED BY <1>1, <1>4, OneOut
  <2> QED BY <2>1
<1> QED BY <1>5

-----------------------------------------------------------------------------
(* The sum of a function over a finite set.                                  *)
Chosen(s) == CHOOSE x \in s : TRUE
Sums(g, f, D) ==
  g = [s \in D |-> IF s = {} THEN 0 ELSE f[Chosen(s)] + g[s \ {Chosen(s)}]]
Folded(f, S) == CHOOSE g : Sums(g, f, SUBSET S)

LEMMA SumUnfolds ==
  ASSUME NEW f, NEW S
  PROVE  SumFunctionOnSet(f, S) = Folded(f, S)[S]
BY DEF SumFunctionOnSet, FoldFunctionOnSet, MapThenFoldSet, Folded, Sums, Chosen

\* The recursion has a solution on the subsets of at most n elements.
LEMMA SumsExist ==
  ASSUME NEW f, NEW S, IsFiniteSet(S)
  PROVE  \E g : Sums(g, f, SUBSET S)
<1> DEFINE Small(n) == {s \in SUBSET S : Cardinality(s) <= n}
           Solved(n) == \E g : Sums(g, f, Small(n))
           Good == {n \in Nat : Solved(n)}
<1>1. \A s \in SUBSET S : IsFiniteSet(s)
  BY FS_Subset
<1>2. \A s : s # {} => Chosen(s) \in s
  BY DEF Chosen
<1>3. Solved(0)
  <2>1. \A s \in Small(0) : s = {}
    <3> SUFFICES ASSUME NEW s \in SUBSET S, Cardinality(s) <= 0 PROVE s = {}
      OBVIOUS
    <3>1. Cardinality(s) \in Nat /\ (Cardinality(s) = 0 <=> s = {}) BY <1>1, OneOut
    <3> QED BY <3>1
  <2>2. Sums([s \in Small(0) |-> 0], f, Small(0))
    <3> HIDE DEF Small
    <3> QED BY <2>1 DEF Sums
  <2> QED BY <2>2
<1>4. ASSUME NEW n \in Nat, Solved(n) PROVE Solved(n + 1)
  <2>1. PICK g : Sums(g, f, Small(n)) BY <1>4
  <2> DEFINE h == [s \in Small(n + 1) |-> IF s \in Small(n) THEN g[s] ELSE f[Chosen(s)] + g[s \ {Chosen(s)}]]
  <2>2. ASSUME NEW s \in Small(n + 1), s # {} PROVE s \ {Chosen(s)} \in Small(n) /\ s \ {Chosen(s)} \in Small(n + 1)
    <3>1. Cardinality(s) \in Nat /\ Cardinality(s \ {Chosen(s)}) = Cardinality(s) - 1 BY <1>1, <1>2, <2>2, OneOut
    <3> QED BY <3>1
  <2>3. {} \in Small(n)
    <3>1. Cardinality({}) = 0 BY FS_EmptySet
    <3> QED BY <3>1
  <2>4. ASSUME NEW s \in Small(n + 1)
        PROVE  h[s] = IF s = {} THEN 0 ELSE f[Chosen(s)] + h[s \ {Chosen(s)}]
    <3> HIDE DEF Small
    <3> QED BY <2>1, <2>2, <2>3, <2>4 DEF Sums
  <2>5. Sums(h, f, Small(n + 1))
    <3>1. h = [s \in Small(n + 1) |-> h[s]] OBVIOUS
    <3> HIDE DEF h, Small
    <3> QED BY <2>4, <3>1 DEF Sums
  <2> HIDE DEF h, Small
  <2> QED BY <2>5
<1>5. Cardinality(S) \in Good
  <2> HIDE DEF Solved
  <2>1. 0 \in Good /\ \A n \in Nat : n \in Good => n + 1 \in Good
    BY <1>3, <1>4
  <2> HIDE DEF Good
  <2> QED BY <1>1, <2>1, SetInduction, OneOut
<1>6. Small(Cardinality(S)) = SUBSET S
  <2>1. \A s \in SUBSET S : Cardinality(s) <= Cardinality(S) BY FS_Subset
  <2> QED BY <2>1
<1> QED BY <1>5, <1>6

\* The sums of the subsets of T do not depend on the set T is within.
LEMMA FoldedAgree ==
  ASSUME NEW f, NEW S, IsFiniteSet(S), NEW T \in SUBSET S
  PROVE  Folded(f, S)[T] = Folded(f, T)[T]
<1> DEFINE A == Folded(f, S)
           B == Folded(f, T)
           G == {s \in SUBSET T : A[s] = B[s]}
<1>1. IsFiniteSet(T) BY FS_Subset
<1>2. Sums(A, f, SUBSET S) /\ Sums(B, f, SUBSET T)
  BY <1>1, SumsExist DEF Folded
<1> HIDE DEF A, B
<1>3. \A s \in SUBSET T : /\ A[s] = IF s = {} THEN 0 ELSE f[Chosen(s)] + A[s \ {Chosen(s)}]
                          /\ B[s] = IF s = {} THEN 0 ELSE f[Chosen(s)] + B[s \ {Chosen(s)}]
  BY <1>2 DEF Sums
<1>4. ASSUME NEW s \in SUBSET T, \A x \in s : s \ {x} \in G PROVE s \in G
  <2>1. s # {} => Chosen(s) \in s BY DEF Chosen
  <2> QED BY <1>3, <1>4, <2>1
<1>5. T \in G
  <2> HIDE DEF G
  <2> QED BY <1>1, <1>4, SubsetInduction
<1> QED BY <1>5 DEF A, B

LEMMA SumOfChosen ==
  ASSUME NEW f, NEW S, IsFiniteSet(S)
  PROVE  SumFunctionOnSet(f, S) =
           IF S = {} THEN 0 ELSE f[Chosen(S)] + SumFunctionOnSet(f, S \ {Chosen(S)})
<1>1. Sums(Folded(f, S), f, SUBSET S)
  BY SumsExist DEF Folded
<1>2. Folded(f, S)[S] = IF S = {} THEN 0 ELSE f[Chosen(S)] + Folded(f, S)[S \ {Chosen(S)}]
  BY <1>1 DEF Sums
<1> QED BY <1>2, FoldedAgree, SumUnfolds

\* f is integer-valued on S.
Valued(f, S) == IsFiniteSet(S) /\ \A x \in S : f[x] \in Int

LEMMA SumType ==
  ASSUME NEW f, NEW S, Valued(f, S)
  PROVE  SumFunctionOnSet(f, S) \in Int
<1> DEFINE G == {s \in SUBSET S : SumFunctionOnSet(f, s) \in Int}
<1>1. ASSUME NEW s \in SUBSET S, \A x \in s : s \ {x} \in G PROVE s \in G
  <2>1. (s # {} => Chosen(s) \in s) /\ IsFiniteSet(s) BY FS_Subset DEF Chosen, Valued
  <2>2. SumFunctionOnSet(f, s) = IF s = {} THEN 0 ELSE f[Chosen(s)] + SumFunctionOnSet(f, s \ {Chosen(s)})
    BY <2>1, SumOfChosen
  <2> QED BY <1>1, <2>1, <2>2 DEF Valued
<1>2. S \in G
  <2> HIDE DEF G
  <2> QED BY <1>1, SubsetInduction DEF Valued
<1> QED BY <1>2

(* Any element may be taken out first.                                          *)
LEMMA SumOneOut ==
  ASSUME NEW f, NEW S, Valued(f, S)
  PROVE  \A x \in S : SumFunctionOnSet(f, S) = f[x] + SumFunctionOnSet(f, S \ {x})
<1> DEFINE Sum(s) == SumFunctionOnSet(f, s)
           G == {s \in SUBSET S : \A x \in s : Sum(s) = f[x] + Sum(s \ {x})}
<1>1. ASSUME NEW s \in SUBSET S, \A x \in s : s \ {x} \in G PROVE s \in G
  <2> SUFFICES ASSUME NEW x \in s PROVE Sum(s) = f[x] + Sum(s \ {x})
    OBVIOUS
  <2> DEFINE y == Chosen(s)
  <2>1. y \in s BY DEF Chosen
  <2>2. Sum(s) = f[y] + Sum(s \ {y})
    <3>1. IsFiniteSet(s) BY FS_Subset DEF Valued
    <3> QED BY <2>1, <3>1, SumOfChosen
  <2> HIDE DEF y
  <2>3. CASE x # y
    <3>1. Sum(s \ {y}) = f[x] + Sum((s \ {y}) \ {x}) BY <1>1, <2>1, <2>3
    <3>2. Sum(s \ {x}) = f[y] + Sum((s \ {x}) \ {y}) BY <1>1, <2>1, <2>3
    <3>3. (s \ {y}) \ {x} = (s \ {x}) \ {y} OBVIOUS
    <3>4. Sum((s \ {x}) \ {y}) \in Int
      <4>1. Valued(f, (s \ {x}) \ {y}) BY FS_Subset DEF Valued
      <4> QED BY <4>1, SumType
    <3>5. f[x] \in Int /\ f[y] \in Int BY <2>1 DEF Valued
    <3>6. PICK u, v, w, z : /\ u = Sum(s) /\ v = Sum(s \ {x}) /\ w = Sum(s \ {y})
                           /\ z = Sum((s \ {x}) \ {y}) /\ z = Sum((s \ {y}) \ {x})
      BY <3>3
    <3>7. u = f[y] + w /\ w = f[x] + z /\ v = f[y] + z /\ z \in Int
      BY <2>2, <3>1, <3>2, <3>4, <3>6
    <3>8. u = f[x] + v
      BY <3>5, <3>7
    <3> QED BY <3>6, <3>8
  <2> QED BY <2>2, <2>3
<1>2. S \in G
  <2> HIDE DEF G
  <2> QED BY <1>1, SubsetInduction DEF Valued
<1> QED BY <1>2

LEMMA SumOfNone == ASSUME NEW f PROVE SumFunctionOnSet(f, {}) = 0
BY SumOfChosen, FS_EmptySet

LEMMA SumDisjoint ==
  ASSUME NEW f, NEW S, NEW T, Valued(f, S), Valued(f, T), S \cap T = {}
  PROVE  SumFunctionOnSet(f, S \cup T) = SumFunctionOnSet(f, S) + SumFunctionOnSet(f, T)
<1> DEFINE Sum(s) == SumFunctionOnSet(f, s)
           G == {s \in SUBSET S : Sum(s \cup T) = Sum(s) + Sum(T)}
<1>1. ASSUME NEW s \in SUBSET S, \A x \in s : s \ {x} \in G PROVE s \in G
  <2>1. Sum(T) \in Int BY SumType
  <2>2. CASE s = {}
    <3>1. Sum(s) = 0 /\ Sum(s \cup T) = Sum(T)
      <4>1. s \cup T = T BY <2>2
      <4> QED BY <2>2, <4>1, SumOfNone
    <3>2. Sum(s \cup T) = Sum(s) + Sum(T) BY <2>1, <3>1
    <3> QED BY <3>2
  <2>3. ASSUME NEW x \in s PROVE s \in G
    <3>1. Valued(f, s) /\ Valued(f, s \cup T) /\ Valued(f, s \ {x})
      <4>1. IsFiniteSet(s) /\ IsFiniteSet(s \cup T) /\ IsFiniteSet(s \ {x})
        BY FS_Subset, FS_Union DEF Valued
      <4> QED BY <4>1 DEF Valued
    <3>2. Sum(s) = f[x] + Sum(s \ {x}) BY <3>1, SumOneOut
    <3>3. Sum(s \cup T) = f[x] + Sum((s \cup T) \ {x}) BY <3>1, SumOneOut
    <3>4. (s \cup T) \ {x} = (s \ {x}) \cup T OBVIOUS
    <3>5. Sum((s \ {x}) \cup T) = Sum(s \ {x}) + Sum(T) BY <1>1
    <3>6. Sum(s \ {x}) \in Int BY <3>1, SumType
    <3>7. f[x] \in Int BY DEF Valued
    <3>8. Sum((s \cup T) \ {x}) = Sum(s \ {x}) + Sum(T) BY <3>4, <3>5
    <3>9. PICK u, v, w, z, r : /\ u = Sum(s) /\ v = Sum(s \cup T) /\ w = Sum(s \ {x})
                             /\ z = Sum((s \cup T) \ {x}) /\ r = Sum(T)
      OBVIOUS
    <3>10. u = f[x] + w /\ v = f[x] + z /\ z = w + r /\ w \in Int /\ r \in Int
      BY <2>1, <3>2, <3>3, <3>6, <3>8, <3>9
    <3>11. v = u + r
      BY <3>7, <3>10
    <3> QED BY <3>9, <3>11
  <2> QED BY <2>2, <2>3
<1>2. S \in G
  <2> HIDE DEF G
  <2> QED BY <1>1, SubsetInduction DEF Valued
<1> QED BY <1>2

-----------------------------------------------------------------------------
(* The least and the greatest of a finite set of integers.                   *)
LEMMA Extremes ==
  ASSUME NEW S, IsFiniteSet(S), S \subseteq Int, S # {}
  PROVE  /\ Min(S) \in S /\ \A y \in S : Min(S) <= y
         /\ Max(S) \in S /\ \A y \in S : y <= Max(S)
<1> DEFINE Least(m, s) == m \in s /\ \A y \in s : m <= y
           Most(m, s) == m \in s /\ \A y \in s : y <= m
           G == {s \in SUBSET S : s # {} => (\E m : Least(m, s)) /\ (\E m : Most(m, s))}
<1>1. ASSUME NEW s \in SUBSET S, \A x \in s : s \ {x} \in G PROVE s \in G
  <2> SUFFICES ASSUME NEW x \in s PROVE (\E m : Least(m, s)) /\ (\E m : Most(m, s))
    OBVIOUS
  <2>1. CASE s \ {x} = {}
    <3>1. Least(x, s) /\ Most(x, s) BY <2>1
    <3> QED BY <3>1
  <2>2. CASE s \ {x} # {}
    <3>1. PICK l, m : Least(l, s \ {x}) /\ Most(m, s \ {x}) BY <1>1, <2>2
    <3>2. Least(IF x <= l THEN x ELSE l, s) BY <3>1
    <3>3. Most(IF m <= x THEN x ELSE m, s) BY <3>1
    <3> QED BY <3>2, <3>3
  <2> QED BY <2>1, <2>2
<1>2. S \in G
  <2> HIDE DEF G
  <2> QED BY <1>1, SubsetInduction
<1>3. (\E m : Least(m, S)) /\ (\E m : Most(m, S))
  BY <1>2
<1>4. Least(Min(S), S)
  BY <1>3 DEF Min
<1>5. Most(Max(S), S)
  BY <1>3 DEF Max
<1> QED BY <1>4, <1>5

-----------------------------------------------------------------------------
(***************************************************************************)
(* The generation hook                                                     *)
(***************************************************************************)
LEMMA SlotSets ==
  ASSUME NEW S \in SUBSET Ts
  PROVE  /\ IsFiniteSet(S) /\ S \subseteq Int /\ Valued(Interval, S) /\ SumOver(S) \in Int
         /\ S # {} => /\ Min(S) \in S /\ \A y \in S : Min(S) <= y
                      /\ Max(S) \in S /\ \A y \in S : y <= Max(S)
<1>1. IsFiniteSet(S) /\ S \subseteq Int
  <2>1. IsFiniteSet(Ts) /\ Ts \subseteq Int
    BY GenerationAssumption, FS_Interval DEF Ts
  <2> QED BY <2>1, FS_Subset
<1>2. Valued(Interval, S)
  BY <1>1, GenerationAssumption DEF Valued
<1>3. SumOver(S) \in Int
  BY <1>2, SumType DEF SumOver
<1> QED BY <1>1, <1>2, <1>3, Extremes

LEMMA SlotSums ==
  /\ SumOver({}) = 0
  /\ \A S, T \in SUBSET Ts : S \cap T = {} => SumOver(S \cup T) = SumOver(S) + SumOver(T)
BY SlotSets, SumOfNone, SumDisjoint DEF SumOver

\* What the forward recompute means row t to hold.
Truth(t) == anchor.val + SumOver({u \in rows : anchor.ts < u /\ u <= t})
\* No page of another run, at or before t, waits for its hook.
Clear(w, t) == \A q \in Fetches \ {w} : hook[q].pc = "idle" \/ t < From(q)

Batches == UNION {[D -> Int] : D \in SUBSET Ts}
HookState == [pc : Locked \cup {"idle", "waiting", "failed"}, page : SUBSET Ts,
              at : 0 .. LastTs, cum : Int, batch : Batches]

GenTyped ==
  /\ rows \subseteq Ts /\ export \in [Ts -> Int \cup {NoValue}]
  /\ \A t \in Ts \ rows : export[t] = NoValue
  /\ anchor \in {NoAnchor} \cup Anchors /\ genLease \in Fetches \cup {NoFetch}
  /\ hook \in [Fetches -> HookState]

PageKept ==
  \A w \in Fetches :
    /\ (hook[w].pc = "idle") = (hook[w].page = {})
    /\ hook[w].page \subseteq rows
    /\ hook[w].pc \in Locked => genLease = w /\ anchor # NoAnchor

(* Nothing is derived before there is an anchor, nor at or before one that   *)
(* was made up; the row of an anchor's instant can only hold its value.      *)
Unwritten ==
  /\ anchor = NoAnchor => \A t \in Ts : export[t] = NoValue
  /\ anchor # NoAnchor =>
       \A t \in Ts : /\ anchor.source = "initial" /\ t <= anchor.ts => export[t] = NoValue
                     /\ t = anchor.ts => export[t] \in {NoValue, anchor.val}

(* A recompute has in its batch, with their true value, all the rows of its  *)
(* page and after it that no page of another run lies behind.                *)
ForwardSound(w) ==
  hook[w].pc = "forward" =>
    /\ anchor.ts <= hook[w].at
    /\ DOMAIN hook[w].batch \subseteq {u \in rows : anchor.ts < u /\ u <= hook[w].at}
    /\ anchor.source = "initial" => anchor.ts < From(w)
    /\ \A t \in rows :
         From(w) <= t /\ anchor.ts < t /\ t <= hook[w].at /\ Clear(w, t) => t \in DOMAIN hook[w].batch
    /\ \A t \in DOMAIN hook[w].batch : Clear(w, t) => hook[w].batch[t] = Truth(t)
    /\ Clear(w, hook[w].at) => hook[w].cum = Truth(hook[w].at)
OlderSound(w) ==
  hook[w].pc = "older" =>
    /\ anchor.source # "initial"
    /\ DOMAIN hook[w].batch \subseteq {u \in rows : u <= anchor.ts}
    /\ anchor.ts \in DOMAIN hook[w].batch => hook[w].batch[anchor.ts] = anchor.val

GenInv ==
  /\ GenTyped /\ PageKept /\ Unwritten /\ ForwardReconciled
  /\ \A w \in Fetches : ForwardSound(w) /\ OlderSound(w)

LEMMA AtRestTyped ==
  /\ AtRest \in HookState /\ AtRest.pc = "idle" /\ AtRest.page = {}
  /\ \A p \in SUBSET Ts, pc \in {"waiting", "failed"} :
       LET h == [AtRest EXCEPT !.pc = pc, !.page = p]
       IN  h \in HookState /\ h.pc = pc /\ h.page = p
<1>1. <<>> \in Batches
  <2>1. <<>> \in [{} -> Int] OBVIOUS
  <2>2. {} \in SUBSET Ts OBVIOUS
  <2> QED BY <2>1, <2>2 DEF Batches
<1>2. 0 \in 0 .. LastTs
  BY GenerationAssumption
<1>3. AtRest \in HookState /\ AtRest.pc = "idle" /\ AtRest.page = {}
  BY <1>1, <1>2 DEF AtRest, HookState
<1>4. ASSUME NEW p \in SUBSET Ts, NEW pc \in {"waiting", "failed"}
      PROVE  LET h == [AtRest EXCEPT !.pc = pc, !.page = p]
             IN  h \in HookState /\ h.pc = pc /\ h.page = p
  BY <1>3 DEF HookState
<1> QED BY <1>3, <1>4

LEMMA GenInitInv == GenInit => GenInv
<1> SUFFICES ASSUME GenInit PROVE GenInv
  OBVIOUS
<1>1. hook \in [Fetches -> HookState] /\ \A w \in Fetches : hook[w].pc = "idle" /\ hook[w].page = {}
  BY AtRestTyped DEF GenInit
<1>2. GenTyped
  BY <1>1, GenerationAssumption DEF GenInit, GenTyped
<1>3. PageKept /\ \A w \in Fetches : ForwardSound(w) /\ OlderSound(w)
  BY <1>1 DEF PageKept, ForwardSound, OlderSound, Locked
<1>4. Unwritten /\ ForwardReconciled
  BY DEF GenInit, Unwritten, ForwardReconciled
<1> QED BY <1>2, <1>3, <1>4 DEF GenInv

-----------------------------------------------------------------------------
LEMMA OneInside ==
  ASSUME GenInv, NEW w \in Fetches, hook[w].pc \in Locked \/ genLease = NoFetch
  PROVE  \A q \in Fetches \ {w} : hook[q].pc \notin Locked
BY GenerationAssumption DEF GenInv, PageKept

(* A step of run w, at work on its page, that writes no row and lets the     *)
(* pages be: what is to be shown of it.                                      *)
LEMMA WorkStep ==
  ASSUME GenInv, NEW w \in Fetches, NEW h \in HookState,
         hook' = [hook EXCEPT ![w] = h],
         h.page = hook[w].page, h.pc # "idle", hook[w].pc # "idle",
         \A q \in Fetches \ {w} : hook[q].pc \notin Locked
  PROVE  /\ hook'[w] = h /\ From(w)' = From(w)
         /\ \A t : Settled(t)' = Settled(t)
         /\ \A t : Clear(w, t)' = Clear(w, t)
         /\ hook' \in [Fetches -> HookState]
         /\ \A q \in Fetches \ {w} : ForwardSound(q)' /\ OlderSound(q)'
         /\ rows' = rows /\ (h.pc \in Locked => genLease' = w /\ anchor' # NoAnchor) => PageKept'
<1>1. hook'[w] = h /\ hook' \in [Fetches -> HookState] /\ \A q \in Fetches \ {w} : hook'[q] = hook[q]
  BY DEF GenInv, GenTyped
<1>2. \A q \in Fetches : From(q)' = From(q) /\ (hook'[q].pc = "idle" <=> hook[q].pc = "idle")
  BY <1>1 DEF From
<1>3. \A t : Settled(t)' = Settled(t)
  BY <1>2 DEF Settled
<1>4. \A t : Clear(w, t)' = Clear(w, t)
  BY <1>2 DEF Clear
<1>5. \A q \in Fetches \ {w} : ForwardSound(q)' /\ OlderSound(q)'
  BY <1>1 DEF ForwardSound, OlderSound, Locked
<1>6. ASSUME rows' = rows, h.pc \in Locked => genLease' = w /\ anchor' # NoAnchor PROVE PageKept'
  BY <1>1, <1>6 DEF GenInv, PageKept
<1> QED BY <1>1, <1>2, <1>3, <1>4, <1>5, <1>6

LEMMA FromPage ==
  ASSUME GenInv, NEW w \in Fetches, hook[w].pc # "idle"
  PROVE  /\ hook[w].page \in SUBSET Ts /\ From(w) \in hook[w].page /\ From(w) \in rows /\ From(w) \in Ts
         /\ \A t \in hook[w].page : From(w) <= t
         /\ \A t : Settled(t) <=> Clear(w, t) /\ t < From(w)
<1>1. hook[w].page \in SUBSET Ts /\ hook[w].page # {} /\ hook[w].page \subseteq rows
  BY DEF GenInv, GenTyped, PageKept, HookState
<1>2. From(w) \in hook[w].page /\ \A t \in hook[w].page : From(w) <= t
  BY <1>1, SlotSets DEF From
<1>3. \A t : Settled(t) <=> Clear(w, t) /\ t < From(w)
  BY DEF Settled, Clear
<1> QED BY <1>1, <1>2, <1>3

LEMMA TakeLeaseStep ==
  ASSUME GenInv, NEW w \in Fetches, TakeLease(w)
  PROVE  GenInv'
<1>1. /\ hook[w].pc = "waiting" /\ genLease = NoFetch /\ genLease' = w
      /\ anchor' = IF anchor = NoAnchor THEN InitialAnchor(w) ELSE anchor
      /\ rows' = rows /\ export' = export
  BY DEF TakeLease
<1>2. PICK h : h = [hook[w] EXCEPT !.pc = "anchored"]
  OBVIOUS
<1>3. h \in HookState /\ h.pc = "anchored" /\ h.page = hook[w].page
  BY <1>2 DEF GenInv, GenTyped, HookState, Locked
<1>4. hook' = [hook EXCEPT ![w] = h]
  BY <1>2 DEF TakeLease
<1>5. InitialAnchor(w) \in Anchors /\ InitialAnchor(w).source = "initial"
  <2> DEFINE seen == {t \in rows : From(w) - AnchorLookback <= t /\ t <= Max(hook[w].page)}
  <2>1. seen \in SUBSET Ts
    BY DEF GenInv, GenTyped
  <2>2. From(w) \in seen
    <3>1. From(w) <= Max(hook[w].page) /\ From(w) \in Int
      BY <1>1, FromPage, SlotSets
    <3> QED BY <1>1, <3>1, FromPage, GenerationAssumption
  <2>3. Min(seen) \in Ts
    <3> HIDE DEF seen
    <3> QED BY <2>1, <2>2, SlotSets
  <2>4. InitialAnchor(w) = [ts |-> Min(seen) - 1, val |-> 0, source |-> "initial"]
    BY DEF InitialAnchor
  <2> HIDE DEF seen
  <2>5. Min(seen) - 1 \in 0 .. LastTs
    BY <2>3, GenerationAssumption DEF Ts
  <2> QED BY <2>4, <2>5 DEF Anchors
<1>6. anchor' \in Anchors /\ anchor' # NoAnchor
  BY <1>1, <1>5, GenerationAssumption DEF GenInv, GenTyped
<1>7. \A q \in Fetches \ {w} : hook[q].pc \notin Locked
  BY <1>1, OneInside
<1>8. hook[w].pc # "idle" /\ h.pc # "idle"
  BY <1>1, <1>3
<1>9. /\ hook'[w] = h /\ \A t : Settled(t)' = Settled(t)
      /\ hook' \in [Fetches -> HookState] /\ PageKept'
      /\ \A q \in Fetches \ {w} : ForwardSound(q)' /\ OlderSound(q)'
  BY <1>1, <1>3, <1>4, <1>6, <1>7, <1>8, WorkStep
<1>10. GenTyped'
  BY <1>1, <1>6, <1>9 DEF GenInv, GenTyped
<1>11. Unwritten'
  BY <1>1, <1>5, <1>6 DEF GenInv, Unwritten
<1>12. ForwardReconciled'
  BY <1>1, <1>9 DEF GenInv, ForwardReconciled
<1>13. ForwardSound(w)' /\ OlderSound(w)'
  BY <1>3, <1>9 DEF ForwardSound, OlderSound
<1> QED BY <1>9, <1>10, <1>11, <1>12, <1>13 DEF GenInv

LEMMA ForwardFields ==
  ASSUME NEW h \in HookState, NEW ts \in 0 .. LastTs, NEW val \in Int
  PROVE  /\ Forward(h, ts, val) \in HookState /\ Forward(h, ts, val).pc = "forward"
         /\ Forward(h, ts, val).page = h.page /\ Forward(h, ts, val).at = ts
         /\ Forward(h, ts, val).cum = val /\ DOMAIN Forward(h, ts, val).batch = {}
<1>1. <<>> \in Batches
  BY AtRestTyped DEF AtRest, HookState
<1>2. DOMAIN <<>> = {}
  OBVIOUS
<1> QED BY <1>1, <1>2 DEF Forward, HookState, Locked

LEMMA TruthAtAnchor ==
  ASSUME GenTyped, anchor # NoAnchor
  PROVE  Truth(anchor.ts) = anchor.val
<1>1. anchor \in Anchors /\ anchor.ts \in Int /\ rows \subseteq Int
  BY GenerationAssumption DEF GenTyped, Anchors, Ts
<1>2. {u \in rows : anchor.ts < u /\ u <= anchor.ts} = {}
  <2>1. \A u \in Int : ~(anchor.ts < u /\ u <= anchor.ts) BY <1>1
  <2> QED BY <1>1, <2>1, Zenon
<1>3. Truth(anchor.ts) = anchor.val + 0
  BY <1>2, SlotSums DEF Truth
<1> QED BY <1>1, <1>3 DEF Anchors

\* A recompute that starts with a true total at or behind its page.
LEMMA ForwardBegins ==
  ASSUME GenInv, NEW w \in Fetches, NEW at \in 0 .. LastTs, NEW cum,
         hook'[w].pc = "forward", DOMAIN hook'[w].batch = {},
         hook'[w].at = at, hook'[w].cum = cum,
         anchor' \in Anchors, anchor'.ts <= at, rows' = rows, From(w)' \in Ts,
         anchor'.source = "initial" => anchor'.ts < From(w)',
         at < From(w)' \/ at = anchor'.ts,
         Clear(w, at)' => cum = Truth(at)'
  PROVE  ForwardSound(w)' /\ OlderSound(w)'
<1>1. \A t \in rows : ~(From(w)' <= t /\ anchor'.ts < t /\ t <= at)
  <2>1. rows \subseteq Int /\ From(w)' \in Int /\ anchor'.ts \in Int /\ at \in Int
    BY GenerationAssumption DEF GenInv, GenTyped, Ts, Anchors
  <2> QED BY <2>1
<1> QED BY <1>1 DEF ForwardSound, OlderSound

LEMMA ContinueForwardStep ==
  ASSUME GenInv, NEW w \in Fetches, ContinueForward(w)
  PROVE  GenInv'
<1>1. /\ hook[w].pc = "anchored" /\ anchor.ts < From(w) /\ rows' = rows /\ export' = export
      /\ anchor' = anchor /\ genLease' = genLease
  BY DEF ContinueForward
<1>2. /\ anchor \in Anchors /\ anchor # NoAnchor /\ genLease = w
      /\ \A q \in Fetches \ {w} : hook[q].pc \notin Locked
      /\ hook[w] \in HookState /\ From(w) \in Ts /\ hook[w].pc # "idle"
  BY <1>1, OneInside, FromPage DEF GenInv, GenTyped, PageKept, Locked
<1>3. \E at \in 0 .. LastTs, cum \in Int :
        /\ BaseOf(w) = Forward(hook[w], at, cum) /\ anchor.ts <= at /\ at < From(w)
        /\ Clear(w, at) => cum = Truth(at)
  <2> DEFINE before == {t \in rows : anchor.ts <= t /\ t < From(w)}
             latest == Max(before)
  <2>1. CASE before # {} /\ export[latest] # NoValue
    <3>1. latest \in before
      <4>1. before \in SUBSET Ts BY DEF GenInv, GenTyped
      <4> HIDE DEF before
      <4> QED BY <2>1, <4>1, SlotSets
    <3>2. latest \in rows /\ anchor.ts <= latest /\ latest < From(w) /\ latest \in Ts
      BY <3>1 DEF GenInv, GenTyped
    <3>3. BaseOf(w) = Forward(hook[w], latest, export[latest])
      BY <2>1 DEF BaseOf
    <3> HIDE DEF before, latest
    <3>4. export[latest] \in Int /\ latest \in 0 .. LastTs /\ latest \in Int
      BY <2>1, <3>2, GenerationAssumption DEF GenInv, GenTyped, Ts
    <3>5. ASSUME Clear(w, latest) PROVE export[latest] = Truth(latest)
      <4>1. CASE anchor.ts = latest
        <5>1. export[latest] = anchor.val
          BY <1>2, <2>1, <3>2, <4>1 DEF GenInv, Unwritten
        <5> QED BY <1>2, <4>1, <5>1, TruthAtAnchor DEF GenInv
      <4>2. CASE anchor.ts < latest
        <5>1. Settled(latest)
          BY <1>2, <3>2, <3>5, FromPage
        <5> QED BY <3>2, <4>2, <5>1 DEF GenInv, ForwardReconciled, Truth
      <4>3. anchor.ts \in Int
        BY <1>2, GenerationAssumption DEF Anchors
      <4> QED BY <3>2, <3>4, <4>1, <4>2, <4>3
    <3> QED BY <3>2, <3>3, <3>4, <3>5
  <2>2. CASE ~(before # {} /\ export[latest] # NoValue)
    <3>1. BaseOf(w) = Forward(hook[w], anchor.ts, anchor.val)
      BY <2>2 DEF BaseOf
    <3>2. anchor.ts \in 0 .. LastTs /\ anchor.val \in Int /\ anchor.ts <= anchor.ts
      BY <1>2, GenerationAssumption DEF Anchors
    <3> QED BY <1>1, <1>2, <3>1, <3>2, TruthAtAnchor DEF GenInv
  <2> QED BY <2>1, <2>2
<1>4. PICK at \in 0 .. LastTs, cum \in Int :
        /\ BaseOf(w) = Forward(hook[w], at, cum) /\ anchor.ts <= at /\ at < From(w)
        /\ Clear(w, at) => cum = Truth(at)
  BY <1>3
<1>5. PICK h : h = BaseOf(w)
  OBVIOUS
<1>6. /\ h \in HookState /\ h.pc = "forward" /\ h.page = hook[w].page /\ h.at = at
      /\ h.cum = cum /\ DOMAIN h.batch = {}
  BY <1>2, <1>4, <1>5, ForwardFields
<1>7. hook' = [hook EXCEPT ![w] = h]
  BY <1>5 DEF ContinueForward
<1>8. /\ hook'[w] = h /\ From(w)' = From(w) /\ \A t : Settled(t)' = Settled(t)
      /\ \A t : Clear(w, t)' = Clear(w, t)
      /\ hook' \in [Fetches -> HookState] /\ PageKept'
      /\ \A q \in Fetches \ {w} : ForwardSound(q)' /\ OlderSound(q)'
  BY <1>1, <1>2, <1>6, <1>7, WorkStep
<1>9. GenTyped' /\ Unwritten' /\ ForwardReconciled'
  BY <1>1, <1>8 DEF GenInv, GenTyped, Unwritten, ForwardReconciled
<1>10. Truth(at)' = Truth(at) /\ Clear(w, at)' = Clear(w, at)
  BY <1>1, <1>8 DEF Truth
<1>11. ForwardSound(w)' /\ OlderSound(w)'
  <2>1. Clear(w, at)' => cum = Truth(at)'
    BY <1>4, <1>10
  <2> QED BY <1>1, <1>2, <1>4, <1>6, <1>8, <2>1, ForwardBegins
<1> QED BY <1>8, <1>9, <1>11 DEF GenInv

LEMMA MoveAnchorBackStep ==
  ASSUME GenInv, NEW w \in Fetches, MoveAnchorBack(w)
  PROVE  GenInv'
<1>1. /\ hook[w].pc = "anchored" /\ From(w) <= anchor.ts /\ anchor.source = "initial"
      /\ rows' = rows /\ export' = export /\ genLease' = genLease
  BY DEF MoveAnchorBack
<1>2. /\ anchor \in Anchors /\ anchor # NoAnchor /\ genLease = w
      /\ \A q \in Fetches \ {w} : hook[q].pc \notin Locked
      /\ hook[w] \in HookState /\ From(w) \in Ts /\ From(w) \in rows /\ hook[w].pc # "idle"
  BY <1>1, OneInside, FromPage DEF GenInv, GenTyped, PageKept, Locked
<1>3. Min(Older(w)) = From(w)
  <2>1. Older(w) \in SUBSET Ts
    BY DEF Older, GenInv, GenTyped
  <2>2. From(w) \in Older(w)
    <3>1. From(w) <= From(w) BY <1>2, GenerationAssumption DEF Ts
    <3> QED BY <1>1, <1>2, <3>1 DEF Older
  <2>3. Min(Older(w)) \in Older(w) /\ Min(Older(w)) <= From(w)
    BY <2>1, <2>2, SlotSets
  <2>4. Min(Older(w)) \in Ts /\ From(w) <= Min(Older(w))
    BY <2>1, <2>3 DEF Older
  <2> QED BY <1>2, <2>3, <2>4, GenerationAssumption DEF Ts
<1> DEFINE at == From(w) - 1
<1>4. /\ anchor' = [ts |-> at, val |-> 0, source |-> "initial"]
      /\ hook' = [hook EXCEPT ![w] = Forward(hook[w], at, 0)]
  BY <1>3 DEF MoveAnchorBack
<1>5. PICK a, h : a = From(w) - 1 /\ h = Forward(hook[w], a, 0)
  OBVIOUS
<1>6. /\ a \in 0 .. LastTs /\ a < From(w) /\ anchor.ts \in Int /\ a <= anchor.ts /\ a <= a
  BY <1>1, <1>2, <1>5, GenerationAssumption DEF Ts, Anchors
<1>7. /\ h \in HookState /\ h.pc = "forward" /\ h.page = hook[w].page /\ h.at = a
      /\ h.cum = 0 /\ DOMAIN h.batch = {}
  BY <1>2, <1>5, <1>6, ForwardFields
<1>8. /\ anchor' \in Anchors /\ anchor'.ts = a /\ anchor'.source = "initial" /\ anchor'.val = 0
      /\ anchor' # NoAnchor
  BY <1>4, <1>5, <1>6, GenerationAssumption DEF Anchors
<1>9. hook' = [hook EXCEPT ![w] = h]
  BY <1>4, <1>5
<1> HIDE DEF at
<1>10. /\ hook'[w] = h /\ From(w)' = From(w) /\ \A t : Settled(t)' = Settled(t)
       /\ hook' \in [Fetches -> HookState] /\ PageKept'
       /\ \A q \in Fetches \ {w} : ForwardSound(q)' /\ OlderSound(q)'
  BY <1>1, <1>2, <1>7, <1>8, <1>9, WorkStep
<1>11. GenTyped'
  BY <1>1, <1>8, <1>10 DEF GenInv, GenTyped
<1>12. Unwritten'
  <2>1. \A t \in Ts : t <= a => t <= anchor.ts
    BY <1>6, GenerationAssumption DEF Ts
  <2> QED BY <1>1, <1>2, <1>6, <1>8, <2>1 DEF GenInv, Unwritten
<1>13. ForwardReconciled'
  <2>1. ASSUME NEW t \in rows, Settled(t) PROVE FALSE
    <3>1. t < From(w) /\ anchor.ts < t
      BY <1>1, <1>2, <2>1, FromPage DEF GenInv, ForwardReconciled
    <3>2. t \in Ts
      BY DEF GenInv, GenTyped
    <3> QED BY <1>1, <1>2, <1>6, <3>1, <3>2, GenerationAssumption DEF Ts
  <2> QED BY <1>1, <1>10, <2>1 DEF ForwardReconciled
<1>14. Truth(a)' = 0
  <2>1. (GenTyped /\ anchor # NoAnchor => Truth(anchor.ts) = anchor.val)'
    BY TruthAtAnchor, PTL
  <2> QED BY <1>8, <1>11, <2>1
<1>15. ForwardSound(w)' /\ OlderSound(w)'
  BY <1>1, <1>2, <1>6, <1>7, <1>8, <1>10, <1>14, ForwardBegins
<1> QED BY <1>10, <1>11, <1>12, <1>13, <1>15 DEF GenInv

LEMMA DeriveOlderStep ==
  ASSUME GenInv, NEW w \in Fetches, DeriveOlder(w)
  PROVE  GenInv'
<1>1. /\ hook[w].pc = "anchored" /\ anchor.source # "initial"
      /\ rows' = rows /\ export' = export /\ anchor' = anchor /\ genLease' = genLease
  BY DEF DeriveOlder
<1>2. /\ anchor \in Anchors /\ anchor # NoAnchor /\ genLease = w
      /\ \A q \in Fetches \ {w} : hook[q].pc \notin Locked
      /\ hook[w] \in HookState /\ hook[w].pc # "idle" /\ Older(w) \in SUBSET Ts
  BY <1>1, OneInside DEF GenInv, GenTyped, PageKept, Locked, Older
<1>3. PICK b : b = [t \in Older(w) |-> anchor.val - SumOver({u \in Older(w) : u > t})]
  OBVIOUS
<1>4. b \in [Older(w) -> Int]
  <2>1. \A t \in Older(w) : SumOver({u \in Older(w) : u > t}) \in Int
    BY <1>2, SlotSets
  <2> QED BY <1>2, <1>3, <2>1 DEF Anchors
<1>5. ASSUME anchor.ts \in Older(w) PROVE b[anchor.ts] = anchor.val
  <2>1. {u \in Older(w) : u > anchor.ts} = {}
    <3>1. \A u \in Ts : ~(u <= anchor.ts /\ u > anchor.ts)
      BY <1>2, GenerationAssumption DEF Anchors, Ts
    <3> QED BY <1>2, <3>1 DEF Older
  <2>2. b[anchor.ts] = anchor.val - 0
    BY <1>3, <1>5, <2>1, SlotSums
  <2> QED BY <1>2, <2>2 DEF Anchors
<1>6. PICK h : h = [hook[w] EXCEPT !.pc = "older", !.batch = b]
  OBVIOUS
<1>7. h \in HookState /\ h.pc = "older" /\ h.page = hook[w].page /\ h.batch = b
  <2>1. b \in Batches BY <1>2, <1>4 DEF Batches
  <2> QED BY <1>2, <1>6, <2>1 DEF HookState, Locked
<1>8. hook' = [hook EXCEPT ![w] = h]
  BY <1>3, <1>6 DEF DeriveOlder
<1>9. /\ hook'[w] = h /\ \A t : Settled(t)' = Settled(t)
      /\ hook' \in [Fetches -> HookState] /\ PageKept'
      /\ \A q \in Fetches \ {w} : ForwardSound(q)' /\ OlderSound(q)'
  BY <1>1, <1>2, <1>7, <1>8, WorkStep
<1>10. GenTyped' /\ Unwritten' /\ ForwardReconciled'
  BY <1>1, <1>9 DEF GenInv, GenTyped, Unwritten, ForwardReconciled
<1>11. ForwardSound(w)' /\ OlderSound(w)'
  BY <1>1, <1>4, <1>5, <1>7, <1>9 DEF ForwardSound, OlderSound, Older
<1> QED BY <1>9, <1>10, <1>11 DEF GenInv

LEMMA BatchTyped ==
  ASSUME NEW b \in Batches
  PROVE  DOMAIN b \in SUBSET Ts /\ \A t \in DOMAIN b : b[t] \in Int
BY DEF Batches

\* The values a batch holds are written over those of its rows.
LEMMA Written ==
  ASSUME GenInv, NEW b \in Batches, DOMAIN b \subseteq rows, export' = WithValues(b)
  PROVE  /\ export' \in [Ts -> Int \cup {NoValue}]
         /\ \A t \in Ts \ rows : export'[t] = NoValue
         /\ \A t \in DOMAIN b : export'[t] = b[t]
         /\ \A t \in Ts \ DOMAIN b : export'[t] = export[t]
BY BatchTyped DEF WithValues, GenInv, GenTyped

LEMMA WriteOlderStep ==
  ASSUME GenInv, NEW w \in Fetches, WriteOlder(w)
  PROVE  GenInv'
<1>1. /\ hook[w].pc = "older" /\ rows' = rows /\ anchor' = anchor /\ genLease' = genLease
      /\ export' = WithValues(hook[w].batch)
  BY DEF WriteOlder
<1>2. /\ anchor \in Anchors /\ anchor # NoAnchor /\ genLease = w /\ anchor.source # "initial"
      /\ \A q \in Fetches \ {w} : hook[q].pc \notin Locked
      /\ hook[w] \in HookState /\ hook[w].pc # "idle" /\ From(w) \in Ts
      /\ hook[w].batch \in Batches /\ DOMAIN hook[w].batch \subseteq {u \in rows : u <= anchor.ts}
      /\ anchor.ts \in DOMAIN hook[w].batch => hook[w].batch[anchor.ts] = anchor.val
  BY <1>1, OneInside, FromPage DEF GenInv, GenTyped, PageKept, Locked, OlderSound, HookState
<1>3. /\ export' \in [Ts -> Int \cup {NoValue}]
      /\ \A t \in Ts \ rows : export'[t] = NoValue
      /\ \A t \in DOMAIN hook[w].batch : export'[t] = hook[w].batch[t]
      /\ \A t \in Ts \ DOMAIN hook[w].batch : export'[t] = export[t]
  BY <1>1, <1>2, Written
<1>4. anchor.ts \in 0 .. LastTs /\ anchor.val \in Int /\ anchor.ts <= anchor.ts /\ anchor.ts \in Int
  BY <1>2, GenerationAssumption DEF Anchors
<1>5. PICK h : h = Forward(hook[w], anchor.ts, anchor.val)
  OBVIOUS
<1>6. /\ h \in HookState /\ h.pc = "forward" /\ h.page = hook[w].page /\ h.at = anchor.ts
      /\ h.cum = anchor.val /\ DOMAIN h.batch = {}
  BY <1>2, <1>4, <1>5, ForwardFields
<1>7. hook' = [hook EXCEPT ![w] = h]
  BY <1>5 DEF WriteOlder
<1>8. /\ hook'[w] = h /\ From(w)' = From(w) /\ \A t : Settled(t)' = Settled(t)
      /\ hook' \in [Fetches -> HookState] /\ PageKept'
      /\ \A q \in Fetches \ {w} : ForwardSound(q)' /\ OlderSound(q)'
  BY <1>1, <1>2, <1>6, <1>7, WorkStep
<1>9. GenTyped'
  BY <1>1, <1>3, <1>8 DEF GenInv, GenTyped
<1>10. Unwritten'
  BY <1>1, <1>2, <1>3 DEF GenInv, Unwritten
<1>11. ForwardReconciled'
  <2>1. ASSUME NEW t \in rows, anchor.ts < t PROVE export'[t] = export[t]
    <3>1. t \in Ts /\ t \in Int BY DEF GenInv, GenTyped, Ts
    <3>2. t \notin DOMAIN hook[w].batch BY <1>2, <1>4, <2>1, <3>1
    <3> QED BY <1>3, <3>1, <3>2
  <2> QED BY <1>1, <1>8, <2>1 DEF GenInv, ForwardReconciled
<1>12. Truth(anchor.ts)' = anchor.val
  <2>1. (GenTyped /\ anchor # NoAnchor => Truth(anchor.ts) = anchor.val)'
    BY TruthAtAnchor, PTL
  <2> QED BY <1>1, <1>2, <1>9, <2>1
<1>13. ForwardSound(w)' /\ OlderSound(w)'
  <2>1. PICK a, v : a = anchor.ts /\ v = anchor.val
    OBVIOUS
  <2>2. Truth(a)' = v
    BY <1>1, <1>12, <2>1 DEF Truth
  <2>3. anchor'.ts <= a /\ a \in 0 .. LastTs /\ hook'[w].at = a /\ hook'[w].cum = v
    BY <1>1, <1>4, <1>6, <1>8, <2>1
  <2> QED BY <1>1, <1>2, <1>4, <1>6, <1>8, <2>1, <2>2, <2>3, ForwardBegins
<1> QED BY <1>8, <1>9, <1>10, <1>11, <1>13 DEF GenInv

LEMMA FlushBatchStep ==
  ASSUME GenInv, NEW w \in Fetches, FlushBatch(w)
  PROVE  GenInv'
<1>1. /\ hook[w].pc = "forward" /\ hook[w].at = LastTs /\ rows' = rows /\ anchor' = anchor
      /\ genLease' = NoFetch /\ export' = WithValues(hook[w].batch)
      /\ hook' = [hook EXCEPT ![w] = AtRest]
  BY DEF FlushBatch
<1>2. /\ anchor \in Anchors /\ anchor # NoAnchor /\ genLease = w
      /\ \A q \in Fetches \ {w} : hook[q].pc \notin Locked
      /\ hook[w] \in HookState /\ hook[w].pc # "idle" /\ From(w) \in Ts /\ ForwardSound(w)
      /\ hook[w].batch \in Batches /\ hook \in [Fetches -> HookState]
  BY <1>1, OneInside, FromPage DEF GenInv, GenTyped, PageKept, Locked, HookState
<1>3. DOMAIN hook[w].batch \subseteq {u \in rows : anchor.ts < u}
  BY <1>1, <1>2 DEF ForwardSound
<1>4. /\ export' \in [Ts -> Int \cup {NoValue}]
      /\ \A t \in Ts \ rows : export'[t] = NoValue
      /\ \A t \in DOMAIN hook[w].batch : export'[t] = hook[w].batch[t]
      /\ \A t \in Ts \ DOMAIN hook[w].batch : export'[t] = export[t]
  BY <1>1, <1>2, <1>3, Written
<1>5. /\ hook' \in [Fetches -> HookState] /\ hook'[w].pc = "idle" /\ hook'[w].page = {}
      /\ \A q \in Fetches \ {w} : hook'[q] = hook[q]
  BY <1>1, <1>2, AtRestTyped
<1>6. GenTyped'
  BY <1>1, <1>4, <1>5 DEF GenInv, GenTyped
<1>7. PageKept' /\ \A q \in Fetches : ForwardSound(q)' /\ OlderSound(q)'
  BY <1>1, <1>2, <1>5 DEF GenInv, PageKept, ForwardSound, OlderSound, Locked
<1>8. \A t \in Ts : t <= anchor.ts => export'[t] = export[t]
  <2>1. anchor.ts \in Int BY <1>2, GenerationAssumption DEF Anchors
  <2>2. \A t \in Ts : t <= anchor.ts => ~(anchor.ts < t) BY <2>1, GenerationAssumption DEF Ts
  <2> QED BY <1>3, <1>4, <2>2
<1>9. Unwritten'
  <2>1. \A t \in Ts : t = anchor.ts => t <= anchor.ts BY GenerationAssumption DEF Ts
  <2> QED BY <1>1, <1>2, <1>8, <2>1 DEF GenInv, Unwritten
<1>10. ASSUME NEW t \in rows, Settled(t)'
       PROVE  /\ anchor.source = "initial" => anchor.ts < t
              /\ anchor.ts < t => export'[t] = Truth(t)
  <2>1. Clear(w, t)
    BY <1>5, <1>10 DEF Settled, Clear, From
  <2>2. t \in Ts /\ t \in Int /\ From(w) \in Int /\ anchor.ts \in Int /\ t <= LastTs
    BY <1>2, GenerationAssumption DEF GenInv, GenTyped, Ts, Anchors
  <2>3. CASE t < From(w)
    <3>1. Settled(t) BY <1>2, <2>1, <2>3, FromPage
    <3>2. /\ anchor.source = "initial" => anchor.ts < t
          /\ anchor.ts < t => export[t] = Truth(t)
      BY <3>1 DEF GenInv, ForwardReconciled, Truth
    <3>3. CASE t \in DOMAIN hook[w].batch
      BY <1>1, <1>2, <1>4, <2>1, <3>2, <3>3 DEF ForwardSound
    <3>4. CASE t \notin DOMAIN hook[w].batch
      BY <1>4, <2>2, <3>2, <3>4
    <3> QED BY <3>3, <3>4
  <2>4. CASE From(w) <= t
    <3>1. anchor.source = "initial" => anchor.ts < t
      BY <1>1, <1>2, <2>2, <2>4 DEF ForwardSound
    <3>2. ASSUME anchor.ts < t PROVE t \in DOMAIN hook[w].batch
      BY <1>1, <1>2, <2>1, <2>2, <2>4, <3>2 DEF ForwardSound
    <3> QED BY <1>1, <1>2, <1>4, <2>1, <3>1, <3>2 DEF ForwardSound
  <2> QED BY <2>2, <2>3, <2>4
<1>11. ForwardReconciled'
  BY <1>1, <1>2, <1>10 DEF ForwardReconciled, Truth
<1> QED BY <1>6, <1>7, <1>9, <1>11 DEF GenInv

LEMMA TruthGrows ==
  ASSUME GenTyped, anchor # NoAnchor, NEW a \in Int, NEW t \in Int, anchor.ts <= a, a <= t
  PROVE  Truth(t) = Truth(a) + SumOver({u \in rows : a < u /\ u <= t}) /\ Truth(a) \in Int
<1> DEFINE A == {u \in rows : anchor.ts < u /\ u <= a}
           B == {u \in rows : a < u /\ u <= t}
           C == {u \in rows : anchor.ts < u /\ u <= t}
<1>1. anchor.ts \in Int /\ anchor.val \in Int /\ rows \subseteq Int /\ rows \in SUBSET Ts
  BY GenerationAssumption DEF GenTyped, Anchors, Ts
<1>2. A \cup B = C /\ A \cap B = {}
  <2>1. \A u \in Int : /\ ~(u <= a /\ a < u)
                        /\ anchor.ts < u /\ u <= t <=> (anchor.ts < u /\ u <= a) \/ (a < u /\ u <= t)
    BY <1>1
  <2> QED BY <1>1, <2>1, Zenon
<1>3. A \in SUBSET Ts /\ B \in SUBSET Ts
  BY <1>1
<1>4. SumOver(C) = SumOver(A) + SumOver(B) /\ SumOver(A) \in Int /\ SumOver(B) \in Int
  <2> HIDE DEF A, B, C
  <2> QED BY <1>2, <1>3, SlotSums, SlotSets
<1>5. Truth(t) = anchor.val + SumOver(C) /\ Truth(a) = anchor.val + SumOver(A)
  BY DEF Truth
<1> HIDE DEF A, C
<1>6. Truth(t) = Truth(a) + SumOver(B) /\ Truth(a) \in Int
  <2>1. PICK x, y, z : x = SumOver(A) /\ y = SumOver(B) /\ z = SumOver(C) OBVIOUS
  <2> HIDE DEF B
  <2> QED BY <1>1, <1>4, <1>5, <2>1
<1> QED BY <1>6

LEMMA ReadSliceStep ==
  ASSUME GenInv, NEW w \in Fetches, ReadSlice(w)
  PROVE  GenInv'
<1>1. PICK at, to, slice, b, c :
        /\ at = hook[w].at /\ to = Min({at + SliceSpan, LastTs})
        /\ slice = {t \in rows : at < t /\ t <= to}
        /\ c = hook[w].cum + SumOver(slice)
        /\ b = [t \in DOMAIN hook[w].batch \cup slice |->
                  IF t \in slice THEN hook[w].cum + SumOver({u \in slice : u <= t}) ELSE hook[w].batch[t]]
  OBVIOUS
<1>2. PICK h : h = [hook[w] EXCEPT !.at = to, !.cum = c, !.batch = b]
  OBVIOUS
<1>3. /\ hook[w].pc = "forward" /\ at < LastTs /\ rows' = rows /\ export' = export /\ anchor' = anchor
      /\ genLease' = genLease /\ hook' = [hook EXCEPT ![w] = h]
  BY <1>1, <1>2 DEF ReadSlice
<1>4. /\ anchor \in Anchors /\ anchor # NoAnchor /\ genLease = w /\ GenTyped
      /\ \A q \in Fetches \ {w} : hook[q].pc \notin Locked
      /\ hook[w] \in HookState /\ hook[w].pc # "idle" /\ From(w) \in Ts /\ ForwardSound(w)
      /\ hook[w].batch \in Batches /\ hook[w].cum \in Int /\ at \in 0 .. LastTs
  BY <1>1, <1>3, OneInside, FromPage DEF GenInv, GenTyped, PageKept, Locked, HookState
<1>5. at \in Int /\ to \in Int /\ at < to /\ to <= LastTs /\ to \in 0 .. LastTs
  <2>1. PICK x : x = at + SliceSpan
    OBVIOUS
  <2>2. x \in Int /\ at < x /\ at \in Int /\ LastTs \in Int
    BY <1>4, <2>1, GenerationAssumption
  <2>3. to \in {x, LastTs} /\ to <= x /\ to <= LastTs
    <3>1. IsFiniteSet({x, LastTs}) 
      <4>1. IsFiniteSet({x} \cup {LastTs}) BY FS_AddElement, FS_Singleton
      <4>2. {x} \cup {LastTs} = {x, LastTs} OBVIOUS
      <4> QED BY <4>1, <4>2
    <3>2. to = Min({x, LastTs}) BY <1>1, <2>1
    <3> QED BY <2>2, <3>1, <3>2, Extremes
  <2> QED BY <1>3, <1>4, <2>2, <2>3, GenerationAssumption
<1>6. slice \in SUBSET Ts /\ slice \subseteq rows /\ rows \in SUBSET Ts
  BY <1>1, <1>4 DEF GenTyped
<1>7. \A t \in Int : SumOver({u \in slice : u <= t}) \in Int
  BY <1>6, SlotSets
<1>8. b \in Batches /\ c \in Int
  <2>1. DOMAIN b = DOMAIN hook[w].batch \cup slice
    BY <1>1
  <2>2. DOMAIN b \in SUBSET Ts
    BY <1>4, <1>6, <2>1, BatchTyped
  <2>3. \A t \in slice : hook[w].cum + SumOver({u \in slice : u <= t}) \in Int
    BY <1>4, <1>6, <1>7, GenerationAssumption DEF Ts
  <2>4. b \in [DOMAIN b -> Int]
    BY <1>1, <1>4, <2>3, BatchTyped
  <2>5. SumOver(slice) \in Int
    BY <1>6, SlotSets
  <2>6. b \in Batches
    BY <2>2, <2>4 DEF Batches
  <2>7. c \in Int
    BY <1>1, <1>4, <2>5
  <2> QED BY <2>6, <2>7
<1>9. /\ h \in HookState /\ h.pc = "forward" /\ h.page = hook[w].page /\ h.at = to
      /\ h.cum = c /\ h.batch = b
  BY <1>2, <1>3, <1>4, <1>5, <1>8 DEF HookState
<1>10. /\ hook'[w] = h /\ From(w)' = From(w) /\ \A t : Settled(t)' = Settled(t)
       /\ \A t : Clear(w, t)' = Clear(w, t)
       /\ hook' \in [Fetches -> HookState] /\ PageKept'
       /\ \A q \in Fetches \ {w} : ForwardSound(q)' /\ OlderSound(q)'
  BY <1>3, <1>4, <1>9, WorkStep
<1>11. GenTyped' /\ Unwritten' /\ ForwardReconciled'
  BY <1>3, <1>10 DEF GenInv, GenTyped, Unwritten, ForwardReconciled
<1>12. ASSUME NEW t \in Int, at < t, t <= to, Clear(w, t)
       PROVE  hook[w].cum + SumOver({u \in slice : u <= t}) = Truth(t)
  <2>1. Clear(w, at)
    <3>1. \A q \in Fetches \ {w} : hook[q].pc # "idle" => From(q) \in Int
      BY FromPage, GenerationAssumption DEF Ts
    <3>2. \A x \in Int : t < x => at < x
      BY <1>5, <1>12
    <3> QED BY <1>12, <3>1, <3>2 DEF Clear
  <2>2. hook[w].cum = Truth(at) /\ anchor.ts <= at
    BY <1>1, <1>3, <1>4, <2>1 DEF ForwardSound
  <2>3. {u \in slice : u <= t} = {u \in rows : at < u /\ u <= t}
    <3>1. \A u \in Int : u <= t => u <= to BY <1>5, <1>12
    <3>2. rows \subseteq Int BY <1>6, GenerationAssumption DEF Ts
    <3> QED BY <1>1, <3>1, <3>2, Zenon
  <2>4. at <= t BY <1>5, <1>12
  <2>5. Truth(t) = Truth(at) + SumOver({u \in rows : at < u /\ u <= t})
    BY <1>4, <1>5, <2>2, <2>4, TruthGrows
  <2> QED BY <2>2, <2>3, <2>5
<1>13. \A t : Truth(t)' = Truth(t)
  BY <1>3 DEF Truth
<1>14. anchor.ts \in Int /\ rows \subseteq Int
  BY <1>4, <1>6, GenerationAssumption DEF Anchors, Ts
<1>15. /\ anchor.ts <= at /\ DOMAIN hook[w].batch \subseteq {u \in rows : anchor.ts < u /\ u <= at}
  BY <1>1, <1>3, <1>4 DEF ForwardSound
<1>16. DOMAIN b \subseteq {u \in rows : anchor.ts < u /\ u <= to} /\ anchor.ts <= to
  <2>1. \A u \in Int : u <= at => u <= to
    BY <1>5
  <2>2. \A u \in Int : at < u => anchor.ts < u
    BY <1>5, <1>14, <1>15
  <2> QED BY <1>1, <1>5, <1>14, <1>15, <2>1, <2>2
<1>17. ASSUME NEW t \in rows, From(w) <= t, anchor.ts < t, t <= to, Clear(w, t) PROVE t \in DOMAIN b
  <2>1. CASE t <= at
    BY <1>1, <1>3, <1>4, <1>17, <2>1 DEF ForwardSound
  <2>2. CASE at < t
    BY <1>1, <1>17, <2>2
  <2> QED BY <1>5, <1>14, <2>1, <2>2
<1>18. ASSUME NEW t \in DOMAIN b, Clear(w, t) PROVE b[t] = Truth(t)
  <2>1. CASE t \in slice
    <3>1. t \in Int /\ at < t /\ t <= to BY <1>1, <1>14, <2>1
    <3> QED BY <1>1, <1>12, <1>18, <2>1, <3>1
  <2>2. CASE t \notin slice
    <3>1. t \in DOMAIN hook[w].batch /\ b[t] = hook[w].batch[t] BY <1>1, <1>18, <2>2
    <3> QED BY <1>3, <1>4, <1>18, <3>1 DEF ForwardSound
  <2> QED BY <2>1, <2>2
<1>19. ASSUME Clear(w, to) PROVE c = Truth(to)
  <2>1. {u \in slice : u <= to} = slice BY <1>1
  <2>2. to <= to BY <1>5
  <2> QED BY <1>1, <1>5, <1>12, <1>19, <2>1, <2>2
<1>20. anchor.source = "initial" => anchor.ts < From(w)
  BY <1>3, <1>4 DEF ForwardSound
<1>21. ForwardSound(w)' /\ OlderSound(w)'
  BY <1>3, <1>9, <1>10, <1>13, <1>16, <1>17, <1>18, <1>19, <1>20 DEF ForwardSound, OlderSound
<1> QED BY <1>10, <1>11, <1>21 DEF GenInv

LEMMA PersistPageStep ==
  ASSUME GenInv, NEW w \in Fetches, PersistPage(w)
  PROVE  GenInv'
<1>1. PICK p \in PagesOf :
        /\ \/ hook[w].pc = "idle"
           \/ hook[w].pc = "failed" /\ p = hook[w].page
        /\ rows' = rows \cup p
        /\ export' = [t \in Ts |-> IF t \in p THEN NoValue ELSE export[t]]
        /\ hook' = [hook EXCEPT ![w] = [AtRest EXCEPT !.pc = "waiting", !.page = p]]
        /\ anchor' = anchor /\ genLease' = genLease
  BY DEF PersistPage
<1>2. p \in SUBSET Ts /\ p # {} /\ GenTyped /\ PageKept
  BY GenerationAssumption DEF GenInv
<1>3. Min(p) \in p /\ Min(p) \in Int /\ \A t \in p : Min(p) <= t
  BY <1>2, SlotSets
<1>4. PICK h : h = [AtRest EXCEPT !.pc = "waiting", !.page = p]
  OBVIOUS
<1>5. h \in HookState /\ h.pc = "waiting" /\ h.page = p
  BY <1>2, <1>4, AtRestTyped
<1>6. /\ hook' \in [Fetches -> HookState] /\ hook'[w] = h
      /\ \A q \in Fetches \ {w} : hook'[q] = hook[q]
  BY <1>1, <1>4, <1>5 DEF GenInv, GenTyped
<1>7. GenTyped'
  BY <1>1, <1>2, <1>6 DEF GenTyped
<1>8. PageKept'
  BY <1>1, <1>2, <1>5, <1>6 DEF PageKept, Locked
<1>9. Unwritten'
  BY <1>1 DEF GenInv, Unwritten
<1>10. From(w)' = Min(p) /\ \A q \in Fetches \ {w} : From(q)' = From(q)
  BY <1>5, <1>6 DEF From
<1>11. hook[w].pc # "idle" => From(w) = Min(p)
  BY <1>1 DEF From
<1>12. ASSUME NEW t \in Ts, t < Min(p)
       PROVE  /\ Truth(t)' = Truth(t) /\ export'[t] = export[t] /\ (t \in rows' <=> t \in rows)
  <2>1. t \notin p /\ t \in Int
    BY <1>3, <1>12, GenerationAssumption DEF Ts
  <2>2. {u \in rows \cup p : anchor.ts < u /\ u <= t} = {u \in rows : anchor.ts < u /\ u <= t}
    <3>1. \A u \in p : ~(u <= t)
      <4>1. p \subseteq Int BY <1>2, GenerationAssumption DEF Ts
      <4> QED BY <1>3, <1>12, <2>1, <4>1
    <3> QED BY <3>1, Zenon
  <2> QED BY <1>1, <2>1, <2>2 DEF Truth
<1>13. \A t : Settled(t)' => Settled(t) /\ t < Min(p)
  BY <1>5, <1>6, <1>10, <1>11 DEF Settled
<1>14. ForwardReconciled'
  <2> SUFFICES ASSUME NEW t \in rows', Settled(t)'
               PROVE  /\ anchor # NoAnchor
                      /\ anchor.source = "initial" => anchor.ts < t
                      /\ anchor.ts < t => export'[t] = Truth(t)'
    BY <1>1 DEF ForwardReconciled, Truth
  <2>1. t \in Ts /\ Settled(t) /\ t < Min(p)
    BY <1>7, <1>13 DEF GenTyped
  <2>2. t \in rows /\ export'[t] = export[t] /\ Truth(t)' = Truth(t)
    BY <1>12, <2>1
  <2> QED BY <2>1, <2>2 DEF GenInv, ForwardReconciled, Truth
<1>15. ASSUME NEW q \in Fetches PROVE ForwardSound(q)' /\ OlderSound(q)'
  <2>1. CASE q = w
    BY <1>5, <1>6, <2>1 DEF ForwardSound, OlderSound
  <2>2. CASE q # w
    <3>1. hook'[q] = hook[q] /\ From(q)' = From(q) /\ anchor' = anchor /\ rows \subseteq rows'
      BY <1>1, <1>6, <1>10, <2>2
    <3>2. OlderSound(q)'
      BY <3>1 DEF GenInv, OlderSound
    <3>3. \A t : Clear(q, t)' => Clear(q, t) /\ t < Min(p)
      BY <1>5, <1>6, <1>10, <1>11, <2>2 DEF Clear
    <3>4. ASSUME hook[q].pc = "forward" PROVE ForwardSound(q)'
      <4>1. ForwardSound(q) /\ hook[q].at \in 0 .. LastTs /\ anchor \in Anchors /\ anchor # NoAnchor
        BY <1>2, <3>4 DEF GenInv, GenTyped, PageKept, HookState, Locked
      <4>2. ASSUME NEW t \in rows', From(q) <= t, anchor.ts < t, t <= hook[q].at, Clear(q, t)'
            PROVE  t \in DOMAIN hook[q].batch
        <5>1. t \in Ts /\ Clear(q, t) /\ t < Min(p) BY <1>7, <3>3, <4>2 DEF GenTyped
        <5>2. t \in rows BY <1>12, <5>1
        <5> QED BY <3>4, <4>1, <4>2, <5>1, <5>2 DEF ForwardSound
      <4>3. ASSUME NEW t \in DOMAIN hook[q].batch, Clear(q, t)'
            PROVE  hook[q].batch[t] = Truth(t)'
        <5>1. t \in Ts /\ Clear(q, t) /\ t < Min(p)
          BY <1>2, <3>3, <3>4, <4>1, <4>3 DEF ForwardSound, GenTyped
        <5> QED BY <1>12, <3>4, <4>1, <5>1 DEF ForwardSound
      <4>4. ASSUME NEW a, a = hook[q].at, Clear(q, a)' PROVE hook[q].cum = Truth(a)'
        <5>1. Clear(q, a) /\ a < Min(p) BY <3>3, <4>4
        <5>2. hook[q].cum = Truth(a) BY <3>4, <4>1, <4>4, <5>1 DEF ForwardSound
        <5>3. CASE a \in Ts
          BY <1>12, <5>1, <5>2, <5>3
        <5>4. CASE a \notin Ts
          <6>1. a = 0 /\ anchor.ts \in 0 .. LastTs
            BY <4>1, <4>4, <5>4, GenerationAssumption DEF Ts, Anchors
          <6>2. {u \in rows : anchor.ts < u /\ u <= 0} = {} /\ {u \in rows' : anchor.ts < u /\ u <= 0} = {}
            <7>1. \A u \in Ts : ~(u <= 0) BY GenerationAssumption DEF Ts
            <7>2. rows \subseteq Ts /\ rows' \subseteq Ts BY <1>2, <1>7 DEF GenTyped
            <7> QED BY <7>1, <7>2, Zenon
          <6> QED BY <1>1, <5>2, <6>1, <6>2 DEF Truth
        <5> QED BY <5>3, <5>4
      <4>5. \A a : a = hook[q].at => (Clear(q, a)' => hook[q].cum = Truth(a)')
        BY <4>4
      <4> QED BY <3>1, <3>4, <4>1, <4>2, <4>3, <4>5 DEF ForwardSound
    <3> QED BY <3>1, <3>2, <3>4 DEF ForwardSound
  <2> QED BY <2>1, <2>2
<1> QED BY <1>7, <1>8, <1>9, <1>14, <1>15 DEF GenInv

LEMMA HookEndsStep ==
  ASSUME GenInv, NEW w \in Fetches, HookFails(w) \/ HookCrashes(w)
  PROVE  GenInv'
<1>1. /\ hook[w].pc \in Locked \cup {"waiting"} /\ rows' = rows /\ export' = export /\ anchor' = anchor
      /\ hook' = [hook EXCEPT ![w] = [AtRest EXCEPT !.pc = "failed", !.page = hook[w].page]]
      /\ genLease' = genLease \/ (hook[w].pc \in Locked /\ genLease' = NoFetch)
  BY DEF HookFails, HookCrashes
<1>2. PICK h : h = [AtRest EXCEPT !.pc = "failed", !.page = hook[w].page]
  OBVIOUS
<1>3. hook[w].page \in SUBSET Ts
  BY DEF GenInv, GenTyped, HookState
<1>4. h \in HookState /\ h.pc = "failed" /\ h.page = hook[w].page
  BY <1>2, <1>3, AtRestTyped
<1>5. hook[w].pc # "idle" /\ h.pc # "idle" /\ h.pc \notin Locked
  BY <1>1, <1>4 DEF Locked
<1>6. /\ hook' \in [Fetches -> HookState] /\ hook'[w] = h
      /\ \A q \in Fetches \ {w} : hook'[q] = hook[q]
  BY <1>1, <1>2, <1>4 DEF GenInv, GenTyped
<1>7. \A q \in Fetches : From(q)' = From(q) /\ (hook'[q].pc = "idle" <=> hook[q].pc = "idle")
  BY <1>4, <1>5, <1>6 DEF From
<1>8. \A t : Settled(t)' = Settled(t)
  BY <1>7 DEF Settled
<1>9. \A q \in Fetches : \A t : Clear(q, t)' = Clear(q, t)
  BY <1>7 DEF Clear
<1>10. \A q \in Fetches \ {w} : hook[q].pc \in Locked => genLease' = q
  BY <1>1 DEF GenInv, PageKept
<1>11. GenTyped' /\ PageKept' /\ Unwritten' /\ ForwardReconciled'
  <2>1. GenTyped' BY <1>1, <1>6 DEF GenInv, GenTyped
  <2>2. PageKept' BY <1>1, <1>4, <1>5, <1>6, <1>10 DEF GenInv, PageKept
  <2>3. Unwritten' BY <1>1 DEF GenInv, Unwritten
  <2>4. ForwardReconciled' BY <1>1, <1>8 DEF GenInv, ForwardReconciled
  <2> QED BY <2>1, <2>2, <2>3, <2>4
<1>12. \A t : Truth(t)' = Truth(t)
  BY <1>1 DEF Truth
<1>13. ASSUME NEW q \in Fetches PROVE ForwardSound(q)' /\ OlderSound(q)'
  <2>1. CASE q = w
    BY <1>4, <1>6, <2>1 DEF ForwardSound, OlderSound
  <2>2. CASE q # w
    <3>1. hook'[q] = hook[q] /\ From(q)' = From(q) /\ ForwardSound(q) /\ OlderSound(q)
      BY <1>6, <1>7, <2>2 DEF GenInv
    <3>2. OlderSound(q)'
      BY <1>1, <3>1 DEF OlderSound
    <3>3. PICK a : a = hook[q].at
      OBVIOUS
    <3>4. Clear(q, a)' = Clear(q, a) /\ Truth(a)' = Truth(a)
      BY <1>9, <1>12
    <3>5. ForwardSound(q)'
      BY <1>1, <1>9, <1>12, <3>1, <3>3, <3>4 DEF ForwardSound
    <3> QED BY <3>2, <3>5
  <2> QED BY <2>1, <2>2
<1> QED BY <1>11, <1>13 DEF GenInv

LEMMA GenStep == GenInv /\ [GenNext]_genVars => GenInv'
<1> SUFFICES ASSUME GenInv, [GenNext]_genVars PROVE GenInv'
  OBVIOUS
<1>1. ASSUME NEW w \in Fetches,
             \/ PersistPage(w) \/ TakeLease(w) \/ ContinueForward(w) \/ MoveAnchorBack(w)
             \/ DeriveOlder(w) \/ WriteOlder(w) \/ ReadSlice(w) \/ FlushBatch(w)
             \/ HookFails(w) \/ HookCrashes(w)
      PROVE  GenInv'
  BY <1>1, PersistPageStep, TakeLeaseStep, ContinueForwardStep, MoveAnchorBackStep,
     DeriveOlderStep, WriteOlderStep, ReadSliceStep, FlushBatchStep, HookEndsStep
<1>2. CASE rows' = rows /\ export' = export /\ anchor' = anchor /\ hook' = hook
           /\ (genLease' = genLease \/ (GenLeaseExpires /\ genLease' = NoFetch))
  <2>1. GenTyped' /\ Unwritten' /\ ForwardReconciled'
    BY <1>2 DEF GenInv, GenTyped, Unwritten, ForwardReconciled, Settled, From
  <2>2. PageKept'
    BY <1>2 DEF GenInv, PageKept, GenLeaseExpires
  <2>3. \A w \in Fetches : ForwardSound(w)' /\ OlderSound(w)'
    BY <1>2 DEF GenInv, ForwardSound, OlderSound, Clear, From, Truth
  <2> QED BY <2>1, <2>2, <2>3 DEF GenInv
<1> QED BY <1>1, <1>2 DEF GenNext, GenLeaseExpires, genVars

(* The rows, the anchor and the hook's locals are well formed, and the run   *)
(* inside the hook holds the lease, for any slots, pages and number of runs  *)
(* (ingest/generation/hook.go).                                              *)
THEOREM GenerationTypeCorrect == GenSpec => []GenerationTypeOK
<1>1. GenInv => GenerationTypeOK
  BY GenerationAssumption DEF GenInv, GenTyped, PageKept, GenerationTypeOK, HookState, Locked
<1>2. GenSpec => []GenInv
  BY GenInitInv, GenStep, PTL DEF GenSpec
<1> QED BY <1>1, <1>2, PTL

(* A row behind which no page waits for its hook holds the anchor's value    *)
(* plus every interval between the anchor and itself, whatever the intervals *)
(* and however pages, backfills, failures, crashes and retries interleave    *)
(* (ingest/generation/accumulate.go, hook.go: recomputeForward).             *)
THEOREM ForwardReconciledCorrect == GenSpec => []ForwardReconciled
<1>1. GenInv => ForwardReconciled
  BY DEF GenInv
<1>2. GenSpec => []GenInv
  BY GenInitInv, GenStep, PTL DEF GenSpec
<1> QED BY <1>1, <1>2, PTL

(***************************************************************************)
(* The readings of a meter                                                 *)
(***************************************************************************)
(* Every reading that shows the register at t shows what one of the meters   *)
(* present at t had counted: p is the instant it was put in, -1 the first    *)
(* meter's, F its index then.                                                *)
Replacements == swaps \cup {-1}
Used(t) == IF t = -1 THEN 0 ELSE used[t]
Reads(F, p, t) == F[p] + Used(t) - Used(p)
Metering(t) == {p \in Replacements : p <= t /\ \A r \in swaps : ~(p < r /\ r < t)}
Showing(F, t) == {Blank} \cup {Reads(F, p, t) : p \in Metering(t)}
Shows(F) ==
  /\ F[-1] = 0
  /\ \A r \in swaps : stored["reset"][r] \in {F[r], Blank}
  /\ \A k \in Snapshots : /\ \A t \in DOMAIN stored[k] : stored[k][t] \in Showing(F, t)
                          /\ \A t \in DOMAIN late[k] : late[k][t] \in Showing(F, t)
  /\ \A p \in Replacements : (\A r \in swaps : r <= p) => index = Reads(F, p, instant - 1)
MeterTyped ==
  /\ instant \in 0..(LastInstant + 1) /\ index \in Nat /\ flaws \in 0..MaxFlaws
  /\ DOMAIN used = 0..(instant - 1)
  /\ \A t \in 0..(instant - 1) : used[t] \in Nat
  /\ \A t1, t2 \in 0..(instant - 1) : t1 <= t2 => used[t1] <= used[t2]
  /\ swaps \subseteq 1..(instant - 1)
  /\ DOMAIN stored = Kinds /\ DOMAIN late = Kinds
  /\ DOMAIN stored["reset"] = swaps /\ DOMAIN late["reset"] = {}
  /\ \A k \in Snapshots :
       /\ DOMAIN stored[k] \subseteq Due[k] \cap 0..(instant - 1)
       /\ DOMAIN late[k] \subseteq Due[k] \cap ({instant - 1} \ DOMAIN stored[k])
MeterInv ==
  /\ MeterTyped
  /\ \E F \in [Replacements -> FirstIndexes \cup {0}] : Shows(F)

LEMMA EmptyDomain == DOMAIN <<>> = {}
OBVIOUS

LEMMA MeterNumbers ==
  /\ Usage \subseteq Nat /\ FirstIndexes \cup {0} \subseteq Nat
  /\ \A k \in Snapshots : Due[k] \subseteq Nat /\ Tolerance[k] \in Nat
BY MeterAssumption

LEMMA MeterInitial == MeterInit => MeterInv
<1> SUFFICES ASSUME MeterInit PROVE MeterInv
  OBVIOUS
<1> USE MeterAssumption
<1>0. 0..(0 - 1) = {} OBVIOUS
<1>1. MeterTyped
  <2>1. DOMAIN stored = Kinds /\ DOMAIN late = Kinds /\ \A k \in Kinds : DOMAIN stored[k] = {} /\ DOMAIN late[k] = {}
    BY EmptyDomain DEF MeterInit
  <2>2. DOMAIN used = {} /\ swaps = {} /\ instant = 0 /\ index = 0 /\ flaws = 0
    BY EmptyDomain DEF MeterInit
  <2>3. "reset" \in Kinds /\ \A k \in Snapshots : k \in Kinds BY DEF Kinds
  <2> QED BY <1>0, <2>1, <2>2, <2>3 DEF MeterTyped
<1>2. Shows([p \in Replacements |-> 0])
  <2>1. \A k \in Snapshots : DOMAIN stored[k] = {} /\ DOMAIN late[k] = {}
    BY EmptyDomain DEF MeterInit, Kinds
  <2>2. swaps = {} /\ Replacements = {-1} /\ index = 0 /\ instant - 1 = -1 BY DEF MeterInit, Replacements
  <2> QED BY <2>1, <2>2 DEF Shows, Reads, Used
<1> QED BY <1>1, <1>2 DEF MeterInv
(* What an instant adds to the readings: the reading taken at it, and those  *)
(* that were late; every reading kept stays as it is.                        *)
Adds(shown, resetRow) ==
  /\ DOMAIN stored' = Kinds /\ DOMAIN late' = Kinds
  /\ DOMAIN stored'["reset"] = DOMAIN resetRow \cup swaps /\ DOMAIN late'["reset"] = {}
  /\ \A t \in DOMAIN stored'["reset"] :
       stored'["reset"][t] = IF t \in DOMAIN resetRow THEN resetRow[t] ELSE stored["reset"][t]
  /\ \A k \in Snapshots :
       /\ DOMAIN stored[k] \cup DOMAIN late[k] \subseteq DOMAIN stored'[k]
       /\ DOMAIN stored'[k] \subseteq DOMAIN stored[k] \cup DOMAIN late[k] \cup (Due[k] \cap {instant})
       /\ DOMAIN late'[k] \subseteq (Due[k] \cap {instant}) \ DOMAIN stored'[k]
       /\ \A t \in DOMAIN stored'[k] :
            \/ t \in DOMAIN stored[k] /\ stored'[k][t] = stored[k][t]
            \/ t \in DOMAIN late[k] /\ t \notin DOMAIN stored[k] /\ stored'[k][t] = late[k][t]
            \/ t = instant /\ t \notin DOMAIN stored[k] \cup DOMAIN late[k]
                           /\ stored'[k][t] \in shown \cup {Blank}
       /\ \A t \in DOMAIN late'[k] : late'[k][t] \in shown
  /\ flaws' \in 0..MaxFlaws

LEMMA ReadingsTaken ==
  ASSUME MeterTyped, NEW shown, NEW resetRow, TakeReadings(shown, resetRow)
  PROVE  Adds(shown, resetRow)
<1> DEFINE due == {k \in Snapshots : instant \in Due[k]}
<1>1. PICK value \in [due -> shown], fate \in [due -> {"stored", "blank", "lost", "late"}] :
        LET arriving(k) ==
              IF k = "reset" THEN resetRow
              ELSE IF k \in due /\ fate[k] = "stored" THEN TakenNow(value[k])
              ELSE IF k \in due /\ fate[k] = "blank" THEN TakenNow(Blank) ELSE <<>>
        IN /\ flaws' = flaws + Cardinality({k \in due : fate[k] # "stored"})
           /\ flaws' <= MaxFlaws
           /\ stored' = [k \in Kinds |-> Joined(arriving(k), Joined(late[k], stored[k]))]
           /\ late' = [k \in Kinds |-> IF k \in due /\ fate[k] = "late" THEN TakenNow(value[k]) ELSE <<>>]
  BY DEF TakeReadings
<1> DEFINE arriving(k) ==
             IF k = "reset" THEN resetRow
             ELSE IF k \in due /\ fate[k] = "stored" THEN TakenNow(value[k])
             ELSE IF k \in due /\ fate[k] = "blank" THEN TakenNow(Blank) ELSE <<>>
<1>2. /\ stored' = [k \in Kinds |-> Joined(arriving(k), Joined(late[k], stored[k]))]
      /\ late' = [k \in Kinds |-> IF k \in due /\ fate[k] = "late" THEN TakenNow(value[k]) ELSE <<>>]
  BY <1>1
<1>3. "reset" \in Kinds /\ "reset" \notin Snapshots /\ \A k \in Snapshots : k \in Kinds /\ k # "reset"
  BY DEF Kinds, Snapshots
<1>4. flaws' \in 0..MaxFlaws
  <2>1. IsFiniteSet({k \in due : fate[k] # "stored"})
    <3>1. IsFiniteSet(Snapshots)
      <4>1. Snapshots = ({"billing"} \cup {"load_profile"}) \cup {"daily"} BY DEF Snapshots
      <4>2. IsFiniteSet({"billing"}) /\ IsFiniteSet({"load_profile"}) /\ IsFiniteSet({"daily"}) BY FS_Singleton
      <4>3. IsFiniteSet({"billing"} \cup {"load_profile"}) BY <4>2, FS_Union
      <4> QED BY <4>1, <4>2, <4>3, FS_Union
    <3>2. {k \in due : fate[k] # "stored"} \subseteq Snapshots OBVIOUS
    <3> QED BY <3>1, <3>2, FS_Subset
  <2>2. PICK c : c = Cardinality({k \in due : fate[k] # "stored"}) OBVIOUS
  <2>3. c \in Nat BY <2>1, <2>2, FS_CardinalityType
  <2>4. flaws' = flaws + c /\ flaws' <= MaxFlaws BY <1>1, <2>2
  <2> QED BY <2>3, <2>4, MeterAssumption DEF MeterTyped
<1>5. \A k \in Kinds : /\ DOMAIN Joined(arriving(k), Joined(late[k], stored[k])) = DOMAIN arriving(k) \cup DOMAIN late[k] \cup DOMAIN stored[k]
                       /\ \A t \in DOMAIN Joined(arriving(k), Joined(late[k], stored[k])) :
                            Joined(arriving(k), Joined(late[k], stored[k]))[t] =
                               IF t \in DOMAIN arriving(k) THEN arriving(k)[t]
                               ELSE IF t \in DOMAIN late[k] THEN late[k][t] ELSE stored[k][t]
  <2> HIDE DEF arriving
  <2> SUFFICES ASSUME NEW k \in Kinds
               PROVE  /\ DOMAIN Joined(arriving(k), Joined(late[k], stored[k])) = DOMAIN arriving(k) \cup DOMAIN late[k] \cup DOMAIN stored[k]
                      /\ \A t \in DOMAIN Joined(arriving(k), Joined(late[k], stored[k])) :
                           Joined(arriving(k), Joined(late[k], stored[k]))[t] =
                              IF t \in DOMAIN arriving(k) THEN arriving(k)[t]
                              ELSE IF t \in DOMAIN late[k] THEN late[k][t] ELSE stored[k][t]
    OBVIOUS
  <2>1. PICK a, l, o : a = arriving(k) /\ l = late[k] /\ o = stored[k] OBVIOUS
  <2>2. /\ DOMAIN Joined(a, Joined(l, o)) = DOMAIN a \cup DOMAIN l \cup DOMAIN o
        /\ \A t \in DOMAIN Joined(a, Joined(l, o)) :
             Joined(a, Joined(l, o))[t] = IF t \in DOMAIN a THEN a[t] ELSE IF t \in DOMAIN l THEN l[t] ELSE o[t]
    BY DEF Joined
  <2> QED BY <2>1, <2>2
<1>6. \A k \in Kinds : /\ DOMAIN stored'[k] = DOMAIN arriving(k) \cup DOMAIN late[k] \cup DOMAIN stored[k]
                       /\ \A t \in DOMAIN stored'[k] :
                            stored'[k][t] = IF t \in DOMAIN arriving(k) THEN arriving(k)[t]
                                            ELSE IF t \in DOMAIN late[k] THEN late[k][t] ELSE stored[k][t]
  <2> HIDE DEF arriving
  <2>1. \A k \in Kinds : stored'[k] = Joined(arriving(k), Joined(late[k], stored[k])) BY <1>2
  <2> QED BY <1>5, <2>1
<1>7. \A k \in Snapshots : /\ DOMAIN arriving(k) \subseteq Due[k] \cap {instant}
                           /\ (k \in due /\ fate[k] = "late") => DOMAIN arriving(k) = {}
                           /\ \A t \in DOMAIN arriving(k) : arriving(k)[t] \in shown \cup {Blank}
  BY <1>3, EmptyDomain DEF TakenNow
<1>8. \A k \in Snapshots : /\ DOMAIN late'[k] \subseteq Due[k] \cap {instant}
                           /\ DOMAIN late'[k] # {} => k \in due /\ fate[k] = "late"
                           /\ \A t \in DOMAIN late'[k] : late'[k][t] \in shown
  BY <1>2, <1>3, EmptyDomain DEF TakenNow
<1>9. DOMAIN late'["reset"] = {} /\ arriving("reset") = resetRow
  BY <1>2, <1>3, EmptyDomain
<1>10. DOMAIN stored' = Kinds /\ DOMAIN late' = Kinds
  BY <1>2
<1> HIDE DEF arriving, due
<1>11. \A k \in Snapshots : instant \notin DOMAIN stored[k] /\ instant \notin DOMAIN late[k]
  BY MeterAssumption DEF MeterTyped
<1>12. ASSUME NEW k \in Snapshots
       PROVE  /\ DOMAIN stored[k] \cup DOMAIN late[k] \subseteq DOMAIN stored'[k]
              /\ DOMAIN stored'[k] \subseteq DOMAIN stored[k] \cup DOMAIN late[k] \cup (Due[k] \cap {instant})
              /\ DOMAIN late'[k] \subseteq (Due[k] \cap {instant}) \ DOMAIN stored'[k]
              /\ \A t \in DOMAIN late'[k] : late'[k][t] \in shown
  BY <1>3, <1>6, <1>7, <1>8, <1>11
<1>13. ASSUME NEW k \in Snapshots, NEW t \in DOMAIN stored'[k]
       PROVE  \/ t \in DOMAIN stored[k] /\ stored'[k][t] = stored[k][t]
              \/ t \in DOMAIN late[k] /\ t \notin DOMAIN stored[k] /\ stored'[k][t] = late[k][t]
              \/ t = instant /\ t \notin DOMAIN stored[k] \cup DOMAIN late[k]
                             /\ stored'[k][t] \in shown \cup {Blank}
  <2>1. k \in Kinds BY <1>3
  <2>2. DOMAIN stored[k] \cap DOMAIN late[k] = {} BY DEF MeterTyped
  <2> QED BY <1>6, <1>7, <1>11, <2>1, <2>2
<1>14. /\ DOMAIN stored'["reset"] = DOMAIN resetRow \cup swaps
       /\ \A t \in DOMAIN stored'["reset"] :
            stored'["reset"][t] = IF t \in DOMAIN resetRow THEN resetRow[t] ELSE stored["reset"][t]
  <2>1. DOMAIN late["reset"] = {} /\ DOMAIN stored["reset"] = swaps BY DEF MeterTyped
  <2> QED BY <1>3, <1>6, <1>9, <2>1
<1> QED BY <1>4, <1>9, <1>10, <1>12, <1>13, <1>14 DEF Adds

(* What an instant does to the history, whether or not the meter is replaced. *)
Passes(u, shown, resetRow) ==
  /\ Adds(shown, resetRow) /\ DOMAIN resetRow \subseteq {instant} \ {0}
  /\ u \in Nat /\ instant <= LastInstant /\ instant' = instant + 1
  /\ used' = Joined(TakenNow(UsedBefore + u), used)
  /\ swaps' = swaps \cup DOMAIN resetRow /\ index' \in Nat

LEMMA UsedPasses ==
  ASSUME MeterTyped, NEW u, NEW shown, NEW resetRow, Passes(u, shown, resetRow)
  PROVE  /\ DOMAIN used' = 0..(instant' - 1)
         /\ \A t \in (-1)..(instant - 1) : Used(t)' = Used(t) /\ Used(t) \in Nat
         /\ used'[instant] = Used(instant - 1) + u
         /\ \A t : t = instant => Used(t)' = Used(instant - 1) + u
<1>1. instant \in Nat /\ instant' = instant + 1 /\ u \in Nat
  BY MeterAssumption DEF Passes, MeterTyped
<1>2. /\ DOMAIN used' = {instant} \cup DOMAIN used
      /\ \A t \in DOMAIN used' : used'[t] = IF t = instant THEN UsedBefore + u ELSE used[t]
  <2>1. PICK now : now = TakenNow(UsedBefore + u) OBVIOUS
  <2>2. used' = Joined(now, used) BY <2>1 DEF Passes
  <2>3. DOMAIN now = {instant} /\ now[instant] = UsedBefore + u BY <2>1 DEF TakenNow
  <2> QED BY <2>2, <2>3 DEF Joined
<1>3. UsedBefore = Used(instant - 1)
  BY <1>1 DEF UsedBefore, Used
<1>4. DOMAIN used' = 0..(instant' - 1)
  <2>1. DOMAIN used = 0..(instant - 1) BY DEF MeterTyped
  <2>2. \A t \in Int : t \in {instant} \cup 0..(instant - 1) <=> t \in 0..instant BY <1>1
  <2>3. {instant} \cup 0..(instant - 1) = 0..instant
    <3>1. instant \in Int /\ 0..(instant - 1) \subseteq Int /\ 0..instant \subseteq Int BY <1>1
    <3> QED BY <2>2, <3>1, Zenon
  <2>4. instant' - 1 = instant BY <1>1
  <2> QED BY <1>2, <2>1, <2>3, <2>4
<1>5. ASSUME NEW t \in (-1)..(instant - 1)
      PROVE  Used(t)' = Used(t) /\ Used(t) \in Nat
  <2>1. CASE t = -1 BY <2>1 DEF Used
  <2>2. CASE t # -1
    <3>1. t \in 0..(instant - 1) /\ t # instant /\ t \in 0..(instant' - 1) BY <1>1, <2>2
    <3>2. used'[t] = used[t] /\ used[t] \in Nat BY <1>2, <1>4, <3>1 DEF MeterTyped
    <3> QED BY <2>2, <3>2 DEF Used
  <2> QED BY <2>1, <2>2
<1>6. used'[instant] = Used(instant - 1) + u
  BY <1>1, <1>2, <1>3, <1>4
<1>7. ASSUME NEW t, t = instant PROVE Used(t)' = Used(instant - 1) + u
  <2>1. t # -1 BY <1>1, <1>7
  <2>2. Used(t)' = used'[t] BY <2>1 DEF Used
  <2> QED BY <1>6, <1>7, <2>2
<1> QED BY <1>4, <1>5, <1>6, <1>7

LEMMA TypedPasses ==
  ASSUME MeterTyped, NEW u, NEW shown, NEW resetRow, Passes(u, shown, resetRow)
  PROVE  MeterTyped'
<1>1. instant \in Nat /\ instant' = instant + 1 /\ u \in Nat /\ instant' \in 0..(LastInstant + 1)
  BY MeterAssumption DEF Passes, MeterTyped
<1>2. ASSUME NEW t \in 0..(instant' - 1)
      PROVE  /\ used'[t] \in Nat
             /\ \A t1 \in 0..(instant' - 1) : t1 <= t => used'[t1] <= used'[t]
  <2>1. \A x \in 0..(instant - 1) : used'[x] = used[x] /\ used[x] \in Nat
    <3> SUFFICES ASSUME NEW x \in 0..(instant - 1) PROVE used'[x] = used[x] /\ used[x] \in Nat
      OBVIOUS
    <3>1. x \in (-1)..(instant - 1) /\ x # -1 BY <1>1
    <3> QED BY <3>1, UsedPasses DEF Used
  <2>2. used'[instant] = Used(instant - 1) + u BY UsedPasses
  <2>3. Used(instant - 1) \in Nat
    <3>1. instant - 1 \in (-1)..(instant - 1) BY <1>1
    <3> QED BY <3>1, UsedPasses
  <2>4. \A x \in 0..(instant - 1) : used[x] <= Used(instant - 1)
    BY <1>1 DEF MeterTyped, Used
  <2>5. \A t1, t2 \in 0..(instant - 1) : t1 <= t2 => used[t1] <= used[t2]
    BY DEF MeterTyped
  <2>6. \A x \in 0..(instant' - 1) : x = instant \/ x \in 0..(instant - 1) BY <1>1
  <2>7. \A x \in 0..(instant' - 1) : used'[x] \in Nat BY <1>1, <2>1, <2>2, <2>3, <2>6
  <2>8. ASSUME NEW t1 \in 0..(instant' - 1), t1 <= t PROVE used'[t1] <= used'[t]
    <3>1. PICK m : m = Used(instant - 1) OBVIOUS
    <3>2. CASE t = instant
      BY <1>1, <2>1, <2>2, <2>3, <2>4, <2>6, <2>7, <3>1, <3>2
    <3>3. CASE t # instant
      <4>1. t \in 0..(instant - 1) /\ t1 \in 0..(instant - 1) BY <1>1, <2>6, <2>8, <3>3
      <4> QED BY <2>1, <2>5, <2>8, <4>1
    <3> QED BY <3>2, <3>3
  <2> QED BY <2>7, <2>8
<1>3. swaps' \subseteq 1..(instant' - 1)
  <2>1. DOMAIN resetRow \subseteq {instant} \ {0} /\ swaps' = swaps \cup DOMAIN resetRow BY DEF Passes
  <2>2. swaps \subseteq 1..(instant - 1) BY DEF MeterTyped
  <2>3. ASSUME NEW r \in swaps' PROVE r \in 1..(instant' - 1)
    <3>1. CASE r \in swaps
      <4>1. r \in 1..(instant - 1) BY <2>2, <3>1
      <4> QED BY <1>1, <4>1
    <3>2. CASE r \in DOMAIN resetRow
      <4>1. r = instant /\ r # 0 BY <2>1, <3>2
      <4> QED BY <1>1, <4>1
    <3> QED BY <2>1, <3>1, <3>2
  <2> QED BY <2>3
<1>4. /\ DOMAIN stored' = Kinds /\ DOMAIN late' = Kinds
      /\ DOMAIN stored'["reset"] = swaps' /\ DOMAIN late'["reset"] = {}
  BY DEF Passes, Adds
<1>5. ASSUME NEW k \in Snapshots
      PROVE  /\ DOMAIN stored'[k] \subseteq Due[k] \cap 0..(instant' - 1)
             /\ DOMAIN late'[k] \subseteq Due[k] \cap ({instant' - 1} \ DOMAIN stored'[k])
  <2>1. /\ DOMAIN stored'[k] \subseteq DOMAIN stored[k] \cup DOMAIN late[k] \cup (Due[k] \cap {instant})
        /\ DOMAIN late'[k] \subseteq (Due[k] \cap {instant}) \ DOMAIN stored'[k]
    BY DEF Passes, Adds
  <2>2. /\ DOMAIN stored[k] \subseteq Due[k] \cap 0..(instant - 1)
        /\ DOMAIN late[k] \subseteq Due[k] \cap {instant - 1}
    BY DEF MeterTyped
  <2>3. Due[k] \subseteq Nat BY MeterAssumption
  <2>4. instant' - 1 = instant BY <1>1
  <2>5. ASSUME NEW t \in DOMAIN stored'[k] PROVE t \in Due[k] /\ t \in 0..instant
    BY <1>1, <2>1, <2>2, <2>3
  <2> QED BY <2>1, <2>4, <2>5
<1>6. flaws' \in 0..MaxFlaws /\ index' \in Nat
  BY DEF Passes, Adds
<1>7. DOMAIN used' = 0..(instant' - 1)
  BY UsedPasses
<1> QED BY <1>1, <1>2, <1>3, <1>4, <1>5, <1>6, <1>7 DEF MeterTyped

\* A reading of an instant passed still shows what it showed.
LEMMA ShowingKept ==
  ASSUME MeterTyped, NEW u, NEW shown, NEW resetRow, Passes(u, shown, resetRow),
         NEW F, NEW G, \A p \in Replacements : G[p] = F[p],
         NEW t \in 0..(instant - 1)
  PROVE  Showing(F, t) \subseteq Showing(G, t)'
<1>1. instant \in Nat /\ instant' = instant + 1
  BY MeterAssumption DEF Passes, MeterTyped
<1>2. swaps \subseteq 1..(instant - 1) /\ swaps' \subseteq swaps \cup {instant} /\ swaps \subseteq swaps'
  BY DEF Passes, MeterTyped
<1>3. ASSUME NEW p \in Metering(t) PROVE p \in Metering(t)' /\ Reads(G, p, t)' = Reads(F, p, t)
  <2>1. p \in Replacements /\ p <= t /\ \A r \in swaps : ~(p < r /\ r < t) BY DEF Metering
  <2>2. p \in (-1)..(instant - 1) /\ t \in (-1)..(instant - 1) BY <1>1, <1>2, <2>1 DEF Replacements
  <2>3. Used(p)' = Used(p) /\ Used(t)' = Used(t) BY <2>2, UsedPasses
  <2>4. Reads(G, p, t)' = Reads(F, p, t) BY <2>1, <2>3 DEF Reads
  <2>5. p \in Replacements' BY <1>2, <2>1 DEF Replacements
  <2>6. \A r \in swaps' : ~(p < r /\ r < t) BY <1>1, <1>2, <2>1, <2>2
  <2> QED BY <2>1, <2>4, <2>5, <2>6 DEF Metering
<1> QED BY <1>3 DEF Showing

LEMMA LastMeter ==
  ASSUME MeterTyped
  PROVE  /\ \E q \in Replacements : \A r \in swaps : r <= q
         /\ Replacements \subseteq (-1)..(instant - 1)
<1>1. swaps \subseteq 1..(instant - 1) /\ instant \in Nat
  BY MeterAssumption DEF MeterTyped
<1>2. Replacements \subseteq (-1)..(instant - 1)
  BY <1>1 DEF Replacements
<1>3. IsFiniteSet(Replacements) /\ Replacements \subseteq Int /\ Replacements # {}
  <2>1. IsFiniteSet((-1)..(instant - 1)) BY <1>1, FS_Interval
  <2>2. IsFiniteSet(Replacements) BY <1>2, <2>1, FS_Subset
  <2>3. Replacements # {} BY DEF Replacements
  <2> QED BY <1>2, <2>2, <2>3
<1>4. Max(Replacements) \in Replacements /\ \A r \in Replacements : r <= Max(Replacements)
  BY <1>3, Extremes
<1> QED BY <1>2, <1>4 DEF Replacements

LEMMA ShowsPasses ==
  ASSUME MeterTyped, NEW u, NEW shown, NEW resetRow, Passes(u, shown, resetRow),
         NEW F \in [Replacements -> Nat], Shows(F), NEW first \in Nat,
         NEW G, \A p \in Replacements : G[p] = F[p],
         \/ DOMAIN resetRow = {} /\ shown = {index + u} /\ index' = index + u
         \/ /\ DOMAIN resetRow = {instant} /\ shown = {index + u, first} /\ index' = first
            /\ resetRow[instant] \in {first, Blank} /\ G[instant] = first
  PROVE  Shows(G)'
<1>1. instant \in Nat /\ instant' = instant + 1 /\ u \in Nat /\ instant' - 1 = instant
  BY MeterAssumption DEF Passes, MeterTyped
<1>2. /\ swaps \subseteq 1..(instant - 1) /\ swaps' = swaps \cup DOMAIN resetRow
      /\ Replacements' = Replacements \cup DOMAIN resetRow
  BY DEF Passes, MeterTyped, Replacements
<1>3. PICK q \in Replacements : \A r \in swaps : r <= q
  BY LastMeter
<1>4. q \in (-1)..(instant - 1) /\ instant - 1 \in (-1)..(instant - 1)
  BY <1>1, LastMeter
<1>5. PICK a, b, f : a = Used(instant - 1) /\ b = Used(q) /\ f = F[q]
  OBVIOUS
<1>6. a \in Nat /\ b \in Nat /\ f \in Nat /\ Used(q)' = b /\ \A t : t = instant => Used(t)' = a + u
  BY <1>4, <1>5, UsedPasses
<1>7. index = f + a - b
  BY <1>3, <1>5 DEF Shows, Reads
<1>8. \A t : t = instant => Reads(G, q, t)' = index + u
  <2>1. \A t : t = instant => Reads(G, q, t)' = f + (a + u) - b BY <1>5, <1>6 DEF Reads
  <2> QED BY <1>1, <1>6, <1>7, <2>1
<1>9. ASSUME NEW t, t = instant, NEW v \in shown \cup {Blank} PROVE v \in Showing(G, t)'
  <2>1. CASE v = Blank BY <2>1 DEF Showing
  <2>2. CASE v = index + u
    <3>1. \A r \in swaps' : ~(q < r /\ r < t) BY <1>1, <1>2, <1>3, <1>4, <1>9
    <3>2. q \in Metering(t)' BY <1>1, <1>2, <1>3, <1>4, <1>9, <3>1 DEF Metering
    <3> QED BY <1>8, <1>9, <2>2, <3>2 DEF Showing
  <2>3. CASE v = first /\ DOMAIN resetRow = {instant} /\ G[instant] = first
    <3>1. t \in Metering(t)' BY <1>1, <1>2, <1>9, <2>3 DEF Metering
    <3>2. Reads(G, t, t)' = first + (a + u) - (a + u) BY <1>6, <1>9, <2>3 DEF Reads
    <3>3. Reads(G, t, t)' = first BY <1>1, <1>6, <3>2
    <3> QED BY <2>3, <3>1, <3>3 DEF Showing
  <2> QED BY <1>9, <2>1, <2>2, <2>3
<1>10. ASSUME NEW k \in Snapshots, NEW t \in DOMAIN stored'[k] PROVE stored'[k][t] \in Showing(G, t)'
  <2>1. \/ t \in DOMAIN stored[k] /\ stored'[k][t] = stored[k][t]
        \/ t \in DOMAIN late[k] /\ t \notin DOMAIN stored[k] /\ stored'[k][t] = late[k][t]
        \/ t = instant /\ t \notin DOMAIN stored[k] \cup DOMAIN late[k]
                       /\ stored'[k][t] \in shown \cup {Blank}
    BY DEF Passes, Adds
  <2>2. (t \in DOMAIN stored[k] => t \in 0..(instant - 1)) /\ (t \in DOMAIN late[k] => t \in 0..(instant - 1))
    <3>1. DOMAIN late[k] \subseteq Nat /\ DOMAIN late[k] \subseteq {instant - 1}
      BY MeterAssumption DEF MeterTyped
    <3> QED BY <1>1, <3>1 DEF MeterTyped
  <2>3. (t \in DOMAIN stored[k] => stored[k][t] \in Showing(F, t)) /\ (t \in DOMAIN late[k] => late[k][t] \in Showing(F, t))
    BY DEF Shows
  <2>4. t \in 0..(instant - 1) => Showing(F, t) \subseteq Showing(G, t)' BY ShowingKept
  <2> QED BY <1>9, <2>1, <2>2, <2>3, <2>4
<1>11. ASSUME NEW k \in Snapshots, NEW t \in DOMAIN late'[k] PROVE late'[k][t] \in Showing(G, t)'
  <2>1. t = instant /\ late'[k][t] \in shown BY DEF Passes, Adds
  <2> QED BY <1>9, <2>1
<1>12. ASSUME NEW r \in swaps' PROVE stored'["reset"][r] \in {G[r], Blank}
  <2>1. stored'["reset"][r] = IF r \in DOMAIN resetRow THEN resetRow[r] ELSE stored["reset"][r]
    BY <1>2 DEF Passes, Adds
  <2>2. r \in swaps => stored["reset"][r] \in {F[r], Blank} /\ G[r] = F[r] BY DEF Shows, Replacements
  <2> QED BY <1>2, <2>1, <2>2
<1>13. ASSUME NEW p \in Replacements', \A r \in swaps' : r <= p PROVE \A t : t = instant => index' = Reads(G, p, t)'
  <2>1. CASE DOMAIN resetRow = {} /\ index' = index + u
    <3>1. p \in Replacements /\ \A r \in swaps : r <= p BY <1>2, <1>13, <2>1
    <3>2. p = q
      <4>1. p \in (-1)..(instant - 1) BY <3>1, LastMeter
      <4>2. (q \in swaps \/ q = -1) /\ (p \in swaps \/ p = -1) BY <3>1 DEF Replacements
      <4> QED BY <1>1, <1>2, <1>3, <1>4, <3>1, <4>1, <4>2
    <3> QED BY <1>8, <2>1, <3>2
  <2>2. CASE DOMAIN resetRow = {instant} /\ index' = first /\ G[instant] = first
    <3>1. p = instant
      <4>1. instant <= p BY <1>2, <1>13, <2>2
      <4>2. p \in Replacements \/ p = instant BY <1>2, <2>2
      <4>3. p \in Replacements => p \in (-1)..(instant - 1) BY LastMeter
      <4> QED BY <1>1, <4>1, <4>2, <4>3
    <3>2. \A t : t = instant => Reads(G, p, t)' = first + (a + u) - (a + u) BY <1>6, <2>2, <3>1 DEF Reads
    <3> QED BY <1>1, <1>6, <2>2, <3>2
  <2> QED BY <2>1, <2>2
<1>14. G[-1] = 0
  BY DEF Shows, Replacements
<1>15. (\A p \in Replacements : (\A r \in swaps : r <= p) => index = Reads(G, p, instant - 1))'
  BY <1>1, <1>13
<1> QED BY <1>10, <1>11, <1>12, <1>14, <1>15 DEF Shows

(* Both actions are passages of an instant.                                  *)
RunPasses(u) ==
  \E shown, resetRow : /\ Passes(u, shown, resetRow) /\ DOMAIN resetRow = {} /\ shown = {index + u}
                       /\ index' = index + u /\ swaps' = swaps
SwapPasses(u, first) ==
  \E shown, resetRow : /\ Passes(u, shown, resetRow) /\ DOMAIN resetRow = {instant} /\ shown = {index + u, first}
                       /\ index' = first /\ resetRow[instant] \in {first, Blank}

LEMMA RunsPasses ==
  ASSUME MeterTyped, MeterRuns
  PROVE  \E u \in Usage : RunPasses(u)
<1>1. instant \in Nat /\ index \in Nat BY MeterAssumption DEF MeterTyped
<1>2. PICK u \in Usage : /\ index' = index + u
                         /\ used' = Joined(TakenNow(UsedBefore + u), used)
                         /\ TakeReadings({index + u}, <<>>)
  BY DEF MeterRuns
<1>3. PICK shown, none : shown = {index + u} /\ none = <<>> OBVIOUS
<1>4. DOMAIN none = {} BY <1>3, EmptyDomain
<1>5. Adds(shown, none) BY <1>2, <1>3, ReadingsTaken
<1>6. index' \in Nat /\ u \in Nat BY <1>1, <1>2, MeterNumbers
<1>7. swaps' = swaps \cup DOMAIN none /\ swaps' = swaps BY <1>4 DEF MeterRuns
<1>8. Passes(u, shown, none) BY <1>2, <1>4, <1>5, <1>6, <1>7 DEF MeterRuns, Passes
<1> QED BY <1>2, <1>3, <1>4, <1>7, <1>8 DEF RunPasses

LEMMA ReplacedPasses ==
  ASSUME MeterTyped, MeterReplaced
  PROVE  \E u \in Usage, first \in FirstIndexes : SwapPasses(u, first)
<1>1. instant \in Nat BY MeterAssumption DEF MeterTyped
<1>2. PICK u \in Usage, first \in FirstIndexes :
        /\ index' = first
        /\ used' = Joined(TakenNow(UsedBefore + u), used)
        /\ \E row \in {first, Blank} : TakeReadings({index + u, first}, TakenNow(row))
  BY DEF MeterReplaced
<1>3. PICK row \in {first, Blank} : TakeReadings({index + u, first}, TakenNow(row))
  BY <1>2
<1>4. PICK shown, resetRow : shown = {index + u, first} /\ resetRow = TakenNow(row) OBVIOUS
<1>5. DOMAIN resetRow = {instant} /\ resetRow[instant] = row BY <1>4 DEF TakenNow
<1>6. Adds(shown, resetRow) BY <1>3, <1>4, ReadingsTaken
<1>7. index' \in Nat /\ u \in Nat BY <1>2, MeterNumbers
<1>8. swaps' = swaps \cup DOMAIN resetRow BY <1>5 DEF MeterReplaced
<1>9. DOMAIN resetRow \subseteq {instant} \ {0} BY <1>1, <1>5 DEF MeterReplaced
<1>10. instant <= LastInstant /\ instant' = instant + 1 BY <1>1, MeterAssumption DEF MeterReplaced
<1>11. Passes(u, shown, resetRow) BY <1>2, <1>6, <1>7, <1>8, <1>9, <1>10 DEF Passes
<1> QED BY <1>2, <1>4, <1>5, <1>11 DEF SwapPasses

LEMMA StepPasses ==
  ASSUME MeterInv, MeterNext
  PROVE  \E u, shown, resetRow : Passes(u, shown, resetRow)
<1>1. MeterTyped BY DEF MeterInv
<1>2. CASE MeterRuns BY <1>1, <1>2, RunsPasses DEF RunPasses
<1>3. CASE MeterReplaced BY <1>1, <1>3, ReplacedPasses DEF SwapPasses
<1> QED BY <1>2, <1>3 DEF MeterNext

LEMMA MeterStep == MeterInv /\ [MeterNext]_meterVars => MeterInv'
<1> SUFFICES ASSUME MeterInv, [MeterNext]_meterVars PROVE MeterInv'
  OBVIOUS
<1>1. MeterTyped BY DEF MeterInv
<1>2. PICK F \in [Replacements -> FirstIndexes \cup {0}] : Shows(F)
  BY DEF MeterInv
<1>3. F \in [Replacements -> Nat]
  BY <1>2, MeterNumbers
<1>4. CASE MeterRuns
  <2>1. PICK u \in Usage : RunPasses(u) BY <1>1, <1>4, RunsPasses
  <2>2. PICK shown, none : /\ Passes(u, shown, none) /\ DOMAIN none = {} /\ shown = {index + u}
                           /\ index' = index + u /\ swaps' = swaps
    BY <2>1 DEF RunPasses
  <2>3. MeterTyped' BY <1>1, <2>2, TypedPasses
  <2>4. Shows(F)' BY <1>1, <1>2, <1>3, <2>2, ShowsPasses
  <2>5. Replacements' = Replacements BY <2>2 DEF Replacements
  <2> QED BY <1>2, <2>3, <2>4, <2>5 DEF MeterInv
<1>5. CASE MeterReplaced
  <2>1. PICK u \in Usage, first \in FirstIndexes : SwapPasses(u, first) BY <1>1, <1>5, ReplacedPasses
  <2>2. PICK shown, resetRow : /\ Passes(u, shown, resetRow) /\ DOMAIN resetRow = {instant} /\ shown = {index + u, first}
                           /\ index' = first /\ resetRow[instant] \in {first, Blank}
    BY <2>1 DEF SwapPasses
  <2>3. MeterTyped' BY <1>1, <2>2, TypedPasses
  <2>4. PICK G : G = [p \in Replacements \cup {instant} |-> IF p = instant THEN first ELSE F[p]] OBVIOUS
  <2>5. \A p \in Replacements : G[p] = F[p]
    <3>1. instant \in Nat BY <1>1, MeterAssumption DEF MeterTyped
    <3>2. instant \notin Replacements BY <1>1, <3>1 DEF MeterTyped, Replacements
    <3> QED BY <2>4, <3>2
  <2>6. G[instant] = first BY <2>4
  <2>7. first \in Nat BY MeterNumbers
  <2>8. Shows(G)' BY <1>1, <1>2, <1>3, <2>2, <2>5, <2>6, <2>7, ShowsPasses
  <2>9. Replacements' = Replacements \cup {instant} BY <1>5 DEF MeterReplaced, Replacements
  <2>10. G \in [Replacements' -> FirstIndexes \cup {0}] BY <1>2, <2>1, <2>4, <2>9
  <2> QED BY <2>3, <2>8, <2>10 DEF MeterInv
<1>6. CASE UNCHANGED meterVars
  <2>1. MeterTyped' = MeterTyped BY <1>6 DEF meterVars, MeterTyped
  <2>2. Replacements' = Replacements BY <1>6 DEF meterVars, Replacements
  <2>3. ASSUME NEW G PROVE Shows(G)' = Shows(G)
    BY <1>6 DEF meterVars, Shows, Showing, Metering, Reads, Used, Replacements
  <2> QED BY <1>1, <1>2, <2>1, <2>2, <2>3 DEF MeterInv
<1> QED BY <1>4, <1>5, <1>6 DEF MeterNext

LEMMA ShownValues ==
  ASSUME MeterTyped, NEW F \in [Replacements -> Nat], Shows(F)
  PROVE  \A k \in Snapshots : \A t \in DOMAIN stored[k] : stored[k][t] \in Nat \cup {Blank}
<1> SUFFICES ASSUME NEW k \in Snapshots, NEW t \in DOMAIN stored[k], stored[k][t] # Blank
             PROVE  stored[k][t] \in Nat
  OBVIOUS
<1>1. PICK p \in Metering(t) : stored[k][t] = Reads(F, p, t)
  BY DEF Shows, Showing
<1>2. instant \in Nat /\ t \in 0..(instant - 1)
  BY MeterAssumption DEF MeterTyped
<1>3. p \in Replacements /\ p <= t BY <1>1 DEF Metering
<1>4. p = -1 \/ p \in 1..(instant - 1)
  BY <1>3 DEF MeterTyped, Replacements
<1>5. PICK a, b, f : a = Used(t) /\ b = Used(p) /\ f = F[p] OBVIOUS
<1>6. f \in Nat BY <1>3, <1>5
<1>7. a \in Nat /\ b \in Nat /\ b <= a
  <2>1. used[t] \in Nat /\ a = used[t] BY <1>2, <1>5 DEF MeterTyped, Used
  <2>2. CASE p = -1 BY <1>5, <2>1, <2>2 DEF Used
  <2>3. CASE p # -1
    <3>1. p \in 0..(instant - 1) BY <1>2, <1>4, <2>3
    <3>2. b = used[p] /\ used[p] \in Nat /\ used[p] <= used[t] BY <1>2, <1>3, <1>5, <2>3, <3>1 DEF Used, MeterTyped
    <3> QED BY <2>1, <3>2
  <2> QED BY <2>2, <2>3
<1>8. stored[k][t] = f + a - b BY <1>1, <1>5 DEF Reads
<1> QED BY <1>6, <1>7, <1>8

LEMMA MeterTypes == MeterInv => MeterTypeOK
<1> SUFFICES ASSUME MeterInv PROVE MeterTypeOK
  OBVIOUS
<1>1. MeterTyped BY DEF MeterInv
<1>2. PICK F \in [Replacements -> FirstIndexes \cup {0}] : Shows(F)
  BY DEF MeterInv
<1>3. F \in [Replacements -> Nat]
  BY <1>2, MeterNumbers
<1>4. \A k \in Snapshots : \A t \in DOMAIN stored[k] : stored[k][t] \in Nat \cup {Blank}
  BY <1>1, <1>2, <1>3, ShownValues
<1>5. instant \in Nat BY <1>1, MeterAssumption DEF MeterTyped
<1> QED BY <1>1, <1>4, <1>5 DEF MeterTyped, MeterTypeOK

(* The readings kept are of instants passed, of kinds due then, and hold a   *)
(* number or nothing; only those of the last instant are still under way.    *)
THEOREM MeterTypeCorrect == MeterSpec => []MeterTypeOK
<1>1. MeterInit => MeterInv BY MeterInitial
<1>2. MeterInv /\ [MeterNext]_meterVars => MeterInv' BY MeterStep
<1>3. MeterInv => MeterTypeOK BY MeterTypes
<1> QED BY <1>1, <1>2, <1>3, PTL DEF MeterSpec

(***************************************************************************)
(* The segments of a span, and the bounds of a request                     *)
(***************************************************************************)
(* A sum of steps, each from the element before it to its own, less un.      *)
Steps(seg, R, s, last, U, un) ==
  /\ IsFiniteSet(R) /\ R \subseteq Int /\ s \in Int /\ \A r \in R : s < r
  /\ last \in {s} \cup R /\ \A r \in R : r <= last
  /\ \A r \in R \cup {s} : U[r] \in Int
  /\ \A r \in R : un[r] \in Int
  /\ \A r \in R : \E o \in {s} \cup R : /\ o < r /\ \A t \in R : t < r => t <= o
                                     /\ seg[r] = U[r] - U[o] - un[r]

LEMMA Telescope ==
  ASSUME NEW seg, NEW R, NEW s, NEW last, NEW U, NEW un, Steps(seg, R, s, last, U, un)
  PROVE  SumFunctionOnSet(seg, R) = U[last] - U[s] - SumFunctionOnSet(un, R)
<1> USE DEF Steps
<1> DEFINE Sum(f, X) == SumFunctionOnSet(f, X)
           Last(X) == Max({s} \cup X)
           Initial(X) == \A r \in X : \A t \in R : t < r => t \in X
           G == {X \in SUBSET R : Initial(X) => Sum(seg, X) = U[Last(X)] - U[s] - Sum(un, X)}
<1>1. \A X \in SUBSET R : /\ Last(X) \in {s} \cup X /\ \A y \in {s} \cup X : y <= Last(X)
                          /\ IsFiniteSet(X)
  <2> SUFFICES ASSUME NEW X \in SUBSET R
               PROVE  /\ Last(X) \in {s} \cup X /\ \A y \in {s} \cup X : y <= Last(X)
                      /\ IsFiniteSet(X)
    OBVIOUS
  <2>1. IsFiniteSet(X) BY FS_Subset
  <2>2. IsFiniteSet({s} \cup X) BY <2>1, FS_Singleton, FS_Union
  <2>3. {s} \cup X \subseteq Int /\ {s} \cup X # {} OBVIOUS
  <2> QED BY <2>1, <2>2, <2>3, Extremes
<1>2. \A r \in R : seg[r] \in Int
  <2> SUFFICES ASSUME NEW r \in R PROVE seg[r] \in Int
    OBVIOUS
  <2>1. PICK o \in {s} \cup R : seg[r] = U[r] - U[o] - un[r] OBVIOUS
  <2>2. U[o] \in Int /\ U[r] \in Int /\ un[r] \in Int OBVIOUS
  <2> QED BY <2>1, <2>2
<1> HIDE DEF Last
<1>3. ASSUME NEW X \in SUBSET R, \A x \in X : X \ {x} \in G PROVE X \in G
  <2> SUFFICES ASSUME Initial(X) PROVE Sum(seg, X) = U[Last(X)] - U[s] - Sum(un, X)
    OBVIOUS
  <2>1. CASE X = {}
    <3>1. Sum(seg, X) = 0 /\ Sum(un, X) = 0 BY <2>1, SumOfNone
    <3>2. Last(X) = s BY <1>1, <2>1
    <3>3. U[s] \in Int OBVIOUS
    <3>4. PICK u : u = U[s] OBVIOUS
    <3> QED BY <3>1, <3>2, <3>3, <3>4
  <2>2. CASE X # {}
    <3>1. PICK m \in X : \A y \in X : y <= m
      <4>1. X \subseteq Int /\ IsFiniteSet(X) BY <1>1
      <4> QED BY <2>2, <4>1, Extremes
    <3>2. PICK Y : Y = X \ {m} OBVIOUS
    <3>3. Initial(Y) BY <3>1, <3>2
    <3>4. Sum(seg, Y) = U[Last(Y)] - U[s] - Sum(un, Y)
      <4>1. Y \in G BY <1>3, <3>1, <3>2
      <4> QED BY <3>3, <4>1
    <3>5. PICK o \in {s} \cup R : /\ o < m /\ \A t \in R : t < m => t <= o
                                 /\ seg[m] = U[m] - U[o] - un[m]
      BY <3>1
    <3>6. seg[m] = U[m] - U[Last(Y)] - un[m]
      <4>1. o \in {s} \cup Y
        <5>1. CASE o = s BY <5>1
        <5>2. CASE o \in R
          <6>1. o \in X BY <3>1, <3>5, <5>2
          <6>2. o # m /\ o \in Int BY <3>1, <3>5, <5>2
          <6> QED BY <3>2, <6>1, <6>2
        <5> QED BY <5>1, <5>2
      <4>2. Last(Y) \in {s} \cup Y /\ o <= Last(Y) BY <1>1, <3>2, <4>1
      <4>3. Last(Y) <= o
        <5>1. CASE Last(Y) = s
          <6>1. o = s \/ s < o BY <4>1
          <6> QED BY <5>1, <6>1
        <5>2. CASE Last(Y) \in Y
          <6>1. Last(Y) \in R /\ Last(Y) <= m /\ Last(Y) # m BY <3>1, <3>2, <5>2
          <6>2. Last(Y) < m
            <7>1. PICK l : l = Last(Y) OBVIOUS
            <7>2. l <= m /\ l # m /\ l \in Int /\ m \in Int BY <3>1, <6>1, <7>1
            <7> QED BY <7>1, <7>2
          <6> QED BY <3>5, <6>1, <6>2
        <5> QED BY <4>2, <5>1, <5>2
      <4>4. Last(Y) \in Int /\ o \in Int BY <3>2, <4>1, <4>2
      <4>5. Last(Y) = o
        <5>1. PICK l : l = Last(Y) OBVIOUS
        <5>2. l <= o /\ o <= l /\ l \in Int /\ o \in Int BY <4>2, <4>3, <4>4, <5>1
        <5>3. l = o BY <5>2
        <5> QED BY <5>1, <5>3
      <4> QED BY <3>5, <4>5
    <3>7. Last(X) = m
      <4>1. Last(X) \in X BY <1>1, <3>1
      <4>2. m <= Last(X) /\ Last(X) <= m BY <1>1, <3>1, <4>1
      <4>3. Last(X) \in Int /\ m \in Int BY <3>1, <4>1
      <4> QED BY <4>2, <4>3
    <3>8. Valued(seg, X) /\ Valued(un, X) /\ Valued(un, Y)
      <4>1. IsFiniteSet(X) /\ IsFiniteSet(Y) /\ X \subseteq R /\ Y \subseteq R BY <1>1, <3>2
      <4> QED BY <1>2, <4>1 DEF Valued
    <3>9. Sum(seg, X) = seg[m] + Sum(seg, Y) /\ Sum(un, X) = un[m] + Sum(un, Y)
      BY <3>1, <3>2, <3>8, SumOneOut
    <3>10. Sum(un, Y) \in Int BY <3>8, SumType
    <3>11. U[m] \in Int /\ U[s] \in Int /\ U[Last(Y)] \in Int /\ un[m] \in Int
      <4>1. Last(Y) \in {s} \cup Y /\ Y \subseteq R BY <1>1, <3>2
      <4> QED BY <4>1
    <3>12. PICK um, us, uy, nm, sy, ny, sx, nx, gm :
             /\ um = U[m] /\ us = U[s] /\ uy = U[Last(Y)] /\ nm = un[m] /\ gm = seg[m]
             /\ sy = Sum(seg, Y) /\ ny = Sum(un, Y) /\ sx = Sum(seg, X) /\ nx = Sum(un, X)
      OBVIOUS
    <3>13. sx = um - us - nx
      <4>1. /\ um \in Int /\ us \in Int /\ uy \in Int /\ nm \in Int /\ ny \in Int
            /\ gm = um - uy - nm /\ sy = uy - us - ny /\ sx = gm + sy /\ nx = nm + ny
        BY <3>4, <3>6, <3>9, <3>10, <3>11, <3>12
      <4> QED BY <4>1
    <3> QED BY <3>7, <3>12, <3>13
  <2> QED BY <2>1, <2>2
<1>4. R \in G
  <2> HIDE DEF G
  <2> QED BY <1>3, SubsetInduction
<1>5. Last(R) = last
  <2>1. Last(R) \in {s} \cup R /\ last <= Last(R) BY <1>1
  <2>2. Last(R) <= last
    <3>1. \A x \in {s} \cup R : x <= last OBVIOUS
    <3> QED BY <2>1, <3>1
  <2>3. Last(R) \in Int /\ last \in Int BY <2>1
  <2> QED BY <2>1, <2>2, <2>3
<1> QED BY <1>4, <1>5

-----------------------------------------------------------------------------
(* The windows of a request follow one another.                              *)
LEMMA WindowBounds ==
  ASSUME NEW req \in Series, NEW w \in Windows(req)
  PROVE  /\ w.from \in Nat /\ w.to \in Nat /\ w.from < w.to
         /\ First(req) \in Nat /\ First(req) <= w.from
         /\ Final(req) \in Nat /\ w.to <= Final(req)
         /\ req.level \notin {"hourly", "explicit"} => BucketWidth <= w.to - w.from
<1>1. PICK B, n, gap : B = req.bounds /\ n = Len(B) /\ gap = IF req.level \in {"hourly", "explicit"} THEN 1 ELSE BucketWidth
  OBVIOUS
<1>2. B \in Seq(Nat) /\ \A i, j \in DOMAIN B : i < j => B[i] + gap <= B[j]
  BY <1>1, MeterAssumption
<1>3. n \in Nat /\ DOMAIN B = 1..n /\ \A i \in 1..n : B[i] \in Nat
  BY <1>1, <1>2
<1>4. PICK i \in 1..(n - 1) : w = [from |-> B[i], to |-> B[i + 1]]
  BY <1>1 DEF Windows
<1>5. gap \in Nat \ {0}
  BY <1>1, MeterAssumption
<1>6. i \in 1..n /\ i + 1 \in 1..n /\ i < i + 1 /\ 1 \in 1..n /\ n \in 1..n
  BY <1>3
<1>7. B[i] + gap <= B[i + 1]
  BY <1>2, <1>3, <1>6
<1>8. B[1] <= B[i]
  <2>1. CASE i = 1 BY <1>3, <1>6, <2>1
  <2>2. CASE i # 1
    <3>1. 1 < i BY <1>6, <2>2
    <3>2. B[1] + gap <= B[i] BY <1>2, <1>3, <1>6, <3>1
    <3> QED BY <1>3, <1>5, <1>6, <3>2
  <2> QED BY <2>1, <2>2
<1>9. B[i + 1] <= B[n]
  <2>1. CASE i + 1 = n BY <1>3, <1>6, <2>1
  <2>2. CASE i + 1 # n
    <3>1. i + 1 < n BY <1>3, <1>6, <2>2
    <3>2. B[i + 1] + gap <= B[n] BY <1>2, <1>3, <1>6, <3>1
    <3> QED BY <1>3, <1>5, <1>6, <3>2
  <2> QED BY <2>1, <2>2
<1>10. First(req) = B[1] /\ Final(req) = B[n]
  BY <1>1 DEF First, Final
<1>11. B[i] \in Nat /\ B[i + 1] \in Nat /\ B[1] \in Nat /\ B[n] \in Nat
  BY <1>3, <1>6
<1>12. req.level \notin {"hourly", "explicit"} => gap = BucketWidth
  BY <1>1
<1> QED BY <1>4, <1>5, <1>7, <1>8, <1>9, <1>10, <1>11, <1>12

LEMMA WindowOrder ==
  ASSUME NEW req \in Series, NEW v \in Windows(req), NEW w \in Windows(req)
  PROVE  /\ v = w \/ v.to <= w.from \/ w.to <= v.from
         /\ v.to <= w.from =>
              \/ v.to = w.from
              \/ \E x \in Windows(req) : x.to = w.from /\ v.to <= x.from
<1>1. PICK B, n, gap : B = req.bounds /\ n = Len(B) /\ gap = IF req.level \in {"hourly", "explicit"} THEN 1 ELSE BucketWidth
  OBVIOUS
<1>2. B \in Seq(Nat) /\ \A i, j \in DOMAIN B : i < j => B[i] + gap <= B[j]
  BY <1>1, MeterAssumption
<1>3. n \in Nat /\ DOMAIN B = 1..n /\ \A i \in 1..n : B[i] \in Nat
  BY <1>1, <1>2
<1>4. PICK i \in 1..(n - 1) : v = [from |-> B[i], to |-> B[i + 1]]
  BY <1>1 DEF Windows
<1>5. PICK j \in 1..(n - 1) : w = [from |-> B[j], to |-> B[j + 1]]
  BY <1>1 DEF Windows
<1>6. gap \in Nat \ {0}
  BY <1>1, MeterAssumption
<1>7. \A a, b \in 1..n : a <= b => B[a] <= B[b] /\ (a < b => B[a] < B[b])
  <2> SUFFICES ASSUME NEW a \in 1..n, NEW b \in 1..n, a <= b
               PROVE  B[a] <= B[b] /\ (a < b => B[a] < B[b])
    OBVIOUS
  <2>1. B[a] \in Nat /\ B[b] \in Nat /\ a \in DOMAIN B /\ b \in DOMAIN B BY <1>3
  <2>2. CASE a = b BY <2>1, <2>2
  <2>3. CASE a # b
    <3>1. a < b BY <2>3
    <3>2. B[a] + gap <= B[b] BY <1>2, <2>1, <3>1
    <3> QED BY <1>6, <2>1, <3>2
  <2> QED BY <2>2, <2>3
<1>8. i \in 1..n /\ i + 1 \in 1..n /\ j \in 1..n /\ j + 1 \in 1..n
  BY <1>3
<1>9. CASE i = j BY <1>4, <1>5, <1>7, <1>8, <1>3, <1>9
<1>10. CASE i < j
  <2>1. i + 1 <= j BY <1>8, <1>10
  <2>2. B[i + 1] <= B[j] BY <1>7, <1>8, <2>1
  <2>3. CASE i + 1 = j BY <1>4, <1>5, <2>2, <2>3
  <2>4. CASE i + 1 # j
    <3>1. j - 1 \in 1..(n - 1) /\ j - 1 \in 1..n /\ i + 1 <= j - 1 /\ (j - 1) + 1 = j
      BY <1>3, <1>8, <2>1, <2>4
    <3>2. PICK x : x = [from |-> B[j - 1], to |-> B[(j - 1) + 1]] OBVIOUS
    <3>3. x \in Windows(req) BY <1>1, <3>1, <3>2 DEF Windows
    <3>4. x.to = w.from /\ v.to <= x.from BY <1>4, <1>5, <1>7, <1>8, <3>1, <3>2
    <3> QED BY <1>4, <1>5, <2>2, <3>3, <3>4
  <2> QED BY <2>3, <2>4
<1>11. CASE j < i
  <2>1. j + 1 <= i /\ j < i + 1 BY <1>8, <1>11
  <2>2. B[j + 1] <= B[i] /\ B[j] < B[i + 1] BY <1>7, <1>8, <2>1
  <2>3. ~(v.to <= w.from) BY <1>3, <1>4, <1>5, <1>8, <2>2
  <2> QED BY <1>4, <1>5, <2>2, <2>3
<1> QED BY <1>8, <1>9, <1>10, <1>11

LEMMA IntervalPart ==
  ASSUME NEW a \in Int, NEW b \in Int, NEW S, S \subseteq a..b
  PROVE  IsFiniteSet(S) /\ S \subseteq Int
<1>1. IsFiniteSet(a..b) BY FS_Interval
<1>2. IsFiniteSet(S) BY <1>1, FS_Subset
<1> QED BY <1>2

LEMMA PairLeast ==
  ASSUME NEW a \in Int, NEW b \in Int
  PROVE  /\ Min({a, b}) \in Int /\ Min({a, b}) <= a /\ Min({a, b}) <= b
         /\ Max({a, b}) \in Int /\ a <= Max({a, b}) /\ b <= Max({a, b}) /\ Max({a, b}) \in {a, b}
<1>1. PICK S : S = {a, b} OBVIOUS
<1>2. IsFiniteSet({a}) /\ IsFiniteSet({b}) BY FS_Singleton
<1>3. S = {a} \cup {b} BY <1>1
<1>4. IsFiniteSet(S) BY <1>2, <1>3, FS_Union
<1>5. S \subseteq Int /\ S # {} BY <1>1
<1>6. /\ Min(S) \in S /\ \A y \in S : Min(S) <= y
      /\ Max(S) \in S /\ \A y \in S : y <= Max(S)
  BY <1>4, <1>5, Extremes
<1> QED BY <1>1, <1>6

\* A bound tolerates a gap of half of any window that meets there.
LEMMA WidthWithin ==
  ASSUME NEW req \in Series, req.level # "hourly", NEW w \in Windows(req), NEW bound \in {w.from, w.to}
  PROVE  Width(req, bound) \in Int /\ Width(req, bound) <= w.to - w.from
<1>1. CASE req.level # "explicit"
  BY <1>1, WindowBounds, MeterAssumption DEF Width
<1>2. CASE req.level = "explicit"
  <2>1. PICK S : S = {x.to - x.from : x \in {v \in Windows(req) : bound \in {v.from, v.to}}} OBVIOUS
  <2>2. S \subseteq 0..Final(req)
    <3>1. ASSUME NEW x \in Windows(req) PROVE x.to - x.from \in 0..Final(req)
      BY WindowBounds
    <3> QED BY <2>1, <3>1
  <2>3. Final(req) \in Nat BY WindowBounds
  <2>4. IsFiniteSet(S) /\ S \subseteq Int
    <3>1. 0 \in Int /\ Final(req) \in Int BY <2>3
    <3> QED BY <2>2, <3>1, IntervalPart
  <2>5. w.to - w.from \in S BY <2>1
  <2>6. Min(S) \in S /\ Min(S) <= w.to - w.from BY <2>4, <2>5, Extremes
  <2>7. Width(req, bound) = Min(S) BY <1>2, <2>1 DEF Width
  <2> QED BY <2>4, <2>6, <2>7
<1> QED BY <1>1, <1>2

LEMMA Tolerated ==
  ASSUME NEW req \in Series, req.level # "hourly", NEW w \in Windows(req), NEW bound \in {w.from, w.to},
         NEW kind \in Snapshots, NEW gap \in Int, gap <= BoundaryTolerance(req, kind, bound)
  PROVE  gap <= Width(req, bound)
<1>1. Width(req, bound) \in Int BY WidthWithin
<1>2. 2 * Tolerance[kind] \in Int BY MeterNumbers
<1>3. BoundaryTolerance(req, kind, bound) \in Int /\ BoundaryTolerance(req, kind, bound) <= Width(req, bound)
  BY <1>1, <1>2, PairLeast DEF BoundaryTolerance
<1> QED BY <1>1, <1>3

-----------------------------------------------------------------------------
(* What is loaded: all of the load profiles and of the resets from one       *)
(* instant on, and of the other snapshots what can bound a window.           *)
Earliest(req) == Min({FirstBoundaryLookback(req, k) : k \in BoundaryKinds(req.level)})

LEMMA LookbackType ==
  ASSUME MeterTyped, NEW req \in Series, NEW w \in Windows(req), NEW k \in Snapshots
  PROVE  FirstBoundaryLookback(req, k) \in Int
<1>1. PICK seen : seen = {t \in DOMAIN stored[k] : t <= First(req)} OBVIOUS
<1>2. First(req) \in Int BY WindowBounds
<1>3. instant \in Nat BY MeterAssumption DEF MeterTyped
<1>4. seen \subseteq 0..(instant - 1) BY <1>1 DEF MeterTyped
<1>5. IsFiniteSet(seen) /\ seen \subseteq Int
  <2>1. 0 \in Int /\ instant - 1 \in Int BY <1>3
  <2> QED BY <1>4, <2>1, IntervalPart
<1>6. seen # {} => Max(seen) \in Int
  BY <1>5, Extremes
<1>7. First(req) - Tolerance[k] \in Int BY <1>2, MeterNumbers
<1>8. seen # {} => Max({Max(seen), First(req) - Tolerance[k]}) \in Int
  BY <1>6, <1>7, PairLeast
<1>9. FirstBoundaryLookback(req, k) = IF seen = {} THEN First(req)
                                      ELSE IF req.level = "hourly" THEN Max(seen)
                                      ELSE Max({Max(seen), First(req) - Tolerance[k]})
  BY <1>1 DEF FirstBoundaryLookback
<1> QED BY <1>2, <1>6, <1>8, <1>9

LEMMA BoundaryKindsAre ==
  ASSUME NEW level
  PROVE  BoundaryKinds(level) \subseteq Snapshots /\ "load_profile" \in BoundaryKinds(level)
BY DEF BoundaryKinds, Snapshots

LEMMA EarliestLeast ==
  ASSUME MeterTyped, NEW req \in Series, NEW w \in Windows(req)
  PROVE  /\ Earliest(req) \in Int
         /\ \A k \in BoundaryKinds(req.level) : Earliest(req) <= FirstBoundaryLookback(req, k)
<1>1. PICK S, a, b, c : /\ S = {FirstBoundaryLookback(req, k) : k \in BoundaryKinds(req.level)}
                        /\ a = FirstBoundaryLookback(req, "billing") /\ b = FirstBoundaryLookback(req, "load_profile")
                        /\ c = FirstBoundaryLookback(req, "daily")
  OBVIOUS
<1>2. a \in Int /\ b \in Int /\ c \in Int
  BY <1>1, LookbackType DEF Snapshots
<1>3. S \subseteq ({a} \cup {b}) \cup {c} /\ S # {}
  BY <1>1, BoundaryKindsAre DEF Snapshots
<1>4. IsFiniteSet(S)
  <2>1. IsFiniteSet({a}) /\ IsFiniteSet({b}) /\ IsFiniteSet({c}) BY FS_Singleton
  <2>2. IsFiniteSet({a} \cup {b}) BY <2>1, FS_Union
  <2>3. IsFiniteSet(({a} \cup {b}) \cup {c}) BY <2>1, <2>2, FS_Union
  <2> QED BY <1>3, <2>3, FS_Subset
<1>5. S \subseteq Int BY <1>2, <1>3
<1>6. Min(S) \in S /\ \A y \in S : Min(S) <= y
  BY <1>3, <1>4, <1>5, Extremes
<1>7. Earliest(req) = Min(S) BY <1>1 DEF Earliest
<1> QED BY <1>1, <1>5, <1>6, <1>7

LEMMA Loaded ==
  ASSUME MeterTyped, NEW req \in Series, NEW w \in Windows(req),
         NEW data, data = LoadAnalyzerBoundaryData(req)
  PROVE  /\ data["load_profile"] = {t \in DOMAIN stored["load_profile"] : Earliest(req) <= t /\ t <= Final(req)}
         /\ data["reset"] = {t \in swaps : Earliest(req) <= t /\ t <= Final(req)}
         /\ \A k \in BoundaryKinds(req.level) : \A t \in data[k] :
              t \in DOMAIN stored[k] /\ Earliest(req) <= t /\ t <= Final(req)
<1>1. /\ data["load_profile"] = {t \in DOMAIN stored["load_profile"] : Earliest(req) <= t /\ t <= Final(req)}
      /\ data["reset"] = {t \in DOMAIN stored["reset"] : Earliest(req) <= t /\ t <= Final(req)}
      /\ data["billing"] = {t \in DOMAIN stored["billing"] : FirstBoundaryLookback(req, "billing") <= t /\ t <= Final(req)}
      /\ data["daily"] = {t \in DOMAIN stored["daily"] : FirstBoundaryLookback(req, "daily") <= t /\ t <= Final(req)}
  BY DEF LoadAnalyzerBoundaryData, Earliest
<1>2. DOMAIN stored["reset"] = swaps BY DEF MeterTyped
<1>3. ASSUME NEW k \in BoundaryKinds(req.level), NEW t \in data[k]
      PROVE  t \in DOMAIN stored[k] /\ Earliest(req) <= t /\ t <= Final(req)
  <2>1. k \in Snapshots BY BoundaryKindsAre
  <2>2. CASE k = "load_profile" BY <1>1, <1>3, <2>2
  <2>3. CASE k \in {"billing", "daily"}
    <3>1. t \in DOMAIN stored[k] /\ FirstBoundaryLookback(req, k) <= t /\ t <= Final(req) BY <1>1, <1>3, <2>3
    <3>2. t \in Int
      <4>1. DOMAIN stored[k] \subseteq Due[k] /\ Due[k] \subseteq Nat BY <2>1, MeterNumbers DEF MeterTyped
      <4> QED BY <3>1, <4>1
    <3>3. Earliest(req) \in Int /\ FirstBoundaryLookback(req, k) \in Int /\ Earliest(req) <= FirstBoundaryLookback(req, k)
      BY <1>3, <2>1, EarliestLeast, LookbackType
    <3> QED BY <3>1, <3>2, <3>3
  <2> QED BY <2>1, <2>2, <2>3 DEF Snapshots
<1> QED BY <1>1, <1>2, <1>3

(* The reading of a bound: the last loaded one of its kind, near enough, and *)
(* only one.                                                                 *)
LEMMA BoundaryResolved ==
  ASSUME MeterTyped, NEW req \in Series, NEW w \in Windows(req), NEW bound \in {w.from, w.to},
         NEW data, data = LoadAnalyzerBoundaryData(req), NEW r \in ResolveBoundary(req, data, bound)
  PROVE  /\ r.kind \in BoundaryKinds(req.level) /\ r.kind \in Snapshots
         /\ r.ts \in DOMAIN stored[r.kind] /\ r.ts \in 0..(instant - 1)
         /\ Earliest(req) <= r.ts /\ r.ts <= bound
         /\ r.ts \in data[r.kind] /\ \A t \in data[r.kind] : t <= bound => t <= r.ts
         /\ req.level = "hourly" => r.kind = "load_profile"
         /\ req.level # "hourly" => 2 * (bound - r.ts) <= Width(req, bound)
         /\ \A q \in ResolveBoundary(req, data, bound) : q = r
<1>1. instant \in Nat BY MeterAssumption DEF MeterTyped
<1>2. bound \in Int BY WindowBounds
<1>3. ASSUME NEW kind \in BoundaryKinds(req.level), NEW q \in SelectBoundary(data, kind, bound)
      PROVE  /\ q.kind = kind /\ q.ts \in DOMAIN stored[kind] /\ q.ts \in 0..(instant - 1)
             /\ Earliest(req) <= q.ts /\ q.ts <= bound
             /\ q.ts \in data[kind] /\ \A t \in data[kind] : t <= bound => t <= q.ts
             /\ SelectBoundary(data, kind, bound) = {q}
  <2>1. PICK before : before = {t \in data[kind] : t <= bound} OBVIOUS
  <2>2. before # {} /\ q = [kind |-> kind, ts |-> Max(before)] /\ SelectBoundary(data, kind, bound) = {q}
    BY <1>3, <2>1 DEF SelectBoundary
  <2>3. kind \in Snapshots BY BoundaryKindsAre
  <2>4. \A t \in data[kind] : t \in DOMAIN stored[kind] /\ Earliest(req) <= t
    BY Loaded
  <2>5. DOMAIN stored[kind] \subseteq 0..(instant - 1) BY <2>3 DEF MeterTyped
  <2>6. before \subseteq 0..(instant - 1) BY <2>1, <2>4, <2>5
  <2>7. IsFiniteSet(before) /\ before \subseteq Int
    <3>1. 0 \in Int /\ instant - 1 \in Int BY <1>1
    <3> QED BY <2>6, <3>1, IntervalPart
  <2>8. Max(before) \in before /\ \A y \in before : y <= Max(before)
    BY <2>2, <2>7, Extremes
  <2>9. PICK m : m = Max(before) OBVIOUS
  <2>10. q.kind = kind /\ q.ts = m BY <2>2, <2>9
  <2> QED BY <2>1, <2>2, <2>4, <2>6, <2>5, <2>8, <2>9, <2>10
<1>4. ASSUME NEW kind \in BoundaryKinds(req.level), req.level # "hourly", NEW q \in BoundaryCandidate(req, data, kind, bound)
      PROVE  /\ q \in SelectBoundary(data, kind, bound) /\ BoundaryCandidate(req, data, kind, bound) = {q}
             /\ 2 * (bound - q.ts) <= Width(req, bound)
  <2>1. q \in SelectBoundary(data, kind, bound) /\ 2 * (bound - q.ts) <= BoundaryTolerance(req, kind, bound)
    BY <1>4 DEF BoundaryCandidate
  <2>2. SelectBoundary(data, kind, bound) = {q} /\ q.ts \in 0..(instant - 1) BY <1>3, <2>1
  <2>3. 2 * (bound - q.ts) \in Int BY <1>2, <2>2
  <2>4. kind \in Snapshots BY BoundaryKindsAre
  <2>5. 2 * (bound - q.ts) <= Width(req, bound) BY <1>4, <2>1, <2>3, <2>4, Tolerated
  <2>6. BoundaryCandidate(req, data, kind, bound) = {q}
    <3>1. BoundaryCandidate(req, data, kind, bound) \subseteq {q} BY <2>2 DEF BoundaryCandidate
    <3> QED BY <1>4, <3>1
  <2> QED BY <2>1, <2>5, <2>6
<1>5. CASE req.level = "hourly"
  <2>1. ResolveBoundary(req, data, bound) = SelectBoundary(data, "load_profile", bound)
    BY <1>5 DEF ResolveBoundary, UsesBilling
  <2>2. "load_profile" \in BoundaryKinds(req.level) BY BoundaryKindsAre
  <2> QED BY <1>3, <1>5, <2>1, <2>2, BoundaryKindsAre
<1>6. CASE req.level # "hourly"
  <2>1. PICK kind \in BoundaryKinds(req.level) : ResolveBoundary(req, data, bound) = BoundaryCandidate(req, data, kind, bound)
    <3>1. CASE UsesBilling(req, bound) /\ BoundaryCandidate(req, data, "billing", bound) # {}
      <4>1. ResolveBoundary(req, data, bound) = BoundaryCandidate(req, data, "billing", bound)
        BY <1>6, <3>1 DEF ResolveBoundary
      <4>2. "billing" \in BoundaryKinds(req.level)
        BY <3>1 DEF UsesBilling, BoundaryKinds, Snapshots
      <4> QED BY <4>1, <4>2
    <3>2. CASE ~(UsesBilling(req, bound) /\ BoundaryCandidate(req, data, "billing", bound) # {})
      <4>1. ResolveBoundary(req, data, bound) =
              IF BoundaryCandidate(req, data, "load_profile", bound) # {}
              THEN BoundaryCandidate(req, data, "load_profile", bound) ELSE BoundaryCandidate(req, data, "daily", bound)
        BY <1>6, <3>2 DEF ResolveBoundary
      <4>2. "load_profile" \in BoundaryKinds(req.level) /\ "daily" \in BoundaryKinds(req.level)
        BY <1>6 DEF BoundaryKinds, Snapshots
      <4> QED BY <4>1, <4>2
    <3> QED BY <3>1, <3>2
  <2>2. r \in BoundaryCandidate(req, data, kind, bound) BY <2>1
  <2>3. /\ r \in SelectBoundary(data, kind, bound) /\ BoundaryCandidate(req, data, kind, bound) = {r}
        /\ 2 * (bound - r.ts) <= Width(req, bound)
    BY <1>4, <1>6, <2>2
  <2> QED BY <1>3, <1>6, <2>1, <2>3, BoundaryKindsAre
<1> QED BY <1>5, <1>6

(***************************************************************************)
(* What is derived between two boundary readings                           *)
(***************************************************************************)
(* sh is what the meter in place after o showed at o.                        *)
Opens(F, o, sh) ==
  \E p \in Replacements : /\ p <= o /\ \A r \in swaps : ~(p < r /\ r <= o)
                          /\ sh = Reads(F, p, o)

LEMMA UsedType ==
  ASSUME MeterTyped
  PROVE  /\ instant \in Nat
         /\ \A t \in 0..(instant - 1) : Used(t) = used[t] /\ used[t] \in Nat
         /\ \A p \in Replacements : p \in (-1)..(instant - 1) /\ Used(p) \in Nat
<1>1. instant \in Nat BY MeterAssumption DEF MeterTyped
<1>2. \A t \in 0..(instant - 1) : Used(t) = used[t] /\ used[t] \in Nat
  BY <1>1 DEF MeterTyped, Used
<1>3. ASSUME NEW p \in Replacements PROVE p \in (-1)..(instant - 1) /\ Used(p) \in Nat
  <2>1. p \in (-1)..(instant - 1) BY LastMeter
  <2>2. CASE p = -1 BY <2>1, <2>2 DEF Used
  <2>3. CASE p # -1
    <3>1. p \in 0..(instant - 1) BY <1>1, <2>1, <2>3
    <3> QED BY <1>2, <2>1, <3>1
  <2> QED BY <2>2, <2>3
<1> QED BY <1>1, <1>2, <1>3

(* Without a replacement in between, a reading counts the usage from o on.   *)
LEMMA Counted ==
  ASSUME MeterTyped, NEW F \in [Replacements -> Nat], Shows(F),
         NEW o \in 0..(instant - 1), NEW sh, Opens(F, o, sh),
         NEW k \in Snapshots, NEW t \in DOMAIN stored[k], stored[k][t] # Blank,
         o <= t, t \notin swaps, \A r \in swaps : ~(o < r /\ r <= t)
  PROVE  /\ sh \in Int /\ used[o] \in Nat /\ used[t] \in Nat /\ used[o] <= used[t]
         /\ stored[k][t] = sh + used[t] - used[o]
<1>1. PICK p \in Replacements : /\ p <= o /\ \A r \in swaps : ~(p < r /\ r <= o)
                                /\ sh = Reads(F, p, o)
  BY DEF Opens
<1>2. PICK q \in Metering(t) : stored[k][t] = Reads(F, q, t)
  BY DEF Shows, Showing
<1>3. q \in Replacements /\ q <= t /\ \A r \in swaps : ~(q < r /\ r < t)
  BY <1>2 DEF Metering
<1>4. t \in 0..(instant - 1) BY DEF MeterTyped
<1>5. p \in (-1)..(instant - 1) /\ q \in (-1)..(instant - 1) /\ instant \in Nat
  BY <1>3, UsedType
<1>6. (p = -1 \/ p \in swaps) /\ (q = -1 \/ q \in swaps) BY <1>3 DEF Replacements
<1>7. \A r \in swaps : r \in Nat BY <1>5 DEF MeterTyped
<1>8. p = q
  <2>1. CASE p < q
    <3>1. q \in swaps BY <1>5, <1>6, <2>1
    <3>2. q <= o \/ o < q BY <1>5
    <3> QED BY <1>1, <1>3, <2>1, <3>1, <3>2
  <2>2. CASE q < p
    <3>1. p \in swaps BY <1>5, <1>6, <2>2
    <3>2. p # t BY <3>1
    <3>3. p < t BY <1>1, <1>4, <1>5, <3>2
    <3> QED BY <1>3, <2>2, <3>1, <3>3
  <2> QED BY <1>5, <2>1, <2>2
<1>9. PICK a, b, c, f : a = used[o] /\ b = used[t] /\ c = Used(p) /\ f = F[p] OBVIOUS
<1>10. a \in Nat /\ b \in Nat /\ c \in Nat /\ f \in Nat /\ a = Used(o) /\ b = Used(t)
  BY <1>1, <1>4, <1>9, UsedType
<1>11. sh = f + a - c /\ stored[k][t] = f + b - c
  BY <1>1, <1>2, <1>8, <1>9, <1>10 DEF Reads
<1>12. a <= b BY <1>4, <1>9 DEF MeterTyped
<1> QED BY <1>9, <1>10, <1>11, <1>12

(* The first reading of a pair, and a reset row, open a segment.             *)
LEMMA ReadingOpens ==
  ASSUME MeterTyped, NEW F \in [Replacements -> Nat], Shows(F),
         NEW k \in Snapshots, NEW t \in DOMAIN stored[k], stored[k][t] # Blank,
         t \in swaps => stored[k][t] = stored["reset"][t]
  PROVE  Opens(F, t, stored[k][t])
<1>1. t \in 0..(instant - 1) /\ instant \in Nat BY UsedType DEF MeterTyped
<1>2. \A p \in Replacements : p \in (-1)..(instant - 1) BY UsedType
<1>3. CASE t \in swaps
  <2>1. stored[k][t] = F[t] BY <1>3 DEF Shows
  <2>2. F[t] \in Nat /\ Used(t) \in Nat /\ t \in Replacements BY <1>1, <1>3, UsedType DEF Replacements
  <2>3. PICK f, a : f = F[t] /\ a = Used(t) OBVIOUS
  <2>4. Reads(F, t, t) = f + a - a BY <2>3 DEF Reads
  <2>5. f + a - a = f BY <2>2, <2>3
  <2>6. t <= t /\ \A r \in swaps : ~(t < r /\ r <= t) BY <1>1, <1>2 DEF Replacements
  <2> QED BY <2>1, <2>2, <2>3, <2>4, <2>5, <2>6 DEF Opens
<1>4. CASE t \notin swaps
  <2>1. PICK q \in Metering(t) : stored[k][t] = Reads(F, q, t)
    BY DEF Shows, Showing
  <2>2. q \in Replacements /\ q <= t /\ \A r \in swaps : ~(q < r /\ r < t)
    BY <2>1 DEF Metering
  <2>3. \A r \in swaps : ~(q < r /\ r <= t)
    <3> SUFFICES ASSUME NEW r \in swaps, q < r, r <= t PROVE FALSE
      OBVIOUS
    <3>1. r # t /\ r \in Int BY <1>2, <1>4 DEF Replacements
    <3> QED BY <1>1, <2>2, <3>1
  <2> QED BY <2>1, <2>2, <2>3 DEF Opens
<1> QED BY <1>3, <1>4

LEMMA ResetOpens ==
  ASSUME MeterTyped, NEW F \in [Replacements -> Nat], Shows(F),
         NEW r \in swaps, stored["reset"][r] # Blank
  PROVE  Opens(F, r, stored["reset"][r])
<1>1. stored["reset"][r] = F[r] BY DEF Shows
<1>2. r \in Replacements BY DEF Replacements
<1>3. \A p \in Replacements : p \in Int BY UsedType
<1>4. F[r] \in Nat /\ Used(r) \in Nat BY <1>2, UsedType
<1>5. PICK f, a : f = F[r] /\ a = Used(r) OBVIOUS
<1>6. Reads(F, r, r) = f + a - a BY <1>5 DEF Reads
<1>7. f + a - a = f BY <1>4, <1>5
<1>8. r <= r /\ \A x \in swaps : ~(r < x /\ x <= r) BY <1>2, <1>3 DEF Replacements
<1> QED BY <1>1, <1>2, <1>5, <1>6, <1>7, <1>8 DEF Opens

(* The segment an old meter closes: before its reset it counted the usage up *)
(* to its last load profile.                                                 *)
Closes(F, data, o, sh, r, b, seen, un) ==
  /\ \A t \in DOMAIN stored["load_profile"] : o < t /\ t < r => t \in data["load_profile"]
  /\ data["load_profile"] \subseteq DOMAIN stored["load_profile"]
  /\ o \in 0..(instant - 1) /\ Opens(F, o, sh)
  /\ r \in swaps /\ o < r /\ \A x \in swaps : ~(o < x /\ x < r)
  /\ b = PriorValueBefore(data, o, r) /\ b # Blank
  /\ \A t : t \in seen <=> t \in DOMAIN stored["load_profile"] /\ t < r
  /\ un = used[r] - (IF seen = {} THEN 0 ELSE used[Max(seen)])

LEMMA Segment ==
  ASSUME MeterTyped, NEW F \in [Replacements -> Nat], Shows(F),
         NEW data, NEW o, NEW sh, NEW r, NEW b, NEW seen, NEW un,
         Closes(F, data, o, sh, r, b, seen, un)
  PROVE  /\ un \in Int /\ b - sh \in Int /\ 0 <= b - sh
         /\ used[r] \in Int /\ used[o] \in Int /\ b - sh = used[r] - used[o] - un
<1> USE DEF Closes
<1>1. PICK priors : priors = {t \in data["load_profile"] : o < t /\ t < r} OBVIOUS
<1>2. instant \in Nat /\ r \in 0..(instant - 1) /\ o \in Int
  <2>1. instant \in Nat BY UsedType
  <2>2. r \in 1..(instant - 1) BY DEF MeterTyped
  <2> QED BY <2>1, <2>2
<1>3. DOMAIN stored["load_profile"] \subseteq 0..(instant - 1)
  BY DEF MeterTyped, Snapshots
<1>4. priors # {} /\ b = stored["load_profile"][Max(priors)]
  BY <1>1 DEF PriorValueBefore
<1>5. IsFiniteSet(priors) /\ priors \subseteq Int /\ IsFiniteSet(seen) /\ seen \subseteq Int
  <2>1. priors \subseteq 0..(instant - 1) /\ seen \subseteq 0..(instant - 1) BY <1>1, <1>3
  <2>2. 0 \in Int /\ instant - 1 \in Int BY <1>2
  <2> QED BY <2>1, <2>2, IntervalPart
<1>6. PICK m : m = Max(priors) OBVIOUS
<1>7. m \in priors /\ \A y \in priors : y <= m
  BY <1>4, <1>5, <1>6, Extremes
<1>8. m \in DOMAIN stored["load_profile"] /\ o < m /\ m < r /\ m \in 0..(instant - 1)
  BY <1>1, <1>3, <1>7
<1>9. m \in seen /\ \A y \in seen : y <= m
  <2> SUFFICES ASSUME NEW y \in seen PROVE y <= m
    BY <1>8
  <2>1. y \in DOMAIN stored["load_profile"] /\ y < r /\ y \in Int BY <1>5
  <2>2. CASE y <= o BY <1>2, <1>8, <2>1, <2>2
  <2>3. CASE o < y
    <3>2. y \in priors BY <1>1, <2>1, <2>3
    <3> QED BY <1>7, <3>2
  <2> QED BY <1>2, <2>1, <2>2, <2>3
<1>10. Max(seen) = m
  <2>1. Max(seen) \in seen /\ \A y \in seen : y <= Max(seen) BY <1>5, <1>9, Extremes
  <2>2. Max(seen) \in Int /\ m \in Int BY <1>5, <1>9, <2>1
  <2>3. Max(seen) <= m /\ m <= Max(seen) BY <1>9, <2>1
  <2> QED BY <2>2, <2>3
<1>11. un = used[r] - used[m]
  BY <1>9, <1>10
<1>12. m \notin swaps /\ \A x \in swaps : ~(o < x /\ x <= m)
  <2>1. m \notin swaps BY <1>8
  <2>2. \A x \in swaps : x \in Int BY <1>2 DEF MeterTyped
  <2>3. ASSUME NEW x \in swaps, o < x, x <= m PROVE FALSE
    <3>1. x < r BY <1>2, <1>8, <2>2, <2>3
    <3> QED BY <2>3, <3>1
  <2> QED BY <2>1, <2>3
<1>13. /\ sh \in Int /\ used[o] \in Nat /\ used[m] \in Nat /\ used[o] <= used[m]
       /\ stored["load_profile"][m] = sh + used[m] - used[o]
  <2>1. "load_profile" \in Snapshots BY DEF Snapshots
  <2>2. stored["load_profile"][m] # Blank /\ o <= m BY <1>2, <1>4, <1>6, <1>8
  <2> QED BY <1>8, <1>12, <2>1, <2>2, Counted
<1>14. used[r] \in Nat BY <1>2, UsedType
<1>15. PICK uo, um, ur : uo = used[o] /\ um = used[m] /\ ur = used[r] OBVIOUS
<1>16. /\ uo \in Nat /\ um \in Nat /\ ur \in Nat /\ sh \in Int /\ uo <= um
       /\ b = sh + um - uo /\ un = ur - um
  BY <1>4, <1>6, <1>11, <1>13, <1>14, <1>15
<1>17. b - sh = um - uo /\ um - uo \in Int /\ 0 <= um - uo /\ un \in Int /\ um - uo = ur - uo - un
  <2>1. sh + um - uo - sh = um - uo BY <1>16
  <2> QED BY <1>16, <2>1
<1>18. PICK g : g = b - sh OBVIOUS
<1>19. g \in Int /\ 0 <= g /\ un \in Int /\ ur \in Int /\ uo \in Int /\ g = ur - uo - un
  BY <1>16, <1>17, <1>18
<1> QED BY <1>15, <1>18, <1>19

(* What is derived from a pair of readings: the usage of their span that the *)
(* load profiles can tell, or nothing.                                       *)
LEMMA Derived ==
  ASSUME MeterTyped, NEW F \in [Replacements -> Nat], Shows(F),
         NEW from \in Int, NEW upto \in Int,
         NEW data, data["load_profile"] = {t \in DOMAIN stored["load_profile"] : from <= t /\ t <= upto},
         data["reset"] = {t \in swaps : from <= t /\ t <= upto},
         NEW s, s.kind \in Snapshots, s.ts \in DOMAIN stored[s.kind], from <= s.ts,
         NEW e, e.kind \in Snapshots, e.ts \in DOMAIN stored[e.kind], s.ts < e.ts, e.ts <= upto,
         NEW d, d = DeriveRegister(data, s, e)
  PROVE  /\ d.verdict \in {"sound", "meter_reset", "unreported"}
         /\ d.verdict = "sound" => d.value = Metered(s.ts, e.ts)
         /\ d.verdict = "meter_reset" => swaps \cap (s.ts..e.ts) # {}
<1> DEFINE resets == {t \in data["reset"] : s.ts < t /\ t <= e.ts}
           last(ts) == Max({s.ts} \cup ts)
           shown(t) == IF t = s.ts THEN ValueOf(s) ELSE stored["reset"][t]
           opening(r) == last({t \in resets : t < r})
           before(r) == PriorValueBefore(data, opening(r), r)
           segment == [r \in resets |-> before(r) - shown(opening(r))]
           closing == ValueOf(e) - shown(last(resets))
           startMismatch == s.ts \in data["reset"] /\ ValueOf(s) # stored["reset"][s.ts]
           endMismatch == e.ts \in resets /\ ValueOf(e) # stored["reset"][e.ts]
           unusable == \E r \in resets : Blank \in {stored["reset"][r], before(r)}
           unreported == Blank \in {ValueOf(s), ValueOf(e)}
           mismatch == startMismatch \/ unusable \/ endMismatch
           negative == closing < 0 \/ \E r \in resets : segment[r] < 0
           total == closing + SumFunctionOnSet(segment, resets)
<1>1. d = IF unreported THEN [verdict |-> "unreported"]
          ELSE IF mismatch THEN [verdict |-> "meter_reset"]
          ELSE IF negative THEN [verdict |-> "negative_delta"]
          ELSE [verdict |-> "sound", value |-> total]
  BY DEF DeriveRegister
<1>2. instant \in Nat /\ s.ts \in 0..(instant - 1) /\ e.ts \in 0..(instant - 1)
  BY UsedType DEF MeterTyped
<1>3. resets = {r \in swaps : s.ts < r /\ r <= e.ts}
  <2>1. \A r \in swaps : r \in Int BY <1>2 DEF MeterTyped
  <2> QED BY <1>2, <2>1
<1>4. (s.ts \in data["reset"] <=> s.ts \in swaps) /\ (e.ts \in resets <=> e.ts \in swaps)
  <2>1. s.ts <= upto BY <1>2
  <2> QED BY <1>2, <1>3, <2>1
<1>5. resets \subseteq 0..(instant - 1) /\ resets \subseteq swaps
  <2>1. swaps \subseteq 1..(instant - 1) BY DEF MeterTyped
  <2>2. resets \subseteq swaps BY <1>3
  <2>3. 1..(instant - 1) \subseteq 0..(instant - 1) BY <1>2
  <2> HIDE DEF resets
  <2> QED BY <2>1, <2>2, <2>3
<1>6. mismatch => swaps \cap (s.ts..e.ts) # {}
  <2>1. \A r \in resets : r \in swaps \cap (s.ts..e.ts) BY <1>2, <1>3, <1>5
  <2>2. s.ts \in swaps => s.ts \in swaps \cap (s.ts..e.ts) BY <1>2
  <2>3. mismatch => s.ts \in data["reset"] \/ (\E r \in resets : TRUE) OBVIOUS
  <2> HIDE DEF mismatch, resets
  <2> QED BY <1>4, <2>1, <2>2, <2>3
<1> HIDE DEF resets
<1>7. ASSUME NEW ts \in SUBSET resets
      PROVE  /\ last(ts) \in {s.ts} \cup ts /\ \A y \in {s.ts} \cup ts : y <= last(ts)
             /\ IsFiniteSet(ts)
  <2>1. {s.ts} \cup ts \subseteq 0..(instant - 1) /\ ts \subseteq 0..(instant - 1) BY <1>2, <1>5
  <2>2. 0 \in Int /\ instant - 1 \in Int BY <1>2
  <2>3. IsFiniteSet({s.ts} \cup ts) /\ {s.ts} \cup ts \subseteq Int /\ IsFiniteSet(ts) BY <2>1, <2>2, IntervalPart
  <2> QED BY <2>3, Extremes
<1> HIDE DEF last
<1>8. ASSUME ~unreported, ~mismatch, NEW o \in {s.ts} \cup resets
      PROVE  Opens(F, o, shown(o)) /\ o \in 0..(instant - 1)
  <2>1. CASE o = s.ts
    <3>1. ValueOf(s) = stored[s.kind][s.ts] /\ ValueOf(s) # Blank BY <1>8 DEF ValueOf
    <3>2. s.ts \in swaps => ValueOf(s) = stored["reset"][s.ts] BY <1>4, <1>8
    <3>3. Opens(F, s.ts, ValueOf(s)) BY <3>1, <3>2, ReadingOpens
    <3> QED BY <1>2, <2>1, <3>3
  <2>2. CASE o # s.ts
    <3>1. o \in swaps /\ o \in resets BY <1>5, <1>8, <2>2
    <3>2. stored["reset"][o] # Blank BY <1>8, <3>1
    <3>3. Opens(F, o, stored["reset"][o]) BY <3>1, <3>2, ResetOpens
    <3> QED BY <1>5, <2>2, <3>1, <3>3
  <2> QED BY <2>1, <2>2
<1> DEFINE seen(r) == {t \in DOMAIN stored["load_profile"] : t < r}
           unseen == [r \in resets |-> used[r] - (IF seen(r) = {} THEN 0 ELSE used[Max(seen(r))])]
<1>9. ASSUME ~unreported, ~mismatch, NEW r \in resets
      PROVE  /\ unseen[r] \in Int /\ segment[r] \in Int /\ 0 <= segment[r] /\ used[r] \in Int
             /\ \E o \in {s.ts} \cup resets : /\ o < r /\ \A t \in resets : t < r => t <= o
                                             /\ segment[r] = used[r] - used[o] - unseen[r]
  <2>1. PICK o : o = opening(r) OBVIOUS
  <2>2. o \in {s.ts} \cup {t \in resets : t < r} /\ \A y \in {s.ts} \cup {t \in resets : t < r} : y <= o
    <3>1. {t \in resets : t < r} \in SUBSET resets OBVIOUS
    <3> QED BY <1>7, <2>1, <3>1
  <2>3. r \in swaps /\ s.ts < r /\ r <= e.ts /\ r \in 0..(instant - 1) BY <1>3, <1>5
  <2>4. o \in 0..(instant - 1) /\ o < r /\ from <= o /\ r <= upto
    <3>1. o \in 0..(instant - 1) BY <1>2, <1>5, <2>2
    <3>2. s.ts <= o /\ o < r BY <2>2, <2>3
    <3> QED BY <1>2, <2>3, <3>1, <3>2
  <2>5. PICK sh, b, sn, un : /\ sh = shown(o) /\ b = before(r) /\ sn = seen(r)
                             /\ un = used[r] - (IF sn = {} THEN 0 ELSE used[Max(sn)])
    OBVIOUS
  <2>6. Opens(F, o, sh) BY <1>8, <1>9, <2>2, <2>5
  <2>11. (\A t : t \in sn <=> t \in DOMAIN stored["load_profile"] /\ t < r) /\ un = used[r] - (IF sn = {} THEN 0 ELSE used[Max(sn)])
    BY <2>5
  <2>7. \A x \in swaps : ~(o < x /\ x < r)
    <3> SUFFICES ASSUME NEW x \in swaps, o < x, x < r PROVE FALSE
      OBVIOUS
    <3>1. x \in Int BY <1>2 DEF MeterTyped
    <3>2. s.ts <= o BY <2>2
    <3>3. s.ts < x /\ x <= e.ts BY <1>2, <2>3, <2>4, <3>1, <3>2
    <3>4. x \in resets BY <1>3, <3>3
    <3>5. x <= o BY <2>2, <3>4
    <3> QED BY <2>4, <3>1, <3>5
  <2>8. b = PriorValueBefore(data, o, r) /\ b # Blank BY <1>9, <2>1, <2>5
  <2>9. /\ un \in Int /\ b - sh \in Int /\ 0 <= b - sh
        /\ used[r] \in Int /\ used[o] \in Int /\ b - sh = used[r] - used[o] - un
    <3>1. \A t \in DOMAIN stored["load_profile"] : o < t /\ t < r => t \in data["load_profile"]
      <4> SUFFICES ASSUME NEW t \in DOMAIN stored["load_profile"], o < t, t < r PROVE from <= t /\ t <= upto
        OBVIOUS
      <4>1. t \in 0..(instant - 1) BY DEF MeterTyped, Snapshots
      <4> QED BY <1>2, <2>3, <2>4, <4>1
    <3>2. data["load_profile"] \subseteq DOMAIN stored["load_profile"] OBVIOUS
    <3> HIDE DEF seen, before, opening, shown
    <3>3. Closes(F, data, o, sh, r, b, sn, un) BY <2>3, <2>4, <2>6, <2>7, <2>8, <2>11, <3>1, <3>2 DEF Closes
    <3> QED BY <3>3, Segment
  <2>10. segment[r] = b - sh /\ unseen[r] = un BY <2>1, <2>5
  <2>13. o \in {s.ts} \cup resets /\ \A t \in resets : t < r => t <= o BY <2>2
  <2> HIDE DEF segment, unseen, opening
  <2> QED BY <2>4, <2>9, <2>10, <2>13
<1>10. ASSUME ~unreported, ~mismatch
       PROVE  /\ closing \in Int /\ 0 <= closing /\ closing = used[e.ts] - used[last(resets)]
              /\ used[e.ts] \in Int /\ used[last(resets)] \in Int
  <2>1. PICK o : o = last(resets) OBVIOUS
  <2>2. o \in {s.ts} \cup resets /\ \A y \in {s.ts} \cup resets : y <= o BY <1>7, <2>1
  <2>3. PICK sh, v : sh = shown(o) /\ v = ValueOf(e) OBVIOUS
  <2>4. Opens(F, o, sh) /\ o \in 0..(instant - 1) BY <1>8, <1>10, <2>2, <2>3
  <2>5. closing = v - sh BY <2>1, <2>3
  <2>6. used[e.ts] \in Nat /\ used[o] \in Nat BY <1>2, <2>4, UsedType
  <2>7. o <= e.ts BY <1>2, <1>3, <2>2
  <2>8. v = stored[e.kind][e.ts] /\ v # Blank BY <1>10, <2>3 DEF ValueOf
  <2>9. CASE e.ts \in swaps
    <3>1. e.ts \in resets /\ e.ts <= o BY <1>4, <2>2, <2>9
    <3>2. o = e.ts BY <1>2, <2>4, <2>7, <3>1
    <3>3. v = sh /\ o # s.ts BY <1>2, <1>10, <2>3, <3>1, <3>2
    <3>4. sh \in Int
      <4>1. PICK p \in Replacements : sh = Reads(F, p, o) BY <2>4 DEF Opens
      <4>2. Used(p) \in Nat /\ Used(o) \in Nat /\ F[p] \in Nat BY <2>4, <4>1, UsedType
      <4> QED BY <4>1, <4>2 DEF Reads
    <3>5. v - sh = 0 /\ used[e.ts] - used[o] = 0 BY <2>6, <3>2, <3>3, <3>4
    <3> QED BY <2>1, <2>5, <2>6, <3>5
  <2>10. CASE e.ts \notin swaps
    <3>1. \A x \in swaps : ~(o < x /\ x <= e.ts)
      <4> SUFFICES ASSUME NEW x \in swaps, o < x, x <= e.ts PROVE FALSE
        OBVIOUS
      <4>1. x \in Int BY <1>2 DEF MeterTyped
      <4>2. s.ts < x BY <1>2, <2>2, <2>4, <4>1
      <4>3. x \in resets BY <1>3, <4>2
      <4> QED BY <2>2, <2>4, <4>1, <4>3
    <3>2. /\ sh \in Int /\ used[o] \in Nat /\ used[e.ts] \in Nat /\ used[o] <= used[e.ts]
          /\ v = sh + used[e.ts] - used[o]
      BY <2>4, <2>7, <2>8, <2>10, <3>1, Counted
    <3>3. PICK a, b : a = used[o] /\ b = used[e.ts] OBVIOUS
    <3>4. v - sh \in Int /\ 0 <= v - sh /\ v - sh = b - a BY <3>2, <3>3
    <3> QED BY <2>1, <2>5, <2>6, <3>3, <3>4
  <2> QED BY <2>9, <2>10
<1> HIDE DEF unseen, segment, closing, mismatch, unreported
<1>11. ASSUME ~unreported, ~mismatch
       PROVE  ~negative /\ total = Metered(s.ts, e.ts)
  <2>1. ~negative
    <3>1. ~(closing < 0) BY <1>10, <1>11
    <3>2. ASSUME NEW r \in resets PROVE ~(segment[r] < 0)
      <4>1. segment[r] \in Int /\ 0 <= segment[r] BY <1>9, <1>11
      <4>2. PICK g : g = segment[r] OBVIOUS
      <4> QED BY <4>1, <4>2
    <3> QED BY <3>1, <3>2
  <2>2. IsFiniteSet(resets) /\ resets \subseteq Int BY <1>5, <1>7
  <2>3. s.ts \in Int /\ \A r \in resets : s.ts < r BY <1>2, <1>3
  <2>4. used[s.ts] \in Int BY <1>2, UsedType
  <2>5. \A r \in resets \cup {s.ts} : used[r] \in Int BY <1>9, <1>11, <2>4
  <2>6. \A r \in resets : /\ unseen[r] \in Int
                          /\ \E o \in {s.ts} \cup resets : /\ o < r /\ \A t \in resets : t < r => t <= o
                                                          /\ segment[r] = used[r] - used[o] - unseen[r]
    BY <1>9, <1>11
  <2>7. SumFunctionOnSet(segment, resets) =
          used[last(resets)] - used[s.ts] - SumFunctionOnSet(unseen, resets)
    <3>1. PICK R, i, U, un, sg : R = resets /\ i = s.ts /\ U = used /\ un = unseen /\ sg = segment
      OBVIOUS
    <3>2. IsFiniteSet(R) /\ R \subseteq Int /\ i \in Int /\ \A r \in R : i < r BY <2>2, <2>3, <3>1
    <3>3. \A r \in R \cup {i} : U[r] \in Int BY <2>5, <3>1
    <3>4. \A r \in R : un[r] \in Int BY <2>6, <3>1
    <3>5. \A r \in R : \E o \in {i} \cup R : /\ o < r /\ \A t \in R : t < r => t <= o
                                           /\ sg[r] = U[r] - U[o] - un[r]
      BY <2>6, <3>1
    <3>6. PICK l : l = last(resets) OBVIOUS
    <3>7. l \in {i} \cup R /\ \A r \in R : r <= l
      <4>1. resets \in SUBSET resets OBVIOUS
      <4> QED BY <1>7, <3>1, <3>6, <4>1
    <3>8. SumFunctionOnSet(sg, R) = U[l] - U[i] - SumFunctionOnSet(un, R)
      <4>1. Steps(sg, R, i, l, U, un) BY <3>2, <3>3, <3>4, <3>5, <3>7 DEF Steps
      <4> QED BY <4>1, Telescope
    <3> QED BY <3>1, <3>6, <3>8
  <2>8. SumFunctionOnSet(unseen, resets) \in Int
    <3>1. Valued(unseen, resets) BY <2>2, <2>6 DEF Valued
    <3> QED BY <3>1, SumType
  <2>9. Metered(s.ts, e.ts) = used[e.ts] - used[s.ts] - SumFunctionOnSet(unseen, resets)
    BY <1>3 DEF Metered, unseen
  <2>10. PICK ul, us, ue, n, g, c : /\ ul = used[last(resets)] /\ us = used[s.ts] /\ ue = used[e.ts]
                                    /\ n = SumFunctionOnSet(unseen, resets)
                                    /\ g = SumFunctionOnSet(segment, resets) /\ c = closing
    OBVIOUS
  <2>11. /\ ul \in Int /\ us \in Int /\ ue \in Int /\ n \in Int
         /\ g = ul - us - n /\ c = ue - ul
    BY <1>10, <1>11, <2>4, <2>7, <2>8, <2>10
  <2>12. c + g = ue - us - n BY <2>11
  <2> QED BY <2>1, <2>9, <2>10, <2>12
<1> HIDE DEF negative, total
<1>12. CASE unreported BY <1>1, <1>12
<1>13. CASE ~unreported /\ mismatch BY <1>1, <1>6, <1>13
<1>14. CASE ~unreported /\ ~mismatch
  <2>1. d = [verdict |-> "sound", value |-> total] BY <1>1, <1>11, <1>14
  <2> QED BY <1>11, <1>14, <2>1
<1> QED BY <1>12, <1>13, <1>14

(***************************************************************************)
(* The rows of a request                                                   *)
(***************************************************************************)
RowOf(req, w, data, s, e) ==
  [request |-> req, window |-> w, from |-> s.ts, to |-> e.ts, derived |-> DeriveRegister(data, s, e)]

LEMMA RowsAre ==
  ASSUME NEW req, NEW data, data = LoadAnalyzerBoundaryData(req)
  PROVE  \A row : row \in ConsumptionRows(req) <=>
           \E w \in Windows(req) : \E s \in ResolveBoundary(req, data, w.from), e \in ResolveBoundary(req, data, w.to) :
             ClosedBucket(w, instant) /\ s.ts < e.ts /\ row = RowOf(req, w, data, s, e)
<1> DEFINE pairs(w) == {q \in ResolveBoundary(req, data, w.from) \X ResolveBoundary(req, data, w.to) : q[1].ts < q[2].ts}
           rowsOf(w) == {RowOf(req, w, data, p[1], p[2]) : p \in pairs(w)}
           closed == {w \in Windows(req) : ClosedBucket(w, instant)}
<1>1. ConsumptionRows(req) = UNION {rowsOf(w) : w \in closed}
  BY DEF ConsumptionRows, RowOf
<1>2. \A w, row : row \in rowsOf(w) <=>
        \E s \in ResolveBoundary(req, data, w.from), e \in ResolveBoundary(req, data, w.to) :
          s.ts < e.ts /\ row = RowOf(req, w, data, s, e)
  <2> SUFFICES ASSUME NEW w, NEW row
               PROVE  row \in rowsOf(w) <=>
                        \E s \in ResolveBoundary(req, data, w.from), e \in ResolveBoundary(req, data, w.to) :
                          s.ts < e.ts /\ row = RowOf(req, w, data, s, e)
    OBVIOUS
  <2>1. ASSUME row \in rowsOf(w)
        PROVE  \E s \in ResolveBoundary(req, data, w.from), e \in ResolveBoundary(req, data, w.to) :
                 s.ts < e.ts /\ row = RowOf(req, w, data, s, e)
    <3>1. PICK p \in pairs(w) : row = RowOf(req, w, data, p[1], p[2]) BY <2>1
    <3>2. p[1] \in ResolveBoundary(req, data, w.from) /\ p[2] \in ResolveBoundary(req, data, w.to) /\ p[1].ts < p[2].ts
      OBVIOUS
    <3> QED BY <3>1, <3>2
  <2>2. ASSUME NEW s \in ResolveBoundary(req, data, w.from), NEW e \in ResolveBoundary(req, data, w.to),
               s.ts < e.ts, row = RowOf(req, w, data, s, e)
        PROVE  row \in rowsOf(w)
    <3>1. <<s, e>> \in pairs(w) BY <2>2
    <3>2. <<s, e>>[1] = s /\ <<s, e>>[2] = e OBVIOUS
    <3> HIDE DEF pairs
    <3> QED BY <2>2, <3>1, <3>2
  <2> HIDE DEF rowsOf
  <2> QED BY <2>1, <2>2
<1>3. \A row : row \in ConsumptionRows(req) <=> \E w \in Windows(req) : ClosedBucket(w, instant) /\ row \in rowsOf(w)
  <2> HIDE DEF rowsOf
  <2> QED BY <1>1
<1> HIDE DEF rowsOf
<1> QED BY <1>2, <1>3

LEMMA RowParts ==
  ASSUME NEW req, NEW row \in ConsumptionRows(req), NEW data, data = LoadAnalyzerBoundaryData(req)
  PROVE  /\ row.window \in Windows(req)
         /\ \E s \in ResolveBoundary(req, data, row.window.from), e \in ResolveBoundary(req, data, row.window.to) :
              s.ts < e.ts /\ row.from = s.ts /\ row.to = e.ts /\ row.derived = DeriveRegister(data, s, e)
<1>1. PICK w \in Windows(req) : \E s \in ResolveBoundary(req, data, w.from), e \in ResolveBoundary(req, data, w.to) :
        ClosedBucket(w, instant) /\ s.ts < e.ts /\ row = RowOf(req, w, data, s, e)
  BY RowsAre
<1>2. PICK s \in ResolveBoundary(req, data, w.from), e \in ResolveBoundary(req, data, w.to) :
        s.ts < e.ts /\ row = RowOf(req, w, data, s, e)
  BY <1>1
<1>3. row.window = w /\ row.from = s.ts /\ row.to = e.ts /\ row.derived = DeriveRegister(data, s, e)
  BY <1>2 DEF RowOf
<1> QED BY <1>2, <1>3

(* Every number is the usage of its span.                                    *)
LEMMA RowSound ==
  ASSUME MeterTyped, NEW F \in [Replacements -> Nat], Shows(F),
         NEW req \in Series, NEW row \in ConsumptionRows(req)
  PROVE  SoundRow(row)
<1>1. PICK data : data = LoadAnalyzerBoundaryData(req) OBVIOUS
<1>2. PICK w : w = row.window OBVIOUS
<1>3. w \in Windows(req) BY <1>1, <1>2, RowParts
<1>4. PICK s \in ResolveBoundary(req, data, w.from), e \in ResolveBoundary(req, data, w.to) :
        s.ts < e.ts /\ row.from = s.ts /\ row.to = e.ts /\ row.derived = DeriveRegister(data, s, e)
  BY <1>1, <1>2, RowParts
<1>5. /\ s.kind \in Snapshots /\ s.ts \in DOMAIN stored[s.kind] /\ Earliest(req) <= s.ts
      /\ e.kind \in Snapshots /\ e.ts \in DOMAIN stored[e.kind] /\ e.ts <= w.to /\ e.ts \in 0..(instant - 1)
  <2>1. w.from \in {w.from, w.to} /\ w.to \in {w.from, w.to} OBVIOUS
  <2> QED BY <1>1, <1>3, <2>1, BoundaryResolved
<1>6. Earliest(req) \in Int /\ Final(req) \in Int /\ w.to \in Int /\ w.to <= Final(req)
  BY <1>3, EarliestLeast, WindowBounds
<1>7. e.ts <= Final(req) BY <1>5, <1>6
<1>8. PICK lo, hi, d : lo = Earliest(req) /\ hi = Final(req) /\ d = DeriveRegister(data, s, e) OBVIOUS
<1>9. /\ data["load_profile"] = {t \in DOMAIN stored["load_profile"] : lo <= t /\ t <= hi}
      /\ data["reset"] = {t \in swaps : lo <= t /\ t <= hi}
  BY <1>1, <1>3, <1>8, Loaded
<1>10. lo \in Int /\ hi \in Int /\ lo <= s.ts /\ e.ts <= hi
  BY <1>5, <1>6, <1>7, <1>8
<1>11. /\ d.verdict \in {"sound", "meter_reset", "unreported"}
       /\ d.verdict = "sound" => d.value = Metered(s.ts, e.ts)
       /\ d.verdict = "meter_reset" => swaps \cap (s.ts..e.ts) # {}
  BY <1>4, <1>5, <1>8, <1>9, <1>10, Derived
<1> QED BY <1>4, <1>8, <1>11 DEF SoundRow

(* The readings of two bounds are in the order of the bounds.                *)
LEMMA RowsFollow ==
  ASSUME MeterTyped, NEW req \in Series, NEW row \in ConsumptionRows(req), NEW next \in ConsumptionRows(req),
         row.window.to <= next.window.from
  PROVE  row.to <= next.from
<1>1. PICK data : data = LoadAnalyzerBoundaryData(req) OBVIOUS
<1>2. PICK v, w : v = row.window /\ w = next.window OBVIOUS
<1>3. v \in Windows(req) /\ w \in Windows(req) BY <1>1, <1>2, RowParts
<1>4. PICK e \in ResolveBoundary(req, data, v.to) : row.to = e.ts
  BY <1>1, <1>2, RowParts
<1>5. PICK s \in ResolveBoundary(req, data, w.from) : next.from = s.ts
  BY <1>1, <1>2, RowParts
<1>6. v.to \in {v.from, v.to} /\ w.from \in {w.from, w.to} OBVIOUS
<1>7. /\ e.ts \in 0..(instant - 1) /\ e.ts <= v.to /\ e.ts \in data[e.kind]
      /\ req.level = "hourly" => e.kind = "load_profile"
      /\ \A q \in ResolveBoundary(req, data, v.to) : q = e
  BY <1>1, <1>3, <1>6, BoundaryResolved
<1>8. /\ s.ts \in 0..(instant - 1) /\ s.ts <= w.from
      /\ req.level = "hourly" => s.kind = "load_profile"
      /\ \A t \in data[s.kind] : t <= w.from => t <= s.ts
      /\ req.level # "hourly" => 2 * (w.from - s.ts) <= Width(req, w.from)
  BY <1>1, <1>3, <1>6, BoundaryResolved
<1>9. v.to \in Nat /\ w.from \in Nat /\ v.to <= w.from
  BY <1>2, <1>3, WindowBounds
<1>10. CASE v.to = w.from
  <2>1. s = e BY <1>7, <1>10
  <2> QED BY <1>4, <1>5, <1>7, <2>1
<1>11. CASE v.to # w.from /\ req.level = "hourly"
  <2>1. e.ts \in data[s.kind] /\ e.ts <= w.from BY <1>7, <1>8, <1>9, <1>11
  <2> QED BY <1>4, <1>5, <1>8, <2>1
<1>12. CASE v.to # w.from /\ req.level # "hourly"
  <2>1. PICK x \in Windows(req) : x.to = w.from /\ v.to <= x.from
    BY <1>3, <1>9, <1>12, WindowOrder
  <2>2. x.from \in Nat /\ x.to \in Nat /\ x.from < x.to BY <2>1, WindowBounds
  <2>3. Width(req, x.to) \in Int /\ Width(req, x.to) <= x.to - x.from
    <3>1. x.to \in {x.from, x.to} OBVIOUS
    <3> QED BY <1>12, <3>1, WidthWithin
  <2>4. PICK width, f, t, r : width = Width(req, x.to) /\ f = x.from /\ t = x.to /\ r = s.ts OBVIOUS
  <2>5. f <= r
    <3>1. /\ width \in Int /\ f \in Nat /\ t \in Nat /\ f < t /\ r \in Int /\ width <= t - f
          /\ 2 * (t - r) <= width
      BY <1>8, <1>12, <2>1, <2>2, <2>3, <2>4
    <3> QED BY <3>1
  <2>6. e.ts <= s.ts BY <1>7, <1>8, <1>9, <2>1, <2>2, <2>4, <2>5
  <2> QED BY <1>4, <1>5, <2>6
<1> QED BY <1>10, <1>11, <1>12

(* No row takes more than half of another window.                            *)
LEMMA RowTakes ==
  ASSUME MeterTyped, NEW req \in Series, req.level # "hourly", NEW row \in ConsumptionRows(req),
         NEW w \in Windows(req) \ {row.window}
  PROVE  2 * Takes(row, w) <= w.to - w.from
<1>1. PICK data : data = LoadAnalyzerBoundaryData(req) OBVIOUS
<1>2. PICK v : v = row.window OBVIOUS
<1>3. v \in Windows(req) /\ w # v BY <1>1, <1>2, RowParts
<1>4. PICK s \in ResolveBoundary(req, data, v.from), e \in ResolveBoundary(req, data, v.to) :
        s.ts < e.ts /\ row.from = s.ts /\ row.to = e.ts
  BY <1>1, <1>2, RowParts
<1>5. v.to \in {v.from, v.to} /\ v.from \in {v.from, v.to} OBVIOUS
<1>6. e.ts \in 0..(instant - 1) /\ e.ts <= v.to
  BY <1>1, <1>3, <1>5, BoundaryResolved
<1>7. s.ts \in 0..(instant - 1) /\ 2 * (v.from - s.ts) <= Width(req, v.from)
  BY <1>1, <1>3, <1>5, BoundaryResolved
<1>8. /\ v.from \in Nat /\ v.to \in Nat /\ v.from < v.to
      /\ w.from \in Nat /\ w.to \in Nat /\ w.from < w.to
  BY <1>3, WindowBounds
<1>9. PICK rt, rf, wt, wf, hi, lo : /\ rt = row.to /\ rf = row.from /\ wt = w.to /\ wf = w.from
                                   /\ hi = Min({row.to, w.to}) /\ lo = Max({row.from, w.from})
  OBVIOUS
<1>10. /\ rt \in Int /\ rf \in Int /\ wt \in Int /\ wf \in Int /\ wf < wt
       /\ hi \in Int /\ hi <= rt /\ hi <= wt /\ lo \in Int /\ rf <= lo /\ wf <= lo
  <2>1. rt \in Int /\ rf \in Int /\ wt \in Int /\ wf \in Int /\ wf < wt BY <1>4, <1>6, <1>7, <1>8, <1>9
  <2> QED BY <1>9, <2>1, PairLeast
<1>11. Takes(row, w) = hi - lo BY <1>9 DEF Takes
<1>12. 2 * (hi - lo) <= wt - wf
  <2>1. CASE v.to <= w.from
    <3>1. rt <= wf BY <1>4, <1>6, <1>8, <1>9, <2>1
    <3> QED BY <1>10, <3>1
  <2>2. CASE w.to = v.from
    <3>1. Width(req, w.to) \in Int /\ Width(req, w.to) <= w.to - w.from
      <4>1. w.to \in {w.from, w.to} /\ w \in Windows(req) OBVIOUS
      <4> QED BY <4>1, WidthWithin
    <3>2. 2 * (wt - rf) <= wt - wf BY <1>4, <1>7, <1>8, <1>9, <2>2, <3>1
    <3> QED BY <1>10, <3>2
  <2>3. CASE w.to <= v.from /\ w.to # v.from
    <3>1. PICK x \in Windows(req) : x.to = v.from /\ w.to <= x.from
      BY <1>3, <2>3, WindowOrder
    <3>2. x.from \in Nat /\ x.to \in Nat /\ x.from < x.to BY <3>1, WindowBounds
    <3>3. Width(req, x.to) \in Int /\ Width(req, x.to) <= x.to - x.from
      <4>1. x.to \in {x.from, x.to} OBVIOUS
      <4> QED BY <4>1, WidthWithin
    <3>4. PICK width, f, t : width = Width(req, x.to) /\ f = x.from /\ t = x.to OBVIOUS
    <3>5. /\ width \in Int /\ f \in Nat /\ t \in Nat /\ f < t /\ width <= t - f
          /\ 2 * (t - rf) <= width /\ wt <= f
      BY <1>4, <1>7, <1>9, <3>1, <3>2, <3>3, <3>4
    <3>6. wt <= rf BY <1>10, <3>5
    <3> QED BY <1>10, <3>6
  <2>4. v.to <= w.from \/ w.to <= v.from
    BY <1>3, WindowOrder
  <2> QED BY <2>1, <2>2, <2>3, <2>4
<1> QED BY <1>9, <1>11, <1>12

LEMMA DerivedSoundly == MeterInv => DerivationSound
<1> SUFFICES ASSUME MeterInv PROVE DerivationSound
  OBVIOUS
<1>1. MeterTyped BY DEF MeterInv
<1>2. PICK F \in [Replacements -> FirstIndexes \cup {0}] : Shows(F)
  BY DEF MeterInv
<1>3. F \in [Replacements -> Nat]
  BY <1>2, MeterNumbers
<1>4. \A req \in Series : \A row \in ConsumptionRows(req) : SoundRow(row)
  BY <1>1, <1>2, <1>3, RowSound
<1>5. \A req \in Series : \A row, next \in ConsumptionRows(req) : row.window.to <= next.window.from => row.to <= next.from
  BY <1>1, RowsFollow
<1>6. \A req \in Series : req.level # "hourly" =>
        \A row \in ConsumptionRows(req) : \A w \in Windows(req) \ {row.window} : 2 * Takes(row, w) <= w.to - w.from
  BY <1>1, RowTakes
<1> QED BY <1>4, <1>5, <1>6 DEF DerivationSound

(* However the meter is read, replaced and asked about: a sound number is    *)
(* the usage of its span as far as the load profiles can tell, a register is *)
(* suspect only where the meter was replaced, no usage is in two rows of a   *)
(* request, and no row takes more than half of another window                *)
(* (domain/energy/reset.go, service/consumption/billing.go).                 *)
THEOREM DerivationSoundCorrect == MeterSpec => []DerivationSound
<1>1. MeterInit => MeterInv BY MeterInitial
<1>2. MeterInv /\ [MeterNext]_meterVars => MeterInv' BY MeterStep
<1>3. MeterInv => DerivationSound BY DerivedSoundly
<1> QED BY <1>1, <1>2, <1>3, PTL DEF MeterSpec

(***************************************************************************)
(* A closed window stands                                                  *)
(***************************************************************************)
(* What was kept stays, and what arrives is of the last two instants.        *)
Keeps ==
  \A k \in Kinds :
    /\ DOMAIN stored[k] \subseteq Int /\ DOMAIN stored'[k] \subseteq Int
    /\ DOMAIN stored[k] \subseteq DOMAIN stored'[k]
    /\ \A t \in DOMAIN stored[k] : stored'[k][t] = stored[k][t]
    /\ \A t \in DOMAIN stored'[k] : t < instant - 1 => t \in DOMAIN stored[k]

LEMMA ReadingsKept ==
  ASSUME MeterTyped, NEW u, NEW shown, NEW resetRow, Passes(u, shown, resetRow)
  PROVE  Keeps
<1>1. instant \in Nat BY UsedType
<1>2. swaps \subseteq 1..(instant - 1) /\ DOMAIN stored["reset"] = swaps
  BY DEF MeterTyped
<1>3. DOMAIN resetRow \subseteq {instant}
  BY DEF Passes
<1>4. /\ DOMAIN stored'["reset"] = DOMAIN resetRow \cup swaps
      /\ \A t \in DOMAIN stored'["reset"] :
           stored'["reset"][t] = IF t \in DOMAIN resetRow THEN resetRow[t] ELSE stored["reset"][t]
  BY DEF Passes, Adds
<1>5. /\ DOMAIN stored["reset"] \subseteq Int /\ DOMAIN stored'["reset"] \subseteq Int
      /\ DOMAIN stored["reset"] \subseteq DOMAIN stored'["reset"]
      /\ \A t \in DOMAIN stored["reset"] : stored'["reset"][t] = stored["reset"][t]
      /\ \A t \in DOMAIN stored'["reset"] : t < instant - 1 => t \in DOMAIN stored["reset"]
  <2>1. \A t \in swaps : t \in Int /\ t # instant BY <1>1, <1>2
  <2>2. \A t \in DOMAIN resetRow : t = instant /\ t \in Int /\ ~(t < instant - 1) BY <1>1, <1>3
  <2> QED BY <1>2, <1>4, <2>1, <2>2
<1>6. ASSUME NEW k \in Snapshots
      PROVE  /\ DOMAIN stored[k] \subseteq Int /\ DOMAIN stored'[k] \subseteq Int
             /\ DOMAIN stored[k] \subseteq DOMAIN stored'[k]
             /\ \A t \in DOMAIN stored[k] : stored'[k][t] = stored[k][t]
             /\ \A t \in DOMAIN stored'[k] : t < instant - 1 => t \in DOMAIN stored[k]
  <2>1. DOMAIN stored[k] \subseteq 0..(instant - 1) /\ DOMAIN late[k] \subseteq {instant - 1} \ DOMAIN stored[k]
    BY DEF MeterTyped
  <2>2. /\ DOMAIN stored[k] \cup DOMAIN late[k] \subseteq DOMAIN stored'[k]
        /\ \A t \in DOMAIN stored'[k] :
            \/ t \in DOMAIN stored[k] /\ stored'[k][t] = stored[k][t]
            \/ t \in DOMAIN late[k] /\ t \notin DOMAIN stored[k]
            \/ t = instant /\ t \notin DOMAIN stored[k]
    BY DEF Passes, Adds
  <2>3. \A t \in DOMAIN stored'[k] : t \in DOMAIN stored[k] \/ t = instant - 1 \/ t = instant BY <2>1, <2>2
  <2>4. \A t \in DOMAIN stored'[k] : t \in Int /\ (t < instant - 1 => t \in DOMAIN stored[k])
    BY <1>1, <2>1, <2>3
  <2> QED BY <2>1, <2>2, <2>4
<1> QED BY <1>5, <1>6 DEF Kinds, Keeps

LEMMA LookbackKept ==
  ASSUME Keeps, NEW req \in Series, NEW w \in Windows(req), instant \in Nat, w.to < instant - 1,
         NEW k \in Snapshots
  PROVE  FirstBoundaryLookback(req, k)' = FirstBoundaryLookback(req, k)
<1>1. PICK first : first = First(req) OBVIOUS
<1>2. first \in Int /\ first < instant - 1
  BY <1>1, WindowBounds
<1>3. k \in Kinds BY DEF Kinds
<1>4. \A t : (t \in DOMAIN stored[k] /\ t <= first) <=> (t \in DOMAIN stored'[k] /\ t <= first)
  BY <1>2, <1>3 DEF Keeps
<1>5. {t \in DOMAIN stored'[k] : t <= first} = {t \in DOMAIN stored[k] : t <= first}
  BY <1>4
<1> QED BY <1>1, <1>5 DEF FirstBoundaryLookback, First

\* Two sets of loaded readings that differ only from an instant on.
Alike(c, d, bound) == \A k \in Kinds : \A t \in Int : t <= bound => (t \in c[k] <=> t \in d[k])

LEMMA LoadedAlike ==
  ASSUME MeterTyped, Keeps, NEW req \in Series, NEW w \in Windows(req), instant \in Nat, w.to < instant - 1,
         NEW c, c = LoadAnalyzerBoundaryData(req), NEW d, d = LoadAnalyzerBoundaryData(req)'
  PROVE  /\ Alike(c, d, w.to)
         /\ \A k \in Kinds : c[k] \subseteq DOMAIN stored[k] /\ c[k] \subseteq Int /\ d[k] \subseteq Int
         /\ w.to \in Int
<1>1. PICK ea, eb, ed, final : /\ ea = Earliest(req) /\ eb = FirstBoundaryLookback(req, "billing")
                               /\ ed = FirstBoundaryLookback(req, "daily") /\ final = Final(req)
  OBVIOUS
<1>2. \A k \in Snapshots : FirstBoundaryLookback(req, k)' = FirstBoundaryLookback(req, k)
  BY LookbackKept
<1>3. eb = FirstBoundaryLookback(req, "billing")' /\ ed = FirstBoundaryLookback(req, "daily")'
  BY <1>1, <1>2 DEF Snapshots
<1>4. ea = Min({FirstBoundaryLookback(req, k)' : k \in BoundaryKinds(req.level)})
  <2>1. \A k \in BoundaryKinds(req.level) : FirstBoundaryLookback(req, k)' = FirstBoundaryLookback(req, k)
    BY <1>2, BoundaryKindsAre
  <2>2. {FirstBoundaryLookback(req, k)' : k \in BoundaryKinds(req.level)} = {FirstBoundaryLookback(req, k) : k \in BoundaryKinds(req.level)}
    BY <2>1
  <2> QED BY <1>1, <2>2 DEF Earliest
<1>5. c = [billing      |-> {t \in DOMAIN stored["billing"] : eb <= t /\ t <= final},
           load_profile |-> {t \in DOMAIN stored["load_profile"] : ea <= t /\ t <= final},
           daily        |-> {t \in DOMAIN stored["daily"] : ed <= t /\ t <= final},
           reset        |-> {t \in DOMAIN stored["reset"] : ea <= t /\ t <= final}]
  BY <1>1 DEF LoadAnalyzerBoundaryData, Earliest
<1>6. final = Final(req)' BY <1>1 DEF Final
<1>7. d = [billing      |-> {t \in DOMAIN stored'["billing"] : eb <= t /\ t <= final},
           load_profile |-> {t \in DOMAIN stored'["load_profile"] : ea <= t /\ t <= final},
           daily        |-> {t \in DOMAIN stored'["daily"] : ed <= t /\ t <= final},
           reset        |-> {t \in DOMAIN stored'["reset"] : ea <= t /\ t <= final}]
  BY <1>3, <1>4, <1>6 DEF LoadAnalyzerBoundaryData
<1>8. PICK bound : bound = w.to OBVIOUS
<1>9. bound \in Int /\ bound < instant - 1
  BY <1>8, WindowBounds
<1>10. ASSUME NEW k \in Kinds
       PROVE  \E lo : /\ c[k] = {t \in DOMAIN stored[k] : lo <= t /\ t <= final}
                      /\ d[k] = {t \in DOMAIN stored'[k] : lo <= t /\ t <= final}
  BY <1>5, <1>7 DEF Kinds, Snapshots
<1>11. ASSUME NEW k \in Kinds
       PROVE  /\ c[k] \subseteq DOMAIN stored[k] /\ c[k] \subseteq Int /\ d[k] \subseteq Int
              /\ \A t \in Int : t <= bound => (t \in c[k] <=> t \in d[k])
  <2>1. PICK lo : /\ c[k] = {t \in DOMAIN stored[k] : lo <= t /\ t <= final}
                  /\ d[k] = {t \in DOMAIN stored'[k] : lo <= t /\ t <= final}
    BY <1>10
  <2>2. \A t \in Int : t <= bound => (t \in DOMAIN stored[k] <=> t \in DOMAIN stored'[k])
    BY <1>9 DEF Keeps
  <2>3. DOMAIN stored[k] \subseteq Int /\ DOMAIN stored'[k] \subseteq Int BY DEF Keeps
  <2> QED BY <2>1, <2>2, <2>3
<1> QED BY <1>8, <1>9, <1>11 DEF Alike

LEMMA ResolvedAlike ==
  ASSUME NEW req, NEW c, NEW d, NEW top \in Int, Alike(c, d, top),
         \A k \in Kinds : c[k] \subseteq Int /\ d[k] \subseteq Int,
         NEW bound \in Int, bound <= top
  PROVE  ResolveBoundary(req, d, bound) = ResolveBoundary(req, c, bound)
<1>1. ASSUME NEW k \in Kinds PROVE SelectBoundary(d, k, bound) = SelectBoundary(c, k, bound)
  <2>1. \A t : (t \in d[k] /\ t <= bound) <=> (t \in c[k] /\ t <= bound) BY DEF Alike
  <2>2. {t \in d[k] : t <= bound} = {t \in c[k] : t <= bound} BY <2>1
  <2> QED BY <2>2 DEF SelectBoundary
<1>2. ASSUME NEW k \in Kinds PROVE BoundaryCandidate(req, d, k, bound) = BoundaryCandidate(req, c, k, bound)
  BY <1>1 DEF BoundaryCandidate
<1>3. "billing" \in Kinds /\ "load_profile" \in Kinds /\ "daily" \in Kinds BY DEF Kinds, Snapshots
<1> QED BY <1>1, <1>2, <1>3 DEF ResolveBoundary

LEMMA PriorAlike ==
  ASSUME MeterTyped, Keeps, NEW c, NEW d, NEW top \in Int, Alike(c, d, top),
         \A k \in Kinds : c[k] \subseteq DOMAIN stored[k] /\ c[k] \subseteq Int /\ d[k] \subseteq Int,
         NEW o \in Int, NEW r \in Int, r <= top
  PROVE  PriorValueBefore(d, o, r)' = PriorValueBefore(c, o, r)
<1>1. PICK priors : priors = {t \in c["load_profile"] : o < t /\ t < r} OBVIOUS
<1>2. "load_profile" \in Kinds /\ "load_profile" \in Snapshots BY DEF Kinds, Snapshots
<1>3. {t \in d["load_profile"] : o < t /\ t < r} = priors
  <2>1. \A t : (t \in d["load_profile"] /\ o < t /\ t < r) <=> (t \in c["load_profile"] /\ o < t /\ t < r)
    BY <1>2 DEF Alike
  <2> QED BY <1>1, <2>1
<1>4. priors # {} => stored'["load_profile"][Max(priors)] = stored["load_profile"][Max(priors)]
  <2> SUFFICES ASSUME priors # {} PROVE Max(priors) \in DOMAIN stored["load_profile"]
    BY <1>2 DEF Keeps
  <2>1. priors \subseteq DOMAIN stored["load_profile"] BY <1>1, <1>2
  <2>2. DOMAIN stored["load_profile"] \subseteq 0..(instant - 1) BY <1>2 DEF MeterTyped
  <2>3. IsFiniteSet(priors) /\ priors \subseteq Int
    <3>1. 0 \in Int /\ instant - 1 \in Int BY UsedType
    <3>2. priors \subseteq 0..(instant - 1) BY <2>1, <2>2
    <3> QED BY <3>1, <3>2, IntervalPart
  <2>4. Max(priors) \in priors BY <2>3, Extremes
  <2> QED BY <2>1, <2>4
<1>5. PriorValueBefore(c, o, r) = IF priors = {} THEN Blank ELSE stored["load_profile"][Max(priors)]
  BY <1>1 DEF PriorValueBefore
<1>6. PriorValueBefore(d, o, r)' = IF priors = {} THEN Blank ELSE stored'["load_profile"][Max(priors)]
  BY <1>3 DEF PriorValueBefore
<1> QED BY <1>4, <1>5, <1>6

LEMMA DerivedAlike ==
  ASSUME MeterTyped, Keeps, NEW c, NEW d, NEW top \in Int, Alike(c, d, top),
         \A k \in Kinds : c[k] \subseteq DOMAIN stored[k] /\ c[k] \subseteq Int /\ d[k] \subseteq Int,
         NEW s, s.kind \in Snapshots, s.ts \in DOMAIN stored[s.kind],
         NEW e, e.kind \in Snapshots, e.ts \in DOMAIN stored[e.kind], s.ts < e.ts, e.ts <= top
  PROVE  DeriveRegister(d, s, e)' = DeriveRegister(c, s, e)
<1> DEFINE resets == {t \in c["reset"] : s.ts < t /\ t <= e.ts}
           last(ts) == Max({s.ts} \cup ts)
           shown(t) == IF t = s.ts THEN ValueOf(s) ELSE stored["reset"][t]
           opening(r) == last({t \in resets : t < r})
           before(r) == PriorValueBefore(c, opening(r), r)
           segment == [r \in resets |-> before(r) - shown(opening(r))]
           closing == ValueOf(e) - shown(last(resets))
           startMismatch == s.ts \in c["reset"] /\ ValueOf(s) # stored["reset"][s.ts]
           endMismatch == e.ts \in resets /\ ValueOf(e) # stored["reset"][e.ts]
           unusable == \E r \in resets : Blank \in {stored["reset"][r], before(r)}
           resets2 == {t \in d["reset"] : s.ts < t /\ t <= e.ts}
           shown2(t) == IF t = s.ts THEN ValueOf(s)' ELSE stored'["reset"][t]
           opening2(r) == last({t \in resets2 : t < r})
           before2(r) == PriorValueBefore(d, opening2(r), r)'
           segment2 == [r \in resets2 |-> before2(r) - shown2(opening2(r))]
           closing2 == ValueOf(e)' - shown2(last(resets2))
           startMismatch2 == s.ts \in d["reset"] /\ ValueOf(s)' # stored'["reset"][s.ts]
           endMismatch2 == e.ts \in resets2 /\ ValueOf(e)' # stored'["reset"][e.ts]
           unusable2 == \E r \in resets2 : Blank \in {stored'["reset"][r], before2(r)}
<1>1. DeriveRegister(c, s, e) =
        IF Blank \in {ValueOf(s), ValueOf(e)} THEN [verdict |-> "unreported"]
        ELSE IF startMismatch \/ unusable \/ endMismatch THEN [verdict |-> "meter_reset"]
        ELSE IF closing < 0 \/ \E r \in resets : segment[r] < 0 THEN [verdict |-> "negative_delta"]
        ELSE [verdict |-> "sound", value |-> closing + SumFunctionOnSet(segment, resets)]
  BY DEF DeriveRegister
<1>2. DeriveRegister(d, s, e)' =
        IF Blank \in {ValueOf(s)', ValueOf(e)'} THEN [verdict |-> "unreported"]
        ELSE IF startMismatch2 \/ unusable2 \/ endMismatch2 THEN [verdict |-> "meter_reset"]
        ELSE IF closing2 < 0 \/ \E r \in resets2 : segment2[r] < 0 THEN [verdict |-> "negative_delta"]
        ELSE [verdict |-> "sound", value |-> closing2 + SumFunctionOnSet(segment2, resets2)]
  BY DEF DeriveRegister
<1>3. s.kind \in Kinds /\ e.kind \in Kinds /\ "reset" \in Kinds BY DEF Kinds
<1>4. s.ts \in Int /\ e.ts \in Int BY <1>3 DEF Keeps
<1>5. ValueOf(s)' = ValueOf(s) /\ ValueOf(e)' = ValueOf(e)
  BY <1>3 DEF Keeps, ValueOf
<1>6. resets2 = resets
  <2>1. \A t : (t \in d["reset"] /\ s.ts < t /\ t <= e.ts) <=> (t \in c["reset"] /\ s.ts < t /\ t <= e.ts)
    BY <1>3, <1>4 DEF Alike
  <2> QED BY <2>1
<1>7. s.ts \in d["reset"] <=> s.ts \in c["reset"]
  BY <1>3, <1>4 DEF Alike
<1>8. \A t \in c["reset"] : stored'["reset"][t] = stored["reset"][t]
  BY <1>3 DEF Keeps
<1>9. resets \subseteq c["reset"] /\ \A r \in resets : r \in Int /\ r <= top
  BY <1>3, <1>4
<1>10. ASSUME NEW ts \in SUBSET resets PROVE last(ts) \in {s.ts} \cup ts
  <2>1. ts \subseteq swaps /\ swaps \subseteq 1..(instant - 1) /\ instant \in Nat
    BY <1>3, <1>9, UsedType DEF MeterTyped
  <2>2. IsFiniteSet(ts)
    <3>1. 1 \in Int /\ instant - 1 \in Int /\ ts \subseteq 1..(instant - 1) BY <2>1
    <3> QED BY <3>1, IntervalPart
  <2>3. IsFiniteSet({s.ts} \cup ts) BY <2>2, FS_Singleton, FS_Union
  <2>4. {s.ts} \cup ts \subseteq Int BY <1>4, <1>9
  <2> QED BY <2>3, <2>4, Extremes
<1> HIDE DEF resets, resets2, last
<1>11. startMismatch2 <=> startMismatch
  BY <1>5, <1>7, <1>8
<1>12. endMismatch2 <=> endMismatch
  BY <1>5, <1>6, <1>8, <1>9
<1>13. \A o \in {s.ts} \cup resets : shown2(o) = shown(o)
  BY <1>5, <1>8, <1>9
<1>14. ASSUME NEW r \in resets
       PROVE  opening2(r) = opening(r) /\ before2(r) = before(r) /\ shown2(opening2(r)) = shown(opening(r))
  <2>1. PICK o : o = opening(r) OBVIOUS
  <2>2. opening2(r) = o BY <1>6, <2>1
  <2>3. {t \in resets : t < r} \in SUBSET resets OBVIOUS
  <2>4. o \in {s.ts} \cup resets BY <1>10, <2>1, <2>3
  <2>5. o \in Int /\ r \in Int /\ r <= top BY <1>4, <1>9, <2>4
  <2>6. PriorValueBefore(d, o, r)' = PriorValueBefore(c, o, r) BY <2>5, PriorAlike
  <2>7. shown2(o) = shown(o) BY <1>13, <2>4
  <2>8. before(r) = PriorValueBefore(c, o, r) BY <2>1
  <2> HIDE DEF opening, opening2, shown, shown2
  <2>9. before2(r) = PriorValueBefore(d, o, r)' BY <2>2
  <2> HIDE DEF before, before2
  <2> QED BY <2>1, <2>2, <2>6, <2>7, <2>8, <2>9
<1> HIDE DEF opening, opening2
<1>15. unusable2 <=> unusable
  <2>1. \A r \in resets : stored'["reset"][r] = stored["reset"][r] /\ before2(r) = before(r) BY <1>8, <1>9, <1>14
  <2> HIDE DEF before, before2
  <2> QED BY <1>6, <2>1
<1>16. segment2 = segment
  <2>1. \A r \in resets : before2(r) - shown2(opening2(r)) = before(r) - shown(opening(r)) BY <1>14
  <2> HIDE DEF before, before2, shown, shown2
  <2> QED BY <1>6, <2>1
<1>17. closing2 = closing
  <2>1. last(resets) \in {s.ts} \cup resets
    <3>1. resets \in SUBSET resets OBVIOUS
    <3> QED BY <1>10, <3>1
  <2>2. shown2(last(resets)) = shown(last(resets)) BY <1>13, <2>1
  <2> HIDE DEF shown, shown2
  <2> QED BY <1>5, <1>6, <2>2
<1> HIDE DEF startMismatch, startMismatch2, endMismatch, endMismatch2, unusable, unusable2,
             segment, segment2, closing, closing2
<1> QED BY <1>1, <1>2, <1>5, <1>6, <1>11, <1>12, <1>15, <1>16, <1>17

RowsListed ==
  \A req : \A data : data = LoadAnalyzerBoundaryData(req) =>
    \A row : row \in ConsumptionRows(req) <=>
      \E w \in Windows(req) : \E s \in ResolveBoundary(req, data, w.from), e \in ResolveBoundary(req, data, w.to) :
        ClosedBucket(w, instant) /\ s.ts < e.ts /\ row = RowOf(req, w, data, s, e)

LEMMA RowsListedAlways == RowsListed
BY RowsAre DEF RowsListed

(* The rows of the windows that were closed before the last instants are     *)
(* those of the state before.                                                *)
LEMMA RowsStand ==
  ASSUME MeterTyped, Keeps, instant' = instant + 1, NEW req \in Series, NEW row
  PROVE  row \in ConsumptionRows(req) <=> row \in ConsumptionRows(req)' /\ ClosedBucket(row.window, instant)
<1>1. instant \in Nat BY UsedType
<1>2. PICK c, d, n : c = LoadAnalyzerBoundaryData(req) /\ d = LoadAnalyzerBoundaryData(req)' /\ n = instant OBVIOUS
<1>3. row \in ConsumptionRows(req) <=>
        \E w \in Windows(req) : \E s \in ResolveBoundary(req, c, w.from), e \in ResolveBoundary(req, c, w.to) :
          ClosedBucket(w, n) /\ s.ts < e.ts /\ row = RowOf(req, w, c, s, e)
  BY <1>2, RowsAre
<1>4. row \in ConsumptionRows(req)' <=>
        \E w \in Windows(req) : \E s \in ResolveBoundary(req, d, w.from), e \in ResolveBoundary(req, d, w.to) :
          ClosedBucket(w, n + 1) /\ s.ts < e.ts /\ row = RowOf(req, w, d, s, e)'
  <2>1. RowsListed' BY RowsListedAlways, PTL
  <2>2. \A x : x \in ConsumptionRows(req)' <=>
          \E w \in Windows(req) : \E s \in ResolveBoundary(req, d, w.from), e \in ResolveBoundary(req, d, w.to) :
            ClosedBucket(w, instant') /\ s.ts < e.ts /\ x = RowOf(req, w, d, s, e)'
    BY <1>2, <2>1 DEF RowsListed
  <2> QED BY <1>2, <2>2
<1>5. ASSUME NEW w \in Windows(req), ClosedBucket(w, n)
      PROVE  /\ ClosedBucket(w, n + 1) /\ w.to < instant - 1
             /\ ResolveBoundary(req, d, w.from) = ResolveBoundary(req, c, w.from)
             /\ ResolveBoundary(req, d, w.to) = ResolveBoundary(req, c, w.to)
             /\ \A s \in ResolveBoundary(req, c, w.from), e \in ResolveBoundary(req, c, w.to) :
                  s.ts < e.ts => RowOf(req, w, d, s, e)' = RowOf(req, w, c, s, e)
  <2>1. w.to \in Nat /\ w.from \in Nat /\ w.from < w.to BY WindowBounds
  <2>2. ClosedBucket(w, n + 1) /\ w.to < instant - 1
    BY <1>1, <1>2, <1>5, <2>1, MeterAssumption DEF ClosedBucket
  <2>3. /\ Alike(c, d, w.to)
        /\ \A k \in Kinds : c[k] \subseteq DOMAIN stored[k] /\ c[k] \subseteq Int /\ d[k] \subseteq Int
    BY <1>1, <1>2, <2>2, LoadedAlike
  <2>4. PICK top : top = w.to OBVIOUS
  <2>5. ASSUME NEW bound \in Int, bound <= top PROVE ResolveBoundary(req, d, bound) = ResolveBoundary(req, c, bound)
    BY <2>1, <2>3, <2>4, <2>5, ResolvedAlike
  <2>6. ASSUME NEW s \in ResolveBoundary(req, c, w.from), NEW e \in ResolveBoundary(req, c, w.to), s.ts < e.ts
        PROVE  RowOf(req, w, d, s, e)' = RowOf(req, w, c, s, e)
    <3>1. w.from \in {w.from, w.to} /\ w.to \in {w.from, w.to} OBVIOUS
    <3>2. /\ s.kind \in Snapshots /\ s.ts \in DOMAIN stored[s.kind]
          /\ e.kind \in Snapshots /\ e.ts \in DOMAIN stored[e.kind] /\ e.ts <= w.to
      BY <1>2, <3>1, BoundaryResolved
    <3>3. DeriveRegister(d, s, e)' = DeriveRegister(c, s, e)
      BY <2>1, <2>3, <2>6, <3>2, DerivedAlike
    <3> QED BY <3>3 DEF RowOf
  <2>7. w.from <= top /\ w.to <= top BY <2>1, <2>4
  <2> QED BY <2>1, <2>2, <2>5, <2>6, <2>7
<1>6. ASSUME row \in ConsumptionRows(req)
      PROVE  row \in ConsumptionRows(req)' /\ ClosedBucket(row.window, instant)
  <2>0. PICK w \in Windows(req) :
          \E s \in ResolveBoundary(req, c, w.from), e \in ResolveBoundary(req, c, w.to) :
            ClosedBucket(w, n) /\ s.ts < e.ts /\ row = RowOf(req, w, c, s, e)
    BY <1>3, <1>6
  <2>1. PICK s \in ResolveBoundary(req, c, w.from), e \in ResolveBoundary(req, c, w.to) :
          ClosedBucket(w, n) /\ s.ts < e.ts /\ row = RowOf(req, w, c, s, e)
    BY <2>0
  <2>2. row.window = w BY <2>1 DEF RowOf
  <2>3. /\ s \in ResolveBoundary(req, d, w.from) /\ e \in ResolveBoundary(req, d, w.to)
        /\ ClosedBucket(w, n + 1) /\ row = RowOf(req, w, d, s, e)'
    BY <1>5, <2>1
  <2> QED BY <1>2, <1>4, <2>1, <2>2, <2>3
<1>7. ASSUME row \in ConsumptionRows(req)', ClosedBucket(row.window, instant)
      PROVE  row \in ConsumptionRows(req)
  <2>0. PICK w \in Windows(req) :
          \E s \in ResolveBoundary(req, d, w.from), e \in ResolveBoundary(req, d, w.to) :
            s.ts < e.ts /\ row = RowOf(req, w, d, s, e)'
    BY <1>4, <1>7
  <2>1. PICK s \in ResolveBoundary(req, d, w.from), e \in ResolveBoundary(req, d, w.to) :
          s.ts < e.ts /\ row = RowOf(req, w, d, s, e)'
    BY <2>0
  <2>2. row.window = w BY <2>1 DEF RowOf
  <2>3. ClosedBucket(w, n) BY <1>2, <1>7, <2>2
  <2>4. /\ s \in ResolveBoundary(req, c, w.from) /\ e \in ResolveBoundary(req, c, w.to)
        /\ row = RowOf(req, w, c, s, e)
    BY <1>5, <2>1, <2>3
  <2> QED BY <1>3, <2>1, <2>3, <2>4
<1> QED BY <1>6, <1>7

SettledInv == MeterInv /\ SettledForGood

LEMMA SettledInitial == MeterInit => SettledInv
<1> SUFFICES ASSUME MeterInit PROVE SettledForGood
  BY MeterInitial DEF SettledInv
<1>1. instant = 0 /\ given = {} BY DEF MeterInit
<1>2. ASSUME NEW req \in Series, NEW row \in ConsumptionRows(req) PROVE ~ClosedBucket(row.window, instant - 1)
  <2>1. PICK data : data = LoadAnalyzerBoundaryData(req) OBVIOUS
  <2>2. row.window \in Windows(req) BY <2>1, RowParts
  <2>3. row.window.to \in Nat BY <2>2, WindowBounds
  <2>4. PICK to : to = row.window.to OBVIOUS
  <2>5. to \in Nat /\ SettleDelay \in Nat BY <2>3, <2>4, MeterAssumption
  <2>6. ~(0 - 1 - 1 >= to + SettleDelay) BY <2>5
  <2> QED BY <1>1, <2>4, <2>6 DEF ClosedBucket
<1> QED BY <1>1, <1>2 DEF SettledForGood

LEMMA SettledPasses ==
  ASSUME SettledInv, NEW u, NEW shown, NEW resetRow, Passes(u, shown, resetRow), Give
  PROVE  SettledForGood'
<1>1. MeterTyped /\ Keeps
  BY ReadingsKept DEF SettledInv, MeterInv
<1>2. instant' = instant + 1 /\ instant \in Nat
  BY <1>1, UsedType DEF Passes
<1>3. \A req \in Series : \A row : row \in ConsumptionRows(req) <=> row \in ConsumptionRows(req)' /\ ClosedBucket(row.window, instant)
  BY <1>1, <1>2, RowsStand
<1>4. given \subseteq UNION {ConsumptionRows(req) : req \in Series}
  BY DEF SettledInv, SettledForGood
<1>5. given' = UNION {ConsumptionRows(req) : req \in Series}
  BY <1>4 DEF Give
<1>6. \A row : row \in given' <=> \E req \in Series : row \in ConsumptionRows(req)
  BY <1>5
<1>7. \A row : row \in given' <=> (\E req \in Series : row \in ConsumptionRows(req)') /\ ClosedBucket(row.window, instant)
  BY <1>3, <1>6
<1>8. instant' - 1 = instant BY <1>2
<1>9. given' = {row \in UNION {ConsumptionRows(req)' : req \in Series} : ClosedBucket(row.window, instant)}
  BY <1>7, Zenon
<1> QED BY <1>8, <1>9 DEF SettledForGood

LEMMA SettledStep == SettledInv /\ [MeterNext]_meterVars => SettledInv'
<1> SUFFICES ASSUME SettledInv, [MeterNext]_meterVars PROVE SettledInv'
  OBVIOUS
<1>1. MeterInv /\ MeterInv' BY MeterStep DEF SettledInv
<1>2. CASE MeterNext
  <2>1. \E u, shown, resetRow : Passes(u, shown, resetRow) BY <1>1, <1>2, StepPasses
  <2>2. Give BY <1>2 DEF MeterNext, MeterRuns, MeterReplaced
  <2> QED BY <1>1, <2>1, <2>2, SettledPasses DEF SettledInv
<1>3. CASE UNCHANGED meterVars
  <2>1. SettledForGood' = SettledForGood
    BY <1>3 DEF meterVars, SettledForGood, ClosedBucket, ConsumptionRows, LoadAnalyzerBoundaryData,
       FirstBoundaryLookback, ResolveBoundary, BoundaryCandidate, SelectBoundary, DeriveRegister,
       PriorValueBefore, ValueOf
  <2> QED BY <1>1, <2>1 DEF SettledInv
<1> QED BY <1>2, <1>3

(* A window that is closed has its row, or none, for good: a late reading    *)
(* lands within the settle delay, and nothing after the end of the window is *)
(* read for its row (closedBucket in service/consumption/billing.go).        *)
THEOREM SettledForGoodCorrect == MeterSpec => []SettledForGood
<1>1. SettledInv => SettledForGood BY DEF SettledInv
<1> QED BY <1>1, SettledInitial, SettledStep, PTL DEF MeterSpec
=============================================================================
