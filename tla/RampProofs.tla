----------------------------- MODULE RampProofs -----------------------------
(***************************************************************************)
(* The ramp's ceiling separates the evidence, the ramp never reaches the   *)
(* wall, and what it extrapolates is exact: for every schedule, estimate,  *)
(* footprint, reading, gap and step limit.  What the commands say of a     *)
(* model that was not measured agrees, with each other and with the ramp:  *)
(* for every machine, model and store.                                     *)
(*                                                                         *)
(* To the first the gates do not matter: rungs are climbed in order, so    *)
(* that when one is refused everything measured lies below it.  The others *)
(* rest on the sums of fit(): as long as a model's memory follows a line,  *)
(* they determine that line, and it is what the gate and the ceiling use.  *)
(***************************************************************************)
EXTENDS Analytic, FiniteSetTheorems, SequenceTheorems, TLAPS

-----------------------------------------------------------------------------
(* Sums over finite sets.  SumFunction folds a function in an order nobody  *)
(* states; by induction over the subsets of its domain the order is of no   *)
(* consequence, and one more element adds its value.                        *)

\* The element a folding takes out first.
Pick(s) == CHOOSE x \in s : TRUE

Recurs(g, f, S) ==
    g = [s \in SUBSET S |-> IF s = {} THEN 0 ELSE f[Pick(s)] + g[s \ {Pick(s)}]]

LEMMA SumUnfolds ==
    ASSUME NEW f
    PROVE  SumFunction(f) = (CHOOSE g : Recurs(g, f, DOMAIN f))[DOMAIN f]
BY DEF SumFunction, SumFunctionOnSet, FoldFunctionOnSet, MapThenFoldSet, Recurs, Pick

\* Induction over the subsets of a finite set, for a set of them.
LEMMA SubsetInduction ==
    ASSUME NEW S, IsFiniteSet(S), NEW Good,
           \A t \in SUBSET S : (\A u \in SUBSET t : u # t => u \in Good) => t \in Good
    PROVE  \A t \in SUBSET S : t \in Good
<1> DEFINE Bad == {t \in SUBSET S : t \notin Good}
<1> SUFFICES ASSUME Bad # {} PROVE FALSE
  OBVIOUS
<1>1. IsWellFoundedOn(StrictSubsetOrdering(S), SUBSET S)
  <2>1. FiniteSubsetsOf(S) = SUBSET S
    BY FS_FiniteSubsetsOfFinite
  <2>2. IsWellFoundedOn(StrictSubsetOrdering(S), FiniteSubsetsOf(S))
    BY FS_StrictSubsetOrderingWellFounded
  <2> QED BY <2>1, <2>2, Zenon
<1>2. \E t \in Bad : \A u \in Bad : <<u, t>> \notin StrictSubsetOrdering(S)
  <2> HIDE DEF Bad
  <2>1. Bad \subseteq SUBSET S
    BY DEF Bad
  <2> QED BY <1>1, <2>1, WFMin
<1>3. PICK t \in Bad : \A u \in Bad : <<u, t>> \notin StrictSubsetOrdering(S)
  BY <1>2
<1>4. ASSUME NEW u \in SUBSET t, u # t PROVE u \in Good
  BY <1>3, <1>4 DEF StrictSubsetOrdering
<1> QED BY <1>3, <1>4

LEMMA PickIsIn == ASSUME NEW s, s # {} PROVE Pick(s) \in s
BY DEF Pick

\* Two foldings agree where their functions do.
LEMMA FoldingsAgree ==
    ASSUME NEW S, IsFiniteSet(S), NEW T, S \subseteq T, NEW f, NEW e, \A x \in S : f[x] = e[x],
           NEW g, Recurs(g, f, S), NEW h, Recurs(h, e, T)
    PROVE  \A s \in SUBSET S : g[s] = h[s]
<1> DEFINE Good == {s \in SUBSET S : g[s] = h[s]}
<1>1. ASSUME NEW t \in SUBSET S, \A u \in SUBSET t : u # t => u \in Good PROVE t \in Good
  <2>1. CASE t = {}
    <3>1. g[t] = 0
      BY <2>1 DEF Recurs
    <3>2. h[t] = 0
      BY <2>1 DEF Recurs
    <3> QED BY <3>1, <3>2
  <2>2. CASE t # {}
    <3>1. Pick(t) \in t
      BY <2>2, PickIsIn
    <3>2. t \ {Pick(t)} \in Good
      BY <1>1, <3>1
    <3>3. g[t] = f[Pick(t)] + g[t \ {Pick(t)}]
      BY <2>2 DEF Recurs
    <3>4. h[t] = e[Pick(t)] + h[t \ {Pick(t)}]
      BY <2>2 DEF Recurs
    <3> QED BY <3>1, <3>2, <3>3, <3>4
  <2> QED BY <2>1, <2>2
<1> HIDE DEF Good
<1>2. \A t \in SUBSET S : t \in Good
  BY <1>1, SubsetInduction
<1> QED BY <1>2 DEF Good

\* A finite sum has a folding.
LEMMA FoldingExists ==
    ASSUME NEW S, IsFiniteSet(S), NEW f
    PROVE  \E g : Recurs(g, f, S)
<1> DEFINE Of(t) == CHOOSE g : Recurs(g, f, t)
           Good == {t \in SUBSET S : Recurs(Of(t), f, t)}
<1>1. ASSUME NEW t \in SUBSET S, \A u \in SUBSET t : u # t => u \in Good PROVE t \in Good
  <2> DEFINE g == [s \in SUBSET t |-> IF s = {} THEN 0
                                      ELSE f[Pick(s)] + Of(s \ {Pick(s)})[s \ {Pick(s)}]]
  <2>1. ASSUME NEW u \in SUBSET t, u # t PROVE g[u] = Of(u)[u]
    <3>1. Recurs(Of(u), f, u)
      BY <1>1, <2>1
    <3>2. CASE u = {}
      <4>1. g[u] = 0
        BY <3>2
      <4>2. Of(u)[u] = 0
        <5> HIDE DEF Of
        <5> QED BY <3>1, <3>2 DEF Recurs
      <4> QED BY <4>1, <4>2
    <3>3. CASE u # {}
      <4> DEFINE w == u \ {Pick(u)}
      <4>1. w \subseteq u /\ w # u /\ w # t
        BY <3>3, PickIsIn
      <4>2. Recurs(Of(w), f, w)
        BY <1>1, <4>1
      <4>3. IsFiniteSet(w)
        BY <4>1, FS_Subset
      <4>4. Of(w)[w] = Of(u)[w]
        <5> HIDE DEF Of, w
        <5> QED BY <3>1, <4>1, <4>2, <4>3, FoldingsAgree
      <4>5. Of(u)[u] = f[Pick(u)] + Of(u)[w]
        <5> HIDE DEF Of
        <5> QED BY <3>1, <3>3 DEF Recurs
      <4>6. g[u] = f[Pick(u)] + Of(w)[w]
        <5> HIDE DEF Of
        <5> QED BY <3>3
      <4> QED BY <4>4, <4>5, <4>6
    <3> QED BY <3>2, <3>3
  <2>2. ASSUME NEW s \in SUBSET t, s # {} PROVE g[s \ {Pick(s)}] = Of(s \ {Pick(s)})[s \ {Pick(s)}]
    <3>1. s \ {Pick(s)} \in SUBSET t /\ s \ {Pick(s)} # t
      BY <2>2, PickIsIn
    <3> HIDE DEF g, Of
    <3> QED BY <2>1, <3>1
  <2>3. Recurs(g, f, t)
    <3> HIDE DEF Of
    <3>1. g = [s \in SUBSET t |-> IF s = {} THEN 0 ELSE f[Pick(s)] + g[s \ {Pick(s)}]]
      <4>1. \A s \in SUBSET t : g[s] = IF s = {} THEN 0 ELSE f[Pick(s)] + g[s \ {Pick(s)}]
        BY <2>2
      <4>2. g = [s \in SUBSET t |-> g[s]]
        OBVIOUS
      <4> HIDE DEF g
      <4> QED BY <4>1, <4>2
    <3> HIDE DEF g
    <3> QED BY <3>1 DEF Recurs
  <2> HIDE DEF g
  <2> QED BY <2>3
<1> HIDE DEF Good
<1>2. \A t \in SUBSET S : t \in Good
  BY <1>1, SubsetInduction
<1> QED BY <1>2 DEF Good

\* The sum is the value of a folding.
LEMMA SumIsFolded ==
    ASSUME NEW f, IsFiniteSet(DOMAIN f)
    PROVE  \E g : Recurs(g, f, DOMAIN f) /\ SumFunction(f) = g[DOMAIN f]
BY SumUnfolds, FoldingExists

\* A folding of integers is an integer, whichever element is taken out first.
LEMMA FoldingTakesOut ==
    ASSUME NEW S, IsFiniteSet(S), NEW f \in [S -> Int], NEW g, Recurs(g, f, S)
    PROVE  \A s \in SUBSET S : g[s] \in Int /\ \A c \in s : g[s] = f[c] + g[s \ {c}]
<1> DEFINE Holds(s) == g[s] \in Int /\ \A c \in s : g[s] = f[c] + g[s \ {c}]
           Good == {s \in SUBSET S : Holds(s)}
<1>0. \A s \in SUBSET S : s # {} => g[s] = f[Pick(s)] + g[s \ {Pick(s)}]
  BY DEF Recurs
<1>1. ASSUME NEW t \in SUBSET S, \A u \in SUBSET t : u # t => u \in Good PROVE t \in Good
  <2>1. CASE t = {}
    <3>1. g[t] = 0
      BY <2>1 DEF Recurs
    <3> QED BY <2>1, <3>1
  <2>2. CASE t # {}
    <3> DEFINE p == Pick(t)
    <3>1. p \in t
      BY <2>2, PickIsIn
    <3>2. t \ {p} \in Good
      BY <1>1, <3>1
    <3>3. g[t] = f[p] + g[t \ {p}]
      BY <1>0, <2>2
    <3> HIDE DEF p
    <3>4. g[t] \in Int
      BY <3>1, <3>2, <3>3
    <3>5. ASSUME NEW c \in t, c # p PROVE g[t] = f[c] + g[t \ {c}]
      <4> DEFINE w == t \ {c, p}
      <4>1. w = (t \ {p}) \ {c} /\ w = (t \ {c}) \ {p} /\ c \in t \ {p} /\ p \in t \ {c}
        BY <3>1, <3>5
      <4>2. t \ {c} \in Good /\ w \in Good
        BY <1>1, <3>1, <3>5
      <4>3. g[t \ {p}] = f[c] + g[w]
        BY <3>2, <4>1
      <4>4. g[t \ {c}] = f[p] + g[w]
        BY <4>1, <4>2
      <4>5. f[c] \in Int /\ f[p] \in Int /\ g[w] \in Int
        BY <3>1, <4>2
      <4> HIDE DEF w
      <4> QED BY <3>3, <4>3, <4>4, <4>5
    <3> QED BY <3>3, <3>4, <3>5
  <2> QED BY <2>1, <2>2
<1> HIDE DEF Good
<1>2. \A t \in SUBSET S : t \in Good
  BY <1>1, SubsetInduction
<1> QED BY <1>2 DEF Good

LEMMA SumOfNothing ==
    ASSUME NEW f, DOMAIN f = {}
    PROVE  SumFunction(f) = 0
<1>1. PICK g : Recurs(g, f, DOMAIN f) /\ SumFunction(f) = g[DOMAIN f]
  BY FS_EmptySet, SumIsFolded
<1> QED BY <1>1 DEF Recurs

LEMMA SumIsInteger ==
    ASSUME NEW S, IsFiniteSet(S), NEW f \in [S -> Int]
    PROVE  SumFunction(f) \in Int
BY SumIsFolded, FoldingTakesOut

LEMMA SumOfOneMore ==
    ASSUME NEW S, IsFiniteSet(S), NEW f \in [S -> Int], NEW c, c \notin S, NEW e \in [S \cup {c} -> Int],
           \A x \in S : e[x] = f[x]
    PROVE  SumFunction(e) = SumFunction(f) + e[c]
<1> DEFINE T == S \cup {c}
<1>1. IsFiniteSet(T)
  BY FS_AddElement
<1>2. PICK g : Recurs(g, f, S) /\ SumFunction(f) = g[S]
  BY SumIsFolded
<1>3. PICK h : Recurs(h, e, T) /\ SumFunction(e) = h[T]
  BY <1>1, SumIsFolded
<1>4. g[S] = h[S]
  BY <1>2, <1>3, FoldingsAgree
<1>5. h[T] = e[c] + h[T \ {c}] /\ h[S] \in Int
  BY <1>1, <1>3, FoldingTakesOut
<1>6. T \ {c} = S /\ e[c] \in Int
  OBVIOUS
<1> HIDE DEF T
<1>7. h[T] = e[c] + h[S]
  BY <1>5, <1>6
<1>8. SumFunction(e) = e[c] + SumFunction(f)
  BY <1>2, <1>3, <1>4, <1>7, Zenon
<1>9. SumFunction(f) \in Int
  BY <1>2, <1>4, <1>5, Zenon
<1> QED BY <1>6, <1>8, <1>9
-----------------------------------------------------------------------------
(* Arithmetic of the line. *)

\* A positive product has positive factors.
LEMMA PositiveFactor ==
    ASSUME NEW n \in Int, NEW z \in Int, n > 0, n * z > 0
    PROVE  z > 0
<1>1. ASSUME z <= 0 PROVE FALSE
  <2>1. n * z <= 0
    BY <1>1, SMT
  <2> QED BY <2>1
<1> QED BY <1>1

\* One more context, above the mean of the others, spreads them (n of them, with
\* sum x and sum of squares xx).
LEMMA SpreadGrows ==
    ASSUME NEW n \in Int, NEW x \in Int, NEW xx \in Int, NEW c \in Int,
           n > 0, n * xx - x * x >= 0, x < n * c
    PROVE  (n + 1) * (xx + c * c) - (x + c) * (x + c) > 0
<1> DEFINE d == n * c - x
           s == n * xx - x * x
           z == (n + 1) * (xx + c * c) - (x + c) * (x + c)
<1>1. d \in Int /\ d > 0 /\ s \in Int /\ s >= 0 /\ z \in Int
  OBVIOUS
<1>2. n * z = (n + 1) * s + d * d
  OBVIOUS
<1> HIDE DEF d, s, z
<1>3. d * d > 0 /\ (n + 1) * s >= 0
  BY <1>1
<1>4. n * z > 0
  BY <1>1, <1>2, <1>3
<1>5. z > 0
  BY <1>1, <1>4, PositiveFactor
<1> QED BY <1>5 DEF z

\* The least-squares line through points of a line is that line.
LEMMA LineIsExact ==
    ASSUME NEW n \in Int, NEW x \in Int, NEW xx \in Int, NEW b \in Int, NEW m \in Int
    PROVE  /\ n * (b * x + m * xx) - x * (b * n + m * x) = m * (n * xx - x * x)
           /\ (b * n + m * x) * xx - x * (b * x + m * xx) = b * (n * xx - x * x)
OBVIOUS

\* Fractions of one positive denominator compare as their numerators.
LEMMA MoreOfLess ==
    ASSUME NEW s \in Int, s > 0, NEW a \in Int, NEW b \in Int
    PROVE  a * s < b * s <=> a < b
<1>1. ASSUME a < b PROVE a * s < b * s
  <2>1. (b - a) * s > 0
    BY <1>1
  <2> QED BY <2>1
<1>2. ASSUME b <= a PROVE b * s <= a * s
  <2>1. (a - b) * s >= 0
    BY <1>2
  <2> QED BY <2>1
<1>3. a * s \in Int /\ b * s \in Int
  OBVIOUS
<1> QED BY <1>1, <1>2, <1>3

\* A quotient is the largest number of times a divisor fits.
LEMMA Quotient ==
    ASSUME NEW h \in Int, NEW s \in Int, s > 0
    PROVE  h \div s \in Int /\ (h \div s) * s <= h /\ h < (h \div s + 1) * s
<1>1. h \div s \in Int
  OBVIOUS
<1>2. (h \div s) * s <= h
  OBVIOUS
<1>3. h < (h \div s + 1) * s
  OBVIOUS
<1> QED BY <1>1, <1>2, <1>3

-----------------------------------------------------------------------------
(* The ceiling and its evidence. *)

USE DEF vars, bracket, ceilings

\* The measured contexts have a largest one.
HasTop == DOMAIN points # {} => \E m \in DOMAIN points : \A c \in DOMAIN points : c <= m

\* While nothing is refused, the measured rungs lie below the remaining ones.
ClimbedInOrder ==
    phase \in {"preflight", "climb"} =>
        /\ refused = {}
        /\ DOMAIN points \subseteq Rungs
        /\ \A c \in DOMAIN points, r \in Remaining : c < r

EvidenceUnderBudget == \A c \in DOMAIN points : est.ref + points[c] < est.budget

Types ==
    /\ phase \in {"preflight", "climb", "bisect", "done", "failed"}
    /\ est \in Estimates
    /\ footprint \in Footprints \cup {None}
    /\ DOMAIN points \subseteq Nat
    /\ refused \subseteq Nat
    /\ lo \in Nat /\ hi \in Nat

IInv ==
    /\ Types
    /\ HasTop
    /\ ClimbedInOrder
    /\ EvidenceUnderBudget
    /\ phase # "done" => direct = None
    /\ CeilingSeparatesEvidence

\* Rungs are contexts.
LEMMA RungsAreContexts ==
    ASSUME est \in Estimates
    PROVE  Rungs \subseteq Nat
<1>1. est \in Fields /\ Schedule \subseteq Nat
  BY RampAssumption
<1>2. CASE est.window = None
  BY <1>1, <1>2 DEF Rungs
<1>3. CASE est.window # None
  <2>1. est.window \in Nat \ {0}
    BY <1>1, <1>3 DEF Fields
  <2>2. est.window \div 2 \in Nat /\ {1, est.window \div 2} # {}
    BY <2>1
  <2>3. Max({1, est.window \div 2}) \in Nat
    <3>1. \E x \in {1, est.window \div 2} : \A y \in {1, est.window \div 2} : x >= y
      BY <2>2
    <3>2. Max({1, est.window \div 2}) \in {1, est.window \div 2}
      BY <3>1 DEF Max
    <3> QED BY <3>2, <2>2
  <2> QED BY <1>1, <1>3, <2>1, <2>3 DEF Rungs
<1> QED BY <1>2, <1>3

\* The largest measured context is what Max says it is.
LEMMA TopIsMax ==
    ASSUME HasTop, DOMAIN points # {}, DOMAIN points \subseteq Nat
    PROVE  /\ Max(DOMAIN points) \in DOMAIN points
           /\ \A c \in DOMAIN points : c <= Max(DOMAIN points)
<1>1. \E m \in DOMAIN points : \A c \in DOMAIN points : m >= c
  BY DEF HasTop
<1>2. /\ Max(DOMAIN points) \in DOMAIN points
      /\ \A c \in DOMAIN points : Max(DOMAIN points) >= c
  BY <1>1 DEF Max
<1> QED BY <1>2

\* A safe measurement adds one context, with a reading under the budget.
LEMMA SafeMeasurement ==
    ASSUME Types, EvidenceUnderBudget, NEW c \in Nat, MeasuresSafe(c), UNCHANGED est
    PROVE  /\ DOMAIN points' = DOMAIN points \cup {c}
           /\ EvidenceUnderBudget'
           /\ refused' = refused
<1>1. PICK y \in Reads(c) :
        /\ ~AtOrOver(y)
        /\ points' = [x \in DOMAIN points \cup {c} |-> IF x = c THEN y ELSE points[x]]
  BY DEF MeasuresSafe
<1>2. y \in Nat
  BY <1>1, RampAssumption DEF Reads, Types
<1>3. est.ref \in Nat /\ est.budget \in Nat
  BY RampAssumption DEF Types, Fields
<1>4. est.ref + y < est.budget
  BY <1>1, <1>2, <1>3 DEF AtOrOver
<1> QED BY <1>1, <1>4 DEF MeasuresSafe, EvidenceUnderBudget

\* The bracket's midpoint lies strictly inside it while it is open.
LEMMA MidInside ==
    ASSUME lo \in Nat, hi \in Nat, Open
    PROVE  Mid \in Nat /\ lo < Mid /\ Mid < hi
<1>1. hi - lo > 1
  BY RampAssumption DEF Open
<1> QED BY <1>1 DEF Mid

LEMMA InitEstablishes == Init => IInv
<1> SUFFICES ASSUME Init PROVE IInv
  OBVIOUS
<1>1. DOMAIN points = {}
  BY DEF Init
<1> QED
  BY <1>1 DEF Init, IInv, Types, HasTop, ClimbedInOrder, EvidenceUnderBudget,
              CeilingSeparatesEvidence

LEMMA StepPreserves == IInv /\ [Next]_vars => IInv'
<1> SUFFICES ASSUME IInv, [Next]_vars PROVE IInv'
  OBVIOUS
<1> USE DEF IInv
<1>1. CASE Preflight
  BY <1>1 DEF Preflight, Types, HasTop, ClimbedInOrder, EvidenceUnderBudget,
              CeilingSeparatesEvidence, Rungs, Remaining
<1>2. CASE Fails
  BY <1>2 DEF Fails, Types, HasTop, ClimbedInOrder, EvidenceUnderBudget,
              CeilingSeparatesEvidence
<1>3. ASSUME NEW c \in Rungs, ClimbSafe(c) PROVE IInv'
  <2>1. c \in Nat /\ c \in Remaining /\ \A r \in Remaining : c <= r
    BY <1>3, RungsAreContexts DEF ClimbSafe, Planned, Types
  <2>2. /\ DOMAIN points' = DOMAIN points \cup {c}
        /\ EvidenceUnderBudget'
        /\ refused' = refused
    BY <1>3, <2>1, SafeMeasurement DEF ClimbSafe
  <2>3. Rungs' = Rungs /\ Remaining' = Remaining \ {c}
    BY <1>3, <2>2 DEF ClimbSafe, Rungs, Remaining
  <2>4. \A p \in DOMAIN points : p < c
    BY <1>3, <2>1 DEF ClimbSafe, ClimbedInOrder
  <2>5. HasTop'
    BY <2>1, <2>2, <2>4 DEF HasTop, Types
  <2>6. \A p \in DOMAIN points', r \in Remaining' : p < r
    <3>1. \A r \in Remaining' : r \in Nat /\ c < r
      BY <2>1, <2>3, RungsAreContexts DEF Remaining, Types
    <3> QED BY <1>3, <2>1, <2>2, <2>3, <3>1 DEF ClimbSafe, ClimbedInOrder
  <2>7. ClimbedInOrder'
    BY <1>3, <2>2, <2>3, <2>6 DEF ClimbSafe, ClimbedInOrder
  <2> QED
    BY <1>3, <2>1, <2>2, <2>5, <2>7 DEF ClimbSafe, Types, CeilingSeparatesEvidence
<1>4. ASSUME NEW c \in Rungs, ClimbAbortsAtOnce(c) PROVE IInv'
  <2>1. c \in Nat
    BY RungsAreContexts DEF Types
  <2> QED
    BY <1>4, <2>1 DEF ClimbAbortsAtOnce, Refuses, Types, HasTop, ClimbedInOrder,
                      EvidenceUnderBudget, CeilingSeparatesEvidence
<1>5. ASSUME NEW c \in Rungs, ClimbAborts(c) PROVE IInv'
  <2>1. c \in Nat /\ c \in Remaining
    BY <1>5, RungsAreContexts DEF ClimbAborts, Planned, Types
  <2>2. /\ lo' \in DOMAIN points
        /\ \A p \in DOMAIN points : p <= lo'
    BY <1>5, TopIsMax DEF ClimbAborts, Types
  <2>3. lo' < c /\ refused = {}
    BY <1>5, <2>1, <2>2 DEF ClimbAborts, ClimbedInOrder
  <2>4. points' = points /\ refused' = {c} /\ hi' = c
    BY <1>5, <2>3 DEF ClimbAborts, Refuses
  <2> QED
    BY <1>5, <2>1, <2>2, <2>3, <2>4
    DEF ClimbAborts, Types, HasTop, ClimbedInOrder, EvidenceUnderBudget,
        CeilingSeparatesEvidence
<1>6. CASE ClimbEnds
  <2>1. refused = {}
    BY <1>6 DEF ClimbEnds, ClimbedInOrder
  <2>2. direct' # None => /\ direct' \in DOMAIN points
                          /\ \A p \in DOMAIN points : p <= direct'
    BY <1>6, TopIsMax DEF ClimbEnds, Report, Types
  <2> QED
    BY <1>6, <2>1, <2>2 DEF ClimbEnds, Types, HasTop, ClimbedInOrder, EvidenceUnderBudget,
                            CeilingSeparatesEvidence
<1>7. CASE BisectSafe
  <2>1. Mid \in Nat /\ lo < Mid /\ Mid < hi
    BY <1>7, MidInside DEF BisectSafe, Types
  <2>2. /\ DOMAIN points' = DOMAIN points \cup {Mid}
        /\ EvidenceUnderBudget'
        /\ refused' = refused
    BY <1>7, <2>1, SafeMeasurement DEF BisectSafe
  <2>3. \A p \in DOMAIN points' : p <= Mid
    BY <1>7, <2>1, <2>2 DEF BisectSafe, CeilingSeparatesEvidence, Types
  <2> QED
    BY <1>7, <2>1, <2>2, <2>3 DEF BisectSafe, Types, HasTop, ClimbedInOrder,
                                  CeilingSeparatesEvidence
<1>8. CASE BisectRefused
  <2>1. Mid \in Nat /\ lo < Mid /\ Mid < hi
    BY <1>8, MidInside DEF BisectRefused, Types
  <2>2. points' = points /\ refused' = refused \cup {Mid} /\ hi' = Mid /\ lo' = lo
    BY <1>8 DEF BisectRefused, Refuses, BisectLowers
  <2>3. \A r \in refused' : r >= Mid
    BY <1>8, <2>1, <2>2 DEF BisectRefused, CeilingSeparatesEvidence, Types
  <2> QED
    BY <1>8, <2>1, <2>2, <2>3 DEF BisectRefused, Types, HasTop, ClimbedInOrder,
                                  EvidenceUnderBudget, CeilingSeparatesEvidence
<1>9. CASE BisectEnds
  <2>1. \A r \in refused : r > lo
    BY <1>9 DEF BisectEnds, CeilingSeparatesEvidence, Types
  <2> QED
    BY <1>9, <2>1 DEF BisectEnds, Report, Types, HasTop, ClimbedInOrder, EvidenceUnderBudget,
                      CeilingSeparatesEvidence
<1>10. CASE UNCHANGED vars
  BY <1>10 DEF Types, HasTop, ClimbedInOrder, EvidenceUnderBudget, CeilingSeparatesEvidence,
               Rungs, Remaining
<1> QED
  BY <1>1, <1>2, <1>3, <1>4, <1>5, <1>6, <1>7, <1>8, <1>9, <1>10 DEF Next, Proceeds

\* RULE #1's evidence: whatever the workers answer, the context reported as
\* measured was measured under the budget and every refusal lies above it.
THEOREM CeilingIsEvidence == Spec => []CeilingSeparatesEvidence
<1>1. IInv => CeilingSeparatesEvidence
  BY DEF IInv
<1> QED BY InitEstablishes, StepPreserves, <1>1, PTL DEF Spec
-----------------------------------------------------------------------------
(* The fitted line, and the wall. *)

\* The measured contexts are finitely many.
Finite == IsFiniteSet(DOMAIN points) /\ points \in [DOMAIN points -> Nat]

\* The sums of fit(), as the measurements go on.
SumsFit ==
    /\ N * SumXX - SumX * SumX >= 0
    /\ N >= 2 => N * SumXX - SumX * SumX > 0
    /\ \A m \in Nat : (\A c \in DOMAIN points : c <= m) => SumX <= N * m

\* Where the model's memory follows a line, so do the sums.
SumsFollow ==
    footprint # None =>
        /\ SumY = footprint.base * N + footprint.slope * SumX
        /\ SumXY = footprint.base * SumX + footprint.slope * SumXX

\* The sums are numbers.
LEMMA SumsAreNumbers ==
    ASSUME Finite, DOMAIN points \subseteq Nat
    PROVE  N \in Nat /\ SumX \in Int /\ SumY \in Int /\ SumXX \in Int /\ SumXY \in Int
<1> DEFINE D == DOMAIN points
<1>1. /\ [c \in D |-> c] \in [D -> Int] /\ points \in [D -> Int]
      /\ [c \in D |-> c * c] \in [D -> Int] /\ [c \in D |-> c * points[c]] \in [D -> Int]
  BY DEF Finite
<1>2. IsFiniteSet(D)
  BY DEF Finite
<1> HIDE DEF D
<1>3. SumFunction([c \in D |-> c]) \in Int
  BY <1>1, <1>2, SumIsInteger
<1>4. SumFunction(points) \in Int
  BY <1>1, <1>2, SumIsInteger
<1>5. SumFunction([c \in D |-> c * c]) \in Int
  BY <1>1, <1>2, SumIsInteger
<1>6. SumFunction([c \in D |-> c * points[c]]) \in Int
  BY <1>1, <1>2, SumIsInteger
<1>7. N \in Nat
  BY <1>2, FS_CardinalityType DEF N, D
<1> QED BY <1>3, <1>4, <1>5, <1>6, <1>7 DEF SumX, SumY, SumXX, SumXY, D

\* A measurement at a new context adds its terms.
LEMMA SumsGrow ==
    ASSUME Finite, DOMAIN points \subseteq Nat, NEW c \in Nat, c \notin DOMAIN points, NEW y \in Nat,
           points' = [x \in DOMAIN points \cup {c} |-> IF x = c THEN y ELSE points[x]]
    PROVE  /\ Finite' /\ DOMAIN points' = DOMAIN points \cup {c}
           /\ N' = N + 1 /\ SumX' = SumX + c /\ SumY' = SumY + y
           /\ SumXX' = SumXX + c * c /\ SumXY' = SumXY + c * y
<1> DEFINE D == DOMAIN points
           E == D \cup {c}
           X == [x \in D |-> x]
           XX == [x \in D |-> x * x]
           XY == [x \in D |-> x * points[x]]
           EX == [x \in E |-> x]
           EXX == [x \in E |-> x * x]
           EXY == [x \in E |-> x * points'[x]]
<1>1. DOMAIN points' = E /\ points' \in [E -> Nat] /\ points'[c] = y /\ \A x \in D : points'[x] = points[x]
  BY DEF Finite
<1>2. IsFiniteSet(D) /\ c \notin D
  BY DEF Finite
<1>3. IsFiniteSet(E) /\ Cardinality(E) = Cardinality(D) + 1
  BY <1>2, FS_AddElement
<1>4. X \in [D -> Int] /\ XX \in [D -> Int] /\ XY \in [D -> Int] /\ points \in [D -> Int]
  BY DEF Finite
<1>5. EX \in [E -> Int] /\ EXX \in [E -> Int] /\ EXY \in [E -> Int] /\ points' \in [E -> Int]
  BY <1>1
<1>6. /\ \A x \in D : EX[x] = X[x]
      /\ EX[c] = c
  BY <1>1
<1>7. /\ \A x \in D : EXX[x] = XX[x]
      /\ EXX[c] = c * c
  BY <1>1
<1>8. /\ \A x \in D : EXY[x] = XY[x]
      /\ EXY[c] = c * y
  BY <1>1
<1> HIDE DEF D, X, XX, XY, EX, EXX, EXY
<1>9. SumFunction(EX) = SumFunction(X) + c
  <2>1. X \in [D -> Int] /\ EX \in [D \cup {c} -> Int]
    BY <1>4, <1>5
  <2> QED BY <1>2, <1>6, <2>1, SumOfOneMore
<1>10. SumFunction(EXX) = SumFunction(XX) + c * c
  <2>1. XX \in [D -> Int] /\ EXX \in [D \cup {c} -> Int]
    BY <1>4, <1>5
  <2>2. \A x \in D : EXX[x] = XX[x]
    BY <1>7
  <2>3. SumFunction(EXX) = SumFunction(XX) + EXX[c]
    BY <1>2, <2>1, <2>2, SumOfOneMore
  <2>4. EXX[c] = c * c
    BY <1>7
  <2> QED BY <2>3, <2>4, Zenon
<1>11. SumFunction(EXY) = SumFunction(XY) + c * y
  <2>1. XY \in [D -> Int] /\ EXY \in [D \cup {c} -> Int]
    BY <1>4, <1>5
  <2>2. \A x \in D : EXY[x] = XY[x]
    BY <1>8
  <2>3. SumFunction(EXY) = SumFunction(XY) + EXY[c]
    BY <1>2, <2>1, <2>2, SumOfOneMore
  <2>4. EXY[c] = c * y
    BY <1>8
  <2> QED BY <2>3, <2>4, Zenon
<1>12. SumFunction(points') = SumFunction(points) + y
  <2> DEFINE f == points
             e == points'
  <2>1. f \in [D -> Int] /\ e \in [D \cup {c} -> Int] /\ e[c] = y /\ \A x \in D : e[x] = f[x]
    BY <1>1, <1>4, <1>5
  <2> HIDE DEF f, e
  <2>2. SumFunction(e) = SumFunction(f) + y
    BY <1>2, <2>1, SumOfOneMore
  <2> QED BY <2>2 DEF f, e
<1>13. SumX = SumFunction(X) /\ SumXX = SumFunction(XX) /\ SumXY = SumFunction(XY)
  BY DEF SumX, SumXX, SumXY, X, XX, XY, D
<1>14. SumX' = SumFunction(EX) /\ SumXX' = SumFunction(EXX) /\ SumXY' = SumFunction(EXY)
  BY <1>1 DEF SumX, SumXX, SumXY, EX, EXX, EXY
<1>15. N' = N + 1 /\ Finite'
  BY <1>1, <1>3 DEF N, Finite, D
<1> QED
  BY <1>1, <1>9, <1>10, <1>11, <1>12, <1>13, <1>14, <1>15 DEF SumY, D

\* One more safe measurement above all others keeps what the sums say.
LEMMA SumsStep ==
    ASSUME Types, Finite, SumsFit, SumsFollow, NEW c \in Nat, \A p \in DOMAIN points : p < c,
           MeasuresSafe(c), UNCHANGED footprint
    PROVE  Finite' /\ SumsFit' /\ SumsFollow'
<1>1. PICK y \in Reads(c) :
        points' = [x \in DOMAIN points \cup {c} |-> IF x = c THEN y ELSE points[x]]
  BY DEF MeasuresSafe
<1>2. y \in Nat /\ DOMAIN points \subseteq Nat /\ c \notin DOMAIN points
  BY <1>1, RampAssumption DEF Reads, Types
<1>3. /\ Finite' /\ DOMAIN points' = DOMAIN points \cup {c}
      /\ N' = N + 1 /\ SumX' = SumX + c /\ SumY' = SumY + y
      /\ SumXX' = SumXX + c * c /\ SumXY' = SumXY + c * y
  BY <1>1, <1>2, SumsGrow
<1>4. N \in Nat /\ SumX \in Int /\ SumY \in Int /\ SumXX \in Int /\ SumXY \in Int
  BY <1>2, SumsAreNumbers
<1>5. N = 0 => DOMAIN points = {} /\ SumX = 0 /\ SumXX = 0
  <2>1. N = 0 => DOMAIN points = {}
    BY FS_EmptySet DEF N, Finite
  <2> QED BY <2>1, SumOfNothing DEF SumX, SumXX
<1>6. N > 0 => SumX < N * c
  <2> SUFFICES ASSUME N > 0 PROVE SumX < N * c
    OBVIOUS
  <2>1. DOMAIN points # {}
    BY FS_EmptySet DEF N
  <2>2. c - 1 \in Nat /\ \A p \in DOMAIN points : p <= c - 1
    BY <1>2, <2>1
  <2>3. SumX <= N * (c - 1)
    BY <2>2 DEF SumsFit
  <2>4. N * (c - 1) = N * c - N
    BY <1>4
  <2> QED BY <1>4, <2>3, <2>4
<1>7. SumsFit'
  <2>1. CASE N = 0
    BY <1>3, <1>5, <2>1 DEF SumsFit
  <2>2. CASE N > 0
    <3>1. (N + 1) * (SumXX + c * c) - (SumX + c) * (SumX + c) > 0
      BY <1>4, <1>6, <2>2, SpreadGrows DEF SumsFit
    <3>2. ASSUME NEW m \in Nat, \A p \in DOMAIN points \cup {c} : p <= m
          PROVE  SumX + c <= (N + 1) * m
      <4>1. SumX <= N * m /\ c <= m
        BY <3>2 DEF SumsFit
      <4>2. (N + 1) * m = N * m + m /\ N * m \in Int
        BY <1>4
      <4> QED BY <1>4, <4>1, <4>2
    <3> QED BY <1>3, <3>1, <3>2 DEF SumsFit
  <2> QED BY <1>4, <2>1, <2>2
<1>8. SumsFollow'
  <2> SUFFICES ASSUME footprint # None PROVE SumsFollow'
    BY DEF SumsFollow
  <2> DEFINE b == footprint.base
             m == footprint.slope
  <2>1. b \in Nat /\ m \in Nat
    BY RampAssumption DEF Types
  <2>2. y = b + m * c
    BY <1>1 DEF Reads
  <2>3. SumY = b * N + m * SumX /\ SumXY = b * SumX + m * SumXX
    BY DEF SumsFollow
  <2> HIDE DEF b, m
  <2>4. SumY + y = b * (N + 1) + m * (SumX + c)
    BY <1>4, <2>1, <2>2, <2>3
  <2>5. SumXY + c * y = b * (SumX + c) + m * (SumXX + c * c)
    <3>1. c * y = b * c + m * (c * c)
      BY <2>1, <2>2
    <3>2. /\ b * (SumX + c) = b * SumX + b * c
          /\ m * (SumXX + c * c) = m * SumXX + m * (c * c)
      BY <1>4, <2>1
    <3>3. /\ b * SumX \in Int /\ b * c \in Int /\ m * SumXX \in Int /\ m * (c * c) \in Int
      BY <1>4, <2>1
    <3> QED BY <2>3, <3>1, <3>2, <3>3
  <2> QED BY <1>3, <2>4, <2>5 DEF SumsFollow, b, m
<1> QED BY <1>3, <1>7, <1>8

\* Two measurements of a straight line give that line.
LEMMA FitIsExact ==
    ASSUME Types, Finite, SumsFit, SumsFollow, footprint # None, N >= 2
    PROVE  \E s \in Nat \ {0} :
             Fit = [spread |-> s, slope |-> footprint.slope * s, intercept |-> footprint.base * s]
<1>1. N \in Nat /\ SumX \in Int /\ SumY \in Int /\ SumXX \in Int /\ SumXY \in Int
  BY SumsAreNumbers DEF Types
<1>2. footprint.base \in Nat /\ footprint.slope \in Nat
  BY RampAssumption DEF Types
<1> DEFINE s == N * SumXX - SumX * SumX
           b == footprint.base
           m == footprint.slope
<1>3. s \in Nat \ {0}
  BY <1>1 DEF SumsFit
<1>4. SumY = b * N + m * SumX /\ SumXY = b * SumX + m * SumXX
  BY DEF SumsFollow
<1>5. b \in Int /\ m \in Int
  BY <1>2
<1> HIDE DEF b, m
<1>6. /\ N * (b * SumX + m * SumXX) - SumX * (b * N + m * SumX) = m * s
      /\ (b * N + m * SumX) * SumXX - SumX * (b * SumX + m * SumXX) = b * s
  BY <1>1, <1>5, LineIsExact
<1>7. N * SumXY - SumX * SumY = m * s /\ SumY * SumXX - SumX * SumXY = b * s
  BY <1>4, <1>6
<1>8. Fit = [spread |-> s, slope |-> m * s, intercept |-> b * s]
  <2> HIDE DEF s
  <2>1. Fit = [spread |-> s, slope |-> N * SumXY - SumX * SumY,
               intercept |-> SumY * SumXX - SumX * SumXY]
    BY DEF Fit, Line, s
  <2> QED BY <1>7, <2>1, Zenon
<1> HIDE DEF s
<1> QED BY <1>3, <1>8 DEF b, m

\* The preflight does not underestimate a model that grows linearly.
NotUnderestimated ==
    footprint # None /\ footprint.base + est.ref <= est.base /\ footprint.slope <= est.slope

\* What the gate lets pass stays under the budget.
LEMMA GateHolds ==
    ASSUME Types, Finite, SumsFit, SumsFollow, NotUnderestimated, NEW c \in Nat, ~Gated(c)
    PROVE  TrueMemory(c) < est.budget
<1>1. footprint.base \in Nat /\ footprint.slope \in Nat /\ footprint # None
  BY RampAssumption DEF Types, NotUnderestimated
<1>2. /\ est.base \in Nat /\ est.ref \in Nat /\ est.slope \in Nat /\ est.budget \in Nat
  BY RampAssumption DEF Types, Fields
<1> DEFINE b == footprint.base
           m == footprint.slope
<1>3. CASE N >= 2
  <2>1. PICK s \in Nat \ {0} :
          Fit = [spread |-> s, slope |-> m * s, intercept |-> b * s]
    BY <1>1, <1>3, FitIsExact
  <2>2. ~(est.ref * s + b * s + m * s * c >= est.budget * s)
    BY <1>3, <2>1 DEF Gated, WouldBreach, Reaches, Predict
  <2>3. m * s * c = (m * c) * s /\ m * c \in Int
    BY <1>1
  <2>4. est.ref * s + b * s + m * s * c = (est.ref + b + m * c) * s
    BY <1>1, <1>2, <2>3
  <2>5. (est.ref + b + m * c) * s < est.budget * s
    BY <1>1, <1>2, <2>2, <2>3, <2>4
  <2>6. est.ref + b + m * c < est.budget
    BY <1>1, <1>2, <2>3, <2>5, MoreOfLess
  <2> QED BY <2>6 DEF TrueMemory
<1>4. CASE ~(N >= 2)
  <2>1. ~(0 * 1 + est.base + est.slope * c >= est.budget * 1)
    BY <1>4 DEF Gated, WouldBreach, Reaches, Predict, Line
  <2>2. m * c <= est.slope * c
    <3>1. (est.slope - m) * c >= 0
      BY <1>1, <1>2 DEF NotUnderestimated
    <3> QED BY <1>1, <1>2, <3>1
  <2>3. m * c \in Int /\ est.slope * c \in Int
    BY <1>1, <1>2
  <2> QED BY <1>1, <1>2, <2>1, <2>2, <2>3 DEF TrueMemory, NotUnderestimated
<1> QED BY <1>3, <1>4

-----------------------------------------------------------------------------
(* The ceilings that are solved for. *)

IsLine(l) == l.spread \in Int /\ l.slope \in Int /\ l.intercept \in Int

\* A solved ceiling is a context, if there is one.
LEMMA SafeCeilingIsContext ==
    ASSUME est \in Estimates, NEW l, IsLine(l), NEW ref \in Int
    PROVE  SafeCeiling(l, ref) \in Nat \cup {None}
<1> DEFINE h == (est.budget - ref) * l.spread - l.intercept
           t == IF h <= 0 THEN 0 ELSE h \div l.slope
<1>1. est.budget \in Nat
  BY RampAssumption DEF Fields
<1>2. l.spread \in Int /\ l.slope \in Int /\ l.intercept \in Int
  BY DEF IsLine
<1>3. h \in Int
  BY <1>1, <1>2
<1>4. ASSUME l.slope > 0 PROVE t \in Nat
  <2> HIDE DEF h
  <2>1. ASSUME h > 0 PROVE h \div l.slope \in Nat
    <3> DEFINE q == h \div l.slope
    <3>1. q \in Int /\ h < (q + 1) * l.slope
      BY <1>2, <1>3, <1>4, Quotient
    <3> HIDE DEF q
    <3>2. (q + 1) * l.slope > 0
      BY <1>2, <1>3, <2>1, <3>1
    <3>3. l.slope * (q + 1) > 0
      BY <1>2, <3>1, <3>2
    <3>4. q + 1 > 0
      BY <1>2, <1>4, <3>1, <3>3, PositiveFactor
    <3>5. q \in Nat
      BY <3>1, <3>4
    <3> QED BY <3>5 DEF q
  <2> QED BY <1>3, <2>1
<1>5. SafeCeiling(l, ref) = IF l.slope <= 0 THEN None
                            ELSE IF t > 0 /\ Reaches(l, ref, t) THEN t - 1 ELSE t
  BY DEF SafeCeiling
<1> HIDE DEF t
<1> QED BY <1>2, <1>4, <1>5

\* No ceiling lies past the window.
LEMMA CappedIsInWindow ==
    ASSUME est \in Estimates, NEW x \in Nat \cup {None}
    PROVE  /\ Capped(x) \in Nat \cup {None}
           /\ est.window # None /\ Capped(x) # None => Capped(x) \in 0 .. est.window
<1>1. est.window \in (Nat \ {0}) \cup {None} /\ None \notin Int
  BY RampAssumption DEF Fields
<1> QED BY <1>1 DEF Capped

\* The fitted line is one.
LEMMA FitIsLine ==
    ASSUME Types, Finite
    PROVE  IsLine(Fit) /\ N \in Nat /\ est.ref \in Nat /\ est.kv \in Nat
<1>1. N \in Nat /\ SumX \in Int /\ SumY \in Int /\ SumXX \in Int /\ SumXY \in Int
  BY SumsAreNumbers DEF Types
<1>2. est.ref \in Nat /\ est.kv \in Nat
  BY RampAssumption DEF Types, Fields
<1> QED BY <1>1, <1>2 DEF IsLine, Fit, Line

\* A reported ceiling is a context in the model's window.
InWindow(x) ==
    /\ x \in Nat \cup {None}
    /\ est.window # None /\ x # None => x \in 0 .. est.window

LEMMA CeilingsAreInWindow ==
    ASSUME Types, Finite
    PROVE  InWindow(FittedCeiling) /\ InWindow(DecodeCeiling)
<1>1. IsLine(Fit) /\ N \in Nat /\ est.ref \in Nat /\ est.kv \in Nat /\ est \in Estimates
  BY FitIsLine DEF Types
<1>2. SafeCeiling(Fit, est.ref) \in Nat \cup {None}
  BY <1>1, SafeCeilingIsContext
<1>3. est.window \in (Nat \ {0}) \cup {None}
  BY <1>1, RampAssumption DEF Fields
<1>4. InWindow(FittedCeiling)
  <2>1. InWindow(None)
    BY DEF InWindow
  <2>2. InWindow(Capped(SafeCeiling(Fit, est.ref)))
    BY <1>1, <1>2, CappedIsInWindow DEF InWindow
  <2>3. est.window \in DOMAIN points => InWindow(est.window)
    <3>1. None \notin Int
      BY RampAssumption
    <3> QED BY <1>3, <3>1 DEF InWindow, Types
  <2> QED BY <2>1, <2>2, <2>3 DEF FittedCeiling
<1>5. InWindow(DecodeCeiling)
  <2> DEFINE l == [Fit EXCEPT !.slope = est.kv * Fit.spread]
  <2>1. IsLine(l)
    BY <1>1 DEF IsLine, Fit, Line
  <2> HIDE DEF l
  <2>2. SafeCeiling(l, est.ref) \in Nat \cup {None}
    BY <1>1, <2>1, SafeCeilingIsContext
  <2>3. InWindow(Capped(SafeCeiling(l, est.ref)))
    BY <1>1, <2>2, CappedIsInWindow DEF InWindow
  <2>4. InWindow(None)
    BY DEF InWindow
  <2> QED BY <2>3, <2>4 DEF DecodeCeiling, l
<1> QED BY <1>4, <1>5

\* Along the true line the solved ceiling is the last context under the budget.
LEMMA SolvedExactly ==
    ASSUME est \in Estimates, NEW s \in Nat \ {0}, NEW b \in Nat, NEW m \in Nat \ {0},
           NEW l, l = [spread |-> s, slope |-> m * s, intercept |-> b * s]
    PROVE  /\ SafeCeiling(l, est.ref) \in Nat
           /\ SafeCeiling(l, est.ref) > 0 =>
                /\ est.ref + b + m * SafeCeiling(l, est.ref) < est.budget
                /\ est.ref + b + m * (SafeCeiling(l, est.ref) + 1) >= est.budget
<1> DEFINE ref == est.ref
           room == est.budget - ref - b
           h == (est.budget - ref) * s - b * s
           t == IF h <= 0 THEN 0 ELSE h \div (m * s)
           x == SafeCeiling(l, ref)
<1>1. est.budget \in Nat /\ ref \in Nat
  BY RampAssumption DEF Fields
<1>2. m * s \in Nat /\ m * s > 0
  <2>1. m > 0 /\ s > 0
    OBVIOUS
  <2> QED BY <2>1
<1>3. x = IF t > 0 /\ Reaches(l, ref, t) THEN t - 1 ELSE t
  BY <1>2 DEF SafeCeiling
<1>4. h = room * s /\ room \in Int /\ h \in Int
  BY <1>1
<1>5. \A c \in Int : Reaches(l, ref, c) <=> m * c >= room
  <2> SUFFICES ASSUME NEW c \in Int PROVE Reaches(l, ref, c) <=> m * c >= room
    OBVIOUS
  <2>1. Reaches(l, ref, c) <=> ref * s + b * s + m * s * c >= est.budget * s
    BY DEF Reaches, Predict
  <2>2. m * s * c = (m * c) * s /\ m * c \in Int
    OBVIOUS
  <2>3. ref * s + b * s + m * s * c = (ref + b + m * c) * s
    BY <1>1, <2>2
  <2>4. (ref + b + m * c) * s < est.budget * s <=> ref + b + m * c < est.budget
    BY <1>1, <2>2, MoreOfLess
  <2>5. /\ (ref + b + m * c) * s \in Int /\ est.budget * s \in Int
    BY <1>1, <2>2
  <2> QED BY <1>1, <2>1, <2>2, <2>3, <2>4, <2>5
<1>6. ASSUME h > 0 PROVE t \in Nat /\ m * t <= room /\ m * (t + 1) > room
  <2>1. t = h \div (m * s)
    BY <1>4, <1>6
  <2> HIDE DEF t, h
  <2>2. t \in Int /\ t * (m * s) <= h /\ h < (t + 1) * (m * s)
    BY <1>2, <1>4, <2>1, Quotient
  <2>3. /\ t * (m * s) = (m * t) * s /\ (t + 1) * (m * s) = (m * (t + 1)) * s
        /\ m * t \in Int /\ m * (t + 1) \in Int
    BY <2>2
  <2>4. ~(room * s < (m * t) * s) /\ room * s < (m * (t + 1)) * s
    <3>1. /\ room * s \in Int /\ (m * t) * s \in Int
      BY <1>4, <2>3
    <3>2. (m * t) * s <= room * s
      BY <1>4, <2>2, <2>3
    <3> QED BY <1>4, <2>2, <2>3, <3>1, <3>2
  <2>5. ~(room < m * t) /\ room < m * (t + 1)
    BY <1>4, <2>3, <2>4, MoreOfLess
  <2>6. m * (t + 1) > 0
    <3>1. room > 0
      <4>1. 0 * s < room * s
        BY <1>4, <1>6
      <4> QED BY <1>4, <4>1, MoreOfLess
    <3> QED BY <1>4, <2>3, <2>5, <3>1
  <2>7. t + 1 > 0
    BY <2>2, <2>6, PositiveFactor
  <2> QED BY <1>4, <2>2, <2>3, <2>5, <2>7
<1>7. CASE h <= 0
  <2>1. t = 0
    BY <1>7
  <2> HIDE DEF t, x
  <2> QED BY <1>3, <2>1 DEF x
<1>8. CASE h > 0
  <2>1. t \in Nat /\ m * t <= room /\ m * (t + 1) > room
    BY <1>6, <1>8
  <2> HIDE DEF t, h
  <2>2. m * (t - 1) = m * t - m /\ m * t \in Int /\ m * (t + 1) \in Int /\ m * ((t - 1) + 1) = m * t
    BY <2>1
  <2>3. CASE t > 0 /\ Reaches(l, ref, t)
    <3>1. x = t - 1 /\ m * t >= room
      BY <1>3, <1>5, <2>1, <2>3
    <3> HIDE DEF x
    <3>2. x \in Nat /\ m * x < room /\ m * (x + 1) >= room
      BY <1>4, <2>1, <2>2, <2>3, <3>1
    <3>3. m * x \in Int /\ m * (x + 1) \in Int
      BY <3>2
    <3> QED BY <1>1, <3>2, <3>3 DEF x
  <2>4. CASE ~(t > 0 /\ Reaches(l, ref, t))
    <3>1. x = t /\ (t > 0 => m * t < room)
      BY <1>3, <1>4, <1>5, <2>1, <2>2, <2>4
    <3> HIDE DEF x
    <3>2. x \in Nat /\ m * x \in Int /\ m * (x + 1) \in Int
      BY <2>1, <3>1
    <3> QED BY <1>1, <1>4, <2>1, <3>1, <3>2 DEF x
  <2> QED BY <2>3, <2>4
<1> QED BY <1>4, <1>7, <1>8

\* Where memory follows a line, the ceiling solved from it ends at the budget.
LEMMA FittedIsExact ==
    ASSUME Types, Finite, SumsFit, SumsFollow, footprint # None, FittedCeiling # None,
           FittedCeiling > 0, footprint.slope > 0
    PROVE  /\ TrueMemory(FittedCeiling) < est.budget
           /\ FittedCeiling # est.window => TrueMemory(FittedCeiling + 1) >= est.budget
<1> DEFINE b == footprint.base
           m == footprint.slope
           x == SafeCeiling(Fit, est.ref)
<1>1. b \in Nat /\ m \in Nat \ {0} /\ est \in Estimates
  BY RampAssumption DEF Types
<1>2. /\ est.budget \in Nat /\ est.ref \in Nat /\ est.window \in (Nat \ {0}) \cup {None} /\ None \notin Int
  BY <1>1, RampAssumption DEF Fields
<1>3. N >= 2
  BY FitIsLine DEF FittedCeiling
<1>4. PICK s \in Nat \ {0} : Fit = [spread |-> s, slope |-> m * s, intercept |-> b * s]
  BY <1>3, FitIsExact
<1>5. /\ x \in Nat
      /\ x > 0 => est.ref + b + m * x < est.budget /\ est.ref + b + m * (x + 1) >= est.budget
  <2> HIDE DEF b, m
  <2> QED BY <1>1, <1>4, SolvedExactly
<1> HIDE DEF x, b, m
<1>6. FittedCeiling = IF est.window # None /\ x > est.window THEN est.window ELSE x
  BY <1>2, <1>3, <1>5 DEF FittedCeiling, Capped, x
<1>7. CASE est.window # None /\ x > est.window
  <2>1. FittedCeiling = est.window /\ est.window \in Nat /\ est.window < x
    BY <1>2, <1>6, <1>7
  <2>2. m * est.window < m * x
    <3>1. m * (x - est.window) > 0
      BY <1>1, <1>5, <2>1
    <3> QED BY <1>1, <1>5, <2>1, <3>1
  <2>3. est.ref + b + m * est.window < est.budget
    <3>1. m * x \in Int /\ m * est.window \in Int /\ x > 0
      BY <1>1, <1>5, <2>1
    <3> QED BY <1>1, <1>2, <1>5, <2>2, <3>1
  <2> QED BY <2>1, <2>3 DEF TrueMemory, b, m
<1>8. CASE ~(est.window # None /\ x > est.window)
  <2>1. FittedCeiling = x /\ x > 0
    BY <1>6, <1>8
  <2> QED BY <1>5, <2>1 DEF TrueMemory, b, m
<1> QED BY <1>7, <1>8

\* No probe is made past the model's own window.
ProbesInWindow == est.window # None => \A c \in Probed : c <= est.window

\* Rungs are clamped to the window.
LEMMA RungsInWindow ==
    ASSUME est \in Estimates, est.window # None
    PROVE  \A c \in Rungs : c <= est.window
<1> DEFINE w == est.window
           half == w \div 2
<1>1. w \in Nat \ {0}
  BY RampAssumption DEF Fields
<1>2. half \in Nat /\ half <= w
  BY <1>1
<1> HIDE DEF half
<1>3. Max({1, half}) \in {1, half}
  <2>1. \E x \in {1, half} : \A y \in {1, half} : x >= y
    BY <1>2
  <2> QED BY <2>1 DEF Max
<1> QED BY <1>1, <1>2, <1>3 DEF Rungs, half

\* The invariant of everything that depends on the arithmetic.
Gates ==
    /\ IInv
    /\ Finite /\ SumsFit /\ SumsFollow
    /\ steps \in Nat /\ {direct, fitted, decode} \subseteq Nat \cup {None}
    /\ phase # "done" => fitted = None
    /\ ProbesInWindow
    /\ NeverReachesTheWall
    /\ FittedCeilingIsEarned

\* The sums are of the measurements alone.
LEMMA SumsStay ==
    ASSUME Finite, SumsFit, SumsFollow, UNCHANGED <<points, footprint>>
    PROVE  Finite' /\ SumsFit' /\ SumsFollow'
BY DEF Finite, SumsFit, SumsFollow, N, SumX, SumY, SumXX, SumXY

\* A probe whose true memory is under the budget reaches no wall.
LEMMA WallStep ==
    ASSUME NeverReachesTheWall, ProbesInWindow, UNCHANGED <<est, footprint>>,
           NEW c, Probed' \subseteq Probed \cup {c}, est.window # None => c <= est.window,
           NotUnderestimated => TrueMemory(c) < est.budget
    PROVE  NeverReachesTheWall' /\ ProbesInWindow'
BY DEF NeverReachesTheWall, NotUnderestimated, TrueMemory, ProbesInWindow

\* A step that probes nothing.
LEMMA NoProbe ==
    ASSUME NeverReachesTheWall, ProbesInWindow, UNCHANGED <<est, footprint, points, refused>>
    PROVE  NeverReachesTheWall' /\ ProbesInWindow'
BY DEF NeverReachesTheWall, TrueMemory, Probed, ProbesInWindow

\* A step that reports nothing, after the end or without an extrapolation.
LEMMA NoReport ==
    ASSUME FittedCeilingIsEarned, fitted = None \/ UNCHANGED refused,
           UNCHANGED <<est, footprint, ceilings>>
    PROVE  FittedCeilingIsEarned'
BY DEF FittedCeilingIsEarned, NoExtrapolationPastAnAbort, FittedCeilingIsExact, TrueMemory

\* What is reported at the end lies in the window.
LEMMA EndInWindow ==
    ASSUME Types, ProbesInWindow, UNCHANGED <<est, refused>>,
           NEW f, NEW d, InWindow(f), InWindow(d), f = None \/ refused = {},
           direct' # None => direct' \in DOMAIN points, fitted' = f, decode' = d
    PROVE  NoExtrapolationPastAnAbort'
<1>1. est.window \in (Nat \ {0}) \cup {None} /\ None \notin Int
  BY RampAssumption DEF Types, Fields
<1>2. est.window # None /\ direct' # None => direct' \in 0 .. est.window
  BY <1>1 DEF Types, ProbesInWindow, Probed
<1> QED BY <1>2 DEF NoExtrapolationPastAnAbort, InWindow

LEMMA GatesInit == Init => Gates
<1> SUFFICES ASSUME Init PROVE Gates
  OBVIOUS
<1>1. points = <<>> /\ DOMAIN points = {} /\ points \in [{} -> Nat] /\ IInv
  BY InitEstablishes DEF Init
<1>2. Finite
  BY <1>1, FS_EmptySet DEF Finite
<1>3. N = 0 /\ SumX = 0 /\ SumY = 0 /\ SumXX = 0 /\ SumXY = 0
  BY <1>1, FS_EmptySet, SumOfNothing DEF N, SumX, SumY, SumXX, SumXY
<1>4. footprint # None => footprint.base \in Nat /\ footprint.slope \in Nat
  BY RampAssumption DEF Init
<1>5. SumsFit /\ SumsFollow
  BY <1>3, <1>4 DEF SumsFit, SumsFollow
<1>6. NeverReachesTheWall /\ ProbesInWindow
  BY <1>1 DEF Init, NeverReachesTheWall, ProbesInWindow, Probed
<1>7. FittedCeilingIsEarned
  BY DEF Init, FittedCeilingIsEarned, NoExtrapolationPastAnAbort, FittedCeilingIsExact
<1> QED BY <1>1, <1>2, <1>5, <1>6, <1>7 DEF Init, Gates

LEMMA GatesStep == Gates /\ [Next]_vars => Gates'
<1> SUFFICES ASSUME Gates, [Next]_vars PROVE Gates'
  OBVIOUS
<1>1. /\ IInv /\ Types /\ Finite /\ SumsFit /\ SumsFollow /\ ProbesInWindow
      /\ NeverReachesTheWall /\ FittedCeilingIsEarned /\ IInv'
  BY StepPreserves DEF Gates, IInv
<1>2. ASSUME NEW c \in Rungs, Planned(c), phase = "climb"
      PROVE  /\ c \in Nat /\ \A p \in DOMAIN points : p < c
             /\ est.window # None => c <= est.window
             /\ NotUnderestimated => TrueMemory(c) < est.budget
  <2>1. c \in Nat /\ (est.window # None => c <= est.window)
    BY <1>1, RungsAreContexts, RungsInWindow DEF Types
  <2>2. \A p \in DOMAIN points : p < c
    BY <1>1, <1>2 DEF Planned, IInv, ClimbedInOrder
  <2> QED BY <1>1, <1>2, <2>1, <2>2, GateHolds DEF Planned
<1>3. ASSUME phase = "bisect", Open
      PROVE  /\ Mid \in Nat /\ \A p \in DOMAIN points : p < Mid
             /\ est.window # None => Mid <= est.window
             /\ NotUnderestimated => TrueMemory(Mid) < est.budget
  <2>1. Mid \in Nat /\ lo < Mid /\ Mid < hi /\ lo \in Nat /\ hi \in Nat
    BY <1>1, <1>3, MidInside DEF Types
  <2>2. hi \in Probed /\ \A p \in DOMAIN points : p \in Nat /\ p <= lo
    BY <1>1, <1>3 DEF IInv, Types, CeilingSeparatesEvidence, Probed
  <2>3. est.window # None => Mid <= est.window
    <3>1. est.window \in (Nat \ {0}) \cup {None}
      BY <1>1, RampAssumption DEF Types, Fields
    <3> QED BY <1>1, <2>1, <2>2, <3>1 DEF ProbesInWindow
  <2>4. ASSUME NotUnderestimated PROVE TrueMemory(Mid) < est.budget
    <3>1. /\ footprint.base \in Nat /\ footprint.slope \in Nat
          /\ est.ref \in Nat /\ est.budget \in Nat
      BY <1>1, <2>4, RampAssumption DEF Types, Fields, NotUnderestimated
    <3>2. TrueMemory(hi) < est.budget
      BY <1>1, <2>2, <2>4 DEF NeverReachesTheWall, NotUnderestimated
    <3>3. footprint.slope * Mid <= footprint.slope * hi
      <4>1. footprint.slope * (hi - Mid) >= 0
        BY <2>1, <3>1
      <4> QED BY <2>1, <3>1, <4>1
    <3>4. footprint.slope * Mid \in Int /\ footprint.slope * hi \in Int
      BY <2>1, <3>1
    <3> QED BY <3>1, <3>2, <3>3, <3>4 DEF TrueMemory
  <2> QED BY <2>1, <2>2, <2>3, <2>4
<1>4. ASSUME UNCHANGED <<est, footprint, points, refused, ceilings>>, steps' \in Nat,
             phase' # "done" => phase # "done"
      PROVE  Gates'
  BY <1>1, <1>4, SumsStay, NoProbe, NoReport DEF Gates
<1>5. CASE Preflight \/ Fails \/ UNCHANGED vars
  BY <1>4, <1>5 DEF Preflight, Fails, Gates
<1>6. ASSUME NEW c \in Rungs, ClimbSafe(c) PROVE Gates'
  <2>1. /\ c \in Nat /\ \A p \in DOMAIN points : p < c
        /\ est.window # None => c <= est.window
        /\ NotUnderestimated => TrueMemory(c) < est.budget
    BY <1>2, <1>6 DEF ClimbSafe
  <2>2. Finite' /\ SumsFit' /\ SumsFollow'
    BY <1>1, <1>6, <2>1, SumsStep DEF ClimbSafe
  <2>3. DOMAIN points' = DOMAIN points \cup {c} /\ refused' = refused
    BY <1>1, <1>6, <2>1, SafeMeasurement DEF ClimbSafe, IInv
  <2>4. NeverReachesTheWall' /\ ProbesInWindow'
    BY <1>1, <1>6, <2>1, <2>3, WallStep DEF ClimbSafe, Probed
  <2>5. FittedCeilingIsEarned'
    BY <1>1, <1>6, <2>3, NoReport DEF ClimbSafe
  <2> QED BY <1>1, <1>6, <2>2, <2>4, <2>5 DEF ClimbSafe, Gates
<1>7. ASSUME NEW c \in Rungs, ClimbAbortsAtOnce(c) \/ ClimbAborts(c) PROVE Gates'
  <2>1. /\ est.window # None => c <= est.window
        /\ NotUnderestimated => TrueMemory(c) < est.budget
    BY <1>2, <1>7 DEF ClimbAbortsAtOnce, ClimbAborts
  <2>2. /\ refused' = refused \cup {c} /\ phase = "climb"
        /\ UNCHANGED <<est, footprint, points, ceilings>>
    BY <1>7 DEF ClimbAbortsAtOnce, ClimbAborts, Refuses
  <2>3. Finite' /\ SumsFit' /\ SumsFollow'
    BY <1>1, <2>2, SumsStay
  <2>4. NeverReachesTheWall' /\ ProbesInWindow'
    BY <1>1, <2>1, <2>2, WallStep DEF Probed
  <2>5. fitted = None /\ FittedCeilingIsEarned'
    BY <1>1, <2>2, NoReport DEF Gates
  <2>6. steps' \in Nat
    BY <1>7 DEF ClimbAbortsAtOnce, ClimbAborts, Gates
  <2> QED BY <1>1, <2>2, <2>3, <2>4, <2>5, <2>6 DEF Gates
<1>8. CASE ClimbEnds
  <2>1. refused = {} /\ UNCHANGED <<est, footprint, points, refused, steps>>
    BY <1>1, <1>8 DEF ClimbEnds, IInv, ClimbedInOrder
  <2>2. fitted' = FittedCeiling /\ decode' = DecodeCeiling /\ phase' = "done"
    BY <1>8 DEF ClimbEnds, Report
  <2>3. InWindow(FittedCeiling) /\ InWindow(DecodeCeiling)
    BY <1>1, CeilingsAreInWindow
  <2>4. direct' # None => direct' \in DOMAIN points /\ direct' \in Nat
    BY <1>1, <1>8, TopIsMax DEF ClimbEnds, Report, IInv, Types
  <2>5. NoExtrapolationPastAnAbort'
    BY <1>1, <2>1, <2>2, <2>3, <2>4, EndInWindow
  <2>6. FittedCeilingIsExact'
    BY <1>1, <2>1, <2>2, FittedIsExact DEF FittedCeilingIsExact, TrueMemory
  <2>7. Finite' /\ SumsFit' /\ SumsFollow' /\ NeverReachesTheWall' /\ ProbesInWindow'
    BY <1>1, <2>1, SumsStay, NoProbe
  <2>8. steps' \in Nat /\ {direct, fitted, decode}' \subseteq Nat \cup {None}
    BY <2>1, <2>2, <2>3, <2>4 DEF InWindow, Gates
  <2> QED BY <1>1, <2>2, <2>5, <2>6, <2>7, <2>8 DEF Gates, FittedCeilingIsEarned
<1>9. CASE BisectSafe
  <2>1. /\ Mid \in Nat /\ \A p \in DOMAIN points : p < Mid
        /\ est.window # None => Mid <= est.window
        /\ NotUnderestimated => TrueMemory(Mid) < est.budget
    BY <1>3, <1>9 DEF BisectSafe
  <2>2. PICK c \in Nat : c = Mid
    BY <2>1
  <2>3. Finite' /\ SumsFit' /\ SumsFollow'
    BY <1>1, <1>9, <2>1, <2>2, SumsStep DEF BisectSafe
  <2>4. DOMAIN points' = DOMAIN points \cup {c} /\ refused' = refused
    BY <1>1, <1>9, <2>2, SafeMeasurement DEF BisectSafe, IInv
  <2>5. NeverReachesTheWall' /\ ProbesInWindow'
    BY <1>1, <1>9, <2>1, <2>2, <2>4, WallStep DEF BisectSafe, Probed
  <2>6. FittedCeilingIsEarned'
    BY <1>1, <1>9, <2>4, NoReport DEF BisectSafe
  <2> QED BY <1>1, <1>9, <2>3, <2>5, <2>6 DEF BisectSafe, Gates
<1>10. CASE BisectRefused
  <2>1. /\ est.window # None => Mid <= est.window /\ Mid \in Nat
        /\ NotUnderestimated => TrueMemory(Mid) < est.budget
    BY <1>3, <1>10 DEF BisectRefused
  <2>2. PICK c : c = Mid
    OBVIOUS
  <2>3. /\ refused' = refused \cup {c} /\ phase = "bisect" /\ phase' = phase
        /\ UNCHANGED <<est, footprint, points, ceilings>>
    BY <1>10, <2>2 DEF BisectRefused, Refuses
  <2>4. Finite' /\ SumsFit' /\ SumsFollow'
    BY <1>1, <2>3, SumsStay
  <2>5. NeverReachesTheWall' /\ ProbesInWindow'
    BY <1>1, <2>1, <2>2, <2>3, WallStep DEF Probed
  <2>6. FittedCeilingIsEarned' /\ fitted = None
    BY <1>1, <2>3, NoReport DEF Gates
  <2>7. steps' \in Nat
    BY <1>10 DEF BisectRefused, Gates
  <2> QED BY <1>1, <2>3, <2>4, <2>5, <2>6, <2>7 DEF Gates
<1>11. CASE BisectEnds
  <2>1. /\ UNCHANGED <<est, footprint, points, refused, steps>> /\ phase' = "done"
        /\ direct' = lo /\ fitted' = None /\ decode' = DecodeCeiling
    BY <1>11 DEF BisectEnds, Report
  <2>2. lo \in DOMAIN points /\ lo \in Nat
    BY <1>1, <1>11 DEF BisectEnds, IInv, Types, CeilingSeparatesEvidence
  <2>3. InWindow(None) /\ InWindow(DecodeCeiling)
    BY <1>1, CeilingsAreInWindow DEF InWindow
  <2>4. NoExtrapolationPastAnAbort'
    BY <1>1, <2>1, <2>2, <2>3, EndInWindow
  <2>5. FittedCeilingIsExact'
    BY <2>1 DEF FittedCeilingIsExact
  <2>6. Finite' /\ SumsFit' /\ SumsFollow' /\ NeverReachesTheWall' /\ ProbesInWindow'
    BY <1>1, <2>1, SumsStay, NoProbe
  <2>7. steps' \in Nat /\ {direct, fitted, decode}' \subseteq Nat \cup {None}
    BY <2>1, <2>2, <2>3 DEF InWindow, Gates
  <2> QED BY <1>1, <2>1, <2>4, <2>5, <2>6, <2>7 DEF Gates, FittedCeilingIsEarned
<1> QED
  BY <1>5, <1>6, <1>7, <1>8, <1>9, <1>10, <1>11 DEF Next, Proceeds

LEMMA GatesAlways == Spec => []Gates
BY GatesInit, GatesStep, PTL DEF Spec

\* The types of the ramp's state: whatever is reported is a context.
THEOREM TypeCorrect == Spec => []TypeOK
<1>1. Gates => TypeOK
  BY DEF Gates, IInv, Types, Finite, TypeOK
<1> QED BY GatesAlways, <1>1, PTL

\* RULE #1: a model that grows linearly and was not underestimated is never probed at a
\* context whose memory reaches the budget, by the climb or by the bisection.
THEOREM NeverAtTheWall == Spec => []NeverReachesTheWall
<1>1. Gates => NeverReachesTheWall
  BY DEF Gates
<1> QED BY GatesAlways, <1>1, PTL

\* What is reported beyond the measurements was contradicted by none, lies in the
\* model's window and, for a model that grows linearly, ends exactly at the budget.
THEOREM ExtrapolationIsEarned == Spec => []FittedCeilingIsEarned
<1>1. Gates => FittedCeilingIsEarned
  BY DEF Gates
<1> QED BY GatesAlways, <1>1, PTL

-----------------------------------------------------------------------------
(* What is said of a model that was not measured. *)

\* The first size that is known.
LEMMA FirstOfTwo ==
    ASSUME NEW x, NEW y, x # None
    PROVE  FirstKnown(<<x, y>>) = x
<1> DEFINE s == <<x, y>>
           known == {i \in DOMAIN s : s[i] # None}
<1>1. DOMAIN s = {1, 2} /\ s[1] = x
  OBVIOUS
<1>2. 1 \in known /\ known \subseteq {1, 2}
  BY <1>1
<1> HIDE DEF known
<1>3. Min(known) = 1
  <2>1. Min(known) \in known /\ \A j \in known : Min(known) <= j
    <3>1. \E i \in known : \A j \in known : i <= j
      BY <1>2
    <3> QED BY <3>1 DEF Min
  <2>2. Min(known) \in {1, 2} /\ Min(known) <= 1
    BY <1>2, <2>1
  <2> QED BY <2>2
<1> HIDE DEF s
<1>4. FirstKnown(s) = s[Min(known)]
  BY <1>2 DEF FirstKnown, known
<1> QED BY <1>1, <1>3, <1>4 DEF s

LEMMA FirstOfThree ==
    ASSUME NEW x, NEW y, NEW z, y # None, x \in {None, y}
    PROVE  FirstKnown(<<x, y, z>>) = y
<1> DEFINE s == <<x, y, z>>
           known == {i \in DOMAIN s : s[i] # None}
<1>1. DOMAIN s = {1, 2, 3} /\ s[1] = x /\ s[2] = y
  OBVIOUS
<1>2. 2 \in known /\ known \subseteq {1, 2, 3}
  BY <1>1
<1> HIDE DEF known
<1>3. Min(known) \in known /\ Min(known) <= 2 /\ Min(known) \in {1, 2, 3}
  <2>1. \E i \in known : \A j \in known : i <= j
    <3>1. CASE 1 \in known
      BY <1>2, <3>1
    <3>2. CASE 1 \notin known
      <4>1. \A j \in known : 2 <= j
        BY <1>2, <3>2
      <4> QED BY <1>2, <4>1
    <3> QED BY <3>1, <3>2
  <2>2. Min(known) \in known /\ \A j \in known : Min(known) <= j
    BY <2>1 DEF Min
  <2> QED BY <1>2, <2>2
<1>4. s[Min(known)] = y
  <2>1. Min(known) \in {1, 2} /\ s[Min(known)] # None
    BY <1>3 DEF known
  <2> QED BY <1>1, <2>1
<1> HIDE DEF s
<1>5. FirstKnown(s) = s[Min(known)]
  BY <1>2 DEF FirstKnown, known
<1> QED BY <1>4, <1>5 DEF s

\* An engine runs on a machine, or does not, or nobody can tell.
LEMMA CompatibilityAnswers ==
    ASSUME NEW e \in Engines, NEW m
    PROVE  Compatibility(e, m) \in {"compatible", "incompatible", "unknown"}
<1>1. VulkanCompatible(m) \in {"compatible", "incompatible", "unknown"}
  BY DEF VulkanCompatible
<1>2. NvidiaCompatible(m) \in {"compatible", "incompatible", "unknown"}
  BY DEF NvidiaCompatible
<1> QED BY <1>1, <1>2 DEF Compatibility

\* What profile says, from the reasons it gives first to the fit.
LEMMA ProfileUnfolds ==
    ASSUME NEW choice, NEW m, NEW a, NEW e \in Engines, ResolveEngine(choice, m) = e
    PROVE  \/ /\ Compatibility(e, m) # "compatible"
              /\ Profile(choice, m, a) \in {Unknown("engine_incompatible"), Unknown("engine_compatibility_unknown")}
           \/ /\ Compatibility(e, m) = "compatible" /\ e = "cuda_gguf"
              /\ Profile(choice, m, a) = Unknown("two_wall_capacity_unavailable")
           \/ /\ Compatibility(e, m) = "compatible" /\ e # "cuda_gguf"
              /\ CapacityReason(e, m) = None
              /\ \/ /\ ~ArtifactEvidence(a).resolved
                    /\ Profile(choice, m, a) = Unknown("artifact_unresolved")
                 \/ /\ ArtifactEvidence(a).resolved /\ ArtifactEvidence(a).kind \notin Kinds(e)
                    /\ Profile(choice, m, a) = Unknown("unsupported_format")
                 \/ /\ ArtifactEvidence(a).resolved /\ ArtifactEvidence(a).kind \in Kinds(e)
                    /\ Profile(choice, m, a) =
                          IF Describe(a) = None THEN Unknown("undescribed")
                          ELSE ModelFit(Budget(Wall(m, Backend[e])), Describe(a),
                                        ProfileWeights(a, ArtifactEvidence(a).kind))
<1> DEFINE evidence == ArtifactEvidence(a)
           artifact == ArtifactCompatibility(e, evidence)
           capacity == CapacityReason(e, m)
           fit == IF Describe(a) = None THEN Unknown("undescribed")
                  ELSE ModelFit(Budget(Wall(m, Backend[e])), Describe(a), ProfileWeights(a, evidence.kind))
<1>1. Profile(choice, m, a) =
        CASE capacity # None -> Unknown(capacity)
          [] capacity = None /\ artifact # "compatible" ->
                Unknown(IF artifact = "unknown" THEN "artifact_unresolved" ELSE "unsupported_format")
          [] capacity = None /\ artifact = "compatible" -> fit
  BY DEF Profile
<1>2. None # "engine_incompatible" /\ None # "engine_compatibility_unknown"
      /\ None # "two_wall_capacity_unavailable"
  BY AnalyticAssumption DEF Reasons
<1>3. \/ Compatibility(e, m) # "compatible" /\ capacity \in {"engine_incompatible", "engine_compatibility_unknown"}
      \/ Compatibility(e, m) = "compatible" /\ e = "cuda_gguf" /\ capacity = "two_wall_capacity_unavailable"
      \/ Compatibility(e, m) = "compatible" /\ e # "cuda_gguf" /\ capacity = None
  BY CompatibilityAnswers DEF CapacityReason
<1>4. \/ ~evidence.resolved /\ artifact = "unknown"
      \/ evidence.resolved /\ evidence.kind \notin Kinds(e) /\ artifact = "incompatible"
      \/ evidence.resolved /\ evidence.kind \in Kinds(e) /\ artifact = "compatible"
  BY DEF ArtifactCompatibility
<1> HIDE DEF evidence, artifact, capacity, fit
<1>5. CASE capacity # None
  <2>1. Profile(choice, m, a) = Unknown(capacity)
    BY <1>1, <1>5
  <2> QED BY <1>3, <1>5, <2>1
<1>6. CASE capacity = None
  <2>1. Compatibility(e, m) = "compatible" /\ e # "cuda_gguf"
    BY <1>2, <1>3, <1>6
  <2>2. CASE artifact = "unknown"
    BY <1>1, <1>4, <1>6, <2>1, <2>2 DEF evidence, capacity
  <2>3. CASE artifact = "incompatible"
    BY <1>1, <1>4, <1>6, <2>1, <2>3 DEF evidence, capacity
  <2>4. CASE artifact = "compatible"
    <3>1. Profile(choice, m, a) = fit
      BY <1>1, <1>6, <2>4
    <3> QED BY <1>4, <1>6, <2>1, <2>4, <3>1 DEF evidence, capacity, fit
  <2> QED BY <1>4, <2>2, <2>3, <2>4
<1> QED BY <1>5, <1>6

\* A fit is refused for the machine's memory or the model's size, never for the format.
LEMMA FitAnswers ==
    ASSUME NEW budget, NEW meta, NEW weights
    PROVE  /\ ModelFit(budget, meta, weights).reason \in
                 {"no_current_budget", "insufficient_memory", "size_unknown",
                  "exceeds_safe_budget", "architecture_unknown", None}
           /\ ModelFit(budget, meta, weights).fits \in {"unknown", "no", "yes"}
           /\ ModelFit(budget, meta, weights).fits # "unknown" => budget \notin {None, 0} /\ weights # None
           /\ ModelFit(budget, meta, weights).binding = "context_window" =>
                 ModelFit(budget, meta, weights).context # None
<1>1. None \notin Int /\ None # "context_window"
  BY RampAssumption, AnalyticAssumption DEF Bindings
<1> QED BY <1>1 DEF ModelFit, Unknown, Fits, WindowBinds

LEMMA HintsAccepted == HintsAreAccepted
<1> SUFFICES ASSUME NEW m \in Machines, NEW a \in Models, NEW e \in Engines,
                    Profile(e, m, a).reason = "unsupported_format",
                    NEW hint \in Alternatives(e, ArtifactEvidence(a).kind, m)
             PROVE  Profile(hint, m, a).reason \notin
                       {"engine_incompatible", "engine_compatibility_unknown", "unsupported_format",
                        "artifact_unresolved"}
  BY DEF HintsAreAccepted
<1>1. None \notin {"engine_incompatible", "engine_compatibility_unknown", "unsupported_format",
                   "artifact_unresolved"} /\ None \notin Engines
  BY AnalyticAssumption DEF Reasons
<1>2. \A r : Unknown(r).reason = r
  BY DEF Unknown, Fits
<1>3. /\ hint \in Engines /\ ArtifactEvidence(a).kind \in Kinds(hint)
      /\ Compatibility(hint, m) = "compatible"
  BY DEF Alternatives
<1>4. ResolveEngine(e, m) = e /\ ResolveEngine(hint, m) = hint
  BY <1>1, <1>3 DEF ResolveEngine
<1>5. ArtifactEvidence(a).resolved
  BY <1>1, <1>2, <1>4, ProfileUnfolds, FitAnswers
<1>6. \/ Profile(hint, m, a) = Unknown("two_wall_capacity_unavailable")
      \/ Profile(hint, m, a) = Unknown("undescribed")
      \/ \E budget, weights : Profile(hint, m, a) = ModelFit(budget, Describe(a), weights)
  BY <1>3, <1>4, <1>5, ProfileUnfolds
<1> QED BY <1>1, <1>2, <1>6, FitAnswers

\* Left to itself, ARA picks the engine of the machine's backend.
LEMMA EngineOfBackend ==
    ASSUME NEW m
    PROVE  /\ ResolveEngine(None, m) \in {"mlx", "cuda", "cpu"}
           /\ Backend[ResolveEngine(None, m)] = BackendName(m)
<1>1. /\ DOMAIN Backend = {"mlx", "cuda", "cpu", "vulkan", "cuda_gguf"}
      /\ Backend["mlx"] = "apple" /\ Backend["cuda"] = "cuda" /\ Backend["cpu"] = "cpu"
      /\ Backend["vulkan"] = "vulkan" /\ Backend["cuda_gguf"] = "cuda_gguf"
  BY DEF Backend
<1>2. ASSUME NEW e \in {"mlx", "cuda", "cpu"} PROVE ForBackend(Backend[e]) = e
  BY <1>1 DEF ForBackend, Engines
<1>3. \E e \in {"mlx", "cuda", "cpu"} : BackendName(m) = Backend[e]
  BY <1>1 DEF BackendName
<1> QED BY <1>2, <1>3 DEF ResolveEngine

\* The fit asks a description for the growth of the cache and the window alone.
LEMMA FitOfDescription ==
    ASSUME NEW budget, NEW weights, NEW d, NEW e, d.kv = e.kv, d.window = e.window
    PROVE  ModelFit(budget, d, weights) = ModelFit(budget, e, weights)
BY DEF ModelFit

\* A resolved artifact whose store is current: what profile and a scan go by.
LEMMA SameFacts ==
    ASSUME NEW a \in Models, StoreIsCurrent(a), ArtifactEvidence(a).resolved, Describe(a) # None
    PROVE  /\ ScannedRow(a) # None
           /\ ScannedRow(a).kv = Describe(a).kv /\ ScannedRow(a).window = Describe(a).window
           /\ ScannedRow(a).weights = ProfileWeights(a, ArtifactEvidence(a).kind)
<1>1. /\ a.form \in {"repo", "selector", "invalid"} /\ None \notin Catalogued
      /\ a.files \notin {None, {}} => a.size \in Nat
      /\ a.config \in Known(Descriptions) /\ a.header \in Known(Descriptions)
      /\ a.stored \in Known(Catalogued) /\ None \notin Int
  BY RampAssumption, AnalyticAssumption
<1>2. CASE a.form = "selector"
  <2>1. ArtifactEvidence(a).kind = "gguf" /\ Describe(a) = a.header
    BY <1>2 DEF ArtifactEvidence, Resolved, Describe
  <2>2. /\ a.stored # None /\ Cached(a) /\ a.stored.weights # None
        /\ a.header = [kv |-> a.stored.kv, window |-> a.stored.window]
    BY <1>2 DEF StoreIsCurrent
  <2>3. ScannedRow(a) = a.stored
    BY <1>2, <2>2 DEF ScannedRow
  <2>4. ProfileWeights(a, "gguf") = a.stored.weights
    BY <2>2, FirstOfTwo DEF ProfileWeights, StoredWeights
  <2> QED BY <2>1, <2>2, <2>3, <2>4
<1>3. CASE a.form # "selector"
  <2>1. a.form = "repo" /\ ArtifactEvidence(a).kind = "transformers" /\ Cached(a)
    BY <1>1, <1>3 DEF ArtifactEvidence, Resolved, Unresolved, Cached
  <2>2. CacheSize(a) = a.size /\ a.size \in Nat /\ a.size # None
    BY <1>1, <2>1 DEF CacheSize, Cached
  <2>3. ScannedRow(a) = [kv |-> Describe(a).kv, window |-> Describe(a).window, weights |-> a.size]
    BY <1>3, <2>1, <2>2 DEF ScannedRow
  <2>4. StoredWeights(a) \in {None, a.size}
    BY <1>3, <2>2 DEF StoreIsCurrent
  <2>5. ProfileWeights(a, "transformers") = a.size
    <3>1. ProfileWeights(a, "transformers") = FirstKnown(<<StoredWeights(a), a.size, a.hub>>)
      BY <2>2 DEF ProfileWeights
    <3> QED BY <2>2, <2>4, <3>1, FirstOfThree
  <2>6. Describe(a) \in Descriptions
    <3>1. Describe(a) \in {a.config, a.header, Shards(a)}
      BY <1>3 DEF Describe
    <3>2. Shards(a) \in Known(Descriptions)
      BY DEF Shards, Known, Descriptions
    <3> QED BY <1>1, <3>1, <3>2 DEF Known
  <2>7. ScannedRow(a) \in Catalogued
    BY <2>2, <2>3, <2>6 DEF Catalogued, Descriptions, Known
  <2> QED BY <1>1, <2>1, <2>3, <2>5, <2>7
<1> QED BY <1>2, <1>3

LEMMA CommandsAgree == ProfileAndRecommendAgree
<1> SUFFICES ASSUME NEW m \in Machines, NEW a \in Models,
                    Profile(None, m, a).fits # "unknown", StoreIsCurrent(a)
             PROVE  LET told == Profile(None, m, a) IN
                    /\ ScannedRow(a) # None /\ RecommendFit(None, m, a) = told
                    /\ Verdict(told) \in {"full window", "context-limited"} => Status(told) = "recommended"
                    /\ Verdict(told) = "won't fit" => Status(told) = "excluded"
                    /\ LimitsShown(ResolveEngine(None, m), m) = "estimated"
  BY DEF ProfileAndRecommendAgree
<1> DEFINE told == Profile(None, m, a)
           e == ResolveEngine(None, m)
           budget == Budget(Wall(m, Backend[e]))
           weights == ProfileWeights(a, ArtifactEvidence(a).kind)
<1>1. e \in {"mlx", "cuda", "cpu"} /\ Backend[e] = BackendName(m) /\ e \in Engines
  BY EngineOfBackend DEF Engines, Backend
<1>2. \A r : Unknown(r).fits = "unknown"
  BY DEF Unknown, Fits
<1>3. None # "mlx"
  BY AnalyticAssumption DEF Engines, Backend
<1>4. /\ CapacityReason(e, m) = None
      /\ ArtifactEvidence(a).resolved
      /\ Describe(a) # None
      /\ told = ModelFit(budget, Describe(a), weights)
  <2> HIDE DEF e
  <2> QED BY <1>1, <1>2, ProfileUnfolds DEF e
<1>5. /\ budget \notin {None, 0} /\ told.fits \in {"no", "yes"}
      /\ told.binding = "context_window" => told.context # None
  BY <1>4, FitAnswers
<1>6. /\ ScannedRow(a) # None
      /\ ScannedRow(a).kv = Describe(a).kv /\ ScannedRow(a).window = Describe(a).window
      /\ ScannedRow(a).weights = weights
  BY <1>4, SameFacts
<1>7. RecommendBudget(None, m) = budget
  BY <1>1, <1>3 DEF RecommendBudget
<1>8. RecommendFit(None, m, a) = told
  <2>1. RecommendFit(None, m, a) = ModelFit(budget, ScannedRow(a), weights)
    BY <1>6, <1>7 DEF RecommendFit
  <2> HIDE DEF told, budget, weights
  <2> QED BY <1>4, <1>6, <2>1, FitOfDescription
<1>9. LimitsShown(e, m) = "estimated"
  <2>1. e # "mlx"
    <3>1. Backend["mlx"] = "apple"
      BY DEF Backend
    <3>2. CASE e = "mlx"
      <4>1. budget = None
        BY <3>1, <3>2 DEF Wall, Budget
      <4> QED BY <1>5, <4>1
    <3> QED BY <3>2
  <2> QED BY <1>4, <1>5, <2>1 DEF LimitsShown
<1> HIDE DEF told, e
<1>10. Verdict(told) \in {"full window", "context-limited"} => Status(told) = "recommended"
  BY <1>5 DEF Verdict, Status
<1>11. Verdict(told) = "won't fit" => Status(told) = "excluded"
  BY <1>5 DEF Verdict, Status
<1> QED BY <1>6, <1>8, <1>9, <1>10, <1>11 DEF told, e

\* A bounded set of numbers that is not empty has a largest one.
LEMMA LargestOf ==
    ASSUME NEW n \in Nat, NEW S \in SUBSET (1 .. n), S # {}
    PROVE  /\ Max(S) \in S /\ \A i \in S : i <= Max(S)
<1> DEFINE Good == {t \in SUBSET S : t = {} \/ \E m \in t : \A i \in t : m >= i}
<1>1. IsFiniteSet(S)
  BY FS_BoundedSetOfNaturals
<1>2. ASSUME NEW t \in SUBSET S, \A u \in SUBSET t : u # t => u \in Good PROVE t \in Good
  <2>1. SUFFICES ASSUME t # {} PROVE \E m \in t : \A i \in t : m >= i
    OBVIOUS
  <2>2. PICK p \in t : TRUE
    BY <2>1
  <2>3. t \ {p} \in Good
    BY <1>2, <2>2
  <2>4. CASE t \ {p} = {}
    BY <2>4
  <2>5. CASE t \ {p} # {}
    <3>1. PICK q \in t \ {p} : \A i \in t \ {p} : q >= i
      BY <2>3, <2>5
    <3>2. CASE q >= p
      BY <3>1, <3>2
    <3>3. CASE ~(q >= p)
      <4>1. \A i \in t : p >= i
        BY <3>1, <3>3
      <4> QED BY <4>1
    <3> QED BY <3>2, <3>3
  <2> QED BY <2>4, <2>5
<1> HIDE DEF Good
<1>3. S \in Good
  BY <1>1, <1>2, SubsetInduction
<1>4. \E m \in S : \A i \in S : m >= i
  BY <1>3 DEF Good
<1>5. Max(S) \in S /\ \A i \in S : Max(S) >= i
  BY <1>4 DEF Max
<1> QED BY <1>5

LEMMA NewestScores == ScoresAreCurrent
<1> SUFFICES ASSUME NEW rows \in Evidence, NEW quant \in {"q4", "q8"}, NEW imported \in {None, 9}
             PROVE  LET score == ScoreFor(MeasuredScore(rows, quant, "now"), imported)
                        usable == {i \in DOMAIN rows : Usable(rows[i], quant, "now")} IN
                    IF usable = {}
                    THEN (score # None => score.tier = "imported") /\ (rows # <<>> => Warned(rows, quant, "now"))
                    ELSE \E i \in usable : score = [tier |-> "measured", value |-> rows[i].score]
                                           /\ \A j \in usable : j <= i
  BY DEF ScoresAreCurrent
<1> DEFINE usable == {i \in DOMAIN rows : Usable(rows[i], quant, "now")}
           measured == MeasuredScore(rows, quant, "now")
<1>1. rows \in Seq(Scores) /\ None \notin Int
  BY RampAssumption, AnalyticAssumption
<1>2. UsableRows(rows, quant, "now") = usable
  BY DEF UsableRows
<1>3. CASE usable = {}
  <2>1. measured = None /\ (Warned(rows, quant, "now") <=> rows # <<>>)
    BY <1>2, <1>3 DEF MeasuredScore, Warned
  <2>2. ScoreFor(None, imported) # None => ScoreFor(None, imported).tier = "imported"
    BY DEF ScoreFor
  <2> QED BY <1>3, <2>1, <2>2
<1>4. CASE usable # {}
  <2> DEFINE top == Max(usable)
  <2>1. Len(rows) \in Nat /\ usable \in SUBSET (1 .. Len(rows))
    BY <1>1
  <2>2. top \in usable /\ \A j \in usable : j <= top
    <3> HIDE DEF usable
    <3> QED BY <1>4, <2>1, LargestOf
  <2>3. measured = rows[top].score
    BY <1>2, <1>4 DEF MeasuredScore
  <2>4. rows[top].score \in Int
    <3>1. rows[top] \in Scores
      BY <1>1, <2>1, <2>2, ElementOfSeq
    <3> QED BY <3>1 DEF Scores
  <2>5. ScoreFor(measured, imported) = [tier |-> "measured", value |-> rows[top].score]
    BY <1>1, <2>3, <2>4 DEF ScoreFor
  <2> HIDE DEF top, measured
  <2>6. \E i \in usable : ScoreFor(measured, imported) = [tier |-> "measured", value |-> rows[i].score]
                          /\ \A j \in usable : j <= i
    BY <2>2, <2>5
  <2> QED BY <1>4, <2>6 DEF measured
<1> QED BY <1>3, <1>4

\* The ceiling solved for an estimate is not below a context that keeps under the budget.
LEMMA CeilingIsLargest ==
    ASSUME NEW base \in Int, NEW kv \in Nat \ {0}, NEW budget \in Int, NEW d \in Nat,
           base + kv * d < budget
    PROVE  /\ AnalyticCeiling(base, kv, budget) \in Int
           /\ d <= AnalyticCeiling(base, kv, budget)
<1> DEFINE room == budget - base
           tokens == room \div kv
<1>1. room \in Int /\ kv \in Int /\ kv > 0 /\ d * kv < room /\ d * kv \in Int /\ kv * d = d * kv
  OBVIOUS
<1>2. tokens \in Int /\ tokens * kv <= room /\ room < (tokens + 1) * kv
  <2> HIDE DEF room
  <2> QED BY <1>1, Quotient
<1>3. AnalyticCeiling(base, kv, budget) =
        IF tokens > 0 /\ base + kv * tokens >= budget THEN tokens - 1 ELSE tokens
  BY DEF AnalyticCeiling
<1> HIDE DEF tokens
<1>4. (tokens + 1) * kv \in Int /\ tokens * kv \in Int /\ kv * tokens = tokens * kv
  BY <1>1, <1>2
<1>5. d < tokens + 1
  <2>1. d * kv < (tokens + 1) * kv
    BY <1>1, <1>2, <1>4
  <2> QED BY <1>1, <1>2, <2>1, MoreOfLess
<1>6. base + kv * tokens >= budget => d < tokens
  <2>1. SUFFICES ASSUME base + kv * tokens >= budget PROVE d < tokens
    OBVIOUS
  <2>2. d * kv < tokens * kv
    BY <1>1, <1>4, <2>1
  <2> QED BY <1>1, <1>2, <2>2, MoreOfLess
<1> QED BY <1>2, <1>3, <1>5, <1>6

\* What is measured of a model that grows linearly lies on its line.
Follows == footprint # None => \A c \in DOMAIN points : points[c] = footprint.base + footprint.slope * c

LEMMA FollowsInit == Init => Follows
BY DEF Init, Follows

LEMMA FollowsStep == Follows /\ [Next]_vars => Follows'
<1> SUFFICES ASSUME Follows, [Next]_vars PROVE Follows'
  OBVIOUS
<1>1. ASSUME NEW c, MeasuresSafe(c), UNCHANGED footprint PROVE Follows'
  BY <1>1 DEF Follows, MeasuresSafe, Reads
<1>2. ASSUME UNCHANGED <<points, footprint>> PROVE Follows'
  BY <1>2 DEF Follows
<1>3. \/ UNCHANGED <<points, footprint>>
      \/ \E c : MeasuresSafe(c) /\ UNCHANGED footprint
  BY DEF Next, Proceeds, Preflight, Fails, ClimbSafe, ClimbAbortsAtOnce, ClimbAborts, Refuses,
         ClimbEnds, BisectSafe, BisectRefused, BisectEnds
<1> QED BY <1>1, <1>2, <1>3

\* A ramp never measures more than an estimate, made at its own budget of no smaller a
\* model, has promised.
LEMMA RampIsBounded == Gates /\ Follows => EstimateBoundsTheRamp
<1> SUFFICES ASSUME Gates, Follows, footprint # None, direct # None,
                    NEW w \in 0 .. footprint.base + 1, NEW kv \in 1 .. footprint.slope,
                    GiB(w) <= footprint.base
             PROVE  LET fit == ModelFit(est.budget, [kv |-> kv, window |-> est.window], w)
                    IN fit.fits = "yes" /\ direct <= fit.context
  BY DEF EstimateBoundsTheRamp
<1> DEFINE base == footprint.base
           slope == footprint.slope
           budget == est.budget
           window == est.window
           d == direct
           g == GiB(w)
           meta == [kv |-> kv, window |-> window]
           ceiling == AnalyticCeiling(g, kv, budget)
<1>1. /\ base \in Nat /\ slope \in Nat /\ budget \in Nat /\ est.ref \in Nat
      /\ window \in (Nat \ {0}) \cup {None} /\ None \notin Int
  BY RampAssumption DEF Gates, IInv, Types, Fields
<1>2. /\ d \in Nat /\ d \in DOMAIN points /\ est.ref + points[d] < budget
      /\ window # None => d <= window
  <2>1. d \in DOMAIN points /\ d \in Nat /\ est.ref + points[d] < budget
    BY <1>1 DEF Gates, IInv, CeilingSeparatesEvidence, Types
  <2> QED BY <2>1 DEF Gates, ProbesInWindow, Probed
<1>3. points[d] = base + slope * d
  BY <1>2 DEF Follows
<1>4. w \in Nat /\ kv \in Nat \ {0} /\ kv <= slope /\ g \in Int /\ g <= base
  <2>1. base + 1 \in Int
    BY <1>1
  <2>2. w \in Nat /\ kv \in Nat \ {0} /\ kv <= slope
    BY <1>1, <2>1
  <2> QED BY <2>2 DEF GiB
<1> HIDE DEF base, slope, budget, window, d, g
<1>5. kv * d \in Nat /\ slope * d \in Nat /\ kv * d <= slope * d
  <2>1. (slope - kv) * d >= 0
    BY <1>1, <1>2, <1>4
  <2> QED BY <1>1, <1>2, <1>4, <2>1
<1>6. g + kv * d < budget /\ g < budget /\ budget > 0
  <2>1. est.ref + (base + slope * d) < budget
    BY <1>2, <1>3
  <2> DEFINE p == kv * d
             q == slope * d
             r == est.ref
  <2>2. p \in Nat /\ q \in Nat /\ p <= q /\ r \in Nat /\ r + (base + q) < budget
    BY <1>1, <1>5, <2>1
  <2> HIDE DEF p, q, r
  <2>3. g + p < budget /\ g < budget /\ budget > 0
    BY <1>1, <1>4, <2>2
  <2> QED BY <2>3 DEF p
<1>7. ceiling \in Int /\ d <= ceiling
  <2>1. g \in Int /\ kv \in Nat \ {0} /\ budget \in Int /\ d \in Nat /\ g + kv * d < budget
    BY <1>1, <1>2, <1>4, <1>6
  <2> QED BY <2>1, CeilingIsLargest
<1> HIDE DEF ceiling
<1>8. budget \notin {None, 0} /\ w # None /\ kv # None
  BY <1>1, <1>4, <1>6
<1>9. ModelFit(budget, meta, w) =
        IF window # None /\ ceiling > window THEN Fits("yes", window, "context_window", None)
        ELSE Fits("yes", ceiling, "memory", None)
  <2>1. GiB(w) = g /\ meta.kv = kv /\ meta.window = window
    BY DEF g
  <2>2. ModelFit(budget, meta, w) =
          IF g >= budget THEN Fits("no", None, None, "exceeds_safe_budget")
          ELSE IF meta.kv = None THEN Fits("yes", None, None, "architecture_unknown")
          ELSE IF WindowBinds(ceiling, meta.window)
               THEN Fits("yes", meta.window, "context_window", None)
               ELSE Fits("yes", ceiling, "memory", None)
    BY <1>8, <2>1 DEF ModelFit, ceiling
  <2> HIDE DEF meta
  <2> QED BY <1>1, <1>4, <1>6, <1>8, <2>1, <2>2 DEF WindowBinds
<1>10. ModelFit(budget, meta, w).fits = "yes" /\ d <= ModelFit(budget, meta, w).context
  BY <1>2, <1>7, <1>9 DEF Fits
<1> QED BY <1>10 DEF budget, window, d

LEMMA EstimatesInv == Spec => [](Gates /\ Follows)
BY GatesAlways, FollowsInit, FollowsStep, PTL DEF Spec

\* For every machine, model and store: profile and recommend come to one verdict, a hint
\* is accepted when it is taken, the newest score of the cached file ranks it, and no
\* ramp measures more than the estimate promised.
THEOREM CommandsAgreeOnTheModel == Spec => []EstimatesAgree
<1>1. Gates /\ Follows => EstimatesAgree
  BY RampIsBounded, CommandsAgree, HintsAccepted, NewestScores DEF EstimatesAgree
<1> QED BY EstimatesInv, <1>1, PTL
=============================================================================
