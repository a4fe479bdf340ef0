-------------------------------- MODULE Ramp --------------------------------
(***************************************************************************)
(* The context ramp (ara/contracts/ramp.py, driver.py): how ARA finds the  *)
(* largest context a model can be loaded at without ever reaching the      *)
(* memory budget of the machine.                                           *)
(*                                                                         *)
(* Rungs of the schedule are probed in ascending order, each one only if   *)
(* it is predicted to stay under the budget: by the preflight estimate     *)
(* until two rungs are measured, by their least-squares line afterwards.   *)
(* A refused probe ends the climb; the gap below it is bisected.           *)
(*                                                                         *)
(* Memory and contexts are integers of an arbitrary unit.  The line is     *)
(* computed exactly, as fractions of the common denominator Spread; the    *)
(* program computes it in floating point.                                  *)
(***************************************************************************)
EXTENDS Integers, FiniteSets, FiniteSetsExt

CONSTANTS
    Schedule,       \* RAMP_SCHEDULE, as a set of contexts
    Estimates,      \* what a preflight may answer
    Footprints,     \* straight lines a model's memory may really follow
    Readings,       \* what a worker may measure if it follows none of them
    MinGap,         \* BISECT_MIN_GAP
    MaxSteps,       \* BISECT_MAX_STEPS
    None

Fields == [base: Nat, ref: Nat, slope: Nat, budget: Nat, kv: Nat, window: (Nat \ {0}) \cup {None}]

ASSUME RampAssumption ==
    /\ Schedule \subseteq Nat \ {0} /\ Schedule # {} /\ IsFiniteSet(Schedule)
    /\ \A e \in Estimates : e \in Fields /\ e.ref <= e.base
    /\ Footprints \subseteq [base: Nat, slope: Nat]
    /\ Readings \subseteq Nat
    /\ None \notin Int
    /\ MinGap \in Nat \ {0}
    /\ MaxSteps \in Nat

VARIABLES
    phase,      \* preflight, climb, bisect, done or failed
    est,        \* the preflight estimate
    footprint,  \* the line the model's memory follows, None if it follows none
    points,     \* context -> memory of the safe measurements
    refused,    \* contexts whose probe was refused
    lo, hi,     \* the bracket being bisected
    steps,
    direct, fitted, decode      \* the three ceilings reported

vars == <<phase, est, footprint, points, refused, lo, hi, steps, direct, fitted, decode>>

bracket == <<lo, hi, steps>>
ceilings == <<direct, fitted, decode>>

Probed == DOMAIN points \cup refused

-----------------------------------------------------------------------------
(* The line through the measured points. *)

N == Cardinality(DOMAIN points)
SumX == SumFunction([c \in DOMAIN points |-> c])
SumY == SumFunction(points)
SumXX == SumFunction([c \in DOMAIN points |-> c * c])
SumXY == SumFunction([c \in DOMAIN points |-> c * points[c]])

Line(spread, slope, intercept) == [spread |-> spread, slope |-> slope, intercept |-> intercept]

Fit == Line(N * SumXX - SumX * SumX, N * SumXY - SumX * SumY, SumY * SumXX - SumX * SumXY)

\* The footprint line l predicts at context c, times its spread; the launch
\* baseline is added back to a line fitted on the model's own memory.
Predict(l, ref, c) == ref * l.spread + l.intercept + l.slope * c

Reaches(l, ref, c) == Predict(l, ref, c) >= est.budget * l.spread

\* Mutant: the budget is a target.
Exceeds(l, ref, c) == Predict(l, ref, c) > est.budget * l.spread

WouldBreach(l, ref, c) == Reaches(l, ref, c)

\* Mutant: the quotient is not looked at again.
SafeCeilingUnchecked(l, ref) ==
    IF l.slope <= 0 THEN None
    ELSE LET headroom == (est.budget - ref) * l.spread - l.intercept
         IN IF headroom <= 0 THEN 0 ELSE headroom \div l.slope

\* The largest context line l keeps under the budget, None if it does not grow.
SafeCeiling(l, ref) ==
    IF l.slope <= 0 THEN None
    ELSE LET headroom == (est.budget - ref) * l.spread - l.intercept
             tokens == IF headroom <= 0 THEN 0 ELSE headroom \div l.slope
         IN IF tokens > 0 /\ Reaches(l, ref, tokens) THEN tokens - 1 ELSE tokens

\* Mutant: the model's own window does not limit what is reported.
Uncapped(ceiling) == ceiling

Capped(ceiling) ==
    IF ceiling # None /\ est.window # None /\ ceiling > est.window THEN est.window ELSE ceiling

\* The measured base with the analytic growth of the cache.
DecodeCeiling ==
    IF N >= 2 /\ est.kv > 0
    THEN Capped(SafeCeiling([Fit EXCEPT !.slope = est.kv * Fit.spread], est.ref))
    ELSE None

FittedCeiling ==
    LET ceiling == SafeCeiling(Fit, est.ref) IN
    IF N < 2 THEN None
    ELSE IF ceiling = None /\ est.window \in DOMAIN points THEN est.window
    ELSE Capped(ceiling)

-----------------------------------------------------------------------------
(* Planning. *)

\* The schedule clamped to the model's window, with the window itself and, if
\* that leaves one rung, a lower anchor.
Rungs ==
    IF est.window = None THEN Schedule
    ELSE LET clamped == {c \in Schedule : c <= est.window} \cup {est.window} IN
         IF Cardinality(clamped) < 2 THEN clamped \cup {Max({1, est.window \div 2})} ELSE clamped

Remaining == Rungs \ DOMAIN points

\* The refined line once there are two points, the estimate before.
Gated(c) ==
    IF N >= 2 THEN WouldBreach(Fit, est.ref, c) ELSE WouldBreach(Line(1, est.slope, est.base), 0, c)

\* The lowest rung left, unless it would breach.
Planned(c) == c \in Remaining /\ (\A r \in Remaining : c <= r) /\ ~Gated(c)

-----------------------------------------------------------------------------
(* Measuring. *)

Reads(c) ==
    IF footprint = None THEN Readings ELSE {footprint.base + footprint.slope * c}

\* Mutant: a reading at the budget passes.
OverBudgetOnly(y) == est.ref + y > est.budget

AtOrOver(y) == est.ref + y >= est.budget

\* The worker measures, and the driver looks at what it measured.
MeasuresSafe(c) ==
    /\ \E y \in Reads(c) :
        /\ ~AtOrOver(y)
        /\ points' = [x \in DOMAIN points \cup {c} |-> IF x = c THEN y ELSE points[x]]
    /\ UNCHANGED refused

\* The worker refuses before the load or aborts during it, or the driver refuses the reading.
Refuses(c) ==
    /\ refused' = refused \cup {c}
    /\ UNCHANGED points

Report(d, f, g) == direct' = d /\ fitted' = f /\ decode' = g

Init ==
    /\ phase = "preflight"
    /\ est \in Estimates
    /\ footprint \in Footprints \cup {None}
    /\ points = <<>>
    /\ refused = {}
    /\ lo = 0 /\ hi = 0 /\ steps = 0
    /\ direct = None /\ fitted = None /\ decode = None

Preflight ==
    /\ phase = "preflight"
    /\ phase' = "climb"
    /\ UNCHANGED <<est, footprint, points, refused, bracket, ceilings>>

\* The preflight, or a worker, raises: nothing is reported.
Fails ==
    /\ phase \in {"preflight", "climb", "bisect"}
    /\ phase' = "failed"
    /\ UNCHANGED <<est, footprint, points, refused, bracket, ceilings>>

ClimbSafe(c) ==
    /\ phase = "climb"
    /\ Planned(c)
    /\ MeasuresSafe(c)
    /\ UNCHANGED <<phase, est, footprint, bracket, ceilings>>

\* The smallest rung refused: the model does not fit, and is not loaded again.
ClimbAbortsAtOnce(c) ==
    /\ phase = "climb"
    /\ Planned(c)
    /\ DOMAIN points = {}
    /\ Refuses(c)
    /\ phase' = "done"
    /\ UNCHANGED <<est, footprint, bracket, ceilings>>

ClimbAborts(c) ==
    /\ phase = "climb"
    /\ Planned(c)
    /\ DOMAIN points # {}
    /\ Refuses(c)
    /\ phase' = "bisect"
    /\ lo' = Max(DOMAIN points)
    /\ hi' = c
    /\ steps' = 0
    /\ UNCHANGED <<est, footprint, ceilings>>

\* Mutant: the climb goes on although the next rung would breach.
NoRungLeft == Remaining = {}

\* No rung left, or the next one would breach.
NothingPlanned == \A c \in Remaining : ~Planned(c)

ClimbEnds ==
    /\ phase = "climb"
    /\ NothingPlanned
    /\ phase' = "done"
    /\ Report(IF DOMAIN points = {} THEN None ELSE Max(DOMAIN points), FittedCeiling, DecodeCeiling)
    /\ UNCHANGED <<est, footprint, points, refused, bracket>>

Open == hi - lo > MinGap /\ steps < MaxSteps

Mid == (lo + hi) \div 2

BisectSafe ==
    /\ phase = "bisect"
    /\ Open
    /\ MeasuresSafe(Mid)
    /\ lo' = Mid
    /\ steps' = steps + 1
    /\ UNCHANGED <<phase, est, footprint, hi, ceilings>>

\* Mutant: the two ends of the bracket are mixed up.
BisectRaises == lo' = Mid /\ UNCHANGED hi

BisectLowers == hi' = Mid /\ UNCHANGED lo

BisectRefused ==
    /\ phase = "bisect"
    /\ Open
    /\ Refuses(Mid)
    /\ BisectLowers
    /\ steps' = steps + 1
    /\ UNCHANGED <<phase, est, footprint, ceilings>>

BisectEnds ==
    /\ phase = "bisect"
    /\ ~Open
    /\ phase' = "done"
    /\ Report(lo, None, DecodeCeiling)
    /\ UNCHANGED <<est, footprint, points, refused, bracket>>

Proceeds ==
    \/ Preflight
    \/ \E c \in Rungs : ClimbSafe(c) \/ ClimbAbortsAtOnce(c) \/ ClimbAborts(c)
    \/ ClimbEnds
    \/ BisectSafe
    \/ BisectRefused
    \/ BisectEnds

Next == Proceeds \/ Fails

Spec == Init /\ [][Next]_vars

\* The ramp is one loop in one process: it keeps running as long as the worker
\* it waits for answers or dies.  It need not fail.
FairSpec == Spec /\ WF_vars(Proceeds)

-----------------------------------------------------------------------------
(* Properties. *)

TypeOK ==
    /\ phase \in {"preflight", "climb", "bisect", "done", "failed"}
    /\ est \in Estimates
    /\ footprint \in Footprints \cup {None}
    /\ DOMAIN points \subseteq Nat
    /\ \A c \in DOMAIN points : points[c] \in Nat
    /\ refused \subseteq Nat
    /\ {lo, hi, steps} \subseteq Nat
    /\ {direct, fitted, decode} \subseteq Nat \cup {None}

\* What is reported as measured separates the evidence: it was itself measured
\* under the budget, everything measured safe is at most it, everything refused is
\* above it, and the bracket keeps that true after every probe, safe or refused.
CeilingSeparatesEvidence ==
    /\ phase = "bisect" =>
        /\ lo \in DOMAIN points /\ hi \in refused
        /\ \A c \in DOMAIN points : c <= lo
        /\ \A c \in refused : c >= hi
        /\ lo < hi
    /\ direct # None =>
        /\ direct \in DOMAIN points /\ est.ref + points[direct] < est.budget
        /\ \A c \in DOMAIN points : c <= direct
        /\ \A c \in refused : c > direct

\* A fitted line is reported only if no probe contradicted it, and no ceiling
\* lies past the model's own window.
NoExtrapolationPastAnAbort ==
    /\ fitted # None => refused = {}
    /\ est.window # None => {direct, fitted, decode} \ {None} \subseteq 0 .. est.window

TrueMemory(c) == est.ref + footprint.base + footprint.slope * c

\* RULE #1, never reach the wall: if the preflight does not underestimate a model
\* that grows linearly, no probe of the climb or the bisection is made at a context
\* whose true memory reaches the budget, whatever else the workers refuse.
NeverReachesTheWall ==
    footprint # None /\ footprint.base + est.ref <= est.base /\ footprint.slope <= est.slope =>
        \A c \in Probed : TrueMemory(c) < est.budget

\* For a model that grows linearly the extrapolated ceiling is exact: it stays
\* under the budget, and unless the window cut it one more token would not.
FittedCeilingIsExact ==
    footprint # None /\ fitted # None /\ fitted > 0 /\ footprint.slope > 0 =>
        /\ TrueMemory(fitted) < est.budget
        /\ fitted # est.window => TrueMemory(fitted + 1) >= est.budget

\* The ramp ends, whatever its workers answer and wherever they fail. (run_ramp)
Terminates == <>(phase \in {"done", "failed"})

\* What is reported beyond the measurements is earned: nothing contradicted the
\* line, and where the model really is linear it ends exactly at the budget.
\* (safe_ceiling and run_ramp's last step)
FittedCeilingIsEarned == NoExtrapolationPastAnAbort /\ FittedCeilingIsExact

=============================================================================
