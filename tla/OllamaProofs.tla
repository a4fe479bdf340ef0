---------------------------- MODULE OllamaProofs ----------------------------
(***************************************************************************)
(* What ARA measures, claims and hands out of a shared daemon is governed, *)
(* for any number of ARA processes and whatever the daemon and its other   *)
(* clients do in between.                                                  *)
(*                                                                         *)
(* A process is in place when its local variables fit what is shared.      *)
(* Between the reading of a fact and its use other processes and the       *)
(* outside world move, so the proof has three parts: what those moves may  *)
(* do to a process that stands still (Env), what each step needs of its    *)
(* own process, and what it leaves behind for the next.                    *)
(*                                                                         *)
(* The loads that those commands decide on keep the walls of the machine   *)
(* (OllamaWalls): the last part, which is about the sizes only.            *)
(***************************************************************************)
EXTENDS OllamaGovernance, OllamaWalls, TLAPS

-----------------------------------------------------------------------------
(* The invariant. *)

\* The newest binding of the base name; it is never bound back.
Bound == models[Base].of

\* Where a command stands: before it knows its model; with the probe's clean-up;
\* on a rung; on the way to a governed model and while that is loaded and looked
\* at; in a governed request; and wherever the setup lock is held.
Early == {"idle", "c_list", "s_list", "u_list"}
Cleaning == {"look", "look2", "expire", "verify", "delete", "delete2"}
OnRung == {"r_auth", "r_base", "r_create", "r_identify", "r_row", "r_base2",
           "r_generate", "r_auth2", "r_ps", "r_wall"}
Making == {"s_recheck", "s_create", "s_identify", "s_base"}
Loading == {"s_check", "s_load", "s_ps2", "s_v1", "s_auth", "s_base2", "s_check2", "s_ps3"}
Setting == {"s_ps", "s_record", "s_mark"} \cup Making \cup Loading
Answering == {"u_auth3", "u_models2", "u_ps3", "u_show"}
Running == {"u_auth", "u_models", "u_ps", "u_warm", "u_auth2", "u_ps2", "u_generate"}
           \cup Answering
UnderLock == {"c_recheck", "c_ps", "rung", "release"} \cup OnRung \cup Cleaning
             \cup Setting \cup Running
Undoing == {"undo", "undo2", "undo3"}
AdmittedAt == {"s_claims", "s_lock", "u_lock", "shown"} \cup Setting \cup Running
Answered == Answering \cup {"shown", "s_auth", "s_base2", "s_check2", "s_ps3", "s_record",
                            "s_mark"}

World ==
    /\ inst \in Insts
    /\ DOMAIN models = Names
    /\ Bound \in Bases /\ models[Base] = BaseManifest(Bound)
    /\ DOMAIN claims = ServedNames /\ DOMAIN evidence = Bases \X Insts
    /\ DOMAIN l = Procs /\ \A p \in Procs : DOMAIN l[p] = DOMAIN Idle
    /\ \A r \in resident : r.ctx \in Nat
    /\ \A m \in Observed : m.ctx \in Nat

\* What is durable.
Stored ==
    /\ \A k \in Bases \X Insts :
           evidence[k] # None => evidence[k].safe \in Nat /\ evidence[k].probe # Foreign
    /\ EvidenceIsMeasured /\ ClaimsAreGoverned
    /\ \A r \in rows : r.digest # Foreign

\* A command's local variables c, at the place pc.
ProbeOf(c) == Probe(c.base)
ServedOf(c) == Served(c.base, c.ctx)

Begun(c, at) ==
    /\ c.best \in Nat /\ c.ctx \in Nat /\ c.owned \in BOOLEAN
    /\ at \in Early => c.best = 0
    /\ at \in Early \cup {"s_evidence", "s_claims"} => c.owned = FALSE
    /\ at # "idle" => c.inst \in Insts /\ c.inst <= inst
    /\ at \notin Early => c.base \in Bases /\ c.base <= Bound
    /\ at \in {"s_evidence", "s_claims", "s_lock", "u_evidence", "u_lock"} \cup Undoing
              \cup Setting \cup Running => c.ctx \in Ctxs
    /\ at \in Cleaning => c.after \in {"abort", "c_ps", "rung", "release", "idle"}
    /\ at \in OnRung => c.after = "abort"

\* Nothing but n, and what others than ARA loaded, is resident.
Alone(n) == \A r \in resident : r.name \in {n, Other}
AloneFits(c, at) ==
    /\ at \in {"rung"} \cup OnRung \/ (at \in Cleaning /\ c.after = "rung") => Alone(ProbeOf(c))
    /\ at \in Making \cup Loading => Alone(ServedOf(c))

\* The best rung was measured, unless the daemon that could tell is gone.
BestFits(c, at) ==
    inst = c.inst \/ at = "c_save" =>
        c.best = 0 \/ [inst |-> c.inst, of |-> c.base, ctx |-> c.best] \in Observed

\* A manifest made for c is of its base or of a later binding of the name,
\* until the base was looked at again.
Made(c, m, top) == \E k \in Bases : c.base <= k /\ k <= top /\ m = Derived(k, c.ctx)
Exact(c) == c.art = Derived(c.base, c.ctx)
\* The probe is resident, or its eviction was noted.
InSight(c) ==
    \/ Runner(ProbeOf(c), c.art, c.ctx) \in resident
    \/ [inst |-> c.inst, of |-> c.base, ctx |-> c.ctx] \in missed
ProbeFits(c, at) ==
    /\ at = "r_identify" => models[ProbeOf(c)] = None \/ Made(c, models[ProbeOf(c)], Bound)
    /\ at \in {"r_row", "r_base2"} => Made(c, c.art, Bound)
    /\ at \in {"r_generate", "r_auth2", "r_ps", "r_wall"} => Exact(c)
    /\ at = "r_wall" /\ inst = c.inst => InSight(c)

AdmissionFits(c, at) ==
    at \in AdmittedAt => Governed([inst |-> c.inst, of |-> c.base, ctx |-> c.ctx])

ServedFits(c, at) ==
    /\ at \in {"s_lock", "s_ps"} /\ c.owned => Exact(c)
    /\ at = "s_identify" => models[ServedOf(c)] = None \/ Made(c, models[ServedOf(c)], Bound)
    /\ at = "s_base" => Made(c, c.art, Bound)
    /\ at \in Loading \cup {"s_record", "s_mark"} => Exact(c)
    /\ at \in {"s_load", "s_ps2", "s_v1"} => models[ServedOf(c)] \in {None, c.art}

\* The completion came from this daemon or a later one, from these weights or
\* later ones, until both were compared.
RanFits(c, at) ==
    /\ at \in Answered =>
           /\ c.ran.inst \in Nat /\ c.inst <= c.ran.inst /\ c.ran.inst <= inst
           /\ c.ran.of \in Nat /\ c.base <= c.ran.of /\ c.ran.of <= Bound
           /\ c.ran.ctx \in Nat /\ c.ran.ctx <= c.ctx
    /\ at \in Answered \ {"u_auth3", "s_auth"} => c.ran.inst = c.inst
    /\ at \in Answered \ {"u_auth3", "u_models2"} => c.ran.of = c.base

\* Whatever is overwritten or deleted next is not somebody else's.
ForeignFits(c, at) ==
    /\ c.art # Foreign
    /\ at \in {"c_ps", "rung"} \cup OnRung \cup (Cleaning \ {"look"}) =>
           models[ProbeOf(c)] # Foreign
    /\ at = "s_create" => models[ServedOf(c)] = None
    /\ at \in {"undo2", "undo3"} => models[ServedOf(c)] # Foreign

Fits(c, at) ==
    /\ Begun(c, at) /\ AloneFits(c, at) /\ BestFits(c, at) /\ ProbeFits(c, at)
    /\ AdmissionFits(c, at) /\ ServedFits(c, at) /\ RanFits(c, at) /\ ForeignFits(c, at)
InPlace(p) == Fits(l[p], l[p].pc)
HoldsLock(p) == l[p].pc \in UnderLock => lock = p

IInv == World /\ Stored /\ \A p \in Procs : InPlace(p) /\ HoldsLock(p)

-----------------------------------------------------------------------------
(* Names and manifests. *)

LEMMA NamesApart ==
    ASSUME NEW b \in Bases, NEW x
    PROVE  /\ Probe(b) \in Names \ {Base} /\ Probe(b) \notin ServedNames
           /\ x \in Ctxs => Served(b, x) \in Names \ {Base} /\ Served(b, x) \in ServedNames
           /\ Probe(b) # Served(b, x)
           /\ Derived(b, x) # Foreign /\ BaseManifest(b) # Foreign
<1>1. Probe(b) \in ProbeNames /\ (x \in Ctxs => Served(b, x) \in ServedNames)
  BY DEF ProbeNames, ServedNames
<1>2. /\ Probe(b).kind = "probe" /\ Base.kind = "base" /\ Served(b, x).kind = "served"
      /\ \A n \in ServedNames : n.kind = "served"
  BY DEF Probe, Base, Served, ServedNames
<1>3. Derived(b, x).of = b /\ BaseManifest(b).of = b /\ Foreign.of = 0 /\ b # 0
  BY DEF Derived, BaseManifest, Foreign, Bases
<1> QED
  BY <1>1, <1>2, <1>3 DEF Names

LEMMA BaseIsName == Base \in Names
BY DEF Names

-----------------------------------------------------------------------------
(* What others and the world do while q stands still. *)

\* A runner that goes while q is about to read the walls is noted as missed.
Noted(q) ==
    inst' = inst /\ l[q].pc = "r_wall" =>
        \A r \in resident \ resident' :
            [inst |-> inst, of |-> r.digest.of, ctx |-> r.ctx] \in missed'
Env(q) ==
    /\ inst <= inst' /\ Bound <= Bound'
    /\ Observed \subseteq Observed' /\ missed \subseteq missed'
    /\ \A n \in Names : models'[n] = Foreign => models[n] = Foreign
    /\ lock = q =>
        /\ lock' = q
        /\ \A r \in resident' : r \in resident \/ r.name = Other
        /\ Noted(q)
        /\ \A n \in Names \ {Base} : models'[n] \in {models[n], None}

LEMMA EnvKeeps ==
    ASSUME NEW c, NEW at, NEW q, World, World', Env(q), Fits(c, at), at \in UnderLock => lock = q,
           at = "r_wall" => l[q].pc = "r_wall"
    PROVE  Fits(c, at)'
<1> DEFINE n == ProbeOf(c)
           s == ServedOf(c)
<1>1. /\ inst \in Nat /\ inst' \in Nat /\ inst <= inst'
      /\ Bound \in Nat /\ Bound' \in Nat /\ Bound <= Bound'
      /\ Bases \subseteq Nat /\ Insts \subseteq Nat
  BY DEF World, Insts, Bases, Env
<1>2. at \notin Early => n \in Names \ {Base} /\ c.base \in Nat
  BY NamesApart DEF Fits, Begun, ProbeOf, Bases
<1>3. at \notin Early /\ c.ctx \in Ctxs => s \in Names \ {Base}
  BY NamesApart DEF Fits, Begun, ServedOf
<1>4. at # "idle" => c.inst \in Nat
  BY <1>1 DEF Fits, Begun
<1>5. Begun(c, at)'
  BY <1>1, <1>2, <1>4 DEF Fits, Begun
<1>6. AloneFits(c, at)'
  BY DEF Fits, AloneFits, Env, UnderLock, OnRung, Cleaning, Making, Loading, Setting, Alone,
     ProbeOf, ServedOf
<1>7. BestFits(c, at)'
  <2>1. CASE at = "idle"
    BY <2>1 DEF Fits, BestFits, Begun, Early
  <2>2. CASE at # "idle"
    BY <2>2, <1>1, <1>4 DEF Fits, BestFits, Env, Begun
  <2> QED BY <2>1, <2>2
<1>8. \A m : Made(c, m, Bound) => Made(c, m, Bound')
  <2> TAKE m
  <2> SUFFICES ASSUME Made(c, m, Bound) PROVE Made(c, m, Bound')
    OBVIOUS
  <2>1. PICK k \in Bases : c.base <= k /\ k <= Bound /\ m = Derived(k, c.ctx)
    BY DEF Made
  <2>2. k <= Bound'
    BY <1>1, <2>1
  <2> QED
    BY <2>1, <2>2 DEF Made
<1>9. ProbeFits(c, at)'
  <2>1. at \in OnRung => lock = q
    BY DEF UnderLock
  <2>2. at = "r_identify" => models'[n] = None \/ Made(c, models'[n], Bound')
    BY <1>2, <1>8, <2>1 DEF Fits, ProbeFits, Env, OnRung, Early
  <2>3. at = "r_wall" /\ inst' = c.inst =>
            \/ Runner(n, c.art, c.ctx) \in resident'
            \/ [inst |-> c.inst, of |-> c.base, ctx |-> c.ctx] \in missed'
    <3> SUFFICES ASSUME at = "r_wall", inst' = c.inst, Runner(n, c.art, c.ctx) \notin resident',
                        [inst |-> c.inst, of |-> c.base, ctx |-> c.ctx] \notin missed
                 PROVE  [inst |-> c.inst, of |-> c.base, ctx |-> c.ctx] \in missed'
      BY DEF Env
    <3>1. inst = c.inst
      BY <1>1, <1>4 DEF Fits, Begun
    <3>2. Runner(n, c.art, c.ctx) \in resident /\ c.art.of = c.base
      BY <3>1 DEF Fits, ProbeFits, InSight, Exact, Derived
    <3>3. lock = q /\ l[q].pc = "r_wall"
      BY <2>1 DEF OnRung
    <3> QED
      BY <3>1, <3>2, <3>3 DEF Env, Noted, Runner
  <2> QED
    BY <1>8, <2>2, <2>3 DEF Fits, ProbeFits, InSight, Exact, ProbeOf
<1>10. AdmissionFits(c, at)'
  BY DEF Fits, AdmissionFits, Governed, Env
<1>11. ServedFits(c, at)'
  <2>1. at \in Setting => lock = q /\ s \in Names \ {Base}
    BY <1>3 DEF UnderLock, Fits, Begun, Setting, Making, Loading, Early
  <2>2. at = "s_identify" => models'[s] = None \/ Made(c, models'[s], Bound')
    BY <1>8, <2>1 DEF Fits, ServedFits, Env, Setting, Making
  <2>3. at \in {"s_load", "s_ps2", "s_v1"} => models'[s] \in {None, c.art}
    BY <2>1 DEF Fits, ServedFits, Env, Setting, Loading
  <2> QED
    BY <1>8, <2>2, <2>3 DEF Fits, ServedFits, Exact, ServedOf
<1>12. RanFits(c, at)'
  BY <1>1 DEF Fits, RanFits
<1>13. ForeignFits(c, at)'
  <2>1. at \in {"c_ps", "rung"} \cup OnRung \cup (Cleaning \ {"look"}) => n \in Names
    BY <1>2 DEF OnRung, Cleaning, Early
  <2>2. at = "s_create" => lock = q /\ s \in Names \ {Base}
    BY <1>3 DEF UnderLock, Fits, Begun, Setting, Making, Early
  <2>3. at \in {"undo2", "undo3"} => s \in Names
    BY <1>3 DEF Fits, Begun, Undoing, Early
  <2> QED
    BY <2>1, <2>2, <2>3 DEF Fits, ForeignFits, Env, ProbeOf, ServedOf
<1> QED
  BY <1>5, <1>6, <1>7, <1>9, <1>10, <1>11, <1>12, <1>13 DEF Fits

LEMMA OthersKeep ==
    ASSUME NEW q \in Procs, World, World', Env(q), l'[q] = l[q], InPlace(q), HoldsLock(q)
    PROVE  InPlace(q)' /\ HoldsLock(q)'
<1> PICK c : c = l[q]
  OBVIOUS
<1>1. Fits(c, c.pc) /\ (c.pc \in UnderLock => lock = q)
  BY DEF InPlace, HoldsLock
<1>2. Fits(c, c.pc)'
  BY <1>1, EnvKeeps
<1>3. InPlace(q)'
  BY <1>2 DEF InPlace
<1>4. HoldsLock(q)'
  BY <1>1 DEF HoldsLock, Env
<1> QED
  BY <1>3, <1>4

-----------------------------------------------------------------------------
(* Steps of p that touch nothing but its local variables and the lock. *)

LEMMA StoredKeeps ==
    ASSUME Stored, UNCHANGED <<claims, rows, evidence>>, Observed \subseteq Observed'
    PROVE  Stored'
BY DEF Stored, EvidenceIsMeasured, ClaimsAreGoverned, Governed

\* p's local variables become d; nobody else loses the lock.
Local(p, d) ==
    /\ l' = [l EXCEPT ![p] = d]
    /\ DOMAIN d = DOMAIN Idle
    /\ d.pc \in UnderLock => lock' = p
    /\ \A q \in Procs \ {p} : lock = q => lock' = q

LEMMA LocalFits ==
    ASSUME NEW p \in Procs, IInv, NEW d, Local(p, d)
    PROVE  /\ DOMAIN l' = Procs /\ \A q \in Procs : DOMAIN l'[q] = DOMAIN Idle
           /\ l'[p] = d /\ \A q \in Procs \ {p} : l'[q] = l[q]
           /\ HoldsLock(p)'
BY DEF IInv, World, Local, HoldsLock

\* The shared state goes on from what p did; the others keep their places.
LEMMA StepKeeps ==
    ASSUME NEW p \in Procs, IInv, NEW d, Local(p, d), World', Stored', Fits(d, d.pc)',
           \A q \in Procs \ {p} : Env(q)
    PROVE  IInv'
<1>1. \A q \in Procs \ {p} : InPlace(q)' /\ HoldsLock(q)'
  BY LocalFits, OthersKeep DEF IInv
<1>2. InPlace(p)' /\ HoldsLock(p)'
  BY LocalFits DEF InPlace
<1> QED
  BY <1>1, <1>2 DEF IInv

\* What a command needs to be in place is not durable, except for measurements.
Shared == <<inst, models, resident, measured, missed>>
LEMMA QuietKeeps ==
    ASSUME NEW p \in Procs, IInv, NEW d, Local(p, d), UNCHANGED Shared, World', Stored',
           Fits(d, d.pc)
    PROVE  IInv'
<1>1. Fits(d, d.pc)'
  BY DEF Shared, Observed, Fits, Begun, AloneFits, Alone, BestFits, ProbeFits, Made, Exact,
     InSight, AdmissionFits, Governed, ServedFits, RanFits, ForeignFits, Bound, ProbeOf, ServedOf
<1>2. Bound \in Nat /\ inst \in Nat
  BY DEF IInv, World, Bases, Insts
<1>3. \A q \in Procs \ {p} : Env(q)
  BY <1>2 DEF Env, Noted, Shared, Bound, Local, Observed
<1> QED
  BY <1>1, <1>3, StepKeeps

LEMMA LocalKeeps ==
    ASSUME NEW p \in Procs, IInv, NEW d, Local(p, d), OnlyLocal, Fits(d, d.pc)
    PROVE  IInv'
<1>1. World'
  BY LocalFits DEF IInv, World, OnlyLocal, Durable, History, Observed, Bound
<1>2. Stored'
  BY StoredKeeps DEF IInv, OnlyLocal, Durable, History, Observed
<1>3. UNCHANGED Shared
  BY DEF OnlyLocal, Durable, History, Shared
<1> QED
  BY <1>1, <1>2, <1>3, QuietKeeps

\* Two sets of local variables that differ only in the place.
Alike(c, d) ==
    /\ d.inst = c.inst /\ d.base = c.base /\ d.ctx = c.ctx /\ d.best = c.best /\ d.art = c.art
    /\ d.owned = c.owned /\ d.ran = c.ran /\ d.after = c.after
LEMMA AlikeFits ==
    ASSUME NEW c, NEW d, NEW at, Alike(c, d), Fits(c, at)
    PROVE  Fits(d, at)
BY DEF Alike, Fits, Begun, AloneFits, BestFits, ProbeFits, InSight, Made, Exact,
   AdmissionFits, ServedFits, RanFits, ForeignFits, ProbeOf, ServedOf

LEMMA IdleFits == Fits(Idle, Idle.pc) /\ Fits(Idle, Idle.pc)'
<1> USE DEF Idle
<1>1. None # Foreign
  BY OllamaAssumption DEF Foreign
<1> QED
  BY <1>1 DEF Fits, Begun, AloneFits, BestFits, ProbeFits,
   AdmissionFits, ServedFits, RanFits, ForeignFits, Early, Cleaning, OnRung, Making, Loading,
   Setting, Answering, Running, Undoing, AdmittedAt, Answered

\* A command ends.
LEMMA EndLocal ==
    ASSUME NEW p \in Procs, IInv, Goto(p, "idle")
    PROVE  Local(p, Idle)
BY DEF Local, Goto, Move, Unlock, Idle, UnderLock, OnRung, Cleaning, Setting, Making,
   Loading, Running, Answering

\* A pure change of place.
LEMMA GotoLocal ==
    ASSUME NEW p \in Procs, IInv, NEW at, at # "idle", Goto(p, at), at \in UnderLock => lock = p
    PROVE  \E d : Local(p, d) /\ d.pc = at /\ Alike(l[p], d)
<1> DEFINE d == [l[p] EXCEPT !.pc = at]
<1>1. DOMAIN l = Procs /\ DOMAIN l[p] = DOMAIN Idle
  BY DEF IInv, World
<1>2. l' = [l EXCEPT ![p] = d] /\ lock' = lock
  BY <1>1 DEF Goto, Move
<1>3. d.pc = at /\ DOMAIN d = DOMAIN Idle /\ Alike(l[p], d)
  BY <1>1 DEF Alike, Idle
<1> HIDE DEF d
<1>4. Local(p, d)
  BY <1>2, <1>3 DEF Local
<1> QED
  BY <1>3, <1>4

\* c may go on to pc.
MayGo(p, at) == at = "idle" \/ (Fits(l[p], at) /\ (at \in UnderLock => lock = p))

LEMMA GotoQuiet ==
    ASSUME NEW p \in Procs, IInv, NEW at, Goto(p, at), MayGo(p, at)
    PROVE  \E d : Local(p, d) /\ Fits(d, d.pc)
<1>1. CASE at = "idle"
  BY <1>1, EndLocal, IdleFits
<1>2. CASE at # "idle"
  <2>1. PICK d : Local(p, d) /\ d.pc = at /\ Alike(l[p], d)
    BY <1>2, GotoLocal DEF MayGo
  <2>2. Fits(d, at)
    BY <1>2, <2>1, AlikeFits DEF MayGo
  <2> QED
    BY <2>1, <2>2
<1> QED
  BY <1>1, <1>2

LEMMA GotoKeeps ==
    ASSUME NEW p \in Procs, IInv, NEW at, Goto(p, at), OnlyLocal, MayGo(p, at)
    PROVE  IInv'
BY GotoQuiet, LocalKeeps

\* Some local variables get new values.
Entered(p, fields, at, d) ==
    /\ DOMAIN d = DOMAIN Idle /\ d.pc = at
    /\ \A k \in DOMAIN Idle \ {"pc"} : d[k] = IF k \in DOMAIN fields THEN fields[k] ELSE l[p][k]
LEMMA EnterLocal ==
    ASSUME NEW p \in Procs, IInv, NEW at, NEW fields, Enter(p, fields, at),
           at \in UnderLock => lock = p
    PROVE  \E d : Local(p, d) /\ Entered(p, fields, at, d)
<1> DEFINE d == [k \in DOMAIN Idle |->
            IF k = "pc" THEN at ELSE IF k \in DOMAIN fields THEN fields[k] ELSE l[p][k]]
<1>1. l' = [l EXCEPT ![p] = d] /\ lock' = lock
  BY DEF Enter
<1>2. Entered(p, fields, at, d)
  BY DEF Entered, Idle
<1> HIDE DEF d
<1> QED
  BY <1>1, <1>2 DEF Local, Entered

\* The lock is taken, or left before the command goes on.
LEMMA MoveLocal ==
    ASSUME NEW p \in Procs, IInv, NEW at, at # "idle", Move(p, at),
           \/ lock = None /\ lock' = p
           \/ Unlock(p) /\ at \notin UnderLock
    PROVE  \E d : Local(p, d) /\ d.pc = at /\ Alike(l[p], d)
<1> DEFINE d == [l[p] EXCEPT !.pc = at]
<1>1. DOMAIN l = Procs /\ DOMAIN l[p] = DOMAIN Idle
  BY DEF IInv, World
<1>2. l' = [l EXCEPT ![p] = d]
  BY <1>1 DEF Move
<1>3. d.pc = at /\ DOMAIN d = DOMAIN Idle /\ Alike(l[p], d)
  BY <1>1 DEF Alike, Idle
<1> HIDE DEF d
<1>4. None \notin Procs
  BY OllamaAssumption
<1>5. Local(p, d)
  BY <1>2, <1>3, <1>4 DEF Local, Unlock
<1> QED
  BY <1>3, <1>5

LEMMA MoveKeeps ==
    ASSUME NEW p \in Procs, IInv, NEW at, at # "idle", Move(p, at), OnlyLocal, Fits(l[p], at),
           \/ lock = None /\ lock' = p
           \/ Unlock(p) /\ at \notin UnderLock
    PROVE  IInv'
BY MoveLocal, AlikeFits, LocalKeeps

-----------------------------------------------------------------------------
(* Where a characterization may go next. *)

LEMMA MayEnd == ASSUME NEW p PROVE MayGo(p, "idle")
BY DEF MayGo

LEMMA RampGoes ==
    ASSUME NEW p \in Procs, IInv
    PROVE  /\ At(p, "c_lock") => Fits(l[p], "c_recheck")
           /\ At(p, "c_recheck") /\ models[ProbeName(p)] = None => MayGo(p, "c_ps")
           /\ At(p, "c_ps") /\ resident = {} => MayGo(p, "rung")
           /\ At(p, "rung") => MayGo(p, "release")
           /\ At(p, "r_auth") => MayGo(p, "r_base")
           /\ At(p, "r_base") => MayGo(p, "r_create")
           /\ At(p, "r_create") => MayGo(p, "release")
           /\ l[p].pc \in OnRung => MayGo(p, "look")
           /\ At(p, "r_base2") /\ SameBase(p) => MayGo(p, "r_generate")
           /\ At(p, "r_auth2") => MayGo(p, "r_ps")
           /\ At(p, "r_ps") /\ resident = {Runner(ProbeName(p), l[p].art, l[p].ctx)}
                  => MayGo(p, "r_wall")
           /\ At(p, "release") => Fits(l[p], "c_base")
           /\ At(p, "c_base") => MayGo(p, "c_auth")
           /\ At(p, "c_auth") /\ SameServer(p) => MayGo(p, "c_save")
<1> DEFINE c == l[p]
<1>1. Fits(c, c.pc) /\ (c.pc \in UnderLock => lock = p)
  BY DEF IInv, InPlace, HoldsLock
<1>2. None # Foreign /\ ProbeName(p) = ProbeOf(c)
  BY OllamaAssumption DEF Foreign, ProbeName, ProbeOf
<1> USE DEF At, MayGo, Fits, Begun, AloneFits, BestFits, ProbeFits, AdmissionFits, ServedFits,
        RanFits, ForeignFits, Early, Cleaning, OnRung, Making, Loading, Setting, Answering,
        Running, Undoing, AdmittedAt, Answered, UnderLock
<1>3. At(p, "c_lock") => Fits(c, "c_recheck")
  BY <1>1
<1>4. At(p, "c_recheck") /\ models[ProbeName(p)] = None => MayGo(p, "c_ps")
  BY <1>1, <1>2
<1>5. At(p, "c_ps") /\ resident = {} => MayGo(p, "rung")
  BY <1>1, <1>2 DEF Alone
<1>6. /\ At(p, "rung") => MayGo(p, "release")
      /\ At(p, "r_auth") => MayGo(p, "r_base")
      /\ At(p, "r_base") => MayGo(p, "r_create")
      /\ At(p, "r_create") => MayGo(p, "release")
      /\ At(p, "r_auth2") => MayGo(p, "r_ps")
  BY <1>1
<1>7. c.pc \in OnRung => MayGo(p, "look")
  BY <1>1
<1>8. At(p, "r_base2") /\ SameBase(p) => MayGo(p, "r_generate")
  <2>1. SameBase(p) => Bound = c.base
    BY DEF SameBase, BaseManifest, Bound
  <2>2. Made(c, c.art, Bound) /\ Bound = c.base /\ c.base \in Bases => Exact(c)
    BY DEF Made, Exact, Bases
  <2> QED BY <1>1, <2>1, <2>2
<1>9. At(p, "r_ps") /\ resident = {Runner(ProbeName(p), c.art, c.ctx)} => MayGo(p, "r_wall")
  BY <1>1, <1>2 DEF InSight
<1>10. At(p, "release") => Fits(c, "c_base")
  BY <1>1
<1>11. At(p, "c_base") => MayGo(p, "c_auth")
  BY <1>1
<1>12. At(p, "c_auth") /\ SameServer(p) => MayGo(p, "c_save")
  BY <1>1 DEF SameServer
<1> HIDE DEF MayGo, Fits
<1> QED
  BY <1>3, <1>4, <1>5, <1>6, <1>7, <1>8, <1>9, <1>10, <1>11, <1>12

-----------------------------------------------------------------------------
(* The daemon's side. *)

LEMMA WhoAnswers ==
    ASSUME NEW n, NEW c \in Nat, NEW r, Answers(n, c, r), \A q \in resident : q.ctx \in Nat
    PROVE  /\ \A q \in resident' : (q \in resident \/ q.name = n) /\ q.ctx \in Nat
           /\ r.digest.of = models[n].of /\ r.ctx \in Nat /\ r.ctx <= c
           /\ models[n] # None
BY DEF Answers, Runner

\* p, which has the lock, asks the daemon for a model.
LEMMA ResidentKeeps ==
    ASSUME NEW p \in Procs, IInv, NEW d, Local(p, d), OnlyDaemon, UNCHANGED models, lock = p,
           \A r \in resident' : r.ctx \in Nat,
           Fits(d, d.pc), AloneFits(d, d.pc)', d.pc # "r_wall"
    PROVE  IInv'
<1>1. /\ UNCHANGED <<inst, claims, rows, evidence, measured, missed>> /\ UNCHANGED models
      /\ Bound' = Bound /\ Observed' = Observed
  BY DEF OnlyDaemon, Durable, History, Bound, Observed
<1>2. World'
  BY <1>1, LocalFits DEF IInv, World
<1>3. Stored'
  BY <1>1, StoredKeeps DEF IInv
<1>4. Bound \in Nat /\ inst \in Nat
  BY DEF IInv, World, Bases, Insts
<1>5. \A q \in Procs \ {p} : Env(q)
  BY <1>1, <1>4 DEF Env
<1>6. Fits(d, d.pc)'
  BY <1>1 DEF Fits, Begun, BestFits, ProbeFits, Made, Exact, AdmissionFits, Governed,
     ServedFits, RanFits, ForeignFits, ProbeOf, ServedOf
<1> QED
  BY <1>2, <1>3, <1>5, <1>6, StepKeeps

\* p makes or removes one of ARA's models.
LEMMA ModelChanges ==
    ASSUME NEW p \in Procs, IInv, NEW d, Local(p, d), OnlyDaemon, UNCHANGED resident,
           NEW n \in Names \ {Base}, NEW m, m # Foreign, lock = p \/ m = None,
           models' = [models EXCEPT ![n] = m]
    PROVE  /\ World' /\ Stored' /\ \A q \in Procs \ {p} : Env(q)
           /\ Bound' = Bound /\ models'[n] = m /\ \A k \in Names \ {n} : models'[k] = models[k]
           /\ UNCHANGED <<inst, measured, missed, resident>> /\ Observed' = Observed
<1>1. UNCHANGED <<inst, claims, rows, evidence, measured, missed, resident>> /\ Observed' = Observed
  BY DEF OnlyDaemon, Durable, History, Observed
<1>2. DOMAIN models = Names /\ DOMAIN models' = Names /\ Base \in Names
  BY BaseIsName DEF IInv, World
<1>3. models'[n] = m /\ \A k \in Names \ {n} : models'[k] = models[k]
  BY <1>2
<1>4. Bound' = Bound /\ models'[Base] = models[Base]
  BY <1>2, <1>3 DEF Bound
<1>5. World'
  BY <1>1, <1>2, <1>4, LocalFits DEF IInv, World
<1>6. Stored'
  BY <1>1, StoredKeeps DEF IInv
<1>7. Bound \in Nat /\ inst \in Nat
  BY DEF IInv, World, Bases, Insts
<1>8. \A q \in Procs \ {p} : Env(q)
  BY <1>1, <1>3, <1>4, <1>7 DEF Env, Noted, Local
<1> QED
  BY <1>1, <1>3, <1>4, <1>5, <1>6, <1>8

\* After that, p itself: what is resident and measured is what it was.
LEMMA ModelKeeps ==
    ASSUME NEW p \in Procs, IInv, NEW d, Local(p, d), OnlyDaemon, UNCHANGED resident,
           NEW n \in Names \ {Base}, NEW m, m # Foreign, lock = p \/ m = None,
           models' = [models EXCEPT ![n] = m],
           /\ Begun(d, d.pc) /\ AloneFits(d, d.pc) /\ BestFits(d, d.pc)
           /\ AdmissionFits(d, d.pc) /\ RanFits(d, d.pc)
           /\ ProbeFits(d, d.pc)' /\ ServedFits(d, d.pc)' /\ ForeignFits(d, d.pc)'
    PROVE  IInv'
<1>1. /\ World' /\ Stored' /\ \A q \in Procs \ {p} : Env(q)
      /\ Bound' = Bound /\ UNCHANGED <<inst, measured, missed, resident>>
      /\ Observed' = Observed
  BY ModelChanges
<1>2. Fits(d, d.pc)'
  BY <1>1 DEF Fits, Begun, AloneFits, Alone, BestFits, AdmissionFits, Governed, RanFits,
     ProbeOf, ServedOf
<1> QED
  BY <1>1, <1>2, StepKeeps

-----------------------------------------------------------------------------
(* characterize. *)

LEMMA GatesKeep ==
    ASSUME NEW p \in Procs, IInv,
           \/ Gate(p, "c_ps", Admissible({}, FALSE), "rung", "idle")
           \/ Gate(p, "r_auth", SameServer(p), "r_base", "idle")
           \/ Gate(p, "r_base", SameBase(p), "r_create", "idle")
           \/ Gate(p, "r_base2", SameBase(p), "r_generate", "look")
           \/ Gate(p, "r_auth2", SameServer(p), "r_ps", "look")
           \/ Gate(p, "c_base", SameBase(p), "c_auth", "idle")
           \/ Gate(p, "c_auth", SameServer(p), "c_save", "idle")
    PROVE  IInv'
<1> USE RampGoes, MayEnd, GotoKeeps DEF Gate
<1>1. CASE Gate(p, "c_ps", Admissible({}, FALSE), "rung", "idle")
  BY <1>1 DEF Admissible
<1>2. CASE Gate(p, "r_auth", SameServer(p), "r_base", "idle")
  BY <1>2
<1>3. CASE Gate(p, "r_base", SameBase(p), "r_create", "idle")
  BY <1>3
<1>4. CASE Gate(p, "r_base2", SameBase(p), "r_generate", "look")
  BY <1>4 DEF At, OnRung
<1>5. CASE Gate(p, "r_auth2", SameServer(p), "r_ps", "look")
  BY <1>5 DEF At, OnRung
<1>6. CASE Gate(p, "c_base", SameBase(p), "c_auth", "idle")
  BY <1>6
<1>7. CASE Gate(p, "c_auth", SameServer(p), "c_save", "idle")
  BY <1>7
<1> QED BY <1>1, <1>2, <1>3, <1>4, <1>5, <1>6, <1>7

LEMMA ListKeeps ==
    ASSUME NEW p \in Procs, IInv, ListForCharacterize(p)
    PROVE  IInv'
<1> DEFINE c == l[p]
<1>1. At(p, "c_list") /\ Enter(p, [base |-> Bound], "c_lock") /\ OnlyLocal
  BY DEF ListForCharacterize, Bound
<1>2. PICK d : Local(p, d) /\ Entered(p, [base |-> Bound], "c_lock", d)
  BY <1>1, EnterLocal
  DEF UnderLock, OnRung, Cleaning, Setting, Making, Loading, Running, Answering
<1>3. /\ d.pc = "c_lock" /\ d.base = Bound /\ d.inst = c.inst /\ d.ctx = c.ctx /\ d.best = c.best
      /\ d.art = c.art /\ d.owned = c.owned
  BY <1>2 DEF Entered, Idle
<1>4. Fits(c, "c_list")
  BY <1>1 DEF IInv, InPlace, At
<1>5. Bound \in Bases /\ Bound \in Nat
  BY DEF IInv, World, Bases
<1>6. Fits(d, d.pc)
  BY <1>3, <1>4, <1>5
  DEF Fits, Begun, AloneFits, BestFits, ProbeFits, AdmissionFits, ServedFits,
     RanFits, ForeignFits, Early, Cleaning, OnRung, Making, Loading, Setting, Answering,
     Running, Undoing, AdmittedAt, Answered
<1> QED
  BY <1>1, <1>2, <1>6, LocalKeeps

LEMMA CLockKeeps ==
    ASSUME NEW p \in Procs, IInv, TryLock(p, "c_lock", "c_recheck")
    PROVE  IInv'
<1>1. CASE lock = None /\ lock' = p /\ Move(p, "c_recheck")
  BY <1>1, RampGoes, MoveKeeps DEF TryLock
<1>2. CASE Goto(p, "idle")
  BY <1>2, GotoKeeps, MayEnd DEF TryLock
<1> QED
  BY <1>1, <1>2 DEF TryLock

\* Into the clean-up, with other local variables.
LEMMA LookKeeps ==
    ASSUME NEW p \in Procs, IInv, OnlyLocal, NEW fields, Enter(p, fields, "look"), lock = p,
           DOMAIN fields \subseteq {"art", "after"},
           "art" \in DOMAIN fields => fields["art"] # Foreign,
           fields["after"] \in {"abort", "c_ps", "release", "idle"}, "after" \in DOMAIN fields,
           l[p].pc \in {"c_recheck"} \cup OnRung \cup Cleaning
    PROVE  IInv'
<1> DEFINE c == l[p]
<1>1. PICK d : Local(p, d) /\ Entered(p, fields, "look", d)
  BY EnterLocal
<1>2. /\ d.pc = "look" /\ d.base = c.base /\ d.inst = c.inst /\ d.ctx = c.ctx
      /\ d.best = c.best /\ d.owned = c.owned /\ d.after = fields["after"]
      /\ d.art = c.art \/ (d.art = fields["art"] /\ "art" \in DOMAIN fields)
  BY <1>1 DEF Entered, Idle
<1>3. Fits(c, c.pc)
  BY DEF IInv, InPlace
<1>4. Fits(d, d.pc)
  BY <1>2, <1>3 DEF Fits, Begun, AloneFits, BestFits, ProbeFits, AdmissionFits, ServedFits,
     RanFits, ForeignFits, Early, Cleaning, OnRung, Making, Loading, Setting, Answering,
     Running, Undoing, AdmittedAt, Answered
<1> QED
  BY <1>1, <1>4, LocalKeeps

LEMMA RecheckKeeps ==
    ASSUME NEW p \in Procs, IInv, RecheckProbe(p)
    PROVE  IInv'
<1>1. At(p, "c_recheck") /\ OnlyLocal /\ lock = p
  BY DEF RecheckProbe, IInv, HoldsLock, At, UnderLock
<1>2. CASE models[ProbeName(p)] = None /\ Goto(p, "c_ps")
  BY <1>1, <1>2, RampGoes, GotoKeeps
<1>3. CASE /\ models[ProbeName(p)] # None /\ ProbeIsOwned(p)
           /\ Enter(p, [art |-> models[ProbeName(p)], after |-> "c_ps"], "look")
  <2> DEFINE fields == [art |-> models[ProbeName(p)], after |-> "c_ps"]
  <2>1. models[ProbeName(p)] # Foreign
    BY <1>3 DEF ProbeIsOwned, IInv, Stored
  <2>2. /\ DOMAIN fields = {"art", "after"} /\ fields["art"] = models[ProbeName(p)]
        /\ fields["after"] = "c_ps"
    OBVIOUS
  <2>3. Enter(p, fields, "look")
    BY <1>3
  <2> HIDE DEF fields
  <2>4. /\ DOMAIN fields \subseteq {"art", "after"} /\ "after" \in DOMAIN fields
        /\ "art" \in DOMAIN fields => fields["art"] # Foreign
        /\ fields["after"] \in {"abort", "c_ps", "release", "idle"}
        /\ l[p].pc \in {"c_recheck"} \cup OnRung \cup Cleaning
    BY <1>1, <2>1, <2>2 DEF At
  <2> QED
    BY <1>1, <2>3, <2>4, LookKeeps
<1>4. CASE Goto(p, "idle")
  BY <1>1, <1>4, GotoKeeps, MayEnd
<1> QED
  BY <1>2, <1>3, <1>4 DEF RecheckProbe

LEMMA NextRungKeeps ==
    ASSUME NEW p \in Procs, IInv, NextRung(p)
    PROVE  IInv'
<1> DEFINE c == l[p]
<1>1. At(p, "rung") /\ OnlyLocal /\ lock = p /\ Fits(c, "rung")
  BY DEF NextRung, IInv, HoldsLock, At, UnderLock, InPlace
<1>2. CASE l[p].ctx < MaxCtx /\ Enter(p, [ctx |-> l[p].ctx + 1, after |-> "abort"], "r_auth")
  <2>1. PICK d : Local(p, d) /\ Entered(p, [ctx |-> c.ctx + 1, after |-> "abort"], "r_auth", d)
    BY <1>1, <1>2, EnterLocal
  <2>2. /\ d.pc = "r_auth" /\ d.base = c.base /\ d.inst = c.inst /\ d.ctx = c.ctx + 1
        /\ d.best = c.best /\ d.owned = c.owned /\ d.after = "abort" /\ d.art = c.art
    BY <2>1 DEF Entered, Idle
  <2>3. Fits(d, d.pc)
    BY <1>1, <2>2 DEF Fits, Begun, AloneFits, BestFits, ProbeFits, AdmissionFits, ServedFits,
     RanFits, ForeignFits, ProbeOf, Early, Cleaning, OnRung, Making, Loading, Setting,
     Answering,
     Running, Undoing, AdmittedAt, Answered
  <2> QED
    BY <1>1, <2>1, <2>3, LocalKeeps
<1>3. CASE Goto(p, "release")
  BY <1>1, <1>3, RampGoes, GotoKeeps
<1> QED
  BY <1>2, <1>3 DEF NextRung

LEMMA CreateProbeKeeps ==
    ASSUME NEW p \in Procs, IInv, CreateProbe(p)
    PROVE  IInv'
<1> DEFINE c == l[p]
           n == ProbeName(p)
           m == Derived(models[Base].of, c.ctx)
<1>1. At(p, "r_create") /\ OnlyDaemon /\ UNCHANGED resident /\ lock = p /\ Fits(c, "r_create")
  BY DEF CreateProbe, IInv, HoldsLock, At, UnderLock, OnRung, InPlace
<1>2. c.base \in Bases /\ Bound \in Bases /\ c.base <= Bound /\ n = ProbeOf(c)
  BY <1>1 DEF Fits, Begun, Early, IInv, World, ProbeName, ProbeOf
<1>3. n \in Names \ {Base} /\ m # Foreign /\ Made(c, m, Bound)
  <2>1. n = Probe(c.base) /\ m = Derived(Bound, c.ctx) /\ Bound <= Bound
    BY <1>2 DEF ProbeName, Bound, Bases
  <2> QED
    BY <1>2, <2>1, NamesApart DEF Made
<1>4. CASE UNCHANGED models /\ Goto(p, "release")
  BY <1>1, <1>4, RampGoes, GotoKeeps DEF OnlyDaemon, OnlyLocal
<1>5. ASSUME Created(n, c.ctx), NEW to \in {"r_identify", "release"}, Goto(p, to)
      PROVE  IInv'
  <2>1. models' = [models EXCEPT ![n] = m]
    BY <1>5 DEF Created
  <2>2. PICK d : Local(p, d) /\ d.pc = to /\ Alike(c, d)
    BY <1>1, <1>5, GotoLocal
  <2>4. Made(d, m, Bound) /\ ProbeOf(d) = n
    BY <1>2, <1>3, <2>2 DEF Made, Alike, ProbeOf
  <2> HIDE DEF m, n
  <2>3. Bound' = Bound /\ models'[n] = m
    BY <1>1, <1>3, <2>1, <2>2, ModelChanges
  <2>5. /\ Begun(d, d.pc) /\ AloneFits(d, d.pc) /\ BestFits(d, d.pc)
        /\ AdmissionFits(d, d.pc) /\ RanFits(d, d.pc)
    BY <1>1, <1>2, <2>2, <2>4
    DEF Alike, Fits, Begun, AloneFits, BestFits, AdmissionFits, RanFits,
       Early, Cleaning, OnRung, Making, Loading, Setting, Answering, Running, Undoing,
       AdmittedAt,
       Answered
  <2>6. ProbeFits(d, d.pc)'
    BY <2>2, <2>3, <2>4 DEF ProbeFits
  <2>7. ServedFits(d, d.pc)'
    BY <2>2 DEF ServedFits, Loading
  <2>8. ForeignFits(d, d.pc)'
    BY <1>1, <1>3, <2>2, <2>3, <2>4 DEF Fits, ForeignFits, Alike
  <2> QED
    BY <1>1, <1>3, <2>1, <2>2, <2>5, <2>6, <2>7, <2>8, ModelKeeps
<1> QED
  BY <1>4, <1>5 DEF CreateProbe

LEMMA IdentifyProbeKeeps ==
    ASSUME NEW p \in Procs, IInv, IdentifyProbe(p)
    PROVE  IInv'
<1> DEFINE c == l[p]
           m == models[ProbeName(p)]
<1>1. At(p, "r_identify") /\ OnlyLocal /\ lock = p /\ Fits(c, "r_identify")
  BY DEF IdentifyProbe, IInv, HoldsLock, At, UnderLock, OnRung, InPlace
<1>2. CASE m # None /\ Enter(p, [art |-> m], "r_row")
  <2>1. PICK d : Local(p, d) /\ Entered(p, [art |-> m], "r_row", d)
    BY <1>1, <1>2, EnterLocal
  <2> HIDE DEF m
  <2>2. /\ d.pc = "r_row" /\ d.base = c.base /\ d.inst = c.inst /\ d.ctx = c.ctx
        /\ d.best = c.best /\ d.owned = c.owned /\ d.after = c.after /\ d.art = m
    BY <2>1 DEF Entered, Idle
  <2>3. Made(c, m, Bound) /\ m # Foreign
    BY <1>1, <1>2 DEF m, Fits, ProbeFits, ForeignFits, ProbeName, ProbeOf, OnRung
  <2>4. Made(d, m, Bound)
    BY <2>2, <2>3 DEF Made
  <2>5. Fits(d, d.pc)
    BY <1>1, <2>2, <2>3, <2>4 DEF Fits, Begun, AloneFits, BestFits, ProbeFits, AdmissionFits,
       ServedFits, RanFits, ForeignFits, ProbeOf, Early, Cleaning, OnRung, Making, Loading,
       Setting, Answering, Running, Undoing, AdmittedAt, Answered
  <2> QED
    BY <1>1, <2>1, <2>5, LocalKeeps
<1>3. CASE Goto(p, "idle")
  BY <1>1, <1>3, MayEnd, GotoKeeps
<1> QED
  BY <1>2, <1>3 DEF IdentifyProbe

LEMMA RecordProbeKeeps ==
    ASSUME NEW p \in Procs, IInv, RecordProbe(p)
    PROVE  IInv'
<1>1. At(p, "r_row") /\ lock = p /\ Fits(l[p], "r_row")
  BY DEF RecordProbe, IInv, HoldsLock, At, UnderLock, OnRung, InPlace
<1>2. /\ UNCHANGED <<inst, models, resident, claims, evidence, measured, missed>>
      /\ Observed' = Observed
  BY DEF RecordProbe, History, Observed
<1>3. l[p].art # Foreign
  BY <1>1 DEF Fits, ForeignFits
<1>4. Stored'
  <2>1. \A r \in rows' : r.digest # Foreign
    BY <1>3 DEF RecordProbe, IInv, Stored
  <2> QED
    BY <1>2, <2>1 DEF IInv, Stored, EvidenceIsMeasured, ClaimsAreGoverned, Governed
<1>5. MayGo(p, "r_base2") /\ MayGo(p, "look")
  BY <1>1 DEF MayGo, Fits, Begun, AloneFits, BestFits, ProbeFits, AdmissionFits,
       ServedFits, RanFits, ForeignFits, ProbeOf, Early, Cleaning, OnRung, Making, Loading,
       Setting, Answering, Running, Undoing, AdmittedAt, Answered
<1>6. PICK d : Local(p, d) /\ Fits(d, d.pc)
  BY <1>5, GotoQuiet DEF RecordProbe
<1>7. World'
  BY <1>2, <1>6, LocalFits DEF IInv, World, Bound
<1> QED
  BY <1>2, <1>4, <1>6, <1>7, QuietKeeps DEF Shared

LEMMA GenerateProbeKeeps ==
    ASSUME NEW p \in Procs, IInv, GenerateProbe(p)
    PROVE  IInv'
<1> DEFINE c == l[p]
           n == ProbeName(p)
<1>1. /\ At(p, "r_generate") /\ OnlyDaemon /\ UNCHANGED models /\ lock = p
      /\ Fits(c, "r_generate")
  BY DEF GenerateProbe, IInv, HoldsLock, At, UnderLock, OnRung, InPlace
<1>2. c.ctx \in Nat /\ n = ProbeOf(c) /\ Alone(n) /\ \A r \in resident : r.ctx \in Nat
  BY <1>1 DEF Fits, Begun, AloneFits, OnRung, ProbeName, ProbeOf, IInv, World
<1>3. ASSUME NEW r, Answers(n, c.ctx, r), Goto(p, "r_auth2")
      PROVE  IInv'
  <2>1. PICK d : Local(p, d) /\ d.pc = "r_auth2" /\ Alike(c, d)
    BY <1>1, <1>3, GotoLocal
  <2>2. \A q \in resident' : (q \in resident \/ q.name = n) /\ q.ctx \in Nat
    BY <1>2, <1>3, WhoAnswers
  <2>3. Fits(c, "r_auth2")
    BY <1>1 DEF Fits, Begun, AloneFits, BestFits, ProbeFits, AdmissionFits,
       ServedFits, RanFits, ForeignFits, Early, Cleaning, OnRung, Making, Loading,
       Setting, Answering, Running, Undoing, AdmittedAt, Answered
  <2>4. Fits(d, d.pc)
    BY <2>1, <2>3, AlikeFits
  <2>5. ProbeOf(d) = n
    BY <1>2, <2>1 DEF Alike, ProbeOf
  <2> HIDE DEF n
  <2>6. AloneFits(d, d.pc)'
    BY <1>2, <2>1, <2>2, <2>5 DEF AloneFits, Alone, Making, Loading
  <2> QED
    BY <1>1, <2>1, <2>2, <2>4, <2>6, ResidentKeeps
<1>4. ASSUME Unanswered, NEW a \in {"abort", "release"}, Enter(p, [after |-> a], "look")
      PROVE  IInv'
  <2>1. PICK d : Local(p, d) /\ Entered(p, [after |-> a], "look", d)
    BY <1>1, <1>4, EnterLocal
  <2>2. /\ d.pc = "look" /\ d.base = c.base /\ d.inst = c.inst /\ d.ctx = c.ctx
        /\ d.best = c.best /\ d.owned = c.owned /\ d.after = a /\ d.art = c.art
    BY <2>1 DEF Entered, Idle
  <2>3. resident' \subseteq resident
    BY <1>4 DEF Unanswered
  <2>4. Fits(d, d.pc)
    BY <1>1, <2>2 DEF Fits, Begun, AloneFits, BestFits, ProbeFits, AdmissionFits,
       ServedFits, RanFits, ForeignFits, ProbeOf, Early, Cleaning, OnRung, Making, Loading,
       Setting, Answering, Running, Undoing, AdmittedAt, Answered
  <2>5. AloneFits(d, d.pc)'
    BY <1>4, <2>2 DEF AloneFits, OnRung, Making, Loading
  <2> QED
    BY <1>1, <1>2, <2>1, <2>2, <2>3, <2>4, <2>5, ResidentKeeps
<1> QED
  BY <1>3, <1>4 DEF GenerateProbe

LEMMA SeeProbeKeeps ==
    ASSUME NEW p \in Procs, IInv, SeeProbe(p)
    PROVE  IInv'
<1>1. At(p, "r_ps") /\ OnlyLocal /\ lock = p
  BY DEF SeeProbe, IInv, HoldsLock, At, UnderLock, OnRung
<1>2. CASE Admissible({Runner(ProbeName(p), l[p].art, l[p].ctx)}, TRUE) /\ Goto(p, "r_wall")
  BY <1>1, <1>2, RampGoes, GotoKeeps DEF Admissible
<1>3. CASE Enter(p, [after |-> "release"], "look")
  <2> DEFINE fields == [after |-> "release"]
  <2>1. Enter(p, fields, "look") /\ DOMAIN fields = {"after"} /\ fields["after"] = "release"
    BY <1>3
  <2> HIDE DEF fields
  <2> QED
    BY <1>1, <2>1, LookKeeps DEF At, OnRung
<1>4. CASE Goto(p, "look")
  BY <1>1, <1>4, RampGoes, GotoKeeps DEF At, OnRung
<1> QED
  BY <1>1, <1>2, <1>3, <1>4 DEF SeeProbe

LEMMA ReadWallsKeeps ==
    ASSUME NEW p \in Procs, IInv, ReadWalls(p)
    PROVE  IInv'
<1> DEFINE c == l[p]
           seen == {[inst |-> inst, of |-> r.digest.of, ctx |-> r.ctx] : r \in resident}
<1>1. /\ At(p, "r_wall") /\ lock = p /\ Fits(c, "r_wall")
      /\ UNCHANGED <<inst, models, resident, claims, rows, evidence, missed, cut>>
  BY DEF ReadWalls, IInv, HoldsLock, At, UnderLock, OnRung, InPlace
<1>2. CASE Enter(p, [best |-> c.ctx, after |-> "rung"], "look") /\ measured' = measured \cup seen
  <2>1. PICK d : Local(p, d) /\ Entered(p, [best |-> c.ctx, after |-> "rung"], "look", d)
    BY <1>1, <1>2, EnterLocal
  <2>2. /\ d.pc = "look" /\ d.base = c.base /\ d.inst = c.inst /\ d.ctx = c.ctx
        /\ d.best = c.ctx /\ d.owned = c.owned /\ d.after = "rung" /\ d.art = c.art
    BY <2>1 DEF Entered, Idle
  <2>3. \A m \in seen : m.ctx \in Nat
    BY DEF IInv, World
  <2>14. Observed' = Observed \cup seen
    BY <1>1, <1>2 DEF Observed
  <2>4. inst = c.inst => [inst |-> c.inst, of |-> c.base, ctx |-> c.ctx] \in seen \cup missed
    <3>1. SUFFICES ASSUME inst = c.inst,
                          [inst |-> c.inst, of |-> c.base, ctx |-> c.ctx] \notin missed
                   PROVE  [inst |-> c.inst, of |-> c.base, ctx |-> c.ctx] \in seen
      OBVIOUS
    <3> DEFINE r == Runner(ProbeOf(c), c.art, c.ctx)
    <3>2. r \in resident /\ c.art = Derived(c.base, c.ctx)
      BY <1>1, <3>1 DEF Fits, ProbeFits, InSight, Exact
    <3>3. r.digest.of = c.base /\ r.ctx = c.ctx
      BY <3>2 DEF Runner, Derived
    <3> HIDE DEF r
    <3> QED
      BY <3>1, <3>2, <3>3
  <2> HIDE DEF seen
  <2>5. World'
    BY <1>1, <2>14, <2>1, <2>3, LocalFits DEF IInv, World, Bound
  <2>6. Stored'
    BY <1>1, <2>14, StoredKeeps DEF IInv
  <2>7. Bound' = Bound /\ Bound \in Nat /\ inst \in Nat
    BY <1>1 DEF IInv, World, Bases, Insts, Bound
  <2>8. \A q \in Procs \ {p} : Env(q)
    BY <1>1, <2>14, <2>7 DEF Env, Noted
  <2>9. BestFits(d, "look")'
    BY <1>1, <2>14, <2>2, <2>4 DEF BestFits, Observed
  <2>10. Begun(d, "look")'
    BY <1>1, <2>2, <2>7 DEF Fits, Begun, Early, Undoing, Setting, Making, Loading, Running,
       Answering, OnRung, Cleaning
  <2>11. AloneFits(d, "look")'
    BY <1>1, <2>2 DEF Fits, AloneFits, Alone, OnRung, Making, Loading, ProbeOf
  <2>12. /\ ProbeFits(d, "look")' /\ AdmissionFits(d, "look")' /\ ServedFits(d, "look")'
         /\ RanFits(d, "look")'
    BY DEF ProbeFits, AdmissionFits, ServedFits, RanFits, AdmittedAt, Answered, Setting,
        Making,
       Loading, Running, Answering
  <2>13. ForeignFits(d, "look")'
    BY <1>1, <2>2 DEF Fits, ForeignFits, OnRung, Cleaning
  <2> QED
    BY <2>1, <2>2, <2>5, <2>6, <2>8, <2>9, <2>10, <2>11, <2>12, <2>13, StepKeeps DEF Fits
<1>3. ASSUME NEW a \in {"abort", "release"}, Enter(p, [after |-> a], "look"), UNCHANGED measured
      PROVE  IInv'
  <2> DEFINE fields == [after |-> a]
  <2>1. Enter(p, fields, "look") /\ DOMAIN fields = {"after"} /\ fields["after"] = a
    BY <1>3
  <2>2. OnlyLocal
    BY <1>1, <1>3 DEF OnlyLocal, Durable, History, ReadWalls
  <2> HIDE DEF fields
  <2> QED
    BY <1>1, <1>3, <2>1, <2>2, LookKeeps DEF At, OnRung
<1> QED
  BY <1>2, <1>3 DEF ReadWalls

LEMMA ReleaseKeeps ==
    ASSUME NEW p \in Procs, IInv, ReleaseAfterRamp(p)
    PROVE  IInv'
<1>1. "c_base" \notin UnderLock
  BY DEF UnderLock, OnRung, Cleaning, Setting, Making, Loading, Running, Answering
<1> QED
  BY <1>1, RampGoes, MoveKeeps DEF ReleaseAfterRamp

LEMMA SaveCeilingKeeps ==
    ASSUME NEW p \in Procs, IInv, SaveCeiling(p)
    PROVE  IInv'
<1> DEFINE c == l[p]
           k == <<c.base, c.inst>>
           saved == [safe |-> c.best, probe |-> c.art]
<1>1. /\ UNCHANGED <<inst, models, resident, claims, rows, measured, missed>>
      /\ Observed' = Observed /\ evidence' = [evidence EXCEPT ![k] = saved]
      /\ Goto(p, "idle") /\ Fits(c, "c_save")
  BY DEF SaveCeiling, History, Observed, IInv, InPlace, At
<1>2. k \in Bases \X Insts /\ c.best \in Nat /\ c.art # Foreign
  BY <1>1 DEF Fits, Begun, ForeignFits, Early
<1>3. c.best = 0 \/ [inst |-> c.inst, of |-> c.base, ctx |-> c.best] \in Observed
  BY <1>1 DEF Fits, BestFits
<1>4. /\ DOMAIN evidence = Bases \X Insts /\ DOMAIN evidence' = Bases \X Insts
      /\ evidence'[k] = saved
      /\ \A j \in (Bases \X Insts) \ {k} : evidence'[j] = evidence[j]
  BY <1>1, <1>2 DEF IInv, World
<1>5. Local(p, Idle)
  BY <1>1, EndLocal
<1>6. World'
  BY <1>1, <1>4, <1>5, LocalFits DEF IInv, World, Bound
<1>7. saved.safe = c.best /\ saved.probe = c.art
  OBVIOUS
<1> HIDE DEF saved
<1>8. \A j \in Bases \X Insts :
          evidence'[j] # None => evidence'[j].safe \in Nat /\ evidence'[j].probe # Foreign
  BY <1>2, <1>4, <1>7 DEF IInv, Stored
<1>9. EvidenceIsMeasured'
  <2> SUFFICES ASSUME NEW d \in Bases, NEW i \in Insts, evidence'[<<d, i>>] # None
               PROVE  \/ evidence'[<<d, i>>].safe = 0
                      \/ [inst |-> i, of |-> d, ctx |-> evidence'[<<d, i>>].safe] \in Observed
    BY <1>1 DEF EvidenceIsMeasured
  <2>1. CASE <<d, i>> = k
    BY <2>1, <1>3, <1>4, <1>7
  <2>2. CASE <<d, i>> # k
    <3>1. evidence'[<<d, i>>] = evidence[<<d, i>>]
      BY <2>2, <1>4
    <3> QED
      BY <3>1 DEF IInv, Stored, EvidenceIsMeasured
  <2> QED BY <2>1, <2>2
<1>10. Stored'
  BY <1>1, <1>8, <1>9 DEF IInv, Stored, ClaimsAreGoverned, Governed
<1> QED
  BY <1>1, <1>5, <1>6, <1>10, IdleFits, QuietKeeps DEF Shared

-----------------------------------------------------------------------------
(* The probe's clean-up. *)

LEMMA CleaningUp ==
    ASSUME NEW p \in Procs, IInv, l[p].pc \in Cleaning
    PROVE  lock = p /\ Fits(l[p], l[p].pc)
BY DEF IInv, HoldsLock, UnderLock, InPlace

\* Where a clean-up goes: nothing but the place and `after' change.
LEMMA CleaningFits ==
    ASSUME NEW p \in Procs, IInv, NEW d, l[p].pc \in Cleaning,
           d.pc \in Cleaning, d.base = l[p].base, d.inst = l[p].inst, d.ctx = l[p].ctx,
           d.best = l[p].best, d.owned = l[p].owned, d.art = l[p].art,
           d.after \in {l[p].after, "idle"},
           d.pc = "look" \/ models[ProbeOf(l[p])] # Foreign
    PROVE  Fits(d, d.pc)
<1> DEFINE c == l[p]
<1>1. Fits(c, c.pc)
  BY CleaningUp
<1> USE <1>1 DEF Cleaning, Fits
<1>2. Begun(d, d.pc)
  BY DEF Begun, Early, OnRung, Making, Loading, Setting, Answering, Running, Undoing
<1>3. AloneFits(d, d.pc)
  BY DEF AloneFits, Alone, ProbeOf, OnRung, Making, Loading
<1>4. BestFits(d, d.pc)
  BY DEF BestFits
<1>5. ProbeFits(d, d.pc) /\ ServedFits(d, d.pc)
  BY DEF ProbeFits, ServedFits, Making, Loading
<1>6. AdmissionFits(d, d.pc) /\ RanFits(d, d.pc)
  BY DEF AdmissionFits, RanFits, AdmittedAt, Answered, Answering, Setting, Making, Loading,
     Running
<1>7. ForeignFits(d, d.pc)
  BY DEF ForeignFits, ProbeOf, OnRung
<1> QED
  BY <1>2, <1>3, <1>4, <1>5, <1>6, <1>7

LEMMA RefusedLocal ==
    ASSUME NEW p \in Procs, IInv, l[p].pc \in Cleaning, CleanupRefused(p)
    PROVE  \E d : /\ Local(p, d) /\ Fits(d, d.pc)
                  /\ d.pc = "idle" \/ (d.pc = "look" /\ d.after = "idle")
<1> DEFINE c == l[p]
<1>1. CASE c.after \in {"idle", "c_ps"}
  <2>1. Goto(p, "idle") /\ Idle.pc = "idle"
    BY <1>1 DEF CleanupRefused, Idle
  <2> QED
    BY <2>1, EndLocal, IdleFits
<1>2. CASE c.after \notin {"idle", "c_ps"}
  <2>1. PICK d : Local(p, d) /\ Entered(p, [after |-> "idle"], "look", d)
    BY <1>2, CleaningUp, EnterLocal DEF CleanupRefused
  <2>2. /\ d.pc = "look" /\ d.base = c.base /\ d.inst = c.inst /\ d.ctx = c.ctx
        /\ d.best = c.best /\ d.owned = c.owned /\ d.after = "idle" /\ d.art = c.art
    BY <2>1 DEF Entered, Idle
  <2>3. Fits(d, d.pc)
    BY <2>2, CleaningFits DEF Cleaning
  <2> QED
    BY <2>1, <2>2, <2>3
<1> QED
  BY <1>1, <1>2

LEMMA RefusedKeeps ==
    ASSUME NEW p \in Procs, IInv, l[p].pc \in Cleaning, CleanupRefused(p), OnlyLocal
    PROVE  IInv'
BY RefusedLocal, LocalKeeps

LEMMA CleaningGoes ==
    ASSUME NEW p \in Procs, IInv
    PROVE  /\ At(p, "look") /\ IsMine(p, ProbeName(p)) => MayGo(p, "look2")
           /\ At(p, "look2") => MayGo(p, "delete") /\ MayGo(p, "expire")
           /\ At(p, "expire") => MayGo(p, "verify")
           /\ At(p, "verify") => MayGo(p, "delete")
           /\ At(p, "delete") => MayGo(p, "delete2")
<1>1. Fits(l[p], l[p].pc) /\ (l[p].pc \in UnderLock => lock = p)
  BY DEF IInv, InPlace, HoldsLock
<1>2. ProbeName(p) = ProbeOf(l[p])
  BY DEF ProbeName, ProbeOf
<1>3. ASSUME l[p].pc \in Cleaning, NEW at \in Cleaning,
             at = "look" \/ models[ProbeOf(l[p])] # Foreign
      PROVE  MayGo(p, at)
  <2>1. /\ Fits(l[p], l[p].pc) /\ lock = p
        /\ l[p].pc \notin Early \cup OnRung
    BY <1>1, <1>3 DEF UnderLock, Early, OnRung, Cleaning
  <2>2. Begun(l[p], at) /\ AloneFits(l[p], at) /\ BestFits(l[p], at)
    BY <1>3, <2>1 DEF Fits, Begun, AloneFits, BestFits, Early, Cleaning, OnRung, Making,
       Loading, Setting, Answering, Running, Undoing
  <2>3. /\ ProbeFits(l[p], at) /\ ServedFits(l[p], at)
        /\ AdmissionFits(l[p], at) /\ RanFits(l[p], at)
    BY <1>3 DEF ProbeFits, ServedFits, AdmissionFits, RanFits, AdmittedAt, Answered,
       Answering, Cleaning, Making, Loading, Setting, Running
  <2>4. ForeignFits(l[p], at)
    BY <1>3, <2>1 DEF Fits, ForeignFits, Cleaning, OnRung
  <2> QED
    BY <2>1, <2>2, <2>3, <2>4 DEF MayGo, Fits
<1>4. At(p, "look") /\ IsMine(p, ProbeName(p)) => models[ProbeOf(l[p])] # Foreign
  BY <1>1, <1>2 DEF At, IsMine, Fits, ForeignFits
<1>5. l[p].pc \in Cleaning \ {"look"} => models[ProbeOf(l[p])] # Foreign
  BY <1>1 DEF Fits, ForeignFits
<1> QED
  BY <1>3, <1>4, <1>5 DEF At, Cleaning

LEMMA CleanupKeeps ==
    ASSUME NEW p \in Procs, IInv, Cleanup(p)
    PROVE  IInv'
<1> USE CleaningGoes, GotoKeeps, RefusedKeeps DEF CleanupStep, At, Cleaning
<1>1. CASE CleanupStep(p, "look", IsMine(p, ProbeName(p)), "look2")
  BY <1>1
<1>2. CASE CleanupStep(p, "look2", NamedProbe(p) = {}, "delete")
  BY <1>2
<1>3. CASE CleanupStep(p, "look2",
               \E r \in NamedProbe(p) : resident = {r} /\ r.digest = l[p].art, "expire")
  BY <1>3
<1>4. CASE CleanupStep(p, "verify", NamedProbe(p) = {}, "delete")
  BY <1>4
<1>5. CASE CleanupStep(p, "delete", IsMine(p, ProbeName(p)), "delete2")
  BY <1>5
<1> QED BY <1>1, <1>2, <1>3, <1>4, <1>5 DEF Cleanup

LEMMA ExpireProbeKeeps ==
    ASSUME NEW p \in Procs, IInv, ExpireProbe(p)
    PROVE  IInv'
<1>1. /\ At(p, "expire") /\ OnlyDaemon /\ UNCHANGED models /\ l[p].pc \in Cleaning
      /\ lock = p /\ Fits(l[p], "expire")
  BY CleaningUp DEF ExpireProbe, Cleaning, At
<1>2. \A r \in resident : r.ctx \in Nat
  BY DEF IInv, World
<1>3. CASE /\ resident' = {r \in resident : r.digest.of # models[ProbeName(p)].of}
           /\ Goto(p, "verify")
  <2>1. PICK d : Local(p, d) /\ d.pc = "verify" /\ Alike(l[p], d)
    BY <1>1, <1>3, GotoLocal
  <2>2. Fits(d, d.pc)
    BY <1>1, <2>1, CleaningGoes, AlikeFits DEF MayGo
  <2>3. resident' \subseteq resident
    BY <1>3
  <2>4. AloneFits(d, d.pc)'
    BY <2>1, <2>2, <2>3 DEF Fits, AloneFits, Alone
  <2> QED
    BY <1>1, <1>2, <2>1, <2>2, <2>3, <2>4, ResidentKeeps
<1>4. CASE CleanupRefused(p) /\ UNCHANGED resident
  BY <1>1, <1>4, RefusedKeeps DEF OnlyDaemon, OnlyLocal
<1> QED
  BY <1>3, <1>4 DEF ExpireProbe

LEMMA DeleteProbeKeeps ==
    ASSUME NEW p \in Procs, IInv, DeleteProbe(p)
    PROVE  IInv'
<1> DEFINE c == l[p]
           n == ProbeName(p)
<1>1. /\ At(p, "delete2") /\ OnlyDaemon /\ UNCHANGED resident /\ c.pc \in Cleaning
      /\ lock = p /\ Fits(c, "delete2")
  BY CleaningUp DEF DeleteProbe, Cleaning, At
<1>2. c.base \in Bases /\ n = ProbeOf(c) /\ n \in Names \ {Base} /\ None # Foreign
  BY <1>1, NamesApart, OllamaAssumption
  DEF Fits, Begun, Early, ProbeName, ProbeOf, Foreign
<1>3. CASE CleanupRefused(p) /\ UNCHANGED models
  BY <1>1, <1>3, RefusedKeeps DEF OnlyDaemon, OnlyLocal
<1>4. ASSUME models' = [models EXCEPT ![n] = None], NEW d, Local(p, d),
             \/ d = Idle
             \/ /\ d.pc \in {"c_ps", "rung", "release"} /\ d.pc = c.after
                /\ d.base = c.base /\ d.inst = c.inst /\ d.ctx = c.ctx /\ d.best = c.best
                /\ d.owned = c.owned /\ d.art \in {None, c.art}
      PROVE  IInv'
  <2>1. models'[n] = None
    BY <1>1, <1>2, <1>4, ModelChanges
  <2>2. CASE d = Idle
    BY <1>1, <1>2, <1>4, <2>2, IdleFits, ModelKeeps DEF Fits
  <2>3. CASE d # Idle
    <3>1. ProbeOf(d) = n
      BY <1>2, <1>4, <2>3 DEF ProbeOf
    <3> HIDE DEF n
    <3>2. /\ Begun(d, d.pc) /\ AloneFits(d, d.pc) /\ BestFits(d, d.pc)
          /\ AdmissionFits(d, d.pc) /\ RanFits(d, d.pc)
      BY <1>1, <1>2, <1>4, <2>3, <3>1
      DEF Fits, Begun, AloneFits, BestFits, AdmissionFits, RanFits,
         Early, Cleaning, OnRung, Making, Loading, Setting, Answering, Running, Undoing,
         AdmittedAt,
         Answered
    <3>3. ProbeFits(d, d.pc)' /\ ServedFits(d, d.pc)'
      BY <1>4, <2>3 DEF ProbeFits, ServedFits, Loading
    <3>4. ForeignFits(d, d.pc)'
      BY <1>1, <1>2, <1>4, <2>1, <2>3, <3>1 DEF Fits, ForeignFits, OnRung, Cleaning
    <3> QED
      BY <1>1, <1>2, <1>4, <3>2, <3>3, <3>4, ModelKeeps
  <2> QED BY <2>2, <2>3
<1>5. ASSUME models' = [models EXCEPT ![n] = None], Goto(p, "idle")
      PROVE  IInv'
  BY <1>4, <1>5, EndLocal
<1>6. ASSUME models' = [models EXCEPT ![n] = None], c.after = "c_ps",
             Enter(p, [art |-> None], "c_ps")
      PROVE  IInv'
  <2>1. PICK d : Local(p, d) /\ Entered(p, [art |-> None], "c_ps", d)
    BY <1>1, <1>6, EnterLocal
  <2>2. /\ d.pc = "c_ps" /\ d.base = c.base /\ d.inst = c.inst /\ d.ctx = c.ctx
        /\ d.best = c.best /\ d.owned = c.owned /\ d.art = None
    BY <2>1 DEF Entered, Idle
  <2> QED
    BY <1>4, <1>6, <2>1, <2>2
<1>7. ASSUME models' = [models EXCEPT ![n] = None], c.after \in {"rung", "release"},
             Goto(p, c.after)
      PROVE  IInv'
  <2>1. PICK d : Local(p, d) /\ d.pc = c.after /\ Alike(c, d)
    BY <1>1, <1>7, GotoLocal
  <2> QED
    BY <1>4, <1>7, <2>1 DEF Alike
<1>8. c.after \in {"abort", "c_ps", "rung", "release", "idle"}
  BY <1>1 DEF Fits, Begun, Cleaning
<1> QED
  BY <1>3, <1>5, <1>6, <1>7, <1>8 DEF DeleteProbe

LEMMA CharacterizeKeeps ==
    ASSUME NEW p \in Procs, IInv, Characterize(p)
    PROVE  IInv'
BY ListKeeps, CLockKeeps, RecheckKeeps, GatesKeep, NextRungKeeps, CreateProbeKeeps,
   IdentifyProbeKeeps, RecordProbeKeeps, GenerateProbeKeeps, SeeProbeKeeps, ReadWallsKeeps,
   CleanupKeeps, ExpireProbeKeeps, DeleteProbeKeeps, ReleaseKeeps, SaveCeilingKeeps
DEF Characterize

-----------------------------------------------------------------------------
(* serve. *)

LEMMA StartKeeps ==
    ASSUME NEW p \in Procs, IInv, Start(p)
    PROVE  IInv'
<1> DEFINE c == l[p]
<1>1. PICK at \in {"c_list", "s_list", "u_list"} : Enter(p, [inst |-> inst], at)
  BY DEF Start
<1>2. PICK d : Local(p, d) /\ Entered(p, [inst |-> inst], at, d)
  BY <1>1, EnterLocal
  DEF UnderLock, OnRung, Cleaning, Setting, Making, Loading, Running, Answering
<1>3. /\ d.pc = at /\ d.base = c.base /\ d.inst = inst /\ d.ctx = c.ctx /\ d.best = c.best
      /\ d.art = c.art /\ d.owned = c.owned
  BY <1>2 DEF Entered, Idle
<1>4. /\ Fits(c, "idle") /\ Observed' = Observed
      /\ UNCHANGED <<inst, models, resident, claims, rows, evidence, measured, missed>>
  BY DEF Start, IInv, InPlace, At, Durable, History, Observed
<1>5. inst \in Insts /\ inst <= inst
  BY DEF IInv, World, Insts
<1>6. Fits(d, d.pc)
  BY <1>3, <1>4, <1>5
  DEF Fits, Begun, AloneFits, BestFits, ProbeFits, AdmissionFits, ServedFits,
     RanFits, ForeignFits, Early, Cleaning, OnRung, Making, Loading, Setting, Answering,
     Running, Undoing, AdmittedAt, Answered
<1>7. World' /\ Stored'
  BY <1>2, <1>4, LocalFits, StoredKeeps DEF IInv, World, Bound
<1> QED
  BY <1>2, <1>4, <1>6, <1>7, QuietKeeps DEF Shared

LEMMA ListForServeKeeps ==
    ASSUME NEW p \in Procs, IInv, ListForServe(p)
    PROVE  IInv'
<1> DEFINE c == l[p]
<1>1. At(p, "s_list") /\ OnlyLocal /\ Fits(c, "s_list")
  BY DEF ListForServe, IInv, InPlace, At
<1>2. PICK x, seen : /\ x \in Ctxs
                     /\ Enter(p, [base |-> Bound, ctx |-> x, seen |-> seen], "s_evidence")
  BY DEF ListForServe, Bound
<1>3. PICK d : /\ Local(p, d)
               /\ Entered(p, [base |-> Bound, ctx |-> x, seen |-> seen], "s_evidence", d)
  BY <1>2, EnterLocal
  DEF UnderLock, OnRung, Cleaning, Setting, Making, Loading, Running, Answering
<1>4. /\ d.pc = "s_evidence" /\ d.base = Bound /\ d.inst = c.inst /\ d.ctx = x
      /\ d.best = c.best /\ d.art = c.art /\ d.owned = c.owned
  BY <1>3 DEF Entered, Idle
<1>5. Bound \in Bases /\ Bound <= Bound /\ x \in Ctxs /\ x \in Nat
  BY <1>2 DEF IInv, World, Bases, Ctxs
<1>6. Fits(d, d.pc)
  BY <1>1, <1>4, <1>5
  DEF Fits, Begun, AloneFits, BestFits, ProbeFits, AdmissionFits, ServedFits,
     RanFits, ForeignFits, Early, Cleaning, OnRung, Making, Loading, Setting, Answering,
     Running, Undoing, AdmittedAt, Answered
<1> QED
  BY <1>1, <1>3, <1>6, LocalKeeps

\* What assess_characterization admits was measured.
LEMMA CeilingGoverns ==
    ASSUME NEW p \in Procs, IInv, WithinCeiling(p), l[p].pc \in {"s_evidence", "u_evidence"}
    PROVE  /\ Governed([inst |-> l[p].inst, of |-> l[p].base, ctx |-> l[p].ctx])
           /\ Row(p).probe # Foreign
<1> DEFINE c == l[p]
<1>1. Fits(c, c.pc)
  BY DEF IInv, InPlace
<1>2. c.base \in Bases /\ c.inst \in Insts /\ c.ctx \in Nat /\ c.ctx >= 1
  BY <1>1 DEF Fits, Begun, Ctxs, Early
<1>3. Row(p) = evidence[<<c.base, c.inst>>] /\ Row(p) # None /\ c.ctx <= Row(p).safe
  BY DEF WithinCeiling, Row
<1> DEFINE s == Row(p).safe
<1>4. s \in Nat /\ Row(p).probe # Foreign
  BY <1>2, <1>3 DEF IInv, Stored
<1>5. s = 0 \/ [inst |-> c.inst, of |-> c.base, ctx |-> s] \in Observed
  BY <1>2, <1>3 DEF IInv, Stored, EvidenceIsMeasured
<1> HIDE DEF s
<1>6. [inst |-> c.inst, of |-> c.base, ctx |-> s] \in Observed /\ c.ctx <= s
  BY <1>2, <1>3, <1>4, <1>5 DEF s
<1> QED
  BY <1>4, <1>6 DEF Governed

LEMMA ServeGoes ==
    ASSUME NEW p \in Procs, IInv
    PROVE  /\ At(p, "s_evidence") /\ WithinCeiling(p) => MayGo(p, "s_claims")
           /\ At(p, "s_claims") => MayGo(p, "s_lock")
           /\ At(p, "s_lock") => Fits(l[p], "s_ps")
           /\ At(p, "s_ps") /\ l[p].owned /\ (resident = {} \/ resident = {Handoff(p)})
                => MayGo(p, "s_check")
           /\ At(p, "s_ps") /\ resident = {} => MayGo(p, "s_recheck")
           /\ At(p, "s_recheck") /\ models[ServedName(p)] = None => MayGo(p, "s_create")
           /\ At(p, "s_base") /\ SameBase(p) => MayGo(p, "s_check")
           /\ At(p, "s_check") /\ IsMine(p, ServedName(p)) => MayGo(p, "s_load")
           /\ At(p, "s_load") => MayGo(p, "s_ps2")
           /\ At(p, "s_ps2") => MayGo(p, "s_v1")
           /\ At(p, "s_auth") /\ SameServer(p) => MayGo(p, "s_base2")
           /\ At(p, "s_base2") => MayGo(p, "s_check2")
           /\ At(p, "s_check2") => MayGo(p, "s_ps3")
           /\ At(p, "s_ps3") => MayGo(p, "s_record")
           /\ At(p, "s_record") => MayGo(p, "s_mark")
           /\ l[p].pc \in {"s_base", "s_record", "s_mark"} \cup Loading => MayGo(p, "undo")
           /\ At(p, "undo") /\ MayUndo(p) => MayGo(p, "undo2")
           /\ At(p, "undo2") => MayGo(p, "undo3")
<1> DEFINE c == l[p]
<1>1. Fits(c, c.pc) /\ (c.pc \in UnderLock => lock = p)
  BY DEF IInv, InPlace, HoldsLock
<1>2. None # Foreign /\ ServedName(p) = ServedOf(c)
  BY OllamaAssumption DEF Foreign, ServedName, ServedOf
<1>3. SameBase(p) /\ Made(c, c.art, Bound) /\ c.base \in Bases => Exact(c)
  BY DEF SameBase, BaseManifest, Bound, Made, Exact, Bases
<1>4. resident = {} \/ resident = {Handoff(p)} => Alone(ServedOf(c))
  BY <1>2 DEF Handoff, Runner, Alone
<1>5. inst \in Nat
  BY DEF IInv, World, Insts
<1>6. SameServer(p) => inst = c.inst
  BY DEF SameServer
<1>7. IsMine(p, ServedName(p)) => models[ServedOf(c)] = c.art
  BY <1>2 DEF IsMine
<1>8. MayUndo(p) => models[ServedOf(c)] = c.art
  BY <1>7 DEF MayUndo
<1> USE DEF At, MayGo, Fits, Begun, AloneFits, BestFits, ProbeFits, AdmissionFits, ServedFits,
        RanFits, ForeignFits, Early, Cleaning, OnRung, Making, Loading, Setting, Answering,
        Running, Undoing, AdmittedAt, Answered, UnderLock
<1>9. At(p, "s_evidence") /\ WithinCeiling(p) => MayGo(p, "s_claims")
  BY <1>1, CeilingGoverns
<1>10. /\ At(p, "s_claims") => MayGo(p, "s_lock")
       /\ At(p, "s_lock") => Fits(l[p], "s_ps")
  BY <1>1
<1>11. At(p, "s_ps") /\ l[p].owned /\ (resident = {} \/ resident = {Handoff(p)})
          => MayGo(p, "s_check")
  BY <1>1, <1>4
<1>12. At(p, "s_ps") /\ resident = {} => MayGo(p, "s_recheck")
  BY <1>1, <1>4
<1>13. At(p, "s_recheck") /\ models[ServedName(p)] = None => MayGo(p, "s_create")
  BY <1>1, <1>2
<1>14. At(p, "s_base") /\ SameBase(p) => MayGo(p, "s_check")
  BY <1>1, <1>3
<1>15. At(p, "s_check") /\ IsMine(p, ServedName(p)) => MayGo(p, "s_load")
  BY <1>1, <1>7
<1>16. /\ At(p, "s_load") => MayGo(p, "s_ps2")
       /\ At(p, "s_ps2") => MayGo(p, "s_v1")
  BY <1>1
<1>17. At(p, "s_auth") /\ SameServer(p) => MayGo(p, "s_base2")
  BY <1>1, <1>5, <1>6
<1>18. /\ At(p, "s_base2") => MayGo(p, "s_check2")
       /\ At(p, "s_check2") => MayGo(p, "s_ps3")
  BY <1>1
<1>19. /\ At(p, "s_ps3") => MayGo(p, "s_record")
       /\ At(p, "s_record") => MayGo(p, "s_mark")
  BY <1>1
<1>20. l[p].pc \in {"s_base", "s_record", "s_mark"} \cup Loading => MayGo(p, "undo")
  BY <1>1
<1>21. /\ At(p, "undo") /\ MayUndo(p) => MayGo(p, "undo2")
       /\ At(p, "undo2") => MayGo(p, "undo3")
  BY <1>1, <1>8
<1> HIDE DEF MayGo, Fits
<1> QED
  BY <1>9, <1>10, <1>11, <1>12, <1>13, <1>14, <1>15, <1>16, <1>17, <1>18, <1>19, <1>20, <1>21

LEMMA ServeGatesKeep ==
    ASSUME NEW p \in Procs, IInv,
           \/ Gate(p, "s_evidence", WithinCeiling(p), "s_claims", "idle")
           \/ l[p].owned /\ Gate(p, "s_ps", Admissible({Handoff(p)}, FALSE), "s_check", "idle")
           \/ ~l[p].owned /\ Gate(p, "s_ps", Admissible({}, FALSE), "s_recheck", "idle")
           \/ Gate(p, "s_recheck", models[ServedName(p)] = None, "s_create", "idle")
           \/ Gate(p, "s_base", SameBase(p), "s_check", "undo")
           \/ Gate(p, "s_check", IsMine(p, ServedName(p)), "s_load", "idle")
           \/ Gate(p, "s_ps2", Admissible({Handoff(p)}, TRUE), "s_v1", "undo")
           \/ Gate(p, "s_auth", SameServer(p), "s_base2", "undo")
           \/ Gate(p, "s_base2", SameBase(p), "s_check2", "undo")
           \/ Gate(p, "s_check2", IsMine(p, ServedName(p)), "s_ps3", "idle")
           \/ Gate(p, "s_ps3", Admissible({Handoff(p)}, TRUE), "s_record", "undo")
           \/ Gate(p, "s_mark", TRUE, "idle", "idle")
           \/ Gate(p, "undo", MayUndo(p), "undo2", "idle")
           \/ Gate(p, "undo2", IsMine(p, ServedName(p)), "undo3", "idle")
    PROVE  IInv'
<1> USE ServeGoes, MayEnd, GotoKeeps DEF Gate
<1>1. CASE Gate(p, "s_evidence", WithinCeiling(p), "s_claims", "idle")
  BY <1>1
<1>2. CASE l[p].owned /\ Gate(p, "s_ps", Admissible({Handoff(p)}, FALSE), "s_check", "idle")
  BY <1>2 DEF Admissible
<1>3. CASE ~l[p].owned /\ Gate(p, "s_ps", Admissible({}, FALSE), "s_recheck", "idle")
  BY <1>3 DEF Admissible
<1>4. CASE Gate(p, "s_recheck", models[ServedName(p)] = None, "s_create", "idle")
  BY <1>4
<1>5. CASE Gate(p, "s_base", SameBase(p), "s_check", "undo")
  BY <1>5 DEF At
<1>6. CASE Gate(p, "s_check", IsMine(p, ServedName(p)), "s_load", "idle")
  BY <1>6
<1>7. CASE Gate(p, "s_ps2", Admissible({Handoff(p)}, TRUE), "s_v1", "undo")
  BY <1>7 DEF At, Loading
<1>8. CASE Gate(p, "s_auth", SameServer(p), "s_base2", "undo")
  BY <1>8 DEF At, Loading
<1>9. CASE Gate(p, "s_base2", SameBase(p), "s_check2", "undo")
  BY <1>9 DEF At, Loading
<1>10. CASE Gate(p, "s_check2", IsMine(p, ServedName(p)), "s_ps3", "idle")
  BY <1>10
<1>11. CASE Gate(p, "s_ps3", Admissible({Handoff(p)}, TRUE), "s_record", "undo")
  BY <1>11 DEF At, Loading
<1>12. CASE Gate(p, "s_mark", TRUE, "idle", "idle")
  BY <1>12
<1>13. CASE Gate(p, "undo", MayUndo(p), "undo2", "idle")
  BY <1>13
<1>14. CASE Gate(p, "undo2", IsMine(p, ServedName(p)), "undo3", "idle")
  BY <1>14
<1> QED
  BY <1>1, <1>2, <1>3, <1>4, <1>5, <1>6, <1>7, <1>8, <1>9, <1>10, <1>11, <1>12, <1>13, <1>14

LEMMA ReadClaimsKeeps ==
    ASSUME NEW p \in Procs, IInv, ReadClaims(p)
    PROVE  IInv'
<1> DEFINE c == l[p]
           claim == claims[ServedName(p)]
<1>1. At(p, "s_claims") /\ OnlyLocal /\ Fits(c, "s_claims")
  BY DEF ReadClaims, IInv, InPlace, At
<1>2. c.base \in Bases /\ c.ctx \in Ctxs /\ ServedName(p) \in ServedNames
  <2>1. c.base \in Bases /\ Governed([inst |-> c.inst, of |-> c.base, ctx |-> c.ctx])
    BY <1>1 DEF Fits, Begun, Early, AdmissionFits, AdmittedAt
  <2>2. c.ctx \in Ctxs
    BY <1>1 DEF Fits, Begun
  <2> QED
    BY <2>1, <2>2, NamesApart DEF ServedName
<1>3. CASE claim # None /\ Enter(p, [owned |-> TRUE, art |-> claim.served], "s_lock")
  <2>1. claim.served = Derived(c.base, c.ctx)
    BY <1>2, <1>3 DEF IInv, Stored, ClaimsAreGoverned, ServedName, Served
  <2> DEFINE m == claim.served
  <2>2. PICK d : Local(p, d) /\ Entered(p, [owned |-> TRUE, art |-> m], "s_lock", d)
    BY <1>3, EnterLocal
    DEF UnderLock, OnRung, Cleaning, Setting, Making, Loading, Running, Answering
  <2>3. m # Foreign
    BY <1>2, <2>1, NamesApart
  <2> HIDE DEF m
  <2>4. /\ d.pc = "s_lock" /\ d.base = c.base /\ d.inst = c.inst /\ d.ctx = c.ctx
        /\ d.best = c.best /\ d.art = m /\ d.owned = TRUE
    BY <2>2 DEF Entered, Idle
  <2>5. Fits(d, d.pc)
    BY <1>1, <2>1, <2>3, <2>4 DEF m, Fits, Begun, AloneFits, BestFits, ProbeFits, Exact,
       AdmissionFits, ServedFits, RanFits, ForeignFits, Early, Cleaning, OnRung, Making,
       Loading,
       Setting, Answering, Running, Undoing, AdmittedAt, Answered
  <2> QED
    BY <1>1, <2>2, <2>5, LocalKeeps
<1>4. CASE Goto(p, "s_lock")
  BY <1>1, <1>4, ServeGoes, GotoKeeps
<1>5. CASE Goto(p, "idle")
  BY <1>1, <1>5, MayEnd, GotoKeeps
<1> QED
  BY <1>3, <1>4, <1>5 DEF ReadClaims

LEMMA SLockKeeps ==
    ASSUME NEW p \in Procs, IInv, TryLock(p, "s_lock", "s_ps")
    PROVE  IInv'
<1>1. CASE lock = None /\ lock' = p /\ Move(p, "s_ps")
  BY <1>1, ServeGoes, MoveKeeps DEF TryLock
<1>2. CASE Goto(p, "idle")
  BY <1>2, GotoKeeps, MayEnd DEF TryLock
<1> QED
  BY <1>1, <1>2 DEF TryLock

LEMMA CreateServedKeeps ==
    ASSUME NEW p \in Procs, IInv, CreateServed(p)
    PROVE  IInv'
<1> DEFINE c == l[p]
           n == ServedName(p)
           m == Derived(models[Base].of, c.ctx)
<1>1. At(p, "s_create") /\ OnlyDaemon /\ UNCHANGED resident /\ lock = p /\ Fits(c, "s_create")
  BY DEF CreateServed, IInv, HoldsLock, At, UnderLock, Setting, Making, InPlace
<1>2. /\ c.base \in Bases /\ c.ctx \in Ctxs /\ Bound \in Bases /\ c.base <= Bound
      /\ n = ServedOf(c)
  BY <1>1 DEF Fits, Begun, Early, Setting, Making, IInv, World, ServedName, ServedOf
<1>3. n \in Names \ {Base} /\ m # Foreign /\ Made(c, m, Bound) /\ None # Foreign
  <2>1. n = Served(c.base, c.ctx) /\ m = Derived(Bound, c.ctx) /\ Bound <= Bound
    BY <1>2 DEF ServedName, Bound, Bases
  <2> QED
    BY <1>2, <2>1, NamesApart, OllamaAssumption DEF Made, Foreign
<1>4. CASE UNCHANGED models /\ Goto(p, "idle")
  BY <1>1, <1>4, MayEnd, GotoKeeps DEF OnlyDaemon, OnlyLocal
<1>5. ASSUME Created(n, c.ctx), Goto(p, "s_identify")
      PROVE  IInv'
  <2>1. models' = [models EXCEPT ![n] = m]
    BY <1>5 DEF Created
  <2>2. PICK d : Local(p, d) /\ d.pc = "s_identify" /\ Alike(c, d)
    BY <1>1, <1>5, GotoLocal
  <2>3. Made(d, m, Bound) /\ ServedOf(d) = n
    BY <1>2, <1>3, <2>2 DEF Made, Alike, ServedOf
  <2> HIDE DEF m, n
  <2>4. Bound' = Bound /\ models'[n] = m
    BY <1>1, <1>3, <2>1, <2>2, ModelChanges
  <2>5. /\ Begun(d, d.pc) /\ AloneFits(d, d.pc) /\ BestFits(d, d.pc)
        /\ AdmissionFits(d, d.pc) /\ RanFits(d, d.pc)
    BY <1>1, <1>2, <2>2, <2>3
    DEF Alike, Fits, Begun, AloneFits, BestFits, AdmissionFits, RanFits,
       Early, Cleaning, OnRung, Making, Loading, Setting, Answering, Running, Undoing,
       AdmittedAt,
       Answered
  <2>6. ServedFits(d, d.pc)'
    BY <2>2, <2>3, <2>4 DEF ServedFits, Loading
  <2>7. ProbeFits(d, d.pc)'
    BY <2>2 DEF ProbeFits
  <2>8. ForeignFits(d, d.pc)'
    BY <1>1, <2>2 DEF Fits, ForeignFits, Alike, OnRung, Cleaning
  <2> QED
    BY <1>1, <1>3, <2>1, <2>2, <2>5, <2>6, <2>7, <2>8, ModelKeeps
<1>6. ASSUME Created(n, c.ctx), Goto(p, "idle")
      PROVE  IInv'
  <2>1. models' = [models EXCEPT ![n] = m]
    BY <1>6 DEF Created
  <2> HIDE DEF m, n
  <2> QED
    BY <1>1, <1>3, <1>6, <2>1, EndLocal, IdleFits, ModelKeeps DEF Fits
<1> QED
  BY <1>4, <1>5, <1>6 DEF CreateServed

LEMMA IdentifyServedKeeps ==
    ASSUME NEW p \in Procs, IInv, IdentifyServed(p)
    PROVE  IInv'
<1> DEFINE c == l[p]
           m == models[ServedName(p)]
<1>1. At(p, "s_identify") /\ OnlyLocal /\ lock = p /\ Fits(c, "s_identify")
  BY DEF IdentifyServed, IInv, HoldsLock, At, UnderLock, Setting, Making, InPlace
<1>2. CASE m # None /\ Enter(p, [art |-> m], "s_base")
  <2>1. PICK d : Local(p, d) /\ Entered(p, [art |-> m], "s_base", d)
    BY <1>1, <1>2, EnterLocal
  <2> HIDE DEF m
  <2>2. /\ d.pc = "s_base" /\ d.base = c.base /\ d.inst = c.inst /\ d.ctx = c.ctx
        /\ d.best = c.best /\ d.owned = c.owned /\ d.art = m
    BY <2>1 DEF Entered, Idle
  <2>3. Made(c, m, Bound)
    BY <1>1, <1>2 DEF m, Fits, ServedFits, ServedName, ServedOf
  <2>4. Made(d, m, Bound)
    BY <2>2, <2>3 DEF Made
  <2>5. m # Foreign
    BY <2>3, NamesApart DEF Made
  <2>6. Fits(d, d.pc)
    BY <1>1, <2>2, <2>4, <2>5 DEF Fits, Begun, AloneFits, BestFits, ProbeFits, AdmissionFits,
       ServedFits, RanFits, ForeignFits, ServedOf, Early, Cleaning, OnRung, Making, Loading,
       Setting, Answering, Running, Undoing, AdmittedAt, Answered
  <2> QED
    BY <1>1, <2>1, <2>6, LocalKeeps
<1>3. CASE Goto(p, "idle")
  BY <1>1, <1>3, MayEnd, GotoKeeps
<1> QED
  BY <1>2, <1>3 DEF IdentifyServed

\* A request that leaves the command on the way to a model of its own.
LEMMA ServedLoaded ==
    ASSUME NEW p \in Procs, IInv, OnlyDaemon, UNCHANGED models, lock = p,
           NEW to, Goto(p, to), to # "idle", to # "r_wall", MayGo(p, to),
           \A r \in resident' : (r \in resident \/ r.name = ServedName(p)) /\ r.ctx \in Nat,
           to \notin {"rung"} \cup OnRung \cup Cleaning
    PROVE  IInv'
<1>1. PICK d : Local(p, d) /\ d.pc = to /\ Alike(l[p], d)
  BY GotoLocal
<1>2. Fits(d, d.pc)
  BY <1>1, AlikeFits DEF MayGo
<1>3. ServedOf(d) = ServedName(p)
  BY <1>1 DEF Alike, ServedOf, ServedName
<1>4. AloneFits(d, d.pc)'
  BY <1>1, <1>2, <1>3 DEF Fits, AloneFits, Alone
<1> QED
  BY <1>1, <1>2, <1>4, ResidentKeeps

LEMMA LoadServedKeeps ==
    ASSUME NEW p \in Procs, IInv, Ask(p, "s_load", ServedName(p), l[p].art.ctx, "s_ps2", "undo")
    PROVE  IInv'
<1> DEFINE c == l[p]
           n == ServedName(p)
<1>1. /\ At(p, "s_load") /\ OnlyDaemon /\ UNCHANGED models /\ lock = p
      /\ Fits(c, "s_load") /\ \A r \in resident : r.ctx \in Nat
  BY DEF Ask, IInv, HoldsLock, At, UnderLock, Setting, Loading, InPlace, World
<1>2. c.art.ctx = c.ctx /\ c.ctx \in Nat
  BY <1>1 DEF Fits, ServedFits, Begun, Loading, Exact, Derived
<1>3. /\ MayGo(p, "s_ps2") /\ MayGo(p, "undo")
      /\ \A to \in {"s_ps2", "undo"} : to \notin {"rung"} \cup OnRung \cup Cleaning
  BY <1>1, ServeGoes DEF At, Loading, OnRung, Cleaning
<1>4. ASSUME NEW r, Answers(n, c.art.ctx, r), Goto(p, "s_ps2")
      PROVE  IInv'
  <2>1. \A q \in resident' : (q \in resident \/ q.name = n) /\ q.ctx \in Nat
    BY <1>1, <1>2, <1>4, WhoAnswers
  <2> QED
    BY <1>1, <1>3, <1>4, <2>1, ServedLoaded
<1>5. ASSUME Unanswered, Goto(p, "undo")
      PROVE  IInv'
  <2>1. \A q \in resident' : (q \in resident \/ q.name = n) /\ q.ctx \in Nat
    BY <1>1, <1>5 DEF Unanswered
  <2> QED
    BY <1>1, <1>3, <1>5, <2>1, ServedLoaded
<1> QED
  BY <1>4, <1>5 DEF Ask

\* What is known of a completion when it has come.
LEMMA RanNow ==
    ASSUME NEW p \in Procs, IInv, NEW n, NEW r, Answers(n, l[p].ctx, r),
           l[p].pc \in {"s_v1", "u_generate"}, models[n].of \in l[p].base..Bound
    PROVE  LET ran == [inst |-> inst, of |-> r.digest.of, ctx |-> r.ctx]
           IN  /\ ran.inst \in Nat /\ l[p].inst <= ran.inst /\ ran.inst <= inst
               /\ ran.of \in Nat /\ l[p].base <= ran.of /\ ran.of <= Bound
               /\ ran.of = models[n].of
               /\ ran.ctx \in Nat /\ ran.ctx <= l[p].ctx
<1> DEFINE c == l[p]
<1>1. Fits(c, c.pc) /\ inst \in Nat /\ \A q \in resident : q.ctx \in Nat
  BY DEF IInv, InPlace, World, Insts
<1>2. c.ctx \in Nat /\ c.inst <= inst /\ c.base \in Nat
  BY <1>1 DEF Fits, Begun, Early, Bases
<1>3. r.digest.of = models[n].of /\ r.ctx \in Nat /\ r.ctx <= c.ctx
  BY <1>1, <1>2, WhoAnswers
<1> QED
  BY <1>1, <1>2, <1>3

LEMMA ProbeContractKeeps ==
    ASSUME NEW p \in Procs, IInv, ProbeContract(p)
    PROVE  IInv'
<1> DEFINE c == l[p]
           n == ServedName(p)
<1>1. /\ At(p, "s_v1") /\ OnlyDaemon /\ UNCHANGED models /\ lock = p
      /\ Fits(c, "s_v1") /\ \A r \in resident : r.ctx \in Nat
  BY DEF ProbeContract, IInv, HoldsLock, At, UnderLock, Setting, Loading, InPlace, World
<1>2. c.art = Derived(c.base, c.ctx) /\ c.art.ctx = c.ctx /\ c.art.of = c.base /\ c.ctx \in Nat
  BY <1>1 DEF Fits, ServedFits, Begun, Loading, Exact, Derived
<1>3. ASSUME NEW r, Answers(n, c.art.ctx, r),
             NEW ran, ran = [inst |-> inst, of |-> r.digest.of, ctx |-> r.ctx],
             Enter(p, [ran |-> ran], "s_auth")
      PROVE  IInv'
  <2>1. PICK d : Local(p, d) /\ Entered(p, [ran |-> ran], "s_auth", d)
    BY <1>1, <1>3, EnterLocal
  <2>2. /\ d.pc = "s_auth" /\ d.base = c.base /\ d.inst = c.inst /\ d.ctx = c.ctx
        /\ d.best = c.best /\ d.owned = c.owned /\ d.art = c.art /\ d.ran = ran
    BY <2>1 DEF Entered, Idle
  <2>3. \A q \in resident' : (q \in resident \/ q.name = n) /\ q.ctx \in Nat
    BY <1>1, <1>2, <1>3, WhoAnswers
  <2>4. models[n] = c.art /\ models[n].of = c.base
    BY <1>1, <1>2, <1>3, WhoAnswers DEF Fits, ServedFits, ServedName, ServedOf
  <2>5. c.base \in Nat /\ c.base \in c.base..Bound
    BY <1>1 DEF Fits, Begun, Early, Bases, IInv, World
  <2>6. /\ ran.inst \in Nat /\ c.inst <= ran.inst /\ ran.inst <= inst
        /\ ran.of \in Nat /\ c.base <= ran.of /\ ran.of <= Bound /\ ran.of = c.base
        /\ ran.ctx \in Nat /\ ran.ctx <= c.ctx
    BY <1>1, <1>2, <1>3, <2>4, <2>5, RanNow DEF At
  <2>7. Fits(d, d.pc)
    BY <1>1, <2>2, <2>6 DEF Fits, Begun, AloneFits, BestFits, ProbeFits, AdmissionFits,
       ServedFits, RanFits, Exact, ForeignFits, ServedOf, Early, Cleaning, OnRung, Making,
       Loading,
       Setting, Answering, Running, Undoing, AdmittedAt, Answered
  <2>8. ServedOf(d) = n
    BY <2>2 DEF ServedOf, ServedName
  <2> HIDE DEF n
  <2>9. AloneFits(d, d.pc)'
    BY <2>2, <2>3, <2>7, <2>8 DEF Fits, AloneFits, Alone, OnRung, Cleaning
  <2> QED
    BY <1>1, <2>1, <2>2, <2>3, <2>7, <2>9, ResidentKeeps
<1>4. ASSUME Unanswered, Goto(p, "undo")
      PROVE  IInv'
  <2>1. \A q \in resident' : (q \in resident \/ q.name = n) /\ q.ctx \in Nat
    BY <1>1, <1>4 DEF Unanswered
  <2>2. MayGo(p, "undo") /\ "undo" \notin {"rung"} \cup OnRung \cup Cleaning
    BY <1>1, ServeGoes DEF At, Loading, OnRung, Cleaning
  <2> QED
    BY <1>1, <1>4, <2>1, <2>2, ServedLoaded
<1> QED
  BY <1>3, <1>4 DEF ProbeContract

LEMMA RecordServingKeeps ==
    ASSUME NEW p \in Procs, IInv, RecordServing(p)
    PROVE  IInv'
<1> DEFINE c == l[p]
           n == ServedName(p)
           claim == [served |-> c.art, inst |-> c.inst]
<1>1. /\ At(p, "s_record") /\ Fits(c, "s_record")
      /\ UNCHANGED <<inst, models, resident, rows, evidence, measured, missed>>
      /\ Observed' = Observed
      /\ UNCHANGED claims \/ claims' = [claims EXCEPT ![n] = claim]
  BY DEF RecordServing, Observed, Claim, IInv, InPlace, At
<1>2. /\ c.base \in Bases /\ c.ctx \in Ctxs /\ c.art = Derived(c.base, c.ctx)
      /\ Governed([inst |-> c.inst, of |-> c.base, ctx |-> c.ctx])
  BY <1>1 DEF Fits, Begun, Early, Setting, ServedFits, Exact, AdmissionFits, AdmittedAt
<1>3. n \in ServedNames /\ n.of = c.base /\ n.ctx = c.ctx
  BY <1>2, NamesApart DEF ServedName, Served
<1>4. MayGo(p, "s_mark") /\ MayGo(p, "undo")
  BY <1>1, ServeGoes DEF At
<1>5. PICK d : Local(p, d) /\ Fits(d, d.pc)
  BY <1>4, GotoQuiet DEF RecordServing
<1>6. /\ DOMAIN claims' = ServedNames
      /\ \A k \in ServedNames : claims'[k] = claims[k] \/ (k = n /\ claims'[k] = claim)
  BY <1>1, <1>3 DEF IInv, World
<1>7. claim.served = c.art /\ claim.inst = c.inst
  OBVIOUS
<1> HIDE DEF n, claim
<1>8. World'
  BY <1>1, <1>5, <1>6, LocalFits DEF IInv, World, Bound
<1>9. ClaimsAreGoverned'
  <2> SUFFICES ASSUME NEW k \in ServedNames, claims'[k] # None
               PROVE  /\ claims'[k].served = Derived(k.of, k.ctx)
                      /\ Governed([inst |-> claims'[k].inst, of |-> k.of, ctx |-> k.ctx])
    BY <1>1 DEF ClaimsAreGoverned, Governed
  <2>1. CASE claims'[k] = claims[k]
    BY <2>1 DEF IInv, Stored, ClaimsAreGoverned
  <2>2. CASE k = n /\ claims'[k] = claim
    BY <2>2, <1>2, <1>3, <1>7
  <2> QED BY <2>1, <2>2, <1>6
<1>10. Stored'
  BY <1>1, <1>9 DEF IInv, Stored, EvidenceIsMeasured
<1> QED
  BY <1>1, <1>5, <1>8, <1>10, QuietKeeps DEF Shared

LEMMA DeleteServedKeeps ==
    ASSUME NEW p \in Procs, IInv, DeleteServed(p)
    PROVE  IInv'
<1> DEFINE c == l[p]
           n == ServedName(p)
<1>1. At(p, "undo3") /\ OnlyDaemon /\ UNCHANGED resident /\ Goto(p, "idle") /\ Fits(c, "undo3")
  BY DEF DeleteServed, IInv, InPlace, At
<1>2. n \in Names \ {Base} /\ None # Foreign
  BY <1>1, NamesApart, OllamaAssumption DEF Fits, Begun, Early, Undoing, ServedName, Foreign
<1> HIDE DEF n
<1>3. CASE models' = models
  BY <1>1, <1>3, MayEnd, GotoKeeps DEF OnlyDaemon, OnlyLocal
<1>4. CASE models' = [models EXCEPT ![n] = None]
  BY <1>1, <1>2, <1>4, EndLocal, IdleFits, ModelKeeps DEF Fits
<1> QED
  BY <1>3, <1>4 DEF DeleteServed, n

LEMMA InterruptServeKeeps ==
    ASSUME NEW p \in Procs, IInv, InterruptServe(p)
    PROVE  IInv'
<1>1. "undo" \notin UnderLock
  BY DEF UnderLock, OnRung, Cleaning, Setting, Making, Loading, Running, Answering
<1>2. l[p].pc \in {"s_base", "s_record", "s_mark"} \cup Loading
  BY DEF InterruptServe, Loading
<1>3. /\ Fits(l[p], "undo") /\ Move(p, "undo") /\ Unlock(p)
      /\ UNCHANGED Shared /\ UNCHANGED <<claims, rows, evidence>> /\ Observed' = Observed
  BY <1>2, ServeGoes DEF InterruptServe, MayGo, Shared, Observed
<1>4. PICK d : Local(p, d) /\ d.pc = "undo" /\ Alike(l[p], d)
  BY <1>1, <1>3, MoveLocal
<1>5. World'
  BY <1>3, <1>4, LocalFits DEF IInv, World, Bound, Shared
<1>6. Stored'
  BY <1>3, StoredKeeps DEF IInv
<1> QED
  BY <1>3, <1>4, <1>5, <1>6, AlikeFits, QuietKeeps

LEMMA ServeKeeps ==
    ASSUME NEW p \in Procs, IInv, Serve(p)
    PROVE  IInv'
BY ListForServeKeeps, ServeGatesKeep, ReadClaimsKeeps, SLockKeeps, CreateServedKeeps,
   IdentifyServedKeeps, LoadServedKeeps, ProbeContractKeeps, RecordServingKeeps,
   DeleteServedKeeps, InterruptServeKeeps
DEF Serve

-----------------------------------------------------------------------------
(* run. *)

LEMMA ListForRunKeeps ==
    ASSUME NEW p \in Procs, IInv, ListForRun(p)
    PROVE  IInv'
<1> DEFINE c == l[p]
<1>1. At(p, "u_list") /\ OnlyLocal /\ Fits(c, "u_list")
  BY DEF ListForRun, IInv, InPlace, At
<1>2. PICK x \in Ctxs : Enter(p, [base |-> Bound, ctx |-> x], "u_evidence")
  BY DEF ListForRun, Bound
<1>3. PICK d : Local(p, d) /\ Entered(p, [base |-> Bound, ctx |-> x], "u_evidence", d)
  BY <1>2, EnterLocal
  DEF UnderLock, OnRung, Cleaning, Setting, Making, Loading, Running, Answering
<1>4. /\ d.pc = "u_evidence" /\ d.base = Bound /\ d.inst = c.inst /\ d.ctx = x
      /\ d.best = c.best /\ d.art = c.art /\ d.owned = c.owned
  BY <1>3 DEF Entered, Idle
<1>5. Bound \in Bases /\ Bound <= Bound /\ x \in Nat
  BY DEF IInv, World, Bases, Ctxs
<1>6. Fits(d, d.pc)
  BY <1>1, <1>4, <1>5
  DEF Fits, Begun, AloneFits, BestFits, ProbeFits, AdmissionFits, ServedFits,
     RanFits, ForeignFits, Early, Cleaning, OnRung, Making, Loading, Setting, Answering,
     Running, Undoing, AdmittedAt, Answered
<1> QED
  BY <1>1, <1>3, <1>6, LocalKeeps

LEMMA ReadEvidenceKeeps ==
    ASSUME NEW p \in Procs, IInv, ReadEvidence(p)
    PROVE  IInv'
<1> DEFINE c == l[p]
           m == Row(p).probe
<1>1. At(p, "u_evidence") /\ OnlyLocal /\ Fits(c, "u_evidence")
  BY DEF ReadEvidence, IInv, InPlace, At
<1>2. CASE WithinCeiling(p) /\ Enter(p, [art |-> m], "u_lock")
  <2>1. Governed([inst |-> c.inst, of |-> c.base, ctx |-> c.ctx]) /\ m # Foreign
    BY <1>1, <1>2, CeilingGoverns DEF At
  <2>2. PICK d : Local(p, d) /\ Entered(p, [art |-> m], "u_lock", d)
    BY <1>2, EnterLocal
    DEF UnderLock, OnRung, Cleaning, Setting, Making, Loading, Running, Answering
  <2> HIDE DEF m
  <2>3. /\ d.pc = "u_lock" /\ d.base = c.base /\ d.inst = c.inst /\ d.ctx = c.ctx
        /\ d.best = c.best /\ d.owned = c.owned /\ d.art = m
    BY <2>2 DEF Entered, Idle
  <2>4. Fits(d, d.pc)
    BY <1>1, <2>1, <2>3 DEF Fits, Begun, AloneFits, BestFits, ProbeFits, AdmissionFits,
       ServedFits, RanFits, ForeignFits, Early, Cleaning, OnRung, Making, Loading, Setting,
       Answering, Running, Undoing, AdmittedAt, Answered
  <2> QED
    BY <1>1, <2>2, <2>4, LocalKeeps
<1>3. CASE Goto(p, "idle")
  BY <1>1, <1>3, MayEnd, GotoKeeps
<1> QED
  BY <1>2, <1>3 DEF ReadEvidence

LEMMA RunGoes ==
    ASSUME NEW p \in Procs, IInv
    PROVE  /\ At(p, "u_lock") => Fits(l[p], "u_auth")
           /\ At(p, "u_auth") => MayGo(p, "u_models")
           /\ At(p, "u_models") => MayGo(p, "u_ps")
           /\ At(p, "u_ps") => MayGo(p, "u_warm") /\ MayGo(p, "u_generate")
           /\ At(p, "u_warm") => MayGo(p, "u_auth2")
           /\ At(p, "u_auth2") => MayGo(p, "u_ps2")
           /\ At(p, "u_ps2") => MayGo(p, "u_generate")
           /\ At(p, "u_auth3") /\ SameServer(p) => MayGo(p, "u_models2")
           /\ At(p, "u_models2") /\ SameBase(p) => MayGo(p, "u_ps3")
           /\ At(p, "u_ps3") => MayGo(p, "u_show")
           /\ At(p, "u_show") => Fits(l[p], "shown")
<1> DEFINE c == l[p]
<1>1. Fits(c, c.pc) /\ (c.pc \in UnderLock => lock = p)
  BY DEF IInv, InPlace, HoldsLock
<1>2. inst \in Nat /\ Bound \in Nat
  BY DEF IInv, World, Insts, Bases
<1>3. (SameServer(p) => inst = c.inst) /\ (SameBase(p) => Bound = c.base)
  BY DEF SameServer, SameBase, BaseManifest, Bound
<1> USE DEF At, MayGo, Fits, Begun, AloneFits, BestFits, ProbeFits, AdmissionFits, ServedFits,
        RanFits, ForeignFits, Early, Cleaning, OnRung, Making, Loading, Setting, Answering,
        Running, Undoing, AdmittedAt, Answered, UnderLock
<1>4. /\ At(p, "u_lock") => Fits(l[p], "u_auth")
      /\ At(p, "u_auth") => MayGo(p, "u_models")
      /\ At(p, "u_models") => MayGo(p, "u_ps")
  BY <1>1
<1>5. At(p, "u_ps") => MayGo(p, "u_warm") /\ MayGo(p, "u_generate")
  BY <1>1
<1>6. /\ At(p, "u_warm") => MayGo(p, "u_auth2")
      /\ At(p, "u_auth2") => MayGo(p, "u_ps2")
      /\ At(p, "u_ps2") => MayGo(p, "u_generate")
  BY <1>1
<1>7. At(p, "u_auth3") /\ SameServer(p) => MayGo(p, "u_models2")
  BY <1>1, <1>2, <1>3
<1>8. At(p, "u_models2") /\ SameBase(p) => MayGo(p, "u_ps3")
  BY <1>1, <1>2, <1>3
<1>9. /\ At(p, "u_ps3") => MayGo(p, "u_show")
      /\ At(p, "u_show") => Fits(l[p], "shown")
  BY <1>1
<1> HIDE DEF MayGo, Fits
<1> QED
  BY <1>4, <1>5, <1>6, <1>7, <1>8, <1>9

LEMMA RunGatesKeep ==
    ASSUME NEW p \in Procs, IInv,
           \/ Gate(p, "u_auth", SameServer(p), "u_models", "idle")
           \/ Gate(p, "u_ps", Admissible({}, FALSE), "u_warm", "idle")
           \/ Gate(p, "u_ps", Admissible(RunTargets(p), TRUE), "u_generate", "idle")
           \/ Gate(p, "u_auth2", SameServer(p), "u_ps2", "idle")
           \/ Gate(p, "u_ps2", Admissible(RunTargets(p), TRUE), "u_generate", "idle")
           \/ Gate(p, "u_auth3", SameServer(p), "u_models2", "idle")
           \/ Gate(p, "u_ps3", Admissible(RunTargets(p), TRUE), "u_show", "idle")
    PROVE  IInv'
<1> USE RunGoes, MayEnd, GotoKeeps DEF Gate
<1>1. CASE Gate(p, "u_auth", SameServer(p), "u_models", "idle")
  BY <1>1
<1>2. CASE Gate(p, "u_ps", Admissible({}, FALSE), "u_warm", "idle")
  BY <1>2
<1>3. CASE Gate(p, "u_ps", Admissible(RunTargets(p), TRUE), "u_generate", "idle")
  BY <1>3
<1>4. CASE Gate(p, "u_auth2", SameServer(p), "u_ps2", "idle")
  BY <1>4
<1>5. CASE Gate(p, "u_ps2", Admissible(RunTargets(p), TRUE), "u_generate", "idle")
  BY <1>5
<1>6. CASE Gate(p, "u_auth3", SameServer(p), "u_models2", "idle")
  BY <1>6
<1>7. CASE Gate(p, "u_ps3", Admissible(RunTargets(p), TRUE), "u_show", "idle")
  BY <1>7
<1> QED
  BY <1>1, <1>2, <1>3, <1>4, <1>5, <1>6, <1>7

LEMMA ULockKeeps ==
    ASSUME NEW p \in Procs, IInv, TryLock(p, "u_lock", "u_auth")
    PROVE  IInv'
<1>1. CASE lock = None /\ lock' = p /\ Move(p, "u_auth")
  BY <1>1, RunGoes, MoveKeeps DEF TryLock
<1>2. CASE Goto(p, "idle")
  BY <1>2, GotoKeeps, MayEnd DEF TryLock
<1> QED
  BY <1>1, <1>2 DEF TryLock

LEMMA ReinventoryKeeps ==
    ASSUME NEW p \in Procs, IInv, NEW at, NEW to, Reinventory(p, at, to),
           <<at, to>> \in {<<"u_models", "u_ps">>, <<"u_models2", "u_ps3">>}
    PROVE  IInv'
<1>1. At(p, at) /\ OnlyLocal /\ lock = p
  BY DEF Reinventory, IInv, HoldsLock, At, UnderLock, Running, Answering
<1>2. ASSUME SameBase(p), NEW seen, Enter(p, [seen |-> seen], to)
      PROVE  IInv'
  <2>1. PICK d : Local(p, d) /\ Entered(p, [seen |-> seen], to, d)
    BY <1>1, <1>2, EnterLocal
  <2>2. d.pc = to /\ Alike(l[p], d)
    BY <2>1 DEF Entered, Alike, Idle
  <2>3. Fits(l[p], to)
    BY <1>1, <1>2, RunGoes DEF MayGo
  <2> QED
    BY <1>1, <2>1, <2>2, <2>3, AlikeFits, LocalKeeps
<1>3. CASE Goto(p, "idle")
  BY <1>1, <1>3, MayEnd, GotoKeeps
<1> QED
  BY <1>2, <1>3 DEF Reinventory

\* A request of run's: the models that may be resident are nobody's business.
LEMMA RunAsks ==
    ASSUME NEW p \in Procs, IInv, OnlyDaemon, UNCHANGED models, lock = p, NEW d, Local(p, d),
           Fits(d, d.pc), \A r \in resident' : r.ctx \in Nat,
           d.pc \in Running \cup {"idle"}
    PROVE  IInv'
<1>1. AloneFits(d, d.pc)' /\ d.pc # "r_wall"
  BY DEF AloneFits, Running, Answering, OnRung, Cleaning, Making, Loading
<1> QED
  BY <1>1, ResidentKeeps

LEMMA WarmKeeps ==
    ASSUME NEW p \in Procs, IInv, Ask(p, "u_warm", Base, l[p].ctx, "u_auth2", "idle")
    PROVE  IInv'
<1> DEFINE c == l[p]
<1>1. /\ At(p, "u_warm") /\ OnlyDaemon /\ UNCHANGED models /\ lock = p
      /\ Fits(c, "u_warm") /\ \A r \in resident : r.ctx \in Nat
  BY DEF Ask, IInv, HoldsLock, At, UnderLock, Running, InPlace, World
<1>2. c.ctx \in Nat /\ MayGo(p, "u_auth2")
  BY <1>1, RunGoes DEF Fits, Begun
<1>3. ASSUME NEW r, Answers(Base, c.ctx, r), Goto(p, "u_auth2")
      PROVE  IInv'
  <2>1. PICK d : Local(p, d) /\ d.pc = "u_auth2" /\ Alike(c, d)
    BY <1>1, <1>3, GotoLocal
  <2>2. Fits(d, d.pc)
    BY <1>2, <2>1, AlikeFits DEF MayGo
  <2>3. \A q \in resident' : q.ctx \in Nat
    BY <1>1, <1>2, <1>3, WhoAnswers
  <2> QED
    BY <1>1, <2>1, <2>2, <2>3, RunAsks DEF Running
<1>4. ASSUME Unanswered, Goto(p, "idle")
      PROVE  IInv'
  <2>1. \A q \in resident' : q.ctx \in Nat
    BY <1>1, <1>4 DEF Unanswered
  <2> QED
    BY <1>1, <1>4, <2>1, EndLocal, IdleFits, RunAsks DEF Idle
<1> QED
  BY <1>3, <1>4 DEF Ask

LEMMA GenerateKeeps ==
    ASSUME NEW p \in Procs, IInv, Generate(p)
    PROVE  IInv'
<1> DEFINE c == l[p]
<1>1. /\ At(p, "u_generate") /\ OnlyDaemon /\ UNCHANGED models /\ lock = p
      /\ Fits(c, "u_generate") /\ \A r \in resident : r.ctx \in Nat
  BY DEF Generate, IInv, HoldsLock, At, UnderLock, Running, InPlace, World
<1>2. c.ctx \in Nat /\ Bound \in c.base..Bound
  BY <1>1 DEF Fits, Begun, Early, IInv, World, Bases
<1>3. ASSUME NEW r, Answers(Base, c.ctx, r),
             NEW ran, ran = [inst |-> inst, of |-> r.digest.of, ctx |-> r.ctx],
             Enter(p, [ran |-> ran], "u_auth3")
      PROVE  IInv'
  <2>1. PICK d : Local(p, d) /\ Entered(p, [ran |-> ran], "u_auth3", d)
    BY <1>1, <1>3, EnterLocal
  <2>2. /\ d.pc = "u_auth3" /\ d.base = c.base /\ d.inst = c.inst /\ d.ctx = c.ctx
        /\ d.best = c.best /\ d.owned = c.owned /\ d.art = c.art /\ d.ran = ran
    BY <2>1 DEF Entered, Idle
  <2>3. \A q \in resident' : q.ctx \in Nat
    BY <1>1, <1>2, <1>3, WhoAnswers
  <2>4. /\ ran.inst \in Nat /\ c.inst <= ran.inst /\ ran.inst <= inst
        /\ ran.of \in Nat /\ c.base <= ran.of /\ ran.of <= Bound
        /\ ran.ctx \in Nat /\ ran.ctx <= c.ctx
    BY <1>1, <1>2, <1>3, RanNow DEF At, Bound
  <2>5. Fits(d, d.pc)
    BY <1>1, <2>2, <2>4 DEF Fits, Begun, AloneFits, BestFits, ProbeFits, AdmissionFits,
       ServedFits, RanFits, ForeignFits, Early, Cleaning, OnRung, Making, Loading, Setting,
       Answering, Running, Undoing, AdmittedAt, Answered
  <2> QED
    BY <1>1, <2>1, <2>2, <2>3, <2>5, RunAsks DEF Running, Answering
<1>4. ASSUME Unanswered, Goto(p, "idle")
      PROVE  IInv'
  <2>1. \A q \in resident' : q.ctx \in Nat
    BY <1>1, <1>4 DEF Unanswered
  <2> QED
    BY <1>1, <1>4, <2>1, EndLocal, IdleFits, RunAsks DEF Idle
<1> QED
  BY <1>3, <1>4 DEF Generate

LEMMA ShowKeeps ==
    ASSUME NEW p \in Procs, IInv, Show(p)
    PROVE  IInv'
<1>1. "shown" \notin UnderLock
  BY DEF UnderLock, OnRung, Cleaning, Setting, Making, Loading, Running, Answering
<1> QED
  BY <1>1, RunGoes, MoveKeeps DEF Show

LEMMA RunKeeps ==
    ASSUME NEW p \in Procs, IInv, Run(p)
    PROVE  IInv'
<1>1. CASE Reinventory(p, "u_models", "u_ps")
  BY <1>1, ReinventoryKeeps
<1>2. CASE Reinventory(p, "u_models2", "u_ps3")
  BY <1>2, ReinventoryKeeps
<1>3. CASE \/ Gate(p, "u_auth", SameServer(p), "u_models", "idle")
           \/ Gate(p, "u_ps", Admissible({}, FALSE), "u_warm", "idle")
           \/ Gate(p, "u_ps", Admissible(RunTargets(p), TRUE), "u_generate", "idle")
           \/ Gate(p, "u_auth2", SameServer(p), "u_ps2", "idle")
           \/ Gate(p, "u_ps2", Admissible(RunTargets(p), TRUE), "u_generate", "idle")
           \/ Gate(p, "u_auth3", SameServer(p), "u_models2", "idle")
           \/ Gate(p, "u_ps3", Admissible(RunTargets(p), TRUE), "u_show", "idle")
  BY <1>3, RunGatesKeep
<1> QED
  BY <1>1, <1>2, <1>3, ListForRunKeeps, ReadEvidenceKeeps, ULockKeeps, WarmKeeps,
      GenerateKeeps,
     ShowKeeps
  DEF Run

-----------------------------------------------------------------------------
(* The outside world, and all together. *)

LEMMA OutsideKeeps ==
    ASSUME IInv, Outside
    PROVE  IInv'
<1>1. UNCHANGED <<lock, l, claims, rows, evidence, measured>>
  BY DEF Outside, OutsideStep
<1>2. /\ inst \in Nat /\ Bound \in Nat /\ Base \in Names /\ DOMAIN models = Names
      /\ models[Base] = BaseManifest(Bound) /\ None \notin Procs
  BY BaseIsName, OllamaAssumption DEF IInv, World, Insts, Bases
<1>3. /\ inst' \in Insts /\ inst <= inst' /\ DOMAIN models' = Names
      /\ Bound' \in Bases /\ models'[Base] = BaseManifest(Bound') /\ Bound <= Bound'
      /\ \A n \in Names : models'[n] = Foreign => models[n] = Foreign
      /\ \A n \in Names \ {Base} : models'[n] \in {models[n], None}
      /\ \A r \in resident' : (r \in resident \/ r.name = Other) /\ r.ctx \in Nat
      /\ missed \subseteq missed' /\ \A m \in missed' : m \in missed \/ m.ctx \in Nat
      /\ \A q \in Procs : Noted(q)
  <2>1. inst \in Insts /\ Bound \in Bases /\ None # Foreign /\ MaxInst \in Nat /\ MaxBase \in Nat
    BY OllamaAssumption DEF IInv, World, Foreign
  <2>2. \A r \in resident : r.ctx \in Nat
    BY DEF IInv, World
  <2>3. CASE Restart
    <3>1. inst' # inst
      BY <1>2, <2>3 DEF Restart
    <3> QED
      BY <1>2, <2>1, <2>2, <2>3, <3>1 DEF Restart, Insts, Bound, Noted
  <2>4. CASE Rebind
    <3>1. models' = [models EXCEPT ![Base] = BaseManifest(@.of + 1)]
      BY <2>4 DEF Rebind
    <3>2. models'[Base] = BaseManifest(Bound + 1) /\ BaseManifest(Bound + 1).of = Bound + 1
      BY <1>2, <3>1 DEF Bound, BaseManifest
    <3>3. Bound' = Bound + 1
      BY <3>2 DEF Bound
    <3>4. Bound + 1 \in Bases /\ Bound <= Bound + 1 /\ inst <= inst
      BY <1>2, <2>1, <2>4 DEF Rebind, Bases, Bound
    <3>5. BaseManifest(Bound + 1) # Foreign
      BY <3>4, NamesApart
    <3>6. \A n \in Names \ {Base} : models'[n] = models[n]
      BY <1>2, <3>1
    <3> QED
      BY <1>2, <2>1, <2>2, <2>4, <3>1, <3>2, <3>3, <3>4, <3>5, <3>6 DEF Rebind, Noted
  <2>5. CASE Evict
    <3>1. UNCHANGED <<inst, models>> /\ Bound' = Bound
      BY <2>5 DEF Evict, Bound
    <3> DEFINE seen(r) == [inst |-> inst, of |-> r.digest.of, ctx |-> r.ctx]
    <3>2. PICK r \in resident :
              /\ resident' = resident \ {r}
              /\ missed' = missed \cup (IF \E q \in Procs : At(q, "r_wall")
                                       THEN {seen(r)} ELSE {})
      BY <2>5 DEF Evict
    <3>3. seen(r).ctx \in Nat
      BY <2>2
    <3>4. \A q \in Procs : l[q].pc = "r_wall" => seen(r) \in missed'
      BY <3>2 DEF At
    <3>5. \A q \in Procs : Noted(q)
      BY <3>2, <3>4 DEF Noted
    <3>6. missed \subseteq missed' /\ \A m \in missed' : m \in missed \/ m = seen(r)
      BY <3>2
    <3> HIDE DEF seen
    <3> QED
      BY <1>2, <2>1, <2>2, <3>1, <3>2, <3>3, <3>5, <3>6
  <2>6. CASE LoadOther
    BY <1>2, <2>1, <2>2, <2>6 DEF LoadOther, Bound, Runner, Noted
  <2>7. CASE RemoveDerived
    <3>1. PICK n \in Names \ {Base} : models' = [models EXCEPT ![n] = None]
      BY <2>7 DEF RemoveDerived
    <3>2. models'[Base] = models[Base] /\ \A k \in Names : models'[k] \in {models[k], None}
      BY <1>2, <3>1
    <3> QED
      BY <1>2, <2>1, <2>2, <2>7, <3>1, <3>2 DEF RemoveDerived, Bound, Noted
  <2> QED
    BY <2>3, <2>4, <2>5, <2>6, <2>7 DEF Outside, OutsideStep
<1>8. Observed \subseteq Observed' /\ \A m \in Observed' : m \in Observed \/ m.ctx \in Nat
  BY <1>1, <1>3 DEF Observed
<1>4. World'
  BY <1>1, <1>3, <1>8 DEF IInv, World
<1>5. Stored'
  BY <1>1, <1>8, StoredKeeps DEF IInv
<1>6. \A q \in Procs : Env(q)
  BY <1>1, <1>2, <1>3, <1>8 DEF Env
<1>7. \A q \in Procs : InPlace(q)' /\ HoldsLock(q)'
  BY <1>1, <1>4, <1>6, OthersKeep DEF IInv
<1> QED
  BY <1>4, <1>5, <1>7 DEF IInv

LEMMA IInvBegins == Init => IInv
<1> SUFFICES ASSUME Init PROVE IInv
  OBVIOUS
<1>1. 1 \in Insts /\ 1 \in Bases /\ Base \in Names
  BY OllamaAssumption, BaseIsName DEF Insts, Bases
<1>2. models[Base] = BaseManifest(1) /\ DOMAIN models = Names /\ BaseManifest(1).of = 1
  BY <1>1 DEF Init, BaseManifest
<1>3. World
  BY <1>1, <1>2 DEF Init, World, Bound, Observed
<1>4. Stored
  BY <1>1 DEF Init, Stored, EvidenceIsMeasured, ClaimsAreGoverned
<1>5. \A p \in Procs : l[p] = Idle
  BY DEF Init
<1>6. \A p \in Procs : InPlace(p) /\ HoldsLock(p)
  BY <1>5, IdleFits DEF InPlace, HoldsLock, Idle, UnderLock, OnRung, Cleaning, Setting, Making,
     Loading, Running, Answering
<1> QED
  BY <1>3, <1>4, <1>6 DEF IInv

LEMMA IInvStep == IInv /\ [Next]_vars => IInv'
<1> SUFFICES ASSUME IInv, [Next]_vars PROVE IInv'
  OBVIOUS
<1>1. ASSUME NEW p \in Procs, Killed(p)
      PROVE  IInv'
  BY <1>1, MayEnd, GotoKeeps DEF Killed
<1>2. CASE UNCHANGED vars
  <2>1. World'
    BY <1>2 DEF vars, Observed, IInv, World, Bound
  <2>2. Stored'
    BY <1>2, StoredKeeps DEF vars, Observed, IInv
  <2>3. \A p \in Procs : Env(p)
    <3>1. Bound \in Nat /\ inst \in Nat
      BY DEF IInv, World, Bases, Insts
    <3> QED
      BY <1>2, <3>1 DEF vars, Env, Noted, Bound, Observed
  <2>4. \A p \in Procs : InPlace(p)' /\ HoldsLock(p)'
    BY <1>2, <2>1, <2>3, OthersKeep DEF vars, IInv
  <2> QED
    BY <2>1, <2>2, <2>4 DEF IInv
<1>3. CASE Next
  BY <1>1, <1>3, StartKeeps, CharacterizeKeeps, ServeKeeps, RunKeeps, OutsideKeeps DEF Next
<1> QED
  BY <1>2, <1>3

LEMMA IInvAlways == Spec => []IInv
BY IInvBegins, IInvStep, PTL DEF Spec

-----------------------------------------------------------------------------
(* The properties. *)

\* A stored ceiling was read off the walls with what it names resident, or the runner
\* was evicted just before; and no other ARA process loaded a model meanwhile.
THEOREM EvidenceAlwaysSound == Spec => []EvidenceIsSound
<1>1. IInv => EvidenceIsSound
  <2> SUFFICES ASSUME IInv PROVE EvidenceIsSound
    OBVIOUS
  <2>1. EvidenceIsMeasured
    BY DEF IInv, Stored
  <2>2. ASSUME NEW p \in Procs
        PROVE  /\ l[p].pc \in {"r_auth2", "r_ps", "r_wall"} =>
                      \A r \in resident : r.name \in {ProbeName(p), Other}
               /\ l[p].pc \in {"s_v1", "s_auth", "s_base2", "s_check2", "s_ps3"} =>
                      \A r \in resident : r.name \in {ServedName(p), Other}
    BY DEF IInv, InPlace, Fits, AloneFits, Alone, OnRung, Loading, ProbeName, ProbeOf,
        ServedName, ServedOf
  <2> QED
    BY <2>1, <2>2 DEF EvidenceIsSound, AloneUnderTheLock
<1> QED
  BY <1>1, IInvAlways, PTL

\* Nothing is printed, handed off or claimed above what was measured for the same
\* weights on the same daemon instance.
THEOREM HandedOutAlwaysGoverned == Spec => []HandedOutIsGoverned
<1>1. IInv => HandedOutIsGoverned
  <2> SUFFICES ASSUME IInv PROVE HandedOutIsGoverned
    OBVIOUS
  <2>1. ASSUME NEW p \in Procs, l[p].pc \in {"shown", "s_mark"}
        PROVE  Governed(l[p].ran)
    <3> DEFINE c == l[p]
    <3>1. Fits(c, c.pc) /\ \A m \in Observed : m.ctx \in Nat
      BY DEF IInv, InPlace, World
    <3>2. PICK m \in Observed : m.inst = c.inst /\ m.of = c.base /\ c.ctx <= m.ctx
      BY <2>1, <3>1 DEF Fits, AdmissionFits, AdmittedAt, Setting, Governed
    <3>3. c.ran.inst = c.inst /\ c.ran.of = c.base /\ c.ran.ctx \in Nat /\ c.ran.ctx <= c.ctx
      BY <2>1, <3>1 DEF Fits, RanFits, Answered
    <3>4. c.ctx \in Nat
      BY <3>1 DEF Fits, Begun
    <3> QED
      BY <3>1, <3>2, <3>3, <3>4 DEF Governed
  <2> QED
    BY <2>1 DEF HandedOutIsGoverned, AnswersAreGoverned, IInv, Stored
<1> QED
  BY <1>1, IInvAlways, PTL


-----------------------------------------------------------------------------
(* What is installed: who changes it. *)

Writes(p) == CreateProbe(p) \/ DeleteProbe(p) \/ CreateServed(p) \/ DeleteServed(p)

LEMMA GatesWriteNothing ==
    ASSUME NEW p \in Procs, NEW at, NEW to, NEW bad, NEW ok, NEW n, NEW c,
           \/ Gate(p, at, ok, to, bad) \/ TryLock(p, at, to) \/ CleanupStep(p, at, ok, to)
           \/ Ask(p, at, n, c, to, bad) \/ Reinventory(p, at, to)
    PROVE  models' = models
BY DEF Gate, TryLock, CleanupStep, Ask, Reinventory, OnlyLocal

LEMMA OnlyWritersWrite ==
    ASSUME NEW p \in Procs
    PROVE  /\ Characterize(p) => models' = models \/ CreateProbe(p) \/ DeleteProbe(p)
           /\ Serve(p) => models' = models \/ CreateServed(p) \/ DeleteServed(p)
           /\ Run(p) \/ Start(p) \/ Killed(p) => models' = models
<1>1. ASSUME Characterize(p)
      PROVE  models' = models \/ CreateProbe(p) \/ DeleteProbe(p)
  BY <1>1, GatesWriteNothing
  DEF Characterize, ListForCharacterize, RecheckProbe, NextRung, IdentifyProbe, RecordProbe,
      GenerateProbe, SeeProbe, ReadWalls, Cleanup, ExpireProbe, ReleaseAfterRamp, SaveCeiling,
      OnlyLocal
<1>2. ASSUME Serve(p)
      PROVE  models' = models \/ CreateServed(p) \/ DeleteServed(p)
  BY <1>2, GatesWriteNothing
  DEF Serve, ListForServe, ReadClaims, IdentifyServed, ProbeContract, RecordServing,
      InterruptServe, OnlyLocal
<1>3. ASSUME Run(p) \/ Start(p) \/ Killed(p)
      PROVE  models' = models
  BY <1>3, GatesWriteNothing
  DEF Run, ListForRun, ReadEvidence, Generate, Show, Start, Killed, OnlyLocal
<1> QED
  BY <1>1, <1>2, <1>3

\* A writer's step writes the one name it is about, and not over somebody else's.
LEMMA WritersWrite ==
    ASSUME NEW p \in Procs, IInv, Writes(p)
    PROVE  /\ CreateProbe(p) \/ DeleteProbe(p) =>
                  /\ ProbeOf(l[p]) \in Names \ ServedNames /\ models[ProbeOf(l[p])] # Foreign
                  /\ \A n \in Names \ {ProbeOf(l[p])} : models'[n] = models[n]
           /\ CreateServed(p) \/ DeleteServed(p) =>
                  /\ ServedOf(l[p]) \in ServedNames /\ models[ServedOf(l[p])] # Foreign
                  /\ \A n \in Names \ {ServedOf(l[p])} : models'[n] = models[n]
           /\ CreateServed(p) => models[ServedOf(l[p])] = None
<1> DEFINE c == l[p]
<1>1. Fits(c, c.pc) /\ DOMAIN models = Names /\ None # Foreign
  BY OllamaAssumption DEF IInv, InPlace, World, Foreign
<1>2. CASE CreateProbe(p) \/ DeleteProbe(p)
  <2>1. c.pc \in {"r_create", "delete2"}
    BY <1>2 DEF CreateProbe, DeleteProbe, At
  <2>2. c.base \in Bases /\ models[ProbeOf(c)] # Foreign
    BY <1>1, <2>1 DEF Fits, Begun, ForeignFits, Early, OnRung, Cleaning
  <2>3. ProbeOf(c) \in Names \ ServedNames
    BY <2>2, NamesApart DEF ProbeOf
  <2>4. ProbeName(p) = ProbeOf(c)
    BY DEF ProbeName, ProbeOf
  <2>5. \/ models' = models
        \/ \E m : models' = [models EXCEPT ![ProbeOf(c)] = m]
    BY <1>2, <2>4 DEF CreateProbe, DeleteProbe, Created
  <2> QED
    BY <1>1, <2>1, <2>2, <2>3, <2>5 DEF CreateServed, DeleteServed, At
<1>3. CASE CreateServed(p) \/ DeleteServed(p)
  <2>1. c.pc \in {"s_create", "undo3"}
    BY <1>3 DEF CreateServed, DeleteServed, At
  <2>2. /\ c.base \in Bases /\ c.ctx \in Ctxs /\ models[ServedOf(c)] # Foreign
        /\ c.pc = "s_create" => models[ServedOf(c)] = None
    BY <1>1, <2>1 DEF Fits, Begun, ForeignFits, Early, Setting, Making, Undoing
  <2>3. ServedOf(c) \in ServedNames
    BY <2>2, NamesApart DEF ServedOf
  <2>4. ServedName(p) = ServedOf(c)
    BY DEF ServedName, ServedOf
  <2>5. \/ models' = models
        \/ \E m : models' = [models EXCEPT ![ServedOf(c)] = m]
    BY <1>3, <2>4 DEF CreateServed, DeleteServed, Created
  <2>6. CreateServed(p) => c.pc = "s_create"
    BY DEF CreateServed, At
  <2>7. ~(CreateProbe(p) \/ DeleteProbe(p))
    BY <2>1 DEF CreateProbe, DeleteProbe, At
  <2>8. \A n \in Names \ {ServedOf(c)} : models'[n] = models[n]
    BY <1>1, <2>5
  <2> QED
    BY <2>2, <2>3, <2>6, <2>7, <2>8
<1> QED
  BY <1>2, <1>3 DEF Writes

\* Nothing ARA did not make is overwritten or deleted.
THEOREM ForeignAlwaysKept == Spec => ForeignKept
<1> DEFINE Kept == \A n \in Names : models[n] = Foreign => models'[n] = Foreign
<1>1. IInv /\ [Next]_vars => [Kept]_vars
  <2> SUFFICES ASSUME IInv, Next PROVE Kept
    BY DEF vars
  <2>1. ASSUME NEW p \in Procs, Writes(p)
        PROVE  Kept
    BY <2>1, WritersWrite DEF Writes
  <2>2. CASE Outside
    <3>1. DOMAIN models = Names /\ models[Base] # Foreign
      BY NamesApart DEF IInv, World
    <3>2. CASE Rebind
      BY <3>1, <3>2 DEF Rebind
    <3>3. CASE RemoveDerived
      BY <3>1, <3>3 DEF RemoveDerived
    <3> QED
      BY <2>2, <3>2, <3>3 DEF Outside, OutsideStep, Restart, Evict, LoadOther
  <2> QED
    BY <2>1, <2>2, OnlyWritersWrite DEF Next, Writes
<1> QED
  BY <1>1, IInvAlways, PTL DEF Spec, ForeignKept

-----------------------------------------------------------------------------
(* Claims: what a process made and has not claimed, nobody has claimed,    *)
(* unless the claim was cut off from the flag that says who made it.       *)

\* On the way to a creation; where a claim relied on, or a manifest made, matters.
Toward == {"s_lock", "s_ps", "s_recheck", "s_create"}
Relying == {"s_lock"} \cup Setting
Creating == {"s_identify", "s_base", "s_record"} \cup Loading \cup Undoing
Places == Relying \cup Undoing

Creates(c, at) == at \in Creating /\ ~c.owned
ClaimFits(c, at) ==
    LET n == ServedOf(c)
    IN /\ c.owned /\ at \in Relying => claims[n] # None
       /\ ~c.owned /\ at \in Toward => claims[n] = None \/ models[n] # None
       /\ Creates(c, at) => claims[n] = None /\ models[n] # None
       /\ at \in {"undo2", "undo3"} => ~c.owned
ClaimInPlace(p) == ServedOf(l[p]) \notin cut => ClaimFits(l[p], l[p].pc)
Creator(p) == Creates(l[p], l[p].pc)
OneCreator ==
    \A p, q \in Procs :
        /\ Creator(p) /\ Creator(q)
        /\ ServedOf(l[p]) = ServedOf(l[q]) /\ ServedOf(l[p]) \notin cut
        => p = q

CInv == (\A p \in Procs : ClaimInPlace(p)) /\ OneCreator

\* Who depends on a claim or a name has its model and context.
LEMMA PlacesNamed ==
    ASSUME NEW q \in Procs, IInv, l[q].pc \in Places
    PROVE  ServedOf(l[q]) \in ServedNames
<1>1. l[q].base \in Bases /\ l[q].ctx \in Ctxs
  BY DEF IInv, InPlace, Fits, Begun, Places, Relying, Setting, Making, Loading, Undoing, Early
<1> QED
  BY <1>1, NamesApart DEF ServedOf

\* What may become of a claim and of a name while q stands still.
LEMMA OtherClaims ==
    ASSUME NEW q \in Procs, ClaimInPlace(q), l'[q] = l[q], NEW n, n = ServedOf(l[q]),
           cut \subseteq cut',
           l[q].pc \in Places /\ n \notin cut' =>
               \/ claims'[n] = claims[n] /\ models'[n] = models[n]
               \/ /\ ~Creator(q) /\ (claims[n] # None => claims'[n] # None)
                  /\ ~l[q].owned /\ l[q].pc \in Toward => claims'[n] = None \/ models'[n] # None
    PROVE  ClaimInPlace(q)'
<1> PICK c : c = l[q]
  OBVIOUS
<1>1. /\ n \notin cut' => ClaimFits(c, c.pc)
      /\ Creator(q) <=> Creates(c, c.pc)
  BY DEF ClaimInPlace, Creator
<1>2. n \notin cut' => ClaimFits(c, c.pc)'
  BY <1>1 DEF ClaimFits, Creates, Places, Relying, Toward, Creating, Setting, Making, Loading,
     Undoing
<1> QED
  BY <1>2 DEF ClaimInPlace, ServedOf

\* A step of p that neither claims nor writes a served name.
Calm == claims' = claims /\ cut \subseteq cut' /\ \A n \in ServedNames : models'[n] = models[n]
Became(p, d) == l'[p] = d /\ \A q \in Procs \ {p} : l'[q] = l[q]

LEMMA CalmKeeps ==
    ASSUME NEW p \in Procs, IInv, CInv, Calm, NEW d, Became(p, d),
           d.pc \in Places =>
               /\ ServedOf(d) \in ServedNames
               /\ ServedOf(d) \notin cut' =>
                      /\ ClaimFits(d, d.pc)
                      /\ Creates(d, d.pc) => Creator(p) /\ ServedOf(d) = ServedOf(l[p])
    PROVE  CInv'
<1>1. \A q \in Procs \ {p} : ClaimInPlace(q)'
  BY PlacesNamed, OtherClaims DEF CInv, Calm, Became
<1>2. ServedOf(d) \notin cut' => ClaimFits(d, d.pc)'
  BY DEF ClaimFits, Calm, Places, Relying, Toward, Creating, Creates, Setting, Making, Loading,
     Undoing
<1>3. ClaimInPlace(p)'
  BY <1>2 DEF ClaimInPlace, Became, ServedOf
<1>4. Creating \subseteq Places
  BY DEF Creating, Places, Relying, Setting, Making
<1>5. OneCreator'
  BY <1>4 DEF OneCreator, CInv, Creator, Creates, Became, Calm
<1> QED
  BY <1>1, <1>3, <1>5 DEF CInv

\* Characterize and run, a command's start and its death stay clear of all that.
Away(p) == \E d : Became(p, d) /\ d.pc \notin Places

LEMMA MoveGoes ==
    ASSUME NEW p \in Procs, IInv, NEW at, Move(p, at) \/ Goto(p, at)
    PROVE  \E d : Became(p, d) /\ d.pc = at /\ (at # "idle" => Alike(l[p], d))
<1>1. DOMAIN l = Procs /\ DOMAIN l[p] = DOMAIN Idle
  BY DEF IInv, World
<1>2. CASE at = "idle"
  <2>1. Became(p, Idle) /\ Idle.pc = at
    BY <1>1, <1>2 DEF Goto, Move, Became, Idle
  <2> QED
    BY <1>2, <2>1
<1>3. CASE at # "idle"
  <2> DEFINE d == [l[p] EXCEPT !.pc = at]
  <2>1. Became(p, d)
    BY <1>1, <1>3 DEF Goto, Move, Became
  <2>2. d.pc = at /\ Alike(l[p], d)
    BY <1>1 DEF Alike, Idle
  <2> QED
    BY <2>1, <2>2
<1> QED
  BY <1>2, <1>3

LEMMA EnterGoes ==
    ASSUME NEW p \in Procs, IInv, NEW at, NEW fields, Enter(p, fields, at)
    PROVE  \E d : Became(p, d) /\ Entered(p, fields, at, d)
<1> DEFINE d == [k \in DOMAIN Idle |->
            IF k = "pc" THEN at ELSE IF k \in DOMAIN fields THEN fields[k] ELSE l[p][k]]
<1>1. DOMAIN l = Procs
  BY DEF IInv, World
<1>2. Became(p, d)
  BY <1>1 DEF Enter, Became
<1>3. Entered(p, fields, at, d)
  BY DEF Entered, Idle
<1> QED
  BY <1>2, <1>3

LEMMA GoesAway ==
    ASSUME NEW p \in Procs, IInv, NEW at, at \notin Places
    PROVE  /\ Move(p, at) \/ Goto(p, at) => Away(p)
           /\ \A fields : Enter(p, fields, at) => Away(p)
BY MoveGoes, EnterGoes DEF Away, Entered

LEMMA GateGoesAway ==
    ASSUME NEW p \in Procs, IInv, NEW at, NEW to, NEW bad, NEW ok, NEW n, NEW c,
           to \notin Places, bad \notin Places, "idle" \notin Places, "look" \notin Places,
           \/ Gate(p, at, ok, to, bad) \/ TryLock(p, at, to) \/ CleanupStep(p, at, ok, to)
           \/ Ask(p, at, n, c, to, bad) \/ Reinventory(p, at, to)
    PROVE  Away(p) /\ UNCHANGED <<claims, cut>>
BY GoesAway
DEF Gate, TryLock, CleanupStep, CleanupRefused, Ask, Reinventory, OnlyLocal, OnlyDaemon,
    Durable, History

LEMMA AwayPlaces ==
    /\ {"c_list", "s_list", "u_list", "s_evidence", "s_claims", "c_lock", "c_save", "c_base",
        "c_auth", "u_lock", "u_evidence", "shown"} \cap Places = {}
    /\ {"idle", "c_recheck", "c_ps", "rung", "release", "abort"} \cap Places = {}
    /\ OnRung \cap Places = {} /\ Cleaning \cap Places = {} /\ Running \cap Places = {}
BY DEF Places, Relying, Setting, Making, Loading, Undoing, OnRung, Cleaning, Running, Answering

LEMMA CharacterizeAway ==
    ASSUME NEW p \in Procs, IInv, Characterize(p)
    PROVE  Away(p) /\ UNCHANGED <<claims, cut>>
<1> USE AwayPlaces DEF OnRung, Cleaning, Running, Answering
<1>1. CASE \/ ListForCharacterize(p) \/ RecheckProbe(p) \/ NextRung(p) \/ CreateProbe(p)
           \/ IdentifyProbe(p) \/ RecordProbe(p) \/ GenerateProbe(p) \/ SeeProbe(p)
           \/ ReadWalls(p) \/ ReleaseAfterRamp(p) \/ SaveCeiling(p)
  BY <1>1, GoesAway
  DEF ListForCharacterize, RecheckProbe, NextRung, CreateProbe, IdentifyProbe, RecordProbe,
      GenerateProbe, SeeProbe, ReadWalls, ReleaseAfterRamp, SaveCeiling, OnlyLocal, OnlyDaemon,
      Durable, History
<1>2. CASE Cleanup(p)
  BY <1>2, GateGoesAway DEF Cleanup
<1>3. CASE ExpireProbe(p) \/ DeleteProbe(p)
  <2>1. l[p].pc \in Cleaning
    BY <1>3 DEF ExpireProbe, DeleteProbe, At
  <2>2. l[p].after \in {"abort", "c_ps", "rung", "release", "idle"}
    BY <2>1 DEF IInv, InPlace, Fits, Begun
  <2>3. CleanupRefused(p) => Away(p)
    BY GoesAway DEF CleanupRefused
  <2> QED
    BY <1>3, <2>2, <2>3, GoesAway DEF ExpireProbe, DeleteProbe, OnlyDaemon, Durable, History
<1>4. CASE \/ TryLock(p, "c_lock", "c_recheck")
           \/ Gate(p, "c_ps", Admissible({}, FALSE), "rung", "idle")
           \/ Gate(p, "r_auth", SameServer(p), "r_base", "idle")
           \/ Gate(p, "r_base", SameBase(p), "r_create", "idle")
           \/ Gate(p, "r_base2", SameBase(p), "r_generate", "look")
           \/ Gate(p, "r_auth2", SameServer(p), "r_ps", "look")
           \/ Gate(p, "c_base", SameBase(p), "c_auth", "idle")
           \/ Gate(p, "c_auth", SameServer(p), "c_save", "idle")
  BY <1>4, GateGoesAway
<1> QED
  BY <1>1, <1>2, <1>3, <1>4 DEF Characterize

LEMMA RunAway ==
    ASSUME NEW p \in Procs, IInv, Run(p) \/ Start(p) \/ Killed(p)
    PROVE  Away(p) /\ UNCHANGED <<claims, cut>>
<1> USE AwayPlaces DEF OnRung, Cleaning, Running, Answering
<1>1. CASE \/ ListForRun(p) \/ ReadEvidence(p) \/ Generate(p) \/ Show(p) \/ Start(p)
           \/ Killed(p)
  BY <1>1, GoesAway
  DEF ListForRun, ReadEvidence, Generate, Show, Start, Killed, OnlyLocal, OnlyDaemon, Durable,
      History
<1>2. CASE \/ Gate(p, "u_auth", SameServer(p), "u_models", "idle")
           \/ Gate(p, "u_ps", Admissible({}, FALSE), "u_warm", "idle")
           \/ Gate(p, "u_ps", Admissible(RunTargets(p), TRUE), "u_generate", "idle")
  BY <1>2, GateGoesAway
<1>4. CASE \/ Gate(p, "u_auth2", SameServer(p), "u_ps2", "idle")
           \/ Gate(p, "u_ps2", Admissible(RunTargets(p), TRUE), "u_generate", "idle")
           \/ Gate(p, "u_auth3", SameServer(p), "u_models2", "idle")
           \/ Gate(p, "u_ps3", Admissible(RunTargets(p), TRUE), "u_show", "idle")
  BY <1>4, GateGoesAway
<1>3. CASE TryLock(p, "u_lock", "u_auth") \/ Ask(p, "u_warm", Base, l[p].ctx, "u_auth2", "idle")
  BY <1>3, GateGoesAway
<1>5. CASE Reinventory(p, "u_models", "u_ps") \/ Reinventory(p, "u_models2", "u_ps3")
  BY <1>5, GateGoesAway
<1> QED
  BY <1>1, <1>2, <1>3, <1>4, <1>5 DEF Run

LEMMA AwayKeeps ==
    ASSUME NEW p \in Procs, IInv, CInv,
           Characterize(p) \/ Run(p) \/ Start(p) \/ Killed(p)
    PROVE  CInv'
<1>1. Away(p) /\ UNCHANGED <<claims, cut>>
  BY CharacterizeAway, RunAway
<1>2. \A n \in ServedNames : models'[n] = models[n]
  <2>1. models' = models \/ CreateProbe(p) \/ DeleteProbe(p)
    BY OnlyWritersWrite
  <2> QED
    BY <2>1, WritersWrite DEF Writes, Names
<1>3. \A d : d.pc \notin Places => ~Creates(d, d.pc)
  BY DEF Creates, Creating, Places, Relying, Setting, Making
<1> QED
  BY <1>1, <1>2, <1>3, CalmKeeps DEF Away, Calm

\* A serving process may go on to pc.
MayClaim(p, at) ==
    at \in Places => /\ ServedOf(l[p]) \in ServedNames
                     /\ ServedOf(l[p]) \notin cut =>
                            ClaimFits(l[p], at) /\ (Creates(l[p], at) => Creator(p))

LEMMA AlikeClaims ==
    ASSUME NEW p \in Procs, IInv, CInv, Calm, NEW d, Became(p, d), MayClaim(p, d.pc),
           d.pc \in Places => /\ d.base = l[p].base /\ d.ctx = l[p].ctx
                              /\ d.owned = l[p].owned
    PROVE  CInv'
<1>1. d.pc \in Places => ServedOf(d) = ServedOf(l[p])
  BY DEF ServedOf
<1>2. d.pc \in Places /\ ServedOf(d) \notin cut =>
          ClaimFits(d, d.pc) /\ (Creates(d, d.pc) => Creator(p))
  BY <1>1 DEF MayClaim, ClaimFits, Creates
<1> QED
  BY <1>1, <1>2, CalmKeeps DEF MayClaim, Calm

LEMMA CalmMove ==
    ASSUME NEW p \in Procs, IInv, CInv, Calm, NEW at, Move(p, at) \/ Goto(p, at),
           MayClaim(p, at)
    PROVE  CInv'
<1>1. PICK d : Became(p, d) /\ d.pc = at /\ (at # "idle" => Alike(l[p], d))
  BY MoveGoes
<1>2. "idle" \notin Places
  BY AwayPlaces
<1> QED
  BY <1>1, <1>2, AlikeClaims DEF Alike

LEMMA CalmEnter ==
    ASSUME NEW p \in Procs, IInv, CInv, Calm, NEW at, NEW fields, Enter(p, fields, at),
           MayClaim(p, at), at \in Places => DOMAIN fields \subseteq {"art", "ran"}
    PROVE  CInv'
<1>1. PICK d : Became(p, d) /\ Entered(p, fields, at, d)
  BY EnterGoes
<1>2. /\ d.pc = at
      /\ at \in Places => /\ d.base = l[p].base /\ d.ctx = l[p].ctx
                          /\ d.owned = l[p].owned
  BY <1>1 DEF Entered, Idle
<1> QED
  BY <1>1, <1>2, AlikeClaims

LEMMA ClaimGoes ==
    ASSUME NEW p \in Procs, IInv, CInv
    PROVE  /\ \A at : at \notin Places => MayClaim(p, at)
           /\ At(p, "s_claims") /\ claims[ServedOf(l[p])] = None => MayClaim(p, "s_lock")
           /\ At(p, "s_lock") => MayClaim(p, "s_ps")
           /\ At(p, "s_ps") => MayClaim(p, "s_recheck") /\ (l[p].owned => MayClaim(p, "s_check"))
           /\ At(p, "s_recheck") => MayClaim(p, "s_create")
           /\ At(p, "s_identify") => MayClaim(p, "s_base")
           /\ l[p].pc \in {"s_base", "s_record"} \cup Loading =>
                  \A at \in {"s_record", "undo"} \cup Loading : MayClaim(p, at)
           /\ At(p, "s_mark") /\ l[p].owned => MayClaim(p, "undo")
           /\ At(p, "undo") /\ ~l[p].owned => MayClaim(p, "undo2")
           /\ At(p, "undo2") => MayClaim(p, "undo3")
<1>1. ClaimInPlace(p)
  BY DEF CInv
<1>2. l[p].pc \in Places \cup {"s_claims"} => ServedOf(l[p]) \in ServedNames
  <2>1. At(p, "s_claims") => l[p].base \in Bases /\ l[p].ctx \in Ctxs
    BY DEF At, IInv, InPlace, Fits, Begun, Early
  <2> QED
    BY <2>1, PlacesNamed, NamesApart DEF At, ServedOf
<1>3. At(p, "s_claims") => ~l[p].owned
  BY DEF At, IInv, InPlace, Fits, Begun
<1> USE DEF At, MayClaim, Creator
<1>4. \A at : at \notin Places => MayClaim(p, at)
  OBVIOUS
<1> USE DEF ClaimInPlace, ClaimFits, Creates, Toward, Relying, Setting, Making, Creating,
            Loading, Undoing, Places
<1>5. At(p, "s_claims") /\ claims[ServedOf(l[p])] = None => MayClaim(p, "s_lock")
  BY <1>2, <1>3
<1>6. /\ At(p, "s_lock") => MayClaim(p, "s_ps")
      /\ At(p, "s_ps") => MayClaim(p, "s_recheck") /\ (l[p].owned => MayClaim(p, "s_check"))
      /\ At(p, "s_recheck") => MayClaim(p, "s_create")
      /\ At(p, "s_identify") => MayClaim(p, "s_base")
  BY <1>1, <1>2
<1>7. l[p].pc \in {"s_base", "s_record"} \cup Loading =>
          \A at \in {"s_record", "undo"} \cup Loading : MayClaim(p, at)
  BY <1>1, <1>2
<1>8. /\ At(p, "s_mark") /\ l[p].owned => MayClaim(p, "undo")
      /\ At(p, "undo") /\ ~l[p].owned => MayClaim(p, "undo2")
      /\ At(p, "undo2") => MayClaim(p, "undo3")
  BY <1>1, <1>2
<1> QED
  BY <1>4, <1>5, <1>6, <1>7, <1>8

LEMMA GateClaims ==
    ASSUME NEW p \in Procs, IInv, CInv, NEW at, NEW to, NEW bad, NEW ok, NEW n, NEW c,
           MayClaim(p, to), MayClaim(p, bad), MayClaim(p, "idle"),
           \/ Gate(p, at, ok, to, bad) \/ TryLock(p, at, to) \/ Ask(p, at, n, c, to, bad)
    PROVE  CInv'
<1>1. Calm
  BY GatesWriteNothing DEF Calm, Gate, TryLock, Ask, OnlyLocal, OnlyDaemon, Durable, History
<1> QED
  BY <1>1, CalmMove DEF Gate, TryLock, Ask

LEMMA ServeGatesClaim ==
    ASSUME NEW p \in Procs, IInv, CInv,
           \/ Gate(p, "s_evidence", WithinCeiling(p), "s_claims", "idle")
           \/ TryLock(p, "s_lock", "s_ps")
           \/ l[p].owned /\ Gate(p, "s_ps", Admissible({Handoff(p)}, FALSE), "s_check", "idle")
           \/ ~l[p].owned /\ Gate(p, "s_ps", Admissible({}, FALSE), "s_recheck", "idle")
           \/ Gate(p, "s_recheck", models[ServedName(p)] = None, "s_create", "idle")
           \/ Gate(p, "s_base", SameBase(p), "s_check", "undo")
           \/ Gate(p, "s_check", IsMine(p, ServedName(p)), "s_load", "idle")
           \/ Ask(p, "s_load", ServedName(p), l[p].art.ctx, "s_ps2", "undo")
           \/ Gate(p, "s_ps2", Admissible({Handoff(p)}, TRUE), "s_v1", "undo")
           \/ Gate(p, "s_auth", SameServer(p), "s_base2", "undo")
           \/ Gate(p, "s_base2", SameBase(p), "s_check2", "undo")
           \/ Gate(p, "s_check2", IsMine(p, ServedName(p)), "s_ps3", "idle")
           \/ Gate(p, "s_ps3", Admissible({Handoff(p)}, TRUE), "s_record", "undo")
           \/ Gate(p, "s_mark", TRUE, "idle", "idle")
           \/ Gate(p, "undo", MayUndo(p), "undo2", "idle")
           \/ Gate(p, "undo2", IsMine(p, ServedName(p)), "undo3", "idle")
    PROVE  CInv'
<1>1. MayClaim(p, "idle") /\ MayClaim(p, "s_claims")
  BY ClaimGoes, AwayPlaces
<1> USE <1>1, ClaimGoes, GateClaims DEF At, Loading
<1>2. CASE Gate(p, "s_evidence", WithinCeiling(p), "s_claims", "idle")
  BY <1>2
<1>3. CASE TryLock(p, "s_lock", "s_ps")
  BY <1>3 DEF TryLock
<1>4. CASE l[p].owned /\ Gate(p, "s_ps", Admissible({Handoff(p)}, FALSE), "s_check", "idle")
  BY <1>4 DEF Gate
<1>5. CASE ~l[p].owned /\ Gate(p, "s_ps", Admissible({}, FALSE), "s_recheck", "idle")
  BY <1>5 DEF Gate
<1>6. CASE Gate(p, "s_recheck", models[ServedName(p)] = None, "s_create", "idle")
  BY <1>6 DEF Gate
<1>7. CASE Gate(p, "s_base", SameBase(p), "s_check", "undo")
  BY <1>7 DEF Gate
<1>8. CASE Gate(p, "s_check", IsMine(p, ServedName(p)), "s_load", "idle")
  BY <1>8 DEF Gate
<1>9. CASE Ask(p, "s_load", ServedName(p), l[p].art.ctx, "s_ps2", "undo")
  BY <1>9 DEF Ask
<1>10. CASE Gate(p, "s_ps2", Admissible({Handoff(p)}, TRUE), "s_v1", "undo")
  BY <1>10 DEF Gate
<1>11. CASE Gate(p, "s_auth", SameServer(p), "s_base2", "undo")
  BY <1>11 DEF Gate
<1>12. CASE Gate(p, "s_base2", SameBase(p), "s_check2", "undo")
  BY <1>12 DEF Gate
<1>13. CASE Gate(p, "s_check2", IsMine(p, ServedName(p)), "s_ps3", "idle")
  BY <1>13 DEF Gate
<1>14. CASE Gate(p, "s_ps3", Admissible({Handoff(p)}, TRUE), "s_record", "undo")
  BY <1>14 DEF Gate
<1>15. CASE Gate(p, "s_mark", TRUE, "idle", "idle")
  BY <1>15
<1>16. CASE Gate(p, "undo", MayUndo(p), "undo2", "idle")
  <2>1. CASE l[p].owned
    BY <1>16, <2>1, CalmMove DEF Gate, MayUndo, OnlyLocal, Durable, History, Calm
  <2>2. CASE ~l[p].owned
    BY <1>16, <2>2 DEF Gate
  <2> QED
    BY <2>1, <2>2
<1>17. CASE Gate(p, "undo2", IsMine(p, ServedName(p)), "undo3", "idle")
  BY <1>17 DEF Gate
<1> QED
  BY <1>2, <1>3, <1>4, <1>5, <1>6, <1>7, <1>8, <1>9, <1>10, <1>11, <1>12, <1>13, <1>14, <1>15,
     <1>16, <1>17

LEMMA ServeLooksClaim ==
    ASSUME NEW p \in Procs, IInv, CInv,
           \/ ListForServe(p) \/ ReadClaims(p) \/ IdentifyServed(p) \/ ProbeContract(p)
           \/ InterruptServe(p)
    PROVE  CInv'
<1>1. MayClaim(p, "idle") /\ MayClaim(p, "s_evidence")
  BY ClaimGoes, AwayPlaces
<1>2. Calm
  BY DEF Calm, CutOff, ListForServe, ReadClaims, IdentifyServed, ProbeContract, InterruptServe,
     OnlyLocal, OnlyDaemon, Durable, History
<1>3. CASE ListForServe(p)
  BY <1>1, <1>2, <1>3, AwayPlaces, CalmEnter DEF ListForServe
<1>4. CASE ReadClaims(p)
  <2> DEFINE claim == claims[ServedName(p)]
  <2>1. At(p, "s_claims") /\ ServedName(p) = ServedOf(l[p])
    BY <1>4 DEF ReadClaims, ServedName, ServedOf
  <2>2. CASE claim # None /\ Enter(p, [owned |-> TRUE, art |-> claim.served], "s_lock")
    <3>1. PICK d : Became(p, d)
                   /\ Entered(p, [owned |-> TRUE, art |-> claim.served], "s_lock", d)
      BY <2>2, EnterGoes
    <3>2. d.pc = "s_lock" /\ d.owned /\ d.base = l[p].base /\ d.ctx = l[p].ctx
      BY <3>1 DEF Entered, Idle
    <3>3. ServedOf(d) = ServedOf(l[p]) /\ ServedOf(d) \in ServedNames
      <4>1. l[p].base \in Bases /\ l[p].ctx \in Ctxs
        BY <2>1 DEF At, IInv, InPlace, Fits, Begun, Early
      <4> QED
        BY <3>2, <4>1, NamesApart DEF ServedOf
    <3>4. ClaimFits(d, d.pc) /\ ~Creates(d, d.pc)
      BY <2>1, <2>2, <3>2, <3>3
      DEF ClaimFits, Creates, Relying, Creating, Setting, Making, Loading, Undoing
    <3> QED
      BY <1>2, <3>1, <3>3, <3>4, CalmKeeps
  <2>3. CASE claim = None /\ Goto(p, "s_lock")
    BY <1>2, <2>1, <2>3, ClaimGoes, CalmMove
  <2>4. CASE Goto(p, "idle")
    BY <1>1, <1>2, <2>4, CalmMove
  <2> QED
    BY <1>4, <2>2, <2>3, <2>4 DEF ReadClaims
<1>5. CASE IdentifyServed(p)
  BY <1>1, <1>2, <1>5, ClaimGoes, CalmEnter, CalmMove DEF IdentifyServed
<1>6. CASE ProbeContract(p)
  <2>1. MayClaim(p, "s_auth") /\ MayClaim(p, "undo")
    BY <1>6, ClaimGoes DEF ProbeContract, At, Loading
  <2> QED
    BY <1>2, <1>6, <2>1, CalmEnter, CalmMove DEF ProbeContract
<1>7. CASE InterruptServe(p)
  <2>1. At(p, "s_mark") \/ l[p].pc \in {"s_base", "s_record"} \cup Loading
    BY <1>7 DEF InterruptServe, Loading, At
  <2>2. CASE ~At(p, "s_mark") \/ l[p].owned
    <3>1. MayClaim(p, "undo")
      BY <2>1, <2>2, ClaimGoes
    <3> QED
      BY <1>2, <1>7, <3>1, CalmMove DEF InterruptServe
  <2>3. CASE At(p, "s_mark") /\ ~l[p].owned
    <3>1. PICK d : Became(p, d) /\ d.pc = "undo" /\ Alike(l[p], d)
      BY <1>7, MoveGoes DEF InterruptServe
    <3>2. ServedOf(d) = ServedOf(l[p]) /\ ServedName(p) = ServedOf(l[p])
      BY <3>1 DEF Alike, ServedOf, ServedName
    <3>3. ServedOf(d) \in ServedNames /\ ServedOf(d) \in cut'
      BY <1>7, <2>3, <3>2, PlacesNamed
      DEF InterruptServe, CutOff, At, Places, Relying, Setting
    <3> QED
      BY <1>2, <3>1, <3>3, CalmKeeps
  <2> QED
    BY <2>2, <2>3
<1> QED
  BY <1>3, <1>4, <1>5, <1>6, <1>7

\* Where a served name is written, it is nobody's, or its maker's alone.
LEMMA WriteClaims ==
    ASSUME NEW p \in Procs, IInv, CInv, CreateServed(p) \/ DeleteServed(p)
    PROVE  CInv'
<1> DEFINE n == ServedOf(l[p])
<1>1. /\ n \in ServedNames /\ (CreateServed(p) => models[n] = None)
      /\ \A m \in Names \ {n} : models'[m] = models[m]
  BY WritersWrite DEF Writes
<1>2. UNCHANGED <<claims, cut>> /\ DOMAIN models = Names
  BY DEF CreateServed, DeleteServed, OnlyDaemon, Durable, History, IInv, World
<1>3. ASSUME CreateServed(p)
      PROVE  \/ models'[n] # None /\ (Goto(p, "s_identify") \/ Goto(p, "idle"))
             \/ models' = models /\ Goto(p, "idle")
  <2>1. ServedName(p) = n /\ n \in Names
    BY <1>1 DEF ServedName, ServedOf, Names
  <2>2. Bound \in Bases /\ l[p].ctx \in Ctxs
    BY <1>3 DEF CreateServed, At, IInv, World, InPlace, Fits, Begun, Setting, Making
  <2>3. Derived(Bound, l[p].ctx) \in [of: 0..MaxBase, ctx: 0..MaxCtx]
    BY <2>2 DEF Derived, Bases, Ctxs
  <2>4. Derived(Bound, l[p].ctx) # None
    BY <2>3, OllamaAssumption
  <2>5. CASE models' = [models EXCEPT ![n] = Derived(Bound, l[p].ctx)]
    BY <1>2, <1>3, <2>1, <2>4, <2>5 DEF CreateServed
  <2> QED
    BY <1>3, <2>1, <2>5 DEF CreateServed, Created, Bound
<1> PICK d : Became(p, d) /\ d.pc \in {"idle", "s_identify"}
             /\ (d.pc # "idle" => CreateServed(p) /\ Alike(l[p], d) /\ models'[n] # None)
  <2>1. CASE CreateServed(p)
    BY <1>3, <2>1, MoveGoes
  <2>2. CASE DeleteServed(p)
    BY <2>2, MoveGoes DEF DeleteServed
  <2> QED
    BY <2>1, <2>2
<1>4. ClaimInPlace(p)
  BY DEF CInv
\* Nobody else made n.
<1>5. ASSUME NEW q \in Procs \ {p}, ServedOf(l[q]) = n, n \notin cut
      PROVE  ~Creator(q)
  <2>1. CASE CreateServed(p)
    <3>1. ClaimFits(l[q], l[q].pc)
      BY <1>5 DEF CInv, ClaimInPlace
    <3>2. Creates(l[q], l[q].pc) => models[ServedOf(l[q])] # None
      BY <3>1 DEF ClaimFits
    <3> QED
      BY <1>1, <1>5, <2>1, <3>2 DEF Creator
  <2>2. CASE DeleteServed(p)
    <3>1. Creator(p)
      BY <1>4, <1>5, <2>2
      DEF DeleteServed, At, ClaimInPlace, ClaimFits, Creator, Creates, Creating, Undoing
    <3> QED
      BY <1>5, <3>1 DEF CInv, OneCreator
  <2> QED
    BY <2>1, <2>2
\* Nobody claimed it, or it was not there before.
<1>6. n \in cut \/ claims[n] = None \/ models'[n] # None \/ models'[n] = models[n]
  <2>1. CASE CreateServed(p)
    BY <1>3, <2>1
  <2>2. CASE DeleteServed(p)
    BY <1>4, <2>2 DEF DeleteServed, At, ClaimInPlace, ClaimFits, Creates, Creating, Undoing
  <2> QED
    BY <2>1, <2>2
<1>7. \A q \in Procs \ {p} : ClaimInPlace(q)'
  <2> TAKE q \in Procs \ {p}
  <2>1. l'[q] = l[q] /\ ClaimInPlace(q)
    BY <1>3 DEF Became, CInv
  <2>2. CASE ServedOf(l[q]) = n
    BY <1>2, <1>5, <1>6, <2>1, <2>2, OtherClaims
  <2>3. CASE ServedOf(l[q]) # n
    BY <1>1, <1>2, <2>1, <2>3, PlacesNamed, OtherClaims DEF Names
  <2> QED
    BY <2>2, <2>3
<1>8. d.pc # "idle" => ServedOf(d) = n /\ d.owned = l[p].owned
  BY <1>3 DEF Alike, ServedOf
<1>9. ServedOf(d) \notin cut => ClaimFits(d, d.pc)'
  <2>1. CASE d.pc = "idle"
    BY <2>1 DEF ClaimFits, Creates, Relying, Toward, Creating, Setting, Making, Loading,
        Undoing
  <2>2. CASE d.pc = "s_identify"
    <3>1. n \notin cut => /\ l[p].owned => claims[n] # None
                          /\ ~l[p].owned => claims[n] = None
      BY <1>1, <1>3, <1>4, <2>2
      DEF CreateServed, At, ClaimInPlace, ClaimFits, Relying, Toward, Setting, Making
    <3> QED
      BY <1>2, <1>3, <1>8, <2>2, <3>1
      DEF ClaimFits, Creates, Relying, Toward, Creating, Setting, Making, Loading, Undoing
  <2> QED
    BY <1>3, <2>1, <2>2
<1>10. OneCreator'
  <2>1. d.pc = "idle" => ~Creates(d, d.pc)
    BY DEF Creates, Creating, Loading, Undoing
  <2> QED
    BY <1>2, <1>3, <1>5, <1>8, <2>1 DEF OneCreator, CInv, Creator, Became
<1> QED
  BY <1>2, <1>3, <1>7, <1>9, <1>10 DEF CInv, ClaimInPlace, Became, ServedOf

LEMMA RecordClaims ==
    ASSUME NEW p \in Procs, IInv, CInv, RecordServing(p)
    PROVE  CInv'
<1> DEFINE n == ServedOf(l[p])
<1>1. /\ At(p, "s_record") /\ models' = models /\ ClaimInPlace(p) /\ n \in ServedNames
      /\ l[p].inst \in Insts /\ Exact(l[p]) /\ l[p].base \in Bases /\ l[p].ctx \in Ctxs
      /\ DOMAIN claims = ServedNames
  BY PlacesNamed
  DEF RecordServing, At, CInv, Places, Relying, Setting, IInv, World, InPlace, Fits, Begun,
      ServedFits, Early
<1>2. CASE Goto(p, "undo") /\ UNCHANGED <<claims, cut>>
  BY <1>1, <1>2, ClaimGoes, CalmMove DEF Calm, At
<1>3. ASSUME Claim(p), NEW at, Goto(p, at),
             \/ at = "s_mark" /\ cut' = cut
             \/ at = "undo" /\ CutOff(p)
      PROVE  CInv'
  <2>1. PICK d : Became(p, d) /\ d.pc = at /\ Alike(l[p], d)
    BY <1>3, MoveGoes
  <2> DEFINE claim == [served |-> l[p].art, inst |-> l[p].inst]
  <2>2. claim # None
    <3>1. l[p].art \in [of: 0..MaxBase, ctx: 0..MaxCtx]
      BY <1>1 DEF Exact, Derived, Bases, Ctxs
    <3> QED
      BY <1>1, <3>1, OllamaAssumption DEF Insts
  <2>3. claims' = [claims EXCEPT ![n] = claim] /\ ServedName(p) = n
    BY <1>3 DEF Claim, ServedName, ServedOf
  <2> HIDE DEF claim
  <2>4. claims'[n] # None /\ \A m \in ServedNames \ {n} : claims'[m] = claims[m]
    BY <1>1, <2>2, <2>3
  <2>5. n \notin cut =>
            /\ l[p].owned => claims[n] # None
            /\ ~l[p].owned => Creator(p) /\ models[n] # None
    BY <1>1 DEF At, ClaimInPlace, ClaimFits, Creator, Creates, Relying, Setting, Creating
  <2>9. cut \subseteq cut' /\ (n \notin cut' => at = "s_mark" \/ l[p].owned)
    BY <1>3, <2>3 DEF CutOff
  <2>6. \A q \in Procs \ {p} : ClaimInPlace(q)'
    <3> TAKE q \in Procs \ {p}
    <3>1. l'[q] = l[q] /\ ClaimInPlace(q)
      BY <2>1 DEF Became, CInv
    <3>2. CASE ServedOf(l[q]) = n
      <4>1. n \notin cut => ~Creator(q)
        BY <2>5, <3>1, <3>2 DEF CInv, OneCreator, ClaimInPlace, ClaimFits, Creator
      <4>2. n \notin cut /\ ~l[q].owned /\ l[q].pc \in Toward => models[n] # None
        BY <2>5, <3>1, <3>2 DEF ClaimInPlace, ClaimFits
      <4> QED
        BY <1>1, <2>4, <2>9, <3>1, <3>2, <4>1, <4>2, OtherClaims
    <3>3. CASE ServedOf(l[q]) # n
      BY <1>1, <2>4, <2>9, <3>1, <3>3, PlacesNamed, OtherClaims
    <3> QED
      BY <3>2, <3>3
  <2>7. ServedOf(d) = n /\ d.owned = l[p].owned
    BY <2>1 DEF Alike, ServedOf
  <2>8. n \notin cut' => ClaimFits(d, d.pc)' /\ ~Creates(d, d.pc)
    BY <1>3, <2>1, <2>4, <2>7, <2>9
    DEF ServedOf, ClaimFits, Creates, Relying, Toward, Creating, Setting, Making, Loading,
        Undoing
  <2>10. ClaimInPlace(p)'
    BY <2>1, <2>7, <2>8 DEF ClaimInPlace, Became, ServedOf
  <2>11. OneCreator'
    BY <2>1, <2>7, <2>8, <2>9 DEF CInv, OneCreator, Creator, Became
  <2> QED
    BY <2>6, <2>10, <2>11 DEF CInv
<1> QED
  BY <1>2, <1>3 DEF RecordServing

LEMMA OutsideClaims ==
    ASSUME IInv, CInv, Outside
    PROVE  CInv'
<1>1. l' = l /\ UNCHANGED <<claims, cut>>
  BY DEF Outside, OutsideStep
<1>2. \/ \A n \in ServedNames : models'[n] = models[n]
      \/ \A p \in Procs : At(p, "idle")
  <2>1. /\ \A n \in ServedNames : n.kind = "served"
        /\ \A n \in ProbeNames : n.kind = "probe"
        /\ Base.kind = "base"
    BY DEF ServedNames, ProbeNames, Served, Probe, Base
  <2>2. ServedNames \cap ProbeNames = {} /\ ServedNames \subseteq Names \ {Base}
    BY <2>1 DEF Names
  <2>3. DOMAIN models = Names
    BY DEF IInv, World
  <2>4. Rebind => \A n \in ServedNames : models'[n] = models[n]
    BY <2>2, <2>3 DEF Rebind
  <2>5. RemoveDerived => \/ \A n \in ServedNames : models'[n] = models[n]
                         \/ \A p \in Procs : At(p, "idle")
    BY <2>2, <2>3 DEF RemoveDerived
  <2> QED
    BY <2>4, <2>5 DEF Outside, OutsideStep, Restart, Evict, LoadOther
<1>3. \A p \in Procs : ClaimInPlace(p)'
  <2> TAKE p \in Procs
  <2>1. l[p].pc = "idle" => l[p].pc \notin Places
    BY AwayPlaces
  <2> QED
    BY <1>1, <1>2, <2>1, PlacesNamed, OtherClaims DEF CInv, At
<1>4. OneCreator'
  BY <1>1 DEF OneCreator, CInv, Creator
<1> QED
  BY <1>3, <1>4 DEF CInv

LEMMA CInvBegins == Init => CInv
BY DEF Init, Idle, CInv, OneCreator, Creator, ClaimInPlace, ClaimFits, Creates, Relying,
    Toward,
   Creating, Setting, Making, Loading, Undoing

LEMMA CInvStep == IInv /\ CInv /\ [Next]_vars => CInv'
<1> SUFFICES ASSUME IInv, CInv, [Next]_vars PROVE CInv'
  OBVIOUS
<1>1. ASSUME NEW p \in Procs, Serve(p)
      PROVE  CInv'
  BY <1>1, ServeGatesClaim, ServeLooksClaim, WriteClaims, RecordClaims DEF Serve
<1>2. CASE UNCHANGED vars
  BY <1>2 DEF vars, CInv, OneCreator, Creator, ClaimInPlace, ClaimFits
<1> QED
  BY <1>1, <1>2, AwayKeeps, OutsideClaims DEF Next

\* The bound on the outside world's steps is counted, and only there.
Counted == budget \in [outside: Nat, commands: Nat]

LEMMA CountedAlways == Spec => []Counted
<1>1. Init => Counted
  BY DEF Init, Counted
<1>2. Counted /\ [Next]_vars => Counted'
  <2> SUFFICES ASSUME Counted, [Next]_vars PROVE Counted'
    OBVIOUS
  <2>1. ASSUME NEW p \in Procs, Characterize(p)
        PROVE  budget' = budget
    BY <2>1
    DEF Characterize, ListForCharacterize, TryLock, RecheckProbe, Gate, NextRung, CreateProbe,
        IdentifyProbe, RecordProbe, GenerateProbe, SeeProbe, ReadWalls, Cleanup, CleanupStep,
        ExpireProbe, DeleteProbe, ReleaseAfterRamp, SaveCeiling, OnlyLocal, OnlyDaemon
  <2>2. ASSUME NEW p \in Procs, Serve(p)
        PROVE  budget' = budget
    BY <2>2
    DEF Serve, ListForServe, Gate, ReadClaims, TryLock, CreateServed, IdentifyServed, Ask,
        ProbeContract, RecordServing, DeleteServed, InterruptServe, OnlyLocal, OnlyDaemon
  <2>3. ASSUME NEW p \in Procs, Run(p) \/ Killed(p)
        PROVE  budget' = budget
    BY <2>3
    DEF Run, ListForRun, ReadEvidence, TryLock, Gate, Reinventory, Ask, Generate, Show, Killed,
        OnlyLocal, OnlyDaemon
  <2>4. ASSUME NEW p \in Procs, Start(p)
        PROVE  Counted'
    BY <2>4 DEF Start, Counted
  <2>5. CASE Outside
    BY <2>5 DEF Outside, OutsideStep, Counted
  <2> QED
    BY <2>1, <2>2, <2>3, <2>4, <2>5 DEF Next, vars, Counted
<1> QED
  BY <1>1, <1>2, PTL DEF Spec

\* A claimed manifest is neither removed nor replaced, unless a claim of its name
\* was cut off from the flag that says who made it.
THEOREM ClaimedAlwaysKept == Spec => ClaimedKept
<1> DEFINE Kept == \A n \in ServedNames \ cut : ClaimIsKept(n)
<1>1. IInv /\ CInv /\ Counted /\ [Next]_vars => [Kept]_vars
  <2> SUFFICES ASSUME IInv, CInv, Counted, Next PROVE Kept
    BY DEF vars
  <2> SUFFICES ASSUME NEW n \in ServedNames \ cut, claims[n] # None,
                      models[n] = claims[n].served, budget' = budget
               PROVE  models'[n] = models[n]
    BY DEF ClaimIsKept
  <2>1. n \in Names /\ n # Base
    BY DEF Names, ServedNames, Served, Base
  <2>2. models[n] # None
    <3>1. PICK d \in Bases, c \in Ctxs : n = Served(d, c)
      BY DEF ServedNames
    <3>2. claims[n].served = Derived(d, c)
      BY <3>1 DEF IInv, Stored, ClaimsAreGoverned, Served
    <3>3. Derived(d, c) \in [of: 0..MaxBase, ctx: 0..MaxCtx]
      BY DEF Derived, Bases, Ctxs
    <3> QED
      BY <3>2, <3>3, OllamaAssumption
  <2>3. ASSUME NEW p \in Procs, CreateProbe(p) \/ DeleteProbe(p)
        PROVE  models'[n] = models[n]
    BY <2>1, <2>3, WritersWrite DEF Writes
  <2>4. ASSUME NEW p \in Procs, CreateServed(p)
        PROVE  models'[n] = models[n]
    BY <2>1, <2>2, <2>4, WritersWrite DEF Writes
  <2>5. ASSUME NEW p \in Procs, DeleteServed(p)
        PROVE  models'[n] = models[n]
    <3>1. ServedOf(l[p]) \notin cut => claims[ServedOf(l[p])] = None
      BY <2>5 DEF DeleteServed, At, CInv, ClaimInPlace, ClaimFits, Creates, Creating, Undoing
    <3> QED
      BY <2>1, <2>5, <3>1, WritersWrite DEF Writes
  <2>6. CASE Outside
    BY <2>6 DEF Outside, OutsideStep, Counted
  <2> QED
    BY <2>3, <2>4, <2>5, <2>6, OnlyWritersWrite DEF Next
<1>2. IInv /\ CInv /\ [Next]_vars => CInv'
  BY CInvStep
<1> QED
  BY <1>1, <1>2, IInvBegins, IInvStep, CInvBegins, CountedAlways, PTL DEF Spec, ClaimedKept

-----------------------------------------------------------------------------
(* The physical walls hold for every machine, model, size and margin.  What a   *)
(* step knows is what the last reading showed, and, until other programs move,  *)
(* that is what is free.  So the invariant carries the admission from the       *)
(* reading to the load, and from the load to the point.                         *)

\* The parts of the type invariant every step needs, and physics.
Physics ==
    /\ machine \in Machines /\ model \in Models /\ others \in OtherUses
    /\ runner \in {r \in RunnerSizes : r.vram <= r.size} \cup {Missing}
    /\ rung \in Rungs \cup {0}
    /\ Holds(others, runner)

\* What a reading says of a machine.
Shows(s) ==
    /\ s \in Snapshots
    /\ s.kind = "apple" <=> machine.kind = "apple"
    /\ s.kind = "nvidia" => machine.kind = "nvidia" /\ s.count = machine.gpus /\ s.acc # Missing
    /\ s.acc # Missing => s.kind = "nvidia"
    /\ s.kind = Missing => s.count = 0

\* It is still true.
Current(s) ==
    /\ s.sys # Missing => s.sys = FreeSystem
    /\ s.kind = "nvidia" => s.acc = FreeAccelerator

\* What every point that fits carries with it.
Sound(e) ==
    /\ e \in Evidence
    /\ e.sysDelta
    /\ e.placement \in OnAccelerator => machine.kind = "nvidia"
    /\ e.accDelta => e.placement \in OnAccelerator /\ "accelerator" \in e.admission.walls
    /\ e.admission.total > 0 /\ e.admission.sys # Missing
    /\ "accelerator" \in e.admission.walls => e.admission.acc # Missing
    /\ (e.placement \in OnAccelerator => e.admission.acc # Missing) => Reusable(e)

\* There is room for what was recorded.
RoomFor(e) ==
    /\ FreeSystem >= SystemMargin
                     + (IF e.placement \in OnAccelerator THEN e.size - e.vram ELSE e.size)
    /\ e.placement \in OnAccelerator => FreeAccelerator >= e.vram + AcceleratorMargin

Steps ==
    /\ pc \in {"ramp", "load", "measure", "store", "ready", "warm", "warmed", "generate",
               "generated", "shown"}
    /\ disturbed \in BOOLEAN
    /\ before # Missing => Shows(before)
    /\ pc \in {"ramp", "load", "store", "warm"} => runner = Missing
    /\ pc \in {"load", "measure"} => before # Missing /\ rung \in Rungs /\ Admitted(before, rung)
    /\ pc = "load" /\ ~disturbed => Current(before)
    /\ pc \in {"measure", "warmed"} => runner # Missing
    /\ pc \in {"warm", "warmed", "generate", "generated", "shown"} =>
           row # Missing /\ Reusable(row)

WallsInv ==
    /\ Physics
    /\ Steps
    /\ best # Missing => Sound(best)
    /\ row # Missing => Sound(row)
    /\ AdmittedLoadKeepsReserves
    /\ pc = "warm" /\ ~disturbed => RoomFor(row)
    /\ GovernedRequestKeepsReserves
    /\ pc = "shown" => runner # Missing

\* A bound is a positive number.
LEMMA BoundIsPositive ==
    ASSUME model \in Models, model.size # Missing, model.perToken # Missing, NEW c \in Rungs
    PROVE  AllocationBound(c) \in Nat /\ AllocationBound(c) > 0
<1>1. model.size \in Nat /\ model.perToken \in Nat /\ c \in Nat
  BY WallsAssumption
<1>2. c * model.perToken \in Nat
  BY <1>1
<1>3. (model.size * 5 + 3) \div 4 \in Nat
  BY <1>1
<1> HIDE DEF AllocationBound
<1> QED BY <1>2, <1>3, WallsAssumption DEF AllocationBound

\* A reading shows the machine as it is.
LEMMA ReadingShows ==
    ASSUME Physics, NEW s \in Readings
    PROVE  Shows(s) /\ Current(s)
<1>1. machine.kind \in {"none", "apple", "nvidia"} /\ machine.gpus \in Nat /\ machine.sys \in Nat
      /\ machine.acc \in Nat /\ others.sys \in Nat /\ others.acc \in Nat
  BY WallsAssumption DEF Physics
<1>2. FreeSystem \in Nat
  BY <1>1, WallsAssumption DEF Physics, Holds, FreeSystem, SystemTaken, RunnerSizes, Apple
<1>3. machine.kind = "nvidia" => FreeAccelerator \in Nat
  BY <1>1, WallsAssumption
  DEF Physics, Holds, FreeAccelerator, AcceleratorTaken, RunnerSizes, Apple
<1>4. PICK x \in {FreeSystem} \cup (IF SystemMayFail THEN {Missing} ELSE {}), a \in Accelerators :
          s = [sys |-> x, kind |-> a.kind, count |-> a.count, acc |-> a.acc]
  BY DEF Readings
<1>5. /\ a.kind \in {"apple", "nvidia", Missing} /\ a.count \in Nat /\ a.acc \in Numbers
      /\ a.kind = "apple" <=> machine.kind = "apple"
      /\ a.kind = "nvidia" => machine.kind = "nvidia" /\ a.count = machine.gpus
                              /\ a.acc = FreeAccelerator
      /\ a.acc # Missing => a.kind = "nvidia"
      /\ a.kind = Missing => a.count = 0
  BY <1>1, <1>3, <1>4, WallsAssumption DEF Accelerators, NoAccelerator, Apple, Numbers
<1>6. s \in Snapshots /\ (s.sys # Missing => s.sys = FreeSystem)
  BY <1>2, <1>4, <1>5 DEF Snapshots, Numbers
<1> QED BY <1>1, <1>3, <1>4, <1>5, <1>6, WallsAssumption DEF Shows, Current

LEMMA InitIInv == WallsInit => WallsInv
<1> QED
  BY WallsAssumption DEF WallsInit, WallsInv, Physics, Steps, AdmittedLoadKeepsReserves,
     GovernedRequestKeepsReserves, RunnerSizes

\* What an admission promises.
LEMMA AdmittedHasRoom ==
    ASSUME Physics, NEW c \in Rungs, NEW s, Shows(s), Admitted(s, c)
    PROVE  /\ AllocationBound(c) \in Nat /\ AllocationBound(c) > 0
           /\ s.sys \in Nat /\ AllocationBound(c) + SystemMargin <= s.sys
           /\ PossibleWalls(s) \in {{"system"}, {"system_unified"}, {"system", "accelerator"}}
           /\ "accelerator" \in PossibleWalls(s) <=> s.kind = "nvidia"
           /\ s.kind = "nvidia" =>
                 s.acc \in Nat /\ AllocationBound(c) + AcceleratorMargin <= s.acc
<1>1. AllocationBound(c) \in Nat /\ AllocationBound(c) > 0
  BY BoundIsPositive DEF Admitted, Physics
<1>2. s.sys \in Nat /\ s.acc \in Numbers /\ s.count \in Nat /\ s.kind \in {"apple", "nvidia", Missing}
  BY WallsAssumption DEF Shows, Snapshots, Numbers, Admitted
<1>3. AllocationBound(c) + SystemMargin <= s.sys
  BY <1>1, <1>2, WallsAssumption DEF Admitted, Within
<1>4. /\ PossibleWalls(s) \in {{"system"}, {"system_unified"}, {"system", "accelerator"}}
      /\ "accelerator" \in PossibleWalls(s) <=> s.kind = "nvidia"
  BY <1>2, WallsAssumption DEF Admitted, PossibleWalls
<1>5. s.kind = "nvidia" =>
                 s.acc \in Nat /\ AllocationBound(c) + AcceleratorMargin <= s.acc
  BY <1>1, <1>2, <1>4, WallsAssumption DEF Admitted, Within, Shows, Numbers
<1> QED BY <1>1, <1>2, <1>3, <1>4, <1>5

\* A point that fits is sound evidence.
LEMMA PointIsSound ==
    ASSUME Physics, NEW c \in Rungs, NEW b, Shows(b), Admitted(b, c),
           NEW s, Shows(s), NEW r \in RunnerSizes, r.vram <= r.size, KeepsWalls(s, r, c)
    PROVE  Sound(Point(b, s, r, c))
<1> DEFINE e == Point(b, s, r, c)
<1>1. /\ e.ctx = c /\ e.placement = Placement(s, r) /\ e.size = r.size /\ e.vram = r.vram
      /\ e.sysDelta = (b.sys # Missing /\ s.sys # Missing)
      /\ e.accDelta = (Placement(s, r) \in OnAccelerator /\ b.acc # Missing /\ s.acc # Missing)
      /\ e.admission = Admission(b, c)
  BY DEF Point
<1>2. /\ Admission(b, c).ctx = c /\ Admission(b, c).total = AllocationBound(c)
      /\ Admission(b, c).walls = PossibleWalls(b) /\ Admission(b, c).sys = b.sys
      /\ Admission(b, c).acc = IF "accelerator" \in PossibleWalls(b) THEN b.acc ELSE Missing
  BY DEF Admission
<1>3. /\ AllocationBound(c) \in Nat /\ AllocationBound(c) > 0
      /\ b.sys \in Nat /\ AllocationBound(c) + SystemMargin <= b.sys
      /\ PossibleWalls(b) \in {{"system"}, {"system_unified"}, {"system", "accelerator"}}
      /\ "accelerator" \in PossibleWalls(b) <=> b.kind = "nvidia"
      /\ b.kind = "nvidia" => b.acc \in Nat /\ AllocationBound(c) + AcceleratorMargin <= b.acc
  BY AdmittedHasRoom
<1>4. /\ Placement(s, r) \in {"cpu", "unified", "accelerator", "partial_offload"}
      /\ Placement(s, r) \in OnAccelerator => s.kind = "nvidia" /\ s.acc # Missing
      /\ Placement(s, r) = "cpu" => r.vram = 0
      /\ Placement(s, r) = "accelerator" => r.vram = r.size
      /\ Placement(s, r) = "partial_offload" => 0 < r.vram /\ r.vram < r.size
      /\ Placement(s, r) = "unified" => s.kind = "apple"
  BY DEF KeepsWalls, Placement, OnAccelerator, RunnerSizes
<1>5. e.admission \in [ctx: Nat, total: Nat, walls: Walls, sys: Numbers, acc: Numbers]
  BY <1>1, <1>2, <1>3, WallsAssumption DEF Admission, Walls, Numbers
<1>6. e \in Evidence
  BY <1>1, <1>4, <1>5, WallsAssumption DEF Point, Evidence, RunnerSizes
<1>7. e.sysDelta
  <2>1. b.sys # Missing /\ s.sys # Missing
    BY <1>3, WallsAssumption DEF KeepsWalls
  <2>2. e.sysDelta <=> b.sys # Missing /\ s.sys # Missing
    BY Zenon DEF Point
  <2> QED BY <2>1, <2>2, Zenon
<1>8. e.placement \in OnAccelerator => machine.kind = "nvidia"
  BY <1>1, <1>4 DEF Shows
<1>9. e.accDelta => e.placement \in OnAccelerator /\ "accelerator" \in e.admission.walls
  BY <1>1, <1>2, <1>3 DEF Shows
<1>10. e.admission.total > 0 /\ e.admission.sys # Missing
       /\ ("accelerator" \in e.admission.walls => e.admission.acc # Missing)
  BY <1>1, <1>2, <1>3, WallsAssumption
<1>11. ASSUME e.placement \in OnAccelerator => e.admission.acc # Missing PROVE Reusable(e)
  <2>1. e.placement \in OnAccelerator => b.kind = "nvidia"
    BY <1>1, <1>2, <1>3, <1>11
  <2>2. e.accDelta <=> e.placement \in OnAccelerator
    BY <1>1, <1>3, <1>4, <2>1, WallsAssumption DEF Shows
  <2>3. WallEvidenceComplete(e)
    BY <1>1, <1>4, <1>7, <2>2 DEF WallEvidenceComplete
  <2>4. AdmissionEvidenceComplete(e)
    BY <1>1, <1>2, <1>3, WallsAssumption DEF AdmissionEvidenceComplete, Within
  <2> QED BY <2>3, <2>4 DEF Reusable
<1> QED BY <1>6, <1>7, <1>8, <1>9, <1>10, <1>11 DEF Sound

\* What is kept where neither the world nor what a reading may show changes.
LEMMA StillShows ==
    ASSUME Still
    PROVE  /\ \A s : Shows(s)' <=> Shows(s)
           /\ \A e : Sound(e)' <=> Sound(e)
           /\ \A s, c : Admitted(s, c)' <=> Admitted(s, c)
<1>1. machine' = machine /\ model' = model
  BY DEF Still
<1>2. \A s : Shows(s)' <=> Shows(s)
  BY <1>1 DEF Shows
<1>3. \A e : Sound(e)' <=> Sound(e)
  BY <1>1 DEF Sound
<1>4. \A s, c : Admitted(s, c)' <=> Admitted(s, c)
  <2>1. \A c : AllocationBound(c)' = AllocationBound(c)
    BY <1>1 DEF AllocationBound
  <2> QED BY <1>1, <2>1 DEF Admitted, AllocationBound
<1> QED BY <1>2, <1>3, <1>4

\* As long as the runner stays too, so does what is free.
LEMMA StillFree ==
    ASSUME Still, runner' = runner
    PROVE  /\ FreeSystem' = FreeSystem /\ FreeAccelerator' = FreeAccelerator
           /\ \A b : Roomy(b)' <=> Roomy(b)
           /\ Physics /\ rung' \in Rungs \cup {0} => Physics'
<1>1. machine' = machine /\ model' = model /\ others' = others
  BY DEF Still
<1>2. FreeSystem' = FreeSystem /\ FreeAccelerator' = FreeAccelerator
  BY <1>1 DEF FreeSystem, FreeAccelerator, SystemTaken, AcceleratorTaken, Apple
<1>3. \A b : Roomy(b)' <=> Roomy(b)
  BY <1>1, <1>2 DEF Roomy
<1>4. Physics /\ rung' \in Rungs \cup {0} => Physics'
  BY <1>1 DEF Physics, Holds, SystemTaken, AcceleratorTaken, Apple
<1> QED BY <1>2, <1>3, <1>4

\* The ramp reads and admits the next rung.
LEMMA PreflightKeeps == WallsInv /\ Preflight => WallsInv'
<1> SUFFICES ASSUME WallsInv, Preflight PROVE WallsInv'
  OBVIOUS
<1>1. PICK c \in Rungs, s \in Readings :
          rung' = c /\ before' = s /\ pc' = IF Admitted(s, c) THEN "load" ELSE "store"
  BY DEF Preflight
<1>2. Still /\ runner' = runner /\ runner = Missing /\ best' = best /\ row' = row
      /\ disturbed' = FALSE
  BY DEF Preflight, WallsInv, Steps
<1>3. Shows(s) /\ Current(s)
  BY ReadingShows DEF WallsInv
<1>4. Physics'
  BY <1>1, <1>2, StillFree DEF WallsInv
<1>5. Steps'
  <2>1. Shows(before)' /\ Current(before)'
    BY <1>1, <1>2, <1>3, StillShows, StillFree DEF Shows, Current, Still
  <2>2. pc' = "load" => Admitted(before, rung)'
    BY <1>1, <1>2, StillShows DEF Admitted, AllocationBound, Still, PossibleWalls, Within
  <2>3. before' # Missing
    BY <1>1, <1>3, WallsAssumption DEF Shows, Snapshots
  <2> QED BY <1>1, <1>2, <2>1, <2>2, <2>3 DEF Steps
<1>6. (best # Missing => Sound(best))' /\ (row # Missing => Sound(row))'
  BY <1>2 DEF WallsInv, Sound, Still
<1> QED
  BY <1>1, <1>2, <1>4, <1>5, <1>6
  DEF WallsInv, AdmittedLoadKeepsReserves, GovernedRequestKeepsReserves

LEMMA LastRungKeeps == WallsInv /\ LastRung => WallsInv'
<1> SUFFICES ASSUME WallsInv, LastRung PROVE WallsInv'
  OBVIOUS
<1>1. Still /\ pc = "ramp" /\ pc' = "store"
      /\ UNCHANGED <<runner, rung, before, best, row, disturbed>>
  BY DEF LastRung
<1>2. Physics'
  BY <1>1, StillFree DEF WallsInv, Physics
<1>3. Steps' /\ (best # Missing => Sound(best))' /\ (row # Missing => Sound(row))'
  BY <1>1, StillShows DEF WallsInv, Steps, Shows, Sound, Still
<1> QED
  BY <1>1, <1>2, <1>3 DEF WallsInv, AdmittedLoadKeepsReserves, GovernedRequestKeepsReserves

\* What the daemon loads, it takes from what was free.
LEMMA LoadTakes ==
    ASSUME Physics, runner = Missing, Still, NEW asked \in Nat, NEW limit \in Nat,
           Loads(asked, limit)
    PROVE  /\ runner' \in RunnerSizes /\ runner'.vram <= runner'.size /\ runner'.size <= limit
           /\ runner' # Missing
           /\ Holds(others, runner)'
           /\ FreeSystem' = FreeSystem
                 - (IF machine.kind = "apple" THEN runner'.size ELSE runner'.size - runner'.vram)
           /\ FreeAccelerator' = FreeAccelerator - (IF machine.kind = "apple" THEN 0 ELSE runner'.vram)
<1>1. PICK a \in Allocations, c \in Rungs :
          a.size <= limit /\ runner' = [size |-> a.size, vram |-> a.vram, ctx |-> c]
          /\ Holds(others, runner')
  BY DEF Loads
<1>2. machine' = machine /\ others' = others
  BY DEF Still
<1>3. runner' \in RunnerSizes /\ runner'.vram <= runner'.size /\ runner'.size <= limit
  BY <1>1, WallsAssumption DEF RunnerSizes
<1>4. runner' # Missing
  BY <1>3, WallsAssumption
<1>5. Holds(others, runner)'
  BY <1>1, <1>2 DEF Holds, SystemTaken, AcceleratorTaken, Apple
<1>6. machine.sys \in Nat /\ machine.acc \in Nat /\ others.sys \in Nat /\ others.acc \in Nat
  BY WallsAssumption DEF Physics
<1>7. /\ FreeSystem = machine.sys - others.sys /\ FreeAccelerator = machine.acc - others.acc
  BY <1>6 DEF FreeSystem, FreeAccelerator, SystemTaken, AcceleratorTaken
<1>8. /\ FreeSystem' = machine.sys - others.sys
             - (IF machine.kind = "apple" THEN runner'.size ELSE runner'.size - runner'.vram)
      /\ FreeAccelerator' = machine.acc - others.acc - (IF machine.kind = "apple" THEN 0 ELSE runner'.vram)
  BY <1>2, <1>4 DEF FreeSystem, FreeAccelerator, SystemTaken, AcceleratorTaken, Apple
<1> QED BY <1>3, <1>4, <1>5, <1>7, <1>8

\* The daemon loads the probe, or does not.
LEMMA LoadProbeKeeps == WallsInv /\ LoadProbe => WallsInv'
<1> SUFFICES ASSUME WallsInv, LoadProbe PROVE WallsInv'
  OBVIOUS
<1>1. Still /\ UNCHANGED <<rung, before, best, row, disturbed>> /\ runner = Missing /\ pc = "load"
  BY DEF LoadProbe, WallsInv, Steps
<1>2. (best # Missing => Sound(best))' /\ (row # Missing => Sound(row))'
  BY <1>1 DEF WallsInv, Sound, Still
<1>3. CASE pc' = "store" /\ UNCHANGED runner
  <2>1. Physics'
    BY <1>1, <1>3, StillFree DEF WallsInv, Physics
  <2>2. Steps'
    BY <1>1, <1>3 DEF WallsInv, Steps, Shows, Still
  <2> QED
    BY <1>2, <1>3, <2>1, <2>2
    DEF WallsInv, AdmittedLoadKeepsReserves, GovernedRequestKeepsReserves
<1>4. CASE Loads(rung, AllocationBound(rung)) /\ pc' = "measure"
  <2>1. /\ rung \in Rungs /\ rung \in Nat /\ Shows(before) /\ Admitted(before, rung)
        /\ ~disturbed => Current(before)
    BY <1>1, WallsAssumption DEF WallsInv, Steps
  <2>2. /\ AllocationBound(rung) \in Nat
        /\ before.sys \in Nat /\ AllocationBound(rung) + SystemMargin <= before.sys
        /\ before.kind = "nvidia" =>
              before.acc \in Nat /\ AllocationBound(rung) + AcceleratorMargin <= before.acc
    BY <2>1, AdmittedHasRoom DEF WallsInv
  <2>3. /\ runner' \in RunnerSizes /\ runner'.vram <= runner'.size
        /\ runner'.size <= AllocationBound(rung) /\ runner' # Missing
        /\ Holds(others, runner)'
        /\ FreeSystem' = FreeSystem
              - (IF machine.kind = "apple" THEN runner'.size ELSE runner'.size - runner'.vram)
        /\ FreeAccelerator' = FreeAccelerator - (IF machine.kind = "apple" THEN 0 ELSE runner'.vram)
    BY <1>1, <1>4, <2>1, <2>2, LoadTakes DEF WallsInv
  <2>4. Physics'
    BY <1>1, <2>3 DEF WallsInv, Physics, Still
  <2>5. Steps'
    <3>1. Admitted(before, rung)'
      BY <1>1, <2>1 DEF Admitted, AllocationBound, Still, PossibleWalls, Within
    <3> QED BY <1>1, <1>4, <2>1, <2>3, <3>1 DEF WallsInv, Steps, Shows, Still
  <2>6. AdmittedLoadKeepsReserves'
    <3> SUFFICES ASSUME ~disturbed, machine.kind = "nvidia" => before.kind = "nvidia"
                 PROVE  Roomy(TRUE)'
      BY <1>1 DEF AdmittedLoadKeepsReserves, Still
    <3>1. FreeSystem = before.sys /\ (before.kind = "nvidia" => FreeAccelerator = before.acc)
      BY <2>1, <2>2, WallsAssumption DEF Current
    <3>2. machine.kind = "nvidia" => before.kind = "nvidia"
      OBVIOUS
    <3>3. runner'.size \in Nat /\ runner'.vram \in Nat
      BY <2>3 DEF RunnerSizes
    <3>4. FreeSystem' >= SystemMargin
      BY <2>2, <2>3, <3>1, <3>3, WallsAssumption
    <3>5. machine.kind = "nvidia" => FreeAccelerator' >= AcceleratorMargin
      BY <2>2, <2>3, <3>1, <3>2, <3>3, WallsAssumption
    <3> QED BY <1>1, <3>4, <3>5 DEF Roomy, Still
  <2> QED
    BY <1>2, <1>4, <2>4, <2>5, <2>6 DEF WallsInv, GovernedRequestKeepsReserves
<1> QED BY <1>3, <1>4 DEF LoadProbe

\* A point that fits is kept.
LEMMA MeasureKeeps == WallsInv /\ Measure => WallsInv'
<1> SUFFICES ASSUME WallsInv, Measure PROVE WallsInv'
  OBVIOUS
<1>1. PICK s \in Readings :
          IF KeepsWalls(s, runner, rung)
          THEN best' = Point(before, s, runner, rung) /\ pc' = "ramp"
          ELSE pc' = "store" /\ UNCHANGED best
  BY DEF Measure
<1>2. Still /\ runner' = Missing /\ before' = Missing /\ disturbed' = FALSE /\ rung' = rung
      /\ row' = row /\ pc = "measure"
  BY DEF Measure
<1>3. Physics'
  BY <1>2, WallsAssumption
  DEF WallsInv, Physics, Holds, SystemTaken, AcceleratorTaken, Still, Apple, RunnerSizes
<1>4. (best # Missing => Sound(best))'
  <2>1. /\ Shows(s) /\ Shows(before) /\ Admitted(before, rung) /\ rung \in Rungs
        /\ runner \in RunnerSizes /\ runner.vram <= runner.size
    BY <1>2, ReadingShows DEF WallsInv, Physics, Steps
  <2>2. KeepsWalls(s, runner, rung) => Sound(Point(before, s, runner, rung))
    BY <2>1, PointIsSound DEF WallsInv
  <2>3. best' # Missing => Sound(best')
    BY <1>1, <2>2 DEF WallsInv
  <2> QED BY <1>2, <2>3 DEF Sound, Still
<1>5. Steps' /\ (row # Missing => Sound(row))'
  BY <1>1, <1>2 DEF WallsInv, Steps, Sound, Still
<1> QED
  BY <1>1, <1>3, <1>4, <1>5
  DEF WallsInv, AdmittedLoadKeepsReserves, GovernedRequestKeepsReserves

\* The best point is stored.
LEMMA StoreKeeps == WallsInv /\ Store => WallsInv'
<1> SUFFICES ASSUME WallsInv, Store PROVE WallsInv'
  OBVIOUS
<1>1. Still /\ row' = best /\ pc' = "ready" /\ rung' = 0 /\ before' = Missing /\ best' = Missing
      /\ UNCHANGED <<runner, disturbed>>
  BY DEF Store
<1>2. Physics'
  BY <1>1, StillFree DEF WallsInv
<1>3. Steps' /\ (best # Missing => Sound(best))' /\ (row # Missing => Sound(row))'
  BY <1>1 DEF WallsInv, Steps, Sound, Still
<1> QED
  BY <1>1, <1>2, <1>3 DEF WallsInv, AdmittedLoadKeepsReserves, GovernedRequestKeepsReserves

\* A governed request is admitted only where there is room.
LEMMA AdmitKeeps == WallsInv /\ Admit => WallsInv'
<1> SUFFICES ASSUME WallsInv, Admit PROVE WallsInv'
  OBVIOUS
<1>1. PICK s \in Readings :
         pc' = IF ~(Headroom(s, row, runner # Missing)
                    /\ (runner # Missing => MatchesEvidence(s, runner, row))) THEN "ready"
               ELSE IF runner = Missing THEN "warm" ELSE "generate"
  BY DEF Admit
<1>2. Still /\ UNCHANGED <<runner, rung, before, best, row>> /\ disturbed' = FALSE
      /\ row # Missing /\ Reusable(row) /\ Sound(row)
  BY DEF Admit, WallsInv
<1>3. Physics'
  BY <1>2, StillFree DEF WallsInv, Physics
<1>4. Steps' /\ (best # Missing => Sound(best))' /\ (row # Missing => Sound(row))'
  BY <1>1, <1>2 DEF WallsInv, Steps, Shows, Sound, Still
<1>5. pc' = "warm" => RoomFor(row)'
  <2> SUFFICES ASSUME pc' = "warm" PROVE RoomFor(row)'
    OBVIOUS
  <2>1. runner = Missing /\ Headroom(s, row, FALSE)
    BY <1>1
  <2>2. Shows(s) /\ Current(s)
    BY ReadingShows DEF WallsInv
  <2>3. row.size \in Nat /\ row.vram \in Nat
    BY <1>2 DEF Sound, Evidence
  <2>4. FreeSystem >= SystemMargin
                + (IF row.placement \in OnAccelerator THEN row.size - row.vram ELSE row.size)
    BY <2>1, <2>2, <2>3, WallsAssumption DEF Headroom, Current
  <2>5. row.placement \in OnAccelerator => FreeAccelerator >= row.vram + AcceleratorMargin
    BY <2>1, <2>2, <2>3, WallsAssumption DEF Headroom, Current
  <2>6. FreeSystem' = FreeSystem /\ FreeAccelerator' = FreeAccelerator /\ row' = row
    BY <1>2, StillFree
  <2> QED BY <2>4, <2>5, <2>6 DEF RoomFor
<1> QED
  BY <1>1, <1>3, <1>4, <1>5
  DEF WallsInv, AdmittedLoadKeepsReserves, GovernedRequestKeepsReserves

\* A request never loads more context than the row's, and less than the machine has.
LEMMA RequestLoads ==
    ASSUME WallsInv, row # Missing
    PROVE  row.ctx \in Nat /\ machine.sys + machine.acc \in Nat
<1>1. machine.sys \in Nat /\ machine.acc \in Nat
  BY WallsAssumption DEF WallsInv, Physics
<1>2. row.ctx \in Nat
  BY DEF WallsInv, Sound, Evidence
<1> QED BY <1>1, <1>2

\* The daemon warms the model, or does not.
LEMMA WallsWarmKeeps == WallsInv /\ Warm => WallsInv'
<1> SUFFICES ASSUME WallsInv, Warm PROVE WallsInv'
  OBVIOUS
<1>1. Still /\ UNCHANGED <<rung, before, best, row, disturbed>> /\ runner = Missing /\ pc = "warm"
      /\ row # Missing /\ Reusable(row) /\ Sound(row)
  BY DEF Warm, WallsInv, Steps
<1>2. (best # Missing => Sound(best))' /\ (row # Missing => Sound(row))'
  BY <1>1 DEF WallsInv, Sound, Still
<1>3. CASE pc' = "ready" /\ UNCHANGED runner
  <2>1. Physics'
    BY <1>1, <1>3, StillFree DEF WallsInv, Physics
  <2>2. Steps'
    BY <1>1, <1>3 DEF WallsInv, Steps, Shows, Still
  <2> QED
    BY <1>2, <1>3, <2>1, <2>2
    DEF WallsInv, AdmittedLoadKeepsReserves, GovernedRequestKeepsReserves
<1>4. CASE Loads(row.ctx, machine.sys + machine.acc) /\ pc' = "warmed"
  <2>1. /\ runner' \in RunnerSizes /\ runner'.vram <= runner'.size /\ runner' # Missing
        /\ Holds(others, runner)'
        /\ FreeSystem' = FreeSystem
              - (IF machine.kind = "apple" THEN runner'.size ELSE runner'.size - runner'.vram)
        /\ FreeAccelerator' = FreeAccelerator - (IF machine.kind = "apple" THEN 0 ELSE runner'.vram)
    BY <1>1, <1>4, RequestLoads, LoadTakes DEF WallsInv
  <2>2. Physics'
    BY <1>1, <2>1 DEF WallsInv, Physics, Still
  <2>3. Steps'
    BY <1>1, <1>4, <2>1 DEF WallsInv, Steps, Shows, Still
  <2>4. GovernedRequestKeepsReserves'
    <3> SUFFICES ASSUME ~disturbed, runner'.size = row.size, runner'.vram = row.vram
                 PROVE  Roomy(row.placement \in OnAccelerator)'
      BY <1>1, <1>4 DEF GovernedRequestKeepsReserves
    <3>1. RoomFor(row)
      BY <1>1 DEF WallsInv
    <3>2. machine.sys \in Nat /\ machine.acc \in Nat /\ others.sys \in Nat /\ others.acc \in Nat
          /\ runner'.size \in Nat /\ runner'.vram \in Nat
      BY <2>1, WallsAssumption DEF WallsInv, Physics, RunnerSizes
    <3>3. FreeSystem \in Int /\ FreeAccelerator \in Int
      BY <1>1, <3>2 DEF FreeSystem, FreeAccelerator, SystemTaken, AcceleratorTaken
    <3>4. row.placement \in OnAccelerator => machine.kind = "nvidia"
      BY <1>1 DEF Sound
    <3>5. FreeSystem' >= SystemMargin
      BY <2>1, <3>1, <3>2, <3>3, <3>4, WallsAssumption DEF RoomFor
    <3>6. row.placement \in OnAccelerator => FreeAccelerator' >= AcceleratorMargin
      BY <2>1, <3>1, <3>2, <3>3, <3>4, WallsAssumption DEF RoomFor
    <3> QED BY <1>1, <3>5, <3>6 DEF Roomy, Still
  <2> QED
    BY <1>2, <1>4, <2>1, <2>2, <2>3, <2>4 DEF WallsInv, AdmittedLoadKeepsReserves
<1> QED BY <1>3, <1>4 DEF Warm

\* What a reading finds in order is in order.
LEMMA MatchHasRoom ==
    ASSUME Physics, Steps, runner # Missing, NEW s \in Readings, MatchesEvidence(s, runner, row)
    PROVE  Roomy(runner.vram > 0) /\ runner.ctx = row.ctx
<1>1. Shows(s) /\ Current(s)
  BY ReadingShows
<1>2. KeepsWalls(s, runner, row.ctx)
  BY DEF MatchesEvidence
<1>3. FreeSystem >= SystemMargin /\ runner.ctx = row.ctx
  BY <1>1, <1>2 DEF KeepsWalls, Current
<1>4. ASSUME machine.kind = "nvidia", runner.vram > 0 PROVE FreeAccelerator >= AcceleratorMargin
  <2>1. runner.vram \in Nat /\ runner.vram # 0
    BY <1>4 DEF Physics, RunnerSizes
  <2>2. s.kind # "apple" /\ Placement(s, runner) # "unknown"
    BY <1>1, <1>2, <1>4 DEF Shows, KeepsWalls
  <2>3. s.kind = "nvidia" /\ Placement(s, runner) \in OnAccelerator
    BY <2>1, <2>2 DEF Placement, OnAccelerator
  <2> QED BY <1>1, <1>2, <2>3 DEF KeepsWalls, Current
<1> QED BY <1>3, <1>4 DEF Roomy

LEMMA WallsRecheckKeeps ==
    ASSUME WallsInv, NEW from, NEW to, Recheck(from, to),
           <<from, to>> \in {<<"warmed", "generate">>, <<"generated", "shown">>}
    PROVE  WallsInv'
<1>1. PICK s \in Readings :
          pc' = IF runner # Missing /\ MatchesEvidence(s, runner, row) THEN to ELSE "ready"
  BY DEF Recheck
<1>2. Still /\ UNCHANGED <<runner, rung, before, best, row>> /\ pc = from /\ disturbed' = FALSE
  BY DEF Recheck
<1>3. pc \in {"warmed", "generated"} /\ to \in {"generate", "shown"}
  BY <1>2
<1>4. Physics'
  BY <1>2, StillFree DEF WallsInv, Physics
<1>5. Steps' /\ (best # Missing => Sound(best))' /\ (row # Missing => Sound(row))'
  BY <1>1, <1>2, <1>3 DEF WallsInv, Steps, Shows, Sound, Still
<1>6. GovernedRequestKeepsReserves' /\ (pc = "shown" => runner # Missing)'
  <2>1. pc' = "shown" => runner # Missing /\ MatchesEvidence(s, runner, row)
    BY <1>1
  <2>2. pc' = "shown" => Roomy(runner.vram > 0) /\ runner.ctx = row.ctx
    BY <2>1, MatchHasRoom DEF WallsInv
  <2>3. Roomy(runner.vram > 0)' <=> Roomy(runner.vram > 0)
    BY <1>2, StillFree DEF Roomy, Still
  <2>4. pc' # "warmed"
    BY <1>1, <1>3
  <2> QED BY <1>2, <2>1, <2>2, <2>3, <2>4 DEF GovernedRequestKeepsReserves
<1> QED
  BY <1>1, <1>3, <1>4, <1>5, <1>6 DEF WallsInv, AdmittedLoadKeepsReserves

\* While it generates, the daemon may do what it likes.
LEMMA GenerateReplyKeeps == WallsInv /\ GenerateReply => WallsInv'
<1> SUFFICES ASSUME WallsInv, GenerateReply PROVE WallsInv'
  OBVIOUS
<1>1. Still /\ UNCHANGED <<rung, before, best, row, disturbed>> /\ pc = "generate"
      /\ pc' = "generated" /\ row # Missing
  BY DEF GenerateReply, WallsInv, Steps
<1>2. Physics'
  <2>1. CASE Loads(row.ctx, machine.sys + machine.acc)
    <3>1. PICK a \in Allocations, c \in Rungs :
              runner' = [size |-> a.size, vram |-> a.vram, ctx |-> c] /\ Holds(others, runner')
      BY <2>1 DEF Loads
    <3>2. runner' \in {r \in RunnerSizes : r.vram <= r.size}
      BY <3>1, WallsAssumption DEF RunnerSizes
    <3> QED
      BY <1>1, <3>1, <3>2
      DEF WallsInv, Physics, Holds, Still, SystemTaken, AcceleratorTaken, Apple
  <2>2. CASE runner' = Missing
    BY <1>1, <2>2, WallsAssumption
    DEF WallsInv, Physics, Holds, SystemTaken, AcceleratorTaken, Still, Apple, RunnerSizes
  <2>3. CASE UNCHANGED runner
    BY <1>1, <2>3, StillFree DEF WallsInv, Physics
  <2> QED BY <2>1, <2>2, <2>3 DEF GenerateReply
<1>3. Steps' /\ (best # Missing => Sound(best))' /\ (row # Missing => Sound(row))'
  BY <1>1 DEF WallsInv, Steps, Shows, Sound, Still
<1> QED
  BY <1>1, <1>2, <1>3 DEF WallsInv, AdmittedLoadKeepsReserves, GovernedRequestKeepsReserves

LEMMA FinishKeeps == WallsInv /\ Finish => WallsInv'
<1> SUFFICES ASSUME WallsInv, Finish PROVE WallsInv'
  OBVIOUS
<1>1. Still /\ pc' = "ready" /\ UNCHANGED <<runner, rung, before, best, row, disturbed>>
  BY DEF Finish
<1>2. Physics'
  BY <1>1, StillFree DEF WallsInv, Physics
<1>3. Steps' /\ (best # Missing => Sound(best))' /\ (row # Missing => Sound(row))'
  BY <1>1 DEF WallsInv, Steps, Shows, Sound, Still
<1> QED
  BY <1>1, <1>2, <1>3 DEF WallsInv, AdmittedLoadKeepsReserves, GovernedRequestKeepsReserves

LEMMA EvictKeeps == WallsInv /\ RunnerEvicted => WallsInv'
<1> SUFFICES ASSUME WallsInv, RunnerEvicted PROVE WallsInv'
  OBVIOUS
<1>1. Still /\ pc = "ready" /\ runner' = Missing
      /\ UNCHANGED <<pc, rung, before, best, row, disturbed>>
  BY DEF RunnerEvicted
<1>2. Physics'
  BY <1>1, WallsAssumption
  DEF WallsInv, Physics, Holds, SystemTaken, AcceleratorTaken, Still, Apple, RunnerSizes
<1>3. Steps' /\ (best # Missing => Sound(best))' /\ (row # Missing => Sound(row))'
  BY <1>1 DEF WallsInv, Steps, Shows, Sound, Still
<1> QED
  BY <1>1, <1>2, <1>3 DEF WallsInv, AdmittedLoadKeepsReserves, GovernedRequestKeepsReserves

\* Other programs move: nothing is promised until the next reading.
LEMMA OtherProgramsKeep == WallsInv /\ Others => WallsInv'
<1> SUFFICES ASSUME WallsInv, Others PROVE WallsInv'
  OBVIOUS
<1>1. /\ others' \in OtherUses /\ Holds(others', runner) /\ disturbed' = TRUE
      /\ UNCHANGED <<pc, machine, model, runner, rung, before, best, row>>
  BY DEF Others
<1>2. Physics'
  BY <1>1 DEF WallsInv, Physics, Holds, SystemTaken, AcceleratorTaken, Apple
<1>3. Steps'
  BY <1>1 DEF WallsInv, Steps, Shows, Admitted, AllocationBound
<1>4. (best # Missing => Sound(best))' /\ (row # Missing => Sound(row))'
  BY <1>1 DEF WallsInv, Sound
<1>5. GovernedRequestKeepsReserves' /\ AdmittedLoadKeepsReserves'
  BY <1>1 DEF GovernedRequestKeepsReserves, AdmittedLoadKeepsReserves
<1> QED
  BY <1>1, <1>2, <1>3, <1>4, <1>5 DEF WallsInv

LEMMA StutterKeeps == WallsInv /\ UNCHANGED wallsVars => WallsInv'
<1> SUFFICES ASSUME WallsInv, UNCHANGED wallsVars PROVE WallsInv'
  OBVIOUS
<1> USE DEF wallsVars
<1>1. Still /\ UNCHANGED <<pc, runner, rung, before, best, row, disturbed>>
  BY DEF Still
<1>2. Physics' /\ Steps'
  BY StillFree DEF WallsInv, Physics, Steps, Shows, Current, Admitted, AllocationBound, Still,
     FreeSystem, FreeAccelerator, SystemTaken, AcceleratorTaken, Apple, Holds
<1>3. (best # Missing => Sound(best))' /\ (row # Missing => Sound(row))'
  BY DEF WallsInv, Sound
<1>4. Roomy(TRUE)' <=> Roomy(TRUE)
  BY <1>1, StillFree
<1>5. (pc = "warm" /\ ~disturbed => RoomFor(row))'
  BY <1>1, StillFree DEF WallsInv, RoomFor
<1>6. GovernedRequestKeepsReserves'
  BY <1>1, StillFree DEF WallsInv, GovernedRequestKeepsReserves, Roomy, Still
<1>7. AdmittedLoadKeepsReserves'
  <2> SUFFICES ASSUME (pc = "measure" /\ ~disturbed
                       /\ (machine.kind = "nvidia" => before.kind = "nvidia"))'
               PROVE  Roomy(TRUE)'
    BY DEF AdmittedLoadKeepsReserves
  <2>1. pc = "measure" /\ ~disturbed /\ (machine.kind = "nvidia" => before.kind = "nvidia")
    BY <1>1 DEF Still
  <2>2. Roomy(TRUE)
    BY <2>1 DEF WallsInv, AdmittedLoadKeepsReserves
  <2> QED BY <1>4, <2>2
<1>8. (pc = "shown" => runner # Missing)'
  BY <1>1 DEF WallsInv
<1> QED BY <1>2, <1>3, <1>5, <1>6, <1>7, <1>8 DEF WallsInv

LEMMA NextKeeps == WallsInv /\ [WallsNext]_wallsVars => WallsInv'
<1> SUFFICES ASSUME WallsInv, [WallsNext]_wallsVars PROVE WallsInv'
  OBVIOUS
<1>1. CASE Recheck("warmed", "generate")
  BY <1>1, WallsRecheckKeeps
<1>2. CASE Recheck("generated", "shown")
  BY <1>2, WallsRecheckKeeps
<1>3. CASE Preflight \/ LastRung \/ LoadProbe \/ Measure \/ Store
  BY <1>3, PreflightKeeps, LastRungKeeps, LoadProbeKeeps, MeasureKeeps, StoreKeeps
<1>4. CASE Admit \/ Warm \/ GenerateReply \/ Finish \/ RunnerEvicted \/ Others \/ UNCHANGED wallsVars
  BY <1>4, AdmitKeeps, WallsWarmKeeps, GenerateReplyKeeps, FinishKeeps, EvictKeeps,
      OtherProgramsKeep, StutterKeeps
<1> QED BY <1>1, <1>2, <1>3, <1>4, Zenon DEF WallsNext

-----------------------------------------------------------------------------

LEMMA Invariance == WallsSpec => []WallsInv
<1> QED BY InitIInv, NextKeeps, PTL DEF WallsSpec

\* Every variable keeps its type.
THEOREM TypeCorrect == WallsSpec => []WallsTypeOK
<1>1. WallsInv => WallsTypeOK
  <2> SUFFICES ASSUME WallsInv PROVE WallsTypeOK
    OBVIOUS
  <2>1. before \in Snapshots \cup {Missing}
    BY DEF WallsInv, Steps, Shows
  <2>2. best \in Evidence \cup {Missing} /\ row \in Evidence \cup {Missing}
    BY DEF WallsInv, Sound
  <2> QED BY <2>1, <2>2 DEF WallsInv, Physics, Steps, WallsTypeOK
<1> QED BY <1>1, Invariance, PTL

\* Every load whose reading saw the accelerator leaves the reserves free on
\* every wall of the machine, whatever its sizes and wherever the daemon puts
\* the model.
THEOREM ReservesKept == WallsSpec => []AdmittedLoadKeepsReserves
<1>1. WallsInv => AdmittedLoadKeepsReserves
  BY DEF WallsInv
<1> QED BY <1>1, Invariance, PTL

\* Whatever the ramp stores, the reader accepts, unless the accelerator was not
\* seen when it was admitted.
THEOREM WriterAndReaderAgree == WallsSpec => []StoredEvidenceGoverns
<1>1. WallsInv => StoredEvidenceGoverns
  BY DEF WallsInv, Sound, StoredEvidenceGoverns
<1> QED BY <1>1, Invariance, PTL

\* Even if nvidia-smi fails now and then, a row that governs a model on the
\* accelerator was admitted against the accelerator's wall.
THEOREM GovernedIsBounded == WallsSpec => []GovernedWasBounded
<1>1. WallsInv => GovernedWasBounded
  <2> SUFFICES ASSUME WallsInv, row # Missing, Reusable(row), row.placement \in OnAccelerator
               PROVE  /\ "accelerator" \in row.admission.walls
                      /\ row.admission.total + AcceleratorMargin <= row.admission.acc
    BY DEF GovernedWasBounded
  <2>1. Sound(row)
    BY DEF WallsInv
  <2>2. "accelerator" \in row.admission.walls /\ row.admission.acc # Missing
    BY <2>1 DEF Sound, Reusable, WallEvidenceComplete
  <2>3. row.admission.total \in Nat /\ row.admission.total > 0 /\ row.admission.acc \in Nat
    BY <2>1, <2>2 DEF Sound, Evidence, Numbers
  <2>4. Within(row.admission.total, row.admission.acc, AcceleratorMargin)
    BY <2>2 DEF Reusable, AdmissionEvidenceComplete
  <2> QED BY <2>2, <2>3, <2>4, WallsAssumption DEF Within
<1> QED BY <1>1, Invariance, PTL

\* A governed request keeps the reserves, under the same doubt.
THEOREM RequestsKeepReserves == WallsSpec => []GovernedRequestKeepsReserves
<1>1. WallsInv => GovernedRequestKeepsReserves
  BY DEF WallsInv
<1> QED BY <1>1, Invariance, PTL

(* Neither loads that measure nor loads that answer take a wall's reserve. *)
THEOREM ReservesAlwaysKept == WallsSpec => []ReservesAreKept
  BY ReservesKept, RequestsKeepReserves, PTL DEF ReservesAreKept

=============================================================================
