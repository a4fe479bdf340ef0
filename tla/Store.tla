------------------------------- MODULE Store -------------------------------
(***************************************************************************)
(* The measurement store of src/ara/db.py: three SQLite tables of measured *)
(* evidence, the eight migrations that connect() runs over a store left by *)
(* an older release, and the upserts and lookups that use the store once   *)
(* it is open.                                                             *)
(*                                                                         *)
(* Several `ara' processes share the file.  Each statement or transaction  *)
(* is one step and they interleave freely; a process may die, or be        *)
(* refused a lock, between any two.  A table's shape is the number of the  *)
(* migration that introduced it, and a row has every column, those that    *)
(* its shape lacks being Null.                                             *)
(*                                                                         *)
(* born is history: the identity a row was measured under, or Old for a    *)
(* row an earlier release left behind.                                     *)
(***************************************************************************)
EXTENDS Integers, FiniteSets, FiniteSetsExt

CONSTANTS Procs,        \* the processes that open the store
          OldStores,    \* stores earlier releases may have left
          Authorities,  \* memory authorities a measurement may be made under
          Engines,      \* engines that measure
          Builds,       \* engine build fingerprints
          MaxOpens,     \* bound: how often the store is opened
          MaxSaves      \* bound: measurements saved after the upgrade

VARIABLES store, proc, opens, saves, stale, measured

storeVars == <<store, proc, opens, saves, stale, measured>>

Null == "null"
Old == [old |-> TRUE]
LegacyBuild == "engine:legacy-unknown"
LegacyMethod == "legacy-unknown"
Method == "methodology"
Exact == {"strong", "observed_digest", "manifest_hash"}

\* The versioned key a byte-exact machine key is rounded to.
RekeyLegacyKey(m) == IF m \in {"legacy1", "legacy2"} THEN "versioned" ELSE m
CanonicalEngine(e) == CASE e = "wmx" -> "mlx" [] e = "wcx" -> "cuda" [] OTHER -> e

Rowids(rows) == {r.rowid : r \in rows}
NextRowid(rows) == IF rows = {} THEN 1 ELSE Max(Rowids(rows)) + 1
\* Copying a table in rowid order numbers its rows afresh.
Renumbered(rows) ==
    {[r EXCEPT !.rowid = Cardinality({q \in rows : q.rowid <= r.rowid})] : r \in rows}

\* The primary key of each table in each of its shapes.
CalKey(shape, r) ==
    <<r.machine, r.engine, IF shape >= 6 THEN r.authority ELSE Null,
      IF shape >= 8 THEN r.build ELSE Null>>
CharKey(shape, r) ==
    <<r.machine, r.engine, IF shape >= 5 THEN <<r.artifact, r.config>> ELSE Null,
      IF shape >= 6 THEN r.authority ELSE Null,
      IF shape >= 7 THEN <<r.methodology, r.build>> ELSE Null>>
BenchKey(shape, r) == <<r.machine, IF shape >= 4 THEN r.cell ELSE Null>>
Key(table, shape, r) ==
    CASE table = "cal" -> CalKey(shape, r)
      [] table = "char" -> CharKey(shape, r)
      [] table = "bench" -> BenchKey(shape, r)

Newer(q, r) == \/ q.at > r.at
               \/ q.at = r.at /\ q.rowid >= r.rowid
\* Mutant: the row listed first wins a merge.
FirstRow(rows) == CHOOSE r \in rows : \A q \in rows : q.rowid >= r.rowid
Newest(rows) == CHOOSE r \in rows : \A q \in rows : Newer(r, q)

(***************************************************************************)
(* Opening.  needed[n] is what migration n asks of the shapes before it    *)
(* takes the write lock; Rebuild(n, s) is the transaction it then runs.    *)
(***************************************************************************)
Needed(n, s) ==
    CASE n = 4 -> s.benchShape < 4
      [] n = 5 -> s.charShape < 5 \/ s.calShape < 5
      [] n = 6 -> s.calShape < 6 \/ s.charShape < 6
      [] n = 7 -> s.charShape < 7
      [] n = 8 -> s.calShape < 8
      [] OTHER -> TRUE

\* Of the rows a migration gave the same key, the newest stays.
Merged(rows, table, shape) ==
    {Newest({q \in rows : Key(table, shape, q) = Key(table, shape, r)}) : r \in rows}

\* Migration 2 rounds machine keys, migration 3 spells engine names one way.
\* The survivor keeps its rowid, which the code numbers afresh.
Rekeyed(rows, table, shape) ==
    Merged({[r EXCEPT !.machine = RekeyLegacyKey(@)] : r \in rows}, table, shape)

Canonicalized(rows, table, shape) ==
    Merged({[r EXCEPT !.engine = CanonicalEngine(@)] : r \in rows}, table, shape)

EngineIdentityV3(s) ==
    [s EXCEPT !.cals = IF s.calShape < 5 THEN Canonicalized(@, "cal", s.calShape) ELSE @,
              !.chars = IF s.charShape < 5 THEN Canonicalized(@, "char", s.charShape) ELSE @,
              !.benches = {[r EXCEPT !.engine = CanonicalEngine(@)] : r \in @}]

\* The cell of a benchmark is computed from its engine, artifact and policies.
BenchmarkCell(r) == <<r.engine, r.policy>>

BenchmarkCellsV4(s) ==
    [s EXCEPT !.benches = {[r EXCEPT !.cell = BenchmarkCell(r)] : r \in Renumbered(@)},
              !.benchShape = 4]

Confidence(artifact) == IF artifact = Null THEN "legacy_unverified" ELSE "manifest_hash"
Reusable(artifact, config) == Confidence(artifact) \in Exact /\ config # Null

\* The v5 tables keep no engine column: run again over them it finds no engine.
TargetOf(shape, r) == IF shape >= 5 THEN "unknown" ELSE CanonicalEngine(r.engine)

TargetSchemaV5(s) ==
    [s EXCEPT
       !.cals = {[r EXCEPT !.engine = TargetOf(s.calShape, r),
                           !.authority = Null, !.build = Null] : r \in Renumbered(@)},
       !.chars = {[r EXCEPT !.engine = CanonicalEngine(@),
                            !.reusable = Reusable(r.artifact, r.config),
                            !.direct = Null, !.authority = Null,
                            !.methodology = Null, !.build = Null] : r \in Renumbered(@)},
       !.calShape = 5, !.charShape = 5]

LegacyMlx(r) == r.authority = Null /\ r.engine = "mlx"
V6Authority(r) ==
    IF r.authority # Null THEN r.authority
    ELSE IF r.engine = "mlx" THEN "legacy-unit-unknown" ELSE "unscoped"

MeasurementAuthorityV6(s) ==
    [s EXCEPT
       !.cals = {[r EXCEPT !.authority = V6Authority(r),
                           !.build = LegacyBuild] : r \in Renumbered(@)},
       !.chars = {[r EXCEPT !.authority = V6Authority(r),
                            !.reusable = @ /\ ~LegacyMlx(r),
                            !.direct = Null, !.methodology = Null,
                            !.build = Null] : r \in Renumbered(@)},
       !.calShape = 8, !.charShape = 6]

\* Mutant: history is stamped with the methodology of the day.
CharacterizationEvidenceStamped(s) ==
    [s EXCEPT
       !.chars = {[r EXCEPT !.safe = r.point, !.direct = r.point, !.methodology = Method,
                            !.build = r.evidenceBuild] : r \in Renumbered(@)},
       !.charShape = 7]

\* evidenceBuild is the fingerprint inside the row's evidence, if it has one.
CharacterizationEvidenceV7(s) ==
    [s EXCEPT
       !.chars = {[r EXCEPT !.safe = r.point, !.direct = r.point, !.reusable = FALSE,
                            !.methodology = LegacyMethod,
                            !.build = r.evidenceBuild] : r \in Renumbered(@)},
       !.charShape = 7]

CalibrationBuildV8(s) ==
    [s EXCEPT !.cals = {[r EXCEPT !.build = LegacyBuild] : r \in Renumbered(@)},
              !.calShape = 8]

Rebuild(n, s) ==
    CASE n = 3 -> EngineIdentityV3(s)
      [] n = 4 -> BenchmarkCellsV4(s)
      [] n = 5 -> TargetSchemaV5(s)
      [] n = 6 -> MeasurementAuthorityV6(s)
      [] n = 7 -> CharacterizationEvidenceV7(s)
      [] n = 8 -> CalibrationBuildV8(s)

\* A row without a column the rebuild reads, or two rows with one new key,
\* raise an exception inside the transaction, which is rolled back.
Unreadable(n, s) ==
    CASE n = 5 -> s.charShape >= 5 /\ s.chars # {}
      [] n = 6 -> \/ s.calShape < 5 /\ s.cals # {}
                  \/ s.charShape < 5 /\ s.chars # {}
      [] n = 7 -> s.charShape < 6 /\ s.chars # {}
      [] n = 8 -> s.calShape < 6 /\ s.cals # {}
      [] OTHER -> FALSE

Collides(t) ==
    \/ Cardinality({CalKey(t.calShape, r) : r \in t.cals}) # Cardinality(t.cals)
    \/ Cardinality({CharKey(t.charShape, r) : r \in t.chars}) # Cardinality(t.chars)
    \/ Cardinality({BenchKey(t.benchShape, r) : r \in t.benches}) # Cardinality(t.benches)

(***************************************************************************)
(* What earlier releases left.  Their tables lack the later columns; none  *)
(* of their rows was measured by a build or a method of this release, and  *)
(* of their characterizations those of the last shape are not reusable.    *)
(***************************************************************************)
CalColumns(r) ==
    DOMAIN r = {"rowid", "machine", "engine", "authority", "build", "at", "born"}

CharColumns(r) ==
    DOMAIN r = {"rowid", "machine", "engine", "artifact", "config", "authority", "methodology",
                "build", "evidenceBuild", "reusable", "safe", "direct", "point", "at", "born"}

\* The tables of cals and of chars were always rebuilt together before the sixth.
ShapesInStep(s) ==
    \/ s.calShape < 5 /\ s.charShape < 5
    \/ s.calShape = 5 /\ s.charShape = 5
    \/ s.calShape > 5 /\ s.charShape > 5

StoreColumns(s) ==
    DOMAIN s = {"version", "calShape", "charShape", "benchShape", "cals", "chars", "benches",
                "backup"}

\* The version is not ahead of the shapes, nor the shapes of the keys.
Released(s) ==
    /\ StoreColumns(s) /\ s.version \in 0 .. 8
    /\ {s.calShape, s.charShape, s.benchShape} \subseteq 0 .. 8
    /\ ShapesInStep(s)
    /\ \A n \in 4 .. 8 : s.version >= n => ~Needed(n, s)
    /\ IsFiniteSet(s.cals) /\ IsFiniteSet(s.chars)
    /\ \A r \in s.cals :
        /\ CalColumns(r) /\ r.rowid \in Nat /\ r.at \in 0 .. 9
        /\ r.build \notin Builds /\ r.born = Old
        /\ s.version >= 1 => r.engine # "wmx"
        /\ \A q \in s.cals : q.rowid = r.rowid => q = r
    /\ \A r \in s.chars :
        /\ CharColumns(r) /\ r.rowid \in Nat /\ r.at \in 0 .. 9 /\ r.safe \in Nat /\ r.point \in Nat
        /\ r.methodology # Method /\ r.born = Old
        /\ s.charShape >= 7 => ~r.reusable /\ r.safe <= r.point
    /\ s.version >= 2 \/ s.calShape >= 5 =>
            \A r \in s.cals \cup s.chars : RekeyLegacyKey(r.machine) = r.machine

ASSUME StoreAssumption ==
    /\ \A e \in Engines : CanonicalEngine(e) = e
    /\ {LegacyBuild, Null} \cap Builds = {}
    /\ "legacy-unit-unknown" \notin Authorities
    /\ \A s \in OldStores : Released(s)

Goto(p, pc) == proc' = [proc EXCEPT ![p].pc = pc]
\* connect() raised, was refused a lock, or the process died.
Off(p) == proc' = [proc EXCEPT ![p] = [pc |-> "off", n |-> 1, rebuild |-> FALSE,
                                       calShape |-> 0, read |-> {}]]

\* What a row promises: evidence for this machine and engine at least this new.
Owed(table, rows) ==
    {[table |-> table, machine |-> RekeyLegacyKey(r.machine),
      engine |-> CanonicalEngine(r.engine), at |-> r.at] : r \in rows}

StoreInit ==
    /\ store \in OldStores
    /\ proc = [p \in Procs |-> [pc |-> "off", n |-> 1, rebuild |-> FALSE,
                                calShape |-> 0, read |-> {}]]
    /\ opens = 0
    /\ saves = 0
    /\ stale = FALSE
    /\ measured = Owed("cal", {r \in store.cals : r.engine # "wmx"})
                  \cup Owed("char", store.chars)

\* The tables exist and have every column their shape can hold.
Open(p) ==
    /\ proc[p].pc = "off"
    /\ opens < MaxOpens
    /\ proc' = [proc EXCEPT ![p] = [@ EXCEPT !.pc = "check", !.calShape = store.calShape]]
    /\ opens' = opens + 1
    /\ UNCHANGED <<store, saves, stale, measured>>

CheckVersion(p) ==
    /\ proc[p].pc = "check"
    /\ LET n == proc[p].n IN
       IF store.version < n
       THEN Goto(p, IF n = 1 THEN "units" ELSE IF n = 2 THEN "read"
                    ELSE IF n = 3 THEN "backup" ELSE "decide")
       ELSE proc' = [proc EXCEPT ![p] = IF n = 8 THEN [@ EXCEPT !.pc = "ready"]
                                        ELSE [@ EXCEPT !.n = n + 1]]
    /\ UNCHANGED <<store, opens, saves, stale, measured>>

Advance(p, n) ==
    proc' = [proc EXCEPT ![p] = [@ EXCEPT !.pc = IF n = 8 THEN "ready" ELSE "check",
                                          !.n = IF n = 8 THEN 8 ELSE n + 1,
                                          !.rebuild = FALSE, !.read = {}]]

\* Migration 1: walls stored in decimal gigabytes cannot be repaired.
DropDecimalWalls(p) ==
    /\ proc[p].pc = "units"
    /\ IF proc[p].calShape < 5 /\ store.calShape >= 5
       THEN Off(p) /\ UNCHANGED store      \* the engine column it read is gone
       ELSE /\ store' = [store EXCEPT !.cals = {r \in @ : r.engine # "wmx"},
                                      !.version = 1]
            /\ Advance(p, 1)
    /\ UNCHANGED <<opens, saves, stale, measured>>

\* Migration 2 reads the calibrations before its first write opens a
\* transaction, unless a profile it rekeyed has opened one.
ReadLegacyKeys(p) ==
    /\ proc[p].pc = "read"
    /\ proc' = [proc EXCEPT ![p] = [@ EXCEPT !.pc = "rekey", !.read = store.cals,
                                             !.calShape = store.calShape]]
    /\ UNCHANGED <<store, opens, saves, stale, measured>>

RekeyLegacy(p) ==
    /\ proc[p].pc = "rekey"
    /\ LET touched == {r \in proc[p].read :
                         \E q \in proc[p].read :
                            /\ RekeyLegacyKey(q.machine) # q.machine
                            /\ CalKey(proc[p].calShape, [r EXCEPT !.machine = RekeyLegacyKey(@)])
                                 = CalKey(proc[p].calShape, [q EXCEPT !.machine = RekeyLegacyKey(@)])}
           left == {r \in store.cals : r.rowid \notin Rowids(touched)}
           t == [store EXCEPT !.cals = left \cup Rekeyed(touched, "cal", store.calShape),
                              !.chars = Rekeyed(@, "char", store.charShape),
                              !.benches = Rekeyed(@, "bench", store.benchShape)] IN
       IF (touched # {} /\ proc[p].calShape # store.calShape) \/ Collides(t)
       THEN Off(p) /\ UNCHANGED store
       ELSE /\ store' = t
            /\ Goto(p, "rekeyed")
    /\ UNCHANGED <<opens, saves, stale, measured>>

\* Mutant: the version written is the newest schema's.
SetSchemaVersion(p) ==
    /\ proc[p].pc = "rekeyed"
    /\ store' = [store EXCEPT !.version = 8]
    /\ Advance(p, 2)
    /\ UNCHANGED <<opens, saves, stale, measured>>

SetVersionTwo(p) ==
    /\ proc[p].pc = "rekeyed"
    /\ store' = [store EXCEPT !.version = 2]
    /\ Advance(p, 2)
    /\ UNCHANGED <<opens, saves, stale, measured>>

\* Whether a rebuild is needed is settled before the backup and the lock.
Decide(p) ==
    /\ proc[p].pc = "decide"
    /\ LET rebuild == Needed(proc[p].n, store) IN
       proc' = [proc EXCEPT ![p] = [@ EXCEPT !.rebuild = rebuild,
                                             !.pc = IF rebuild THEN "backup" ELSE "migrate"]]
    /\ UNCHANGED <<store, opens, saves, stale, measured>>

\* A valid backup of this version is kept, any other is replaced by a copy; a
\* backup is known by the version it holds.
Backup(p) ==
    /\ proc[p].pc = "backup"
    /\ store' = [store EXCEPT !.backup[proc[p].n] = store.version]
    /\ Goto(p, "migrate")
    /\ UNCHANGED <<opens, saves, stale, measured>>

\* The transaction does not look again at the version or at the shapes.
Migrate(p) ==
    /\ proc[p].pc = "migrate"
    /\ LET n == proc[p].n
           rebuild == n = 3 \/ proc[p].rebuild
           t == IF rebuild THEN Rebuild(n, store) ELSE store IN
       /\ IF rebuild /\ (Unreadable(n, store) \/ Collides(t))
          THEN Off(p) /\ UNCHANGED store
          ELSE /\ store' = [t EXCEPT !.version = n]
               /\ Advance(p, n)
       /\ stale' = (stale \/ (proc[p].rebuild /\ ~Needed(n, store)))
    /\ UNCHANGED <<opens, saves, measured>>

Die(p) == proc[p].pc # "off" /\ Off(p) /\ UNCHANGED <<store, opens, saves, stale, measured>>

(***************************************************************************)
(* Using an open store.  Each save is one statement; a table that has lost *)
(* a column since the store was opened refuses it.                         *)
(***************************************************************************)
Identity(machine, engine, authority, build) ==
    [machine |-> machine, engine |-> engine, authority |-> authority, build |-> build]
\* Only mlx reads the authority of its memory from the device.
Identities ==
    {k \in [machine : {"versioned"}, engine : Engines, authority : Authorities, build : Builds] :
        k.engine = "mlx" <=> k.authority # "unscoped"}

\* INSERT .. ON CONFLICT(key) DO UPDATE: the row keeps its rowid.
Upsert(rows, table, shape, row) ==
    LET same == {r \in rows : Key(table, shape, r) = Key(table, shape, row)} IN
    (rows \ same) \cup {[row EXCEPT !.rowid = IF same = {} THEN NextRowid(rows)
                                              ELSE Max(Rowids(same))]}

Calibration(k, at) ==
    [rowid |-> 0, machine |-> k.machine, engine |-> k.engine, authority |-> k.authority,
     build |-> k.build, at |-> at, born |-> k]

UpsertCalibration(p) ==
    /\ proc[p].pc = "ready"
    /\ saves < MaxSaves
    /\ \E k \in Identities :
         IF store.calShape < 8 THEN Off(p) /\ UNCHANGED <<store, saves, measured>>
         ELSE /\ store' = [store EXCEPT !.cals = Upsert(@, "cal", 8, Calibration(k, 10 + saves))]
              /\ measured' = measured \cup Owed("cal", {Calibration(k, 10 + saves)})
              /\ saves' = saves + 1
              /\ UNCHANGED proc
    /\ UNCHANGED <<opens, stale>>

\* reusable needs a strong artifact, a methodology and a build; the stored
\* ceiling is the directly measured one, whatever was fitted.
SaveCharacterization(p) ==
    /\ proc[p].pc = "ready"
    /\ saves < MaxSaves
    /\ \E k \in Identities, artifact \in {"hf", Null}, method \in {Method, LegacyMethod} :
         LET row == [rowid |-> 0, machine |-> k.machine, engine |-> k.engine,
                     artifact |-> artifact, config |-> "cfg", authority |-> k.authority,
                     methodology |-> method, build |-> k.build, evidenceBuild |-> k.build,
                     reusable |-> Reusable(artifact, "cfg") /\ method # LegacyMethod,
                     safe |-> 1, direct |-> 1, point |-> 1, at |-> 10 + saves, born |-> k] IN
         IF store.charShape < 7 THEN Off(p) /\ UNCHANGED <<store, saves, measured>>
         ELSE /\ store' = [store EXCEPT !.chars = Upsert(@, "char", 7, row)]
              /\ measured' = measured \cup Owed("char", {row})
              /\ saves' = saves + 1
              /\ UNCHANGED proc
    /\ UNCHANGED <<opens, stale>>

SaveBenchmarkResult(p) ==
    /\ proc[p].pc = "ready"
    /\ saves < MaxSaves
    /\ \E policy \in {"default", "greedy"} :
         LET row == [rowid |-> 0, machine |-> "versioned", engine |-> "mlx", policy |-> policy,
                     cell |-> <<"mlx", policy>>, at |-> 10 + saves] IN
         store' = [store EXCEPT !.benches = Upsert(@, "bench", 4, row)]
    /\ saves' = saves + 1
    /\ UNCHANGED <<proc, opens, stale, measured>>

(***************************************************************************)
(* The lookups that decide what may run; a reader may see any shape.       *)
(***************************************************************************)
GetCalibration(k) ==
    IF store.calShape < 8 THEN {}
    ELSE {r \in store.cals : /\ Identity(r.machine, r.engine, r.authority, r.build) = k
                             /\ \A q \in store.cals :
                                  CalKey(8, q) = CalKey(8, r) => r.at >= q.at}

ListReusable(k) ==
    {r \in store.chars : /\ r.machine = k.machine /\ r.engine = k.engine
                         /\ r.reusable /\ Confidence(r.artifact) \in Exact
                         /\ r.methodology = Method
                         /\ r.authority = k.authority
                         /\ r.build = k.build}

StoreNext == \E p \in Procs :
    \/ Open(p) \/ CheckVersion(p) \/ DropDecimalWalls(p)
    \/ ReadLegacyKeys(p) \/ RekeyLegacy(p) \/ SetVersionTwo(p)
    \/ Decide(p) \/ Backup(p) \/ Migrate(p) \/ Die(p)
    \/ UpsertCalibration(p) \/ SaveCharacterization(p) \/ SaveBenchmarkResult(p)

StoreSpec == StoreInit /\ [][StoreNext]_storeVars

(***************************************************************************)
(* Properties.                                                             *)
(***************************************************************************)

\* Evidence an operational lookup returns was measured under exactly the
\* identity it was asked for, and by this release: no migration, however often
\* or late it runs, turns older rows into rows that govern a run, and a
\* governing ceiling never exceeds what was directly measured.
OnlyOwnEvidenceGoverns ==
    \A k \in Identities :
        /\ \A r \in GetCalibration(k) : r.born = k
        /\ \A r \in ListReusable(k) : r.born = k /\ r.safe <= r.point

Kept(o) ==
    LET rows == IF o.table = "cal" THEN store.cals ELSE store.chars IN
    \E r \in rows : /\ RekeyLegacyKey(r.machine) = o.machine
                    /\ CanonicalEngine(r.engine) = o.engine
                    /\ r.at >= o.at

\* Migrations merge and rekey but lose nothing: for every measurement the store
\* still has a row of that machine and engine that is at least as new.  Only a
\* migration decided before, and run after, another process's run of it may.
EvidenceKept == stale \/ \A o \in measured : Kept(o)

\* The version never promises a table shape the store lacks, so the migrations
\* a later open skips are the ones it does not need.
SchemaApplied == \A n \in 4..8 : store.version >= n => ~Needed(n, store)

\* The same, unless a stale rebuild ran.
SchemaAppliedInTurn == stale \/ SchemaApplied

\* Whatever is migrated when, and by whom, and wherever it dies: evidence stays
\* and the version tells the schema, unless a stale rebuild ran.  (connect)
UpgradesKeepTheStore == EvidenceKept /\ SchemaAppliedInTurn

=============================================================================
