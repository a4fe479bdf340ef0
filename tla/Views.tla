------------------------------- MODULE Views -------------------------------
(***************************************************************************)
(* The commands that only show what the measurement store holds: `profile', *)
(* `recommend', `models' and `models show' of src/ara/cli.py.  They open    *)
(* the store query-only and never migrate it, so they may meet it in any    *)
(* shape and between any two steps of the processes of Store.               *)
(*                                                                         *)
(* The model is one; Cached is the identity of the artifact in the model   *)
(* cache at the time, by which rows of another artifact are stale.         *)
(***************************************************************************)
EXTENDS Store

CONSTANTS Cached,       \* artifacts the model cache may hold
          DefaultEngine \* the engine of the detected backend

Unscoped == "unscoped"
Unfit == 0              \* no context fitted: a ceiling below every other

-----------------------------------------------------------------------------
(* Reading rows for display, whatever the shape of the table. *)

\* A row of the first table has no identity of its own: it is classified when
\* it is read, exactly as the migration would.
LegacyRow(r) ==
    [r EXCEPT !.engine = CanonicalEngine(@), !.reusable = Reusable(r.artifact, r.config),
              !.direct = r.safe, !.methodology = LegacyMethod, !.build = LegacyBuild]

StoredRow(r) == IF store.charShape >= 7 THEN r ELSE [r EXCEPT !.direct = r.safe]

DisplayRow(r) == IF store.charShape < 5 THEN LegacyRow(r) ELSE StoredRow(r)

\* The history of one engine on this machine.
ListCharacterizations(engine) ==
    {q \in {DisplayRow(r) : r \in {s \in store.chars : s.machine = "versioned"}} :
        q.engine = CanonicalEngine(engine)}

\* The newest of them.
GetCharacterization(engine) ==
    LET rows == ListCharacterizations(engine)
    IN IF rows = {} THEN {} ELSE {Newest(rows)}

ArtifactMatches(r, cached) == r.artifact = cached

-----------------------------------------------------------------------------
(* profile: each row of the history with what it is worth. *)

UnitUnknown(r) == store.charShape = 5 \/ r.authority = "legacy-unit-unknown"

Migrated(r) ==
    UnitUnknown(r) \/ r.methodology = LegacyMethod \/ r.build = LegacyBuild

ProfileStatus(r, engine, cached) ==
    CASE r.direct = Unfit -> "refused_or_unfit"
      [] r.direct # Unfit /\ Migrated(r) -> "migrated"
      [] r.direct # Unfit /\ ~Migrated(r) ->
            IF ~ArtifactMatches(r, cached) THEN "stale"
            ELSE IF CanonicalEngine(engine) = "mlx" THEN "historical_unverified"
            ELSE IF r.reusable /\ Confidence(r.artifact) \in Exact /\ r.config # Null
                 THEN "reusable_unverified"
            ELSE "display_only"

-----------------------------------------------------------------------------
(* recommend and models: the largest ceiling of each model.  A set of at most  *)
(* one row stands for the entry a model has, or has not.                       *)

\* A ceiling beats none, the larger one the smaller; the default engine is
\* looked at first and keeps its place between equals.
Beats(r, q) == r.safe > q.safe \/ (r.safe = q.safe /\ r.engine = DefaultEngine)

Best(rows) ==
    LET top == {r \in rows : \A q \in rows : r.safe >= q.safe}
        first == {r \in top : \A q \in top : Beats(r, q)}
    IN IF top = {} THEN {} ELSE {CHOOSE r \in top : first # {} => r \in first}

EnginesKnown == Engines \cup {DefaultEngine, "mlx"}

History == UNION {ListCharacterizations(e) : e \in EnginesKnown}

BestCeilingHistory == Best(History)

\* Mutant: a row is taken for current by its authority alone.
CurrentByAuthority(r) == r.engine # "mlx" /\ r.authority = Unscoped

\* What may be taken for current without loading an engine; never mlx, whose
\* authority is a live reading.
Current(r) == r.engine # "mlx" /\ r.reusable /\ r.authority = Unscoped

BestCeilings == Best({r \in History : Current(r)})

\* recommend's two marks, which ask for a row and not for a ceiling.
Characterized == BestCeilings
HistoricalOnly == IF BestCeilings = {} THEN BestCeilingHistory ELSE {}

\* A line names a ceiling, and says when it is of an artifact no longer there.
Line(r, cached) ==
    [ceiling |-> r.safe, engine |-> r.engine,
     stale |-> r.safe # Unfit /\ ~ArtifactMatches(r, cached)]

\* models: the best row of all.
CatalogLine(cached) == {Line(r, cached) : r \in BestCeilingHistory}

\* models show: the newest row of each engine, the largest ceiling of these on
\* top, on a tie that of the engine listed first.
PerEngine == UNION {GetCharacterization(e) : e \in EnginesKnown}

DetailBest ==
    {r \in PerEngine : r.safe # Unfit /\ \A q \in PerEngine : r.safe >= q.safe}

DetailLine(cached) == {Line(r, cached) : r \in DetailBest}

-----------------------------------------------------------------------------
(* Properties. *)

Governs(r) == \E s \in ListReusable(Identity(r.machine, r.engine, r.authority, r.build)) : s = r

\* In a store of the present schema, whatever the processes that migrate it and
\* save to it are in the middle of: what profile calls reusable and recommend
\* marks as characterized is a row that governs under the identity it names and
\* was measured by this release; and a row that governs is never played down
\* while its artifact is the one cached. (_profile_characterization_view,
\* _best_ceilings over get_reusable_characterization)
ReusableIsWhatGoverns ==
    store.charShape >= 7 =>
        /\ \A r \in Characterized : Governs(r) /\ r.born # Old
        /\ \A r \in History, cached \in Cached :
            LET status == ProfileStatus(r, r.engine, cached) IN
            /\ status = "reusable_unverified" => Governs(r) /\ r.born # Old
            /\ (Governs(r) /\ r.artifact = cached) =>
                    status = IF r.engine = "mlx" THEN "historical_unverified"
                             ELSE "reusable_unverified"

\* No view shows a ceiling above what was measured, and the two model views flag
\* whatever they show of an artifact that is no longer there; the one that lists
\* every row never shows less than the one that takes the newest.
ShownIsMeasured ==
    /\ store.charShape >= 7 => \A r \in BestCeilingHistory \cup BestCeilings : r.safe <= r.point
    /\ \A cached \in Cached : \A d \in DetailLine(cached), l \in CatalogLine(cached) :
        /\ l.ceiling >= d.ceiling
        /\ d.stale \/ \E r \in PerEngine : r.safe = d.ceiling /\ r.artifact = cached
    /\ \A r \in HistoricalOnly, q \in History : ~Current(q)

\* What the commands that never migrate show is true of the store they meet.
ViewsClaimOnlyWhatGoverns == ReusableIsWhatGoverns /\ ShownIsMeasured

=============================================================================
