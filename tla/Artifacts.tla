----------------------------- MODULE Artifacts -----------------------------
(***************************************************************************)
(* What an artifact identity says and what it is good for: the functions   *)
(* of src/ara/staleness.py that name the files a model reference selects   *)
(* in the model cache, decide later whether the reference still selects    *)
(* them, and turn the recorded identity into something to load or to       *)
(* download again; and the download plans of src/ara/acquire.py.           *)
(*                                                                         *)
(* They are pure functions of the cache and of the Hub, stated over pairs  *)
(* of caches: the one an identity was recorded in and a later one.  How    *)
(* the commands interleave with changes of the cache is NativeGovernance's *)
(* subject, which takes an identity for a number.                          *)
(*                                                                         *)
(* A snapshot is a record: real, whether it is a directory of this cache   *)
(* and no link; files, from the names present to how each is stored and    *)
(* its stat fingerprint; and refs, the weights its shard index lists, {}   *)
(* for an index that cannot be read or leaves the snapshot.                *)
(***************************************************************************)
EXTENDS Integers, FiniteSets

CONSTANTS Revisions,   \* commits of the repository, 1 and others
          Snapshots,   \* what the snapshot of revision 1 may look like
          Others       \* what the snapshot of another may look like

Ggufs == {"q4.gguf", "q8.gguf"}
Shards == {"shard1", "shard2"}
Names == Ggufs \cup Shards \cup {"mmproj.gguf", "index", "config"}
Size == [n \in Ggufs |-> IF n = "q4.gguf" THEN 4 ELSE 8]

\* A snapshot that is a directory of the cache holds files of these kinds.
ASSUME ArtifactsAssumption ==
    /\ {1, 2} \subseteq Revisions /\ Revisions \subseteq Nat \ {0}
    /\ \A s \in Snapshots \cup Others :
        s.real \in BOOLEAN /\ (s.real => DOMAIN s.files \subseteq Names)

Nothing == [nothing |-> TRUE]   \* no identity, reference or plan
NoName == "none"
NoRevision == 0
NoSnapshot == [real |-> FALSE]

\* A reference names a repository, one GGUF of it, or a GGUF outside the cache.
Models == {[kind |-> "repo"], [kind |-> "local"]} \cup [kind : {"file"}, name : Ggufs]

Named(kind, rev, names) == [kind |-> kind, rev |-> rev, names |-> names]

-----------------------------------------------------------------------------
(* Which files a snapshot offers. *)

ValidatedSnapshot(c, rev) == IF c.snap[rev].real THEN c.snap[rev] ELSE NoSnapshot

\* What is stored here: a blob of this cache, or a file in place of the link;
\* any other link leaves the cache and has no descriptor.
Described(f) == f.link \in {"blob", "direct"}

\* Mutant: a file is told by where it is stored and not by its fingerprint.
FileName(n, f) == [name |-> n, link |-> f.link, stat |-> 0]
FileDescriptor(n, f) == [name |-> n, link |-> f.link, stat |-> f.stat]

SmallestGguf(ggufs) == CHOOSE n \in ggufs : \A m \in ggufs : Size[m] >= Size[n]

\* All the shards or the smallest GGUF; {} when there are both, or neither.
SelectedWeights(s) ==
    LET ggufs == DOMAIN s.files \cap Ggufs
        shards == DOMAIN s.files \cap Shards
    IN IF ggufs # {} /\ shards # {} THEN {}
       ELSE IF ggufs # {} THEN {SmallestGguf(ggufs)} ELSE shards

\* Everything a transformer snapshot is read from: with an index the weights it
\* lists, which must be there, and what is no weight.
TransformerManifest(s) ==
    LET files == DOMAIN s.files IN
    IF "index" \notin files THEN files
    ELSE IF s.refs = {} \/ ~(s.refs \subseteq files) THEN {}
    ELSE (files \ (Ggufs \cup Shards \cup {"mmproj.gguf"})) \cup s.refs

AuthorityFiles(s) ==
    LET selected == SelectedWeights(s)
    IN IF selected \subseteq Ggufs THEN selected ELSE TransformerManifest(s)

-----------------------------------------------------------------------------
(* The identity, and what it matches. *)

Identified(kind, rev, s, names) ==
    IF names # {} /\ names \subseteq DOMAIN s.files /\ \A n \in names : Described(s.files[n])
    THEN Named(kind, rev, {FileDescriptor(n, s.files[n]) : n \in names})
    ELSE Nothing

\* rev is the revision asked for, NoRevision for the current one; without its
\* reference file the cache has no current revision.
ArtifactIdentity(c, model, rev) ==
    IF model.kind = "local"
    THEN IF c.local = 0 THEN Nothing
         ELSE Named("local", NoRevision, {[name |-> "local", link |-> "direct", stat |-> c.local]})
    ELSE LET r == IF rev = NoRevision THEN c.main ELSE rev IN
         IF r = NoRevision \/ ~c.snap[r].real THEN Nothing
         ELSE LET s == ValidatedSnapshot(c, r) IN
              Identified(model.kind, r, s,
                         IF model.kind = "file" THEN {model.name} ELSE AuthorityFiles(s))

\* The reference still selects the recorded files, in the current revision or
\* in the recorded one.
IdentityMatches(c, model, id) ==
    /\ id # Nothing
    /\ \/ ArtifactIdentity(c, model, NoRevision) = id
       \/ id.rev # NoRevision /\ ArtifactIdentity(c, model, id.rev) = id

\* The path to load: never a name the Hub may resolve to something else.
PinnedModelRef(c, model, id) ==
    IF ~IdentityMatches(c, model, id) THEN Nothing
    ELSE IF model.kind = "local" THEN [rev |-> NoRevision, file |-> "local"]
    ELSE LET s == ValidatedSnapshot(c, id.rev) IN
         IF model.kind = "file" THEN [rev |-> id.rev, file |-> model.name]
         ELSE IF SelectedWeights(s) \subseteq Ggufs
              THEN [rev |-> id.rev, file |-> CHOOSE n \in SelectedWeights(s) : TRUE]
              ELSE [rev |-> id.rev, file |-> NoName]

-----------------------------------------------------------------------------
(* Downloading again what an identity names. *)

\* Mutant: the Hub is asked for the reference the command was given.
GivenDownloadRef(model, id) ==
    IF model.kind = "local" THEN Nothing ELSE [model |-> model, rev |-> id.rev]

\* The selector and revision recorded; a GGUF is asked for by its own name.
AuthorizedDownloadRef(model, id) ==
    LET ggufs == {d.name : d \in id.names} \cap Ggufs IN
    IF model.kind = "local" \/ id.kind = "local" THEN Nothing
    ELSE IF ggufs # {}
         THEN IF Cardinality(ggufs) # 1 \/ (model.kind = "file" /\ model.name \notin ggufs)
              THEN Nothing
              ELSE [model |-> [kind |-> "file", name |-> CHOOSE n \in ggufs : TRUE], rev |-> id.rev]
         ELSE IF model.kind = "file" THEN Nothing
         ELSE [model |-> model, rev |-> id.rev]

\* One revision for sizing and download.  hub is what the revision holds there.
PrepareDownload(hub, model, gguf, rev) ==
    LET offered == DOMAIN hub.files \cap Ggufs
        chosen == IF model.kind = "file" THEN offered \cap {model.name} ELSE offered
    IN IF ~gguf THEN [rev |-> rev, file |-> NoName]
       ELSE IF chosen = {} THEN Nothing
       ELSE [rev |-> rev, file |-> SmallestGguf(chosen)]

\* The planned file, or the whole revision; files already there are kept.  The
\* reference file of the cache is left alone, the revision being exact.
DownloadPrepared(c, hub, plan) ==
    LET held == IF c.snap[plan.rev].real THEN c.snap[plan.rev].files ELSE << >>
        fetched == IF plan.file = NoName THEN DOMAIN hub.files ELSE {plan.file}
    IN [c EXCEPT !.snap[plan.rev] =
            [real |-> TRUE, refs |-> hub.refs,
             files |-> [n \in DOMAIN held \cup fetched |->
                            IF n \in DOMAIN held THEN held[n] ELSE hub.files[n]]]]

\* A governed command downloads again by the selector and revision recorded, and
\* a GGUF engine asks for one file.
Refetched(c, hub, model, id) ==
    LET ref == AuthorizedDownloadRef(model, id)
        gguf == {d.name : d \in id.names} \subseteq Ggufs
        plan == IF ref = Nothing THEN Nothing
                ELSE PrepareDownload(hub, ref.model, gguf, ref.rev)
    IN IF plan = Nothing THEN Nothing ELSE DownloadPrepared(c, hub, plan)

-----------------------------------------------------------------------------
(* Loading, by the libraries the engines use: a GGUF is one file, a directory *)
(* is read through its index where it has one.                                *)

FilesLoaded(c, ref) ==
    IF ref.file = "local" THEN {[name |-> "local", link |-> "direct", stat |-> c.local]}
    ELSE LET s == c.snap[ref.rev]
             read == IF ref.file # NoName THEN {ref.file}
                     ELSE IF "index" \in DOMAIN s.files
                          THEN (DOMAIN s.files \cap {"index", "config"}) \cup s.refs
                          ELSE DOMAIN s.files \cap (Shards \cup {"config"})
         IN {[name |-> n, link |-> s.files[n].link, stat |-> s.files[n].stat] : n \in read}

-----------------------------------------------------------------------------
(* Properties. *)

Cache(main, one, other, local) ==
    [main |-> main, local |-> local, snap |-> [r \in Revisions |-> IF r = 1 THEN one ELSE other]]

Recorded == {Cache(1, s, NoSnapshot, 0) : s \in Snapshots} \cup
            {Cache(NoRevision, NoSnapshot, NoSnapshot, 1)}

Later ==
    {Cache(main, s, t, 0) : main \in 0..2, s \in Snapshots, t \in Others} \cup
    {Cache(NoRevision, NoSnapshot, NoSnapshot, l) : l \in 0..2}

\* The Hub never changes a revision: it holds at least what was once cached.
Hubs(s) ==
    {[refs |-> s.refs, files |-> [n \in DOMAIN s.files \cup more |-> [link |-> "blob", stat |-> 9]]] :
        more \in SUBSET {"q4.gguf", "shard2", "config"}}

Weights(id) == {d.name : d \in id.names} \cap (Ggufs \cup Shards)

\* However the cache was changed since an identity was recorded (files replaced,
\* added or removed, the current revision moved, the directory turned into a
\* link): if the reference still matches, the path given to the engine loads
\* the very files recorded, and none that was not.  (pinned_model_ref)
PinnedIsIdentified ==
    \A model \in Models, c \in Recorded :
        LET id == ArtifactIdentity(c, model, NoRevision) IN
        id # Nothing =>
            LET was == FilesLoaded(c, PinnedModelRef(c, model, id)) IN
            /\ was \subseteq id.names
            /\ \A d \in Later : IdentityMatches(d, model, id) =>
                    LET ref == PinnedModelRef(d, model, id) IN
                    ref # Nothing /\ FilesLoaded(d, ref) = was

\* Evicted and downloaded again by its identity, a model is identified by the
\* same weights if it is identified at all.  (authorized_download_ref)
RefetchedIsIdentified ==
    \A model \in Models \ {[kind |-> "local"]}, s \in {t \in Snapshots : t.real} :
        LET c == Cache(1, s, NoSnapshot, 0)
            id == ArtifactIdentity(c, model, NoRevision)
            evicted == Cache(1, NoSnapshot, NoSnapshot, 0)
        IN id # Nothing => \A hub \in Hubs(s) :
            LET d == Refetched(evicted, hub, model, id)
                again == ArtifactIdentity(d, model, id.rev)
            IN /\ d # Nothing
               /\ again # Nothing => /\ Weights(id) \subseteq Weights(again)
                                     /\ Weights(id) \subseteq Ggufs => again.kind = id.kind
                                                                     /\ Weights(id) = Weights(again)

\* What a GGUF engine measures after its download is the file that was planned,
\* whatever the cache already held of that revision.  (prepare_download)
PlannedIsIdentified ==
    \A model \in Models \ {[kind |-> "local"]}, s \in {t \in Snapshots : t.real} : \A hub \in Hubs(s) :
        LET plan == PrepareDownload(hub, model, TRUE, 1) IN
        plan # Nothing =>
            LET d == DownloadPrepared(Cache(NoRevision, s, NoSnapshot, 0), hub, plan)
                id == ArtifactIdentity(d, model, plan.rev)
            IN id # Nothing => Weights(id) = {plan.file}

=============================================================================
