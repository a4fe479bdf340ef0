-------------------------- MODULE NativeArtifacts --------------------------
(***************************************************************************)
(* NativeGovernance takes an artifact for a number and a pinned path for   *)
(* that number.  Here each state of its world is laid out as a cache of    *)
(* Artifacts: revision a of the repository holds version a of every file,  *)
(* and a local GGUF is overwritten in place.                               *)
(***************************************************************************)
EXTENDS NativeGovernance, Artifacts

\* There is a revision for each version the bounded world comes to.
ASSUME RevisionsAssumption == MaxChanges \in Nat /\ 1 .. MaxChanges + 2 \subseteq Revisions

Layouts ==
    {[names |-> {"q4.gguf", "q8.gguf", "mmproj.gguf"}, refs |-> {}],
     [names |-> {"shard1", "index", "config"}, refs |-> {"shard1"}]}

Laid(layout, a) ==
    [real |-> TRUE, refs |-> layout.refs,
     files |-> [n \in layout.names |-> [link |-> "blob", stat |-> a]]]

\* The cache of the world w.
CacheOf(w, layout) ==
    [main |-> w.main, local |-> IF w.local THEN w.main ELSE 0,
     snap |-> [r \in Revisions |-> IF r \in w.cached THEN Laid(layout, r) ELSE NoSnapshot]]

Model == IF world.local THEN [kind |-> "local"] ELSE [kind |-> "repo"]

\* The identity recorded while the model's name selected a.
IdentityOf(a, layout) ==
    ArtifactIdentity(CacheOf([world EXCEPT !.main = a, !.cached = {a}], layout), Model, NoRevision)

\* Where a command identifies or pins the model, the number it handles is as good
\* as the identity it stands for: it is selected, matches, and is loaded by its
\* pin just when the identity is.
NumbersStandForFiles ==
    \A p \in {q \in Procs : cmd[q].pc \in {"identify", "pin"}}, layout \in Layouts :
        LET cache == CacheOf(world, layout)
            art == cmd[p].art
            id == IdentityOf(art, layout) IN
        IF At(p, "identify")
        THEN ArtifactIdentity(cache, Model, NoRevision)
                = IF Selected = 0 THEN Nothing ELSE IdentityOf(Selected, layout)
        ELSE /\ IdentityMatches(cache, Model, id) <=> ArtifactMatches(art)
             /\ ArtifactMatches(art) =>
                    FilesLoaded(cache, PinnedModelRef(cache, Model, id))
                        \subseteq IdentityOf(Loaded(art), layout).names

\* What an identity is recorded of, matched, loaded and fetched by is one thing,
\* in the worlds the native commands reach and in any other pair of caches.
OnlyTheIdentifiedIsLoaded ==
    NumbersStandForFiles /\ PinnedIsIdentified /\ RefetchedIsIdentified /\ PlannedIsIdentified

=============================================================================
