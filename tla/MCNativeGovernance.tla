------------------------- MODULE MCNativeGovernance -------------------------
(***************************************************************************)
(* Two processes that are the same but for their name; and, for the        *)
(* identities of artifacts, snapshots of two GGUFs and two shards, the     *)
(* first of each in two versions, one file of which may be no blob.        *)
(***************************************************************************)
EXTENDS NativeArtifacts, TLC

Symmetry == Permutations(Procs)

\* Bound: what follows both a change and a kill is not explored.
OneEvent == used.changes + used.kills <= 1

Stats(n) == IF n \in {"q4.gguf", "shard1"} THEN {1, 2} ELSE {1}
Stored(links, stats) ==
    [n \in DOMAIN stats |-> [link |-> IF n \in DOMAIN links THEN links[n] ELSE "blob",
                             stat |-> stats[n]]]
\* One file beside the weights at a time.
Present == {names \in SUBSET (Names \ {"config"}) : ~({"mmproj.gguf", "index"} \subseteq names)}
Versions(names) == {f \in [names -> {1, 2}] : \A n \in names : f[n] \in Stats(n)}
Links == {<< >>, "q4.gguf" :> "direct", "shard1" :> "outside"}
Real ==
    UNION {{[real |-> TRUE, refs |-> refs, files |-> Stored(links, stats)] :
                refs \in IF "index" \in names THEN {{}, {"shard1"}, Shards} ELSE {{}},
                links \in Links, stats \in Versions(names)} : names \in Present}

MCSnapshots == Real \cup {NoSnapshot}
MCOthers ==
    {NoSnapshot,
     [real |-> TRUE, refs |-> {},
      files |-> [n \in {"shard1", "config"} |-> [link |-> "blob", stat |-> 2]]]}
=============================================================================
