------------------------------- MODULE EngineEnv -------------------------------
(***************************************************************************)
(* The isolated environment of one engine, src/ara/engine_env.py: a        *)
(* directory that uv fills and ARA stamps, last, with the release and the  *)
(* package layout it was built from.  What a killed or failed step leaves  *)
(* on disk is what the next command finds.                                 *)
(***************************************************************************)
EXTENDS Integers, FiniteSets

VARIABLE env    \* the directory: the parts that are whole, the release its
                \* packages were built from, what its stamp says, whether the
                \* packages hold the expected import; and whether a removal
                \* is under way or was cut short (history)

Parts == {"dir", "python", "packages", "version", "schema"}
Absent == [parts |-> {}, built |-> 0, stamp |-> 0, provides |-> FALSE, torn |-> FALSE]

EnvType == /\ env.parts \subseteq Parts
           /\ env.parts # {} => "dir" \in env.parts

\* The environment's python is there, whatever else is.
Exists == "python" \in env.parts
StampedVersion == IF "version" \in env.parts THEN env.stamp ELSE 0
StampedSchema == "schema" \in env.parts
\* Ready: python, and both stamps of the release that asks.
IsInstalled(v) == Exists /\ StampedVersion = v /\ StampedSchema
\* engine_audit's probe: a python that imports the engine.
Audited(v) == IsInstalled(v) /\ "packages" \in env.parts

Has(part) == env' = [env EXCEPT !.parts = @ \cup {part}]

(***************************************************************************)
(* create, one external command or file after the other                    *)
(***************************************************************************)
\* uv makes a fresh environment; or it is missing, or fails, perhaps for what it
\* found in the directory, and nothing is torn down.
Venv == env' = [Absent EXCEPT !.parts = {"dir", "python"}]
VenvFails == UNCHANGED env \/ Has("dir")

PipInstall(v) == \E b \in BOOLEAN :
    env' = [env EXCEPT !.parts = @ \cup {"packages"}, !.built = v, !.provides = b]

\* rmtree that ignores what it cannot delete
Teardown == \E kept \in SUBSET (env.parts \ {"dir"}) :
    env' = IF kept = {} THEN Absent ELSE [env EXCEPT !.parts = kept \cup {"dir"}]

\* Mutant: the stamp is written whatever the check says.
Unchecked == TRUE
FindSpec == env.provides

StampVersion(v) == env' = [env EXCEPT !.parts = @ \cup {"version"}, !.stamp = v]
StampSchema == Has("schema")

(***************************************************************************)
(* remove: rmtree deletes the parts in any order, the directory last.  One *)
(* that stops half way leaves the rest, stamps included.                   *)
(***************************************************************************)
RemovePart == \E x \in env.parts :
    /\ x = "dir" => env.parts = {"dir"}
    /\ env' = IF x = "dir" THEN Absent ELSE [env EXCEPT !.parts = @ \ {x}, !.torn = TRUE]

----------------------------------------------------------------------------
\* What calls itself ready is whole: unless a removal is under way or was cut short, an
\* environment with a python and both stamps has packages of the very release
\* on the stamp, and they hold the expected import; however many installs were
\* killed, failed or upgraded before.  (is_installed, create, install)
StampedIsWhole ==
    Exists /\ "version" \in env.parts /\ StampedSchema /\ ~env.torn =>
        "packages" \in env.parts /\ env.built = env.stamp /\ env.provides
=============================================================================
