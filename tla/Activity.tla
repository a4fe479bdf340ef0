-------------------------------- MODULE Activity --------------------------------
(***************************************************************************)
(* The registry of ARA's live work, src/ara/activity.py: one file per      *)
(* activity, written and deleted by the process that does the work, read   *)
(* by others.  A killed process leaves its file behind, and the system     *)
(* gives its pid to another process.  A birth is a process creation time:  *)
(* no two processes have the same one.                                     *)
(***************************************************************************)
EXTENDS Integers, FiniteSets

CONSTANTS Pids         \* process ids

VARIABLES table,   \* the system's processes: the birth behind each pid, 0 for none
          born,    \* births so far
          records  \* the files of the registry

activityVars == <<table, born, records>>

ActivityInit == table = [i \in Pids |-> 0] /\ born = 0 /\ records = {}

\* A new process gets the lowest free pid, so that pids are soon used again.
Fork(i) == /\ table[i] = 0 /\ \A j \in Pids : j < i => table[j] # 0
           /\ born' = born + 1
           /\ table' = [table EXCEPT ![i] = born + 1]
Reap(i) == table' = [table EXCEPT ![i] = 0]

\* Mutant: serving is taken to need none, as a persistent Ollama claim does.
WithoutServing == {"running", "characterizing", "benchmarking"}
\* The kinds of work that use an engine's environment.
EngineBacked == {"running", "characterizing", "benchmarking", "serving"}

Record(i, kind) == [pid |-> i, birth |-> table[i], kind |-> kind]
\* The whole record appears at once: a temporary file is renamed.
Enter(i, kind) == records' = records \cup {Record(i, kind)}
Leave(i) == records' = {r \in records : r.pid # i \/ r.birth # table[i]}

\* Mutant: any process with that pid will do.
PidRuns(r) == table[r.pid] # 0
\* A record counts while its process runs: same pid, same creation time.
Runs(r) == table[r.pid] = r.birth

\* snapshot: the names are listed, then each file is read and its process is
\* looked up; a file that has gone meanwhile is skipped.  (then is history: the
\* births that were alive at the listing.)
NoLook == [names |-> {}, left |-> {}, found |-> {}, then |-> {}]
ListNames == [names |-> records, left |-> records, found |-> {},
              then |-> {table[i] : i \in Pids}]
ReadRecord(look, r) ==
    [look EXCEPT !.left = @ \ {r},
                 !.found = IF r \in records /\ Runs(r) THEN @ \cup {r} ELSE @]

\* A finished snapshot is exact about what stood still: it has every listed
\* record whose work is still going on, and nothing that had ended before it
\* began, although files outlive killed processes and pids are used again.
\* (snapshot, _read_record)
Exact(look) ==
    /\ \A r \in look.names \cap records : table[r.pid] = r.birth => r \in look.found
    /\ \A r \in look.found : r.birth \in look.then
=============================================================================
