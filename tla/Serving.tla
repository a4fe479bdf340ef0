--------------------------------- MODULE Serving ---------------------------------
(***************************************************************************)
(* Commands of one machine around one engine: ara install, refresh,        *)
(* uninstall, serve, run, hub and status of src/ara/cli.py, each a process *)
(* that may be killed at any step, on the engine's environment             *)
(* (EngineEnv), the registry of live work (Activity) and the endpoint that *)
(* serve starts as a child (MlxServer).                                    *)
(***************************************************************************)
EXTENDS EngineEnv, Activity, MlxServer

CONSTANTS Budgets  \* bounds, one of which holds for a behaviour: the kinds of
                   \* command started and how many, signals, upgrades of ARA,
                   \* processes and listeners that are not ARA's, clients; and
                   \* whether the engine is installed to begin with

VARIABLES cmd,      \* the command of each process
          lock,     \* who holds measurement.lock
          release,  \* the release of ARA that commands start from
          left      \* what is left of the budget

vars == <<env, activityVars, serverVars, cmd, lock, release, left>>

Idle == [pc |-> "idle", kind |-> "none", pid |-> 0, ver |-> 0, look |-> NoLook]

Init == /\ left \in Budgets
        /\ env = IF left.installed
                 THEN [parts |-> Parts, built |-> 1, stamp |-> 1, provides |-> TRUE,
                       torn |-> FALSE] ELSE Absent
        /\ ActivityInit
        /\ ServerInit
        /\ cmd = [p \in Procs |-> Idle]
        /\ lock = Nobody /\ release = 1

At(p, pc) == cmd[p].pc = pc
Goto(p, pc) == cmd' = [cmd EXCEPT ![p].pc = pc]
Waited(p) == cmd[p].pc # "idle"

\* The process ends and gives up the lock.
Ends(p) ==
    /\ cmd' = [cmd EXCEPT ![p] = Idle]
    /\ lock' = IF lock = p THEN Nobody ELSE lock
    /\ Reap(cmd[p].pid)
    /\ UNCHANGED born
Finish(p) == Ends(p) /\ UNCHANGED records
\* The tracked block is left first; its file may resist deletion.
FinishTracked(p) == Ends(p) /\ (Leave(cmd[p].pid) \/ UNCHANGED records)

Spend(what) == left[what] > 0 /\ left' = [left EXCEPT ![what] = @ - 1]
Same == UNCHANGED <<release, left>>
SameWork == UNCHANGED <<activityVars, lock>>

\* The commands that hold the lock from start to end.
Locked == {"install", "refresh", "uninstall"}
FirstStep(kind) == CASE kind \in {"install", "refresh"} -> "decide"
                     [] kind \in {"uninstall", "status"} -> "list"
                     [] OTHER -> "check"

\* (Which free slot stands for the new process makes no difference.)
FreeSlots == {p \in Procs : At(p, "idle") /\ Is(p, "none")}
FreePids == {i \in Pids : table[i] = 0}
Begin(p, kind, i) ==
    /\ p = CHOOSE q \in FreeSlots : TRUE
    /\ Spend("commands")
    /\ kind \in Locked => lock = Nobody
    /\ lock' = IF kind \in Locked THEN p ELSE lock
    /\ Fork(i)
    /\ cmd' = [cmd EXCEPT ![p] = [Idle EXCEPT !.pc = FirstStep(kind), !.kind = kind,
                                              !.pid = i, !.ver = release]]
    /\ UNCHANGED <<env, records, serverVars, release>>

(***************************************************************************)
(* install                                                                 *)
(***************************************************************************)
Stale(p) == \/ cmd[p].kind = "refresh"
            \/ ~IsInstalled(cmd[p].ver)
Decide(p) ==
    /\ At(p, "decide")
    /\ IF Exists /\ ~Stale(p) THEN Finish(p)
       ELSE Goto(p, IF Exists THEN "remove" ELSE "venv") /\ SameWork
    /\ UNCHANGED <<env, serverVars>> /\ Same

\* One step of building: on to the next one, or fail.
Build(p, pc, next) == At(p, pc) /\ Goto(p, next) /\ SameWork /\ UNCHANGED serverVars /\ Same
Fail(p, pc) == At(p, pc) /\ Finish(p) /\ UNCHANGED serverVars /\ Same

CreateVenv(p) == \/ Venv /\ Build(p, "venv", "pip")
                 \/ VenvFails /\ Fail(p, "venv")
InstallPackages(p) == \/ PipInstall(cmd[p].ver) /\ Build(p, "pip", "find")
                      \/ Teardown /\ Fail(p, "pip")
FindImport(p) == IF FindSpec THEN UNCHANGED env /\ Build(p, "find", "version")
                             ELSE Teardown /\ Fail(p, "find")
WriteVersion(p) == StampVersion(cmd[p].ver) /\ Build(p, "version", "schema")
WriteSchema(p) == /\ At(p, "schema") /\ StampSchema
                  /\ Finish(p)
                  /\ UNCHANGED serverVars /\ Same
Create(p) == CreateVenv(p) \/ InstallPackages(p) \/ FindImport(p)
             \/ WriteVersion(p) \/ WriteSchema(p)

(***************************************************************************)
(* uninstall and status                                                    *)
(***************************************************************************)
\* The directory of the registry is listed, or cannot be.
List(p) ==
    /\ At(p, "list")
    /\ cmd' = [cmd EXCEPT ![p].look = ListNames, ![p].pc = "read"]
    /\ SameWork /\ UNCHANGED <<env, serverVars>> /\ Same

Read(p) ==
    /\ At(p, "read") /\ cmd[p].look.left # {}
    /\ \E r \in cmd[p].look.left : cmd' = [cmd EXCEPT ![p].look = ReadRecord(@, r)]
    /\ SameWork /\ UNCHANGED <<env, serverVars>> /\ Same

ActiveEngineWork(p) == {r \in cmd[p].look.found : r.kind \in EngineBacked}

Judge(p) ==
    /\ At(p, "read") /\ cmd[p].look.left = {}
    /\ IF \/ cmd[p].kind = "status"
          \/ ActiveEngineWork(p) # {}
          \/ env.parts = {}
       THEN Finish(p) ELSE Goto(p, "remove") /\ SameWork
    /\ UNCHANGED <<env, serverVars>> /\ Same

\* What was there is removed part by part; uninstall reports a failure,
\* a refresh dies of it.
Remove(p) ==
    /\ At(p, "remove")
    /\ \/ /\ env.parts # {} /\ RemovePart
          /\ IF env'.parts # {} THEN UNCHANGED <<cmd, table, born, records, lock>>
             ELSE IF cmd[p].kind = "uninstall" THEN Finish(p)
             ELSE Goto(p, "venv") /\ SameWork
       \/ Finish(p) /\ UNCHANGED env
    /\ UNCHANGED serverVars /\ Same

(***************************************************************************)
(* run and hub: work in a tracked block.                                   *)
(***************************************************************************)
Working(kind) == IF kind = "hub" THEN "hosting" ELSE "running"
Check(p) ==
    /\ At(p, "check")
    /\ IF cmd[p].kind = "hub" \/ Audited(cmd[p].ver)
       THEN Goto(p, IF cmd[p].kind = "serve" THEN "spawn" ELSE "enter") /\ SameWork
       ELSE Finish(p)
    /\ UNCHANGED <<env, serverVars>> /\ Same

EnterWork(p) ==
    /\ At(p, "enter") /\ cmd[p].kind # "serve"
    /\ \/ Enter(cmd[p].pid, Working(cmd[p].kind)) /\ Goto(p, "work")
          /\ UNCHANGED <<table, born, lock>>
       \/ Finish(p)
    /\ UNCHANGED <<env, serverVars>> /\ Same
EndWork(p) ==
    /\ At(p, "work") /\ cmd[p].kind # "serve"
    /\ FinishTracked(p)
    /\ UNCHANGED <<env, serverVars>> /\ Same

(***************************************************************************)
(* serve: the child is started on a port that was free, its first line is  *)
(* awaited with a time limit, the endpoint is announced, the handler for   *)
(* SIGTERM is set, and only then the record is written.                    *)
(***************************************************************************)
Spawn(p) ==
    /\ At(p, "spawn")
    /\ \/ /\ Exists
          /\ \E i \in Ports : bound[i] = Nobody /\ Popen(p, i)
          /\ Goto(p, "handshake") /\ SameWork
       \/ ~Exists /\ Finish(p) /\ UNCHANGED serverVars
    /\ UNCHANGED env /\ Same

\* Mutant: the reader is joined for as long as it takes.
JoinUntilItSpeaks(p) ==
    /\ At(p, "handshake") /\ (server[p].said # "none" \/ Is(p, "gone"))
    /\ Goto(p, "verdict") /\ SameWork /\ UNCHANGED <<env, serverVars>> /\ Same
\* The reader has its line or the end of the output; or the time is up.
Join(p) ==
    /\ At(p, "handshake")
    /\ Goto(p, "verdict") /\ SameWork /\ UNCHANGED <<env, serverVars>> /\ Same

\* Mutant: a start that failed leaves its child alone.
LeaveChild(p) == UNCHANGED serverVars
\* kill and wait
ReapChild(p) == Ended(p, "none", "none")

\* What arrived between the timeout and the look at it counts.
Verdict(p) ==
    /\ At(p, "verdict")
    /\ IF server[p].said = "ready"
       THEN Goto(p, "announce") /\ SameWork /\ UNCHANGED serverVars
       ELSE ReapChild(p) /\ Finish(p)
    /\ UNCHANGED env /\ Same

\* The endpoint is printed and the handler set, each for itself.
Announce(p) == /\ At(p, "announce") /\ Goto(p, "handler")
               /\ SameWork /\ UNCHANGED <<env, serverVars>> /\ Same
SetHandler(p) == /\ At(p, "handler") /\ Goto(p, "enter")
                 /\ SameWork /\ UNCHANGED <<env, serverVars>> /\ Same

EnterServing(p) ==
    /\ At(p, "enter") /\ cmd[p].kind = "serve"
    /\ \/ Enter(cmd[p].pid, "serving") /\ Goto(p, "work")
          /\ UNCHANGED <<table, born, lock, serverVars>>
       \/ ReapChild(p) /\ Finish(p)
    /\ UNCHANGED env /\ Same

\* proc.wait returns when the child has ended.
ChildEnded(p) ==
    /\ At(p, "work") /\ Is(p, "gone")
    /\ ReapChild(p) /\ FinishTracked(p)
    /\ UNCHANGED env /\ Same

\* The child's own steps, and its end for a reason of its own.
ChildSteps(p) ==
    /\ \/ GateAndLoad(p, "packages" \in env.parts, Waited(p))
       \/ Bind(p, Waited(p))
       \/ Is(p, "up") /\ Exits(p, Waited(p), server[p].said)
    /\ UNCHANGED <<env, activityVars, cmd, lock>> /\ Same
\* Once it listens, it says so and works off its connections.
ServeRequests(p) ==
    (SayReady(p, Waited(p)) \/ HandleRequests(p)) /\ UNCHANGED <<env, activityVars, cmd, lock>> /\ Same

(***************************************************************************)
(* Signals, upgrades, and what else the machine runs                       *)
(***************************************************************************)
Signalled(p) == Waited(p) /\ Spend("signals") /\ UNCHANGED release
Orphan(p, why) == /\ server' = [server EXCEPT ![p].orphaned = IF Started(p) THEN why ELSE @,
                                              ![p].at = IF @ = "gone" THEN "none" ELSE @]
                  /\ UNCHANGED <<bound, conn>>
\* SIGKILL, and for everything but serve SIGTERM too: nothing is cleaned up.
Killed(p) == /\ Signalled(p) /\ Finish(p) /\ Orphan(p, "kill")
             /\ UNCHANGED env

\* SIGTERM to serve: until the handler is set it is the end of serve alone;
\* then the child is stopped and the record removed.
Announced(p) == cmd[p].kind = "serve" /\ cmd[p].pc \in {"handler", "enter", "work"}
Handled(p) == cmd[p].pc \in {"enter", "work"}
Terminated(p) ==
    /\ Signalled(p) /\ cmd[p].kind = "serve"
    /\ IF Handled(p) THEN ReapChild(p) /\ FinishTracked(p)
                     ELSE Orphan(p, "early") /\ Finish(p)
    /\ UNCHANGED env
\* Ctrl-C reaches serve and its child.
Interrupted(p) ==
    /\ Signalled(p) /\ cmd[p].kind = "serve"
    /\ ReapChild(p) /\ FinishTracked(p)
    /\ UNCHANGED env

Upgrade == /\ Spend("upgrades")
           /\ release' = release + 1
           /\ UNCHANGED <<env, activityVars, serverVars, cmd, lock>>
\* Another process takes a pid that is free, or listens on a free port.
OtherProcess == /\ Spend("others")
                /\ \/ /\ \E i \in FreePids : Fork(i)
                      /\ UNCHANGED serverVars
                   \/ /\ \E i \in Ports : bound[i] = Nobody
                              /\ bound' = [bound EXCEPT ![i] = "other"]
                      /\ UNCHANGED <<server, conn, table, born>>
                /\ UNCHANGED <<env, records, cmd, lock, release>>

Clientele == /\ \/ /\ \E c \in Clients, p \in Procs, r \in Requests : Connect(c, p, r)
                   /\ Spend("clients")
                \/ \E c \in Clients : Send(c) /\ UNCHANGED left
             /\ UNCHANGED <<env, activityVars, cmd, lock, release>>

Next == \/ \E p \in FreeSlots, kind \in left.kinds, i \in FreePids : Begin(p, kind, i)
        \/ \E p \in Procs :
              \/ Decide(p) \/ Create(p) \/ List(p) \/ Read(p) \/ Judge(p) \/ Remove(p)
              \/ Check(p) \/ EnterWork(p) \/ EndWork(p)
              \/ Spawn(p) \/ Join(p) \/ Verdict(p) \/ Announce(p) \/ SetHandler(p)
              \/ EnterServing(p) \/ ChildEnded(p) \/ ChildSteps(p) \/ ServeRequests(p)
              \/ Killed(p) \/ Terminated(p) \/ Interrupted(p)
        \/ Upgrade \/ OtherProcess \/ Clientele

HandshakeEnds(p) == Join(p) \/ Verdict(p) \/ Announce(p)
\* The time limits run down and the one thread works; commands, loads, clients
\* and signals come when they like.
Spec == /\ Init /\ [][Next]_vars
        /\ \A p \in Procs : WF_vars(ServeRequests(p)) /\ WF_vars(HandshakeEnds(p))

(***************************************************************************)
(* Properties                                                              *)
(***************************************************************************)
\* No server outlives its command and keeps the GPU and the port, however the
\* start failed, timed out or raced with the ready line: but for commands that
\* were killed outright, or terminated before their handler was set.
\* (start_worker_server, _render_serve_mlx)
ServersEndWithTheirCommand ==
    \A p \in Procs : Started(p) /\ At(p, "idle") => server[p].orphaned # "no"

\* The endpoint a running serve announced is its own child's: whoever took
\* the port between its choice and its use, the announced port never belongs
\* to another process while the child runs.  (_free_port, serve)
AnnouncedEndpointIsOurs ==
    \A p \in Procs : Announced(p) /\ Started(p) =>
        bound[server[p].port] = p

\* Both readers of the registry see it exactly, so that uninstall is held up
\* only by work that was alive when it looked.  (snapshot)
SnapshotsAreExact ==
    \A p \in Procs : cmd[p].pc = "read" /\ cmd[p].look.left = {} => Exact(cmd[p].look)

\* uninstall removes nothing under work that had its record before uninstall
\* looked.  (render_uninstall, _active_engine_work)
UninstallMindsRecordedWork ==
    \A p, q \in Procs :
        cmd[p].kind = "uninstall" /\ At(p, "remove") /\ At(q, "work") /\ cmd[q].kind # "hub" =>
            \A r \in cmd[p].look.names : r.birth # table[cmd[q].pid]

\* Even if the child hangs in its load or dies without a word, every start comes
\* to an announced endpoint or to its end.  (start_worker_server)
StartsAreDecided ==
    \A p \in Procs : At(p, "handshake") ~> (Announced(p) \/ At(p, "idle"))

\* The registry can be acted on: what is read of it is exact, and uninstall
\* spares what it shows.
RegistryIsTrusted == SnapshotsAreExact /\ UninstallMindsRecordedWork

\* Starts are decided and accepted connections come to their end, though loads
\* hang and clients stall.
ServersMakeProgress == StartsAreDecided /\ NobodyWedgesTheServer

\* A server and its command live and end together, and the endpoint that was
\* announced is theirs.
CommandsOwnTheirServers == ServersEndWithTheirCommand /\ AnnouncedEndpointIsOurs

=============================================================================
