----------------------------- MODULE ServingProofs -----------------------------
(***************************************************************************)
(* Results about Serving for any number of commands, ports, clients and    *)
(* pids, and without any bound on kills, upgrades or requests.             *)
(***************************************************************************)
EXTENDS Serving, SequenceTheorems, TLAPS

----------------------------------------------------------------------------
(***************************************************************************)
(* Commands: where each kind can be, and who holds the lock.               *)
(***************************************************************************)
Commanded == /\ DOMAIN cmd = Procs
             /\ \A p \in Procs : {"pc", "kind", "pid", "ver", "look"} \subseteq DOMAIN cmd[p]

Building == {"decide", "venv", "pip", "find", "version", "schema"}
Starting == {"spawn", "handshake", "verdict", "announce", "handler"}
PlaceFitsKind ==
    \A p \in Procs :
        /\ cmd[p].pc = "idle" => cmd[p].kind = "none"
        /\ cmd[p].pc \in Building => cmd[p].kind \in {"install", "refresh"}
        /\ cmd[p].pc = "remove" => cmd[p].kind \in Locked
        /\ cmd[p].pc \in {"list", "read"} => cmd[p].kind \in {"uninstall", "status"}
        /\ cmd[p].pc \in {"check", "enter", "work"} => cmd[p].kind \notin Locked
        /\ cmd[p].pc \in Starting => cmd[p].kind = "serve"
        /\ cmd[p].pc \in Building \cup Starting \cup {"idle", "remove", "list", "read", "check",
                                                      "enter", "work"}

LockIsHeld == \A p \in Procs : cmd[p].kind \in Locked => lock = p

CommandsInv == Commanded /\ PlaceFitsKind /\ LockIsHeld

USE DEF At, Locked

LEMMA CommandsBegin == Init => CommandsInv
BY DEF Init, CommandsInv, Commanded, PlaceFitsKind, LockIsHeld, Idle, Building, Starting

\* p's command ends.
Quits(p) == /\ cmd' = [cmd EXCEPT ![p] = Idle]
            /\ lock' = IF lock = p THEN Nobody ELSE lock
\* p's command goes on to pc, or reads something.
Moves(p, pc) == /\ DOMAIN cmd' = Procs
                /\ \A q \in Procs \ {p} : cmd'[q] = cmd[q]
                /\ {"pc", "kind", "pid", "ver", "look"} \subseteq DOMAIN cmd'[p]
                /\ cmd'[p].kind = cmd[p].kind /\ cmd'[p].pid = cmd[p].pid
                /\ cmd'[p].ver = cmd[p].ver
                /\ cmd'[p].pc = pc
                /\ lock' = lock

\* Where the command of each place may go.
Ways == {<<"decide", "remove">>, <<"decide", "venv">>, <<"venv", "pip">>, <<"pip", "find">>,
         <<"find", "version">>, <<"version", "schema">>, <<"list", "read">>, <<"read", "read">>,
         <<"remove", "remove">>, <<"enter", "work">>,
         <<"spawn", "handshake">>, <<"handshake", "verdict">>, <<"verdict", "announce">>,
         <<"announce", "handler">>, <<"handler", "enter">>}

\* What a step does to the commands and the lock.
CommandStep ==
    \/ UNCHANGED <<cmd, lock>>
    \/ \E p \in Procs : Quits(p) /\ cmd[p].pc # "idle"
    \/ \E p \in Procs : \E way \in Ways : cmd[p].pc = way[1] /\ Moves(p, way[2])
    \/ \E p \in Procs : cmd[p].pc = "read" /\ cmd[p].kind = "uninstall" /\ Moves(p, "remove")
    \/ \E p \in Procs : cmd[p].pc = "remove" /\ cmd[p].kind # "uninstall" /\ Moves(p, "venv")
    \/ \E p \in Procs : cmd[p].pc = "check" /\ cmd[p].kind = "serve" /\ Moves(p, "spawn")
    \/ \E p \in Procs : cmd[p].pc = "check" /\ cmd[p].kind # "serve" /\ Moves(p, "enter")
    \/ \E p \in Procs, kind \in left.kinds, i \in FreePids : Begin(p, kind, i)

LEMMA GotoMoves ==
    ASSUME CommandsInv, NEW p \in Procs, NEW pc, Goto(p, pc), UNCHANGED lock
    PROVE  Moves(p, pc)
BY DEF CommandsInv, Commanded, Goto, Moves

LEMMA FinishQuits ==
    ASSUME NEW p, Ends(p)
    PROVE  Quits(p)
BY DEF Ends, Quits

USE DEF Finish, FinishTracked, SameWork

LEMMA StepsOfCommands ==
    ASSUME CommandsInv, [Next]_vars
    PROVE  CommandStep
<1>1. ASSUME NEW p \in Procs, Decide(p) PROVE CommandStep
  BY <1>1, GotoMoves, FinishQuits DEF Decide, CommandStep, Ways
<1>2. ASSUME NEW p \in Procs, Create(p) PROVE CommandStep
  <2>1. ASSUME NEW pc, NEW next, <<pc, next>> \in Ways, Build(p, pc, next) PROVE CommandStep
    BY <2>1, GotoMoves DEF Build, CommandStep
  <2>2. ASSUME NEW pc, pc # "idle", Fail(p, pc) PROVE CommandStep
    BY <2>2, FinishQuits DEF Fail, CommandStep
  <2>3. CASE CreateVenv(p) \/ InstallPackages(p)
    BY <2>1, <2>2, <2>3 DEF CreateVenv, InstallPackages, Ways
  <2>4. CASE FindImport(p) \/ WriteVersion(p)
    BY <2>1, <2>2, <2>4 DEF FindImport, WriteVersion, Ways
  <2>5. CASE WriteSchema(p)
    BY <2>5, FinishQuits DEF WriteSchema, CommandStep
  <2> QED BY <1>2, <2>3, <2>4, <2>5 DEF Create
<1>3. ASSUME NEW p \in Procs, List(p) \/ Read(p) PROVE CommandStep
  <2>1. ASSUME NEW look, lock' = lock, cmd[p].pc \in {"list", "read"},
               cmd' = [cmd EXCEPT ![p] = [@ EXCEPT !.look = look, !.pc = "read"]]
        PROVE  CommandStep
    <3>1. Moves(p, "read")
      BY <2>1 DEF Moves, CommandsInv, Commanded
    <3> QED BY <2>1, <3>1 DEF CommandStep, Ways
  <2>2. CASE List(p)
    BY <2>1, <2>2 DEF List, CommandsInv, Commanded
  <2>3. CASE Read(p)
    <3>1. PICK r : cmd' = [cmd EXCEPT ![p].look = ReadRecord(@, r)]
      BY <2>3 DEF Read
    <3>2. Moves(p, "read")
      BY <2>3, <3>1 DEF Read, Moves, CommandsInv, Commanded
    <3> QED BY <2>3, <3>2 DEF Read, CommandStep, Ways
  <2> QED BY <1>3, <2>2, <2>3
<1>4. ASSUME NEW p \in Procs, Judge(p) PROVE CommandStep
  <2>1. CASE Finish(p)
    BY <1>4, <2>1, FinishQuits DEF Judge, CommandStep
  <2>2. CASE cmd[p].kind # "status" /\ Goto(p, "remove") /\ SameWork
    BY <1>4, <2>2, GotoMoves DEF Judge, CommandStep, CommandsInv, PlaceFitsKind
  <2> QED BY <1>4, <2>1, <2>2 DEF Judge
<1>5. ASSUME NEW p \in Procs, Remove(p) PROVE CommandStep
  <2>1. CASE Finish(p)
    BY <1>5, <2>1, FinishQuits DEF Remove, CommandStep
  <2>2. CASE UNCHANGED <<cmd, lock>>
    BY <2>2 DEF CommandStep
  <2>3. CASE cmd[p].kind # "uninstall" /\ Goto(p, "venv") /\ SameWork
    BY <1>5, <2>3, GotoMoves DEF Remove, CommandStep
  <2> QED BY <1>5, <2>1, <2>2, <2>3 DEF Remove
<1>6. ASSUME NEW p \in Procs, Check(p) PROVE CommandStep
  <2>1. CASE Finish(p)
    BY <1>6, <2>1, FinishQuits DEF Check, CommandStep
  <2>2. CASE cmd[p].kind = "serve" /\ Goto(p, "spawn") /\ SameWork
    BY <1>6, <2>2, GotoMoves DEF Check, CommandStep
  <2>3. CASE cmd[p].kind # "serve" /\ Goto(p, "enter") /\ SameWork
    BY <1>6, <2>3, GotoMoves DEF Check, CommandStep
  <2> QED BY <1>6, <2>1, <2>2, <2>3 DEF Check
<1>7. ASSUME NEW p \in Procs, EnterWork(p) \/ EndWork(p) PROVE CommandStep
  BY <1>7, GotoMoves, FinishQuits DEF EnterWork, EndWork, CommandStep, Ways
<1>8. ASSUME NEW p \in Procs, Spawn(p) \/ Join(p) \/ Verdict(p) PROVE CommandStep
  BY <1>8, GotoMoves, FinishQuits DEF Spawn, Join, Verdict, CommandStep, Ways
<1>9. ASSUME NEW p \in Procs, Announce(p) \/ SetHandler(p) PROVE CommandStep
  BY <1>9, GotoMoves DEF Announce, SetHandler, CommandStep, Ways
<1>10. ASSUME NEW p \in Procs, EnterServing(p) \/ ChildEnded(p) PROVE CommandStep
  BY <1>10, GotoMoves, FinishQuits DEF EnterServing, ChildEnded, CommandStep, Ways
<1>11. ASSUME NEW p \in Procs, Killed(p) \/ Terminated(p) \/ Interrupted(p) PROVE CommandStep
  BY <1>11, FinishQuits DEF Killed, Terminated, Interrupted, Signalled, Waited, CommandStep
<1>12. ASSUME NEW p \in Procs, ChildSteps(p) \/ ServeRequests(p) PROVE CommandStep
  BY <1>12 DEF ChildSteps, ServeRequests, CommandStep
<1>13. CASE Upgrade \/ OtherProcess \/ Clientele \/ UNCHANGED vars
  BY <1>13 DEF Upgrade, OtherProcess, Clientele, vars, CommandStep
<1>14. ASSUME NEW p \in FreeSlots, NEW kind \in left.kinds, NEW i \in FreePids, Begin(p, kind, i)
       PROVE  CommandStep
  BY <1>14 DEF FreeSlots, CommandStep
<1> QED
  BY <1>1, <1>2, <1>3, <1>4, <1>5, <1>6, <1>7, <1>8, <1>9, <1>10, <1>11, <1>12, <1>13, <1>14
     DEF Next

LEMMA CommandsKept ==
    ASSUME CommandsInv, [Next]_vars
    PROVE  CommandsInv'
<1>1. CASE UNCHANGED <<cmd, lock>>
  BY <1>1 DEF CommandsInv, Commanded, PlaceFitsKind, LockIsHeld
<1>2. ASSUME NEW p \in Procs, Quits(p) PROVE CommandsInv'
  <2>1. cmd'[p] = Idle /\ \A q \in Procs \ {p} : cmd'[q] = cmd[q]
    BY <1>2 DEF Quits, CommandsInv, Commanded
  <2>2. Commanded'
    BY <1>2, <2>1 DEF Quits, CommandsInv, Commanded, Idle
  <2>3. PlaceFitsKind'
    BY <2>1 DEF CommandsInv, PlaceFitsKind, Idle, Building, Starting
  <2>4. LockIsHeld'
    BY <1>2, <2>1 DEF Quits, CommandsInv, LockIsHeld, Idle
  <2> QED BY <2>2, <2>3, <2>4 DEF CommandsInv
<1>3. ASSUME NEW p \in Procs, NEW pc, Moves(p, pc),
             \/ <<cmd[p].pc, pc>> \in Ways
             \/ cmd[p].pc = "read" /\ cmd[p].kind = "uninstall" /\ pc = "remove"
             \/ cmd[p].pc = "remove" /\ cmd[p].kind # "uninstall" /\ pc = "venv"
             \/ cmd[p].pc = "check" /\ cmd[p].kind = "serve" /\ pc = "spawn"
             \/ cmd[p].pc = "check" /\ cmd[p].kind # "serve" /\ pc = "enter"
      PROVE  CommandsInv'
  <2>1. Commanded'
    BY <1>3 DEF Moves, CommandsInv, Commanded
  <2>2. PlaceFitsKind'
    BY <1>3 DEF Moves, CommandsInv, PlaceFitsKind, Building, Starting, Ways
  <2>3. LockIsHeld'
    BY <1>3 DEF Moves, CommandsInv, LockIsHeld
  <2> QED BY <2>1, <2>2, <2>3 DEF CommandsInv
<1>4. ASSUME NEW p \in Procs, NEW kind \in left.kinds, NEW i \in FreePids, Begin(p, kind, i)
      PROVE  CommandsInv'
  <2> DEFINE new == [Idle EXCEPT !.pc = FirstStep(kind), !.kind = kind, !.pid = i, !.ver = release]
  <2>1. /\ cmd' = [cmd EXCEPT ![p] = new]
        /\ kind \in Locked => lock = Nobody
        /\ lock' = IF kind \in Locked THEN p ELSE lock
    BY <1>4 DEF Begin
  <2>2. new.pc = FirstStep(kind) /\ new.kind = kind
        /\ {"pc", "kind", "pid", "ver", "look"} \subseteq DOMAIN new
    BY DEF Idle
  <2> HIDE DEF new
  <2>3. DOMAIN cmd' = Procs /\ cmd'[p] = new /\ \A q \in Procs \ {p} : cmd'[q] = cmd[q]
    BY <2>1 DEF CommandsInv, Commanded
  <2>4. Commanded'
    BY <2>2, <2>3 DEF CommandsInv, Commanded
  <2>5. PlaceFitsKind'
    BY <2>2, <2>3 DEF CommandsInv, PlaceFitsKind, FirstStep, Building, Starting
  <2>6. LockIsHeld'
    BY <2>1, <2>2, <2>3, NobodyIsNoProcess DEF CommandsInv, LockIsHeld
  <2> QED BY <2>4, <2>5, <2>6 DEF CommandsInv
<1>5. CommandStep
  BY StepsOfCommands
<1> QED BY <1>1, <1>2, <1>3, <1>4, <1>5 DEF CommandStep, Ways

----------------------------------------------------------------------------
(***************************************************************************)
(* The environment: how far a build is follows from where its command is.  *)
(***************************************************************************)
EnvFields == {"parts", "built", "stamp", "provides", "torn"} \subseteq DOMAIN env
BuiltSoFar ==
    \A p \in Procs :
        /\ cmd[p].pc = "pip" => env.parts = {"dir", "python"}
        /\ cmd[p].pc = "find" =>
              env.parts = {"dir", "python", "packages"} /\ env.built = cmd[p].ver
        /\ cmd[p].pc = "version" => /\ env.parts = {"dir", "python", "packages"}
                                    /\ env.built = cmd[p].ver /\ env.provides
        /\ cmd[p].pc = "schema" => /\ env.parts = {"dir", "python", "packages", "version"}
                                   /\ env.built = env.stamp /\ env.provides
EnvInv == EnvFields /\ BuiltSoFar /\ StampedIsWhole

Made == {"pip", "find", "version", "schema"}

USE DEF Exists, StampedSchema

LEMMA EnvBegins == Init => EnvInv
BY DEF Init, EnvInv, EnvFields, BuiltSoFar, StampedIsWhole, Absent, Parts, Idle

\* A step that leaves the environment alone starts no build half way.
LEMMA EnvAlone ==
    ASSUME CommandsInv, EnvInv, [Next]_vars, env' = env,
           \A q \in Procs : cmd'[q].pc \in Made
               => cmd'[q].pc = cmd[q].pc /\ cmd'[q].ver = cmd[q].ver
    PROVE  EnvInv'
BY DEF EnvInv, EnvFields, BuiltSoFar, StampedIsWhole, Made

\* Only one command builds or removes.
LEMMA OneBuilder ==
    ASSUME CommandsInv, NEW p \in Procs, NEW q \in Procs, cmd[p].kind \in Locked,
           cmd[q].pc \in Building \cup {"remove"}
    PROVE  p = q
BY DEF CommandsInv, LockIsHeld, PlaceFitsKind

LEMMA BuildingKeeps ==
    ASSUME CommandsInv, EnvInv, NEW p \in Procs, Create(p), [Next]_vars
    PROVE  EnvInv'
<1>1. CommandsInv'
  BY CommandsKept
<1>2. cmd[p].kind \in Locked
  BY DEF Create, CreateVenv, InstallPackages, FindImport, WriteVersion, WriteSchema, Build, Fail,
         CommandsInv, PlaceFitsKind, Building
  \* No other command is at one of these places, before or after.
<1>3. \A q \in Procs \ {p} : cmd[q].pc \notin Made /\ cmd'[q] = cmd[q]
  <2>1. \A q \in Procs \ {p} : cmd[q].pc \notin Made
    BY <1>2, OneBuilder DEF Made, Building
  <2>2. \A q \in Procs \ {p} : cmd'[q] = cmd[q]
    BY DEF Create, CreateVenv, InstallPackages, FindImport, WriteVersion, WriteSchema, Build, Fail,
           Goto, Ends, CommandsInv, Commanded
  <2> QED BY <2>1, <2>2
<1>4. DOMAIN cmd = Procs /\ {"pc", "kind", "pid", "ver", "look"} \subseteq DOMAIN cmd[p]
  BY DEF CommandsInv, Commanded
<1>5. ASSUME NEW next, Goto(p, next) PROVE cmd'[p].pc = next /\ cmd'[p].ver = cmd[p].ver
  BY <1>4, <1>5 DEF Goto
<1>6. ASSUME Finish(p) PROVE cmd'[p].pc = "idle"
  BY <1>4, <1>6 DEF Ends, Idle
<1> USE DEF EnvInv, EnvFields
<1>7. CASE CreateVenv(p)
  <2>1. CASE Venv /\ Build(p, "venv", "pip")
    BY <1>3, <1>5, <2>1 DEF Venv, Build, Absent, BuiltSoFar, StampedIsWhole, Made
  <2>2. CASE VenvFails /\ Fail(p, "venv")
    BY <1>3, <1>6, <2>2 DEF VenvFails, Has, Fail, BuiltSoFar, StampedIsWhole, Made
  <2> QED BY <1>7, <2>1, <2>2 DEF CreateVenv
<1>8. ASSUME Teardown, Finish(p), "version" \notin env.parts PROVE EnvInv'
  BY <1>3, <1>6, <1>8 DEF Teardown, Absent, BuiltSoFar, StampedIsWhole, Made
<1>9. CASE InstallPackages(p)
  <2>1. CASE PipInstall(cmd[p].ver) /\ Build(p, "pip", "find")
    BY <1>3, <1>5, <2>1 DEF PipInstall, Build, BuiltSoFar, StampedIsWhole, Made
  <2>2. CASE Teardown /\ Fail(p, "pip")
    BY <1>8, <2>2 DEF Fail, BuiltSoFar
  <2> QED BY <1>9, <2>1, <2>2 DEF InstallPackages
<1>10. CASE FindImport(p)
  <2>1. CASE FindSpec /\ UNCHANGED env /\ Build(p, "find", "version")
    BY <1>3, <1>5, <2>1 DEF FindSpec, Build, BuiltSoFar, StampedIsWhole, Made
  <2>2. CASE Teardown /\ Fail(p, "find")
    BY <1>8, <2>2 DEF Fail, BuiltSoFar
  <2> QED BY <1>10, <2>1, <2>2 DEF FindImport
<1>11. CASE WriteVersion(p)
  BY <1>3, <1>5, <1>11 DEF WriteVersion, StampVersion, Build, BuiltSoFar, StampedIsWhole, Made
<1>12. CASE WriteSchema(p)
  BY <1>3, <1>6, <1>12 DEF WriteSchema, StampSchema, Has, BuiltSoFar, StampedIsWhole, Made
<1> QED BY <1>7, <1>9, <1>10, <1>11, <1>12 DEF Create

LEMMA RemovingKeeps ==
    ASSUME CommandsInv, EnvInv, NEW p \in Procs, Remove(p), [Next]_vars
    PROVE  EnvInv'
<1>1. cmd[p].kind \in Locked
  BY DEF Remove, CommandsInv, PlaceFitsKind
<1>2. \A q \in Procs \ {p} : cmd[q].pc \notin Made /\ cmd'[q] = cmd[q]
  <2>1. \A q \in Procs \ {p} : cmd[q].pc \notin Made
    BY <1>1, OneBuilder DEF Made, Building
  <2>2. \A q \in Procs \ {p} : cmd'[q] = cmd[q]
    BY DEF Remove, Goto, Ends, CommandsInv, Commanded
  <2> QED BY <2>1, <2>2
<1>3. cmd'[p].pc \notin Made
  BY DEF Remove, Goto, Ends, CommandsInv, Commanded, Idle, Made
<1>4. env' = env \/ RemovePart
  BY DEF Remove
<1>5. BuiltSoFar'
  BY <1>2, <1>3 DEF BuiltSoFar, Made
<1>6. EnvFields' /\ StampedIsWhole'
  <2>1. CASE env' = env
    BY <2>1 DEF EnvInv, EnvFields, StampedIsWhole
  <2>2. CASE env' = Absent
    BY <2>2 DEF Absent, EnvFields, StampedIsWhole
  <2>3. ASSUME NEW x, env' = [env EXCEPT !.parts = @ \ {x}, !.torn = TRUE]
        PROVE  EnvFields' /\ StampedIsWhole'
    <3>1. EnvFields' /\ env'.torn = TRUE
      BY <2>3 DEF EnvInv, EnvFields
    <3> QED BY <3>1 DEF StampedIsWhole
  <2> QED BY <1>4, <2>1, <2>2, <2>3 DEF RemovePart
<1> QED BY <1>5, <1>6 DEF EnvInv

LEMMA EnvKept ==
    ASSUME CommandsInv, EnvInv, [Next]_vars
    PROVE  EnvInv'
<1>1. ASSUME NEW p \in Procs, Create(p) PROVE EnvInv'
  BY <1>1, BuildingKeeps
<1>2. ASSUME NEW p \in Procs, Remove(p) PROVE EnvInv'
  BY <1>2, RemovingKeeps
<1>3. CASE \A p \in Procs : ~Create(p) /\ ~Remove(p)
  <2> DEFINE Spares == \A q \in Procs :
               cmd'[q].pc \in Made => cmd'[q].pc = cmd[q].pc /\ cmd'[q].ver = cmd[q].ver
  <2>1. env' = env
    BY <1>3 DEF Next, Begin, Decide, List, Read, Judge, Check, EnterWork, EndWork, Spawn, Join,
                Verdict, Announce, SetHandler, EnterServing, ChildEnded, ChildSteps, ServeRequests,
                Killed, Terminated, Interrupted, Upgrade, OtherProcess, Clientele, vars
  <2>2. ASSUME NEW p \in Procs, NEW pc, pc \notin Made, Goto(p, pc) PROVE Spares
    BY <2>2 DEF Goto, CommandsInv, Commanded
  <2>3. ASSUME NEW p \in Procs, Ends(p) PROVE Spares
    BY <2>3 DEF Ends, Idle, Made, CommandsInv, Commanded
  <2>4. ASSUME cmd' = cmd PROVE Spares
    BY <2>4
  <2>5. ASSUME NEW p \in Procs, NEW kind \in left.kinds, NEW i \in FreePids, Begin(p, kind, i)
        PROVE  Spares
    <3>1. cmd'[p].pc = FirstStep(kind) /\ \A q \in Procs \ {p} : cmd'[q] = cmd[q]
      <4> DEFINE new == [Idle EXCEPT !.pc = FirstStep(kind), !.kind = kind, !.pid = i,
                                     !.ver = release]
      <4>1. cmd' = [cmd EXCEPT ![p] = new]
        BY <2>5 DEF Begin
      <4>2. new.pc = FirstStep(kind)
        BY DEF Idle
      <4> HIDE DEF new
      <4> QED BY <4>1, <4>2 DEF CommandsInv, Commanded
    <3> QED BY <3>1 DEF FirstStep, Made
  <2>6. ASSUME NEW p \in Procs, List(p) \/ Read(p) PROVE Spares
    <3>1. \A q \in Procs \ {p} : cmd'[q] = cmd[q]
      BY <2>6 DEF List, Read, CommandsInv, Commanded
    <3>2. cmd'[p].pc = "read"
      BY <2>6 DEF List, Read, CommandsInv, Commanded
    <3> QED BY <3>1, <3>2 DEF Made
  <2>7. ASSUME NEW p \in Procs, Decide(p) \/ Judge(p) \/ Check(p) \/ EnterWork(p) \/ EndWork(p)
                                \/ Spawn(p) \/ Join(p) \/ Verdict(p)
        PROVE  Spares
    BY <2>2, <2>3, <2>7 DEF Decide, Judge, Check, EnterWork, EndWork, Spawn, Join, Verdict, Made
  <2>8. ASSUME NEW p \in Procs, Announce(p) \/ SetHandler(p) \/ EnterServing(p) \/ ChildEnded(p)
                                \/ Killed(p) \/ Terminated(p) \/ Interrupted(p)
        PROVE  Spares
    BY <2>2, <2>3, <2>8 DEF Announce, SetHandler, EnterServing, ChildEnded, Killed, Terminated,
                            Interrupted, Made
  <2>9. ASSUME NEW p \in Procs, ChildSteps(p) \/ ServeRequests(p) PROVE Spares
    BY <2>4, <2>9 DEF ChildSteps, ServeRequests
  <2>10. ASSUME Upgrade \/ OtherProcess \/ Clientele \/ UNCHANGED vars PROVE Spares
    BY <2>4, <2>10 DEF Upgrade, OtherProcess, Clientele, vars
  <2>11. Spares
    <3> HIDE DEF Spares
    <3> QED
      BY <1>3, <2>5, <2>6, <2>7, <2>8, <2>9, <2>10 DEF Next, FreeSlots
  <2> QED BY <2>1, <2>11, EnvAlone
<1> QED BY <1>1, <1>2, <1>3

\* Whatever is killed, fails or is upgraded, an environment that calls itself
\* ready is whole (is_installed, create, install).
THEOREM EnvironmentsStampedAreWhole == Spec => []StampedIsWhole
<1>1. EnvInv => StampedIsWhole
  BY DEF EnvInv
<1> QED BY CommandsBegin, EnvBegins, CommandsKept, EnvKept, <1>1, PTL DEF Spec

----------------------------------------------------------------------------
(***************************************************************************)
(* Servers: what a command's child is by where the command is, and who     *)
(* holds the port.                                                         *)
(***************************************************************************)
ServerFields ==
    /\ DOMAIN server = Procs /\ DOMAIN bound = Ports
    /\ \A p \in Procs : {"at", "port", "said", "cur", "line", "orphaned"} \subseteq DOMAIN server[p]

HasSaid == {"announce", "handler", "enter", "work"}
HasChild == {"handshake", "verdict"} \cup HasSaid
ServerFits(p) ==
    /\ ~At(p, "idle") /\ ~Is(p, "none") =>
          cmd[p].kind = "serve" /\ cmd[p].pc \in HasChild
    /\ cmd[p].kind = "serve" /\ cmd[p].pc \in HasChild => ~Is(p, "none")
    /\ cmd[p].kind = "serve" /\ cmd[p].pc \in HasSaid => server[p].at \in {"up", "gone"}
    /\ server[p].said = "ready" => server[p].at \in {"none", "up", "gone"}
    /\ Started(p) => server[p].port \in Ports
    /\ server[p].at \in {"bound", "up"} => bound[server[p].port] = p
    /\ At(p, "idle") /\ Started(p) => server[p].orphaned # "no"

ServersInv == ServerFields /\ \A p \in Procs : ServerFits(p)

USE DEF Is, Started

LEMMA ServersBegin == Init => ServersInv
BY DEF Init, ServerInit, ServersInv, ServerFields, ServerFits, NoServer, Idle, HasChild, HasSaid

\* Nothing that matters to q's server and its port changes.
Undisturbed(q) ==
    /\ cmd'[q].pc = cmd[q].pc /\ cmd'[q].kind = cmd[q].kind
    /\ server'[q].at = server[q].at /\ server'[q].port = server[q].port
    /\ server'[q].said = server[q].said /\ server'[q].orphaned = server[q].orphaned
    /\ \A i \in Ports : bound[i] = q => bound'[i] = q

LEMMA UndisturbedFits ==
    ASSUME NEW q \in Procs, ServerFits(q), Undisturbed(q)
    PROVE  ServerFits(q)'
BY DEF ServerFits, Undisturbed

LEMMA CommandsUndisturbed ==
    ASSUME ServersInv, UNCHANGED serverVars, NEW p \in Procs,
           \A q \in Procs \ {p} : cmd'[q] = cmd[q],
           \/ cmd'[p].pc = cmd[p].pc /\ cmd'[p].kind = cmd[p].kind
           \/ Is(p, "none") /\ ~(cmd'[p].kind = "serve" /\ cmd'[p].pc \in HasChild)
           \/ cmd'[p].kind = "serve" /\ cmd'[p].pc = "verdict" /\ ~Is(p, "none")
           \/ cmd'[p].kind = "serve" /\ cmd'[p].pc \in HasSaid /\ server[p].at \in {"up", "gone"}
    PROVE  ServersInv'
<1>1. ServerFields' /\ server' = server /\ bound' = bound
  BY DEF ServersInv, ServerFields, serverVars
<1>2. \A q \in Procs \ {p} : ServerFits(q)'
  BY <1>1 DEF ServersInv, ServerFits
<1>3. ServerFits(p)'
  BY <1>1 DEF ServersInv, ServerFits, HasChild, HasSaid
<1> QED BY <1>1, <1>2, <1>3 DEF ServersInv

\* p's child ends, and so does its command, or the child is gone and p knows.
LEMMA EndingFits ==
    ASSUME CommandsInv, ServersInv, NEW p \in Procs, NEW at \in {"none", "gone"}, NEW said,
           Ended(p, at, said), \A q \in Procs \ {p} : cmd'[q] = cmd[q],
           \/ cmd'[p] = cmd[p] /\ at = "gone" /\ cmd[p].kind = "serve" /\ ~At(p, "idle")
              /\ ~Is(p, "none")
           \/ cmd'[p] = cmd[p] /\ at = "none" /\ At(p, "idle") /\ cmd[p].kind # "serve"
           \/ at = "none" /\ cmd'[p] = Idle
    PROVE  ServersInv'
<1> USE DEF ServersInv, ServerFields
<1>1. /\ \A q \in Procs \ {p} : server'[q] = server[q]
      /\ server'[p] = IF at = "none" THEN NoServer ELSE [NoServer EXCEPT !.at = at, !.said = said]
      /\ DOMAIN server' = Procs /\ DOMAIN bound' = Ports
      /\ \A i \in Ports : bound'[i] = IF bound[i] = p THEN Nobody ELSE bound[i]
  BY DEF Ended
<1>2. ServerFields'
  <2>1. CASE at = "none"
    BY <1>1, <2>1 DEF NoServer
  <2>2. CASE at = "gone"
    <3> DEFINE new == [NoServer EXCEPT !.at = at, !.said = said]
    <3>1. {"at", "port", "said", "cur", "line", "orphaned"} \subseteq DOMAIN new
      BY DEF NoServer
    <3>2. server'[p] = new
      BY <1>1, <2>2
    <3> HIDE DEF new
    <3> QED BY <1>1, <3>1, <3>2
  <2> QED BY <2>1, <2>2
<1>3. \A q \in Procs \ {p} : ServerFits(q)'
  <2>1. \A q \in Procs \ {p} : Undisturbed(q)
    BY <1>1 DEF Undisturbed
  <2> QED BY <2>1, UndisturbedFits
<1>4. ServerFits(p)'
  <2>1. CASE at = "none"
    <3>1. server'[p].at = "none" /\ server'[p].said = "none"
      BY <1>1, <2>1 DEF NoServer
    <3>2. ~(cmd'[p].kind = "serve" /\ cmd'[p].pc \in HasChild)
      BY <2>1 DEF Idle, HasChild, HasSaid
    <3> QED BY <3>1, <3>2 DEF ServerFits, HasChild
  <2>2. CASE at = "gone"
    <3>1. server'[p].at = "gone" /\ cmd'[p] = cmd[p] /\ ServerFits(p)
      BY <1>1, <2>2 DEF NoServer
    <3> QED BY <2>2, <3>1 DEF ServerFits
  <2> QED BY <2>1, <2>2
<1> QED BY <1>2, <1>3, <1>4

\* What the endpoint does with its connections is nothing to its command.
LEMMA RequestsAreQuiet ==
    ASSUME ServersInv, NEW p \in Procs, HandleRequests(p), cmd' = cmd
    PROVE  ServersInv'
<1>1. ASSUME DOMAIN server' = Procs, bound' = bound,
             \A q \in Procs :
                 /\ {"at", "port", "said", "cur", "line", "orphaned"} \subseteq DOMAIN server'[q]
                              /\ server'[q].at = server[q].at /\ server'[q].port = server[q].port
                              /\ server'[q].said = server[q].said
                              /\ server'[q].orphaned = server[q].orphaned
      PROVE  ServersInv'
  <2>1. ServerFields'
    BY <1>1 DEF ServersInv, ServerFields
  <2>2. \A q \in Procs : Undisturbed(q)
    BY <1>1 DEF Undisturbed
  <2> QED BY <2>1, <2>2, UndisturbedFits DEF ServersInv
<1>2. ASSUME UNCHANGED <<server, bound>> PROVE ServersInv'
  BY <1>1, <1>2 DEF ServersInv, ServerFields
<1>3. ASSUME NEW statuses, Close(p, statuses) PROVE ServersInv'
  BY <1>1, <1>3 DEF Close, ServersInv, ServerFields
<1>4. ASSUME NEW c, NEW at, To(c, at) PROVE ServersInv'
  BY <1>2, <1>4 DEF To
<1>5. CASE Accept(p)
  <2>1. PICK c, line : server' = [server EXCEPT ![p].cur = c, ![p].line = line] /\ bound' = bound
    BY <1>5 DEF Accept
  <2> QED BY <1>1, <2>1 DEF ServersInv, ServerFields
<1>6. CASE ReadHead(p) \/ ReadBody(p) \/ Stalled(p)
  BY <1>3, <1>4, <1>6 DEF ReadHead, ReadBody, Stalled
<1>7. CASE Govern(p)
  BY <1>2, <1>3, <1>4, <1>7 DEF Govern
<1>8. CASE Generate(p)
  <2>1. ASSUME server' = [server EXCEPT ![p].cur = Nobody], bound' = bound PROVE ServersInv'
    BY <1>1, <2>1 DEF ServersInv, ServerFields
  <2> QED BY <1>3, <1>8, <2>1 DEF Generate
<1>9. CASE Stream(p)
  BY <1>2, <1>3, <1>9 DEF Stream
<1> QED BY <1>5, <1>6, <1>7, <1>8, <1>9 DEF HandleRequests

LEMMA ChildrenKeep ==
    ASSUME CommandsInv, ServersInv, NEW p \in Procs, ChildSteps(p) \/ ServeRequests(p), [Next]_vars
    PROVE  ServersInv'
<1> USE DEF ServersInv, ServerFields, Waited
<1>0. cmd' = cmd
  BY DEF ChildSteps, ServeRequests
<1>1. ASSUME NEW said, ~Is(p, "none"), Exits(p, Waited(p), said) PROVE ServersInv'
  <2>1. CASE Waited(p)
    BY <1>0, <1>1, <2>1, EndingFits DEF Exits, ServerFits
  <2>2. CASE ~Waited(p)
    BY <1>0, <1>1, <2>2, EndingFits DEF Exits, CommandsInv, PlaceFitsKind
  <2> QED BY <2>1, <2>2
  \* The child goes on from one place to a later one.
<1>2. ASSUME NEW at, NEW said, server' = [server EXCEPT ![p] = [@ EXCEPT !.at = at, !.said = said]],
             DOMAIN bound' = Ports,
             \A q \in Procs \ {p}, i \in Ports : bound[i] = q => bound'[i] = q,
             \/ Is(p, "gate") /\ at = "loaded" /\ said = server[p].said
             \/ Is(p, "loaded") /\ at = "bound" /\ said = server[p].said
                /\ bound'[server[p].port] = p
             \/ Is(p, "bound") /\ at = "up" /\ said = "ready" /\ bound' = bound
      PROVE  ServersInv'
  <2>1. ServerFields' /\ server'[p].at = at /\ server'[p].said = said
        /\ server'[p].port = server[p].port /\ server'[p].orphaned = server[p].orphaned
    BY <1>2
  <2>2. \A q \in Procs \ {p} : server'[q] = server[q]
    BY <1>2
  <2>3. \A q \in Procs \ {p} : Undisturbed(q)
    BY <1>0, <1>2, <2>2 DEF Undisturbed
  <2>4. \A q \in Procs \ {p} : ServerFits(q)'
    BY <2>3, UndisturbedFits
  <2>5. ServerFits(p)'
    BY <1>0, <1>2, <2>1 DEF ServerFits
  <2> QED BY <2>1, <2>4, <2>5
<1>3. CASE GateAndLoad(p, "packages" \in env.parts, Waited(p))
  <2>1. CASE Exits(p, Waited(p), "refused") \/ Exits(p, Waited(p), "none")
    BY <1>1, <1>3, <2>1 DEF GateAndLoad
  <2>2. CASE server' = [server EXCEPT ![p].at = "loaded"] /\ UNCHANGED <<bound, conn>>
    <3>1. server' = [server EXCEPT ![p] = [@ EXCEPT !.at = "loaded", !.said = server[p].said]]
      BY <2>2
    <3> QED BY <1>2, <1>3, <2>2, <3>1 DEF GateAndLoad
  <2> QED BY <1>3, <2>1, <2>2 DEF GateAndLoad
<1>4. CASE Bind(p, Waited(p))
  <2>1. CASE Exits(p, Waited(p), "none")
    BY <1>1, <1>4, <2>1 DEF Bind
  <2>2. CASE /\ bound[server[p].port] = Nobody /\ bound' = [bound EXCEPT ![server[p].port] = p]
             /\ server' = [server EXCEPT ![p].at = "bound"]
    <3>1. server' = [server EXCEPT ![p] = [@ EXCEPT !.at = "bound", !.said = server[p].said]]
      BY <2>2
    <3>2. server[p].port \in Ports
      BY <1>4 DEF Bind, ServerFits
    <3>3. DOMAIN bound' = Ports /\ bound'[server[p].port] = p
          /\ \A q \in Procs \ {p}, i \in Ports : bound[i] = q => bound'[i] = q
      BY <2>2, <3>2, NobodyIsNoProcess
    <3> QED BY <1>2, <1>4, <3>1, <3>3 DEF Bind
  <2> QED BY <1>4, <2>1, <2>2 DEF Bind
<1>5. CASE Is(p, "up") /\ Exits(p, Waited(p), server[p].said)
  BY <1>1, <1>5
<1>6. CASE SayReady(p, Waited(p))
  BY <1>1, <1>2, <1>6 DEF SayReady
<1>7. CASE HandleRequests(p)
  BY <1>0, <1>7, RequestsAreQuiet
<1> QED BY <1>3, <1>4, <1>5, <1>6, <1>7 DEF ChildSteps, ServeRequests

LEMMA SignalsKeep ==
    ASSUME CommandsInv, ServersInv, NEW p \in Procs, Killed(p) \/ Terminated(p) \/ Interrupted(p)
    PROVE  ServersInv'
<1> USE DEF ServersInv, ServerFields
<1>0. cmd'[p] = Idle /\ \A q \in Procs \ {p} : cmd'[q] = cmd[q]
  BY DEF Killed, Terminated, Interrupted, Ends, CommandsInv, Commanded
<1>1. CASE ReapChild(p)
  BY <1>0, <1>1, EndingFits DEF ReapChild
<1>2. ASSUME NEW why \in {"kill", "early"}, Orphan(p, why) PROVE ServersInv'
  <2>1. ServerFields' /\ bound' = bound /\ \A q \in Procs \ {p} : server'[q] = server[q]
    BY <1>2 DEF Orphan
  <2>2. /\ server'[p].at = IF server[p].at = "gone" THEN "none" ELSE server[p].at
        /\ server'[p].orphaned = IF Started(p) THEN why ELSE server[p].orphaned
        /\ server'[p].port = server[p].port /\ server'[p].said = server[p].said
    BY <1>2 DEF Orphan
  <2>3. \A q \in Procs \ {p} : Undisturbed(q)
    BY <1>0, <2>1 DEF Undisturbed
  <2>4. ServerFits(p)'
    BY <1>0, <2>1, <2>2 DEF ServerFits, Idle, HasChild, HasSaid
  <2> QED BY <2>1, <2>3, <2>4, UndisturbedFits
<1> QED BY <1>1, <1>2 DEF Killed, Terminated, Interrupted

LEMMA ServersKept ==
    ASSUME CommandsInv, ServersInv, [Next]_vars
    PROVE  ServersInv'
<1> USE DEF CommandsInv, Commanded
  \* A command without a child goes to a place without a child.
<1>1. ASSUME NEW p \in Procs, UNCHANGED serverVars, Is(p, "none"),
             \A q \in Procs \ {p} : cmd'[q] = cmd[q],
             ~(cmd'[p].kind = "serve" /\ cmd'[p].pc \in HasChild)
      PROVE  ServersInv'
  BY <1>1, CommandsUndisturbed
<1>2. ASSUME NEW p \in Procs, cmd[p].kind # "serve", ~At(p, "idle"), UNCHANGED serverVars,
             \/ Ends(p)
             \/ \E pc : Goto(p, pc)
             \/ List(p) \/ Read(p)
      PROVE  ServersInv'
  <2>1. Is(p, "none")
    BY <1>2 DEF ServersInv, ServerFits
  <2>2. \A q \in Procs \ {p} : cmd'[q] = cmd[q]
    BY <1>2 DEF Ends, Goto, List, Read
  <2>3. cmd'[p].kind # "serve"
    BY <1>2 DEF Ends, Goto, List, Read, Idle
  <2> QED BY <1>1, <1>2, <2>1, <2>2, <2>3
<1>3. ASSUME NEW p \in Procs, Decide(p) \/ Create(p) PROVE ServersInv'
  <2>1. cmd[p].kind # "serve" /\ ~At(p, "idle")
    BY <1>3 DEF Decide, Create, CreateVenv, InstallPackages, FindImport, WriteVersion, WriteSchema,
                Build, Fail, PlaceFitsKind, Building
  <2>2. UNCHANGED serverVars /\ (Ends(p) \/ \E pc : Goto(p, pc))
    BY <1>3 DEF Decide, Create, CreateVenv, InstallPackages, FindImport, WriteVersion, WriteSchema,
                Build, Fail
  <2> QED BY <1>2, <2>1, <2>2
<1>4. ASSUME NEW p \in Procs, List(p) \/ Read(p) \/ Judge(p) PROVE ServersInv'
  <2>1. cmd[p].kind # "serve" /\ ~At(p, "idle")
    BY <1>4 DEF List, Read, Judge, PlaceFitsKind
  <2>2. UNCHANGED serverVars /\ (Ends(p) \/ (\E pc : Goto(p, pc)) \/ List(p) \/ Read(p))
    BY <1>4 DEF List, Read, Judge
  <2> QED BY <1>2, <2>1, <2>2
<1>5. ASSUME NEW p \in Procs, Remove(p) PROVE ServersInv'
  <2>1. cmd[p].kind # "serve" /\ ~At(p, "idle")
    BY <1>5 DEF Remove, PlaceFitsKind
  <2>2. UNCHANGED serverVars /\ (cmd' = cmd \/ Ends(p) \/ \E pc : Goto(p, pc))
    BY <1>5 DEF Remove
  <2>3. CASE cmd' = cmd
    BY <2>2, <2>3, CommandsUndisturbed
  <2> QED BY <1>2, <2>1, <2>2, <2>3
<1>6. ASSUME NEW p \in Procs, Check(p) PROVE ServersInv'
  <2>1. Is(p, "none") /\ UNCHANGED serverVars
    BY <1>6 DEF Check, ServersInv, ServerFits, HasChild, HasSaid
  <2>2. \A q \in Procs \ {p} : cmd'[q] = cmd[q]
    BY <1>6 DEF Check, Ends, Goto
  <2>3. ~(cmd'[p].kind = "serve" /\ cmd'[p].pc \in HasChild)
    BY <1>6 DEF Check, Ends, Goto, Idle, HasChild, HasSaid
  <2> QED BY <1>1, <2>1, <2>2, <2>3
<1>7. ASSUME NEW p \in Procs, EnterWork(p) \/ EndWork(p) PROVE ServersInv'
  <2>1. cmd[p].kind # "serve" /\ ~At(p, "idle") /\ UNCHANGED serverVars
        /\ (Ends(p) \/ \E pc : Goto(p, pc))
    BY <1>7 DEF EnterWork, EndWork
  <2> QED BY <1>2, <2>1
<1>8. ASSUME NEW p \in Procs, NEW kind \in left.kinds, NEW i \in FreePids, p \in FreeSlots,
             Begin(p, kind, i)
      PROVE  ServersInv'
  <2> DEFINE new == [Idle EXCEPT !.pc = FirstStep(kind), !.kind = kind, !.pid = i, !.ver = release]
  <2>1. cmd' = [cmd EXCEPT ![p] = new] /\ UNCHANGED serverVars
    BY <1>8 DEF Begin
  <2>2. new.pc = FirstStep(kind)
    BY DEF Idle
  <2> HIDE DEF new
  <2>3. cmd'[p].pc = FirstStep(kind) /\ \A q \in Procs \ {p} : cmd'[q] = cmd[q]
    BY <2>1, <2>2
  <2>4. FirstStep(kind) \notin HasChild
    BY DEF FirstStep, HasChild, HasSaid
  <2> QED BY <1>1, <1>8, <2>1, <2>3, <2>4 DEF FreeSlots
<1>9. ASSUME NEW p \in Procs, cmd[p].kind = "serve", Ended(p, "none", "none"), Ends(p)
      PROVE  ServersInv'
  BY <1>9, EndingFits DEF Ends
<1>10. ASSUME NEW p \in Procs, Spawn(p) PROVE ServersInv'
  <2>1. cmd[p].kind = "serve" /\ Is(p, "none")
    BY <1>10 DEF Spawn, PlaceFitsKind, Starting, ServersInv, ServerFits, HasChild, HasSaid
  <2>2. CASE Finish(p) /\ UNCHANGED serverVars
    BY <1>1, <2>1, <2>2 DEF Ends, Idle
  <2>3. ASSUME NEW i \in Ports, Popen(p, i), Goto(p, "handshake") PROVE ServersInv'
    <3> DEFINE new == [NoServer EXCEPT !.at = "gate", !.port = i]
    <3>1. server' = [server EXCEPT ![p] = new] /\ bound' = bound
      BY <2>3 DEF Popen
    <3>2. {"at", "port", "said", "cur", "line", "orphaned"} \subseteq DOMAIN new
          /\ new.at = "gate" /\ new.port = i /\ new.said = "none"
      BY DEF NoServer
    <3> HIDE DEF new
    <3>3. ServerFields' /\ server'[p] = new /\ \A q \in Procs \ {p} : server'[q] = server[q]
      BY <3>1, <3>2 DEF ServersInv, ServerFields
    <3>4. cmd'[p].pc = "handshake" /\ cmd'[p].kind = "serve"
          /\ \A q \in Procs \ {p} : cmd'[q] = cmd[q]
      BY <2>1, <2>3 DEF Goto
    <3>5. \A q \in Procs \ {p} : Undisturbed(q)
      BY <3>1, <3>3, <3>4 DEF Undisturbed
    <3>6. ServerFits(p)'
      BY <3>2, <3>3, <3>4 DEF ServerFits, HasChild, HasSaid
    <3> QED BY <3>3, <3>5, <3>6, UndisturbedFits DEF ServersInv
  <2> QED BY <1>10, <2>2, <2>3 DEF Spawn
  \* From one place with a child to the next.
<1>11. ASSUME NEW p \in Procs, cmd[p].kind = "serve", NEW pc, Goto(p, pc), UNCHANGED serverVars,
              \/ pc = "verdict" /\ ~Is(p, "none")
              \/ pc \in HasSaid /\ server[p].at \in {"up", "gone"}
       PROVE  ServersInv'
  BY <1>11, CommandsUndisturbed DEF Goto
<1>12. ASSUME NEW p \in Procs, Join(p) \/ Verdict(p) PROVE ServersInv'
  <2>1. cmd[p].kind = "serve" /\ ~Is(p, "none")
    BY <1>12 DEF Join, Verdict, PlaceFitsKind, Starting, ServersInv, ServerFits, HasChild
  <2>2. CASE Join(p)
    BY <1>11, <2>1, <2>2 DEF Join
  <2>3. CASE Verdict(p) /\ server[p].said = "ready"
    BY <1>11, <2>1, <2>3 DEF Verdict, ServersInv, ServerFits, HasSaid
  <2>4. CASE ReapChild(p) /\ Finish(p)
    BY <1>9, <2>1, <2>4 DEF ReapChild
  <2> QED BY <1>12, <2>2, <2>3, <2>4 DEF Verdict
<1>13. ASSUME NEW p \in Procs, Announce(p) \/ SetHandler(p) PROVE ServersInv'
  <2>1. cmd[p].kind = "serve" /\ server[p].at \in {"up", "gone"}
    BY <1>13 DEF Announce, SetHandler, PlaceFitsKind, Starting, ServersInv, ServerFits, HasSaid
  <2> QED BY <1>11, <1>13, <2>1 DEF Announce, SetHandler, HasSaid
<1>14. ASSUME NEW p \in Procs, EnterServing(p) PROVE ServersInv'
  <2>1. cmd[p].kind = "serve" /\ server[p].at \in {"up", "gone"}
    BY <1>14 DEF EnterServing, ServersInv, ServerFits, HasSaid
  <2>2. CASE Goto(p, "work") /\ UNCHANGED serverVars
    BY <1>11, <2>1, <2>2 DEF HasSaid
  <2>3. CASE ReapChild(p) /\ Finish(p)
    BY <1>9, <2>1, <2>3 DEF ReapChild
  <2> QED BY <1>14, <2>2, <2>3 DEF EnterServing
<1>15. ASSUME NEW p \in Procs, ChildEnded(p) PROVE ServersInv'
  <2>1. cmd[p].kind = "serve"
    BY <1>15 DEF ChildEnded, ServersInv, ServerFits
  <2> QED BY <1>9, <1>15, <2>1 DEF ChildEnded, ReapChild
<1>16. ASSUME NEW p \in Procs, ChildSteps(p) \/ ServeRequests(p) PROVE ServersInv'
  BY <1>16, ChildrenKeep
<1>17. ASSUME NEW p \in Procs, Killed(p) \/ Terminated(p) \/ Interrupted(p) PROVE ServersInv'
  BY <1>17, SignalsKeep
<1>18. ASSUME cmd' = cmd, DOMAIN server' = Procs, DOMAIN bound' = Ports,
              \A q \in Procs : {"at", "port", "said", "cur", "line", "orphaned"}
                  \subseteq DOMAIN server'[q],
              \A q \in Procs : Undisturbed(q)
       PROVE  ServersInv'
  BY <1>18, UndisturbedFits DEF ServersInv, ServerFields
<1>19. CASE Upgrade \/ UNCHANGED vars
  BY <1>18, <1>19 DEF Upgrade, vars, serverVars, Undisturbed, ServersInv, ServerFields
<1>20. CASE OtherProcess
  <2>1. CASE UNCHANGED serverVars
    BY <1>18, <1>20, <2>1 DEF OtherProcess, serverVars, Undisturbed, ServersInv, ServerFields
  <2>2. ASSUME NEW i \in Ports, bound[i] = Nobody, bound' = [bound EXCEPT ![i] = "other"],
               server' = server, cmd' = cmd
        PROVE  ServersInv'
    BY <1>18, <2>2, NobodyIsNoProcess DEF Undisturbed, ServersInv, ServerFields
  <2> QED BY <1>20, <2>1, <2>2 DEF OtherProcess
<1>21. CASE Clientele
  <2>1. ASSUME NEW c, NEW p \in Procs, NEW r, Connect(c, p, r) PROVE ServersInv'
    <3>1. cmd' = cmd /\ bound' = bound /\ server' = [server EXCEPT ![p].line = Append(@, c)]
      BY <1>21, <2>1 DEF Clientele, Connect
    <3> QED BY <1>18, <3>1 DEF Undisturbed, ServersInv, ServerFields
  <2>2. ASSUME NEW c, Send(c) PROVE ServersInv'
    BY <1>18, <1>21, <2>2 DEF Clientele, Send, Undisturbed, ServersInv, ServerFields
  <2> QED BY <1>21, <2>1, <2>2 DEF Clientele
<1> QED
  BY <1>3, <1>4, <1>5, <1>6, <1>7, <1>8, <1>10, <1>12, <1>13, <1>14, <1>15, <1>16, <1>17, <1>19,
     <1>20, <1>21 DEF Next, FreeSlots

\* A server lives with its command, and the endpoint that was announced is its
\* own (start_worker_server, _render_serve_mlx).
THEOREM ServersBelongToTheirCommands == Spec => []CommandsOwnTheirServers
<1>1. ServersInv => CommandsOwnTheirServers
  BY DEF ServersInv, ServerFits, CommandsOwnTheirServers, ServersEndWithTheirCommand,
         AnnouncedEndpointIsOurs, Announced, HasSaid
<1> QED BY CommandsBegin, ServersBegin, CommandsKept, ServersKept, <1>1, PTL DEF Spec

----------------------------------------------------------------------------
(***************************************************************************)
(* Connections: what has been answered by where a connection is, and who   *)
(* waits in which line.                                                    *)
(***************************************************************************)
Unanswered == {"none", "queued", "head", "body", "govern", "generate"}
Governed(k) == k.status = << 200 >> /\ 0 < Allowed(k.req) /\ k.given <= Allowed(k.req)
ConnFits(k) ==
    /\ {"at", "to", "req", "sent", "status", "given"} \subseteq DOMAIN k
    /\ k.given \in Nat
    /\ k.at \in Unanswered \cup {"stream", "closed"}
    /\ k.at # "none" => k.req \in Requests
    /\ k.at \in Unanswered => k.status = <<>> /\ k.given = 0
    /\ k.at = "generate" => 0 < Allowed(k.req)
    /\ k.at = "stream" => Governed(k)
    /\ k.at = "closed" => (k.status \in {<<>>, << 400 >>} /\ k.given = 0) \/ Governed(k)

\* Who waits in a line is queued for that server, and waits once.
LineFits(p) ==
    /\ server[p].line \in Seq(Clients)
    /\ \A i \in DOMAIN server[p].line :
          conn[server[p].line[i]].at = "queued" /\ conn[server[p].line[i]].to = p
    /\ \A i, j \in DOMAIN server[p].line : server[p].line[i] = server[p].line[j] => i = j

ConnInv == /\ DOMAIN conn = Clients
           /\ \A c \in Clients : ConnFits(conn[c])
           /\ \A p \in Procs : LineFits(p)

LEMMA ConnectionsBegin == Init => ConnInv
<1> SUFFICES ASSUME Init PROVE ConnInv
  OBVIOUS
<1>1. DOMAIN conn = Clients /\ \A c \in Clients : conn[c] = NoConn
  BY DEF Init, ServerInit
<1>2. ConnFits(NoConn)
  BY DEF ConnFits, NoConn, Unanswered
<1>3. \A p \in Procs : server[p].line = <<>>
  BY DEF Init, ServerInit, NoServer
<1>4. ASSUME NEW p \in Procs PROVE LineFits(p)
  <2>1. server[p].line = <<>>
    BY <1>3
  <2> QED BY <2>1 DEF LineFits
<1> QED BY <1>1, <1>2, <1>4 DEF ConnInv

\* A connection that is not queued changes.
LEMMA ConnectionKept ==
    ASSUME ConnInv, NEW c, c \in Clients => conn[c].at # "queued", NEW k,
           c \in Clients => ConnFits(k),
           conn' = [conn EXCEPT ![c] = k], \A p \in Procs : server'[p].line = server[p].line
    PROVE  ConnInv'
<1>1. DOMAIN conn' = Clients /\ \A d \in Clients : ConnFits(conn'[d])
  BY DEF ConnInv
<1>2. ASSUME NEW p \in Procs PROVE LineFits(p)'
  <2>1. server[p].line \in Seq(Clients) /\ server'[p].line = server[p].line /\ LineFits(p)
    BY DEF ConnInv, LineFits
  <2>2. \A i \in DOMAIN server[p].line :
           server[p].line[i] # c /\ conn'[server[p].line[i]] = conn[server[p].line[i]]
    BY <2>1 DEF ConnInv, LineFits
  <2> QED BY <2>1, <2>2 DEF LineFits
<1> QED BY <1>1, <1>2 DEF ConnInv

LEMMA ConnectionsAlone ==
    ASSUME ConnInv, conn' = conn, \A p \in Procs : server'[p].line \in {server[p].line, <<>>}
    PROVE  ConnInv'
<1>1. ASSUME NEW p \in Procs, server'[p].line = server[p].line PROVE LineFits(p)'
  BY <1>1 DEF ConnInv, LineFits
<1>2. ASSUME NEW p \in Procs, server'[p].line = <<>> PROVE LineFits(p)'
  BY <1>2 DEF LineFits
<1> QED BY <1>1, <1>2 DEF ConnInv

\* The connections of a server that ends are closed.
LEMMA ConnectionsClosed ==
    ASSUME ServersInv, ConnInv, NEW p \in Procs, NEW at, NEW said, Ended(p, at, said)
    PROVE  ConnInv'
<1>1. ASSUME NEW c \in Clients, conn[c].to = p, Open(c)
      PROVE  ConnFits([conn[c] EXCEPT !.at = "closed"])
  <2> DEFINE k == [conn[c] EXCEPT !.at = "closed"]
  <2>1. ConnFits(conn[c]) /\ conn[c].at \notin {"none", "closed"}
    BY <1>1 DEF ConnInv, Open
  <2>2. /\ {"at", "to", "req", "sent", "status", "given"} \subseteq DOMAIN k
        /\ k.at = "closed" /\ k.req = conn[c].req /\ k.status = conn[c].status
        /\ k.given = conn[c].given
    BY <2>1 DEF ConnFits
  <2> HIDE DEF k
  <2>3. ConnFits(k)
    BY <2>1, <2>2 DEF ConnFits, Governed, Unanswered
  <2> QED BY <2>3 DEF k
<1>2. DOMAIN conn' = Clients /\ \A c \in Clients : ConnFits(conn'[c])
  BY <1>1 DEF Ended, ConnInv
<1>3. ASSUME NEW q \in Procs PROVE LineFits(q)'
  <2>1. CASE q = p
    <3>1. server'[p].line = <<>>
      BY DEF Ended, NoServer, ServersInv, ServerFields
    <3> QED BY <2>1, <3>1 DEF LineFits
  <2>2. CASE q # p
    <3>1. server'[q] = server[q] /\ LineFits(q) /\ server[q].line \in Seq(Clients)
      BY <2>2 DEF Ended, ServersInv, ServerFields, ConnInv, LineFits
    <3>2. \A i \in DOMAIN server[q].line : conn'[server[q].line[i]] = conn[server[q].line[i]]
      BY <2>2, <3>1 DEF Ended, LineFits, ConnInv
    <3> QED BY <3>1, <3>2 DEF LineFits
  <2> QED BY <2>1, <2>2
<1> QED BY <1>2, <1>3 DEF ConnInv

LEMMA TailOfLine ==
    ASSUME NEW S, NEW s \in Seq(S), s # <<>>
    PROVE  /\ 1 \in DOMAIN s /\ Head(s) = s[1] /\ s[1] \in S /\ Tail(s) \in Seq(S)
           /\ \A i \in DOMAIN Tail(s) :
                 i \in Int /\ Tail(s)[i] = s[i + 1] /\ i + 1 \in DOMAIN s /\ i + 1 # 1
BY HeadTailProperties

\* Each step of the one thread.
LEMMA RequestsAreAnswered ==
    ASSUME ServersInv, ConnInv, NEW p \in Procs, HandleRequests(p)
    PROVE  ConnInv'
<1> DEFINE c == server[p].cur
<1>1. ASSUME NEW new, server' = [server EXCEPT ![p].cur = new]
      PROVE  \A q \in Procs : server'[q].line = server[q].line
  BY <1>1 DEF ServersInv, ServerFields
<1>2. ASSUME NEW k, conn' = [conn EXCEPT ![c] = k], conn[c].at # "queued",
             c \in Clients => ConnFits(k),
             server' = server \/ server' = [server EXCEPT ![p].cur = Nobody]
      PROVE  ConnInv'
  <2>1. \A q \in Procs : server'[q].line = server[q].line
    BY <1>1, <1>2
  <2> HIDE DEF c
  <2> QED BY <1>2, <2>1, ConnectionKept
  \* The connection goes on, or is closed, with what was answered so far.
<1>3. ASSUME NEW at \in {"body", "govern", "generate"}, To(c, at),
             conn[c].at \in {"head", "body", "govern"},
             at = "generate" => 0 < Allowed(conn[c].req)
      PROVE  ConnInv'
  <2> DEFINE k == [conn[c] EXCEPT !.at = at]
  <2>1. conn' = [conn EXCEPT ![c] = k] /\ server' = server
    BY <1>3 DEF To
  <2>2. ASSUME c \in Clients PROVE ConnFits(k)
    <3>1. ConnFits(conn[c])
      BY <2>2 DEF ConnInv
    <3>2. /\ {"at", "to", "req", "sent", "status", "given"} \subseteq DOMAIN k
          /\ k.at = at /\ k.req = conn[c].req /\ k.status = conn[c].status
              /\ k.given = conn[c].given
      BY <3>1 DEF ConnFits
    <3> HIDE DEF k, c
    <3> QED BY <1>3, <3>1, <3>2 DEF ConnFits, Unanswered
  <2> QED BY <1>2, <1>3, <2>1, <2>2
<1>4. ASSUME NEW statuses \in {<<>>, << 400 >>}, Close(p, statuses),
             \/ conn[c].at \in {"head", "body", "govern", "generate"}
             \/ conn[c].at = "stream" /\ statuses = <<>>
      PROVE  ConnInv'
  <2> DEFINE k == [conn[c] EXCEPT !.at = "closed", !.status = @ \o statuses]
  <2>1. conn' = [conn EXCEPT ![c] = k] /\ server' = [server EXCEPT ![p].cur = Nobody]
    BY <1>4 DEF Close
  <2>2. ASSUME c \in Clients PROVE ConnFits(k)
    <3>1. ConnFits(conn[c])
      BY <2>2 DEF ConnInv
    <3>2. /\ {"at", "to", "req", "sent", "status", "given"} \subseteq DOMAIN k
          /\ k.at = "closed" /\ k.req = conn[c].req /\ k.status = conn[c].status \o statuses
          /\ k.given = conn[c].given
      BY <3>1 DEF ConnFits
    <3> HIDE DEF k, c
    <3>3. CASE conn[c].at = "stream"
      <4>1. k.status = << 200 >> \o <<>>
        BY <1>4, <3>1, <3>2, <3>3 DEF ConnFits, Governed
      <4>2. << 200 >> \o <<>> = << 200 >>
        OBVIOUS
      <4> QED BY <3>1, <3>2, <3>3, <4>1, <4>2 DEF ConnFits, Governed, Unanswered
    <3>4. CASE conn[c].at # "stream"
      <4>1. k.status = <<>> \o statuses /\ k.given = 0
        BY <1>4, <3>1, <3>2, <3>4 DEF ConnFits, Unanswered
      <4>2. <<>> \o <<>> = <<>> /\ <<>> \o << 400 >> = << 400 >>
        OBVIOUS
      <4> QED BY <1>4, <3>1, <3>2, <3>4, <4>1, <4>2 DEF ConnFits, Unanswered
    <3> QED BY <3>3, <3>4
  <2> QED BY <1>2, <1>4, <2>1, <2>2
<1>5. CASE Accept(p)
  <2> DEFINE d == Head(server[p].line)
             k == [conn[d] EXCEPT !.at = "head"]
  <2>1. /\ server[p].line # <<>> /\ server[p].line \in Seq(Clients) /\ LineFits(p)
        /\ conn' = [conn EXCEPT ![d] = k]
        /\ server' = [server EXCEPT ![p].cur = d, ![p].line = Tail(@)]
    BY <1>5 DEF Accept, ConnInv, LineFits
  <2>2. d = server[p].line[1] /\ d \in Clients /\ conn[d].at = "queued" /\ conn[d].to = p
    BY <2>1 DEF LineFits
  <2>3. ConnFits(conn[d])
    BY <2>2 DEF ConnInv
  <2>4. ConnFits(k)
    <3>1. /\ {"at", "to", "req", "sent", "status", "given"} \subseteq DOMAIN k
          /\ k.at = "head" /\ k.req = conn[d].req /\ k.status = conn[d].status
          /\ k.given = conn[d].given
      BY <2>3 DEF ConnFits
    <3> HIDE DEF k, d
    <3> QED BY <2>2, <2>3, <3>1 DEF ConnFits, Unanswered
  <2> HIDE DEF d, k
  <2>5. DOMAIN conn' = Clients /\ \A e \in Clients : ConnFits(conn'[e])
    BY <2>1, <2>4 DEF ConnInv
  <2>6. server'[p].line = Tail(server[p].line) /\ \A q \in Procs \ {p} : server'[q] = server[q]
    BY <2>1 DEF ServersInv, ServerFields
  <2>7. LineFits(p)'
    <3> DEFINE line == server[p].line
               tail == server'[p].line
    <3>1. /\ 1 \in DOMAIN line /\ d = line[1] /\ tail \in Seq(Clients)
          /\ \A i \in DOMAIN tail :
                i \in Int /\ tail[i] = line[i + 1] /\ i + 1 \in DOMAIN line /\ i + 1 # 1
      <4>1. line \in Seq(Clients) /\ line # <<>> /\ tail = Tail(line)
        BY <2>1, <2>6
      <4> HIDE DEF line
      <4> QED BY <2>2, <4>1, TailOfLine DEF line
    <3>2. /\ \A i \in DOMAIN line : conn[line[i]].at = "queued" /\ conn[line[i]].to = p
          /\ \A i, j \in DOMAIN line : line[i] = line[j] => i = j
      BY <2>1 DEF LineFits
    <3> HIDE DEF line
    <3>3. \A i \in DOMAIN tail : tail[i] # d /\ conn'[tail[i]] = conn[tail[i]]
      <4>1. \A i \in DOMAIN tail : tail[i] # d
        BY <3>1, <3>2
      <4>2. \A i \in DOMAIN tail : tail[i] \in Clients
        BY <3>1, ElementOfSeq, LenProperties
      <4> QED BY <2>1, <4>1, <4>2 DEF ConnInv
    <3>4. \A i, j \in DOMAIN tail : tail[i] = tail[j] => i = j
      BY <3>1, <3>2
    <3>5. \A i \in DOMAIN tail : conn'[tail[i]].at = "queued" /\ conn'[tail[i]].to = p
      BY <3>1, <3>2, <3>3
    <3> QED BY <3>1, <3>4, <3>5 DEF LineFits
  <2>8. ASSUME NEW q \in Procs, q # p PROVE LineFits(q)'
    <3>1. server'[q] = server[q] /\ LineFits(q) /\ server[q].line \in Seq(Clients)
      BY <2>6, <2>8 DEF ConnInv, LineFits
    <3>2. \A i \in DOMAIN server[q].line : conn'[server[q].line[i]] = conn[server[q].line[i]]
      BY <2>1, <2>2, <2>8, <3>1 DEF LineFits, ConnInv
    <3> QED BY <3>1, <3>2 DEF LineFits
  <2> QED BY <2>5, <2>7, <2>8 DEF ConnInv
<1>6. CASE ReadHead(p) \/ ReadBody(p) \/ Stalled(p)
  <2> DEFINE refused == << 400 >>
  <2>0. refused \in {<<>>, << 400 >>}
    OBVIOUS
  <2> HIDE DEF refused
  <2>1. CASE ReadHead(p)
    <3>1. conn[c].at = "head"
          /\ (Close(p, refused) \/ \E next : next = "body" /\ To(c, next))
      BY <2>1 DEF ReadHead, Serves, refused
    <3>2. CASE Close(p, refused)
      BY <1>4, <2>0, <3>1, <3>2
    <3>3. ASSUME NEW next \in {"body", "govern"}, To(c, next) PROVE ConnInv'
      BY <1>3, <3>1, <3>3
    <3> QED BY <3>1, <3>2, <3>3
  <2>2. CASE ReadBody(p)
    <3>1. conn[c].at = "body"
          /\ (Close(p, refused) \/ \E next : next = "govern" /\ To(c, next))
      BY <2>2 DEF ReadBody, Serves, refused
    <3>2. CASE Close(p, refused)
      BY <1>4, <2>0, <3>1, <3>2
    <3>3. ASSUME NEW next \in {"body", "govern"}, To(c, next) PROVE ConnInv'
      BY <1>3, <3>1, <3>3
    <3> QED BY <3>1, <3>2, <3>3
  <2>3. CASE Stalled(p)
    BY <1>4, <2>3 DEF Stalled, Serves
  <2> QED BY <1>6, <2>1, <2>2, <2>3
<1>7. CASE Govern(p)
  <2>1. conn[c].at = "govern"
    BY <1>7 DEF Govern, Serves
  <2>2. ASSUME 0 < Allowed(conn[c].req), server' = server,
               conn' = [conn EXCEPT ![c].at = "stream", ![c].status = << 200 >>]
        PROVE  ConnInv'
    <3> DEFINE k == [conn[c] EXCEPT !.at = "stream", !.status = << 200 >>]
    <3>1. conn' = [conn EXCEPT ![c] = k]
      BY <2>2
    <3>2. ASSUME c \in Clients PROVE ConnFits(k)
      <4>1. ConnFits(conn[c])
        BY <3>2 DEF ConnInv
      <4>2. /\ {"at", "to", "req", "sent", "status", "given"} \subseteq DOMAIN k
            /\ k.at = "stream" /\ k.req = conn[c].req /\ k.status = << 200 >>
            /\ k.given = conn[c].given
        BY <4>1 DEF ConnFits
      <4>3. conn[c].given = 0 /\ conn[c].req \in Requests
        BY <2>1, <4>1 DEF ConnFits, Unanswered
      <4>4. Allowed(conn[c].req) \in Int
        BY <4>3, RequestsAsk DEF Allowed
      <4> HIDE DEF k, c
      <4> QED BY <2>2, <4>2, <4>3, <4>4 DEF ConnFits, Governed, Unanswered
    <3> QED BY <1>2, <2>1, <2>2, <3>1, <3>2
  <2> QED BY <1>3, <1>4, <1>7, <2>1, <2>2 DEF Govern
<1>8. CASE Generate(p)
  <2>1. conn[c].at = "generate"
    BY <1>8 DEF Generate, Serves
  <2>2. ASSUME NEW n \in 1..Allowed(conn[c].req), server' = [server EXCEPT ![p].cur = Nobody],
               conn' = [conn EXCEPT ![c].at = "closed", ![c].status = << 200 >>, ![c].given = n]
        PROVE  ConnInv'
    <3> DEFINE k == [conn[c] EXCEPT !.at = "closed", !.status = << 200 >>, !.given = n]
    <3>1. conn' = [conn EXCEPT ![c] = k]
      BY <2>2
    <3>2. ASSUME c \in Clients PROVE ConnFits(k)
      <4>1. ConnFits(conn[c])
        BY <3>2 DEF ConnInv
      <4>2. /\ {"at", "to", "req", "sent", "status", "given"} \subseteq DOMAIN k
            /\ k.at = "closed" /\ k.req = conn[c].req /\ k.status = << 200 >> /\ k.given = n
        BY <4>1 DEF ConnFits
      <4>3. conn[c].req \in Requests /\ 0 < Allowed(conn[c].req)
        BY <2>1, <4>1 DEF ConnFits
      <4>4. Allowed(conn[c].req) \in Int
        BY <4>3, RequestsAsk DEF Allowed
      <4> HIDE DEF k, c
      <4> QED BY <2>2, <4>2, <4>3, <4>4 DEF ConnFits, Governed, Unanswered
    <3> QED BY <1>2, <2>1, <2>2, <3>1, <3>2
  <2> QED BY <1>4, <1>8, <2>1, <2>2 DEF Generate
<1>9. CASE Stream(p)
  <2>1. conn[c].at = "stream"
    BY <1>9 DEF Stream, Serves
  <2>2. ASSUME conn[c].given < Allowed(conn[c].req), server' = server,
               conn' = [conn EXCEPT ![c].given = @ + 1]
        PROVE  ConnInv'
    <3> DEFINE k == [conn[c] EXCEPT !.given = @ + 1]
    <3>1. conn' = [conn EXCEPT ![c] = k]
      BY <2>2
    <3>2. ASSUME c \in Clients PROVE ConnFits(k)
      <4>1. ConnFits(conn[c])
        BY <3>2 DEF ConnInv
      <4>2. /\ {"at", "to", "req", "sent", "status", "given"} \subseteq DOMAIN k
            /\ k.at = "stream" /\ k.req = conn[c].req /\ k.status = conn[c].status
            /\ k.given = conn[c].given + 1
        BY <2>1, <4>1 DEF ConnFits
      <4>3. conn[c].req \in Requests /\ conn[c].given \in Nat /\ Governed(conn[c])
        BY <2>1, <4>1 DEF ConnFits
      <4>4. Allowed(conn[c].req) \in Int
        BY <4>3, RequestsAsk DEF Allowed
      <4> HIDE DEF k, c
      <4> QED BY <2>2, <4>2, <4>3, <4>4 DEF ConnFits, Governed, Unanswered
    <3> QED BY <1>2, <2>1, <2>2, <3>1, <3>2
  <2> QED BY <1>4, <1>9, <2>1, <2>2 DEF Stream
<1> QED BY <1>5, <1>6, <1>7, <1>8, <1>9 DEF HandleRequests

LEMMA ConnectsKeep ==
    ASSUME ServersInv, ConnInv, NEW c \in Clients, NEW p \in Procs, NEW r \in Requests,
        Connect(c, p, r)
    PROVE  ConnInv'
<1> DEFINE k == [NoConn EXCEPT !.at = "queued", !.to = p, !.req = r]
           line == server[p].line
<1>1. /\ conn[c] = NoConn /\ conn' = [conn EXCEPT ![c] = k]
      /\ server' = [server EXCEPT ![p].line = Append(@, c)]
      /\ line \in Seq(Clients) /\ LineFits(p)
  BY DEF Connect, ConnInv, LineFits
<1>2. ConnFits(k) /\ k.at = "queued" /\ k.to = p
  BY DEF NoConn, ConnFits, Unanswered
<1>3. conn[c].at # "queued"
  BY <1>1 DEF NoConn
<1> HIDE DEF k
<1>4. DOMAIN conn' = Clients /\ \A d \in Clients : ConnFits(conn'[d])
  BY <1>1, <1>2 DEF ConnInv
<1>5. server'[p].line = Append(line, c) /\ \A q \in Procs \ {p} : server'[q] = server[q]
  BY <1>1 DEF ServersInv, ServerFields
<1>6. /\ \A i \in DOMAIN line : conn[line[i]].at = "queued" /\ conn[line[i]].to = p
      /\ \A i, j \in DOMAIN line : line[i] = line[j] => i = j
  BY <1>1 DEF LineFits
<1> HIDE DEF line
<1>7. LineFits(p)'
  <2> DEFINE longer == Append(line, c)
  <2>1. /\ longer \in Seq(Clients) /\ DOMAIN longer = 1..(Len(line) + 1)
        /\ longer[Len(line) + 1] = c
        /\ Len(line) \in Nat /\ DOMAIN line = 1..Len(line)
        /\ \A i \in DOMAIN line : longer[i] = line[i]
    BY <1>1, AppendProperties, LenProperties
  <2> HIDE DEF longer
  <2>2. \A i \in DOMAIN longer : i = Len(line) + 1 \/ i \in DOMAIN line
    BY <2>1
  <2>3. \A i \in DOMAIN line : line[i] # c /\ conn'[line[i]] = conn[line[i]]
    <3>1. \A i \in DOMAIN line : line[i] # c
      BY <1>3, <1>6
    <3>2. \A i \in DOMAIN line : line[i] \in Clients
      BY <1>1, <2>1, ElementOfSeq
    <3> QED BY <1>1, <3>1, <3>2 DEF ConnInv
  <2>4. \A i \in DOMAIN longer : conn'[longer[i]].at = "queued" /\ conn'[longer[i]].to = p
    BY <1>1, <1>2, <1>6, <2>1, <2>2, <2>3 DEF ConnInv
  <2>5. \A i, j \in DOMAIN longer : longer[i] = longer[j] => i = j
    BY <1>6, <2>1, <2>2, <2>3
  <2>6. server'[p].line = longer
    BY <1>5 DEF longer
  <2> QED BY <2>1, <2>4, <2>5, <2>6 DEF LineFits
<1>8. ASSUME NEW q \in Procs, q # p PROVE LineFits(q)'
  <2>1. server'[q] = server[q] /\ LineFits(q)
    BY <1>5, <1>8 DEF ConnInv
  <2>2. \A i \in DOMAIN server[q].line : conn'[server[q].line[i]] = conn[server[q].line[i]]
    BY <1>1, <1>3, <2>1 DEF LineFits, ConnInv
  <2> QED BY <2>1, <2>2 DEF LineFits
<1> QED BY <1>4, <1>7, <1>8 DEF ConnInv

LEMMA ConnectionsKept ==
    ASSUME CommandsInv, ServersInv, ConnInv, [Next]_vars
    PROVE  ConnInv'
<1> USE DEF ServersInv, ServerFields
<1>1. CASE UNCHANGED <<server, conn>>
  BY <1>1, ConnectionsAlone
<1>2. ASSUME NEW p \in Procs, ReapChild(p) PROVE ConnInv'
  BY <1>2, ConnectionsClosed DEF ReapChild
<1>3. ASSUME NEW p \in Procs, NEW waited, NEW said, Exits(p, waited, said) PROVE ConnInv'
  BY <1>3, ConnectionsClosed DEF Exits
  \* Only p's child changes, and its line stays or is empty.
<1>4. ASSUME NEW p \in Procs, conn' = conn, NEW new, server' = [server EXCEPT ![p] = new],
             new.line \in {server[p].line, <<>>}
      PROVE  ConnInv'
  BY <1>4, ConnectionsAlone
<1>5. ASSUME NEW p \in Procs, ChildSteps(p) PROVE ConnInv'
  <2>1. ASSUME GateAndLoad(p, "packages" \in env.parts, Waited(p)) \/ Bind(p, Waited(p))
        PROVE ConnInv'
    <3>1. CASE \E said : Exits(p, Waited(p), said)
      BY <1>3, <3>1
    <3>2. ASSUME NEW at, conn' = conn, server' = [server EXCEPT ![p].at = at] PROVE ConnInv'
      BY <1>4, <3>2
    <3> QED BY <2>1, <3>1, <3>2 DEF GateAndLoad, Bind
  <2> QED BY <1>3, <1>5, <2>1 DEF ChildSteps
<1>6. ASSUME NEW p \in Procs, ServeRequests(p) PROVE ConnInv'
  <2>1. ASSUME conn' = conn, server' = [server EXCEPT ![p].at = "up", ![p].said = "ready"]
        PROVE ConnInv'
    BY <2>1, ConnectionsAlone
  <2>2. CASE HandleRequests(p)
    BY <2>2, RequestsAreAnswered
  <2>3. CASE SayReady(p, Waited(p))
    BY <1>3, <2>1, <2>3 DEF SayReady
  <2> QED BY <1>6, <2>2, <2>3 DEF ServeRequests
<1>7. ASSUME NEW p \in Procs, Killed(p) \/ Terminated(p) \/ Interrupted(p) PROVE ConnInv'
  <2>1. ASSUME NEW why, Orphan(p, why) PROVE ConnInv'
    <3>1. /\ conn' = conn
          /\ server' = [server EXCEPT ![p].orphaned = IF Started(p) THEN why ELSE @,
                                      ![p].at = IF @ = "gone" THEN "none" ELSE @]
      BY <2>1 DEF Orphan
    <3> QED BY <3>1, ConnectionsAlone
  <2> QED BY <1>2, <1>7, <2>1 DEF Killed, Terminated, Interrupted
<1>8. ASSUME NEW p \in Procs, Spawn(p) PROVE ConnInv'
  <2>1. ASSUME NEW i, Popen(p, i) PROVE ConnInv'
    <3>1. conn' = conn
          /\ server' = [server EXCEPT ![p] = [NoServer EXCEPT !.at = "gate", !.port = i]]
      BY <2>1 DEF Popen
    <3> QED BY <1>4, <3>1 DEF NoServer
  <2>2. ASSUME UNCHANGED serverVars PROVE ConnInv'
    BY <1>1, <2>2 DEF serverVars
  <2> QED BY <1>8, <2>1, <2>2 DEF Spawn
<1>9. ASSUME NEW p \in Procs, Verdict(p) \/ EnterServing(p) \/ ChildEnded(p) PROVE ConnInv'
  BY <1>1, <1>2, <1>9 DEF Verdict, EnterServing, ChildEnded, serverVars
<1>10. CASE Clientele
  <2>1. ASSUME NEW c \in Clients, Send(c) PROVE ConnInv'
    <3> DEFINE k == [conn[c] EXCEPT !.sent = @ + 1]
    <3>1. conn' = [conn EXCEPT ![c] = k] /\ conn[c].at # "queued" /\ server' = server
      BY <2>1 DEF Send
    <3>2. ConnFits(k)
      BY DEF ConnInv, ConnFits, Governed
    <3> HIDE DEF k
    <3> QED BY <3>1, <3>2, ConnectionKept
  <2> QED BY <1>10, <2>1, ConnectsKeep DEF Clientele
<1>11. CASE \/ \E p \in Procs : \/ Decide(p) \/ Create(p) \/ List(p) \/ Read(p) \/ Judge(p)
                               \/ Remove(p) \/ Check(p) \/ EnterWork(p) \/ EndWork(p) \/ Join(p)
                               \/ Announce(p) \/ SetHandler(p)
            \/ \E p \in FreeSlots, kind \in left.kinds, i \in FreePids : Begin(p, kind, i)
            \/ Upgrade \/ OtherProcess \/ UNCHANGED vars
  <2>1. UNCHANGED <<server, conn>>
    BY <1>11 DEF Decide, Create, CreateVenv, InstallPackages, FindImport, WriteVersion, WriteSchema,
                 Build, Fail, List, Read, Judge, Remove, Check, EnterWork, EndWork, Join, Announce,
                 SetHandler, Begin, Upgrade, OtherProcess, vars, serverVars
  <2> QED BY <1>1, <2>1
<1> QED BY <1>5, <1>6, <1>7, <1>8, <1>9, <1>10, <1>11 DEF Next

\* Every connection is answered at most once, and with a 200 only after its
\* request was governed (_handle_completions, _stream_completions).
THEOREM AnswersAreCommitted == Spec => []AnswersAreCommittedOnce
<1>1. ConnInv => AnswersAreCommittedOnce
  <2> SUFFICES ASSUME ConnInv, NEW c \in Clients
               PROVE  /\ Len(conn[c].status) <= 1
                      /\ 200 \in {conn[c].status[i] : i \in DOMAIN conn[c].status} =>
                            conn[c].req.prompt + conn[c].given <= Ceiling /\ conn[c].req.ask > 0
                      /\ conn[c].given > 0 => conn[c].status = << 200 >>
    BY DEF AnswersAreCommittedOnce
  <2>1. ConnFits(conn[c])
    BY DEF ConnInv
  <2>2. CASE conn[c].status \in {<<>>, << 400 >>} /\ conn[c].given = 0
    <3>1. CASE conn[c].status = <<>>
      BY <2>2, <3>1
    <3>2. CASE conn[c].status = << 400 >>
      BY <2>2, <3>2
    <3> QED BY <2>2, <3>1, <3>2
  <2>3. CASE Governed(conn[c]) /\ conn[c].req \in Requests
    <3>1. /\ conn[c].status = << 200 >> /\ conn[c].given \in Nat
          /\ conn[c].req.prompt + conn[c].given <= Ceiling /\ conn[c].req.ask > 0
      BY <2>1, <2>3, RequestsAsk DEF ConnFits, Governed, Allowed
    <3> QED BY <3>1
  <2> QED BY <2>1, <2>2, <2>3 DEF ConnFits, Unanswered
<1> QED
  BY CommandsBegin, ServersBegin, ConnectionsBegin, CommandsKept, ServersKept, ConnectionsKept,
     <1>1, PTL DEF Spec

----------------------------------------------------------------------------
(***************************************************************************)
(* The registry: whose birth a record or a listed name bears, and what a   *)
(* look has found so far.                                                  *)
(***************************************************************************)
WorkKind(q) == IF cmd[q].kind = "serve" THEN "serving" ELSE Working(cmd[q].kind)
OwnRecord(q) == Record(cmd[q].pid, WorkKind(q))
Known(r) == r \in records \/ \E p \in Procs : r \in cmd[p].look.names
Alive(r) == table[r.pid] = r.birth

BirthsInv ==
    /\ born \in Nat /\ DOMAIN table = Pids
    /\ \A i \in Pids : table[i] \in Nat /\ table[i] <= born
    /\ \A i, j \in Pids : table[i] = table[j] /\ table[i] # 0 => i = j
PidsInv ==
    /\ \A p \in Procs : ~At(p, "idle") => cmd[p].pid \in Pids /\ table[cmd[p].pid] # 0
    /\ \A p, q \in Procs : ~At(p, "idle") /\ ~At(q, "idle") /\ cmd[p].pid = cmd[q].pid => p = q
\* A record that bears the birth of a command's process is the command's own.
KnownFits(r) ==
    /\ r.pid \in Pids /\ r.birth \in Nat /\ 0 < r.birth /\ r.birth <= born
    /\ \A i \in Pids : table[i] = r.birth => i = r.pid
    /\ \A q \in Procs : ~At(q, "idle") /\ table[cmd[q].pid] = r.birth =>
          At(q, "work") /\ r = OwnRecord(q)
WorkFits(q) == At(q, "work") => OwnRecord(q) \in records
LookFits(k) ==
    /\ {"names", "left", "found", "then"} \subseteq DOMAIN k
    /\ k.left \subseteq k.names /\ k.found \subseteq k.names
    /\ \A r \in k.names : /\ r \in records /\ Alive(r) => r \in k.left \/ r \in k.found
                          /\ Alive(r) => r.birth \in k.then
    /\ \A r \in k.found : r.birth \in k.then

RegistryInv ==
    /\ BirthsInv /\ PidsInv /\ UninstallMindsRecordedWork
    /\ \A r : Known(r) => KnownFits(r)
    /\ \A q \in Procs : WorkFits(q) /\ LookFits(cmd[q].look)

LEMMA RegistryBegins == Init => RegistryInv
<1> SUFFICES ASSUME Init PROVE RegistryInv
  OBVIOUS
<1>1. /\ \A p \in Procs : cmd[p] = Idle
      /\ born = 0 /\ records = {} /\ DOMAIN table = Pids /\ \A i \in Pids : table[i] = 0
  BY DEF Init, ActivityInit
<1>2. BirthsInv /\ PidsInv /\ UninstallMindsRecordedWork
  BY <1>1 DEF BirthsInv, PidsInv, UninstallMindsRecordedWork, Idle
<1>3. \A r : ~Known(r)
  BY <1>1 DEF Known, Idle, NoLook
<1>4. LookFits(NoLook)
  BY DEF LookFits, NoLook
<1>5. \A q \in Procs : WorkFits(q) /\ LookFits(cmd[q].look)
  BY <1>1, <1>4 DEF WorkFits, Idle
<1> QED BY <1>2, <1>3, <1>5 DEF RegistryInv

\* The registry stays, and no command starts or ends its work.
LEMMA RegistryAlone ==
    ASSUME RegistryInv, UNCHANGED activityVars,
           \A q \in Procs : /\ cmd'[q].kind = cmd[q].kind /\ cmd'[q].pid = cmd[q].pid
                            /\ cmd'[q].look = cmd[q].look
                            /\ At(q, "idle") <=> At(q, "idle")'
                            /\ At(q, "work") <=> At(q, "work")',
           \A q \in Procs : cmd'[q].pc = "remove" /\ cmd[q].kind = "uninstall" => At(q, "remove")
    PROVE  RegistryInv'
<1> USE DEF activityVars
<1>1. BirthsInv' /\ PidsInv'
  BY DEF RegistryInv, BirthsInv, PidsInv
<1>2. \A q \in Procs : OwnRecord(q)' = OwnRecord(q)
  BY DEF OwnRecord, WorkKind, Record
<1>3. ASSUME NEW r, Known(r)' PROVE KnownFits(r)'
  <2>1. Known(r)
    BY <1>3 DEF Known
  <2>2. KnownFits(r)
    BY <2>1 DEF RegistryInv
  <2> QED BY <1>2, <2>2 DEF KnownFits
<1>4. UninstallMindsRecordedWork'
  BY DEF RegistryInv, UninstallMindsRecordedWork
<1>5. \A q \in Procs : WorkFits(q)'
  BY <1>2 DEF RegistryInv, WorkFits
<1>6. \A q \in Procs : LookFits(cmd[q].look)'
  BY DEF RegistryInv, LookFits, Alive
<1> QED BY <1>1, <1>3, <1>4, <1>5, <1>6 DEF RegistryInv

\* A process is born.
LEMMA BirthsKeep ==
    ASSUME RegistryInv, NEW i \in Pids, Fork(i), records' = records
    PROVE  /\ BirthsInv'
           /\ table'[i] = born' /\ born' = born + 1 /\ \A j \in Pids \ {i} : table'[j] = table[j]
           /\ table[i] = 0
           /\ \A k : LookFits(k) /\ (\A r \in k.names : KnownFits(r)) => LookFits(k)'
<1>1. /\ table[i] = 0 /\ born' = born + 1 /\ table'[i] = born + 1 /\ DOMAIN table' = Pids
      /\ \A j \in Pids \ {i} : table'[j] = table[j]
  BY DEF Fork, RegistryInv, BirthsInv
<1>2. BirthsInv'
  BY <1>1 DEF RegistryInv, BirthsInv
<1>3. ASSUME NEW r, KnownFits(r), Alive(r)' PROVE Alive(r)
  BY <1>1, <1>3 DEF KnownFits, Alive, RegistryInv, BirthsInv
<1>4. ASSUME NEW k, LookFits(k), \A r \in k.names : KnownFits(r) PROVE LookFits(k)'
  BY <1>3, <1>4 DEF LookFits
<1> QED BY <1>1, <1>2, <1>4

LEMMA ForksKeep ==
    ASSUME CommandsInv, RegistryInv, NEW i \in Pids, Fork(i), records' = records,
           \/ cmd' = cmd
           \/ \E p \in Procs, kind \in left.kinds : p \in FreeSlots /\ Begin(p, kind, i)
    PROVE  RegistryInv'
<1>1. /\ BirthsInv'
      /\ table'[i] = born' /\ born' = born + 1 /\ \A j \in Pids \ {i} : table'[j] = table[j]
      /\ table[i] = 0
      /\ \A k : LookFits(k) /\ (\A r \in k.names : KnownFits(r)) => LookFits(k)'
  BY BirthsKeep
<1>2. /\ \A q \in Procs :
            \/ cmd'[q] = cmd[q]
            \/ /\ cmd'[q].pc \notin {"idle", "work", "remove"} /\ cmd'[q].pid = i
               /\ cmd'[q].look = NoLook /\ At(q, "idle")
      /\ \A q, s \in Procs : cmd'[q] # cmd[q] /\ cmd'[s] # cmd[s] => q = s
  <2>1. ASSUME NEW p \in Procs, NEW kind \in left.kinds, p \in FreeSlots, Begin(p, kind, i)
        PROVE  /\ \A q \in Procs \ {p} : cmd'[q] = cmd[q]
               /\ cmd'[p].pc \notin {"idle", "work", "remove"} /\ cmd'[p].pid = i
               /\ cmd'[p].look = NoLook /\ At(p, "idle")
    <3> DEFINE new == [Idle EXCEPT !.pc = FirstStep(kind), !.kind = kind, !.pid = i,
                                   !.ver = release]
    <3>1. cmd' = [cmd EXCEPT ![p] = new]
      BY <2>1 DEF Begin
    <3>2. new.pc = FirstStep(kind) /\ new.pid = i /\ new.look = NoLook
      BY DEF Idle
    <3>3. FirstStep(kind) \notin {"idle", "work", "remove"}
      BY DEF FirstStep
    <3> HIDE DEF new
    <3>4. cmd'[p] = new /\ \A q \in Procs \ {p} : cmd'[q] = cmd[q]
      BY <3>1 DEF CommandsInv, Commanded
    <3>5. At(p, "idle")
      BY <2>1 DEF FreeSlots
    <3> QED BY <3>2, <3>3, <3>4, <3>5
  <2>2. CASE cmd' = cmd
    BY <2>2
  <2>3. CASE \E p \in Procs, kind \in left.kinds : p \in FreeSlots /\ Begin(p, kind, i)
    BY <2>1, <2>3
  <2> QED BY <2>2, <2>3
<1>3. \A q \in Procs : ~At(q, "idle") => cmd[q].pid \in Pids \ {i} /\ table[cmd[q].pid] # 0
  BY <1>1 DEF RegistryInv, PidsInv
<1>5. PidsInv'
  <2>1. \A q \in Procs : ~At(q, "idle")' => cmd'[q].pid \in Pids /\ table'[cmd'[q].pid] # 0
    BY <1>1, <1>3, <1>2 DEF RegistryInv, BirthsInv
  <2>2. \A q, s \in Procs : ~At(q, "idle")' /\ ~At(s, "idle")' /\ cmd'[q].pid = cmd'[s].pid => q = s
    BY <1>3, <1>2 DEF RegistryInv, PidsInv
  <2> QED BY <2>1, <2>2 DEF PidsInv
<1>6. \A q \in Procs : ~At(q, "idle") /\ cmd'[q] = cmd[q] =>
         OwnRecord(q)' = OwnRecord(q) /\ table'[cmd[q].pid] = table[cmd[q].pid]
  BY <1>1, <1>3 DEF OwnRecord, WorkKind, Record
<1>7. ASSUME NEW r, Known(r)' PROVE KnownFits(r)'
  <2>1. Known(r)
    BY <1>2, <1>7 DEF Known, NoLook
  <2>2. KnownFits(r) /\ r.birth # born'
    BY <1>1, <2>1 DEF RegistryInv, KnownFits, BirthsInv
  <2>3. \A j \in Pids : table'[j] = r.birth => j = r.pid
    BY <1>1, <2>2 DEF KnownFits
  <2>4. ASSUME NEW q \in Procs, ~At(q, "idle")', table'[cmd'[q].pid] = r.birth
        PROVE  At(q, "work")' /\ r = OwnRecord(q)'
    <3>1. cmd'[q] = cmd[q]
      BY <1>1, <1>2, <2>2, <2>4
    <3> QED BY <1>6, <2>2, <2>4, <3>1 DEF KnownFits
  <2>5. born \in Nat /\ r.birth \in Nat /\ 0 < r.birth /\ r.birth <= born' /\ r.pid \in Pids
    BY <1>1, <2>2 DEF KnownFits, RegistryInv, BirthsInv
  <2> QED BY <2>3, <2>4, <2>5 DEF KnownFits
<1>8. UninstallMindsRecordedWork'
  <2> SUFFICES ASSUME NEW u \in Procs, NEW q \in Procs, cmd'[u].kind = "uninstall",
                      At(u, "remove")', At(q, "work")', cmd'[q].kind # "hub",
                      NEW r \in cmd'[u].look.names
               PROVE  r.birth # table'[cmd'[q].pid]
    BY DEF UninstallMindsRecordedWork
  <2>1. cmd'[u] = cmd[u] /\ cmd'[q] = cmd[q]
    BY <1>2
  <2> QED BY <1>6, <2>1 DEF RegistryInv, UninstallMindsRecordedWork
<1>9. ASSUME NEW q \in Procs PROVE WorkFits(q)' /\ LookFits(cmd[q].look)'
  <2>1. WorkFits(q)'
    BY <1>2, <1>6 DEF WorkFits, RegistryInv
  <2>2. CASE cmd'[q] = cmd[q]
    <3>1. LookFits(cmd[q].look) /\ \A r \in cmd[q].look.names : KnownFits(r)
      BY DEF RegistryInv, Known
    <3>2. cmd'[q].look = cmd[q].look
      BY <2>2
    <3> DEFINE k == cmd[q].look
    <3> HIDE DEF k
    <3>3. \A x : LookFits(x) /\ (\A r \in x.names : KnownFits(r)) => LookFits(x)'
      BY <1>1
    <3> QED BY <2>1, <3>1, <3>2, <3>3 DEF LookFits, Alive
  <2>3. CASE cmd'[q].look = NoLook
    BY <2>1, <2>3 DEF LookFits, NoLook
  <2> QED BY <1>2, <2>2, <2>3
<1> QED BY <1>1, <1>5, <1>7, <1>8, <1>9 DEF RegistryInv

\* A command ends: its process goes, and its record perhaps with it.
LEMMA EndsKeep ==
    ASSUME CommandsInv, RegistryInv, NEW p \in Procs, ~At(p, "idle"), Ends(p),
           records' = records \/ Leave(cmd[p].pid)
    PROVE  RegistryInv'
<1> DEFINE i == cmd[p].pid
<1>1. /\ i \in Pids /\ table[i] # 0 /\ table'[i] = 0 /\ born' = born /\ DOMAIN table' = Pids
      /\ \A j \in Pids \ {i} : table'[j] = table[j]
      /\ cmd'[p] = Idle /\ \A q \in Procs \ {p} : cmd'[q] = cmd[q]
  BY DEF Ends, Reap, RegistryInv, PidsInv, BirthsInv, CommandsInv, Commanded
<1>2. \A r \in records' : r \in records
  BY DEF Leave
<1>3. \A r \in records : r.pid # i => r \in records'
  BY DEF Leave
<1> HIDE DEF i
<1>4. \A q \in Procs \ {p} : ~At(q, "idle") => cmd[q].pid \in Pids \ {i}
  BY DEF RegistryInv, PidsInv, i
<1>5. \A q \in Procs \ {p} : ~At(q, "idle") =>
         OwnRecord(q)' = OwnRecord(q) /\ table'[cmd[q].pid] = table[cmd[q].pid]
             /\ OwnRecord(q).pid # i
  BY <1>1, <1>4 DEF OwnRecord, WorkKind, Record
<1>6. BirthsInv'
  BY <1>1 DEF RegistryInv, BirthsInv
<1>7. PidsInv'
  BY <1>1, <1>4 DEF RegistryInv, PidsInv, Idle
<1>8. ASSUME NEW r, Known(r)' PROVE Known(r) /\ KnownFits(r)'
  <2>1. Known(r)
    BY <1>1, <1>2, <1>8 DEF Known, Idle, NoLook
  <2>2. KnownFits(r)
    BY <2>1 DEF RegistryInv
  <2>3. \A j \in Pids : table'[j] = r.birth => j = r.pid
    BY <1>1, <2>2 DEF KnownFits
  <2>4. ASSUME NEW q \in Procs, ~At(q, "idle")', table'[cmd'[q].pid] = r.birth
        PROVE  At(q, "work")' /\ r = OwnRecord(q)'
    BY <1>1, <1>5, <2>2, <2>4 DEF KnownFits, Idle
  <2> QED BY <1>1, <2>1, <2>2, <2>3, <2>4 DEF KnownFits
<1>9. UninstallMindsRecordedWork'
  <2> SUFFICES ASSUME NEW u \in Procs, NEW q \in Procs, cmd'[u].kind = "uninstall",
                      At(u, "remove")', At(q, "work")', cmd'[q].kind # "hub",
                      NEW r \in cmd'[u].look.names
               PROVE  r.birth # table'[cmd'[q].pid]
    BY DEF UninstallMindsRecordedWork
  <2>1. cmd'[u] = cmd[u] /\ cmd'[q] = cmd[q] /\ q # p
    BY <1>1 DEF Idle
  <2> QED BY <1>5, <2>1 DEF RegistryInv, UninstallMindsRecordedWork
<1>10. ASSUME NEW q \in Procs PROVE WorkFits(q)' /\ LookFits(cmd[q].look)'
  <2>1. CASE q = p
    BY <1>1, <2>1 DEF WorkFits, LookFits, Idle, NoLook
  <2>2. CASE q # p
    <3>1. cmd'[q] = cmd[q]
      BY <1>1, <2>2
    <3>2. WorkFits(q)'
      BY <1>3, <1>5, <2>2, <3>1 DEF WorkFits, RegistryInv
    <3>3. LookFits(cmd[q].look) /\ \A r \in cmd[q].look.names : KnownFits(r)
      BY DEF RegistryInv, Known
    <3>4. ASSUME NEW r, KnownFits(r), Alive(r)' PROVE Alive(r)
      BY <1>1, <3>4 DEF KnownFits, Alive
    <3> QED BY <1>2, <3>1, <3>2, <3>3, <3>4 DEF LookFits
  <2> QED BY <2>1, <2>2
<1> QED BY <1>6, <1>7, <1>8, <1>9, <1>10 DEF RegistryInv

\* A command enters its work.
LEMMA EntersKeep ==
    ASSUME CommandsInv, RegistryInv, NEW p \in Procs, At(p, "enter"), Goto(p, "work"),
           Enter(cmd[p].pid, WorkKind(p)), UNCHANGED <<table, born>>
    PROVE  RegistryInv'
<1>1. /\ records' = records \cup {OwnRecord(p)} /\ cmd'[p].pc = "work"
      /\ \A q \in Procs : /\ cmd'[q].kind = cmd[q].kind /\ cmd'[q].pid = cmd[q].pid
                           /\ cmd'[q].look = cmd[q].look
      /\ \A q \in Procs \ {p} : cmd'[q] = cmd[q]
  BY DEF Enter, OwnRecord, Goto, CommandsInv, Commanded
<1>2. \A q \in Procs : OwnRecord(q)' = OwnRecord(q)
  BY <1>1 DEF OwnRecord, WorkKind, Record
<1>3. \A r : Known(r) => r.birth # table[cmd[p].pid]
  BY DEF RegistryInv, KnownFits
<1>4. OwnRecord(p).pid = cmd[p].pid /\ OwnRecord(p).birth = table[cmd[p].pid]
      /\ cmd[p].pid \in Pids /\ table[cmd[p].pid] # 0
  BY DEF OwnRecord, Record, RegistryInv, PidsInv
<1>5. BirthsInv' /\ PidsInv'
  BY <1>1 DEF RegistryInv, BirthsInv, PidsInv
<1>6. ASSUME NEW r, Known(r)' PROVE KnownFits(r)'
  <2>1. Known(r) \/ r = OwnRecord(p)
    BY <1>1, <1>6 DEF Known
  <2>2. CASE Known(r)
    <3>1. KnownFits(r)
      BY <2>2 DEF RegistryInv
    <3> QED BY <1>1, <1>2, <1>3, <2>2, <3>1 DEF KnownFits
  <2>3. CASE r = OwnRecord(p)
    <3>1. r.pid \in Pids /\ r.birth \in Nat /\ 0 < r.birth /\ r.birth <= born
      BY <1>4, <2>3 DEF RegistryInv, BirthsInv
    <3>2. \A j \in Pids : table[j] = r.birth => j = r.pid
      BY <1>4, <2>3 DEF RegistryInv, BirthsInv
    <3>3. ASSUME NEW q \in Procs, ~At(q, "idle")', table[cmd[q].pid] = r.birth
          PROVE  q = p
      <4>1. ~At(q, "idle")
        BY <1>1, <3>3
      <4>2. cmd[q].pid = cmd[p].pid
        BY <1>4, <2>3, <3>2, <3>3, <4>1 DEF RegistryInv, PidsInv
      <4> QED BY <4>1, <4>2 DEF RegistryInv, PidsInv
    <3> QED BY <1>1, <1>2, <2>3, <3>1, <3>2, <3>3 DEF KnownFits
  <2> QED BY <2>1, <2>2, <2>3
<1>7. UninstallMindsRecordedWork'
  <2> SUFFICES ASSUME NEW u \in Procs, NEW q \in Procs, cmd'[u].kind = "uninstall",
                      At(u, "remove")', At(q, "work")', cmd'[q].kind # "hub",
                      NEW r \in cmd'[u].look.names
               PROVE  r.birth # table'[cmd'[q].pid]
    BY DEF UninstallMindsRecordedWork
  <2>1. CASE q = p
    BY <1>1, <1>3, <2>1 DEF Known
  <2>2. CASE q # p
    BY <1>1, <2>2 DEF RegistryInv, UninstallMindsRecordedWork
  <2> QED BY <2>1, <2>2
<1>8. ASSUME NEW q \in Procs PROVE WorkFits(q)' /\ LookFits(cmd[q].look)'
  <2>1. WorkFits(q)'
    BY <1>1, <1>2 DEF WorkFits, RegistryInv
  <2>2. \A r \in cmd[q].look.names : r # OwnRecord(p)
    BY <1>3, <1>4 DEF Known
  <2>3. LookFits(cmd[q].look)
    BY DEF RegistryInv
  <2> QED BY <1>1, <2>1, <2>2, <2>3 DEF LookFits, Alive
<1> QED BY <1>5, <1>6, <1>7, <1>8 DEF RegistryInv

\* A command looks at the registry, reads one more file, or judges.
LEMMA LooksKeep ==
    ASSUME CommandsInv, RegistryInv, NEW p \in Procs, List(p) \/ Read(p), UNCHANGED activityVars
    PROVE  RegistryInv'
<1>1. /\ cmd'[p].pc = "read" /\ ~At(p, "idle") /\ ~At(p, "work")
      /\ cmd'[p].kind = cmd[p].kind /\ cmd'[p].pid = cmd[p].pid
      /\ \A q \in Procs \ {p} : cmd'[q] = cmd[q]
      /\ table' = table /\ born' = born /\ records' = records
  BY DEF List, Read, CommandsInv, Commanded, activityVars
<1>2. LookFits(cmd'[p].look) /\ \A r \in cmd'[p].look.names : Known(r)
  <2>1. CASE List(p)
    <3>1. cmd'[p].look = ListNames
      BY <2>1 DEF List, CommandsInv, Commanded
    <3>2. \A r \in records : r.pid \in Pids
      BY DEF RegistryInv, Known, KnownFits
    <3> QED BY <3>1, <3>2 DEF ListNames, LookFits, Known, Alive
  <2>2. CASE Read(p)
    <3> DEFINE k == cmd[p].look
    <3>1. PICK r \in k.left : cmd'[p].look = ReadRecord(k, r)
      BY <2>2 DEF Read, CommandsInv, Commanded
    <3>2. LookFits(k) /\ \A s \in k.names : Known(s)
      BY DEF RegistryInv, Known
    <3> HIDE DEF k
    <3> DEFINE new == ReadRecord(k, r)
    <3>3. /\ {"names", "left", "found", "then"} \subseteq DOMAIN new
          /\ new.names = k.names /\ new.then = k.then /\ new.left = k.left \ {r}
          /\ new.found = IF r \in records /\ Alive(r) THEN k.found \cup {r} ELSE k.found
      BY <3>2 DEF ReadRecord, Runs, Alive, LookFits
    <3> HIDE DEF new
    <3>4. LookFits(new)
      BY <3>1, <3>2, <3>3 DEF LookFits
    <3> QED BY <3>1, <3>2, <3>3, <3>4 DEF new
  <2> QED BY <2>1, <2>2
<1>3. BirthsInv' /\ PidsInv'
  BY <1>1 DEF RegistryInv, BirthsInv, PidsInv
<1>4. \A q \in Procs : OwnRecord(q)' = OwnRecord(q)
  BY <1>1 DEF OwnRecord, WorkKind, Record
<1>5. ASSUME NEW r, Known(r)' PROVE KnownFits(r)'
  <2>1. KnownFits(r)
    BY <1>1, <1>2, <1>5 DEF Known, RegistryInv
  <2> QED BY <1>1, <1>4, <2>1 DEF KnownFits
<1>6. UninstallMindsRecordedWork'
  BY <1>1 DEF RegistryInv, UninstallMindsRecordedWork
<1>7. ASSUME NEW q \in Procs PROVE WorkFits(q)' /\ LookFits(cmd[q].look)'
  <2>1. WorkFits(q)'
    BY <1>1, <1>4 DEF WorkFits, RegistryInv
  <2>2. LookFits(cmd'[q].look)
    BY <1>1, <1>2 DEF RegistryInv
  <2> QED BY <1>1, <2>1, <2>2 DEF LookFits, Alive
<1> QED BY <1>3, <1>5, <1>6, <1>7 DEF RegistryInv

LEMMA JudgesKeep ==
    ASSUME CommandsInv, RegistryInv, NEW p \in Procs, Judge(p)
    PROVE  RegistryInv'
<1>1. CASE Finish(p)
  BY <1>1, EndsKeep DEF Judge
<1>2. CASE Goto(p, "remove") /\ SameWork /\ ActiveEngineWork(p) = {}
  <2>1. /\ table' = table /\ born' = born /\ records' = records /\ cmd'[p].pc = "remove"
        /\ \A q \in Procs : /\ cmd'[q].kind = cmd[q].kind /\ cmd'[q].pid = cmd[q].pid
                             /\ cmd'[q].look = cmd[q].look
        /\ \A q \in Procs \ {p} : cmd'[q] = cmd[q]
        /\ At(p, "read") /\ cmd[p].look.left = {}
    BY <1>2 DEF Judge, Goto, CommandsInv, Commanded, activityVars
  <2>2. BirthsInv' /\ PidsInv'
    BY <2>1 DEF RegistryInv, BirthsInv, PidsInv
  <2>3. \A q \in Procs : OwnRecord(q)' = OwnRecord(q)
    BY <2>1 DEF OwnRecord, WorkKind, Record
  <2>4. ASSUME NEW r, Known(r)' PROVE KnownFits(r)'
    <3>1. KnownFits(r)
      BY <2>1, <2>4 DEF Known, RegistryInv
    <3> QED BY <2>1, <2>3, <3>1 DEF KnownFits
  \* Work that lives and was listed is work that was found.
  <2>5. ASSUME NEW q \in Procs, At(q, "work"), cmd[q].kind # "hub", NEW r \in cmd[p].look.names,
               r.birth = table[cmd[q].pid]
        PROVE  FALSE
    <3>1. r = OwnRecord(q) /\ r \in records /\ Alive(r)
      BY <2>5 DEF RegistryInv, Known, KnownFits, WorkFits, Alive, OwnRecord, Record
    <3>2. r \in cmd[p].look.found
      BY <2>1, <2>5, <3>1 DEF RegistryInv, LookFits
    <3>3. r.kind \in EngineBacked
      BY <2>5, <3>1 DEF OwnRecord, Record, WorkKind, Working, EngineBacked
    <3> QED BY <1>2, <3>2, <3>3 DEF ActiveEngineWork
  <2>6. UninstallMindsRecordedWork'
    <3> SUFFICES ASSUME NEW u \in Procs, NEW q \in Procs, cmd'[u].kind = "uninstall",
                        At(u, "remove")', At(q, "work")', cmd'[q].kind # "hub",
                        NEW r \in cmd'[u].look.names
                 PROVE  r.birth # table'[cmd'[q].pid]
      BY DEF UninstallMindsRecordedWork
    <3>1. At(q, "work") /\ cmd[q].kind # "hub"
      BY <2>1
    <3>2. CASE u = p
      BY <2>1, <2>5, <3>1, <3>2
    <3>3. CASE u # p
      BY <2>1, <3>1, <3>3 DEF RegistryInv, UninstallMindsRecordedWork
    <3> QED BY <3>2, <3>3
  <2>7. ASSUME NEW q \in Procs PROVE WorkFits(q)' /\ LookFits(cmd[q].look)'
    BY <2>1, <2>3 DEF WorkFits, LookFits, Alive, RegistryInv
  <2> QED BY <2>2, <2>4, <2>6, <2>7 DEF RegistryInv
<1> QED BY <1>1, <1>2 DEF Judge

LEMMA RegistryKept ==
    ASSUME CommandsInv, RegistryInv, [Next]_vars
    PROVE  RegistryInv'
<1>1. ASSUME NEW p \in Procs, ~At(p, "idle"), Finish(p) \/ FinishTracked(p) PROVE RegistryInv'
  BY <1>1, EndsKeep
  \* A command goes on, and not to its work, nor from a look to removing.
<1>2. ASSUME NEW p \in Procs, NEW pc, Goto(p, pc), UNCHANGED activityVars, ~At(p, "idle"),
             ~At(p, "work"),
             pc \notin {"idle", "work"}, pc = "remove" => cmd[p].kind # "uninstall"
      PROVE  RegistryInv'
  <2>1. cmd'[p] = [cmd[p] EXCEPT !.pc = pc] /\ \A q \in Procs \ {p} : cmd'[q] = cmd[q]
    BY <1>2 DEF Goto, CommandsInv, Commanded
  <2>2. /\ cmd'[p].pc = pc /\ cmd'[p].kind = cmd[p].kind /\ cmd'[p].pid = cmd[p].pid
        /\ cmd'[p].look = cmd[p].look
    BY <2>1 DEF CommandsInv, Commanded
  <2> QED BY <1>2, <2>1, <2>2, RegistryAlone
<1>3. ASSUME cmd' = cmd, UNCHANGED activityVars PROVE RegistryInv'
  BY <1>3, RegistryAlone
<1>4. ASSUME NEW p \in Procs, Decide(p) PROVE RegistryInv'
  BY <1>1, <1>2, <1>4 DEF Decide, CommandsInv, PlaceFitsKind, Building
<1>5. ASSUME NEW p \in Procs, Create(p) PROVE RegistryInv'
  <2>1. ASSUME NEW pc, NEW next \in {"pip", "find", "version", "schema"},
               pc \notin {"idle", "work"},
               Build(p, pc, next)
        PROVE  RegistryInv'
    BY <1>2, <2>1 DEF Build
  <2>2. ASSUME NEW pc, pc # "idle", Fail(p, pc) PROVE RegistryInv'
    BY <1>1, <2>2 DEF Fail
  <2>3. CASE CreateVenv(p) \/ InstallPackages(p)
    BY <2>1, <2>2, <2>3 DEF CreateVenv, InstallPackages
  <2>4. CASE FindImport(p) \/ WriteVersion(p)
    BY <2>1, <2>2, <2>4 DEF FindImport, WriteVersion
  <2>5. CASE WriteSchema(p)
    BY <1>1, <2>5 DEF WriteSchema
  <2> QED BY <1>5, <2>3, <2>4, <2>5 DEF Create
<1>6. ASSUME NEW p \in Procs, List(p) \/ Read(p) PROVE RegistryInv'
  BY <1>6, LooksKeep DEF List, Read
<1>7. ASSUME NEW p \in Procs, Judge(p) PROVE RegistryInv'
  BY <1>7, JudgesKeep
<1>8. ASSUME NEW p \in Procs, Remove(p) PROVE RegistryInv'
  BY <1>1, <1>2, <1>3, <1>8 DEF Remove, activityVars
<1>9. ASSUME NEW p \in Procs, Check(p) PROVE RegistryInv'
  BY <1>1, <1>2, <1>9 DEF Check
<1>10. ASSUME NEW p \in Procs, EnterWork(p) \/ EnterServing(p) PROVE RegistryInv'
  <2>1. CASE Finish(p)
    BY <1>1, <1>10, <2>1 DEF EnterWork, EnterServing
  <2>2. CASE /\ cmd[p].kind # "serve" /\ Enter(cmd[p].pid, Working(cmd[p].kind)) /\ Goto(p, "work")
             /\ UNCHANGED <<table, born>>
    BY <1>10, <2>2, EntersKeep DEF EnterWork, EnterServing, WorkKind
  <2>3. CASE /\ cmd[p].kind = "serve" /\ Enter(cmd[p].pid, "serving") /\ Goto(p, "work")
             /\ UNCHANGED <<table, born>>
    BY <1>10, <2>3, EntersKeep DEF EnterWork, EnterServing, WorkKind
  <2> QED BY <1>10, <2>1, <2>2, <2>3 DEF EnterWork, EnterServing
<1>11. ASSUME NEW p \in Procs, EndWork(p) \/ ChildEnded(p) PROVE RegistryInv'
  BY <1>1, <1>11 DEF EndWork, ChildEnded
<1>12. ASSUME NEW p \in Procs, Spawn(p) \/ Join(p) \/ Verdict(p) PROVE RegistryInv'
  BY <1>1, <1>2, <1>12 DEF Spawn, Join, Verdict
<1>13. ASSUME NEW p \in Procs, Announce(p) \/ SetHandler(p) PROVE RegistryInv'
  BY <1>2, <1>13 DEF Announce, SetHandler
<1>14. ASSUME NEW p \in Procs, Killed(p) \/ Terminated(p) \/ Interrupted(p) PROVE RegistryInv'
  BY <1>1, <1>14 DEF Killed, Terminated, Interrupted, Signalled, Waited
<1>15. ASSUME NEW p \in Procs, ChildSteps(p) \/ ServeRequests(p) PROVE RegistryInv'
  BY <1>3, <1>15 DEF ChildSteps, ServeRequests
<1>16. CASE Upgrade \/ Clientele \/ UNCHANGED vars
  BY <1>3, <1>16 DEF Upgrade, Clientele, vars
<1>17. CASE OtherProcess
  BY <1>3, <1>17, ForksKeep DEF OtherProcess, FreePids, activityVars
<1>18. ASSUME NEW p \in FreeSlots, NEW kind \in left.kinds, NEW i \in FreePids, Begin(p, kind, i)
       PROVE  RegistryInv'
  BY <1>18, ForksKeep DEF Begin, FreePids, FreeSlots
<1> QED
  BY <1>4, <1>5, <1>6, <1>7, <1>8, <1>9, <1>10, <1>11, <1>12, <1>13, <1>14, <1>15, <1>16, <1>17,
     <1>18 DEF Next

\* What the readers of the registry act on is exact, however many files outlive
\* their processes and however soon a pid is used again (snapshot, _read_record).
THEOREM RegistryIsToBeTrusted == Spec => []RegistryIsTrusted
<1>1. RegistryInv => RegistryIsTrusted
  BY DEF RegistryInv, RegistryIsTrusted, SnapshotsAreExact, Exact, LookFits, Alive
<1> QED BY CommandsBegin, RegistryBegins, CommandsKept, RegistryKept, <1>1, PTL DEF Spec

=============================================================================
