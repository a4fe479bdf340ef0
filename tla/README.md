# ARA in TLA+

ARA (Adaptive Runtime Allocator) is two programs. The **ARA command line** (`ara/`, Python) measures
how large a context a local language model can be given on a machine without ever reaching its
memory limit, keeps what it measured, and governs runtimes (MLX, CUDA, llama.cpp, Ollama) by it.
The **coordinator** (`coordinator/`, Next.js and SQLite) lets an administrator enroll many such
machines as *nodes* and queue work for them. This directory specifies the parts whose correctness
depends on order, failure or arithmetic at a boundary, checks them with TLC and proves the central
facts with TLAPS. `PROJECT.json` ties every definition to the lines it translates, every property to
the hazards it covers and every property to a plausible bug that breaks it.

Paths below are relative to `src/`.

## 1. Inventory

| Component (source) | State | Operations | Talks to | What is hard | What makes it correct |
|---|---|---|---|---|---|
| Coordinator tables (`coordinator/src/lib/db.ts`, `work.ts`, `node-auth.ts`, `app/actions.ts`) | `agents` and `work` rows | enroll, approve, deny, revoke, authenticate; enqueue, claim, acknowledge, record | nodes by HTTP, the administrator by forms, other coordinator processes by the database | long polls and awaiting handlers that outlive their authentication, a clock that steps back, leases | one offer per agent, forward-only jobs, nothing moves for a denied agent, a plaintext token only while it is needed |
| Node agent (`ara/node/agent.py`, `client.py`) | `accepted/`, `results/`, `quarantine/`, `config.json`; one process | recover, replay, poll, journal, acknowledge, run, complete, spool, retire, post | coordinator, `wiring` (runs a job) | a kill or `OSError` between any two writes, an answer lost after it took effect, a session replaced underneath | durable before acting, one job in the lanes, an outcome is produced once and never lost |
| Fleet protocol (both of the above) | calls in flight, calls given up | request, serve, answer, time out | | a handler that goes on serving a call nobody waits for | what is recorded is what was executed; accepted work is not stranded; queued work finishes |
| Enrollment (`ara/node/enroll.py`, `config.py`, `coordinator/src/lib/enrollment.ts`) | `pending-enrollment.json`, `config.json`, `enrollment.lock`, agent rows | lease, post token, record id, poll, save, clear; load, forget a session | coordinator, the daemon on the same files | death anywhere in a one-shot handshake, two enrolling processes, a late 401 | one agent per token, no approved node locked out, handshakes do not mix |
| Context ramp (`ara/contracts/ramp.py`, `driver.py`, `preflight.py`, `worker.py`) | measured points, refused contexts, bracket | plan, probe, abort, bisect, fit, report | a worker per probe | gates at the exact boundary, refusals in any order, extrapolation against evidence | never loads into the wall; reported ceilings agree with the evidence; ends |
| Coordinator admin sessions (`lib/auth.ts`, `proxy.ts`) | secret, password hash and salt, session epoch | log in, log out, change password | dashboards, several processes | read-then-write across processes | a logout invalidates every older cookie; salt and hash belong together |
| Rate limiter (`lib/rate-limit.ts`) | windows per client, an overflow window | check, prune | enroll and login routes | the limit on windows | one client's exhaustion does not admit more than the limit |
| Measurement store (`ara/db.py`) | SQLite file, `user_version`, three tables of evidence | eight migrations, upserts, lookups; listings by commands that never migrate | every ARA process | concurrent migration, death half way, readers of any shape | no evidence is lost, no migrated row governs or is shown to, the version tells the schema |
| Artifact identity, acquisition (`ara/staleness.py`, `acquire.py`) | the model cache of the Hub client | identify, match, pin; plan and fetch a download | native commands, the Hub | files replaced, added, turned into links, revisions that move | what is loaded or fetched is what was identified |
| Ollama governance (`ara/ollama.py`, `cli.py`) | daemon, resident models, manifests, setup lock, ownership rows and claims | characterize, serve, run; probe, re-attest, clean up | the Ollama daemon and its other clients | things outside ARA's lock changing between check and use, interrupts around durable writes | nothing not ARA's is removed; an unattested reply is refused; a recorded hand-over stays usable |
| Ollama memory evidence (`ara/ollama_evidence.py`, `cli.py`) | memory readings, admission, points, stored evidence | read, admit, load, measure, store; assess; check headroom and residency | the daemon, `nvidia-smi`, the store | readings that fail, boundaries of the walls, writer and reader of the evidence | an admitted load leaves the reserves free; what governs was bounded |
| Engine environments (`ara/engine_env.py`, `engines.py`, `engine_audit.py`, `engine_identity.py`) | a virtual environment with two stamps, worker servers | create, install, stamp, refresh, remove, audit; start, wait, stop | `uv`, workers, the registry | death between steps, readiness racing a timeout | what calls itself ready is whole; no orphaned server |
| Activity registry (`ara/activity.py`) | one record per running piece of work | publish, read, prune | all ARA processes | readers next to writers, pid reuse | a dead writer is not shown as alive, a live one is not overlooked |
| Process locks (`ara/locking.py`) | lock files | try, hold, release | all measuring verbs | killed holders, verbs that change what another measures | one measurement at a time, on an engine that stays |
| Native commands (`ara/cli.py`, `backends/`, `measurement_authority.py`, `methodology.py`) | the command's readings of build, authority and weights; worker processes | characterize, benchmark, run, serve, install, uninstall | engines, store, cache, locks | each reading is of another moment and the machine changes in between | evidence is of one world; answers come from what the evidence is about |
| Workers (`ara/workers/`, `ara/_engine_packages/`) | a load, its probe child and watchdog, repeats | preflight, measure, generate, benchmark | backends, ramp driver, the host's other programs | samples that miss or blame somebody else, loads that hang or fall short of the GPU | predictions agree; a measurement is of the model; an answer was gated; a run ends |
| MLX server (`ara_engine_mlx/serve.py`) | one connection at a time | gate, load, bind, report; read, govern, answer, stream | `serve`, clients | stalled clients, failures after the status line, a port taken in between | one status per request, answers under the ceiling, the announced endpoint is its own |
| Estimates and advice (`estimate.py`, `catalog.py`, `scoring.py`, `detect.py`, `cli.py`) | none | profile, recommend, models | store, cache, ramp | the same verdict computed along three ways, at a boundary | they agree, and no ramp finds more than was promised |
| Rendering, parsing, tables, service unit, dashboard | none, or only files they print | | | none of order | not modelled: see section 8 |

`PROJECT.json` lists each of these under `components` with its status.

## 2. How the modules fit together

```
Coordinator ---+                          NativeGovernance --+
NodeAgent -----+--> Fleet ==> JobLedger   Artifacts ---------+--> NativeArtifacts
Enrollment     (uses the same agents)
                                          EngineEnv --+
Ramp --> Analytic                         Activity ---+--> Serving
OllamaGovernance,  OllamaWalls            MlxServer --+
Store --> Views                           Workers
```

An arrow is EXTENDS or INSTANCE; `==>` is a refinement. Each group has one MC module and is checked
by one run (section 4). The order was: the fleet first, because a job lost or run under a withdrawn
authority is what an administrator cannot undo; then the ramp and the Ollama governance, because a
load into the wall takes the machine down; then the native commands, the workers behind them, the
store behind both, and the environments and servers around them.

What is left, in the order it would be worth having: a benchmark of an Ollama daemon; the model catalog, artifact and snapshot tables of the store; the node's corrupt or legacy files and the order key of
its spool.

## 3. How to read the modules

One action is what one SQL statement, one file replacement or one request does, with everything the
handler does around it; a step ends where the process can be killed and something durable has
changed, or where it waits for somebody else. Operators keep the source's names. An operator whose
comment starts with *Mutant* is not part of any specification: it is the same definition with a
plausible bug (a dropped guard, an off-by-one, a missing check), placed before the definition it
would replace; `PROJECT.json` `mutants` says which property must notice it.

### Coordinator

`agents` is `agentStatus` and `tokenPending` (whose `pending_session_token` is still stored in plain
text); `work` is `status`, `owner`, `created`, `rowid`, `result`, and `expired`, which stands for
`offered_at <= now - OFFER_LEASE_SECONDS`. Every statement of `db.ts` that changes a row is one
action: `better-sqlite3` is synchronous and each is a single statement or an immediate transaction.
Callers are left open, so any interleaving that the routes allow is included. `created_at` is read
from a small set of `Stamps` in any order: the column is a wall clock in seconds, which may repeat
and step back. Result bodies are members of `Contents`; job parameters, names and capability rows
are left out, no operation branches on them once a row exists.

### NodeAgent

`journal[j]` is `accepted/<j>.json` - absent, an accepted job, or a completion WAL - and `spool[j]`
is `results/<j>.json`. `pc` follows `_run_loop`: `recover` (`_recover_completed_journals`), `flush`
and `replay` (`_flush_spool`), `next` (`_next_accepted_job`), `poll`, `journal`, `verify`, `ack`,
`run`, `complete`, `fallback`, `spool`, `retire`, `post`. The process waits for an answer at `poll`,
`ack`, `post` and `replay`. `down` is a process systemd will restart (killed or failed), `stopped`
one that ended by itself, which `Restart=on-failure` does not restart.

* `_write_json_atomic` replaces a file, then syncs its directory. An `OSError` may therefore come
  before or after the write took effect: the argument `written` of the two `...Raises` actions. For
  `_journal_job` the error escapes the loop and ends the process, so it is a `Crash` before or after
  `JournalJob`.
* A WAL that contradicts the spooled result makes the code log and retry forever. It has no action
  here, so reaching it would show as a deadlock; `WalAgreesWithSpool` says it is not reached.
* `quarantine` keeps `<<job, file>>`. Files whose content is redundant with another lane, corrupt,
  symlinked or legacy files are left out.

### JobLedger and Fleet

`JobLedger` is the promise: a job is submitted, committed to a node, gets at most one outcome, and
that outcome is what is recorded, once. `Fleet` composes the two modules with at most one `call` of
the node (its client is synchronous) and `ghosts`, calls the node gave up by a timeout or by dying
that a handler may still serve at any later time. A handler's authentication and its writes are
separate steps: the result route awaits the body in between, the work route awaits its timer, and
another process sharing the database may write between the two statements of the acknowledge route.
The refinement maps a job's stage to `status`, and its outcome to the recorded result, or else to
what the node durably kept of it (WAL, spool file or quarantine). A job started twice after a crash
during its run is allowed, by the code and by the ledger; two durable outcomes are not.

### Enrollment

Two `ara node enroll` processes, one daemon and the coordinator on two files. A session token is
named by the agent it authenticates, an enrollment id by the row it stands for: both are random and
unique, which is all the code uses. Losing an answer is a death of the waiting process before it
acts on it; a request once sent may be served at any later time. `enrollment.lock` is an OS lock, so
a death releases it.

### Ramp

`est` is the preflight's answer, `footprint` the straight line a model's memory may really follow,
or `None` when a worker may read anything from `Readings`. Planning, gating, fitting and the three
ceilings are translated as integer arithmetic over a common denominator (`Spread`), that is exactly;
the program computes the same expressions in floating point, and what rounding does to a value at
the very boundary is not covered. Labels, telemetry and payload validation are left out. A probe
either measures (`MeasuresSafe`) or is refused before, during or after the load (`Refuses`); the
three look the same to the loop.

### OllamaGovernance

Two ARA processes run `characterize` (places `c_...` and, per rung, `r_...`), `serve` (`s_...`) or
`run` (`u_...`) on one endpoint, hence one lock; `l[p]` holds a process's local variables. `look` to
`delete2` are `_cleanup_ollama_probe`, after which the process goes where `after` says; `undo` to
`undo3` are what a failed or interrupted `serve` does. A `Gate` is a request to the daemon whose
answer decides: any request may go unanswered, and every caller takes that as the refusing answer.
`Killed` ends a process anywhere; `InterruptServe` is a Ctrl-C, which unwinds the lock and then
cleans up.

* A manifest is `[of, ctx]`: which binding of the base name it was derived from and the context baked
  into it, which is what its digest stands for. A base binding is never restored once replaced.
* `evidence[<<d, i>>]` is the latest row for a manifest and daemon instance, the only one that
  `assess_characterization` lets govern; `measured` is history: what was resident when a snapshot
  found room. Whether there is room is a free choice here and the subject of `OllamaWalls`.
* `cut` and `missed` are history too. `cut` has the names of durable claims that an interrupt or error
  separated from the flag of the process that made the manifest; `missed` has what was evicted
  between `/api/ps` and the snapshot. Runners are evicted at any moment, whoever holds the lock.
* A request that was given up is never served later, and the user removes a governed model only while
  no command runs (section 8 says what happens otherwise); nobody else writes a name ARA derives,
  except those that may be taken from the start (`NamesTaken`).
* A `--name` of the user's, legacy claims, a second endpoint or base model are left out.

### OllamaWalls

One process and one machine: the ramp of `_ollama_measure_ceiling` (`ramp`, `load`, `measure`,
`store`) and then governed requests (`ready`, `warm`, `warmed`, `generate`, `generated`, `shown`).
Sizes are numbers of one unit; margins and overhead, which are literals in the code, are constants.
Reading memory and deciding on the reading are one step; `Others` changes what other programs hold at
any time and sets `disturbed` until the next reading. `Accelerators` is the heart of the failure
model: a failing `nvidia-smi` yields the reading of a machine without one.

* The daemon's load takes at most the bound during the ramp: that five quarters of the weights, the
  cache of four-byte elements and the overhead are enough is the assumption the code makes of Ollama,
  and the properties rest on it. A request's load may take anything and go anywhere.
* Rungs are a constant set (`_ollama_ramp_contexts`), refusal reasons are one refusal, the deltas are
  known or not, margins copied into a row are left out, as are malformed sizes from the daemon.

### Analytic

`Analytic` extends `Ramp` with what ARA says of a model it has not measured: `profile`, `recommend`
and `models` resolve an engine, weigh the model's files and cache, and compare them with a budget.
They are pure, so they are operators over sets of `Machines`, `Models` and stored `Evidence`; weights
are counted in thousandths of a GB and memory in thousandths of a GiB, so that the conversion between the
two (`GiB`) and the rounding at the boundary are there. `EstimatesAgree` ties
the three sources of the size (the store, the cache, the Hub) and the ramp's own budget together: a
model whose parts are at least what its files say is never measured above the context it was promised.

### Store and Views

`store` is the file: `version` (`user_version`), the shape of each of the three evidence tables (the
number of the migration that introduced it), their rows, and the backups. `connect()` is one step per
statement or transaction (`Open`, then per migration the decision, the wait for the write lock, the
backup, the rebuild and the stamp); a process may die, or be refused a lock, between any two. A column
that a shape lacks is `None`. `born` is history, the identity a row was measured under. `Kept` asks
for a row of the same machine and engine that is at least as new: the migrations merge rows on purpose.
`stale` is set when a process carries a rebuild out that it decided on and that the store, by its shapes,
no longer needs: another process has run it in between. The unconditional property is the violated run
`store_race`. That the version alone does not tell was found by the proof: with a third process a
`SetVersionTwo` that comes late takes the version back below what the shapes are, so that a rebuild run
again would pass for one in its turn. `Released` says what a store of an earlier release is like; the five
of the run are members, and it is all that the proof knows of them.

`Views` adds no step. `profile`, `recommend`, `models` and `models show` open the file query-only and
never migrate, so its operators are evaluated in every state of `Store`, in any shape.

### NativeGovernance, Artifacts, NativeArtifacts

`cmd[p]` holds a command's place and what it read: `build`, `authority`, `plan`, `art`, `row`, and the
workers it has had answers from (`seen`). `world` is the machine: each engine's build (0 when it is
not installed), the live authority, the revision the name selects, what is cached and the Hub's head.
Every change of a build, an authority or the weights is to a value never seen before, so a comparison
that succeeds is about the same world. Between any two readings anything may change; a killed command
leaves its worker behind, and its lock is released by the system.

An artifact is a number there. `Artifacts` is what the number stands for: `artifact_identity`,
`identity_matches`, `pinned_model_ref`, `authorized_download_ref` and the download plans, over pairs of
caches whose snapshots hold files that are blobs, links elsewhere or plain files, with or without a
shard index. `NativeArtifacts` lays every reachable world out as such a cache and asserts that the
number is as good as the identity (`NumbersStandForFiles`). Assumed: a file's stat fingerprint changes with its
content, a revision is immutable on the Hub, and two GGUF files of a repository have different sizes.
`ArtifactsAssumption` says that revisions are positive numbers, the two that pair a cache with an older or
newer one among them, and that a snapshot directory holds files of the six kinds that the selection tells apart
(`Names`); `RevisionsAssumption` that there is a revision for each version the bounded world comes to.

### Workers

One invocation of a worker script, for all five lanes. `child` is the load in progress with what the
watchdog has seen of it; `other` is what the host's other programs hold and may change between any two
samples. `SafetyGate` has two tests, the base estimate and the prediction at the context: for `cuda` and
llama.cpp one is the other at no context, but `mlx`'s base estimate rests on an earlier reading, which
may be anything that the other programs' changes allow, and never on less than `WiredFloor`. A sample is a step of its own that need not happen, so a load can be missed by all of them.
Where a child printed its line before
its watchdog cut it off, `cpu`, `vulkan` and `cuda` take the line, as the code does; `mlx` refuses whenever
a sample reached the wall. `gguf` guards two walls and fits its layers.
Memory is in half GiB; logs and GGUF metadata are what they yield.

### EngineEnv, Activity, MlxServer, Serving

`EngineEnv` is the directory: which parts are whole, from which release the packages were built and what
the stamp says. `Activity` is the registry: records named by pid and birth (a process creation time),
next to the system's table of pids, which are reused at once. `MlxServer` is the child of `serve`: gate,
load, bind, one ready line, then one thread that reads, governs, answers or streams connection after
connection, with clients that send in part or never. `Serving` composes the three with the commands
that use them (install, refresh, uninstall, run, hub, status, serve), each a process that may be
killed at any step; a port may be taken by somebody else between `_free_port` and the bind.

## 4. The runs

| Run | Instance | Properties | Shows |
|---|---|---|---|
| `coordinator_queue` | 2 agents, 3 jobs, 2 stamps | `AtMostOneOffer`, `PlaintextOnlyWhileActive`, `SettledIsFinal` (action) | no interleaving gives an agent two outstanding offers, moves a job back, replaces a result, moves a denied agent's work or brings that agent back |
| `node_agent` | 2 agents, 2 jobs, unbounded faults | `LaneHoldsOneJob`, `DiskLeads`, `OutcomesSurvive` (action) | one job in the lanes, what runs or is posted is on disk, no blocking contradiction, outcomes leave only by delivery or as quarantined evidence |
| `fleet` | 2 agents, 2 jobs, 1 fault | `AgreeOnDispatch`, `QuarantineOnlyAfterLosingTheAgent`, `RefinesLedger` (refinement), `QueuedWorkFinishes` (liveness) | what runs is dispatched and what is dispatched is held by the node; `Fleet` implements `JobLedger`; queued jobs of an agent served for good finish |
| `enrollment` | 2 tokens, 2 agents, 2 enrollers | `OneAgentPerToken`, `HandshakesDoNotMix`, `SessionsAreKept` (action) | one agent per token, no lock-out, no mixing, only denied sessions forgotten |
| `ramp` | 4 rungs, 96 estimates, 6 lines or free readings; machines and models at every boundary | `CeilingSeparatesEvidence`, `NeverReachesTheWall`, `FittedCeilingIsEarned`, `EstimatesAgree`, `Terminates` (liveness) | ceilings and evidence agree, RULE #1, exact extrapolation, profile = recommend >= ramp, termination |
| `ollama_shared` | 2 processes, 3 commands, 2 rungs, 2 base bindings, 2 daemon instances, 1 step of the outside, names taken | `EvidenceIsSound`, `HandedOutIsGoverned`, `ForeignKept`, `ClaimedKept` (actions) | ceilings were measured, alone; answers and claims lie under one; nobody else's manifest is touched, claimed ones stay |
| `ollama_walls` | 4 kinds of machine, 3 rungs, sizes around every boundary, any reading may fail | `ReservesAreKept`, `StoredEvidenceGoverns` | loads whose reading saw the accelerator leave the reserves free, stored evidence governs, requests keep the reserves |
| `store` | 5 stores, 2 processes, 2 opens, 1 save | `OnlyOwnEvidenceGoverns`, `UpgradesKeepTheStore`, `ViewsClaimOnlyWhatGoverns` | no migrated row governs or is shown to; nothing is lost; the version tells the schema unless a stale rebuild ran |
| `store_race` | the same | `SchemaApplied` | **violated**: see section 7 |
| `native` | 2 processes, 2 engines, 2 of 6 commands, 1 change or kill, 2 loads; 3 revisions and all snapshots of six names | `EvidenceIsOneWorld`, `AnswersAreMeasured`, `OnlyTheIdentifiedIsLoaded`, `MeasurementsAreUndisturbed` (action) | evidence is of one world, answers are of the measured weights and authority, measurements exclude each other, only identified files are loaded or fetched |
| `workers` | 5 lanes, 4 operations, models that take what was estimated or more, 2 changes of the host | `PredictionsAgree`, `MeasurementsAreHonest`, `AnswersWereGated`, `RunsEnd` (liveness) | gates and watchdogs agree, disturbances are outvoted, answers stay under what was gated, every run ends |
| `serving` | 2 processes, 2 pids, 1 port, 2 clients, one of four budgets | `StampedIsWhole`, `RegistryIsTrusted`, `CommandsOwnTheirServers`, `AnswersAreCommittedOnce`, `ServersMakeProgress` (liveness) | stamped environments are whole, live work is seen, no orphaned server, one status per request, no wedged start or connection |

A property that names two or more others is their conjunction: each conjunct is a definition of its own
with its own comment (`SettledIsFinal` is `MoveForward`, `DenialStays`, `FrozenWhenDenied`), so that a
counterexample can be narrowed down by checking the parts.

**Bounds of the fleet.** Two agents are needed for a re-enrollment and for work of one meeting the
other; a third adds an identity nobody else refers to. Three jobs in the coordinator let an expired
offer, a queued job with an older stamp and one that ties on the stamp meet in one claim; `Fleet` gets by
with two because the node holds one at a time and the other is the one that may be disturbed. Two stamps
are a clock that repeats, advances and steps back. `MaxFaults` bounds crashes, lost calls and
storage errors of a run in `Fleet` only; `NodeAgent`, without the coordinator, has no such bound.
`Contents` has one member because `done` and `failed` already give two results that differ.
`MCFleet` takes agents and jobs into use in the order of their names (`InOrder`), which drops no
behaviour but for renaming and is sound for liveness where TLC's symmetry is not; and gives the second
agent, the successor on the same node, at most one job (`Successor`). The other runs use symmetry only
where they check no liveness.

**Bounds of the ramp.** `Readings` are far under, near and exactly at the budget; `MaxSteps` = 2 lets
the bisection both raise its floor and lower its ceiling.

**Bounds of the Ollama runs.** Two rungs make a ramp with a previous one; a second base binding and a second
daemon instance are the first that differ from what was attested, and evidence for both never helps a
third. Three commands are a characterization, a hand-over and one that disturbs them; the one step of
the outside is any of a restart, a rebinding, an eviction, another client's load or a removal. In
`OllamaWalls` three rungs let the ramp stop before, in between and after; other programs leave exactly
each bound plus the margin free, one less and much less, on either wall; loads take less than, exactly
and almost each bound, all, part or none of it on the accelerator.

**Bounds of the native runs.** `MaxOpens` = 2 and `MaxSaves` = 1 in `store`: a rebuild decided by one
process and overtaken by another, then a measurement saved to what they left; the five stores are a new
one and those of the releases before migrations 2, 5, 6 and 7, with rows that collide once they are rekeyed.
`native` runs any two commands, because what can go wrong is a command that meets another's worker,
evidence or lock, with one change of the machine or one kill at any moment (`OneEvent`, a constraint:
what follows both is not explored); `MaxLoads` = 2 are a ramp with a later load. Cached weights start
behind the Hub's head, so that a move to it is one change. Its six file names are two GGUFs, two shards, a projector and an index. `workers`
needs two changes of the host, one that disturbs a repeat and one that undoes it; its job with the wide
margin is the one for which the floor of mlx's base estimate alone reaches the budget. `serving` offers four
budgets, one of which holds for a behaviour: install, refresh and uninstall from nothing with an upgrade of
ARA; work, hub and uninstall with a strange process that takes a pid; serve next to uninstall and refresh
with a port taken; serve with two clients. Each has one signal.

`MCRamp`, `MCOllamaGovernance`, `MCNativeGovernance`, `MCStore`, `MCServing` and `MCWorkers` switch the
deadlock check off: the loop ends, the run ends, and the bounds on commands and opens are spent. The
others leave it on; the node can always be crashed or started and the administrator can always act, with
one exception that matters, the contradicting WAL above, which a blocked process would turn up through
`WalAgreesWithSpool` (a part of `DiskLeads`).

## 5. Fairness

* `Fleet`: weak fairness of the node's own steps (it is one loop; a runner is assumed to return),
  of `NodeStarts` from `down` only (systemd's `Restart=on-failure`), of the handler of the call the
  node is waiting on, and of the lease running out (time passes). None for the administrator, for
  enrollment, for starting a node that ended by itself, or for ghosts. `Serving` in the property's
  premise says that the node keeps the session of an active agent: a running daemon never reads
  `config.json` again, so work for an agent enrolled meanwhile waits for a restart.
* `Ramp`: weak fairness of the loop. A probe is awaited without a timeout in ARA; the assumption is
  that a worker answers or dies. Failing is not fair: it never has to happen.
* `Workers`: weak fairness of the run's own steps, not of the host's other programs. A probe that hangs
  has no step: the lanes whose parent has a timeout (`mlx`, `cuda`) end all the same, the two that wait
  without one (`cpu`, `vulkan`) are excepted in `RunsEnd`. A load in the worker's own process (`gguf`,
  answers) is assumed to return or raise.
* `Serving`: weak fairness of the server's one thread with its socket timeout (`ServeRequests`), and
  of the parent's wait with its ready timeout (`HandshakeEnds`). None for commands, loads, clients
  or signals.
* The other modules state safety only, no fairness.

## 6. What is proved

TLAPS proves, for every value of the constants that the modules' `ASSUME`s admit:

* `CoordinatorProofs`: `TypeCorrect`, `OneOfferPerAgent`, `ResultsMatch`, `PlaintextErased`,
  `WorkMovesForward`, `DenialFinal` and from the last two `SettledForGood` - every property of
  `coordinator_queue`.
* `FleetProofs`: `TypeCorrect`, `AgreeOnDispatchAlways`, `QuarantineAlways` and `RefinesLedgerAlways` -
  every safety property of `fleet` and its refinement of `JobLedger`, for any number of agents, jobs,
  faults and retransmitted requests.
* `NodeAgentProofs`: `TypeCorrect`, `OneJobAtATime`, `DurableFirst`, `RecoveryNeverBlocks` and from
  these two `DiskLeadsAlways`, `OutcomesNeverLost` - every property of `node_agent`, without a bound on jobs or faults.
* `RampProofs`: `CeilingIsEvidence`, `NeverAtTheWall`, `ExtrapolationIsEarned` and `TypeCorrect`, for
  every schedule, estimate, footprint, reading, gap and step limit; and of `Analytic`
  `CommandsAgreeOnTheModel`, for all machines, models, margins and stored scores - every safety property of
  `ramp`.
* `OllamaProofs`, of `OllamaWalls`: `TypeCorrect`, `ReservesKept`, `WriterAndReaderAgree`, `GovernedIsBounded`,
  `RequestsKeepReserves` and with the first and the last `ReservesAlwaysKept` - every property of
  `ollama_walls`, for all sizes, margins, rungs and machines, whatever readings fail.
* `OllamaProofs`, of `OllamaGovernance`: `EvidenceAlwaysSound`, `HandedOutAlwaysGoverned`, `ForeignAlwaysKept` and
  `ClaimedAlwaysKept` - every property of `ollama_governance`, for any number of commands, base manifests,
  windows, daemon instances and steps of the outside world. `EvidenceIsSound` excepts what `missed` names and
  `ClaimedKept` the names in `cut`; sections 7 and 8 say what the code does there.
* `StoredStateProofs`, of `Enrollment`: `OneAgentPerTokenAlways`, `HandshakesNeverMix`, `SessionsAlwaysKept` and
  `TypeCorrect` - every property of `enrollment`, for any number of tokens, agents and enrollers.
* `StoredStateProofs`, of `Store` and `Views`: `OnlyOwnEvidenceEverGoverns`, `UpgradesAlwaysKeep` and
  `ViewsNeverOverclaim` over the inductive `StoreStaysSound` - every property of `store`, for any number of
  processes, opens, saves, engines and builds and every store that an earlier release may have left.
* `NativeProofs`, of `NativeGovernance`: `MeasurementsNeverDisturbed`, `AnswersAlwaysMeasured` and
  `EvidenceAlwaysOneWorld`, for any number of processes, engines, commands, changes, loads and kills.
* `NativeProofs`, of `Artifacts` and `NativeArtifacts`: `OnlyTheIdentifiedIsEverLoaded` - for any caches and
  snapshots of the six kinds of files, any reference, and every world that the native commands reach.
* `NativeProofs`, of `Workers`: `WorkersPredictionsAgree`, `WorkersMeasureHonestly` and
  `WorkersAnswersWereGated` - every safety property of `workers`, for all sizes, margins, layers and ambient
  loads, however often other programs move.
* `ServingProofs`: `EnvironmentsStampedAreWhole`, `RegistryIsToBeTrusted`,
  `ServersBelongToTheirCommands` and `AnswersAreCommitted` - every safety property of `serving`, for any
  number of processes, pids, ports, releases, clients and requests, and for every budget.

The assumptions on the constants: `None` and `Nobody` are none of the other values
(`CoordinatorAssumption`, `EnrollmentAssumption`, `FleetAssumption`, `NobodyIsNoProcess`), sizes, stamps, prompts and
ceilings are integers, and the sets that are counted are finite. `AnalyticAssumption` types the models and
scores. `StoreAssumption` says that engines are named as the code names them, that the markers of the
migrations (`LegacyBuild`, `Null`, `legacy-unit-unknown`) are no build or authority of this release, and
that every old store is `Released`: its version is not ahead of its shapes, calibrations and characterizations
were rebuilt together before the sixth migration, row ids are unique, machine keys are rounded from version 2
on, and no old row was measured by a build or a method of this release.

**Coordinator.** The inductive invariant is the type invariant with, for each property, itself.
`AtMostOneOffer` is inductive only with the order of `claimNextWorkForAgent`: a claim finds no live
offer, so an outstanding one would be expired, hence itself a candidate and preferred to any queued
job; the claimed job is then that very offer. The action properties follow from the shape of each
step under that invariant. The assumptions are that `None` is none of the other values, that there
are finitely many jobs (row ids count them) and that stamps are integers.

**NodeAgent.** The properties speak of a few places of the loop; the invariant says for each place
what memory (`Memory`) and files (`Files`) hold: nothing when the node asks for work, an accepted
journal and no result until the job ran, then in `complete` and `fallback` either lane possibly
already holding this very payload (a write that raised may have taken effect), and in `post` and
`replay` the result with its journal gone if it was retired. `LaneHoldsOneJob` is what makes it
inductive: a step changes only the lane of the job it is at, and there is no other.

**Fleet.** A fleet step is a step of the coordinator, of the node, of both, or of neither, so both
components' own invariants come over as they are proved, by an `INSTANCE` of their proof modules.
What has to be added relates the two sides. `CallFits`: the outstanding call is the one the node's place in its loop
says. `RequestsFit`: whatever anybody may still hear, retransmissions of requests nobody waits for any
more included, is about a job that was issued and is finished, in the node's lane or quarantined, and a
posted payload is a durable outcome. `AnswersHold`: an answer under way is still true when it is heard.
And for each job, `RowFits`, `LaneFits`, `QuarantineFits` and `OneOutcome` say which rows, files and
payloads go together. They hold only together: a late acceptance is harmless because of
what its row may be by then, and the row because of what the files still hold. TLC checked this
invariant over the bounds of `fleet` without the successor agent (438,583 states) before it was
proved. For the refinement, `OutcomeOf` is the only payload any durable place holds for a job, so that
the mapped outcome cannot change once it exists; each step then is one step of the ledger or none.

**Ramp.** `CeilingSeparatesEvidence` is not inductive during the climb, where nothing is said of the
order of probes. The strengthening is `ClimbedInOrder` (while nothing is refused the measured rungs
lie below all that remain), `EvidenceUnderBudget` (every point kept was read below the budget) and
`HasTop` (a non-empty set of measured contexts has a largest member, which `Max` then returns). The
gates, that is the arithmetic, play no part in this one: it holds for any plan, as long as the
lowest remaining rung is probed. The bracket needs `MinGap >= 1` to have its midpoint strictly inside.

`NeverReachesTheWall` and `FittedCeilingIsEarned` are about the arithmetic. Sums over a set are folded
in an order nobody states; that adding a point adds its term, and that the sums of points on a line
are those of that line, is an induction over the subsets of a finite set, for which the well-foundedness
theorem in its set form (`WFMin`) serves. `SumsFit` says that the spread of two or more measured
contexts is positive, `SumsFollow` that the fitted line is then the true one, so that comparing its
value with the budget is comparing the model's; a model that was underestimated is excluded by the
property itself, because before two points are there the gate has the estimate only. `ProbesInWindow`
keeps every probe and ceiling a context of the schedule's window.

**Analytic.** `EstimateBoundsTheRamp` joins the two: what the ramp measured was read below its budget and
lies on the model's line (`Follows`), and `AnalyticCeiling` is no smaller than any context whose cache stays
under that budget (`CeilingIsLargest`), whatever the division rounds. The agreement of `profile` and `recommend` goes by the form of the reference, where `StoreIsCurrent` makes
the sizes they start from equal. The others are about operators alone.

**OllamaWalls.** None of the four properties says what a reading meant two steps later, so the
invariant carries it: `Shows` (a reading fits the machine, up to a missing accelerator), `Current`
(until others move, it is what is free), the admission of `before` at `load` and `measure`, `RoomFor`
the recorded allocation at `warm`, and `Sound` of the best point and the row. That a governing row on
the accelerator was bounded there (`GovernedWasBounded`) follows although no reader compares the
admission's walls with the placement: the delta is known only if the reading before the load saw the
accelerator.

**OllamaGovernance.** A command knows the daemon from what it last heard, and everything it heard may
be out of date. What does not come back is counted: `inst` and the base's binding only grow, and so does
`measured`, what was ever measured. `IInv` is the world's own shape (`World`), what is stored (`Stored`),
and `InPlace` for each command: what it has learned so far is true of the binding and the instance it
learned it from. A command at a place under the setup lock holds it (`HoldsLock`), so that between `TryLock` and
the release every manifest under a name of ARA's is this command's doing or somebody's who does not lock;
a resident model met there is the command's own or `Other`. `Env` collects what all others may do while
one command stands still, each action is shown to be `Env` for every process but its own, and `InPlace`
to survive `Env`; then each place has one lemma for its own step. The comparisons at the end
(`SameBase`, the instance read again) strike the alternatives out: a binding read twice alike did not
move between, because it never comes back. `HandedOutIsGoverned` is the same argument with `Governed` at
the end of it, which persists because `measured` only grows. `ForeignKept` needs that no row,
claim or artifact a process holds is `Foreign`'s, so that what is compared before a removal differs from
it. An eviction between `/api/ps` and the snapshot takes away what the snapshot would have been of; there
`Noted` says that it is then in `missed`, so that `InSight` - resident, or noted - is what survives
`Env`. `ClaimedKept` needs an invariant of its own (`CInv`): of the names not in `cut`, who made one
under the lock has not recorded it yet, or no longer undoes it - which is exactly what an interrupt
between claim and flag breaks, and why such a name enters `cut` at that step and not later.
`OllamaAssumption` says that `None` is no process, manifest or claim.

**Enrollment.** `OneAgentPerToken` and `ForgottenOnlyAfterSaved` are inductive with the types and four
facts: the lease is held by the one enroller between `enrolling` and `clear` (`LeaseHeld`), a row
exists exactly for a bound agent (`RowsAreBound`), a handshake on disk is about the agent its token
owns (`PendingIsBound`), and each enroller's memory agrees with both (`HandshakeIsOwn`). The action
property needs `SessionWasSaved`: a configured session is one an enroller saved, so the daemon that
compares before it forgets compares with a real one.

**Store and Views.** `StoreInv` has three parts that always hold: `Rows` (finite tables of rows with their
columns, each either this release's own evidence, `Own`, or marked so that no lookup accepts it; in the last
shape ceilings are measured ones, `Final`), `Keys` (decimal walls are dropped and machine keys rounded
before anything that follows them, and `Stage` says what a process at each place of its migrations has decided and
read) and `NumbersStand` (until they are numbered afresh, a row number stands for one measurement, in the
store and in what any process has read of it). While nothing stale ran there are two more: `Passed` (the store
and each process have the migrations before their own behind them) and `Held` (what is owed is there).
Evidence is kept step by step: `Covers` says that one row is as good as another to whoever is owed that one, and
every table written anew covers the one before (`Covered`). A merge keeps the newest of each key; that a finite
set of rows has a newest is an induction over its subsets by `WFMin`. Migration 2 was the hard one: it reads
the calibrations first and rewrites what has become of them later, so the rows it removes are found by their
numbers and those it writes are the ones read, and `NumbersStand` is what ties the two together. The views need
only that they read rows as the lookups do, and the largest of a finite set of ceilings.

**NativeGovernance.** Exclusion rests on `LockIsHeld` (a command of a locked kind holds
measurement.lock, from its start to its end), `PlaceFitsKind` and `WorkersMeasureForCommands` (a living
command's worker measures only if the command does). For the answers, `AnswerFits` says for each place
of a run or a benchmark what it knows. What it compared may be out of date a step later, so each fact has
an escape: `Overtaken` (the authority it holds is below the live one) and `Replaced` (the local file it
holds is older than the one there). Both are for ever, because neither counter goes back; the final
comparisons (`ArtifactAfter`, `AuthorityAfter`) exclude them, and with them every worker that met
anything else in between. `EvidenceIsOneWorld` goes the same way with one more counter: `EvidenceFits` says for
each place of a characterization that every worker it heard had the build, the authority and the weights it
has read, or that what it read has been overtaken by now. A build never comes back (`BuildsFit`: `fresh`
is above every one there is), and the one value that can be seen twice, 0 for an engine that is removed,
is out of the way because measurement.lock keeps `install` and `uninstall` out. Each of the three last
comparisons strikes one "or overtaken". A calibration that is used again comes with its own
readings, which `CalibrationsFit` keeps as strict as the property says and free of weights.

**Artifacts.** `OnlyTheIdentifiedIsLoaded` has two halves. The first is about operators, for any cache:
`PinnedReads` says that the files read through the pin of an identity that matches are `ReadOf(id)`, a
function of the identity alone, so nothing that happened to the cache in between can matter. Directories,
single files, shards with and without an index, and projectors beside them are its cases; a download by the
identity (`GgufRefetched`, `DirectoryRefetched`) and a plan (`PlannedFile`) follow the same selection. The
second half ties the numbers of `NativeGovernance` to such identities: `PublishedInv` says that every version
named by the world, by a row, or by a command at a place where it uses it, was published before
(`WorldIsPublished`, `RowsArePublished`, `NamesPublished`). It must be inductive on its own, because a command
takes its number from a row, the row got it from an earlier command, and only the world makes new ones. Ranks
are bounded in it too: `Reusable` chooses the newest row, and without a bound there might be none. Identities of
different versions differ in their stat fingerprints (`IdentitiesDiffer`), so a number matches when its identity
does (`NumbersArePinned`).

**Serving.** Each theorem has an invariant of its own over the common `Commanded`, `PlaceFitsKind` and
`LockIsHeld`. Environments: the place of an install says which parts it has already made
(`BuiltSoFar`), which no one else can undo, because install, refresh and uninstall hold the lock.
Servers: `ServerFits` relates a command's place to its child's and the port to its owner.
Connections: `ConnFits` says for each state of a connection how many statuses it has had and what was
granted, `LineFits` that a waiting client is queued for exactly one server. The registry: births are
unique and never come back (`BirthsInv`), a living process's pid is its own (`PidsInv`), a record
names its writer's birth; `LookFits` says of a reader half way what it may still miss.

**Workers.** Two parts. The arithmetic is about operators alone: `FittedIsMost` (the layers fitted are the
most that stay within the budget), `FittedPasses` (what any split passes the gate with, the fitted one
does, because more layers on the GPU leave less in RAM), `EstimateCovers` (a split fitted for the window has no
more layers than one fitted for less, and a layer's share of the cache, times the layers, is no more than
the slope says, although both divisions round down) and `MedianVotes` (of one or three readings the
middle one exists, and what most agree on is it). `Max` of a finite set and the middle of three are found by
`WFMin` and by cases; nothing else needs induction. `PreflightCoversTheGate` for mlx is then a comparison of the driver's base, on
the wired memory as it is, with the gate's, on the floor. The rest is the invariant `WorkersInv`: `Stages` (where a run is says how
many repeats it has, that its gate was passed, and what its report is), `ChildIsWatched` (an undisturbed
child's samples lie between its baseline and its need), `TakenAreAccepted`, and `GateLeavesRoom` (the
context that was gated covers every prompt that will be admitted, for batches by their longest).
`WorkersAssumption` types the jobs and sizes and says that a one-shot run has one prompt and a batch at least one.

Only model-checked: the liveness of `Fleet`, `Ramp`, `Workers` and `Serving`, which is outside the prover's
reach. Every invariant and action property of the passing runs is proved.

## 7. What the checks found

`store_race` checks the comment of `ara/db.py:245`, that `connect()` opens the store "with the schema
applied". It is violated: `connect()` decides whether a migration must rebuild a table before it
waits for `BEGIN IMMEDIATE`, and looks at neither the shapes nor `user_version` again once it has the
lock. With two processes on one store of version 5, the first can carry its version-6 rebuild out after
the second went on to 7; the version-7 columns are gone and the version ends at 8, so that no later open
repairs them.

Three more disagreements are stated in the modules and reproduced by adding the property to the named
configuration; they are not among the runs:

* `HandshakeKeptUntilSaved` in `MCEnrollment.cfg`. `ara/node/config.py` calls pending-enrollment.json
  "Durable state needed to resume a one-shot enrollment handshake after interruption". `ara node run`
  removes that file whenever a session is configured (`ara/cli.py`, `render_node`), without comparing
  the handshake with the session. If a node that has a session is being enrolled again and its daemon is
  (re)started meanwhile, an enrollment interrupted after that cannot be resumed; the token it holds can
  be used again only by entering it again.
* `EveryLoadKeepsReserves` in `MCOllamaWalls.cfg`. README.md:237, "Before **each** Ollama probe, ARA
  instead fails closed unless it can conservatively bound the model's expanded residency,
  requested-context KV cache, and runtime overhead against every possible physical wall".
  `_nvidia_memory` answers a failing or slow `nvidia-smi` as it answers its absence,
  `preflight_admission` then sees a machine without an accelerator, and a model is loaded that only the
  system's memory was checked for. The evidence of such a load does not govern, because the delta on the
  accelerator is unknown. `AdmittedLoadKeepsReserves` is the part of the promise that holds.
* `PreservedAfterHandoff` in `MCOllamaGovernance.cfg`. That a recorded hand-over is preserved is the
  message at cli.py:5328-5329 and tests/test_cli.py:12349. The flag that says so is set after the claim
  is durable; an interrupt, or an `OSError` closing the directory, in between takes the other branch and
  deletes the manifest while the claim stays. `ClaimedKept`, which the run checks, has that step in it
  and excepts exactly the names it happened to.

Two statements of the native commands are too strong for what the code can do and are kept, with their
source, in `NativeGovernance`: `ServedIsCharacterized` (serve passes the model's name and not the pinned
weights, so a local file overwritten between check and load is served) and `ReadingsUndisturbed` (an
orphaned worker of a killed measurement still holds memory while the next one measures).

What reading the code for the models turned up besides:

* mlx's gate (`measure_one.py:58-62`, `probe.py:113-120`) takes its base estimate from a reading of its
  own and assumes at least 2.5 GiB wired; its preflight (`measure_one.py:86-89`) does not. On a machine
  with less than that wired, the driver admits a model whose base estimate the gate refuses with
  "won't load", at every context. `PreflightCoversTheGate` allows for what is
  missing to the floor (`FloorShort`), and without that allowance TLC finds it violated in the
  `workers` run, by the job with the wide margin.
* `start_worker_server` joins its reader outside the `try` that kills the child, and `serve` sets its
  SIGTERM handler after the child started (cli.py:5032): an interrupt to the parent alone, or a SIGTERM
  before the handler, orphans the server although engine_env.py:216-219 says "never leak". In
  `Serving` the first is one of its kills and the second is `Terminated` before `Handled`
  (`orphaned = "early"`); `ServersEndWithTheirCommand` excepts both.
* `serve` writes its activity record only after readiness (cli.py:5035), and `install --refresh` never
  looks at the registry: an engine can be removed under a server that is loading.
* A removal cut short can leave a python and both stamps without packages; the audit's probe notices.
* The automatic choice of cuda follows `nvidia-smi` on the PATH, the compatibility advice says Windows only: profile
  calls such a machine incompatible, recommend ranks models for it.
* `_model_fit` promises that profile and recommend "compute identically" (cli.py:5662); they differ when
  the store's weights are older than the cached file. `ProfileAndRecommendAgree` takes the store to be
  current (`StoreIsCurrent`).
* An older stale or invalid score adds its warning beside a newer valid one (`Warned`).
* Readers never migrate: in a store of version 6 an unscoped row of an engine other than MLX is shown as
  reusable although no governing lookup takes it. `ReusableIsWhatGoverns` speaks of the present schema.
* `models` lists the largest ceiling of all rows, `models show` the largest among the newest row of each
  engine; `ShownIsMeasured` holds the two together by an inequality.
* A model downloaded again has new stat fingerprints, so its earlier identity no longer matches although
  revision and files are the same; it fails closed.

## 8. Not modelled

* **Rendering, parsing and tables**: wording and layout of every verb, the argument parser, score formulas,
  the model catalog's curated entries, log and metadata parsing. They change no state that a decision rests on.
* **Admin sessions** (`lib/auth.ts`, `proxy.ts`). The session epoch advances in one transaction and the
  first-run password is set in one synchronous call of the single process the coordinator is documented
  to be; only a second process on the same database could interleave with it.
* **Rate limiter** (`lib/rate-limit.ts`). One synchronous function over an in-memory map; what it refuses
  is an answer the enrollment client already treats as a failed attempt.
* **Dashboard, wire schemas, node capabilities, service unit**: renderings and plain files. The restart
  policy of the unit is used as fairness of `Fleet`.
* **Benchmarks of an Ollama daemon**: the governed request of `run` repeated; its scores are
  not modelled. A `--name` of the user's, legacy claims and a second endpoint are left out with it.
* **The packages' own ramps**, mlx's private run database and its speech and embedding probes: `ara`
  calls none of them but calibrate.
* **Floating point.** The ramp's line, its ceilings and the estimates are computed exactly here; what
  rounding does to a value at the very boundary is not covered.
* **Symbolic links and permissions** of the directories ARA writes to.

Nothing in the code stands against three things that the outside can do. The first is in the model and
excepted by the properties; the other two are kept out by bounds:

* A runner evicted between `/api/ps` and the memory snapshot (cli.py:4223) leaves a snapshot with
  room, the rung counts as fit and its context is stored as the measured ceiling: residency is read
  before memory and not after it, and ARA's lock does not bind the daemon's other clients. `missed`
  names such a runner, and `EvidenceIsSound` and `HandedOutIsGoverned` take it for measured
  (`Observed`): with `measured` in its place TLC finds both violated.
* An interrupted `serve` cleans up after leaving the lock (cli.py:5331). If the user removes its
  manifest between its identity check and its delete, and another `serve` makes and claims the same
  name there, the delete takes the new one.
* The warm load before a request of `run` may land elsewhere than where the evidence was recorded; the
  code promises room for the recorded peak only.

A daemon that is running reads `config.json` once (node/agent.py:590): work for an agent enrolled
meanwhile waits until it restarts. That is the design of the service unit, and `QueuedWorkFinishes`
excludes it in its premise.
