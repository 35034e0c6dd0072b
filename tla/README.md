# ROSPlus: formal models

TLA+ models of the ROSPlus control plane, its safety chain and its log stream, of
the Python reference with its safety monitor and migration tool, and of the
drivers that validate migrations, model-checked with TLC, and theorems about
them proved with TLAPS. Paths below are relative to `src/`.

| file | content |
|---|---|
| `Supervisor.tla` | the Go service: workspaces, nodes, restarts, stops, builds, deletions, the E-Stop sweep, shutdown |
| `MCSupervisor.tla`, `MCSupervisor*.cfg` | its instances for TLC |
| `SupervisorProofs.tla` | its inductive invariant and the proofs of all its safety properties |
| `NodeService.tla` | what the service promises to a client, name by name; `Supervisor` implements it |
| `ServiceProofs.tla` | the proof of that |
| `SafetyChain.tla` | the watchdog chain, from an executor's progress pipe to the simulated relay, with time |
| `MCSafetyChain.tla`, `MCSafetyChain*.cfg` | its instances for TLC |
| `SafetyChainProofs.tla` | proofs of the properties that hold without any timing |
| `SafetyTimingProofs.tla` | proofs of its types and of the properties that hold on time |
| `DeadManSwitch.tla` | what a dead-man switch promises to its relay; `SafetyChain` implements it |
| `LogStream.tla` | the log buffer, its WebSocket stream and the page that follows it |
| `MCLogStream.tla`, `MCLogStream*.cfg` | its instances for TLC |
| `LogStreamProofs.tla` | proofs of its type invariant, order and absence of gaps |
| `Reference.tla` | the Python control plane, statement by statement in its threads |
| `MCReference.tla`, `MCReference.cfg` | its instance for TLC |
| `ReferenceProofs.tla` | its inductive invariant and the proofs of all its properties |
| `LegacySafety.tla`, `Migration.tla`, `Turbo.tla` | the Python safety monitor, the Python migration tool, and the command line that runs either |
| `TurboProofs.tla` | proofs of their three properties |
| `Harness.tla` | the drivers of `scripts/`: migration validation, bags, benchmarks |
| `HarnessProofs.tla` | proofs that nothing survives a driver and that a pass is earned |
| `Programs.tla` | one Python program per process: `Turbo` or `Harness` |
| `MCPrograms.tla`, `MCPrograms.cfg` | its instance for TLC |
| `PROJECT.json` | components, runs, mutants, the map from definitions to lines, findings, hazards, theorems |

To repeat a run: `tlc -config MCSupervisorHandlers.cfg MCSupervisor`; to check
the proofs: `tlapm SupervisorProofs.tla`.


## 1. The system

**Supervisor** (`pkg/server/process.go`, `server.go`, `pkg/cmd/turbo/main.go`).
An HTTP service with a goroutine per request. `Server.mu` protects the registry
of workspaces (`items`), their nodes and logs; each workspace also has a
`BuildMu`, held across blocking calls by `build` and by DELETE, and for the
duration of `run`. `run` makes a `Node` and starts a child process in a process
group of its own; a `capture` goroutine per started process (a *generation*)
reads its output, waits for it, and either restarts it after a 100 ms sleep or
closes `Node.done`. `stop` marks nodes, sends SIGTERM, and waits for `done` with
two timers. *Hard:* `stop`, `capture`, `run`, DELETE, the E-Stop sweep and
`Close` interleave at every unlock. *Correct when:* each node has one waiter,
`done` is closed once, nothing told to stop comes back, names are exclusive, a
build is alone in its directory, sweeps miss nobody, and every request ends.

**Safety loop** (`pkg/server/safety.go`). A goroutine ticks every 10 ms, scans
the native nodes for the oldest progress if `TryLock` succeeds (otherwise its
last snapshot ages), sends a datagram with a health bit to the watchdog, and
reads the answer within 20 ms. Any failure latches E-Stop, and the loop then
stops the nodes of every workspace. *Hard:* stale snapshots, deadlines that add
up, loss of the peer. *Correct when:* a stall always cuts the relay in time, and
a healthy system never trips.

**Watchdog** (`crates/rosplus_safety/src/main.rs`). A separate process: reads
packets, checks its deadline before it accepts one, refuses old, future and
replayed timestamps, toggles a simulated GPIO while heartbeats are fresh, trips
and exits otherwise. *Correct when:* a missed deadline is never forgiven.

**Executor progress pipe** (`crates/rosplus_core/src/heartbeat.rs`, `main.rs`,
`captureProgress`). The runtime loop writes a counter to a pipe; a goroutine of
the service notes the time at which it *reads* it.

**Log stream** (`log` in `server.go`, `websocket.go`, `frontend/src/main.tsx`).
Each workspace keeps its last 1000 entries, numbered by `Sequence`. A stream
copies what is beyond its cursor every 250 ms and writes it outside the lock; the
page reconnects after a loss, gets the buffer again and drops what it has shown.
*Hard:* trimming during slow writes, frames lost with a connection, numbers that
start again with the service. *Correct when:* the console is in order, without
duplicates, and skips only what was trimmed.

**Python reference** (`src/rosplus/workspace.py`, `process.py`, `server.py`). The
same service in small: a thread per request, a capture thread per process.
`WorkspaceManager` and `ProcessManager` have a lock each, `create` and `delete`
take the one, `run` the other, everything else none. *Hard:* any two statements
of two threads may be in any order. *Correct when:* a live process can be
reached, a stop that returns has stopped, and no status or lock outlives its
reason.

**Python safety monitor** (`safety.py`, beaten by `server.py` and by
`cli.py safety-demo`). Three threads share flags without a lock. *Correct when:*
it trips if and only if the heart has stopped, and has written its record by the
time it says so.

**Python migration tool** (`migration.py`). Reads a tree, transforms each file,
writes an output tree and at last a report. *Correct when:* the report describes
the tree through failures and restarts, and what is not supported makes a result
partial.

**Validation and benchmark drivers** (`scripts/*.py`). Each starts ROS processes,
exchanges messages, writes a report, and ends what it started; pipelines run it
on both sides and compare. *Hard:* discovery, lost messages, processes that hang
or exit, a step that fails between any two others. *Correct when:* nothing
survives the driver, equivalence is never claimed on short reports, and it ends.

**Other components**, not modelled yet: the workspace store and file API of the
Go service (`server.go`), the cooperative executor (`executor.rs`), the message
pool (`pool.rs`), the plug-in host (`plugin.rs`), the RCL adapter
(`native/rcl_adapter.c`, `ros.rs`). Left aside: graph, usage and templates (pure
functions), the view code of the front end, the Go command line, the text
rewriting of the Go migration tool, `scripts/test_*.py`.

Interactions:

    HTTP client --> Supervisor --fork/SIGTERM/SIGKILL--> children (executors, scripts)
                     |   ^  capture: exits                    |
        Server.mu    |   +---- captureProgress <---- progress pipe
                     v
                 safetyLoop --packet--> rosplus-safety --pulse--> motor relay
                     ^------- reply --------+

The first two models meet at `Safety.estop`: `SafetyChain` says when it is latched and
how fast, `Supervisor` what happens once it is. In `Supervisor` any tick may
latch it; in `SafetyChain` the Supervisor is reduced to the life of a native node
as the loop sees it.


## 2. Supervisor

### State and actions

One variable per field of `Server`, `Workspace`, `Node` and `Safety` that the
control flow reads; `proc` and `waiter` hold the child and the capture goroutine
of each generation, and `pc, ws, sweep, todo, cur, phase` the local state of the
threads (HTTP handlers, `safetyLoop`, the goroutine calling `Close`).

Every section of the code under `Server.mu` is one action, so the mutex itself
does not appear. `Server.stop` is called by four threads; it is the actions
`Mark` (under the mutex), `NodeDone`, `TermTimeout`, `KillTimeout`.

| code | actions |
|---|---|
| handlers: create, run | `Receive`, `Create`, `RunRefused`, `RunAccepted` |
| `capture` | `ProcessExit`, `ProcessDies`, `CaptureExit`, `RestartWake` |
| POST stop | `StopMark`, `NodeDone`, `TermTimeout`, `KillTimeout`, `StopReturn` |
| DELETE | `DeleteMark`, the waits of `stop`, `DeleteRemove` (which may fail) |
| `build` | `BuildBegin`, `BuildRefused`, `BuildEnd` |
| `safetyLoop` | `SafetyTick`, `SafetySnapshot`, `SafetyHalt`, `SweepMark`, `SweepReturn`, `SweepEnd` |
| `Close` | `CloseBegin`, `CloseAdmission`, and the same sweep |

Abstracted: names, targets and environments of a run (the request keeps `mode`,
`restart`, `max`); the reasons for which a run is refused (always possible); a
start that fails in the kernel (the restart then ends the node); logs, PIDs,
JSON. A node object is used once, as in the code, so `Nodes` bounds the accepted
runs. A process may leave at any moment with either outcome and may ignore
SIGTERM; SIGKILL is eventually obeyed, but it may take longer than `stop` waits.

### Runs

| run | shows | states |
|---|---|---|
| `supervisor_handlers` | two clients on one workspace, two names, two nodes, one restart each, `Close` at any moment: `TypeOK`, `OneWaiter`, `DoneClosedOnce`, `OneProcessPerName`, `BuildUndisturbed`, `StoppingFreezesGeneration` | 561 k |
| `supervisor_sweeps` | two workspaces, native nodes, the safety loop and `Close` together: `SweepComplete`, `StatusFaithful`, `StartsAdmitted`, `RestartPolicyKept`, `ImplementsService` | 948 k |
| `supervisor_live` | `EStopQuiesces`, `CloseReturns`, `RequestsAnswered` under `FairSpec` | 80 k |
| `supervisor_delete` | finding 1 below | |

`ImplementsService` is the refinement of `NodeService`: for each name of a workspace
the status and the restarts that `GET` shows of the node last run under it, the
request it was run with, and whether it was told to stop. The abstract service has
no goroutines, processes, generations or locks. It runs a node where none is busy,
lets it fall and rise again within its request until it is told to stop or the
service closes, and ends it once; it trips at any time or at the error of a native
node; it drops a workspace whose busy nodes have all been told to stop. A lost
`stopping` mark, a second process of a name, or a goroutine that still writes to the
node of an earlier run would show there as a step the service has not.

*Bounds.* `MaxRestarts` = 1 (100 in the code): two generations suffice for every
race between an old and a new one, and the theorems hold for any value. Two
clients are the fewest that contend for `BuildMu` or for a name, with the two
sweeping threads beside them. One workspace is enough for what concerns one
workspace; the sweeps use two, so that one is swept while the other still
starts nodes. The liveness run has one workspace and one node, and no symmetry.
Deadlock is checked: the service never stops, `Close` may always be called.

*Fairness* (`Fairness`). A goroutine that can run, runs; timers fire; a killed
process dies. Handlers get strong fairness because they may wait for `BuildMu`,
and `sync.Mutex` hands itself to a waiter after 1 ms (starvation mode). A tick is
obliged only to notice an E-Stop already latched. Nothing obliges a client to
send a request, `Close` to be called, or a process to leave by itself.

### Proofs

All safety properties of the runs are theorems of `Spec` for every value of the
constants (`SupervisorProofs`): `TypeCorrect`, `Waiters`, `DoneOnce`,
`NamesExclusive`, `BuildsUndisturbed`, `SweepsComplete`, `StoppingIsFinal`,
`OnlyAdmittedStarts`, `RestartsFollowPolicy`, `StatusAgrees`, and, in
`ServiceProofs`, `SupervisorImplementsService`. The assumptions are those of the module (`Requests` well formed, threads distinct, `None` apart).

The properties are not inductive: for instance `OneWaiter` survives a restart
only because a node asleep between two generations has no live child, and
`SweepComplete` survives a `run` only because a node started by then belongs to a
workspace the sweep has still to visit, or was refused. `IInv` adds what the code
relies on without saying it:

- `NodeInv`: for each node, how `status`, `gen`, `restarts`, `waiter`, `proc` and
  `closes` go together; a generation is preceded by as many restarts, which bounds
  the generations;
- `TableInv`: `table` finds every active node under its workspace and name, which
  is what makes `Victims` complete and names exclusive;
- `LockInv`: the holder of `buildMu` is the client that deletes or builds; a
  deletion past its stop has marked every active node of its workspace; a node
  active and not told to stop lives in a registered workspace;
- `SweepInv`: when the loop sweeps, `estop` is set, and when `Close` does,
  `closing`; a node active and not told to stop lives in a workspace still in the
  sweeper's list, which is empty at the end.

`Inductive` proves `[]IInv`, one lemma per part and one step per action.
`RestartsFollowPolicy` needs a second invariant, `PolicyInv`: a capture goroutine
asleep before a restart still has its licence (budget, policy, outcome of the
last generation). `StatusAgrees` adds `WSOK`, the invariant of `wstatus`. The
action properties follow from these by a step lemma and one PTL step.

`SupervisorImplementsService` rests on `IInv` and on one fact beside it, that a node
object not used yet has no restarts (`Unused`). `TableInv` is what makes the mapping
work: an active node is the one its name stands for, so a step of its goroutine moves
the entry of that name and no other (`OneMoves`), and `RunAccepted` replaces only an
entry that is not busy (`RunStep`). `LockInv` gives the guards of `Rise` (a node not
told to stop is in a listed workspace) and of `Remove`. `Mark` of any of the four
threads that stop nodes is one `Ask`; every other section of the code is invisible.


## 3. SafetyChain

### State and actions

Time is discrete, in units of 10 ms (the period of the ticker), kept as ages
that saturate where the code no longer tells values apart. `run` is the life of
a native node as the supervisor knows it; `ok` and `failed` are exits that
`capture` has not seen yet. `snap` is the loop's last snapshot, taken or kept by
`LoopTick`; `LoopSend` writes the datagram made of it later, without the lock, so a
node may be started, stopped or lost in between. `packet` and
`reply` are the datagrams in flight; `lead` is `last_timestamp` minus the wall
clock, so that clock steps can be modelled without absolute times. `cause` and
`scanned` (the executors the last snapshot covers) are history variables.

| code | actions |
|---|---|
| executor: `Heartbeat::beat`, exits, stalls | `Beat`, `Leave`, `Stall` |
| supervisor: `run`, `capture`, `stop`, `captureProgress` | `Run`, `Restart`, `Capture`, `Stop`, `Progress` |
| any long holder of `Server.mu` (create, DELETE and graph do file I/O under it) | `Lock`, `Unlock` |
| `safetyLoop` | `LoopTick`, `LoopSend`, `LoopReply`, `LoopTimeout`, `LoopSweep`, `LoopKill`, `LoopStop` |
| `rosplus-safety` | `WdReceive`, `WdIdle`, `WdCrash` |
| time, wall clock | `Time`, `ClockStep` |

One iteration of the watchdog's loop is one action: between `recv_from` and
`send_to` it meets no other process. With `Timely`, `Time` waits for everything
that is due; otherwise goroutines, executors and the watchdog are as late as
they like.

### Runs

| run | shows | states |
|---|---|---|
| `chain_timely` | everything on time, the lock free at the ticks: `StallStopsPulses`, `TripsHaveCause`, `TypeOK` | 861 k |
| `chain_late` | arbitrary delays, crashes, clock set back: `AnswersMatch`, `ImplementsSwitch`, `PulseNeedsHeartbeat` | 2.5 M |
| `chain_live` | the lock held up to 50 ms at a time: `SnapshotConveyed`, and `WatchdogLossLatches`, `StallIsStopped` under `FairSpec` | 136 k |
| `chain_kept` | the same without fairness; finding 3: `HealthConveyed` | |

`HealthConveyed` says that the health bit is that of the executors supervised when it
is written; finding 3 shows the two ways in which a snapshot that was kept is wrong.
What remains true of it is `SnapshotConveyed`: the loop ages the one number it kept, so that an
executor it has scanned and that is still supervised is never vouched for at 40 ms
or more. That depends on every tick of a held lock ageing the snapshot
(the mutant `BugAged`), on nodes that begin again, and on those that are told to stop.

`ImplementsSwitch` is the refinement of `DeadManSwitch`: the abstract switch is
"off" until the first accepted packet, "on", "missed" when the deadline has
passed, "cut" when the watchdog has tripped or crashed; its line is the simulated
GPIO. The abstract specification lets the line move only while the switch is on.

*Bounds.* `Response` = 5 units (50 ms from the last recorded progress to the last
pulse) is tight: `StallStopsPulses` fails with 4. `Callback` = 3 units is the
longest a healthy executor may go between two beats; with the code's limit of
40 ms and 10 ms ticks, `TripsHaveCause` needs this margin (the mutant
`BugProgressLimit` shows it). `LockLimit` is 0 in `chain_timely`:
the response is bounded, and a trip without a cause excluded, only with a
snapshot at every tick. With a lock that is held a start may go unseen and a stop
may trip, which is what finding 3 is about; so these two properties say nothing of
that case. `LockLimit` is 5 units, longer than the 40 ms that matter, in `chain_live`
and `chain_kept`, with one executor. `chain_late` needs
no lock either: there any tick may be as late as it likes; its `VIEW` forgets the two
history variables, which no property of that run reads.
`LeadMin`, `LeadMax` lie one unit outside the watchdog's window.
`Steps` is empty or one step back of 30 ms; `ClockStep` is not taken once `lead`
has saturated, where its size would be lost.

*Fairness.* Time passes and the lock is released; the ticker, the reads and the
watchdog make progress; an executor that did not stall beats. Goroutines waiting
in `Lock` get strong fairness, but `TryLock` gets nothing: with another holder at
every tick it fails for ever. Hence the premise `<>[](held = None)` of
`StallIsStopped`; without it the property is false.

### Proofs

`SafetyChainProofs` proves for every value of the constants, so for any delays,
any clock steps and any number of executors: `AnswersAreMatched`,
`MissedDeadlineTrips`, `PulsesNeedHeartbeats`, and `ChainImplementsSwitch`, that
the watchdog refines `DeadManSwitch` (the initial state maps to the initial
state, each action to one of the switch's or to a stutter; `PulseInv` adds that the line
is up only once the watchdog is armed). The others rest on
`ChainInv == FlightInv /\ ClockInv`: where the loop is determines what is in
flight (at most one datagram, to a live watchdog, only while the loop waits for
its answer or has given up), and the watchdog's clocks keep their types.

`SafetyTimingProofs` proves what `chain_timely` checks, and the `SnapshotConveyed` of `chain_live`. `ChainTypes` has no
hypothesis; the age in a snapshot is the maximum of a bounded set of naturals, which
belongs to the set by well-foundedness (`MaxFacts`). The other
theorems assume what their run sets, and no more:

| theorem | hypotheses | invariant |
|---|---|---|
| `KeptSnapshotsAge` | `Timely` | `SnapInv`: the age in the snapshot is at least that of every executor it covers |
| `StallsStopPulses` | `Timely`, `LockLimit = 0`, `Response > ProgressLimit` | `StallInv` |
| `TripsAreCaused` | `Timely`, `LockLimit = 0`, `Callback < ProgressLimit` | `QuietInv` |

`KeptSnapshotsAge` holds for any `LockLimit`: `SnapInv` counts the time since the
snapshot along with the ages, through ticks that take a new one and ticks that do not.
The other two use `TicksAreFresh`: with `LockLimit = 0` each tick takes a snapshot.

`StallInv`: while the watchdog is up no supervised executor is older than
`ProgressLimit`, and between a tick that found them well and the next unit of time
(`Vouched`) each is younger than that; so in the unit in which one reaches the limit
the packet is unhealthy, and the watchdog is gone before time goes on. It needs
nothing of the executors' period, the clock or the watchdog's own deadline: a clock
step or a crash can only stop the pulses earlier. `QuietInv`: without a cause the
chain is `Nominal`: every executor beats within `Callback`, and the loop is where its
last exchange has put it (`Between` two ticks, a question `Asked`, an answer
`Answered`, or `Closed` by `Close`) with clocks that agree. TLC checks both
invariants with `Steps` empty and with steps of 30 ms both ways. The inequalities are tight: `Response = ProgressLimit` and
`Callback = ProgressLimit` have counterexamples (see Bounds).


## 4. LogStream

### State and actions

One workspace and one page. An entry is its sequence number and an identity, its
place in the whole history, which only the properties read. `logs` is a set: the
order of the Go slice is that of the numbers. `outbox` is what `stream` collected
under `Server.mu` and has not written, `wire` what was written and not received,
`cursor` and `last` the two counters that must agree.

| code | actions |
|---|---|
| `Server.log` | `Log` (with the trimming) |
| DELETE; a stop and start of the service (`New`) | `Delete`, `Restart` |
| `stream` | `Subscribe`, `Collect`, `Hangup`, `Write`; any failure or deadline is `Lose` |
| the page | `Connect`, `Deliver`, `OnClose`; `Reload` when the effect runs again |

A connection the client has given up shares nothing with the next one, so one at a
time is modelled. Left out: the other events (snapshots), the refusal of a wrong
token (no reconnection follows, the page shows nothing), the delay of the timer.

### Runs

| run | shows | states |
|---|---|---|
| `stream` | `TypeOK`, `ShownInOrder`, `NothingSkipped`, and `EntriesArrive` under `FairSpec` | 87 k |
| `stream_restart` | finding 2 | |

*Bounds.* `LogLimit` = `ShownLimit` = 2 and `MaxEntries` = 6: the buffer turns over
three times, also while an `outbox` waits. `MaxFaults` = 3 losses and reloads in any
mix, `MaxRestarts` = 1. `CHECK_DEADLOCK FALSE`: with the bounds used up and the
workspace deleted nothing is left to do.

*Fairness.* Goroutines and timers run, frames on a connection arrive, a lost one
is noticed (the deadlines and the pings see to it). No loss, reload, restart or
entry is obliged to happen; losses and reloads are bounded, for a connection that
is lost for ever before the first frame delivers nothing.

### Proofs

`LogStreamProofs` proves for every value of the constants `LogTypeCorrect`,
`ConsoleInOrder` and `NoGaps`. `LogInv` is `TypeOK` with two parts:

- `OrderInv`: whatever may still be delivered (`Flying` on the wire, `Coming` in the
  outbox or the buffer) and would be accepted is newer than all the page shows, and
  two such entries are in order of age where their numbers are in order. Numbers of
  two runs of the service may well be in the wrong order, but then the page drops
  the newer: `ShownInOrder` survives a restart, `NothingSkipped` does not.
- `NoGapInv`: until a restart, an entry of the buffer up to the cursor has been
  shown, is on the wire, or is in the outbox, and the wire is sorted.


## 5. Reference

### State and actions

`items`, `dir`, `status`, `build_lock`, `nodes` and `processes` are the fields of
the two managers and of `Workspace`; `store` and `table` say who holds their locks.
`pc, op, ws, name, todo, mine` are the locals of a handler thread, `capture` where
the capture thread of a process is. Each statement that touches shared state is an
action, since a thread may be preempted there. `owed` is a history variable: the
processes that were registered for the names `stop` was asked to stop.

| code | actions |
|---|---|
| `dispatch`, `get`, refusals | `Receive`, `Refuse`, `Answer` |
| `create` | `Create` (may fail half way) |
| `run` | `RunLookup`, `RunSpawn`, `RunRefused`, `RunRecord`, `RunAnnounce`, `RunRegister` |
| `_capture` | `CaptureStart`, `CaptureMark`, `CaptureScan`, `CaptureSettle`, `CaptureBreak` |
| `stop` | `StopBegin`, `StopNext`, `StopWaited`, `TermTimeout`, `KillTimeout`, `StopMark`, `StopScan`, `StopSettle` |
| `delete`, `write_file` | `DeleteCheck`, `DeleteTree`, `DeleteForget`; `PutLookup`, `PutWrite` |
| `build` | `BuildLookup`, `BuildTake`, `BuildAnnounce`, `BuildSettle`, `BuildUnlock` |

An exception that `dispatch` does not catch closes the connection; it leaves what
the handler has done, like an answer. `CaptureBreak` is the exception of a capture
thread at bytes that are not UTF-8. Processes are external: they leave when they
like, may ignore SIGTERM, and may take long to die of SIGKILL.

### Run

`reference`: one workspace, one node name, two processes, two handlers, 3.7 M
states with symmetry. Two handlers and two processes make every pairwise race of
statements; the properties speak of one workspace and one name at a time, and the
locks and tables of different ones are not related. Deadlock is not checked: once
both processes are used and the workspace is gone nothing remains to be done.

`LiveIsTracked`: a live process is in the table, or its `run` is about to put it
there. `StopIsThorough`: a `stop` that gets to its end has stopped what it found.
`RunningIsOwned` and `StatusHasReason`: a "running" of a record, or of a workspace,
is owed to a process or to a thread that will look again. `LockHasBuilder`: a build
lock that is set has a builder.

What the model shows of the code besides, and no property claims:

- `DELETE` and `run` hold different locks: a node may be started between the check
  (`workspace.py:71`) and `rmtree`; it then runs on, in the table of processes
  but under a workspace no request can name.
- Two builds of a workspace may overlap: `build_lock` is tested and set in two
  statements (`process.py:24-26`), so the first to end releases it for both.
  `LockHasBuilder` says only that it is never left behind.
- A record is found by name: the end of an old process, or a `stop` of it, may mark
  the record of a newer one that has just been started, which is then shown as
  stopped until it ends.
- A capture thread that breaks leaves "running" for ever (`RunningIsOwned` names
  the exception): the workspace cannot be deleted, and its output pipe is read by
  nobody.
- `PUT` makes the directory of a deleted workspace once more.

### Proofs

`ReferenceProofs` proves for every value of the constants the five properties of the
run, `LiveStaysTracked`, `StopsAreThorough`, `LocksHaveBuilders`, `RunningStaysOwned`,
`StatusKeepsReason`, and the type invariant, `RefTypes`. The only assumption
is `NoneAssumption`: `None` is none of the values it stands beside.

None of the properties is inductive, since none says where a process is recorded.
`IInv` does: `RunInv` holds that between the poll and the registration the lock
keeps the slot vacant, so a registration never displaces a live process; `ProcInv`
that a process with a capture thread is in the table or has ended, and that a
thread which leaves early does so because the workspace is gone; `TableInv` that
the table and the records point at processes started for that very slot; `StopInv`
that what `stop` owes has ended, is still to come or is being waited for, also when
a `run` re-registers the name meanwhile. `LiveIsTracked` and `StopIsThorough` are
read off it. `RunningIsOwned` needs besides that a process is in no record before
`run` writes its own (`NoEarlyRecord`). `StatusHasReason` is inductive relative to
`IInv`: a thread that stops watching leaves a capture thread behind (`SeenFrame`).
One step per action; the two ways to mark a record and the branches of a stop are
factored into lemmas that each part of the invariant uses.


## 6. LegacySafety, Migration, Turbo

### State and actions

`Turbo` is `cli.py`: `command` decides between `LegacySafety` (`serve`,
`safety-demo`) and `Migration` (`migrate`). The two share no state. `Programs` adds the
drivers of section 7: a behaviour is that of one program, and one run checks them all.

In `LegacySafety` time is discrete and kept as the age of the last heartbeat and
what is left of each sleep; a tick waits for every thread that could act, a sleep
may last `Late` longer than it should, and the threads' statements (`Beat*`,
`Watch*`, `HeartStops`, `Disarm*`, `Joined`) interleave otherwise as they like. The
relay and its log are two variables, for `set` tests, assigns and `_write` writes:
both `stop` (`Disarm`, `DisarmTest`, `DisarmCut`, `DisarmRecord`) and the trip go
through it. `Joined` may leave the watch behind, as `join(timeout=1)` does.

In `Migration` a file is the set of the constructs in it that the tool tells
apart; `TransformWarns` and `WalkWarns` say which of them are reported. Options of a
call are of two kinds: those `visit_Call` looks for (any of `init_node`, keywords of
`Publisher` and `Subscriber` other than `queue_size`) and those it does not
(positional ones of `Publisher` and `Subscriber`, any of `Rate`, keywords of a log
call). `Scan`, `Write`, `WriteTest`, `WriteReport` follow `migrate_tree`, `Fail` is any
failure or kill between two of them or in the middle of a write, `Restart` a second
start on the same output. `place` is where the output is, relative to the source;
`layout` is the path of each test file, which may be that of another test or of a
node, since `/` becomes `_` in its name (`migration.py:117`).

### Run

`programs` (1.4 M states, with the drivers): `EStopIsAudited`, `TripsWhenSilent`,
`ReportIsComplete`.

*Bounds.* The times are in units of the heartbeat period, at the edge of
`Punctual`: `Period + Late = Timeout` and `Poll + Late = Grace`,
where an off-by-one in the comparison trips a heart that beats. (The code has 50 ms in
250 ms for the server, 10 ms in 50 ms and 200 ms of grace for the demo; a machine
that is later than this may trip a healthy server, which only `GET /metrics` and
the log of the GPIO would show.) At that edge
`stop` of the demo comes after the trip; what happens when a late switch trips beside
`stop`, or in a server, is left to the theorem `TripIsAudited`, which assumes nothing
of the times. Two files make every order of a failure between
them, two starts every rerun; the contents are all single constructs and pairs with
an import; the four layouts are tests apart, one test for both files, and a test at
the path of the other node, written before or after it. Deadlock is not checked: a
program ends.

`ReportIsComplete` allows for what such a collision does: the later file takes the
place of the earlier, and the report does not say so.

What the model shows of the code besides, and no property claims: a result that asks
for no manual work (`unvalidated`) may list nodes that are not converted. These
pass without a warning: positional options of `Publisher` and `Subscriber`
(`callback_args` becomes `queue_size`, `migration.py:73`), options of `Rate` and
keywords of log calls (lines 74-78), which the helpers do not take; `import rospy.msg`
and the like (neither `visit_Import` nor the walk looks at a submodule of rospy); and a
block whose only statement was the import (`ast.unparse` then writes a body that is
empty). And
whatever the result, `turbo migrate` exits with 2: no status is "success".

### Proofs

`TurboProofs` proves the three properties for every value of the constants.

- `TripIsAudited`: by `EStopInv` the log only grows, the relay is HIGH only as long
  as there is no watch that has tripped, and the record of the trip precedes the
  latch; no assumption on the times is needed, so this holds however late the
  threads are.
- `TripsOnlyWhenSilent`: `MonitorInv` relates the four clocks. By `BeatInv` the
  heartbeat thread sleeps at most `Period + Late` since the last beat as long as the
  heart is on; by `WatchInv` and `DemoInv` what the watch has read and what is left of
  its sleep and of the demo's agree with the age. The theorem assumes
  `Punctual` (without it TLC finds a trip while the heart beats) and
  `Duration > 0`. With `safety-demo --duration 0` TLC finds a counterexample when
  `Poll + Late = Grace`: the heart stops at once, and the last sleep of the watch and
  the grace of the demo end in the same instant.
- `ReportsAreComplete`: by `ReportInv` there is no report while files are written,
  since the output was empty when the tool began, and what has been written so far
  is what it has listed, wherever the tests go. `FilesAssumption`: the test of a
  file is not at the path of its own node.


## 7. Harness

### State and actions

A driver is a straight line of calls with a `finally`, so each is given as a
sequence of steps (`ScenarioRos1`, `PubSubRos2`, `BagReplay`, `DdsMain`, ...), read
off its script, and the actions say what a step may do: start a process and list
it, wait for something until a deadline, notice an exit, publish, call, report.
`Cleanup` is the order of the `finally` clause. `OtherSide` and `Compare` are the
pipelines: the driver again on the other side, then the comparison of the reports
(`TimerBehaviorMatches`, `ValidationMatches`, `CompatibilityMatches`).

ROS is external: `Discover` joins the two directions of a pair in any order,
messages sent before that are lost, later ones arrive in order; the streams of a
timer, a talker and a benchmark may also lose some. Nodes exit, hang or never
answer; a Ctrl-C may come at any wait of the body.

### Run

`programs`, all eleven tasks (271 k of its states): `NoSurvivors`,
`EquivalenceIsEarned`, and `HarnessEnds` under `Fairness`, which concerns the drivers
only.

*Bounds.* `MaxSent` = 6 messages of a source, one more than any driver collects, so
that a first message may be lost. A capture wants 10 messages in the code and a
benchmark 10000, here 2; its load is one worker instead of four.

*Fairness.* The driver runs, its deadlines pass, and a process that was sent
SIGKILL dies. Nobody promises that a node answers, that ROS delivers, or that
anybody presses Ctrl-C; so `HarnessEnds` holds by deadlines alone, except for
waits that have none (`Unlimited`): `getPid` of a master that is alive but has
yet to answer (`validate_migration_scenario.py:54`, `capture_migration.py:31`), since
the deadline is looked at only between two of those; `rospy.init_node` while there
is no master (`:63`, `:36`); the service call of ROS 1
(`validate_migration_scenario.py:92`) while its node is alive; and the exit of
`benchmark_dds.py` when it fails before its `try` and joins the load it started.
`HarnessEnds` says that a driver that does not end is for ever in one of these (`Stuck`).

Two windows of `NoSurvivors` are in the code: the node of a bag is listed only
with the recorder (`validate_recorded_bag.py:60-62`), and the load of a benchmark is
started before the `try` (`benchmark_dds.py:37-40`). Not modelled: a second Ctrl-C
in the `finally` clause, grandchildren of a process that has exited, and the
pipes of `stderr`, which nobody reads while a node runs.

### Proofs

`HarnessProofs` proves `NothingSurvives` and `PassesAreEarned` for every value of the
constants, so for any number of messages and for deadlines that pass at any moment.
`PlansAreSound` says once what each of the driver programs guarantees by its
text (the report is its last step, a process is listed as it is started but for the
node of a bag, each wanted output is awaited, ...), program by program; the invariants then
speak of a sound program, not of eleven.

`SurvivorInv`: the processes that exist are those the steps taken so far have started,
and one that runs is on `listed`, later in `left`, until its exit has been waited for;
the two windows above are its only exceptions. `EarnedInv` adds what is known
of the messages: what is collected, on its way out and on its way in are inputs of
the driver in order, with gaps (`FlowInv`), of which it has sent no more than it has
passed steps that send (`SentInv`). So if it has collected as many as it has sent,
none was lost and the report is the expected one. `ResultInv` carries that through
the end of the driver and over to the comparison. TLC checks both invariants on the
instance of the run. `NothingAssumption`: no report is `Nothing`. The theorems are about
`HarnessSpec`, of which a driver in `Programs` is a behaviour.


## 8. Findings and known limits

1. **A deleted workspace may still have a live process** (`supervisor_delete`,
   `process.go:363`). `stop` gives up three seconds after SIGTERM and reports the
   node as stopped, then DELETE removes the directory. `openapi.yaml:161` says
   "Stops all running nodes before deleting the workspace."
2. **Logs are dropped after a restart of the service** (`stream_restart`,
   `frontend/src/main.tsx:173`). `Sequence` starts again from zero, the page keeps
   `last` across reconnections. `docs/specifications/design-original.md:269` says
   "WebSocket connections deliver log streams".

3. **The health bit is that of an old snapshot** (`chain_kept`, `safety.go:93`). While
   `TryLock` fails the loop uses its last snapshot. That says nothing of an executor
   started since, which is reported healthy for as long as the lock is held, whatever
   it does (the trace of the run). It also keeps an executor that was told to stop
   since (`safety.go:101`), and ages with it until E-Stop is latched: with the second
   half of `HealthConveyed` by itself TLC finds that trace. `docs/DESIGN_DECISIONS.md:22`
   says "Go requires every running native executor to have progress newer than 40 ms
   and conveys that health bit to the independent monitor every 10 ms" and "Intentional
   shutdown removes the node from the liveness set before SIGTERM."

Finding 3 needs `Server.mu` to be held by others at four ticks in a row or
more, which file operations under the lock (DELETE of a large tree) can do. The
limits of the Python code are in sections 5 to 7.


## 9. What is only model-checked, what is not modelled

Liveness (`EStopQuiesces`, `CloseReturns`, `RequestsAnswered`,
`WatchdogLossLatches`, `StallIsStopped`, `EntriesArrive`, `HarnessEnds`) is
model-checked only: liveness under fairness and ENABLED are out of the prover's
reach. Every other property of a passing run is the statement of a theorem.

Not modelled: contents of logs and files, HTTP parsing, authentication, crashes
of the service other than for the log stream, reuse of process ids, rotation of
the watchdog's log, a progress pipe per generation, the trimming of
`Workspace.logs` in Python (two threads may trim twice), iteration over a
dictionary of Python while another thread inserts (an exception that ends the
request), and the components of section 1 listed as such. `PROJECT.json` lists under
`hazards` what each could get wrong.


## 10. Plan

In this order:

1. `WorkspaceStore`: create, persist, DELETE, PUT of the Go service, and a crash
   between any two of their steps, then `New()`; orphan children of the crashed
   service.
2. `Runtime`: `Executor` (budgets, three overruns, shutdown once), `Pool`
   (leases, exhaustion, statistics) and the plug-in host that uses both.
3. One progress pipe per generation in `SafetyChain`; rotation of the watchdog's
   log.
4. `RclAdapter` (partial initialisation), the choice of edits in the Go migration
   tool.
