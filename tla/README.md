# Galatea-rs in TLA+

A verification development of Galatea-rs, an endpoint detection and response
system for Windows written in Rust: a kernel driver that freezes new processes,
a user-mode agent that decides whether they may run, and a server that manages
agents. The modules here model the parts of it whose correctness depends on the
order in which things happen; TLC checks them on small instances, and TLAPS
proves their safety for every instance: of the freeze gate, the event path, the
scan cache, sensor and agent with time, the fleet, the file telemetry, the hooks,
and both pipes between the agent and its clients.

Paths below are relative to `src/endpoint` unless they begin with `server`.

| Files | What they are |
|---|---|
| `ScanGate.tla`, `FreezeGate.tla` | the freeze gate of the kernel sensor, and what it promises, without lists and APCs |
| `InvertedCall.tla`, `EventChannel.tla` | how events reach the agent, and what that path promises |
| `SensorProofs.tla` | proofs about both parts of the sensor |
| `StaticAnalysis.tla` | the scoring pipeline of the agent, as functions |
| `ScanCache.tla`, `MCScanCache.tla`, `ScanCacheProofs.tla` | concurrent scans of one file that share results, and proofs |
| `Endpoint.tla`, `EndpointProofs.tla` | sensor and agent together, with time: two limits that race, and proofs |
| `HookInstall.tla`, `HookInstallProofs.tla` | the hook DLL inside a process, the process's threads, and proofs |
| `Fleet.tla`, `MCFleet.tla`, `FleetProofs.tla` | the server: agents, commands, telemetry, and proofs |
| `FileTelemetry.tla`, `MCFileTelemetry.tla`, `FileTelemetryProofs.tla` | the kernel filter, its port, and the agent's file contexts, and proofs |
| `ClientView.tla`, `ClientViewProofs.tla` | detections on their way to the list in the client's window, and proofs |
| `Snapshot.tla`, `SnapshotProofs.tla` | the command pipe: file contexts on their way to the window, and proofs |
| `*.cfg` | one run of TLC each, see *Runs* |
| `PROJECT.json` | components, runs, mutants, source lines of every definition, findings, hazards, theorems |

## 1. Inventory

### How the parts interact

```
process/thread creation ──notify──▶ kernel sensor ──IOCTL_GET_EVENT──▶ agent main loop
                                        ▲                                   │ worker pool
                                        │                                   ▼
                          IOCTL_SEND_VERDICT ◀────────────── analyze_event: scan cache,
                                                             signature, Authenticode, ML, PE
file operations ──▶ kernel filter ──filter port──▶ agent: file contexts
agent ──named pipe: detections──▶ client        client ──named pipe: commands──▶ agent
agent ──LoadLibrary in an allowed process──▶ hook DLL: system call stubs patched
agent ──HTTP: register, heartbeat, telemetry, ack──▶ server
```

A process creation takes a request id in the sensor and becomes an event. The
first thread of the process gets an APC that waits up to five seconds. The agent
takes the event from its one outstanding call, a worker scans the image, and the
verdict travels back by request id. The APC resumes the thread or terminates the
process.

### Components

**Kernel sensor: freeze gate** (`galatea-kernel-sensor/src/apc.rs`,
`callback.rs`, `lib.rs`).
*State:* `TARGET_PIDS` (processes to freeze), `PENDING_SCANS` (frozen requests,
each with its verdict and a pointer to the event in the APC's context),
`VERDICT_CACHE` (verdicts that found no scan; at most 1024, for ten seconds),
`APC_COUNT`, `REQUEST_ID_COUNTER`; each list has a spin lock of its own.
*Operations:* process and thread notifications, `inject_freeze_apc`, the APC's
normal and rundown routines, `apply_verdict`, `driver_unload`.
*Hard:* verdicts before, during and after the freeze; a thread that dies before
its APC runs; a PID that is reused; timeouts; unload while threads are frozen;
scans found by PID in one place and by request id in another; two locks taken one
after the other.
*Correct when:* nothing is let go without an allow verdict or the timeout; a
verdict reaches the process it is about; a request freezes once; every frozen
thread is released; unload waits for every APC; the cache is bounded and truthful.

**Kernel sensor: event path** (`callback.rs` `notify_agent`, `ioctl.rs`,
`lib.rs`).
*State:* `PENDING_IRP` (the one held call), `EVENT_QUEUE` (at most 1000),
`AGENT_PROCESS`.
*Operations:* get event, register, send verdict, cleanup of a handle, cancel
routine, notification, load and unload.
*Hard:* four code paths claim the held call; the queue and the call have locks of
their own; crashes and restarts of the agent; a second instance.
*Correct when:* the held call is completed exactly once; each event is delivered
once or counted lost; only the registered agent is served; a process that dies is
not kept alive by its call.

**Agent: static analysis and its cache** (`galatea-agent/src/static_analyzer`,
`cache/static_analyzer_cache.rs`).
*State:* `completed` (path to result), `in_progress` (path to barrier), one
barrier per scan.
*Operations:* `analyze_event`, `try_acquire_scan`, `complete`, `abort`, wait.
*Hard:* workers that share one scan; a barrier that times out or fails; a file
replaced between any two of the six times the agent opens it; two waits for a scan
that outlast the kernel's one.
*Correct when:* one scan per path at a time; the slot always comes back; no wait,
timeout or second try allows a process; a shared or cached verdict is the one a fresh
scan would give. A hash or a look-up of a signature that fails counts as nothing found,
so that the scan itself fails open; that is a finding.

**Agent: probes and engines** (`authenticode.rs`, `ml.rs`, `packers.rs`,
`db.rs`): calls into libraries; no state shared between them.

**Agent: start-up and main loop** (`main.rs`): start the driver, register, loop
over events, hand them to workers, leave on any error. A panic in any thread ends the
process, for the workspace is built with `panic = "abort"`.

**Agent: file contexts and minifilter listener**
(`cache/file_context_cache.rs`, `communication/driver/io.rs`).
*State:* contexts keyed by file index or path, at most 10 000. *Operations:* apply
telemetry, evict, snapshot. *Hard:* two names for a file, lost messages, names
that change while a message is on its way, eviction under load, a listener that
ends on its first error, names that are parts of paths. *Correct when:* the flags in
the context of a file come from that file. That the path in it is the file's cannot be
had: names are copied raw, and a moved directory or a link is not told of.

**Kernel filter** (`galatea-kernel-filter/src`): file operation callbacks that
send telemetry over a port with one connection, with a zero timeout. *Hard:*
connection, disconnection and unload while callbacks send; the connection and the
process behind it are two globals without a lock. *Correct when:* the agent's own
file operations are never reported to it, and callbacks never block.

**Agent: IPC server** (`communication/ipc/ipc_server.rs`).
*State:* the channel of detections, the list of client pipes, the instance being
listened on. *Operations:* accept, broadcast, remove dead clients, and, on a second
pipe, answer a request for file contexts. *Hard:* blocking writes, clients that
leave at any moment, removal by index; one thread and one pipe instance for all
requests, and a disconnection that discards an answer not yet read. *Correct when:*
no client misses or loses anything because of another, and an answer is whole or an
error. A write that fails although the client is there costs that client the detection.

**Client** (`galatea-client/src`).
*State:* the connection, two bounded lists (visible, and held back while paused),
file contexts. *Operations:* connect, read, tick, pause, expand, refresh. *Hard:*
lists cut at both ends and merged, reconnection. *Correct when:* what is shown is
the newest of what was received, in order, contexts never go back in time, and no
request loads for ever. (`selected_detection` is never set: no
view sends `DetectionSelected`.)

**Server: fleet and commands** (`server/babel-server/src/db`, `routes/api.rs`,
`main.rs`). *State:* tables of agents, commands and events. *Operations:*
register, heartbeat, telemetry, acknowledge, queue a command, stale-agent monitor.
*Hard:* requests are several database calls each with a connection of its own;
responses get lost; heartbeats overlap. *Correct when:* a command reaches its
agent once, or is known to have been lost, and a completed command stays completed.

**Userland hooks** (`galatea-userland-hooks/src`, `galatea-agent/src/injector.rs`).
*State:* the bytes of two system call stubs, `SYSCALL_NUMBER`, the suspended threads.
*Operations:* `inject_dll`, `DllMain`, `init_hooks`, the two hooks. *Hard:* threads
that run through a stub while it is overwritten, that start after the snapshot, that
are suspended with the lock of the heap or of the loader held, that cannot be opened; a
process whose first thread is frozen; a stub another product has changed. *Correct when:*
no thread that was caught runs a half-written stub, and every thread is resumed as often
as it was suspended.

**Server: web pages, secrets; ML training**: not modelled, see section 6.

`PROJECT.json` lists under "hazards" what can go wrong in each of these at which
line, and the property that would notice.

## 2. Modules and the code

### ScanGate

One process instance is named by the request id its creation took, and the APC
injected for a request by the same id; `host[r]` is the process whose thread the
APC runs in, which differs from `r` after a PID has been reused. One action is one
critical section, or one kernel call whose outcome the code acts on.

| State | Code |
|---|---|
| `target`, `pending`, `cache`, `apcCount`, `nextRequest` | `TARGET_PIDS`, `PENDING_SCANS`, `VERDICT_CACHE`, `APC_COUNT`, `REQUEST_ID_COUNTER` |
| `stage[r]` | how far `inject_freeze_apc` / `apc_normal_routine` / `apc_rundown_routine` have come for r; the context is allocated in `Live` |
| `signaled` | requests whose `FreezeApcCtx.event` is set |
| `cause[r]`, `outcome[r]` | status of `KeWaitForSingleObject` or the early exit; `should_terminate` |
| `verdict[r]`, `missed` | verdict sent; r is between the two locks of `apply_verdict` |
| `pid`, `life`, `held` | the processes, and `GalateaEvent.frozen` |
| `driver` | progress of `driver_unload` |

| Action | Code |
|---|---|
| `CreateProcess`, `ThreadNotify` | `process_notify_routine`; `thread_notify_routine` up to the end of the first section of `inject_freeze_apc` |
| `InsertApc`, `InsertFails`, `Reclaim` | `KeInsertQueueApc` and what follows a failure |
| `Die`, `Exit`, `Rundown` | process end; `apc_rundown_routine` |
| `EarlyCheck`, `EarlyUnlist` | `check_early_verdict`, called with the PID; removal of the scan |
| `Wake`, `Interrupt`, `Timeout`, `Collect` | the wait and its three ends; removal of the scan and decision |
| `Release`, `Terminate` | context freed and count decremented; `ZwTerminateProcess` |
| `SendVerdict`, `CacheVerdict` | the two sections of `apply_verdict` |
| `BeginUnload`, `FinishUnload` | `driver_unload` before and after its loop |

The target is taken and the scan listed in one action although two locks are
taken: between the two the request is a local variable of a notify routine that
nobody else can reach by its PID or id, and a verdict in between is the verdict
before `ThreadNotify`. Time is not modelled: the timeout may come at any moment of
the wait and a cache entry may expire at any moment. The scan entry of an APC
that was run down keeps a pointer into freed memory; setting it is not modelled as
memory corruption, but the entry is kept.
Identifiers are `u64`, which no run of the system exhausts; PIDs and request ids
are both numbers, because the code compares one with the other.

### FreezeGate

What the gate promises of a request: the process it freezes is held at most once for it,
resumed because a related request was allowed or its time was up, ended because it was
not allowed, or somebody else cut it short, or the gate was closing. Nothing is promised
of the holds of one process: a process whose PID is that of an older request, left
behind in `TARGET_PIDS`, is frozen for that one and for its own. `Related` names what
the code does not keep apart: requests whose PIDs are equal, or the PID of one and the
id of the other. `ScanGate` implements it (`ImplementsGate`), with `gate` read off the
stage and the outcome of a request, `expired` and `cut` off `cause`, and `over` off
`driver`. `Endpoint` uses it in the gate's place.

### InvertedCall and EventChannel

A client is an instance of the agent; it opens two handles and has at most one
call. `pendingIrp` is `PENDING_IRP`; `call[c]` says whether the call is held (its
cancel routine set), cancelling (the I/O manager has taken the routine, which has
yet to run), or completed; `device` is the driver itself, so named, like `CallInit`,
`CallNext` and what else begins with Call, because `SensorProofs` extends this module
and `ScanGate`. `Notify` and `Enqueue` are the two critical sections of
`notify_agent`; `GetEvent`, `Register`, `Cleanup` and `CancelRoutine` are the
handlers of `ioctl.rs`; `Start`, `Return` and `CloseHandle` are `main.rs`; `Crash`
and `Cancel` are the system's. `StartFails` is a load after an unload, which the
symbolic link left behind makes fail.

`EventChannel` is what the path promises: an event is created, then given to one
call or kept waiting, and what has been given or lost stays so. `InvertedCall`
implements it with `waiting` as the events on their way to the queue or in it, and
`lost` as the discarded ones.

### StaticAnalysis and ScanCache

`StaticAnalysis` translates the four stages and their scores: what the probes find
in a file (`Findings`) determines `Analysis(f)`. The model's stage never blocks by
itself, and a stage runs unless an earlier one has blocked.

`ScanCache` is `analyze_event` for the frozen processes of one image path; paths
share only the worker pool. A *version* of the file is a time stamp with size, an
index, and findings; stamp and index together determine the content
(`IdentityAssumption`), as a file system that never reuses an index within a time
stamp provides, and no single one of the two does. The file may be replaced
between any two steps of a request. A scan is named after the request that owns
it. Each probe reads the file anew, as the code does, and each may fail. The
barrier's time limit may come at any moment. `disturbed` is auxiliary: requests
during whose work the file changed or a probe failed; `source` is auxiliary too.

Left out: events of processes that are not frozen (no scan, no verdict), the hook
injection after an allow verdict (`HookInstall`), canonicalization of the path, the
branches for a poisoned mutex and for a guard dropped by a panic (a panic aborts the
process), and the fields of a result that only the user interface shows.

### Endpoint

The sensor and the agent in one state machine whose clock ticks in seconds. The gate
is `FreezeGate`, with `left` the seconds a held process has; `queue` is `EVENT_QUEUE`,
`pool` the channel to the workers; `at[r]`, `waits[r]`, `barrier[r]` and `patience[r]`
are what `analyze_event` does for r that takes time: waiting for a worker, for the
scan of another, and its own scan. `call` is `PENDING_IRP`. `Create` and `Enqueue` are the
two critical sections of `notify_agent`: the first completes a held call with the event;
if none is held, the second queues the event, although the loop may have called again in
between, and then the event stays in the queue until the next creation completes that
call. `Freeze`, `Verdict` and `Timeout` are the APC. `GetEvent` is the event loop, which
takes the first event of the queue or leaves its call to be held; `Start`, `Acquire`,
`Woken`, `GiveUp`, `Complete`, `AbortScan` and `Answer` are `analyze_event`.
`AgentStops` is the loop's end or a panic. A tick comes only when everything the code
does without waiting is done, so that a second that passes is one the code spends; an
event in the queue beside a held call is not something that can be done. A scan may take
any time, or never end. All processes have one image, the case in which workers wait for
each other. `late`, `stranded` and `spent` are auxiliary: held while the event waited for
a worker, held while it stood in the queue, and the seconds of the own scan.

### Fleet

One action is one database call of a handler of `routes/api.rs`: `Register`, `Upload`
and `Ack` are handlers with one, a heartbeat is `Beat` (`update_heartbeat`), `Query`
(`get_pending_commands`), a `Mark` for each command (`mark_command_delivered`, whose
failure the handler ignores), and `Reply`, the response, which may be lost. `Monitor` is
one round of `mark_stale_agents_offline`. `row` and `owner` are the table of commands,
`status` and `age` that of agents (`age` is the time since `last_heartbeat_at`),
`stored` that of events; `Restart` leaves only these. `got`, `lost` and `excused` are
auxiliary: what agents were given, what lost responses held, and which commands a failed
mark or two overlapping heartbeats excuse. Nothing in the repository creates a command,
so `Put` is external. The agent of the repository does not poll for commands yet;
`Reply` and `Ack` use what the API definition says of a client.

### FileTelemetry

`PostCreate`, `PreWrite`, `PreRename` and `Delete` are the callbacks of the filter;
`Create`, `Rename`, `Link`, `MoveDirectory` and `Close` are what the file system does
around them or without them: of a deletion, a hard link and a directory that is renamed
above a file, nothing is told. `io[p]` is the one file a process has open, with the name
in its file object, which the callbacks copy (`FILE_OBJECT.FileName`). That is a path,
or a part of one: a name relative to a directory, or the first 259 characters of a
longer one. So is the target of a rename, which `PreRename` takes from the buffer as it
stands, without its `RootDirectory`; a buffer too short for its name is not reported,
and the rename is refused. The agent reads a part as some other path, or as none
(`Meant`, `Read`); that path has the same extension, for it ends in the same letters.
`Send` has a zero timeout, so it reaches a listener that stands in `FilterGetMessage`
(`listener = "get"`) or nobody. `client` and `agentPid` are `CLIENT_PORT` and
`AGENT_PID`: `Start` and `Connected` are the two assignments of `connect_notify`,
`Disconnect` and `ClientGone` the two of `disconnect_notify`. `GetFails`, `Resolve`,
`Entry` and `Write` are the steps of the listening thread for one message, `Evict` the
cache's own.

`did` is auxiliary: the flags that what was done to a file, by the names it was done
under, may give it. What a context says of the path of its file is in the model but in
no property: for the reasons above it may be any. One volume is modelled (indices of two
volumes collide; see the findings). Left out: what is reported of directories
themselves, fields of a context that are only shown, functions that nothing calls, and
the snapshot, which changes nothing here (`Snapshot`).

### ClientView

Detections are numbered as the scanner sends them; the server's channel holds
`last + 1 .. sent`. `Listen` and `Accept` are the accept thread, `Register`, `Recv`, `Write` (one
client) and `RemoveDead` the server's loop, `Connect`, `Read` and `Broken` the client's
reader, `Tick`, `TogglePause` and `Expand` messages of the window. A write waits while
the pipe is full; one that fails although the client is there (`WriteFails`) is logged,
keeps the client, and skips the detection for it. The client's end of the pipe is in
byte-read mode, so a read takes everything there is, and two detections read at once are
lost (`Parsed`). `AgentStops` closes all handles of the agent; what is in a pipe can
still be read. `seen`, `got` and `failed` (the detections whose write to a pipe failed)
are auxiliary.

### Snapshot

`server` is the one thread of `run_command_server`: `Create`, `Connected`,
`ReadRequest`, `NextEntry` (one entry of the cache, or one evicted meanwhile),
`Answer`, `Write` (the length, then chunks, here one for each entry), `Disconnect`
and `CloseServer`. `serving` is the request whose client has opened the instance.
`request[r]` is a thread of `request_file_context_snapshot`: `Open`, `WaitEnds`,
`Ask`, `Read`, `ReadFails`, `Close`; `Loaded` is the window's message. What is in the
pipe (`data`) is lost by a disconnection and kept by the end of a process. `Quit` and
`Stall` are a client that ends and one that is suspended with its handle open.
`changes` and `made` are auxiliary: how often each context has changed, which is what an
entry carries, and how often all of them together, which bounds it.

### HookInstall

`Inject` is `inject_dll`, `DllMain` the DLL's entry, and the steps of the thread it
starts are `Attach` (a new thread passes the loader), `Snapshot`, `Suspend`, `Push`,
`OpenFails` and `Dismiss` (a message box), `Resolve` and `FillMap` (`StubAddresses::new`),
`ReadNumbers` and `KeepNumbers` (`SYSCALL_NUMBER`), `Protect`, the overwriting of a stub
byte range in two steps, `Revert`, and the resumption. The threads of the process
(`AppStep`) call stubs, return from them or from a hook, take and give the locks of the
heap and of the loader, start others, suspended or not, resume those, and end. A
suspended thread stops some time after the call that suspends it. `Unfreeze` is the
freeze gate's verdict or timeout on the first thread. `OpenThread` may fail for any
thread of the snapshot, alive or not; who is not opened runs on and is no longer `caught`.
Every step of the DLL that allocates needs the heap's lock, and every step that looks for
a module or a procedure, or shows the message box, needs the loader's, which the loading
thread holds while `DllMain` runs. A stub overwritten half is "torn"; a thread that runs
into it goes "astray".

## 3. Runs

| Run | Instance | Shows |
|---|---|---|
| `gate` | two requests, ids 3 and 4, PIDs 4 and 8, cache of one | type and four safety properties, `FrozenReleased`, `UnloadCompletes`, refinement of `FreezeGate` |
| `inverted` | three clients, three events, queue of one | one owner of the held call, exits complete, refinement of `EventChannel` |
| `scan` | three requests, two workers, one replacement, three versions | one scanner, waits and retries do not allow, verdicts fresh |
| `endpoint` | three processes, two workers, queue of one, limits of 2 seconds and 1 | why a process may time out, every event that reaches the loop is answered |
| `hooks` | the first thread, the loading thread, one more | caught threads never run a torn stub; the installation ends, but for stuck locks |
| `fleet` | two agents, two commands, two events, two heartbeats at once | commands handed out once and not lost unnoticed, completed ones stay so |
| `telemetry` | a process and the agent, two files, two paths and a part of one, three operations, room for one context | the agent's own files unseen, flags earned |
| `client` | one client started up to three times, three detections, a list of two | nobody skipped but by a write that failed, no live client given up, the newest shown, reconnection, the channel drains |
| `snapshot` | two clients, two requests, two files, two changes, one restart of the agent | answers whole or an error, never older than what is shown, loading ends |
| `gate_early` | as `gate` | finding: the early verdict is looked up by PID |
| `scan_waiter` | two requests | finding: a waiter takes the verdict on a file that was replaced |
| `deadline` | three processes, the limits of the code, 5 and 4 seconds | finding: two waits of the agent outlast the kernel's one |

Deadlock is not checked: each instance is finite and ends when its requests,
events or clients are used up.

**The bounds.** `gate`: the interesting interference is between two requests: two
processes with different PIDs, with the same PID one after the other, and with a PID
equal to the other's request id (4 is both), which is the case in which the early exit
finds an entry at all. A cache of one is full with the first entry, so an insertion
evicts, and entries expire; that an entry is updated takes a larger one, and is left to
the theorem `CacheIsFaithful`. The theorems of section 5 cover the rest. `inverted`:
three clients give a running agent, a refused second instance and a successor; a queue
of one is full while a second event is between the two sections and a third is created.
`scan`: an owner, a request that waits for it and fails, and a third that takes the slot
in between, which the retry of `analyze_event` is about; more than two at work at once
add only further waiters, and the third runs when one has left. One replacement at any
point separates any two accesses to the file. Of the three versions the first two agree
in their stamp and the last two in their index, so that each comparison alone would
accept a wrong file; one scores exactly the threshold, one only by signature and
certificate together, one is pushed over it by the last stages after a trusted signature
lowered it. `fleet`: two heartbeats of one agent overlap, or of two agents; two commands
make a batch that is marked in two steps, so that one mark may fail. `Timeout = 0` makes
an agent stale after one tick: only whether an age exceeds the timeout matters, and the
monitor still meets agents on both sides of it. `telemetry`: a second file has no index
and is known by its name; the part of a path is read by the agent as that of a temporary
file; three operations allow a creation, a rename and a write, with a link or a moved
directory in the place of one; two contexts do not fit, so any may be evicted. One
process has one file open at a time and may turn to the other; that several processes
overlap is left to the theorems. `endpoint`: two workers and three processes let one
scan, one wait, and one stand behind both; a queue of one drops an event, and is enough
for one to stand beside a held call; the limits are scaled so that, as in the code, one
wait fits into the kernel's and two do not. `hooks`: one thread besides the two that
have a part of their own, which may be started at any time, before the snapshot or after
it, and alone may take both locks (`Locker`); the first thread calls the stub that
allocates, and the loading thread holds the loader's lock. `snapshot`: a request that is
served and one that waits, of one client or of two; answers of two chunks, of which the
pipe holds one. `client`: three starts give two dead pipes before a live one, the least
at which removal by index can go wrong; three detections overflow both lists of two and
a pipe of two. Pipe instances exceed starts by one, so that there is always one to
create, as in Windows. `starts` counts those of the agent too, which bounds the client's
channel.

`fleet` uses symmetry (agents, events and connections), which is sound because its
properties are invariants and action properties and the definitions treat the members
alike.

**Fairness.** In `ScanGate`, weak fairness of the injecting thread, of the frozen thread
(its wait has a timer, so a step of `ApcStep` is always enabled) and of the unloading
thread, which the kernel schedules. Nothing is assumed of the agent: a verdict may never
come. A rundown, a death and an exit are not assumed either. `FrozenReleased` therefore
rests on the bounded wait alone. In `Endpoint`, weak fairness of the kernel's steps, of
what the event loop and the workers do without a scan, and of time, each taken as a
whole: requests are few and each takes few steps, so nothing need be assumed of a single
thread. A scan may hang for ever, and `EventAnswered` holds nevertheless for whoever
waits for it. In `Snapshot`, weak fairness of the server's thread and of each request's;
the wait for a busy pipe ends by itself, and nothing else has a time limit, which is why
a suspended client holds the server up and `LoadingEnds` still holds of the others. In
`HookInstall`, weak fairness of a thread's return from a stub or a hook, when it can
run; strong fairness of giving back each lock, for a thread is suspended and resumed
while it has it; and strong fairness of the installing thread together with the user who
dismisses the message box, which gets a lock that is free again and again. In
`InvertedCall`, weak fairness of the I/O manager's cancellation, the cancel routine and
the closing of handles of a process that ends, which the kernel performs for it, and of
a notify routine between its two sections; nothing is assumed of agents. No liveness is
claimed for `ScanCache`: that a slot comes back is `OneScanner` (a slot is occupied
exactly while its owner is at work). In `ClientView`, weak fairness of the agent's two
threads, none of whose writes has to fail or to succeed, of the client's reader and of
its tick, each of which is a loop around a call that returns: `Reconnected` and
`QueueDrains`. A client whose process is suspended would hold up the broadcast for ever;
fairness of the reader excludes it. Weak fairness of `Connect` is enough for one client;
among several, one may be passed over each time. None is claimed in `Fleet` and
`FileTelemetry`, where agents and messages may always get lost.

## 4. Properties

Each property stands below the specification of its module with a comment. The
ones to read first:

- `FailClosed`: a process that goes on without a timeout has an allow verdict
  behind it, for a request with its PID or for the request whose id equals its PID.
  This is as much as the code guarantees: scans are removed by PID.
- `VerdictHonoured`: where neither coincidence occurs, it is the verdict on this
  very request.
- `ImplementsGate`, `ImplementsChannel`: the lists, locks and APCs of the sensor do
  what `FreezeGate` and `EventChannel` promise; in particular each request holds
  its process once, and each event is given once or counted lost.
- `PendingIrpHeld`, `ExitCompletes`: whatever the order in which a notification, a
  cleanup and a cancellation reach the held call.
- `AllowNeedsScan`, `VerdictFresh`: no way through waits, timeouts and retries
  allows a process without a completed scan, though a scan is complete also when a probe
  of it has failed and counted as nothing found; and the verdict reached by
  way of the cache is the one a fresh scan would give, unless the file changed or a
  probe failed under the request or under the scan it relies on.
- `TimeoutHasReason`, `EventAnswered`: the seconds a process waits against those the
  agent spends, and a worker whose scan never ends. An event queued beside a held call is
  a reason of its own for a timeout, and is answered only once another has come.
- `CaughtStaySafe`, `InstallEnds`: overwriting code that other threads are running,
  of those that could be opened, and ending with every suspend count as it was, unless a
  stopped thread has the lock of the heap or of the loader, or in a panic.
- `HandedOutOnce`, `DeliveredIsSomewhere`, `CompletedStays`: the life of a command
  under lost responses, restarts, failed updates and overlapping heartbeats; the
  excuses in them are the exact cases in which the code does not promise it.
- `FlagsEarned`: what the agent believes about a file against what happened to it, by
  the names it heard.
- `NothingSkipped`, `LiveStay`, `NewestShown`: each client gets every detection from the
  moment it is served, except one whose own write to it failed, is not removed in
  another's place, and shows the newest of what it got.
- `WholeOrError`, `NeverOlder`, `LoadingEnds`: an answer in pieces from a pipe that is
  disconnected behind it, and a single-threaded server whose client stops reading.

Every property of a passing run has a mutant: a changed definition, next to the
original, with which TLC finds the property violated.

**Findings.** Three runs end in a violation, each of a sentence the repository says
about itself; `PROJECT.json` quotes it and says what the trace shows. The others were
met while modelling and have no run, most of them being about a comment, a document or
one call rather than a sequence of steps: among them, a context is freed while its scan
is listed, a timeout resumes the process, a cleanup cancels any client's call, an event
is queued beside a held call, `AGENT_PROCESS` outlives the agent, the symbolic link
outlives the driver, a thread started after the snapshot is not suspended while a stub
is overwritten, a thread that cannot be opened is not suspended either, a system call is
hooked whose number is not known, a failed hash or look-up of a signature allows, a
failed command is completed, a write is flagged as successful before it happens, names
are copied as they stand and deletions, links and moved directories are not reported,
file indices of two volumes collide, detections that are read together are lost, and an
answer on the command pipe may be discarded before it is read.

## 5. Proofs

Each theorem is about `Spec` (or `FairSpec`, which implies it) and holds for every
value of the constants that satisfies the named assumptions.

### The freeze gate

`SensorProofs` proves, of `Spec` and for every value of the constants that
satisfies `ConstantsAssumption` (any set of PIDs, any range of request ids, any
positive cache size):

| Theorem | Property |
|---|---|
| `TypeCorrect` | `TypeOK` |
| `ListedOnce` | `RequestListedOnce`, which no run checks, as `ImplementsGate` shows its effect |
| `Drains` | `UnloadDrains` |
| `FailsClosed` | `FailClosed` |
| `CacheIsFaithful` | `CacheFaithful` |

None of them is inductive by itself. The inductive invariant `Inv` is
`TypeOK` together with

- `TargetsListed`, `PendingListed`: every entry of the two lists is about a request
  that has been created, with that request's PID; a target's request has no APC
  yet, a listed scan's request has one; and ids are distinct within and across the
  lists. It gives `RequestListedOnce`: a request enters `target` when its id is
  new, and moves to `pending` when it leaves `target`;
- `HeldExist`: only requests that have been created are held;
- `ApcsCounted`: `apcCount` is the cardinality of the set of requests whose APC is
  counted and not yet counted off. It is why the decrement never takes `apcCount`
  below zero, and with it `TypeOK` becomes inductive; it gives `UnloadDrains` with
  `UnloadedEmpty`: an unload finishes only with that set empty, and nothing is
  injected afterwards.

On top of `Inv`, `PendingAgrees` (a listed scan carries "block" or the verdict sent
on its request), `CacheAgrees` and `CacheListed` (the same of cache entries, and
that a request stands in the cache once) give `CacheFaithful`, and, with
`OutcomeLate` (an outcome is set only by the two steps that read a verdict),
`FailClosed`: whichever entry `EarlyCheck` or `Collect` finds, "allow" in it was
sent by the agent for the entry's request, whose PID is the one searched for, or
whose id equals the PID. Lemmas state what `RemoveAt`, `Append` and the
replacement of one entry do to the elements of a sequence.

The same module goes on from there, under the same assumption:

| Theorem | Property |
|---|---|
| `HonoursVerdicts` | `VerdictHonoured` |
| `GateImplemented` | `ImplementsGate`: every step is a step of `FreezeGate` or none |

Both need to know why a decision was taken, and that nothing makes it wrong
afterwards. `Progress` says which causes and outcomes go with which stage. `ScanListed`
says that the scan of an APC on its way to its decision stays listed as long as nobody
can be taken for its request (`Alone`): whoever takes a scan off the list searches by
PID, on behalf of a request of that PID (`ScansStay`). `Told` says that the event is set
only by `apply_verdict`, and that every scan then listed of the request carries its
verdict. So `Collect` of an APC that a verdict woke finds a scan, the scan is its own,
and the verdict in it the agent's (`CollectDecision`); `EarlyCheck` finds the entry of
a request that is its own or not alone (`EarlyDecision`). `KillReason` keeps what
`FreezeGate` asks of a termination, as `FailClosed` does of a resumption; requests are
only ever added and PIDs never change (`CreatedLast`), so a reason once given stands
(`OldDecision`). The steps are then mapped one by one: creation, freeze, an APC that is
never run, the end of a wait, release, verdict and unload are steps of `FreezeGate`, the
rest is not seen there.

### The event path

`SensorProofs` proves, for any set of clients and any bounds on events and the
queue, from `CallAssumption`:

| Theorem | Property |
|---|---|
| `CallTypeCorrect` | `CallTypeOK` |
| `HeldCallIsPending` | `PendingIrpHeld` |
| `ChannelImplemented` | `ImplementsChannel`: every step is a step of `EventChannel` or none |

`PendingIrpHeld` is what ties the pointer to the calls; the refinement needs, besides
it, that an event is queued once (`QueuedOnce`), that it is in one place only, on its
way, queued, discarded or delivered (`Apart`), and that a client with a call has a
handle open (`HandlesOpen`), for a step that gives an event must find it among the
waiting ones and leave it nowhere else.

### The scan cache

`ScanCacheProofs` proves, for any number of requests and workers, any set of versions
and any number of replacements, from `ConstantsAssumption` and, for the last, from
`IdentityAssumption`:

| Theorem | Property |
|---|---|
| `TypeCorrect` | `TypeOK` |
| `ScansAlone` | `OneScanner` |
| `WaitsFailClosed` | `AllowNeedsScan` |
| `VerdictsAreFresh` | `VerdictFresh` |

The inductive invariant follows a scan from its first step to whoever uses it.
`BarrierTold`: a barrier is pending exactly while its owner has the slot, which is why
a slot always comes back. `Pointers`: what is completed, compared with, waited for or
relied on is a scan (`Scanned`) or an owner, and nothing of a scan changes once it is
recorded. `ResultSound`: after every stage an analysis has blocked if and only if its
score is above the threshold, so that the score alone, which is all the cache gives,
stands for the verdict; the lemmas `SignatureSound`, `TrustSound` and `PeSound` show it
of the stages of `StaticAnalysis` for every finding. `AtRest`, `Followed` and
`SameVersion`: while a request is undisturbed the file is the version it took the stamp
of, so its scan is one of that version, and who relies on the scan is about the same
version, by the stamp and the index it compared or because it waited meanwhile.

### Sensor and agent, with time

`EndpointProofs` proves, for any number of processes and workers, any size of
`EVENT_QUEUE` and any two limits, from `EndpointAssumption`:

| Theorem | Property |
|---|---|
| `TypeCorrect` | `TypeOK` |
| `TimeoutsExplained` | `TimeoutHasReason`, an action property |

The inductive invariant keeps accounts. `SecondsCounted`: of a process that nothing
excuses, the seconds it has been frozen are at most those its request has waited and
scanned (`Delay`), less what is left of the wait under way (`patience`); when the last
second passes, `Delay` is the kernel's limit. A tick keeps this because it comes only
when nothing can be done at once: an event on its way to the queue would get there, one
in the queue would be taken unless it stands beside a held call, which makes its request
stranded, one in the channel would find a worker or make its request late, and a worker
that is not waiting would go on (`EventsPlaced` and `CreatedFirst` find the event,
`CallsKnown` says what a call of `analyze_event` has done at each step). `HeldOnly` lets
the accounts start together, with the freeze. `OneScan` and `WorkersBounded` are what
`TypeOK` adds. Nothing is assumed about which limit is longer: that the code's two waits
outlast the kernel's one is what run `deadline` shows.

### Detections on their way to the client

`ClientViewProofs` proves, for any clients, pipe instances and bounds on pipes, lists
and detections, from `ConstantsAssumption`:

| Theorem | Property |
|---|---|
| `TypeCorrect` | `TypeOK` |
| `HandedOn` | `NothingSkipped` |
| `NewestKept` | `NewestShown` |
| `LiveSpared` | `LiveStay`, an action property |

`Served` is `NothingSkipped` with its arithmetic made explicit: what is in a client's
pipe are the detections after the last one read, up to the last one the server came to,
but for those whose own write failed (`failed`), and which the last is depends on where
the server is in its round (`UpTo`). `HandlesApart` and
`OneClient` keep one pipe to one client, so that a write reaches nobody else.

A client that fails is only noted, and removed at the end of the round. `Round` says
that the noted indices increase and lie behind the server, `DeadGone` that the clients
noted have gone for good, since nobody opens an instance but the one listened on, and
`WithoutIs` that removing them from the last to the first leaves the others and no
more. The removal is a fold, and the prover has no induction with an operator as
parameter; the lemma follows the function the fold is defined by to the least number of
removals after which it would be wrong.

For the window, `InOrder` and `NotAhead` say that what arrives is newer than all a
client has, whichever connection brought it, so that putting it in front keeps the list
in order; `Shown` follows by the lemmas on `Trim` and `Newest`, with the two lists
joined while the window is paused.

### The command pipe

`SnapshotProofs` proves, for any clients and files, any size of the pipe, any limit on
a snapshot and any bounds, from `SnapshotAssumption`:

| Theorem | Property |
|---|---|
| `TypeCorrect` | `TypeOK` |
| `AnswersWhole` | `WholeOrError` |
| `OrderShown` | `NeverOlder`, an action property |

`Transfer` follows an answer: what a request has read, what is in the pipe and, while
the server writes, what it has still to write are the length and the chunks of one
answer, in order. A disconnection takes the middle part away, and the end of the agent
the last; either way a reader that has counted as many chunks as the length said has
all of them, and `FlattenChunks` says that they are the answer. `Serves` and `PipeHeld`
tie the server's step to the one request that has the pipe. `ShownInOrder` says of
everything that may yet be shown (entries being collected, an answer on its way, a
result not taken over) that no file in it is older than the window has it; it holds
because `OneLoads` leaves each client one request at a time.

### The fleet

`FleetProofs` proves, for any agents, events, connections and number of commands, from
`ConstantsAssumption`:

| Theorem | Property |
|---|---|
| `TypeCorrect` | `TypeOK` |
| `GivenOnce` | `HandedOutOnce` |
| `NoneVanishes` | `DeliveredIsSomewhere` |
| `CompletedForGood` | `CompletedStays`, an action property |

The inductive invariant is the way of a command that nothing excuses (`CarriedOnce`):
one connection carries it at most, it is pending exactly until that connection marks it,
and once an agent was given it, it is no longer pending and in no batch, so that no
later query finds it. `RequestsKnown` keeps what a connection carries to the
time between query and response, and `Owned` gives every command an agent, and says that
a connection carries commands of its own agent only. `CompletedForGood` follows from the
same: only a pending command is left to mark.

### File telemetry

`FileTelemetryProofs` proves, for any files, paths, parts of paths and readings of them,
processes, operations and capacity of the cache, from `ConstantsAssumption`:

| Theorem | Property |
|---|---|
| `TypeCorrect` | `TypeOK` |
| `AgentUnseen` | `OwnIoUnseen` |
| `FlagsOfItsOwn` | `FlagsEarned` |

`PortKnown` is why the agent does not see itself: while `CLIENT_PORT` is live and
somebody may wait for a message, `AGENT_PID` is live too, because only `Connected`
makes a listener wait and every step that ends the PID has ended the port before.
`MsgEarned` follows a message: what its names can give, wherever they are resolved, was
done to the file of its index, and it is written to the entry of that index. Resolving
a name changes neither the location nor the extension it is read with (`ReadKeeps`,
`CanonicalKeeps`), so that what a message can give stays what it was (`OwedResolved`),
also when the name is a part that the agent reads as another path.

### The hooks

`HookInstallProofs` proves, for any finite set of threads and any set of those that take
locks, from `ThreadsAssumption`:

| Theorem | Property |
|---|---|
| `TypeCorrect` | `TypeOK` |
| `CaughtAreSafe` | `CaughtStaySafe` |

`CaughtStaySafe` rests on the counts. `Counted` says that a living thread is suspended
once for the process, if the process started it suspended, and once for the handle
`init_hooks` has of it; so a `ResumeThread` by the process takes away the process's
count and not that of `init_hooks`, and the handles (`HandlesKnown`, one a thread at
most) bound the count. A thread that cannot be opened leaves `caught` with its id. Which
threads take locks, and which locks a step needs, plays no part in it. `CaughtKnown`
follows a caught thread: its id is listed or its handle kept until the first byte of a
stub is overwritten, it stands still outside the stubs from then on (`CodeKnown` says
which stub is in which state), and it is let go only when both stubs lead to whole
hooks. `PlacesKnown` starts the chain: `init_hooks` begins only after the agent's thread
has loaded the DLL, and no thread is astray while all stubs are whole. The bound on
`handles` follows from their being distinct.

TLC has checked each of these invariants' parts on the instance of the run before it was
proved.

**Only model-checked:** the liveness properties, for fairness and ENABLED are beyond
the prover: `FrozenReleased`, `UnloadCompletes`, `ExitCompletes`, `EventAnswered`,
`InstallEnds`, `Reconnected`, `QueueDrains` and `LoadingEnds`. Every other property of a
passing run is proved.

## 6. Not modelled

- Probes and engines (`authenticode.rs`, `ml.rs`, `packers.rs`, `db.rs`): library calls
  whose results are inputs of `StaticAnalysis`; no state is shared between calls.
- Web pages of the server: queries rendered as HTML; no page changes any state.
- Secrets of the server: key derivation and encryption by a library, with no
  interleaving.
- ML training: offline scripts.
- Declarations of kernel interfaces (`ffi/flt.rs` and the like) and the drawing of the
  client's window (`ui/`): no control of their own.
- Start-up of the agent apart from driver, registration and loop: databases, models and
  logging are loaded once and never change.
- Memory safety of completed IRPs and freed contexts: the entries that would be
  followed are state of the model, what following them does is not.
- Time, except in `Endpoint`: elsewhere every timeout may come at any moment, so no
  property there compares durations.

`PROJECT.json` lists each hazard with the properties that cover it, and says where they
excuse what the code does; a probe that fails open has none, for it is a finding. Three
that this code also has are left to review, because their effect is undefined behaviour
below the level of any state modelled here: the count of APCs drops before the last
routine has returned (`apc.rs:227`), a cancel routine is set without a look at the
cancel flag (`ioctl.rs:101`), and a status is read from an IRP after its completion
(`ioctl.rs:169`).

## 7. Plan

- `Endpoint` with `ScanGate` and `InvertedCall` in the place of their abstractions, if
  an instance stays small enough: the refinements shown here make it redundant for
  safety.
