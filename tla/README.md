# Specifications of hyperlight-sandbox

TLA+ specifications of the parts of hyperlight-sandbox that are hard to test.
TLC model-checks them on small instances; TLAPS proves their safety, and the
liveness of outgoing HTTP and of .NET cancellation, for every value of the
constants.

Run inside this directory:

    tlc -workers 2 -config CapFsHandles.cfg MCCapFs
    tlapm CapFsProofs.tla

`PROJECT.json` lists the runs, what each definition models line by line, the
hazards with the properties that cover them, and for every property a mutant of
the code that TLC catches with it (the operators whose comment starts with
"Defect").

## 1. The system

A host program embeds a `Sandbox`: a guest (a Wasm component or a JavaScript
runtime in a micro VM) runs untrusted code and reaches the outside only through
host calls. One guest thread runs at a time per sandbox, inside `Sandbox::run`.

| component | state | operations | interacts with |
|---|---|---|---|
| Capability file system (`cap_fs.rs`) | preopens, `open_files`, `streams`, `dir_streams`, `next_handle`, `output_usage`, `accounting_valid`, the output directory | open, read, write, streams, directory streams, `write_output_path`, `prepare_for_run`, `clear_output_files` | WASI bindings, the JavaScript bridge and `Sandbox`, always under one `Mutex`; other host processes edit the output directory |
| WASI outgoing HTTP (`http_handler.rs`, `http.rs`, `headers.rs`, `types/`) | header maps, requests, outgoing body, buffer, future, `active_requests` | change headers, build a request, write and finish its body, `handle`, get the response | a handler task and a monitor task on the shared runtime run beside the guest thread |
| WASI resources and pollables (`resource.rs`, `pollable.rs`) | a fair reader-writer lock and a `Notify` per resource, a stored future per pollable | read, write, wait until, ready, block, poll | under every stream, body and future |
| WASI streams (`stream.rs`, `buffer.rs`, `io.rs`) | a capped buffer, or a numbered stream of the file system | read, skip, write, write-zeroes, splice, flush, check-write, close | file system, bodies, standard streams |
| Sandbox core (`hyperlight_sandbox/src/lib.rs`) | the backend, the shared file system and permissions | build, run, interrupt, snapshot, restore | both backends |
| Wasm and JavaScript backends | the loaded VM, captured stdout | run, host functions, snapshot, restore | prepare the file system, enter the VM |
| Network permissions (`network.rs`) | a list of permissions | `allow_domain`, `is_allowed` | asked before each request |
| Tool registry (`tools.rs`) | tools with schemas, a size limit | register, validate, dispatch | called by guests; schemas come from both SDKs |
| HTTP client (`http.rs`), shared runtime (`runtime.rs`) | two worker threads | send with timeouts and caps; `block_on`, `spawn` | both backends |
| Python SDK (`wasm_backend`, `hyperlight_js_backend`, `pyo3_common`) | lazily built sandbox, pending tools and targets | register, allow, run, snapshot | `Sandbox` |
| .NET FFI (`ffi/src/lib.rs`) | the same, behind a handle, with settings, snapshot and interrupt handles | the C interface | `Sandbox` |
| .NET API (`Sandbox.cs`) | `_gate`, a `SafeHandle`, pinned delegates, a cancellation per run | run with a token, snapshot, restore, Dispose, finalizer | the C interface, threads, timers |
| .NET agent extension (`CodeExecutionTool.cs`) | first run done, the warm snapshot | Execute, Dispose | `Sandbox` |
| Python guest (`poll_loop.py`) | wakers, coroutines | send, register, run until complete | pollables |

What is hard: failures in the middle of a write, a creation, a clear or a lazy
build; other processes that edit the output; numbers that restart at every run;
a guest thread, a handler and a monitor that meet in one body, one future and
one counter, with panics, refusals and blocked host calls; futures that move
only while somebody polls them, in the queue of a fair lock; a cancellation
that retries a kill from another thread while runs, disposal and the finalizer
go on; state shared by reference (header maps) that the guest changes after it
was checked.

What makes each component correct:

- File system: quotas hold for the directory, not just for the account; while
  the account is in doubt nothing grows; handles never collide or dangle.
- HTTP: one answer per accepted request, delivered once, also after a panic;
  the slot counter never drifts and bounds the running requests; the body sent
  is the body written; the headers sent are those that were checked.
- Resources: no lost wakeup, no false readiness, and a call hangs for a known
  reason or not at all.
- Streams: nothing is lost between a source and a destination without an error
  or a full buffer, and nothing follows a hole.
- Runs: an answer has the output of its own run; after a restore user code finds
  nothing of earlier user code.
- SDKs: what was accepted is what the guest gets, also after failed builds; a
  cancellation reaches its own run and always ends it; nothing is freed in use.
- Permissions and tools: the predicate grants exactly what was configured; a
  handler gets exactly the calls that fit its declaration.

## 2. Modules

    CapFs ── CapFsProps ── MCCapFs          HttpContract
                 └─ CapFsProofs                  │ INSTANCE
                                            HttpOutgoing ── HttpProps ── HttpProofs

    WasiSync ── SyncProps ── MCCalls        WasiStreams ─┬─ DataProps ──┬─ MCData
        │           │                       HttpFields ──┘              │
     PollLoop ── PollLoopProps ── MCPollLoop    NetworkPolicy ─ NetworkProps ─ DataProofs
                    └─ SyncProofs

    SandboxRun ── AgentTool ── AgentProps ─────────────┐
    OutputTree ── TreeProps ───────────────────────────┼ CoreProofs
    ToolArgs ──── ToolRegistry ── ToolProps ───────────┤
                                     └── ToolValues ───┤
    Recursion ─ instances in CoreProofs                │
    NetworkPolicy ── NetworkProps ─────────────────────┴ MCCore

    FilesystemLimits ── extended by FfiSandbox and PySandbox
    FfiSandbox ── FfiProps ─┬─ MCCalls          DotnetSandbox ── DotnetProps
    PySandbox ─── PyProps ──┴─ SdkProofs                             └─ DotnetProofs
                     └─ INSTANCE of SdkContract, by FfiProps too

A `...Props` module states the properties of the specification it extends, a
`...Proofs` module proves them, an `MC...` module is the instance for TLC
(`HttpProps` and `DotnetProps` need none). `DataProofs` proves what the three specifications of
a request's data promise, `CoreProofs` what runs, tool calls, their values and
the traversals of the output directory do, `SdkProofs` what both SDKs do, and
`SyncProofs` the resources alone and under the loop of the Python guest.
`Recursion` models no code: it proves that a recursive function satisfies the
equation of its definition.
`AgentTool` composes with `SandboxRun` (its steps are steps of the sandbox),
`PollLoop` with `WasiSync` (a coroutine's `get` is a guest call on a resource).

`MCCore`, `MCData` and `MCCalls` put specifications that share no state side by
side: a behaviour picks one of them at the start and moves it alone, so one run
checks all of them at the sum of their states and not at the product. In `MCCalls`
the C interface is split once more, into behaviours in which targets move and
behaviours in which settings and handles move: the two meet in a build only,
which may fail for reasons of either.

### CapFs

The variables are the fields of `CapFs` plus `disk` (the sizes of the files of
the output directory, `Absent` for none), `unsupported` (the directory holds a
symbolic or hard link, or is too deep: no scan accepts it), `running` (between
`prepare_for_run` and the return of the guest) and `edited` (a history variable:
another process changed the directory since the last scan that succeeded).

Every method of `CapFs` runs under one mutex, so it is one step. A call that is
refused before it changes anything is a stuttering step and is left out. A path
is a name, a file its size, and the bytes of a directory are the set
`Bytes(disk)`, whose cardinality is what `scan_output_dir` adds up.

| code | action |
|---|---|
| `open_at` | `OpenAt`, over `TruncateOpened` (already open) and `OpenFresh`, each with its failing branch |
| `write_file` | `WriteFile`: `CompleteWrite`, or `BrokenWrite` after k bytes and a rescan |
| `create_*_stream`, `stream_read`, `stream_write` | `CreateStream`, `StreamRead`, `StreamWrite`; the WASI wrapper closes a stream whose write fails, within the same lock |
| `create_dir_stream`, `read_dir_entry` | `CreateDirStream`, `ReadDirEntry`; a directory stream is the set of entries not yet returned |
| `close_file`, `close_stream`, `close_dir_stream` | `CloseFile`, `CloseStream`, `CloseDirStream` |
| `write_output_path` | `WriteOutputPath`, during a run (JavaScript bridge) or between runs |
| `prepare_for_run`, end of `run_impl` | `PrepareForRun`, `FinishRun` |
| `clear_output_files` at the end of `restore` | `ClearOutputFiles`, which may fail part of the way |
| other host processes | `HostEdit`: between runs, and during them only with `HostBusy`. The README of the repository (line 206) asks deployments to prevent the latter; the models cover both |

### OutputTree

`CapFs` has the output directory flat and its traversals as one step.
`OutputTree` has it as a tree of files, hard and symbolic links, special files
and directories, and the traversals entry by entry: `walk` is the recursion of
`scan_output_dir` or `remove_output_dir_files` as a stack of frames, each a
directory and the entries not yet listed, so that every order in which a system
may list them happens. `Visit`, `Ascend`, `IoError` and `Fails` are shared by
both, `ScanEntry` (with `HardLinked`, the check of `validated_output_metadata`) and
`RemoveEntry` are what they do to an entry, `ScanEnds` is
`resynchronize_output` with its check, and a removal, failed or not, is followed
by a scan. `Create` is the accounting of a new file (its number; sizes are in
`CapFs`), reached from `open_at` and, through `NormalizePath`, from
`write_output_path`. Whether limits count at all is `Limited`. cap-std, which
follows a link but only within the root, is external.

### HttpOutgoing, HttpContract, HttpFields

`HttpContract` is the promise, per request: refused or accepted once, at most
`MaxConcurrent` accepted ones waiting, answered once with an answer nothing
replaces, delivered once. `HttpOutgoing` is the code: the guest thread in at
most one host call at a time (`guest`), the handler and the monitor of each
request (`phase`), the body, the future and the counter `active`.

- `handle()` is `Deny` (everything it can reject before it counts), or `Handle`
  (`fetch_add`, comparison, spawn) and, over the limit, `Refuse` (`fetch_sub`) as
  a step of its own: monitors run in between.
- The handler task is `TaskStart` (auto-close under the body lock), `TaskTake`
  (wait until finished, take the data, keep the lock), `TaskAnswer` (the send
  ends by its timeouts and the future is set), or `TaskPanic` anywhere before.
- The monitor is `MonitorReport` and `MonitorRelease` (`fetch_sub`).
- A guest call that takes the body lock enters and completes in two steps, since
  the handler may hold the lock.

`HttpFields` is what a request carries. A `fields` resource is never copied, so
a map has several names: the variables map resources to entries and to whether
they are immutable. `FromList`, `Set`, `Delete`, `AppendHeader` are the guest's
calls with their `forbidden` and `immutable` answers; `NewRequest` takes a map
along; `Handle` snapshots what `handle()` converts; `Send` is the client's own
filter and `host`; `Answer` is `cap_response_headers` and
`collect_response_body` with their limits.

### WasiSync and PollLoop

One resource is a lock (`queue`, `holders`), a notification and the fact its
waiters look for (`happened`). Each client — the guest thread in a call, a
task, the stored future of a pollable — is a future with a program counter: ask
for the lock (`Lock`), be granted it while nobody polls it (`Serve`), notice
(`Locked`), look at the condition (`Look`), register with `Notify` and give the
lock back (`Sleep`), act and notify (`Write`) and unlock (`Unlock`): the guard's
drop notifies first. A pollable's future moves only while a call polls it
(`Polled`), which is what makes it possible that a permit is handed to a future
nobody looks at. `DropPollable` removes it from the queue.

`PollLoop` is `run_until_complete`: handles run, `poll` gets the pollables of
all wakers, the wakers it names are woken, the others keep theirs. Its
properties extend those of the resources: what the loop waits for is what its
call of the host waits for, or a task.

### WasiStreams

Bytes have serial numbers, so that an order or a hole is visible. `inputs` are
the buffers the guest reads (response, stdin), `body` the one it writes, a file
stream is a number in the table of `CapFs` with an offset. Every call is one
step under its locks. `Splice` reads up to the permit of the destination and
then writes; `FileWriteFails` writes a prefix and closes the stream; a stream
that was closed stays known to the guest as a stale number, and so does a stream that
the guest keeps over a run boundary (`NextRun`): the numbers start again, and the
next stream may get that number. `claim` records which of the resources are alone
with their number; it guards no step.

### SandboxRun and AgentTool

A trace of a run in memory or in `/output` is the run's number, so "clean" means
that a number is absent. `StartRun` is the prelude of `run_impl`, which clears
the buffer of captured output before anything can fail; `EnterGuest` enters the
VM, which refuses once poisoned; `PrintFn`, `PrintCut`, `WriteFile`, `Fetch` are
host functions (a cut in the middle of a character panics and poisons the mutex
of the buffer); `GuestReturns`, `GuestFails`, `Interrupted` end the run, with the
paths that take the buffer and those that leave it. `Restore` puts the VM back
and then clears files, which may fail half-way. `AgentTool` is
`CodeExecutionTool.Execute`, one step per call it makes of the sandbox, each of
which may throw.

### FfiSandbox, PySandbox, SdkContract

`SdkContract` is what both SDKs promise of a sandbox built on first use: the
guest has only what was accepted, tools are fixed by the build, domains can be
added. `FfiSandbox` has an action per exported function with its error codes;
`EnsureInitialized` is the lazy build, whose failure at any point leaves what
the code leaves (`BuildFails`, `ApplyPending`). `PySandbox` is the native class
of a backend (`New` for Wasm, `NewJs` for JavaScript, which differ in the module
path; `Make` is what a constructor that succeeds leaves) and the Python
`CodeExecutionTool` on it (`AgentRun`). `MCCalls` extends both SDK modules, so an
operation that exists in both has a `Py` in its Python name.

`FilesystemLimits` has what both make of the limits of the writable file system:
the constructors of the core (`NewLimits`, `UnlimitedLimits`, `DefaultLimits`),
the texts and options of Python (`ParseSize`, `ParseFilesystemLimits`) and the
three `u64` of the C interface (`SetLimits`). A size is a number with a suffix;
widths and defaults are constants, and what does not fit is refused, never cut.

### DotnetSandbox

Each thread is a program counter through `_gate`, the interrupt handle, the
registration of the token's callback, native execution, `finally`, the join of
the task that kills, and the report. `Cancel`, `Callback`, `Look`, `Kill` are
the token, its callback and the task that retries; `GuestEnters`, `GuestEnds`,
`ToolStarts`, `ToolReturns` the guest, whose kill hits, is remembered, or is in
vain. `Dispose`, `SnapshotDispose`, `Forget` and `Finalize` release handles,
which a call in progress delays (`closing`), and unpin the delegates. `Create` may
be refused before there is a handle, and `FinalizeNull` is the finalizer of the
object that is then left.

### ToolArgs, ToolRegistry, ToolValues, NetworkPolicy

Pure operators over small values: a JSON value is a record with its type.
`ToolArgs` has the schemas, made from a Python signature (`InferToolSchema`: each
parameter adds its part, `AllOf` puts them together) or from .NET types through
JSON text (`BuildSchema`, `ParseToolSchema`), and `Validate`. `ToolRegistry` has
the registry, the size limit and dispatch; what the size estimate says of a value
is the constant `Estimate`, so that dispatch is proved for any. `ToolValues`
gives it its value, `EstimateJsonSize`, and adds the conversions `JsonToPy` and
`PyToJson`, as recursive functions over the values, whose parts are found by `Parts`
and whose depth is bounded by the rank `Nesting`. `NetworkPolicy` has
URLs made of scheme, host, port and path, whose characters it keeps because the
code compares them. The variables hold the last question and its answer, so that
TLC asks all. The reference definitions are in `ToolProps`, `ToolValues` and
`NetworkProps`.

## 3. Runs

| run | bounds | shows |
|---|---|---|
| `CapFsHandles` | two files, both preopens, 3 free handles, write-only output, 0 or 2 byte buffers, `u64` ends at 4 | handles stay sound over closes, resets, exhaustion and overflow |
| `CapFsUsage` | three files, at most 2 of them, 2 bytes each, 3 in all, offsets 0 and 1, writes of 0 and 2; other processes edit during runs | `AccountingExact`, `QuotaHolds`: accounting and quotas through every failure, until another process interferes; `UsageWithinLimits`, `FailClosed`: the account stays within limits and in doubt nothing changes, whatever others do |
| `CapFsRunBoundary` | one run boundary with an input preopen | **violated**: descriptors of input files survive into the next run (section 5) |
| `Http` | two requests, one slot, writes of 1 and 2 bytes up to 3, buffers of 2 | `SlotsExact`: the counter and the limit; `ContractSpec`: the refinement of the contract; `BodyIntegrity`: the body sent is the body written; `Answered`: every answer arrives and its slot comes back; `CallReturns`: blocked calls return; the last two under fairness |
| `Calls` | SDKs: one tool and three targets (.NET), two tools and four targets (Python), one rejected, 2 permissions at most; six sizes and two counts, `i64` ends at 3, `u64` at 5, `usize` at 4. Resources: one, with two tasks, two pollables and the guest; lists of none, of two and of one twice | `ConfigHeld`, `LimitsAsAsked`, `NoLossWithoutRejection`, `CompleteWithoutFailure` and the contract twice (`ContractSpec`, `PyContractSpec`). `NoLostWakeup`, `ReadyMeansHappened`; every hang has a named cause: `HangsNamed` in each state, `CallsReturn` at the end |
| `PollLoopSends` | three sends, each with a task and a pollable | `NeverStuck`: the loop never stands still while a coroutine waits; `SendsReturn`: every send returns |
| `WasiData` | a response of 2 bytes, a file with a quota of 1, two resources and two numbers, any number of runs, buffers of 2, permits of 2 and 3; one map, two requests, four answers at and over the limits | `NoHoles`, `SpliceKeeps`, `ReadyMeansAnswer`; `SentAsHandled`, `ResponseIntact` |
| `StaleStreams` | the same | **violated**: `StaleReleased`, a stream resource kept over a run boundary reaches a stream of the next run (section 5) |
| `Core` | 3 runs, 3 bytes of output, one snapshot; one tool with up to two arguments of 11 shapes, those inside them and the objects made of them; one permission, paths of up to 3 characters; a directory with two names, one level below the root and one beyond the depth limit, 3 entries and 2 files at most, or no limits | `StdoutOfRun`, `CleanStart`; `DispatchByDeclaration`, `RoundTrip`; `AllowedBySegments`; `WalksAgree` |
| `EstimateBound` | those of `Core` | **violated**: `NeverUndercounts`, the documented bound of the size estimate (section 5) |
| `DomainLevel` | those of `Core` | **violated**: `DomainLevel`, the documented rule of the allowlist (section 5) |
| `Dotnet` | two threads, one sandbox, one snapshot, any number of runs | `CancelsOwnRun`, `NothingFreedInUse`, `CancelledRunEnds` |

Why the bounds are enough to be interesting. Every limit of `CapFs` is reached
and exceeded, and a write of two bytes is the least that can fail in the middle.
In HTTP two requests compete for one slot, which is taken, refused, given back
and taken again, with the guest blocked on either; any number that are in flight
at once is left to the theorems. In `WasiData` a file stream is written to its
quota by one byte, and a second write fails; two resources are one that was kept
and one that gets its number. A fair lock needs a holder, a waiter and one behind it: two
pollables, two tasks and the guest are five clients of one resource. Three sends
leave two wakers to keep when one is woken. Three runs are the first, one of
user code and one that could find its traces; three bytes of output let a
character of two be cut. Two arguments of a tool can fit and fail separately,
and the shapes include each JSON type, an integer beyond `i64`, a string with
escapes, a value as deep as the limit and one beyond it. A path of three characters is `/a/`, `//a`
or `/aa`, where the comparison by prefix and by segments differ. The permissions
hold two of the three accepted targets, so the cap is met. Of the six sizes some
fit, one exceeds `i64`, one overflows `u64` when its suffix is applied and one is
no `u64` at all. In the directory a
fourth entry and a directory at the second level exceed the limits of a
traversal, and a third file the quota. Two threads are one that runs and one
that disposes, cancels too late or runs next. `MaxOk`, `MaxSize`, `MaxU64`,
`MaxHandle`, `MaxId`, `MaxOffered`, `MaxEntries`, `MaxRuns`, `MaxQueue`,
`MaxPath`, `NestedNames`, `LimitValues`, `Sizes` and `Counts` are the bounds of unbounded or machine-sized
numbers.

Deadlock is not checked as such: a host may stop making runs and a guest making
calls. That nobody waits for ever is stated by the liveness properties.

**Fairness.**

- `Http`: weak fairness of `Return`, `Task` and `Monitor` for each
  request, none of `Call` and `TaskPanic`. The runtime is multi-threaded and
  polls every task that was woken; the send has a connect, a first-byte and a
  between-bytes timeout and a cap on the body, so it ends; the guest thread
  blocks in `block_on`, which returns once its future can. Nothing obliges a
  guest to make a call, hence the premise `Completable`: a guest that takes a
  body and never finishes it keeps the handler waiting and its slot taken for
  good (`http_handler.rs:129`); the properties state where the promise ends.
- `Calls` (the resources), `PollLoopSends`: weak fairness of each future that can move and
  of the return of a call, for the same reason. `CallsReturn` names the three
  ways a call of the guest still hangs: its event never happens, it polls no
  pollable or one twice, or a pollable that is no longer polled keeps a permit
  (`LeftBehind`). `SendsReturn` shows that the event loop of the Python guest
  meets none of them, and `NobodyInTheWayCorrect` proves it for any number of
  sends.
- `Dotnet`: threads, timers and tasks are scheduled, tools return; the guest
  need not end. Of the kills, retried every 10 ms, not all of those that find
  the guest running or in a host function are in vain: strong fairness, because
  the guest may leave and enter host functions between any two of them. This is
  an assumption on the timing of the guest, and the only one.

## 4. Proofs

| module | theorems |
|---|---|
| `CapFsProofs` | `TypeCorrect`, `AccountingCorrect`, `QuotaCorrect`, `UsageBounded`, `FailClosedCorrect`; `HandlesCorrect`, `StreamsCorrect`, `NoReuse` |
| `HttpProofs` | `HttpTypeCorrect`, `SlotsCorrect`, `BodyCorrect`, `ContractKept`; liveness: `AnsweredCorrect`, `CallReturnsCorrect` |
| `SyncProofs` | resources: `SyncTypeCorrect`, `NoLostWakeupCorrect`, `ReadyMeansHappenedCorrect`, `HangsNamedCorrect`; the loop on them: `NeverStuckCorrect`, `NobodyInTheWayCorrect`, `LoopWakes` |
| `DotnetProofs` | `DotnetTypeCorrect`, `CancelsOwnRunCorrect`, `NothingFreedInUseCorrect`; liveness: `CancelledRunEndsCorrect` |
| `SdkProofs` | C interface: `FfiTypeCorrect`, `ConfigHeldCorrect`, `FfiContract`, `NoLossCorrect`; Python: `PyTypeCorrect`, `PyContract`, `NothingLostCorrect`, `LimitsCorrect` |
| `DataProofs` | streams: `StreamsTypeCorrect`, `NoHolesCorrect`, `ReadyCorrect`, `SpliceKeepsCorrect`; headers: `FieldsTypeCorrect`, `SentCorrect`, `ResponseCorrect`; allowlist: `AllowedCorrect` |
| `CoreProofs` | runs: `StdoutOfRunCorrect`, `CleanStartCorrect`; traversals: `TreeCorrect`; tools: `DispatchCorrect`, `EstimateCorrect`, `RoundTripCorrect` |
| `Recursion` | `Unfold` |

They rest on the named assumptions of the modules only: finitely many names and
requests, natural bounds, disjoint kinds of clients; of the answers of servers
that their parts are sequences of headers and of sizes, and that the cap of a
response fits the buffer it goes to (`FieldsAssumption`: both are 16 MiB,
`http.rs:26` and `buffer.rs:5`); of Python defaults that they are values of plain types and not
annotations (`RegistryAssumption`); of JSON values that they are finite trees, each
part of a smaller rank than the whole (`ValuesAssumption`); of the loop that each
send has a future and a pollable of its own and a task that answers it
(`LoopAssumption`: `handle()` makes one future and spawns one task per request); of
widths that `i64` and `usize` are within
`u64`, and of the defaults that they fit (`LimitsAssumption`). TLC evaluates them in the runs. Each theorem
holds for any number of files, entries, requests, clients, threads, tools,
targets, snapshots and runs, and for lists, paths and buffers of any length.

**File system.** The account and the directory are proved together. While the
account is valid and no edit is pending, `outputUsage = ActualUsage(disk)`; that
alone is not inductive for the quota, because after a failed scan the account
says nothing. What carries the proof is that every step that leaves the account
invalid leaves the directory within the limits: a broken write stores at most
what `validate_mutation` had accepted, and a clear only removes. Lemmas about
`Bytes` replace induction over the directory.

**Handles.** `HandlesSound` has two parts, inductive together: `NumbersSound` (a
number below `next_handle` may be free or used, none above is used, and no two
tables share one) and `OneDescriptor` (a file has one descriptor). A reset keeps
them because numbering restarts above the largest survivor. `StreamsAttached`
says that a stream hangs on a descriptor whose `get_flags` grant its direction;
it needs that closing a descriptor drops its streams, that resets drop all of
them, and that the flags of a descriptor are those of its preopen.

**HTTP.** `SlotsExact` needs that the request `handle()` is about to refuse is
the one the guest thread is inside (`CallInv`). `BodyIntegrity` needs `BodyInv`:
until the data is taken `buffered` is `okBytes` cut at the cap, and a finished
body is closed. `ContractKept` maps `phase`, `value` and `consumed` to the status
of a request; its hard case is a panic, where the monitor may only answer if the
handler did not (`FutureInv`, `ReleasedInv`).

**Resources.** `NoLostWakeup` is not inductive: what makes a sleeper safe is that
whoever makes the event happen holds the lock for writing from its look to the
notification. So `Exclusive` (a writer is alone), `WorkerHolds` (who is past the
lock has its permit, which needs `GuestInCall` for the guest, whose resource
changes from call to call) and `NotYet` (who saw the condition fail and has not
slept yet still holds the lock under it, so it still fails) go with it;
`SeenByPollable` says the same of a future that is done. Serving a queue is
handled once, by lemmas on `Granted`: a grant to a writer is a grant to one.

**No circle of waits.** `HangsNamed` says that a call whose event is there never
hangs for a reason of the locks. `FairInv` carries it. `Placed` is who has the lock
of a resource or stands in its queue; each of them is a client that asked for it
and has just one place (`PermitsSound`, `QueueSound`), each client that asked has a
place (`HasPlace`), and a lock with a queue has a holder (`NotIdle`, by
`GrantedPrefix`: what is served is a prefix of the queue, and not none of it). So
whoever waits in a queue waits for a holder, and a holder waits for nothing
(`HolderMoves`): it can move, or it is the future of a pollable that nobody polls.
A call that polls several futures at once holds at most one lock (`OneAtATime`),
because the futures of a poll look and give back within one poll, so there is no
circle of two. Dropping a pollable takes its place out of the queue; without that
step `NotIdle` would hold of a ghost.

**The loop.** `NeverStuck` composes `PollLoop` with `WasiSync`. `CallOfLoop` says what
the call of the host is for (a coroutine's `get` on the resource its own pollable
watches, or the poll of all wakers), `WakersInv` that the wakers are just the
coroutines that are parked, each once, with their pollables and no others. From
this `NobodyInTheWay` follows: a future is left behind by `poll` only while its own
coroutine is parked, and that coroutine's resource is nobody else's, so no `get`
queues behind it. A loop in `poll` with every event still to come has a task that
can go on, or is behind one that can.

**.NET.** `CancelsOwnRun` needs that a kill in effect belongs to the run under
the gate: a task exists only for a run that is not past its join (`CallbackInRun`),
it kills only with that run's token cancelled (`KillOfRun`), and an answer
"cancelled" is for that token (`Answered`). `NothingFreedInUse` needs that whoever
is in a native call holds the gate (`Gated`), so that who frees the native sandbox
finds no call in it (`FreedUnused`), that the thread that unpins has released the
handle before (`UnpinnedLast`) and that a restore holds its snapshot open
(`SnapshotHeld`).

**C interface.** `GrantsAccepted` joins `ConfigHeld`: before the build the queue,
after it the permissions hold accepted targets only. The refinement maps each
function to a step of the contract or to none. `NoLossWithoutRejection` has a
temporal premise; `NothingLost` (accepted targets are queued or granted) is
inductive as long as the premise holds.

**Runs.** `StdoutInv`: during a run the buffer has bytes of that run only, which
holds because the start of a run clears it before anything can fail; an answer
that leaves the buffer is therefore harmless. `AgentInv`: the first run and its
snapshot come before all user code (`FirstRunFirst`), the snapshot holds no
number of a user run (`SnapshotClean`), and only a restore that succeeded leads
to `run` (`CleanBefore`).

**Python SDK.** `PyContract` maps what was registered and accepted, waits, or is in
force to the contract: before the native object exists nothing is registered
(`NothingYet`), and a build takes only what was accepted (`OnlyAccepted`).
`CompleteWithoutFailure` has a temporal premise; `Complete` (whatever was
accepted waits or is in force) is kept by every step after which no build failed.
`LimitsAsAsked` holds because limits are set by `Make` alone and never after:
`SizeMeant` says that a size that was parsed is the number meant, `ParseAsAsked`
carries it to the three limits, and `CanSet` finds for each of them arguments of
the C interface with the same effect.

**Traversals.** Both traversals are a stack of frames over one tree. The set of
visited entries is defined from the stack alone (`Visited`: what is in no frame
and below no pending directory), and the counters are its cardinality (`WalkOk`).
A scan has met no link (`ScanOk`), a removal has left of the tree it began with
just the directories and what it has not visited (`RemoveOk`), and what a
removal left is what the scan after it reads (`Cleared`). At the end the stack is
empty, everything was visited, and the limits that were checked entry by entry
are those of the whole tree: this is `ScanExact` and `ClearMends`, whose
conjunction with `Accounts` (an account that is valid counts the files of a tree
nobody else has changed) is `WalksAgree`.

**Streams.** `OwnStream` says that a resource that is alone with its number names a
stream of the table, which only a failed write or its own end can take away;
numbers below `nextId` are the ones in use in this run. `ReadyMeansAnswer` needs it
in one direction only: what is ready answers for any resource. `Content` (what the
body has and what was sent of it) is a prefix of what the guest offered, by the cap
of the buffer. `SpliceKeeps` follows call by call: what left a response or stdin is
in the destination, unless that filled the body's buffer, or the file refused it
and its stream is closed.

**Headers.** The filters and the caps are recursive functions on positions. They
are unfolded by an induction that is stated for sets of numbers (`LeastNumber`),
so that it can be cited: sums of sizes, `Drop`, and the map of capped headers each
have one lemma that says what they hold and in which order. `SentAsHandled` then
follows from `Drop` alone, whatever was in the map; `ResponseIntact` needs that
the map of an answer is immutable and stays what the caps kept (`AnswerStays`).

**Allowlist.** The code compares strings, `AllowedBySegments` compares lists of
segments. `Splits` relates both: the segments of a string that grows by one
character are those before it, with the last extended or a new one begun
(`Grows`, `Ends`). So a string is a prefix that ends at a slash just when its
segments are a prefix.

**Tool calls.** One lemma per parameter: its part of the schema asks for the type
of the annotation, or else of the default, and requires the argument unless there
is a default (`ParameterSchema`); no two parameters share a name, so the whole
schema accepts what each part accepts (`PythonFits`, `DotnetFits`).

**Values of tool calls.** The estimate, the size that serde_json writes and the two
conversions recurse over nested values. `Recursion` states what such a definition
means once: with a rank into the naturals that falls at every recursive call, the
function satisfies its equation (`Unfold`, by the least rank at which two solutions
could differ). An `INSTANCE` with the set, the rank and the body of a definition
gives its equation, one per function (`EstimateUnfolds`, `SerializedUnfolds`,
`ToPyUnfolds`, `FromPyUnfolds`). Sums over the parts of a value are compared term by
term (`SumsCompare`). Then `EstimateIsBelow`, `EstimateIsExact` and `ThereAndBack` take
a least rank that fails, again as a set of numbers: `RoundTrip`, and what the estimate
does instead of its documented bound (`EstimateExact`), hold for values of any shape and depth.

**Liveness.** The prover cannot compute `ENABLED`, so three theorems assume
`GuardsEnable`: each fair action is enabled exactly when the guard written beside it
holds. It is about single states and TLC found it an invariant, on 199 593 states of
`HttpOutgoing` (two requests, a limit of two, one write) and on all 52 826 of the
`Dotnet` run. With it the fairness of the specification becomes `Scheduled`, and every
phase that must be left is one rule of temporal logic: what each step does to the
phase, and which fair action leaves it.

- HTTP: the phases of a request go onward only (`PhasesGoOn`), a body that is
  complete stays so (`CompleteStays`), hence the task, then the monitor go on until
  the answer is there and the slot is back (`AnswerArrives`). A call on the body comes
  before, during or after the time the handler has its lock (`CallSteps`); a call that
  blocks on the response returns because the answer arrives (`CallsComeBack`).
- .NET: as long as the guest of a cancelled run has not ended, its callback is due or
  its task looks or kills (`SomebodyKills`, from `CancelInv`). So kills come again and
  again, and strong fairness makes one count: the guest ends, at once or when it
  returns from the host function (`RunningEnds`). Then the run disposes of the
  registration, joins the task and reports (`EndingEnds`). Without the strong fairness
  the proof fails where it should, at `FairThread`.

**Only model-checked.** `CallsReturn` and `SendsReturn`: their permits are handed on
in a queue of any length, and going through it needs an induction over temporal
formulas, which this prover cannot do. `HangsNamed` and `NeverStuck` are their safety
halves: nobody who is waited for is stuck. That `Moves`, `Returnable` and `LoopMoves`
mean what they say, that the step is enabled, TLC was asked, as for `GuardsEnable`.
`RunStartsWithoutHandles`, `NeverUndercounts`, `DomainLevel` and `StaleReleased` are
violated (section 5). Every other property of a run is a theorem.

## 5. Differences between the documents and the code

Four are shown by a run that states what the document says and is violated:

- `lib.rs:150` and `:199` say that open guest file handles are reset before each
  run. Descriptors of input files are kept, and without an output preopen nothing
  is reset (`cap_fs.rs:594-602`, `1402-1403`). Run `CapFsRunBoundary`.
- `cap_fs.rs:596` says that run boundaries are the safe point for releasing stale
  filesystem handles. The streams are forgotten and their numbers start again
  (`:1402-1417`), but a resource of the guest that holds a number stays: the next
  run's stream of that number is read, written and closed through it. Until there
  is one, a read is told closed (`stream.rs:140`) and a blocking read waits for
  ever, as the stream is never readable (`:151`). Run `StaleStreams`;
  `ReadyMeansAnswer` states what is left.
- `tools.rs:235` says the size estimate is an upper bound that never undercounts.
  It ignores escapes and counts nothing below 64 levels. Run `EstimateBound`;
  `EstimateCorrect` proves what it does instead: it is never above the size, and
  is the size where nothing is escaped or too deep.
- `network.rs:127` and `:156` say that URL path and scheme are not checked, at a
  "domain-level allowlist". They are. Run `DomainLevel`. The comment of
  `is_allowed` itself (`:189`) and the tests say scheme and path prefix are
  checked, which is what `AllowedBySegments` states and `AllowedCorrect` proves.

Others met while modelling. The specifications describe what the code does, and
the properties are stated so that the reader sees where the promise ends:

- `ffi/src/lib.rs:852` and `:1131` take a target and answer success; a build that
  finds one rejected target drops those queued behind it (`:1034` takes the
  queue first), and the next build succeeds without them. Hence the premise of
  `NoLossWithoutRejection`.
- `__init__.py:211` says that registered callbacks are held for the lifetime of
  the sandbox. The native class takes them before the build
  (`pyo3_common/src/lib.rs:492`), so a failed build loses them; and the Python
  `CodeExecutionTool` keeps its sandbox (`__init__.py:275`) before it registers
  its tools, so after one that is refused the next run goes on without the
  rest. Hence the premise of `CompleteWithoutFailure`.
- `Sandbox.cs:598` says delegates are unpinned after the handle is released; a
  tool callback that disposes its own sandbox re-enters the lock, the release
  waits for the native call and the delegates do not (`:614`).
  `NothingFreedInUse` leaves the delegates out in this case, not the native
  sandbox.
- A `Sandbox` whose constructor throws before it has a handle (`Sandbox.cs:69`)
  still has a finalizer, which reads `_handle` without a check for null (`:635`):
  `FinalizeNull`, after which the process is gone. No document says otherwise.

Quirks of the streams that `WasiStreams` has as the code has them: a blocking
read of a stale or closed file stream waits for ever; a splice from a file into
a full body answers closed; a file stream at its end answers closed and still
delivers what is appended later.

## 6. Plan

Done, in this order: `CapFs`; `HttpOutgoing` with its contract; `WasiSync` and
`PollLoop`; the two lazy SDKs with their contract; the .NET object; runs and the
agent tool; streams and header maps; tools and permissions; the traversals of
the output directory; the proofs of section 4.

Next, most important first:

1. A composition of `CapFs` with `WasiStreams`, so that a file stream is the
   same stream in both and the table of the former is refined by the latter.
2. `HttpOutgoing` on top of `WasiSync` for its body and its future, instead of
   the two-step lock it has, and host tasks that outlive a run and a restore.

## 7. Not modelled

- Poisoning of the mutexes of the file system and of the permissions; calls of a
  .NET callback into its own sandbox other than Dispose; cancellation of Python
  coroutines; `sink` and `stream` of the Python guest.
- Request setters (method, path, scheme), trailers (nothing ever sets them), and
  the timeouts of `RequestOptions`, which are stored and not used.
- Positional-only parameters of Python tools; `HostState` accessors.
- `ReadDir`, metadata and the translation of flags and errors in the WASI file
  bindings beyond the `CapFs` call they make.
- Sockets, CLI, clocks and random: stubs that refuse, or stateless calls.
- The Python executor and the JavaScript guest: guest code; the host modules
  allow every order of calls a guest may make.
- The VM, cap-std, tokio, hyper, serde, the CLR: their contracts are assumed as
  the code uses them (the "external" entries of the map).
- Vendored, generated and build code, examples.
