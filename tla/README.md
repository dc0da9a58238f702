# Formal models of polyengine

polyengine hosts WebAssembly components in JavaScript. Its runtime
(`src/runtime/src`) interprets the plan of a translated component, runs the
component model's async machinery (tasks admitted into instances, subtasks and
their cancellation, streams and futures, a coordinator that keeps a store going
between turns of the event loop), and crosses values and handles between guests
and the embedder; `src/wasi` provides sockets, files and HTTP on top. The modules
here model that, TLC checks them on small instances, and TLAPS proves invariants
of eighteen of them for every instance. Paths below are relative to `src/runtime/src`
unless they start with `src/`, `wasi/` or `docs/`; `wasi/` is `src/wasi/src`.

Contents: [inventory](#inventory), [modules](#modules-and-the-code),
[runs](#runs), [fairness](#fairness), [proofs](#proofs),
[findings](#findings), [what is not modelled](#not-modelled),
[plan](#plan).

To run something, in this directory:

    tlc -config MCStream.cfg StreamRendezvous.tla
    tlapm StreamRendezvous_proofs.tla

## Inventory

JavaScript is single-threaded, so the runtime's concurrency is the interleaving of
segments that run to completion: guest activations, microtasks, timers, promise
reactions of host imports, and calls of the embedder. Guest threads park in the
scheduler (`Store.waiting`) as callback tasks do between invocations, or their
wasm frames are suspended with JSPI. Several processes may share the artifact cache,
and the network, the disk and other calls of a guest run beside every await of a
provider.

| Component | State | Operations | What makes it correct |
|---|---|---|---|
| **Streams, futures** `task/streams.ts`, `intrinsics/stream_builtins.ts` | a shared object with one pending slot; two ends, each a waitable with a copy state and a pending event | new, read, write, cancel, drop, transfer between instances, event delivery, teardown of a trapped instance's ends | the slot is a live operation of exactly one end; counts told to both sides agree; a drop is never missed; a future's value crosses at most once; an abandoned reader traps |
| **Tasks, admission** `task/mod.ts`, `task/thread.ts`, body of the implicit thread in `exec/boundary.ts`, deferred enter-sync-call in `intrinsics/mod.ts` | per instance: backpressure counter, number waiting to enter, exclusive slot, poisoning; per task: state | call, admission, callback loop (YIELD, WAIT, EXIT), task.return, task.cancel, backpressure, request of cancellation, trap | one holder of the slot; the gate is a queue; a call is answered exactly once; cancellation precedes events; a poisoned instance runs no code |
| **Subtasks, asynchronous calls** `task/subtask.ts`, `intrinsics/async_builtins.ts`, `intrinsics/fact_calls.ts`, lowered imports in `exec/boundary.ts` | subtask state, lends, pending event, cancel claim, `Store.pendingHostCalls` | call of a host import or a guest callee, report of its status, events, cancel (both forms), drop, late settlement | a resolution always reaches the caller, by one way; lends come back exactly once; a parked cancel returns |
| **Waitables and sets** `task/waitable.ts` | pending event, set membership, synchronous waiter | join, wait, poll | modelled where they meet copy ends and subtasks |
| **Store service** `exec/boundary.ts`, `task/scheduler.ts` | waiting list, queued settlements, pending resumptions, synchronous obligations, deferred entries, probes, quantum, waiters, one host failure | drive a call's synchronous prefix, drain, probe, verdicts, hand off, fail, poison | no wakeup lost; verdicts sound and eventually given; deferred calls start; the platform keeps its turns; one answer per call |
| **Lifted functions, host imports** `exec/boundary.ts`, `embedder/instantiate.ts`, `exec/host_settlement.ts` | one outcome per export call; per import call its phase, its subtask, a shared carrier of immediate settlements | publish, fail, defer, refuse; run host code, prepare, settle now or later, transfer, cancel, poison | the carrier holds its own call; borrows end with the call; the result goes to the caller or is released |
| **JSPI bridge** `jspi/bridge.ts`, ambient activation in `task/scheduler.ts` | suspension points, claims, brackets, sentinels, nested activations | mint, return at the boundary, claim, abandon, settle, nest | a built-in runs for the activation that called it; no resumption is owed for ever |
| **Resource handles** `cabi/handles.ts`, `embedder/resources.ts` | handle tables, own and borrow handles, lends, host wrappers | lift, lower, drop, lend, dispose, call between instances and with the host | one owner or one destruction, never under a borrow; borrows end with their call |
| **Host streams** `exec/host_streams.ts`, `embedder/streams.ts` | host ends with their arms, direct sessions, writeAll, producer pumps | bind, arm, disarm, write, read, cancel, drop, transfer, pull, clean up | an arm exists exactly while a host end can act; progress is told once; nothing prepared is lost; the pump ends |
| **Embedder's stream and future handles** `embedder/streams.ts` | deferred handles, unbound pairs, producers | await, cancel, drop, close, bind, take, give away | no party is left behind; elements are taken or released |
| **Values** `cabi/*`, `embedder/values.ts`, `intrinsics/transcode.ts` | none | layout, lower, lift, transcode, prepare | what crosses comes out equal; only values of the type come out |
| **Versions of imports** `embedder/version.ts` | exact keys, tracks | register, resolve | the order of registration does not matter |
| **Plan, executor** `plan/loader.ts`, `exec/executor.ts` | evidence of suspension while instantiating; compiled modules per plan | load, compile, initialise, link | each instance runs its own modules; who may suspend is entered promising |
| **Artifact cache, digest** `cache/`, `digest/` | entries on disk or in a web cache | get, put, verify | a hit is a whole entry of its key; a failing cache is a miss |
| **WASI sockets, io** `wasi/internal/sockets_*.ts`, `wasi/io.ts` | sockets, connections, listeners, pumps, byte streams, pollables | bind, connect, listen, accept, send, receive, shut down, drop; poll, block | no wake lost; owners and futures accounted for; no datagram is misdelivered |
| **WASI filesystem** `wasi/internal/fs_provider.ts`, `wasi/filesystem_node.ts`, `wasi/filesystem_web.ts` | descriptors, calls in flight | open, names, links, streams in and out | rights are kept at every change; nothing outside the preopen changes; bytes are accounted for |
| **WASI http** `wasi/http.ts` | fields, options, requests, responses, timers, readers | send, consume, drop | bodies released, answers true |
| Others | `src/protocol`, threads, `src/crates`, `src/ct-runner`, `src/harness`, `src/tools` | brands, explicit threads, code generation, test tooling | see [not modelled](#not-modelled) |

**How they interact.** An export call creates a task (admission), which runs in
the call's own synchronous prefix and afterwards under the store service. A
guest's asynchronous call creates a subtask in the caller and a task in the
callee, or a registered host call. Subtasks and copy ends are waitables: their
events make parked threads ready, and the service resumes ready threads in
waiting-list order. A trap poisons its instance, retires its calls, and tears down
the streams and futures in its table, which sends events to other instances. A
stream given to or by the embedder keeps the store from reporting a deadlock
(an arm in `pendingHostCalls`) while the embedder can still act on it. Providers
are host imports: the runtime calls them through the import adapter and pumps the
streams they return.

**What is hard**, and why tests reach little of it: the order of microtasks,
timers and host answers is not under a test's control; a frame's readiness is
checked in one segment and used in another; an event is armed in one and its
payload computed in another; cancellation, drop and traps can happen between
any two; host code that is called back may call the runtime again; a process may die
while it writes a cache entry; a deadlock verdict must not be given while
something could still progress, and must be given when nothing can.
`PROJECT.json` lists forty such hazards line by line with the properties that cover
each. Two more were met that no property covers: a destructor's failure
(`embedder/resources.ts:124`) and a driver that goes on after a handoff
(`exec/boundary.ts:1455`) are described under [findings](#observations).

## Modules and the code

| Module | Models |
|---|---|
| `StreamContract`, `StreamRendezvous` | what a stream promises its two guests; `SharedStreamImpl`, `CopyEnd` and the stream built-ins, which implement it |
| `FutureContract`, `FutureRendezvous` | the same for futures, with the abandonment trap |
| `TaskAdmission` | the entry gate, the slot and the life of tasks in one instance |
| `SubtaskContract`, `SubtaskCalls` | what a call promises its caller; subtasks, host calls and guest callees, which implement it |
| `StoreService` | the coordinator, the synchronous prefix, the outcomes of export calls |
| `ResourceHandles` | handles of one resource type in tables, wrappers, arguments and results |
| `HostActivities`, `HostStreams`, `ProducerPump` | the arm; a stream with host ends; the pump on top of it |
| `FutureHandles`, `StreamHandles` | the embedder's `Future`, `Stream` and `StreamWriter` with their bindings |
| `Activations` | for whom a built-in runs, through the engine's microtasks |
| `HostCalls` | calls of one host import, nested, cancelled, poisoned |
| `ImportVersions` | which provider serves an import |
| `PlanLoader`, `Instantiation` | validation; the initializers, FACT links and the wrappers for suspension |
| `ModuleCache`, `ArtifactCaches` | compiled modules per plan; the two artifact caches under crashes |
| `CanonicalStrings`, `CanonicalAbi`, `ValueCrossings` | strings and transcoders; layout, flattening, lifting and lowering; the facade and the round trip |
| `WasiStreams`, `TcpSocket02`, `TcpSocket03`, `UdpSockets` | byte streams of 0.2; sockets of both tracks |
| `FsTree`, `FsProvider`, `FsNode`, `FsOpfs` | the host's files (external); descriptors and checks; the two backends |
| `HttpExchange` | one wasi:http exchange |
| `MCStoreService`, `MCResourceHandles`, `MCFilesystem` | constants, symmetry and initial states for TLC |
| `MCLoading`, `MCProviders` | several models in one run, see below |
| `*_proofs` | theorems and proofs |

The models are separate because each pair of components meets at a narrow
interface, and each module over-approximates its neighbours there: a rendezvous may
find its guest blocked, polling or cancelling at any moment; admission may get an
event or a cancellation at any moment; a subtask's callee may be admitted, resolve
or trap at any moment; in the service any guest operation may make another
thread ready; a provider's guest may call, wait or drop at any moment. So what the
separate modules show holds with the neighbours they stand for. `ProducerPump` is
composed with `HostStreams`, the TCP sockets with the byte streams, the filesystem
backends with the provider, `Instantiation` with the loader, `ValueCrossings` with
the ABI below it.

**Scenes.** `MCLoading` and `MCProviders` extend several models that share no
variable. The variable `scene` chooses one of them in the initial state; the others'
variables rest in one initial state and their actions are disabled. The states
of such a run are those of its scenes side by side, never their product, and an
invariant of one model is checked over its scene.

In all modules an operator named `X_Y` is `X` with the slip `Y`; no specification
uses it, and the mutants of `PROJECT.json` put it in the place of `X` to show that
a property notices.
### Streams and futures

`owner`, `state`, `event`, `syncWait`, `inSet` belong to an end (`CopyEnd`, a
`Waitable`); `slot` and `dropped` to the shared object; `abandoned` is
`abandonReason`. A pending event is the thunk that the code stores, so the
three kinds of thunk are values of `event`, and `Take` does at delivery what the
thunk does: reclaim the slot, read `dropped`, report progress. `Copy` has one action
per branch of `SharedStreamImpl.read` and `write` (dropped, park, exchange,
empty handshake, replacement). A guest receives an event by returning from a
blocking built-in, from a wait on a set, by polling, or by cancelling, which
takes the armed event or retracts the parked operation. `Teardown` follows the
two passes over a poisoned table. Elements are counted, never stored. Bounds:
`MaxLen` (longest buffer), `MaxMoved` (elements per run), `MaxOps` (copies per
end of a future).

### Admission

`ahead[t]` is the order of `Store.waiting`: the waiters listed before `t`. `Fifo`
chooses between the default schedule and the seeded shuffle. The five kinds of
call differ in gating and in the slot exactly as `needsExclusive` and
`enterImplicitThread` say. Core code is one place, `core`, in which every
built-in may be called; poisoning stops the tasks of an instance except a
`nested` one, which runs under its caller's task. `BackpressureLimit` stands for
2^16, and the counter has its own trap at both ends.

### Subtasks

`told` is the latest status the guest was given, by the call's return value, an
event or a cancel. `park` is what the calling frame waits for: the deferred
report of `createAsyncStartCall` or one of the two forms of `subtask.cancel`.
`Jspi` chooses whether frames can be suspended at all. A callee is at the gate,
running, parked or over; cancelling it at the gate resolves the call before it
started. Host calls are cancelled promptly or deferred (`deferCancel`).

### Store service

A thread is one export call with its implicit thread. `place` is where it
stands between the scheduler and the engine: the code's `waiting` and
`awaiting` lists are sets of places (`InWaiting`, `InAwaiting`), and an entry hop is a
frame that is awaited but not suspended for good. `call` is what the embedder's
promise will hear. `driving` names the synchronous prefix on the stack, `pc` the
coordinator: the head of its loop, the inner loop over ordinary steps, the
charge after a step, the verdicts, or a handoff. One action is one segment that
JavaScript cannot interrupt, or a part of one with `pc` or `driving` set;
microtasks, timers and host promises act only between segments, and timers only
when no microtask is left (`Quiet`). The slot `hostFailure` holds whose failure it is: the
call whose host import failed, or a destructor (`Dtor`); a failure that settles while
another waits replaces it, as `exec/boundary.ts:2181` does. `heard` is the failure that a call
was told and `thrown` the one that a driver has taken. `Effects` lets any piece of guest code make
any thread ready or start a host call, for which guest operations do so is the other
modules' subject.

Abstractions to know of:
- the counter of the quantum stays at zero where the code takes it below zero,
  which the code's test treats alike;
- a verdict poisons its instance at once, the code one promise reaction later;
- while the coordinator waits for a microtask (`pc = "micro"`), frames it has
  just claimed do not run yet: the attribution of a continuation adds a reaction
  in front of the frame;
- a plain call, whose core functions cannot suspend, runs them to the end.

The constants `MayCallHost`, `MayStall`, `MayBeCancelled`, `MayBlockSync`,
`MayFail` and `DropsFail` say what the calls may do, so that runs can be kept small.

### Resource handles

One resource type, implemented by `Impl`. A handle is a slot of a table, a wrapper
of the host, an argument in custody of a call, or a call's result. The kinds of call
(`export`, `sync`, `async`, `import`) differ in who lifts and lowers and in when
scopes end, as `boundary.ts`, the FACT intrinsics and the import adapter do. Drops
of a lent wrapper wait for its last lend (`pending`), drops in a table remove first and put
back on a trap. Abstractions: a destructor runs in one step (it may not re-enter
the table it is dropped from); a table takes any empty index, not the free list's
first; reallocation of prepared arguments is not a window of its own; once an
instance is poisoned `BorrowProtects` asks nothing, since teardown drops handles
under borrows by design. `HostLeaves` allows a host import to settle while a
borrow it was given is still lent on: see the observations.

### Host streams, pumps, handles

`HostStreams` keeps one record `s` for the rendezvous with both its ends; the
synchronous chain of callbacks of one call is one step, what an await defers is a
step of its own (`SessionResumes`, `WriteAllResumes`). Left out: `activity.pump`,
and a callback that operates the stream inside its own direct session, which
`src/contracts/embedder-api.md:571` forbids. `ProducerPump` starts when the stream
has been lowered; a pull, a write and the cleanup are awaits; "plain" iterators, with
no cancel hook, may hang in a pull for ever; a cleanup is assumed to settle.

`FutureHandles` has one handle at a time (aliases are left out), asynchronous built-ins
only, and another guest on each side. `StreamHandles` abstracts the rendezvous to
parked and settled operations, for `HostStreams` has it, and concentrates on what
the handles add: operations queued before the binding, re-entrant calls while a
chunk is prepared, and deferred ends.

### Host imports, activations

`HostCalls` is one import function that may be called from any instance while its own
host code is on the stack. End hooks are assumed not to throw, and which
instance may be entered when is `TaskAdmission`'s part.

`Activations` has the queue of microtasks with what the bridge puts there (sentinels)
beside what the engine does (chunks of wasm). "Engine continuation timing can interleave
other claims between the sentinel and wasm chunk; adjacency is not guaranteed"
(`jspi/bridge.ts:253-255`; the same at `:281-282` and in `task/scheduler.ts:708-712`, and measured by
`src/runtime/tests/context_attribution_test.ts`), so both kinds of engine are modelled: with `adjacent` a
chunk follows its sentinel at once, without it any number of other sentinels,
settlements, entries and chunks may come between. The other jobs keep their order. `exclusive`
chooses between tasks that hold their instance while their wasm is suspended and
others. `Attributed` says what the code can promise: a built-in that is
resolved by its instance (`currentThreadForInstance`) gets the activation whose wasm called it, unless
another thread's activation of the same instance is claimed as well, which
`task/scheduler.ts:710-712` excepts; the same of unscoped lookups only under a synchronous bracket
or in an adjacent engine. Where an unscoped lookup has found a sibling (`misled`) the model
stops, see the [observations](#observations). An entry's settlement is
one microtask and the brackets of an entry are one step; only imports wrapped as
`Suspending` are included; one store.

### From bytes to a running component

`ArtifactCaches` takes every file-system call of `DirCache` as a step that may fail
or be the last of its process; an entry's file is empty, partial, whole or a leftover
with one of four faults the reader tells apart. `ModuleCache` gives instantiations plans
and bytes from different translations and lets the engine refuse at random.
`ImportVersions` registers up to `MaxKeys` of fifteen keys in any order, with
prereleases, build metadata, `@0` and tracks; its keys stand for interface ids (with
"/" or ":"), the only ones for which a near match is refused.
`PlanLoader` is the loader's checks as predicates over wire documents;
`Instantiation` links a chain of three guests with two FACT adapters and function
exports, sound or with one fault, and then calls in: the physical stack says which
import would trap the engine.

### Values

`CanonicalAbi` scales bytes: a byte has `ByteValues = 2` values, and all widths, thresholds
and limits scale with it, so that overflow, sign, joined lanes and alignment
occur with small numbers; a NaN is a pattern in the top quarter; a character is its
class in `CanonicalStrings`, which is what encodings and transcoders tell apart.
A pointer is a block number, and a block keeps its size and alignment, so a store
past it or off its alignment shows, which `ValuesCross` forbids (`WritesFit`).
`ValueCrossings` lets the host spell values (also wrongly), a guest
forward them to another guest of any encoding, or spoil them. Text that is spoiled before it is
forwarded traps in the adapter or the transcoder, as `intrinsics/transcode.ts:93-122` does for UTF-8
and UTF-16; any byte is Latin-1. Left out: limits on
sizes, 64-bit memories in the transcoders, the unboxing of results; fields, flags
and cases go by index; a mangled value stops after the facade's preparation.
Guest bindings and the FACT adapter are external.

### WASI

Sockets: the guest's calls come before microtasks (`Turn`); the network chooses the
outcome of dials and binds, what the peer sends, resets and answers; a write that is
answered includes the next link of the chain; a late write destroys the connection;
one guest task at a time is parked. Calls that are refused change nothing and are left out
in `TcpSocket03` and `UdpSockets`, as are the tcp options. In the 0.3 track at most
one `listen` is made (`MaxListens = 1`). Node connects a numeric udp address at once and
calls back a turn later.

Files: `FsTree` is the host, with symbolic links and `MaxLinks = 3` for 40. On node a
call is one step, on OPFS a step per await, and two calls are in flight. Path parsing
is on segments; times, sync and hashes are abstract; OPFS fails by quota at a write;
with `move()` the first call is a rename, and the second call is one that can get
in the way of the first (`First`, `Second` in `MCFilesystem`). What a stream answers is compared with the disk
if no other call changed its file meanwhile (`quiet`).

HTTP: one exchange with a response a guest makes itself besides; fields with
permitted and forbidden entries, request options with delays up to a platform timer's longest,
a transport that answers, fails or stalls, a body that is read chunk by chunk or
dropped at every await.

## Runs

Twelve runs, ten that pass and two that show a disagreement. "States" are distinct
states.

| Run | Instance | States | Question |
|---|---|---|---|
| `stream` | 2 instances, buffers to 2, 2 elements, fair | 968 092 | Do counts and drop notices agree at both ends, is a guest blocked on an end released when its peer is gone, is the contract implemented? |
| `future` | 2 instances, 2 copies per end, fair | 31 492 | Is the future contract implemented: one value at most, final completion, a trap for the abandoned reader? |
| `admission_safety` | 3 calls, any order of scheduling | 1 255 558 | One holder of the slot, order at the gate and of cancellation, no code after a trap? |
| `subtask` | 2 calls of any kinds, fair | 150 730 | Do resolutions arrive by one way, does a parked cancel return, is the contract implemented? |
| `store_safety` | 2 suspending calls, 1 instance, everything allowed | 3 209 255 | Lost wakeups, wrong or double answers, host failures told twice, or to nobody though not replaced, unsound synchronous traps? |
| `store_progress` | a suspending and a plain call, 1 instance, fair | 381 742 | Is a verdict given only when the store is stuck, and to every call that has a driver, does nobody starve? |
| `resources` | 3 instances and the host, 3 calls, 3 wrappers, 1 resource | 552 917 | One owner or one destruction; are borrows counted, do they end with their call and keep what they borrow alive? |
| `host` | buffers to 2, 4 elements, 2 pulls, 2 transfers, fair | 164 389 | Does the arm track what the host can do, is the host told of its own progress, is nothing the pump made lost, does it end? |
| `loading` | nine scenes | 3 211 481 | From bytes to calls: see below |
| `providers` | six scenes, fair | 719 949 | The providers: see below |
| `admission_poison`, `tcp_receive` | see [findings](#findings) | | |

The scenes of `loading` and their properties: the artifact cache (`HitIsWhole`),
compiled modules (`OwnModulesOnly`), versions (`OrderIsImmaterial`), plans and
linking (`SuspensionFits`), calls of an import (`CallsSettled`), values
(`ValuesCross`), one future of the embedder's (`FutureSettles`, 9 194 states),
one stream pair (`WriterAnswered`, `HandlesTold`, 652 123), activations
(`Attributed`, 1 285 088). The scenes of `providers`: a 0.2 tcp socket (`NoLostWake`,
`DropWakes`, 164 407), a 0.3 one (`SocketAccounts`, `AcceptRetires`, 63 544), a udp
socket of either track (`DatagramsHeard`, 92 162), an address lookup (28), files on
node and on OPFS (`GrantHolds`, `FilesAccount`), an http exchange (`ExchangeSound`, 51 372).

**What the compound properties say.** `EntryOrder`: nobody overtakes at the gate, and a
requested cancellation is delivered before any other event. `OwnAnswer`: a call's answer is
final, and a host failure leaves its slot by failing one call that hears that very
failure, by a driver that gives it back, or replaced by a later one; whose call it fails
is not promised ("The consuming driver need not belong to the originating call",
`task/scheduler.ts:893`), and a failure that is replaced is told to nobody. `NobodyStarves`: timers get
their turns and deferred calls start, unless in vain. `ValuesCross`: values come back canonical,
only values of the type do, and stores stay in the block that `realloc` gave.
`GrantHolds`: a change was permitted by the descriptors of the call that made it and, on OPFS, is at
or below what that call named when it began. `BorrowsSound`: counters equal the lends, no
borrow handle outlives its call, a deferred drop waits for a lend that is out, what
is borrowed is not destroyed. `CallsSettled`: the carrier holds its own call's result,
borrows end when the call does, and the custody of a result follows it to the
caller or to its release, once. `FilesAccount`: what streams reported is what is on
the disk, nothing outside the preopen changes, a rename keeps its file, and no
descriptor is minted with more than its base. `ExchangeSound`: bodies are released,
`ok`, trailers and errors are what happened, and trailers are told once the reader is over. `DatagramsHeard`:
no receive waits beside a datagram, a failure or a close, and a connected socket hears its peer only.

**Why these bounds.** A rendezvous has two ends and one slot, and every
interaction is between them; two instances are the least with which an end can be
transferred, and with buffers up to 2 a copy can be partial on either side, be
completed by a second one, or be empty. `NumberPayload` TRUE is the weaker guard
(copies within one instance are allowed). Futures cancel and
retry once. At the gate the third call is the one that could overtake the second
while the first holds the slot. Two asynchronous calls are needed for
one to act on the other's state through the shared callee and caller; more add
only repetition, and the proofs cover any number.

In the store, one call is served while the other interferes. `Quantum` is 2 for
the code's `WORK_QUANTUM` of 8: it must be more than 1, since with 1 every step would
hand off and the inner loop, where admission competes with ready threads, would
never run twice; more than 2 repeats the same situation. `store_safety` allows
everything in one instance, and its plain calls are left to the other run;
`store_progress` adds a plain call, and the suspending call may await a promise the store does
not know, so that the idle policy that gives up hops occurs (`HopsGiveUp`). No
synchronous callee blocks there: its effect on progress is the subject of the observations below.
What the run promises is said for that case only: `DeadlockReported` of calls that have a driver or wait,
while no frame awaits an unknown promise; `DeferredStarts` of deferred calls that are not
in vain (`InVain`: the instance is poisoned or one of its frames awaits an unknown
promise, or a host failure waits that nobody takes).

Resources need three instances for a borrow to be lent on and three calls for a
nested one beside a concurrent one; one resource suffices, since a handle names no
other. In `host` two pulls make a straggler follow a whole batch, and two hops take the
reader to a guest and back. Two processes with one fault and one crash let one process read
what another left half done or is replacing. Three instantiations of two plans let
one join a compilation that another started with other bytes. Two host calls can
nest, share the carrier and cancel each other; two threads with two nested
activations and two traps give every order of bracket and claim. A socket's
`HighWater = 2` (65 536 in the code) is full after two bytes, so it is reached, exceeded and drained; queue limits are 1
or 2 for the same reason. Two filesystem calls give one interference; the disk has a file,
a directory, one link out of three that lead out, in or nowhere, and one file outside.

Symmetry is used in `resources` only, for the instances that do not implement the
resource; that run has no liveness.
`CHECK_DEADLOCK FALSE` is in every configuration: guests may finish, all ends may be
gone, counters are bounded, scenes come to their end, and a store may idle for ever.

## Fairness

- Streams and futures: `WF` of the resumption of a thread whose condition holds
  and stays true (the service resumes ready threads). Nothing is asked of guests: they
  need never read, write or poll.
- Subtasks: `SF` of a parked `subtask.cancel`'s resumption, because its
  condition can be true, be made false by another thread and be true again, and a
  FIFO scan comes back to it; `WF` of a callee's hop, since the engine finishes
  what it runs. Callees need not resolve.
- Store: `WF` of `JavaScript`, the code on the stack and the queued microtasks,
  which the event loop always runs; `SF` of `Timer`, because a due timer fires once
  the microtask queue is empty again and again, with `PlatformTurns` showing that it
  is. Host promises, the embedder and promises of the guest's own are under no fairness.
- Pumps: `WF` of the pump's own steps and of the continuations of `writeAll` and direct
  sessions, which are promise reactions; and of a pull that has been cancelled
  (`reader.cancel()` or the hook settles it), which is why only cooperative producers
  are promised an end.
- Sockets: `WF` of microtasks, of waking the task whose promise fired, of the platform's
  answer to a dial and a bind, and of the failure of writes on a connection that is gone; and of the continuations
  of an accept generator and of a receiver. Peers
  need never answer, send, connect or close.

## Proofs

Eight modules `*_proofs` hold theorems about eighteen models; every leaf is checked by tlapm.
`Futures_proofs` is about `FutureRendezvous` and `FutureHandles`; `HostSide_proofs` about
`HostStreams`, `ProducerPump` and `HostCalls`; `Embedder_proofs` about the two caches,
`StreamHandles`, `ImportVersions` and `SubtaskCalls`; `Providers_proofs` about the
sockets and the http exchange; the others about the model they are named for.
They hold for every value of the constants under the modules' named assumptions: any
instances, any buffer length, any number of tasks (finitely many, since the gate counts
them), calls, handles, processes, faults, crashes, connections, datagrams, keys of imports, chunks and
operations of a stream handle, headers of a request, any quantum of the coordinator, both
schedules, both modes of suspension. Each proves `Init => IInv` and
`IInv /\ [Next]_vars => IInv'`, one step per action, and derives its theorems from the
invariant.

- **Streams.** None of the properties is inductive alone. That the slot is a live
  operation depends on what an armed event will do to the slot when it is
  consumed (`EventFitsState`), which depends on there being no two waiters on an end
  (`SyncWaiterExclusive`) and on what DONE means (`Bookkeeping`); `Conservation` needs all
  of them, since progress not yet reported is in a buffer whose event must
  still be there. Proved: `TypeOK`, `SlotIsLiveOp`, `Conservation`,
  `DropObservable`, their conjunction `NothingMissed` that the run checks, and that every step is a step of
  `StreamContract` or a stutter.
- **Futures.** `EventMeaning` and `LastMeaning` say what each pending event and
  each last result imply of the shared object; with them `CompletionIsFinal`,
  `AbandonedReaderTraps` and the refinement of `FutureContract` follow.
- **Admission.** `Together` relates a task's kind, place, state and outcome. The
  count of waiters is a second induction with the library's facts about
  cardinalities. Proved: `TypeOK`, `ExclusiveSlot`, `WaitersCounted`,
  `NoSilentExit`, and of every step: nobody overtakes at the gate and a cancellation
  that was requested comes before any other event (`EntryOrder`), an answer is not
  changed (`ResolvedOnce`), and poisoning stops the tasks of the instance
  (`PoisonStopsTasks`). The action properties hold of one action at a time; where a
  task enters core code is one lemma (`EntersCore`).
- **Subtasks.** `CallInv` is per call, and a frame lemma (`SameInv`) carries it over
  to the calls a step does not touch. Proved: `TypeOK`, `ResolutionObservable`,
  `ClaimExclusive`, `ResolutionReported`, `NeverStarted`, `DiscardedNotPending` and
  the refinement of `SubtaskContract`.
- **Caches.** A hit is whole whatever processes die and whatever calls fail.
  `CacheInv` says that an entry in place is whole or a leftover whose fault its reader
  sees (`EntryWhole`), that a temporary directory holds what its owner's place in the
  code says it has written (`TmpFilled`), and that what a reader has seen so far is
  whole, file by file (`SeenWhole`). For compiled modules `ModuleInv` says that a plan's
  slot names a job for that plan (`Slots`), that an instantiation waits for or uses a job
  of its plan (`Uses`), and that a job that was compared with its bytes fits them
  (`Fits`); so an instance runs its own modules.
- **Host calls.** `HostInv` is `Sound` of each call (how its place in the code, its
  subtask, its borrows and the custody of its result go together) and
  `CarrierHoldsOwn`, for any number of nested calls and callers.
- **Handles.** `SoleOwner` counts owners in four places (tables, wrappers, arguments in
  custody, results) and is inductive only with everything a handle's number is good for:
  `HandleInv` has the types, that `lends` of a slot and of a wrapper is the number of open
  calls that hold it (`LendsCounted`, `WrapperLends`), so that what is not lent is named
  by no call, which handles a call of each kind can have in each phase (`KindSound`,
  `StackSound`, `RefsSound`), and `Sole` of each resource. Owners are tagged with their
  place, so that moving one is removing a tag and adding another; tables must be finite
  (`FiniteAssumption`) for the count to mean something.
- **Borrows.** `BorrowsSound` says in part that what can be borrowed is not destroyed.
  The step from a borrow to the owner may pass through several calls that lent on
  what they were lent, so it is no invariant of one step. `Linked` says
  that each borrow of a call leads, by a handle or wrapper lent to that call, to
  an owner or to a borrow of an older call. Of the calls that borrow a resource take the
  oldest: what was lent to it must be the owner itself, which is lent, and what is
  lent is neither dropped nor moved. (This is an induction over the numbers of calls,
  by their least element: `Backed`.) `Linked` lasts until an instance is poisoned,
  after which nothing protects what is borrowed and the rest of the property follows
  from `HandleInv`. The theorem has the hypothesis
  `~HostLeaves`, as the run has: where a host lets an import settle while it
  lends on what the import was given, the property is violated (see
  [observations](#observations)).
- **Host streams and pumps.** A call of a host stream is one step made of a chain of
  operators on the record `s`, and in the middle of the chain the invariant does not hold:
  an operation that has arrived is neither parked nor told its result. So `Held(t, X)` is
  the invariant of a record with the ends in `X` let go, each operator of the chain has a
  lemma that says what it takes and gives (`ArrivesHeld`, `OfferedHeld`, `DroppedHeld`, ...),
  and an action is their composition. `Held` relates of either end its operation,
  the slot, the session, the event and the count of what crossed, and of the writer
  the helper of `writeAll`; from it follow `HostOpsTold` and, with `Armed` (who holds the
  readable end, and which hooks have run), `ArmTracksRetention`. `PumpSound` needs besides
  it what no other step does to the writer (`KeptW`), that a `writeAll` that stops short does
  so only on a dropped stream (`Fed`: each of its writes is taken from, or the reader
  is gone), how far the producer is (`Course`), and an account of batches
  written, in hand and released (`Writing`, `Between`).
- **Sockets.** Of a 0.2 socket `SocketInv` is `NoLostWake` with the types and an account of
  the output stream: what the guest may still write is what the sink has not answered,
  a sum over a queue of any length. A lemma (`Covers`) asks of each step only that it signals
  every pollable it makes ready. Of a 0.3 socket `TcpInv` says that the references are its
  holders (the handle, the accept streams that are not over, the two pumps), so that
  the connection is closed by the last of them and not before, and what each pump's place
  in the code has told its future. Of a udp socket `UdpInv` says that the waiting receives are those parked,
  once each, while the queue is empty and the socket open, and that a pair's remote is the
  one the socket is connected to; so no receive waits beside a datagram, and a
  connected guest hears its peer only.

- **Store service.** `Book` says that the deferred entries are distinct and are the calls
  marked deferred (`Queued`), and what the answer of a call is while it is driven, will
  be driven again after a handoff, or has thrown to its driver (`DriverSound`); with it a
  step answers a call at most once, and a host failure goes to one call, which hears this one (`OwnAnswer`).
  `NoLostWakeup` is not inductive: while the coordinator runs, it owes nothing for what it has
  still to look at, so the invariant must say what it has looked at already. `Passed` does, point by
  point of its loop: an admissible entry or a synchronous obligation behind
  it has set `requested`. `Placed` keeps calls that have not started out of the store's
  lists. The theorem has the hypothesis
  `PlainAlone`, that a plain call is made only into a store of one instance: the first of
  the [observations](#observations) is what happens otherwise.
  What a probe means is said by `ProbeInv`. `ProbeSound`: the frames a probe names are awaited
  as long as it lasts, and once the platform has had its turn each of them is suspended,
  awaits a promise the store does not know, or has its settlement queued. That holds because
  timers fire only when no microtask is left, because an awaited frame is never resumed
  while the probe lasts (`DriveSteps` wants nothing awaited, the drain's own steps drop the
  probe) and because past the top of the loop there is no probe (`Clocked`). With the parts that
  tie places to lists (`Tailed`, `Blocked`, `Owed`) it says that the trap of a blocked
  synchronous callee is sound (`SyncTrapSound`). For the other probe the same is
  invariant only where no synchronous callee blocks, so the theorem on `VerdictSound` has the
  hypothesis `MayBlockSync = {}`, which the run that checks it also makes; the fourth
  observation is what happens otherwise.
- **Future handles.** `FutureInv` is about either end of the rendezvous and who holds it
  (`EndSound`: what the holder waits for, its event and its result agree with the slot),
  why the future ended (`CauseSound`) and who can have been told (`ToldSound`, `EndedSound`),
  the arm (`ArmSound`), where the value is (`CopiedSound`), the queue of reactions of
  the handle (`HandleSound`) and the producer's promise (`ProducerSound`). Steps have
  lemmas on the record, as in the host streams; in the middle of a drop the flag
  is set and the other end not yet told, so `EndedSound` is restored last. `FutureSettles`
  follows: nothing waits on a future that has ended, and what was answered is what happened.
- **Stream handles.** `StreamHandleInv` relates the low-level stream (`LowSound`,
  `TrapSound`), the writer's operation on it (`WriteLinked`: what readers took is what the
  writer was told and what its write in flight has got), the account of chunks while a
  write is below (`ChunksOf`), the binding with its queue (`BindingSound`) and the handle
  that reads (`ReadSound`: a read that settled with nothing was cancelled or found the end).
- **Import versions.** That the order of registration does not matter compares the
  resolver's table with a definition over the set of keys. The invariant says that a
  track is claimed by a registered key that is on it (`ClaimedByOwn`) and that none of the keys
  registered so far is above it (`Served`); precedence is proved transitive,
  prereleases included, and the keys are as they are parsed (`KeysAssumption`).
- **Http.** `HttpInv` says what a request's fields are once it is made (`FieldsTaken`), how a
  send that takes it relates to its transmission (`RequestSound`), how far the transport is
  for each place of the send (`Dispatched`), and who holds the body of the response
  (`ReplySound`); `ExchangeSound` follows from it: no body is open without a holder, and answers,
  trailers and errors are what happened.

Only model-checked, and why:
- liveness, which is out of the prover's reach: `NoHangOnDeadPeer`, `CancelReturns`,
  `DeadlockReported`, `NobodyStarves`, `PumpEnds`, `DropWakes`, `AcceptRetires`;
- what recursive operators compute on data: `ValuesCross`, the paths of `FilesAccount`;
- `SuspensionFits`: which instance can suspend is a recursive function along the chain of
  instances, and what it says of every length is an induction over data;
- not proved: `Attributed`, and `GrantHolds` with the rest of `FilesAccount`.

## Findings

Two runs show the code doing what a document or a comment says it does not.

1. `admission_poison`. A deferred enter-sync-call checks `entryRefusal` before it
   parks at the gate and not when it is admitted (`intrinsics/mod.ts:477`), and the
   scheduler's filter looks at the caller's instance. An instance poisoned in between
   is entered, though "later entry names the original cause"
   (`src/docs/architecture.md:329`).
2. `tcp_receive`. The 0.3 `receive` returns its generator without a cancel hook
   (`wasi/internal/sockets_03.ts:847`), so a reader that is dropped while the peer is
   silent leaves the pull waiting: the future is never told and the connection stays
   open. "Dropping the stream's reader (guest SHUT_RD) stops the pump, discards
   queued data, and settles the future ok" (`wasi/internal/sockets_03.ts:804`).

### Observations

Met while modelling or by varying constants, without runs of their own. Where a
sentence of the repository says otherwise it is quoted; the rest are facts about the
code that a property had to step around, stated here so that a reader knows what
the properties do not cover.

**Store service.**
- A plain entry that makes a thread of another instance ready and then traps leaves
  `invokeNow` through a catch block that requests no service (`exec/boundary.ts:1371`);
  the thread waits until something else happens. "Scheduler state transitions record
  their result first, then request service" (`src/docs/architecture.md:276`).
- A host failure with no waiter ends every drain before it serves deferred entries
  (`exec/boundary.ts:821`); a deferred call then neither starts nor hears of the
  failure. "Background faults are recorded for pending operations and subsequent
  entry" (`src/contracts/embedder-api.md:177`).
- A destructor's failure is recorded without a request of service
  (`embedder/resources.ts:124`): with `DropsFail` TRUE, the formula
  `Asleep /\ hostFailure # Nobody /\ Waiters # {} => scheduled \/ yielding` is violated. A
  waiting call hears of the failure only when something else wakes the drain.
- The hop probe is compared by the identity of the hops
  (`exec/boundary.ts:883`), and the path that serves a blocked synchronous callee
  (`exec/boundary.ts:831-874`) leaves it alone. An entry that was probed as a hop, and then
  parks as such a callee, finds the probe elapsed when it is resumed: the next pass of
  the same drain gives the call a deadlock verdict, though its frame is about to run.
  So `VerdictSound` is violated with the constants of `MCStoreSafety`
  (`MayStall = {t2}`, `MayBlockSync = {t1}`, no plain call) and is
  checked where no synchronous callee blocks. "Apply idle policy after an unsettled implementation
  hop has had its one event-loop opportunity to become a real park or queue its own
  settlement" (`exec/boundary.ts:781-782`); this hop has had none.
- The verdict on one deferred call of an instance can leave the instance's next one
  unanswered: with three calls, of which two are deferred into an instance that a
  deadlock verdict poisons, the first is refused (`exec/boundary.ts:915`) and ends the
  inner loop, and neither the verdicts nor `hasRunnable` look at the deferred entries
  (`exec/boundary.ts:928-933`), so the drain returns and nobody asks for another.
  `NobodyStarves` therefore promises a deferred call its start or its refusal unless
  its instance dies, and `NoLostWakeup` counts only the entries that can start
  (`Startable`).
- A call driven again after a handoff loses its driver when the step it makes traps
  another instance: the rejection handler takes the scheduler's failure as that
  instance's and returns (`exec/boundary.ts:1455`), where the synchronous prefix
  would drive the call again. Nobody waits for it any more, so it gets no verdict (the
  answer `"lost"` of the model): a `DeadlockReported` that does not leave such calls out is
  violated with two instances and `Plain = {t2}`.
- Steps made for a blocked synchronous callee are not charged to the quantum
  (`exec/boundary.ts:831`): `PlatformTurns` is violated with `MayBlockSync = {t1}`,
  no plain call.
- A hop that arises inside the drain's inner loop gets no probe until the drain
  runs again (`exec/boundary.ts:883`): with `MayStall = {t2}` and no plain call a sync-typed call can wait
  for ever though the store knows of nothing else that could go on. `DeadlockReported` therefore
  promises nothing while a frame awaits a promise the store does not know.
- A host failure that settles while an earlier one waits untaken replaces it
  (`exec/boundary.ts:2181`), and no call ever hears of the earlier. "Background faults are
  recorded for pending operations and subsequent entry" (`src/contracts/embedder-api.md:177`); `OwnAnswer`
  allows it by name.

**Handles, streams and futures of the host.**
- A host import may settle while the borrow it was given is lent on: its wrapper is
  invalidated first (`embedder/resources.ts:236`, `embedder/instantiate.ts:443`) and the
  call that has the lend goes on. With `HostLeaves` TRUE `BorrowsSound` is violated.
- A trap in a synchronous callee leaves the borrow handles of its scope behind
  in its dead table, which a test accepts
  (`src/runtime/tests/integration/e2e_suite_test.ts:185`).
- `StreamWriter.close()` on a pair that is not bound, and then `stream.drop()`, throws a
  `TypeError` (`embedder/streams.ts:466` and `:539`), where
  `src/contracts/embedder-api.md:432` has "Disposal is total and silent".
- `Future.takeValue` (`embedder/streams.ts:831`) does not look at the dropped flag;
  `drop()` of a future that was lifted and passed on abandons it though its writer is a
  guest; `cancel()` on a future of the host's own that came back cancels the
  producer's parked write, never settles, and stays armed; `cancel()` before the first
  await of a deferred future cancels the await that comes later; after an ordinary
  delivery of the host's own future the activity stays armed until the guest drops.
- `suspendingImport` takes the owner of a suspension, `blockCurrentActivation` the thread to
  park and the exit of a synchronous call its scopes by unscoped lookups (`jspi/bridge.ts:320` and
  `:763`, `currentTask`). In an engine that is not adjacent these can find a sibling
  whose sentinel ran last: `~misled` is violated by two threads of two
  instances that resume one after the other. The fallback of context lookups was scoped by instance for this
  (`task/scheduler.ts:708-712`); the test of chunks says the sentinel is "contiguously
  ahead" (`src/runtime/tests/jspi/chunk_attribution_test.ts`), and the comments at
  `jspi/bridge.ts:253-255` that this is not guaranteed.
- The claim of a nested activation whose built-in threw on the spot is never
  released (`jspi/bridge.ts:343`; `haunts` in `Activations`); the comment at
  `task/scheduler.ts:548-556` has claims released on parking and on completion or rejection.

**Loading and values.**
- A facade `{kind: "some"}` of a nested option without a value is prepared as null
  (`embedder/values.ts:579`).
- Links through a table escape the evidence of suspension, though the bridge's header
  (`jspi/bridge.ts:11-22`) wants every entry that can reach a blocking built-in wrapped.
- The temporary directories of puts that crashed are never cleaned; the bytes of
  adapters in a cache entry are compared with nothing; the web cache takes an entry
  that lacks an adapter for a hit of its plan.
- `resourceTables`, `streamTables` and `types` of a plan are not looked into by the
  loader: a fault there is met by the executor.
- `x@0.0` is taken for a track key (`embedder/version.ts:137`); of two equal versions
  that differ in build metadata the first registered serves.

**Providers.**
- On 0.2, `shutdown` of a tcp socket orders its FIN after the last link of the chain of
  writes that there is when it is called (`#lastWrite`, `wasi/internal/sockets_02.ts:689`),
  so a write accepted before it and still queued may come after; the comments at `:294`
  ("shutdown(send) FINs after them") and `:663` ("FIN after everything the output stream
  already accepted") have it after them all. A dial that is made after its socket was
  dropped keeps its connection in one order of events (`:717`).
- On 0.2, a udp `stream` to another peer reconnects under the first pair (`:843`), and
  start-bind with a cached option that is refused leaks the platform socket on retry.
- On 0.3, of two listens that overlap the replaced listener is never closed
  (`wasi/internal/sockets_03.ts:667`); `closeWrite` resolves even when `end` fails;
  an accept or receive generator that is never started would never let go.
- http: some exits of `send` never settle the transmission future; the comment on a
  request's dispose says why one must ("a pending future the guest awaits would otherwise
  hang forever", `wasi/http.ts:743-745`).
- Files on OPFS: of two writes that overlap the first one's commit is lost; a rename that
  falls back to copying, onto the same name, copies and then deletes
  (`wasi/filesystem_web.ts:397-410`); what is probed may change before it is used.
- Files on node: a stream keeps its file number after its descriptor is disposed;
  of `link-at` only the guards see that links are to be followed; an absolute link that dangles
  is refused otherwise than one that leads outside; a short write loses the tail.

## Not modelled

- **Thread built-ins** (`intrinsics/thread_builtins.ts`): explicit threads share the
  waiting list and the drain; their own operations are few.
- **Shared protocol**: brands and marker symbols without state.
- **WASI cli, random**: stateless calls. **Clocks**: timers of the platform.
- **Translator and generators** (`src/crates`): sequential Rust programs.
- **Conformance runner, harness, tools, benches, examples**: test and release tooling.
- Within modelled components: element bytes; sets of several waitables and their
  round-robin; direct synchronous lifts of stores that never suspend; retention by host
  streams as the store service counts it; refusal of synchronous exports on entry
  hops; registries of host-implemented resources; byte views of direct sessions and
  adapters to `ReadableStream` other than the pump's; finalization of wrappers; the
  casing of names; types, resource and stream tables of a plan; 64-bit memories in the
  transcoders; options of tcp sockets, permission checks and the Deno backend;
  directory streams, times and hashes of files; parsing of header values.
  Components that have such a gap are `partly` in `PROJECT.json`.

## Plan

Done: every module above. Left, in this order:

1. Proofs of `Attributed` and of `GrantHolds`.
2. `WaitableSets`: several waitables, round-robin, waiters on one set.
3. An abstract specification of the store (each call deferred, running, answered)
   that `StoreService` implements; one of the byte stream that `WasiStreams` with a socket
   implements.
4. Thread built-ins; the permission checks and options of sockets.
