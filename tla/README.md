# Testudo: verification project

Testudo runs untrusted agent workflows in a contained worker (a Firecracker
microVM or a native macOS container) under a host that admits the work, hands it
over at most once, supervises it, and signs what happened. A desktop application
drives the host through a local server, which also operates remote model seats
over SSH. This directory holds TLA+ models of that host, the TLC runs that check
small instances of them, and TLAPS proofs for the parts that must hold whatever
the constants are. Paths below are relative to the repository.

## 1. Inventory

| Component | Code | State | Operations | Hard behaviour |
|---|---|---|---|---|
| Contained-assignment service | `src/testudo/runtime/assignment.py` | a state root on disk (run directories with `request.json`, `events.jsonl`, `receipt.json`; quarantined directories, tombstones, ambiguity markers) and its image in memory (`_runs`, `_tombstones`, `_envelope_tombstones`, `_ambiguous`) | `start`, `_execute` (a thread per run), `cancel`, `receipt`, `terminalize`, `reconcile`, `reconcile_quarantine`, `_load_durable_state`, `_quarantine` | a crash between any two writes, an `OSError` at one of them, a corrupted file, a cancel racing the run's thread |
| Assignment command protocol | `runtime/assignment_protocol.py` | active secret generation per session, nonce history and budget of each verifier | provision, revoke, sign, `verify`, `handle_command`, `serve_framed` | duplicated, late and reordered frames; rotation between check and use; the budget's last command |
| Host controller and worker | `runtime/controller.py`, `worker.py`, `capability.py` | `_stop_called`, `_active`; `_closed`, `_revoked`, `_wiped`; `_tripped` | `run`, `stop`, `wait`, `_finish`, `trip` | an operator's stop in another thread, callbacks that raise, flags that make clean-up idempotent |
| Firecracker adapter | `runtime/firecracker_adapter.py`, `firecracker.py` | `_active_state`, `_active_controller`, the process handle, `_RunCleanup` flags | `run`, `_launch_binding`, `launch`, `terminate`, `close` | launch failing half way, two runs on one adapter, clean-up without a worker |
| Broker and transport | `runtime/broker.py`, `transport.py` | session state and two sequence numbers | `bootstrap`, `send`, `receive`, `close` | two unlocked sending threads; an untrusted peer |
| Guest session and program | `runtime/guest.py`, `guest/testudo_guest_bootstrap.py` | session state and two sequence numbers | `accept_bootstrap`, `receive_run`, `send`, `serve` | refusing without an answer, dying with frames in flight |
| Runner | `runtime/runner.py`, `docker.py` | `_run_active`, `_active_controller`, run directory, `last_host_receipt`, `last_manifest` | `run`, `stop_handle` | a stop between activation and clean-up; what is shown of a run that failed half way |
| Native container adapter | `runtime/native_container.py` | `_active_handle`, the handle's flags | `launch`, `execute`, `stop`, `terminate`, `revoke_once`, `wipe_once` | run and stop both end the container; unlocked flags; a result that the exit code denies |
| Artifact store | `src/testudo/artifacts.py` | quarantine directories, content-addressed objects, manifests | `export_tree`, `materialize` | a source written while it is copied, a scanner that changes what it scans, a failure between two files |
| Policy enforcement | `runtime/policy.py`, `policy_enforcer.py` | counters, launch receipt and wipe state of an enforcer | `check_mount`, `check_storage_path`, `check_network`, `before_launch`, `before_publication`, `wipe`, `mark_wiped` | expiry or wipe between two checks of one call, symbolic links, the byte limit, another run's receipt |
| Seats: configuration and consent | `src/testudo/seats/service.py`, `config.py`, `consent.py`, `ssh.py` | `seats.v1.json` with its revision, `known_hosts`, tokens in memory | draft, trust, preview, consent, operate, force-stop | concurrent requests between check and use; a host that changes; expiry |
| Seats: control | `seats/controller.py`, `guard.py` | local and remote lock, `state.v1.json`, guard shell | start, stop, probe, force-stop, reconcile | lost answers, a guard that outlives its SSH session, two bridges on one host |
| Orchestrator | `src/testudo/orchestrator/` | outputs and results of a run | sort, resolve, execute steps | cycles, references to failed steps, exceptions that leave `run` |
| Server | `src/testudo/server/` | workflow file, run table, token buckets | `POST /workflows`, `POST /runs`, listings | a save racing a run, one run id used twice, the bucket at its limit |
| Electron bridge | `electron/src/main/bridge.ts` | `child`, `currentToken` | `start`, `stop`, `killChild`, `killSync` | an exit event that comes late, a child that hangs |
| Attestation, signing, publication | `runtime/publisher.py`, `signing.py`, `attestation.py` | checkpoint refs | verify, publish | a partial publication |
| Guest containment monitor | `guest/testudo_containment_monitor.sh`, `testudo_contained_guest.sh` | armed flag, event window | arm, sweep, halt | work before the monitor is armed |
| Host runtime wiring, MCP servers, permissions, sanitisers, audit log, prompts, connectors, outputs, command line | `src/testudo/...` | none or append-only | pure functions, formatting, I/O | - |

How they interact. The command protocol verifies a frame and calls the assignment
service. `AssignmentService._execute` calls `Runner.run`, which runs a workflow on
a Firecracker or native adapter, or on an ungoverned backend. The Firecracker
adapter builds a `HostController` around a binding (lifecycle and broker session);
the controller talks to the guest through the broker session, waits for the
process, and issues the host receipt. `AssignmentService.cancel` reaches the
worker through a stop handle, in the caller's thread. The runner exports what the
workflow left through the artifact store; policy enforcers guard mounts, egress,
launch and publication. The desktop's bridge manager spawns the server, whose
workflow endpoints call the executor or a runner and whose seat endpoints call the
seat service and, through it, the seat controllers. Much of what threads share in
these chains is shared without a lock; the service's registry, the command
verifier, the adapters' claims, the wipe state and the seat files are the
exceptions.

What makes each modelled part correct:

* the service never hands an assignment or an envelope to a runner twice, never
  contradicts a receipt, keeps evidence of handed-over work, and fails closed
  while its own state is ambiguous;
* a command is applied at most once, in nonce order, within the budget, and not
  if it arrived after its secret was revoked;
* every way a run can end kills the process, revokes the token and wipes, and
  receipts, promotion and return come after that;
* a conversation the controller accepts is a complete and ordered one whatever
  the guest does, and host and guest never wait for each other;
* the store holds only what was scanned, under its own digest, and hands out what its
  manifests name;
* an enforcer allows nothing once its run is over, nothing outside its root and
  nothing beyond its limit;
* a seat operation does what the user was shown, one at a time under a lock name,
  and its verdict is true;
* steps run in dependency order on outputs of their own run, and a response tells
  what its request logged;
* the desktop owns the servers it spawned, and each of its calls is answered.

## 2. Modules

| Module | Models |
|---|---|
| `Assignment` | the assignment service over its state root |
| `AssignmentProofs` | its type correctness and all its safety properties, and those of `CommandSession` |
| `CommandSession` | session secrets, verifiers and framed loops |
| `MicroVMRun` | Firecracker adapter, controller, lifecycle, supervisor and clean-up of a run |
| `MicroVMRunProofs` | `CallbackInv` and `FailuresStillCleanUp` for any runs, stops and failures |
| `BrokerProtocol` | host session, socket and guest session |
| `BrokerProtocolProofs` | `AcceptedConversation` and `SharedSessionSafe` for any guest |
| `RunContract` | the abstract promise of a run: opened, one worker, cleaned, promoted, closed |
| `ArtifactStore` | `export_tree` and `materialize` |
| `GovernedRun` | runners over the native adapter and the store; composes `ArtifactStore`, implements `RunContract` |
| `GovernedRunProofs` | the four safety properties of runs and store, and the refinement |
| `PolicyEnforcer` | declarations, enforcers, receipts and wipes |
| `PolicyEnforcerProofs` | its four safety properties |
| `SeatConsent` | the seat service: configuration, trust, consent |
| `SeatConsentProofs` | its three safety properties |
| `SeatControl` | seat controllers, guard shells, the services on the host |
| `SeatControlProofs` | its three safety properties |
| `Executor` | the executor's pure part: sort, references, conditions |
| `WorkflowServer` | workflow endpoints and the executor's run; composes `Executor` |
| `BridgeManager` | the desktop's bridge, its children, token and rate limiter |
| `BridgeProofs` | the four safety properties of `WorkflowServer`, the two of `BridgeManager` |
| `MC*` | instances for TLC: values of the constants and symmetry sets |

A definition marked as a mutant, as written by mistake, or named `X_Something`
and placed before `X`, is a deliberately wrong form of its neighbour. It is not
used by the specification; it records which slip in the code a property would
notice. `PROJECT.json` names the source lines of every other definition.

### Assignment

The variables fall in three groups: files (`dirs`, `req`, `log`, `badlog`,
`rcpt`, `quar`, `marker`), the process (`up`, `todo`, `q`, `runs`, ...,
`thread`) and history (`owner`, `handed`, `envHanded`, `shown`). A
durable write is one step. A crash inside one leaves what a crash before or after
it leaves, except for a temporary file, which matters only inside a quarantined
directory (`litter`). Operations that make several writes under the service lock
are split at every write with `svc` as the program counter, so that a crash can
fall between them: `Start`, `StartRequest`, `StartAdmit`; `Terminalize`,
`TerminalizePersist`; `ReconcileQuarantine`, `ReconcileUnmark`. `_execute` is
`Arm`, `Launch`, `EndRun`, `Finish`, `Persist` with `thread` as program counter;
the promotion of artifacts, and its refusal, decide the status with which `EndRun`
leaves. `Restart` and `LoadDir` read the state root directory by directory, and the
four `Quarantine` steps follow `_quarantine`, `_write_tombstone` and
`_mark_ambiguous`. `Fault(p)` is the `OSError` at write point `p`, and `Rot`
corrupts a file of a run that no live process owns. The operator who reconciles
asserts the envelope that the dispatcher had submitted: an operator who asserts
another can defeat any protection. `handed` counts calls of `runner.run`; the
runner's own `mkdir` of the run directory is a second guard, for assignment
identities only, and is not relied upon.

### CommandSession

Loops take frames from a wire that keeps every frame, so a frame can be delivered
again, late and to another loop. `verify` is split where it releases the
registry's lock (`CheckActive`) before taking the verifier's (`Accept`,
`Refuse`), and routing (`Apply`) comes after both. A history belongs to a
verifier, not to a secret: two verifiers built from the same active secret keep
separate histories and each would accept the same frame once. The properties
state what the code promises, per verifier.

### MicroVMRun

A thread is the list of operations it has still to do. An exception drops the
operations up to the next `catch`; operations that a condition adds go in front.
A test-and-set without a call in between is one step. That is an assumption on
the interpreter, which may in principle switch threads between the test and the
assignment; the external callbacks do not rest on it, since the clean-up object
guards its flags with a lock. External callbacks, the event sink, the kill and the
broker's close may raise, up to `MaxFaults` times, and `faults` keeps which did.
The kill may raise with the process alive or, in the removal of the sockets after it,
with the process gone. Event numbers and digests, output bytes, signatures and timeouts
are abstracted: a receive loop may stream, end, fail or find its token expired.

### BrokerProtocol

A send is three steps as in the code: check the state and take the number
(`SendCheck`), write (`SendWrite`), advance number and state (`SendDone`).
`HostController.run` and an operator's stop interleave these steps freely. Any write
may fail (`SendBroken`), because the guest is gone or because it does not read before
the socket's timeout of five seconds. A write that fails has written nothing: part of a
frame, which the guest could not decode either, is not modelled. A
frame carries its number, its kind and whether its run, token and nonce are the
session's (`own`); a frame that does not decode counts as not own. The guest
either runs `serve` or, from the start, is a program that sends any frame
(`rogue`). Such a guest picks a frame when the host is about to read it, which
loses nothing: the host cannot see what is queued behind the frame it reads.

### RunContract, ArtifactStore and GovernedRun

`RunContract` is what a caller of `Runner.run` may rely on: a call opens and
closes; in between there is at most one worker for all calls, which ends before
its token is revoked and its state wiped, and output is promoted and the call
closed only after that. `GovernedRun` is how runners, the native adapter and the
store do it. A call has a program counter through `run` and `_execute_run`
(`Run`, `Prepare`, `Launch`, `ReadFrame`, `Verify`, `Report`, `CleanUp`, `Close`,
`StartExport`, `End`, with an action for each way to raise) and carries its
container handle; the operator's `Stop`, `StopTerminate`, `StopCleanUp` use the
same handle from another thread. `revoke_once` and `wipe_once` are three steps
each, test, set and call, because nothing locks them: what the model lets happen
is that a hook is called twice, or late by the other thread, and
`CleanedWhenQuiet` states what still holds. The guest sends, exits, crashes or is
ended by its monitor.

`ArtifactStore` has the calls' exports, the quarantine directories, objects,
manifests and one consumer's destination. An export inspects a file (`NextFile`), opens
it and inspects what it opened (`OpenFile`), copies it and inspects it again
(`CopyRegular`), has it scanned (`Scan`), hashes it again and commits it (`Commit`);
another process can write to the exchange directory in between. Such a write changes the
file's fingerprint or not: that has device, inode, size, mtime and mode, so a write of the same
size within the clock's grain, or with the time set back, leaves no trace in it.
`Materialize` and `NextObject` hash an object against its digest, `HashSource` is the
second hash, which `_copy_exact` takes of the same object, and `CopyExact` compares the
copy with that. An object may be damaged before any of these steps; `spoilt` keeps the files to which
it happened between the two hashes. Contents are their own digests; `torn` is a copy of
a file that changed while it was read. File sizes and their limits are left out.

That SIGKILL ends a container's process is assumed: `terminate` waits for it and may
raise `TimeoutExpired` (`native_container.py:797`), upon which the hooks would run with
the process alive.

The refinement mapping takes a call's phase from its program counter, its worker
from the handle's process, `cleaned` from the two flags of the handle and
`promoted` from the export's state.

### PolicyEnforcer

Declarations are validated as in `policy.py` (`StorageValid`, `NetworkValid`), and
an enforcer is created only from valid ones. A call of an enforcer is a sequence of
checks with `left` naming the checks still to make; time, a wipe and the guest's
directories may change between two of them, and `over` remembers whether the run
was over when the call began. Targets stand for scheme, host, port and
method together. Receipts issued by any enforcer are in `receipts`, where a
caller may take one for the publication of another run. An enforcer expires at the time
given to its constructor or else at its policy's; the network's own expiry is tested
where the code does, which in a launch is once, before the first mount. `WipeState` is its lock,
its callback and `mark_wiped`. The clock is the caller's or, by default, the
monotonic one, which counts from `Boot`.

### SeatConsent and SeatControl

`SeatConsent` is the service behind the server's seat endpoints; `Request` has an
action for each of them that changes state. A request is a record with
a program counter; reading or writing a file under its lock is one step, and
requests interleave between them. `Mutate` is the store's compare-and-write on the
revision. A digest is the record it is computed from, and `shown` keeps, as
history, what the preview displayed. `Drift` changes the host's key, its SSH
configuration or its lifetime settings; `Quarantine`, `Restart` and `ExpireToken`
are the configuration file found corrupt, the server's restart and a token's end.
A fingerprint is looked up among the lines of `host:port` and then among those of the
bare host name (`known_fingerprint`, `BareOf`), while a replacement removes only lines
that begin with the former (`Marks`). A request whose `draft_revision` is not the
draft's is refused and changes nothing, so it is no step of the model.

`SeatControl` starts where the service hands over to a controller. It has the
controllers of the three templates, the GUARD_V1 shell at the far end of each SSH
session, the services on the host and each bridge's PID records. A controller
takes the local lock, connects, waits for the guard to take the host's lock,
polls, says `GO`, waits for the trailer, reconciles what it was told with what it
can observe, and says `RELEASE`. The guard goes on when SSH is killed or the
connection is lost, and it is the guard that runs the operation; this is what
makes verdicts hard. All seats share one endpoint of one host. The lock's name is
computed from the host as the bridge has it configured, by alias or by address and port
(`NameOf`), so two bridges can have two names, and two locks, for it. A bridge is taken
to have one entry for the host, which is not edited while its operations run. A
guard is `tended` while a controller that may still write is at its other end. When the connection is
lost, or the ssh process killed, the guard sees the end of its input at once or later
(`InputEnds`), or never: a `GO` that was written may still be read, and a guard after its
operation waits up to 1830 seconds for a `RELEASE`. `ReconcileRaises` is an
exception out of `reconcile`, which `_drive_protocol` does not catch: the ssh process
lives on (`Popen` parks it when it is collected), the guard's input stays open, and only
the local lock is given back. A state file that is found damaged is set aside
(`_quarantine_locked`), and `emptied` keeps at which bridges.

### Executor and WorkflowServer

`Executor` holds the pure operators: what `_topological_sort` visits, `_resolve`, `_resolve_ref`, `_eval_when`, and what `run` makes of a
step before its tool (`BeforeTool`). Values are abstracted to what a reference can
tell apart. The sort is depth first and recursive in the code; here the calls of its
inner function that are still to make or to return from are a list, the request's
`agenda`, and `visit`, `Leave` and `Sorted` are the steps that work it off. This keeps
recursive operators out of the modules, which the prover needs, and lets the server be
killed in the middle of a sort. `MaxDepth` is the number of calls that Python's stack has
room for; a longer chain of needs fails the request with `RecursionError`.

`WorkflowServer` has one workflow file, the requests that save and run
it, one audit file for each run id and the response table. A save opens (which empties
the file), writes, loads what is there and unlinks it if it does not validate; two
savers can leave a file that is parts of both. The write is outside the `try` that
unlinks: one that fails (`WriteFails`) leaves what it has written. `spoiled` says that a
save failed so, or was killed, after the file was last opened, found to load, or removed. An
audit file is what was written to it, in that order, by whichever requests used its run
id. A line is written with its newline, or, if it is longer than the writer's
buffer, before it (`owes`, `NewLine`), and a line of another request can come in
between; a line that cannot be written (`EmitFails`) may leave a part of itself, to
which the next one is glued. The exception leaves `run` and the handler. The lines do
not say which request wrote them: `by` and `wrote` are the model's knowledge, for the
properties. `SetUpFails` is a run directory that cannot be made or permissions that do not
resolve, `Restart` a killed server. Tools are external: `Outcomes` gives what each may do.

### BridgeManager

The manager's code runs on one event loop; its steps are the pieces between two
awaits: `Start`, `Poll` and `Fetched` of the health request, `StartFails` at the
deadline, `Stop` and its timer, `ExitEvent`, `KillSync` on quit. Child `k` is the
child of the `k`-th start and also its token. A child boots into serving if the
port is free, may crash, hang or ignore SIGTERM, and dies of SIGKILL. `Request` is
the server's side of a call: the token bucket of the watched child's own token.
The clock ticks `Second` times in a second, and a bucket gains `Refill` in a tick, in
units as small as one likes: the arithmetic is exact where the code's is floating point.
`RetryAfter` is the code's `max(1, int(wait + 0.999))`, which rounds a fraction under a
thousandth down. A refill of zero, and with it the infinite wait, is excluded.

## 3. Runs

Names in parentheses are the parts of a property that is a conjunction.

| Run | Checks | Bounds |
|---|---|---|
| `assignment_recovery` | `TypeOK`, `NoDuplicateWork`, `IdentityInv` (the five parts named in section 4), `RecordsConsistent` (`OneRunPerEnvelope`, `ReceiptNeverContradicted`, `ReceiptMatchesLog`), `NoWorkWhileAmbiguous` | 2 identities, 2 envelopes, 2 crashes, 1 corruption, 1 failing tombstone or marker write |
| `assignment_faults` | `WorkLeavesEvidence`, `ServiceProgress` (`StoppedRunEnds`, `LoadEnds`) | 1 identity, 3 crashes, 1 corruption, 2 failing writes of any kind |
| `session_commands` | `NoncesIncrease`, `HistoryWithinBudget`, `AppliedOnce`, `NoneAfterRevocation` | 2 loops, 2 verifiers, 2 generations, budget 2, nonces to 2, 3 frames |
| `microvm_run` | `CallbackInv` (types, `CallbacksAtMostOnce`, `ReceiptAfterExit`), `FailuresStillCleanUp`, `RunsEnd` (`StopEndsWorker`, `EndedWorkerReleasesAdapter`) | 1 run, 1 operator, 2 raising operations, 2 chunks |
| `microvm_two_vms` | `OneMicroVM`, which fails | 2 runs, 1 operator, nothing raises |
| `broker_conversation` | `TypeOK`, `AcceptedConversation`, `SharedSessionSafe` (`AdmittedGuestUnderstood`, `StopBeforeRunWins`, `NoMutualWait`), `ConversationEnds` | one conversation, any 5 frames from a guest that is not admitted |
| `governed_run` | `StoreInv` (`OnlyScannedPromoted`, `ManifestBacked`, `DeliveredAsPromised`), `ReceiptInv` (types, `LastReceiptIsVerified`), `AuditTellsOutcome`, `CleanedWhenQuiet`, `ImplementsContract` | 2 calls, 2 runners, 2 run ids, trees of 2 files, 1 consumer, 1 operator, 1 failure; 5.3 million states |
| `policy_enforcer` | `AllowedInv` (`NothingAllowedOnceOver`, `AllowedPathsAreConfined`), `EgressWithinLimit`, `PublicationBacked`, `WipeInv` (types, `WipeReturnsDone`) | 1 enforcer under 8 setups and 14 requests, a second that only launches, 2 wipers, 3 instants |
| `seat_consent` | `ConsentInv` (types, `StoredConsentMatchesConfig`), `OperatesAsShown`, `ForceStopOncePerChallenge`; deadlock | 2 requests at a time, 1 host, 2 seats of 2 kinds, 2 keys, 3 revisions, 2 tokens, 1 drift |
| `seat_control` | `LockInv` (types, `OneOperationAtATime`, `NoAbandonedLock`), `VerdictsAreTrue` (`NoVerdictWhileRunning`, `RefusedDidNotSucceed`), `ServingIsStoppable` | 2 operations at 3 bridges with 2 names for the lock, a seat of each template, 1 crash, lost connection or damaged file; 9 million states |
| `workflow_server` | `StepsInOrder` (`NeedsEndFirst`, `OnlySuccessFeeds`), `SortIsSound`, `LogTellsRun` (types, `StartsAreClosed`, `ResponseMatchesLog`, `LogReadsBack`), `QuietFileLoads`; deadlock | up to 2 runs and 2 saves, one run id, 8 named workflows and the 216 graphs below, lines of errors that exceed the buffer, room for 4 calls of `visit`, 1 failing write, 1 kill |
| `bridge_manager` | `OwnershipInv` (types, `OrphansOnlyByLateExit`), `RateIsKept`, `CallsSettle` | 3 starts; a bucket of 6002, refilled by 2000 a second, a request costing 3001, 5 ticks of half a second |

Why the bounds are enough.

* Two identities and two envelopes give every way in which two submissions can
  collide: same identity, same envelope, both or neither. A violation of
  `NoDuplicateWork` needs at most a first hand-over, a crash, a recovery that loses
  the identity and a second hand-over; the runs allow one more crash and one
  failing write on top. `ReceiptMatchesLog` is not checked with failing event
  appends: an append that fails after the event was added in memory makes the log
  and the digest differ, recovery then quarantines the finished run, and that is
  how the code detects it.
* Five frames are what a complete conversation of `ready`, one chunk, a receipt and
  a result needs, plus one to spare; a second receipt or a frame after the result
  fits. Two verifiers and two loops show a frame going to two readers; a budget of 2
  shows the last command and the first refused one.
* In `governed_run` one call is a governed run with export; the other shares its
  runner and id, its runner only, its id only, or the adapter only. The trees have a
  file that is promoted before another one is refused, and two equal files, of which the
  second finds its object. One failure is enough to meet every error path, since a second
  would only be met on the way out of the first; it may be the damage between the two
  hashes of a delivery.
* In `policy_enforcer` the setups include each kind that validation must refuse; the
  requests come in pairs, one that fits and one that misses in one respect. The
  byte limit of 2 with requests of 1 and 2 has the exact fit and the overrun.
  Only the enforcer of interest is disturbed.
* In `seat_consent` a behaviour mixes two kinds of requests (`Workloads`), which is
  how two of them can race; three revisions let a configuration change after the
  preview and again after the consent.
* In `seat_control` two operations of one bridge meet at its local lock, two of
  different bridges at the host's, or, if they name it differently, nowhere.
* `seat_consent` has one host and one address, so a line of the bare host name
  (`BareOf`) occurs only in the proofs, which are for any.
* `workflow_server` runs every graph of three steps whose needs are each one of six
  lists (none, one of the three steps, an unknown one, two), cycles included, and
  `SortIsSound` compares the sort with all orders of the steps.
* Three starts give a child, its replacement and the one after; the bucket allows
  two requests at once. The next one lacks 3001, which is 1.5005 seconds' gain and
  is told to wait two; half a second later it lacks 2001, or 1.0005 seconds' gain,
  and is told to wait one, after which it is refused once more.

Deadlock is checked in `seat_consent` and `workflow_server`. The others may really
stop: a service that is down or idle, a finished conversation or run and an
exhausted bound are legitimate last states. What must not stop is stated as
liveness or as `NoMutualWait`.

Fairness. Threads that can run do run: weak fairness of each run's thread, of the
service's multi-step operations, of the loader, of an operator's stop, and of the
guest's `serve`. A controller that has received a stop ends its run. Nothing
promises that a workload ends, that a crashed service is restarted, that anybody
cancels, reconciles or stops, that a deadline is set (`Abort`), or that the
process exits by itself: `RunThread` is fair only while the thread is not waiting
for a running process. `StoppedRunEnds` exempts a run whose durable write failed:
its thread has died of the exception. In `BridgeManager` the event loop goes on,
timers fire, exit events are delivered and SIGKILL ends a process. The deadline of
`start` is strongly fair, because its loop looks at the clock only between two
polls; a poll is answered, refused, or ended by the HTTP client's own timeout.
Nothing obliges a child to come up or to obey SIGTERM.

### Disagreements between the code and what is written about it

`microvm_two_vms` checks the adapter's sentence that it "admits one networkless,
read-only microVM at a time" and finds a behaviour that breaks it: a failing run
returns because an operator's stop has begun, before that stop has killed the
process, and the next run starts a second microVM. The counterexample is the run's
output.

Modelling showed more that a maintainer may want to look at. These are
observations, without a run of their own; where a property is worded so as to
exempt one, this is said.

* `assignment.py:965`: an `OSError` while writing `quarantine.json` makes
  `_quarantine` return before the identity is tombstoned or marked ambiguous; its
  envelope can be admitted again. `assignment_recovery` and the theorems assume that
  this write succeeds.
* `assignment.py:477`: after a crash between the terminal event and `receipt.json`,
  `terminalize` accepts a run whose durable log is already terminal and appends a
  second terminal event.
* `assignment.py:940`: a directory that could not be moved aside because the target
  exists is ambiguous again after every restart, although its identity was
  reconciled.
* `assignment.py:407`: a cancel after the started event and before the controller is
  active delivers no stop, and no later cancel does.
* `assignment.py:346`: if the admitted event cannot be written, `start` raises with
  the run registered and no thread; it stays active until the process restarts.
* `capability.py:336`: a revoke callback that raises skips kill and wipe
  (`FailuresStillCleanUp` exempts it).
* `firecracker_adapter.py:507`: `run` clears `_active_state` outside the lock and
  `_end_run` clears it again; a run that began in between loses its claim.
* `controller.py:441`: a stop and the run number events from an unlocked counter.
  `BrokerSession.send` does the same with frames; the guest then refuses whichever
  comes second, and `SharedSessionSafe` and `AcceptedConversation` show that nothing
  worse follows. `HostController.stop` sets `_stop_called` before its first event,
  so a sink that raises there loses the stop (`StopEndsWorker` exempts this).
* `artifacts.py:369`: `materialize` hashes an object (197) and `_copy_exact` hashes it
  again, and compares the copy with that second hash only. An object damaged in between
  is delivered, although `README.md:47` says that what arrives "is byte-identical to
  what passed the scanner" (`DeliveredAsPromised` exempts these files).
* `native_container.py:1157`: each turn of the receive loop first looks whether the
  process has ended, so a guest that sent its result and exited before the host read
  it counts as one that ended without a result.
* `runner.py`: a stop handle is bound to the adapter, not to the run it was made
  for; used late, it stops the next one.
* `policy_enforcer.py:573`: with the default clock the policy's expiry, a wall-clock
  time, is compared with the monotonic clock (`NothingAllowedOnceOver` speaks of the
  enforcer's own clock).
* `seats/guard.py:248`: `reconcile` is called without a handler. If it raises (a unit
  state it does not know, an invalid PID record, a state file that cannot be read or is
  damaged), the session is left with its ssh process alive and `RELEASE` unwritten, and
  the guard keeps the host's lock until its 1830 seconds are over; operations meanwhile
  find it busy. `NoAbandonedLock` says that this, a lost connection or bridge, and a
  session given up as indeterminate are the only ways to leave the lock so.
* `seats/service.py:461`: the lock's name comes from the configured alias, or host and
  port. One host that two bridges name differently has two locks, and operations on one endpoint may
  overlap: `OneOperationAtATime` is about operations that name it alike.
* `seats/controller.py:394`: a stop is reported as dormant when the poll that should
  confirm it fails.
* `seats/ssh.py:447`: the `known_hosts` file is read and written back without a lock; two trust
  requests at once can lose one's line. Such a host has to be trusted again.
* `server/app.py:349`: a save that is rejected unlinks the file, and with it the
  workflow that was there before.
* `server/app.py:351`: a write that fails, with the disk full perhaps, leaves a truncated
  file that does not load until the next save of that name. `QuietFileLoads` exempts it,
  as it does a killed server.
* `server/app.py:239`: the lines of `audit.jsonl` name the run, not the request. With one
  run id used twice the file may hold an error of one request while `GET /runs` says
  completed for the other, and long lines may be glued together (`audit/log.py:17` says
  that concurrent writes are not guarded). `ResponseMatchesLog` is about a request's own
  lines, and `LogReadsBack` says when a line cannot be read.
* `server/rate_limit.py:120`: with limits under which a request costs more than a second
  brings, a client that waits for its `Retry-After` may come up to a millisecond early and
  be refused again. With the default limits it is not (`RateIsKept`).
* `electron/src/main/bridge.ts:197`: the exit event of an earlier child clears the
  fields that already belong to the next one. If that one then fails to come up,
  `killChild` no longer has it, although the comment at 208 says that it "must not
  survive start() as an orphan".
  `OrphansOnlyByLateExit` shows that there is no other way to lose one.

## 4. Proofs

TLC checks the instances above; these theorems hold for every value of the
constants.

`AssignmentProofs`:

* `TypeCorrect`: `Spec => []TypeOK`, whichever writes fail.
* `IdentityProtected`: `Spec => []IdentityInv`, and `WorkIsDoneOnce`:
  `Spec => []NoDuplicateWork`, both under the assumption that the quarantine
  record can be written (`"qrecord" \notin IOFaults`). Without it the statement
  is false: that is the first observation above. `NoDuplicateWork` is not
  inductive, since it says nothing about what is on disk. `IdentityInv` adds what
  recovery keeps true. Files name only the envelope their identity was submitted
  with (`FilesInv`); memory agrees with the files (`MemoryInv`); a quarantine in
  progress has not lost the request it came for (`QuarantineInv`); handed-over
  work leaves a durable claim, and pending work is new (`WorkInv`); and while the
  service is up a claimed identity is one that `start` refuses, or one that the
  loader has yet to read (`ProtectedInv`). The proof takes one step per action
  and one per conjunct that the action can disturb.
* `RunsAreRecorded` holds whichever writes fail. Nothing runs until the load has
  ended, and while work is pending no identity is ambiguous (`AdmissionInv`); a run
  in memory has its directory and request, and until it is handed over or cancelled
  its log has no gap (`RunInv`); two directories never hold one envelope
  (`EnvelopeInv`); handed-over work has its "started" record beside its request, or
  the request in quarantine (`EvidenceInv`). `HandedWorkLeavesEvidence`
  (`Spec => []WorkLeavesEvidence`) and `AmbiguityBlocksWork`
  (`Spec => NoWorkWhileAmbiguous`) follow. The gap matters: an append that failed
  earlier would make the later "started" unreadable, and the run would look as if
  it had never begun.
* `RecordsStayConsistent` (`Spec => []RecordsConsistent`), if events, receipts and
  quarantine records can be written. Then memory agrees with the log and the
  receipt file, and a receipt is written once, after the terminal event
  (`LedgerInv`); a receipt that was shown is the one on disk, or its identity is not
  used again (`ShownInv`, which needs `IdentityInv`). Each of the three assumptions
  is needed, as TLC shows without it: a lost event separates the receipt from its
  log; a receipt that was shown but not written lets an operator close the run
  differently after a restart; and an identity whose quarantine record was not
  written runs again. One run per envelope needs none of them.

The same module holds the results about `CommandSession` (its `SessionSpec`):
`NoncesAlwaysIncrease`, `CommandsAppliedOnce`, `HistoryBounded` and
`RevocationIsFinal`, from one inductive invariant: the
accepted sequence of a verifier is increasing, its history is the set of its
elements, commands on their way to the service are accepted and not yet applied,
and a frame past the active check arrived before its secret was revoked.

`BrokerProtocolProofs`: `BrokerTypes`, and `AcceptedIsWellFormed`
(`Spec => []AcceptedConversation`) for any guest and any number of its frames.
The invariant `BrokerInv` counts what was received (`ReceivedInv`), says what a
conversation still open cannot contain yet (`OpenInv`), ties the phase of the
session to the position of the two threads (`PhaseInv`) and the run frame to the
thread that reads its output (`WrittenInv`). `PhaseInv` is where a stop's late
state assignment has to be shown harmless.

`SharedSessionIsSafe` (`Spec => []SharedSessionSafe`) adds `SharedInv`. What the
admitted guest has sent and the host not read is numbered on from what it has read,
while the host still reads (`NumberedInv`); the guest reads what was written in its
order, and executes only a run that was written second (`GuestInv`); each kind is
written once, the bootstrap first (`OrderInv`); and while the controller reads, the
session's state lets the guest's frames in unless a stop could not be written
(`SessionInv`). A stop before the run then wins because only the second frame can be
executed, and nobody waits for the other because an open conversation always has an
unread frame on one side or a guest at work.

`MicroVMRunProofs`, for any number of runs, operators, stops, output chunks and failures
(`RunAssumption` only keeps the names apart): `CallbackInvHolds`
(`Spec => []CallbackInv`) and `FailuresStillCleanUpHolds`
(`Spec => []FailuresStillCleanUp`), from the inductive invariant `IInv` (`IInvHolds`).
Neither property is inductive, because what a run owes stands in its thread's list of
operations. `ListInv` says which operations may stand before which (`InOrder`), that
what has to happen after an exception stands behind a `catch` (`Caught`), and that an
operator's thread works on one stopped run. A list changes in four ways: an operation
is done, others are put in front, an exception drops some, or the list is assigned. The
first half of the module shows for any list that each of them keeps `InOrder` and
`Caught`; the second half takes the actions one by one. On top of the lists, `OnceInv`
says that a claimed callback was called or that exactly one thread is about to;
`SmoothInv` that a run which nothing interrupted has seen its process exit and has
revocation and wipe begun or next; `FreshInv` and `UnbornInv` that nothing happens to a
run without a process; `ClaimInv` that a revocation not yet claimed is still to be
claimed behind every `catch`; and `TripInv` with `CoverInv` that a trip runs to its end,
that a lifecycle is closed only after a trip or an exit, and that with one failure at
most each run is tripped, ends by itself, or kills and wipes directly.

`BridgeProofs` has two halves. The first is about the server's workflow endpoints, for
any number of requests, run ids, workflows, tools, inputs, failing writes and kills, and
any room on the stack.
`ServerAssumption` says that names are apart, that steps, needs and `with:` blocks are
lists, and that the file is absent or loads when the server starts. `SortIsCorrect`
(`ServerSpec => []SortIsSound`), `ToolsRunInOrder` (`StepsInOrder`), `LogsTellRuns`
(`LogTellsRun`) and `SavedFilesLoad` (`QuietFileLoads`) follow from `ServerInv`
(`ServerInvHolds`); TLC found no violation of `ServerInv` on the instance of
`workflow_server`.

* `FileInv`: while the file does not load, some save is still to look at it (`Watches`),
  or one that was to look ended before it did (`spoiled`).
* `SortInv` is the depth-first search. The order so far is sorted, and each step is in
  it or on the agenda (`OrderOK`); a step whose visit is under way is not in the order,
  is on the agenda once, and has its needs in the order or before it (`LeavesOK`); and
  in *every* order of the steps, what is visited comes before the steps whose visits
  are under way (`AgendaOK`). The last part is what makes a failure of the sort right: a
  step met again while its visit is under way would come before itself, so there is no
  order. `SortedInv` carries the result to the end of the request.
* `RunInv` ties the results to the steps before the current one and to the request's own
  lines (`ResultsOK`, `LinesOK`), `LogInv` says up to where the log has no step open
  (`Closed`), `FedInv` what stood in the log before each start, and `ReplyInv` that a
  response is of a request that is answered and will not write again. These speak of a
  request's own lines. `WroteInv` and `LogFile` tie them to the file they share with others:
  `wrote` names all of a request's lines but those it was cut off in, and an
  unfinished line has a newline, its request's debt of one, a cut or another request
  behind it.

The second half is about the desktop, for any number of starts and any bucket that holds
at least one request (`Capacity >= Cost`, `Refill > 0`): `BridgeOwnsItsChildren`
(`Spec => []OwnershipInv`) and `LimiterKeepsItsRate` (`Spec => []RateIsKept`). The
invariant `BridgeInv` says that a start not yet made has no process (`Fresh`), that
there is a child the manager has lost only after an exit was heard late (`Owned`), and
keeps the account of the bucket: what was spent and what
is left never exceed a full bucket and the gain up to the last refill, a
`Retry-After` that was given is a time by which less than a millisecond's gain is
lacking, and one that a second's gain satisfies a time by which nothing is (`BucketInv`).
The rounding is two lemmas (`RoundingSuffices`, `RetryAfterSuffices`).

`GovernedRunProofs`, for any calls, Runners, trees and number of faults, with `None`
not a value of any other set: `StorePromises` (`StoreInv`), `ReceiptsAreVerified`
(`ReceiptInv`), `LogTellsOutcome` (`AuditTellsOutcome`), `HooksAreCalled`
(`CleanedWhenQuiet`), and `RunsImplementContract`: `Spec => ImplementsContract`, the
refinement of `RunContract` step by step. `GovernedInv` has two halves. `StoreInd`
adds to `StoreInv` what each export has done so far (`ExportOK`): only a clean copy
of a regular file gets to the commit, and what is entered has its object; and what a
delivery is about (`DeliveryOK`): an entry of its manifest whose object it found intact,
and a second hash that is the digest unless the file is spoilt. `RunInd`
ties the control of each call to the adapter's slot and the state of its process
(`WorkerOK`), limits the operator's stop to a run that was launched (`OperatorOK`),
exports to calls that are cleaned up (`PromotionOK`), a Runner to one call
(`OwnerOK`), and says what was verified before a report (`VerifiedOK`), what a receipt
(`ReceiptOK`) and the log (`AuditOK`) may say at each point, and which hooks have been
called (`HooksOK`). The refinement needs `WorkerOK` and `PromotionOK`: without them a
step of a call could map to a launch beside another worker.

`PolicyEnforcerProofs`, for any enforcers, policies, requests and threads that wipe:
`AllowancesAreSafe` (`AllowedInv`), `EgressIsLimited` (`EgressWithinLimit`),
`PublicationsHaveLaunch` (`PublicationBacked`) and `WipesAreDone` (`WipeInv`). In
`PolicyInd`, `Counted` equates the bytes let out with the enforcer's counter, `Backed`
has the launch receipt among those issued, `OnTime` says that a call begun after the
network's time still has a test to pass, and `Wiping` and `WiperDone` follow
the callback from the lock to the return.

`SeatControlProofs`, for any operations, bridges and seats: `HostLockIsSafe`
(`LockInv`), `VerdictsTellTheTruth` (`VerdictsAreTrue`) and `ServedIsRecorded`
(`ServingIsStoppable`), whatever the lock is called at each bridge. `ControlInd`
describes the two ends of a session together
(`Connected`: a guard that is tended has someone to write to it; `Reported`, `Told`:
what the controller knows has happened at the guard), the processes that guards name
(`Named`), the state file (`Recorded`), and both locks. The state file is the hard part:
a second start at the same bridge overwrites the number there, and `LaterIsGreater`
says that what it writes is a later process.

`SeatConsentProofs`, for any requests, hosts, seats, keys and revisions:
`ConsentsMatchHosts` (`ConsentInv`), `OperationsAreAsShown` (`OperatesAsShown`) and
`ChallengesAreSingleUse` (`ForceStopOncePerChallenge`). `ConsentInd` says of a host
that its consent is about it (`HostOK`), of a token what its kind promises
(`TokenOK`), and of a request which token it refers to (`Refers`), that its snapshot
is the host's configuration unless the revision has moved on (`Snapshot`), that it
passed the comparison with the consent (`Agreed`), and that a challenge it is through
with is deleted and its own (`Spent`, `Apart`). The argument rests on `Evolves`: an id
is never given twice, so a snapshot of the current revision cannot be of
another host. `TypeOK` leaves out the type of the known-hosts file: it is filtered with
`SelectSeq`, which the prover cannot expand, and no theorem needs it.

In every module the bounds (`MaxStarts`, `MaxFaults`, `MaxTokens`, ...) are only
assumed to be numbers, so a theorem holds however large they are.

Only model-checked are the liveness properties (`ServiceProgress`, `RunsEnd`,
`ConversationEnds`, `CallsSettle`), since the prover has no fairness, and `OneMicroVM`,
which fails. Every invariant and action property of a passing run is a theorem.

## 5. Not modelled

* Signatures, hashes and JSON formats are abstracted to whether they verify, and
  text patterns (sanitisers, permissions, the guest's containment monitor) are not
  modelled: their difficulty is in the text, not in an order of steps.
* `publisher.py`: what it verifies is cryptography. The order of its writes after
  that is the part a further model should take up first.
* `host_runtime.py`, prompts, connectors, outputs and the command line build objects
  or format text, and keep no state.
* The MCP servers' tools are external to the executor: each call is a receipt check
  and one file operation.
* Of the modelled components: the vsock configuration requests and the output
  collectors of the Firecracker adapter, `launch_native_worker` of the native one
  (the runner does not use it), request validation and copied bytes of the assignment
  service, field validation and script rendering of seats, a seat's state file whose
  write fails after the rename, the server's listings and the bridge's list of allowed
  paths.
