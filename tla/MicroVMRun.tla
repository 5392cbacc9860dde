----------------------------- MODULE MicroVMRun -----------------------------
(***************************************************************************)
(* One governed microVM run: FirecrackerAdapter.run                        *)
(* (runtime/firecracker_adapter.py) drives HostController.run              *)
(* (runtime/controller.py), which supervises the worker through            *)
(* WorkerLifecycle and WorkerSupervisor (runtime/worker.py,                *)
(* runtime/capability.py), while operator threads call HostController.stop *)
(* through the stop handle.  Several calls may share one adapter; each run *)
(* has a thread, a controller, a lifecycle and a cleanup object of its own.*)
(*                                                                         *)
(* A thread is the list of operations it has yet to do, in the order of    *)
(* the code.  An exception drops the operations up to the next "catch":    *)
(* the end of a try whose handler goes on with what follows.  Operations   *)
(* that a condition adds (a trip, a fallback) are put in front of the      *)
(* list.  A test-and-set with no call in between is one step.              *)
(***************************************************************************)
EXTENDS Naturals, Sequences, FiniteSets

CONSTANTS
    Runs,      \* calls of FirecrackerAdapter.run, and their threads
    Operators, \* threads that call StopHandle.stop
    None,      \* Python's None
    Sentinel,  \* _ACTIVE_SENTINEL
    Faults,    \* operations that may raise
    MaxFaults, \* bound on how often they do
    MaxChunks, \* bound on the output chunks a run forwards
    MaxStops   \* bound on the calls of stop

FaultKinds == {"emit", "bclose", "kill", "xrevoke", "xwipe"}

ASSUME RunAssumption ==
    /\ Faults \subseteq FaultKinds
    /\ None \notin Runs /\ Sentinel \notin Runs /\ None # Sentinel
    /\ Runs \cap Operators = {}
    /\ MaxFaults \in Nat /\ MaxChunks \in Nat /\ MaxStops \in Nat

Threads == Runs \cup Operators
Callbacks == {"revoke", "wipe"}

\* What a thread's list is made of: calls, steps of the run, ends of a try
Operations ==
    {"trip", "closed", "revoke", "kill", "wipe", "crevoke", "cwipe", "xrevoke", "xwipe",
     "prepare", "register", "launch", "start", "open", "activate", "emit", "boot", "send",
     "loop", "enter", "wait", "agree", "receipt", "raise", "catch", "failure", "bclose",
     "fallback", "deactivate", "settle", "leftover", "noctrl", "nostate", "end"}

VARIABLES
    \* the adapter
    actState,  \* _active_state
    actCtrl,   \* _active_controller
    \* each run
    vm,        \* the Firecracker process
    live,      \* the controller has an active binding
    stopped,   \* _stop_called of the controller
    tripped,   \* _tripped of the supervisor
    closed,    \* _closed of the lifecycle
    began,     \* callbacks begun by the lifecycle: _revoked, _wiped
    claimed,   \* callbacks begun by the cleanup object: _revoked, _wiped
    failed,    \* adapter.run will raise
    \* each thread
    todo,      \* operations yet to do
    subject,   \* the run a stop is about
    \* history and bounds
    phase,     \* a run is new, inside adapter.run or done
    calls,     \* how often each external callback of a run was called
    receipt,   \* the host receipt was issued
    faults,    \* the operations that have raised so far
    chunks, stops

adapter == <<actState, actCtrl>>
worker == <<vm, live, stopped, tripped, closed, failed>>
cleanup == <<began, claimed, calls>>
bounds == <<chunks, stops, faults>>
vars == <<adapter, worker, cleanup, receipt, bounds, phase, todo, subject>>

\* Every variable holds a value of its type.
TypeOK ==
    /\ actState \in Runs \cup {None, Sentinel} /\ actCtrl \in Runs \cup {None}
    /\ vm \in [Runs -> {"none", "running", "exited"}]
    /\ live \in [Runs -> BOOLEAN] /\ stopped \in [Runs -> BOOLEAN]
    /\ tripped \in [Runs -> BOOLEAN] /\ closed \in [Runs -> BOOLEAN]
    /\ failed \in [Runs -> BOOLEAN] /\ receipt \in [Runs -> BOOLEAN]
    /\ began \in [Runs -> SUBSET Callbacks]
    /\ claimed \in [Runs -> SUBSET Callbacks]
    /\ calls \in [Runs -> [Callbacks -> Nat]]
    /\ todo \in [Threads -> Seq(Operations)]
    /\ subject \in [Operators -> Runs \cup {None}]
    /\ phase \in [Runs -> {"new", "inside", "done"}]
    /\ chunks \in 0..MaxChunks /\ stops \in 0..MaxStops
    /\ faults \in Seq(FaultKinds) /\ Len(faults) <= MaxFaults

Init ==
    /\ actState = None /\ actCtrl = None
    /\ vm = [r \in Runs |-> "none"]
    /\ live = [r \in Runs |-> FALSE] /\ stopped = [r \in Runs |-> FALSE]
    /\ tripped = [r \in Runs |-> FALSE] /\ closed = [r \in Runs |-> FALSE]
    /\ failed = [r \in Runs |-> FALSE] /\ receipt = [r \in Runs |-> FALSE]
    /\ began = [r \in Runs |-> {}] /\ claimed = [r \in Runs |-> {}]
    /\ calls = [r \in Runs |-> [x \in Callbacks |-> 0]]
    /\ todo = [t \in Threads |-> <<>>]
    /\ subject = [o \in Operators |-> None]
    /\ phase = [r \in Runs |-> "new"]
    /\ chunks = 0 /\ stops = 0 /\ faults = <<>>

(***************************************************************************)
(* The programs.                                                           *)
(***************************************************************************)
\* WorkerSupervisor.trip, past its flag
Trip == <<"revoke", "kill", "wipe">>

\* WorkerLifecycle.stop
LifecycleStop == <<"trip", "closed">>

\* WorkerLifecycle._finish
Finish == <<"revoke", "wipe", "closed">>

\* WorkerLifecycle.check on an expired token, and wait's timeout
Expired == LifecycleStop \o <<"raise">>

\* Mutant: a stop closes the lifecycle without tripping the supervisor.
StopProgram_NoTrip == <<"emit", "closed", "emit", "emit">>

\* HostController.stop, past its guards; errors of broker.stop are suppressed
StopProgram == <<"emit">> \o LifecycleStop \o <<"emit", "emit">>

\* Mutant: a failed run is reported but its worker is not stopped.
StopAfterFailure_OnlyReports ==
    <<"emit", "catch", "closed", "emit", "catch", "emit", "catch">>

\* HostController._stop_after_failure, past its guard
StopAfterFailure ==
    <<"emit", "catch">> \o LifecycleStop \o
    <<"catch", "emit", "catch", "emit", "catch">>

\* _RunCleanup.cleanup_without_worker
WithoutWorker == <<"crevoke", "catch", "cwipe", "catch">>

\* The try block of HostController.run once the launcher has returned
Body ==
    <<"activate", "emit", "boot", "emit", "send", "emit", "loop", "enter", "wait",
      "agree", "emit", "receipt", "emit", "emit", "emit", "emit">>

\* The except and finally blocks of HostController.run
Close == <<"failure", "bclose", "fallback", "catch", "deactivate">>

\* What follows controller.run in FirecrackerAdapter.run
AdapterTail ==
    <<"settle", "catch", "leftover", "noctrl", "nostate", "end">>

RunProgram ==
    <<"prepare", "register", "launch", "start", "open">> \o Body \o
    <<"catch">> \o Close \o AdapterTail

Cleanup == [revoke |-> "crevoke", wipe |-> "cwipe"]
External == [revoke |-> "xrevoke", wipe |-> "xwipe"]

-----------------------------------------------------------------------------
Run(t) == IF t \in Runs THEN t ELSE subject[t]

At(t, op) == todo[t] # <<>> /\ Head(todo[t]) = op

\* A try that ends normally has nothing to catch.
Enter(p) == IF p # <<>> /\ Head(p) = "catch" THEN Tail(p) ELSE p

\* What is left of a program after an exception.
Unwind(p) ==
    LET catches == { i \in DOMAIN p : p[i] = "catch" }
    IN  IF catches = {} THEN <<>>
        ELSE SubSeq(p, (CHOOSE i \in catches : \A j \in catches : i <= j) + 1, Len(p))

\* The thread's operation is done, and `more` comes before the rest.
Continue(t, more) == todo' = [todo EXCEPT ![t] = Enter(more \o Tail(@))]
Done(t) == Continue(t, <<>>)

\* The operation raises; an operator's stop then raises to its caller.
Raise(t) ==
    /\ todo' = [todo EXCEPT ![t] = Unwind(Tail(@))]
    /\ failed' = [r \in Runs |-> failed[r] \/ r = t]

\* The run goes on with its outer handlers: there is no binding to close.
Abandon(r, more) ==
    /\ todo' = [todo EXCEPT ![r] = more \o AdapterTail]
    /\ failed' = [failed EXCEPT ![r] = TRUE]

Fault(t, op) ==
    /\ op \in Faults /\ Len(faults) < MaxFaults
    /\ faults' = Append(faults, op)
    /\ Raise(t)

NoFault == UNCHANGED <<faults, failed>>

core == <<vm, live, stopped, tripped, closed>>

(***************************************************************************)
(* FirecrackerAdapter.run.                                                 *)
(***************************************************************************)
\* _begin_run, under the adapter's lock
Begin(r) ==
    /\ phase[r] = "new"
    /\ actCtrl = None /\ actState = None
    /\ actState' = Sentinel
    /\ phase' = [phase EXCEPT ![r] = "inside"]
    /\ todo' = [todo EXCEPT ![r] = RunProgram]
    /\ UNCHANGED <<actCtrl, worker, cleanup, receipt, bounds, subject>>

\* _prepare_run admits the profile, the files and the token.
Prepare(r) ==
    /\ At(r, "prepare")
    /\ actState' = r
    /\ Done(r)
    /\ UNCHANGED <<actCtrl, worker, cleanup, receipt, bounds, phase, subject>>

\* There is no cleanup object yet: only the finally block runs.
PrepareFails(r) ==
    /\ At(r, "prepare")
    /\ todo' = [todo EXCEPT ![r] = <<"noctrl", "nostate", "end">>]
    /\ failed' = [failed EXCEPT ![r] = TRUE]
    /\ UNCHANGED <<adapter, core, cleanup, receipt, bounds, phase, subject>>

Register(r) ==
    /\ At(r, "register")
    /\ actCtrl' = r
    /\ Done(r)
    /\ UNCHANGED <<actState, worker, cleanup, receipt, bounds, phase, subject>>

\* HostController.run refuses its arguments, or the token no longer verifies,
\* or the process cannot be created.
LaunchFails(r) ==
    /\ At(r, "launch")
    /\ Abandon(r, WithoutWorker)
    /\ UNCHANGED <<adapter, core, cleanup, receipt, bounds, phase, subject>>

\* launch creates the process.
Launch(r) ==
    /\ At(r, "launch")
    /\ vm' = [vm EXCEPT ![r] = "running"]
    /\ Done(r)
    /\ UNCHANGED <<adapter, live, stopped, tripped, closed, failed, cleanup,
                   receipt, bounds, phase, subject>>

\* The API socket never appears or a configuration request is refused.
StartFails(r) ==
    /\ At(r, "start")
    /\ Abandon(r, <<"kill", "catch">> \o WithoutWorker)
    /\ UNCHANGED <<adapter, core, cleanup, receipt, bounds, phase, subject>>

\* open_broker_session fails: the lifecycle is stopped, then the cleanup
\* object makes up for what the stop left out.
OpenFails(r) ==
    /\ At(r, "open")
    /\ Abandon(r, LifecycleStop \o <<"catch">> \o WithoutWorker)
    /\ UNCHANGED <<adapter, core, cleanup, receipt, bounds, phase, subject>>

\* The instance starts; the broker is opened and accepts the contract; the
\* workflow is sent; the worker's status agrees with the guest's result:
\* nothing else changes.
Proceed(r) ==
    /\ \E op \in {"start", "open", "boot", "send", "agree"} : At(r, op)
    /\ Done(r)
    /\ UNCHANGED <<adapter, worker, cleanup, receipt, bounds, phase, subject>>

\* The contract is refused, the workflow cannot be sent, the worker's status
\* disagrees with the guest's result, or an operation ends by raising.
Refuse(r) ==
    /\ \E op \in {"boot", "send", "agree", "raise"} : At(r, op)
    /\ Raise(r)
    /\ UNCHANGED <<adapter, core, cleanup, receipt, bounds, phase, subject>>

(***************************************************************************)
(* HostController.run.                                                     *)
(***************************************************************************)
Activate(r) ==
    /\ At(r, "activate")
    /\ live' = [live EXCEPT ![r] = TRUE]
    /\ Done(r)
    /\ UNCHANGED <<adapter, vm, stopped, tripped, closed, failed, cleanup,
                   receipt, bounds, phase, subject>>

\* A chunk of output is forwarded.
Stream(r) ==
    /\ At(r, "loop") /\ chunks < MaxChunks
    /\ chunks' = chunks + 1
    /\ todo' = [todo EXCEPT ![r] = <<"emit">> \o @]
    /\ UNCHANGED <<adapter, worker, cleanup, receipt, stops, faults, phase, subject>>

\* A receipt and a result that verify were received.
Result(r) ==
    /\ At(r, "loop")
    /\ Done(r)
    /\ UNCHANGED <<adapter, worker, cleanup, receipt, bounds, phase, subject>>

\* Timeout, too much output, an error frame, a broken broker, a result or a
\* receipt that does not verify.
LoopFails(r) ==
    /\ At(r, "loop")
    /\ Raise(r)
    /\ UNCHANGED <<adapter, core, cleanup, receipt, bounds, phase, subject>>

\* lifecycle.check finds the token expired, or wait times out.
Expire(r) ==
    /\ At(r, "loop") \/ At(r, "wait")
    /\ Continue(r, Expired)
    /\ UNCHANGED <<adapter, worker, cleanup, receipt, bounds, phase, subject>>

\* Mutant: wait returns without having seen the process exit.
WaitExit_NoPoll(r) ==
    /\ At(r, "wait") /\ ~closed[r]
    /\ Continue(r, Finish)
    /\ UNCHANGED <<adapter, worker, cleanup, receipt, bounds, phase, subject>>

\* wait sees the process exit.  An operator's stop may close the lifecycle
\* after wait was entered: _finish then returns at once.
WaitExit(r) ==
    /\ At(r, "wait") /\ vm[r] = "exited"
    /\ Continue(r, IF closed[r] THEN <<>> ELSE Finish)
    /\ UNCHANGED <<adapter, worker, cleanup, receipt, bounds, phase, subject>>

\* wait looks at _closed once, on entry.
EnterWait(r) ==
    /\ At(r, "enter")
    /\ \/ ~closed[r] /\ Done(r) /\ UNCHANGED failed
       \/ closed[r] /\ Raise(r)
    /\ UNCHANGED <<adapter, core, cleanup, receipt, bounds, phase, subject>>

\* The host receipt is made; the next event carries it.
Receipt(r) ==
    /\ At(r, "receipt")
    /\ receipt' = [receipt EXCEPT ![r] = TRUE]
    /\ Done(r)
    /\ UNCHANGED <<adapter, worker, cleanup, bounds, phase, subject>>

\* The except block.
Failure(r) ==
    /\ At(r, "failure")
    /\ LET act == failed[r] /\ ~stopped[r]
       IN  /\ stopped' = [stopped EXCEPT ![r] = @ \/ act]
           /\ Continue(r, IF act THEN StopAfterFailure ELSE <<>>)
    /\ UNCHANGED <<adapter, vm, live, tripped, closed, failed, cleanup, receipt,
                   bounds, phase, subject>>

\* _AdapterBinding.close closes the broker.
BrokerClose(r) ==
    /\ At(r, "bclose")
    /\ \/ Done(r) /\ NoFault
       \/ Fault(r, "bclose")
    /\ UNCHANGED <<adapter, core, cleanup, receipt, chunks, stops, phase, subject>>

\* _AdapterBinding.close stops a lifecycle that is still open.
Fallback(r) ==
    /\ At(r, "fallback")
    /\ Continue(r, IF closed[r] THEN <<>> ELSE LifecycleStop)
    /\ UNCHANGED <<adapter, worker, cleanup, receipt, bounds, phase, subject>>

Deactivate(r) ==
    /\ At(r, "deactivate")
    /\ live' = [live EXCEPT ![r] = FALSE]
    /\ Done(r)
    /\ UNCHANGED <<adapter, vm, stopped, tripped, closed, failed, cleanup,
                   receipt, bounds, phase, subject>>

\* Back in FirecrackerAdapter.run: after a success the callbacks are claimed,
\* after a failure only when the token's revocation was not.
Settle(r) ==
    /\ At(r, "settle")
    /\ Continue(r, IF failed[r] THEN <<>> ELSE <<"crevoke", "cwipe">>)
    /\ UNCHANGED <<adapter, worker, cleanup, receipt, bounds, phase, subject>>

Leftover(r) ==
    /\ At(r, "leftover")
    /\ Continue(r, IF failed[r] /\ "revoke" \notin claimed[r]
                   THEN WithoutWorker ELSE <<>>)
    /\ UNCHANGED <<adapter, worker, cleanup, receipt, bounds, phase, subject>>

\* The finally block: two plain assignments, then _end_run under the lock.
Unregister(r) ==
    /\ \/ At(r, "noctrl") /\ actCtrl' = None /\ UNCHANGED actState
       \/ At(r, "nostate") /\ actState' = None /\ UNCHANGED actCtrl
    /\ Done(r)
    /\ UNCHANGED <<worker, cleanup, receipt, bounds, phase, subject>>

End(r) ==
    /\ At(r, "end")
    /\ actState' = None
    /\ phase' = [phase EXCEPT ![r] = "done"]
    /\ Done(r)
    /\ UNCHANGED <<actCtrl, worker, cleanup, receipt, bounds, subject>>

(***************************************************************************)
(* HostController.stop, in an operator's thread.                           *)
(***************************************************************************)
Stop(o, r) ==
    /\ todo[o] = <<>> /\ stops < MaxStops
    /\ live[r] /\ ~stopped[r]
    /\ stopped' = [stopped EXCEPT ![r] = TRUE]
    /\ stops' = stops + 1
    /\ subject' = [subject EXCEPT ![o] = r]
    /\ todo' = [todo EXCEPT ![o] = StopProgram]
    /\ UNCHANGED <<adapter, vm, live, tripped, closed, failed, cleanup, receipt,
                   chunks, faults, phase>>

(***************************************************************************)
(* Operations of either thread.                                            *)
(***************************************************************************)
\* _emit numbers and hashes an event and hands it to the sink.
Emit(t) ==
    /\ At(t, "emit")
    /\ \/ Done(t) /\ NoFault
       \/ Fault(t, "emit")
    /\ UNCHANGED <<adapter, core, cleanup, receipt, chunks, stops, phase, subject>>

\* WorkerSupervisor.trip acts once.
TripOnce(t) ==
    /\ At(t, "trip")
    /\ tripped' = [tripped EXCEPT ![Run(t)] = TRUE]
    /\ Continue(t, IF tripped[Run(t)] THEN <<>> ELSE Trip)
    /\ UNCHANGED <<adapter, vm, live, stopped, closed, failed, cleanup, receipt,
                   bounds, phase, subject>>

MarkClosed(t) ==
    /\ At(t, "closed")
    /\ closed' = [closed EXCEPT ![Run(t)] = TRUE]
    /\ Done(t)
    /\ UNCHANGED <<adapter, vm, live, stopped, tripped, failed, cleanup, receipt,
                   bounds, phase, subject>>

\* _kill_vm: terminate ends the process tree, or gives up waiting for it; the removal
\* of the sockets that follows may raise too, when the process has ended.
Kill(t) ==
    /\ At(t, "kill")
    /\ \/ Done(t) /\ NoFault
          /\ vm' = [vm EXCEPT ![Run(t)] = "exited"]
       \/ Fault(t, "kill") /\ UNCHANGED vm
    /\ UNCHANGED <<adapter, live, stopped, tripped, closed, cleanup, receipt,
                   chunks, stops, phase, subject>>

\* _revoke_once and _wipe_vm of the lifecycle
LifecycleCallback(t, x) ==
    /\ At(t, x)
    /\ began' = [began EXCEPT ![Run(t)] = @ \cup {x}]
    /\ Continue(t, IF x \in began[Run(t)] THEN <<>> ELSE <<Cleanup[x]>>)
    /\ UNCHANGED <<adapter, worker, claimed, calls, receipt, bounds, phase, subject>>

\* revoke and wipe of the cleanup object, whose lock covers only the flag
CleanupCallback(t, x) ==
    /\ At(t, Cleanup[x])
    /\ claimed' = [claimed EXCEPT ![Run(t)] = @ \cup {x}]
    /\ Continue(t, IF x \in claimed[Run(t)] THEN <<>> ELSE <<External[x]>>)
    /\ UNCHANGED <<adapter, worker, began, calls, receipt, bounds, phase, subject>>

\* The host's own callback.
ExternalCallback(t, x) ==
    /\ At(t, External[x])
    /\ calls' = [calls EXCEPT ![Run(t)][x] = @ + 1]
    /\ \/ Done(t) /\ NoFault
       \/ Fault(t, External[x])
    /\ UNCHANGED <<adapter, core, began, claimed, receipt, chunks, stops, phase, subject>>

\* The process ends by itself: the workload is done, or it crashed.
Exit(r) ==
    /\ vm[r] = "running"
    /\ vm' = [vm EXCEPT ![r] = "exited"]
    /\ UNCHANGED <<adapter, live, stopped, tripped, closed, failed, cleanup,
                   receipt, bounds, phase, todo, subject>>

-----------------------------------------------------------------------------
Shared(t) ==
    \/ Emit(t) \/ TripOnce(t) \/ MarkClosed(t) \/ Kill(t)
    \/ \E x \in Callbacks :
         LifecycleCallback(t, x) \/ CleanupCallback(t, x) \/ ExternalCallback(t, x)

RunThread(r) ==
    \/ Prepare(r) \/ PrepareFails(r) \/ Register(r)
    \/ LaunchFails(r) \/ Launch(r) \/ StartFails(r) \/ OpenFails(r)
    \/ Proceed(r) \/ Refuse(r) \/ Activate(r) \/ Stream(r) \/ Result(r)
    \/ LoopFails(r) \/ Expire(r) \/ EnterWait(r) \/ WaitExit(r) \/ Receipt(r)
    \/ Failure(r) \/ BrokerClose(r) \/ Fallback(r) \/ Deactivate(r)
    \/ Settle(r) \/ Leftover(r) \/ Unregister(r) \/ End(r) \/ Shared(r)

Next ==
    \/ \E r \in Runs : Begin(r) \/ RunThread(r) \/ Exit(r)
    \/ \E o \in Operators :
         \/ \E r \in Runs : Stop(o, r)
         \/ Shared(o)

\* A run's thread waits for the guest in the receive loop and in wait while
\* the process runs; everything else it does, and all an operator's stop
\* does, goes on as long as the interpreter schedules threads.
Waiting(r) == (At(r, "loop") \/ At(r, "wait")) /\ vm[r] = "running"

Spec == Init /\ [][Next]_vars

FairSpec ==
    /\ Spec
    /\ \A r \in Runs : WF_vars(RunThread(r) /\ ~Waiting(r))
    /\ \A o \in Operators : WF_vars(Shared(o))

-----------------------------------------------------------------------------
Quiet(r) ==
    phase[r] = "done" /\ \A o \in Operators : subject[o] = r => todo[o] = <<>>

\* Some operation of `ops` has raised.
Raised(ops) == \E i \in DOMAIN faults : faults[i] \in ops

\* "Every terminal path revokes the token, removes adapter-owned sockets, and
\* invokes the host wipe callback": once adapter.run and the stops of a run
\* have returned, a process that was started has ended, and both callbacks
\* were called.
TerminalPathsCleanUp ==
    \A r \in Runs : Quiet(r) /\ vm[r] # "none" =>
        /\ vm[r] = "exited"
        /\ \A x \in Callbacks : calls[r][x] > 0

\* What holds of that statement whatever raises: the revocation is attempted,
\* and one failure of the event sink, the broker or the wipe callback keeps
\* neither the process alive nor the wipe from being attempted.
FailuresStillCleanUp ==
    /\ \A r \in Runs : Quiet(r) /\ vm[r] # "none" => calls[r]["revoke"] > 0
    /\ Len(faults) <= 1 /\ ~Raised({"kill", "xrevoke"}) => TerminalPathsCleanUp

\* "Make token revocation idempotent across all terminal paths": the host's
\* callbacks are called at most once, whoever ends the run and however often.
CallbacksAtMostOnce ==
    \A r \in Runs : \A x \in Callbacks : calls[r][x] <= 1

\* "The receipt is issued only after" the worker's exit: no host receipt while
\* the process runs or before revocation and wipe have begun, even when a stop
\* closes the lifecycle under a waiting controller.
ReceiptAfterExit ==
    \A r \in Runs : receipt[r] => vm[r] = "exited" /\ began[r] = Callbacks

\* Cleanup callbacks and receipts, whichever of the threads gets there first.
CallbackInv == TypeOK /\ CallbacksAtMostOnce /\ ReceiptAfterExit

\* The adapter "admits one networkless, read-only microVM at a time".
OneMicroVM ==
    \A r, s \in Runs : vm[r] = "running" /\ vm[s] = "running" => r = s

\* A stop that the controller accepted ends the worker's process, unless the
\* stop itself is cut short by the event sink, the revocation or the kill.
StopEndsWorker ==
    \A r \in Runs : stopped[r] ~>
        vm[r] # "running" \/ Raised({"emit", "kill", "xrevoke"})

\* A run whose process has ended leaves the adapter, whatever raised.
EndedWorkerReleasesAdapter ==
    \A r \in Runs : vm[r] = "exited" ~> phase[r] = "done"

\* Neither a stopped worker nor the run of one that has ended hangs.
RunsEnd == StopEndsWorker /\ EndedWorkerReleasesAdapter
=============================================================================
