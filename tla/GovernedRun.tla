----------------------------- MODULE GovernedRun -----------------------------
(***************************************************************************)
(* Runs of the host's Runner (runner.py) on the native-container adapter   *)
(* (native_container.py) or an ungoverned backend, up to the export of the *)
(* output tree into the shared ArtifactStore.                              *)
(*                                                                         *)
(* A call is one Runner.run on a thread of its own; Runners have a runs    *)
(* directory each and share the adapter and the store.  An operator holds  *)
(* a StopHandle and uses it at any time.  revoke_once and wipe_once test a *)
(* flag, set it and call the hook without a lock: each is a step here.     *)
(* The container is the guest bootstrap under its supervisor: it sends a   *)
(* receipt and a result and exits 0, also for a failed workflow; it may    *)
(* crash, or be ended by its containment monitor.                          *)
(***************************************************************************)
EXTENDS ArtifactStore, Sequences

CONSTANTS
    Runners,
    Requests \* the requests each call may make

\* A container's process: not started, running, or ended with or without an error
Procs == {"none", "alive", "ok", "failed", "killed"}

\* Why a run on the adapter fails
Whys == {"exited early", "broken", "disagrees", "audit", "hook", "failed"}

ASSUME RunAssumption ==
    /\ \A c \in Calls : Requests[c] \subseteq [runner : Runners, id : RunIds,
                                              backend : {"native", "other"}, export : BOOLEAN]
    /\ None \notin Runners \cup Procs \cup Whys

VARIABLES
    runner,  \* _run_active, _active_controller, last receipt and manifest
    run,     \* the calls with their NativeContainerHandle and guest
    audit,   \* the audit log of each call's run directory
    dirs,    \* the run directories of each Runner
    active,  \* the adapter's _active_handle
    op       \* the operator

vars == <<store, faults, runner, run, audit, dirs, active, op>>

IdleRun == [pc |-> "idle", runner |-> None, id |-> None, backend |-> None, export |-> FALSE,
            proc |-> "none", sent |-> 0, read |-> 0, claim |-> None,
            revoked |-> FALSE, wiped |-> FALSE, revokeCalled |-> FALSE, wipeCalled |-> FALSE,
            why |-> None, outcome |-> None]

IdleOp == [pc |-> "idle", target |-> None]

OpDone == [IdleOp EXCEPT !.pc = "done"]

Init ==
    /\ StoreInit
    /\ runner = [n \in Runners |-> [active |-> FALSE, controller |-> FALSE,
                                    receipt |-> None, manifest |-> None]]
    /\ run = [c \in Calls |-> IdleRun]
    /\ audit = [c \in Calls |-> <<>>]
    /\ dirs = {}
    /\ active = None
    /\ op = IdleOp

Runner(c) == runner[run[c].runner]

Goto(c, pc) == run' = [run EXCEPT ![c].pc = pc]

Alive(c) == run[c].proc = "alive"

(***************************************************************************)
(* Runner.run and _execute_run up to the backend.                          *)
(***************************************************************************)
\* One run per Runner: the busy test and the claim are under _run_lock.
Run(c) ==
    /\ run[c].pc = "idle"
    /\ \E q \in Requests[c] :
         IF runner[q.runner].active \/ runner[q.runner].controller
         THEN /\ run' = [run EXCEPT ![c].pc = "done", ![c].outcome = "busy"]
              /\ UNCHANGED runner
         ELSE /\ run' = [run EXCEPT ![c].pc = "prepare", ![c].runner = q.runner, ![c].id = q.id,
                                    ![c].backend = q.backend, ![c].export = q.export]
              /\ runner' = [runner EXCEPT ![q.runner].active = TRUE, ![q.runner].receipt = None,
                                          ![q.runner].manifest = None]
    /\ UNCHANGED <<store, faults, audit, dirs, active, op>>

\* run raises; its finally clause gives the Runner up.
Raise(c) ==
    /\ run' = [run EXCEPT ![c].pc = "done", ![c].outcome = "raised", ![c].id = None, ![c].export = FALSE,
                           ![c].why = None]
    /\ runner' = [runner EXCEPT ![run[c].runner].active = FALSE]

\* The request, the authority or the digests do not fit, the directory exists, or it
\* cannot be filled, and stays.
RejectRequest(c) ==
    /\ run[c].pc = "prepare"
    /\ dirs' \in {dirs, dirs \cup {<<run[c].runner, run[c].id>>}}
    /\ Raise(c)
    /\ UNCHANGED <<store, faults, audit, active, op>>

\* New run and exchange directories, inputs, attestation, workflow_start, and the
\* controller that a stop goes to
Prepare(c) ==
    /\ run[c].pc = "prepare" /\ <<run[c].runner, run[c].id>> \notin dirs
    /\ dirs' = dirs \cup {<<run[c].runner, run[c].id>>}
    /\ audit' = [audit EXCEPT ![c] = <<"start">>]
    /\ runner' = [runner EXCEPT ![run[c].runner].controller = run[c].backend = "native"]
    /\ Goto(c, "backend")
    /\ UNCHANGED <<store, faults, active, op>>

\* Docker or microvm_invoke: the whole run is one call that returns or raises.
OtherBackend(c) ==
    /\ run[c].pc = "backend" /\ run[c].backend = "other"
    /\ Goto(c, "returned") \/ Goto(c, "error")
    /\ UNCHANGED <<store, faults, runner, audit, dirs, active, op>>

(***************************************************************************)
(* The adapter's execute.                                                  *)
(***************************************************************************)
\* The Runner's finally clause
NoController(c) == runner' = [runner EXCEPT ![run[c].runner].controller = FALSE]

\* Host control files, an unreadable workflow, a specification that is refused:
\* nothing was started and no hook is called.
RejectSpec(c) ==
    /\ run[c].pc = "backend" /\ run[c].backend = "native"
    /\ Goto(c, "error") /\ NoController(c)
    /\ UNCHANGED <<store, faults, audit, dirs, active, op>>

\* launch, under _active_lock, and the opening of the broker session
Launch(c) ==
    /\ run[c].pc = "backend" /\ run[c].backend = "native"
    /\ IF active # None
       THEN Goto(c, "error") /\ NoController(c) /\ UNCHANGED active
       ELSE /\ active' = c
            /\ run' = [run EXCEPT ![c].pc = "poll", ![c].proc = "alive"]
            /\ UNCHANGED runner
    /\ UNCHANGED <<store, faults, audit, dirs, op>>

\* The container CLI cannot be started: both hooks are called, there is no handle.
LaunchFails(c) ==
    /\ run[c].pc = "backend" /\ run[c].backend = "native" /\ active = None
    /\ Fault
    /\ run' = [run EXCEPT ![c].pc = "error", ![c].revokeCalled = TRUE, ![c].wipeCalled = TRUE]
    /\ NoController(c)
    /\ UNCHANGED <<store, audit, dirs, active, op>>

\* An exception in execute
Fails(c, why) == run' = [run EXCEPT ![c].pc = "cleanup", ![c].why = why]

\* The top of the loop: the process is polled before a frame is read.
PollProcess(c) ==
    /\ run[c].pc = "poll"
    /\ IF Alive(c) THEN Goto(c, "read") ELSE Fails(c, "exited early")
    /\ UNCHANGED <<store, faults, runner, audit, dirs, active, op>>

ReadFrame(c) ==
    /\ run[c].pc = "read" /\ run[c].read < run[c].sent
    /\ run' = [run EXCEPT ![c].read = @ + 1, ![c].pc = IF run[c].read = 1 THEN "verify" ELSE "poll"]
    /\ UNCHANGED <<store, faults, runner, audit, dirs, active, op>>

\* The deadline, a broken pipe, a bad or a second receipt, too much output
ConversationFails(c) ==
    /\ run[c].pc \in {"poll", "read", "verify"}
    /\ Fails(c, "broken")
    /\ UNCHANGED <<store, faults, runner, audit, dirs, active, op>>

\* Mutant: the process is not waited for
VerifyResultOnly(c) ==
    /\ run[c].pc = "verify"
    /\ Goto(c, "report")
    /\ UNCHANGED <<store, faults, runner, audit, dirs, active, op>>

\* The result's hash and the receipt fit; the process ends as the result says.
Verify(c) ==
    /\ run[c].pc = "verify" /\ ~Alive(c)
    /\ IF run[c].proc = run[c].claim THEN Goto(c, "report") ELSE Fails(c, "disagrees")
    /\ UNCHANGED <<store, faults, runner, audit, dirs, active, op>>

\* The output, receipt, supervisor, revoke and wipe events
Report(c) ==
    /\ run[c].pc = "report"
    /\ Goto(c, "revoke")
    /\ runner' = [runner EXCEPT ![run[c].runner].receipt = c]
    /\ audit' = [audit EXCEPT ![c] = Append(@, "receipt")]
    /\ UNCHANGED <<store, faults, dirs, active, op>>

\* The audit log cannot be written before, at or after the receipt.
ReportFails(c) ==
    /\ run[c].pc = "report" /\ Fault
    /\ Fails(c, "audit")
    /\ \/ UNCHANGED <<runner, audit>>
       \/ /\ runner' = [runner EXCEPT ![run[c].runner].receipt = c]
          /\ audit' \in {audit, [audit EXCEPT ![c] = Append(@, "receipt")]}
    /\ UNCHANGED <<store, dirs, active, op>>

\* Mutant: a failed run leaves its process to itself
FailureCleanupSparing(c) ==
    /\ run[c].pc = "cleanup"
    /\ Goto(c, "revoke")
    /\ UNCHANGED <<store, faults, runner, audit, dirs, active, op>>

\* terminate, then kill: SIGTERM may be ignored, SIGKILL not
Terminated(c) == [run EXCEPT ![c].proc = IF Alive(c) THEN "killed" ELSE @]

\* A stop frame, which may fail, and the end of the process
FailureCleanup(c) ==
    /\ run[c].pc = "cleanup"
    /\ run' = [Terminated(c) EXCEPT ![c].pc = "revoke"]
    /\ UNCHANGED <<store, faults, runner, audit, dirs, active, op>>

(***************************************************************************)
(* revoke_once and wipe_once of run c, in the thread whose place is at.    *)
(***************************************************************************)
Once == {"revoke", "revoking", "revoked", "wipe", "wiping", "wiped"}

\* Test the flag; set it; call the hook
OnceNext(r, at) ==
    CASE at = "revoke" -> IF r.revoked THEN "wipe" ELSE "revoking"
      [] at = "revoking" -> "revoked"
      [] at = "revoked" -> "wipe"
      [] at = "wipe" -> IF r.wiped THEN "close" ELSE "wiping"
      [] at = "wiping" -> "wiped"
      [] at = "wiped" -> "close"

OnceEffect(r, at) ==
    CASE at = "revoking" -> [r EXCEPT !.revoked = TRUE]
      [] at = "revoked" -> [r EXCEPT !.revokeCalled = TRUE]
      [] at = "wiping" -> [r EXCEPT !.wiped = TRUE]
      [] at = "wiped" -> [r EXCEPT !.wipeCalled = TRUE]
      [] OTHER -> r

CleanUp(c) ==
    LET r == run[c]
    IN  /\ r.pc \in Once
        /\ run' = [run EXCEPT ![c] = [OnceEffect(r, r.pc) EXCEPT !.pc = OnceNext(r, r.pc)]]
        /\ UNCHANGED <<store, faults, runner, audit, dirs, active, op>>

\* Mutant: execute does not catch what a hook raises
HookRaisesUncaught(c) ==
    /\ run[c].pc \in {"revoked", "wiped"} /\ Fault
    /\ run' = [run EXCEPT ![c] = [OnceEffect(run[c], run[c].pc) EXCEPT !.pc = "close", !.why = "hook"]]
    /\ UNCHANGED <<store, runner, audit, dirs, active, op>>

\* A hook raises: noted during a failure's cleanup, else the failure itself
HookRaises(c) ==
    LET r == run[c]
    IN  /\ r.pc \in {"revoked", "wiped"} /\ Fault
        /\ run' = [run EXCEPT ![c] =
                     IF r.why = None
                     THEN [OnceEffect(r, r.pc) EXCEPT !.pc = "cleanup", !.why = "hook"]
                     ELSE [OnceEffect(r, r.pc) EXCEPT !.pc = OnceNext(r, r.pc)]]
        /\ UNCHANGED <<store, runner, audit, dirs, active, op>>

\* What is left of a failed run without a receipt: a process that has ended
Dropped(r) ==
    IF r.why \in {None, "audit", "hook"} THEN r
    ELSE [r EXCEPT !.sent = 0, !.read = 0, !.claim = None, !.why = "failed",
                   !.proc = IF @ = "alive" THEN @ ELSE "killed"]

\* The finally clauses of execute and of the Runner.  After a failure they call
\* revoke_once and wipe_once again, which find both flags set.
Close(c) ==
    /\ run[c].pc = "close"
    /\ active' = None
    /\ NoController(c)
    /\ run' = [run EXCEPT ![c] = [Dropped(@) EXCEPT !.pc = IF run[c].why = None THEN "returned"
                                                            ELSE "error"]]
    /\ UNCHANGED <<store, faults, audit, dirs, op>>

(***************************************************************************)
(* The Runner after its backend has returned or raised.                    *)
(***************************************************************************)
StartExport(c) ==
    /\ run[c].pc = "returned" /\ run[c].export
    /\ ExportTree(c, run[c].id)
    /\ Goto(c, "exporting")
    /\ UNCHANGED <<faults, runner, audit, dirs, active, op>>

Export(c) ==
    /\ run[c].pc = "exporting"
    /\ ExportStep(c)
    /\ UNCHANGED <<faults, runner, run, audit, dirs, active, op>>

ExportFails(c) ==
    /\ run[c].pc = "exporting" /\ export[c].at = "rejected"
    /\ Goto(c, "error")
    /\ UNCHANGED <<store, faults, runner, audit, dirs, active, op>>

Finished(c) ==
    \/ run[c].pc = "returned" /\ ~run[c].export
    \/ run[c].pc = "exporting" /\ export[c].at = "exported"

\* Mutant: workflow_end is written as soon as the backend has returned
EndBeforeExport(c) ==
    /\ run[c].pc = "returned" /\ "end" \notin {audit[c][i] : i \in DOMAIN audit[c]}
    /\ audit' = [audit EXCEPT ![c] = Append(@, "end")]
    /\ IF run[c].export
       THEN UNCHANGED <<run, runner>>
       ELSE /\ run' = [run EXCEPT ![c].pc = "done", ![c].outcome = "result"]
            /\ runner' = [runner EXCEPT ![run[c].runner].active = FALSE]
    /\ UNCHANGED <<store, faults, dirs, active, op>>

\* workflow_end with the manifest, and the result is returned
End(c) ==
    /\ Finished(c)
    /\ audit' = [audit EXCEPT ![c] = Append(@, "end")]
    /\ run' = [run EXCEPT ![c].pc = "done", ![c].outcome = "result", ![c].id = None, ![c].export = FALSE,
                           ![c].why = None]
    /\ runner' = [runner EXCEPT ![run[c].runner].active = FALSE,
                                ![run[c].runner].manifest = IF run[c].export THEN c ELSE None]
    /\ UNCHANGED <<store, faults, dirs, active, op>>

\* An error event, and the exception goes on
Error(c) ==
    /\ run[c].pc = "error"
    /\ audit' = [audit EXCEPT ![c] = Append(@, "error")]
    /\ Raise(c)
    /\ UNCHANGED <<store, faults, dirs, active, op>>

\* The last event cannot be written: run raises without it.
LastEventFails(c) ==
    /\ Finished(c) \/ run[c].pc = "error"
    /\ Fault
    /\ Raise(c)
    /\ UNCHANGED <<store, audit, dirs, active, op>>

(***************************************************************************)
(* The operator.                                                           *)
(***************************************************************************)
\* stop_handle of a run, used now or when another run has become active: stop is
\* the adapter's, and takes whichever run that is.  Without one it raises.
Stop ==
    /\ op.pc = "idle" /\ active # None
    /\ op' = [pc |-> "stop", target |-> active]
    /\ UNCHANGED <<store, faults, runner, run, audit, dirs, active>>

StopTerminate ==
    /\ op.pc = "stop"
    /\ run' = Terminated(op.target)
    /\ op' = [op EXCEPT !.pc = "revoke"]
    /\ UNCHANGED <<store, faults, runner, audit, dirs, active>>

StopCleanUp ==
    /\ op.pc \in Once
    /\ run' = [run EXCEPT ![op.target] = OnceEffect(@, op.pc)]
    /\ LET next == OnceNext(run[op.target], op.pc)
       IN  op' = IF next = "close" THEN OpDone ELSE [op EXCEPT !.pc = next]
    /\ UNCHANGED <<store, faults, runner, audit, dirs, active>>

\* A hook raises out of stop: after a failed revoke no wipe is attempted.
StopHookRaises ==
    /\ op.pc \in {"revoked", "wiped"} /\ Fault
    /\ run' = [run EXCEPT ![op.target] = OnceEffect(@, op.pc)]
    /\ op' = OpDone
    /\ UNCHANGED <<store, runner, audit, dirs, active>>

(***************************************************************************)
(* The guest.                                                              *)
(***************************************************************************)
\* The receipt, then the result with the workflow's status
GuestSend(c) ==
    /\ Alive(c) /\ run[c].pc \in {"poll", "read"} /\ run[c].sent < 2
    /\ \E claim \in {"ok", "failed"} :
         run' = [run EXCEPT ![c].sent = @ + 1, ![c].claim = IF run[c].sent = 1 THEN claim ELSE None]
    /\ UNCHANGED <<store, faults, runner, audit, dirs, active, op>>

\* main returns 0 after any result; a crash or the containment monitor ends it
\* with another code.
GuestExit(c) ==
    /\ Alive(c)
    /\ \E code \in {"failed"} \cup (IF run[c].sent = 2 THEN {"ok"} ELSE {}) :
         run' = [run EXCEPT ![c].proc = code]
    /\ UNCHANGED <<store, faults, runner, audit, dirs, active, op>>

Execute(c) ==
    \/ RejectSpec(c) \/ Launch(c) \/ LaunchFails(c)
    \/ PollProcess(c) \/ ReadFrame(c) \/ ConversationFails(c) \/ Verify(c)
    \/ Report(c) \/ ReportFails(c) \/ FailureCleanup(c) \/ CleanUp(c) \/ HookRaises(c)
    \/ Close(c)

Call(c) ==
    \/ Run(c) \/ RejectRequest(c) \/ Prepare(c) \/ OtherBackend(c) \/ Execute(c)
    \/ StartExport(c) \/ Export(c) \/ ExportFails(c)
    \/ End(c) \/ Error(c) \/ LastEventFails(c)

Operator ==
    \/ Stop \/ StopTerminate \/ StopCleanUp \/ StopHookRaises

StoreStep ==
    /\ \/ \E i \in RunIds : Materialize(i)
       \/ Deliver
       \/ \E c \in Calls : ConcurrentWrite(c)
       \/ \E d \in Bytes : Corrupt(d)
    /\ UNCHANGED <<runner, run, audit, dirs, active, op>>

Next ==
    \/ \E c \in Calls : Call(c) \/ GuestSend(c) \/ GuestExit(c)
    \/ Operator \/ StoreStep

Spec == Init /\ [][Next]_vars

(***************************************************************************)
(* Properties.                                                             *)
(***************************************************************************)
Launched(c) == run[c].proc # "none"

Places == {"idle", "prepare", "backend", "poll", "read", "verify", "report", "cleanup", "close",
           "returned", "error", "exporting", "done"} \cup Once

Runs ==
    [pc : Places, runner : Runners \cup {None}, id : RunIds \cup {None},
     backend : {"native", "other", None}, export : BOOLEAN,
     proc : Procs, sent : 0..2, read : 0..2,
     claim : {"ok", "failed", None}, revoked : BOOLEAN, wiped : BOOLEAN,
     revokeCalled : BOOLEAN, wipeCalled : BOOLEAN,
     why : Whys \cup {None},
     outcome : {"busy", "raised", "result", None}]

RunnerStates ==
    [active : BOOLEAN, controller : BOOLEAN, receipt : Calls \cup {None}, manifest : Calls \cup {None}]

\* Types: runners, runs, logs and the operator stay in their sets, and the adapter's
\* slot holds a call that is between launch and close.
TypeOK ==
    /\ StoreTypeOK
    /\ runner \in [Runners -> RunnerStates]
    /\ run \in [Calls -> Runs]
    /\ audit \in [Calls -> Seq({"start", "receipt", "end", "error"})]
    /\ \A c \in Calls : run[c].read <= run[c].sent /\ Len(audit[c]) <= 3
    /\ dirs \subseteq Runners \X RunIds
    /\ active \in Calls \cup {None}
    /\ active # None => Launched(active) /\ run[active].pc # "done"
    /\ op \in [pc : {"idle", "stop", "done"} \cup Once, target : Calls \cup {None}]

\* How a run appears to its callers (RunContract)
Phase(r) == CASE r.pc = "idle" -> "idle" [] r.pc = "done" -> "closed" [] OTHER -> "open"

Worker(r) == IF r.proc \in {"none", "alive"} THEN r.proc ELSE "ended"

Cleaned(r) == r.revoked /\ r.wiped

Contract == INSTANCE RunContract WITH
    phase <- [c \in Calls |-> Phase(run[c])],
    worker <- [c \in Calls |-> Worker(run[c])],
    cleaned <- [c \in Calls |-> Cleaned(run[c])],
    promoted <- [c \in Calls |-> export[c].at = "exported"]

\* The Runner over the native adapter and the store implements RunContract: one
\* container at a time, revoked and wiped only once it has ended, its output
\* promoted and its call returned only after that, whoever stopped it.
ImplementsContract == Contract!Spec

\* last_host_receipt is the receipt of the Runner's latest run, of a guest whose
\* process ended as its verified result said, never one left by an earlier run
\* (Runner.run, emit_host_event).
LastReceiptIsVerified ==
    \A n \in Runners : LET c == runner[n].receipt IN c # None =>
        /\ run[c].runner = n /\ run[c].read = 2 /\ run[c].proc = run[c].claim
        /\ \A d \in Calls : d # c /\ run[d].runner = n => run[d].pc = "done"

\* Runs, exports and what the runner shows of them are consistent.
ReceiptInv == TypeOK /\ LastReceiptIsVerified

\* The audit log tells how the run ended: workflow_end is the last event of a run
\* that returned, after the receipt of a native one, and of no run that raised,
\* also when hooks, exports or the log itself fail (_execute_run).
AuditTellsOutcome ==
    \A c \in Calls : run[c].pc = "done" /\ run[c].outcome # "busy" =>
        LET events == {audit[c][i] : i \in DOMAIN audit[c]}
        IN  IF run[c].outcome = "result"
            THEN /\ audit[c][Len(audit[c])] = "end"
                 /\ run[c].backend = "native" => audit[c] = <<"start", "receipt", "end">>
            ELSE "end" \notin events

\* When a run is over and no stop of it is under way, both hooks have been called,
\* although either may have raised, in either thread (execute, stop).
CleanedWhenQuiet ==
    \A c \in Calls :
        Launched(c) /\ run[c].pc \in {"returned", "error", "exporting", "done"} =>
            \/ op.target = c
            \/ run[c].revokeCalled /\ run[c].wipeCalled

=============================================================================
