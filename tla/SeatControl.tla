----------------------------- MODULE SeatControl -----------------------------
(***************************************************************************)
(* Guarded seat operations (seats/controller.py, seats/guard.py and the    *)
(* GUARD_V1 script they run over SSH): local lock, remote lock, ownership  *)
(* poll, GO, operation, reconciliation, RELEASE.                           *)
(*                                                                         *)
(* All seats here share one endpoint of one host.  The name of the lock is *)
(* computed from the host as the bridge has it configured, so two bridges  *)
(* that know it by different names have different locks on it.  Bridges    *)
(* have a local lock and a state file each; only the lock on the host      *)
(* orders operations of different bridges.  A session is one ssh process   *)
(* with the guard shell at its far end: the shell goes on when the local   *)
(* side is killed or the connection is lost.                               *)
(* A poll, or the last poll of a loop, decides together with the write     *)
(* that follows it.                                                        *)
(***************************************************************************)
EXTENDS Naturals, FiniteSets

CONSTANTS
    Calls,    \* operations in progress at one time
    Bridges,
    HomeOf,   \* Calls -> SUBSET Bridges: where a call may be made
    NameOf,   \* the lock's name at each bridge
    Seats,
    Template, \* Seats -> "systemd-user", "control-script" or "bare-command"
    None,
    MaxRuns,  \* bound on the operations that are started
    MaxFaults \* bound on crashes, restarts, lost connections and damaged files

\* Operations; exit codes of the guard and of what it runs; outcomes of a controller
Kinds == {"start", "stop"}
GuardCodes == {"UNAVAILABLE", "BUSY", "GATE_REFUSED", "GATE_TIMEOUT"}
Codes == {"ok", "failed"} \cup GuardCodes
Outcomes == {"refused", "raised", "serving", "dormant", "error", "indeterminate"}

ASSUME ControlAssumption ==
    /\ Template \in [Seats -> {"systemd-user", "control-script", "bare-command"}]
    /\ HomeOf \in [Calls -> SUBSET Bridges]
    /\ None \notin Seats \cup Bridges \cup Kinds \cup Codes \cup Outcomes
    /\ MaxRuns \in Nat /\ MaxFaults \in Nat

VARIABLES
    call,     \* the controller objects and their GuardController
    guard,    \* the guard shells on the host, one per call
    service,  \* each seat's service: down, loading or ready
    instance, \* which launch of the seat's command is, or was last, alive
    restarts, \* NRestarts of the seat's unit
    records,  \* the PID record each bridge keeps of a seat
    emptied,  \* the bridges whose state file was found damaged
    runs, faults

vars == <<call, guard, service, instance, restarts, records, emptied, runs, faults>>

Idle == [pc |-> "idle", op |-> None, seat |-> None, bridge |-> None, ssh |-> "up",
         noop |-> FALSE, base |-> 0, trailer |-> None, result |-> None, outcome |-> None]

\* rc is the operation's exit code once it has run, code that of the guard.  A guard
\* is tended while a controller is at the other end and may still write.
NoGuard == [at |-> "none", op |-> None, seat |-> None, bridge |-> None, stdin |-> "open",
            tended |-> TRUE, rc |-> None, code |-> None, pid |-> 0]

NoRecords == [s \in Seats |-> 0]

Init ==
    /\ call = [c \in Calls |-> Idle]
    /\ guard = [c \in Calls |-> NoGuard]
    /\ service \in [Seats -> {"down", "ready"}]
    /\ Cardinality({s \in Seats : service[s] = "ready"}) <= 1
    /\ instance = [s \in Seats |-> 1]
    /\ restarts = [s \in Seats |-> 0]
    /\ records = [b \in Bridges |-> NoRecords]
    /\ emptied = {}
    /\ runs = 0 /\ faults = 0

TemplateOf(c) == Template[call[c].seat]

Goto(c, pc) == call' = [call EXCEPT ![c].pc = pc]

\* The controller object returns its outcome and is dropped.
Return(c, outcome) ==
    call' = [call EXCEPT ![c] = [@ EXCEPT !.pc = "done", !.outcome = outcome, !.base = 0,
                                          !.trailer = None, !.result = None]]

host == <<service, instance, restarts>>
file == <<records, emptied>>

(***************************************************************************)
(* Observations.  A poll may fail, find the host unreachable, find the     *)
(* endpoint answering with an error, or see the models being served.  Only *)
(* the last kind carries models.                                           *)
(***************************************************************************)
Serving == {s \in Seats : service[s] = "ready"}

Poll == {[reachable |-> FALSE, valid |-> FALSE, models |-> {}],
         [reachable |-> TRUE, valid |-> FALSE, models |-> {}],
         [reachable |-> TRUE, valid |-> TRUE, models |-> Serving]}

IsSole(c, seen) == seen.reachable /\ seen.models = {call[c].seat}

\* L3: the poll that permits GO while both locks are held
Permits(c, seen) ==
    /\ seen.reachable /\ seen.valid
    /\ CASE call[c].op = "start" -> seen.models = {}
         [] call[c].op # "start" /\ TemplateOf(c) = "control-script" ->
              seen.models = {call[c].seat}
         [] OTHER -> seen.models \subseteq {call[c].seat}

\* An idempotent start: the exact sole model is already served.
GateNoop(c, seen) == call[c].op = "start" /\ seen.valid /\ IsSole(c, seen)

(***************************************************************************)
(* The controller up to the remote lock.                                   *)
(***************************************************************************)
Available(c) == call[c].pc = "idle" /\ guard[c].at = "none" /\ runs < MaxRuns

\* start, or stop and force_stop, which differ in the command that stops a unit.
\* Start reads the unit's restart counter first.
Operate(c) ==
    /\ Available(c) /\ runs' = runs + 1
    /\ guard' = [guard EXCEPT ![c] = NoGuard]
    /\ \E op \in Kinds, s \in Seats, b \in HomeOf[c] :
         call' = [call EXCEPT ![c] = [Idle EXCEPT !.pc = "lock", !.op = op, !.seat = s,
                                            !.bridge = b, !.base = restarts[s]]]
    /\ UNCHANGED <<host, file, faults>>

\* The lifetime prerequisite is not met, or a script seat is to be force-stopped.
RefuseEarly(c) ==
    /\ Available(c) /\ runs' = runs + 1
    /\ guard' = [guard EXCEPT ![c] = NoGuard]
    /\ call' = [call EXCEPT ![c] = [Idle EXCEPT !.pc = "done", !.outcome = "refused"]]
    /\ UNCHANGED <<host, file, faults>>

LocalHolders(b) == {d \in Calls : call[d].bridge = b /\ call[d].pc \notin {"idle", "lock", "done"}}

Record(c) == records[call[c].bridge][call[c].seat]

\* A bare command is stopped by the identity in its record, or not at all.
NeedsRecord(c) == TemplateOf(c) = "bare-command" /\ call[c].op # "start"

\* A state file that is found damaged is set aside, and an empty one takes its place.
_quarantine_locked(b) ==
    /\ faults < MaxFaults /\ faults' = faults + 1
    /\ emptied' = emptied \cup {b}

\* StateStore.load raises in that case.
LoadFails(b) == _quarantine_locked(b) /\ records' = [records EXCEPT ![b] = NoRecords]

\* The record is not read: the lock is given back before ssh is started.
RecordUnread(c) ==
    /\ call[c].pc = "lock" /\ NeedsRecord(c)
    /\ LocalHolders(call[c].bridge) = {}
    /\ LoadFails(call[c].bridge)
    /\ Return(c, "raised")
    /\ UNCHANGED <<guard, host, runs>>

\* The lock is taken, the command is built and ssh is started.
Connect(c) ==
    /\ call[c].pc = "lock"
    /\ LocalHolders(call[c].bridge) = {}
    /\ IF NeedsRecord(c) /\ Record(c) = 0
       THEN Return(c, "raised") /\ UNCHANGED guard
       ELSE /\ Goto(c, "locking")
            /\ guard' = [guard EXCEPT ![c] =
                           [NoGuard EXCEPT !.at = "flock", !.op = call[c].op,
                                           !.seat = call[c].seat, !.bridge = call[c].bridge,
                                           !.pid = Record(c)]]
    /\ UNCHANGED <<host, file, runs, faults>>

LocalContention(c) ==
    /\ call[c].pc = "lock"
    /\ LocalHolders(call[c].bridge) # {}
    /\ Return(c, "refused")
    /\ UNCHANGED <<guard, host, file, runs, faults>>

(***************************************************************************)
(* The guard shell.                                                        *)
(***************************************************************************)
LockOf(g) == NameOf[g.bridge]

\* Mutant: a guard nobody tends drops its lock, its operation running on
HoldersTended(name) ==
    {d \in Calls : /\ guard[d].at \in {"gate", "running", "release"} /\ guard[d].tended
                   /\ LockOf(guard[d]) = name}

RemoteHolders(name) ==
    {d \in Calls : guard[d].at \in {"gate", "running", "release"} /\ LockOf(guard[d]) = name}

Guard(c, at) == guard' = [guard EXCEPT ![c].at = at]

\* A request that is over looks at its guard no more.
Forgotten(g) == IF g.at = "exited" THEN NoGuard ELSE g

Exit(c, code) ==
    LET g == [guard[c] EXCEPT !.at = "exited", !.code = code]
    IN  guard' = [guard EXCEPT ![c] = IF call[c].pc = "idle" THEN Forgotten(g) ELSE g]

\* flock --wait 10, then TESTUDO_LOCKED
RemoteLock(c) ==
    /\ guard[c].at = "flock" /\ RemoteHolders(LockOf(guard[c])) = {}
    /\ Guard(c, "gate")
    /\ UNCHANGED <<call, host, file, runs, faults>>

RemoteBusy(c) ==
    /\ guard[c].at = "flock" /\ RemoteHolders(LockOf(guard[c])) # {}
    /\ Exit(c, "BUSY")
    /\ UNCHANGED <<call, host, file, runs, faults>>

\* A tool is missing on the host, or the lock's directory or file is not safe to use.
RemoteUnavailable(c) ==
    /\ guard[c].at = "flock"
    /\ Exit(c, "UNAVAILABLE")
    /\ UNCHANGED <<call, host, file, runs, faults>>

\* head -n 1 reads GO, the end of input, or nothing for 30 seconds
RemoteGate(c) ==
    /\ guard[c].at = "gate"
    /\ CASE guard[c].stdin = "GO" -> Guard(c, "running")
         [] guard[c].stdin = "closed" -> Exit(c, "GATE_REFUSED")
         [] OTHER -> Exit(c, "GATE_TIMEOUT")
    /\ UNCHANGED <<call, host, file, runs, faults>>

\* A bare command is stopped only if the process is the recorded one.
Stoppable(c) ==
    LET s == guard[c].seat
    IN  Template[s] = "bare-command" => guard[c].pid = instance[s] /\ service[s] # "down"

Ran(c, rc, pid) ==
    guard' = [guard EXCEPT ![c].at = "release", ![c].rc = rc, ![c].pid = pid]

\* The operation ends.  It has its effect or not; a script's exit code is its own,
\* says nothing certain of the effect, and may equal a code of the guard.
RemoteStart(c) ==
    LET s == guard[c].seat
        launches == Template[s] = "bare-command"
    IN  /\ guard[c].at = "running" /\ guard[c].op = "start"
        /\ service' = [service EXCEPT ![s] = IF launches \/ @ = "down" THEN "loading" ELSE @]
        /\ instance' = [instance EXCEPT ![s] = IF launches THEN @ + 1 ELSE @]
        /\ \E rc \in {"ok", "failed"} : Ran(c, rc, instance'[s])
        /\ UNCHANGED <<call, restarts, file, runs, faults>>

RemoteStop(c) ==
    /\ guard[c].at = "running" /\ guard[c].op # "start" /\ Stoppable(c)
    /\ service' = [service EXCEPT ![guard[c].seat] = "down"]
    /\ \E rc \in {"ok", "failed"} : Ran(c, rc, guard[c].pid)
    /\ UNCHANGED <<call, instance, restarts, file, runs, faults>>

RemoteNoEffect(c) ==
    /\ guard[c].at = "running"
    /\ \E rc \in {"failed"} \cup (IF Template[guard[c].seat] = "control-script" THEN {"ok", "BUSY"} ELSE {}) :
         Ran(c, rc, guard[c].pid)
    /\ UNCHANGED <<call, host, file, runs, faults>>

\* After the trailer: RELEASE ends the guard with the operation's code.  The wait
\* of 1830 seconds is longer than any reconciliation: it ends only if nobody is left
\* to write.
RemoteRelease(c) ==
    /\ guard[c].at = "release"
    /\ \/ guard[c].stdin = "RELEASE" /\ Exit(c, guard[c].rc)
       \/ guard[c].stdin = "closed" /\ Exit(c, "GATE_REFUSED")
       \/ guard[c].stdin = "GO" /\ ~guard[c].tended /\ Exit(c, "GATE_TIMEOUT")
    /\ UNCHANGED <<call, host, file, runs, faults>>

(***************************************************************************)
(* The local end of the session: _drive_protocol.                          *)
(***************************************************************************)
\* What is written reaches the guard unless it has exited or the connection is lost.
Write(c, text) ==
    IF call[c].ssh = "up" /\ guard[c].at # "exited"
    THEN guard' = [guard EXCEPT ![c].stdin = text] ELSE UNCHANGED guard

\* Nobody will write to the guard any more.  It notices at once, what was written last
\* being lost, or reads that first and sees the end of its input later or never.
Untended(g, late) ==
    IF g.at \in {"none", "exited"} THEN g
    ELSE [g EXCEPT !.tended = FALSE, !.stdin = IF late THEN @ ELSE "closed"]

\* The end of an untended input.
InputEnds(c) ==
    /\ ~guard[c].tended /\ guard[c].at \in {"flock", "gate", "running", "release"}
    /\ guard[c].stdin # "closed" /\ (guard[c].stdin = "GO" => guard[c].at \in {"running", "release"})
    /\ guard' = [guard EXCEPT ![c].stdin = "closed"]
    /\ UNCHANGED <<call, host, file, runs, faults>>

\* TESTUDO_LOCKED is read, the endpoint polled, and GO written or the input closed.
_post_lock_poll(c) ==
    /\ call[c].pc = "locking" /\ call[c].ssh = "up" /\ guard[c].at = "gate"
    /\ \E seen \in Poll :
         IF Permits(c, seen)
         THEN Write(c, "GO") /\ Goto(c, "operating")
         ELSE /\ Write(c, "closed")
              /\ call' = [call EXCEPT ![c].pc = "closing", ![c].noop = GateNoop(c, seen)]
    /\ UNCHANGED <<host, file, runs, faults>>

\* The trailer is read, also after the end of a connection that had carried it:
\* reconciliation begins.
TrailerSeen(c) ==
    /\ call[c].pc = "operating"
    /\ call[c].ssh = "ended" \/ (call[c].ssh = "up" /\ guard[c].at = "release")

(***************************************************************************)
(* Reconciliation, while both locks are held.                              *)
(***************************************************************************)
\* Polls until the exact sole model is seen or the window ends
_await_sole_model(c) ==
    {"error"} \cup {"serving" : seen \in {seen \in Poll : IsSole(c, seen)}}

\* A1: no or bad output of systemctl show, the restart counter, the unit's state
ReconcileSystemdStart(c) ==
    LET s == call[c].seat
    IN  {"indeterminate"} \cup
        CASE restarts[s] > call[c].base -> {"error"}
          [] restarts[s] < call[c].base -> {}
          [] OTHER -> IF service[s] = "down" THEN {"dormant", "error"} ELSE _await_sole_model(c)

\* B1: the status subcommand claims what it likes; serving needs the endpoint too.
ReconcileScriptStart(c) == {"error", "indeterminate"} \cup _await_sole_model(c)

\* C3: the launch printed exactly one PID line
PidPrinted(c) == guard[c].rc = "ok"

\* A2: systemd says inactive or failed, and the model is not among those seen
ReconcileSystemdStop(c) ==
    {"indeterminate"} \cup
    {"dormant" : seen \in {seen \in Poll : service[call[c].seat] = "down"
                                           /\ call[c].seat \notin seen.models}}

\* The first poll that does not report the model, whatever else it says
_reconcile_stop(c) ==
    {"indeterminate"} \cup {"dormant" : seen \in {seen \in Poll : call[c].seat \notin seen.models}}

Results(c) ==
    CASE call[c].op = "start" /\ TemplateOf(c) = "systemd-user" -> ReconcileSystemdStart(c)
      [] call[c].op = "start" /\ TemplateOf(c) = "control-script" -> ReconcileScriptStart(c)
      [] call[c].op = "start" /\ TemplateOf(c) = "bare-command" -> _await_sole_model(c)
      [] call[c].op # "start" /\ TemplateOf(c) = "systemd-user" -> ReconcileSystemdStop(c)
      [] OTHER -> _reconcile_stop(c)

Decided(c, result) ==
    /\ call' = [call EXCEPT ![c].pc = "closing", ![c].result = result,
                            ![c].trailer = guard[c].rc]
    /\ Write(c, "RELEASE")

BareStart(c) == call[c].op = "start" /\ TemplateOf(c) = "bare-command"

\* Mutant: readiness is awaited without a record
ReadyWithoutRecord(c) ==
    /\ TrailerSeen(c) /\ BareStart(c) /\ PidPrinted(c)
    /\ Goto(c, "ready")
    /\ UNCHANGED <<file, guard, host, runs, faults>>

\* StateStore.mutate: the record replaces the one the bridge had of the seat.  A file
\* damaged since it was loaded is set aside first.
mutate(c) ==
    LET b == call[c].bridge
        Put(kept) == records' = [records EXCEPT ![b] = [kept EXCEPT ![call[c].seat] = guard[c].pid]]
    IN  \/ Put(records[b]) /\ UNCHANGED <<emptied, faults>>
        \/ Put(NoRecords) /\ _quarantine_locked(b)

\* C3: the record is written before readiness is awaited.
_persist_pid_record(c) ==
    /\ TrailerSeen(c) /\ BareStart(c) /\ PidPrinted(c)
    /\ mutate(c)
    /\ Goto(c, "ready")
    /\ UNCHANGED <<guard, host, runs>>

\* A unit state it does not know, a record that is not valid, or a file that cannot be
\* read or written: the exception leaves the session with its ssh process alive, the
\* guard's input open and RELEASE unwritten; only the local lock is given back.
ReconcileRaises(c) ==
    /\ TrailerSeen(c) /\ call[c].op = "start"
    /\ \/ TemplateOf(c) = "systemd-user" /\ UNCHANGED <<file, faults>>
       \/ /\ BareStart(c) /\ PidPrinted(c)
          /\ UNCHANGED <<file, faults>> \/ LoadFails(call[c].bridge)
    /\ Return(c, "raised")
    /\ guard' = [guard EXCEPT ![c].tended = FALSE]
    /\ UNCHANGED <<host, runs>>

\* No PID line, or three revision conflicts in the state file
NoPidRecord(c) ==
    /\ TrailerSeen(c) /\ BareStart(c)
    /\ Decided(c, "indeterminate")
    /\ UNCHANGED <<host, file, runs, faults>>

_reconcile_operation(c) ==
    /\ call[c].pc = "ready" \/ (TrailerSeen(c) /\ ~BareStart(c))
    /\ \E result \in Results(c) : Decided(c, result)
    /\ UNCHANGED <<host, file, runs, faults>>

(***************************************************************************)
(* The end of the session and the outcome.                                 *)
(***************************************************************************)
\* A fresh poll after the session must still see the model of a started seat.
_final_state(c) ==
    CASE call[c].op = "start" /\ call[c].result = "serving" ->
           {IF IsSole(c, seen) THEN "serving" ELSE "indeterminate" : seen \in Poll}
      [] call[c].result = None -> {"indeterminate"}
      [] OTHER -> {call[c].result}

\* Mutant: a session without a trailer is read as a failed operation
FinalizeMissingTrailer(c, code, trailer) ==
    CASE code \in {"BUSY", "UNAVAILABLE"} -> {"refused"}
      [] code \in {"GATE_REFUSED", "GATE_TIMEOUT"} ->
           IF call[c].noop THEN {"serving"} ELSE {"refused"}
      [] OTHER -> IF trailer = "ok" THEN _final_state(c) ELSE {"error"}

_finalize(c, code, trailer) ==
    CASE code \in {"BUSY", "UNAVAILABLE"} -> {"refused"}
      [] code \in {"GATE_REFUSED", "GATE_TIMEOUT"} ->
           IF call[c].noop THEN {"serving"} ELSE {"refused"}
      [] code \notin GuardCodes /\ trailer = None -> {"indeterminate"}
      [] OTHER -> IF trailer = "ok" THEN _final_state(c) ELSE {"error"}

Waiting(c) == call[c].pc \in {"locking", "operating", "closing"}

\* The ssh process has exited: with the guard's code, or 255 for a lost connection.
\* A trailer that arrived before the end is found when the output is drained.
SeeExit(c) ==
    /\ Waiting(c)
    /\ \/ /\ call[c].ssh = "up" /\ guard[c].at = "exited"
          /\ \E o \in _finalize(c, guard[c].code, guard[c].rc) : Return(c, o)
       \/ /\ call[c].ssh = "lost"
          /\ \E o \in _finalize(c, None, call[c].trailer) : Return(c, o)
       \/ /\ call[c].ssh = "ended"
          /\ \E o \in _finalize(c, None, guard[c].rc) : Return(c, o)
    /\ UNCHANGED <<guard, host, file, runs, faults>>

\* The window ends: the local ssh process is killed, whatever runs on the host.
Deadline(c) ==
    /\ Waiting(c)
    /\ \E late \in BOOLEAN : guard' = [guard EXCEPT ![c] = Untended(@, late)]
    /\ Return(c, "indeterminate")
    /\ UNCHANGED <<host, file, runs, faults>>

\* The response is sent; the request is over.
Respond(c) ==
    /\ call[c].pc = "done"
    /\ call' = [call EXCEPT ![c] = Idle]
    /\ guard' = [guard EXCEPT ![c] = Forgotten(@)]
    /\ UNCHANGED <<host, file, runs, faults>>

(***************************************************************************)
(* Faults and the services themselves.                                     *)
(***************************************************************************)
LoseConnection(c) ==
    /\ faults < MaxFaults /\ faults' = faults + 1
    /\ call[c].pc \in {"locking", "operating", "ready", "closing"}
    /\ call[c].ssh = "up"
    /\ \E end \in {"lost"} \cup (IF guard[c].rc # None THEN {"ended"} ELSE {}) :
         call' = [call EXCEPT ![c].ssh = end]
    /\ \E late \in BOOLEAN : guard' = [guard EXCEPT ![c] = Untended(@, late)]
    /\ UNCHANGED <<host, file, runs>>

\* A bridge dies: its locks go with it, its files stay.
BridgeCrash(b) ==
    /\ faults < MaxFaults /\ faults' = faults + 1
    /\ LET lost == {c \in Calls : call[c].bridge = b}
           cut == {c \in Calls : guard[c].bridge = b}
       IN  /\ lost \cup cut # {}
           /\ call' = [c \in Calls |-> IF c \in lost THEN Idle ELSE call[c]]
           /\ \E late \in SUBSET cut :
                guard' = [c \in Calls |-> IF c \in cut THEN Forgotten(Untended(guard[c], c \in late))
                                          ELSE guard[c]]
    /\ UNCHANGED <<host, file, runs>>

\* Only one process can listen on the endpoint.
BecomeReady(s) ==
    /\ service[s] = "loading" /\ Serving = {}
    /\ service' = [service EXCEPT ![s] = "ready"]
    /\ UNCHANGED <<call, guard, instance, restarts, file, runs, faults>>

\* A service ends, and systemd may start it again; or the unit manager restarts.
Crash(s) ==
    /\ faults < MaxFaults /\ faults' = faults + 1
    /\ service[s] # "down"
    /\ \/ service' = [service EXCEPT ![s] = "down"] /\ UNCHANGED restarts
       \/ /\ Template[s] = "systemd-user"
          /\ service' = [service EXCEPT ![s] = "loading"]
          /\ \E n \in {restarts[s] + 1, 0} : restarts' = [restarts EXCEPT ![s] = n]
    /\ UNCHANGED <<call, guard, instance, file, runs>>

Client(c) ==
    \/ Connect(c) \/ RecordUnread(c) \/ LocalContention(c) \/ _post_lock_poll(c)
    \/ _persist_pid_record(c) \/ NoPidRecord(c) \/ _reconcile_operation(c) \/ ReconcileRaises(c)
    \/ SeeExit(c) \/ Deadline(c) \/ Respond(c)

Remote(c) ==
    RemoteLock(c) \/ RemoteBusy(c) \/ RemoteUnavailable(c) \/ RemoteGate(c) \/ RemoteRelease(c) \/ InputEnds(c)

Operation(c) == RemoteStart(c) \/ RemoteStop(c) \/ RemoteNoEffect(c)

Next ==
    \/ \E c \in Calls : Operate(c) \/ RefuseEarly(c) \/ Client(c) \/ Remote(c)
                          \/ Operation(c) \/ LoseConnection(c)
    \/ \E b \in Bridges : BridgeCrash(b)
    \/ \E s \in Seats : BecomeReady(s) \/ Crash(s)

Spec == Init /\ [][Next]_vars

(***************************************************************************)
(* Properties.                                                             *)
(***************************************************************************)
CallStates ==
    [pc : {"idle", "lock", "locking", "operating", "ready", "closing", "done"},
     op : Kinds \cup {None}, seat : Seats \cup {None}, bridge : Bridges \cup {None}, ssh : {"up", "lost", "ended"},
     noop : BOOLEAN, base : Nat, trailer : {"ok", "failed", "BUSY", None},
     result : {"serving", "dormant", "error", "indeterminate", None}, outcome : Outcomes \cup {None}]

GuardStates ==
    [at : {"none", "flock", "gate", "running", "release", "exited"}, op : Kinds \cup {None},
     seat : Seats \cup {None}, bridge : Bridges \cup {None},
     stdin : {"open", "GO", "RELEASE", "closed"}, tended : BOOLEAN,
     rc : {"ok", "failed", "BUSY", None}, code : Codes \cup {None}, pid : Nat]

\* Types: controllers, guard shells, services and counters stay in their sets, and a
\* guard that is to stop a bare command names a process.
TypeOK ==
    /\ call \in [Calls -> CallStates] /\ guard \in [Calls -> GuardStates]
    /\ \A c \in Calls :
         guard[c].at # "none" /\ guard[c].op # "start"
           /\ Template[guard[c].seat] = "bare-command" => guard[c].pid # 0
    /\ service \in [Seats -> {"down", "loading", "ready"}]
    /\ instance \in [Seats -> Nat] /\ restarts \in [Seats -> Nat]
    /\ records \in [Bridges -> [Seats -> Nat]] /\ emptied \subseteq Bridges
    /\ \A b \in Bridges, s \in Seats : records[b][s] <= instance[s]
    /\ runs \in 0..MaxRuns /\ faults \in 0..MaxFaults

\* Operations that name the host's lock alike never run at once, although two bridges
\* share no local lock, and a bridge that gave up, died, raised or lost its connection
\* leaves its operation running (GUARD_V1, guard.py _drive_protocol, render.py lock_key).
OneOperationAtATime ==
    \A c, d \in Calls :
        guard[c].at = "running" /\ guard[d].at = "running" /\ LockOf(guard[c]) = LockOf(guard[d]) => c = d

\* A controller returns a verdict other than indeterminate only once its operation
\* is over or can no longer start: a lost connection, a killed ssh process or a
\* guard that timed out is never read as an answer (controller.py _finalize).
NoVerdictWhileRunning ==
    \A c \in Calls :
        call[c].pc = "done" /\ call[c].outcome \in {"refused", "serving", "dormant", "error"} =>
            guard[c].at \in {"none", "release", "exited"}

\* A refused operation has not succeeded on the host: the codes of the gate and of
\* the lock are not seen after an operation that exited 0 (guard.py operate).
RefusedDidNotSucceed ==
    \A c \in Calls : call[c].pc = "done" /\ call[c].outcome = "refused" => guard[c].rc # "ok"

\* A bare command that a start of this bridge brought to serving can be stopped by
\* this bridge, unless its state file was damaged: the file names the process that was
\* launched, or a later one, also when operations, crashes and starts by other bridges
\* came between (controller.py _reconcile_start of BareCommandController).
ServingIsStoppable ==
    \A c \in Calls :
        /\ call[c].outcome = "serving" /\ ~call[c].noop /\ TemplateOf(c) = "bare-command"
        /\ call[c].bridge \notin emptied
        => Record(c) >= guard[c].pid

\* A guard that has run its operation and waits for RELEASE, with the host's lock in
\* its hand, has a controller at the other end that is going to write it.  It may have
\* to wait out its 1830 seconds only if the connection or the bridge is gone, if the
\* caller was told that the outcome is not known, or if the reconciliation of a start
\* raised: never behind a verdict (GUARD_V1, guard.py _drive_protocol).
NoAbandonedLock ==
    \A c \in Calls :
        guard[c].at = "release" /\ guard[c].stdin \notin {"RELEASE", "closed"} =>
            \/ guard[c].tended /\ call[c].ssh = "up" /\ call[c].pc \in {"operating", "ready"}
            \/ call[c].ssh # "up" \/ call[c].pc = "idle"
            \/ call[c].outcome = "indeterminate"
            \/ call[c].outcome = "raised" /\ call[c].op = "start" /\ TemplateOf(c) # "control-script"

\* The host's lock is held by one operation, and nobody forgets to give it back.
LockInv == TypeOK /\ OneOperationAtATime /\ NoAbandonedLock

\* What the caller is told of an operation is what happened to it.
VerdictsAreTrue == NoVerdictWhileRunning /\ RefusedDidNotSucceed

=============================================================================
