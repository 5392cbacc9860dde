----------------------------- MODULE Assignment -----------------------------
(***************************************************************************)
(* The contained-assignment service (runtime/assignment.py): one durable   *)
(* state root, one service process that may crash between any two durable  *)
(* writes, one daemon thread per admitted assignment.                      *)
(*                                                                         *)
(* A run directory is named after its assignment, so an assignment         *)
(* identity is also a directory name.  File contents are abstracted to     *)
(* what recovery reads from them: the envelope a request binds, the event  *)
(* names of a log, the status and the event digest (here: the events) of a *)
(* receipt; NoFile is an absent file and Bad one that no longer parses.    *)
(* Requests that fail validation, expiry or dispatcher authentication      *)
(* change nothing and are not represented.                                 *)
(*                                                                         *)
(* Locks.  start, terminalize and reconcile_quarantine hold the service    *)
(* lock throughout (svc); cancel and receipt take it only to find the run, *)
(* then the run's own lock, which the execution thread holds while it      *)
(* emits and persists the terminal evidence (thread "persist").            *)
(***************************************************************************)
EXTENDS Naturals, Sequences, FiniteSets

CONSTANTS
    Ids,        \* assignment identities
    Envs,       \* envelope identities
    NoFile,     \* an absent file, dictionary entry or value
    Bad,        \* a file whose content does not parse
    IOFaults,   \* the write points at which an OSError may strike
    MaxCrashes, \* bound on crashes of the service process
    MaxFaults,  \* bound on OSErrors
    MaxRot      \* bound on files found corrupt by a restart

FaultPoints == {"request", "emit", "receipt", "rename", "qrecord",
                "tombstone", "marker", "unlink"}

Statuses == {"succeeded", "failed", "cancelled", "refused"}
Events == Statuses \cup {"admitted", "started", "cancel_requested"}
Receipts == [status : Statuses, env : Envs \cup {NoFile}, events : Seq(Events)]
Absent == {NoFile, Bad}
Steps == {"record", "tomb", "mark"}

\* What recovery reads from a quarantined directory.
Quars == [req : Envs \cup Absent, rcpt : Envs \cup Absent,
          tomb : Envs \cup Absent, litter : {"none", "tmp"}]

ASSUME ConstantsAssumption ==
    /\ NoFile \notin Envs /\ Bad \notin Envs /\ NoFile # Bad
    /\ \A absent \in Absent : absent \notin Receipts /\ absent \notin Quars
    /\ NoFile \notin [id : Ids, step : Steps]
    /\ IOFaults \subseteq FaultPoints
    /\ MaxCrashes \in Nat /\ MaxFaults \in Nat /\ MaxRot \in Nat

VARIABLES
    \* the state root on disk
    dirs,     \* run directories that exist
    req,      \* request.json of each run directory
    log,      \* events.jsonl: the contiguous records
    badlog,   \* run directories whose log has a gap or a broken record
    rcpt,     \* receipt.json
    quar,     \* <id>.quarantined: NoFile or what the directory holds
    marker,   \* <id>.quarantined.ambiguous files
    \* the service process
    up,       \* "down", "loading" or "ready"
    todo,     \* run directories _load_durable_state has still to visit
    q,        \* the quarantine in progress: NoFile or [id, step]
    runs,     \* keys of _runs
    env,      \* envelope of each run in _runs
    events,   \* in-memory events of each run
    receipt,  \* in-memory receipt of each run
    cancelled,\* runs whose cancel_requested flag is set
    recovered,\* runs loaded from disk rather than started here
    tombIds,  \* keys of _tombstones
    tombEnvs, \* keys of _envelope_tombstones
    amb,      \* _ambiguous
    svc,      \* holder of the service lock: NoFile or [op, id, arg]
    thread,   \* program counter of each run's _execute thread
    verdict,  \* the status an _execute thread has computed
    stopped,  \* runs whose controller received the stop
    \* history
    owner,    \* envelope the dispatcher last submitted for each identity
    handed, \* contained handed per identity
    envHanded, \* contained handed per envelope
    shown,    \* receipt statuses a caller has been given, per identity
    budget    \* crashes, faults and corruptions so far

disk     == <<dirs, req, log, badlog, rcpt, quar, marker>>
loadVars == <<up, todo, q>>
runVars  == <<runs, env, events, receipt, cancelled, recovered>>
deadVars == <<tombIds, tombEnvs, amb>>
execVars == <<thread, verdict, stopped>>
history  == <<owner, handed, envHanded, shown>>
vars == <<disk, loadVars, runVars, deadVars, svc, execVars, history, budget>>

Threads == {"none", "prepare", "armed", "running", "finish", "persist"}

DiskTypeOK ==
    /\ dirs \subseteq Ids /\ badlog \subseteq Ids /\ marker \subseteq Ids
    /\ req \in [Ids -> Envs \cup Absent]
    /\ log \in [Ids -> Seq(Events)]
    /\ rcpt \in [Ids -> Receipts \cup Absent]
    /\ quar \in [Ids -> Quars \cup {NoFile}]

RunsTypeOK ==
    /\ runs \subseteq Ids /\ cancelled \subseteq Ids /\ recovered \subseteq Ids
    /\ env \in [Ids -> Envs \cup {NoFile}]
    /\ events \in [Ids -> Seq(Events)]
    /\ receipt \in [Ids -> Receipts \cup {NoFile}]

ServiceTypeOK ==
    /\ up \in {"down", "loading", "ready"}
    /\ todo \subseteq Ids
    /\ q \in [id : Ids, step : Steps] \cup {NoFile}
    /\ tombIds \subseteq Ids /\ tombEnvs \subseteq Envs /\ amb \subseteq Ids
    /\ svc \in [op : {"request", "admit", "unmark"}, id : Ids, arg : Envs]
               \cup [op : {"persist"}, id : Ids, arg : Statuses] \cup {NoFile}
    /\ thread \in [Ids -> Threads]
    /\ verdict \in [Ids -> Statuses]
    /\ stopped \subseteq Ids

HistoryTypeOK ==
    /\ owner \in [Ids -> Envs \cup {NoFile}]
    /\ handed \in [Ids -> Nat] /\ envHanded \in [Envs -> Nat]
    /\ shown \in [Ids -> SUBSET Statuses]

BudgetTypeOK == budget \in [crash : Nat, fault : Nat, rot : Nat]

\* Every variable holds a value of its type.
TypeOK == DiskTypeOK /\ RunsTypeOK /\ ServiceTypeOK /\ HistoryTypeOK /\ BudgetTypeOK

Blank(value) == [a \in Ids |-> value]

\* An empty state root, just loaded.
Init ==
    /\ dirs = {} /\ badlog = {} /\ marker = {}
    /\ req = Blank(NoFile) /\ log = Blank(<<>>) /\ rcpt = Blank(NoFile)
    /\ quar = Blank(NoFile)
    /\ up = "ready" /\ todo = {} /\ q = NoFile
    /\ runs = {} /\ cancelled = {} /\ recovered = {}
    /\ env = Blank(NoFile) /\ events = Blank(<<>>) /\ receipt = Blank(NoFile)
    /\ tombIds = {} /\ tombEnvs = {} /\ amb = {}
    /\ svc = NoFile
    /\ thread = Blank("none") /\ verdict = Blank("failed") /\ stopped = {}
    /\ owner = Blank(NoFile) /\ shown = Blank({})
    /\ handed = Blank(0) /\ envHanded = [e \in Envs |-> 0]
    /\ budget = [crash |-> 0, fault |-> 0, rot |-> 0]

(***************************************************************************)
(* Durable writes.  A write is one step: a crash inside it leaves what a   *)
(* crash before or after it leaves, but for a temporary file, which only   *)
(* matters inside a quarantined directory (litter).  Fault(p) is the       *)
(* OSError at write point p; the handler then returns early or raises.     *)
(***************************************************************************)
Fault(p) ==
    /\ p \in IOFaults
    /\ budget.fault < MaxFaults
    /\ budget' = [budget EXCEPT !.fault = @ + 1]

\* _emit: the record is numbered by the in-memory list, so an append after a
\* lost one leaves a gap in the durable log.
Emit(a, event) ==
    /\ events' = [events EXCEPT ![a] = Append(@, event)]
    /\ IF Len(log[a]) = Len(events[a])
       THEN log' = [log EXCEPT ![a] = Append(@, event)] /\ UNCHANGED badlog
       ELSE badlog' = badlog \cup {a} /\ UNCHANGED log

\* _emit raising: the record stays in memory; on disk it is lost or torn
\* (dropped by recovery), or complete when only the last fsync failed.
EmitFails(a, event) ==
    /\ Fault("emit")
    /\ events' = [events EXCEPT ![a] = Append(@, event)]
    /\ \/ UNCHANGED <<log, badlog>>
       \/ /\ Len(log[a]) = Len(events[a])
          /\ log' = [log EXCEPT ![a] = Append(@, event)]
          /\ UNCHANGED badlog

MakeReceipt(a, status) ==
    [status |-> status, env |-> env[a], events |-> events[a]]

\* state.receipt = receipt; self._persist(...)
PersistReceipt(a, status) ==
    /\ receipt' = [receipt EXCEPT ![a] = MakeReceipt(a, status)]
    /\ rcpt' = [rcpt EXCEPT ![a] = MakeReceipt(a, status)]

PersistFails(a, status) ==
    /\ Fault("receipt")
    /\ receipt' = [receipt EXCEPT ![a] = MakeReceipt(a, status)]
    /\ rcpt' \in {rcpt, [rcpt EXCEPT ![a] = MakeReceipt(a, status)]}

(***************************************************************************)
(* start                                                                   *)
(***************************************************************************)
Ready == up = "ready" /\ svc = NoFile

\* Mutant: tombstones are not consulted.
NewIdentity_NoTombstones(a, e) ==
    /\ a \notin runs /\ a \notin dirs
    /\ \A b \in runs : env[b] # e
    /\ \A b \in dirs : req[b] # e
    /\ \A b \in Ids : quar[b] # NoFile => quar[b].req # e

\* _reject_duplicate_identity, over memory and the whole state root.
NewIdentity(a, e) ==
    /\ a \notin runs /\ a \notin tombIds /\ a \notin dirs
    /\ e \notin tombEnvs
    /\ \A b \in runs : env[b] # e
    /\ \A b \in dirs : req[b] # e
    /\ \A b \in Ids : quar[b] # NoFile => quar[b].req # e

\* Mutant: an ambiguous state root does not refuse admission.
Start_WhileAmbiguous(a, e) ==
    /\ Ready
    /\ NewIdentity(a, e)
    /\ dirs' = dirs \cup {a}
    /\ svc' = [op |-> "request", id |-> a, arg |-> e]
    /\ owner' = [owner EXCEPT ![a] = e]
    /\ UNCHANGED <<req, log, badlog, rcpt, quar, marker, loadVars, runVars, deadVars,
                   execVars, handed, envHanded, shown, budget>>

\* The run directory is created; the request is not yet durable.
Start(a, e) ==
    /\ Ready
    /\ amb = {}
    /\ NewIdentity(a, e)
    /\ dirs' = dirs \cup {a}
    /\ svc' = [op |-> "request", id |-> a, arg |-> e]
    /\ owner' = [owner EXCEPT ![a] = e]
    /\ UNCHANGED <<req, log, badlog, rcpt, quar, marker, loadVars, runVars, deadVars,
                   execVars, handed, envHanded, shown, budget>>

StartRequest(a) ==
    /\ svc # NoFile /\ svc.op = "request" /\ svc.id = a
    /\ req' = [req EXCEPT ![a] = svc.arg]
    /\ runs' = runs \cup {a}
    /\ env' = [env EXCEPT ![a] = svc.arg]
    /\ svc' = [svc EXCEPT !.op = "admit"]
    /\ UNCHANGED <<dirs, log, badlog, rcpt, quar, marker, loadVars, events, receipt,
                   cancelled, recovered, deadVars, execVars, history, budget>>

\* The identity never enters _runs, though its request may be on disk.
StartRequestFails(a) ==
    /\ svc # NoFile /\ svc.op = "request" /\ svc.id = a
    /\ Fault("request")
    /\ req' \in {req, [req EXCEPT ![a] = svc.arg]}
    /\ svc' = NoFile
    /\ UNCHANGED <<dirs, log, badlog, rcpt, quar, marker, loadVars, runVars, deadVars,
                   execVars, history>>

StartAdmit(a) ==
    /\ svc # NoFile /\ svc.op = "admit" /\ svc.id = a
    /\ svc' = NoFile
    /\ \/ /\ Emit(a, "admitted")
          /\ thread' = [thread EXCEPT ![a] = "prepare"]
          /\ UNCHANGED budget
       \/ EmitFails(a, "admitted") /\ UNCHANGED thread
    /\ UNCHANGED <<dirs, req, rcpt, quar, marker, loadVars, runs, env, receipt, cancelled,
                   recovered, deadVars, verdict, stopped, history>>

(***************************************************************************)
(* _execute, the daemon thread of one run.  "armed": state.runner is set   *)
(* and "started" is durable, but the runner has no active controller yet,  *)
(* so it has no stop handle; "running": the controller is active.          *)
(***************************************************************************)
\* The cancel flag is read without the run's lock, when the status is chosen.
Decide(a, status) == IF a \in cancelled THEN "cancelled" ELSE status

Conclude(a, status) ==
    /\ thread' = [thread EXCEPT ![a] = "finish"]
    /\ verdict' = [verdict EXCEPT ![a] = Decide(a, status)]

\* The factories, the backend and isolation checks or the workflow write fail.
PrepareFails(a, status) ==
    /\ thread[a] = "prepare"
    /\ Conclude(a, status)
    /\ UNCHANGED <<disk, loadVars, runVars, deadVars, svc, stopped, history, budget>>

\* Mutant: a failed write of "started" does not stop the run.
Arm_IgnoresWriteError(a) ==
    /\ thread[a] = "prepare"
    /\ a \notin cancelled
    /\ \/ Emit(a, "started") /\ UNCHANGED budget
       \/ EmitFails(a, "started")
    /\ thread' = [thread EXCEPT ![a] = "armed"]
    /\ handed' = [handed EXCEPT ![a] = @ + 1]
    /\ envHanded' = [envHanded EXCEPT ![env[a]] = @ + 1]
    /\ UNCHANGED <<dirs, req, rcpt, quar, marker, loadVars, runs, env, receipt, cancelled,
                   recovered, deadVars, svc, verdict, stopped, owner, shown>>

\* The run is handed to runner.run, unless it was cancelled before.
Arm(a) ==
    /\ thread[a] = "prepare"
    /\ \/ /\ a \in cancelled
          /\ Conclude(a, "refused")
          /\ UNCHANGED <<events, log, badlog, handed, envHanded, budget>>
       \/ /\ a \notin cancelled
          /\ Emit(a, "started")
          /\ thread' = [thread EXCEPT ![a] = "armed"]
          /\ handed' = [handed EXCEPT ![a] = @ + 1]
          /\ envHanded' = [envHanded EXCEPT ![env[a]] = @ + 1]
          /\ UNCHANGED <<verdict, budget>>
       \/ /\ a \notin cancelled
          /\ EmitFails(a, "started")
          /\ Conclude(a, "failed")
          /\ UNCHANGED <<handed, envHanded>>
    /\ UNCHANGED <<dirs, req, rcpt, quar, marker, loadVars, runs, env, receipt, cancelled,
                   recovered, deadVars, svc, stopped, owner, shown>>

\* The runner's controller becomes active: from here it has a stop handle.
Launch(a) ==
    /\ thread[a] = "armed"
    /\ thread' = [thread EXCEPT ![a] = "running"]
    /\ UNCHANGED <<disk, loadVars, runVars, deadVars, svc, verdict, stopped, history,
                   budget>>

\* A run that returned is refused without a host receipt, and by
\* _promote_artifacts if its egress manifest is missing or does not fit the
\* store and scanner that the request binds; otherwise its exit status counts.
ReturnStatuses == {"succeeded", "failed", "refused"}

\* runner.run raises before or after the launch, or returns.
EndRun(a, status) ==
    /\ \/ thread[a] = "armed" /\ status = "failed"
       \/ thread[a] = "running" /\ status \in ReturnStatuses
    /\ Conclude(a, status)
    /\ UNCHANGED <<disk, loadVars, runVars, deadVars, svc, stopped, history, budget>>

\* Mutant: the thread ends with the terminal event.
Finish_NoReceipt(a) ==
    /\ thread[a] = "finish"
    /\ Emit(a, verdict[a])
    /\ thread' = [thread EXCEPT ![a] = "none"]
    /\ UNCHANGED <<dirs, req, rcpt, quar, marker, loadVars, runs, env, receipt, cancelled,
                   recovered, deadVars, svc, verdict, stopped, history, budget>>

\* The run's lock is taken and kept until the receipt is persisted.  An
\* exception here ends the thread without a receipt.
Finish(a) ==
    /\ thread[a] = "finish"
    /\ \/ /\ Emit(a, verdict[a])
          /\ thread' = [thread EXCEPT ![a] = "persist"]
          /\ UNCHANGED budget
       \/ /\ EmitFails(a, verdict[a])
          /\ thread' = [thread EXCEPT ![a] = "none"]
    /\ UNCHANGED <<dirs, req, rcpt, quar, marker, loadVars, runs, env, receipt, cancelled,
                   recovered, deadVars, svc, verdict, stopped, history>>

Persist(a) ==
    /\ thread[a] = "persist"
    /\ thread' = [thread EXCEPT ![a] = "none"]
    /\ \/ PersistReceipt(a, verdict[a]) /\ UNCHANGED budget
       \/ PersistFails(a, verdict[a])
    /\ UNCHANGED <<dirs, req, log, badlog, quar, marker, loadVars, runs, env, events,
                   cancelled, recovered, deadVars, svc, verdict, stopped, history>>

(***************************************************************************)
(* cancel, receipt and terminalize                                         *)
(***************************************************************************)
HasRunner(a) == thread[a] \in {"armed", "running", "finish"}

\* A run whose terminal evidence is not being persisted under its lock.
Unlocked(a) == Ready /\ a \in runs /\ thread[a] # "persist"

Logged(a) == { events[a][i] : i \in DOMAIN events[a] }

\* The request is recorded, then delivered to the controller if there is one.
\* A second cancel returns at the flag and delivers nothing.
Cancel(a) ==
    /\ Unlocked(a)
    /\ receipt[a] = NoFile
    /\ HasRunner(a) \/ "started" \notin Logged(a)
    /\ a \notin cancelled
    /\ cancelled' = cancelled \cup {a}
    /\ \/ /\ Emit(a, "cancel_requested")
          /\ stopped' = IF thread[a] = "running" THEN stopped \cup {a} ELSE stopped
          /\ UNCHANGED budget
       \/ EmitFails(a, "cancel_requested") /\ UNCHANGED stopped
    /\ UNCHANGED <<dirs, req, rcpt, quar, marker, loadVars, runs, env, receipt, recovered,
                   deadVars, svc, thread, verdict, history>>

ShowReceipt(a) ==
    /\ Unlocked(a)
    /\ receipt[a] # NoFile
    /\ shown' = [shown EXCEPT ![a] = @ \cup {receipt[a].status}]
    /\ UNCHANGED <<disk, loadVars, runVars, deadVars, svc, execVars, owner, handed,
                   envHanded, budget>>

Terminalize(a, status) ==
    /\ Unlocked(a)
    /\ receipt[a] = NoFile
    /\ a \in recovered
    /\ cancelled' = cancelled \cup {a}
    /\ \/ /\ Emit(a, status)
          /\ svc' = [op |-> "persist", id |-> a, arg |-> status]
          /\ UNCHANGED budget
       \/ EmitFails(a, status) /\ UNCHANGED svc
    /\ UNCHANGED <<dirs, req, rcpt, quar, marker, loadVars, runs, env, receipt, recovered,
                   deadVars, execVars, history>>

TerminalizePersist(a) ==
    /\ svc # NoFile /\ svc.op = "persist" /\ svc.id = a
    /\ svc' = NoFile
    /\ \/ PersistReceipt(a, svc.arg) /\ UNCHANGED budget
       \/ PersistFails(a, svc.arg)
    /\ UNCHANGED <<dirs, req, log, badlog, quar, marker, loadVars, runs, env, events,
                   cancelled, recovered, deadVars, execVars, history>>

(***************************************************************************)
(* reconcile_quarantine: an operator who knows the envelope the dispatcher *)
(* submitted asserts it.  _write_tombstone registers the identity even     *)
(* when the file cannot be written.                                        *)
(***************************************************************************)
WriteTombstone(a, e) == quar' = [quar EXCEPT ![a].tomb = e]

RegisterTombstone(a, e) ==
    /\ tombIds' = tombIds \cup {a}
    /\ tombEnvs' = tombEnvs \cup {e}

ReconcileQuarantine(a) ==
    /\ Ready
    /\ quar[a] # NoFile
    /\ a \in amb
    /\ a \notin tombIds /\ a \notin runs
    /\ owner[a] \in Envs \ tombEnvs
    /\ \A b \in runs : env[b] # owner[a]
    /\ RegisterTombstone(a, owner[a])
    /\ \/ /\ WriteTombstone(a, owner[a])
          /\ svc' = [op |-> "unmark", id |-> a, arg |-> owner[a]]
          /\ UNCHANGED budget
       \/ Fault("tombstone") /\ UNCHANGED <<quar, svc>>
    /\ UNCHANGED <<dirs, req, log, badlog, rcpt, marker, loadVars, runVars, amb, execVars,
                   history>>

\* The ambiguity is cleared; failing to unlink its marker is suppressed.
ReconcileUnmark(a) ==
    /\ svc # NoFile /\ svc.op = "unmark" /\ svc.id = a
    /\ svc' = NoFile
    /\ amb' = amb \ {a}
    /\ \/ marker' = marker \ {a} /\ UNCHANGED budget
       \/ Fault("unlink") /\ UNCHANGED marker
    /\ UNCHANGED <<dirs, req, log, badlog, rcpt, quar, loadVars, runVars, tombIds, tombEnvs,
                   execVars, owner, handed, envHanded, shown>>

(***************************************************************************)
(* Crash and restart.                                                      *)
(***************************************************************************)
\* Memory is lost.  A crash while quarantine.json is written may leave its
\* temporary file in the quarantined directory.
Crash ==
    /\ up # "down"
    /\ budget.crash < MaxCrashes
    /\ budget' = [budget EXCEPT !.crash = @ + 1]
    /\ up' = "down" /\ todo' = {} /\ q' = NoFile
    /\ runs' = {} /\ cancelled' = {} /\ recovered' = {}
    /\ env' = Blank(NoFile) /\ events' = Blank(<<>>) /\ receipt' = Blank(NoFile)
    /\ tombIds' = {} /\ tombEnvs' = {} /\ amb' = {}
    /\ svc' = NoFile
    /\ thread' = Blank("none") /\ verdict' = Blank("failed") /\ stopped' = {}
    /\ \/ UNCHANGED quar
       \/ /\ q # NoFile /\ q.step = "record"
          /\ quar' = [quar EXCEPT ![q.id].litter = "tmp"]
    /\ UNCHANGED <<dirs, req, log, badlog, rcpt, marker, history>>

\* Corruption that a restart finds: the file is there and does not parse.
Rot(a) ==
    /\ up = "down"
    /\ budget.rot < MaxRot
    /\ budget' = [budget EXCEPT !.rot = @ + 1]
    /\ \/ /\ req[a] # NoFile
          /\ req' = [req EXCEPT ![a] = Bad]
          /\ UNCHANGED <<rcpt, badlog, quar>>
       \/ /\ rcpt[a] # NoFile
          /\ rcpt' = [rcpt EXCEPT ![a] = Bad]
          /\ UNCHANGED <<req, badlog, quar>>
       \/ /\ log[a] # <<>>
          /\ badlog' = badlog \cup {a}
          /\ UNCHANGED <<req, rcpt, quar>>
       \/ /\ quar[a] # NoFile
          /\ quar[a].req # NoFile /\ quar' = [quar EXCEPT ![a].req = Bad]
          /\ UNCHANGED <<req, rcpt, badlog>>
       \/ /\ quar[a] # NoFile
          /\ quar[a].tomb # NoFile /\ quar' = [quar EXCEPT ![a].tomb = Bad]
          /\ UNCHANGED <<req, rcpt, badlog>>
    /\ UNCHANGED <<dirs, log, marker, loadVars, runVars, deadVars, svc, execVars, history>>

Tombstoned(a) == quar[a] # NoFile /\ quar[a].tomb \in Envs

\* _load_tombstone: an unreadable tombstone, or evidence that none protects.
Unprotected(a) ==
    /\ quar[a] # NoFile
    /\ \/ quar[a].tomb = Bad
       \/ quar[a].tomb = NoFile /\ (quar[a].req # NoFile \/ quar[a].litter = "tmp")

\* A new service: tombstones and markers first, then each run directory.
Restart ==
    /\ up = "down"
    /\ up' = "loading"
    /\ todo' = dirs
    /\ tombIds' = { a \in Ids : Tombstoned(a) }
    /\ tombEnvs' = { quar[a].tomb : a \in { b \in Ids : Tombstoned(b) } }
    /\ amb' = { a \in Ids : Unprotected(a) } \cup marker
    /\ UNCHANGED <<disk, q, runVars, svc, execVars, history, budget>>

\* The evidence does not parse, or the receipt is not that of the log.
Unusable(a) ==
    \/ req[a] \in Absent
    \/ a \in badlog
    \/ rcpt[a] = Bad
    \/ rcpt[a] \notin Absent /\ rcpt[a].events # log[a]

\* Mutant: the receipt is verified but not kept.
LoadDir_DropsReceipt(a) ==
    /\ up = "loading" /\ a \in todo /\ q = NoFile
    /\ ~Unusable(a)
    /\ todo' = todo \ {a}
    /\ runs' = runs \cup {a}
    /\ recovered' = recovered \cup {a}
    /\ env' = [env EXCEPT ![a] = req[a]]
    /\ events' = [events EXCEPT ![a] = log[a]]
    /\ UNCHANGED <<disk, up, q, receipt, cancelled, deadVars, svc, execVars, history,
                   budget>>

LoadDir(a) ==
    /\ up = "loading" /\ a \in todo /\ q = NoFile
    /\ ~Unusable(a)
    /\ todo' = todo \ {a}
    /\ runs' = runs \cup {a}
    /\ recovered' = recovered \cup {a}
    /\ env' = [env EXCEPT ![a] = req[a]]
    /\ events' = [events EXCEPT ![a] = log[a]]
    /\ receipt' = [receipt EXCEPT ![a] = rcpt[a]]
    /\ UNCHANGED <<disk, up, q, cancelled, deadVars, svc, execVars, history, budget>>

(***************************************************************************)
(* _quarantine, called by the load: the directory is renamed, its record   *)
(* written, its identity tombstoned or else marked ambiguous.              *)
(***************************************************************************)
QuarantineRename(a) ==
    /\ up = "loading" /\ a \in todo /\ q = NoFile
    /\ Unusable(a)
    /\ quar[a] = NoFile
    /\ todo' = todo \ {a}
    /\ q' = [id |-> a, step |-> "record"]
    /\ dirs' = dirs \ {a}
    /\ quar' = [quar EXCEPT ![a] =
          [req |-> req[a],
           rcpt |-> IF rcpt[a] \in Absent THEN rcpt[a] ELSE rcpt[a].env,
           tomb |-> NoFile, litter |-> "none"]]
    /\ req' = [req EXCEPT ![a] = NoFile]
    /\ log' = [log EXCEPT ![a] = <<>>]
    /\ badlog' = badlog \ {a}
    /\ rcpt' = [rcpt EXCEPT ![a] = NoFile]
    /\ UNCHANGED <<marker, up, runVars, deadVars, svc, execVars, history, budget>>

\* The quarantine target exists already, or the rename fails.
QuarantineRefused(a) ==
    /\ up = "loading" /\ a \in todo /\ q = NoFile
    /\ Unusable(a)
    /\ \/ quar[a] # NoFile /\ UNCHANGED budget
       \/ quar[a] = NoFile /\ Fault("rename")
    /\ todo' = todo \ {a}
    /\ q' = [id |-> a, step |-> "mark"]
    /\ UNCHANGED <<disk, up, runVars, deadVars, svc, execVars, history>>

Quarantining(a, step) == q # NoFile /\ q.id = a /\ q.step = step

\* Mutant: the receipt is preferred and its content not checked.
RecoverIdentity_ReceiptFirst(a) ==
    IF quar[a].rcpt # NoFile THEN quar[a].rcpt ELSE quar[a].req

\* _recover_identity: the request, else the receipt.
RecoverIdentity(a) ==
    CASE quar[a].req \in Envs  -> quar[a].req
      [] quar[a].req \notin Envs /\ quar[a].rcpt \in Envs -> quar[a].rcpt
      [] OTHER -> NoFile

\* A pre-admission directory carries no identity; if the record cannot be
\* written the quarantine ends here, whatever the directory holds.
QuarantineRecord(a) ==
    /\ Quarantining(a, "record")
    /\ \/ /\ q' = IF quar[a].req = NoFile THEN NoFile
                ELSE [id |-> a,
                      step |-> IF RecoverIdentity(a) = NoFile THEN "mark" ELSE "tomb"]
          /\ UNCHANGED budget
       \/ Fault("qrecord") /\ q' = NoFile
    /\ UNCHANGED <<disk, up, todo, runVars, deadVars, svc, execVars, history>>

QuarantineTombstone(a) ==
    /\ Quarantining(a, "tomb")
    /\ q' = NoFile
    /\ RegisterTombstone(a, RecoverIdentity(a))
    /\ \/ WriteTombstone(a, RecoverIdentity(a)) /\ UNCHANGED <<amb, budget>>
       \/ Fault("tombstone") /\ amb' = amb \cup {a} /\ UNCHANGED quar
    /\ UNCHANGED <<dirs, req, log, badlog, rcpt, marker, up, todo, runVars, svc, execVars,
                   history>>

\* Mutant: only the marker is written, for the next process to find.
QuarantineMark_NextProcess(a) ==
    /\ Quarantining(a, "mark")
    /\ q' = NoFile
    /\ marker' = marker \cup {a}
    /\ UNCHANGED <<dirs, req, log, badlog, rcpt, quar, up, todo, runVars, deadVars, svc,
                   execVars, history, budget>>

\* _mark_ambiguous
QuarantineMark(a) ==
    /\ Quarantining(a, "mark")
    /\ q' = NoFile
    /\ amb' = amb \cup {a}
    /\ \/ marker' = marker \cup {a} /\ UNCHANGED budget
       \/ Fault("marker") /\ UNCHANGED marker
    /\ UNCHANGED <<dirs, req, log, badlog, rcpt, quar, up, todo, runVars, tombIds, tombEnvs,
                   svc, execVars, history>>

LoadDone ==
    /\ up = "loading" /\ todo = {} /\ q = NoFile
    /\ up' = "ready"
    /\ UNCHANGED <<disk, todo, q, runVars, deadVars, svc, execVars, history, budget>>

-----------------------------------------------------------------------------
\* A step of the thread that holds the service lock or executes run a.
Started(a) == StartRequest(a) \/ StartRequestFails(a) \/ StartAdmit(a)

Executing(a) ==
    \/ \E s \in {"failed", "refused"} : PrepareFails(a, s)
    \/ Arm(a) \/ Launch(a)
    \/ Finish(a) \/ Persist(a)

Serving(a) == TerminalizePersist(a) \/ ReconcileUnmark(a)

Loading(a) ==
    \/ LoadDir(a)
    \/ QuarantineRename(a) \/ QuarantineRefused(a)
    \/ QuarantineRecord(a) \/ QuarantineTombstone(a) \/ QuarantineMark(a)

Next ==
    \/ \E a \in Ids :
          \/ \E e \in Envs : Start(a, e)
          \/ Started(a) \/ Executing(a) \/ Serving(a) \/ Loading(a)
          \/ \E s \in Statuses : EndRun(a, s)
          \/ Cancel(a) \/ ShowReceipt(a)
          \/ \E s \in {"failed", "cancelled"} : Terminalize(a, s)
          \/ ReconcileQuarantine(a)
          \/ Rot(a)
    \/ Crash \/ Restart \/ LoadDone

Spec == Init /\ [][Next]_vars

\* Threads that are runnable run, and a controller that received the stop
\* ends its run.  Nobody promises that a workload ends by itself, that a
\* crashed service is restarted, or that a caller or operator calls.
Fairness ==
    /\ \A a \in Ids : /\ WF_vars(Started(a) \/ Serving(a))
                       /\ WF_vars(Executing(a))
                       /\ WF_vars(Loading(a))
                       /\ WF_vars(a \in stopped /\ \E s \in Statuses : EndRun(a, s))
    /\ WF_vars(LoadDone)

FairSpec == Spec /\ Fairness
-----------------------------------------------------------------------------
\* No envelope is handed to a runner twice, under one identity or two.
EnvelopeHandedOnce == \A e \in Envs : envHanded[e] <= 1

\* No work twice (README: "A crash or restart never launches duplicate work"):
\* across crashes, recovery, quarantine and operator reconciliation, no
\* assignment and no envelope is handed to a runner more than once.
NoDuplicateWork ==
    /\ \A a \in Ids : handed[a] <= 1
    /\ EnvelopeHandedOnce

\* reconcile never finds two runs for one envelope ("multiple runs exist for
\* one envelope identity"), whatever was recovered beside what was started.
OneRunPerEnvelope ==
    \A a, b \in runs : env[a] = env[b] => a = b

\* The receipt a caller was given is the one every later caller is given,
\* also after restarts and operator terminalization.
ReceiptNeverContradicted ==
    \A a \in Ids : Cardinality(shown[a]) <= 1

\* A persisted receipt commits to the log beside it, whose last event is the
\* receipt's status: recovery never has to quarantine a healthy terminal run.
ReceiptMatchesLog ==
    \A a \in Ids : rcpt[a] \notin Absent =>
        /\ rcpt[a].events = log[a]
        /\ log[a] # <<>> /\ log[a][Len(log[a])] = rcpt[a].status

\* What the service tells of a run stays true: one run per envelope, one receipt per run,
\* and a log that ends as the receipt says.
RecordsConsistent == OneRunPerEnvelope /\ ReceiptNeverContradicted /\ ReceiptMatchesLog

\* Work that was handed to a runner left durable evidence: whatever happens
\* afterwards, its run directory still records "started" (so cancel and
\* reconcile treat it as interrupted, not as never run), or its quarantined
\* directory still holds what was its request.
WorkLeavesEvidence ==
    \A a \in Ids : handed[a] > 0 =>
        \/ a \in dirs /\ \E i \in DOMAIN log[a] : log[a][i] = "started"
        \/ quar[a] # NoFile /\ quar[a].req # NoFile

\* Fail closed: work is handed over only from a state root in which no
\* identity is ambiguous and that has been loaded to the end.
\* (start's own check is made long before, under another lock.)
NoWorkWhileAmbiguous ==
    [][\A a \in Ids : handed'[a] # handed[a] => up = "ready" /\ amb = {}]_vars


(***************************************************************************)
(* Why no work is done twice: the inductive invariant.                     *)
(***************************************************************************)
\* Durable evidence that the identity was used.
Claimed(a) ==
    \/ a \in dirs /\ req[a] # NoFile
    \/ quar[a] # NoFile /\ (quar[a].req # NoFile \/ quar[a].tomb # NoFile)

\* What makes start refuse the identity, and its envelope, while the service
\* is up; todo and q are evidence that the load has not finished reading.
Protected(a) ==
    \/ a \in dirs /\ req[a] = owner[a]
    \/ a \in tombIds /\ owner[a] \in tombEnvs
    \/ a \in amb \/ a \in todo
    \/ q # NoFile /\ q.id = a

\* Admitted and not yet handed over.
Pending(a) ==
    \/ thread[a] = "prepare"
    \/ svc # NoFile /\ svc.op \in {"request", "admit"} /\ svc.id = a

\* Files only ever name the envelope their identity was submitted with.
FilesInv ==
    \A a \in Ids :
        /\ req[a] \in {owner[a]} \cup Absent
        /\ a \notin dirs => req[a] = NoFile /\ rcpt[a] = NoFile
        /\ rcpt[a] \notin Absent => rcpt[a].env = owner[a]
        /\ quar[a] # NoFile =>
             /\ quar[a].req # NoFile =>
                  quar[a].req \in {owner[a], Bad} /\ quar[a].rcpt \in {owner[a]} \cup Absent
             /\ quar[a].tomb \in {owner[a]} \cup Absent

\* Memory agrees with the files it was read from or written to.
MemoryInv ==
    /\ up # "ready" => svc = NoFile /\ \A a \in Ids : thread[a] = "none"
    /\ up = "ready" => todo = {} /\ q = NoFile
    /\ up = "down" => runs = {}
    /\ todo \subseteq dirs
    /\ \A a \in Ids : thread[a] # "none" => a \in runs
    /\ \A a \in runs : /\ a \in dirs \ todo
                        /\ req[a] = owner[a] /\ env[a] = owner[a] /\ owner[a] \in Envs
    /\ svc # NoFile =>
         /\ svc.op = "request" => svc.id \in dirs \ runs /\ svc.arg = owner[svc.id]
         /\ svc.op = "admit" => thread[svc.id] = "none"
         /\ svc.op \in {"admit", "persist"} => svc.id \in runs
         /\ svc.op = "unmark" => svc.id \in tombIds /\ owner[svc.id] \in tombEnvs

\* The quarantine in progress.
QuarantineInv ==
    q # NoFile =>
        /\ up = "loading"
        /\ q.step # "mark" => quar[q.id] # NoFile /\ quar[q.id].tomb = NoFile /\ q.id \notin dirs
        /\ q.step = "tomb" => quar[q.id].req # NoFile /\ RecoverIdentity(q.id) # NoFile

\* Used identities stay used, and admitted work is new work.
WorkInv ==
    /\ \A a \in Ids : handed[a] > 0 => Claimed(a)
    /\ \A e \in Envs : envHanded[e] > 0 => \E a \in Ids : handed[a] > 0 /\ owner[a] = e
    /\ \A a \in Ids : Pending(a) =>
         a \in dirs /\ owner[a] \in Envs /\ handed[a] = 0 /\ envHanded[owner[a]] = 0
    /\ \A a, b \in Ids : Pending(a) /\ Pending(b) /\ owner[a] = owner[b] => a = b

\* While the service is up, every identity with durable evidence of use is
\* one that start will refuse, with its envelope, or one the load has still
\* to read.
ProtectedInv == up # "down" => \A a \in Ids : Claimed(a) => Protected(a)

\* This is what recovery, quarantine and reconciliation maintain together,
\* and why no identity is handed out twice.
IdentityInv == FilesInv /\ MemoryInv /\ QuarantineInv /\ WorkInv /\ ProtectedInv

(***************************************************************************)
(* Why handed-over work leaves evidence, and why what the service tells    *)
(* stays true: the rest of the invariant.                                  *)
(***************************************************************************)
\* The service lock and the threads belong to a service that has loaded its
\* state root and, as long as work is pending, found nothing ambiguous.
AdmissionInv ==
    /\ up # "ready" => svc = NoFile /\ \A a \in Ids : thread[a] = "none"
    /\ up = "ready" => todo = {} /\ q = NoFile
    /\ up = "down" => runs = {} /\ q = NoFile
    /\ todo \subseteq dirs
    /\ \A a \in Ids : Pending(a) => amb = {}

\* A run in memory has its directory and its request; until it is handed over
\* or cancelled no record of its log is lost.
RunInv ==
    \A a \in Ids :
        /\ a \notin dirs => req[a] = NoFile /\ log[a] = <<>> /\ rcpt[a] = NoFile
        /\ a \notin runs => events[a] = <<>> /\ receipt[a] = NoFile
                             /\ a \notin cancelled /\ a \notin recovered
        /\ a \in runs => a \in dirs \ todo /\ req[a] \in Envs /\ env[a] = req[a]
        /\ thread[a] # "none" => a \in runs \ recovered
        /\ Pending(a) => a \in dirs /\ (a \in cancelled \/ Len(log[a]) = Len(events[a]))
        /\ svc # NoFile /\ svc.id = a =>
             /\ svc.op = "request" => a \notin runs
             /\ svc.op = "admit" => a \in runs \ (recovered \cup cancelled) /\ thread[a] = "none"
             /\ svc.op = "persist" => a \in recovered

\* WorkLeavesEvidence, with the request that a quarantine would take along.
EvidenceInv ==
    \A a \in Ids : handed[a] > 0 =>
        \/ a \in dirs /\ req[a] # NoFile /\ \E i \in DOMAIN log[a] : log[a][i] = "started"
        \/ quar[a] # NoFile /\ quar[a].req # NoFile

\* No two directories hold a request for one envelope.
EnvelopeInv ==
    /\ \A a, b \in dirs : req[a] \in Envs /\ req[a] = req[b] => a = b
    /\ svc # NoFile /\ svc.op = "request" => \A b \in dirs : req[b] # svc.arg

EndsWith(records, status) == records # <<>> /\ records[Len(records)] = status

\* As long as records and receipts can be written, memory agrees with them, and
\* a receipt is written when the log has its terminal event and once.
LedgerInv ==
    \A a \in Ids :
        /\ a \in runs => log[a] = events[a] /\ receipt[a] = rcpt[a]
        /\ Pending(a) => rcpt[a] = NoFile
        /\ thread[a] # "none" => receipt[a] = NoFile
        /\ thread[a] = "persist" => EndsWith(log[a], verdict[a])
        /\ svc # NoFile /\ svc.op = "persist" /\ svc.id = a =>
             receipt[a] = NoFile /\ EndsWith(log[a], svc.arg)

\* One receipt was shown: the one on disk, unless that is corrupt or gone, and
\* then its identity is not used again.
ShownInv ==
    \A a \in Ids : shown[a] # {} =>
        /\ Claimed(a)
        /\ \E status \in Statuses : shown[a] = {status}
        /\ a \in dirs => rcpt[a] = Bad \/ (rcpt[a] # NoFile /\ shown[a] = {rcpt[a].status})

(***************************************************************************)
(* Liveness.                                                               *)
(***************************************************************************)
\* A cancelled run whose controller received the stop ends with a receipt,
\* unless the service goes down or a durable write fails first.
StoppedRunEnds ==
    \A a \in Ids : a \in stopped ~>
        (receipt[a] # NoFile \/ up # "ready" \/ budget.fault > 0)

\* Loading the state root ends, whatever it holds and whichever write fails:
\* no unusable directory blocks recovery.
LoadEnds == up = "loading" ~> up # "loading"

\* Neither a stopped run nor the recovery of a state root hangs.
ServiceProgress == StoppedRunEnds /\ LoadEnds

=============================================================================
