--------------------------- MODULE WorkflowServer ---------------------------
(***************************************************************************)
(* The bridge server's workflow endpoints (server/app.py) over one         *)
(* workflow file: POST /workflows, POST /runs with the executor inside it, *)
(* GET /workflows and GET /runs.  Every request has a thread of the        *)
(* server's pool, so requests interleave between any two of their file     *)
(* operations, log lines and tool calls.                                   *)
(*                                                                         *)
(* The file is Absent, Empty (opened for writing), Torn (a part of a text, *)
(* or parts of two, which no JSON parser accepts), or a whole workflow.  A *)
(* writer whose file was unlinked writes into nothing.                     *)
(*                                                                         *)
(* A run id has one audit file, whoever uses the id.  It is the sequence   *)
(* of what was written to it: a line with its newline, a line whose        *)
(* newline is yet to be written, a newline, or a part of a line.  Who      *)
(* wrote what is not in the file; the model keeps it for the properties.   *)
(***************************************************************************)
EXTENDS Executor

CONSTANTS
    Calls, Saves,    \* requests to run, requests to save
    RunIds, UnsafeId,
    Text,            \* the workflow each text stands for
    Drafts,          \* the texts clients save
    InputSets,       \* the inputs a request may bring
    Scenarios,       \* bound: the server's wiring, the file at the start, the requests made
    Outcomes,        \* what each tool may do: return an output, or raise
    RuntimeResults,  \* what a contained run may return
    None, Absent, Empty, Torn,
    LongLines,       \* bound: the events whose lines may be longer than the writer's buffer
    MaxDepth,        \* the calls of visit that Python's stack has room for
    MaxFaults,       \* bound: directories, drafts and audit lines that cannot be written
    MaxKills         \* bound: times the server is killed and started again

Backends == {"direct", "runner", "unconfigured"}

IsList(s) == s \in Seq(ToSet(s))

ASSUME ServerAssumption ==
    /\ MaxFaults \in Nat /\ MaxKills \in Nat /\ MaxDepth \in Nat
    /\ Absent \notin DOMAIN Text /\ Absent # Empty /\ Absent # Torn
    /\ None \notin DOMAIN Text /\ None \notin {"broken", "killed"}
    /\ Drafts \subseteq DOMAIN Text
    /\ \A w \in Scenarios :
          /\ w.backend \in Backends
          /\ w.file = Absent \/ (w.file \in DOMAIN Text /\ Text[w.file].valid)
    /\ \A w \in DOMAIN Text :
          /\ IsList(Text[w].steps)
          /\ \A i \in DOMAIN Text[w].steps : /\ IsList(Text[w].steps[i].needs)
                                             /\ IsList(Text[w].steps[i].with)

VARIABLES
    backend,  \* create_app's wiring
    file,     \* the workflow file
    save,     \* POST /workflows requests
    call,     \* POST /runs requests
    audit,    \* per run id, what was written to audit.jsonl
    owes,     \* requests that have written a line and not yet its newline
    runs,     \* the server's table of responses
    spoiled,  \* history: a save ended unchecked after the file was last opened, checked or removed
    wrote,    \* history: where in its audit file each request's lines are
    faults, kills

logVars == <<audit, owes, wrote>>
serverVars == <<backend, file, save, call, audit, owes, runs, spoiled, wrote, faults, kills>>

\* load_workflow accepts a whole file that fits the schema.
Loads(content) == content \in DOMAIN Text /\ Text[content].valid

StepOf(wf, id) == ById(Text[wf].steps, id)

\* Defaults of the workflow, overridden by the request
MergedInputs(wf, given) ==
    [x \in DOMAIN Text[wf].defaults \union DOMAIN given |->
        IF x \in DOMAIN given THEN given[x] ELSE Text[wf].defaults[x]]

NoCall == [pc |-> "idle", rid |-> None, wf |-> None, inputs |-> None, agenda |-> <<>>, order |-> <<>>,
           at |-> 0, outputs |-> <<>>, results |-> <<>>, code |-> None]

NoSave == [pc |-> "idle", draft |-> None, linked |-> FALSE]

ServerInit ==
    /\ \E w \in Scenarios :
          /\ backend = w.backend
          /\ file = w.file
          /\ save = [s \in Saves |-> [NoSave EXCEPT !.pc = IF s \in w.saves THEN "idle" ELSE "unused"]]
          /\ call = [c \in Calls |-> [NoCall EXCEPT !.pc = IF c \in w.calls THEN "idle" ELSE "unused"]]
    /\ audit = [r \in RunIds |-> <<>>]
    /\ owes = {}
    /\ runs = [r \in RunIds |-> None]
    /\ spoiled = FALSE
    /\ wrote = [c \in Calls |-> <<>>]
    /\ faults = 0
    /\ kills = 0

-----------------------------------------------------------------------------
(***************************************************************************)
(* POST /workflows.  write_text truncates the file or creates it, and      *)
(* writes later; the file is then loaded by its name.  Only the load       *)
(* stands in the try that removes the file.                                *)
(***************************************************************************)
SavesRest == UNCHANGED <<backend, call, logVars, runs, kills>>

RefuseSave(s) ==
    /\ save[s].pc = "idle"
    /\ save' = [save EXCEPT ![s].pc = "refused"]
    /\ UNCHANGED <<file, spoiled, faults>>
    /\ SavesRest

OpenDraft(s) ==
    /\ save[s].pc = "idle"
    /\ \E d \in Drafts : save' = [save EXCEPT ![s] = [pc |-> "write", draft |-> d, linked |-> TRUE]]
    /\ file' = Empty
    /\ spoiled' = FALSE
    /\ UNCHANGED faults
    /\ SavesRest

\* A shorter text leaves the end of a longer one behind it, perhaps only white space.
Over(old, new) ==
    IF old = Torn \/ (old \in DOMAIN Text /\ Text[old].size > Text[new].size) THEN {Torn, new} ELSE {new}

WriteDraft(s) ==
    /\ save[s].pc = "write"
    /\ file' \in IF save[s].linked THEN Over(file, save[s].draft) ELSE {file}
    /\ save' = [save EXCEPT ![s].pc = "check"]
    /\ UNCHANGED <<spoiled, faults>>
    /\ SavesRest

\* write_text raises: nothing, a part or all of the text is in the file, which is not removed.
WriteFails(s) ==
    /\ save[s].pc = "write" /\ faults < MaxFaults
    /\ file' \in IF save[s].linked THEN {file, Torn} \union Over(file, save[s].draft) ELSE {file}
    /\ save' = [save EXCEPT ![s].pc = "failed"]
    /\ spoiled' = TRUE
    /\ faults' = faults + 1
    /\ SavesRest

\* As written by mistake: the draft is validated, not what the file now holds
CheckDraftInMemory(s) ==
    /\ save[s].pc = "check"
    /\ save' = [save EXCEPT ![s].pc = IF Loads(save[s].draft) THEN "saved" ELSE "unlink"]
    /\ spoiled' = (spoiled /\ ~Loads(save[s].draft))
    /\ UNCHANGED <<file, faults>>
    /\ SavesRest

CheckDraft(s) ==
    /\ save[s].pc = "check"
    /\ save' = [save EXCEPT ![s].pc = IF Loads(file) THEN "saved" ELSE "unlink"]
    /\ spoiled' = (spoiled /\ ~Loads(file))
    /\ UNCHANGED <<file, faults>>
    /\ SavesRest

UnlinkDraft(s) ==
    /\ save[s].pc = "unlink"
    /\ file' = Absent
    /\ save' = [x \in Saves |-> [save[x] EXCEPT !.linked = FALSE,
                                                !.pc = IF x = s THEN "refused" ELSE @]]
    /\ spoiled' = FALSE
    /\ UNCHANGED faults
    /\ SavesRest

\* GET /workflows: files that do not load are passed over.
list_workflows == {w \in {file} : Loads(w)}

-----------------------------------------------------------------------------
(***************************************************************************)
(* POST /runs                                                              *)
(***************************************************************************)
CallsRest == UNCHANGED <<backend, file, save, spoiled, kills>>

Set(c, change) == call' = [call EXCEPT ![c] = change]
Answer(c, code) == Set(c, [call[c] EXCEPT !.pc = "answered", !.code = code, !.at = 0,
                                          !.agenda = <<>>, !.outputs = <<>>, !.results = <<>>])

create_run(c) ==
    /\ call[c].pc = "idle"
    /\ IF file = Absent THEN Answer(c, "not found")
       ELSE \E r \in RunIds \union {UnsafeId}, given \in InputSets :
                Set(c, [NoCall EXCEPT !.pc = "load", !.rid = r, !.inputs = given])
    /\ UNCHANGED <<logVars, runs, faults>>
    /\ CallsRest

\* The file is read once; the run directory is made and the sort begins.
LoadWorkflow(c) ==
    /\ call[c].pc = "load"
    /\ IF ~Loads(file) \/ call[c].rid = UnsafeId THEN Answer(c, "bad request")
       ELSE LET begun == [call[c] EXCEPT !.wf = file, !.inputs = MergedInputs(file, @)]
                steps == Text[file].steps
            IN  CASE backend = "unconfigured" -> Answer(c, "unavailable")
                  [] backend = "runner" -> Set(c, [begun EXCEPT !.pc = "runner"])
                  [] backend = "direct" /\ Duplicates(steps) ->
                        Set(c, [begun EXCEPT !.pc = "answered", !.code = "error"])
                  [] OTHER -> Set(c, [begun EXCEPT !.pc = "sort", !.agenda = FirstVisits(steps)])
    /\ UNCHANGED <<logVars, runs, faults>>
    /\ CallsRest

\* The run directory cannot be made or the permissions not be resolved: the handler raises.
SetUpFails(c) ==
    /\ call[c].pc = "load" /\ faults < MaxFaults
    /\ backend = "direct" /\ Loads(file) /\ call[c].rid # UnsafeId
    /\ faults' = faults + 1
    /\ Answer(c, "broken")
    /\ UNCHANGED <<logVars, runs>>
    /\ CallsRest

\* visit is called: there is no room for the call, the step is in the order, cannot be sorted,
\* or its needs are visited.
visit(c) ==
    /\ call[c].pc = "sort" /\ call[c].agenda # <<>> /\ Head(call[c].agenda).op = "visit"
    /\ LET steps == Text[call[c].wf].steps
           id    == Head(call[c].agenda).id
       IN  IF Cardinality(Visiting(call[c].agenda)) >= MaxDepth THEN Answer(c, "error")
           ELSE IF id \in ToSet(call[c].order) THEN Set(c, [call[c] EXCEPT !.agenda = Tail(@)])
           ELSE IF Unsortable(steps, call[c].agenda, id) THEN Answer(c, "error")
           ELSE Set(c, [call[c] EXCEPT !.agenda = Descend(steps, id) \o Tail(@)])
    /\ UNCHANGED <<logVars, runs, faults>>
    /\ CallsRest

\* visit returns.
Leave(c) ==
    /\ call[c].pc = "sort" /\ call[c].agenda # <<>> /\ Head(call[c].agenda).op = "leave"
    /\ Set(c, [call[c] EXCEPT !.agenda = Tail(@), !.order = Append(@, Head(call[c].agenda).id)])
    /\ UNCHANGED <<logVars, runs, faults>>
    /\ CallsRest

Sorted(c) ==
    /\ call[c].pc = "sort" /\ call[c].agenda = <<>>
    /\ Set(c, [call[c] EXCEPT !.pc = "steps", !.at = 1])
    /\ UNCHANGED <<logVars, runs, faults>>
    /\ CallsRest

Write(c, id, what, ended) ==
    audit' = [audit EXCEPT ![call[c].rid] = Append(@, [by |-> c, step |-> id, what |-> what, ended |-> ended])]

\* A line longer than the buffer goes to the file before its newline.
Emit(c, id, what) ==
    \E long \in IF what \in LongLines THEN BOOLEAN ELSE {FALSE} :
        /\ Write(c, id, what, ~long)
        /\ wrote' = [wrote EXCEPT ![c] = Append(@, Len(audit[call[c].rid]) + 1)]
        /\ owes' = IF long THEN owes \union {c} ELSE owes

NewLine(c) ==
    /\ c \in owes
    /\ Write(c, None, "newline", TRUE)
    /\ owes' = owes \ {c}
    /\ UNCHANGED <<call, wrote, runs, faults>>
    /\ CallsRest

\* The request goes on: no write of its last line is left to do.
Emitted(c) == c \notin owes

\* d[k] = v
Put(d, k, v) == [x \in DOMAIN d \union {k} |-> IF x = k THEN v ELSE d[x]]

\* The step's end is logged, then its result is kept.
EndStep(c, id, what) ==
    /\ Emit(c, id, what)
    /\ Set(c, [call[c] EXCEPT !.pc = "steps", !.at = @ + 1, !.results = Put(@, id, what)])

Current(c) == StepOf(call[c].wf, call[c].order[call[c].at])

BeginStep(c) ==
    /\ call[c].pc = "steps" /\ Emitted(c) /\ call[c].at <= Len(call[c].order)
    /\ LET step == Current(c)
           what == BeforeTool(step, call[c].inputs, call[c].outputs)
       IN  CASE what = "raises" -> Answer(c, "error") /\ UNCHANGED logVars
             [] what = "starts" -> /\ Emit(c, step.id, "start")
                                   /\ Set(c, [call[c] EXCEPT !.pc = "tool"])
             [] OTHER -> EndStep(c, step.id, what)
    /\ UNCHANGED <<runs, faults>>
    /\ CallsRest

ToolReturns(c) ==
    /\ call[c].pc = "tool" /\ Emitted(c)
    /\ LET id == Current(c).id
       IN  \E out \in Outcomes[Current(c).uses] \ {"raise"} :
              /\ Emit(c, id, "done")
              /\ Set(c, [call[c] EXCEPT !.pc = "steps", !.at = @ + 1,
                                        !.outputs = Put(@, id, out),
                                        !.results = Put(@, id, "done")])
    /\ UNCHANGED <<runs, faults>>
    /\ CallsRest

\* As written by mistake: a failed step leaves an output behind
ToolRaisesKeepsOutput(c) ==
    /\ call[c].pc = "tool" /\ Emitted(c) /\ "raise" \in Outcomes[Current(c).uses]
    /\ Emit(c, Current(c).id, "error")
    /\ Set(c, [call[c] EXCEPT !.pc = "steps", !.at = @ + 1, !.outputs = Put(@, Current(c).id, "dict"),
                              !.results = Put(@, Current(c).id, "error")])
    /\ UNCHANGED <<runs, faults>>
    /\ CallsRest

ToolRaises(c) ==
    /\ call[c].pc = "tool" /\ Emitted(c) /\ "raise" \in Outcomes[Current(c).uses]
    /\ EndStep(c, Current(c).id, "error")
    /\ UNCHANGED <<runs, faults>>
    /\ CallsRest

\* What the next line would tell
Pending(c) ==
    LET before == BeforeTool(Current(c), call[c].inputs, call[c].outputs)
    IN  IF call[c].pc = "tool" THEN {"done", "error"} ELSE {IF before = "starts" THEN "start" ELSE before}

\* An audit line, or its newline, cannot be written: nothing, a part or all but the newline
\* is in the file, and the exception leaves run and the handler.
EmitFails(c) ==
    /\ faults < MaxFaults
    /\ \/ c \in owes /\ UNCHANGED audit
       \/ /\ Emitted(c)
          /\ \/ call[c].pc = "tool"
             \/ /\ call[c].pc = "steps" /\ call[c].at <= Len(call[c].order)
                /\ Pending(c) # {"raises"}
          /\ \/ UNCHANGED audit
             \/ \E what \in {"part"} \union Pending(c) : Write(c, Current(c).id, what, FALSE)
    /\ faults' = faults + 1
    /\ owes' = owes \ {c}
    /\ Answer(c, "broken")
    /\ UNCHANGED <<wrote, runs>>
    /\ CallsRest

StatusOf(results) == IF \E id \in DOMAIN results : results[id] = "error" THEN "failed" ELSE "completed"

\* As written by mistake: results are added to those of an earlier run of this id
RespondMerged(c) ==
    /\ call[c].pc = "steps" /\ Emitted(c) /\ call[c].at > Len(call[c].order)
    /\ LET old == runs[call[c].rid]
           results == IF old = None THEN call[c].results ELSE call[c].results @@ old.results
       IN  runs' = [runs EXCEPT ![call[c].rid] =
                       [by |-> c, status |-> StatusOf(results), results |-> results]]
    /\ Answer(c, "ok")
    /\ UNCHANGED <<logVars, faults>>
    /\ CallsRest

\* The response replaces any earlier one of the same run id.
Respond(c) ==
    /\ call[c].pc = "steps" /\ Emitted(c) /\ call[c].at > Len(call[c].order)
    /\ runs' = [runs EXCEPT ![call[c].rid] =
                   [by |-> c, status |-> StatusOf(call[c].results), results |-> call[c].results]]
    /\ Answer(c, "ok")
    /\ UNCHANGED <<logVars, faults>>
    /\ CallsRest

RunnerRaises(c) ==
    /\ call[c].pc = "runner"
    /\ Answer(c, "unavailable")
    /\ UNCHANGED <<logVars, runs, faults>>
    /\ CallsRest

\* The guest's own status and steps count before the runtime's; without steps there is one
\* entry for the runtime, in error if it wrote to stderr or did not exit with 0.
_run_response_from_runtime(c, result) ==
    LET said    == result.payload
        guest   == IF said # None /\ said.exit # None THEN said.exit ELSE result.exit
        results == IF said # None /\ said.steps # <<>> THEN said.steps
                   ELSE "__runtime__" :> IF result.stderr \/ guest # 0 THEN "error" ELSE "done"
    IN  [by |-> c, results |-> results,
         status |-> IF guest # 0 THEN "failed" ELSE StatusOf(results)]

RunnerReturns(c) ==
    /\ call[c].pc = "runner"
    /\ \E result \in RuntimeResults :
          runs' = [runs EXCEPT ![call[c].rid] = _run_response_from_runtime(c, result)]
    /\ Answer(c, "ok")
    /\ UNCHANGED <<logVars, faults>>
    /\ CallsRest

\* The server is killed and started again: requests in flight and the table are lost.
InFlight(pc) == pc \notin {"unused", "idle", "answered", "saved", "refused", "failed", "killed"}

Restart ==
    /\ kills < MaxKills
    /\ kills' = kills + 1
    /\ call' = [c \in Calls |-> IF InFlight(call[c].pc)
                                THEN [call[c] EXCEPT !.pc = "answered", !.code = "killed", !.at = 0,
                                                     !.agenda = <<>>, !.outputs = <<>>, !.results = <<>>]
                                ELSE call[c]]
    /\ save' = [s \in Saves |-> IF InFlight(save[s].pc) THEN [save[s] EXCEPT !.pc = "killed"] ELSE save[s]]
    /\ spoiled' = (spoiled \/ \E s \in Saves : InFlight(save[s].pc))
    /\ owes' = {}
    /\ runs' = [r \in RunIds |-> None]
    /\ UNCHANGED <<backend, file, audit, wrote, faults>>

\* GET /runs/{run_id}
get_run(r) == runs[r]

Finished ==
    /\ \A s \in Saves : save[s].pc # "idle" /\ ~InFlight(save[s].pc)
    /\ \A c \in Calls : call[c].pc # "idle" /\ ~InFlight(call[c].pc)
    /\ UNCHANGED serverVars

SaveStep(s) ==
    RefuseSave(s) \/ OpenDraft(s) \/ WriteDraft(s) \/ WriteFails(s) \/ CheckDraft(s) \/ UnlinkDraft(s)
RunStep(c) ==
    \/ LoadWorkflow(c) \/ visit(c) \/ Leave(c) \/ Sorted(c)
    \/ BeginStep(c) \/ ToolReturns(c) \/ ToolRaises(c) \/ NewLine(c) \/ Respond(c)
    \/ RunnerRaises(c) \/ RunnerReturns(c)

ServerNext ==
    \/ \E s \in Saves : SaveStep(s)
    \/ \E c \in Calls : create_run(c) \/ RunStep(c) \/ SetUpFails(c) \/ EmitFails(c)
    \/ Restart
    \/ Finished

ServerSpec == ServerInit /\ [][ServerNext]_serverVars

-----------------------------------------------------------------------------
(***************************************************************************)
(* Properties                                                              *)
(***************************************************************************)
Ends == {"done", "error", "skipped"}

\* Requests and file stay in their sets, a file being saved exists, a step in progress is in the
\* order, and a request's lines stand in its file in the order it wrote them.
ServerTypeOK ==
    /\ backend \in Backends
    /\ file \in DOMAIN Text \union {Absent, Empty, Torn}
    /\ \A s \in Saves : /\ save[s].pc \in {"unused", "idle", "write", "check", "unlink", "saved", "refused", "failed", "killed"}
                        /\ save[s].draft \in Drafts \union {None}
                        /\ save[s].linked => file # Absent
    /\ \A c \in Calls : /\ call[c].pc \in {"unused", "idle", "load", "runner", "sort", "steps", "tool", "answered"}
                        /\ call[c].code \in {None, "ok", "bad request", "not found", "error", "unavailable", "broken", "killed"}
                        /\ call[c].pc \in {"steps", "tool"} =>
                              /\ call[c].at \in 1 .. Len(call[c].order) + 1
                              /\ DOMAIN call[c].outputs \subseteq DOMAIN call[c].results
                        /\ \A k \in DOMAIN wrote[c] :
                              /\ wrote[c][k] \in DOMAIN audit[call[c].rid] /\ audit[call[c].rid][wrote[c][k]].by = c
                              /\ \A j \in DOMAIN wrote[c] : j < k => wrote[c][j] < wrote[c][k]
    /\ \A r \in RunIds : runs[r] = None \/ runs[r].status \in {"completed", "failed"}
    /\ owes \subseteq {c \in Calls : call[c].pc \in {"steps", "tool"}}
    /\ spoiled \in BOOLEAN /\ faults \in 0 .. MaxFaults /\ kills \in 0 .. MaxKills

\* A request's own lines in its audit file, in the order of the file
Lines(c) ==
    [k \in DOMAIN wrote[c] |-> LET line == audit[call[c].rid][wrote[c][k]]
                               IN  [step |-> line.step, what |-> line.what]]

Needs(wf, id) == LET needs == StepOf(wf, id).needs IN {needs[i] : i \in DOMAIN needs}

\* A step's tool is called only after every step it needs has ended, whatever the order of
\* the file (executor.py:76, needs order the run).
NeedsEndFirst ==
    \A c \in Calls : LET log == Lines(c) IN
        \A i \in DOMAIN log : log[i].what = "start" =>
            \A id \in Needs(call[c].wf, log[i].step) :
                \E j \in 1 .. i - 1 : log[j].step = id /\ log[j].what \in Ends

NeedsPrecede(wf, order) ==
    \A i \in DOMAIN order : Needs(wf, order[i]) \subseteq {order[j] : j \in 1 .. i - 1}

\* The reference for _topological_sort: if the ids differ and some order of the steps puts
\* each after what it needs, every step runs once and in such an order; if there is none (a
\* cycle, an unknown need), nothing runs and the request fails.  Only a workflow with as many
\* steps as Python's stack has room for may fail although there is an order.
SortIsSound ==
    \A c \in Calls :
        (backend = "direct" /\ call[c].wf # None /\ call[c].pc # "sort" /\ call[c].code # "killed") =>
            LET wf == call[c].wf
                orders == {o \in SetToSeqs(Ids(Text[wf].steps)) : NeedsPrecede(wf, o)}
            IN  IF Cardinality(Ids(Text[wf].steps)) = Len(Text[wf].steps) /\ orders # {}
                THEN \/ call[c].order \in orders
                     \/ Len(Text[wf].steps) >= MaxDepth /\ call[c].code = "error"
                ELSE call[c].code = "error"

\* What a tool was called with came from steps that succeeded earlier in the same run: never
\* from a failed or skipped one, nor from another run (executor.py:180).
OnlySuccessFeeds ==
    \A c \in Calls : LET log == Lines(c) IN
        \A i \in DOMAIN log : log[i].what = "start" =>
            LET step == StepOf(call[c].wf, log[i].step) IN
            \A ref \in ToSet(step.with) \union {step.when} : ref.root = "steps" =>
                \E j \in 1 .. i - 1 : log[j] = [step |-> ref.name, what |-> "done"]

\* Tools run in dependency order and on the outputs of the run they belong to.
StepsInOrder == NeedsEndFirst /\ OnlySuccessFeeds

\* A request that was answered, by whatever path, has closed in the file every step it
\* started, once and with its own next line; only a kill or a line that cannot be written
\* leaves a step open.
StartsAreClosed ==
    \A c \in Calls : LET log == Lines(c) IN
        (call[c].pc = "answered" /\ call[c].code \notin {"broken", "killed"}) =>
            \A i \in DOMAIN log : log[i].what = "start" =>
                /\ i < Len(log) /\ log[i + 1].step = log[i].step /\ log[i + 1].what \in {"done", "error"}
                /\ \A j \in DOMAIN log \ {i} : log[j] # log[i]

\* GET /runs tells what its own request has logged: every step of the workflow with its end,
\* and completed exactly if none ended in an error.  Another request that used the run id may
\* have left its lines, errors too, in the same file.
ResponseMatchesLog ==
    \A r \in RunIds : (backend = "direct" /\ get_run(r) # None) =>
        LET it  == get_run(r)
            own == {i \in DOMAIN audit[r] : audit[r][i].by = it.by}
        IN  /\ DOMAIN it.results = Ids(Text[call[it.by].wf].steps)
            /\ \A id \in DOMAIN it.results :
                  \E i \in own : audit[r][i].step = id /\ audit[r][i].what = it.results[id]
            /\ it.status = "completed" <=> \A i \in own : audit[r][i].what # "error"

\* AuditLog.read stops at what is not one line: a part of one, or one whose newline comes late
Unreadable(log, i) ==
    log[i].what = "part" \/ (~log[i].ended /\ i < Len(log) /\ log[i + 1].what # "newline")

\* The file reads back line by line, unless a request was cut off while it wrote, or a line of
\* another request of the same run id came before a newline (log.py:17, not guarded).
LogReadsBack ==
    \A r \in RunIds : \A i \in DOMAIN audit[r] : Unreadable(audit[r], i) =>
        \/ call[audit[r][i].by].code \in {"broken", "killed"}
        \/ i < Len(audit[r]) /\ audit[r][i + 1].by # audit[r][i].by

\* Requests are consistent, a response tells what its request logged, and the log can be read.
LogTellsRun == ServerTypeOK /\ StartsAreClosed /\ ResponseMatchesLog /\ LogReadsBack

\* When no save is in flight, the file is absent or is listed, whatever two writers have left
\* behind: the one that wrote last checks it and removes it if torn.  A save that was killed or
\* could not be written may leave a file that does not load, until the next save.
QuietFileLoads ==
    ((\A s \in Saves : ~InFlight(save[s].pc)) /\ ~spoiled) => (file = Absent \/ file \in list_workflows)
=============================================================================
