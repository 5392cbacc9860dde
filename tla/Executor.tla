------------------------------ MODULE Executor ------------------------------
(***************************************************************************)
(* The pure part of the workflow executor (orchestrator/executor.py): the  *)
(* order in which steps run, how references are resolved, and what becomes *)
(* of a step before its tool is called.                                    *)
(*                                                                         *)
(* A step has an id, the tool it uses, the ids it needs, the references in *)
(* its with: block in order, and its when: condition.  Tool outputs and    *)
(* inputs are abstracted to what references can tell apart: a dict that    *)
(* has the field a reference names, an empty dict, or a value that is not  *)
(* a dict.                                                                 *)
(***************************************************************************)
EXTENDS Naturals, Sequences, FiniteSets, SequencesExt

CONSTANT Registered   \* the names the tool registry knows

\* What a reference may raise, and what run makes an error of the step
Errors == {"KeyError", "ValueError", "AttributeError"}
Caught == {"KeyError", "ValueError"}

(***************************************************************************)
(* _topological_sort: depth first, needs before the step, in the order of  *)
(* the file.  The calls of visit that are still to make or to return from  *)
(* are a list, the agenda: a "visit" is a call to make; a "leave" is a     *)
(* call that returns once what stands before it is done, and appends its   *)
(* step to the order.                                                      *)
(***************************************************************************)
Ids(steps) == {steps[i].id : i \in DOMAIN steps}
ById(steps, id) == steps[CHOOSE i \in DOMAIN steps : steps[i].id = id]

\* As written by mistake: two steps may share an id
AllowDuplicates(steps) == FALSE

Duplicates(steps) == Cardinality(Ids(steps)) # Len(steps)

Visits(ids) == [i \in DOMAIN ids |-> [op |-> "visit", id |-> ids[i]]]

\* The loop over the steps of the file
FirstVisits(steps) == Visits([i \in DOMAIN steps |-> steps[i].id])

\* visiting: the steps whose visit has not returned
Visiting(agenda) == {agenda[i].id : i \in {j \in DOMAIN agenda : agenda[j].op = "leave"}}

\* A cycle, or an unknown step
Unsortable(steps, agenda, id) == id \in Visiting(agenda) \/ id \notin Ids(steps)

\* The body of visit: the needs first, then the step
Descend(steps, id) == Append(Visits(ById(steps, id).needs), [op |-> "leave", id |-> id])

(***************************************************************************)
(* References.  inputs and outputs are functions from names to values; a   *)
(* reference goes to an input, to a step's whole output, to a field of it, *)
(* or has another root.                                                    *)
(***************************************************************************)
Walk(value, path) ==
    CASE path = "whole" -> value
      [] path = "field" /\ value = "dict"  -> "text"
      [] path = "field" /\ value = "empty" -> "KeyError"
      [] path = "field" /\ value = "text"  -> "AttributeError"

_resolve_ref(ref, inputs, outputs) ==
    CASE ref.root = "inputs" -> IF ref.name \in DOMAIN inputs THEN inputs[ref.name] ELSE "KeyError"
      [] ref.root = "steps"  -> IF ref.name \in DOMAIN outputs
                                THEN Walk(outputs[ref.name], ref.path) ELSE "KeyError"
      [] OTHER -> "ValueError"

\* The arguments, or the error of the first reference that raises
_resolve(with, inputs, outputs) ==
    LET values == [i \in DOMAIN with |-> _resolve_ref(with[i], inputs, outputs)]
        broken == {i \in DOMAIN with : values[i] \in Errors}
    IN  IF broken = {} THEN "args"
        ELSE values[CHOOSE i \in broken : \A j \in broken : i <= j]

\* Only ${ref} is an expression; without a condition the step proceeds.
_eval_when(when, inputs, outputs) ==
    CASE when.root = "none" -> "dict"
      [] when.root = "expression" -> "ValueError"
      [] OTHER -> _resolve_ref(when, inputs, outputs)

\* ToolRegistry.resolve knows the tools that were registered, each under its one name.
Resolves(name) == name \in Registered

\* What run makes of a step before its tool: the step ends in an error, is skipped, starts
\* its tool, or the exception leaves run.
BeforeTool(step, inputs, outputs) ==
    LET when == _eval_when(step.when, inputs, outputs)
        args == _resolve(step.with, inputs, outputs)
    IN  CASE when \in Caught -> "error"
          [] when = "AttributeError" -> "raises"
          [] when = "empty" -> "skipped"
          [] args \in Caught -> "error"
          [] args = "AttributeError" -> "raises"
          [] ~Resolves(step.uses) -> "error"
          [] OTHER -> "starts"
=============================================================================
