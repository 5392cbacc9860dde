-------------------------- MODULE MCWorkflowServer --------------------------
EXTENDS WorkflowServer

Always == [root |-> "none", name |-> "none", path |-> "whole"]
Ref(root, name, path) == [root |-> root, name |-> name, path |-> path]
S(id, uses, needs, with, when) ==
    [id |-> id, uses |-> uses, needs |-> needs, with |-> with, when |-> when]
W(size, steps) == [valid |-> TRUE, size |-> size, defaults |-> <<>>, steps |-> steps]

\* A field of a step that may fail, listed before it; a condition on its output
Mixed == W(3, <<S("b", "noop", <<"a">>, <<Ref("steps", "a", "field")>>, Always),
                S("a", "flaky", <<>>, <<>>, Always),
                S("c", "noop", <<"a">>, <<>>, Ref("steps", "a", "whole"))>>)

\* An input, an unknown tool, a reference without a root, an expression in when:
Faulty == W(2, <<S("a", "noop", <<>>, <<Ref("inputs", "x", "whole")>>, Always),
                 S("b", "unknown", <<"a">>, <<>>, Always),
                 S("c", "noop", <<>>, <<Ref("env", "x", "whole")>>, Always),
                 S("d", "noop", <<>>, <<>>, Ref("expression", "x", "whole"))>>)

\* A field of an output that is not a dict
Scalar == W(2, <<S("a", "text", <<>>, <<>>, Always),
                 S("b", "noop", <<"a">>, <<Ref("steps", "a", "field")>>, Always)>>)

\* A reference to a step that runs later
Early == W(2, <<S("a", "noop", <<>>, <<Ref("steps", "b", "whole")>>, Always),
                S("b", "noop", <<>>, <<>>, Always)>>)

Short   == W(1, <<S("a", "noop", <<>>, <<>>, Always)>>)
Invalid == [W(2, <<>>) EXCEPT !.valid = FALSE]
Twice   == W(2, <<S("a", "noop", <<>>, <<>>, Always), S("a", "text", <<>>, <<>>, Always)>>)
Default == [W(2, <<S("a", "noop", <<>>, <<Ref("inputs", "x", "whole")>>, Always)>>)
               EXCEPT !.defaults = "x" :> "dict"]

\* A chain of more needs than the stack has room for
Deep == W(2, <<S("e", "noop", <<"d">>, <<>>, Always), S("d", "noop", <<"c">>, <<>>, Always),
               S("c", "noop", <<"b">>, <<>>, Always), S("b", "noop", <<"a">>, <<>>, Always),
               S("a", "noop", <<>>, <<>>, Always)>>)

Named == <<Mixed, Short, Invalid, Faulty, Scalar, Early, Twice, Default, Deep>>

\* Every way three steps may need one another, themselves or an unknown step
Wide ==
    LET need == << <<>>, <<"a">>, <<"b">>, <<"c">>, <<"z">>, <<"c", "b">> >>
        k    == Len(need)
        N(n) == need[1 + (n % k)]
    IN  [n \in 1 .. k * k * k |->
            W(2, <<S("a", "noop", N(n), <<>>, Always), S("b", "noop", N(n \div k), <<>>, Always),
                   S("c", "noop", N(n \div (k * k)), <<>>, Always)>>)]

MCText == Named \o Wide
World(b, f, cs, ss) == [backend |-> b, file |-> f, calls |-> cs, saves |-> ss]
OnDisk == {n \in DOMAIN MCText : MCText[n].valid}

\* Two runs of one id and a save; two saves and a run; every workflow once
MCScenarios ==
    {World("direct", f, Calls, {s}) : f \in {Absent, 2, 6}, s \in Saves}
    \union {World("direct", f, {c}, Saves) : f \in {Absent, 2, 6}, c \in Calls}
    \union {World("direct", f, Calls, {}) : f \in {5, 8}}
    \union {World("direct", f, {c}, {}) : f \in OnDisk, c \in Calls}
    \union {World(b, 2, Calls, {s}) : b \in {"runner", "unconfigured"}, s \in Saves}

Symmetry == Permutations(Calls) \union Permutations(Saves)

MCDrafts == {2, 3, 6}
MCInputSets == {<<>>, "x" :> "dict"}
MCOutcomes == "noop" :> {"dict"} @@ "text" :> {"text"} @@ "flaky" :> {"dict", "empty", "raise"}
MCResults == {[exit |-> 1, stderr |-> FALSE, payload |-> None],
              [exit |-> 0, stderr |-> TRUE,  payload |-> None],
              [exit |-> 0, stderr |-> FALSE, payload |-> [exit |-> 0, steps |-> "a" :> "done"]],
              [exit |-> 0, stderr |-> FALSE, payload |-> [exit |-> None, steps |-> "a" :> "error"]]}
=============================================================================
