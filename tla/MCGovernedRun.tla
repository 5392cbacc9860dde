---------------------------- MODULE MCGovernedRun ----------------------------
EXTENDS GovernedRun, TLC

CONSTANTS c1, c2, n1, n2, i1, i2

Request(n, i, b, x) == [runner |-> n, id |-> i, backend |-> b, export |-> x]

\* The second call shares the first one's directory, Runner, store or adapter.
MCRequests ==
    c1 :> {Request(n1, i1, "native", TRUE)} @@
    c2 :> {Request(n1, i1, "other", FALSE), Request(n1, i2, "other", FALSE),
           Request(n2, i1, "other", TRUE), Request(n2, i1, "native", FALSE)}

\* Two equal files, and one that is refused after another was stored
MCTrees == {<<"clean", "clean">>, <<"clean", "link">>}
=============================================================================
