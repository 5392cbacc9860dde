--------------------------- MODULE MCPolicyEnforcer ---------------------------
(* Instances of PolicyEnforcer for TLC. *)
EXTENDS PolicyEnforcer, TLC

CONSTANTS e1, e2, w1, w2

Evaluation == [phase |-> "evaluation", workspace |-> <<"runs">>, inputs |-> <<"inputs">>,
               cache |-> None, access |-> "none"]

Provision == [Evaluation EXCEPT !.phase = "provision", !.cache = <<"cache">>, !.access = "read_write"]

Offline == [phase |-> "evaluation", purpose |-> "none", targets |-> {}, maxBytes |-> None,
            maxDuration |-> None, cacheWrite |-> FALSE, expires |-> 3]

Fetch == [Offline EXCEPT !.phase = "provision", !.purpose = "dependency_fetch", !.targets = {"pypi"},
                         !.maxBytes = 2, !.maxDuration = 2, !.cacheWrite = TRUE, !.expires = None]

Setup(storage, network, clock) ==
    [storage |-> storage, network |-> network, root |-> TRUE, bound |-> TRUE, expires |-> None, clock |-> clock]

\* e1 is made with any of these; the policies of the last three are refused.
MCSetups ==
    e1 :> {Setup(Evaluation, Offline, "wall"), Setup(Provision, Fetch, "default"),
           [Setup(Evaluation, Offline, "wall") EXCEPT !.expires = 2],
           [Setup(Provision, Fetch, "wall") EXCEPT !.root = FALSE],
           [Setup(Provision, Fetch, "wall") EXCEPT !.bound = FALSE],
           Setup([Evaluation EXCEPT !.cache = <<"cache">>, !.access = "read_write"], Offline, "wall"),
           Setup([Evaluation EXCEPT !.workspace = <<"inputs", "w">>], Offline, "wall"),
           Setup(Evaluation, [Fetch EXCEPT !.phase = "evaluation"], "wall")}
 @@ e2 :> {Setup(Evaluation, Offline, "wall")}

Request(op) == [op |-> op, digest |-> None, host |-> None, guest |-> None, mode |-> None,
                target |-> None, bytes |-> 0]

\* e2 launches; its receipts may reach e1.
MCRequests ==
    e2 :> {Request("launch")} @@
    e1 :>
    {Request("digest"), Request("launch"),
     [Request("digest") EXCEPT !.digest = <<Evaluation, Offline>>],
     [Request("publish") EXCEPT !.bytes = 2],
     [Request("network") EXCEPT !.target = "pypi", !.bytes = 1],
     [Request("network") EXCEPT !.target = "pypi", !.bytes = 2],
     [Request("network") EXCEPT !.target = "other", !.bytes = 1],
     [Request("mount") EXCEPT !.host = <<"inputs">>, !.guest = <<"inputs">>, !.mode = "ro"],
     [Request("mount") EXCEPT !.host = <<"cache">>, !.guest = <<"cache">>, !.mode = "rw"],
     [Request("mount") EXCEPT !.host = Outside, !.guest = <<"inputs">>, !.mode = "ro"],
     [Request("storage") EXCEPT !.guest = <<"cache", "f">>, !.mode = "write"],
     [Request("storage") EXCEPT !.guest = <<"inputs", "f">>, !.mode = "write"],
     [Request("storage") EXCEPT !.guest = Unsafe, !.mode = "read"],
     [Request("storage") EXCEPT !.host = <<"inputs", "f">>, !.guest = <<"inputs", "f">>,
                                !.mode = "read"]}

Symmetry == Permutations(Wipers)

=============================================================================
