--------------------------- MODULE CommandSession ---------------------------
(***************************************************************************)
(* The framed command boundary of the assignment service                   *)
(* (runtime/assignment_protocol.py): a registry of the active secret       *)
(* generation of each session, verifiers bound to one generation, and      *)
(* loops that read frames, verify them and apply them to the service.      *)
(*                                                                         *)
(* A secret is the pair of its session and its generation, and a frame's   *)
(* credential is the secret it was computed with: the MAC matches exactly  *)
(* when that is the verifier's secret.  The wire may delay, duplicate and  *)
(* reorder frames.  A nonce is a number, or Malformed when it is not a     *)
(* canonical base-ten integer.  Frames that do not parse, exceed the size  *)
(* limit or lack a field are answered with an error and change nothing.    *)
(***************************************************************************)
EXTENDS Naturals, Sequences, FiniteSets

CONSTANTS
    Sessions,    \* session identities
    Verifiers,   \* verifier objects
    Loops,       \* serve_framed loops
    None,        \* no binding, no frame
    Malformed,   \* a nonce that is not canonical
    MaxCommands, \* _MAX_SESSION_COMMANDS
    MaxNonce,    \* bound on the nonces a dispatcher uses
    MaxGen,      \* bound on the secrets minted per session
    MaxWire      \* bound on the different frames sent

ASSUME SessionAssumption ==
    /\ MaxCommands \in Nat /\ MaxNonce \in Nat /\ MaxGen \in Nat
    /\ Malformed \notin Nat

Nonces == 0..MaxNonce
Secrets == [session : Sessions, gen : 1..MaxGen]
Frames == [secret : Secrets, nonce : Nonces \cup {Malformed}]
Pcs == {"idle", "check", "admit", "apply"}

ASSUME NoneAssumption ==
    None \notin Secrets /\ None \notin Frames /\ None \notin Verifiers

VARIABLES
    gen,      \* secrets minted so far for each session
    active,   \* _ACTIVE_GENERATIONS: 0 when the session has no entry
    bound,    \* the secret each verifier was built from
    seen,     \* _seen of each verifier
    high,     \* _high_water of each verifier, plus one; 0 is Python's None
    wire,     \* frames a dispatcher has sent
    serves,   \* the verifier each loop was started with
    pc,       \* control of each loop
    frame,    \* the frame each loop is working on
    \* history
    accepted, \* nonces each verifier accepted, in order
    applied,  \* nonces of each verifier whose command was routed, in order
    dead,     \* secrets that were active and are so no longer
    late      \* the loop's frame arrived when its secret was dead

registry == <<gen, active, dead>>
verifier == <<bound, seen, high, accepted, applied>>
loop == <<serves, pc, frame, late>>
sessionVars == <<registry, verifier, loop, wire>>

\* Every variable holds a value of its type.
SessionTypeOK ==
    /\ gen \in [Sessions -> 0..MaxGen] /\ active \in [Sessions -> 0..MaxGen]
    /\ dead \subseteq Secrets
    /\ bound \in [Verifiers -> Secrets \cup {None}]
    /\ seen \in [Verifiers -> SUBSET Nonces]
    /\ high \in [Verifiers -> 0..(MaxNonce + 1)]
    /\ accepted \in [Verifiers -> Seq(Nonces)]
    /\ applied \in [Verifiers -> Seq(Nonces)]
    /\ wire \subseteq Frames
    /\ serves \in [Loops -> Verifiers \cup {None}]
    /\ pc \in [Loops -> Pcs]
    /\ frame \in [Loops -> Frames \cup {None}]
    /\ late \in [Loops -> BOOLEAN]

SessionInit ==
    /\ gen = [s \in Sessions |-> 0] /\ active = [s \in Sessions |-> 0]
    /\ dead = {}
    /\ bound = [v \in Verifiers |-> None]
    /\ seen = [v \in Verifiers |-> {}] /\ high = [v \in Verifiers |-> 0]
    /\ accepted = [v \in Verifiers |-> <<>>]
    /\ applied = [v \in Verifiers |-> <<>>]
    /\ wire = {}
    /\ serves = [l \in Loops |-> None]
    /\ pc = [l \in Loops |-> "idle"] /\ frame = [l \in Loops |-> None]
    /\ late = [l \in Loops |-> FALSE]

(***************************************************************************)
(* The registry.  Minting is not observable before the registry's lock.    *)
(***************************************************************************)
Secret(s, g) == [session |-> s, gen |-> g]
Active(secret) == active[secret.session] = secret.gen

Retired(s) == IF active[s] = 0 THEN {} ELSE {Secret(s, active[s])}

\* provision_session_secret
Provision(s) ==
    /\ gen[s] < MaxGen
    /\ gen' = [gen EXCEPT ![s] = @ + 1]
    /\ active' = [active EXCEPT ![s] = gen[s] + 1]
    /\ dead' = dead \cup Retired(s)
    /\ UNCHANGED <<verifier, loop, wire>>

\* revoke_session_secret
Revoke(s) ==
    /\ active' = [active EXCEPT ![s] = 0]
    /\ dead' = dead \cup Retired(s)
    /\ UNCHANGED <<gen, verifier, loop, wire>>

(***************************************************************************)
(* The dispatcher's side.                                                  *)
(***************************************************************************)
\* command_credential: a dispatcher signs with any secret it was ever given.
Send(f) ==
    /\ f.secret.gen <= gen[f.secret.session]
    /\ Cardinality(wire) < MaxWire
    /\ wire' = wire \cup {f}
    /\ UNCHANGED <<registry, verifier, loop>>

(***************************************************************************)
(* Verifiers and loops.                                                    *)
(***************************************************************************)
\* CommandSessionVerifier.__init__
Build(v, secret) ==
    /\ bound[v] = None
    /\ Active(secret)
    /\ bound' = [bound EXCEPT ![v] = secret]
    /\ UNCHANGED <<registry, seen, high, accepted, applied, loop, wire>>

\* serve_framed is entered; several loops may share one verifier.
Serve(l, v) ==
    /\ serves[l] = None
    /\ bound[v] # None
    /\ serves' = [serves EXCEPT ![l] = v]
    /\ UNCHANGED <<registry, verifier, pc, frame, late, wire>>

\* The input ends, or a response cannot be written.
EndLoop(l) ==
    /\ serves[l] # None /\ pc[l] = "idle"
    /\ serves' = [serves EXCEPT ![l] = None]
    /\ UNCHANGED <<registry, verifier, pc, frame, late, wire>>

\* A frame arrives and its credential is checked, without a lock.  The wire
\* keeps it: it may arrive again.
Receive(l, f) ==
    /\ serves[l] # None /\ pc[l] = "idle"
    /\ f \in wire
    /\ f.secret = bound[serves[l]]
    /\ pc' = [pc EXCEPT ![l] = "check"]
    /\ frame' = [frame EXCEPT ![l] = f]
    /\ late' = [late EXCEPT ![l] = f.secret \in dead]
    /\ UNCHANGED <<registry, verifier, serves, wire>>

\* The verifier's lock: held from the reading of the registry to the end.
Locked(v) == \E l \in Loops : pc[l] = "admit" /\ serves[l] = v

Finished(l) ==
    /\ pc' = [pc EXCEPT ![l] = "idle"]
    /\ frame' = [frame EXCEPT ![l] = None]
    /\ late' = [late EXCEPT ![l] = FALSE]

\* Mutant: a rotated or revoked secret is not noticed.
CheckActive_AnyGeneration(l) ==
    /\ pc[l] = "check" /\ ~Locked(serves[l])
    /\ pc' = [pc EXCEPT ![l] = "admit"]
    /\ UNCHANGED <<registry, verifier, serves, frame, late, wire>>

\* verify takes its lock and finds its generation active; the registry's lock
\* is released at once, so a rotation may follow before the nonce is used.
CheckActive(l) ==
    /\ pc[l] = "check" /\ ~Locked(serves[l])
    /\ Active(bound[serves[l]])
    /\ pc' = [pc EXCEPT ![l] = "admit"]
    /\ UNCHANGED <<registry, verifier, serves, frame, late, wire>>

\* The secret was revoked or rotated: an error, and the loop goes on.
CheckFails(l) ==
    /\ pc[l] = "check" /\ ~Locked(serves[l])
    /\ ~Active(bound[serves[l]])
    /\ Finished(l)
    /\ UNCHANGED <<registry, verifier, serves, wire>>

\* Mutant: the history alone forbids reuse.
Admissible_AnyOrder(v, nonce) ==
    /\ nonce # Malformed
    /\ nonce \notin seen[v]
    /\ Cardinality(seen[v]) < MaxCommands

\* Mutant: the budget is checked after the command it should refuse.
Admissible_LateBudget(v, nonce) ==
    /\ nonce # Malformed
    /\ nonce \notin seen[v]
    /\ Cardinality(seen[v]) <= MaxCommands
    /\ nonce >= high[v]

\* The checks verify makes on the nonce, in their order.
Admissible(v, nonce) ==
    /\ nonce # Malformed
    /\ nonce \notin seen[v]
    /\ Cardinality(seen[v]) < MaxCommands
    /\ nonce >= high[v]

\* The nonce is used and the lock released; handle_command goes on.
Accept(l) ==
    LET v == serves[l]
        n == frame[l].nonce
    IN  /\ pc[l] = "admit"
        /\ Admissible(v, n)
        /\ seen' = [seen EXCEPT ![v] = @ \cup {n}]
        /\ high' = [high EXCEPT ![v] = n + 1]
        /\ accepted' = [accepted EXCEPT ![v] = Append(@, n)]
        /\ pc' = [pc EXCEPT ![l] = "apply"]
        /\ UNCHANGED <<registry, bound, applied, serves, frame, late, wire>>

\* The frame is answered with an error and the loop goes on.
Refuse(l) ==
    /\ pc[l] = "admit"
    /\ ~Admissible(serves[l], frame[l].nonce)
    /\ Finished(l)
    /\ UNCHANGED <<registry, verifier, serves, wire>>

\* Mutant: a command may be routed again after a failure.
Apply_Retries(l) ==
    /\ pc[l] = "apply"
    /\ applied' = [applied EXCEPT ![serves[l]] = Append(@, frame[l].nonce)]
    /\ \/ Finished(l)
       \/ UNCHANGED <<pc, frame, late>>
    /\ UNCHANGED <<registry, bound, seen, high, accepted, serves, wire>>

\* handle_command validates the command and routes it to the service.
Apply(l) ==
    /\ pc[l] = "apply"
    /\ applied' = [applied EXCEPT ![serves[l]] = Append(@, frame[l].nonce)]
    /\ Finished(l)
    /\ UNCHANGED <<registry, bound, seen, high, accepted, serves, wire>>

\* The schema, the operation or its fields are refused: the nonce is used up.
ApplyFails(l) ==
    /\ pc[l] = "apply"
    /\ Finished(l)
    /\ UNCHANGED <<registry, verifier, serves, wire>>

-----------------------------------------------------------------------------
SessionNext ==
    \/ \E s \in Sessions : Provision(s) \/ Revoke(s)
    \/ \E f \in Frames : Send(f)
    \/ \E v \in Verifiers, secret \in Secrets : Build(v, secret)
    \/ \E l \in Loops :
         \/ \E v \in Verifiers : Serve(l, v)
         \/ \E f \in Frames : Receive(l, f)
         \/ CheckActive(l) \/ CheckFails(l)
         \/ Accept(l) \/ Refuse(l) \/ Apply(l) \/ ApplyFails(l)
         \/ EndLoop(l)

SessionSpec == SessionInit /\ [][SessionNext]_sessionVars

-----------------------------------------------------------------------------
Elements(seq) == { seq[i] : i \in DOMAIN seq }

\* Within a session "every nonce is accepted at most once, and the sequence
\* must be strictly increasing": whatever the wire duplicates or reorders,
\* and however many loops share the verifier.
NoncesIncrease ==
    \A v \in Verifiers : \A i, j \in DOMAIN accepted[v] :
        i < j => accepted[v][i] < accepted[v][j]

\* "History is never evicted" and the session must be rotated before its
\* budget is exhausted: the history a verifier keeps is exactly what it
\* accepted, and never longer than the budget.
HistoryWithinBudget ==
    \A v \in Verifiers :
        /\ seen[v] = Elements(accepted[v])
        /\ Len(accepted[v]) <= MaxCommands

\* A command reaches the service at most once per nonce, and only with a nonce
\* its verifier accepted: two loops holding copies of one frame never both
\* route it.
AppliedOnce ==
    \A v \in Verifiers :
        /\ Elements(applied[v]) \subseteq Elements(accepted[v])
        /\ \A i, j \in DOMAIN applied[v] :
               i # j => applied[v][i] # applied[v][j]

\* "Removing or replacing an entry immediately invalidates every verifier for
\* the prior generation on its next command": a frame that arrives when its
\* secret was revoked or rotated away is never routed to the service, not
\* even when its session is provisioned again meanwhile.
NoneAfterRevocation ==
    \A l \in Loops : pc[l] = "apply" => ~late[l]

-----------------------------------------------------------------------------
(***************************************************************************)
(* The inductive invariant of the proofs, in parts.                        *)
(***************************************************************************)
\* The history has one entry per accepted nonce, all below the high-water.
HistoryInv ==
    \A v \in Verifiers :
        /\ \A i \in DOMAIN accepted[v] : accepted[v][i] < high[v]
        /\ IsFiniteSet(seen[v]) /\ Cardinality(seen[v]) = Len(accepted[v])

\* A frame in a loop's hands carries the secret of the loop's verifier.
BoundInv ==
    \A l \in Loops : pc[l] # "idle" =>
        /\ serves[l] \in Verifiers /\ frame[l] \in Frames
        /\ frame[l].secret = bound[serves[l]]

\* A nonce about to be routed was accepted and was not routed before.
HeldInv ==
    \A l \in Loops : pc[l] = "apply" =>
        /\ frame[l].nonce \in Elements(accepted[serves[l]])
        /\ frame[l].nonce \notin Elements(applied[serves[l]])

\* A nonce about to be routed is in no other loop's hands.
DistinctInv ==
    \A k, l \in Loops :
        k # l /\ pc[k] = "apply" /\ pc[l] = "apply" /\ serves[k] = serves[l]
          => frame[k].nonce # frame[l].nonce

HandsInv == HeldInv /\ DistinctInv

\* A dead secret stays dead, and a late frame is stopped at the registry.
RevocationInv ==
    /\ \A s \in Sessions : active[s] <= gen[s]
    /\ \A d \in dead : d.gen <= gen[d.session] /\ ~Active(d)
    /\ \A l \in Loops : late[l] =>
          /\ pc[l] = "check"
          /\ frame[l].secret \in dead

SessionInv ==
    /\ HistoryInv /\ BoundInv /\ HandsInv /\ RevocationInv
    /\ NoncesIncrease /\ HistoryWithinBudget /\ AppliedOnce
=============================================================================
