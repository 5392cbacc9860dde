----------------------------- MODULE RunContract -----------------------------
(***************************************************************************)
(* What the host's Runner promises of its runs: a call opens and closes,   *)
(* in between it may have one worker, which ends before its token is       *)
(* revoked and its state wiped; output is promoted and the call closed     *)
(* only after that.  At most one worker is alive.                          *)
(***************************************************************************)
CONSTANT Calls

VARIABLES
    phase,   \* "idle", "open" or "closed"
    worker,  \* "none", "alive" or "ended"
    cleaned, \* revoke and wipe have been taken on
    promoted \* the output is in the store

vars == <<phase, worker, cleaned, promoted>>

Init ==
    /\ phase = [c \in Calls |-> "idle"]
    /\ worker = [c \in Calls |-> "none"]
    /\ cleaned = [c \in Calls |-> FALSE]
    /\ promoted = [c \in Calls |-> FALSE]

\* No worker of c, or one that has ended and is taken care of
Settled(c) == worker[c] = "none" \/ (worker[c] = "ended" /\ cleaned[c])

Open(c) ==
    /\ phase[c] = "idle"
    /\ phase' = [phase EXCEPT ![c] = "open"]
    /\ UNCHANGED <<worker, cleaned, promoted>>

Refuse(c) ==
    /\ phase[c] = "idle"
    /\ phase' = [phase EXCEPT ![c] = "closed"]
    /\ UNCHANGED <<worker, cleaned, promoted>>

Start(c) ==
    /\ phase[c] = "open" /\ worker[c] = "none"
    /\ \A d \in Calls : worker[d] # "alive"
    /\ worker' = [worker EXCEPT ![c] = "alive"]
    /\ UNCHANGED <<phase, cleaned, promoted>>

EndWorker(c) ==
    /\ worker[c] = "alive"
    /\ worker' = [worker EXCEPT ![c] = "ended"]
    /\ UNCHANGED <<phase, cleaned, promoted>>

Clean(c) ==
    /\ worker[c] = "ended"
    /\ cleaned' = [cleaned EXCEPT ![c] = TRUE]
    /\ UNCHANGED <<phase, worker, promoted>>

Promote(c) ==
    /\ phase[c] = "open" /\ Settled(c)
    /\ promoted' = [promoted EXCEPT ![c] = TRUE]
    /\ UNCHANGED <<phase, worker, cleaned>>

Close(c) ==
    /\ phase[c] = "open" /\ Settled(c)
    /\ phase' = [phase EXCEPT ![c] = "closed"]
    /\ UNCHANGED <<worker, cleaned, promoted>>

Next ==
    \E c \in Calls :
        \/ Open(c) \/ Refuse(c) \/ Start(c) \/ EndWorker(c) \/ Clean(c)
        \/ Promote(c) \/ Close(c)

Spec == Init /\ [][Next]_vars

=============================================================================
