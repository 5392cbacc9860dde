--------------------------- MODULE BridgeManager ---------------------------
(***************************************************************************)
(* The desktop application's BridgeManager (electron/src/main/bridge.ts),  *)
(* the server processes it spawns, and what every request meets first in   *)
(* such a process: the rate limiter (server/rate_limit.py) and the bearer  *)
(* token (server/auth.py).                                                 *)
(*                                                                         *)
(* The manager's code runs on one event loop; between two of its awaits    *)
(* anything may happen.  Child k is the child of the k-th start, and k is  *)
(* also its token.  All servers want one port.  A child may hang before it *)
(* serves: nothing obliges it to come up or to obey SIGTERM.               *)
(***************************************************************************)
EXTENDS Naturals

CONSTANTS
    MaxStarts,          \* bound: children spawned
    Watched,            \* bound: the child whose own token's bucket is followed
    MaxTime,            \* bound: the ticks of the clock it is followed
    Second,             \* the ticks in a second
    Capacity, Refill,   \* a bucket's size and what it gains in a tick
    Cost                \* what a request takes from it

ASSUME BridgeAssumption ==
    /\ MaxStarts \in Nat /\ MaxTime \in Nat
    /\ Second \in Nat \ {0} /\ Refill \in Nat \ {0}
    /\ Cost \in Nat \ {0} /\ Capacity \in Nat /\ Capacity >= Cost
    /\ Watched \in 1 .. MaxStarts

Children == 1 .. MaxStarts
Nobody == 0

VARIABLES
    app,      \* the application: "up" or "gone"
    child,    \* BridgeManager.child
    token,    \* BridgeManager.currentToken, with its URL and port
    starts,   \* each start(): "none", "poll", "fetch", "up" or "failed"
    stops,    \* the children that a stop() waits for
    proc,     \* the processes: "none", "booting", "serving" or "dead"
    signal,   \* the signal each that lives was sent last: "none", "term" or "kill"
    exited,   \* children whose end the manager has heard of
    late,     \* history: some child's end was heard of while another was the child
    port,     \* the process that holds the port
    now,      \* ticks since the watched child serves
    bucket    \* the watched child's bucket for its own token

managerVars == <<app, child, token, starts, stops, exited, late>>
vars == <<app, child, token, starts, stops, proc, signal, exited, late, port, now, bucket>>

NoBucket == [made |-> FALSE, tokens |-> 0, last |-> 0, spent |-> 0, since |-> 0,
             retry |-> MaxTime + 1, sure |-> MaxTime + 1]

Init ==
    /\ app = "up" /\ child = Nobody /\ token = Nobody
    /\ starts = [k \in Children |-> "none"]
    /\ stops = {}
    /\ proc = [k \in Children |-> "none"]
    /\ signal = [k \in Children |-> "none"]
    /\ exited = {} /\ late = FALSE
    /\ port = Nobody
    /\ now = 0
    /\ bucket = NoBucket

-----------------------------------------------------------------------------
(***************************************************************************)
(* The manager.  A child that could not be spawned has an exit code at     *)
(* once and never an exit event.                                           *)
(***************************************************************************)
Unspawned == {k \in Children : starts[k] = "none"}
HasExitCode(k) == k \in exited
Running == child # Nobody /\ ~HasExitCode(child)
Alive(k) == proc[k] \in {"booting", "serving"}

\* start(), up to its first await; a running bridge is only reported
Start ==
    /\ app = "up" /\ ~Running
    /\ \E k \in Unspawned :
       /\ \A j \in Unspawned : k <= j
       /\ child' = k /\ token' = k
       /\ starts' = [starts EXCEPT ![k] = "poll"]
       /\ \/ /\ proc' = [proc EXCEPT ![k] = "booting"]
             /\ UNCHANGED exited
          \/ /\ proc' = [proc EXCEPT ![k] = "dead"]
             /\ exited' = exited \union {k}
    /\ UNCHANGED <<app, stops, signal, late, port, now, bucket>>

\* waitForHealth, the head of its loop
Poll(k) ==
    /\ app = "up" /\ starts[k] = "poll" /\ k \notin exited
    /\ starts' = [starts EXCEPT ![k] = "fetch"]
    /\ UNCHANGED <<app, child, token, stops, proc, signal, exited, late, port, now, bucket>>

\* The answer to GET /health, from whichever process has the port, may be no 200 or not come
Fetched(k) ==
    /\ app = "up" /\ starts[k] = "fetch"
    /\ \/ port # Nobody /\ starts' = [starts EXCEPT ![k] = "up"]
       \/ starts' = [starts EXCEPT ![k] = "poll"]
    /\ UNCHANGED <<app, child, token, stops, proc, signal, exited, late, port, now, bucket>>

Send(k, sig) == signal' = [signal EXCEPT ![k] = IF Alive(k) /\ @ # "kill" THEN sig ELSE @]

\* As written by mistake: the child is forgotten and not killed
killChildForgets ==
    /\ child' = Nobody /\ token' = Nobody
    /\ UNCHANGED signal

killChild ==
    /\ child' = Nobody /\ token' = Nobody
    /\ IF Running THEN Send(child, "kill") ELSE UNCHANGED signal

\* waitForHealth throws: its child has ended, or the 20 seconds are over
StartFails(k) ==
    /\ app = "up" /\ starts[k] = "poll"
    /\ starts' = [starts EXCEPT ![k] = "failed"]
    /\ killChild
    /\ UNCHANGED <<app, stops, proc, exited, late, port, now, bucket>>

\* stop() sends SIGTERM and waits for the exit event.
Stop ==
    /\ app = "up"
    /\ IF Running
       THEN /\ stops' = stops \union {child}
            /\ Send(child, "term")
            /\ UNCHANGED <<child, token>>
       ELSE /\ child' = Nobody /\ token' = Nobody
            /\ UNCHANGED <<stops, signal>>
    /\ UNCHANGED <<app, starts, proc, exited, late, port, now, bucket>>

\* As written by mistake: the timer repeats SIGTERM
StopTimerTerm(k) ==
    /\ app = "up" /\ k \in stops
    /\ Send(k, "term")
    /\ UNCHANGED <<managerVars, proc, port, now, bucket>>

StopTimer(k) ==
    /\ app = "up" /\ k \in stops
    /\ Send(k, "kill")
    /\ UNCHANGED <<managerVars, proc, port, now, bucket>>

\* Both handlers of a child's exit event, and that of a stop that waits for it
ExitEvent(k) ==
    /\ app = "up" /\ proc[k] = "dead" /\ k \notin exited
    /\ exited' = exited \union {k}
    /\ late' = (late \/ child \notin {k, Nobody})
    /\ child' = Nobody /\ token' = Nobody
    /\ stops' = stops \ {k}
    /\ UNCHANGED <<app, starts, proc, signal, port, now, bucket>>

\* killSync, when the windows are closed or the application quits
KillSync(quit) ==
    /\ app = "up"
    /\ IF Running THEN Send(child, "term") ELSE UNCHANGED signal
    /\ app' = IF quit THEN "gone" ELSE app
    /\ UNCHANGED <<child, token, starts, stops, proc, exited, late, port, now, bucket>>

-----------------------------------------------------------------------------
(***************************************************************************)
(* The processes                                                           *)
(***************************************************************************)
Die(k) ==
    /\ proc' = [proc EXCEPT ![k] = "dead"]
    /\ signal' = [signal EXCEPT ![k] = "none"]
    /\ port' = IF port = k THEN Nobody ELSE port
    /\ bucket' = IF k = Watched THEN NoBucket ELSE bucket
    /\ now' = IF k = Watched THEN 0 ELSE now

\* testudo serve reads its token and binds the port, or ends if it is taken.
Boot(k) ==
    /\ proc[k] = "booting"
    /\ IF port = Nobody THEN /\ proc' = [proc EXCEPT ![k] = "serving"]
                             /\ port' = k
                             /\ UNCHANGED <<signal, now, bucket>>
       ELSE Die(k)
    /\ UNCHANGED managerVars

Crash(k) == Alive(k) /\ Die(k) /\ UNCHANGED managerVars

Killed(k) == signal[k] = "kill" /\ Crash(k)

-----------------------------------------------------------------------------
(***************************************************************************)
(* Requests.  The limiter comes before the check of the token and has a    *)
(* bucket for each token, so what other tokens do leaves this one alone.   *)
(***************************************************************************)
Tick ==
    /\ port = Watched /\ now < MaxTime
    /\ now' = now + 1
    /\ UNCHANGED <<managerVars, proc, signal, port, bucket>>

Smaller(a, b) == IF a < b THEN a ELSE b
Larger(a, b) == IF a < b THEN b ELSE a

\* What the bucket holds now, and what it gains in a second
Had(b) == IF b.made THEN Smaller(Capacity, b.tokens + (now - b.last) * Refill) ELSE Capacity
Rate == Second * Refill

\* max(1, int(wait + 0.999)) for a wait of short / Rate seconds: a part of a second under a
\* thousandth is rounded down
RetryAfter(short) == Larger(1, (1000 * short + 999 * Rate) \div (1000 * Rate))

\* A refusal's promises, kept for the property: when the request may be repeated, and, if that
\* is a full second's gain, when it is sure to be served
Denied(b, had) ==
    LET again == now + Second * RetryAfter(Cost - had)
    IN  [b EXCEPT !.retry = Smaller(@, again), !.sure = IF Cost - had <= Rate THEN Smaller(@, again) ELSE @]

Granted(b, had) ==
    [b EXCEPT !.tokens = had - Cost, !.spent = @ + Cost, !.retry = MaxTime + 1, !.sure = MaxTime + 1]

\* As written by mistake: the time of the last refill is kept when a request is refused
takeKeepsTime(b) ==
    LET had  == Had(b)
        base == [b EXCEPT !.made = TRUE, !.tokens = had, !.since = IF b.made THEN @ ELSE now]
    IN  IF had >= Cost THEN Granted([base EXCEPT !.last = now], had) ELSE Denied(base, had)

\* TokenBucket.take, and the answer 429 to a request that is refused
take(b) ==
    LET had  == Had(b)
        base == [b EXCEPT !.made = TRUE, !.tokens = had, !.last = now, !.since = IF b.made THEN @ ELSE now]
    IN  IF had >= Cost THEN Granted(base, had) ELSE Denied(base, had)

Request ==
    /\ port = Watched
    /\ bucket' = take(bucket)
    /\ UNCHANGED <<managerVars, proc, signal, port, now>>

-----------------------------------------------------------------------------
Step(k) ==
    \/ Poll(k) \/ Fetched(k) \/ StartFails(k) \/ StopTimer(k) \/ ExitEvent(k)
    \/ Boot(k) \/ Crash(k)

Next ==
    \/ Start \/ Stop \/ Tick \/ Request
    \/ \E quit \in BOOLEAN : KillSync(quit)
    \/ \E k \in Children : Step(k)

\* The event loop goes on, a start does not poll for ever, timers fire, ends are heard of and
\* SIGKILL works.
Fairness ==
    \A k \in Children :
        /\ WF_vars(Poll(k)) /\ WF_vars(Fetched(k)) /\ SF_vars(StartFails(k))
        /\ WF_vars(StopTimer(k)) /\ WF_vars(ExitEvent(k)) /\ WF_vars(Killed(k))

Spec == Init /\ [][Next]_vars /\ Fairness

-----------------------------------------------------------------------------
(***************************************************************************)
(* Properties                                                              *)
(***************************************************************************)
\* Children and calls stay in their sets; the token kept is the child's.
TypeOK ==
    /\ app \in {"up", "gone"}
    /\ child \in Children \union {Nobody} /\ token = child
    /\ starts \in [Children -> {"none", "poll", "fetch", "up", "failed"}]
    /\ proc \in [Children -> {"none", "booting", "serving", "dead"}]
    /\ signal \in [Children -> {"none", "term", "kill"}]
    /\ late \in BOOLEAN
    /\ port \in Children \union {Nobody}
    /\ \A k \in Children : (proc[k] = "serving") = (port = k)
    /\ stops \subseteq Children
    /\ exited \subseteq {k \in Children : proc[k] = "dead"}
    /\ now \in 0 .. MaxTime
    /\ bucket \in [made : BOOLEAN, tokens : Nat, last : Nat, spent : Nat, since : Nat,
                   retry : Nat, sure : Nat]

\* Nobody owns a process that runs on unsignalled: the manager can no longer reach it.
Orphan(k) == Alive(k) /\ signal[k] = "none" /\ child # k

\* The manager loses a child in one way only: the end of an earlier child, heard of late,
\* scrubs the child that has replaced it (bridge.ts:197).
OrphansOnlyByLateExit == (\E k \in Children : Orphan(k)) => late

\* Manager and processes are consistent, and the manager owns what it has not lost.
OwnershipInv == TypeOK /\ OrphansOnlyByLateExit

\* Every start() returns or throws and every stop() is answered, unless the application is
\* gone, even with a child that hangs and ignores SIGTERM.
CallsSettle ==
    \A k \in Children :
        /\ starts[k] = "poll" ~> (starts[k] \in {"up", "failed"} \/ app = "gone")
        /\ k \in stops ~> (k \notin stops \/ app = "gone")

\* From its first request on, no token is served more than a full bucket and what it has
\* gained since.  Whoever waits as long as Retry-After says lacks less than a millisecond's
\* gain, and nothing if a second's gain was enough: as with the default limits, where a
\* request costs what a second brings (rate_limit.py:120).
RateIsKept ==
    bucket.made =>
        LET gained == bucket.tokens + (now - bucket.last) * Refill
        IN  /\ bucket.spent <= Capacity + Refill * (now - bucket.since)
            /\ now >= bucket.retry => 1000 * gained + Rate > 1000 * Cost
            /\ now >= bucket.sure => gained >= Cost

=============================================================================
