-------------------------- MODULE SeatControlProofs --------------------------
(***************************************************************************)
(* Proofs about guarded seat operations, for any number of operations,     *)
(* bridges and seats on one endpoint, whatever connections are lost,       *)
(* windows end, reconciliations raise and bridges die: the host's lock     *)
(* orders the operations that name it alike, is not forgotten behind a     *)
(* verdict, a verdict is told only of an operation that is over, and a     *)
(* bare command brought to serving can be stopped.                         *)
(***************************************************************************)
EXTENDS SeatControl, TLAPS

\* A controller with the local lock of its bridge and a session
Holding == {"locking", "operating", "ready", "closing"}

\* A guard with the host's lock
Held(g) == g.at \in {"gate", "running", "release"}

\* A controller is at one end of the session and its guard at the other: an input
\* that is tended has someone to write it.
Connected(k, g) ==
    /\ k.pc \in {"lock"} \cup Holding => k.seat \in Seats /\ k.bridge \in Bridges /\ k.op \in Kinds
    /\ k.pc = "lock" => g.at = "none" /\ k.ssh = "up"
    /\ k.pc \in Holding => g.at # "none" /\ g.seat = k.seat /\ g.op = k.op
    /\ k.pc \in {"done"} \cup Holding /\ g.at # "none" => g.bridge = k.bridge
    /\ k.pc \in Holding /\ k.ssh = "up" => g.tended
    /\ k.pc \notin Holding \/ k.ssh # "up" => g.at \in {"none", "exited"} \/ ~g.tended
    /\ g.tended /\ g.stdin # "closed" =>
         /\ g.at = "flock" => k.pc = "locking" /\ g.stdin = "open"
         /\ g.at = "gate" => \/ k.pc = "locking" /\ g.stdin = "open"
                             \/ k.pc = "operating" /\ g.stdin = "GO"
         /\ g.at = "running" => k.pc = "operating" /\ g.stdin = "GO"
         /\ g.at = "release" => \/ k.pc \in {"operating", "ready"} /\ g.stdin = "GO"
                                \/ k.pc = "closing" /\ g.stdin = "RELEASE"
    /\ k.pc = "locking" => g.at \in {"flock", "gate", "exited"} /\ g.stdin \in {"open", "closed"}

\* What has come of the operation: a session that is up is closed only by a poll
\* that refused, and so a code of the guard that arrives is not one of an operation
\* that was done.
Reported(k, g) ==
    /\ k.pc = "ready" => /\ g.at \in {"release", "exited"} /\ k.op = "start"
                         /\ Template[k.seat] = "bare-command"
    /\ g.at \in {"none", "flock", "gate", "running"} => g.rc = None
    /\ k.ssh = "up" /\ k.pc \in Holding /\ g.stdin = "closed" => g.rc = None /\ g.at \in {"gate", "exited"}
    /\ g.at = "exited" /\ g.code \in GuardCodes /\ g.rc = "ok" => g.stdin = "closed" \/ ~g.tended
    /\ k.trailer # None \/ k.result # None => k.pc = "closing" /\ g.at \in {"release", "exited"}
    /\ k.result = "serving" => k.op = "start"
    /\ k.pc \in Holding /\ k.ssh = "ended" => g.rc # None

Told(k, g) ==
    /\ k.outcome # None => k.pc = "done"
    /\ k.outcome \in {"serving", "dormant", "error"} => g.at \in {"release", "exited"}
    /\ k.outcome = "serving" => k.seat \in Seats /\ k.bridge \in Bridges /\ g.seat = k.seat
    /\ k.outcome = "refused" => g.at \in {"none", "exited"} /\ g.rc # "ok"
    /\ k.pc = "done" /\ k.ssh = "up" /\ g.at \notin {"none", "exited"} =>
         \/ k.outcome = "indeterminate"
         \/ k.outcome = "raised" /\ k.op = "start" /\ Template[k.seat] # "control-script"

Session(k, g) == Connected(k, g) /\ Reported(k, g) /\ Told(k, g)

\* The process a guard names was launched, and one to be stopped is named.
Named(g, instances) ==
    g.at # "none" =>
        /\ g.seat \in Seats /\ g.pid <= instances[g.seat]
        /\ g.op # "start" /\ Template[g.seat] = "bare-command" => g.pid # 0

\* A bare command that is awaited, or was brought to serving, is in the state file,
\* unless that was damaged.
Recorded(k, g, files, damaged) ==
    /\ k.pc = "ready" \/ k.result = "serving" \/ (k.outcome = "serving" /\ ~k.noop)
    /\ Template[k.seat] = "bare-command" /\ k.bridge \notin damaged
    => files[k.bridge][k.seat] >= g.pid

\* One operation holds a lock of the host, and one a bridge's.
RemoteLockIsHeldOnce ==
    \A c, d \in Calls : Held(guard[c]) /\ Held(guard[d]) /\ LockOf(guard[c]) = LockOf(guard[d]) => c = d

LocalLockIsHeldOnce ==
    \A c, d \in Calls : call[c].pc \in Holding /\ call[d].pc \in Holding /\ call[c].bridge = call[d].bridge => c = d

\* A start that is under way when another has been told to be serving, of the same
\* seat at the same bridge, launches a later process.
LaterIsGreater(c, d) ==
    /\ call[c].outcome = "serving" /\ call[c].bridge = call[d].bridge /\ call[c].seat = call[d].seat
    /\ call[d].pc = "operating" /\ call[d].op = "start" /\ guard[d].rc = "ok"
    /\ Template[call[d].seat] = "bare-command"
    => guard[d].pid >= guard[c].pid

\* The inductive invariant.
ControlInd ==
    /\ TypeOK
    /\ \A c \in Calls : /\ Session(call[c], guard[c]) /\ Named(guard[c], instance)
                        /\ Recorded(call[c], guard[c], records, emptied)
    /\ RemoteLockIsHeldOnce /\ LocalLockIsHeldOnce
    /\ \A c, d \in Calls : c # d => LaterIsGreater(c, d)

-----------------------------------------------------------------------------

USE ControlAssumption

Alone(f, g, c) == \A d \in Calls : d # c => f[d] = g[d]

\* The call of a step was not told to be serving by it, or had the local lock.
ServesAsBefore(k2, g2, k, g) ==
    \/ k2.outcome # "serving"
    \/ k.pc \in Holding /\ k2.bridge = k.bridge
    \/ k2.outcome = k.outcome /\ k2.bridge = k.bridge /\ k2.seat = k.seat /\ g2.pid = g.pid

\* The call of a step has not launched by it, or has launched last.
LaunchedAsBefore(k2, g2, k, g, instances) ==
    \/ k2.pc # "operating" \/ g2.rc # "ok" \/ k2.op # "start" \/ Template[k2.seat] # "bare-command"
    \/ g2.pid = instances[k2.seat]
    \/ k.pc = "operating" /\ k2.bridge = k.bridge /\ k2.seat = k.seat /\ k2.op = k.op /\ g2.rc = g.rc /\ g2.pid = g.pid

\* Records of a call and of a guard before anything happens.
LEMMA Unstarted ==
    /\ Idle \in CallStates /\ Idle.pc = "idle" /\ Idle.ssh = "up" /\ ~Idle.noop /\ Idle.base = 0
    /\ Idle.trailer = None /\ Idle.result = None /\ Idle.outcome = None
    /\ NoGuard \in GuardStates /\ NoGuard.at = "none" /\ NoGuard.stdin = "open" /\ NoGuard.rc = None
    /\ NoGuard.code = None /\ NoGuard.pid = 0 /\ NoGuard.tended
  BY DEF Idle, CallStates, NoGuard, GuardStates

LEMMA NoneIsNone ==
    /\ None \notin {"refused", "raised", "serving", "dormant", "error", "indeterminate"}
    /\ None \notin {"ok", "failed", "BUSY"} \cup GuardCodes
  BY DEF Outcomes, Codes, GuardCodes

\* What a step of one call starts from.
LEMMA CallFacts ==
    ASSUME ControlInd, NEW c \in Calls
    PROVE  /\ call \in [Calls -> CallStates] /\ call[c] \in CallStates
           /\ guard \in [Calls -> GuardStates] /\ guard[c] \in GuardStates
           /\ service \in [Seats -> {"down", "loading", "ready"}]
           /\ instance \in [Seats -> Nat] /\ restarts \in [Seats -> Nat] /\ records \in [Bridges -> [Seats -> Nat]]
           /\ emptied \subseteq Bridges /\ \A b \in Bridges, s \in Seats : records[b][s] <= instance[s]
           /\ runs \in 0..MaxRuns /\ faults \in 0..MaxFaults
           /\ Connected(call[c], guard[c]) /\ Reported(call[c], guard[c]) /\ Told(call[c], guard[c])
           /\ Named(guard[c], instance) /\ Recorded(call[c], guard[c], records, emptied)
<1>1. TypeOK /\ Session(call[c], guard[c]) /\ Named(guard[c], instance) /\ Recorded(call[c], guard[c], records, emptied)
  BY DEF ControlInd
<1> QED
  BY <1>1 DEF TypeOK, Session

\* A step of one call and its guard, and what it does to the host and the files.
LEMMA OneStep ==
    ASSUME ControlInd, NEW c \in Calls,
           call' \in [Calls -> CallStates], Alone(call', call, c),
           guard' \in [Calls -> GuardStates], Alone(guard', guard, c),
           service' \in [Seats -> {"down", "loading", "ready"}],
           instance' \in [Seats -> Nat], restarts' \in [Seats -> Nat],
           \A s \in Seats : instance[s] <= instance'[s],
           records' \in [Bridges -> [Seats -> Nat]], emptied' \subseteq Bridges, \A b \in Bridges, s \in Seats : records'[b][s] <= instance'[s],
           runs' \in 0..MaxRuns, faults' \in 0..MaxFaults,
           Session(call'[c], guard'[c]), Named(guard'[c], instance'),
           \A d \in Calls : Recorded(call'[d], guard'[d], records', emptied'),
           \/ ~Held(guard'[c])
           \/ Held(guard[c]) /\ guard'[c].bridge = guard[c].bridge
           \/ RemoteHolders(LockOf(guard'[c])) = {},
           \/ call'[c].pc \notin Holding
           \/ call[c].pc \in Holding /\ call'[c].bridge = call[c].bridge
           \/ LocalHolders(call'[c].bridge) = {},
           ServesAsBefore(call'[c], guard'[c], call[c], guard[c]),
           LaunchedAsBefore(call'[c], guard'[c], call[c], guard[c], instance')
    PROVE  ControlInd'
<1>0. /\ TypeOK /\ RemoteLockIsHeldOnce /\ LocalLockIsHeldOnce
      /\ \A d \in Calls : Session(call[d], guard[d]) /\ Named(guard[d], instance)
      /\ \A d, f \in Calls : d # f => LaterIsGreater(d, f)
  BY DEF ControlInd
<1>1. \A d \in Calls : Session(call'[d], guard'[d])
  BY <1>0 DEF Alone
<1>2. ASSUME NEW d \in Calls PROVE Named(guard'[d], instance')
  <2>1. CASE d = c
    BY <2>1
  <2>2. CASE d # c
    <3>1. guard'[d] = guard[d] /\ Named(guard[d], instance) /\ guard[d] \in GuardStates
      BY <1>0, <2>2 DEF Alone, TypeOK
    <3>2. guard[d].pid \in Nat /\ \A s \in Seats : instance[s] \in Nat /\ instance'[s] \in Nat
      BY <1>0, <3>1 DEF TypeOK, GuardStates
    <3> QED
      BY <3>1, <3>2 DEF Named
  <2> QED
    BY <2>1, <2>2
<1>3. TypeOK'
  BY <1>2 DEF TypeOK, Named
<1>4. RemoteLockIsHeldOnce'
  <2>1. SUFFICES ASSUME NEW d \in Calls, NEW f \in Calls, Held(guard'[d]), Held(guard'[f]),
                        LockOf(guard'[d]) = LockOf(guard'[f]), d # f
                 PROVE  FALSE
    BY DEF RemoteLockIsHeldOnce, Held, LockOf
  <2>2. ASSUME NEW b \in Calls, b # c, Held(guard'[b]), Held(guard'[c]), LockOf(guard'[b]) = LockOf(guard'[c])
        PROVE  FALSE
    <3>1. guard'[b] = guard[b]
      BY <2>2 DEF Alone
    <3>2. RemoteHolders(LockOf(guard'[c])) # {}
      BY <2>2, <3>1 DEF RemoteHolders, Held
    <3>3. Held(guard[c]) /\ LockOf(guard'[c]) = LockOf(guard[c])
      BY <2>2, <3>2 DEF LockOf
    <3> QED
      BY <1>0, <2>2, <3>1, <3>3 DEF RemoteLockIsHeldOnce
  <2>3. CASE d = c \/ f = c
    BY <2>1, <2>2, <2>3
  <2>4. CASE d # c /\ f # c
    BY <1>0, <2>1, <2>4 DEF Alone, RemoteLockIsHeldOnce
  <2> QED
    BY <2>3, <2>4
<1>5. LocalLockIsHeldOnce'
  <2>1. SUFFICES ASSUME NEW d \in Calls, NEW f \in Calls, call'[d].pc \in Holding,
                        call'[f].pc \in Holding, call'[d].bridge = call'[f].bridge, d # f
                 PROVE  FALSE
    BY DEF LocalLockIsHeldOnce
  <2>2. ASSUME NEW b \in Calls, b # c, call'[b].pc \in Holding, call'[c].pc \in Holding,
               call'[b].bridge = call'[c].bridge
        PROVE  FALSE
    <3>1. call'[b] = call[b]
      BY <2>2 DEF Alone
    <3>2. call[c].pc \in Holding /\ call'[c].bridge = call[c].bridge
      BY <2>2, <3>1 DEF LocalHolders, Holding
    <3> QED
      BY <1>0, <2>2, <3>1, <3>2 DEF LocalLockIsHeldOnce
  <2>3. CASE d = c \/ f = c
    BY <2>1, <2>2, <2>3
  <2>4. CASE d # c /\ f # c
    BY <1>0, <2>1, <2>4 DEF Alone, LocalLockIsHeldOnce
  <2> QED
    BY <2>3, <2>4
<1>6. ASSUME NEW d \in Calls, NEW f \in Calls, d # f PROVE LaterIsGreater(d, f)'
  <2>1. SUFFICES ASSUME /\ call'[d].outcome = "serving" /\ call'[d].bridge = call'[f].bridge
                        /\ call'[d].seat = call'[f].seat
                        /\ call'[f].pc = "operating" /\ call'[f].op = "start" /\ guard'[f].rc = "ok"
                        /\ Template[call'[f].seat] = "bare-command"
                 PROVE  guard'[f].pid >= guard'[d].pid
    BY DEF LaterIsGreater
  <2>2. LaterIsGreater(d, f) /\ LocalLockIsHeldOnce
    BY <1>0, <1>6
  <2>3. CASE d # c /\ f # c
    BY <2>1, <2>2, <2>3 DEF Alone, LaterIsGreater
  <2>4. CASE d = c
    <3>1. call'[f] = call[f] /\ guard'[f] = guard[f]
      BY <1>6, <2>4 DEF Alone
    <3>2. call[f].pc \in Holding
      BY <2>1, <3>1 DEF Holding
    <3>3. ~(call[c].pc \in Holding /\ call'[c].bridge = call[c].bridge)
      BY <1>6, <2>1, <2>2, <2>4, <3>1, <3>2 DEF LocalLockIsHeldOnce
    <3>4. /\ call'[c].outcome = call[c].outcome /\ call'[c].bridge = call[c].bridge /\ call'[c].seat = call[c].seat
          /\ guard'[c].pid = guard[c].pid
      BY <2>1, <2>4, <3>3 DEF ServesAsBefore
    <3> QED
      BY <2>1, <2>2, <2>4, <3>1, <3>4 DEF LaterIsGreater
  <2>5. CASE f = c
    <3>1. call'[d] = call[d] /\ guard'[d] = guard[d]
      BY <1>6, <2>5 DEF Alone
    <3>2. CASE guard'[c].pid = instance'[call'[c].seat]
      <4>1. Told(call'[d], guard'[d]) /\ Named(guard'[d], instance') /\ guard'[d] \in GuardStates
        BY <1>1, <1>2 DEF Session
      <4>2. guard'[d].at # "none" /\ guard'[d].seat = call'[d].seat /\ call'[d].seat \in Seats
        BY <2>1, <4>1 DEF Told
      <4>3. guard'[d].pid <= instance'[call'[d].seat] /\ guard'[d].pid \in Nat
        BY <4>1, <4>2 DEF Named, GuardStates
      <4> QED
        BY <2>1, <2>5, <3>2, <4>2, <4>3
    <3>3. CASE guard'[c].pid # instance'[call'[c].seat]
      BY <2>1, <2>2, <2>5, <3>1, <3>3 DEF LaunchedAsBefore, LaterIsGreater
    <3> QED
      BY <3>2, <3>3
  <2> QED
    BY <2>3, <2>4, <2>5
<1> QED
  BY <1>1, <1>2, <1>3, <1>4, <1>5, <1>6 DEF ControlInd

\* A step that leaves the host's services and the state files alone.
LEMMA SessionStep ==
    ASSUME ControlInd, NEW c \in Calls,
           call' \in [Calls -> CallStates], Alone(call', call, c),
           guard' \in [Calls -> GuardStates], Alone(guard', guard, c),
           UNCHANGED <<host, file>>, runs' \in 0..MaxRuns, faults' \in 0..MaxFaults,
           Session(call'[c], guard'[c]), Named(guard'[c], instance), Recorded(call'[c], guard'[c], records, emptied),
           \/ ~Held(guard'[c])
           \/ Held(guard[c]) /\ guard'[c].bridge = guard[c].bridge
           \/ RemoteHolders(LockOf(guard'[c])) = {},
           \/ call'[c].pc \notin Holding
           \/ call[c].pc \in Holding /\ call'[c].bridge = call[c].bridge
           \/ LocalHolders(call'[c].bridge) = {},
           ServesAsBefore(call'[c], guard'[c], call[c], guard[c]),
           LaunchedAsBefore(call'[c], guard'[c], call[c], guard[c], instance)
    PROVE  ControlInd'
<1>1. /\ service' = service /\ instance' = instance /\ restarts' = restarts /\ records' = records /\ emptied' = emptied
  BY DEF host, file
<1>2. /\ service \in [Seats -> {"down", "loading", "ready"}]
      /\ instance \in [Seats -> Nat] /\ restarts \in [Seats -> Nat] /\ records \in [Bridges -> [Seats -> Nat]]
      /\ emptied \subseteq Bridges /\ \A b \in Bridges, s \in Seats : records[b][s] <= instance[s]
  BY CallFacts
<1>3. ASSUME NEW d \in Calls PROVE Recorded(call'[d], guard'[d], records', emptied')
  <2>1. Recorded(call[d], guard[d], records, emptied)
    BY CallFacts
  <2> QED
    BY <1>1, <2>1 DEF Alone
<1>4. \A s \in Seats : instance[s] <= instance'[s]
  BY <1>1, <1>2
<1> QED
  BY <1>1, <1>2, <1>3, <1>4, OneStep

-----------------------------------------------------------------------------
(***************************************************************************)
(* The guard shell.                                                        *)
(***************************************************************************)

\* A guard goes on, without the operation having ended in the step.
LEMMA GuardStep ==
    ASSUME ControlInd, NEW c \in Calls, NEW g \in GuardStates, guard' = [guard EXCEPT ![c] = g],
           g.op = guard[c].op, g.seat = guard[c].seat, g.bridge = guard[c].bridge, g.rc = guard[c].rc,
           g.pid = guard[c].pid, guard[c].at # "none",
           UNCHANGED <<call, host, file, runs, faults>>,
           Session(call[c], g),
           ~Held(g) \/ Held(guard[c]) \/ RemoteHolders(LockOf(guard[c])) = {}
    PROVE  ControlInd'
<1>0. /\ call \in [Calls -> CallStates] /\ guard \in [Calls -> GuardStates] /\ guard[c] \in GuardStates
      /\ runs \in 0..MaxRuns /\ faults \in 0..MaxFaults
      /\ Named(guard[c], instance) /\ Recorded(call[c], guard[c], records, emptied)
  BY CallFacts
<1>1. /\ guard'[c] = g /\ guard' \in [Calls -> GuardStates] /\ Alone(guard', guard, c)
      /\ LockOf(g) = LockOf(guard[c])
  BY <1>0 DEF Alone, LockOf
<1>2. call'[c] = call[c] /\ call' \in [Calls -> CallStates] /\ Alone(call', call, c)
  BY <1>0 DEF Alone
<1>3. Named(g, instance) /\ Recorded(call[c], g, records, emptied)
  BY <1>0 DEF Named, Recorded
<1>4. call'[c].pc \notin Holding \/ (call[c].pc \in Holding /\ call'[c].bridge = call[c].bridge)
  BY <1>2
<1>5. ServesAsBefore(call'[c], g, call[c], guard[c])
  BY <1>2 DEF ServesAsBefore
<1>6. LaunchedAsBefore(call'[c], g, call[c], guard[c], instance)
  BY <1>2 DEF LaunchedAsBefore
<1> QED
  BY <1>0, <1>1, <1>2, <1>3, <1>4, <1>5, <1>6, SessionStep

\* The steps that only move the guard on.
LEMMA MoveStep ==
    ASSUME ControlInd, NEW c \in Calls,
           NEW at \in {"none", "flock", "gate", "running", "release", "exited"}, Guard(c, at),
           UNCHANGED <<call, host, file, runs, faults>>, guard[c].at \in {"flock", "gate"},
           \/ at = "gate" /\ guard[c].at = "flock" /\ RemoteHolders(LockOf(guard[c])) = {}
           \/ at = "running" /\ guard[c].at = "gate" /\ guard[c].stdin = "GO"
    PROVE  ControlInd'
<1> DEFINE g == [guard[c] EXCEPT !.at = at]
<1>0. /\ guard \in [Calls -> GuardStates] /\ guard[c] \in GuardStates /\ call[c] \in CallStates
      /\ Connected(call[c], guard[c]) /\ Reported(call[c], guard[c]) /\ Told(call[c], guard[c])
  BY CallFacts
<1>1. guard' = [guard EXCEPT ![c] = g]
  BY <1>0 DEF Guard
<1>2. g \in GuardStates
  BY <1>0 DEF GuardStates
<1>3. /\ g.at = at /\ g.op = guard[c].op /\ g.seat = guard[c].seat /\ g.stdin = guard[c].stdin
      /\ g.rc = guard[c].rc /\ g.pid = guard[c].pid /\ g.code = guard[c].code
      /\ g.bridge = guard[c].bridge /\ g.tended = guard[c].tended
  BY <1>0 DEF GuardStates
<1> HIDE DEF g
<1>4. Connected(call[c], g)
  BY <1>0, <1>3 DEF Connected, Holding
<1>5. Reported(call[c], g)
  BY <1>0, <1>3 DEF Connected, Reported, Holding
<1>6. Told(call[c], g)
  BY <1>0, <1>3 DEF Told
<1>7. ~Held(g) \/ Held(guard[c]) \/ RemoteHolders(LockOf(guard[c])) = {}
  BY DEF Held
<1>8. Session(call[c], g) /\ guard[c].at # "none"
  BY <1>4, <1>5, <1>6 DEF Session
<1> QED
  BY <1>1, <1>2, <1>3, <1>7, <1>8, GuardStep

\* A request that is over sees no more of its guard.
LEMMA ForgetStep ==
    ASSUME ControlInd, NEW c \in Calls, guard' = [guard EXCEPT ![c] = NoGuard],
           UNCHANGED <<call, host, file, runs, faults>>, call[c].pc = "idle"
    PROVE  ControlInd'
<1>0. /\ call \in [Calls -> CallStates] /\ guard \in [Calls -> GuardStates] /\ runs \in 0..MaxRuns /\ faults \in 0..MaxFaults
      /\ Connected(call[c], guard[c]) /\ Reported(call[c], guard[c]) /\ Told(call[c], guard[c])
  BY CallFacts
<1>1. /\ call'[c] = call[c] /\ call' \in [Calls -> CallStates] /\ Alone(call', call, c)
      /\ guard'[c] = NoGuard /\ guard' \in [Calls -> GuardStates] /\ Alone(guard', guard, c)
  BY <1>0, Unstarted DEF Alone
<1>2. call[c].outcome = None /\ call[c].trailer = None /\ call[c].result = None
  BY <1>0 DEF Reported, Told
<1>3. Connected(call[c], NoGuard)
  BY Unstarted DEF Connected, Holding
<1>4. Reported(call[c], NoGuard) /\ Told(call[c], NoGuard)
  BY <1>2, Unstarted, NoneIsNone DEF Reported, Told, Holding, GuardCodes
<1>5. Named(NoGuard, instance) /\ Recorded(call[c], NoGuard, records, emptied) /\ ~Held(NoGuard) /\ call[c].pc \notin Holding
  BY <1>2, Unstarted, NoneIsNone DEF Named, Recorded, Held, Holding
<1>6. ServesAsBefore(call[c], NoGuard, call[c], guard[c]) /\ LaunchedAsBefore(call[c], NoGuard, call[c], guard[c], instance)
  BY <1>2, NoneIsNone DEF ServesAsBefore, LaunchedAsBefore
<1>7. Session(call[c], NoGuard) /\ UNCHANGED <<host, file>> /\ runs' \in 0..MaxRuns /\ faults' \in 0..MaxFaults
  BY <1>0, <1>3, <1>4 DEF Session
<1> QED
  BY <1>1, <1>5, <1>6, <1>7, SessionStep

\* The ends of a guard.  A code of its own comes from the lock or the gate, or from an
\* input that ended.
LEMMA ExitStep ==
    ASSUME ControlInd, NEW c \in Calls, NEW code \in Codes \cup {None}, Exit(c, code),
           UNCHANGED <<call, host, file, runs, faults>>,
           guard[c].at \in {"flock", "gate", "release"},
           guard[c].rc = "ok" => code = "ok" \/ guard[c].stdin = "closed" \/ ~guard[c].tended
    PROVE  ControlInd'
<1> DEFINE g == [guard[c] EXCEPT !.at = "exited", !.code = code]
<1>0. /\ guard \in [Calls -> GuardStates] /\ guard[c] \in GuardStates /\ call[c] \in CallStates
      /\ Connected(call[c], guard[c]) /\ Reported(call[c], guard[c]) /\ Told(call[c], guard[c])
  BY CallFacts
<1>1. guard' = [guard EXCEPT ![c] = IF call[c].pc = "idle" THEN Forgotten(g) ELSE g]
  BY DEF Exit
<1>2. g \in GuardStates
  BY <1>0 DEF GuardStates
<1>3. /\ g.at = "exited" /\ g.op = guard[c].op /\ g.seat = guard[c].seat /\ g.stdin = guard[c].stdin
      /\ g.rc = guard[c].rc /\ g.pid = guard[c].pid /\ g.code = code
      /\ g.bridge = guard[c].bridge /\ g.tended = guard[c].tended
  BY <1>0 DEF GuardStates
<1> HIDE DEF g
<1>4. Connected(call[c], g)
  BY <1>0, <1>3 DEF Connected, Holding
<1>5. Reported(call[c], g)
  BY <1>0, <1>3 DEF Connected, Reported, Holding, GuardCodes
<1>6. Told(call[c], g)
  BY <1>0, <1>3 DEF Told
<1>7. CASE call[c].pc = "idle"
  <2>1. guard' = [guard EXCEPT ![c] = NoGuard]
    BY <1>1, <1>3, <1>7 DEF Forgotten
  <2> QED
    BY <1>7, <2>1, ForgetStep
<1>8. CASE call[c].pc # "idle"
  <2>1. guard' = [guard EXCEPT ![c] = g] /\ ~Held(g)
    BY <1>1, <1>3, <1>8 DEF Held
  <2> QED
    BY <1>2, <1>3, <1>4, <1>5, <1>6, <2>1, GuardStep DEF Session
<1> QED
  BY <1>7, <1>8

\* The input of a guard nobody tends ends.
LEMMA InputEndsStep ==
    ASSUME ControlInd, NEW c \in Calls, InputEnds(c)
    PROVE  ControlInd'
<1> DEFINE g == [guard[c] EXCEPT !.stdin = "closed"]
<1>0. /\ guard \in [Calls -> GuardStates] /\ guard[c] \in GuardStates /\ call[c] \in CallStates
      /\ Connected(call[c], guard[c]) /\ Reported(call[c], guard[c]) /\ Told(call[c], guard[c])
  BY CallFacts
<1>1. /\ guard' = [guard EXCEPT ![c] = g] /\ UNCHANGED <<call, host, file, runs, faults>>
      /\ ~guard[c].tended /\ guard[c].at \in {"flock", "gate", "running", "release"}
  BY <1>0 DEF InputEnds
<1>2. g \in GuardStates
  BY <1>0 DEF GuardStates
<1>3. /\ g.at = guard[c].at /\ g.op = guard[c].op /\ g.seat = guard[c].seat /\ g.stdin = "closed"
      /\ g.rc = guard[c].rc /\ g.pid = guard[c].pid /\ g.code = guard[c].code
      /\ g.bridge = guard[c].bridge /\ g.tended = guard[c].tended
  BY <1>0 DEF GuardStates
<1> HIDE DEF g
<1>4. Connected(call[c], g)
  BY <1>0, <1>1, <1>3 DEF Connected, Holding
<1>5. Reported(call[c], g)
  BY <1>0, <1>1, <1>3 DEF Connected, Reported, Holding
<1>6. Told(call[c], g) /\ (~Held(g) \/ Held(guard[c])) /\ guard[c].at # "none"
  BY <1>0, <1>1, <1>3 DEF Told, Held
<1> QED
  BY <1>1, <1>2, <1>3, <1>4, <1>5, <1>6, GuardStep DEF Session

LEMMA RemoteStep ==
    ASSUME ControlInd, NEW c \in Calls, Remote(c)
    PROVE  ControlInd'
<1>0. Reported(call[c], guard[c]) /\ guard[c] \in GuardStates
  BY CallFacts
<1>1. CASE RemoteLock(c)
  BY <1>1, MoveStep DEF RemoteLock
<1>2. CASE RemoteBusy(c)
  <2>1. "BUSY" \in Codes \cup {None} /\ guard[c].rc # "ok"
    BY <1>0, <1>2, NoneIsNone DEF RemoteBusy, Codes, GuardCodes, Reported
  <2> QED
    BY <1>2, <2>1, ExitStep DEF RemoteBusy
<1>3. CASE RemoteGate(c)
  <2>1. /\ "GATE_REFUSED" \in Codes \cup {None} /\ "GATE_TIMEOUT" \in Codes \cup {None} /\ guard[c].rc # "ok"
        /\ guard[c].at = "gate" /\ UNCHANGED <<call, host, file, runs, faults>>
    BY <1>0, <1>3, NoneIsNone DEF RemoteGate, Codes, GuardCodes, Reported
  <2>2. CASE guard[c].stdin = "GO"
    <3>1. Guard(c, "running")
      BY <1>3, <2>2 DEF RemoteGate
    <3> QED
      BY <2>1, <2>2, <3>1, MoveStep
  <2>3. CASE guard[c].stdin # "GO"
    <3>1. Exit(c, "GATE_REFUSED") \/ Exit(c, "GATE_TIMEOUT")
      BY <1>3, <2>3 DEF RemoteGate
    <3> QED
      BY <2>1, <3>1, ExitStep
  <2> QED
    BY <2>2, <2>3
<1>4. CASE RemoteRelease(c)
  <2>1. guard[c].at = "release" /\ UNCHANGED <<call, host, file, runs, faults>>
    BY <1>4 DEF RemoteRelease
  <2>2. CASE Exit(c, guard[c].rc)
    <3>1. guard[c].rc \in Codes \cup {None}
      BY <1>0 DEF GuardStates, Codes, GuardCodes
    <3> QED
      BY <2>1, <2>2, <3>1, ExitStep
  <2>3. CASE \/ guard[c].stdin = "closed" /\ Exit(c, "GATE_REFUSED")
             \/ ~guard[c].tended /\ Exit(c, "GATE_TIMEOUT")
    <3>1. "GATE_REFUSED" \in Codes \cup {None} /\ "GATE_TIMEOUT" \in Codes \cup {None}
      BY DEF Codes, GuardCodes
    <3> QED
      BY <2>1, <2>3, <3>1, ExitStep
  <2> QED
    BY <1>4, <2>2, <2>3 DEF RemoteRelease
<1>5. CASE RemoteUnavailable(c)
  <2>1. "UNAVAILABLE" \in Codes \cup {None} /\ guard[c].rc # "ok"
    BY <1>0, <1>5, NoneIsNone DEF RemoteUnavailable, Codes, GuardCodes, Reported
  <2> QED
    BY <1>5, <2>1, ExitStep DEF RemoteUnavailable
<1> QED
  BY <1>1, <1>2, <1>3, <1>4, <1>5, InputEndsStep DEF Remote

\* The operation ends on the host.
LEMMA RanStep ==
    ASSUME ControlInd, NEW c \in Calls, NEW rc \in {"ok", "failed", "BUSY"}, NEW pid \in Nat, Ran(c, rc, pid),
           guard[c].at = "running", UNCHANGED <<call, restarts, file, runs, faults>>,
           service' \in [Seats -> {"down", "loading", "ready"}], instance' \in [Seats -> Nat],
           \A s \in Seats : instance[s] <= instance'[s],
           pid <= instance'[guard[c].seat],
           guard[c].op # "start" => pid = guard[c].pid,
           guard[c].op = "start" /\ Template[guard[c].seat] = "bare-command" /\ rc = "ok" => pid = instance'[guard[c].seat]
    PROVE  ControlInd'
<1> DEFINE g == [guard[c] EXCEPT !.at = "release", !.rc = rc, !.pid = pid]
<1>0. /\ call \in [Calls -> CallStates] /\ call[c] \in CallStates
      /\ guard \in [Calls -> GuardStates] /\ guard[c] \in GuardStates
      /\ instance \in [Seats -> Nat] /\ restarts \in [Seats -> Nat] /\ records \in [Bridges -> [Seats -> Nat]]
      /\ emptied \subseteq Bridges /\ \A b \in Bridges, s \in Seats : records[b][s] <= instance[s]
      /\ runs \in 0..MaxRuns /\ faults \in 0..MaxFaults
      /\ Connected(call[c], guard[c]) /\ Reported(call[c], guard[c]) /\ Told(call[c], guard[c])
      /\ Named(guard[c], instance) /\ Recorded(call[c], guard[c], records, emptied)
  BY CallFacts
<1>1. guard' = [guard EXCEPT ![c] = g]
  BY <1>0 DEF Ran
<1>2. g \in GuardStates
  BY <1>0 DEF GuardStates
<1>3. /\ g.at = "release" /\ g.op = guard[c].op /\ g.seat = guard[c].seat /\ g.stdin = guard[c].stdin
      /\ g.rc = rc /\ g.pid = pid /\ g.code = guard[c].code
      /\ g.bridge = guard[c].bridge /\ g.tended = guard[c].tended
  BY <1>0 DEF GuardStates
<1> HIDE DEF g
<1>4. /\ guard'[c] = g /\ guard' \in [Calls -> GuardStates] /\ Alone(guard', guard, c)
      /\ call' = call /\ Alone(call', call, c) /\ records' = records /\ emptied' = emptied
      /\ Held(guard[c]) /\ guard'[c].bridge = guard[c].bridge
  BY <1>0, <1>1, <1>2, <1>3 DEF Alone, file, Held
<1>5. Connected(call[c], g)
  BY <1>0, <1>3 DEF Connected, Holding
<1>6. Reported(call[c], g)
  <2>1. ~(call[c].ssh = "up" /\ call[c].pc \in Holding /\ guard[c].stdin = "closed") /\ rc # None
    BY <1>0, NoneIsNone DEF Reported
  <2> QED
    BY <1>0, <1>3, <2>1 DEF Reported, Holding
<1>7. Told(call[c], g)
  BY <1>0, <1>3 DEF Told
<1>8. Named(g, instance')
  BY <1>0, <1>3 DEF Named
<1>9. ASSUME NEW d \in Calls PROVE Recorded(call'[d], guard'[d], records', emptied')
  <2>1. Recorded(call[d], guard[d], records, emptied)
    BY CallFacts
  <2>2. CASE d # c
    BY <1>4, <2>1, <2>2 DEF Alone
  <2>3. CASE d = c
    <3>1. None # "serving"
      BY DEF Outcomes
    <3>2. call[c].pc # "ready" /\ call[c].result # "serving" /\ call[c].outcome # "serving"
      BY <1>0, <3>1 DEF Reported, Told
    <3> QED
      BY <1>4, <2>3, <3>2 DEF Recorded
  <2> QED
    BY <2>2, <2>3
<1>10. \A b \in Bridges, s \in Seats : records'[b][s] <= instance'[s]
  <2>1. ASSUME NEW b \in Bridges, NEW s \in Seats PROVE records'[b][s] <= instance'[s]
    <3>1. records[b][s] \in Nat /\ instance[s] \in Nat /\ instance'[s] \in Nat
      BY <1>0
    <3> QED
      BY <1>0, <1>4, <3>1
  <2> QED
    BY <2>1
<1>11. ServesAsBefore(call'[c], g, call[c], guard[c])
  BY <1>0, <1>4 DEF ServesAsBefore, Told
<1>12. LaunchedAsBefore(call'[c], g, call[c], guard[c], instance')
  BY <1>0, <1>3, <1>4 DEF LaunchedAsBefore, Connected, Holding
<1> QED
  BY <1>0, <1>2, <1>4, <1>5, <1>6, <1>7, <1>8, <1>9, <1>10, <1>11, <1>12, OneStep DEF Session

LEMMA OperationStep ==
    ASSUME ControlInd, NEW c \in Calls, Operation(c)
    PROVE  ControlInd'
<1>0. /\ guard[c] \in GuardStates /\ service \in [Seats -> {"down", "loading", "ready"}]
      /\ instance \in [Seats -> Nat] /\ Named(guard[c], instance)
  BY CallFacts
<1>1. guard[c].at = "running"
  BY DEF Operation, RemoteStart, RemoteStop, RemoteNoEffect
<1>2. guard[c].seat \in Seats /\ guard[c].pid <= instance[guard[c].seat] /\ guard[c].pid \in Nat
  BY <1>0, <1>1 DEF Named, GuardStates
<1>3. CASE RemoteStart(c)
  <2> DEFINE s == guard[c].seat
             launches == Template[s] = "bare-command"
             state == IF launches \/ service[s] = "down" THEN "loading" ELSE service[s]
             n == IF launches THEN instance[s] + 1 ELSE instance[s]
  <2>1. /\ service' = [service EXCEPT ![s] = state] /\ instance' = [instance EXCEPT ![s] = n]
        /\ guard[c].op = "start" /\ UNCHANGED <<call, restarts, file, runs, faults>>
    BY <1>0, <1>2, <1>3 DEF RemoteStart
  <2>2. PICK rc \in {"ok", "failed"} : Ran(c, rc, instance'[s])
    BY <1>3 DEF RemoteStart
  <2>3. state \in {"down", "loading", "ready"} /\ n \in Nat /\ instance[s] <= n
    BY <1>0, <1>2
  <2> HIDE DEF state, n
  <2>4. /\ service' \in [Seats -> {"down", "loading", "ready"}] /\ instance' \in [Seats -> Nat]
        /\ \A t \in Seats : instance[t] <= instance'[t]
    <3>1. service' \in [Seats -> {"down", "loading", "ready"}] /\ instance' \in [Seats -> Nat]
      BY <1>0, <2>1, <2>3
    <3>2. ASSUME NEW t \in Seats PROVE instance[t] <= instance'[t]
      <4>1. instance[t] \in Nat /\ instance'[t] = IF t = s THEN n ELSE instance[t]
        BY <1>0, <2>1
      <4> QED
        BY <2>3, <4>1
    <3> QED
      BY <3>1, <3>2
  <2>5. instance'[s] \in Nat /\ instance'[s] <= instance'[s]
    BY <1>2, <2>4
  <2> QED
    BY <1>1, <2>1, <2>2, <2>4, <2>5, RanStep
<1>4. CASE RemoteStop(c)
  <2>1. /\ service' = [service EXCEPT ![guard[c].seat] = "down"] /\ guard[c].op # "start"
        /\ UNCHANGED <<call, instance, restarts, file, runs, faults>>
    BY <1>4 DEF RemoteStop
  <2>2. PICK rc \in {"ok", "failed"} : Ran(c, rc, guard[c].pid)
    BY <1>4 DEF RemoteStop
  <2>3. /\ service' \in [Seats -> {"down", "loading", "ready"}] /\ instance' \in [Seats -> Nat]
        /\ \A t \in Seats : instance[t] <= instance'[t]
    <3>1. service' \in [Seats -> {"down", "loading", "ready"}] /\ instance' = instance
      BY <1>0, <2>1
    <3>2. \A t \in Seats : instance[t] \in Nat
      BY <1>0
    <3> QED
      BY <1>0, <3>1, <3>2
  <2> QED
    BY <1>1, <1>2, <2>1, <2>2, <2>3, RanStep
<1>5. CASE RemoteNoEffect(c)
  <2>1. UNCHANGED <<call, service, instance, restarts, file, runs, faults>>
    BY <1>5 DEF RemoteNoEffect, host
  <2>2. PICK rc \in {"ok", "failed", "BUSY"} :
           Ran(c, rc, guard[c].pid) /\ (rc = "ok" => Template[guard[c].seat] # "bare-command")
    BY <1>5 DEF RemoteNoEffect
  <2>3. /\ service' \in [Seats -> {"down", "loading", "ready"}] /\ instance' \in [Seats -> Nat]
        /\ \A t \in Seats : instance[t] <= instance'[t]
    <3>1. service' \in [Seats -> {"down", "loading", "ready"}] /\ instance' = instance
      BY <1>0, <2>1
    <3>2. \A t \in Seats : instance[t] \in Nat
      BY <1>0
    <3> QED
      BY <1>0, <3>1, <3>2
  <2> QED
    BY <1>1, <1>2, <2>1, <2>2, <2>3, RanStep
<1> QED
  BY <1>3, <1>4, <1>5 DEF Operation

-----------------------------------------------------------------------------
(***************************************************************************)
(* The controller.                                                         *)
(***************************************************************************)
\* A call that has no guard.
LEMMA NewCallStep ==
    ASSUME ControlInd, NEW c \in Calls, NEW k \in CallStates, call' = [call EXCEPT ![c] = k],
           guard' = [guard EXCEPT ![c] = NoGuard],
           k.pc \in {"lock", "done"}, k.ssh = "up", k.trailer = None, k.result = None, k.outcome \in {None, "refused"},
           k.outcome = "refused" => k.pc = "done",
           k.pc = "lock" => k.seat \in Seats /\ k.bridge \in Bridges /\ k.op \in Kinds,
           UNCHANGED <<host, file, faults>>, runs' \in 0..MaxRuns
    PROVE  ControlInd'
<1>0. /\ call \in [Calls -> CallStates] /\ guard \in [Calls -> GuardStates] /\ faults \in 0..MaxFaults
      /\ None # "serving" /\ None # "ok" /\ None # "refused" /\ k.outcome # "serving" /\ k.result # "serving"
  BY CallFacts, NoneIsNone DEF Outcomes, Codes
<1>1. /\ call'[c] = k /\ call' \in [Calls -> CallStates] /\ Alone(call', call, c)
      /\ guard'[c] = NoGuard /\ guard' \in [Calls -> GuardStates] /\ Alone(guard', guard, c)
  BY <1>0, Unstarted DEF Alone
<1>2. Session(k, NoGuard)
  <2>1. Connected(k, NoGuard)
    BY <1>0, Unstarted DEF Connected, Holding
  <2>2. Reported(k, NoGuard)
    BY <1>0, Unstarted DEF Reported, Holding
  <2>3. Told(k, NoGuard)
    <3>1. k.outcome \notin {"serving", "dormant", "error"}
      BY DEF Outcomes
    <3> QED
      BY <1>0, <3>1, Unstarted DEF Told
  <2> QED
    BY <2>1, <2>2, <2>3 DEF Session
<1>3. Named(NoGuard, instance) /\ Recorded(k, NoGuard, records, emptied)
  BY <1>0, Unstarted DEF Named, Recorded
<1>4. ~Held(NoGuard) /\ k.pc \notin Holding
  BY Unstarted DEF Holding, Held
<1>5. ServesAsBefore(k, NoGuard, call[c], guard[c]) /\ LaunchedAsBefore(k, NoGuard, call[c], guard[c], instance)
  BY <1>0 DEF ServesAsBefore, LaunchedAsBefore
<1> QED
  BY <1>0, <1>1, <1>2, <1>3, <1>4, <1>5, SessionStep

LEMMA OperateStep ==
    ASSUME ControlInd, NEW c \in Calls, Operate(c) \/ RefuseEarly(c)
    PROVE  ControlInd'
<1>0. restarts \in [Seats -> Nat] /\ runs \in 0..MaxRuns
  BY CallFacts
<1>1. /\ guard' = [guard EXCEPT ![c] = NoGuard] /\ UNCHANGED <<host, file, faults>> /\ runs' \in 0..MaxRuns
  <2>1. /\ guard' = [guard EXCEPT ![c] = NoGuard] /\ UNCHANGED <<host, file, faults>>
        /\ runs' = runs + 1 /\ runs < MaxRuns
    BY DEF Operate, RefuseEarly, Available
  <2>2. runs + 1 \in 0..MaxRuns
    BY <1>0, <2>1
  <2> QED
    BY <2>1, <2>2
<1>2. CASE Operate(c)
  <2>1. PICK op \in Kinds, s \in Seats, b \in HomeOf[c] :
         call' = [call EXCEPT ![c] = [Idle EXCEPT !.pc = "lock", !.op = op, !.seat = s,
                                            !.bridge = b, !.base = restarts[s]]]
    BY <1>2 DEF Operate
  <2> DEFINE k == [Idle EXCEPT !.pc = "lock", !.op = op, !.seat = s, !.bridge = b, !.base = restarts[s]]
  <2>2. b \in Bridges /\ restarts[s] \in Nat
    BY <1>0
  <2>3. k \in CallStates
    BY <2>2, Unstarted DEF CallStates
  <2>4. /\ k.pc = "lock" /\ k.trailer = None /\ k.result = None /\ k.outcome = None
        /\ k.seat = s /\ k.bridge = b /\ k.op = op /\ k.ssh = "up"
    BY DEF Idle
  <2> HIDE DEF k
  <2>5. None # "refused" /\ call' = [call EXCEPT ![c] = k]
    BY <2>1 DEF k, Outcomes
  <2> QED
    BY <1>1, <2>2, <2>3, <2>4, <2>5, NewCallStep
<1>3. CASE RefuseEarly(c)
  <2> DEFINE k == [Idle EXCEPT !.pc = "done", !.outcome = "refused"]
  <2>1. k \in CallStates
    BY Unstarted DEF CallStates, Outcomes
  <2>2. k.pc = "done" /\ k.ssh = "up" /\ k.trailer = None /\ k.result = None /\ k.outcome = "refused"
    BY DEF Idle
  <2>3. call' = [call EXCEPT ![c] = k]
    BY <1>3 DEF RefuseEarly
  <2> HIDE DEF k
  <2> QED
    BY <1>1, <2>1, <2>2, <2>3, NewCallStep
<1> QED
  BY <1>2, <1>3

\* What Return and Write do.
LEMMA ReturnFacts ==
    ASSUME ControlInd, NEW c \in Calls, NEW o \in Outcomes, Return(c, o)
    PROVE  /\ call' \in [Calls -> CallStates] /\ Alone(call', call, c) /\ call'[c] \in CallStates
           /\ call'[c].pc = "done" /\ call'[c].outcome = o /\ call'[c].trailer = None /\ call'[c].result = None
           /\ call'[c].op = call[c].op /\ call'[c].seat = call[c].seat /\ call'[c].bridge = call[c].bridge
           /\ call'[c].ssh = call[c].ssh /\ call'[c].noop = call[c].noop
<1>0. call \in [Calls -> CallStates] /\ call[c] \in CallStates
  BY CallFacts
<1> DEFINE k == [call[c] EXCEPT !.pc = "done", !.outcome = o, !.base = 0, !.trailer = None, !.result = None]
<1>1. call' = [call EXCEPT ![c] = k]
  BY <1>0 DEF Return
<1>2. k \in CallStates
  BY <1>0 DEF CallStates
<1>3. /\ k.pc = "done" /\ k.outcome = o /\ k.trailer = None /\ k.result = None /\ k.op = call[c].op
      /\ k.seat = call[c].seat /\ k.bridge = call[c].bridge /\ k.ssh = call[c].ssh /\ k.noop = call[c].noop
  BY <1>0 DEF CallStates
<1> HIDE DEF k
<1>4. call'[c] = k /\ call' \in [Calls -> CallStates] /\ Alone(call', call, c)
  BY <1>0, <1>1, <1>2 DEF Alone
<1> QED
  BY <1>2, <1>3, <1>4

LEMMA WriteFacts ==
    ASSUME ControlInd, NEW c \in Calls, NEW text \in {"open", "GO", "RELEASE", "closed"}, Write(c, text)
    PROVE  /\ guard' \in [Calls -> GuardStates] /\ Alone(guard', guard, c) /\ guard'[c] \in GuardStates
           /\ guard'[c].at = guard[c].at /\ guard'[c].op = guard[c].op /\ guard'[c].seat = guard[c].seat
           /\ guard'[c].rc = guard[c].rc /\ guard'[c].code = guard[c].code /\ guard'[c].pid = guard[c].pid
           /\ guard'[c].bridge = guard[c].bridge /\ guard'[c].tended = guard[c].tended
           /\ call[c].ssh = "up" /\ guard[c].at # "exited" => guard'[c].stdin = text
           /\ ~(call[c].ssh = "up" /\ guard[c].at # "exited") => guard'[c].stdin = guard[c].stdin
<1>0. guard \in [Calls -> GuardStates] /\ guard[c] \in GuardStates
  BY CallFacts
<1>1. CASE call[c].ssh = "up" /\ guard[c].at # "exited"
  <2> DEFINE g == [guard[c] EXCEPT !.stdin = text]
  <2>1. guard' = [guard EXCEPT ![c] = g]
    BY <1>0, <1>1 DEF Write
  <2>2. g \in GuardStates
    BY <1>0 DEF GuardStates
  <2>3. /\ g.at = guard[c].at /\ g.op = guard[c].op /\ g.seat = guard[c].seat /\ g.rc = guard[c].rc
        /\ g.code = guard[c].code /\ g.pid = guard[c].pid /\ g.stdin = text
        /\ g.bridge = guard[c].bridge /\ g.tended = guard[c].tended
    BY <1>0 DEF GuardStates
  <2> HIDE DEF g
  <2>4. guard'[c] = g /\ guard' \in [Calls -> GuardStates] /\ Alone(guard', guard, c)
    BY <1>0, <2>1, <2>2 DEF Alone
  <2> QED
    BY <1>1, <2>2, <2>3, <2>4
<1>2. CASE ~(call[c].ssh = "up" /\ guard[c].at # "exited")
  BY <1>0, <1>2 DEF Write, Alone
<1> QED
  BY <1>1, <1>2

LEMMA UntendedFacts ==
    ASSUME ControlInd, NEW c \in Calls, NEW late \in BOOLEAN
    PROVE  LET g == Untended(guard[c], late)
           IN  /\ g \in GuardStates /\ g.at = guard[c].at /\ g.op = guard[c].op /\ g.seat = guard[c].seat
               /\ g.rc = guard[c].rc /\ g.code = guard[c].code /\ g.pid = guard[c].pid /\ g.bridge = guard[c].bridge
               /\ g.at \in {"none", "exited"} => g = guard[c]
               /\ g.at \notin {"none", "exited"} => ~g.tended
               /\ g.stdin \in {guard[c].stdin, "closed"}
<1>0. guard[c] \in GuardStates
  BY CallFacts
<1>1. CASE guard[c].at \in {"none", "exited"}
  BY <1>0, <1>1 DEF Untended
<1>2. CASE guard[c].at \notin {"none", "exited"}
  <2> DEFINE text == IF late THEN guard[c].stdin ELSE "closed"
             g == [guard[c] EXCEPT !.tended = FALSE, !.stdin = text]
  <2>1. Untended(guard[c], late) = g
    BY <1>0, <1>2 DEF Untended
  <2>2. text \in {guard[c].stdin, "closed"} /\ text \in {"open", "GO", "RELEASE", "closed"}
    BY <1>0 DEF GuardStates
  <2> HIDE DEF text
  <2>3. g \in GuardStates
    BY <1>0, <2>2 DEF GuardStates
  <2>4. /\ g.at = guard[c].at /\ g.op = guard[c].op /\ g.seat = guard[c].seat /\ g.rc = guard[c].rc
        /\ g.code = guard[c].code /\ g.pid = guard[c].pid /\ g.bridge = guard[c].bridge /\ g.stdin = text /\ ~g.tended
    BY <1>0 DEF GuardStates
  <2> HIDE DEF g
  <2> QED
    BY <1>2, <2>1, <2>2, <2>3, <2>4
<1> QED
  BY <1>1, <1>2

\* A step of the controller and what it writes: the guard's place, operation and process
\* stay as they are.
LEMMA ClientStep ==
    ASSUME ControlInd, NEW c \in Calls,
           call' \in [Calls -> CallStates], Alone(call', call, c),
           guard' \in [Calls -> GuardStates], Alone(guard', guard, c),
           guard'[c].at = guard[c].at, guard'[c].op = guard[c].op, guard'[c].seat = guard[c].seat,
           guard'[c].rc = guard[c].rc, guard'[c].pid = guard[c].pid, guard'[c].bridge = guard[c].bridge,
           UNCHANGED <<host, file, runs>>, faults' \in 0..MaxFaults,
           Session(call'[c], guard'[c]), Recorded(call'[c], guard'[c], records, emptied),
           call[c].pc \in Holding \/ (call'[c].pc \notin Holding /\ call'[c].outcome # "serving"),
           call'[c].bridge = call[c].bridge, call'[c].seat = call[c].seat, call'[c].op = call[c].op,
           call'[c].pc = "operating" => call[c].pc = "operating" \/ guard[c].rc # "ok"
    PROVE  ControlInd'
<1>0. Named(guard[c], instance) /\ runs \in 0..MaxRuns
  BY CallFacts
<1>1. Named(guard'[c], instance)
  BY <1>0 DEF Named
<1>2. ~Held(guard'[c]) \/ Held(guard[c])
  BY DEF Held
<1>3. ServesAsBefore(call'[c], guard'[c], call[c], guard[c])
  BY DEF ServesAsBefore
<1>4. LaunchedAsBefore(call'[c], guard'[c], call[c], guard[c], instance)
  BY DEF LaunchedAsBefore
<1>5. call'[c].pc \notin Holding \/ (call[c].pc \in Holding /\ call'[c].bridge = call[c].bridge)
  OBVIOUS
<1> QED
  BY <1>0, <1>1, <1>2, <1>3, <1>4, <1>5, SessionStep

\* What every step of a controller that holds the local lock knows.
LEMMA HoldingFacts ==
    ASSUME ControlInd, NEW c \in Calls
    PROVE  /\ call[c].pc \in {"lock"} \cup Holding =>
                /\ call[c].outcome = None /\ call[c].seat \in Seats /\ call[c].bridge \in Bridges /\ call[c].op \in Kinds
           /\ call[c].pc \in {"lock", "locking", "operating", "ready"} => call[c].trailer = None /\ call[c].result = None
           /\ call[c].pc = "lock" => guard[c].at = "none"
<1>1. Connected(call[c], guard[c]) /\ Reported(call[c], guard[c]) /\ Told(call[c], guard[c])
  BY CallFacts
<1> QED
  BY <1>1 DEF Connected, Reported, Told, Holding

\* A call that never had a guard ends.
LEMMA ReturnUnconnected ==
    ASSUME ControlInd, NEW c \in Calls, NEW o \in {"raised", "refused"}, Return(c, o), call[c].pc = "lock",
           UNCHANGED <<guard, host, file, runs, faults>>
    PROVE  ControlInd'
<1>0. /\ guard \in [Calls -> GuardStates] /\ faults \in 0..MaxFaults /\ guard[c].at = "none"
      /\ Connected(call[c], guard[c]) /\ Reported(call[c], guard[c])
  BY CallFacts, HoldingFacts
<1>1. o \in Outcomes
  BY DEF Outcomes
<1>2. /\ call' \in [Calls -> CallStates] /\ Alone(call', call, c)
      /\ call'[c].pc = "done" /\ call'[c].outcome = o /\ call'[c].trailer = None /\ call'[c].result = None
      /\ call'[c].op = call[c].op /\ call'[c].seat = call[c].seat /\ call'[c].bridge = call[c].bridge
  BY <1>1, ReturnFacts
<1>3. Connected(call'[c], guard[c])
  BY <1>0, <1>2 DEF Connected, Holding
<1>4. Reported(call'[c], guard[c])
  BY <1>0, <1>2, NoneIsNone DEF Reported, Holding
<1>5. Told(call'[c], guard[c])
  BY <1>0, <1>2, NoneIsNone DEF Told, Reported
<1>6. Recorded(call'[c], guard[c], records, emptied) /\ call'[c].pc \notin Holding /\ call'[c].outcome # "serving"
      /\ call'[c].pc # "operating"
  BY <1>2, NoneIsNone DEF Recorded, Holding
<1>7. guard' = guard /\ Alone(guard', guard, c)
  BY DEF Alone
<1> QED
  BY <1>0, <1>2, <1>3, <1>4, <1>5, <1>6, <1>7, ClientStep DEF Session

LEMMA ConnectStep ==
    ASSUME ControlInd, NEW c \in Calls, Connect(c)
    PROVE  ControlInd'
<1>0. /\ call \in [Calls -> CallStates] /\ call[c] \in CallStates /\ guard \in [Calls -> GuardStates]
      /\ records \in [Bridges -> [Seats -> Nat]] /\ instance \in [Seats -> Nat]
      /\ \A b \in Bridges, s \in Seats : records[b][s] <= instance[s]
      /\ faults \in 0..MaxFaults /\ runs \in 0..MaxRuns
      /\ Connected(call[c], guard[c]) /\ Reported(call[c], guard[c]) /\ Told(call[c], guard[c])
  BY CallFacts
<1>1. /\ call[c].pc = "lock" /\ LocalHolders(call[c].bridge) = {}
      /\ UNCHANGED <<host, file, runs, faults>>
  BY DEF Connect
<1>2. /\ call[c].outcome = None /\ call[c].seat \in Seats /\ call[c].bridge \in Bridges /\ call[c].op \in Kinds
      /\ call[c].trailer = None /\ call[c].result = None /\ guard[c].at = "none"
  BY <1>1, HoldingFacts
<1>3. CASE NeedsRecord(c) /\ Record(c) = 0
  BY <1>1, <1>3, ReturnUnconnected DEF Connect
<1>4. CASE ~(NeedsRecord(c) /\ Record(c) = 0)
  <2> DEFINE k == [call[c] EXCEPT !.pc = "locking"]
             pid == Record(c)
             g == [NoGuard EXCEPT !.at = "flock", !.op = call[c].op, !.seat = call[c].seat,
                                  !.bridge = call[c].bridge, !.pid = pid]
  <2>1. call' = [call EXCEPT ![c] = k] /\ guard' = [guard EXCEPT ![c] = g]
    BY <1>0, <1>4 DEF Connect, Goto
  <2>2. pid \in Nat /\ pid <= instance[call[c].seat]
    BY <1>0, <1>2 DEF Record
  <2>3. call[c].op # "start" /\ Template[call[c].seat] = "bare-command" => pid # 0
    BY <1>4 DEF NeedsRecord, TemplateOf
  <2> HIDE DEF pid
  <2>4. k \in CallStates
    BY <1>0 DEF CallStates
  <2>5. /\ k.pc = "locking" /\ k.op = call[c].op /\ k.seat = call[c].seat /\ k.bridge = call[c].bridge
        /\ k.ssh = call[c].ssh /\ k.noop = call[c].noop /\ k.trailer = None /\ k.result = None /\ k.outcome = None
    BY <1>0, <1>2 DEF CallStates
  <2>6. g \in GuardStates
    BY <1>2, <2>2, Unstarted DEF GuardStates
  <2>7. /\ g.at = "flock" /\ g.op = call[c].op /\ g.seat = call[c].seat /\ g.pid = pid /\ g.stdin = "open"
        /\ g.rc = None /\ g.bridge = call[c].bridge /\ g.tended
    BY DEF NoGuard
  <2> HIDE DEF k, g
  <2>8. /\ call'[c] = k /\ call' \in [Calls -> CallStates] /\ Alone(call', call, c)
        /\ guard'[c] = g /\ guard' \in [Calls -> GuardStates] /\ Alone(guard', guard, c)
    BY <1>0, <2>1, <2>4, <2>6 DEF Alone
  <2>9. call[c].ssh = "up"
    BY <1>0, <1>1 DEF Connected
  <2>10. Connected(k, g)
    BY <1>2, <2>5, <2>7, <2>9 DEF Connected, Holding
  <2>11. Reported(k, g)
    BY <1>2, <2>5, <2>7, <2>9, NoneIsNone DEF Reported, Holding
  <2>12. Told(k, g)
    BY <2>5, NoneIsNone DEF Told
  <2>13. Named(g, instance) /\ Recorded(k, g, records, emptied)
    BY <1>2, <2>2, <2>3, <2>5, <2>7, NoneIsNone DEF Named, Recorded
  <2>14. ServesAsBefore(k, g, call[c], guard[c]) /\ LaunchedAsBefore(k, g, call[c], guard[c], instance)
    BY <2>5, NoneIsNone DEF ServesAsBefore, LaunchedAsBefore
  <2>15. ~Held(g) /\ LocalHolders(k.bridge) = {}
    BY <1>1, <2>5, <2>7 DEF Held
  <2> QED
    BY <1>0, <1>1, <2>8, <2>10, <2>11, <2>12, <2>13, <2>14, <2>15, SessionStep DEF Session
<1> QED
  BY <1>3, <1>4

\* TESTUDO_LOCKED was read: GO, or the end of the input.
LEMMA PollStep ==
    ASSUME ControlInd, NEW c \in Calls, _post_lock_poll(c)
    PROVE  ControlInd'
<1>0. /\ call \in [Calls -> CallStates] /\ call[c] \in CallStates /\ faults \in 0..MaxFaults
      /\ Connected(call[c], guard[c]) /\ Reported(call[c], guard[c])
  BY CallFacts
<1>1. call[c].pc = "locking" /\ call[c].ssh = "up" /\ guard[c].at = "gate" /\ UNCHANGED <<host, file, runs, faults>>
  BY DEF _post_lock_poll
<1>2. /\ call[c].outcome = None /\ call[c].seat \in Seats /\ call[c].bridge \in Bridges /\ call[c].op \in Kinds
      /\ call[c].trailer = None /\ call[c].result = None /\ call[c].pc \in Holding /\ guard[c].rc = None
  BY <1>0, <1>1, HoldingFacts DEF Holding, Reported
<1>3. PICK seen \in Poll :
         IF Permits(c, seen)
         THEN Write(c, "GO") /\ Goto(c, "operating")
         ELSE /\ Write(c, "closed")
              /\ call' = [call EXCEPT ![c].pc = "closing", ![c].noop = GateNoop(c, seen)]
  BY DEF _post_lock_poll
<1> DEFINE noop == IF Permits(c, seen) THEN call[c].noop ELSE GateNoop(c, seen)
           pc == IF Permits(c, seen) THEN "operating" ELSE "closing"
           text == IF Permits(c, seen) THEN "GO" ELSE "closed"
           k == [call[c] EXCEPT !.pc = pc, !.noop = noop]
<1>4. Write(c, text)
  BY <1>3
<1>5. call' = [call EXCEPT ![c] = k]
  <2>1. CASE Permits(c, seen)
    <3>1. call' = [call EXCEPT ![c] = [call[c] EXCEPT !.pc = "operating"]]
      BY <1>0, <1>3, <2>1 DEF Goto
    <3>2. k = [call[c] EXCEPT !.pc = "operating"]
      BY <1>0, <2>1 DEF CallStates
    <3> QED
      BY <3>1, <3>2
  <2>2. CASE ~Permits(c, seen)
    BY <1>0, <1>3, <2>2
  <2> QED
    BY <2>1, <2>2
<1>6. noop \in BOOLEAN
  BY <1>0 DEF GateNoop, CallStates
<1>7. \/ pc = "operating" /\ text = "GO"
      \/ pc = "closing" /\ text = "closed"
  OBVIOUS
<1> HIDE DEF noop, pc, text
<1>8. k \in CallStates
  BY <1>0, <1>6, <1>7 DEF CallStates
<1>9. /\ k.pc = pc /\ k.op = call[c].op /\ k.seat = call[c].seat /\ k.bridge = call[c].bridge
      /\ k.ssh = call[c].ssh /\ k.trailer = None /\ k.result = None /\ k.outcome = None
  BY <1>0, <1>2 DEF CallStates
<1> HIDE DEF k
<1>10. call'[c] = k /\ call' \in [Calls -> CallStates] /\ Alone(call', call, c)
  BY <1>0, <1>5, <1>8 DEF Alone
<1>11. /\ guard' \in [Calls -> GuardStates] /\ Alone(guard', guard, c)
       /\ guard'[c].at = "gate" /\ guard'[c].op = guard[c].op /\ guard'[c].seat = guard[c].seat
       /\ guard'[c].rc = guard[c].rc /\ guard'[c].code = guard[c].code /\ guard'[c].pid = guard[c].pid
       /\ guard'[c].stdin = text /\ guard'[c].bridge = guard[c].bridge /\ guard'[c].tended = guard[c].tended
  BY <1>1, <1>4, <1>7, WriteFacts
<1>12. Connected(k, guard'[c])
  BY <1>0, <1>1, <1>2, <1>7, <1>9, <1>11 DEF Connected, Holding
<1>13. Reported(k, guard'[c])
  BY <1>1, <1>2, <1>7, <1>9, <1>11, NoneIsNone DEF Reported, Holding
<1>14. Told(k, guard'[c])
  BY <1>7, <1>9, NoneIsNone DEF Told
<1>15. Recorded(k, guard'[c], records, emptied) /\ guard[c].rc # "ok"
  BY <1>2, <1>7, <1>9, NoneIsNone DEF Recorded
<1>16. /\ Session(call'[c], guard'[c]) /\ Recorded(call'[c], guard'[c], records, emptied)
       /\ call'[c].bridge = call[c].bridge /\ call'[c].seat = call[c].seat /\ call'[c].op = call[c].op
       /\ guard'[c].at = guard[c].at
  BY <1>1, <1>9, <1>10, <1>11, <1>12, <1>13, <1>14, <1>15 DEF Session
<1>17. UNCHANGED <<host, file, runs>> /\ faults' \in 0..MaxFaults
  BY <1>0, <1>1
<1> QED
  BY <1>2, <1>10, <1>11, <1>15, <1>16, <1>17, ClientStep

-----------------------------------------------------------------------------
(***************************************************************************)
(* Reconciliation and the outcome.                                         *)
(***************************************************************************)
\* A trailer that is read comes from a guard whose operation has ended.
LEMMA TrailerFacts ==
    ASSUME ControlInd, NEW c \in Calls, TrailerSeen(c)
    PROVE  call[c].pc = "operating" /\ call[c].pc \in Holding /\ guard[c].at \in {"release", "exited"}
<1>0. Reported(call[c], guard[c]) /\ guard[c] \in GuardStates
  BY CallFacts
<1>1. call[c].pc = "operating" /\ call[c].pc \in Holding
  BY DEF TrailerSeen, Holding
<1>2. guard[c].at \in {"none", "flock", "gate", "running", "release", "exited"}
  BY <1>0 DEF GuardStates
<1> QED
  BY <1>0, <1>1, <1>2 DEF TrailerSeen, Reported

LEMMA DecidedStep ==
    ASSUME ControlInd, NEW c \in Calls, NEW result \in {"serving", "dormant", "error", "indeterminate"},
           Decided(c, result), UNCHANGED <<host, file, runs, faults>>,
           call[c].pc = "ready" \/ TrailerSeen(c),
           result = "serving" => /\ call[c].op = "start"
                                 /\ TemplateOf(c) = "bare-command" => call[c].pc = "ready"
    PROVE  ControlInd'
<1>0. /\ call \in [Calls -> CallStates] /\ call[c] \in CallStates /\ faults \in 0..MaxFaults
      /\ guard[c] \in GuardStates /\ Recorded(call[c], guard[c], records, emptied)
      /\ Connected(call[c], guard[c]) /\ Reported(call[c], guard[c])
  BY CallFacts
<1>1. /\ call[c].pc \in {"operating", "ready"} /\ call[c].pc \in Holding /\ guard[c].at \in {"release", "exited"}
  BY <1>0, TrailerFacts DEF Holding, Reported
<1>2. /\ call[c].outcome = None /\ call[c].seat \in Seats /\ call[c].bridge \in Bridges /\ call[c].op \in Kinds
  BY <1>1, HoldingFacts
<1> DEFINE k == [call[c] EXCEPT !.pc = "closing", !.result = result, !.trailer = guard[c].rc]
<1>3. call' = [call EXCEPT ![c] = k] /\ Write(c, "RELEASE")
  BY <1>0 DEF Decided
<1>4. guard[c].rc \in {"ok", "failed", "BUSY", None}
  BY <1>0 DEF GuardStates
<1>5. k \in CallStates
  BY <1>0, <1>4 DEF CallStates
<1>6. /\ k.pc = "closing" /\ k.op = call[c].op /\ k.seat = call[c].seat /\ k.bridge = call[c].bridge
      /\ k.ssh = call[c].ssh /\ k.result = result /\ k.outcome = None
  BY <1>0, <1>2 DEF CallStates
<1> HIDE DEF k
<1>7. call'[c] = k /\ call' \in [Calls -> CallStates] /\ Alone(call', call, c)
  BY <1>0, <1>3, <1>5 DEF Alone
<1>8. /\ guard' \in [Calls -> GuardStates] /\ Alone(guard', guard, c)
      /\ guard'[c].at = guard[c].at /\ guard'[c].op = guard[c].op /\ guard'[c].seat = guard[c].seat
      /\ guard'[c].rc = guard[c].rc /\ guard'[c].code = guard[c].code /\ guard'[c].pid = guard[c].pid
      /\ guard'[c].bridge = guard[c].bridge /\ guard'[c].tended = guard[c].tended
      /\ call[c].ssh = "up" /\ guard[c].at # "exited" => guard'[c].stdin = "RELEASE"
      /\ ~(call[c].ssh = "up" /\ guard[c].at # "exited") => guard'[c].stdin = guard[c].stdin
  BY <1>3, WriteFacts
<1>9. call[c].ssh \in {"up", "lost", "ended"}
  BY <1>0 DEF CallStates
<1>10. Connected(k, guard'[c])
  BY <1>0, <1>1, <1>2, <1>6, <1>8, <1>9 DEF Connected, Holding
<1>11. Reported(k, guard'[c])
  BY <1>0, <1>1, <1>6, <1>8, <1>9, NoneIsNone DEF Reported, Holding
<1>12. Told(k, guard'[c])
  BY <1>6, NoneIsNone DEF Told
<1>13. Recorded(k, guard'[c], records, emptied)
  BY <1>0, <1>6, <1>8, NoneIsNone DEF Recorded, TemplateOf
<1>14. k.pc # "operating"
  BY <1>6
<1>15. /\ Session(call'[c], guard'[c]) /\ Recorded(call'[c], guard'[c], records, emptied)
       /\ call'[c].bridge = call[c].bridge /\ call'[c].seat = call[c].seat /\ call'[c].op = call[c].op
       /\ call'[c].pc # "operating"
  BY <1>6, <1>7, <1>10, <1>11, <1>12, <1>13, <1>14 DEF Session
<1>16. UNCHANGED <<host, file, runs>> /\ faults' \in 0..MaxFaults
  BY <1>0
<1> QED
  BY <1>1, <1>7, <1>8, <1>15, <1>16, ClientStep

\* Only a start is found to be serving.
LEMMA ResultFacts ==
    ASSUME NEW c \in Calls, NEW result \in Results(c), Template[call[c].seat] \in {"systemd-user", "control-script", "bare-command"}
    PROVE  /\ result \in {"serving", "dormant", "error", "indeterminate"}
           /\ result = "serving" => call[c].op = "start"
<1>1. _await_sole_model(c) \subseteq {"error", "serving"}
  BY DEF _await_sole_model
<1>2. ReconcileSystemdStart(c) \subseteq {"serving", "dormant", "error", "indeterminate"}
  <2> DEFINE rest == CASE restarts[call[c].seat] > call[c].base -> {"error"}
                       [] restarts[call[c].seat] < call[c].base -> {}
                       [] OTHER -> IF service[call[c].seat] = "down" THEN {"dormant", "error"} ELSE _await_sole_model(c)
  <2>1. ReconcileSystemdStart(c) = {"indeterminate"} \cup rest
    BY DEF ReconcileSystemdStart
  <2>2. rest \subseteq {"serving", "dormant", "error"}
    BY <1>1
  <2> HIDE DEF rest
  <2> QED
    BY <2>1, <2>2
<1>3. ReconcileScriptStart(c) \subseteq {"serving", "error", "indeterminate"}
  BY <1>1 DEF ReconcileScriptStart
<1>4. ReconcileSystemdStop(c) \subseteq {"dormant", "indeterminate"} /\ _reconcile_stop(c) \subseteq {"dormant", "indeterminate"}
  BY DEF ReconcileSystemdStop, _reconcile_stop
<1>5. CASE call[c].op = "start"
  <2>1. Results(c) \in {ReconcileSystemdStart(c), ReconcileScriptStart(c), _await_sole_model(c)}
    BY <1>5 DEF Results, TemplateOf
  <2> QED
    BY <1>1, <1>2, <1>3, <1>5, <2>1
<1>6. CASE call[c].op # "start"
  <2>1. Results(c) \in {ReconcileSystemdStop(c), _reconcile_stop(c)}
    BY <1>6 DEF Results
  <2> QED
    BY <1>4, <2>1
<1> QED
  BY <1>5, <1>6

LEMMA ReconcileStep ==
    ASSUME ControlInd, NEW c \in Calls, NoPidRecord(c) \/ _reconcile_operation(c)
    PROVE  ControlInd'
<1>1. CASE NoPidRecord(c)
  BY <1>1, DecidedStep DEF NoPidRecord
<1>2. CASE _reconcile_operation(c)
  <2>1. /\ call[c].pc = "ready" \/ (TrailerSeen(c) /\ ~BareStart(c))
        /\ UNCHANGED <<host, file, runs, faults>>
    BY <1>2 DEF _reconcile_operation
  <2>2. PICK result \in Results(c) : Decided(c, result)
    BY <1>2 DEF _reconcile_operation
  <2>3. call[c].seat \in Seats
    BY <2>1, HoldingFacts DEF TrailerSeen, Holding
  <2>4. Template[call[c].seat] \in {"systemd-user", "control-script", "bare-command"}
    BY <2>3
  <2>5. result \in {"serving", "dormant", "error", "indeterminate"} /\ (result = "serving" => call[c].op = "start")
    BY <2>4, ResultFacts
  <2>6. result = "serving" => (TemplateOf(c) = "bare-command" => call[c].pc = "ready")
    BY <2>1, <2>5 DEF BareStart
  <2> QED
    BY <2>1, <2>2, <2>5, <2>6, DecidedStep
<1> QED
  BY <1>1, <1>2

\* The record of a launched process replaces one that was launched before it.
LEMMA PersistStep ==
    ASSUME ControlInd, NEW c \in Calls, _persist_pid_record(c)
    PROVE  ControlInd'
<1>0. /\ call \in [Calls -> CallStates] /\ call[c] \in CallStates
      /\ guard \in [Calls -> GuardStates] /\ guard[c] \in GuardStates
      /\ service \in [Seats -> {"down", "loading", "ready"}]
      /\ instance \in [Seats -> Nat] /\ restarts \in [Seats -> Nat] /\ records \in [Bridges -> [Seats -> Nat]]
      /\ emptied \subseteq Bridges /\ \A b \in Bridges, s \in Seats : records[b][s] <= instance[s]
      /\ runs \in 0..MaxRuns /\ faults \in 0..MaxFaults
      /\ Connected(call[c], guard[c]) /\ Reported(call[c], guard[c]) /\ Named(guard[c], instance)
  BY CallFacts
<1>1. /\ call[c].pc = "operating" /\ guard[c].at \in {"release", "exited"} /\ call[c].op = "start"
      /\ Template[call[c].seat] = "bare-command" /\ guard[c].rc = "ok"
      /\ UNCHANGED <<guard, host, runs>> /\ call[c].pc \in Holding
  BY TrailerFacts DEF _persist_pid_record, BareStart, PidPrinted, TemplateOf
<1>2. /\ call[c].outcome = None /\ call[c].seat \in Seats /\ call[c].bridge \in Bridges
      /\ call[c].trailer = None /\ call[c].result = None
  BY <1>1, HoldingFacts DEF Holding
<1> DEFINE k == [call[c] EXCEPT !.pc = "ready"]
<1>3. call' = [call EXCEPT ![c] = k]
  BY <1>0 DEF _persist_pid_record, Goto
<1>4. k \in CallStates
  BY <1>0 DEF CallStates
<1>5. /\ k.pc = "ready" /\ k.op = call[c].op /\ k.seat = call[c].seat /\ k.bridge = call[c].bridge
      /\ k.ssh = call[c].ssh /\ k.trailer = None /\ k.result = None /\ k.outcome = None
  BY <1>0, <1>2 DEF CallStates
<1> HIDE DEF k
<1>6. /\ call'[c] = k /\ call' \in [Calls -> CallStates] /\ Alone(call', call, c)
      /\ guard' = guard /\ Alone(guard', guard, c)
  BY <1>0, <1>1, <1>3, <1>4 DEF Alone
<1>7. guard[c].seat = call[c].seat /\ guard[c].pid <= instance[call[c].seat] /\ guard[c].pid \in Nat
  BY <1>0, <1>1, <1>2 DEF Connected, Named, GuardStates
<1>8. PICK kept \in [Seats -> Nat] :
        /\ records' = [records EXCEPT ![call[c].bridge] = [kept EXCEPT ![call[c].seat] = guard[c].pid]]
        /\ \/ kept = records[call[c].bridge] /\ UNCHANGED <<emptied, faults>>
           \/ kept = NoRecords /\ _quarantine_locked(call[c].bridge)
  <2>1. NoRecords \in [Seats -> Nat] /\ records[call[c].bridge] \in [Seats -> Nat]
    BY <1>0, <1>2 DEF NoRecords
  <2> QED
    BY <2>1 DEF _persist_pid_record, mutate
<1>9. /\ records' \in [Bridges -> [Seats -> Nat]] /\ records'[call[c].bridge][call[c].seat] = guard[c].pid
      /\ \A b \in Bridges : b # call[c].bridge => records'[b] = records[b]
      /\ \A s \in Seats : s # call[c].seat => records'[call[c].bridge][s] = kept[s]
  BY <1>0, <1>2, <1>7, <1>8
<1>19. /\ emptied' \subseteq Bridges /\ faults' \in 0..MaxFaults /\ emptied \subseteq emptied'
       /\ kept = records[call[c].bridge] \/ call[c].bridge \in emptied'
       /\ \A s \in Seats : kept[s] <= instance[s]
  <2>1. CASE kept = records[call[c].bridge] /\ UNCHANGED <<emptied, faults>>
    BY <1>0, <1>2, <2>1
  <2>2. CASE kept = NoRecords /\ _quarantine_locked(call[c].bridge)
    <3>1. emptied' = emptied \cup {call[c].bridge} /\ faults < MaxFaults /\ faults' = faults + 1
      BY <2>2 DEF _quarantine_locked
    <3>2. \A s \in Seats : kept[s] = 0 /\ instance[s] \in Nat
      BY <1>0, <2>2 DEF NoRecords
    <3> QED
      BY <1>0, <1>2, <3>1, <3>2
  <2> QED
    BY <1>8, <2>1, <2>2
<1>10. service' = service /\ instance' = instance /\ restarts' = restarts
  BY <1>1 DEF host
<1>11. \A b \in Bridges, s \in Seats : records'[b][s] <= instance'[s]
  BY <1>0, <1>7, <1>9, <1>10, <1>19
<1>12. Connected(k, guard[c])
  BY <1>0, <1>1, <1>2, <1>5 DEF Connected, Holding
<1>13. Reported(k, guard[c])
  BY <1>0, <1>1, <1>5, NoneIsNone DEF Reported, Holding
<1>14. Told(k, guard[c])
  BY <1>5, NoneIsNone DEF Told
<1>15. ASSUME NEW d \in Calls PROVE Recorded(call'[d], guard'[d], records', emptied')
  <2>1. CASE d = c
    BY <1>5, <1>6, <1>7, <1>9, <2>1 DEF Recorded
  <2>2. CASE d # c
    <3>1. call'[d] = call[d] /\ guard'[d] = guard[d] /\ Recorded(call[d], guard[d], records, emptied)
      BY <1>6, <2>2, CallFacts DEF Alone
    <3>2. SUFFICES ASSUME call[d].pc = "ready" \/ call[d].result = "serving" \/ (call[d].outcome = "serving" /\ ~call[d].noop),
                          Template[call[d].seat] = "bare-command", call[d].bridge \notin emptied'
                   PROVE  records'[call[d].bridge][call[d].seat] >= guard[d].pid
      BY <3>1 DEF Recorded
    <3>3. call[d].seat \in Seats /\ call[d].bridge \in Bridges /\ (call[d].pc \in Holding \/ call[d].outcome = "serving")
      <4>1. Connected(call[d], guard[d]) /\ Reported(call[d], guard[d]) /\ Told(call[d], guard[d])
        BY CallFacts
      <4> QED
        BY <3>2, <4>1, NoneIsNone DEF Connected, Reported, Told, Holding
    <3>4. CASE call[d].bridge # call[c].bridge \/ call[d].seat # call[c].seat
      <4>1. records'[call[d].bridge][call[d].seat] = records[call[d].bridge][call[d].seat]
        BY <1>9, <1>19, <3>2, <3>3, <3>4
      <4> QED
        BY <1>19, <3>1, <3>2, <4>1 DEF Recorded
    <3>5. CASE call[d].bridge = call[c].bridge /\ call[d].seat = call[c].seat
      <4>1. call[d].pc \notin Holding
        BY <1>1, <2>2, <3>5 DEF ControlInd, LocalLockIsHeldOnce
      <4>2. LaterIsGreater(d, c)
        BY <2>2 DEF ControlInd
      <4>3. guard[c].pid >= guard[d].pid
        BY <1>1, <3>3, <3>5, <4>1, <4>2 DEF LaterIsGreater
      <4> QED
        BY <1>9, <3>5, <4>3
    <3> QED
      BY <3>4, <3>5
  <2> QED
    BY <2>1, <2>2
<1>16. /\ ServesAsBefore(call'[c], guard'[c], call[c], guard[c])
       /\ LaunchedAsBefore(call'[c], guard'[c], call[c], guard[c], instance')
       /\ Session(call'[c], guard'[c]) /\ Named(guard'[c], instance')
       /\ call'[c].bridge = call[c].bridge
  BY <1>0, <1>5, <1>6, <1>10, <1>12, <1>13, <1>14, NoneIsNone DEF ServesAsBefore, LaunchedAsBefore, Session
<1>17. /\ runs' \in 0..MaxRuns /\ faults' \in 0..MaxFaults /\ \A s \in Seats : instance[s] <= instance'[s]
       /\ service' \in [Seats -> {"down", "loading", "ready"}]
       /\ instance' \in [Seats -> Nat] /\ restarts' \in [Seats -> Nat] /\ guard' \in [Calls -> GuardStates]
  <2>1. \A s \in Seats : instance[s] \in Nat
    BY <1>0
  <2> QED
    BY <1>0, <1>1, <1>6, <1>10, <1>19, <2>1
<1>18. ~Held(guard'[c]) \/ (Held(guard[c]) /\ guard'[c].bridge = guard[c].bridge)
  BY <1>6
<1> QED
  BY <1>1, <1>6, <1>9, <1>11, <1>15, <1>16, <1>17, <1>18, <1>19, OneStep

\* A state file that is found damaged loses its records, and is known to have lost them.
LEMMA LoadFailsFacts ==
    ASSUME ControlInd, NEW b \in Bridges, LoadFails(b)
    PROVE  /\ records' \in [Bridges -> [Seats -> Nat]] /\ emptied' \subseteq Bridges /\ faults' \in 0..MaxFaults
           /\ \A a \in Bridges, s \in Seats : records'[a][s] <= instance[s]
           /\ \A d \in Calls : Recorded(call[d], guard[d], records', emptied')
<1>0. /\ records \in [Bridges -> [Seats -> Nat]] /\ emptied \subseteq Bridges /\ faults \in 0..MaxFaults
      /\ instance \in [Seats -> Nat] /\ \A a \in Bridges, s \in Seats : records[a][s] <= instance[s]
  BY DEF ControlInd, TypeOK
<1>1. /\ records' = [records EXCEPT ![b] = NoRecords] /\ emptied' = emptied \cup {b}
      /\ faults < MaxFaults /\ faults' = faults + 1
  BY DEF LoadFails, _quarantine_locked
<1>2. NoRecords \in [Seats -> Nat] /\ \A s \in Seats : NoRecords[s] = 0 /\ instance[s] \in Nat
  BY <1>0 DEF NoRecords
<1>3. /\ records' \in [Bridges -> [Seats -> Nat]] /\ emptied' \subseteq Bridges /\ faults' \in 0..MaxFaults
      /\ records'[b] = NoRecords /\ \A a \in Bridges : a # b => records'[a] = records[a]
  BY <1>0, <1>1, <1>2
<1>4. \A a \in Bridges, s \in Seats : records'[a][s] <= instance[s]
  BY <1>0, <1>2, <1>3
<1>5. ASSUME NEW d \in Calls PROVE Recorded(call[d], guard[d], records', emptied')
  <2>1. /\ Connected(call[d], guard[d]) /\ Reported(call[d], guard[d]) /\ Told(call[d], guard[d])
        /\ Recorded(call[d], guard[d], records, emptied)
    BY CallFacts
  <2>2. SUFFICES ASSUME call[d].pc = "ready" \/ call[d].result = "serving" \/ (call[d].outcome = "serving" /\ ~call[d].noop),
                        Template[call[d].seat] = "bare-command", call[d].bridge \notin emptied'
                 PROVE  records'[call[d].bridge][call[d].seat] >= guard[d].pid
    BY DEF Recorded
  <2>3. call[d].bridge \in Bridges
    BY <2>1, <2>2, NoneIsNone DEF Connected, Reported, Told, Holding
  <2>4. call[d].bridge # b /\ call[d].bridge \notin emptied
    BY <1>1, <2>2
  <2> QED
    BY <1>3, <2>1, <2>2, <2>3, <2>4 DEF Recorded
<1> QED
  BY <1>3, <1>4, <1>5

\* A call ends with an exception: nobody will write to its guard any more.
LEMMA RaiseStep ==
    ASSUME ControlInd, NEW c \in Calls, Return(c, "raised"), call[c].pc \in {"lock"} \cup Holding,
           guard' \in [Calls -> GuardStates], Alone(guard', guard, c),
           guard'[c].at = guard[c].at, guard'[c].op = guard[c].op, guard'[c].seat = guard[c].seat,
           guard'[c].rc = guard[c].rc, guard'[c].pid = guard[c].pid, guard'[c].code = guard[c].code,
           guard'[c].bridge = guard[c].bridge, guard'[c].stdin = guard[c].stdin,
           guard'[c].at = "none" \/ ~guard'[c].tended,
           guard[c].at = "none" \/ (call[c].op = "start" /\ Template[call[c].seat] # "control-script"),
           UNCHANGED <<host, runs>>, UNCHANGED <<file, faults>> \/ LoadFails(call[c].bridge)
    PROVE  ControlInd'
<1>0. /\ faults \in 0..MaxFaults /\ runs \in 0..MaxRuns /\ guard[c] \in GuardStates
      /\ service \in [Seats -> {"down", "loading", "ready"}]
      /\ instance \in [Seats -> Nat] /\ restarts \in [Seats -> Nat] /\ records \in [Bridges -> [Seats -> Nat]]
      /\ emptied \subseteq Bridges /\ \A b \in Bridges, s \in Seats : records[b][s] <= instance[s]
      /\ Connected(call[c], guard[c]) /\ Reported(call[c], guard[c]) /\ Named(guard[c], instance)
  BY CallFacts
<1>1. "raised" \in Outcomes /\ call[c].bridge \in Bridges
  BY HoldingFacts DEF Outcomes
<1>2. /\ call' \in [Calls -> CallStates] /\ Alone(call', call, c)
      /\ call'[c].pc = "done" /\ call'[c].outcome = "raised" /\ call'[c].trailer = None /\ call'[c].result = None
      /\ call'[c].op = call[c].op /\ call'[c].seat = call[c].seat /\ call'[c].bridge = call[c].bridge
  BY <1>1, ReturnFacts
<1>3. service' = service /\ instance' = instance /\ restarts' = restarts /\ runs' = runs
  BY DEF host
<1>4. /\ records' \in [Bridges -> [Seats -> Nat]] /\ emptied' \subseteq Bridges /\ faults' \in 0..MaxFaults
      /\ \A a \in Bridges, s \in Seats : records'[a][s] <= instance[s]
      /\ \A d \in Calls : Recorded(call[d], guard[d], records', emptied')
  <2>1. CASE UNCHANGED <<file, faults>>
    <3>1. records' = records /\ emptied' = emptied /\ faults' = faults
      BY <2>1 DEF file
    <3>2. \A d \in Calls : Recorded(call[d], guard[d], records, emptied)
      BY CallFacts
    <3> QED
      BY <1>0, <3>1, <3>2
  <2>2. CASE LoadFails(call[c].bridge)
    BY <1>1, <2>2, LoadFailsFacts
  <2> QED
    BY <2>1, <2>2
<1>5. Connected(call'[c], guard'[c])
  BY <1>0, <1>2 DEF Connected, Holding
<1>6. Reported(call'[c], guard'[c])
  BY <1>0, <1>2, NoneIsNone DEF Reported, Holding
<1>7. Told(call'[c], guard'[c])
  BY <1>2, NoneIsNone DEF Told
<1>8. Recorded(call'[c], guard'[c], records', emptied') /\ Named(guard'[c], instance')
  BY <1>0, <1>2, <1>3, NoneIsNone DEF Recorded, Named
<1>9. \A d \in Calls : Recorded(call'[d], guard'[d], records', emptied')
  BY <1>2, <1>4, <1>8 DEF Alone
<1>10. /\ ServesAsBefore(call'[c], guard'[c], call[c], guard[c]) /\ LaunchedAsBefore(call'[c], guard'[c], call[c], guard[c], instance')
       /\ (~Held(guard'[c]) \/ Held(guard[c])) /\ call'[c].pc \notin Holding /\ Session(call'[c], guard'[c])
  BY <1>2, <1>5, <1>6, <1>7, NoneIsNone DEF ServesAsBefore, LaunchedAsBefore, Held, Holding, Session
<1>11. /\ service' \in [Seats -> {"down", "loading", "ready"}] /\ instance' \in [Seats -> Nat]
       /\ restarts' \in [Seats -> Nat] /\ runs' \in 0..MaxRuns
       /\ \A s \in Seats : instance[s] <= instance'[s]
       /\ \A a \in Bridges, s \in Seats : records'[a][s] <= instance'[s]
  <2>1. \A s \in Seats : instance[s] \in Nat
    BY <1>0
  <2> QED
    BY <1>0, <1>3, <1>4, <2>1
<1> QED
  BY <1>2, <1>4, <1>8, <1>9, <1>10, <1>11, OneStep

LEMMA RaiseSteps ==
    ASSUME ControlInd, NEW c \in Calls, RecordUnread(c) \/ ReconcileRaises(c)
    PROVE  ControlInd'
<1>0. guard \in [Calls -> GuardStates] /\ guard[c] \in GuardStates
  BY CallFacts
<1>1. CASE RecordUnread(c)
  <2>1. /\ call[c].pc = "lock" /\ LoadFails(call[c].bridge) /\ Return(c, "raised") /\ guard' = guard
        /\ UNCHANGED <<host, runs>> /\ Alone(guard', guard, c)
    BY <1>1 DEF RecordUnread, Alone
  <2>2. guard[c].at = "none"
    BY <2>1, HoldingFacts
  <2> QED
    BY <1>0, <2>1, <2>2, RaiseStep
<1>2. CASE ReconcileRaises(c)
  <2> DEFINE g == [guard[c] EXCEPT !.tended = FALSE]
  <2>1. /\ TrailerSeen(c) /\ call[c].op = "start" /\ Template[call[c].seat] # "control-script"
        /\ UNCHANGED <<file, faults>> \/ LoadFails(call[c].bridge)
        /\ Return(c, "raised") /\ guard' = [guard EXCEPT ![c] = g] /\ UNCHANGED <<host, runs>>
    BY <1>0, <1>2 DEF ReconcileRaises, BareStart, TemplateOf
  <2>2. call[c].pc \in Holding
    BY <2>1, TrailerFacts
  <2>3. g \in GuardStates
    BY <1>0 DEF GuardStates
  <2>4. /\ g.at = guard[c].at /\ g.op = guard[c].op /\ g.seat = guard[c].seat /\ g.rc = guard[c].rc
        /\ g.code = guard[c].code /\ g.pid = guard[c].pid /\ g.bridge = guard[c].bridge
        /\ g.stdin = guard[c].stdin /\ ~g.tended
    BY <1>0 DEF GuardStates
  <2> HIDE DEF g
  <2>5. guard'[c] = g /\ guard' \in [Calls -> GuardStates] /\ Alone(guard', guard, c)
    BY <1>0, <2>1, <2>3 DEF Alone
  <2> QED
    BY <2>1, <2>2, <2>4, <2>5, RaiseStep
<1> QED
  BY <1>1, <1>2

\* What the outcome of a session says.
LEMMA FinalizeFacts ==
    ASSUME ControlInd, NEW c \in Calls, NEW code, NEW trailer, NEW o \in _finalize(c, code, trailer)
    PROVE  /\ o \in {"refused", "serving", "dormant", "error", "indeterminate"}
           /\ o = "refused" => code \in GuardCodes
           /\ o = "serving" => call[c].noop \/ call[c].result = "serving"
           /\ code = None /\ trailer = None => o = "indeterminate"
<1>0. call[c] \in CallStates
  BY CallFacts
<1>1. call[c].result \in {"serving", "dormant", "error", "indeterminate", None}
  BY <1>0 DEF CallStates
<1>2. _final_state(c) \subseteq {"serving", "dormant", "error", "indeterminate"}
      /\ ("serving" \in _final_state(c) => call[c].result = "serving")
  <2>1. CASE call[c].op = "start" /\ call[c].result = "serving"
    <3>1. _final_state(c) = {IF IsSole(c, seen) THEN "serving" ELSE "indeterminate" : seen \in Poll}
      BY <2>1, NoneIsNone DEF _final_state
    <3> QED
      BY <2>1, <3>1
  <2>2. CASE call[c].result = None
    BY <2>2, NoneIsNone DEF _final_state
  <2>3. CASE ~(call[c].op = "start" /\ call[c].result = "serving") /\ call[c].result # None
    <3>1. _final_state(c) = {call[c].result}
      BY <2>3 DEF _final_state
    <3> QED
      BY <1>1, <2>3, <3>1
  <2> QED
    BY <2>1, <2>2, <2>3
<1>3. CASE code \in {"BUSY", "UNAVAILABLE"}
  BY <1>3, NoneIsNone DEF _finalize, GuardCodes
<1>4. CASE code \in {"GATE_REFUSED", "GATE_TIMEOUT"}
  BY <1>4, NoneIsNone DEF _finalize, GuardCodes
<1>5. CASE code \notin GuardCodes /\ trailer = None
  BY <1>5, NoneIsNone DEF _finalize, GuardCodes
<1>6. CASE code \notin GuardCodes /\ trailer # None
  <2>1. _finalize(c, code, trailer) = IF trailer = "ok" THEN _final_state(c) ELSE {"error"}
    BY <1>6 DEF _finalize, GuardCodes
  <2> QED
    BY <1>2, <1>6, <2>1
<1> QED
  BY <1>3, <1>4, <1>5, <1>6 DEF GuardCodes

\* A controller returns with its verdict: the operation is over, or it says nothing.
LEMMA VerdictStep ==
    ASSUME ControlInd, NEW c \in Calls, NEW o \in {"refused", "serving", "dormant", "error", "indeterminate"},
           Return(c, o), call[c].pc \in Holding,
           guard' \in [Calls -> GuardStates], Alone(guard', guard, c),
           guard'[c].at = guard[c].at, guard'[c].op = guard[c].op, guard'[c].seat = guard[c].seat,
           guard'[c].rc = guard[c].rc, guard'[c].pid = guard[c].pid, guard'[c].code = guard[c].code,
           guard'[c].bridge = guard[c].bridge,
           guard'[c].at = "exited" \/ ~guard'[c].tended, guard'[c].at = "exited" => guard'[c] = guard[c],
           call[c].ssh = "up" /\ guard[c].at # "exited" => o = "indeterminate",
           o \in {"serving", "dormant", "error"} => guard[c].at \in {"release", "exited"},
           o = "refused" => guard[c].at = "exited" /\ guard[c].rc # "ok",
           o = "serving" => call[c].noop \/ call[c].result = "serving",
           UNCHANGED <<host, file, runs, faults>>
    PROVE  ControlInd'
<1>0. /\ faults \in 0..MaxFaults /\ Recorded(call[c], guard[c], records, emptied)
      /\ Connected(call[c], guard[c]) /\ Reported(call[c], guard[c])
  BY CallFacts
<1>1. o \in Outcomes
  BY DEF Outcomes
<1>2. /\ call' \in [Calls -> CallStates] /\ Alone(call', call, c)
      /\ call'[c].pc = "done" /\ call'[c].outcome = o /\ call'[c].trailer = None /\ call'[c].result = None
      /\ call'[c].op = call[c].op /\ call'[c].seat = call[c].seat /\ call'[c].bridge = call[c].bridge
      /\ call'[c].noop = call[c].noop /\ call'[c].ssh = call[c].ssh
  BY <1>1, ReturnFacts
<1>3. Connected(call'[c], guard'[c])
  BY <1>0, <1>2 DEF Connected, Holding
<1>4. Reported(call'[c], guard'[c])
  BY <1>0, <1>2, NoneIsNone DEF Reported, Holding
<1>5. Told(call'[c], guard'[c])
  BY <1>0, <1>2, NoneIsNone DEF Told, Connected
<1>6. Recorded(call'[c], guard'[c], records, emptied)
  BY <1>0, <1>2, NoneIsNone DEF Recorded
<1>7. Session(call'[c], guard'[c]) /\ call'[c].pc # "operating" /\ UNCHANGED <<host, file, runs>>
      /\ faults' \in 0..MaxFaults
  BY <1>0, <1>2, <1>3, <1>4, <1>5 DEF Session
<1> QED
  BY <1>2, <1>6, <1>7, ClientStep

LEMMA SeeExitStep ==
    ASSUME ControlInd, NEW c \in Calls, SeeExit(c)
    PROVE  ControlInd'
<1>0. /\ guard \in [Calls -> GuardStates] /\ Connected(call[c], guard[c]) /\ Reported(call[c], guard[c])
  BY CallFacts
<1>1. call[c].pc \in Holding /\ guard' = guard /\ Alone(guard', guard, c) /\ UNCHANGED <<host, file, runs, faults>>
  BY DEF SeeExit, Waiting, Holding, Alone
<1>2. CASE call[c].ssh = "up" /\ guard[c].at = "exited"
  <2>1. PICK o \in _finalize(c, guard[c].code, guard[c].rc) : Return(c, o)
    BY <1>2 DEF SeeExit
  <2>2. /\ o \in {"refused", "serving", "dormant", "error", "indeterminate"}
        /\ o = "refused" => guard[c].code \in GuardCodes
        /\ o = "serving" => call[c].noop \/ call[c].result = "serving"
    BY FinalizeFacts
  <2>3. o = "refused" => guard[c].rc # "ok"
    BY <1>0, <1>1, <1>2, <2>2, NoneIsNone DEF Reported, Connected
  <2> QED
    BY <1>0, <1>1, <1>2, <2>1, <2>2, <2>3, VerdictStep
<1>3. CASE call[c].ssh = "lost"
  <2>1. PICK o \in _finalize(c, None, call[c].trailer) : Return(c, o)
    BY <1>3 DEF SeeExit
  <2>2. /\ o \in {"refused", "serving", "dormant", "error", "indeterminate"}
        /\ o # "refused" /\ (call[c].trailer = None => o = "indeterminate")
        /\ o = "serving" => call[c].noop \/ call[c].result = "serving"
    BY FinalizeFacts, NoneIsNone
  <2>3. o \in {"serving", "dormant", "error"} => guard[c].at \in {"release", "exited"}
    BY <1>0, <2>2 DEF Reported
  <2>4. guard[c].at = "exited" \/ ~guard[c].tended
    BY <1>0, <1>1, <1>3 DEF Connected
  <2> QED
    BY <1>0, <1>1, <1>3, <2>1, <2>2, <2>3, <2>4, VerdictStep
<1>4. CASE call[c].ssh = "ended"
  <2>1. PICK o \in _finalize(c, None, guard[c].rc) : Return(c, o)
    BY <1>4 DEF SeeExit
  <2>2. /\ o \in {"refused", "serving", "dormant", "error", "indeterminate"} /\ o # "refused"
        /\ o = "serving" => call[c].noop \/ call[c].result = "serving"
    BY FinalizeFacts, NoneIsNone
  <2>3. guard[c].at \in {"none", "flock", "gate", "running", "release", "exited"}
    BY CallFacts DEF GuardStates
  <2>4. guard[c].at \in {"release", "exited"}
    BY <1>0, <1>1, <1>4, <2>3 DEF Reported
  <2>5. guard[c].at = "exited" \/ ~guard[c].tended
    BY <1>0, <1>1, <1>4, <2>4 DEF Connected
  <2> QED
    BY <1>0, <1>1, <1>4, <2>1, <2>2, <2>4, <2>5, VerdictStep
<1> QED
  BY <1>2, <1>3, <1>4 DEF SeeExit

LEMMA DeadlineStep ==
    ASSUME ControlInd, NEW c \in Calls, Deadline(c)
    PROVE  ControlInd'
<1>0. guard \in [Calls -> GuardStates] /\ Connected(call[c], guard[c])
  BY CallFacts
<1>1. /\ call[c].pc \in Holding /\ Return(c, "indeterminate") /\ UNCHANGED <<host, file, runs, faults>>
  BY DEF Deadline, Waiting, Holding
<1>2. PICK late \in BOOLEAN : guard' = [guard EXCEPT ![c] = Untended(guard[c], late)]
  BY DEF Deadline
<1> DEFINE g == Untended(guard[c], late)
<1>3. /\ g \in GuardStates /\ g.at = guard[c].at /\ g.op = guard[c].op /\ g.seat = guard[c].seat
      /\ g.rc = guard[c].rc /\ g.code = guard[c].code /\ g.pid = guard[c].pid /\ g.bridge = guard[c].bridge
      /\ g.at \in {"none", "exited"} => g = guard[c]
      /\ g.at \notin {"none", "exited"} => ~g.tended
  BY UntendedFacts
<1> HIDE DEF g
<1>4. guard'[c] = g /\ guard' \in [Calls -> GuardStates] /\ Alone(guard', guard, c)
  BY <1>0, <1>2, <1>3 DEF g, Alone
<1>5. g.at = "exited" \/ ~g.tended
  BY <1>0, <1>1, <1>3 DEF Connected
<1> QED
  BY <1>1, <1>3, <1>4, <1>5, VerdictStep

LEMMA LoseStep ==
    ASSUME ControlInd, NEW c \in Calls, LoseConnection(c)
    PROVE  ControlInd'
<1>0. /\ call \in [Calls -> CallStates] /\ call[c] \in CallStates /\ faults \in 0..MaxFaults
      /\ guard \in [Calls -> GuardStates]
      /\ Connected(call[c], guard[c]) /\ Reported(call[c], guard[c]) /\ Told(call[c], guard[c])
      /\ Recorded(call[c], guard[c], records, emptied)
  BY CallFacts
<1>1. /\ call[c].pc \in Holding /\ call[c].ssh = "up" /\ UNCHANGED <<host, file, runs>>
      /\ faults < MaxFaults /\ faults' = faults + 1
  BY DEF LoseConnection, Holding
<1>12. PICK end \in {"lost", "ended"} :
         call' = [call EXCEPT ![c].ssh = end] /\ (end = "ended" => guard[c].rc # None)
  BY DEF LoseConnection
<1>13. PICK late \in BOOLEAN : guard' = [guard EXCEPT ![c] = Untended(guard[c], late)]
  BY DEF LoseConnection
<1> DEFINE k == [call[c] EXCEPT !.ssh = end]
           g == Untended(guard[c], late)
<1>2. call' = [call EXCEPT ![c] = k]
  BY <1>0, <1>12
<1>3. k \in CallStates
  BY <1>0 DEF CallStates
<1>4. /\ k.pc = call[c].pc /\ k.op = call[c].op /\ k.seat = call[c].seat /\ k.bridge = call[c].bridge
      /\ k.ssh = end /\ k.noop = call[c].noop /\ k.trailer = call[c].trailer /\ k.result = call[c].result
      /\ k.outcome = call[c].outcome
  BY <1>0 DEF CallStates
<1> HIDE DEF k
<1>5. call'[c] = k /\ call' \in [Calls -> CallStates] /\ Alone(call', call, c)
  BY <1>0, <1>2, <1>3 DEF Alone
<1>6. /\ g \in GuardStates /\ g.at = guard[c].at /\ g.op = guard[c].op /\ g.seat = guard[c].seat
      /\ g.rc = guard[c].rc /\ g.code = guard[c].code /\ g.pid = guard[c].pid /\ g.bridge = guard[c].bridge
      /\ g.at \in {"none", "exited"} => g = guard[c]
      /\ g.at \notin {"none", "exited"} => ~g.tended
      /\ g.stdin \in {guard[c].stdin, "closed"}
  BY UntendedFacts
<1> HIDE DEF g
<1>14. guard'[c] = g /\ guard' \in [Calls -> GuardStates] /\ Alone(guard', guard, c)
  BY <1>0, <1>13, <1>6 DEF g, Alone
<1>7. Connected(k, g)
  BY <1>0, <1>1, <1>4, <1>6 DEF Connected, Holding
<1>8. Reported(k, g)
  BY <1>0, <1>1, <1>4, <1>6, <1>12 DEF Reported, Holding
<1>9. Told(k, g) /\ Recorded(k, g, records, emptied)
  BY <1>0, <1>1, <1>4, <1>6 DEF Told, Recorded, Holding
<1>10. faults' \in 0..MaxFaults
  BY <1>0, <1>1
<1>11. /\ Session(call'[c], guard'[c]) /\ Recorded(call'[c], guard'[c], records, emptied)
       /\ call'[c].bridge = call[c].bridge /\ call'[c].seat = call[c].seat /\ call'[c].op = call[c].op
       /\ call'[c].pc = call[c].pc
  BY <1>4, <1>5, <1>7, <1>8, <1>9, <1>14 DEF Session
<1> QED
  BY <1>1, <1>5, <1>6, <1>10, <1>11, <1>14, ClientStep

\* A request that is over leaves a guard behind only if nobody tends it.
LEMMA RespondStep ==
    ASSUME ControlInd, NEW c \in Calls, Respond(c)
    PROVE  ControlInd'
<1>0. /\ call \in [Calls -> CallStates] /\ guard \in [Calls -> GuardStates] /\ guard[c] \in GuardStates
      /\ runs \in 0..MaxRuns /\ faults \in 0..MaxFaults
      /\ Connected(call[c], guard[c]) /\ Reported(call[c], guard[c]) /\ Named(guard[c], instance)
  BY CallFacts
<1> DEFINE g == Forgotten(guard[c])
<1>1. /\ call' = [call EXCEPT ![c] = Idle] /\ guard' = [guard EXCEPT ![c] = g]
      /\ UNCHANGED <<host, file, runs, faults>> /\ call[c].pc = "done"
  BY <1>0 DEF Respond
<1>2. /\ g \in GuardStates /\ g.at # "exited" /\ (g.at = "none" \/ ~g.tended)
      /\ g.at \in {"none", "flock", "gate", "running"} => g.rc = None
      /\ ~Held(g) \/ (Held(guard[c]) /\ g.bridge = guard[c].bridge)
  BY <1>0, <1>1, Unstarted DEF Connected, Reported, Holding, Held, Forgotten
<1>3. Named(g, instance)
  BY <1>0, Unstarted DEF Named, Forgotten
<1> HIDE DEF g
<1>4. /\ call'[c] = Idle /\ call' \in [Calls -> CallStates] /\ Alone(call', call, c)
      /\ guard'[c] = g /\ guard' \in [Calls -> GuardStates] /\ Alone(guard', guard, c)
  BY <1>0, <1>1, <1>2, Unstarted DEF Alone
<1>5. Connected(Idle, g)
  BY <1>2, Unstarted DEF Connected, Holding
<1>6. Reported(Idle, g) /\ Told(Idle, g)
  BY <1>2, Unstarted, NoneIsNone DEF Reported, Told, Holding
<1>7. Recorded(Idle, g, records, emptied) /\ Idle.pc \notin Holding
  BY Unstarted, NoneIsNone DEF Recorded, Holding
<1>8. ServesAsBefore(Idle, g, call[c], guard[c]) /\ LaunchedAsBefore(Idle, g, call[c], guard[c], instance)
  BY Unstarted, NoneIsNone DEF ServesAsBefore, LaunchedAsBefore
<1>9. Session(Idle, g) /\ runs' \in 0..MaxRuns /\ faults' \in 0..MaxFaults /\ UNCHANGED <<host, file>>
  BY <1>0, <1>1, <1>5, <1>6 DEF Session
<1> QED
  BY <1>2, <1>3, <1>4, <1>7, <1>8, <1>9, SessionStep

LEMMA ClientSteps ==
    ASSUME ControlInd, NEW c \in Calls, Client(c)
    PROVE  ControlInd'
<1>1. CASE LocalContention(c)
  BY <1>1, ReturnUnconnected DEF LocalContention
<1> QED
  BY <1>1, ConnectStep, PollStep, PersistStep, ReconcileStep, RaiseSteps, SeeExitStep, DeadlineStep, RespondStep DEF Client

-----------------------------------------------------------------------------
(***************************************************************************)
(* Bridges that die, and the services.                                     *)
(***************************************************************************)
\* What a bridge that dies leaves of one of its calls, or of a guard of one.
LEMMA LeftBehind ==
    ASSUME ControlInd, NEW c \in Calls, NEW g \in GuardStates,
           g = NoGuard \/ /\ g.at = guard[c].at /\ g.op = guard[c].op /\ g.seat = guard[c].seat
                          /\ g.rc = guard[c].rc /\ g.pid = guard[c].pid
                          /\ g.at = "exited" => g = guard[c],
           g.at \in {"none", "exited"} \/ ~g.tended
    PROVE  /\ Session(Idle, g) /\ Named(g, instance) /\ Recorded(Idle, g, records, emptied)
           /\ call[c].pc = "idle" => Session(call[c], g) /\ Recorded(call[c], g, records, emptied)
<1>0. /\ Connected(call[c], guard[c]) /\ Reported(call[c], guard[c]) /\ Told(call[c], guard[c])
      /\ Named(guard[c], instance) /\ g.at \in {"none", "flock", "gate", "running", "release", "exited"}
  BY CallFacts DEF GuardStates
<1>1. Named(g, instance)
  BY <1>0, Unstarted DEF Named
<1>2. ASSUME NEW k, k.pc = "idle", k.outcome = None, k.trailer = None, k.result = None
      PROVE  Session(k, g) /\ Recorded(k, g, records, emptied)
  <2>1. Connected(k, g)
    BY <1>0, <1>2 DEF Connected, Holding
  <2>2. Reported(k, g)
    BY <1>0, <1>2, Unstarted, NoneIsNone DEF Reported, Holding
  <2>3. Told(k, g) /\ Recorded(k, g, records, emptied)
    BY <1>2, NoneIsNone DEF Told, Recorded
  <2> QED
    BY <2>1, <2>2, <2>3 DEF Session
<1>3. call[c].pc = "idle" => call[c].outcome = None /\ call[c].trailer = None /\ call[c].result = None
  BY <1>0 DEF Reported, Told
<1> QED
  BY <1>1, <1>2, <1>3, Unstarted

LEMMA BridgeCrashStep ==
    ASSUME ControlInd, NEW b \in Bridges, BridgeCrash(b)
    PROVE  ControlInd'
<1>0. /\ TypeOK /\ RemoteLockIsHeldOnce /\ LocalLockIsHeldOnce
      /\ \A d, f \in Calls : d # f => LaterIsGreater(d, f)
  BY DEF ControlInd
<1> DEFINE lost == {c \in Calls : call[c].bridge = b}
           cut == {c \in Calls : guard[c].bridge = b}
<1>10. PICK late \in SUBSET cut :
         guard' = [c \in Calls |-> IF c \in cut THEN Forgotten(Untended(guard[c], c \in late)) ELSE guard[c]]
  BY DEF BridgeCrash
<1> DEFINE K(c) == IF c \in lost THEN Idle ELSE call[c]
           G(c) == IF c \in cut THEN Forgotten(Untended(guard[c], c \in late)) ELSE guard[c]
<1>1. /\ call' = [c \in Calls |-> K(c)] /\ guard' = [c \in Calls |-> G(c)]
      /\ UNCHANGED <<host, file, runs>> /\ faults < MaxFaults /\ faults' = faults + 1
  BY <1>10 DEF BridgeCrash
<1>2. ASSUME NEW c \in Calls
      PROVE  /\ K(c) \in CallStates /\ G(c) \in GuardStates
             /\ Held(G(c)) => Held(guard[c]) /\ G(c).bridge = guard[c].bridge
             /\ \/ K(c) = call[c] /\ G(c) = guard[c]
                \/ K(c) = Idle \/ (K(c) = call[c] /\ call[c].pc = "idle")
             /\ Session(K(c), G(c)) /\ Named(G(c), instance) /\ Recorded(K(c), G(c), records, emptied)
  <2>1. /\ call[c] \in CallStates /\ guard[c] \in GuardStates /\ Connected(call[c], guard[c])
        /\ Session(call[c], guard[c]) /\ Named(guard[c], instance) /\ Recorded(call[c], guard[c], records, emptied)
    BY CallFacts DEF Session
  <2> DEFINE u == Untended(guard[c], c \in late)
  <2>2. /\ u \in GuardStates /\ u.at = guard[c].at /\ u.op = guard[c].op /\ u.seat = guard[c].seat
        /\ u.rc = guard[c].rc /\ u.code = guard[c].code /\ u.pid = guard[c].pid /\ u.bridge = guard[c].bridge
        /\ u.at \in {"none", "exited"} => u = guard[c]
        /\ u.at \notin {"none", "exited"} => ~u.tended
    <3>1. (c \in late) \in BOOLEAN
      OBVIOUS
    <3> QED
      BY <3>1, UntendedFacts
  <2>3. call[c].pc \in {"idle", "lock", "locking", "operating", "ready", "closing", "done"}
    BY <2>1 DEF CallStates
  <2>4. CASE c \notin lost /\ c \notin cut
    BY <2>1, <2>4
  <2>5. CASE c \in cut
    <3>1. G(c) = Forgotten(u) /\ guard[c].bridge = b
      BY <2>5
    <3> HIDE DEF u, G
    <3>2. \/ G(c) = NoGuard
          \/ G(c) = u /\ u.at # "exited"
      BY <3>1 DEF Forgotten
    <3>3. /\ G(c) \in GuardStates /\ (G(c).at \in {"none", "exited"} \/ ~G(c).tended)
          /\ Held(G(c)) => Held(guard[c]) /\ G(c).bridge = guard[c].bridge
          /\ \/ G(c) = NoGuard
             \/ /\ G(c).at = guard[c].at /\ G(c).op = guard[c].op /\ G(c).seat = guard[c].seat
                /\ G(c).rc = guard[c].rc /\ G(c).pid = guard[c].pid /\ (G(c).at = "exited" => G(c) = guard[c])
      BY <2>2, <3>2, Unstarted DEF Held
    <3>4. /\ Session(Idle, G(c)) /\ Named(G(c), instance) /\ Recorded(Idle, G(c), records, emptied)
          /\ call[c].pc = "idle" => Session(call[c], G(c)) /\ Recorded(call[c], G(c), records, emptied)
      BY <3>3, LeftBehind
    <3>5. CASE c \in lost
      <4>1. K(c) = Idle
        BY <3>5
      <4> HIDE DEF K
      <4> QED
        BY <3>3, <3>4, <4>1, Unstarted
    <3>6. CASE c \notin lost
      <4>1. K(c) = call[c] /\ call[c].bridge # b
        BY <3>6
      <4>2. CASE guard[c].at = "none"
        <5>1. G(c) = guard[c]
          BY <2>2, <3>1, <4>2 DEF Forgotten
        <5> HIDE DEF K
        <5> QED
          BY <2>1, <4>1, <5>1
      <4>3. CASE guard[c].at # "none"
        <5>1. call[c].pc = "idle"
          BY <2>1, <2>3, <3>1, <4>1, <4>3 DEF Connected, Holding
        <5> HIDE DEF K
        <5> QED
          BY <2>1, <3>3, <3>4, <4>1, <5>1
      <4> QED
        BY <4>2, <4>3
    <3> QED
      BY <3>5, <3>6
  <2>6. CASE c \in lost /\ c \notin cut
    <3>1. K(c) = Idle /\ G(c) = guard[c] /\ call[c].bridge = b /\ guard[c].bridge # b
      BY <2>6
    <3> HIDE DEF K, G
    <3>2. guard[c].at \in {"none", "exited"} \/ ~guard[c].tended
      BY <2>1, <2>3, <3>1 DEF Connected, Holding
    <3>3. Session(Idle, guard[c]) /\ Recorded(Idle, guard[c], records, emptied)
      BY <2>1, <3>2, LeftBehind
    <3> QED
      BY <2>1, <3>1, <3>3, Unstarted
  <2> QED
    BY <2>4, <2>5, <2>6
<1> HIDE DEF K, G
<1>3. \A c \in Calls : call'[c] = K(c) /\ guard'[c] = G(c)
  BY <1>1
<1>11. /\ service' = service /\ instance' = instance /\ restarts' = restarts /\ records' = records
       /\ emptied' = emptied /\ runs' = runs
  BY <1>1 DEF host, file
<1>4. ASSUME NEW c \in Calls
      PROVE  /\ Session(call'[c], guard'[c]) /\ Named(guard'[c], instance') /\ Recorded(call'[c], guard'[c], records', emptied')
  BY <1>2, <1>3, <1>11
<1>5. TypeOK'
  <2>1. call' \in [Calls -> CallStates] /\ guard' \in [Calls -> GuardStates]
    BY <1>1, <1>2
  <2>2. faults' \in 0..MaxFaults
    BY <1>0, <1>1 DEF TypeOK
  <2>4. \A c \in Calls : guard'[c].at # "none" /\ guard'[c].op # "start"
           /\ Template[guard'[c].seat] = "bare-command" => guard'[c].pid # 0
    BY <1>4 DEF Named
  <2> QED
    BY <1>0, <1>11, <2>1, <2>2, <2>4 DEF TypeOK
<1>6. RemoteLockIsHeldOnce'
  <2>1. \A c \in Calls : Held(guard'[c]) => Held(guard[c]) /\ LockOf(guard'[c]) = LockOf(guard[c])
    BY <1>2, <1>3 DEF LockOf
  <2> QED
    BY <1>0, <2>1 DEF RemoteLockIsHeldOnce
<1>7. \A c \in Calls : call'[c].pc \in Holding \/ call'[c].outcome = "serving" => call'[c] = call[c] /\ guard'[c] = guard[c]
  <2>1. ASSUME NEW c \in Calls, call[c].pc = "idle" PROVE call[c].outcome # "serving"
    BY <2>1, CallFacts, NoneIsNone DEF Told
  <2> QED
    BY <1>2, <1>3, <2>1, Unstarted, NoneIsNone DEF Holding
<1>8. LocalLockIsHeldOnce'
  BY <1>0, <1>7 DEF LocalLockIsHeldOnce
<1>9. ASSUME NEW c \in Calls, NEW d \in Calls, c # d PROVE LaterIsGreater(c, d)'
  <2>1. LaterIsGreater(c, d)
    BY <1>0, <1>9
  <2> QED
    BY <1>7, <2>1 DEF LaterIsGreater, Holding
<1> QED
  BY <1>4, <1>5, <1>6, <1>8, <1>9 DEF ControlInd

\* The services come and go; nothing else changes.
LEMMA ServiceStep ==
    ASSUME ControlInd, UNCHANGED <<call, guard, instance, file, runs>>, faults' \in 0..MaxFaults,
           service' \in [Seats -> {"down", "loading", "ready"}], restarts' \in [Seats -> Nat]
    PROVE  ControlInd'
<1>0. /\ TypeOK /\ RemoteLockIsHeldOnce /\ LocalLockIsHeldOnce
      /\ \A d, f \in Calls : d # f => LaterIsGreater(d, f)
      /\ \A c \in Calls : /\ Session(call[c], guard[c]) /\ Named(guard[c], instance)
                          /\ Recorded(call[c], guard[c], records, emptied)
  BY DEF ControlInd
<1>5. records' = records /\ emptied' = emptied
  BY DEF file
<1>1. TypeOK'
  BY <1>0, <1>5 DEF TypeOK
<1>2. RemoteLockIsHeldOnce' /\ LocalLockIsHeldOnce'
  BY <1>0 DEF RemoteLockIsHeldOnce, LocalLockIsHeldOnce
<1>3. ASSUME NEW c \in Calls, NEW d \in Calls, c # d PROVE LaterIsGreater(c, d)'
  BY <1>0, <1>3 DEF LaterIsGreater
<1>4. \A c \in Calls : /\ Session(call'[c], guard'[c]) /\ Named(guard'[c], instance')
                       /\ Recorded(call'[c], guard'[c], records', emptied')
  BY <1>0, <1>5
<1> QED
  BY <1>1, <1>2, <1>3, <1>4 DEF ControlInd

LEMMA ServiceSteps ==
    ASSUME ControlInd, NEW s \in Seats, BecomeReady(s) \/ Crash(s)
    PROVE  ControlInd'
<1>0. service \in [Seats -> {"down", "loading", "ready"}] /\ restarts \in [Seats -> Nat] /\ faults \in 0..MaxFaults
  BY DEF ControlInd, TypeOK
<1>1. CASE BecomeReady(s)
  BY <1>0, <1>1, ServiceStep DEF BecomeReady
<1>2. CASE Crash(s)
  <2>1. UNCHANGED <<call, guard, instance, file, runs>> /\ faults < MaxFaults /\ faults' = faults + 1
    BY <1>2 DEF Crash
  <2>2. faults' \in 0..MaxFaults
    BY <1>0, <2>1
  <2>3. service' \in [Seats -> {"down", "loading", "ready"}]
    BY <1>0, <1>2 DEF Crash
  <2>4. restarts' \in [Seats -> Nat]
    <3>1. CASE restarts' = restarts
      BY <1>0, <3>1
    <3>2. CASE \E n \in {restarts[s] + 1, 0} : restarts' = [restarts EXCEPT ![s] = n]
      <4>1. PICK n \in {restarts[s] + 1, 0} : restarts' = [restarts EXCEPT ![s] = n]
        BY <3>2
      <4>2. n \in Nat
        BY <1>0, <4>1
      <4> QED
        BY <1>0, <4>1, <4>2
    <3> QED
      BY <1>2, <3>1, <3>2 DEF Crash
  <2> QED
    BY <2>1, <2>2, <2>3, <2>4, ServiceStep
<1> QED
  BY <1>1, <1>2

LEMMA ControlInit == Init => ControlInd
<1> SUFFICES ASSUME Init PROVE ControlInd
  OBVIOUS
<1>1. /\ call = [c \in Calls |-> Idle] /\ guard = [c \in Calls |-> NoGuard]
      /\ service \in [Seats -> {"down", "ready"}] /\ instance = [s \in Seats |-> 1]
      /\ restarts = [s \in Seats |-> 0] /\ records = [b \in Bridges |-> NoRecords] /\ emptied = {}
      /\ runs = 0 /\ faults = 0
  BY DEF Init
<1>2. \A c \in Calls : call[c] = Idle /\ guard[c] = NoGuard
  BY <1>1
<1>3. TypeOK
  <2>1. call \in [Calls -> CallStates] /\ guard \in [Calls -> GuardStates]
    BY <1>1, Unstarted
  <2>2. /\ service \in [Seats -> {"down", "loading", "ready"}] /\ instance \in [Seats -> Nat]
        /\ restarts \in [Seats -> Nat] /\ records \in [Bridges -> [Seats -> Nat]]
        /\ emptied \subseteq Bridges
    BY <1>1 DEF NoRecords
  <2>3. \A b \in Bridges, s \in Seats : records[b][s] <= instance[s]
    BY <1>1 DEF NoRecords
  <2>4. runs \in 0..MaxRuns /\ faults \in 0..MaxFaults
    BY <1>1
  <2>5. \A c \in Calls : guard[c].at = "none"
    BY <1>2, Unstarted
  <2> QED
    BY <2>1, <2>2, <2>3, <2>4, <2>5 DEF TypeOK
<1>4. Session(Idle, NoGuard) /\ Named(NoGuard, instance) /\ Recorded(Idle, NoGuard, records, emptied)
  BY Unstarted, NoneIsNone DEF Session, Connected, Reported, Told, Named, Recorded, Holding, GuardCodes
<1>5. RemoteLockIsHeldOnce /\ LocalLockIsHeldOnce
  BY <1>2, Unstarted DEF RemoteLockIsHeldOnce, Held, LocalLockIsHeldOnce, Holding
<1>6. \A c, d \in Calls : LaterIsGreater(c, d)
  BY <1>2, Unstarted, NoneIsNone DEF LaterIsGreater
<1> QED
  BY <1>2, <1>3, <1>4, <1>5, <1>6 DEF ControlInd

LEMMA ControlNext == ControlInd /\ [Next]_vars => ControlInd'
<1> SUFFICES ASSUME ControlInd, [Next]_vars PROVE ControlInd'
  OBVIOUS
<1>1. ASSUME NEW c \in Calls,
             Operate(c) \/ RefuseEarly(c) \/ Client(c) \/ Remote(c) \/ Operation(c) \/ LoseConnection(c)
      PROVE  ControlInd'
  BY <1>1, OperateStep, ClientSteps, RemoteStep, OperationStep, LoseStep
<1>2. CASE \E b \in Bridges : BridgeCrash(b)
  BY <1>2, BridgeCrashStep
<1>3. CASE \E s \in Seats : BecomeReady(s) \/ Crash(s)
  BY <1>3, ServiceSteps
<1>4. CASE UNCHANGED vars
  BY <1>4, ServiceStep DEF vars, file, host, ControlInd, TypeOK
<1> QED
  BY <1>1, <1>2, <1>3, <1>4 DEF Next

LEMMA ControlInvariant == Spec => []ControlInd
  BY ControlInit, ControlNext, PTL DEF Spec

-----------------------------------------------------------------------------
(***************************************************************************)
(* The theorems.                                                           *)
(***************************************************************************)

\* GUARD_V1 and _drive_protocol: of the operations that name the host's lock alike at
\* most one runs at a time, whichever bridges asked for it, and a guard that holds the
\* lock has a controller that is going to end it, unless the session was cut off, its
\* outcome is not known or the reconciliation of a start raised.
THEOREM HostLockIsSafe == Spec => []LockInv
<1>1. ControlInd => TypeOK /\ OneOperationAtATime
  BY DEF ControlInd, RemoteLockIsHeldOnce, Held, OneOperationAtATime
<1>2. ControlInd => NoAbandonedLock
  <2>1. SUFFICES ASSUME ControlInd, NEW c \in Calls, guard[c].at = "release", guard[c].stdin \notin {"RELEASE", "closed"},
                        call[c].ssh = "up", call[c].pc # "idle"
                 PROVE  \/ guard[c].tended /\ call[c].pc \in {"operating", "ready"}
                        \/ call[c].outcome = "indeterminate"
                        \/ call[c].outcome = "raised" /\ call[c].op = "start" /\ TemplateOf(c) # "control-script"
    BY DEF NoAbandonedLock
  <2>2. Connected(call[c], guard[c]) /\ Told(call[c], guard[c]) /\ call[c] \in CallStates
    BY <2>1, CallFacts
  <2>3. call[c].pc \in {"idle", "lock", "locking", "operating", "ready", "closing", "done"}
    BY <2>2 DEF CallStates
  <2>4. CASE call[c].pc \in Holding
    BY <2>1, <2>2, <2>4 DEF Connected, Holding
  <2>5. CASE call[c].pc = "done"
    BY <2>1, <2>2, <2>5 DEF Told, TemplateOf
  <2> QED
    BY <2>1, <2>2, <2>3, <2>4, <2>5 DEF Connected, Holding
<1> QED
  BY <1>1, <1>2, ControlInvariant, PTL DEF LockInv

\* _finalize: a verdict other than indeterminate is told only when the operation is over
\* or was never let through, and an operation that succeeded is not told as refused.
THEOREM VerdictsTellTheTruth == Spec => []VerdictsAreTrue
<1>1. ControlInd => VerdictsAreTrue
  <2>1. SUFFICES ASSUME ControlInd, NEW c \in Calls
                 PROVE  /\ call[c].pc = "done" /\ call[c].outcome \in {"refused", "serving", "dormant", "error"} =>
                             guard[c].at \in {"none", "release", "exited"}
                        /\ call[c].pc = "done" /\ call[c].outcome = "refused" => guard[c].rc # "ok"
    BY DEF VerdictsAreTrue, NoVerdictWhileRunning, RefusedDidNotSucceed
  <2>2. Told(call[c], guard[c])
    BY <2>1, CallFacts
  <2> QED
    BY <2>2 DEF Told
<1> QED
  BY <1>1, ControlInvariant, PTL

\* _reconcile_start of BareCommandController: a bare command told to be serving is in the
\* state file of its bridge, by the process that was launched or one launched later.
THEOREM ServedIsRecorded == Spec => []ServingIsStoppable
<1>1. ControlInd => ServingIsStoppable
  BY DEF ControlInd, Recorded, ServingIsStoppable, TemplateOf, Record
<1> QED
  BY <1>1, ControlInvariant, PTL

==============================================================================
