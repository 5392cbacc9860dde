---------------------------- MODULE PolicyEnforcer ----------------------------
(***************************************************************************)
(* The host's policy boundary (policy.py, policy_enforcer.py): validation  *)
(* of storage and network policies, and one PolicyEnforcer per run that    *)
(* decides mounts, storage paths, egress, launch and publication, with its *)
(* WipeState.                                                              *)
(*                                                                         *)
(* An enforcer has one caller, the adapter of its run; wipes come from any *)
(* thread.  Time passes, wipes start and end and the guest rearranges its  *)
(* workspace between the checks of one call.  A policy stands for its own  *)
(* digest.  Guest paths are sequences of names; a host path is a sequence  *)
(* of names under the run root, or Outside.                                *)
(***************************************************************************)
EXTENDS Naturals, Sequences, SequencesExt

CONSTANTS
    Enforcers, Wipers,
    Disturbed,          \* bound: the enforcers that are wiped and whose guest is active
    Setups,             \* the arguments each enforcer may be made with
    Requests,           \* the requests each enforcer may get
    Places,             \* where a guest may let its directories point
    Outside, Unsafe,    \* a host path outside the run root; a path that is not canonical
    None,
    Boot, MaxTime       \* when the host started; the last instant considered

\* The public checks of an enforcer
Operations == {"digest", "mount", "storage", "network", "launch", "publish"}

ASSUME PolicyAssumption ==
    /\ Boot \in Nat /\ MaxTime \in Nat /\ Boot <= MaxTime
    /\ Disturbed \subseteq Enforcers
    /\ \A e \in Enforcers :
         /\ \A s \in Setups[e] : /\ s.root \in BOOLEAN /\ s.bound \in BOOLEAN /\ s.clock \in {"wall", "default"}
                                 /\ s.network.maxDuration \in Nat \cup {None}
         /\ \A q \in Requests[e] : q.op \in Operations /\ q.bytes \in Nat
    /\ None \notin Wipers \cup {Outside, "rw", "wiped", "marked"}

VARIABLES
    now,      \* wall-clock time
    enf,      \* the enforcers
    call,     \* the call each enforcer is deciding
    receipts, \* the launch and mount receipts issued so far, in anyone's hands
    link,     \* where the directories of each run root really are
    wiper,    \* threads that call wipe or mark_wiped
    allowed,  \* history: the allowance each enforcer gave last, until its next call
    egress    \* history: the bytes of all allowed requests

vars == <<now, enf, call, receipts, link, wiper, allowed, egress>>

(***************************************************************************)
(* Declarations (policy.py).                                               *)
(***************************************************************************)
Under(path, prefix) == IsPrefix(prefix, path)

\* _validate_guest_path: canonical, and in its own top-level tree
ValidGuestPath(path, tree) == path # Unsafe /\ Under(path, <<tree>>)

Trees(s) == <<s.workspace, s.inputs>> \o (IF s.cache = None THEN <<>> ELSE <<s.cache>>)

StorageValid(s) ==
    /\ ValidGuestPath(s.workspace, "runs") /\ ValidGuestPath(s.inputs, "inputs")
    /\ s.cache # None => ValidGuestPath(s.cache, "cache")
    /\ (s.access = "none") = (s.cache = None)
    /\ s.phase = "evaluation" => s.access # "read_write"
    /\ \A i, j \in DOMAIN Trees(s) : i # j => ~Under(Trees(s)[i], Trees(s)[j])

\* Each purpose has its phase.
PhaseOf(purpose) ==
    CASE purpose = "dependency_fetch" -> "provision"
      [] purpose = "resource_lookup" -> "research"
      [] purpose = "declared_api" -> "evaluation"

NetworkValid(n) ==
    IF n.purpose = "none"
    THEN n.targets = {} /\ n.maxBytes = None /\ n.maxDuration = None /\ ~n.cacheWrite
    ELSE /\ n.targets # {} /\ n.maxBytes # None /\ n.maxDuration # None
         /\ n.cacheWrite => n.purpose = "dependency_fetch" /\ n.phase = "provision"
         /\ n.phase = PhaseOf(n.purpose)

(***************************************************************************)
(* The enforcers.                                                          *)
(***************************************************************************)
NoEnforcer == [made |-> FALSE, storage |-> None, network |-> None, root |-> FALSE, bound |-> FALSE,
               expires |-> None, clock |-> None, started |-> 0, bytes |-> 0, launch |-> None, published |-> FALSE,
               wiped |-> FALSE, receipt |-> None, lock |-> None, callbacks |-> 0]

NoCall == [at |-> "idle", request |-> None, left |-> <<>>, over |-> FALSE]

NothingAllowed == [op |-> None, over |-> FALSE, host |-> None, guest |-> None, mode |-> None]

Init ==
    /\ now = Boot
    /\ enf = [e \in Enforcers |-> NoEnforcer]
    /\ call = [e \in Enforcers |-> NoCall]
    /\ receipts = {}
    /\ link = [e \in Enforcers |-> [d \in {"inputs", "cache"} |-> <<d>>]]
    /\ wiper = [w \in Wipers |-> [at |-> "idle", target |-> None]]
    /\ allowed = [e \in Enforcers |-> NothingAllowed]
    /\ egress = [e \in Enforcers |-> 0]

Digest(e) == <<enf[e].storage, enf[e].network>>

\* The clock an enforcer was given, or by default the time since the host started
ReadClock(clock) == IF clock = "wall" THEN now ELSE now - Boot

Clock(e) == ReadClock(enf[e].clock)

\* A policy that is not valid raises.  A digest that does not match, and a missing
\* run root, are remembered.  An expiry passed to the constructor goes before the
\* policy's.
Create(e) ==
    /\ ~enf[e].made
    /\ \E s \in Setups[e] :
         /\ StorageValid(s.storage) /\ NetworkValid(s.network)
         /\ enf' = [enf EXCEPT ![e] =
                      [NoEnforcer EXCEPT !.made = TRUE, !.storage = s.storage, !.network = s.network,
                                         !.root = s.root, !.bound = s.bound, !.clock = s.clock,
                                         !.started = ReadClock(s.clock),
                                         !.expires = IF s.expires # None THEN s.expires ELSE s.network.expires]]
    /\ UNCHANGED <<now, call, receipts, link, wiper, allowed, egress>>

Expired(e) == enf[e].expires # None /\ Clock(e) >= enf[e].expires

_common_denial(e, digest) ==
    ~enf[e].bound \/ digest \notin {None, Digest(e)} \/ enf[e].wiped \/ Expired(e)

_network_expiry(e) ==
    /\ enf[e].network.maxDuration # None
    /\ Clock(e) - enf[e].started >= enf[e].network.maxDuration

Access(e, tree) ==
    CASE tree = enf[e].storage.workspace -> "read_write"
      [] tree = enf[e].storage.inputs -> "read_only"
      [] OTHER -> enf[e].storage.access

\* _mount_for_guest: the declared tree a guest path is in, or None
TreeOf(e, guest) ==
    LET trees == {t \in ToSet(Trees(enf[e].storage)) : guest # Unsafe /\ Under(guest, t)}
    IN  IF trees = {} THEN None ELSE CHOOSE t \in trees : TRUE

\* A host path with the links of the run root followed
Resolve(e, host) ==
    IF host \in {Outside, Unsafe, <<>>} \/ Head(host) \notin DOMAIN link[e] THEN host
    ELSE IF link[e][Head(host)] = Outside THEN Outside ELSE link[e][Head(host)] \o Tail(host)

\* The host path a guest path is bound to.  The workspace is the run root itself.
_expected_host_path(e, guest, tree) ==
    LET suffix == SubSeq(guest, Len(tree) + 1, Len(guest))
    IN  Resolve(e, CASE tree = enf[e].storage.workspace -> suffix
                     [] tree = enf[e].storage.inputs -> <<"inputs">> \o suffix
                     [] OTHER -> <<"cache">> \o suffix)

\* Mutant: only the path as written is compared with the run root
SafeAsWritten(e, host) == host \notin {Outside, Unsafe}

\* _safe_host_path
Safe(e, host) == Resolve(e, host) \notin {Outside, Unsafe}

Mode(access) == IF access = "read_write" THEN "rw" ELSE "ro"

\* check_mount after _common_denial
MountFits(e, host, guest, mode) ==
    LET tree == TreeOf(e, guest)
    IN  /\ enf[e].root /\ Safe(e, host) /\ tree # None
        /\ guest = tree
        /\ Resolve(e, host) = _expected_host_path(e, guest, tree)
        /\ mode = Mode(Access(e, tree))

\* check_storage after _common_denial.  A mount is passed on to check_mount.
PathFits(e, q) ==
    LET tree == TreeOf(e, q.guest)
    IN  /\ tree # None
        /\ q.mode = "write" => Access(e, tree) = "read_write"
        /\ q.host # None =>
             /\ enf[e].root /\ Safe(e, q.host)
             /\ Resolve(e, q.host) = _expected_host_path(e, q.guest, tree)

\* The declared mounts: host path, guest path, mode
Mounts(e) ==
    LET s == enf[e].storage
    IN  <<[host |-> <<>>, guest |-> s.workspace, mode |-> "rw"],
          [host |-> <<"inputs">>, guest |-> s.inputs, mode |-> "ro"]>> \o
        (IF s.cache = None THEN <<>>
         ELSE <<[host |-> <<"cache">>, guest |-> s.cache, mode |-> Mode(s.access)]>>)

(***************************************************************************)
(* Calls.  Begin is the common test; the decision follows in a later step. *)
(***************************************************************************)
Finish(e) == call' = [call EXCEPT ![e] = NoCall]

Deny(e) == Finish(e) /\ UNCHANGED <<enf, receipts, allowed, egress>>

\* History: what was allowed, and whether it was over when the call began
Record(e, host, guest, mode) ==
    allowed' = [allowed EXCEPT ![e] = [op |-> call[e].at, over |-> call[e].over,
                                       host |-> host, guest |-> guest, mode |-> mode]]

\* History: the run of e was wiped, or its time has passed by e's clock
Over(e, op) ==
    \/ enf[e].wiped \/ Expired(e)
    \/ op \in {"launch", "network", "publish"} /\ _network_expiry(e)

Begin(e) ==
    /\ enf[e].made /\ call[e].at = "idle"
    /\ \E q \in Requests[e] :
         IF _common_denial(e, q.digest) \/ (q.op = "digest" /\ q.digest = None)
         THEN UNCHANGED call
         ELSE call' = [call EXCEPT ![e] = [at |-> q.op, request |-> q,
                                           left |-> IF q.op = "launch" THEN Mounts(e) ELSE <<>>,
                                           over |-> Over(e, q.op)]]
    /\ allowed' = [allowed EXCEPT ![e] = NothingAllowed]
    /\ UNCHANGED <<now, enf, receipts, link, wiper, egress>>

check_policy_digest(e) ==
    /\ call[e].at = "digest"
    /\ Record(e, None, None, None)
    /\ Finish(e)
    /\ UNCHANGED <<now, enf, receipts, link, wiper, egress>>

check_mount(e) ==
    LET q == call[e].request
    IN  /\ call[e].at = "mount"
        /\ IF MountFits(e, q.host, q.guest, q.mode)
           THEN /\ Record(e, Resolve(e, q.host), q.guest, q.mode)
                /\ receipts' = receipts \cup {[op |-> "mount", digest |-> Digest(e), allowed |-> TRUE]}
                /\ Finish(e)
                /\ UNCHANGED <<enf, egress>>
           ELSE Deny(e)
        /\ UNCHANGED <<now, link, wiper>>

check_storage(e) ==
    LET q == call[e].request
    IN  /\ call[e].at = "storage"
        /\ IF PathFits(e, q)
           THEN /\ Record(e, IF q.host = None THEN None ELSE Resolve(e, q.host), q.guest,
                          IF q.mode = "write" THEN "rw" ELSE "ro")
                /\ Finish(e)
                /\ UNCHANGED <<enf, receipts, egress>>
           ELSE Deny(e)
        /\ UNCHANGED <<now, link, wiper>>

\* Mutant: the request's own bytes are not part of the test
NetworkFitsSoFar(e, q) ==
    LET n == enf[e].network
    IN  n.purpose # "none" /\ ~_network_expiry(e) /\ q.target \in n.targets /\ enf[e].bytes < n.maxBytes

\* check_network: purpose, duration, exact target and the byte limit
NetworkFits(e, q) ==
    LET n == enf[e].network
    IN  /\ n.purpose # "none" /\ ~_network_expiry(e)
        /\ q.target \in n.targets
        /\ enf[e].bytes + q.bytes <= n.maxBytes

check_network(e) ==
    LET q == call[e].request
    IN  /\ call[e].at = "network"
        /\ IF NetworkFits(e, q)
           THEN /\ enf' = [enf EXCEPT ![e].bytes = @ + q.bytes]
                /\ egress' = [egress EXCEPT ![e] = @ + q.bytes]
                /\ Record(e, None, None, None)
                /\ Finish(e)
                /\ UNCHANGED receipts
           ELSE Deny(e)
        /\ UNCHANGED <<now, link, wiper>>

\* before_launch tests the network's time once, and then each declared mount in turn,
\* the common test included.
LaunchMount(e) ==
    /\ call[e].at = "launch" /\ call[e].left # <<>>
    /\ LET m == Head(call[e].left)
       IN  IF \/ call[e].left = Mounts(e) /\ _network_expiry(e)
              \/ _common_denial(e, call[e].request.digest)
              \/ ~MountFits(e, m.host, m.guest, m.mode)
           THEN Deny(e)
           ELSE /\ call' = [call EXCEPT ![e].left = Tail(@)]
                /\ UNCHANGED <<enf, receipts, allowed, egress>>
    /\ UNCHANGED <<now, link, wiper>>

before_launch(e) ==
    LET receipt == [op |-> "launch", digest |-> Digest(e), allowed |-> TRUE]
    IN  /\ call[e].at = "launch" /\ call[e].left = <<>>
        /\ enf' = [enf EXCEPT ![e].launch = receipt]
        /\ receipts' = receipts \cup {receipt}
        /\ Record(e, None, None, None)
        /\ Finish(e)
        /\ UNCHANGED <<now, link, wiper, egress>>

\* Mutant: any launch receipt will do
LaunchReceiptPresent(e, r) == r # None /\ r.op = "launch" /\ r.allowed

\* An allowed launch receipt that verifies against this policy, whoever issued it
LaunchReceiptFits(e, r) == r # None /\ r.op = "launch" /\ r.allowed /\ r.digest = Digest(e)

\* The receipt passed, or the enforcer's own
before_publication(e) ==
    LET q == call[e].request
        n == enf[e].network
    IN  /\ call[e].at = "publish"
        /\ \E r \in {enf[e].launch} \cup receipts :
             IF /\ LaunchReceiptFits(e, r) /\ ~_network_expiry(e)
                /\ n.maxBytes # None => enf[e].bytes + q.bytes <= n.maxBytes
                /\ ~enf[e].published
             THEN /\ enf' = [enf EXCEPT ![e].published = TRUE]
                  /\ Record(e, None, None, None)
                  /\ Finish(e)
                  /\ UNCHANGED <<receipts, egress>>
             ELSE Deny(e)
        /\ UNCHANGED <<now, link, wiper>>

(***************************************************************************)
(* Wipes: WipeState has a lock, held while its callback runs.              *)
(***************************************************************************)
At(w, e, at) == wiper' = [wiper EXCEPT ![w] = [at |-> at, target |-> e]]

\* The first wipe sets the state and the receipt and goes on to the callback.
wipe(w, e) ==
    /\ wiper[w].at = "idle" /\ enf[e].made /\ enf[e].lock = None
    /\ IF enf[e].receipt # None
       THEN At(w, e, "returned") /\ UNCHANGED enf
       ELSE /\ At(w, e, "callback")
            /\ enf' = [enf EXCEPT ![e].wiped = TRUE, ![e].receipt = "wiped", ![e].lock = w]
    /\ UNCHANGED <<now, call, receipts, link, allowed, egress>>

\* Mutant: the callback runs after the lock was given up
CallbackLate(w, e) ==
    /\ wiper[w] = [at |-> "callback", target |-> e]
    /\ \/ /\ enf[e].lock = w
          /\ enf' = [enf EXCEPT ![e].lock = None]
          /\ UNCHANGED wiper
       \/ /\ enf[e].lock # w
          /\ enf' = [enf EXCEPT ![e].callbacks = @ + 1]
          /\ At(w, e, "returned")
    /\ UNCHANGED <<now, call, receipts, link, allowed, egress>>

\* The callback ends, or raises: the call returns or raises, and a retry does not
\* call it again.
Callback(w, e) ==
    /\ wiper[w] = [at |-> "callback", target |-> e]
    /\ enf' = [enf EXCEPT ![e].callbacks = @ + 1, ![e].lock = None]
    /\ At(w, e, "returned")
    /\ UNCHANGED <<now, call, receipts, link, allowed, egress>>

\* A wipe the adapter has already done
mark_wiped(w, e) ==
    /\ wiper[w].at = "idle" /\ enf[e].made /\ enf[e].lock = None
    /\ enf' = [enf EXCEPT ![e].wiped = TRUE, ![e].receipt = IF @ = None THEN "marked" ELSE @]
    /\ At(w, e, "marked")
    /\ UNCHANGED <<now, call, receipts, link, allowed, egress>>

(***************************************************************************)
(* The environment.                                                        *)
(***************************************************************************)
\* A launched guest has the run root as its writable workspace.
Relink(e) ==
    /\ enf[e].launch # None
    /\ \E d \in {"inputs", "cache"}, to \in Places :
         /\ d = "cache" => enf[e].storage.cache # None
         /\ link' = [link EXCEPT ![e][d] = to]
    /\ UNCHANGED <<now, enf, call, receipts, wiper, allowed, egress>>

Tick ==
    /\ now < MaxTime
    /\ now' = now + 1
    /\ UNCHANGED <<enf, call, receipts, link, wiper, allowed, egress>>

Decide(e) ==
    \/ Create(e) \/ Begin(e)
    \/ check_policy_digest(e) \/ check_mount(e) \/ check_storage(e) \/ check_network(e)
    \/ LaunchMount(e) \/ before_launch(e) \/ before_publication(e)

Next ==
    \/ \E e \in Enforcers : Decide(e)
    \/ \E e \in Disturbed : Relink(e)
    \/ \E w \in Wipers, e \in Disturbed : wipe(w, e) \/ Callback(w, e) \/ mark_wiped(w, e)
    \/ Tick

Spec == Init /\ [][Next]_vars

(***************************************************************************)
(* Properties.                                                             *)
(***************************************************************************)
Storages == UNION {{s.storage : s \in Setups[e]} : e \in Enforcers}

Networks == UNION {{s.network : s \in Setups[e]} : e \in Enforcers}

Expiries == UNION {{s.expires, s.network.expires} : s \in UNION {Setups[e] : e \in Enforcers}}

PolicyReceipts == [op : {"mount", "launch"}, digest : Storages \X Networks, allowed : {TRUE}]

EnforcerStates ==
    [made : BOOLEAN, storage : Storages \cup {None}, network : Networks \cup {None}, root : BOOLEAN,
     bound : BOOLEAN, expires : Expiries \cup {None}, clock : {"wall", "default", None}, started : Nat, bytes : Nat, launch : PolicyReceipts \cup {None},
     published : BOOLEAN, wiped : BOOLEAN, receipt : {"wiped", "marked", None},
     lock : Wipers \cup {None}, callbacks : 0..1]

MountSpecs ==
    [host : {<<>>, <<"inputs">>, <<"cache">>}, mode : {"rw", "ro"},
     guest : UNION {{s.workspace, s.inputs, s.cache} : s \in Storages}]

CallStates ==
    [at : Operations \cup {"idle"}, request : {None} \cup UNION {Requests[e] : e \in Enforcers},
     left : Seq(MountSpecs), over : BOOLEAN]

\* Types; a lock is held by the thread that is in the callback.
TypeOK ==
    /\ now \in Boot..MaxTime
    /\ enf \in [Enforcers -> EnforcerStates]
    /\ call \in [Enforcers -> CallStates]
    /\ receipts \subseteq PolicyReceipts
    /\ wiper \in [Wipers -> [at : {"idle", "callback", "returned", "marked"}, target : Enforcers \cup {None}]]
    /\ egress \in [Enforcers -> Nat]
    /\ \A e \in Enforcers :
         /\ enf[e].made => /\ enf[e].storage \in Storages /\ StorageValid(enf[e].storage)
                           /\ enf[e].network \in Networks /\ NetworkValid(enf[e].network)
         /\ \A w \in Wipers :
              enf[e].lock = w <=> wiper[w] = [at |-> "callback", target |-> e]

\* No call that begins after a wipe, after the expiry or after the duration by the
\* enforcer's clock ends in an allowance (_common_denial, _network_expiry_reason).
NothingAllowedOnceOver == \A e \in Enforcers : ~allowed[e].over

\* Whatever the guest makes of its workspace, an allowed mount or path is, when it
\* is allowed, inside the run root, and writable only in the workspace or in the
\* cache of a run that is not an evaluation (check_mount, check_storage).
AllowedPathsAreConfined ==
    \A e \in Enforcers : LET a == allowed[e] IN
        /\ a.host # Outside
        /\ a.mode = "rw" => \/ Under(a.guest, enf[e].storage.workspace)
                            \/ /\ enf[e].storage.phase # "evaluation"
                               /\ Under(a.guest, enf[e].storage.cache)

\* An allowance is given only while the run is on, and only for what is its own.
AllowedInv == NothingAllowedOnceOver /\ AllowedPathsAreConfined

\* The requests allowed over an enforcer's life stay within its byte limit
\* (check_network).
EgressWithinLimit ==
    \A e \in Enforcers : egress[e] > 0 => egress[e] <= enf[e].network.maxBytes

\* A publication follows an allowed launch under the same policy, although receipts
\* travel between runs (before_publication, PolicyReceipt.verify).
PublicationBacked ==
    \A e \in Enforcers : enf[e].published =>
        [op |-> "launch", digest |-> Digest(e), allowed |-> TRUE] \in receipts

\* A wipe that returns, retried or concurrent, returns after the callback has been
\* called, unless the adapter had already marked the state as wiped (WipeState).
WipeReturnsDone ==
    \A w \in Wipers : wiper[w].at = "returned" =>
        LET e == wiper[w].target
        IN  enf[e].wiped /\ (enf[e].receipt = "wiped" => enf[e].callbacks = 1)

\* Enforcers, and the wipes of them, are consistent.
WipeInv == TypeOK /\ WipeReturnsDone

=============================================================================
