------------------------- MODULE PolicyEnforcerProofs -------------------------
(***************************************************************************)
(* Proofs about the host's policy boundary, for any enforcers, policies,   *)
(* requests and threads that wipe: nothing is allowed once a run is over,  *)
(* allowed paths are confined, egress stays within its limit, a            *)
(* publication has its launch, and a wipe that returns is done.            *)
(***************************************************************************)
EXTENDS PolicyEnforcer, SequenceTheorems, TLAPS

\* Nothing has happened to an enforcer that is not made; one that is made decides
\* its own requests.
Fresh(e) ==
    /\ ~enf[e].made => enf[e] = NoEnforcer /\ allowed[e] = NothingAllowed /\ egress[e] = 0
    /\ call[e].at # "idle" => enf[e].made /\ call[e].request \in Requests[e]

\* What was let out is what the enforcer has counted.
Counted(e) == egress[e] = enf[e].bytes /\ (egress[e] > 0 => egress[e] <= enf[e].network.maxBytes)

\* The receipt an enforcer keeps was issued, and a publication had one of its policy.
Backed(e) ==
    /\ enf[e].launch # None => enf[e].launch \in receipts
    /\ enf[e].published => [op |-> "launch", digest |-> Digest(e), allowed |-> TRUE] \in receipts

\* A call that began after the network's time has still to pass a test of it.
OnTime(e) ==
    /\ ~allowed[e].over
    /\ call[e].over => /\ call[e].at \in {"launch", "network", "publish"} /\ _network_expiry(e)
                       /\ call[e].at = "launch" => call[e].left = Mounts(e)

Confined(e) ==
    /\ allowed[e].host # Outside
    /\ allowed[e].mode = "rw" => \/ Under(allowed[e].guest, enf[e].storage.workspace)
                                 \/ /\ enf[e].storage.phase # "evaluation"
                                    /\ Under(allowed[e].guest, enf[e].storage.cache)

\* The callback of a wipe is still to come, under the lock, or it has been called.
Wiping(e) ==
    /\ enf[e].lock # None => enf[e].receipt = "wiped" /\ enf[e].callbacks = 0
    /\ enf[e].receipt = "wiped" => enf[e].lock # None \/ enf[e].callbacks = 1
    /\ enf[e].callbacks = 1 => enf[e].receipt = "wiped"
    /\ enf[e].receipt # None => enf[e].wiped

WiperDone(w) ==
    wiper[w].at = "returned" =>
        LET e == wiper[w].target
        IN  e \in Enforcers /\ enf[e].receipt # None /\ (enf[e].receipt = "wiped" => enf[e].callbacks = 1)

EnforcerOK(e) == Fresh(e) /\ Counted(e) /\ Backed(e) /\ OnTime(e) /\ Confined(e) /\ Wiping(e)

\* The inductive invariant.
PolicyInd ==
    /\ TypeOK /\ allowed = [e \in Enforcers |-> allowed[e]]
    /\ \A e \in Enforcers : EnforcerOK(e)
    /\ \A w \in Wipers : WiperDone(w)

-----------------------------------------------------------------------------
USE PolicyAssumption

\* The policy of an enforcer, and the state of its wipe.
SamePolicy(r, q) ==
    r.made = q.made /\ r.storage = q.storage /\ r.network = q.network /\ r.clock = q.clock /\ r.started = q.started
SameWipe(r, q) == r.wiped = q.wiped /\ r.receipt = q.receipt /\ r.lock = q.lock /\ r.callbacks = q.callbacks

\* A policy that was declared and is valid.
PolicyOK(s, n) == s \in Storages /\ StorageValid(s) /\ n \in Networks /\ NetworkValid(n)

Alone(f, g, e) == \A d \in Enforcers : d # e => f[d] = g[d]

\* A step of one enforcer: what the invariant says of the others stays true.
LEMMA DecideStep ==
    ASSUME PolicyInd, NEW e \in Enforcers,
           enf' \in [Enforcers -> EnforcerStates], Alone(enf', enf, e),
           call' \in [Enforcers -> CallStates], Alone(call', call, e),
           allowed' = [d \in Enforcers |-> allowed'[d]], Alone(allowed', allowed, e),
           egress' \in [Enforcers -> Nat], Alone(egress', egress, e),
           receipts' \subseteq PolicyReceipts, receipts \subseteq receipts',
           UNCHANGED <<now, wiper>>, SameWipe(enf'[e], enf[e]),
           enf'[e].made => PolicyOK(enf'[e].storage, enf'[e].network),
           EnforcerOK(e)'
    PROVE  PolicyInd'
<1>0. TypeOK /\ (\A d \in Enforcers : EnforcerOK(d)) /\ \A w \in Wipers : WiperDone(w)
  BY DEF PolicyInd
<1>1. \A d \in Enforcers : SameWipe(enf'[d], enf[d])
  BY DEF Alone, SameWipe
<1>2. TypeOK'
  <2>1. \A d \in Enforcers : enf'[d].made => PolicyOK(enf'[d].storage, enf'[d].network)
    BY <1>0 DEF TypeOK, Alone, PolicyOK
  <2>2. \A d \in Enforcers : \A w \in Wipers :
           enf'[d].lock = w <=> wiper'[w] = [at |-> "callback", target |-> d]
    BY <1>0, <1>1 DEF TypeOK, SameWipe
  <2>3. /\ now' \in Boot..MaxTime
        /\ wiper' \in [Wipers -> [at : {"idle", "callback", "returned", "marked"}, target : Enforcers \cup {None}]]
    BY <1>0 DEF TypeOK
  <2>4. ASSUME NEW d \in Enforcers
        PROVE  (enf[d].made => /\ enf[d].storage \in Storages /\ StorageValid(enf[d].storage)
                               /\ enf[d].network \in Networks /\ NetworkValid(enf[d].network))'
    BY <2>1 DEF PolicyOK, StorageValid, NetworkValid
  <2> QED
    BY <2>2, <2>3, <2>4 DEF TypeOK
<1>3. ASSUME NEW d \in Enforcers PROVE EnforcerOK(d)'
  <2>1. CASE d = e
    BY <2>1
  <2>2. CASE d # e
    <3>1. /\ enf'[d] = enf[d] /\ call'[d] = call[d] /\ allowed'[d] = allowed[d] /\ egress'[d] = egress[d]
          /\ now' = now /\ EnforcerOK(d)
      BY <1>0, <2>2 DEF Alone
    <3>2. Fresh(d)' /\ Counted(d)' /\ Wiping(d)'
      BY <3>1 DEF EnforcerOK, Fresh, Counted, Wiping
    <3>3. Backed(d)'
      BY <3>1 DEF EnforcerOK, Backed, Digest
    <3>4. OnTime(d)'
      BY <3>1 DEF EnforcerOK, OnTime, Mounts, _network_expiry, Clock, ReadClock
    <3>5. Confined(d)'
      BY <3>1 DEF EnforcerOK, Confined
    <3> QED
      BY <3>2, <3>3, <3>4, <3>5 DEF EnforcerOK
  <2> QED
    BY <2>1, <2>2
<1>4. ASSUME NEW w \in Wipers PROVE WiperDone(w)'
  BY <1>0, <1>1 DEF WiperDone, SameWipe
<1> QED
  BY <1>2, <1>3, <1>4 DEF PolicyInd

\* The facts about an enforcer that a step starts from.
LEMMA EnforcerFacts ==
    ASSUME PolicyInd, NEW e \in Enforcers
    PROVE  /\ enf \in [Enforcers -> EnforcerStates] /\ enf[e] \in EnforcerStates
           /\ call \in [Enforcers -> CallStates] /\ call[e] \in CallStates
           /\ allowed = [d \in Enforcers |-> allowed[d]] /\ egress \in [Enforcers -> Nat]
           /\ receipts \subseteq PolicyReceipts /\ EnforcerOK(e)
           /\ enf[e].made => PolicyOK(enf[e].storage, enf[e].network)
           /\ enf[e].made \in BOOLEAN /\ enf[e].bytes \in Nat /\ egress[e] \in Nat /\ enf[e].started \in Nat
<1>1. /\ enf \in [Enforcers -> EnforcerStates] /\ call \in [Enforcers -> CallStates]
      /\ allowed = [d \in Enforcers |-> allowed[d]] /\ egress \in [Enforcers -> Nat]
      /\ receipts \subseteq PolicyReceipts /\ EnforcerOK(e)
      /\ enf[e].made => PolicyOK(enf[e].storage, enf[e].network)
  BY DEF PolicyInd, TypeOK, PolicyOK
<1>2. enf[e] \in EnforcerStates /\ call[e] \in CallStates /\ egress[e] \in Nat
  BY <1>1
<1> QED
  BY <1>1, <1>2 DEF EnforcerStates

LEMMA NoCallTyped == NoCall \in CallStates /\ NoCall.at = "idle" /\ ~NoCall.over
<1>1. <<>> \in Seq(MountSpecs)
  OBVIOUS
<1> QED
  BY <1>1 DEF NoCall, CallStates

\* A call that ends without an allowance changes nothing else.
LEMMA DenyStep ==
    ASSUME PolicyInd, NEW e \in Enforcers, Deny(e), UNCHANGED <<now, wiper>>
    PROVE  PolicyInd'
<1>0. /\ enf \in [Enforcers -> EnforcerStates] /\ call \in [Enforcers -> CallStates]
      /\ allowed = [d \in Enforcers |-> allowed[d]] /\ egress \in [Enforcers -> Nat]
      /\ receipts \subseteq PolicyReceipts /\ EnforcerOK(e)
      /\ enf[e].made => PolicyOK(enf[e].storage, enf[e].network)
  BY EnforcerFacts
<1>1. call' = [call EXCEPT ![e] = NoCall] /\ UNCHANGED <<enf, receipts, allowed, egress>>
  BY DEF Deny, Finish
<1>2. call' \in [Enforcers -> CallStates] /\ call'[e] = NoCall /\ Alone(call', call, e)
  BY <1>0, <1>1, NoCallTyped DEF Alone
<1>3. EnforcerOK(e)'
  <2>1. Fresh(e)' /\ Counted(e)' /\ Wiping(e)' /\ Confined(e)'
    BY <1>0, <1>1, <1>2, NoCallTyped DEF EnforcerOK, Fresh, Counted, Wiping, Confined
  <2>2. Backed(e)'
    BY <1>0, <1>1 DEF EnforcerOK, Backed, Digest
  <2>3. OnTime(e)'
    BY <1>0, <1>1, <1>2, NoCallTyped DEF EnforcerOK, OnTime
  <2> QED
    BY <2>1, <2>2, <2>3 DEF EnforcerOK
<1>4. /\ enf' \in [Enforcers -> EnforcerStates] /\ Alone(enf', enf, e)
      /\ allowed' = [d \in Enforcers |-> allowed'[d]] /\ Alone(allowed', allowed, e)
      /\ egress' \in [Enforcers -> Nat] /\ Alone(egress', egress, e)
      /\ receipts' \subseteq PolicyReceipts /\ receipts \subseteq receipts' /\ SameWipe(enf'[e], enf[e])
      /\ enf'[e].made => PolicyOK(enf'[e].storage, enf'[e].network)
  BY <1>0, <1>1 DEF Alone, SameWipe
<1> QED
  BY <1>2, <1>3, <1>4, DecideStep

LEMMA CreateStep ==
    ASSUME PolicyInd, NEW e \in Enforcers, Create(e)
    PROVE  PolicyInd'
<1>0. /\ enf \in [Enforcers -> EnforcerStates] /\ call \in [Enforcers -> CallStates]
      /\ allowed = [d \in Enforcers |-> allowed[d]] /\ egress \in [Enforcers -> Nat]
      /\ receipts \subseteq PolicyReceipts /\ EnforcerOK(e) /\ now \in Boot..MaxTime
      /\ enf[e] = NoEnforcer /\ allowed[e] = NothingAllowed /\ egress[e] = 0 /\ call[e].at = "idle"
      /\ UNCHANGED <<now, call, receipts, link, wiper, allowed, egress>>
  BY EnforcerFacts DEF Create, EnforcerOK, Fresh, PolicyInd, TypeOK
<1>1. PICK s \in Setups[e] :
        /\ StorageValid(s.storage) /\ NetworkValid(s.network)
        /\ enf' = [enf EXCEPT ![e] =
                     [NoEnforcer EXCEPT !.made = TRUE, !.storage = s.storage, !.network = s.network,
                                        !.root = s.root, !.bound = s.bound, !.clock = s.clock,
                                        !.started = ReadClock(s.clock),
                                        !.expires = IF s.expires # None THEN s.expires ELSE s.network.expires]]
  BY DEF Create
<1> DEFINE expires == IF s.expires # None THEN s.expires ELSE s.network.expires
           r == [NoEnforcer EXCEPT !.made = TRUE, !.storage = s.storage, !.network = s.network,
                                   !.root = s.root, !.bound = s.bound, !.clock = s.clock,
                                   !.started = ReadClock(s.clock), !.expires = expires]
<1>2. s.storage \in Storages /\ s.network \in Networks
  BY DEF Storages, Networks
<1>3. ReadClock(s.clock) \in Nat
  BY <1>0 DEF ReadClock
<1>4. NoEnforcer \in EnforcerStates
  <2>1. 0 \in 0..1
    OBVIOUS
  <2> QED
    BY <2>1 DEF NoEnforcer, EnforcerStates, Storages, Networks
<1>5. r \in EnforcerStates
  <2>1. s.expires \in Expiries /\ s.network.expires \in Expiries
    BY DEF Expiries
  <2>2. expires \in Expiries
    BY <2>1
  <2> HIDE DEF expires
  <2> QED
    BY <1>2, <1>3, <1>4, <2>2 DEF EnforcerStates
<1>6. /\ r.made /\ r.storage = s.storage /\ r.network = s.network /\ r.bytes = 0 /\ r.launch = None
      /\ ~r.published /\ SameWipe(r, NoEnforcer)
  BY DEF NoEnforcer, SameWipe
<1>7. enf' = [enf EXCEPT ![e] = r]
  BY <1>1
<1> HIDE DEF r
<1>8. enf'[e] = r /\ enf' \in [Enforcers -> EnforcerStates] /\ Alone(enf', enf, e)
  BY <1>0, <1>5, <1>7 DEF Alone
<1>9. EnforcerOK(e)'
  <2>1. Fresh(e)' /\ Counted(e)'
    BY <1>0, <1>6, <1>8 DEF Fresh, Counted
  <2>2. Wiping(e)'
    BY <1>0, <1>6, <1>8 DEF EnforcerOK, Wiping, SameWipe
  <2>3. Backed(e)'
    BY <1>6, <1>8 DEF Backed
  <2>4. OnTime(e)'
    BY <1>0 DEF EnforcerOK, OnTime
  <2>5. Confined(e)'
    BY <1>0 DEF Confined, NothingAllowed
  <2> QED
    BY <2>1, <2>2, <2>3, <2>4, <2>5 DEF EnforcerOK
<1>10. SameWipe(enf'[e], enf[e]) /\ PolicyOK(enf'[e].storage, enf'[e].network)
  BY <1>0, <1>1, <1>2, <1>6, <1>8 DEF PolicyOK
<1>11. /\ call' \in [Enforcers -> CallStates] /\ Alone(call', call, e)
       /\ allowed' = [d \in Enforcers |-> allowed'[d]] /\ Alone(allowed', allowed, e)
       /\ egress' \in [Enforcers -> Nat] /\ Alone(egress', egress, e)
       /\ receipts' \subseteq PolicyReceipts /\ receipts \subseteq receipts'
  BY <1>0 DEF Alone
<1> QED
  BY <1>0, <1>8, <1>9, <1>10, <1>11, DecideStep

-----------------------------------------------------------------------------
(***************************************************************************)
(* Declared trees and mounts.                                              *)
(***************************************************************************)
LEMMA TreesDeclared ==
    ASSUME NEW s, NEW t \in ToSet(Trees(s))
    PROVE  t \in {s.workspace, s.inputs, s.cache}
<1> DEFINE a == <<s.workspace, s.inputs>>
           b == IF s.cache = None THEN <<>> ELSE <<s.cache>>
           S == {s.workspace, s.inputs, s.cache}
<1>0. Trees(s) = a \o b
  BY DEF Trees
<1>1. s.workspace \in S /\ s.inputs \in S /\ s.cache \in S
  OBVIOUS
<1> HIDE DEF S
<1>5. a \in Seq(S) /\ b \in Seq(S)
  <2>1. <<s.workspace, s.inputs>> \in Seq(S) /\ <<s.cache>> \in Seq(S) /\ <<>> \in Seq(S)
    BY <1>1
  <2> QED
    BY <2>1
<1> HIDE DEF a, b
<1>2. Trees(s) \in Seq(S)
  BY <1>0, <1>5, ConcatProperties
<1>3. PICK i \in DOMAIN Trees(s) : t = Trees(s)[i]
  BY DEF ToSet
<1>4. t \in S
  BY <1>2, <1>3
<1> QED
  BY <1>4 DEF S

\* The tree of a guest path is a declared one, and the path is in it.
LEMMA TreeIsDeclared ==
    ASSUME NEW e \in Enforcers, NEW guest, TreeOf(e, guest) # None
    PROVE  /\ TreeOf(e, guest) \in {enf[e].storage.workspace, enf[e].storage.inputs, enf[e].storage.cache}
           /\ Under(guest, TreeOf(e, guest))
<1> DEFINE trees == {t \in ToSet(Trees(enf[e].storage)) : guest # Unsafe /\ Under(guest, t)}
<1>1. TreeOf(e, guest) = IF trees = {} THEN None ELSE CHOOSE t \in trees : TRUE
  BY DEF TreeOf
<1>2. TreeOf(e, guest) \in trees
  <2> HIDE DEF trees
  <2> QED
    BY <1>1
<1>3. TreeOf(e, guest) \in ToSet(Trees(enf[e].storage)) /\ Under(guest, TreeOf(e, guest))
  BY <1>2
<1> QED
  BY <1>3, TreesDeclared

\* What is writable is the workspace, or the cache of a run that is not an evaluation.
LEMMA WritableIsConfined ==
    ASSUME NEW e \in Enforcers, NEW guest, TreeOf(e, guest) # None, StorageValid(enf[e].storage),
           Access(e, TreeOf(e, guest)) = "read_write"
    PROVE  \/ Under(guest, enf[e].storage.workspace)
           \/ enf[e].storage.phase # "evaluation" /\ Under(guest, enf[e].storage.cache)
<1> DEFINE t == TreeOf(e, guest)
<1>1. t \in {enf[e].storage.workspace, enf[e].storage.inputs, enf[e].storage.cache} /\ Under(guest, t)
  BY TreeIsDeclared
<1> HIDE DEF t
<1>2. CASE t = enf[e].storage.workspace
  BY <1>1, <1>2
<1>3. CASE t = enf[e].storage.inputs /\ t # enf[e].storage.workspace
  <2>1. Access(e, t) = "read_only"
    BY <1>3 DEF Access
  <2> QED
    BY <2>1 DEF t
<1>4. CASE t # enf[e].storage.inputs /\ t # enf[e].storage.workspace
  <2>1. enf[e].storage.access = "read_write"
    BY <1>4 DEF Access, t
  <2>2. enf[e].storage.phase # "evaluation"
    BY <2>1 DEF StorageValid
  <2> QED
    BY <1>1, <1>4, <2>2
<1> QED
  BY <1>2, <1>3, <1>4

LEMMA MountsTyped ==
    ASSUME NEW e \in Enforcers, enf[e].storage \in Storages
    PROVE  Mounts(e) \in Seq(MountSpecs) /\ Mounts(e) # <<>>
<1> DEFINE s == enf[e].storage
           m1 == [host |-> <<>>, guest |-> s.workspace, mode |-> "rw"]
           m2 == [host |-> <<"inputs">>, guest |-> s.inputs, mode |-> "ro"]
           m3 == [host |-> <<"cache">>, guest |-> s.cache, mode |-> Mode(s.access)]
           a == <<m1, m2>>
           b == IF s.cache = None THEN <<>> ELSE <<m3>>
<1>1. m1 \in MountSpecs /\ m2 \in MountSpecs /\ m3 \in MountSpecs
  BY DEF MountSpecs, Mode
<1>2. Mounts(e) = a \o b
  BY DEF Mounts
<1> HIDE DEF m1, m2, m3
<1>3. a \in Seq(MountSpecs) /\ b \in Seq(MountSpecs) /\ Len(a) = 2
  BY <1>1
<1> HIDE DEF a, b
<1>4. a \o b \in Seq(MountSpecs) /\ Len(a \o b) = 2 + Len(b) /\ Len(b) \in Nat
  <2> DEFINE n == Len(a \o b)
  <2>1. a \o b \in Seq(MountSpecs) /\ n = Len(a) + Len(b)
    BY <1>3, ConcatProperties
  <2>2. Len(b) \in Nat
    BY <1>3, LenProperties
  <2> QED
    BY <1>3, <2>1, <2>2
<1>5. Len(a \o b) # 0
  BY <1>4
<1> QED
  BY <1>2, <1>4, <1>5

-----------------------------------------------------------------------------
(***************************************************************************)
(* The steps of a call.                                                    *)
(***************************************************************************)
LEMMA BeginStep ==
    ASSUME PolicyInd, NEW e \in Enforcers, Begin(e)
    PROVE  PolicyInd'
<1>0. /\ enf \in [Enforcers -> EnforcerStates] /\ enf[e] \in EnforcerStates
      /\ call \in [Enforcers -> CallStates] /\ call[e].at = "idle"
      /\ allowed = [d \in Enforcers |-> allowed[d]] /\ egress \in [Enforcers -> Nat]
      /\ receipts \subseteq PolicyReceipts /\ EnforcerOK(e) /\ enf[e].made
      /\ PolicyOK(enf[e].storage, enf[e].network)
      /\ UNCHANGED <<now, enf, receipts, link, wiper, egress>>
      /\ allowed' = [allowed EXCEPT ![e] = NothingAllowed]
  BY EnforcerFacts DEF Begin
<1>1. PICK q \in Requests[e] :
         IF _common_denial(e, q.digest) \/ (q.op = "digest" /\ q.digest = None)
         THEN UNCHANGED call
         ELSE call' = [call EXCEPT ![e] = [at |-> q.op, request |-> q,
                                           left |-> IF q.op = "launch" THEN Mounts(e) ELSE <<>>,
                                           over |-> Over(e, q.op)]]
  BY DEF Begin
<1>2. allowed'[e] = NothingAllowed /\ allowed' = [d \in Enforcers |-> allowed'[d]] /\ Alone(allowed', allowed, e)
  BY <1>0 DEF Alone
<1>3. /\ call' \in [Enforcers -> CallStates] /\ Alone(call', call, e)
      /\ call'[e].at # "idle" => call'[e].request \in Requests[e]
      /\ call'[e].over => /\ call'[e].at \in {"launch", "network", "publish"} /\ _network_expiry(e)
                          /\ call'[e].at = "launch" => call'[e].left = Mounts(e)
  <2>1. CASE call' = call
    BY <1>0, <2>1 DEF Alone, EnforcerOK, OnTime
  <2>2. CASE call' # call
    <3> DEFINE left == IF q.op = "launch" THEN Mounts(e) ELSE <<>>
               over == Over(e, q.op)
               r == [at |-> q.op, request |-> q, left |-> left, over |-> over]
    <3>1. call' = [call EXCEPT ![e] = r] /\ ~_common_denial(e, q.digest)
      BY <1>1, <2>2
    <3>2. left \in Seq(MountSpecs) /\ (q.op = "launch" => left = Mounts(e))
      <4>1. <<>> \in Seq(MountSpecs)
        OBVIOUS
      <4> QED
        BY <1>0, <4>1, MountsTyped DEF PolicyOK
    <3>3. over => q.op \in {"launch", "network", "publish"} /\ _network_expiry(e)
      BY <3>1 DEF Over, _common_denial
    <3>4. over \in BOOLEAN
      BY DEF Over
    <3> HIDE DEF left, over
    <3>5. r \in CallStates /\ r.at = q.op /\ r.request = q /\ r.left = left /\ r.over = over
      BY <3>2, <3>4 DEF CallStates
    <3> HIDE DEF r
    <3>6. call'[e] = r /\ call' \in [Enforcers -> CallStates] /\ Alone(call', call, e)
      BY <1>0, <3>1, <3>5 DEF Alone
    <3> QED
      BY <3>2, <3>3, <3>5, <3>6
  <2> QED
    BY <2>1, <2>2
<1>4. EnforcerOK(e)'
  <2>1. Fresh(e)' /\ Counted(e)' /\ Wiping(e)'
    BY <1>0, <1>3 DEF EnforcerOK, Fresh, Counted, Wiping
  <2>2. Backed(e)'
    BY <1>0 DEF EnforcerOK, Backed, Digest
  <2>3. OnTime(e)'
    <3>1. _network_expiry(e)' = _network_expiry(e)
      BY <1>0 DEF _network_expiry, Clock, ReadClock
    <3>2. ~allowed'[e].over
      BY <1>2 DEF NothingAllowed
    <3>3. Mounts(e)' = Mounts(e)
      BY <1>0 DEF Mounts
    <3> QED
      BY <1>3, <3>1, <3>2, <3>3 DEF OnTime
  <2>4. Confined(e)'
    BY <1>2 DEF Confined, NothingAllowed
  <2> QED
    BY <2>1, <2>2, <2>3, <2>4 DEF EnforcerOK
<1>5. /\ enf' \in [Enforcers -> EnforcerStates] /\ Alone(enf', enf, e) /\ SameWipe(enf'[e], enf[e])
      /\ egress' \in [Enforcers -> Nat] /\ Alone(egress', egress, e)
      /\ receipts' \subseteq PolicyReceipts /\ receipts \subseteq receipts'
      /\ enf'[e].made => PolicyOK(enf'[e].storage, enf'[e].network)
  BY <1>0 DEF Alone, SameWipe
<1> QED
  BY <1>0, <1>2, <1>3, <1>4, <1>5, DecideStep

\* An allowance of a call that began in time, for what is the run's own.
LEMMA AllowStep ==
    ASSUME PolicyInd, NEW e \in Enforcers, NEW host, NEW guest, NEW mode, call[e].at # "idle", ~call[e].over,
           Record(e, host, guest, mode), Finish(e), host # Outside,
           mode = "rw" => \/ Under(guest, enf[e].storage.workspace)
                          \/ enf[e].storage.phase # "evaluation" /\ Under(guest, enf[e].storage.cache),
           enf' \in [Enforcers -> EnforcerStates], Alone(enf', enf, e),
           SamePolicy(enf'[e], enf[e]), SameWipe(enf'[e], enf[e]),
           egress' \in [Enforcers -> Nat], Alone(egress', egress, e),
           receipts' \subseteq PolicyReceipts, receipts \subseteq receipts', UNCHANGED <<now, wiper>>,
           Counted(e)', Backed(e)'
    PROVE  PolicyInd'
<1>0. /\ call \in [Enforcers -> CallStates] /\ EnforcerOK(e) /\ allowed = [d \in Enforcers |-> allowed[d]]
      /\ enf[e].made /\ PolicyOK(enf[e].storage, enf[e].network)
  BY EnforcerFacts DEF EnforcerOK, Fresh
<1> DEFINE r == [op |-> call[e].at, over |-> call[e].over, host |-> host, guest |-> guest, mode |-> mode]
<1>1. allowed' = [allowed EXCEPT ![e] = r]
  BY DEF Record
<1>2. ~r.over /\ r.host = host /\ r.guest = guest /\ r.mode = mode
  OBVIOUS
<1> HIDE DEF r
<1>3. /\ allowed'[e] = r /\ allowed' = [d \in Enforcers |-> allowed'[d]] /\ Alone(allowed', allowed, e)
  BY <1>0, <1>1 DEF Alone
<1>4. call'[e] = NoCall /\ call' \in [Enforcers -> CallStates] /\ Alone(call', call, e)
  BY <1>0, NoCallTyped DEF Finish, Alone
<1>5. EnforcerOK(e)'
  <2>1. Fresh(e)'
    BY <1>0, <1>4, NoCallTyped DEF Fresh, SamePolicy
  <2>2. Wiping(e)'
    BY <1>0 DEF EnforcerOK, Wiping, SameWipe
  <2>3. OnTime(e)'
    BY <1>2, <1>3, <1>4, NoCallTyped DEF OnTime
  <2>4. Confined(e)'
    BY <1>2, <1>3 DEF Confined, SamePolicy
  <2> QED
    BY <2>1, <2>2, <2>3, <2>4 DEF EnforcerOK
<1>6. enf'[e].made => PolicyOK(enf'[e].storage, enf'[e].network)
  BY <1>0 DEF SamePolicy
<1> QED
  BY <1>3, <1>4, <1>5, <1>6, DecideStep

\* The allowances that leave the enforcer's own state and its count alone.
LEMMA PlainAllowStep ==
    ASSUME PolicyInd, NEW e \in Enforcers, NEW host, NEW guest, NEW mode, call[e].at # "idle", ~call[e].over,
           Record(e, host, guest, mode), Finish(e), host # Outside,
           mode = "rw" => \/ Under(guest, enf[e].storage.workspace)
                          \/ enf[e].storage.phase # "evaluation" /\ Under(guest, enf[e].storage.cache),
           receipts' \subseteq PolicyReceipts, receipts \subseteq receipts', UNCHANGED <<now, wiper, enf, egress>>
    PROVE  PolicyInd'
<1>0. enf \in [Enforcers -> EnforcerStates] /\ EnforcerOK(e) /\ egress \in [Enforcers -> Nat]
  BY EnforcerFacts
<1>1. Counted(e)' /\ Backed(e)'
  BY <1>0 DEF EnforcerOK, Counted, Backed, Digest
<1>2. /\ enf' \in [Enforcers -> EnforcerStates] /\ Alone(enf', enf, e)
      /\ SamePolicy(enf'[e], enf[e]) /\ SameWipe(enf'[e], enf[e])
      /\ egress' \in [Enforcers -> Nat] /\ Alone(egress', egress, e)
  BY <1>0 DEF Alone, SamePolicy, SameWipe
<1> QED
  BY <1>1, <1>2, AllowStep

\* A call with no test of the network's time to pass began in time.
LEMMA BeganInTime ==
    ASSUME PolicyInd, NEW e \in Enforcers,
           \/ call[e].at \notin {"launch", "network", "publish"}
           \/ ~_network_expiry(e)
           \/ call[e].at = "launch" /\ call[e].left # Mounts(e)
           \/ call[e].at = "launch" /\ call[e].left = <<>>
    PROVE  ~call[e].over
<1>1. call[e].at = "launch" => Mounts(e) # <<>>
  BY EnforcerFacts, MountsTyped DEF EnforcerOK, Fresh, PolicyOK
<1> QED
  BY <1>1, EnforcerFacts DEF EnforcerOK, OnTime

LEMMA ReceiptTyped ==
    ASSUME PolicyInd, NEW e \in Enforcers, enf[e].made, NEW op \in {"mount", "launch"}
    PROVE  [op |-> op, digest |-> Digest(e), allowed |-> TRUE] \in PolicyReceipts
<1>1. enf[e].storage \in Storages /\ enf[e].network \in Networks
  BY EnforcerFacts DEF PolicyOK
<1>2. Digest(e) \in Storages \X Networks
  BY <1>1 DEF Digest
<1> HIDE DEF Digest
<1> QED
  BY <1>2 DEF PolicyReceipts

LEMMA DigestStep ==
    ASSUME PolicyInd, NEW e \in Enforcers, check_policy_digest(e)
    PROVE  PolicyInd'
<1>1. /\ call[e].at = "digest" /\ Record(e, None, None, None) /\ Finish(e)
      /\ UNCHANGED <<now, enf, receipts, link, wiper, egress>>
  BY DEF check_policy_digest
<1>2. ~call[e].over
  BY <1>1, BeganInTime
<1>3. None # Outside /\ None # "rw" /\ receipts' \subseteq PolicyReceipts /\ receipts \subseteq receipts'
  BY <1>1, EnforcerFacts
<1> QED
  BY <1>1, <1>2, <1>3, PlainAllowStep

LEMMA MountStep ==
    ASSUME PolicyInd, NEW e \in Enforcers, check_mount(e)
    PROVE  PolicyInd'
<1> DEFINE q == call[e].request
           host == Resolve(e, q.host)
           tree == TreeOf(e, q.guest)
           receipt == [op |-> "mount", digest |-> Digest(e), allowed |-> TRUE]
<1>1. call[e].at = "mount" /\ UNCHANGED <<now, link, wiper>> /\ ~call[e].over
  BY BeganInTime DEF check_mount
<1>2. CASE ~MountFits(e, q.host, q.guest, q.mode)
  BY <1>1, <1>2, DenyStep DEF check_mount
<1>3. CASE MountFits(e, q.host, q.guest, q.mode)
  <2>1. /\ Record(e, host, q.guest, q.mode) /\ receipts' = receipts \cup {receipt} /\ Finish(e)
        /\ UNCHANGED <<enf, egress>>
    BY <1>3 DEF check_mount
  <2>2. host # Outside /\ tree # None /\ q.mode = Mode(Access(e, tree))
    BY <1>3 DEF MountFits, Safe
  <2>3. enf[e].made /\ StorageValid(enf[e].storage) /\ receipts \subseteq PolicyReceipts
    BY <1>1, EnforcerFacts DEF EnforcerOK, Fresh, PolicyOK
  <2>4. q.mode = "rw" => \/ Under(q.guest, enf[e].storage.workspace)
                         \/ enf[e].storage.phase # "evaluation" /\ Under(q.guest, enf[e].storage.cache)
    <3>1. q.mode = "rw" => Access(e, tree) = "read_write"
      BY <2>2 DEF Mode
    <3> QED
      BY <2>2, <2>3, <3>1, WritableIsConfined
  <2>5. receipt \in PolicyReceipts
    BY <2>3, ReceiptTyped
  <2>6. receipts' \subseteq PolicyReceipts /\ receipts \subseteq receipts'
    <3> HIDE DEF receipt
    <3> QED
      BY <2>1, <2>3, <2>5
  <2> HIDE DEF host, q, tree, receipt
  <2> QED
    BY <1>1, <2>1, <2>2, <2>4, <2>6, PlainAllowStep
<1> QED
  BY <1>2, <1>3

LEMMA StorageStep ==
    ASSUME PolicyInd, NEW e \in Enforcers, check_storage(e)
    PROVE  PolicyInd'
<1> DEFINE q == call[e].request
           host == IF q.host = None THEN None ELSE Resolve(e, q.host)
           mode == IF q.mode = "write" THEN "rw" ELSE "ro"
           tree == TreeOf(e, q.guest)
<1>1. call[e].at = "storage" /\ UNCHANGED <<now, link, wiper>> /\ ~call[e].over
  BY BeganInTime DEF check_storage
<1>2. CASE ~PathFits(e, q)
  BY <1>1, <1>2, DenyStep DEF check_storage
<1>3. CASE PathFits(e, q)
  <2>1. /\ Record(e, host, q.guest, mode) /\ Finish(e) /\ UNCHANGED <<enf, receipts, egress>>
    BY <1>3 DEF check_storage
  <2>2. host # Outside
    BY <1>3 DEF PathFits, Safe
  <2>3. tree # None /\ (q.mode = "write" => Access(e, tree) = "read_write")
    BY <1>3 DEF PathFits
  <2>4. enf[e].made /\ StorageValid(enf[e].storage) /\ receipts \subseteq PolicyReceipts
    BY <1>1, EnforcerFacts DEF EnforcerOK, Fresh, PolicyOK
  <2>5. mode = "rw" => \/ Under(q.guest, enf[e].storage.workspace)
                       \/ enf[e].storage.phase # "evaluation" /\ Under(q.guest, enf[e].storage.cache)
    <3>1. mode = "rw" => Access(e, tree) = "read_write"
      BY <2>3
    <3> QED
      BY <2>3, <2>4, <3>1, WritableIsConfined
  <2>6. receipts' \subseteq PolicyReceipts /\ receipts \subseteq receipts'
    BY <2>1, <2>4
  <2> HIDE DEF host, q, tree, mode
  <2> QED
    BY <1>1, <2>1, <2>2, <2>5, <2>6, PlainAllowStep
<1> QED
  BY <1>2, <1>3

\* The bytes of an allowed request are counted, and the count stays within the limit.
LEMMA NetworkStep ==
    ASSUME PolicyInd, NEW e \in Enforcers, check_network(e)
    PROVE  PolicyInd'
<1> DEFINE q == call[e].request
<1>0. /\ enf \in [Enforcers -> EnforcerStates] /\ enf[e] \in EnforcerStates /\ EnforcerOK(e)
      /\ egress \in [Enforcers -> Nat] /\ egress[e] \in Nat /\ enf[e].bytes \in Nat /\ receipts \subseteq PolicyReceipts
  BY EnforcerFacts
<1>1. call[e].at = "network" /\ UNCHANGED <<now, link, wiper>>
  BY DEF check_network
<1>2. CASE ~NetworkFits(e, q)
  BY <1>1, <1>2, DenyStep DEF check_network
<1>3. CASE NetworkFits(e, q)
  <2> DEFINE n == q.bytes
             r == [enf[e] EXCEPT !.bytes = enf[e].bytes + n]
  <2>1. /\ enf' = [enf EXCEPT ![e] = r] /\ egress' = [egress EXCEPT ![e] = egress[e] + n]
        /\ Record(e, None, None, None) /\ Finish(e) /\ UNCHANGED receipts
    BY <1>0, <1>3 DEF check_network
  <2>2. ~_network_expiry(e) /\ enf[e].bytes + n <= enf[e].network.maxBytes
    BY <1>3 DEF NetworkFits
  <2>3. ~call[e].over
    BY <2>2, BeganInTime
  <2>4. n \in Nat
    BY <1>0, <1>1 DEF EnforcerOK, Fresh
  <2>5. enf[e].bytes + n \in Nat /\ egress[e] + n \in Nat /\ egress[e] = enf[e].bytes
    BY <1>0, <2>4 DEF EnforcerOK, Counted
  <2> HIDE DEF n
  <2>6. r \in EnforcerStates
    BY <1>0, <2>5 DEF EnforcerStates
  <2>7. /\ SamePolicy(r, enf[e]) /\ SameWipe(r, enf[e]) /\ r.bytes = enf[e].bytes + n
        /\ r.launch = enf[e].launch /\ r.published = enf[e].published
    BY <1>0 DEF EnforcerStates, SamePolicy, SameWipe
  <2> HIDE DEF r, q
  <2>8. enf'[e] = r /\ enf' \in [Enforcers -> EnforcerStates] /\ Alone(enf', enf, e)
    BY <1>0, <2>1, <2>6 DEF Alone
  <2>9. egress'[e] = egress[e] + n /\ egress' \in [Enforcers -> Nat] /\ Alone(egress', egress, e)
    BY <1>0, <2>1, <2>5 DEF Alone
  <2>10. Counted(e)'
    BY <2>2, <2>5, <2>7, <2>8, <2>9 DEF Counted, SamePolicy
  <2>11. Backed(e)'
    BY <1>0, <2>1, <2>7, <2>8 DEF EnforcerOK, Backed, Digest, SamePolicy
  <2>12. None # Outside /\ None # "rw" /\ receipts' \subseteq PolicyReceipts /\ receipts \subseteq receipts'
    BY <1>0, <2>1
  <2>13. call[e].at # "idle" /\ SamePolicy(enf'[e], enf[e]) /\ SameWipe(enf'[e], enf[e])
    BY <1>1, <2>7, <2>8
  <2> QED
    BY <1>1, <2>1, <2>3, <2>8, <2>9, <2>10, <2>11, <2>12, <2>13, AllowStep
<1> QED
  BY <1>2, <1>3

\* A mount of the launch passes its tests, the one of the network's time among them,
\* or the launch is denied.
LEMMA LaunchMountStep ==
    ASSUME PolicyInd, NEW e \in Enforcers, LaunchMount(e)
    PROVE  PolicyInd'
<1>0. /\ enf \in [Enforcers -> EnforcerStates] /\ call \in [Enforcers -> CallStates] /\ call[e] \in CallStates
      /\ allowed = [d \in Enforcers |-> allowed[d]] /\ egress \in [Enforcers -> Nat]
      /\ receipts \subseteq PolicyReceipts /\ EnforcerOK(e)
      /\ enf[e].made => PolicyOK(enf[e].storage, enf[e].network)
  BY EnforcerFacts
<1>1. call[e].at = "launch" /\ call[e].left # <<>> /\ UNCHANGED <<now, link, wiper>>
  BY DEF LaunchMount
<1>2. CASE Deny(e)
  BY <1>1, <1>2, DenyStep
<1>3. CASE ~Deny(e)
  <2> DEFINE left == call[e].left
             r == [call[e] EXCEPT !.left = Tail(left)]
  <2>1. /\ ~_network_expiry(e) \/ call[e].left # Mounts(e)
        /\ call' = [call EXCEPT ![e].left = Tail(@)]
        /\ UNCHANGED <<enf, receipts, allowed, egress>>
    BY <1>3 DEF LaunchMount
  <2>2. ~call[e].over
    BY <1>1, <2>1, BeganInTime
  <2>3. left \in Seq(MountSpecs)
    BY <1>0 DEF CallStates
  <2>4. Tail(left) \in Seq(MountSpecs)
    <3> HIDE DEF left
    <3> QED
      BY <1>1, <2>3 DEF left
  <2>5. call' = [call EXCEPT ![e] = r]
    BY <1>0, <2>1
  <2> HIDE DEF left
  <2>6. r \in CallStates
    BY <1>0, <2>4 DEF CallStates
  <2>7. r.at = call[e].at /\ r.request = call[e].request /\ r.over = call[e].over
    BY <1>0 DEF CallStates
  <2> HIDE DEF r
  <2>8. call'[e] = r /\ call' \in [Enforcers -> CallStates] /\ Alone(call', call, e)
    BY <1>0, <2>5, <2>6 DEF Alone
  <2>9. EnforcerOK(e)'
    <3>1. Fresh(e)' /\ Counted(e)' /\ Wiping(e)' /\ Confined(e)'
      BY <1>0, <2>1, <2>7, <2>8 DEF EnforcerOK, Fresh, Counted, Wiping, Confined
    <3>2. Backed(e)'
      BY <1>0, <2>1 DEF EnforcerOK, Backed, Digest
    <3>3. OnTime(e)'
      BY <1>0, <2>1, <2>2, <2>7, <2>8 DEF EnforcerOK, OnTime
    <3> QED
      BY <3>1, <3>2, <3>3 DEF EnforcerOK
  <2>10. /\ enf' \in [Enforcers -> EnforcerStates] /\ Alone(enf', enf, e)
         /\ allowed' = [d \in Enforcers |-> allowed'[d]] /\ Alone(allowed', allowed, e)
         /\ egress' \in [Enforcers -> Nat] /\ Alone(egress', egress, e)
         /\ receipts' \subseteq PolicyReceipts /\ receipts \subseteq receipts' /\ SameWipe(enf'[e], enf[e])
         /\ enf'[e].made => PolicyOK(enf'[e].storage, enf'[e].network)
    BY <1>0, <2>1 DEF Alone, SameWipe
  <2> QED
    BY <1>1, <2>8, <2>9, <2>10, DecideStep
<1> QED
  BY <1>2, <1>3

\* The launch receipt an enforcer keeps is one that was issued.
LEMMA LaunchStep ==
    ASSUME PolicyInd, NEW e \in Enforcers, before_launch(e)
    PROVE  PolicyInd'
<1> DEFINE receipt == [op |-> "launch", digest |-> Digest(e), allowed |-> TRUE]
           r == [enf[e] EXCEPT !.launch = receipt]
<1>0. /\ enf \in [Enforcers -> EnforcerStates] /\ enf[e] \in EnforcerStates /\ EnforcerOK(e)
      /\ egress \in [Enforcers -> Nat] /\ receipts \subseteq PolicyReceipts
  BY EnforcerFacts
<1>1. /\ call[e].at = "launch" /\ call[e].left = <<>> /\ enf' = [enf EXCEPT ![e] = r]
      /\ receipts' = receipts \cup {receipt} /\ Record(e, None, None, None) /\ Finish(e)
      /\ UNCHANGED <<now, link, wiper, egress>>
  BY <1>0 DEF before_launch
<1>2. ~call[e].over /\ enf[e].made
  BY <1>0, <1>1, BeganInTime DEF EnforcerOK, Fresh
<1>3. receipt \in PolicyReceipts
  BY <1>2, ReceiptTyped
<1>4. r \in EnforcerStates
  <2> HIDE DEF receipt
  <2> QED
    BY <1>0, <1>3 DEF EnforcerStates
<1>5. /\ SamePolicy(r, enf[e]) /\ SameWipe(r, enf[e]) /\ r.bytes = enf[e].bytes /\ r.published = enf[e].published
      /\ r.launch = receipt
  BY <1>0 DEF EnforcerStates, SamePolicy, SameWipe
<1> HIDE DEF r
<1>6. enf'[e] = r /\ enf' \in [Enforcers -> EnforcerStates] /\ Alone(enf', enf, e)
  BY <1>0, <1>1, <1>4 DEF Alone
<1>7. receipts' \subseteq PolicyReceipts /\ receipts \subseteq receipts' /\ receipt \in receipts'
  <2> HIDE DEF receipt
  <2> QED
    BY <1>0, <1>1, <1>3
<1>8. Counted(e)'
  BY <1>0, <1>1, <1>5, <1>6 DEF EnforcerOK, Counted, SamePolicy
<1>9. Backed(e)'
  <2>1. Digest(e)' = Digest(e)
    BY <1>5, <1>6 DEF Digest, SamePolicy
  <2>2. enf'[e].launch \in receipts'
    <3> HIDE DEF receipt
    <3> QED
      BY <1>5, <1>6, <1>7
  <2>3. [op |-> "launch", digest |-> Digest(e)', allowed |-> TRUE] \in receipts'
    BY <1>7, <2>1
  <2> QED
    BY <2>2, <2>3 DEF Backed
<1>10. /\ None # Outside /\ None # "rw" /\ call[e].at # "idle" /\ egress' \in [Enforcers -> Nat]
       /\ Alone(egress', egress, e) /\ SamePolicy(enf'[e], enf[e]) /\ SameWipe(enf'[e], enf[e])
  BY <1>0, <1>1, <1>5, <1>6 DEF Alone
<1> HIDE DEF receipt
<1> QED
  BY <1>1, <1>2, <1>6, <1>7, <1>8, <1>9, <1>10, AllowStep

\* A receipt that fits the policy of an enforcer is the launch receipt of that policy.
LEMMA FittingReceipt ==
    ASSUME PolicyInd, NEW e \in Enforcers, NEW r \in {enf[e].launch} \cup receipts, LaunchReceiptFits(e, r)
    PROVE  [op |-> "launch", digest |-> Digest(e), allowed |-> TRUE] \in receipts
<1>1. r \in receipts
  BY EnforcerFacts DEF EnforcerOK, Backed, LaunchReceiptFits
<1>2. r \in PolicyReceipts /\ r.op = "launch" /\ r.digest = Digest(e)
  BY <1>1, EnforcerFacts DEF LaunchReceiptFits
<1> HIDE DEF Digest
<1>3. r = [op |-> "launch", digest |-> Digest(e), allowed |-> TRUE]
  BY <1>2 DEF PolicyReceipts
<1> QED
  BY <1>1, <1>3

LEMMA PublicationStep ==
    ASSUME PolicyInd, NEW e \in Enforcers, before_publication(e)
    PROVE  PolicyInd'
<1> DEFINE r == [enf[e] EXCEPT !.published = TRUE]
<1>0. /\ enf \in [Enforcers -> EnforcerStates] /\ enf[e] \in EnforcerStates /\ EnforcerOK(e)
      /\ egress \in [Enforcers -> Nat] /\ receipts \subseteq PolicyReceipts
  BY EnforcerFacts
<1>1. call[e].at = "publish" /\ UNCHANGED <<now, link, wiper>>
  BY DEF before_publication
<1>2. CASE Deny(e)
  BY <1>1, <1>2, DenyStep
<1>3. CASE ~Deny(e)
  <2>1. PICK k \in {enf[e].launch} \cup receipts :
          /\ LaunchReceiptFits(e, k) /\ ~_network_expiry(e)
          /\ enf' = [enf EXCEPT ![e].published = TRUE] /\ Record(e, None, None, None) /\ Finish(e)
          /\ UNCHANGED <<receipts, egress>>
    BY <1>3 DEF before_publication
  <2>2. ~call[e].over
    BY <2>1, BeganInTime
  <2>3. [op |-> "launch", digest |-> Digest(e), allowed |-> TRUE] \in receipts
    BY <2>1, FittingReceipt
  <2>4. enf' = [enf EXCEPT ![e] = r]
    BY <1>0, <2>1
  <2>5. r \in EnforcerStates
    BY <1>0 DEF EnforcerStates
  <2>6. /\ SamePolicy(r, enf[e]) /\ SameWipe(r, enf[e]) /\ r.bytes = enf[e].bytes /\ r.launch = enf[e].launch
    BY <1>0 DEF EnforcerStates, SamePolicy, SameWipe
  <2> HIDE DEF r
  <2>7. enf'[e] = r /\ enf' \in [Enforcers -> EnforcerStates] /\ Alone(enf', enf, e)
    BY <1>0, <2>4, <2>5 DEF Alone
  <2>8. Counted(e)'
    BY <1>0, <2>1, <2>6, <2>7 DEF EnforcerOK, Counted, SamePolicy
  <2>9. Backed(e)'
    <3>1. Digest(e)' = Digest(e)
      BY <2>6, <2>7 DEF Digest, SamePolicy
    <3>2. enf'[e].launch # None => enf'[e].launch \in receipts'
      BY <1>0, <2>1, <2>6, <2>7 DEF EnforcerOK, Backed
    <3>3. [op |-> "launch", digest |-> Digest(e)', allowed |-> TRUE] \in receipts'
      BY <2>1, <2>3, <3>1
    <3> QED
      BY <3>2, <3>3 DEF Backed
  <2>10. /\ None # Outside /\ None # "rw" /\ call[e].at # "idle" /\ egress' \in [Enforcers -> Nat]
         /\ Alone(egress', egress, e) /\ SamePolicy(enf'[e], enf[e]) /\ SameWipe(enf'[e], enf[e])
         /\ receipts' \subseteq PolicyReceipts /\ receipts \subseteq receipts'
    BY <1>0, <1>1, <2>1, <2>6, <2>7 DEF Alone
  <2> QED
    BY <1>1, <2>1, <2>2, <2>7, <2>8, <2>9, <2>10, AllowStep
<1> QED
  BY <1>2, <1>3

-----------------------------------------------------------------------------
(***************************************************************************)
(* Wipes, the guest, and time.                                             *)
(***************************************************************************)

\* A thread's step in a wipe of one enforcer.
LEMMA WiperStep ==
    ASSUME PolicyInd, NEW e \in Enforcers, NEW w \in Wipers, NEW at \in {"idle", "callback", "returned", "marked"},
           At(w, e, at), wiper[w].at = "idle" \/ wiper[w].target = e,
           enf' \in [Enforcers -> EnforcerStates], Alone(enf', enf, e), SamePolicy(enf'[e], enf[e]),
           enf'[e].bytes = enf[e].bytes, enf'[e].launch = enf[e].launch, enf'[e].published = enf[e].published,
           enf[e].made, enf[e].lock \in {None, w}, enf'[e].lock \in {None, w}, at = "callback" <=> enf'[e].lock = w,
           enf[e].receipt # None => enf'[e].receipt = enf[e].receipt,
           enf[e].callbacks = 1 => enf'[e].callbacks = 1,
           Wiping(e)', WiperDone(w)', UNCHANGED <<now, call, receipts, allowed, egress>>
    PROVE  PolicyInd'
<1>0. /\ TypeOK /\ allowed = [d \in Enforcers |-> allowed[d]]
      /\ (\A d \in Enforcers : EnforcerOK(d)) /\ (\A v \in Wipers : WiperDone(v))
  BY DEF PolicyInd
<1> DEFINE r == [at |-> at, target |-> e]
<1>1. wiper' = [wiper EXCEPT ![w] = r]
  BY DEF At
<1>2. wiper \in [Wipers -> [at : {"idle", "callback", "returned", "marked"}, target : Enforcers \cup {None}]]
  BY <1>0 DEF TypeOK
<1>3. r \in [at : {"idle", "callback", "returned", "marked"}, target : Enforcers \cup {None}]
      /\ r.at = at /\ r.target = e
  OBVIOUS
<1>4. /\ wiper'[w] = r /\ \A v \in Wipers : v # w => wiper'[v] = wiper[v]
      /\ wiper' \in [Wipers -> [at : {"idle", "callback", "returned", "marked"}, target : Enforcers \cup {None}]]
  <2> HIDE DEF r
  <2> QED
    BY <1>1, <1>2, <1>3
<1>5. TypeOK'
  <2>1. ASSUME NEW d \in Enforcers, NEW v \in Wipers
        PROVE  enf'[d].lock = v <=> wiper'[v] = [at |-> "callback", target |-> d]
    <3>0. enf[d].lock = v <=> wiper[v] = [at |-> "callback", target |-> d]
      BY <1>0 DEF TypeOK
    <3>1. CASE v = w /\ d = e
      BY <1>4, <3>1
    <3>2. CASE v = w /\ d # e
      <4>1. enf'[d].lock = enf[d].lock
        BY <3>2 DEF Alone
      <4>2. enf[d].lock # v
        BY <3>0, <3>2
      <4>3. wiper'[v] # [at |-> "callback", target |-> d]
        BY <1>3, <1>4, <3>2
      <4> QED
        BY <4>1, <4>2, <4>3
    <3>3. CASE v # w /\ d # e
      BY <1>4, <3>0, <3>3 DEF Alone
    <3>4. CASE v # w /\ d = e
      BY <1>4, <3>0, <3>4
    <3> QED
      BY <3>1, <3>2, <3>3, <3>4
  <2>2. \A d \in Enforcers : enf'[d].made => PolicyOK(enf'[d].storage, enf'[d].network)
    BY <1>0 DEF TypeOK, Alone, PolicyOK, SamePolicy
  <2>3. ASSUME NEW d \in Enforcers
        PROVE  (enf[d].made => /\ enf[d].storage \in Storages /\ StorageValid(enf[d].storage)
                               /\ enf[d].network \in Networks /\ NetworkValid(enf[d].network))'
    BY <2>2 DEF PolicyOK, StorageValid, NetworkValid
  <2>4. /\ now' \in Boot..MaxTime /\ call' \in [Enforcers -> CallStates]
        /\ receipts' \subseteq PolicyReceipts /\ egress' \in [Enforcers -> Nat]
    BY <1>0 DEF TypeOK
  <2> QED
    BY <1>4, <2>1, <2>3, <2>4 DEF TypeOK
<1>6. ASSUME NEW d \in Enforcers PROVE EnforcerOK(d)'
  <2>0. EnforcerOK(d) /\ call'[d] = call[d] /\ allowed'[d] = allowed[d] /\ egress'[d] = egress[d] /\ now' = now
    BY <1>0
  <2>1. /\ SamePolicy(enf'[d], enf[d]) /\ enf'[d].bytes = enf[d].bytes /\ enf'[d].launch = enf[d].launch
        /\ enf'[d].published = enf[d].published /\ (enf'[d] = enf[d] \/ enf'[d].made)
    BY DEF Alone, SamePolicy
  <2>2. Fresh(d)' /\ Counted(d)'
    BY <2>0, <2>1 DEF EnforcerOK, Fresh, Counted, SamePolicy
  <2>3. Backed(d)'
    BY <2>0, <2>1 DEF EnforcerOK, Backed, Digest, SamePolicy
  <2>4. OnTime(d)'
    BY <2>0, <2>1 DEF EnforcerOK, OnTime, Mounts, _network_expiry, Clock, ReadClock, SamePolicy
  <2>5. Confined(d)'
    BY <2>0, <2>1 DEF EnforcerOK, Confined, SamePolicy
  <2>6. Wiping(d)'
    BY <2>0 DEF EnforcerOK, Wiping, Alone
  <2> QED
    BY <2>2, <2>3, <2>4, <2>5, <2>6 DEF EnforcerOK
<1>7. ASSUME NEW v \in Wipers, v # w PROVE WiperDone(v)'
  <2>1. wiper'[v] = wiper[v] /\ WiperDone(v)
    BY <1>0, <1>4, <1>7
  <2>2. ASSUME wiper[v].at = "returned"
        PROVE  /\ wiper[v].target \in Enforcers /\ enf'[wiper[v].target].receipt # None
               /\ enf'[wiper[v].target].receipt = "wiped" => enf'[wiper[v].target].callbacks = 1
    <3>1. PICK t \in Enforcers : t = wiper[v].target
      BY <2>1, <2>2 DEF WiperDone
    <3>2. enf[t].receipt # None /\ (enf[t].receipt = "wiped" => enf[t].callbacks = 1)
      BY <2>1, <2>2, <3>1 DEF WiperDone
    <3>3. enf'[t].receipt # None /\ (enf'[t].receipt = "wiped" => enf'[t].callbacks = 1)
      BY <3>2 DEF Alone
    <3> QED
      BY <3>1, <3>3
  <2> QED
    BY <2>1, <2>2 DEF WiperDone
<1>8. \A v \in Wipers : WiperDone(v)'
  BY <1>7
<1> QED
  BY <1>0, <1>5, <1>6, <1>8 DEF PolicyInd

\* What a wipe starts from.
LEMMA WipeFacts ==
    ASSUME PolicyInd, NEW e \in Enforcers
    PROVE  /\ enf \in [Enforcers -> EnforcerStates] /\ enf[e] \in EnforcerStates /\ Wiping(e)
           /\ \A w \in Wipers : enf[e].lock = w <=> wiper[w] = [at |-> "callback", target |-> e]
           /\ \A w \in Wipers : WiperDone(w) /\ w # None
           /\ wiper \in [Wipers -> [at : {"idle", "callback", "returned", "marked"}, target : Enforcers \cup {None}]]
           /\ enf[e].callbacks \in {0, 1} /\ enf[e].receipt \in {"wiped", "marked", None}
           /\ enf[e].lock # None => enf[e].made
<1>1. /\ enf \in [Enforcers -> EnforcerStates] /\ enf[e] \in EnforcerStates
      /\ EnforcerOK(e)
  BY EnforcerFacts
<1>2. enf[e].callbacks \in 0..1 /\ enf[e].receipt \in {"wiped", "marked", None}
  BY <1>1 DEF EnforcerStates
<1>3. enf[e].callbacks \in {0, 1}
  BY <1>2
<1>4. enf[e].lock # None => enf[e].made
  BY <1>1 DEF EnforcerOK, Fresh, NoEnforcer
<1>5. Wiping(e)
  BY <1>1 DEF EnforcerOK
<1> QED
  BY <1>1, <1>2, <1>3, <1>4, <1>5 DEF PolicyInd, TypeOK

LEMMA WipeStep ==
    ASSUME PolicyInd, NEW e \in Enforcers, NEW w \in Wipers, wipe(w, e)
    PROVE  PolicyInd'
<1>0. /\ enf \in [Enforcers -> EnforcerStates] /\ enf[e] \in EnforcerStates /\ Wiping(e) /\ w # None
      /\ wiper \in [Wipers -> [at : {"idle", "callback", "returned", "marked"}, target : Enforcers \cup {None}]]
  BY WipeFacts
<1>1. /\ wiper[w].at = "idle" /\ enf[e].made /\ enf[e].lock = None
      /\ UNCHANGED <<now, call, receipts, allowed, egress>>
  BY DEF wipe
<1>2. CASE enf[e].receipt # None
  <2>1. At(w, e, "returned") /\ enf' = enf
    BY <1>2 DEF wipe
  <2>2. wiper'[w].at = "returned" /\ wiper'[w].target = e
    BY <1>0, <2>1 DEF At
  <2>3. WiperDone(w)' /\ Wiping(e)'
    BY <1>0, <1>1, <1>2, <2>1, <2>2 DEF WiperDone, Wiping
  <2>4. /\ enf' \in [Enforcers -> EnforcerStates] /\ Alone(enf', enf, e) /\ SamePolicy(enf'[e], enf[e])
        /\ enf'[e] = enf[e]
    BY <1>0, <2>1 DEF Alone, SamePolicy
  <2> QED
    BY <1>0, <1>1, <2>1, <2>3, <2>4, WiperStep
<1>3. CASE enf[e].receipt = None
  <2> DEFINE r == [enf[e] EXCEPT !.wiped = TRUE, !.receipt = "wiped", !.lock = w]
  <2>1. At(w, e, "callback") /\ enf' = [enf EXCEPT ![e] = r]
    BY <1>0, <1>3 DEF wipe
  <2>2. r \in EnforcerStates
    BY <1>0 DEF EnforcerStates
  <2>3. /\ SamePolicy(r, enf[e]) /\ r.bytes = enf[e].bytes /\ r.launch = enf[e].launch
        /\ r.published = enf[e].published /\ r.wiped /\ r.receipt = "wiped" /\ r.lock = w
        /\ r.callbacks = enf[e].callbacks
    BY <1>0 DEF EnforcerStates, SamePolicy
  <2> HIDE DEF r
  <2>4. enf'[e] = r /\ enf' \in [Enforcers -> EnforcerStates] /\ Alone(enf', enf, e)
    BY <1>0, <2>1, <2>2 DEF Alone
  <2>5. wiper'[w].at = "callback"
    BY <1>0, <2>1 DEF At
  <2>6. enf[e].callbacks = 0
    <3>1. enf[e].callbacks # 1
      BY <1>0, <1>3 DEF Wiping
    <3> QED
      BY <3>1, WipeFacts
  <2>7. WiperDone(w)' /\ Wiping(e)'
    BY <1>0, <2>3, <2>4, <2>5, <2>6 DEF WiperDone, Wiping
  <2> QED
    BY <1>0, <1>1, <1>3, <2>1, <2>3, <2>4, <2>7, WiperStep
<1> QED
  BY <1>2, <1>3

LEMMA CallbackStep ==
    ASSUME PolicyInd, NEW e \in Enforcers, NEW w \in Wipers, Callback(w, e)
    PROVE  PolicyInd'
<1> DEFINE r == [enf[e] EXCEPT !.callbacks = enf[e].callbacks + 1, !.lock = None]
<1>1. /\ wiper[w] = [at |-> "callback", target |-> e] /\ At(w, e, "returned")
      /\ UNCHANGED <<now, call, receipts, allowed, egress>>
  BY DEF Callback
<1>0. /\ enf \in [Enforcers -> EnforcerStates] /\ enf[e] \in EnforcerStates /\ Wiping(e) /\ w # None
      /\ wiper \in [Wipers -> [at : {"idle", "callback", "returned", "marked"}, target : Enforcers \cup {None}]]
      /\ enf[e].lock = w /\ enf[e].made
  BY <1>1, WipeFacts
<1>2. enf[e].callbacks = 0 /\ enf[e].receipt = "wiped" /\ enf[e].wiped
  BY <1>0 DEF Wiping
<1>3. enf' = [enf EXCEPT ![e] = r]
  BY <1>0 DEF Callback
<1>4. enf[e].callbacks + 1 = 1 /\ 1 \in 0..1
  BY <1>2
<1>5. r \in EnforcerStates
  BY <1>0, <1>4 DEF EnforcerStates
<1>6. /\ SamePolicy(r, enf[e]) /\ r.bytes = enf[e].bytes /\ r.launch = enf[e].launch
      /\ r.published = enf[e].published /\ r.wiped = enf[e].wiped /\ r.receipt = enf[e].receipt /\ r.lock = None
      /\ r.callbacks = 1
  BY <1>0, <1>4 DEF EnforcerStates, SamePolicy
<1> HIDE DEF r
<1>7. enf'[e] = r /\ enf' \in [Enforcers -> EnforcerStates] /\ Alone(enf', enf, e)
  BY <1>0, <1>3, <1>5 DEF Alone
<1>8. wiper'[w].at = "returned" /\ wiper'[w].target = e /\ wiper[w].target = e
  BY <1>0, <1>1 DEF At
<1>9. WiperDone(w)' /\ Wiping(e)'
  BY <1>2, <1>6, <1>7, <1>8 DEF WiperDone, Wiping
<1> QED
  BY <1>0, <1>1, <1>6, <1>7, <1>8, <1>9, WiperStep

LEMMA MarkStep ==
    ASSUME PolicyInd, NEW e \in Enforcers, NEW w \in Wipers, mark_wiped(w, e)
    PROVE  PolicyInd'
<1> DEFINE k == IF enf[e].receipt = None THEN "marked" ELSE enf[e].receipt
           r == [enf[e] EXCEPT !.wiped = TRUE, !.receipt = k]
<1>0. /\ enf \in [Enforcers -> EnforcerStates] /\ enf[e] \in EnforcerStates /\ Wiping(e) /\ w # None
      /\ wiper \in [Wipers -> [at : {"idle", "callback", "returned", "marked"}, target : Enforcers \cup {None}]]
      /\ enf[e].receipt \in {"wiped", "marked", None}
  BY WipeFacts
<1>1. /\ wiper[w].at = "idle" /\ enf[e].made /\ enf[e].lock = None /\ At(w, e, "marked")
      /\ UNCHANGED <<now, call, receipts, allowed, egress>>
  BY DEF mark_wiped
<1>2. enf' = [enf EXCEPT ![e] = r]
  BY <1>0 DEF mark_wiped
<1>3. /\ k \in {"wiped", "marked"} /\ (enf[e].receipt # None => k = enf[e].receipt)
      /\ k = "wiped" => enf[e].receipt = "wiped"
  BY <1>0
<1> HIDE DEF k
<1>4. r \in EnforcerStates
  BY <1>0, <1>3 DEF EnforcerStates
<1>5. /\ SamePolicy(r, enf[e]) /\ r.bytes = enf[e].bytes /\ r.launch = enf[e].launch
      /\ r.published = enf[e].published /\ r.wiped /\ r.receipt = k /\ r.lock = enf[e].lock
      /\ r.callbacks = enf[e].callbacks
  BY <1>0 DEF EnforcerStates, SamePolicy
<1> HIDE DEF r
<1>6. enf'[e] = r /\ enf' \in [Enforcers -> EnforcerStates] /\ Alone(enf', enf, e)
  BY <1>0, <1>2, <1>4 DEF Alone
<1>7. wiper'[w].at = "marked"
  BY <1>0, <1>1 DEF At
<1>8. WiperDone(w)'
  BY <1>7 DEF WiperDone
<1>9. Wiping(e)'
  <2>1. enf[e].callbacks = 1 => k = "wiped"
    BY <1>0, <1>3 DEF Wiping
  <2> QED
    BY <1>0, <1>1, <1>3, <1>5, <1>6, <2>1 DEF Wiping
<1> QED
  BY <1>0, <1>1, <1>3, <1>5, <1>6, <1>8, <1>9, WiperStep

\* Time only makes a network's time run out.
LEMMA TickStep ==
    ASSUME PolicyInd, Tick
    PROVE  PolicyInd'
<1>0. /\ TypeOK /\ allowed = [d \in Enforcers |-> allowed[d]]
      /\ (\A d \in Enforcers : EnforcerOK(d)) /\ (\A v \in Wipers : WiperDone(v))
      /\ now' = now + 1 /\ now < MaxTime /\ UNCHANGED <<enf, call, receipts, link, wiper, allowed, egress>>
  BY DEF PolicyInd, Tick
<1>1. TypeOK'
  <2>1. now' \in Boot..MaxTime
    BY <1>0 DEF TypeOK
  <2>2. /\ call' \in [Enforcers -> CallStates] /\ enf' \in [Enforcers -> EnforcerStates]
        /\ receipts' \subseteq PolicyReceipts /\ egress' \in [Enforcers -> Nat]
        /\ wiper' \in [Wipers -> [at : {"idle", "callback", "returned", "marked"}, target : Enforcers \cup {None}]]
        /\ \A d \in Enforcers, w \in Wipers :
             enf'[d].lock = w <=> wiper'[w] = [at |-> "callback", target |-> d]
    BY <1>0 DEF TypeOK
  <2>3. ASSUME NEW d \in Enforcers
        PROVE  (enf[d].made => /\ enf[d].storage \in Storages /\ StorageValid(enf[d].storage)
                               /\ enf[d].network \in Networks /\ NetworkValid(enf[d].network))'
    BY <1>0 DEF TypeOK, StorageValid, NetworkValid
  <2> QED
    BY <2>1, <2>2, <2>3 DEF TypeOK
<1>2. ASSUME NEW e \in Enforcers PROVE EnforcerOK(e)'
  <2>0. EnforcerOK(e) /\ now \in Nat /\ enf[e] \in EnforcerStates
    BY <1>0 DEF TypeOK
  <2>1. Fresh(e)' /\ Counted(e)' /\ Backed(e)' /\ Confined(e)' /\ Wiping(e)'
    BY <1>0, <2>0 DEF EnforcerOK, Fresh, Counted, Backed, Digest, Confined, Wiping
  <2>2. call[e].over => _network_expiry(e)'
    <3>1. SUFFICES ASSUME call[e].over PROVE _network_expiry(e)'
      OBVIOUS
    <3>2. _network_expiry(e) /\ enf[e].made
      BY <2>0, <3>1 DEF EnforcerOK, OnTime, Fresh
    <3>3. enf[e].network \in Networks
      BY <1>0, <3>2 DEF TypeOK
    <3>4. PICK d \in Enforcers : \E s \in Setups[d] : s.network = enf[e].network
      BY <3>3 DEF Networks
    <3>5. enf[e].network.maxDuration \in Nat /\ enf[e].started \in Nat
      BY <2>0, <3>2, <3>4 DEF _network_expiry, EnforcerStates
    <3> QED
      BY <1>0, <2>0, <3>2, <3>5 DEF _network_expiry, Clock, ReadClock
  <2>3. OnTime(e)'
    BY <1>0, <2>0, <2>2 DEF EnforcerOK, OnTime, Mounts
  <2> QED
    BY <2>1, <2>3 DEF EnforcerOK
<1>3. ASSUME NEW w \in Wipers PROVE WiperDone(w)'
  BY <1>0 DEF WiperDone
<1> QED
  BY <1>0, <1>1, <1>2, <1>3 DEF PolicyInd

\* Steps that touch nothing the invariant speaks of, a guest's among them.
LEMMA QuietStep ==
    ASSUME PolicyInd, UNCHANGED <<now, enf, call, receipts, wiper, allowed, egress>>
    PROVE  PolicyInd'
<1>0. /\ TypeOK /\ allowed = [d \in Enforcers |-> allowed[d]]
      /\ (\A d \in Enforcers : EnforcerOK(d)) /\ (\A v \in Wipers : WiperDone(v))
  BY DEF PolicyInd
<1>1. TypeOK'
  <2>1. now' \in Boot..MaxTime
    BY <1>0 DEF TypeOK
  <2>2. /\ call' \in [Enforcers -> CallStates] /\ enf' \in [Enforcers -> EnforcerStates]
        /\ receipts' \subseteq PolicyReceipts /\ egress' \in [Enforcers -> Nat]
        /\ wiper' \in [Wipers -> [at : {"idle", "callback", "returned", "marked"}, target : Enforcers \cup {None}]]
        /\ \A d \in Enforcers, w \in Wipers :
             enf'[d].lock = w <=> wiper'[w] = [at |-> "callback", target |-> d]
    BY <1>0 DEF TypeOK
  <2>3. ASSUME NEW d \in Enforcers
        PROVE  (enf[d].made => /\ enf[d].storage \in Storages /\ StorageValid(enf[d].storage)
                               /\ enf[d].network \in Networks /\ NetworkValid(enf[d].network))'
    BY <1>0 DEF TypeOK, StorageValid, NetworkValid
  <2> QED
    BY <2>1, <2>2, <2>3 DEF TypeOK
<1>2. ASSUME NEW e \in Enforcers PROVE EnforcerOK(e)'
  BY <1>0 DEF EnforcerOK, Fresh, Counted, Backed, Digest, OnTime, Mounts, _network_expiry, Clock, ReadClock, Confined, Wiping
<1>3. ASSUME NEW w \in Wipers PROVE WiperDone(w)'
  BY <1>0 DEF WiperDone
<1> QED
  BY <1>0, <1>1, <1>2, <1>3 DEF PolicyInd

LEMMA PolicyInit == Init => PolicyInd
<1> SUFFICES ASSUME Init PROVE PolicyInd
  OBVIOUS
<1>1. /\ now = Boot /\ enf = [e \in Enforcers |-> NoEnforcer] /\ call = [e \in Enforcers |-> NoCall]
      /\ receipts = {} /\ wiper = [w \in Wipers |-> [at |-> "idle", target |-> None]]
      /\ allowed = [e \in Enforcers |-> NothingAllowed] /\ egress = [e \in Enforcers |-> 0]
  BY DEF Init
<1>2. NoEnforcer \in EnforcerStates
  <2>1. 0 \in 0..1
    OBVIOUS
  <2> QED
    BY <2>1 DEF NoEnforcer, EnforcerStates, Storages, Networks
<1>3. TypeOK
  <2>1. now \in Boot..MaxTime /\ egress \in [Enforcers -> Nat] /\ receipts \subseteq PolicyReceipts
    BY <1>1
  <2>2. enf \in [Enforcers -> EnforcerStates] /\ call \in [Enforcers -> CallStates]
    BY <1>1, <1>2, NoCallTyped
  <2>3. wiper \in [Wipers -> [at : {"idle", "callback", "returned", "marked"}, target : Enforcers \cup {None}]]
    BY <1>1
  <2>4. \A e \in Enforcers : ~enf[e].made /\ \A w \in Wipers :
           enf[e].lock = w <=> wiper[w] = [at |-> "callback", target |-> e]
    BY <1>1 DEF NoEnforcer
  <2> QED
    BY <2>1, <2>2, <2>3, <2>4 DEF TypeOK
<1>4. ASSUME NEW e \in Enforcers PROVE EnforcerOK(e)
  <2>1. enf[e] = NoEnforcer /\ call[e] = NoCall /\ allowed[e] = NothingAllowed /\ egress[e] = 0
    BY <1>1
  <2>2. Fresh(e) /\ OnTime(e)
    BY <2>1, NoCallTyped DEF Fresh, OnTime, NothingAllowed
  <2>3. Counted(e) /\ Backed(e) /\ Wiping(e)
    BY <2>1 DEF Counted, Backed, Wiping, NoEnforcer
  <2>4. Confined(e)
    BY <2>1 DEF Confined, NothingAllowed
  <2> QED
    BY <2>2, <2>3, <2>4 DEF EnforcerOK
<1>5. ASSUME NEW w \in Wipers PROVE WiperDone(w)
  BY <1>1 DEF WiperDone
<1> QED
  BY <1>1, <1>3, <1>4, <1>5 DEF PolicyInd

LEMMA PolicyStep == PolicyInd /\ [Next]_vars => PolicyInd'
<1> SUFFICES ASSUME PolicyInd, [Next]_vars PROVE PolicyInd'
  OBVIOUS
<1>1. CASE \E e \in Enforcers : Decide(e)
  <2>1. PICK e \in Enforcers : Decide(e)
    BY <1>1
  <2> QED
    BY <2>1, CreateStep, BeginStep, DigestStep, MountStep, StorageStep, NetworkStep, LaunchMountStep,
       LaunchStep, PublicationStep DEF Decide
<1>2. CASE \E e \in Disturbed : Relink(e)
  BY <1>2, QuietStep DEF Relink
<1>3. CASE \E w \in Wipers, e \in Disturbed : wipe(w, e) \/ Callback(w, e) \/ mark_wiped(w, e)
  BY <1>3, WipeStep, CallbackStep, MarkStep
<1>4. CASE Tick
  BY <1>4, TickStep
<1>5. CASE UNCHANGED vars
  BY <1>5, QuietStep DEF vars
<1> QED
  BY <1>1, <1>2, <1>3, <1>4, <1>5 DEF Next

LEMMA PolicyInvariant == Spec => []PolicyInd
  BY PolicyInit, PolicyStep, PTL DEF Spec

-----------------------------------------------------------------------------
(***************************************************************************)
(* The theorems.                                                           *)
(***************************************************************************)

\* Nothing is allowed by a call that began once the run was over, and what is allowed
\* is inside the run root and writable only where the run may write, whatever the
\* guest, the clock and the wipes do between the tests of one call.
THEOREM AllowancesAreSafe == Spec => []AllowedInv
<1>1. PolicyInd => AllowedInv
  BY DEF PolicyInd, EnforcerOK, OnTime, Confined, AllowedInv, NothingAllowedOnceOver, AllowedPathsAreConfined
<1> QED
  BY <1>1, PolicyInvariant, PTL

\* The bytes of all requests check_network ever allowed stay within the policy's limit.
THEOREM EgressIsLimited == Spec => []EgressWithinLimit
<1>1. PolicyInd => EgressWithinLimit
  BY DEF PolicyInd, EnforcerOK, Counted, EgressWithinLimit
<1> QED
  BY <1>1, PolicyInvariant, PTL

\* before_publication lets a run publish only when before_launch issued a receipt under
\* the same policy.
THEOREM PublicationsHaveLaunch == Spec => []PublicationBacked
<1>1. PolicyInd => PublicationBacked
  BY DEF PolicyInd, EnforcerOK, Backed, PublicationBacked
<1> QED
  BY <1>1, PolicyInvariant, PTL

\* WipeState: a wipe returns only after its callback was called, once, whichever
\* thread called it, and only the thread in the callback has the lock.
THEOREM WipesAreDone == Spec => []WipeInv
<1>1. PolicyInd => WipeInv
  <2>1. PolicyInd => TypeOK
    BY DEF PolicyInd
  <2>2. PolicyInd => WipeReturnsDone
    BY DEF PolicyInd, WiperDone, EnforcerOK, Wiping, WipeReturnsDone
  <2> QED
    BY <2>1, <2>2 DEF WipeInv
<1> QED
  BY <1>1, PolicyInvariant, PTL

=============================================================================
