------------------------- MODULE SeatConsentProofs -------------------------
(***************************************************************************)
(* Proofs about module SeatConsent: a consent on disk describes the host   *)
(* it sits on, an operation is about what its user was shown, and a        *)
(* force-stop challenge lets one force-stop through, for any requests,     *)
(* hosts, seats, keys and revisions.                                       *)
(*                                                                         *)
(* The invariant says of a host that its consent is about it (HostOK), of  *)
(* a token what its kind promises (TokenOK), and of a request which token  *)
(* it refers to (Refers), that its snapshot of the host is the host's      *)
(* configuration as long as the revision has not moved (Snapshot), and     *)
(* that it is past the comparison with the consent only if it passed       *)
(* (Agreed).                                                               *)
(***************************************************************************)
EXTENDS SeatConsent, TLAPS

Pcs == {"idle", "apply", "probe", "lines", "install", "unconsent", "observe", "decide",
        "spend", "running"}

\* The steps at which a request works on a snapshot of its host
Reading == Pcs \ {"idle", "apply"}

IsHost(r) == r = [ssh |-> r.ssh, seats |-> r.seats, consent |-> r.consent]

IsCall(k) ==
    k = [pc |-> k.pc, op |-> k.op, token |-> k.token, expected |-> k.expected,
         record |-> k.record, host |-> k.host, seat |-> k.seat, lines |-> k.lines,
         key |-> k.key, eff |-> k.eff, linger |-> k.linger]

\* What a consent was given for is what was shown
Honest(r) == r.consent # None => r.consent.digest = r.consent.shown

HostOK(h, r, ids) ==
    /\ IsHost(r) /\ Honest(r)
    /\ r.ssh \in Addresses
    /\ DOMAIN r.seats \subseteq SeatIds \cap ids
    /\ r.consent # None =>
         /\ r.consent.digest.host = h
         /\ r.consent.digest.ssh = r.ssh
         /\ r.consent.digest.seats = r.seats

HostsOK(hosts, ids) ==
    /\ DOMAIN hosts \subseteq HostIds \cap ids
    /\ \A h \in DOMAIN hosts : HostOK(h, hosts[h], ids)

ConfigOK(cfg, ids) ==
    /\ cfg = [revision |-> cfg.revision, hosts |-> cfg.hosts]
    /\ cfg.revision \in 0..MaxRevision
    /\ Valid(cfg)
    /\ HostsOK(cfg.hosts, ids)

TokenOK(d) ==
    /\ d.kind = "draft" =>
         d \in Drafts /\ (d.parent = None => d.field \in Addresses)
    /\ d.kind = "preview" => d.digest = d.detail

TokensOK(toks) ==
    /\ toks = [t \in Slots |-> toks[t]]
    /\ \A t \in Slots : toks[t] # None => TokenOK(toks[t])

Holds(toks, t, kind) == t \in Slots /\ toks[t] # None /\ toks[t].kind = kind

Refers(k, toks) ==
    /\ k.pc \in {"idle", "probe"} => k.token = None
    /\ k.pc = "apply" => Holds(toks, k.token, "draft")
    /\ k.pc \in {"lines", "install", "unconsent"} => Holds(toks, k.token, "trust")
    /\ k.pc \in {"observe", "decide"} => k.op \in {"preview", "confirm", "operate", "force"}
    /\ k.pc = "running" => k.op \in {"operate", "force"}
    /\ k.pc = "spend" => k.op = "force"
    /\ k.pc \in {"observe", "decide", "spend", "running"} =>
         /\ k.op \in {"preview", "operate"} => k.token = None
         /\ k.op = "confirm" => Holds(toks, k.token, "preview")
         /\ k.op = "force" => Holds(toks, k.token, "force")

Snapshot(k, cfg, ids) ==
    k.pc \in Reading =>
      /\ IsHost(k.record) /\ Honest(k.record)
      /\ k.host \in ids /\ k.expected \in Nat
      /\ k.host \in DOMAIN cfg.hosts =>
           /\ k.expected <= cfg.revision
           /\ k.expected = cfg.revision =>
                /\ cfg.hosts[k.host].ssh = k.record.ssh
                /\ cfg.hosts[k.host].seats = k.record.seats

DetailOf(k) ==
    [host |-> k.host, ssh |-> k.record.ssh, seats |-> k.record.seats,
     key |-> k.key, eff |-> k.eff, linger |-> k.linger]

Agreed(k) ==
    /\ k.pc = "decide" /\ k.op \in {"operate", "force"} => k.record.consent # None
    /\ k.pc \in {"spend", "running"} =>
         k.record.consent # None /\ DetailOf(k) = k.record.consent.digest

\* A request that is through with a challenge has deleted it
Spent(k, dead) == k.pc = "running" /\ k.op = "force" => k.token \in dead

CallOK(k, toks, dead, cfg, ids) ==
    /\ IsCall(k) /\ k.pc \in Pcs
    /\ Refers(k, toks) /\ Snapshot(k, cfg, ids) /\ Agreed(k) /\ Spent(k, dead)

\* Two requests that run do not share a challenge
Apart(calls) ==
    \A c, d \in Calls :
        /\ c # d
        /\ calls[c].pc = "running" /\ calls[c].op = "force" /\ calls[d].pc = "running"
        => calls[d].token # calls[c].token

ConsentInd ==
    /\ ConfigOK(config, used)
    /\ TokensOK(tokens) /\ gone \subseteq Slots
    /\ call = [c \in Calls |-> call[c]]
    /\ \A c \in Calls : CallOK(call[c], tokens, gone, config, used)
    /\ Apart(call)

\* From cfg to new: a host that was already there is as it was unless the revision moved on
Evolves(cfg, new, ids) ==
    \A h \in DOMAIN new.hosts \cap ids :
        /\ h \in DOMAIN cfg.hosts
        /\ cfg.revision <= new.revision
        /\ cfg.revision = new.revision =>
             /\ new.hosts[h].ssh = cfg.hosts[h].ssh
             /\ new.hosts[h].seats = cfg.hosts[h].seats

\* The token of slot t is still there
Kept(t) ==
    /\ tokens[t] # None => tokens'[t] # None /\ tokens'[t].kind = tokens[t].kind
    /\ t \in gone => t \in gone'

-----------------------------------------------------------------------------
(***************************************************************************)
(* What a step leaves alone stays in order.                                *)
(***************************************************************************)

\* A request keeps its place while the configuration evolves and its token is kept.
LEMMA CallStays ==
  ASSUME NEW k, CallOK(k, tokens, gone, config, used),
         k.token # None => Kept(k.token),
         config.revision \in Nat, config'.revision \in Nat,
         Evolves(config, config', used), used \subseteq used'
  PROVE  CallOK(k, tokens', gone', config', used')
<1>1. IsCall(k) /\ k.pc \in Pcs /\ Agreed(k)
  BY DEF CallOK
<1>2. ASSUME NEW kind, Holds(tokens, k.token, kind) PROVE Holds(tokens', k.token, kind)
  BY <1>2, SeatAssumption DEF Holds, Kept, Slots
<1>3. Refers(k, tokens')
  <2>1. Refers(k, tokens)
    BY DEF CallOK
  <2>2. Holds(tokens, k.token, "draft") => Holds(tokens', k.token, "draft")
    BY <1>2
  <2>3. Holds(tokens, k.token, "trust") => Holds(tokens', k.token, "trust")
    BY <1>2
  <2>4. Holds(tokens, k.token, "preview") => Holds(tokens', k.token, "preview")
    BY <1>2
  <2>5. Holds(tokens, k.token, "force") => Holds(tokens', k.token, "force")
    BY <1>2
  <2> QED
    BY <2>1, <2>2, <2>3, <2>4, <2>5 DEF Refers
<1>4. Snapshot(k, config', used')
  <2>1. Snapshot(k, config, used)
    BY DEF CallOK
  <2> SUFFICES ASSUME k.pc \in Reading
               PROVE  /\ IsHost(k.record) /\ Honest(k.record)
                      /\ k.host \in used' /\ k.expected \in Nat
                      /\ k.host \in DOMAIN config'.hosts =>
                           /\ k.expected <= config'.revision
                           /\ k.expected = config'.revision =>
                                /\ config'.hosts[k.host].ssh = k.record.ssh
                                /\ config'.hosts[k.host].seats = k.record.seats
    BY DEF Snapshot
  <2>2. /\ IsHost(k.record) /\ Honest(k.record) /\ k.host \in used /\ k.expected \in Nat
    BY <2>1 DEF Snapshot
  <2>3. ASSUME k.host \in DOMAIN config'.hosts
        PROVE  /\ k.expected <= config'.revision
               /\ k.expected = config'.revision =>
                    /\ config'.hosts[k.host].ssh = k.record.ssh
                    /\ config'.hosts[k.host].seats = k.record.seats
    <3>1. /\ k.host \in DOMAIN config.hosts
          /\ config.revision <= config'.revision
          /\ config.revision = config'.revision =>
               /\ config'.hosts[k.host].ssh = config.hosts[k.host].ssh
               /\ config'.hosts[k.host].seats = config.hosts[k.host].seats
      BY <2>2, <2>3 DEF Evolves
    <3>2. /\ k.expected <= config.revision
          /\ k.expected = config.revision =>
               /\ config.hosts[k.host].ssh = k.record.ssh
               /\ config.hosts[k.host].seats = k.record.seats
      BY <2>1, <3>1 DEF Snapshot
    <3> QED
      BY <3>1, <3>2, <2>2
  <2> QED
    BY <2>2, <2>3
<1>5. Spent(k, gone')
  <2>1. Spent(k, gone) /\ Refers(k, tokens)
    BY DEF CallOK
  <2>2. k.pc = "running" /\ k.op = "force" => k.token \in Slots
    BY <2>1 DEF Refers, Holds
  <2> QED
    BY <2>1, <2>2, SeatAssumption DEF Spent, Kept, Slots
<1> QED
  BY <1>1, <1>3, <1>4, <1>5 DEF CallOK

\* A step of one request, or of none.
LEMMA CallStep ==
  ASSUME ConsentInd,
         ConfigOK(config', used'), TokensOK(tokens'), gone' \subseteq Slots,
         Evolves(config, config', used), used \subseteq used',
         \A t \in Slots : Referenced(t) => Kept(t),
         NEW c \in Calls, NEW r, call' = [call EXCEPT ![c] = r],
         CallOK(r, tokens', gone', config', used'),
         r.pc = "running" /\ r.op = "force" => r.token \notin gone
  PROVE  ConsentInd'
<1>1. config.revision \in Nat /\ config'.revision \in Nat
  BY SeatAssumption DEF ConsentInd, ConfigOK
<1>2. \A d \in Calls : CallOK(call[d], tokens, gone, config, used)
  BY DEF ConsentInd
<1>3. call'[c] = r /\ \A d \in Calls : d # c => call'[d] = call[d]
  BY DEF ConsentInd
<1>4. ASSUME NEW d \in Calls PROVE CallOK(call[d], tokens', gone', config', used')
  <2>1. ASSUME call[d].token # None PROVE Kept(call[d].token)
    <3>1. call[d].token \in Slots
      <4>1. Refers(call[d], tokens) /\ call[d].pc \in Pcs
        BY <1>2 DEF CallOK
      <4> QED
        BY <4>1, <2>1 DEF Refers, Holds, Pcs
    <3> QED
      BY <3>1 DEF Referenced
  <2>2. CallOK(call[d], tokens, gone, config, used)
    BY <1>2
  <2> QED
    BY <1>1, <2>1, <2>2, CallStays
<1>5. \A d \in Calls : CallOK(call'[d], tokens', gone', config', used')
  BY <1>3, <1>4
<1>6. Apart(call')
  <2> SUFFICES ASSUME NEW a \in Calls, NEW b \in Calls, a # b,
                      call'[a].pc = "running", call'[a].op = "force", call'[b].pc = "running"
               PROVE  call'[b].token # call'[a].token
    BY DEF Apart
  <2>1. \A d \in Calls : call[d].pc = "running" /\ call[d].op = "force" => call[d].token \in gone
    BY <1>2 DEF CallOK, Spent
  <2>2. \A d \in Calls : Refers(call'[d], tokens')
    BY <1>5 DEF CallOK
  <2>3. call'[a].token \in Slots
    BY <2>2 DEF Refers, Holds
  <2>4. call'[b].op = "operate" => call'[b].token = None
    BY <2>2 DEF Refers
  <2>5. call'[b].op \in {"operate", "force"}
    BY <2>2 DEF Refers
  <2>6. CASE call'[b].op = "operate"
    BY <2>3, <2>4, <2>6, SeatAssumption DEF Slots
  <2>7. CASE call'[b].op = "force"
    <3>1. CASE a = c
      BY <3>1, <2>7, <1>3, <2>1
    <3>2. CASE b = c
      BY <3>2, <2>7, <1>3, <2>1
    <3>3. CASE a # c /\ b # c
      BY <3>3, <1>3 DEF ConsentInd, Apart
    <3> QED
      BY <3>1, <3>2, <3>3
  <2> QED
    BY <2>5, <2>6, <2>7
<1>7. call' = [d \in Calls |-> call'[d]]
  <2>1. call = [d \in Calls |-> call[d]]
    BY DEF ConsentInd
  <2> QED
    BY <2>1
<1> QED
  BY <1>5, <1>6, <1>7 DEF ConsentInd

LEMMA QuietStep ==
  ASSUME ConsentInd,
         ConfigOK(config', used'), TokensOK(tokens'), gone' \subseteq Slots,
         Evolves(config, config', used), used \subseteq used',
         \A t \in Slots : Referenced(t) => Kept(t),
         UNCHANGED call
  PROVE  ConsentInd'
<1>1. config.revision \in Nat /\ config'.revision \in Nat
  BY SeatAssumption DEF ConsentInd, ConfigOK
<1>2. \A d \in Calls : CallOK(call[d], tokens, gone, config, used)
  BY DEF ConsentInd
<1>4. ASSUME NEW d \in Calls PROVE CallOK(call'[d], tokens', gone', config', used')
  <2>1. ASSUME call[d].token # None PROVE Kept(call[d].token)
    <3>1. call[d].token \in Slots
      <4>1. Refers(call[d], tokens) /\ call[d].pc \in Pcs
        BY <1>2 DEF CallOK
      <4> QED
        BY <4>1, <2>1 DEF Refers, Holds, Pcs
    <3> QED
      BY <3>1 DEF Referenced
  <2>2. CallOK(call[d], tokens, gone, config, used)
    BY <1>2
  <2> QED
    BY <1>1, <2>1, <2>2, CallStays
<1>5. Apart(call') /\ call' = [d \in Calls |-> call'[d]]
  BY DEF ConsentInd
<1> QED
  BY <1>4, <1>5 DEF ConsentInd

-----------------------------------------------------------------------------
(***************************************************************************)
(* The configuration file and the tokens.                                  *)
(***************************************************************************)
LEMMA ConfigStays ==
  ASSUME ConsentInd, UNCHANGED <<config, used>>
  PROVE  ConfigOK(config', used') /\ Evolves(config, config', used) /\ used \subseteq used'
<1>1. config.revision \in Nat
  BY SeatAssumption DEF ConsentInd, ConfigOK
<1> QED
  BY <1>1 DEF ConsentInd, Evolves

LEMMA CurrentIsValid ==
  ASSUME ConsentInd
  PROVE  ConfigOK(Current, used)
<1>1. ConfigOK(Empty, used)
  <2>1. Empty = [revision |-> Empty.revision, hosts |-> Empty.hosts]
    BY DEF Empty
  <2>2. Empty.revision \in 0..MaxRevision
    BY SeatAssumption DEF Empty
  <2>3. DOMAIN Empty.hosts = {}
    BY DEF Empty
  <2>4. Valid(Empty)
    BY <2>3 DEF Valid
  <2>5. HostsOK(Empty.hosts, used)
    BY <2>3 DEF HostsOK
  <2> QED
    BY <2>1, <2>2, <2>4, <2>5 DEF ConfigOK
<1> QED
  BY <1>1 DEF Current, ConsentInd

\* SeatStore.mutate without a result: the file is as it was, or has been moved aside.
LEMMA NotWritten ==
  ASSUME ConsentInd, config' = Current, UNCHANGED used
  PROVE  ConfigOK(config', used') /\ Evolves(config, config', used) /\ used \subseteq used'
<1>1. ConfigOK(config', used')
  BY CurrentIsValid
<1>2. CASE corrupt
  <2>1. DOMAIN config'.hosts = {}
    BY <1>2 DEF Current, Empty
  <2> QED
    BY <1>1, <2>1 DEF Evolves
<1>3. CASE ~corrupt
  <2>1. config' = config
    BY <1>3 DEF Current
  <2> QED
    BY <2>1, ConfigStays
<1> QED
  BY <1>2, <1>3

\* SeatStore.mutate with a result that adds only hosts with new ids.
LEMMA Written ==
  ASSUME ConsentInd, NEW expected, NEW hosts, Mutate(expected, hosts),
         used \subseteq used', HostsOK(hosts, used'),
         DOMAIN hosts \cap used \subseteq DOMAIN Current.hosts
  PROVE  ConfigOK(config', used') /\ Evolves(config, config', used)
<1>1. ConfigOK(Current, used)
  BY CurrentIsValid
<1>2. /\ expected \in Nat /\ expected + 1 \in 0..MaxRevision
      /\ Current.revision = expected
      /\ config' = [revision |-> expected + 1, hosts |-> hosts]
      /\ Valid([Current EXCEPT !.hosts = hosts])
  BY <1>1, SeatAssumption DEF ConfigOK, Mutate
<1>3. config'.revision = expected + 1 /\ config'.hosts = hosts
  BY <1>2
<1>4. Valid(config')
  <2>1. [Current EXCEPT !.hosts = hosts].hosts = hosts
    BY <1>1 DEF ConfigOK
  <2> QED
    BY <1>2, <1>3, <2>1 DEF Valid
<1>5. ConfigOK(config', used')
  BY <1>2, <1>3, <1>4 DEF ConfigOK
<1>6. Evolves(config, config', used)
  <2>1. CASE corrupt
    <3>1. DOMAIN Current.hosts = {}
      BY <2>1 DEF Current, Empty
    <3> QED
      BY <1>3, <3>1 DEF Evolves
  <2>2. CASE ~corrupt
    <3>1. Current = config
      BY <2>2 DEF Current
    <3> QED
      BY <1>2, <1>3, <3>1 DEF Evolves
  <2> QED
    BY <2>1, <2>2
<1> QED
  BY <1>5, <1>6

\* A host but for its consent
BareOK(r, ids) == IsHost(r) /\ r.ssh \in Addresses /\ DOMAIN r.seats \subseteq SeatIds \cap ids

LEMMA UnconsentedIsOK ==
  ASSUME NEW hosts, NEW ids, DOMAIN hosts \subseteq HostIds \cap ids,
         \A h \in DOMAIN hosts : BareOK(hosts[h], ids)
  PROVE  HostsOK(Unconsented(hosts), ids) /\ DOMAIN Unconsented(hosts) = DOMAIN hosts
<1>1. DOMAIN Unconsented(hosts) = DOMAIN hosts
  BY DEF Unconsented
<1>2. ASSUME NEW h \in DOMAIN hosts PROVE HostOK(h, Unconsented(hosts)[h], ids)
  <2> DEFINE r == Unconsented(hosts)[h]
  <2>1. r = [hosts[h] EXCEPT !.consent = None]
    BY DEF Unconsented
  <2>2. BareOK(hosts[h], ids)
    OBVIOUS
  <2>3. r = [ssh |-> hosts[h].ssh, seats |-> hosts[h].seats, consent |-> None]
    BY <2>1, <2>2 DEF BareOK, IsHost
  <2> HIDE DEF r
  <2>4. r.ssh = hosts[h].ssh /\ r.seats = hosts[h].seats /\ r.consent = None
    BY <2>3
  <2>5. IsHost(r) /\ Honest(r)
    BY <2>3, <2>4 DEF IsHost, Honest
  <2>6. HostOK(h, r, ids)
    BY <2>2, <2>4, <2>5 DEF HostOK, BareOK
  <2> QED
    BY <2>6 DEF r
<1> QED
  BY <1>1, <1>2 DEF HostsOK

LEMMA HostsAreBare ==
  ASSUME ConsentInd
  PROVE  /\ DOMAIN Current.hosts \subseteq HostIds \cap used
         /\ \A h \in DOMAIN Current.hosts : BareOK(Current.hosts[h], used)
  BY CurrentIsValid DEF ConfigOK, HostsOK, HostOK, BareOK

LEMMA TokensStay ==
  ASSUME ConsentInd, UNCHANGED tokens, gone \subseteq gone'
  PROVE  TokensOK(tokens') /\ \A t \in Slots : Referenced(t) => Kept(t)
  BY DEF ConsentInd, Kept

\* A token is issued in a slot that no request refers to.
LEMMA Issued ==
  ASSUME ConsentInd, NEW d, TokenOK(d), Issue(d)
  PROVE  /\ TokensOK(tokens') /\ gone' \subseteq Slots
         /\ \A t \in Slots : Referenced(t) => Kept(t)
<1> DEFINE s == CHOOSE free \in Vacant : TRUE
<1>1. s \in Vacant
  BY DEF Issue
<1>2. tokens' = [tokens EXCEPT ![s] = d] /\ gone' = gone \ {s}
  BY DEF Issue
<1> HIDE DEF s
<1>3. s \in Slots /\ ~Referenced(s)
  BY <1>1 DEF Vacant
<1>4. tokens = [t \in Slots |-> tokens[t]] /\ \A t \in Slots : tokens[t] # None => TokenOK(tokens[t])
  BY DEF ConsentInd, TokensOK
<1>5. tokens' = [t \in Slots |-> tokens'[t]]
  BY <1>2, <1>4
<1>6. tokens'[s] = d /\ \A t \in Slots : t # s => tokens'[t] = tokens[t]
  BY <1>2, <1>3, <1>4
<1>7. TokensOK(tokens')
  BY <1>4, <1>5, <1>6 DEF TokensOK
<1>8. ASSUME NEW t \in Slots, Referenced(t) PROVE Kept(t)
  BY <1>2, <1>3, <1>6, <1>8 DEF Kept
<1> QED
  BY <1>2, <1>7, <1>8 DEF ConsentInd

-----------------------------------------------------------------------------
(***************************************************************************)
(* Requests begin and end.                                                 *)
(***************************************************************************)
LEMMA IdleIsOK ==
  ASSUME NEW toks, NEW dead, NEW cfg, NEW ids
  PROVE  CallOK(Idle, toks, dead, cfg, ids) /\ Idle.pc = "idle"
<1>1. Idle.pc = "idle" /\ Idle.token = None
  BY DEF Idle
<1>2. IsCall(Idle)
  BY DEF Idle, IsCall
<1>3. Refers(Idle, toks) /\ Snapshot(Idle, cfg, ids) /\ Agreed(Idle) /\ Spent(Idle, dead)
  BY <1>1 DEF Refers, Snapshot, Agreed, Spent, Reading, Pcs
<1> QED
  BY <1>1, <1>2, <1>3 DEF CallOK, Pcs

\* A request ends.
LEMMA DoneStep ==
  ASSUME ConsentInd,
         ConfigOK(config', used'), TokensOK(tokens'), gone' \subseteq Slots,
         Evolves(config, config', used), used \subseteq used',
         \A t \in Slots : Referenced(t) => Kept(t),
         NEW c \in Calls, Done(c)
  PROVE  ConsentInd'
<1>1. CallOK(Idle, tokens', gone', config', used') /\ Idle.pc = "idle"
  BY IdleIsOK
<1>2. call' = [call EXCEPT ![c] = Idle]
  BY DEF Done
<1> QED
  BY <1>1, <1>2, CallStep

\* A request ends that has written neither the configuration nor a token.
LEMMA DoneQuietly ==
  ASSUME ConsentInd, NEW c \in Calls, Done(c), UNCHANGED <<config, used, tokens, gone>>
  PROVE  ConsentInd'
<1>1. ConfigOK(config', used') /\ Evolves(config, config', used) /\ used \subseteq used'
  BY ConfigStays
<1>2. TokensOK(tokens') /\ \A t \in Slots : Referenced(t) => Kept(t)
  BY TokensStay
<1>3. gone' \subseteq Slots
  BY DEF ConsentInd
<1> QED
  BY <1>1, <1>2, <1>3, DoneStep

\* A request advances without writing the configuration or a token.
LEMMA Advance ==
  ASSUME ConsentInd, NEW c \in Calls, NEW r, call' = [call EXCEPT ![c] = r],
         UNCHANGED <<config, used, tokens>>, gone \subseteq gone', gone' \subseteq Slots,
         CallOK(r, tokens, gone', config, used),
         r.pc = "running" /\ r.op = "force" => r.token \notin gone
  PROVE  ConsentInd'
<1>1. ConfigOK(config', used') /\ Evolves(config, config', used) /\ used \subseteq used'
  BY ConfigStays
<1>2. TokensOK(tokens') /\ \A t \in Slots : Referenced(t) => Kept(t)
  BY TokensStay
<1>3. CallOK(r, tokens', gone', config', used')
  OBVIOUS
<1> QED
  BY <1>1, <1>2, <1>3, CallStep

\* The token that a request is begun with
Suits(op, pc, t) ==
    \/ pc = "probe" /\ t = None
    \/ pc = "lines" /\ Holds(tokens, t, "trust")
    \/ /\ pc = "observe"
       /\ \/ op \in {"preview", "operate"} /\ t = None
          \/ op = "confirm" /\ Holds(tokens, t, "preview")
          \/ op = "force" /\ Holds(tokens, t, "force")

\* A request as it begins
Begun(pc, op, t, n, r, h, s) ==
    [pc |-> pc, op |-> op, token |-> t, expected |-> n, record |-> r, host |-> h, seat |-> s,
     lines |-> <<>>, key |-> None, eff |-> None, linger |-> None]

LEMMA BegunFromIdle ==
  ASSUME NEW pc, NEW op, NEW t, NEW n, NEW r, NEW h, NEW s
  PROVE  [Idle EXCEPT !.pc = pc, !.op = op, !.host = h, !.seat = s, !.token = t,
                      !.record = r, !.expected = n] = Begun(pc, op, t, n, r, h, s)
<1> DEFINE a1 == [Idle EXCEPT !.pc = pc]
           a2 == [a1 EXCEPT !.op = op]
           a3 == [a2 EXCEPT !.host = h]
           a4 == [a3 EXCEPT !.seat = s]
           a5 == [a4 EXCEPT !.token = t]
           a6 == [a5 EXCEPT !.record = r]
           a7 == [a6 EXCEPT !.expected = n]
<1>1. [Idle EXCEPT !.pc = pc, !.op = op, !.host = h, !.seat = s, !.token = t,
                   !.record = r, !.expected = n] = a7
  OBVIOUS
<1> HIDE DEF a1, a2, a3, a4, a5, a6, a7
<1>3. a1 = Begun(pc, None, None, 0, None, None, None)
  BY DEF Idle, Begun, a1
<1>4. a2 = Begun(pc, op, None, 0, None, None, None)
  BY <1>3 DEF Begun, a2
<1>5. a3 = Begun(pc, op, None, 0, None, h, None)
  BY <1>4 DEF Begun, a3
<1>6. a4 = Begun(pc, op, None, 0, None, h, s)
  BY <1>5 DEF Begun, a4
<1>7. a5 = Begun(pc, op, t, 0, None, h, s)
  BY <1>6 DEF Begun, a5
<1>8. a6 = Begun(pc, op, t, 0, r, h, s)
  BY <1>7 DEF Begun, a6
<1>9. a7 = Begun(pc, op, t, n, r, h, s)
  BY <1>8 DEF Begun, a7
<1> QED
  BY <1>1, <1>9

LEMMA AppliedFromIdle ==
  ASSUME NEW pc, NEW t, NEW n
  PROVE  [Idle EXCEPT !.pc = pc, !.token = t, !.expected = n]
           = Begun(pc, None, t, n, None, None, None)
<1> DEFINE a1 == [Idle EXCEPT !.pc = pc]
           a2 == [a1 EXCEPT !.token = t]
           a3 == [a2 EXCEPT !.expected = n]
<1>1. [Idle EXCEPT !.pc = pc, !.token = t, !.expected = n] = a3
  OBVIOUS
<1> HIDE DEF a1, a2, a3
<1>2. a1 = Begun(pc, None, None, 0, None, None, None)
  BY DEF Idle, Begun, a1
<1>3. a2 = Begun(pc, None, t, 0, None, None, None)
  BY <1>2 DEF Begun, a2
<1>4. a3 = Begun(pc, None, t, n, None, None, None)
  BY <1>3 DEF Begun, a3
<1> QED
  BY <1>1, <1>4

LEMMA BeginStep ==
  ASSUME ConsentInd, NEW c \in Calls, NEW op, NEW pc, NEW h, NEW s, NEW t,
         Begin(c, op, pc, h, s, t), Suits(op, pc, t)
  PROVE  ConsentInd'
<1> DEFINE r == Begun(pc, op, t, config.revision, config.hosts[h], h, s)
<1>1. call' = [call EXCEPT ![c] = r]
  <2>1. call' = [call EXCEPT ![c] =
                   [Idle EXCEPT !.pc = pc, !.op = op, !.host = h, !.seat = s, !.token = t,
                                !.record = config.hosts[h], !.expected = config.revision]]
    BY DEF Begin
  <2>2. [Idle EXCEPT !.pc = pc, !.op = op, !.host = h, !.seat = s, !.token = t,
                     !.record = config.hosts[h], !.expected = config.revision] = r
    BY BegunFromIdle, Zenon
  <2> QED
    BY <2>1, <2>2, Zenon
<1>2. /\ r.pc = pc /\ r.op = op /\ r.token = t /\ r.expected = config.revision
      /\ r.record = config.hosts[h] /\ r.host = h
  BY DEF Begun
<1>3. IsCall(r)
  BY DEF IsCall, Begun
<1> HIDE DEF r
<1>4. pc \in {"probe", "lines", "observe"}
  BY DEF Suits
<1>5. Refers(r, tokens)
  BY <1>2 DEF Refers, Suits
<1>6. Snapshot(r, config, used)
  <2>1. h \in DOMAIN config.hosts
    BY DEF Begin
  <2>2. ConfigOK(config, used)
    BY DEF ConsentInd
  <2>3. HostOK(h, config.hosts[h], used) /\ h \in used
    BY <2>1, <2>2 DEF ConfigOK, HostsOK
  <2>4. config.revision \in Nat
    BY <2>2, SeatAssumption DEF ConfigOK
  <2> QED
    BY <1>2, <2>3, <2>4 DEF Snapshot, HostOK
<1>7. Agreed(r) /\ r.pc # "running" /\ r.pc \in Pcs
  BY <1>2, <1>4 DEF Agreed, Pcs
<1>8. CallOK(r, tokens, gone', config, used)
  BY <1>3, <1>5, <1>6, <1>7 DEF CallOK, Spent
<1>9. UNCHANGED <<config, used, tokens, gone>> /\ gone' \subseteq Slots
  BY DEF Begin, files, memory, ConsentInd
<1> QED
  BY <1>1, <1>7, <1>8, <1>9, Advance

LEMMA LiveIsHeld ==
  ASSUME NEW kind, NEW t \in Live(kind)
  PROVE  Holds(tokens, t, kind)
  BY DEF Live, Holds

LEMMA EndpointsBegin ==
  ASSUME ConsentInd, NEW c \in Calls,
         \/ ssh_probe(c) \/ ssh_trust(c) \/ preview_create(c) \/ consent_confirm(c)
         \/ seat_operate(c)
  PROVE  ConsentInd'
<1>1. CASE ssh_probe(c)
  <2>1. PICK h \in HostIds : Begin(c, "probe", "probe", h, None, None)
    BY <1>1 DEF ssh_probe
  <2>2. Suits("probe", "probe", None)
    BY DEF Suits
  <2> QED
    BY <2>1, <2>2, BeginStep
<1>2. CASE ssh_trust(c)
  <2>1. PICK t \in Live("trust") : Begin(c, "trust", "lines", tokens[t].host, None, t)
    BY <1>2 DEF ssh_trust
  <2>2. Suits("trust", "lines", t)
    BY LiveIsHeld DEF Suits
  <2> QED
    BY <2>1, <2>2, BeginStep
<1>3. CASE preview_create(c)
  <2>1. PICK h \in HostIds : Begin(c, "preview", "observe", h, None, None)
    BY <1>3 DEF preview_create
  <2>2. Suits("preview", "observe", None)
    BY DEF Suits
  <2> QED
    BY <2>1, <2>2, BeginStep
<1>4. CASE consent_confirm(c)
  <2>1. PICK t \in Live("preview") :
          Begin(c, "confirm", "observe", tokens[t].detail.host, None, t)
    BY <1>4 DEF consent_confirm
  <2>2. Suits("confirm", "observe", t)
    BY LiveIsHeld DEF Suits
  <2> QED
    BY <2>1, <2>2, BeginStep
<1>5. CASE seat_operate(c)
  <2>0. PICK h \in DOMAIN config.hosts : \E s \in DOMAIN config.hosts[h].seats :
          \/ Begin(c, "operate", "observe", h, s, None)
          \/ \E t \in Live("force") : Begin(c, "force", "observe", h, s, t)
    BY <1>5 DEF seat_operate
  <2>1. PICK s \in DOMAIN config.hosts[h].seats :
          \/ Begin(c, "operate", "observe", h, s, None)
          \/ \E t \in Live("force") : Begin(c, "force", "observe", h, s, t)
    BY <2>0
  <2>2. CASE Begin(c, "operate", "observe", h, s, None)
    <3>1. Suits("operate", "observe", None)
      BY DEF Suits
    <3> QED
      BY <2>2, <3>1, BeginStep
  <2>3. ASSUME NEW t \in Live("force"), Begin(c, "force", "observe", h, s, t)
        PROVE  ConsentInd'
    <3>1. Suits("force", "observe", t)
      BY LiveIsHeld DEF Suits
    <3> QED
      BY <2>3, <3>1, BeginStep
  <2> QED
    BY <2>1, <2>2, <2>3
<1> QED
  BY <1>1, <1>2, <1>3, <1>4, <1>5

LEMMA ApplyBegins ==
  ASSUME ConsentInd, NEW c \in Calls, config_apply(c)
  PROVE  ConsentInd'
<1>1. PICK t \in Live("draft") :
        call' = [call EXCEPT ![c] = [Idle EXCEPT !.pc = "apply", !.token = t,
                                                 !.expected = config.revision]]
  BY DEF config_apply
<1> DEFINE r == Begun("apply", None, t, config.revision, None, None, None)
<1>2. IsCall(r) /\ r.pc = "apply" /\ r.token = t
  BY DEF Begun, IsCall
<1>3. call' = [call EXCEPT ![c] = r]
  BY <1>1, AppliedFromIdle, Zenon
<1> HIDE DEF r
<1>4. Refers(r, tokens) /\ Snapshot(r, config, used) /\ Agreed(r) /\ Spent(r, gone')
  BY <1>2, LiveIsHeld DEF Refers, Snapshot, Agreed, Spent, Reading
<1>5. CallOK(r, tokens, gone', config, used)
  BY <1>2, <1>4 DEF CallOK, Pcs
<1>6. UNCHANGED <<config, used, tokens, gone>> /\ gone' \subseteq Slots
  BY DEF config_apply, files, memory, ConsentInd
<1> QED
  BY <1>2, <1>3, <1>5, <1>6, Advance

-----------------------------------------------------------------------------
(***************************************************************************)
(* Drafts and the configuration.                                           *)
(***************************************************************************)

BareHosts(hosts, ids) ==
    DOMAIN hosts \subseteq HostIds \cap ids /\ \A h \in DOMAIN hosts : BareOK(hosts[h], ids)

\* One host is added or replaced.
LEMMA WithBare ==
  ASSUME NEW hosts, NEW ids, NEW x \in HostIds \cap ids, NEW r, BareOK(r, ids), BareHosts(hosts, ids)
  PROVE  DOMAIN With(hosts, x, r) = DOMAIN hosts \cup {x} /\ BareHosts(With(hosts, x, r), ids)
<1>1. DOMAIN With(hosts, x, r) = DOMAIN hosts \cup {x}
  BY DEF With
<1>2. ASSUME NEW h \in DOMAIN hosts \cup {x} PROVE BareOK(With(hosts, x, r)[h], ids)
  <2>1. With(hosts, x, r)[h] = IF h = x THEN r ELSE hosts[h]
    BY DEF With
  <2>2. CASE h = x
    BY <2>1, <2>2
  <2>3. CASE h # x
    BY <2>1, <2>3 DEF BareHosts
  <2> QED
    BY <2>2, <2>3
<1> QED
  BY <1>1, <1>2 DEF BareHosts

\* A seat is added to or replaced in a host.
LEMMA SeatBare ==
  ASSUME NEW r, NEW ids, BareOK(r, ids), NEW s \in SeatIds \cap ids, NEW f
  PROVE  BareOK([r EXCEPT !.seats = With(@, s, f)], ids)
<1> DEFINE q == [r EXCEPT !.seats = With(@, s, f)]
<1>1. q = [ssh |-> r.ssh, seats |-> With(r.seats, s, f), consent |-> r.consent]
  BY DEF BareOK, IsHost
<1> HIDE DEF q
<1>2. q.ssh = r.ssh /\ q.seats = With(r.seats, s, f) /\ q.consent = r.consent
  BY <1>1
<1>3. IsHost(q)
  BY <1>1, <1>2 DEF IsHost
<1>4. DOMAIN q.seats = DOMAIN r.seats \cup {s}
  BY <1>2 DEF With
<1>5. BareOK(q, ids)
  BY <1>2, <1>3, <1>4 DEF BareOK
<1> QED
  BY <1>5 DEF q

LEMMA AppliedIsOK ==
  ASSUME ConsentInd, NEW d, d.kind = "draft", TokenOK(d), Applicable(d), NEW new,
         NEW ids, used \subseteq ids,
         d.base = None => /\ new \in ids
                          /\ new \in IF d.parent = None THEN HostIds \ used ELSE SeatIds
  PROVE  /\ HostsOK(Applied(d, new), ids)
         /\ DOMAIN Applied(d, new) \cap used \subseteq DOMAIN Current.hosts
<1> DEFINE hosts == Current.hosts
           host == [ssh |-> d.field, seats |-> <<>>, consent |-> None]
           seat(s) == [hosts[d.parent] EXCEPT !.seats = With(@, s, d.field)]
<1>1. /\ DOMAIN hosts \subseteq HostIds \cap ids /\ DOMAIN hosts \subseteq used
      /\ \A h \in DOMAIN hosts : BareOK(hosts[h], ids)
  BY HostsAreBare DEF BareOK
<1>0. BareHosts(hosts, ids)
  BY <1>1 DEF BareHosts
<1>2. ASSUME NEW X, Applied(d, new) = Unconsented(X),
             BareHosts(X, ids),
             DOMAIN X \cap used \subseteq DOMAIN hosts
      PROVE  /\ HostsOK(Applied(d, new), ids)
             /\ DOMAIN Applied(d, new) \cap used \subseteq DOMAIN Current.hosts
  BY <1>2, UnconsentedIsOK DEF BareHosts
<1>3. CASE d.parent = None /\ d.base = None
  <2> DEFINE X == With(hosts, new, host)
  <2>1. Applied(d, new) = Unconsented(X)
    BY <1>3 DEF Applied
  <2>2. BareOK(host, ids)
    <3>1. host.ssh = d.field /\ host.seats = <<>> /\ host.consent = None
      OBVIOUS
    <3>2. IsHost(host)
      BY DEF IsHost
    <3>3. d.field \in Addresses
      BY <1>3 DEF TokenOK
    <3>4. DOMAIN host.seats = {}
      BY <3>1
    <3> HIDE DEF host
    <3> QED
      BY <3>1, <3>2, <3>3, <3>4 DEF BareOK
  <2>3. new \in HostIds \cap ids /\ new \notin used
    BY <1>3
  <2> HIDE DEF hosts, host
  <2>4. DOMAIN X = DOMAIN hosts \cup {new} /\ BareHosts(X, ids)
    BY <1>0, <2>2, <2>3, WithBare
  <2> HIDE DEF X
  <2> QED
    BY <1>2, <2>1, <2>3, <2>4
<1>4. CASE d.parent = None /\ d.base # None
  <2> DEFINE X == [hosts EXCEPT ![d.base].ssh = d.field]
  <2>1. Applied(d, new) = Unconsented(X)
    BY <1>4 DEF Applied
  <2>2. d.base \in DOMAIN hosts
    BY <1>4 DEF Applicable
  <2>3. DOMAIN X = DOMAIN hosts
    OBVIOUS
  <2>4. d.field \in Addresses
    BY <1>4 DEF TokenOK
  <2>5. ASSUME NEW h \in DOMAIN hosts PROVE BareOK(X[h], ids)
    <3> DEFINE q == X[h]
    <3>1. BareOK(hosts[h], ids)
      BY <1>1
    <3>2. q = IF h = d.base THEN [hosts[h] EXCEPT !.ssh = d.field] ELSE hosts[h]
      OBVIOUS
    <3> HIDE DEF hosts, X, q
    <3>3. CASE h = d.base
      <4>1. q = [ssh |-> d.field, seats |-> hosts[h].seats, consent |-> hosts[h].consent]
        BY <3>1, <3>2, <3>3 DEF BareOK, IsHost
      <4>2. q.ssh = d.field /\ q.seats = hosts[h].seats /\ q.consent = hosts[h].consent
        BY <4>1
      <4>3. IsHost(q)
        BY <4>1, <4>2 DEF IsHost
      <4>4. BareOK(q, ids)
        BY <3>1, <2>4, <4>2, <4>3 DEF BareOK
      <4> QED
        BY <4>4 DEF q
    <3>4. CASE h # d.base
      BY <3>1, <3>2, <3>4 DEF q
    <3> QED
      BY <3>3, <3>4
  <2> HIDE DEF X
  <2>6. BareHosts(X, ids)
    BY <1>0, <2>3, <2>5 DEF BareHosts
  <2> QED
    BY <1>2, <2>1, <2>3, <2>6
<1>5. ASSUME NEW s \in SeatIds \cap ids, d.parent \in DOMAIN hosts,
             Applied(d, new) = Unconsented(With(hosts, d.parent, seat(s)))
      PROVE  /\ HostsOK(Applied(d, new), ids)
             /\ DOMAIN Applied(d, new) \cap used \subseteq DOMAIN Current.hosts
  <2> DEFINE X == With(hosts, d.parent, seat(s))
  <2>1. Applied(d, new) = Unconsented(X)
    BY <1>5
  <2>2. BareOK(seat(s), ids)
    BY <1>1, <1>5, SeatBare
  <2>3. d.parent \in HostIds \cap ids
    BY <1>1, <1>5
  <2> HIDE DEF hosts, seat
  <2>4. DOMAIN X = DOMAIN hosts \cup {d.parent} /\ BareHosts(X, ids)
    BY <1>0, <2>2, <2>3, WithBare
  <2> HIDE DEF X
  <2> QED
    BY <1>2, <1>5, <2>1, <2>4
<1>6. CASE d.parent # None /\ d.base = None
  <2>1. Applied(d, new) = Unconsented(With(hosts, d.parent, seat(new)))
    BY <1>6 DEF Applied
  <2>2. new \in SeatIds \cap ids /\ d.parent \in DOMAIN hosts
    BY <1>6 DEF Applicable
  <2> QED
    BY <1>5, <2>1, <2>2
<1>7. CASE d.parent # None /\ d.base # None
  <2>1. Applied(d, new) = Unconsented(With(hosts, d.parent, seat(d.base)))
    BY <1>7 DEF Applied
  <2>2. d.parent \in DOMAIN hosts /\ d.base \in DOMAIN hosts[d.parent].seats
    BY <1>7 DEF Applicable
  <2>3. d.base \in SeatIds \cap ids
    BY <1>1, <2>2 DEF BareOK
  <2> QED
    BY <1>5, <2>1, <2>2, <2>3
<1> QED
  BY <1>3, <1>4, <1>6, <1>7

\* The call of a request that is not idle
LEMMA CallFacts ==
  ASSUME ConsentInd, NEW c \in Calls
  PROVE  /\ CallOK(call[c], tokens, gone, config, used)
         /\ IsCall(call[c]) /\ Refers(call[c], tokens) /\ Snapshot(call[c], config, used)
         /\ Agreed(call[c]) /\ Spent(call[c], gone)
  BY DEF ConsentInd, CallOK

LEMMA ApplyDraftStep ==
  ASSUME ConsentInd, NEW c \in Calls, ApplyDraft(c)
  PROVE  ConsentInd'
<1> DEFINE t == call[c].token
           d == tokens[t]
           ids == (IF d.parent = None THEN HostIds ELSE SeatIds) \ used
<1>1. /\ call[c].pc = "apply" /\ Applicable(d)
      /\ gone' = gone \cup {t} /\ Done(c) /\ UNCHANGED tokens
  BY DEF ApplyDraft, Forget
<1>2. PICK new \in IF d.base = None THEN ids ELSE {None} :
        Mutate(call[c].expected, Applied(d, new)) /\ used' = used \cup ({new} \ {None})
  BY DEF ApplyDraft
<1>3. Holds(tokens, t, "draft")
  BY <1>1, CallFacts DEF Refers
<1>4. d.kind = "draft" /\ TokenOK(d) /\ t \in Slots
  BY <1>3 DEF Holds, ConsentInd, TokensOK
<1>5. used \subseteq used'
  BY <1>2
<1>6. d.base = None => /\ new \in used'
                       /\ new \in IF d.parent = None THEN HostIds \ used ELSE SeatIds
  <2> SUFFICES ASSUME d.base = None
               PROVE  /\ new \in used'
                      /\ new \in IF d.parent = None THEN HostIds \ used ELSE SeatIds
    OBVIOUS
  <2>1. new \in ids
    BY <1>2
  <2>2. new # None
    BY <2>1, SeatAssumption
  <2> QED
    BY <1>2, <2>1, <2>2
<1> HIDE DEF d, ids
<1>7. /\ HostsOK(Applied(d, new), used')
      /\ DOMAIN Applied(d, new) \cap used \subseteq DOMAIN Current.hosts
  BY <1>1, <1>4, <1>5, <1>6, AppliedIsOK
<1>8. ConfigOK(config', used') /\ Evolves(config, config', used)
  BY <1>2, <1>5, <1>7, Written
<1>9. TokensOK(tokens') /\ \A u \in Slots : Referenced(u) => Kept(u)
  BY <1>1, TokensStay
<1>10. gone' \subseteq Slots
  BY <1>1, <1>4 DEF ConsentInd
<1> QED
  BY <1>1, <1>5, <1>8, <1>9, <1>10, DoneStep

\* A request ends whose mutation was refused.
LEMMA DoneUnwritten ==
  ASSUME ConsentInd, NEW c \in Calls, Done(c), config' = Current,
         UNCHANGED <<used, tokens, gone>>
  PROVE  ConsentInd'
<1>1. ConfigOK(config', used') /\ Evolves(config, config', used) /\ used \subseteq used'
  BY NotWritten
<1>2. TokensOK(tokens') /\ \A t \in Slots : Referenced(t) => Kept(t)
  BY TokensStay
<1>3. gone' \subseteq Slots
  BY DEF ConsentInd
<1> QED
  BY <1>1, <1>2, <1>3, DoneStep

LEMMA ApplyFailsStep ==
  ASSUME ConsentInd, NEW c \in Calls, ApplyFails(c)
  PROVE  ConsentInd'
<1>1. config' = Current /\ Done(c) /\ UNCHANGED <<used, tokens, gone>>
  BY DEF ApplyFails, MutateFails, memory
<1> QED
  BY <1>1, DoneUnwritten

LEMMA DeleteStep ==
  ASSUME ConsentInd, config_delete
  PROVE  ConsentInd'
<1> DEFINE hosts == Current.hosts
           smaller(s) == [h \in DOMAIN hosts |-> [hosts[h] EXCEPT !.seats = Without(@, s)]]
<1>1. UNCHANGED <<tokens, gone, call, used>>
  BY DEF config_delete, memory
<1>2. BareHosts(hosts, used)
  BY HostsAreBare DEF BareHosts
<1>3. ASSUME NEW X, BareHosts(X, used), DOMAIN X \subseteq DOMAIN hosts, NEW e,
             Mutate(e, Unconsented(X))
      PROVE  ConsentInd'
  <2>1. HostsOK(Unconsented(X), used') /\ DOMAIN Unconsented(X) = DOMAIN X
    BY <1>1, <1>3, UnconsentedIsOK DEF BareHosts
  <2>2. ConfigOK(config', used') /\ Evolves(config, config', used)
    BY <1>1, <1>3, <2>1, Written
  <2>3. TokensOK(tokens') /\ \A u \in Slots : Referenced(u) => Kept(u)
    BY <1>1, TokensStay
  <2>4. gone' \subseteq Slots /\ used \subseteq used'
    BY <1>1 DEF ConsentInd
  <2> QED
    BY <1>1, <2>2, <2>3, <2>4, QuietStep
<1>4. ASSUME NEW h \in HostIds, Mutate(Current.revision, Unconsented(Without(hosts, h)))
      PROVE  ConsentInd'
  <2> DEFINE X == Without(hosts, h)
  <2>1. DOMAIN X = DOMAIN hosts \ {h} /\ \A g \in DOMAIN X : X[g] = hosts[g]
    BY DEF Without, Restrict
  <2> HIDE DEF hosts
  <2>2. BareHosts(X, used)
    BY <1>2, <2>1 DEF BareHosts
  <2> HIDE DEF X
  <2>3. Mutate(Current.revision, Unconsented(X))
    BY <1>4 DEF X
  <2> QED
    BY <1>3, <2>1, <2>2, <2>3
<1>5. ASSUME NEW s \in SeatIds, Mutate(Current.revision, Unconsented(smaller(s)))
      PROVE  ConsentInd'
  <2> DEFINE X == smaller(s)
  <2>1. DOMAIN X = DOMAIN hosts
    OBVIOUS
  <2>2. ASSUME NEW h \in DOMAIN hosts PROVE BareOK(X[h], used)
    <3> DEFINE q == X[h]
    <3>1. BareOK(hosts[h], used)
      BY <1>2 DEF BareHosts
    <3>2. q = [hosts[h] EXCEPT !.seats = Without(@, s)]
      OBVIOUS
    <3> HIDE DEF hosts, X, q
    <3>3. q = [ssh |-> hosts[h].ssh, seats |-> Without(hosts[h].seats, s),
               consent |-> hosts[h].consent]
      BY <3>1, <3>2 DEF BareOK, IsHost
    <3>4. /\ q.ssh = hosts[h].ssh /\ q.seats = Without(hosts[h].seats, s)
          /\ q.consent = hosts[h].consent
      BY <3>3
    <3>5. IsHost(q)
      BY <3>3, <3>4 DEF IsHost
    <3>6. DOMAIN q.seats \subseteq DOMAIN hosts[h].seats
      BY <3>4 DEF Without, Restrict
    <3>7. BareOK(q, used)
      BY <3>1, <3>4, <3>5, <3>6 DEF BareOK
    <3> QED
      BY <3>7 DEF q
  <2>3. BareHosts(X, used)
    BY <1>2, <2>1, <2>2 DEF BareHosts
  <2>4. Mutate(Current.revision, Unconsented(X))
    BY <1>5
  <2> HIDE DEF X, hosts
  <2> QED
    BY <1>3, <2>1, <2>3, <2>4
<1> QED
  BY <1>4, <1>5 DEF config_delete

LEMMA DraftCreateStep ==
  ASSUME ConsentInd, draft_create
  PROVE  ConsentInd'
<1>1. UNCHANGED <<config, used, call>>
  BY DEF draft_create, files
<1>2. ASSUME NEW p \in HostIds \cup {None}, NEW b \in HostIds \cup SeatIds \cup {None},
             NEW f \in Addresses \cup Seats, p = None => f \in Addresses
      PROVE  TokenOK(Draft(p, b, f))
  <2> DEFINE d == Draft(p, b, f)
  <2>1. d \in Drafts
    BY DEF Draft, Drafts
  <2>2. d.kind = "draft" /\ d.parent = p /\ d.field = f
    BY DEF Draft
  <2> HIDE DEF d
  <2>3. TokenOK(d)
    BY <1>2, <2>1, <2>2 DEF TokenOK
  <2> QED
    BY <2>3 DEF d
<1>0. /\ DOMAIN config.hosts \subseteq HostIds
      /\ \A h \in DOMAIN config.hosts : DOMAIN config.hosts[h].seats \subseteq SeatIds
  BY DEF ConsentInd, ConfigOK, HostsOK, HostOK
<1>3. \E d : TokenOK(d) /\ Issue(d)
  <2>1. ASSUME NEW b \in DOMAIN config.hosts \cup {None}, NEW a \in Addresses,
               Issue(Draft(None, b, a))
        PROVE  \E d : TokenOK(d) /\ Issue(d)
    BY <1>0, <1>2, <2>1
  <2>2. ASSUME NEW h \in DOMAIN config.hosts, NEW f \in Seats, NEW b \in SeatIds \cup {None},
               Issue(Draft(h, b, f))
        PROVE  \E d : TokenOK(d) /\ Issue(d)
    <3>1. h # None
      BY <1>0, SeatAssumption
    <3> QED
      BY <1>0, <1>2, <2>2, <3>1
  <2> QED
    BY <1>0, <2>1, <2>2 DEF draft_create
<1>4. PICK d : TokenOK(d) /\ Issue(d)
  BY <1>3
<1>5. TokensOK(tokens') /\ gone' \subseteq Slots /\ \A t \in Slots : Referenced(t) => Kept(t)
  BY <1>4, Issued
<1>6. ConfigOK(config', used') /\ Evolves(config, config', used) /\ used \subseteq used'
  BY <1>1, ConfigStays
<1> QED
  BY <1>1, <1>5, <1>6, QuietStep

LEMMA DraftUpdateStep ==
  ASSUME ConsentInd, draft_update
  PROVE  ConsentInd'
<1>1. UNCHANGED <<config, used, call, gone>>
  BY DEF draft_update, files
<1>2. PICK t \in Live("draft") :
        \E f \in IF tokens[t].parent = None THEN Addresses ELSE Seats :
           tokens' = [tokens EXCEPT ![t].field = f]
  BY DEF draft_update
<1>3. PICK f \in IF tokens[t].parent = None THEN Addresses ELSE Seats :
        tokens' = [tokens EXCEPT ![t].field = f]
  BY <1>2
<1>4. t \in Slots /\ tokens[t] # None /\ tokens[t].kind = "draft"
  BY DEF Live
<1>5. /\ tokens = [u \in Slots |-> tokens[u]]
      /\ \A u \in Slots : tokens[u] # None => TokenOK(tokens[u])
  BY DEF ConsentInd, TokensOK
<1>6. /\ tokens' = [u \in Slots |-> tokens'[u]]
      /\ \A u \in Slots : u # t => tokens'[u] = tokens[u]
      /\ tokens'[t] = [tokens[t] EXCEPT !.field = f]
  BY <1>3, <1>4, <1>5
<1> DEFINE q == tokens'[t]
<1>7. tokens[t] \in Drafts /\ f \in Addresses \cup Seats
  BY <1>3, <1>4, <1>5 DEF TokenOK
<1>8. q \in Drafts /\ q.kind = "draft" /\ q.parent = tokens[t].parent /\ q.field = f
  BY <1>6, <1>7 DEF Drafts
<1>9. TokenOK(q)
  BY <1>3, <1>8 DEF TokenOK
<1>10. TokensOK(tokens')
  BY <1>5, <1>6, <1>9 DEF TokensOK
<1>11. q # None
  BY <1>8, SeatAssumption
<1>12. \A u \in Slots : Referenced(u) => Kept(u)
  BY <1>1, <1>4, <1>6, <1>8, <1>11 DEF Kept
<1>13. ConfigOK(config', used') /\ Evolves(config, config', used) /\ used \subseteq used'
  BY <1>1, ConfigStays
<1> QED
  BY <1>1, <1>10, <1>12, <1>13, QuietStep DEF ConsentInd

-----------------------------------------------------------------------------
(***************************************************************************)
(* The steps of a request.                                                 *)
(***************************************************************************)

\* A request with another program counter
LEMMA MovedCall ==
  ASSUME NEW k, IsCall(k), NEW pc
  PROVE  /\ IsCall([k EXCEPT !.pc = pc]) /\ [k EXCEPT !.pc = pc].pc = pc
         /\ [k EXCEPT !.pc = pc].op = k.op /\ [k EXCEPT !.pc = pc].token = k.token
         /\ [k EXCEPT !.pc = pc].expected = k.expected /\ [k EXCEPT !.pc = pc].host = k.host
         /\ [k EXCEPT !.pc = pc].record = k.record /\ [k EXCEPT !.pc = pc].key = k.key
         /\ [k EXCEPT !.pc = pc].eff = k.eff /\ [k EXCEPT !.pc = pc].linger = k.linger
<1> DEFINE r == [k EXCEPT !.pc = pc]
<1>1. r = [pc |-> pc, op |-> k.op, token |-> k.token, expected |-> k.expected,
           record |-> k.record, host |-> k.host, seat |-> k.seat, lines |-> k.lines,
           key |-> k.key, eff |-> k.eff, linger |-> k.linger]
  BY DEF IsCall
<1> HIDE DEF r
<1>2. /\ r.pc = pc /\ r.op = k.op /\ r.token = k.token /\ r.expected = k.expected
      /\ r.record = k.record /\ r.host = k.host /\ r.seat = k.seat /\ r.lines = k.lines
      /\ r.key = k.key /\ r.eff = k.eff /\ r.linger = k.linger
  BY <1>1
<1>3. IsCall(r)
  BY <1>1, <1>2 DEF IsCall
<1> QED
  BY <1>2, <1>3 DEF r

LEMMA ProbeStep ==
  ASSUME ConsentInd, NEW c \in Calls, probe_host_key(c)
  PROVE  ConsentInd'
<1>1. UNCHANGED <<config, used>> /\ Done(c)
  BY DEF probe_host_key, files
<1>2. PICK d : d.kind = "trust" /\ Issue(d)
  BY DEF probe_host_key
<1>3. TokenOK(d)
  BY <1>2 DEF TokenOK
<1>4. TokensOK(tokens') /\ gone' \subseteq Slots /\ \A t \in Slots : Referenced(t) => Kept(t)
  BY <1>2, <1>3, Issued
<1>5. ConfigOK(config', used') /\ Evolves(config, config', used) /\ used \subseteq used'
  BY <1>1, ConfigStays
<1> QED
  BY <1>1, <1>4, <1>5, DoneStep

LEMMA ReadLinesStep ==
  ASSUME ConsentInd, NEW c \in Calls, ReadLines(c)
  PROVE  ConsentInd'
<1> DEFINE k == call[c]
           q == [k EXCEPT !.pc = "install"]
           r == [q EXCEPT !.lines = known]
<1>1. UNCHANGED <<config, used, tokens, gone>> /\ k.pc = "lines" /\ gone' \subseteq Slots
  BY DEF ReadLines, files, memory, ConsentInd
<1>2. call' = [call EXCEPT ![c] = r]
  BY DEF ReadLines
<1>3. /\ IsCall(k) /\ Refers(k, tokens) /\ Snapshot(k, config, used)
  BY CallFacts
<1> HIDE DEF k
<1>4. /\ IsCall(q) /\ q.pc = "install" /\ q.op = k.op /\ q.token = k.token
      /\ q.expected = k.expected /\ q.host = k.host /\ q.record = k.record
  BY <1>3, MovedCall
<1> HIDE DEF q
<1>5. r = [pc |-> q.pc, op |-> q.op, token |-> q.token, expected |-> q.expected,
           record |-> q.record, host |-> q.host, seat |-> q.seat, lines |-> known,
           key |-> q.key, eff |-> q.eff, linger |-> q.linger]
  BY <1>4 DEF IsCall
<1> HIDE DEF r
<1>6. /\ r.pc = "install" /\ r.op = k.op /\ r.token = k.token /\ r.expected = k.expected
      /\ r.host = k.host /\ r.record = k.record /\ IsCall(r)
  BY <1>4, <1>5 DEF IsCall
<1>7. Refers(r, tokens) /\ Snapshot(r, config, used) /\ Agreed(r) /\ Spent(r, gone')
  BY <1>1, <1>3, <1>6 DEF Refers, Snapshot, Agreed, Spent, Reading, Pcs
<1>8. CallOK(r, tokens, gone', config, used)
  BY <1>6, <1>7 DEF CallOK, Pcs
<1> QED
  BY <1>1, <1>2, <1>6, <1>8, Advance

\* The slot that a request deletes its token from
LEMMA DeletedSlot ==
  ASSUME ConsentInd, NEW c \in Calls, call[c].token # None
  PROVE  gone \cup {call[c].token} \subseteq Slots
<1>1. Refers(call[c], tokens) /\ call[c].pc \in Pcs
  BY DEF ConsentInd, CallOK
<1> QED
  BY <1>1 DEF Refers, Holds, Pcs, ConsentInd

\* A request ends that has deleted its token.
LEMMA DoneDeleting ==
  ASSUME ConsentInd, NEW c \in Calls, call[c].token # None, Done(c),
         gone' = gone \cup {call[c].token}, UNCHANGED <<config, used, tokens>>
  PROVE  ConsentInd'
<1>1. ConfigOK(config', used') /\ Evolves(config, config', used) /\ used \subseteq used'
  BY ConfigStays
<1>2. TokensOK(tokens') /\ \A t \in Slots : Referenced(t) => Kept(t)
  BY TokensStay
<1>3. gone' \subseteq Slots
  BY DeletedSlot
<1> QED
  BY <1>1, <1>2, <1>3, DoneStep

LEMMA InstallLineStep ==
  ASSUME ConsentInd, NEW c \in Calls, InstallLine(c)
  PROVE  ConsentInd'
<1> DEFINE k == call[c]
           r == [k EXCEPT !.pc = "unconsent"]
<1>1. /\ UNCHANGED <<config, used, tokens>> /\ k.pc = "install"
      /\ gone' = gone \cup {k.token}
      /\ Done(c) \/ Goto(c, "unconsent")
  BY DEF InstallLine
<1>2. IsCall(k) /\ Refers(k, tokens) /\ Snapshot(k, config, used)
  BY CallFacts
<1>3. k.token # None
  BY <1>1, <1>2, SeatAssumption DEF Refers, Holds, Slots
<1>4. gone' \subseteq Slots
  BY <1>1, <1>3, DeletedSlot
<1>5. CASE Done(c)
  BY <1>1, <1>3, <1>5, DoneDeleting
<1>6. CASE Goto(c, "unconsent")
  <2>1. call' = [call EXCEPT ![c] = r]
    BY <1>6 DEF Goto
  <2> HIDE DEF k
  <2>2. /\ IsCall(r) /\ r.pc = "unconsent" /\ r.op = k.op /\ r.token = k.token
        /\ r.expected = k.expected /\ r.host = k.host /\ r.record = k.record
    BY <1>2, MovedCall
  <2> HIDE DEF r
  <2>3. Refers(r, tokens) /\ Snapshot(r, config, used) /\ Agreed(r) /\ Spent(r, gone')
    BY <1>1, <1>2, <2>2 DEF Refers, Snapshot, Agreed, Spent, Reading, Pcs
  <2>4. CallOK(r, tokens, gone', config, used)
    BY <2>2, <2>3 DEF CallOK, Pcs
  <2> QED
    BY <1>1, <1>4, <2>1, <2>2, <2>4, Advance
<1> QED
  BY <1>1, <1>5, <1>6

\* A consent is written beside the host that the request took its snapshot of: had the host
\* changed, the revision would have moved on.
LEMMA StoreWrites ==
  ASSUME ConsentInd, NEW c \in Calls, call[c].pc \in Reading, NEW consent, Store(c, consent),
         UNCHANGED used,
         consent # None =>
           /\ consent.digest = consent.shown
           /\ consent.digest.host = call[c].host
           /\ consent.digest.ssh = call[c].record.ssh
           /\ consent.digest.seats = call[c].record.seats
  PROVE  ConfigOK(config', used') /\ Evolves(config, config', used) /\ used \subseteq used'
<1> DEFINE k == call[c]
           h == k.host
           hosts == Consented(c, consent)
<1>1. h \in DOMAIN Current.hosts /\ Mutate(k.expected, hosts)
  BY DEF Store
<1>2. ~corrupt /\ Current = config
  <2>1. DOMAIN Empty.hosts = {}
    BY DEF Empty
  <2> QED
    BY <1>1, <2>1 DEF Current
<1>3. h \in DOMAIN config.hosts /\ k.expected = config.revision
  BY <1>1, <1>2 DEF Mutate
<1>4. config.hosts[h].ssh = k.record.ssh /\ config.hosts[h].seats = k.record.seats
  <2>1. Snapshot(k, config, used)
    BY CallFacts
  <2> QED
    BY <1>3, <2>1 DEF Snapshot
<1>5. HostsOK(config.hosts, used)
  BY DEF ConsentInd, ConfigOK
<1>6. hosts = [config.hosts EXCEPT ![h].consent = consent]
  BY <1>2 DEF Consented
<1>7. DOMAIN hosts = DOMAIN config.hosts /\ \A g \in DOMAIN hosts : g # h => hosts[g] = config.hosts[g]
  BY <1>6
<1>8. HostOK(h, hosts[h], used)
  <2> DEFINE old == config.hosts[h]
             r == hosts[h]
  <2>1. r = [old EXCEPT !.consent = consent]
    BY <1>3, <1>6
  <2>2. HostOK(h, old, used)
    BY <1>3, <1>5 DEF HostsOK
  <2> HIDE DEF old, r
  <2>3. r = [ssh |-> old.ssh, seats |-> old.seats, consent |-> consent]
    BY <2>1, <2>2 DEF HostOK, IsHost
  <2>4. r.ssh = old.ssh /\ r.seats = old.seats /\ r.consent = consent
    BY <2>3
  <2>5. IsHost(r)
    BY <2>3, <2>4 DEF IsHost
  <2>6. old.ssh = k.record.ssh /\ old.seats = k.record.seats
    BY <1>4 DEF old
  <2>7. HostOK(h, r, used)
    BY <2>2, <2>4, <2>5, <2>6 DEF HostOK, Honest
  <2> QED
    BY <2>7 DEF r
<1>9. HostsOK(hosts, used')
  BY <1>5, <1>7, <1>8 DEF HostsOK
<1>10. DOMAIN hosts \cap used \subseteq DOMAIN Current.hosts
  BY <1>2, <1>7
<1>11. used \subseteq used'
  OBVIOUS
<1> HIDE DEF hosts, k
<1> QED
  BY <1>1, <1>9, <1>10, <1>11, Written

LEMMA UnconsentStep ==
  ASSUME ConsentInd, NEW c \in Calls, Unconsent(c)
  PROVE  ConsentInd'
<1>1. /\ call[c].pc = "unconsent" /\ Done(c) /\ UNCHANGED <<used, tokens, gone>>
      /\ Store(c, None) \/ StoreFails(c)
  BY DEF Unconsent, memory
<1>2. CASE Store(c, None)
  <2>1. call[c].pc \in Reading
    BY <1>1 DEF Reading, Pcs
  <2>2. ConfigOK(config', used') /\ Evolves(config, config', used) /\ used \subseteq used'
    BY <1>1, <1>2, <2>1, StoreWrites
  <2>3. TokensOK(tokens') /\ \A t \in Slots : Referenced(t) => Kept(t)
    BY <1>1, TokensStay
  <2>4. gone' \subseteq Slots
    BY <1>1 DEF ConsentInd
  <2> QED
    BY <1>1, <2>2, <2>3, <2>4, DoneStep
<1>3. CASE StoreFails(c)
  <2>1. config' = Current
    BY <1>3 DEF StoreFails
  <2> QED
    BY <1>1, <2>1, DoneUnwritten
<1> QED
  BY <1>1, <1>2, <1>3

LEMMA ObserveStep ==
  ASSUME ConsentInd, NEW c \in Calls, Observe(c)
  PROVE  ConsentInd'
<1> DEFINE k == call[c]
           key == known_fingerprint(HostOf(c).ssh)
           q1 == [k EXCEPT !.pc = "decide"]
           q2 == [q1 EXCEPT !.key = key]
           q3 == [q2 EXCEPT !.eff = world.eff]
           r == [q3 EXCEPT !.linger = world.linger]
<1>1. /\ UNCHANGED <<config, used, tokens, gone>> /\ k.pc = "observe" /\ gone' \subseteq Slots
      /\ Accepted(c, key, world.eff)
  BY DEF Observe, files, memory, ConsentInd
<1>2. call' = [call EXCEPT ![c] = r]
  BY DEF Observe
<1>3. IsCall(k) /\ Refers(k, tokens) /\ Snapshot(k, config, used)
  BY CallFacts
<1>4. k.op \in {"operate", "force"} => k.record.consent # None
  BY <1>1 DEF Accepted, Consent, HostOf
<1> HIDE DEF k, key
<1>5. /\ IsCall(q1) /\ q1.pc = "decide" /\ q1.op = k.op /\ q1.token = k.token
      /\ q1.expected = k.expected /\ q1.host = k.host /\ q1.record = k.record
  BY <1>3, MovedCall
<1> HIDE DEF q1
<1>6. q2 = [pc |-> q1.pc, op |-> q1.op, token |-> q1.token, expected |-> q1.expected,
            record |-> q1.record, host |-> q1.host, seat |-> q1.seat, lines |-> q1.lines,
            key |-> key, eff |-> q1.eff, linger |-> q1.linger]
  BY <1>5 DEF IsCall
<1> HIDE DEF q2
<1>7. q3 = [pc |-> q1.pc, op |-> q1.op, token |-> q1.token, expected |-> q1.expected,
            record |-> q1.record, host |-> q1.host, seat |-> q1.seat, lines |-> q1.lines,
            key |-> key, eff |-> world.eff, linger |-> q1.linger]
  BY <1>6
<1> HIDE DEF q3
<1>8. r = [pc |-> q1.pc, op |-> q1.op, token |-> q1.token, expected |-> q1.expected,
           record |-> q1.record, host |-> q1.host, seat |-> q1.seat, lines |-> q1.lines,
           key |-> key, eff |-> world.eff, linger |-> world.linger]
  BY <1>7
<1> HIDE DEF r
<1>9. /\ r.pc = "decide" /\ r.op = k.op /\ r.token = k.token /\ r.expected = k.expected
      /\ r.host = k.host /\ r.record = k.record /\ IsCall(r)
  BY <1>5, <1>8 DEF IsCall
<1>10. Refers(r, tokens)
  BY <1>1, <1>3, <1>9 DEF Refers
<1>11. Snapshot(r, config, used)
  BY <1>1, <1>3, <1>9 DEF Snapshot, Reading, Pcs
<1>12. Agreed(r) /\ Spent(r, gone')
  BY <1>4, <1>9 DEF Agreed, Spent
<1>13. CallOK(r, tokens, gone', config, used)
  BY <1>9, <1>10, <1>11, <1>12 DEF CallOK, Pcs
<1> QED
  BY <1>1, <1>2, <1>9, <1>13, Advance

LEMMA ShowPreviewStep ==
  ASSUME ConsentInd, NEW c \in Calls, ShowPreview(c)
  PROVE  ConsentInd'
<1>1. UNCHANGED <<config, used>> /\ Done(c)
  BY DEF ShowPreview, files
<1>2. PICK d : d.kind = "preview" /\ d.digest = d.detail /\ Issue(d)
  BY DEF ShowPreview, consent_digest
<1>3. TokenOK(d)
  BY <1>2 DEF TokenOK
<1>4. TokensOK(tokens') /\ gone' \subseteq Slots /\ \A t \in Slots : Referenced(t) => Kept(t)
  BY <1>2, <1>3, Issued
<1>5. ConfigOK(config', used') /\ Evolves(config, config', used) /\ used \subseteq used'
  BY <1>1, ConfigStays
<1> QED
  BY <1>1, <1>4, <1>5, DoneStep

LEMMA StoreConsentStep ==
  ASSUME ConsentInd, NEW c \in Calls, StoreConsent(c)
  PROVE  ConsentInd'
<1> DEFINE k == call[c]
           preview == tokens[k.token]
           digest == consent_digest(Detail(c))
           consent == [digest |-> digest, eff |-> k.eff, key |-> k.key, shown |-> preview.detail]
<1>1. /\ k.pc = "decide" /\ k.op = "confirm" /\ digest = preview.digest /\ Store(c, consent)
      /\ gone' = gone \cup {k.token} /\ Done(c) /\ UNCHANGED <<tokens, used>>
  BY DEF StoreConsent, Forget
<1>2. Holds(tokens, k.token, "preview")
  BY <1>1, CallFacts DEF Refers
<1>3. preview.digest = preview.detail /\ k.token \in Slots
  BY <1>2 DEF Holds, ConsentInd, TokensOK, TokenOK
<1>4. digest = Detail(c)
  BY DEF consent_digest
<1>5. /\ Detail(c).host = k.host /\ Detail(c).ssh = k.record.ssh
      /\ Detail(c).seats = k.record.seats
  BY DEF Detail, HostOf
<1>6. consent.digest = digest /\ consent.shown = preview.detail
  OBVIOUS
<1>7. k.pc \in Reading
  BY <1>1 DEF Reading, Pcs
<1> HIDE DEF preview, digest, consent
<1>8. ConfigOK(config', used') /\ Evolves(config, config', used) /\ used \subseteq used'
  BY <1>1, <1>3, <1>4, <1>5, <1>6, <1>7, StoreWrites
<1>9. TokensOK(tokens') /\ \A t \in Slots : Referenced(t) => Kept(t)
  BY <1>1, TokensStay
<1>10. gone' \subseteq Slots
  BY <1>1, <1>3 DEF ConsentInd
<1> QED
  BY <1>1, <1>8, <1>9, <1>10, DoneStep

LEMMA ConsentStaleStep ==
  ASSUME ConsentInd, NEW c \in Calls, ConsentStale(c)
  PROVE  ConsentInd'
<1>1. /\ Done(c) /\ UNCHANGED <<used, tokens, gone>>
      /\ UNCHANGED config \/ config' = Current
  BY DEF ConsentStale, StoreFails, memory
<1> QED
  BY <1>1, DoneQuietly, DoneUnwritten

LEMMA DecideStep ==
  ASSUME ConsentInd, NEW c \in Calls, Decide(c)
  PROVE  ConsentInd'
<1> DEFINE k == call[c]
<1>1. /\ UNCHANGED <<config, used, tokens, gone>> /\ gone' \subseteq Slots
      /\ k.pc = "decide" /\ k.op \in {"operate", "force"}
  BY DEF Decide, files, memory, ConsentInd
<1>2. /\ IsCall(k) /\ Refers(k, tokens) /\ Snapshot(k, config, used) /\ Agreed(k)
  BY CallFacts
<1>3. \/ DetailOf(k) = k.record.consent.digest /\ k.op = "operate" /\ Goto(c, "running")
      \/ DetailOf(k) = k.record.consent.digest /\ k.op = "force" /\ Goto(c, "spend")
      \/ Done(c)
  BY DEF Decide, consent_digest, Detail, DetailOf, Consent, HostOf
<1>4. CASE Done(c)
  BY <1>1, <1>4, DoneQuietly
<1>5. ASSUME NEW pc \in {"running", "spend"}, Goto(c, pc),
             DetailOf(k) = k.record.consent.digest,
             k.op = IF pc = "running" THEN "operate" ELSE "force"
      PROVE  ConsentInd'
  <2> DEFINE r == [k EXCEPT !.pc = pc]
  <2>1. call' = [call EXCEPT ![c] = r]
    BY <1>5 DEF Goto
  <2> HIDE DEF k
  <2>2. /\ IsCall(r) /\ r.pc = pc /\ r.op = k.op /\ r.token = k.token /\ r.key = k.key
        /\ r.expected = k.expected /\ r.host = k.host /\ r.record = k.record
        /\ r.eff = k.eff /\ r.linger = k.linger
    BY <1>2, MovedCall
  <2> HIDE DEF r
  <2>3. Refers(r, tokens)
    BY <1>1, <1>2, <1>5, <2>2 DEF Refers
  <2>4. Snapshot(r, config, used)
    BY <1>1, <1>2, <1>5, <2>2 DEF Snapshot, Reading, Pcs
  <2>5. Agreed(r)
    <3>1. DetailOf(r) = DetailOf(k)
      BY <2>2 DEF DetailOf
    <3> QED
      BY <1>1, <1>2, <1>5, <2>2, <3>1 DEF Agreed
  <2>6. ~(r.pc = "running" /\ r.op = "force")
    BY <1>5, <2>2
  <2>7. CallOK(r, tokens, gone', config, used)
    BY <1>5, <2>2, <2>3, <2>4, <2>5, <2>6 DEF CallOK, Pcs, Spent
  <2> QED
    BY <1>1, <2>1, <2>6, <2>7, Advance
<1>6. CASE DetailOf(k) = k.record.consent.digest /\ k.op = "operate" /\ Goto(c, "running")
  BY <1>5, <1>6
<1>7. CASE DetailOf(k) = k.record.consent.digest /\ k.op = "force" /\ Goto(c, "spend")
  BY <1>5, <1>7
<1> QED
  BY <1>3, <1>4, <1>6, <1>7

\* The challenge is deleted by the request that goes on, and no other had deleted it.
LEMMA SpendStep ==
  ASSUME ConsentInd, NEW c \in Calls, SpendChallenge(c)
  PROVE  ConsentInd'
<1> DEFINE k == call[c]
           r == [k EXCEPT !.pc = "running"]
<1>1. /\ UNCHANGED <<config, used, tokens>> /\ k.pc = "spend"
      /\ gone' = gone \cup {k.token}
      /\ Done(c) \/ (k.token \notin gone /\ Goto(c, "running"))
  BY DEF SpendChallenge, files
<1>2. /\ IsCall(k) /\ Refers(k, tokens) /\ Snapshot(k, config, used) /\ Agreed(k)
  BY CallFacts
<1>3. k.token # None
  BY <1>1, <1>2, SeatAssumption DEF Refers, Holds, Slots
<1>4. gone' \subseteq Slots
  BY <1>1, <1>3, DeletedSlot
<1>5. CASE Done(c)
  BY <1>1, <1>3, <1>5, DoneDeleting
<1>6. CASE k.token \notin gone /\ Goto(c, "running")
  <2>1. call' = [call EXCEPT ![c] = r]
    BY <1>6 DEF Goto
  <2> HIDE DEF k
  <2>2. /\ IsCall(r) /\ r.pc = "running" /\ r.op = k.op /\ r.token = k.token /\ r.key = k.key
        /\ r.expected = k.expected /\ r.host = k.host /\ r.record = k.record
        /\ r.eff = k.eff /\ r.linger = k.linger
    BY <1>2, MovedCall
  <2> HIDE DEF r
  <2>3. Refers(r, tokens)
    BY <1>1, <1>2, <2>2 DEF Refers
  <2>4. Snapshot(r, config, used)
    BY <1>1, <1>2, <2>2 DEF Snapshot, Reading, Pcs
  <2>5. Agreed(r)
    <3>1. DetailOf(r) = DetailOf(k)
      BY <2>2 DEF DetailOf
    <3> QED
      BY <1>1, <1>2, <2>2, <3>1 DEF Agreed
  <2>6. Spent(r, gone')
    BY <1>1, <2>2 DEF Spent
  <2>7. CallOK(r, tokens, gone', config, used)
    BY <2>2, <2>3, <2>4, <2>5, <2>6 DEF CallOK, Pcs
  <2>8. gone \subseteq gone' /\ r.token \notin gone
    BY <1>1, <1>6, <2>2
  <2> QED
    BY <1>1, <1>4, <2>1, <2>7, <2>8, Advance
<1> QED
  BY <1>1, <1>5, <1>6

LEMMA ProceedStep ==
  ASSUME ConsentInd, NEW c \in Calls, Proceed(c)
  PROVE  ConsentInd'
<1>1. CASE ObserveFails(c)
  <2>1. Done(c) /\ UNCHANGED <<config, used, tokens, gone>>
    BY <1>1 DEF ObserveFails, files, memory
  <2> QED
    BY <2>1, DoneQuietly
<1>2. CASE Finish(c)
  <2>1. Done(c) /\ UNCHANGED <<config, used, tokens, gone>>
    BY <1>2 DEF Finish, files, memory
  <2> QED
    BY <2>1, DoneQuietly
<1> QED
  BY <1>1, <1>2, ApplyDraftStep, ApplyFailsStep, ProbeStep, ReadLinesStep, InstallLineStep,
     UnconsentStep, ObserveStep, ShowPreviewStep, StoreConsentStep, ConsentStaleStep,
     DecideStep, SpendStep DEF Proceed

-----------------------------------------------------------------------------
(***************************************************************************)
(* Challenges, time, faults and the world outside.                         *)
(***************************************************************************)
LEMMA ChallengeStep ==
  ASSUME ConsentInd, seat_force_stop_challenge
  PROVE  ConsentInd'
<1>1. UNCHANGED <<config, used, call>>
  BY DEF seat_force_stop_challenge, files
<1>2. PICK d : d.kind = "force" /\ Issue(d)
  BY DEF seat_force_stop_challenge
<1>3. TokenOK(d)
  BY <1>2 DEF TokenOK
<1>4. TokensOK(tokens') /\ gone' \subseteq Slots /\ \A t \in Slots : Referenced(t) => Kept(t)
  BY <1>2, <1>3, Issued
<1>5. ConfigOK(config', used') /\ Evolves(config, config', used) /\ used \subseteq used'
  BY <1>1, ConfigStays
<1> QED
  BY <1>1, <1>4, <1>5, QuietStep

LEMMA ExpireStep ==
  ASSUME ConsentInd, ExpireToken
  PROVE  ConsentInd'
<1>1. UNCHANGED <<config, used, call, gone>>
  BY DEF ExpireToken, files
<1>2. PICK s \in Slots : ~Referenced(s) /\ tokens' = [tokens EXCEPT ![s] = None]
  BY DEF ExpireToken
<1>3. /\ tokens = [t \in Slots |-> tokens[t]]
      /\ \A t \in Slots : tokens[t] # None => TokenOK(tokens[t])
  BY DEF ConsentInd, TokensOK
<1>4. /\ tokens' = [t \in Slots |-> tokens'[t]] /\ tokens'[s] = None
      /\ \A t \in Slots : t # s => tokens'[t] = tokens[t]
  BY <1>2, <1>3
<1>5. TokensOK(tokens')
  BY <1>3, <1>4 DEF TokensOK
<1>6. \A t \in Slots : Referenced(t) => Kept(t)
  BY <1>1, <1>2, <1>4 DEF Kept
<1>7. ConfigOK(config', used') /\ Evolves(config, config', used) /\ used \subseteq used'
  BY <1>1, ConfigStays
<1>8. gone' \subseteq Slots
  BY <1>1 DEF ConsentInd
<1> QED
  BY <1>1, <1>5, <1>6, <1>7, <1>8, QuietStep

LEMMA QuarantineStep ==
  ASSUME ConsentInd, Quarantine
  PROVE  ConsentInd'
<1>1. UNCHANGED <<used, call, tokens, gone>> /\ config' = Current
  BY DEF Quarantine, memory, Current
<1>2. ConfigOK(config', used') /\ Evolves(config, config', used) /\ used \subseteq used'
  BY <1>1, NotWritten
<1>3. TokensOK(tokens') /\ \A t \in Slots : Referenced(t) => Kept(t)
  BY <1>1, TokensStay
<1>4. gone' \subseteq Slots
  BY <1>1 DEF ConsentInd
<1> QED
  BY <1>1, <1>2, <1>3, <1>4, QuietStep

LEMMA RestartStep ==
  ASSUME ConsentInd, Restart
  PROVE  ConsentInd'
<1>1. /\ UNCHANGED <<config, used>> /\ tokens' = [t \in Slots |-> None] /\ gone' = {}
      /\ call' = [c \in Calls |-> Idle]
  BY DEF Restart, files
<1>2. ConfigOK(config', used')
  BY <1>1, ConfigStays
<1>3. TokensOK(tokens')
  BY <1>1 DEF TokensOK
<1>4. \A c \in Calls : CallOK(call'[c], tokens', gone', config', used')
  BY <1>1, IdleIsOK
<1>5. Apart(call') /\ call' = [c \in Calls |-> call'[c]]
  BY <1>1, IdleIsOK DEF Apart
<1> QED
  BY <1>1, <1>2, <1>3, <1>4, <1>5 DEF ConsentInd

LEMMA DriftStep ==
  ASSUME ConsentInd, Drift
  PROVE  ConsentInd'
<1>1. UNCHANGED <<config, used, tokens, gone, call>>
  BY DEF Drift, memory
<1> QED
  BY <1>1 DEF ConsentInd

\* A first run has no hosts.  A bridge that starts on a configuration finds one host, whose
\* consent is about what it holds.
LEMMA InitIsOK == Init => ConsentInd
<1> SUFFICES ASSUME Init PROVE ConsentInd
  OBVIOUS
<1>1. TokensOK(tokens) /\ gone \subseteq Slots
  BY DEF Init, TokensOK
<1>2. call = [c \in Calls |-> Idle]
  BY DEF Init
<1>3. call = [c \in Calls |-> call[c]] /\ Apart(call)
  BY <1>2, IdleIsOK DEF Apart
<1>4. \A c \in Calls : CallOK(call[c], tokens, gone, config, used)
  BY <1>2, IdleIsOK
<1>5. ConfigOK(config, used)
  <2>1. CASE config = Empty
    <3>1. config.revision = 0 /\ DOMAIN config.hosts = {} /\ config = [revision |-> config.revision, hosts |-> config.hosts]
      BY <2>1 DEF Empty
    <3>2. Valid(config) /\ HostsOK(config.hosts, used)
      BY <3>1 DEF Valid, HostsOK
    <3>3. config.revision \in 0..MaxRevision
      BY <3>1, SeatAssumption
    <3> QED
      BY <3>1, <3>2, <3>3 DEF ConfigOK
  <2>2. ASSUME NEW h \in HostIds, NEW s \in SeatIds, NEW a \in Addresses, NEW f \in Seats,
               NEW seats, seats = With(<<>>, s, f), NEW shown,
               shown = [host |-> h, ssh |-> a, seats |-> seats, key |-> world.key,
                        eff |-> world.eff, linger |-> world.linger],
               NEW given, given = [digest |-> shown, eff |-> world.eff, key |-> world.key,
                                   shown |-> shown],
               NEW consent \in {None, given}, NEW host,
               host = [ssh |-> a, seats |-> seats, consent |-> consent],
               config = [revision |-> 1, hosts |-> With(<<>>, h, host)], used = {h, s}
        PROVE  ConfigOK(config, used)
    <3>1. DOMAIN seats = {s}
      BY <2>2 DEF With
    <3>2. host.ssh = a /\ host.seats = seats /\ host.consent = consent /\ IsHost(host)
      BY <2>2 DEF IsHost
    <3>3. /\ shown.host = h /\ shown.ssh = a /\ shown.seats = seats
          /\ given.digest = shown /\ given.shown = shown
      BY <2>2
    <3>4. HostOK(h, host, used)
      BY <2>2, <3>1, <3>2, <3>3 DEF HostOK, Honest
    <3>5. config.revision = 1 /\ config.hosts = With(<<>>, h, host)
      BY <2>2
    <3>6. DOMAIN config.hosts = {h} /\ config.hosts[h] = host
      BY <3>5 DEF With
    <3>7. HostsOK(config.hosts, used)
      BY <2>2, <3>4, <3>6 DEF HostsOK
    <3>8. Valid(config)
      BY <3>1, <3>2, <3>6 DEF Valid
    <3>9. config.revision \in 0..MaxRevision
      BY <3>5, SeatAssumption
    <3>10. config = [revision |-> config.revision, hosts |-> config.hosts]
      BY <2>2, <3>5
    <3> QED
      BY <3>7, <3>8, <3>9, <3>10 DEF ConfigOK
  <2>3. CASE config # Empty
    <3>1. PICK h \in HostIds, s \in SeatIds, a \in Addresses, f \in Seats :
            LET seats == With(<<>>, s, f)
                shown == [host |-> h, ssh |-> a, seats |-> seats,
                          key |-> world.key, eff |-> world.eff, linger |-> world.linger]
                given == [digest |-> shown, eff |-> world.eff, key |-> world.key,
                          shown |-> shown]
            IN  /\ \E consent \in {None, given} :
                     config = [revision |-> 1,
                               hosts |-> With(<<>>, h, [ssh |-> a, seats |-> seats,
                                                        consent |-> consent])]
                /\ used = {h, s}
      BY <2>3 DEF Init
    <3> DEFINE seats == With(<<>>, s, f)
               shown == [host |-> h, ssh |-> a, seats |-> seats,
                         key |-> world.key, eff |-> world.eff, linger |-> world.linger]
               given == [digest |-> shown, eff |-> world.eff, key |-> world.key,
                         shown |-> shown]
    <3>2. PICK consent \in {None, given} :
            config = [revision |-> 1,
                      hosts |-> With(<<>>, h, [ssh |-> a, seats |-> seats,
                                               consent |-> consent])]
      BY <3>1
    <3>3. used = {h, s}
      BY <3>1
    <3> HIDE DEF seats, shown, given
    <3> DEFINE host == [ssh |-> a, seats |-> seats, consent |-> consent]
    <3>4. config = [revision |-> 1, hosts |-> With(<<>>, h, host)]
      BY <3>2
    <3> HIDE DEF host
    <3> QED
      BY <2>2, <3>3, <3>4 DEF seats, shown, given, host
  <2> QED
    BY <2>1, <2>3
<1> QED
  BY <1>1, <1>3, <1>4, <1>5 DEF ConsentInd

LEMMA NextIsOK == ConsentInd /\ [Next]_vars => ConsentInd'
<1> SUFFICES ASSUME ConsentInd, [Next]_vars PROVE ConsentInd'
  OBVIOUS
<1>1. CASE Request
  BY <1>1, DraftCreateStep, DraftUpdateStep, ApplyBegins, DeleteStep, EndpointsBegin,
     ChallengeStep DEF Request
<1>2. CASE \E c \in Calls : Proceed(c)
  BY <1>2, ProceedStep
<1>3. CASE UNCHANGED vars
  BY <1>3 DEF ConsentInd, vars, files, memory
<1> QED
  BY <1>1, <1>2, <1>3, ExpireStep, QuarantineStep, RestartStep, DriftStep DEF Next

LEMMA ConsentInvariant == Spec => []ConsentInd
  BY InitIsOK, NextIsOK, PTL DEF Spec

-----------------------------------------------------------------------------
(***************************************************************************)
(* The theorems.                                                           *)
(***************************************************************************)

\* The configuration stays valid, and a consent on disk is about the host it sits on as it is
\* now, for any interleaving of edits, deletions, trust changes, quarantines and confirmations
\* (SeatStore.mutate, consent_confirm).
THEOREM ConsentsMatchHosts == Spec => []ConsentInv
<1>1. ConsentInd => ConsentInv
  <2> SUFFICES ASSUME ConsentInd PROVE TypeOK /\ StoredConsentMatchesConfig
    BY DEF ConsentInv
  <2>1. ConfigOK(config, used) /\ HostsOK(config.hosts, used)
    BY DEF ConsentInd, ConfigOK
  <2>2. StoredConsentMatchesConfig
    BY <2>1 DEF StoredConsentMatchesConfig, HostsOK, HostOK
  <2>3. ASSUME NEW c \in Calls, call[c].token # None PROVE tokens[call[c].token] # None
    <3>1. Refers(call[c], tokens) /\ call[c].pc \in Pcs
      BY DEF ConsentInd, CallOK
    <3> QED
      BY <2>3, <3>1 DEF Refers, Holds, Pcs
  <2>4. TypeOK
    BY <2>1, <2>3 DEF TypeOK, ConsentInd, ConfigOK, HostsOK, HostOK
  <2> QED
    BY <2>2, <2>4
<1> QED
  BY <1>1, ConsentInvariant, PTL

\* An operation in a controller is about the host, seats, key, SSH configuration and lifetime
\* that the user was shown (seat_operate).
THEOREM OperationsAreAsShown == Spec => []OperatesAsShown
<1>1. ConsentInd => OperatesAsShown
  <2> SUFFICES ASSUME ConsentInd, NEW c \in Calls, call[c].pc = "running"
               PROVE  Detail(c) = Consent(c).shown
    BY DEF OperatesAsShown
  <2>1. Agreed(call[c]) /\ Snapshot(call[c], config, used)
    BY CallFacts
  <2>2. /\ call[c].record.consent # None
        /\ DetailOf(call[c]) = call[c].record.consent.digest
    BY <2>1 DEF Agreed
  <2>3. Honest(call[c].record)
    BY <2>1 DEF Snapshot, Reading, Pcs
  <2>4. Detail(c) = DetailOf(call[c]) /\ Consent(c) = call[c].record.consent
    BY DEF Detail, DetailOf, Consent, HostOf
  <2> QED
    BY <2>2, <2>3, <2>4 DEF Honest
<1> QED
  BY <1>1, ConsentInvariant, PTL

\* One challenge, one force-stop, whichever requests echo it (seat_operate).
THEOREM ChallengesAreSingleUse == Spec => []ForceStopOncePerChallenge
<1>1. ConsentInd => ForceStopOncePerChallenge
  BY DEF ConsentInd, CallOK, Spent, Apart, ForceStopOncePerChallenge
<1> QED
  BY <1>1, ConsentInvariant, PTL

==============================================================================
