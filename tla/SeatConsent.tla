----------------------------- MODULE SeatConsent -----------------------------
(***************************************************************************)
(* The capability API of the seats bridge (seats/service.py): drafts, the  *)
(* revisioned configuration file, host-key trust, previews, consent,       *)
(* force-stop challenges and the checks in front of a seat operation.  The *)
(* server runs every endpoint in a thread of its pool, so requests         *)
(* interleave wherever one of them waits for a lock, a file or a process.  *)
(*                                                                         *)
(* A request is a record with a program counter.  A read or a write of the *)
(* configuration under its file lock is one step, and so is a read or a    *)
(* write of the known-hosts file; what a request learns from ssh -G and    *)
(* the linger probe, which read none of the bridge's state, comes with the *)
(* step before its next read or write.  A digest is the record of what it  *)
(* is computed from.  A request that raises, or is refused by a check on   *)
(* what it read, ends.                                                     *)
(***************************************************************************)
EXTENDS Naturals, Sequences, FiniteSets, Functions, SequencesExt

CONSTANTS
    Calls,      \* requests in progress at one time
    HostIds, SeatIds,
    Addresses,  \* SSH descriptors a host may be given
    PrefixOf,   \* <<a, b>>: the known-hosts entry of b starts with that of a
    BareOf,     \* <<a, b>>: it starts with a's host name, and a has a port of its own
    Seats,      \* seat fields: endpoint, model, template and commands
    Scripts,    \* the seats whose template is control-script
    Keys,       \* host-key fingerprints
    Effectives, \* results of ssh -G, with the ssh binary's hash
    None,
    Workloads,  \* bound: the sets of request kinds that clients mix in one behaviour
    MaxRevision, MaxTokens, MaxDrifts \* bounds

\* A draft of a host, or of a seat of the host parent; base is the object it edits
Drafts == [kind : {"draft"}, parent : HostIds \cup {None}, base : HostIds \cup SeatIds \cup {None},
           field : Addresses \cup Seats]

ASSUME SeatAssumption ==
    /\ PrefixOf \subseteq Addresses \X Addresses /\ BareOf \subseteq Addresses \X Addresses
    /\ Scripts \subseteq Seats
    /\ MaxRevision \in Nat \ {0} /\ MaxTokens \in Nat
    /\ None \notin HostIds \cup SeatIds \cup Addresses \cup Keys \cup Effectives
    /\ None \notin 1..MaxTokens /\ None \notin Drafts

VARIABLES
    config,    \* seats.v1.json
    corrupt,   \* its bytes do not validate
    known,     \* the lines of the Testudo-owned known_hosts file
    tokens,    \* drafts, previews, trust and force-stop challenges, by slot
    gone,      \* slots whose token has been deleted
    call,      \* the requests
    world,     \* what the bridge observes: host key, ssh -G, linger
    workload,  \* the kinds of requests that clients send
    drifts,    \* how often the world has changed
    used       \* host and seat ids handed out

files == <<config, corrupt, known>>
memory == <<tokens, gone>>
environment == <<world, workload, drifts>>
vars == <<files, memory, call, environment, used>>

Slots == 1..MaxTokens

\* f with x mapped to v
With(f, x, v) == [y \in DOMAIN f \cup {x} |-> IF y = x THEN v ELSE f[y]]

Empty == [revision |-> 0, hosts |-> <<>>]

Idle == [pc |-> "idle", op |-> None, token |-> None, expected |-> 0, record |-> None,
         host |-> None, seat |-> None, lines |-> <<>>,
         key |-> None, eff |-> None, linger |-> None]

\* A bridge that has just started, on a first run, or with a trusted host and
\* possibly the consent given to it.
Init ==
    /\ world \in [key : Keys, eff : Effectives, linger : {"yes"}]
    /\ workload \in Workloads
    /\ \/ config = Empty /\ known = <<>> /\ used = {}
       \/ \E h \in HostIds, s \in SeatIds, a \in Addresses, f \in Seats :
            LET seats == With(<<>>, s, f)
                shown == [host |-> h, ssh |-> a, seats |-> seats,
                          key |-> world.key, eff |-> world.eff, linger |-> world.linger]
                given == [digest |-> shown, eff |-> world.eff, key |-> world.key,
                          shown |-> shown]
            IN  /\ \E consent \in {None, given} :
                     config = [revision |-> 1,
                               hosts |-> With(<<>>, h, [ssh |-> a, seats |-> seats,
                                                        consent |-> consent])]
                /\ known = << <<a, world.key>> >>
                /\ used = {h, s}
    /\ corrupt = FALSE
    /\ tokens = [t \in Slots |-> None] /\ gone = {}
    /\ call = [c \in Calls |-> Idle]
    /\ drifts = 0

(***************************************************************************)
(* Requests, tokens and the two files.                                     *)
(***************************************************************************)
Free(c) == call[c].pc = "idle"

Goto(c, pc) == call' = [call EXCEPT ![c].pc = pc]

Done(c) == call' = [call EXCEPT ![c] = Idle]

Referenced(t) == \E c \in Calls : call[c].token = t

\* A slot is used again once its token is dead and no request refers to it.
Vacant == {t \in Slots : (tokens[t] = None \/ t \in gone) /\ ~Referenced(t)}

Issue(token) ==
    /\ Vacant # {}
    /\ LET t == CHOOSE free \in Vacant : TRUE
       IN  /\ tokens' = [tokens EXCEPT ![t] = token]
           /\ gone' = gone \ {t}

Live(kind) == {t \in Slots \ gone : tokens[t] # None /\ tokens[t].kind = kind}

\* SeatStore.load: a valid file is returned as it is
Loaded == ~corrupt

\* The closed schema: no two seats share an endpoint and a model, ids are unique
Valid(cfg) ==
    \A g, h \in DOMAIN cfg.hosts :
        \A s \in DOMAIN cfg.hosts[g].seats, t \in DOMAIN cfg.hosts[h].seats :
            /\ s = t => g = h
            /\ cfg.hosts[g].seats[s] = cfg.hosts[h].seats[t] => s = t

Current == IF corrupt THEN Empty ELSE config

\* SeatStore.mutate refuses: the revision moved on, or the result is not valid
MutateFails(expected, hosts) ==
    /\ \/ Current.revision # expected
       \/ ~Valid([Current EXCEPT !.hosts = hosts])
    /\ config' = Current /\ corrupt' = FALSE

\* Mutant: the expected revision is not compared under the lock
MutateUnchecked(expected, hosts) ==
    /\ Current.revision < MaxRevision
    /\ Valid([Current EXCEPT !.hosts = hosts])
    /\ config' = [revision |-> Current.revision + 1, hosts |-> hosts]
    /\ corrupt' = FALSE

\* SeatStore.mutate succeeds
Mutate(expected, hosts) ==
    /\ Current.revision = expected /\ expected < MaxRevision
    /\ Valid([Current EXCEPT !.hosts = hosts])
    /\ config' = [revision |-> expected + 1, hosts |-> hosts]
    /\ corrupt' = FALSE

Unconsented(hosts) == [h \in DOMAIN hosts |-> [hosts[h] EXCEPT !.consent = None]]

Without(f, x) == Restrict(f, DOMAIN f \ {x})

\* Line <<a, k>> starts with the entry of host b: such lines are replaced
Marks(b, line) == line[1] = b \/ <<b, line[1]>> \in PrefixOf

\* The lines that start with the entry of a are looked up first, then those that
\* start with its host name alone, which no replacement removes.
known_fingerprint(a) ==
    LET mine == SelectSeq(known, LAMBDA line : Marks(a, line))
                \o SelectSeq(known, LAMBDA line : <<a, line[1]>> \in BareOf)
    IN  IF mine = <<>> THEN None ELSE Head(mine)[2]

(***************************************************************************)
(* 1. Drafts.                                                              *)
(***************************************************************************)
Taken(f) == \E h \in DOMAIN config.hosts : f \in Range(config.hosts[h].seats)

Draft(parent, base, field) ==
    [kind |-> "draft", parent |-> parent, base |-> base, field |-> field]

\* A draft that edits a configured object is not checked before it is applied.
draft_create ==
    /\ Loaded
    /\ \/ \E b \in DOMAIN config.hosts \cup {None}, a \in Addresses : Issue(Draft(None, b, a))
       \/ \E h \in DOMAIN config.hosts, f \in Seats :
            \/ ~Taken(f) /\ Issue(Draft(h, None, f))
            \/ \E g \in DOMAIN config.hosts :
                 \E s \in DOMAIN config.hosts[g].seats : Issue(Draft(h, s, f))
    /\ UNCHANGED <<files, call, environment, used>>

\* A draft of a seat, also one that edits a seat, must not name an endpoint in use.
\* A request that names another revision of the draft is refused, which changes nothing.
draft_update ==
    /\ Loaded
    /\ \E t \in Live("draft") :
         \E f \in IF tokens[t].parent = None THEN Addresses ELSE Seats :
            /\ tokens[t].parent # None =>
                 tokens[t].parent \in DOMAIN config.hosts /\ ~Taken(f)
            /\ tokens' = [tokens EXCEPT ![t].field = f]
    /\ UNCHANGED <<files, gone, call, environment, used>>

(***************************************************************************)
(* 2. Configuration.                                                       *)
(***************************************************************************)
\* The hosts once draft d is applied, new is the id an added object gets
Applied(d, new) ==
    LET hosts == Current.hosts
        host(a) == [ssh |-> a, seats |-> <<>>, consent |-> None]
        seat(s) == [hosts[d.parent] EXCEPT !.seats = With(@, s, d.field)]
    IN  Unconsented(
          CASE d.parent = None /\ d.base = None -> With(hosts, new, host(d.field))
            [] d.parent = None /\ d.base # None -> [hosts EXCEPT ![d.base].ssh = d.field]
            [] d.parent # None /\ d.base = None -> With(hosts, d.parent, seat(new))
            [] OTHER -> With(hosts, d.parent, seat(d.base)))

\* The object that draft d adds to or edits is still configured
Applicable(d) ==
    /\ d.parent = None /\ d.base # None => d.base \in DOMAIN Current.hosts
    /\ d.parent # None =>
         /\ d.parent \in DOMAIN Current.hosts
         /\ d.base # None => d.base \in DOMAIN Current.hosts[d.parent].seats

\* The draft is found, with the revision the request names: another revision is
\* refused, which changes nothing.  Its fields are read when the mutation runs, so an
\* update that comes in between is applied, although the revision has moved on.
config_apply(c) ==
    /\ Free(c)
    /\ \E t \in Live("draft") :
         call' = [call EXCEPT ![c] = [Idle EXCEPT !.pc = "apply", !.token = t,
                                                  !.expected = config.revision]]
    /\ UNCHANGED <<files, memory, environment, used>>

\* The request ends with del self.drafts[...] or del self.previews[...].
Forget(c) == gone' = gone \cup {call[c].token} /\ Done(c)

ApplyDraft(c) ==
    LET d == tokens[call[c].token]
        ids == (IF d.parent = None THEN HostIds ELSE SeatIds) \ used
    IN  /\ call[c].pc = "apply"
        /\ Applicable(d)
        /\ \E new \in IF d.base = None THEN ids ELSE {None} :
             /\ Mutate(call[c].expected, Applied(d, new))
             /\ used' = used \cup ({new} \ {None})
        /\ Forget(c)
        /\ UNCHANGED <<known, tokens, environment>>

ApplyFails(c) ==
    LET d == tokens[call[c].token]
    IN  /\ call[c].pc = "apply"
        /\ IF Applicable(d)
           THEN \E new \in ({None} \cup HostIds \cup SeatIds) \ used :
                  MutateFails(call[c].expected, Applied(d, new))
           ELSE config' = Current /\ corrupt' = FALSE
        /\ Done(c)
        /\ UNCHANGED <<known, memory, environment, used>>

config_delete ==
    /\ \/ \E h \in HostIds : Mutate(Current.revision, Unconsented(Without(Current.hosts, h)))
       \/ \E s \in SeatIds :
            Mutate(Current.revision,
                   Unconsented([h \in DOMAIN Current.hosts |->
                       [Current.hosts[h] EXCEPT !.seats = Without(@, s)]]))
    /\ UNCHANGED <<known, memory, call, environment, used>>

(***************************************************************************)
(* 3. SSH trust.                                                           *)
(***************************************************************************)
\* A request that starts by loading the configuration and finding its host
Begin(c, op, pc, h, s, t) ==
    /\ Free(c) /\ Loaded /\ h \in DOMAIN config.hosts
    /\ call' = [call EXCEPT ![c] =
                  [Idle EXCEPT !.pc = pc, !.op = op, !.host = h, !.seat = s, !.token = t,
                               !.record = config.hosts[h], !.expected = config.revision]]
    /\ UNCHANGED <<files, memory, environment, used>>

HostOf(c) == call[c].record

ssh_probe(c) == \E h \in HostIds : Begin(c, "probe", "probe", h, None, None)

\* The key is observed, compared with the trusted one and offered to the user
probe_host_key(c) ==
    LET a == HostOf(c).ssh
        old == known_fingerprint(a)
    IN  /\ call[c].pc = "probe"
        /\ Issue([kind |-> "trust", host |-> call[c].host, line |-> <<a, world.key>>,
                  revision |-> call[c].expected,
                  replaces |-> old # None /\ old # world.key])
        /\ Done(c)
        /\ UNCHANGED <<files, environment, used>>

ssh_trust(c) ==
    \E t \in Live("trust") :
        /\ config.revision = tokens[t].revision
        /\ Begin(c, "trust", "lines", tokens[t].host, None, t)

ReadLines(c) ==
    /\ call[c].pc = "lines"
    /\ call' = [call EXCEPT ![c].pc = "install", ![c].lines = known]
    /\ UNCHANGED <<files, memory, environment, used>>

\* install_initial or replace_for_host, from the lines read one step before
Installed(c) ==
    LET challenge == tokens[call[c].token]
        others == SelectSeq(call[c].lines, LAMBDA line : ~Marks(HostOf(c).ssh, line))
    IN  CASE challenge.replaces -> Append(others, challenge.line)
          [] challenge.line \in Range(call[c].lines) -> known
          [] OTHER -> Append(call[c].lines, challenge.line)

\* The challenge is deleted after the file is written: the second of two
\* requests that echo one challenge raises here.
InstallLine(c) ==
    /\ call[c].pc = "install"
    /\ known' = Installed(c)
    /\ gone' = gone \cup {call[c].token}
    /\ IF call[c].token \in gone THEN Done(c) ELSE Goto(c, "unconsent")
    /\ UNCHANGED <<config, corrupt, tokens, environment, used>>

\* The host with its consent replaced, in the current configuration
Consented(c, consent) == [Current.hosts EXCEPT ![call[c].host].consent = consent]

\* The mutation finds its host and is written, or is refused
Store(c, consent) ==
    /\ call[c].host \in DOMAIN Current.hosts
    /\ Mutate(call[c].expected, Consented(c, consent))

StoreFails(c) ==
    /\ \/ Current.revision # call[c].expected
       \/ call[c].host \notin DOMAIN Current.hosts
    /\ config' = Current /\ corrupt' = FALSE

Unconsent(c) ==
    /\ call[c].pc = "unconsent"
    /\ Store(c, None) \/ StoreFails(c)
    /\ Done(c)
    /\ UNCHANGED <<known, memory, environment, used>>

(***************************************************************************)
(* 4-6. What preview_create, consent_confirm and seat_operate share: load  *)
(* the configuration, observe the host, compute the digest.                *)
(***************************************************************************)
\* What a preview displays and an operation is about
Detail(c) ==
    [host |-> call[c].host, ssh |-> HostOf(c).ssh, seats |-> HostOf(c).seats,
     key |-> call[c].key, eff |-> call[c].eff, linger |-> call[c].linger]

\* Mutant: the digest leaves the host's lifetime out
DigestWithoutLifetime(detail) == [detail EXCEPT !.linger = None]

consent_digest(detail) == detail

preview_create(c) == \E h \in HostIds : Begin(c, "preview", "observe", h, None, None)

consent_confirm(c) ==
    \E t \in Live("preview") :
        /\ config.revision = tokens[t].revision
        /\ Begin(c, "confirm", "observe", tokens[t].detail.host, None, t)

\* A start or a stop names no challenge; a force-stop is refused for scripts.
seat_operate(c) ==
    \E h \in DOMAIN config.hosts :
        \E s \in DOMAIN config.hosts[h].seats :
            \/ Begin(c, "operate", "observe", h, s, None)
            \/ /\ config.hosts[h].seats[s] \notin Scripts
               /\ \E t \in Live("force") : Begin(c, "force", "observe", h, s, t)

Consent(c) == HostOf(c).consent

\* What a request demands of the trusted key and of the result of ssh -G
Accepted(c, key, eff) ==
    /\ key # None
    /\ call[c].op = "confirm" =>
         key = tokens[call[c].token].detail.key /\ eff = tokens[call[c].token].detail.eff
    /\ call[c].op \in {"operate", "force"} =>
         Consent(c) # None /\ eff = Consent(c).eff /\ key = Consent(c).key

\* known_fingerprint, resolve_effective_ssh, probe_linger
Observe(c) ==
    LET key == known_fingerprint(HostOf(c).ssh)
    IN  /\ call[c].pc = "observe"
        /\ Accepted(c, key, world.eff)
        /\ call' = [call EXCEPT ![c].pc = "decide", ![c].key = key,
                                ![c].eff = world.eff, ![c].linger = world.linger]
        /\ UNCHANGED <<files, memory, environment, used>>

\* The host is not trusted, ssh -G fails or times out, a value has drifted, or
\* the key probe saw no key
ObserveFails(c) ==
    /\ call[c].pc \in {"observe", "probe"}
    /\ Done(c)
    /\ UNCHANGED <<files, memory, environment, used>>

ShowPreview(c) ==
    /\ call[c].pc = "decide" /\ call[c].op = "preview"
    /\ Issue([kind |-> "preview", detail |-> Detail(c), digest |-> consent_digest(Detail(c)),
              revision |-> call[c].expected])
    /\ Done(c)
    /\ UNCHANGED <<files, environment, used>>

StoreConsent(c) ==
    LET preview == tokens[call[c].token]
        digest == consent_digest(Detail(c))
    IN  /\ call[c].pc = "decide" /\ call[c].op = "confirm"
        /\ digest = preview.digest
        /\ Store(c, [digest |-> digest, eff |-> call[c].eff, key |-> call[c].key,
                     shown |-> preview.detail])
        /\ Forget(c)
        /\ UNCHANGED <<known, tokens, environment, used>>

ConsentStale(c) ==
    /\ call[c].pc = "decide" /\ call[c].op = "confirm"
    /\ IF consent_digest(Detail(c)) # tokens[call[c].token].digest
       THEN UNCHANGED <<config, corrupt>> ELSE StoreFails(c)
    /\ Done(c)
    /\ UNCHANGED <<known, memory, environment, used>>

\* The force-stop challenge t fits the request
ChallengeFits(c, t) ==
    /\ t \in Live("force")
    /\ tokens[t].seat = call[c].seat
    /\ tokens[t].revision = call[c].expected
    /\ tokens[t].digest = Consent(c).digest

\* Command-time comparison with the consent.  The challenge may have expired.
Decide(c) ==
    /\ call[c].pc = "decide" /\ call[c].op \in {"operate", "force"}
    /\ LET fits == consent_digest(Detail(c)) = Consent(c).digest
       IN  \/ fits /\ call[c].op = "operate" /\ Goto(c, "running")
           \/ /\ fits /\ call[c].op = "force" /\ ChallengeFits(c, call[c].token)
              /\ Goto(c, "spend")
           \/ (fits => call[c].op = "force") /\ Done(c)
    /\ UNCHANGED <<files, memory, environment, used>>

\* Mutant: pop(confirmation_id, None) in the place of del
SpendLeniently(c) ==
    /\ call[c].pc = "spend"
    /\ gone' = gone \cup {call[c].token}
    /\ Goto(c, "running")
    /\ UNCHANGED <<files, tokens, environment, used>>

\* del self.force_stop_challenges[...]: a challenge already deleted raises
SpendChallenge(c) ==
    /\ call[c].pc = "spend"
    /\ gone' = gone \cup {call[c].token}
    /\ IF call[c].token \in gone THEN Done(c) ELSE Goto(c, "running")
    /\ UNCHANGED <<files, tokens, environment, used>>

\* The controller has run: module SeatControl
Finish(c) ==
    /\ call[c].pc = "running"
    /\ Done(c)
    /\ UNCHANGED <<files, memory, environment, used>>

seat_force_stop_challenge ==
    /\ Loaded
    /\ \E h \in DOMAIN config.hosts :
         \E s \in DOMAIN config.hosts[h].seats :
            /\ config.hosts[h].seats[s] \notin Scripts
            /\ config.hosts[h].consent # None
            /\ Issue([kind |-> "force", seat |-> s, revision |-> config.revision,
                      digest |-> config.hosts[h].consent.digest])
    /\ UNCHANGED <<files, call, environment, used>>

(***************************************************************************)
(* Time, faults and the world outside.                                     *)
(***************************************************************************)
\* A token past expires_at is refused, which changes nothing, and then dead.
ExpireToken ==
    /\ \E t \in Slots : ~Referenced(t) /\ tokens' = [tokens EXCEPT ![t] = None]
    /\ UNCHANGED <<files, gone, call, environment, used>>

\* Any load of a file that does not validate moves it aside and starts over.
Quarantine ==
    /\ corrupt
    /\ config' = Empty /\ corrupt' = FALSE
    /\ UNCHANGED <<known, memory, call, environment, used>>

\* The bridge is restarted: the files survive, its memory does not
Restart ==
    /\ tokens' = [t \in Slots |-> None] /\ gone' = {}
    /\ call' = [c \in Calls |-> Idle]
    /\ UNCHANGED <<files, environment, used>>

\* The configuration is damaged on disk, or the host changes.  A linger probe that
\* fails, and an answer that is neither yes nor no, are unknown.
Drift ==
    /\ drifts < MaxDrifts /\ drifts' = drifts + 1
    /\ \/ corrupt' = TRUE /\ UNCHANGED world
       \/ /\ \/ \E k \in Keys : world' = [world EXCEPT !.key = k]
             \/ \E e \in Effectives : world' = [world EXCEPT !.eff = e]
             \/ world' = [world EXCEPT !.linger = "unknown"]
          /\ UNCHANGED corrupt
    /\ UNCHANGED <<config, known, memory, call, workload, used>>

\* The endpoints of the server that change anything
Request ==
    \/ "edit" \in workload /\ (draft_create \/ draft_update \/ \E c \in Calls : config_apply(c))
    \/ "delete" \in workload /\ config_delete
    \/ "trust" \in workload /\ \E c \in Calls : ssh_probe(c) \/ ssh_trust(c)
    \/ "consent" \in workload /\ \E c \in Calls : preview_create(c) \/ consent_confirm(c)
    \/ "operate" \in workload /\ (seat_force_stop_challenge \/ \E c \in Calls : seat_operate(c))

Proceed(c) ==
    \/ ApplyDraft(c) \/ ApplyFails(c)
    \/ probe_host_key(c) \/ ReadLines(c) \/ InstallLine(c) \/ Unconsent(c)
    \/ Observe(c) \/ ObserveFails(c) \/ ShowPreview(c) \/ StoreConsent(c) \/ ConsentStale(c)
    \/ Decide(c) \/ SpendChallenge(c) \/ Finish(c)

Next ==
    \/ Request \/ \E c \in Calls : Proceed(c)
    \/ ExpireToken \/ Quarantine \/ Restart \/ Drift

Spec == Init /\ [][Next]_vars

(***************************************************************************)
(* Properties.                                                             *)
(***************************************************************************)
\* Types: the configuration on disk is valid and names ids handed out, a request
\* refers to a token that exists.
TypeOK ==
    /\ config.revision \in 0..MaxRevision /\ Valid(config)
    /\ DOMAIN config.hosts \subseteq HostIds \cap used
    /\ \A h \in DOMAIN config.hosts :
         /\ config.hosts[h].ssh \in Addresses
         /\ DOMAIN config.hosts[h].seats \subseteq SeatIds \cap used
    /\ gone \subseteq Slots
    /\ \A c \in Calls : call[c].token # None => tokens[call[c].token] # None

\* A consent on disk describes exactly the host it sits on, as it is now: no
\* edit, deletion, trust change, quarantine or late confirmation of an older
\* preview leaves a consent beside a host it was not given for, although
\* confirming takes five steps over a snapshot (service.py consent_confirm) and
\* revisions start again at 0 after a quarantine (config.py _quarantine_locked).
StoredConsentMatchesConfig ==
    \A h \in DOMAIN config.hosts :
        LET host == config.hosts[h]
        IN  host.consent # None =>
              /\ host.consent.digest.host = h
              /\ host.consent.digest.ssh = host.ssh
              /\ host.consent.digest.seats = host.seats

\* Configuration, consents and challenges agree with one another.
ConsentInv == TypeOK /\ StoredConsentMatchesConfig

\* An operation in a controller is about the host, seats, key, SSH configuration
\* and lifetime that the preview behind its consent displayed to the user, whatever
\* changed and whatever requests ran in between (service.py seat_operate).
OperatesAsShown ==
    \A c \in Calls : call[c].pc = "running" => Detail(c) = Consent(c).shown

\* One force-stop challenge lets at most one force-stop through, also when two
\* requests echo it at the same time (service.py seat_operate, "single-use").
ForceStopOncePerChallenge ==
    \A c \in Calls : call[c].pc = "running" /\ call[c].op = "force" =>
        /\ call[c].token \in gone
        /\ \A d \in Calls \ {c} : call[d].pc = "running" => call[d].token # call[c].token

=============================================================================
