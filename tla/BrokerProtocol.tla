--------------------------- MODULE BrokerProtocol ---------------------------
(***************************************************************************)
(* The conversation between a host BrokerSession (runtime/broker.py) and   *)
(* the guest's serve over a GuestSession (guest/testudo_guest_bootstrap.py,*)
(* runtime/guest.py), on one stream socket (runtime/transport.py).         *)
(*                                                                         *)
(* On the host two threads share the session: the controller's run sends   *)
(* bootstrap and run and receives; an operator's stop sends stop.  A send  *)
(* checks the state and takes the sequence number, writes, and only then   *)
(* advances the state and the number.  The guest is the program of the     *)
(* admitted artifact, or ("rogue") a process that sends any frames at all. *)
(*                                                                         *)
(* A frame's run, token and nonce are abstracted to whether they are those *)
(* of the session (own); a frame that does not decode counts as not own.   *)
(***************************************************************************)
EXTENDS Naturals, Sequences

CONSTANTS
    None,     \* no send in progress
    MaxRogue  \* bound on the frames a guest that is not admitted sends

ASSUME BrokerAssumption == MaxRogue \in Nat

HostKinds == {"bootstrap", "run", "stop"}
StreamKinds == {"stdout", "stderr", "receipt"}
GuestKinds == StreamKinds \cup {"ready", "result", "error"}
States == {"new", "ready", "running", "stop_requested", "terminal", "closed"}
Frame == [own : BOOLEAN, seq : Nat, kind : HostKinds \cup GuestKinds]
Sending == [kind : HostKinds, seq : Nat, sent : BOOLEAN]
Threads == {"run", "stop"}

ASSUME NoneAssumption == None \notin Sending

VARIABLES
    \* the host's session
    hstate,   \* _state
    hsend,    \* _send_sequence
    hrecv,    \* _receive_sequence
    hclosed,  \* _closed
    \* the host's threads
    pc,       \* what each thread is doing
    hold,     \* the send a thread is in: None or [kind, seq, sent]
    outcome,  \* what the controller makes of the conversation
    \* the guest
    gstate, gsend, grecv,
    gopen,    \* its end of the connection is open
    gpc,      \* control of serve
    ran,      \* workflows executed
    \* the socket, each way
    toGuest, toHost,
    \* history
    written,  \* frames the host wrote
    got,      \* frames the host's session let through
    refused   \* the host's session refused a guest frame

session == <<hstate, hsend, hrecv, hclosed>>
threads == <<pc, hold, outcome>>
guest == <<gstate, gsend, grecv, gopen, gpc, ran>>
socket == <<toGuest, toHost>>
history == <<written, got, refused>>
vars == <<session, threads, guest, socket, history>>

RunPcs == {"bootstrap", "ready", "run", "receive", "ended", "done"}
StopPcs == {"idle", "stop", "done"}
GuestPcs == {"accept", "receive", "execute", "close", "done", "rogue",
             "stdout", "receipt", "result", "stderr", "error"}

\* Every variable holds a value of its type.
TypeOK ==
    /\ hstate \in States /\ gstate \in States
    /\ hsend \in Nat /\ hrecv \in Nat /\ gsend \in Nat /\ grecv \in Nat /\ ran \in Nat
    /\ hclosed \in BOOLEAN /\ gopen \in BOOLEAN /\ refused \in BOOLEAN
    /\ pc \in [Threads -> RunPcs \cup StopPcs]
    /\ pc["run"] \in RunPcs /\ pc["stop"] \in StopPcs
    /\ hold \in [Threads -> Sending \cup {None}]
    /\ outcome \in {"open", "accepted", "failed"}
    /\ gpc \in GuestPcs
    /\ toGuest \in Seq(Frame) /\ toHost \in Seq(Frame)
    /\ written \in Seq(Frame) /\ got \in Seq(Frame)

Init ==
    /\ hstate = "new" /\ hsend = 0 /\ hrecv = 0 /\ hclosed = FALSE
    /\ pc = [t \in Threads |-> IF t = "run" THEN "bootstrap" ELSE "idle"]
    /\ hold = [t \in Threads |-> None] /\ outcome = "open"
    /\ gstate = "new" /\ gsend = 0 /\ grecv = 0 /\ gopen = TRUE /\ ran = 0
    /\ gpc \in {"accept", "rogue"}
    /\ toGuest = <<>> /\ toHost = <<>>
    /\ written = <<>> /\ got = <<>> /\ refused = FALSE

OwnFrame(seq, kind) == [own |-> TRUE, seq |-> seq, kind |-> kind]

(***************************************************************************)
(* Sending, by either thread of the host.                                  *)
(***************************************************************************)
\* _check_send_state of the host: where each kind may be sent
HostMaySend == [bootstrap |-> {"new"}, run |-> {"ready"}, stop |-> {"ready", "running"}]

\* A thread whose next call sends a frame of this kind.
Sends(t, kind) == pc[t] = kind /\ kind \in HostKinds

\* A thread gives up: the controller's run fails, a stop suppresses the error.
GiveUp(t) ==
    /\ pc' = [pc EXCEPT ![t] = IF t = "run" THEN "ended" ELSE "done"]
    /\ outcome' = IF t = "run" THEN "failed" ELSE outcome

SendCheck(t) ==
    /\ hold[t] = None /\ ~hclosed
    /\ \E kind \in HostKinds :
         /\ Sends(t, kind) /\ hstate \in HostMaySend[kind]
         /\ hold' = [hold EXCEPT ![t] = [kind |-> kind, seq |-> hsend, sent |-> FALSE]]
    /\ UNCHANGED <<session, pc, outcome, guest, socket, history>>

SendRefused(t) ==
    /\ hold[t] = None
    /\ \E kind \in HostKinds :
         Sends(t, kind) /\ (hclosed \/ hstate \notin HostMaySend[kind])
    /\ GiveUp(t)
    /\ UNCHANGED <<session, hold, guest, socket, history>>

\* write_frame: the frame is on its way, even if nobody reads it any more.
SendWrite(t) ==
    /\ hold[t] # None /\ ~hold[t].sent /\ ~hclosed
    /\ LET f == OwnFrame(hold[t].seq, hold[t].kind)
       IN  toGuest' = Append(toGuest, f) /\ written' = Append(written, f)
    /\ hold' = [hold EXCEPT ![t].sent = TRUE]
    /\ UNCHANGED <<session, pc, outcome, guest, toHost, got, refused>>

\* The peer or another thread has closed the connection, a bootstrap or a run is
\* too large, or the socket's timeout ends the write.
SendBroken(t) ==
    /\ hold[t] # None /\ ~hold[t].sent
    /\ hstate' = "terminal"
    /\ hold' = [hold EXCEPT ![t] = None]
    /\ GiveUp(t)
    /\ UNCHANGED <<hsend, hrecv, hclosed, guest, socket, history>>

\* Mutant: the state is named after the frame.
SendDone_NamedAfterFrame(t) ==
    /\ hold[t] # None /\ hold[t].sent
    /\ hsend' = hsend + 1
    /\ hstate' = hold[t].kind
    /\ pc' = [pc EXCEPT ![t] = IF t = "stop" THEN "done"
                               ELSE IF @ = "run" THEN "receive" ELSE "ready"]
    /\ hold' = [hold EXCEPT ![t] = None]
    /\ UNCHANGED <<hrecv, hclosed, outcome, guest, socket, history>>

\* The sequence number and the state are advanced after the write.
SendDone(t) ==
    /\ hold[t] # None /\ hold[t].sent
    /\ hsend' = hsend + 1
    /\ hstate' = CASE hold[t].kind = "run" -> "running"
                   [] hold[t].kind = "stop" -> "stop_requested"
                   [] hold[t].kind = "bootstrap" -> hstate
    /\ pc' = [pc EXCEPT ![t] = IF t = "stop" THEN "done"
                               ELSE IF @ = "run" THEN "receive" ELSE "ready"]
    /\ hold' = [hold EXCEPT ![t] = None]
    /\ UNCHANGED <<hrecv, hclosed, outcome, guest, socket, history>>

(***************************************************************************)
(* Receiving, by the controller's thread.                                  *)
(***************************************************************************)
\* _check_receive_state of the host
HostMayReceive(kind) ==
    IF kind = "ready" THEN {"new"} ELSE {"running", "stop_requested"}

\* The checks of BrokerSession.receive
Legal(f) ==
    /\ f.own /\ f.seq = hrecv
    /\ f.kind \in GuestKinds /\ hstate \in HostMayReceive(f.kind)

Receiving == pc["run"] \in {"ready", "receive"} /\ ~hclosed

Has(frames, kind) == \E i \in DOMAIN frames : frames[i].kind = kind

\* Mutant: the guest's receipt may come twice.
Verdicts_AnyReceipts(f) ==
    CASE f.kind = "error" -> {"failed"}
      [] f.kind = "result" /\ ~Has(got, "receipt") -> {"failed"}
      [] f.kind = "result" /\ Has(got, "receipt") -> {"accepted", "failed"}
      [] OTHER -> {"open"}

\* What the controller makes of a frame: a result needs a receipt before it,
\* and both must verify; a second receipt or an error ends the run.
Verdicts(f) ==
    CASE f.kind = "error" -> {"failed"}
      [] f.kind = "receipt" /\ Has(got, "receipt") -> {"failed"}
      [] f.kind = "result" /\ ~Has(got, "receipt") -> {"failed"}
      [] f.kind = "result" /\ Has(got, "receipt") -> {"accepted", "failed"}
      [] OTHER -> {"open"}

Receive ==
    /\ Receiving /\ toHost # <<>>
    /\ LET f == Head(toHost)
       IN  /\ Legal(f)
           /\ hrecv' = hrecv + 1
           /\ hstate' = CASE f.kind = "ready" -> "ready"
                          [] f.kind \in {"result", "error"} -> "terminal"
                          [] f.kind \in StreamKinds -> hstate
           /\ got' = Append(got, f)
           /\ outcome' \in Verdicts(f)
           /\ pc' = [pc EXCEPT !["run"] = IF f.kind = "ready" THEN "run"
                                          ELSE IF outcome' = "open" THEN "receive"
                                          ELSE "ended"]
    /\ toHost' = Tail(toHost)
    /\ UNCHANGED <<hsend, hclosed, hold, guest, toGuest, written, refused>>

\* _reject
ReceiveRefused ==
    /\ Receiving /\ toHost # <<>>
    /\ ~Legal(Head(toHost))
    /\ toHost' = Tail(toHost)
    /\ hstate' = "terminal" /\ refused' = TRUE
    /\ GiveUp("run")
    /\ UNCHANGED <<hsend, hrecv, hclosed, hold, guest, toGuest, written, got>>

\* The stream ends before a complete frame.
ReceiveBroken ==
    /\ Receiving /\ toHost = <<>> /\ ~gopen
    /\ hstate' = "terminal"
    /\ GiveUp("run")
    /\ UNCHANGED <<hsend, hrecv, hclosed, hold, guest, socket, history>>

\* The controller's deadline, the token's expiry or the output limit.
Abort ==
    /\ pc["run"] = "receive"
    /\ GiveUp("run")
    /\ UNCHANGED <<session, hold, guest, socket, history>>

\* close, by open_broker_session or by the controller's finally block
Close ==
    /\ pc["run"] = "ended"
    /\ pc' = [pc EXCEPT !["run"] = "done"]
    /\ hclosed' = TRUE /\ hstate' = "closed"
    /\ UNCHANGED <<hsend, hrecv, hold, outcome, guest, socket, history>>

\* An operator's stop reaches the broker while the controller is active.
Stop ==
    /\ pc["stop"] = "idle"
    /\ pc["run"] \in {"run", "receive", "ended", "done"} /\ got # <<>>
    /\ pc' = [pc EXCEPT !["stop"] = "stop"]
    /\ UNCHANGED <<session, hold, outcome, guest, socket, history>>

(***************************************************************************)
(* The guest's program.                                                    *)
(***************************************************************************)
\* accept_bootstrap: the identity is taken from the first frame, which is
\* answered with ready.
GuestAccept ==
    /\ gpc = "accept" /\ toGuest # <<>>
    /\ Head(toGuest).kind = "bootstrap" /\ Head(toGuest).seq = 0
    /\ toGuest' = Tail(toGuest)
    /\ toHost' = Append(toHost, OwnFrame(0, "ready"))
    /\ grecv' = 1 /\ gsend' = 1 /\ gstate' = "ready"
    /\ gpc' = "receive"
    /\ UNCHANGED <<session, threads, gopen, ran, history>>

\* receive_run
GuestReceiveRun ==
    /\ gpc = "receive" /\ toGuest # <<>>
    /\ Head(toGuest).kind = "run" /\ Head(toGuest).seq = grecv /\ gstate = "ready"
    /\ toGuest' = Tail(toGuest)
    /\ grecv' = grecv + 1 /\ gstate' = "running"
    /\ gpc' = "execute"
    /\ UNCHANGED <<session, threads, gsend, gopen, ran, toHost, history>>

\* Mutant: a refused frame is counted and the next one awaited.
GuestRefuse_Waits ==
    /\ gpc = "receive" /\ toGuest # <<>>
    /\ ~(Head(toGuest).kind = "run" /\ Head(toGuest).seq = grecv)
    /\ toGuest' = Tail(toGuest)
    /\ grecv' = grecv + 1
    /\ UNCHANGED <<session, threads, gstate, gsend, gopen, gpc, ran, toHost, history>>

\* A stop instead of the run, or a sequence number used twice.
GuestRefuse ==
    /\ gpc = "receive" /\ toGuest # <<>>
    /\ ~(Head(toGuest).kind = "run" /\ Head(toGuest).seq = grecv)
    /\ toGuest' = Tail(toGuest)
    /\ gstate' = "terminal"
    /\ gpc' = "close"
    /\ UNCHANGED <<session, threads, gsend, grecv, gopen, ran, toHost, history>>

\* The host has closed the connection.
GuestEof ==
    /\ gpc \in {"accept", "receive"} /\ toGuest = <<>> /\ hclosed
    /\ gstate' = "terminal"
    /\ gpc' = "close"
    /\ UNCHANGED <<session, threads, gsend, grecv, gopen, ran, socket, history>>

\* The workflow is validated and executed, or refused before any of it is.
GuestExecute ==
    /\ gpc = "execute"
    /\ \/ ran' = ran + 1 /\ gpc' \in {"stdout", "stderr"}
       \/ ran' = ran /\ gpc' = "stderr"
    /\ UNCHANGED <<session, threads, gstate, gsend, grecv, gopen, socket, history>>

AfterSend == [stdout |-> "receipt", receipt |-> "result", result |-> "close",
              stderr |-> "error", error |-> "close"]

\* Mutant: the sequence number is not advanced.
GuestSend_SameNumber ==
    /\ gpc \in DOMAIN AfterSend
    /\ toHost' = Append(toHost, OwnFrame(gsend, gpc))
    /\ gstate' = IF gpc \in {"result", "error"} THEN "terminal" ELSE gstate
    /\ gpc' = AfterSend[gpc]
    /\ UNCHANGED <<session, threads, gsend, grecv, gopen, ran, toGuest, history>>

\* Output, receipt and result, or the diagnostic and the error.
GuestSend ==
    /\ gpc \in DOMAIN AfterSend
    /\ toHost' = Append(toHost, OwnFrame(gsend, gpc))
    /\ gsend' = gsend + 1
    /\ gstate' = IF gpc \in {"result", "error"} THEN "terminal" ELSE gstate
    /\ gpc' = AfterSend[gpc]
    /\ UNCHANGED <<session, threads, grecv, gopen, ran, toGuest, history>>

\* The host is gone or the frame is too large: the diagnostic that would
\* follow is refused in the terminal state.
GuestSendBroken ==
    /\ gpc \in DOMAIN AfterSend
    /\ gstate' = "terminal"
    /\ gpc' = "close"
    /\ UNCHANGED <<session, threads, gsend, grecv, gopen, ran, socket, history>>

GuestClose ==
    /\ gpc = "close"
    /\ gpc' = "done" /\ gopen' = FALSE /\ gstate' = "closed"
    /\ UNCHANGED <<session, threads, gsend, grecv, ran, socket, history>>

\* The microVM is killed or crashes: frames on their way may be lost.
GuestDies ==
    /\ gopen
    /\ gopen' = FALSE
    /\ gpc' = IF gpc = "rogue" THEN gpc ELSE "done"
    /\ \E n \in 0..Len(toHost) : toHost' = SubSeq(toHost, 1, n)
    /\ UNCHANGED <<session, threads, gstate, gsend, grecv, ran, toGuest, history>>

\* Any other program in the guest.  It picks each frame when the host is about
\* to read it: what it may have queued before makes no difference to the host.
RogueSend(f) ==
    /\ gpc = "rogue" /\ gopen /\ gsend < MaxRogue /\ toHost = <<>>
    /\ gsend' = gsend + 1
    /\ toHost' = Append(toHost, f)
    /\ UNCHANGED <<session, threads, gstate, grecv, gopen, gpc, ran, toGuest, history>>

-----------------------------------------------------------------------------
RunThread ==
    \/ SendCheck("run") \/ SendRefused("run") \/ SendWrite("run")
    \/ SendBroken("run") \/ SendDone("run")
    \/ Receive \/ ReceiveRefused \/ ReceiveBroken \/ Close

StopThread ==
    \/ SendCheck("stop") \/ SendRefused("stop") \/ SendWrite("stop")
    \/ SendBroken("stop") \/ SendDone("stop")

Serve ==
    \/ GuestAccept \/ GuestReceiveRun \/ GuestRefuse \/ GuestEof
    \/ GuestSend \/ GuestSendBroken \/ GuestClose

RogueFrames == [own : BOOLEAN, seq : 0..MaxRogue, kind : GuestKinds]

Next ==
    \/ RunThread \/ Abort
    \/ Stop \/ StopThread
    \/ Serve \/ GuestExecute \/ GuestDies
    \/ \E f \in RogueFrames : RogueSend(f)

Spec == Init /\ [][Next]_vars

\* Runnable threads run, on the host and in the guest.  Nobody promises that a
\* workflow ends, that a deadline is set or that an operator stops the run.
FairSpec ==
    /\ Spec
    /\ WF_vars(RunThread) /\ WF_vars(StopThread) /\ WF_vars(Serve)

-----------------------------------------------------------------------------
\* "Validate and sequence one host/guest broker conversation": whatever the
\* guest sends and whenever an operator stops it, a result the controller
\* accepts is the last of a gapless conversation that began with ready, holds
\* exactly one receipt, and followed a run frame that the host did write.
AcceptedConversation ==
    outcome = "accepted" =>
        /\ Has(written, "run")
        /\ \A i \in DOMAIN got :
             /\ got[i].own /\ got[i].seq = i - 1
             /\ (got[i].kind = "ready") <=> (i = 1)
             /\ (got[i].kind \in {"result", "error"}) => i = Len(got)
        /\ \A i, j \in DOMAIN got :
             got[i].kind = "receipt" /\ got[j].kind = "receipt" => i = j
        /\ Has(got, "receipt") /\ got[Len(got)].kind = "result"

\* The two state machines fit: no frame of the admitted guest is refused, in
\* whatever state a stop finds or leaves the session, except by a session whose
\* stop could not be written, because the guest was gone or did not read in time.
AdmittedGuestUnderstood ==
    refused /\ gpc # "rogue" => pc["stop"] = "done" /\ ~Has(written, "stop")

\* The stop that comes before the run: when a stop frame was written first,
\* the guest executes nothing, although a run may follow it on the wire with
\* the same sequence number.
StopBeforeRunWins ==
    \A i, j \in DOMAIN written :
        written[i].kind = "stop" /\ written[j].kind = "run" /\ i < j => ran = 0

\* Host and guest never wait for each other.
NoMutualWait ==
    ~ /\ pc["run"] \in {"ready", "receive"} /\ toHost = <<>> /\ gopen
      /\ gpc \in {"accept", "receive"} /\ toGuest = <<>> /\ ~hclosed

\* Two threads share the host's session without a lock, and still the guest understands
\* what it is sent, a stop that was sent first wins, and nobody waits for the other.
SharedSessionSafe == AdmittedGuestUnderstood /\ StopBeforeRunWins /\ NoMutualWait

(***************************************************************************)
(* Why AcceptedConversation holds: the inductive invariant, in parts.      *)
(***************************************************************************)
\* What the session let through is numbered without a gap, begins with ready
\* and goes on without.
ReceivedInv ==
    /\ hrecv = Len(got)
    /\ \A i \in DOMAIN got :
         got[i].own /\ got[i].seq = i - 1 /\ ((got[i].kind = "ready") <=> (i = 1))

\* The controller that still reads has seen no end and at most one receipt.
OpenInv ==
    outcome = "open" =>
        /\ \A i \in DOMAIN got : got[i].kind \notin {"result", "error"}
        /\ \A i, j \in DOMAIN got :
             got[i].kind = "receipt" /\ got[j].kind = "receipt" => i = j

\* Session and threads agree on how far the conversation is; a stop comes
\* after the handshake.
PhaseInv ==
    /\ outcome # "open" => pc["run"] \in {"ended", "done"}
    /\ pc["run"] \in {"bootstrap", "ready"} => got = <<>> /\ hstate = "new"
    /\ pc["run"] \in {"run", "receive"} => got # <<>> /\ hstate # "new"
    /\ got = <<>> => pc["stop"] = "idle"
    /\ \A t \in Threads : hold[t] # None => hold[t].kind = pc[t]

\* The run was written before its output is read.
WrittenInv ==
    /\ pc["run"] = "receive" => Has(written, "run")
    /\ hold["run"] # None /\ hold["run"].sent => Has(written, hold["run"].kind)

BrokerInv ==
    /\ ReceivedInv /\ OpenInv /\ PhaseInv /\ WrittenInv
    /\ AcceptedConversation

(***************************************************************************)
(* Why SharedSessionSafe holds: the rest of the inductive invariant.       *)
(***************************************************************************)
\* What the admitted guest has sent and the host has not read is numbered on
\* from what it has read, and only the first frame of all is ready.
NumberedInv ==
    gpc # "rogue" /\ pc["run"] \notin {"ended", "done"} =>
        /\ gopen => gsend = hrecv + Len(toHost)
        /\ \A i \in DOMAIN toHost :
             /\ toHost[i].own /\ toHost[i].seq = hrecv + i - 1 /\ toHost[i].kind \in GuestKinds
             /\ (toHost[i].kind = "ready") <=> (toHost[i].seq = 0)

\* The admitted guest reads what was written in its order, answers before it
\* waits for the run, and executes only a run that was written second.
GuestInv ==
    /\ gpc # "rogue" => (gopen <=> gpc # "done")
    /\ gpc = "accept" => gsend = 0 /\ toGuest = written
    /\ gpc = "receive" => written # <<>> /\ toGuest = Tail(written)
    /\ gpc \notin {"rogue", "accept", "close", "done"} => gsend >= 1
    /\ gpc = "execute" \/ ran # 0 => Len(written) >= 2 /\ written[2].kind = "run"

\* A frame of each kind is written at most once, the bootstrap first.
OrderInv ==
    /\ \A i, j \in DOMAIN written : written[i].kind = written[j].kind => i = j
    /\ written # <<>> => written[1].kind = "bootstrap"
    /\ pc["run"] \in {"ready", "run", "receive"} \/ got # <<>> => written # <<>>
    /\ \A t \in Threads, kind \in HostKinds :
         Sends(t, kind) /\ Has(written, kind) => hold[t] # None /\ hold[t].sent
    /\ Has(written, "run") => pc["run"] \notin {"bootstrap", "ready"}
    /\ Has(written, "stop") => pc["stop"] # "idle"

\* While the controller reads, only a stop that could not be written can have ended
\* the session.
SessionInv ==
    /\ hclosed <=> pc["run"] = "done"
    /\ pc["run"] = "receive" => \/ hstate \in {"running", "stop_requested"}
                                \/ pc["stop"] = "done" /\ ~Has(written, "stop")

SharedInv == NumberedInv /\ GuestInv /\ OrderInv /\ SessionInv /\ AdmittedGuestUnderstood

\* The conversation comes to an end on the host unless the workflow does not,
\* or a guest that is not admitted keeps its end open.
ConversationEnds ==
    pc["run"] # "done" ~>
        \/ pc["run"] = "done" \/ gpc = "execute"
        \/ gpc = "rogue" /\ gopen
=============================================================================
