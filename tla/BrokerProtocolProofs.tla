------------------------ MODULE BrokerProtocolProofs ------------------------
(***************************************************************************)
(* For any guest program, any number of its frames and any operator's      *)
(* stop: a conversation the controller accepts is well formed.             *)
(***************************************************************************)
EXTENDS BrokerProtocol, SequenceTheorems, TLAPS

\* What the proofs are about stays as it is in a step of the guest.
Host == <<hstate, hrecv, pc, hold, outcome, written, got>>

\* Every frame of a sequence after an append is an old one or the new one.
LEMMA AppendElement ==
    ASSUME NEW S, NEW s \in Seq(S), NEW f \in S
    PROVE  /\ Append(s, f) \in Seq(S)
           /\ Len(Append(s, f)) = Len(s) + 1
           /\ DOMAIN Append(s, f) = 1..(Len(s) + 1) /\ DOMAIN s = 1..Len(s)
           /\ \A i \in 1..Len(s) : Append(s, f)[i] = s[i]
           /\ Append(s, f)[Len(s) + 1] = f
  BY AppendProperties

\* A frame that was written stays written, and only the new one is added.
LEMMA HasAppend ==
    ASSUME NEW s \in Seq(Frame), NEW f \in Frame, NEW kind
    PROVE  /\ Has(s, kind) => Has(Append(s, f), kind)
           /\ f.kind = kind => Has(Append(s, f), kind)
           /\ Has(Append(s, f), kind) => Has(s, kind) \/ f.kind = kind
<1>1. Has(s, kind) => Has(Append(s, f), kind)
  BY AppendElement DEF Has
<1>2. Len(s) \in Nat
  BY LenProperties
<1>3. f.kind = kind => Has(Append(s, f), kind)
  BY <1>2, AppendElement DEF Has
<1>4. Has(Append(s, f), kind) => Has(s, kind) \/ f.kind = kind
  BY <1>2, AppendElement DEF Has
<1> QED BY <1>1, <1>3, <1>4

\* A step of the stream keeps its elements' type.
LEMMA SeqTypes ==
    ASSUME NEW S, NEW s \in Seq(S)
    PROVE  /\ s # <<>> => Head(s) \in S /\ Tail(s) \in Seq(S)
           /\ \A n \in 0..Len(s) : SubSeq(s, 1, n) \in Seq(S)
<1>1. s # <<>> => Head(s) \in S /\ Tail(s) \in Seq(S)
  BY HeadTailProperties
<1>2. ASSUME NEW n \in 0..Len(s) PROVE SubSeq(s, 1, n) \in Seq(S)
  <2>1. Len(s) \in Nat /\ \A i \in 1..Len(s) : s[i] \in S
    BY LenProperties, ElementOfSeq
  <2>2. \A i \in 1..n : s[i] \in S
    BY <2>1
  <2> QED BY <2>1, <2>2, SubSeqProperties
<1> QED BY <1>1, <1>2

\* Each disjunct of the next-state relation keeps every variable in its type.
LEMMA TypeStep == TypeOK /\ [Next]_vars => TypeOK'
<1> SUFFICES ASSUME TypeOK, [Next]_vars PROVE TypeOK'
  OBVIOUS
<1> USE DEF session, threads, guest, socket, history
<1> USE DEF HostKinds, GuestKinds, StreamKinds, States, Threads, RunPcs, StopPcs, GuestPcs
<1>0. CASE UNCHANGED vars
  BY <1>0 DEF TypeOK, vars
<1>1. ASSUME NEW t \in Threads, SendCheck(t) PROVE TypeOK'
  <2>1. PICK kind \in HostKinds :
          hold' = [hold EXCEPT ![t] = [kind |-> kind, seq |-> hsend, sent |-> FALSE]]
    BY <1>1 DEF SendCheck
  <2>2. [kind |-> kind, seq |-> hsend, sent |-> FALSE] \in Sending
    BY DEF TypeOK, Sending
  <2>3. hold' \in [Threads -> Sending \cup {None}]
    BY <2>1, <2>2 DEF TypeOK
  <2> QED BY <1>1, <2>3 DEF TypeOK, SendCheck
<1>2. ASSUME NEW t \in Threads, SendRefused(t) PROVE TypeOK'
  BY <1>2 DEF TypeOK, SendRefused, GiveUp
<1>3. ASSUME NEW t \in Threads, SendWrite(t) PROVE TypeOK'
  <2>1. hold[t] \in Sending
    BY <1>3 DEF TypeOK, SendWrite
  <2>2. OwnFrame(hold[t].seq, hold[t].kind) \in Frame
    BY <2>1 DEF OwnFrame, Frame, Sending
  <2>3. toGuest' \in Seq(Frame) /\ written' \in Seq(Frame)
    BY <1>3, <2>2, AppendElement DEF TypeOK, SendWrite
  <2>4. hold' \in [Threads -> Sending \cup {None}]
    BY <1>3, <2>1 DEF TypeOK, SendWrite, Sending
  <2> QED BY <1>3, <2>3, <2>4 DEF TypeOK, SendWrite
<1>4. ASSUME NEW t \in Threads, SendBroken(t) PROVE TypeOK'
  BY <1>4 DEF TypeOK, SendBroken, GiveUp
<1>5. ASSUME NEW t \in Threads, SendDone(t) PROVE TypeOK'
  <2>1. hold[t] \in Sending
    BY <1>5 DEF TypeOK, SendDone
  <2>2. hstate' \in States
    BY <1>5, <2>1 DEF TypeOK, SendDone, Sending
  <2>3. pc' \in [Threads -> RunPcs \cup StopPcs]
        /\ pc'["run"] \in RunPcs /\ pc'["stop"] \in StopPcs
    BY <1>5 DEF TypeOK, SendDone
  <2>4. hold' \in [Threads -> Sending \cup {None}]
    BY <1>5 DEF TypeOK, SendDone
  <2>5. hsend' \in Nat /\ UNCHANGED <<hrecv, hclosed, outcome, guest, socket, history>>
    BY <1>5 DEF TypeOK, SendDone
  <2> QED BY <2>2, <2>3, <2>4, <2>5 DEF TypeOK
<1>6. CASE Receive
  <2>1. toHost # <<>> /\ Head(toHost) \in Frame /\ Tail(toHost) \in Seq(Frame)
    BY <1>6, SeqTypes DEF TypeOK, Receive
  <2>2. got' \in Seq(Frame)
    BY <1>6, <2>1, AppendElement DEF TypeOK, Receive
  <2>3. hstate' \in States
    BY <1>6, <2>1 DEF TypeOK, Receive, Legal
  <2>4. outcome' \in {"open", "accepted", "failed"}
    BY <1>6 DEF Receive, Verdicts
  <2>5. pc' \in [Threads -> RunPcs \cup StopPcs]
        /\ pc'["run"] \in RunPcs /\ pc'["stop"] \in StopPcs
    BY <1>6 DEF TypeOK, Receive
  <2>6. hrecv' \in Nat /\ toHost' = Tail(toHost)
        /\ UNCHANGED <<hsend, hclosed, hold, guest, toGuest, written, refused>>
    BY <1>6 DEF TypeOK, Receive
  <2> QED BY <2>1, <2>2, <2>3, <2>4, <2>5, <2>6 DEF TypeOK
<1>7. CASE ReceiveRefused
  BY <1>7, SeqTypes DEF TypeOK, ReceiveRefused, GiveUp
<1>8. CASE ReceiveBroken \/ Abort \/ Close \/ Stop
  <2>1. pc' \in [Threads -> RunPcs \cup StopPcs]
        /\ pc'["run"] \in RunPcs /\ pc'["stop"] \in StopPcs
    BY <1>8 DEF TypeOK, ReceiveBroken, Abort, Close, Stop, GiveUp
  <2>2. hstate' \in States /\ hclosed' \in BOOLEAN
        /\ outcome' \in {"open", "accepted", "failed"}
    BY <1>8 DEF TypeOK, ReceiveBroken, Abort, Close, Stop, GiveUp
  <2>3. UNCHANGED <<hsend, hrecv, hold, guest, socket, history>>
    BY <1>8 DEF ReceiveBroken, Abort, Close, Stop
  <2> QED BY <2>1, <2>2, <2>3 DEF TypeOK
<1>9. CASE GuestAccept
  <2>1. OwnFrame(0, "ready") \in Frame
    BY DEF OwnFrame, Frame
  <2>2. toHost' \in Seq(Frame) /\ toGuest' \in Seq(Frame)
    BY <1>9, <2>1, AppendElement, SeqTypes DEF TypeOK, GuestAccept
  <2> QED BY <1>9, <2>2 DEF TypeOK, GuestAccept
<1>10. CASE GuestReceiveRun \/ GuestRefuse
  <2>1. toGuest' \in Seq(Frame)
    <3>1. toGuest # <<>> /\ toGuest' = Tail(toGuest)
      BY <1>10 DEF GuestReceiveRun, GuestRefuse
    <3> QED BY <3>1, SeqTypes DEF TypeOK
  <2>2. CASE GuestReceiveRun
    BY <2>1, <2>2 DEF TypeOK, GuestReceiveRun
  <2>3. CASE GuestRefuse
    BY <2>1, <2>3 DEF TypeOK, GuestRefuse
  <2> QED BY <1>10, <2>2, <2>3
<1>11. CASE GuestEof \/ GuestExecute \/ GuestSendBroken \/ GuestClose
  <2>1. CASE GuestEof
    BY <2>1 DEF TypeOK, GuestEof
  <2>2. CASE GuestExecute
    BY <2>2 DEF TypeOK, GuestExecute
  <2>3. CASE GuestSendBroken
    BY <2>3 DEF TypeOK, GuestSendBroken
  <2>4. CASE GuestClose
    BY <2>4 DEF TypeOK, GuestClose
  <2> QED BY <1>11, <2>1, <2>2, <2>3, <2>4
<1>12. CASE GuestSend
  <2>1. gpc \in {"stdout", "receipt", "result", "stderr", "error"}
    BY <1>12 DEF GuestSend, AfterSend
  <2>2. OwnFrame(gsend, gpc) \in Frame
    BY <2>1 DEF OwnFrame, Frame, TypeOK
  <2>3. toHost' \in Seq(Frame)
    BY <1>12, <2>2, AppendElement DEF TypeOK, GuestSend
  <2>4. gpc' \in GuestPcs
    BY <1>12, <2>1 DEF GuestSend, AfterSend
  <2> QED BY <1>12, <2>3, <2>4 DEF TypeOK, GuestSend
<1>13. CASE GuestDies
  <2>1. toHost' \in Seq(Frame)
    BY <1>13, SeqTypes DEF TypeOK, GuestDies
  <2>2. gopen' \in BOOLEAN /\ gpc' \in GuestPcs
    BY <1>13 DEF GuestDies
  <2>3. UNCHANGED <<session, threads, gstate, gsend, grecv, ran, toGuest, history>>
    BY <1>13 DEF GuestDies
  <2> QED BY <2>1, <2>2, <2>3 DEF TypeOK
<1>14. ASSUME NEW f \in RogueFrames, RogueSend(f) PROVE TypeOK'
  <2>1. f \in Frame
    BY BrokerAssumption DEF RogueFrames, Frame
  <2>2. toHost' \in Seq(Frame)
    BY <1>14, <2>1, AppendElement DEF TypeOK, RogueSend
  <2> QED BY <1>14, <2>2 DEF TypeOK, RogueSend
<1> QED
  BY <1>0, <1>1, <1>2, <1>3, <1>4, <1>5, <1>6, <1>7, <1>8, <1>9, <1>10, <1>11,
     <1>12, <1>13, <1>14 DEF Next, RunThread, StopThread, Serve

\* A step of the guest, or no step, changes nothing the invariant is about.
LEMMA HostUnchanged == BrokerInv /\ UNCHANGED Host => BrokerInv'
  BY DEF BrokerInv, ReceivedInv, OpenInv, PhaseInv, WrittenInv, AcceptedConversation,
         Has, Host

\* The steps of a send, of either thread, keep the invariant.
LEMMA SendStep ==
    ASSUME TypeOK, BrokerInv, NEW t \in Threads,
           \/ SendCheck(t) \/ SendRefused(t) \/ SendWrite(t)
           \/ SendBroken(t) \/ SendDone(t)
    PROVE  BrokerInv'
<1> USE DEF session, threads, guest, socket, history, Threads
<1>1. got' = got /\ hrecv' = hrecv
  BY DEF SendCheck, SendRefused, SendWrite, SendBroken, SendDone
<1>2. ReceivedInv'
  BY <1>1 DEF BrokerInv, ReceivedInv
<1>3. outcome' = outcome \/ outcome' = "failed"
  BY DEF SendCheck, SendRefused, SendWrite, SendBroken, SendDone, GiveUp
<1>4. OpenInv'
  BY <1>1, <1>3 DEF BrokerInv, OpenInv
<1>5. PhaseInv'
  <2> USE DEF BrokerInv, PhaseInv
  <2>1. CASE SendCheck(t)
    BY <2>1 DEF SendCheck, TypeOK, Sends, HostKinds
  <2>2. CASE SendRefused(t)
    BY <2>2 DEF SendRefused, TypeOK, Sends, HostKinds, GiveUp, HostMaySend
  <2>3. CASE SendWrite(t)
    BY <2>3 DEF SendWrite, TypeOK
  <2>4. CASE SendBroken(t)
    <3>1. t = "stop" => pc["stop"] = "stop" /\ got # <<>>
      BY <2>4 DEF SendBroken, TypeOK, HostKinds, Sending, StopPcs
    <3>2. CASE t = "run"
      BY <2>4, <3>2 DEF SendBroken, TypeOK, GiveUp
    <3>3. CASE t = "stop"
      BY <2>4, <3>1, <3>3 DEF SendBroken, TypeOK, GiveUp
    <3> QED BY <3>2, <3>3
  <2>5. CASE SendDone(t)
    <3>1. hold[t] \in Sending /\ hold[t].kind = pc[t]
      BY <2>5 DEF SendDone, TypeOK
    <3>2. CASE t = "run"
      <4>1. pc[t] \in {"bootstrap", "run"}
        BY <3>1, <3>2 DEF TypeOK, Sending, HostKinds, RunPcs
      <4> QED BY <2>5, <3>1, <3>2, <4>1 DEF SendDone, TypeOK
    <3>3. CASE t = "stop"
      <4>1. pc[t] = "stop"
        BY <3>1, <3>3 DEF TypeOK, StopPcs, Sending, HostKinds
      <4> QED BY <2>5, <3>1, <3>3, <4>1 DEF SendDone, TypeOK
    <3> QED BY <3>2, <3>3
  <2> QED BY <2>1, <2>2, <2>3, <2>4, <2>5
<1>6. /\ Has(written, "run") => Has(written', "run")
      /\ \A kind \in HostKinds : Has(written, kind) => Has(written', kind)
  <2>1. CASE SendWrite(t)
    <3>1. OwnFrame(hold[t].seq, hold[t].kind) \in Frame
      BY <2>1 DEF SendWrite, TypeOK, OwnFrame, Frame, Sending
    <3> QED BY <2>1, <3>1, HasAppend DEF SendWrite, TypeOK
  <2>2. CASE ~SendWrite(t)
    BY <2>2 DEF SendCheck, SendRefused, SendBroken, SendDone
  <2> QED BY <2>1, <2>2
<1>7. WrittenInv'
  <2> USE DEF BrokerInv, WrittenInv
  <2>1. CASE SendCheck(t)
    BY <2>1 DEF SendCheck, TypeOK
  <2>2. CASE SendRefused(t)
    BY <2>2 DEF SendRefused, TypeOK, GiveUp
  <2>3. CASE SendWrite(t)
    <3>1. hold[t] \in Sending /\ OwnFrame(hold[t].seq, hold[t].kind) \in Frame
      BY <2>3 DEF SendWrite, TypeOK, OwnFrame, Frame, Sending
    <3>2. Has(written', hold[t].kind)
      <4> DEFINE f == OwnFrame(hold[t].seq, hold[t].kind)
      <4>1. f.kind = hold[t].kind /\ written' = Append(written, f) /\ written \in Seq(Frame)
        BY <2>3 DEF SendWrite, TypeOK, OwnFrame
      <4>2. f \in Frame
        BY <3>1
      <4> HIDE DEF f
      <4> QED BY <4>1, <4>2, HasAppend
    <3>3. hold'["run"] # None /\ hold'["run"].sent => Has(written', hold'["run"].kind)
      <4>1. CASE t = "run"
        BY <2>3, <3>1, <3>2, <4>1 DEF SendWrite, TypeOK, Sending
      <4>2. CASE t = "stop"
        <5>1. hold'["run"] = hold["run"]
          BY <2>3, <4>2 DEF SendWrite, TypeOK
        <5>2. hold["run"] # None => hold["run"].kind \in HostKinds
          BY DEF TypeOK, Sending
        <5> QED BY <1>6, <5>1, <5>2
      <4> QED BY <4>1, <4>2
    <3> QED BY <2>3, <3>3, <1>6 DEF SendWrite
  <2>4. CASE SendBroken(t)
    BY <2>4 DEF SendBroken, TypeOK, GiveUp
  <2>5. CASE SendDone(t)
    BY <2>5 DEF SendDone, TypeOK, PhaseInv
  <2> QED BY <2>1, <2>2, <2>3, <2>4, <2>5
<1>8. AcceptedConversation'
  <2>1. outcome' = "accepted" => outcome = "accepted"
    BY <1>3
  <2> QED BY <1>1, <1>6, <2>1 DEF BrokerInv, AcceptedConversation
<1> QED BY <1>2, <1>4, <1>5, <1>7, <1>8 DEF BrokerInv

\* A frame that passes the session's checks keeps the conversation well formed.
LEMMA ReceiveStep == TypeOK /\ BrokerInv /\ Receive => BrokerInv'
<1> SUFFICES ASSUME TypeOK, BrokerInv, Receive PROVE BrokerInv'
  OBVIOUS
<1> USE DEF session, threads, guest, socket, history, Threads
<1> DEFINE f == Head(toHost)
<1>1. f \in Frame /\ Legal(f)
  BY SeqTypes DEF Receive, TypeOK
<1>2. got' = Append(got, f) /\ hrecv' = hrecv + 1 /\ written' = written
  BY DEF Receive
<1>3. /\ Len(got') = Len(got) + 1 /\ Len(got) \in Nat
      /\ DOMAIN got' = 1..(Len(got) + 1) /\ DOMAIN got = 1..Len(got)
      /\ \A i \in 1..Len(got) : got'[i] = got[i]
      /\ got'[Len(got) + 1] = f
  BY <1>1, <1>2, AppendElement, LenProperties DEF TypeOK
<1> HIDE DEF f
<1>4. (f.kind = "ready") <=> (Len(got) = 0)
  <2>1. f.kind = "ready" => hstate = "new"
    BY <1>1 DEF Legal, HostMayReceive
  <2>2. f.kind # "ready" => hstate # "new"
    BY <1>1 DEF Legal, HostMayReceive
  <2>3. pc["run"] \in {"ready", "receive"}
    BY DEF Receive, Receiving
  <2>4. (got = <<>>) <=> (Len(got) = 0)
    BY EmptySeq DEF TypeOK
  <2> QED BY <2>1, <2>2, <2>3, <2>4 DEF BrokerInv, PhaseInv
<1>5. outcome = "open"
  BY DEF Receive, Receiving, BrokerInv, PhaseInv
<1>6. ReceivedInv'
  BY <1>1, <1>2, <1>3, <1>4 DEF BrokerInv, ReceivedInv, Legal
<1>7. outcome' \in Verdicts(f)
  BY DEF Receive, f
<1>8. OpenInv'
  <2> SUFFICES ASSUME outcome' = "open" PROVE OpenInv'
    BY DEF OpenInv
  <2>1. f.kind \notin {"result", "error"} /\ ~(f.kind = "receipt" /\ Has(got, "receipt"))
    BY <1>7 DEF Verdicts
  <2>2. \A i \in DOMAIN got' : got'[i].kind \notin {"result", "error"}
    BY <1>3, <1>5, <2>1 DEF BrokerInv, OpenInv
  <2>3. \A i, j \in DOMAIN got' :
          got'[i].kind = "receipt" /\ got'[j].kind = "receipt" => i = j
    BY <1>3, <1>5, <2>1 DEF BrokerInv, OpenInv, Has
  <2> QED BY <2>2, <2>3 DEF OpenInv
<1>9. PhaseInv'
  <2>1. hold' = hold /\ hold["run"] = None
    BY DEF Receive, Receiving, BrokerInv, PhaseInv, TypeOK, Sending, HostKinds
  <2>2. got' # <<>>
    BY <1>3
  <2>3. pc'["stop"] = pc["stop"]
    BY DEF Receive, TypeOK
  <2>4. pc'["run"] = IF f.kind = "ready" THEN "run"
                     ELSE IF outcome' = "open" THEN "receive" ELSE "ended"
    BY DEF Receive, TypeOK, f
  <2>5. f.kind = "ready" => outcome' = "open" /\ hstate' = "ready"
    <3>1. f.kind = "ready" => outcome' = "open"
      BY <1>7 DEF Verdicts
    <3>2. f.kind = "ready" => hstate' = "ready"
      BY DEF Receive, f, StreamKinds
    <3> QED BY <3>1, <3>2
  <2>6. f.kind # "ready" /\ outcome' = "open" => hstate' # "new"
    <3>1. f.kind # "ready" => hstate # "new"
      BY <1>1 DEF Legal, HostMayReceive
    <3>2. f.kind \in GuestKinds
      BY <1>1 DEF Legal
    <3> QED BY <3>1, <3>2, <1>7 DEF Receive, f, Verdicts, GuestKinds, StreamKinds
  <2>7. outcome' # "open" => pc'["run"] \in {"ended", "done"}
    BY <2>4, <2>5
  <2> QED
    BY <2>1, <2>2, <2>3, <2>4, <2>5, <2>6, <2>7 DEF PhaseInv, BrokerInv
<1>10. WrittenInv'
  <2>1. pc'["run"] = "receive" => pc["run"] = "receive"
    <3>1. pc'["run"] = "receive" => f.kind # "ready"
      BY DEF Receive, TypeOK, f
    <3>2. f.kind # "ready" => got # <<>>
      BY <1>3, <1>4
    <3> QED BY <3>1, <3>2 DEF Receive, Receiving, BrokerInv, PhaseInv
  <2>2. hold' = hold
    BY DEF Receive
  <2> QED BY <1>2, <2>1, <2>2 DEF BrokerInv, WrittenInv
<1>11. AcceptedConversation'
  <2> SUFFICES ASSUME outcome' = "accepted" PROVE AcceptedConversation'
    BY DEF AcceptedConversation
  <2>1. f.kind = "result" /\ Has(got, "receipt")
    BY <1>7 DEF Verdicts
  <2>2. pc["run"] = "receive"
    <3>1. got # <<>>
      BY <1>3, <1>4, <2>1
    <3> QED BY <3>1 DEF Receive, Receiving, BrokerInv, PhaseInv
  <2>3. Has(written', "run")
    BY <1>2, <2>2 DEF BrokerInv, WrittenInv
  <2>4. Has(got', "receipt")
    BY <1>1, <1>2, <2>1, HasAppend DEF TypeOK
  <2>5. \A i \in DOMAIN got' : got'[i].kind \in {"result", "error"} => i = Len(got')
    BY <1>3, <1>5 DEF BrokerInv, OpenInv
  <2>6. \A i, j \in DOMAIN got' :
          got'[i].kind = "receipt" /\ got'[j].kind = "receipt" => i = j
    BY <1>3, <1>5, <2>1 DEF BrokerInv, OpenInv
  <2>7. got'[Len(got')].kind = "result"
    BY <1>3, <2>1
  <2> QED BY <1>6, <2>3, <2>4, <2>5, <2>6, <2>7 DEF ReceivedInv, AcceptedConversation
<1> QED BY <1>6, <1>8, <1>9, <1>10, <1>11 DEF BrokerInv

\* Refusing a frame, losing the stream, giving up, closing and asking for a
\* stop keep the invariant.
LEMMA EndStep ==
    TypeOK /\ BrokerInv
      /\ (ReceiveRefused \/ ReceiveBroken \/ Abort \/ Close \/ Stop) => BrokerInv'
<1> SUFFICES ASSUME TypeOK, BrokerInv,
                    ReceiveRefused \/ ReceiveBroken \/ Abort \/ Close \/ Stop
             PROVE  BrokerInv'
  OBVIOUS
<1> USE DEF session, threads, guest, socket, history, Threads
<1>1. got' = got /\ hrecv' = hrecv /\ written' = written /\ hold' = hold
  BY DEF ReceiveRefused, ReceiveBroken, Abort, Close, Stop
<1>2. outcome' = outcome \/ outcome' = "failed"
  BY DEF ReceiveRefused, ReceiveBroken, Abort, Close, Stop, GiveUp
<1>3. ReceivedInv' /\ OpenInv'
  BY <1>1, <1>2 DEF BrokerInv, ReceivedInv, OpenInv
<1>4. PhaseInv'
  <2> USE DEF BrokerInv, PhaseInv
  <2>1. CASE ReceiveRefused
    BY <2>1 DEF ReceiveRefused, Receiving, GiveUp, TypeOK, Sending, HostKinds
  <2>2. CASE ReceiveBroken
    BY <2>2 DEF ReceiveBroken, Receiving, GiveUp, TypeOK, Sending, HostKinds
  <2>3. CASE Abort
    BY <2>3 DEF Abort, GiveUp, TypeOK, Sending, HostKinds
  <2>4. CASE Close
    BY <2>4 DEF Close, TypeOK, Sending, HostKinds
  <2>5. CASE Stop
    BY <2>5 DEF Stop, TypeOK, Sending, HostKinds
  <2> QED BY <2>1, <2>2, <2>3, <2>4, <2>5
<1>5. WrittenInv'
  <2>1. pc'["run"] = "receive" => pc["run"] = "receive"
    BY DEF ReceiveRefused, ReceiveBroken, Abort, Close, Stop, GiveUp, TypeOK
  <2> QED BY <1>1, <2>1 DEF BrokerInv, WrittenInv
<1>6. AcceptedConversation'
  BY <1>1, <1>2 DEF BrokerInv, AcceptedConversation
<1> QED BY <1>3, <1>4, <1>5, <1>6 DEF BrokerInv

LEMMA InvStep == TypeOK /\ BrokerInv /\ [Next]_vars => BrokerInv'
<1> SUFFICES ASSUME TypeOK, BrokerInv, [Next]_vars PROVE BrokerInv'
  OBVIOUS
<1>1. CASE UNCHANGED Host
  BY <1>1, HostUnchanged
<1>2. CASE \E t \in Threads : SendCheck(t) \/ SendRefused(t) \/ SendWrite(t)
                              \/ SendBroken(t) \/ SendDone(t)
  BY <1>2, SendStep
<1>3. CASE Receive
  BY <1>3, ReceiveStep
<1>4. CASE ReceiveRefused \/ ReceiveBroken \/ Abort \/ Close \/ Stop
  BY <1>4, EndStep
<1>5. (Serve \/ GuestExecute \/ GuestDies \/ \E f \in RogueFrames : RogueSend(f))
        => UNCHANGED Host
  BY DEF Serve, GuestAccept, GuestReceiveRun, GuestRefuse, GuestEof, GuestExecute,
         GuestSend, GuestSendBroken, GuestClose, GuestDies, RogueSend,
         session, threads, socket, history, Host
<1>6. UNCHANGED vars => UNCHANGED Host
  BY DEF vars, session, threads, history, Host
<1> QED
  BY <1>1, <1>2, <1>3, <1>4, <1>5, <1>6 DEF Next, RunThread, StopThread, Threads

LEMMA InitInv == Init => TypeOK /\ BrokerInv
<1> SUFFICES ASSUME Init PROVE TypeOK /\ BrokerInv
  OBVIOUS
<1>1. TypeOK
  <2>1. gpc \in {"accept", "rogue"}
    BY DEF Init
  <2>2. /\ pc \in [Threads -> RunPcs \cup StopPcs]
        /\ pc["run"] \in RunPcs /\ pc["stop"] \in StopPcs
    BY DEF Init, Threads, RunPcs, StopPcs
  <2>3. hold \in [Threads -> Sending \cup {None}]
    BY DEF Init
  <2>4. toGuest \in Seq(Frame) /\ toHost \in Seq(Frame)
        /\ written \in Seq(Frame) /\ got \in Seq(Frame)
    BY DEF Init
  <2> QED BY <2>1, <2>2, <2>3, <2>4 DEF Init, TypeOK, States, GuestPcs
<1>2. BrokerInv
  BY DEF Init, BrokerInv, ReceivedInv, OpenInv, PhaseInv, WrittenInv, AcceptedConversation,
         Threads
<1> QED BY <1>1, <1>2

(***************************************************************************)
(* Two threads on one session.                                             *)
(***************************************************************************)
\* A thread that has come to its end, or past the conversation, does not go back.
LEMMA SendMoves ==
    ASSUME TypeOK, PhaseInv, NEW t \in Threads,
           \/ SendCheck(t) \/ SendRefused(t) \/ SendWrite(t)
           \/ SendBroken(t) \/ SendDone(t)
    PROVE  /\ pc'["run"] \notin {"ended", "done"} => pc["run"] \notin {"ended", "done"}
           /\ pc["stop"] = "done" => pc'["stop"] = "done"
           /\ pc["stop"] # "idle" => pc'["stop"] # "idle"
           /\ (pc'["run"] = "done") <=> (pc["run"] = "done")
           /\ UNCHANGED <<hrecv, hclosed, guest, toHost, got, refused>>
<1> USE DEF session, threads, guest, socket, history, Threads
<1>1. UNCHANGED <<hrecv, hclosed, guest, toHost, got, refused>>
  BY DEF SendCheck, SendRefused, SendWrite, SendBroken, SendDone
<1>2. pc[t] \in HostKinds
  <2>1. hold[t] # None => pc[t] \in HostKinds
    BY DEF TypeOK, PhaseInv, Sending
  <2> QED BY <2>1 DEF SendCheck, SendRefused, SendWrite, SendBroken, SendDone, Sends
<1>3. \/ pc' = pc
      \/ pc' = [pc EXCEPT ![t] = IF t = "run" THEN "ended" ELSE "done"]
      \/ pc' = [pc EXCEPT ![t] = IF t = "stop" THEN "done"
                                 ELSE IF @ = "run" THEN "receive" ELSE "ready"]
  BY DEF SendCheck, SendRefused, SendWrite, SendBroken, SendDone, GiveUp
<1> QED BY <1>1, <1>2, <1>3 DEF TypeOK, HostKinds, RunPcs, StopPcs

\* Sending leaves the stream to the host alone.
LEMMA SendNumbered ==
    ASSUME TypeOK, PhaseInv, NumberedInv, NEW t \in Threads,
           \/ SendCheck(t) \/ SendRefused(t) \/ SendWrite(t)
           \/ SendBroken(t) \/ SendDone(t)
    PROVE  NumberedInv'
<1>1. /\ pc'["run"] \notin {"ended", "done"} => pc["run"] \notin {"ended", "done"}
      /\ UNCHANGED <<hrecv, guest, toHost>>
  BY SendMoves
<1> QED BY <1>1 DEF NumberedInv, guest

\* The guest finds what is written at the end of what it has yet to read.
LEMMA SendGuest ==
    ASSUME TypeOK, PhaseInv, GuestInv, NEW t \in Threads,
           \/ SendCheck(t) \/ SendRefused(t) \/ SendWrite(t)
           \/ SendBroken(t) \/ SendDone(t)
    PROVE  GuestInv'
<1>1. UNCHANGED <<gopen, gpc, gsend, ran>>
  BY SendMoves DEF guest
<1>2. CASE SendWrite(t)
  <2> DEFINE f == OwnFrame(hold[t].seq, hold[t].kind)
  <2>1. f \in Frame /\ toGuest' = Append(toGuest, f) /\ written' = Append(written, f)
    BY <1>2 DEF SendWrite, TypeOK, OwnFrame, Frame, Sending
  <2> HIDE DEF f
  <2>2. written \in Seq(Frame) /\ Len(written) \in Nat
    BY LenProperties DEF TypeOK
  <2>3. written # <<>> => Tail(written') = Append(Tail(written), f)
    BY <2>1, <2>2, HeadTailAppend
  <2>4. /\ written' # <<>> /\ Len(written') = Len(written) + 1
        /\ \A i \in 1..Len(written) : written'[i] = written[i]
    BY <2>1, <2>2, AppendProperties
  <2>5. gpc = "accept" => toGuest' = written'
    BY <2>1 DEF GuestInv
  <2>6. gpc = "receive" => toGuest' = Tail(written')
    BY <2>1, <2>3 DEF GuestInv
  <2>7. gpc = "execute" \/ ran # 0 => Len(written') >= 2 /\ written'[2].kind = "run"
    BY <2>2, <2>4 DEF GuestInv
  <2> QED BY <1>1, <2>4, <2>5, <2>6, <2>7 DEF GuestInv
<1>3. CASE ~SendWrite(t)
  <2>1. UNCHANGED <<toGuest, written>>
    BY <1>3 DEF SendCheck, SendRefused, SendBroken, SendDone, socket, history
  <2> QED BY <1>1, <2>1 DEF GuestInv
<1> QED BY <1>2, <1>3

\* A stop that is over is not written any more.
LEMMA StopUnwritten ==
    ASSUME TypeOK, PhaseInv, NEW t \in Threads, pc["stop"] = "done", ~Has(written, "stop"),
           \/ SendCheck(t) \/ SendRefused(t) \/ SendWrite(t)
           \/ SendBroken(t) \/ SendDone(t)
    PROVE  ~Has(written', "stop")
<1>1. CASE SendWrite(t)
  <2> DEFINE f == OwnFrame(hold[t].seq, hold[t].kind)
  <2>1. hold[t] \in Sending /\ hold[t].kind = pc[t] /\ pc[t] \in HostKinds /\ written' = Append(written, f)
    BY <1>1 DEF SendWrite, TypeOK, PhaseInv, Sending
  <2>2. pc[t] # "stop"
    BY <2>1 DEF TypeOK, Threads, RunPcs
  <2>3. f \in Frame /\ f.kind # "stop" /\ written \in Seq(Frame)
    BY <2>1, <2>2 DEF OwnFrame, Frame, Sending, TypeOK
  <2> HIDE DEF f
  <2> QED BY <2>1, <2>3, HasAppend
<1>2. CASE ~SendWrite(t)
  BY <1>2 DEF SendCheck, SendRefused, SendBroken, SendDone, history
<1> QED BY <1>1, <1>2

\* Only the late assignment of a stop, or a stop that could not be written,
\* touches the state while the controller reads.
LEMMA SendSession ==
    ASSUME TypeOK, PhaseInv, OrderInv, SessionInv, NEW t \in Threads,
           \/ SendCheck(t) \/ SendRefused(t) \/ SendWrite(t)
           \/ SendBroken(t) \/ SendDone(t)
    PROVE  SessionInv'
<1> USE DEF session, threads, guest, socket, history, Threads
<1>1. /\ hclosed' = hclosed
      /\ (pc'["run"] = "done") <=> (pc["run"] = "done")
      /\ pc["stop"] = "done" => pc'["stop"] = "done"
      /\ pc["stop"] = "done" /\ ~Has(written, "stop") => ~Has(written', "stop")
  BY SendMoves, StopUnwritten
<1>2. pc'["run"] = "receive" => \/ hstate' \in {"running", "stop_requested"}
                                \/ pc'["stop"] = "done" /\ ~Has(written', "stop")
  <2>1. CASE SendCheck(t) \/ SendRefused(t) \/ SendWrite(t)
    <3>1. hstate' = hstate
      BY <2>1 DEF SendCheck, SendRefused, SendWrite
    <3>2. pc'["run"] = "receive" => pc["run"] = "receive"
      BY <2>1 DEF SendCheck, SendRefused, SendWrite, GiveUp, TypeOK
    <3> QED BY <1>1, <3>1, <3>2 DEF SessionInv
  <2>2. CASE SendBroken(t)
    <3>1. t = "run" => pc'["run"] = "ended"
      BY <2>2 DEF SendBroken, GiveUp, TypeOK
    <3>2. t = "stop" => pc'["stop"] = "done" /\ hold["stop"] # None /\ ~hold["stop"].sent
      BY <2>2 DEF SendBroken, GiveUp, TypeOK
    <3>3. t = "stop" => Sends("stop", "stop")
      <4>1. hold[t] \in Sending /\ hold[t].kind = pc[t]
        BY <2>2 DEF SendBroken, TypeOK, PhaseInv
      <4> QED BY <4>1 DEF TypeOK, StopPcs, Sending, HostKinds, Sends
    <3>4. t = "stop" => ~Has(written, "stop") /\ written' = written
      <4>1. "stop" \in HostKinds
        BY DEF HostKinds
      <4> QED BY <2>2, <3>2, <3>3, <4>1 DEF OrderInv, SendBroken
    <3> QED BY <3>1, <3>2, <3>4
  <2>3. CASE SendDone(t)
    <3>1. hold[t] \in Sending /\ hold[t].kind = pc[t]
      BY <2>3 DEF SendDone, TypeOK, PhaseInv
    <3>2. CASE t = "run"
      <4>1. pc'["run"] = "receive" => hold[t].kind = "run"
        BY <2>3, <3>1, <3>2 DEF SendDone, TypeOK
      <4> QED BY <2>3, <4>1 DEF SendDone
    <3>3. CASE t = "stop"
      <4>1. hold[t].kind = "stop"
        BY <3>1, <3>3 DEF TypeOK, StopPcs, Sending, HostKinds
      <4> QED BY <2>3, <4>1 DEF SendDone
    <3> QED BY <3>2, <3>3
  <2> QED BY <2>1, <2>2, <2>3
<1>3. hclosed' <=> pc'["run"] = "done"
  BY <1>1 DEF SessionInv
<1> QED BY <1>2, <1>3 DEF SessionInv, Has

\* A thread writes the frame of its step once, and the bootstrap goes first.
LEMMA SendOrder ==
    ASSUME TypeOK, PhaseInv, WrittenInv, OrderInv, NEW t \in Threads,
           \/ SendCheck(t) \/ SendRefused(t) \/ SendWrite(t)
           \/ SendBroken(t) \/ SendDone(t)
    PROVE  OrderInv'
<1> USE DEF session, threads, guest, socket, history, Threads
<1>0. /\ got' = got
      /\ pc["stop"] # "idle" => pc'["stop"] # "idle"
  BY SendMoves
<1>1. CASE SendWrite(t)
  <2> DEFINE f == OwnFrame(hold[t].seq, hold[t].kind)
  <2>1. /\ f \in Frame /\ f.kind = hold[t].kind /\ written' = Append(written, f)
        /\ hold' = [hold EXCEPT ![t].sent = TRUE] /\ pc' = pc
        /\ hold[t] \in Sending /\ ~hold[t].sent /\ hold[t].kind = pc[t]
    BY <1>1 DEF SendWrite, TypeOK, OwnFrame, Frame, Sending, PhaseInv
  <2> HIDE DEF f
  <2>2. written \in Seq(Frame) /\ Len(written) \in Nat
    BY LenProperties DEF TypeOK
  <2>3. /\ DOMAIN written' = 1..(Len(written) + 1) /\ DOMAIN written = 1..Len(written)
        /\ \A i \in 1..Len(written) : written'[i] = written[i]
        /\ written'[Len(written) + 1] = f /\ written' # <<>>
    BY <2>1, <2>2, AppendElement, AppendProperties
  <2>4. Sends(t, f.kind) /\ f.kind \in HostKinds
    BY <2>1 DEF Sends, Sending
  <2>5. ~Has(written, f.kind)
    BY <2>1, <2>4 DEF OrderInv
  <2>6. \A i, j \in DOMAIN written' : written'[i].kind = written'[j].kind => i = j
    BY <2>2, <2>3, <2>5 DEF OrderInv, Has
  <2>7. written'[1].kind = "bootstrap"
    <3>1. CASE written = <<>>
      <4>1. pc["run"] \notin {"ready", "run", "receive"} /\ got = <<>>
        BY <3>1 DEF OrderInv
      <4>2. pc["stop"] = "idle"
        BY <4>1 DEF PhaseInv
      <4>3. f.kind = "bootstrap"
        BY <2>1, <2>4, <4>1, <4>2 DEF HostKinds, TypeOK, RunPcs
      <4>4. Len(written) = 0
        BY <3>1, EmptySeq
      <4> QED BY <2>3, <4>3, <4>4
    <3>2. CASE written # <<>>
      <4>1. Len(written) \in Nat \ {0}
        BY <2>2, <3>2, EmptySeq
      <4> QED BY <2>3, <3>2, <4>1 DEF OrderInv
    <3> QED BY <3>1, <3>2
  <2>8. \A kind : Has(written', kind) => Has(written, kind) \/ kind = f.kind
    BY <2>2, <2>3 DEF Has
  <2>9. ASSUME NEW s \in Threads, NEW kind \in HostKinds, Sends(s, kind)', Has(written', kind)
        PROVE  hold'[s] # None /\ hold'[s].sent
    <3>1. Sends(s, kind)
      BY <2>1, <2>9 DEF Sends
    <3>2. CASE s = t
      <4>1. hold'[t] \in Sending /\ hold'[t].sent
        BY <2>1 DEF TypeOK, Sending
      <4> QED BY <3>2, <4>1, NoneAssumption
    <3>3. CASE s # t
      <4>1. hold'[s] = hold[s]
        BY <2>1, <3>3 DEF TypeOK
      <4>2. kind # f.kind
        BY <2>1, <3>1, <3>3 DEF Sends, TypeOK, RunPcs, StopPcs, HostKinds
      <4> QED BY <2>8, <2>9, <3>1, <4>1, <4>2 DEF OrderInv
    <3> QED BY <3>2, <3>3
  <2>10. Has(written', "run") => pc'["run"] \notin {"bootstrap", "ready"}
    <3>1. f.kind = "run" => pc["run"] = "run"
      BY <2>1 DEF TypeOK, StopPcs
    <3> QED BY <2>1, <2>8, <3>1 DEF OrderInv
  <2>11. Has(written', "stop") => pc'["stop"] # "idle"
    <3>1. f.kind = "stop" => pc["stop"] = "stop"
      BY <2>1 DEF TypeOK, RunPcs
    <3> QED BY <2>1, <2>8, <3>1 DEF OrderInv
  <2> QED BY <2>3, <2>6, <2>7, <2>9, <2>10, <2>11 DEF OrderInv
<1>2. CASE ~SendWrite(t)
  <2>1. written' = written
    BY <1>2 DEF SendCheck, SendRefused, SendBroken, SendDone
  <2>2. pc'["run"] \in {"ready", "run", "receive"} => written # <<>>
    <3>1. CASE SendDone(t) /\ t = "run"
      <4>1. hold["run"] # None /\ hold["run"].sent
        BY <3>1 DEF SendDone
      <4> QED BY <4>1 DEF WrittenInv, Has
    <3>2. CASE ~(SendDone(t) /\ t = "run")
      <4>1. pc'["run"] = pc["run"] \/ pc'["run"] = "ended"
        BY <1>2, <3>2 DEF SendCheck, SendRefused, SendBroken, SendDone, GiveUp, TypeOK
      <4> QED BY <4>1 DEF OrderInv
    <3> QED BY <3>1, <3>2
  <2>3. ASSUME NEW s \in Threads, NEW kind \in HostKinds, Sends(s, kind)', Has(written, kind)
        PROVE  hold'[s] # None /\ hold'[s].sent
    <3>1. CASE s = t
      <4>1. CASE SendCheck(t)
        <5>1. Sends(s, kind) /\ hold[s] = None
          BY <2>3, <3>1, <4>1 DEF SendCheck, Sends
        <5> QED BY <2>3, <5>1 DEF OrderInv
      <4>2. CASE ~SendCheck(t)
        <5>1. pc'[t] \notin HostKinds
          BY <1>2, <4>2 DEF SendRefused, SendBroken, SendDone, GiveUp, TypeOK, HostKinds
        <5> QED BY <2>3, <3>1, <5>1 DEF Sends
      <4> QED BY <4>1, <4>2
    <3>2. CASE s # t
      <4>1. pc'[s] = pc[s] /\ hold'[s] = hold[s]
        BY <1>2, <3>2 DEF SendCheck, SendRefused, SendBroken, SendDone, GiveUp, TypeOK
      <4> QED BY <2>3, <4>1 DEF OrderInv, Sends
    <3> QED BY <3>1, <3>2
  <2>4. Has(written, "run") => pc'["run"] \notin {"bootstrap", "ready"}
    <3> SUFFICES ASSUME Has(written, "run") PROVE pc'["run"] \notin {"bootstrap", "ready"}
      OBVIOUS
    <3>1. pc["run"] \notin {"bootstrap", "ready"}
      BY DEF OrderInv
    <3>2. CASE SendDone(t) /\ t = "run"
      <4>1. pc["run"] = "run"
        BY <3>1, <3>2 DEF SendDone, PhaseInv, TypeOK, Sending, HostKinds, RunPcs
      <4> QED BY <3>2, <4>1 DEF SendDone, TypeOK
    <3>3. CASE ~(SendDone(t) /\ t = "run")
      <4>1. pc'["run"] = pc["run"] \/ pc'["run"] = "ended"
        BY <1>2, <3>3 DEF SendCheck, SendRefused, SendBroken, SendDone, GiveUp, TypeOK
      <4> QED BY <3>1, <4>1
    <3> QED BY <3>2, <3>3
  <2> QED BY <1>0, <2>1, <2>2, <2>3, <2>4 DEF OrderInv, Has
<1> QED BY <1>1, <1>2

\* A thread that is done stays done, and the guest keeps its end as it is.
LEMMA SendShared ==
    ASSUME TypeOK, BrokerInv, SharedInv, NEW t \in Threads,
           \/ SendCheck(t) \/ SendRefused(t) \/ SendWrite(t)
           \/ SendBroken(t) \/ SendDone(t)
    PROVE  SharedInv'
<1>1. AdmittedGuestUnderstood'
  <2>1. UNCHANGED <<refused, gpc>> /\ (pc["stop"] = "done" => pc'["stop"] = "done")
    BY SendMoves DEF guest, BrokerInv
  <2>2. pc["stop"] = "done" /\ ~Has(written, "stop") => ~Has(written', "stop")
    BY StopUnwritten DEF BrokerInv
  <2> QED BY <2>1, <2>2 DEF SharedInv, AdmittedGuestUnderstood, Has
<1> QED
  BY <1>1, SendNumbered, SendGuest, SendOrder, SendSession DEF BrokerInv, SharedInv

\* What is in the stream after its head is read.
LEMMA TailElements ==
    ASSUME NEW s \in Seq(Frame), s # <<>>
    PROVE  /\ Len(s) \in Nat \ {0} /\ Len(Tail(s)) = Len(s) - 1
           /\ DOMAIN s = 1..Len(s) /\ DOMAIN Tail(s) = 1..(Len(s) - 1)
           /\ Head(s) = s[1] /\ \A i \in 1..(Len(s) - 1) : Tail(s)[i] = s[i + 1]
<1>1. /\ Len(s) \in Nat \ {0} /\ Tail(s) \in Seq(Frame) /\ Len(Tail(s)) = Len(s) - 1
      /\ \A i \in 1..Len(Tail(s)) : Tail(s)[i] = s[i + 1]
  BY EmptySeq, HeadTailProperties
<1>2. DOMAIN s = 1..Len(s) /\ DOMAIN Tail(s) = 1..Len(Tail(s))
  BY <1>1, LenProperties
<1>3. Head(s) = s[1]
  OBVIOUS
<1> QED BY <1>1, <1>2, <1>3

\* A frame the session lets through.
LEMMA ReceiveShared ==
    ASSUME TypeOK, BrokerInv, SharedInv, Receive
    PROVE  SharedInv'
<1> USE DEF session, threads, guest, socket, history, Threads
<1> DEFINE f == Head(toHost)
<1>0. /\ toHost \in Seq(Frame) /\ toHost # <<>> /\ toHost' = Tail(toHost)
      /\ hrecv \in Nat /\ hrecv' = hrecv + 1 /\ got' = Append(got, f) /\ Legal(f)
      /\ outcome' \in Verdicts(f) /\ pc["run"] \in {"ready", "receive"} /\ ~hclosed
      /\ pc' = [pc EXCEPT !["run"] = IF f.kind = "ready" THEN "run"
                                     ELSE IF outcome' = "open" THEN "receive" ELSE "ended"]
      /\ hstate' = CASE f.kind = "ready" -> "ready"
                     [] f.kind \in {"result", "error"} -> "terminal"
                     [] f.kind \in StreamKinds -> hstate
      /\ UNCHANGED <<hsend, hclosed, hold, guest, toGuest, written, refused>>
  BY DEF Receive, Receiving, TypeOK
<1> HIDE DEF f
<1>1. /\ pc'["stop"] = pc["stop"] /\ pc'["run"] \in {"run", "receive", "ended"}
      /\ pc'["run"] = "run" => f.kind = "ready"
      /\ pc'["run"] = "receive" => f.kind # "ready" /\ outcome' = "open"
  BY <1>0 DEF TypeOK
<1>2. NumberedInv'
  <2> SUFFICES ASSUME gpc # "rogue" PROVE NumberedInv'
    BY <1>0 DEF NumberedInv
  <2>1. /\ gopen => gsend = hrecv + Len(toHost)
        /\ \A i \in DOMAIN toHost :
             /\ toHost[i].own /\ toHost[i].seq = hrecv + i - 1 /\ toHost[i].kind \in GuestKinds
             /\ (toHost[i].kind = "ready") <=> (toHost[i].seq = 0)
    BY <1>0 DEF SharedInv, NumberedInv
  <2>2. /\ Len(toHost) \in Nat \ {0} /\ Len(toHost') = Len(toHost) - 1
        /\ DOMAIN toHost = 1..Len(toHost) /\ DOMAIN toHost' = 1..(Len(toHost) - 1)
        /\ \A i \in 1..(Len(toHost) - 1) : toHost'[i] = toHost[i + 1]
    BY <1>0, TailElements
  <2>3. gopen' => gsend' = hrecv' + Len(toHost')
    BY <1>0, <2>1, <2>2 DEF TypeOK
  <2>4. ASSUME NEW i \in DOMAIN toHost'
        PROVE  /\ toHost'[i].own /\ toHost'[i].seq = hrecv' + i - 1
               /\ toHost'[i].kind \in GuestKinds
               /\ (toHost'[i].kind = "ready") <=> (toHost'[i].seq = 0)
    <3>1. i + 1 \in DOMAIN toHost /\ toHost'[i] = toHost[i + 1] /\ i \in Nat
      BY <2>2
    <3>2. hrecv + (i + 1) - 1 = hrecv' + i - 1
      BY <1>0, <3>1
    <3> QED BY <2>1, <3>1, <3>2
  <2> QED BY <2>3, <2>4 DEF NumberedInv
<1>3. GuestInv'
  BY <1>0 DEF SharedInv, GuestInv
<1>4. OrderInv'
  <2>1. written # <<>>
    <3>1. pc["run"] = "ready" \/ pc["run"] = "receive"
      BY <1>0
    <3> QED BY <3>1 DEF SharedInv, OrderInv
  <2>2. ASSUME NEW s \in Threads, NEW kind \in HostKinds, Sends(s, kind)', Has(written, kind)
        PROVE  hold[s] # None /\ hold[s].sent
    <3>1. CASE s = "stop"
      <4>1. Sends(s, kind)
        BY <1>1, <2>2, <3>1 DEF Sends
      <4> QED BY <2>2, <4>1 DEF SharedInv, OrderInv
    <3>2. CASE s = "run"
      <4>1. kind = "run" /\ f.kind = "ready"
        BY <1>1, <2>2, <3>2 DEF Sends, HostKinds
      <4>2. pc["run"] = "ready"
        BY <1>0, <4>1 DEF Legal, HostMayReceive, BrokerInv, PhaseInv
      <4> QED BY <2>2, <4>1, <4>2 DEF SharedInv, OrderInv
    <3> QED BY <3>1, <3>2
  <2> QED BY <1>0, <1>1, <2>1, <2>2 DEF SharedInv, OrderInv, Has
<1>5. SessionInv'
  <2>1. hclosed' <=> pc'["run"] = "done"
    BY <1>0, <1>1 DEF SharedInv, SessionInv
  <2>2. ASSUME pc'["run"] = "receive" PROVE hstate' = hstate /\ pc["run"] = "receive"
    <3>1. f.kind # "ready" /\ f.kind \in GuestKinds /\ hstate # "new"
      BY <1>0, <1>1, <2>2 DEF Legal, HostMayReceive
    <3>2. f.kind \notin {"result", "error"}
      BY <1>0, <1>1, <2>2 DEF Verdicts
    <3>3. hstate' = hstate
      BY <1>0, <3>1, <3>2 DEF GuestKinds, StreamKinds
    <3> QED BY <1>0, <3>1, <3>3 DEF BrokerInv, PhaseInv
  <2> QED BY <1>0, <1>1, <2>1, <2>2 DEF SharedInv, SessionInv, Has
<1>6. AdmittedGuestUnderstood'
  BY <1>0, <1>1 DEF SharedInv, AdmittedGuestUnderstood, Has
<1> QED BY <1>2, <1>3, <1>4, <1>5, <1>6 DEF SharedInv

\* The next frame of the admitted guest is legal, unless a stop has ended the session.
LEMMA NextFrameLegal ==
    ASSUME TypeOK, BrokerInv, SharedInv, gpc # "rogue", Receiving, toHost # <<>>
    PROVE  Legal(Head(toHost)) \/ (pc["stop"] = "done" /\ ~Has(written, "stop"))
<1> DEFINE f == Head(toHost)
<1>1. f = toHost[1] /\ 1 \in DOMAIN toHost /\ hrecv \in Nat
  BY TailElements DEF TypeOK
<1>2. /\ f.own /\ f.seq = hrecv + 1 - 1 /\ f.kind \in GuestKinds
      /\ (f.kind = "ready") <=> (f.seq = 0)
  BY <1>1 DEF Receiving, SharedInv, NumberedInv
<1>3. (got = <<>>) <=> (hrecv = 0)
  BY EmptySeq, LenProperties DEF TypeOK, BrokerInv, ReceivedInv
<1>4. CASE pc["run"] = "ready"
  BY <1>1, <1>2, <1>3, <1>4 DEF BrokerInv, PhaseInv, Legal, HostMayReceive
<1>5. CASE pc["run"] = "receive"
  BY <1>1, <1>2, <1>3, <1>5 DEF BrokerInv, PhaseInv, SharedInv, SessionInv, Legal, HostMayReceive
<1> QED BY <1>4, <1>5 DEF Receiving

\* Refusing a frame, losing the stream, giving up, closing and asking for a stop.
LEMMA EndShared ==
    ASSUME TypeOK, BrokerInv, SharedInv,
           ReceiveRefused \/ ReceiveBroken \/ Abort \/ Close \/ Stop
    PROVE  SharedInv'
<1> USE DEF session, threads, guest, socket, history, Threads
<1>1. /\ UNCHANGED <<guest, hrecv, hold, toGuest, written, got>>
      /\ pc'["run"] \notin {"ended", "done"} => toHost' = toHost /\ pc'["run"] = pc["run"]
      /\ pc["stop"] = "done" => pc'["stop"] = "done"
      /\ pc["stop"] # "idle" => pc'["stop"] # "idle"
  BY DEF ReceiveRefused, ReceiveBroken, Abort, Close, Stop, GiveUp, TypeOK
<1>2. NumberedInv'
  BY <1>1 DEF SharedInv, NumberedInv
<1>3. GuestInv'
  BY <1>1 DEF SharedInv, GuestInv
<1>4. OrderInv'
  <2>1. ASSUME NEW s \in Threads, NEW kind \in HostKinds, Sends(s, kind)', Has(written, kind)
        PROVE  hold[s] # None /\ hold[s].sent
    <3>1. CASE Stop /\ s = "stop"
      <4>1. kind = "stop" /\ pc["stop"] = "idle"
        BY <2>1, <3>1 DEF Stop, Sends, TypeOK
      <4> QED BY <2>1, <4>1 DEF SharedInv, OrderInv
    <3>2. CASE ~(Stop /\ s = "stop")
      <4>1. Sends(s, kind)
        BY <2>1, <3>2 DEF ReceiveRefused, ReceiveBroken, Abort, Close, Stop, GiveUp, TypeOK,
                          Sends, HostKinds
      <4> QED BY <2>1, <4>1 DEF SharedInv, OrderInv
    <3> QED BY <3>1, <3>2
  <2>2. pc'["run"] \in {"ready", "run", "receive"} \/ got # <<>> => written # <<>>
    BY <1>1 DEF SharedInv, OrderInv
  <2>3. /\ Has(written, "run") => pc'["run"] \notin {"bootstrap", "ready"}
        /\ Has(written, "stop") => pc'["stop"] # "idle"
    BY <1>1 DEF SharedInv, OrderInv
  <2> QED BY <1>1, <2>1, <2>2, <2>3 DEF SharedInv, OrderInv, Has
<1>5. SessionInv'
  <2>1. hclosed' <=> pc'["run"] = "done"
    BY DEF ReceiveRefused, ReceiveBroken, Abort, Close, Stop, GiveUp, TypeOK, SharedInv,
           SessionInv, Receiving
  <2>2. pc'["run"] = "receive" => pc["run"] = "receive" /\ hstate' = hstate
    BY DEF ReceiveRefused, ReceiveBroken, Abort, Close, Stop, GiveUp, TypeOK
  <2> QED BY <1>1, <2>1, <2>2 DEF SharedInv, SessionInv, Has
<1>6. AdmittedGuestUnderstood'
  <2>1. CASE ReceiveRefused
    <3>1. gpc # "rogue" => pc["stop"] = "done" /\ ~Has(written, "stop")
      BY <2>1, NextFrameLegal DEF ReceiveRefused
    <3> QED BY <1>1, <3>1 DEF AdmittedGuestUnderstood, Has
  <2>2. CASE ~ReceiveRefused
    <3>1. refused' = refused
      BY <2>2 DEF ReceiveBroken, Abort, Close, Stop
    <3> QED BY <1>1, <3>1 DEF SharedInv, AdmittedGuestUnderstood, Has
  <2> QED BY <2>1, <2>2
<1> QED BY <1>2, <1>3, <1>4, <1>5, <1>6 DEF SharedInv

\* A step of the guest keeps what is about the host alone, and closes its end for good.
LEMMA GuestLeaves ==
    ASSUME SharedInv, UNCHANGED <<session, threads, history>>, gopen' => gopen,
           (gpc' = "rogue") <=> (gpc = "rogue")
    PROVE  OrderInv' /\ SessionInv' /\ AdmittedGuestUnderstood'
<1>1. OrderInv'
  BY DEF SharedInv, OrderInv, Sends, Has, threads, history
<1>2. SessionInv'
  BY DEF SharedInv, SessionInv, session, threads, history, Has
<1>3. AdmittedGuestUnderstood'
  BY DEF SharedInv, AdmittedGuestUnderstood, threads, history, Has
<1> QED BY <1>1, <1>2, <1>3

\* The admitted guest's next frame is numbered on.
LEMMA AnswerNumbered ==
    ASSUME TypeOK, SharedInv, gpc # "rogue", gopen, NEW kind \in GuestKinds,
           toHost' = Append(toHost, OwnFrame(gsend, kind)), gsend' = gsend + 1,
           (kind = "ready") <=> (gsend = 0),
           UNCHANGED <<session, threads, gopen>>
    PROVE  NumberedInv'
<1> SUFFICES ASSUME pc["run"] \notin {"ended", "done"} PROVE NumberedInv'
  BY DEF NumberedInv, threads
<1> DEFINE f == OwnFrame(gsend, kind)
<1>1. f \in Frame /\ f.own /\ f.seq = gsend /\ f.kind = kind
  BY DEF OwnFrame, Frame, TypeOK
<1>2. toHost' = Append(toHost, f)
  OBVIOUS
<1> HIDE DEF f
<1>3. /\ gsend = hrecv + Len(toHost) /\ hrecv' = hrecv
      /\ \A i \in DOMAIN toHost :
           /\ toHost[i].own /\ toHost[i].seq = hrecv + i - 1 /\ toHost[i].kind \in GuestKinds
           /\ (toHost[i].kind = "ready") <=> (toHost[i].seq = 0)
  BY DEF SharedInv, NumberedInv, session
<1>4. toHost \in Seq(Frame) /\ Len(toHost) \in Nat /\ hrecv \in Nat
  BY LenProperties DEF TypeOK
<1>5. /\ Len(toHost') = Len(toHost) + 1
      /\ DOMAIN toHost' = 1..(Len(toHost) + 1) /\ DOMAIN toHost = 1..Len(toHost)
      /\ \A i \in 1..Len(toHost) : toHost'[i] = toHost[i]
      /\ toHost'[Len(toHost) + 1] = f
  BY <1>1, <1>2, <1>4, AppendElement
<1>6. gsend' = hrecv' + Len(toHost')
  BY <1>3, <1>4, <1>5
<1>7. ASSUME NEW i \in DOMAIN toHost'
      PROVE  /\ toHost'[i].own /\ toHost'[i].seq = hrecv' + i - 1
             /\ toHost'[i].kind \in GuestKinds
             /\ (toHost'[i].kind = "ready") <=> (toHost'[i].seq = 0)
  <2>1. CASE i \in 1..Len(toHost)
    BY <1>3, <1>5, <2>1
  <2>2. CASE i = Len(toHost) + 1
    BY <1>1, <1>3, <1>4, <1>5, <2>2
  <2> QED BY <1>4, <1>5, <2>1, <2>2
<1> QED BY <1>6, <1>7 DEF NumberedInv

\* accept_bootstrap: the guest has read the first frame, and it was the bootstrap.
LEMMA AcceptShared ==
    ASSUME TypeOK, SharedInv, GuestAccept
    PROVE  SharedInv'
<1> USE DEF session, threads, history
<1>1. /\ gpc = "accept" /\ gpc' = "receive" /\ toGuest # <<>> /\ toGuest' = Tail(toGuest)
      /\ gsend' = 1 /\ UNCHANGED <<session, threads, gopen, ran, history>>
  BY DEF GuestAccept
<1>2. gsend = 0 /\ gopen /\ toGuest = written
  BY <1>1 DEF SharedInv, GuestInv
<1>3. NumberedInv'
  <2>1. toHost' = Append(toHost, OwnFrame(gsend, "ready")) /\ gsend' = gsend + 1
    BY <1>1, <1>2 DEF GuestAccept
  <2>2. "ready" \in GuestKinds
    BY DEF GuestKinds
  <2> QED BY <1>1, <1>2, <2>1, <2>2, AnswerNumbered
<1>4. GuestInv'
  BY <1>1, <1>2 DEF SharedInv, GuestInv
<1>5. OrderInv' /\ SessionInv' /\ AdmittedGuestUnderstood'
  BY <1>1, GuestLeaves
<1> QED BY <1>3, <1>4, <1>5 DEF SharedInv

\* receive_run: the run is what was written second.
LEMMA ReceiveRunShared ==
    ASSUME TypeOK, SharedInv, GuestReceiveRun
    PROVE  SharedInv'
<1> USE DEF session, threads, history
<1>1. /\ gpc = "receive" /\ gpc' = "execute" /\ toGuest # <<>> /\ Head(toGuest).kind = "run"
      /\ UNCHANGED <<session, threads, gsend, gopen, ran, toHost, history>>
  BY DEF GuestReceiveRun
<1>2. written # <<>> /\ toGuest = Tail(written) /\ gsend >= 1
  BY <1>1 DEF SharedInv, GuestInv
<1>3. Len(written) >= 2 /\ written[2].kind = "run"
  <2>1. /\ Len(written) \in Nat \ {0} /\ Len(toGuest) = Len(written) - 1
        /\ \A i \in 1..(Len(written) - 1) : toGuest[i] = written[i + 1]
    BY <1>2, TailElements DEF TypeOK
  <2>2. Len(toGuest) \in Nat \ {0} /\ Head(toGuest) = toGuest[1]
    BY <1>1, TailElements DEF TypeOK
  <2>3. Len(written) >= 2 /\ toGuest[1] = written[2]
    BY <2>1, <2>2
  <2> QED BY <1>1, <2>2, <2>3
<1>4. NumberedInv'
  BY <1>1 DEF SharedInv, NumberedInv
<1>5. GuestInv'
  BY <1>1, <1>2, <1>3 DEF SharedInv, GuestInv
<1>6. OrderInv' /\ SessionInv' /\ AdmittedGuestUnderstood'
  BY <1>1, GuestLeaves
<1> QED BY <1>4, <1>5, <1>6 DEF SharedInv

\* The guest's output, receipt, result and errors.
LEMMA AnswerShared ==
    ASSUME TypeOK, SharedInv, GuestSend
    PROVE  SharedInv'
<1> USE DEF session, threads, history
<1>1. /\ gpc \in {"stdout", "receipt", "result", "stderr", "error"}
      /\ gpc' \in {"receipt", "result", "close", "error"}
      /\ toHost' = Append(toHost, OwnFrame(gsend, gpc)) /\ gsend' = gsend + 1
      /\ UNCHANGED <<session, threads, gopen, ran, toGuest, history>>
  BY DEF GuestSend, AfterSend
<1>2. gsend >= 1 /\ gopen /\ gsend \in Nat
  BY <1>1 DEF SharedInv, GuestInv, TypeOK
<1>3. NumberedInv'
  <2>1. gpc \in GuestKinds /\ gpc # "ready" /\ gsend # 0
    BY <1>1, <1>2 DEF GuestKinds, StreamKinds
  <2> QED BY <1>1, <1>2, <2>1, AnswerNumbered
<1>4. GuestInv'
  BY <1>1, <1>2 DEF SharedInv, GuestInv
<1>5. OrderInv' /\ SessionInv' /\ AdmittedGuestUnderstood'
  BY <1>1, GuestLeaves
<1> QED BY <1>3, <1>4, <1>5 DEF SharedInv

\* Refusing a frame, the end of the stream, the workflow itself and closing.
LEMMA QuietShared ==
    ASSUME TypeOK, SharedInv,
           GuestRefuse \/ GuestEof \/ GuestExecute \/ GuestSendBroken \/ GuestClose
    PROVE  SharedInv'
<1> USE DEF session, threads, history, socket
<1>1. /\ UNCHANGED <<session, threads, gsend, toHost, history>>
      /\ gopen' => gopen
      /\ gpc # "rogue" /\ gpc' \notin {"rogue", "accept", "receive", "execute"}
  BY DEF GuestRefuse, GuestEof, GuestExecute, GuestSendBroken, GuestClose, AfterSend
<1>2. NumberedInv'
  BY <1>1 DEF SharedInv, NumberedInv
<1>3. GuestInv'
  <2>1. gopen' <=> gpc' # "done"
    BY DEF GuestRefuse, GuestEof, GuestExecute, GuestSendBroken, GuestClose, AfterSend,
           SharedInv, GuestInv
  <2>2. gpc' \notin {"close", "done"} => gsend' >= 1
    BY <1>1 DEF GuestRefuse, GuestEof, GuestExecute, GuestSendBroken, GuestClose, SharedInv, GuestInv
  <2>3. ran' # 0 => gpc = "execute" \/ ran # 0
    BY DEF GuestRefuse, GuestEof, GuestExecute, GuestSendBroken, GuestClose
  <2> QED BY <1>1, <2>1, <2>2, <2>3 DEF SharedInv, GuestInv
<1>4. OrderInv' /\ SessionInv' /\ AdmittedGuestUnderstood'
  BY <1>1, GuestLeaves
<1> QED BY <1>2, <1>3, <1>4 DEF SharedInv

\* The guest dies: what it sent before comes through, or a part of it.
LEMMA DeathShared ==
    ASSUME TypeOK, SharedInv, GuestDies
    PROVE  SharedInv'
<1> USE DEF session, threads, history
<1>1. /\ ~gopen' /\ gpc' = IF gpc = "rogue" THEN gpc ELSE "done"
      /\ UNCHANGED <<session, threads, gsend, ran, toGuest, history>>
  BY DEF GuestDies, TypeOK
<1>2. PICK n \in 0..Len(toHost) : toHost' = SubSeq(toHost, 1, n)
  BY DEF GuestDies
<1>3. /\ toHost \in Seq(Frame) /\ Len(toHost) \in Nat /\ DOMAIN toHost = 1..Len(toHost)
      /\ \A i \in 1..Len(toHost) : toHost[i] \in Frame
  BY LenProperties, ElementOfSeq DEF TypeOK
<1>4. /\ toHost' \in Seq(Frame) /\ Len(toHost') = n
      /\ \A i \in 1..n : toHost'[i] = toHost[i]
  <2>1. n \in Int /\ \A i \in 1..n : toHost[i] \in Frame
    BY <1>3
  <2> QED BY <1>2, <1>3, <2>1, SubSeqProperties
<1>5. DOMAIN toHost' = 1..n
  BY <1>4, LenProperties
<1>6. NumberedInv'
  BY <1>1, <1>3, <1>4, <1>5 DEF SharedInv, NumberedInv
<1>7. GuestInv'
  BY <1>1 DEF SharedInv, GuestInv
<1>8. OrderInv' /\ SessionInv' /\ AdmittedGuestUnderstood'
  BY <1>1, GuestLeaves
<1> QED BY <1>6, <1>7, <1>8 DEF SharedInv

\* Of a guest that is not admitted the invariant says only that nothing has run.
LEMMA RogueShared ==
    ASSUME TypeOK, SharedInv, NEW f \in RogueFrames, RogueSend(f)
    PROVE  SharedInv'
<1> USE DEF session, threads, history
<1>1. /\ gpc = "rogue" /\ gpc' = gpc
      /\ UNCHANGED <<session, threads, gopen, ran, toGuest, history>>
  BY DEF RogueSend
<1>2. NumberedInv' /\ GuestInv'
  BY <1>1 DEF SharedInv, NumberedInv, GuestInv
<1> QED BY <1>1, <1>2, GuestLeaves DEF SharedInv

LEMMA SharedStep == TypeOK /\ BrokerInv /\ SharedInv /\ [Next]_vars => SharedInv'
<1> SUFFICES ASSUME TypeOK, BrokerInv, SharedInv, [Next]_vars PROVE SharedInv'
  OBVIOUS
<1>1. CASE UNCHANGED vars
  BY <1>1 DEF vars, session, threads, guest, socket, history, SharedInv, NumberedInv, GuestInv,
              OrderInv, SessionInv, AdmittedGuestUnderstood, Sends, Has
<1>2. CASE \E t \in Threads : SendCheck(t) \/ SendRefused(t) \/ SendWrite(t)
                              \/ SendBroken(t) \/ SendDone(t)
  BY <1>2, SendShared
<1>3. CASE Receive
  BY <1>3, ReceiveShared
<1>4. CASE ReceiveRefused \/ ReceiveBroken \/ Abort \/ Close \/ Stop
  BY <1>4, EndShared
<1>5. CASE Serve \/ GuestExecute
  BY <1>5, AcceptShared, ReceiveRunShared, AnswerShared, QuietShared DEF Serve
<1>6. CASE GuestDies \/ \E f \in RogueFrames : RogueSend(f)
  BY <1>6, DeathShared, RogueShared
<1> QED
  BY <1>1, <1>2, <1>3, <1>4, <1>5, <1>6 DEF Next, RunThread, StopThread, Threads

LEMMA InitShared == Init => SharedInv
<1> SUFFICES ASSUME Init PROVE SharedInv
  OBVIOUS
<1>1. NumberedInv /\ SessionInv /\ AdmittedGuestUnderstood
  BY DEF Init, NumberedInv, SessionInv, AdmittedGuestUnderstood, Threads
<1>2. GuestInv
  BY DEF Init, GuestInv
<1>3. OrderInv
  BY DEF Init, OrderInv, Threads, Has
<1> QED BY <1>1, <1>2, <1>3 DEF SharedInv

\* Why a stop that was written first wins: the guest executes only what was
\* written second, after the bootstrap.
LEMMA StopFirst == TypeOK /\ SharedInv => StopBeforeRunWins
<1> SUFFICES ASSUME TypeOK, SharedInv, NEW i \in DOMAIN written, NEW j \in DOMAIN written,
                    written[i].kind = "stop", written[j].kind = "run", i < j, ran # 0
             PROVE  FALSE
  BY DEF StopBeforeRunWins
<1>1. DOMAIN written = 1..Len(written) /\ Len(written) \in Nat
  BY LenProperties DEF TypeOK
<1>2. Len(written) >= 2 /\ written[2].kind = "run"
  BY DEF SharedInv, GuestInv
<1>3. 2 \in DOMAIN written
  BY <1>1, <1>2
<1>4. j = 2
  BY <1>2, <1>3 DEF SharedInv, OrderInv
<1>5. i = 1
  BY <1>1, <1>4
<1>6. written[1].kind = "bootstrap"
  <2>1. written # <<>>
    BY <1>1, <1>2
  <2> QED BY <2>1 DEF SharedInv, OrderInv
<1> QED BY <1>5, <1>6

\* Why the two never wait for each other: one of them has written.
LEMMA SomeoneHasWritten == TypeOK /\ BrokerInv /\ SharedInv => NoMutualWait
<1> SUFFICES ASSUME TypeOK, BrokerInv, SharedInv,
                    pc["run"] \in {"ready", "receive"}, toHost = <<>>, gopen,
                    gpc \in {"accept", "receive"}, toGuest = <<>>
             PROVE  FALSE
  BY DEF NoMutualWait
<1>1. written # <<>>
  BY DEF SharedInv, OrderInv
<1>2. gpc = "receive" /\ toGuest = Tail(written)
  BY <1>1 DEF SharedInv, GuestInv
<1>3. /\ Len(written) \in Nat \ {0} /\ Len(toGuest) = Len(written) - 1
      /\ DOMAIN written = 1..Len(written)
  BY <1>1, <1>2, TailElements DEF TypeOK
<1>4. Len(written) = 1
  <2>1. Len(toGuest) = 0
    BY EmptySeq
  <2> QED BY <1>3, <2>1
<1>5. CASE pc["run"] = "ready"
  <2>1. hrecv = 0
    BY <1>5, EmptySeq DEF BrokerInv, PhaseInv, ReceivedInv
  <2>2. gsend = hrecv + Len(toHost)
    BY <1>2, <1>5 DEF SharedInv, NumberedInv
  <2>3. Len(toHost) = 0
    BY EmptySeq
  <2>4. gsend >= 1
    BY <1>2 DEF SharedInv, GuestInv
  <2> QED BY <2>1, <2>2, <2>3, <2>4
<1>6. CASE pc["run"] = "receive"
  <2>1. PICK i \in DOMAIN written : written[i].kind = "run"
    BY <1>6 DEF BrokerInv, WrittenInv, Has
  <2>2. i = 1
    BY <1>3, <1>4, <2>1
  <2> QED BY <1>1, <2>1, <2>2 DEF SharedInv, OrderInv
<1> QED BY <1>5, <1>6

\* Type correctness of the conversation, for any guest.
THEOREM BrokerTypes == Spec => []TypeOK
<1>1. Init => TypeOK
  BY InitInv
<1>2. TypeOK /\ [Next]_vars => TypeOK'
  BY TypeStep
<1> QED BY <1>1, <1>2, PTL DEF Spec

\* Whatever program runs in the guest, however many frames it sends and
\* whenever an operator stops the run, a conversation that HostController.run
\* accepts is gapless, begins with ready, holds exactly one receipt, ends with
\* its result and answers a run the host did send.
THEOREM AcceptedIsWellFormed == Spec => []AcceptedConversation
<1>1. Init => TypeOK /\ BrokerInv
  BY InitInv
<1>2. TypeOK /\ BrokerInv /\ [Next]_vars => (TypeOK /\ BrokerInv)'
  BY TypeStep, InvStep
<1>3. BrokerInv => AcceptedConversation
  BY DEF BrokerInv
<1> QED BY <1>1, <1>2, <1>3, PTL DEF Spec

\* The controller's run and an operator's stop share a BrokerSession without a
\* lock, and still: no frame of the admitted guest is refused unless a stop found
\* it gone, a stop that was written before the run keeps the workflow from
\* running, and host and guest never wait for each other (broker.py: send,
\* receive; testudo_guest_bootstrap.py: serve).
THEOREM SharedSessionIsSafe == Spec => []SharedSessionSafe
<1>1. Init => TypeOK /\ BrokerInv /\ SharedInv
  BY InitInv, InitShared
<1>2. TypeOK /\ BrokerInv /\ SharedInv /\ [Next]_vars => (TypeOK /\ BrokerInv /\ SharedInv)'
  BY TypeStep, InvStep, SharedStep
<1>3. TypeOK /\ BrokerInv /\ SharedInv => SharedSessionSafe
  BY StopFirst, SomeoneHasWritten DEF SharedInv, SharedSessionSafe
<1> QED BY <1>1, <1>2, <1>3, PTL DEF Spec
=============================================================================
