-------------------------- MODULE AssignmentProofs --------------------------
(***************************************************************************)
(* Proofs about the contained-assignment service: type correctness; that   *)
(* no assignment and no envelope is handed to a runner twice; that work    *)
(* leaves evidence and is handed over from an unambiguous state root; and  *)
(* that what the service tells of a run stays true.                        *)
(*                                                                         *)
(* The last part is about the boundary its commands come through           *)
(* (CommandSession): nonces, the budget, and revocation.                   *)
(***************************************************************************)
EXTENDS Assignment, CommandSession, SequenceTheorems, FiniteSetTheorems, TLAPS

\* A step that leaves a group of variables alone keeps that group's type.
LEMMA StutterTypes ==
    /\ DiskTypeOK /\ UNCHANGED disk => DiskTypeOK'
    /\ RunsTypeOK /\ UNCHANGED runVars => RunsTypeOK'
    /\ ServiceTypeOK /\ UNCHANGED <<loadVars, deadVars, svc, execVars>> => ServiceTypeOK'
    /\ HistoryTypeOK /\ UNCHANGED history => HistoryTypeOK'
    /\ BudgetTypeOK /\ UNCHANGED budget => BudgetTypeOK'
  BY DEF DiskTypeOK, RunsTypeOK, ServiceTypeOK, HistoryTypeOK, BudgetTypeOK, disk,
         loadVars, runVars, deadVars, execVars, history

\* An OSError only counts.
LEMMA FaultTypes == ASSUME NEW p, BudgetTypeOK, Fault(p) PROVE BudgetTypeOK'
  BY DEF BudgetTypeOK, Fault

\* Appending an event, in memory and perhaps on disk, keeps both logs typed.
LEMMA EmitTypes ==
    ASSUME NEW a \in Ids, NEW event \in Events, DiskTypeOK, RunsTypeOK,
           Emit(a, event) \/ EmitFails(a, event)
    PROVE  /\ events' \in [Ids -> Seq(Events)]
           /\ log' \in [Ids -> Seq(Events)]
           /\ badlog' \subseteq Ids
<1>1. Append(events[a], event) \in Seq(Events) /\ Append(log[a], event) \in Seq(Events)
  BY DEF DiskTypeOK, RunsTypeOK
<1>2. events' \in [Ids -> Seq(Events)]
  BY <1>1 DEF RunsTypeOK, Emit, EmitFails
<1>3. log' \in [Ids -> Seq(Events)]
  BY <1>1 DEF DiskTypeOK, Emit, EmitFails
<1>4. badlog' \subseteq Ids
  BY DEF DiskTypeOK, Emit, EmitFails
<1> QED
  BY <1>2, <1>3, <1>4

\* So does persisting a receipt, whose events are those in memory.
LEMMA PersistTypes ==
    ASSUME NEW a \in Ids, NEW status \in Statuses, DiskTypeOK, RunsTypeOK,
           PersistReceipt(a, status) \/ PersistFails(a, status)
    PROVE  /\ receipt' \in [Ids -> Receipts \cup {NoFile}]
           /\ rcpt' \in [Ids -> Receipts \cup Absent]
<1>1. MakeReceipt(a, status) \in Receipts
  BY DEF MakeReceipt, Receipts, RunsTypeOK
<1> QED
  BY <1>1 DEF DiskTypeOK, RunsTypeOK, PersistReceipt, PersistFails

\* Updating one field of a quarantined directory keeps it one, and keeps the
\* other fields and the other directories.
LEMMA QuarUpdate ==
    ASSUME NEW a \in Ids, NEW e \in Envs \cup Absent, DiskTypeOK, quar[a] # NoFile,
           NEW new, \/ new = [quar EXCEPT ![a].tomb = e]
                    \/ new = [quar EXCEPT ![a].req = e]
                    \/ new = [quar EXCEPT ![a].litter = "tmp"]
    PROVE  /\ new \in [Ids -> Quars \cup {NoFile}]
           /\ new[a] # NoFile
           /\ new[a].rcpt = quar[a].rcpt
           /\ new = [quar EXCEPT ![a].tomb = e] => new[a].tomb = e /\ new[a].req = quar[a].req
           /\ new = [quar EXCEPT ![a].req = e] => new[a].req = e /\ new[a].tomb = quar[a].tomb
           /\ new = [quar EXCEPT ![a].litter = "tmp"] =>
                new[a].tomb = quar[a].tomb /\ new[a].req = quar[a].req
           /\ \A b \in Ids : b # a => new[b] = quar[b]
<1>1. quar[a] \in Quars /\ quar \in [Ids -> Quars \cup {NoFile}]
  BY DEF DiskTypeOK
<1>2. /\ [quar[a] EXCEPT !.tomb = e] \in Quars
      /\ [quar[a] EXCEPT !.req = e] \in Quars
      /\ [quar[a] EXCEPT !.litter = "tmp"] \in Quars
  BY <1>1 DEF Quars
<1>3. NoFile \notin Quars
  BY ConstantsAssumption DEF Absent
<1>4. CASE new = [quar EXCEPT ![a].tomb = e]
  BY <1>1, <1>2, <1>3, <1>4 DEF Quars
<1>5. CASE new = [quar EXCEPT ![a].req = e]
  BY <1>1, <1>2, <1>3, <1>5 DEF Quars
<1>6. CASE new = [quar EXCEPT ![a].litter = "tmp"]
  BY <1>1, <1>2, <1>3, <1>6 DEF Quars
<1> QED
  BY <1>4, <1>5, <1>6

\* One step keeps every type; the quarantine in progress is what makes the
\* identity it recovers an envelope.
LEMMA TypeStep == TypeOK /\ QuarantineInv /\ [Next]_vars => TypeOK'
<1> SUFFICES ASSUME TypeOK, QuarantineInv, [Next]_vars PROVE TypeOK'
  OBVIOUS
<1>a. DiskTypeOK /\ RunsTypeOK /\ ServiceTypeOK /\ HistoryTypeOK /\ BudgetTypeOK
  BY DEF TypeOK
<1>1. ASSUME NEW a \in Ids, NEW e \in Envs, Start(a, e) PROVE TypeOK'
  <2>1. DiskTypeOK'
    BY <1>1, <1>a DEF Start, DiskTypeOK, disk
  <2>2. RunsTypeOK'
    BY <1>1, <1>a, StutterTypes DEF Start
  <2>3. ServiceTypeOK'
    BY <1>1, <1>a DEF Start, ServiceTypeOK, loadVars, deadVars, execVars
  <2>4. HistoryTypeOK'
    BY <1>1, <1>a DEF Start, HistoryTypeOK, history
  <2>5. BudgetTypeOK'
    BY <1>1, <1>a, StutterTypes DEF Start
  <2> QED
    BY <2>1, <2>2, <2>3, <2>4, <2>5 DEF TypeOK
<1>2. ASSUME NEW a \in Ids, StartRequest(a) PROVE TypeOK'
  <2>1. DiskTypeOK'
    BY <1>2, <1>a DEF StartRequest, DiskTypeOK, disk, ServiceTypeOK
  <2>2. RunsTypeOK'
    BY <1>2, <1>a DEF StartRequest, RunsTypeOK, runVars, ServiceTypeOK
  <2>3. ServiceTypeOK'
    BY <1>2, <1>a DEF StartRequest, ServiceTypeOK, loadVars, deadVars, execVars
  <2>4. HistoryTypeOK'
    BY <1>2, <1>a, StutterTypes DEF StartRequest
  <2>5. BudgetTypeOK'
    BY <1>2, <1>a, StutterTypes DEF StartRequest
  <2> QED
    BY <2>1, <2>2, <2>3, <2>4, <2>5 DEF TypeOK
<1>3. ASSUME NEW a \in Ids, StartRequestFails(a) PROVE TypeOK'
  <2>1. DiskTypeOK'
    BY <1>3, <1>a DEF StartRequestFails, DiskTypeOK, disk, ServiceTypeOK
  <2>2. RunsTypeOK'
    BY <1>3, <1>a, StutterTypes DEF StartRequestFails
  <2>3. ServiceTypeOK'
    BY <1>3, <1>a DEF StartRequestFails, ServiceTypeOK, loadVars, deadVars, execVars
  <2>4. HistoryTypeOK'
    BY <1>3, <1>a, StutterTypes DEF StartRequestFails
  <2>5. BudgetTypeOK'
    BY <1>3, <1>a, FaultTypes, StutterTypes DEF StartRequestFails
  <2> QED
    BY <2>1, <2>2, <2>3, <2>4, <2>5 DEF TypeOK
<1>4. ASSUME NEW a \in Ids, StartAdmit(a) PROVE TypeOK'
  <2>1. DiskTypeOK'
    BY <1>4, <1>a, EmitTypes DEF StartAdmit, DiskTypeOK, disk, Events, Statuses,
       ServiceTypeOK
  <2>2. RunsTypeOK'
    BY <1>4, <1>a, EmitTypes DEF StartAdmit, RunsTypeOK, runVars, Events, Statuses,
       ServiceTypeOK
  <2>3. ServiceTypeOK'
    BY <1>4, <1>a DEF StartAdmit, ServiceTypeOK, loadVars, deadVars, execVars,
       Threads
  <2>4. HistoryTypeOK'
    BY <1>4, <1>a, StutterTypes DEF StartAdmit
  <2>5. BudgetTypeOK'
    BY <1>4, <1>a, FaultTypes, StutterTypes DEF StartAdmit, EmitFails
  <2> QED
    BY <2>1, <2>2, <2>3, <2>4, <2>5 DEF TypeOK
<1>5. ASSUME NEW a \in Ids, NEW s \in Statuses, PrepareFails(a, s) PROVE TypeOK'
  <2>1. DiskTypeOK'
    BY <1>5, <1>a, StutterTypes DEF PrepareFails
  <2>2. RunsTypeOK'
    BY <1>5, <1>a, StutterTypes DEF PrepareFails
  <2>3. ServiceTypeOK'
    BY <1>5, <1>a DEF PrepareFails, ServiceTypeOK, loadVars, deadVars, execVars,
       Conclude, Decide, Threads, Statuses
  <2>4. HistoryTypeOK'
    BY <1>5, <1>a, StutterTypes DEF PrepareFails
  <2>5. BudgetTypeOK'
    BY <1>5, <1>a, StutterTypes DEF PrepareFails
  <2> QED
    BY <2>1, <2>2, <2>3, <2>4, <2>5 DEF TypeOK
<1>6. ASSUME NEW a \in Ids, Arm(a) PROVE TypeOK'
  <2>1. DiskTypeOK'
    BY <1>6, <1>a, EmitTypes DEF Arm, DiskTypeOK, disk, Events, Statuses,
       ServiceTypeOK
  <2>2. RunsTypeOK'
    BY <1>6, <1>a, EmitTypes DEF Arm, RunsTypeOK, runVars, Events, Statuses,
       ServiceTypeOK
  <2>3. ServiceTypeOK'
    BY <1>6, <1>a DEF Arm, ServiceTypeOK, loadVars, deadVars, execVars, Conclude,
       Decide, Threads, Statuses
  <2>4. HistoryTypeOK'
    BY <1>6, <1>a DEF Arm, HistoryTypeOK, history
  <2>5. BudgetTypeOK'
    BY <1>6, <1>a, FaultTypes, StutterTypes DEF Arm, EmitFails
  <2> QED
    BY <2>1, <2>2, <2>3, <2>4, <2>5 DEF TypeOK
<1>7. ASSUME NEW a \in Ids, Launch(a) PROVE TypeOK'
  <2>1. DiskTypeOK'
    BY <1>7, <1>a, StutterTypes DEF Launch
  <2>2. RunsTypeOK'
    BY <1>7, <1>a, StutterTypes DEF Launch
  <2>3. ServiceTypeOK'
    BY <1>7, <1>a DEF Launch, ServiceTypeOK, loadVars, deadVars, execVars, Threads
  <2>4. HistoryTypeOK'
    BY <1>7, <1>a, StutterTypes DEF Launch
  <2>5. BudgetTypeOK'
    BY <1>7, <1>a, StutterTypes DEF Launch
  <2> QED
    BY <2>1, <2>2, <2>3, <2>4, <2>5 DEF TypeOK
<1>8. ASSUME NEW a \in Ids, NEW s \in Statuses, EndRun(a, s) PROVE TypeOK'
  <2>1. DiskTypeOK'
    BY <1>8, <1>a, StutterTypes DEF EndRun
  <2>2. RunsTypeOK'
    BY <1>8, <1>a, StutterTypes DEF EndRun
  <2>3. ServiceTypeOK'
    BY <1>8, <1>a DEF EndRun, ServiceTypeOK, loadVars, deadVars, execVars, Conclude,
       Decide, Threads, Statuses
  <2>4. HistoryTypeOK'
    BY <1>8, <1>a, StutterTypes DEF EndRun
  <2>5. BudgetTypeOK'
    BY <1>8, <1>a, StutterTypes DEF EndRun
  <2> QED
    BY <2>1, <2>2, <2>3, <2>4, <2>5 DEF TypeOK
<1>9. ASSUME NEW a \in Ids, Finish(a) PROVE TypeOK'
  <2>1. DiskTypeOK'
    BY <1>9, <1>a, EmitTypes DEF Finish, DiskTypeOK, disk, Events, Statuses,
       ServiceTypeOK
  <2>2. RunsTypeOK'
    BY <1>9, <1>a, EmitTypes DEF Finish, RunsTypeOK, runVars, Events, Statuses,
       ServiceTypeOK
  <2>3. ServiceTypeOK'
    BY <1>9, <1>a DEF Finish, ServiceTypeOK, loadVars, deadVars, execVars, Threads
  <2>4. HistoryTypeOK'
    BY <1>9, <1>a, StutterTypes DEF Finish
  <2>5. BudgetTypeOK'
    BY <1>9, <1>a, FaultTypes, StutterTypes DEF Finish, EmitFails
  <2> QED
    BY <2>1, <2>2, <2>3, <2>4, <2>5 DEF TypeOK
<1>10. ASSUME NEW a \in Ids, Persist(a) PROVE TypeOK'
  <2>1. DiskTypeOK'
    BY <1>10, <1>a, PersistTypes DEF Persist, DiskTypeOK, disk, ServiceTypeOK
  <2>2. RunsTypeOK'
    BY <1>10, <1>a, PersistTypes DEF Persist, RunsTypeOK, runVars, ServiceTypeOK
  <2>3. ServiceTypeOK'
    BY <1>10, <1>a DEF Persist, ServiceTypeOK, loadVars, deadVars, execVars, Threads
  <2>4. HistoryTypeOK'
    BY <1>10, <1>a, StutterTypes DEF Persist
  <2>5. BudgetTypeOK'
    BY <1>10, <1>a, FaultTypes, StutterTypes DEF Persist, PersistFails
  <2> QED
    BY <2>1, <2>2, <2>3, <2>4, <2>5 DEF TypeOK
<1>11. ASSUME NEW a \in Ids, Cancel(a) PROVE TypeOK'
  <2>1. DiskTypeOK'
    BY <1>11, <1>a, EmitTypes DEF Cancel, DiskTypeOK, disk, Events, Statuses,
       ServiceTypeOK
  <2>2. RunsTypeOK'
    BY <1>11, <1>a, EmitTypes DEF Cancel, RunsTypeOK, runVars, Events, Statuses,
       ServiceTypeOK
  <2>3. ServiceTypeOK'
    BY <1>11, <1>a DEF Cancel, ServiceTypeOK, loadVars, deadVars, execVars
  <2>4. HistoryTypeOK'
    BY <1>11, <1>a, StutterTypes DEF Cancel
  <2>5. BudgetTypeOK'
    BY <1>11, <1>a, FaultTypes, StutterTypes DEF Cancel, EmitFails
  <2> QED
    BY <2>1, <2>2, <2>3, <2>4, <2>5 DEF TypeOK
<1>12. ASSUME NEW a \in Ids, ShowReceipt(a) PROVE TypeOK'
  <2>1. DiskTypeOK'
    BY <1>12, <1>a, StutterTypes DEF ShowReceipt
  <2>2. RunsTypeOK'
    BY <1>12, <1>a, StutterTypes DEF ShowReceipt
  <2>3. ServiceTypeOK'
    BY <1>12, <1>a, StutterTypes DEF ShowReceipt
  <2>4. HistoryTypeOK'
    BY <1>12, <1>a DEF ShowReceipt, HistoryTypeOK, history, RunsTypeOK, Receipts
  <2>5. BudgetTypeOK'
    BY <1>12, <1>a, StutterTypes DEF ShowReceipt
  <2> QED
    BY <2>1, <2>2, <2>3, <2>4, <2>5 DEF TypeOK
<1>13. ASSUME NEW a \in Ids, NEW s \in Statuses, Terminalize(a, s) PROVE TypeOK'
  <2>1. DiskTypeOK'
    BY <1>13, <1>a, EmitTypes DEF Terminalize, DiskTypeOK, disk, Events, Statuses,
       ServiceTypeOK
  <2>2. RunsTypeOK'
    BY <1>13, <1>a, EmitTypes DEF Terminalize, RunsTypeOK, runVars, Events,
       Statuses, ServiceTypeOK
  <2>3. ServiceTypeOK'
    BY <1>13, <1>a DEF Terminalize, ServiceTypeOK, loadVars, deadVars, execVars
  <2>4. HistoryTypeOK'
    BY <1>13, <1>a, StutterTypes DEF Terminalize
  <2>5. BudgetTypeOK'
    BY <1>13, <1>a, FaultTypes, StutterTypes DEF Terminalize, EmitFails
  <2> QED
    BY <2>1, <2>2, <2>3, <2>4, <2>5 DEF TypeOK
<1>14. ASSUME NEW a \in Ids, TerminalizePersist(a) PROVE TypeOK'
  <2>1. DiskTypeOK'
    BY <1>14, <1>a, PersistTypes DEF TerminalizePersist, DiskTypeOK, disk,
       ServiceTypeOK
  <2>2. RunsTypeOK'
    BY <1>14, <1>a, PersistTypes DEF TerminalizePersist, RunsTypeOK, runVars,
       ServiceTypeOK
  <2>3. ServiceTypeOK'
    BY <1>14, <1>a DEF TerminalizePersist, ServiceTypeOK, loadVars, deadVars,
       execVars
  <2>4. HistoryTypeOK'
    BY <1>14, <1>a, StutterTypes DEF TerminalizePersist
  <2>5. BudgetTypeOK'
    BY <1>14, <1>a, FaultTypes, StutterTypes DEF TerminalizePersist, PersistFails
  <2> QED
    BY <2>1, <2>2, <2>3, <2>4, <2>5 DEF TypeOK
<1>15. ASSUME NEW a \in Ids, ReconcileQuarantine(a) PROVE TypeOK'
  <2>1. DiskTypeOK'
    <3>1. quar' \in [Ids -> Quars \cup {NoFile}]
      <4>1. [quar EXCEPT ![a].tomb = owner[a]] \in [Ids -> Quars \cup {NoFile}]
        BY <1>15, <1>a, QuarUpdate DEF ReconcileQuarantine
      <4>2. quar \in [Ids -> Quars \cup {NoFile}]
        BY <1>a DEF DiskTypeOK
      <4> QED
        BY <1>15, <4>1, <4>2 DEF ReconcileQuarantine, WriteTombstone
    <3> QED
      BY <1>15, <1>a, <3>1 DEF ReconcileQuarantine, DiskTypeOK
  <2>2. RunsTypeOK'
    BY <1>15, <1>a, StutterTypes DEF ReconcileQuarantine
  <2>3. ServiceTypeOK'
    BY <1>15, <1>a DEF ReconcileQuarantine, ServiceTypeOK, loadVars, deadVars,
       execVars, RegisterTombstone
  <2>4. HistoryTypeOK'
    BY <1>15, <1>a, StutterTypes DEF ReconcileQuarantine
  <2>5. BudgetTypeOK'
    BY <1>15, <1>a, FaultTypes, StutterTypes DEF ReconcileQuarantine
  <2> QED
    BY <2>1, <2>2, <2>3, <2>4, <2>5 DEF TypeOK
<1>16. ASSUME NEW a \in Ids, ReconcileUnmark(a) PROVE TypeOK'
  <2>1. DiskTypeOK'
    BY <1>16, <1>a DEF ReconcileUnmark, DiskTypeOK, disk
  <2>2. RunsTypeOK'
    BY <1>16, <1>a, StutterTypes DEF ReconcileUnmark
  <2>3. ServiceTypeOK'
    BY <1>16, <1>a DEF ReconcileUnmark, ServiceTypeOK, loadVars, deadVars, execVars
  <2>4. HistoryTypeOK'
    BY <1>16, <1>a DEF ReconcileUnmark, HistoryTypeOK
  <2>5. BudgetTypeOK'
    BY <1>16, <1>a, FaultTypes, StutterTypes DEF ReconcileUnmark
  <2> QED
    BY <2>1, <2>2, <2>3, <2>4, <2>5 DEF TypeOK
<1>17. ASSUME NEW a \in Ids, Rot(a) PROVE TypeOK'
  <2>1. DiskTypeOK'
    <3>1. quar' \in [Ids -> Quars \cup {NoFile}]
      <4>1. Bad \in Envs \cup Absent
        BY DEF Absent
      <4>2. quar \in [Ids -> Quars \cup {NoFile}]
        BY <1>a DEF DiskTypeOK
      <4>3. quar[a] # NoFile =>
              /\ [quar EXCEPT ![a].tomb = Bad] \in [Ids -> Quars \cup {NoFile}]
              /\ [quar EXCEPT ![a].req = Bad] \in [Ids -> Quars \cup {NoFile}]
        BY <1>17, <1>a, <4>1, QuarUpdate
      <4> QED
        BY <1>17, <4>2, <4>3 DEF Rot
    <3>2. /\ req' \in [Ids -> Envs \cup Absent] /\ rcpt' \in [Ids -> Receipts \cup Absent]
          /\ badlog' \subseteq Ids
      BY <1>17, <1>a DEF Rot, DiskTypeOK, Absent
    <3> QED
      BY <1>17, <1>a, <3>1, <3>2 DEF Rot, DiskTypeOK
  <2>2. RunsTypeOK'
    BY <1>17, <1>a, StutterTypes DEF Rot
  <2>3. ServiceTypeOK'
    BY <1>17, <1>a, StutterTypes DEF Rot
  <2>4. HistoryTypeOK'
    BY <1>17, <1>a, StutterTypes DEF Rot
  <2>5. BudgetTypeOK'
    BY <1>17, <1>a DEF Rot, BudgetTypeOK
  <2> QED
    BY <2>1, <2>2, <2>3, <2>4, <2>5 DEF TypeOK
<1>18. ASSUME NEW a \in Ids, LoadDir(a) PROVE TypeOK'
  <2>1. DiskTypeOK'
    BY <1>18, <1>a, StutterTypes DEF LoadDir
  <2>2. RunsTypeOK'
    BY <1>18, <1>a DEF LoadDir, RunsTypeOK, runVars, DiskTypeOK, Unusable, Absent
  <2>3. ServiceTypeOK'
    BY <1>18, <1>a DEF LoadDir, ServiceTypeOK, loadVars, deadVars, execVars
  <2>4. HistoryTypeOK'
    BY <1>18, <1>a, StutterTypes DEF LoadDir
  <2>5. BudgetTypeOK'
    BY <1>18, <1>a, StutterTypes DEF LoadDir
  <2> QED
    BY <2>1, <2>2, <2>3, <2>4, <2>5 DEF TypeOK
<1>19. ASSUME NEW a \in Ids, QuarantineRename(a) PROVE TypeOK'
  <2>1. DiskTypeOK'
    BY <1>19, <1>a DEF QuarantineRename, DiskTypeOK, disk, Absent, Quars, Receipts
  <2>2. RunsTypeOK'
    BY <1>19, <1>a, StutterTypes DEF QuarantineRename
  <2>3. ServiceTypeOK'
    BY <1>19, <1>a DEF QuarantineRename, ServiceTypeOK, loadVars, deadVars,
       execVars, Steps
  <2>4. HistoryTypeOK'
    BY <1>19, <1>a, StutterTypes DEF QuarantineRename
  <2>5. BudgetTypeOK'
    BY <1>19, <1>a, StutterTypes DEF QuarantineRename
  <2> QED
    BY <2>1, <2>2, <2>3, <2>4, <2>5 DEF TypeOK
<1>20. ASSUME NEW a \in Ids, QuarantineRefused(a) PROVE TypeOK'
  <2>1. DiskTypeOK'
    BY <1>20, <1>a, StutterTypes DEF QuarantineRefused
  <2>2. RunsTypeOK'
    BY <1>20, <1>a, StutterTypes DEF QuarantineRefused
  <2>3. ServiceTypeOK'
    BY <1>20, <1>a DEF QuarantineRefused, ServiceTypeOK, loadVars, deadVars,
       execVars, Steps
  <2>4. HistoryTypeOK'
    BY <1>20, <1>a, StutterTypes DEF QuarantineRefused
  <2>5. BudgetTypeOK'
    BY <1>20, <1>a, FaultTypes, StutterTypes DEF QuarantineRefused
  <2> QED
    BY <2>1, <2>2, <2>3, <2>4, <2>5 DEF TypeOK
<1>21. ASSUME NEW a \in Ids, QuarantineRecord(a) PROVE TypeOK'
  <2>1. DiskTypeOK'
    BY <1>21, <1>a, StutterTypes DEF QuarantineRecord
  <2>2. RunsTypeOK'
    BY <1>21, <1>a, StutterTypes DEF QuarantineRecord
  <2>3. ServiceTypeOK'
    BY <1>21, <1>a DEF QuarantineRecord, ServiceTypeOK, loadVars, deadVars,
       execVars, Steps
  <2>4. HistoryTypeOK'
    BY <1>21, <1>a, StutterTypes DEF QuarantineRecord
  <2>5. BudgetTypeOK'
    BY <1>21, <1>a, FaultTypes, StutterTypes DEF QuarantineRecord
  <2> QED
    BY <2>1, <2>2, <2>3, <2>4, <2>5 DEF TypeOK
<1>22. ASSUME NEW a \in Ids, QuarantineTombstone(a) PROVE TypeOK'
  <2>1. DiskTypeOK'
    <3>1. RecoverIdentity(a) \in Envs /\ quar[a] # NoFile
      BY <1>22 DEF QuarantineTombstone, Quarantining, QuarantineInv, RecoverIdentity
    <3>2. quar' \in [Ids -> Quars \cup {NoFile}]
      <4>1. [quar EXCEPT ![a].tomb = RecoverIdentity(a)] \in [Ids -> Quars \cup {NoFile}]
        BY <1>22, <1>a, <3>1, QuarUpdate
      <4>2. quar \in [Ids -> Quars \cup {NoFile}]
        BY <1>a DEF DiskTypeOK
      <4> QED
        BY <1>22, <4>1, <4>2 DEF QuarantineTombstone, WriteTombstone
    <3> QED
      BY <1>22, <1>a, <3>2 DEF QuarantineTombstone, DiskTypeOK
  <2>2. RunsTypeOK'
    BY <1>22, <1>a, StutterTypes DEF QuarantineTombstone
  <2>3. ServiceTypeOK'
    BY <1>22, <1>a DEF QuarantineTombstone, ServiceTypeOK, loadVars, deadVars,
       execVars, RegisterTombstone, Quarantining, QuarantineInv, RecoverIdentity
  <2>4. HistoryTypeOK'
    BY <1>22, <1>a, StutterTypes DEF QuarantineTombstone
  <2>5. BudgetTypeOK'
    BY <1>22, <1>a, FaultTypes, StutterTypes DEF QuarantineTombstone
  <2> QED
    BY <2>1, <2>2, <2>3, <2>4, <2>5 DEF TypeOK
<1>23. ASSUME NEW a \in Ids, QuarantineMark(a) PROVE TypeOK'
  <2>1. DiskTypeOK'
    BY <1>23, <1>a DEF QuarantineMark, DiskTypeOK, disk
  <2>2. RunsTypeOK'
    BY <1>23, <1>a, StutterTypes DEF QuarantineMark
  <2>3. ServiceTypeOK'
    BY <1>23, <1>a DEF QuarantineMark, ServiceTypeOK, loadVars, deadVars, execVars
  <2>4. HistoryTypeOK'
    BY <1>23, <1>a, StutterTypes DEF QuarantineMark
  <2>5. BudgetTypeOK'
    BY <1>23, <1>a, FaultTypes, StutterTypes DEF QuarantineMark
  <2> QED
    BY <2>1, <2>2, <2>3, <2>4, <2>5 DEF TypeOK
<1>24. ASSUME Crash PROVE TypeOK'
  <2>1. DiskTypeOK'
    <3>1. quar' \in [Ids -> Quars \cup {NoFile}]
      <4>1. CASE UNCHANGED quar
        BY <1>a, <4>1 DEF DiskTypeOK
      <4>2. CASE /\ q # NoFile /\ q.step = "record"
                 /\ quar' = [quar EXCEPT ![q.id].litter = "tmp"]
        <5>1. q.id \in Ids /\ quar[q.id] # NoFile
          BY <1>a, <4>2 DEF ServiceTypeOK, QuarantineInv
        <5>2. Bad \in Envs \cup Absent
          BY DEF Absent
        <5> QED
          BY <1>a, <4>2, <5>1, <5>2, QuarUpdate
      <4> QED
        BY <1>24, <4>1, <4>2 DEF Crash
    <3> QED
      BY <1>24, <1>a, <3>1 DEF Crash, DiskTypeOK
  <2>2. RunsTypeOK'
    BY <1>24, <1>a DEF Crash, RunsTypeOK, runVars, Blank
  <2>3. ServiceTypeOK'
    BY <1>24, <1>a DEF Crash, ServiceTypeOK, loadVars, deadVars, execVars, Blank,
       Threads, Statuses
  <2>4. HistoryTypeOK'
    BY <1>24, <1>a, StutterTypes DEF Crash
  <2>5. BudgetTypeOK'
    BY <1>24, <1>a DEF Crash, BudgetTypeOK
  <2> QED
    BY <2>1, <2>2, <2>3, <2>4, <2>5 DEF TypeOK
<1>25. ASSUME Restart PROVE TypeOK'
  <2>1. DiskTypeOK'
    BY <1>25, <1>a, StutterTypes DEF Restart
  <2>2. RunsTypeOK'
    BY <1>25, <1>a, StutterTypes DEF Restart
  <2>3. ServiceTypeOK'
    BY <1>25, <1>a DEF Restart, ServiceTypeOK, loadVars, deadVars, execVars,
       DiskTypeOK, Tombstoned
  <2>4. HistoryTypeOK'
    BY <1>25, <1>a, StutterTypes DEF Restart
  <2>5. BudgetTypeOK'
    BY <1>25, <1>a, StutterTypes DEF Restart
  <2> QED
    BY <2>1, <2>2, <2>3, <2>4, <2>5 DEF TypeOK
<1>26. ASSUME LoadDone PROVE TypeOK'
  <2>1. DiskTypeOK'
    BY <1>26, <1>a, StutterTypes DEF LoadDone
  <2>2. RunsTypeOK'
    BY <1>26, <1>a, StutterTypes DEF LoadDone
  <2>3. ServiceTypeOK'
    BY <1>26, <1>a DEF LoadDone, ServiceTypeOK, loadVars, deadVars, execVars
  <2>4. HistoryTypeOK'
    BY <1>26, <1>a, StutterTypes DEF LoadDone
  <2>5. BudgetTypeOK'
    BY <1>26, <1>a, StutterTypes DEF LoadDone
  <2> QED
    BY <2>1, <2>2, <2>3, <2>4, <2>5 DEF TypeOK
<1>27. CASE UNCHANGED vars
  BY <1>27, <1>a, StutterTypes DEF vars, TypeOK
<1> QED
  BY <1>1, <1>2, <1>3, <1>4, <1>5, <1>6, <1>7, <1>8, <1>9, <1>10, <1>11, <1>12, <1>13,
     <1>14, <1>15, <1>16, <1>17, <1>18, <1>19, <1>20, <1>21, <1>22, <1>23, <1>24, <1>25,
     <1>26, <1>27
     DEF Next, Started, Executing, Serving, Loading, Statuses

\* What the rename of an unusable directory leaves behind.
LEMMA RenamedDirectory ==
    ASSUME NEW a \in Ids, TypeOK, QuarantineRename(a)
    PROVE  /\ quar'[a] # NoFile
           /\ quar'[a].req = req[a] /\ quar'[a].tomb = NoFile
           /\ quar'[a].rcpt = IF rcpt[a] \in Absent THEN rcpt[a] ELSE rcpt[a].env
           /\ \A b \in Ids : b # a => quar'[b] = quar[b]
<1> DEFINE new == [req |-> req[a],
                   rcpt |-> IF rcpt[a] \in Absent THEN rcpt[a] ELSE rcpt[a].env,
                   tomb |-> NoFile, litter |-> "none"]
<1>1. quar' = [quar EXCEPT ![a] = new] /\ quar \in [Ids -> Quars \cup {NoFile}]
  BY DEF QuarantineRename, TypeOK, DiskTypeOK
<1>2. new \in Quars
  BY DEF TypeOK, DiskTypeOK, Quars, Absent, Receipts
<1>3. NoFile \notin Quars
  BY ConstantsAssumption DEF Absent
<1> QED
  BY <1>1, <1>2, <1>3

\* An identity that start admits has no evidence of use, and no identity that
\* has one was submitted with its envelope.
LEMMA AdmittedIsFresh ==
    ASSUME NEW a \in Ids, NEW e \in Envs, TypeOK, IdentityInv, Start(a, e)
    PROVE  ~Claimed(a) /\ \A b \in Ids : Claimed(b) => owner[b] # e
<1>1. up = "ready" /\ todo = {} /\ q = NoFile /\ amb = {}
  BY DEF Start, Ready, IdentityInv, MemoryInv
<1>2. \A b \in Ids : Claimed(b) => \/ b \in dirs /\ req[b] = owner[b]
                                   \/ b \in tombIds /\ owner[b] \in tombEnvs
  BY <1>1 DEF IdentityInv, ProtectedInv, Protected
<1> QED
  BY <1>2 DEF Start, NewIdentity

\* The quarantine in progress stays what it is until its last step.
LEMMA QuarantineStep == TypeOK /\ QuarantineInv /\ [Next]_vars => QuarantineInv'
<1> SUFFICES ASSUME TypeOK, QuarantineInv, [Next]_vars PROVE QuarantineInv'
  OBVIOUS
<1>a. DiskTypeOK /\ ServiceTypeOK /\ QuarantineInv
  BY DEF TypeOK
<1> USE ConstantsAssumption DEF disk, loadVars
<1>1. ASSUME NEW a \in Ids, NEW e \in Envs, Start(a, e) PROVE QuarantineInv'
  BY <1>1, <1>a DEF Start, Ready, QuarantineInv, RecoverIdentity
<1>2. ASSUME NEW a \in Ids, StartRequest(a) PROVE QuarantineInv'
  BY <1>2, <1>a DEF StartRequest, QuarantineInv, RecoverIdentity
<1>3. ASSUME NEW a \in Ids, StartRequestFails(a) PROVE QuarantineInv'
  BY <1>3, <1>a DEF StartRequestFails, QuarantineInv, RecoverIdentity
<1>4. ASSUME NEW a \in Ids, StartAdmit(a) PROVE QuarantineInv'
  BY <1>4, <1>a DEF StartAdmit, QuarantineInv, RecoverIdentity
<1>5. ASSUME NEW a \in Ids, NEW s \in Statuses, PrepareFails(a, s) PROVE QuarantineInv'
  BY <1>5, <1>a DEF PrepareFails, Conclude, QuarantineInv, RecoverIdentity
<1>6. ASSUME NEW a \in Ids, Arm(a) PROVE QuarantineInv'
  BY <1>6, <1>a DEF Arm, Conclude, QuarantineInv, RecoverIdentity
<1>7. ASSUME NEW a \in Ids, Launch(a) PROVE QuarantineInv'
  BY <1>7, <1>a DEF Launch, QuarantineInv, RecoverIdentity
<1>8. ASSUME NEW a \in Ids, NEW s \in Statuses, EndRun(a, s) PROVE QuarantineInv'
  BY <1>8, <1>a DEF EndRun, Conclude, QuarantineInv, RecoverIdentity
<1>9. ASSUME NEW a \in Ids, Finish(a) PROVE QuarantineInv'
  BY <1>9, <1>a DEF Finish, QuarantineInv, RecoverIdentity
<1>10. ASSUME NEW a \in Ids, Persist(a) PROVE QuarantineInv'
  BY <1>10, <1>a DEF Persist, PersistReceipt, PersistFails, MakeReceipt,
     QuarantineInv, RecoverIdentity
<1>11. ASSUME NEW a \in Ids, Cancel(a) PROVE QuarantineInv'
  BY <1>11, <1>a DEF Cancel, Unlocked, Ready, QuarantineInv,
     RecoverIdentity
<1>12. ASSUME NEW a \in Ids, ShowReceipt(a) PROVE QuarantineInv'
  BY <1>12, <1>a DEF ShowReceipt, QuarantineInv, RecoverIdentity
<1>13. ASSUME NEW a \in Ids, NEW s \in Statuses, Terminalize(a, s) PROVE QuarantineInv'
  BY <1>13, <1>a DEF Terminalize, Unlocked, Ready, QuarantineInv,
     RecoverIdentity
<1>14. ASSUME NEW a \in Ids, TerminalizePersist(a) PROVE QuarantineInv'
  BY <1>14, <1>a DEF TerminalizePersist, PersistReceipt, PersistFails, MakeReceipt,
     QuarantineInv, RecoverIdentity
<1>15. ASSUME NEW a \in Ids, ReconcileQuarantine(a) PROVE QuarantineInv'
  BY <1>15, <1>a DEF ReconcileQuarantine, Ready, WriteTombstone, RegisterTombstone,
     QuarantineInv, RecoverIdentity
<1>16. ASSUME NEW a \in Ids, ReconcileUnmark(a) PROVE QuarantineInv'
  BY <1>16, <1>a DEF ReconcileUnmark, QuarantineInv, RecoverIdentity
<1>17. ASSUME NEW a \in Ids, Rot(a) PROVE QuarantineInv'
  BY <1>17, <1>a DEF Rot, QuarantineInv, RecoverIdentity
<1>18. ASSUME NEW a \in Ids, LoadDir(a) PROVE QuarantineInv'
  BY <1>18, <1>a DEF LoadDir, Unusable, QuarantineInv, RecoverIdentity
<1>19. ASSUME NEW a \in Ids, QuarantineRename(a) PROVE QuarantineInv'
  BY <1>19, <1>a, RenamedDirectory DEF QuarantineRename, Unusable, QuarantineInv,
     MemoryInv, RecoverIdentity
<1>20. ASSUME NEW a \in Ids, QuarantineRefused(a) PROVE QuarantineInv'
  BY <1>20, <1>a DEF QuarantineRefused, QuarantineInv, RecoverIdentity
<1>21. ASSUME NEW a \in Ids, QuarantineRecord(a) PROVE QuarantineInv'
  BY <1>21, <1>a DEF QuarantineRecord, Quarantining, QuarantineInv,
     RecoverIdentity
<1>22. ASSUME NEW a \in Ids, QuarantineTombstone(a) PROVE QuarantineInv'
  BY <1>22, <1>a DEF QuarantineTombstone, Quarantining, WriteTombstone,
     RegisterTombstone, QuarantineInv, RecoverIdentity
<1>23. ASSUME NEW a \in Ids, QuarantineMark(a) PROVE QuarantineInv'
  BY <1>23, <1>a DEF QuarantineMark, Quarantining, QuarantineInv,
     RecoverIdentity
<1>24. ASSUME Crash PROVE QuarantineInv'
  BY <1>24, <1>a DEF Crash, Blank, QuarantineInv, RecoverIdentity
<1>25. ASSUME Restart PROVE QuarantineInv'
  BY <1>25, <1>a DEF Restart, Tombstoned, Unprotected, QuarantineInv,
     RecoverIdentity
<1>26. ASSUME LoadDone PROVE QuarantineInv'
  BY <1>26, <1>a DEF LoadDone, QuarantineInv, RecoverIdentity
<1>27. CASE UNCHANGED vars
  BY <1>27, <1>a DEF vars, QuarantineInv, RecoverIdentity
<1> QED
  BY <1>1, <1>2, <1>3, <1>4, <1>5, <1>6, <1>7, <1>8, <1>9, <1>10, <1>11, <1>12, <1>13,
     <1>14, <1>15, <1>16, <1>17, <1>18, <1>19, <1>20, <1>21, <1>22, <1>23, <1>24, <1>25,
     <1>26, <1>27
     DEF Next, Started, Executing, Serving, Loading, Statuses

\* No step makes a file name another envelope.
LEMMA FilesStep == TypeOK /\ IdentityInv /\ [Next]_vars => FilesInv'
<1> SUFFICES ASSUME TypeOK, IdentityInv, [Next]_vars PROVE FilesInv'
  OBVIOUS
<1>a. DiskTypeOK /\ FilesInv
  BY DEF TypeOK, IdentityInv
<1>b. /\ req \in [Ids -> Envs \cup Absent] /\ rcpt \in [Ids -> Receipts \cup Absent]
      /\ quar \in [Ids -> Quars \cup {NoFile}] /\ owner \in [Ids -> Envs \cup {NoFile}]
  BY DEF TypeOK, DiskTypeOK, HistoryTypeOK
<1>c. MemoryInv /\ QuarantineInv
  BY DEF IdentityInv
<1> USE ConstantsAssumption DEF disk, loadVars, history
<1>1. ASSUME NEW a \in Ids, NEW e \in Envs, Start(a, e) PROVE FilesInv'
  <2>1. ~Claimed(a)
    BY <1>1, AdmittedIsFresh
  <2>2. a \notin dirs /\ UNCHANGED <<req, rcpt, quar>> /\ dirs' = dirs \cup {a}
    BY <1>1 DEF Start, NewIdentity
  <2>3. owner'[a] = e /\ \A b \in Ids : b # a => owner'[b] = owner[b]
    BY <1>1, <1>b DEF Start
  <2> QED
    BY <1>a, <2>1, <2>2, <2>3 DEF FilesInv, Claimed, Absent
<1>2. ASSUME NEW a \in Ids, StartRequest(a) PROVE FilesInv'
  <2>1. a \in dirs /\ svc.arg = owner[a]
    BY <1>2, <1>c DEF StartRequest, MemoryInv
  <2> QED
    BY <1>2, <1>a, <1>b, <2>1 DEF StartRequest, FilesInv
<1>3. ASSUME NEW a \in Ids, StartRequestFails(a) PROVE FilesInv'
  <2>1. a \in dirs /\ svc.arg = owner[a]
    BY <1>3, <1>c DEF StartRequestFails, MemoryInv
  <2> QED
    BY <1>3, <1>a, <1>b, <2>1 DEF StartRequestFails, FilesInv
<1>4. ASSUME NEW a \in Ids, StartAdmit(a) PROVE FilesInv'
  BY <1>4, <1>a DEF StartAdmit, FilesInv
<1>5. ASSUME NEW a \in Ids, NEW s \in Statuses, PrepareFails(a, s) PROVE FilesInv'
  BY <1>5, <1>a DEF PrepareFails, Conclude, FilesInv
<1>6. ASSUME NEW a \in Ids, Arm(a) PROVE FilesInv'
  BY <1>6, <1>a DEF Arm, Conclude, FilesInv
<1>7. ASSUME NEW a \in Ids, Launch(a) PROVE FilesInv'
  BY <1>7, <1>a DEF Launch, FilesInv
<1>8. ASSUME NEW a \in Ids, NEW s \in Statuses, EndRun(a, s) PROVE FilesInv'
  BY <1>8, <1>a DEF EndRun, Conclude, FilesInv
<1>9. ASSUME NEW a \in Ids, Finish(a) PROVE FilesInv'
  BY <1>9, <1>a DEF Finish, FilesInv
<1>10. ASSUME NEW a \in Ids, Persist(a) PROVE FilesInv'
  <2>1. a \in dirs /\ env[a] = owner[a]
    BY <1>10, <1>c DEF Persist, MemoryInv
  <2>2. \A b \in Ids : rcpt'[b] = rcpt[b] \/ (b = a /\ rcpt'[b].env = env[a])
    BY <1>10, <1>b DEF Persist, PersistReceipt, PersistFails, MakeReceipt
  <2>3. UNCHANGED <<dirs, req, quar, owner>>
    BY <1>10 DEF Persist
  <2> QED
    BY <1>a, <2>1, <2>2, <2>3 DEF FilesInv
<1>11. ASSUME NEW a \in Ids, Cancel(a) PROVE FilesInv'
  BY <1>11, <1>a DEF Cancel, Unlocked, Ready, FilesInv
<1>12. ASSUME NEW a \in Ids, ShowReceipt(a) PROVE FilesInv'
  BY <1>12, <1>a DEF ShowReceipt, FilesInv
<1>13. ASSUME NEW a \in Ids, NEW s \in Statuses, Terminalize(a, s) PROVE FilesInv'
  BY <1>13, <1>a DEF Terminalize, Unlocked, Ready, FilesInv
<1>14. ASSUME NEW a \in Ids, TerminalizePersist(a) PROVE FilesInv'
  <2>1. a \in dirs /\ env[a] = owner[a]
    BY <1>14, <1>c DEF TerminalizePersist, MemoryInv
  <2>2. \A b \in Ids : rcpt'[b] = rcpt[b] \/ (b = a /\ rcpt'[b].env = env[a])
    BY <1>14, <1>b DEF TerminalizePersist, PersistReceipt, PersistFails, MakeReceipt
  <2>3. UNCHANGED <<dirs, req, quar, owner>>
    BY <1>14 DEF TerminalizePersist
  <2> QED
    BY <1>a, <2>1, <2>2, <2>3 DEF FilesInv
<1>15. ASSUME NEW a \in Ids, ReconcileQuarantine(a) PROVE FilesInv'
  <2>1. CASE WriteTombstone(a, owner[a])
    <3>1. quar[a] # NoFile /\ owner[a] \in Envs
      BY <1>15 DEF ReconcileQuarantine
    <3>2. /\ quar'[a].tomb = owner[a] /\ quar'[a].req = quar[a].req
          /\ quar'[a].rcpt = quar[a].rcpt /\ \A b \in Ids : b # a => quar'[b] = quar[b]
      BY <1>a, <2>1, <3>1, QuarUpdate DEF WriteTombstone
    <3> QED
      BY <1>15, <1>a, <3>1, <3>2 DEF ReconcileQuarantine, FilesInv
  <2>2. CASE UNCHANGED quar
    BY <1>15, <1>a, <2>2 DEF ReconcileQuarantine, FilesInv
  <2> QED
    BY <1>15, <2>1, <2>2 DEF ReconcileQuarantine
<1>16. ASSUME NEW a \in Ids, ReconcileUnmark(a) PROVE FilesInv'
  BY <1>16, <1>a DEF ReconcileUnmark, FilesInv
<1>17. ASSUME NEW a \in Ids, Rot(a) PROVE FilesInv'
  <2>1. UNCHANGED <<dirs, owner>> /\ up = "down"
    BY <1>17 DEF Rot
  <2>2. \A b \in Ids : /\ req'[b] = req[b] \/ (req'[b] = Bad /\ req[b] # NoFile)
                       /\ rcpt'[b] = rcpt[b] \/ (rcpt'[b] = Bad /\ rcpt[b] # NoFile)
    BY <1>17, <1>b DEF Rot
  <2>3. \A b \in Ids : \/ quar'[b] = quar[b]
                       \/ /\ quar[b] # NoFile /\ quar'[b].rcpt = quar[b].rcpt
                          /\ \/ quar'[b].req = quar[b].req
                             \/ quar'[b].req = Bad /\ quar[b].req # NoFile
                          /\ quar'[b].tomb \in {quar[b].tomb, Bad}
    <3>1. Bad \in Envs \cup Absent
      BY DEF Absent
    <3>2. CASE quar[a] # NoFile /\ quar[a].req # NoFile /\ quar' = [quar EXCEPT ![a].req = Bad]
      BY <1>a, <3>1, <3>2, QuarUpdate
    <3>3. CASE quar[a] # NoFile /\ quar' = [quar EXCEPT ![a].tomb = Bad]
      BY <1>a, <3>1, <3>3, QuarUpdate
    <3> QED
      BY <1>17, <3>2, <3>3 DEF Rot
  <2> QED
    BY <1>a, <2>1, <2>2, <2>3 DEF FilesInv, Absent
<1>18. ASSUME NEW a \in Ids, LoadDir(a) PROVE FilesInv'
  BY <1>18, <1>a DEF LoadDir, Unusable, FilesInv
<1>19. ASSUME NEW a \in Ids, QuarantineRename(a) PROVE FilesInv'
  <2>1. /\ quar'[a].req = req[a] /\ quar'[a].tomb = NoFile
        /\ quar'[a].rcpt = IF rcpt[a] \in Absent THEN rcpt[a] ELSE rcpt[a].env
        /\ \A b \in Ids : b # a => quar'[b] = quar[b]
    BY <1>19, RenamedDirectory
  <2>2. /\ req'[a] = NoFile /\ rcpt'[a] = NoFile
        /\ \A b \in Ids : b # a => req'[b] = req[b] /\ rcpt'[b] = rcpt[b]
        /\ dirs' = dirs \ {a} /\ UNCHANGED owner
    BY <1>19, <1>b DEF QuarantineRename
  <2> QED
    BY <1>a, <2>1, <2>2 DEF FilesInv, Absent
<1>20. ASSUME NEW a \in Ids, QuarantineRefused(a) PROVE FilesInv'
  BY <1>20, <1>a DEF QuarantineRefused, FilesInv
<1>21. ASSUME NEW a \in Ids, QuarantineRecord(a) PROVE FilesInv'
  BY <1>21, <1>a DEF QuarantineRecord, Quarantining, FilesInv
<1>22. ASSUME NEW a \in Ids, QuarantineTombstone(a) PROVE FilesInv'
  <2>1. quar[a] # NoFile /\ quar[a].req # NoFile /\ RecoverIdentity(a) \in Envs
    BY <1>22, <1>c DEF QuarantineTombstone, Quarantining, QuarantineInv, RecoverIdentity
  <2>2. RecoverIdentity(a) = owner[a]
    BY <1>a, <2>1 DEF FilesInv, RecoverIdentity, Absent
  <2>3. CASE WriteTombstone(a, RecoverIdentity(a))
    <3>1. /\ quar'[a].tomb = owner[a] /\ quar'[a].req = quar[a].req
          /\ quar'[a].rcpt = quar[a].rcpt /\ \A b \in Ids : b # a => quar'[b] = quar[b]
      BY <1>a, <2>1, <2>2, <2>3, QuarUpdate DEF WriteTombstone
    <3> QED
      BY <1>22, <1>a, <2>1, <3>1 DEF QuarantineTombstone, FilesInv
  <2>4. CASE UNCHANGED quar
    BY <1>22, <1>a, <2>4 DEF QuarantineTombstone, FilesInv
  <2> QED
    BY <1>22, <2>3, <2>4 DEF QuarantineTombstone
<1>23. ASSUME NEW a \in Ids, QuarantineMark(a) PROVE FilesInv'
  BY <1>23, <1>a DEF QuarantineMark, Quarantining, FilesInv
<1>24. ASSUME Crash PROVE FilesInv'
  <2>1. UNCHANGED <<dirs, req, rcpt, owner>>
    BY <1>24 DEF Crash
  <2>2. CASE UNCHANGED quar
    BY <1>a, <2>1, <2>2 DEF FilesInv
  <2>3. CASE /\ q # NoFile /\ q.step = "record"
             /\ quar' = [quar EXCEPT ![q.id].litter = "tmp"]
    <3>1. q.id \in Ids /\ quar[q.id] # NoFile
      BY <1>c, <2>3 DEF QuarantineInv, TypeOK, ServiceTypeOK
    <3>2. Bad \in Envs \cup Absent
      BY DEF Absent
    <3>3. /\ quar'[q.id].tomb = quar[q.id].tomb /\ quar'[q.id].req = quar[q.id].req
          /\ quar'[q.id].rcpt = quar[q.id].rcpt
          /\ \A b \in Ids : b # q.id => quar'[b] = quar[b]
      BY <1>a, <2>3, <3>1, <3>2, QuarUpdate
    <3> QED
      BY <1>a, <2>1, <3>1, <3>3 DEF FilesInv
  <2> QED
    BY <1>24, <2>2, <2>3 DEF Crash
<1>25. ASSUME Restart PROVE FilesInv'
  BY <1>25, <1>a DEF Restart, Tombstoned, Unprotected, FilesInv
<1>26. ASSUME LoadDone PROVE FilesInv'
  BY <1>26, <1>a DEF LoadDone, FilesInv
<1>27. CASE UNCHANGED vars
  BY <1>27, <1>a DEF vars, FilesInv
<1> QED
  BY <1>1, <1>2, <1>3, <1>4, <1>5, <1>6, <1>7, <1>8, <1>9, <1>10, <1>11, <1>12, <1>13,
     <1>14, <1>15, <1>16, <1>17, <1>18, <1>19, <1>20, <1>21, <1>22, <1>23, <1>24, <1>25,
     <1>26, <1>27
     DEF Next, Started, Executing, Serving, Loading, Statuses

\* Memory keeps agreeing with the files.
LEMMA MemoryStep == TypeOK /\ IdentityInv /\ [Next]_vars => MemoryInv'
<1> SUFFICES ASSUME TypeOK, IdentityInv, [Next]_vars PROVE MemoryInv'
  OBVIOUS
<1>a. ServiceTypeOK /\ MemoryInv
  BY DEF TypeOK, IdentityInv
<1>b. /\ req \in [Ids -> Envs \cup Absent] /\ env \in [Ids -> Envs \cup {NoFile}]
      /\ owner \in [Ids -> Envs \cup {NoFile}] /\ thread \in [Ids -> Threads]
  BY DEF TypeOK, DiskTypeOK, RunsTypeOK, ServiceTypeOK, HistoryTypeOK
<1> USE ConstantsAssumption DEF disk, loadVars, runVars, deadVars, execVars, history
<1>1. ASSUME NEW a \in Ids, NEW e \in Envs, Start(a, e) PROVE MemoryInv'
  <2>1. a \notin runs /\ up = "ready" /\ dirs' = dirs \cup {a}
    BY <1>1, <1>a DEF Start, Ready, NewIdentity, MemoryInv
  <2>2. owner'[a] = e /\ \A b \in Ids : b # a => owner'[b] = owner[b]
    BY <1>1, <1>b DEF Start
  <2>3. svc'.op = "request" /\ svc'.id = a /\ svc'.arg = e
    BY <1>1 DEF Start
  <2>4. runs \subseteq Ids
    BY DEF TypeOK, RunsTypeOK
  <2> QED
    BY <1>1, <1>a, <2>1, <2>2, <2>3, <2>4 DEF Start, MemoryInv
<1>2. ASSUME NEW a \in Ids, StartRequest(a) PROVE MemoryInv'
  <2>1. up = "ready" /\ a \in dirs /\ svc.arg = owner[a] /\ todo = {}
    BY <1>2, <1>a DEF StartRequest, MemoryInv
  <2>2. owner[a] \in Envs
    BY <1>2, <1>a, <2>1 DEF StartRequest, ServiceTypeOK
  <2>3. /\ req'[a] = owner[a] /\ env'[a] = owner[a]
        /\ \A b \in Ids : b # a => req'[b] = req[b] /\ env'[b] = env[b]
    BY <1>2, <1>b, <2>1 DEF StartRequest
  <2>4. svc'.op = "admit" /\ svc'.id = a
    BY <1>2, <1>a DEF StartRequest, ServiceTypeOK
  <2>5. runs \subseteq Ids
    BY DEF TypeOK, RunsTypeOK
  <2> QED
    BY <1>2, <1>a, <2>1, <2>2, <2>3, <2>4, <2>5 DEF StartRequest, MemoryInv
<1>3. ASSUME NEW a \in Ids, StartRequestFails(a) PROVE MemoryInv'
  <2>1. a \in dirs /\ svc.arg = owner[a] /\ runs \subseteq Ids
    BY <1>3, <1>a DEF StartRequestFails, MemoryInv, TypeOK, RunsTypeOK
  <2>2. /\ req'[a] \in {req[a], owner[a]}
        /\ \A b \in Ids : b # a => req'[b] = req[b]
    BY <1>3, <1>b, <2>1 DEF StartRequestFails
  <2> QED
    BY <1>3, <1>a, <2>1, <2>2 DEF StartRequestFails, MemoryInv
<1>4. ASSUME NEW a \in Ids, StartAdmit(a) PROVE MemoryInv'
  <2>1. a \in runs /\ up = "ready"
    BY <1>4, <1>a DEF StartAdmit, MemoryInv
  <2>2. \A b \in Ids : b # a => thread'[b] = thread[b]
    BY <1>4, <1>b DEF StartAdmit
  <2> QED
    BY <1>4, <1>a, <2>1, <2>2 DEF StartAdmit, MemoryInv
<1>5. ASSUME NEW a \in Ids, NEW s \in Statuses, PrepareFails(a, s) PROVE MemoryInv'
  BY <1>5, <1>a DEF PrepareFails, Conclude, MemoryInv
<1>6. ASSUME NEW a \in Ids, Arm(a) PROVE MemoryInv'
  <2>1. a \in runs /\ up = "ready"
    BY <1>6, <1>a DEF Arm, MemoryInv
  <2>2. \A b \in Ids : b # a => thread'[b] = thread[b]
    BY <1>6, <1>b DEF Arm, Conclude
  <2>3. svc # NoFile /\ svc.op = "admit" => svc.id \in Ids /\ svc.id # a
    BY <1>6, <1>a DEF Arm, MemoryInv, ServiceTypeOK
  <2> QED
    BY <1>6, <1>a, <2>1, <2>2, <2>3 DEF Arm, MemoryInv
<1>7. ASSUME NEW a \in Ids, Launch(a) PROVE MemoryInv'
  BY <1>7, <1>a DEF Launch, MemoryInv
<1>8. ASSUME NEW a \in Ids, NEW s \in Statuses, EndRun(a, s) PROVE MemoryInv'
  BY <1>8, <1>a DEF EndRun, Conclude, MemoryInv
<1>9. ASSUME NEW a \in Ids, Finish(a) PROVE MemoryInv'
  <2>1. a \in runs /\ up = "ready"
    BY <1>9, <1>a DEF Finish, MemoryInv
  <2>2. \A b \in Ids : b # a => thread'[b] = thread[b]
    BY <1>9, <1>b DEF Finish
  <2>3. svc # NoFile /\ svc.op = "admit" => svc.id \in Ids /\ svc.id # a
    BY <1>9, <1>a DEF Finish, MemoryInv, ServiceTypeOK
  <2> QED
    BY <1>9, <1>a, <2>1, <2>2, <2>3 DEF Finish, MemoryInv
<1>10. ASSUME NEW a \in Ids, Persist(a) PROVE MemoryInv'
  BY <1>10, <1>a DEF Persist, PersistReceipt, PersistFails, MakeReceipt, MemoryInv
<1>11. ASSUME NEW a \in Ids, Cancel(a) PROVE MemoryInv'
  BY <1>11, <1>a DEF Cancel, Unlocked, Ready, MemoryInv
<1>12. ASSUME NEW a \in Ids, ShowReceipt(a) PROVE MemoryInv'
  BY <1>12, <1>a DEF ShowReceipt, MemoryInv
<1>13. ASSUME NEW a \in Ids, NEW s \in Statuses, Terminalize(a, s) PROVE MemoryInv'
  BY <1>13, <1>a DEF Terminalize, Unlocked, Ready, MemoryInv
<1>14. ASSUME NEW a \in Ids, TerminalizePersist(a) PROVE MemoryInv'
  BY <1>14, <1>a DEF TerminalizePersist, PersistReceipt, PersistFails, MakeReceipt,
     MemoryInv
<1>15. ASSUME NEW a \in Ids, ReconcileQuarantine(a) PROVE MemoryInv'
  BY <1>15, <1>a DEF ReconcileQuarantine, Ready, WriteTombstone, RegisterTombstone,
     MemoryInv
<1>16. ASSUME NEW a \in Ids, ReconcileUnmark(a) PROVE MemoryInv'
  BY <1>16, <1>a DEF ReconcileUnmark, MemoryInv
<1>17. ASSUME NEW a \in Ids, Rot(a) PROVE MemoryInv'
  BY <1>17, <1>a DEF Rot, MemoryInv
<1>18. ASSUME NEW a \in Ids, LoadDir(a) PROVE MemoryInv'
  <2>1. req[a] = owner[a] /\ owner[a] \in Envs /\ a \in dirs
    BY <1>18, <1>a, <1>b DEF LoadDir, Unusable, MemoryInv, IdentityInv, FilesInv, Absent
  <2>2. env'[a] = req[a] /\ \A b \in Ids : b # a => env'[b] = env[b]
    BY <1>18, <1>b DEF LoadDir
  <2>3. runs \subseteq Ids
    BY DEF TypeOK, RunsTypeOK
  <2> QED
    BY <1>18, <1>a, <2>1, <2>2, <2>3 DEF LoadDir, MemoryInv
<1>19. ASSUME NEW a \in Ids, QuarantineRename(a) PROVE MemoryInv'
  BY <1>19, <1>a DEF QuarantineRename, Unusable, MemoryInv
<1>20. ASSUME NEW a \in Ids, QuarantineRefused(a) PROVE MemoryInv'
  BY <1>20, <1>a DEF QuarantineRefused, MemoryInv
<1>21. ASSUME NEW a \in Ids, QuarantineRecord(a) PROVE MemoryInv'
  BY <1>21, <1>a DEF QuarantineRecord, Quarantining, MemoryInv
<1>22. ASSUME NEW a \in Ids, QuarantineTombstone(a) PROVE MemoryInv'
  BY <1>22, <1>a DEF QuarantineTombstone, Quarantining, WriteTombstone,
     RegisterTombstone, QuarantineInv, MemoryInv
<1>23. ASSUME NEW a \in Ids, QuarantineMark(a) PROVE MemoryInv'
  BY <1>23, <1>a DEF QuarantineMark, Quarantining, MemoryInv
<1>24. ASSUME Crash PROVE MemoryInv'
  BY <1>24, <1>a DEF Crash, Blank, MemoryInv
<1>25. ASSUME Restart PROVE MemoryInv'
  BY <1>25, <1>a DEF Restart, Tombstoned, Unprotected, MemoryInv
<1>26. ASSUME LoadDone PROVE MemoryInv'
  BY <1>26, <1>a DEF LoadDone, MemoryInv
<1>27. CASE UNCHANGED vars
  BY <1>27, <1>a DEF vars, MemoryInv
<1> QED
  BY <1>1, <1>2, <1>3, <1>4, <1>5, <1>6, <1>7, <1>8, <1>9, <1>10, <1>11, <1>12, <1>13,
     <1>14, <1>15, <1>16, <1>17, <1>18, <1>19, <1>20, <1>21, <1>22, <1>23, <1>24, <1>25,
     <1>26, <1>27
     DEF Next, Started, Executing, Serving, Loading, Statuses

\* Every used identity stays protected, as long as the quarantine record can
\* be written.
LEMMA ProtectedStep ==
    "qrecord" \notin IOFaults /\ TypeOK /\ IdentityInv /\ [Next]_vars => ProtectedInv'
<1> SUFFICES ASSUME "qrecord" \notin IOFaults, TypeOK, IdentityInv, [Next]_vars PROVE ProtectedInv'
  OBVIOUS
<1>a. ServiceTypeOK /\ ProtectedInv
  BY DEF TypeOK, IdentityInv
<1>b. /\ req \in [Ids -> Envs \cup Absent] /\ quar \in [Ids -> Quars \cup {NoFile}]
      /\ owner \in [Ids -> Envs \cup {NoFile}] /\ DiskTypeOK
  BY DEF TypeOK, DiskTypeOK, HistoryTypeOK
<1>c. FilesInv /\ MemoryInv /\ QuarantineInv
  BY DEF IdentityInv
<1> USE ConstantsAssumption DEF disk, loadVars, deadVars, history
<1>1. ASSUME NEW a \in Ids, NEW e \in Envs, Start(a, e) PROVE ProtectedInv'
  <2>1. /\ \A b \in Ids : Claimed(b)' => b # a /\ Claimed(b)
        /\ \A b \in Ids : b # a => owner'[b] = owner[b]
    BY <1>1, <1>b, <1>c, AdmittedIsFresh DEF Start, NewIdentity, Claimed, FilesInv
  <2> QED
    BY <1>1, <1>a, <2>1 DEF Start, Ready, ProtectedInv, Protected
<1>2. ASSUME NEW a \in Ids, StartRequest(a) PROVE ProtectedInv'
  <2>1. a \in dirs /\ req'[a] = owner[a] /\ \A b \in Ids : b # a => req'[b] = req[b]
    BY <1>2, <1>b, <1>c DEF StartRequest, MemoryInv
  <2> QED
    BY <1>2, <1>a, <2>1 DEF StartRequest, ProtectedInv, Claimed, Protected
<1>3. ASSUME NEW a \in Ids, StartRequestFails(a) PROVE ProtectedInv'
  <2>1. /\ a \in dirs /\ req'[a] \in {req[a], owner[a]}
        /\ \A b \in Ids : b # a => req'[b] = req[b]
    BY <1>3, <1>b, <1>c DEF StartRequestFails, MemoryInv
  <2> QED
    BY <1>3, <1>a, <2>1 DEF StartRequestFails, ProtectedInv, Claimed, Protected
<1>4. ASSUME NEW a \in Ids, StartAdmit(a) PROVE ProtectedInv'
  BY <1>4, <1>a DEF StartAdmit, ProtectedInv, Claimed, Protected
<1>5. ASSUME NEW a \in Ids, NEW s \in Statuses, PrepareFails(a, s) PROVE ProtectedInv'
  BY <1>5, <1>a DEF PrepareFails, Conclude, ProtectedInv, Claimed, Protected
<1>6. ASSUME NEW a \in Ids, Arm(a) PROVE ProtectedInv'
  BY <1>6, <1>a DEF Arm, Conclude, ProtectedInv, Claimed, Protected
<1>7. ASSUME NEW a \in Ids, Launch(a) PROVE ProtectedInv'
  BY <1>7, <1>a DEF Launch, ProtectedInv, Claimed, Protected
<1>8. ASSUME NEW a \in Ids, NEW s \in Statuses, EndRun(a, s) PROVE ProtectedInv'
  BY <1>8, <1>a DEF EndRun, Conclude, ProtectedInv, Claimed, Protected
<1>9. ASSUME NEW a \in Ids, Finish(a) PROVE ProtectedInv'
  BY <1>9, <1>a DEF Finish, ProtectedInv, Claimed, Protected
<1>10. ASSUME NEW a \in Ids, Persist(a) PROVE ProtectedInv'
  BY <1>10, <1>a DEF Persist, PersistReceipt, PersistFails, MakeReceipt, ProtectedInv,
     Claimed, Protected
<1>11. ASSUME NEW a \in Ids, Cancel(a) PROVE ProtectedInv'
  BY <1>11, <1>a DEF Cancel, Unlocked, Ready, ProtectedInv, Claimed, Protected
<1>12. ASSUME NEW a \in Ids, ShowReceipt(a) PROVE ProtectedInv'
  BY <1>12, <1>a DEF ShowReceipt, ProtectedInv, Claimed, Protected
<1>13. ASSUME NEW a \in Ids, NEW s \in Statuses, Terminalize(a, s) PROVE ProtectedInv'
  BY <1>13, <1>a DEF Terminalize, Unlocked, Ready, ProtectedInv, Claimed, Protected
<1>14. ASSUME NEW a \in Ids, TerminalizePersist(a) PROVE ProtectedInv'
  BY <1>14, <1>a DEF TerminalizePersist, PersistReceipt, PersistFails, MakeReceipt,
     ProtectedInv, Claimed, Protected
<1>15. ASSUME NEW a \in Ids, ReconcileQuarantine(a) PROVE ProtectedInv'
  <2>1. \A b \in Ids : b # a => quar'[b] = quar[b]
    BY <1>15, <1>b DEF ReconcileQuarantine, WriteTombstone
  <2>2. /\ a \in tombIds' /\ owner[a] \in tombEnvs'
        /\ tombIds \subseteq tombIds' /\ tombEnvs \subseteq tombEnvs'
    BY <1>15 DEF ReconcileQuarantine, RegisterTombstone
  <2> QED
    BY <1>15, <1>a, <2>1, <2>2 DEF ReconcileQuarantine, ProtectedInv, Claimed, Protected
<1>16. ASSUME NEW a \in Ids, ReconcileUnmark(a) PROVE ProtectedInv'
  <2>1. a \in tombIds /\ owner[a] \in tombEnvs
    BY <1>16, <1>c DEF ReconcileUnmark, MemoryInv
  <2> QED
    BY <1>16, <1>a, <2>1 DEF ReconcileUnmark, ProtectedInv, Claimed, Protected
<1>17. ASSUME NEW a \in Ids, Rot(a) PROVE ProtectedInv'
  BY <1>17, <1>a DEF Rot, ProtectedInv, Claimed, Protected
<1>18. ASSUME NEW a \in Ids, LoadDir(a) PROVE ProtectedInv'
  <2>1. req[a] = owner[a] /\ a \in dirs
    BY <1>18, <1>b, <1>c DEF LoadDir, Unusable, MemoryInv, FilesInv, Absent
  <2> QED
    BY <1>18, <1>a, <2>1 DEF LoadDir, ProtectedInv, Claimed, Protected
<1>19. ASSUME NEW a \in Ids, QuarantineRename(a) PROVE ProtectedInv'
  <2>1. /\ \A b \in Ids : b # a => quar'[b] = quar[b] /\ req'[b] = req[b]
        /\ dirs' = dirs \ {a} /\ q' # NoFile /\ q'.id = a
    BY <1>19, <1>b, RenamedDirectory DEF QuarantineRename, Steps
  <2> QED
    BY <1>19, <1>a, <2>1 DEF QuarantineRename, ProtectedInv, Claimed, Protected
<1>20. ASSUME NEW a \in Ids, QuarantineRefused(a) PROVE ProtectedInv'
  <2>1. q' # NoFile /\ q'.id = a
    BY <1>20 DEF QuarantineRefused, Steps
  <2> QED
    BY <1>20, <1>a, <2>1 DEF QuarantineRefused, ProtectedInv, Claimed, Protected
<1>21. ASSUME NEW a \in Ids, QuarantineRecord(a) PROVE ProtectedInv'
  <2>1. quar[a] # NoFile /\ quar[a].tomb = NoFile /\ a \notin dirs
    BY <1>21, <1>c DEF QuarantineRecord, Quarantining, QuarantineInv
  <2>2. quar[a].req = NoFile \/ (q' # NoFile /\ q'.id = a)
    BY <1>21 DEF QuarantineRecord, Fault, Steps
  <2> QED
    BY <1>21, <1>a, <2>1, <2>2 DEF QuarantineRecord, Quarantining, ProtectedInv, Claimed,
       Protected
<1>22. ASSUME NEW a \in Ids, QuarantineTombstone(a) PROVE ProtectedInv'
  <2>1. quar[a] # NoFile /\ quar[a].req # NoFile /\ RecoverIdentity(a) \in Envs
    BY <1>22, <1>c DEF QuarantineTombstone, Quarantining, QuarantineInv, RecoverIdentity
  <2>2. RecoverIdentity(a) = owner[a]
    BY <1>c, <2>1 DEF FilesInv, RecoverIdentity, Absent
  <2>3. /\ a \in tombIds' /\ owner[a] \in tombEnvs'
        /\ tombIds \subseteq tombIds' /\ tombEnvs \subseteq tombEnvs' /\ amb \subseteq amb'
    BY <1>22, <2>2 DEF QuarantineTombstone, RegisterTombstone
  <2>4. \A b \in Ids : b # a => quar'[b] = quar[b]
    BY <1>22, <1>b DEF QuarantineTombstone, WriteTombstone
  <2> QED
    BY <1>22, <1>a, <2>3, <2>4 DEF QuarantineTombstone, Quarantining, ProtectedInv, Claimed,
       Protected
<1>23. ASSUME NEW a \in Ids, QuarantineMark(a) PROVE ProtectedInv'
  BY <1>23, <1>a DEF QuarantineMark, Quarantining, ProtectedInv, Claimed, Protected
<1>24. ASSUME Crash PROVE ProtectedInv'
  BY <1>24, <1>a DEF Crash, Blank, ProtectedInv, Claimed, Protected
<1>25. ASSUME Restart PROVE ProtectedInv'
  <2>1. ASSUME NEW b \in Ids, Claimed(b)' PROVE Protected(b)'
    <3>1. CASE b \in dirs
      BY <1>25, <3>1 DEF Restart, Protected
    <3>2. CASE quar[b] # NoFile /\ quar[b].tomb \in Envs
      BY <1>25, <1>c, <3>2 DEF Restart, Protected, Tombstoned, FilesInv, Absent
    <3>3. CASE b \notin dirs /\ ~(quar[b] # NoFile /\ quar[b].tomb \in Envs)
      <4>1. quar[b] # NoFile /\ quar[b].tomb \in Absent
        BY <1>25, <1>b, <2>1, <3>3 DEF Restart, Claimed, Quars
      <4> QED
        BY <1>25, <2>1, <3>3, <4>1 DEF Restart, Protected, Claimed, Unprotected, Absent
    <3> QED
      BY <3>1, <3>2, <3>3
  <2> QED
    BY <2>1 DEF ProtectedInv
<1>26. ASSUME LoadDone PROVE ProtectedInv'
  BY <1>26, <1>a DEF LoadDone, ProtectedInv, Claimed, Protected
<1>27. CASE UNCHANGED vars
  BY <1>27, <1>a DEF vars, ProtectedInv, Claimed, Protected
<1> QED
  BY <1>1, <1>2, <1>3, <1>4, <1>5, <1>6, <1>7, <1>8, <1>9, <1>10, <1>11, <1>12, <1>13,
     <1>14, <1>15, <1>16, <1>17, <1>18, <1>19, <1>20, <1>21, <1>22, <1>23, <1>24, <1>25,
     <1>26, <1>27
     DEF Next, Started, Executing, Serving, Loading, Statuses

\* Durable evidence that an identity was used is never lost.
LEMMA EvidenceStays == TypeOK /\ IdentityInv /\ [Next]_vars =>
    \A b \in Ids : Claimed(b) => Claimed(b)'
<1> DEFINE Evidence == \A b \in Ids : Claimed(b) => Claimed(b)'
<1> SUFFICES ASSUME TypeOK, IdentityInv, [Next]_vars PROVE Evidence
  OBVIOUS
<1>a. DiskTypeOK /\ FilesInv /\ MemoryInv /\ QuarantineInv
  BY DEF TypeOK, IdentityInv
<1>b. req \in [Ids -> Envs \cup Absent] /\ quar \in [Ids -> Quars \cup {NoFile}]
  BY DEF TypeOK, DiskTypeOK
<1> USE ConstantsAssumption DEF disk
<1>1. ASSUME NEW a \in Ids, NEW e \in Envs, Start(a, e) PROVE Evidence
  BY <1>1, <1>a DEF Start, Ready, Claimed
<1>2. ASSUME NEW a \in Ids, StartRequest(a) PROVE Evidence
  <2>1. svc.arg # NoFile
    BY <1>2 DEF StartRequest, TypeOK, ServiceTypeOK
  <2> QED
    BY <1>2, <1>b, <2>1 DEF StartRequest, Claimed
<1>3. ASSUME NEW a \in Ids, StartRequestFails(a) PROVE Evidence
  <2>1. svc.arg # NoFile
    BY <1>3 DEF StartRequestFails, TypeOK, ServiceTypeOK
  <2> QED
    BY <1>3, <1>b, <2>1 DEF StartRequestFails, Claimed
<1>4. ASSUME NEW a \in Ids, StartAdmit(a) PROVE Evidence
  BY <1>4, <1>a DEF StartAdmit, Claimed
<1>5. ASSUME NEW a \in Ids, NEW s \in Statuses, PrepareFails(a, s) PROVE Evidence
  BY <1>5, <1>a DEF PrepareFails, Conclude, Claimed
<1>6. ASSUME NEW a \in Ids, Arm(a) PROVE Evidence
  BY <1>6, <1>a DEF Arm, Conclude, Claimed
<1>7. ASSUME NEW a \in Ids, Launch(a) PROVE Evidence
  BY <1>7, <1>a DEF Launch, Claimed
<1>8. ASSUME NEW a \in Ids, NEW s \in Statuses, EndRun(a, s) PROVE Evidence
  BY <1>8, <1>a DEF EndRun, Conclude, Claimed
<1>9. ASSUME NEW a \in Ids, Finish(a) PROVE Evidence
  BY <1>9, <1>a DEF Finish, Claimed
<1>10. ASSUME NEW a \in Ids, Persist(a) PROVE Evidence
  BY <1>10, <1>a DEF Persist, PersistReceipt, PersistFails, MakeReceipt, Claimed
<1>11. ASSUME NEW a \in Ids, Cancel(a) PROVE Evidence
  BY <1>11, <1>a DEF Cancel, Unlocked, Ready, Claimed
<1>12. ASSUME NEW a \in Ids, ShowReceipt(a) PROVE Evidence
  BY <1>12, <1>a DEF ShowReceipt, Claimed
<1>13. ASSUME NEW a \in Ids, NEW s \in Statuses, Terminalize(a, s) PROVE Evidence
  BY <1>13, <1>a DEF Terminalize, Unlocked, Ready, Claimed
<1>14. ASSUME NEW a \in Ids, TerminalizePersist(a) PROVE Evidence
  BY <1>14, <1>a DEF TerminalizePersist, PersistReceipt, PersistFails, MakeReceipt,
     Claimed
<1>15. ASSUME NEW a \in Ids, ReconcileQuarantine(a) PROVE Evidence
  <2>1. CASE WriteTombstone(a, owner[a])
    <3>1. quar[a] # NoFile /\ owner[a] \in Envs
      BY <1>15 DEF ReconcileQuarantine
    <3>2. /\ quar'[a] # NoFile /\ quar'[a].tomb = owner[a]
          /\ \A b \in Ids : b # a => quar'[b] = quar[b]
      BY <1>a, <2>1, <3>1, QuarUpdate DEF WriteTombstone
    <3> QED
      BY <1>15, <3>1, <3>2 DEF ReconcileQuarantine, Claimed
  <2>2. CASE UNCHANGED quar
    BY <1>15, <2>2 DEF ReconcileQuarantine, Claimed
  <2> QED
    BY <1>15, <2>1, <2>2 DEF ReconcileQuarantine
<1>16. ASSUME NEW a \in Ids, ReconcileUnmark(a) PROVE Evidence
  BY <1>16, <1>a DEF ReconcileUnmark, Claimed
<1>17. ASSUME NEW a \in Ids, Rot(a) PROVE Evidence
  <2>1. Bad \in Envs \cup Absent
    BY DEF Absent
  <2>2. CASE UNCHANGED quar
    BY <1>17, <1>b, <2>2 DEF Rot, Claimed
  <2>3. CASE quar[a] # NoFile /\ UNCHANGED req /\ quar' = [quar EXCEPT ![a].req = Bad]
    BY <1>17, <1>a, <2>1, <2>3, QuarUpdate DEF Rot, Claimed
  <2>4. CASE quar[a] # NoFile /\ UNCHANGED req /\ quar' = [quar EXCEPT ![a].tomb = Bad]
    BY <1>17, <1>a, <2>1, <2>4, QuarUpdate DEF Rot, Claimed
  <2> QED
    BY <1>17, <2>2, <2>3, <2>4 DEF Rot
<1>18. ASSUME NEW a \in Ids, LoadDir(a) PROVE Evidence
  BY <1>18, <1>a DEF LoadDir, Unusable, Claimed
<1>19. ASSUME NEW a \in Ids, QuarantineRename(a) PROVE Evidence
  <2>1. /\ quar'[a] # NoFile /\ quar'[a].req = req[a]
        /\ \A b \in Ids : b # a => quar'[b] = quar[b] /\ req'[b] = req[b]
    BY <1>19, <1>b, RenamedDirectory DEF QuarantineRename
  <2> QED
    BY <1>19, <2>1 DEF QuarantineRename, Claimed
<1>20. ASSUME NEW a \in Ids, QuarantineRefused(a) PROVE Evidence
  BY <1>20, <1>a DEF QuarantineRefused, Claimed
<1>21. ASSUME NEW a \in Ids, QuarantineRecord(a) PROVE Evidence
  BY <1>21, <1>a DEF QuarantineRecord, Quarantining, Claimed
<1>22. ASSUME NEW a \in Ids, QuarantineTombstone(a) PROVE Evidence
  <2>1. quar[a] # NoFile /\ RecoverIdentity(a) \in Envs
    BY <1>22, <1>a DEF QuarantineTombstone, Quarantining, QuarantineInv, RecoverIdentity
  <2>2. CASE WriteTombstone(a, RecoverIdentity(a))
    <3>1. /\ quar'[a] # NoFile /\ quar'[a].tomb = RecoverIdentity(a)
          /\ \A b \in Ids : b # a => quar'[b] = quar[b]
      BY <1>a, <2>1, <2>2, QuarUpdate DEF WriteTombstone
    <3> QED
      BY <1>22, <2>1, <3>1 DEF QuarantineTombstone, Claimed
  <2>3. CASE UNCHANGED quar
    BY <1>22, <2>3 DEF QuarantineTombstone, Claimed
  <2> QED
    BY <1>22, <2>2, <2>3 DEF QuarantineTombstone
<1>23. ASSUME NEW a \in Ids, QuarantineMark(a) PROVE Evidence
  BY <1>23, <1>a DEF QuarantineMark, Quarantining, Claimed
<1>24. ASSUME Crash PROVE Evidence
  <2>1. CASE UNCHANGED quar
    BY <1>24, <2>1 DEF Crash, Claimed
  <2>2. CASE /\ q # NoFile /\ q.step = "record"
             /\ quar' = [quar EXCEPT ![q.id].litter = "tmp"]
    <3>1. q.id \in Ids /\ quar[q.id] # NoFile /\ Bad \in Envs \cup Absent
      BY <1>a, <2>2 DEF QuarantineInv, TypeOK, ServiceTypeOK, Absent
    <3>2. /\ quar'[q.id] # NoFile
          /\ quar'[q.id].tomb = quar[q.id].tomb /\ quar'[q.id].req = quar[q.id].req
          /\ \A b \in Ids : b # q.id => quar'[b] = quar[b]
      BY <1>a, <2>2, <3>1, QuarUpdate
    <3> QED
      BY <1>24, <3>1, <3>2 DEF Crash, Claimed
  <2> QED
    BY <1>24, <2>1, <2>2 DEF Crash
<1>25. ASSUME Restart PROVE Evidence
  BY <1>25, <1>a DEF Restart, Tombstoned, Unprotected, Claimed
<1>26. ASSUME LoadDone PROVE Evidence
  BY <1>26, <1>a DEF LoadDone, Claimed
<1>27. CASE UNCHANGED vars
  BY <1>27, <1>a DEF vars, Claimed
<1> QED
  BY <1>1, <1>2, <1>3, <1>4, <1>5, <1>6, <1>7, <1>8, <1>9, <1>10, <1>11, <1>12, <1>13,
     <1>14, <1>15, <1>16, <1>17, <1>18, <1>19, <1>20, <1>21, <1>22, <1>23, <1>24, <1>25,
     <1>26, <1>27
     DEF Next, Started, Executing, Serving, Loading, Statuses

\* Used identities stay used, and admitted work stays new until handed over.
LEMMA WorkStep == TypeOK /\ IdentityInv /\ [Next]_vars => WorkInv'
<1> SUFFICES ASSUME TypeOK, IdentityInv, [Next]_vars PROVE WorkInv'
  OBVIOUS
<1>a. ServiceTypeOK /\ WorkInv /\ MemoryInv
  BY DEF TypeOK, IdentityInv
<1>b. /\ owner \in [Ids -> Envs \cup {NoFile}] /\ thread \in [Ids -> Threads]
      /\ handed \in [Ids -> Nat] /\ envHanded \in [Envs -> Nat]
  BY DEF TypeOK, ServiceTypeOK, HistoryTypeOK
<1>c. \A b \in Ids : Claimed(b) => Claimed(b)'
  BY EvidenceStays
<1> USE ConstantsAssumption DEF disk, loadVars, execVars, history
<1>1. ASSUME NEW a \in Ids, NEW e \in Envs, Start(a, e) PROVE WorkInv'
  <2>1. ~Claimed(a) /\ \A b \in Ids : Claimed(b) => owner[b] # e
    BY <1>1, AdmittedIsFresh
  <2>2. owner'[a] = e /\ \A b \in Ids : b # a => owner'[b] = owner[b]
    BY <1>1, <1>b DEF Start
  <2>3. svc = NoFile /\ svc'.op = "request" /\ svc'.id = a /\ UNCHANGED thread
    BY <1>1 DEF Start, Ready
  <2>4. handed[a] = 0 /\ envHanded[e] = 0 /\ UNCHANGED <<handed, envHanded>>
    BY <1>1, <1>a, <1>b, <2>1 DEF Start, WorkInv
  <2>5. \A b \in Ids : Pending(b)' /\ b # a => Pending(b) /\ owner[b] # e
    BY <1>1, <1>a, <2>3 DEF Pending, Start, NewIdentity, MemoryInv
  <2>6. a \in dirs' /\ dirs \subseteq dirs'
    BY <1>1 DEF Start
  <2> QED
    BY <1>a, <1>c, <2>1, <2>2, <2>4, <2>5, <2>6 DEF WorkInv
<1>2. ASSUME NEW a \in Ids, StartRequest(a) PROVE WorkInv'
  BY <1>2, <1>a, <1>c DEF StartRequest, WorkInv, Pending
<1>3. ASSUME NEW a \in Ids, StartRequestFails(a) PROVE WorkInv'
  BY <1>3, <1>a, <1>c DEF StartRequestFails, WorkInv, Pending
<1>4. ASSUME NEW a \in Ids, StartAdmit(a) PROVE WorkInv'
  <2>1. \A b \in Ids : Pending(b)' => Pending(b)
    BY <1>4, <1>b DEF StartAdmit, Pending
  <2> QED
    BY <1>4, <1>a, <1>c, <2>1 DEF StartAdmit, WorkInv
<1>5. ASSUME NEW a \in Ids, NEW s \in Statuses, PrepareFails(a, s) PROVE WorkInv'
  BY <1>5, <1>a, <1>c DEF PrepareFails, Conclude, WorkInv, Pending
<1>6. ASSUME NEW a \in Ids, Arm(a) PROVE WorkInv'
  <2>1. \A b \in Ids : Pending(b)' => Pending(b)
    BY <1>6, <1>b DEF Arm, Conclude, Pending
  <2>2. CASE UNCHANGED <<handed, envHanded>>
    BY <1>6, <1>a, <1>c, <2>1, <2>2 DEF Arm, WorkInv
  <2>3. CASE /\ thread' = [thread EXCEPT ![a] = "armed"]
             /\ handed' = [handed EXCEPT ![a] = @ + 1]
             /\ envHanded' = [envHanded EXCEPT ![env[a]] = @ + 1]
    <3>1. env[a] = owner[a] /\ owner[a] \in Envs /\ a \in dirs /\ req[a] = owner[a]
      BY <1>6, <1>a DEF Arm, MemoryInv
    <3>2. Claimed(a)
      BY <3>1 DEF Claimed
    <3>3. Pending(a) /\ \A b \in Ids : Pending(b) /\ b # a => owner[b] # owner[a]
      BY <1>6, <1>a DEF Arm, Pending, WorkInv
    <3>4. ~Pending(a)'
      <4>1. ~(svc # NoFile /\ svc.op \in {"request", "admit"} /\ svc.id = a)
        BY <1>6, <1>a DEF Arm, MemoryInv
      <4> QED
        BY <1>6, <1>b, <2>3, <4>1 DEF Arm, Pending
    <3>5. /\ handed'[a] = handed[a] + 1 /\ \A b \in Ids : b # a => handed'[b] = handed[b]
          /\ \A x \in Envs : x # owner[a] => envHanded'[x] = envHanded[x]
      BY <1>b, <2>3, <3>1
    <3>6. handed[a] \in Nat
      BY <1>b
    <3> QED
      BY <1>6, <1>a, <1>c, <2>1, <3>2, <3>3, <3>4, <3>5, <3>6 DEF Arm, WorkInv
  <2> QED
    BY <1>6, <2>2, <2>3 DEF Arm
<1>7. ASSUME NEW a \in Ids, Launch(a) PROVE WorkInv'
  BY <1>7, <1>a, <1>c DEF Launch, WorkInv, Pending
<1>8. ASSUME NEW a \in Ids, NEW s \in Statuses, EndRun(a, s) PROVE WorkInv'
  BY <1>8, <1>a, <1>c DEF EndRun, Conclude, WorkInv, Pending
<1>9. ASSUME NEW a \in Ids, Finish(a) PROVE WorkInv'
  <2>1. \A b \in Ids : Pending(b)' => Pending(b)
    BY <1>9, <1>b DEF Finish, Pending
  <2> QED
    BY <1>9, <1>a, <1>c, <2>1 DEF Finish, WorkInv
<1>10. ASSUME NEW a \in Ids, Persist(a) PROVE WorkInv'
  BY <1>10, <1>a, <1>c DEF Persist, PersistReceipt, PersistFails, MakeReceipt, WorkInv,
     Pending
<1>11. ASSUME NEW a \in Ids, Cancel(a) PROVE WorkInv'
  BY <1>11, <1>a, <1>c DEF Cancel, Unlocked, Ready, WorkInv, Pending
<1>12. ASSUME NEW a \in Ids, ShowReceipt(a) PROVE WorkInv'
  BY <1>12, <1>a, <1>c DEF ShowReceipt, WorkInv, Pending
<1>13. ASSUME NEW a \in Ids, NEW s \in Statuses, Terminalize(a, s) PROVE WorkInv'
  BY <1>13, <1>a, <1>c DEF Terminalize, Unlocked, Ready, WorkInv, Pending
<1>14. ASSUME NEW a \in Ids, TerminalizePersist(a) PROVE WorkInv'
  BY <1>14, <1>a, <1>c DEF TerminalizePersist, PersistReceipt, PersistFails, MakeReceipt,
     WorkInv, Pending
<1>15. ASSUME NEW a \in Ids, ReconcileQuarantine(a) PROVE WorkInv'
  BY <1>15, <1>a, <1>c DEF ReconcileQuarantine, Ready, WriteTombstone, RegisterTombstone,
     WorkInv, Pending
<1>16. ASSUME NEW a \in Ids, ReconcileUnmark(a) PROVE WorkInv'
  BY <1>16, <1>a, <1>c DEF ReconcileUnmark, WorkInv, Pending
<1>17. ASSUME NEW a \in Ids, Rot(a) PROVE WorkInv'
  BY <1>17, <1>a, <1>c DEF Rot, WorkInv, Pending
<1>18. ASSUME NEW a \in Ids, LoadDir(a) PROVE WorkInv'
  BY <1>18, <1>a, <1>c DEF LoadDir, Unusable, WorkInv, Pending
<1>19. ASSUME NEW a \in Ids, QuarantineRename(a) PROVE WorkInv'
  <2>1. \A b \in Ids : ~Pending(b)'
    BY <1>19, <1>a DEF QuarantineRename, MemoryInv, Pending
  <2> QED
    BY <1>19, <1>a, <1>c, <2>1 DEF QuarantineRename, WorkInv
<1>20. ASSUME NEW a \in Ids, QuarantineRefused(a) PROVE WorkInv'
  BY <1>20, <1>a, <1>c DEF QuarantineRefused, WorkInv, Pending
<1>21. ASSUME NEW a \in Ids, QuarantineRecord(a) PROVE WorkInv'
  BY <1>21, <1>a, <1>c DEF QuarantineRecord, Quarantining, WorkInv, Pending
<1>22. ASSUME NEW a \in Ids, QuarantineTombstone(a) PROVE WorkInv'
  BY <1>22, <1>a, <1>c DEF QuarantineTombstone, Quarantining, WriteTombstone,
     RegisterTombstone, WorkInv, Pending
<1>23. ASSUME NEW a \in Ids, QuarantineMark(a) PROVE WorkInv'
  BY <1>23, <1>a, <1>c DEF QuarantineMark, Quarantining, WorkInv, Pending
<1>24. ASSUME Crash PROVE WorkInv'
  BY <1>24, <1>a, <1>c DEF Crash, Blank, WorkInv, Pending
<1>25. ASSUME Restart PROVE WorkInv'
  BY <1>25, <1>a, <1>c DEF Restart, Tombstoned, Unprotected, WorkInv, Pending
<1>26. ASSUME LoadDone PROVE WorkInv'
  BY <1>26, <1>a, <1>c DEF LoadDone, WorkInv, Pending
<1>27. CASE UNCHANGED vars
  BY <1>27, <1>a, <1>c DEF vars, WorkInv, Pending
<1> QED
  BY <1>1, <1>2, <1>3, <1>4, <1>5, <1>6, <1>7, <1>8, <1>9, <1>10, <1>11, <1>12, <1>13,
     <1>14, <1>15, <1>16, <1>17, <1>18, <1>19, <1>20, <1>21, <1>22, <1>23, <1>24, <1>25,
     <1>26, <1>27
     DEF Next, Started, Executing, Serving, Loading, Statuses

\* Work is handed to a runner in one place.
LEMMA OnlyArmHandsOver ==
    [Next]_vars => UNCHANGED <<handed, envHanded>> \/ \E a \in Ids : Arm(a)
  BY DEF Next, Started, Executing, Serving, Loading, vars, history, Start, StartRequest,
     StartRequestFails, StartAdmit, PrepareFails, Launch, EndRun, Finish, Persist, Cancel,
     ShowReceipt, Terminalize, TerminalizePersist, ReconcileQuarantine, ReconcileUnmark,
     Rot, LoadDir, QuarantineRename, QuarantineRefused, QuarantineRecord,
     QuarantineTombstone, QuarantineMark, Crash, Restart, LoadDone

\* Only handing work over counts, and only new work is handed over.
LEMMA NoDuplicateStep ==
    TypeOK /\ IdentityInv /\ NoDuplicateWork /\ [Next]_vars => NoDuplicateWork'
<1> SUFFICES ASSUME TypeOK, IdentityInv, NoDuplicateWork, [Next]_vars PROVE NoDuplicateWork'
  OBVIOUS
<1>1. CASE UNCHANGED <<handed, envHanded>>
  BY <1>1 DEF NoDuplicateWork, EnvelopeHandedOnce
<1>2. ASSUME NEW a \in Ids, Arm(a) PROVE NoDuplicateWork'
  <2>1. handed[a] = 0 /\ envHanded[owner[a]] = 0 /\ env[a] = owner[a]
    BY <1>2 DEF Arm, IdentityInv, WorkInv, Pending, MemoryInv
  <2>2. handed \in [Ids -> Nat] /\ envHanded \in [Envs -> Nat]
    BY DEF TypeOK, HistoryTypeOK
  <2> QED
    BY <1>2, <2>1, <2>2 DEF Arm, NoDuplicateWork, EnvelopeHandedOnce
<1>3. UNCHANGED <<handed, envHanded>> \/ \E a \in Ids : Arm(a)
  BY OnlyArmHandsOver
<1> QED
  BY <1>1, <1>2, <1>3

(***************************************************************************)
(* Admission, evidence and records.                                        *)
(***************************************************************************)
\* Pending work keeps the state root unambiguous, whichever writes fail.
LEMMA AdmissionStep == TypeOK /\ AdmissionInv /\ [Next]_vars => AdmissionInv'
<1> SUFFICES ASSUME TypeOK, AdmissionInv, [Next]_vars PROVE AdmissionInv'
  OBVIOUS
<1>a. thread \in [Ids -> Threads]
  BY DEF TypeOK, ServiceTypeOK
<1> USE DEF disk, loadVars, runVars, deadVars, execVars, history
<1>1. ASSUME NEW a \in Ids, NEW e \in Envs, Start(a, e) PROVE AdmissionInv'
  BY <1>1, <1>a DEF Start, Ready, NewIdentity, AdmissionInv, Pending
<1>2. ASSUME NEW a \in Ids, StartRequest(a) PROVE AdmissionInv'
  <2>1. svc'.op = "admit" /\ svc'.id = a /\ Pending(a)
    BY <1>2 DEF StartRequest, TypeOK, ServiceTypeOK, Pending
  <2> QED
    BY <1>2, <1>a, <2>1 DEF StartRequest, AdmissionInv, Pending
<1>3. ASSUME NEW a \in Ids, StartRequestFails(a) PROVE AdmissionInv'
  BY <1>3, <1>a DEF StartRequestFails, AdmissionInv, Pending
<1>4. ASSUME NEW a \in Ids, StartAdmit(a) PROVE AdmissionInv'
  BY <1>4, <1>a DEF StartAdmit, AdmissionInv, Pending
<1>5. ASSUME NEW a \in Ids, NEW s \in Statuses, PrepareFails(a, s) PROVE AdmissionInv'
  BY <1>5, <1>a DEF PrepareFails, Conclude, AdmissionInv, Pending
<1>6. ASSUME NEW a \in Ids, Arm(a) PROVE AdmissionInv'
  BY <1>6, <1>a DEF Arm, Conclude, AdmissionInv, Pending
<1>7. ASSUME NEW a \in Ids, Launch(a) PROVE AdmissionInv'
  BY <1>7, <1>a DEF Launch, AdmissionInv, Pending
<1>8. ASSUME NEW a \in Ids, NEW s \in Statuses, EndRun(a, s) PROVE AdmissionInv'
  BY <1>8, <1>a DEF EndRun, Conclude, AdmissionInv, Pending
<1>9. ASSUME NEW a \in Ids, Finish(a) PROVE AdmissionInv'
  BY <1>9, <1>a DEF Finish, AdmissionInv, Pending
<1>10. ASSUME NEW a \in Ids, Persist(a) PROVE AdmissionInv'
  BY <1>10, <1>a DEF Persist, AdmissionInv, Pending
<1>11. ASSUME NEW a \in Ids, Cancel(a) PROVE AdmissionInv'
  BY <1>11, <1>a DEF Cancel, Unlocked, Ready, AdmissionInv, Pending
<1>12. ASSUME NEW a \in Ids, ShowReceipt(a) PROVE AdmissionInv'
  BY <1>12, <1>a DEF ShowReceipt, AdmissionInv, Pending
<1>13. ASSUME NEW a \in Ids, NEW s \in Statuses, Terminalize(a, s) PROVE AdmissionInv'
  <2>1. UNCHANGED <<up, todo, q, runs, amb, thread>>
    BY <1>13 DEF Terminalize
  <2>2. \A b \in Ids : Pending(b)' => Pending(b)
    BY <1>13, <2>1 DEF Terminalize, Pending
  <2>3. up = "ready"
    BY <1>13 DEF Terminalize, Unlocked, Ready
  <2> QED
    BY <2>1, <2>2, <2>3 DEF AdmissionInv
<1>14. ASSUME NEW a \in Ids, TerminalizePersist(a) PROVE AdmissionInv'
  BY <1>14, <1>a DEF TerminalizePersist, AdmissionInv, Pending
<1>15. ASSUME NEW a \in Ids, ReconcileQuarantine(a) PROVE AdmissionInv'
  BY <1>15, <1>a DEF ReconcileQuarantine, Ready, AdmissionInv, Pending
<1>16. ASSUME NEW a \in Ids, ReconcileUnmark(a) PROVE AdmissionInv'
  BY <1>16, <1>a DEF ReconcileUnmark, AdmissionInv, Pending
<1>17. ASSUME NEW a \in Ids, Rot(a) PROVE AdmissionInv'
  BY <1>17, <1>a DEF Rot, AdmissionInv, Pending
<1>18. ASSUME NEW a \in Ids, LoadDir(a) PROVE AdmissionInv'
  BY <1>18, <1>a DEF LoadDir, AdmissionInv, Pending
<1>19. ASSUME NEW a \in Ids, QuarantineRename(a) PROVE AdmissionInv'
  BY <1>19, <1>a DEF QuarantineRename, AdmissionInv, Pending
<1>20. ASSUME NEW a \in Ids, QuarantineRefused(a) PROVE AdmissionInv'
  BY <1>20, <1>a DEF QuarantineRefused, AdmissionInv, Pending
<1>21. ASSUME NEW a \in Ids, QuarantineRecord(a) PROVE AdmissionInv'
  BY <1>21, <1>a DEF QuarantineRecord, Quarantining, AdmissionInv, Pending
<1>22. ASSUME NEW a \in Ids, QuarantineTombstone(a) PROVE AdmissionInv'
  BY <1>22, <1>a DEF QuarantineTombstone, Quarantining, AdmissionInv, Pending
<1>23. ASSUME NEW a \in Ids, QuarantineMark(a) PROVE AdmissionInv'
  BY <1>23, <1>a DEF QuarantineMark, Quarantining, AdmissionInv, Pending
<1>24. ASSUME Crash PROVE AdmissionInv'
  <2>1. \A a \in Ids : thread'[a] = "none"
    BY <1>24 DEF Crash, Blank
  <2> QED
    BY <1>24, <2>1 DEF Crash, AdmissionInv, Pending
<1>25. ASSUME Restart PROVE AdmissionInv'
  BY <1>25, <1>a DEF Restart, AdmissionInv, Pending
<1>26. ASSUME LoadDone PROVE AdmissionInv'
  BY <1>26, <1>a DEF LoadDone, AdmissionInv, Pending
<1>27. CASE UNCHANGED vars
  BY <1>27, <1>a DEF vars, AdmissionInv, Pending
<1> QED
  BY <1>1, <1>2, <1>3, <1>4, <1>5, <1>6, <1>7, <1>8, <1>9, <1>10, <1>11, <1>12, <1>13, <1>14,
     <1>15, <1>16, <1>17, <1>18, <1>19, <1>20, <1>21, <1>22, <1>23, <1>24, <1>25, <1>26, <1>27
     DEF Next, Started, Executing, Serving, Loading, Statuses


\* What appending an event does to the two logs.
LEMMA EmitLogs ==
    ASSUME TypeOK, NEW a \in Ids, NEW event \in Events, Emit(a, event) \/ EmitFails(a, event)
    PROVE  /\ events'[a] = Append(events[a], event) /\ events'[a] # <<>>
           /\ Len(events'[a]) = Len(events[a]) + 1 /\ events'[a][Len(events'[a])] = event
           /\ \A b \in Ids : b # a => events'[b] = events[b] /\ log'[b] = log[b]
           /\ log'[a] = log[a] \/ log'[a] = Append(log[a], event)
           /\ Emit(a, event) /\ Len(log[a]) = Len(events[a]) => log'[a] = Append(log[a], event)
           /\ Len(Append(log[a], event)) = Len(log[a]) + 1
           /\ Append(log[a], event)[Len(log[a]) + 1] = event
           /\ \A i \in DOMAIN log[a] : i \in DOMAIN log'[a] /\ log'[a][i] = log[a][i]
           /\ Len(log[a]) + 1 \in DOMAIN Append(log[a], event)
<1>1. events \in [Ids -> Seq(Events)] /\ log \in [Ids -> Seq(Events)]
  BY DEF TypeOK, RunsTypeOK, DiskTypeOK
<1>2. events[a] \in Seq(Events) /\ log[a] \in Seq(Events)
  BY <1>1
<1>3. /\ Append(events[a], event) # <<>>
      /\ Len(Append(events[a], event)) = Len(events[a]) + 1
      /\ Append(events[a], event)[Len(events[a]) + 1] = event
  BY <1>2, AppendProperties
<1>4. /\ Append(log[a], event) \in Seq(Events)
      /\ Len(Append(log[a], event)) = Len(log[a]) + 1
      /\ Append(log[a], event)[Len(log[a]) + 1] = event
      /\ \A i \in 1..Len(log[a]) : Append(log[a], event)[i] = log[a][i]
  BY <1>2, AppendProperties
<1>5. /\ DOMAIN log[a] = 1..Len(log[a]) /\ Len(log[a]) \in Nat
      /\ DOMAIN Append(log[a], event) = 1..(Len(log[a]) + 1)
  BY <1>2, <1>4, LenProperties
<1>6. /\ events' = [events EXCEPT ![a] = Append(@, event)]
      /\ log' = log \/ log' = [log EXCEPT ![a] = Append(@, event)]
      /\ Emit(a, event) /\ Len(log[a]) = Len(events[a]) =>
           log' = [log EXCEPT ![a] = Append(@, event)]
  BY DEF Emit, EmitFails
<1>7. /\ events'[a] = Append(events[a], event)
      /\ \A b \in Ids : b # a => events'[b] = events[b] /\ log'[b] = log[b]
      /\ log'[a] = log[a] \/ log'[a] = Append(log[a], event)
      /\ Emit(a, event) /\ Len(log[a]) = Len(events[a]) => log'[a] = Append(log[a], event)
  BY <1>1, <1>6
<1>8. \A i \in DOMAIN log[a] : i \in DOMAIN log'[a] /\ log'[a][i] = log[a][i]
  BY <1>4, <1>5, <1>7
<1> QED
  BY <1>3, <1>4, <1>5, <1>7, <1>8

\* What persisting a receipt, or failing to, does to the others.
LEMMA PersistOthers ==
    ASSUME TypeOK, NEW a \in Ids, NEW status, PersistReceipt(a, status) \/ PersistFails(a, status)
    PROVE  \A b \in Ids : b # a => receipt'[b] = receipt[b] /\ rcpt'[b] = rcpt[b]
  BY DEF PersistReceipt, PersistFails, TypeOK, RunsTypeOK, DiskTypeOK

\* What a run has on disk and in memory, whichever writes fail.
LEMMA RunStep == TypeOK /\ AdmissionInv /\ RunInv /\ [Next]_vars => RunInv'
<1> SUFFICES ASSUME TypeOK, AdmissionInv, RunInv, [Next]_vars PROVE RunInv'
  OBVIOUS
<1>a. /\ thread \in [Ids -> Threads] /\ req \in [Ids -> Envs \cup Absent]
      /\ log \in [Ids -> Seq(Events)] /\ rcpt \in [Ids -> Receipts \cup Absent]
      /\ env \in [Ids -> Envs \cup {NoFile}] /\ events \in [Ids -> Seq(Events)]
      /\ receipt \in [Ids -> Receipts \cup {NoFile}]
  BY DEF TypeOK, DiskTypeOK, RunsTypeOK, ServiceTypeOK
<1>b. RunInv
  OBVIOUS
<1>c. AdmissionInv
  OBVIOUS
<1>d. todo \subseteq dirs
  BY DEF AdmissionInv
<1> USE DEF disk, loadVars, runVars, deadVars, execVars, history
<1>1. ASSUME NEW a \in Ids, NEW e \in Envs, Start(a, e) PROVE RunInv'
  <2>1. svc'.op = "request" /\ svc'.id = a /\ svc = NoFile /\ dirs' = dirs \cup {a}
    BY <1>1 DEF Start, Ready
  <2>2. todo = {} /\ a \notin dirs /\ a \notin runs /\ thread[a] = "none"
    BY <1>1, <1>b, <1>c DEF Start, Ready, NewIdentity, RunInv, AdmissionInv
  <2>3. Len(log[a]) = Len(events[a])
    BY <2>2, <1>b DEF RunInv
  <2> QED
    BY <1>1, <1>b, <2>1, <2>2, <2>3 DEF Start, RunInv, Pending
<1>2. ASSUME NEW a \in Ids, StartRequest(a) PROVE RunInv'
  <2>1. /\ svc'.op = "admit" /\ svc'.id = a /\ svc.arg \in Envs
        /\ svc # NoFile /\ svc.op = "request" /\ svc.id = a /\ Pending(a)
    BY <1>2 DEF StartRequest, TypeOK, ServiceTypeOK, Pending
  <2>2. /\ req'[a] = svc.arg /\ env'[a] = svc.arg
        /\ \A b \in Ids : b # a => req'[b] = req[b] /\ env'[b] = env[b]
    BY <1>2, <1>a DEF StartRequest
  <2>3. /\ a \in dirs /\ a \notin runs /\ todo = {} /\ thread[a] = "none"
        /\ a \notin cancelled /\ a \notin recovered /\ Len(log[a]) = Len(events[a])
    BY <2>1, <1>b, <1>c DEF RunInv, AdmissionInv
  <2> QED
    BY <1>2, <1>b, <2>1, <2>2, <2>3 DEF StartRequest, RunInv, Pending
<1>3. ASSUME NEW a \in Ids, StartRequestFails(a) PROVE RunInv'
  <2>1. /\ svc' = NoFile /\ svc # NoFile /\ svc.op = "request" /\ svc.id = a /\ Pending(a)
        /\ \A b \in Ids : b # a => req'[b] = req[b]
        /\ UNCHANGED <<dirs, log, rcpt, todo, runVars, thread>>
    BY <1>3, <1>a DEF StartRequestFails, Pending
  <2>2. a \in dirs /\ a \notin runs
    BY <2>1, <1>b DEF RunInv
  <2> QED
    BY <1>b, <2>1, <2>2 DEF RunInv, Pending
<1>4. ASSUME NEW a \in Ids, StartAdmit(a) PROVE RunInv'
  <2>0. "admitted" \in Events
    BY DEF Events
  <2>1. Emit(a, "admitted") \/ EmitFails(a, "admitted")
    BY <1>4 DEF StartAdmit
  <2>2. /\ svc' = NoFile /\ svc # NoFile /\ svc.op = "admit" /\ svc.id = a /\ Pending(a)
        /\ UNCHANGED <<dirs, req, rcpt, todo, runs, env, receipt, cancelled, recovered>>
        /\ \A b \in Ids : b # a => thread'[b] = thread[b]
        /\ thread'[a] = thread[a] \/ Emit(a, "admitted")
    BY <1>4, <1>a DEF StartAdmit, Pending
  <2>3. /\ a \in dirs /\ a \in runs /\ a \notin recovered /\ a \notin cancelled
        /\ thread[a] = "none" /\ Len(log[a]) = Len(events[a])
    BY <2>2, <1>b DEF RunInv
  <2>4. thread'[a] # "none" => Len(log'[a]) = Len(events'[a])
    BY <2>0, <2>1, <2>2, <2>3, EmitLogs
  <2>5. \A b \in Ids : b # a => events'[b] = events[b] /\ log'[b] = log[b]
    BY <2>0, <2>1, EmitLogs
  <2> QED
    BY <1>b, <2>2, <2>3, <2>4, <2>5 DEF RunInv, Pending
<1>5. ASSUME NEW a \in Ids, NEW s \in Statuses, PrepareFails(a, s) PROVE RunInv'
  <2>1. /\ UNCHANGED <<dirs, req, log, rcpt, todo, runVars, svc>>
        /\ thread[a] # "none" /\ thread'[a] # "prepare"
        /\ \A b \in Ids : b # a => thread'[b] = thread[b]
    BY <1>5, <1>a DEF PrepareFails, Conclude
  <2>2. a \in runs /\ a \notin recovered
    BY <2>1, <1>b DEF RunInv
  <2>3. svc # NoFile /\ svc.id = a => svc.op \notin {"request", "admit"}
    BY <2>1, <2>2, <1>b DEF RunInv
  <2> QED
    BY <1>b, <2>1, <2>2, <2>3 DEF RunInv, Pending
<1>6. ASSUME NEW a \in Ids, Arm(a) PROVE RunInv'
  <2>0. "started" \in Events
    BY DEF Events
  <2>1. /\ UNCHANGED <<dirs, req, rcpt, todo, runs, env, receipt, cancelled, recovered, svc>>
        /\ thread'[a] # "prepare" /\ thread[a] = "prepare"
        /\ \A b \in Ids : b # a => thread'[b] = thread[b]
        /\ UNCHANGED <<events, log>> \/ Emit(a, "started") \/ EmitFails(a, "started")
    BY <1>6, <1>a DEF Arm, Conclude
  <2>2. a \in dirs /\ a \in runs /\ a \notin recovered
    BY <2>1, <1>b DEF RunInv, Pending
  <2>3. svc # NoFile /\ svc.id = a => svc.op \notin {"request", "admit"}
    BY <2>1, <2>2, <1>b DEF RunInv
  <2>4. \A b \in Ids : b # a => events'[b] = events[b] /\ log'[b] = log[b]
    BY <2>0, <2>1, EmitLogs
  <2> QED
    BY <1>b, <2>1, <2>2, <2>3, <2>4 DEF RunInv, Pending
<1>7. ASSUME NEW a \in Ids, Launch(a) PROVE RunInv'
  <2>1. /\ UNCHANGED <<dirs, req, log, rcpt, todo, runVars, svc>>
        /\ thread[a] # "none" /\ thread'[a] # "prepare"
        /\ \A b \in Ids : b # a => thread'[b] = thread[b]
    BY <1>7, <1>a DEF Launch
  <2>2. a \in runs /\ a \notin recovered
    BY <2>1, <1>b DEF RunInv
  <2>3. svc # NoFile /\ svc.id = a => svc.op \notin {"request", "admit"}
    BY <2>1, <2>2, <1>b DEF RunInv
  <2> QED
    BY <1>b, <2>1, <2>2, <2>3 DEF RunInv, Pending
<1>8. ASSUME NEW a \in Ids, NEW s \in Statuses, EndRun(a, s) PROVE RunInv'
  <2>1. /\ UNCHANGED <<dirs, req, log, rcpt, todo, runVars, svc>>
        /\ thread[a] # "none" /\ thread'[a] # "prepare"
        /\ \A b \in Ids : b # a => thread'[b] = thread[b]
    BY <1>8, <1>a DEF EndRun, Conclude
  <2>2. a \in runs /\ a \notin recovered
    BY <2>1, <1>b DEF RunInv
  <2>3. svc # NoFile /\ svc.id = a => svc.op \notin {"request", "admit"}
    BY <2>1, <2>2, <1>b DEF RunInv
  <2> QED
    BY <1>b, <2>1, <2>2, <2>3 DEF RunInv, Pending
<1>9. ASSUME NEW a \in Ids, Finish(a) PROVE RunInv'
  <2>0. verdict[a] \in Events
    BY DEF TypeOK, ServiceTypeOK, Events
  <2>1. /\ UNCHANGED <<dirs, req, rcpt, todo, runs, env, receipt, cancelled, recovered, svc>>
        /\ thread'[a] # "prepare" /\ thread[a] = "finish"
        /\ \A b \in Ids : b # a => thread'[b] = thread[b]
        /\ Emit(a, verdict[a]) \/ EmitFails(a, verdict[a])
    BY <1>9, <1>a DEF Finish
  <2>2. a \in dirs /\ a \in runs /\ a \notin recovered
    BY <2>1, <1>b DEF RunInv, Pending
  <2>3. svc # NoFile /\ svc.id = a => svc.op \notin {"request", "admit"}
    BY <2>1, <2>2, <1>b DEF RunInv
  <2>4. \A b \in Ids : b # a => events'[b] = events[b] /\ log'[b] = log[b]
    BY <2>0, <2>1, EmitLogs
  <2> QED
    BY <1>b, <2>1, <2>2, <2>3, <2>4 DEF RunInv, Pending
<1>10. ASSUME NEW a \in Ids, Persist(a) PROVE RunInv'
  <2>1. /\ UNCHANGED <<dirs, req, log, todo, runs, env, events, cancelled, recovered, svc>>
        /\ thread[a] = "persist" /\ thread'[a] = "none"
        /\ \A b \in Ids : b # a => thread'[b] = thread[b]
        /\ \A b \in Ids : b # a => receipt'[b] = receipt[b] /\ rcpt'[b] = rcpt[b]
    BY <1>10, <1>a, PersistOthers DEF Persist
  <2>2. a \in dirs /\ a \in runs
    BY <2>1, <1>b DEF RunInv
  <2> QED
    BY <1>b, <2>1, <2>2 DEF RunInv, Pending
<1>11. ASSUME NEW a \in Ids, Cancel(a) PROVE RunInv'
  <2>0. "cancel_requested" \in Events
    BY DEF Events
  <2>1. /\ UNCHANGED <<dirs, req, rcpt, todo, runs, env, receipt, recovered, svc, thread>>
        /\ cancelled' = cancelled \cup {a} /\ a \in runs
        /\ Emit(a, "cancel_requested") \/ EmitFails(a, "cancel_requested")
    BY <1>11 DEF Cancel, Unlocked
  <2>2. a \in dirs /\ svc = NoFile
    BY <1>11, <2>1, <1>b DEF RunInv, Cancel, Unlocked, Ready
  <2>3. \A b \in Ids : b # a => events'[b] = events[b] /\ log'[b] = log[b]
    BY <2>0, <2>1, EmitLogs
  <2> QED
    BY <1>b, <2>1, <2>2, <2>3 DEF RunInv, Pending
<1>12. ASSUME NEW a \in Ids, ShowReceipt(a) PROVE RunInv'
  BY <1>12, <1>b DEF ShowReceipt, RunInv, Pending
<1>13. ASSUME NEW a \in Ids, NEW s \in Statuses, Terminalize(a, s) PROVE RunInv'
  <2>0. s \in Events
    BY DEF Events
  <2>1. /\ UNCHANGED <<dirs, req, rcpt, todo, runs, env, receipt, recovered, thread>>
        /\ cancelled' = cancelled \cup {a} /\ a \in runs /\ a \in recovered /\ svc = NoFile
        /\ svc' = NoFile \/ (svc'.op = "persist" /\ svc'.id = a)
        /\ Emit(a, s) \/ EmitFails(a, s)
    BY <1>13 DEF Terminalize, Unlocked, Ready
  <2>2. a \in dirs /\ thread[a] = "none"
    BY <2>1, <1>b DEF RunInv
  <2>3. \A b \in Ids : b # a => events'[b] = events[b] /\ log'[b] = log[b]
    BY <2>0, <2>1, EmitLogs
  <2> QED
    BY <1>b, <2>1, <2>2, <2>3 DEF RunInv, Pending
<1>14. ASSUME NEW a \in Ids, TerminalizePersist(a) PROVE RunInv'
  <2>1. /\ UNCHANGED <<dirs, req, log, todo, runs, env, events, cancelled, recovered, thread>>
        /\ svc # NoFile /\ svc.op = "persist" /\ svc.id = a /\ svc' = NoFile
        /\ \A b \in Ids : b # a => receipt'[b] = receipt[b] /\ rcpt'[b] = rcpt[b]
    BY <1>14, PersistOthers DEF TerminalizePersist
  <2>2. a \in dirs /\ a \in runs
    BY <2>1, <1>b DEF RunInv
  <2> QED
    BY <1>b, <2>1, <2>2 DEF RunInv, Pending
<1>15. ASSUME NEW a \in Ids, ReconcileQuarantine(a) PROVE RunInv'
  <2>1. /\ svc = NoFile /\ (svc' = NoFile \/ svc'.op = "unmark")
        /\ UNCHANGED <<dirs, req, log, rcpt, todo, runVars, thread>>
    BY <1>15 DEF ReconcileQuarantine, Ready
  <2> QED
    BY <1>b, <2>1 DEF RunInv, Pending
<1>16. ASSUME NEW a \in Ids, ReconcileUnmark(a) PROVE RunInv'
  BY <1>16, <1>b DEF ReconcileUnmark, RunInv, Pending
<1>17. ASSUME NEW a \in Ids, Rot(a) PROVE RunInv'
  <2>1. /\ runs = {} /\ UNCHANGED <<dirs, log, todo, runVars, svc, thread>>
        /\ \A b \in Ids : /\ req'[b] = req[b] \/ (b = a /\ req[b] # NoFile)
                          /\ rcpt'[b] = rcpt[b] \/ (b = a /\ rcpt[b] # NoFile)
    BY <1>17, <1>a, <1>c DEF Rot, AdmissionInv
  <2> QED
    BY <1>b, <2>1 DEF RunInv, Pending
<1>18. ASSUME NEW a \in Ids, LoadDir(a) PROVE RunInv'
  <2>1. /\ UNCHANGED <<dirs, req, log, rcpt, cancelled, svc, thread>>
        /\ runs' = runs \cup {a} /\ recovered' = recovered \cup {a} /\ todo' = todo \ {a}
        /\ env'[a] = req[a] /\ req[a] \in Envs /\ a \in todo
        /\ \A b \in Ids : b # a => /\ env'[b] = env[b] /\ events'[b] = events[b]
                                   /\ receipt'[b] = receipt[b]
    BY <1>18, <1>a DEF LoadDir, Unusable
  <2>2. svc = NoFile /\ \A b \in Ids : thread[b] = "none"
    BY <1>18, <1>c DEF LoadDir, AdmissionInv
  <2>3. a \in dirs
    BY <2>1, <1>b, <1>d
  <2> QED
    BY <1>b, <1>d, <2>1, <2>2, <2>3 DEF RunInv, Pending
<1>19. ASSUME NEW a \in Ids, QuarantineRename(a) PROVE RunInv'
  <2>1. /\ UNCHANGED <<runVars, svc, thread>>
        /\ dirs' = dirs \ {a} /\ todo' = todo \ {a} /\ a \in todo
        /\ req'[a] = NoFile /\ log'[a] = <<>> /\ rcpt'[a] = NoFile
        /\ \A b \in Ids : b # a => req'[b] = req[b] /\ log'[b] = log[b] /\ rcpt'[b] = rcpt[b]
    BY <1>19, <1>a DEF QuarantineRename
  <2>2. svc = NoFile /\ \A b \in Ids : thread[b] = "none"
    BY <1>19, <1>c DEF QuarantineRename, AdmissionInv
  <2> QED
    BY <1>b, <2>1, <2>2 DEF RunInv, Pending
<1>20. ASSUME NEW a \in Ids, QuarantineRefused(a) PROVE RunInv'
  BY <1>20, <1>b DEF QuarantineRefused, RunInv, Pending
<1>21. ASSUME NEW a \in Ids, QuarantineRecord(a) PROVE RunInv'
  BY <1>21, <1>b DEF QuarantineRecord, Quarantining, RunInv, Pending
<1>22. ASSUME NEW a \in Ids, QuarantineTombstone(a) PROVE RunInv'
  BY <1>22, <1>b DEF QuarantineTombstone, Quarantining, RunInv, Pending
<1>23. ASSUME NEW a \in Ids, QuarantineMark(a) PROVE RunInv'
  BY <1>23, <1>b DEF QuarantineMark, Quarantining, RunInv, Pending
<1>24. ASSUME Crash PROVE RunInv'
  <2>1. /\ UNCHANGED <<dirs, req, log, rcpt>> /\ runs' = {} /\ svc' = NoFile
        /\ cancelled' = {} /\ recovered' = {}
        /\ \A b \in Ids : thread'[b] = "none" /\ events'[b] = <<>> /\ receipt'[b] = NoFile
    BY <1>24 DEF Crash, Blank
  <2> QED
    BY <1>b, <2>1 DEF RunInv, Pending
<1>25. ASSUME Restart PROVE RunInv'
  <2>1. runs = {} /\ runs' = {}
    BY <1>25, <1>c DEF Restart, AdmissionInv
  <2> QED
    BY <1>25, <1>b, <2>1 DEF Restart, RunInv, Pending
<1>26. ASSUME LoadDone PROVE RunInv'
  BY <1>26, <1>b DEF LoadDone, RunInv, Pending
<1>27. CASE UNCHANGED vars
  BY <1>27, <1>b DEF vars, RunInv, Pending
<1> QED
  BY <1>1, <1>2, <1>3, <1>4, <1>5, <1>6, <1>7, <1>8, <1>9, <1>10, <1>11, <1>12, <1>13, <1>14,
     <1>15, <1>16, <1>17, <1>18, <1>19, <1>20, <1>21, <1>22, <1>23, <1>24, <1>25, <1>26, <1>27
     DEF Next, Started, Executing, Serving, Loading, Statuses


\* The log of a run records that it was started.
Trace(b) == \E i \in DOMAIN log[b] : log[b][i] = "started"

\* An event that is written, or not, takes nothing from the log.
LEMMA StartedStays ==
    ASSUME TypeOK, NEW a \in Ids, NEW event \in Events, Emit(a, event) \/ EmitFails(a, event)
    PROVE  \A b \in Ids : Trace(b) => Trace(b)'
<1>1. /\ \A b \in Ids : b # a => log'[b] = log[b]
      /\ \A i \in DOMAIN log[a] : i \in DOMAIN log'[a] /\ log'[a][i] = log[a][i]
  BY EmitLogs
<1>2. Trace(a) => Trace(a)'
  BY <1>1 DEF Trace
<1> QED
  BY <1>1, <1>2 DEF Trace

\* Handed-over work leaves its trace, whichever writes fail.
LEMMA EvidenceStep ==
    TypeOK /\ QuarantineInv /\ AdmissionInv /\ RunInv /\ EvidenceInv /\ [Next]_vars =>
       EvidenceInv'
<1> SUFFICES ASSUME TypeOK, QuarantineInv, AdmissionInv, RunInv, EvidenceInv, [Next]_vars
             PROVE  EvidenceInv'
  OBVIOUS
<1>a. /\ thread \in [Ids -> Threads] /\ req \in [Ids -> Envs \cup Absent]
      /\ log \in [Ids -> Seq(Events)] /\ quar \in [Ids -> Quars \cup {NoFile}]
      /\ handed \in [Ids -> Nat]
  BY DEF TypeOK, DiskTypeOK, ServiceTypeOK, HistoryTypeOK
<1>b. EvidenceInv
  OBVIOUS
<1>c. AdmissionInv /\ RunInv
  OBVIOUS
<1> USE DEF disk, loadVars, runVars, deadVars, execVars, history
<1>1. ASSUME NEW a \in Ids, NEW e \in Envs, Start(a, e) PROVE EvidenceInv'
  BY <1>1, <1>b DEF Start, Ready, NewIdentity, EvidenceInv
<1>2. ASSUME NEW a \in Ids, StartRequest(a) PROVE EvidenceInv'
  <2>1. svc.arg # NoFile
    BY <1>2, ConstantsAssumption DEF StartRequest, TypeOK, ServiceTypeOK
  <2>2. /\ UNCHANGED <<dirs, log, quar, handed>>
        /\ \A b \in Ids : req'[b] = req[b] \/ req'[b] # NoFile
    BY <1>2, <1>a, <2>1 DEF StartRequest
  <2> QED
    BY <1>b, <2>2 DEF EvidenceInv
<1>3. ASSUME NEW a \in Ids, StartRequestFails(a) PROVE EvidenceInv'
  <2>1. svc.arg # NoFile
    BY <1>3, ConstantsAssumption DEF StartRequestFails, TypeOK, ServiceTypeOK
  <2>2. /\ UNCHANGED <<dirs, log, quar, handed>>
        /\ \A b \in Ids : req'[b] = req[b] \/ req'[b] # NoFile
    BY <1>3, <1>a, <2>1 DEF StartRequestFails
  <2> QED
    BY <1>b, <2>2 DEF EvidenceInv
<1>4. ASSUME NEW a \in Ids, StartAdmit(a) PROVE EvidenceInv'
  <2>0. "admitted" \in Events
    BY DEF Events
  <2>1. /\ UNCHANGED <<dirs, req, quar, handed>>
        /\ Emit(a, "admitted") \/ EmitFails(a, "admitted")
    BY <1>4 DEF StartAdmit
  <2> QED
    BY <1>b, <2>0, <2>1, StartedStays DEF EvidenceInv, Trace
<1>5. ASSUME NEW a \in Ids, NEW s \in Statuses, PrepareFails(a, s) PROVE EvidenceInv'
  BY <1>5, <1>b DEF PrepareFails, Conclude, EvidenceInv
<1>6. ASSUME NEW a \in Ids, Arm(a) PROVE EvidenceInv'
  <2>0. "started" \in Events
    BY DEF Events
  <2>1. UNCHANGED <<dirs, req, quar>>
    BY <1>6 DEF Arm
  <2>2. CASE UNCHANGED <<log, handed>>
    BY <1>b, <2>1, <2>2 DEF EvidenceInv
  <2>3. CASE a \notin cancelled /\ Emit(a, "started") /\ handed' = [handed EXCEPT ![a] = @ + 1]
    <3>1. a \in dirs /\ req[a] # NoFile /\ Len(log[a]) = Len(events[a])
      BY <1>6, <1>c, <2>3, ConstantsAssumption DEF Arm, RunInv, Pending
    <3>2. /\ log'[a] = Append(log[a], "started")
          /\ Len(log[a]) + 1 \in DOMAIN log'[a] /\ log'[a][Len(log[a]) + 1] = "started"
      BY <2>0, <2>3, <3>1, EmitLogs
    <3>3. \A b \in Ids : b # a => handed'[b] = handed[b]
      BY <1>a, <2>3
    <3> QED
      BY <1>b, <2>0, <2>1, <2>3, <3>1, <3>2, <3>3, StartedStays DEF EvidenceInv, Trace
  <2>4. CASE EmitFails(a, "started") /\ UNCHANGED handed
    BY <1>b, <2>0, <2>1, <2>4, StartedStays DEF EvidenceInv, Trace
  <2> QED
    BY <1>6, <2>2, <2>3, <2>4 DEF Arm
<1>7. ASSUME NEW a \in Ids, Launch(a) PROVE EvidenceInv'
  BY <1>7, <1>b DEF Launch, EvidenceInv
<1>8. ASSUME NEW a \in Ids, NEW s \in Statuses, EndRun(a, s) PROVE EvidenceInv'
  BY <1>8, <1>b DEF EndRun, Conclude, EvidenceInv
<1>9. ASSUME NEW a \in Ids, Finish(a) PROVE EvidenceInv'
  <2>0. verdict[a] \in Events
    BY DEF TypeOK, ServiceTypeOK, Events
  <2>1. /\ UNCHANGED <<dirs, req, quar, handed>>
        /\ Emit(a, verdict[a]) \/ EmitFails(a, verdict[a])
    BY <1>9 DEF Finish
  <2> QED
    BY <1>b, <2>0, <2>1, StartedStays DEF EvidenceInv, Trace
<1>10. ASSUME NEW a \in Ids, Persist(a) PROVE EvidenceInv'
  BY <1>10, <1>b DEF Persist, EvidenceInv
<1>11. ASSUME NEW a \in Ids, Cancel(a) PROVE EvidenceInv'
  <2>0. "cancel_requested" \in Events
    BY DEF Events
  <2>1. /\ UNCHANGED <<dirs, req, quar, handed>>
        /\ Emit(a, "cancel_requested") \/ EmitFails(a, "cancel_requested")
    BY <1>11 DEF Cancel
  <2> QED
    BY <1>b, <2>0, <2>1, StartedStays DEF EvidenceInv, Trace
<1>12. ASSUME NEW a \in Ids, ShowReceipt(a) PROVE EvidenceInv'
  BY <1>12, <1>b DEF ShowReceipt, EvidenceInv
<1>13. ASSUME NEW a \in Ids, NEW s \in Statuses, Terminalize(a, s) PROVE EvidenceInv'
  <2>0. s \in Events
    BY DEF Events
  <2>1. /\ UNCHANGED <<dirs, req, quar, handed>>
        /\ Emit(a, s) \/ EmitFails(a, s)
    BY <1>13 DEF Terminalize
  <2> QED
    BY <1>b, <2>0, <2>1, StartedStays DEF EvidenceInv, Trace
<1>14. ASSUME NEW a \in Ids, TerminalizePersist(a) PROVE EvidenceInv'
  BY <1>14, <1>b DEF TerminalizePersist, EvidenceInv
<1>15. ASSUME NEW a \in Ids, ReconcileQuarantine(a) PROVE EvidenceInv'
  <2>1. UNCHANGED <<dirs, req, log, handed>>
    BY <1>15 DEF ReconcileQuarantine
  <2>2. CASE WriteTombstone(a, owner[a])
    <3>1. quar[a] # NoFile /\ owner[a] \in Envs /\ DiskTypeOK
      BY <1>15 DEF ReconcileQuarantine, TypeOK
    <3>2. /\ quar'[a] # NoFile /\ quar'[a].req = quar[a].req
          /\ \A b \in Ids : b # a => quar'[b] = quar[b]
      BY <2>2, <3>1, QuarUpdate DEF WriteTombstone
    <3> QED
      BY <1>b, <2>1, <3>1, <3>2 DEF EvidenceInv
  <2>3. CASE UNCHANGED quar
    BY <1>b, <2>1, <2>3 DEF EvidenceInv
  <2> QED
    BY <1>15, <2>2, <2>3 DEF ReconcileQuarantine
<1>16. ASSUME NEW a \in Ids, ReconcileUnmark(a) PROVE EvidenceInv'
  BY <1>16, <1>b DEF ReconcileUnmark, EvidenceInv
<1>17. ASSUME NEW a \in Ids, Rot(a) PROVE EvidenceInv'
  <2>1. UNCHANGED <<dirs, log, handed>> /\ Bad \in Envs \cup Absent /\ Bad # NoFile /\ DiskTypeOK
    BY <1>17, ConstantsAssumption DEF Rot, Absent, TypeOK
  <2>2. CASE UNCHANGED quar
    <3>1. \A b \in Ids : req'[b] = req[b] \/ req'[b] # NoFile
      BY <1>17, <1>a, <2>1 DEF Rot
    <3> QED
      BY <1>b, <2>1, <2>2, <3>1 DEF EvidenceInv
  <2>3. CASE quar[a] # NoFile /\ UNCHANGED req /\ quar' = [quar EXCEPT ![a].req = Bad]
    BY <1>b, <2>1, <2>3, QuarUpdate DEF EvidenceInv
  <2>4. CASE quar[a] # NoFile /\ UNCHANGED req /\ quar' = [quar EXCEPT ![a].tomb = Bad]
    BY <1>b, <2>1, <2>4, QuarUpdate DEF EvidenceInv
  <2> QED
    BY <1>17, <2>2, <2>3, <2>4 DEF Rot
<1>18. ASSUME NEW a \in Ids, LoadDir(a) PROVE EvidenceInv'
  BY <1>18, <1>b DEF LoadDir, EvidenceInv
<1>19. ASSUME NEW a \in Ids, QuarantineRename(a) PROVE EvidenceInv'
  <2>1. /\ quar'[a] # NoFile /\ quar'[a].req = req[a] /\ quar[a] = NoFile
        /\ \A b \in Ids : b # a => quar'[b] = quar[b] /\ req'[b] = req[b] /\ log'[b] = log[b]
        /\ dirs' = dirs \ {a} /\ handed' = handed
    BY <1>19, <1>a, RenamedDirectory DEF QuarantineRename
  <2> QED
    BY <1>b, <2>1 DEF EvidenceInv
<1>20. ASSUME NEW a \in Ids, QuarantineRefused(a) PROVE EvidenceInv'
  BY <1>20, <1>b DEF QuarantineRefused, EvidenceInv
<1>21. ASSUME NEW a \in Ids, QuarantineRecord(a) PROVE EvidenceInv'
  BY <1>21, <1>b DEF QuarantineRecord, Quarantining, EvidenceInv
<1>22. ASSUME NEW a \in Ids, QuarantineTombstone(a) PROVE EvidenceInv'
  <2>1. UNCHANGED <<dirs, req, log, handed>> /\ quar[a] # NoFile /\ DiskTypeOK
    BY <1>22 DEF QuarantineTombstone, Quarantining, QuarantineInv, TypeOK
  <2>2. CASE WriteTombstone(a, RecoverIdentity(a))
    <3>1. RecoverIdentity(a) \in Envs
      BY <1>22 DEF QuarantineTombstone, Quarantining, QuarantineInv, RecoverIdentity
    <3>2. /\ quar'[a] # NoFile /\ quar'[a].req = quar[a].req
          /\ \A b \in Ids : b # a => quar'[b] = quar[b]
      BY <2>1, <2>2, <3>1, QuarUpdate DEF WriteTombstone
    <3> QED
      BY <1>b, <2>1, <3>2 DEF EvidenceInv
  <2>3. CASE UNCHANGED quar
    BY <1>b, <2>1, <2>3 DEF EvidenceInv
  <2> QED
    BY <1>22, <2>2, <2>3 DEF QuarantineTombstone
<1>23. ASSUME NEW a \in Ids, QuarantineMark(a) PROVE EvidenceInv'
  BY <1>23, <1>b DEF QuarantineMark, Quarantining, EvidenceInv
<1>24. ASSUME Crash PROVE EvidenceInv'
  <2>1. UNCHANGED <<dirs, req, log, handed>>
    BY <1>24 DEF Crash
  <2>2. CASE UNCHANGED quar
    BY <1>b, <2>1, <2>2 DEF EvidenceInv
  <2>3. CASE /\ q # NoFile /\ q.step = "record"
             /\ quar' = [quar EXCEPT ![q.id].litter = "tmp"]
    <3>1. q.id \in Ids /\ quar[q.id] # NoFile /\ Bad \in Envs \cup Absent /\ DiskTypeOK
      BY <2>3 DEF QuarantineInv, TypeOK, ServiceTypeOK, Absent
    <3>2. /\ quar'[q.id] # NoFile /\ quar'[q.id].req = quar[q.id].req
          /\ \A b \in Ids : b # q.id => quar'[b] = quar[b]
      BY <2>3, <3>1, QuarUpdate
    <3> QED
      BY <1>b, <2>1, <3>1, <3>2 DEF EvidenceInv
  <2> QED
    BY <1>24, <2>2, <2>3 DEF Crash
<1>25. ASSUME Restart PROVE EvidenceInv'
  BY <1>25, <1>b DEF Restart, EvidenceInv
<1>26. ASSUME LoadDone PROVE EvidenceInv'
  BY <1>26, <1>b DEF LoadDone, EvidenceInv
<1>27. CASE UNCHANGED vars
  BY <1>27, <1>b DEF vars, EvidenceInv
<1> QED
  BY <1>1, <1>2, <1>3, <1>4, <1>5, <1>6, <1>7, <1>8, <1>9, <1>10, <1>11, <1>12, <1>13, <1>14,
     <1>15, <1>16, <1>17, <1>18, <1>19, <1>20, <1>21, <1>22, <1>23, <1>24, <1>25, <1>26, <1>27
     DEF Next, Started, Executing, Serving, Loading, Statuses


\* start refuses an envelope that a directory holds, so no two hold one.
LEMMA EnvelopeStep ==
    TypeOK /\ AdmissionInv /\ RunInv /\ EnvelopeInv /\ [Next]_vars => EnvelopeInv'
<1> SUFFICES ASSUME TypeOK, AdmissionInv, RunInv, EnvelopeInv, [Next]_vars PROVE EnvelopeInv'
  OBVIOUS
<1>a. req \in [Ids -> Envs \cup Absent] /\ dirs \subseteq Ids
  BY DEF TypeOK, DiskTypeOK
<1>b. EnvelopeInv
  OBVIOUS
<1>c. AdmissionInv /\ RunInv
  OBVIOUS
<1> USE DEF disk, loadVars, runVars, deadVars, execVars, history
<1>1. ASSUME NEW a \in Ids, NEW e \in Envs, Start(a, e) PROVE EnvelopeInv'
  <2>1. /\ dirs' = dirs \cup {a} /\ req' = req /\ svc'.arg = e /\ a \notin dirs
        /\ \A b \in dirs : req[b] # e
    BY <1>1 DEF Start, NewIdentity
  <2>2. req[a] = NoFile /\ NoFile \notin Envs
    BY <2>1, <1>c, ConstantsAssumption DEF RunInv
  <2> QED
    BY <1>b, <2>1, <2>2 DEF EnvelopeInv
<1>2. ASSUME NEW a \in Ids, StartRequest(a) PROVE EnvelopeInv'
  <2>1. /\ UNCHANGED dirs /\ svc'.op = "admit" /\ a \in dirs
        /\ req'[a] = svc.arg /\ \A b \in Ids : b # a => req'[b] = req[b]
        /\ \A b \in dirs : req[b] # svc.arg
    BY <1>2, <1>a, <1>b, <1>c DEF StartRequest, EnvelopeInv, RunInv, Pending, TypeOK,
       ServiceTypeOK
  <2> QED
    BY <1>a, <1>b, <2>1 DEF EnvelopeInv
<1>3. ASSUME NEW a \in Ids, StartRequestFails(a) PROVE EnvelopeInv'
  <2>1. /\ UNCHANGED dirs /\ svc' = NoFile
        /\ req'[a] \in {req[a], svc.arg} /\ \A b \in Ids : b # a => req'[b] = req[b]
        /\ \A b \in dirs : req[b] # svc.arg
    BY <1>3, <1>a, <1>b DEF StartRequestFails, EnvelopeInv
  <2> QED
    BY <1>a, <1>b, <2>1 DEF EnvelopeInv
<1>4. ASSUME NEW a \in Ids, StartAdmit(a) PROVE EnvelopeInv'
  BY <1>4, <1>b DEF StartAdmit, EnvelopeInv
<1>5. ASSUME NEW a \in Ids, NEW s \in Statuses, PrepareFails(a, s) PROVE EnvelopeInv'
  BY <1>5, <1>b DEF PrepareFails, Conclude, EnvelopeInv
<1>6. ASSUME NEW a \in Ids, Arm(a) PROVE EnvelopeInv'
  BY <1>6, <1>b DEF Arm, Conclude, EnvelopeInv
<1>7. ASSUME NEW a \in Ids, Launch(a) PROVE EnvelopeInv'
  BY <1>7, <1>b DEF Launch, EnvelopeInv
<1>8. ASSUME NEW a \in Ids, NEW s \in Statuses, EndRun(a, s) PROVE EnvelopeInv'
  BY <1>8, <1>b DEF EndRun, Conclude, EnvelopeInv
<1>9. ASSUME NEW a \in Ids, Finish(a) PROVE EnvelopeInv'
  BY <1>9, <1>b DEF Finish, EnvelopeInv
<1>10. ASSUME NEW a \in Ids, Persist(a) PROVE EnvelopeInv'
  BY <1>10, <1>b DEF Persist, EnvelopeInv
<1>11. ASSUME NEW a \in Ids, Cancel(a) PROVE EnvelopeInv'
  BY <1>11, <1>b DEF Cancel, Unlocked, Ready, EnvelopeInv
<1>12. ASSUME NEW a \in Ids, ShowReceipt(a) PROVE EnvelopeInv'
  BY <1>12, <1>b DEF ShowReceipt, EnvelopeInv
<1>13. ASSUME NEW a \in Ids, NEW s \in Statuses, Terminalize(a, s) PROVE EnvelopeInv'
  BY <1>13, <1>b DEF Terminalize, Unlocked, Ready, EnvelopeInv
<1>14. ASSUME NEW a \in Ids, TerminalizePersist(a) PROVE EnvelopeInv'
  BY <1>14, <1>b DEF TerminalizePersist, EnvelopeInv
<1>15. ASSUME NEW a \in Ids, ReconcileQuarantine(a) PROVE EnvelopeInv'
  <2>1. UNCHANGED <<dirs, req>> /\ (svc' = svc \/ svc'.op = "unmark")
    BY <1>15 DEF ReconcileQuarantine
  <2> QED
    BY <1>b, <2>1 DEF EnvelopeInv
<1>16. ASSUME NEW a \in Ids, ReconcileUnmark(a) PROVE EnvelopeInv'
  BY <1>16, <1>b DEF ReconcileUnmark, EnvelopeInv
<1>17. ASSUME NEW a \in Ids, Rot(a) PROVE EnvelopeInv'
  <2>1. UNCHANGED dirs /\ svc = NoFile /\ svc' = NoFile /\ Bad \notin Envs
    BY <1>17, <1>c, ConstantsAssumption DEF Rot, AdmissionInv
  <2>2. \A b \in Ids : req'[b] = req[b] \/ req'[b] = Bad
    BY <1>17, <1>a DEF Rot
  <2> QED
    BY <1>a, <1>b, <2>1, <2>2 DEF EnvelopeInv
<1>18. ASSUME NEW a \in Ids, LoadDir(a) PROVE EnvelopeInv'
  BY <1>18, <1>b DEF LoadDir, EnvelopeInv
<1>19. ASSUME NEW a \in Ids, QuarantineRename(a) PROVE EnvelopeInv'
  <2>1. /\ dirs' = dirs \ {a} /\ svc' = svc
        /\ \A b \in Ids : b # a => req'[b] = req[b]
    BY <1>19, <1>a DEF QuarantineRename
  <2> QED
    BY <1>a, <1>b, <2>1 DEF EnvelopeInv
<1>20. ASSUME NEW a \in Ids, QuarantineRefused(a) PROVE EnvelopeInv'
  BY <1>20, <1>b DEF QuarantineRefused, EnvelopeInv
<1>21. ASSUME NEW a \in Ids, QuarantineRecord(a) PROVE EnvelopeInv'
  BY <1>21, <1>b DEF QuarantineRecord, Quarantining, EnvelopeInv
<1>22. ASSUME NEW a \in Ids, QuarantineTombstone(a) PROVE EnvelopeInv'
  BY <1>22, <1>b DEF QuarantineTombstone, Quarantining, EnvelopeInv
<1>23. ASSUME NEW a \in Ids, QuarantineMark(a) PROVE EnvelopeInv'
  BY <1>23, <1>b DEF QuarantineMark, Quarantining, EnvelopeInv
<1>24. ASSUME Crash PROVE EnvelopeInv'
  BY <1>24, <1>b DEF Crash, Blank, EnvelopeInv
<1>25. ASSUME Restart PROVE EnvelopeInv'
  BY <1>25, <1>b DEF Restart, EnvelopeInv
<1>26. ASSUME LoadDone PROVE EnvelopeInv'
  BY <1>26, <1>b DEF LoadDone, EnvelopeInv
<1>27. CASE UNCHANGED vars
  BY <1>27, <1>b DEF vars, EnvelopeInv
<1> QED
  BY <1>1, <1>2, <1>3, <1>4, <1>5, <1>6, <1>7, <1>8, <1>9, <1>10, <1>11, <1>12, <1>13, <1>14,
     <1>15, <1>16, <1>17, <1>18, <1>19, <1>20, <1>21, <1>22, <1>23, <1>24, <1>25, <1>26, <1>27
     DEF Next, Started, Executing, Serving, Loading, Statuses


\* What the files and memory say of a receipt.
RecordsInv == LedgerInv /\ ReceiptMatchesLog

\* An event appended where log and memory agree leaves them in agreement.
LEMMA EmitBoth ==
    ASSUME TypeOK, LedgerInv, NEW a \in runs, NEW event \in Events, Emit(a, event)
    PROVE  /\ log'[a] = events'[a] /\ EndsWith(log'[a], event)
           /\ \A b \in Ids : b # a => events'[b] = events[b] /\ log'[b] = log[b]
<1>1. a \in Ids /\ log[a] = events[a]
  BY DEF TypeOK, RunsTypeOK, LedgerInv
<1>2. /\ events'[a] = Append(events[a], event) /\ events'[a] # <<>>
      /\ events'[a][Len(events'[a])] = event
      /\ log'[a] = Append(log[a], event)
      /\ \A b \in Ids : b # a => events'[b] = events[b] /\ log'[b] = log[b]
  BY <1>1, EmitLogs
<1> QED
  BY <1>1, <1>2 DEF EndsWith

\* As long as events and receipts can be written, a receipt commits to its log.
LEMMA RecordsStep ==
    ASSUME "emit" \notin IOFaults, "receipt" \notin IOFaults,
           TypeOK, AdmissionInv, RunInv, RecordsInv, [Next]_vars
    PROVE  RecordsInv'
<1>a. /\ thread \in [Ids -> Threads] /\ verdict \in [Ids -> Statuses]
      /\ log \in [Ids -> Seq(Events)] /\ rcpt \in [Ids -> Receipts \cup Absent]
      /\ events \in [Ids -> Seq(Events)] /\ receipt \in [Ids -> Receipts \cup {NoFile}]
  BY DEF TypeOK, DiskTypeOK, RunsTypeOK, ServiceTypeOK
<1>b. LedgerInv /\ ReceiptMatchesLog
  BY DEF RecordsInv
<1>c. AdmissionInv /\ RunInv
  OBVIOUS
<1>d. /\ \A a, event : ~EmitFails(a, event)
      /\ \A a, status : ~PersistFails(a, status)
  BY DEF EmitFails, PersistFails, Fault
<1> USE DEF disk, loadVars, runVars, deadVars, execVars, history, RecordsInv
<1>1. ASSUME NEW a \in Ids, NEW e \in Envs, Start(a, e) PROVE RecordsInv'
  <2>1. /\ svc'.op = "request" /\ svc'.id = a /\ svc = NoFile /\ a \notin dirs
        /\ UNCHANGED <<log, rcpt, runVars, thread, verdict>>
    BY <1>1 DEF Start, Ready, NewIdentity
  <2>2. rcpt[a] = NoFile
    BY <2>1, <1>c DEF RunInv
  <2> QED
    BY <1>b, <2>1, <2>2 DEF LedgerInv, ReceiptMatchesLog, Pending
<1>2. ASSUME NEW a \in Ids, StartRequest(a) PROVE RecordsInv'
  <2>1. /\ svc'.op = "admit" /\ svc'.id = a /\ Pending(a) /\ svc # NoFile
        /\ svc.op = "request" /\ svc.id = a /\ runs' = runs \cup {a}
        /\ UNCHANGED <<log, rcpt, events, receipt, thread, verdict>>
    BY <1>2 DEF StartRequest, TypeOK, ServiceTypeOK, Pending
  <2>2. /\ events[a] = <<>> /\ receipt[a] = NoFile /\ rcpt[a] = NoFile
        /\ Len(log[a]) = Len(events[a])
    BY <2>1, <1>b, <1>c DEF RunInv, LedgerInv
  <2>3. log[a] = <<>>
    <3>1. log[a] \in Seq(Events) /\ Len(log[a]) = 0
      BY <1>a, <2>2, EmptySeq
    <3> QED
      BY <3>1, EmptySeq
  <2> QED
    BY <1>b, <2>1, <2>2, <2>3 DEF LedgerInv, ReceiptMatchesLog, Pending
<1>3. ASSUME NEW a \in Ids, StartRequestFails(a) PROVE RecordsInv'
  <2>1. svc' = NoFile /\ UNCHANGED <<log, rcpt, runVars, thread, verdict>>
    BY <1>3 DEF StartRequestFails
  <2> QED
    BY <1>b, <2>1 DEF LedgerInv, ReceiptMatchesLog, Pending
<1>4. ASSUME NEW a \in Ids, StartAdmit(a) PROVE RecordsInv'
  <2>1. /\ Emit(a, "admitted") /\ "admitted" \in Events
        /\ thread' = [thread EXCEPT ![a] = "prepare"] /\ svc' = NoFile /\ Pending(a)
        /\ svc # NoFile /\ svc.op = "admit" /\ svc.id = a
        /\ UNCHANGED <<rcpt, runs, receipt, verdict>>
    BY <1>4, <1>d DEF StartAdmit, Pending, Events
  <2>2. a \in runs /\ rcpt[a] = NoFile /\ receipt[a] = NoFile
    BY <2>1, <1>b, <1>c DEF RunInv, LedgerInv
  <2>3. log'[a] = events'[a] /\ \A b \in Ids : b # a => events'[b] = events[b] /\ log'[b] = log[b]
    BY <2>1, <2>2, EmitBoth
  <2>4. thread'[a] = "prepare" /\ \A b \in Ids : b # a => thread'[b] = thread[b]
    BY <1>a, <2>1
  <2> QED
    BY <1>b, <2>1, <2>2, <2>3, <2>4 DEF LedgerInv, ReceiptMatchesLog, Pending, Absent
<1>5. ASSUME NEW a \in Ids, NEW s \in Statuses, PrepareFails(a, s) PROVE RecordsInv'
  <2>1. /\ UNCHANGED <<log, rcpt, runs, events, receipt, svc>>
        /\ thread[a] = "prepare" /\ thread'[a] = "finish"
        /\ \A b \in Ids : b # a => thread'[b] = thread[b] /\ verdict'[b] = verdict[b]
    BY <1>5, <1>a DEF PrepareFails, Conclude
  <2> QED
    BY <1>b, <2>1 DEF LedgerInv, ReceiptMatchesLog, Pending
<1>6. ASSUME NEW a \in Ids, Arm(a) PROVE RecordsInv'
  <2>1. /\ UNCHANGED <<rcpt, runs, receipt, svc>>
        /\ thread[a] = "prepare" /\ thread'[a] \in {"finish", "armed"}
        /\ \A b \in Ids : b # a => thread'[b] = thread[b] /\ verdict'[b] = verdict[b]
    BY <1>6, <1>a DEF Arm, Conclude
  <2>2. a \in runs /\ a \notin recovered /\ rcpt[a] = NoFile /\ receipt[a] = NoFile
    BY <2>1, <1>b, <1>c DEF RunInv, LedgerInv
  <2>3. \/ UNCHANGED <<events, log>>
        \/ /\ log'[a] = events'[a]
           /\ \A b \in Ids : b # a => events'[b] = events[b] /\ log'[b] = log[b]
    <3>1. "started" \in Events
      BY DEF Events
    <3> QED
      BY <1>6, <1>d, <2>2, <3>1, EmitBoth DEF Arm
  <2>4. ~(svc # NoFile /\ svc.op = "persist" /\ svc.id = a)
    BY <2>2, <1>c DEF RunInv
  <2> QED
    BY <1>b, <2>1, <2>2, <2>3, <2>4 DEF LedgerInv, ReceiptMatchesLog, Pending, Absent
<1>7. ASSUME NEW a \in Ids, Launch(a) PROVE RecordsInv'
  <2>1. /\ UNCHANGED <<log, rcpt, runs, events, receipt, svc, verdict>>
        /\ thread[a] = "armed" /\ thread'[a] = "running"
        /\ \A b \in Ids : b # a => thread'[b] = thread[b]
    BY <1>7, <1>a DEF Launch
  <2> QED
    BY <1>b, <2>1 DEF LedgerInv, ReceiptMatchesLog, Pending
<1>8. ASSUME NEW a \in Ids, NEW s \in Statuses, EndRun(a, s) PROVE RecordsInv'
  <2>1. /\ UNCHANGED <<log, rcpt, runs, events, receipt, svc>>
        /\ thread[a] \in {"armed", "running"} /\ thread'[a] = "finish"
        /\ \A b \in Ids : b # a => thread'[b] = thread[b] /\ verdict'[b] = verdict[b]
    BY <1>8, <1>a DEF EndRun, Conclude
  <2> QED
    BY <1>b, <2>1 DEF LedgerInv, ReceiptMatchesLog, Pending
<1>9. ASSUME NEW a \in Ids, Finish(a) PROVE RecordsInv'
  <2>1. /\ UNCHANGED <<rcpt, runs, receipt, svc, verdict>>
        /\ thread[a] = "finish" /\ thread'[a] = "persist" /\ Emit(a, verdict[a])
        /\ \A b \in Ids : b # a => thread'[b] = thread[b]
    BY <1>9, <1>a, <1>d DEF Finish
  <2>2. a \in runs /\ a \notin recovered /\ rcpt[a] = NoFile /\ receipt[a] = NoFile
    BY <2>1, <1>b, <1>c DEF RunInv, LedgerInv
  <2>3. /\ log'[a] = events'[a] /\ EndsWith(log'[a], verdict[a])
        /\ \A b \in Ids : b # a => events'[b] = events[b] /\ log'[b] = log[b]
    <3>1. verdict[a] \in Events
      BY <1>a DEF Events
    <3> QED
      BY <2>1, <2>2, <3>1, EmitBoth
  <2>4. ~(svc # NoFile /\ svc.op = "persist" /\ svc.id = a)
    BY <2>2, <1>c DEF RunInv
  <2> QED
    BY <1>b, <2>1, <2>2, <2>3, <2>4 DEF LedgerInv, ReceiptMatchesLog, Pending, Absent
<1>10. ASSUME NEW a \in Ids, Persist(a) PROVE RecordsInv'
  <2>1. /\ UNCHANGED <<log, runs, events, svc, verdict>> /\ PersistReceipt(a, verdict[a])
        /\ thread[a] = "persist" /\ thread'[a] = "none"
        /\ \A b \in Ids : b # a => thread'[b] = thread[b]
    BY <1>10, <1>a, <1>d DEF Persist
  <2>2. a \in runs /\ a \notin recovered /\ log[a] = events[a] /\ EndsWith(log[a], verdict[a])
    BY <2>1, <1>b, <1>c DEF RunInv, LedgerInv
  <2>3. /\ receipt'[a] = rcpt'[a] /\ rcpt'[a].events = log[a] /\ rcpt'[a].status = verdict[a]
        /\ \A b \in Ids : b # a => receipt'[b] = receipt[b] /\ rcpt'[b] = rcpt[b]
    BY <1>a, <2>1, <2>2 DEF PersistReceipt, MakeReceipt
  <2>4. svc # NoFile /\ svc.id = a => svc.op \notin {"request", "admit", "persist"}
    BY <2>1, <2>2, <1>c DEF RunInv
  <2> QED
    BY <1>b, <2>1, <2>2, <2>3, <2>4 DEF LedgerInv, ReceiptMatchesLog, Pending, EndsWith
<1>11. ASSUME NEW a \in Ids, Cancel(a) PROVE RecordsInv'
  <2>1. /\ UNCHANGED <<rcpt, runs, receipt, svc, thread, verdict>> /\ Emit(a, "cancel_requested")
        /\ a \in runs /\ thread[a] # "persist" /\ receipt[a] = NoFile /\ svc = NoFile
    BY <1>11, <1>d DEF Cancel, Unlocked, Ready
  <2>2. rcpt[a] = NoFile
    BY <2>1, <1>b DEF LedgerInv
  <2>3. /\ log'[a] = events'[a]
        /\ \A b \in Ids : b # a => events'[b] = events[b] /\ log'[b] = log[b]
    <3>1. "cancel_requested" \in Events
      BY DEF Events
    <3> QED
      BY <2>1, <3>1, EmitBoth
  <2> QED
    BY <1>b, <2>1, <2>2, <2>3 DEF LedgerInv, ReceiptMatchesLog, Pending, Absent
<1>12. ASSUME NEW a \in Ids, ShowReceipt(a) PROVE RecordsInv'
  BY <1>12, <1>b DEF ShowReceipt, LedgerInv, ReceiptMatchesLog, Pending
<1>13. ASSUME NEW a \in Ids, NEW s \in Statuses, Terminalize(a, s) PROVE RecordsInv'
  <2>1. /\ UNCHANGED <<rcpt, runs, receipt, thread, verdict>> /\ Emit(a, s) /\ s \in Events
        /\ a \in runs /\ a \in recovered /\ receipt[a] = NoFile /\ svc = NoFile
        /\ svc'.op = "persist" /\ svc'.id = a /\ svc'.arg = s
    BY <1>13, <1>d DEF Terminalize, Unlocked, Ready, Events
  <2>2. rcpt[a] = NoFile /\ thread[a] = "none"
    BY <2>1, <1>b, <1>c DEF LedgerInv, RunInv
  <2>3. /\ log'[a] = events'[a] /\ EndsWith(log'[a], s)
        /\ \A b \in Ids : b # a => events'[b] = events[b] /\ log'[b] = log[b]
    BY <2>1, EmitBoth
  <2> QED
    BY <1>b, <2>1, <2>2, <2>3 DEF LedgerInv, ReceiptMatchesLog, Pending, Absent
<1>14. ASSUME NEW a \in Ids, TerminalizePersist(a) PROVE RecordsInv'
  <2>1. /\ UNCHANGED <<log, runs, events, thread, verdict>> /\ PersistReceipt(a, svc.arg)
        /\ svc # NoFile /\ svc.op = "persist" /\ svc.id = a /\ svc' = NoFile
    BY <1>14, <1>d DEF TerminalizePersist
  <2>2. a \in runs /\ thread[a] = "none" /\ log[a] = events[a] /\ EndsWith(log[a], svc.arg)
    BY <2>1, <1>b, <1>c DEF RunInv, LedgerInv
  <2>3. /\ receipt'[a] = rcpt'[a] /\ rcpt'[a].events = log[a] /\ rcpt'[a].status = svc.arg
        /\ \A b \in Ids : b # a => receipt'[b] = receipt[b] /\ rcpt'[b] = rcpt[b]
    BY <1>a, <2>1, <2>2 DEF PersistReceipt, MakeReceipt
  <2> QED
    BY <1>b, <2>1, <2>2, <2>3 DEF LedgerInv, ReceiptMatchesLog, Pending, EndsWith
<1>15. ASSUME NEW a \in Ids, ReconcileQuarantine(a) PROVE RecordsInv'
  <2>1. /\ UNCHANGED <<log, rcpt, runVars, thread, verdict>> /\ svc = NoFile
        /\ svc' = NoFile \/ svc'.op = "unmark"
    BY <1>15 DEF ReconcileQuarantine, Ready
  <2> QED
    BY <1>b, <2>1 DEF LedgerInv, ReceiptMatchesLog, Pending
<1>16. ASSUME NEW a \in Ids, ReconcileUnmark(a) PROVE RecordsInv'
  BY <1>16, <1>b DEF ReconcileUnmark, LedgerInv, ReceiptMatchesLog, Pending
<1>17. ASSUME NEW a \in Ids, Rot(a) PROVE RecordsInv'
  <2>1. /\ UNCHANGED <<log, runVars, thread, verdict, svc>> /\ runs = {} /\ svc = NoFile
        /\ \A b \in Ids : thread[b] = "none"
        /\ \A b \in Ids : rcpt'[b] = rcpt[b] \/ rcpt'[b] = Bad
    BY <1>17, <1>a, <1>c DEF Rot, AdmissionInv
  <2> QED
    BY <1>b, <2>1 DEF LedgerInv, ReceiptMatchesLog, Pending, Absent
<1>18. ASSUME NEW a \in Ids, LoadDir(a) PROVE RecordsInv'
  <2>1. /\ UNCHANGED <<log, rcpt, thread, verdict, svc>> /\ runs' = runs \cup {a}
        /\ log[a] = events'[a] /\ receipt'[a] = rcpt[a]
        /\ \A b \in Ids : b # a => events'[b] = events[b] /\ receipt'[b] = receipt[b]
    BY <1>18, <1>a DEF LoadDir
  <2>2. svc = NoFile /\ \A b \in Ids : thread[b] = "none"
    BY <1>18, <1>c DEF LoadDir, AdmissionInv
  <2> QED
    BY <1>b, <2>1, <2>2 DEF LedgerInv, ReceiptMatchesLog, Pending
<1>19. ASSUME NEW a \in Ids, QuarantineRename(a) PROVE RecordsInv'
  <2>1. /\ UNCHANGED <<runVars, thread, verdict, svc>> /\ a \in todo
        /\ rcpt'[a] = NoFile /\ \A b \in Ids : b # a => log'[b] = log[b] /\ rcpt'[b] = rcpt[b]
    BY <1>19, <1>a DEF QuarantineRename
  <2>2. svc = NoFile /\ (\A b \in Ids : thread[b] = "none") /\ a \notin runs
    BY <1>19, <1>c, <2>1 DEF QuarantineRename, AdmissionInv, RunInv
  <2> QED
    BY <1>b, <2>1, <2>2 DEF LedgerInv, ReceiptMatchesLog, Pending, Absent
<1>20. ASSUME NEW a \in Ids, QuarantineRefused(a) PROVE RecordsInv'
  BY <1>20, <1>b DEF QuarantineRefused, LedgerInv, ReceiptMatchesLog, Pending
<1>21. ASSUME NEW a \in Ids, QuarantineRecord(a) PROVE RecordsInv'
  BY <1>21, <1>b DEF QuarantineRecord, Quarantining, LedgerInv, ReceiptMatchesLog, Pending
<1>22. ASSUME NEW a \in Ids, QuarantineTombstone(a) PROVE RecordsInv'
  BY <1>22, <1>b DEF QuarantineTombstone, Quarantining, LedgerInv, ReceiptMatchesLog, Pending
<1>23. ASSUME NEW a \in Ids, QuarantineMark(a) PROVE RecordsInv'
  BY <1>23, <1>b DEF QuarantineMark, Quarantining, LedgerInv, ReceiptMatchesLog, Pending
<1>24. ASSUME Crash PROVE RecordsInv'
  <2>1. /\ UNCHANGED <<log, rcpt>> /\ runs' = {} /\ svc' = NoFile
        /\ \A b \in Ids : thread'[b] = "none"
    BY <1>24 DEF Crash, Blank
  <2> QED
    BY <1>b, <2>1 DEF LedgerInv, ReceiptMatchesLog, Pending
<1>25. ASSUME Restart PROVE RecordsInv'
  BY <1>25, <1>b DEF Restart, LedgerInv, ReceiptMatchesLog, Pending
<1>26. ASSUME LoadDone PROVE RecordsInv'
  BY <1>26, <1>b DEF LoadDone, LedgerInv, ReceiptMatchesLog, Pending
<1>27. CASE UNCHANGED vars
  BY <1>27, <1>b DEF vars, LedgerInv, ReceiptMatchesLog, Pending
<1> QED
  BY <1>1, <1>2, <1>3, <1>4, <1>5, <1>6, <1>7, <1>8, <1>9, <1>10, <1>11, <1>12, <1>13, <1>14,
     <1>15, <1>16, <1>17, <1>18, <1>19, <1>20, <1>21, <1>22, <1>23, <1>24, <1>25, <1>26, <1>27
     DEF Next, Started, Executing, Serving, Loading, Statuses

\* A receipt that was shown stays the receipt of its run, or its identity is refused.
LEMMA ShownStep ==
    ASSUME "emit" \notin IOFaults, "receipt" \notin IOFaults,
           TypeOK, IdentityInv, RunInv, RecordsInv, ShownInv, [Next]_vars
    PROVE  ShownInv'
<1>a. /\ rcpt \in [Ids -> Receipts \cup Absent] /\ receipt \in [Ids -> Receipts \cup {NoFile}]
      /\ shown \in [Ids -> SUBSET Statuses]
  BY DEF TypeOK, DiskTypeOK, RunsTypeOK, HistoryTypeOK
<1>b. \A b \in Ids : Claimed(b) => Claimed(b)'
  BY EvidenceStays
<1>c. Bad # NoFile /\ NoFile \notin Envs
  BY ConstantsAssumption
<1>d. \A a, status : ~PersistFails(a, status)
  BY DEF PersistFails, Fault
<1>e. LedgerInv
  BY DEF RecordsInv
<1>f. ASSUME UNCHANGED <<dirs, rcpt, shown>> PROVE ShownInv'
  BY <1>b, <1>f DEF ShownInv
<1> USE DEF disk, loadVars, runVars, deadVars, execVars, history
<1>1. ASSUME NEW a \in Ids, NEW e \in Envs, Start(a, e) PROVE ShownInv'
  <2>1. UNCHANGED <<rcpt, shown>> /\ dirs' = dirs \cup {a}
    BY <1>1 DEF Start
  <2>2. shown[a] = {}
    BY <1>1, AdmittedIsFresh DEF ShownInv
  <2> QED
    BY <1>b, <2>1, <2>2 DEF ShownInv
<1>2. ASSUME NEW a \in Ids, StartRequest(a) PROVE ShownInv'
  BY <1>2, <1>f DEF StartRequest
<1>3. ASSUME NEW a \in Ids, StartRequestFails(a) PROVE ShownInv'
  BY <1>3, <1>f DEF StartRequestFails
<1>4. ASSUME NEW a \in Ids, StartAdmit(a) PROVE ShownInv'
  BY <1>4, <1>f DEF StartAdmit
<1>5. ASSUME NEW a \in Ids, NEW s \in Statuses, PrepareFails(a, s) PROVE ShownInv'
  BY <1>5, <1>f DEF PrepareFails, Conclude
<1>6. ASSUME NEW a \in Ids, Arm(a) PROVE ShownInv'
  BY <1>6, <1>f DEF Arm, Conclude
<1>7. ASSUME NEW a \in Ids, Launch(a) PROVE ShownInv'
  BY <1>7, <1>f DEF Launch
<1>8. ASSUME NEW a \in Ids, NEW s \in Statuses, EndRun(a, s) PROVE ShownInv'
  BY <1>8, <1>f DEF EndRun, Conclude
<1>9. ASSUME NEW a \in Ids, Finish(a) PROVE ShownInv'
  BY <1>9, <1>f DEF Finish
<1>10. ASSUME NEW a \in Ids, Persist(a) PROVE ShownInv'
  <2>1. UNCHANGED <<dirs, shown>> /\ a \in dirs /\ rcpt[a] = NoFile
    BY <1>10, <1>e DEF Persist, RunInv, LedgerInv
  <2>2. \A b \in Ids : b # a => rcpt'[b] = rcpt[b]
    BY <1>10, <1>a, <1>d DEF Persist, PersistReceipt
  <2>3. shown[a] = {}
    BY <1>c, <2>1 DEF ShownInv
  <2> QED
    BY <1>b, <2>1, <2>2, <2>3 DEF ShownInv
<1>11. ASSUME NEW a \in Ids, Cancel(a) PROVE ShownInv'
  BY <1>11, <1>f DEF Cancel, Unlocked, Ready
<1>12. ASSUME NEW a \in Ids, ShowReceipt(a) PROVE ShownInv'
  <2>1. /\ UNCHANGED <<dirs, rcpt>> /\ a \in dirs /\ req[a] \in Envs
        /\ receipt[a] = rcpt[a] /\ receipt[a] # NoFile
    BY <1>12, <1>e DEF ShowReceipt, Unlocked, RunInv, LedgerInv
  <2>2. /\ shown'[a] = shown[a] \cup {rcpt[a].status}
        /\ \A b \in Ids : b # a => shown'[b] = shown[b]
    BY <1>12, <1>a, <2>1 DEF ShowReceipt
  <2>3. Claimed(a)'
    BY <1>12, <1>b, <1>c, <2>1 DEF Claimed
  <2>4. rcpt[a] # Bad /\ rcpt[a].status \in Statuses
    BY <1>a, <2>1, ConstantsAssumption DEF Receipts, Absent
  <2>5. shown'[a] = {rcpt[a].status}
    BY <2>1, <2>2, <2>4 DEF ShownInv
  <2> QED
    BY <1>b, <2>1, <2>2, <2>3, <2>4, <2>5 DEF ShownInv
<1>13. ASSUME NEW a \in Ids, NEW s \in Statuses, Terminalize(a, s) PROVE ShownInv'
  BY <1>13, <1>f DEF Terminalize, Unlocked, Ready
<1>14. ASSUME NEW a \in Ids, TerminalizePersist(a) PROVE ShownInv'
  <2>1. UNCHANGED <<dirs, shown>> /\ a \in dirs /\ rcpt[a] = NoFile
    BY <1>14, <1>e DEF TerminalizePersist, RunInv, LedgerInv
  <2>2. \A b \in Ids : b # a => rcpt'[b] = rcpt[b]
    BY <1>14, <1>a, <1>d DEF TerminalizePersist, PersistReceipt
  <2>3. shown[a] = {}
    BY <1>c, <2>1 DEF ShownInv
  <2> QED
    BY <1>b, <2>1, <2>2, <2>3 DEF ShownInv
<1>15. ASSUME NEW a \in Ids, ReconcileQuarantine(a) PROVE ShownInv'
  BY <1>15, <1>f DEF ReconcileQuarantine, Ready
<1>16. ASSUME NEW a \in Ids, ReconcileUnmark(a) PROVE ShownInv'
  BY <1>16, <1>f DEF ReconcileUnmark
<1>17. ASSUME NEW a \in Ids, Rot(a) PROVE ShownInv'
  <2>1. /\ UNCHANGED <<dirs, shown>>
        /\ \A b \in Ids : rcpt'[b] = rcpt[b] \/ rcpt'[b] = Bad
    BY <1>17, <1>a DEF Rot
  <2> QED
    BY <1>b, <2>1 DEF ShownInv
<1>18. ASSUME NEW a \in Ids, LoadDir(a) PROVE ShownInv'
  BY <1>18, <1>f DEF LoadDir
<1>19. ASSUME NEW a \in Ids, QuarantineRename(a) PROVE ShownInv'
  <2>1. /\ UNCHANGED shown /\ dirs' = dirs \ {a}
        /\ \A b \in Ids : b # a => rcpt'[b] = rcpt[b]
    BY <1>19, <1>a DEF QuarantineRename
  <2> QED
    BY <1>b, <2>1 DEF ShownInv
<1>20. ASSUME NEW a \in Ids, QuarantineRefused(a) PROVE ShownInv'
  BY <1>20, <1>f DEF QuarantineRefused
<1>21. ASSUME NEW a \in Ids, QuarantineRecord(a) PROVE ShownInv'
  BY <1>21, <1>f DEF QuarantineRecord, Quarantining
<1>22. ASSUME NEW a \in Ids, QuarantineTombstone(a) PROVE ShownInv'
  BY <1>22, <1>f DEF QuarantineTombstone, Quarantining
<1>23. ASSUME NEW a \in Ids, QuarantineMark(a) PROVE ShownInv'
  BY <1>23, <1>f DEF QuarantineMark, Quarantining
<1>24. ASSUME Crash PROVE ShownInv'
  BY <1>24, <1>f DEF Crash, Blank
<1>25. ASSUME Restart PROVE ShownInv'
  BY <1>25, <1>f DEF Restart
<1>26. ASSUME LoadDone PROVE ShownInv'
  BY <1>26, <1>f DEF LoadDone
<1>27. CASE UNCHANGED vars
  BY <1>27, <1>f DEF vars
<1> QED
  BY <1>1, <1>2, <1>3, <1>4, <1>5, <1>6, <1>7, <1>8, <1>9, <1>10, <1>11, <1>12, <1>13, <1>14,
     <1>15, <1>16, <1>17, <1>18, <1>19, <1>20, <1>21, <1>22, <1>23, <1>24, <1>25, <1>26, <1>27
     DEF Next, Started, Executing, Serving, Loading, Statuses

\* The initial state satisfies every invariant.
LEMMA InitInv == Init => TypeOK /\ IdentityInv /\ NoDuplicateWork
<1> SUFFICES ASSUME Init PROVE TypeOK /\ IdentityInv /\ NoDuplicateWork
  OBVIOUS
<1>1. TypeOK
  BY ConstantsAssumption DEF Init, TypeOK, DiskTypeOK, RunsTypeOK, ServiceTypeOK,
     HistoryTypeOK, BudgetTypeOK, Blank, Absent, Threads, Statuses
<1>2. FilesInv /\ MemoryInv /\ QuarantineInv
  BY DEF Init, FilesInv, MemoryInv, QuarantineInv, Blank, Absent
<1>3. WorkInv /\ ProtectedInv
  BY DEF Init, WorkInv, ProtectedInv, Claimed, Pending, Blank
<1>4. NoDuplicateWork
  BY DEF Init, NoDuplicateWork, EnvelopeHandedOnce, Blank
<1> QED
  BY <1>1, <1>2, <1>3, <1>4 DEF IdentityInv

\* Every state of the service has its type, whichever writes fail: what each
\* write stores is what recovery expects to read.
THEOREM TypeCorrect == Spec => []TypeOK
<1>1. TypeOK /\ QuarantineInv /\ [Next]_vars => (TypeOK /\ QuarantineInv)'
  BY TypeStep, QuarantineStep
<1>2. Init => TypeOK /\ QuarantineInv
  BY InitInv DEF IdentityInv
<1> QED
  BY <1>1, <1>2, PTL DEF Spec

\* The invariant of recovery: as long as a quarantine record can be written,
\* every identity with durable evidence of use is refused by start, through
\* any sequence of crashes, corruptions and other failing writes.
THEOREM IdentityProtected ==
    ASSUME "qrecord" \notin IOFaults
    PROVE  Spec => [](TypeOK /\ IdentityInv)
<1>1. TypeOK /\ IdentityInv /\ [Next]_vars => (TypeOK /\ IdentityInv)'
  BY TypeStep, QuarantineStep, FilesStep, MemoryStep, ProtectedStep, WorkStep DEF IdentityInv
<1> QED
  BY InitInv, <1>1, PTL DEF Spec

\* No work twice: no assignment and no envelope is handed to a runner a second
\* time, for any number of identities, crashes, corruptions and write errors
\* other than that of the quarantine record.
THEOREM WorkIsDoneOnce ==
    ASSUME "qrecord" \notin IOFaults
    PROVE  Spec => []NoDuplicateWork
<1>1. TypeOK /\ IdentityInv /\ NoDuplicateWork /\ [Next]_vars => NoDuplicateWork'
  BY NoDuplicateStep
<1> QED
  BY InitInv, IdentityProtected, <1>1, PTL DEF Spec

\* Nothing was recorded, handed over or shown before the service first ran.
LEMMA InitRecords ==
    Init => AdmissionInv /\ RunInv /\ EvidenceInv /\ EnvelopeInv /\ RecordsInv /\ ShownInv
<1> SUFFICES ASSUME Init PROVE AdmissionInv /\ RunInv /\ EvidenceInv /\ EnvelopeInv
                                /\ RecordsInv /\ ShownInv
  OBVIOUS
<1>1. AdmissionInv /\ RunInv
  BY DEF Init, AdmissionInv, RunInv, Pending, Blank
<1>2. EvidenceInv /\ EnvelopeInv /\ ShownInv
  BY DEF Init, EvidenceInv, EnvelopeInv, ShownInv, Blank
<1>3. RecordsInv
  BY DEF Init, RecordsInv, LedgerInv, ReceiptMatchesLog, Pending, Blank, Absent
<1> QED
  BY <1>1, <1>2, <1>3

\* Which writes fail does not matter here: a run in memory has its directory and
\* request, a state root with admitted work is unambiguous, no two directories
\* hold one envelope, and handed-over work left its "started" record.
THEOREM RunsAreRecorded ==
    Spec => [](TypeOK /\ QuarantineInv /\ AdmissionInv /\ RunInv /\ EvidenceInv /\ EnvelopeInv)
<1> DEFINE Inv == TypeOK /\ QuarantineInv /\ AdmissionInv /\ RunInv /\ EvidenceInv
                  /\ EnvelopeInv
<1>1. Init => Inv
  BY InitInv, InitRecords DEF IdentityInv
<1>2. Inv /\ [Next]_vars => Inv'
  BY TypeStep, QuarantineStep, AdmissionStep, RunStep, EvidenceStep, EnvelopeStep
<1> QED
  BY <1>1, <1>2, PTL DEF Spec

\* Work that _execute handed to a runner left durable evidence, through any
\* crash, corruption, quarantine and failing write.
THEOREM HandedWorkLeavesEvidence == Spec => []WorkLeavesEvidence
<1>1. EvidenceInv => WorkLeavesEvidence
  BY DEF EvidenceInv, WorkLeavesEvidence
<1> QED
  BY RunsAreRecorded, <1>1, PTL

\* The admission check that start makes under the service lock still holds when
\* _execute hands the work over later, under the lock of the run.
THEOREM AmbiguityBlocksWork == Spec => NoWorkWhileAmbiguous
<1> DEFINE HandsOverSafely == \A a \in Ids : handed'[a] # handed[a] => up = "ready" /\ amb = {}
<1>1. AdmissionInv /\ [Next]_vars => [HandsOverSafely]_vars
  <2> SUFFICES ASSUME AdmissionInv, [Next]_vars PROVE HandsOverSafely
    OBVIOUS
  <2>1. CASE UNCHANGED <<handed, envHanded>>
    BY <2>1
  <2>2. ASSUME NEW a \in Ids, Arm(a) PROVE HandsOverSafely
    BY <2>2 DEF Arm, AdmissionInv, Pending
  <2> QED
    BY <2>1, <2>2, OnlyArmHandsOver
<1> QED
  BY RunsAreRecorded, <1>1, PTL DEF Spec, NoWorkWhileAmbiguous

\* What the service tells of a run stays true, for any number of runs, crashes
\* and corruptions, as long as events, receipts and quarantine records can be
\* written: no second run for an envelope, no second receipt for a run, and no
\* receipt that its log contradicts.
THEOREM RecordsStayConsistent ==
    ASSUME "qrecord" \notin IOFaults, "emit" \notin IOFaults, "receipt" \notin IOFaults
    PROVE  Spec => []RecordsConsistent
<1> DEFINE Told == TypeOK /\ IdentityInv /\ AdmissionInv /\ RunInv /\ EnvelopeInv
<1>1. RecordsInv /\ ShownInv /\ Told /\ [Next]_vars => (RecordsInv /\ ShownInv)'
  BY RecordsStep, ShownStep
<1>2. RecordsInv /\ ShownInv /\ Told => RecordsConsistent
  <2> SUFFICES ASSUME RecordsInv, ShownInv, Told PROVE RecordsConsistent
    OBVIOUS
  <2>1. OneRunPerEnvelope
    BY DEF OneRunPerEnvelope, EnvelopeInv, RunInv, TypeOK, RunsTypeOK
  <2>2. ReceiptNeverContradicted
    <3> SUFFICES ASSUME NEW a \in Ids PROVE Cardinality(shown[a]) <= 1
      BY DEF ReceiptNeverContradicted
    <3>1. shown[a] = {} \/ \E status : shown[a] = {status}
      BY DEF ShownInv
    <3>2. Cardinality({}) = 0
      BY FS_EmptySet
    <3>3. \A status : Cardinality({status}) = 1
      BY FS_Singleton
    <3>4. Cardinality(shown[a]) = 0 \/ Cardinality(shown[a]) = 1
      BY <3>1, <3>2, <3>3
    <3> QED
      BY <3>4
  <2> QED
    BY <2>1, <2>2 DEF RecordsConsistent, RecordsInv
<1>3. Spec => []Told
  BY IdentityProtected, RunsAreRecorded, PTL
<1> QED
  BY InitRecords, <1>1, <1>2, <1>3, PTL DEF Spec

(***************************************************************************)
(* The command boundary, for any number of sessions, verifiers, loops and  *)
(* generations and for any command budget.                                 *)
(***************************************************************************)
USE SessionAssumption, NoneAssumption

\* Appending adds one element to what a sequence holds.
LEMMA AppendRange ==
    ASSUME NEW S, NEW seq \in Seq(S), NEW e
    PROVE  Elements(Append(seq, e)) = Elements(seq) \cup {e}
<1>. DEFINE new == Append(seq, e)
<1>1. /\ DOMAIN new = 1..(Len(seq) + 1) /\ DOMAIN seq = 1..Len(seq)
      /\ Len(seq) \in Nat
      /\ \A i \in 1..Len(seq) : new[i] = seq[i]
      /\ new[Len(seq) + 1] = e
  OBVIOUS
<1>2. ASSUME NEW x \in Elements(new) PROVE x \in Elements(seq) \cup {e}
  <2>1. PICK i \in 1..(Len(seq) + 1) : x = new[i]
    BY <1>1, <1>2 DEF Elements
  <2>2. i \in 1..Len(seq) \/ i = Len(seq) + 1
    BY <1>1
  <2>. QED BY <1>1, <2>1, <2>2 DEF Elements
<1>3. ASSUME NEW x \in Elements(seq) \cup {e} PROVE x \in Elements(new)
  <2>1. CASE x = e
    <3>1. Len(seq) + 1 \in 1..(Len(seq) + 1)
      BY <1>1
    <3>. QED BY <1>1, <2>1, <3>1 DEF Elements
  <2>2. CASE x \in Elements(seq)
    <3>1. PICK i \in 1..Len(seq) : x = seq[i]
      BY <1>1, <2>2 DEF Elements
    <3>2. i \in 1..(Len(seq) + 1)
      BY <1>1
    <3>. QED BY <1>1, <3>1, <3>2 DEF Elements
  <2>. QED BY <1>3, <2>1, <2>2
<1>. QED BY <1>2, <1>3

\* Every step of the boundary keeps every variable in its type.
LEMMA SessionTypeStep ==
    ASSUME SessionTypeOK, BoundInv, HandsInv, [SessionNext]_sessionVars
    PROVE  SessionTypeOK'
<1>. USE DEF SessionTypeOK, registry, verifier, loop
<1>1. ASSUME NEW s \in Sessions, Provision(s) PROVE SessionTypeOK'
  <2>1. gen' \in [Sessions -> 0..MaxGen] /\ active' \in [Sessions -> 0..MaxGen]
    BY <1>1 DEF Provision
  <2>2. dead' \subseteq Secrets
    BY <1>1 DEF Provision, Retired, Secret, Secrets
  <2>. QED BY <1>1, <2>1, <2>2 DEF Provision
<1>2. ASSUME NEW s \in Sessions, Revoke(s) PROVE SessionTypeOK'
  <2>1. dead' \subseteq Secrets
    BY <1>2 DEF Revoke, Retired, Secret, Secrets
  <2>. QED BY <1>2, <2>1 DEF Revoke
<1>3. ASSUME NEW f \in Frames, Send(f) PROVE SessionTypeOK'
  BY <1>3 DEF Send
<1>4. ASSUME NEW v \in Verifiers, NEW secret \in Secrets, Build(v, secret)
      PROVE  SessionTypeOK'
  BY <1>4 DEF Build
<1>5. ASSUME NEW l \in Loops, NEW v \in Verifiers, Serve(l, v) PROVE SessionTypeOK'
  BY <1>5 DEF Serve
<1>6. ASSUME NEW l \in Loops, NEW f \in Frames, Receive(l, f) PROVE SessionTypeOK'
  BY <1>6 DEF Receive, Pcs
<1>7. ASSUME NEW l \in Loops, CheckActive(l) PROVE SessionTypeOK'
  BY <1>7 DEF CheckActive, Pcs
<1>8. ASSUME NEW l \in Loops, CheckFails(l) \/ Refuse(l) \/ ApplyFails(l)
      PROVE  SessionTypeOK'
  BY <1>8 DEF CheckFails, Refuse, ApplyFails, Finished, Pcs
<1>9. ASSUME NEW l \in Loops, Accept(l) PROVE SessionTypeOK'
  <2>1. serves[l] \in Verifiers /\ frame[l] \in Frames
    BY <1>9 DEF Accept, BoundInv
  <2>2. frame[l].nonce \in Nonces
    BY <1>9, <2>1 DEF Accept, Admissible, Frames
  <2>. QED BY <1>9, <2>1, <2>2 DEF Accept, Pcs, Nonces
<1>10. ASSUME NEW l \in Loops, Apply(l) PROVE SessionTypeOK'
  <2>1. serves[l] \in Verifiers /\ frame[l] \in Frames
    BY <1>10 DEF Apply, BoundInv
  <2>2. frame[l].nonce \in Nonces
    BY <1>10, <2>1 DEF Apply, HandsInv, HeldInv, Elements
  <2>. QED BY <1>10, <2>1, <2>2 DEF Apply, Finished, Pcs
<1>11. ASSUME NEW l \in Loops, EndLoop(l) PROVE SessionTypeOK'
  BY <1>11 DEF EndLoop
<1>12. CASE UNCHANGED sessionVars
  BY <1>12 DEF sessionVars
<1>. QED
  BY <1>1, <1>2, <1>3, <1>4, <1>5, <1>6, <1>7, <1>8, <1>9, <1>10, <1>11, <1>12
     DEF SessionNext

\* A frame in hand stays bound to its loop's verifier: verifiers are bound
\* once, and a loop is only given another verifier when idle.
LEMMA BoundStep ==
    ASSUME SessionTypeOK, BoundInv, [SessionNext]_sessionVars
    PROVE  BoundInv'
<1>. USE DEF SessionTypeOK, BoundInv, registry, verifier, loop
<1>1. ASSUME NEW s \in Sessions, Provision(s) \/ Revoke(s) PROVE BoundInv'
  BY <1>1 DEF Provision, Revoke
<1>2. ASSUME NEW f \in Frames, Send(f) PROVE BoundInv'
  BY <1>2 DEF Send
<1>3. ASSUME NEW v \in Verifiers, NEW secret \in Secrets, Build(v, secret)
      PROVE  BoundInv'
  <2>1. ASSUME NEW l \in Loops, pc[l] # "idle" PROVE serves[l] # v
    BY <1>3, <2>1 DEF Build, Frames
  <2>. QED BY <1>3, <2>1 DEF Build
<1>4. ASSUME NEW l \in Loops, NEW v \in Verifiers, Serve(l, v) PROVE BoundInv'
  BY <1>4 DEF Serve
<1>5. ASSUME NEW l \in Loops, NEW f \in Frames, Receive(l, f) PROVE BoundInv'
  BY <1>5 DEF Receive
<1>6. ASSUME NEW l \in Loops, CheckActive(l) PROVE BoundInv'
  BY <1>6 DEF CheckActive
<1>7. ASSUME NEW l \in Loops,
             CheckFails(l) \/ Refuse(l) \/ Apply(l) \/ ApplyFails(l)
      PROVE  BoundInv'
  BY <1>7 DEF CheckFails, Refuse, Apply, ApplyFails, Finished
<1>8. ASSUME NEW l \in Loops, Accept(l) PROVE BoundInv'
  BY <1>8 DEF Accept
<1>9. ASSUME NEW l \in Loops, EndLoop(l) PROVE BoundInv'
  BY <1>9 DEF EndLoop
<1>10. CASE UNCHANGED sessionVars
  BY <1>10 DEF sessionVars
<1>. QED
  BY <1>1, <1>2, <1>3, <1>4, <1>5, <1>6, <1>7, <1>8, <1>9, <1>10 DEF SessionNext

\* What a verifier has accepted, as one formula.
Ledger == HistoryInv /\ NoncesIncrease /\ HistoryWithinBudget

\* The ledger of every verifier survives every step: only Accept adds to it.
LEMMA LedgerStep ==
    ASSUME SessionTypeOK, BoundInv, Ledger, [SessionNext]_sessionVars
    PROVE  Ledger'
<1>. USE DEF Ledger, HistoryInv, NoncesIncrease, HistoryWithinBudget
<1>1. CASE UNCHANGED <<seen, high, accepted>>
  BY <1>1 DEF Elements
<1>2. ASSUME NEW l \in Loops, Accept(l) PROVE Ledger'
  <2>. DEFINE v == serves[l]
              n == frame[l].nonce
              old == accepted[v]
              new == accepted'[v]
  <2>1. v \in Verifiers /\ frame[l] \in Frames
    BY <1>2 DEF Accept, BoundInv
  <2>2. n \in Nat /\ high[v] <= n /\ n \notin seen[v]
        /\ Cardinality(seen[v]) < MaxCommands
    BY <1>2, <2>1 DEF Accept, Admissible, Frames, Nonces
  <2>3. /\ old \in Seq(Nat) /\ high[v] \in Nat
        /\ new = Append(old, n) /\ high'[v] = n + 1
        /\ seen'[v] = seen[v] \cup {n}
    BY <1>2, <2>1 DEF Accept, SessionTypeOK, Nonces
  <2>4. /\ Len(new) = Len(old) + 1 /\ DOMAIN new = 1..(Len(old) + 1)
        /\ DOMAIN old = 1..Len(old) /\ Len(old) \in Nat
        /\ \A i \in 1..Len(old) : new[i] = old[i] /\ old[i] \in Nat
        /\ new[Len(old) + 1] = n
    BY <2>2, <2>3
  <2>5. \A i \in DOMAIN new : new[i] < high'[v]
    <3>. SUFFICES ASSUME NEW i \in 1..(Len(old) + 1) PROVE new[i] < n + 1
      BY <2>3, <2>4
    <3>1. CASE i = Len(old) + 1
      BY <3>1, <2>2, <2>4
    <3>2. CASE i \in 1..Len(old)
      <4>1. old[i] < high[v]
        BY <3>2, <2>1, <2>4
      <4>2. new[i] = old[i] /\ old[i] \in Nat
        BY <3>2, <2>4
      <4>3. n \in Nat /\ high[v] \in Nat /\ high[v] <= n
        BY <2>2, <2>3
      <4>. QED BY <4>1, <4>2, <4>3
    <3>. QED BY <3>1, <3>2, <2>4
  <2>6. \A i, j \in DOMAIN new : i < j => new[i] < new[j]
    <3>. SUFFICES ASSUME NEW i \in 1..(Len(old) + 1),
                         NEW j \in 1..(Len(old) + 1), i < j
                  PROVE  new[i] < new[j]
      BY <2>4
    <3>1. i \in 1..Len(old)
      BY <2>4
    <3>2. CASE j = Len(old) + 1
      <4>1. old[i] < high[v]
        BY <3>1, <2>1, <2>4
      <4>2. new[i] = old[i] /\ old[i] \in Nat /\ new[j] = n
        BY <3>1, <3>2, <2>4
      <4>3. n \in Nat /\ high[v] \in Nat /\ high[v] <= n
        BY <2>2, <2>3
      <4>. QED BY <4>1, <4>2, <4>3
    <3>3. CASE j \in 1..Len(old)
      <4>1. old[i] < old[j]
        BY <3>1, <3>3, <2>1, <2>4
      <4>. QED BY <3>1, <3>3, <4>1, <2>4
    <3>. QED BY <3>2, <3>3, <2>4
  <2>7. seen'[v] = Elements(new)
    BY <2>1, <2>3, AppendRange
  <2>8. /\ IsFiniteSet(seen'[v]) /\ Cardinality(seen'[v]) = Len(new)
        /\ Len(new) <= MaxCommands
    <3>1. IsFiniteSet(seen[v]) /\ Cardinality(seen[v]) = Len(old)
      BY <2>1
    <3>2. /\ IsFiniteSet(seen[v] \cup {n})
          /\ Cardinality(seen[v] \cup {n}) = Cardinality(seen[v]) + 1
      BY <3>1, <2>2, FS_AddElement
    <3>. QED BY <3>1, <3>2, <2>2, <2>3, <2>4
  <2>9. \A w \in Verifiers \ {v} :
          /\ accepted'[w] = accepted[w] /\ high'[w] = high[w]
          /\ seen'[w] = seen[w]
    BY <1>2, <2>1 DEF Accept, SessionTypeOK
  <2>10. HistoryInv'
    BY <2>5, <2>8, <2>9
  <2>11. NoncesIncrease'
    <3>. SUFFICES ASSUME NEW w \in Verifiers
                  PROVE  \A i, j \in DOMAIN accepted'[w] :
                           i < j => accepted'[w][i] < accepted'[w][j]
      OBVIOUS
    <3>. QED BY <2>6, <2>9
  <2>12. HistoryWithinBudget'
    BY <2>7, <2>8, <2>9 DEF Elements
  <2>. QED BY <2>10, <2>11, <2>12
<1>3. UNCHANGED <<seen, high, accepted>> \/ \E l \in Loops : Accept(l)
  BY DEF SessionNext, sessionVars, registry, verifier, loop, Provision, Revoke, Send, Build,
         Serve, EndLoop, Receive, CheckActive, CheckFails, Refuse, Apply,
         ApplyFails
<1>. QED BY <1>1, <1>2, <1>3

\* What loops hold and what was routed.
Hands == HandsInv /\ AppliedOnce

\* Accept hands out a nonce above every accepted one, and Apply routes the
\* one nonce it holds.
LEMMA HandsStep ==
    ASSUME SessionTypeOK, BoundInv, HistoryInv, Hands, [SessionNext]_sessionVars
    PROVE  Hands'
<1>. USE DEF Hands
<1>1. ASSUME UNCHANGED <<accepted, applied>>,
             \A l \in Loops : pc'[l] = "apply" =>
                 /\ pc[l] = "apply"
                 /\ frame'[l] = frame[l] /\ serves'[l] = serves[l]
      PROVE  Hands'
  <2>1. HeldInv'
    BY <1>1 DEF HandsInv, HeldInv
  <2>2. DistinctInv'
    BY <1>1 DEF HandsInv, DistinctInv
  <2>3. AppliedOnce'
    BY <1>1 DEF AppliedOnce, Elements
  <2>. QED BY <2>1, <2>2, <2>3 DEF HandsInv
<1>2. ASSUME NEW l \in Loops, Accept(l) PROVE Hands'
  <2>. DEFINE v == serves[l]
              n == frame[l].nonce
  <2>1. v \in Verifiers /\ frame[l] \in Frames
    BY <1>2 DEF Accept, BoundInv
  <2>2. n \in Nat /\ high[v] <= n /\ high[v] \in Nat
    BY <1>2, <2>1 DEF Accept, Admissible, Frames, Nonces, SessionTypeOK
  <2>3. /\ Elements(accepted'[v]) = Elements(accepted[v]) \cup {n}
        /\ \A w \in Verifiers \ {v} : accepted'[w] = accepted[w]
    <3>1. accepted[v] \in Seq(Nonces) /\ accepted'[v] = Append(accepted[v], n)
      BY <1>2, <2>1 DEF Accept, SessionTypeOK
    <3>2. Elements(Append(accepted[v], n)) = Elements(accepted[v]) \cup {n}
      BY <3>1, AppendRange
    <3>. QED BY <1>2, <2>1, <3>1, <3>2 DEF Accept, SessionTypeOK
  <2>4. n \notin Elements(accepted[v])
    BY <2>1, <2>2 DEF HistoryInv, Elements
  <2>5. /\ UNCHANGED <<applied, frame, serves>> /\ pc'[l] = "apply"
        /\ \A k \in Loops \ {l} : pc'[k] = pc[k]
    BY <1>2 DEF Accept, SessionTypeOK
  <2>6. \A w \in Verifiers : Elements(accepted[w]) \subseteq Elements(accepted'[w])
    BY <2>3 DEF Elements
  <2>7. \A w \in Verifiers : Elements(applied[w]) \subseteq Elements(accepted[w])
    BY DEF AppliedOnce
  <2>8. \A k \in Loops : pc[k] = "apply" =>
          /\ serves[k] \in Verifiers
          /\ frame[k].nonce \in Elements(accepted[serves[k]])
          /\ frame[k].nonce \notin Elements(applied[serves[k]])
    BY DEF HandsInv, HeldInv, BoundInv
  <2>9. ASSUME NEW k \in Loops, pc'[k] = "apply"
        PROVE  /\ frame[k].nonce \in Elements(accepted'[serves[k]])
               /\ frame[k].nonce \notin Elements(applied[serves[k]])
    <3>1. CASE k = l
      BY <3>1, <2>1, <2>3, <2>4, <2>7
    <3>2. CASE k # l
      BY <3>2, <2>5, <2>6, <2>8, <2>9
    <3>. QED BY <3>1, <3>2
  <2>10. ASSUME NEW j \in Loops, NEW k \in Loops, j # k,
                pc'[j] = "apply", pc'[k] = "apply", serves[j] = serves[k]
         PROVE  frame[j].nonce # frame[k].nonce
    <3>1. CASE j = l
      BY <3>1, <2>4, <2>5, <2>8, <2>10
    <3>2. CASE k = l
      BY <3>2, <2>4, <2>5, <2>8, <2>10
    <3>3. CASE j # l /\ k # l
      BY <3>3, <2>5, <2>10 DEF HandsInv, DistinctInv
    <3>. QED BY <3>1, <3>2, <3>3
  <2>11. HeldInv' /\ DistinctInv'
    BY <2>5, <2>9, <2>10 DEF HeldInv, DistinctInv
  <2>12. AppliedOnce'
    <3>1. \A w \in Verifiers : Elements(applied[w]) \subseteq Elements(accepted'[w])
      BY <2>6, <2>7
    <3>. QED BY <3>1, <2>5 DEF AppliedOnce, Elements
  <2>. QED BY <2>11, <2>12 DEF HandsInv
<1>3. ASSUME NEW l \in Loops, Apply(l) PROVE Hands'
  <2>. DEFINE v == serves[l]
              n == frame[l].nonce
              old == applied[v]
              new == applied'[v]
  <2>1. /\ v \in Verifiers
        /\ n \in Elements(accepted[v]) /\ n \notin Elements(old)
    BY <1>3 DEF Apply, BoundInv, HandsInv, HeldInv
  <2>2. /\ old \in Seq(Nonces) /\ new = Append(old, n)
        /\ \A w \in Verifiers \ {v} : applied'[w] = applied[w]
    BY <1>3, <2>1 DEF Apply, SessionTypeOK
  <2>3. Elements(new) = Elements(old) \cup {n}
    BY <2>2, AppendRange
  <2>4. /\ UNCHANGED <<accepted, serves>> /\ pc'[l] = "idle"
        /\ \A k \in Loops \ {l} : pc'[k] = pc[k] /\ frame'[k] = frame[k]
    BY <1>3 DEF Apply, Finished, SessionTypeOK
  <2>5. ASSUME NEW k \in Loops, pc'[k] = "apply"
        PROVE  /\ frame'[k].nonce \in Elements(accepted'[serves'[k]])
               /\ frame'[k].nonce \notin Elements(applied'[serves'[k]])
    <3>1. k # l /\ pc[k] = "apply" /\ frame'[k] = frame[k] /\ serves'[k] = serves[k]
      BY <2>4, <2>5
    <3>2. /\ serves[k] \in Verifiers
          /\ frame[k].nonce \in Elements(accepted[serves[k]])
          /\ frame[k].nonce \notin Elements(applied[serves[k]])
      BY <3>1 DEF HandsInv, HeldInv, BoundInv
    <3>3. serves[k] = v => frame[k].nonce # n
      BY <1>3, <3>1 DEF HandsInv, DistinctInv, Apply
    <3>4. frame[k].nonce \notin Elements(applied'[serves[k]])
      <4>1. CASE serves[k] = v
        BY <4>1, <2>3, <3>2, <3>3
      <4>2. CASE serves[k] # v
        BY <4>2, <2>2, <3>2
      <4>. QED BY <4>1, <4>2
    <3>. QED BY <2>4, <3>1, <3>2, <3>4
  <2>6. HeldInv'
    BY <2>5 DEF HeldInv
  <2>10. DistinctInv'
    BY <2>4 DEF HandsInv, DistinctInv
  <2>7. ASSUME NEW w \in Verifiers
        PROVE  Elements(applied'[w]) \subseteq Elements(accepted[w])
    <3>1. Elements(applied[w]) \subseteq Elements(accepted[w])
      BY DEF AppliedOnce
    <3>2. CASE w = v
      BY <3>1, <3>2, <2>1, <2>3
    <3>3. CASE w # v
      <4>1. applied'[w] = applied[w]
        BY <2>2, <3>3
      <4>. QED BY <3>1, <4>1
    <3>. QED BY <3>2, <3>3
  <2>8. \A i, j \in DOMAIN new : i # j => new[i] # new[j]
    <3>1. /\ DOMAIN new = 1..(Len(old) + 1) /\ DOMAIN old = 1..Len(old)
          /\ Len(old) \in Nat /\ new[Len(old) + 1] = n
          /\ \A i \in 1..Len(old) : new[i] = old[i]
      BY <2>2
    <3>2. \A i \in 1..Len(old) : old[i] # n
      BY <2>1, <3>1 DEF Elements
    <3>3. \A i, j \in 1..Len(old) : i # j => old[i] # old[j]
      BY <2>1, <3>1 DEF AppliedOnce
    <3>4. \A i \in DOMAIN new : i \in 1..Len(old) \/ i = Len(old) + 1
      BY <3>1
    <3>. QED BY <3>1, <3>2, <3>3, <3>4
  <2>9. AppliedOnce'
    <3>1. ASSUME NEW w \in Verifiers, NEW i \in DOMAIN applied'[w],
                 NEW j \in DOMAIN applied'[w], i # j
          PROVE  applied'[w][i] # applied'[w][j]
      <4>1. CASE w = v
        BY <4>1, <2>8, <3>1
      <4>2. CASE w # v
        <5>1. applied'[w] = applied[w]
          BY <2>2, <4>2
        <5>. QED BY <5>1, <3>1 DEF AppliedOnce
      <4>. QED BY <4>1, <4>2
    <3>. QED BY <2>4, <2>7, <3>1 DEF AppliedOnce
  <2>. QED BY <2>6, <2>9, <2>10 DEF HandsInv
<1>4. ASSUME NEW l \in Loops,
             \/ CheckActive(l) \/ CheckFails(l) \/ Refuse(l) \/ ApplyFails(l)
             \/ EndLoop(l)
             \/ \E v \in Verifiers : Serve(l, v)
             \/ \E f \in Frames : Receive(l, f)
      PROVE  Hands'
  <2>1. /\ UNCHANGED <<accepted, applied>>
        /\ \A k \in Loops : pc'[k] = "apply" =>
              pc[k] = "apply" /\ frame'[k] = frame[k] /\ serves'[k] = serves[k]
    BY <1>4 DEF CheckActive, CheckFails, Refuse, ApplyFails, EndLoop, Serve,
                Receive, Finished, verifier, SessionTypeOK, BoundInv
  <2>. QED BY <1>1, <2>1
<1>5. CASE UNCHANGED <<accepted, applied, pc, frame, serves>>
  BY <1>1, <1>5
<1>. QED
  BY <1>2, <1>3, <1>4, <1>5
     DEF SessionNext, sessionVars, registry, verifier, loop, Provision, Revoke, Send, Build

\* A retired secret is never active again, so a late frame stops at the
\* registry.
LEMMA RevocationStep ==
    ASSUME SessionTypeOK, BoundInv, RevocationInv, [SessionNext]_sessionVars
    PROVE  RevocationInv'
<1>. USE DEF SessionTypeOK, RevocationInv, Active, registry, verifier, loop
<1>1. ASSUME NEW s \in Sessions, Provision(s) PROVE RevocationInv'
  <2>1. /\ gen[s] \in Nat /\ active[s] \in Nat
        /\ gen' = [gen EXCEPT ![s] = gen[s] + 1]
        /\ active' = [active EXCEPT ![s] = gen[s] + 1]
    BY <1>1 DEF Provision
  <2>2. \A t \in Sessions : active'[t] <= gen'[t]
    BY <2>1
  <2>3. ASSUME NEW d \in dead' PROVE d.gen <= gen'[d.session] /\ ~Active(d)'
    <3>1. CASE d \in dead
      <4>1. d.session \in Sessions /\ d.gen \in Nat
        BY <3>1 DEF Secrets
      <4>. QED BY <2>1, <3>1, <4>1
    <3>2. CASE d = Secret(s, active[s])
      BY <2>1, <3>2 DEF Secret
    <3>. QED BY <1>1, <3>1, <3>2 DEF Provision, Retired
  <2>. QED BY <1>1, <2>2, <2>3 DEF Provision
<1>2. ASSUME NEW s \in Sessions, Revoke(s) PROVE RevocationInv'
  <2>1. /\ gen[s] \in Nat /\ active[s] \in Nat /\ gen' = gen
        /\ active' = [active EXCEPT ![s] = 0]
    BY <1>2 DEF Revoke
  <2>2. \A t \in Sessions : active'[t] <= gen'[t]
    BY <2>1
  <2>3. ASSUME NEW d \in dead' PROVE d.gen <= gen'[d.session] /\ ~Active(d)'
    <3>1. CASE d \in dead
      <4>1. d.session \in Sessions /\ d.gen \in 1..MaxGen
        BY <3>1 DEF Secrets
      <4>. QED BY <2>1, <3>1, <4>1
    <3>2. CASE active[s] # 0 /\ d = Secret(s, active[s])
      BY <2>1, <3>2 DEF Secret
    <3>. QED BY <1>2, <3>1, <3>2 DEF Revoke, Retired
  <2>. QED BY <1>2, <2>2, <2>3 DEF Revoke
<1>3. ASSUME NEW l \in Loops, NEW f \in Frames, Receive(l, f)
      PROVE  RevocationInv'
  BY <1>3 DEF Receive
<1>4. ASSUME NEW l \in Loops, CheckActive(l) PROVE RevocationInv'
  <2>1. ~late[l]
    BY <1>4 DEF CheckActive, BoundInv
  <2>. QED BY <1>4, <2>1 DEF CheckActive
<1>5. ASSUME NEW l \in Loops,
             \/ CheckFails(l) \/ Refuse(l) \/ Apply(l) \/ ApplyFails(l)
      PROVE  RevocationInv'
  <2>1. /\ UNCHANGED <<gen, active, dead>> /\ ~late'[l]
        /\ \A k \in Loops \ {l} :
              pc'[k] = pc[k] /\ frame'[k] = frame[k] /\ late'[k] = late[k]
    BY <1>5 DEF CheckFails, Refuse, Apply, ApplyFails, Finished
  <2>. QED BY <2>1
<1>6. ASSUME NEW l \in Loops, Accept(l) PROVE RevocationInv'
  BY <1>6 DEF Accept
<1>7. CASE UNCHANGED <<gen, active, dead, pc, frame, late>>
  BY <1>7
<1>. QED
  BY <1>1, <1>2, <1>3, <1>4, <1>5, <1>6, <1>7
     DEF SessionNext, sessionVars, Send, Build, Serve, EndLoop

-----------------------------------------------------------------------------
\* The boundary starts well typed and with nothing accepted, held or retired.
LEMMA SessionInitInv ==
    ASSUME SessionInit PROVE SessionTypeOK /\ SessionInv
<1>1. SessionTypeOK
  BY DEF SessionInit, SessionTypeOK, Pcs
<1>2. HistoryInv
  BY FS_EmptySet DEF SessionInit, HistoryInv
<1>3. BoundInv /\ HandsInv /\ RevocationInv
  BY DEF SessionInit, BoundInv, HandsInv, HeldInv, DistinctInv, RevocationInv
<1>4. NoncesIncrease /\ HistoryWithinBudget /\ AppliedOnce
  BY DEF SessionInit, NoncesIncrease, HistoryWithinBudget, AppliedOnce, Elements
<1>. QED BY <1>1, <1>2, <1>3, <1>4 DEF SessionInv

\* The invariant is inductive.
LEMMA SessionInvStep ==
    ASSUME SessionTypeOK, SessionInv, [SessionNext]_sessionVars PROVE SessionTypeOK' /\ SessionInv'
<1>1. SessionTypeOK' /\ BoundInv' /\ RevocationInv'
  BY SessionTypeStep, BoundStep, RevocationStep DEF SessionInv
<1>2. Ledger'
  BY LedgerStep DEF SessionInv, Ledger
<1>3. Hands'
  BY HandsStep DEF SessionInv, Hands
<1>. QED BY <1>1, <1>2, <1>3 DEF SessionInv, Ledger, Hands

\* Every reachable state of the command boundary is well typed and satisfies
\* the inductive invariant of verify, the registry and the loops.
THEOREM SessionInvariant == SessionSpec => [](SessionTypeOK /\ SessionInv)
<1>1. SessionInit => SessionTypeOK /\ SessionInv
  BY SessionInitInv
<1>2. SessionTypeOK /\ SessionInv /\ [SessionNext]_sessionVars => SessionTypeOK' /\ SessionInv'
  BY SessionInvStep
<1>. QED BY <1>1, <1>2, PTL DEF SessionSpec

\* verify accepts strictly increasing nonces, for any number of loops sharing
\* a verifier and any duplication or reordering of frames.
THEOREM NoncesAlwaysIncrease == SessionSpec => []NoncesIncrease
<1>1. SessionInv => NoncesIncrease
  BY DEF SessionInv
<1>. QED BY SessionInvariant, <1>1, PTL

\* handle_command routes a nonce to the service at most once.
THEOREM CommandsAppliedOnce == SessionSpec => []AppliedOnce
<1>1. SessionInv => AppliedOnce
  BY DEF SessionInv
<1>. QED BY SessionInvariant, <1>1, PTL

\* The history verify keeps is complete and within _MAX_SESSION_COMMANDS.
THEOREM HistoryBounded == SessionSpec => []HistoryWithinBudget
<1>1. SessionInv => HistoryWithinBudget
  BY DEF SessionInv
<1>. QED BY SessionInvariant, <1>1, PTL

\* A frame that arrives after its secret was revoked or rotated is not routed.
THEOREM RevocationIsFinal == SessionSpec => []NoneAfterRevocation
<1>1. SessionInv => NoneAfterRevocation
  BY DEF SessionInv, RevocationInv, NoneAfterRevocation
<1>. QED BY SessionInvariant, <1>1, PTL
=============================================================================
