-------------------------- MODULE GovernedRunProofs --------------------------
(***************************************************************************)
(* Proofs about the host's Runner on the native-container adapter and the  *)
(* artifact store, for any number of calls, Runners, files and faults: the *)
(* store's promises, who has a worker and when it is cleaned up, what the  *)
(* receipt and the audit log tell, and that the whole implements           *)
(* RunContract.                                                            *)
(***************************************************************************)
EXTENDS GovernedRun, SequenceTheorems, TLAPS

(***************************************************************************)
(* The store.  A copy in quarantine is of a regular file; only what the    *)
(* scanner accepts gets as far as the commit; what an export has entered   *)
(* has its object.                                                         *)
(***************************************************************************)
ExportOK(c) ==
    /\ export[c].at \in {"walk", "open", "copy", "scan", "commit"} => export[c].id \in RunIds
    /\ export[c].at \in {"open", "copy", "scan", "commit"} => export[c].file \in Files
    /\ export[c].at = "open" => export[c].tree[export[c].file] # None
    /\ export[c].at \in {"copy", "scan"} => export[c].copy \in {"clean", "dirty", "torn"}
    /\ export[c].at = "commit" => export[c].copy \in {"clean", "torn"}
    /\ \A e \in export[c].entries : objects[e[2]] # None

\* A delivery is of an entry of its manifest.  Between its two hashes the object is intact
\* unless its file is spoilt; after the second the sum is the digest unless it is.
DeliveryOK ==
    /\ delivery.at # "idle" => delivery.id \in RunIds /\ manifests[delivery.id] # None
    /\ delivery.at \in {"hash", "copy"} =>
         <<delivery.file, delivery.digest>> \in manifests[delivery.id]
    /\ delivery.at = "hash" =>
         delivery.file \in spoilt \/ objects[delivery.digest] = delivery.digest
    /\ delivery.at = "copy" => delivery.file \in spoilt \/ delivery.sum = delivery.digest

StoreInd == StoreTypeOK /\ StoreInv /\ DeliveryOK /\ \A c \in Calls : ExportOK(c)

(***************************************************************************)
(* The worker of a call.  The adapter's slot is held from launch to close, *)
(* by one call; its process has ended before it is reported or cleaned up, *)
(* and it is cleaned up before the slot is given back.                     *)
(***************************************************************************)
Held == {"poll", "read", "verify", "report", "cleanup", "close"} \cup Once
Over == {"returned", "error", "exporting", "done"}

WorkerOK(c) ==
    /\ (run[c].pc \in Held) <=> (active = c)
    /\ run[c].pc \in {"idle", "prepare", "backend"} => run[c].proc = "none"
    /\ run[c].pc \in Held => run[c].proc # "none"
    /\ run[c].pc \in {"report", "close"} \cup Once => run[c].proc # "alive"
    /\ run[c].pc \in {"revoked", "wipe", "wiping", "wiped", "close"} => run[c].revoked
    /\ run[c].pc \in {"wiped", "close"} => run[c].wiped
    /\ run[c].pc \in Over /\ run[c].proc # "none" =>
         run[c].proc # "alive" /\ run[c].revoked /\ run[c].wiped

\* The operator's stop has a run that was launched, and cleans up only once it has ended.
OperatorOK ==
    /\ op.pc \in {"stop"} \cup Once => op.target \in Calls /\ run[op.target].proc # "none"
    /\ op.pc \in Once => run[op.target].proc # "alive"

\* A call exports when its worker is cleaned up, and once.
PromotionOK(c) == export[c].at # "idle" => run[c].pc \in {"exporting", "error", "done"}

(***************************************************************************)
(* The Runner and its log.                                                 *)
(***************************************************************************)
\* Who has a Runner has it alone.
OwnerOK(c) ==
    /\ run[c].pc = "idle" => run[c].runner = None
    /\ run[c].pc \notin {"idle", "done"} =>
         /\ run[c].runner \in Runners /\ runner[run[c].runner].active
         /\ run[c].id \in RunIds /\ run[c].backend \in {"native", "other"}
         /\ \A d \in Calls : run[d].runner = run[c].runner /\ run[d].pc # "done" => d = c

\* What is reported was read to the end and ended as it claimed.
VerifiedOK(c) ==
    /\ run[c].pc \in Held => run[c].backend = "native"
    /\ run[c].pc = "verify" => run[c].read = 2
    /\ run[c].pc = "report" => run[c].read = 2 /\ run[c].proc = run[c].claim
    /\ run[c].pc \in {"idle", "prepare", "backend", "poll", "read", "verify", "report"} => run[c].why = None

\* A receipt is of a run that was verified and has not failed in its conversation.
Shown(r) ==
    /\ r.read = 2 /\ r.proc = r.claim
    /\ r.pc \in {"cleanup", "close"} \cup Once \cup Over
    /\ r.why \in {None, "audit", "hook"}

ReceiptOK(n) ==
    LET c == runner[n].receipt
    IN  c # None =>
        /\ run[c].runner = n /\ Shown(run[c])
        /\ \A d \in Calls : d # c /\ run[d].runner = n => run[d].pc = "done"

AuditOK(c) ==
    /\ run[c].pc \in {"idle", "prepare"} => audit[c] = <<>>
    /\ run[c].pc \in {"backend", "poll", "read", "verify", "report"} => audit[c] = <<"start">>
    /\ run[c].pc \in {"cleanup", "close", "error"} \cup Once =>
         audit[c] \in {<<"start">>, <<"start", "receipt">>}
    /\ run[c].pc = "cleanup" => run[c].why # None
    /\ run[c].pc \in {"close"} \cup Once /\ run[c].why = None => audit[c] = <<"start", "receipt">>
    /\ run[c].pc \in {"returned", "exporting"} =>
         audit[c] = IF run[c].backend = "native" THEN <<"start", "receipt">> ELSE <<"start">>
    /\ run[c].pc = "done" => run[c].outcome \in {"busy", "raised", "result"}
    /\ run[c].pc = "done" /\ run[c].outcome = "busy" => audit[c] = <<>>
    /\ run[c].pc = "done" /\ run[c].outcome = "raised" =>
         audit[c] \in {<<>>, <<"start">>, <<"start", "error">>,
                       <<"start", "receipt">>, <<"start", "receipt", "error">>}
    /\ run[c].pc = "done" /\ run[c].outcome = "result" =>
         audit[c] = IF run[c].backend = "native" THEN <<"start", "receipt", "end">>
                    ELSE <<"start", "end">>

(***************************************************************************)
(* The hooks.  Who sets a flag calls the hook next: a flag without its     *)
(* call is a call that the Runner's or the operator's thread is about to   *)
(* make.                                                                   *)
(***************************************************************************)
HooksOK(c) ==
    /\ run[c].revoked => \/ run[c].revokeCalled \/ run[c].pc = "revoked"
                         \/ op.target = c /\ op.pc = "revoked"
    /\ run[c].wiped => \/ run[c].wipeCalled \/ run[c].pc = "wiped"
                       \/ op.target = c /\ op.pc = "wiped"

(***************************************************************************)
(* The inductive invariant: what holds of each call by itself, and what    *)
(* relates it to the others, to the Runners and to the operator.           *)
(***************************************************************************)
RunTypes ==
    /\ runner \in [Runners -> RunnerStates]
    /\ run \in [Calls -> Runs]
    /\ audit \in [Calls -> Seq({"start", "receipt", "end", "error"})]
    /\ \A c \in Calls : run[c].read <= run[c].sent
    /\ dirs \subseteq Runners \X RunIds
    /\ active \in Calls \cup {None}
    /\ op \in [pc : {"idle", "stop", "done"} \cup Once, target : Calls \cup {None}]

CallOK(c) == WorkerOK(c) /\ PromotionOK(c) /\ VerifiedOK(c) /\ AuditOK(c) /\ HooksOK(c)

RunInd ==
    /\ RunTypes /\ OperatorOK
    /\ \A c \in Calls : CallOK(c) /\ OwnerOK(c)
    /\ \A n \in Runners : ReceiptOK(n)

GovernedInv == StoreInd /\ RunInd

-----------------------------------------------------------------------------
(***************************************************************************)
(* The store's steps.                                                      *)
(***************************************************************************)
USE StoreAssumption, RunAssumption DEF Data, Bytes, Procs

\* The progress of one export concerns the store's promises only through its entries.
LEMMA ExportMoves ==
    ASSUME StoreInd, NEW c \in Calls, NEW e \in Exports, export' = [export EXCEPT ![c] = e],
           quarantine' \subseteq RunIds, UNCHANGED <<objects, manifests, consumer>>,
           faults' \in 0..MaxFaults, ExportOK(c)'
    PROVE  StoreInd'
<1>0. UNCHANGED <<delivered, delivery, spoilt>>
  BY DEF consumer
<1>1. StoreTypeOK'
  BY <1>0 DEF StoreInd, StoreTypeOK
<1>2. StoreInv' /\ DeliveryOK'
  BY <1>0 DEF StoreInd, StoreInv, OnlyScannedPromoted, ManifestBacked, DeliveredAsPromised, DeliveryOK
<1>3. ASSUME NEW d \in Calls, d # c PROVE ExportOK(d)'
  <2>1. export'[d] = export[d]
    BY <1>3 DEF StoreInd, StoreTypeOK
  <2> QED
    BY <2>1 DEF StoreInd, ExportOK
<1> QED
  BY <1>1, <1>2, <1>3 DEF StoreInd

LEMMA StoreStays ==
    ASSUME StoreInd, UNCHANGED store, faults' \in 0..MaxFaults
    PROVE  StoreInd'
<1>0. UNCHANGED <<export, quarantine, objects, manifests, delivered, delivery, spoilt>>
  BY DEF store, consumer
<1>1. StoreTypeOK'
  BY <1>0 DEF StoreInd, StoreTypeOK
<1>2. StoreInv' /\ DeliveryOK'
  BY <1>0 DEF StoreInd, StoreInv, OnlyScannedPromoted, ManifestBacked, DeliveredAsPromised, DeliveryOK
<1>3. \A d \in Calls : ExportOK(d)'
  BY <1>0 DEF StoreInd, ExportOK
<1> QED
  BY <1>1, <1>2, <1>3 DEF StoreInd

LEMMA FaultCounts ==
    ASSUME StoreInd, Fault
    PROVE  faults' \in 0..MaxFaults
  BY DEF StoreInd, StoreTypeOK, Fault

\* The entries of a manifest name digests that have an object.
LEMMA EntriesBacked ==
    ASSUME StoreInd, NEW i \in RunIds, manifests[i] # None, NEW x \in manifests[i]
    PROVE  objects[x[2]] # None /\ x[2] \in Bytes
<1>1. manifests[i] \in SUBSET (Files \X Bytes)
  BY DEF StoreInd, StoreTypeOK
<1>2. x[2] \in Bytes
  BY <1>1
<1>3. objects[x[2]] # None
  BY DEF StoreInd, StoreInv, ManifestBacked
<1> QED
  BY <1>2, <1>3

LEMMA NoExportTyped ==
    /\ NoExport \in Exports
    /\ [NoExport EXCEPT !.at = "rejected"] \in Exports
    /\ [NoExport EXCEPT !.at = "exported"] \in Exports
  BY DEF NoExport, Exports

\* A rejected export has nothing left to go wrong.
LEMMA RejectKeepsStore ==
    ASSUME StoreInd, NEW c \in Calls, Reject(c), quarantine' = quarantine,
           UNCHANGED <<objects, manifests, consumer, faults>>
    PROVE  StoreInd'
<1> DEFINE e == [NoExport EXCEPT !.at = "rejected"]
<1>1. export' = [export EXCEPT ![c] = e] /\ e \in Exports
  BY NoExportTyped DEF Reject
<1>2. e.at = "rejected" /\ e.entries = {}
  BY DEF NoExport
<1>3. /\ export'[c] = e /\ quarantine' \subseteq RunIds /\ faults' \in 0..MaxFaults
  BY <1>1 DEF StoreInd, StoreTypeOK
<1> HIDE DEF e
<1>4. ExportOK(c)'
  BY <1>2, <1>3 DEF ExportOK
<1> QED
  BY <1>1, <1>3, <1>4, ExportMoves

\* An export begins in a quarantine directory of its own (export_tree).
LEMMA ExportTreeKeepsStore ==
    ASSUME StoreInd, NEW c \in Calls, NEW id \in RunIds, ExportTree(c, id), faults' = faults
    PROVE  StoreInd'
<1>0. export[c] \in Exports /\ quarantine \subseteq RunIds /\ faults \in 0..MaxFaults /\ ExportOK(c)
  BY DEF StoreInd, StoreTypeOK
<1>1. CASE id \in quarantine
  BY <1>1, RejectKeepsStore DEF ExportTree
<1>2. CASE id \notin quarantine
  <2>1. PICK tree \in Trees :
          export' = [export EXCEPT ![c].at = "walk", ![c].id = id, ![c].tree = tree]
    BY <1>2 DEF ExportTree
  <2> DEFINE e == [export[c] EXCEPT !.at = "walk", !.id = id, !.tree = tree]
  <2>4. e \in Exports /\ e.at = "walk" /\ e.id = id /\ e.entries = export[c].entries
    <3>1. tree \in [Files -> Data \cup {None}]
      OBVIOUS
    <3> QED
      BY <1>0, <3>1 DEF Exports
  <2>5. export' = [export EXCEPT ![c] = e]
    BY <2>1 DEF StoreInd, StoreTypeOK
  <2> HIDE DEF e
  <2>6. /\ quarantine' \subseteq RunIds /\ UNCHANGED <<objects, manifests, consumer>>
        /\ faults' \in 0..MaxFaults
    BY <1>0, <1>2 DEF ExportTree
  <2>7. ExportOK(c)'
    <3>1. export'[c] = e
      BY <2>5 DEF StoreInd, StoreTypeOK
    <3> QED
      BY <1>0, <2>4, <2>6, <3>1 DEF ExportOK
  <2> QED
    BY <2>4, <2>5, <2>6, <2>7, ExportMoves
<1> QED
  BY <1>1, <1>2

\* The next file is taken only if it is a regular one (export_tree, _export_one).
LEMMA NextFileKeepsStore ==
    ASSUME StoreInd, NEW c \in Calls, NextFile(c), faults' = faults
    PROVE  StoreInd'
<1>0. /\ export[c] \in Exports /\ quarantine \subseteq RunIds /\ faults \in 0..MaxFaults /\ ExportOK(c)
      /\ quarantine' = quarantine /\ UNCHANGED <<objects, manifests, consumer>>
      /\ faults' \in 0..MaxFaults /\ export[c].at = "walk"
  BY DEF StoreInd, StoreTypeOK, NextFile
<1>1. PICK f \in Remaining(c) :
        IF export[c].tree[f] = "link" \/ Cardinality(export[c].entries) >= MaxFiles
        THEN Reject(c)
        ELSE export' = [export EXCEPT ![c].at = "open", ![c].file = f]
  BY DEF NextFile
<1>2. CASE export[c].tree[f] = "link" \/ Cardinality(export[c].entries) >= MaxFiles
  BY <1>0, <1>1, <1>2, RejectKeepsStore
<1>3. CASE ~(export[c].tree[f] = "link" \/ Cardinality(export[c].entries) >= MaxFiles)
  <2>2. export' = [export EXCEPT ![c].at = "open", ![c].file = f]
    BY <1>1, <1>3
  <2>3. f \in Files /\ export[c].tree[f] # None
    BY DEF Remaining
  <2> DEFINE e == [export[c] EXCEPT !.at = "open", !.file = f]
  <2>4. /\ e \in Exports /\ e.at = "open" /\ e.id = export[c].id /\ e.tree = export[c].tree /\ e.file = f
        /\ e.entries = export[c].entries
    BY <1>0, <2>3 DEF Exports
  <2>5. export' = [export EXCEPT ![c] = e]
    BY <2>2 DEF StoreInd, StoreTypeOK
  <2> HIDE DEF e
  <2>6. ExportOK(c)'
    <3>1. export'[c] = e
      BY <2>5 DEF StoreInd, StoreTypeOK
    <3> QED
      BY <1>0, <2>3, <2>4, <3>1 DEF ExportOK
  <2> QED
    BY <1>0, <2>4, <2>5, <2>6, ExportMoves
<1> QED
  BY <1>2, <1>3

\* What is opened is a regular file with bytes to copy (_copy_regular).
LEMMA OpenFileKeepsStore ==
    ASSUME StoreInd, NEW c \in Calls, OpenFile(c), faults' = faults
    PROVE  StoreInd'
<1>0. /\ export[c] \in Exports /\ quarantine \subseteq RunIds /\ faults \in 0..MaxFaults /\ ExportOK(c)
      /\ quarantine' = quarantine /\ UNCHANGED <<objects, manifests, consumer>>
      /\ faults' \in 0..MaxFaults /\ export[c].at = "open"
  BY DEF StoreInd, StoreTypeOK, OpenFile
<1>1. CASE Reject(c)
  BY <1>0, <1>1, RejectKeepsStore
<1>2. CASE ~Reject(c)
  <2> DEFINE data == export[c].tree[export[c].file]
  <2>1. /\ data # "link" /\ export' = [export EXCEPT ![c].at = "copy", ![c].copy = data]
    BY <1>2 DEF OpenFile, SameFile
  <2>2. data \in {"clean", "dirty"}
    BY <1>0, <2>1 DEF ExportOK, Exports
  <2> HIDE DEF data
  <2> DEFINE e == [export[c] EXCEPT !.at = "copy", !.copy = data]
  <2>3. /\ e \in Exports /\ e.at = "copy" /\ e.id = export[c].id /\ e.tree = export[c].tree
        /\ e.file = export[c].file /\ e.entries = export[c].entries /\ e.copy = data
    BY <1>0, <2>2 DEF Exports
  <2>4. export' = [export EXCEPT ![c] = e]
    BY <2>1 DEF StoreInd, StoreTypeOK
  <2> HIDE DEF e
  <2>5. ExportOK(c)'
    <3>1. export'[c] = e
      BY <2>4 DEF StoreInd, StoreTypeOK
    <3> QED
      BY <1>0, <2>2, <2>3, <3>1 DEF ExportOK
  <2> QED
    BY <1>0, <2>3, <2>4, <2>5, ExportMoves
<1> QED
  BY <1>1, <1>2

\* A copy whose source looks unchanged goes to the scanner (_copy_regular).
LEMMA CopyRegularKeepsStore ==
    ASSUME StoreInd, NEW c \in Calls, CopyRegular(c), faults' = faults
    PROVE  StoreInd'
<1>0. /\ export[c] \in Exports /\ quarantine \subseteq RunIds /\ faults \in 0..MaxFaults /\ ExportOK(c)
      /\ quarantine' = quarantine /\ UNCHANGED <<objects, manifests, consumer>>
      /\ faults' \in 0..MaxFaults /\ export[c].at = "copy"
  BY DEF StoreInd, StoreTypeOK, CopyRegular
<1>1. CASE Reject(c)
  BY <1>0, <1>1, RejectKeepsStore
<1>2. CASE At(c, "scan")
  <2> DEFINE e == [export[c] EXCEPT !.at = "scan"]
  <2>1. /\ e \in Exports /\ e.at = "scan" /\ e.id = export[c].id
        /\ e.file = export[c].file /\ e.entries = export[c].entries /\ e.copy = export[c].copy
    BY <1>0 DEF Exports
  <2>2. export' = [export EXCEPT ![c] = e]
    BY <1>2 DEF StoreInd, StoreTypeOK, At
  <2> HIDE DEF e
  <2>3. ExportOK(c)'
    <3>1. export'[c] = e
      BY <2>2 DEF StoreInd, StoreTypeOK
    <3> QED
      BY <1>0, <2>1, <3>1 DEF ExportOK
  <2> QED
    BY <1>0, <2>1, <2>2, <2>3, ExportMoves
<1> QED
  BY <1>1, <1>2 DEF CopyRegular

\* What the scanner lets through is not dirty, whatever it leaves in the file (_export_one).
LEMMA ScanKeepsStore ==
    ASSUME StoreInd, NEW c \in Calls, Scan(c), faults' = faults
    PROVE  StoreInd'
<1>0. /\ export[c] \in Exports /\ quarantine \subseteq RunIds /\ faults \in 0..MaxFaults /\ ExportOK(c)
      /\ quarantine' = quarantine /\ UNCHANGED <<objects, manifests, consumer>>
      /\ faults' \in 0..MaxFaults /\ export[c].at = "scan"
  BY DEF StoreInd, StoreTypeOK, Scan
<1>1. CASE Reject(c)
  BY <1>0, <1>1, RejectKeepsStore
<1>2. CASE ~Reject(c)
  <2>1. PICK bytes \in {export[c].copy, "dirty"} :
          export' = [export EXCEPT ![c].at = "commit", ![c].kept = bytes]
    BY <1>2 DEF Scan
  <2>2. export[c].copy \in {"clean", "torn"}
    BY <1>0, <1>2 DEF Scan, ExportOK
  <2> DEFINE e == [export[c] EXCEPT !.at = "commit", !.kept = bytes]
  <2>3. /\ e \in Exports /\ e.at = "commit" /\ e.id = export[c].id
        /\ e.file = export[c].file /\ e.entries = export[c].entries /\ e.copy = export[c].copy
    BY <1>0, <2>2 DEF Exports
  <2>4. export' = [export EXCEPT ![c] = e]
    BY <2>1 DEF StoreInd, StoreTypeOK
  <2> HIDE DEF e
  <2>5. ExportOK(c)'
    <3>1. export'[c] = e
      BY <2>4 DEF StoreInd, StoreTypeOK
    <3> QED
      BY <1>0, <2>2, <2>3, <3>1 DEF ExportOK
  <2> QED
    BY <1>0, <2>3, <2>4, <2>5, ExportMoves
<1> QED
  BY <1>1, <1>2

\* What an object holds only ever changes when it appears or is damaged: where no object
\* changes except from none, the manifests and the deliveries are as well off as before.
LEMMA NewObjectKeeps ==
    ASSUME StoreInd, NEW b \in Bytes, b # "dirty", objects[b] \in {None, b},
           objects' = [objects EXCEPT ![b] = b], UNCHANGED <<manifests, consumer>>
    PROVE  /\ StoreInv' /\ DeliveryOK'
           /\ objects' \in [Bytes -> Bytes \cup {None}] /\ objects'[b] # None
           /\ \A d \in Bytes : objects[d] # None => objects'[d] # None
<1>0. /\ objects \in [Bytes -> Bytes \cup {None}] /\ UNCHANGED <<delivered, delivery, spoilt, manifests>>
      /\ manifests \in [RunIds -> (SUBSET (Files \X Bytes)) \cup {None}]
  BY DEF StoreInd, StoreTypeOK, consumer
<1>1. /\ objects' \in [Bytes -> Bytes \cup {None}] /\ objects'[b] = b
      /\ \A d \in Bytes : d # b => objects'[d] = objects[d]
  BY <1>0
<1>2. \A d \in Bytes : objects[d] # None => objects'[d] = objects[d] /\ objects'[d] # None
  BY <1>1
<1>3. OnlyScannedPromoted'
  BY <1>1 DEF StoreInd, StoreInv, OnlyScannedPromoted
<1>4. ManifestBacked'
  <2> SUFFICES ASSUME NEW i \in RunIds, manifests[i] # None, NEW x \in manifests[i]
               PROVE  objects'[x[2]] # None
    BY <1>0 DEF ManifestBacked
  <2>1. objects[x[2]] # None /\ x[2] \in Bytes
    BY EntriesBacked
  <2> QED
    BY <1>2, <2>1
<1>5. DeliveredAsPromised'
  BY <1>0 DEF StoreInd, StoreInv, DeliveredAsPromised
<1>6. DeliveryOK'
  <2>0. DeliveryOK /\ delivery \in Deliveries
    BY DEF StoreInd, StoreTypeOK
  <2>1. ASSUME delivery.at = "hash", objects[delivery.digest] = delivery.digest
        PROVE  objects'[delivery.digest] = delivery.digest
    <3>1. delivery.digest \in Bytes
      <4>1. /\ delivery.id \in RunIds /\ manifests[delivery.id] # None
            /\ <<delivery.file, delivery.digest>> \in manifests[delivery.id]
        BY <2>0, <2>1 DEF DeliveryOK
      <4>2. manifests[delivery.id] \in SUBSET (Files \X Bytes)
        BY <1>0, <4>1
      <4> QED
        BY <4>1, <4>2
    <3> QED
      BY <1>2, <2>1, <3>1
  <2> QED
    BY <1>0, <2>0, <2>1 DEF DeliveryOK
<1> QED
  BY <1>1, <1>2, <1>3, <1>4, <1>5, <1>6 DEF StoreInv

\* What the scanner accepted becomes an object, and it becomes one before it is entered (_export_one).
LEMMA CommitKeepsStore ==
    ASSUME StoreInd, NEW c \in Calls, Commit(c), faults' = faults
    PROVE  StoreInd'
<1>0. /\ export \in [Calls -> Exports] /\ export[c] \in Exports /\ quarantine \subseteq RunIds
      /\ faults \in 0..MaxFaults /\ ExportOK(c) /\ objects \in [Bytes -> Bytes \cup {None}]
      /\ quarantine' = quarantine /\ UNCHANGED <<manifests, consumer>>
      /\ export[c].at = "commit" /\ export[c].copy \in {"clean", "torn"} /\ export[c].file \in Files
  BY DEF StoreInd, StoreTypeOK, Commit, ExportOK
<1> DEFINE b == export[c].copy
<1>b. b \in Bytes /\ b # "dirty"
  BY <1>0
<1>1. CASE Reject(c) /\ UNCHANGED objects
  BY <1>0, <1>1, RejectKeepsStore
<1>2. CASE objects[b] \in {None, b} /\ Exported(c, b) /\ objects' = [objects EXCEPT ![b] = b]
  <2>0. export' = [export EXCEPT ![c].at = "walk", ![c].copy = None, ![c].kept = None, ![c].moved = FALSE,
                                 ![c].entries = @ \cup {<<export[c].file, b>>}]
    BY <1>2 DEF Exported
  <2>a. objects[b] \in {None, b} /\ objects' = [objects EXCEPT ![b] = b]
    BY <1>2
  <2> HIDE DEF b
  <2> DEFINE all == export[c].entries \cup {<<export[c].file, b>>}
             e == [export[c] EXCEPT !.at = "walk", !.copy = None, !.kept = None, !.moved = FALSE, !.entries = all]
  <2>1. all \in SUBSET (Files \X Bytes)
    <3>1. export[c].entries \in SUBSET (Files \X Bytes)
      BY <1>0 DEF Exports
    <3>2. <<export[c].file, b>> \in Files \X Bytes
      BY <1>0, <1>b
    <3> QED
      BY <3>1, <3>2
  <2>2. export' = [export EXCEPT ![c] = e]
    BY <1>0, <2>0
  <2> HIDE DEF all
  <2>3. e \in Exports /\ e.at = "walk" /\ e.id = export[c].id /\ e.entries = all
    BY <1>0, <2>1 DEF Exports
  <2> HIDE DEF e
  <2>4. /\ StoreInv' /\ DeliveryOK' /\ objects' \in [Bytes -> Bytes \cup {None}] /\ objects'[b] # None
        /\ \A d \in Bytes : objects[d] # None => objects'[d] # None
    BY <1>0, <1>b, <2>a, NewObjectKeeps
  <2>5. StoreTypeOK'
    BY <1>0, <2>2, <2>3, <2>4 DEF StoreInd, StoreTypeOK, consumer
  <2>6. ASSUME NEW d \in Calls PROVE ExportOK(d)'
    <3>1. CASE d = c
      <4>1. export'[d] = e
        BY <1>0, <2>2, <3>1
      <4>2. \A x \in all : objects'[x[2]] # None
        <5> SUFFICES ASSUME NEW x \in all PROVE objects'[x[2]] # None
          OBVIOUS
        <5>1. CASE x \in export[c].entries
          <6>1. x[2] \in Bytes /\ objects[x[2]] # None
            BY <1>0, <5>1 DEF ExportOK, Exports
          <6> QED
            BY <2>4, <6>1
        <5>2. CASE x = <<export[c].file, b>>
          BY <2>4, <5>2
        <5> QED
          BY <5>1, <5>2 DEF all
      <4> QED
        BY <1>0, <2>3, <4>1, <4>2 DEF ExportOK
    <3>2. CASE d # c
      <4>1. export'[d] = export[d] /\ export[d] \in Exports /\ ExportOK(d)
        BY <1>0, <2>2, <3>2 DEF StoreInd
      <4>2. \A x \in export[d].entries : objects'[x[2]] # None
        BY <2>4, <4>1 DEF ExportOK, Exports
      <4> QED
        BY <4>1, <4>2 DEF ExportOK
    <3> QED
      BY <3>1, <3>2
  <2> QED
    BY <2>4, <2>5, <2>6 DEF StoreInd
<1> QED
  BY <1>0, <1>1, <1>2 DEF Commit

\* A manifest appears when all its entries have their objects (export_tree).
LEMMA WriteManifestKeepsStore ==
    ASSUME StoreInd, NEW c \in Calls, WriteManifest(c), faults' = faults
    PROVE  StoreInd'
<1>0. /\ export \in [Calls -> Exports] /\ export[c] \in Exports /\ quarantine \subseteq RunIds
      /\ faults \in 0..MaxFaults /\ ExportOK(c)
      /\ manifests \in [RunIds -> (SUBSET (Files \X Bytes)) \cup {None}]
      /\ quarantine' = quarantine /\ UNCHANGED <<objects, consumer>>
      /\ export[c].at = "walk" /\ export[c].id \in RunIds
  BY DEF StoreInd, StoreTypeOK, WriteManifest, ExportOK
<1>1. CASE manifests[export[c].id] # None
  BY <1>0, <1>1, RejectKeepsStore DEF WriteManifest
<1>2. CASE manifests[export[c].id] = None
  <2> DEFINE e == [NoExport EXCEPT !.at = "exported"]
             i == export[c].id
  <2>1. e \in Exports /\ e.at = "exported" /\ e.entries = {}
    BY NoExportTyped DEF NoExport
  <2>2. export' = [export EXCEPT ![c] = e] /\ manifests' = [manifests EXCEPT ![i] = export[c].entries]
    BY <1>0, <1>2 DEF WriteManifest
  <2> HIDE DEF e
  <2>3. export[c].entries \in SUBSET (Files \X Bytes) /\ UNCHANGED <<delivered, delivery, spoilt>>
    BY <1>0 DEF Exports, consumer
  <2>k. \A j \in RunIds : manifests[j] # None => manifests'[j] = manifests[j]
    BY <1>0, <1>2, <2>2
  <2>4. StoreTypeOK'
    BY <1>0, <2>1, <2>2, <2>3 DEF StoreInd, StoreTypeOK
  <2>5. StoreInv'
    <3>1. OnlyScannedPromoted'
      BY <1>0 DEF StoreInd, StoreInv, OnlyScannedPromoted
    <3>2. ManifestBacked'
      <4> SUFFICES ASSUME NEW j \in RunIds, manifests'[j] # None, NEW x \in manifests'[j]
                   PROVE  objects[x[2]] # None
        BY <1>0 DEF ManifestBacked
      <4>1. CASE j = i
        BY <1>0, <2>2, <4>1 DEF ExportOK
      <4>2. CASE j # i
        BY <1>0, <2>2, <4>2 DEF StoreInd, StoreInv, ManifestBacked
      <4> QED
        BY <4>1, <4>2
    <3>3. DeliveredAsPromised'
      BY <2>3, <2>k DEF StoreInd, StoreInv, DeliveredAsPromised
    <3> QED
      BY <3>1, <3>2, <3>3 DEF StoreInv
  <2>d. DeliveryOK'
    <3>1. DeliveryOK
      BY DEF StoreInd
    <3>2. delivery.at # "idle" => manifests'[delivery.id] = manifests[delivery.id]
      BY <2>k, <3>1 DEF DeliveryOK
    <3>3. delivery.at \in {"idle", "next", "hash", "copy"}
      BY DEF StoreInd, StoreTypeOK, Deliveries
    <3> QED
      BY <1>0, <2>3, <3>1, <3>2, <3>3 DEF DeliveryOK
  <2>6. ASSUME NEW d \in Calls PROVE ExportOK(d)'
    <3>1. CASE d = c
      <4>1. export'[d] = e
        BY <1>0, <2>2, <3>1
      <4> QED
        BY <1>0, <2>1, <4>1 DEF ExportOK
    <3>2. CASE d # c
      <4>1. export'[d] = export[d] /\ ExportOK(d)
        BY <1>0, <2>2, <3>2 DEF StoreInd
      <4> QED
        BY <1>0, <4>1 DEF ExportOK
    <3> QED
      BY <3>1, <3>2
  <2> QED
    BY <2>4, <2>5, <2>d, <2>6 DEF StoreInd
<1> QED
  BY <1>1, <1>2

\* A step of a delivery that writes nothing: its own state is all that changes.
LEMMA DeliveryMoves ==
    ASSUME StoreInd, UNCHANGED <<export, quarantine, objects, manifests, delivered, spoilt, faults>>,
           delivery' \in Deliveries, DeliveryOK'
    PROVE  StoreInd'
<1>1. StoreTypeOK'
  BY DEF StoreInd, StoreTypeOK
<1>2. StoreInv'
  BY DEF StoreInd, StoreInv, OnlyScannedPromoted, ManifestBacked, DeliveredAsPromised
<1>3. \A d \in Calls : ExportOK(d)'
  BY DEF StoreInd, ExportOK
<1> QED
  BY <1>1, <1>2, <1>3 DEF StoreInd

LEMMA NoDeliveryTyped == NoDelivery \in Deliveries /\ NoDelivery.at = "idle"
  BY DEF NoDelivery, Deliveries

\* A delivery goes on only with an object that hashes to its digest (materialize).
LEMMA VerifyKeepsStore ==
    ASSUME StoreInd, NEW id \in RunIds, NEW f, manifests[id] # None, VerifyObject(id, f)
    PROVE  StoreInd'
<1>0. UNCHANGED <<export, quarantine, objects, manifests, delivered, spoilt, faults>>
  BY DEF VerifyObject
<1>1. PICK x \in Undelivered(id, f) :
        delivery' = IF objects[x[2]] = x[2] /\ delivered[x[1]] = None
                    THEN [at |-> "hash", id |-> id, file |-> x[1], digest |-> x[2], sum |-> None]
                    ELSE NoDelivery
  BY DEF VerifyObject
<1>2. CASE delivery' = NoDelivery
  <2>1. delivery' \in Deliveries /\ DeliveryOK'
    BY <1>2, NoDeliveryTyped DEF DeliveryOK
  <2> QED
    BY <1>0, <2>1, DeliveryMoves
<1>3. CASE delivery' # NoDelivery
  <2>1. manifests[id] \in SUBSET (Files \X Bytes) /\ x \in manifests[id]
    BY DEF StoreInd, StoreTypeOK, Undelivered
  <2>2. x[1] \in Files /\ x[2] \in Bytes /\ x = <<x[1], x[2]>>
    BY <2>1
  <2> DEFINE file == x[1]
             digest == x[2]
  <2>3. /\ objects[digest] = digest /\ <<file, digest>> \in manifests[id] /\ file \in Files /\ digest \in Bytes
        /\ delivery' = [at |-> "hash", id |-> id, file |-> file, digest |-> digest, sum |-> None]
    BY <1>1, <1>3, <2>1, <2>2
  <2> HIDE DEF file, digest
  <2>4. delivery' \in Deliveries
    BY <2>3 DEF Deliveries
  <2>5. DeliveryOK'
    BY <1>0, <2>3 DEF DeliveryOK
  <2> QED
    BY <1>0, <2>4, <2>5, DeliveryMoves
<1> QED
  BY <1>2, <1>3

LEMMA MaterializeKeepsStore ==
    ASSUME StoreInd, NEW id \in RunIds, Materialize(id)
    PROVE  StoreInd'
<1>1. manifests[id] # None /\ VerifyObject(id, 0)
  BY DEF Materialize
<1> QED
  BY <1>1, VerifyKeepsStore

\* The second hash is the digest unless the object was damaged since the first (_copy_exact).
LEMMA HashSourceKeepsStore ==
    ASSUME StoreInd, HashSource
    PROVE  StoreInd'
<1>0. /\ UNCHANGED <<export, quarantine, objects, manifests, delivered, spoilt, faults>>
      /\ delivery \in Deliveries /\ DeliveryOK /\ delivery.at = "hash"
      /\ objects \in [Bytes -> Bytes \cup {None}]
      /\ manifests \in [RunIds -> (SUBSET (Files \X Bytes)) \cup {None}]
  BY DEF HashSource, StoreInd, StoreTypeOK
<1> DEFINE sum == objects[delivery.digest]
<1>1. delivery' = [delivery EXCEPT !.at = "copy", !.sum = sum]
  BY DEF HashSource
<1>2. /\ delivery.id \in RunIds /\ manifests[delivery.id] # None
      /\ <<delivery.file, delivery.digest>> \in manifests[delivery.id]
      /\ delivery.file \in spoilt \/ sum = delivery.digest
  BY <1>0 DEF DeliveryOK
<1>3. delivery.digest \in Bytes
  <2>1. manifests[delivery.id] \in SUBSET (Files \X Bytes)
    BY <1>0, <1>2
  <2> QED
    BY <1>2, <2>1
<1>4. sum \in Bytes \cup {None}
  BY <1>0, <1>3
<1> HIDE DEF sum
<1>5. /\ delivery' \in Deliveries /\ delivery'.at = "copy" /\ delivery'.id = delivery.id
      /\ delivery'.file = delivery.file /\ delivery'.digest = delivery.digest /\ delivery'.sum = sum
  BY <1>0, <1>1, <1>4 DEF Deliveries
<1>6. DeliveryOK'
  BY <1>0, <1>2, <1>5 DEF DeliveryOK
<1> QED
  BY <1>0, <1>5, <1>6, DeliveryMoves

\* A consumer gets what was hashed last: the digest it was promised, unless its file is
\* spoilt (_copy_exact).
LEMMA CopyExactKeepsStore ==
    ASSUME StoreInd, CopyExact
    PROVE  StoreInd'
<1>0. /\ UNCHANGED <<export, quarantine, objects, manifests, spoilt, faults>>
      /\ delivery \in Deliveries /\ DeliveryOK /\ delivery.at = "copy"
      /\ delivered \in [Files -> Bytes \cup {None}]
      /\ manifests \in [RunIds -> (SUBSET (Files \X Bytes)) \cup {None}]
  BY DEF CopyExact, StoreInd, StoreTypeOK
<1>1. /\ delivery.id \in RunIds /\ manifests[delivery.id] # None
      /\ <<delivery.file, delivery.digest>> \in manifests[delivery.id]
      /\ delivery.file \in spoilt \/ delivery.sum = delivery.digest
  BY <1>0 DEF DeliveryOK
<1>2. delivery.file \in Files /\ delivery.sum \in Bytes \cup {None}
  <2>1. manifests[delivery.id] \in SUBSET (Files \X Bytes)
    BY <1>0, <1>1
  <2> QED
    BY <1>0, <1>1, <2>1 DEF Deliveries
<1>3. delivery' \in Deliveries /\ DeliveryOK'
  <2>1. CASE delivery' = NoDelivery
    BY <2>1, NoDeliveryTyped DEF DeliveryOK
  <2>2. CASE delivery' = [delivery EXCEPT !.at = "next", !.digest = None, !.sum = None]
    <3>1. delivery' \in Deliveries /\ delivery'.at = "next" /\ delivery'.id = delivery.id
      BY <1>0, <2>2 DEF Deliveries
    <3> QED
      BY <1>0, <1>1, <3>1 DEF DeliveryOK
  <2> QED
    BY <2>1, <2>2 DEF CopyExact
<1>4. CASE delivered' = delivered
  BY <1>0, <1>3, <1>4, DeliveryMoves
<1>5. CASE delivered' # delivered
  <2>1. delivered' = [delivered EXCEPT ![delivery.file] = delivery.sum]
    BY <1>5 DEF CopyExact
  <2>2. /\ delivered' \in [Files -> Bytes \cup {None}] /\ delivered'[delivery.file] = delivery.sum
        /\ \A f \in Files : f # delivery.file => delivered'[f] = delivered[f]
    BY <1>0, <1>2, <2>1
  <2>3. StoreTypeOK'
    BY <1>0, <1>3, <2>2 DEF StoreInd, StoreTypeOK
  <2>4. DeliveredAsPromised'
    <3> SUFFICES ASSUME NEW f \in Files, delivered'[f] # None, f \notin spoilt
                 PROVE  \E i \in RunIds : manifests[i] # None /\ <<f, delivered'[f]>> \in manifests[i]
      BY <1>0 DEF DeliveredAsPromised
    <3>1. CASE f = delivery.file
      BY <1>1, <2>2, <3>1
    <3>2. CASE f # delivery.file
      BY <2>2, <3>2 DEF StoreInd, StoreInv, DeliveredAsPromised
    <3> QED
      BY <3>1, <3>2
  <2>5. StoreInv'
    BY <1>0, <2>4 DEF StoreInd, StoreInv, OnlyScannedPromoted, ManifestBacked
  <2>6. \A d \in Calls : ExportOK(d)'
    BY <1>0 DEF StoreInd, ExportOK
  <2> QED
    BY <1>3, <2>3, <2>5, <2>6 DEF StoreInd
<1> QED
  BY <1>4, <1>5

LEMMA DeliverKeepsStore ==
    ASSUME StoreInd, Deliver
    PROVE  StoreInd'
<1>1. CASE NextObject
  <2>1. delivery.at = "next" /\ DeliveryOK
    BY <1>1 DEF NextObject, StoreInd
  <2>2. PICK id \in RunIds : id = delivery.id
    BY <2>1 DEF DeliveryOK
  <2>3. PICK f : f = delivery.file
    OBVIOUS
  <2>4. manifests[id] # None /\ VerifyObject(id, f)
    BY <1>1, <2>1, <2>2, <2>3 DEF NextObject, DeliveryOK
  <2> QED
    BY <2>4, VerifyKeepsStore
<1> QED
  BY <1>1, HashSourceKeepsStore, CopyExactKeepsStore DEF Deliver

\* Whoever writes to a file under export changes at most the copy, and not into a dirty one
\* that the scanner has accepted.
LEMMA WriteTakesOne ==
    ASSUME export \in [Calls -> Exports], NEW c \in Calls, ConcurrentWrite(c)
    PROVE  \E e \in Exports :
             /\ export' = [export EXCEPT ![c] = e]
             /\ e.at = export[c].at /\ e.id = export[c].id /\ e.file = export[c].file
             /\ e.entries = export[c].entries
             /\ export[c].file \in Files => e.tree[e.file] # None
             /\ e.copy \in {export[c].copy, "dirty", "torn"}
<1>1. PICK d \in {"dirty", "link"}, moved \in BOOLEAN, b \in Bytes \cup {None} :
        /\ b = export[c].copy \/ (export[c].at = "copy" /\ b \in {d, "torn"})
        /\ export' = [export EXCEPT ![c].tree[export[c].file] = d, ![c].moved = @ \/ moved, ![c].copy = b]
  BY DEF ConcurrentWrite
<1>0. export[c] \in Exports
  OBVIOUS
<1> DEFINE q == export[c]
           new == [q.tree EXCEPT ![q.file] = d]
           m == q.moved \/ moved
           e == [q EXCEPT !.tree = new, !.moved = m, !.copy = b]
<1>2. export' = [export EXCEPT ![c] = e]
  BY <1>0, <1>1 DEF Exports
<1>3. new \in [Files -> Data \cup {None}] /\ (q.file \in Files => new[q.file] = d) /\ m \in BOOLEAN
  BY <1>0 DEF Exports
<1>4. b \in {q.copy, "dirty", "torn"}
  BY <1>1
<1>5. q \in Exports
  BY <1>0
<1> HIDE DEF q, new, m
<1>6. /\ e \in Exports /\ e.at = q.at /\ e.id = q.id /\ e.file = q.file /\ e.entries = q.entries
      /\ e.tree = new /\ e.copy = b
  BY <1>3, <1>5 DEF Exports
<1>7. d # None
  OBVIOUS
<1> HIDE DEF e
<1>8. e.file \in Files => e.tree[e.file] # None
  BY <1>3, <1>6, <1>7
<1> QED
  BY <1>2, <1>4, <1>6, <1>8 DEF q

LEMMA WriteKeepsPlace ==
    ASSUME export \in [Calls -> Exports], NEW c \in Calls, ConcurrentWrite(c)
    PROVE  \A d \in Calls : export'[d].at = export[d].at
<1>1. PICK e \in Exports : export' = [export EXCEPT ![c] = e] /\ e.at = export[c].at
  BY WriteTakesOne
<1> QED
  BY <1>1

LEMMA ConcurrentWriteKeepsStore ==
    ASSUME StoreInd, NEW c \in Calls, ConcurrentWrite(c)
    PROVE  StoreInd'
<1>0. /\ export \in [Calls -> Exports] /\ export[c] \in Exports /\ ExportOK(c)
      /\ faults' \in 0..MaxFaults /\ export[c].at \in {"open", "copy"}
      /\ quarantine' \subseteq RunIds /\ UNCHANGED <<objects, manifests, consumer>>
  BY FaultCounts DEF StoreInd, StoreTypeOK, ConcurrentWrite
<1>1. PICK e \in Exports :
             /\ export' = [export EXCEPT ![c] = e]
             /\ e.at = export[c].at /\ e.id = export[c].id /\ e.file = export[c].file
             /\ e.entries = export[c].entries
             /\ export[c].file \in Files => e.tree[e.file] # None
             /\ e.copy \in {export[c].copy, "dirty", "torn"}
  BY <1>0, WriteTakesOne
<1>2. ExportOK(c)'
  <2>1. export'[c] = e
    BY <1>0, <1>1
  <2> QED
    BY <1>0, <1>1, <2>1 DEF ExportOK
<1> QED
  BY <1>0, <1>1, <1>2, ExportMoves

\* Damage to an object does not remove it, and is noted where a delivery cannot see it.
LEMMA CorruptKeepsStore ==
    ASSUME StoreInd, NEW d \in Bytes, Corrupt(d)
    PROVE  StoreInd'
<1>0. /\ objects \in [Bytes -> Bytes \cup {None}] /\ objects[d] = d
      /\ objects' = [objects EXCEPT ![d] = "damaged"]
      /\ spoilt' = IF delivery.at = "hash" /\ delivery.digest = d THEN spoilt \cup {delivery.file} ELSE spoilt
      /\ UNCHANGED <<export, quarantine, manifests, delivered, delivery>>
      /\ faults' \in 0..MaxFaults /\ delivery \in Deliveries /\ spoilt \subseteq Files
      /\ manifests \in [RunIds -> (SUBSET (Files \X Bytes)) \cup {None}] /\ DeliveryOK
  BY FaultCounts DEF StoreInd, StoreTypeOK, Corrupt
<1>1. /\ \A b \in Bytes : objects'[b] # None <=> objects[b] # None
      /\ objects'[d] = "damaged" /\ \A b \in Bytes : b # d => objects'[b] = objects[b]
      /\ objects' \in [Bytes -> Bytes \cup {None}]
  BY <1>0
<1>2. ASSUME delivery.at \in {"hash", "copy"}
      PROVE  delivery.file \in Files /\ delivery.digest \in Bytes
  <2>1. /\ delivery.id \in RunIds /\ manifests[delivery.id] # None
        /\ <<delivery.file, delivery.digest>> \in manifests[delivery.id]
    BY <1>0, <1>2 DEF DeliveryOK
  <2>2. manifests[delivery.id] \in SUBSET (Files \X Bytes)
    BY <1>0, <2>1
  <2> QED
    BY <2>1, <2>2
<1>3. spoilt \subseteq spoilt' /\ spoilt' \subseteq Files
  BY <1>0, <1>2
<1>4. StoreTypeOK'
  BY <1>0, <1>1, <1>3 DEF StoreInd, StoreTypeOK
<1>5. OnlyScannedPromoted'
  BY <1>0, <1>1 DEF StoreInd, StoreInv, OnlyScannedPromoted
<1>6. ManifestBacked'
  <2> SUFFICES ASSUME NEW i \in RunIds, manifests[i] # None, NEW x \in manifests[i]
               PROVE  objects'[x[2]] # None
    BY <1>0 DEF ManifestBacked
  <2>1. objects[x[2]] # None /\ x[2] \in Bytes
    BY EntriesBacked
  <2> QED
    BY <1>1, <2>1
<1>7. DeliveredAsPromised'
  BY <1>0, <1>3 DEF StoreInd, StoreInv, DeliveredAsPromised
<1>8. DeliveryOK'
  <2>1. ASSUME delivery.at = "hash"
        PROVE  delivery.file \in spoilt' \/ objects'[delivery.digest] = delivery.digest
    <3>1. delivery.digest \in Bytes /\ (delivery.file \in spoilt \/ objects[delivery.digest] = delivery.digest)
      BY <1>0, <1>2, <2>1 DEF DeliveryOK
    <3>2. CASE delivery.digest = d
      BY <1>0, <2>1, <3>2
    <3>3. CASE delivery.digest # d
      BY <1>1, <1>3, <3>1, <3>3
    <3> QED
      BY <3>2, <3>3
  <2> QED
    BY <1>0, <1>3, <2>1 DEF DeliveryOK
<1>9. ASSUME NEW c \in Calls PROVE ExportOK(c)'
  <2>1. export'[c] = export[c] /\ export[c] \in Exports /\ ExportOK(c)
    BY <1>0 DEF StoreInd, StoreTypeOK
  <2>2. \A x \in export[c].entries : objects'[x[2]] # None
    BY <1>1, <2>1 DEF ExportOK, Exports
  <2> QED
    BY <2>1, <2>2 DEF ExportOK
<1> QED
  BY <1>4, <1>5, <1>6, <1>7, <1>8, <1>9 DEF StoreInd, StoreInv

-----------------------------------------------------------------------------
(***************************************************************************)
(* The audit log of a run has at most three entries; appending to a        *)
(* shorter one gives the longer one.                                       *)
(***************************************************************************)
LEMMA AppendSecond ==
    ASSUME NEW a, NEW b
    PROVE  Append(<<a>>, b) = <<a, b>>
<1>1. <<a>> \in Seq({a, b}) /\ <<a, b>> \in Seq({a, b}) /\ Len(<<a>>) = 1 /\ Len(<<a, b>>) = 2
  OBVIOUS
<1>2. Append(<<a>>, b) \in Seq({a, b}) /\ Len(Append(<<a>>, b)) = 2
  BY <1>1, AppendProperties
<1>3. Append(<<a>>, b)[1] = a /\ Append(<<a>>, b)[2] = b
  BY <1>1, AppendProperties
<1>4. <<a, b>>[1] = a /\ <<a, b>>[2] = b
  OBVIOUS
<1>5. \A i \in 1..2 : Append(<<a>>, b)[i] = <<a, b>>[i]
  BY <1>3, <1>4
<1> QED
  BY <1>1, <1>2, <1>5, SeqEqual

LEMMA AppendThird ==
    ASSUME NEW a, NEW b, NEW e
    PROVE  Append(<<a, b>>, e) = <<a, b, e>>
<1>1. <<a, b>> \in Seq({a, b, e}) /\ <<a, b, e>> \in Seq({a, b, e}) /\ Len(<<a, b>>) = 2 /\ Len(<<a, b, e>>) = 3
  OBVIOUS
<1>2. Append(<<a, b>>, e) \in Seq({a, b, e}) /\ Len(Append(<<a, b>>, e)) = 3
  BY <1>1, AppendProperties
<1>3. Append(<<a, b>>, e)[1] = a /\ Append(<<a, b>>, e)[2] = b /\ Append(<<a, b>>, e)[3] = e
  BY <1>1, AppendProperties
<1>4. <<a, b, e>>[1] = a /\ <<a, b, e>>[2] = b /\ <<a, b, e>>[3] = e
  OBVIOUS
<1>5. \A i \in 1..3 : Append(<<a, b>>, e)[i] = <<a, b, e>>[i]
  BY <1>3, <1>4
<1> QED
  BY <1>1, <1>2, <1>5, SeqEqual

-----------------------------------------------------------------------------
(***************************************************************************)
(* The calls' steps.  Most of them are of a call that has its Runner and   *)
(* keeps it: they leave the other calls alone, so only what the invariant  *)
(* says of this call is left to show.                                      *)
(***************************************************************************)
SameCall(r, q) == r.runner = q.runner /\ r.id = q.id /\ r.backend = q.backend /\ r.export = q.export
SameGuest(r, q) == r.proc = q.proc /\ r.sent = q.sent /\ r.read = q.read /\ r.claim = q.claim
SameHooks(r, q) ==
    /\ r.revoked = q.revoked /\ r.wiped = q.wiped
    /\ r.revokeCalled = q.revokeCalled /\ r.wipeCalled = q.wipeCalled

\* A process that was launched stays launched, and one that has ended stays ended.
WorkerGoesOn(r, q) ==
    /\ q.proc # "none" => r.proc # "none"
    /\ q.proc \notin {"none", "alive"} => r.proc # "alive"

OnlyCall(c) == run' \in [Calls -> Runs] /\ \A d \in Calls : d # c => run'[d] = run[d]

LEMMA InnerStep ==
    ASSUME RunInd, NEW c \in Calls, OnlyCall(c),
           run[c].pc \notin {"idle", "done"}, run'[c].pc \notin {"idle", "done"},
           SameCall(run'[c], run[c]), WorkerGoesOn(run'[c], run[c]), run'[c].read <= run'[c].sent,
           op' = op, dirs' \subseteq Runners \X RunIds,
           active' \in Calls \cup {None}, \A d \in Calls : d # c => ((active' = d) <=> (active = d)),
           audit' \in [Calls -> Seq({"start", "receipt", "end", "error"})],
           \A d \in Calls : d # c => audit'[d] = audit[d] /\ export'[d].at = export[d].at,
           runner' \in [Runners -> RunnerStates],
           \A n \in Runners :
             /\ runner'[n].active = runner[n].active
             /\ runner'[n].receipt = runner[n].receipt \/ (n = run[c].runner /\ runner'[n].receipt = c)
             /\ runner'[n].receipt = c => Shown(run'[c]),
           CallOK(c)'
    PROVE  RunInd'
<1>0. RunTypes /\ OperatorOK /\ (\A d \in Calls : CallOK(d) /\ OwnerOK(d)) /\ \A n \in Runners : ReceiptOK(n)
  BY DEF RunInd
<1>1. /\ run \in [Calls -> Runs] /\ run' \in [Calls -> Runs]
      /\ \A d \in Calls : d # c => run'[d] = run[d]
  BY <1>0 DEF RunTypes, OnlyCall
<1>2. RunTypes'
  <2>1. \A d \in Calls : run'[d].read <= run'[d].sent
    BY <1>0, <1>1 DEF RunTypes
  <2> QED
    BY <1>0, <1>1, <2>1 DEF RunTypes
<1>3. OperatorOK'
  BY <1>0, <1>1 DEF OperatorOK, WorkerGoesOn
<1>4. ASSUME NEW d \in Calls PROVE CallOK(d)'
  <2>1. CASE d = c
    BY <2>1
  <2>2. CASE d # c
    <3>1. run'[d] = run[d] /\ ((active' = d) <=> (active = d)) /\ audit'[d] = audit[d]
          /\ export'[d].at = export[d].at /\ op' = op /\ CallOK(d)
      BY <1>0, <1>1, <2>2
    <3>2. WorkerOK(d)' /\ PromotionOK(d)' /\ VerifiedOK(d)'
      BY <3>1 DEF CallOK, WorkerOK, PromotionOK, VerifiedOK
    <3>3. AuditOK(d)' /\ HooksOK(d)'
      BY <3>1 DEF CallOK, AuditOK, HooksOK
    <3> QED
      BY <3>2, <3>3 DEF CallOK
  <2> QED
    BY <2>1, <2>2
<1>5. \A d \in Calls : run'[d].runner = run[d].runner /\ (run'[d].pc = "idle" <=> run[d].pc = "idle")
                       /\ (run'[d].pc = "done" <=> run[d].pc = "done")
                       /\ run'[d].id = run[d].id /\ run'[d].backend = run[d].backend
  BY <1>1 DEF SameCall
<1>6. ASSUME NEW d \in Calls PROVE OwnerOK(d)'
  <2>1. OwnerOK(d)
    BY <1>0
  <2>2. run[d].pc \notin {"idle", "done"} => runner'[run[d].runner].active
    BY <2>1 DEF OwnerOK
  <2> QED
    BY <1>5, <2>1, <2>2 DEF OwnerOK
<1>7. ASSUME NEW n \in Runners PROVE ReceiptOK(n)'
  <2>0. runner'[n].receipt \in Calls \cup {None} /\ run[c].runner \in Runners
    BY <1>0 DEF OwnerOK, RunnerStates
  <2>1. CASE runner'[n].receipt = c
    <3>1. run[c].runner = n
      <4>1. CASE runner[n].receipt = c
        <5>1. ReceiptOK(n) /\ c # None
          BY <1>0
        <5> QED
          BY <4>1, <5>1 DEF ReceiptOK
      <4>2. CASE runner[n].receipt # c
        BY <2>1, <4>2
      <4> QED
        BY <4>1, <4>2
    <3>2. \A d \in Calls : d # c /\ run[d].runner = n => run[d].pc = "done"
      BY <1>0, <3>1 DEF OwnerOK
    <3> QED
      BY <1>5, <2>1, <3>1, <3>2 DEF ReceiptOK
  <2>2. CASE runner'[n].receipt # c
    <3>1. runner'[n].receipt = runner[n].receipt
      BY <2>2
    <3>2. runner[n].receipt # None => run'[runner[n].receipt] = run[runner[n].receipt]
      BY <1>1, <2>0, <2>2, <3>1
    <3>3. ReceiptOK(n)
      BY <1>0
    <3>4. \A d \in Calls : run'[d].runner = run[d].runner /\ (run[d].pc = "done" => run'[d].pc = "done")
      BY <1>5
    <3> QED
      BY <2>0, <3>1, <3>2, <3>3, <3>4 DEF ReceiptOK
  <2> QED
    BY <2>1, <2>2
<1> QED
  BY <1>2, <1>3, <1>4, <1>6, <1>7 DEF RunInd

\* The steps that change nothing but the call itself.
LEMMA PlainStep ==
    ASSUME RunInd, NEW c \in Calls, OnlyCall(c),
           run[c].pc \notin {"idle", "done"}, run'[c].pc \notin {"idle", "done"},
           SameCall(run'[c], run[c]), WorkerGoesOn(run'[c], run[c]), run'[c].read <= run'[c].sent,
           UNCHANGED <<export, runner, audit, dirs, active, op>>,
           (\E n \in Runners : runner[n].receipt = c) => Shown(run'[c]),
           CallOK(c)'
    PROVE  RunInd'
<1>1. RunTypes
  BY DEF RunInd
<1>2. /\ op' = op /\ dirs' \subseteq Runners \X RunIds /\ active' \in Calls \cup {None}
      /\ \A d \in Calls : d # c => ((active' = d) <=> (active = d))
  BY <1>1 DEF RunTypes
<1>3. /\ audit' \in [Calls -> Seq({"start", "receipt", "end", "error"})]
      /\ \A d \in Calls : d # c => audit'[d] = audit[d] /\ export'[d].at = export[d].at
  BY <1>1 DEF RunTypes
<1>4. runner' \in [Runners -> RunnerStates]
  BY <1>1 DEF RunTypes
<1>5. \A n \in Runners :
         /\ runner'[n].active = runner[n].active
         /\ runner'[n].receipt = runner[n].receipt \/ (n = run[c].runner /\ runner'[n].receipt = c)
         /\ runner'[n].receipt = c => Shown(run'[c])
  OBVIOUS
<1> QED
  BY <1>2, <1>3, <1>4, <1>5, InnerStep

\* What a call that moves on keeps.
Kept(r, q) ==
    SameCall(r, q) /\ SameGuest(r, q) /\ SameHooks(r, q) /\ r.outcome = q.outcome

LEMMA PcRecord ==
    ASSUME NEW q \in Runs, NEW p \in Places
    PROVE  LET r == [q EXCEPT !.pc = p] IN r \in Runs /\ r.pc = p /\ r.why = q.why /\ Kept(r, q)
<1> DEFINE r == [q EXCEPT !.pc = p]
<1>1. r \in Runs
  BY DEF Runs
<1>2. r.pc = p /\ r.why = q.why /\ r.outcome = q.outcome
  BY DEF Runs
<1>3. SameCall(r, q)
  BY DEF Runs, SameCall
<1>4. SameGuest(r, q)
  BY DEF Runs, SameGuest
<1>5. SameHooks(r, q)
  BY DEF Runs, SameHooks
<1> QED
  BY <1>1, <1>2, <1>3, <1>4, <1>5 DEF Kept

LEMMA GotoRecord ==
    ASSUME run \in [Calls -> Runs], NEW c \in Calls, NEW p \in Places, Goto(c, p)
    PROVE  OnlyCall(c) /\ run'[c].pc = p /\ run'[c].why = run[c].why /\ Kept(run'[c], run[c])
<1> DEFINE r == [run[c] EXCEPT !.pc = p]
<1>1. r \in Runs /\ r.pc = p /\ r.why = run[c].why /\ Kept(r, run[c])
  BY PcRecord
<1>2. run' = [run EXCEPT ![c] = r]
  BY DEF Goto
<1> HIDE DEF r
<1> QED
  BY <1>1, <1>2 DEF OnlyCall

LEMMA FailsRecord ==
    ASSUME run \in [Calls -> Runs], NEW c \in Calls, NEW why \in Whys, Fails(c, why)
    PROVE  OnlyCall(c) /\ run'[c].pc = "cleanup" /\ run'[c].why = why /\ Kept(run'[c], run[c])
<1> DEFINE q == run[c]
           r == [q EXCEPT !.pc = "cleanup", !.why = why]
<1>0. "cleanup" \in Places /\ q \in Runs
  BY DEF Places
<1>1. run' = [run EXCEPT ![c] = r]
  BY DEF Fails
<1> HIDE DEF q
<1>2. r \in Runs
  BY <1>0 DEF Runs
<1>3. r.pc = "cleanup" /\ r.why = why /\ r.outcome = q.outcome
  BY <1>0 DEF Runs
<1>4. SameCall(r, q)
  BY <1>0 DEF Runs, SameCall
<1>5. SameGuest(r, q)
  BY <1>0 DEF Runs, SameGuest
<1>6. SameHooks(r, q)
  BY <1>0 DEF Runs, SameHooks
<1> HIDE DEF r
<1>7. run'[c] = r /\ OnlyCall(c)
  BY <1>1, <1>2 DEF OnlyCall
<1> QED
  BY <1>3, <1>4, <1>5, <1>6, <1>7 DEF Kept, q

\* A receipt that names the call is of one that has been reported.
LEMMA ReceiptShown ==
    ASSUME RunInd, NEW c \in Calls, \E n \in Runners : runner[n].receipt = c
    PROVE  Shown(run[c])
  BY DEF RunInd, ReceiptOK

\* The facts about a call that a step starts from.
LEMMA CallFacts ==
    ASSUME RunInd, NEW c \in Calls
    PROVE  /\ run \in [Calls -> Runs] /\ run[c] \in Runs /\ CallOK(c) /\ OwnerOK(c)
           /\ run[c].read <= run[c].sent
           /\ run[c].proc \in Procs
           /\ run[c].revoked \in BOOLEAN /\ run[c].wiped \in BOOLEAN
           /\ run[c].read \in 0..2 /\ run[c].sent \in 0..2
<1>1. run \in [Calls -> Runs] /\ CallOK(c) /\ OwnerOK(c) /\ run[c].read <= run[c].sent
  BY DEF RunInd, RunTypes
<1>2. run[c] \in Runs
  BY <1>1
<1> QED
  BY <1>1, <1>2 DEF Runs

\* A conversation that fails goes to its cleanup.
LEMMA FailsStep ==
    ASSUME RunInd, NEW c \in Calls, NEW why \in Whys, Fails(c, why),
           run[c].pc \in {"poll", "read", "verify"},
           UNCHANGED <<export, runner, audit, dirs, active, op>>
    PROVE  RunInd'
<1>1. run \in [Calls -> Runs] /\ run[c].read <= run[c].sent /\ CallOK(c)
  BY CallFacts
<1>2. OnlyCall(c) /\ run'[c].pc = "cleanup" /\ run'[c].why = why /\ Kept(run'[c], run[c])
  BY <1>1, FailsRecord
<1>3. CallOK(c)'
  <2>1. WorkerOK(c)' /\ PromotionOK(c)'
    BY <1>1, <1>2 DEF CallOK, WorkerOK, PromotionOK, Held, Over, Once, Kept, SameGuest
  <2>2. VerifiedOK(c)' /\ HooksOK(c)'
    BY <1>1, <1>2 DEF CallOK, VerifiedOK, HooksOK, Held, Once, Kept, SameHooks, SameCall
  <2>3. AuditOK(c)'
    BY <1>1, <1>2 DEF CallOK, AuditOK, Once
  <2> QED
    BY <2>1, <2>2, <2>3 DEF CallOK
<1>4. ~\E n \in Runners : runner[n].receipt = c
  BY ReceiptShown DEF Shown, Once, Over
<1>5. WorkerGoesOn(run'[c], run[c]) /\ run'[c].read <= run'[c].sent /\ SameCall(run'[c], run[c])
  BY <1>1, <1>2 DEF WorkerGoesOn, Kept, SameGuest
<1> QED
  BY <1>2, <1>3, <1>4, <1>5, PlainStep

LEMMA PollProcessStep ==
    ASSUME RunInd, NEW c \in Calls, PollProcess(c)
    PROVE  RunInd'
<1>1. /\ run \in [Calls -> Runs] /\ run[c].read <= run[c].sent /\ CallOK(c) /\ run[c].pc = "poll"
      /\ UNCHANGED <<export, runner, audit, dirs, active, op>>
  BY CallFacts DEF PollProcess, store
<1>2. CASE Goto(c, "read")
  <2>1. OnlyCall(c) /\ run'[c].pc = "read" /\ run'[c].why = run[c].why /\ Kept(run'[c], run[c])
    BY <1>1, <1>2, GotoRecord DEF Places
  <2>2. CallOK(c)'
    <3>1. WorkerOK(c)' /\ PromotionOK(c)'
      BY <1>1, <2>1 DEF CallOK, WorkerOK, PromotionOK, Held, Over, Once, Kept, SameGuest
    <3>2. VerifiedOK(c)' /\ HooksOK(c)'
      BY <1>1, <2>1 DEF CallOK, VerifiedOK, HooksOK, Held, Once, Kept, SameHooks, SameCall
    <3>3. AuditOK(c)'
      BY <1>1, <2>1 DEF CallOK, AuditOK, Once
    <3> QED
      BY <3>1, <3>2, <3>3 DEF CallOK
  <2>3. ~\E n \in Runners : runner[n].receipt = c
    BY <1>1, ReceiptShown DEF Shown, Once, Over
  <2>4. WorkerGoesOn(run'[c], run[c]) /\ run'[c].read <= run'[c].sent /\ SameCall(run'[c], run[c])
    BY <1>1, <2>1 DEF WorkerGoesOn, Kept, SameGuest
  <2> QED
    BY <1>1, <2>1, <2>2, <2>3, <2>4, PlainStep
<1>3. CASE Fails(c, "exited early")
  BY <1>1, <1>3, FailsStep DEF Whys
<1> QED
  BY <1>2, <1>3 DEF PollProcess

LEMMA ConversationFailsStep ==
    ASSUME RunInd, NEW c \in Calls, ConversationFails(c)
    PROVE  RunInd'
  BY FailsStep DEF ConversationFails, store, Whys

LEMMA OtherBackendStep ==
    ASSUME RunInd, NEW c \in Calls, OtherBackend(c)
    PROVE  RunInd'
<1>1. /\ run \in [Calls -> Runs] /\ run[c].read <= run[c].sent /\ CallOK(c)
      /\ run[c].pc = "backend" /\ run[c].backend = "other"
      /\ UNCHANGED <<export, runner, audit, dirs, active, op>>
  BY CallFacts DEF OtherBackend, store
<1>2. PICK p \in {"returned", "error"} : Goto(c, p)
  BY DEF OtherBackend
<1>3. OnlyCall(c) /\ run'[c].pc = p /\ run'[c].why = run[c].why /\ Kept(run'[c], run[c])
  BY <1>1, <1>2, GotoRecord DEF Places
<1>4. CallOK(c)'
  <2>1. WorkerOK(c)' /\ PromotionOK(c)'
    BY <1>1, <1>3 DEF CallOK, WorkerOK, PromotionOK, Held, Over, Once, Kept, SameGuest, SameHooks
  <2>2. VerifiedOK(c)' /\ HooksOK(c)'
    BY <1>1, <1>3 DEF CallOK, VerifiedOK, HooksOK, Held, Once, Kept, SameHooks, SameCall, SameGuest
  <2>3. AuditOK(c)'
    BY <1>1, <1>3 DEF CallOK, AuditOK, Held, Once, Kept, SameCall
  <2> QED
    BY <2>1, <2>2, <2>3 DEF CallOK
<1>5. ~\E n \in Runners : runner[n].receipt = c
  BY <1>1, ReceiptShown DEF Shown, Once, Over
<1>6. WorkerGoesOn(run'[c], run[c]) /\ run'[c].read <= run'[c].sent /\ SameCall(run'[c], run[c])
  BY <1>1, <1>3 DEF WorkerGoesOn, Kept, SameGuest
<1> QED
  BY <1>1, <1>3, <1>4, <1>5, <1>6, PlainStep

\* The result is reported only if the process ended as it says.
LEMMA VerifyStep ==
    ASSUME RunInd, NEW c \in Calls, Verify(c)
    PROVE  RunInd'
<1>1. /\ run \in [Calls -> Runs] /\ run[c].read <= run[c].sent /\ CallOK(c)
      /\ run[c].pc = "verify" /\ run[c].proc # "alive"
      /\ UNCHANGED <<export, runner, audit, dirs, active, op>>
  BY CallFacts DEF Verify, Alive, store
<1>2. CASE run[c].proc = run[c].claim /\ Goto(c, "report")
  <2>1. OnlyCall(c) /\ run'[c].pc = "report" /\ run'[c].why = run[c].why /\ Kept(run'[c], run[c])
    BY <1>1, <1>2, GotoRecord DEF Places
  <2>2. CallOK(c)'
    <3>1. WorkerOK(c)' /\ PromotionOK(c)'
      BY <1>1, <1>2, <2>1 DEF CallOK, WorkerOK, PromotionOK, Held, Over, Once, Kept, SameGuest, SameHooks
    <3>2. VerifiedOK(c)' /\ HooksOK(c)'
      BY <1>1, <1>2, <2>1 DEF CallOK, VerifiedOK, HooksOK, Held, Once, Kept, SameHooks, SameCall, SameGuest
    <3>3. AuditOK(c)'
      BY <1>1, <1>2, <2>1 DEF CallOK, AuditOK, Held, Once, Kept, SameCall
    <3> QED
      BY <3>1, <3>2, <3>3 DEF CallOK
  <2>3. ~\E n \in Runners : runner[n].receipt = c
    BY <1>1, ReceiptShown DEF Shown, Once, Over
  <2>4. WorkerGoesOn(run'[c], run[c]) /\ run'[c].read <= run'[c].sent /\ SameCall(run'[c], run[c])
    BY <1>1, <2>1 DEF WorkerGoesOn, Kept, SameGuest
  <2> QED
    BY <1>1, <2>1, <2>2, <2>3, <2>4, PlainStep
<1>3. CASE Fails(c, "disagrees")
  BY <1>1, <1>3, FailsStep DEF Whys
<1> QED
  BY <1>2, <1>3 DEF Verify

\* After two frames the result is there.
LEMMA ReadFrameStep ==
    ASSUME RunInd, NEW c \in Calls, ReadFrame(c)
    PROVE  RunInd'
<1>1. /\ run \in [Calls -> Runs] /\ run[c].read < run[c].sent /\ CallOK(c) /\ run[c] \in Runs
      /\ run[c].pc = "read" /\ run[c].read \in 0..2 /\ run[c].sent \in 0..2
      /\ UNCHANGED <<export, runner, audit, dirs, active, op>>
  BY CallFacts DEF ReadFrame, store
<1> DEFINE q == run[c]
           p == IF run[c].read = 1 THEN "verify" ELSE "poll"
           r == [q EXCEPT !.read = q.read + 1, !.pc = p]
<1>2. run' = [run EXCEPT ![c] = r]
  BY <1>1 DEF ReadFrame
<1>3. p \in Places /\ q.read + 1 \in 0..2 /\ q \in Runs
  BY <1>1 DEF Places
<1> HIDE DEF p, q
<1>4. r \in Runs
  BY <1>3 DEF Runs
<1>5. r.pc = p /\ r.read = q.read + 1 /\ r.why = q.why /\ r.proc = q.proc /\ r.sent = q.sent
  BY <1>3 DEF Runs
<1>6. SameCall(r, q)
  BY <1>3 DEF Runs, SameCall
<1>7. SameHooks(r, q)
  BY <1>3 DEF Runs, SameHooks
<1> HIDE DEF r
<1>8. run'[c] = r /\ OnlyCall(c)
  BY <1>1, <1>2, <1>4 DEF OnlyCall
<1>9. (p = "verify" /\ q.read = 1) \/ p = "poll"
  BY DEF p, q
<1>10. CallOK(c)'
  <2>1. WorkerOK(c)' /\ PromotionOK(c)'
    BY <1>1, <1>5, <1>6, <1>7, <1>8, <1>9 DEF CallOK, WorkerOK, PromotionOK, Held, Over, Once, Kept, SameGuest, SameHooks, q
  <2>2. VerifiedOK(c)' /\ HooksOK(c)'
    BY <1>1, <1>5, <1>6, <1>7, <1>8, <1>9 DEF CallOK, VerifiedOK, HooksOK, Held, Once, Kept, SameHooks, SameCall, SameGuest, q
  <2>3. AuditOK(c)'
    BY <1>1, <1>5, <1>6, <1>7, <1>8, <1>9 DEF CallOK, AuditOK, Held, Once, Kept, SameCall, q
  <2> QED
    BY <2>1, <2>2, <2>3 DEF CallOK
<1>11. ~\E n \in Runners : runner[n].receipt = c
  BY <1>1, ReceiptShown DEF Shown, Once, Over
<1>12. WorkerGoesOn(r, run[c]) /\ r.read <= r.sent
  BY <1>1, <1>5 DEF WorkerGoesOn, q
<1>13. run[c].pc \notin {"idle", "done"} /\ r.pc \notin {"idle", "done"}
  BY <1>1, <1>5, <1>9
<1> QED
  BY <1>1, <1>6, <1>8, <1>10, <1>11, <1>12, <1>13, PlainStep DEF q

\* Giving the controller up changes neither who has the Runner nor its receipt.
LEMMA NoControllerKeeps ==
    ASSUME RunInd, NEW c \in Calls, NoController(c)
    PROVE  /\ runner' \in [Runners -> RunnerStates]
           /\ \A n \in Runners : runner'[n].active = runner[n].active /\ runner'[n].receipt = runner[n].receipt
<1>1. runner \in [Runners -> RunnerStates]
  BY DEF RunInd, RunTypes
<1>2. ASSUME NEW n \in Runners
      PROVE  /\ runner'[n] \in RunnerStates
             /\ runner'[n].active = runner[n].active /\ runner'[n].receipt = runner[n].receipt
  BY <1>1 DEF NoController, RunnerStates
<1> QED
  BY <1>1, <1>2 DEF NoController

\* The steps that give the controller up and leave the log and the directories alone.
LEMMA ReleaseStep ==
    ASSUME RunInd, NEW c \in Calls, OnlyCall(c), NoController(c),
           run[c].pc \notin {"idle", "done"}, run'[c].pc \notin {"idle", "done"},
           SameCall(run'[c], run[c]), WorkerGoesOn(run'[c], run[c]), run'[c].read <= run'[c].sent,
           UNCHANGED <<export, audit, dirs, op>>, active' \in {active, None}, active # active' => active = c,
           (\E n \in Runners : runner[n].receipt = c) => Shown(run'[c]),
           CallOK(c)'
    PROVE  RunInd'
<1>1. RunTypes
  BY DEF RunInd
<1>2. /\ op' = op /\ dirs' \subseteq Runners \X RunIds /\ active' \in Calls \cup {None}
      /\ \A d \in Calls : d # c => ((active' = d) <=> (active = d))
  BY <1>1 DEF RunTypes
<1>3. /\ audit' \in [Calls -> Seq({"start", "receipt", "end", "error"})]
      /\ \A d \in Calls : d # c => audit'[d] = audit[d] /\ export'[d].at = export[d].at
  BY <1>1 DEF RunTypes
<1>4. runner' \in [Runners -> RunnerStates]
  BY NoControllerKeeps
<1>5. \A n \in Runners :
         /\ runner'[n].active = runner[n].active
         /\ runner'[n].receipt = runner[n].receipt \/ (n = run[c].runner /\ runner'[n].receipt = c)
         /\ runner'[n].receipt = c => Shown(run'[c])
  BY NoControllerKeeps
<1> QED
  BY <1>2, <1>3, <1>4, <1>5, InnerStep

LEMMA RejectSpecStep ==
    ASSUME RunInd, NEW c \in Calls, Goto(c, "error"), NoController(c),
           run[c].pc = "backend", UNCHANGED <<export, audit, dirs, active, op>>
    PROVE  RunInd'
<1>1. run \in [Calls -> Runs] /\ run[c].read <= run[c].sent /\ CallOK(c)
  BY CallFacts
<1>3. OnlyCall(c) /\ run'[c].pc = "error" /\ run'[c].why = run[c].why /\ Kept(run'[c], run[c])
  BY <1>1, GotoRecord DEF Places
<1>4. CallOK(c)'
  <2>1. WorkerOK(c)' /\ PromotionOK(c)'
    BY <1>1, <1>3 DEF CallOK, WorkerOK, PromotionOK, Held, Over, Once, Kept, SameGuest, SameHooks
  <2>2. VerifiedOK(c)' /\ HooksOK(c)'
    BY <1>1, <1>3 DEF CallOK, VerifiedOK, HooksOK, Held, Once, Kept, SameHooks, SameCall, SameGuest
  <2>3. AuditOK(c)'
    BY <1>1, <1>3 DEF CallOK, AuditOK, Held, Once, Kept, SameCall
  <2> QED
    BY <2>1, <2>2, <2>3 DEF CallOK
<1>5. ~\E n \in Runners : runner[n].receipt = c
  BY <1>1, ReceiptShown DEF Shown, Once, Over
<1>6. WorkerGoesOn(run'[c], run[c]) /\ run'[c].read <= run'[c].sent /\ SameCall(run'[c], run[c])
  BY <1>1, <1>3 DEF WorkerGoesOn, Kept, SameGuest
<1> QED
  BY <1>1, <1>3, <1>4, <1>5, <1>6, ReleaseStep

\* A launch takes the adapter's slot, which no other call has.
LEMMA LaunchStep ==
    ASSUME RunInd, NEW c \in Calls, Launch(c)
    PROVE  RunInd'
<1>1. /\ run \in [Calls -> Runs] /\ run[c] \in Runs /\ run[c].read <= run[c].sent /\ CallOK(c)
      /\ run[c].pc = "backend" /\ run[c].backend = "native" /\ UNCHANGED <<export, audit, dirs, op>>
      /\ RunTypes
  BY CallFacts DEF Launch, store, RunInd
<1>2. CASE active # None
  BY <1>1, <1>2, RejectSpecStep DEF Launch
<1>3. CASE active = None
  <2> DEFINE q == run[c]
             r == [q EXCEPT !.pc = "poll", !.proc = "alive"]
  <2>1. run' = [run EXCEPT ![c] = r] /\ active' = c /\ runner' = runner
    BY <1>3 DEF Launch
  <2>2. "poll" \in Places /\ q \in Runs
    BY <1>1 DEF Places
  <2> HIDE DEF q
  <2>3. r \in Runs
    BY <2>2 DEF Runs
  <2>4. r.pc = "poll" /\ r.proc = "alive" /\ r.read = q.read /\ r.sent = q.sent /\ r.why = q.why
    BY <2>2 DEF Runs
  <2>5. SameCall(r, q)
    BY <2>2 DEF Runs, SameCall
  <2>6. SameHooks(r, q)
    BY <2>2 DEF Runs, SameHooks
  <2> HIDE DEF r
  <2>7. run'[c] = r /\ OnlyCall(c)
    BY <1>1, <2>1, <2>3 DEF OnlyCall
  <2>8. q.why = None
    BY <1>1 DEF CallOK, VerifiedOK, q
  <2>9. CallOK(c)'
    <3>1. WorkerOK(c)' /\ PromotionOK(c)'
      BY <1>1, <2>1, <2>4, <2>5, <2>6, <2>7, <2>8 DEF CallOK, WorkerOK, PromotionOK, Held, Over, Once, Kept, SameGuest, SameHooks, q
    <3>2. VerifiedOK(c)' /\ HooksOK(c)'
      BY <1>1, <2>1, <2>4, <2>5, <2>6, <2>7, <2>8 DEF CallOK, VerifiedOK, HooksOK, Held, Once, Kept, SameHooks, SameCall, SameGuest, q
    <3>3. AuditOK(c)'
      BY <1>1, <2>1, <2>4, <2>5, <2>6, <2>7, <2>8 DEF CallOK, AuditOK, Held, Once, Kept, SameCall, q
    <3> QED
      BY <3>1, <3>2, <3>3 DEF CallOK
  <2>10. ~\E n \in Runners : runner[n].receipt = c
    BY <1>1, ReceiptShown DEF Shown, Once, Over
  <2>11. /\ WorkerGoesOn(run'[c], run[c]) /\ run'[c].read <= run'[c].sent /\ SameCall(run'[c], run[c])
         /\ run[c].pc \notin {"idle", "done"} /\ run'[c].pc \notin {"idle", "done"}
    BY <1>1, <2>4, <2>5, <2>7 DEF WorkerGoesOn, CallOK, WorkerOK, q
  <2>12. /\ op' = op /\ dirs' \subseteq Runners \X RunIds /\ active' \in Calls \cup {None}
         /\ \A d \in Calls : d # c => ((active' = d) <=> (active = d))
    BY <1>1, <1>3, <2>1 DEF RunTypes
  <2>13. /\ audit' \in [Calls -> Seq({"start", "receipt", "end", "error"})]
         /\ \A d \in Calls : d # c => audit'[d] = audit[d] /\ export'[d].at = export[d].at
    BY <1>1 DEF RunTypes
  <2>14. runner' \in [Runners -> RunnerStates]
    BY <1>1, <2>1 DEF RunTypes
  <2>15. \A n \in Runners :
            /\ runner'[n].active = runner[n].active
            /\ runner'[n].receipt = runner[n].receipt \/ (n = run[c].runner /\ runner'[n].receipt = c)
            /\ runner'[n].receipt = c => Shown(run'[c])
    BY <2>1, <2>10
  <2> QED
    BY <2>7, <2>9, <2>11, <2>12, <2>13, <2>14, <2>15, InnerStep
<1> QED
  BY <1>2, <1>3

LEMMA LaunchFailsStep ==
    ASSUME RunInd, NEW c \in Calls, LaunchFails(c)
    PROVE  RunInd'
<1>1. /\ run \in [Calls -> Runs] /\ run[c] \in Runs /\ run[c].read <= run[c].sent /\ CallOK(c)
      /\ run[c].pc = "backend" /\ UNCHANGED <<export, audit, dirs, active, op>> /\ NoController(c)
  BY CallFacts DEF LaunchFails, store
<1> DEFINE q == run[c]
           r == [q EXCEPT !.pc = "error", !.revokeCalled = TRUE, !.wipeCalled = TRUE]
<1>2. run' = [run EXCEPT ![c] = r]
  BY DEF LaunchFails
<1>3. "error" \in Places /\ q \in Runs
  BY <1>1 DEF Places
<1> HIDE DEF q
<1>4. r \in Runs
  BY <1>3 DEF Runs
<1>5. /\ r.pc = "error" /\ r.revokeCalled /\ r.wipeCalled /\ r.why = q.why /\ r.revoked = q.revoked
      /\ r.wiped = q.wiped
  BY <1>3 DEF Runs
<1>6. SameCall(r, q)
  BY <1>3 DEF Runs, SameCall
<1>7. SameGuest(r, q)
  BY <1>3 DEF Runs, SameGuest
<1> HIDE DEF r
<1>8. run'[c] = r /\ OnlyCall(c)
  BY <1>1, <1>2, <1>4 DEF OnlyCall
<1>9. CallOK(c)'
  <2>1. WorkerOK(c)' /\ PromotionOK(c)'
    BY <1>1, <1>5, <1>6, <1>7, <1>8 DEF CallOK, WorkerOK, PromotionOK, Held, Over, Once, Kept, SameGuest, SameHooks, q
  <2>2. VerifiedOK(c)' /\ HooksOK(c)'
    BY <1>1, <1>5, <1>6, <1>7, <1>8 DEF CallOK, VerifiedOK, HooksOK, Held, Once, Kept, SameHooks, SameCall, SameGuest, q
  <2>3. AuditOK(c)'
    BY <1>1, <1>5, <1>6, <1>7, <1>8 DEF CallOK, AuditOK, Held, Once, Kept, SameCall, q
  <2> QED
    BY <2>1, <2>2, <2>3 DEF CallOK
<1>10. ~\E n \in Runners : runner[n].receipt = c
  BY <1>1, ReceiptShown DEF Shown, Once, Over
<1>11. /\ WorkerGoesOn(run'[c], run[c]) /\ run'[c].read <= run'[c].sent /\ SameCall(run'[c], run[c])
       /\ run[c].pc \notin {"idle", "done"} /\ run'[c].pc \notin {"idle", "done"}
  BY <1>1, <1>5, <1>6, <1>7, <1>8 DEF WorkerGoesOn, SameGuest, q
<1> QED
  BY <1>1, <1>8, <1>9, <1>10, <1>11, ReleaseStep

\* The call's directory, log and controller are made when it has its Runner.
LEMMA PrepareStep ==
    ASSUME RunInd, NEW c \in Calls, Prepare(c)
    PROVE  RunInd'
<1>1. /\ run \in [Calls -> Runs] /\ run[c].read <= run[c].sent /\ CallOK(c) /\ OwnerOK(c)
      /\ run[c].pc = "prepare" /\ UNCHANGED <<export, active, op>> /\ RunTypes
  BY CallFacts DEF Prepare, store, RunInd
<1>2. OnlyCall(c) /\ run'[c].pc = "backend" /\ run'[c].why = run[c].why /\ Kept(run'[c], run[c])
  BY <1>1, GotoRecord DEF Places, Prepare
<1>3. audit' = [audit EXCEPT ![c] = <<"start">>] /\ audit \in [Calls -> Seq({"start", "receipt", "end", "error"})]
  BY <1>1 DEF Prepare, RunTypes
<1>4. /\ audit'[c] = <<"start">> /\ audit' \in [Calls -> Seq({"start", "receipt", "end", "error"})]
      /\ \A d \in Calls : d # c => audit'[d] = audit[d]
  <2>1. <<"start">> \in Seq({"start", "receipt", "end", "error"})
    OBVIOUS
  <2> QED
    BY <1>3, <2>1
<1>5. CallOK(c)'
  <2>1. WorkerOK(c)' /\ PromotionOK(c)'
    BY <1>1, <1>2, <1>4 DEF CallOK, WorkerOK, PromotionOK, Held, Over, Once, Kept, SameGuest, SameHooks
  <2>2. VerifiedOK(c)' /\ HooksOK(c)'
    BY <1>1, <1>2, <1>4 DEF CallOK, VerifiedOK, HooksOK, Held, Once, Kept, SameHooks, SameCall, SameGuest
  <2>3. AuditOK(c)'
    BY <1>1, <1>2, <1>4 DEF CallOK, AuditOK, Held, Once, Kept, SameCall
  <2> QED
    BY <2>1, <2>2, <2>3 DEF CallOK
<1>6. ~\E n \in Runners : runner[n].receipt = c
  BY <1>1, ReceiptShown DEF Shown, Once, Over
<1>7. WorkerGoesOn(run'[c], run[c]) /\ run'[c].read <= run'[c].sent /\ SameCall(run'[c], run[c])
  BY <1>1, <1>2 DEF WorkerGoesOn, Kept, SameGuest
<1>8. /\ op' = op /\ dirs' \subseteq Runners \X RunIds /\ active' \in Calls \cup {None}
      /\ \A d \in Calls : d # c => ((active' = d) <=> (active = d))
  BY <1>1 DEF RunTypes, OwnerOK, Prepare
<1>9. runner' \in [Runners -> RunnerStates]
      /\ \A n \in Runners : runner'[n].active = runner[n].active /\ runner'[n].receipt = runner[n].receipt
  <2>1. runner \in [Runners -> RunnerStates]
        /\ runner' = [runner EXCEPT ![run[c].runner].controller = run[c].backend = "native"]
    BY <1>1 DEF RunTypes, Prepare
  <2>2. ASSUME NEW n \in Runners
        PROVE  /\ runner'[n] \in RunnerStates
               /\ runner'[n].active = runner[n].active /\ runner'[n].receipt = runner[n].receipt
    BY <2>1 DEF RunnerStates
  <2> QED
    BY <2>1, <2>2
<1>10. \A n \in Runners :
          /\ runner'[n].active = runner[n].active
          /\ runner'[n].receipt = runner[n].receipt \/ (n = run[c].runner /\ runner'[n].receipt = c)
          /\ runner'[n].receipt = c => Shown(run'[c])
  BY <1>6, <1>9
<1>11. run[c].pc \notin {"idle", "done"} /\ run'[c].pc \notin {"idle", "done"}
  BY <1>1, <1>2
<1>12. \A d \in Calls : d # c => audit'[d] = audit[d] /\ export'[d].at = export[d].at
  BY <1>1, <1>4
<1> QED
  BY <1>2, <1>4, <1>5, <1>7, <1>8, <1>9, <1>10, <1>11, <1>12, InnerStep

\* What a report may do to the Runner and the log, whether it succeeds or not.
Reported(c) ==
    /\ runner' \in {runner, [runner EXCEPT ![run[c].runner].receipt = c]}
    /\ audit' \in {audit, [audit EXCEPT ![c] = Append(@, "receipt")]}

LEMMA ReportedKeeps ==
    ASSUME RunInd, NEW c \in Calls, run[c].pc = "report", Reported(c)
    PROVE  /\ runner' \in [Runners -> RunnerStates]
           /\ \A n \in Runners :
                /\ runner'[n].active = runner[n].active
                /\ runner'[n].receipt = runner[n].receipt \/ (n = run[c].runner /\ runner'[n].receipt = c)
           /\ audit' \in [Calls -> Seq({"start", "receipt", "end", "error"})]
           /\ audit'[c] = <<"start">> \/ (audit' # audit /\ audit'[c] = <<"start", "receipt">>)
           /\ \A d \in Calls : d # c => audit'[d] = audit[d]
<1>1. /\ runner \in [Runners -> RunnerStates] /\ audit[c] = <<"start">>
      /\ audit \in [Calls -> Seq({"start", "receipt", "end", "error"})]
  BY CallFacts DEF RunInd, RunTypes, CallOK, AuditOK
<1>2. ASSUME NEW n \in Runners
      PROVE  /\ runner'[n] \in RunnerStates /\ runner'[n].active = runner[n].active
             /\ runner'[n].receipt = runner[n].receipt \/ (n = run[c].runner /\ runner'[n].receipt = c)
  <2>1. CASE runner' = runner
    BY <1>1, <2>1
  <2>2. CASE runner' = [runner EXCEPT ![run[c].runner].receipt = c]
    <3>1. runner'[n] = IF n = run[c].runner THEN [runner[n] EXCEPT !.receipt = c] ELSE runner[n]
      BY <1>1, <2>2
    <3>2. runner[n] \in RunnerStates
      BY <1>1
    <3> QED
      BY <3>1, <3>2 DEF RunnerStates
  <2> QED
    BY <2>1, <2>2 DEF Reported
<1>3. runner' \in [Runners -> RunnerStates]
  BY <1>1, <1>2 DEF Reported
<1>4. Append(<<"start">>, "receipt") = <<"start", "receipt">>
  BY AppendSecond
<1>5. <<"start", "receipt">> \in Seq({"start", "receipt", "end", "error"}) /\ <<"start", "receipt">> # <<"start">>
  OBVIOUS
<1>6. CASE audit' = audit
  BY <1>1, <1>2, <1>3, <1>6
<1>7. CASE audit' = [audit EXCEPT ![c] = <<"start", "receipt">>]
  <2>1. audit'[c] = <<"start", "receipt">>
    BY <1>1, <1>7
  <2> QED
    BY <1>1, <1>2, <1>3, <1>5, <1>7, <2>1
<1> QED
  BY <1>1, <1>4, <1>6, <1>7 DEF Reported

LEMMA ReportStep ==
    ASSUME RunInd, NEW c \in Calls, Report(c)
    PROVE  RunInd'
<1>1. /\ run \in [Calls -> Runs] /\ run[c].read <= run[c].sent /\ CallOK(c)
      /\ run[c].pc = "report" /\ UNCHANGED <<export, dirs, active, op>> /\ RunTypes
  BY CallFacts DEF Report, store, RunInd
<1>2. OnlyCall(c) /\ run'[c].pc = "revoke" /\ run'[c].why = run[c].why /\ Kept(run'[c], run[c])
  BY <1>1, GotoRecord DEF Places, Once, Report
<1>3. Reported(c) /\ audit'[c] = <<"start", "receipt">>
  <2>1. audit[c] = <<"start">> /\ audit \in [Calls -> Seq({"start", "receipt", "end", "error"})]
    BY <1>1 DEF CallOK, AuditOK, RunTypes
  <2>2. Append(<<"start">>, "receipt") = <<"start", "receipt">>
    BY AppendSecond
  <2> QED
    BY <2>1, <2>2 DEF Report, Reported
<1>4. CallOK(c)'
  <2>1. WorkerOK(c)' /\ PromotionOK(c)'
    BY <1>1, <1>2, <1>3 DEF CallOK, WorkerOK, PromotionOK, Held, Over, Once, Kept, SameGuest, SameHooks
  <2>2. VerifiedOK(c)' /\ HooksOK(c)'
    BY <1>1, <1>2, <1>3 DEF CallOK, VerifiedOK, HooksOK, Held, Once, Kept, SameHooks, SameCall, SameGuest
  <2>3. AuditOK(c)'
    BY <1>1, <1>2, <1>3 DEF CallOK, AuditOK, Held, Once, Kept, SameCall
  <2> QED
    BY <2>1, <2>2, <2>3 DEF CallOK
<1>5. Shown(run'[c])
  BY <1>1, <1>2 DEF Shown, CallOK, VerifiedOK, Kept, SameGuest, Once
<1>6. WorkerGoesOn(run'[c], run[c]) /\ run'[c].read <= run'[c].sent /\ SameCall(run'[c], run[c])
  BY <1>1, <1>2 DEF WorkerGoesOn, Kept, SameGuest
<1>7. /\ op' = op /\ dirs' \subseteq Runners \X RunIds /\ active' \in Calls \cup {None}
      /\ \A d \in Calls : d # c => ((active' = d) <=> (active = d))
  BY <1>1 DEF RunTypes
<1>8. \A n \in Runners :
          /\ runner'[n].active = runner[n].active
          /\ runner'[n].receipt = runner[n].receipt \/ (n = run[c].runner /\ runner'[n].receipt = c)
          /\ runner'[n].receipt = c => Shown(run'[c])
  BY <1>1, <1>3, <1>5, ReportedKeeps
<1>9. /\ runner' \in [Runners -> RunnerStates] /\ audit' \in [Calls -> Seq({"start", "receipt", "end", "error"})]
      /\ \A d \in Calls : d # c => audit'[d] = audit[d] /\ export'[d].at = export[d].at
  BY <1>1, <1>3, ReportedKeeps
<1>10. run[c].pc \notin {"idle", "done"} /\ run'[c].pc \notin {"idle", "done"}
  BY <1>1, <1>2
<1> QED
  BY <1>2, <1>4, <1>6, <1>7, <1>8, <1>9, <1>10, InnerStep

LEMMA ReportFailsStep ==
    ASSUME RunInd, NEW c \in Calls, ReportFails(c)
    PROVE  RunInd'
<1>0. "audit" # None
  BY DEF Whys
<1>1. /\ run \in [Calls -> Runs] /\ run[c].read <= run[c].sent /\ CallOK(c)
      /\ run[c].pc = "report" /\ UNCHANGED <<export, dirs, active, op>> /\ RunTypes
  BY CallFacts DEF ReportFails, store, RunInd
<1>2. OnlyCall(c) /\ run'[c].pc = "cleanup" /\ run'[c].why = "audit" /\ Kept(run'[c], run[c])
  BY <1>1, FailsRecord DEF Whys, ReportFails
<1>3. Reported(c)
  BY DEF ReportFails, Reported
<1>4. audit'[c] \in {<<"start">>, <<"start", "receipt">>}
  BY <1>1, <1>3, ReportedKeeps
<1>5. CallOK(c)'
  <2>1. WorkerOK(c)' /\ PromotionOK(c)'
    BY <1>1, <1>2, <1>4 DEF CallOK, WorkerOK, PromotionOK, Held, Over, Once, Kept, SameGuest, SameHooks
  <2>2. VerifiedOK(c)' /\ HooksOK(c)'
    BY <1>1, <1>2, <1>4 DEF CallOK, VerifiedOK, HooksOK, Held, Once, Kept, SameHooks, SameCall, SameGuest
  <2>3. AuditOK(c)'
    BY <1>0, <1>1, <1>2, <1>4 DEF CallOK, AuditOK, Held, Once, Kept, SameCall
  <2> QED
    BY <2>1, <2>2, <2>3 DEF CallOK
<1>6. Shown(run'[c])
  BY <1>1, <1>2 DEF Shown, CallOK, VerifiedOK, Kept, SameGuest, Once
<1>7. WorkerGoesOn(run'[c], run[c]) /\ run'[c].read <= run'[c].sent /\ SameCall(run'[c], run[c])
  BY <1>1, <1>2 DEF WorkerGoesOn, Kept, SameGuest
<1>8. /\ op' = op /\ dirs' \subseteq Runners \X RunIds /\ active' \in Calls \cup {None}
      /\ \A d \in Calls : d # c => ((active' = d) <=> (active = d))
  BY <1>1 DEF RunTypes
<1>9. \A n \in Runners :
          /\ runner'[n].active = runner[n].active
          /\ runner'[n].receipt = runner[n].receipt \/ (n = run[c].runner /\ runner'[n].receipt = c)
          /\ runner'[n].receipt = c => Shown(run'[c])
  BY <1>1, <1>3, <1>6, ReportedKeeps
<1>10. /\ runner' \in [Runners -> RunnerStates] /\ audit' \in [Calls -> Seq({"start", "receipt", "end", "error"})]
       /\ \A d \in Calls : d # c => audit'[d] = audit[d] /\ export'[d].at = export[d].at
  BY <1>1, <1>3, ReportedKeeps
<1>11. run[c].pc \notin {"idle", "done"} /\ run'[c].pc \notin {"idle", "done"}
  BY <1>1, <1>2
<1> QED
  BY <1>2, <1>5, <1>7, <1>8, <1>9, <1>10, <1>11, InnerStep

\* None is no state of a process.
LEMMA NoneIsNoState == None \notin {"none", "alive", "ok", "failed", "killed"}
  BY DEF Procs

\* What becomes of the process when it is terminated: it has ended.
LEMMA FailureCleanupStep ==
    ASSUME RunInd, NEW c \in Calls, FailureCleanup(c)
    PROVE  RunInd'
<1>1. /\ run \in [Calls -> Runs] /\ run[c] \in Runs /\ run[c].read <= run[c].sent /\ CallOK(c)
      /\ run[c].pc = "cleanup" /\ UNCHANGED <<export, runner, audit, dirs, active, op>>
      /\ run[c].proc \in Procs
  BY CallFacts DEF FailureCleanup, store
<1> DEFINE q == run[c]
           end == IF q.proc = "alive" THEN "killed" ELSE q.proc
           r == [q EXCEPT !.proc = end, !.pc = "revoke"]
<1>2. run' = [run EXCEPT ![c] = r]
  BY <1>1 DEF FailureCleanup, Terminated, Alive
<1>3. /\ "revoke" \in Places /\ q \in Runs /\ end # "alive" /\ (end = "none" <=> q.proc = "none")
      /\ end \in Procs /\ (q.proc # "alive" => end = q.proc)
  BY <1>1 DEF Places, Once
<1> HIDE DEF q, end
<1>4. r \in Runs
  BY <1>3 DEF Runs
<1>5. /\ r.pc = "revoke" /\ r.proc = end /\ r.why = q.why /\ r.read = q.read /\ r.sent = q.sent
      /\ r.claim = q.claim
  BY <1>3 DEF Runs
<1>6. SameCall(r, q)
  BY <1>3 DEF Runs, SameCall
<1>7. SameHooks(r, q)
  BY <1>3 DEF Runs, SameHooks
<1> HIDE DEF r
<1>8. run'[c] = r /\ OnlyCall(c)
  BY <1>1, <1>2, <1>4 DEF OnlyCall
<1>9. CallOK(c)'
  <2>1. WorkerOK(c)' /\ PromotionOK(c)'
    BY <1>1, <1>3, <1>5, <1>6, <1>7, <1>8 DEF CallOK, WorkerOK, PromotionOK, Held, Over, Once, Kept, SameGuest, SameHooks, q
  <2>2. VerifiedOK(c)' /\ HooksOK(c)'
    BY <1>1, <1>3, <1>5, <1>6, <1>7, <1>8 DEF CallOK, VerifiedOK, HooksOK, Held, Once, Kept, SameHooks, SameCall, SameGuest, q
  <2>3. AuditOK(c)'
    BY <1>1, <1>3, <1>5, <1>6, <1>7, <1>8 DEF CallOK, AuditOK, Held, Once, Kept, SameCall, q
  <2> QED
    BY <2>1, <2>2, <2>3 DEF CallOK
<1>10. Shown(run[c]) => Shown(run'[c])
  <2>1. q.claim \in {"ok", "failed", None}
    BY <1>3 DEF Runs
  <2>2. ASSUME Shown(run[c]) PROVE q.proc # "alive"
    <3>1. q.proc = q.claim
      BY <2>2 DEF Shown, q
    <3> QED
      BY <2>1, <3>1, NoneIsNoState
  <2> QED
    BY <1>3, <1>5, <1>8, <2>2 DEF Shown, q, Once
<1>11. (\E n \in Runners : runner[n].receipt = c) => Shown(run'[c])
  BY <1>10, ReceiptShown
<1>12. /\ WorkerGoesOn(run'[c], run[c]) /\ run'[c].read <= run'[c].sent /\ SameCall(run'[c], run[c])
       /\ run[c].pc \notin {"idle", "done"} /\ run'[c].pc \notin {"idle", "done"}
  BY <1>1, <1>3, <1>5, <1>6, <1>8 DEF WorkerGoesOn, q
<1> QED
  BY <1>1, <1>8, <1>9, <1>11, <1>12, PlainStep

-----------------------------------------------------------------------------
(***************************************************************************)
(* revoke_once and wipe_once.                                              *)
(***************************************************************************)
\* What a step of them does to the flags and the calls, and nothing else.
OnceDone(r, q, at) ==
    /\ r.revoked = (q.revoked \/ at = "revoking") /\ r.wiped = (q.wiped \/ at = "wiping")
    /\ r.revokeCalled = (q.revokeCalled \/ at = "revoked")
    /\ r.wipeCalled = (q.wipeCalled \/ at = "wiped")

LEMMA OnceRecord ==
    ASSUME NEW q \in Runs, NEW at \in Once
    PROVE  /\ OnceEffect(q, at) \in Runs
           /\ OnceEffect(q, at).pc = q.pc /\ OnceEffect(q, at).why = q.why
           /\ OnceEffect(q, at).outcome = q.outcome
           /\ SameCall(OnceEffect(q, at), q) /\ SameGuest(OnceEffect(q, at), q)
           /\ OnceDone(OnceEffect(q, at), q, at)
<1>0. /\ q.revoked \in BOOLEAN /\ q.wiped \in BOOLEAN /\ q.revokeCalled \in BOOLEAN /\ q.wipeCalled \in BOOLEAN
  BY DEF Runs
<1>1. CASE at = "revoking"
  <2> DEFINE r == [q EXCEPT !.revoked = TRUE]
  <2>1. OnceEffect(q, at) = r
    BY <1>1 DEF OnceEffect
  <2>2. r \in Runs
    BY DEF Runs
  <2>3. r.pc = q.pc /\ r.why = q.why /\ r.outcome = q.outcome /\ SameCall(r, q) /\ SameGuest(r, q)
    BY DEF Runs, SameCall, SameGuest
  <2>4. OnceDone(r, q, at)
    BY <1>0, <1>1 DEF Runs, OnceDone
  <2> QED
    BY <2>1, <2>2, <2>3, <2>4
<1>2. CASE at = "revoked"
  <2> DEFINE r == [q EXCEPT !.revokeCalled = TRUE]
  <2>1. OnceEffect(q, at) = r
    BY <1>2 DEF OnceEffect
  <2>2. r \in Runs
    BY DEF Runs
  <2>3. r.pc = q.pc /\ r.why = q.why /\ r.outcome = q.outcome /\ SameCall(r, q) /\ SameGuest(r, q)
    BY DEF Runs, SameCall, SameGuest
  <2>4. OnceDone(r, q, at)
    BY <1>0, <1>2 DEF Runs, OnceDone
  <2> QED
    BY <2>1, <2>2, <2>3, <2>4
<1>3. CASE at = "wiping"
  <2> DEFINE r == [q EXCEPT !.wiped = TRUE]
  <2>1. OnceEffect(q, at) = r
    BY <1>3 DEF OnceEffect
  <2>2. r \in Runs
    BY DEF Runs
  <2>3. r.pc = q.pc /\ r.why = q.why /\ r.outcome = q.outcome /\ SameCall(r, q) /\ SameGuest(r, q)
    BY DEF Runs, SameCall, SameGuest
  <2>4. OnceDone(r, q, at)
    BY <1>0, <1>3 DEF Runs, OnceDone
  <2> QED
    BY <2>1, <2>2, <2>3, <2>4
<1>4. CASE at = "wiped"
  <2> DEFINE r == [q EXCEPT !.wipeCalled = TRUE]
  <2>1. OnceEffect(q, at) = r
    BY <1>4 DEF OnceEffect
  <2>2. r \in Runs
    BY DEF Runs
  <2>3. r.pc = q.pc /\ r.why = q.why /\ r.outcome = q.outcome /\ SameCall(r, q) /\ SameGuest(r, q)
    BY DEF Runs, SameCall, SameGuest
  <2>4. OnceDone(r, q, at)
    BY <1>0, <1>4 DEF Runs, OnceDone
  <2> QED
    BY <2>1, <2>2, <2>3, <2>4
<1>5. CASE at \in {"revoke", "wipe"}
  <2>1. OnceEffect(q, at) = q
    BY <1>5 DEF OnceEffect
  <2> QED
    BY <1>0, <1>5, <2>1 DEF OnceDone, SameCall, SameGuest
<1> QED
  BY <1>1, <1>2, <1>3, <1>4, <1>5 DEF Once

\* The way through them: a flag is set before its hook is called, and the wipe comes after
\* the revocation.
LEMMA OnceWay ==
    ASSUME NEW q \in Runs, NEW at \in Once
    PROVE  /\ OnceNext(q, at) \in Once \cup {"close"} /\ OnceNext(q, at) # "revoke"
           /\ OnceNext(q, at) = "revoked" => at = "revoking"
           /\ OnceNext(q, at) = "wiped" => at = "wiping"
           /\ OnceNext(q, at) = "wipe" => at = "revoked" \/ q.revoked
           /\ OnceNext(q, at) = "close" => at = "wiped" \/ (at = "wipe" /\ q.wiped)
           /\ OnceNext(q, at) \in {"wiping", "wiped", "close"} => at \in {"wipe", "wiping", "wiped"}
           /\ at \in {"wipe", "wiping", "wiped"} => OnceNext(q, at) \in {"wiping", "wiped", "close"}
  BY DEF OnceNext, Once

\* One step of the Runner's thread through revoke_once and wipe_once, to the place p.
LEMMA OnceStep ==
    ASSUME RunInd, NEW c \in Calls, run[c].pc \in Once, NEW p \in Places, NEW why \in {run[c].why, "hook"},
           run' = [run EXCEPT ![c] = [OnceEffect(run[c], run[c].pc) EXCEPT !.pc = p, !.why = why]],
           \/ p = OnceNext(run[c], run[c].pc)
           \/ p = "cleanup" /\ why = "hook" /\ run[c].pc \in {"revoked", "wiped"},
           UNCHANGED <<export, runner, audit, dirs, active, op>>
    PROVE  RunInd'
<1>1. /\ run \in [Calls -> Runs] /\ run[c] \in Runs /\ run[c].read <= run[c].sent /\ CallOK(c)
      /\ run[c].revoked \in BOOLEAN /\ run[c].wiped \in BOOLEAN
  BY CallFacts
<1> DEFINE q == run[c]
           e == OnceEffect(q, q.pc)
           r == [e EXCEPT !.pc = p, !.why = why]
<1>2. run' = [run EXCEPT ![c] = r]
  OBVIOUS
<1>3. /\ e \in Runs /\ e.pc = q.pc /\ e.why = q.why /\ e.outcome = q.outcome
      /\ SameCall(e, q) /\ SameGuest(e, q) /\ OnceDone(e, q, q.pc)
  BY <1>1, OnceRecord
<1>4. /\ OnceNext(q, q.pc) \in Once \cup {"close"} /\ OnceNext(q, q.pc) # "revoke"
      /\ OnceNext(q, q.pc) = "revoked" => q.pc = "revoking"
      /\ OnceNext(q, q.pc) = "wiped" => q.pc = "wiping"
      /\ OnceNext(q, q.pc) = "wipe" => q.pc = "revoked" \/ q.revoked
      /\ OnceNext(q, q.pc) = "close" => q.pc = "wiped" \/ (q.pc = "wipe" /\ q.wiped)
      /\ OnceNext(q, q.pc) \in {"wiping", "wiped", "close"} => q.pc \in {"wipe", "wiping", "wiped"}
  BY <1>1, OnceWay
<1>5. why \in Whys \cup {None}
  BY <1>1 DEF Runs, Whys
<1> HIDE DEF e
<1>6. r \in Runs
  BY <1>3, <1>5 DEF Runs
<1>7. /\ r.pc = p /\ r.why = why /\ SameCall(r, e) /\ SameGuest(r, e) /\ SameHooks(r, e)
  BY <1>3 DEF Runs, SameCall, SameGuest, SameHooks
<1> HIDE DEF r
<1>8. run'[c] = r /\ OnlyCall(c)
  BY <1>1, <1>2, <1>6 DEF OnlyCall
<1>9. SameCall(r, q) /\ SameGuest(r, q) /\ OnceDone(r, q, q.pc)
  BY <1>3, <1>7 DEF SameCall, SameGuest, SameHooks, OnceDone
<1>10. p \in Once \cup {"close", "cleanup"}
  BY <1>4
<1>11. "hook" # None
  BY DEF Whys
<1> DEFINE next == OnceNext(q, q.pc)
<1>12. p = next \/ (p = "cleanup" /\ why = "hook" /\ q.pc \in {"revoked", "wiped"})
  OBVIOUS
<1> HIDE DEF next
<1>13. CallOK(c)'
  <2>1. WorkerOK(c)' /\ PromotionOK(c)'
    <3>1. WorkerOK(c) /\ PromotionOK(c) /\ q = run[c]
      BY <1>1 DEF CallOK
    <3>2. q.pc \in Held /\ r.pc \in Held /\ q.proc # "alive" /\ q.proc # "none" /\ active = c
      BY <1>7, <1>10, <3>1 DEF WorkerOK, Held
    <3>3. r.pc \in {"revoked", "wipe", "wiping", "wiped", "close"} => r.revoked
      BY <1>4, <1>7, <1>9, <1>12, <3>1 DEF WorkerOK, OnceDone, next
    <3>4. r.pc \in {"wiped", "close"} => r.wiped
      BY <1>4, <1>7, <1>9, <1>12, <3>1 DEF WorkerOK, OnceDone, next
    <3>5. r.proc = q.proc /\ r.pc \notin Over /\ r.pc \notin {"idle", "prepare", "backend"}
      BY <1>7, <1>9, <1>10 DEF SameGuest, Over, Once
    <3>6. WorkerOK(c)'
      BY <1>8, <3>2, <3>3, <3>4, <3>5 DEF WorkerOK
    <3>7. PromotionOK(c)'
      BY <3>1, <3>2 DEF PromotionOK, Held, Once
    <3> QED
      BY <3>6, <3>7
  <2>2. VerifiedOK(c)'
    BY <1>1, <1>7, <1>8, <1>9, <1>10 DEF CallOK, VerifiedOK, Held, Once, SameCall
  <2>3. HooksOK(c)'
    <3>1. HooksOK(c) /\ q = run[c] /\ op' = op
      BY <1>1 DEF CallOK
    <3>2. q.pc = "revoking" => p = "revoked"
      BY <1>12 DEF next, OnceNext
    <3>3. q.pc = "wiping" => p = "wiped"
      BY <1>12 DEF next, OnceNext
    <3> QED
      BY <1>7, <1>8, <1>9, <3>1, <3>2, <3>3 DEF HooksOK, OnceDone
  <2>4. AuditOK(c)'
    <3>1. AuditOK(c) /\ audit'[c] = audit[c] /\ q = run[c]
      BY <1>1 DEF CallOK
    <3>2. audit[c] \in {<<"start">>, <<"start", "receipt">>} /\ (q.why = None => audit[c] = <<"start", "receipt">>)
      BY <3>1 DEF AuditOK
    <3>3. r.why = None => q.why = None
      BY <1>7, <1>11
    <3>4. r.pc = "cleanup" => r.why # None
      BY <1>4, <1>7, <1>11, <1>12 DEF next, Once
    <3> QED
      BY <1>7, <1>8, <1>10, <3>1, <3>2, <3>3, <3>4 DEF AuditOK, Once
  <2> QED
    BY <2>1, <2>2, <2>3, <2>4 DEF CallOK
<1>14. Shown(run[c]) => Shown(run'[c])
  BY <1>7, <1>8, <1>9, <1>10 DEF Shown, SameGuest
<1>15. (\E n \in Runners : runner[n].receipt = c) => Shown(run'[c])
  BY <1>14, ReceiptShown
<1>16. /\ WorkerGoesOn(run'[c], run[c]) /\ run'[c].read <= run'[c].sent /\ SameCall(run'[c], run[c])
       /\ run[c].pc \notin {"idle", "done"} /\ run'[c].pc \notin {"idle", "done"}
  BY <1>1, <1>7, <1>8, <1>9, <1>10 DEF WorkerGoesOn, SameGuest, Once
<1> QED
  BY <1>8, <1>13, <1>15, <1>16, PlainStep

LEMMA CleanUpStep ==
    ASSUME RunInd, NEW c \in Calls, CleanUp(c)
    PROVE  RunInd'
<1> DEFINE q == run[c]
           e == OnceEffect(q, q.pc)
           p == OnceNext(q, q.pc)
<1>1. q \in Runs /\ run \in [Calls -> Runs] /\ q.pc \in Once
  BY CallFacts DEF CleanUp
<1>2. e \in Runs /\ e.pc = q.pc /\ e.why = q.why
  BY <1>1, OnceRecord
<1>3. p \in Places
  BY <1>1, OnceWay DEF Places
<1>4. run' = [run EXCEPT ![c] = [e EXCEPT !.pc = p]]
  BY DEF CleanUp
<1> HIDE DEF e, p
<1>5. [e EXCEPT !.pc = p] = [e EXCEPT !.pc = p, !.why = q.why]
  BY <1>2 DEF Runs
<1>6. run' = [run EXCEPT ![c] = [OnceEffect(run[c], run[c].pc) EXCEPT !.pc = p, !.why = run[c].why]]
  BY <1>4, <1>5 DEF e
<1>7. UNCHANGED <<export, runner, audit, dirs, active, op>>
  BY DEF CleanUp, store
<1>8. p = OnceNext(run[c], run[c].pc) /\ run[c].pc \in Once
  BY <1>1 DEF p
<1> QED
  BY <1>3, <1>6, <1>7, <1>8, OnceStep

LEMMA HookRaisesStep ==
    ASSUME RunInd, NEW c \in Calls, HookRaises(c)
    PROVE  RunInd'
<1> DEFINE q == run[c]
           e == OnceEffect(q, q.pc)
           p == IF q.why = None THEN "cleanup" ELSE OnceNext(q, q.pc)
           why == IF q.why = None THEN "hook" ELSE q.why
<1>1. q \in Runs /\ run \in [Calls -> Runs] /\ q.pc \in Once /\ q.pc \in {"revoked", "wiped"}
  BY CallFacts DEF HookRaises, Once
<1>2. e \in Runs /\ e.pc = q.pc /\ e.why = q.why
  BY <1>1, OnceRecord
<1>3. p \in Places
  BY <1>1, OnceWay DEF Places
<1>4. run' = [run EXCEPT ![c] = IF q.why = None THEN [e EXCEPT !.pc = "cleanup", !.why = "hook"]
                               ELSE [e EXCEPT !.pc = OnceNext(q, q.pc)]]
  BY DEF HookRaises
<1>5. run' = [run EXCEPT ![c] = [e EXCEPT !.pc = p, !.why = why]]
  <2>1. CASE q.why = None
    BY <1>4, <2>1
  <2>2. CASE q.why # None
    <3>1. run' = [run EXCEPT ![c] = [e EXCEPT !.pc = p]] /\ why = e.why
      BY <1>2, <1>4, <2>2
    <3> HIDE DEF e, p, why
    <3>2. [e EXCEPT !.pc = p] = [e EXCEPT !.pc = p, !.why = why]
      BY <1>2, <3>1 DEF Runs
    <3> QED
      BY <3>1, <3>2
  <2> QED
    BY <2>1, <2>2
<1>6. run' = [run EXCEPT ![c] = [OnceEffect(run[c], run[c].pc) EXCEPT !.pc = p, !.why = why]]
  BY <1>5
<1>7. UNCHANGED <<export, runner, audit, dirs, active, op>>
  BY DEF HookRaises, store
<1>8. /\ \/ p = OnceNext(run[c], run[c].pc)
         \/ p = "cleanup" /\ why = "hook" /\ run[c].pc \in {"revoked", "wiped"}
      /\ why \in {run[c].why, "hook"} /\ run[c].pc \in Once
  BY <1>1
<1> HIDE DEF p, why
<1> QED
  BY <1>3, <1>6, <1>7, <1>8, OnceStep

\* The slot is given back when the worker has ended and both flags are set.
LEMMA CloseStep ==
    ASSUME RunInd, NEW c \in Calls, Close(c)
    PROVE  RunInd'
<1>1. /\ run \in [Calls -> Runs] /\ run[c] \in Runs /\ run[c].read <= run[c].sent /\ CallOK(c)
      /\ run[c].pc = "close" /\ UNCHANGED <<export, audit, dirs, op>> /\ active' = None /\ NoController(c)
  BY CallFacts DEF Close, store
<1> DEFINE q == run[c]
           p == IF q.why = None THEN "returned" ELSE "error"
           r == [Dropped(q) EXCEPT !.pc = p]
<1>2. run' = [run EXCEPT ![c] = r]
  BY <1>1 DEF Close
<1>3. /\ p \in Places /\ q \in Runs /\ (p = "returned" \/ p = "error") /\ (p = "returned" <=> q.why = None)
      /\ q.proc \notin {"none", "alive"} /\ active = c
  BY <1>1 DEF Places, CallOK, WorkerOK, Held, Once
<1> HIDE DEF q, p
<1>4. /\ r \in Runs /\ r.pc = p /\ SameCall(r, q) /\ SameHooks(r, q) /\ r.read <= r.sent
      /\ r.proc \notin {"none", "alive"}
      /\ q.why \in {None, "audit", "hook"} => r.why = q.why /\ SameGuest(r, q)
  <2>1. CASE q.why \in {None, "audit", "hook"}
    <3>1. r = [q EXCEPT !.pc = p]
      BY <2>1 DEF Dropped
    <3>2. r \in Runs /\ r.pc = p /\ r.why = q.why /\ Kept(r, q)
      BY <1>3, <3>1, PcRecord
    <3> QED
      BY <1>1, <1>3, <3>2 DEF Kept, SameGuest, q
  <2>2. CASE q.why \notin {None, "audit", "hook"}
    <3>1. r = [q EXCEPT !.sent = 0, !.read = 0, !.claim = None, !.why = "failed", !.proc = "killed", !.pc = p]
      BY <1>3, <2>2 DEF Dropped, Runs
    <3>2. 0 \in 0..2
      OBVIOUS
    <3>7. "failed" \in Whys
      BY DEF Whys
    <3> HIDE DEF r
    <3>3. r \in Runs
      BY <1>3, <3>1, <3>2, <3>7 DEF Runs
    <3>4. r.pc = p /\ r.read = 0 /\ r.sent = 0 /\ r.proc = "killed"
      BY <1>3, <3>1 DEF Runs
    <3>5. SameCall(r, q)
      BY <1>3, <3>1 DEF Runs, SameCall
    <3>6. SameHooks(r, q)
      BY <1>3, <3>1 DEF Runs, SameHooks
    <3> QED
      BY <2>2, <3>3, <3>4, <3>5, <3>6
  <2> QED
    BY <2>1, <2>2
<1> HIDE DEF r
<1>5. run'[c] = r /\ OnlyCall(c)
  BY <1>1, <1>2, <1>4 DEF OnlyCall
<1>6. CallOK(c)'
  <2>1. WorkerOK(c)' /\ PromotionOK(c)'
    BY <1>1, <1>3, <1>4, <1>5 DEF CallOK, WorkerOK, PromotionOK, Held, Over, Once, Kept, SameGuest, SameHooks, q
  <2>2. VerifiedOK(c)' /\ HooksOK(c)'
    BY <1>1, <1>3, <1>4, <1>5 DEF CallOK, VerifiedOK, HooksOK, Held, Once, Kept, SameHooks, SameCall, SameGuest, q
  <2>3. AuditOK(c)'
    BY <1>1, <1>3, <1>4, <1>5 DEF CallOK, VerifiedOK, AuditOK, Held, Once, Kept, SameCall, q
  <2> QED
    BY <2>1, <2>2, <2>3 DEF CallOK
<1>7. Shown(run[c]) => Shown(run'[c])
  BY <1>3, <1>4, <1>5 DEF Shown, SameGuest, Over, q
<1>8. (\E n \in Runners : runner[n].receipt = c) => Shown(run'[c])
  BY <1>7, ReceiptShown
<1>9. /\ WorkerGoesOn(run'[c], run[c]) /\ run'[c].read <= run'[c].sent /\ SameCall(run'[c], run[c])
      /\ run[c].pc \notin {"idle", "done"} /\ run'[c].pc \notin {"idle", "done"}
  BY <1>1, <1>3, <1>4, <1>5 DEF WorkerGoesOn, q
<1>10. active' \in {active, None} /\ (active # active' => active = c)
  BY <1>1, <1>3
<1> QED
  BY <1>1, <1>5, <1>6, <1>8, <1>9, <1>10, ReleaseStep

-----------------------------------------------------------------------------
(***************************************************************************)
(* The export of a call, and its guest.                                    *)
(***************************************************************************)
LEMMA ExportAlone ==
    ASSUME StoreTypeOK, NEW c \in Calls, ExportStep(c) \/ \E id \in RunIds : ExportTree(c, id)
    PROVE  \A d \in Calls : d # c => export'[d] = export[d]
<1>1. export \in [Calls -> Exports]
  BY DEF StoreTypeOK
<1>2. CASE ExportStep(c)
  <2>1. CASE NextFile(c) \/ OpenFile(c)
    BY <1>1, <2>1 DEF NextFile, OpenFile, Reject
  <2>2. CASE CopyRegular(c)
    BY <1>1, <2>2 DEF CopyRegular, Reject, At
  <2>3. CASE Scan(c)
    BY <1>1, <2>3 DEF Scan, Reject
  <2>4. CASE Commit(c)
    BY <1>1, <2>4 DEF Commit, Reject, Exported
  <2>5. CASE WriteManifest(c)
    BY <1>1, <2>5 DEF WriteManifest, Reject
  <2> QED
    BY <1>2, <2>1, <2>2, <2>3, <2>4, <2>5 DEF ExportStep
<1>3. CASE \E id \in RunIds : ExportTree(c, id)
  BY <1>1, <1>3 DEF ExportTree, Reject
<1> QED
  BY <1>2, <1>3

\* The steps in which a call and its export move on, and nothing else.
LEMMA ExportingStep ==
    ASSUME RunInd, NEW c \in Calls, OnlyCall(c), run[c].pc \notin {"idle", "done"},
           run'[c].pc \in {"exporting", "error"}, run'[c].why = run[c].why, Kept(run'[c], run[c]),
           UNCHANGED <<runner, audit, dirs, active, op>>,
           \A d \in Calls : d # c => export'[d].at = export[d].at, CallOK(c)'
    PROVE  RunInd'
<1>1. RunTypes /\ run[c].read <= run[c].sent
  BY CallFacts DEF RunInd
<1>2. /\ op' = op /\ dirs' \subseteq Runners \X RunIds /\ active' \in Calls \cup {None}
      /\ \A d \in Calls : d # c => ((active' = d) <=> (active = d))
      /\ runner' \in [Runners -> RunnerStates]
      /\ audit' \in [Calls -> Seq({"start", "receipt", "end", "error"})]
  BY <1>1 DEF RunTypes
<1>3. \A d \in Calls : d # c => audit'[d] = audit[d] /\ export'[d].at = export[d].at
  OBVIOUS
<1>4. Shown(run[c]) => Shown(run'[c])
  BY DEF Shown, Kept, SameGuest, Over
<1>5. \A n \in Runners :
         /\ runner'[n].active = runner[n].active
         /\ runner'[n].receipt = runner[n].receipt \/ (n = run[c].runner /\ runner'[n].receipt = c)
         /\ runner'[n].receipt = c => Shown(run'[c])
  BY <1>4, ReceiptShown
<1>6. /\ WorkerGoesOn(run'[c], run[c]) /\ run'[c].read <= run'[c].sent /\ SameCall(run'[c], run[c])
      /\ run'[c].pc \notin {"idle", "done"}
  BY <1>1 DEF WorkerGoesOn, Kept, SameGuest
<1> QED
  BY <1>2, <1>3, <1>5, <1>6, InnerStep

LEMMA StartExportStep ==
    ASSUME RunInd, StoreTypeOK, NEW c \in Calls, StartExport(c)
    PROVE  RunInd'
<1>1. /\ run \in [Calls -> Runs] /\ CallOK(c) /\ OwnerOK(c) /\ run[c].pc = "returned"
      /\ UNCHANGED <<runner, audit, dirs, active, op>>
  BY CallFacts DEF StartExport
<1>2. OnlyCall(c) /\ run'[c].pc = "exporting" /\ run'[c].why = run[c].why /\ Kept(run'[c], run[c])
  BY <1>1, GotoRecord DEF Places, StartExport
<1>3. run[c].id \in RunIds
  BY <1>1 DEF OwnerOK
<1>4. \A d \in Calls : d # c => export'[d].at = export[d].at
  BY <1>3, ExportAlone DEF StartExport
<1>5. CallOK(c)'
  <2>1. WorkerOK(c)' /\ PromotionOK(c)'
    BY <1>1, <1>2 DEF CallOK, WorkerOK, PromotionOK, Held, Over, Once, Kept, SameGuest, SameHooks
  <2>2. VerifiedOK(c)' /\ HooksOK(c)'
    BY <1>1, <1>2 DEF CallOK, VerifiedOK, HooksOK, Held, Once, Kept, SameHooks, SameCall, SameGuest
  <2>3. AuditOK(c)'
    BY <1>1, <1>2 DEF CallOK, AuditOK, Held, Once, Kept, SameCall
  <2> QED
    BY <2>1, <2>2, <2>3 DEF CallOK
<1> QED
  BY <1>1, <1>2, <1>4, <1>5, ExportingStep

LEMMA ExportingOn ==
    ASSUME RunInd, StoreTypeOK, NEW c \in Calls, Export(c)
    PROVE  RunInd'
<1>1. /\ run \in [Calls -> Runs] /\ CallOK(c) /\ run[c].pc = "exporting" /\ run' = run
      /\ UNCHANGED <<runner, audit, dirs, active, op>>
  BY CallFacts DEF Export
<1>2. OnlyCall(c) /\ run'[c].pc = "exporting" /\ run'[c].why = run[c].why /\ Kept(run'[c], run[c])
  BY <1>1 DEF OnlyCall, Kept, SameCall, SameGuest, SameHooks
<1>3. \A d \in Calls : d # c => export'[d].at = export[d].at
  BY ExportAlone DEF Export
<1>4. CallOK(c)'
  <2>1. WorkerOK(c)' /\ PromotionOK(c)'
    BY <1>1, <1>2 DEF CallOK, WorkerOK, PromotionOK, Held, Over, Once, Kept, SameGuest, SameHooks
  <2>2. VerifiedOK(c)' /\ HooksOK(c)'
    BY <1>1, <1>2 DEF CallOK, VerifiedOK, HooksOK, Held, Once, Kept, SameHooks, SameCall, SameGuest
  <2>3. AuditOK(c)'
    BY <1>1, <1>2 DEF CallOK, AuditOK, Held, Once, Kept, SameCall
  <2> QED
    BY <2>1, <2>2, <2>3 DEF CallOK
<1> QED
  BY <1>1, <1>2, <1>3, <1>4, ExportingStep

LEMMA ExportFailsStep ==
    ASSUME RunInd, NEW c \in Calls, ExportFails(c)
    PROVE  RunInd'
<1>1. /\ run \in [Calls -> Runs] /\ CallOK(c) /\ OwnerOK(c) /\ run[c].pc = "exporting"
      /\ UNCHANGED <<export, runner, audit, dirs, active, op>>
  BY CallFacts DEF ExportFails, store
<1>2. OnlyCall(c) /\ run'[c].pc = "error" /\ run'[c].why = run[c].why /\ Kept(run'[c], run[c])
  BY <1>1, GotoRecord DEF Places, ExportFails
<1>3. CallOK(c)'
  <2>1. WorkerOK(c)' /\ PromotionOK(c)'
    BY <1>1, <1>2 DEF CallOK, WorkerOK, PromotionOK, Held, Over, Once, Kept, SameGuest, SameHooks
  <2>2. VerifiedOK(c)' /\ HooksOK(c)'
    BY <1>1, <1>2 DEF CallOK, VerifiedOK, HooksOK, Held, Once, Kept, SameHooks, SameCall, SameGuest
  <2>3. AuditOK(c)'
    BY <1>1, <1>2 DEF CallOK, AuditOK, Held, Once, Kept, SameCall
  <2> QED
    BY <2>1, <2>2, <2>3 DEF CallOK
<1> QED
  BY <1>1, <1>2, <1>3, ExportingStep

LEMMA GuestSendStep ==
    ASSUME RunInd, NEW c \in Calls, GuestSend(c)
    PROVE  RunInd'
<1>1. /\ run \in [Calls -> Runs] /\ run[c] \in Runs /\ run[c].read <= run[c].sent /\ CallOK(c)
      /\ run[c].pc \in {"poll", "read"} /\ run[c].sent < 2 /\ run[c].sent \in 0..2 /\ run[c].read \in 0..2
      /\ UNCHANGED <<export, runner, audit, dirs, active, op>>
  BY CallFacts DEF GuestSend, store
<1>2. PICK claim \in {"ok", "failed"} :
        run' = [run EXCEPT ![c].sent = @ + 1, ![c].claim = IF run[c].sent = 1 THEN claim ELSE None]
  BY DEF GuestSend
<1> DEFINE q == run[c]
           said == IF q.sent = 1 THEN claim ELSE None
           r == [q EXCEPT !.sent = q.sent + 1, !.claim = said]
<1>3. run' = [run EXCEPT ![c] = r]
  BY <1>1, <1>2
<1>4. q \in Runs /\ said \in {"ok", "failed", None} /\ q.sent + 1 \in 0..2
  BY <1>1
<1> HIDE DEF q, said
<1>5. r \in Runs
  BY <1>4 DEF Runs
<1>6. r.pc = q.pc /\ r.why = q.why /\ r.proc = q.proc /\ r.read = q.read /\ r.sent = q.sent + 1
  BY <1>4 DEF Runs
<1>7. SameCall(r, q)
  BY <1>4 DEF Runs, SameCall
<1>8. SameHooks(r, q)
  BY <1>4 DEF Runs, SameHooks
<1> HIDE DEF r
<1>9. run'[c] = r /\ OnlyCall(c)
  BY <1>1, <1>3, <1>5 DEF OnlyCall
<1>10. CallOK(c)'
  <2>1. WorkerOK(c)' /\ PromotionOK(c)'
    BY <1>1, <1>6, <1>7, <1>8, <1>9 DEF CallOK, WorkerOK, PromotionOK, Held, Over, Once, Kept, SameGuest, SameHooks, q
  <2>2. VerifiedOK(c)' /\ HooksOK(c)'
    BY <1>1, <1>6, <1>7, <1>8, <1>9 DEF CallOK, VerifiedOK, HooksOK, Held, Once, Kept, SameHooks, SameCall, SameGuest, q
  <2>3. AuditOK(c)'
    BY <1>1, <1>6, <1>7, <1>8, <1>9 DEF CallOK, AuditOK, Held, Once, Kept, SameCall, q
  <2> QED
    BY <2>1, <2>2, <2>3 DEF CallOK
<1>11. ~\E n \in Runners : runner[n].receipt = c
  BY <1>1, ReceiptShown DEF Shown, Once, Over
<1>12. /\ WorkerGoesOn(run'[c], run[c]) /\ run'[c].read <= run'[c].sent /\ SameCall(run'[c], run[c])
       /\ run[c].pc \notin {"idle", "done"} /\ run'[c].pc \notin {"idle", "done"}
  BY <1>1, <1>6, <1>7, <1>9 DEF WorkerGoesOn, q
<1> QED
  BY <1>1, <1>9, <1>10, <1>11, <1>12, PlainStep

LEMMA GuestExitStep ==
    ASSUME RunInd, NEW c \in Calls, GuestExit(c)
    PROVE  RunInd'
<1>1. /\ run \in [Calls -> Runs] /\ run[c] \in Runs /\ run[c].read <= run[c].sent /\ CallOK(c)
      /\ run[c].proc = "alive" /\ UNCHANGED <<export, runner, audit, dirs, active, op>>
  BY CallFacts DEF GuestExit, Alive, store
<1>2. PICK code \in {"ok", "failed"} : run' = [run EXCEPT ![c].proc = code]
  BY DEF GuestExit
<1> DEFINE q == run[c]
           r == [q EXCEPT !.proc = code]
<1>3. run' = [run EXCEPT ![c] = r] /\ q \in Runs /\ code \in Procs
  BY <1>1, <1>2
<1>4. q.pc \in {"poll", "read", "verify", "cleanup"}
  <2>1. q.pc \in Places
    BY <1>3 DEF Runs
  <2> QED
    BY <1>1, <2>1 DEF Places, CallOK, WorkerOK, Over, Once
<1> HIDE DEF q
<1>5. r \in Runs
  BY <1>3 DEF Runs
<1>6. r.pc = q.pc /\ r.why = q.why /\ r.proc = code /\ r.read = q.read /\ r.sent = q.sent
  BY <1>3 DEF Runs
<1>7. SameCall(r, q)
  BY <1>3 DEF Runs, SameCall
<1>8. SameHooks(r, q)
  BY <1>3 DEF Runs, SameHooks
<1> HIDE DEF r
<1>9. run'[c] = r /\ OnlyCall(c)
  BY <1>1, <1>3, <1>5 DEF OnlyCall
<1>10. CallOK(c)'
  <2>1. WorkerOK(c)' /\ PromotionOK(c)'
    BY <1>1, <1>4, <1>6, <1>7, <1>8, <1>9 DEF CallOK, WorkerOK, PromotionOK, Held, Over, Once, Kept, SameGuest, SameHooks, q
  <2>2. VerifiedOK(c)' /\ HooksOK(c)'
    BY <1>1, <1>4, <1>6, <1>7, <1>8, <1>9 DEF CallOK, VerifiedOK, HooksOK, Held, Once, Kept, SameHooks, SameCall, SameGuest, q
  <2>3. AuditOK(c)'
    BY <1>1, <1>4, <1>6, <1>7, <1>8, <1>9 DEF CallOK, AuditOK, Held, Once, Kept, SameCall, q
  <2> QED
    BY <2>1, <2>2, <2>3 DEF CallOK
<1>11. ~\E n \in Runners : runner[n].receipt = c
  <2>1. q.claim \in {"ok", "failed", None}
    BY <1>3 DEF Runs
  <2>2. ASSUME Shown(run[c]) PROVE FALSE
    <3>1. q.proc = q.claim
      BY <2>2 DEF Shown, q
    <3> QED
      BY <1>1, <2>1, <3>1, NoneIsNoState DEF q
  <2> QED
    BY <2>2, ReceiptShown
<1>12. /\ WorkerGoesOn(run'[c], run[c]) /\ run'[c].read <= run'[c].sent /\ SameCall(run'[c], run[c])
       /\ run[c].pc \notin {"idle", "done"} /\ run'[c].pc \notin {"idle", "done"}
  BY <1>1, <1>4, <1>6, <1>7, <1>9 DEF WorkerGoesOn, q
<1> QED
  BY <1>1, <1>9, <1>10, <1>11, <1>12, PlainStep

-----------------------------------------------------------------------------
(***************************************************************************)
(* A call gets its Runner and gives it up.                                 *)
(***************************************************************************)
\* A Runner that is given up was the call's own: every other call keeps what it has.
LEMMA DoneStep ==
    ASSUME RunInd, NEW c \in Calls, OnlyCall(c), run[c].pc # "done",
           run'[c].pc = "done", run'[c].runner = run[c].runner, run'[c].why = None,
           SameGuest(run'[c], run[c]),
           UNCHANGED <<export, active, op>>, dirs' \subseteq Runners \X RunIds,
           audit' \in [Calls -> Seq({"start", "receipt", "end", "error"})],
           \A d \in Calls : d # c => audit'[d] = audit[d],
           runner' \in [Runners -> RunnerStates],
           \A n \in Runners :
             /\ runner'[n].receipt = runner[n].receipt
             /\ n # run[c].runner => runner'[n].active = runner[n].active,
           CallOK(c)'
    PROVE  RunInd'
<1>0. RunTypes /\ OperatorOK /\ (\A d \in Calls : CallOK(d) /\ OwnerOK(d)) /\ \A n \in Runners : ReceiptOK(n)
  BY DEF RunInd
<1>1. /\ run \in [Calls -> Runs] /\ run' \in [Calls -> Runs]
      /\ \A d \in Calls : d # c => run'[d] = run[d]
  BY <1>0 DEF RunTypes, OnlyCall
<1>2. RunTypes'
  <2>1. \A d \in Calls : run'[d].read <= run'[d].sent
    BY <1>0, <1>1 DEF RunTypes, SameGuest
  <2> QED
    BY <1>0, <1>1, <2>1 DEF RunTypes
<1>3. OperatorOK'
  BY <1>0, <1>1 DEF OperatorOK, SameGuest
<1>4. ASSUME NEW d \in Calls PROVE CallOK(d)'
  <2>1. CASE d = c
    BY <2>1
  <2>2. CASE d # c
    <3>1. run'[d] = run[d] /\ active' = active /\ audit'[d] = audit[d]
          /\ export'[d].at = export[d].at /\ op' = op /\ CallOK(d)
      BY <1>0, <1>1, <2>2
    <3>2. WorkerOK(d)' /\ PromotionOK(d)' /\ VerifiedOK(d)'
      BY <3>1 DEF CallOK, WorkerOK, PromotionOK, VerifiedOK
    <3>3. AuditOK(d)' /\ HooksOK(d)'
      BY <3>1 DEF CallOK, AuditOK, HooksOK
    <3> QED
      BY <3>2, <3>3 DEF CallOK
  <2> QED
    BY <2>1, <2>2
<1>5. ASSUME NEW d \in Calls PROVE OwnerOK(d)'
  <2>1. CASE d = c
    BY <2>1 DEF OwnerOK
  <2>2. CASE d # c
    <3>1. OwnerOK(d) /\ run'[d] = run[d]
      BY <1>0, <1>1, <2>2
    <3>2. run[d].pc \notin {"idle", "done"} => run[d].runner # run[c].runner
      BY <2>2, <3>1 DEF OwnerOK
    <3>3. \A e \in Calls : run'[e].runner = run[e].runner /\ (run'[e].pc # "done" => run[e].pc # "done")
      BY <1>1
    <3> QED
      BY <3>1, <3>2, <3>3 DEF OwnerOK
  <2> QED
    BY <2>1, <2>2
<1>6. ASSUME NEW n \in Runners PROVE ReceiptOK(n)'
  <2>1. ReceiptOK(n) /\ runner'[n].receipt = runner[n].receipt /\ runner'[n].receipt \in Calls \cup {None}
    BY <1>0 DEF RunnerStates
  <2>2. \A d \in Calls : run'[d].runner = run[d].runner /\ (run[d].pc = "done" => run'[d].pc = "done")
    BY <1>1
  <2>3. ASSUME NEW e \in Calls, Shown(run[e]) PROVE Shown(run'[e])
    <3>1. CASE e = c
      BY <2>3, <3>1 DEF Shown, SameGuest, Over
    <3>2. CASE e # c
      BY <1>1, <2>3, <3>2
    <3> QED
      BY <3>1, <3>2
  <2>4. CASE runner[n].receipt = None
    BY <2>1, <2>4 DEF ReceiptOK
  <2>5. CASE runner[n].receipt # None
    <3>1. PICK e \in Calls : e = runner[n].receipt
      BY <2>1, <2>5
    <3>2. run[e].runner = n /\ Shown(run[e]) /\ \A d \in Calls : d # e /\ run[d].runner = n => run[d].pc = "done"
      BY <2>1, <2>5, <3>1 DEF ReceiptOK
    <3>3. run'[e].runner = n /\ Shown(run'[e])
      BY <2>2, <2>3, <3>2
    <3>4. \A d \in Calls : d # e /\ run'[d].runner = n => run'[d].pc = "done"
      BY <2>2, <3>2
    <3> QED
      BY <2>1, <3>1, <3>3, <3>4 DEF ReceiptOK
  <2> QED
    BY <2>4, <2>5
<1> QED
  BY <1>2, <1>3, <1>4, <1>5, <1>6 DEF RunInd

\* What run and the Runner are after run has raised.
LEMMA RaiseRecord ==
    ASSUME RunInd, NEW c \in Calls, Raise(c)
    PROVE  /\ OnlyCall(c) /\ run'[c].pc = "done" /\ run'[c].runner = run[c].runner /\ run'[c].why = None
           /\ SameGuest(run'[c], run[c]) /\ SameHooks(run'[c], run[c]) /\ run'[c].outcome = "raised"
           /\ runner' \in [Runners -> RunnerStates]
           /\ \A n \in Runners :
                /\ runner'[n].receipt = runner[n].receipt
                /\ n # run[c].runner => runner'[n].active = runner[n].active
<1>1. run \in [Calls -> Runs] /\ run[c] \in Runs /\ runner \in [Runners -> RunnerStates]
  BY CallFacts DEF RunInd, RunTypes
<1> DEFINE q == run[c]
           r == [q EXCEPT !.pc = "done", !.outcome = "raised", !.id = None, !.export = FALSE, !.why = None]
<1>2. run' = [run EXCEPT ![c] = r] /\ q \in Runs /\ "done" \in Places
  BY <1>1 DEF Raise, Places
<1> HIDE DEF q
<1>3. r \in Runs
  BY <1>2 DEF Runs
<1>4. r.pc = "done" /\ r.runner = q.runner /\ r.why = None /\ r.outcome = "raised"
  BY <1>2 DEF Runs
<1>5. SameGuest(r, q)
  BY <1>2 DEF Runs, SameGuest
<1>6. SameHooks(r, q)
  BY <1>2 DEF Runs, SameHooks
<1> HIDE DEF r
<1>7. run'[c] = r /\ OnlyCall(c)
  BY <1>1, <1>2, <1>3 DEF OnlyCall
<1>8. ASSUME NEW n \in Runners
      PROVE  /\ runner'[n] \in RunnerStates /\ runner'[n].receipt = runner[n].receipt
             /\ n # run[c].runner => runner'[n].active = runner[n].active
  <2>1. runner'[n] = IF n = run[c].runner THEN [runner[n] EXCEPT !.active = FALSE] ELSE runner[n]
    BY <1>1 DEF Raise
  <2>2. runner[n] \in RunnerStates
    BY <1>1
  <2> QED
    BY <2>1, <2>2 DEF RunnerStates
<1>9. runner' \in [Runners -> RunnerStates]
  BY <1>1, <1>8 DEF Raise
<1> QED
  BY <1>4, <1>5, <1>6, <1>7, <1>8, <1>9 DEF q

\* run raises, at whichever place and with whatever of its log written, but not its end.
LEMMA RaiseStep ==
    ASSUME RunInd, NEW c \in Calls, Raise(c), run[c].pc \in {"prepare", "error", "returned", "exporting"},
           UNCHANGED <<export, active, op>>, dirs' \subseteq Runners \X RunIds,
           audit' \in {audit, [audit EXCEPT ![c] = Append(@, "error")]},
           run[c].pc # "error" => audit' = audit
    PROVE  RunInd'
<1>1. /\ run \in [Calls -> Runs] /\ CallOK(c) /\ RunTypes
  BY CallFacts DEF RunInd
<1>2. /\ OnlyCall(c) /\ run'[c].pc = "done" /\ run'[c].runner = run[c].runner /\ run'[c].why = None
      /\ SameGuest(run'[c], run[c]) /\ SameHooks(run'[c], run[c]) /\ run'[c].outcome = "raised"
      /\ runner' \in [Runners -> RunnerStates]
      /\ \A n \in Runners :
           /\ runner'[n].receipt = runner[n].receipt
           /\ n # run[c].runner => runner'[n].active = runner[n].active
  BY RaiseRecord
<1> DEFINE Logs == {<<>>, <<"start">>, <<"start", "error">>, <<"start", "receipt">>, <<"start", "receipt", "error">>}
<1>3. /\ audit' \in [Calls -> Seq({"start", "receipt", "end", "error"})]
      /\ audit'[c] \in Logs
      /\ \A d \in Calls : d # c => audit'[d] = audit[d]
  <2>1. audit \in [Calls -> Seq({"start", "receipt", "end", "error"})]
    BY <1>1 DEF RunTypes
  <2>2. CASE audit' = audit
    BY <1>1, <2>1, <2>2 DEF CallOK, AuditOK
  <2>3. CASE audit' # audit
    <3>1. audit[c] \in {<<"start">>, <<"start", "receipt">>}
      BY <1>1, <2>3 DEF CallOK, AuditOK
    <3>2. /\ Append(<<"start">>, "error") = <<"start", "error">>
          /\ Append(<<"start", "receipt">>, "error") = <<"start", "receipt", "error">>
      BY AppendSecond, AppendThird
    <3>3. /\ <<"start", "error">> \in Seq({"start", "receipt", "end", "error"})
          /\ <<"start", "receipt", "error">> \in Seq({"start", "receipt", "end", "error"})
      OBVIOUS
    <3>4. audit' = [audit EXCEPT ![c] = Append(audit[c], "error")]
      BY <2>1, <2>3
    <3>5. Append(audit[c], "error") \in {<<"start", "error">>, <<"start", "receipt", "error">>}
      BY <3>1, <3>2
    <3> DEFINE new == Append(audit[c], "error")
    <3> HIDE DEF new
    <3>6. audit' = [audit EXCEPT ![c] = new] /\ new \in {<<"start", "error">>, <<"start", "receipt", "error">>}
      BY <3>4, <3>5 DEF new
    <3> QED
      BY <2>1, <3>3, <3>6
  <2> QED
    BY <2>2, <2>3
<1> HIDE DEF Logs
<1>4. CallOK(c)'
  <2>1. WorkerOK(c)' /\ PromotionOK(c)'
    BY <1>1, <1>2 DEF CallOK, WorkerOK, PromotionOK, Held, Over, Once, SameGuest, SameHooks
  <2>2. VerifiedOK(c)' /\ HooksOK(c)'
    BY <1>1, <1>2 DEF CallOK, VerifiedOK, HooksOK, Held, Once, SameHooks
  <2>3. AuditOK(c)'
    BY <1>2, <1>3 DEF AuditOK, Once, Logs
  <2> QED
    BY <2>1, <2>2, <2>3 DEF CallOK
<1>5. run[c].pc \notin {"idle", "done"}
  OBVIOUS
<1> QED
  BY <1>2, <1>3, <1>4, <1>5, DoneStep

\* run returns: the last event is in the log, after the receipt of a native run.
LEMMA EndStep ==
    ASSUME RunInd, NEW c \in Calls, End(c)
    PROVE  RunInd'
<1>1. /\ run \in [Calls -> Runs] /\ run[c] \in Runs /\ CallOK(c) /\ OwnerOK(c) /\ RunTypes
      /\ run[c].pc \in {"returned", "exporting"} /\ UNCHANGED <<export, dirs, active, op>>
  BY CallFacts DEF RunInd, End, Finished, store
<1> DEFINE q == run[c]
           r == [q EXCEPT !.pc = "done", !.outcome = "result", !.id = None, !.export = FALSE, !.why = None]
<1>2. run' = [run EXCEPT ![c] = r] /\ q \in Runs /\ "done" \in Places
  BY <1>1 DEF End, Places
<1> HIDE DEF q
<1>3. r \in Runs
  BY <1>2 DEF Runs
<1>4. r.pc = "done" /\ r.runner = q.runner /\ r.why = None /\ r.outcome = "result" /\ r.backend = q.backend
  BY <1>2 DEF Runs
<1>5. SameGuest(r, q)
  BY <1>2 DEF Runs, SameGuest
<1>6. SameHooks(r, q)
  BY <1>2 DEF Runs, SameHooks
<1> HIDE DEF r
<1>7. run'[c] = r /\ OnlyCall(c)
  BY <1>1, <1>2, <1>3 DEF OnlyCall
<1>8. /\ runner' \in [Runners -> RunnerStates]
      /\ \A n \in Runners :
           /\ runner'[n].receipt = runner[n].receipt
           /\ n # run[c].runner => runner'[n].active = runner[n].active
  <2> DEFINE m == IF run[c].export THEN c ELSE None
  <2>1. /\ runner \in [Runners -> RunnerStates] /\ m \in Calls \cup {None}
        /\ runner' = [runner EXCEPT ![run[c].runner].active = FALSE, ![run[c].runner].manifest = m]
    BY <1>1 DEF RunTypes, End
  <2> HIDE DEF m
  <2>2. ASSUME NEW n \in Runners
        PROVE  /\ runner'[n] \in RunnerStates /\ runner'[n].receipt = runner[n].receipt
               /\ n # run[c].runner => runner'[n].active = runner[n].active
    <3>1. runner'[n] = IF n = run[c].runner THEN [runner[n] EXCEPT !.active = FALSE, !.manifest = m]
                       ELSE runner[n]
      BY <2>1
    <3>2. runner[n] \in RunnerStates
      BY <2>1
    <3> QED
      BY <2>1, <3>1, <3>2 DEF RunnerStates
  <2> QED
    BY <2>1, <2>2
<1>9. /\ audit' \in [Calls -> Seq({"start", "receipt", "end", "error"})]
      /\ audit'[c] = IF q.backend = "native" THEN <<"start", "receipt", "end">> ELSE <<"start", "end">>
      /\ \A d \in Calls : d # c => audit'[d] = audit[d]
  <2>1. audit \in [Calls -> Seq({"start", "receipt", "end", "error"})]
    BY <1>1 DEF RunTypes
  <2>2. audit[c] = IF q.backend = "native" THEN <<"start", "receipt">> ELSE <<"start">>
    BY <1>1 DEF CallOK, AuditOK, q
  <2> DEFINE new == Append(audit[c], "end")
  <2>3. new = IF q.backend = "native" THEN <<"start", "receipt", "end">> ELSE <<"start", "end">>
    BY <2>2, AppendSecond, AppendThird
  <2>4. /\ <<"start", "end">> \in Seq({"start", "receipt", "end", "error"})
        /\ <<"start", "receipt", "end">> \in Seq({"start", "receipt", "end", "error"})
    OBVIOUS
  <2>5. audit' = [audit EXCEPT ![c] = new]
    BY <2>1 DEF End
  <2> HIDE DEF new
  <2>6. new \in Seq({"start", "receipt", "end", "error"})
    BY <2>3, <2>4
  <2> QED
    BY <2>1, <2>3, <2>5, <2>6
<1>10. CallOK(c)'
  <2>1. WorkerOK(c)' /\ PromotionOK(c)'
    BY <1>1, <1>4, <1>5, <1>6, <1>7 DEF CallOK, WorkerOK, PromotionOK, Held, Over, Once, SameGuest, SameHooks, q
  <2>2. VerifiedOK(c)' /\ HooksOK(c)'
    BY <1>1, <1>4, <1>6, <1>7 DEF CallOK, VerifiedOK, HooksOK, Held, Once, SameHooks, q
  <2>3. AuditOK(c)'
    BY <1>4, <1>7, <1>9 DEF AuditOK, Once
  <2> QED
    BY <2>1, <2>2, <2>3 DEF CallOK
<1>11. /\ run[c].pc \notin {"idle", "done"} /\ run'[c].pc = "done" /\ run'[c].runner = run[c].runner
       /\ run'[c].why = None /\ SameGuest(run'[c], run[c])
  BY <1>1, <1>4, <1>5, <1>7 DEF q
<1>12. dirs' \subseteq Runners \X RunIds
  BY <1>1 DEF RunTypes
<1> QED
  BY <1>1, <1>7, <1>8, <1>9, <1>10, <1>11, <1>12, DoneStep

LEMMA RejectRequestStep ==
    ASSUME RunInd, NEW c \in Calls, RejectRequest(c)
    PROVE  RunInd'
<1>1. Raise(c) /\ run[c].pc = "prepare" /\ UNCHANGED <<export, active, op>> /\ audit' = audit
  BY DEF RejectRequest, store
<1>2. run[c].runner \in Runners /\ run[c].id \in RunIds /\ dirs \subseteq Runners \X RunIds
  BY <1>1, CallFacts DEF OwnerOK, RunInd, RunTypes
<1>3. dirs' \subseteq Runners \X RunIds
  BY <1>2 DEF RejectRequest
<1> QED
  BY <1>1, <1>3, RaiseStep

LEMMA ErrorStep ==
    ASSUME RunInd, NEW c \in Calls, Error(c)
    PROVE  RunInd'
<1>1. /\ Raise(c) /\ run[c].pc = "error" /\ UNCHANGED <<export, dirs, active, op>>
      /\ audit' = [audit EXCEPT ![c] = Append(@, "error")]
  BY DEF Error, store
<1>2. dirs' \subseteq Runners \X RunIds
  BY <1>1 DEF RunInd, RunTypes
<1> QED
  BY <1>1, <1>2, RaiseStep

LEMMA LastEventFailsStep ==
    ASSUME RunInd, NEW c \in Calls, LastEventFails(c)
    PROVE  RunInd'
<1>1. /\ Raise(c) /\ run[c].pc \in {"error", "returned", "exporting"}
      /\ UNCHANGED <<export, dirs, active, op>> /\ audit' = audit
  BY DEF LastEventFails, Finished, store
<1>2. dirs' \subseteq Runners \X RunIds
  BY <1>1 DEF RunInd, RunTypes
<1> QED
  BY <1>1, <1>2, RaiseStep

\* A call that finds its Runner busy is over at once.
LEMMA BusyStep ==
    ASSUME RunInd, NEW c \in Calls, run[c].pc = "idle",
           run' = [run EXCEPT ![c].pc = "done", ![c].outcome = "busy"],
           UNCHANGED <<export, runner, audit, dirs, active, op>>
    PROVE  RunInd'
<1>1. run \in [Calls -> Runs] /\ run[c] \in Runs /\ CallOK(c) /\ RunTypes
  BY CallFacts DEF RunInd
<1> DEFINE q == run[c]
           r == [q EXCEPT !.pc = "done", !.outcome = "busy"]
<1>2. run' = [run EXCEPT ![c] = r] /\ q \in Runs /\ "done" \in Places
  BY <1>1 DEF Places
<1> HIDE DEF q
<1>3. r \in Runs
  BY <1>2 DEF Runs
<1>4. r.pc = "done" /\ r.runner = q.runner /\ r.why = q.why /\ r.outcome = "busy"
  BY <1>2 DEF Runs
<1>5. SameGuest(r, q)
  BY <1>2 DEF Runs, SameGuest
<1>6. SameHooks(r, q)
  BY <1>2 DEF Runs, SameHooks
<1> HIDE DEF r
<1>7. run'[c] = r /\ OnlyCall(c)
  BY <1>1, <1>2, <1>3 DEF OnlyCall
<1>8. CallOK(c)'
  <2>1. WorkerOK(c)' /\ PromotionOK(c)'
    BY <1>1, <1>4, <1>5, <1>6, <1>7 DEF CallOK, WorkerOK, PromotionOK, Held, Over, Once, SameGuest, SameHooks, q
  <2>2. VerifiedOK(c)' /\ HooksOK(c)'
    BY <1>1, <1>4, <1>6, <1>7 DEF CallOK, VerifiedOK, HooksOK, Held, Once, SameHooks, q
  <2>3. AuditOK(c)'
    BY <1>1, <1>4, <1>7 DEF CallOK, AuditOK, Once
  <2> QED
    BY <2>1, <2>2, <2>3 DEF CallOK
<1>9. /\ run[c].pc # "done" /\ run'[c].pc = "done" /\ run'[c].runner = run[c].runner
      /\ run'[c].why = None /\ SameGuest(run'[c], run[c])
  BY <1>1, <1>4, <1>5, <1>7 DEF CallOK, VerifiedOK, q
<1>10. /\ audit' \in [Calls -> Seq({"start", "receipt", "end", "error"})]
       /\ runner' \in [Runners -> RunnerStates] /\ dirs' \subseteq Runners \X RunIds
  BY <1>1 DEF RunTypes
<1>11. /\ \A d \in Calls : d # c => audit'[d] = audit[d]
       /\ \A n \in Runners :
            /\ runner'[n].receipt = runner[n].receipt
            /\ n # run[c].runner => runner'[n].active = runner[n].active
  OBVIOUS
<1> QED
  BY <1>7, <1>8, <1>9, <1>10, <1>11, DoneStep

\* A call that gets its Runner is the only one that has it, and no receipt is shown.
LEMMA ClaimStep ==
    ASSUME RunInd, NEW c \in Calls, NEW n \in Runners, NEW id \in RunIds,
           NEW backend \in {"native", "other"}, NEW exp \in BOOLEAN,
           run[c].pc = "idle", ~runner[n].active,
           run' = [run EXCEPT ![c].pc = "prepare", ![c].runner = n, ![c].id = id,
                              ![c].backend = backend, ![c].export = exp],
           runner' = [runner EXCEPT ![n].active = TRUE, ![n].receipt = None, ![n].manifest = None],
           UNCHANGED <<export, audit, dirs, active, op>>
    PROVE  RunInd'
<1>0. RunTypes /\ OperatorOK /\ (\A d \in Calls : CallOK(d) /\ OwnerOK(d)) /\ \A m \in Runners : ReceiptOK(m)
  BY DEF RunInd
<1>1. run \in [Calls -> Runs] /\ run[c] \in Runs /\ runner \in [Runners -> RunnerStates]
  BY <1>0 DEF RunTypes
<1> DEFINE q == run[c]
           r == [q EXCEPT !.pc = "prepare", !.runner = n, !.id = id, !.backend = backend, !.export = exp]
<1>2. run' = [run EXCEPT ![c] = r] /\ q \in Runs /\ "prepare" \in Places
  BY <1>1 DEF Places
<1> HIDE DEF q
<1>3. r \in Runs
  BY <1>2 DEF Runs
<1>4. /\ r.pc = "prepare" /\ r.runner = n /\ r.id = id /\ r.backend = backend /\ r.why = q.why
  BY <1>2 DEF Runs
<1>5. SameGuest(r, q)
  BY <1>2 DEF Runs, SameGuest
<1>6. SameHooks(r, q)
  BY <1>2 DEF Runs, SameHooks
<1> HIDE DEF r
<1>7. /\ run'[c] = r /\ run' \in [Calls -> Runs] /\ \A d \in Calls : d # c => run'[d] = run[d]
  <2>1. run'[c] = r
    BY <1>1, <1>2 DEF q
  <2>2. \A d \in Calls : d # c => run'[d] = run[d]
    BY <1>1, <1>2
  <2>3. run' \in [Calls -> Runs]
    BY <1>1, <1>2, <1>3
  <2> QED
    BY <2>1, <2>2, <2>3
<1>8. /\ runner' \in [Runners -> RunnerStates]
      /\ runner'[n].active /\ runner'[n].receipt = None
      /\ \A m \in Runners : m # n => runner'[m] = runner[m]
  <2>1. ASSUME NEW m \in Runners
        PROVE  runner'[m] = IF m = n THEN [runner[m] EXCEPT !.active = TRUE, !.receipt = None, !.manifest = None]
                            ELSE runner[m]
    BY <1>1
  <2>2. ASSUME NEW m \in Runners
        PROVE  runner'[m] \in RunnerStates /\ (m = n => runner'[m].active /\ runner'[m].receipt = None)
    <3> DEFINE s == runner[m]
               t == [s EXCEPT !.active = TRUE, !.receipt = None, !.manifest = None]
    <3>1. s \in RunnerStates /\ runner'[m] = IF m = n THEN t ELSE s
      BY <1>1, <2>1
    <3> HIDE DEF s
    <3>2. t \in RunnerStates /\ t.active /\ t.receipt = None
      BY <3>1 DEF RunnerStates
    <3> HIDE DEF t
    <3> QED
      BY <3>1, <3>2
  <2> QED
    BY <1>1, <2>1, <2>2
<1>9. RunTypes'
  <2>1. \A d \in Calls : run'[d].read <= run'[d].sent
    BY <1>0, <1>5, <1>7 DEF RunTypes, SameGuest, q
  <2> QED
    BY <1>0, <1>7, <1>8, <2>1 DEF RunTypes
<1>10. OperatorOK'
  <2>1. \A d \in Calls : run'[d].proc = run[d].proc
    BY <1>5, <1>7 DEF SameGuest, q
  <2> QED
    BY <1>0, <2>1 DEF OperatorOK
<1>11. ASSUME NEW d \in Calls PROVE CallOK(d)'
  <2>1. CASE d = c
    <3>1. CallOK(c)
      BY <1>0
    <3>2. WorkerOK(c)' /\ PromotionOK(c)'
      BY <1>4, <1>5, <1>6, <1>7, <3>1 DEF CallOK, WorkerOK, PromotionOK, Held, Over, Once, SameGuest, SameHooks, q
    <3>3. VerifiedOK(c)' /\ HooksOK(c)'
      BY <1>4, <1>6, <1>7, <3>1 DEF CallOK, VerifiedOK, HooksOK, Held, Once, SameHooks, q
    <3>4. AuditOK(c)'
      BY <1>4, <1>7, <3>1 DEF CallOK, AuditOK, Once
    <3> QED
      BY <2>1, <3>2, <3>3, <3>4 DEF CallOK
  <2>2. CASE d # c
    <3>1. run'[d] = run[d] /\ active' = active /\ audit'[d] = audit[d]
          /\ export'[d].at = export[d].at /\ op' = op /\ CallOK(d)
      BY <1>0, <1>7, <2>2
    <3>2. WorkerOK(d)' /\ PromotionOK(d)' /\ VerifiedOK(d)'
      BY <3>1 DEF CallOK, WorkerOK, PromotionOK, VerifiedOK
    <3>3. AuditOK(d)' /\ HooksOK(d)'
      BY <3>1 DEF CallOK, AuditOK, HooksOK
    <3> QED
      BY <3>2, <3>3 DEF CallOK
  <2> QED
    BY <2>1, <2>2
<1>12. \A d \in Calls : run[d].runner = n => run[d].pc = "done"
  BY <1>0 DEF OwnerOK
<1>13. ASSUME NEW d \in Calls PROVE OwnerOK(d)'
  <2>1. CASE d = c
    <3>1. \A e \in Calls : run'[e].runner = n /\ run'[e].pc # "done" => e = c
      BY <1>7, <1>12
    <3> QED
      BY <1>4, <1>7, <1>8, <2>1, <3>1 DEF OwnerOK
  <2>2. CASE d # c
    <3>1. OwnerOK(d) /\ run'[d] = run[d]
      BY <1>0, <1>7, <2>2
    <3>2. run[d].pc \notin {"idle", "done"} => run[d].runner # n
      BY <1>12
    <3>3. \A e \in Calls : e # c => run'[e] = run[e]
      BY <1>7
    <3>4. run'[c].runner = n
      BY <1>4, <1>7
    <3> QED
      BY <1>8, <3>1, <3>2, <3>3, <3>4 DEF OwnerOK
  <2> QED
    BY <2>1, <2>2
<1>14. ASSUME NEW m \in Runners PROVE ReceiptOK(m)'
  <2>1. CASE m = n
    BY <1>8, <2>1 DEF ReceiptOK
  <2>2. CASE m # n
    <3>1. ReceiptOK(m) /\ runner'[m].receipt = runner[m].receipt /\ runner[m].receipt \in Calls \cup {None}
      BY <1>0, <1>1, <1>8, <2>2 DEF RunnerStates
    <3>2. runner[m].receipt # c
      BY ReceiptShown DEF Shown, Once, Over
    <3>3. runner[m].receipt # None => run'[runner[m].receipt] = run[runner[m].receipt]
      BY <1>7, <3>1, <3>2
    <3>4. \A d \in Calls : run'[d].runner = m => run'[d] = run[d]
      BY <1>4, <1>7, <2>2
    <3> QED
      BY <3>1, <3>3, <3>4 DEF ReceiptOK
  <2> QED
    BY <2>1, <2>2
<1> QED
  BY <1>9, <1>10, <1>11, <1>13, <1>14 DEF RunInd

LEMMA RunStep ==
    ASSUME RunInd, NEW c \in Calls, Run(c)
    PROVE  RunInd'
<1>1. PICK q \in Requests[c] :
         IF runner[q.runner].active \/ runner[q.runner].controller
         THEN /\ run' = [run EXCEPT ![c].pc = "done", ![c].outcome = "busy"]
              /\ UNCHANGED runner
         ELSE /\ run' = [run EXCEPT ![c].pc = "prepare", ![c].runner = q.runner, ![c].id = q.id,
                                    ![c].backend = q.backend, ![c].export = q.export]
              /\ runner' = [runner EXCEPT ![q.runner].active = TRUE, ![q.runner].receipt = None,
                                          ![q.runner].manifest = None]
  BY DEF Run
<1>2. q \in [runner : Runners, id : RunIds, backend : {"native", "other"}, export : BOOLEAN]
  OBVIOUS
<1>3. q.runner \in Runners /\ q.id \in RunIds /\ q.backend \in {"native", "other"} /\ q.export \in BOOLEAN
  BY <1>2
<1>4. run[c].pc = "idle" /\ UNCHANGED <<export, audit, dirs, active, op>>
  BY DEF Run, store
<1>5. CASE runner[q.runner].active \/ runner[q.runner].controller
  BY <1>1, <1>4, <1>5, BusyStep
<1>6. CASE ~(runner[q.runner].active \/ runner[q.runner].controller)
  BY <1>1, <1>3, <1>4, <1>6, ClaimStep
<1> QED
  BY <1>5, <1>6

-----------------------------------------------------------------------------
(***************************************************************************)
(* The operator's stop: it ends the process of the run it was given and    *)
(* sets flags of it, in a thread of its own, and moves no call.            *)
(***************************************************************************)
LEMMA OperatorStep ==
    ASSUME RunInd, NEW t \in Calls, OnlyCall(t), run[t].proc # "none",
           run'[t].pc = run[t].pc, run'[t].why = run[t].why, run'[t].outcome = run[t].outcome,
           SameCall(run'[t], run[t]), run'[t].sent = run[t].sent, run'[t].read = run[t].read,
           run'[t].claim = run[t].claim, run'[t].proc # "none",
           run[t].proc # "alive" => run'[t].proc = run[t].proc, run'[t].proc # "alive",
           run[t].revoked => run'[t].revoked, run[t].wiped => run'[t].wiped,
           UNCHANGED <<export, runner, audit, dirs, active>>,
           op' \in [pc : {"idle", "stop", "done"} \cup Once, target : Calls \cup {None}],
           op'.pc \in {"stop"} \cup Once => op'.target = t,
           op.target = t, HooksOK(t)'
    PROVE  RunInd'
<1>0. RunTypes /\ OperatorOK /\ (\A d \in Calls : CallOK(d) /\ OwnerOK(d)) /\ \A n \in Runners : ReceiptOK(n)
  BY DEF RunInd
<1>1. /\ run \in [Calls -> Runs] /\ run' \in [Calls -> Runs]
      /\ \A d \in Calls : d # t => run'[d] = run[d]
  BY <1>0 DEF RunTypes, OnlyCall
<1>2. RunTypes'
  <2>1. \A d \in Calls : run'[d].read <= run'[d].sent
    BY <1>0, <1>1 DEF RunTypes
  <2> QED
    BY <1>0, <1>1, <2>1 DEF RunTypes
<1>3. OperatorOK'
  BY DEF OperatorOK
<1>4. ASSUME NEW d \in Calls PROVE CallOK(d)'
  <2>0. CallOK(d) /\ audit'[d] = audit[d] /\ export'[d] = export[d] /\ active' = active
    BY <1>0
  <2>1. CASE d = t
    <3>1. WorkerOK(t)'
      BY <2>0, <2>1 DEF CallOK, WorkerOK
    <3>2. PromotionOK(t)'
      BY <2>0, <2>1 DEF CallOK, PromotionOK
    <3>3. VerifiedOK(t)'
      <4>1. run[t].pc = "report" => run[t].proc # "alive"
        BY <2>0, <2>1 DEF CallOK, WorkerOK
      <4> QED
        BY <2>0, <2>1, <4>1 DEF CallOK, VerifiedOK, SameCall
    <3>4. AuditOK(t)'
      BY <2>0, <2>1 DEF CallOK, AuditOK, SameCall
    <3> QED
      BY <2>1, <3>1, <3>2, <3>3, <3>4 DEF CallOK
  <2>2. CASE d # t
    <3>1. run'[d] = run[d]
      BY <1>1, <2>2
    <3>2. WorkerOK(d)' /\ PromotionOK(d)' /\ VerifiedOK(d)'
      BY <2>0, <3>1 DEF CallOK, WorkerOK, PromotionOK, VerifiedOK
    <3>3. AuditOK(d)'
      BY <2>0, <3>1 DEF CallOK, AuditOK
    <3>4. HooksOK(d)'
      BY <2>0, <2>2, <3>1 DEF CallOK, HooksOK
    <3> QED
      BY <3>2, <3>3, <3>4 DEF CallOK
  <2> QED
    BY <2>1, <2>2
<1>5. \A d \in Calls : /\ run'[d].runner = run[d].runner /\ run'[d].pc = run[d].pc
                       /\ run'[d].id = run[d].id /\ run'[d].backend = run[d].backend
  BY <1>1 DEF SameCall
<1>6. ASSUME NEW d \in Calls PROVE OwnerOK(d)'
  <2>1. OwnerOK(d)
    BY <1>0
  <2> QED
    BY <1>5, <2>1 DEF OwnerOK
<1>7. ASSUME NEW e \in Calls, Shown(run[e]) PROVE Shown(run'[e])
  <2>1. CASE e = t
    <3>1. run[t].claim \in {"ok", "failed", None}
      BY <1>1 DEF Runs
    <3>2. run[t].proc # "alive"
      BY <1>7, <2>1, <3>1, NoneIsNoState DEF Shown
    <3> QED
      BY <1>7, <2>1, <3>2 DEF Shown
  <2>2. CASE e # t
    BY <1>1, <1>7, <2>2
  <2> QED
    BY <2>1, <2>2
<1>8. ASSUME NEW n \in Runners PROVE ReceiptOK(n)'
  <2>1. ReceiptOK(n) /\ runner' = runner /\ runner[n].receipt \in Calls \cup {None}
    BY <1>0 DEF RunTypes, RunnerStates
  <2> QED
    BY <1>5, <1>7, <2>1 DEF ReceiptOK
<1> QED
  BY <1>2, <1>3, <1>4, <1>6, <1>8 DEF RunInd

\* The run that stop takes is the one that has the slot, so it was launched.
LEMMA StopStep ==
    ASSUME RunInd, Stop
    PROVE  RunInd'
<1>0. RunTypes /\ OperatorOK /\ (\A d \in Calls : CallOK(d) /\ OwnerOK(d)) /\ \A n \in Runners : ReceiptOK(n)
  BY DEF RunInd
<1>1. /\ op.pc = "idle" /\ active \in Calls /\ op' = [pc |-> "stop", target |-> active]
      /\ UNCHANGED <<export, runner, run, audit, dirs, active>>
  BY <1>0 DEF Stop, store, RunTypes
<1>2. RunTypes'
  BY <1>0, <1>1 DEF RunTypes
<1>3. OperatorOK'
  <2>1. CallOK(active)
    BY <1>0, <1>1
  <2>2. run[active].proc # "none"
    BY <2>1 DEF CallOK, WorkerOK
  <2> QED
    BY <1>1, <2>2 DEF OperatorOK, Once
<1>4. ASSUME NEW d \in Calls PROVE CallOK(d)' /\ OwnerOK(d)'
  <2>1. CallOK(d) /\ OwnerOK(d)
    BY <1>0
  <2>2. WorkerOK(d)' /\ PromotionOK(d)' /\ VerifiedOK(d)'
    BY <1>1, <2>1 DEF CallOK, WorkerOK, PromotionOK, VerifiedOK
  <2>3. AuditOK(d)'
    BY <1>1, <2>1 DEF CallOK, AuditOK
  <2>4. HooksOK(d)'
    BY <1>1, <2>1 DEF CallOK, HooksOK
  <2>5. OwnerOK(d)'
    BY <1>1, <2>1 DEF OwnerOK
  <2> QED
    BY <2>2, <2>3, <2>4, <2>5 DEF CallOK
<1>5. ASSUME NEW n \in Runners PROVE ReceiptOK(n)'
  <2>1. ReceiptOK(n)
    BY <1>0
  <2> QED
    BY <1>1, <2>1 DEF ReceiptOK
<1> QED
  BY <1>2, <1>3, <1>4, <1>5 DEF RunInd

LEMMA StopTerminateStep ==
    ASSUME RunInd, StopTerminate
    PROVE  RunInd'
<1>0. RunTypes /\ OperatorOK
  BY DEF RunInd
<1>t. PICK t \in Calls : t = op.target
  BY <1>0 DEF OperatorOK, StopTerminate
<1> DEFINE q == run[t]
           proc == IF q.proc = "alive" THEN "killed" ELSE q.proc
           r == [q EXCEPT !.proc = proc]
<1>1. t \in Calls /\ q.proc # "none" /\ op.pc = "stop"
  BY <1>0, <1>t DEF OperatorOK, StopTerminate
<1>2. run \in [Calls -> Runs] /\ q \in Runs /\ q.proc \in Procs /\ CallOK(t)
  BY <1>1, CallFacts
<1>3. run' = [run EXCEPT ![t] = r]
  BY <1>t, <1>1, <1>2 DEF StopTerminate, Terminated, Alive
<1>4. /\ proc \in Procs /\ proc # "none" /\ proc # "alive" /\ (q.proc # "alive" => proc = q.proc)
  BY <1>1, <1>2
<1>5. op' = [op EXCEPT !.pc = "revoke"] /\ UNCHANGED <<export, runner, audit, dirs, active>>
  BY DEF StopTerminate, store
<1>6. /\ op' \in [pc : {"idle", "stop", "done"} \cup Once, target : Calls \cup {None}]
      /\ op'.pc = "revoke" /\ op'.target = t
  BY <1>0, <1>t, <1>5 DEF RunTypes, Once
<1> HIDE DEF q, proc
<1>7. r \in Runs
  BY <1>2, <1>4 DEF Runs
<1>8. /\ r.pc = q.pc /\ r.why = q.why /\ r.outcome = q.outcome /\ r.sent = q.sent /\ r.read = q.read
      /\ r.claim = q.claim /\ r.proc = proc
  BY <1>2 DEF Runs
<1>9. SameCall(r, q)
  BY <1>2 DEF Runs, SameCall
<1>10. SameHooks(r, q)
  BY <1>2 DEF Runs, SameHooks
<1> HIDE DEF r
<1>11. run'[t] = r /\ OnlyCall(t)
  BY <1>1, <1>2, <1>3, <1>7 DEF OnlyCall
<1>12. HooksOK(t)'
  BY <1>1, <1>2, <1>6, <1>8, <1>10, <1>11 DEF CallOK, HooksOK, SameHooks, q
<1> QED
  BY <1>1, <1>4, <1>5, <1>6, <1>8, <1>9, <1>10, <1>11, <1>12, <1>t, OperatorStep DEF SameHooks, q

\* One step of the operator's thread through revoke_once and wipe_once.
LEMMA OperatorOnceStep ==
    ASSUME RunInd, op.pc \in Once,
           run' = [run EXCEPT ![op.target] = OnceEffect(run[op.target], op.pc)],
           \/ op' = OpDone /\ op.pc \notin {"revoking", "wiping"}
           \/ /\ op' = [op EXCEPT !.pc = OnceNext(run[op.target], op.pc)]
              /\ OnceNext(run[op.target], op.pc) \in Once,
           UNCHANGED <<export, runner, audit, dirs, active>>
    PROVE  RunInd'
<1>0. RunTypes /\ OperatorOK
  BY DEF RunInd
<1>t. PICK t \in Calls : t = op.target
  BY <1>0 DEF OperatorOK
<1> DEFINE q == run[t]
           at == op.pc
           r == OnceEffect(q, at)
           next == OnceNext(q, at)
<1>1. t \in Calls /\ q.proc # "none" /\ q.proc # "alive" /\ at \in Once
  BY <1>0, <1>t DEF OperatorOK
<1>2. run \in [Calls -> Runs] /\ q \in Runs /\ CallOK(t)
  BY <1>1, CallFacts
<1>3. /\ r \in Runs /\ r.pc = q.pc /\ r.why = q.why /\ r.outcome = q.outcome
      /\ SameCall(r, q) /\ SameGuest(r, q) /\ OnceDone(r, q, at)
  BY <1>1, <1>2, OnceRecord
<1>4. run' = [run EXCEPT ![t] = r]
  BY <1>t
<1>5. /\ op' \in [pc : {"idle", "stop", "done"} \cup Once, target : Calls \cup {None}]
      /\ op'.pc \in {"stop"} \cup Once => op'.target = t /\ op'.pc = next
      /\ at \in {"revoking", "wiping"} => op'.target = t /\ op'.pc = next
  <2>1. CASE op' = OpDone /\ at \notin {"revoking", "wiping"}
    BY <2>1 DEF OpDone, IdleOp, Once
  <2>2. CASE op' = [op EXCEPT !.pc = next] /\ next \in Once
    <3> HIDE DEF next
    <3>1. op \in [pc : {"idle", "stop", "done"} \cup Once, target : Calls \cup {None}]
      BY <1>0 DEF RunTypes
    <3> QED
      BY <1>t, <2>2, <3>1
  <2> QED
    BY <1>t, <2>1, <2>2
<1>6. (at = "revoking" => next = "revoked") /\ (at = "wiping" => next = "wiped")
  BY DEF OnceNext
<1> HIDE DEF q, r, next
<1>7. run'[t] = r /\ OnlyCall(t)
  BY <1>1, <1>2, <1>3, <1>4 DEF OnlyCall
<1>8. HooksOK(t)'
  <2>1. HooksOK(t) /\ q = run[t] /\ op.target = t
    BY <1>t, <1>2 DEF CallOK, q
  <2> QED
    BY <1>3, <1>5, <1>6, <1>7, <2>1 DEF HooksOK, OnceDone
<1>9. op.target = t /\ q = run[t]
  BY <1>t DEF q
<1>10. /\ run[t].proc # "none" /\ run'[t].proc # "none" /\ run'[t].proc # "alive"
       /\ run'[t].proc = run[t].proc /\ run'[t].sent = run[t].sent /\ run'[t].read = run[t].read
       /\ run'[t].claim = run[t].claim /\ SameCall(run'[t], run[t])
       /\ run'[t].pc = run[t].pc /\ run'[t].why = run[t].why /\ run'[t].outcome = run[t].outcome
  BY <1>1, <1>3, <1>7, <1>9 DEF SameGuest
<1>11. (run[t].revoked => run'[t].revoked) /\ (run[t].wiped => run'[t].wiped)
  BY <1>3, <1>7, <1>9 DEF OnceDone
<1> QED
  BY <1>1, <1>5, <1>7, <1>8, <1>9, <1>10, <1>11, OperatorStep

LEMMA StopCleanUpStep ==
    ASSUME RunInd, StopCleanUp
    PROVE  RunInd'
<1>0. RunTypes /\ OperatorOK
  BY DEF RunInd
<1> DEFINE next == OnceNext(run[op.target], op.pc)
<1>1. op.pc \in Once /\ op.target \in Calls /\ UNCHANGED <<export, runner, audit, dirs, active>>
  BY <1>0 DEF StopCleanUp, OperatorOK, store
<1>2. run \in [Calls -> Runs] /\ run[op.target] \in Runs
  BY <1>1, CallFacts
<1>3. next \in Once \cup {"close"} /\ (next = "close" => op.pc \notin {"revoking", "wiping"})
  BY <1>1, <1>2, OnceWay
<1>4. run' = [run EXCEPT ![op.target] = OnceEffect(run[op.target], op.pc)]
  BY <1>1, <1>2 DEF StopCleanUp
<1>5. op' = IF next = "close" THEN OpDone ELSE [op EXCEPT !.pc = next]
  BY DEF StopCleanUp
<1>6. \/ op' = OpDone /\ op.pc \notin {"revoking", "wiping"}
      \/ op' = [op EXCEPT !.pc = next] /\ next \in Once
  <2> HIDE DEF next
  <2> QED
    BY <1>3, <1>5
<1> QED
  BY <1>1, <1>4, <1>6, OperatorOnceStep

LEMMA StopHookRaisesStep ==
    ASSUME RunInd, StopHookRaises
    PROVE  RunInd'
<1>0. RunTypes /\ OperatorOK
  BY DEF RunInd
<1>1. /\ op.pc \in Once /\ op.pc \in {"revoked", "wiped"} /\ UNCHANGED <<export, runner, audit, dirs, active>>
  BY DEF StopHookRaises, Once, store
<1>2. op.target \in Calls
  BY <1>0, <1>1 DEF OperatorOK
<1>3. run \in [Calls -> Runs]
  BY <1>2, CallFacts
<1>4. run' = [run EXCEPT ![op.target] = OnceEffect(run[op.target], op.pc)] /\ op' = OpDone
  BY <1>2, <1>3 DEF StopHookRaises
<1> QED
  BY <1>1, <1>4, OperatorOnceStep

-----------------------------------------------------------------------------
(***************************************************************************)
(* The invariant.                                                          *)
(***************************************************************************)
\* Consumers, concurrent writers and the disk move no call and end no export.
LEMMA RunStays ==
    ASSUME RunInd, UNCHANGED <<runner, run, audit, dirs, active, op>>,
           \A d \in Calls : export'[d].at = export[d].at
    PROVE  RunInd'
<1>0. RunTypes /\ OperatorOK /\ (\A d \in Calls : CallOK(d) /\ OwnerOK(d)) /\ \A n \in Runners : ReceiptOK(n)
  BY DEF RunInd
<1>1. RunTypes' /\ OperatorOK'
  BY <1>0 DEF RunTypes, OperatorOK
<1>2. ASSUME NEW d \in Calls PROVE CallOK(d)' /\ OwnerOK(d)'
  <2>1. CallOK(d) /\ OwnerOK(d)
    BY <1>0
  <2>2. WorkerOK(d)' /\ PromotionOK(d)' /\ VerifiedOK(d)'
    BY <2>1 DEF CallOK, WorkerOK, PromotionOK, VerifiedOK
  <2>3. AuditOK(d)' /\ HooksOK(d)'
    BY <2>1 DEF CallOK, AuditOK, HooksOK
  <2>4. OwnerOK(d)'
    BY <2>1 DEF OwnerOK
  <2> QED
    BY <2>2, <2>3, <2>4 DEF CallOK
<1>3. ASSUME NEW n \in Runners PROVE ReceiptOK(n)'
  <2>1. ReceiptOK(n)
    BY <1>0
  <2> QED
    BY <2>1 DEF ReceiptOK
<1> QED
  BY <1>1, <1>2, <1>3 DEF RunInd

LEMMA StoreStepKeeps ==
    ASSUME GovernedInv, StoreStep
    PROVE  GovernedInv'
<1>0. StoreInd /\ RunInd /\ export \in [Calls -> Exports]
  BY DEF GovernedInv, StoreInd, StoreTypeOK
<1>1. CASE (\E i \in RunIds : Materialize(i)) \/ Deliver
  <2>1. StoreInd'
    BY <1>0, <1>1, MaterializeKeepsStore, DeliverKeepsStore
  <2>2. UNCHANGED <<export, runner, run, audit, dirs, active, op>>
    BY <1>1 DEF Materialize, Deliver, NextObject, VerifyObject, HashSource, CopyExact, StoreStep
  <2> QED
    BY <1>0, <2>1, <2>2, RunStays DEF GovernedInv
<1>2. CASE \E c \in Calls : ConcurrentWrite(c)
  <2>1. PICK c \in Calls : ConcurrentWrite(c)
    BY <1>2
  <2>2. StoreInd'
    BY <1>0, <2>1, ConcurrentWriteKeepsStore
  <2>4. \A d \in Calls : export'[d].at = export[d].at
    BY <1>0, <2>1, WriteKeepsPlace
  <2>5. UNCHANGED <<runner, run, audit, dirs, active, op>>
    BY DEF StoreStep
  <2> QED
    BY <1>0, <2>2, <2>4, <2>5, RunStays DEF GovernedInv
<1>3. CASE \E d \in Bytes : Corrupt(d)
  <2>1. StoreInd'
    BY <1>0, <1>3, CorruptKeepsStore
  <2>2. UNCHANGED <<export, runner, run, audit, dirs, active, op>>
    BY <1>3 DEF Corrupt, StoreStep
  <2> QED
    BY <1>0, <2>1, <2>2, RunStays DEF GovernedInv
<1> QED
  BY <1>1, <1>2, <1>3 DEF StoreStep

\* The steps that leave the store alone leave its promises alone.
LEMMA StoreUnmoved ==
    ASSUME StoreInd, UNCHANGED store, Fault \/ faults' = faults
    PROVE  StoreInd'
<1>1. faults' \in 0..MaxFaults
  BY FaultCounts DEF StoreInd, StoreTypeOK
<1> QED
  BY <1>1, StoreStays

LEMMA ExportKeepsStore ==
    ASSUME StoreInd, NEW c \in Calls, ExportStep(c), faults' = faults
    PROVE  StoreInd'
  BY NextFileKeepsStore, OpenFileKeepsStore, CopyRegularKeepsStore, ScanKeepsStore, CommitKeepsStore, WriteManifestKeepsStore
     DEF ExportStep

\* One step of a call, by what the step is.
LEMMA CallKeeps ==
    ASSUME GovernedInv, NEW c \in Calls, Call(c) \/ GuestSend(c) \/ GuestExit(c)
    PROVE  GovernedInv'
<1>0. StoreInd /\ RunInd /\ StoreTypeOK
  BY DEF GovernedInv, StoreInd
<1>1. CASE RejectRequest(c)
  <2>1. StoreInd'
    BY <1>0, <1>1, StoreUnmoved DEF RejectRequest
  <2>2. RunInd'
    BY <1>0, <1>1, RejectRequestStep
  <2> QED
    BY <2>1, <2>2 DEF GovernedInv
<1>2. CASE Prepare(c)
  <2>1. StoreInd'
    BY <1>0, <1>2, StoreUnmoved DEF Prepare
  <2>2. RunInd'
    BY <1>0, <1>2, PrepareStep
  <2> QED
    BY <2>1, <2>2 DEF GovernedInv
<1>3. CASE OtherBackend(c)
  <2>1. StoreInd'
    BY <1>0, <1>3, StoreUnmoved DEF OtherBackend
  <2>2. RunInd'
    BY <1>0, <1>3, OtherBackendStep
  <2> QED
    BY <2>1, <2>2 DEF GovernedInv
<1>4. CASE RejectSpec(c)
  <2>1. StoreInd'
    BY <1>0, <1>4, StoreUnmoved DEF RejectSpec
  <2>2. RunInd'
    BY <1>0, <1>4, RejectSpecStep DEF RejectSpec, store
  <2> QED
    BY <2>1, <2>2 DEF GovernedInv
<1>5. CASE Launch(c)
  <2>1. StoreInd'
    BY <1>0, <1>5, StoreUnmoved DEF Launch
  <2>2. RunInd'
    BY <1>0, <1>5, LaunchStep
  <2> QED
    BY <2>1, <2>2 DEF GovernedInv
<1>6. CASE PollProcess(c)
  <2>1. StoreInd'
    BY <1>0, <1>6, StoreUnmoved DEF PollProcess
  <2>2. RunInd'
    BY <1>0, <1>6, PollProcessStep
  <2> QED
    BY <2>1, <2>2 DEF GovernedInv
<1>7. CASE ReadFrame(c)
  <2>1. StoreInd'
    BY <1>0, <1>7, StoreUnmoved DEF ReadFrame
  <2>2. RunInd'
    BY <1>0, <1>7, ReadFrameStep
  <2> QED
    BY <2>1, <2>2 DEF GovernedInv
<1>8. CASE ConversationFails(c)
  <2>1. StoreInd'
    BY <1>0, <1>8, StoreUnmoved DEF ConversationFails
  <2>2. RunInd'
    BY <1>0, <1>8, ConversationFailsStep
  <2> QED
    BY <2>1, <2>2 DEF GovernedInv
<1>9. CASE Verify(c)
  <2>1. StoreInd'
    BY <1>0, <1>9, StoreUnmoved DEF Verify
  <2>2. RunInd'
    BY <1>0, <1>9, VerifyStep
  <2> QED
    BY <2>1, <2>2 DEF GovernedInv
<1>10. CASE Report(c)
  <2>1. StoreInd'
    BY <1>0, <1>10, StoreUnmoved DEF Report
  <2>2. RunInd'
    BY <1>0, <1>10, ReportStep
  <2> QED
    BY <2>1, <2>2 DEF GovernedInv
<1>11. CASE FailureCleanup(c)
  <2>1. StoreInd'
    BY <1>0, <1>11, StoreUnmoved DEF FailureCleanup
  <2>2. RunInd'
    BY <1>0, <1>11, FailureCleanupStep
  <2> QED
    BY <2>1, <2>2 DEF GovernedInv
<1>12. CASE CleanUp(c)
  <2>1. StoreInd'
    BY <1>0, <1>12, StoreUnmoved DEF CleanUp
  <2>2. RunInd'
    BY <1>0, <1>12, CleanUpStep
  <2> QED
    BY <2>1, <2>2 DEF GovernedInv
<1>13. CASE Close(c)
  <2>1. StoreInd'
    BY <1>0, <1>13, StoreUnmoved DEF Close
  <2>2. RunInd'
    BY <1>0, <1>13, CloseStep
  <2> QED
    BY <2>1, <2>2 DEF GovernedInv
<1>14. CASE ExportFails(c)
  <2>1. StoreInd'
    BY <1>0, <1>14, StoreUnmoved DEF ExportFails
  <2>2. RunInd'
    BY <1>0, <1>14, ExportFailsStep
  <2> QED
    BY <2>1, <2>2 DEF GovernedInv
<1>15. CASE End(c)
  <2>1. StoreInd'
    BY <1>0, <1>15, StoreUnmoved DEF End
  <2>2. RunInd'
    BY <1>0, <1>15, EndStep
  <2> QED
    BY <2>1, <2>2 DEF GovernedInv
<1>16. CASE Error(c)
  <2>1. StoreInd'
    BY <1>0, <1>16, StoreUnmoved DEF Error
  <2>2. RunInd'
    BY <1>0, <1>16, ErrorStep
  <2> QED
    BY <2>1, <2>2 DEF GovernedInv
<1>17. CASE Run(c)
  <2>1. StoreInd'
    BY <1>0, <1>17, StoreUnmoved DEF Run
  <2>2. RunInd'
    BY <1>0, <1>17, RunStep
  <2> QED
    BY <2>1, <2>2 DEF GovernedInv
<1>18. CASE GuestSend(c)
  <2>1. StoreInd'
    BY <1>0, <1>18, StoreUnmoved DEF GuestSend
  <2>2. RunInd'
    BY <1>0, <1>18, GuestSendStep
  <2> QED
    BY <2>1, <2>2 DEF GovernedInv
<1>19. CASE GuestExit(c)
  <2>1. StoreInd'
    BY <1>0, <1>19, StoreUnmoved DEF GuestExit
  <2>2. RunInd'
    BY <1>0, <1>19, GuestExitStep
  <2> QED
    BY <2>1, <2>2 DEF GovernedInv
<1>20. CASE LaunchFails(c)
  <2>1. StoreInd'
    BY <1>0, <1>20, StoreUnmoved DEF LaunchFails
  <2>2. RunInd'
    BY <1>0, <1>20, LaunchFailsStep
  <2> QED
    BY <2>1, <2>2 DEF GovernedInv
<1>21. CASE ReportFails(c)
  <2>1. StoreInd'
    BY <1>0, <1>21, StoreUnmoved DEF ReportFails
  <2>2. RunInd'
    BY <1>0, <1>21, ReportFailsStep
  <2> QED
    BY <2>1, <2>2 DEF GovernedInv
<1>22. CASE HookRaises(c)
  <2>1. StoreInd'
    BY <1>0, <1>22, StoreUnmoved DEF HookRaises
  <2>2. RunInd'
    BY <1>0, <1>22, HookRaisesStep
  <2> QED
    BY <2>1, <2>2 DEF GovernedInv
<1>23. CASE LastEventFails(c)
  <2>1. StoreInd'
    BY <1>0, <1>23, StoreUnmoved DEF LastEventFails
  <2>2. RunInd'
    BY <1>0, <1>23, LastEventFailsStep
  <2> QED
    BY <2>1, <2>2 DEF GovernedInv
<1>30. CASE StartExport(c)
  <2>1. run[c].id \in RunIds
    BY <1>0, <1>30, CallFacts DEF StartExport, OwnerOK
  <2>2. StoreInd'
    BY <1>0, <1>30, <2>1, ExportTreeKeepsStore DEF StartExport
  <2>3. RunInd'
    BY <1>0, <1>30, StartExportStep
  <2> QED
    BY <2>2, <2>3 DEF GovernedInv
<1>31. CASE Export(c)
  <2>1. StoreInd'
    BY <1>0, <1>31, ExportKeepsStore DEF Export
  <2>2. RunInd'
    BY <1>0, <1>31, ExportingOn
  <2> QED
    BY <2>1, <2>2 DEF GovernedInv
<1> QED
  BY <1>1, <1>2, <1>3, <1>4, <1>5, <1>6, <1>7, <1>8, <1>9, <1>10, <1>11, <1>12, <1>13, <1>14, <1>15, <1>16, <1>17, <1>18, <1>19, <1>20, <1>21, <1>22, <1>23, <1>30, <1>31
     DEF Call, Execute

LEMMA OperatorKeeps ==
    ASSUME GovernedInv, Operator
    PROVE  GovernedInv'
<1>0. StoreInd /\ RunInd
  BY DEF GovernedInv
<1>1. StoreInd'
  BY <1>0, StoreUnmoved DEF Operator, Stop, StopTerminate, StopCleanUp, StopHookRaises
<1>2. RunInd'
  BY <1>0, StopStep, StopTerminateStep, StopCleanUpStep, StopHookRaisesStep DEF Operator
<1> QED
  BY <1>1, <1>2 DEF GovernedInv

LEMMA InitGoverned == Init => GovernedInv
<1> SUFFICES ASSUME Init PROVE GovernedInv
  OBVIOUS
<1>1. StoreInd
  <2>1. NoExport \in Exports
    BY NoExportTyped
  <2>2. StoreTypeOK
    BY <2>1 DEF Init, StoreInit, StoreTypeOK, NoDelivery, Deliveries
  <2>3. StoreInv
    BY DEF Init, StoreInit, StoreInv, OnlyScannedPromoted, ManifestBacked, DeliveredAsPromised
  <2>4. ASSUME NEW c \in Calls PROVE ExportOK(c)
    <3>1. export[c] = NoExport
      BY DEF Init, StoreInit
    <3>2. NoExport.at = "idle" /\ NoExport.entries = {}
      BY DEF NoExport
    <3> QED
      BY <3>1, <3>2 DEF ExportOK
  <2>5. DeliveryOK
    BY DEF Init, StoreInit, NoDelivery, DeliveryOK
  <2> QED
    BY <2>2, <2>3, <2>4, <2>5 DEF StoreInd
<1>2. IdleRun \in Runs
  <2>1. 0 \in 0..2 /\ "idle" \in Places
    BY DEF Places
  <2> QED
    BY <2>1 DEF IdleRun, Runs
<1>3. /\ run = [c \in Calls |-> IdleRun] /\ audit = [c \in Calls |-> <<>>] /\ active = None /\ op = IdleOp
      /\ runner = [n \in Runners |-> [active |-> FALSE, controller |-> FALSE, receipt |-> None, manifest |-> None]]
      /\ dirs = {} /\ \A c \in Calls : export[c].at = "idle"
  BY DEF Init, StoreInit, NoExport
<1>4. IdleRun.pc = "idle" /\ IdleRun.runner = None /\ IdleRun.proc = "none" /\ IdleRun.why = None
      /\ IdleRun.read = 0 /\ IdleRun.sent = 0 /\ ~IdleRun.revoked /\ ~IdleRun.wiped
  BY DEF IdleRun
<1>5. RunTypes
  <2>1. runner \in [Runners -> RunnerStates]
    BY <1>3 DEF RunnerStates
  <2>2. <<>> \in Seq({"start", "receipt", "end", "error"})
    OBVIOUS
  <2>3. op \in [pc : {"idle", "stop", "done"} \cup Once, target : Calls \cup {None}]
    BY <1>3 DEF IdleOp
  <2>4. run \in [Calls -> Runs] /\ audit \in [Calls -> Seq({"start", "receipt", "end", "error"})]
    BY <1>2, <1>3, <2>2
  <2>5. \A c \in Calls : run[c].read <= run[c].sent
    BY <1>3, <1>4
  <2> QED
    BY <1>3, <2>1, <2>3, <2>4, <2>5 DEF RunTypes
<1>6. OperatorOK
  BY <1>3 DEF OperatorOK, IdleOp, Once
<1>7. ASSUME NEW c \in Calls PROVE CallOK(c) /\ OwnerOK(c)
  <2>1. run[c] = IdleRun /\ audit[c] = <<>> /\ export[c].at = "idle" /\ active # c
    BY <1>3
  <2>2. WorkerOK(c) /\ PromotionOK(c) /\ VerifiedOK(c)
    BY <1>4, <2>1 DEF WorkerOK, PromotionOK, VerifiedOK, Held, Over, Once
  <2>3. AuditOK(c) /\ HooksOK(c)
    BY <1>4, <2>1 DEF AuditOK, HooksOK, Once
  <2>4. OwnerOK(c)
    BY <1>4, <2>1 DEF OwnerOK
  <2> QED
    BY <2>2, <2>3, <2>4 DEF CallOK
<1>8. \A n \in Runners : ReceiptOK(n)
  BY <1>3 DEF ReceiptOK
<1> QED
  BY <1>1, <1>5, <1>6, <1>7, <1>8 DEF GovernedInv, RunInd

\* Every reachable state of the Runners, the adapter and the store satisfies the invariant.
LEMMA GovernedInvariant == Spec => []GovernedInv
<1>1. Init => GovernedInv
  BY InitGoverned
<1>2. GovernedInv /\ [Next]_vars => GovernedInv'
  <2> SUFFICES ASSUME GovernedInv, [Next]_vars PROVE GovernedInv'
    OBVIOUS
  <2>1. CASE Next
    BY <2>1, CallKeeps, OperatorKeeps, StoreStepKeeps DEF Next
  <2>2. CASE UNCHANGED vars
    <3>1. StoreInd /\ RunInd
      BY DEF GovernedInv
    <3>2. StoreInd'
      BY <2>2, <3>1, StoreUnmoved DEF vars
    <3>3. RunInd'
      BY <2>2, <3>1, RunStays DEF vars, store
    <3> QED
      BY <3>2, <3>3 DEF GovernedInv
  <2> QED
    BY <2>1, <2>2
<1> QED
  BY <1>1, <1>2, PTL DEF Spec

-----------------------------------------------------------------------------
(***************************************************************************)
(* The contract.  A step is seen through phase, worker, cleaned and        *)
(* promoted: nothing is seen of most, and of the others one change of one  *)
(* call.                                                                   *)
(***************************************************************************)
SamePhase(d) == Phase(run'[d]) = Phase(run[d])
SameWorker(d) == Worker(run'[d]) = Worker(run[d])
SameCleaned(d) == Cleaned(run'[d]) = Cleaned(run[d])
SamePromoted(d) == (export'[d].at = "exported") = (export[d].at = "exported")

Unseen(d) == SamePhase(d) /\ SameWorker(d) /\ SameCleaned(d) /\ SamePromoted(d)

LEMMA UnseenStep ==
    ASSUME \A d \in Calls : Unseen(d)
    PROVE  UNCHANGED Contract!vars
  BY DEF Unseen, SamePhase, SameWorker, SameCleaned, SamePromoted, Contract!vars

LEMMA SeenOpen ==
    ASSUME NEW c \in Calls, \A d \in Calls : d # c => Unseen(d),
           Phase(run[c]) = "idle", Phase(run'[c]) = "open",
           SameWorker(c), SameCleaned(c), SamePromoted(c)
    PROVE  Contract!Next
<1>1. Contract!Open(c)
  BY DEF Unseen, SamePhase, SameWorker, SameCleaned, SamePromoted, Contract!Open
<1> QED
  BY <1>1 DEF Contract!Next

LEMMA SeenRefuse ==
    ASSUME NEW c \in Calls, \A d \in Calls : d # c => Unseen(d),
           Phase(run[c]) = "idle", Phase(run'[c]) = "closed",
           SameWorker(c), SameCleaned(c), SamePromoted(c)
    PROVE  Contract!Next
<1>1. Contract!Refuse(c)
  BY DEF Unseen, SamePhase, SameWorker, SameCleaned, SamePromoted, Contract!Refuse
<1> QED
  BY <1>1 DEF Contract!Next

LEMMA SeenStart ==
    ASSUME NEW c \in Calls, \A d \in Calls : d # c => Unseen(d),
           Phase(run[c]) = "open", Worker(run[c]) = "none", Worker(run'[c]) = "alive",
           \A d \in Calls : Worker(run[d]) # "alive",
           SamePhase(c), SameCleaned(c), SamePromoted(c)
    PROVE  Contract!Next
<1>1. Contract!Start(c)
  BY DEF Unseen, SamePhase, SameWorker, SameCleaned, SamePromoted, Contract!Start
<1> QED
  BY <1>1 DEF Contract!Next

LEMMA SeenEnd ==
    ASSUME NEW c \in Calls, \A d \in Calls : d # c => Unseen(d),
           Worker(run[c]) = "alive", Worker(run'[c]) = "ended",
           SamePhase(c), SameCleaned(c), SamePromoted(c)
    PROVE  Contract!Next
<1>1. Contract!EndWorker(c)
  BY DEF Unseen, SamePhase, SameWorker, SameCleaned, SamePromoted, Contract!EndWorker
<1> QED
  BY <1>1 DEF Contract!Next

LEMMA SeenClean ==
    ASSUME NEW c \in Calls, \A d \in Calls : d # c => Unseen(d),
           Worker(run[c]) = "ended", Cleaned(run'[c]) = TRUE,
           SamePhase(c), SameWorker(c), SamePromoted(c)
    PROVE  Contract!Next
<1>1. Contract!Clean(c)
  BY DEF Unseen, SamePhase, SameWorker, SameCleaned, SamePromoted, Contract!Clean
<1> QED
  BY <1>1 DEF Contract!Next

LEMMA SeenPromote ==
    ASSUME NEW c \in Calls, \A d \in Calls : d # c => Unseen(d),
           Phase(run[c]) = "open", Worker(run[c]) = "none" \/ (Worker(run[c]) = "ended" /\ Cleaned(run[c])),
           export'[c].at = "exported", SamePhase(c), SameWorker(c), SameCleaned(c)
    PROVE  Contract!Next
<1>1. Contract!Promote(c)
  BY DEF Unseen, SamePhase, SameWorker, SameCleaned, SamePromoted, Contract!Promote, Contract!Settled
<1> QED
  BY <1>1 DEF Contract!Next

LEMMA SeenClose ==
    ASSUME NEW c \in Calls, \A d \in Calls : d # c => Unseen(d),
           Phase(run[c]) = "open", Worker(run[c]) = "none" \/ (Worker(run[c]) = "ended" /\ Cleaned(run[c])),
           Phase(run'[c]) = "closed", SameWorker(c), SameCleaned(c), SamePromoted(c)
    PROVE  Contract!Next
<1>1. Contract!Close(c)
  BY DEF Unseen, SamePhase, SameWorker, SameCleaned, SamePromoted, Contract!Close, Contract!Settled
<1> QED
  BY <1>1 DEF Contract!Next

\* A worker that is alive has the adapter's slot; one of a call that is over, or that has
\* none yet, is settled.
LEMMA WorkerPlace ==
    ASSUME RunInd, NEW c \in Calls
    PROVE  /\ Worker(run[c]) = "alive" => active = c
           /\ run[c].pc \in Over \cup {"prepare"} =>
                Worker(run[c]) = "none" \/ (Worker(run[c]) = "ended" /\ Cleaned(run[c]))
<1>1. run[c] \in Runs /\ WorkerOK(c)
  BY CallFacts DEF CallOK
<1>2. run[c].pc \in Places /\ run[c].proc \in Procs
  BY <1>1 DEF Runs
<1>3. run[c].pc \in Held \cup Over \cup {"idle", "prepare", "backend"}
  BY <1>2 DEF Places, Held, Over
<1> QED
  BY <1>1, <1>2, <1>3 DEF WorkerOK, Worker, Cleaned

\* The steps of a call that touch neither its process nor its flags.
LEMMA QuietStep ==
    ASSUME NEW c \in Calls, \A d \in Calls : d # c => run'[d] = run[d],
           (run'[c].pc = "idle") = (run[c].pc = "idle"), (run'[c].pc = "done") = (run[c].pc = "done"),
           run'[c].proc = run[c].proc, run'[c].revoked = run[c].revoked, run'[c].wiped = run[c].wiped,
           \A d \in Calls : SamePromoted(d)
    PROVE  UNCHANGED Contract!vars
<1>1. ASSUME NEW d \in Calls PROVE Unseen(d)
  <2>1. CASE d = c
    BY <2>1 DEF Unseen, SamePhase, SameWorker, SameCleaned, Phase, Worker, Cleaned
  <2>2. CASE d # c
    BY <2>2 DEF Unseen, SamePhase, SameWorker, SameCleaned
  <2> QED
    BY <2>1, <2>2
<1> QED
  BY <1>1, UnseenStep

\* The calls that only move on, or fail.
LEMMA MovesOn ==
    ASSUME RunInd, NEW c \in Calls, run[c].pc \notin {"idle", "done"}, \A d \in Calls : SamePromoted(d),
           \/ \E p \in Places \ {"idle", "done"} : Goto(c, p)
           \/ \E why \in Whys : Fails(c, why)
    PROVE  UNCHANGED Contract!vars
<1>1. run \in [Calls -> Runs]
  BY CallFacts
<1>2. OnlyCall(c) /\ run'[c].pc \notin {"idle", "done"} /\ Kept(run'[c], run[c])
  BY <1>1, GotoRecord, FailsRecord
<1>3. /\ \A d \in Calls : d # c => run'[d] = run[d]
      /\ run'[c].proc = run[c].proc /\ run'[c].revoked = run[c].revoked /\ run'[c].wiped = run[c].wiped
  BY <1>2 DEF OnlyCall, Kept, SameGuest, SameHooks
<1> QED
  BY <1>2, <1>3, QuietStep

\* The steps of a call between its launch and its end, of which nothing is seen.
LEMMA QuietSeen ==
    ASSUME RunInd, NEW c \in Calls,
           \/ Prepare(c)
           \/ OtherBackend(c)
           \/ RejectSpec(c)
           \/ PollProcess(c)
           \/ ConversationFails(c)
           \/ Verify(c)
           \/ Report(c)
           \/ ReportFails(c)
           \/ ExportFails(c)
           \/ LaunchFails(c)
           \/ ReadFrame(c)
           \/ GuestSend(c)
    PROVE  UNCHANGED Contract!vars
<1>0. run \in [Calls -> Runs] /\ run[c] \in Runs
  BY CallFacts
<1>1. \A d \in Calls : SamePromoted(d)
  BY DEF SamePromoted, store, Prepare, OtherBackend, RejectSpec, PollProcess, ConversationFails, Verify, Report, ReportFails, ExportFails, LaunchFails, ReadFrame, GuestSend
<1>2. {"backend", "returned", "error", "read", "report", "revoke"} \subseteq Places \ {"idle", "done"}
  BY DEF Places, Once
<1>3. {"exited early", "broken", "disagrees", "audit"} \subseteq Whys
  BY DEF Whys
<1>4. CASE Prepare(c)
  BY <1>1, <1>2, <1>3, <1>4, MovesOn DEF Prepare
<1>5. CASE OtherBackend(c)
  BY <1>1, <1>2, <1>3, <1>5, MovesOn DEF OtherBackend
<1>6. CASE RejectSpec(c)
  BY <1>1, <1>2, <1>3, <1>6, MovesOn DEF RejectSpec
<1>7. CASE PollProcess(c)
  BY <1>1, <1>2, <1>3, <1>7, MovesOn DEF PollProcess
<1>8. CASE ConversationFails(c)
  BY <1>1, <1>2, <1>3, <1>8, MovesOn DEF ConversationFails
<1>9. CASE Verify(c)
  BY <1>1, <1>2, <1>3, <1>9, MovesOn DEF Verify
<1>10. CASE Report(c)
  BY <1>1, <1>2, <1>3, <1>10, MovesOn DEF Report
<1>11. CASE ReportFails(c)
  BY <1>1, <1>2, <1>3, <1>11, MovesOn DEF ReportFails
<1>12. CASE ExportFails(c)
  BY <1>1, <1>2, <1>3, <1>12, MovesOn DEF ExportFails
<1>13. CASE LaunchFails(c)
  <2>1. /\ \A d \in Calls : d # c => run'[d] = run[d]
        /\ run[c].pc \notin {"idle", "done"} /\ run'[c].pc \notin {"idle", "done"}
    BY <1>0, <1>13 DEF LaunchFails, Runs
  <2>2. run'[c].proc = run[c].proc /\ run'[c].revoked = run[c].revoked /\ run'[c].wiped = run[c].wiped
    BY <1>0, <1>13 DEF LaunchFails, Runs
  <2> QED
    BY <1>1, <2>1, <2>2, QuietStep
<1>14. CASE ReadFrame(c)
  <2>1. /\ \A d \in Calls : d # c => run'[d] = run[d]
        /\ run[c].pc \notin {"idle", "done"} /\ run'[c].pc \notin {"idle", "done"}
    BY <1>0, <1>14 DEF ReadFrame, Runs
  <2>2. run'[c].proc = run[c].proc /\ run'[c].revoked = run[c].revoked /\ run'[c].wiped = run[c].wiped
    BY <1>0, <1>14 DEF ReadFrame, Runs
  <2> QED
    BY <1>1, <2>1, <2>2, QuietStep
<1>15. CASE GuestSend(c)
  <2>1. /\ \A d \in Calls : d # c => run'[d] = run[d]
        /\ run[c].pc \notin {"idle", "done"} /\ run'[c].pc \notin {"idle", "done"}
    BY <1>0, <1>15 DEF GuestSend, Runs
  <2>2. run'[c].proc = run[c].proc /\ run'[c].revoked = run[c].revoked /\ run'[c].wiped = run[c].wiped
    BY <1>0, <1>15 DEF GuestSend, Runs
  <2> QED
    BY <1>1, <2>1, <2>2, QuietStep
<1> QED
  BY <1>4, <1>5, <1>6, <1>7, <1>8, <1>9, <1>10, <1>11, <1>12, <1>13, <1>14, <1>15

LEMMA OthersUnseen ==
    ASSUME NEW c \in Calls, NEW d \in Calls, run'[d] = run[d], SamePromoted(d)
    PROVE  Unseen(d)
  BY DEF Unseen, SamePhase, SameWorker, SameCleaned

LEMMA RunSeen ==
    ASSUME RunInd, NEW c \in Calls, Run(c)
    PROVE  Contract!Next
<1>0. run \in [Calls -> Runs] /\ run[c] \in Runs /\ run[c].pc = "idle"
  BY CallFacts DEF Run
<1>1. \A d \in Calls : SamePromoted(d)
  BY DEF SamePromoted, store, Run
<1>2. \A d \in Calls : d # c => run'[d] = run[d]
  BY <1>0 DEF Run
<1>3. /\ run'[c].pc \in {"prepare", "done"}
      /\ run'[c].proc = run[c].proc /\ run'[c].revoked = run[c].revoked /\ run'[c].wiped = run[c].wiped
  BY <1>0 DEF Run, Runs
<1>4. SameWorker(c) /\ SameCleaned(c) /\ Phase(run[c]) = "idle" /\ Phase(run'[c]) \in {"open", "closed"}
  BY <1>0, <1>3 DEF SameWorker, SameCleaned, Phase, Worker, Cleaned
<1>5. \A d \in Calls : d # c => Unseen(d)
  BY <1>1, <1>2, OthersUnseen
<1> QED
  BY <1>1, <1>4, <1>5, SeenOpen, SeenRefuse

\* A call closes when it has no worker or its worker is taken care of.
LEMMA DoneSeen ==
    ASSUME RunInd, NEW c \in Calls, run[c].pc \in {"prepare", "returned", "exporting", "error"},
           OnlyCall(c), run'[c].pc = "done", SameGuest(run'[c], run[c]), SameHooks(run'[c], run[c]),
           export' = export
    PROVE  Contract!Next
<1>1. /\ SameWorker(c) /\ SameCleaned(c) /\ SamePromoted(c) /\ Phase(run[c]) = "open" /\ Phase(run'[c]) = "closed"
  BY DEF SameWorker, SameCleaned, SamePromoted, SameGuest, SameHooks, Phase, Worker, Cleaned
<1>2. Worker(run[c]) = "none" \/ (Worker(run[c]) = "ended" /\ Cleaned(run[c]))
  BY WorkerPlace DEF Over
<1>3. \A d \in Calls : d # c => Unseen(d)
  BY OthersUnseen DEF OnlyCall, SamePromoted
<1> QED
  BY <1>1, <1>2, <1>3, SeenClose

LEMMA EndSeen ==
    ASSUME RunInd, NEW c \in Calls, RejectRequest(c) \/ End(c) \/ Error(c) \/ LastEventFails(c)
    PROVE  Contract!Next
<1>0. run \in [Calls -> Runs] /\ run[c] \in Runs
  BY CallFacts
<1>1. run[c].pc \in {"prepare", "returned", "exporting", "error"} /\ export' = export
  BY DEF RejectRequest, End, Error, LastEventFails, Finished, store
<1>2. CASE End(c)
  <2> DEFINE q == run[c]
             r == [q EXCEPT !.pc = "done", !.outcome = "result", !.id = None, !.export = FALSE, !.why = None]
  <2>1. run' = [run EXCEPT ![c] = r] /\ q \in Runs /\ "done" \in Places
    BY <1>0, <1>2 DEF End, Places
  <2> HIDE DEF q
  <2>2. r \in Runs /\ r.pc = "done"
    BY <2>1 DEF Runs
  <2>3. SameGuest(r, q)
    BY <2>1 DEF Runs, SameGuest
  <2>4. SameHooks(r, q)
    BY <2>1 DEF Runs, SameHooks
  <2> HIDE DEF r
  <2>5. run'[c] = r /\ OnlyCall(c)
    BY <1>0, <2>1, <2>2 DEF OnlyCall
  <2>6. run'[c].pc = "done" /\ SameGuest(run'[c], run[c]) /\ SameHooks(run'[c], run[c])
    BY <2>2, <2>3, <2>4, <2>5 DEF q
  <2> QED
    BY <1>1, <2>5, <2>6, DoneSeen
<1>3. CASE RejectRequest(c) \/ Error(c) \/ LastEventFails(c)
  <2>1. Raise(c)
    BY <1>3 DEF RejectRequest, Error, LastEventFails
  <2> QED
    BY <1>1, <2>1, RaiseRecord, DoneSeen
<1> QED
  BY <1>2, <1>3

\* A launch is refused while another call has the slot, so no other worker is alive.
LEMMA LaunchSeen ==
    ASSUME RunInd, NEW c \in Calls, Launch(c)
    PROVE  Contract!Next \/ UNCHANGED Contract!vars
<1>0. /\ run \in [Calls -> Runs] /\ run[c] \in Runs /\ run[c].pc = "backend" /\ CallOK(c)
      /\ \A d \in Calls : SamePromoted(d)
  BY CallFacts DEF Launch, SamePromoted, store
<1>1. CASE active # None
  <2>1. Goto(c, "error") /\ "error" \in Places \ {"idle", "done"}
    BY <1>1 DEF Launch, Places
  <2> QED
    BY <1>0, <2>1, MovesOn
<1>2. CASE active = None
  <2>1. run' = [run EXCEPT ![c].pc = "poll", ![c].proc = "alive"]
    BY <1>2 DEF Launch
  <2>2. \A d \in Calls : d # c => run'[d] = run[d]
    BY <1>0, <2>1
  <2>3. run'[c].pc = "poll" /\ run'[c].proc = "alive" /\ run'[c].revoked = run[c].revoked
        /\ run'[c].wiped = run[c].wiped /\ run[c].proc = "none"
    BY <1>0, <2>1 DEF Runs, CallOK, WorkerOK
  <2>4. /\ Phase(run[c]) = "open" /\ SamePhase(c) /\ SameCleaned(c) /\ Worker(run[c]) = "none"
        /\ Worker(run'[c]) = "alive"
    BY <1>0, <2>3 DEF SamePhase, SameCleaned, Phase, Worker, Cleaned
  <2>5. \A d \in Calls : Worker(run[d]) # "alive"
    BY <1>2, WorkerPlace
  <2>6. \A d \in Calls : d # c => Unseen(d)
    BY <1>0, <2>2, OthersUnseen
  <2> QED
    BY <1>0, <2>4, <2>5, <2>6, SeenStart
<1> QED
  BY <1>1, <1>2

\* A process ends by itself, in a failed run's cleanup or by the operator's stop, or it had ended.
LEMMA ProcessSeen ==
    ASSUME RunInd, NEW c \in Calls, \A d \in Calls : d # c => run'[d] = run[d],
           run[c].pc \notin {"idle", "done"} \/ run'[c].pc = run[c].pc,
           run'[c].pc \notin {"idle", "done"} \/ run'[c].pc = run[c].pc,
           run[c].proc # "none", run'[c].proc \in Procs, run'[c].proc \notin {"none", "alive"},
           run'[c].revoked = run[c].revoked, run'[c].wiped = run[c].wiped, export' = export
    PROVE  Contract!Next \/ UNCHANGED Contract!vars
<1>0. run[c].proc \in Procs
  BY CallFacts
<1>1. /\ SamePhase(c) /\ SameCleaned(c) /\ \A d \in Calls : SamePromoted(d)
  BY DEF SamePhase, SameCleaned, SamePromoted, Phase, Cleaned
<1>2. \A d \in Calls : d # c => Unseen(d)
  BY <1>1, OthersUnseen
<1>3. CASE run[c].proc = "alive"
  <2>1. Worker(run[c]) = "alive" /\ Worker(run'[c]) = "ended"
    BY <1>3 DEF Worker
  <2> QED
    BY <1>1, <1>2, <2>1, SeenEnd
<1>4. CASE run[c].proc # "alive"
  <2>1. SameWorker(c)
    BY <1>0, <1>4 DEF SameWorker, Worker
  <2> QED
    BY <1>1, <1>2, <2>1, UnseenStep DEF Unseen
<1> QED
  BY <1>3, <1>4

\* revoke_once and wipe_once of a worker that has ended, in either thread.
LEMMA OnceSeen ==
    ASSUME RunInd, NEW c \in Calls, \A d \in Calls : d # c => run'[d] = run[d],
           run[c].pc \notin {"idle", "done"} \/ run'[c].pc = run[c].pc,
           run'[c].pc \notin {"idle", "done"} \/ run'[c].pc = run[c].pc,
           run[c].proc \notin {"none", "alive"}, run'[c].proc = run[c].proc,
           run[c].revoked => run'[c].revoked, run[c].wiped => run'[c].wiped, export' = export
    PROVE  Contract!Next \/ UNCHANGED Contract!vars
<1>1. /\ SamePhase(c) /\ SameWorker(c) /\ Worker(run[c]) = "ended" /\ \A d \in Calls : SamePromoted(d)
  BY DEF SamePhase, SameWorker, SamePromoted, Phase, Worker
<1>2. \A d \in Calls : d # c => Unseen(d)
  BY <1>1, OthersUnseen
<1>3. CASE Cleaned(run'[c]) = TRUE
  BY <1>1, <1>2, <1>3, SeenClean
<1>4. CASE Cleaned(run'[c]) = FALSE
  <2>1. SameCleaned(c)
    BY <1>4 DEF SameCleaned, Cleaned
  <2> QED
    BY <1>1, <1>2, <2>1, UnseenStep DEF Unseen
<1> QED
  BY <1>3, <1>4 DEF Cleaned

LEMMA GuestExitSeen ==
    ASSUME RunInd, NEW c \in Calls, GuestExit(c)
    PROVE  Contract!Next \/ UNCHANGED Contract!vars
<1>0. run \in [Calls -> Runs] /\ run[c] \in Runs /\ run[c].proc = "alive" /\ export' = export
  BY CallFacts DEF GuestExit, Alive, store
<1>1. PICK code \in {"ok", "failed"} : run' = [run EXCEPT ![c].proc = code]
  BY DEF GuestExit
<1>2. /\ \A d \in Calls : d # c => run'[d] = run[d]
      /\ run'[c].pc = run[c].pc /\ run'[c].proc = code
      /\ run'[c].revoked = run[c].revoked /\ run'[c].wiped = run[c].wiped
  BY <1>0, <1>1 DEF Runs
<1> QED
  BY <1>0, <1>2, ProcessSeen

LEMMA FailureCleanupSeen ==
    ASSUME RunInd, NEW c \in Calls, FailureCleanup(c)
    PROVE  Contract!Next \/ UNCHANGED Contract!vars
<1>0. /\ run \in [Calls -> Runs] /\ run[c] \in Runs /\ run[c].proc \in Procs /\ run[c].pc = "cleanup" /\ CallOK(c)
      /\ export' = export
  BY CallFacts DEF FailureCleanup, store
<1>1. run[c].proc # "none"
  BY <1>0 DEF CallOK, WorkerOK, Held
<1> DEFINE q == run[c]
           proc == IF q.proc = "alive" THEN "killed" ELSE q.proc
           r == [q EXCEPT !.proc = proc, !.pc = "revoke"]
<1>2. run' = [run EXCEPT ![c] = r]
  <2> DEFINE e == [q EXCEPT !.proc = proc]
  <2>1. Terminated(c) = [run EXCEPT ![c] = e]
    BY <1>0 DEF Terminated, Alive
  <2>2. run' = [Terminated(c) EXCEPT ![c].pc = "revoke"]
    BY DEF FailureCleanup
  <2> HIDE DEF e
  <2>3. run' = [run EXCEPT ![c] = [e EXCEPT !.pc = "revoke"]]
    BY <1>0, <2>1, <2>2
  <2>4. [e EXCEPT !.pc = "revoke"] = r
    BY <1>0 DEF e, Runs
  <2> QED
    BY <2>3, <2>4
<1>3. proc \in Procs /\ proc \notin {"none", "alive"}
  BY <1>0, <1>1
<1>4. q \in Runs
  BY <1>0
<1> HIDE DEF q, proc
<1>5. r.pc = "revoke" /\ r.proc = proc /\ r.revoked = q.revoked /\ r.wiped = q.wiped
  BY <1>4 DEF Runs
<1> HIDE DEF r
<1>6. run'[c] = r /\ \A d \in Calls : d # c => run'[d] = run[d]
  BY <1>0, <1>2
<1> QED
  BY <1>0, <1>1, <1>3, <1>5, <1>6, ProcessSeen DEF q

LEMMA CloseSeen ==
    ASSUME RunInd, NEW c \in Calls, Close(c)
    PROVE  Contract!Next \/ UNCHANGED Contract!vars
<1>0. /\ run \in [Calls -> Runs] /\ run[c] \in Runs /\ run[c].proc \in Procs /\ run[c].pc = "close" /\ CallOK(c)
      /\ export' = export
  BY CallFacts DEF Close, store
<1>1. run[c].proc \notin {"none", "alive"}
  BY <1>0 DEF CallOK, WorkerOK, Held
<1> DEFINE q == run[c]
           e == Dropped(q)
           p == IF q.why = None THEN "returned" ELSE "error"
           r == [e EXCEPT !.pc = p]
<1>2. run' = [run EXCEPT ![c] = r]
  BY <1>0 DEF Close
<1>3. /\ e.proc \in Procs /\ e.proc \notin {"none", "alive"} /\ e.revoked = q.revoked /\ e.wiped = q.wiped
      /\ e \in Runs
  <2>0. 0 \in 0..2
    OBVIOUS
  <2>1. "failed" \in Whys
    BY DEF Whys
  <2>2. q \in Runs /\ q.proc \in Procs /\ q.proc \notin {"none", "alive"}
    BY <1>0, <1>1
  <2>3. CASE q.why \in {None, "audit", "hook"}
    BY <2>2, <2>3 DEF Dropped
  <2>4. CASE q.why \notin {None, "audit", "hook"}
    <3> DEFINE x == [q EXCEPT !.sent = 0, !.read = 0, !.claim = None, !.why = "failed", !.proc = "killed"]
    <3>1. e = x
      BY <2>2, <2>4 DEF Dropped
    <3> HIDE DEF q
    <3>2. x \in Runs /\ x.proc = "killed" /\ x.revoked = q.revoked /\ x.wiped = q.wiped
      BY <2>0, <2>1, <2>2 DEF Runs
    <3> QED
      BY <3>1, <3>2
  <2> QED
    BY <2>3, <2>4
<1>4. p \in {"returned", "error"}
  OBVIOUS
<1> HIDE DEF e, p
<1>5. r.pc = p /\ r.proc = e.proc /\ r.revoked = e.revoked /\ r.wiped = e.wiped
  BY <1>3 DEF Runs
<1> HIDE DEF r
<1>6. run'[c] = r /\ \A d \in Calls : d # c => run'[d] = run[d]
  BY <1>0, <1>2
<1>7. /\ run'[c].pc \notin {"idle", "done"} /\ run[c].pc \notin {"idle", "done"} /\ run'[c].proc \in Procs
      /\ run'[c].proc \notin {"none", "alive"} /\ run'[c].revoked = run[c].revoked /\ run'[c].wiped = run[c].wiped
  BY <1>0, <1>3, <1>4, <1>5, <1>6
<1> QED
  BY <1>0, <1>1, <1>6, <1>7, ProcessSeen

LEMMA CleanUpSeen ==
    ASSUME RunInd, NEW c \in Calls, CleanUp(c) \/ HookRaises(c)
    PROVE  Contract!Next \/ UNCHANGED Contract!vars
<1>0. /\ run \in [Calls -> Runs] /\ run[c] \in Runs /\ run[c].pc \in Once /\ CallOK(c) /\ export' = export
  BY CallFacts DEF CleanUp, HookRaises, Once, store
<1> DEFINE q == run[c]
           e == OnceEffect(q, q.pc)
           next == OnceNext(q, q.pc)
<1>1. q.proc \notin {"none", "alive"}
  BY <1>0 DEF CallOK, WorkerOK, Held
<1>2. e \in Runs /\ e.proc = q.proc /\ (q.revoked => e.revoked) /\ (q.wiped => e.wiped)
  <2>1. e \in Runs /\ SameGuest(e, q) /\ OnceDone(e, q, q.pc)
    BY <1>0, OnceRecord
  <2> QED
    BY <2>1 DEF SameGuest, OnceDone
<1>3. next \in Once \cup {"close"}
  BY <1>0, OnceWay
<1>4. PICK r : /\ run' = [run EXCEPT ![c] = r]
               /\ r \in {[e EXCEPT !.pc = next], [e EXCEPT !.pc = "cleanup", !.why = "hook"]}
  BY DEF CleanUp, HookRaises
<1> HIDE DEF e, next
<1>5. r.pc \in Once \cup {"close", "cleanup"} /\ r.proc = e.proc /\ r.revoked = e.revoked /\ r.wiped = e.wiped
  BY <1>2, <1>3, <1>4 DEF Runs
<1>6. run'[c] = r /\ \A d \in Calls : d # c => run'[d] = run[d]
  BY <1>0, <1>4
<1>7. /\ run'[c].pc \notin {"idle", "done"} /\ run[c].pc \notin {"idle", "done"}
  BY <1>0, <1>5, <1>6 DEF Once
<1> QED
  BY <1>0, <1>1, <1>2, <1>5, <1>6, <1>7, OnceSeen

LEMMA OperatorSeen ==
    ASSUME RunInd, Operator
    PROVE  Contract!Next \/ UNCHANGED Contract!vars
<1>0. RunTypes /\ OperatorOK /\ run \in [Calls -> Runs] /\ export' = export
  BY DEF RunInd, RunTypes, Operator, Stop, StopTerminate, StopCleanUp, StopHookRaises, store
<1>1. CASE Stop
  <2>1. \A d \in Calls : Unseen(d)
    BY <1>0, <1>1 DEF Stop, Unseen, SamePhase, SameWorker, SameCleaned, SamePromoted
  <2> QED
    BY <2>1, UnseenStep
<1>2. CASE StopTerminate
  <2> DEFINE t == op.target
             q == run[t]
             proc == IF q.proc = "alive" THEN "killed" ELSE q.proc
             r == [q EXCEPT !.proc = proc]
  <2>1. t \in Calls /\ q.proc # "none"
    BY <1>0, <1>2 DEF OperatorOK, StopTerminate
  <2>2. q \in Runs /\ q.proc \in Procs
    BY <2>1, CallFacts
  <2>3. run' = [run EXCEPT ![t] = r]
    BY <1>0, <1>2, <2>1 DEF StopTerminate, Terminated, Alive
  <2>4. proc \in Procs /\ proc \notin {"none", "alive"}
    BY <2>1, <2>2
  <2> HIDE DEF q, proc
  <2>5. r.pc = q.pc /\ r.proc = proc /\ r.revoked = q.revoked /\ r.wiped = q.wiped
    BY <2>2 DEF Runs
  <2> HIDE DEF r, t
  <2>6. run'[t] = r /\ \A d \in Calls : d # t => run'[d] = run[d]
    BY <1>0, <2>1, <2>3
  <2> QED
    BY <1>0, <2>1, <2>4, <2>5, <2>6, ProcessSeen DEF q
<1>3. CASE StopCleanUp \/ StopHookRaises
  <2> DEFINE t == op.target
             q == run[t]
             r == OnceEffect(q, op.pc)
  <2>1. op.pc \in Once
    BY <1>3 DEF StopCleanUp, StopHookRaises, Once
  <2>2. t \in Calls /\ q.proc \notin {"none", "alive"}
    BY <1>0, <2>1 DEF OperatorOK
  <2>3. q \in Runs
    BY <1>0, <2>2
  <2>4. run' = [run EXCEPT ![t] = r]
    BY <1>0, <1>3, <2>2 DEF StopCleanUp, StopHookRaises
  <2>5. r.pc = q.pc /\ r.proc = q.proc /\ (q.revoked => r.revoked) /\ (q.wiped => r.wiped)
    <3>1. r.pc = q.pc /\ SameGuest(r, q) /\ OnceDone(r, q, op.pc)
      BY <2>1, <2>3, OnceRecord
    <3> QED
      BY <3>1 DEF SameGuest, OnceDone
  <2> HIDE DEF q, r, t
  <2>6. run'[t] = r /\ \A d \in Calls : d # t => run'[d] = run[d]
    BY <1>0, <2>2, <2>4
  <2> QED
    BY <1>0, <2>2, <2>5, <2>6, OnceSeen DEF q
<1> QED
  BY <1>1, <1>2, <1>3 DEF Operator

\* Output is promoted only by a call whose worker is taken care of.
LEMMA ExportSeen ==
    ASSUME StoreTypeOK, RunInd, NEW c \in Calls, StartExport(c) \/ Export(c)
    PROVE  Contract!Next \/ UNCHANGED Contract!vars
<1>0. export \in [Calls -> Exports] /\ export[c] \in Exports
  BY DEF StoreTypeOK
<1>1. CASE StartExport(c)
  <2>1. run[c].id \in RunIds /\ run[c].pc = "returned"
    BY <1>1, CallFacts DEF StartExport, OwnerOK
  <2>2. \A d \in Calls : d # c => export'[d] = export[d]
    BY <1>1, <2>1, ExportAlone DEF StartExport
  <2>3. export[c].at # "exported" /\ export'[c].at # "exported"
    BY <1>0, <1>1 DEF StartExport, ExportTree, Reject, NoExport, Exports
  <2>4. \A d \in Calls : SamePromoted(d)
    BY <2>2, <2>3 DEF SamePromoted
  <2>5. Goto(c, "exporting") /\ "exporting" \in Places \ {"idle", "done"}
    BY <1>1 DEF StartExport, Places
  <2> QED
    BY <2>1, <2>4, <2>5, MovesOn
<1>2. CASE Export(c)
  <2>1. \A d \in Calls : d # c => export'[d] = export[d]
    BY <1>2, ExportAlone DEF Export
  <2>2. export[c].at # "exported"
    BY <1>2 DEF Export, ExportStep, NextFile, OpenFile, CopyRegular, Scan, Commit, WriteManifest
  <2>3. run' = run /\ run[c].pc = "exporting"
    BY <1>2 DEF Export
  <2>4. \A d \in Calls : SamePhase(d) /\ SameWorker(d) /\ SameCleaned(d)
    BY <2>3 DEF SamePhase, SameWorker, SameCleaned
  <2>5. \A d \in Calls : d # c => Unseen(d)
    BY <2>1, <2>4 DEF Unseen, SamePromoted
  <2>6. CASE export'[c].at = "exported"
    <3>1. Worker(run[c]) = "none" \/ (Worker(run[c]) = "ended" /\ Cleaned(run[c]))
      BY <2>3, WorkerPlace DEF Over
    <3>2. Phase(run[c]) = "open"
      BY <2>3 DEF Phase
    <3> QED
      BY <2>4, <2>5, <2>6, <3>1, <3>2, SeenPromote
  <2>7. CASE export'[c].at # "exported"
    <3>1. SamePromoted(c)
      BY <2>2, <2>7 DEF SamePromoted
    <3> QED
      BY <2>4, <2>5, <3>1, UnseenStep DEF Unseen
  <2> QED
    BY <2>6, <2>7
<1> QED
  BY <1>1, <1>2

LEMMA StoreStepSeen ==
    ASSUME StoreTypeOK, StoreStep
    PROVE  UNCHANGED Contract!vars
<1>0. export \in [Calls -> Exports] /\ run' = run
  BY DEF StoreTypeOK, StoreStep
<1>1. ASSUME NEW d \in Calls PROVE export'[d].at = export[d].at
  <2>1. CASE export' = export
    BY <2>1
  <2>2. CASE \E c \in Calls : ConcurrentWrite(c)
    BY <1>0, <2>2, WriteKeepsPlace
  <2> QED
    BY <2>1, <2>2
       DEF StoreStep, Materialize, Deliver, NextObject, VerifyObject, HashSource, CopyExact, Corrupt
<1>2. \A d \in Calls : Unseen(d)
  BY <1>0, <1>1 DEF Unseen, SamePhase, SameWorker, SameCleaned, SamePromoted
<1> QED
  BY <1>2, UnseenStep

LEMMA ContractStep ==
    ASSUME GovernedInv, [Next]_vars
    PROVE  [Contract!Next]_(Contract!vars)
<1>0. StoreTypeOK /\ RunInd
  BY DEF GovernedInv, StoreInd
<1>1. ASSUME NEW c \in Calls, Call(c) \/ GuestSend(c) \/ GuestExit(c)
      PROVE  Contract!Next \/ UNCHANGED Contract!vars
  <2>1. CASE Execute(c)
    BY <1>0, <2>1, QuietSeen, LaunchSeen, FailureCleanupSeen, CleanUpSeen, CloseSeen DEF Execute
  <2>2. CASE Run(c)
    BY <1>0, <2>2, RunSeen
  <2>3. CASE RejectRequest(c) \/ End(c) \/ Error(c) \/ LastEventFails(c)
    BY <1>0, <2>3, EndSeen
  <2>4. CASE Prepare(c) \/ OtherBackend(c) \/ ExportFails(c) \/ GuestSend(c)
    BY <1>0, <2>4, QuietSeen
  <2>5. CASE StartExport(c) \/ Export(c)
    BY <1>0, <2>5, ExportSeen
  <2>6. CASE GuestExit(c)
    BY <1>0, <2>6, GuestExitSeen
  <2> QED
    BY <1>1, <2>1, <2>2, <2>3, <2>4, <2>5, <2>6 DEF Call
<1>2. CASE Operator
  BY <1>0, <1>2, OperatorSeen
<1>3. CASE StoreStep
  BY <1>0, <1>3, StoreStepSeen
<1>4. CASE UNCHANGED vars
  <2>1. \A d \in Calls : Unseen(d)
    BY <1>4 DEF vars, store, Unseen, SamePhase, SameWorker, SameCleaned, SamePromoted
  <2> QED
    BY <2>1, UnseenStep
<1> QED
  BY <1>1, <1>2, <1>3, <1>4 DEF Next

LEMMA ContractInit == Init => Contract!Init
<1> SUFFICES ASSUME Init PROVE Contract!Init
  OBVIOUS
<1>1. ASSUME NEW c \in Calls
      PROVE  Phase(run[c]) = "idle" /\ Worker(run[c]) = "none" /\ Cleaned(run[c]) = FALSE
             /\ (export[c].at = "exported") = FALSE
  <2>1. run[c] = IdleRun /\ export[c].at = "idle"
    BY DEF Init, StoreInit, NoExport
  <2> QED
    BY <2>1 DEF IdleRun, Phase, Worker, Cleaned
<1> QED
  BY <1>1 DEF Contract!Init

-----------------------------------------------------------------------------
(***************************************************************************)
(* The theorems.                                                           *)
(***************************************************************************)
\* What the artifact store holds and hands out is scanned, complete and as promised, for any
\* number of exports, concurrent writers and damaged objects (artifacts.py).
THEOREM StorePromises == Spec => []StoreInv
<1>1. GovernedInv => StoreInv
  BY DEF GovernedInv, StoreInd
<1> QED
  BY <1>1, GovernedInvariant, PTL

\* A log that the invariant allows has at most three entries.
LEMMA LogIsShort ==
    ASSUME RunInd, NEW c \in Calls
    PROVE  Len(audit[c]) <= 3
<1>1. run[c].pc \in Places /\ AuditOK(c)
  BY CallFacts DEF CallOK, Runs
<1>2. audit[c] \in {<<>>, <<"start">>, <<"start", "receipt">>, <<"start", "error">>, <<"start", "end">>,
                   <<"start", "receipt", "error">>, <<"start", "receipt", "end">>}
  BY <1>1 DEF AuditOK, Places, Once
<1>3. /\ Len(<<>>) = 0 /\ Len(<<"start">>) = 1 /\ Len(<<"start", "receipt">>) = 2 /\ Len(<<"start", "error">>) = 2
      /\ Len(<<"start", "end">>) = 2 /\ Len(<<"start", "receipt", "error">>) = 3
      /\ Len(<<"start", "receipt", "end">>) = 3
  OBVIOUS
<1>4. Len(audit[c]) \in {0, 1, 2, 3}
  BY <1>2, <1>3
<1> DEFINE n == Len(audit[c])
<1>5. n \in 0..3
  BY <1>4
<1> HIDE DEF n
<1>6. n <= 3
  BY <1>5
<1> QED
  BY <1>6 DEF n

\* The receipt a Runner shows is of its latest run, of a guest that ended as its verified result
\* said (Runner.run, emit_host_event).
THEOREM ReceiptsAreVerified == Spec => []ReceiptInv
<1>1. GovernedInv => ReceiptInv
  <2> SUFFICES ASSUME GovernedInv PROVE ReceiptInv
    OBVIOUS
  <2>0. StoreTypeOK /\ RunInd /\ RunTypes
    BY DEF GovernedInv, StoreInd, RunInd
  <2>1. active # None => Launched(active) /\ run[active].pc # "done"
    <3>1. SUFFICES ASSUME active # None PROVE Launched(active) /\ run[active].pc # "done"
      OBVIOUS
    <3>2. active \in Calls
      BY <2>0, <3>1 DEF RunTypes
    <3>3. WorkerOK(active)
      BY <2>0, <3>2, CallFacts DEF CallOK
    <3> QED
      BY <3>3 DEF WorkerOK, Launched, Held, Once
  <2>2. \A c \in Calls : run[c].read <= run[c].sent /\ Len(audit[c]) <= 3
    BY <2>0, LogIsShort DEF RunTypes
  <2>3. TypeOK
    BY <2>0, <2>1, <2>2 DEF TypeOK, RunTypes
  <2>4. LastReceiptIsVerified
    BY <2>0 DEF LastReceiptIsVerified, RunInd, ReceiptOK, Shown
  <2> QED
    BY <2>3, <2>4 DEF ReceiptInv
<1> QED
  BY <1>1, GovernedInvariant, PTL

\* The audit log tells how a run ended, whatever failed on the way (_execute_run).
THEOREM LogTellsOutcome == Spec => []AuditTellsOutcome
<1>1. GovernedInv => AuditTellsOutcome
  <2> SUFFICES ASSUME GovernedInv, NEW c \in Calls, run[c].pc = "done", run[c].outcome # "busy"
               PROVE  IF run[c].outcome = "result"
                      THEN /\ audit[c][Len(audit[c])] = "end"
                           /\ run[c].backend = "native" => audit[c] = <<"start", "receipt", "end">>
                      ELSE "end" \notin {audit[c][i] : i \in DOMAIN audit[c]}
    BY DEF AuditTellsOutcome
  <2>1. AuditOK(c)
    BY CallFacts DEF GovernedInv, CallOK
  <2>2. CASE run[c].outcome = "result"
    <3>1. audit[c] = IF run[c].backend = "native" THEN <<"start", "receipt", "end">> ELSE <<"start", "end">>
      BY <2>1, <2>2 DEF AuditOK
    <3>2. audit[c][Len(audit[c])] = "end"
      BY <3>1
    <3> QED
      BY <2>2, <3>1, <3>2
  <2>3. CASE run[c].outcome # "result"
    <3>1. audit[c] \in {<<>>, <<"start">>, <<"start", "error">>, <<"start", "receipt">>,
                       <<"start", "receipt", "error">>}
      BY <2>1, <2>3 DEF AuditOK
    <3>2. \A i \in DOMAIN audit[c] : audit[c][i] # "end"
      BY <3>1
    <3> QED
      BY <2>3, <3>2
  <2> QED
    BY <2>2, <2>3
<1> QED
  BY <1>1, GovernedInvariant, PTL

\* A run that is over, and that no stop is busy with, has had both hooks called (execute, stop).
THEOREM HooksAreCalled == Spec => []CleanedWhenQuiet
<1>1. GovernedInv => CleanedWhenQuiet
  <2> SUFFICES ASSUME GovernedInv, NEW c \in Calls, Launched(c),
                      run[c].pc \in {"returned", "error", "exporting", "done"}, op.target # c
               PROVE  run[c].revokeCalled /\ run[c].wipeCalled
    BY DEF CleanedWhenQuiet
  <2>1. WorkerOK(c) /\ HooksOK(c)
    BY CallFacts DEF GovernedInv, CallOK
  <2>2. run[c].revoked /\ run[c].wiped
    BY <2>1 DEF WorkerOK, Launched, Over
  <2> QED
    BY <2>1, <2>2 DEF HooksOK
<1> QED
  BY <1>1, GovernedInvariant, PTL

\* The Runners over the native adapter and the store implement RunContract: one worker at a time,
\* cleaned up once it has ended, its output promoted and its call closed only after that.
THEOREM RunsImplementContract == Spec => ImplementsContract
<1>1. Init => Contract!Init
  BY ContractInit
<1>2. GovernedInv /\ [Next]_vars => [Contract!Next]_(Contract!vars)
  BY ContractStep
<1> QED
  BY <1>1, <1>2, GovernedInvariant, PTL DEF Spec, ImplementsContract, Contract!Spec

=============================================================================
