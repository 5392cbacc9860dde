---------------------------- MODULE ArtifactStore ----------------------------
(***************************************************************************)
(* The host's artifact store (artifacts.py): export_tree copies each file  *)
(* of a run's exchange directory into quarantine, has it scanned, hashes   *)
(* it again and moves it into the content-addressed objects; the manifest  *)
(* is written last.  materialize brings a manifest's files to a consumer:  *)
(* each object is hashed against its digest, hashed again when its copy    *)
(* begins, and the copy is compared with that second hash.                 *)
(*                                                                         *)
(* A content stands for its own digest: "dirty" is what the scanner        *)
(* refuses, "torn" what a copy may hold when its source was written while  *)
(* it was read, "damaged" what the disk makes of an object.  Stores are    *)
(* shared by runs; processes other than the exporting one may write to an  *)
(* exchange.                                                               *)
(***************************************************************************)
EXTENDS Naturals, FiniteSets

CONSTANTS
    Calls,     \* the calls that export, one tree each
    RunIds,
    Files,     \* names in a tree, as numbers: the walk is sorted
    Trees,     \* the trees workflows leave
    None,
    MaxFiles,  \* max_files
    MaxFaults  \* bound on failures of the host and on writes to an exchange under export

Data == {"clean", "dirty", "link"}
Bytes == {"clean", "dirty", "torn", "damaged"}

ASSUME StoreAssumption ==
    /\ Files \subseteq Nat \ {0} /\ IsFiniteSet(Files) /\ MaxFiles \in Nat
    /\ Trees \subseteq [Files -> Data \cup {None}] /\ MaxFaults \in Nat
    /\ None \notin Calls \cup RunIds \cup Data \cup Bytes

VARIABLES
    export,     \* the progress of each call's export_tree, and the tree it exports
    quarantine, \* run ids that have a quarantine directory
    objects,    \* the object stored under a digest
    manifests,  \* the manifest of a run id: its <<file, digest>> entries
    delivered,  \* the consumer's destination directory
    delivery,   \* the progress of its materialize
    spoilt,     \* history: files whose object was damaged between its two hashes
    faults

consumer == <<delivered, delivery, spoilt>>

store == <<export, quarantine, objects, manifests, consumer>>

NoExport == [at |-> "idle", id |-> None, file |-> 0, moved |-> FALSE, copy |-> None,
             kept |-> None, entries |-> {}, tree |-> [f \in Files |-> None]]

NoDelivery == [at |-> "idle", id |-> None, file |-> 0, digest |-> None, sum |-> None]

StoreInit ==
    /\ export = [c \in Calls |-> NoExport]
    /\ quarantine = {}
    /\ objects = [d \in Bytes |-> None]
    /\ manifests = [i \in RunIds |-> None]
    /\ delivered = [f \in Files |-> None]
    /\ delivery = NoDelivery
    /\ spoilt = {}
    /\ faults = 0

Fault == faults < MaxFaults /\ faults' = faults + 1

At(c, at) == export' = [export EXCEPT ![c].at = at]

\* EgressRejected: what was committed stays, the quarantine directory too.
Reject(c) == export' = [export EXCEPT ![c] = [NoExport EXCEPT !.at = "rejected"]]

\* The quarantine directory must be new.  The tree is what the workflow left.
ExportTree(c, id) ==
    /\ export[c].at = "idle"
    /\ IF id \in quarantine
       THEN /\ Reject(c)
            /\ UNCHANGED quarantine
       ELSE /\ quarantine' = quarantine \cup {id}
            /\ \E tree \in Trees :
                 export' = [export EXCEPT ![c].at = "walk", ![c].id = id, ![c].tree = tree]
    /\ UNCHANGED <<objects, manifests, consumer>>

Remaining(c) == {f \in Files : f > export[c].file /\ export[c].tree[f] # None}

\* The next file of the sorted walk: its kind, the file limit and its lstat
NextFile(c) ==
    /\ export[c].at = "walk"
    /\ \E f \in Remaining(c) :
         /\ \A g \in Remaining(c) : f <= g
         /\ IF export[c].tree[f] = "link" \/ Cardinality(export[c].entries) >= MaxFiles
            THEN Reject(c)
            ELSE export' = [export EXCEPT ![c].at = "open", ![c].file = f]
    /\ UNCHANGED <<quarantine, objects, manifests, consumer>>

\* The file is a regular one, with the fingerprint of the first lstat.
SameFile(c) == export[c].tree[export[c].file] # "link" /\ ~export[c].moved

\* open without following links, and fstat; then the bytes are read.
OpenFile(c) ==
    /\ export[c].at = "open"
    /\ IF SameFile(c)
       THEN export' = [export EXCEPT ![c].at = "copy",
                                     ![c].copy = export[c].tree[export[c].file]]
       ELSE Reject(c)
    /\ UNCHANGED <<quarantine, objects, manifests, consumer>>

\* The copy ends and the source is inspected again.
CopyRegular(c) ==
    /\ export[c].at = "copy"
    /\ IF SameFile(c) THEN At(c, "scan") ELSE Reject(c)
    /\ UNCHANGED <<quarantine, objects, manifests, consumer>>

\* The scanner refuses what is not clean, and may leave other bytes behind.
Scan(c) ==
    /\ export[c].at = "scan"
    /\ \/ Reject(c)
       \/ /\ export[c].copy # "dirty"
          /\ \E bytes \in {export[c].copy, "dirty"} :
               export' = [export EXCEPT ![c].at = "commit", ![c].kept = bytes]
    /\ UNCHANGED <<quarantine, objects, manifests, consumer>>

Exported(c, bytes) ==
    export' = [export EXCEPT ![c].at = "walk", ![c].copy = None, ![c].kept = None, ![c].moved = FALSE,
                             ![c].entries = @ \cup {<<export[c].file, bytes>>}]

\* Mutant: what the scanner leaves is not hashed again
CommitWithoutRehash(c) ==
    LET bytes == export[c].copy
    IN  /\ export[c].at = "commit"
        /\ Exported(c, bytes)
        /\ objects' = [objects EXCEPT ![bytes] = IF @ = None THEN export[c].kept ELSE @]
        /\ UNCHANGED <<quarantine, manifests, consumer>>

\* Rehash, then move into place, or drop a duplicate of an intact object
Commit(c) ==
    LET bytes == export[c].copy
    IN  /\ export[c].at = "commit"
        /\ IF export[c].kept = bytes /\ objects[bytes] \in {None, bytes}
           THEN Exported(c, bytes) /\ objects' = [objects EXCEPT ![bytes] = bytes]
           ELSE Reject(c) /\ UNCHANGED objects
        /\ UNCHANGED <<quarantine, manifests, consumer>>

\* All files are in: the manifest replaces nothing and appears whole.
WriteManifest(c) ==
    /\ export[c].at = "walk" /\ Remaining(c) = {}
    /\ IF manifests[export[c].id] # None
       THEN Reject(c) /\ UNCHANGED manifests
       ELSE /\ export' = [export EXCEPT ![c] = [NoExport EXCEPT !.at = "exported"]]
            /\ manifests' = [manifests EXCEPT ![export[c].id] = export[c].entries]
    /\ UNCHANGED <<quarantine, objects, consumer>>

\* The entries of a manifest, and so of a receipt, after a file
Undelivered(id, f) == {e \in manifests[id] : e[1] > f}

\* The next file's object exists and hashes to its digest, and the file's place is free.
VerifyObject(id, f) ==
    /\ \E e \in Undelivered(id, f) :
         /\ \A g \in Undelivered(id, f) : e[1] <= g[1]
         /\ delivery' = IF objects[e[2]] = e[2] /\ delivered[e[1]] = None
                        THEN [at |-> "hash", id |-> id, file |-> e[1], digest |-> e[2], sum |-> None]
                        ELSE NoDelivery
    /\ UNCHANGED <<export, quarantine, objects, manifests, delivered, spoilt, faults>>

Materialize(id) == delivery.at = "idle" /\ manifests[id] # None /\ VerifyObject(id, 0)

NextObject == delivery.at = "next" /\ VerifyObject(delivery.id, delivery.file)

\* _copy_exact: the object is hashed again; the digest it should have is not known here.
HashSource ==
    /\ delivery.at = "hash"
    /\ delivery' = [delivery EXCEPT !.at = "copy", !.sum = objects[delivery.digest]]
    /\ UNCHANGED <<export, quarantine, objects, manifests, delivered, spoilt, faults>>

\* The copy is hashed, compared with that and moved into place, or dropped.
CopyExact ==
    /\ delivery.at = "copy"
    /\ IF objects[delivery.digest] = delivery.sum
       THEN /\ delivered' = [delivered EXCEPT ![delivery.file] = delivery.sum]
            /\ delivery' = IF Undelivered(delivery.id, delivery.file) = {} THEN NoDelivery
                           ELSE [delivery EXCEPT !.at = "next", !.digest = None, !.sum = None]
       ELSE delivery' = NoDelivery /\ UNCHANGED delivered
    /\ UNCHANGED <<export, quarantine, objects, manifests, spoilt, faults>>

Deliver == NextObject \/ HashSource \/ CopyExact

\* Some process writes to the file that is being exported, or puts a link in its place;
\* what is written before the file's first lstat is another tree.  A write that keeps
\* the size, within the clock's grain or with the time set back, leaves the fingerprint
\* as it is.  A copy under way gets the old bytes, the new ones or a mixture.
ConcurrentWrite(c) ==
    /\ export[c].at \in {"open", "copy"} /\ Fault
    /\ \E d \in {"dirty", "link"}, moved \in BOOLEAN, b \in Bytes \cup {None} :
         /\ d = "link" => moved
         /\ b = export[c].copy \/ (export[c].at = "copy" /\ b \in {d, "torn"})
         /\ export' = [export EXCEPT ![c].tree[export[c].file] = d, ![c].moved = @ \/ moved,
                                     ![c].copy = b]
    /\ UNCHANGED <<quarantine, objects, manifests, consumer>>

\* The disk loses an object's bytes.
Corrupt(d) ==
    /\ Fault /\ objects[d] = d
    /\ objects' = [objects EXCEPT ![d] = "damaged"]
    /\ spoilt' = IF delivery.at = "hash" /\ delivery.digest = d THEN spoilt \cup {delivery.file}
                                                               ELSE spoilt
    /\ UNCHANGED <<export, quarantine, manifests, delivered, delivery>>

ExportStep(c) ==
    NextFile(c) \/ OpenFile(c) \/ CopyRegular(c) \/ Scan(c) \/ Commit(c) \/ WriteManifest(c)

(***************************************************************************)
(* Properties.                                                             *)
(***************************************************************************)
Exports ==
    [at : {"idle", "walk", "open", "copy", "scan", "commit", "exported", "rejected"},
     id : RunIds \cup {None}, file : Files \cup {0}, moved : BOOLEAN,
     copy : Bytes \cup {None}, kept : Bytes \cup {None}, entries : SUBSET (Files \X Bytes),
     tree : [Files -> Data \cup {None}]]

Deliveries ==
    [at : {"idle", "next", "hash", "copy"}, id : RunIds \cup {None}, file : Files \cup {0},
     digest : Bytes \cup {None}, sum : Bytes \cup {None}]

\* Exports, objects, manifests and deliveries stay in their sets.
StoreTypeOK ==
    /\ export \in [Calls -> Exports]
    /\ quarantine \subseteq RunIds
    /\ objects \in [Bytes -> Bytes \cup {None}]
    /\ manifests \in [RunIds -> (SUBSET (Files \X Bytes)) \cup {None}]
    /\ delivered \in [Files -> Bytes \cup {None}]
    /\ delivery \in Deliveries
    /\ spoilt \subseteq Files
    /\ faults \in 0..MaxFaults

\* Only what the scanner accepted becomes an object, and under its own digest, whatever
\* the scanner itself or a concurrent writer does to the files meanwhile; later damage
\* does not change what an object's digest stands for (_export_one).
OnlyScannedPromoted ==
    \A d \in Bytes : objects[d] # None => d # "dirty" /\ objects[d] \in {d, "damaged"}

\* Every entry of a manifest has an object: a manifest is never visible before
\* the last of its files is in the store (export_tree).
ManifestBacked ==
    \A i \in RunIds : manifests[i] # None => \A e \in manifests[i] : objects[e[2]] # None

\* A consumer gets the bytes that a manifest promises, although objects may be damaged
\* before, between or while they are delivered: the one exception is damage after
\* materialize's check of an object and before _copy_exact's own hash of it.
DeliveredAsPromised ==
    \A f \in Files : delivered[f] # None =>
        \/ f \in spoilt
        \/ \E i \in RunIds : manifests[i] # None /\ <<f, delivered[f]>> \in manifests[i]

\* What the store holds and hands out, from the scan of a file to its delivery:
\* no unscanned object, no manifest without its objects, no delivery that its
\* manifest does not name, except for damage between the two hashes of a delivery.
StoreInv == OnlyScannedPromoted /\ ManifestBacked /\ DeliveredAsPromised

=============================================================================
