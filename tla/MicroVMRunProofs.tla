-------------------------- MODULE MicroVMRunProofs --------------------------
(***************************************************************************)
(* What a microVM run owes when it ends, for any number of runs, operators *)
(* and failures: the host's callbacks are called at most once, the receipt *)
(* comes after the worker's exit (CallbackInv), and a failure on the way   *)
(* still leads to the revocation, the kill and the wipe                    *)
(* (FailuresStillCleanUp).                                                 *)
(*                                                                         *)
(* A thread is a list of operations, so the argument is about lists: what  *)
(* may stand before an operation (InOrder), and which operations stand     *)
(* behind a catch (Caught).  Both are kept by the four ways a list changes *)
(* (an operation is done, puts others in front, raises, or the list is     *)
(* assigned), which the first half of this module shows for any list; the  *)
(* second half goes through the actions.                                   *)
(***************************************************************************)
EXTENDS MicroVMRun, SequenceTheorems, WellFoundedInduction, TLAPS

-----------------------------------------------------------------------------
Has(p, op) == \E i \in 1 .. Len(p) : p[i] = op

\* Every b in the list comes after an a.
Precedes(p, a, b) == \A j \in 1 .. Len(p) : p[j] = b => \E i \in 1 .. j - 1 : p[i] = a

\* Operations of the lifecycle, and of the body of HostController.run
Inserted ==
    {"trip", "closed", "revoke", "kill", "wipe", "crevoke", "cwipe", "xrevoke", "xwipe"}
Working == Inserted \cup
    {"prepare", "register", "launch", "start", "open", "activate", "emit", "boot",
     "send", "loop", "enter", "wait", "agree", "receipt", "raise"}
Handling == Working \cup {"catch", "failure", "bclose"}

\* What a list may hold before an operation
MayPrecede(op) ==
    CASE op \in {"revoke", "xrevoke", "xwipe"} -> {}
      [] op = "kill" -> {"revoke", "crevoke", "xrevoke"}
      [] op = "wipe" -> {"revoke", "crevoke", "xrevoke", "kill"}
      [] op = "trip" -> {"emit", "catch"}
      [] op = "raise" -> Inserted
      [] op \in {"crevoke", "cwipe"} -> Inserted \cup {"catch"}
      [] op = "closed" -> Inserted \cup {"emit", "catch"}
      [] op \in {"prepare", "register", "launch"} -> {"prepare", "register"}
      [] op = "wait" -> Working \ {"wait", "receipt"}
      [] op \in {"start", "open", "activate", "boot", "send", "loop", "enter",
                 "agree", "receipt"} -> Working
      [] op = "emit" -> Working \cup {"catch"}
      [] op = "bclose" -> Working \cup {"catch", "failure"}
      [] op = "fallback" -> Handling
      [] op = "settle" -> Handling \cup {"fallback", "deactivate"}
      [] op = "leftover" -> Handling \cup {"fallback", "deactivate", "settle"}
      [] OTHER -> Handling \cup
           {"fallback", "deactivate", "settle", "leftover", "noctrl", "nostate"}

InOrder(p) ==
    \A j \in 1 .. Len(p) : \A i \in 1 .. Len(p) : i < j => p[i] \in MayPrecede(p[j])

\* An exception at i is caught before j.
CaughtBetween(p, i, j) == \E k \in 1 .. Len(p) : i <= k /\ k < j /\ p[k] = "catch"

\* An operation that needs b has one behind it.
Followed(p, a, b) ==
    \A j \in 1 .. Len(p) : p[j] = a => \E k \in 1 .. Len(p) : j < k /\ p[k] = b

\* The fallback and the claims that a failed run still has to make stand behind
\* a catch, and so does a trip that is not next.
CaughtLeftover(p) ==
    \A j \in 1 .. Len(p) : p[j] = "leftover" =>
        \A i \in 1 .. Len(p) : i < j => CaughtBetween(p, i, j)
CaughtFallback(p) ==
    \A j \in 1 .. Len(p) : p[j] = "fallback" =>
        \A i \in 1 .. Len(p) : i < j =>
            p[i] \in {"failure", "bclose"} \/ CaughtBetween(p, i, j)
CaughtTrip(p) ==
    \A j \in 1 .. Len(p) : p[j] = "trip" /\ j > 1 => p[j - 1] = "catch"

\* The broker is closed right after the handler; behind a catch, only a trip
\* closes the lifecycle.
CloseAfterHandler(p) ==
    \A j \in 1 .. Len(p) : p[j] = "bclose" =>
        \A i \in 1 .. Len(p) : i < j /\ p[i] = "failure" => j = i + 1
TripsBeforeClosed(p) ==
    \A j \in 1 .. Len(p) : p[j] = "closed" =>
        \A i \in 1 .. Len(p) : i < j /\ p[i] = "catch" =>
            \E k \in 1 .. Len(p) : i < k /\ k < j /\ p[k] = "trip"

Caught(p) ==
    /\ CaughtLeftover(p) /\ CaughtFallback(p) /\ CaughtTrip(p)
    /\ CloseAfterHandler(p) /\ TripsBeforeClosed(p)
    /\ Followed(p, "settle", "leftover")
    /\ Followed(p, "launch", "settle") /\ Followed(p, "launch", "fallback")
    /\ Followed(p, "prepare", "launch")

\* The threads' lists
ListInv ==
    /\ \A t \in Threads : InOrder(todo[t])
    /\ \A r \in Runs : Caught(todo[r]) /\ (todo[r] # <<>> => phase[r] = "inside")
    /\ \A o \in Operators : todo[o] # <<>> =>
         /\ subject[o] \in Runs /\ stopped[subject[o]]
         /\ ~Has(todo[o], "catch")
    /\ \A o, u \in Operators :
         todo[o] # <<>> /\ todo[u] # <<>> /\ subject[o] = subject[u] => o = u

\* Nothing happens to a run before its process is created.
FreshInv ==
    \A r \in Runs : phase[r] = "new" \/ Has(todo[r], "launch") =>
        /\ vm[r] = "none" /\ ~live[r] /\ ~stopped[r] /\ ~tripped[r] /\ ~closed[r]
        /\ ~failed[r] /\ ~receipt[r]

\* A run that has lost its chance of a process neither kills nor trips.
UnbornInv ==
    \A r \in Runs : vm[r] = "none" /\ phase[r] # "new" /\ ~Has(todo[r], "launch") =>
        /\ ~live[r] /\ ~stopped[r]
        /\ \A op \in {"start", "open", "activate", "loop", "wait", "failure", "fallback",
                      "trip", "kill"} : ~Has(todo[r], op)

\* A callback that was claimed was called, or one thread is about to call it.
OnceInv ==
    \A r \in Runs : \A x \in Callbacks :
        /\ calls[r][x] \in {0, 1}
        /\ x \notin claimed[r] => calls[r][x] = 0
        /\ x \in claimed[r] =>
             calls[r][x] = 1 \/ \E t \in Threads : Run(t) = r /\ At(t, External[x])
        /\ \A t \in Threads : Run(t) = r /\ At(t, External[x]) =>
             /\ x \in claimed[r] /\ calls[r][x] = 0
             /\ \A u \in Threads : Run(u) = r /\ At(u, External[x]) => t = u
        /\ x \in began[r] =>
             x \in claimed[r] \/ \E t \in Threads : Run(t) = r /\ At(t, Cleanup[x])

\* A run that nothing has interrupted
Smooth(r) == phase[r] # "new" /\ ~failed[r] /\ ~Has(todo[r], "raise")

\* Until a smooth run has seen its worker exit, only a stop trips or closes the
\* lifecycle, and closes it last; from then on the callbacks are begun or next.
BeforeExit(r) ==
    /\ ~Has(todo[r], "trip") /\ ~Has(todo[r], "closed")
    /\ tripped[r] => stopped[r]
    /\ closed[r] => began[r] = Callbacks
    /\ \A o \in Operators : subject[o] = r =>
         /\ Has(todo[o], "trip") => ~tripped[r]
         /\ \/ Precedes(todo[o], "trip", "closed")
            \/ \A x \in Callbacks : x \in began[r] \/ Precedes(todo[o], x, "closed")

AfterExit(r) ==
    vm[r] = "exited" /\ \A x \in Callbacks : x \in began[r] \/ Has(todo[r], x)

SmoothInv ==
    \A r \in Runs :
        /\ Has(todo[r], "receipt") => ~failed[r]
        /\ Smooth(r) /\ Has(todo[r], "wait") => BeforeExit(r)
        /\ Smooth(r) /\ ~Has(todo[r], "wait") => AfterExit(r)

\* The revocation is claimed, or still to be claimed behind every catch.
ClaimInv ==
    \A r \in Runs : phase[r] # "new" /\ vm[r] # "none" =>
        \/ "revoke" \in claimed[r]
        \/ At(r, "crevoke")
        \/ /\ Has(todo[r], "leftover")
           /\ failed[r] \/ Has(todo[r], "settle") \/ Has(todo[r], "crevoke")

Ended(r) == vm[r] = "exited" /\ "wipe" \in began[r]

\* Some thread of the run still has the operation to do.
Pending(r, op) == \E t \in Threads : Run(t) = r /\ Has(todo[t], op)

\* A trip runs to its end, unless the revocation or the kill raises.
TripEnds(r) ==
    tripped[r] /\ ~Raised({"kill", "xrevoke"}) =>
        /\ vm[r] = "exited" \/ Pending(r, "kill")
        /\ "wipe" \in began[r] \/ Pending(r, "wipe")

\* The lifecycle is closed by a trip, or after the worker has ended.
ClosedLast(r) ==
    /\ closed[r] => tripped[r] \/ Ended(r)
    /\ \A t \in Threads : Run(t) = r =>
         \/ tripped[r]
         \/ Precedes(todo[t], "trip", "closed")
         \/ vm[r] = "exited" /\ ("wipe" \in began[r] \/ Precedes(todo[t], "wipe", "closed"))

\* A stop trips the supervisor, unless the event sink raises.
StopTrips(r) == stopped[r] /\ ~Raised({"emit"}) => tripped[r] \/ Pending(r, "trip")

\* A run that closes its broker has succeeded or been stopped.
CloseHandled(r) ==
    \/ Precedes(todo[r], "failure", "bclose") \/ stopped[r]
    \/ At(r, "bclose") /\ ~failed[r]

TripInv ==
    \A r \in Runs : TripEnds(r) /\ ClosedLast(r) /\ StopTrips(r) /\ CloseHandled(r)

\* A run whose process could not be configured kills and wipes without a lifecycle.
Direct(r) ==
    /\ vm[r] = "exited" \/ Has(todo[r], "kill")
    /\ "wipe" \in claimed[r] \/ Has(todo[r], "cwipe")

\* With one failure at most, every run is tripped, ends by itself or cleans up directly.
CoverInv ==
    Len(faults) <= 1 /\ ~Raised({"kill", "xrevoke"}) =>
        \A r \in Runs : phase[r] # "new" /\ vm[r] # "none" =>
            \/ tripped[r] \/ Ended(r) \/ Direct(r)
            \/ Has(todo[r], "trip") \/ Has(todo[r], "fallback")
            \/ stopped[r] /\ Raised({"bclose"})

IInv ==
    /\ TypeOK /\ ReceiptAfterExit /\ ListInv /\ FreshInv /\ UnbornInv
    /\ OnceInv /\ SmoothInv /\ ClaimInv /\ TripInv /\ CoverInv

(***************************************************************************)
(* Lists.                                                                  *)
(***************************************************************************)
\* q is p without its first k operations.
Drops(p, q, k) ==
    /\ k \in 1 .. Len(p) /\ q \in Seq(Operations) /\ Len(q) = Len(p) - k
    /\ \A i \in 1 .. Len(q) : q[i] = p[i + k]

\* q is p with m in place of its first operation.
Replaces(p, q, m) ==
    /\ q \in Seq(Operations) /\ Len(q) = Len(m) + Len(p) - 1
    /\ \A i \in 1 .. Len(m) : q[i] = m[i]
    /\ \A i \in 2 .. Len(p) : q[Len(m) + i - 1] = p[i]

\* Done drops the operation, and the catch after it.
LEMMA PopDrops ==
    ASSUME NEW p \in Seq(Operations), p # <<>>
    PROVE  \/ Drops(p, Enter(<<>> \o Tail(p)), 1)
           \/ 2 \in 1 .. Len(p) /\ p[2] = "catch" /\ Drops(p, Enter(<<>> \o Tail(p)), 2)
<1>1. /\ Tail(p) \in Seq(Operations) /\ Len(Tail(p)) = Len(p) - 1 /\ Len(p) \in Nat /\ Len(p) >= 1
      /\ \A i \in 1 .. Len(p) - 1 : Tail(p)[i] = p[i + 1]
  OBVIOUS
<1>2. <<>> \o Tail(p) = Tail(p)
  BY <1>1
<1>3. CASE Tail(p) # <<>> /\ Head(Tail(p)) = "catch"
  <2>1. Enter(<<>> \o Tail(p)) = Tail(Tail(p))
    BY <1>2, <1>3 DEF Enter
  <2>2. /\ Tail(Tail(p)) \in Seq(Operations) /\ Len(Tail(Tail(p))) = Len(p) - 2
        /\ \A i \in 1 .. Len(p) - 2 : Tail(Tail(p))[i] = Tail(p)[i + 1]
        /\ Len(p) >= 2
    BY <1>1, <1>3
  <2>3. p[2] = "catch"
    BY <1>1, <1>3, <2>2
  <2>4. \A i \in 1 .. Len(p) - 2 : Tail(Tail(p))[i] = p[i + 2]
    BY <1>1, <2>2
  <2>5. Drops(p, Tail(Tail(p)), 2)
    BY <1>1, <2>2, <2>4 DEF Drops
  <2>6. 2 \in 1 .. Len(p)
    BY <1>1, <2>2
  <2> QED
    BY <2>1, <2>3, <2>5, <2>6
<1>4. CASE ~(Tail(p) # <<>> /\ Head(Tail(p)) = "catch")
  <2>1. Enter(<<>> \o Tail(p)) = Tail(p)
    BY <1>2, <1>4 DEF Enter
  <2>2. Drops(p, Tail(p), 1)
    BY <1>1 DEF Drops
  <2> QED
    BY <2>1, <2>2
<1> QED
  BY <1>3, <1>4

\* An exception drops the operations through the first catch.
LEMMA RaiseDrops ==
    ASSUME NEW p \in Seq(Operations), p # <<>>
    PROVE  \E k \in 1 .. Len(p) :
             /\ Drops(p, Unwind(Tail(p)), k)
             /\ \A i \in 2 .. k - 1 : p[i] # "catch"
             /\ \/ k = Len(p) /\ \A i \in 2 .. Len(p) : p[i] # "catch"
                \/ k >= 2 /\ p[k] = "catch"
<1> DEFINE q == Tail(p)
           catches == { i \in DOMAIN q : q[i] = "catch" }
           c == CHOOSE i \in catches : \A j \in catches : i <= j
<1>1. /\ q \in Seq(Operations) /\ Len(q) = Len(p) - 1 /\ Len(p) \in Nat /\ Len(p) >= 1
      /\ \A i \in 1 .. Len(p) - 1 : q[i] = p[i + 1]
      /\ DOMAIN q = 1 .. Len(p) - 1
  OBVIOUS
<1>2. CASE catches = {}
  <2>1. Unwind(q) = <<>>
    BY <1>2 DEF Unwind
  <2>2. \A i \in 2 .. Len(p) : p[i] # "catch"
    <3>1. SUFFICES ASSUME NEW i \in 2 .. Len(p), p[i] = "catch" PROVE FALSE
      OBVIOUS
    <3>2. i - 1 \in 1 .. Len(p) - 1 /\ q[i - 1] = p[i - 1 + 1] /\ i - 1 + 1 = i
      BY <1>1
    <3> QED
      BY <1>1, <1>2, <3>1, <3>2
  <2>3. Drops(p, <<>>, Len(p))
    BY <1>1 DEF Drops
  <2>4. Drops(p, Unwind(Tail(p)), Len(p)) /\ Len(p) \in 1 .. Len(p)
    BY <1>1, <2>1, <2>3
  <2>5. \A i \in 2 .. Len(p) - 1 : p[i] # "catch"
    BY <1>1, <2>2
  <2> QED
    BY <2>2, <2>4, <2>5
<1>3. CASE catches # {}
  <2>0. catches \subseteq 1 .. Len(p) - 1 /\ catches \subseteq Nat
    BY <1>1
  <2>1. \E n \in catches : \A j \in catches : n <= j
    <3> DEFINE R == OpToRel(<, Nat)
    <3>1. IsWellFoundedOn(R, Nat)
      BY NatLessThanWellFounded
    <3>2. \A x, y \in Nat : <<x, y>> \in R <=> x < y
      BY DEF OpToRel
    <3> HIDE DEF R, catches
    <3>3. PICK n \in catches : \A j \in catches : ~(<<j, n>> \in R)
      BY <1>3, <2>0, <3>1, WFMin
    <3>4. \A j \in catches : n <= j
      <4>1. TAKE j \in catches
      <4>2. j \in Nat /\ n \in Nat /\ ~(j < n)
        BY <2>0, <3>2, <3>3
      <4> QED
        BY <4>2
    <3> QED
      BY <3>4
  <2>2. c \in catches /\ \A j \in catches : c <= j
    BY <2>1
  <2> HIDE DEF c
  <2>3. Unwind(q) = SubSeq(q, c + 1, Len(q))
    BY <1>3 DEF Unwind, c
  <2>4. c \in 1 .. Len(p) - 1 /\ q[c] = "catch" /\ p[c + 1] = "catch"
    BY <1>1, <2>2
  <2> DEFINE s == SubSeq(q, c + 1, Len(q))
  <2>5. s \in Seq(Operations) /\ Len(s) = Len(p) - (c + 1) /\ \A i \in 1 .. Len(s) : s[i] = p[i + (c + 1)]
    <3> HIDE DEF q
    <3>1. c + 1 \in 1 .. Len(q) + 1 /\ Len(q) \in Nat /\ c \in Nat
      BY <1>1, <2>4
    <3>2. \A i \in c + 1 .. Len(q) : i \in 1 .. Len(q) /\ q[i] \in Operations
      BY <1>1, <3>1
    <3>3. /\ s \in Seq(Operations)
          /\ Len(s) = (IF c + 1 <= Len(q) THEN Len(q) - (c + 1) + 1 ELSE 0)
          /\ \A i \in 1 .. Len(q) - (c + 1) + 1 : s[i] = q[c + 1 + i - 1]
      BY <1>1, <3>1, <3>2, SubSeqProperties
    <3>4. Len(s) = Len(p) - (c + 1)
      BY <1>1, <2>4, <3>3
    <3>5. ASSUME NEW i \in 1 .. Len(s) PROVE s[i] = p[i + (c + 1)]
      <4>1. i \in 1 .. Len(q) - (c + 1) + 1 /\ c + 1 + i - 1 = c + i /\ c + i \in 1 .. Len(p) - 1
            /\ c + i + 1 = i + (c + 1)
        BY <1>1, <2>4, <3>4
      <4> QED
        BY <1>1, <3>3, <4>1
    <3> QED
      BY <3>3, <3>4, <3>5
  <2> HIDE DEF s
  <2>6. Drops(p, Unwind(q), c + 1)
    <3>1. c + 1 \in 1 .. Len(p) /\ Unwind(q) = s
      BY <1>1, <2>3, <2>4 DEF s
    <3> QED
      BY <2>5, <3>1 DEF Drops
  <2>7. \A i \in 2 .. c : p[i] # "catch"
    <3>1. SUFFICES ASSUME NEW i \in 2 .. c, p[i] = "catch" PROVE FALSE
      OBVIOUS
    <3>2. i - 1 \in 1 .. Len(p) - 1 /\ q[i - 1] = p[i - 1 + 1] /\ i - 1 + 1 = i /\ i - 1 < c
      BY <1>1, <2>4
    <3>3. i - 1 \in catches /\ c <= i - 1
      BY <1>1, <2>2, <3>1, <3>2
    <3> QED
      BY <1>1, <2>4, <3>2, <3>3
  <2>8. c + 1 \in 1 .. Len(p) /\ c + 1 >= 2 /\ (c + 1) - 1 = c /\ p[c + 1] = "catch"
    BY <1>1, <2>4
  <2> HIDE DEF q, catches
  <2>9. Drops(p, Unwind(Tail(p)), c + 1)
    BY <2>6 DEF q
  <2> QED
    BY <2>7, <2>8, <2>9
<1> QED
  BY <1>2, <1>3

\* Continue puts operations in the place of the one that was done.
LEMMA PushReplaces ==
    ASSUME NEW p \in Seq(Operations), p # <<>>,
           NEW m \in Seq(Operations), m # <<>>, m[1] # "catch"
    PROVE  Replaces(p, Enter(m \o Tail(p)), m)
<1>1. /\ Tail(p) \in Seq(Operations) /\ Len(Tail(p)) = Len(p) - 1 /\ Len(p) \in Nat /\ Len(p) >= 1
      /\ \A i \in 1 .. Len(p) - 1 : Tail(p)[i] = p[i + 1]
      /\ Len(m) \in Nat /\ Len(m) >= 1
  OBVIOUS
<1>2. /\ m \o Tail(p) \in Seq(Operations) /\ Len(m \o Tail(p)) = Len(m) + Len(p) - 1
      /\ \A i \in 1 .. Len(m) : (m \o Tail(p))[i] = m[i]
      /\ \A i \in 1 .. Len(p) - 1 : (m \o Tail(p))[Len(m) + i] = Tail(p)[i]
  BY <1>1
<1>3. Enter(m \o Tail(p)) = m \o Tail(p)
  BY <1>1, <1>2 DEF Enter
<1>4. \A i \in 2 .. Len(p) : (m \o Tail(p))[Len(m) + i - 1] = p[i]
  <2>1. TAKE i \in 2 .. Len(p)
  <2>2. i - 1 \in 1 .. Len(p) - 1 /\ Len(m) + (i - 1) = Len(m) + i - 1 /\ i - 1 + 1 = i
    BY <1>1
  <2> QED
    BY <1>1, <1>2, <2>2
<1> QED
  BY <1>2, <1>3, <1>4 DEF Replaces

\* What every step that only drops operations keeps.
LEMMA DropFacts ==
    ASSUME NEW p \in Seq(Operations), NEW q, NEW k, Drops(p, q, k), InOrder(p)
    PROVE  /\ q \in Seq(Operations) /\ InOrder(q)
           /\ \A op : Has(q, op) => Has(p, op) /\ p[1] \in MayPrecede(op)
           /\ \A op : Has(p, op) /\ (\A i \in 1 .. k : p[i] # op) => Has(q, op)
<1> DEFINE n == Len(q)
<1>1. /\ q \in Seq(Operations) /\ n \in Nat /\ Len(p) \in Nat /\ k \in 1 .. Len(p) /\ n = Len(p) - k
      /\ \A i \in 1 .. n : q[i] = p[i + k] /\ i + k \in 1 .. Len(p)
  BY DEF Drops
<1> HIDE DEF n
<1>2. InOrder(q)
  <2>1. SUFFICES ASSUME NEW j \in 1 .. n, NEW i \in 1 .. n, i < j PROVE q[i] \in MayPrecede(q[j])
    BY DEF InOrder, n
  <2>2. i + k < j + k
    BY <1>1, <2>1
  <2> QED
    BY <1>1, <2>2 DEF InOrder
<1>3. ASSUME NEW op, Has(q, op) PROVE Has(p, op) /\ p[1] \in MayPrecede(op)
  <2>1. PICK i \in 1 .. n : q[i] = op
    BY <1>3 DEF Has, n
  <2>2. i + k \in 1 .. Len(p) /\ p[i + k] = op /\ 1 \in 1 .. Len(p) /\ 1 < i + k
    BY <1>1, <2>1
  <2> QED
    BY <2>2 DEF Has, InOrder
<1>4. ASSUME NEW op, Has(p, op), \A i \in 1 .. k : p[i] # op PROVE Has(q, op)
  <2>1. PICK i \in 1 .. Len(p) : p[i] = op
    BY <1>4 DEF Has
  <2>2. i - k \in 1 .. n /\ (i - k) + k = i
    BY <1>1, <1>4, <2>1
  <2> QED
    BY <1>1, <2>1, <2>2 DEF Has, n
<1> QED
  BY <1>1, <1>2, <1>3, <1>4

\* Caught speaks of what follows: it holds of every rest of a list.
LEMMA DropCaught ==
    ASSUME NEW p \in Seq(Operations), NEW q, NEW k, Drops(p, q, k), Caught(p)
    PROVE  Caught(q)
<1> DEFINE n == Len(q)
<1>1. /\ n \in Nat /\ Len(p) \in Nat /\ k \in 1 .. Len(p) /\ n = Len(p) - k
      /\ \A i \in 1 .. n : q[i] = p[i + k] /\ i + k \in 1 .. Len(p)
  BY DEF Drops
<1> HIDE DEF n
<1>2. \A i \in k + 1 .. Len(p) : i - k \in 1 .. n /\ q[i - k] = p[i]
  <2>1. TAKE i \in k + 1 .. Len(p)
  <2>2. i - k \in 1 .. n /\ (i - k) + k = i
    BY <1>1
  <2> QED
    BY <1>1, <2>2
<1>3. ASSUME NEW a, NEW b, Followed(p, a, b) PROVE Followed(q, a, b)
  <2>1. SUFFICES ASSUME NEW j \in 1 .. n, q[j] = a PROVE \E i \in 1 .. n : j < i /\ q[i] = b
    BY DEF Followed, n
  <2>2. PICK i \in 1 .. Len(p) : j + k < i /\ p[i] = b
    BY <1>1, <1>3, <2>1 DEF Followed
  <2>3. i - k \in 1 .. n /\ j < i - k /\ q[i - k] = b
    BY <1>1, <1>2, <2>2
  <2> QED
    BY <2>3
<1>4. ASSUME NEW i \in 1 .. n, NEW j \in 1 .. n, CaughtBetween(p, i + k, j + k)
      PROVE  CaughtBetween(q, i, j)
  <2>1. PICK c \in 1 .. Len(p) : i + k <= c /\ c < j + k /\ p[c] = "catch"
    BY <1>4 DEF CaughtBetween
  <2>2. c - k \in 1 .. n /\ i <= c - k /\ c - k < j /\ q[c - k] = "catch"
    BY <1>1, <1>2, <2>1
  <2> QED
    BY <2>2 DEF CaughtBetween, n
<1>5. CaughtLeftover(q)
  <2>1. SUFFICES ASSUME NEW j \in 1 .. n, q[j] = "leftover", NEW i \in 1 .. n, i < j
                 PROVE  CaughtBetween(q, i, j)
    BY DEF CaughtLeftover, n
  <2>2. i + k < j + k
    BY <1>1, <2>1
  <2> QED
    BY <1>1, <1>4, <2>1, <2>2 DEF Caught, CaughtLeftover
<1>6. CaughtFallback(q)
  <2>1. SUFFICES ASSUME NEW j \in 1 .. n, q[j] = "fallback", NEW i \in 1 .. n, i < j
                 PROVE  q[i] \in {"failure", "bclose"} \/ CaughtBetween(q, i, j)
    BY DEF CaughtFallback, n
  <2>2. i + k < j + k
    BY <1>1, <2>1
  <2> QED
    BY <1>1, <1>4, <2>1, <2>2 DEF Caught, CaughtFallback
<1>7. CaughtTrip(q)
  <2>1. SUFFICES ASSUME NEW j \in 1 .. n, q[j] = "trip", j > 1 PROVE q[j - 1] = "catch"
    BY DEF CaughtTrip, n
  <2>2. j - 1 \in 1 .. n /\ (j + k) - 1 = (j - 1) + k /\ j + k > 1
    BY <1>1, <2>1
  <2> QED
    BY <1>1, <2>1, <2>2 DEF Caught, CaughtTrip
<1>8. CloseAfterHandler(q)
  <2>1. SUFFICES ASSUME NEW j \in 1 .. n, q[j] = "bclose", NEW i \in 1 .. n, i < j, q[i] = "failure"
                 PROVE  j = i + 1
    BY DEF CloseAfterHandler, n
  <2>2. i + k < j + k /\ (j + k = (i + k) + 1 => j = i + 1)
    BY <1>1, <2>1
  <2> QED
    BY <1>1, <2>1, <2>2 DEF Caught, CloseAfterHandler
<1>9. TripsBeforeClosed(q)
  <2>1. SUFFICES ASSUME NEW j \in 1 .. n, q[j] = "closed", NEW i \in 1 .. n, i < j, q[i] = "catch"
                 PROVE  \E c \in 1 .. n : i < c /\ c < j /\ q[c] = "trip"
    BY DEF TripsBeforeClosed, n
  <2>2. i + k < j + k
    BY <1>1, <2>1
  <2>3. PICK c \in 1 .. Len(p) : i + k < c /\ c < j + k /\ p[c] = "trip"
    BY <1>1, <2>1, <2>2 DEF Caught, TripsBeforeClosed
  <2>4. c - k \in 1 .. n /\ i < c - k /\ c - k < j /\ q[c - k] = "trip"
    BY <1>1, <1>2, <2>3
  <2> QED
    BY <2>4
<1> QED
  BY <1>3, <1>5, <1>6, <1>7, <1>8, <1>9 DEF Caught

\* An operation that is done leaves the others, except a catch that ends its try.
LEMMA PopFacts ==
    ASSUME NEW p \in Seq(Operations), p # <<>>, InOrder(p),
           NEW q, q = Enter(<<>> \o Tail(p))
    PROVE  /\ q \in Seq(Operations) /\ InOrder(q) /\ (Caught(p) => Caught(q))
           /\ \A op : Has(q, op) => Has(p, op) /\ p[1] \in MayPrecede(op)
           /\ \A op : Has(p, op) /\ op # p[1] /\ op # "catch" => Has(q, op)
           /\ \A a, b : Precedes(p, a, b) /\ a # p[1] /\ a # "catch" => Precedes(q, a, b)
<1>1. PICK k : /\ Drops(p, q, k) /\ \A i \in 2 .. k : p[i] = "catch"
  <2>1. CASE Drops(p, q, 1)
    BY <2>1
  <2>2. CASE p[2] = "catch" /\ Drops(p, q, 2)
    BY <2>2
  <2> QED
    BY <2>1, <2>2, PopDrops
<1>2. /\ k \in 1 .. Len(p) /\ Len(p) \in Nat /\ Len(q) \in Nat /\ Len(q) = Len(p) - k
      /\ \A i \in 1 .. Len(q) : q[i] = p[i + k]
  BY <1>1 DEF Drops
<1>3. \A i \in 1 .. k : p[i] = p[1] \/ p[i] = "catch"
  BY <1>1, <1>2
<1>4. ASSUME NEW a, NEW b, Precedes(p, a, b), a # p[1], a # "catch" PROVE Precedes(q, a, b)
  <2>1. SUFFICES ASSUME NEW j \in 1 .. Len(q), q[j] = b PROVE \E i \in 1 .. j - 1 : q[i] = a
    BY DEF Precedes
  <2>2. j + k \in 1 .. Len(p) /\ p[j + k] = b
    BY <1>2, <2>1
  <2>3. PICK i \in 1 .. (j + k) - 1 : p[i] = a
    BY <1>4, <2>2 DEF Precedes
  <2>4. ~(i \in 1 .. k)
    BY <1>3, <1>4, <2>3
  <2>5. i - k \in 1 .. j - 1 /\ i - k \in 1 .. Len(q) /\ (i - k) + k = i
    BY <1>2, <2>1, <2>3, <2>4
  <2> QED
    BY <1>2, <2>3, <2>5
<1>5. /\ q \in Seq(Operations) /\ InOrder(q)
      /\ \A op : Has(q, op) => Has(p, op) /\ p[1] \in MayPrecede(op)
      /\ \A op : Has(p, op) /\ (\A i \in 1 .. k : p[i] # op) => Has(q, op)
  BY <1>1, DropFacts
<1>6. \A op : Has(p, op) /\ op # p[1] /\ op # "catch" => Has(q, op)
  BY <1>3, <1>5
<1>7. Caught(p) => Caught(q)
  BY <1>1, DropCaught
<1> QED
  BY <1>4, <1>5, <1>6, <1>7

\* An exception leaves what stands behind a catch: everything a failed run still owes.
LEMMA RaiseFacts ==
    ASSUME NEW p \in Seq(Operations), p # <<>>, p[1] # "catch", InOrder(p),
           NEW q, q = Unwind(Tail(p))
    PROVE  /\ q \in Seq(Operations) /\ InOrder(q)
           /\ \A op : Has(q, op) =>
                Has(p, op) /\ p[1] \in MayPrecede(op) /\ "catch" \in MayPrecede(op)
           /\ ~Has(p, "catch") => q = <<>>
           /\ Caught(p) =>
                /\ Caught(q)
                /\ Has(p, "leftover") /\ p[1] # "leftover" => Has(q, "leftover")
                /\ Has(p, "fallback") /\ p[1] \notin {"failure", "bclose", "fallback"} =>
                     Has(q, "fallback")
                /\ Has(p, "trip") /\ p[1] # "trip" => Has(q, "trip")
                /\ Precedes(q, "trip", "closed")
                /\ Precedes(p, "failure", "bclose") /\ p[1] # "failure" =>
                     Precedes(q, "failure", "bclose")
<1>1. PICK k \in 1 .. Len(p) :
        /\ Drops(p, q, k)
        /\ \A i \in 2 .. k - 1 : p[i] # "catch"
        /\ \/ k = Len(p) /\ \A i \in 2 .. Len(p) : p[i] # "catch"
           \/ k >= 2 /\ p[k] = "catch"
  BY RaiseDrops
<1>2. /\ Len(p) \in Nat /\ Len(q) \in Nat /\ Len(q) = Len(p) - k /\ q \in Seq(Operations)
      /\ \A i \in 1 .. Len(q) : q[i] = p[i + k] /\ i + k \in 1 .. Len(p)
  BY <1>1 DEF Drops
<1>3. \A i \in k + 1 .. Len(p) : i - k \in 1 .. Len(q) /\ q[i - k] = p[i]
  <2>1. TAKE i \in k + 1 .. Len(p)
  <2>2. i - k \in 1 .. Len(q) /\ (i - k) + k = i
    BY <1>2
  <2> QED
    BY <1>2, <2>2
<1>4. /\ InOrder(q)
      /\ \A op : Has(q, op) => Has(p, op) /\ p[1] \in MayPrecede(op)
  BY <1>1, DropFacts
<1>5. ASSUME Len(q) > 0 PROVE p[k] = "catch"
  BY <1>1, <1>2, <1>5
<1>6. ASSUME NEW op, Has(q, op) PROVE "catch" \in MayPrecede(op)
  <2>1. PICK i \in 1 .. Len(q) : q[i] = op
    BY <1>6 DEF Has
  <2>2. p[k] = "catch" /\ k < i + k /\ i + k \in 1 .. Len(p) /\ p[i + k] = op
    BY <1>1, <1>2, <1>5, <2>1
  <2> QED
    BY <1>1, <2>2 DEF InOrder
<1>7. ASSUME ~Has(p, "catch") PROVE q = <<>>
  <2>1. k = Len(p)
    BY <1>1, <1>7 DEF Has
  <2> QED
    BY <1>2, <2>1
<1>8. ASSUME Caught(p)
      PROVE  /\ Caught(q)
             /\ Has(p, "leftover") /\ p[1] # "leftover" => Has(q, "leftover")
             /\ Has(p, "fallback") /\ p[1] \notin {"failure", "bclose", "fallback"} =>
                  Has(q, "fallback")
             /\ Has(p, "trip") /\ p[1] # "trip" => Has(q, "trip")
             /\ Precedes(q, "trip", "closed")
             /\ Precedes(p, "failure", "bclose") /\ p[1] # "failure" =>
                  Precedes(q, "failure", "bclose")
  <2>1. Caught(q)
    BY <1>1, <1>8, DropCaught
  \* a catch before j is at k or later, so the exception stops before j
  <2>2. ASSUME NEW j \in 1 .. Len(p), CaughtBetween(p, 1, j) PROVE j > k
    <3>1. PICK c \in 1 .. Len(p) : 1 <= c /\ c < j /\ p[c] = "catch"
      BY <2>2 DEF CaughtBetween
    <3>2. c # 1 /\ c \in 2 .. Len(p)
      BY <1>2, <3>1
    <3>3. ~(c \in 2 .. k - 1) /\ p[k] = "catch"
      BY <1>1, <3>1, <3>2
    <3> QED
      BY <1>2, <3>1, <3>2, <3>3
  <2>3. ASSUME NEW j \in 1 .. Len(p), CaughtBetween(p, 1, j) PROVE Has(q, p[j])
    <3>1. j - k \in 1 .. Len(q) /\ q[j - k] = p[j]
      BY <1>2, <1>3, <2>2, <2>3
    <3> QED
      BY <3>1 DEF Has
  <2>4. ASSUME Has(p, "leftover"), p[1] # "leftover" PROVE Has(q, "leftover")
    <3>1. PICK j \in 1 .. Len(p) : p[j] = "leftover"
      BY <2>4 DEF Has
    <3>2. 1 < j /\ 1 \in 1 .. Len(p)
      BY <1>2, <2>4, <3>1
    <3>3. CaughtBetween(p, 1, j)
      BY <1>8, <3>1, <3>2 DEF Caught, CaughtLeftover
    <3> QED
      BY <2>3, <3>1, <3>3
  <2>5. ASSUME Has(p, "fallback"), p[1] \notin {"failure", "bclose", "fallback"}
        PROVE  Has(q, "fallback")
    <3>1. PICK j \in 1 .. Len(p) : p[j] = "fallback"
      BY <2>5 DEF Has
    <3>2. 1 < j /\ 1 \in 1 .. Len(p)
      BY <1>2, <2>5, <3>1
    <3>3. CaughtBetween(p, 1, j)
      BY <1>8, <2>5, <3>1, <3>2 DEF Caught, CaughtFallback
    <3> QED
      BY <2>3, <3>1, <3>3
  <2>6. ASSUME Has(p, "trip"), p[1] # "trip" PROVE Has(q, "trip")
    <3>1. PICK j \in 1 .. Len(p) : p[j] = "trip"
      BY <2>6 DEF Has
    <3>2. j > 1 /\ p[j - 1] = "catch" /\ j - 1 \in 1 .. Len(p)
      BY <1>2, <1>8, <2>6, <3>1 DEF Caught, CaughtTrip
    <3>3. CaughtBetween(p, 1, j)
      BY <1>2, <3>2 DEF CaughtBetween
    <3> QED
      BY <2>3, <3>1, <3>3
  <2>7. Precedes(q, "trip", "closed")
    <3>1. SUFFICES ASSUME NEW j \in 1 .. Len(q), q[j] = "closed" PROVE \E i \in 1 .. j - 1 : q[i] = "trip"
      BY DEF Precedes
    <3>2. p[k] = "catch" /\ k < j + k /\ j + k \in 1 .. Len(p) /\ p[j + k] = "closed"
      BY <1>1, <1>2, <1>5, <3>1
    <3>3. PICK c \in 1 .. Len(p) : k < c /\ c < j + k /\ p[c] = "trip"
      BY <1>8, <3>2 DEF Caught, TripsBeforeClosed
    <3>4. c - k \in 1 .. j - 1 /\ q[c - k] = "trip"
      BY <1>2, <1>3, <3>3
    <3> QED
      BY <3>4
  <2>8. ASSUME Precedes(p, "failure", "bclose"), p[1] # "failure"
        PROVE  Precedes(q, "failure", "bclose")
    <3>1. SUFFICES ASSUME NEW j \in 1 .. Len(q), q[j] = "bclose" PROVE \E i \in 1 .. j - 1 : q[i] = "failure"
      BY DEF Precedes
    <3>2. p[k] = "catch" /\ j + k \in 1 .. Len(p) /\ p[j + k] = "bclose"
      BY <1>1, <1>2, <1>5, <3>1
    <3>3. PICK c \in 1 .. (j + k) - 1 : p[c] = "failure"
      BY <2>8, <3>2 DEF Precedes
    <3>4. c \in 1 .. Len(p) /\ c < j + k /\ c # k
      BY <1>2, <3>2, <3>3
    <3>6. j + k = c + 1
      BY <1>8, <3>2, <3>3, <3>4 DEF Caught, CloseAfterHandler
    <3>5. c - k \in 1 .. j - 1 /\ q[c - k] = "failure"
      BY <1>2, <1>3, <3>3, <3>4, <3>6
    <3> QED
      BY <3>5
  <2> QED
    BY <2>1, <2>4, <2>5, <2>6, <2>7, <2>8
<1> QED
  BY <1>2, <1>4, <1>6, <1>7, <1>8

\* Operations put in front: what holds of them and of the rest holds of the list.
LEMMA PushFacts ==
    ASSUME NEW p \in Seq(Operations), p # <<>>, InOrder(p),
           NEW m \in Seq(Operations), m # <<>>, m[1] # "catch",
           NEW q, q = Enter(m \o Tail(p))
    PROVE  /\ q \in Seq(Operations) /\ q # <<>> /\ q[1] = m[1]
           /\ \A op : Has(q, op) => Has(m, op) \/ (Has(p, op) /\ p[1] \in MayPrecede(op))
           /\ \A op : Has(m, op) => Has(q, op)
           /\ \A op : Has(p, op) /\ op # p[1] => Has(q, op)
           /\ \A a, b : Precedes(p, a, b) /\ a # p[1] /\ ~Has(m, b) => Precedes(q, a, b)
           /\ \A a, b : Has(m, a) /\ Precedes(m, a, b) => Precedes(q, a, b)
           /\ InOrder(m) /\ (\A b : p[1] \in MayPrecede(b) =>
                                \A i \in 1 .. Len(m) : m[i] \in MayPrecede(b)) => InOrder(q)
<1> DEFINE l == Len(m)
<1>0. Replaces(p, q, m) /\ Len(p) \in Nat /\ Len(p) >= 1 /\ Len(m) \in Nat /\ Len(m) >= 1
  BY PushReplaces
<1>1. /\ q \in Seq(Operations) /\ Len(q) = l + Len(p) - 1 /\ Len(p) \in Nat /\ Len(p) >= 1
      /\ l \in Nat /\ l >= 1 /\ Len(q) \in Nat /\ Len(q) >= l
      /\ \A i \in 1 .. l : q[i] = m[i]
      /\ \A i \in 2 .. Len(p) : q[l + i - 1] = p[i]
  BY <1>0 DEF Replaces
<1> HIDE DEF l
\* an operation of q is one of m, or one of p past its first
<1>2. \A i \in 1 .. Len(q) : \/ i \in 1 .. l /\ q[i] = m[i]
                             \/ i > l /\ i - l + 1 \in 2 .. Len(p) /\ q[i] = p[i - l + 1]
  <2>1. TAKE i \in 1 .. Len(q)
  <2>2. CASE i \in 1 .. l
    BY <1>1, <2>2
  <2>3. CASE i > l
    <3>1. i - l + 1 \in 2 .. Len(p) /\ l + (i - l + 1) - 1 = i
      BY <1>1, <2>3
    <3> QED
      BY <1>1, <2>3, <3>1
  <2> QED
    BY <1>1, <2>2, <2>3
<1>3. \A i \in 2 .. Len(p) : l + i - 1 \in 1 .. Len(q) /\ q[l + i - 1] = p[i]
  BY <1>1
<1>4. \A i \in 1 .. l : i \in 1 .. Len(q) /\ q[i] = m[i]
  BY <1>1
<1>5. q # <<>> /\ q[1] = m[1]
  BY <1>1
<1>6. ASSUME NEW op, Has(q, op) PROVE Has(m, op) \/ (Has(p, op) /\ p[1] \in MayPrecede(op))
  <2>1. PICK i \in 1 .. Len(q) : q[i] = op
    BY <1>6 DEF Has
  <2>2. CASE i \in 1 .. l /\ q[i] = m[i]
    BY <2>1, <2>2 DEF Has, l
  <2>3. CASE i - l + 1 \in 2 .. Len(p) /\ q[i] = p[i - l + 1]
    <3>1. i - l + 1 \in 1 .. Len(p) /\ 1 \in 1 .. Len(p) /\ 1 < i - l + 1 /\ p[i - l + 1] = op
      BY <1>1, <2>1, <2>3
    <3> QED
      BY <3>1 DEF Has, InOrder
  <2> QED
    BY <1>2, <2>2, <2>3
<1>7. ASSUME NEW op, Has(m, op) PROVE Has(q, op)
  BY <1>4, <1>7 DEF Has, l
<1>8. ASSUME NEW op, Has(p, op), op # p[1] PROVE Has(q, op)
  <2>1. PICK i \in 1 .. Len(p) : p[i] = op
    BY <1>8 DEF Has
  <2>2. i \in 2 .. Len(p)
    BY <1>1, <1>8, <2>1
  <2> QED
    BY <1>3, <2>1, <2>2 DEF Has
<1>9. ASSUME NEW a, NEW b, Precedes(p, a, b), a # p[1], ~Has(m, b) PROVE Precedes(q, a, b)
  <2>1. SUFFICES ASSUME NEW j \in 1 .. Len(q), q[j] = b PROVE \E i \in 1 .. j - 1 : q[i] = a
    BY DEF Precedes
  <2>2. ~(j \in 1 .. l /\ q[j] = m[j])
    BY <1>9, <2>1 DEF Has, l
  <2>3. j > l /\ j - l + 1 \in 2 .. Len(p) /\ p[j - l + 1] = b
    BY <1>2, <2>1, <2>2
  <2>4. j - l + 1 \in 1 .. Len(p)
    BY <1>1, <2>3
  <2>5. PICK i \in 1 .. (j - l + 1) - 1 : p[i] = a
    BY <1>9, <2>3, <2>4 DEF Precedes
  <2>6. i \in 2 .. Len(p) /\ l + i - 1 \in 1 .. j - 1
    BY <1>1, <1>9, <2>3, <2>5
  <2> QED
    BY <1>3, <2>5, <2>6
<1>10. ASSUME NEW a, NEW b, Has(m, a), Precedes(m, a, b) PROVE Precedes(q, a, b)
  <2>1. SUFFICES ASSUME NEW j \in 1 .. Len(q), q[j] = b PROVE \E i \in 1 .. j - 1 : q[i] = a
    BY DEF Precedes
  <2>2. CASE j \in 1 .. l
    <3>1. PICK i \in 1 .. j - 1 : m[i] = a
      BY <1>4, <1>10, <2>1, <2>2 DEF Precedes, l
    <3>2. i \in 1 .. l
      BY <1>1, <2>2, <3>1
    <3> QED
      BY <1>4, <3>1, <3>2
  <2>3. CASE j > l
    <3>1. PICK i \in 1 .. l : m[i] = a
      BY <1>10 DEF Has, l
    <3>2. i \in 1 .. j - 1
      BY <1>1, <2>3, <3>1
    <3> QED
      BY <1>4, <3>1, <3>2
  <2> QED
    BY <1>1, <2>1, <2>2, <2>3
<1>11. ASSUME InOrder(m),
              \A b : p[1] \in MayPrecede(b) => \A i \in 1 .. l : m[i] \in MayPrecede(b)
       PROVE  InOrder(q)
  <2>1. SUFFICES ASSUME NEW j \in 1 .. Len(q), NEW i \in 1 .. Len(q), i < j
                 PROVE  q[i] \in MayPrecede(q[j])
    BY DEF InOrder
  <2>2. CASE j \in 1 .. l
    <3>1. i \in 1 .. l /\ q[i] = m[i] /\ q[j] = m[j]
      BY <1>1, <2>1, <2>2
    <3> QED
      BY <1>11, <2>1, <2>2, <3>1 DEF InOrder, l
  <2>3. CASE j > l
    <3>1. j - l + 1 \in 2 .. Len(p) /\ q[j] = p[j - l + 1]
      BY <1>1, <1>2, <2>3
    <3>2. j - l + 1 \in 1 .. Len(p) /\ 1 \in 1 .. Len(p) /\ 1 < j - l + 1
      BY <1>1, <3>1
    <3>3. CASE i \in 1 .. l
      BY <1>4, <1>11, <3>1, <3>2, <3>3 DEF InOrder
    <3>4. CASE i > l
      <4>1. i - l + 1 \in 2 .. Len(p) /\ q[i] = p[i - l + 1]
        BY <1>1, <1>2, <3>4
      <4>2. i - l + 1 \in 1 .. Len(p) /\ i - l + 1 < j - l + 1
        BY <1>1, <2>1, <4>1
      <4> QED
        BY <3>1, <3>2, <4>1, <4>2 DEF InOrder
    <3> QED
      BY <1>1, <3>3, <3>4
  <2> QED
    BY <1>1, <2>1, <2>2, <2>3
<1> QED
  BY <1>1, <1>5, <1>6, <1>7, <1>8, <1>9, <1>10, <1>11 DEF l

\* Operations that may be put in front of a list whose first is h
Pushable(h, m) ==
    /\ \A i \in 1 .. Len(m) : m[i] \in Inserted \cup {"emit", "loop", "catch", "raise"}
    /\ h = "failure" => m[Len(m)] = "catch"
    /\ CaughtTrip(m) /\ TripsBeforeClosed(m)
    /\ h \in Inserted \cup {"emit", "catch"} => ~Has(m, "catch")

\* They leave every catch where it was.
LEMMA PushCaught ==
    ASSUME NEW p \in Seq(Operations), p # <<>>, InOrder(p), Caught(p), p[1] \notin {"catch", "bclose"},
           NEW m \in Seq(Operations), m # <<>>, m[1] # "catch", Pushable(p[1], m),
           NEW q, q = Enter(m \o Tail(p))
    PROVE  Caught(q)
<1> DEFINE l == Len(m)
<1>0. Replaces(p, q, m) /\ Len(p) \in Nat /\ Len(p) >= 1 /\ Len(m) \in Nat /\ Len(m) >= 1
  BY PushReplaces
<1>1. /\ Len(q) = l + Len(p) - 1 /\ Len(p) \in Nat /\ Len(p) >= 1 /\ 1 \in 1 .. Len(p)
      /\ l \in Nat /\ l >= 1 /\ Len(q) \in Nat /\ Len(q) >= l
      /\ \A i \in 1 .. l : q[i] = m[i] /\ i \in 1 .. Len(q)
      /\ \A i \in 2 .. Len(p) : q[l + i - 1] = p[i] /\ l + i - 1 \in 1 .. Len(q)
  BY <1>0 DEF Replaces
<1>2. \A i \in 1 .. l : m[i] \in Inserted \cup {"emit", "loop", "catch", "raise"}
  BY DEF Pushable, l
<1> HIDE DEF l
\* an operation of q past m is one of p past its first
<1>3. ASSUME NEW j \in 1 .. Len(q), j > l
      PROVE  /\ j - l + 1 \in 2 .. Len(p) /\ j - l + 1 \in 1 .. Len(p) /\ q[j] = p[j - l + 1]
             /\ l + (j - l + 1) - 1 = j /\ 1 < j - l + 1
  <2>1. j - l + 1 \in 2 .. Len(p) /\ l + (j - l + 1) - 1 = j
    BY <1>1, <1>3
  <2> QED
    BY <1>1, <2>1
<1>4. ASSUME NEW j \in 1 .. Len(q), q[j] \notin Inserted \cup {"emit", "loop", "catch", "raise"}
      PROVE  j > l
  BY <1>1, <1>2, <1>4
<1>5. ASSUME NEW a, NEW b, a \notin Inserted \cup {"emit", "loop", "catch", "raise"},
             Followed(p, a, b)
      PROVE  Followed(q, a, b)
  <2>1. SUFFICES ASSUME NEW j \in 1 .. Len(q), q[j] = a PROVE \E i \in 1 .. Len(q) : j < i /\ q[i] = b
    BY DEF Followed
  <2>2. j > l
    BY <1>4, <1>5, <2>1
  <2>3. j - l + 1 \in 1 .. Len(p) /\ p[j - l + 1] = a /\ 1 < j - l + 1
    BY <1>3, <2>1, <2>2
  <2>4. PICK i \in 1 .. Len(p) : j - l + 1 < i /\ p[i] = b
    BY <1>5, <2>3 DEF Followed
  <2>5. i \in 2 .. Len(p) /\ j < l + i - 1
    BY <1>1, <2>3, <2>4
  <2> QED
    BY <1>1, <2>4, <2>5
\* a catch between operations of p is still between them
<1>6. ASSUME NEW i \in 1 .. Len(q), NEW j \in 1 .. Len(q), j > l,
             NEW h \in 1 .. Len(p), i <= l + h - 1, CaughtBetween(p, h, j - l + 1)
      PROVE  CaughtBetween(q, i, j)
  <2>1. PICK c \in 1 .. Len(p) : h <= c /\ c < j - l + 1 /\ p[c] = "catch"
    BY <1>6 DEF CaughtBetween
  <2>2. c \in 2 .. Len(p)
    BY <1>1, <2>1
  <2>3. i <= l + c - 1 /\ l + c - 1 < j
    BY <1>1, <1>6, <2>1
  <2> QED
    BY <1>1, <2>1, <2>2, <2>3 DEF CaughtBetween
<1>7. CaughtLeftover(q)
  <2>1. SUFFICES ASSUME NEW j \in 1 .. Len(q), q[j] = "leftover", NEW i \in 1 .. Len(q), i < j
                 PROVE  CaughtBetween(q, i, j)
    BY DEF CaughtLeftover
  <2>2. j > l
    BY <1>4, <2>1 DEF Inserted
  <2>3. j - l + 1 \in 1 .. Len(p) /\ p[j - l + 1] = "leftover" /\ 1 < j - l + 1
    BY <1>3, <2>1, <2>2
  <2>4. CASE i \in 1 .. l
    <3>1. CaughtBetween(p, 1, j - l + 1)
      BY <1>1, <2>3 DEF Caught, CaughtLeftover
    <3>2. i <= l + 1 - 1
      BY <1>1, <2>4
    <3> QED
      BY <1>1, <1>6, <2>2, <3>1, <3>2
  <2>5. CASE i > l
    <3>1. i - l + 1 \in 1 .. Len(p) /\ i - l + 1 < j - l + 1 /\ i <= l + (i - l + 1) - 1
      BY <1>1, <1>3, <2>1, <2>5
    <3>2. CaughtBetween(p, i - l + 1, j - l + 1)
      BY <2>3, <3>1 DEF Caught, CaughtLeftover
    <3> QED
      BY <1>6, <2>2, <3>1, <3>2
  <2> QED
    BY <1>1, <2>4, <2>5
<1>8. CaughtFallback(q)
  <2>1. SUFFICES ASSUME NEW j \in 1 .. Len(q), q[j] = "fallback", NEW i \in 1 .. Len(q), i < j
                 PROVE  q[i] \in {"failure", "bclose"} \/ CaughtBetween(q, i, j)
    BY DEF CaughtFallback
  <2>2. j > l
    BY <1>4, <2>1 DEF Inserted
  <2>3. j - l + 1 \in 1 .. Len(p) /\ p[j - l + 1] = "fallback" /\ 1 < j - l + 1
    BY <1>3, <2>1, <2>2
  <2>4. CASE i \in 1 .. l /\ p[1] = "failure"
    <3>1. m[l] = "catch"
      BY <2>4 DEF Pushable, l
    <3>2. l \in 1 .. Len(q) /\ i <= l /\ l < j /\ q[l] = "catch"
      BY <1>1, <2>2, <2>4, <3>1
    <3> QED
      BY <3>2 DEF CaughtBetween
  <2>5. CASE i \in 1 .. l /\ p[1] # "failure"
    <3>1. CaughtBetween(p, 1, j - l + 1)
      BY <1>1, <2>3, <2>5 DEF Caught, CaughtFallback
    <3>2. i <= l + 1 - 1
      BY <1>1, <2>5
    <3> QED
      BY <1>1, <1>6, <2>2, <3>1, <3>2
  <2>6. CASE i > l
    <3>1. i - l + 1 \in 1 .. Len(p) /\ i - l + 1 < j - l + 1 /\ i <= l + (i - l + 1) - 1
          /\ q[i] = p[i - l + 1]
      BY <1>1, <1>3, <2>1, <2>6
    <3>2. p[i - l + 1] \in {"failure", "bclose"} \/ CaughtBetween(p, i - l + 1, j - l + 1)
      BY <2>3, <3>1 DEF Caught, CaughtFallback
    <3> QED
      BY <1>6, <2>2, <3>1, <3>2
  <2> QED
    BY <1>1, <2>4, <2>5, <2>6
<1>9. CaughtTrip(q)
  <2>1. SUFFICES ASSUME NEW j \in 1 .. Len(q), q[j] = "trip", j > 1 PROVE q[j - 1] = "catch"
    BY DEF CaughtTrip
  <2>2. CASE j \in 1 .. l
    <3>1. m[j] = "trip" /\ j - 1 \in 1 .. l
      BY <1>1, <2>1, <2>2
    <3>2. m[j - 1] = "catch"
      BY <2>1, <2>2, <3>1 DEF Pushable, CaughtTrip, l
    <3> QED
      BY <1>1, <3>1, <3>2
  <2>3. CASE j > l
    <3>1. j - l + 1 \in 2 .. Len(p) /\ p[j - l + 1] = "trip" /\ j - l + 1 > 1
      BY <1>3, <2>1, <2>3
    <3>2. p[(j - l + 1) - 1] = "catch" /\ (j - l + 1) - 1 = j - l
      BY <1>1, <1>3, <2>3, <3>1 DEF Caught, CaughtTrip
    <3>3. j - l # 1 /\ j - l \in 2 .. Len(p) /\ l + (j - l) - 1 = j - 1
      BY <1>1, <2>3, <3>1, <3>2
    <3> QED
      BY <1>1, <3>2, <3>3
  <2> QED
    BY <1>1, <2>2, <2>3
<1>10. CloseAfterHandler(q)
  <2>1. SUFFICES ASSUME NEW j \in 1 .. Len(q), q[j] = "bclose", NEW i \in 1 .. Len(q), i < j, q[i] = "failure"
                 PROVE  j = i + 1
    BY DEF CloseAfterHandler
  <2>2. j > l /\ i > l
    BY <1>4, <2>1 DEF Inserted
  <2>3. /\ j - l + 1 \in 1 .. Len(p) /\ p[j - l + 1] = "bclose"
        /\ i - l + 1 \in 1 .. Len(p) /\ p[i - l + 1] = "failure"
    BY <1>3, <2>1, <2>2
  <2>4. i - l + 1 < j - l + 1
    BY <1>1, <2>1, <2>3
  <2>5. j - l + 1 = (i - l + 1) + 1
    BY <2>3, <2>4 DEF Caught, CloseAfterHandler
  <2> QED
    BY <1>1, <2>5
<1>11. TripsBeforeClosed(q)
  <2>1. SUFFICES ASSUME NEW j \in 1 .. Len(q), q[j] = "closed", NEW i \in 1 .. Len(q), i < j, q[i] = "catch"
                 PROVE  \E c \in 1 .. Len(q) : i < c /\ c < j /\ q[c] = "trip"
    BY DEF TripsBeforeClosed
  <2>2. CASE j \in 1 .. l
    <3>1. i \in 1 .. l /\ m[i] = "catch" /\ m[j] = "closed"
      BY <1>1, <2>1, <2>2
    <3>2. PICK c \in 1 .. l : i < c /\ c < j /\ m[c] = "trip"
      BY <2>1, <2>2, <3>1 DEF Pushable, TripsBeforeClosed, l
    <3> QED
      BY <1>1, <3>2
  <2>3. CASE j > l
    <3>1. j - l + 1 \in 1 .. Len(p) /\ p[j - l + 1] = "closed" /\ 1 < j - l + 1
      BY <1>3, <2>1, <2>3
    <3>2. CASE i \in 1 .. l
      <4>1. Has(m, "catch")
        BY <1>1, <2>1, <3>2 DEF Has, l
      <4>2. p[1] \in MayPrecede("closed")
        BY <1>1, <3>1 DEF InOrder
      <4>3. p[1] \in Inserted \cup {"emit", "catch"}
        BY <4>2 DEF MayPrecede
      <4> QED
        BY <4>1, <4>3 DEF Pushable
    <3>3. CASE i > l
      <4>1. i - l + 1 \in 1 .. Len(p) /\ p[i - l + 1] = "catch" /\ i - l + 1 < j - l + 1
        BY <1>1, <1>3, <2>1, <3>3
      <4>2. PICK c \in 1 .. Len(p) : i - l + 1 < c /\ c < j - l + 1 /\ p[c] = "trip"
        BY <3>1, <4>1 DEF Caught, TripsBeforeClosed
      <4>3. c \in 2 .. Len(p) /\ i < l + c - 1 /\ l + c - 1 < j
        BY <1>1, <3>3, <4>2
      <4> QED
        BY <1>1, <4>2, <4>3
    <3> QED
      BY <1>1, <3>2, <3>3
  <2> QED
    BY <1>1, <2>2, <2>3
<1> QED
  BY <1>5, <1>7, <1>8, <1>9, <1>10, <1>11 DEF Caught, Inserted

\* What may stand before each operation
LEMMA Order ==
    /\ MayPrecede("revoke") = {}
    /\ MayPrecede("xrevoke") = {}
    /\ MayPrecede("xwipe") = {}
    /\ MayPrecede("kill") = {"revoke", "crevoke", "xrevoke"}
    /\ MayPrecede("wipe") = {"revoke", "crevoke", "xrevoke", "kill"}
    /\ MayPrecede("trip") = {"emit", "catch"}
    /\ MayPrecede("raise") = Inserted
    /\ MayPrecede("crevoke") = Inserted \cup {"catch"}
    /\ MayPrecede("cwipe") = Inserted \cup {"catch"}
    /\ MayPrecede("closed") = Inserted \cup {"emit", "catch"}
    /\ MayPrecede("prepare") = {"prepare", "register"}
    /\ MayPrecede("register") = {"prepare", "register"}
    /\ MayPrecede("launch") = {"prepare", "register"}
    /\ MayPrecede("wait") = Working \ {"wait", "receipt"}
    /\ MayPrecede("start") = Working
    /\ MayPrecede("open") = Working
    /\ MayPrecede("activate") = Working
    /\ MayPrecede("boot") = Working
    /\ MayPrecede("send") = Working
    /\ MayPrecede("loop") = Working
    /\ MayPrecede("enter") = Working
    /\ MayPrecede("agree") = Working
    /\ MayPrecede("receipt") = Working
    /\ MayPrecede("emit") = Working \cup {"catch"}
    /\ MayPrecede("bclose") = Working \cup {"catch", "failure"}
    /\ MayPrecede("fallback") = Handling
    /\ MayPrecede("settle") = Handling \cup {"fallback", "deactivate"}
    /\ MayPrecede("leftover") = Handling \cup {"fallback", "deactivate", "settle"}
    /\ MayPrecede("catch") = Handling \cup
             {"fallback", "deactivate", "settle", "leftover", "noctrl", "nostate"}
    /\ MayPrecede("failure") = Handling \cup
             {"fallback", "deactivate", "settle", "leftover", "noctrl", "nostate"}
    /\ MayPrecede("deactivate") = Handling \cup
             {"fallback", "deactivate", "settle", "leftover", "noctrl", "nostate"}
    /\ MayPrecede("noctrl") = Handling \cup
             {"fallback", "deactivate", "settle", "leftover", "noctrl", "nostate"}
    /\ MayPrecede("nostate") = Handling \cup
             {"fallback", "deactivate", "settle", "leftover", "noctrl", "nostate"}
    /\ MayPrecede("end") = Handling \cup
             {"fallback", "deactivate", "settle", "leftover", "noctrl", "nostate"}
<1>1. MayPrecede("revoke") = {}
  BY DEF MayPrecede
<1>2. MayPrecede("xrevoke") = {}
  BY DEF MayPrecede
<1>3. MayPrecede("xwipe") = {}
  BY DEF MayPrecede
<1>4. MayPrecede("kill") = {"revoke", "crevoke", "xrevoke"}
  BY DEF MayPrecede
<1>5. MayPrecede("wipe") = {"revoke", "crevoke", "xrevoke", "kill"}
  BY DEF MayPrecede
<1>6. MayPrecede("trip") = {"emit", "catch"}
  BY DEF MayPrecede
<1>7. MayPrecede("raise") = Inserted
  BY DEF MayPrecede
<1>8. MayPrecede("crevoke") = Inserted \cup {"catch"}
  BY DEF MayPrecede
<1>9. MayPrecede("cwipe") = Inserted \cup {"catch"}
  BY DEF MayPrecede
<1>10. MayPrecede("closed") = Inserted \cup {"emit", "catch"}
  BY DEF MayPrecede
<1>11. MayPrecede("prepare") = {"prepare", "register"}
  BY DEF MayPrecede
<1>12. MayPrecede("register") = {"prepare", "register"}
  BY DEF MayPrecede
<1>13. MayPrecede("launch") = {"prepare", "register"}
  BY DEF MayPrecede
<1>14. MayPrecede("wait") = Working \ {"wait", "receipt"}
  BY DEF MayPrecede
<1>15. MayPrecede("start") = Working
  BY DEF MayPrecede
<1>16. MayPrecede("open") = Working
  BY DEF MayPrecede
<1>17. MayPrecede("activate") = Working
  BY DEF MayPrecede
<1>18. MayPrecede("boot") = Working
  BY DEF MayPrecede
<1>19. MayPrecede("send") = Working
  BY DEF MayPrecede
<1>20. MayPrecede("loop") = Working
  BY DEF MayPrecede
<1>21. MayPrecede("enter") = Working
  BY DEF MayPrecede
<1>22. MayPrecede("agree") = Working
  BY DEF MayPrecede
<1>23. MayPrecede("receipt") = Working
  BY DEF MayPrecede
<1>24. MayPrecede("emit") = Working \cup {"catch"}
  BY DEF MayPrecede
<1>25. MayPrecede("bclose") = Working \cup {"catch", "failure"}
  BY DEF MayPrecede
<1>26. MayPrecede("fallback") = Handling
  BY DEF MayPrecede
<1>27. MayPrecede("settle") = Handling \cup {"fallback", "deactivate"}
  BY DEF MayPrecede
<1>28. MayPrecede("leftover") = Handling \cup {"fallback", "deactivate", "settle"}
  BY DEF MayPrecede
<1>29. MayPrecede("catch") = Handling \cup
             {"fallback", "deactivate", "settle", "leftover", "noctrl", "nostate"}
  BY DEF MayPrecede
<1>30. MayPrecede("failure") = Handling \cup
             {"fallback", "deactivate", "settle", "leftover", "noctrl", "nostate"}
  BY DEF MayPrecede
<1>31. MayPrecede("deactivate") = Handling \cup
             {"fallback", "deactivate", "settle", "leftover", "noctrl", "nostate"}
  BY DEF MayPrecede
<1>32. MayPrecede("noctrl") = Handling \cup
             {"fallback", "deactivate", "settle", "leftover", "noctrl", "nostate"}
  BY DEF MayPrecede
<1>33. MayPrecede("nostate") = Handling \cup
             {"fallback", "deactivate", "settle", "leftover", "noctrl", "nostate"}
  BY DEF MayPrecede
<1>34. MayPrecede("end") = Handling \cup
             {"fallback", "deactivate", "settle", "leftover", "noctrl", "nostate"}
  BY DEF MayPrecede
<1> QED
  BY <1>1, <1>2, <1>3, <1>4, <1>5, <1>6, <1>7, <1>8, <1>9, <1>10, <1>11, <1>12, <1>13, <1>14, <1>15, <1>16, <1>17, <1>18, <1>19, <1>20, <1>21, <1>22, <1>23, <1>24, <1>25, <1>26, <1>27, <1>28, <1>29, <1>30, <1>31, <1>32, <1>33, <1>34

\* Where an operation may stand, so may those that replace it.
LEMMA Replacement ==
    ASSUME NEW b
    PROVE  /\ "trip" \in MayPrecede(b) => {"revoke", "kill", "wipe"} \subseteq MayPrecede(b)
           /\ "revoke" \in MayPrecede(b) => {"crevoke"} \subseteq MayPrecede(b)
           /\ "wipe" \in MayPrecede(b) => {"cwipe"} \subseteq MayPrecede(b)
           /\ "crevoke" \in MayPrecede(b) => {"xrevoke"} \subseteq MayPrecede(b)
           /\ "cwipe" \in MayPrecede(b) => {"xwipe"} \subseteq MayPrecede(b)
           /\ "loop" \in MayPrecede(b) => {"trip", "closed", "raise", "emit", "loop"} \subseteq MayPrecede(b)
           /\ "wait" \in MayPrecede(b) => {"trip", "closed", "raise", "revoke", "wipe"} \subseteq MayPrecede(b)
           /\ "failure" \in MayPrecede(b) => {"emit", "catch", "trip", "closed"} \subseteq MayPrecede(b)
           /\ "fallback" \in MayPrecede(b) => {"trip", "closed"} \subseteq MayPrecede(b)
           /\ "settle" \in MayPrecede(b) => {"crevoke", "cwipe"} \subseteq MayPrecede(b)
           /\ "leftover" \in MayPrecede(b) => {"crevoke", "catch", "cwipe"} \subseteq MayPrecede(b)
<1>1. "trip" \in MayPrecede(b) => {"revoke", "kill", "wipe"} \subseteq MayPrecede(b)
  BY DEF MayPrecede, Inserted, Working, Handling
<1>2. "revoke" \in MayPrecede(b) => {"crevoke"} \subseteq MayPrecede(b)
  BY DEF MayPrecede, Inserted, Working, Handling
<1>3. "wipe" \in MayPrecede(b) => {"cwipe"} \subseteq MayPrecede(b)
  BY DEF MayPrecede, Inserted, Working, Handling
<1>4. "crevoke" \in MayPrecede(b) => {"xrevoke"} \subseteq MayPrecede(b)
  BY DEF MayPrecede, Inserted, Working, Handling
<1>5. "cwipe" \in MayPrecede(b) => {"xwipe"} \subseteq MayPrecede(b)
  BY DEF MayPrecede, Inserted, Working, Handling
<1>6. "loop" \in MayPrecede(b) => {"trip", "closed", "raise", "emit", "loop"} \subseteq MayPrecede(b)
  BY DEF MayPrecede, Inserted, Working, Handling
<1>7. "wait" \in MayPrecede(b) => {"trip", "closed", "raise", "revoke", "wipe"} \subseteq MayPrecede(b)
  BY DEF MayPrecede, Inserted, Working, Handling
<1>8. "failure" \in MayPrecede(b) => {"emit", "catch", "trip", "closed"} \subseteq MayPrecede(b)
  BY DEF MayPrecede, Inserted, Working, Handling
<1>9. "fallback" \in MayPrecede(b) => {"trip", "closed"} \subseteq MayPrecede(b)
  BY DEF MayPrecede, Inserted, Working, Handling
<1>10. "settle" \in MayPrecede(b) => {"crevoke", "cwipe"} \subseteq MayPrecede(b)
  BY DEF MayPrecede, Inserted, Working, Handling
<1>11. "leftover" \in MayPrecede(b) => {"crevoke", "catch", "cwipe"} \subseteq MayPrecede(b)
  BY DEF MayPrecede, Inserted, Working, Handling
<1> QED
  BY <1>1, <1>2, <1>3, <1>4, <1>5, <1>6, <1>7, <1>8, <1>9, <1>10, <1>11

\* The list that a trip puts in front
LEMMA TripList ==
    /\ Trip \in Seq(Operations) /\ Trip # <<>> /\ Trip[1] = "revoke"
    /\ \A op : Has(Trip, op) <=> op \in {"revoke", "kill", "wipe"}
    /\ InOrder(Trip)
    /\ Pushable("trip", Trip)
    /\ Precedes(Trip, "revoke", "closed")
    /\ Precedes(Trip, "wipe", "closed")
    /\ \A b : "trip" \in MayPrecede(b) => \A i \in 1 .. Len(Trip) : Trip[i] \in MayPrecede(b)
<1> DEFINE m == Trip
<1>1. Len(m) = 3 /\ m[1] = "revoke" /\ m[2] = "kill" /\ m[3] = "wipe"
  BY DEF Trip
<1>2. m \in Seq(Operations)
  <2>1. m \in Seq({"revoke", "kill", "wipe"}) /\ {"revoke", "kill", "wipe"} \subseteq Operations
    BY DEF Operations, Trip
  <2> QED
    BY <2>1, SeqMonotonic
<1> HIDE DEF m
<1>e. m # <<>>
  BY <1>1
<1>0. m \in Seq(Operations) /\ m # <<>> /\ m[1] = "revoke"
  BY <1>1, <1>2, <1>e
<1>3. \A i \in 1 .. 3 : i = 1 \/ i = 2 \/ i = 3
  OBVIOUS
<1>4. \A i \in 1 .. Len(m) : m[i] \in {"revoke", "kill", "wipe"}
  BY <1>1, <1>3
<1>5. \A op : Has(m, op) <=> op \in {"revoke", "kill", "wipe"}
  BY <1>1, <1>4 DEF Has
<1>6. InOrder(m)
  BY <1>1, <1>3, Order DEF InOrder, Inserted, Working, Handling
<1>7. CaughtTrip(m) /\ TripsBeforeClosed(m)
  BY <1>1, <1>3 DEF CaughtTrip, TripsBeforeClosed
<1>8. Pushable("trip", m)
  BY <1>1, <1>4, <1>5, <1>7 DEF Pushable, Inserted
<1>9. \A b : "trip" \in MayPrecede(b) => \A i \in 1 .. Len(m) : m[i] \in MayPrecede(b)
  BY <1>4, Replacement
<1>10. Precedes(m, "revoke", "closed")
  BY <1>1, <1>3 DEF Precedes
<1>11. Precedes(m, "wipe", "closed")
  BY <1>1, <1>3 DEF Precedes
<1> QED
  BY <1>0, <1>5, <1>6, <1>8, <1>9, <1>10, <1>11 DEF m

\* The list of a stop of the lifecycle
LEMMA StopList ==
    /\ LifecycleStop \in Seq(Operations) /\ LifecycleStop # <<>> /\ LifecycleStop[1] = "trip"
    /\ \A op : Has(LifecycleStop, op) <=> op \in {"trip", "closed"}
    /\ InOrder(LifecycleStop)
    /\ Pushable("fallback", LifecycleStop)
    /\ Precedes(LifecycleStop, "trip", "closed")
    /\ \A b : "fallback" \in MayPrecede(b) => \A i \in 1 .. Len(LifecycleStop) : LifecycleStop[i] \in MayPrecede(b)
<1> DEFINE m == LifecycleStop
<1>1. Len(m) = 2 /\ m[1] = "trip" /\ m[2] = "closed"
  BY DEF LifecycleStop
<1>2. m \in Seq(Operations)
  <2>1. m \in Seq({"trip", "closed"}) /\ {"trip", "closed"} \subseteq Operations
    BY DEF Operations, LifecycleStop
  <2> QED
    BY <2>1, SeqMonotonic
<1> HIDE DEF m
<1>e. m # <<>>
  BY <1>1
<1>0. m \in Seq(Operations) /\ m # <<>> /\ m[1] = "trip"
  BY <1>1, <1>2, <1>e
<1>3. \A i \in 1 .. 2 : i = 1 \/ i = 2
  OBVIOUS
<1>4. \A i \in 1 .. Len(m) : m[i] \in {"trip", "closed"}
  BY <1>1, <1>3
<1>5. \A op : Has(m, op) <=> op \in {"trip", "closed"}
  BY <1>1, <1>4 DEF Has
<1>6. InOrder(m)
  BY <1>1, <1>3, Order DEF InOrder, Inserted, Working, Handling
<1>7. CaughtTrip(m) /\ TripsBeforeClosed(m)
  BY <1>1, <1>3 DEF CaughtTrip, TripsBeforeClosed
<1>8. Pushable("fallback", m)
  BY <1>1, <1>4, <1>5, <1>7 DEF Pushable, Inserted
<1>9. \A b : "fallback" \in MayPrecede(b) => \A i \in 1 .. Len(m) : m[i] \in MayPrecede(b)
  BY <1>4, Replacement
<1>10. Precedes(m, "trip", "closed")
  BY <1>1, <1>3 DEF Precedes
<1> QED
  BY <1>0, <1>5, <1>6, <1>8, <1>9, <1>10 DEF m

\* The list of a wait that has seen the worker exit
LEMMA FinishList ==
    /\ Finish \in Seq(Operations) /\ Finish # <<>> /\ Finish[1] = "revoke"
    /\ \A op : Has(Finish, op) <=> op \in {"revoke", "wipe", "closed"}
    /\ InOrder(Finish)
    /\ Pushable("wait", Finish)
    /\ Precedes(Finish, "wipe", "closed")
    /\ \A b : "wait" \in MayPrecede(b) => \A i \in 1 .. Len(Finish) : Finish[i] \in MayPrecede(b)
<1> DEFINE m == Finish
<1>1. Len(m) = 3 /\ m[1] = "revoke" /\ m[2] = "wipe" /\ m[3] = "closed"
  BY DEF Finish
<1>2. m \in Seq(Operations)
  <2>1. m \in Seq({"revoke", "wipe", "closed"}) /\ {"revoke", "wipe", "closed"} \subseteq Operations
    BY DEF Operations, Finish
  <2> QED
    BY <2>1, SeqMonotonic
<1> HIDE DEF m
<1>e. m # <<>>
  BY <1>1
<1>0. m \in Seq(Operations) /\ m # <<>> /\ m[1] = "revoke"
  BY <1>1, <1>2, <1>e
<1>3. \A i \in 1 .. 3 : i = 1 \/ i = 2 \/ i = 3
  OBVIOUS
<1>4. \A i \in 1 .. Len(m) : m[i] \in {"revoke", "wipe", "closed"}
  BY <1>1, <1>3
<1>5. \A op : Has(m, op) <=> op \in {"revoke", "wipe", "closed"}
  BY <1>1, <1>4 DEF Has
<1>6. InOrder(m)
  BY <1>1, <1>3, Order DEF InOrder, Inserted, Working, Handling
<1>7. CaughtTrip(m) /\ TripsBeforeClosed(m)
  BY <1>1, <1>3 DEF CaughtTrip, TripsBeforeClosed
<1>8. Pushable("wait", m)
  BY <1>1, <1>4, <1>5, <1>7 DEF Pushable, Inserted
<1>9. \A b : "wait" \in MayPrecede(b) => \A i \in 1 .. Len(m) : m[i] \in MayPrecede(b)
  BY <1>4, Replacement
<1>10. Precedes(m, "wipe", "closed")
  BY <1>1, <1>3 DEF Precedes
<1> QED
  BY <1>0, <1>5, <1>6, <1>8, <1>9, <1>10 DEF m

\* The list of an expired token or a wait that times out
LEMMA ExpiredList ==
    /\ Expired \in Seq(Operations) /\ Expired # <<>> /\ Expired[1] = "trip"
    /\ \A op : Has(Expired, op) <=> op \in {"trip", "closed", "raise"}
    /\ InOrder(Expired)
    /\ Pushable("loop", Expired)
    /\ Pushable("wait", Expired)
    /\ Precedes(Expired, "trip", "closed")
    /\ \A b : "loop" \in MayPrecede(b) => \A i \in 1 .. Len(Expired) : Expired[i] \in MayPrecede(b)
    /\ \A b : "wait" \in MayPrecede(b) => \A i \in 1 .. Len(Expired) : Expired[i] \in MayPrecede(b)
<1> DEFINE m == Expired
<1>1. Len(m) = 3 /\ m[1] = "trip" /\ m[2] = "closed" /\ m[3] = "raise"
  BY DEF Expired, LifecycleStop
<1>2. m \in Seq(Operations)
  <2>1. <<"trip", "closed">> \in Seq(Operations)
    <3>1. <<"trip", "closed">> \in Seq({"trip", "closed"}) /\ {"trip", "closed"} \subseteq Operations
      BY DEF Operations
    <3> QED
      BY <3>1, SeqMonotonic
  <2>2. <<"raise">> \in Seq(Operations)
    <3>1. <<"raise">> \in Seq({"raise"}) /\ {"raise"} \subseteq Operations
      BY DEF Operations
    <3> QED
      BY <3>1, SeqMonotonic
  <2> QED
    BY <2>1, <2>2, ConcatProperties DEF Expired, LifecycleStop
<1> HIDE DEF m
<1>e. m # <<>>
  BY <1>1
<1>0. m \in Seq(Operations) /\ m # <<>> /\ m[1] = "trip"
  BY <1>1, <1>2, <1>e
<1>3. \A i \in 1 .. 3 : i = 1 \/ i = 2 \/ i = 3
  OBVIOUS
<1>4. \A i \in 1 .. Len(m) : m[i] \in {"trip", "closed", "raise"}
  BY <1>1, <1>3
<1>5. \A op : Has(m, op) <=> op \in {"trip", "closed", "raise"}
  BY <1>1, <1>4 DEF Has
<1>6. InOrder(m)
  BY <1>1, <1>3, Order DEF InOrder, Inserted, Working, Handling
<1>7. CaughtTrip(m) /\ TripsBeforeClosed(m)
  BY <1>1, <1>3 DEF CaughtTrip, TripsBeforeClosed
<1>8. Pushable("loop", m)
  BY <1>1, <1>4, <1>5, <1>7 DEF Pushable, Inserted
<1>9. \A b : "loop" \in MayPrecede(b) => \A i \in 1 .. Len(m) : m[i] \in MayPrecede(b)
  BY <1>4, Replacement
<1>10. Pushable("wait", m)
  BY <1>1, <1>4, <1>5, <1>7 DEF Pushable, Inserted
<1>11. \A b : "wait" \in MayPrecede(b) => \A i \in 1 .. Len(m) : m[i] \in MayPrecede(b)
  BY <1>4, Replacement
<1>12. Precedes(m, "trip", "closed")
  BY <1>1, <1>3 DEF Precedes
<1> QED
  BY <1>0, <1>5, <1>6, <1>8, <1>9, <1>10, <1>11, <1>12 DEF m

\* The list of the except block
LEMMA FailureList ==
    /\ StopAfterFailure \in Seq(Operations) /\ StopAfterFailure # <<>> /\ StopAfterFailure[1] = "emit"
    /\ \A op : Has(StopAfterFailure, op) <=> op \in {"emit", "catch", "trip", "closed"}
    /\ InOrder(StopAfterFailure)
    /\ Pushable("failure", StopAfterFailure)
    /\ Precedes(StopAfterFailure, "trip", "closed")
    /\ \A b : "failure" \in MayPrecede(b) => \A i \in 1 .. Len(StopAfterFailure) : StopAfterFailure[i] \in MayPrecede(b)
<1> DEFINE m == StopAfterFailure
<1>1. Len(m) = 9 /\ m[1] = "emit" /\ m[2] = "catch" /\ m[3] = "trip" /\ m[4] = "closed" /\ m[5] = "catch" /\ m[6] = "emit" /\ m[7] = "catch" /\ m[8] = "emit" /\ m[9] = "catch"
  BY DEF StopAfterFailure, LifecycleStop
<1>2. m \in Seq(Operations)
  <2>1. <<"emit", "catch">> \in Seq(Operations)
    <3>1. <<"emit", "catch">> \in Seq({"emit", "catch"}) /\ {"emit", "catch"} \subseteq Operations
      BY DEF Operations
    <3> QED
      BY <3>1, SeqMonotonic
  <2>2. <<"trip", "closed">> \in Seq(Operations)
    <3>1. <<"trip", "closed">> \in Seq({"trip", "closed"}) /\ {"trip", "closed"} \subseteq Operations
      BY DEF Operations
    <3> QED
      BY <3>1, SeqMonotonic
  <2>3. <<"catch", "emit", "catch", "emit", "catch">> \in Seq(Operations)
    <3>1. <<"catch", "emit", "catch", "emit", "catch">> \in Seq({"catch", "emit"}) /\ {"catch", "emit"} \subseteq Operations
      BY DEF Operations
    <3> QED
      BY <3>1, SeqMonotonic
  <2>4. LifecycleStop \o <<"catch", "emit", "catch", "emit", "catch">> \in Seq(Operations) /\ <<"emit", "catch">> \o LifecycleStop \in Seq(Operations)
    BY <2>1, <2>2, <2>3, ConcatProperties DEF LifecycleStop
  <2> QED
    BY <2>1, <2>3, <2>4, ConcatProperties DEF StopAfterFailure
<1> HIDE DEF m
<1>e. m # <<>>
  BY <1>1
<1>0. m \in Seq(Operations) /\ m # <<>> /\ m[1] = "emit"
  BY <1>1, <1>2, <1>e
<1>3. \A i \in 1 .. 9 : i = 1 \/ i = 2 \/ i = 3 \/ i = 4 \/ i = 5 \/ i = 6 \/ i = 7 \/ i = 8 \/ i = 9
  OBVIOUS
<1>4. \A i \in 1 .. Len(m) : m[i] \in {"emit", "catch", "trip", "closed"}
  BY <1>1, <1>3
<1>5. \A op : Has(m, op) <=> op \in {"emit", "catch", "trip", "closed"}
  BY <1>1, <1>4 DEF Has
<1>6. InOrder(m)
  BY <1>1, <1>3, Order DEF InOrder, Inserted, Working, Handling
<1>7. CaughtTrip(m) /\ TripsBeforeClosed(m)
  BY <1>1, <1>3 DEF CaughtTrip, TripsBeforeClosed
<1>8. Pushable("failure", m)
  BY <1>1, <1>4, <1>5, <1>7 DEF Pushable, Inserted
<1>9. \A b : "failure" \in MayPrecede(b) => \A i \in 1 .. Len(m) : m[i] \in MayPrecede(b)
  BY <1>4, Replacement
<1>10. Precedes(m, "trip", "closed")
  BY <1>1, <1>3 DEF Precedes
<1> QED
  BY <1>0, <1>5, <1>6, <1>8, <1>9, <1>10 DEF m

\* The list of a run that has succeeded
LEMMA SettleList ==
    /\ <<"crevoke", "cwipe">> \in Seq(Operations) /\ <<"crevoke", "cwipe">> # <<>> /\ <<"crevoke", "cwipe">>[1] = "crevoke"
    /\ \A op : Has(<<"crevoke", "cwipe">>, op) <=> op \in {"crevoke", "cwipe"}
    /\ InOrder(<<"crevoke", "cwipe">>)
    /\ Pushable("settle", <<"crevoke", "cwipe">>)
    /\ \A b : "settle" \in MayPrecede(b) => \A i \in 1 .. Len(<<"crevoke", "cwipe">>) : <<"crevoke", "cwipe">>[i] \in MayPrecede(b)
<1> DEFINE m == <<"crevoke", "cwipe">>
<1>1. Len(m) = 2 /\ m[1] = "crevoke" /\ m[2] = "cwipe"
  OBVIOUS
<1>2. m \in Seq(Operations)
  <2>1. m \in Seq({"crevoke", "cwipe"}) /\ {"crevoke", "cwipe"} \subseteq Operations
    BY DEF Operations
  <2> QED
    BY <2>1, SeqMonotonic
<1> HIDE DEF m
<1>e. m # <<>>
  BY <1>1
<1>0. m \in Seq(Operations) /\ m # <<>> /\ m[1] = "crevoke"
  BY <1>1, <1>2, <1>e
<1>3. \A i \in 1 .. 2 : i = 1 \/ i = 2
  OBVIOUS
<1>4. \A i \in 1 .. Len(m) : m[i] \in {"crevoke", "cwipe"}
  BY <1>1, <1>3
<1>5. \A op : Has(m, op) <=> op \in {"crevoke", "cwipe"}
  BY <1>1, <1>4 DEF Has
<1>6. InOrder(m)
  BY <1>1, <1>3, Order DEF InOrder, Inserted, Working, Handling
<1>7. CaughtTrip(m) /\ TripsBeforeClosed(m)
  BY <1>1, <1>3 DEF CaughtTrip, TripsBeforeClosed
<1>8. Pushable("settle", m)
  BY <1>1, <1>4, <1>5, <1>7 DEF Pushable, Inserted
<1>9. \A b : "settle" \in MayPrecede(b) => \A i \in 1 .. Len(m) : m[i] \in MayPrecede(b)
  BY <1>4, Replacement
<1> QED
  BY <1>0, <1>5, <1>6, <1>8, <1>9 DEF m

\* The list of a cleanup without a worker
LEMMA WithoutWorkerList ==
    /\ WithoutWorker \in Seq(Operations) /\ WithoutWorker # <<>> /\ WithoutWorker[1] = "crevoke"
    /\ \A op : Has(WithoutWorker, op) <=> op \in {"crevoke", "catch", "cwipe"}
    /\ InOrder(WithoutWorker)
    /\ Pushable("leftover", WithoutWorker)
    /\ \A b : "leftover" \in MayPrecede(b) => \A i \in 1 .. Len(WithoutWorker) : WithoutWorker[i] \in MayPrecede(b)
<1> DEFINE m == WithoutWorker
<1>1. Len(m) = 4 /\ m[1] = "crevoke" /\ m[2] = "catch" /\ m[3] = "cwipe" /\ m[4] = "catch"
  BY DEF WithoutWorker
<1>2. m \in Seq(Operations)
  <2>1. m \in Seq({"crevoke", "catch", "cwipe"}) /\ {"crevoke", "catch", "cwipe"} \subseteq Operations
    BY DEF Operations, WithoutWorker
  <2> QED
    BY <2>1, SeqMonotonic
<1> HIDE DEF m
<1>e. m # <<>>
  BY <1>1
<1>0. m \in Seq(Operations) /\ m # <<>> /\ m[1] = "crevoke"
  BY <1>1, <1>2, <1>e
<1>3. \A i \in 1 .. 4 : i = 1 \/ i = 2 \/ i = 3 \/ i = 4
  OBVIOUS
<1>4. \A i \in 1 .. Len(m) : m[i] \in {"crevoke", "catch", "cwipe"}
  BY <1>1, <1>3
<1>5. \A op : Has(m, op) <=> op \in {"crevoke", "catch", "cwipe"}
  BY <1>1, <1>4 DEF Has
<1>6. InOrder(m)
  BY <1>1, <1>3, Order DEF InOrder, Inserted, Working, Handling
<1>7. CaughtTrip(m) /\ TripsBeforeClosed(m)
  BY <1>1, <1>3 DEF CaughtTrip, TripsBeforeClosed
<1>8. Pushable("leftover", m)
  BY <1>1, <1>4, <1>5, <1>7 DEF Pushable, Inserted
<1>9. \A b : "leftover" \in MayPrecede(b) => \A i \in 1 .. Len(m) : m[i] \in MayPrecede(b)
  BY <1>4, Replacement
<1> QED
  BY <1>0, <1>5, <1>6, <1>8, <1>9 DEF m

\* The list of a chunk of output
LEMMA StreamList ==
    /\ <<"emit", "loop">> \in Seq(Operations) /\ <<"emit", "loop">> # <<>> /\ <<"emit", "loop">>[1] = "emit"
    /\ \A op : Has(<<"emit", "loop">>, op) <=> op \in {"emit", "loop"}
    /\ InOrder(<<"emit", "loop">>)
    /\ Pushable("loop", <<"emit", "loop">>)
    /\ \A b : "loop" \in MayPrecede(b) => \A i \in 1 .. Len(<<"emit", "loop">>) : <<"emit", "loop">>[i] \in MayPrecede(b)
<1> DEFINE m == <<"emit", "loop">>
<1>1. Len(m) = 2 /\ m[1] = "emit" /\ m[2] = "loop"
  OBVIOUS
<1>2. m \in Seq(Operations)
  <2>1. m \in Seq({"emit", "loop"}) /\ {"emit", "loop"} \subseteq Operations
    BY DEF Operations
  <2> QED
    BY <2>1, SeqMonotonic
<1> HIDE DEF m
<1>e. m # <<>>
  BY <1>1
<1>0. m \in Seq(Operations) /\ m # <<>> /\ m[1] = "emit"
  BY <1>1, <1>2, <1>e
<1>3. \A i \in 1 .. 2 : i = 1 \/ i = 2
  OBVIOUS
<1>4. \A i \in 1 .. Len(m) : m[i] \in {"emit", "loop"}
  BY <1>1, <1>3
<1>5. \A op : Has(m, op) <=> op \in {"emit", "loop"}
  BY <1>1, <1>4 DEF Has
<1>6. InOrder(m)
  BY <1>1, <1>3, Order DEF InOrder, Inserted, Working, Handling
<1>7. CaughtTrip(m) /\ TripsBeforeClosed(m)
  BY <1>1, <1>3 DEF CaughtTrip, TripsBeforeClosed
<1>8. Pushable("loop", m)
  BY <1>1, <1>4, <1>5, <1>7 DEF Pushable, Inserted
<1>9. \A b : "loop" \in MayPrecede(b) => \A i \in 1 .. Len(m) : m[i] \in MayPrecede(b)
  BY <1>4, Replacement
<1> QED
  BY <1>0, <1>5, <1>6, <1>8, <1>9 DEF m

\* The list of a revocation that the lifecycle begins
LEMMA RevokeList ==
    /\ <<"crevoke">> \in Seq(Operations) /\ <<"crevoke">> # <<>> /\ <<"crevoke">>[1] = "crevoke"
    /\ \A op : Has(<<"crevoke">>, op) <=> op \in {"crevoke"}
    /\ InOrder(<<"crevoke">>)
    /\ Pushable("revoke", <<"crevoke">>)
    /\ \A b : "revoke" \in MayPrecede(b) => \A i \in 1 .. Len(<<"crevoke">>) : <<"crevoke">>[i] \in MayPrecede(b)
<1> DEFINE m == <<"crevoke">>
<1>1. Len(m) = 1 /\ m[1] = "crevoke"
  OBVIOUS
<1>2. m \in Seq(Operations)
  <2>1. m \in Seq({"crevoke"}) /\ {"crevoke"} \subseteq Operations
    BY DEF Operations
  <2> QED
    BY <2>1, SeqMonotonic
<1> HIDE DEF m
<1>e. m # <<>>
  BY <1>1
<1>0. m \in Seq(Operations) /\ m # <<>> /\ m[1] = "crevoke"
  BY <1>1, <1>2, <1>e
<1>3. \A i \in 1 .. 1 : i = 1
  OBVIOUS
<1>4. \A i \in 1 .. Len(m) : m[i] \in {"crevoke"}
  BY <1>1, <1>3
<1>5. \A op : Has(m, op) <=> op \in {"crevoke"}
  BY <1>1, <1>4 DEF Has
<1>6. InOrder(m)
  BY <1>1, <1>3, Order DEF InOrder, Inserted, Working, Handling
<1>7. CaughtTrip(m) /\ TripsBeforeClosed(m)
  BY <1>1, <1>3 DEF CaughtTrip, TripsBeforeClosed
<1>8. Pushable("revoke", m)
  BY <1>1, <1>4, <1>5, <1>7 DEF Pushable, Inserted
<1>9. \A b : "revoke" \in MayPrecede(b) => \A i \in 1 .. Len(m) : m[i] \in MayPrecede(b)
  BY <1>4, Replacement
<1> QED
  BY <1>0, <1>5, <1>6, <1>8, <1>9 DEF m

\* The list of a wipe that the lifecycle begins
LEMMA WipeList ==
    /\ <<"cwipe">> \in Seq(Operations) /\ <<"cwipe">> # <<>> /\ <<"cwipe">>[1] = "cwipe"
    /\ \A op : Has(<<"cwipe">>, op) <=> op \in {"cwipe"}
    /\ InOrder(<<"cwipe">>)
    /\ Pushable("wipe", <<"cwipe">>)
    /\ \A b : "wipe" \in MayPrecede(b) => \A i \in 1 .. Len(<<"cwipe">>) : <<"cwipe">>[i] \in MayPrecede(b)
<1> DEFINE m == <<"cwipe">>
<1>1. Len(m) = 1 /\ m[1] = "cwipe"
  OBVIOUS
<1>2. m \in Seq(Operations)
  <2>1. m \in Seq({"cwipe"}) /\ {"cwipe"} \subseteq Operations
    BY DEF Operations
  <2> QED
    BY <2>1, SeqMonotonic
<1> HIDE DEF m
<1>e. m # <<>>
  BY <1>1
<1>0. m \in Seq(Operations) /\ m # <<>> /\ m[1] = "cwipe"
  BY <1>1, <1>2, <1>e
<1>3. \A i \in 1 .. 1 : i = 1
  OBVIOUS
<1>4. \A i \in 1 .. Len(m) : m[i] \in {"cwipe"}
  BY <1>1, <1>3
<1>5. \A op : Has(m, op) <=> op \in {"cwipe"}
  BY <1>1, <1>4 DEF Has
<1>6. InOrder(m)
  BY <1>1, <1>3, Order DEF InOrder, Inserted, Working, Handling
<1>7. CaughtTrip(m) /\ TripsBeforeClosed(m)
  BY <1>1, <1>3 DEF CaughtTrip, TripsBeforeClosed
<1>8. Pushable("wipe", m)
  BY <1>1, <1>4, <1>5, <1>7 DEF Pushable, Inserted
<1>9. \A b : "wipe" \in MayPrecede(b) => \A i \in 1 .. Len(m) : m[i] \in MayPrecede(b)
  BY <1>4, Replacement
<1> QED
  BY <1>0, <1>5, <1>6, <1>8, <1>9 DEF m

\* The list of a revocation that is claimed
LEMMA CRevokeList ==
    /\ <<"xrevoke">> \in Seq(Operations) /\ <<"xrevoke">> # <<>> /\ <<"xrevoke">>[1] = "xrevoke"
    /\ \A op : Has(<<"xrevoke">>, op) <=> op \in {"xrevoke"}
    /\ InOrder(<<"xrevoke">>)
    /\ Pushable("crevoke", <<"xrevoke">>)
    /\ \A b : "crevoke" \in MayPrecede(b) => \A i \in 1 .. Len(<<"xrevoke">>) : <<"xrevoke">>[i] \in MayPrecede(b)
<1> DEFINE m == <<"xrevoke">>
<1>1. Len(m) = 1 /\ m[1] = "xrevoke"
  OBVIOUS
<1>2. m \in Seq(Operations)
  <2>1. m \in Seq({"xrevoke"}) /\ {"xrevoke"} \subseteq Operations
    BY DEF Operations
  <2> QED
    BY <2>1, SeqMonotonic
<1> HIDE DEF m
<1>e. m # <<>>
  BY <1>1
<1>0. m \in Seq(Operations) /\ m # <<>> /\ m[1] = "xrevoke"
  BY <1>1, <1>2, <1>e
<1>3. \A i \in 1 .. 1 : i = 1
  OBVIOUS
<1>4. \A i \in 1 .. Len(m) : m[i] \in {"xrevoke"}
  BY <1>1, <1>3
<1>5. \A op : Has(m, op) <=> op \in {"xrevoke"}
  BY <1>1, <1>4 DEF Has
<1>6. InOrder(m)
  BY <1>1, <1>3, Order DEF InOrder, Inserted, Working, Handling
<1>7. CaughtTrip(m) /\ TripsBeforeClosed(m)
  BY <1>1, <1>3 DEF CaughtTrip, TripsBeforeClosed
<1>8. Pushable("crevoke", m)
  BY <1>1, <1>4, <1>5, <1>7 DEF Pushable, Inserted
<1>9. \A b : "crevoke" \in MayPrecede(b) => \A i \in 1 .. Len(m) : m[i] \in MayPrecede(b)
  BY <1>4, Replacement
<1> QED
  BY <1>0, <1>5, <1>6, <1>8, <1>9 DEF m

\* The list of a wipe that is claimed
LEMMA CWipeList ==
    /\ <<"xwipe">> \in Seq(Operations) /\ <<"xwipe">> # <<>> /\ <<"xwipe">>[1] = "xwipe"
    /\ \A op : Has(<<"xwipe">>, op) <=> op \in {"xwipe"}
    /\ InOrder(<<"xwipe">>)
    /\ Pushable("cwipe", <<"xwipe">>)
    /\ \A b : "cwipe" \in MayPrecede(b) => \A i \in 1 .. Len(<<"xwipe">>) : <<"xwipe">>[i] \in MayPrecede(b)
<1> DEFINE m == <<"xwipe">>
<1>1. Len(m) = 1 /\ m[1] = "xwipe"
  OBVIOUS
<1>2. m \in Seq(Operations)
  <2>1. m \in Seq({"xwipe"}) /\ {"xwipe"} \subseteq Operations
    BY DEF Operations
  <2> QED
    BY <2>1, SeqMonotonic
<1> HIDE DEF m
<1>e. m # <<>>
  BY <1>1
<1>0. m \in Seq(Operations) /\ m # <<>> /\ m[1] = "xwipe"
  BY <1>1, <1>2, <1>e
<1>3. \A i \in 1 .. 1 : i = 1
  OBVIOUS
<1>4. \A i \in 1 .. Len(m) : m[i] \in {"xwipe"}
  BY <1>1, <1>3
<1>5. \A op : Has(m, op) <=> op \in {"xwipe"}
  BY <1>1, <1>4 DEF Has
<1>6. InOrder(m)
  BY <1>1, <1>3, Order DEF InOrder, Inserted, Working, Handling
<1>7. CaughtTrip(m) /\ TripsBeforeClosed(m)
  BY <1>1, <1>3 DEF CaughtTrip, TripsBeforeClosed
<1>8. Pushable("cwipe", m)
  BY <1>1, <1>4, <1>5, <1>7 DEF Pushable, Inserted
<1>9. \A b : "cwipe" \in MayPrecede(b) => \A i \in 1 .. Len(m) : m[i] \in MayPrecede(b)
  BY <1>4, Replacement
<1> QED
  BY <1>0, <1>5, <1>6, <1>8, <1>9 DEF m

\* The lists that are assigned as a whole
LEMMA NoCleanup ==
    /\ <<"noctrl", "nostate", "end">> \in Seq(Operations) /\ <<"noctrl", "nostate", "end">> # <<>> /\ <<"noctrl", "nostate", "end">>[1] = "noctrl"
    /\ \A op : Has(<<"noctrl", "nostate", "end">>, op) <=> op \in {"noctrl", "nostate", "end"}
    /\ InOrder(<<"noctrl", "nostate", "end">>)
    /\ Caught(<<"noctrl", "nostate", "end">>)
    /\ Precedes(<<"noctrl", "nostate", "end">>, "trip", "closed")
    /\ Precedes(<<"noctrl", "nostate", "end">>, "failure", "bclose")
<1> DEFINE m == <<"noctrl", "nostate", "end">>
<1>0. m \in Seq(Operations)
  <2>1. <<"noctrl", "nostate", "end">> \in Seq(Operations)
    <3>1. <<"noctrl", "nostate", "end">> \in Seq({"noctrl", "nostate", "end"})
      OBVIOUS
    <3>2. {"noctrl", "nostate", "end"} \subseteq Operations
      BY DEF Operations
    <3> QED
      BY <3>1, <3>2, SeqMonotonic
  <2> QED
    BY <2>1
<1>1. Len(m) = 3
  OBVIOUS
<1>2. m[1] = "noctrl" /\ m[2] = "nostate" /\ m[3] = "end"
  OBVIOUS
<1> HIDE DEF m
<1>3. m # <<>>
  BY <1>1
<1>4. \A i \in 1 .. 3 : i = 1 \/ i = 2 \/ i = 3
  OBVIOUS
<1>5. \A i \in 1 .. Len(m) : m[i] \in {"noctrl", "nostate", "end"}
  BY <1>1, <1>2, <1>4
<1>6. \A op : Has(m, op) <=> op \in {"noctrl", "nostate", "end"}
  BY <1>1, <1>2, <1>5 DEF Has
<1>7. InOrder(m)
  <2>1. \A i \in 1 .. Len(m) : i < 1 => m[i] \in MayPrecede(m[1])
    BY <1>1
  <2>2. \A i \in 1 .. Len(m) : i < 2 => m[i] \in MayPrecede(m[2])
    <3>1. \A i \in 1 .. Len(m) : i < 2 => m[i] \in {"noctrl"}
      BY <1>1, <1>2, <1>4
    <3>2. {"noctrl"} \subseteq MayPrecede("nostate")
      BY Order DEF Inserted, Working, Handling
    <3> QED
      BY <3>1, <3>2, <1>2
  <2>3. \A i \in 1 .. Len(m) : i < 3 => m[i] \in MayPrecede(m[3])
    <3>1. \A i \in 1 .. Len(m) : i < 3 => m[i] \in {"noctrl", "nostate"}
      BY <1>1, <1>2, <1>4
    <3>2. {"noctrl", "nostate"} \subseteq MayPrecede("end")
      BY Order DEF Inserted, Working, Handling
    <3> QED
      BY <3>1, <3>2, <1>2
  <2> QED
    BY <1>1, <1>4, <2>1, <2>2, <2>3 DEF InOrder
<1>8. \A j \in 1 .. Len(m) : m[j] # "leftover"
  BY <1>5
<1>9. \A j \in 1 .. Len(m) : m[j] # "fallback"
  BY <1>5
<1>10. \A j \in 1 .. Len(m) : m[j] # "trip"
  BY <1>5
<1>11. \A j \in 1 .. Len(m) : m[j] # "bclose"
  BY <1>5
<1>12. \A j \in 1 .. Len(m) : m[j] # "failure"
  BY <1>5
<1>13. \A j \in 1 .. Len(m) : m[j] # "closed"
  BY <1>5
<1>14. \A j \in 1 .. Len(m) : m[j] # "settle"
  BY <1>5
<1>15. \A j \in 1 .. Len(m) : m[j] # "launch"
  BY <1>5
<1>16. \A j \in 1 .. Len(m) : m[j] # "prepare"
  BY <1>5
<1>17. CaughtLeftover(m)
  BY <1>8 DEF CaughtLeftover
<1>18. CaughtFallback(m)
  BY <1>9 DEF CaughtFallback
<1>19. CaughtTrip(m)
  BY <1>10 DEF CaughtTrip
<1>20. CloseAfterHandler(m)
  BY <1>11, <1>12 DEF CloseAfterHandler
<1>21. TripsBeforeClosed(m)
  BY <1>13, <1>2, <1>1, <1>4 DEF TripsBeforeClosed
<1>22. Followed(m, "settle", "leftover")
  BY <1>14, <1>1, <1>2 DEF Followed
<1>23. Followed(m, "launch", "settle")
  BY <1>15, <1>1, <1>2 DEF Followed
<1>24. Followed(m, "launch", "fallback")
  BY <1>15, <1>1, <1>2 DEF Followed
<1>25. Followed(m, "prepare", "launch")
  BY <1>16, <1>1, <1>2 DEF Followed
<1>26. Caught(m)
  BY <1>17, <1>18, <1>19, <1>20, <1>21, <1>22, <1>23, <1>24, <1>25 DEF Caught
<1>27. Precedes(m, "failure", "bclose")
  BY <1>11, <1>1, <1>2 DEF Precedes
<1>28. Precedes(m, "trip", "closed")
  BY <1>13, <1>1, <1>2 DEF Precedes
<1> QED
  BY <1>0, <1>3, <1>2, <1>6, <1>7, <1>26, <1>27, <1>28 DEF m

\* The list of a run whose process could not be created
LEMMA Abandoned0 ==
    /\ (WithoutWorker \o AdapterTail) \in Seq(Operations) /\ (WithoutWorker \o AdapterTail) # <<>> /\ (WithoutWorker \o AdapterTail)[1] = "crevoke"
    /\ \A op : Has((WithoutWorker \o AdapterTail), op) <=> op \in {"crevoke", "catch", "cwipe", "settle", "leftover", "noctrl", "nostate", "end"}
    /\ InOrder((WithoutWorker \o AdapterTail))
    /\ Caught((WithoutWorker \o AdapterTail))
    /\ Precedes((WithoutWorker \o AdapterTail), "trip", "closed")
    /\ Precedes((WithoutWorker \o AdapterTail), "failure", "bclose")
<1> DEFINE m == (WithoutWorker \o AdapterTail)
<1>0. m \in Seq(Operations)
  <2>1. <<"crevoke", "catch", "cwipe", "catch">> \in Seq(Operations)
    <3>1. <<"crevoke", "catch", "cwipe", "catch">> \in Seq({"crevoke", "catch", "cwipe"})
      OBVIOUS
    <3>2. {"crevoke", "catch", "cwipe"} \subseteq Operations
      BY DEF Operations
    <3> QED
      BY <3>1, <3>2, SeqMonotonic
  <2>2. <<"settle", "catch", "leftover", "noctrl", "nostate", "end">> \in Seq(Operations)
    <3>1. <<"settle", "catch", "leftover", "noctrl", "nostate", "end">> \in Seq({"settle", "catch", "leftover", "noctrl", "nostate", "end"})
      OBVIOUS
    <3>2. {"settle", "catch", "leftover", "noctrl", "nostate", "end"} \subseteq Operations
      BY DEF Operations
    <3> QED
      BY <3>1, <3>2, SeqMonotonic
  <2>3. (<<"crevoke", "catch", "cwipe", "catch">>) \o <<"settle", "catch", "leftover", "noctrl", "nostate", "end">> \in Seq(Operations)
    BY <2>1, <2>2, ConcatProperties
  <2> QED
    BY <2>3 DEF WithoutWorker, AdapterTail
<1>1. Len(m) = 10
  BY DEF WithoutWorker, AdapterTail
<1>2. m[1] = "crevoke" /\ m[2] = "catch" /\ m[3] = "cwipe" /\ m[4] = "catch" /\ m[5] = "settle" /\ m[6] = "catch"
  BY DEF WithoutWorker, AdapterTail
<1>3. m[7] = "leftover" /\ m[8] = "noctrl" /\ m[9] = "nostate" /\ m[10] = "end"
  BY DEF WithoutWorker, AdapterTail
<1> HIDE DEF m
<1>4. m # <<>>
  BY <1>1
<1>5. \A i \in 1 .. 10 : i = 1 \/ i = 2 \/ i = 3 \/ i = 4 \/ i = 5 \/ i = 6 \/ i = 7 \/ i = 8 \/ i = 9 \/ i = 10
  OBVIOUS
<1>6. \A i \in 1 .. Len(m) : m[i] \in {"crevoke", "catch", "cwipe", "settle", "leftover", "noctrl", "nostate", "end"}
  BY <1>1, <1>2, <1>3, <1>5
<1>7. \A op : Has(m, op) <=> op \in {"crevoke", "catch", "cwipe", "settle", "leftover", "noctrl", "nostate", "end"}
  BY <1>1, <1>2, <1>3, <1>6 DEF Has
<1>8. InOrder(m)
  <2>1. \A i \in 1 .. Len(m) : i < 1 => m[i] \in MayPrecede(m[1])
    BY <1>1
  <2>2. \A i \in 1 .. Len(m) : i < 2 => m[i] \in MayPrecede(m[2])
    <3>1. \A i \in 1 .. Len(m) : i < 2 => m[i] \in {"crevoke"}
      BY <1>1, <1>2, <1>3, <1>5
    <3>2. {"crevoke"} \subseteq MayPrecede("catch")
      BY Order DEF Inserted, Working, Handling
    <3> QED
      BY <3>1, <3>2, <1>2
  <2>3. \A i \in 1 .. Len(m) : i < 3 => m[i] \in MayPrecede(m[3])
    <3>1. \A i \in 1 .. Len(m) : i < 3 => m[i] \in {"crevoke", "catch"}
      BY <1>1, <1>2, <1>3, <1>5
    <3>2. {"crevoke", "catch"} \subseteq MayPrecede("cwipe")
      BY Order DEF Inserted, Working, Handling
    <3> QED
      BY <3>1, <3>2, <1>2
  <2>4. \A i \in 1 .. Len(m) : i < 4 => m[i] \in MayPrecede(m[4])
    <3>1. \A i \in 1 .. Len(m) : i < 4 => m[i] \in {"crevoke", "catch", "cwipe"}
      BY <1>1, <1>2, <1>3, <1>5
    <3>2. {"crevoke", "catch", "cwipe"} \subseteq MayPrecede("catch")
      BY Order DEF Inserted, Working, Handling
    <3> QED
      BY <3>1, <3>2, <1>2
  <2>5. \A i \in 1 .. Len(m) : i < 5 => m[i] \in MayPrecede(m[5])
    <3>1. \A i \in 1 .. Len(m) : i < 5 => m[i] \in {"crevoke", "catch", "cwipe"}
      BY <1>1, <1>2, <1>3, <1>5
    <3>2. {"crevoke", "catch", "cwipe"} \subseteq MayPrecede("settle")
      BY Order DEF Inserted, Working, Handling
    <3> QED
      BY <3>1, <3>2, <1>2
  <2>6. \A i \in 1 .. Len(m) : i < 6 => m[i] \in MayPrecede(m[6])
    <3>1. \A i \in 1 .. Len(m) : i < 6 => m[i] \in {"crevoke", "catch", "cwipe", "settle"}
      BY <1>1, <1>2, <1>3, <1>5
    <3>2. {"crevoke", "catch", "cwipe", "settle"} \subseteq MayPrecede("catch")
      BY Order DEF Inserted, Working, Handling
    <3> QED
      BY <3>1, <3>2, <1>2
  <2>7. \A i \in 1 .. Len(m) : i < 7 => m[i] \in MayPrecede(m[7])
    <3>1. \A i \in 1 .. Len(m) : i < 7 => m[i] \in {"crevoke", "catch", "cwipe", "settle"}
      BY <1>1, <1>2, <1>3, <1>5
    <3>2. {"crevoke", "catch", "cwipe", "settle"} \subseteq MayPrecede("leftover")
      BY Order DEF Inserted, Working, Handling
    <3> QED
      BY <3>1, <3>2, <1>3
  <2>8. \A i \in 1 .. Len(m) : i < 8 => m[i] \in MayPrecede(m[8])
    <3>1. \A i \in 1 .. Len(m) : i < 8 => m[i] \in {"crevoke", "catch", "cwipe", "settle", "leftover"}
      BY <1>1, <1>2, <1>3, <1>5
    <3>2. {"crevoke", "catch", "cwipe", "settle", "leftover"} \subseteq MayPrecede("noctrl")
      BY Order DEF Inserted, Working, Handling
    <3> QED
      BY <3>1, <3>2, <1>3
  <2>9. \A i \in 1 .. Len(m) : i < 9 => m[i] \in MayPrecede(m[9])
    <3>1. \A i \in 1 .. Len(m) : i < 9 => m[i] \in {"crevoke", "catch", "cwipe", "settle", "leftover", "noctrl"}
      BY <1>1, <1>2, <1>3, <1>5
    <3>2. {"crevoke", "catch", "cwipe", "settle", "leftover", "noctrl"} \subseteq MayPrecede("nostate")
      BY Order DEF Inserted, Working, Handling
    <3> QED
      BY <3>1, <3>2, <1>3
  <2>10. \A i \in 1 .. Len(m) : i < 10 => m[i] \in MayPrecede(m[10])
    <3>1. \A i \in 1 .. Len(m) : i < 10 => m[i] \in {"crevoke", "catch", "cwipe", "settle", "leftover", "noctrl", "nostate"}
      BY <1>1, <1>2, <1>3, <1>5
    <3>2. {"crevoke", "catch", "cwipe", "settle", "leftover", "noctrl", "nostate"} \subseteq MayPrecede("end")
      BY Order DEF Inserted, Working, Handling
    <3> QED
      BY <3>1, <3>2, <1>3
  <2> QED
    BY <1>1, <1>5, <2>1, <2>2, <2>3, <2>4, <2>5, <2>6, <2>7, <2>8, <2>9, <2>10 DEF InOrder
<1>9. \A j \in 1 .. Len(m) : m[j] = "leftover" => j = 7
  BY <1>1, <1>2, <1>3, <1>5
<1>10. \A j \in 1 .. Len(m) : m[j] # "fallback"
  BY <1>6
<1>11. \A j \in 1 .. Len(m) : m[j] # "trip"
  BY <1>6
<1>12. \A j \in 1 .. Len(m) : m[j] # "bclose"
  BY <1>6
<1>13. \A j \in 1 .. Len(m) : m[j] # "failure"
  BY <1>6
<1>14. \A j \in 1 .. Len(m) : m[j] # "closed"
  BY <1>6
<1>15. \A j \in 1 .. Len(m) : m[j] = "settle" => j = 5
  BY <1>1, <1>2, <1>3, <1>5
<1>16. \A j \in 1 .. Len(m) : m[j] # "launch"
  BY <1>6
<1>17. \A j \in 1 .. Len(m) : m[j] # "prepare"
  BY <1>6
<1>18. CaughtLeftover(m)
  <2>1. \A i \in 1 .. Len(m) : i < 7 => i <= 6 /\ 6 \in 1 .. Len(m) /\ m[6] = "catch"
    BY <1>1, <1>2, <1>3
  <2> QED
    BY <2>1, <1>9, <1>1 DEF CaughtLeftover, CaughtBetween
<1>19. CaughtFallback(m)
  BY <1>10 DEF CaughtFallback
<1>20. CaughtTrip(m)
  BY <1>11 DEF CaughtTrip
<1>21. CloseAfterHandler(m)
  BY <1>12, <1>13 DEF CloseAfterHandler
<1>22. TripsBeforeClosed(m)
  BY <1>14, <1>2, <1>3, <1>1, <1>5 DEF TripsBeforeClosed
<1>23. Followed(m, "settle", "leftover")
  BY <1>15, <1>1, <1>2, <1>3 DEF Followed
<1>24. Followed(m, "launch", "settle")
  BY <1>16, <1>1, <1>2, <1>3 DEF Followed
<1>25. Followed(m, "launch", "fallback")
  BY <1>16, <1>1, <1>2, <1>3 DEF Followed
<1>26. Followed(m, "prepare", "launch")
  BY <1>17, <1>1, <1>2, <1>3 DEF Followed
<1>27. Caught(m)
  BY <1>18, <1>19, <1>20, <1>21, <1>22, <1>23, <1>24, <1>25, <1>26 DEF Caught
<1>28. Precedes(m, "failure", "bclose")
  BY <1>12, <1>1, <1>2, <1>3 DEF Precedes
<1>29. Precedes(m, "trip", "closed")
  BY <1>14, <1>1, <1>2, <1>3 DEF Precedes
<1> QED
  BY <1>0, <1>4, <1>2, <1>7, <1>8, <1>27, <1>28, <1>29 DEF m

\* The list of a run whose process could not be configured
LEMMA Abandoned1 ==
    /\ (<<"kill", "catch">> \o WithoutWorker \o AdapterTail) \in Seq(Operations) /\ (<<"kill", "catch">> \o WithoutWorker \o AdapterTail) # <<>> /\ (<<"kill", "catch">> \o WithoutWorker \o AdapterTail)[1] = "kill"
    /\ \A op : Has((<<"kill", "catch">> \o WithoutWorker \o AdapterTail), op) <=> op \in {"kill", "catch", "crevoke", "cwipe", "settle", "leftover", "noctrl", "nostate", "end"}
    /\ InOrder((<<"kill", "catch">> \o WithoutWorker \o AdapterTail))
    /\ Caught((<<"kill", "catch">> \o WithoutWorker \o AdapterTail))
    /\ Precedes((<<"kill", "catch">> \o WithoutWorker \o AdapterTail), "trip", "closed")
    /\ Precedes((<<"kill", "catch">> \o WithoutWorker \o AdapterTail), "failure", "bclose")
<1> DEFINE m == (<<"kill", "catch">> \o WithoutWorker \o AdapterTail)
<1>0. m \in Seq(Operations)
  <2>1. <<"kill", "catch">> \in Seq(Operations)
    <3>1. <<"kill", "catch">> \in Seq({"kill", "catch"})
      OBVIOUS
    <3>2. {"kill", "catch"} \subseteq Operations
      BY DEF Operations
    <3> QED
      BY <3>1, <3>2, SeqMonotonic
  <2>2. <<"crevoke", "catch", "cwipe", "catch">> \in Seq(Operations)
    <3>1. <<"crevoke", "catch", "cwipe", "catch">> \in Seq({"crevoke", "catch", "cwipe"})
      OBVIOUS
    <3>2. {"crevoke", "catch", "cwipe"} \subseteq Operations
      BY DEF Operations
    <3> QED
      BY <3>1, <3>2, SeqMonotonic
  <2>3. <<"settle", "catch", "leftover", "noctrl", "nostate", "end">> \in Seq(Operations)
    <3>1. <<"settle", "catch", "leftover", "noctrl", "nostate", "end">> \in Seq({"settle", "catch", "leftover", "noctrl", "nostate", "end"})
      OBVIOUS
    <3>2. {"settle", "catch", "leftover", "noctrl", "nostate", "end"} \subseteq Operations
      BY DEF Operations
    <3> QED
      BY <3>1, <3>2, SeqMonotonic
  <2>4. (<<"kill", "catch">>) \o <<"crevoke", "catch", "cwipe", "catch">> \in Seq(Operations)
    BY <2>1, <2>2, ConcatProperties
  <2>5. ((<<"kill", "catch">>) \o <<"crevoke", "catch", "cwipe", "catch">>) \o <<"settle", "catch", "leftover", "noctrl", "nostate", "end">> \in Seq(Operations)
    BY <2>4, <2>3, ConcatProperties
  <2> QED
    BY <2>5 DEF WithoutWorker, AdapterTail
<1>1. Len(m) = 12
  BY DEF WithoutWorker, AdapterTail
<1>2. m[1] = "kill" /\ m[2] = "catch" /\ m[3] = "crevoke" /\ m[4] = "catch" /\ m[5] = "cwipe" /\ m[6] = "catch"
  BY DEF WithoutWorker, AdapterTail
<1>3. m[7] = "settle" /\ m[8] = "catch" /\ m[9] = "leftover" /\ m[10] = "noctrl" /\ m[11] = "nostate" /\ m[12] = "end"
  BY DEF WithoutWorker, AdapterTail
<1> HIDE DEF m
<1>4. m # <<>>
  BY <1>1
<1>5. \A i \in 1 .. 12 : i = 1 \/ i = 2 \/ i = 3 \/ i = 4 \/ i = 5 \/ i = 6 \/ i = 7 \/ i = 8 \/ i = 9 \/ i = 10 \/ i = 11 \/ i = 12
  OBVIOUS
<1>6. \A i \in 1 .. Len(m) : m[i] \in {"kill", "catch", "crevoke", "cwipe", "settle", "leftover", "noctrl", "nostate", "end"}
  BY <1>1, <1>2, <1>3, <1>5
<1>7. \A op : Has(m, op) <=> op \in {"kill", "catch", "crevoke", "cwipe", "settle", "leftover", "noctrl", "nostate", "end"}
  BY <1>1, <1>2, <1>3, <1>6 DEF Has
<1>8. InOrder(m)
  <2>1. \A i \in 1 .. Len(m) : i < 1 => m[i] \in MayPrecede(m[1])
    BY <1>1
  <2>2. \A i \in 1 .. Len(m) : i < 2 => m[i] \in MayPrecede(m[2])
    <3>1. \A i \in 1 .. Len(m) : i < 2 => m[i] \in {"kill"}
      BY <1>1, <1>2, <1>3, <1>5
    <3>2. {"kill"} \subseteq MayPrecede("catch")
      BY Order DEF Inserted, Working, Handling
    <3> QED
      BY <3>1, <3>2, <1>2
  <2>3. \A i \in 1 .. Len(m) : i < 3 => m[i] \in MayPrecede(m[3])
    <3>1. \A i \in 1 .. Len(m) : i < 3 => m[i] \in {"kill", "catch"}
      BY <1>1, <1>2, <1>3, <1>5
    <3>2. {"kill", "catch"} \subseteq MayPrecede("crevoke")
      BY Order DEF Inserted, Working, Handling
    <3> QED
      BY <3>1, <3>2, <1>2
  <2>4. \A i \in 1 .. Len(m) : i < 4 => m[i] \in MayPrecede(m[4])
    <3>1. \A i \in 1 .. Len(m) : i < 4 => m[i] \in {"kill", "catch", "crevoke"}
      BY <1>1, <1>2, <1>3, <1>5
    <3>2. {"kill", "catch", "crevoke"} \subseteq MayPrecede("catch")
      BY Order DEF Inserted, Working, Handling
    <3> QED
      BY <3>1, <3>2, <1>2
  <2>5. \A i \in 1 .. Len(m) : i < 5 => m[i] \in MayPrecede(m[5])
    <3>1. \A i \in 1 .. Len(m) : i < 5 => m[i] \in {"kill", "catch", "crevoke"}
      BY <1>1, <1>2, <1>3, <1>5
    <3>2. {"kill", "catch", "crevoke"} \subseteq MayPrecede("cwipe")
      BY Order DEF Inserted, Working, Handling
    <3> QED
      BY <3>1, <3>2, <1>2
  <2>6. \A i \in 1 .. Len(m) : i < 6 => m[i] \in MayPrecede(m[6])
    <3>1. \A i \in 1 .. Len(m) : i < 6 => m[i] \in {"kill", "catch", "crevoke", "cwipe"}
      BY <1>1, <1>2, <1>3, <1>5
    <3>2. {"kill", "catch", "crevoke", "cwipe"} \subseteq MayPrecede("catch")
      BY Order DEF Inserted, Working, Handling
    <3> QED
      BY <3>1, <3>2, <1>2
  <2>7. \A i \in 1 .. Len(m) : i < 7 => m[i] \in MayPrecede(m[7])
    <3>1. \A i \in 1 .. Len(m) : i < 7 => m[i] \in {"kill", "catch", "crevoke", "cwipe"}
      BY <1>1, <1>2, <1>3, <1>5
    <3>2. {"kill", "catch", "crevoke", "cwipe"} \subseteq MayPrecede("settle")
      BY Order DEF Inserted, Working, Handling
    <3> QED
      BY <3>1, <3>2, <1>3
  <2>8. \A i \in 1 .. Len(m) : i < 8 => m[i] \in MayPrecede(m[8])
    <3>1. \A i \in 1 .. Len(m) : i < 8 => m[i] \in {"kill", "catch", "crevoke", "cwipe", "settle"}
      BY <1>1, <1>2, <1>3, <1>5
    <3>2. {"kill", "catch", "crevoke", "cwipe", "settle"} \subseteq MayPrecede("catch")
      BY Order DEF Inserted, Working, Handling
    <3> QED
      BY <3>1, <3>2, <1>3
  <2>9. \A i \in 1 .. Len(m) : i < 9 => m[i] \in MayPrecede(m[9])
    <3>1. \A i \in 1 .. Len(m) : i < 9 => m[i] \in {"kill", "catch", "crevoke", "cwipe", "settle"}
      BY <1>1, <1>2, <1>3, <1>5
    <3>2. {"kill", "catch", "crevoke", "cwipe", "settle"} \subseteq MayPrecede("leftover")
      BY Order DEF Inserted, Working, Handling
    <3> QED
      BY <3>1, <3>2, <1>3
  <2>10. \A i \in 1 .. Len(m) : i < 10 => m[i] \in MayPrecede(m[10])
    <3>1. \A i \in 1 .. Len(m) : i < 10 => m[i] \in {"kill", "catch", "crevoke", "cwipe", "settle", "leftover"}
      BY <1>1, <1>2, <1>3, <1>5
    <3>2. {"kill", "catch", "crevoke", "cwipe", "settle", "leftover"} \subseteq MayPrecede("noctrl")
      BY Order DEF Inserted, Working, Handling
    <3> QED
      BY <3>1, <3>2, <1>3
  <2>11. \A i \in 1 .. Len(m) : i < 11 => m[i] \in MayPrecede(m[11])
    <3>1. \A i \in 1 .. Len(m) : i < 11 => m[i] \in {"kill", "catch", "crevoke", "cwipe", "settle", "leftover", "noctrl"}
      BY <1>1, <1>2, <1>3, <1>5
    <3>2. {"kill", "catch", "crevoke", "cwipe", "settle", "leftover", "noctrl"} \subseteq MayPrecede("nostate")
      BY Order DEF Inserted, Working, Handling
    <3> QED
      BY <3>1, <3>2, <1>3
  <2>12. \A i \in 1 .. Len(m) : i < 12 => m[i] \in MayPrecede(m[12])
    <3>1. \A i \in 1 .. Len(m) : i < 12 => m[i] \in {"kill", "catch", "crevoke", "cwipe", "settle", "leftover", "noctrl", "nostate"}
      BY <1>1, <1>2, <1>3, <1>5
    <3>2. {"kill", "catch", "crevoke", "cwipe", "settle", "leftover", "noctrl", "nostate"} \subseteq MayPrecede("end")
      BY Order DEF Inserted, Working, Handling
    <3> QED
      BY <3>1, <3>2, <1>3
  <2> QED
    BY <1>1, <1>5, <2>1, <2>2, <2>3, <2>4, <2>5, <2>6, <2>7, <2>8, <2>9, <2>10, <2>11, <2>12 DEF InOrder
<1>9. \A j \in 1 .. Len(m) : m[j] = "leftover" => j = 9
  BY <1>1, <1>2, <1>3, <1>5
<1>10. \A j \in 1 .. Len(m) : m[j] # "fallback"
  BY <1>6
<1>11. \A j \in 1 .. Len(m) : m[j] # "trip"
  BY <1>6
<1>12. \A j \in 1 .. Len(m) : m[j] # "bclose"
  BY <1>6
<1>13. \A j \in 1 .. Len(m) : m[j] # "failure"
  BY <1>6
<1>14. \A j \in 1 .. Len(m) : m[j] # "closed"
  BY <1>6
<1>15. \A j \in 1 .. Len(m) : m[j] = "settle" => j = 7
  BY <1>1, <1>2, <1>3, <1>5
<1>16. \A j \in 1 .. Len(m) : m[j] # "launch"
  BY <1>6
<1>17. \A j \in 1 .. Len(m) : m[j] # "prepare"
  BY <1>6
<1>18. CaughtLeftover(m)
  <2>1. \A i \in 1 .. Len(m) : i < 9 => i <= 8 /\ 8 \in 1 .. Len(m) /\ m[8] = "catch"
    BY <1>1, <1>2, <1>3
  <2> QED
    BY <2>1, <1>9, <1>1 DEF CaughtLeftover, CaughtBetween
<1>19. CaughtFallback(m)
  BY <1>10 DEF CaughtFallback
<1>20. CaughtTrip(m)
  BY <1>11 DEF CaughtTrip
<1>21. CloseAfterHandler(m)
  BY <1>12, <1>13 DEF CloseAfterHandler
<1>22. TripsBeforeClosed(m)
  BY <1>14, <1>2, <1>3, <1>1, <1>5 DEF TripsBeforeClosed
<1>23. Followed(m, "settle", "leftover")
  BY <1>15, <1>1, <1>2, <1>3 DEF Followed
<1>24. Followed(m, "launch", "settle")
  BY <1>16, <1>1, <1>2, <1>3 DEF Followed
<1>25. Followed(m, "launch", "fallback")
  BY <1>16, <1>1, <1>2, <1>3 DEF Followed
<1>26. Followed(m, "prepare", "launch")
  BY <1>17, <1>1, <1>2, <1>3 DEF Followed
<1>27. Caught(m)
  BY <1>18, <1>19, <1>20, <1>21, <1>22, <1>23, <1>24, <1>25, <1>26 DEF Caught
<1>28. Precedes(m, "failure", "bclose")
  BY <1>12, <1>1, <1>2, <1>3 DEF Precedes
<1>29. Precedes(m, "trip", "closed")
  BY <1>14, <1>1, <1>2, <1>3 DEF Precedes
<1> QED
  BY <1>0, <1>4, <1>2, <1>7, <1>8, <1>27, <1>28, <1>29 DEF m

\* The list of a run whose broker could not be opened
LEMMA Abandoned2 ==
    /\ (LifecycleStop \o <<"catch">> \o WithoutWorker \o AdapterTail) \in Seq(Operations) /\ (LifecycleStop \o <<"catch">> \o WithoutWorker \o AdapterTail) # <<>> /\ (LifecycleStop \o <<"catch">> \o WithoutWorker \o AdapterTail)[1] = "trip"
    /\ \A op : Has((LifecycleStop \o <<"catch">> \o WithoutWorker \o AdapterTail), op) <=> op \in {"trip", "closed", "catch", "crevoke", "cwipe", "settle", "leftover", "noctrl", "nostate", "end"}
    /\ InOrder((LifecycleStop \o <<"catch">> \o WithoutWorker \o AdapterTail))
    /\ Caught((LifecycleStop \o <<"catch">> \o WithoutWorker \o AdapterTail))
    /\ Precedes((LifecycleStop \o <<"catch">> \o WithoutWorker \o AdapterTail), "trip", "closed")
    /\ Precedes((LifecycleStop \o <<"catch">> \o WithoutWorker \o AdapterTail), "failure", "bclose")
<1> DEFINE m == (LifecycleStop \o <<"catch">> \o WithoutWorker \o AdapterTail)
<1>0. m \in Seq(Operations)
  <2>1. <<"trip", "closed">> \in Seq(Operations)
    <3>1. <<"trip", "closed">> \in Seq({"trip", "closed"})
      OBVIOUS
    <3>2. {"trip", "closed"} \subseteq Operations
      BY DEF Operations
    <3> QED
      BY <3>1, <3>2, SeqMonotonic
  <2>2. <<"catch">> \in Seq(Operations)
    <3>1. <<"catch">> \in Seq({"catch"})
      OBVIOUS
    <3>2. {"catch"} \subseteq Operations
      BY DEF Operations
    <3> QED
      BY <3>1, <3>2, SeqMonotonic
  <2>3. <<"crevoke", "catch", "cwipe", "catch">> \in Seq(Operations)
    <3>1. <<"crevoke", "catch", "cwipe", "catch">> \in Seq({"crevoke", "catch", "cwipe"})
      OBVIOUS
    <3>2. {"crevoke", "catch", "cwipe"} \subseteq Operations
      BY DEF Operations
    <3> QED
      BY <3>1, <3>2, SeqMonotonic
  <2>4. <<"settle", "catch", "leftover", "noctrl", "nostate", "end">> \in Seq(Operations)
    <3>1. <<"settle", "catch", "leftover", "noctrl", "nostate", "end">> \in Seq({"settle", "catch", "leftover", "noctrl", "nostate", "end"})
      OBVIOUS
    <3>2. {"settle", "catch", "leftover", "noctrl", "nostate", "end"} \subseteq Operations
      BY DEF Operations
    <3> QED
      BY <3>1, <3>2, SeqMonotonic
  <2>5. (<<"trip", "closed">>) \o <<"catch">> \in Seq(Operations)
    BY <2>1, <2>2, ConcatProperties
  <2>6. ((<<"trip", "closed">>) \o <<"catch">>) \o <<"crevoke", "catch", "cwipe", "catch">> \in Seq(Operations)
    BY <2>5, <2>3, ConcatProperties
  <2>7. (((<<"trip", "closed">>) \o <<"catch">>) \o <<"crevoke", "catch", "cwipe", "catch">>) \o <<"settle", "catch", "leftover", "noctrl", "nostate", "end">> \in Seq(Operations)
    BY <2>6, <2>4, ConcatProperties
  <2> QED
    BY <2>7 DEF WithoutWorker, AdapterTail, LifecycleStop
<1>1. Len(m) = 13
  BY DEF WithoutWorker, AdapterTail, LifecycleStop
<1>2. m[1] = "trip" /\ m[2] = "closed" /\ m[3] = "catch" /\ m[4] = "crevoke" /\ m[5] = "catch" /\ m[6] = "cwipe"
  BY DEF WithoutWorker, AdapterTail, LifecycleStop
<1>3. m[7] = "catch" /\ m[8] = "settle" /\ m[9] = "catch" /\ m[10] = "leftover" /\ m[11] = "noctrl" /\ m[12] = "nostate"
  BY DEF WithoutWorker, AdapterTail, LifecycleStop
<1>4. m[13] = "end"
  BY DEF WithoutWorker, AdapterTail, LifecycleStop
<1> HIDE DEF m
<1>5. m # <<>>
  BY <1>1
<1>6. \A i \in 1 .. 13 : i = 1 \/ i = 2 \/ i = 3 \/ i = 4 \/ i = 5 \/ i = 6 \/ i = 7 \/ i = 8 \/ i = 9 \/ i = 10 \/ i = 11 \/ i = 12 \/ i = 13
  OBVIOUS
<1>7. \A i \in 1 .. Len(m) : m[i] \in {"trip", "closed", "catch", "crevoke", "cwipe", "settle", "leftover", "noctrl", "nostate", "end"}
  BY <1>1, <1>2, <1>3, <1>4, <1>6
<1>8. \A op : Has(m, op) <=> op \in {"trip", "closed", "catch", "crevoke", "cwipe", "settle", "leftover", "noctrl", "nostate", "end"}
  BY <1>1, <1>2, <1>3, <1>4, <1>7 DEF Has
<1>9. InOrder(m)
  <2>1. \A i \in 1 .. Len(m) : i < 1 => m[i] \in MayPrecede(m[1])
    BY <1>1
  <2>2. \A i \in 1 .. Len(m) : i < 2 => m[i] \in MayPrecede(m[2])
    <3>1. \A i \in 1 .. Len(m) : i < 2 => m[i] \in {"trip"}
      BY <1>1, <1>2, <1>3, <1>4, <1>6
    <3>2. {"trip"} \subseteq MayPrecede("closed")
      BY Order DEF Inserted, Working, Handling
    <3> QED
      BY <3>1, <3>2, <1>2
  <2>3. \A i \in 1 .. Len(m) : i < 3 => m[i] \in MayPrecede(m[3])
    <3>1. \A i \in 1 .. Len(m) : i < 3 => m[i] \in {"trip", "closed"}
      BY <1>1, <1>2, <1>3, <1>4, <1>6
    <3>2. {"trip", "closed"} \subseteq MayPrecede("catch")
      BY Order DEF Inserted, Working, Handling
    <3> QED
      BY <3>1, <3>2, <1>2
  <2>4. \A i \in 1 .. Len(m) : i < 4 => m[i] \in MayPrecede(m[4])
    <3>1. \A i \in 1 .. Len(m) : i < 4 => m[i] \in {"trip", "closed", "catch"}
      BY <1>1, <1>2, <1>3, <1>4, <1>6
    <3>2. {"trip", "closed", "catch"} \subseteq MayPrecede("crevoke")
      BY Order DEF Inserted, Working, Handling
    <3> QED
      BY <3>1, <3>2, <1>2
  <2>5. \A i \in 1 .. Len(m) : i < 5 => m[i] \in MayPrecede(m[5])
    <3>1. \A i \in 1 .. Len(m) : i < 5 => m[i] \in {"trip", "closed", "catch", "crevoke"}
      BY <1>1, <1>2, <1>3, <1>4, <1>6
    <3>2. {"trip", "closed", "catch", "crevoke"} \subseteq MayPrecede("catch")
      BY Order DEF Inserted, Working, Handling
    <3> QED
      BY <3>1, <3>2, <1>2
  <2>6. \A i \in 1 .. Len(m) : i < 6 => m[i] \in MayPrecede(m[6])
    <3>1. \A i \in 1 .. Len(m) : i < 6 => m[i] \in {"trip", "closed", "catch", "crevoke"}
      BY <1>1, <1>2, <1>3, <1>4, <1>6
    <3>2. {"trip", "closed", "catch", "crevoke"} \subseteq MayPrecede("cwipe")
      BY Order DEF Inserted, Working, Handling
    <3> QED
      BY <3>1, <3>2, <1>2
  <2>7. \A i \in 1 .. Len(m) : i < 7 => m[i] \in MayPrecede(m[7])
    <3>1. \A i \in 1 .. Len(m) : i < 7 => m[i] \in {"trip", "closed", "catch", "crevoke", "cwipe"}
      BY <1>1, <1>2, <1>3, <1>4, <1>6
    <3>2. {"trip", "closed", "catch", "crevoke", "cwipe"} \subseteq MayPrecede("catch")
      BY Order DEF Inserted, Working, Handling
    <3> QED
      BY <3>1, <3>2, <1>3
  <2>8. \A i \in 1 .. Len(m) : i < 8 => m[i] \in MayPrecede(m[8])
    <3>1. \A i \in 1 .. Len(m) : i < 8 => m[i] \in {"trip", "closed", "catch", "crevoke", "cwipe"}
      BY <1>1, <1>2, <1>3, <1>4, <1>6
    <3>2. {"trip", "closed", "catch", "crevoke", "cwipe"} \subseteq MayPrecede("settle")
      BY Order DEF Inserted, Working, Handling
    <3> QED
      BY <3>1, <3>2, <1>3
  <2>9. \A i \in 1 .. Len(m) : i < 9 => m[i] \in MayPrecede(m[9])
    <3>1. \A i \in 1 .. Len(m) : i < 9 => m[i] \in {"trip", "closed", "catch", "crevoke", "cwipe", "settle"}
      BY <1>1, <1>2, <1>3, <1>4, <1>6
    <3>2. {"trip", "closed", "catch", "crevoke", "cwipe", "settle"} \subseteq MayPrecede("catch")
      BY Order DEF Inserted, Working, Handling
    <3> QED
      BY <3>1, <3>2, <1>3
  <2>10. \A i \in 1 .. Len(m) : i < 10 => m[i] \in MayPrecede(m[10])
    <3>1. \A i \in 1 .. Len(m) : i < 10 => m[i] \in {"trip", "closed", "catch", "crevoke", "cwipe", "settle"}
      BY <1>1, <1>2, <1>3, <1>4, <1>6
    <3>2. {"trip", "closed", "catch", "crevoke", "cwipe", "settle"} \subseteq MayPrecede("leftover")
      BY Order DEF Inserted, Working, Handling
    <3> QED
      BY <3>1, <3>2, <1>3
  <2>11. \A i \in 1 .. Len(m) : i < 11 => m[i] \in MayPrecede(m[11])
    <3>1. \A i \in 1 .. Len(m) : i < 11 => m[i] \in {"trip", "closed", "catch", "crevoke", "cwipe", "settle", "leftover"}
      BY <1>1, <1>2, <1>3, <1>4, <1>6
    <3>2. {"trip", "closed", "catch", "crevoke", "cwipe", "settle", "leftover"} \subseteq MayPrecede("noctrl")
      BY Order DEF Inserted, Working, Handling
    <3> QED
      BY <3>1, <3>2, <1>3
  <2>12. \A i \in 1 .. Len(m) : i < 12 => m[i] \in MayPrecede(m[12])
    <3>1. \A i \in 1 .. Len(m) : i < 12 => m[i] \in {"trip", "closed", "catch", "crevoke", "cwipe", "settle", "leftover", "noctrl"}
      BY <1>1, <1>2, <1>3, <1>4, <1>6
    <3>2. {"trip", "closed", "catch", "crevoke", "cwipe", "settle", "leftover", "noctrl"} \subseteq MayPrecede("nostate")
      BY Order DEF Inserted, Working, Handling
    <3> QED
      BY <3>1, <3>2, <1>3
  <2>13. \A i \in 1 .. Len(m) : i < 13 => m[i] \in MayPrecede(m[13])
    <3>1. \A i \in 1 .. Len(m) : i < 13 => m[i] \in {"trip", "closed", "catch", "crevoke", "cwipe", "settle", "leftover", "noctrl", "nostate"}
      BY <1>1, <1>2, <1>3, <1>4, <1>6
    <3>2. {"trip", "closed", "catch", "crevoke", "cwipe", "settle", "leftover", "noctrl", "nostate"} \subseteq MayPrecede("end")
      BY Order DEF Inserted, Working, Handling
    <3> QED
      BY <3>1, <3>2, <1>4
  <2> QED
    BY <1>1, <1>6, <2>1, <2>2, <2>3, <2>4, <2>5, <2>6, <2>7, <2>8, <2>9, <2>10, <2>11, <2>12, <2>13 DEF InOrder
<1>10. \A j \in 1 .. Len(m) : m[j] = "leftover" => j = 10
  BY <1>1, <1>2, <1>3, <1>4, <1>6
<1>11. \A j \in 1 .. Len(m) : m[j] # "fallback"
  BY <1>7
<1>12. \A j \in 1 .. Len(m) : m[j] = "trip" => j = 1
  BY <1>1, <1>2, <1>3, <1>4, <1>6
<1>13. \A j \in 1 .. Len(m) : m[j] # "bclose"
  BY <1>7
<1>14. \A j \in 1 .. Len(m) : m[j] # "failure"
  BY <1>7
<1>15. \A j \in 1 .. Len(m) : m[j] = "closed" => j = 2
  BY <1>1, <1>2, <1>3, <1>4, <1>6
<1>16. \A j \in 1 .. Len(m) : m[j] = "settle" => j = 8
  BY <1>1, <1>2, <1>3, <1>4, <1>6
<1>17. \A j \in 1 .. Len(m) : m[j] # "launch"
  BY <1>7
<1>18. \A j \in 1 .. Len(m) : m[j] # "prepare"
  BY <1>7
<1>19. CaughtLeftover(m)
  <2>1. \A i \in 1 .. Len(m) : i < 10 => i <= 9 /\ 9 \in 1 .. Len(m) /\ m[9] = "catch"
    BY <1>1, <1>2, <1>3, <1>4
  <2> QED
    BY <2>1, <1>10, <1>1 DEF CaughtLeftover, CaughtBetween
<1>20. CaughtFallback(m)
  BY <1>11 DEF CaughtFallback
<1>21. CaughtTrip(m)
  BY <1>12 DEF CaughtTrip
<1>22. CloseAfterHandler(m)
  BY <1>13, <1>14 DEF CloseAfterHandler
<1>23. TripsBeforeClosed(m)
  BY <1>15, <1>2, <1>3, <1>4, <1>1, <1>6 DEF TripsBeforeClosed
<1>24. Followed(m, "settle", "leftover")
  BY <1>16, <1>1, <1>2, <1>3, <1>4 DEF Followed
<1>25. Followed(m, "launch", "settle")
  BY <1>17, <1>1, <1>2, <1>3, <1>4 DEF Followed
<1>26. Followed(m, "launch", "fallback")
  BY <1>17, <1>1, <1>2, <1>3, <1>4 DEF Followed
<1>27. Followed(m, "prepare", "launch")
  BY <1>18, <1>1, <1>2, <1>3, <1>4 DEF Followed
<1>28. Caught(m)
  BY <1>19, <1>20, <1>21, <1>22, <1>23, <1>24, <1>25, <1>26, <1>27 DEF Caught
<1>29. Precedes(m, "failure", "bclose")
  BY <1>13, <1>1, <1>2, <1>3, <1>4 DEF Precedes
<1>30. Precedes(m, "trip", "closed")
  BY <1>15, <1>1, <1>2, <1>3, <1>4 DEF Precedes
<1> QED
  BY <1>0, <1>5, <1>2, <1>8, <1>9, <1>28, <1>29, <1>30 DEF m

\* The list of an operator's stop
LEMMA StopProgramList ==
    /\ StopProgram \in Seq(Operations) /\ StopProgram # <<>> /\ StopProgram[1] = "emit"
    /\ \A op : Has(StopProgram, op) <=> op \in {"emit", "trip", "closed"}
    /\ InOrder(StopProgram)
    /\ Precedes(StopProgram, "trip", "closed")
<1> DEFINE m == StopProgram
<1>0. m \in Seq(Operations)
  <2>1. <<"emit">> \in Seq(Operations)
    <3>1. <<"emit">> \in Seq({"emit"})
      OBVIOUS
    <3>2. {"emit"} \subseteq Operations
      BY DEF Operations
    <3> QED
      BY <3>1, <3>2, SeqMonotonic
  <2>2. <<"trip", "closed">> \in Seq(Operations)
    <3>1. <<"trip", "closed">> \in Seq({"trip", "closed"})
      OBVIOUS
    <3>2. {"trip", "closed"} \subseteq Operations
      BY DEF Operations
    <3> QED
      BY <3>1, <3>2, SeqMonotonic
  <2>3. <<"emit", "emit">> \in Seq(Operations)
    <3>1. <<"emit", "emit">> \in Seq({"emit"})
      OBVIOUS
    <3>2. {"emit"} \subseteq Operations
      BY DEF Operations
    <3> QED
      BY <3>1, <3>2, SeqMonotonic
  <2>4. (<<"emit">>) \o <<"trip", "closed">> \in Seq(Operations)
    BY <2>1, <2>2, ConcatProperties
  <2>5. ((<<"emit">>) \o <<"trip", "closed">>) \o <<"emit", "emit">> \in Seq(Operations)
    BY <2>4, <2>3, ConcatProperties
  <2> QED
    BY <2>5 DEF StopProgram, LifecycleStop
<1>1. Len(m) = 5
  BY DEF StopProgram, LifecycleStop
<1>2. m[1] = "emit" /\ m[2] = "trip" /\ m[3] = "closed" /\ m[4] = "emit" /\ m[5] = "emit"
  BY DEF StopProgram, LifecycleStop
<1> HIDE DEF m
<1>3. m # <<>>
  BY <1>1
<1>4. \A i \in 1 .. 5 : i = 1 \/ i = 2 \/ i = 3 \/ i = 4 \/ i = 5
  OBVIOUS
<1>5. \A i \in 1 .. Len(m) : m[i] \in {"emit", "trip", "closed"}
  BY <1>1, <1>2, <1>4
<1>6. \A op : Has(m, op) <=> op \in {"emit", "trip", "closed"}
  BY <1>1, <1>2, <1>5 DEF Has
<1>7. InOrder(m)
  <2>1. \A i \in 1 .. Len(m) : i < 1 => m[i] \in MayPrecede(m[1])
    BY <1>1
  <2>2. \A i \in 1 .. Len(m) : i < 2 => m[i] \in MayPrecede(m[2])
    <3>1. \A i \in 1 .. Len(m) : i < 2 => m[i] \in {"emit"}
      BY <1>1, <1>2, <1>4
    <3>2. {"emit"} \subseteq MayPrecede("trip")
      BY Order DEF Inserted, Working, Handling
    <3> QED
      BY <3>1, <3>2, <1>2
  <2>3. \A i \in 1 .. Len(m) : i < 3 => m[i] \in MayPrecede(m[3])
    <3>1. \A i \in 1 .. Len(m) : i < 3 => m[i] \in {"emit", "trip"}
      BY <1>1, <1>2, <1>4
    <3>2. {"emit", "trip"} \subseteq MayPrecede("closed")
      BY Order DEF Inserted, Working, Handling
    <3> QED
      BY <3>1, <3>2, <1>2
  <2>4. \A i \in 1 .. Len(m) : i < 4 => m[i] \in MayPrecede(m[4])
    <3>1. \A i \in 1 .. Len(m) : i < 4 => m[i] \in {"emit", "trip", "closed"}
      BY <1>1, <1>2, <1>4
    <3>2. {"emit", "trip", "closed"} \subseteq MayPrecede("emit")
      BY Order DEF Inserted, Working, Handling
    <3> QED
      BY <3>1, <3>2, <1>2
  <2>5. \A i \in 1 .. Len(m) : i < 5 => m[i] \in MayPrecede(m[5])
    <3>1. \A i \in 1 .. Len(m) : i < 5 => m[i] \in {"emit", "trip", "closed"}
      BY <1>1, <1>2, <1>4
    <3>2. {"emit", "trip", "closed"} \subseteq MayPrecede("emit")
      BY Order DEF Inserted, Working, Handling
    <3> QED
      BY <3>1, <3>2, <1>2
  <2> QED
    BY <1>1, <1>4, <2>1, <2>2, <2>3, <2>4, <2>5 DEF InOrder
<1>8. Precedes(m, "trip", "closed")
  BY <1>1, <1>2, <1>4 DEF Precedes
<1> QED
  BY <1>0, <1>3, <1>2, <1>6, <1>7, <1>8 DEF m

\* The program of FirecrackerAdapter.run
LEMMA RunProgramList ==
    /\ RunProgram \in Seq(Operations) /\ RunProgram # <<>> /\ RunProgram[1] = "prepare"
    /\ \A op : Has(RunProgram, op) <=> op \in {"prepare", "register", "launch", "start", "open", "activate", "emit", "boot", "send", "loop", "enter", "wait", "agree", "receipt", "catch", "failure", "bclose", "fallback", "deactivate", "settle", "leftover", "noctrl", "nostate", "end"}
    /\ InOrder(RunProgram)
    /\ Caught(RunProgram)
    /\ Precedes(RunProgram, "trip", "closed")
    /\ Precedes(RunProgram, "failure", "bclose")
<1> DEFINE m == RunProgram
<1>0. m \in Seq(Operations)
  <2>1. <<"prepare", "register", "launch", "start", "open">> \in Seq(Operations)
    <3>1. <<"prepare", "register", "launch", "start", "open">> \in Seq({"prepare", "register", "launch", "start", "open"})
      OBVIOUS
    <3>2. {"prepare", "register", "launch", "start", "open"} \subseteq Operations
      BY DEF Operations
    <3> QED
      BY <3>1, <3>2, SeqMonotonic
  <2>2. <<"activate", "emit", "boot", "emit", "send", "emit", "loop", "enter", "wait", "agree", "emit", "receipt", "emit", "emit", "emit", "emit">> \in Seq(Operations)
    <3>1. <<"activate", "emit", "boot", "emit", "send", "emit", "loop", "enter", "wait", "agree", "emit", "receipt", "emit", "emit", "emit", "emit">> \in Seq({"activate", "emit", "boot", "send", "loop", "enter", "wait", "agree", "receipt"})
      OBVIOUS
    <3>2. {"activate", "emit", "boot", "send", "loop", "enter", "wait", "agree", "receipt"} \subseteq Operations
      BY DEF Operations
    <3> QED
      BY <3>1, <3>2, SeqMonotonic
  <2>3. <<"catch">> \in Seq(Operations)
    <3>1. <<"catch">> \in Seq({"catch"})
      OBVIOUS
    <3>2. {"catch"} \subseteq Operations
      BY DEF Operations
    <3> QED
      BY <3>1, <3>2, SeqMonotonic
  <2>4. <<"failure", "bclose", "fallback", "catch", "deactivate">> \in Seq(Operations)
    <3>1. <<"failure", "bclose", "fallback", "catch", "deactivate">> \in Seq({"failure", "bclose", "fallback", "catch", "deactivate"})
      OBVIOUS
    <3>2. {"failure", "bclose", "fallback", "catch", "deactivate"} \subseteq Operations
      BY DEF Operations
    <3> QED
      BY <3>1, <3>2, SeqMonotonic
  <2>5. <<"settle", "catch", "leftover", "noctrl", "nostate", "end">> \in Seq(Operations)
    <3>1. <<"settle", "catch", "leftover", "noctrl", "nostate", "end">> \in Seq({"settle", "catch", "leftover", "noctrl", "nostate", "end"})
      OBVIOUS
    <3>2. {"settle", "catch", "leftover", "noctrl", "nostate", "end"} \subseteq Operations
      BY DEF Operations
    <3> QED
      BY <3>1, <3>2, SeqMonotonic
  <2>6. (<<"prepare", "register", "launch", "start", "open">>) \o <<"activate", "emit", "boot", "emit", "send", "emit", "loop", "enter", "wait", "agree", "emit", "receipt", "emit", "emit", "emit", "emit">> \in Seq(Operations)
    BY <2>1, <2>2, ConcatProperties
  <2>7. ((<<"prepare", "register", "launch", "start", "open">>) \o <<"activate", "emit", "boot", "emit", "send", "emit", "loop", "enter", "wait", "agree", "emit", "receipt", "emit", "emit", "emit", "emit">>) \o <<"catch">> \in Seq(Operations)
    BY <2>6, <2>3, ConcatProperties
  <2>8. (((<<"prepare", "register", "launch", "start", "open">>) \o <<"activate", "emit", "boot", "emit", "send", "emit", "loop", "enter", "wait", "agree", "emit", "receipt", "emit", "emit", "emit", "emit">>) \o <<"catch">>) \o <<"failure", "bclose", "fallback", "catch", "deactivate">> \in Seq(Operations)
    BY <2>7, <2>4, ConcatProperties
  <2>9. ((((<<"prepare", "register", "launch", "start", "open">>) \o <<"activate", "emit", "boot", "emit", "send", "emit", "loop", "enter", "wait", "agree", "emit", "receipt", "emit", "emit", "emit", "emit">>) \o <<"catch">>) \o <<"failure", "bclose", "fallback", "catch", "deactivate">>) \o <<"settle", "catch", "leftover", "noctrl", "nostate", "end">> \in Seq(Operations)
    BY <2>8, <2>5, ConcatProperties
  <2> QED
    BY <2>9 DEF RunProgram, Body, Close, AdapterTail
<1>1. Len(m) = 33
  BY DEF RunProgram, Body, Close, AdapterTail
<1>2. m[1] = "prepare" /\ m[2] = "register" /\ m[3] = "launch" /\ m[4] = "start" /\ m[5] = "open" /\ m[6] = "activate"
  BY DEF RunProgram, Body, Close, AdapterTail
<1>3. m[7] = "emit" /\ m[8] = "boot" /\ m[9] = "emit" /\ m[10] = "send" /\ m[11] = "emit" /\ m[12] = "loop"
  BY DEF RunProgram, Body, Close, AdapterTail
<1>4. m[13] = "enter" /\ m[14] = "wait" /\ m[15] = "agree" /\ m[16] = "emit" /\ m[17] = "receipt" /\ m[18] = "emit"
  BY DEF RunProgram, Body, Close, AdapterTail
<1>5. m[19] = "emit" /\ m[20] = "emit" /\ m[21] = "emit" /\ m[22] = "catch" /\ m[23] = "failure" /\ m[24] = "bclose"
  BY DEF RunProgram, Body, Close, AdapterTail
<1>6. m[25] = "fallback" /\ m[26] = "catch" /\ m[27] = "deactivate" /\ m[28] = "settle" /\ m[29] = "catch" /\ m[30] = "leftover"
  BY DEF RunProgram, Body, Close, AdapterTail
<1>7. m[31] = "noctrl" /\ m[32] = "nostate" /\ m[33] = "end"
  BY DEF RunProgram, Body, Close, AdapterTail
<1> HIDE DEF m
<1>8. m # <<>>
  BY <1>1
<1>9. \A i \in 1 .. 33 : i = 1 \/ i = 2 \/ i = 3 \/ i = 4 \/ i = 5 \/ i = 6 \/ i = 7 \/ i = 8 \/ i = 9 \/ i = 10 \/ i = 11 \/ i = 12 \/ i = 13 \/ i = 14 \/ i = 15 \/ i = 16 \/ i = 17 \/ i = 18 \/ i = 19 \/ i = 20 \/ i = 21 \/ i = 22 \/ i = 23 \/ i = 24 \/ i = 25 \/ i = 26 \/ i = 27 \/ i = 28 \/ i = 29 \/ i = 30 \/ i = 31 \/ i = 32 \/ i = 33
  OBVIOUS
<1>10. \A i \in 1 .. Len(m) : m[i] \in {"prepare", "register", "launch", "start", "open", "activate", "emit", "boot", "send", "loop", "enter", "wait", "agree", "receipt", "catch", "failure", "bclose", "fallback", "deactivate", "settle", "leftover", "noctrl", "nostate", "end"}
  BY <1>1, <1>2, <1>3, <1>4, <1>5, <1>6, <1>7, <1>9
<1>11. \A op : Has(m, op) <=> op \in {"prepare", "register", "launch", "start", "open", "activate", "emit", "boot", "send", "loop", "enter", "wait", "agree", "receipt", "catch", "failure", "bclose", "fallback", "deactivate", "settle", "leftover", "noctrl", "nostate", "end"}
  BY <1>1, <1>2, <1>3, <1>4, <1>5, <1>6, <1>7, <1>10 DEF Has
<1>12. InOrder(m)
  <2>1. \A i \in 1 .. Len(m) : i < 1 => m[i] \in MayPrecede(m[1])
    BY <1>1
  <2>2. \A i \in 1 .. Len(m) : i < 2 => m[i] \in MayPrecede(m[2])
    <3>1. \A i \in 1 .. Len(m) : i < 2 => m[i] \in {"prepare"}
      BY <1>1, <1>2, <1>3, <1>4, <1>5, <1>6, <1>7, <1>9
    <3>2. {"prepare"} \subseteq MayPrecede("register")
      BY Order DEF Inserted, Working, Handling
    <3> QED
      BY <3>1, <3>2, <1>2
  <2>3. \A i \in 1 .. Len(m) : i < 3 => m[i] \in MayPrecede(m[3])
    <3>1. \A i \in 1 .. Len(m) : i < 3 => m[i] \in {"prepare", "register"}
      BY <1>1, <1>2, <1>3, <1>4, <1>5, <1>6, <1>7, <1>9
    <3>2. {"prepare", "register"} \subseteq MayPrecede("launch")
      BY Order DEF Inserted, Working, Handling
    <3> QED
      BY <3>1, <3>2, <1>2
  <2>4. \A i \in 1 .. Len(m) : i < 4 => m[i] \in MayPrecede(m[4])
    <3>1. \A i \in 1 .. Len(m) : i < 4 => m[i] \in {"prepare", "register", "launch"}
      BY <1>1, <1>2, <1>3, <1>4, <1>5, <1>6, <1>7, <1>9
    <3>2. {"prepare", "register", "launch"} \subseteq MayPrecede("start")
      BY Order DEF Inserted, Working, Handling
    <3> QED
      BY <3>1, <3>2, <1>2
  <2>5. \A i \in 1 .. Len(m) : i < 5 => m[i] \in MayPrecede(m[5])
    <3>1. \A i \in 1 .. Len(m) : i < 5 => m[i] \in {"prepare", "register", "launch", "start"}
      BY <1>1, <1>2, <1>3, <1>4, <1>5, <1>6, <1>7, <1>9
    <3>2. {"prepare", "register", "launch", "start"} \subseteq MayPrecede("open")
      BY Order DEF Inserted, Working, Handling
    <3> QED
      BY <3>1, <3>2, <1>2
  <2>6. \A i \in 1 .. Len(m) : i < 6 => m[i] \in MayPrecede(m[6])
    <3>1. \A i \in 1 .. Len(m) : i < 6 => m[i] \in {"prepare", "register", "launch", "start", "open"}
      BY <1>1, <1>2, <1>3, <1>4, <1>5, <1>6, <1>7, <1>9
    <3>2. {"prepare", "register", "launch", "start", "open"} \subseteq MayPrecede("activate")
      BY Order DEF Inserted, Working, Handling
    <3> QED
      BY <3>1, <3>2, <1>2
  <2>7. \A i \in 1 .. Len(m) : i < 7 => m[i] \in MayPrecede(m[7])
    <3>1. \A i \in 1 .. Len(m) : i < 7 => m[i] \in {"prepare", "register", "launch", "start", "open", "activate"}
      BY <1>1, <1>2, <1>3, <1>4, <1>5, <1>6, <1>7, <1>9
    <3>2. {"prepare", "register", "launch", "start", "open", "activate"} \subseteq MayPrecede("emit")
      BY Order DEF Inserted, Working, Handling
    <3> QED
      BY <3>1, <3>2, <1>3
  <2>8. \A i \in 1 .. Len(m) : i < 8 => m[i] \in MayPrecede(m[8])
    <3>1. \A i \in 1 .. Len(m) : i < 8 => m[i] \in {"prepare", "register", "launch", "start", "open", "activate", "emit"}
      BY <1>1, <1>2, <1>3, <1>4, <1>5, <1>6, <1>7, <1>9
    <3>2. {"prepare", "register", "launch", "start", "open", "activate", "emit"} \subseteq MayPrecede("boot")
      BY Order DEF Inserted, Working, Handling
    <3> QED
      BY <3>1, <3>2, <1>3
  <2>9. \A i \in 1 .. Len(m) : i < 9 => m[i] \in MayPrecede(m[9])
    <3>1. \A i \in 1 .. Len(m) : i < 9 => m[i] \in {"prepare", "register", "launch", "start", "open", "activate", "emit", "boot"}
      BY <1>1, <1>2, <1>3, <1>4, <1>5, <1>6, <1>7, <1>9
    <3>2. {"prepare", "register", "launch", "start", "open", "activate", "emit", "boot"} \subseteq MayPrecede("emit")
      BY Order DEF Inserted, Working, Handling
    <3> QED
      BY <3>1, <3>2, <1>3
  <2>10. \A i \in 1 .. Len(m) : i < 10 => m[i] \in MayPrecede(m[10])
    <3>1. \A i \in 1 .. Len(m) : i < 10 => m[i] \in {"prepare", "register", "launch", "start", "open", "activate", "emit", "boot"}
      BY <1>1, <1>2, <1>3, <1>4, <1>5, <1>6, <1>7, <1>9
    <3>2. {"prepare", "register", "launch", "start", "open", "activate", "emit", "boot"} \subseteq MayPrecede("send")
      BY Order DEF Inserted, Working, Handling
    <3> QED
      BY <3>1, <3>2, <1>3
  <2>11. \A i \in 1 .. Len(m) : i < 11 => m[i] \in MayPrecede(m[11])
    <3>1. \A i \in 1 .. Len(m) : i < 11 => m[i] \in {"prepare", "register", "launch", "start", "open", "activate", "emit", "boot", "send"}
      BY <1>1, <1>2, <1>3, <1>4, <1>5, <1>6, <1>7, <1>9
    <3>2. {"prepare", "register", "launch", "start", "open", "activate", "emit", "boot", "send"} \subseteq MayPrecede("emit")
      BY Order DEF Inserted, Working, Handling
    <3> QED
      BY <3>1, <3>2, <1>3
  <2>12. \A i \in 1 .. Len(m) : i < 12 => m[i] \in MayPrecede(m[12])
    <3>1. \A i \in 1 .. Len(m) : i < 12 => m[i] \in {"prepare", "register", "launch", "start", "open", "activate", "emit", "boot", "send"}
      BY <1>1, <1>2, <1>3, <1>4, <1>5, <1>6, <1>7, <1>9
    <3>2. {"prepare", "register", "launch", "start", "open", "activate", "emit", "boot", "send"} \subseteq MayPrecede("loop")
      BY Order DEF Inserted, Working, Handling
    <3> QED
      BY <3>1, <3>2, <1>3
  <2>13. \A i \in 1 .. Len(m) : i < 13 => m[i] \in MayPrecede(m[13])
    <3>1. \A i \in 1 .. Len(m) : i < 13 => m[i] \in {"prepare", "register", "launch", "start", "open", "activate", "emit", "boot", "send", "loop"}
      BY <1>1, <1>2, <1>3, <1>4, <1>5, <1>6, <1>7, <1>9
    <3>2. {"prepare", "register", "launch", "start", "open", "activate", "emit", "boot", "send", "loop"} \subseteq MayPrecede("enter")
      BY Order DEF Inserted, Working, Handling
    <3> QED
      BY <3>1, <3>2, <1>4
  <2>14. \A i \in 1 .. Len(m) : i < 14 => m[i] \in MayPrecede(m[14])
    <3>1. \A i \in 1 .. Len(m) : i < 14 => m[i] \in {"prepare", "register", "launch", "start", "open", "activate", "emit", "boot", "send", "loop", "enter"}
      BY <1>1, <1>2, <1>3, <1>4, <1>5, <1>6, <1>7, <1>9
    <3>2. {"prepare", "register", "launch", "start", "open", "activate", "emit", "boot", "send", "loop", "enter"} \subseteq MayPrecede("wait")
      BY Order DEF Inserted, Working, Handling
    <3> QED
      BY <3>1, <3>2, <1>4
  <2>15. \A i \in 1 .. Len(m) : i < 15 => m[i] \in MayPrecede(m[15])
    <3>1. \A i \in 1 .. Len(m) : i < 15 => m[i] \in {"prepare", "register", "launch", "start", "open", "activate", "emit", "boot", "send", "loop", "enter", "wait"}
      BY <1>1, <1>2, <1>3, <1>4, <1>5, <1>6, <1>7, <1>9
    <3>2. {"prepare", "register", "launch", "start", "open", "activate", "emit", "boot", "send", "loop", "enter", "wait"} \subseteq MayPrecede("agree")
      BY Order DEF Inserted, Working, Handling
    <3> QED
      BY <3>1, <3>2, <1>4
  <2>16. \A i \in 1 .. Len(m) : i < 16 => m[i] \in MayPrecede(m[16])
    <3>1. \A i \in 1 .. Len(m) : i < 16 => m[i] \in {"prepare", "register", "launch", "start", "open", "activate", "emit", "boot", "send", "loop", "enter", "wait", "agree"}
      BY <1>1, <1>2, <1>3, <1>4, <1>5, <1>6, <1>7, <1>9
    <3>2. {"prepare", "register", "launch", "start", "open", "activate", "emit", "boot", "send", "loop", "enter", "wait", "agree"} \subseteq MayPrecede("emit")
      BY Order DEF Inserted, Working, Handling
    <3> QED
      BY <3>1, <3>2, <1>4
  <2>17. \A i \in 1 .. Len(m) : i < 17 => m[i] \in MayPrecede(m[17])
    <3>1. \A i \in 1 .. Len(m) : i < 17 => m[i] \in {"prepare", "register", "launch", "start", "open", "activate", "emit", "boot", "send", "loop", "enter", "wait", "agree"}
      BY <1>1, <1>2, <1>3, <1>4, <1>5, <1>6, <1>7, <1>9
    <3>2. {"prepare", "register", "launch", "start", "open", "activate", "emit", "boot", "send", "loop", "enter", "wait", "agree"} \subseteq MayPrecede("receipt")
      BY Order DEF Inserted, Working, Handling
    <3> QED
      BY <3>1, <3>2, <1>4
  <2>18. \A i \in 1 .. Len(m) : i < 18 => m[i] \in MayPrecede(m[18])
    <3>1. \A i \in 1 .. Len(m) : i < 18 => m[i] \in {"prepare", "register", "launch", "start", "open", "activate", "emit", "boot", "send", "loop", "enter", "wait", "agree", "receipt"}
      BY <1>1, <1>2, <1>3, <1>4, <1>5, <1>6, <1>7, <1>9
    <3>2. {"prepare", "register", "launch", "start", "open", "activate", "emit", "boot", "send", "loop", "enter", "wait", "agree", "receipt"} \subseteq MayPrecede("emit")
      BY Order DEF Inserted, Working, Handling
    <3> QED
      BY <3>1, <3>2, <1>4
  <2>19. \A i \in 1 .. Len(m) : i < 19 => m[i] \in MayPrecede(m[19])
    <3>1. \A i \in 1 .. Len(m) : i < 19 => m[i] \in {"prepare", "register", "launch", "start", "open", "activate", "emit", "boot", "send", "loop", "enter", "wait", "agree", "receipt"}
      BY <1>1, <1>2, <1>3, <1>4, <1>5, <1>6, <1>7, <1>9
    <3>2. {"prepare", "register", "launch", "start", "open", "activate", "emit", "boot", "send", "loop", "enter", "wait", "agree", "receipt"} \subseteq MayPrecede("emit")
      BY Order DEF Inserted, Working, Handling
    <3> QED
      BY <3>1, <3>2, <1>5
  <2>20. \A i \in 1 .. Len(m) : i < 20 => m[i] \in MayPrecede(m[20])
    <3>1. \A i \in 1 .. Len(m) : i < 20 => m[i] \in {"prepare", "register", "launch", "start", "open", "activate", "emit", "boot", "send", "loop", "enter", "wait", "agree", "receipt"}
      BY <1>1, <1>2, <1>3, <1>4, <1>5, <1>6, <1>7, <1>9
    <3>2. {"prepare", "register", "launch", "start", "open", "activate", "emit", "boot", "send", "loop", "enter", "wait", "agree", "receipt"} \subseteq MayPrecede("emit")
      BY Order DEF Inserted, Working, Handling
    <3> QED
      BY <3>1, <3>2, <1>5
  <2>21. \A i \in 1 .. Len(m) : i < 21 => m[i] \in MayPrecede(m[21])
    <3>1. \A i \in 1 .. Len(m) : i < 21 => m[i] \in {"prepare", "register", "launch", "start", "open", "activate", "emit", "boot", "send", "loop", "enter", "wait", "agree", "receipt"}
      BY <1>1, <1>2, <1>3, <1>4, <1>5, <1>6, <1>7, <1>9
    <3>2. {"prepare", "register", "launch", "start", "open", "activate", "emit", "boot", "send", "loop", "enter", "wait", "agree", "receipt"} \subseteq MayPrecede("emit")
      BY Order DEF Inserted, Working, Handling
    <3> QED
      BY <3>1, <3>2, <1>5
  <2>22. \A i \in 1 .. Len(m) : i < 22 => m[i] \in MayPrecede(m[22])
    <3>1. \A i \in 1 .. Len(m) : i < 22 => m[i] \in {"prepare", "register", "launch", "start", "open", "activate", "emit", "boot", "send", "loop", "enter", "wait", "agree", "receipt"}
      BY <1>1, <1>2, <1>3, <1>4, <1>5, <1>6, <1>7, <1>9
    <3>2. {"prepare", "register", "launch", "start", "open", "activate", "emit", "boot", "send", "loop", "enter", "wait", "agree", "receipt"} \subseteq MayPrecede("catch")
      BY Order DEF Inserted, Working, Handling
    <3> QED
      BY <3>1, <3>2, <1>5
  <2>23. \A i \in 1 .. Len(m) : i < 23 => m[i] \in MayPrecede(m[23])
    <3>1. \A i \in 1 .. Len(m) : i < 23 => m[i] \in {"prepare", "register", "launch", "start", "open", "activate", "emit", "boot", "send", "loop", "enter", "wait", "agree", "receipt", "catch"}
      BY <1>1, <1>2, <1>3, <1>4, <1>5, <1>6, <1>7, <1>9
    <3>2. {"prepare", "register", "launch", "start", "open", "activate", "emit", "boot", "send", "loop", "enter", "wait", "agree", "receipt", "catch"} \subseteq MayPrecede("failure")
      BY Order DEF Inserted, Working, Handling
    <3> QED
      BY <3>1, <3>2, <1>5
  <2>24. \A i \in 1 .. Len(m) : i < 24 => m[i] \in MayPrecede(m[24])
    <3>1. \A i \in 1 .. Len(m) : i < 24 => m[i] \in {"prepare", "register", "launch", "start", "open", "activate", "emit", "boot", "send", "loop", "enter", "wait", "agree", "receipt", "catch", "failure"}
      BY <1>1, <1>2, <1>3, <1>4, <1>5, <1>6, <1>7, <1>9
    <3>2. {"prepare", "register", "launch", "start", "open", "activate", "emit", "boot", "send", "loop", "enter", "wait", "agree", "receipt", "catch", "failure"} \subseteq MayPrecede("bclose")
      BY Order DEF Inserted, Working, Handling
    <3> QED
      BY <3>1, <3>2, <1>5
  <2>25. \A i \in 1 .. Len(m) : i < 25 => m[i] \in MayPrecede(m[25])
    <3>1. \A i \in 1 .. Len(m) : i < 25 => m[i] \in {"prepare", "register", "launch", "start", "open", "activate", "emit", "boot", "send", "loop", "enter", "wait", "agree", "receipt", "catch", "failure", "bclose"}
      BY <1>1, <1>2, <1>3, <1>4, <1>5, <1>6, <1>7, <1>9
    <3>2. {"prepare", "register", "launch", "start", "open", "activate", "emit", "boot", "send", "loop", "enter", "wait", "agree", "receipt", "catch", "failure", "bclose"} \subseteq MayPrecede("fallback")
      BY Order DEF Inserted, Working, Handling
    <3> QED
      BY <3>1, <3>2, <1>6
  <2>26. \A i \in 1 .. Len(m) : i < 26 => m[i] \in MayPrecede(m[26])
    <3>1. \A i \in 1 .. Len(m) : i < 26 => m[i] \in {"prepare", "register", "launch", "start", "open", "activate", "emit", "boot", "send", "loop", "enter", "wait", "agree", "receipt", "catch", "failure", "bclose", "fallback"}
      BY <1>1, <1>2, <1>3, <1>4, <1>5, <1>6, <1>7, <1>9
    <3>2. {"prepare", "register", "launch", "start", "open", "activate", "emit", "boot", "send", "loop", "enter", "wait", "agree", "receipt", "catch", "failure", "bclose", "fallback"} \subseteq MayPrecede("catch")
      BY Order DEF Inserted, Working, Handling
    <3> QED
      BY <3>1, <3>2, <1>6
  <2>27. \A i \in 1 .. Len(m) : i < 27 => m[i] \in MayPrecede(m[27])
    <3>1. \A i \in 1 .. Len(m) : i < 27 => m[i] \in {"prepare", "register", "launch", "start", "open", "activate", "emit", "boot", "send", "loop", "enter", "wait", "agree", "receipt", "catch", "failure", "bclose", "fallback"}
      BY <1>1, <1>2, <1>3, <1>4, <1>5, <1>6, <1>7, <1>9
    <3>2. {"prepare", "register", "launch", "start", "open", "activate", "emit", "boot", "send", "loop", "enter", "wait", "agree", "receipt", "catch", "failure", "bclose", "fallback"} \subseteq MayPrecede("deactivate")
      BY Order DEF Inserted, Working, Handling
    <3> QED
      BY <3>1, <3>2, <1>6
  <2>28. \A i \in 1 .. Len(m) : i < 28 => m[i] \in MayPrecede(m[28])
    <3>1. \A i \in 1 .. Len(m) : i < 28 => m[i] \in {"prepare", "register", "launch", "start", "open", "activate", "emit", "boot", "send", "loop", "enter", "wait", "agree", "receipt", "catch", "failure", "bclose", "fallback", "deactivate"}
      BY <1>1, <1>2, <1>3, <1>4, <1>5, <1>6, <1>7, <1>9
    <3>2. {"prepare", "register", "launch", "start", "open", "activate", "emit", "boot", "send", "loop", "enter", "wait", "agree", "receipt", "catch", "failure", "bclose", "fallback", "deactivate"} \subseteq MayPrecede("settle")
      BY Order DEF Inserted, Working, Handling
    <3> QED
      BY <3>1, <3>2, <1>6
  <2>29. \A i \in 1 .. Len(m) : i < 29 => m[i] \in MayPrecede(m[29])
    <3>1. \A i \in 1 .. Len(m) : i < 29 => m[i] \in {"prepare", "register", "launch", "start", "open", "activate", "emit", "boot", "send", "loop", "enter", "wait", "agree", "receipt", "catch", "failure", "bclose", "fallback", "deactivate", "settle"}
      BY <1>1, <1>2, <1>3, <1>4, <1>5, <1>6, <1>7, <1>9
    <3>2. {"prepare", "register", "launch", "start", "open", "activate", "emit", "boot", "send", "loop", "enter", "wait", "agree", "receipt", "catch", "failure", "bclose", "fallback", "deactivate", "settle"} \subseteq MayPrecede("catch")
      BY Order DEF Inserted, Working, Handling
    <3> QED
      BY <3>1, <3>2, <1>6
  <2>30. \A i \in 1 .. Len(m) : i < 30 => m[i] \in MayPrecede(m[30])
    <3>1. \A i \in 1 .. Len(m) : i < 30 => m[i] \in {"prepare", "register", "launch", "start", "open", "activate", "emit", "boot", "send", "loop", "enter", "wait", "agree", "receipt", "catch", "failure", "bclose", "fallback", "deactivate", "settle"}
      BY <1>1, <1>2, <1>3, <1>4, <1>5, <1>6, <1>7, <1>9
    <3>2. {"prepare", "register", "launch", "start", "open", "activate", "emit", "boot", "send", "loop", "enter", "wait", "agree", "receipt", "catch", "failure", "bclose", "fallback", "deactivate", "settle"} \subseteq MayPrecede("leftover")
      BY Order DEF Inserted, Working, Handling
    <3> QED
      BY <3>1, <3>2, <1>6
  <2>31. \A i \in 1 .. Len(m) : i < 31 => m[i] \in MayPrecede(m[31])
    <3>1. \A i \in 1 .. Len(m) : i < 31 => m[i] \in {"prepare", "register", "launch", "start", "open", "activate", "emit", "boot", "send", "loop", "enter", "wait", "agree", "receipt", "catch", "failure", "bclose", "fallback", "deactivate", "settle", "leftover"}
      BY <1>1, <1>2, <1>3, <1>4, <1>5, <1>6, <1>7, <1>9
    <3>2. {"prepare", "register", "launch", "start", "open", "activate", "emit", "boot", "send", "loop", "enter", "wait", "agree", "receipt", "catch", "failure", "bclose", "fallback", "deactivate", "settle", "leftover"} \subseteq MayPrecede("noctrl")
      BY Order DEF Inserted, Working, Handling
    <3> QED
      BY <3>1, <3>2, <1>7
  <2>32. \A i \in 1 .. Len(m) : i < 32 => m[i] \in MayPrecede(m[32])
    <3>1. \A i \in 1 .. Len(m) : i < 32 => m[i] \in {"prepare", "register", "launch", "start", "open", "activate", "emit", "boot", "send", "loop", "enter", "wait", "agree", "receipt", "catch", "failure", "bclose", "fallback", "deactivate", "settle", "leftover", "noctrl"}
      BY <1>1, <1>2, <1>3, <1>4, <1>5, <1>6, <1>7, <1>9
    <3>2. {"prepare", "register", "launch", "start", "open", "activate", "emit", "boot", "send", "loop", "enter", "wait", "agree", "receipt", "catch", "failure", "bclose", "fallback", "deactivate", "settle", "leftover", "noctrl"} \subseteq MayPrecede("nostate")
      BY Order DEF Inserted, Working, Handling
    <3> QED
      BY <3>1, <3>2, <1>7
  <2>33. \A i \in 1 .. Len(m) : i < 33 => m[i] \in MayPrecede(m[33])
    <3>1. \A i \in 1 .. Len(m) : i < 33 => m[i] \in {"prepare", "register", "launch", "start", "open", "activate", "emit", "boot", "send", "loop", "enter", "wait", "agree", "receipt", "catch", "failure", "bclose", "fallback", "deactivate", "settle", "leftover", "noctrl", "nostate"}
      BY <1>1, <1>2, <1>3, <1>4, <1>5, <1>6, <1>7, <1>9
    <3>2. {"prepare", "register", "launch", "start", "open", "activate", "emit", "boot", "send", "loop", "enter", "wait", "agree", "receipt", "catch", "failure", "bclose", "fallback", "deactivate", "settle", "leftover", "noctrl", "nostate"} \subseteq MayPrecede("end")
      BY Order DEF Inserted, Working, Handling
    <3> QED
      BY <3>1, <3>2, <1>7
  <2> QED
    BY <1>1, <1>9, <2>1, <2>2, <2>3, <2>4, <2>5, <2>6, <2>7, <2>8, <2>9, <2>10, <2>11, <2>12, <2>13, <2>14, <2>15, <2>16, <2>17, <2>18, <2>19, <2>20, <2>21, <2>22, <2>23, <2>24, <2>25, <2>26, <2>27, <2>28, <2>29, <2>30, <2>31, <2>32, <2>33 DEF InOrder
<1>13. \A j \in 1 .. Len(m) : m[j] = "leftover" => j = 30
  BY <1>1, <1>2, <1>3, <1>4, <1>5, <1>6, <1>7, <1>9
<1>14. \A j \in 1 .. Len(m) : m[j] = "fallback" => j = 25
  BY <1>1, <1>2, <1>3, <1>4, <1>5, <1>6, <1>7, <1>9
<1>15. \A j \in 1 .. Len(m) : m[j] # "trip"
  BY <1>10
<1>16. \A j \in 1 .. Len(m) : m[j] = "bclose" => j = 24
  BY <1>1, <1>2, <1>3, <1>4, <1>5, <1>6, <1>7, <1>9
<1>17. \A j \in 1 .. Len(m) : m[j] = "failure" => j = 23
  BY <1>1, <1>2, <1>3, <1>4, <1>5, <1>6, <1>7, <1>9
<1>18. \A j \in 1 .. Len(m) : m[j] # "closed"
  BY <1>10
<1>19. \A j \in 1 .. Len(m) : m[j] = "settle" => j = 28
  BY <1>1, <1>2, <1>3, <1>4, <1>5, <1>6, <1>7, <1>9
<1>20. \A j \in 1 .. Len(m) : m[j] = "launch" => j = 3
  BY <1>1, <1>2, <1>3, <1>4, <1>5, <1>6, <1>7, <1>9
<1>21. \A j \in 1 .. Len(m) : m[j] = "prepare" => j = 1
  BY <1>1, <1>2, <1>3, <1>4, <1>5, <1>6, <1>7, <1>9
<1>22. CaughtLeftover(m)
  <2>1. \A i \in 1 .. Len(m) : i < 30 => i <= 29 /\ 29 \in 1 .. Len(m) /\ m[29] = "catch"
    BY <1>1, <1>2, <1>3, <1>4, <1>5, <1>6, <1>7
  <2> QED
    BY <2>1, <1>13, <1>1 DEF CaughtLeftover, CaughtBetween
<1>23. CaughtFallback(m)
  <2>1. \A i \in 1 .. Len(m) : i < 25 => i <= 22 \/ i = 23 \/ i = 24
    BY <1>1
  <2>2. 22 \in 1 .. Len(m) /\ 22 < 25 /\ m[22] = "catch"
    BY <1>1, <1>2, <1>3, <1>4, <1>5, <1>6, <1>7
  <2> QED
    BY <2>1, <2>2, <1>14, <1>2, <1>3, <1>4, <1>5, <1>6, <1>7, <1>1 DEF CaughtFallback, CaughtBetween
<1>24. CaughtTrip(m)
  BY <1>15 DEF CaughtTrip
<1>25. CloseAfterHandler(m)
  BY <1>16, <1>17 DEF CloseAfterHandler
<1>26. TripsBeforeClosed(m)
  BY <1>18, <1>2, <1>3, <1>4, <1>5, <1>6, <1>7, <1>1, <1>9 DEF TripsBeforeClosed
<1>27. Followed(m, "settle", "leftover")
  BY <1>19, <1>1, <1>2, <1>3, <1>4, <1>5, <1>6, <1>7 DEF Followed
<1>28. Followed(m, "launch", "settle")
  BY <1>20, <1>1, <1>2, <1>3, <1>4, <1>5, <1>6, <1>7 DEF Followed
<1>29. Followed(m, "launch", "fallback")
  BY <1>20, <1>1, <1>2, <1>3, <1>4, <1>5, <1>6, <1>7 DEF Followed
<1>30. Followed(m, "prepare", "launch")
  BY <1>21, <1>1, <1>2, <1>3, <1>4, <1>5, <1>6, <1>7 DEF Followed
<1>31. Caught(m)
  BY <1>22, <1>23, <1>24, <1>25, <1>26, <1>27, <1>28, <1>29, <1>30 DEF Caught
<1>32. Precedes(m, "failure", "bclose")
  BY <1>16, <1>1, <1>2, <1>3, <1>4, <1>5, <1>6, <1>7 DEF Precedes
<1>33. Precedes(m, "trip", "closed")
  BY <1>18, <1>1, <1>2, <1>3, <1>4, <1>5, <1>6, <1>7 DEF Precedes
<1> QED
  BY <1>0, <1>8, <1>2, <1>11, <1>12, <1>31, <1>32, <1>33 DEF m

(***************************************************************************)
(* Threads.                                                                *)
(***************************************************************************)
\* The thread that takes a step, and its list
LEMMA Stepping ==
    ASSUME IInv, NEW t \in Threads, NEW h, At(t, h)
    PROVE  /\ todo \in [Threads -> Seq(Operations)]
           /\ todo[t] \in Seq(Operations) /\ todo[t] # <<>> /\ todo[t][1] = h
           /\ Has(todo[t], h) /\ InOrder(todo[t])
           /\ Run(t) \in Runs
           /\ t \in Runs => /\ Run(t) = t /\ t \notin Operators
                            /\ phase[t] = "inside" /\ Caught(todo[t])
           /\ t \notin Runs => /\ t \in Operators /\ Run(t) = subject[t] /\ stopped[subject[t]]
                               /\ ~Has(todo[t], "catch")
<1>1. /\ todo \in [Threads -> Seq(Operations)] /\ todo[t] \in Seq(Operations)
      /\ todo[t] # <<>> /\ todo[t][1] = h
  BY DEF At, IInv, TypeOK
<1>2. Has(todo[t], h)
  <2>1. 1 \in 1 .. Len(todo[t])
    BY <1>1
  <2> QED
    BY <1>1, <2>1 DEF Has
<1>3. InOrder(todo[t])
  BY DEF IInv, ListInv
<1>4. CASE t \in Runs
  <2>1. t \notin Operators
    BY <1>4, RunAssumption
  <2> QED
    BY <1>1, <1>2, <1>3, <1>4, <2>1 DEF IInv, ListInv, Run
<1>5. CASE t \notin Runs
  <2>1. t \in Operators
    BY <1>5 DEF Threads
  <2> QED
    BY <1>1, <1>2, <1>3, <1>5, <2>1 DEF IInv, ListInv, Run
<1> QED
  BY <1>4, <1>5

\* An empty list has nothing to do.
LEMMA EmptyList ==
    /\ <<>> \in Seq(Operations) /\ InOrder(<<>>)
    /\ \A op : ~Has(<<>>, op)
    /\ \A a, b : Precedes(<<>>, a, b)
  BY DEF InOrder, Has, Precedes

\* The first operation is one of the list.
LEMMA FirstIsIn ==
    ASSUME NEW q \in Seq(Operations), q # <<>>
    PROVE  Has(q, q[1]) /\ Head(q) = q[1]
<1>1. 1 \in 1 .. Len(q)
  OBVIOUS
<1> QED
  BY <1>1 DEF Has

\* Has is about lists that are not empty.
LEMMA HasNonempty ==
    ASSUME NEW q, NEW op, Has(q, op)
    PROVE  q # <<>>
  BY DEF Has

\* An operation behind the first may stand there.
LEMMA Behind ==
    ASSUME NEW p \in Seq(Operations), p # <<>>, InOrder(p), NEW op, Has(p, op), p[1] # op
    PROVE  p[1] \in MayPrecede(op)
<1>1. PICK j \in 1 .. Len(p) : p[j] = op
  BY DEF Has
<1>2. 1 \in 1 .. Len(p) /\ 1 < j
  BY <1>1
<1> QED
  BY <1>1, <1>2 DEF InOrder

\* A list that starts with b has no a before its b.
LEMMA PrecedesFirst ==
    ASSUME NEW p \in Seq(Operations), p # <<>>, NEW a, Precedes(p, a, p[1])
    PROVE  FALSE
<1>1. 1 \in 1 .. Len(p) /\ 1 .. 1 - 1 = {}
  OBVIOUS
<1> QED
  BY <1>1 DEF Precedes

\* What has raised stays raised.
LEMMA RaisedKept ==
    ASSUME IInv, NEW op \in FaultKinds, faults' = Append(faults, op)
    PROVE  /\ \A ops : Raised(ops) => Raised(ops)'
           /\ \A ops : op \in ops => Raised(ops)'
           /\ Len(faults') = Len(faults) + 1 /\ Len(faults) \in Nat
           /\ faults' \in Seq(FaultKinds)
<1>1. faults \in Seq(FaultKinds)
  BY DEF IInv, TypeOK
<1>2. /\ faults' \in Seq(FaultKinds) /\ Len(faults') = Len(faults) + 1 /\ Len(faults) \in Nat
      /\ \A i \in 1 .. Len(faults) : faults'[i] = faults[i]
      /\ faults'[Len(faults) + 1] = op
      /\ DOMAIN faults = 1 .. Len(faults) /\ DOMAIN faults' = 1 .. Len(faults) + 1
  BY <1>1
<1>3. \A i \in 1 .. Len(faults) : i \in 1 .. Len(faults) + 1
  BY <1>2
<1>4. Len(faults) + 1 \in 1 .. Len(faults) + 1
  BY <1>2
<1> QED
  BY <1>2, <1>3, <1>4 DEF Raised

\* A step that changes one thread's list keeps the order of the others.
LEMMA ListsKept ==
    ASSUME IInv, NEW t \in Threads, todo[t] # <<>>, NEW q,
           todo' = [todo EXCEPT ![t] = q], InOrder(q),
           t \in Runs => Caught(q),
           t \notin Runs => ~Has(q, "catch"),
           subject' = subject, phase' = phase,
           \A r \in Runs : stopped[r] => stopped'[r]
    PROVE  ListInv'
<1>1. todo \in [Threads -> Seq(Operations)]
  BY DEF IInv, TypeOK
<1>2. todo'[t] = q /\ \A u \in Threads : u # t => todo'[u] = todo[u]
  BY <1>1
<1>3. Runs \subseteq Threads /\ Operators \subseteq Threads /\ \A o \in Operators : o \notin Runs
  BY RunAssumption DEF Threads
<1>4. \A u \in Threads : InOrder(todo'[u])
  BY <1>2 DEF IInv, ListInv
<1>5. \A r \in Runs : Caught(todo'[r]) /\ (todo'[r] # <<>> => phase'[r] = "inside")
  BY <1>2, <1>3 DEF IInv, ListInv
<1>6. \A o \in Operators : todo'[o] # <<>> =>
        subject'[o] \in Runs /\ stopped'[subject'[o]] /\ ~Has(todo'[o], "catch")
  BY <1>2, <1>3 DEF IInv, ListInv
<1>7. \A o, u \in Operators :
        todo'[o] # <<>> /\ todo'[u] # <<>> /\ subject'[o] = subject'[u] => o = u
  BY <1>2, <1>3 DEF IInv, ListInv
<1> QED
  BY <1>4, <1>5, <1>6, <1>7 DEF ListInv

\* A step that is not about a callback keeps who calls it.
LEMMA OnceKept ==
    ASSUME IInv, NEW t \in Threads, NEW h, At(t, h), h \notin {"crevoke", "cwipe", "xrevoke", "xwipe"},
           NEW q, todo' = [todo EXCEPT ![t] = q],
           q # <<>> => Head(q) \notin {"xrevoke", "xwipe"},
           began' = began, claimed' = claimed, calls' = calls, subject' = subject
    PROVE  OnceInv'
<1>1. todo \in [Threads -> Seq(Operations)]
  BY DEF IInv, TypeOK
<1>2. todo'[t] = q /\ \A u \in Threads : u # t => todo'[u] = todo[u]
  BY <1>1
<1>3. \A u : Run(u)' = Run(u)
  BY DEF Run
<1>4. ASSUME NEW op \in {"crevoke", "cwipe", "xrevoke", "xwipe"}, NEW u \in Threads, At(u, op)
      PROVE  At(u, op)'
  BY <1>2, <1>4 DEF At
<1>5. ASSUME NEW op \in {"xrevoke", "xwipe"}, NEW u \in Threads, At(u, op)' PROVE At(u, op)
  BY <1>2, <1>5 DEF At
<1>6. \A x \in Callbacks : /\ External[x] \in {"xrevoke", "xwipe"}
                           /\ Cleanup[x] \in {"crevoke", "cwipe", "xrevoke", "xwipe"}
                           /\ External[x] \in {"crevoke", "cwipe", "xrevoke", "xwipe"}
  BY DEF Callbacks, External, Cleanup
<1>7. OnceInv
  BY DEF IInv
<1> HIDE DEF IInv
<1>8. ASSUME NEW r \in Runs, NEW x \in Callbacks
      PROVE  /\ calls'[r][x] \in {0, 1}
             /\ x \notin claimed'[r] => calls'[r][x] = 0
             /\ x \in claimed'[r] =>
                  calls'[r][x] = 1 \/ \E u \in Threads : Run(u)' = r /\ At(u, External[x])'
             /\ \A v \in Threads : Run(v)' = r /\ At(v, External[x])' =>
                  /\ x \in claimed'[r] /\ calls'[r][x] = 0
                  /\ \A u \in Threads : Run(u)' = r /\ At(u, External[x])' => v = u
             /\ x \in began'[r] =>
                  x \in claimed'[r] \/ \E u \in Threads : Run(u)' = r /\ At(u, Cleanup[x])'
  <2>1. calls'[r][x] \in {0, 1} /\ (x \notin claimed'[r] => calls'[r][x] = 0)
    BY <1>7 DEF OnceInv
  <2>2. x \in claimed'[r] =>
          calls'[r][x] = 1 \/ \E u \in Threads : Run(u)' = r /\ At(u, External[x])'
    BY <1>3, <1>4, <1>6, <1>7 DEF OnceInv
  <2>3. ASSUME NEW v \in Threads, Run(v)' = r, At(v, External[x])'
        PROVE  /\ x \in claimed'[r] /\ calls'[r][x] = 0
               /\ \A u \in Threads : Run(u)' = r /\ At(u, External[x])' => v = u
    BY <1>3, <1>5, <1>6, <1>7, <2>3 DEF OnceInv
  <2>4. x \in began'[r] =>
          x \in claimed'[r] \/ \E u \in Threads : Run(u)' = r /\ At(u, Cleanup[x])'
    BY <1>3, <1>4, <1>6, <1>7 DEF OnceInv
  <2> QED
    BY <2>1, <2>2, <2>3, <2>4
<1> QED
  BY <1>8 DEF OnceInv, External, Cleanup

(***************************************************************************)
(* Steps that only end an operation.                                       *)
(***************************************************************************)
\* Nothing changes in the worker, its callbacks and who works for it.
Calm == UNCHANGED <<vm, tripped, closed, failed, began, claimed, calls, faults, phase, subject>>

\* Operations that end with nothing else to do, and when they do
Idle(t, h) ==
    /\ h \in {"prepare", "register", "start", "open", "boot", "send", "agree", "activate",
              "deactivate", "loop", "enter", "noctrl", "nostate", "emit", "bclose",
              "fallback", "settle", "leftover", "failure", "wait", "receipt"}
    /\ t \notin Runs => h = "emit"
    /\ h = "wait" => vm[t] = "exited" /\ closed[t]
    /\ h = "fallback" => closed[t]
    /\ h = "settle" => failed[t]
    /\ h = "leftover" => ~failed[t] \/ "revoke" \in claimed[t]
    /\ h = "failure" => ~failed[t] \/ stopped[t]

\* An operation that is done with nothing to add keeps the invariant.
LEMMA IdleStep ==
    ASSUME IInv, TypeOK', NEW t \in Threads, NEW h, At(t, h), Idle(t, h),
           Done(t), Calm, stopped' = stopped, ReceiptAfterExit',
           \A r \in Runs : live'[r] => live[r] \/ (r = t /\ h = "activate"),
           \A r \in Runs : receipt'[r] = receipt[r] \/ (r = t /\ h = "receipt")
    PROVE  IInv'
<1> DEFINE p == todo[t]
           q == Enter(<<>> \o Tail(todo[t]))
<1>1. /\ todo \in [Threads -> Seq(Operations)]
      /\ p \in Seq(Operations) /\ p # <<>> /\ p[1] = h /\ Has(p, h) /\ InOrder(p)
      /\ Run(t) \in Runs
      /\ t \in Runs => /\ Run(t) = t /\ t \notin Operators
                       /\ phase[t] = "inside" /\ Caught(p)
      /\ t \notin Runs => /\ t \in Operators /\ Run(t) = subject[t] /\ stopped[subject[t]]
                          /\ ~Has(p, "catch") /\ h = "emit"
  BY Stepping DEF Idle
<1>2. todo' = [todo EXCEPT ![t] = q]
  BY DEF Done, Continue
<1>3. /\ q \in Seq(Operations) /\ InOrder(q) /\ (Caught(p) => Caught(q))
      /\ \A op : Has(q, op) => Has(p, op) /\ h \in MayPrecede(op)
      /\ \A op : Has(p, op) /\ op # h /\ op # "catch" => Has(q, op)
      /\ \A a, b : Precedes(p, a, b) /\ a # h /\ a # "catch" => Precedes(q, a, b)
  BY <1>1, PopFacts
<1>4. todo'[t] = q /\ \A u \in Threads : u # t => todo'[u] = todo[u]
  BY <1>1, <1>2
<1>5. \A u : Run(u)' = Run(u)
  BY DEF Run, Calm
<1>6. \A ops : Raised(ops)' = Raised(ops)
  BY DEF Raised, Calm
<1>7. Runs \subseteq Threads /\ Operators \subseteq Threads /\ \A o \in Operators : o \notin Runs
  BY RunAssumption DEF Threads
<1> HIDE DEF p, q
<1>9. ListInv'
  BY <1>1, <1>2, <1>3, ListsKept DEF Calm, p
<1>10. FreshInv'
  <2>1. SUFFICES ASSUME NEW r \in Runs, phase'[r] = "new" \/ Has(todo'[r], "launch")
                 PROVE  /\ vm'[r] = "none" /\ ~live'[r] /\ ~stopped'[r] /\ ~tripped'[r] /\ ~closed'[r]
                        /\ ~failed'[r] /\ ~receipt'[r]
    BY DEF FreshInv
  <2>2. (live'[r] => live[r]) /\ receipt'[r] = receipt[r] /\ (phase[r] = "new" \/ Has(todo[r], "launch"))
    <3>1. CASE r = t
      <4>1. phase[r] = "inside" /\ Has(p, "launch") /\ h \in MayPrecede("launch")
        BY <1>1, <1>3, <1>4, <2>1, <3>1 DEF Calm
      <4> QED
        BY <4>1, <3>1, Order DEF p
    <3>2. CASE r # t
      BY <1>4, <1>7, <2>1, <3>2 DEF Calm
    <3> QED
      BY <3>1, <3>2
  <2> QED
    BY <2>2 DEF IInv, FreshInv, Calm
<1>16. UnbornInv'
  <2>1. SUFFICES ASSUME NEW r \in Runs, vm'[r] = "none", phase'[r] # "new", ~Has(todo'[r], "launch")
                 PROVE  /\ ~live'[r] /\ ~stopped'[r]
                        /\ \A op \in {"start", "open", "activate", "loop", "wait", "failure",
                                      "fallback", "trip", "kill"} : ~Has(todo'[r], op)
    BY DEF UnbornInv
  <2>2. \A op : Has(todo'[r], op) => Has(todo[r], op)
    BY <1>3, <1>4, <1>7 DEF p
  <2>3. ~Has(todo[r], "launch")
    <3>1. CASE r = t
      <4>1. h # "launch" /\ "launch" # "catch"
        BY DEF Idle
      <4> QED
        BY <1>3, <1>4, <2>1, <3>1, <4>1 DEF p
    <3>2. CASE r # t
      BY <1>4, <1>7, <2>1, <3>2
    <3> QED
      BY <3>1, <3>2
  <2>4. /\ ~live[r] /\ ~stopped[r]
        /\ \A op \in {"start", "open", "activate", "loop", "wait", "failure",
                      "fallback", "trip", "kill"} : ~Has(todo[r], op)
    BY <2>1, <2>3 DEF IInv, UnbornInv, Calm
  <2>5. ~live'[r]
    BY <1>1, <2>4 DEF p
  <2> QED
    BY <2>2, <2>4, <2>5
<1>11. OnceInv'
  <2>1. q # <<>> => Head(q) \notin {"xrevoke", "xwipe"}
    BY <1>3, FirstIsIn, Order
  <2> QED
    BY <1>2, <2>1, OnceKept DEF Idle, Calm
<1>12. SmoothInv'
  <2>1. SUFFICES ASSUME NEW r \in Runs
                 PROVE  /\ Has(todo'[r], "receipt") => ~failed'[r]
                        /\ Smooth(r)' /\ Has(todo'[r], "wait") => BeforeExit(r)'
                        /\ Smooth(r)' /\ ~Has(todo'[r], "wait") => AfterExit(r)'
    BY DEF SmoothInv
  <2>2. \A op : Has(todo'[r], op) => Has(todo[r], op)
    BY <1>3, <1>4, <1>7 DEF p
  <2>3. \A op : Has(todo[r], op) /\ op # "catch" => Has(todo'[r], op) \/ (r = t /\ op = h)
    BY <1>3, <1>4, <1>7 DEF p
  <2>4. Smooth(r)' => Smooth(r)
    BY <2>3 DEF Smooth, Calm, Idle
  <2>5. Has(todo'[r], "receipt") => ~failed'[r]
    BY <2>2 DEF IInv, SmoothInv, Calm
  <2>6. ASSUME Smooth(r)', Has(todo'[r], "wait") PROVE BeforeExit(r)'
    <3>1. BeforeExit(r)
      BY <2>2, <2>4, <2>6 DEF IInv, SmoothInv
    <3>2. ASSUME NEW o \in Operators, subject'[o] = r
          PROVE  /\ Has(todo'[o], "trip") => ~tripped'[r]
                 /\ \/ Precedes(todo'[o], "trip", "closed")
                    \/ \A x \in Callbacks : x \in began'[r] \/ Precedes(todo'[o], x, "closed")
      <4>1. /\ Has(todo[o], "trip") => ~tripped[r]
            /\ \/ Precedes(todo[o], "trip", "closed")
               \/ \A x \in Callbacks : x \in began[r] \/ Precedes(todo[o], x, "closed")
        BY <3>1, <3>2 DEF BeforeExit, Calm
      <4>2. CASE o # t
        BY <1>4, <1>7, <4>1, <4>2 DEF Calm
      <4>3. CASE o = t
        <5>1. h = "emit" /\ todo'[o] = q /\ todo[o] = p
          BY <1>1, <1>4, <1>7, <4>3 DEF p
        <5> QED
          BY <1>3, <4>1, <5>1 DEF Calm, Callbacks
      <4> QED
        BY <4>2, <4>3
    <3> QED
      BY <2>2, <3>1, <3>2 DEF BeforeExit, Calm
  <2>7. ASSUME Smooth(r)', ~Has(todo'[r], "wait") PROVE AfterExit(r)'
    <3>1. CASE Has(todo[r], "wait")
      <4>1. r = t /\ h = "wait"
        BY <2>3, <2>7, <3>1
      <4>2. BeforeExit(r)
        BY <2>4, <2>7, <3>1 DEF IInv, SmoothInv
      <4> QED
        BY <4>1, <4>2 DEF Idle, BeforeExit, AfterExit, Calm
    <3>2. CASE ~Has(todo[r], "wait")
      <4>1. AfterExit(r)
        BY <2>4, <2>7, <3>2 DEF IInv, SmoothInv
      <4>2. h \notin Callbacks /\ "catch" \notin Callbacks
        BY DEF Idle, Callbacks
      <4> QED
        BY <2>3, <4>1, <4>2 DEF AfterExit, Calm
    <3> QED
      BY <3>1, <3>2
  <2> QED
    BY <2>5, <2>6, <2>7
<1>13. ClaimInv'
  <2>1. SUFFICES ASSUME NEW r \in Runs, phase'[r] # "new", vm'[r] # "none"
                 PROVE  \/ "revoke" \in claimed'[r]
                        \/ At(r, "crevoke")'
                        \/ /\ Has(todo'[r], "leftover")
                           /\ failed'[r] \/ Has(todo'[r], "settle") \/ Has(todo'[r], "crevoke")
    BY DEF ClaimInv
  <2>2. \/ "revoke" \in claimed[r]
        \/ At(r, "crevoke")
        \/ /\ Has(todo[r], "leftover")
           /\ failed[r] \/ Has(todo[r], "settle") \/ Has(todo[r], "crevoke")
    BY <2>1 DEF IInv, ClaimInv, Calm
  <2>3. CASE r # t
    BY <1>4, <1>7, <2>2, <2>3 DEF At, Calm
  <2>4. CASE r = t
    <3>1. ~At(r, "crevoke")
      BY <1>1, <2>4 DEF At, Idle, p
    <3>2. h # "crevoke"
      BY DEF Idle
    <3>3. h = "settle" => failed[r]
      BY <2>4 DEF Idle
    <3>4. ASSUME h = "leftover" PROVE "revoke" \in claimed[r]
      <4>1. ~Has(p, "settle") /\ ~Has(p, "crevoke")
        BY <1>1, <3>4, Behind, Order DEF Inserted, Working, Handling
      <4> QED
        BY <2>2, <2>4, <3>1, <3>4, <4>1 DEF Idle, p
    <3> QED
      BY <1>3, <1>4, <2>2, <2>4, <3>1, <3>2, <3>3, <3>4 DEF Calm, p
  <2> QED
    BY <2>3, <2>4
<1>14. TripInv'
  <2>1. SUFFICES ASSUME NEW r \in Runs
                 PROVE  TripEnds(r)' /\ ClosedLast(r)' /\ StopTrips(r)' /\ CloseHandled(r)'
    BY DEF TripInv
  <2>2. TripEnds(r) /\ ClosedLast(r) /\ StopTrips(r) /\ CloseHandled(r)
    BY DEF IInv, TripInv
  <2>3. \A op : op \in {"kill", "wipe", "trip"} => h # op /\ op # "catch"
    BY DEF Idle
  <2>4. ASSUME NEW op \in {"kill", "wipe", "trip"}, Pending(r, op) PROVE Pending(r, op)'
    BY <1>3, <1>4, <1>5, <2>3, <2>4 DEF Pending, p
  <2>5. TripEnds(r)' /\ StopTrips(r)'
    BY <1>6, <2>2, <2>4 DEF TripEnds, StopTrips, Calm
  <2>6. ClosedLast(r)'
    <3>1. closed'[r] => tripped'[r] \/ Ended(r)'
      BY <2>2 DEF ClosedLast, Ended, Calm
    <3>2. ASSUME NEW u \in Threads, Run(u)' = r
          PROVE  \/ tripped'[r]
                 \/ Precedes(todo'[u], "trip", "closed")
                 \/ vm'[r] = "exited" /\ ("wipe" \in began'[r] \/ Precedes(todo'[u], "wipe", "closed"))
      <4>1. \/ tripped[r]
            \/ Precedes(todo[u], "trip", "closed")
            \/ vm[r] = "exited" /\ ("wipe" \in began[r] \/ Precedes(todo[u], "wipe", "closed"))
        BY <1>5, <2>2, <3>2 DEF ClosedLast
      <4>2. CASE u # t
        BY <1>4, <4>1, <4>2 DEF Calm
      <4>3. CASE u = t
        BY <1>3, <1>4, <2>3, <4>1, <4>3 DEF Calm, p
      <4> QED
        BY <4>2, <4>3
    <3> QED
      BY <3>1, <3>2 DEF ClosedLast
  <2>7. CloseHandled(r)'
    <3>1. CASE r # t
      BY <1>4, <1>7, <2>2, <3>1 DEF CloseHandled, At, Calm
    <3>2. CASE r = t /\ h = "bclose"
      <4>1. ~Has(q, "bclose")
        BY <1>3, <3>2, Order DEF Working, Inserted
      <4>2. Precedes(q, "failure", "bclose")
        BY <4>1 DEF Precedes, Has
      <4> QED
        BY <1>4, <3>2, <4>2 DEF CloseHandled
    <3>3. CASE r = t /\ h = "failure" /\ ~stopped[r]
      <4>1. ~failed[r]
        BY <3>3 DEF Idle
      <4>2. CASE ~Has(q, "bclose")
        <5>1. Precedes(q, "failure", "bclose")
          BY <4>2 DEF Precedes, Has
        <5> QED
          BY <1>4, <3>3, <5>1 DEF CloseHandled
      <4>3. CASE Has(q, "bclose")
        <5>1. p[2] = "bclose" /\ 2 \in 1 .. Len(p)
          <6>1. PICK j \in 1 .. Len(p) : p[j] = "bclose"
            BY <1>3, <4>3 DEF Has
          <6>2. j # 1 /\ 1 \in 1 .. Len(p) /\ 1 < j
            BY <1>1, <3>3, <6>1
          <6>3. j = 1 + 1
            BY <1>1, <3>3, <6>1, <6>2 DEF Caught, CloseAfterHandler
          <6> QED
            BY <6>1, <6>3
        <5>2. Drops(p, q, 1)
          BY <1>1, <5>1, PopDrops DEF p, q
        <5>3. q # <<>> /\ q[1] = "bclose"
          BY <1>1, <1>3, <5>1, <5>2 DEF Drops
        <5>4. At(r, "bclose")'
          BY <1>3, <1>4, <3>3, <5>3, FirstIsIn DEF At
        <5> QED
          BY <4>1, <5>4 DEF CloseHandled, Calm
      <4> QED
        BY <4>2, <4>3
    <3>4. CASE r = t /\ h # "bclose" /\ (h = "failure" => stopped[r])
      <4>1. Precedes(p, "failure", "bclose") \/ stopped[r]
        BY <1>1, <2>2, <3>4 DEF CloseHandled, At, p
      <4>2. h # "failure" \/ stopped[r]
        BY <3>4
      <4> QED
        BY <1>3, <1>4, <3>4, <4>1, <4>2 DEF CloseHandled, Calm
    <3> QED
      BY <3>1, <3>2, <3>3, <3>4
  <2> QED
    BY <2>5, <2>6, <2>7
<1>15. CoverInv'
  <2>1. SUFFICES ASSUME Len(faults') <= 1, ~Raised({"kill", "xrevoke"})',
                        NEW r \in Runs, phase'[r] # "new", vm'[r] # "none"
                 PROVE  \/ tripped'[r] \/ Ended(r)' \/ Direct(r)'
                        \/ Has(todo'[r], "trip") \/ Has(todo'[r], "fallback")
                        \/ stopped'[r] /\ Raised({"bclose"})'
    BY DEF CoverInv
  <2>2. \/ tripped[r] \/ Ended(r) \/ Direct(r)
        \/ Has(todo[r], "trip") \/ Has(todo[r], "fallback")
        \/ stopped[r] /\ Raised({"bclose"})
    BY <1>6, <2>1 DEF IInv, CoverInv, Calm
  <2>3. CASE r # t
    BY <1>4, <1>6, <1>7, <2>2, <2>3 DEF Ended, Direct, Calm
  <2>4. CASE r = t
    <3>1. h \notin {"trip", "kill", "cwipe"}
      BY DEF Idle
    <3>2. Direct(r) => Direct(r)'
      BY <1>3, <1>4, <2>4, <3>1 DEF Direct, Calm, p
    <3>3. h = "fallback" => tripped[r] \/ Ended(r)
      BY <2>4 DEF Idle, IInv, TripInv, ClosedLast
    <3>4. Has(p, "trip") => Has(q, "trip")
      BY <1>3, <3>1
    <3>5. Has(p, "fallback") /\ h # "fallback" => Has(q, "fallback")
      BY <1>3
    <3> QED
      BY <1>4, <1>6, <2>2, <2>4, <3>2, <3>3, <3>4, <3>5 DEF Ended, Calm, p
  <2> QED
    BY <2>3, <2>4
<1> QED
  BY <1>9, <1>10, <1>11, <1>12, <1>13, <1>14, <1>15, <1>16 DEF IInv

(***************************************************************************)
(* Steps that raise.                                                       *)
(***************************************************************************)
\* The fault that a step records, if any
Recorded(h) ==
    \/ h \in {"boot", "send", "agree", "raise", "loop", "enter"} /\ faults' = faults
    \/ h \in FaultKinds /\ faults' = Append(faults, h)

\* An operation that raises keeps the invariant.
LEMMA RaiseStep ==
    ASSUME IInv, TypeOK', OnceInv', NEW t \in Threads, NEW h, At(t, h),
           t \notin Runs => h \in {"emit", "kill", "xrevoke", "xwipe"},
           Raise(t), Recorded(h),
           UNCHANGED <<vm, live, stopped, tripped, closed, began, claimed, receipt, phase, subject>>
    PROVE  IInv'
<1> DEFINE p == todo[t]
           q == Unwind(Tail(todo[t]))
<1>0. h \in {"boot", "send", "agree", "raise", "loop", "enter",
             "emit", "bclose", "kill", "xrevoke", "xwipe"}
  BY DEF Recorded, FaultKinds
<1>1. /\ todo \in [Threads -> Seq(Operations)]
      /\ p \in Seq(Operations) /\ p # <<>> /\ p[1] = h /\ Has(p, h) /\ InOrder(p)
      /\ Run(t) \in Runs
      /\ t \in Runs => /\ Run(t) = t /\ t \notin Operators
                       /\ phase[t] = "inside" /\ Caught(p)
      /\ t \notin Runs => /\ t \in Operators /\ Run(t) = subject[t] /\ stopped[subject[t]]
                          /\ ~Has(p, "catch")
  BY Stepping
<1>2. todo' = [todo EXCEPT ![t] = q] /\ failed' = [r \in Runs |-> failed[r] \/ r = t]
  BY DEF Raise
<1>3. /\ q \in Seq(Operations) /\ InOrder(q)
      /\ \A op : Has(q, op) => Has(p, op) /\ h \in MayPrecede(op) /\ "catch" \in MayPrecede(op)
      /\ ~Has(p, "catch") => q = <<>>
      /\ Caught(p) =>
           /\ Caught(q)
           /\ Has(p, "leftover") /\ h # "leftover" => Has(q, "leftover")
           /\ Has(p, "fallback") /\ h \notin {"failure", "bclose", "fallback"} => Has(q, "fallback")
           /\ Has(p, "trip") /\ h # "trip" => Has(q, "trip")
           /\ Precedes(q, "trip", "closed")
           /\ Precedes(p, "failure", "bclose") /\ h # "failure" => Precedes(q, "failure", "bclose")
  <2>1. p[1] # "catch" /\ q = Unwind(Tail(p))
    BY <1>0, <1>1
  <2> HIDE DEF p, q
  <2> QED
    BY <1>1, <2>1, RaiseFacts
<1>4. todo'[t] = q /\ \A u \in Threads : u # t => todo'[u] = todo[u]
  BY <1>1, <1>2
<1>5. \A u : Run(u)' = Run(u)
  BY DEF Run
<1>6. /\ \A ops : Raised(ops) => Raised(ops)'
      /\ h \in FaultKinds => \A ops : h \in ops => Raised(ops)'
      /\ Len(faults') <= 1 => Len(faults) <= 1
  <2>1. CASE h \in {"boot", "send", "agree", "raise", "loop", "enter"} /\ faults' = faults
    BY <2>1 DEF Raised, FaultKinds
  <2>2. CASE h \in FaultKinds /\ faults' = Append(faults, h)
    BY <2>2, RaisedKept
  <2> QED
    BY <2>1, <2>2 DEF Recorded
<1>7. Runs \subseteq Threads /\ Operators \subseteq Threads /\ \A o \in Operators : o \notin Runs
  BY RunAssumption DEF Threads
<1>8. \A r \in Runs : failed'[r] <=> failed[r] \/ r = t
  <2>1. failed \in [Runs -> BOOLEAN]
    BY DEF IInv, TypeOK
  <2> QED
    BY <1>2, <2>1
\* what the list does not keep
<1>9. \A op \in {"receipt", "wait", "kill", "wipe", "launch", "raise"} : ~Has(q, op)
  BY <1>3, Order DEF Working, Inserted
<1> HIDE DEF p, q
<1>10. ReceiptAfterExit'
  BY DEF IInv, ReceiptAfterExit
<1>11. ListInv'
  <2>1. t \notin Runs => ~Has(q, "catch")
    BY <1>1, <1>3
  <2>2. todo[t] # <<>>
    BY DEF At
  <2> QED
    BY <1>1, <1>2, <1>3, <2>1, <2>2, ListsKept
<1>12. FreshInv'
  <2>1. SUFFICES ASSUME NEW r \in Runs, phase'[r] = "new" \/ Has(todo'[r], "launch")
                 PROVE  /\ vm'[r] = "none" /\ ~live'[r] /\ ~stopped'[r] /\ ~tripped'[r] /\ ~closed'[r]
                        /\ ~failed'[r] /\ ~receipt'[r]
    BY DEF FreshInv
  <2>2. r # t /\ (phase[r] = "new" \/ Has(todo[r], "launch"))
    BY <1>1, <1>4, <1>7, <1>9, <2>1
  <2> QED
    BY <1>8, <2>2 DEF IInv, FreshInv
<1>17. UnbornInv'
  <2>1. SUFFICES ASSUME NEW r \in Runs, vm'[r] = "none", phase'[r] # "new", ~Has(todo'[r], "launch")
                 PROVE  /\ ~live'[r] /\ ~stopped'[r]
                        /\ \A op \in {"start", "open", "activate", "loop", "wait", "failure",
                                      "fallback", "trip", "kill"} : ~Has(todo'[r], op)
    BY DEF UnbornInv
  <2>2. \A op : Has(todo'[r], op) => Has(todo[r], op)
    BY <1>3, <1>4, <1>7 DEF p
  <2>3. ~Has(todo[r], "launch")
    <3>1. CASE r = t
      <4>1. ~Has(p, "launch")
        BY <1>0, <1>1, Behind, Order
      <4> QED
        BY <3>1, <4>1 DEF p
    <3>2. CASE r # t
      BY <1>4, <1>7, <2>1, <3>2
    <3> QED
      BY <3>1, <3>2
  <2> QED
    BY <2>1, <2>2, <2>3 DEF IInv, UnbornInv
<1>13. SmoothInv'
  <2>1. SUFFICES ASSUME NEW r \in Runs
                 PROVE  /\ Has(todo'[r], "receipt") => ~failed'[r]
                        /\ Smooth(r)' /\ Has(todo'[r], "wait") => BeforeExit(r)'
                        /\ Smooth(r)' /\ ~Has(todo'[r], "wait") => AfterExit(r)'
    BY DEF SmoothInv
  <2>2. CASE r = t
    BY <1>4, <1>8, <1>9, <2>2 DEF Smooth
  <2>3. CASE r # t
    <3>1. todo'[r] = todo[r] /\ (failed'[r] <=> failed[r])
      BY <1>4, <1>7, <1>8, <2>3
    <3>2. Smooth(r)' <=> Smooth(r)
      BY <3>1 DEF Smooth
    <3>3. Has(todo'[r], "receipt") => ~failed'[r]
      BY <3>1 DEF IInv, SmoothInv
    <3>4. ASSUME Smooth(r)', Has(todo'[r], "wait") PROVE BeforeExit(r)'
      <4>1. BeforeExit(r)
        BY <3>1, <3>2, <3>4 DEF IInv, SmoothInv
      <4>2. ASSUME NEW o \in Operators, subject'[o] = r
            PROVE  /\ Has(todo'[o], "trip") => ~tripped'[r]
                   /\ \/ Precedes(todo'[o], "trip", "closed")
                      \/ \A x \in Callbacks : x \in began'[r] \/ Precedes(todo'[o], x, "closed")
        <5>1. CASE o # t
          BY <1>4, <1>7, <4>1, <4>2, <5>1 DEF BeforeExit
        <5>2. CASE o = t
          <6>1. todo'[o] = <<>>
            BY <1>1, <1>3, <1>4, <1>7, <5>2
          <6> QED
            BY <6>1, EmptyList
        <5> QED
          BY <5>1, <5>2
      <4> QED
        BY <3>1, <4>1, <4>2 DEF BeforeExit
    <3>5. ASSUME Smooth(r)', ~Has(todo'[r], "wait") PROVE AfterExit(r)'
      BY <3>1, <3>2, <3>5 DEF IInv, SmoothInv, AfterExit
    <3> QED
      BY <3>3, <3>4, <3>5
  <2> QED
    BY <2>2, <2>3
<1>14. ClaimInv'
  <2>1. SUFFICES ASSUME NEW r \in Runs, phase'[r] # "new", vm'[r] # "none"
                 PROVE  \/ "revoke" \in claimed'[r]
                        \/ At(r, "crevoke")'
                        \/ /\ Has(todo'[r], "leftover")
                           /\ failed'[r] \/ Has(todo'[r], "settle") \/ Has(todo'[r], "crevoke")
    BY DEF ClaimInv
  <2>2. \/ "revoke" \in claimed[r]
        \/ At(r, "crevoke")
        \/ /\ Has(todo[r], "leftover")
           /\ failed[r] \/ Has(todo[r], "settle") \/ Has(todo[r], "crevoke")
    BY <2>1 DEF IInv, ClaimInv
  <2>3. CASE r # t
    BY <1>4, <1>7, <1>8, <2>2, <2>3 DEF At
  <2>4. CASE r = t
    <3>1. ~At(r, "crevoke")
      BY <1>0, <2>4 DEF At
    <3>2. h # "leftover"
      BY <1>0
    <3> QED
      BY <1>1, <1>3, <1>4, <1>8, <2>2, <2>4, <3>1, <3>2 DEF p
  <2> QED
    BY <2>3, <2>4
<1>15. TripInv'
  <2>1. SUFFICES ASSUME NEW r \in Runs
                 PROVE  TripEnds(r)' /\ ClosedLast(r)' /\ StopTrips(r)' /\ CloseHandled(r)'
    BY DEF TripInv
  <2>2. TripEnds(r) /\ ClosedLast(r) /\ StopTrips(r) /\ CloseHandled(r)
    BY DEF IInv, TripInv
  <2>3. TripEnds(r)'
    <3>1. SUFFICES ASSUME tripped'[r], ~Raised({"kill", "xrevoke"})'
                   PROVE  /\ vm'[r] = "exited" \/ Pending(r, "kill")'
                          /\ "wipe" \in began'[r] \/ Pending(r, "wipe")'
      BY DEF TripEnds
    <3>2. h \notin {"kill", "xrevoke"}
      BY <1>6, <3>1 DEF FaultKinds
    <3>3. ~Has(p, "kill") /\ ~Has(p, "wipe")
      BY <1>0, <1>1, <3>2, Behind, Order
    <3>4. ASSUME NEW op \in {"kill", "wipe"}, Pending(r, op) PROVE Pending(r, op)'
      BY <1>4, <1>5, <3>3, <3>4 DEF Pending, p
    <3>5. vm[r] = "exited" \/ Pending(r, "kill")
      BY <1>6, <2>2, <3>1 DEF TripEnds
    <3>6. "wipe" \in began[r] \/ Pending(r, "wipe")
      BY <1>6, <2>2, <3>1 DEF TripEnds
    <3> QED
      BY <3>4, <3>5, <3>6
  <2>4. ClosedLast(r)'
    <3>1. closed'[r] => tripped'[r] \/ Ended(r)'
      BY <2>2 DEF ClosedLast, Ended
    <3>2. ASSUME NEW u \in Threads, Run(u)' = r
          PROVE  \/ tripped'[r]
                 \/ Precedes(todo'[u], "trip", "closed")
                 \/ vm'[r] = "exited" /\ ("wipe" \in began'[r] \/ Precedes(todo'[u], "wipe", "closed"))
      <4>1. \/ tripped[r]
            \/ Precedes(todo[u], "trip", "closed")
            \/ vm[r] = "exited" /\ ("wipe" \in began[r] \/ Precedes(todo[u], "wipe", "closed"))
        BY <1>5, <2>2, <3>2 DEF ClosedLast
      <4>2. CASE u # t
        BY <1>4, <4>1, <4>2
      <4>3. CASE u = t
        <5>1. Precedes(q, "trip", "closed")
          BY <1>1, <1>3, EmptyList
        <5> QED
          BY <1>4, <4>3, <5>1
      <4> QED
        BY <4>2, <4>3
    <3> QED
      BY <3>1, <3>2 DEF ClosedLast
  <2>5. StopTrips(r)'
    <3>1. SUFFICES ASSUME stopped'[r], ~Raised({"emit"})' PROVE tripped'[r] \/ Pending(r, "trip")'
      BY DEF StopTrips
    <3>2. tripped[r] \/ Pending(r, "trip")
      BY <1>6, <2>2, <3>1 DEF StopTrips
    <3>3. h # "emit" /\ h # "trip"
      BY <1>0, <1>6, <3>1 DEF FaultKinds
    <3>4. Has(p, "trip") => Has(q, "trip")
      <4>1. CASE t \in Runs
        BY <1>1, <1>3, <3>3, <4>1
      <4>2. CASE t \notin Runs
        <5>1. ~Has(p, "trip")
          BY <1>0, <1>1, <3>3, <4>2, Behind, Order
        <5> QED
          BY <5>1
      <4> QED
        BY <4>1, <4>2
    <3>5. Pending(r, "trip") => Pending(r, "trip")'
      BY <1>4, <1>5, <3>4 DEF Pending, p
    <3> QED
      BY <3>2, <3>5
  <2>6. CloseHandled(r)'
    <3>1. CASE r # t
      BY <1>4, <1>7, <1>8, <2>2, <3>1 DEF CloseHandled, At
    <3>2. CASE r = t /\ h = "bclose"
      <4>1. ~Has(q, "bclose")
        BY <1>3, <3>2, Order DEF Working, Inserted
      <4>2. Precedes(q, "failure", "bclose")
        BY <4>1 DEF Precedes, Has
      <4> QED
        BY <1>4, <3>2, <4>2 DEF CloseHandled
    <3>3. CASE r = t /\ h # "bclose"
      <4>1. Precedes(p, "failure", "bclose") \/ stopped[r]
        BY <1>1, <2>2, <3>3 DEF CloseHandled, At, p
      <4>2. h # "failure"
        BY <1>0
      <4> QED
        BY <1>1, <1>3, <1>4, <3>3, <4>1, <4>2 DEF CloseHandled
    <3> QED
      BY <3>1, <3>2, <3>3
  <2> QED
    BY <2>3, <2>4, <2>5, <2>6
<1>16. CoverInv'
  <2>1. SUFFICES ASSUME Len(faults') <= 1, ~Raised({"kill", "xrevoke"})',
                        NEW r \in Runs, phase'[r] # "new", vm'[r] # "none"
                 PROVE  \/ tripped'[r] \/ Ended(r)' \/ Direct(r)'
                        \/ Has(todo'[r], "trip") \/ Has(todo'[r], "fallback")
                        \/ stopped'[r] /\ Raised({"bclose"})'
    BY DEF CoverInv
  <2>2. \/ tripped[r] \/ Ended(r) \/ Direct(r)
        \/ Has(todo[r], "trip") \/ Has(todo[r], "fallback")
        \/ stopped[r] /\ Raised({"bclose"})
    BY <1>6, <2>1 DEF IInv, CoverInv
  <2>3. CASE r # t
    BY <1>4, <1>6, <1>7, <2>2, <2>3 DEF Ended, Direct
  <2>4. CASE r = t
    <3>0. h \notin {"kill", "xrevoke"}
      BY <1>6, <2>1 DEF FaultKinds
    <3>1. ASSUME Direct(r) PROVE Direct(r)'
      <4>1. ~Has(p, "kill")
        BY <1>0, <1>1, <3>0, Behind, Order
      <4>2. h # "xwipe" => ~Has(p, "cwipe")
        BY <1>0, <1>1, <3>0, Behind, Order DEF Inserted
      <4>3. ASSUME h = "xwipe" PROVE "wipe" \in claimed[r]
        <5>1. At(t, External["wipe"]) /\ "wipe" \in Callbacks /\ Run(t) = r
          BY <1>1, <2>4, <4>3 DEF External, Callbacks
        <5> QED
          BY <5>1 DEF IInv, OnceInv
      <4> QED
        BY <2>4, <3>1, <4>1, <4>2, <4>3 DEF Direct, p
    <3>2. Has(p, "trip") => Has(q, "trip")
      BY <1>0, <1>1, <1>3, <2>4
    <3>3. Has(p, "fallback") /\ h # "bclose" => Has(q, "fallback")
      BY <1>0, <1>1, <1>3, <2>4
    <3>4. ASSUME h = "bclose" PROVE (stopped[r] /\ Raised({"bclose"})') \/ Ended(r)
      <4>1. Raised({"bclose"})'
        BY <1>6, <3>4 DEF FaultKinds
      <4>2. CASE ~stopped[r]
        <5>1. ~failed[r]
          <6>1. ~Precedes(p, "failure", "bclose")
            BY <1>1, <3>4, PrecedesFirst
          <6> QED
            BY <2>4, <4>2, <6>1 DEF IInv, TripInv, CloseHandled, p
        <5>2. ~Has(p, "raise") /\ ~Has(p, "wait") /\ ~Has(p, "wipe")
          <6>1. \A op : Has(p, op) /\ op # "bclose" => "bclose" \in MayPrecede(op)
            BY <1>1, <3>4, Behind
          <6> QED
            BY <6>1, Order DEF Inserted, Working
        <5>3. Smooth(r)
          BY <1>1, <2>4, <5>1, <5>2 DEF Smooth, p
        <5>4. AfterExit(r)
          BY <2>4, <5>2, <5>3 DEF IInv, SmoothInv, p
        <5> QED
          BY <2>4, <5>2, <5>4 DEF AfterExit, Ended, Callbacks, p
      <4> QED
        BY <4>1, <4>2
    <3> QED
      BY <1>4, <1>6, <2>2, <2>4, <3>1, <3>2, <3>3, <3>4 DEF Ended, p
  <2> QED
    BY <2>3, <2>4
<1> QED
  BY <1>10, <1>11, <1>12, <1>13, <1>14, <1>15, <1>16, <1>17 DEF IInv

(***************************************************************************)
(* Steps of a run that put operations in front.                            *)
(***************************************************************************)
Adds(r, h, m) ==
    \/ h = "loop" /\ m = <<"emit", "loop">>
    \/ h \in {"loop", "wait"} /\ m = Expired
    \/ h = "wait" /\ m = Finish /\ vm[r] = "exited"
    \/ h = "fallback" /\ m = LifecycleStop
    \/ h = "settle" /\ m = <<"crevoke", "cwipe">>
    \/ h = "leftover" /\ m = WithoutWorker
    \/ h = "failure" /\ m = StopAfterFailure

\* What the proofs use of them
LEMMA AddsFacts ==
    ASSUME NEW r, NEW h, NEW m, Adds(r, h, m)
    PROVE  /\ h \in {"loop", "wait", "fallback", "settle", "leftover", "failure"}
           /\ m \in Seq(Operations) /\ m # <<>> /\ InOrder(m) /\ Pushable(h, m)
           /\ m[1] \in {"emit", "trip", "revoke", "crevoke"}
           /\ \A b : h \in MayPrecede(b) => \A i \in 1 .. Len(m) : m[i] \in MayPrecede(b)
           /\ \A op : Has(m, op) => op \in {"emit", "loop", "trip", "closed", "raise", "revoke",
                                            "wipe", "crevoke", "catch", "cwipe"}
           /\ h = "loop" => Has(m, "raise") \/ (~Has(m, "trip") /\ ~Has(m, "closed"))
           /\ h = "wait" => \/ Has(m, "raise")
                            \/ Has(m, "revoke") /\ Has(m, "wipe") /\ vm[r] = "exited"
           /\ Has(m, "closed") =>
                \/ Has(m, "trip") /\ Precedes(m, "trip", "closed")
                \/ Has(m, "wipe") /\ Precedes(m, "wipe", "closed") /\ vm[r] = "exited"
           /\ h \in {"fallback", "failure"} => Has(m, "trip")
           /\ h = "settle" => Has(m, "crevoke")
           /\ h = "leftover" => m[1] = "crevoke"
<1>1. CASE h = "loop" /\ m = <<"emit", "loop">>
  BY <1>1, StreamList
<1>2. CASE h \in {"loop", "wait"} /\ m = Expired
  BY <1>2, ExpiredList
<1>3. CASE h = "wait" /\ m = Finish /\ vm[r] = "exited"
  BY <1>3, FinishList
<1>4. CASE h = "fallback" /\ m = LifecycleStop
  BY <1>4, StopList
<1>5. CASE h = "settle" /\ m = <<"crevoke", "cwipe">>
  BY <1>5, SettleList
<1>6. CASE h = "leftover" /\ m = WithoutWorker
  BY <1>6, WithoutWorkerList
<1>7. CASE h = "failure" /\ m = StopAfterFailure
  BY <1>7, FailureList
<1> QED
  BY <1>1, <1>2, <1>3, <1>4, <1>5, <1>6, <1>7 DEF Adds

\* An operation that puts others in front keeps the invariant.
LEMMA AddStep ==
    ASSUME IInv, TypeOK', NEW t \in Runs, NEW h, At(t, h), NEW m, Adds(t, h, m),
           Continue(t, m), Calm, live' = live, receipt' = receipt,
           \A r \in Runs : stopped'[r] <=> stopped[r] \/ (r = t /\ h = "failure")
    PROVE  IInv'
<1> DEFINE p == todo[t]
           q == Enter(m \o Tail(todo[t]))
<1>a. t \in Threads
  BY DEF Threads
<1>0. /\ h \in {"loop", "wait", "fallback", "settle", "leftover", "failure"}
      /\ m \in Seq(Operations) /\ m # <<>> /\ InOrder(m) /\ Pushable(h, m)
      /\ m[1] \in {"emit", "trip", "revoke", "crevoke"}
      /\ \A b : h \in MayPrecede(b) => \A i \in 1 .. Len(m) : m[i] \in MayPrecede(b)
      /\ \A op : Has(m, op) => op \in {"emit", "loop", "trip", "closed", "raise", "revoke",
                                       "wipe", "crevoke", "catch", "cwipe"}
      /\ h = "loop" => Has(m, "raise") \/ (~Has(m, "trip") /\ ~Has(m, "closed"))
      /\ h = "wait" => \/ Has(m, "raise")
                       \/ Has(m, "revoke") /\ Has(m, "wipe") /\ vm[t] = "exited"
      /\ Has(m, "closed") =>
           \/ Has(m, "trip") /\ Precedes(m, "trip", "closed")
           \/ Has(m, "wipe") /\ Precedes(m, "wipe", "closed") /\ vm[t] = "exited"
      /\ h \in {"fallback", "failure"} => Has(m, "trip")
      /\ h = "settle" => Has(m, "crevoke")
      /\ h = "leftover" => m[1] = "crevoke"
  BY AddsFacts
<1>1. /\ todo \in [Threads -> Seq(Operations)]
      /\ p \in Seq(Operations) /\ p # <<>> /\ p[1] = h /\ Has(p, h) /\ InOrder(p)
      /\ Run(t) = t /\ t \notin Operators /\ phase[t] = "inside" /\ Caught(p)
  BY <1>a, Stepping
<1>2. todo' = [todo EXCEPT ![t] = q]
  BY DEF Continue
<1>3. /\ q \in Seq(Operations) /\ q # <<>> /\ q[1] = m[1]
      /\ \A op : Has(q, op) => Has(m, op) \/ (Has(p, op) /\ h \in MayPrecede(op))
      /\ \A op : Has(m, op) => Has(q, op)
      /\ \A op : Has(p, op) /\ op # h => Has(q, op)
      /\ \A a, b : Precedes(p, a, b) /\ a # h /\ ~Has(m, b) => Precedes(q, a, b)
      /\ \A a, b : Has(m, a) /\ Precedes(m, a, b) => Precedes(q, a, b)
      /\ InOrder(q) /\ Caught(q)
  <2>1. m[1] # "catch" /\ p[1] \notin {"catch", "bclose"} /\ Pushable(p[1], m) /\ q = Enter(m \o Tail(p))
    BY <1>0, <1>1
  <2> HIDE DEF p, q
  <2>2. Caught(q)
    BY <1>0, <1>1, <2>1, PushCaught
  <2> QED
    BY <1>0, <1>1, <2>1, <2>2, PushFacts
<1>4. todo'[t] = q /\ \A u \in Threads : u # t => todo'[u] = todo[u]
  BY <1>a, <1>1, <1>2
<1>5. \A u : Run(u)' = Run(u)
  BY DEF Run, Calm
<1>6. \A ops : Raised(ops)' = Raised(ops)
  BY DEF Raised, Calm
<1>s. \A r \in Runs : stopped[r] => stopped'[r]
  OBVIOUS
<1>7. Runs \subseteq Threads /\ Operators \subseteq Threads /\ \A o \in Operators : o \notin Runs
  BY RunAssumption DEF Threads
<1>8. At(t, m[1])'
  BY <1>3, <1>4, FirstIsIn DEF At
<1> HIDE DEF p, q
<1>9. ReceiptAfterExit'
  BY DEF IInv, ReceiptAfterExit, Calm
<1>10. ListInv'
  <2>1. todo[t] # <<>>
    BY DEF At
  <2> QED
    BY <1>a, <1>s, <1>2, <1>3, <2>1, ListsKept DEF Calm
<1>11. FreshInv'
  <2>1. ~Has(q, "launch")
    BY <1>0, <1>3, Order
  <2> QED
    BY <1>1, <1>4, <1>7, <2>1 DEF IInv, FreshInv, Calm
<1>17. UnbornInv'
  <2>1. SUFFICES ASSUME NEW r \in Runs, vm'[r] = "none", phase'[r] # "new", ~Has(todo'[r], "launch")
                 PROVE  /\ ~live'[r] /\ ~stopped'[r]
                        /\ \A op \in {"start", "open", "activate", "loop", "wait", "failure",
                                      "fallback", "trip", "kill"} : ~Has(todo'[r], op)
    BY DEF UnbornInv
  <2>2. CASE r # t
    BY <1>4, <1>7, <2>1, <2>2 DEF IInv, UnbornInv, Calm
  <2>3. CASE r = t
    <3>1. ~Has(p, "launch")
      BY <1>0, <1>1, Behind, Order
    <3>2. /\ ~live[r] /\ ~stopped[r]
          /\ \A op \in {"start", "open", "activate", "loop", "wait", "failure",
                        "fallback", "trip", "kill"} : ~Has(p, op)
      BY <2>1, <2>3, <3>1 DEF IInv, UnbornInv, Calm, p
    <3>3. h \in {"settle", "leftover"}
      BY <1>0, <1>1, <3>2
    <3>4. \A op : Has(m, op) => op \in {"crevoke", "catch", "cwipe"}
      BY <3>3, SettleList, WithoutWorkerList DEF Adds
    <3> QED
      BY <1>3, <1>4, <2>3, <3>2, <3>3, <3>4
  <2> QED
    BY <2>2, <2>3
<1>12. OnceInv'
  <2>1. q # <<>> => Head(q) \notin {"xrevoke", "xwipe"}
    BY <1>0, <1>3, FirstIsIn
  <2> QED
    BY <1>a, <1>0, <1>2, <2>1, OnceKept DEF Calm
<1>13. SmoothInv'
  <2>1. SUFFICES ASSUME NEW r \in Runs
                 PROVE  /\ Has(todo'[r], "receipt") => ~failed'[r]
                        /\ Smooth(r)' /\ Has(todo'[r], "wait") => BeforeExit(r)'
                        /\ Smooth(r)' /\ ~Has(todo'[r], "wait") => AfterExit(r)'
    BY DEF SmoothInv
  <2>o. \A o \in Operators : todo'[o] = todo[o]
    BY <1>4, <1>7
  <2>2. CASE r # t
    <3>1. todo'[r] = todo[r]
      BY <1>4, <1>7, <2>2
    <3> QED
      BY <2>o, <3>1 DEF IInv, SmoothInv, Smooth, BeforeExit, AfterExit, Calm
  <2>3. CASE r = t
    <3>1. Has(q, "receipt") => ~failed'[r]
      BY <1>0, <1>3, <2>3 DEF IInv, SmoothInv, Calm, p
    <3>2. ASSUME Smooth(r)' PROVE Smooth(r) /\ ~Has(m, "raise")
      <4>1. ~Has(q, "raise")
        BY <1>4, <2>3, <3>2 DEF Smooth
      <4>2. ~Has(p, "raise") /\ ~Has(m, "raise")
        BY <1>0, <1>3, <4>1
      <4> QED
        BY <2>3, <3>2, <4>2 DEF Smooth, Calm, p
    <3>3. ASSUME Smooth(r)', Has(q, "wait") PROVE BeforeExit(r)'
      <4>1. Has(p, "wait") /\ h = "loop"
        BY <1>0, <1>3, <3>3, Order DEF Working, Inserted
      <4>2. ~Has(m, "trip") /\ ~Has(m, "closed")
        BY <1>0, <3>2, <3>3, <4>1
      <4>3. BeforeExit(r)
        BY <2>3, <3>2, <3>3, <4>1 DEF IInv, SmoothInv, p
      <4>4. ~Has(q, "trip") /\ ~Has(q, "closed")
        BY <1>3, <2>3, <4>2, <4>3 DEF BeforeExit, p
      <4> QED
        BY <1>4, <2>o, <2>3, <4>3, <4>4 DEF BeforeExit, Calm
    <3>4. ASSUME Smooth(r)', ~Has(q, "wait") PROVE AfterExit(r)'
      <4>1. CASE Has(p, "wait")
        <5>1. h = "wait"
          BY <1>3, <3>4, <4>1
        <5>2. Has(m, "revoke") /\ Has(m, "wipe") /\ vm[t] = "exited"
          BY <1>0, <3>2, <3>4, <5>1
        <5> QED
          BY <1>3, <1>4, <2>3, <5>2 DEF AfterExit, Callbacks, Calm
      <4>2. CASE ~Has(p, "wait")
        <5>1. AfterExit(r)
          BY <2>3, <3>2, <3>4, <4>2 DEF IInv, SmoothInv, p
        <5>2. h \notin Callbacks
          BY <1>0 DEF Callbacks
        <5> QED
          BY <1>3, <1>4, <2>3, <5>1, <5>2 DEF AfterExit, Calm, p
      <4> QED
        BY <4>1, <4>2
    <3> QED
      BY <1>4, <2>3, <3>1, <3>3, <3>4
  <2> QED
    BY <2>2, <2>3
<1>14. ClaimInv'
  <2>1. SUFFICES ASSUME NEW r \in Runs, phase'[r] # "new", vm'[r] # "none"
                 PROVE  \/ "revoke" \in claimed'[r]
                        \/ At(r, "crevoke")'
                        \/ /\ Has(todo'[r], "leftover")
                           /\ failed'[r] \/ Has(todo'[r], "settle") \/ Has(todo'[r], "crevoke")
    BY DEF ClaimInv
  <2>2. \/ "revoke" \in claimed[r]
        \/ At(r, "crevoke")
        \/ /\ Has(todo[r], "leftover")
           /\ failed[r] \/ Has(todo[r], "settle") \/ Has(todo[r], "crevoke")
    BY <2>1 DEF IInv, ClaimInv, Calm
  <2>3. CASE r # t
    BY <1>4, <1>7, <2>2, <2>3 DEF At, Calm
  <2>4. CASE r = t
    <3>1. ~At(r, "crevoke")
      BY <1>0, <2>4 DEF At
    <3>2. h # "crevoke"
      BY <1>0
    <3> QED
      BY <1>0, <1>3, <1>4, <1>8, <2>2, <2>4, <3>1, <3>2 DEF Calm, p
  <2> QED
    BY <2>3, <2>4
<1>15. TripInv'
  <2>1. SUFFICES ASSUME NEW r \in Runs
                 PROVE  TripEnds(r)' /\ ClosedLast(r)' /\ StopTrips(r)' /\ CloseHandled(r)'
    BY DEF TripInv
  <2>2. TripEnds(r) /\ ClosedLast(r) /\ StopTrips(r) /\ CloseHandled(r)
    BY DEF IInv, TripInv
  <2>3. \A op \in {"kill", "wipe", "trip"} : h # op
    BY <1>0
  <2>4. ASSUME NEW op \in {"kill", "wipe", "trip"}, Pending(r, op) PROVE Pending(r, op)'
    BY <1>3, <1>4, <1>5, <2>3, <2>4 DEF Pending, p
  <2>5. TripEnds(r)'
    BY <1>6, <2>2, <2>4 DEF TripEnds, Calm
  <2>8. StopTrips(r)'
    <3>1. ASSUME r = t, h = "failure" PROVE Pending(r, "trip")'
      <4>1. Run(t)' = r /\ Has(todo'[t], "trip")
        BY <1>0, <1>1, <1>3, <1>4, <1>5, <3>1
      <4> QED
        BY <1>a, <4>1 DEF Pending
    <3> QED
      BY <1>6, <2>2, <2>4, <3>1 DEF StopTrips, Calm
  <2>6. ClosedLast(r)'
    <3>1. closed'[r] => tripped'[r] \/ Ended(r)'
      BY <2>2 DEF ClosedLast, Ended, Calm
    <3>2. ASSUME NEW u \in Threads, Run(u)' = r
          PROVE  \/ tripped'[r]
                 \/ Precedes(todo'[u], "trip", "closed")
                 \/ vm'[r] = "exited" /\ ("wipe" \in began'[r] \/ Precedes(todo'[u], "wipe", "closed"))
      <4>1. \/ tripped[r]
            \/ Precedes(todo[u], "trip", "closed")
            \/ vm[r] = "exited" /\ ("wipe" \in began[r] \/ Precedes(todo[u], "wipe", "closed"))
        BY <1>5, <2>2, <3>2 DEF ClosedLast
      <4>2. CASE u # t
        BY <1>4, <4>1, <4>2 DEF Calm
      <4>3. CASE u = t /\ Has(m, "closed")
        <5>1. r = t
          BY <1>1, <1>5, <3>2, <4>3
        <5> QED
          BY <1>0, <1>3, <1>4, <4>3, <5>1 DEF Calm
      <4>4. CASE u = t /\ ~Has(m, "closed")
        BY <1>3, <1>4, <2>3, <4>1, <4>4 DEF Calm, p
      <4> QED
        BY <4>2, <4>3, <4>4
    <3> QED
      BY <3>1, <3>2 DEF ClosedLast
  <2>7. CloseHandled(r)'
    <3>1. CASE r # t
      BY <1>4, <1>7, <2>2, <3>1 DEF CloseHandled, At, Calm
    <3>2. CASE r = t
      <4>1. Precedes(p, "failure", "bclose") \/ stopped[r]
        BY <1>0, <1>1, <2>2, <3>2 DEF CloseHandled, At, p
      <4>2. ~Has(m, "bclose")
        BY <1>0
      <4> QED
        BY <1>3, <1>4, <3>2, <4>1, <4>2 DEF CloseHandled, Calm
    <3> QED
      BY <3>1, <3>2
  <2> QED
    BY <2>5, <2>6, <2>7, <2>8
<1>16. CoverInv'
  <2>1. SUFFICES ASSUME Len(faults') <= 1, ~Raised({"kill", "xrevoke"})',
                        NEW r \in Runs, phase'[r] # "new", vm'[r] # "none"
                 PROVE  \/ tripped'[r] \/ Ended(r)' \/ Direct(r)'
                        \/ Has(todo'[r], "trip") \/ Has(todo'[r], "fallback")
                        \/ stopped'[r] /\ Raised({"bclose"})'
    BY DEF CoverInv
  <2>2. \/ tripped[r] \/ Ended(r) \/ Direct(r)
        \/ Has(todo[r], "trip") \/ Has(todo[r], "fallback")
        \/ stopped[r] /\ Raised({"bclose"})
    BY <1>6, <2>1 DEF IInv, CoverInv, Calm
  <2>3. CASE r # t
    BY <1>4, <1>6, <1>7, <2>2, <2>3 DEF Ended, Direct, Calm
  <2>4. CASE r = t
    <3>1. h \notin {"trip", "kill", "cwipe"}
      BY <1>0
    <3>2. Direct(r) => Direct(r)'
      BY <1>3, <1>4, <2>4, <3>1 DEF Direct, Calm, p
    <3>3. Has(p, "trip") => Has(q, "trip")
      BY <1>3, <3>1
    <3>4. Has(p, "fallback") => Has(q, "fallback") \/ Has(q, "trip")
      BY <1>0, <1>3
    <3> QED
      BY <1>4, <1>6, <2>2, <2>4, <3>2, <3>3, <3>4 DEF Ended, Calm, p
  <2> QED
    BY <2>3, <2>4
<1> QED
  BY <1>9, <1>10, <1>11, <1>12, <1>13, <1>14, <1>15, <1>16, <1>17 DEF IInv

(***************************************************************************)
(* Steps of the lifecycle and of the cleanup object, in either thread.     *)
(***************************************************************************)
\* The step that does h for run s, before the operations of m
Grows(s, h, m) ==
    /\ h \in Inserted
    /\ \A op : Has(m, op) => op \in {"revoke", "kill", "wipe", "crevoke", "cwipe", "xrevoke", "xwipe"}
    /\ h = "trip" => tripped[s] \/ (Has(m, "revoke") /\ Has(m, "kill") /\ Has(m, "wipe"))
    /\ Has(m, "kill") => h = "trip"
    /\ \A r \in Runs :
         /\ r # s => /\ vm'[r] = vm[r] /\ tripped'[r] = tripped[r] /\ closed'[r] = closed[r]
                     /\ began'[r] = began[r] /\ claimed'[r] = claimed[r]
         /\ r = s => /\ vm'[r] = IF h = "kill" THEN "exited" ELSE vm[r]
                     /\ tripped'[r] <=> tripped[r] \/ h = "trip"
                     /\ closed'[r] <=> closed[r] \/ h = "closed"
                     /\ \A x \in Callbacks : x \in began'[r] <=> x \in began[r] \/ x = h
                     /\ \A x \in Callbacks : x \in claimed'[r] <=> x \in claimed[r] \/ Cleanup[x] = h
    /\ UNCHANGED <<live, stopped, failed, receipt, faults, phase, subject>>

\* The list after it: m, then what was behind h
Passes(p, q, h, m) ==
    /\ q \in Seq(Operations) /\ InOrder(q)
    /\ \A op : Has(q, op) => Has(m, op) \/ (Has(p, op) /\ h \in MayPrecede(op))
    /\ \A op : Has(m, op) => Has(q, op)
    /\ \A op : Has(p, op) /\ op # h /\ op # "catch" => Has(q, op)
    /\ \A a, b : Precedes(p, a, b) /\ a # h /\ a # "catch" /\ ~Has(m, b) => Precedes(q, a, b)
    /\ \A a, b : Has(m, a) /\ Precedes(m, a, b) => Precedes(q, a, b)

\* A step of the lifecycle or of the cleanup object keeps the invariant.
LEMMA GrowStep ==
    ASSUME IInv, TypeOK', OnceInv', NEW t \in Threads, NEW h, At(t, h), NEW m, NEW q,
           Grows(Run(t), h, m), Passes(todo[t], q, h, m), t \in Runs => Caught(q),
           todo' = [todo EXCEPT ![t] = q]
    PROVE  IInv'
<1> DEFINE p == todo[t]
           s == Run(t)
<1>1. /\ todo \in [Threads -> Seq(Operations)]
      /\ p \in Seq(Operations) /\ p # <<>> /\ p[1] = h /\ Has(p, h) /\ InOrder(p)
      /\ s \in Runs
      /\ t \in Runs => /\ s = t /\ t \notin Operators
                       /\ phase[t] = "inside" /\ Caught(p)
      /\ t \notin Runs => /\ t \in Operators /\ s = subject[t] /\ stopped[subject[t]]
                          /\ ~Has(p, "catch")
  BY Stepping
<1>2. /\ h \in Inserted
      /\ \A op : Has(m, op) => op \in {"revoke", "kill", "wipe", "crevoke", "cwipe", "xrevoke", "xwipe"}
      /\ h = "trip" => tripped[s] \/ (Has(m, "revoke") /\ Has(m, "kill") /\ Has(m, "wipe"))
  BY DEF Grows
<1>3. /\ q \in Seq(Operations) /\ InOrder(q)
      /\ \A op : Has(q, op) => Has(m, op) \/ (Has(p, op) /\ h \in MayPrecede(op))
      /\ \A op : Has(m, op) => Has(q, op)
      /\ \A op : Has(p, op) /\ op # h /\ op # "catch" => Has(q, op)
      /\ \A a, b : Precedes(p, a, b) /\ a # h /\ a # "catch" /\ ~Has(m, b) => Precedes(q, a, b)
      /\ \A a, b : Has(m, a) /\ Precedes(m, a, b) => Precedes(q, a, b)
  BY DEF Passes
<1>4. todo'[t] = q /\ \A u \in Threads : u # t => todo'[u] = todo[u]
  BY <1>1
<1>5. UNCHANGED <<live, stopped, failed, receipt, faults, phase, subject>>
  BY DEF Grows
<1>6. \A u : Run(u)' = Run(u)
  BY <1>5 DEF Run
<1>7. \A ops : Raised(ops)' = Raised(ops)
  BY <1>5 DEF Raised
<1>8. Runs \subseteq Threads /\ Operators \subseteq Threads /\ \A o \in Operators : o \notin Runs
  BY RunAssumption DEF Threads
\* the others are left alone
<1>9. \A r \in Runs : r # s =>
        /\ vm'[r] = vm[r] /\ tripped'[r] = tripped[r] /\ closed'[r] = closed[r]
        /\ began'[r] = began[r] /\ claimed'[r] = claimed[r]
  BY DEF Grows
<1>10. /\ vm'[s] = IF h = "kill" THEN "exited" ELSE vm[s]
       /\ tripped'[s] <=> tripped[s] \/ h = "trip"
       /\ closed'[s] <=> closed[s] \/ h = "closed"
       /\ \A x \in Callbacks : x \in began'[s] <=> x \in began[s] \/ x = h
       /\ \A x \in Callbacks : x \in claimed'[s] <=> x \in claimed[s] \/ Cleanup[x] = h
  BY <1>1 DEF Grows
<1>11. "revoke" \in Callbacks /\ "wipe" \in Callbacks /\ Cleanup["revoke"] = "crevoke" /\ Cleanup["wipe"] = "cwipe"
  BY DEF Callbacks, Cleanup
\* nothing is taken back
<1>12. \A r \in Runs :
         /\ vm[r] = "exited" => vm'[r] = "exited"
         /\ vm'[r] # "none" => vm[r] # "none" \/ (r = s /\ h = "kill")
         /\ tripped[r] => tripped'[r]
         /\ closed[r] => closed'[r]
         /\ \A x \in Callbacks : x \in began[r] => x \in began'[r]
         /\ \A x \in Callbacks : x \in claimed[r] => x \in claimed'[r]
  BY <1>9, <1>10
<1>13. began' \in [Runs -> SUBSET Callbacks] /\ began \in [Runs -> SUBSET Callbacks]
  BY DEF TypeOK, IInv
<1>14. h # "wait" /\ h # "raise" /\ h # "receipt" /\ h # "catch" /\ h # "failure"
       /\ h # "bclose" /\ h # "fallback" /\ h # "leftover" /\ h # "settle" /\ h # "launch"
  BY <1>2 DEF Inserted
<1> HIDE DEF p, s
\* a run whose lifecycle does something is no longer fresh
<1>15. phase[s] # "new" /\ ~Has(todo[s], "launch") /\ ~Has(todo'[s], "launch")
  <2>1. CASE t \in Runs
    <3>1. ~Has(p, "launch")
      BY <1>1, <1>2, <1>14, Behind, Order DEF Inserted
    <3>2. ~Has(q, "launch")
      BY <1>2, <1>3, <3>1
    <3> QED
      BY <1>1, <1>4, <2>1, <3>1, <3>2 DEF p
  <2>2. CASE t \notin Runs
    <3>1. phase[s] # "new" /\ ~Has(todo[s], "launch")
      BY <1>1, <2>2 DEF IInv, FreshInv
    <3>2. todo'[s] = todo[s]
      BY <1>1, <1>4, <1>8, <2>2
    <3> QED
      BY <3>1, <3>2
  <2> QED
    BY <2>1, <2>2
<1>16. ASSUME h \in {"kill", "trip"} PROVE vm[s] # "none"
  <2>1. Has(todo[s], h) \/ stopped[s]
    BY <1>1 DEF p
  <2> QED
    BY <1>1, <1>15, <1>16, <2>1 DEF IInv, UnbornInv
<1>17. \A r \in Runs : vm'[r] # "none" <=> vm[r] # "none"
  BY <1>9, <1>10, <1>16
<1>18. ReceiptAfterExit'
  <2>1. \A r \in Runs : began[r] = Callbacks => began'[r] = Callbacks
    BY <1>12, <1>13
  <2> QED
    BY <1>5, <1>12, <2>1 DEF IInv, ReceiptAfterExit
<1>19. ListInv'
  <2>1. t \notin Runs => ~Has(q, "catch")
    BY <1>1, <1>2, <1>3
  <2>2. todo[t] # <<>>
    BY DEF At
  <2> QED
    BY <1>3, <1>5, <2>1, <2>2, ListsKept
<1>20. FreshInv'
  <2>1. SUFFICES ASSUME NEW r \in Runs, phase'[r] = "new" \/ Has(todo'[r], "launch")
                 PROVE  /\ vm'[r] = "none" /\ ~live'[r] /\ ~stopped'[r] /\ ~tripped'[r] /\ ~closed'[r]
                        /\ ~failed'[r] /\ ~receipt'[r]
    BY DEF FreshInv
  <2>2. r # s
    BY <1>5, <1>15, <2>1
  <2>3. todo'[r] = todo[r]
    BY <1>1, <1>4, <1>8, <2>2
  <2> QED
    BY <1>5, <1>9, <2>1, <2>2, <2>3 DEF IInv, FreshInv
<1>21. UnbornInv'
  <2>1. SUFFICES ASSUME NEW r \in Runs, vm'[r] = "none", phase'[r] # "new", ~Has(todo'[r], "launch")
                 PROVE  /\ ~live'[r] /\ ~stopped'[r]
                        /\ \A op \in {"start", "open", "activate", "loop", "wait", "failure",
                                      "fallback", "trip", "kill"} : ~Has(todo'[r], op)
    BY DEF UnbornInv
  <2>2. CASE r # t
    <3>1. todo'[r] = todo[r]
      BY <1>4, <1>8, <2>2
    <3> QED
      BY <1>5, <1>17, <2>1, <3>1 DEF IInv, UnbornInv
  <2>3. CASE r = t
    <3>1. r = s /\ vm[s] = "none"
      BY <1>1, <1>17, <2>1, <2>3
    <3>2. /\ ~live[r] /\ ~stopped[r]
          /\ \A op \in {"start", "open", "activate", "loop", "wait", "failure",
                        "fallback", "trip", "kill"} : ~Has(p, op)
      BY <1>15, <2>1, <2>3, <3>1 DEF IInv, UnbornInv, p
    <3>3. ~Has(m, "kill")
      BY <1>16, <3>1 DEF Grows, s
    <3> QED
      BY <1>2, <1>3, <1>4, <1>5, <2>3, <3>2, <3>3
  <2> QED
    BY <2>2, <2>3
<1>22. SmoothInv'
  <2>1. SUFFICES ASSUME NEW r \in Runs
                 PROVE  /\ Has(todo'[r], "receipt") => ~failed'[r]
                        /\ Smooth(r)' /\ Has(todo'[r], "wait") => BeforeExit(r)'
                        /\ Smooth(r)' /\ ~Has(todo'[r], "wait") => AfterExit(r)'
    BY DEF SmoothInv
  <2>2. /\ Has(todo[r], "receipt") => ~failed[r]
        /\ Smooth(r) /\ Has(todo[r], "wait") => BeforeExit(r)
        /\ Smooth(r) /\ ~Has(todo[r], "wait") => AfterExit(r)
    BY DEF IInv, SmoothInv
  <2>3. CASE r # s
    <3>1. todo'[r] = todo[r] /\ \A o \in Operators : subject[o] = r => todo'[o] = todo[o]
      BY <1>1, <1>4, <1>8, <2>3
    <3> QED
      BY <1>5, <1>9, <2>2, <2>3, <3>1 DEF Smooth, BeforeExit, AfterExit
  <2>4. CASE r = s /\ t \in Runs
    <3>1. r = t /\ todo[r] = p /\ todo'[r] = q
      BY <1>1, <1>4, <2>4 DEF p
    <3>2. /\ Has(q, "receipt") => Has(p, "receipt")
          /\ Has(q, "wait") <=> Has(p, "wait")
          /\ Has(q, "raise") <=> Has(p, "raise")
      BY <1>2, <1>3, <1>14
    <3>3. Smooth(r)' <=> Smooth(r)
      BY <1>5, <3>1, <3>2 DEF Smooth
    <3>4. ASSUME Smooth(r)', Has(q, "wait") PROVE BeforeExit(r)'
      <4>1. BeforeExit(r)
        BY <2>2, <3>1, <3>2, <3>3, <3>4
      <4>2. h # "trip" /\ h # "closed" /\ ~Has(p, "trip") /\ ~Has(p, "closed")
        BY <1>1, <3>1, <4>1 DEF BeforeExit
      <4>3. ~Has(q, "trip") /\ ~Has(q, "closed")
        BY <1>2, <1>3, <4>2
      <4>4. /\ tripped'[r] <=> tripped[r]
            /\ closed'[r] <=> closed[r]
        BY <1>10, <2>4, <4>2
      <4>5. began[r] = Callbacks => began'[r] = Callbacks
        BY <1>12, <1>13
      <4>6. \A o \in Operators : todo'[o] = todo[o]
        BY <1>4, <1>8, <2>4
      <4>7. \A x \in Callbacks : x \in began[r] => x \in began'[r]
        BY <1>12
      <4> QED
        BY <1>5, <3>1, <4>1, <4>3, <4>4, <4>5, <4>6, <4>7 DEF BeforeExit
    <3>5. ASSUME Smooth(r)', ~Has(q, "wait") PROVE AfterExit(r)'
      <4>1. AfterExit(r)
        BY <2>2, <3>1, <3>2, <3>3, <3>5
      <4>2. \A x \in Callbacks : x # "catch"
        BY DEF Callbacks
      <4> QED
        BY <1>3, <1>10, <1>12, <2>4, <3>1, <4>1, <4>2 DEF AfterExit
    <3> QED
      BY <1>5, <2>2, <3>1, <3>2, <3>4, <3>5
  <2>5. CASE r = s /\ t \notin Runs
    <3>1. todo'[r] = todo[r] /\ stopped[r] /\ t \in Operators
      BY <1>1, <1>4, <1>8, <2>5
    <3>2. Smooth(r)' <=> Smooth(r)
      BY <1>5, <3>1 DEF Smooth
    <3>3. ASSUME Smooth(r)', Has(todo'[r], "wait") PROVE BeforeExit(r)'
      <4>1. BeforeExit(r)
        BY <2>2, <3>1, <3>2, <3>3
      <4>2. /\ Has(p, "trip") => ~tripped[r]
            /\ \/ Precedes(p, "trip", "closed")
               \/ \A x \in Callbacks : x \in began[r] \/ Precedes(p, x, "closed")
        BY <1>1, <2>5, <3>1, <4>1 DEF BeforeExit, p
      <4>3. closed'[r] => began'[r] = Callbacks
        <5>1. CASE h = "closed"
          <6>1. \A a : ~Precedes(p, a, "closed")
            BY <1>1, <5>1, PrecedesFirst
          <6> QED
            BY <1>12, <1>13, <4>2, <6>1
        <5>2. CASE h # "closed"
          BY <1>10, <1>12, <1>13, <2>5, <4>1, <5>2 DEF BeforeExit
        <5> QED
          BY <5>1, <5>2
      <4>4. ~Has(m, "closed") /\ ~Has(m, "trip") /\ "trip" # "catch" /\ \A x \in Callbacks : x # "catch"
        BY <1>2 DEF Callbacks
      <4>5. Has(q, "trip") => ~tripped'[r]
        <5>1. CASE h = "trip"
          BY <1>3, <4>4, <5>1, Order
        <5>2. CASE h # "trip"
          BY <1>3, <1>10, <2>5, <4>2, <4>4, <5>2
        <5> QED
          BY <5>1, <5>2
      <4>6. \/ Precedes(q, "trip", "closed")
            \/ \A x \in Callbacks : x \in began'[r] \/ Precedes(q, x, "closed")
        <5>1. CASE Precedes(p, "trip", "closed") /\ h # "trip"
          BY <1>3, <4>4, <5>1
        <5>2. CASE h = "trip"
          <6>1. Has(m, "revoke") /\ Has(m, "wipe")
            BY <1>1, <1>2, <2>5, <4>2, <5>2
          <6>2. \A a : Precedes(m, a, "closed")
            BY <4>4 DEF Precedes, Has
          <6> QED
            BY <1>3, <6>1, <6>2 DEF Callbacks
        <5>3. CASE \A x \in Callbacks : x \in began[r] \/ Precedes(p, x, "closed")
          <6>1. ASSUME NEW x \in Callbacks PROVE x \in began'[r] \/ Precedes(q, x, "closed")
            <7>1. CASE x = h
              BY <1>10, <2>5, <7>1
            <7>2. CASE x # h
              BY <1>3, <1>12, <4>4, <5>3, <7>2
            <7> QED
              BY <7>1, <7>2
          <6> QED
            BY <6>1
        <5> QED
          BY <4>2, <5>1, <5>2, <5>3
      <4>7. ASSUME NEW o \in Operators, subject'[o] = r
            PROVE  /\ Has(todo'[o], "trip") => ~tripped'[r]
                   /\ \/ Precedes(todo'[o], "trip", "closed")
                      \/ \A x \in Callbacks : x \in began'[r] \/ Precedes(todo'[o], x, "closed")
        <5>1. CASE o = t
          BY <1>4, <4>5, <4>6, <5>1
        <5>2. CASE o # t
          <6>1. todo'[o] = todo[o] /\ subject[o] = subject[t] /\ todo[t] # <<>>
            BY <1>1, <1>4, <1>5, <1>8, <2>5, <4>7, <5>2 DEF p
          <6>2. todo[o] = <<>>
            BY <3>1, <5>2, <6>1 DEF IInv, ListInv
          <6> QED
            BY <6>1, <6>2, EmptyList
        <5> QED
          BY <5>1, <5>2
      <4> QED
        BY <1>5, <3>1, <4>1, <4>3, <4>7 DEF BeforeExit
    <3>4. ASSUME Smooth(r)', ~Has(todo'[r], "wait") PROVE AfterExit(r)'
      <4>1. AfterExit(r)
        BY <2>2, <3>1, <3>2, <3>4
      <4> QED
        BY <1>12, <3>1, <4>1 DEF AfterExit
    <3> QED
      BY <1>5, <2>2, <3>1, <3>3, <3>4
  <2> QED
    BY <2>3, <2>4, <2>5
<1>23. ClaimInv'
  <2>1. SUFFICES ASSUME NEW r \in Runs, phase'[r] # "new", vm'[r] # "none"
                 PROVE  \/ "revoke" \in claimed'[r]
                        \/ At(r, "crevoke")'
                        \/ /\ Has(todo'[r], "leftover")
                           /\ failed'[r] \/ Has(todo'[r], "settle") \/ Has(todo'[r], "crevoke")
    BY DEF ClaimInv
  <2>2. \/ "revoke" \in claimed[r]
        \/ At(r, "crevoke")
        \/ /\ Has(todo[r], "leftover")
           /\ failed[r] \/ Has(todo[r], "settle") \/ Has(todo[r], "crevoke")
    BY <1>5, <1>17, <2>1 DEF IInv, ClaimInv
  <2>3. CASE r # t
    BY <1>4, <1>5, <1>8, <1>11, <1>12, <2>2, <2>3 DEF At
  <2>4. CASE r = t
    <3>1. At(r, "crevoke") => h = "crevoke"
      BY <2>4 DEF At
    <3>2. h = "crevoke" => "revoke" \in claimed'[r]
      BY <1>1, <1>10, <1>11, <2>4
    <3>3. "revoke" \in claimed[r] => "revoke" \in claimed'[r]
      BY <1>11, <1>12
    <3> QED
      BY <1>3, <1>4, <1>5, <1>14, <2>2, <2>4, <3>1, <3>2, <3>3 DEF p
  <2> QED
    BY <2>3, <2>4
<1>24. TripInv'
  <2>1. SUFFICES ASSUME NEW r \in Runs
                 PROVE  TripEnds(r)' /\ ClosedLast(r)' /\ StopTrips(r)' /\ CloseHandled(r)'
    BY DEF TripInv
  <2>2. TripEnds(r) /\ ClosedLast(r) /\ StopTrips(r) /\ CloseHandled(r)
    BY DEF IInv, TripInv
  <2>3. ASSUME NEW op \in {"kill", "wipe", "trip"}, Pending(r, op)
        PROVE  Pending(r, op)' \/ (r = s /\ h = op)
    <3>1. PICK u \in Threads : Run(u) = r /\ Has(todo[u], op)
      BY <2>3 DEF Pending
    <3>2. CASE u # t
      BY <1>4, <1>6, <3>1, <3>2 DEF Pending
    <3>3. CASE u = t /\ h # op
      <4>1. Has(q, op)
        BY <1>3, <3>1, <3>3 DEF p
      <4> QED
        BY <1>4, <1>6, <3>1, <3>3, <4>1 DEF Pending
    <3>4. CASE u = t /\ h = op
      BY <3>1, <3>4 DEF s
    <3> QED
      BY <3>2, <3>3, <3>4
  <2>4. ASSUME r = s, NEW op, Has(m, op) PROVE Pending(r, op)'
    <3>1. Has(todo'[t], op) /\ Run(t)' = r
      BY <1>3, <1>4, <1>6, <2>4 DEF s
    <3> QED
      BY <3>1 DEF Pending
  <2>5. TripEnds(r)'
    <3>1. SUFFICES ASSUME tripped'[r], ~Raised({"kill", "xrevoke"})
                   PROVE  /\ vm'[r] = "exited" \/ Pending(r, "kill")'
                          /\ "wipe" \in began'[r] \/ Pending(r, "wipe")'
      BY <1>7 DEF TripEnds
    <3>2. CASE tripped[r]
      <4>1. vm[r] = "exited" \/ Pending(r, "kill")
        BY <2>2, <3>1, <3>2 DEF TripEnds
      <4>2. "wipe" \in began[r] \/ Pending(r, "wipe")
        BY <2>2, <3>1, <3>2 DEF TripEnds
      <4>3. vm'[r] = "exited" \/ Pending(r, "kill")'
        BY <1>10, <1>12, <2>3, <4>1
      <4>4. "wipe" \in began'[r] \/ Pending(r, "wipe")'
        BY <1>10, <1>11, <1>12, <2>3, <4>2
      <4> QED
        BY <4>3, <4>4
    <3>3. CASE ~tripped[r]
      <4>1. r = s /\ h = "trip"
        BY <1>9, <1>10, <3>1, <3>3
      <4> QED
        BY <1>2, <2>4, <3>3, <4>1
    <3> QED
      BY <3>2, <3>3
  <2>6. ClosedLast(r)'
    <3>1. closed'[r] => tripped'[r] \/ Ended(r)'
      <4>1. CASE closed[r]
        BY <1>11, <1>12, <2>2, <4>1 DEF ClosedLast, Ended
      <4>2. CASE ~closed[r] /\ closed'[r]
        <5>1. r = s /\ h = "closed"
          BY <1>9, <1>10, <4>2
        <5>2. \A a : ~Precedes(p, a, "closed")
          BY <1>1, <5>1, PrecedesFirst
        <5>3. \/ tripped[r]
              \/ Precedes(p, "trip", "closed")
              \/ vm[r] = "exited" /\ ("wipe" \in began[r] \/ Precedes(p, "wipe", "closed"))
          BY <2>2, <5>1 DEF ClosedLast, p, s
        <5> QED
          BY <1>11, <1>12, <5>2, <5>3 DEF Ended
      <4> QED
        BY <4>1, <4>2
    <3>2. ASSUME NEW u \in Threads, Run(u)' = r
          PROVE  \/ tripped'[r]
                 \/ Precedes(todo'[u], "trip", "closed")
                 \/ vm'[r] = "exited" /\ ("wipe" \in began'[r] \/ Precedes(todo'[u], "wipe", "closed"))
      <4>1. \/ tripped[r]
            \/ Precedes(todo[u], "trip", "closed")
            \/ vm[r] = "exited" /\ ("wipe" \in began[r] \/ Precedes(todo[u], "wipe", "closed"))
        BY <1>6, <2>2, <3>2 DEF ClosedLast
      <4>2. CASE u # t
        BY <1>4, <1>11, <1>12, <4>1, <4>2
      <4>3. CASE u = t
        <5>1. r = s
          BY <1>6, <3>2, <4>3 DEF s
        <5>2. ~Has(m, "closed")
          BY <1>2
        <5>3. CASE h = "trip"
          BY <1>10, <5>1, <5>3
        <5>4. CASE h # "trip" /\ Precedes(p, "trip", "closed")
          BY <1>3, <1>4, <4>3, <5>2, <5>4
        <5>5. CASE h = "wipe" /\ vm[r] = "exited"
          BY <1>10, <1>11, <1>12, <5>1, <5>5
        <5>6. CASE h # "wipe" /\ vm[r] = "exited" /\ Precedes(p, "wipe", "closed")
          BY <1>3, <1>4, <1>12, <4>3, <5>2, <5>6
        <5> QED
          BY <1>11, <1>12, <4>1, <4>3, <5>3, <5>4, <5>5, <5>6 DEF p
      <4> QED
        BY <4>2, <4>3
    <3> QED
      BY <3>1, <3>2 DEF ClosedLast
  <2>7. StopTrips(r)'
    <3>1. Pending(r, "trip") => Pending(r, "trip")' \/ tripped'[r]
      BY <1>10, <2>3
    <3> QED
      BY <1>5, <1>7, <1>12, <2>2, <3>1 DEF StopTrips
  <2>8. CloseHandled(r)'
    <3>1. CASE r # t
      BY <1>4, <1>5, <1>8, <2>2, <3>1 DEF CloseHandled, At
    <3>2. CASE r = t
      <4>1. Precedes(p, "failure", "bclose") \/ stopped[r]
        BY <1>14, <2>2, <3>2 DEF CloseHandled, At, p
      <4>2. ~Has(m, "bclose")
        BY <1>2
      <4> QED
        BY <1>3, <1>4, <1>5, <1>14, <3>2, <4>1, <4>2 DEF CloseHandled
    <3> QED
      BY <3>1, <3>2
  <2> QED
    BY <2>5, <2>6, <2>7, <2>8
<1>25. CoverInv'
  <2>1. SUFFICES ASSUME Len(faults') <= 1, ~Raised({"kill", "xrevoke"})',
                        NEW r \in Runs, phase'[r] # "new", vm'[r] # "none"
                 PROVE  \/ tripped'[r] \/ Ended(r)' \/ Direct(r)'
                        \/ Has(todo'[r], "trip") \/ Has(todo'[r], "fallback")
                        \/ stopped'[r] /\ Raised({"bclose"})'
    BY DEF CoverInv
  <2>2. \/ tripped[r] \/ Ended(r) \/ Direct(r)
        \/ Has(todo[r], "trip") \/ Has(todo[r], "fallback")
        \/ stopped[r] /\ Raised({"bclose"})
    BY <1>5, <1>7, <1>17, <2>1 DEF IInv, CoverInv
  <2>3. Ended(r) => Ended(r)'
    BY <1>11, <1>12 DEF Ended
  <2>4. CASE r # t
    <3>1. Direct(r) => Direct(r)'
      BY <1>4, <1>8, <1>11, <1>12, <2>4 DEF Direct
    <3> QED
      BY <1>4, <1>5, <1>7, <1>8, <1>12, <2>2, <2>3, <2>4, <3>1
  <2>5. CASE r = t
    <3>1. Direct(r) => Direct(r)'
      <4>1. vm[r] = "exited" \/ Has(p, "kill") => vm'[r] = "exited" \/ Has(q, "kill")
        BY <1>1, <1>3, <1>10, <1>12, <2>5
      <4>2. "wipe" \in claimed[r] \/ Has(p, "cwipe") => "wipe" \in claimed'[r] \/ Has(q, "cwipe")
        BY <1>1, <1>3, <1>10, <1>11, <1>12, <2>5
      <4> QED
        BY <1>4, <2>5, <4>1, <4>2 DEF Direct, p
    <3>2. Has(p, "trip") => tripped'[r] \/ Has(q, "trip")
      BY <1>1, <1>3, <1>10, <2>5
    <3>3. Has(p, "fallback") => Has(q, "fallback")
      BY <1>3, <1>14
    <3> QED
      BY <1>4, <1>5, <1>7, <1>12, <2>2, <2>3, <2>5, <3>1, <3>2, <3>3 DEF p
  <2> QED
    BY <2>4, <2>5
<1> QED
  BY <1>18, <1>19, <1>20, <1>21, <1>22, <1>23, <1>24, <1>25 DEF IInv

(***************************************************************************)
(* A run that goes on with its outer handlers.                             *)
(***************************************************************************)
\* What it still has to do
Leaves(h, q) ==
    /\ h \in {"prepare", "launch", "start", "open"}
    /\ q \in Seq(Operations) /\ InOrder(q) /\ Caught(q) /\ q # <<>> /\ q[1] \notin {"xrevoke", "xwipe"}
    /\ Precedes(q, "trip", "closed") /\ Precedes(q, "failure", "bclose")
    /\ \A op \in {"start", "open", "activate", "loop", "wait", "failure", "fallback",
                  "launch", "receipt", "raise"} : ~Has(q, op)
    /\ h \in {"prepare", "launch"} => ~Has(q, "kill") /\ ~Has(q, "trip")
    /\ h \in {"start", "open"} =>
         Has(q, "leftover") /\ (Has(q, "trip") \/ (Has(q, "kill") /\ Has(q, "cwipe")))

\* A run that goes on with its outer handlers keeps the invariant.
LEMMA AbandonStep ==
    ASSUME IInv, TypeOK', NEW t \in Runs, NEW h, At(t, h), NEW q, Leaves(h, q),
           todo' = [todo EXCEPT ![t] = q], failed' = [failed EXCEPT ![t] = TRUE],
           UNCHANGED <<core, cleanup, receipt, faults, phase, subject>>
    PROVE  IInv'
<1> USE DEF Leaves
<1> DEFINE p == todo[t]
<1>a. t \in Threads
  BY DEF Threads
<1>1. /\ todo \in [Threads -> Seq(Operations)]
      /\ p \in Seq(Operations) /\ p # <<>> /\ p[1] = h /\ Has(p, h) /\ InOrder(p)
      /\ Run(t) = t /\ t \notin Operators /\ phase[t] = "inside" /\ Caught(p)
  BY <1>a, Stepping
<1>2. todo'[t] = q /\ \A u \in Threads : u # t => todo'[u] = todo[u]
  BY <1>a, <1>1
<1>3. UNCHANGED <<vm, live, stopped, tripped, closed, began, claimed, calls, receipt, faults, phase, subject>>
  BY DEF core, cleanup
<1>4. \A u : Run(u)' = Run(u)
  BY <1>3 DEF Run
<1>5. \A ops : Raised(ops)' = Raised(ops)
  BY <1>3 DEF Raised
<1>6. Runs \subseteq Threads /\ Operators \subseteq Threads /\ \A o \in Operators : o \notin Runs
  BY RunAssumption DEF Threads
<1>7. \A r \in Runs : failed'[r] <=> failed[r] \/ r = t
  <2>1. failed \in [Runs -> BOOLEAN]
    BY DEF IInv, TypeOK
  <2> QED
    BY <2>1
<1>8. ~Has(p, "kill") /\ ~Has(p, "wipe") /\ ~Has(p, "trip")
  <2>1. \A op : Has(p, op) /\ op # h => h \in MayPrecede(op)
    BY <1>1, Behind
  <2> QED
    BY <2>1, Order
<1>9. Has(p, "launch") \/ ~(h \in {"prepare", "launch"})
  <2>1. ASSUME h = "prepare" PROVE Has(p, "launch")
    <3>1. Followed(p, "prepare", "launch") /\ 1 \in 1 .. Len(p)
      BY <1>1 DEF Caught
    <3> QED
      BY <1>1, <2>1, <3>1 DEF Followed, Has
  <2> QED
    BY <1>1, <2>1
<1>10. h \in {"prepare", "launch"} => vm[t] = "none" /\ ~live[t] /\ ~stopped[t]
  BY <1>9 DEF IInv, FreshInv, p
<1> HIDE DEF p
<1>11. ReceiptAfterExit'
  BY <1>3 DEF IInv, ReceiptAfterExit
<1>12. ListInv'
  <2>1. todo[t] # <<>>
    BY DEF At
  <2> QED
    BY <1>a, <1>3, <2>1, ListsKept
<1>13. FreshInv'
  <2>1. SUFFICES ASSUME NEW r \in Runs, phase'[r] = "new" \/ Has(todo'[r], "launch")
                 PROVE  /\ vm'[r] = "none" /\ ~live'[r] /\ ~stopped'[r] /\ ~tripped'[r] /\ ~closed'[r]
                        /\ ~failed'[r] /\ ~receipt'[r]
    BY DEF FreshInv
  <2>2. r # t /\ (phase[r] = "new" \/ Has(todo[r], "launch"))
    BY <1>1, <1>2, <1>3, <1>6, <2>1
  <2> QED
    BY <1>3, <1>7, <2>2 DEF IInv, FreshInv
<1>14. UnbornInv'
  <2>1. SUFFICES ASSUME NEW r \in Runs, vm'[r] = "none", phase'[r] # "new", ~Has(todo'[r], "launch")
                 PROVE  /\ ~live'[r] /\ ~stopped'[r]
                        /\ \A op \in {"start", "open", "activate", "loop", "wait", "failure",
                                      "fallback", "trip", "kill"} : ~Has(todo'[r], op)
    BY DEF UnbornInv
  <2>2. CASE r # t
    BY <1>2, <1>3, <1>6, <2>1, <2>2 DEF IInv, UnbornInv
  <2>3. CASE r = t
    <3>1. CASE h \in {"prepare", "launch"}
      BY <1>2, <1>3, <1>10, <2>3, <3>1
    <3>2. CASE h \in {"start", "open"}
      <4>1. ~Has(p, "launch")
        BY <1>1, <3>2, Behind, Order
      <4> QED
        BY <1>1, <1>3, <2>1, <2>3, <3>2, <4>1 DEF IInv, UnbornInv, p
    <3> QED
      BY <3>1, <3>2
  <2> QED
    BY <2>2, <2>3
<1>15. OnceInv'
  <2>1. Head(q) \notin {"xrevoke", "xwipe"}
    BY FirstIsIn
  <2> QED
    BY <1>a, <1>3, <2>1, OnceKept
<1>16. SmoothInv'
  <2>1. SUFFICES ASSUME NEW r \in Runs
                 PROVE  /\ Has(todo'[r], "receipt") => ~failed'[r]
                        /\ Smooth(r)' /\ Has(todo'[r], "wait") => BeforeExit(r)'
                        /\ Smooth(r)' /\ ~Has(todo'[r], "wait") => AfterExit(r)'
    BY DEF SmoothInv
  <2>2. CASE r = t
    BY <1>2, <1>7, <2>2 DEF Smooth
  <2>3. CASE r # t
    <3>1. todo'[r] = todo[r] /\ (failed'[r] <=> failed[r]) /\ \A o \in Operators : todo'[o] = todo[o]
      BY <1>2, <1>6, <1>7, <2>3
    <3> QED
      BY <1>3, <3>1 DEF IInv, SmoothInv, Smooth, BeforeExit, AfterExit
  <2> QED
    BY <2>2, <2>3
<1>17. ClaimInv'
  <2>1. SUFFICES ASSUME NEW r \in Runs, phase'[r] # "new", vm'[r] # "none"
                 PROVE  \/ "revoke" \in claimed'[r]
                        \/ At(r, "crevoke")'
                        \/ /\ Has(todo'[r], "leftover")
                           /\ failed'[r] \/ Has(todo'[r], "settle") \/ Has(todo'[r], "crevoke")
    BY DEF ClaimInv
  <2>2. CASE r # t
    <3>1. todo'[r] = todo[r] /\ (failed'[r] <=> failed[r])
      BY <1>2, <1>6, <1>7, <2>2
    <3> QED
      BY <1>3, <2>1, <3>1 DEF IInv, ClaimInv, At
  <2>3. CASE r = t
    BY <1>2, <1>3, <1>7, <1>10, <2>1, <2>3
  <2> QED
    BY <2>2, <2>3
<1>18. TripInv'
  <2>1. SUFFICES ASSUME NEW r \in Runs
                 PROVE  TripEnds(r)' /\ ClosedLast(r)' /\ StopTrips(r)' /\ CloseHandled(r)'
    BY DEF TripInv
  <2>2. TripEnds(r) /\ ClosedLast(r) /\ StopTrips(r) /\ CloseHandled(r)
    BY DEF IInv, TripInv
  <2>3. ASSUME NEW op \in {"kill", "wipe", "trip"}, Pending(r, op) PROVE Pending(r, op)'
    BY <1>2, <1>4, <1>8, <2>3 DEF Pending, p
  <2>4. TripEnds(r)' /\ StopTrips(r)'
    BY <1>3, <1>5, <2>2, <2>3 DEF TripEnds, StopTrips
  <2>5. ClosedLast(r)'
    BY <1>2, <1>3, <1>4, <2>2 DEF ClosedLast, Ended
  <2>6. CloseHandled(r)'
    BY <1>2, <1>3, <1>6, <1>7, <2>2 DEF CloseHandled, At
  <2> QED
    BY <2>4, <2>5, <2>6
<1>19. CoverInv'
  <2>1. SUFFICES ASSUME Len(faults') <= 1, ~Raised({"kill", "xrevoke"})',
                        NEW r \in Runs, phase'[r] # "new", vm'[r] # "none"
                 PROVE  \/ tripped'[r] \/ Ended(r)' \/ Direct(r)'
                        \/ Has(todo'[r], "trip") \/ Has(todo'[r], "fallback")
                        \/ stopped'[r] /\ Raised({"bclose"})'
    BY DEF CoverInv
  <2>2. CASE r # t
    <3>1. \/ tripped[r] \/ Ended(r) \/ Direct(r)
          \/ Has(todo[r], "trip") \/ Has(todo[r], "fallback")
          \/ stopped[r] /\ Raised({"bclose"})
      BY <1>3, <1>5, <2>1 DEF IInv, CoverInv
    <3> QED
      BY <1>2, <1>3, <1>5, <1>6, <2>2, <3>1 DEF Ended, Direct
  <2>3. CASE r = t
    BY <1>2, <1>3, <1>10, <2>1, <2>3 DEF Direct
  <2> QED
    BY <2>2, <2>3
<1> QED
  BY <1>11, <1>12, <1>13, <1>14, <1>15, <1>16, <1>17, <1>18, <1>19 DEF IInv

(***************************************************************************)
(* The other steps.                                                        *)
(***************************************************************************)
\* A run that begins has its whole program before it.
LEMMA BeginStep ==
    ASSUME IInv, TypeOK', NEW t \in Runs, Begin(t)
    PROVE  IInv'
<1> DEFINE q == RunProgram
<1>a. t \in Threads
  BY DEF Threads
<1>1. todo \in [Threads -> Seq(Operations)]
  BY DEF IInv, TypeOK
<1>2. /\ phase[t] = "new" /\ todo[t] = <<>>
      /\ vm[t] = "none" /\ ~live[t] /\ ~stopped[t] /\ ~tripped[t] /\ ~closed[t] /\ ~failed[t] /\ ~receipt[t]
  BY DEF Begin, IInv, ListInv, FreshInv
<1>3. todo'[t] = q /\ \A u \in Threads : u # t => todo'[u] = todo[u]
  BY <1>a, <1>1 DEF Begin
<1>4. UNCHANGED <<vm, live, stopped, tripped, closed, failed, began, claimed, calls, receipt, faults, subject>>
  BY DEF Begin, worker, cleanup, bounds
<1>5. phase' = [phase EXCEPT ![t] = "inside"] /\ phase \in [Runs -> {"new", "inside", "done"}]
  BY DEF Begin, IInv, TypeOK
<1>6. /\ q \in Seq(Operations) /\ q # <<>> /\ q[1] = "prepare" /\ InOrder(q) /\ Caught(q)
      /\ Precedes(q, "trip", "closed") /\ Precedes(q, "failure", "bclose")
      /\ Has(q, "launch") /\ Has(q, "wait")
      /\ \A op \in {"trip", "closed", "kill", "wipe", "raise"} : ~Has(q, op)
  BY RunProgramList
<1>7. \A u : Run(u)' = Run(u)
  BY <1>4 DEF Run
<1>8. \A ops : Raised(ops)' = Raised(ops)
  BY <1>4 DEF Raised
<1>9. Runs \subseteq Threads /\ Operators \subseteq Threads /\ \A o \in Operators : o \notin Runs /\ o # t
  BY RunAssumption DEF Threads
<1>10. \A o \in Operators : subject[o] = t => todo[o] = <<>>
  BY <1>2 DEF IInv, ListInv
<1>11. At(t, "prepare")' /\ \A op : At(t, op)' => op = "prepare"
  BY <1>3, <1>6, FirstIsIn DEF At
<1>12. \A op : ~Has(todo[t], op) /\ ~At(t, op)
  BY <1>2, EmptyList DEF At
<1> HIDE DEF q
<1>13. ReceiptAfterExit'
  BY <1>4 DEF IInv, ReceiptAfterExit
<1>14. ListInv'
  <2>1. \A u \in Threads : InOrder(todo'[u])
    BY <1>3, <1>6 DEF IInv, ListInv
  <2>2. \A r \in Runs : Caught(todo'[r]) /\ (todo'[r] # <<>> => phase'[r] = "inside")
    BY <1>3, <1>5, <1>6, <1>9 DEF IInv, ListInv
  <2>3. \A o \in Operators : todo'[o] = todo[o]
    BY <1>3, <1>9
  <2> QED
    BY <1>4, <2>1, <2>2, <2>3 DEF IInv, ListInv
<1>15. FreshInv'
  BY <1>2, <1>3, <1>4, <1>5, <1>9 DEF IInv, FreshInv
<1>16. UnbornInv'
  BY <1>3, <1>4, <1>5, <1>6, <1>9 DEF IInv, UnbornInv
<1>17. OnceInv'
  <2>1. \A x \in Callbacks : External[x] # "prepare" /\ Cleanup[x] # "prepare"
    BY DEF Callbacks, External, Cleanup
  <2>2. \A u \in Threads, x \in Callbacks :
          (At(u, External[x])' <=> At(u, External[x])) /\ (At(u, Cleanup[x])' <=> At(u, Cleanup[x]))
    <3>1. TAKE u \in Threads, x \in Callbacks
    <3>2. CASE u # t
      BY <1>3, <3>2 DEF At, External, Cleanup
    <3>3. CASE u = t
      BY <1>11, <1>12, <2>1, <3>3 DEF External, Cleanup
    <3> QED
      BY <3>2, <3>3
  <2>3. OnceInv
    BY DEF IInv
  <2> QED
    BY <1>4, <1>7, <2>2, <2>3 DEF OnceInv
<1>18. SmoothInv'
  <2>1. SUFFICES ASSUME NEW r \in Runs
                 PROVE  /\ Has(todo'[r], "receipt") => ~failed'[r]
                        /\ Smooth(r)' /\ Has(todo'[r], "wait") => BeforeExit(r)'
                        /\ Smooth(r)' /\ ~Has(todo'[r], "wait") => AfterExit(r)'
    BY DEF SmoothInv
  <2>o. \A o \in Operators : todo'[o] = todo[o]
    BY <1>3, <1>9
  <2>2. CASE r # t
    <3>1. todo'[r] = todo[r] /\ phase'[r] = phase[r]
      BY <1>3, <1>5, <1>9, <2>2
    <3> QED
      BY <1>4, <2>o, <3>1 DEF IInv, SmoothInv, Smooth, BeforeExit, AfterExit
  <2>3. CASE r = t
    <3>1. todo'[r] = q /\ ~failed'[r] /\ ~tripped'[r] /\ ~closed'[r]
      BY <1>2, <1>3, <1>4, <2>3
    <3>2. ASSUME NEW o \in Operators, subject'[o] = r
          PROVE  ~Has(todo'[o], "trip") /\ Precedes(todo'[o], "trip", "closed")
      <4>1. todo'[o] = <<>>
        BY <1>4, <1>10, <2>o, <2>3, <3>2
      <4> QED
        BY <4>1, EmptyList
    <3>3. BeforeExit(r)'
      BY <1>6, <3>1, <3>2 DEF BeforeExit
    <3> QED
      BY <1>6, <3>1, <3>3
  <2> QED
    BY <2>2, <2>3
<1>19. ClaimInv'
  <2>1. \A r \in Runs : r # t => todo'[r] = todo[r] /\ phase'[r] = phase[r]
    BY <1>3, <1>5, <1>9
  <2> QED
    BY <1>2, <1>4, <2>1 DEF IInv, ClaimInv, At
<1>20. TripInv'
  <2>1. SUFFICES ASSUME NEW r \in Runs
                 PROVE  TripEnds(r)' /\ ClosedLast(r)' /\ StopTrips(r)' /\ CloseHandled(r)'
    BY DEF TripInv
  <2>2. TripEnds(r) /\ ClosedLast(r) /\ StopTrips(r) /\ CloseHandled(r)
    BY DEF IInv, TripInv
  <2>3. ASSUME NEW op \in {"kill", "wipe", "trip"}, Pending(r, op) PROVE Pending(r, op)'
    BY <1>3, <1>7, <1>12, <2>3 DEF Pending
  <2>4. TripEnds(r)' /\ StopTrips(r)'
    BY <1>4, <1>8, <2>2, <2>3 DEF TripEnds, StopTrips
  <2>5. ClosedLast(r)'
    BY <1>3, <1>4, <1>6, <1>7, <2>2 DEF ClosedLast, Ended
  <2>6. CloseHandled(r)'
    BY <1>3, <1>4, <1>6, <1>9, <2>2 DEF CloseHandled, At
  <2> QED
    BY <2>4, <2>5, <2>6
<1>21. CoverInv'
  <2>1. \A r \in Runs : r # t => todo'[r] = todo[r] /\ phase'[r] = phase[r]
    BY <1>3, <1>5, <1>9
  <2>2. Raised({"kill", "xrevoke"})' = Raised({"kill", "xrevoke"}) /\ Raised({"bclose"})' = Raised({"bclose"})
    BY <1>8
  <2> QED
    BY <1>2, <1>4, <2>1, <2>2 DEF IInv, CoverInv, Ended, Direct
<1> QED
  BY <1>13, <1>14, <1>15, <1>16, <1>17, <1>18, <1>19, <1>20, <1>21 DEF IInv

\* A run whose process is created has all its handlers before it.
LEMMA LaunchStep ==
    ASSUME IInv, TypeOK', NEW t \in Runs, Launch(t)
    PROVE  IInv'
<1> DEFINE p == todo[t]
           q == Enter(<<>> \o Tail(todo[t]))
<1>a. t \in Threads
  BY DEF Threads
<1>0. At(t, "launch")
  BY DEF Launch
<1>1. /\ todo \in [Threads -> Seq(Operations)]
      /\ p \in Seq(Operations) /\ p # <<>> /\ p[1] = "launch" /\ Has(p, "launch") /\ InOrder(p)
      /\ Run(t) = t /\ t \notin Operators /\ phase[t] = "inside" /\ Caught(p)
  BY <1>a, <1>0, Stepping
<1>2. todo' = [todo EXCEPT ![t] = q] /\ vm' = [vm EXCEPT ![t] = "running"]
  BY DEF Launch, Done, Continue
<1>3. /\ q \in Seq(Operations) /\ InOrder(q) /\ Caught(q)
      /\ \A op : Has(q, op) => Has(p, op) /\ "launch" \in MayPrecede(op)
      /\ \A op : Has(p, op) /\ op # "launch" /\ op # "catch" => Has(q, op)
      /\ \A a, b : Precedes(p, a, b) /\ a # "launch" /\ a # "catch" => Precedes(q, a, b)
  BY <1>1, PopFacts
<1>4. todo'[t] = q /\ \A u \in Threads : u # t => todo'[u] = todo[u]
  BY <1>a, <1>1, <1>2
<1>5. UNCHANGED <<live, stopped, tripped, closed, failed, began, claimed, calls, receipt, faults, phase, subject>>
  BY DEF Launch, cleanup, bounds
<1>6. vm'[t] = "running" /\ \A r \in Runs : r # t => vm'[r] = vm[r]
  BY <1>2 DEF IInv, TypeOK
<1>7. vm[t] = "none" /\ ~live[t] /\ ~stopped[t] /\ ~tripped[t] /\ ~closed[t] /\ ~failed[t] /\ ~receipt[t]
  BY <1>1 DEF IInv, FreshInv
<1>8. \A u : Run(u)' = Run(u)
  BY <1>5 DEF Run
<1>9. \A ops : Raised(ops)' = Raised(ops)
  BY <1>5 DEF Raised
<1>10. Runs \subseteq Threads /\ Operators \subseteq Threads /\ \A o \in Operators : o \notin Runs /\ o # t
  BY RunAssumption DEF Threads
<1>11. Has(q, "settle") /\ Has(q, "leftover") /\ Has(q, "fallback")
  <2>1. 1 \in 1 .. Len(p)
    BY <1>1
  <2>2. PICK k \in 1 .. Len(p) : p[k] = "settle"
    BY <1>1, <2>1 DEF Caught, Followed
  <2>3. PICK l \in 1 .. Len(p) : p[l] = "leftover"
    BY <1>1, <2>2 DEF Caught, Followed
  <2>4. PICK f \in 1 .. Len(p) : p[f] = "fallback"
    BY <1>1, <2>1 DEF Caught, Followed
  <2>5. Has(p, "settle") /\ Has(p, "leftover") /\ Has(p, "fallback")
    BY <2>2, <2>3, <2>4 DEF Has
  <2> QED
    BY <1>3, <2>5
<1>12. ~Has(q, "launch") /\ ~Has(p, "trip")
  <2>1. \A op : Has(p, op) /\ op # "launch" => "launch" \in MayPrecede(op)
    BY <1>1, Behind
  <2> QED
    BY <1>3, <2>1, Order
<1> HIDE DEF p, q
<1>13. ReceiptAfterExit'
  BY <1>5, <1>6, <1>7 DEF IInv, ReceiptAfterExit
<1>14. ListInv'
  <2>1. todo[t] # <<>>
    BY <1>0 DEF At
  <2> QED
    BY <1>a, <1>2, <1>3, <1>5, <2>1, ListsKept
<1>15. FreshInv'
  BY <1>1, <1>4, <1>5, <1>6, <1>10, <1>12 DEF IInv, FreshInv
<1>16. UnbornInv'
  BY <1>4, <1>5, <1>6, <1>10 DEF IInv, UnbornInv
<1>17. OnceInv'
  <2>1. q # <<>> => Head(q) \notin {"xrevoke", "xwipe"}
    BY <1>3, FirstIsIn, Order
  <2> QED
    BY <1>a, <1>0, <1>2, <1>5, <2>1, OnceKept
<1>18. SmoothInv'
  <2>1. SUFFICES ASSUME NEW r \in Runs
                 PROVE  /\ Has(todo'[r], "receipt") => ~failed'[r]
                        /\ Smooth(r)' /\ Has(todo'[r], "wait") => BeforeExit(r)'
                        /\ Smooth(r)' /\ ~Has(todo'[r], "wait") => AfterExit(r)'
    BY DEF SmoothInv
  <2>o. \A o \in Operators : todo'[o] = todo[o]
    BY <1>4, <1>10
  <2>2. CASE r # t
    <3>1. todo'[r] = todo[r] /\ vm'[r] = vm[r]
      BY <1>4, <1>6, <1>10, <2>2
    <3> QED
      BY <1>5, <2>o, <3>1 DEF IInv, SmoothInv, Smooth, BeforeExit, AfterExit
  <2>3. CASE r = t
    <3>1. todo'[r] = q /\ ~failed'[r] /\ todo[r] = p
      BY <1>4, <1>5, <1>7, <2>3 DEF p
    <3>2. Smooth(r)' => Smooth(r)
      BY <1>3, <1>5, <3>1 DEF Smooth
    <3>3. ASSUME Smooth(r)' PROVE BeforeExit(r) /\ Has(q, "wait")
      <4>1. Has(p, "wait")
        <5>1. ~Has(p, "wait") => AfterExit(r)
          BY <3>1, <3>2, <3>3 DEF IInv, SmoothInv
        <5> QED
          BY <1>7, <2>3, <5>1 DEF AfterExit
      <4>2. BeforeExit(r)
        BY <3>1, <3>2, <3>3, <4>1 DEF IInv, SmoothInv
      <4> QED
        BY <1>3, <4>1, <4>2
    <3>4. BeforeExit(r) => BeforeExit(r)'
      BY <1>3, <1>5, <2>o, <3>1 DEF BeforeExit
    <3> QED
      BY <3>1, <3>3, <3>4
  <2> QED
    BY <2>2, <2>3
<1>19. ClaimInv'
  <2>1. \A r \in Runs : r # t => todo'[r] = todo[r] /\ vm'[r] = vm[r]
    BY <1>4, <1>6, <1>10
  <2> QED
    BY <1>4, <1>5, <1>11, <2>1 DEF IInv, ClaimInv, At
<1>20. TripInv'
  <2>1. SUFFICES ASSUME NEW r \in Runs
                 PROVE  TripEnds(r)' /\ ClosedLast(r)' /\ StopTrips(r)' /\ CloseHandled(r)'
    BY DEF TripInv
  <2>2. TripEnds(r) /\ ClosedLast(r) /\ StopTrips(r) /\ CloseHandled(r)
    BY DEF IInv, TripInv
  <2>3. ASSUME NEW op \in {"kill", "wipe", "trip"}, Pending(r, op) PROVE Pending(r, op)'
    BY <1>3, <1>4, <1>8, <2>3 DEF Pending, p
  <2>4. TripEnds(r)' /\ StopTrips(r)'
    BY <1>5, <1>6, <1>7, <1>9, <2>2, <2>3 DEF TripEnds, StopTrips
  <2>5. ClosedLast(r)'
    <3>1. closed'[r] => tripped'[r] \/ Ended(r)'
      BY <1>5, <1>6, <1>7, <2>2 DEF ClosedLast, Ended
    <3>2. ASSUME NEW u \in Threads, Run(u)' = r
          PROVE  \/ tripped'[r]
                 \/ Precedes(todo'[u], "trip", "closed")
                 \/ vm'[r] = "exited" /\ ("wipe" \in began'[r] \/ Precedes(todo'[u], "wipe", "closed"))
      <4>1. \/ tripped[r]
            \/ Precedes(todo[u], "trip", "closed")
            \/ vm[r] = "exited" /\ ("wipe" \in began[r] \/ Precedes(todo[u], "wipe", "closed"))
        BY <1>8, <2>2, <3>2 DEF ClosedLast
      <4>2. CASE u # t
        BY <1>4, <1>5, <1>6, <1>7, <4>1, <4>2
      <4>3. CASE u = t
        <5>1. r = t
          BY <1>1, <1>8, <3>2, <4>3
        <5> QED
          BY <1>3, <1>4, <1>5, <1>7, <4>1, <4>3, <5>1 DEF p
      <4> QED
        BY <4>2, <4>3
    <3> QED
      BY <3>1, <3>2 DEF ClosedLast
  <2>6. CloseHandled(r)'
    <3>1. CASE r # t
      BY <1>4, <1>5, <1>10, <2>2, <3>1 DEF CloseHandled, At
    <3>2. CASE r = t
      <4>1. Precedes(p, "failure", "bclose")
        BY <1>0, <1>7, <2>2, <3>2 DEF CloseHandled, At, p
      <4> QED
        BY <1>3, <1>4, <3>2, <4>1 DEF CloseHandled
    <3> QED
      BY <3>1, <3>2
  <2> QED
    BY <2>4, <2>5, <2>6
<1>21. CoverInv'
  <2>1. \A r \in Runs : r # t => todo'[r] = todo[r] /\ vm'[r] = vm[r]
    BY <1>4, <1>6, <1>10
  <2>2. Raised({"kill", "xrevoke"})' = Raised({"kill", "xrevoke"}) /\ Raised({"bclose"})' = Raised({"bclose"})
    BY <1>9
  <2> QED
    BY <1>4, <1>5, <1>11, <2>1, <2>2 DEF IInv, CoverInv, Ended, Direct
<1> QED
  BY <1>13, <1>14, <1>15, <1>16, <1>17, <1>18, <1>19, <1>20, <1>21 DEF IInv


\* Nothing comes after "end".
LEMMA NothingAfterEnd == \A op : "end" \notin MayPrecede(op)
  BY DEF MayPrecede, Inserted, Working, Handling

\* A run that ends has nothing left to do.
LEMMA EndStep ==
    ASSUME IInv, TypeOK', NEW t \in Runs, End(t)
    PROVE  IInv'
<1> DEFINE p == todo[t]
           q == Enter(<<>> \o Tail(todo[t]))
<1>a. t \in Threads
  BY DEF Threads
<1>0. At(t, "end")
  BY DEF End
<1>1. /\ todo \in [Threads -> Seq(Operations)]
      /\ p \in Seq(Operations) /\ p # <<>> /\ p[1] = "end" /\ Has(p, "end") /\ InOrder(p)
      /\ Run(t) = t /\ t \notin Operators /\ phase[t] = "inside" /\ Caught(p)
  BY <1>a, <1>0, Stepping
<1>2. todo' = [todo EXCEPT ![t] = q] /\ phase' = [phase EXCEPT ![t] = "done"]
  BY DEF End, Done, Continue
<1>3. q \in Seq(Operations) /\ InOrder(q) /\ Caught(q) /\ \A op : ~Has(q, op)
  <2>1. /\ q \in Seq(Operations) /\ InOrder(q) /\ (Caught(p) => Caught(q))
        /\ \A op : Has(q, op) => Has(p, op) /\ "end" \in MayPrecede(op)
    BY <1>1, PopFacts
  <2> QED
    BY <1>1, <2>1, NothingAfterEnd
<1>4. q = <<>>
  BY <1>3, FirstIsIn
<1>5. \A op : Has(p, op) => op = "end"
  BY <1>1, Behind, NothingAfterEnd
<1>6. todo'[t] = <<>> /\ \A u \in Threads : u # t => todo'[u] = todo[u]
  BY <1>a, <1>1, <1>2, <1>4
<1>7. UNCHANGED <<vm, live, stopped, tripped, closed, failed, began, claimed, calls, receipt, faults, subject>>
  BY DEF End, worker, cleanup, bounds
<1>8. phase'[t] = "done" /\ \A r \in Runs : r # t => phase'[r] = phase[r]
  BY <1>2 DEF IInv, TypeOK
<1>9. \A u : Run(u)' = Run(u)
  BY <1>7 DEF Run
<1>10. \A ops : Raised(ops)' = Raised(ops)
  BY <1>7 DEF Raised
<1>11. Runs \subseteq Threads /\ Operators \subseteq Threads /\ \A o \in Operators : o \notin Runs /\ o # t
  BY RunAssumption DEF Threads
<1>12. \A op : ~Has(todo'[t], op)
  BY <1>6, EmptyList
<1> HIDE DEF p, q
<1>13. ReceiptAfterExit'
  BY <1>7 DEF IInv, ReceiptAfterExit
<1>14. ListInv'
  <2>1. \A u \in Threads : InOrder(todo'[u])
    BY <1>6, EmptyList DEF IInv, ListInv
  <2>2. \A r \in Runs : Caught(todo'[r]) /\ (todo'[r] # <<>> => phase'[r] = "inside")
    BY <1>3, <1>4, <1>6, <1>8, <1>11 DEF IInv, ListInv
  <2>3. \A o \in Operators : todo'[o] = todo[o]
    BY <1>6, <1>11
  <2> QED
    BY <1>7, <2>1, <2>2, <2>3 DEF IInv, ListInv
<1>15. FreshInv'
  BY <1>6, <1>7, <1>8, <1>11, <1>12 DEF IInv, FreshInv
<1>16. UnbornInv'
  <2>1. ~Has(todo[t], "launch") /\ phase[t] # "new"
    BY <1>1, <1>5 DEF p
  <2> QED
    BY <1>6, <1>7, <1>8, <1>11, <1>12, <2>1 DEF IInv, UnbornInv
<1>17. OnceInv'
  BY <1>a, <1>0, <1>2, <1>4, <1>7, OnceKept
<1>18. SmoothInv'
  <2>1. SUFFICES ASSUME NEW r \in Runs
                 PROVE  /\ Has(todo'[r], "receipt") => ~failed'[r]
                        /\ Smooth(r)' /\ Has(todo'[r], "wait") => BeforeExit(r)'
                        /\ Smooth(r)' /\ ~Has(todo'[r], "wait") => AfterExit(r)'
    BY DEF SmoothInv
  <2>o. \A o \in Operators : todo'[o] = todo[o]
    BY <1>6, <1>11
  <2>2. CASE r # t
    <3>1. todo'[r] = todo[r] /\ phase'[r] = phase[r]
      BY <1>6, <1>8, <1>11, <2>2
    <3> QED
      BY <1>7, <2>o, <3>1 DEF IInv, SmoothInv, Smooth, BeforeExit, AfterExit
  <2>3. CASE r = t
    <3>1. ~Has(todo[r], "raise") /\ ~Has(todo[r], "wait") /\ phase[r] # "new"
          /\ \A x \in Callbacks : ~Has(todo[r], x)
      BY <1>1, <1>5, <2>3 DEF p, Callbacks
    <3>2. Smooth(r)' => AfterExit(r)
      BY <1>7, <3>1 DEF IInv, SmoothInv, Smooth
    <3> QED
      BY <1>7, <1>12, <2>3, <3>1, <3>2 DEF AfterExit
  <2> QED
    BY <2>2, <2>3
<1>19. ClaimInv'
  <2>1. \A r \in Runs : r # t => todo'[r] = todo[r] /\ phase'[r] = phase[r]
    BY <1>6, <1>8, <1>11
  <2>2. ~At(t, "crevoke") /\ ~Has(todo[t], "leftover") /\ phase[t] # "new"
    BY <1>0, <1>1, <1>5 DEF At, p
  <2> QED
    BY <1>7, <2>1, <2>2 DEF IInv, ClaimInv, At
<1>20. TripInv'
  <2>1. SUFFICES ASSUME NEW r \in Runs
                 PROVE  TripEnds(r)' /\ ClosedLast(r)' /\ StopTrips(r)' /\ CloseHandled(r)'
    BY DEF TripInv
  <2>2. TripEnds(r) /\ ClosedLast(r) /\ StopTrips(r) /\ CloseHandled(r)
    BY DEF IInv, TripInv
  <2>3. ASSUME NEW op \in {"kill", "wipe", "trip"}, Pending(r, op) PROVE Pending(r, op)'
    <3>1. PICK u \in Threads : Run(u) = r /\ Has(todo[u], op)
      BY <2>3 DEF Pending
    <3>2. u # t
      BY <1>5, <3>1 DEF p
    <3> QED
      BY <1>6, <1>9, <3>1, <3>2 DEF Pending
  <2>4. TripEnds(r)' /\ StopTrips(r)'
    BY <1>7, <1>10, <2>2, <2>3 DEF TripEnds, StopTrips
  <2>5. ClosedLast(r)'
    BY <1>6, <1>7, <1>9, <2>2, EmptyList DEF ClosedLast, Ended
  <2>6. CloseHandled(r)'
    BY <1>6, <1>7, <1>11, <2>2, EmptyList DEF CloseHandled, At
  <2> QED
    BY <2>4, <2>5, <2>6
<1>21. CoverInv'
  <2>1. \A r \in Runs : r # t => todo'[r] = todo[r] /\ phase'[r] = phase[r]
    BY <1>6, <1>8, <1>11
  <2>2. Raised({"kill", "xrevoke"})' = Raised({"kill", "xrevoke"}) /\ Raised({"bclose"})' = Raised({"bclose"})
    BY <1>10
  <2>3. /\ ~Has(todo[t], "kill") /\ ~Has(todo[t], "cwipe") /\ ~Has(todo[t], "trip")
        /\ ~Has(todo[t], "fallback") /\ phase[t] # "new"
    BY <1>1, <1>5 DEF p
  <2> QED
    BY <1>7, <2>1, <2>2, <2>3 DEF IInv, CoverInv, Ended, Direct
<1> QED
  BY <1>13, <1>14, <1>15, <1>16, <1>17, <1>18, <1>19, <1>20, <1>21 DEF IInv

\* A process that ends by itself only helps.
LEMMA ExitStep ==
    ASSUME IInv, TypeOK', NEW s \in Runs, Exit(s)
    PROVE  IInv'
<1>1. UNCHANGED <<live, stopped, tripped, closed, failed, began, claimed, calls, receipt, faults,
                  phase, todo, subject>>
  BY DEF Exit, cleanup, bounds
<1>2. vm[s] = "running" /\ vm'[s] = "exited" /\ \A r \in Runs : r # s => vm'[r] = vm[r]
  BY DEF Exit, IInv, TypeOK
<1>3. \A u : Run(u)' = Run(u)
  BY <1>1 DEF Run
<1>4. Raised({"kill", "xrevoke"})' = Raised({"kill", "xrevoke"}) /\ Raised({"bclose"})' = Raised({"bclose"})
      /\ Raised({"emit"})' = Raised({"emit"})
  BY <1>1 DEF Raised
<1>5. \A r \in Runs : (vm'[r] = "none" <=> vm[r] = "none") /\ (vm[r] = "exited" => vm'[r] = "exited")
  BY <1>2
<1>6. ReceiptAfterExit' /\ FreshInv' /\ UnbornInv' /\ ListInv'
  BY <1>1, <1>5 DEF IInv, ReceiptAfterExit, FreshInv, UnbornInv, ListInv
<1>7. OnceInv'
  BY <1>1, <1>3 DEF IInv, OnceInv, At
<1>8. SmoothInv'
  BY <1>1, <1>5 DEF IInv, SmoothInv, Smooth, BeforeExit, AfterExit
<1>9. ClaimInv'
  BY <1>1, <1>5 DEF IInv, ClaimInv, At
<1>10. TripInv'
  <2>1. SUFFICES ASSUME NEW r \in Runs
                 PROVE  TripEnds(r)' /\ ClosedLast(r)' /\ StopTrips(r)' /\ CloseHandled(r)'
    BY DEF TripInv
  <2>2. TripEnds(r) /\ ClosedLast(r) /\ StopTrips(r) /\ CloseHandled(r)
    BY DEF IInv, TripInv
  <2>3. \A op : Pending(r, op)' <=> Pending(r, op)
    BY <1>1, <1>3 DEF Pending
  <2>4. TripEnds(r)' /\ StopTrips(r)'
    BY <1>1, <1>4, <1>5, <2>2, <2>3 DEF TripEnds, StopTrips
  <2>5. ClosedLast(r)'
    BY <1>1, <1>3, <1>5, <2>2 DEF ClosedLast, Ended
  <2>6. CloseHandled(r)'
    BY <1>1, <2>2 DEF CloseHandled, At
  <2> QED
    BY <2>4, <2>5, <2>6
<1>11. CoverInv'
  BY <1>1, <1>4, <1>5 DEF IInv, CoverInv, Ended, Direct
<1> QED
  BY <1>6, <1>7, <1>8, <1>9, <1>10, <1>11 DEF IInv

\* A stop that the controller accepts is the only one at work for its run.
LEMMA StopStep ==
    ASSUME IInv, TypeOK', NEW o \in Operators, NEW s \in Runs, Stop(o, s)
    PROVE  IInv'
<1> DEFINE q == StopProgram
<1>1. /\ todo \in [Threads -> Seq(Operations)] /\ subject \in [Operators -> Runs \cup {None}]
      /\ stopped \in [Runs -> BOOLEAN]
  BY DEF IInv, TypeOK
<1>2. Runs \subseteq Threads /\ Operators \subseteq Threads /\ o \in Threads
      /\ \A u \in Operators : u \notin Runs
  BY RunAssumption DEF Threads
<1>3. /\ todo[o] = <<>> /\ live[s] /\ ~stopped[s]
      /\ UNCHANGED <<vm, live, tripped, closed, failed, began, claimed, calls, receipt, faults, phase>>
  BY DEF Stop, cleanup
<1>4. todo'[o] = q /\ \A u \in Threads : u # o => todo'[u] = todo[u]
  BY <1>1, <1>2 DEF Stop
<1>5. subject'[o] = s /\ \A u \in Operators : u # o => subject'[u] = subject[u]
  BY <1>1 DEF Stop
<1>6. stopped'[s] /\ \A r \in Runs : r # s => stopped'[r] = stopped[r]
  BY <1>1 DEF Stop
<1>7. /\ q \in Seq(Operations) /\ q # <<>> /\ q[1] = "emit" /\ InOrder(q)
      /\ Has(q, "trip") /\ ~Has(q, "catch") /\ Precedes(q, "trip", "closed")
  BY StopProgramList
<1>8. vm[s] # "none" /\ phase[s] # "new" /\ ~Has(todo[s], "launch")
  BY <1>3 DEF IInv, FreshInv, UnbornInv
<1>9. \A r \in Runs : todo'[r] = todo[r]
  BY <1>2, <1>4
<1>10. Run(o)' = s /\ \A u \in Threads : u # o => Run(u)' = Run(u)
  BY <1>2, <1>5 DEF Run, Threads
<1>11. \A ops : Raised(ops)' = Raised(ops)
  BY <1>3 DEF Raised
<1>12. \A op : ~Has(todo[o], op) /\ ~At(o, op) /\ (At(o, op)' => op = "emit")
  BY <1>3, <1>4, <1>7, EmptyList, FirstIsIn DEF At
<1>13. \A u \in Operators : todo[u] # <<>> => subject[u] # s
  BY <1>3 DEF IInv, ListInv
<1> HIDE DEF q
<1>14. ReceiptAfterExit'
  BY <1>3 DEF IInv, ReceiptAfterExit
<1>15. ListInv'
  <2>1. \A u \in Threads : InOrder(todo'[u])
    BY <1>4, <1>7 DEF IInv, ListInv
  <2>2. \A r \in Runs : Caught(todo'[r]) /\ (todo'[r] # <<>> => phase'[r] = "inside")
    BY <1>3, <1>9 DEF IInv, ListInv
  <2>3. \A u \in Operators : todo'[u] # <<>> =>
          subject'[u] \in Runs /\ stopped'[subject'[u]] /\ ~Has(todo'[u], "catch")
    BY <1>2, <1>4, <1>5, <1>6, <1>7 DEF IInv, ListInv
  <2>4. \A u, v \in Operators :
          todo'[u] # <<>> /\ todo'[v] # <<>> /\ subject'[u] = subject'[v] => u = v
    BY <1>2, <1>4, <1>5, <1>13 DEF IInv, ListInv
  <2> QED
    BY <2>1, <2>2, <2>3, <2>4 DEF ListInv
<1>16. FreshInv'
  BY <1>3, <1>6, <1>8, <1>9 DEF IInv, FreshInv
<1>17. UnbornInv'
  BY <1>3, <1>6, <1>8, <1>9 DEF IInv, UnbornInv
<1>18. OnceInv'
  <2>1. \A x \in Callbacks : External[x] # "emit" /\ Cleanup[x] # "emit"
    BY DEF Callbacks, External, Cleanup
  <2>2. \A u \in Threads : \A op :
          op # "emit" => /\ At(u, op)' <=> At(u, op)
                         /\ At(u, op) => Run(u)' = Run(u)
    BY <1>4, <1>10, <1>12 DEF At
  <2>3. OnceInv
    BY DEF IInv
  <2>4. ASSUME NEW r \in Runs, NEW x \in Callbacks
        PROVE  /\ calls'[r][x] \in {0, 1}
               /\ x \notin claimed'[r] => calls'[r][x] = 0
               /\ x \in claimed'[r] =>
                    calls'[r][x] = 1 \/ \E u \in Threads : Run(u)' = r /\ At(u, External[x])'
               /\ \A v \in Threads : Run(v)' = r /\ At(v, External[x])' =>
                    /\ x \in claimed'[r] /\ calls'[r][x] = 0
                    /\ \A u \in Threads : Run(u)' = r /\ At(u, External[x])' => v = u
               /\ x \in began'[r] =>
                    x \in claimed'[r] \/ \E u \in Threads : Run(u)' = r /\ At(u, Cleanup[x])'
    <3>1. calls'[r][x] \in {0, 1} /\ (x \notin claimed'[r] => calls'[r][x] = 0)
      BY <1>3, <2>3 DEF OnceInv
    <3>2. x \in claimed'[r] =>
            calls'[r][x] = 1 \/ \E u \in Threads : Run(u)' = r /\ At(u, External[x])'
      BY <1>3, <2>1, <2>2, <2>3 DEF OnceInv, External
    <3>3. ASSUME NEW v \in Threads, Run(v)' = r, At(v, External[x])'
          PROVE  /\ x \in claimed'[r] /\ calls'[r][x] = 0
                 /\ \A u \in Threads : Run(u)' = r /\ At(u, External[x])' => v = u
      BY <1>3, <2>1, <2>2, <2>3, <3>3 DEF OnceInv, External
    <3>4. x \in began'[r] =>
            x \in claimed'[r] \/ \E u \in Threads : Run(u)' = r /\ At(u, Cleanup[x])'
      BY <1>3, <2>1, <2>2, <2>3 DEF OnceInv, Cleanup
    <3> QED
      BY <3>1, <3>2, <3>3, <3>4
  <2> QED
    BY <2>4 DEF OnceInv, External, Cleanup
<1>19. SmoothInv'
  <2>1. SUFFICES ASSUME NEW r \in Runs
                 PROVE  /\ Has(todo'[r], "receipt") => ~failed'[r]
                        /\ Smooth(r)' /\ Has(todo'[r], "wait") => BeforeExit(r)'
                        /\ Smooth(r)' /\ ~Has(todo'[r], "wait") => AfterExit(r)'
    BY DEF SmoothInv
  <2>2. BeforeExit(r) => BeforeExit(r)'
    <3>1. SUFFICES ASSUME BeforeExit(r) PROVE BeforeExit(r)'
      OBVIOUS
    <3>2. ASSUME NEW u \in Operators, subject'[u] = r
          PROVE  /\ Has(todo'[u], "trip") => ~tripped'[r]
                 /\ \/ Precedes(todo'[u], "trip", "closed")
                    \/ \A x \in Callbacks : x \in began'[r] \/ Precedes(todo'[u], x, "closed")
      <4>1. CASE u # o
        BY <1>2, <1>3, <1>4, <1>5, <3>1, <3>2, <4>1 DEF BeforeExit
      <4>2. CASE u = o
        <5>1. r = s /\ ~tripped[r]
          BY <1>3, <1>5, <3>1, <3>2, <4>2 DEF BeforeExit
        <5> QED
          BY <1>3, <1>4, <1>7, <4>2, <5>1
      <4> QED
        BY <4>1, <4>2
    <3> QED
      BY <1>3, <1>6, <1>9, <3>1, <3>2 DEF BeforeExit
  <2> QED
    BY <1>3, <1>9, <2>2 DEF IInv, SmoothInv, Smooth, AfterExit
<1>20. ClaimInv'
  BY <1>3, <1>9 DEF IInv, ClaimInv, At
<1>21. TripInv'
  <2>1. SUFFICES ASSUME NEW r \in Runs
                 PROVE  TripEnds(r)' /\ ClosedLast(r)' /\ StopTrips(r)' /\ CloseHandled(r)'
    BY DEF TripInv
  <2>2. TripEnds(r) /\ ClosedLast(r) /\ StopTrips(r) /\ CloseHandled(r)
    BY DEF IInv, TripInv
  <2>3. ASSUME NEW op, Pending(r, op) PROVE Pending(r, op)'
    BY <1>4, <1>10, <1>12, <2>3 DEF Pending
  <2>4. TripEnds(r)'
    BY <1>3, <1>11, <2>2, <2>3 DEF TripEnds
  <2>5. StopTrips(r)'
    <3>1. Pending(s, "trip")'
      BY <1>2, <1>4, <1>7, <1>10 DEF Pending
    <3> QED
      BY <1>3, <1>6, <1>11, <2>2, <2>3, <3>1 DEF StopTrips
  <2>6. ClosedLast(r)'
    BY <1>3, <1>4, <1>7, <1>10, <2>2 DEF ClosedLast, Ended
  <2>7. CloseHandled(r)'
    BY <1>3, <1>6, <1>9, <2>2 DEF CloseHandled, At
  <2> QED
    BY <2>4, <2>5, <2>6, <2>7
<1>22. CoverInv'
  <2>1. Raised({"kill", "xrevoke"})' = Raised({"kill", "xrevoke"}) /\ Raised({"bclose"})' = Raised({"bclose"})
    BY <1>11
  <2> QED
    BY <1>3, <1>6, <1>9, <2>1 DEF IInv, CoverInv, Ended, Direct
<1> QED
  BY <1>14, <1>15, <1>16, <1>17, <1>18, <1>19, <1>20, <1>21, <1>22 DEF IInv

(***************************************************************************)
(* The actions.                                                            *)
(***************************************************************************)
\* The lists keep their type.
LEMMA ListsTyped ==
    ASSUME IInv, NEW t \in Threads, NEW h, At(t, h)
    PROVE  /\ Done(t) => todo' \in [Threads -> Seq(Operations)]
           /\ h # "catch" /\ Raise(t) =>
                todo' \in [Threads -> Seq(Operations)] /\ failed' \in [Runs -> BOOLEAN]
           /\ \A m \in Seq(Operations) : m # <<>> /\ m[1] # "catch" /\ Continue(t, m) =>
                todo' \in [Threads -> Seq(Operations)]
<1>1. /\ todo \in [Threads -> Seq(Operations)]
      /\ todo[t] \in Seq(Operations) /\ todo[t] # <<>> /\ todo[t][1] = h /\ InOrder(todo[t])
  BY Stepping
<1>2. Done(t) => todo' \in [Threads -> Seq(Operations)]
  <2>1. Enter(<<>> \o Tail(todo[t])) \in Seq(Operations)
    BY <1>1, PopFacts
  <2> QED
    BY <1>1, <2>1 DEF Done, Continue
<1>3. ASSUME h # "catch", Raise(t)
      PROVE  todo' \in [Threads -> Seq(Operations)] /\ failed' \in [Runs -> BOOLEAN]
  <2>1. Unwind(Tail(todo[t])) \in Seq(Operations)
    BY <1>1, <1>3, RaiseFacts
  <2> QED
    BY <1>1, <1>3, <2>1 DEF Raise, IInv, TypeOK
<1>4. ASSUME NEW m \in Seq(Operations), m # <<>>, m[1] # "catch", Continue(t, m)
      PROVE  todo' \in [Threads -> Seq(Operations)]
  <2>1. Enter(m \o Tail(todo[t])) \in Seq(Operations)
    BY <1>1, <1>4, PushFacts
  <2> QED
    BY <1>1, <1>4, <2>1 DEF Continue
<1> QED
  BY <1>2, <1>3, <1>4

\* A step that raises is not about to call the host.
LEMMA RaiseOnce ==
    ASSUME IInv, NEW t \in Threads, NEW h, At(t, h),
           h \notin {"catch", "crevoke", "cwipe", "xrevoke", "xwipe"}, Raise(t),
           began' = began, claimed' = claimed, calls' = calls, subject' = subject
    PROVE  OnceInv'
<1> DEFINE q == Unwind(Tail(todo[t]))
<1>1. /\ todo[t] \in Seq(Operations) /\ todo[t] # <<>> /\ todo[t][1] = h /\ InOrder(todo[t])
  BY Stepping
<1>2. q \in Seq(Operations) /\ \A op : Has(q, op) => h \in MayPrecede(op)
  BY <1>1, RaiseFacts
<1>3. todo' = [todo EXCEPT ![t] = q]
  BY DEF Raise
<1> HIDE DEF q
<1>4. q # <<>> => Head(q) \notin {"xrevoke", "xwipe"}
  BY <1>2, FirstIsIn, Order
<1> QED
  BY <1>3, <1>4, OnceKept

\* Prepare, Register, the finally block
LEMMA RegistrationKeeps ==
    ASSUME IInv, NEW r \in Runs, Prepare(r) \/ Register(r) \/ Unregister(r)
    PROVE  IInv'
<1>1. r \in Threads
  BY DEF Threads
<1>2. PICK h \in {"prepare", "register", "noctrl", "nostate"} : At(r, h)
  BY DEF Prepare, Register, Unregister
<1>3. /\ Done(r)
      /\ UNCHANGED <<vm, live, stopped, tripped, closed, failed, began, claimed, calls, receipt,
                     chunks, stops, faults, phase, subject>>
      /\ actState' \in Runs \cup {None, Sentinel} /\ actCtrl' \in Runs \cup {None}
  BY DEF Prepare, Register, Unregister, worker, cleanup, bounds, IInv, TypeOK
<1>4. TypeOK'
  BY <1>1, <1>2, <1>3, ListsTyped DEF IInv, TypeOK
<1>5. ReceiptAfterExit' /\ Calm /\ Idle(r, h)
  BY <1>2, <1>3 DEF IInv, ReceiptAfterExit, Calm, Idle
<1> QED
  BY <1>1, <1>2, <1>3, <1>4, <1>5, IdleStep

\* Proceed and Result
LEMMA ProceedKeeps ==
    ASSUME IInv, NEW r \in Runs, Proceed(r) \/ Result(r)
    PROVE  IInv'
<1>1. r \in Threads
  BY DEF Threads
<1>2. PICK h \in {"start", "open", "boot", "send", "agree", "loop"} : At(r, h)
  BY DEF Proceed, Result
<1>3. /\ Done(r)
      /\ UNCHANGED <<vm, live, stopped, tripped, closed, failed, began, claimed, calls, receipt,
                     chunks, stops, faults, phase, subject, actState, actCtrl>>
  BY DEF Proceed, Result, adapter, worker, cleanup, bounds
<1>4. TypeOK'
  BY <1>1, <1>2, <1>3, ListsTyped DEF IInv, TypeOK
<1>5. ReceiptAfterExit' /\ Calm /\ Idle(r, h)
  BY <1>2, <1>3 DEF IInv, ReceiptAfterExit, Calm, Idle
<1> QED
  BY <1>1, <1>2, <1>3, <1>4, <1>5, IdleStep

\* Activate and Deactivate
LEMMA BindingKeeps ==
    ASSUME IInv, NEW r \in Runs, Activate(r) \/ Deactivate(r)
    PROVE  IInv'
<1>1. r \in Threads
  BY DEF Threads
<1>2. PICK h \in {"activate", "deactivate"} :
        At(r, h) /\ live' = [live EXCEPT ![r] = (h = "activate")]
  BY DEF Activate, Deactivate
<1>3. /\ Done(r)
      /\ UNCHANGED <<vm, stopped, tripped, closed, failed, began, claimed, calls, receipt,
                     chunks, stops, faults, phase, subject, actState, actCtrl>>
  BY DEF Activate, Deactivate, adapter, cleanup, bounds
<1>4. TypeOK'
  BY <1>1, <1>2, <1>3, ListsTyped DEF IInv, TypeOK
<1>5. ReceiptAfterExit' /\ Calm /\ Idle(r, h)
  BY <1>2, <1>3 DEF IInv, ReceiptAfterExit, Calm, Idle
<1>6. \A s \in Runs : live'[s] => live[s] \/ (s = r /\ h = "activate")
  BY <1>2 DEF IInv, TypeOK
<1> QED
  BY <1>1, <1>2, <1>3, <1>4, <1>5, <1>6, IdleStep

\* A run that raises: Refuse, LoopFails
LEMMA RefuseKeeps ==
    ASSUME IInv, NEW r \in Runs, Refuse(r) \/ LoopFails(r)
    PROVE  IInv'
<1>1. r \in Threads
  BY DEF Threads
<1>2. PICK h \in {"boot", "send", "agree", "raise", "loop"} : At(r, h)
  BY DEF Refuse, LoopFails
<1>3. /\ Raise(r)
      /\ UNCHANGED <<vm, live, stopped, tripped, closed, began, claimed, calls, receipt,
                     chunks, stops, faults, phase, subject, actState, actCtrl>>
  BY DEF Refuse, LoopFails, adapter, core, cleanup, bounds
<1>4. TypeOK'
  BY <1>1, <1>2, <1>3, ListsTyped DEF IInv, TypeOK
<1>5. OnceInv'
  BY <1>1, <1>2, <1>3, RaiseOnce
<1>6. Recorded(h)
  BY <1>2, <1>3 DEF Recorded
<1> QED
  BY <1>1, <1>2, <1>3, <1>4, <1>5, <1>6, RaiseStep

\* wait is entered, or finds the lifecycle closed and raises.
LEMMA EnterWaitKeeps ==
    ASSUME IInv, NEW r \in Runs, EnterWait(r)
    PROVE  IInv'
<1>1. r \in Threads /\ At(r, "enter")
  BY DEF Threads, EnterWait
<1>2. UNCHANGED <<vm, live, stopped, tripped, closed, began, claimed, calls, receipt,
                  chunks, stops, faults, phase, subject, actState, actCtrl>>
  BY DEF EnterWait, adapter, core, cleanup, bounds
<1>3. CASE Done(r) /\ UNCHANGED failed
  <2>1. TypeOK'
    BY <1>1, <1>2, <1>3, ListsTyped DEF IInv, TypeOK
  <2>2. ReceiptAfterExit' /\ Calm /\ Idle(r, "enter")
    BY <1>1, <1>2, <1>3 DEF IInv, ReceiptAfterExit, Calm, Idle
  <2> QED
    BY <1>1, <1>2, <1>3, <2>1, <2>2, IdleStep
<1>4. CASE Raise(r)
  <2>1. TypeOK'
    BY <1>1, <1>2, <1>4, ListsTyped DEF IInv, TypeOK
  <2>2. OnceInv'
    BY <1>1, <1>2, <1>4, RaiseOnce
  <2>3. Recorded("enter")
    BY <1>2 DEF Recorded
  <2> QED
    BY <1>1, <1>2, <1>4, <2>1, <2>2, <2>3, RaiseStep
<1> QED
  BY <1>3, <1>4 DEF EnterWait

\* A smooth run at its receipt has no wait, and no callback to begin.
LEMMA ReceiptKeeps ==
    ASSUME IInv, NEW r \in Runs, Receipt(r)
    PROVE  IInv'
<1>1. r \in Threads /\ At(r, "receipt")
  BY DEF Threads, Receipt
<1>2. /\ Done(r) /\ receipt' = [receipt EXCEPT ![r] = TRUE]
      /\ UNCHANGED <<vm, live, stopped, tripped, closed, failed, began, claimed, calls,
                     chunks, stops, faults, phase, subject, actState, actCtrl>>
  BY DEF Receipt, adapter, worker, cleanup, bounds
<1>3. TypeOK'
  BY <1>1, <1>2, ListsTyped DEF IInv, TypeOK
<1>4. Calm /\ Idle(r, "receipt")
  BY <1>1, <1>2 DEF Calm, Idle
<1>5. /\ todo[r] \in Seq(Operations) /\ todo[r] # <<>> /\ todo[r][1] = "receipt"
      /\ InOrder(todo[r]) /\ Has(todo[r], "receipt") /\ phase[r] = "inside"
  BY <1>1, Stepping
<1>6. \A op \in {"raise", "wait", "revoke", "wipe"} : ~Has(todo[r], op)
  BY <1>5, Behind, Order DEF Inserted, Working
<1>7. Smooth(r)
  BY <1>5, <1>6 DEF Smooth, IInv, SmoothInv
<1>8. vm[r] = "exited" /\ began[r] = Callbacks
  <2>1. AfterExit(r)
    BY <1>6, <1>7 DEF IInv, SmoothInv
  <2>2. began[r] \subseteq Callbacks
    BY DEF IInv, TypeOK
  <2> QED
    BY <1>6, <2>1, <2>2 DEF AfterExit, Callbacks
<1>9. ReceiptAfterExit'
  BY <1>2, <1>8 DEF IInv, TypeOK, ReceiptAfterExit
<1>10. \A s \in Runs : receipt'[s] = receipt[s] \/ (s = r /\ "receipt" = "receipt")
  BY <1>2 DEF IInv, TypeOK
<1> QED
  BY <1>1, <1>2, <1>3, <1>4, <1>9, <1>10, IdleStep

\* Expire, and the operations that put others in front or have none to put
LEMMA BranchKeeps ==
    ASSUME IInv, NEW r \in Runs, Expire(r) \/ WaitExit(r) \/ Fallback(r) \/ Settle(r) \/ Leftover(r)
    PROVE  IInv'
<1>1. r \in Threads
  BY DEF Threads
<1>2. UNCHANGED <<vm, live, stopped, tripped, closed, failed, began, claimed, calls, receipt,
                  chunks, stops, faults, phase, subject, actState, actCtrl>>
  BY DEF Expire, WaitExit, Fallback, Settle, Leftover, adapter, worker, cleanup, bounds
<1>3. ASSUME NEW h, At(r, h), NEW m, Adds(r, h, m), Continue(r, m)
      PROVE  IInv'
  <2>2. m \in Seq(Operations) /\ m # <<>> /\ m[1] # "catch"
    BY <1>3, AddsFacts
  <2>3. TypeOK'
    BY <1>1, <1>2, <1>3, <2>2, ListsTyped DEF IInv, TypeOK
  <2>4. h # "failure"
    <3>1. ~At(r, "failure")
      BY DEF At, Expire, WaitExit, Fallback, Settle, Leftover
    <3> QED
      BY <1>3, <3>1
  <2> QED
    BY <1>2, <1>3, <2>3, <2>4, AddStep DEF Calm
<1>4. ASSUME NEW h, At(r, h), Idle(r, h), Continue(r, <<>>)
      PROVE  IInv'
  <2>1. TypeOK'
    BY <1>1, <1>2, <1>4, ListsTyped DEF IInv, TypeOK, Done
  <2>2. ReceiptAfterExit' /\ Calm /\ Done(r)
    BY <1>2, <1>4 DEF IInv, ReceiptAfterExit, Calm, Done
  <2> QED
    BY <1>1, <1>2, <1>4, <2>1, <2>2, IdleStep
<1>5. CASE Expire(r)
  <2>1. PICK h \in {"loop", "wait"} : At(r, h)
    BY <1>5 DEF Expire
  <2> QED
    BY <1>3, <1>5, <2>1 DEF Expire, Adds
<1>6. CASE WaitExit(r)
  <2>1. CASE closed[r]
    <3>1. At(r, "wait") /\ Continue(r, <<>>) /\ Idle(r, "wait")
      BY <1>6, <2>1 DEF WaitExit, Idle
    <3> QED
      BY <1>4, <3>1
  <2>2. CASE ~closed[r]
    <3>1. At(r, "wait") /\ Continue(r, Finish) /\ Adds(r, "wait", Finish)
      BY <1>6, <2>2 DEF WaitExit, Adds
    <3> QED
      BY <1>3, <3>1
  <2> QED
    BY <2>1, <2>2
<1>7. CASE Fallback(r)
  <2>1. CASE closed[r]
    <3>1. At(r, "fallback") /\ Continue(r, <<>>) /\ Idle(r, "fallback")
      BY <1>7, <2>1 DEF Fallback, Idle
    <3> QED
      BY <1>4, <3>1
  <2>2. CASE ~closed[r]
    <3>1. At(r, "fallback") /\ Continue(r, LifecycleStop) /\ Adds(r, "fallback", LifecycleStop)
      BY <1>7, <2>2 DEF Fallback, Adds
    <3> QED
      BY <1>3, <3>1
  <2> QED
    BY <2>1, <2>2
<1>8. CASE Settle(r)
  <2>1. CASE failed[r]
    <3>1. At(r, "settle") /\ Continue(r, <<>>) /\ Idle(r, "settle")
      BY <1>8, <2>1 DEF Settle, Idle
    <3> QED
      BY <1>4, <3>1
  <2>2. CASE ~failed[r]
    <3>1. At(r, "settle") /\ Continue(r, <<"crevoke", "cwipe">>)
          /\ Adds(r, "settle", <<"crevoke", "cwipe">>)
      BY <1>8, <2>2 DEF Settle, Adds
    <3> QED
      BY <1>3, <3>1
  <2> QED
    BY <2>1, <2>2
<1>9. CASE Leftover(r)
  <2>1. CASE ~(failed[r] /\ "revoke" \notin claimed[r])
    <3>1. At(r, "leftover") /\ Continue(r, <<>>) /\ Idle(r, "leftover")
      BY <1>9, <2>1 DEF Leftover, Idle
    <3> QED
      BY <1>4, <3>1
  <2>2. CASE failed[r] /\ "revoke" \notin claimed[r]
    <3>1. At(r, "leftover") /\ Continue(r, WithoutWorker) /\ Adds(r, "leftover", WithoutWorker)
      BY <1>9, <2>2 DEF Leftover, Adds
    <3> QED
      BY <1>3, <3>1
  <2> QED
    BY <2>1, <2>2
<1> QED
  BY <1>5, <1>6, <1>7, <1>8, <1>9

\* The except block stops the worker unless an operator did.
LEMMA FailureKeeps ==
    ASSUME IInv, NEW r \in Runs, Failure(r)
    PROVE  IInv'
<1>1. r \in Threads /\ At(r, "failure")
  BY DEF Threads, Failure
<1>2. UNCHANGED <<vm, live, tripped, closed, failed, began, claimed, calls, receipt,
                  chunks, stops, faults, phase, subject, actState, actCtrl>>
  BY DEF Failure, adapter, cleanup, bounds
<1>3. stopped \in [Runs -> BOOLEAN] /\ failed \in [Runs -> BOOLEAN]
  BY DEF IInv, TypeOK
<1>4. CASE failed[r] /\ ~stopped[r]
  <2>1. Continue(r, StopAfterFailure) /\ stopped' = [stopped EXCEPT ![r] = TRUE]
    BY <1>3, <1>4 DEF Failure
  <2>2. StopAfterFailure \in Seq(Operations) /\ StopAfterFailure # <<>> /\ StopAfterFailure[1] # "catch"
    BY FailureList
  <2>3. todo' \in [Threads -> Seq(Operations)]
    BY <1>1, <2>1, <2>2, ListsTyped
  <2>4. TypeOK'
    BY <1>2, <2>1, <2>3 DEF IInv, TypeOK
  <2>5. Calm /\ Adds(r, "failure", StopAfterFailure)
    BY <1>2 DEF Calm, Adds
  <2>6. \A s \in Runs : stopped'[s] <=> stopped[s] \/ (s = r /\ "failure" = "failure")
    BY <1>3, <2>1
  <2> QED
    BY <1>1, <1>2, <2>1, <2>4, <2>5, <2>6, AddStep
<1>5. CASE ~failed[r] \/ stopped[r]
  <2>1. Continue(r, <<>>) /\ stopped' = stopped
    BY <1>3, <1>5 DEF Failure
  <2>2. TypeOK'
    BY <1>1, <1>2, <2>1, ListsTyped DEF IInv, TypeOK, Done
  <2>3. ReceiptAfterExit' /\ Calm /\ Idle(r, "failure") /\ Done(r)
    BY <1>1, <1>2, <1>5, <2>1 DEF IInv, ReceiptAfterExit, Calm, Idle, Done
  <2> QED
    BY <1>1, <1>2, <2>1, <2>2, <2>3, IdleStep
<1> QED
  BY <1>3, <1>4, <1>5

\* The chunk's event comes before the loop goes on.
LEMMA StreamKeeps ==
    ASSUME IInv, NEW r \in Runs, Stream(r)
    PROVE  IInv'
<1> DEFINE p == todo[r]
<1>1. r \in Threads /\ At(r, "loop")
  BY DEF Threads, Stream
<1>2. UNCHANGED <<vm, live, stopped, tripped, closed, failed, began, claimed, calls, receipt,
                  stops, faults, phase, subject, actState, actCtrl>>
  BY DEF Stream, adapter, worker, cleanup
<1>3. p \in Seq(Operations) /\ p # <<>> /\ p[1] = "loop" /\ todo \in [Threads -> Seq(Operations)]
  BY <1>1, Stepping
<1>4. <<"emit">> \o p = Enter(<<"emit", "loop">> \o Tail(p))
  <2>1. <<"emit">> \o p = <<"emit", "loop">> \o Tail(p)
    <3> DEFINE a == <<"emit">> \o p
               b == <<"emit", "loop">> \o Tail(p)
    <3>0. /\ <<"emit">> \in Seq(Operations) /\ <<"emit", "loop">> \in Seq(Operations)
          /\ Tail(p) \in Seq(Operations)
      <4>1. <<"emit">> \in Seq({"emit"}) /\ {"emit"} \subseteq Operations
        BY DEF Operations
      <4> QED
        BY <1>3, <4>1, SeqMonotonic, StreamList
    <3>1. a \in Seq(Operations) /\ b \in Seq(Operations) /\ Len(a) = 1 + Len(p) /\ Len(b) = 1 + Len(p)
      BY <1>3, <3>0
    <3>2. ASSUME NEW i \in 1 .. Len(a) PROVE a[i] = b[i]
      <4>1. CASE i = 1
        BY <1>3, <3>0, <4>1
      <4>2. CASE i = 2
        BY <1>3, <3>0, <3>1, <4>2
      <4>3. CASE i > 2
        <5>1. a[i] = p[i - 1]
          BY <1>3, <3>0, <3>1, <4>3
        <5>2. b[i] = Tail(p)[i - 2] /\ i - 2 \in 1 .. Len(Tail(p))
          BY <1>3, <3>0, <3>1, <4>3
        <5>3. Tail(p)[i - 2] = p[i - 1]
          BY <1>3, <5>2
        <5> QED
          BY <5>1, <5>2, <5>3
      <4> QED
        BY <4>1, <4>2, <4>3
    <3> HIDE DEF a, b
    <3>3. a = b
      BY <3>1, <3>2, SeqEqual
    <3> QED
      BY <3>3 DEF a, b
  <2>2. Head(<<"emit", "loop">> \o Tail(p)) = "emit"
    BY <1>3, StreamList
  <2> QED
    BY <2>1, <2>2 DEF Enter
<1>5. Continue(r, <<"emit", "loop">>)
  BY <1>4 DEF Stream, Continue
<1>6. todo' \in [Threads -> Seq(Operations)]
  <2>1. <<"emit", "loop">> \in Seq(Operations) /\ <<"emit", "loop">> # <<>> /\ <<"emit", "loop">>[1] # "catch"
    BY StreamList
  <2> QED
    BY <1>1, <1>5, <2>1, ListsTyped
<1>7. TypeOK'
  <2>1. chunks' \in 0 .. MaxChunks
    BY RunAssumption DEF Stream, IInv, TypeOK
  <2> QED
    BY <1>2, <1>6, <2>1 DEF IInv, TypeOK
<1>8. Calm /\ Adds(r, "loop", <<"emit", "loop">>)
  BY <1>2 DEF Calm, Adds
<1> QED
  BY <1>1, <1>2, <1>5, <1>7, <1>8, AddStep

\* What raises is recorded.
LEMMA FaultTyped ==
    ASSUME IInv, NEW t \in Threads, NEW h \in FaultKinds, At(t, h), Fault(t, h)
    PROVE  /\ Raise(t) /\ Recorded(h)
           /\ faults' \in Seq(FaultKinds) /\ Len(faults') <= MaxFaults
           /\ todo' \in [Threads -> Seq(Operations)] /\ failed' \in [Runs -> BOOLEAN]
<1>1. Raise(t) /\ faults' = Append(faults, h) /\ Len(faults) < MaxFaults
  BY DEF Fault
<1>2. Recorded(h) /\ h # "catch"
  BY <1>1 DEF Recorded, FaultKinds
<1>3. faults' \in Seq(FaultKinds) /\ Len(faults') = Len(faults) + 1 /\ Len(faults) \in Nat
  BY <1>1, RaisedKept
<1> QED
  BY <1>1, <1>2, <1>3, ListsTyped, RunAssumption

\* BrokerClose of a run and Emit of either thread
LEMMA ReportKeeps ==
    ASSUME IInv, NEW t \in Threads, (t \in Runs /\ BrokerClose(t)) \/ Emit(t)
    PROVE  IInv'
<1>1. PICK h \in {"bclose", "emit"} :
        At(t, h) /\ ((Done(t) /\ NoFault) \/ Fault(t, h)) /\ (t \notin Runs => h = "emit")
  BY DEF BrokerClose, Emit
<1>2. UNCHANGED <<vm, live, stopped, tripped, closed, began, claimed, calls, receipt,
                  chunks, stops, phase, subject, actState, actCtrl>>
  BY DEF BrokerClose, Emit, adapter, core, cleanup
<1>3. CASE Done(t) /\ NoFault
  <2>1. TypeOK'
    BY <1>1, <1>2, <1>3, ListsTyped DEF IInv, TypeOK, NoFault
  <2>2. ReceiptAfterExit' /\ Calm /\ Idle(t, h)
    BY <1>1, <1>2, <1>3 DEF IInv, ReceiptAfterExit, Calm, Idle, NoFault
  <2> QED
    BY <1>1, <1>2, <1>3, <2>1, <2>2, IdleStep
<1>4. CASE Fault(t, h)
  <2>0. h \in FaultKinds
    BY DEF FaultKinds
  <2>1. /\ Raise(t) /\ Recorded(h)
        /\ faults' \in Seq(FaultKinds) /\ Len(faults') <= MaxFaults
        /\ todo' \in [Threads -> Seq(Operations)] /\ failed' \in [Runs -> BOOLEAN]
    BY <1>1, <1>4, <2>0, FaultTyped
  <2>2. TypeOK'
    BY <1>2, <2>1 DEF IInv, TypeOK
  <2>3. OnceInv'
    BY <1>1, <1>2, <2>1, RaiseOnce
  <2> QED
    BY <1>1, <1>2, <2>1, <2>2, <2>3, RaiseStep
<1> QED
  BY <1>1, <1>3, <1>4

\* A run that abandons its work
LEMMA AbandonKeeps ==
    ASSUME IInv, NEW r \in Runs, PrepareFails(r) \/ LaunchFails(r) \/ StartFails(r) \/ OpenFails(r)
    PROVE  IInv'
<1>1. r \in Threads /\ todo \in [Threads -> Seq(Operations)]
  BY DEF Threads, IInv, TypeOK
<1>2. /\ failed' = [failed EXCEPT ![r] = TRUE]
      /\ UNCHANGED <<adapter, core, cleanup, receipt, bounds, phase, subject>>
  BY DEF PrepareFails, LaunchFails, StartFails, OpenFails, Abandon
<1>f. UNCHANGED <<core, cleanup, receipt, faults, phase, subject>>
  BY <1>2 DEF bounds
<1>3. ASSUME NEW q \in Seq(Operations), todo' = [todo EXCEPT ![r] = q] PROVE TypeOK'
  BY <1>1, <1>2, <1>3 DEF IInv, TypeOK, adapter, core, cleanup, bounds
<1>4. CASE PrepareFails(r)
  <2> DEFINE q == <<"noctrl", "nostate", "end">>
  <2>1. At(r, "prepare") /\ todo' = [todo EXCEPT ![r] = q]
    BY <1>4 DEF PrepareFails
  <2>2. /\ q \in Seq(Operations) /\ q # <<>> /\ q[1] = "noctrl" /\ InOrder(q) /\ Caught(q)
        /\ Precedes(q, "trip", "closed") /\ Precedes(q, "failure", "bclose")
        /\ \A op : Has(q, op) <=> op \in {"noctrl", "nostate", "end"}
    BY NoCleanup
  <2> HIDE DEF q
  <2>3. TypeOK'
    BY <1>3, <2>1, <2>2
  <2>4. Leaves("prepare", q)
    BY <2>2 DEF Leaves
  <2> QED
    BY <1>2, <1>f, <2>1, <2>3, <2>4, AbandonStep
<1>5. CASE LaunchFails(r)
  <2> DEFINE q == WithoutWorker \o AdapterTail
  <2>1. At(r, "launch") /\ todo' = [todo EXCEPT ![r] = q]
    BY <1>5 DEF LaunchFails, Abandon
  <2>2. /\ q \in Seq(Operations) /\ q # <<>> /\ q[1] = "crevoke" /\ InOrder(q) /\ Caught(q)
        /\ Precedes(q, "trip", "closed") /\ Precedes(q, "failure", "bclose")
        /\ \A op : Has(q, op) <=> op \in {"crevoke", "catch", "cwipe", "settle", "leftover",
                                          "noctrl", "nostate", "end"}
    BY Abandoned0
  <2> HIDE DEF q
  <2>3. TypeOK'
    BY <1>3, <2>1, <2>2
  <2>4. Leaves("launch", q)
    BY <2>2 DEF Leaves
  <2> QED
    BY <1>2, <1>f, <2>1, <2>3, <2>4, AbandonStep
<1>6. CASE StartFails(r)
  <2> DEFINE q == <<"kill", "catch">> \o WithoutWorker \o AdapterTail
  <2>1. At(r, "start") /\ todo' = [todo EXCEPT ![r] = q]
    BY <1>6 DEF StartFails, Abandon
  <2>2. /\ q \in Seq(Operations) /\ q # <<>> /\ q[1] = "kill" /\ InOrder(q) /\ Caught(q)
        /\ Precedes(q, "trip", "closed") /\ Precedes(q, "failure", "bclose")
        /\ \A op : Has(q, op) <=> op \in {"kill", "catch", "crevoke", "cwipe", "settle", "leftover",
                                          "noctrl", "nostate", "end"}
    BY Abandoned1
  <2> HIDE DEF q
  <2>3. TypeOK'
    BY <1>3, <2>1, <2>2
  <2>4. Leaves("start", q)
    BY <2>2 DEF Leaves
  <2> QED
    BY <1>2, <1>f, <2>1, <2>3, <2>4, AbandonStep
<1>7. CASE OpenFails(r)
  <2> DEFINE q == LifecycleStop \o <<"catch">> \o WithoutWorker \o AdapterTail
  <2>1. At(r, "open") /\ todo' = [todo EXCEPT ![r] = q]
    BY <1>7 DEF OpenFails, Abandon
  <2>2. /\ q \in Seq(Operations) /\ q # <<>> /\ q[1] = "trip" /\ InOrder(q) /\ Caught(q)
        /\ Precedes(q, "trip", "closed") /\ Precedes(q, "failure", "bclose")
        /\ \A op : Has(q, op) <=> op \in {"trip", "closed", "catch", "crevoke", "cwipe", "settle",
                                          "leftover", "noctrl", "nostate", "end"}
    BY Abandoned2
  <2> HIDE DEF q
  <2>3. TypeOK'
    BY <1>3, <2>1, <2>2
  <2>4. Leaves("open", q)
    BY <2>2 DEF Leaves
  <2> QED
    BY <1>2, <1>f, <2>1, <2>3, <2>4, AbandonStep
<1> QED
  BY <1>4, <1>5, <1>6, <1>7

\* An operation that is done passes on what was behind it.
LEMMA Popped ==
    ASSUME IInv, NEW t \in Threads, NEW h, At(t, h), Done(t)
    PROVE  \E q : /\ todo' = [todo EXCEPT ![t] = q] /\ Passes(todo[t], q, h, <<>>)
                  /\ t \in Runs => Caught(q)
                  /\ q # <<>> => Head(q) \notin {"xrevoke", "xwipe"}
<1> DEFINE p == todo[t]
           q == Enter(<<>> \o Tail(todo[t]))
<1>1. /\ p \in Seq(Operations) /\ p # <<>> /\ p[1] = h /\ InOrder(p) /\ (t \in Runs => Caught(p))
  BY Stepping
<1>2. /\ q \in Seq(Operations) /\ InOrder(q) /\ (Caught(p) => Caught(q))
      /\ \A op : Has(q, op) => Has(p, op) /\ h \in MayPrecede(op)
      /\ \A op : Has(p, op) /\ op # h /\ op # "catch" => Has(q, op)
      /\ \A a, b : Precedes(p, a, b) /\ a # h /\ a # "catch" => Precedes(q, a, b)
  BY <1>1, PopFacts
<1>3. todo' = [todo EXCEPT ![t] = q]
  BY DEF Done, Continue
<1>4. \A op : ~Has(<<>>, op)
  BY EmptyList
<1> HIDE DEF p, q
<1>5. Passes(p, q, h, <<>>)
  BY <1>2, <1>4 DEF Passes
<1>6. q # <<>> => Head(q) \notin {"xrevoke", "xwipe"}
  BY <1>2, FirstIsIn, Order
<1> QED
  BY <1>1, <1>2, <1>3, <1>5, <1>6 DEF p

\* So does one that puts others in front.
LEMMA Pushed ==
    ASSUME IInv, NEW t \in Threads, NEW h, At(t, h), h \notin {"catch", "bclose"},
           NEW m \in Seq(Operations), m # <<>>, m[1] # "catch", InOrder(m), Pushable(h, m),
           \A b : h \in MayPrecede(b) => \A i \in 1 .. Len(m) : m[i] \in MayPrecede(b),
           Continue(t, m)
    PROVE  \E q : /\ todo' = [todo EXCEPT ![t] = q] /\ Passes(todo[t], q, h, m)
                  /\ t \in Runs => Caught(q)
                  /\ q # <<>> /\ Head(q) = m[1]
<1> DEFINE p == todo[t]
           q == Enter(m \o Tail(todo[t]))
<1>1. /\ p \in Seq(Operations) /\ p # <<>> /\ p[1] = h /\ InOrder(p) /\ (t \in Runs => Caught(p))
  BY Stepping
<1>2. /\ q \in Seq(Operations) /\ q # <<>> /\ q[1] = m[1] /\ InOrder(q)
      /\ \A op : Has(q, op) => Has(m, op) \/ (Has(p, op) /\ h \in MayPrecede(op))
      /\ \A op : Has(m, op) => Has(q, op)
      /\ \A op : Has(p, op) /\ op # h => Has(q, op)
      /\ \A a, b : Precedes(p, a, b) /\ a # h /\ ~Has(m, b) => Precedes(q, a, b)
      /\ \A a, b : Has(m, a) /\ Precedes(m, a, b) => Precedes(q, a, b)
  BY <1>1, PushFacts
<1>3. Caught(p) => Caught(q)
  BY <1>1, PushCaught
<1>4. todo' = [todo EXCEPT ![t] = q]
  BY DEF Continue
<1> HIDE DEF p, q
<1>5. Passes(p, q, h, m)
  BY <1>2 DEF Passes
<1>6. Head(q) = m[1]
  BY <1>2, FirstIsIn
<1> QED
  BY <1>1, <1>2, <1>3, <1>4, <1>5, <1>6 DEF p

\* The supervisor trips once.
LEMMA TripKeeps ==
    ASSUME IInv, NEW t \in Threads, TripOnce(t)
    PROVE  IInv'
<1> DEFINE m == IF tripped[Run(t)] THEN <<>> ELSE Trip
<1>1. At(t, "trip") /\ Run(t) \in Runs
  BY Stepping DEF TripOnce
<1>2. /\ tripped' = [tripped EXCEPT ![Run(t)] = TRUE] /\ Continue(t, m)
      /\ UNCHANGED <<vm, live, stopped, closed, failed, began, claimed, calls, receipt,
                     chunks, stops, faults, phase, subject, actState, actCtrl>>
  BY DEF TripOnce, adapter, cleanup, bounds
<1>3. PICK q : /\ todo' = [todo EXCEPT ![t] = q] /\ Passes(todo[t], q, "trip", m)
               /\ t \in Runs => Caught(q)
               /\ q # <<>> => Head(q) \notin {"xrevoke", "xwipe"}
  <2>1. CASE tripped[Run(t)]
    <3>1. m = <<>> /\ Done(t)
      BY <1>2, <2>1 DEF Done
    <3> QED
      BY <1>1, <3>1, Popped
  <2>2. CASE ~tripped[Run(t)]
    <3>1. m = Trip /\ Continue(t, Trip)
      BY <1>2, <2>2
    <3>2. \E q : /\ todo' = [todo EXCEPT ![t] = q] /\ Passes(todo[t], q, "trip", Trip)
                 /\ t \in Runs => Caught(q)
                 /\ q # <<>> /\ Head(q) = "revoke"
      BY <1>1, <3>1, TripList, Pushed
    <3> QED
      BY <3>1, <3>2
  <2> QED
    BY <2>1, <2>2
<1>4. \A op : Has(m, op) <=> ~tripped[Run(t)] /\ op \in {"revoke", "kill", "wipe"}
  BY TripList, EmptyList
<1> HIDE DEF m
<1>5. TypeOK'
  <2>1. q \in Seq(Operations)
    BY <1>3 DEF Passes
  <2> QED
    BY <1>1, <1>2, <1>3, <2>1 DEF IInv, TypeOK
<1>6. OnceInv'
  BY <1>1, <1>2, <1>3, OnceKept
<1>7. Grows(Run(t), "trip", m)
  <2>1. \A r \in Runs : (r # Run(t) => tripped'[r] = tripped[r]) /\ (r = Run(t) => tripped'[r] = TRUE)
    BY <1>2 DEF IInv, TypeOK
  <2>2. \A x \in Callbacks : x # "trip" /\ Cleanup[x] # "trip"
    BY DEF Callbacks, Cleanup
  <2> QED
    BY <1>1, <1>2, <1>4, <2>1, <2>2 DEF Grows, Inserted
<1> QED
  BY <1>1, <1>3, <1>5, <1>6, <1>7, GrowStep

\* The lifecycle is marked closed.
LEMMA MarkClosedKeeps ==
    ASSUME IInv, NEW t \in Threads, MarkClosed(t)
    PROVE  IInv'
<1>1. At(t, "closed") /\ Run(t) \in Runs
  BY Stepping DEF MarkClosed
<1>2. /\ closed' = [closed EXCEPT ![Run(t)] = TRUE] /\ Done(t)
      /\ UNCHANGED <<vm, live, stopped, tripped, failed, began, claimed, calls, receipt,
                     chunks, stops, faults, phase, subject, actState, actCtrl>>
  BY DEF MarkClosed, adapter, cleanup, bounds
<1>3. PICK q : /\ todo' = [todo EXCEPT ![t] = q] /\ Passes(todo[t], q, "closed", <<>>)
               /\ t \in Runs => Caught(q)
               /\ q # <<>> => Head(q) \notin {"xrevoke", "xwipe"}
  BY <1>1, <1>2, Popped
<1>4. TypeOK'
  <2>1. q \in Seq(Operations)
    BY <1>3 DEF Passes
  <2> QED
    BY <1>1, <1>2, <1>3, <2>1 DEF IInv, TypeOK
<1>5. OnceInv'
  BY <1>1, <1>2, <1>3, OnceKept
<1>6. Grows(Run(t), "closed", <<>>)
  <2>1. \A r \in Runs : (r # Run(t) => closed'[r] = closed[r]) /\ (r = Run(t) => closed'[r] = TRUE)
    BY <1>2 DEF IInv, TypeOK
  <2>2. \A x \in Callbacks : x # "closed" /\ Cleanup[x] # "closed"
    BY DEF Callbacks, Cleanup
  <2>3. \A op : ~Has(<<>>, op)
    BY EmptyList
  <2> QED
    BY <1>1, <1>2, <2>1, <2>2, <2>3 DEF Grows, Inserted
<1> QED
  BY <1>1, <1>3, <1>4, <1>5, <1>6, GrowStep

\* The process is killed, or the kill raises.
LEMMA KillKeeps ==
    ASSUME IInv, NEW t \in Threads, Kill(t)
    PROVE  IInv'
<1>1. At(t, "kill") /\ Run(t) \in Runs
  BY Stepping DEF Kill
<1>2. UNCHANGED <<live, stopped, tripped, closed, began, claimed, calls, receipt,
                  chunks, stops, phase, subject, actState, actCtrl>>
  BY DEF Kill, adapter, cleanup
<1>3. CASE Done(t) /\ NoFault /\ vm' = [vm EXCEPT ![Run(t)] = "exited"]
  <2>1. PICK q : /\ todo' = [todo EXCEPT ![t] = q] /\ Passes(todo[t], q, "kill", <<>>)
                 /\ t \in Runs => Caught(q)
                 /\ q # <<>> => Head(q) \notin {"xrevoke", "xwipe"}
    BY <1>1, <1>3, Popped
  <2>2. TypeOK'
    <3>1. q \in Seq(Operations)
      BY <2>1 DEF Passes
    <3> QED
      BY <1>1, <1>2, <1>3, <2>1, <3>1 DEF IInv, TypeOK, NoFault
  <2>3. OnceInv'
    BY <1>1, <1>2, <2>1, OnceKept
  <2>4. Grows(Run(t), "kill", <<>>)
    <3>1. \A r \in Runs : (r # Run(t) => vm'[r] = vm[r]) /\ (r = Run(t) => vm'[r] = "exited")
      BY <1>3 DEF IInv, TypeOK
    <3>2. \A x \in Callbacks : x # "kill" /\ Cleanup[x] # "kill"
      BY DEF Callbacks, Cleanup
    <3>3. \A op : ~Has(<<>>, op)
      BY EmptyList
    <3> QED
      BY <1>1, <1>2, <1>3, <3>1, <3>2, <3>3 DEF Grows, Inserted, NoFault
  <2> QED
    BY <1>1, <2>1, <2>2, <2>3, <2>4, GrowStep
<1>4. CASE Fault(t, "kill") /\ UNCHANGED vm
  <2>0. "kill" \in FaultKinds
    BY DEF FaultKinds
  <2>1. /\ Raise(t) /\ Recorded("kill")
        /\ faults' \in Seq(FaultKinds) /\ Len(faults') <= MaxFaults
        /\ todo' \in [Threads -> Seq(Operations)] /\ failed' \in [Runs -> BOOLEAN]
    BY <1>1, <1>4, <2>0, FaultTyped
  <2>2. TypeOK'
    BY <1>2, <1>4, <2>1 DEF IInv, TypeOK
  <2>3. OnceInv'
    BY <1>1, <1>2, <2>1, RaiseOnce
  <2> QED
    BY <1>1, <1>2, <1>4, <2>1, <2>2, <2>3, RaiseStep
<1> QED
  BY <1>3, <1>4 DEF Kill

\* The callbacks and their operations
LEMMA CallbackNames ==
    /\ External["revoke"] = "xrevoke" /\ External["wipe"] = "xwipe"
    /\ Cleanup["revoke"] = "crevoke" /\ Cleanup["wipe"] = "cwipe"
    /\ \A x \in Callbacks : x = "revoke" \/ x = "wipe"
  BY DEF External, Cleanup, Callbacks

\* What is put in front of the list for a callback
LEMMA CallbackLists ==
    ASSUME NEW x \in Callbacks
    PROVE  /\ <<Cleanup[x]>> \in Seq(Operations) /\ <<Cleanup[x]>> # <<>> /\ <<Cleanup[x]>>[1] = Cleanup[x]
           /\ InOrder(<<Cleanup[x]>>) /\ Pushable(x, <<Cleanup[x]>>)
           /\ \A op : Has(<<Cleanup[x]>>, op) <=> op = Cleanup[x]
           /\ \A b : x \in MayPrecede(b) => \A i \in 1 .. Len(<<Cleanup[x]>>) : <<Cleanup[x]>>[i] \in MayPrecede(b)
           /\ <<External[x]>> \in Seq(Operations) /\ <<External[x]>> # <<>> /\ <<External[x]>>[1] = External[x]
           /\ InOrder(<<External[x]>>) /\ Pushable(Cleanup[x], <<External[x]>>)
           /\ \A op : Has(<<External[x]>>, op) <=> op = External[x]
           /\ \A b : Cleanup[x] \in MayPrecede(b) =>
                \A i \in 1 .. Len(<<External[x]>>) : <<External[x]>>[i] \in MayPrecede(b)
<1>1. CASE x = "revoke"
  BY <1>1, CallbackNames, RevokeList, CRevokeList
<1>2. CASE x = "wipe"
  BY <1>2, CallbackNames, WipeList, CWipeList
<1> QED
  BY <1>1, <1>2, CallbackNames

\* The lifecycle begins a callback once.
LEMMA LifecycleKeeps ==
    ASSUME IInv, NEW t \in Threads, NEW x \in Callbacks, LifecycleCallback(t, x)
    PROVE  IInv'
<1> DEFINE m == IF x \in began[Run(t)] THEN <<>> ELSE <<Cleanup[x]>>
<1>0. x \in {"revoke", "wipe"} /\ Cleanup[x] \in {"crevoke", "cwipe"}
  BY CallbackNames
<1>1. At(t, x) /\ Run(t) \in Runs
  BY Stepping DEF LifecycleCallback
<1>2. /\ began' = [began EXCEPT ![Run(t)] = @ \cup {x}] /\ Continue(t, m)
      /\ UNCHANGED <<vm, live, stopped, tripped, closed, failed, claimed, calls, receipt,
                     chunks, stops, faults, phase, subject, actState, actCtrl>>
  BY DEF LifecycleCallback, adapter, worker, bounds
<1>3. PICK q : /\ todo' = [todo EXCEPT ![t] = q] /\ Passes(todo[t], q, x, m)
               /\ t \in Runs => Caught(q)
               /\ q # <<>> => Head(q) \notin {"xrevoke", "xwipe"}
               /\ x \in began[Run(t)] \/ (q # <<>> /\ Head(q) = Cleanup[x])
  <2>1. CASE x \in began[Run(t)]
    <3>1. m = <<>> /\ Done(t)
      BY <1>2, <2>1 DEF Done
    <3>2. \E q : /\ todo' = [todo EXCEPT ![t] = q] /\ Passes(todo[t], q, x, <<>>)
                 /\ t \in Runs => Caught(q)
                 /\ q # <<>> => Head(q) \notin {"xrevoke", "xwipe"}
      BY <1>1, <3>1, Popped
    <3> QED
      BY <2>1, <3>1, <3>2
  <2>2. CASE x \notin began[Run(t)]
    <3> DEFINE n == <<Cleanup[x]>>
    <3>1. m = n /\ Continue(t, n)
      BY <1>2, <2>2
    <3>2. /\ n \in Seq(Operations) /\ n # <<>> /\ n[1] = Cleanup[x] /\ InOrder(n) /\ Pushable(x, n)
          /\ \A b : x \in MayPrecede(b) => \A i \in 1 .. Len(n) : n[i] \in MayPrecede(b)
      BY CallbackLists
    <3> HIDE DEF n
    <3>3. \E q : /\ todo' = [todo EXCEPT ![t] = q] /\ Passes(todo[t], q, x, n)
                 /\ t \in Runs => Caught(q)
                 /\ q # <<>> /\ Head(q) = n[1]
      BY <1>0, <1>1, <3>1, <3>2, Pushed
    <3> QED
      BY <1>0, <3>1, <3>2, <3>3
  <2> QED
    BY <2>1, <2>2
<1>4. \A op : Has(m, op) => op = Cleanup[x]
  BY CallbackLists, EmptyList
<1> HIDE DEF m
<1>5. TypeOK'
  <2>1. q \in Seq(Operations)
    BY <1>3 DEF Passes
  <2> QED
    BY <1>1, <1>2, <1>3, <2>1 DEF IInv, TypeOK
<1>6. /\ \A r \in Runs : r # Run(t) => began'[r] = began[r]
      /\ \A y : y \in began'[Run(t)] <=> y \in began[Run(t)] \/ y = x
  BY <1>1, <1>2 DEF IInv, TypeOK
<1>7. OnceInv'
  <2>1. todo'[t] = q /\ \A u \in Threads : u # t => todo'[u] = todo[u]
    BY <1>3 DEF IInv, TypeOK
  <2>2. \A u : Run(u)' = Run(u)
    BY <1>2 DEF Run
  <2>3. \A op \in {"crevoke", "cwipe", "xrevoke", "xwipe"}, u \in Threads : At(u, op) => At(u, op)'
    BY <1>0, <1>1, <2>1 DEF At
  <2>4. \A op \in {"xrevoke", "xwipe"}, u \in Threads : At(u, op)' => At(u, op)
    BY <1>3, <2>1 DEF At
  <2>5. x \in began[Run(t)] \/ At(t, Cleanup[x])'
    BY <1>3, <2>1 DEF At, Cleanup
  <2>6. OnceInv
    BY DEF IInv
  <2>7. \A y \in Callbacks : External[y] \in {"xrevoke", "xwipe"} /\ Cleanup[y] \in {"crevoke", "cwipe"}
    BY CallbackNames
  <2>8. ASSUME NEW r \in Runs, NEW y \in Callbacks
        PROVE  /\ calls'[r][y] \in {0, 1}
               /\ y \notin claimed'[r] => calls'[r][y] = 0
               /\ y \in claimed'[r] =>
                    calls'[r][y] = 1 \/ \E u \in Threads : Run(u)' = r /\ At(u, External[y])'
               /\ \A v \in Threads : Run(v)' = r /\ At(v, External[y])' =>
                    /\ y \in claimed'[r] /\ calls'[r][y] = 0
                    /\ \A u \in Threads : Run(u)' = r /\ At(u, External[y])' => v = u
               /\ y \in began'[r] =>
                    y \in claimed'[r] \/ \E u \in Threads : Run(u)' = r /\ At(u, Cleanup[y])'
    <3>1. calls'[r][y] \in {0, 1} /\ (y \notin claimed'[r] => calls'[r][y] = 0)
      BY <1>2, <2>6 DEF OnceInv
    <3>2. y \in claimed'[r] =>
            calls'[r][y] = 1 \/ \E u \in Threads : Run(u)' = r /\ At(u, External[y])'
      BY <1>2, <2>2, <2>3, <2>6, <2>7 DEF OnceInv
    <3>3. ASSUME NEW v \in Threads, Run(v)' = r, At(v, External[y])'
          PROVE  /\ y \in claimed'[r] /\ calls'[r][y] = 0
                 /\ \A u \in Threads : Run(u)' = r /\ At(u, External[y])' => v = u
      BY <1>2, <2>2, <2>4, <2>6, <2>7, <3>3 DEF OnceInv
    <3>4. ASSUME y \in began'[r]
          PROVE  y \in claimed'[r] \/ \E u \in Threads : Run(u)' = r /\ At(u, Cleanup[y])'
      <4>1. CASE y \in began[r]
        BY <1>2, <2>2, <2>3, <2>6, <2>7, <4>1 DEF OnceInv
      <4>2. CASE y \notin began[r]
        <5>1. r = Run(t) /\ y = x
          BY <1>6, <3>4, <4>2
        <5> QED
          BY <2>2, <2>5, <4>2, <5>1
      <4> QED
        BY <4>1, <4>2
    <3> QED
      BY <3>1, <3>2, <3>3, <3>4
  <2> QED
    BY <2>8 DEF OnceInv, External, Cleanup
<1>8. Grows(Run(t), x, m)
  <2>1. \A y \in Callbacks : Cleanup[y] # x
    BY <1>0, CallbackNames
  <2> QED
    BY <1>0, <1>1, <1>2, <1>4, <1>6, <2>1 DEF Grows, Inserted
<1> QED
  BY <1>1, <1>3, <1>5, <1>7, <1>8, GrowStep

\* A callback is claimed by the thread that finds its flag down.
LEMMA CleanupKeeps ==
    ASSUME IInv, NEW t \in Threads, NEW x \in Callbacks, CleanupCallback(t, x)
    PROVE  IInv'
<1> DEFINE h == Cleanup[x]
           m == IF x \in claimed[Run(t)] THEN <<>> ELSE <<External[x]>>
<1>0. h \in {"crevoke", "cwipe"} /\ External[x] \in {"xrevoke", "xwipe"}
  BY CallbackNames
<1>1. At(t, h) /\ Run(t) \in Runs
  BY Stepping DEF CleanupCallback
<1>2. /\ claimed' = [claimed EXCEPT ![Run(t)] = @ \cup {x}] /\ Continue(t, m)
      /\ UNCHANGED <<vm, live, stopped, tripped, closed, failed, began, calls, receipt,
                     chunks, stops, faults, phase, subject, actState, actCtrl>>
  BY DEF CleanupCallback, adapter, worker, bounds
<1>3. PICK q : /\ todo' = [todo EXCEPT ![t] = q] /\ Passes(todo[t], q, h, m)
               /\ t \in Runs => Caught(q)
               /\ x \in claimed[Run(t)] => (q # <<>> => Head(q) \notin {"xrevoke", "xwipe"})
               /\ x \notin claimed[Run(t)] => (q # <<>> /\ Head(q) = External[x])
  <2>1. CASE x \in claimed[Run(t)]
    <3>1. m = <<>> /\ Done(t)
      BY <1>2, <2>1 DEF Done
    <3> HIDE DEF h
    <3>2. \E q : /\ todo' = [todo EXCEPT ![t] = q] /\ Passes(todo[t], q, h, <<>>)
                 /\ t \in Runs => Caught(q)
                 /\ q # <<>> => Head(q) \notin {"xrevoke", "xwipe"}
      BY <1>1, <3>1, Popped
    <3> QED
      BY <2>1, <3>1, <3>2
  <2>2. CASE x \notin claimed[Run(t)]
    <3> DEFINE n == <<External[x]>>
    <3>1. m = n /\ Continue(t, n)
      BY <1>2, <2>2
    <3>2. /\ n \in Seq(Operations) /\ n # <<>> /\ n[1] = External[x] /\ InOrder(n) /\ Pushable(h, n)
          /\ \A b : h \in MayPrecede(b) => \A i \in 1 .. Len(n) : n[i] \in MayPrecede(b)
      BY CallbackLists
    <3> HIDE DEF n, h
    <3>3. \E q : /\ todo' = [todo EXCEPT ![t] = q] /\ Passes(todo[t], q, h, n)
                 /\ t \in Runs => Caught(q)
                 /\ q # <<>> /\ Head(q) = n[1]
      BY <1>0, <1>1, <3>1, <3>2, Pushed
    <3> QED
      BY <2>2, <3>1, <3>2, <3>3
  <2> QED
    BY <2>1, <2>2
<1>4. \A op : Has(m, op) => op = External[x]
  BY CallbackLists, EmptyList
<1> HIDE DEF m
<1>5. TypeOK'
  <2>1. q \in Seq(Operations)
    BY <1>3 DEF Passes
  <2> QED
    BY <1>1, <1>2, <1>3, <2>1 DEF IInv, TypeOK
<1>6. /\ \A r \in Runs : r # Run(t) => claimed'[r] = claimed[r]
      /\ \A y : y \in claimed'[Run(t)] <=> y \in claimed[Run(t)] \/ y = x
  BY <1>1, <1>2 DEF IInv, TypeOK
<1>7. OnceInv'
  <2>1. todo'[t] = q /\ \A u \in Threads : u # t => todo'[u] = todo[u]
    BY <1>3 DEF IInv, TypeOK
  <2>2. \A u : Run(u)' = Run(u)
    BY <1>2 DEF Run
  <2>3. \A y \in Callbacks : /\ External[y] \in {"xrevoke", "xwipe"} /\ Cleanup[y] \in {"crevoke", "cwipe"}
                             /\ External[y] = External[x] => y = x
                             /\ Cleanup[y] = Cleanup[x] => y = x
                             /\ ~At(t, External[y])
    BY <1>0, <1>1, CallbackNames DEF At
  <2>4. \A y \in Callbacks, u \in Threads : u # t =>
          (At(u, External[y])' <=> At(u, External[y])) /\ (At(u, Cleanup[y])' <=> At(u, Cleanup[y]))
    BY <2>1 DEF At, External, Cleanup
  <2>5. \A y \in Callbacks : At(t, External[y])' => y = x /\ x \notin claimed[Run(t)]
    BY <1>3, <2>1, <2>3 DEF At, External
  <2>6. x \notin claimed[Run(t)] => At(t, External[x])'
    BY <1>3, <2>1 DEF At, External
  <2>7. OnceInv
    BY DEF IInv
  <2>8. ASSUME NEW r \in Runs, NEW y \in Callbacks
        PROVE  /\ calls'[r][y] \in {0, 1}
               /\ y \notin claimed'[r] => calls'[r][y] = 0
               /\ y \in claimed'[r] =>
                    calls'[r][y] = 1 \/ \E u \in Threads : Run(u)' = r /\ At(u, External[y])'
               /\ \A v \in Threads : Run(v)' = r /\ At(v, External[y])' =>
                    /\ y \in claimed'[r] /\ calls'[r][y] = 0
                    /\ \A u \in Threads : Run(u)' = r /\ At(u, External[y])' => v = u
               /\ y \in began'[r] =>
                    y \in claimed'[r] \/ \E u \in Threads : Run(u)' = r /\ At(u, Cleanup[y])'
    <3>0. y \in claimed[r] => y \in claimed'[r]
      BY <1>6
    <3>1. calls'[r][y] \in {0, 1} /\ (y \notin claimed'[r] => calls'[r][y] = 0)
      BY <1>2, <2>7, <3>0 DEF OnceInv
    <3>2. ASSUME y \in claimed'[r]
          PROVE  calls'[r][y] = 1 \/ \E u \in Threads : Run(u)' = r /\ At(u, External[y])'
      <4>1. CASE y \in claimed[r]
        BY <1>2, <2>2, <2>3, <2>4, <2>7, <4>1 DEF OnceInv
      <4>2. CASE y \notin claimed[r]
        <5>1. r = Run(t) /\ y = x
          BY <1>6, <3>2, <4>2
        <5> QED
          BY <2>2, <2>6, <4>2, <5>1
      <4> QED
        BY <4>1, <4>2
    <3>3. ASSUME NEW v \in Threads, Run(v)' = r, At(v, External[y])'
          PROVE  /\ y \in claimed'[r] /\ calls'[r][y] = 0
                 /\ \A u \in Threads : Run(u)' = r /\ At(u, External[y])' => v = u
      <4>1. CASE v # t
        <5>1. Run(v) = r /\ At(v, External[y])
          BY <2>2, <2>4, <3>3, <4>1
        <5>2. /\ y \in claimed[r] /\ calls[r][y] = 0
              /\ \A u \in Threads : Run(u) = r /\ At(u, External[y]) => v = u
          BY <2>7, <5>1 DEF OnceInv
        <5>3. ASSUME NEW u \in Threads, Run(u)' = r, At(u, External[y])' PROVE v = u
          <6>1. u # t
            BY <2>2, <2>5, <5>2, <5>3
          <6> QED
            BY <2>2, <2>4, <5>2, <5>3, <6>1
        <5> QED
          BY <1>2, <3>0, <5>2, <5>3
      <4>2. CASE v = t
        <5>1. y = x /\ x \notin claimed[r] /\ Run(t) = r
          BY <2>2, <2>5, <3>3, <4>2
        <5>2. y \in claimed'[r] /\ calls'[r][y] = 0
          BY <1>2, <1>6, <2>7, <5>1 DEF OnceInv
        <5>3. ASSUME NEW u \in Threads, Run(u)' = r, At(u, External[y])' PROVE v = u
          <6>1. CASE u # t
            <7>1. Run(u) = r /\ At(u, External[y])
              BY <2>2, <2>4, <5>3, <6>1
            <7> QED
              BY <2>7, <5>1, <7>1 DEF OnceInv
          <6> QED
            BY <4>2, <6>1
        <5> QED
          BY <5>2, <5>3
      <4> QED
        BY <4>1, <4>2
    <3>4. ASSUME y \in began'[r]
          PROVE  y \in claimed'[r] \/ \E u \in Threads : Run(u)' = r /\ At(u, Cleanup[y])'
      <4>1. CASE y \in claimed[r]
        BY <3>0, <4>1
      <4>2. CASE y \notin claimed[r]
        <5>1. PICK u \in Threads : Run(u) = r /\ At(u, Cleanup[y])
          BY <1>2, <2>7, <3>4, <4>2 DEF OnceInv
        <5>2. CASE u # t
          BY <2>2, <2>4, <5>1, <5>2
        <5>3. CASE u = t
          <6>1. Cleanup[y] = Cleanup[x]
            BY <1>1, <5>1, <5>3 DEF At
          <6> QED
            BY <1>6, <2>3, <5>1, <5>3, <6>1
        <5> QED
          BY <5>2, <5>3
      <4> QED
        BY <4>1, <4>2
    <3> QED
      BY <3>1, <3>2, <3>3, <3>4
  <2> QED
    BY <2>8 DEF OnceInv, External, Cleanup
<1>8. Grows(Run(t), h, m)
  <2>1. \A y \in Callbacks : y # h /\ (Cleanup[y] = h <=> y = x)
    BY <1>0, CallbackNames
  <2> HIDE DEF h
  <2> QED
    BY <1>0, <1>1, <1>2, <1>4, <1>6, <2>1 DEF Grows, Inserted
<1> HIDE DEF h
<1> QED
  BY <1>1, <1>3, <1>5, <1>7, <1>8, GrowStep

\* The call that a claim announced is made.
LEMMA ExternalOnce ==
    ASSUME IInv, NEW t \in Threads, NEW x \in Callbacks, At(t, External[x]),
           calls' = [calls EXCEPT ![Run(t)][x] = @ + 1],
           NEW q, todo' = [todo EXCEPT ![t] = q],
           q # <<>> => Head(q) \notin {"xrevoke", "xwipe"},
           began' = began, claimed' = claimed, subject' = subject
    PROVE  OnceInv' /\ calls' \in [Runs -> [Callbacks -> Nat]]
<1>1. Run(t) \in Runs
  BY Stepping
<1>2. todo'[t] = q /\ \A u \in Threads : u # t => todo'[u] = todo[u]
  BY DEF IInv, TypeOK
<1>3. \A u : Run(u)' = Run(u)
  BY DEF Run
<1>4. \A y \in Callbacks : /\ External[y] \in {"xrevoke", "xwipe"} /\ Cleanup[y] \in {"crevoke", "cwipe"}
                           /\ External[y] = External[x] => y = x
                           /\ Cleanup[y] # External[x]
  BY CallbackNames
<1>5. calls \in [Runs -> [Callbacks -> Nat]]
  BY DEF IInv, TypeOK
<1>6. calls'[Run(t)][x] = calls[Run(t)][x] + 1
      /\ \A r \in Runs, y \in Callbacks : r # Run(t) \/ y # x => calls'[r][y] = calls[r][y]
  BY <1>1, <1>5
<1>7. calls' \in [Runs -> [Callbacks -> Nat]]
  BY <1>1, <1>5
<1>8. OnceInv
  BY DEF IInv
<1>9. x \in claimed[Run(t)] /\ calls[Run(t)][x] = 0
      /\ \A u \in Threads : Run(u) = Run(t) /\ At(u, External[x]) => t = u
  BY <1>1, <1>8 DEF OnceInv
<1>10. \A y \in Callbacks : /\ ~At(t, External[y])' /\ ~At(t, Cleanup[y])
                            /\ At(t, External[y]) => y = x
  BY <1>2, <1>4 DEF At, External, Cleanup
<1>11. \A y \in Callbacks, u \in Threads : u # t =>
         (At(u, External[y])' <=> At(u, External[y])) /\ (At(u, Cleanup[y])' <=> At(u, Cleanup[y]))
  BY <1>2 DEF At, External, Cleanup
<1>12. ASSUME NEW r \in Runs, NEW y \in Callbacks
       PROVE  /\ calls'[r][y] \in {0, 1}
              /\ y \notin claimed'[r] => calls'[r][y] = 0
              /\ y \in claimed'[r] =>
                   calls'[r][y] = 1 \/ \E u \in Threads : Run(u)' = r /\ At(u, External[y])'
              /\ \A v \in Threads : Run(v)' = r /\ At(v, External[y])' =>
                   /\ y \in claimed'[r] /\ calls'[r][y] = 0
                   /\ \A u \in Threads : Run(u)' = r /\ At(u, External[y])' => v = u
              /\ y \in began'[r] =>
                   y \in claimed'[r] \/ \E u \in Threads : Run(u)' = r /\ At(u, Cleanup[y])'
  <2>1. y \in began'[r] =>
          y \in claimed'[r] \/ \E u \in Threads : Run(u)' = r /\ At(u, Cleanup[y])'
    BY <1>3, <1>8, <1>10, <1>11 DEF OnceInv
  <2>2. CASE r = Run(t) /\ y = x
    <3>1. calls'[r][y] = 1 /\ y \in claimed'[r]
      BY <1>6, <1>9, <2>2
    <3>2. \A v \in Threads : ~(Run(v)' = r /\ At(v, External[y])')
      <4>1. TAKE v \in Threads
      <4>2. CASE v = t
        BY <1>10, <4>2
      <4>3. CASE v # t
        BY <1>3, <1>9, <1>11, <2>2, <4>3
      <4> QED
        BY <4>2, <4>3
    <3> QED
      BY <2>1, <3>1, <3>2
  <2>3. CASE r # Run(t) \/ y # x
    <3>1. calls'[r][y] = calls[r][y]
      BY <1>6, <2>3
    <3>2. \A u \in Threads : Run(u)' = r /\ At(u, External[y])' <=> Run(u) = r /\ At(u, External[y])
      <4>1. TAKE u \in Threads
      <4>2. CASE u = t
        BY <1>3, <1>10, <2>3, <4>2
      <4>3. CASE u # t
        BY <1>3, <1>11, <4>3
      <4> QED
        BY <4>2, <4>3
    <3>3. calls'[r][y] \in {0, 1} /\ (y \notin claimed'[r] => calls'[r][y] = 0)
      BY <1>8, <3>1 DEF OnceInv
    <3>4. y \in claimed'[r] =>
            calls'[r][y] = 1 \/ \E u \in Threads : Run(u)' = r /\ At(u, External[y])'
      BY <1>8, <3>1, <3>2 DEF OnceInv
    <3>5. ASSUME NEW v \in Threads, Run(v)' = r, At(v, External[y])'
          PROVE  /\ y \in claimed'[r] /\ calls'[r][y] = 0
                 /\ \A u \in Threads : Run(u)' = r /\ At(u, External[y])' => v = u
      BY <1>8, <3>1, <3>2, <3>5 DEF OnceInv
    <3> QED
      BY <2>1, <3>3, <3>4, <3>5
  <2> QED
    BY <2>2, <2>3
<1>13. OnceInv'
  BY <1>12 DEF OnceInv, External, Cleanup
<1> QED
  BY <1>7, <1>13

\* The host's callback returns or raises; either way it was called.
LEMMA ExternalKeeps ==
    ASSUME IInv, NEW t \in Threads, NEW x \in Callbacks, ExternalCallback(t, x)
    PROVE  IInv'
<1> DEFINE h == External[x]
<1>0. h \in {"xrevoke", "xwipe"} /\ h \in FaultKinds /\ h # "catch"
  BY CallbackNames DEF FaultKinds
<1>1. At(t, h) /\ Run(t) \in Runs
  BY Stepping DEF ExternalCallback
<1>2. /\ calls' = [calls EXCEPT ![Run(t)][x] = @ + 1]
      /\ UNCHANGED <<vm, live, stopped, tripped, closed, began, claimed, receipt,
                     chunks, stops, phase, subject, actState, actCtrl>>
  BY DEF ExternalCallback, adapter, core
<1>3. CASE Done(t) /\ NoFault
  <2>0. \E q : /\ todo' = [todo EXCEPT ![t] = q] /\ Passes(todo[t], q, h, <<>>)
               /\ t \in Runs => Caught(q)
               /\ q # <<>> => Head(q) \notin {"xrevoke", "xwipe"}
    <3> HIDE DEF h
    <3> QED
      BY <1>1, <1>3, Popped
  <2>1. PICK q : /\ todo' = [todo EXCEPT ![t] = q] /\ Passes(todo[t], q, h, <<>>)
                 /\ t \in Runs => Caught(q)
                 /\ q # <<>> => Head(q) \notin {"xrevoke", "xwipe"}
    BY <2>0
  <2>2. OnceInv' /\ calls' \in [Runs -> [Callbacks -> Nat]]
    BY <1>1, <1>2, <2>1, ExternalOnce
  <2>3. TypeOK'
    <3>1. q \in Seq(Operations)
      BY <2>1 DEF Passes
    <3> QED
      BY <1>2, <1>3, <2>1, <2>2, <3>1 DEF IInv, TypeOK, NoFault
  <2>4. Grows(Run(t), h, <<>>)
    <3>1. \A y \in Callbacks : y # h /\ Cleanup[y] # h
      BY <1>0, CallbackNames
    <3>2. \A op : ~Has(<<>>, op)
      BY EmptyList
    <3> HIDE DEF h
    <3> QED
      BY <1>0, <1>1, <1>2, <1>3, <3>1, <3>2 DEF Grows, Inserted, NoFault
  <2> HIDE DEF h
  <2> QED
    BY <1>1, <2>1, <2>2, <2>3, <2>4, GrowStep
<1>4. CASE Fault(t, h)
  <2>a. Fault(t, h) /\ At(t, h) /\ h \in FaultKinds
    BY <1>0, <1>1, <1>4
  <2>1. /\ Raise(t) /\ Recorded(h)
        /\ faults' \in Seq(FaultKinds) /\ Len(faults') <= MaxFaults
        /\ todo' \in [Threads -> Seq(Operations)] /\ failed' \in [Runs -> BOOLEAN]
    <3> HIDE DEF h
    <3> QED
      BY <2>a, FaultTyped
  <2> DEFINE q == Unwind(Tail(todo[t]))
  <2>2. q # <<>> => Head(q) \notin {"xrevoke", "xwipe"}
    <3>1. /\ todo[t] \in Seq(Operations) /\ todo[t] # <<>> /\ todo[t][1] = h /\ InOrder(todo[t])
      BY <1>1, Stepping
    <3> HIDE DEF h
    <3>2. q \in Seq(Operations) /\ \A op : Has(q, op) => h \in MayPrecede(op)
      BY <1>0, <3>1, RaiseFacts
    <3> HIDE DEF q
    <3> QED
      BY <3>2, FirstIsIn, Order
  <2>3. OnceInv' /\ calls' \in [Runs -> [Callbacks -> Nat]]
    <3>1. todo' = [todo EXCEPT ![t] = q]
      BY <2>1 DEF Raise
    <3> HIDE DEF q
    <3> QED
      BY <1>1, <1>2, <2>2, <3>1, ExternalOnce
  <2>4. TypeOK'
    BY <1>2, <2>1, <2>3 DEF IInv, TypeOK
  <2>5. h \in {"emit", "kill", "xrevoke", "xwipe"}
    BY <1>0
  <2> HIDE DEF h
  <2> QED
    BY <1>1, <1>2, <2>1, <2>3, <2>4, <2>5, RaiseStep
<1> QED
  BY <1>3, <1>4 DEF ExternalCallback

(***************************************************************************)
(* The theorems.                                                           *)
(***************************************************************************)
\* An operation that either thread may do keeps the invariant.
LEMMA SharedKeeps ==
    ASSUME IInv, NEW t \in Threads, Shared(t)
    PROVE  IInv'
<1>1. CASE Emit(t)
  BY <1>1, ReportKeeps
<1>2. CASE TripOnce(t)
  BY <1>2, TripKeeps
<1>3. CASE MarkClosed(t)
  BY <1>3, MarkClosedKeeps
<1>4. CASE Kill(t)
  BY <1>4, KillKeeps
<1>5. CASE \E x \in Callbacks :
             LifecycleCallback(t, x) \/ CleanupCallback(t, x) \/ ExternalCallback(t, x)
  BY <1>5, LifecycleKeeps, CleanupKeeps, ExternalKeeps
<1> QED
  BY <1>1, <1>2, <1>3, <1>4, <1>5 DEF Shared

\* A step of a run's own thread keeps the invariant.
LEMMA RunThreadKeeps ==
    ASSUME IInv, NEW r \in Runs, RunThread(r)
    PROVE  IInv'
<1>0. r \in Threads
  BY DEF Threads
<1>1. CASE Prepare(r) \/ Register(r) \/ Unregister(r)
  BY <1>1, RegistrationKeeps
<1>2. CASE PrepareFails(r) \/ LaunchFails(r) \/ StartFails(r) \/ OpenFails(r)
  BY <1>2, AbandonKeeps
<1>3. CASE Launch(r)
  <2>1. TypeOK'
    <3>1. At(r, "launch") /\ Done(r) /\ vm' = [vm EXCEPT ![r] = "running"]
          /\ UNCHANGED <<live, stopped, tripped, closed, failed, began, claimed, calls, receipt,
                         chunks, stops, faults, phase, subject, actState, actCtrl>>
      BY <1>3 DEF Launch, adapter, cleanup, bounds
    <3> QED
      BY <1>0, <3>1, ListsTyped DEF IInv, TypeOK
  <2> QED
    BY <1>3, <2>1, LaunchStep
<1>4. CASE Proceed(r) \/ Result(r)
  BY <1>4, ProceedKeeps
<1>5. CASE Refuse(r) \/ LoopFails(r)
  BY <1>5, RefuseKeeps
<1>6. CASE Activate(r) \/ Deactivate(r)
  BY <1>6, BindingKeeps
<1>7. CASE Stream(r)
  BY <1>7, StreamKeeps
<1>8. CASE Expire(r) \/ WaitExit(r) \/ Fallback(r) \/ Settle(r) \/ Leftover(r)
  BY <1>8, BranchKeeps
<1>9. CASE EnterWait(r)
  BY <1>9, EnterWaitKeeps
<1>10. CASE Receipt(r)
  BY <1>10, ReceiptKeeps
<1>11. CASE Failure(r)
  BY <1>11, FailureKeeps
<1>12. CASE BrokerClose(r)
  BY <1>0, <1>12, ReportKeeps
<1>13. CASE End(r)
  <2>1. TypeOK'
    <3>1. At(r, "end") /\ Done(r) /\ phase' = [phase EXCEPT ![r] = "done"] /\ actState' = None
          /\ UNCHANGED <<vm, live, stopped, tripped, closed, failed, began, claimed, calls, receipt,
                         chunks, stops, faults, subject, actCtrl>>
      BY <1>13 DEF End, worker, cleanup, bounds
    <3> QED
      BY <1>0, <3>1, ListsTyped DEF IInv, TypeOK
  <2> QED
    BY <1>13, <2>1, EndStep
<1>14. CASE Shared(r)
  BY <1>0, <1>14, SharedKeeps
<1> QED
  BY <1>1, <1>2, <1>3, <1>4, <1>5, <1>6, <1>7, <1>8, <1>9, <1>10, <1>11, <1>12, <1>13, <1>14
  DEF RunThread

\* No run has begun.
LEMMA InitIInv == Init => IInv
<1>1. SUFFICES ASSUME Init PROVE IInv
  OBVIOUS
<1>2. TypeOK
  <2>1. <<>> \in Seq(Operations) /\ <<>> \in Seq(FaultKinds) /\ Len(<<>>) = 0
    OBVIOUS
  <2> QED
    BY <1>1, <2>1, RunAssumption DEF Init, TypeOK
<1>3. \A t \in Threads : todo[t] = <<>>
  BY <1>1 DEF Init
<1>4. Runs \subseteq Threads /\ Operators \subseteq Threads
  BY DEF Threads
<1>5. \A t \in Threads : /\ InOrder(todo[t]) /\ \A op : ~Has(todo[t], op) /\ ~At(t, op)
                         /\ \A a, b : Precedes(todo[t], a, b)
  BY <1>3, EmptyList DEF At
<1>6. Caught(<<>>)
  BY DEF Caught, CaughtLeftover, CaughtFallback, CaughtTrip, CloseAfterHandler, TripsBeforeClosed,
         Followed
<1>7. ListInv
  BY <1>1, <1>3, <1>4, <1>5, <1>6 DEF Init, ListInv
<1>8. ReceiptAfterExit /\ FreshInv /\ UnbornInv /\ ClaimInv /\ CoverInv
  BY <1>1 DEF Init, ReceiptAfterExit, FreshInv, UnbornInv, ClaimInv, CoverInv
<1>9. OnceInv
  <2>1. \A x \in Callbacks : \A t \in Threads : ~At(t, External[x])
    BY <1>5
  <2> QED
    BY <1>1, <2>1 DEF Init, OnceInv
<1>10. SmoothInv
  BY <1>1, <1>4, <1>5 DEF Init, SmoothInv, Smooth
<1>11. TripInv
  BY <1>1, <1>4, <1>5 DEF Init, TripInv, TripEnds, ClosedLast, StopTrips, CloseHandled
<1> QED
  BY <1>2, <1>7, <1>8, <1>9, <1>10, <1>11 DEF IInv

\* Every step keeps the invariant.
LEMMA NextIInv == IInv /\ [Next]_vars => IInv'
<1>1. SUFFICES ASSUME IInv, [Next]_vars PROVE IInv'
  OBVIOUS
<1>2. ASSUME NEW r \in Runs, Begin(r) PROVE IInv'
  <2>1. TypeOK'
    <3>1. RunProgram \in Seq(Operations)
      BY RunProgramList
    <3>2. actState' = Sentinel /\ phase' = [phase EXCEPT ![r] = "inside"]
          /\ todo' = [todo EXCEPT ![r] = RunProgram]
          /\ UNCHANGED <<vm, live, stopped, tripped, closed, failed, began, claimed, calls, receipt,
                         chunks, stops, faults, subject, actCtrl>>
      BY <1>2 DEF Begin, worker, cleanup, bounds
    <3> QED
      BY <1>1, <3>1, <3>2 DEF IInv, TypeOK, Threads
  <2> QED
    BY <1>1, <1>2, <2>1, BeginStep
<1>3. ASSUME NEW r \in Runs, RunThread(r) PROVE IInv'
  BY <1>1, <1>3, RunThreadKeeps
<1>4. ASSUME NEW r \in Runs, Exit(r) PROVE IInv'
  <2>1. TypeOK'
    BY <1>1, <1>4 DEF Exit, IInv, TypeOK, adapter, cleanup, bounds
  <2> QED
    BY <1>1, <1>4, <2>1, ExitStep
<1>5. ASSUME NEW o \in Operators, NEW r \in Runs, Stop(o, r) PROVE IInv'
  <2>1. TypeOK'
    <3>1. StopProgram \in Seq(Operations)
      BY StopProgramList
    <3>2. stopped' = [stopped EXCEPT ![r] = TRUE] /\ stops < MaxStops /\ stops' = stops + 1
          /\ subject' = [subject EXCEPT ![o] = r] /\ todo' = [todo EXCEPT ![o] = StopProgram]
          /\ UNCHANGED <<vm, live, tripped, closed, failed, began, claimed, calls, receipt,
                         chunks, faults, phase, actState, actCtrl>>
      BY <1>5 DEF Stop, adapter, cleanup
    <3>3. stops' \in 0 .. MaxStops
      BY <1>1, <3>2, RunAssumption DEF IInv, TypeOK
    <3> QED
      BY <1>1, <3>1, <3>2, <3>3 DEF IInv, TypeOK, Threads
  <2> QED
    BY <1>1, <1>5, <2>1, StopStep
<1>6. ASSUME NEW o \in Operators, Shared(o) PROVE IInv'
  BY <1>1, <1>6, SharedKeeps DEF Threads
<1>7. CASE UNCHANGED vars
  <2>1. UNCHANGED <<vm, live, stopped, tripped, closed, failed, began, claimed, calls, receipt,
                    chunks, stops, faults, phase, todo, subject, actState, actCtrl>>
    BY <1>7 DEF vars, adapter, worker, cleanup, bounds
  <2>2. TypeOK' /\ ReceiptAfterExit' /\ ListInv' /\ FreshInv' /\ UnbornInv'
    BY <1>1, <2>1 DEF IInv, TypeOK, ReceiptAfterExit, ListInv, FreshInv, UnbornInv
  <2>3. OnceInv' /\ ClaimInv'
    BY <1>1, <2>1 DEF IInv, OnceInv, ClaimInv, At, Run
  <2>4. SmoothInv'
    BY <1>1, <2>1 DEF IInv, SmoothInv, Smooth, BeforeExit, AfterExit
  <2>5. TripInv'
    BY <1>1, <2>1 DEF IInv, TripInv, TripEnds, ClosedLast, StopTrips, CloseHandled, Pending, Ended,
                      Raised, Run, At
  <2>6. CoverInv'
    BY <1>1, <2>1 DEF IInv, CoverInv, Ended, Direct, Raised
  <2> QED
    BY <2>2, <2>3, <2>4, <2>5, <2>6 DEF IInv
<1> QED
  BY <1>1, <1>2, <1>3, <1>4, <1>5, <1>6, <1>7 DEF Next

\* The threads' lists stay in order, and what a run owes is done or still listed
\* behind a catch, in every interleaving of runs, stops and failures.
THEOREM IInvHolds == Spec => []IInv
<1>1. Init => IInv
  BY InitIInv
<1>2. IInv /\ [Next]_vars => IInv'
  BY NextIInv
<1> QED
  BY <1>1, <1>2, PTL DEF Spec

\* The host's callbacks are called at most once, whoever ends the run, and the
\* host receipt is made only after the worker has exited and both have begun.
THEOREM CallbackInvHolds == Spec => []CallbackInv
<1>1. IInv => CallbackInv
  <2>1. OnceInv => CallbacksAtMostOnce
    BY DEF OnceInv, CallbacksAtMostOnce
  <2> QED
    BY <2>1 DEF IInv, CallbackInv
<1> QED
  BY <1>1, IInvHolds, PTL

\* A run that is over and whose stops are over has called the revocation,
\* whatever raised.
LEMMA QuietRevoked ==
    ASSUME IInv, NEW r \in Runs, Quiet(r), vm[r] # "none"
    PROVE  /\ calls[r]["revoke"] = 1
           /\ \A t \in Threads : Run(t) = r => todo[t] = <<>>
           /\ \A x \in Callbacks : x \in claimed[r] => calls[r][x] = 1
           /\ \A x \in Callbacks : x \in began[r] => x \in claimed[r]
<1>1. todo[r] = <<>> /\ phase[r] = "done"
  BY DEF Quiet, IInv, ListInv
<1>2. \A t \in Threads : Run(t) = r => todo[t] = <<>>
  BY <1>1 DEF Quiet, Run, Threads
<1>3. \A t \in Threads : Run(t) = r => \A op : ~At(t, op)
  BY <1>2 DEF At
<1>4. \A x \in Callbacks : x \in claimed[r] => calls[r][x] = 1
  BY <1>3 DEF IInv, OnceInv
<1>5. \A x \in Callbacks : x \in began[r] => x \in claimed[r]
  BY <1>3 DEF IInv, OnceInv
<1>6. "revoke" \in claimed[r]
  <2>1. ~Has(todo[r], "leftover") /\ ~At(r, "crevoke")
    BY <1>1, EmptyList DEF At
  <2> QED
    BY <1>1, <2>1 DEF IInv, ClaimInv
<1> QED
  BY <1>2, <1>4, <1>5, <1>6 DEF Callbacks

\* One failure at most, and neither of the revocation nor of the kill: the
\* worker has ended and both callbacks were called.
LEMMA QuietCleaned ==
    ASSUME IInv, NEW r \in Runs, Quiet(r), vm[r] # "none",
           Len(faults) <= 1, ~Raised({"kill", "xrevoke"})
    PROVE  vm[r] = "exited" /\ \A x \in Callbacks : calls[r][x] > 0
<1>1. /\ calls[r]["revoke"] = 1
      /\ \A t \in Threads : Run(t) = r => todo[t] = <<>>
      /\ \A x \in Callbacks : x \in claimed[r] => calls[r][x] = 1
      /\ \A x \in Callbacks : x \in began[r] => x \in claimed[r]
  BY QuietRevoked
<1>2. phase[r] # "new" /\ todo[r] = <<>>
  BY DEF Quiet, IInv, ListInv
<1>3. \A op : ~Pending(r, op) /\ ~Has(todo[r], op)
  BY <1>1, <1>2, EmptyList DEF Pending
<1>4. tripped[r] => vm[r] = "exited" /\ "wipe" \in began[r]
  BY <1>3 DEF IInv, TripInv, TripEnds
<1>5. stopped[r] /\ Raised({"bclose"}) => tripped[r]
  <2>1. SUFFICES ASSUME stopped[r], Raised({"bclose"}) PROVE tripped[r]
    OBVIOUS
  <2>2. ~Raised({"emit"})
    <3>1. faults \in Seq(FaultKinds) /\ DOMAIN faults = 1 .. Len(faults) /\ Len(faults) \in Nat
      BY DEF IInv, TypeOK
    <3>2. \A i, j \in DOMAIN faults : i = j
      BY <3>1
    <3>3. PICK i \in DOMAIN faults : faults[i] = "bclose"
      BY <2>1 DEF Raised
    <3> QED
      BY <3>2, <3>3 DEF Raised
  <2> QED
    BY <1>3, <2>1, <2>2 DEF IInv, TripInv, StopTrips
<1>6. tripped[r] \/ Ended(r) \/ Direct(r)
  BY <1>2, <1>3, <1>5 DEF IInv, CoverInv
<1>7. vm[r] = "exited" /\ "wipe" \in claimed[r]
  BY <1>1, <1>3, <1>4, <1>6 DEF Ended, Direct, Callbacks
<1>8. "revoke" \in Callbacks /\ "wipe" \in Callbacks /\ \A x \in Callbacks : x = "revoke" \/ x = "wipe"
  BY DEF Callbacks
<1>9. calls[r]["wipe"] = 1
  BY <1>1, <1>7, <1>8
<1> QED
  BY <1>1, <1>7, <1>8, <1>9

\* "Every terminal path revokes the token ... and invokes the host wipe callback":
\* what of it holds when operations raise.
THEOREM FailuresStillCleanUpHolds == Spec => []FailuresStillCleanUp
<1>1. IInv => FailuresStillCleanUp
  <2>1. SUFFICES ASSUME IInv PROVE FailuresStillCleanUp
    OBVIOUS
  <2>2. \A r \in Runs : Quiet(r) /\ vm[r] # "none" => calls[r]["revoke"] > 0
    BY <2>1, QuietRevoked
  <2>3. ASSUME Len(faults) <= 1, ~Raised({"kill", "xrevoke"}) PROVE TerminalPathsCleanUp
    BY <2>1, <2>3, QuietCleaned DEF TerminalPathsCleanUp
  <2> QED
    BY <2>2, <2>3 DEF FailuresStillCleanUp
<1> QED
  BY <1>1, IInvHolds, PTL
=============================================================================
