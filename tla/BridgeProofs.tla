---------------------------- MODULE BridgeProofs ----------------------------
(***************************************************************************)
(* Proofs about the two ends of the bridge.                                *)
(*                                                                         *)
(* The server's workflow endpoints: what saves leave in the file, that the *)
(* executor's sort is right, that tools are called in order and fed by     *)
(* their own run, and that a response tells what its request has left in   *)
(* the log; for any number of requests, any workflows, tools and failures. *)
(*                                                                         *)
(* The desktop's manager: which children it can lose, and what the rate    *)
(* limiter promises, for any number of starts and any bucket.              *)
(***************************************************************************)
EXTENDS BridgeManager, WorkflowServer, Integers, SequenceTheorems, FiniteSetTheorems,
        WellFoundedInduction, TLAPS

\* A call's record
Fields == {"pc", "rid", "wf", "inputs", "agenda", "order", "at", "outputs", "results", "code"}

\* What an agenda and a log are made of
Names ==
    UNION {Ids(Text[w].steps) \union
           UNION {ToSet(Text[w].steps[i].needs) : i \in DOMAIN Text[w].steps} : w \in DOMAIN Text}
Items == [op : {"visit", "leave"}, id : Names]
Events == {"start"} \union Ends
LogLines == [step : Names, what : Events]
FileLines ==
    [by : Calls, step : Names \union {None}, what : Events \union {"newline", "part"}, ended : BOOLEAN]

SavePcs == {"unused", "idle", "write", "check", "unlink", "saved", "refused", "failed", "killed"}
CallPcs == {"unused", "idle", "load", "runner", "sort", "steps", "tool", "answered"}
Codes ==
    {None, "ok", "bad request", "not found", "error", "unavailable", "broken", "killed"}

\* The shape of the state, and what a request that is being served has been given
Shape ==
    /\ backend \in Backends
    /\ file \in DOMAIN Text \union {Absent, Empty, Torn}
    /\ save \in [Saves -> [pc : SavePcs, draft : Drafts \union {None}, linked : BOOLEAN]]
    /\ audit \in [RunIds -> Seq(FileLines)] /\ wrote \in [Calls -> Seq(Nat)] /\ owes \subseteq Calls
    /\ DOMAIN runs = RunIds /\ spoiled \in BOOLEAN
    /\ faults \in 0 .. MaxFaults /\ kills \in 0 .. MaxKills
    /\ DOMAIN call = Calls

Served(c) ==
    /\ DOMAIN call[c] = Fields
    /\ call[c].pc \in CallPcs /\ call[c].code \in Codes
    /\ call[c].agenda \in Seq(Items) /\ call[c].order \in Seq(Names) /\ call[c].at \in Nat
    /\ call[c].wf \in DOMAIN Text \union {None}
    /\ call[c].pc # "answered" => call[c].code = None
    /\ c \in owes => call[c].pc \in {"steps", "tool"}
    /\ call[c].pc \in {"unused", "idle", "load"} => call[c].wf = None
    /\ call[c].pc = "load" => call[c].rid \in RunIds \union {UnsafeId} /\ call[c].order = <<>>
    /\ call[c].pc \in {"load", "sort"} => call[c].outputs = <<>> /\ call[c].results = <<>>
    /\ call[c].pc = "runner" => backend = "runner" /\ call[c].rid \in RunIds
    /\ call[c].pc \in {"sort", "steps", "tool"} =>
          backend = "direct" /\ call[c].rid \in RunIds /\ call[c].wf \in DOMAIN Text

(***************************************************************************)
(* The file.                                                               *)
(***************************************************************************)
\* A save that will still look at the file
Watches(s) == (save[s].pc = "write" /\ save[s].linked) \/ save[s].pc \in {"check", "unlink"}

FileInv ==
    /\ \A s \in Saves : /\ save[s].pc = "write" => save[s].draft \in Drafts
                        /\ save[s].linked => file # Absent
    /\ file # Absent /\ ~Loads(file) => spoiled \/ \E s \in Saves : Watches(s)

(***************************************************************************)
(* The sort.                                                               *)
(***************************************************************************)
Distinct(s) == \A i, j \in DOMAIN s : s[i] = s[j] => i = j

\* The orders the sort may give, and x comes before y in one of them
Orders(wf) == {o \in SetToSeqs(Ids(Text[wf].steps)) : NeedsPrecede(wf, o)}
Before(o, x, y) == \E k, l \in DOMAIN o : k < l /\ o[k] = x /\ o[l] = y

\* What is in the order is sorted, and what is not will be.
OrderOK(wf, agenda, order) ==
    /\ ToSet(order) \subseteq Ids(Text[wf].steps) /\ Distinct(order) /\ NeedsPrecede(wf, order)
    /\ \A id \in Ids(Text[wf].steps) :
          id \in ToSet(order) \/ \E i \in DOMAIN agenda : agenda[i].id = id

\* A visit under way is of a step not in the order yet, whose needs are, or come before.
LeavesOK(wf, agenda, order) ==
    \A j \in DOMAIN agenda : agenda[j].op = "leave" =>
        /\ agenda[j].id \in Ids(Text[wf].steps) \ ToSet(order)
        /\ \A i \in DOMAIN agenda : i < j /\ agenda[i].op = "leave" => agenda[i].id # agenda[j].id
        /\ \A id \in Needs(wf, agenda[j].id) :
              id \in ToSet(order) \/ \E i \in DOMAIN agenda : i < j /\ agenda[i].id = id

\* If the steps can be ordered, whatever is visited is a step, and precedes in any such order
\* the steps whose visits are under way.
AgendaOK(wf, agenda) ==
    \A o \in Orders(wf) : \A i \in DOMAIN agenda :
        /\ agenda[i].id \in Ids(Text[wf].steps)
        /\ \A j \in DOMAIN agenda : i < j /\ agenda[j].op = "leave" =>
              Before(o, agenda[i].id, agenda[j].id)

SortOK(wf, agenda, order) ==
    OrderOK(wf, agenda, order) /\ LeavesOK(wf, agenda, order) /\ AgendaOK(wf, agenda)

SortInv(c) ==
    call[c].pc = "sort" =>
        /\ ~Duplicates(Text[call[c].wf].steps)
        /\ SortOK(call[c].wf, call[c].agenda, call[c].order)

\* What the sort must have come to
SortResult(wf, order, code) ==
    IF ~Duplicates(Text[wf].steps) /\ Orders(wf) # {}
    THEN order \in Orders(wf) \/ (Len(Text[wf].steps) >= MaxDepth /\ code = "error")
    ELSE code = "error"

\* A run whose steps are executed was sorted; a request that is answered was sorted or failed.
SortedInv(c) ==
    /\ call[c].pc \in {"steps", "tool"} =>
          ~Duplicates(Text[call[c].wf].steps) /\ call[c].order \in Orders(call[c].wf)
    /\ (backend = "direct" /\ call[c].pc = "answered" /\ call[c].wf # None /\ call[c].code # "killed") =>
          SortResult(call[c].wf, call[c].order, call[c].code)

(***************************************************************************)
(* The run and its log.                                                    *)
(***************************************************************************)
\* Results are those of the steps before the current one, and the log tells the same.
ResultsOK(it, log) ==
    /\ it.at \in 1 .. Len(it.order) + 1
    /\ it.pc = "tool" => it.at <= Len(it.order)
    /\ DOMAIN it.results = {it.order[k] : k \in 1 .. it.at - 1}
    /\ DOMAIN it.outputs \subseteq DOMAIN it.results
    /\ \A id \in DOMAIN it.results :
          it.results[id] \in Ends /\ [step |-> id, what |-> it.results[id]] \in ToSet(log)
    /\ \A id \in DOMAIN it.outputs : it.results[id] = "done"

LinesOK(it, log) ==
    /\ \A j \in DOMAIN log : log[j].what # "start" =>
          log[j].step \in DOMAIN it.results /\ it.results[log[j].step] = log[j].what
    /\ \A j \in DOMAIN log : log[j].what = "start" =>
          \/ log[j].step \in DOMAIN it.results
          \/ it.pc = "tool" /\ j = Len(log)
    /\ it.pc = "tool" =>
          Len(log) >= 1 /\ log[Len(log)] = [step |-> it.order[it.at], what |-> "start"]

RunInv(c) ==
    call[c].pc \in {"steps", "tool"} =>
        ResultsOK(call[c], Lines(c)) /\ LinesOK(call[c], Lines(c))

\* The first n lines of the log have no step open.
Closed(log, n) ==
    \A i \in DOMAIN log : i <= n /\ log[i].what = "start" =>
        /\ i < Len(log) /\ log[i + 1].step = log[i].step /\ log[i + 1].what \in {"done", "error"}
        /\ \A j \in DOMAIN log \ {i} : log[j] # log[i]

LogInv(c) ==
    /\ call[c].pc \notin {"steps", "tool", "answered"} => wrote[c] = <<>>
    /\ call[c].pc = "steps" => Closed(Lines(c), Len(Lines(c)))
    /\ call[c].pc = "tool" => Closed(Lines(c), Len(Lines(c)) - 1)
    /\ call[c].pc = "answered" /\ call[c].code \notin {"broken", "killed"} =>
          Closed(Lines(c), Len(Lines(c)))

\* Before a tool starts, the needs of its step have ended, and what feeds it was done.
FedLine(wf, log, i) ==
    LET step == StepOf(wf, log[i].step) IN
    /\ \A id \in Needs(wf, log[i].step) :
          \E j \in 1 .. i - 1 : log[j].step = id /\ log[j].what \in Ends
    /\ \A ref \in ToSet(step.with) \union {step.when} : ref.root = "steps" =>
          \E j \in 1 .. i - 1 : log[j] = [step |-> ref.name, what |-> "done"]

Fed(wf, log) == \A i \in DOMAIN log : log[i].what = "start" => FedLine(wf, log, i)

FedInv(c) == Fed(call[c].wf, Lines(c))

\* A request's lines are where it wrote them, in their order.
WroteInv(c) ==
    /\ wrote[c] # <<>> => call[c].rid \in RunIds
    /\ \A k \in DOMAIN wrote[c] :
          /\ wrote[c][k] \in DOMAIN audit[call[c].rid]
          /\ audit[call[c].rid][wrote[c][k]].by = c
          /\ audit[call[c].rid][wrote[c][k]].step \in Names
          /\ audit[call[c].rid][wrote[c][k]].what \in Events
          /\ \A j \in DOMAIN wrote[c] : j < k => wrote[c][j] < wrote[c][k]

CallInv(c) ==
    Served(c) /\ SortInv(c) /\ SortedInv(c) /\ RunInv(c) /\ LogInv(c) /\ FedInv(c) /\ WroteInv(c)

\* Whoever wrote a line of the file counts it among its own, unless the write failed; and a line
\* without its newline is the last, or one that was cut off, or another request wrote next.
Cut(d) == call[d].code \in {"broken", "killed"}

LineOK(r, i) ==
    LET line == audit[r][i] IN
    /\ call[line.by].rid = r /\ call[line.by].pc \in {"steps", "tool", "answered"}
    /\ line.what \in Events => i \in ToSet(wrote[line.by]) \/ call[line.by].code = "broken"
    /\ line.what = "part" => call[line.by].code = "broken"
    /\ ~line.ended /\ i = Len(audit[r]) => line.by \in owes \/ Cut(line.by)
    /\ ~line.ended /\ i < Len(audit[r]) /\ audit[r][i + 1].what # "newline" =>
          audit[r][i + 1].by # line.by \/ Cut(line.by)

LogFile == \A r \in RunIds : \A i \in DOMAIN audit[r] : LineOK(r, i)

\* What ResponseMatchesLog says of one response
Matches(r, it) ==
    LET own == {i \in DOMAIN audit[r] : audit[r][i].by = it.by} IN
    /\ DOMAIN it.results = Ids(Text[call[it.by].wf].steps)
    /\ \A id \in DOMAIN it.results :
          \E i \in own : audit[r][i].step = id /\ audit[r][i].what = it.results[id]
    /\ it.status = "completed" <=> \A i \in own : audit[r][i].what # "error"

\* A response is of a request that is answered, whose lines stay as they are.
ReplyInv ==
    /\ \A r \in RunIds : runs[r] = None \/ runs[r].status \in {"completed", "failed"}
    /\ backend = "direct" => \A r \in RunIds : runs[r] # None =>
          /\ runs[r].by \in Calls
          /\ call[runs[r].by].pc = "answered" /\ call[runs[r].by].rid = r
    /\ ResponseMatchesLog

ServerInv ==
    Shape /\ FileInv /\ ReplyInv /\ LogFile /\ \A c \in Calls : CallInv(c)

-----------------------------------------------------------------------------
(***************************************************************************)
(* Lists of steps.                                                         *)
(***************************************************************************)
LEMMA StepsAreLists ==
    ASSUME NEW w \in DOMAIN Text
    PROVE  /\ Text[w].steps \in Seq(ToSet(Text[w].steps))
           /\ \A i \in DOMAIN Text[w].steps :
                 /\ Text[w].steps[i].needs \in Seq(ToSet(Text[w].steps[i].needs))
                 /\ Text[w].steps[i].with \in Seq(ToSet(Text[w].steps[i].with))
  BY ServerAssumption DEF ServerAssumption, IsList

\* Step ids and what they need are names.
LEMMA NamesHold ==
    ASSUME NEW w \in DOMAIN Text
    PROVE  /\ Ids(Text[w].steps) \subseteq Names
           /\ \A i \in DOMAIN Text[w].steps : ToSet(Text[w].steps[i].needs) \subseteq Names
  BY DEF Names

\* ById finds a step that has the id.
LEMMA ByIdFinds ==
    ASSUME NEW w \in DOMAIN Text, NEW id \in Ids(Text[w].steps)
    PROVE  \E i \in DOMAIN Text[w].steps :
               /\ StepOf(w, id) = Text[w].steps[i] /\ StepOf(w, id).id = id
               /\ Needs(w, id) = ToSet(Text[w].steps[i].needs)
<1> DEFINE i == CHOOSE i \in DOMAIN Text[w].steps : Text[w].steps[i].id = id
<1>1. i \in DOMAIN Text[w].steps /\ Text[w].steps[i].id = id
  BY DEF Ids
<1>2. StepOf(w, id) = Text[w].steps[i]
  BY DEF StepOf, ById
<1> QED
  BY <1>1, <1>2 DEF Needs, ToSet

\* Visits of a list of names: an agenda with one visit for each.
LEMMA VisitsAre ==
    ASSUME NEW ids \in Seq(Names)
    PROVE  /\ Visits(ids) \in Seq(Items) /\ Len(Visits(ids)) = Len(ids)
           /\ \A i \in 1 .. Len(ids) : Visits(ids)[i] = [op |-> "visit", id |-> ids[i]]
<1>1. DOMAIN ids = 1 .. Len(ids) /\ Len(ids) \in Nat /\ \A i \in 1 .. Len(ids) : ids[i] \in Names
  OBVIOUS
<1>2. Visits(ids) \in [1 .. Len(ids) -> Items]
  BY <1>1 DEF Visits, Items
<1>3. Visits(ids) \in Seq(Items)
  BY <1>1, <1>2
<1> QED
  BY <1>1, <1>2, <1>3 DEF Visits

\* The sort starts with a visit of every step of the file.
LEMMA FirstVisitsAre ==
    ASSUME NEW w \in DOMAIN Text
    PROVE  LET first == FirstVisits(Text[w].steps)
           IN  /\ first \in Seq(Items)
               /\ \A i \in DOMAIN first :
                     first[i].op = "visit" /\ first[i].id \in Ids(Text[w].steps)
               /\ \A id \in Ids(Text[w].steps) : \E i \in DOMAIN first : first[i].id = id
<1> DEFINE steps == Text[w].steps
           ids == [i \in DOMAIN steps |-> steps[i].id]
<1>1. steps \in Seq(ToSet(steps))
  BY StepsAreLists
<1>2. DOMAIN steps = 1 .. Len(steps) /\ Len(steps) \in Nat
  BY <1>1
<1>3. \A i \in DOMAIN steps : ids[i] \in Ids(steps) /\ ids[i] \in Names
  BY NamesHold DEF Ids
<1>4. ids \in Seq(Names) /\ Len(ids) = Len(steps)
  <2>1. ids \in [1 .. Len(steps) -> Names]
    BY <1>2, <1>3
  <2> HIDE DEF ids
  <2> QED
    BY <2>1, <1>2
<1>5. /\ Visits(ids) \in Seq(Items) /\ Len(Visits(ids)) = Len(ids)
      /\ \A i \in 1 .. Len(ids) : Visits(ids)[i] = [op |-> "visit", id |-> ids[i]]
  BY <1>4, VisitsAre
<1>6. \A id \in Ids(steps) : \E i \in 1 .. Len(steps) : ids[i] = id
  BY <1>2 DEF Ids
<1>7. FirstVisits(steps) = Visits(ids)
  BY DEF FirstVisits
<1>8. DOMAIN Visits(ids) = 1 .. Len(steps)
  BY <1>4, <1>5
<1> DEFINE first == Visits(ids)
<1>9. \A i \in DOMAIN first : first[i].op = "visit" /\ first[i].id = ids[i]
  <2>1. TAKE i \in DOMAIN first
  <2>2. Visits(ids)[i] = [op |-> "visit", id |-> ids[i]]
    BY <1>4, <1>5, <1>8
  <2> QED
    BY <2>2
<1> HIDE DEF ids, first
<1>10. \A i \in DOMAIN first : first[i].op = "visit" /\ first[i].id \in Ids(steps)
  BY <1>2, <1>3, <1>8, <1>9 DEF first
<1>11. \A id \in Ids(steps) : \E i \in DOMAIN first : first[i].id = id
  BY <1>6, <1>8, <1>9 DEF first
<1>12. first \in Seq(Items)
  BY <1>5 DEF first
<1> QED
  BY <1>7, <1>10, <1>11, <1>12 DEF first

\* The body of visit puts the needs of a step, and then the step, before the rest.
Entered(w, id, rest, new) ==
    \E n \in Nat :
        /\ new \in Seq(Items) /\ Len(new) = n + 1 + Len(rest)
        /\ \A i \in 1 .. n : new[i].op = "visit" /\ new[i].id \in Needs(w, id)
        /\ \A need \in Needs(w, id) : \E i \in 1 .. n : new[i].id = need
        /\ new[n + 1].op = "leave" /\ new[n + 1].id = id
        /\ \A i \in 1 .. Len(rest) : new[n + 1 + i] = rest[i]

\* What visit puts on the agenda is the step's needs, then the step itself.
LEMMA DescendEnters ==
    ASSUME NEW w \in DOMAIN Text, NEW id \in Ids(Text[w].steps), NEW rest \in Seq(Items)
    PROVE  Entered(w, id, rest, Descend(Text[w].steps, id) \o rest)
<1> DEFINE steps == Text[w].steps
<1>1. PICK k \in DOMAIN steps :
        StepOf(w, id) = steps[k] /\ Needs(w, id) = ToSet(steps[k].needs)
  BY ByIdFinds
<1> DEFINE needs == steps[k].needs
           n == Len(needs)
           leave == [op |-> "leave", id |-> id]
<1>2. needs \in Seq(ToSet(needs)) /\ ToSet(needs) \subseteq Names
  BY StepsAreLists, NamesHold
<1>3. needs \in Seq(Names) /\ n \in Nat /\ DOMAIN needs = 1 .. n
      /\ \A i \in 1 .. n : needs[i] \in ToSet(needs)
  BY <1>2 DEF ToSet
<1>4. /\ Visits(needs) \in Seq(Items) /\ Len(Visits(needs)) = n
      /\ \A i \in 1 .. n : Visits(needs)[i] = [op |-> "visit", id |-> needs[i]]
  BY <1>3, VisitsAre
<1>5. leave \in Items
  BY NamesHold DEF Items
<1>6. Descend(steps, id) = Append(Visits(needs), leave)
  BY <1>1 DEF Descend, StepOf
<1>7. \A need \in Needs(w, id) : \E i \in 1 .. n : needs[i] = need
  BY <1>1, <1>3 DEF ToSet
<1> DEFINE front == Append(Visits(needs), leave)
           new == front \o rest
<1> HIDE DEF leave, needs, n
<1>8. /\ front \in Seq(Items) /\ Len(front) = n + 1 /\ front[n + 1] = leave
      /\ \A i \in 1 .. n : front[i] = [op |-> "visit", id |-> needs[i]]
  BY <1>3, <1>4, <1>5
<1> HIDE DEF front
<1>9. /\ new \in Seq(Items) /\ Len(new) = n + 1 + Len(rest)
      /\ \A i \in 1 .. n + 1 : new[i] = front[i]
      /\ \A i \in 1 .. Len(rest) : new[n + 1 + i] = rest[i]
  BY <1>3, <1>8
<1> HIDE DEF new
<1>10. \A i \in 1 .. n : new[i].op = "visit" /\ new[i].id = needs[i]
  <2>1. TAKE i \in 1 .. n
  <2>2. i \in 1 .. n + 1
    BY <1>3
  <2>3. new[i] = [op |-> "visit", id |-> needs[i]]
    BY <1>8, <1>9, <2>2
  <2> QED
    BY <2>3
<1>11. new[n + 1].op = "leave" /\ new[n + 1].id = id
  <2>1. new[n + 1] = leave
    BY <1>3, <1>8, <1>9
  <2> QED
    BY <2>1 DEF leave
<1>12. \A i \in 1 .. n : needs[i] \in Needs(w, id)
  BY <1>1, <1>3 DEF needs
<1>13. Entered(w, id, rest, new)
  <2>1. \A i \in 1 .. n : new[i].op = "visit" /\ new[i].id \in Needs(w, id)
    BY <1>10, <1>12
  <2>2. \A need \in Needs(w, id) : \E i \in 1 .. n : new[i].id = need
    BY <1>7, <1>10
  <2>3. n \in Nat
    BY <1>3
  <2>4. /\ new \in Seq(Items) /\ Len(new) = n + 1 + Len(rest)
        /\ \A i \in 1 .. Len(rest) : new[n + 1 + i] = rest[i]
    BY <1>9
  <2> QED
    BY <2>1, <2>2, <2>3, <2>4, <1>11 DEF Entered
<1> QED
  BY <1>6, <1>13 DEF new, front

(***************************************************************************)
(* Orders that put every step after what it needs.                         *)
(***************************************************************************)
LEMMA IdsFinite == ASSUME NEW w \in DOMAIN Text PROVE IsFiniteSet(Ids(Text[w].steps))
<1> DEFINE steps == Text[w].steps
           f == [i \in 1 .. Len(steps) |-> steps[i].id]
<1>1. DOMAIN steps = 1 .. Len(steps) /\ Len(steps) \in Nat
  BY StepsAreLists
<1>2. IsFiniteSet(1 .. Len(steps))
  BY <1>1, FS_Interval
<1>3. f \in Surjection(1 .. Len(steps), Ids(steps))
  BY <1>1 DEF Surjection, Ids
<1> QED
  BY <1>2, <1>3, FS_Surjection

\* Such an order holds every step, once.
LEMMA OrdersAre ==
    ASSUME NEW w \in DOMAIN Text, NEW o \in Orders(w)
    PROVE  /\ \E n \in Nat : DOMAIN o = 1 .. n
           /\ DOMAIN o \subseteq Nat
           /\ \A i \in DOMAIN o : o[i] \in Ids(Text[w].steps)
           /\ \A id \in Ids(Text[w].steps) : \E i \in DOMAIN o : o[i] = id
           /\ \A i, j \in DOMAIN o : o[i] = o[j] => i = j
           /\ \A i \in DOMAIN o : Needs(w, o[i]) \subseteq {o[j] : j \in 1 .. i - 1}
<1> DEFINE S == Ids(Text[w].steps)
<1>1. IsFiniteSet(S)
  BY IdsFinite
<1>2. Cardinality(S) \in Nat
  BY <1>1, FS_CardinalityType
<1>3. /\ o \in [1 .. Cardinality(S) -> S]
      /\ \A i, j \in 1 .. Cardinality(S) : i # j => o[i] # o[j]
      /\ NeedsPrecede(w, o)
  BY DEF Orders, SetToSeqs
<1>4. o \in Injection(1 .. Cardinality(S), S)
  BY <1>3 DEF Injection, IsInjective
<1>5. Cardinality(1 .. Cardinality(S)) = Cardinality(S)
  BY <1>2, FS_Interval
<1>6. o \in Surjection(1 .. Cardinality(S), S)
  BY <1>1, <1>4, <1>5, FS_Injection
<1> QED
  BY <1>2, <1>3, <1>6 DEF Surjection, NeedsPrecede

\* A list without repetition that holds every step, each after its needs, is one.
LEMMA OrderComplete ==
    ASSUME NEW w \in DOMAIN Text, NEW order \in Seq(Names), Distinct(order),
           ToSet(order) = Ids(Text[w].steps), NeedsPrecede(w, order)
    PROVE  order \in Orders(w)
<1> DEFINE S == Ids(Text[w].steps)
<1>1. Len(order) \in Nat /\ DOMAIN order = 1 .. Len(order)
  OBVIOUS
<1>2. order \in [1 .. Len(order) -> S]
  BY <1>1 DEF ToSet
<1>3. order \in Bijection(1 .. Len(order), S)
  BY <1>1, <1>2 DEF Bijection, Injection, IsInjective, Surjection, Distinct, ToSet
<1>4. IsFiniteSet(1 .. Len(order)) /\ Cardinality(1 .. Len(order)) = Len(order)
  <2> DEFINE n == Len(order)
  <2>1. n \in Nat
    BY <1>1
  <2> HIDE DEF n
  <2>2. IsFiniteSet(1 .. n) /\ Cardinality(1 .. n) = IF 1 > n THEN 0 ELSE n - 1 + 1
    BY <2>1, FS_Interval
  <2>3. Cardinality(1 .. n) = n
    BY <2>1, <2>2
  <2> QED
    BY <2>2, <2>3 DEF n
<1>5. Cardinality(S) = Len(order)
  BY <1>3, <1>4, FS_Bijection DEF ExistsBijection
<1>6. order \in SetToSeqs(S)
  BY <1>1, <1>2, <1>5 DEF SetToSeqs, Distinct
<1> QED
  BY <1>6 DEF Orders

\* In an order of the steps, coming before is transitive ...
LEMMA BeforeIsTransitive ==
    ASSUME NEW w \in DOMAIN Text, NEW o \in Orders(w), NEW x, NEW y, NEW z,
           Before(o, x, y), Before(o, y, z)
    PROVE  Before(o, x, z)
<1>1. PICK k, l \in DOMAIN o : k < l /\ o[k] = x /\ o[l] = y
  BY DEF Before
<1>2. PICK m, n \in DOMAIN o : m < n /\ o[m] = y /\ o[n] = z
  BY DEF Before
<1>3. l = m /\ DOMAIN o \subseteq Nat
  BY <1>1, <1>2, OrdersAre
<1>4. k \in Nat /\ l \in Nat /\ n \in Nat /\ k < n
  BY <1>1, <1>2, <1>3
<1> QED
  BY <1>1, <1>2, <1>4 DEF Before

\* ... and irreflexive,
LEMMA NotBeforeItself ==
    ASSUME NEW w \in DOMAIN Text, NEW o \in Orders(w), NEW x PROVE ~Before(o, x, x)
  BY OrdersAre DEF Before

\* and what a step needs comes before it.
LEMMA NeedsComeBefore ==
    ASSUME NEW w \in DOMAIN Text, NEW o \in Orders(w), NEW id \in Ids(Text[w].steps),
           NEW need \in Needs(w, id)
    PROVE  need \in Ids(Text[w].steps) /\ Before(o, need, id)
<1>1. PICK l \in DOMAIN o : o[l] = id
  BY OrdersAre
<1>2. PICK k \in 1 .. l - 1 : o[k] = need
  BY <1>1, OrdersAre
<1>3. PICK n \in Nat : DOMAIN o = 1 .. n
  BY OrdersAre
<1>4. k \in DOMAIN o /\ k < l
  BY <1>1, <1>2, <1>3
<1> QED
  BY <1>1, <1>2, <1>4, OrdersAre DEF Before

(***************************************************************************)
(* One call of visit, or its return, keeps the sort on its way.            *)
(***************************************************************************)
LEMMA TailIs ==
    ASSUME NEW S, NEW s \in Seq(S), s # <<>>
    PROVE  /\ Len(s) \in Nat \ {0} /\ DOMAIN s = 1 .. Len(s) /\ Head(s) = s[1] /\ s[1] \in S
           /\ Tail(s) \in Seq(S) /\ Len(Tail(s)) = Len(s) - 1
           /\ DOMAIN Tail(s) = 1 .. Len(s) - 1
           /\ \A i \in 1 .. Len(s) - 1 : Tail(s)[i] = s[i + 1]
  OBVIOUS

\* An order with one more step at its end
LEMMA AppendIs ==
    ASSUME NEW S, NEW s \in Seq(S), NEW e \in S
    PROVE  /\ Len(s) \in Nat /\ DOMAIN s = 1 .. Len(s)
           /\ Append(s, e) \in Seq(S) /\ Len(Append(s, e)) = Len(s) + 1
           /\ DOMAIN Append(s, e) = 1 .. Len(s) + 1
           /\ \A i \in 1 .. Len(s) : Append(s, e)[i] = s[i]
           /\ Append(s, e)[Len(s) + 1] = e
           /\ ToSet(Append(s, e)) = ToSet(s) \union {e}
<1>1. /\ Len(s) \in Nat /\ DOMAIN s = 1 .. Len(s)
      /\ Append(s, e) \in Seq(S) /\ Len(Append(s, e)) = Len(s) + 1
      /\ DOMAIN Append(s, e) = 1 .. Len(s) + 1
      /\ \A i \in 1 .. Len(s) : Append(s, e)[i] = s[i]
      /\ Append(s, e)[Len(s) + 1] = e
  OBVIOUS
<1>2. ToSet(Append(s, e)) \subseteq ToSet(s) \union {e}
  <2>1. SUFFICES ASSUME NEW i \in 1 .. Len(s) + 1 PROVE Append(s, e)[i] \in ToSet(s) \union {e}
    BY <1>1 DEF ToSet
  <2>2. CASE i = Len(s) + 1
    BY <1>1, <2>2
  <2>3. CASE i \in 1 .. Len(s)
    BY <1>1, <2>3 DEF ToSet
  <2> QED
    BY <1>1, <2>1, <2>2, <2>3
<1>3. ToSet(s) \union {e} \subseteq ToSet(Append(s, e))
  <2>1. SUFFICES ASSUME NEW i \in 1 .. Len(s) PROVE s[i] \in ToSet(Append(s, e))
    BY <1>1 DEF ToSet
  <2>2. i \in DOMAIN Append(s, e) /\ Append(s, e)[i] = s[i]
    BY <1>1
  <2> QED
    BY <2>2 DEF ToSet
<1> QED
  BY <1>1, <1>2, <1>3

\* The sort's invariant holds when it starts.
LEMMA SortBegins ==
    ASSUME NEW w \in DOMAIN Text
    PROVE  SortOK(w, FirstVisits(Text[w].steps), <<>>)
<1> DEFINE first == FirstVisits(Text[w].steps)
<1>1. /\ \A i \in DOMAIN first : first[i].op = "visit" /\ first[i].id \in Ids(Text[w].steps)
      /\ \A id \in Ids(Text[w].steps) : \E i \in DOMAIN first : first[i].id = id
  BY FirstVisitsAre
<1> HIDE DEF first
<1>2. OrderOK(w, first, <<>>)
  BY <1>1 DEF OrderOK, ToSet, Distinct, NeedsPrecede
<1>3. LeavesOK(w, first, <<>>)
  BY <1>1 DEF LeavesOK
<1>4. AgendaOK(w, first)
  BY <1>1 DEF AgendaOK
<1> QED
  BY <1>2, <1>3, <1>4 DEF SortOK, first

\* visit of a step that is in the order
LEMMA SortSkips ==
    ASSUME NEW w \in DOMAIN Text, NEW agenda \in Seq(Items), NEW order \in Seq(Names),
           agenda # <<>>, Head(agenda).op = "visit", Head(agenda).id \in ToSet(order),
           SortOK(w, agenda, order)
    PROVE  SortOK(w, Tail(agenda), order)
<1> DEFINE t == Tail(agenda)
           n == Len(agenda)
<1>1. /\ n \in Nat \ {0} /\ DOMAIN agenda = 1 .. n /\ DOMAIN t = 1 .. n - 1
      /\ \A i \in 1 .. n - 1 : t[i] = agenda[i + 1]
      /\ agenda[1].op = "visit" /\ agenda[1].id \in ToSet(order)
  BY TailIs
<1> HIDE DEF t, n
\* What the agenda holds is in the order or still in the rest, one place further to the front.
<1>2. ASSUME NEW j \in 1 .. n, NEW id, \E i \in DOMAIN agenda : i < j /\ agenda[i].id = id
      PROVE  id \in ToSet(order) \/ \E i \in DOMAIN t : i < j - 1 /\ t[i].id = id
  <2>1. PICK i \in DOMAIN agenda : i < j /\ agenda[i].id = id
    BY <1>2
  <2>2. CASE i = 1
    BY <1>1, <2>1, <2>2
  <2>3. CASE i > 1
    <3>1. i - 1 \in DOMAIN t /\ i - 1 < j - 1 /\ t[i - 1].id = id
      BY <1>1, <2>1, <2>3
    <3> QED
      BY <3>1
  <2> QED
    BY <1>1, <2>2, <2>3
<1>3. OrderOK(w, t, order)
  <2>1. ASSUME NEW id \in Ids(Text[w].steps), id \notin ToSet(order)
        PROVE  \E i \in DOMAIN t : t[i].id = id
    <3>1. PICK i \in DOMAIN agenda : agenda[i].id = id
      BY <2>1 DEF SortOK, OrderOK
    <3>2. i - 1 \in DOMAIN t /\ t[i - 1].id = id
      BY <1>1, <2>1, <3>1
    <3> QED
      BY <3>2
  <2> QED
    BY <2>1 DEF SortOK, OrderOK
<1>4. LeavesOK(w, t, order)
  <2>1. SUFFICES ASSUME NEW j \in DOMAIN t, t[j].op = "leave"
                 PROVE  /\ t[j].id \in Ids(Text[w].steps) \ ToSet(order)
                        /\ \A i \in DOMAIN t : i < j /\ t[i].op = "leave" => t[i].id # t[j].id
                        /\ \A id \in Needs(w, t[j].id) :
                              id \in ToSet(order) \/ \E i \in DOMAIN t : i < j /\ t[i].id = id
    BY DEF LeavesOK
  <2>2. j + 1 \in DOMAIN agenda /\ t[j] = agenda[j + 1] /\ j \in Nat /\ j + 1 \in 1 .. n
    BY <1>1, <2>1
  <2>3. /\ t[j].id \in Ids(Text[w].steps) \ ToSet(order)
        /\ \A i \in DOMAIN agenda :
              i < j + 1 /\ agenda[i].op = "leave" => agenda[i].id # t[j].id
        /\ \A id \in Needs(w, t[j].id) :
              id \in ToSet(order) \/ \E i \in DOMAIN agenda : i < j + 1 /\ agenda[i].id = id
    BY <2>1, <2>2 DEF SortOK, LeavesOK
  <2>4. \A i \in DOMAIN t : i < j /\ t[i].op = "leave" => t[i].id # t[j].id
    <3>1. TAKE i \in DOMAIN t
    <3>2. i + 1 \in DOMAIN agenda /\ t[i] = agenda[i + 1] /\ (i < j => i + 1 < j + 1)
      BY <1>1, <2>2
    <3> QED
      BY <2>3, <3>2
  <2>5. ASSUME NEW id \in Needs(w, t[j].id)
        PROVE  id \in ToSet(order) \/ \E i \in DOMAIN t : i < j /\ t[i].id = id
    <3>1. (j + 1) - 1 = j
      BY <2>2
    <3> QED
      BY <1>2, <2>2, <2>3, <2>5, <3>1
  <2> QED
    BY <2>3, <2>4, <2>5
<1>5. AgendaOK(w, t)
  <2>1. SUFFICES ASSUME NEW o \in Orders(w), NEW i \in DOMAIN t
                 PROVE  /\ t[i].id \in Ids(Text[w].steps)
                        /\ \A j \in DOMAIN t : i < j /\ t[j].op = "leave" =>
                              Before(o, t[i].id, t[j].id)
    BY DEF AgendaOK
  <2>2. \A k \in DOMAIN t : k \in Nat /\ k + 1 \in DOMAIN agenda /\ t[k] = agenda[k + 1]
    BY <1>1
  <2>3. /\ agenda[i + 1].id \in Ids(Text[w].steps)
        /\ \A j \in DOMAIN agenda : i + 1 < j /\ agenda[j].op = "leave" =>
              Before(o, agenda[i + 1].id, agenda[j].id)
    BY <2>2 DEF SortOK, AgendaOK
  <2>4. \A j \in DOMAIN t : i < j => i + 1 < j + 1
    BY <2>2
  <2> QED
    BY <2>2, <2>3, <2>4
<1> QED
  BY <1>3, <1>4, <1>5 DEF SortOK, t

\* visit of a step that is not, and is not being visited
LEMMA SortEnters ==
    ASSUME NEW w \in DOMAIN Text, NEW agenda \in Seq(Items), NEW order \in Seq(Names),
           agenda # <<>>, Head(agenda).op = "visit", Head(agenda).id \notin ToSet(order),
           ~Unsortable(Text[w].steps, agenda, Head(agenda).id), SortOK(w, agenda, order),
           NEW new, Entered(w, Head(agenda).id, Tail(agenda), new)
    PROVE  SortOK(w, new, order)
<1> DEFINE S == Ids(Text[w].steps)
           id == Head(agenda).id
           t == Tail(agenda)
           m == Len(agenda)
<1>1. /\ m \in Nat \ {0} /\ DOMAIN agenda = 1 .. m /\ Len(t) = m - 1 /\ Head(agenda) = agenda[1]
      /\ \A i \in 1 .. m - 1 : t[i] = agenda[i + 1]
  BY TailIs
<1>2. PICK n \in Nat :
        /\ new \in Seq(Items) /\ Len(new) = n + 1 + Len(t)
        /\ \A i \in 1 .. n : new[i].op = "visit" /\ new[i].id \in Needs(w, id)
        /\ \A need \in Needs(w, id) : \E i \in 1 .. n : new[i].id = need
        /\ new[n + 1].op = "leave" /\ new[n + 1].id = id
        /\ \A i \in 1 .. Len(t) : new[n + 1 + i] = t[i]
  BY DEF Entered
<1>3. /\ id \in S /\ \A j \in DOMAIN agenda : agenda[j].op = "leave" => agenda[j].id # id
      /\ agenda[1].id = id /\ id \notin ToSet(order)
  BY <1>1 DEF Unsortable, Visiting
<1>4. DOMAIN new = 1 .. n + m
  BY <1>1, <1>2
\* Place i of the old agenda, but the first, is place i + n of the new one.
<1>5. \A i \in 2 .. m : i + n \in DOMAIN new /\ new[i + n] = agenda[i]
  <2>1. TAKE i \in 2 .. m
  <2>2. i - 1 \in 1 .. Len(t) /\ n + 1 + (i - 1) = i + n /\ (i - 1) + 1 = i
    BY <1>1
  <2>3. new[i + n] = t[i - 1] /\ t[i - 1] = agenda[i]
    BY <1>1, <1>2, <2>2
  <2> QED
    BY <1>4, <2>3
<1>6. \A i \in DOMAIN new :
        \/ i \in 1 .. n
        \/ i = n + 1
        \/ i - n \in 2 .. m /\ new[i] = agenda[i - n]
  <2>1. TAKE i \in DOMAIN new
  <2>2. ASSUME i > n + 1 PROVE i - n \in 2 .. m /\ new[i] = agenda[i - n]
    <3>1. i - n \in 2 .. m /\ (i - n) + n = i
      BY <1>1, <1>2, <1>4, <2>2
    <3> QED
      BY <1>5, <3>1
  <2> QED
    BY <1>2, <1>4, <2>2
<1>7. /\ \A i \in 1 .. n : i \in DOMAIN new /\ new[i].op = "visit" /\ new[i].id \in Needs(w, id)
      /\ \A need \in Needs(w, id) : \E i \in 1 .. n : new[i].id = need
      /\ n + 1 \in DOMAIN new /\ new[n + 1].op = "leave" /\ new[n + 1].id = id
  BY <1>1, <1>2, <1>4
<1> HIDE DEF t, m, id, S
<1>8. OrderOK(w, new, order)
  <2>1. ASSUME NEW x \in S, x \notin ToSet(order)
        PROVE  \E i \in DOMAIN new : new[i].id = x
    <3>1. PICK i \in DOMAIN agenda : agenda[i].id = x
      BY <2>1 DEF SortOK, OrderOK, S
    <3>2. CASE i = 1
      BY <1>3, <1>7, <3>1, <3>2
    <3>3. CASE i \in 2 .. m
      BY <1>5, <3>1, <3>3
    <3> QED
      BY <1>1, <3>2, <3>3
  <2> QED
    BY <2>1 DEF SortOK, OrderOK, S
<1>9. LeavesOK(w, new, order)
  <2>1. SUFFICES ASSUME NEW j \in DOMAIN new, new[j].op = "leave"
                 PROVE  /\ new[j].id \in S \ ToSet(order)
                        /\ \A i \in DOMAIN new : i < j /\ new[i].op = "leave" => new[i].id # new[j].id
                        /\ \A x \in Needs(w, new[j].id) :
                              x \in ToSet(order) \/ \E i \in DOMAIN new : i < j /\ new[i].id = x
    BY DEF LeavesOK, S
  <2>2. CASE j = n + 1
    <3>1. new[j].id = id
      BY <1>7, <2>2
    <3>2. \A i \in DOMAIN new : i < j => new[i].op = "visit"
      BY <1>2, <1>4, <1>7, <2>2
    <3>3. \A x \in Needs(w, id) : \E i \in DOMAIN new : i < j /\ new[i].id = x
      <4>1. TAKE x \in Needs(w, id)
      <4>2. PICK i \in 1 .. n : new[i].id = x
        BY <1>7
      <4>3. i \in DOMAIN new /\ i < j
        BY <1>2, <1>7, <2>2
      <4> QED
        BY <4>2, <4>3
    <3> QED
      BY <1>3, <3>1, <3>2, <3>3
  <2>3. CASE j - n \in 2 .. m /\ new[j] = agenda[j - n]
    <3> DEFINE k == j - n
    <3>1. k \in DOMAIN agenda /\ k \in Nat /\ k + n = j /\ new[j] = agenda[k] /\ k > 1
      <4>1. j \in Nat /\ n \in Nat /\ m \in Nat
        BY <1>1, <1>2, <1>4
      <4>2. k \in 2 .. m /\ new[j] = agenda[k]
        BY <2>3
      <4>3. k \in DOMAIN agenda /\ k \in Nat /\ k > 1
        BY <1>1, <4>2
      <4>4. k + n = j
        BY <4>1
      <4> QED
        BY <4>2, <4>3, <4>4
    <3> HIDE DEF k
    <3>2. /\ agenda[k].id \in S \ ToSet(order)
          /\ \A i \in DOMAIN agenda : i < k /\ agenda[i].op = "leave" => agenda[i].id # agenda[k].id
          /\ \A x \in Needs(w, agenda[k].id) :
                x \in ToSet(order) \/ \E i \in DOMAIN agenda : i < k /\ agenda[i].id = x
      BY <2>1, <3>1 DEF SortOK, LeavesOK, S
    <3>3. ASSUME NEW i \in DOMAIN new, i < j, new[i].op = "leave" PROVE new[i].id # new[j].id
      <4>1. CASE i = n + 1
        BY <1>3, <1>7, <2>1, <3>1, <4>1
      <4>2. CASE i - n \in 2 .. m /\ new[i] = agenda[i - n]
        <5>1. i - n \in DOMAIN agenda /\ i - n < k
          <6>1. i - n \in DOMAIN agenda
            BY <1>1, <4>2
          <6>2. i \in Nat /\ j \in Nat /\ n \in Nat
            BY <1>1, <1>2, <1>4
          <6>3. i < j /\ k + n = j /\ k \in Nat
            BY <3>1, <3>3
          <6> QED
            BY <6>1, <6>2, <6>3
        <5> QED
          BY <3>1, <3>2, <3>3, <4>2, <5>1
      <4>3. i \notin 1 .. n
        BY <1>7, <3>3
      <4> QED
        BY <1>6, <4>1, <4>2, <4>3
    <3>4. ASSUME NEW x \in Needs(w, new[j].id), x \notin ToSet(order)
          PROVE  \E i \in DOMAIN new : i < j /\ new[i].id = x
      <4>1. PICK i \in DOMAIN agenda : i < k /\ agenda[i].id = x
        BY <3>1, <3>2, <3>4
      <4>2. CASE i = 1
        <5>1. n + 1 < j /\ new[n + 1].id = x
          BY <1>2, <1>3, <1>7, <3>1, <4>1, <4>2
        <5> QED
          BY <1>7, <5>1
      <4>3. CASE i \in 2 .. m
        <5>1. i + n \in DOMAIN new /\ i + n < j /\ new[i + n].id = x
          <6>1. i + n \in DOMAIN new /\ new[i + n].id = x
            BY <1>5, <4>1, <4>3
          <6>2. i \in Nat /\ n \in Nat /\ k \in Nat /\ i < k /\ k + n = j
            BY <1>2, <3>1, <4>1, <4>3
          <6>3. i + n < j
            BY <6>2
          <6> QED
            BY <6>1, <6>3
        <5> QED
          BY <5>1
      <4> QED
        BY <1>1, <4>2, <4>3
    <3> QED
      BY <3>1, <3>2, <3>3, <3>4
  <2>4. j \notin 1 .. n
    BY <1>7, <2>1
  <2> QED
    BY <1>6, <2>2, <2>3, <2>4
<1>10. AgendaOK(w, new)
  <2>1. SUFFICES ASSUME NEW o \in Orders(w), NEW i \in DOMAIN new
                 PROVE  /\ new[i].id \in S
                        /\ \A j \in DOMAIN new : i < j /\ new[j].op = "leave" =>
                              Before(o, new[i].id, new[j].id)
    BY DEF AgendaOK, S
  <2>2. \A k \in DOMAIN agenda :
          /\ agenda[k].id \in S
          /\ \A j \in DOMAIN agenda : k < j /\ agenda[j].op = "leave" =>
                Before(o, agenda[k].id, agenda[j].id)
    BY DEF SortOK, AgendaOK, S
  <2>3. \A need \in Needs(w, id) : need \in S /\ Before(o, need, id)
    BY <1>3, NeedsComeBefore DEF S
  \* What is before the step in question is before whatever the step is before.
  <2>4. ASSUME NEW j \in 2 .. m, agenda[j].op = "leave" PROVE Before(o, id, agenda[j].id)
    <3>1. 1 \in DOMAIN agenda /\ j \in DOMAIN agenda /\ 1 < j
      BY <1>1, <2>4
    <3> QED
      BY <1>3, <2>2, <2>4, <3>1
  <2>5. CASE i \in 1 .. n
    <3>1. new[i].id \in S /\ Before(o, new[i].id, id)
      BY <1>7, <2>3, <2>5
    <3>2. ASSUME NEW j \in DOMAIN new, i < j, new[j].op = "leave"
          PROVE  Before(o, new[i].id, new[j].id)
      <4>1. CASE j = n + 1
        BY <1>7, <3>1, <4>1
      <4>2. CASE j - n \in 2 .. m /\ new[j] = agenda[j - n]
        <5>1. Before(o, id, new[j].id)
          BY <2>4, <3>2, <4>2
        <5> QED
          BY <3>1, <5>1, BeforeIsTransitive
      <4>3. j \notin 1 .. n
        BY <1>7, <3>2
      <4> QED
        BY <1>6, <4>1, <4>2, <4>3
    <3> QED
      BY <3>1, <3>2
  <2>6. CASE i = n + 1
    <3>1. new[i].id = id /\ id \in S
      BY <1>3, <1>7, <2>6
    <3>2. ASSUME NEW j \in DOMAIN new, i < j, new[j].op = "leave"
          PROVE  Before(o, new[i].id, new[j].id)
      <4>1. j - n \in 2 .. m /\ new[j] = agenda[j - n]
        BY <1>2, <1>4, <1>6, <2>6, <3>2
      <4> QED
        BY <2>4, <3>1, <3>2, <4>1
    <3> QED
      BY <3>1, <3>2
  <2>7. CASE i - n \in 2 .. m /\ new[i] = agenda[i - n]
    <3>1. i - n \in DOMAIN agenda
      BY <1>1, <2>7
    <3>2. ASSUME NEW j \in DOMAIN new, i < j, new[j].op = "leave"
          PROVE  Before(o, new[i].id, new[j].id)
      <4>1. j - n \in 2 .. m /\ new[j] = agenda[j - n]
        <5>1. j \notin 1 .. n /\ j # n + 1
          BY <1>2, <1>4, <2>7, <3>2
        <5> QED
          BY <1>6, <5>1
      <4>2. j - n \in DOMAIN agenda /\ i - n < j - n
        BY <1>1, <1>2, <1>4, <3>2, <4>1
      <4> QED
        BY <2>2, <2>7, <3>1, <3>2, <4>1, <4>2
    <3> QED
      BY <2>2, <2>7, <3>1, <3>2
  <2> QED
    BY <1>6, <2>5, <2>6, <2>7
<1> QED
  BY <1>8, <1>9, <1>10 DEF SortOK

\* visit returns: the step's needs are in the order, and the step is not yet.
LEMMA SortLeaves ==
    ASSUME NEW w \in DOMAIN Text, NEW agenda \in Seq(Items), NEW order \in Seq(Names),
           agenda # <<>>, Head(agenda).op = "leave", SortOK(w, agenda, order)
    PROVE  /\ Append(order, Head(agenda).id) \in Seq(Names)
           /\ SortOK(w, Tail(agenda), Append(order, Head(agenda).id))
<1> DEFINE S == Ids(Text[w].steps)
           id == Head(agenda).id
           t == Tail(agenda)
           m == Len(agenda)
           n == Len(order)
           new == Append(order, id)
<1>1. /\ m \in Nat \ {0} /\ DOMAIN agenda = 1 .. m /\ DOMAIN t = 1 .. m - 1
      /\ \A i \in 1 .. m - 1 : t[i] = agenda[i + 1]
      /\ agenda[1] \in Items /\ Head(agenda) = agenda[1]
  BY TailIs
<1>2. agenda[1].op = "leave" /\ agenda[1].id = id /\ id \in Names /\ 1 \in DOMAIN agenda
  BY <1>1 DEF Items
<1>3. /\ n \in Nat /\ DOMAIN order = 1 .. n /\ new \in Seq(Names) /\ Len(new) = n + 1
      /\ DOMAIN new = 1 .. n + 1 /\ \A i \in 1 .. n : new[i] = order[i]
      /\ new[n + 1] = id /\ ToSet(new) = ToSet(order) \union {id}
  BY <1>2, AppendIs
<1>4. id \in S /\ id \notin ToSet(order) /\ Needs(w, id) \subseteq ToSet(order)
  <2>1. /\ id \in S \ ToSet(order)
        /\ \A x \in Needs(w, id) : x \in ToSet(order) \/ \E i \in DOMAIN agenda : i < 1 /\ agenda[i].id = x
    BY <1>2 DEF SortOK, LeavesOK
  <2>2. \A i \in DOMAIN agenda : ~(i < 1)
    BY <1>1
  <2> QED
    BY <2>1, <2>2
<1>5. \A j \in DOMAIN t : j \in Nat /\ j + 1 \in DOMAIN agenda /\ t[j] = agenda[j + 1] /\ 1 < j + 1
  BY <1>1
<1>6. \A i \in DOMAIN agenda : i = 1 \/ (i - 1 \in DOMAIN t /\ t[i - 1] = agenda[i])
  <2>1. TAKE i \in DOMAIN agenda
  <2>2. ASSUME i # 1 PROVE i - 1 \in 1 .. m - 1 /\ (i - 1) + 1 = i
    BY <1>1, <2>2
  <2> QED
    BY <1>1, <2>2
<1>7. /\ ToSet(order) \subseteq S /\ Distinct(order) /\ NeedsPrecede(w, order)
      /\ \A x \in S : x \in ToSet(order) \/ \E i \in DOMAIN agenda : agenda[i].id = x
  BY DEF SortOK, OrderOK
<1> HIDE DEF S, id, t, m, n, new
<1>8. OrderOK(w, t, new)
  <2>1. ToSet(new) \subseteq S
    BY <1>3, <1>4, <1>7
  <2>2. Distinct(new)
    <3>1. SUFFICES ASSUME NEW i \in 1 .. n + 1, NEW j \in 1 .. n + 1, new[i] = new[j] PROVE i = j
      BY <1>3 DEF Distinct
    <3>2. \A k \in 1 .. n : new[k] = order[k] /\ order[k] # id
      BY <1>3, <1>4 DEF ToSet
    <3>3. CASE i \in 1 .. n /\ j \in 1 .. n
      BY <1>3, <1>7, <3>1, <3>2, <3>3 DEF Distinct
    <3>4. CASE i \in 1 .. n /\ j = n + 1
      BY <1>3, <3>1, <3>2, <3>4
    <3>5. CASE i = n + 1 /\ j \in 1 .. n
      BY <1>3, <3>1, <3>2, <3>5
    <3> QED
      BY <1>3, <3>1, <3>3, <3>4, <3>5
  <2>3. NeedsPrecede(w, new)
    <3>1. SUFFICES ASSUME NEW i \in 1 .. n + 1
                   PROVE  Needs(w, new[i]) \subseteq {new[j] : j \in 1 .. i - 1}
      BY <1>3 DEF NeedsPrecede
    <3>2. CASE i \in 1 .. n
      <4>1. Needs(w, order[i]) \subseteq {order[j] : j \in 1 .. i - 1} /\ new[i] = order[i]
        BY <1>3, <1>7, <3>2 DEF NeedsPrecede
      <4>2. \A j \in 1 .. i - 1 : new[j] = order[j]
        BY <1>3, <3>2
      <4> QED
        BY <4>1, <4>2
    <3>3. CASE i = n + 1
      <4>1. Needs(w, new[i]) \subseteq {order[j] : j \in 1 .. n}
        BY <1>3, <1>4, <3>3 DEF ToSet
      <4>2. i - 1 = n
        BY <1>3, <3>3
      <4> QED
        BY <1>3, <4>1, <4>2
    <3> QED
      BY <1>3, <3>2, <3>3
  <2>4. \A x \in S : x \in ToSet(new) \/ \E i \in DOMAIN t : t[i].id = x
    BY <1>2, <1>3, <1>6, <1>7
  <2> QED
    BY <2>1, <2>2, <2>3, <2>4 DEF OrderOK, S
<1>9. LeavesOK(w, t, new)
  <2>1. SUFFICES ASSUME NEW j \in DOMAIN t, t[j].op = "leave"
                 PROVE  /\ t[j].id \in S \ ToSet(new)
                        /\ \A i \in DOMAIN t : i < j /\ t[i].op = "leave" => t[i].id # t[j].id
                        /\ \A x \in Needs(w, t[j].id) :
                              x \in ToSet(new) \/ \E i \in DOMAIN t : i < j /\ t[i].id = x
    BY DEF LeavesOK, S
  <2>2. /\ t[j].id \in S \ ToSet(order)
        /\ \A i \in DOMAIN agenda : i < j + 1 /\ agenda[i].op = "leave" => agenda[i].id # t[j].id
        /\ \A x \in Needs(w, t[j].id) :
              x \in ToSet(order) \/ \E i \in DOMAIN agenda : i < j + 1 /\ agenda[i].id = x
    BY <1>5, <2>1 DEF SortOK, LeavesOK, S
  <2>3. t[j].id # id
    BY <1>2, <1>5, <2>2
  <2>4. \A i \in DOMAIN t : i < j /\ t[i].op = "leave" => t[i].id # t[j].id
    <3>1. TAKE i \in DOMAIN t
    <3>2. i + 1 \in DOMAIN agenda /\ t[i] = agenda[i + 1] /\ (i < j => i + 1 < j + 1)
      BY <1>5
    <3> QED
      BY <2>2, <3>2
  <2>5. ASSUME NEW x \in Needs(w, t[j].id), x \notin ToSet(new)
        PROVE  \E i \in DOMAIN t : i < j /\ t[i].id = x
    <3>1. PICK i \in DOMAIN agenda : i < j + 1 /\ agenda[i].id = x
      BY <1>3, <2>2, <2>5
    <3>2. i - 1 \in DOMAIN t /\ t[i - 1].id = x
      BY <1>2, <1>3, <1>6, <2>5, <3>1
    <3>3. i - 1 < j
      BY <1>1, <1>5, <3>1
    <3> QED
      BY <3>2, <3>3
  <2> QED
    BY <1>3, <2>2, <2>3, <2>4, <2>5
<1>10. AgendaOK(w, t)
  <2>1. SUFFICES ASSUME NEW o \in Orders(w), NEW i \in DOMAIN t
                 PROVE  /\ t[i].id \in S
                        /\ \A j \in DOMAIN t : i < j /\ t[j].op = "leave" =>
                              Before(o, t[i].id, t[j].id)
    BY DEF AgendaOK, S
  <2>2. /\ agenda[i + 1].id \in S
        /\ \A j \in DOMAIN agenda : i + 1 < j /\ agenda[j].op = "leave" =>
              Before(o, agenda[i + 1].id, agenda[j].id)
    BY <1>5 DEF SortOK, AgendaOK, S
  <2>3. \A j \in DOMAIN t : i < j => i + 1 < j + 1
    BY <1>5
  <2> QED
    BY <1>5, <2>2, <2>3
<1> QED
  BY <1>3, <1>8, <1>9, <1>10 DEF SortOK, id, t, new

\* The sort fails only if there is no order: a step that is being visited would come before
\* itself, and what is visited would be a step.
LEMMA SortFailsRightly ==
    ASSUME NEW w \in DOMAIN Text, NEW agenda \in Seq(Items), NEW order,
           agenda # <<>>, Head(agenda).op = "visit", SortOK(w, agenda, order),
           Unsortable(Text[w].steps, agenda, Head(agenda).id)
    PROVE  Orders(w) = {}
<1>1. SUFFICES ASSUME NEW o \in Orders(w) PROVE FALSE
  OBVIOUS
<1> DEFINE id == Head(agenda).id
<1>2. Len(agenda) \in Nat \ {0} /\ DOMAIN agenda = 1 .. Len(agenda) /\ Head(agenda) = agenda[1]
  BY TailIs
<1>3. 1 \in DOMAIN agenda /\ agenda[1].id = id
  BY <1>2
<1>4. /\ id \in Ids(Text[w].steps)
      /\ \A j \in DOMAIN agenda : 1 < j /\ agenda[j].op = "leave" => Before(o, id, agenda[j].id)
  BY <1>3 DEF SortOK, AgendaOK
<1>5. PICK j \in DOMAIN agenda : agenda[j].op = "leave" /\ agenda[j].id = id
  BY <1>4 DEF Unsortable, Visiting
<1>6. 1 < j
  BY <1>2, <1>5
<1>7. Before(o, id, id)
  BY <1>4, <1>5, <1>6
<1> QED
  BY <1>7, NotBeforeItself

\* There are never more visits under way than steps (visit, and Python's stack).
LEMMA VisitsFit ==
    ASSUME NEW w \in DOMAIN Text, NEW agenda, NEW order, SortOK(w, agenda, order),
           ~Duplicates(Text[w].steps), Cardinality(Visiting(agenda)) >= MaxDepth
    PROVE  Len(Text[w].steps) >= MaxDepth
<1>1. Visiting(agenda) \subseteq Ids(Text[w].steps)
  BY DEF SortOK, LeavesOK, Visiting
<1>2. /\ Cardinality(Visiting(agenda)) <= Cardinality(Ids(Text[w].steps))
      /\ Cardinality(Visiting(agenda)) \in Nat /\ Cardinality(Ids(Text[w].steps)) \in Nat
  BY <1>1, IdsFinite, FS_Subset, FS_CardinalityType
<1>3. Cardinality(Ids(Text[w].steps)) = Len(Text[w].steps)
  BY DEF Duplicates
<1> QED
  BY <1>2, <1>3, ServerAssumption DEF ServerAssumption

\* When the agenda is empty, the order has every step, after what it needs.
LEMMA SortEnds ==
    ASSUME NEW w \in DOMAIN Text, NEW order \in Seq(Names), SortOK(w, <<>>, order)
    PROVE  order \in Orders(w)
<1>1. ToSet(order) = Ids(Text[w].steps) /\ Distinct(order) /\ NeedsPrecede(w, order)
  <2>1. \A i \in DOMAIN <<>> : FALSE
    OBVIOUS
  <2> QED
    BY <2>1 DEF SortOK, OrderOK
<1> QED
  BY <1>1, OrderComplete

(***************************************************************************)
(* References.                                                             *)
(***************************************************************************)
LEMMA LeastExists ==
    ASSUME NEW T \in SUBSET Nat, T # {} PROVE \E n \in T : \A j \in T : n <= j
<1> DEFINE R == OpToRel(<, Nat)
<1>1. IsWellFoundedOn(R, Nat)
  BY NatLessThanWellFounded
<1>2. \A x, y \in Nat : <<x, y>> \in R <=> x < y
  BY DEF OpToRel
<1> HIDE DEF R
<1>3. PICK n \in T : \A j \in T : ~(<<j, n>> \in R)
  BY <1>1, WFMin
<1>4. \A j \in T : n <= j
  <2>1. TAKE j \in T
  <2>2. j \in Nat /\ n \in Nat /\ ~(j < n)
    BY <1>2, <1>3
  <2> QED
    BY <2>2
<1> QED
  BY <1>4

\* A reference to a step without an output raises, so the arguments do not resolve.
LEMMA ResolveFails ==
    ASSUME NEW S, NEW with \in Seq(S), NEW inputs, NEW outputs, NEW i \in DOMAIN with,
           with[i].root = "steps", with[i].name \notin DOMAIN outputs
    PROVE  _resolve(with, inputs, outputs) \in Errors
<1> DEFINE values == [k \in DOMAIN with |-> _resolve_ref(with[k], inputs, outputs)]
           broken == {k \in DOMAIN with : values[k] \in Errors}
           least == CHOOSE k \in broken : \A j \in broken : k <= j
<1>1. values[i] = "KeyError"
  BY DEF _resolve_ref
<1>2. i \in broken
  BY <1>1 DEF Errors
<1>3. broken \in SUBSET Nat
  OBVIOUS
<1>4. least \in broken
  <2> HIDE DEF broken
  <2>1. \E n \in broken : \A j \in broken : n <= j
    BY <1>2, <1>3, LeastExists
  <2> QED
    BY <2>1
<1>5. _resolve(with, inputs, outputs) = values[least]
  BY <1>2 DEF _resolve
<1> QED
  BY <1>4, <1>5

\* What becomes of a step before its tool; a tool that starts was fed by outputs alone.
LEMMA ToolIsFed ==
    ASSUME NEW step, NEW inputs, NEW outputs, IsList(step.with)
    PROVE  /\ BeforeTool(step, inputs, outputs) \in {"error", "raises", "skipped", "starts"}
           /\ BeforeTool(step, inputs, outputs) = "starts" =>
                 \A ref \in ToSet(step.with) \union {step.when} :
                     ref.root = "steps" => ref.name \in DOMAIN outputs
<1> DEFINE when == _eval_when(step.when, inputs, outputs)
           args == _resolve(step.with, inputs, outputs)
<1>1. BeforeTool(step, inputs, outputs) \in {"error", "raises", "skipped", "starts"}
  BY DEF BeforeTool
<1>2. ASSUME BeforeTool(step, inputs, outputs) = "starts"
      PROVE  when \notin Errors /\ args \notin Errors
  BY <1>2 DEF BeforeTool, Errors, Caught
<1>3. ASSUME step.when.root = "steps", step.when.name \notin DOMAIN outputs
      PROVE  when \in Errors
  BY <1>3 DEF _eval_when, _resolve_ref, Errors
<1>4. ASSUME NEW ref \in ToSet(step.with), ref.root = "steps", ref.name \notin DOMAIN outputs
      PROVE  args \in Errors
  <2>1. PICK i \in DOMAIN step.with : step.with[i] = ref
    BY <1>4 DEF ToSet
  <2>2. step.with \in Seq(ToSet(step.with))
    BY DEF IsList
  <2> QED
    BY <1>4, <2>1, <2>2, ResolveFails
<1> QED
  BY <1>1, <1>2, <1>3, <1>4

(***************************************************************************)
(* Lines of a log.                                                         *)
(***************************************************************************)
\* The step that is next has no result yet.
LEMMA CurrentIsNew ==
    ASSUME NEW w \in DOMAIN Text, NEW order \in Orders(w), order \in Seq(Names),
           NEW at \in Nat \ {0}, at <= Len(order)
    PROVE  /\ order[at] \in Ids(Text[w].steps) /\ order[at] \in Names
           /\ order[at] \notin {order[k] : k \in 1 .. at - 1}
           /\ Needs(w, order[at]) \subseteq {order[k] : k \in 1 .. at - 1}
<1>1. at \in DOMAIN order /\ DOMAIN order = 1 .. Len(order) /\ Len(order) \in Nat
  OBVIOUS
<1>2. \A k \in 1 .. at - 1 : k \in DOMAIN order /\ k # at
  BY <1>1
<1> QED
  BY <1>1, <1>2, OrdersAre, NamesHold

\* A line that is fed stays so in a longer log.
LEMMA FedStays ==
    ASSUME NEW w, NEW log, NEW new, NEW n \in Nat, NEW i \in 1 .. n,
           \A j \in 1 .. n : new[j] = log[j], FedLine(w, log, i)
    PROVE  FedLine(w, new, i)
<1>1. new[i] = log[i] /\ \A j \in 1 .. i - 1 : new[j] = log[j]
  OBVIOUS
<1>2. \A id \in Needs(w, new[i].step) :
        \E j \in 1 .. i - 1 : new[j].step = id /\ new[j].what \in Ends
  BY <1>1 DEF FedLine
<1>3. \A ref : (\E j \in 1 .. i - 1 : log[j] = [step |-> ref.name, what |-> "done"]) =>
               \E j \in 1 .. i - 1 : new[j] = [step |-> ref.name, what |-> "done"]
  BY <1>1
<1> QED
  BY <1>1, <1>2, <1>3, Zenon DEF FedLine

\* A tool starts: its line is appended.
Starting(w, it, log, line, new, it2) ==
    /\ w \in DOMAIN Text /\ log \in Seq(LogLines) /\ DOMAIN it = Fields /\ it.pc = "steps"
    /\ it.order \in Orders(w) /\ it.order \in Seq(Names) /\ it.at \in Nat /\ it.at <= Len(it.order)
    /\ ResultsOK(it, log) /\ LinesOK(it, log) /\ Closed(log, Len(log)) /\ Fed(w, log)
    /\ line = [step |-> it.order[it.at], what |-> "start"] /\ new = Append(log, line)
    /\ LET step == StepOf(w, it.order[it.at])
       IN  \A ref \in ToSet(step.with) \union {step.when} :
               ref.root = "steps" => ref.name \in DOMAIN it.outputs
    /\ it2 = [it EXCEPT !.pc = "tool"]

\* A tool's start is logged after the ends of what its step needs.
LEMMA StartLine ==
    ASSUME NEW w, NEW it, NEW log, NEW line, NEW new, NEW it2,
           Starting(w, it, log, line, new, it2)
    PROVE  /\ new \in Seq(LogLines) /\ ResultsOK(it2, new) /\ LinesOK(it2, new)
           /\ Closed(new, Len(new) - 1) /\ Fed(w, new)
<1> SUFFICES
      ASSUME w \in DOMAIN Text, log \in Seq(LogLines),
             DOMAIN it = Fields, it.pc = "steps", it.order \in Orders(w), it.order \in Seq(Names),
             it.at \in Nat, it.at <= Len(it.order),
             ResultsOK(it, log), LinesOK(it, log), Closed(log, Len(log)), Fed(w, log),
             line = [step |-> it.order[it.at], what |-> "start"], new = Append(log, line),
             LET step == StepOf(w, it.order[it.at])
             IN  \A ref \in ToSet(step.with) \union {step.when} :
                     ref.root = "steps" => ref.name \in DOMAIN it.outputs,
             it2 = [it EXCEPT !.pc = "tool"]
      PROVE  /\ new \in Seq(LogLines) /\ ResultsOK(it2, new) /\ LinesOK(it2, new)
             /\ Closed(new, Len(new) - 1) /\ Fed(w, new)
  BY DEF Starting
<1> DEFINE id == it.order[it.at]
           n == Len(log)
<1>1. it.at \in Nat \ {0}
  BY DEF ResultsOK
<1>2. /\ id \in Ids(Text[w].steps) /\ id \in Names /\ id \notin DOMAIN it.results
      /\ Needs(w, id) \subseteq DOMAIN it.results
  <2>1. DOMAIN it.results = {it.order[k] : k \in 1 .. it.at - 1}
    BY DEF ResultsOK
  <2> QED
    BY <1>1, <2>1, CurrentIsNew
<1>3. line \in LogLines /\ line.step = id /\ line.what = "start"
  BY <1>2 DEF LogLines, Events
<1>4. /\ n \in Nat /\ DOMAIN log = 1 .. n /\ new \in Seq(LogLines) /\ Len(new) = n + 1
      /\ DOMAIN new = 1 .. n + 1 /\ \A i \in 1 .. n : new[i] = log[i]
      /\ new[n + 1] = line /\ ToSet(new) = ToSet(log) \union {line}
  BY <1>3, AppendIs
<1>5. /\ it2.pc = "tool" /\ it2.order = it.order /\ it2.at = it.at
      /\ it2.results = it.results /\ it2.outputs = it.outputs
  BY DEF Fields
<1>6. \A i \in 1 .. n + 1 : i \in 1 .. n \/ i = n + 1
  BY <1>4
<1> HIDE DEF n, id
<1>7. ResultsOK(it2, new)
  <2>1. \A x \in DOMAIN it.results :
          it.results[x] \in Ends /\ [step |-> x, what |-> it.results[x]] \in ToSet(new)
    BY <1>4 DEF ResultsOK
  <2> QED
    BY <1>5, <2>1 DEF ResultsOK
<1>8. \A j \in 1 .. n : log[j].what = "start" => log[j].step \in DOMAIN it.results
  BY <1>4 DEF LinesOK
<1>9. LinesOK(it2, new)
  <2>1. ASSUME NEW j \in 1 .. n + 1, new[j].what # "start"
        PROVE  new[j].step \in DOMAIN it.results /\ it.results[new[j].step] = new[j].what
    <3>1. j \in 1 .. n
      BY <1>3, <1>4, <1>6, <2>1
    <3> QED
      BY <1>4, <2>1, <3>1 DEF LinesOK
  <2>2. ASSUME NEW j \in 1 .. n + 1, new[j].what = "start"
        PROVE  new[j].step \in DOMAIN it.results \/ j = n + 1
    BY <1>4, <1>6, <1>8, <2>2
  <2>3. Len(new) >= 1 /\ new[Len(new)] = [step |-> it.order[it.at], what |-> "start"]
    BY <1>4
  <2> QED
    BY <1>4, <1>5, <2>1, <2>2, <2>3 DEF LinesOK
<1>10. Closed(new, Len(new) - 1)
  <2>1. SUFFICES ASSUME NEW i \in 1 .. n, new[i].what = "start"
                 PROVE  /\ i < n + 1 /\ new[i + 1].step = new[i].step
                        /\ new[i + 1].what \in {"done", "error"}
                        /\ \A j \in (1 .. n + 1) \ {i} : new[j] # new[i]
    BY <1>4 DEF Closed
  <2>2. new[i] = log[i] /\ i \in DOMAIN log /\ i <= n
    BY <1>4
  <2>3. /\ i < n /\ log[i + 1].step = log[i].step /\ log[i + 1].what \in {"done", "error"}
        /\ \A j \in DOMAIN log \ {i} : log[j] # log[i]
    BY <2>1, <2>2 DEF Closed, n
  <2>4. i + 1 \in 1 .. n /\ new[i + 1] = log[i + 1] /\ i < n + 1
    BY <1>4, <2>3
  <2>5. line # log[i]
    BY <1>2, <1>3, <1>8, <2>1, <2>2
  <2> QED
    BY <1>4, <1>6, <2>2, <2>3, <2>4, <2>5
<1>11. Fed(w, new)
  <2>1. SUFFICES ASSUME NEW i \in 1 .. n + 1, new[i].what = "start"
                 PROVE  FedLine(w, new, i)
    BY <1>4 DEF Fed
  <2>2. CASE i \in 1 .. n
    <3>1. FedLine(w, log, i)
      BY <1>4, <2>1, <2>2 DEF Fed
    <3> QED
      BY <1>4, <2>2, <3>1, FedStays
  <2>3. CASE i = n + 1
    <3>1. new[i].step = id /\ i - 1 = n
      BY <1>3, <1>4, <2>3
    <3>2. \A x \in DOMAIN it.results :
            it.results[x] \in Ends /\ \E j \in 1 .. n : log[j] = [step |-> x, what |-> it.results[x]]
      BY <1>4 DEF ResultsOK, ToSet
    <3>3. \A x \in Needs(w, id) : \E j \in 1 .. n : new[j].step = x /\ new[j].what \in Ends
      <4>1. TAKE x \in Needs(w, id)
      <4>2. x \in DOMAIN it.results
        BY <1>2
      <4>3. PICK j \in 1 .. n : log[j] = [step |-> x, what |-> it.results[x]]
        BY <3>2, <4>2
      <4>4. new[j].step = x /\ new[j].what = it.results[x]
        BY <1>4, <4>3
      <4> QED
        BY <3>2, <4>2, <4>4
    <3>4. \A x \in DOMAIN it.outputs :
            \E j \in 1 .. n : new[j] = [step |-> x, what |-> "done"]
      <4>1. TAKE x \in DOMAIN it.outputs
      <4>2. x \in DOMAIN it.results /\ it.results[x] = "done"
        BY DEF ResultsOK
      <4> QED
        BY <1>4, <3>2, <4>2
    <3>5. ASSUME NEW ref \in ToSet(StepOf(w, id).with) \union {StepOf(w, id).when}, ref.root = "steps"
          PROVE  \E j \in 1 .. n : new[j] = [step |-> ref.name, what |-> "done"]
      BY <3>4, <3>5 DEF id
    <3>6. \A x \in Needs(w, new[i].step) : \E j \in 1 .. i - 1 : new[j].step = x /\ new[j].what \in Ends
      <4>1. TAKE x \in Needs(w, new[i].step)
      <4>2. PICK j \in 1 .. n : new[j].step = x /\ new[j].what \in Ends
        <5>1. Needs(w, new[i].step) = Needs(w, id)
          BY <3>1, Zenon
        <5>2. x \in Needs(w, id)
          BY <4>1, <5>1, Zenon
        <5> QED
          BY <3>3, <5>2, Zenon
      <4>3. j \in 1 .. i - 1
        BY <3>1
      <4> QED
        BY <4>2, <4>3
    <3>7. ASSUME NEW ref \in ToSet(StepOf(w, new[i].step).with) \union {StepOf(w, new[i].step).when},
                 ref.root = "steps"
          PROVE  \E j \in 1 .. i - 1 : new[j] = [step |-> ref.name, what |-> "done"]
      BY <3>1, <3>5, <3>7
    <3> QED
      BY <3>6, <3>7, Zenon DEF FedLine
  <2> QED
    BY <1>6, <2>2, <2>3
<1> QED
  BY <1>4, <1>7, <1>9, <1>10, <1>11

\* A step ends: its line is appended, then its result is kept.
Ending(w, it, log, what, line, new, it2) ==
    /\ w \in DOMAIN Text /\ log \in Seq(LogLines) /\ it.pc \in {"steps", "tool"}
    /\ it.order \in Orders(w) /\ it.order \in Seq(Names) /\ it.at \in Nat /\ it.at <= Len(it.order)
    /\ ResultsOK(it, log) /\ LinesOK(it, log) /\ Fed(w, log)
    /\ Closed(log, IF it.pc = "tool" THEN Len(log) - 1 ELSE Len(log))
    /\ what \in Ends /\ (it.pc = "tool" => what # "skipped")
    /\ line = [step |-> it.order[it.at], what |-> what] /\ new = Append(log, line)
    /\ it2.pc = "steps" /\ it2.order = it.order /\ it2.at = it.at + 1
    /\ it2.results = Put(it.results, it.order[it.at], what)
    /\ \/ it2.outputs = it.outputs
       \/ what = "done" /\ \E out : it2.outputs = Put(it.outputs, it.order[it.at], out)

\* The end of a step is logged once, with the result the run records.
LEMMA EndLine ==
    ASSUME NEW w, NEW it, NEW log, NEW what, NEW line, NEW new, NEW it2,
           Ending(w, it, log, what, line, new, it2)
    PROVE  /\ new \in Seq(LogLines) /\ ResultsOK(it2, new) /\ LinesOK(it2, new)
           /\ Closed(new, Len(new)) /\ Fed(w, new)
<1> SUFFICES
      ASSUME w \in DOMAIN Text, log \in Seq(LogLines),
             it.pc \in {"steps", "tool"}, it.order \in Orders(w), it.order \in Seq(Names),
             it.at \in Nat, it.at <= Len(it.order),
             ResultsOK(it, log), LinesOK(it, log), Fed(w, log),
             Closed(log, IF it.pc = "tool" THEN Len(log) - 1 ELSE Len(log)),
             what \in Ends, it.pc = "tool" => what # "skipped",
             line = [step |-> it.order[it.at], what |-> what], new = Append(log, line),
             it2.pc = "steps", it2.order = it.order, it2.at = it.at + 1,
             it2.results = Put(it.results, it.order[it.at], what),
             \/ it2.outputs = it.outputs
             \/ what = "done" /\ \E out : it2.outputs = Put(it.outputs, it.order[it.at], out)
      PROVE  /\ new \in Seq(LogLines) /\ ResultsOK(it2, new) /\ LinesOK(it2, new)
             /\ Closed(new, Len(new)) /\ Fed(w, new)
  BY DEF Ending
<1> DEFINE id == it.order[it.at]
           n == Len(log)
           D == DOMAIN it.results
<1>1. it.at \in Nat \ {0} /\ Len(it.order) \in Nat
  BY DEF ResultsOK
<1>2. id \in Names /\ id \notin D
  BY <1>1, CurrentIsNew DEF ResultsOK
<1>3. line \in LogLines /\ line.step = id /\ line.what = what /\ what # "start"
  BY <1>2 DEF LogLines, Events, Ends
<1>4. /\ n \in Nat /\ DOMAIN log = 1 .. n /\ new \in Seq(LogLines) /\ Len(new) = n + 1
      /\ DOMAIN new = 1 .. n + 1 /\ \A i \in 1 .. n : new[i] = log[i]
      /\ new[n + 1] = line /\ ToSet(new) = ToSet(log) \union {line}
  BY <1>3, AppendIs
<1>5. /\ DOMAIN it2.results = D \union {id} /\ it2.results[id] = what
      /\ \A x \in D : it2.results[x] = it.results[x]
  BY <1>2 DEF Put
<1>6. \A i \in 1 .. n + 1 : i \in 1 .. n \/ i = n + 1
  BY <1>4
<1>7. line = [step |-> id, what |-> what]
  OBVIOUS
<1>8. DOMAIN it2.outputs \subseteq DOMAIN it.outputs \union {id} /\
      (id \in DOMAIN it2.outputs => id \in DOMAIN it.outputs \/ what = "done")
  BY DEF Put
<1>9. D = {it.order[k] : k \in 1 .. it.at - 1} /\ DOMAIN it.outputs \subseteq D
  BY DEF ResultsOK
<1> HIDE DEF n, id, D
<1>10. ResultsOK(it2, new)
  <2>1. it2.at \in 1 .. Len(it2.order) + 1
    BY <1>1
  <2>2. DOMAIN it2.results = {it2.order[k] : k \in 1 .. it2.at - 1}
    <3>1. 1 .. it2.at - 1 = (1 .. it.at - 1) \union {it.at}
      BY <1>1
    <3>2. {it2.order[k] : k \in 1 .. it2.at - 1} =
          {it.order[k] : k \in 1 .. it.at - 1} \union {it.order[it.at]}
      BY <3>1
    <3> QED
      BY <1>5, <1>9, <3>2 DEF id
  <2>3. DOMAIN it2.outputs \subseteq DOMAIN it2.results
    BY <1>5, <1>8, <1>9
  <2>4. ASSUME NEW x \in DOMAIN it2.results
        PROVE  it2.results[x] \in Ends /\ [step |-> x, what |-> it2.results[x]] \in ToSet(new)
    BY <1>4, <1>5, <1>7, <2>4 DEF ResultsOK, D
  <2>5. ASSUME NEW x \in DOMAIN it2.outputs PROVE it2.results[x] = "done"
    <3>1. CASE x = id
      BY <1>2, <1>5, <1>8, <1>9, <2>5, <3>1
    <3>2. CASE x # id
      BY <1>5, <1>8, <1>9, <2>5, <3>2 DEF ResultsOK
    <3> QED
      BY <3>1, <3>2
  <2>6. it2.pc # "tool"
    OBVIOUS
  <2> QED
    BY <2>1, <2>2, <2>3, <2>4, <2>5, <2>6 DEF ResultsOK
<1>11. LinesOK(it2, new)
  <2>1. ASSUME NEW j \in 1 .. n + 1, new[j].what # "start"
        PROVE  new[j].step \in DOMAIN it2.results /\ it2.results[new[j].step] = new[j].what
    <3>1. CASE j = n + 1
      BY <1>3, <1>4, <1>5, <3>1
    <3>2. CASE j \in 1 .. n
      <4>1. new[j] = log[j] /\ j \in DOMAIN log /\ log[j].what # "start"
        BY <1>4, <2>1, <3>2
      <4>2. log[j].step \in D /\ it.results[log[j].step] = log[j].what
        BY <4>1 DEF LinesOK, D
      <4> QED
        BY <1>5, <4>1, <4>2
    <3> QED
      BY <1>6, <3>1, <3>2
  <2>2. ASSUME NEW j \in 1 .. n + 1, new[j].what = "start" PROVE new[j].step \in DOMAIN it2.results
    <3>1. j \in 1 .. n /\ new[j] = log[j]
      BY <1>3, <1>4, <1>6, <2>2
    <3>2. CASE log[j].step \in D
      BY <1>5, <3>1, <3>2
    <3>3. CASE it.pc = "tool" /\ j = n
      <4>1. log[n] = [step |-> id, what |-> "start"]
        BY <3>3 DEF LinesOK, n, id
      <4>2. log[n].step = id
        BY <4>1
      <4> QED
        BY <1>5, <3>1, <3>3, <4>2
    <3> QED
      BY <1>4, <2>2, <3>1, <3>2, <3>3 DEF LinesOK, D, n
  <2> QED
    BY <1>4, <2>1, <2>2 DEF LinesOK
<1>12. Closed(new, Len(new))
  <2>1. SUFFICES ASSUME NEW i \in 1 .. n, log[i].what = "start"
                 PROVE  /\ i < n + 1 /\ new[i + 1].step = log[i].step
                        /\ new[i + 1].what \in {"done", "error"}
                        /\ \A j \in (1 .. n + 1) \ {i} : new[j] # log[i]
    BY <1>3, <1>4, <1>6 DEF Closed
  <2>2. i < n + 1 /\ i \in DOMAIN log /\ line # log[i]
    BY <1>3, <1>4, <2>1
  <2>3. CASE it.pc = "tool" /\ i = n
    <3>1. log[n] = [step |-> id, what |-> "start"] /\ new[i + 1] = line
      BY <1>4, <2>3 DEF LinesOK, n, id
    <3>2. \A j \in 1 .. n : j # n => log[j] # log[n]
      <4>1. TAKE j \in 1 .. n
      <4>2. ASSUME j # n, log[j] = log[n] PROVE FALSE
        <5>1. log[j].what = "start" /\ log[j].step = id /\ j \in DOMAIN log
          BY <1>4, <3>1, <4>2
        <5>2. log[j].step \in D
          BY <1>4, <4>2, <5>1 DEF LinesOK, D, n
        <5> QED
          BY <1>2, <5>1, <5>2
      <4> QED
        BY <4>2
    <3>3. what \in {"done", "error"}
      BY <2>3 DEF Ends
    <3> QED
      BY <1>3, <1>4, <1>6, <2>2, <2>3, <3>1, <3>2, <3>3
  <2>4. CASE ~(it.pc = "tool" /\ i = n)
    <3>1. i <= IF it.pc = "tool" THEN Len(log) - 1 ELSE Len(log)
      BY <1>4, <2>4 DEF n
    <3>2. /\ i < n /\ log[i + 1].step = log[i].step /\ log[i + 1].what \in {"done", "error"}
          /\ \A j \in DOMAIN log \ {i} : log[j] # log[i]
      BY <2>1, <2>2, <3>1 DEF Closed, n
    <3>3. i + 1 \in 1 .. n /\ new[i + 1] = log[i + 1]
      BY <1>4, <3>2
    <3> QED
      BY <1>4, <1>6, <2>2, <3>2, <3>3
  <2> QED
    BY <2>3, <2>4
<1>13. Fed(w, new)
  <2>1. SUFFICES ASSUME NEW i \in 1 .. n + 1, new[i].what = "start"
                 PROVE  FedLine(w, new, i)
    BY <1>4 DEF Fed
  <2>2. i \in 1 .. n /\ i \in DOMAIN log
    BY <1>3, <1>4, <1>6, <2>1
  <2>3. FedLine(w, log, i)
    BY <1>4, <2>1, <2>2 DEF Fed
  <2> QED
    BY <1>4, <2>2, <2>3, FedStays
<1> QED
  BY <1>4, <1>10, <1>11, <1>12, <1>13

-----------------------------------------------------------------------------
(***************************************************************************)
(* The invariant holds at the start.                                       *)
(***************************************************************************)
LEMMA NoLines == ASSUME NEW w PROVE Closed(<<>>, Len(<<>>)) /\ Fed(w, <<>>)
<1>1. \A i \in DOMAIN <<>> : FALSE
  OBVIOUS
<1> QED
  BY <1>1, Zenon DEF Closed, Fed

LEMMA NothingWritten == ASSUME NEW c, wrote[c] = <<>> PROVE Lines(c) = <<>> /\ WroteInv(c)
<1>1. \A k \in DOMAIN wrote[c] : FALSE
  OBVIOUS
<1>2. DOMAIN wrote[c] = {}
  OBVIOUS
<1> QED
  BY <1>1, <1>2 DEF Lines, WroteInv

\* The server starts without requests in flight, with a file that is absent or loads.
LEMMA InitServerInv == ServerInit => ServerInv
<1> SUFFICES ASSUME ServerInit PROVE ServerInv
  OBVIOUS
<1>1. PICK w \in Scenarios :
        /\ backend = w.backend /\ file = w.file
        /\ save = [s \in Saves |-> [NoSave EXCEPT !.pc = IF s \in w.saves THEN "idle" ELSE "unused"]]
        /\ call = [c \in Calls |-> [NoCall EXCEPT !.pc = IF c \in w.calls THEN "idle" ELSE "unused"]]
  BY DEF ServerInit
<1>2. /\ audit = [r \in RunIds |-> <<>>] /\ runs = [r \in RunIds |-> None] /\ owes = {}
      /\ wrote = [c \in Calls |-> <<>>] /\ spoiled = FALSE /\ faults = 0 /\ kills = 0
  BY DEF ServerInit
<1>3. /\ backend \in Backends
      /\ file = Absent \/ (file \in DOMAIN Text /\ Text[file].valid)
  BY <1>1, ServerAssumption DEF ServerAssumption
<1>4. Shape
  <2>1. save \in [Saves -> [pc : SavePcs, draft : Drafts \union {None}, linked : BOOLEAN]]
    BY <1>1 DEF NoSave, SavePcs
  <2>2. audit \in [RunIds -> Seq(FileLines)] /\ wrote \in [Calls -> Seq(Nat)]
    BY <1>2
  <2>3. faults \in 0 .. MaxFaults /\ kills \in 0 .. MaxKills
    BY <1>2, ServerAssumption DEF ServerAssumption
  <2> QED
    BY <1>1, <1>2, <1>3, <2>1, <2>2, <2>3 DEF Shape
<1>5. FileInv
  BY <1>1, <1>3 DEF FileInv, NoSave, Loads
<1>6. ReplyInv
  BY <1>2 DEF ReplyInv, ResponseMatchesLog, get_run
<1>8. LogFile
  <2>1. ASSUME NEW r \in RunIds PROVE DOMAIN audit[r] = {}
    BY <1>2
  <2> QED
    BY <2>1 DEF LogFile
<1>7. ASSUME NEW c \in Calls PROVE CallInv(c)
  <2>1. call[c] = [NoCall EXCEPT !.pc = IF c \in w.calls THEN "idle" ELSE "unused"]
    BY <1>1
  <2>2. /\ DOMAIN call[c] = Fields /\ call[c].pc \in {"idle", "unused"} /\ call[c].code = None
        /\ call[c].agenda = <<>> /\ call[c].order = <<>> /\ call[c].at = 0 /\ call[c].wf = None
    BY <2>1 DEF NoCall, Fields
  <2>3. Served(c)
    BY <1>2, <2>2 DEF Served, CallPcs, Codes
  <2>4. wrote[c] = <<>>
    BY <1>2
  <2>5. Lines(c) = <<>> /\ WroteInv(c)
    BY <2>4, NothingWritten
  <2> QED
    BY <2>2, <2>3, <2>4, <2>5, NoLines DEF CallInv, SortInv, SortedInv, RunInv, LogInv, FedInv
<1> QED
  BY <1>4, <1>5, <1>6, <1>7, <1>8 DEF ServerInv

(***************************************************************************)
(* What a step leaves alone.                                               *)
(***************************************************************************)
\* Audit files only grow, and what is new is by one request.
Extends == \A r \in RunIds : \A i \in DOMAIN audit[r] : i \in DOMAIN audit'[r] /\ audit'[r][i] = audit[r][i]
Adds(c) == \A r \in RunIds : \A i \in DOMAIN audit'[r] : i \in DOMAIN audit[r] \/ audit'[r][i].by = c

\* The lines of a request that writes none
LEMMA LinesStay ==
    ASSUME NEW d \in Calls, WroteInv(d), call'[d].rid = call[d].rid, wrote'[d] = wrote[d], Extends
    PROVE  Lines(d)' = Lines(d) /\ WroteInv(d)'
<1>1. CASE wrote[d] = <<>>
  <2>1. \A k \in DOMAIN wrote[d] : FALSE
    BY <1>1
  <2>2. Lines(d) = <<>> /\ Lines(d)' = <<>>
    BY <1>1 DEF Lines
  <2> QED
    BY <1>1, <2>1, <2>2 DEF WroteInv
<1>2. CASE wrote[d] # <<>>
  <2>1. call[d].rid \in RunIds
    BY <1>2 DEF WroteInv
  <2>2. \A k \in DOMAIN wrote[d] :
           /\ wrote[d][k] \in DOMAIN audit'[call[d].rid]
           /\ audit'[call[d].rid][wrote[d][k]] = audit[call[d].rid][wrote[d][k]]
    BY <2>1 DEF WroteInv, Extends
  <2> QED
    BY <2>1, <2>2 DEF Lines, WroteInv
<1> QED
  BY <1>1, <1>2

\* Another request
LEMMA CallFrame ==
    ASSUME NEW d \in Calls, CallInv(d), call'[d] = call[d], backend' = backend,
           wrote'[d] = wrote[d], Extends, d \in owes' => d \in owes
    PROVE  CallInv(d)'
<1>1. Lines(d)' = Lines(d) /\ WroteInv(d)'
  BY LinesStay DEF CallInv
<1>2. Served(d)' /\ SortInv(d)' /\ SortedInv(d)'
  BY DEF CallInv, Served, SortInv, SortedInv
<1>3. RunInv(d)' /\ LogInv(d)' /\ FedInv(d)'
  BY <1>1 DEF CallInv, RunInv, LogInv, FedInv
<1> QED
  BY <1>1, <1>2, <1>3 DEF CallInv

\* The responses, while a request that is not answered moves on
LEMMA ReplyFrame ==
    ASSUME ReplyInv, NEW c \in Calls, call[c].pc # "answered",
           \A d \in Calls \ {c} : call'[d] = call[d],
           Extends, Adds(c), runs' = runs, backend' = backend
    PROVE  ReplyInv'
<1>1. \A r \in RunIds : runs'[r] = None \/ runs'[r].status \in {"completed", "failed"}
  BY DEF ReplyInv
<1>2. ASSUME backend = "direct", NEW r \in RunIds, runs[r] # None
      PROVE  /\ runs[r].by \in Calls /\ runs[r].by # c
             /\ call'[runs[r].by].pc = "answered" /\ call'[runs[r].by].rid = r
             /\ call'[runs[r].by] = call[runs[r].by]
  BY <1>2 DEF ReplyInv
<1>3. ASSUME backend = "direct", NEW r \in RunIds, runs[r] # None
      PROVE  LET own == {i \in DOMAIN audit[r] : audit[r][i].by = runs[r].by}
                 new == {i \in DOMAIN audit'[r] : audit'[r][i].by = runs[r].by}
             IN  new = own /\ \A i \in own : audit'[r][i] = audit[r][i]
  BY <1>2, <1>3 DEF Extends, Adds
<1>4. ASSUME backend = "direct", NEW r \in RunIds, runs[r] # None
      PROVE  Matches(r, runs[r])'
  <2>1. Matches(r, runs[r])
    BY <1>4 DEF ReplyInv, ResponseMatchesLog, get_run, Matches
  <2> QED
    BY <1>2, <1>3, <1>4, <2>1 DEF Matches
<1>5. ResponseMatchesLog'
  BY <1>4 DEF ResponseMatchesLog, get_run, Matches
<1> QED
  BY <1>1, <1>2, <1>5 DEF ReplyInv

(***************************************************************************)
(* The audit files.                                                        *)
(***************************************************************************)
\* A step that writes nothing
LEMMA LogStays ==
    ASSUME LogFile, NEW c \in Calls, call[c].pc # "answered", CallInv(c), Shape,
           \A d \in Calls \ {c} : call'[d] = call[d] /\ (d \in owes => d \in owes'),
           call[c].pc \in {"steps", "tool"} =>
              /\ call'[c].rid = call[c].rid /\ call'[c].pc \in {"steps", "tool", "answered"}
              /\ c \in owes => c \in owes' \/ call'[c].code \in {"broken", "killed"},
           audit' = audit, wrote' = wrote
    PROVE  LogFile'
<1>1. SUFFICES ASSUME NEW r \in RunIds, NEW i \in DOMAIN audit[r] PROVE LineOK(r, i)'
  BY DEF LogFile
<1> DEFINE line == audit[r][i]
           d == line.by
<1>2. LineOK(r, i)
  BY DEF LogFile
<1>3. line \in FileLines /\ d \in Calls
  <2>1. audit[r] \in Seq(FileLines)
    BY DEF Shape
  <2>2. line \in FileLines
    BY <2>1
  <2> QED
    BY <2>2 DEF FileLines
<1>4. CASE d # c
  BY <1>2, <1>3, <1>4 DEF LineOK, Cut
<1>5. CASE d = c
  <2>1. call[c].pc \in {"steps", "tool"} /\ call[c].code = None
    BY <1>2, <1>5 DEF LineOK, CallInv, Served
  <2>2. call[c].code \notin {"broken", "killed"}
    BY <2>1, ServerAssumption DEF CallInv, ServerAssumption
  <2> QED
    BY <1>2, <1>3, <1>5, <2>1, <2>2 DEF LineOK, Cut
<1> QED
  BY <1>4, <1>5

\* A step that writes: the new line comes after a line of another request, or one that has its
\* newline, unless it is that newline.
LEMMA LogGrows ==
    ASSUME LogFile, Shape, NEW c \in Calls, call[c].pc \in {"steps", "tool"}, CallInv(c),
           NEW line \in FileLines, line.by = c,
           audit' = [audit EXCEPT ![call[c].rid] = Append(audit[call[c].rid], line)],
           c \in owes => line.what = "newline",
           \A d \in Calls \ {c} : call'[d] = call[d] /\ wrote'[d] = wrote[d] /\ (d \in owes => d \in owes'),
           call'[c].rid = call[c].rid, call'[c].pc \in {"steps", "tool", "answered"},
           \A i \in ToSet(wrote[c]) : i \in ToSet(wrote'[c]),
           \/ call'[c].code = "broken"
           \/ /\ line.what # "part" /\ (line.ended \/ c \in owes')
              /\ line.what \in Events => Len(audit[call[c].rid]) + 1 \in ToSet(wrote'[c])
    PROVE  LogFile' /\ audit' \in [RunIds -> Seq(FileLines)] /\ Extends /\ Adds(c)
<1>1. call[c].rid \in RunIds /\ audit \in [RunIds -> Seq(FileLines)] /\ call[c].code = None
  BY DEF CallInv, Served, Shape
<1>q. PICK q \in RunIds : q = call[c].rid
  BY <1>1
<1>n. PICK n \in Nat : n = Len(audit[q])
  BY <1>1
<1>2. call[c].code \notin {"broken", "killed"}
  BY <1>1, ServerAssumption DEF ServerAssumption
<1>3. audit[q] \in Seq(FileLines) /\ n \in Nat /\ DOMAIN audit[q] = 1 .. n
  BY <1>1, <1>n
<1>4. /\ audit'[q] = Append(audit[q], line) /\ audit'[q] \in Seq(FileLines)
      /\ Len(audit'[q]) = n + 1 /\ DOMAIN audit'[q] = 1 .. n + 1
      /\ \A i \in 1 .. n : audit'[q][i] = audit[q][i]
      /\ audit'[q][n + 1] = line
  BY <1>1, <1>3, <1>q, <1>n
<1>5. \A r \in RunIds \ {q} : audit'[r] = audit[r]
  BY <1>1, <1>q
<1>6. audit' \in [RunIds -> Seq(FileLines)]
  BY <1>1, <1>4, <1>5
<1>7. Extends /\ Adds(c)
  <2>1. ASSUME NEW i \in 1 .. n + 1 PROVE i \in 1 .. n \/ i = n + 1
    BY <1>3
  <2>2. 1 .. n \subseteq 1 .. n + 1
    BY <1>3
  <2> QED
    BY <1>3, <1>4, <1>5, <2>1, <2>2 DEF Extends, Adds
<1>8. ASSUME NEW i \in 1 .. n PROVE LineOK(q, i)'
  <2> DEFINE old == audit[q][i]
             d == old.by
  <2>1. LineOK(q, i) /\ i \in DOMAIN audit[q] /\ audit'[q][i] = old /\ Len(audit[q]) = n
    BY <1>1, <1>3, <1>4, <1>8, <1>n DEF LogFile
  <2>2. old \in FileLines /\ d \in Calls
    <3>1. old \in FileLines
      BY <1>3, <2>1
    <3> QED
      BY <3>1 DEF FileLines
  <2>3. /\ i \in Nat /\ i < n + 1 /\ i # n + 1
        /\ i # n => i + 1 \in 1 .. n /\ i < n
        /\ i = n => i + 1 = n + 1
    BY <1>3, <1>8
  <2>4. /\ call'[d].rid = q /\ call'[d].pc \in {"steps", "tool", "answered"}
        /\ old.what \in Events => i \in ToSet(wrote'[d]) \/ call'[d].code = "broken"
        /\ old.what = "part" => call'[d].code = "broken"
        /\ Cut(d) => Cut(d)'
    <3>1. CASE d = c
      BY <1>2, <1>q, <2>1, <3>1 DEF LineOK, Cut
    <3>2. CASE d # c
      BY <2>1, <2>2, <3>2 DEF LineOK, Cut
    <3> QED
      BY <3>1, <3>2
  <2>5. ASSUME ~old.ended, audit'[q][i + 1].what # "newline"
        PROVE  audit'[q][i + 1].by # d \/ Cut(d)'
    <3>1. CASE i # n
      <4>1. audit'[q][i + 1] = audit[q][i + 1] /\ i < n
        BY <1>4, <2>3, <3>1
      <4> QED
        BY <2>1, <2>4, <2>5, <4>1 DEF LineOK
    <3>2. CASE i = n
      <4>1. audit'[q][i + 1] = line
        BY <1>4, <3>2
      <4>2. d \in owes \/ Cut(d)
        BY <2>1, <2>5, <3>2 DEF LineOK
      <4>3. CASE Cut(d)
        BY <2>4, <4>3
      <4>4. CASE d \in owes
        BY <2>5, <4>1, <4>4
      <4> QED
        BY <4>2, <4>3, <4>4
    <3> QED
      BY <3>1, <3>2
  <2>6. Len(audit'[q]) = n + 1
    BY <1>4
  <2> QED
    BY <2>1, <2>3, <2>4, <2>5, <2>6 DEF LineOK
<1>9. LineOK(q, n + 1)'
  <2>1. ~(n + 1 < n + 1) /\ audit'[q][n + 1] = line /\ Len(audit'[q]) = n + 1
    BY <1>3, <1>4
  <2>2. n + 1 = Len(audit[q]) + 1
    BY <1>n
  <2>3. /\ call'[c].rid = q /\ call'[c].pc \in {"steps", "tool", "answered"}
        /\ line.what \in Events => n + 1 \in ToSet(wrote'[c]) \/ call'[c].code = "broken"
        /\ line.what = "part" => call'[c].code = "broken"
        /\ ~line.ended => c \in owes' \/ call'[c].code = "broken"
    BY <1>q, <2>2
  <2>4. audit'[q][n + 1].by = c /\ Len(audit'[q]) = n + 1 /\ audit'[q][n + 1] = line
    BY <2>1
  <2>5. ~audit'[q][n + 1].ended => c \in owes' \/ Cut(c)'
    BY <2>3, <2>4 DEF Cut
  <2> QED
    BY <2>1, <2>3, <2>4, <2>5, Zenon DEF LineOK
<1>10. ASSUME NEW r \in RunIds \ {q}, NEW i \in DOMAIN audit[r] PROVE LineOK(r, i)'
  <2> DEFINE d == audit[r][i].by
  <2>1. LineOK(r, i) /\ audit[r][i] \in FileLines /\ d \in Calls /\ audit'[r] = audit[r]
    <3>1. audit[r] \in Seq(FileLines) /\ LineOK(r, i) /\ audit'[r] = audit[r]
      BY <1>1, <1>5, <1>10 DEF LogFile
    <3>2. audit[r][i] \in FileLines
      BY <1>10, <3>1
    <3> QED
      BY <3>1, <3>2 DEF FileLines
  <2>2. d # c
    BY <1>10, <1>q, <2>1 DEF LineOK
  <2>3. call'[d] = call[d] /\ wrote'[d] = wrote[d] /\ (d \in owes => d \in owes')
    BY <2>1, <2>2
  <2> HIDE DEF d
  <2> QED
    BY <2>1, <2>3 DEF LineOK, Cut, d
<1>11. LogFile'
  <2>1. SUFFICES ASSUME NEW r \in RunIds, NEW i \in DOMAIN audit'[r] PROVE LineOK(r, i)'
    BY DEF LogFile
  <2>2. CASE r = q
    <3>1. i \in 1 .. n + 1
      BY <1>4, <2>1, <2>2
    <3>2. i \in 1 .. n \/ i = n + 1
      BY <1>3, <3>1
    <3> QED
      BY <1>8, <1>9, <2>2, <3>2
  <2>3. CASE r # q
    <3>1. r \in RunIds \ {q} /\ i \in DOMAIN audit[r]
      BY <1>5, <2>1, <2>3
    <3> QED
      BY <1>10, <3>1
  <2> QED
    BY <2>2, <2>3
<1> QED
  BY <1>6, <1>7, <1>11

\* What a step of one request leaves of the audit files
Logged(c) ==
    /\ audit' \in [RunIds -> Seq(FileLines)] /\ wrote' \in [Calls -> Seq(Nat)]
    /\ owes' \subseteq Calls /\ Extends /\ Adds(c) /\ LogFile'
    /\ \A d \in Calls \ {c} : wrote'[d] = wrote[d] /\ (d \in owes' => d \in owes)

\* A step of one request needs a look at that request only.
LEMMA OneCall ==
    ASSUME ServerInv, NEW c \in Calls, call[c].pc # "answered",
           DOMAIN call' = Calls, \A d \in Calls \ {c} : call'[d] = call[d],
           CallsRest, runs' = runs, faults' \in 0 .. MaxFaults, Logged(c), CallInv(c)'
    PROVE  ServerInv'
<1>1. /\ audit' \in [RunIds -> Seq(FileLines)] /\ wrote' \in [Calls -> Seq(Nat)]
      /\ owes' \subseteq Calls /\ Extends /\ Adds(c) /\ LogFile'
      /\ \A d \in Calls \ {c} : wrote'[d] = wrote[d] /\ (d \in owes' => d \in owes)
  BY DEF Logged
<1>2. /\ backend' = backend /\ file' = file /\ save' = save /\ kills' = kills /\ spoiled' = spoiled
      /\ \A d \in Calls \ {c} : call'[d] = call[d]
  BY DEF CallsRest
<1>3. Shape'
  BY <1>1, <1>2 DEF ServerInv, Shape
<1>4. FileInv'
  BY <1>2 DEF ServerInv, FileInv, Watches
<1>5. ReplyInv'
  BY <1>1, <1>2, ReplyFrame DEF ServerInv
<1>6. \A d \in Calls : CallInv(d)'
  <2>1. ASSUME NEW d \in Calls \ {c} PROVE CallInv(d)'
    BY <1>1, <1>2, <2>1, CallFrame DEF ServerInv
  <2> QED
    BY <2>1
<1> QED
  BY <1>1, <1>3, <1>4, <1>5, <1>6 DEF ServerInv

\* The request that is answered.  It was sorted, or the sort failed; its log has no step open.
LEMMA AnswerKeeps ==
    ASSUME NEW c \in Calls, DOMAIN call = Calls, CallInv(c), NEW code \in Codes, Answer(c, code),
           backend' = backend, Extends, wrote'[c] = wrote[c], c \notin owes',
           (backend = "direct" /\ call[c].wf # None /\ code # "killed") =>
              SortResult(call[c].wf, call[c].order, code),
           code \notin {"broken", "killed"} => Closed(Lines(c), Len(Lines(c)))
    PROVE  CallInv(c)'
<1>1. DOMAIN call[c] = Fields
  BY DEF CallInv, Served
<1>2. /\ call'[c].pc = "answered" /\ call'[c].code = code /\ call'[c].at = 0
      /\ call'[c].agenda = <<>> /\ call'[c].order = call[c].order /\ call'[c].wf = call[c].wf
      /\ call'[c].rid = call[c].rid /\ DOMAIN call'[c] = Fields
  BY <1>1 DEF Answer, Set, Fields
<1>3. Lines(c)' = Lines(c) /\ WroteInv(c)'
  BY <1>2, LinesStay DEF CallInv
<1>4. Served(c)'
  BY <1>2 DEF CallInv, Served, CallPcs
<1>5. SortInv(c)' /\ SortedInv(c)' /\ RunInv(c)'
  BY <1>2 DEF SortInv, SortedInv, RunInv
<1>6. LogInv(c)'
  BY <1>2, <1>3 DEF LogInv
<1>7. FedInv(c)'
  BY <1>2, <1>3 DEF CallInv, FedInv
<1> QED
  BY <1>3, <1>4, <1>5, <1>6, <1>7 DEF CallInv

\* Of a request before its first step
LEMMA QuietLog ==
    ASSUME NEW c \in Calls, CallInv(c), call[c].pc \notin {"steps", "tool", "answered"}
    PROVE  /\ Lines(c) = <<>> /\ Closed(Lines(c), Len(Lines(c)))
           /\ wrote[c] = <<>> /\ c \notin owes
  BY NoLines, NothingWritten DEF CallInv, LogInv, Served

\* Where nothing is written, files only grow.
LEMMA NoGrowth == ASSUME audit' = audit, NEW c PROVE Extends /\ Adds(c)
  BY DEF Extends, Adds

(***************************************************************************)
(* Saves.                                                                  *)
(***************************************************************************)
\* A save leaves requests to run, logs and responses alone.
LEMMA SaveFrame ==
    ASSUME ServerInv, SavesRest, FileInv', file' \in DOMAIN Text \union {Absent, Empty, Torn},
           spoiled' \in BOOLEAN, faults' \in 0 .. MaxFaults,
           save' \in [Saves -> [pc : SavePcs, draft : Drafts \union {None}, linked : BOOLEAN]]
    PROVE  ServerInv'
<1>1. /\ backend' = backend /\ call' = call /\ audit' = audit /\ runs' = runs
      /\ owes' = owes /\ wrote' = wrote /\ kills' = kills
  BY DEF SavesRest, logVars
<1>2. Shape'
  BY <1>1 DEF ServerInv, Shape
<1>3. ReplyInv'
  BY <1>1 DEF ServerInv, ReplyInv, ResponseMatchesLog, get_run
<1>4. \A c \in Calls : CallInv(c)'
  BY <1>1, CallFrame, NoGrowth DEF ServerInv
<1>5. LogFile'
  BY <1>1 DEF ServerInv, LogFile, LineOK, Cut
<1> QED
  BY <1>2, <1>3, <1>4, <1>5 DEF ServerInv

\* A draft that is refused leaves the file alone.
LEMMA RefuseSaveKeeps == ASSUME ServerInv, NEW s \in Saves, RefuseSave(s) PROVE ServerInv'
<1>1. /\ save' = [save EXCEPT ![s].pc = "refused"] /\ file' = file /\ save[s].pc = "idle"
      /\ save \in [Saves -> [pc : SavePcs, draft : Drafts \union {None}, linked : BOOLEAN]]
  BY DEF RefuseSave, ServerInv, Shape
<1>f. spoiled' = spoiled /\ spoiled \in BOOLEAN /\ faults' \in 0 .. MaxFaults
  BY DEF RefuseSave, ServerInv, Shape
<1>2. save' \in [Saves -> [pc : SavePcs, draft : Drafts \union {None}, linked : BOOLEAN]]
  BY <1>1 DEF SavePcs
<1>3. FileInv'
  <2>1. \A x \in Saves : /\ save'[x].linked = save[x].linked /\ save'[x].draft = save[x].draft
                         /\ save'[x].pc = IF x = s THEN "refused" ELSE save[x].pc
    BY <1>1
  <2>2. \A x \in Saves : Watches(x) => Watches(x)'
    BY <1>1, <2>1 DEF Watches
  <2> QED
    BY <1>1, <1>f, <2>1, <2>2 DEF ServerInv, FileInv
<1> QED
  BY <1>1, <1>2, <1>3, <1>f, SaveFrame DEF RefuseSave, ServerInv, Shape

\* The file is truncated by a save that is still to check it.
LEMMA OpenDraftKeeps == ASSUME ServerInv, NEW s \in Saves, OpenDraft(s) PROVE ServerInv'
<1>1. PICK d \in Drafts : save' = [save EXCEPT ![s] = [pc |-> "write", draft |-> d, linked |-> TRUE]]
  BY DEF OpenDraft
<1>2. /\ save \in [Saves -> [pc : SavePcs, draft : Drafts \union {None}, linked : BOOLEAN]]
      /\ file' = Empty /\ Empty # Absent /\ spoiled' = FALSE /\ faults' \in 0 .. MaxFaults
  BY ServerAssumption DEF OpenDraft, ServerInv, Shape, ServerAssumption
<1>3. save' \in [Saves -> [pc : SavePcs, draft : Drafts \union {None}, linked : BOOLEAN]]
  BY <1>1, <1>2 DEF SavePcs
<1>4. FileInv'
  BY <1>1, <1>2 DEF ServerInv, FileInv, Watches
<1> QED
  BY <1>2, <1>3, <1>4, SaveFrame DEF OpenDraft

\* What is written, torn or not, is still to be checked by its writer.
LEMMA WriteDraftKeeps == ASSUME ServerInv, NEW s \in Saves, WriteDraft(s) PROVE ServerInv'
<1>1. /\ save' = [save EXCEPT ![s].pc = "check"] /\ save[s].pc = "write"
      /\ file' \in IF save[s].linked THEN Over(file, save[s].draft) ELSE {file}
      /\ save \in [Saves -> [pc : SavePcs, draft : Drafts \union {None}, linked : BOOLEAN]]
      /\ file \in DOMAIN Text \union {Absent, Empty, Torn}
      /\ spoiled' \in BOOLEAN /\ faults' \in 0 .. MaxFaults
  BY DEF WriteDraft, ServerInv, Shape
<1>2. save[s].draft \in DOMAIN Text /\ Absent \notin DOMAIN Text /\ Absent # Torn
  BY <1>1, ServerAssumption DEF ServerInv, FileInv, ServerAssumption
<1>3. /\ file' \in DOMAIN Text \union {Absent, Empty, Torn}
      /\ save[s].linked => file' # Absent
      /\ ~save[s].linked => file' = file
  BY <1>1, <1>2 DEF Over
<1>4. save' \in [Saves -> [pc : SavePcs, draft : Drafts \union {None}, linked : BOOLEAN]]
  BY <1>1 DEF SavePcs
<1>5. FileInv'
  <2>1. \A x \in Saves : /\ save'[x].linked = save[x].linked /\ save'[x].draft = save[x].draft
                         /\ save'[x].pc = IF x = s THEN "check" ELSE save[x].pc
    BY <1>1
  <2>2. Watches(s)'
    BY <2>1 DEF Watches
  <2>3. \A x \in Saves : save[x].linked => file # Absent
    BY DEF ServerInv, FileInv
  <2>4. \A x \in Saves : save[x].pc = "write" => save[x].draft \in Drafts
    BY DEF ServerInv, FileInv
  <2> QED
    BY <1>3, <2>1, <2>2, <2>3, <2>4 DEF FileInv
<1> QED
  BY <1>1, <1>3, <1>4, <1>5, SaveFrame DEF WriteDraft

\* A draft that cannot be written may leave a file that does not load.
LEMMA WriteFailsKeeps == ASSUME ServerInv, NEW s \in Saves, WriteFails(s) PROVE ServerInv'
<1>1. /\ save' = [save EXCEPT ![s].pc = "failed"] /\ save[s].pc = "write" /\ spoiled' = TRUE
      /\ file' \in IF save[s].linked THEN {file, Torn} \union Over(file, save[s].draft) ELSE {file}
      /\ save \in [Saves -> [pc : SavePcs, draft : Drafts \union {None}, linked : BOOLEAN]]
      /\ file \in DOMAIN Text \union {Absent, Empty, Torn}
  BY DEF WriteFails, ServerInv, Shape
<1>2. save[s].draft \in DOMAIN Text /\ Absent \notin DOMAIN Text /\ Absent # Torn
  BY <1>1, ServerAssumption DEF ServerInv, FileInv, ServerAssumption
<1>3. /\ file' \in DOMAIN Text \union {Absent, Empty, Torn}
      /\ ~save[s].linked => file' = file
  BY <1>1, <1>2 DEF Over
<1>4. file # Absent => file' # Absent
  BY <1>1, <1>2 DEF Over
<1>5. save' \in [Saves -> [pc : SavePcs, draft : Drafts \union {None}, linked : BOOLEAN]]
  BY <1>1 DEF SavePcs
<1>6. FileInv'
  <2>1. \A x \in Saves : /\ save'[x].linked = save[x].linked /\ save'[x].draft = save[x].draft
                         /\ save'[x].pc = IF x = s THEN "failed" ELSE save[x].pc
    BY <1>1
  <2>2. \A x \in Saves : /\ save[x].linked => file # Absent
                         /\ save[x].pc = "write" => save[x].draft \in Drafts
    BY DEF ServerInv, FileInv
  <2> QED
    BY <1>1, <1>4, <2>1, <2>2 DEF FileInv
<1>7. faults' \in 0 .. MaxFaults
  BY ServerAssumption DEF WriteFails, ServerInv, Shape, ServerAssumption
<1> QED
  BY <1>1, <1>3, <1>5, <1>6, <1>7, SaveFrame DEF WriteFails

\* A save stops watching the file only if it loads.
LEMMA CheckDraftKeeps == ASSUME ServerInv, NEW s \in Saves, CheckDraft(s) PROVE ServerInv'
<1>1. /\ save' = [save EXCEPT ![s].pc = IF Loads(file) THEN "saved" ELSE "unlink"]
      /\ save[s].pc = "check" /\ file' = file
      /\ save \in [Saves -> [pc : SavePcs, draft : Drafts \union {None}, linked : BOOLEAN]]
  BY DEF CheckDraft, ServerInv, Shape
<1>f. spoiled' \in BOOLEAN /\ faults' \in 0 .. MaxFaults
  BY DEF CheckDraft, ServerInv, Shape
<1>2. save' \in [Saves -> [pc : SavePcs, draft : Drafts \union {None}, linked : BOOLEAN]]
  BY <1>1 DEF SavePcs
<1>3. FileInv'
  <2>1. \A x \in Saves : /\ save'[x].linked = save[x].linked /\ save'[x].draft = save[x].draft
                         /\ x # s => save'[x].pc = save[x].pc
    BY <1>1
  <2>2. save'[s].pc = IF Loads(file) THEN "saved" ELSE "unlink"
    BY <1>1
  <2>3. ~Loads(file) => Watches(s)'
    BY <2>2 DEF Watches
  <2>4. Loads(file)' = Loads(file)
    BY <1>1 DEF Loads
  <2>5. \A x \in Saves : /\ save'[x].pc = "write" => save'[x].draft \in Drafts
                         /\ save'[x].linked => file' # Absent
    BY <1>1, <2>1, <2>2 DEF ServerInv, FileInv
  <2> QED
    BY <2>3, <2>4, <2>5 DEF FileInv
<1> QED
  BY <1>1, <1>2, <1>3, <1>f, SaveFrame DEF CheckDraft, ServerInv, Shape

\* Where the file is removed, no writer is linked to it any more.
LEMMA UnlinkDraftKeeps == ASSUME ServerInv, NEW s \in Saves, UnlinkDraft(s) PROVE ServerInv'
<1>1. /\ save' = [x \in Saves |-> [save[x] EXCEPT !.linked = FALSE,
                                                  !.pc = IF x = s THEN "refused" ELSE @]]
      /\ file' = Absent /\ spoiled' = FALSE /\ faults' \in 0 .. MaxFaults
      /\ save \in [Saves -> [pc : SavePcs, draft : Drafts \union {None}, linked : BOOLEAN]]
  BY DEF UnlinkDraft, ServerInv, Shape
<1>2. save' \in [Saves -> [pc : SavePcs, draft : Drafts \union {None}, linked : BOOLEAN]]
  BY <1>1 DEF SavePcs
<1>3. FileInv'
  <2>1. \A x \in Saves : /\ ~save'[x].linked /\ save'[x].draft = save[x].draft
                         /\ save'[x].pc = IF x = s THEN "refused" ELSE save[x].pc
    BY <1>1
  <2>2. \A x \in Saves : save[x].pc = "write" => save[x].draft \in Drafts
    BY DEF ServerInv, FileInv
  <2>3. \A x \in Saves : /\ save'[x].pc = "write" => save'[x].draft \in Drafts
                         /\ save'[x].linked => file' # Absent
    <3>1. TAKE x \in Saves
    <3>2. save'[x].pc = "write" => save[x].pc = "write"
      BY <2>1
    <3> QED
      BY <2>1, <2>2, <3>2
  <2> QED
    BY <1>1, <2>3 DEF FileInv
<1> QED
  BY <1>1, <1>2, <1>3, SaveFrame DEF UnlinkDraft

(***************************************************************************)
(* Runs, up to the first step.                                             *)
(***************************************************************************)
\* A request that writes no line
LEMMA QuietCall ==
    ASSUME ServerInv, NEW c \in Calls, call[c].pc # "answered",
           NEW change, call' = [call EXCEPT ![c] = change], CallsRest,
           call[c].pc \in {"steps", "tool"} =>
              change.rid = call[c].rid /\ change.pc \in {"steps", "tool", "answered"},
           UNCHANGED <<logVars, runs>>, faults' \in 0 .. MaxFaults, CallInv(c)'
    PROVE  ServerInv'
<1>1. /\ audit' = audit /\ wrote' = wrote /\ owes' = owes /\ runs' = runs
      /\ CallInv(c) /\ Shape /\ LogFile /\ DOMAIN call = Calls
  BY DEF ServerInv, Shape, logVars
<1>2. DOMAIN call' = Calls /\ call'[c] = change /\ \A d \in Calls \ {c} : call'[d] = call[d]
  BY <1>1
<1>3. LogFile'
  BY <1>1, <1>2, LogStays
<1>4. Logged(c)
  BY <1>1, <1>3, NoGrowth DEF Logged, Shape
<1> QED
  BY <1>1, <1>2, <1>4, OneCall

\* A request that is answered and writes neither log nor table
LEMMA QuietAnswer ==
    ASSUME ServerInv, NEW c \in Calls, call[c].pc # "answered", NEW code, Answer(c, code),
           CallsRest, UNCHANGED <<logVars, runs>>, faults' \in 0 .. MaxFaults, CallInv(c)'
    PROVE  ServerInv'
<1> DEFINE change == [call[c] EXCEPT !.pc = "answered", !.code = code, !.at = 0,
                                     !.agenda = <<>>, !.outputs = <<>>, !.results = <<>>]
<1>1. DOMAIN call[c] = Fields
  BY DEF ServerInv, CallInv, Served
<1>2. change.rid = call[c].rid /\ change.pc = "answered"
  BY <1>1 DEF Fields
<1>3. call' = [call EXCEPT ![c] = change]
  BY DEF Answer, Set
<1> HIDE DEF change
<1> QED
  BY <1>2, <1>3, QuietCall

\* A request is refused, or goes on to load the file.
LEMMA CreateRunKeeps == ASSUME ServerInv, NEW c \in Calls, create_run(c) PROVE ServerInv'
<1>1. /\ call[c].pc = "idle" /\ UNCHANGED <<logVars, runs, faults>> /\ CallsRest
      /\ CallInv(c) /\ DOMAIN call = Calls /\ faults' \in 0 .. MaxFaults /\ backend' = backend
  BY DEF create_run, ServerInv, Shape, CallsRest
<1>2. call[c].wf = None
  BY <1>1 DEF CallInv, Served
<1>n. /\ wrote'[c] = <<>> /\ wrote[c] = <<>> /\ c \notin owes' /\ Extends
      /\ Closed(Lines(c), Len(Lines(c)))
  BY <1>1, QuietLog, NoGrowth DEF logVars
<1>3. CASE file = Absent
  <2>1. Answer(c, "not found")
    BY <1>3 DEF create_run
  <2>2. CallInv(c)'
    BY <1>1, <1>2, <1>n, <2>1, AnswerKeeps DEF Codes
  <2> QED
    BY <1>1, <2>1, <2>2, QuietAnswer
<1>4. CASE file # Absent
  <2>1. PICK r \in RunIds \union {UnsafeId}, given \in InputSets :
          call' = [call EXCEPT ![c] = [NoCall EXCEPT !.pc = "load", !.rid = r, !.inputs = given]]
    BY <1>4 DEF create_run, Set
  <2>2. /\ DOMAIN call'[c] = Fields /\ call'[c].pc = "load" /\ call'[c].code = None
        /\ call'[c].agenda = <<>> /\ call'[c].order = <<>> /\ call'[c].at = 0
        /\ call'[c].wf = None /\ call'[c].rid = r
        /\ call'[c].outputs = <<>> /\ call'[c].results = <<>>
    BY <1>1, <2>1 DEF NoCall, Fields
  <2>3. Served(c)'
    BY <1>n, <2>2 DEF Served, CallPcs, Codes
  <2>4. wrote'[c] = <<>>
    BY <1>n
  <2>5. Lines(c)' = <<>> /\ WroteInv(c)'
    BY <2>4, NothingWritten DEF Lines, WroteInv
  <2>6. CallInv(c)'
    BY <2>2, <2>3, <2>4, <2>5, NoLines
       DEF CallInv, SortInv, SortedInv, RunInv, LogInv, FedInv
  <2> QED
    BY <1>1, <2>1, <2>6, QuietCall
<1> QED
  BY <1>3, <1>4

\* The file is loaded and the sort begins, or the request is refused.
LEMMA LoadWorkflowKeeps == ASSUME ServerInv, NEW c \in Calls, LoadWorkflow(c) PROVE ServerInv'
<1>1. /\ call[c].pc = "load" /\ UNCHANGED <<logVars, runs, faults>> /\ CallsRest
      /\ CallInv(c) /\ DOMAIN call = Calls /\ faults' \in 0 .. MaxFaults
      /\ backend' = backend /\ backend \in Backends
  BY DEF LoadWorkflow, ServerInv, Shape, CallsRest
<1>2. /\ call[c].wf = None /\ DOMAIN call[c] = Fields /\ call[c].code \in Codes
      /\ call[c].rid \in RunIds \union {UnsafeId} /\ call[c].order = <<>>
      /\ call[c].agenda \in Seq(Items) /\ call[c].at \in Nat
      /\ call[c].outputs = <<>> /\ call[c].results = <<>>
  BY <1>1 DEF CallInv, Served
<1>n. /\ wrote'[c] = <<>> /\ wrote[c] = <<>> /\ c \notin owes' /\ Extends
      /\ Closed(Lines(c), Len(Lines(c)))
  BY <1>1, QuietLog, NoGrowth DEF logVars
<1>3. ASSUME NEW code \in {"bad request", "unavailable"}, Answer(c, code) PROVE ServerInv'
  <2>1. CallInv(c)'
    BY <1>1, <1>2, <1>3, <1>n, AnswerKeeps DEF Codes
  <2> QED
    BY <1>1, <1>3, <2>1, QuietAnswer
<1>4. CASE ~Loads(file) \/ call[c].rid = UnsafeId
  BY <1>3, <1>4 DEF LoadWorkflow
<1>5. CASE Loads(file) /\ call[c].rid # UnsafeId
  <2> DEFINE steps == Text[file].steps
             begun == [call[c] EXCEPT !.wf = file, !.inputs = MergedInputs(file, @)]
  <2>1. file \in DOMAIN Text /\ call[c].rid \in RunIds /\ file # None
    BY <1>2, <1>5, ServerAssumption DEF Loads, ServerAssumption
  <2>2. /\ DOMAIN begun = Fields /\ begun.rid = call[c].rid /\ begun.wf = file /\ begun.order = <<>>
        /\ begun.agenda \in Seq(Items) /\ begun.at \in Nat /\ begun.code \in Codes
        /\ begun.outputs = <<>> /\ begun.results = <<>> /\ begun.code = call[c].code
    BY <1>2 DEF Fields
  <2>3. wrote'[c] = <<>> /\ c \notin owes' /\ call[c].code = None
    BY <1>1, <1>n DEF CallInv, Served
  <2>4. Lines(c)' = <<>> /\ WroteInv(c)'
    BY <2>3 DEF Lines, WroteInv
  <2>5. <<>> \in Seq(Names)
    OBVIOUS
  <2> HIDE DEF begun
  <2>6. CASE backend = "unconfigured"
    <3>1. Answer(c, "unavailable")
      BY <1>5, <2>6 DEF LoadWorkflow
    <3> QED
      BY <1>3, <3>1
  <2>7. CASE backend = "runner"
    <3>1. call' = [call EXCEPT ![c] = [begun EXCEPT !.pc = "runner"]]
      BY <1>5, <2>7 DEF LoadWorkflow, Set, begun
    <3>2. /\ DOMAIN call'[c] = Fields /\ call'[c].pc = "runner" /\ call'[c].rid = call[c].rid
          /\ call'[c].wf = file /\ call'[c].order = <<>> /\ call'[c].agenda \in Seq(Items)
          /\ call'[c].at \in Nat /\ call'[c].code \in Codes /\ call'[c].code = None
      BY <1>1, <2>2, <2>3, <3>1 DEF Fields
    <3>3. Served(c)'
      BY <1>1, <2>1, <2>3, <2>5, <2>7, <3>2 DEF Served, CallPcs
    <3>4. CallInv(c)'
      BY <2>3, <2>4, <3>2, <3>3, NoLines
         DEF CallInv, SortInv, SortedInv, RunInv, LogInv, FedInv
    <3> QED
      BY <1>1, <3>1, <3>4, QuietCall
  <2>8. CASE backend = "direct" /\ Duplicates(steps)
    <3>1. call' = [call EXCEPT ![c] = [begun EXCEPT !.pc = "answered", !.code = "error"]]
      BY <1>5, <2>8 DEF LoadWorkflow, Set, begun
    <3>2. /\ DOMAIN call'[c] = Fields /\ call'[c].pc = "answered" /\ call'[c].rid = call[c].rid
          /\ call'[c].wf = file /\ call'[c].order = <<>> /\ call'[c].agenda \in Seq(Items)
          /\ call'[c].at \in Nat /\ call'[c].code = "error"
      BY <1>1, <2>2, <3>1 DEF Fields
    <3>3. Served(c)'
      BY <1>1, <2>1, <2>3, <2>5, <2>8, <3>2 DEF Served, CallPcs, Codes
    <3>4. CallInv(c)'
      BY <2>3, <2>4, <2>8, <3>2, <3>3, NoLines
         DEF CallInv, SortInv, SortedInv, SortResult, RunInv, LogInv, FedInv
    <3> QED
      BY <1>1, <3>1, <3>4, QuietCall
  <2>9. CASE backend = "direct" /\ ~Duplicates(steps)
    <3>1. call' = [call EXCEPT ![c] = [begun EXCEPT !.pc = "sort", !.agenda = FirstVisits(steps)]]
      BY <1>5, <2>9 DEF LoadWorkflow, Set, begun
    <3>2. /\ DOMAIN call'[c] = Fields /\ call'[c].pc = "sort" /\ call'[c].rid = call[c].rid
          /\ call'[c].wf = file /\ call'[c].order = <<>> /\ call'[c].agenda = FirstVisits(steps)
          /\ call'[c].at \in Nat /\ call'[c].code \in Codes /\ call'[c].code = None
          /\ call'[c].outputs = <<>> /\ call'[c].results = <<>>
      BY <1>1, <2>2, <2>3, <3>1 DEF Fields
    <3>3. FirstVisits(steps) \in Seq(Items) /\ SortOK(file, FirstVisits(steps), <<>>)
      BY <2>1, FirstVisitsAre, SortBegins
    <3>4. Served(c)'
      BY <1>1, <2>1, <2>3, <2>5, <2>9, <3>2, <3>3 DEF Served, CallPcs
    <3>5. SortInv(c)'
      BY <2>9, <3>2, <3>3 DEF SortInv
    <3>6. CallInv(c)'
      BY <2>3, <2>4, <3>2, <3>4, <3>5, NoLines DEF CallInv, SortedInv, RunInv, LogInv, FedInv
    <3> QED
      BY <1>1, <3>1, <3>6, QuietCall
  <2> QED
    BY <1>1, <2>6, <2>7, <2>8, <2>9 DEF Backends
<1> QED
  BY <1>4, <1>5

\* The run cannot be set up.
LEMMA SetUpFailsKeeps == ASSUME ServerInv, NEW c \in Calls, SetUpFails(c) PROVE ServerInv'
<1>1. /\ call[c].pc = "load" /\ UNCHANGED <<logVars, runs>> /\ CallsRest /\ Answer(c, "broken")
      /\ CallInv(c) /\ DOMAIN call = Calls /\ backend' = backend
  BY DEF SetUpFails, ServerInv, Shape, CallsRest
<1>2. faults' \in 0 .. MaxFaults
  BY ServerAssumption DEF SetUpFails, ServerInv, Shape, ServerAssumption
<1>3. call[c].wf = None /\ wrote'[c] = wrote[c] /\ c \notin owes' /\ Extends
  BY <1>1, QuietLog, NoGrowth DEF CallInv, Served, logVars
<1>4. CallInv(c)'
  BY <1>1, <1>3, AnswerKeeps DEF Codes
<1> QED
  BY <1>1, <1>2, <1>4, QuietAnswer

\* A step of the sort that goes on
LEMMA SortMoves ==
    ASSUME ServerInv, NEW c \in Calls, call[c].pc = "sort", CallsRest,
           UNCHANGED <<logVars, runs, faults>>, NEW agenda \in Seq(Items), NEW order \in Seq(Names),
           call' = [call EXCEPT ![c] = [call[c] EXCEPT !.agenda = agenda, !.order = order]],
           SortOK(call[c].wf, agenda, order)
    PROVE  ServerInv'
<1>1. /\ DOMAIN call = Calls /\ DOMAIN call[c] = Fields /\ CallInv(c)
      /\ faults' \in 0 .. MaxFaults /\ backend' = backend
  BY DEF ServerInv, Shape, CallInv, Served, CallsRest
<1>2. /\ DOMAIN call'[c] = Fields /\ call'[c].pc = "sort" /\ call'[c].rid = call[c].rid
      /\ call'[c].wf = call[c].wf /\ call'[c].order = order /\ call'[c].agenda = agenda
      /\ call'[c].at = call[c].at /\ call'[c].code = call[c].code
      /\ call'[c].outputs = call[c].outputs /\ call'[c].results = call[c].results
  BY <1>1 DEF Fields
<1>5. wrote'[c] = <<>> /\ c \notin owes'
  BY <1>1, QuietLog DEF logVars
<1>3. Served(c)'
  BY <1>1, <1>2, <1>5 DEF CallInv, Served
<1>4. SortInv(c)'
  BY <1>1, <1>2 DEF CallInv, SortInv
<1>6. Lines(c)' = <<>> /\ WroteInv(c)'
  BY <1>5 DEF Lines, WroteInv
<1>7. CallInv(c)'
  BY <1>2, <1>3, <1>4, <1>5, <1>6, NoLines DEF CallInv, SortedInv, RunInv, LogInv, FedInv
<1> QED
  BY <1>1, <1>7, QuietCall

\* A visit of a step that is sorted, that cannot be, or that is entered
LEMMA VisitKeeps == ASSUME ServerInv, NEW c \in Calls, visit(c) PROVE ServerInv'
<1> DEFINE it == call[c]
           id == Head(it.agenda).id
           steps == Text[it.wf].steps
<1>1. /\ it.pc = "sort" /\ it.agenda # <<>> /\ Head(it.agenda).op = "visit"
      /\ UNCHANGED <<logVars, runs, faults>> /\ CallsRest
      /\ CallInv(c) /\ DOMAIN call = Calls /\ faults' \in 0 .. MaxFaults /\ backend' = backend
  BY DEF visit, ServerInv, Shape, CallsRest
<1>2. /\ it.wf \in DOMAIN Text /\ it.agenda \in Seq(Items) /\ it.order \in Seq(Names)
      /\ DOMAIN it = Fields /\ ~Duplicates(steps) /\ SortOK(it.wf, it.agenda, it.order)
  BY <1>1 DEF CallInv, Served, SortInv
<1>3. Tail(it.agenda) \in Seq(Items)
  BY <1>1, <1>2, TailIs
<1>n. wrote'[c] = wrote[c] /\ c \notin owes' /\ Extends /\ Closed(Lines(c), Len(Lines(c)))
  BY <1>1, QuietLog, NoGrowth DEF logVars
<1>d. CASE Cardinality(Visiting(it.agenda)) >= MaxDepth
  <2>1. Answer(c, "error")
    BY <1>d DEF visit
  <2>2. SortResult(it.wf, it.order, "error")
    BY <1>2, <1>d, VisitsFit DEF SortResult
  <2>3. CallInv(c)'
    BY <1>1, <1>n, <2>1, <2>2, AnswerKeeps DEF Codes
  <2> QED
    BY <1>1, <2>1, <2>3, QuietAnswer
<1> DEFINE fits == ~(Cardinality(Visiting(it.agenda)) >= MaxDepth)
<1>4. CASE fits /\ id \in ToSet(it.order)
  <2>1. call' = [call EXCEPT ![c] = [it EXCEPT !.agenda = Tail(it.agenda), !.order = it.order]]
    <3>1. call' = [call EXCEPT ![c] = [it EXCEPT !.agenda = Tail(@)]]
      BY <1>4 DEF visit, Set
    <3>2. [it EXCEPT !.agenda = Tail(@)] = [it EXCEPT !.agenda = Tail(it.agenda), !.order = it.order]
      BY <1>2 DEF Fields
    <3> QED
      BY <3>1, <3>2
  <2>2. SortOK(it.wf, Tail(it.agenda), it.order)
    BY <1>1, <1>2, <1>4, SortSkips
  <2> QED
    BY <1>1, <1>2, <1>3, <2>1, <2>2, SortMoves
<1>5. CASE fits /\ id \notin ToSet(it.order) /\ Unsortable(steps, it.agenda, id)
  <2>1. Answer(c, "error")
    BY <1>5 DEF visit
  <2>2. Orders(it.wf) = {}
    BY <1>1, <1>2, <1>5, SortFailsRightly
  <2>3. CallInv(c)'
    BY <1>1, <1>n, <2>1, <2>2, AnswerKeeps DEF Codes, SortResult
  <2> QED
    BY <1>1, <2>1, <2>3, QuietAnswer
<1>6. CASE fits /\ id \notin ToSet(it.order) /\ ~Unsortable(steps, it.agenda, id)
  <2> DEFINE new == Descend(steps, id) \o Tail(it.agenda)
  <2>1. call' = [call EXCEPT ![c] = [it EXCEPT !.agenda = new, !.order = it.order]]
    <3>1. call' = [call EXCEPT ![c] = [it EXCEPT !.agenda = Descend(steps, id) \o Tail(@)]]
      BY <1>6 DEF visit, Set
    <3>2. [it EXCEPT !.agenda = Descend(steps, id) \o Tail(@)] =
          [it EXCEPT !.agenda = new, !.order = it.order]
      BY <1>2 DEF Fields
    <3> QED
      BY <3>1, <3>2
  <2>2. id \in Ids(steps)
    BY <1>6 DEF Unsortable
  <2>3. Entered(it.wf, id, Tail(it.agenda), new)
    BY <1>2, <1>3, <2>2, DescendEnters
  <2> HIDE DEF new
  <2>4. SortOK(it.wf, new, it.order)
    BY <1>1, <1>2, <1>6, <2>3, SortEnters
  <2>5. new \in Seq(Items)
    BY <2>3 DEF Entered
  <2> QED
    BY <1>1, <1>2, <2>1, <2>4, <2>5, SortMoves
<1> QED
  BY <1>4, <1>5, <1>6, <1>d

\* A step whose needs are in the order is appended to it.
LEMMA LeaveKeeps == ASSUME ServerInv, NEW c \in Calls, Leave(c) PROVE ServerInv'
<1> DEFINE it == call[c]
           new == Append(it.order, Head(it.agenda).id)
<1>1. /\ it.pc = "sort" /\ it.agenda # <<>> /\ Head(it.agenda).op = "leave"
      /\ UNCHANGED <<logVars, runs, faults>> /\ CallsRest /\ CallInv(c)
  BY DEF Leave, ServerInv
<1>2. /\ it.wf \in DOMAIN Text /\ it.agenda \in Seq(Items) /\ it.order \in Seq(Names)
      /\ DOMAIN it = Fields /\ SortOK(it.wf, it.agenda, it.order)
  BY <1>1 DEF CallInv, Served, SortInv
<1>3. Tail(it.agenda) \in Seq(Items)
  BY <1>1, <1>2, TailIs
<1>4. new \in Seq(Names) /\ SortOK(it.wf, Tail(it.agenda), new)
  BY <1>1, <1>2, SortLeaves
<1>5. call' = [call EXCEPT ![c] = [it EXCEPT !.agenda = Tail(it.agenda), !.order = new]]
  <2>1. call' = [call EXCEPT ![c] = [it EXCEPT !.agenda = Tail(@), !.order = Append(@, Head(it.agenda).id)]]
    BY DEF Leave, Set
  <2>2. [it EXCEPT !.agenda = Tail(@), !.order = Append(@, Head(it.agenda).id)] =
        [it EXCEPT !.agenda = Tail(it.agenda), !.order = new]
    BY <1>2 DEF Fields
  <2> QED
    BY <2>1, <2>2
<1> QED
  BY <1>1, <1>3, <1>4, <1>5, SortMoves

\* Sorted, the run starts at its first step.
LEMMA SortedKeeps == ASSUME ServerInv, NEW c \in Calls, Sorted(c) PROVE ServerInv'
<1> DEFINE it == call[c]
<1>1. /\ it.pc = "sort" /\ it.agenda = <<>> /\ UNCHANGED <<logVars, runs, faults>> /\ CallsRest
      /\ CallInv(c) /\ DOMAIN call = Calls /\ faults' \in 0 .. MaxFaults /\ backend' = backend
      /\ call' = [call EXCEPT ![c] = [it EXCEPT !.pc = "steps", !.at = 1]]
  BY DEF Sorted, Set, ServerInv, Shape, CallsRest
<1>2. /\ it.wf \in DOMAIN Text /\ it.order \in Seq(Names) /\ it.rid \in RunIds
      /\ DOMAIN it = Fields /\ SortOK(it.wf, <<>>, it.order) /\ ~Duplicates(Text[it.wf].steps)
  BY <1>1 DEF CallInv, Served, SortInv
<1>3. /\ DOMAIN call'[c] = Fields /\ call'[c].pc = "steps" /\ call'[c].rid = it.rid
      /\ call'[c].wf = it.wf /\ call'[c].order = it.order /\ call'[c].agenda = <<>>
      /\ call'[c].at = 1 /\ call'[c].code = it.code
      /\ call'[c].results = it.results /\ call'[c].outputs = it.outputs
  BY <1>1, <1>2 DEF Fields
<1>4. it.order \in Orders(it.wf)
  BY <1>2, SortEnds
<1>5. Served(c)'
  <2>1. call'[c].agenda \in Seq(Items) /\ call'[c].at \in Nat
    BY <1>3
  <2>2. backend = "direct" /\ it.code \in Codes /\ it.code = None
    BY <1>1 DEF CallInv, Served
  <2> QED
    BY <1>1, <1>2, <1>3, <2>1, <2>2 DEF Served, CallPcs
<1>6. wrote'[c] = <<>>
  BY <1>1, QuietLog DEF logVars
<1>7. Lines(c)' = <<>> /\ WroteInv(c)'
  BY <1>6 DEF Lines, WroteInv
<1>8. SortInv(c)' /\ SortedInv(c)'
  BY <1>2, <1>3, <1>4 DEF SortInv, SortedInv
<1>9. RunInv(c)'
  <2>1. it.results = <<>> /\ it.outputs = <<>>
    BY <1>1 DEF CallInv, Served
  <2> QED
    BY <1>2, <1>3, <1>7, <2>1 DEF RunInv, ResultsOK, LinesOK
<1>10. LogInv(c)' /\ FedInv(c)'
  BY <1>3, <1>7, NoLines DEF LogInv, FedInv
<1>11. CallInv(c)'
  BY <1>5, <1>7, <1>8, <1>9, <1>10 DEF CallInv
<1> QED
  BY <1>1, <1>11, QuietCall

(***************************************************************************)
(* Runs, step by step.                                                     *)
(***************************************************************************)
\* A request's lines are lines of a log.
LEMMA LinesAre ==
    ASSUME NEW c \in Calls, Shape, WroteInv(c)
    PROVE  /\ Lines(c) \in Seq(LogLines) /\ Len(Lines(c)) = Len(wrote[c])
           /\ DOMAIN Lines(c) = DOMAIN wrote[c] /\ DOMAIN wrote[c] = 1 .. Len(wrote[c])
           /\ \A k \in DOMAIN wrote[c] :
                 Lines(c)[k] = [step |-> audit[call[c].rid][wrote[c][k]].step,
                                what |-> audit[call[c].rid][wrote[c][k]].what]
<1> DEFINE n == Len(wrote[c])
<1>1. wrote[c] \in Seq(Nat) /\ n \in Nat /\ DOMAIN wrote[c] = 1 .. n
  BY DEF Shape
<1>2. \A k \in DOMAIN wrote[c] : Lines(c)[k] \in LogLines
  BY DEF Lines, LogLines, WroteInv
<1>3. Lines(c) = [k \in 1 .. n |-> Lines(c)[k]]
  BY <1>1 DEF Lines
<1>4. Lines(c) \in [1 .. n -> LogLines]
  BY <1>1, <1>2, <1>3
<1> HIDE DEF n
<1>5. Lines(c) \in Seq(LogLines) /\ Len(Lines(c)) = n
  BY <1>1, <1>4
<1> QED
  BY <1>1, <1>5 DEF n, Lines

\* What is known of a run at a step
LEMMA AtStep ==
    ASSUME ServerInv, NEW c \in Calls, call[c].pc \in {"steps", "tool"}
    PROVE  LET it == call[c]  log == Lines(c) IN
           /\ DOMAIN call = Calls /\ DOMAIN it = Fields /\ CallInv(c)
           /\ it.wf \in DOMAIN Text /\ it.rid \in RunIds /\ backend = "direct"
           /\ it.order \in Orders(it.wf) /\ it.order \in Seq(Names) /\ it.at \in Nat \ {0}
           /\ ~Duplicates(Text[it.wf].steps)
           /\ it.pc = "tool" => it.at <= Len(it.order)
           /\ log \in Seq(LogLines)
           /\ ResultsOK(it, log) /\ LinesOK(it, log) /\ Fed(it.wf, log)
           /\ Closed(log, IF it.pc = "tool" THEN Len(log) - 1 ELSE Len(log))
<1> DEFINE it == call[c]
           log == Lines(c)
<1>1. DOMAIN call = Calls /\ CallInv(c) /\ Shape
  BY DEF ServerInv, Shape
<1>2. /\ DOMAIN it = Fields /\ it.wf \in DOMAIN Text /\ it.rid \in RunIds /\ backend = "direct"
      /\ it.order \in Seq(Names) /\ it.at \in Nat
  BY <1>1 DEF CallInv, Served
<1>3. it.order \in Orders(it.wf) /\ ~Duplicates(Text[it.wf].steps)
  BY <1>1 DEF CallInv, SortedInv
<1>4. ResultsOK(it, log) /\ LinesOK(it, log)
  BY <1>1 DEF CallInv, RunInv
<1>5. log \in Seq(LogLines)
  BY <1>1, LinesAre DEF CallInv
<1>6. Fed(it.wf, log) /\ Closed(log, IF it.pc = "tool" THEN Len(log) - 1 ELSE Len(log))
  BY <1>1, <1>5 DEF CallInv, FedInv, LogInv
<1>7. it.at \in Nat \ {0} /\ (it.pc = "tool" => it.at <= Len(it.order))
  BY <1>2, <1>4 DEF ResultsOK
<1> QED
  BY <1>1, <1>2, <1>3, <1>4, <1>5, <1>6, <1>7

\* The current step is the one the order names.
LEMMA CurrentIs ==
    ASSUME ServerInv, NEW c \in Calls, call[c].pc \in {"steps", "tool"},
           call[c].at <= Len(call[c].order)
    PROVE  /\ Current(c) = StepOf(call[c].wf, call[c].order[call[c].at])
           /\ Current(c).id = call[c].order[call[c].at] /\ IsList(Current(c).with)
<1> DEFINE w == call[c].wf
           id == call[c].order[call[c].at]
<1>1. w \in DOMAIN Text /\ id \in Ids(Text[w].steps)
  BY AtStep, CurrentIsNew
<1>2. Current(c) = StepOf(w, id)
  BY DEF Current
<1>3. PICK i \in DOMAIN Text[w].steps : StepOf(w, id) = Text[w].steps[i] /\ StepOf(w, id).id = id
  BY <1>1, ByIdFinds
<1>4. IsList(Text[w].steps[i].with)
  BY <1>1, ServerAssumption DEF ServerAssumption
<1> QED
  BY <1>2, <1>3, <1>4

\* A line goes to the file, and is the request's last.
LEMMA EmitIs ==
    ASSUME ServerInv, NEW c \in Calls, call[c].pc \in {"steps", "tool"}, Emitted(c),
           NEW id \in Names, NEW what \in Events, Emit(c, id, what),
           \A d \in Calls \ {c} : call'[d] = call[d],
           call'[c].rid = call[c].rid, call'[c].pc \in {"steps", "tool"}
    PROVE  /\ Lines(c)' = Append(Lines(c), [step |-> id, what |-> what])
           /\ WroteInv(c)' /\ Logged(c)
<1>1. CallInv(c) /\ Shape /\ LogFile /\ call[c].rid \in RunIds /\ c \notin owes
  BY AtStep DEF ServerInv, Emitted
<1>2. PICK q \in RunIds : q = call[c].rid
  BY <1>1
<1>3. audit[q] \in Seq(FileLines) /\ wrote[c] \in Seq(Nat)
  BY <1>1 DEF Shape
<1>4. PICK n \in Nat : n = Len(audit[q])
  BY <1>3
<1>5. PICK m \in Nat : m = Len(wrote[c])
  BY <1>3
<1>6. PICK long \in BOOLEAN :
        /\ audit' = [audit EXCEPT ![q] = Append(audit[q], [by |-> c, step |-> id, what |-> what, ended |-> ~long])]
        /\ wrote' = [wrote EXCEPT ![c] = Append(wrote[c], n + 1)]
        /\ owes' = IF long THEN owes \union {c} ELSE owes
  BY <1>2, <1>4 DEF Emit, Write
<1> DEFINE line == [by |-> c, step |-> id, what |-> what, ended |-> ~long]
<1>7. line \in FileLines /\ line.by = c /\ line.what = what /\ line.step = id /\ line.ended = ~long
  BY DEF FileLines
<1>8. audit' = [audit EXCEPT ![call[c].rid] = Append(audit[call[c].rid], line)]
  BY <1>2, <1>6
<1> HIDE DEF line
<1>9. /\ wrote'[c] = Append(wrote[c], n + 1) /\ wrote' \in [Calls -> Seq(Nat)]
      /\ \A d \in Calls \ {c} : wrote'[d] = wrote[d]
  <2>1. wrote \in [Calls -> Seq(Nat)] /\ Append(wrote[c], n + 1) \in Seq(Nat)
    BY <1>1, <1>3 DEF Shape
  <2> HIDE DEF line
  <2> QED
    BY <1>6, <2>1
<1>10. /\ DOMAIN wrote[c] = 1 .. m /\ DOMAIN wrote'[c] = 1 .. m + 1
       /\ \A k \in 1 .. m : wrote'[c][k] = wrote[c][k]
       /\ wrote'[c][m + 1] = n + 1
  BY <1>3, <1>5, <1>9
<1>11. /\ \A i \in ToSet(wrote[c]) : i \in ToSet(wrote'[c])
       /\ n + 1 \in ToSet(wrote'[c])
  <2>1. 1 .. m \subseteq 1 .. m + 1 /\ m + 1 \in 1 .. m + 1
    BY <1>5
  <2> QED
    BY <1>10, <2>1 DEF ToSet
<1>12. LogFile' /\ audit' \in [RunIds -> Seq(FileLines)] /\ Extends /\ Adds(c)
  <2>1. line.what # "part" /\ (line.ended \/ c \in owes')
    BY <1>6, <1>7 DEF Events, Ends
  <2>2. Len(audit[call[c].rid]) + 1 \in ToSet(wrote'[c])
    BY <1>2, <1>4, <1>11
  <2>3. \A d \in Calls \ {c} : call'[d] = call[d] /\ wrote'[d] = wrote[d] /\ (d \in owes => d \in owes')
    BY <1>6, <1>9
  <2>4. call'[c].pc \in {"steps", "tool", "answered"}
    OBVIOUS
  <2> QED
    BY <1>1, <1>7, <1>8, <1>11, <2>1, <2>2, <2>3, <2>4, LogGrows
<1>13. Logged(c)
  <2>1. owes' \subseteq Calls /\ \A d \in Calls \ {c} : d \in owes' => d \in owes
    BY <1>1, <1>6 DEF Shape
  <2> QED
    BY <1>9, <1>12, <2>1 DEF Logged
<1>14. /\ DOMAIN audit[q] = 1 .. n /\ DOMAIN audit'[q] = 1 .. n + 1 /\ audit'[q][n + 1] = line
       /\ \A i \in 1 .. n : audit'[q][i] = audit[q][i]
  <2>1. audit'[q] = Append(audit[q], line)
    BY <1>1, <1>2, <1>8 DEF Shape
  <2> QED
    BY <1>3, <1>4, <1>7, <2>1
<1>15. \A k \in 1 .. m : /\ wrote[c][k] \in 1 .. n /\ audit[q][wrote[c][k]].by = c
                         /\ audit[q][wrote[c][k]].step \in Names /\ audit[q][wrote[c][k]].what \in Events
                         /\ \A j \in 1 .. m : j < k => wrote[c][j] < wrote[c][k]
  BY <1>1, <1>2, <1>10, <1>14 DEF CallInv, WroteInv
<1>16. WroteInv(c)'
  <2>1. SUFFICES ASSUME NEW k \in 1 .. m + 1
                 PROVE  /\ wrote'[c][k] \in 1 .. n + 1 /\ audit'[q][wrote'[c][k]].by = c
                        /\ audit'[q][wrote'[c][k]].step \in Names /\ audit'[q][wrote'[c][k]].what \in Events
                        /\ \A j \in 1 .. m + 1 : j < k => wrote'[c][j] < wrote'[c][k]
    BY <1>2, <1>10, <1>14 DEF WroteInv
  <2>2. CASE k = m + 1
    <3>1. n + 1 \in 1 .. n + 1
      BY <1>4
    <3>2. ASSUME NEW j \in 1 .. m + 1, j < k PROVE wrote'[c][j] < n + 1
      <4>1. j \in 1 .. m
        BY <1>5, <2>2, <3>2
      <4>2. wrote'[c][j] \in 1 .. n
        BY <1>10, <1>15, <4>1
      <4> QED
        BY <1>4, <4>2
    <3> QED
      BY <1>7, <1>10, <1>14, <2>2, <3>1, <3>2
  <2>3. CASE k \in 1 .. m
    <3>1. wrote'[c][k] = wrote[c][k] /\ wrote[c][k] \in 1 .. n /\ wrote[c][k] \in 1 .. n + 1
      BY <1>4, <1>10, <1>15, <2>3
    <3>2. ASSUME NEW j \in 1 .. m + 1, j < k PROVE wrote'[c][j] < wrote'[c][k]
      <4>1. j \in 1 .. m
        BY <1>5, <2>3, <3>2
      <4> QED
        BY <1>10, <1>15, <2>3, <3>1, <3>2, <4>1
    <3> QED
      BY <1>14, <1>15, <2>3, <3>1, <3>2
  <2> QED
    BY <1>5, <2>1, <2>2, <2>3
<1>17. Lines(c)' = Append(Lines(c), [step |-> id, what |-> what])
  <2>1. /\ Lines(c) \in Seq(LogLines) /\ Len(Lines(c)) = m /\ DOMAIN Lines(c) = 1 .. m
        /\ \A k \in 1 .. m : Lines(c)[k] = [step |-> audit[q][wrote[c][k]].step,
                                          what |-> audit[q][wrote[c][k]].what]
    BY <1>1, <1>2, <1>5, <1>10, LinesAre DEF CallInv
  <2>2. Lines(c)' = [k \in 1 .. m + 1 |-> [step |-> audit'[q][wrote'[c][k]].step,
                                           what |-> audit'[q][wrote'[c][k]].what]]
    BY <1>2, <1>10 DEF Lines
  <2>3. \A k \in 1 .. m : audit'[q][wrote'[c][k]] = audit[q][wrote[c][k]]
    BY <1>10, <1>14, <1>15
  <2>4. audit'[q][wrote'[c][m + 1]] = line
    BY <1>10, <1>14
  <2> DEFINE e == [step |-> id, what |-> what]
             new == [k \in 1 .. m + 1 |-> IF k = m + 1 THEN e ELSE Lines(c)[k]]
  <2>5. \A k \in 1 .. m + 1 : [step |-> audit'[q][wrote'[c][k]].step,
                               what |-> audit'[q][wrote'[c][k]].what] = new[k]
    <3>1. TAKE k \in 1 .. m + 1
    <3>2. CASE k = m + 1
      BY <1>7, <2>4, <3>2
    <3>3. CASE k \in 1 .. m
      <4>1. k # m + 1
        BY <1>5, <3>3
      <4> QED
        BY <2>1, <2>3, <3>3, <4>1
    <3> QED
      BY <1>5, <3>2, <3>3
  <2>6. Lines(c)' = new
    BY <2>2, <2>5
  <2>7. e \in LogLines
    BY DEF LogLines
  <2>8. Append(Lines(c), e) = new
    <3> DEFINE s == Lines(c)
    <3>1. s \in Seq(LogLines) /\ Len(s) = m
      BY <2>1
    <3> HIDE DEF s, e
    <3>2. /\ Append(s, e) \in Seq(LogLines) /\ DOMAIN Append(s, e) = 1 .. m + 1
          /\ \A i \in 1 .. m : Append(s, e)[i] = s[i]
          /\ Append(s, e)[m + 1] = e
      BY <2>7, <3>1, AppendIs
    <3>3. Append(s, e) = [i \in 1 .. m + 1 |-> Append(s, e)[i]]
      <4> DEFINE t == Append(s, e)
      <4>1. t \in Seq(LogLines) /\ DOMAIN t = 1 .. m + 1
        BY <3>2
      <4> HIDE DEF t
      <4>2. t = [i \in 1 .. m + 1 |-> t[i]]
        BY <4>1
      <4> QED
        BY <4>2 DEF t
    <3>4. ASSUME NEW i \in 1 .. m + 1 PROVE Append(s, e)[i] = IF i = m + 1 THEN e ELSE s[i]
      BY <1>5, <3>2
    <3> QED
      BY <3>3, <3>4 DEF s
  <2> QED
    BY <2>6, <2>8
<1> QED
  BY <1>13, <1>16, <1>17

\* The request after its line
LEMMA LineKeeps ==
    ASSUME ServerInv, NEW c \in Calls, call[c].pc \in {"steps", "tool"}, NEW new,
           call' = [call EXCEPT ![c] = new], DOMAIN new = Fields, new.pc \in {"steps", "tool"},
           new.order = call[c].order, new.rid = call[c].rid, new.wf = call[c].wf,
           new.code = call[c].code, new.agenda = call[c].agenda, new.at \in Nat,
           backend' = backend, NEW log, Lines(c)' = log, WroteInv(c)',
           ResultsOK(new, log), LinesOK(new, log), Fed(call[c].wf, log),
           Closed(log, IF new.pc = "tool" THEN Len(log) - 1 ELSE Len(log))
    PROVE  CallInv(c)'
<1>1. /\ DOMAIN call = Calls /\ CallInv(c) /\ call[c].rid \in RunIds /\ backend = "direct"
      /\ call[c].order \in Orders(call[c].wf) /\ ~Duplicates(Text[call[c].wf].steps)
  BY AtStep
<1>2. call'[c] = new
  BY <1>1
<1>4. Served(c)'
  BY <1>1, <1>2 DEF CallInv, Served, CallPcs
<1>5. SortInv(c)' /\ SortedInv(c)'
  BY <1>1, <1>2 DEF SortInv, SortedInv
<1>6. RunInv(c)'
  BY <1>2 DEF RunInv
<1>7. LogInv(c)'
  BY <1>2 DEF LogInv
<1>8. FedInv(c)'
  BY <1>2 DEF FedInv
<1> QED
  BY <1>4, <1>5, <1>6, <1>7, <1>8 DEF CallInv

\* A step that ends, by whatever path, is in the log and in the results.
LEMMA StepEnds ==
    ASSUME ServerInv, NEW c \in Calls, call[c].pc \in {"steps", "tool"},
           call[c].at <= Len(call[c].order), NEW what \in Ends,
           call[c].pc = "tool" => what # "skipped", Emitted(c),
           Emit(c, call[c].order[call[c].at], what),
           NEW new, call' = [call EXCEPT ![c] = new], DOMAIN new = Fields, new.pc = "steps",
           new.order = call[c].order, new.rid = call[c].rid, new.wf = call[c].wf,
           new.code = call[c].code, new.agenda = call[c].agenda, new.at = call[c].at + 1,
           new.results = Put(call[c].results, call[c].order[call[c].at], what),
           \/ new.outputs = call[c].outputs
           \/ /\ what = "done"
              /\ \E out : new.outputs = Put(call[c].outputs, call[c].order[call[c].at], out),
           UNCHANGED <<runs, faults>>, CallsRest
    PROVE  ServerInv'
<1> DEFINE it == call[c]
           log == Lines(c)
           line == [step |-> it.order[it.at], what |-> what]
           longer == Append(log, line)
<1>1. /\ it.wf \in DOMAIN Text /\ it.order \in Orders(it.wf) /\ it.order \in Seq(Names)
      /\ it.at \in Nat \ {0} /\ log \in Seq(LogLines) /\ DOMAIN call = Calls
      /\ ResultsOK(it, log) /\ LinesOK(it, log) /\ Fed(it.wf, log)
      /\ Closed(log, IF it.pc = "tool" THEN Len(log) - 1 ELSE Len(log))
  BY AtStep
<1>2. /\ longer \in Seq(LogLines) /\ ResultsOK(new, longer) /\ LinesOK(new, longer)
      /\ Closed(longer, Len(longer)) /\ Fed(it.wf, longer)
  <2>1. Ending(it.wf, it, log, what, line, longer, new)
    BY <1>1 DEF Ending
  <2> HIDE DEF it, log, longer, line
  <2> QED
    BY <2>1, EndLine
<1>c. call'[c] = new /\ DOMAIN call' = Calls /\ \A d \in Calls \ {c} : call'[d] = call[d]
  BY <1>1
<1>3. Lines(c)' = longer /\ WroteInv(c)' /\ Logged(c)
  <2>1. it.order[it.at] \in Names /\ what \in Events
    BY <1>1, CurrentIsNew DEF Events
  <2>2. call'[c].rid = call[c].rid /\ call'[c].pc \in {"steps", "tool"}
    BY <1>c
  <2> QED
    BY <1>c, <2>1, <2>2, EmitIs
<1>4. backend' = backend /\ faults' \in 0 .. MaxFaults /\ new.at \in Nat
  BY <1>1 DEF CallsRest, ServerInv, Shape
<1> HIDE DEF longer
<1>5. CallInv(c)'
  BY <1>2, <1>3, <1>4, LineKeeps
<1> QED
  BY <1>3, <1>4, <1>5, <1>c, OneCall

\* A step is skipped, fails, starts its tool or raises out of the run.
LEMMA BeginStepKeeps == ASSUME ServerInv, NEW c \in Calls, BeginStep(c) PROVE ServerInv'
<1> DEFINE it == call[c]
           id == it.order[it.at]
           what == BeforeTool(Current(c), it.inputs, it.outputs)
<1>1. /\ it.pc = "steps" /\ it.at <= Len(it.order) /\ UNCHANGED <<runs, faults>> /\ CallsRest
      /\ Emitted(c)
  BY DEF BeginStep
<1>2. /\ DOMAIN call = Calls /\ DOMAIN it = Fields /\ CallInv(c) /\ it.wf \in DOMAIN Text
      /\ it.order \in Orders(it.wf) /\ it.order \in Seq(Names) /\ it.at \in Nat \ {0}
      /\ ~Duplicates(Text[it.wf].steps)
  BY <1>1, AtStep
<1>3. Current(c).id = id /\ Current(c) = StepOf(it.wf, id) /\ IsList(Current(c).with)
  BY <1>1, CurrentIs
<1>4. backend' = backend /\ faults' \in 0 .. MaxFaults
  BY <1>1 DEF CallsRest, ServerInv, Shape
<1>5. /\ what \in {"error", "raises", "skipped", "starts"}
      /\ what = "starts" => \A ref \in ToSet(Current(c).with) \union {Current(c).when} :
                               ref.root = "steps" => ref.name \in DOMAIN it.outputs
  BY <1>3, ToolIsFed
<1>6. CASE what = "raises"
  <2>1. /\ Answer(c, "error") /\ UNCHANGED logVars
        /\ wrote'[c] = wrote[c] /\ c \notin owes' /\ Extends
    BY <1>1, <1>6, NoGrowth DEF BeginStep, logVars, Emitted
  <2>2. Closed(Lines(c), Len(Lines(c)))
    BY <1>1, AtStep
  <2>3. CallInv(c)'
    BY <1>2, <1>4, <2>1, <2>2, AnswerKeeps DEF Codes, SortResult
  <2> QED
    BY <1>1, <1>4, <2>1, <2>3, QuietAnswer
<1>7. CASE what = "starts"
  <2> DEFINE log == Lines(c)
             line == [step |-> id, what |-> "start"]
             longer == Append(log, line)
             new == [it EXCEPT !.pc = "tool"]
  <2>1. Emit(c, id, "start") /\ call' = [call EXCEPT ![c] = new]
    BY <1>3, <1>7 DEF BeginStep, Set
  <2>2. /\ log \in Seq(LogLines) /\ ResultsOK(it, log) /\ LinesOK(it, log) /\ Fed(it.wf, log)
        /\ Closed(log, Len(log))
    BY <1>1, AtStep
  <2>3. \A ref \in ToSet(StepOf(it.wf, id).with) \union {StepOf(it.wf, id).when} :
           ref.root = "steps" => ref.name \in DOMAIN it.outputs
    BY <1>3, <1>5, <1>7
  <2>4. /\ longer \in Seq(LogLines) /\ ResultsOK(new, longer) /\ LinesOK(new, longer)
        /\ Closed(longer, Len(longer) - 1) /\ Fed(it.wf, longer)
    <3>1. Starting(it.wf, it, log, line, longer, new)
      BY <1>1, <1>2, <2>2, <2>3 DEF Starting
    <3> HIDE DEF it, log, longer, line, new
    <3> QED
      BY <3>1, StartLine
  <2>c. call'[c] = new /\ DOMAIN call' = Calls /\ \A d \in Calls \ {c} : call'[d] = call[d]
    BY <1>2, <2>1
  <2>5. Lines(c)' = longer /\ WroteInv(c)' /\ Logged(c)
    <3>1. id \in Names /\ "start" \in Events
      BY <1>1, <1>2, CurrentIsNew DEF Events
    <3>2. call'[c].rid = call[c].rid /\ call'[c].pc \in {"steps", "tool"}
      BY <1>2, <2>c DEF Fields
    <3> QED
      BY <1>1, <2>1, <2>c, <3>1, <3>2, EmitIs
  <2>6. /\ DOMAIN new = Fields /\ new.pc = "tool" /\ new.order = it.order /\ new.rid = it.rid
        /\ new.wf = it.wf /\ new.code = it.code /\ new.agenda = it.agenda /\ new.at \in Nat
    BY <1>2 DEF Fields
  <2> HIDE DEF longer, new
  <2>7. CallInv(c)'
    BY <1>1, <1>4, <2>1, <2>4, <2>5, <2>6, LineKeeps
  <2> QED
    BY <1>1, <1>4, <2>1, <2>5, <2>7, <2>c, OneCall
<1>8. CASE what \in {"error", "skipped"}
  <2> DEFINE new == [it EXCEPT !.pc = "steps", !.at = @ + 1, !.results = Put(@, id, what)]
  <2>1. EndStep(c, id, what)
    BY <1>3, <1>8 DEF BeginStep
  <2>2. Emit(c, id, what) /\ call' = [call EXCEPT ![c] = new]
    BY <2>1 DEF EndStep, Set
  <2>3. /\ DOMAIN new = Fields /\ new.pc = "steps" /\ new.order = it.order /\ new.rid = it.rid
        /\ new.wf = it.wf /\ new.code = it.code /\ new.agenda = it.agenda /\ new.at = it.at + 1
        /\ new.results = Put(it.results, id, what) /\ new.outputs = it.outputs
    BY <1>2 DEF Fields
  <2>4. what \in Ends
    BY <1>8 DEF Ends
  <2> HIDE DEF new, what
  <2> QED
    BY <1>1, <2>2, <2>3, <2>4, StepEnds
<1> QED
  BY <1>5, <1>6, <1>7, <1>8

\* A tool's output is kept under its step.
LEMMA ToolReturnsKeeps == ASSUME ServerInv, NEW c \in Calls, ToolReturns(c) PROVE ServerInv'
<1> DEFINE it == call[c]
           id == it.order[it.at]
<1>1. it.pc = "tool" /\ UNCHANGED <<runs, faults>> /\ CallsRest /\ Emitted(c)
  BY DEF ToolReturns
<1>2. it.at <= Len(it.order) /\ DOMAIN it = Fields
  BY <1>1, AtStep
<1>3. Current(c).id = id
  BY <1>1, <1>2, CurrentIs
<1>4. PICK out \in Outcomes[Current(c).uses] \ {"raise"} :
        /\ Emit(c, id, "done")
        /\ call' = [call EXCEPT ![c] = [it EXCEPT !.pc = "steps", !.at = @ + 1,
                                                  !.outputs = Put(@, id, out),
                                                  !.results = Put(@, id, "done")]]
  BY <1>3 DEF ToolReturns, Set
<1> DEFINE new == [it EXCEPT !.pc = "steps", !.at = @ + 1, !.outputs = Put(@, id, out),
                             !.results = Put(@, id, "done")]
<1>5. /\ DOMAIN new = Fields /\ new.pc = "steps" /\ new.order = it.order /\ new.rid = it.rid
      /\ new.wf = it.wf /\ new.code = it.code /\ new.agenda = it.agenda /\ new.at = it.at + 1
      /\ new.results = Put(it.results, id, "done") /\ new.outputs = Put(it.outputs, id, out)
  BY <1>2 DEF Fields
<1>6. Emit(c, id, "done") /\ call' = [call EXCEPT ![c] = new]
  BY <1>4
<1>7. /\ "done" \in Ends /\ "done" # "skipped"
      /\ "done" = "done" /\ \E o : new.outputs = Put(it.outputs, id, o)
  BY <1>5 DEF Ends
<1> HIDE DEF new
<1> QED
  BY <1>1, <1>2, <1>5, <1>6, <1>7, StepEnds

\* A tool that raises leaves an error and no output.
LEMMA ToolRaisesKeeps == ASSUME ServerInv, NEW c \in Calls, ToolRaises(c) PROVE ServerInv'
<1> DEFINE it == call[c]
           id == it.order[it.at]
           new == [it EXCEPT !.pc = "steps", !.at = @ + 1, !.results = Put(@, id, "error")]
<1>1. it.pc = "tool" /\ UNCHANGED <<runs, faults>> /\ CallsRest /\ Emitted(c)
  BY DEF ToolRaises
<1>2. it.at <= Len(it.order) /\ DOMAIN it = Fields
  BY <1>1, AtStep
<1>3. Current(c).id = id
  BY <1>1, <1>2, CurrentIs
<1>4. Emit(c, id, "error") /\ call' = [call EXCEPT ![c] = new]
  BY <1>3 DEF ToolRaises, EndStep, Set
<1>5. /\ DOMAIN new = Fields /\ new.pc = "steps" /\ new.order = it.order /\ new.rid = it.rid
      /\ new.wf = it.wf /\ new.code = it.code /\ new.agenda = it.agenda /\ new.at = it.at + 1
      /\ new.results = Put(it.results, id, "error") /\ new.outputs = it.outputs
  BY <1>2 DEF Fields
<1>6. "error" \in Ends /\ "error" # "skipped"
  BY DEF Ends
<1> HIDE DEF new
<1> QED
  BY <1>1, <1>2, <1>4, <1>5, <1>6, StepEnds

\* A newline that comes late
LEMMA NewLineKeeps == ASSUME ServerInv, NEW c \in Calls, NewLine(c) PROVE ServerInv'
<1> DEFINE line == [by |-> c, step |-> None, what |-> "newline", ended |-> TRUE]
<1>1. /\ c \in owes /\ owes' = owes \ {c} /\ call' = call /\ wrote' = wrote /\ runs' = runs
      /\ faults' = faults /\ CallsRest /\ backend' = backend
      /\ audit' = [audit EXCEPT ![call[c].rid] = Append(audit[call[c].rid], line)]
  BY DEF NewLine, Write, CallsRest
<1>2. /\ CallInv(c) /\ Shape /\ LogFile /\ DOMAIN call = Calls /\ faults \in 0 .. MaxFaults
      /\ wrote \in [Calls -> Seq(Nat)] /\ owes \subseteq Calls
  BY DEF ServerInv, Shape
<1>3. call[c].pc \in {"steps", "tool"}
  BY <1>1, <1>2 DEF CallInv, Served
<1>4. line \in FileLines /\ line.by = c /\ line.what = "newline" /\ line.ended
  BY DEF FileLines
<1> HIDE DEF line
<1>5. "newline" \notin Events /\ "newline" # "part"
  BY DEF Events, Ends
<1>6. LogFile' /\ audit' \in [RunIds -> Seq(FileLines)] /\ Extends /\ Adds(c)
  <2>1. \A d \in Calls \ {c} : call'[d] = call[d] /\ wrote'[d] = wrote[d] /\ (d \in owes => d \in owes')
    BY <1>1
  <2>2. /\ call'[c].rid = call[c].rid /\ call'[c].pc \in {"steps", "tool", "answered"}
        /\ \A i \in ToSet(wrote[c]) : i \in ToSet(wrote'[c])
    BY <1>1, <1>3
  <2> QED
    BY <1>1, <1>2, <1>3, <1>4, <1>5, <2>1, <2>2, LogGrows
<1>7. Logged(c)
  BY <1>1, <1>2, <1>6 DEF Logged
<1>8. CallInv(c)'
  BY <1>1, <1>2, <1>6, CallFrame
<1> QED
  BY <1>1, <1>2, <1>3, <1>7, <1>8, OneCall

\* A line that cannot be written, or only in part, ends the request.
LEMMA EmitFailsKeeps == ASSUME ServerInv, NEW c \in Calls, EmitFails(c) PROVE ServerInv'
<1>1. /\ Answer(c, "broken") /\ runs' = runs /\ wrote' = wrote /\ owes' = owes \ {c}
      /\ CallsRest /\ faults < MaxFaults /\ faults' = faults + 1 /\ backend' = backend
  BY DEF EmitFails, CallsRest
<1>2. CallInv(c) /\ Shape /\ LogFile /\ wrote \in [Calls -> Seq(Nat)] /\ owes \subseteq Calls
  BY DEF ServerInv, Shape
<1>3. call[c].pc \in {"steps", "tool"}
  BY <1>2 DEF EmitFails, CallInv, Served
<1>4. /\ DOMAIN call = Calls /\ DOMAIN call[c] = Fields /\ call[c].order \in Orders(call[c].wf)
      /\ ~Duplicates(Text[call[c].wf].steps)
  BY <1>3, AtStep
<1>5. faults' \in 0 .. MaxFaults
  BY <1>1, ServerAssumption DEF ServerInv, Shape, ServerAssumption
<1>6. /\ DOMAIN call' = Calls /\ \A d \in Calls \ {c} : call'[d] = call[d]
      /\ call'[c].rid = call[c].rid /\ call'[c].pc = "answered" /\ call'[c].code = "broken"
  BY <1>1, <1>4 DEF Answer, Set, Fields
<1>7. \A d \in Calls \ {c} : wrote'[d] = wrote[d] /\ (d \in owes <=> d \in owes')
  BY <1>1
<1>8. LogFile' /\ audit' \in [RunIds -> Seq(FileLines)] /\ Extends /\ Adds(c)
  <2>1. CASE audit' = audit
    <3>1. LogFile'
      BY <1>1, <1>2, <1>3, <1>6, <1>7, <2>1, LogStays
    <3> QED
      BY <1>2, <2>1, <3>1, NoGrowth DEF Shape
  <2>2. CASE audit' # audit
    <3>1. /\ Emitted(c) /\ (call[c].pc = "tool" \/ (call[c].at <= Len(call[c].order) /\ Pending(c) # {"raises"}))
          /\ \E what \in {"part"} \union Pending(c) : Write(c, Current(c).id, what, FALSE)
      BY <2>2 DEF EmitFails
    <3>2. PICK what \in {"part"} \union Pending(c) : Write(c, Current(c).id, what, FALSE)
      BY <3>1
    <3>3. call[c].at <= Len(call[c].order) /\ call[c].at \in Nat \ {0} /\ call[c].wf \in DOMAIN Text
          /\ call[c].order \in Seq(Names)
      BY <1>3, <3>1, AtStep
    <3>4. Current(c).id \in Names /\ IsList(Current(c).with)
      BY <1>3, <1>4, <3>3, CurrentIs, CurrentIsNew
    <3>5. BeforeTool(Current(c), call[c].inputs, call[c].outputs) \in {"error", "raises", "skipped", "starts"}
      BY <3>4, ToolIsFed
    <3>6. what \in Events \union {"newline", "part"}
      BY <1>3, <3>1, <3>2, <3>5 DEF Pending, Events, Ends
    <3> DEFINE line == [by |-> c, step |-> Current(c).id, what |-> what, ended |-> FALSE]
    <3>7. line \in FileLines /\ line.by = c
      BY <3>4, <3>6 DEF FileLines
    <3>8. audit' = [audit EXCEPT ![call[c].rid] = Append(audit[call[c].rid], line)]
      BY <3>2 DEF Write
    <3> HIDE DEF line
    <3>9. c \notin owes /\ call'[c].pc \in {"steps", "tool", "answered"}
      BY <1>6, <3>1 DEF Emitted
    <3>10. \A i \in ToSet(wrote[c]) : i \in ToSet(wrote'[c])
      BY <1>1
    <3> QED
      BY <1>2, <1>3, <1>6, <1>7, <3>7, <3>8, <3>9, <3>10, LogGrows
  <2> QED
    BY <2>1, <2>2
<1>9. Logged(c)
  BY <1>1, <1>2, <1>7, <1>8 DEF Logged
<1>10. CallInv(c)'
  BY <1>1, <1>2, <1>4, <1>8, AnswerKeeps DEF Codes, SortResult
<1> QED
  BY <1>1, <1>3, <1>5, <1>6, <1>9, <1>10, OneCall

(***************************************************************************)
(* Responses.                                                              *)
(***************************************************************************)
LEMMA OneReply ==
    ASSUME ServerInv, NEW c \in Calls, call[c].pc # "answered", Answer(c, "ok"), CallsRest,
           c \notin owes, UNCHANGED <<logVars, faults>>, DOMAIN runs' = RunIds, ReplyInv', CallInv(c)'
    PROVE  ServerInv'
<1>1. /\ DOMAIN call = Calls /\ DOMAIN call[c] = Fields /\ CallInv(c)
      /\ audit' = audit /\ wrote' = wrote /\ owes' = owes /\ faults' = faults
  BY DEF ServerInv, Shape, CallInv, Served, logVars
<1>2. /\ backend' = backend /\ file' = file /\ save' = save /\ kills' = kills /\ spoiled' = spoiled
      /\ DOMAIN call' = Calls /\ \A d \in Calls \ {c} : call'[d] = call[d]
      /\ call'[c].rid = call[c].rid /\ call'[c].pc = "answered"
  BY <1>1 DEF CallsRest, Answer, Set, Fields
<1>3. Shape'
  BY <1>1, <1>2 DEF ServerInv, Shape
<1>6. LogFile'
  BY <1>1, <1>2, LogStays DEF ServerInv
<1>4. FileInv'
  BY <1>2 DEF ServerInv, FileInv, Watches
<1>5. \A d \in Calls : CallInv(d)'
  <2>1. ASSUME NEW d \in Calls \ {c} PROVE CallInv(d)'
    BY <1>1, <1>2, <2>1, CallFrame, NoGrowth DEF ServerInv
  <2> QED
    BY <2>1
<1> QED
  BY <1>3, <1>4, <1>5, <1>6 DEF ServerInv

\* The response tells what the request's own lines tell.
LEMMA RespondKeeps == ASSUME ServerInv, NEW c \in Calls, Respond(c) PROVE ServerInv'
<1> DEFINE it == call[c]
           log == Lines(c)
           reply == [by |-> c, status |-> StatusOf(it.results), results |-> it.results]
<1>1. /\ it.pc = "steps" /\ it.at > Len(it.order) /\ Answer(c, "ok")
      /\ UNCHANGED <<logVars, faults>> /\ CallsRest /\ backend' = backend /\ c \notin owes
      /\ runs' = [runs EXCEPT ![it.rid] = reply] /\ audit' = audit
  BY DEF Respond, CallsRest, Emitted, logVars
<1>2. /\ DOMAIN call = Calls /\ DOMAIN it = Fields /\ CallInv(c) /\ it.wf \in DOMAIN Text
      /\ it.rid \in RunIds /\ it.order \in Orders(it.wf) /\ it.order \in Seq(Names)
      /\ ~Duplicates(Text[it.wf].steps) /\ log \in Seq(LogLines)
      /\ ResultsOK(it, log) /\ LinesOK(it, log) /\ Closed(log, Len(log)) /\ it.at \in Nat
  BY <1>1, AtStep
<1>3. DOMAIN runs = RunIds
  BY DEF ServerInv, Shape
<1>4. /\ call'[c].pc = "answered" /\ call'[c].rid = it.rid /\ call'[c].wf = it.wf
      /\ \A d \in Calls \ {c} : call'[d] = call[d]
  BY <1>1, <1>2 DEF Answer, Set, Fields
<1>5. /\ runs'[it.rid] = reply /\ DOMAIN runs' = RunIds
      /\ \A r \in RunIds : r # it.rid => runs'[r] = runs[r]
  BY <1>1, <1>2, <1>3
<1>6. DOMAIN it.results = Ids(Text[it.wf].steps)
  <2>1. it.at - 1 = Len(it.order) /\ DOMAIN it.order = 1 .. Len(it.order)
    BY <1>1, <1>2 DEF ResultsOK
  <2>2. DOMAIN it.results = {it.order[k] : k \in DOMAIN it.order}
    BY <1>2, <2>1 DEF ResultsOK
  <2>3. /\ \A k \in DOMAIN it.order : it.order[k] \in Ids(Text[it.wf].steps)
        /\ \A id \in Ids(Text[it.wf].steps) : \E k \in DOMAIN it.order : it.order[k] = id
    BY <1>2, OrdersAre
  <2> HIDE DEF it
  <2> QED
    BY <2>2, <2>3
<1>7. reply.status = "completed" <=> \A i \in DOMAIN log : log[i].what # "error"
  <2>1. ASSUME NEW i \in DOMAIN log, log[i].what = "error"
        PROVE  \E id \in DOMAIN it.results : it.results[id] = "error"
    BY <1>2, <2>1 DEF LinesOK
  <2>2. ASSUME NEW id \in DOMAIN it.results, it.results[id] = "error"
        PROVE  \E i \in DOMAIN log : log[i].what = "error"
    <3>1. PICK i \in DOMAIN log : log[i] = [step |-> id, what |-> it.results[id]]
      BY <1>2 DEF ResultsOK, ToSet
    <3> QED
      BY <2>2, <3>1
  <2>3. reply.status = StatusOf(it.results)
    OBVIOUS
  <2> QED
    BY <2>1, <2>2, <2>3 DEF StatusOf
<1>8. reply.by = c /\ reply.results = it.results /\ reply.status \in {"completed", "failed"}
  BY DEF StatusOf
<1>9. \A id \in DOMAIN it.results : [step |-> id, what |-> it.results[id]] \in ToSet(log)
  BY <1>2 DEF ResultsOK
\* The same, of the request's own lines in the file
<1>own. LET own == {i \in DOMAIN audit[it.rid] : audit[it.rid][i].by = c} IN
        /\ \A id \in DOMAIN it.results :
              \E i \in own : audit[it.rid][i].step = id /\ audit[it.rid][i].what = it.results[id]
        /\ reply.status = "completed" <=> \A i \in own : audit[it.rid][i].what # "error"
  <2> DEFINE r == it.rid
             own == {i \in DOMAIN audit[r] : audit[r][i].by = c}
  <2>1. /\ DOMAIN log = DOMAIN wrote[c]
        /\ \A k \in DOMAIN wrote[c] : /\ log[k].step = audit[r][wrote[c][k]].step
                                      /\ log[k].what = audit[r][wrote[c][k]].what
    <3>1. WroteInv(c) /\ Shape
      BY <1>2 DEF CallInv, ServerInv
    <3>2. /\ DOMAIN Lines(c) = DOMAIN wrote[c]
          /\ \A k \in DOMAIN wrote[c] :
                Lines(c)[k] = [step |-> audit[call[c].rid][wrote[c][k]].step,
                               what |-> audit[call[c].rid][wrote[c][k]].what]
      BY <3>1, LinesAre
    <3>3. ASSUME NEW k \in DOMAIN wrote[c]
          PROVE  /\ Lines(c)[k].step = audit[call[c].rid][wrote[c][k]].step
                 /\ Lines(c)[k].what = audit[call[c].rid][wrote[c][k]].what
      <4> DEFINE l == Lines(c)[k]
                 f == audit[call[c].rid][wrote[c][k]]
      <4>1. l = [step |-> f.step, what |-> f.what]
        BY <3>2
      <4> HIDE DEF l, f
      <4>2. l.step = f.step /\ l.what = f.what
        BY <4>1
      <4> QED
        BY <4>2 DEF l, f
    <3> QED
      BY <3>2, <3>3
  <2>2. \A k \in DOMAIN wrote[c] : wrote[c][k] \in own
    BY <1>2 DEF CallInv, WroteInv
  <2>3. ASSUME NEW id \in DOMAIN it.results
        PROVE  \E i \in own : audit[r][i].step = id /\ audit[r][i].what = it.results[id]
    <3>1. PICK k \in DOMAIN log : log[k].step = id /\ log[k].what = it.results[id]
      <4>1. PICK k \in DOMAIN log : log[k] = [step |-> id, what |-> it.results[id]]
        BY <1>9, <2>3 DEF ToSet
      <4> QED
        BY <4>1
    <3>2. wrote[c][k] \in own
      BY <2>1, <2>2
    <3>3. audit[r][wrote[c][k]].step = id /\ audit[r][wrote[c][k]].what = it.results[id]
      BY <2>1, <3>1
    <3> HIDE DEF own
    <3> QED
      BY <3>2, <3>3
  <2>4. ASSUME NEW i \in own, audit[r][i].what = "error" PROVE \E k \in DOMAIN log : log[k].what = "error"
    <3>1. LineOK(r, i)
      BY <1>2 DEF ServerInv, LogFile
    <3>2. i \in ToSet(wrote[c]) \/ it.code = "broken"
      BY <2>4, <3>1 DEF LineOK, Events, Ends
    <3>3. it.code # "broken"
      BY <1>1, <1>2, ServerAssumption DEF CallInv, Served, ServerAssumption
    <3>4. PICK k \in DOMAIN wrote[c] : wrote[c][k] = i
      BY <3>2, <3>3 DEF ToSet
    <3>5. k \in DOMAIN log /\ log[k].what = "error"
      BY <2>1, <2>4, <3>4
    <3> QED
      BY <3>5
  <2>5. ASSUME NEW k \in DOMAIN log, log[k].what = "error" PROVE \E i \in own : audit[r][i].what = "error"
    <3>1. wrote[c][k] \in own /\ audit[r][wrote[c][k]].what = "error"
      BY <2>1, <2>2, <2>5
    <3> HIDE DEF own
    <3> QED
      BY <3>1
  <2> HIDE DEF log, reply, own
  <2>6. reply.status = "completed" <=> \A i \in own : audit[r][i].what # "error"
    BY <1>7, <2>4, <2>5
  <2> QED
    BY <2>3, <2>6 DEF own
<1> HIDE DEF reply
<1>10. ReplyInv'
  <2>1. \A r \in RunIds : runs'[r] = None \/ runs'[r].status \in {"completed", "failed"}
    BY <1>5, <1>8 DEF ServerInv, ReplyInv
  <2>2. ASSUME backend = "direct", NEW r \in RunIds, runs'[r] # None
        PROVE  /\ runs'[r].by \in Calls
               /\ call'[runs'[r].by].pc = "answered" /\ call'[runs'[r].by].rid = r
    BY <1>1, <1>4, <1>5, <1>8, <2>2 DEF ServerInv, ReplyInv
  <2>3. ASSUME backend = "direct", NEW r \in RunIds, runs'[r] # None, r # it.rid
        PROVE  /\ runs'[r] = runs[r] /\ call'[runs[r].by] = call[runs[r].by]
    BY <1>1, <1>4, <1>5, <2>3 DEF ServerInv, ReplyInv
  <2>4. ASSUME backend = "direct", NEW r \in RunIds, runs'[r] # None PROVE Matches(r, runs[r])'
    <3>1. CASE r = it.rid
      <4>1. runs'[r].by = c /\ runs'[r].results = it.results /\ runs'[r].status = reply.status
        BY <1>5, <1>8, <3>1
      <4> QED
        BY <1>1, <1>4, <1>6, <1>own, <3>1, <4>1 DEF Matches
    <3>2. CASE r # it.rid
      <4>1. runs'[r] = runs[r] /\ call'[runs[r].by] = call[runs[r].by] /\ runs[r] # None
        BY <2>3, <2>4, <3>2
      <4>2. Matches(r, runs[r])
        BY <2>4, <4>1 DEF ServerInv, ReplyInv, ResponseMatchesLog, get_run, Matches
      <4> QED
        BY <1>1, <4>1, <4>2 DEF Matches
    <3> QED
      BY <3>1, <3>2
  <2>5. ResponseMatchesLog'
    BY <1>1, <2>4 DEF ResponseMatchesLog, get_run, Matches
  <2> QED
    BY <1>1, <2>1, <2>2, <2>5 DEF ReplyInv
<1>11. CallInv(c)'
  BY <1>1, <1>2, AnswerKeeps, NoGrowth DEF Codes, SortResult, logVars
<1> QED
  BY <1>1, <1>5, <1>10, <1>11, OneReply

\* The contained runtime fails.
LEMMA RunnerRaisesKeeps == ASSUME ServerInv, NEW c \in Calls, RunnerRaises(c) PROVE ServerInv'
<1>1. /\ call[c].pc = "runner" /\ Answer(c, "unavailable") /\ UNCHANGED <<logVars, runs, faults>>
      /\ CallsRest /\ backend' = backend /\ CallInv(c) /\ DOMAIN call = Calls
      /\ faults' \in 0 .. MaxFaults
  BY DEF RunnerRaises, CallsRest, ServerInv, Shape
<1>2. backend # "direct"
  BY <1>1 DEF CallInv, Served
<1>3. CallInv(c)'
  BY <1>1, <1>2, QuietLog, AnswerKeeps, NoGrowth DEF Codes, logVars
<1> QED
  BY <1>1, <1>3, QuietAnswer

\* The contained runtime returns; its responses are not matched with this log.
LEMMA RunnerReturnsKeeps == ASSUME ServerInv, NEW c \in Calls, RunnerReturns(c) PROVE ServerInv'
<1>1. /\ call[c].pc = "runner" /\ Answer(c, "ok") /\ UNCHANGED <<logVars, faults>>
      /\ CallsRest /\ backend' = backend /\ CallInv(c) /\ DOMAIN call = Calls
      /\ DOMAIN runs = RunIds
  BY DEF RunnerReturns, CallsRest, ServerInv, Shape
<1>2. PICK result \in RuntimeResults :
        runs' = [runs EXCEPT ![call[c].rid] = _run_response_from_runtime(c, result)]
  BY DEF RunnerReturns
<1>3. _run_response_from_runtime(c, result).status \in {"completed", "failed"}
  BY DEF _run_response_from_runtime, StatusOf
<1>4. backend # "direct" /\ call[c].rid \in RunIds
  BY <1>1 DEF CallInv, Served
<1>5. ReplyInv'
  BY <1>1, <1>2, <1>3, <1>4 DEF ServerInv, ReplyInv, ResponseMatchesLog
<1>6. CallInv(c)' /\ c \notin owes
  BY <1>1, <1>4, QuietLog, AnswerKeeps, NoGrowth DEF Codes, logVars
<1> QED
  BY <1>1, <1>2, <1>5, <1>6, OneReply

(***************************************************************************)
(* The server is killed.                                                   *)
(***************************************************************************)
LEMMA RestartKeeps == ASSUME ServerInv, Restart PROVE ServerInv'
<1>1. /\ kills < MaxKills /\ kills' = kills + 1 /\ runs' = [r \in RunIds |-> None]
      /\ UNCHANGED <<backend, file, audit, wrote, faults>> /\ owes' = {}
      /\ spoiled' = (spoiled \/ \E s \in Saves : InFlight(save[s].pc))
      /\ call' = [c \in Calls |->
                    IF InFlight(call[c].pc)
                    THEN [call[c] EXCEPT !.pc = "answered", !.code = "killed", !.at = 0,
                                         !.agenda = <<>>, !.outputs = <<>>, !.results = <<>>]
                    ELSE call[c]]
      /\ save' = [s \in Saves |-> IF InFlight(save[s].pc) THEN [save[s] EXCEPT !.pc = "killed"] ELSE save[s]]
  BY DEF Restart
<1>2. save \in [Saves -> [pc : SavePcs, draft : Drafts \union {None}, linked : BOOLEAN]]
  BY DEF ServerInv, Shape
<1>3. Shape'
  <2>1. save' \in [Saves -> [pc : SavePcs, draft : Drafts \union {None}, linked : BOOLEAN]]
    BY <1>1, <1>2 DEF SavePcs
  <2>2. kills' \in 0 .. MaxKills
    <3>1. kills \in 0 .. MaxKills /\ MaxKills \in Nat
      BY ServerAssumption DEF ServerInv, Shape, ServerAssumption
    <3>2. kills < MaxKills /\ kills' = kills + 1
      BY <1>1
    <3> QED
      BY <3>1, <3>2
  <2> QED
    BY <1>1, <2>1, <2>2 DEF ServerInv, Shape
<1>4. FileInv'
  <2>1. \A s \in Saves :
          /\ save'[s].draft = save[s].draft /\ save'[s].linked = save[s].linked
          /\ save'[s].pc = IF InFlight(save[s].pc) THEN "killed" ELSE save[s].pc
    BY <1>1, <1>2
  <2>2. \A s \in Saves : Watches(s) => InFlight(save[s].pc)
    BY DEF Watches, InFlight
  <2>3. \A s \in Saves : save'[s].pc = "write" => save[s].pc = "write"
    BY <2>1
  <2>4. \A s \in Saves : /\ save'[s].pc = "write" => save'[s].draft \in Drafts
                         /\ save'[s].linked => file' # Absent
    BY <1>1, <2>1, <2>3 DEF ServerInv, FileInv
  <2>5. Loads(file)' = Loads(file)
    BY <1>1 DEF Loads
  <2>6. file # Absent /\ ~Loads(file) => spoiled'
    BY <1>1, <2>2 DEF ServerInv, FileInv
  <2> QED
    BY <1>1, <2>4, <2>5, <2>6 DEF FileInv
<1>5. ReplyInv'
  BY <1>1 DEF ReplyInv, ResponseMatchesLog, get_run
<1>6. ASSUME NEW c \in Calls PROVE CallInv(c)'
  <2>1. CallInv(c)
    BY DEF ServerInv
  <2>2. CASE ~InFlight(call[c].pc)
    BY <1>1, <2>1, <2>2, CallFrame, NoGrowth
  <2>3. CASE InFlight(call[c].pc)
    <3>1. DOMAIN call[c] = Fields
      BY <2>1 DEF CallInv, Served
    <3>2. /\ call'[c].pc = "answered" /\ call'[c].code = "killed" /\ call'[c].at = 0
          /\ call'[c].agenda = <<>> /\ call'[c].order = call[c].order /\ call'[c].wf = call[c].wf
          /\ call'[c].rid = call[c].rid /\ DOMAIN call'[c] = Fields
      BY <1>1, <2>3, <3>1 DEF Fields
    <3>3. Lines(c)' = Lines(c) /\ WroteInv(c)'
      BY <1>1, <2>1, <3>2, LinesStay, NoGrowth DEF CallInv
    <3>4. Served(c)'
      <4>1. /\ call[c].order \in Seq(Names) /\ call[c].wf \in DOMAIN Text \union {None}
            /\ <<>> \in Seq(Items) /\ 0 \in Nat
        BY <2>1 DEF CallInv, Served
      <4>2. "answered" \in CallPcs /\ "killed" \in Codes
        BY DEF CallPcs, Codes
      <4> QED
        BY <1>1, <3>2, <4>1, <4>2 DEF Served
    <3> QED
      BY <2>1, <3>2, <3>3, <3>4 DEF CallInv, SortInv, SortedInv, RunInv, LogInv, FedInv
  <2> QED
    BY <2>2, <2>3
<1>7. LogFile'
  <2>1. SUFFICES ASSUME NEW r \in RunIds, NEW i \in DOMAIN audit[r] PROVE LineOK(r, i)'
    BY <1>1 DEF LogFile
  <2>2. LineOK(r, i) /\ audit[r] \in Seq(FileLines)
    BY DEF ServerInv, LogFile, Shape
  <2>3. audit[r][i] \in FileLines
    BY <2>1, <2>2
  <2>4. PICK d \in Calls : d = audit[r][i].by
    BY <2>3 DEF FileLines
  <2>5. CallInv(d) /\ DOMAIN call[d] = Fields
    BY DEF ServerInv, CallInv, Served
  <2>6. d \in owes => InFlight(call[d].pc)
    BY <2>5 DEF CallInv, Served, InFlight
  <2>7. InFlight(call[d].pc) => call[d].code \notin {"broken", "killed"}
    BY <2>5, ServerAssumption DEF CallInv, Served, InFlight, ServerAssumption
  <2>8. InFlight(call[d].pc) =>
          call'[d].rid = call[d].rid /\ call'[d].pc = "answered" /\ call'[d].code = "killed"
    BY <1>1, <2>5 DEF Fields
  <2>9. ~InFlight(call[d].pc) => call'[d] = call[d]
    BY <1>1
  <2> QED
    BY <1>1, <2>2, <2>4, <2>6, <2>7, <2>8, <2>9 DEF LineOK, Cut
<1> QED
  BY <1>3, <1>4, <1>5, <1>6, <1>7 DEF ServerInv

(***************************************************************************)
(* Every step, and what follows.                                           *)
(***************************************************************************)
LEMMA ServerInvStep == ServerInv /\ [ServerNext]_serverVars => ServerInv'
<1> SUFFICES ASSUME ServerInv, [ServerNext]_serverVars PROVE ServerInv'
  OBVIOUS
<1>1. ASSUME NEW s \in Saves, SaveStep(s) PROVE ServerInv'
  BY <1>1, RefuseSaveKeeps, OpenDraftKeeps, WriteDraftKeeps, WriteFailsKeeps, CheckDraftKeeps,
     UnlinkDraftKeeps
     DEF SaveStep
<1>2. ASSUME NEW c \in Calls, RunStep(c) PROVE ServerInv'
  BY <1>2, LoadWorkflowKeeps, VisitKeeps, LeaveKeeps, SortedKeeps, BeginStepKeeps,
     ToolReturnsKeeps, ToolRaisesKeeps, NewLineKeeps, RespondKeeps, RunnerRaisesKeeps, RunnerReturnsKeeps
     DEF RunStep
<1>3. ASSUME NEW c \in Calls, create_run(c) \/ SetUpFails(c) \/ EmitFails(c) PROVE ServerInv'
  BY <1>3, CreateRunKeeps, SetUpFailsKeeps, EmitFailsKeeps
<1>4. CASE UNCHANGED serverVars
  <2>1. /\ backend' = backend /\ call' = call /\ audit' = audit /\ runs' = runs
        /\ faults' = faults /\ kills' = kills /\ file' = file /\ save' = save
        /\ owes' = owes /\ wrote' = wrote /\ spoiled' = spoiled
    BY <1>4 DEF serverVars
  <2>2. FileInv'
    BY <2>1 DEF ServerInv, FileInv, Watches, Loads
  <2> QED
    BY <2>1, <2>2, SaveFrame DEF ServerInv, Shape, SavesRest, logVars
<1>5. CASE Restart
  BY <1>5, RestartKeeps
<1>6. CASE Finished
  BY <1>4, <1>6 DEF Finished
<1> QED
  BY <1>1, <1>2, <1>3, <1>4, <1>5, <1>6 DEF ServerNext

\* The workflow endpoints keep their invariant, whatever requests, texts and failures there are.
THEOREM ServerInvHolds == ServerSpec => []ServerInv
  BY InitServerInv, ServerInvStep, PTL DEF ServerSpec

\* Once no save is in flight, the file is absent or loads, unless the last to touch it was killed
\* or could not write it (save_workflow): whoever finds it broken is still to remove it.
THEOREM SavedFilesLoad == ServerSpec => []QuietFileLoads
<1>1. ServerInv => QuietFileLoads
  BY DEF ServerInv, FileInv, Watches, QuietFileLoads, InFlight, list_workflows, Shape
<1> QED
  BY <1>1, ServerInvHolds, PTL

\* What the depth-first sort gives is an order in which every step comes once and after what
\* it needs; it fails if and only if there is none, or ids repeat, or there are as many steps as
\* Python's stack has room for (_topological_sort).
THEOREM SortIsCorrect == ServerSpec => []SortIsSound
<1>1. ServerInv => SortIsSound
  <2>1. SUFFICES ASSUME ServerInv, NEW c \in Calls, backend = "direct", call[c].wf # None,
                        call[c].pc # "sort", call[c].code # "killed"
                 PROVE  SortResult(call[c].wf, call[c].order, call[c].code)
    BY DEF SortIsSound, SortResult, Orders, Duplicates
  <2>2. CallInv(c)
    BY <2>1 DEF ServerInv
  <2>3. call[c].pc \in {"steps", "tool", "answered"}
    BY <2>1, <2>2 DEF CallInv, Served, CallPcs
  <2> QED
    BY <2>1, <2>2, <2>3 DEF CallInv, SortedInv, SortResult
<1> QED
  BY <1>1, ServerInvHolds, PTL

\* Tools are called after what their steps need has ended, on outputs of steps that succeeded
\* in the same run (Executor.run).
THEOREM ToolsRunInOrder == ServerSpec => []StepsInOrder
<1>1. ServerInv => StepsInOrder
  <2>1. SUFFICES ASSUME ServerInv PROVE StepsInOrder
    OBVIOUS
  <2>2. \A c \in Calls : Fed(call[c].wf, Lines(c))
    BY <2>1 DEF ServerInv, CallInv, FedInv
  <2>3. NeedsEndFirst
    BY <2>2 DEF NeedsEndFirst, Fed, FedLine
  <2>4. OnlySuccessFeeds
    BY <2>2 DEF OnlySuccessFeeds, Fed, FedLine
  <2> QED
    BY <2>3, <2>4 DEF StepsInOrder
<1> QED
  BY <1>1, ServerInvHolds, PTL

\* A request that was answered has closed every step it started, the response tells what its
\* own lines in the shared file tell, and the file reads back except where a request was cut
\* off, or another wrote between a line and its newline (create_run, AuditLog).
THEOREM LogsTellRuns == ServerSpec => []LogTellsRun
<1>1. ServerInv => LogTellsRun
  <2>1. SUFFICES ASSUME ServerInv PROVE LogTellsRun
    OBVIOUS
  <2>2. \A c \in Calls : CallInv(c)
    BY <2>1 DEF ServerInv
  <2>3. StartsAreClosed
    <3>1. SUFFICES ASSUME NEW c \in Calls, call[c].pc = "answered", call[c].code \notin {"broken", "killed"},
                          NEW i \in DOMAIN Lines(c), Lines(c)[i].what = "start"
                   PROVE  /\ i < Len(Lines(c)) /\ Lines(c)[i + 1].step = Lines(c)[i].step
                          /\ Lines(c)[i + 1].what \in {"done", "error"}
                          /\ \A j \in DOMAIN Lines(c) \ {i} : Lines(c)[j] # Lines(c)[i]
      BY DEF StartsAreClosed
    <3>2. Closed(Lines(c), Len(Lines(c)))
      BY <2>2, <3>1 DEF CallInv, LogInv
    <3>3. Lines(c) \in Seq(LogLines)
      BY <2>1, <2>2, LinesAre DEF ServerInv, CallInv
    <3>4. i <= Len(Lines(c))
      BY <3>3
    <3> QED
      BY <3>1, <3>2, <3>4 DEF Closed
  <2>4. ServerTypeOK
    <3>1. \A s \in Saves : /\ save[s].pc \in SavePcs /\ save[s].draft \in Drafts \union {None}
                           /\ save[s].linked => file # Absent
      BY <2>1 DEF ServerInv, Shape, FileInv
    <3>2. \A c \in Calls : /\ call[c].pc \in CallPcs /\ call[c].code \in Codes
                           /\ call[c].pc \in {"steps", "tool"} =>
                                 /\ call[c].at \in 1 .. Len(call[c].order) + 1
                                 /\ DOMAIN call[c].outputs \subseteq DOMAIN call[c].results
      BY <2>2 DEF CallInv, Served, RunInv, ResultsOK
    <3>3. \A r \in RunIds : runs[r] = None \/ runs[r].status \in {"completed", "failed"}
      BY <2>1 DEF ServerInv, ReplyInv
    <3>4. /\ backend \in Backends /\ file \in DOMAIN Text \union {Absent, Empty, Torn}
          /\ faults \in 0 .. MaxFaults /\ kills \in 0 .. MaxKills /\ spoiled \in BOOLEAN
      BY <2>1 DEF ServerInv, Shape
    <3>5. owes \subseteq {c \in Calls : call[c].pc \in {"steps", "tool"}}
      BY <2>1, <2>2 DEF ServerInv, Shape, CallInv, Served
    <3>6. \A c \in Calls : \A k \in DOMAIN wrote[c] :
             /\ wrote[c][k] \in DOMAIN audit[call[c].rid] /\ audit[call[c].rid][wrote[c][k]].by = c
             /\ \A j \in DOMAIN wrote[c] : j < k => wrote[c][j] < wrote[c][k]
      BY <2>2 DEF CallInv, WroteInv
    <3> QED
      BY <3>1, <3>2, <3>3, <3>4, <3>5, <3>6, Zenon DEF ServerTypeOK, SavePcs, CallPcs, Codes
  <2>5. LogReadsBack
    <3>1. SUFFICES ASSUME NEW r \in RunIds, NEW i \in DOMAIN audit[r], Unreadable(audit[r], i)
                   PROVE  \/ Cut(audit[r][i].by)
                          \/ i < Len(audit[r]) /\ audit[r][i + 1].by # audit[r][i].by
      BY DEF LogReadsBack, Cut
    <3>2. LineOK(r, i)
      BY <2>1 DEF ServerInv, LogFile
    <3> QED
      BY <3>1, <3>2 DEF LineOK, Unreadable, Cut
  <2> QED
    BY <2>1, <2>3, <2>4, <2>5 DEF LogTellsRun, ServerInv, ReplyInv
<1> QED
  BY <1>1, ServerInvHolds, PTL

-----------------------------------------------------------------------------
(***************************************************************************)
(* The desktop's bridge and the rate limiter.                              *)
(***************************************************************************)
USE BridgeAssumption DEF Children, Nobody

Buckets == [made : BOOLEAN, tokens : Nat, last : Nat, spent : Nat, since : Nat,
            retry : Nat, sure : Nat]

(***************************************************************************)
(* The limiter.  What was spent and what is left never exceed a full       *)
(* bucket and the gain up to the last refill.  A Retry-After that was      *)
(* given is a time by which the bucket lacks less than a millisecond's     *)
(* gain; one that a second's gain satisfies, a time by which it has        *)
(* enough.                                                                 *)
(***************************************************************************)
NearlyEnough(amount) == 1000 * amount + Rate > 1000 * Cost

BucketInv ==
    /\ bucket.since <= bucket.last /\ bucket.last <= now
    /\ bucket.tokens <= Capacity
    /\ bucket.made \/ bucket.spent = 0
    /\ bucket.spent + bucket.tokens <= Capacity + Refill * (bucket.last - bucket.since)
    /\ \/ bucket.retry = MaxTime + 1
       \/ bucket.made /\ NearlyEnough(bucket.tokens + (bucket.retry - bucket.last) * Refill)
    /\ \/ bucket.sure = MaxTime + 1
       \/ bucket.made /\ bucket.tokens + (bucket.sure - bucket.last) * Refill >= Cost

LEMMA RateIsPositive == Rate \in Nat \ {0}
  BY DEF Rate

\* The seconds of a Retry-After bring what is lacking, but for less than a millisecond's gain;
\* and all of it if a second's gain is enough (rate_limit.py:120).
LEMMA RoundingSuffices ==
    ASSUME NEW d \in Nat, NEW r \in Nat \ {0}, NEW q \in Nat, q = (1000 * d + 999 * r) \div (1000 * r)
    PROVE  /\ 1000 * (q * r) + r > 1000 * d
           /\ Larger(1, q) \in Nat
           /\ 1000 * (Larger(1, q) * r) + r > 1000 * d
           /\ d <= r => Larger(1, q) * r >= d
<1>1. 1000 * (q * r) + r > 1000 * d
  <2> DEFINE a == 1000 * d + 999 * r
             b == 1000 * r
  <2>1. a \in Nat /\ b \in Nat \ {0}
    OBVIOUS
  <2>2. b * q <= a /\ a < b * (q + 1)
    BY <2>1
  <2>3. b * (q + 1) = 1000 * (q * r) + 1000 * r
    OBVIOUS
  <2>4. q * r \in Nat
    OBVIOUS
  <2> QED
    BY <2>2, <2>3, <2>4
<1>2. Larger(1, q) \in Nat /\ Larger(1, q) >= q /\ Larger(1, q) >= 1
  BY DEF Larger
<1>3. ASSUME NEW l \in Nat, l >= q, l >= 1 PROVE l * r >= q * r /\ l * r >= r /\ l * r \in Nat /\ q * r \in Nat
  <2>1. l * r = q * r + (l - q) * r /\ l * r = r + (l - 1) * r
    BY <1>3
  <2>2. (l - q) * r \in Nat /\ (l - 1) * r \in Nat /\ q * r \in Nat
    <3>1. l - q \in Nat /\ l - 1 \in Nat
      BY <1>3
    <3> QED
      BY <3>1
  <2> QED
    BY <2>1, <2>2
<1>4. /\ Larger(1, q) * r >= q * r /\ Larger(1, q) * r >= r
      /\ Larger(1, q) * r \in Nat /\ q * r \in Nat
  BY <1>2, <1>3
<1> QED
  BY <1>1, <1>2, <1>4

LEMMA RetryAfterSuffices ==
    ASSUME NEW d \in Nat
    PROVE  /\ RetryAfter(d) \in Nat
           /\ 1000 * (RetryAfter(d) * Rate) + Rate > 1000 * d
           /\ d <= Rate => RetryAfter(d) * Rate >= d
<1>1. PICK q \in Nat : q = (1000 * d + 999 * Rate) \div (1000 * Rate)
  BY RateIsPositive
<1>2. RetryAfter(d) = Larger(1, q)
  BY <1>1 DEF RetryAfter
<1> QED
  BY <1>1, <1>2, RateIsPositive, RoundingSuffices

\* What a bucket that is not full holds at a later time does not depend on when it was refilled.
LEMMA SameLater ==
    ASSUME NEW tokens \in Nat, NEW t \in Nat, NEW last \in Nat, NEW later \in Nat
    PROVE  (tokens + (t - last) * Refill) + (later - t) * Refill = tokens + (later - last) * Refill
<1>1. (later - last) * Refill = (t - last) * Refill + (later - t) * Refill
  OBVIOUS
<1> QED
  BY <1>1

\* A request leaves a bucket that keeps the account (TokenBucket.take).
LEMMA TakeKeepsBucket ==
    ASSUME bucket \in Buckets, now \in 0 .. MaxTime, BucketInv, bucket' = take(bucket), now' = now
    PROVE  bucket' \in Buckets /\ BucketInv'
<1> DEFINE had == Had(bucket)
           since == IF bucket.made THEN bucket.since ELSE now
<1>1. /\ bucket.made \in BOOLEAN /\ bucket.tokens \in Nat /\ bucket.spent \in Nat
      /\ bucket.last \in Nat /\ bucket.since \in Nat /\ now \in Nat
      /\ bucket.retry \in Nat /\ bucket.sure \in Nat
  BY DEF Buckets
<1>2. /\ had \in Nat /\ had <= Capacity /\ since \in Nat /\ since <= now
      /\ bucket.spent + had <= Capacity + Refill * (now - since)
  <2>1. CASE bucket.made
    <3>1. /\ had = Smaller(Capacity, bucket.tokens + (now - bucket.last) * Refill)
          /\ since = bucket.since
      BY <2>1 DEF Had
    <3> HIDE DEF had, since
    <3>2. bucket.since <= bucket.last /\ bucket.last <= now
      BY DEF BucketInv
    <3>3. bucket.spent + bucket.tokens <= Capacity + Refill * (bucket.last - bucket.since)
      BY DEF BucketInv
    <3> DEFINE gain == (now - bucket.last) * Refill
               before == Refill * (bucket.last - bucket.since)
    <3>4. gain \in Nat /\ before \in Nat /\ Refill * (now - bucket.since) = before + gain
      <4>1. now - bucket.last \in Nat /\ bucket.last - bucket.since \in Nat /\ Refill \in Nat
        BY <1>1, <3>2
      <4>2. now - bucket.since = (now - bucket.last) + (bucket.last - bucket.since)
        BY <1>1
      <4>3. gain \in Nat /\ before \in Nat
        BY <4>1
      <4> QED
        BY <4>1, <4>2, <4>3
    <3>5. /\ had = Smaller(Capacity, bucket.tokens + gain)
          /\ bucket.spent + bucket.tokens <= Capacity + before
      BY <3>1, <3>3
    <3> HIDE DEF gain, before
    <3>6. had \in Nat /\ had <= Capacity /\ bucket.spent + had <= Capacity + (before + gain)
      BY <1>1, <3>4, <3>5 DEF Smaller
    <3> QED
      BY <1>1, <3>1, <3>2, <3>4, <3>6
  <2>2. CASE ~bucket.made
    <3>1. had = Capacity /\ since = now /\ bucket.spent = 0
      BY <1>1, <2>2 DEF BucketInv, Had
    <3> HIDE DEF had, since
    <3>2. Refill * (now - since) = 0
      BY <1>1, <3>1
    <3> QED
      BY <1>1, <3>1, <3>2
  <2> QED
    BY <1>1, <2>1, <2>2
<1> HIDE DEF had, since
<1>3. CASE had >= Cost
  <2>1. bucket' = [made |-> TRUE, tokens |-> had - Cost, last |-> now, since |-> since,
                   spent |-> bucket.spent + Cost, retry |-> MaxTime + 1, sure |-> MaxTime + 1]
    BY <1>3 DEF take, Granted, Buckets, had, since
  <2> QED
    BY <1>1, <1>2, <1>3, <2>1 DEF Buckets, BucketInv
<1>4. CASE had < Cost
  <2> DEFINE again == now + Second * RetryAfter(Cost - had)
             retry == Smaller(bucket.retry, again)
             sure == IF Cost - had <= Rate THEN Smaller(bucket.sure, again) ELSE bucket.sure
  <2>1. bucket' = [made |-> TRUE, tokens |-> had, last |-> now, since |-> since,
                   spent |-> bucket.spent, retry |-> retry, sure |-> sure]
    <3>1. ~(had >= Cost)
      BY <1>2, <1>4
    <3> QED
      BY <3>1 DEF take, Denied, Buckets, had, since
  <2>2. /\ again \in Nat
        /\ NearlyEnough(had + (again - now) * Refill)
        /\ Cost - had <= Rate => had + (again - now) * Refill >= Cost
    <3> DEFINE k == RetryAfter(Cost - had)
    <3>1. Cost - had \in Nat /\ Rate \in Nat \ {0}
      BY <1>2, <1>4, RateIsPositive
    <3>2. /\ k \in Nat
          /\ 1000 * (k * Rate) + Rate > 1000 * (Cost - had)
          /\ Cost - had <= Rate => k * Rate >= Cost - had
      BY <3>1, RetryAfterSuffices
    <3>3. again = now + Second * k
      OBVIOUS
    <3> HIDE DEF k, again
    <3>4. again \in Nat /\ (again - now) * Refill = k * Rate
      BY <1>1, <3>2, <3>3 DEF Rate
    <3>5. k * Rate \in Nat
      BY <3>1, <3>2
    <3> QED
      BY <1>2, <3>1, <3>2, <3>4, <3>5 DEF NearlyEnough
  <2>3. ASSUME NEW old \in Nat, bucket.made
        PROVE  had + (old - now) * Refill = bucket.tokens + (old - bucket.last) * Refill
    <3>1. had = bucket.tokens + (now - bucket.last) * Refill
      BY <1>1, <1>2, <1>4, <2>3 DEF had, Had, Smaller
    <3> QED
      BY <1>1, <3>1, SameLater
  <2> HIDE DEF again
  <2>4. retry \in Nat /\ sure \in Nat
    BY <1>1, <2>2 DEF Smaller
  <2>5. retry = MaxTime + 1 \/ NearlyEnough(had + (retry - now) * Refill)
    <3>1. CASE retry = again
      BY <2>2, <3>1
    <3>2. CASE retry = bucket.retry
      <4>1. CASE bucket.made /\ NearlyEnough(bucket.tokens + (bucket.retry - bucket.last) * Refill)
        BY <1>1, <2>3, <3>2, <4>1
      <4> QED
        BY <3>2, <4>1 DEF BucketInv
    <3> QED
      BY <3>1, <3>2 DEF Smaller
  <2>6. sure = MaxTime + 1 \/ had + (sure - now) * Refill >= Cost
    <3>1. CASE sure = again /\ Cost - had <= Rate
      BY <2>2, <3>1
    <3>2. CASE sure = bucket.sure
      <4>1. CASE bucket.made /\ bucket.tokens + (bucket.sure - bucket.last) * Refill >= Cost
        BY <1>1, <2>3, <3>2, <4>1
      <4> QED
        BY <3>2, <4>1 DEF BucketInv
    <3> QED
      BY <3>1, <3>2 DEF Smaller
  <2> HIDE DEF retry, sure
  <2> QED
    BY <1>1, <1>2, <1>4, <2>1, <2>4, <2>5, <2>6 DEF Buckets, BucketInv
<1> QED
  BY <1>2, <1>3, <1>4

-----------------------------------------------------------------------------
(***************************************************************************)
(* The inductive invariant.  A start that was not made has no process, so  *)
(* the port is not held in its name when the child is spawned.             *)
(***************************************************************************)
Fresh == \A k \in Children : starts[k] = "none" => proc[k] = "none"

Owned == \A k \in Children : Orphan(k) => late

BridgeInv == TypeOK /\ Fresh /\ Owned /\ BucketInv

\* The manager's calls and the processes leave the bucket alone, or empty it with its process.
LEMMA BucketStays ==
    ASSUME BucketInv, now' = now, bucket' = bucket
    PROVE  BucketInv'
  BY DEF BucketInv

\* A process that ends takes its bucket with it, and its port (Die).
LEMMA DieKeeps ==
    ASSUME BridgeInv, NEW k \in Children, proc[k] \in {"booting", "serving"}, Die(k), UNCHANGED managerVars
    PROVE  BridgeInv'
<1> USE DEF BridgeInv
<1>1. TypeOK'
  BY DEF TypeOK, Die, managerVars, NoBucket
<1>2. Fresh'
  BY DEF TypeOK, Fresh, Die, managerVars
<1>3. Owned'
  BY DEF TypeOK, Owned, Orphan, Alive, Die, managerVars
<1>4. BucketInv'
  BY DEF BucketInv, Die, NoBucket
<1> QED
  BY <1>1, <1>2, <1>3, <1>4

\* The steps of the manager and of the processes keep the invariant, whichever child they concern.
LEMMA BridgeInvariant == Init /\ [][Next]_vars => []BridgeInv
<1>1. Init => BridgeInv
  <2> SUFFICES ASSUME Init PROVE BridgeInv
    OBVIOUS
  <2>1. TypeOK
    <3>1. /\ bucket \in [made : BOOLEAN, tokens : Nat, last : Nat, spent : Nat, since : Nat,
            retry : Nat, sure : Nat]
          /\ now \in 0 .. MaxTime
      BY DEF Init, NoBucket
    <3>2. \A k \in Children : (proc[k] = "serving") = (port = k)
      BY DEF Init
    <3> QED
      BY <3>1, <3>2 DEF Init, TypeOK
  <2>2. Fresh /\ Owned
    BY DEF Init, Fresh, Owned, Orphan, Alive
  <2>3. BucketInv
    BY DEF Init, BucketInv, NoBucket
  <2> QED
    BY <2>1, <2>2, <2>3 DEF BridgeInv
<1>2. BridgeInv /\ [Next]_vars => BridgeInv'
  <2> SUFFICES ASSUME BridgeInv, [Next]_vars PROVE BridgeInv'
    OBVIOUS
  <2> USE DEF BridgeInv
  <2>1. CASE Start
    <3>1. PICK k \in Unspawned :
            /\ child' = k /\ token' = k
            /\ starts' = [starts EXCEPT ![k] = "poll"]
            /\ \/ /\ proc' = [proc EXCEPT ![k] = "booting"]
                  /\ UNCHANGED exited
               \/ /\ proc' = [proc EXCEPT ![k] = "dead"]
                  /\ exited' = exited \union {k}
      BY <2>1 DEF Start
    <3>2. /\ UNCHANGED <<app, stops, signal, late, port, now, bucket>>
          /\ child = Nobody \/ child \in exited
      BY <2>1 DEF Start, Running, HasExitCode
    <3>3. k \in Children /\ starts[k] = "none" /\ proc[k] = "none" /\ port # k
      BY DEF Unspawned, Fresh, TypeOK
    <3>4. TypeOK'
      <4>1. /\ proc' \in [Children -> {"none", "booting", "serving", "dead"}]
            /\ starts' \in [Children -> {"none", "poll", "fetch", "up", "failed"}]
            /\ child' \in Children \union {Nobody} /\ token' = child'
        BY <3>1, <3>3 DEF TypeOK
      <4>2. \A j \in Children : (proc'[j] = "serving") = (port' = j)
        BY <3>1, <3>2, <3>3 DEF TypeOK
      <4>3. exited' \subseteq {j \in Children : proc'[j] = "dead"}
        <5>1. \A j \in exited : j \in Children /\ j # k /\ proc[j] = "dead"
          BY <3>3 DEF TypeOK
        <5>2. \A j \in exited : proc'[j] = "dead"
          BY <3>1, <5>1 DEF TypeOK
        <5>3. \A j \in exited' : j \in exited \/ (j = k /\ proc'[k] = "dead")
          BY <3>1, <3>3 DEF TypeOK
        <5> QED
          BY <3>3, <5>1, <5>2, <5>3
      <4> QED
        BY <3>2, <4>1, <4>2, <4>3 DEF TypeOK
    <3>5. Fresh'
      BY <3>1, <3>2, <3>3 DEF TypeOK, Fresh
    <3>6. Owned'
      BY <3>1, <3>2, <3>3 DEF TypeOK, Owned, Orphan, Alive
    <3> QED
      BY <3>2, <3>4, <3>5, <3>6, BucketStays
  <2>2. CASE Stop
    <3>1. TypeOK'
      <4>1. CASE Running
        <5>1. /\ child \in Children /\ stops' = stops \union {child} /\ Send(child, "term")
              /\ UNCHANGED <<app, child, token, starts, proc, exited, late, port, now, bucket>>
          BY <2>2, <4>1 DEF TypeOK, Stop, Running
        <5>2. signal' \in [Children -> {"none", "term", "kill"}] /\ stops' \subseteq Children
          BY <5>1 DEF TypeOK, Send
        <5> QED
          BY <5>1, <5>2 DEF TypeOK
      <4>2. CASE ~Running
        BY <2>2, <4>2 DEF TypeOK, Stop
      <4> QED
        BY <4>1, <4>2
    <3>2. Fresh' /\ BucketInv'
      BY <2>2, BucketStays DEF Fresh, Stop
    <3>3. Owned'
      BY <2>2 DEF TypeOK, Owned, Orphan, Alive, Stop, Send, Running, HasExitCode
    <3> QED
      BY <3>1, <3>2, <3>3
  <2>3. CASE Tick
    BY <2>3 DEF Tick, managerVars, TypeOK, Fresh, Owned, Orphan, Alive, BucketInv
  <2>4. CASE Request
    <3>1. bucket' \in Buckets /\ BucketInv'
      BY <2>4, TakeKeepsBucket DEF Request, TypeOK, Buckets
    <3> QED
      BY <2>4, <3>1 DEF Request, managerVars, TypeOK, Fresh, Owned, Orphan, Alive, Buckets
  <2>5. ASSUME NEW quit \in BOOLEAN, KillSync(quit) PROVE BridgeInv'
    <3>1. TypeOK'
      BY <2>5 DEF TypeOK, KillSync, Send, Running
    <3>2. Fresh' /\ BucketInv'
      BY <2>5, BucketStays DEF Fresh, KillSync
    <3>3. Owned'
      BY <2>5 DEF TypeOK, Owned, Orphan, Alive, KillSync, Send, Running
    <3> QED
      BY <3>1, <3>2, <3>3
  <2>6. ASSUME NEW k \in Children, Poll(k) \/ Fetched(k) PROVE BridgeInv'
    <3>1. /\ starts' \in [Children -> {"none", "poll", "fetch", "up", "failed"}]
          /\ \A j \in Children : starts'[j] = "none" => starts[j] = "none"
      BY <2>6 DEF Poll, Fetched, TypeOK
    <3>2. UNCHANGED <<app, child, token, stops, proc, signal, exited, late, port, now, bucket>>
      BY <2>6 DEF Poll, Fetched
    <3> QED
      BY <3>1, <3>2, BucketStays DEF TypeOK, Fresh, Owned, Orphan, Alive
  <2>7. ASSUME NEW k \in Children, StartFails(k) PROVE BridgeInv'
    <3>1. TypeOK'
      BY <2>7 DEF TypeOK, StartFails, killChild, Send, Running
    <3>2. Fresh' /\ BucketInv'
      BY <2>7, BucketStays DEF TypeOK, Fresh, StartFails
    <3>3. Owned'
      BY <2>7 DEF TypeOK, Owned, Orphan, Alive, StartFails, killChild, Send, Running, HasExitCode
    <3> QED
      BY <3>1, <3>2, <3>3
  <2>8. ASSUME NEW k \in Children, StopTimer(k) PROVE BridgeInv'
    <3>1. TypeOK'
      BY <2>8 DEF TypeOK, StopTimer, managerVars, Send
    <3>2. Fresh' /\ BucketInv'
      BY <2>8, BucketStays DEF Fresh, StopTimer, managerVars
    <3>3. Owned'
      BY <2>8 DEF TypeOK, Owned, Orphan, Alive, StopTimer, managerVars, Send
    <3> QED
      BY <3>1, <3>2, <3>3
  <2>9. ASSUME NEW k \in Children, ExitEvent(k) PROVE BridgeInv'
    <3>1. TypeOK'
      BY <2>9 DEF TypeOK, ExitEvent
    <3>2. Fresh' /\ BucketInv'
      BY <2>9, BucketStays DEF Fresh, ExitEvent
    <3>3. Owned'
      BY <2>9 DEF TypeOK, Owned, Orphan, Alive, ExitEvent
    <3> QED
      BY <3>1, <3>2, <3>3
  <2>10. ASSUME NEW k \in Children, Boot(k) PROVE BridgeInv'
    <3>1. CASE port = Nobody
      <4>1. /\ proc' = [proc EXCEPT ![k] = "serving"] /\ port' = k /\ proc[k] = "booting"
            /\ UNCHANGED <<signal, now, bucket>> /\ UNCHANGED managerVars
        BY <2>10, <3>1 DEF Boot
      <4>2. TypeOK'
        BY <3>1, <4>1 DEF TypeOK, managerVars
      <4>3. Fresh' /\ Owned'
        BY <4>1 DEF TypeOK, Fresh, Owned, Orphan, Alive, managerVars
      <4> QED
        BY <4>1, <4>2, <4>3, BucketStays
    <3>2. CASE port # Nobody
      BY <2>10, <3>2, DieKeeps DEF Boot
    <3> QED
      BY <3>1, <3>2
  <2>11. ASSUME NEW k \in Children, Crash(k) PROVE BridgeInv'
    BY <2>11, DieKeeps DEF Crash, Alive
  <2>12. CASE UNCHANGED vars
    BY <2>12, BucketStays DEF vars, TypeOK, Fresh, Owned, Orphan, Alive
  <2> QED
    BY <2>1, <2>2, <2>3, <2>4, <2>5, <2>6, <2>7, <2>8, <2>9, <2>10, <2>11, <2>12 DEF Next, Step
<1> QED
  BY <1>1, <1>2, PTL

\* Whatever the order of starts, stops, exits and timers, the only child the manager loses is one
\* that replaced a child whose end was heard of late (bridge.ts: start, stop, killSync and the two
\* exit handlers).
THEOREM BridgeOwnsItsChildren == Spec => []OwnershipInv
<1>1. BridgeInv => OwnershipInv
  BY DEF BridgeInv, OwnershipInv, Owned, OrphansOnlyByLateExit
<1> QED
  BY <1>1, BridgeInvariant, PTL DEF Spec

\* For every capacity, refill rate and cost: no token is served beyond its bucket and its gain;
\* a Retry-After is short by less than a millisecond's gain, and by nothing if a second's gain
\* is enough (rate_limit.py: TokenBucket.take and RateLimitMiddleware.dispatch).
THEOREM LimiterKeepsItsRate == Spec => []RateIsKept
<1>1. BridgeInv => RateIsKept
  <2> SUFFICES ASSUME BridgeInv, bucket.made PROVE RateIsKept
    BY DEF RateIsKept
  <2>1. /\ bucket.made \in BOOLEAN /\ bucket.tokens \in Nat /\ bucket.spent \in Nat
        /\ bucket.last \in Nat /\ bucket.since \in Nat
        /\ bucket.retry \in Nat /\ bucket.sure \in Nat
        /\ now \in Nat /\ now <= MaxTime
    BY DEF BridgeInv, TypeOK
  <2>2. bucket.since <= bucket.last /\ bucket.last <= now
    BY DEF BridgeInv, BucketInv
  <2>3. bucket.spent <= Capacity + Refill * (now - bucket.since)
    <3> DEFINE gain == (now - bucket.last) * Refill
               before == Refill * (bucket.last - bucket.since)
    <3>1. gain \in Nat /\ before \in Nat /\ Refill * (now - bucket.since) = before + gain
      <4>1. now - bucket.last \in Nat /\ bucket.last - bucket.since \in Nat
        BY <2>1, <2>2
      <4> QED
        BY <2>1, <4>1
    <3>2. bucket.spent + bucket.tokens <= Capacity + before
      BY DEF BridgeInv, BucketInv
    <3> HIDE DEF gain, before
    <3> QED
      BY <2>1, <3>1, <3>2
  <2>4. ASSUME NEW t \in Nat, now >= t
        PROVE  /\ bucket.tokens + (t - bucket.last) * Refill \in Int
               /\ bucket.tokens + (now - bucket.last) * Refill >= bucket.tokens + (t - bucket.last) * Refill
    <3> DEFINE wait == (t - bucket.last) * Refill
               more == (now - t) * Refill
    <3>1. more \in Nat /\ wait \in Int /\ (now - bucket.last) * Refill = wait + more
      <4>1. now - t \in Nat /\ t - bucket.last \in Int
        BY <2>1, <2>4
      <4> QED
        BY <2>1, <4>1
    <3> HIDE DEF wait, more
    <3>2. bucket.tokens + (now - bucket.last) * Refill >= bucket.tokens + wait /\ bucket.tokens + wait \in Int
      BY <2>1, <3>1
    <3> QED
      BY <3>2 DEF wait
  <2> DEFINE gained == bucket.tokens + (now - bucket.last) * Refill
             atRetry == bucket.tokens + (bucket.retry - bucket.last) * Refill
             atSure == bucket.tokens + (bucket.sure - bucket.last) * Refill
  <2>5. gained \in Int
    BY <2>1, <2>4
  <2>6. ASSUME now >= bucket.retry PROVE 1000 * gained + Rate > 1000 * Cost
    <3>1. atRetry \in Int /\ gained >= atRetry
      BY <2>1, <2>4, <2>6
    <3>2. 1000 * atRetry + Rate > 1000 * Cost
      BY <2>1, <2>6 DEF BridgeInv, BucketInv, NearlyEnough
    <3> HIDE DEF atRetry, gained
    <3> QED
      BY <2>5, <3>1, <3>2, RateIsPositive
  <2>7. ASSUME now >= bucket.sure PROVE gained >= Cost
    <3>1. atSure \in Int /\ gained >= atSure
      BY <2>1, <2>4, <2>7
    <3>2. atSure >= Cost
      BY <2>1, <2>7 DEF BridgeInv, BucketInv
    <3> HIDE DEF atSure, gained
    <3> QED
      BY <2>5, <3>1, <3>2
  <2> HIDE DEF atRetry, atSure
  <2> QED
    BY <2>3, <2>6, <2>7 DEF RateIsKept
<1> QED
  BY <1>1, BridgeInvariant, PTL DEF Spec

=============================================================================
