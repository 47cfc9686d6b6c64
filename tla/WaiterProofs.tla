---------------------------- MODULE WaiterProofs ----------------------------
(***************************************************************************)
(* Theorems about the wait-hook queue, for every set of clients, workers,  *)
(* libraries, symbols and timeouts.                                        *)
(***************************************************************************)
EXTENDS Waiter, SequenceTheorems, TLAPS

\* No two queued tasks have the same id.
Distinct(q) == \A i, j \in 1..Len(q) : q[i].id = q[j].id => i = j

IdsOf(q) == {q[i].id : i \in 1..Len(q)}

\* Whoever is between SubmitCall and the lock has a request of its own that
\* nobody queued or answered.
SubmitInv ==
  /\ DOMAIN arg = Clients
  /\ \A c \in Clients : pc[c] = "submit" =>
       /\ arg[c] \in [id : 1..submitted, target : Target, timeout : Timeouts]
       /\ arg[c].id \notin IdsOf(g_tasks)
       /\ report[arg[c].id] = <<>>
       /\ \A d \in Clients : pc[d] = "submit" /\ arg[d].id = arg[c].id => d = c

\* The queue holds submitted, unanswered requests of the past, each once.
QueueInv ==
  /\ Distinct(g_tasks)
  /\ \A i \in 1..Len(g_tasks) :
       /\ g_tasks[i].id <= submitted
       /\ g_tasks[i].start <= clock
       /\ report[g_tasks[i].id] = <<>>

\* A request is answered at most once, only after it was submitted, and is
\* never lost on the way.
AnswerInv ==
  \A id \in Ids :
    /\ id > submitted => report[id] = <<>>
    /\ id <= submitted =>
         \/ \E c \in Clients : pc[c] = "submit" /\ arg[c].id = id
         \/ id \in IdsOf(g_tasks)
         \/ Len(report[id]) = 1

\* A worker that is not about to lock owns the mutex, and while it scans its
\* iterator is in the queue and its sample neither ahead of the clock nor
\* older than a queued task.
WorkerInv ==
  \A w \in Workers :
    /\ pc[w] # "idle" => mutex = w
    /\ pc[w] = "scan" =>
         /\ it[w] <= Len(g_tasks) + 1
         /\ now[w] <= clock
         /\ \A i \in 1..Len(g_tasks) : g_tasks[i].start <= now[w]

WaiterInv == TypeOK /\ SubmitInv /\ QueueInv /\ AnswerInv /\ WorkerInv
-----------------------------------------------------------------------------
(* The queue operations *)

\* The modulus of a smaller number.
LEMMA ModSmall ==
  ASSUME NEW a \in Nat, NEW b \in Nat, a < b
  PROVE  a % b = a
  OBVIOUS

\* vector::erase: the entries behind the erased one move up.
LEMMA EraseAtProperties ==
  ASSUME NEW S, NEW q \in Seq(S), NEW i \in 1..Len(q)
  PROVE  /\ EraseAt(q, i) \in Seq(S)
         /\ Len(EraseAt(q, i)) = Len(q) - 1
         /\ \A j \in 1..(Len(q) - 1) : EraseAt(q, i)[j] = IF j < i THEN q[j] ELSE q[j + 1]
<1> DEFINE l == SubSeq(q, 1, i - 1)
           r == SubSeq(q, i + 1, Len(q))
<1>1. Len(q) \in Nat
  BY Zenon, LenProperties
<1>2. /\ l \in Seq(S) /\ Len(l) = i - 1
      /\ \A j \in 1..(i - 1) : l[j] = q[j]
  BY <1>1, SubSeqProperties
<1>3. /\ r \in Seq(S) /\ Len(r) = Len(q) - i
      /\ \A j \in 1..(Len(q) - i) : r[j] = q[i + j]
  BY <1>1, SubSeqProperties
<1>4. /\ l \o r \in Seq(S)
      /\ Len(l \o r) = Len(l) + Len(r)
      /\ \A j \in 1..(Len(l) + Len(r)) : (l \o r)[j] = IF j <= Len(l) THEN l[j] ELSE r[j - Len(l)]
  BY Zenon, <1>2, <1>3, ConcatProperties
<1> HIDE DEF l, r
<1>5. EraseAt(q, i) = l \o r
  BY Zenon DEF EraseAt, l, r
<1>6. Len(l \o r) = Len(q) - 1
  BY <1>1, <1>2, <1>3, <1>4
<1>7. ASSUME NEW j \in 1..(Len(q) - 1)
      PROVE  (l \o r)[j] = IF j < i THEN q[j] ELSE q[j + 1]
  <2>1. (l \o r)[j] = IF j <= i - 1 THEN l[j] ELSE r[j - (i - 1)]
    BY <1>1, <1>2, <1>3, <1>4
  <2>2. CASE j < i
    BY <1>1, <1>2, <2>1, <2>2
  <2>3. CASE ~(j < i)
    <3>1. j - (i - 1) \in 1..(Len(q) - i) /\ i + (j - (i - 1)) = j + 1 /\ ~(j <= i - 1)
      BY <1>1, <2>3
    <3> QED
      BY Zenon, <1>3, <2>1, <2>3, <3>1
  <2> QED
    BY Zenon, <2>2, <2>3
<1> QED
  BY Zenon, <1>4, <1>5, <1>6, <1>7

\* Erasing a task removes its id and keeps the other tasks.
LEMMA EraseTask ==
  ASSUME NEW q \in Seq(Task), NEW i \in 1..Len(q), Distinct(q)
  PROVE  /\ EraseAt(q, i) \in Seq(Task)
         /\ Len(EraseAt(q, i)) = Len(q) - 1
         /\ Distinct(EraseAt(q, i))
         /\ IdsOf(EraseAt(q, i)) = IdsOf(q) \ {q[i].id}
         /\ \A j \in 1..Len(EraseAt(q, i)) : \E k \in 1..Len(q) : k # i /\ EraseAt(q, i)[j] = q[k]
<1> DEFINE r == EraseAt(q, i)
           src(j) == IF j < i THEN j ELSE j + 1
<1>1. /\ r \in Seq(Task) /\ Len(r) = Len(q) - 1
      /\ \A j \in 1..(Len(q) - 1) : r[j] = q[src(j)]
  BY Zenon, EraseAtProperties
<1>2. Len(q) \in Nat
  BY Zenon, LenProperties
<1>3. \A j \in 1..(Len(q) - 1) : src(j) \in 1..Len(q) /\ src(j) # i
  BY <1>2
<1>4. \A j, k \in 1..(Len(q) - 1) : src(j) = src(k) => j = k
  BY <1>2
<1>5. \A k \in 1..Len(q) : k # i => \E j \in 1..(Len(q) - 1) : src(j) = k
  <2> TAKE k \in 1..Len(q)
  <2>1. CASE k < i
    BY <1>2, <2>1
  <2>2. CASE k > i
    <3>1. k - 1 \in 1..(Len(q) - 1) /\ src(k - 1) = k
      BY <1>2, <2>2
    <3> QED
      BY Zenon, <3>1
  <2> QED
    BY <1>2, <2>1, <2>2
<1> HIDE DEF r, src
<1>6. Distinct(r)
  BY <1>1, <1>3, <1>4 DEF Distinct
<1>7. ASSUME NEW x \in IdsOf(r) PROVE x \in IdsOf(q) \ {q[i].id}
  <2>1. PICK j \in 1..(Len(q) - 1) : x = r[j].id
    BY Zenon, <1>1 DEF IdsOf
  <2>2. src(j) \in 1..Len(q) /\ src(j) # i /\ x = q[src(j)].id
    BY Zenon, <1>1, <1>3, <2>1
  <2> QED
    BY Zenon, <2>2 DEF IdsOf, Distinct
<1>8. ASSUME NEW x \in IdsOf(q) \ {q[i].id} PROVE x \in IdsOf(r)
  <2>1. PICK k \in 1..Len(q) : x = q[k].id
    BY Zenon DEF IdsOf
  <2>2. k # i
    BY Zenon, <2>1
  <2>3. PICK j \in 1..(Len(q) - 1) : src(j) = k
    BY Zenon, <1>5, <2>2
  <2> QED
    BY Zenon, <1>1, <2>1, <2>3 DEF IdsOf
<1>9. IdsOf(r) = IdsOf(q) \ {q[i].id}
  BY Zenon, <1>7, <1>8
<1> QED
  BY Zenon, <1>1, <1>3, <1>6, <1>9 DEF r

\* Queueing a task adds its id.
LEMMA AppendTask ==
  ASSUME NEW q \in Seq(Task), NEW x \in Task, Distinct(q), x.id \notin IdsOf(q)
  PROVE  /\ Append(q, x) \in Seq(Task)
         /\ Len(Append(q, x)) = Len(q) + 1
         /\ Distinct(Append(q, x))
         /\ IdsOf(Append(q, x)) = IdsOf(q) \cup {x.id}
         /\ \A j \in 1..Len(Append(q, x)) :
              Append(q, x)[j] = x \/ \E k \in 1..Len(q) : Append(q, x)[j] = q[k]
<1> DEFINE r == Append(q, x)
<1>1. /\ r \in Seq(Task) /\ Len(r) = Len(q) + 1
      /\ \A i \in 1..Len(q) : r[i] = q[i]
      /\ r[Len(q) + 1] = x
  BY AppendProperties
<1>2. Len(q) \in Nat
  BY Zenon, LenProperties
<1> HIDE DEF r
<1>3. \A i \in 1..Len(r) : i \in 1..Len(q) \/ i = Len(q) + 1
  BY <1>1, <1>2
<1>4. \A i \in 1..Len(q) : q[i].id # x.id
  BY Zenon DEF IdsOf
<1>5. Distinct(r)
  BY Zenon, <1>1, <1>3, <1>4 DEF Distinct
<1>6. IdsOf(r) = IdsOf(q) \cup {x.id}
  <2>1. ASSUME NEW y \in IdsOf(r) PROVE y \in IdsOf(q) \cup {x.id}
    BY Zenon, <1>1, <1>3 DEF IdsOf
  <2>2. \A i \in 1..Len(q) : i \in 1..Len(r)
    BY <1>1, <1>2
  <2>3. Len(q) + 1 \in 1..Len(r)
    BY <1>1, <1>2
  <2>4. ASSUME NEW y \in IdsOf(q) \cup {x.id} PROVE y \in IdsOf(r)
    BY Zenon, <1>1, <2>2, <2>3 DEF IdsOf
  <2> QED
    BY Zenon, <2>1, <2>4
<1> QED
  BY Zenon, <1>1, <1>3, <1>5, <1>6 DEF r

\* The entries of q at the given places.
Pick(q, place) == [k \in DOMAIN place |-> q[place[k]]]

\* Erasing the tasks at the places in match removes their ids and keeps the
\* other tasks.
LEMMA EraseMatches ==
  ASSUME NEW q \in Seq(Task), Distinct(q), NEW match \in SUBSET (1..Len(q)),
         NEW place \in InOrder(q, match)
  PROVE  /\ Pick(q, place) \in Seq(Task)
         /\ Distinct(Pick(q, place))
         /\ IdsOf(Pick(q, place)) = IdsOf(q) \ {q[i].id : i \in match}
         /\ \A j \in 1..Len(Pick(q, place)) : \E k \in 1..Len(q) : Pick(q, place)[j] = q[k]
<1> DEFINE keep == (1..Len(q)) \ match
           r == Pick(q, place)
<1>1. Len(q) \in Nat
  BY Zenon, LenProperties
<1>2. PICK n \in 0..Len(q) : place \in [1..n -> keep]
  BY Zenon DEF InOrder
<1>3. /\ n \in Nat
      /\ \A i, j \in 1..n : i < j => place[i] < place[j]
      /\ \A x \in keep : \E k \in 1..n : place[k] = x
  <2>1. DOMAIN place = 1..n
    BY Zenon, <1>2
  <2>2. n \in Nat
    BY <1>1
  <2>3. \A i, j \in DOMAIN place : i < j => place[i] < place[j]
    BY Zenon DEF InOrder
  <2>4. \A x \in keep : \E k \in DOMAIN place : place[k] = x
    BY Zenon DEF InOrder
  <2> QED
    BY Zenon, <2>1, <2>2, <2>3, <2>4
<1>4. /\ r = [k \in 1..n |-> q[place[k]]]
      /\ \A k \in 1..n : r[k] = q[place[k]] /\ place[k] \in 1..Len(q) /\ place[k] \notin match
  BY Zenon, <1>2, <1>3 DEF Pick
<1>5. \A k \in 1..n : q[place[k]] \in Task
  BY Zenon, <1>4, ElementOfSeq
<1>6. r \in Seq(Task) /\ Len(r) = n
  <2>1. r \in [1..n -> Task]
    BY Zenon, <1>4, <1>5
  <2>2. r \in Seq(Task)
    BY <1>3, <2>1, SeqDef
  <2> QED
    BY <1>2, <1>3, <2>1, <2>2, LenProperties
<1> HIDE DEF r
<1>7. \A i, j \in 1..n : place[i] = place[j] => i = j
  BY <1>2, <1>3, <1>4, <1>1
<1>8. Distinct(r)
  <2> SUFFICES ASSUME NEW i \in 1..n, NEW j \in 1..n, r[i].id = r[j].id
               PROVE  i = j
    BY Zenon, <1>6 DEF Distinct
  <2>1. place[i] = place[j]
    BY Zenon, <1>4 DEF Distinct
  <2> QED
    BY Zenon, <1>7, <2>1
<1>9. ASSUME NEW x \in IdsOf(r) PROVE x \in IdsOf(q) \ {q[i].id : i \in match}
  <2>1. PICK j \in 1..n : x = r[j].id
    BY Zenon, <1>6 DEF IdsOf
  <2>2. place[j] \in 1..Len(q) /\ place[j] \notin match /\ x = q[place[j]].id
    BY Zenon, <1>4, <2>1
  <2> QED
    BY Zenon, <2>2 DEF IdsOf, Distinct
<1>10. ASSUME NEW x \in IdsOf(q) \ {q[i].id : i \in match} PROVE x \in IdsOf(r)
  <2>1. PICK k \in 1..Len(q) : x = q[k].id
    BY Zenon DEF IdsOf
  <2>2. PICK j \in 1..n : place[j] = k
    BY Zenon, <1>3, <2>1
  <2> QED
    BY Zenon, <1>4, <1>6, <2>1, <2>2 DEF IdsOf
<1> QED
  BY Zenon, <1>4, <1>6, <1>8, <1>9, <1>10 DEF r
-----------------------------------------------------------------------------
(* The invariant holds initially *)

LEMMA WaiterInit == Init => WaiterInv
<1> SUFFICES ASSUME Init PROVE WaiterInv
  BY Zenon
<1> USE DEF Init
<1>1. g_tasks \in Seq(Task) /\ Len(g_tasks) = 0
  OBVIOUS
<1>2. IdsOf(g_tasks) = {}
  BY <1>1 DEF IdsOf
<1>3. /\ pc \in [Threads -> {"idle", "submit", "cancel", "locked", "scan", "asleep"}]
      /\ \A t \in Threads : pc[t] = "idle"
  BY Zenon
<1>4. /\ report \in [Ids -> Seq(Status)]
      /\ \A id \in Ids : report[id] = <<>>
  OBVIOUS
<1>5. TypeOK
  BY <1>1, <1>3, <1>4, WaiterAssumption DEF TypeOK
<1>6. SubmitInv
  BY Zenon, <1>3 DEF SubmitInv, Threads
<1>7. QueueInv
  BY <1>1 DEF QueueInv, Distinct
<1>8. AnswerInv
  BY <1>4 DEF AnswerInv, Ids
<1>9. WorkerInv
  BY Zenon, <1>3 DEF WorkerInv, Threads
<1> QED
  BY Zenon, <1>5, <1>6, <1>7, <1>8, <1>9 DEF WaiterInv
-----------------------------------------------------------------------------
(* Steps *)

\* No client starts or ends a Submit.
SubmitsStay ==
  /\ DOMAIN arg' = Clients
  /\ \A c \in Clients :
       /\ pc'[c] = "submit" <=> pc[c] = "submit"
       /\ pc[c] = "submit" => arg'[c] = arg[c]

\* The step leaves the state of every worker alone.
WorkersStay ==
  /\ UNCHANGED <<it, now>>
  /\ \A w \in Workers : pc'[w] = pc[w]

\* What is known of a queued task.
LEMMA TaskTypes ==
  ASSUME WaiterInv, NEW i \in 1..Len(g_tasks)
  PROVE  /\ g_tasks[i] \in Task
         /\ g_tasks[i].id \in Ids /\ g_tasks[i].id \in Nat /\ g_tasks[i].id <= submitted
         /\ g_tasks[i].start \in Nat /\ g_tasks[i].start <= clock
         /\ g_tasks[i].timeout \in Nat
         /\ g_tasks[i].id \in IdsOf(g_tasks)
         /\ report[g_tasks[i].id] = <<>>
<1>1. g_tasks[i] \in Task
  BY Zenon, ElementOfSeq DEF WaiterInv, TypeOK
<1>2. /\ g_tasks[i].id \in Ids /\ g_tasks[i].start \in 0..MaxTime
      /\ g_tasks[i].timeout \in Timeouts
  BY Zenon, <1>1 DEF Task
<1>3. g_tasks[i].id \in Nat /\ g_tasks[i].start \in Nat /\ g_tasks[i].timeout \in Nat
  <2>1. MaxTasks \in Nat /\ MaxTime \in Nat /\ Timeouts \subseteq Nat
    BY Zenon, WaiterAssumption
  <2>2. g_tasks[i].id \in Nat
    BY <1>2, <2>1 DEF Ids
  <2>3. g_tasks[i].start \in Nat
    BY <1>2, <2>1
  <2>4. g_tasks[i].timeout \in Nat
    BY Zenon, <1>2, <2>1
  <2> QED
    BY Zenon, <2>2, <2>3, <2>4
<1> QED
  BY Zenon, <1>1, <1>2, <1>3 DEF WaiterInv, QueueInv, IdsOf

\* A step that moves no request keeps what is known of them.
LEMMA RequestsStay ==
  ASSUME WaiterInv, SubmitsStay, UNCHANGED <<g_tasks, report, submitted>>,
         clock' \in Nat, clock <= clock'
  PROVE  SubmitInv' /\ QueueInv' /\ AnswerInv'
<1>1. SubmitInv'
  BY DEF WaiterInv, SubmitInv, SubmitsStay
<1>2. QueueInv'
  <2>1. \A i \in 1..Len(g_tasks) : g_tasks[i].start \in Nat /\ g_tasks[i].start <= clock
    BY Zenon, TaskTypes
  <2>2. clock \in Nat
    BY DEF WaiterInv, TypeOK
  <2>3. \A i \in 1..Len(g_tasks) : g_tasks[i].start <= clock'
    BY <2>1, <2>2
  <2> QED
    BY Zenon, <2>3 DEF WaiterInv, QueueInv
<1>3. AnswerInv'
  BY Zenon DEF WaiterInv, AnswerInv, SubmitsStay
<1> QED
  BY Zenon, <1>1, <1>2, <1>3

\* While a worker scans, the mutex keeps the clients away: a step taken with
\* the mutex free finds no worker at work.
LEMMA NobodyScans ==
  ASSUME WaiterInv, mutex = NoOwner, NEW w \in Workers
  PROVE  pc[w] = "idle"
  BY Zenon, WaiterAssumption DEF WaiterInv, WorkerInv

\* Submit takes a fresh id.
LEMMA SubmitCallStep ==
  ASSUME WaiterInv, NEW c \in Clients, NEW tg \in Target, NEW n \in Timeouts,
         SubmitCall(c, tg, n)
  PROVE  WaiterInv'
<1> DEFINE a == [id |-> submitted + 1, target |-> tg, timeout |-> n]
<1>1. /\ submitted \in Nat /\ submitted' = submitted + 1 /\ submitted' \in 0..MaxTasks
      /\ submitted + 1 \in Ids
      /\ UNCHANGED <<clock, loaded, hooked, g_tasks, mutex, it, now, report, hookRes>>
  BY WaiterAssumption DEF SubmitCall, WaiterInv, TypeOK, Ids
<1>2. /\ pc' \in [Threads -> {"idle", "submit", "cancel", "locked", "scan", "asleep"}]
      /\ pc[c] = "idle" /\ pc'[c] = "submit"
      /\ \A d \in Threads \ {c} : pc'[d] = pc[d]
  BY Zenon DEF SubmitCall, WaiterInv, TypeOK, Threads
<1>3. /\ DOMAIN arg' = Clients /\ arg'[c] = a
      /\ \A d \in Clients \ {c} : arg'[d] = arg[d]
  BY Zenon DEF SubmitCall, WaiterInv, SubmitInv
<1>4. \A d \in Clients \ {c} : pc'[d] = pc[d]
  BY Zenon, <1>2 DEF Threads
<1>5. TypeOK'
  BY Zenon, <1>1, <1>2 DEF WaiterInv, TypeOK
<1>6. \A x \in IdsOf(g_tasks) : x \in Nat /\ x <= submitted
  BY Zenon, TaskTypes DEF IdsOf
<1>7. a.id \notin IdsOf(g_tasks) /\ report[a.id] = <<>>
  BY <1>1, <1>6 DEF WaiterInv, AnswerInv
<1>8. \A d \in Clients : pc[d] = "submit" => arg[d].id \in 1..submitted
  BY Zenon DEF WaiterInv, SubmitInv
<1>9. a \in [id : 1..submitted', target : Target, timeout : Timeouts]
  BY <1>1
<1> HIDE DEF a
<1>10. a.id = submitted + 1
  BY Zenon DEF a
<1>11. \A d \in Clients \ {c} : pc[d] = "submit" => arg[d].id # a.id
  BY <1>1, <1>8, <1>10
<1>12. ASSUME NEW d \in Clients, pc'[d] = "submit"
       PROVE  /\ arg'[d] \in [id : 1..submitted', target : Target, timeout : Timeouts]
              /\ arg'[d].id \notin IdsOf(g_tasks')
              /\ report'[arg'[d].id] = <<>>
              /\ \A e \in Clients : pc'[e] = "submit" /\ arg'[e].id = arg'[d].id => e = d
  <2>1. CASE d = c
    BY Zenon, <1>1, <1>3, <1>4, <1>7, <1>9, <1>11, <2>1
  <2>2. CASE d # c
    <3>1. pc[d] = "submit" /\ arg'[d] = arg[d]
      BY Zenon, <1>3, <1>4, <1>12, <2>2
    <3>2. arg[d] \in [id : 1..submitted', target : Target, timeout : Timeouts]
      <4>1. arg[d] \in [id : 1..submitted, target : Target, timeout : Timeouts]
        BY Zenon, <3>1 DEF WaiterInv, SubmitInv
      <4>2. \A x \in 1..submitted : x \in 1..submitted'
        BY <1>1
      <4> QED
        BY Zenon, <4>1, <4>2
    <3>3. arg[d].id \notin IdsOf(g_tasks') /\ report'[arg[d].id] = <<>>
      BY Zenon, <1>1, <3>1 DEF WaiterInv, SubmitInv
    <3>4. ASSUME NEW e \in Clients, pc'[e] = "submit", arg'[e].id = arg'[d].id PROVE e = d
      <4>1. e # c
        BY Zenon, <1>3, <1>11, <2>2, <3>1, <3>4
      <4> QED
        BY <1>3, <1>4, <3>1, <3>4, <4>1 DEF WaiterInv, SubmitInv
    <3> QED
      BY Zenon, <3>1, <3>2, <3>3, <3>4
  <2> QED
    BY Zenon, <2>1, <2>2
<1>13. SubmitInv'
  BY Zenon, <1>3, <1>12 DEF SubmitInv
<1>14. QueueInv'
  <2>1. \A i \in 1..Len(g_tasks) : g_tasks[i].id <= submitted'
    <3> TAKE i \in 1..Len(g_tasks)
    <3>1. g_tasks[i].id \in Nat /\ g_tasks[i].id <= submitted
      BY Zenon, TaskTypes
    <3> QED
      BY <1>1, <3>1
  <2> QED
    BY Zenon, <1>1, <2>1 DEF WaiterInv, QueueInv
<1>15. ASSUME NEW id \in Ids
       PROVE  /\ id > submitted' => report'[id] = <<>>
              /\ id <= submitted' =>
                   \/ \E d \in Clients : pc'[d] = "submit" /\ arg'[d].id = id
                   \/ id \in IdsOf(g_tasks')
                   \/ Len(report'[id]) = 1
  <2>1. id \in Nat
    BY DEF Ids
  <2>2. CASE id = a.id
    BY <1>1, <1>2, <1>3, <1>10, <2>1, <2>2
  <2>3. CASE id # a.id
    <3>1. (id > submitted' => id > submitted) /\ (id <= submitted' => id <= submitted)
      BY <1>1, <1>10, <2>1, <2>3
    <3> QED
      BY <1>1, <1>2, <1>3, <1>4, <3>1 DEF WaiterInv, AnswerInv
  <2> QED
    BY Zenon, <2>2, <2>3
<1>16. AnswerInv'
  BY Zenon, <1>15 DEF AnswerInv
<1>17. WorkerInv'
  <2>1. \A w \in Workers : pc'[w] = pc[w]
    BY Zenon, <1>2, WaiterAssumption DEF Threads
  <2> QED
    BY Zenon, <1>1, <2>1 DEF WaiterInv, WorkerInv
<1> QED
  BY Zenon, <1>5, <1>13, <1>14, <1>16, <1>17 DEF WaiterInv

\* A callback appends one status to the report of its request.
LEMMA ReportEffect ==
  ASSUME WaiterInv, NEW id \in Ids, NEW s \in Status, Report(id, s), report[id] = <<>>
  PROVE  /\ report' \in [Ids -> Seq(Status)]
         /\ Len(report'[id]) = 1 /\ report'[id] # <<>> /\ report'[id][1] = s
         /\ \A x \in Ids \ {id} : report'[x] = report[x]
<1>1. report \in [Ids -> Seq(Status)]
  BY Zenon DEF WaiterInv, TypeOK
<1>2. Append(report[id], s) \in Seq(Status)
  BY Zenon, <1>1, AppendProperties
<1>3. /\ report' \in [Ids -> Seq(Status)] /\ report'[id] = Append(<<>>, s)
      /\ \A x \in Ids \ {id} : report'[x] = report[x]
  BY Zenon, <1>1, <1>2 DEF Report
<1> QED
  BY <1>3

\* Hooker::Hook keeps the types, whatever it returns.
LEMMA HookTypes ==
  ASSUME WaiterInv, NEW id \in Ids, NEW tg \in Target, Hook(id, tg)
  PROVE  /\ hooked' \in SUBSET Target
         /\ hookRes' \in [Ids -> {"none", "OK", "ALREADY", "FAILED"}]
  BY Zenon DEF Hook, WaiterInv, TypeOK

\* What both outcomes of Submit have in common: the client leaves, no worker
\* is at work.
LEMMA SubmitLeaves ==
  ASSUME WaiterInv, NEW c \in Clients, SubmitLocked(c)
  PROVE  /\ arg[c] \in [id : 1..submitted, target : Target, timeout : Timeouts]
         /\ arg[c].id \in Ids /\ arg[c].id \in Nat /\ arg[c].id <= submitted
         /\ arg[c].id \notin IdsOf(g_tasks) /\ report[arg[c].id] = <<>>
         /\ pc' \in [Threads -> {"idle", "submit", "cancel", "locked", "scan", "asleep"}]
         /\ DOMAIN arg' = Clients
         /\ pc[c] = "submit" /\ pc'[c] = "idle"
         /\ \A d \in Clients \ {c} : /\ pc'[d] = pc[d] /\ arg'[d] = arg[d]
                                     /\ pc[d] = "submit" => arg[d].id # arg[c].id
         /\ WorkerInv'
         /\ UNCHANGED <<clock, loaded, mutex, it, now, submitted>>
<1>1. /\ pc[c] = "submit" /\ mutex = NoOwner
      /\ pc' = [pc EXCEPT ![c] = "idle"] /\ arg' = [arg EXCEPT ![c] = <<>>]
      /\ UNCHANGED <<clock, loaded, mutex, it, now, submitted>>
  BY Zenon DEF SubmitLocked
<1>2. /\ arg[c] \in [id : 1..submitted, target : Target, timeout : Timeouts]
      /\ arg[c].id \notin IdsOf(g_tasks) /\ report[arg[c].id] = <<>>
      /\ DOMAIN arg = Clients
      /\ \A d \in Clients : pc[d] = "submit" /\ arg[d].id = arg[c].id => d = c
  BY Zenon, <1>1 DEF WaiterInv, SubmitInv
<1>3. arg[c].id \in Ids /\ arg[c].id \in Nat /\ arg[c].id <= submitted
  <2>1. arg[c].id \in 1..submitted /\ submitted \in 0..MaxTasks /\ MaxTasks \in Nat
    BY Zenon, <1>2, WaiterAssumption DEF WaiterInv, TypeOK
  <2> QED
    BY <2>1 DEF Ids
<1>4. /\ pc' \in [Threads -> {"idle", "submit", "cancel", "locked", "scan", "asleep"}]
      /\ pc'[c] = "idle" /\ \A t \in Threads \ {c} : pc'[t] = pc[t]
  BY Zenon, <1>1 DEF WaiterInv, TypeOK, Threads
<1>5. DOMAIN arg' = Clients /\ \A d \in Clients \ {c} : arg'[d] = arg[d]
  BY Zenon, <1>1, <1>2
<1>6. \A w \in Workers : pc'[w] = "idle"
  <2>1. \A w \in Workers : w \in Threads \ {c}
    BY Zenon, WaiterAssumption DEF Threads
  <2> QED
    BY Zenon, <1>1, <1>4, <2>1, NobodyScans
<1>7. WorkerInv'
  BY Zenon, <1>6 DEF WorkerInv
<1> QED
  BY Zenon, <1>1, <1>2, <1>3, <1>4, <1>5, <1>7 DEF Threads

\* Submit finds the symbol and reports at once.
LEMMA SubmitInstallStep ==
  ASSUME WaiterInv, NEW c \in Clients, SubmitLocked(c),
         TryInstall(arg[c].id, arg[c].target), UNCHANGED g_tasks
  PROVE  WaiterInv'
<1> DEFINE a == arg[c]
<1>1. /\ report' \in [Ids -> Seq(Status)] /\ Len(report'[a.id]) = 1
      /\ \A x \in Ids \ {a.id} : report'[x] = report[x]
  BY Zenon, SubmitLeaves, ReportEffect DEF TryInstall, Status
<1>2. hooked' \in SUBSET Target /\ hookRes' \in [Ids -> {"none", "OK", "ALREADY", "FAILED"}]
  <2>1. a.target \in Target /\ a.id \in Ids /\ Hook(a.id, a.target)
    BY Zenon, SubmitLeaves DEF TryInstall
  <2> QED
    BY Zenon, <2>1, HookTypes
<1> HIDE DEF a
<1>3. TypeOK'
  BY <1>1, <1>2, SubmitLeaves DEF WaiterInv, TypeOK
<1>4. /\ a.id \notin IdsOf(g_tasks) /\ a.id \in Nat /\ a.id \in Ids /\ a.id <= submitted
      /\ DOMAIN arg' = Clients /\ pc'[c] = "idle"
      /\ \A d \in Clients \ {c} : /\ pc'[d] = pc[d] /\ arg'[d] = arg[d]
                                  /\ pc[d] = "submit" => arg[d].id # a.id
      /\ UNCHANGED <<clock, submitted, g_tasks>> /\ WorkerInv'
  BY Zenon, SubmitLeaves DEF a
<1>5. SubmitInv'
  <2>1. \A d \in Clients : pc[d] = "submit" => arg[d].id \in Ids
    <3> TAKE d \in Clients
    <3>1. pc[d] = "submit" => arg[d].id \in 1..submitted /\ submitted \in 0..MaxTasks
      BY Zenon DEF WaiterInv, SubmitInv, TypeOK
    <3> QED
      BY <3>1, WaiterAssumption DEF Ids
  <2> QED
    BY <1>1, <1>4, <2>1 DEF WaiterInv, SubmitInv
<1>6. QueueInv'
  BY <1>1, <1>4, TaskTypes DEF WaiterInv, QueueInv
<1>7. AnswerInv'
  <2> SUFFICES ASSUME NEW id \in Ids
               PROVE  /\ id > submitted => report'[id] = <<>>
                      /\ id <= submitted =>
                           \/ \E d \in Clients : pc'[d] = "submit" /\ arg'[d].id = id
                           \/ id \in IdsOf(g_tasks)
                           \/ Len(report'[id]) = 1
    BY Zenon, <1>4 DEF AnswerInv
  <2>1. CASE id = a.id
    BY <1>1, <1>4, <2>1 DEF WaiterInv, TypeOK
  <2>2. CASE id # a.id
    <3>1. /\ id > submitted => report[id] = <<>>
          /\ id <= submitted =>
               \/ \E d \in Clients : pc[d] = "submit" /\ arg[d].id = id
               \/ id \in IdsOf(g_tasks)
               \/ Len(report[id]) = 1
      BY Zenon DEF WaiterInv, AnswerInv
    <3>2. \A d \in Clients : pc[d] = "submit" /\ arg[d].id = id =>
            pc'[d] = "submit" /\ arg'[d].id = id
      BY Zenon, <1>4, <2>2 DEF a
    <3>3. report'[id] = report[id]
      BY Zenon, <1>1, <2>2
    <3> QED
      BY Zenon, <3>1, <3>2, <3>3
  <2> QED
    BY Zenon, <2>1, <2>2
<1> QED
  BY Zenon, <1>3, <1>4, <1>5, <1>6, <1>7 DEF WaiterInv

\* Submit finds no symbol and queues the task.
LEMMA SubmitQueueStep ==
  ASSUME WaiterInv, NEW c \in Clients, SubmitLocked(c),
         g_tasks' = Append(g_tasks, [id |-> arg[c].id, target |-> arg[c].target,
                                     timeout |-> arg[c].timeout, start |-> clock]),
         UNCHANGED <<hooked, report, hookRes>>
  PROVE  WaiterInv'
<1> DEFINE a == arg[c]
           x == [id |-> a.id, target |-> a.target, timeout |-> a.timeout, start |-> clock]
<1>1. /\ a.id \notin IdsOf(g_tasks) /\ a.id \in Ids /\ a.id \in Nat /\ a.id <= submitted
      /\ report[a.id] = <<>> /\ DOMAIN arg' = Clients /\ pc'[c] = "idle"
      /\ \A d \in Clients \ {c} : /\ pc'[d] = pc[d] /\ arg'[d] = arg[d]
                                  /\ pc[d] = "submit" => arg[d].id # a.id
      /\ UNCHANGED <<clock, submitted, report>> /\ WorkerInv'
  BY Zenon, SubmitLeaves
<1>2. x \in Task
  <2>1. a.target \in Target /\ a.timeout \in Timeouts /\ clock \in 0..MaxTime
    BY Zenon, SubmitLeaves DEF WaiterInv, TypeOK
  <2> QED
    BY Zenon, <1>1, <2>1 DEF Task
<1>3. x.id = a.id /\ x.start = clock
  BY Zenon
<1> HIDE DEF a
<1>4. g_tasks' = Append(g_tasks, x)
  BY Zenon DEF a
<1> HIDE DEF x
<1>5. /\ g_tasks' \in Seq(Task) /\ Distinct(g_tasks')
      /\ IdsOf(g_tasks') = IdsOf(g_tasks) \cup {a.id}
      /\ \A j \in 1..Len(g_tasks') :
           g_tasks'[j] = x \/ \E k \in 1..Len(g_tasks) : g_tasks'[j] = g_tasks[k]
  BY <1>1, <1>2, <1>3, <1>4, AppendTask DEF WaiterInv, TypeOK, QueueInv
<1>6. TypeOK'
  BY Zenon, <1>5, SubmitLeaves DEF WaiterInv, TypeOK
<1>7. SubmitInv'
  BY <1>1, <1>5 DEF WaiterInv, SubmitInv
<1>8. QueueInv'
  <2>1. clock \in Nat
    BY DEF WaiterInv, TypeOK
  <2> SUFFICES ASSUME NEW j \in 1..Len(g_tasks')
               PROVE  /\ g_tasks'[j].id <= submitted
                      /\ g_tasks'[j].start <= clock
                      /\ report[g_tasks'[j].id] = <<>>
    BY <1>1, <1>5 DEF QueueInv
  <2>2. CASE g_tasks'[j] = x
    BY <1>1, <1>3, <2>1, <2>2
  <2>3. ASSUME NEW k \in 1..Len(g_tasks), g_tasks'[j] = g_tasks[k]
        PROVE  g_tasks'[j].id <= submitted /\ g_tasks'[j].start <= clock
               /\ report[g_tasks'[j].id] = <<>>
    BY Zenon, <2>3, TaskTypes
  <2> QED
    BY Zenon, <1>5, <2>2, <2>3
<1>9. AnswerInv'
  <2> SUFFICES ASSUME NEW id \in Ids
               PROVE  /\ id > submitted => report[id] = <<>>
                      /\ id <= submitted =>
                           \/ \E d \in Clients : pc'[d] = "submit" /\ arg'[d].id = id
                           \/ id \in IdsOf(g_tasks')
                           \/ Len(report[id]) = 1
    BY Zenon, <1>1 DEF AnswerInv
  <2>1. /\ id > submitted => report[id] = <<>>
        /\ id <= submitted =>
             \/ \E d \in Clients : pc[d] = "submit" /\ arg[d].id = id
             \/ id \in IdsOf(g_tasks)
             \/ Len(report[id]) = 1
    BY Zenon DEF WaiterInv, AnswerInv
  <2>2. \A d \in Clients : pc[d] = "submit" /\ arg[d].id = id =>
          id = a.id \/ (pc'[d] = "submit" /\ arg'[d].id = id)
    BY Zenon, <1>1 DEF a
  <2> QED
    BY Zenon, <1>5, <2>1, <2>2
<1> QED
  BY Zenon, <1>1, <1>6, <1>7, <1>8, <1>9 DEF WaiterInv

\* Cancel before the lock.
LEMMA CancelCallStep ==
  ASSUME WaiterInv, NEW c \in Clients, NEW lib, NEW sym, CancelCall(c, lib, sym)
  PROVE  WaiterInv'
<1>1. /\ pc[c] = "idle" /\ pc' = [pc EXCEPT ![c] = "cancel"]
      /\ arg' = [arg EXCEPT ![c] = [lib |-> lib, sym |-> sym]]
      /\ UNCHANGED <<clock, loaded, hooked, g_tasks, mutex, it, now, submitted, report, hookRes>>
  BY Zenon DEF CancelCall
<1>2. /\ pc' \in [Threads -> {"idle", "submit", "cancel", "locked", "scan", "asleep"}]
      /\ pc'[c] = "cancel" /\ \A t \in Threads \ {c} : pc'[t] = pc[t]
  BY Zenon, <1>1 DEF WaiterInv, TypeOK, Threads
<1>3. TypeOK'
  BY Zenon, <1>1, <1>2 DEF WaiterInv, TypeOK
<1>4. SubmitsStay
  BY Zenon, <1>1, <1>2 DEF SubmitsStay, WaiterInv, SubmitInv, Threads
<1>5. clock' \in Nat /\ clock <= clock'
  BY <1>1 DEF WaiterInv, TypeOK
<1>6. WorkerInv'
  <2>1. \A w \in Workers : pc'[w] = pc[w]
    BY Zenon, <1>2, WaiterAssumption DEF Threads
  <2> QED
    BY Zenon, <1>1, <2>1 DEF WaiterInv, WorkerInv
<1> QED
  BY Zenon, <1>1, <1>3, <1>4, <1>5, <1>6, RequestsStay DEF WaiterInv

\* Cancel takes a set of queued requests out of the queue and answers each of
\* them once.
LEMMA CancelEffect ==
  ASSUME WaiterInv, NEW c \in Clients, CancelLocked(c)
  PROVE  \E gone \in SUBSET IdsOf(g_tasks) :
           /\ g_tasks' \in Seq(Task) /\ Distinct(g_tasks')
           /\ IdsOf(g_tasks') = IdsOf(g_tasks) \ gone
           /\ \A j \in 1..Len(g_tasks') : \E k \in 1..Len(g_tasks) : g_tasks'[j] = g_tasks[k]
           /\ report' \in [Ids -> Seq(Status)]
           /\ \A id \in gone : report'[id] = <<"CANCELLED">>
           /\ \A id \in Ids \ gone : report'[id] = report[id]
<1> DEFINE match == {i \in 1..Len(g_tasks) : CancelMatches(c, g_tasks[i])}
           gone == {g_tasks[i].id : i \in match}
<1>1. /\ report' = [id \in Ids |-> IF id \in gone THEN Append(report[id], "CANCELLED")
                                                  ELSE report[id]]
      /\ \E place \in InOrder(g_tasks, match) :
           g_tasks' = [k \in DOMAIN place |-> g_tasks[place[k]]]
  BY Zenon DEF CancelLocked
<1>2. match \in SUBSET (1..Len(g_tasks))
  BY Zenon
<1>3. gone \in SUBSET IdsOf(g_tasks) /\ gone \in SUBSET Ids
  BY Zenon, TaskTypes
<1>4. \A id \in gone : report[id] = <<>>
  BY Zenon, TaskTypes
<1> HIDE DEF match
<1>5. /\ g_tasks' \in Seq(Task) /\ Distinct(g_tasks')
      /\ IdsOf(g_tasks') = IdsOf(g_tasks) \ gone
      /\ \A j \in 1..Len(g_tasks') : \E k \in 1..Len(g_tasks) : g_tasks'[j] = g_tasks[k]
  <2>1. PICK place \in InOrder(g_tasks, match) :
               g_tasks' = [k \in DOMAIN place |-> g_tasks[place[k]]]
    BY Zenon, <1>1
  <2>2. g_tasks \in Seq(Task) /\ Distinct(g_tasks)
    BY Zenon DEF WaiterInv, TypeOK, QueueInv
  <2> DEFINE r == Pick(g_tasks, place)
  <2>3. /\ r \in Seq(Task) /\ Distinct(r)
        /\ IdsOf(r) = IdsOf(g_tasks) \ gone
        /\ \A j \in 1..Len(r) : \E k \in 1..Len(g_tasks) : r[j] = g_tasks[k]
    BY Zenon, <1>2, <2>2, EraseMatches
  <2> HIDE DEF r
  <2>4. g_tasks' = r
    BY Zenon, <2>1 DEF r, Pick
  <2> QED
    BY Zenon, <2>3, <2>4
<1> HIDE DEF gone
<1>6. /\ report' \in [Ids -> Seq(Status)]
      /\ \A id \in gone : report'[id] = <<"CANCELLED">>
      /\ \A id \in Ids \ gone : report'[id] = report[id]
  <2>1. report \in [Ids -> Seq(Status)]
    BY Zenon DEF WaiterInv, TypeOK
  <2>2. Append(<<>>, "CANCELLED") = <<"CANCELLED">> /\ <<"CANCELLED">> \in Seq(Status)
    BY DEF Status
  <2>3. \A id \in gone : report'[id] = <<"CANCELLED">>
    BY Zenon, <1>1, <1>3, <1>4, <2>2
  <2>4. \A id \in Ids \ gone : report'[id] = report[id]
    BY Zenon, <1>1
  <2>5. report' \in [Ids -> Seq(Status)]
    <3>1. DOMAIN report' = Ids /\ report' = [id \in Ids |-> report'[id]]
      BY Zenon, <1>1
    <3>2. \A id \in Ids : report'[id] \in Seq(Status)
      BY Zenon, <2>1, <2>2, <2>3, <2>4
    <3> QED
      BY Zenon, <3>1, <3>2
  <2> QED
    BY Zenon, <2>3, <2>4, <2>5
<1> QED
  BY Zenon, <1>3, <1>5, <1>6

LEMMA CancelLockedStep ==
  ASSUME WaiterInv, NEW c \in Clients, CancelLocked(c)
  PROVE  WaiterInv'
<1>1. /\ pc[c] = "cancel" /\ mutex = NoOwner
      /\ pc' = [pc EXCEPT ![c] = "idle"] /\ arg' = [arg EXCEPT ![c] = <<>>]
      /\ UNCHANGED <<clock, loaded, hooked, mutex, it, now, submitted, hookRes>>
  BY Zenon DEF CancelLocked
<1>2. PICK gone \in SUBSET IdsOf(g_tasks) :
           /\ g_tasks' \in Seq(Task) /\ Distinct(g_tasks')
           /\ IdsOf(g_tasks') = IdsOf(g_tasks) \ gone
           /\ \A j \in 1..Len(g_tasks') : \E k \in 1..Len(g_tasks) : g_tasks'[j] = g_tasks[k]
           /\ report' \in [Ids -> Seq(Status)]
           /\ \A id \in gone : report'[id] = <<"CANCELLED">>
           /\ \A id \in Ids \ gone : report'[id] = report[id]
  BY Zenon, CancelEffect
<1>3. /\ pc' \in [Threads -> {"idle", "submit", "cancel", "locked", "scan", "asleep"}]
      /\ pc'[c] = "idle" /\ \A t \in Threads \ {c} : pc'[t] = pc[t]
  BY Zenon, <1>1 DEF WaiterInv, TypeOK, Threads
<1>4. TypeOK'
  BY Zenon, <1>1, <1>2, <1>3 DEF WaiterInv, TypeOK
<1>5. SubmitsStay
  BY Zenon, <1>1, <1>3 DEF SubmitsStay, WaiterInv, SubmitInv, Threads
<1>6. \A d \in Clients : pc[d] = "submit" => arg[d].id \in Ids \ gone
  <2> TAKE d \in Clients
  <2>1. pc[d] = "submit" => arg[d].id \in 1..submitted /\ submitted \in 0..MaxTasks
                            /\ arg[d].id \notin gone
    BY Zenon, <1>2 DEF WaiterInv, SubmitInv, TypeOK
  <2> QED
    BY <2>1, WaiterAssumption DEF Ids
<1>7. SubmitInv'
  BY <1>1, <1>2, <1>5, <1>6 DEF WaiterInv, SubmitInv, SubmitsStay
<1>8. QueueInv'
  <2> SUFFICES ASSUME NEW j \in 1..Len(g_tasks')
               PROVE  /\ g_tasks'[j].id <= submitted
                      /\ g_tasks'[j].start <= clock
                      /\ report'[g_tasks'[j].id] = <<>>
    BY Zenon, <1>1, <1>2 DEF QueueInv
  <2>1. PICK k \in 1..Len(g_tasks) : g_tasks'[j] = g_tasks[k]
    BY Zenon, <1>2
  <2>2. g_tasks'[j].id \in Ids \ gone
    <3>1. g_tasks'[j].id \in IdsOf(g_tasks')
      BY Zenon DEF IdsOf
    <3> QED
      BY Zenon, <1>2, <2>1, <3>1, TaskTypes
  <2> QED
    BY <1>2, <2>1, <2>2, TaskTypes
<1>9. AnswerInv'
  <2> SUFFICES ASSUME NEW id \in Ids
               PROVE  /\ id > submitted => report'[id] = <<>>
                      /\ id <= submitted =>
                           \/ \E d \in Clients : pc'[d] = "submit" /\ arg'[d].id = id
                           \/ id \in IdsOf(g_tasks')
                           \/ Len(report'[id]) = 1
    BY Zenon, <1>1 DEF AnswerInv
  <2>1. CASE id \in gone
    <3>1. id <= submitted /\ id \in Nat /\ submitted \in Nat
      BY <1>2, <2>1, TaskTypes DEF IdsOf, WaiterInv, TypeOK
    <3>2. Len(report'[id]) = 1
      <4>1. report'[id] = <<"CANCELLED">>
        BY Zenon, <1>2, <2>1
      <4> QED
        BY <4>1
    <3> QED
      BY <3>1, <3>2
  <2>2. CASE id \notin gone
    BY <1>2, <1>5, <2>2 DEF WaiterInv, AnswerInv, SubmitsStay
  <2> QED
    BY Zenon, <2>1, <2>2
<1>10. WorkerInv'
  <2>1. \A w \in Workers : pc'[w] = "idle"
    <3>1. \A w \in Workers : w \in Threads \ {c}
      BY Zenon, WaiterAssumption DEF Threads
    <3> QED
      BY Zenon, <1>1, <1>3, <3>1, NobodyScans
  <2> QED
    BY Zenon, <2>1 DEF WorkerInv
<1> QED
  BY Zenon, <1>4, <1>7, <1>8, <1>9, <1>10 DEF WaiterInv

\* The worker answers the task at its iterator and erases it.
LEMMA FinishEffect ==
  ASSUME WaiterInv, NEW i \in 1..Len(g_tasks), NEW s \in Status,
         Report(g_tasks[i].id, s), g_tasks' = EraseAt(g_tasks, i)
  PROVE  /\ g_tasks' \in Seq(Task) /\ Len(g_tasks') = Len(g_tasks) - 1
         /\ Distinct(g_tasks')
         /\ IdsOf(g_tasks') = IdsOf(g_tasks) \ {g_tasks[i].id}
         /\ \A j \in 1..Len(g_tasks') : \E k \in 1..Len(g_tasks) : g_tasks'[j] = g_tasks[k]
         /\ report' \in [Ids -> Seq(Status)]
         /\ Len(report'[g_tasks[i].id]) = 1 /\ report'[g_tasks[i].id] # <<>>
         /\ report'[g_tasks[i].id][1] = s
         /\ \A x \in Ids \ {g_tasks[i].id} : report'[x] = report[x]
<1>1. g_tasks \in Seq(Task) /\ Distinct(g_tasks)
  BY Zenon DEF WaiterInv, TypeOK, QueueInv
<1>2. g_tasks[i].id \in Ids /\ report[g_tasks[i].id] = <<>>
  BY Zenon, TaskTypes
<1>3. /\ report' \in [Ids -> Seq(Status)]
      /\ Len(report'[g_tasks[i].id]) = 1 /\ report'[g_tasks[i].id] # <<>>
      /\ report'[g_tasks[i].id][1] = s
      /\ \A x \in Ids \ {g_tasks[i].id} : report'[x] = report[x]
  BY Zenon, <1>2, ReportEffect
<1> DEFINE r == EraseAt(g_tasks, i)
<1>4. /\ r \in Seq(Task) /\ Len(r) = Len(g_tasks) - 1
      /\ Distinct(r)
      /\ IdsOf(r) = IdsOf(g_tasks) \ {g_tasks[i].id}
      /\ \A j \in 1..Len(r) : \E k \in 1..Len(g_tasks) : k # i /\ r[j] = g_tasks[k]
  BY Zenon, <1>1, EraseTask
<1>5. g_tasks' = r
  BY Zenon
<1> HIDE DEF r
<1> QED
  BY Zenon, <1>3, <1>4, <1>5

LEMMA FinishStep ==
  ASSUME WaiterInv, NEW i \in 1..Len(g_tasks), NEW s \in Status,
         Report(g_tasks[i].id, s), g_tasks' = EraseAt(g_tasks, i),
         UNCHANGED <<pc, arg, submitted, clock>>
  PROVE  SubmitInv' /\ QueueInv' /\ AnswerInv'
<1> DEFINE f == g_tasks[i].id
<1>1. /\ Distinct(g_tasks') /\ IdsOf(g_tasks') = IdsOf(g_tasks) \ {f}
      /\ \A j \in 1..Len(g_tasks') : \E k \in 1..Len(g_tasks) : g_tasks'[j] = g_tasks[k]
      /\ Len(report'[f]) = 1
      /\ \A x \in Ids \ {f} : report'[x] = report[x]
  BY Zenon, FinishEffect
<1>2. f \in IdsOf(g_tasks) /\ f \in Nat /\ f <= submitted /\ f \in Ids
  BY Zenon, TaskTypes
<1> HIDE DEF f
<1>3. SubmitInv'
  <2>1. \A d \in Clients : pc[d] = "submit" => arg[d].id \in Ids \ {f}
    <3> TAKE d \in Clients
    <3>1. pc[d] = "submit" => arg[d].id \in 1..submitted /\ submitted \in 0..MaxTasks
                              /\ arg[d].id # f
      BY Zenon, <1>2 DEF WaiterInv, SubmitInv, TypeOK
    <3> QED
      BY <3>1, WaiterAssumption DEF Ids
  <2> QED
    BY Zenon, <1>1, <2>1 DEF WaiterInv, SubmitInv
<1>4. QueueInv'
  <2> SUFFICES ASSUME NEW j \in 1..Len(g_tasks')
               PROVE  /\ g_tasks'[j].id <= submitted
                      /\ g_tasks'[j].start <= clock
                      /\ report'[g_tasks'[j].id] = <<>>
    BY Zenon, <1>1 DEF QueueInv
  <2>1. PICK k \in 1..Len(g_tasks) : g_tasks'[j] = g_tasks[k]
    BY Zenon, <1>1
  <2>2. g_tasks'[j].id \in Ids \ {f}
    <3>1. g_tasks'[j].id \in IdsOf(g_tasks')
      BY Zenon DEF IdsOf
    <3> QED
      BY Zenon, <1>1, <2>1, <3>1, TaskTypes
  <2> QED
    BY <1>1, <2>1, <2>2, TaskTypes
<1>5. AnswerInv'
  <2> SUFFICES ASSUME NEW id \in Ids
               PROVE  /\ id > submitted => report'[id] = <<>>
                      /\ id <= submitted =>
                           \/ \E d \in Clients : pc[d] = "submit" /\ arg[d].id = id
                           \/ id \in IdsOf(g_tasks')
                           \/ Len(report'[id]) = 1
    BY Zenon DEF AnswerInv
  <2>1. CASE id = f
    BY <1>1, <1>2, <2>1 DEF WaiterInv, TypeOK
  <2>2. CASE id # f
    BY Zenon, <1>1, <2>2 DEF WaiterInv, AnswerInv
  <2> QED
    BY Zenon, <2>1, <2>2
<1> QED
  BY Zenon, <1>3, <1>4, <1>5

\* After a task was erased at the iterator, the worker's part still holds.
LEMMA FinishWorkers ==
  ASSUME WaiterInv, NEW w \in Workers, AtTask(w), NEW s \in Status,
         Report(g_tasks[it[w]].id, s), g_tasks' = EraseAt(g_tasks, it[w]),
         UNCHANGED <<pc, arg, it, now, mutex, submitted, clock>>
  PROVE  WorkerInv'
<1>1. it[w] \in 1..Len(g_tasks) /\ mutex = w /\ pc[w] = "scan"
  BY LenProperties DEF AtTask, WaiterInv, TypeOK, WorkerInv
<1>2. /\ Len(g_tasks') = Len(g_tasks) - 1 /\ Len(g_tasks) \in Nat
      /\ \A j \in 1..Len(g_tasks') : \E k \in 1..Len(g_tasks) : g_tasks'[j] = g_tasks[k]
  BY Zenon, <1>1, FinishEffect, LenProperties DEF WaiterInv, TypeOK
<1>3. \A v \in Workers : pc[v] = "scan" => v = w
  BY Zenon, <1>1 DEF WaiterInv, WorkerInv
<1>4. it[w] <= Len(g_tasks') + 1
  BY <1>1, <1>2
<1>5. \A j \in 1..Len(g_tasks') : g_tasks'[j].start <= now[w]
  BY Zenon, <1>1, <1>2 DEF WaiterInv, WorkerInv
<1> QED
  BY Zenon, <1>3, <1>4, <1>5 DEF WaiterInv, WorkerInv

LEMMA WorkerTimeoutStep ==
  ASSUME WaiterInv, NEW w \in Workers, WorkerTimeout(w)
  PROVE  WaiterInv'
<1>1. it[w] \in 1..Len(g_tasks)
  BY LenProperties DEF WorkerTimeout, AtTask, WaiterInv, TypeOK
<1>2. /\ AtTask(w) /\ Report(g_tasks[it[w]].id, "TIMEOUT") /\ "TIMEOUT" \in Status
      /\ g_tasks' = EraseAt(g_tasks, it[w])
      /\ UNCHANGED <<clock, loaded, hooked, mutex, pc, arg, it, now, submitted, hookRes>>
  BY Zenon DEF WorkerTimeout, Status
<1>3. g_tasks' \in Seq(Task) /\ report' \in [Ids -> Seq(Status)]
  BY Zenon, <1>1, <1>2, FinishEffect
<1>4. TypeOK'
  BY Zenon, <1>2, <1>3 DEF WaiterInv, TypeOK
<1> QED
  BY Zenon, <1>1, <1>2, <1>4, FinishStep, FinishWorkers DEF WaiterInv

LEMMA WorkerInstallStep ==
  ASSUME WaiterInv, NEW w \in Workers, WorkerInstall(w)
  PROVE  WaiterInv'
<1>1. it[w] \in 1..Len(g_tasks)
  BY LenProperties DEF WorkerInstall, AtTask, WaiterInv, TypeOK
<1>2. /\ AtTask(w) /\ Report(g_tasks[it[w]].id, "INSTALLED") /\ "INSTALLED" \in Status
      /\ g_tasks' = EraseAt(g_tasks, it[w])
      /\ Hook(g_tasks[it[w]].id, g_tasks[it[w]].target)
      /\ UNCHANGED <<clock, loaded, mutex, pc, arg, it, now, submitted>>
  BY Zenon DEF WorkerInstall, TryInstall, Status
<1>3. g_tasks' \in Seq(Task) /\ report' \in [Ids -> Seq(Status)]
  BY Zenon, <1>1, <1>2, FinishEffect
<1>4. hooked' \in SUBSET Target /\ hookRes' \in [Ids -> {"none", "OK", "ALREADY", "FAILED"}]
  <2>1. g_tasks[it[w]].target \in Target /\ g_tasks[it[w]].id \in Ids
    BY Zenon, <1>1, TaskTypes DEF Task
  <2> QED
    BY Zenon, <1>2, <2>1, HookTypes
<1>5. TypeOK'
  BY Zenon, <1>2, <1>3, <1>4 DEF WaiterInv, TypeOK
<1> QED
  BY Zenon, <1>1, <1>2, <1>5, FinishStep, FinishWorkers DEF WaiterInv

\* The steps of a worker that answer no request.
LEMMA WorkerMoves ==
  ASSUME WaiterInv, NEW w \in Workers, NEW x \in {"idle", "locked", "scan", "asleep"},
         pc' = [pc EXCEPT ![w] = x],
         mutex' \in Workers \cup {NoOwner}, it' \in [Workers -> Nat \ {0}],
         now' \in [Workers -> 0..MaxTime],
         UNCHANGED <<clock, loaded, hooked, g_tasks, arg, submitted, report, hookRes>>,
         WorkerInv'
  PROVE  WaiterInv'
<1>1. /\ pc' \in [Threads -> {"idle", "submit", "cancel", "locked", "scan", "asleep"}]
      /\ \A t \in Threads \ {w} : pc'[t] = pc[t]
  BY Zenon DEF WaiterInv, TypeOK, Threads
<1>2. SubmitsStay
  <2>1. \A c \in Clients : c \in Threads \ {w}
    BY Zenon, WaiterAssumption DEF Threads
  <2> QED
    BY Zenon, <1>1, <2>1 DEF SubmitsStay, WaiterInv, SubmitInv
<1>3. TypeOK'
  BY Zenon, <1>1 DEF WaiterInv, TypeOK
<1>4. clock' \in Nat /\ clock <= clock'
  BY DEF WaiterInv, TypeOK
<1> QED
  BY Zenon, <1>2, <1>3, <1>4, RequestsStay DEF WaiterInv

LEMMA WorkerLockStep ==
  ASSUME WaiterInv, NEW w \in Workers, WorkerLock(w)
  PROVE  WaiterInv'
<1>1. /\ mutex = NoOwner /\ mutex' = w /\ pc' = [pc EXCEPT ![w] = "locked"]
      /\ UNCHANGED <<clock, loaded, hooked, g_tasks, arg, it, now, submitted, report, hookRes>>
  BY Zenon DEF WorkerLock
<1>2. \A v \in Workers : pc'[v] = IF v = w THEN "locked" ELSE "idle"
  BY Zenon, <1>1, NobodyScans DEF WaiterInv, TypeOK, Threads
<1>3. WorkerInv'
  BY <1>1, <1>2 DEF WorkerInv
<1>4. it' \in [Workers -> Nat \ {0}] /\ now' \in [Workers -> 0..MaxTime]
  BY Zenon, <1>1 DEF WaiterInv, TypeOK
<1> QED
  BY Zenon, <1>1, <1>3, <1>4, WorkerMoves

\* A worker that is not idle is the only one.
LEMMA OnlyWorker ==
  ASSUME WaiterInv, NEW w \in Workers, pc[w] # "idle"
  PROVE  mutex = w /\ \A v \in Workers \ {w} : pc[v] = "idle"
  BY Zenon DEF WaiterInv, WorkerInv

LEMMA WorkerBeginStep ==
  ASSUME WaiterInv, NEW w \in Workers, WorkerBegin(w)
  PROVE  WaiterInv'
<1>1. /\ pc[w] = "locked" /\ pc' = [pc EXCEPT ![w] = "scan"]
      /\ now' = [now EXCEPT ![w] = clock] /\ it' = [it EXCEPT ![w] = 1]
      /\ UNCHANGED <<clock, loaded, hooked, g_tasks, mutex, arg, submitted, report, hookRes>>
  BY Zenon DEF WorkerBegin
<1>2. mutex = w /\ \A v \in Workers \ {w} : pc[v] = "idle"
  BY Zenon, <1>1, OnlyWorker
<1>3. \A v \in Workers : pc'[v] = IF v = w THEN "scan" ELSE "idle"
  BY Zenon, <1>1, <1>2 DEF WaiterInv, TypeOK, Threads
<1>4. /\ it' \in [Workers -> Nat \ {0}] /\ now' \in [Workers -> 0..MaxTime]
      /\ it'[w] = 1 /\ now'[w] = clock /\ clock \in Nat
  BY <1>1 DEF WaiterInv, TypeOK
<1>5. 1 <= Len(g_tasks) + 1 /\ clock <= clock
  BY <1>4, LenProperties DEF WaiterInv, TypeOK
<1>6. \A i \in 1..Len(g_tasks) : g_tasks[i].start <= clock
  BY Zenon, TaskTypes
<1>7. WorkerInv'
  BY <1>1, <1>2, <1>3, <1>4, <1>5, <1>6 DEF WorkerInv
<1>8. mutex' \in Workers \cup {NoOwner}
  BY Zenon, <1>1, <1>2
<1> QED
  BY Zenon, <1>1, <1>4, <1>7, <1>8, WorkerMoves

LEMMA WorkerSkipStep ==
  ASSUME WaiterInv, NEW w \in Workers, WorkerSkip(w)
  PROVE  WaiterInv'
<1>1. /\ pc[w] = "scan" /\ it[w] <= Len(g_tasks) /\ it' = [it EXCEPT ![w] = @ + 1]
      /\ UNCHANGED <<clock, loaded, hooked, g_tasks, mutex, pc, arg, now, submitted, report, hookRes>>
  BY Zenon DEF WorkerSkip, AtTask
<1>2. /\ it \in [Workers -> Nat \ {0}] /\ Len(g_tasks) \in Nat /\ pc \in [Threads -> {"idle", "submit", "cancel", "locked", "scan", "asleep"}]
  BY Zenon, LenProperties DEF WaiterInv, TypeOK
<1>3. /\ it' \in [Workers -> Nat \ {0}] /\ it'[w] = it[w] + 1
      /\ \A v \in Workers \ {w} : it'[v] = it[v]
  BY <1>1, <1>2
<1>4. \A v \in Workers : pc[v] = "scan" => it'[v] <= Len(g_tasks) + 1
  BY <1>1, <1>2, <1>3 DEF WaiterInv, WorkerInv
<1>5. WorkerInv'
  BY Zenon, <1>1, <1>4 DEF WaiterInv, WorkerInv
<1>6. pc' = [pc EXCEPT ![w] = "scan"]
  BY Zenon, <1>1, <1>2 DEF Threads
<1>7. mutex' \in Workers \cup {NoOwner} /\ now' \in [Workers -> 0..MaxTime]
  BY Zenon, <1>1 DEF WaiterInv, TypeOK
<1> QED
  BY Zenon, <1>1, <1>3, <1>5, <1>6, <1>7, WorkerMoves

LEMMA WorkerSleepStep ==
  ASSUME WaiterInv, NEW w \in Workers, WorkerSleep(w)
  PROVE  WaiterInv'
<1>1. /\ pc[w] = "scan" /\ pc' = [pc EXCEPT ![w] = "asleep"]
      /\ UNCHANGED <<clock, loaded, hooked, g_tasks, mutex, arg, it, now, submitted, report, hookRes>>
  BY Zenon DEF WorkerSleep
<1>2. mutex = w /\ \A v \in Workers \ {w} : pc[v] = "idle"
  BY Zenon, <1>1, OnlyWorker
<1>3. \A v \in Workers : pc'[v] = IF v = w THEN "asleep" ELSE "idle"
  BY Zenon, <1>1, <1>2 DEF WaiterInv, TypeOK, Threads
<1>4. WorkerInv'
  BY <1>1, <1>2, <1>3 DEF WorkerInv
<1>5. /\ mutex' \in Workers \cup {NoOwner} /\ now' \in [Workers -> 0..MaxTime]
      /\ it' \in [Workers -> Nat \ {0}]
  BY Zenon, <1>1 DEF WaiterInv, TypeOK
<1> QED
  BY Zenon, <1>1, <1>4, <1>5, WorkerMoves

LEMMA WorkerWakeStep ==
  ASSUME WaiterInv, NEW w \in Workers, WorkerWake(w)
  PROVE  WaiterInv'
<1>1. /\ pc[w] = "asleep" /\ pc' = [pc EXCEPT ![w] = "idle"] /\ mutex' = NoOwner
      /\ it' = [it EXCEPT ![w] = 1] /\ now' = [now EXCEPT ![w] = 0]
      /\ UNCHANGED <<clock, loaded, hooked, g_tasks, arg, submitted, report, hookRes>>
  BY Zenon DEF WorkerWake
<1>2. \A v \in Workers \ {w} : pc[v] = "idle"
  BY Zenon, <1>1, OnlyWorker
<1>3. \A v \in Workers : pc'[v] = "idle"
  BY Zenon, <1>1, <1>2 DEF WaiterInv, TypeOK, Threads
<1>4. WorkerInv'
  BY Zenon, <1>3 DEF WorkerInv
<1>5. it' \in [Workers -> Nat \ {0}] /\ now' \in [Workers -> 0..MaxTime]
  BY <1>1, WaiterAssumption DEF WaiterInv, TypeOK
<1> QED
  BY Zenon, <1>1, <1>4, <1>5, WorkerMoves

\* Time passes, and libraries come and go.
LEMMA EnvironmentStep ==
  ASSUME WaiterInv, Tick \/ \E lib \in Libs : Load(lib) \/ Unload(lib)
  PROVE  WaiterInv'
<1>1. /\ UNCHANGED <<g_tasks, mutex, pc, arg, it, now, submitted, report, hookRes>>
      /\ loaded' \subseteq Libs /\ hooked' \subseteq Target
  BY Zenon DEF Tick, Load, Unload, WaiterInv, TypeOK
<1>2. clock \in Nat /\ clock' \in Nat /\ clock <= clock' /\ clock' \in 0..MaxTime
  BY WaiterAssumption DEF Tick, Load, Unload, WaiterInv, TypeOK
<1>3. TypeOK'
  BY Zenon, <1>1, <1>2 DEF WaiterInv, TypeOK
<1>4. SubmitsStay
  BY Zenon, <1>1 DEF SubmitsStay, WaiterInv, SubmitInv
<1>5. WorkerInv'
  <2>1. \A w \in Workers : now[w] \in Nat
    BY DEF WaiterInv, TypeOK
  <2>2. \A w \in Workers : pc[w] = "scan" => now[w] <= clock'
    BY <1>2, <2>1 DEF WaiterInv, WorkerInv
  <2> QED
    BY Zenon, <1>1, <2>2 DEF WaiterInv, WorkerInv
<1> QED
  BY Zenon, <1>1, <1>2, <1>3, <1>4, <1>5, RequestsStay DEF WaiterInv

\* A step that changes nothing.
LEMMA StutterStep ==
  ASSUME WaiterInv, UNCHANGED vars
  PROVE  WaiterInv'
<1> USE DEF vars
<1>1. TypeOK'
  BY Zenon DEF WaiterInv, TypeOK
<1>2. SubmitInv' /\ QueueInv' /\ AnswerInv' /\ WorkerInv'
  BY Zenon DEF WaiterInv, SubmitInv, QueueInv, AnswerInv, WorkerInv
<1> QED
  BY Zenon, <1>1, <1>2 DEF WaiterInv

LEMMA WaiterNext ==
  ASSUME WaiterInv, [Next]_vars
  PROVE  WaiterInv'
<1>1. ASSUME NEW c \in Clients, NEW tg \in Target, NEW n \in Timeouts, SubmitCall(c, tg, n)
      PROVE  WaiterInv'
  BY Zenon, <1>1, SubmitCallStep
<1>2. ASSUME NEW c \in Clients, NEW lib \in Libs, NEW sym \in Syms \cup {AnySym},
             CancelCall(c, lib, sym)
      PROVE  WaiterInv'
  BY Zenon, <1>2, CancelCallStep
<1>3. ASSUME NEW c \in Clients, SubmitLocked(c) PROVE WaiterInv'
  <2>1. CASE TryInstall(arg[c].id, arg[c].target) /\ UNCHANGED g_tasks
    BY Zenon, <1>3, <2>1, SubmitInstallStep
  <2>2. CASE /\ g_tasks' = Append(g_tasks, [id |-> arg[c].id, target |-> arg[c].target,
                                            timeout |-> arg[c].timeout, start |-> clock])
             /\ UNCHANGED <<hooked, report, hookRes>>
    BY Zenon, <1>3, <2>2, SubmitQueueStep
  <2> QED
    BY Zenon, <1>3, <2>1, <2>2 DEF SubmitLocked
<1>4. ASSUME NEW c \in Clients, CancelLocked(c) PROVE WaiterInv'
  BY Zenon, <1>4, CancelLockedStep
<1>5. ASSUME NEW w \in Workers, WorkerStep(w) PROVE WaiterInv'
  BY Zenon, <1>5, WorkerLockStep, WorkerBeginStep, WorkerTimeoutStep, WorkerInstallStep, WorkerSkipStep,
     WorkerSleepStep, WorkerWakeStep DEF WorkerStep
<1>6. CASE Tick \/ \E lib \in Libs : Load(lib) \/ Unload(lib)
  BY Zenon, <1>6, EnvironmentStep
<1>7. CASE UNCHANGED vars
  BY Zenon, <1>7, StutterStep
<1> QED
  BY Zenon, <1>1, <1>2, <1>3, <1>4, <1>5, <1>6, <1>7 DEF Next
-----------------------------------------------------------------------------
(* Theorems *)

\* Submit, Cancel and worker_main keep the queue, the reports, the mutex and
\* the worker's iterator consistent.
THEOREM WaiterInvariant == Spec => []WaiterInv
  BY WaiterInit, WaiterNext, PTL DEF Spec

\* Waiter::Submit, Waiter::Cancel and worker_main neither lose a request nor
\* answer one twice.
THEOREM RequestsAnsweredOnce == Spec => []AnsweredOnce
<1>1. WaiterInv => AnsweredOnce
  <2> SUFFICES ASSUME WaiterInv PROVE AnsweredOnce
    BY Zenon
  <2>1. QueuedIds = IdsOf(g_tasks)
    BY Zenon DEF QueuedIds, IdsOf
  <2>2. \A i, j \in 1..Len(g_tasks) : g_tasks[i].id = g_tasks[j].id => i = j
    BY Zenon DEF WaiterInv, QueueInv, Distinct
  <2>3. \A id \in IdsOf(g_tasks) : report[id] = <<>>
    BY Zenon, TaskTypes DEF IdsOf
  <2>4. \A c \in Clients : pc[c] = "submit" =>
          arg[c].id \notin IdsOf(g_tasks) /\ report[arg[c].id] = <<>>
    BY Zenon DEF WaiterInv, SubmitInv
  <2>5. Len(<<>>) # 1
    OBVIOUS
  <2> SUFFICES ASSUME NEW id \in 1..submitted
               PROVE  \/ /\ \E c \in Clients : pc[c] = "submit" /\ arg[c].id = id
                         /\ id \notin QueuedIds /\ report[id] = <<>>
                      \/ id \in QueuedIds /\ report[id] = <<>>
                      \/ id \notin QueuedIds /\ Len(report[id]) = 1
    BY Zenon, <2>2 DEF AnsweredOnce
  <2>6. id \in Ids /\ id <= submitted
    BY WaiterAssumption DEF WaiterInv, TypeOK, Ids
  <2>7. \/ \E c \in Clients : pc[c] = "submit" /\ arg[c].id = id
        \/ id \in IdsOf(g_tasks)
        \/ Len(report[id]) = 1
    BY Zenon, <2>6 DEF WaiterInv, AnswerInv
  <2> QED
    BY Zenon, <2>1, <2>3, <2>4, <2>5, <2>7
<1> QED
  BY <1>1, WaiterInvariant, PTL

\* worker_main's iterator stays valid: the mutex it keeps while it sleeps keeps
\* every other thread from changing the queue.
THEOREM IteratorsStayValid == Spec => []IteratorValid
<1>1. WaiterInv => IteratorValid
  BY Zenon DEF WaiterInv, WorkerInv, IteratorValid
<1> QED
  BY <1>1, WaiterInvariant, PTL

\* A step leaves the queue and the reports alone, or ends a Submit or a Cancel,
\* or answers the task at a worker's iterator.
LEMMA StepKinds ==
  ASSUME Next
  PROVE  \/ UNCHANGED <<g_tasks, report>>
         \/ \E c \in Clients : SubmitLocked(c) \/ CancelLocked(c)
         \/ \E w \in Workers : WorkerTimeout(w) \/ WorkerInstall(w)
  BY Zenon DEF Next, WorkerStep, SubmitCall, CancelCall, WorkerLock, WorkerBegin, WorkerSkip, WorkerSleep,
         WorkerWake, Tick, Load, Unload

\* The answer a worker gives to a task at its iterator.
LEMMA WorkerAnswers ==
  ASSUME WaiterInv, NEW w \in Workers, NEW s \in Status, AtTask(w),
         Report(g_tasks[it[w]].id, s), g_tasks' = EraseAt(g_tasks, it[w])
  PROVE  /\ it[w] \in 1..Len(g_tasks) /\ g_tasks[it[w]].id \in Ids
         /\ IdsOf(g_tasks') = IdsOf(g_tasks) \ {g_tasks[it[w]].id}
         /\ Len(report'[g_tasks[it[w]].id]) = 1 /\ report'[g_tasks[it[w]].id] # <<>>
         /\ report'[g_tasks[it[w]].id][1] = s
         /\ \A x \in Ids \ {g_tasks[it[w]].id} : report'[x] = report[x]
<1>1. it[w] \in 1..Len(g_tasks)
  BY LenProperties DEF AtTask, WaiterInv, TypeOK
<1> QED
  BY Zenon, <1>1, TaskTypes, FinishEffect

\* A timeout is reported by worker_main alone, at its iterator, after the task
\* waited longer than its timeout: the sample is not older than the task, so
\* the unsigned difference does not wrap.
LEMMA TimeoutIsLate ==
  ASSUME WaiterInv, Next, NEW i \in 1..Len(g_tasks),
         report'[g_tasks[i].id] = Append(report[g_tasks[i].id], "TIMEOUT")
  PROVE  g_tasks[i].timeout # 0 /\ clock - g_tasks[i].start > g_tasks[i].timeout
<1> DEFINE id == g_tasks[i].id
<1>1. id \in Ids /\ id \in IdsOf(g_tasks) /\ report[id] = <<>>
  BY Zenon, TaskTypes
<1>2. report'[id] = <<"TIMEOUT">>
  <2>1. Append(<<>>, "TIMEOUT") = <<"TIMEOUT">>
    OBVIOUS
  <2> QED
    BY Zenon, <1>1, <2>1
<1>3. report'[id] # report[id] /\ report'[id][1] = "TIMEOUT"
  BY <1>1, <1>2
<1>4. ~ UNCHANGED <<g_tasks, report>>
  BY Zenon, <1>3
<1> HIDE DEF id
<1>5. ASSUME NEW c \in Clients, SubmitLocked(c) PROVE FALSE
  <2>1. arg[c].id # id /\ arg[c].id \in Ids /\ report[arg[c].id] = <<>>
    BY Zenon, <1>1, <1>5, SubmitLeaves
  <2>2. CASE Report(arg[c].id, "INSTALLED")
    BY Zenon, <1>1, <1>3, <2>1, <2>2, ReportEffect DEF Status
  <2>3. CASE UNCHANGED report
    BY Zenon, <1>3, <2>3
  <2> QED
    BY Zenon, <1>5, <2>2, <2>3 DEF SubmitLocked, TryInstall
<1>6. ASSUME NEW c \in Clients, CancelLocked(c) PROVE FALSE
  <2>1. report'[id] = <<"CANCELLED">> \/ report'[id] = report[id]
    BY Zenon, <1>1, <1>6, CancelEffect
  <2> QED
    BY <1>3, <2>1
<1>7. ASSUME NEW w \in Workers, WorkerInstall(w) PROVE FALSE
  <2>1. /\ AtTask(w) /\ Report(g_tasks[it[w]].id, "INSTALLED") /\ "INSTALLED" \in Status
        /\ g_tasks' = EraseAt(g_tasks, it[w])
    BY Zenon, <1>7 DEF WorkerInstall, TryInstall, Status
  <2>2. report'[id][1] = "INSTALLED" \/ report'[id] = report[id]
    BY Zenon, <1>1, <2>1, WorkerAnswers
  <2> QED
    BY Zenon, <1>3, <2>2
<1>8. PICK w \in Workers : WorkerTimeout(w)
  BY Zenon, <1>4, <1>5, <1>6, <1>7, StepKinds
<1>9. i = it[w] /\ Expired(g_tasks[it[w]], now[w]) /\ pc[w] = "scan"
  <2>1. /\ AtTask(w) /\ Report(g_tasks[it[w]].id, "TIMEOUT") /\ "TIMEOUT" \in Status
        /\ g_tasks' = EraseAt(g_tasks, it[w]) /\ Expired(g_tasks[it[w]], now[w])
    BY Zenon, <1>8 DEF WorkerTimeout, Status
  <2>2. it[w] \in 1..Len(g_tasks) /\ id = g_tasks[it[w]].id
    BY Zenon, <1>1, <1>3, <2>1, WorkerAnswers
  <2> QED
    BY Zenon, <2>1, <2>2 DEF WaiterInv, QueueInv, Distinct, AtTask, id
<1>10. /\ g_tasks[i].start \in Nat /\ g_tasks[i].timeout \in Nat
       /\ now[w] \in Nat /\ now[w] <= MaxTime /\ clock \in Nat
       /\ g_tasks[i].start <= now[w] /\ now[w] <= clock
  BY <1>9, TaskTypes DEF WaiterInv, TypeOK, WorkerInv
<1>11. (now[w] - g_tasks[i].start) % TimeRange = now[w] - g_tasks[i].start
  <2>1. MaxTime \in Nat /\ TimeRange \in Nat /\ MaxTime < TimeRange
    BY Zenon, WaiterAssumption
  <2>2. now[w] - g_tasks[i].start \in Nat /\ now[w] - g_tasks[i].start < TimeRange
    BY <1>10, <2>1
  <2> QED
    BY Zenon, <2>1, <2>2, ModSmall
<1>12. g_tasks[i].timeout # 0 /\ now[w] - g_tasks[i].start > g_tasks[i].timeout
  BY Zenon, <1>9, <1>11 DEF Expired
<1> QED
  BY <1>10, <1>12

\* worker_main never reports a timeout early, however the clock and the worker
\* interleave with Submit.
THEOREM TimeoutsAreLate == Spec => NoEarlyTimeout
<1>1. WaiterInv /\ [Next]_vars =>
        [\A i \in 1..Len(g_tasks) :
           LET task == g_tasks[i]
           IN  report'[task.id] = Append(report[task.id], "TIMEOUT") =>
                 task.timeout # 0 /\ clock - task.start > task.timeout]_vars
  BY Zenon, TimeoutIsLate
<1> QED
  BY <1>1, WaiterInvariant, PTL DEF Spec, NoEarlyTimeout
-----------------------------------------------------------------------------
(* The queue implements WaitRequest *)

\* What the API can tell of a request that is queued, and of one that is not.
LEMMA StatusValues ==
  ASSUME WaiterInv, NEW id \in Ids
  PROVE  /\ report[id] = <<>> /\ id \in IdsOf(g_tasks) => requestStatus[id] = "PENDING"
         /\ report[id] = <<>> /\ id \notin IdsOf(g_tasks) => requestStatus[id] = "none"
  BY Zenon DEF requestStatus, QueuedIds, IdsOf

\* What it can tell after the step.
LEMMA StatusValuesAfter ==
  ASSUME NEW id \in Ids
  PROVE  /\ report'[id] = <<>> /\ id \in IdsOf(g_tasks') => requestStatus'[id] = "PENDING"
         /\ report'[id] # <<>> /\ Len(report'[id]) = 1 => requestStatus'[id] = report'[id][1]
         /\ report'[id] = report[id] /\ (id \in IdsOf(g_tasks') <=> id \in IdsOf(g_tasks)) =>
              requestStatus'[id] = requestStatus[id]
  BY Zenon DEF requestStatus, QueuedIds, IdsOf

\* A step that changes the status of one request only.
LEMMA OneStatus ==
  ASSUME NEW id \in Ids, NEW s, requestStatus'[id] = s,
         \A x \in Ids \ {id} : requestStatus'[x] = requestStatus[x]
  PROVE  requestStatus' = [requestStatus EXCEPT ![id] = s]
<1>1. /\ requestStatus = [x \in Ids |-> requestStatus[x]]
      /\ requestStatus' = [x \in Ids |-> requestStatus'[x]]
  BY Zenon DEF requestStatus
<1>2. [requestStatus EXCEPT ![id] = s] = [x \in Ids |-> IF x = id THEN s ELSE requestStatus[x]]
  BY Zenon, <1>1
<1>3. [x \in Ids |-> requestStatus'[x]] = [x \in Ids |-> IF x = id THEN s ELSE requestStatus[x]]
  BY Zenon
<1> QED
  BY Zenon, <1>1, <1>2, <1>3

\* Submit is a Submit of the abstract specification.
LEMMA SubmitRefines ==
  ASSUME WaiterInv, NEW c \in Clients, SubmitLocked(c)
  PROVE  Request!Next
<1> DEFINE id == arg[c].id
<1>1. id \in Ids /\ id \notin IdsOf(g_tasks) /\ report[id] = <<>>
  BY Zenon, SubmitLeaves
<1> HIDE DEF id
<1>2. requestStatus[id] = "none"
  BY Zenon, <1>1, StatusValues
<1>3. CASE TryInstall(id, arg[c].target) /\ UNCHANGED g_tasks
  <2>1. /\ Len(report'[id]) = 1 /\ report'[id] # <<>> /\ report'[id][1] = "INSTALLED"
        /\ \A x \in Ids \ {id} : report'[x] = report[x]
    BY Zenon, <1>1, <1>3, ReportEffect DEF TryInstall, Status
  <2>2. /\ requestStatus'[id] = "INSTALLED"
        /\ \A x \in Ids \ {id} : requestStatus'[x] = requestStatus[x]
    BY Zenon, <1>1, <1>3, <2>1, StatusValuesAfter
  <2>3. requestStatus' = [requestStatus EXCEPT ![id] = "INSTALLED"]
    BY Zenon, <1>1, <2>2, OneStatus
  <2> QED
    BY Zenon, <1>1, <1>2, <2>3 DEF Request!Next, Request!Submit
<1>4. CASE /\ g_tasks' = Append(g_tasks, [id |-> id, target |-> arg[c].target,
                                          timeout |-> arg[c].timeout, start |-> clock])
           /\ UNCHANGED <<hooked, report, hookRes>>
  <2> DEFINE x == [id |-> id, target |-> arg[c].target, timeout |-> arg[c].timeout, start |-> clock]
  <2>1. x \in Task /\ x.id = id
    <3>1. arg[c].target \in Target /\ arg[c].timeout \in Timeouts /\ clock \in 0..MaxTime
      BY Zenon, SubmitLeaves DEF WaiterInv, TypeOK
    <3> QED
      BY Zenon, <1>1, <3>1 DEF Task
  <2>2. g_tasks' = Append(g_tasks, x) /\ g_tasks \in Seq(Task) /\ Distinct(g_tasks)
    BY Zenon, <1>4 DEF WaiterInv, TypeOK, QueueInv
  <2> HIDE DEF x
  <2>3. IdsOf(g_tasks') = IdsOf(g_tasks) \cup {id}
    BY Zenon, <1>1, <2>1, <2>2, AppendTask
  <2>4. /\ requestStatus'[id] = "PENDING"
        /\ \A y \in Ids \ {id} : requestStatus'[y] = requestStatus[y]
    BY Zenon, <1>1, <1>4, <2>3, StatusValuesAfter
  <2>5. requestStatus' = [requestStatus EXCEPT ![id] = "PENDING"]
    BY Zenon, <1>1, <2>4, OneStatus
  <2> QED
    BY Zenon, <1>1, <1>2, <2>5 DEF Request!Next, Request!Submit
<1> QED
  BY Zenon, <1>3, <1>4 DEF SubmitLocked, id

\* Cancel ends a set of pending requests at once.
LEMMA CancelRefines ==
  ASSUME WaiterInv, NEW c \in Clients, CancelLocked(c)
  PROVE  Request!Next
<1>1. PICK gone \in SUBSET IdsOf(g_tasks) :
           /\ g_tasks' \in Seq(Task) /\ Distinct(g_tasks')
           /\ IdsOf(g_tasks') = IdsOf(g_tasks) \ gone
           /\ \A j \in 1..Len(g_tasks') : \E k \in 1..Len(g_tasks) : g_tasks'[j] = g_tasks[k]
           /\ report' \in [Ids -> Seq(Status)]
           /\ \A id \in gone : report'[id] = <<"CANCELLED">>
           /\ \A id \in Ids \ gone : report'[id] = report[id]
  BY Zenon, CancelEffect
<1>2. gone \in SUBSET Ids /\ \A id \in gone : report[id] = <<>> /\ id \in IdsOf(g_tasks)
  BY Zenon, TaskTypes DEF IdsOf
<1>3. \A id \in gone : requestStatus[id] = "PENDING"
  BY Zenon, <1>2, StatusValues
<1>4. \A id \in gone : requestStatus'[id] = "CANCELLED"
  <2> TAKE id \in gone
  <2>1. report'[id] # <<>> /\ Len(report'[id]) = 1 /\ report'[id][1] = "CANCELLED"
    <3>1. report'[id] = <<"CANCELLED">>
      BY Zenon, <1>1
    <3> QED
      BY <3>1
  <2> QED
    BY Zenon, <1>2, <2>1, StatusValuesAfter
<1>5. \A id \in Ids \ gone : requestStatus'[id] = requestStatus[id]
  BY Zenon, <1>1, StatusValuesAfter
<1>6. requestStatus' = [id \in Ids |-> IF id \in gone THEN "CANCELLED" ELSE requestStatus[id]]
  <2>1. requestStatus' = [id \in Ids |-> requestStatus'[id]]
    BY Zenon DEF requestStatus
  <2>2. [id \in Ids |-> requestStatus'[id]]
          = [id \in Ids |-> IF id \in gone THEN "CANCELLED" ELSE requestStatus[id]]
    BY Zenon, <1>4, <1>5
  <2> QED
    BY Zenon, <2>1, <2>2
<1>7. Request!Cancel(gone)
  BY Zenon, <1>3, <1>6 DEF Request!Cancel
<1> QED
  BY Zenon, <1>2, <1>7 DEF Request!Next

\* The worker's answer ends one pending request.
LEMMA FinishRefines ==
  ASSUME WaiterInv, NEW w \in Workers, NEW s \in Status, AtTask(w),
         Report(g_tasks[it[w]].id, s), g_tasks' = EraseAt(g_tasks, it[w])
  PROVE  Request!Next
<1> DEFINE id == g_tasks[it[w]].id
<1>1. /\ it[w] \in 1..Len(g_tasks) /\ id \in Ids
      /\ IdsOf(g_tasks') = IdsOf(g_tasks) \ {id}
      /\ Len(report'[id]) = 1 /\ report'[id] # <<>> /\ report'[id][1] = s
      /\ \A x \in Ids \ {id} : report'[x] = report[x]
  BY Zenon, WorkerAnswers
<1>2. report[id] = <<>> /\ id \in IdsOf(g_tasks)
  BY Zenon, <1>1, TaskTypes
<1> HIDE DEF id
<1>3. requestStatus[id] = "PENDING"
  BY Zenon, <1>1, <1>2, StatusValues
<1>4. requestStatus'[id] = s /\ \A x \in Ids \ {id} : requestStatus'[x] = requestStatus[x]
  BY Zenon, <1>1, StatusValuesAfter
<1>5. requestStatus' = [requestStatus EXCEPT ![id] = s]
  BY Zenon, <1>1, <1>4, OneStatus
<1>6. s \in Request!Final
  BY Zenon DEF Request!Final, Status
<1>7. Request!Finish(id)
  BY Zenon, <1>3, <1>5, <1>6 DEF Request!Finish
<1> QED
  BY Zenon, <1>1, <1>7 DEF Request!Next

\* The queue of waiter.cpp keeps the promise of the DOBBY_WAIT codes: a request
\* is installed at once or becomes pending, and a pending one ends exactly once.
THEOREM QueueImplementsRequests == Spec => RequestLifeCycle
<1>1. Init => Request!Init
  <2> SUFFICES ASSUME Init PROVE Request!Init
    BY Zenon
  <2>1. QueuedIds = {}
    BY DEF Init, QueuedIds
  <2>2. requestStatus = [id \in Ids |-> "none"]
    BY Zenon, <2>1 DEF Init, requestStatus
  <2> QED
    BY Zenon, <2>2 DEF Request!Init
<1>2. WaiterInv /\ [Next]_vars => [Request!Next]_requestStatus
  <2> SUFFICES ASSUME WaiterInv, [Next]_vars PROVE [Request!Next]_requestStatus
    BY Zenon
  <2>1. CASE UNCHANGED <<g_tasks, report>>
    BY Zenon, <2>1 DEF requestStatus, QueuedIds
  <2>2. ASSUME NEW c \in Clients, SubmitLocked(c) \/ CancelLocked(c) PROVE Request!Next
    BY Zenon, <2>2, SubmitRefines, CancelRefines
  <2>3. ASSUME NEW w \in Workers, WorkerTimeout(w) \/ WorkerInstall(w) PROVE Request!Next
    BY Zenon, <2>3, FinishRefines DEF WorkerTimeout, WorkerInstall, TryInstall, Status
  <2>4. CASE UNCHANGED vars
    BY Zenon, <2>1, <2>4 DEF vars
  <2> QED
    BY Zenon, <2>1, <2>2, <2>3, <2>4, StepKinds
<1> QED
  BY <1>1, <1>2, WaiterInvariant, PTL DEF Spec, RequestLifeCycle, Request!Spec
=============================================================================
