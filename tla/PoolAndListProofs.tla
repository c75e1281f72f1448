-------------------------- MODULE PoolAndListProofs --------------------------
(***************************************************************************)
(* Proofs about two components that share nothing, WorkerPool and          *)
(* LockFreeList.                                                           *)
(*                                                                         *)
(* The pool, for every number of workers, submitters and tasks.  Work says *)
(* where tasks can be: in the queue that Submit draws, in the hand of that *)
(* queue's worker, and nowhere else.  Owner says what the owner's progress *)
(* tells about the workers: threads it has not started are unborn, threads *)
(* it has joined have ended; Scanned, that after a scan that found every   *)
(* queue empty nothing is queued any more.                                 *)
(*                                                                         *)
(* The list, for every number of threads, keys and nodes.  Fits(p) says    *)
(* that p are the nodes of the list, in order, and what each thread may    *)
(* rely on: where its search has come, and where its CAS would link.       *)
(***************************************************************************)
EXTENDS WorkerPool, LockFreeList, FiniteSetTheorems, SequenceTheorems, ChainLemmas, TLAPS

\* Where tasks can be.
Work ==
    \A i \in Worker :
        /\ i # Index => queue[i] = <<>>
        /\ i # Index \/ wpc[i] # "run" => task[i] = <<>>

\* What the owner's place tells about its loop variable and the threads.
Owner ==
    /\ owner \in {"create", "scan"} => ~drained
    /\ owner = "open" => ~drained
    /\ owner \in {"create", "close", "notify"} => pos < N
    /\ owner = "create" => \A i \in Worker : i >= pos => wpc[i] = "unborn"
    /\ owner = "gone" => Joined

\* What a scan has found: nobody submits any more, so empty queues stay empty.
Scanned ==
    /\ owner \notin {"create", "unwind", "threw", "open"} => Submitted
    /\ owner = "scan" /\ ~busy => \A i \in Worker : i < pos => queue[i] = <<>>
    /\ drained => Submitted /\ \A i \in Worker : queue[i] = <<>>

WInv == TypeOK /\ Work /\ PopNeverEmpty /\ Owner /\ Scanned

-----------------------------------------------------------------------------
LEMMA WorkersExist == Worker \subseteq Nat /\ Index \in Worker /\ N \in Nat
  BY NAssumption, IndexAssumption DEF Worker

\* A task's place is a sequence of at most one task.
LEMMA HandIsSeq ==
    /\ Hand \subseteq Seq(Task)
    /\ <<>> \in Hand
    /\ \A t \in Task : <<t>> \in Hand /\ <<t>> # <<>>
<1>1. <<>> \in Seq(Task) /\ \A t \in Task : <<t>> \in Seq(Task) /\ <<t>> # <<>>
  OBVIOUS
<1> QED
  BY <1>1 DEF Hand

LEMMA Assoc == \A a, b, c \in Seq(Task) : (a \o b) \o c = a \o (b \o c)
  BY ConcatAssociative

\* The types of what the owner writes, and of the rest.
OwnerTypes == /\ owner \in OwnerLabels
              /\ pos \in 0 .. N
              /\ busy \in BOOLEAN
              /\ drained \in BOOLEAN
              /\ done \in BOOLEAN

QueueTypes == /\ queue \in [Worker -> Seq(Task)]
              /\ running \in [Worker -> BOOLEAN]
              /\ wpc \in [Worker -> WorkerLabels]
              /\ task \in [Worker -> Hand]
              /\ sent \in [Submitter -> 0 .. Load]
              /\ pushed \in Seq(Task)
              /\ executed \in Seq(Task)

LEMMA TwoTypes == TypeOK <=> OwnerTypes /\ QueueTypes
  BY DEF TypeOK, OwnerTypes, QueueTypes

LEMMA InitWInv == Init => WInv
<1> SUFFICES ASSUME Init PROVE WInv
  OBVIOUS
<1> USE WorkersExist
<1>1. TypeOK
  <2>1. OwnerTypes
    <3>1. pos \in 0 .. N
      BY NAssumption DEF Init
    <3> QED
      BY <3>1 DEF Init, OwnerTypes, OwnerLabels
  <2>2. QueueTypes
    BY HandIsSeq, LoadAssumption DEF Init, QueueTypes, WorkerLabels
  <2> QED
    BY <2>1, <2>2, TwoTypes
<1>2. Work /\ PopNeverEmpty
  BY DEF Init, Work, PopNeverEmpty
<1>3. Owner /\ Scanned
  BY NAssumption DEF Init, Owner, Scanned
<1> QED
  BY <1>1, <1>2, <1>3 DEF WInv

\* The owner's steps keep the invariant.
LEMMA OwnerKeeps == WInv /\ OwnerStep => WInv'
<1> SUFFICES ASSUME WInv, OwnerStep PROVE WInv'
  OBVIOUS
<1> USE WorkersExist, NAssumption DEF WInv
<1>1. CASE StartThread
  <2>1. TypeOK'
    <3>1. OwnerTypes'
      BY <1>1, TwoTypes DEF StartThread, Owner, OwnerTypes, OwnerLabels
    <3>2. QueueTypes'
      BY <1>1, TwoTypes DEF StartThread, QueueTypes, Goto, Goes, WorkerLabels, clientVars, ownerVars
    <3> QED
      BY <3>1, <3>2 DEF TypeOK, OwnerTypes, QueueTypes
  <2>2. wpc[pos] = "unborn" /\ pos \in Worker
    BY <1>1 DEF StartThread, Owner, TypeOK, Worker
  <2>3. Work' /\ PopNeverEmpty'
    BY <1>1, <2>2 DEF StartThread, Work, PopNeverEmpty, Goto, Goes, TypeOK
  <2>4. Owner'
    BY <1>1, <2>2 DEF StartThread, Owner, Goto, Goes, TypeOK, Worker
  <2>5. Scanned'
    BY <1>1 DEF StartThread, Scanned, Owner, Submitted, clientVars, ownerVars
  <2> QED
    BY <2>1, <2>3, <2>4, <2>5
<1>2. CASE StartFails \/ Throw \/ StartScan \/ SkipScan \/ SetDone \/ Join
  <2> USE DEF StartFails, Throw, StartScan, SkipScan, SetDone, Join, OwnerGoes,
              poolVars, clientVars, ownerVars
  <2>1. TypeOK'
    <3>1. OwnerTypes'
      <4>1. pos' \in 0 .. N
        BY <1>2 DEF TypeOK
      <4> QED
        BY <1>2, <4>1, TwoTypes DEF OwnerTypes, OwnerLabels
    <3>2. QueueTypes'
      BY <1>2, TwoTypes DEF QueueTypes
    <3> QED
      BY <3>1, <3>2 DEF TypeOK, OwnerTypes, QueueTypes
  <2>2. Work' /\ PopNeverEmpty'
    BY <1>2 DEF Work, PopNeverEmpty
  <2>3. Owner'
    BY <1>2 DEF Owner, Joined
  <2>4. Scanned'
    BY <1>2 DEF Scanned, Submitted
  <2> QED
    BY <2>1, <2>2, <2>3, <2>4
<1>3. CASE Scan
  <2> USE <1>3 DEF Scan, OwnerGoes, poolVars, clientVars, ownerVars
  <2>1. TypeOK'
    <3>1. pos' \in 0 .. N
      BY DEF TypeOK
    <3>2. busy' \in BOOLEAN
      BY DEF TypeOK
    <3>3. QueueTypes'
      BY TwoTypes DEF QueueTypes
    <3> QED
      BY <3>1, <3>2, <3>3 DEF TypeOK, QueueTypes
  <2>2. Work' /\ PopNeverEmpty' /\ Owner'
    BY DEF Work, PopNeverEmpty, Owner, Joined
  <2>3. Scanned'
    <3>1. Submitted' /\ ~drained /\ ~drained'
      BY DEF Scanned, Submitted, Owner
    <3>2. ASSUME ~busy', NEW i \in Worker, i < pos'
          PROVE  queue'[i] = <<>>
      <4>1. ~busy /\ queue[pos] = <<>>
        BY <3>2 DEF IsBusy
      <4>2. i < pos \/ i = pos
        BY <3>2 DEF TypeOK
      <4> QED
        BY <4>1, <4>2 DEF Scanned
    <3> QED
      BY <3>1, <3>2 DEF Scanned
  <2> QED
    BY <2>1, <2>2, <2>3
<1>4. CASE ScanAgain \/ ScanEnds
  <2> USE <1>4 DEF ScanAgain, ScanEnds, OwnerGoes, poolVars, clientVars, ownerVars
  <2>1. TypeOK'
    <3>1. OwnerTypes'
      <4>1. pos' \in 0 .. N
        BY DEF TypeOK
      <4> QED
        BY <4>1, TwoTypes DEF OwnerTypes, OwnerLabels
    <3>2. QueueTypes'
      BY TwoTypes DEF QueueTypes
    <3> QED
      BY <3>1, <3>2 DEF TypeOK, OwnerTypes, QueueTypes
  <2>2. Work' /\ PopNeverEmpty' /\ Owner'
    BY DEF Work, PopNeverEmpty, Owner, Joined
  <2>3. Scanned'
    BY DEF Scanned, Submitted, Worker
  <2> QED
    BY <2>1, <2>2, <2>3
<1>5. CASE Close
  <2> USE <1>5 DEF Close, clientVars, ownerVars
  <2>1. TypeOK'
    BY DEF TypeOK, OwnerLabels
  <2>2. Work' /\ PopNeverEmpty'
    BY DEF Work, PopNeverEmpty, TypeOK
  <2>3. Owner' /\ Scanned'
    BY DEF Owner, Scanned, Submitted
  <2> QED
    BY <2>1, <2>2, <2>3
<1>6. CASE CloseNotifies
  <2> USE <1>6 DEF CloseNotifies, Notified, clientVars, ownerVars
  <2>1. pos \in Worker
    BY DEF Owner, TypeOK, Worker
  <2>2. TypeOK'
    BY <2>1 DEF TypeOK, OwnerLabels, WorkerLabels, Worker
  <2>3. Work' /\ PopNeverEmpty'
    BY DEF Work, PopNeverEmpty, TypeOK
  <2>4. Owner' /\ Scanned'
    BY <2>1 DEF Owner, Scanned, Submitted, TypeOK, Worker
  <2> QED
    BY <2>2, <2>3, <2>4
<1> QED
  BY <1>1, <1>2, <1>3, <1>4, <1>5, <1>6 DEF OwnerStep

\* A Submit keeps the invariant: it happens only while the owner is "open".
LEMMA SubmitKeeps == ASSUME WInv, NEW s \in Submitter, Submit(s) PROVE WInv'
<1> USE WorkersExist DEF WInv, Submit
<1>1. <<s, sent'[s]>> \in Task /\ sent' \in [Submitter -> 0 .. Load]
  BY LoadAssumption DEF TypeOK, HasMore, Task
<1>2. /\ Append(queue[Index], <<s, sent'[s]>>) \in Seq(Task) \ {<<>>}
      /\ pushed' \in Seq(Task)
  <2>1. queue[Index] \in Seq(Task) /\ pushed \in Seq(Task)
    BY DEF TypeOK
  <2>2. \A x \in Seq(Task) : Append(x, <<s, sent'[s]>>) \in Seq(Task) \ {<<>>}
    BY <1>1, AppendProperties
  <2> QED
    BY <2>1, <2>2
<1>3. wpc' \in [Worker -> WorkerLabels]
  BY DEF TypeOK, Notified, WorkerLabels
<1>4. TypeOK'
  BY <1>1, <1>2, <1>3 DEF TypeOK, ownerVars
<1>5. Work' /\ PopNeverEmpty'
  BY <1>2 DEF Work, PopNeverEmpty, Notified, TypeOK
<1>6. Owner' /\ Scanned'
  BY DEF Owner, Scanned, ownerVars
<1> QED
  BY <1>4, <1>5, <1>6

\* A worker's steps keep the invariant.
LEMMA WorkerKeeps ==
    ASSUME WInv, NEW i \in Worker, WorkerStep(i) \/ SpuriousWakeup(i)
    PROVE  WInv'
<1> USE WorkersExist DEF WInv, clientVars, ownerVars
<1>1. CASE TestDone(i) \/ TestCondition(i) \/ Block(i) \/ SpuriousWakeup(i)
  <2> DEFINE old == wpc[i]
             new == wpc'[i]
  <2>a. UNCHANGED <<owner, pos, busy, drained, done, queue, running, task,
                    executed, sent, pushed>>
    BY <1>1 DEF TestDone, TestCondition, Block, SpuriousWakeup, Goes, ownerVars, clientVars
  <2>b. /\ wpc' \in [Worker -> WorkerLabels]
        /\ \A j \in Worker : j # i => wpc'[j] = wpc[j]
        /\ old \in {"loop", "lock", "block", "waiting"}
        /\ new # "run"
        /\ new = "pop" => ~running[i] \/ queue[i] # <<>>
    BY <1>1 DEF TestDone, TestCondition, Ready, Block, SpuriousWakeup, Goto, Goes, TypeOK,
                WorkerLabels
  <2>1. TypeOK'
    BY <2>a, <2>b DEF TypeOK
  <2>2. Work' /\ PopNeverEmpty'
    BY <2>a, <2>b DEF Work, PopNeverEmpty
  <2>3. Owner'
    BY <2>a, <2>b DEF Owner, Joined
  <2>4. Scanned'
    BY <2>a DEF Scanned, Submitted
  <2> QED
    BY <2>1, <2>2, <2>3, <2>4
<1>2. CASE TakeTask(i)
  <2> USE <1>2 DEF TakeTask, Rest, Goto, Goes
  <2>1. CASE running[i]
    <3>1. queue[i] # <<>> /\ i = Index
      BY <2>1 DEF Work, PopNeverEmpty
    <3>2. Head(queue[i]) \in Task /\ Tail(queue[i]) \in Seq(Task)
      BY <3>1, HeadTailProperties DEF TypeOK
    <3>3. TypeOK'
      BY <2>1, <3>2, HandIsSeq DEF TypeOK, WorkerLabels
    <3>4. Work' /\ PopNeverEmpty'
      BY <2>1, <3>1 DEF Work, PopNeverEmpty, TypeOK
    <3>5. Owner'
      BY <2>1 DEF Owner, Joined, TypeOK
    <3>6. Scanned'
      BY <2>1, <3>1 DEF Scanned, Submitted, TypeOK
    <3> QED
      BY <3>3, <3>4, <3>5, <3>6
  <2>2. CASE ~running[i]
    <3>1. TypeOK'
      BY <2>2 DEF TypeOK, WorkerLabels
    <3>2. Work' /\ PopNeverEmpty'
      BY <2>2 DEF Work, PopNeverEmpty, TypeOK
    <3>3. Owner'
      BY <2>2 DEF Owner, Joined, TypeOK
    <3>4. Scanned'
      BY <2>2 DEF Scanned, Submitted
    <3> QED
      BY <3>1, <3>2, <3>3, <3>4
  <2> QED
    BY <2>1, <2>2
<1>3. CASE RunTask(i)
  <2> USE <1>3 DEF RunTask, Goto, Goes
  <2>1. executed' \in Seq(Task)
    BY HandIsSeq, ConcatProperties DEF TypeOK
  <2>2. TypeOK'
    BY <2>1, HandIsSeq DEF TypeOK, WorkerLabels
  <2>3. Work' /\ PopNeverEmpty'
    BY DEF Work, PopNeverEmpty, TypeOK
  <2>4. Owner'
    BY DEF Owner, Joined, TypeOK
  <2>5. Scanned'
    BY DEF Scanned, Submitted
  <2> QED
    BY <2>2, <2>3, <2>4, <2>5
<1> QED
  BY <1>1, <1>2, <1>3 DEF WorkerStep

LEMMA WInvStep == WInv /\ [Next]_vars => WInv'
<1> SUFFICES ASSUME WInv, [Next]_vars PROVE WInv'
  OBVIOUS
<1>1. CASE UNCHANGED vars
  BY <1>1 DEF WInv, vars, TypeOK, Work, PopNeverEmpty, Owner, Scanned, Joined, Submitted
<1>2. CASE Next
  BY <1>2, OwnerKeeps, SubmitKeeps, WorkerKeeps DEF Next
<1> QED
  BY <1>1, <1>2

THEOREM WInvHolds == Spec => []WInv
  BY InitWInv, WInvStep, PTL DEF Spec

-----------------------------------------------------------------------------
\* The values of the variables stay in their types.
THEOREM PoolTypeCorrect == Spec => []TypeOK
<1>1. WInv => TypeOK
  BY DEF WInv
<1> QED
  BY <1>1, WInvHolds, PTL

\* Every step moves tasks along without losing, doubling or reordering one.
LEMMA AccountedStep == WInv /\ Accounted /\ [Next]_vars => Accounted'
<1> SUFFICES ASSUME WInv, Accounted, [Next]_vars PROVE Accounted'
  OBVIOUS
<1> USE WorkersExist DEF Accounted
<1> DEFINE t == task[Index]
           q == queue[Index]
<1>a. executed \in Seq(Task) /\ t \in Seq(Task) /\ q \in Seq(Task) /\ <<>> \in Seq(Task)
  BY HandIsSeq DEF WInv, TypeOK
<1>1. ASSUME UNCHANGED <<executed, task, queue, pushed>> PROVE Accounted'
  BY <1>1
<1>2. CASE UNCHANGED vars
  BY <1>1, <1>2 DEF vars
<1>3. CASE OwnerStep
  BY <1>1, <1>3 DEF OwnerStep, StartThread, StartFails, Throw, StartScan, SkipScan,
                    Scan, ScanAgain, ScanEnds, SetDone, Close, CloseNotifies, Join,
                    OwnerGoes, poolVars, clientVars, ownerVars
<1>4. ASSUME NEW s \in Submitter, Submit(s) PROVE Accounted'
  <2> DEFINE e == <<s, sent'[s]>>
  <2>1. e \in Task
    BY <1>4, LoadAssumption DEF Submit, WInv, TypeOK, HasMore, Task
  <2>2. queue'[Index] = q \o <<e>> /\ pushed' = pushed \o <<e>>
    <3>1. queue'[Index] = Append(q, e) /\ pushed' = Append(pushed, e)
      BY <1>4 DEF Submit, WInv, TypeOK
    <3> QED
      BY <2>1, <3>1, <1>a, AppendIsConcat DEF WInv, TypeOK
  <2>3. <<e>> \in Seq(Task)
    BY <2>1
  <2>4. (executed \o t) \o (q \o <<e>>) = ((executed \o t) \o q) \o <<e>>
    <3>1. executed \o t \in Seq(Task)
      BY <1>a, ConcatProperties
    <3> QED
      BY <1>a, <2>3, <3>1, Assoc
  <2> QED
    BY <1>4, <2>2, <2>4 DEF Submit
<1>5. ASSUME NEW i \in Worker, WorkerStep(i) \/ SpuriousWakeup(i) PROVE Accounted'
  <2>1. CASE TestDone(i) \/ TestCondition(i) \/ Block(i) \/ SpuriousWakeup(i)
    BY <2>1, <1>1 DEF TestDone, TestCondition, Ready, Block, SpuriousWakeup, Goes, clientVars, ownerVars
  <2>2. CASE TakeTask(i)
    <3>1. CASE ~running[i]
      BY <2>2, <3>1, <1>1 DEF TakeTask, clientVars, ownerVars
    <3>2. CASE running[i]
      <4>1. i = Index /\ q # <<>> /\ t = <<>>
        BY <2>2, <3>2 DEF TakeTask, Goto, WInv, Work, PopNeverEmpty
      <4>2. /\ task'[Index] = <<Head(q)>>
            /\ queue'[Index] = Tail(q)
            /\ UNCHANGED <<executed, pushed>>
        BY <2>2, <3>2, <4>1 DEF TakeTask, Rest, WInv, TypeOK, clientVars, ownerVars
      <4>3. Head(q) \in Task /\ Tail(q) \in Seq(Task) /\ q = <<Head(q)>> \o Tail(q)
        BY <1>a, <4>1
      <4>4. executed \o t = executed
        BY <1>a, <4>1, ConcatEmptySeq
      <4>5. <<Head(q)>> \in Seq(Task)
        BY <4>3
      <4>6. (executed \o <<Head(q)>>) \o Tail(q) = executed \o q
        <5>1. \A x, r \in Seq(Task) : q = x \o r => (executed \o x) \o r = executed \o q
          BY <1>a, Assoc
        <5> QED
          BY <4>3, <4>5, <5>1
      <4> QED
        BY <4>2, <4>4, <4>6
    <3> QED
      BY <3>1, <3>2
  <2>3. CASE RunTask(i)
    <3>1. CASE i # Index
      <4>1. task[i] = <<>>
        BY <3>1 DEF WInv, Work
      <4>2. executed' = executed /\ task'[Index] = t /\ UNCHANGED <<queue, pushed>>
        BY <2>3, <3>1, <4>1, <1>a, ConcatEmptySeq DEF RunTask, WInv, TypeOK, clientVars, ownerVars
      <4> QED
        BY <4>2
    <3>2. CASE i = Index
      <4>1. executed' = executed \o t /\ task'[Index] = <<>> /\ UNCHANGED <<queue, pushed>>
        BY <2>3, <3>2 DEF RunTask, WInv, TypeOK, clientVars, ownerVars
      <4>2. (executed \o t) \o <<>> = executed \o t
        BY <1>a, ConcatProperties, ConcatEmptySeq
      <4> QED
        BY <4>1, <4>2
    <3> QED
      BY <3>1, <3>2
  <2> QED
    BY <1>5, <2>1, <2>2, <2>3 DEF WorkerStep
<1> QED
  BY <1>2, <1>3, <1>4, <1>5 DEF Next

\* Submit, WaitAndPop, Run: no task is lost, doubled or overtaken.
THEOREM TasksAccounted == Spec => []Accounted
<1>1. Init => Accounted
  BY WorkersExist DEF Init, Accounted
<1> QED
  BY <1>1, AccountedStep, WInvHolds, PTL DEF Spec

\* Empty, ~ThreadPool: an owner that saw Empty() true after the last Submit
\* and then destroys the pool knows that every task was executed.
THEOREM DrainedExecuted == Spec => []DrainedMeansExecuted
<1>1. WInv /\ Accounted => DrainedMeansExecuted
  <2> SUFFICES ASSUME WInv, Accounted, drained, owner = "gone"
               PROVE  executed = pushed /\ Submitted
    BY DEF DrainedMeansExecuted
  <2>1. queue[Index] = <<>> /\ task[Index] = <<>> /\ Submitted
    BY WorkersExist DEF WInv, Scanned, Owner, Joined, Work
  <2>2. executed \o <<>> = executed
    BY ConcatEmptySeq DEF WInv, TypeOK
  <2> QED
    BY <2>1, <2>2 DEF Accounted
<1> QED
  BY <1>1, WInvHolds, TasksAccounted, PTL

\* WaitAndPop, Close: front() and pop() are called on no empty queue.
THEOREM NoEmptyPop == Spec => []PopNeverEmpty
<1>1. WInv => PopNeverEmpty
  BY DEF WInv
<1> QED
  BY <1>1, WInvHolds, PTL

-----------------------------------------------------------------------------
(* The lock-free list: the invariant                                        *)

\* The list goes through the nodes p, once each, and they have keys.
Linked(p) ==
    /\ next[Head0] = IF Len(p) = 0 THEN Null ELSE p[1]
    /\ \A i \in 1 .. Len(p) : next[p[i]] = IF i < Len(p) THEN p[i + 1] ELSE Null
    /\ \A i, j \in 1 .. Len(p) : p[i] = p[j] => i = j
    /\ \A i \in 1 .. Len(p) : value[p[i]] \in Key

Has(p, k) == \E i \in 1 .. Len(p) : value[p[i]] = k

\* A key that stands twice is the first, and stands from there on.
Doubled(p) ==
    \A i, j \in 1 .. Len(p) : i < j /\ value[p[i]] = value[p[j]]
        => \A m \in 1 .. j : value[p[m]] = value[p[j]]

\* A search for k has come to n and has not met k.
Passed(p, n, k) == \/ n = Head0
                   \/ \E c \in 1 .. Len(p) : n = p[c] /\ \A m \in 1 .. c : value[p[m]] # k

\* The node of an Insert is its own and is not in the list.
Own(p) == \A t \in Thread : node[t] # Null =>
    /\ value[node[t]] = arg[t] /\ node[t] \notin ToSet(p)
    /\ \A u \in Thread \ {t} : node[u] # node[t]

Searching(p, t) == pc[t] = "search" =>
    /\ Passed(p, cur[t], arg[t])
    /\ equal[t] /\ cur[t] # Head0 => next[cur[t]] # Null
    /\ call[t] = "find" /\ arg[t] \in before[t] => Has(p, arg[t])

\* Where an Insert is to link its node: at the end of the list or in front of
\* a first node with its key.  A CAS that failed once fails for ever.
Placing(p, t) == pc[t] = "cas" \/ call[t] = "retry" =>
    /\ node[t] # Null
    /\ Passed(p, prev[t], arg[t])
    /\ \/ succ[t] = Null
       \/ prev[t] = Head0 /\ succ[t] \in ToSet(p) /\ value[succ[t]] = arg[t]
    /\ call[t] = "retry" => next[prev[t]] # succ[t]

Answered(p, t) == pc[t] = "idle" =>
    /\ result[t] \in {"inserted", "present"} => Has(p, arg[t])
    /\ result[t] = "missing" /\ arg[t] \in before[t] => p # <<>> /\ arg[t] = value[p[1]]

Calls(t) ==
    /\ pc[t] # "idle" => arg[t] \in Key
    /\ pc[t] = "idle" => call[t] = "find"
    /\ call[t] = "find" => node[t] = Null /\ pc[t] # "cas"
    /\ pc[t] = "search" /\ call[t] = "insert" => node[t] = Null

Local(p, t) == Calls(t) /\ Searching(p, t) /\ Placing(p, t) /\ Answered(p, t)

Fits(p) == Linked(p) /\ Doubled(p) /\ Own(p) /\ \A t \in Thread : Local(p, t)

FInv == ListTypeOK /\ \E p \in Seq(Node) : Fits(p)

-----------------------------------------------------------------------------
(* The list *)

LEMMA ChainIs ==
  ASSUME NEW f \in [Node \cup {Head0} -> Node \cup {Null}], NEW p \in Seq(Node),
         f[Head0] = IF Len(p) = 0 THEN Null ELSE p[1],
         \A i \in 1 .. Len(p) : f[p[i]] = IF i < Len(p) THEN p[i + 1] ELSE Null,
         \A i, j \in 1 .. Len(p) : p[i] = p[j] => i = j
  PROVE  Chain(f, Head0, Null) = p
<1>1. Len(p) \in Nat /\ Null \notin Node /\ DOMAIN f = Node \cup {Head0}
  BY NullAssumption
<1>2. IsFiniteSet(Node \cup {Head0}) /\ Cardinality(Node) <= Cardinality(Node \cup {Head0})
      /\ Cardinality(Node) \in Nat /\ Cardinality(Node \cup {Head0}) \in Nat
  <2>1. IsFiniteSet(Node) /\ Head0 \notin Node
    BY NodeAssumption
  <2>2. IsFiniteSet(Node \cup {Head0}) /\ Cardinality(Node \cup {Head0}) = Cardinality(Node) + 1
    BY <2>1, FS_AddElement
  <2>. QED
    BY <2>1, <2>2, FS_CardinalityType
<1>3. Len(p) <= Cardinality(Node)
  <2>1. p \in Injection(1 .. Len(p), Node)
    BY DEF Injection, IsInjective
  <2>2. ASSUME NEW n \in Nat PROVE Cardinality(1 .. n) = n
    BY FS_Interval
  <2>3. Cardinality(1 .. Len(p)) = Len(p)
    BY <1>1, <2>2
  <2>. QED
    BY <1>1, <2>1, <2>3, NodeAssumption, FS_Injection
<1>4. Len(p) <= Cardinality(DOMAIN f) /\ IsFiniteSet(DOMAIN f)
  BY <1>1, <1>2, <1>3
<1>. QED
  BY <1>1, <1>4, PathIsChain

LEMMA NodesAre ==
  ASSUME ListTypeOK, NEW p \in Seq(Node), Linked(p)
  PROVE  Nodes = p
BY ChainIs DEF Nodes, Linked, ListTypeOK

\* What is known of places in the list
LEMMA Places ==
  ASSUME ListTypeOK, NEW p \in Seq(Node), Linked(p), NEW n, NEW k, Passed(p, n, k)
  PROVE  /\ n \in Node \cup {Head0} /\ n # Null
         /\ n = Head0 \/ n \in ToSet(p)
         /\ next[n] # Null => next[n] \in ToSet(p)
         /\ next[n] = Null => ~Has(p, k) /\ IF p = <<>> THEN n = Head0 ELSE n = Head0 \/ n = p[Len(p)]
         /\ next[n] # Null /\ value[next[n]] # k => Passed(p, next[n], k)
         /\ n = Head0 => (next[n] = Null <=> p = <<>>) /\ (p # <<>> => next[n] = p[1])
<1>1. Len(p) \in Nat /\ Null \notin Node /\ Head0 # Null /\ Head0 \notin Node
      /\ \A i \in 1 .. Len(p) : p[i] \in Node /\ p[i] \in ToSet(p)
  BY NullAssumption, NodeAssumption DEF ToSet
<1>2. CASE n = Head0
  <2>1. CASE Len(p) = 0
    <3>1. p = <<>> /\ next[n] = Null
      BY <1>2, <2>1 DEF Linked
    <3>. QED
      BY <1>1, <1>2, <2>1, <3>1 DEF Has
  <2>2. CASE Len(p) # 0
    <3>1. 1 \in 1 .. Len(p) /\ next[n] = p[1] /\ p # <<>>
      BY <1>1, <1>2, <2>2 DEF Linked
    <3>2. value[p[1]] # k => Passed(p, p[1], k)
      BY <3>1 DEF Passed
    <3>. QED
      BY <1>1, <1>2, <3>1, <3>2
  <2>. QED
    BY <2>1, <2>2
<1>3. ASSUME NEW c \in 1 .. Len(p), n = p[c], \A m \in 1 .. c : value[p[m]] # k
      PROVE  /\ n \in Node /\ n # Head0 /\ n \in ToSet(p)
             /\ next[n] # Null => next[n] \in ToSet(p)
             /\ next[n] = Null => ~Has(p, k) /\ n = p[Len(p)] /\ p # <<>>
             /\ next[n] # Null /\ value[next[n]] # k => Passed(p, next[n], k)
  <2>1. CASE c < Len(p)
    <3>1. next[n] = p[c + 1] /\ c + 1 \in 1 .. Len(p)
      BY <1>1, <1>3, <2>1 DEF Linked
    <3>2. ASSUME value[p[c + 1]] # k, NEW m \in 1 .. c + 1 PROVE value[p[m]] # k
      BY <1>3, <3>2
    <3>. QED
      BY <1>1, <1>3, <3>1, <3>2 DEF Passed
  <2>2. CASE c = Len(p)
    <3>1. next[n] = Null /\ p # <<>>
      BY <1>1, <1>3, <2>2 DEF Linked
    <3>. QED
      BY <1>1, <1>3, <2>2, <3>1 DEF Has
  <2>. QED
    BY <1>1, <2>1, <2>2
<1>. QED
  BY <1>1, <1>2, <1>3 DEF Passed

\* A step that writes no node of the list
LEMMA ListKept ==
  ASSUME ListTypeOK, NEW p \in Seq(Node), Linked(p), Doubled(p),
         \A n \in ToSet(p) \cup {Head0} : next'[n] = next[n],
         \A n \in ToSet(p) : value'[n] = value[n]
  PROVE  /\ Linked(p)' /\ Doubled(p)'
         /\ \A k : Has(p, k)' <=> Has(p, k)
         /\ \A n, k : Passed(p, n, k)' <=> Passed(p, n, k)
         /\ p # <<>> => value'[p[1]] = value[p[1]]
<1>1. /\ Len(p) \in Nat /\ \A i \in 1 .. Len(p) : p[i] \in ToSet(p) /\ value'[p[i]] = value[p[i]]
                                                /\ next'[p[i]] = next[p[i]]
      /\ next'[Head0] = next[Head0]
  BY DEF ToSet
<1>2. Linked(p)' /\ Doubled(p)'
  <2>1. next'[Head0] = IF Len(p) = 0 THEN Null ELSE p[1]
    BY <1>1 DEF Linked
  <2>2. \A i \in 1 .. Len(p) : next'[p[i]] = IF i < Len(p) THEN p[i + 1] ELSE Null
    BY <1>1 DEF Linked
  <2>3. \A i \in 1 .. Len(p) : value'[p[i]] \in Key
    BY <1>1 DEF Linked
  <2>4. Linked(p)'
    BY <2>1, <2>2, <2>3 DEF Linked
  <2>5. Doubled(p)'
    <3>. SUFFICES ASSUME NEW i \in 1 .. Len(p), NEW j \in 1 .. Len(p), i < j,
                         value'[p[i]] = value'[p[j]], NEW m \in 1 .. j
                  PROVE  value'[p[m]] = value'[p[j]]
      BY DEF Doubled
    <3>1. m \in 1 .. Len(p) /\ value[p[i]] = value[p[j]]
      BY <1>1
    <3>. QED
      BY <1>1, <3>1 DEF Doubled
  <2>. QED
    BY <2>4, <2>5
<1>3. \A k : Has(p, k)' <=> Has(p, k)
  BY <1>1 DEF Has
<1>4. ASSUME NEW n, NEW k PROVE Passed(p, n, k)' <=> Passed(p, n, k)
  <2>1. \A c \in 1 .. Len(p) : \A m \in 1 .. c : m \in 1 .. Len(p)
    BY <1>1
  <2>. QED
    BY <1>1, <2>1 DEF Passed
<1>5. p # <<>> => 1 \in 1 .. Len(p)
  BY <1>1
<1>. QED
  BY <1>1, <1>2, <1>3, <1>4, <1>5

\* Linking n behind a, in front of the list or at its end
LEMMA ListGrows ==
  ASSUME ListTypeOK, NEW p \in Seq(Node), Linked(p), Doubled(p),
         NEW n \in Node, n \notin ToSet(p), value[n] \in Key, value' = value,
         NEW a, Passed(p, a, value[n]),
         a = Head0 /\ next[a] # Null => value[next[a]] = value[n],
         a # Head0 => next[a] = Null,
         next' = [next EXCEPT ![n] = next[a], ![a] = n]
  PROVE  \E q \in Seq(Node) :
            /\ Linked(q)' /\ Doubled(q)'
            /\ ToSet(q) = ToSet(p) \cup {n}
            /\ \A k : Has(p, k) => Has(q, k)'
            /\ Has(q, value[n])'
            /\ \A m, k : Passed(p, m, k) => Passed(q, m, k)'
            /\ p # <<>> => q # <<>> /\ value'[q[1]] = value[p[1]]
            /\ \A i, j \in 1 .. Len(p) : i < j =>
                  \E x, y \in 1 .. Len(q) : x < y /\ q[x] = p[i] /\ q[y] = p[j]
<1>. DEFINE L == Len(p)
            v == value[n]
<1>1. L \in Nat /\ n # Head0 /\ n # Null
      /\ \A i \in 1 .. L : p[i] \in ToSet(p) /\ p[i] \in Node /\ p[i] # n /\ p[i] # Head0
  BY NullAssumption, NodeAssumption DEF ToSet
<1>2. a \in Node \cup {Head0} /\ (a = Head0 \/ a \in ToSet(p)) /\ a # n
  BY <1>1, Places
<1>3. \A m \in Node \cup {Head0} : next'[m] = IF m = n THEN next[a] ELSE IF m = a THEN n ELSE next[m]
  BY <1>2 DEF ListTypeOK
<1>4. CASE a = Head0
  <2>. DEFINE q == <<n>> \o p
  <2>1. q \in Seq(Node) /\ Len(q) = L + 1 /\ q[1] = n /\ \A i \in 1 .. L : q[i + 1] = p[i]
    BY <1>1
  <2>2. \A i \in 2 .. L + 1 : i - 1 \in 1 .. L /\ q[i] = p[i - 1]
    <3>1. \A i \in 2 .. L + 1 : i - 1 \in 1 .. L /\ (i - 1) + 1 = i
      BY <1>1
    <3>. QED
      BY <2>1, <3>1
  <2>3. 1 .. Len(q) = {1} \cup 2 .. L + 1 /\ \A i \in 1 .. L : i + 1 \in 2 .. L + 1
    BY <1>1, <2>1
  <2>. HIDE DEF q
  <2>4. ToSet(q) = ToSet(p) \cup {n}
    <3>1. ToSet(q) = {q[i] : i \in 1 .. Len(q)} /\ ToSet(p) = {p[i] : i \in 1 .. L}
      BY <2>1 DEF ToSet
    <3>2. ToSet(q) \subseteq ToSet(p) \cup {n}
      BY <2>1, <2>2, <2>3, <3>1
    <3>3. ToSet(p) \cup {n} \subseteq ToSet(q)
      BY <2>1, <2>3, <3>1
    <3>. QED
      BY <3>2, <3>3
  <2>5. p # <<>> => 1 \in 1 .. L /\ next[a] = p[1] /\ value[p[1]] = v
    <3>1. p # <<>> => L # 0 /\ 1 \in 1 .. L
      BY <1>1
    <3>2. p # <<>> => next[a] = p[1]
      BY <1>4, <3>1 DEF Linked
    <3>3. p # <<>> => p[1] # Null
      BY <1>1, <3>1, NullAssumption
    <3>. QED
      BY <1>4, <3>1, <3>2, <3>3
  <2>6. Linked(q)'
    <3>1. next'[Head0] = q[1] /\ Len(q) # 0
      <4>1. next'[Head0] = n
        BY <1>1, <1>3, <1>4
      <4>. QED
        BY <1>1, <2>1, <4>1
    <3>2. ASSUME NEW i \in 1 .. Len(q)
          PROVE  next'[q[i]] = IF i < Len(q) THEN q[i + 1] ELSE Null
      <4>1. CASE i = 1
        <5>1. next'[q[i]] = next[Head0]
          BY <1>1, <1>3, <1>4, <2>1, <4>1
        <5>2. CASE L = 0
          BY <2>1, <4>1, <5>1, <5>2 DEF Linked
        <5>3. CASE L # 0
          BY <1>1, <2>1, <4>1, <5>1, <5>3 DEF Linked
        <5>. QED
          BY <5>2, <5>3
      <4>2. CASE i \in 2 .. L + 1
        <5>1. i - 1 \in 1 .. L /\ q[i] = p[i - 1] /\ next'[q[i]] = next[p[i - 1]]
          BY <1>1, <1>3, <1>4, <2>2, <4>2
        <5>2. next[p[i - 1]] = IF i - 1 < L THEN p[(i - 1) + 1] ELSE Null
          BY <5>1 DEF Linked
        <5>3. i < L + 1 => q[i + 1] = p[(i - 1) + 1]
          <6>1. i < L + 1 => i \in 1 .. L /\ (i - 1) + 1 = i
            BY <1>1, <4>2
          <6>. QED
            BY <2>1, <6>1
        <5>. QED
          BY <1>1, <2>1, <4>2, <5>1, <5>2, <5>3
      <4>. QED
        BY <2>3, <4>1, <4>2
    <3>3. ASSUME NEW i \in 1 .. Len(q), NEW j \in 1 .. Len(q), q[i] = q[j] PROVE i = j
      <4>1. \A m \in 2 .. L + 1 : q[m] # q[1]
        BY <1>1, <2>1, <2>2
      <4>2. CASE i \in 2 .. L + 1 /\ j \in 2 .. L + 1
        <5>1. i - 1 = j - 1
          BY <2>2, <3>3, <4>2 DEF Linked
        <5>. QED
          BY <4>2, <5>1
      <4>. QED
        BY <2>3, <3>3, <4>1, <4>2
    <3>4. ASSUME NEW i \in 1 .. Len(q) PROVE value'[q[i]] \in Key
      BY <2>1, <2>2, <2>3 DEF Linked
    <3>. QED
      BY <3>1, <3>2, <3>3, <3>4 DEF Linked
  <2>7. Doubled(q)'
    <3>. SUFFICES ASSUME NEW i \in 1 .. Len(q), NEW j \in 1 .. Len(q), i < j,
                         value[q[i]] = value[q[j]], NEW m \in 1 .. j
                  PROVE  value[q[m]] = value[q[j]]
      BY DEF Doubled
    <3>1. j \in 2 .. L + 1 /\ j - 1 \in 1 .. L /\ q[j] = p[j - 1]
      BY <2>1, <2>2
    <3>2. \A h \in 1 .. j - 1 : h \in 1 .. L /\ value[p[h]] = value[p[j - 1]]
      <4>1. CASE i = 1
        <5>1. p # <<>> /\ value[p[1]] = value[p[j - 1]]
          BY <1>1, <2>1, <2>5, <3>1, <4>1
        <5>2. 1 \in 1 .. L /\ (j - 1 = 1 \/ 1 < j - 1)
          BY <1>1, <3>1
        <5>3. CASE 1 < j - 1
          BY <1>1, <3>1, <5>1, <5>2, <5>3 DEF Doubled
        <5>4. CASE j - 1 = 1
          BY <5>1, <5>2, <5>4
        <5>. QED
          BY <5>2, <5>3, <5>4
      <4>2. CASE i \in 2 .. L + 1
        <5>1. i - 1 \in 1 .. L /\ i - 1 < j - 1 /\ value[p[i - 1]] = value[p[j - 1]]
          BY <2>2, <3>1, <4>2
        <5>2. \A h \in 1 .. j - 1 : value[p[h]] = value[p[j - 1]]
          BY <3>1, <5>1 DEF Doubled
        <5>3. \A h \in 1 .. j - 1 : h \in 1 .. L
          BY <1>1, <3>1
        <5>. QED
          BY <5>2, <5>3
      <4>. QED
        BY <2>3, <4>1, <4>2
    <3>3. CASE m = 1
      <4>1. 1 \in 1 .. j - 1 /\ p # <<>>
        BY <1>1, <3>1
      <4>. QED
        BY <2>1, <2>5, <3>1, <3>2, <3>3, <4>1
    <3>4. CASE m # 1
      <4>1. m \in 2 .. L + 1 /\ m - 1 \in 1 .. j - 1
        BY <1>1, <3>1, <3>4
      <4>. QED
        BY <2>2, <3>1, <3>2, <4>1
    <3>. QED
      BY <3>3, <3>4
  <2>8. \A k : Has(p, k) => Has(q, k)'
    BY <2>1, <2>3 DEF Has
  <2>9. Has(q, v)'
    BY <2>1, <2>3 DEF Has
  <2>10. ASSUME NEW m, NEW k, Passed(p, m, k) PROVE Passed(q, m, k)'
    <3>1. ASSUME NEW c \in 1 .. L, m = p[c], \A h \in 1 .. c : value[p[h]] # k
          PROVE  Passed(q, m, k)'
      <4>1. p # <<>> /\ 1 \in 1 .. c
        BY <1>1, <3>1
      <4>2. v # k
        BY <2>5, <3>1, <4>1
      <4>3. c + 1 \in 1 .. Len(q) /\ m = q[c + 1]
        BY <2>1, <2>3, <3>1
      <4>4. ASSUME NEW h \in 1 .. c + 1 PROVE value'[q[h]] # k
        <5>1. CASE h = 1
          BY <2>1, <4>2, <5>1
        <5>2. CASE h # 1
          <6>1. h - 1 \in 1 .. c /\ h \in 2 .. L + 1
            BY <1>1, <3>1, <5>2
          <6>. QED
            BY <2>2, <3>1, <6>1
        <5>. QED
          BY <5>1, <5>2
      <4>. QED
        BY <4>3, <4>4 DEF Passed
    <3>. QED
      BY <2>10, <3>1 DEF Passed
  <2>11. p # <<>> => q # <<>> /\ value'[q[1]] = value[p[1]]
    BY <1>1, <2>1, <2>5
  <2>12. ASSUME NEW i \in 1 .. L, NEW j \in 1 .. L, i < j
         PROVE  \E x, y \in 1 .. Len(q) : x < y /\ q[x] = p[i] /\ q[y] = p[j]
    <3>1. i + 1 \in 1 .. Len(q) /\ j + 1 \in 1 .. Len(q) /\ i + 1 < j + 1
      BY <2>3, <2>12
    <3>. QED
      BY <2>1, <3>1
  <2>. QED
    BY <2>1, <2>4, <2>6, <2>7, <2>8, <2>9, <2>10, <2>11, <2>12
<1>5. CASE a # Head0
  <2>. DEFINE q == Append(p, n)
  <2>1. q \in Seq(Node) /\ Len(q) = L + 1 /\ q[L + 1] = n /\ \A i \in 1 .. L : q[i] = p[i]
    BY <1>1
  <2>2. 1 .. Len(q) = 1 .. L \cup {L + 1} /\ \A i \in 1 .. L : i # L + 1
    BY <1>1, <2>1
  <2>. HIDE DEF q
  <2>3. p # <<>> /\ a = p[L] /\ ~Has(p, v) /\ next[a] = Null
    BY <1>5, Places
  <2>4. L \in 1 .. L /\ 1 \in 1 .. L /\ L # 0
    BY <1>1, <2>3
  <2>5. ToSet(q) = ToSet(p) \cup {n}
    <3>1. ToSet(q) = {q[i] : i \in 1 .. Len(q)} /\ ToSet(p) = {p[i] : i \in 1 .. L}
      BY <2>1 DEF ToSet
    <3>. QED
      BY <2>1, <2>2, <3>1
  <2>6. Linked(q)'
    <3>1. next'[Head0] = q[1] /\ Len(q) # 0
      <4>1. next'[Head0] = next[Head0]
        BY <1>1, <1>3, <1>5
      <4>2. next[Head0] = p[1]
        BY <2>4 DEF Linked
      <4>. QED
        BY <1>1, <2>1, <2>4, <4>1, <4>2
    <3>2. ASSUME NEW i \in 1 .. Len(q)
          PROVE  next'[q[i]] = IF i < Len(q) THEN q[i + 1] ELSE Null
      <4>1. CASE i = L + 1
        <5>1. next'[n] = Null
          BY <1>1, <1>3, <2>3
        <5>. QED
          BY <1>1, <2>1, <4>1, <5>1
      <4>2. CASE i = L
        <5>1. next'[a] = n
          BY <1>2, <1>3
        <5>2. q[i] = a /\ q[i + 1] = n
          BY <2>1, <2>3, <2>4, <4>2
        <5>. QED
          BY <1>1, <2>1, <4>2, <5>1, <5>2
      <4>3. CASE i \in 1 .. L /\ i < L
        <5>1. i + 1 \in 1 .. L /\ i < L + 1
          BY <1>1, <4>3
        <5>2. p[i] # a
          BY <2>3, <2>4, <4>3 DEF Linked
        <5>3. next'[q[i]] = next[p[i]]
          BY <1>1, <1>3, <2>1, <4>3, <5>2
        <5>. QED
          BY <2>1, <4>3, <5>1, <5>3 DEF Linked
      <4>. QED
        BY <1>1, <2>2, <4>1, <4>2, <4>3
    <3>3. ASSUME NEW i \in 1 .. Len(q), NEW j \in 1 .. Len(q), q[i] = q[j] PROVE i = j
      <4>1. \A m \in 1 .. L : q[m] # q[L + 1]
        BY <1>1, <2>1
      <4>2. CASE i \in 1 .. L /\ j \in 1 .. L
        BY <2>1, <3>3, <4>2 DEF Linked
      <4>. QED
        BY <2>2, <3>3, <4>1, <4>2
    <3>4. ASSUME NEW i \in 1 .. Len(q) PROVE value'[q[i]] \in Key
      BY <2>1, <2>2 DEF Linked
    <3>. QED
      BY <3>1, <3>2, <3>3, <3>4 DEF Linked
  <2>7. Doubled(q)'
    <3>. SUFFICES ASSUME NEW i \in 1 .. Len(q), NEW j \in 1 .. Len(q), i < j,
                         value[q[i]] = value[q[j]], NEW m \in 1 .. j
                  PROVE  value[q[m]] = value[q[j]]
      BY DEF Doubled
    <3>1. i \in 1 .. L
      BY <1>1, <2>1
    <3>2. j # L + 1
      BY <2>1, <2>3, <3>1 DEF Has
    <3>3. j \in 1 .. L /\ m \in 1 .. L
      BY <1>1, <2>2, <3>2
    <3>. QED
      BY <2>1, <3>1, <3>3 DEF Doubled
  <2>8. \A k : Has(p, k) => Has(q, k)'
    BY <2>1, <2>2 DEF Has
  <2>9. Has(q, v)'
    BY <2>1, <2>2 DEF Has
  <2>10. ASSUME NEW m, NEW k, Passed(p, m, k) PROVE Passed(q, m, k)'
    <3>1. \A c \in 1 .. L : \A h \in 1 .. c : h \in 1 .. L
      BY <1>1
    <3>. QED
      BY <2>1, <2>2, <2>10, <3>1 DEF Passed
  <2>11. q # <<>> /\ value'[q[1]] = value[p[1]]
    BY <1>1, <2>1, <2>4
  <2>12. ASSUME NEW i \in 1 .. L, NEW j \in 1 .. L, i < j
         PROVE  \E x, y \in 1 .. Len(q) : x < y /\ q[x] = p[i] /\ q[y] = p[j]
    BY <2>1, <2>2, <2>12
  <2>. QED
    BY <2>1, <2>5, <2>6, <2>7, <2>8, <2>9, <2>10, <2>11, <2>12
<1>. QED
  BY <1>4, <1>5

-----------------------------------------------------------------------------
(* The threads *)

\* The locals of thread u
LocalsOf(u) == <<pc[u], call[u], arg[u], node[u], prev[u], succ[u], cur[u], equal[u], result[u], before[u]>>

StepOf(t) == Step(t) \/ \E k \in Key : InsertCall(t, k) \/ SearchCall(t, k)

LEMMA OthersStay ==
  ASSUME ListTypeOK, NEW t \in Thread, StepOf(t)
  PROVE  \A u \in Thread \ {t} : LocalsOf(u)' = LocalsOf(u)
<1>. SUFFICES ASSUME NEW u \in Thread \ {t} PROVE LocalsOf(u)' = LocalsOf(u)
  OBVIOUS
<1>. USE DEF ListTypeOK, LocalsOf, Begin, Return
<1>1. CASE SearchStep(t)
  BY <1>1 DEF SearchStep
<1>2. CASE SearchReturn(t) \/ InsertPresent(t)
  BY <1>2 DEF SearchReturn, InsertPresent
<1>3. CASE InsertPosition(t)
  <2>1. /\ pc'[u] = pc[u] /\ prev'[u] = prev[u] /\ succ'[u] = succ[u]
        /\ UNCHANGED <<call, arg, cur, equal, result, before>>
    BY <1>3 DEF InsertPosition
  <2>2. node'[u] = node[u]
    BY <1>3 DEF InsertPosition
  <2>. QED
    BY <2>1, <2>2
<1>4. CASE InsertCas(t)
  BY <1>4 DEF InsertCas
<1>5. CASE InsertCasFails(t)
  BY <1>5 DEF InsertCasFails
<1>6. ASSUME NEW k \in Key, InsertCall(t, k) \/ SearchCall(t, k) PROVE LocalsOf(u)' = LocalsOf(u)
  BY <1>6 DEF InsertCall, SearchCall
<1>. QED
  BY <1>1, <1>2, <1>3, <1>4, <1>5, <1>6 DEF StepOf, Step

\* A thread whose locals stay keeps its place while the list becomes q.
LEMMA OthersKeep ==
  ASSUME ListTypeOK, NEW p \in Seq(Node), NEW q \in Seq(Node), Linked(p),
         NEW u \in Thread, Local(p, u), LocalsOf(u)' = LocalsOf(u),
         ToSet(p) \subseteq ToSet(q),
         \A k : Has(p, k) => Has(q, k)',
         \A n, k : Passed(p, n, k) => Passed(q, n, k)',
         p # <<>> => q # <<>> /\ value'[q[1]] = value[p[1]],
         \A n \in ToSet(p) : value'[n] = value[n],
         \A n \in ToSet(p) \cup {Head0} : next'[n] = next[n] \/ next'[n] \notin ToSet(p) \cup {Null}
  PROVE  Local(q, u)'
<1>1. /\ pc'[u] = pc[u] /\ call'[u] = call[u] /\ arg'[u] = arg[u] /\ node'[u] = node[u]
      /\ prev'[u] = prev[u] /\ succ'[u] = succ[u] /\ cur'[u] = cur[u] /\ equal'[u] = equal[u]
      /\ result'[u] = result[u] /\ before'[u] = before[u]
  BY DEF LocalsOf
<1>2. Calls(u)'
  BY <1>1 DEF Local, Calls
<1>3. Searching(q, u)'
  <2>. SUFFICES ASSUME pc[u] = "search"
                PROVE  /\ Passed(q, cur[u], arg[u])'
                       /\ equal[u] /\ cur[u] # Head0 => next'[cur[u]] # Null
                       /\ call[u] = "find" /\ arg[u] \in before[u] => Has(q, arg[u])'
    BY <1>1 DEF Searching
  <2>1. Passed(p, cur[u], arg[u])
    BY DEF Local, Searching
  <2>2. cur[u] \in ToSet(p) \cup {Head0}
    BY <2>1, Places
  <2>3. Passed(q, cur[u], arg[u])'
    <3>1. PICK n, k : n = cur[u] /\ k = arg[u]
      OBVIOUS
    <3>2. Passed(q, n, k)'
      BY <2>1, <3>1
    <3>. QED
      BY <1>1, <3>1, <3>2 DEF Passed
  <2>4. call[u] = "find" /\ arg[u] \in before[u] => Has(q, arg[u])'
    <3>1. PICK k : k = arg[u]
      OBVIOUS
    <3>2. Has(p, k) => Has(q, k)'
      OBVIOUS
    <3>. QED
      BY <1>1, <3>1, <3>2 DEF Has, Local, Searching
  <2>. QED
    BY <2>2, <2>3, <2>4 DEF Local, Searching
<1>4. Placing(q, u)'
  <2>. SUFFICES ASSUME pc[u] = "cas" \/ call[u] = "retry"
                PROVE  /\ node[u] # Null
                       /\ Passed(q, prev[u], arg[u])'
                       /\ \/ succ[u] = Null
                          \/ prev[u] = Head0 /\ succ[u] \in ToSet(q) /\ value'[succ[u]] = arg[u]
                       /\ call[u] = "retry" => next'[prev[u]] # succ[u]
    BY <1>1 DEF Placing
  <2>1. Passed(p, prev[u], arg[u])
    BY DEF Local, Placing
  <2>2. prev[u] \in ToSet(p) \cup {Head0}
    BY <2>1, Places
  <2>3. Passed(q, prev[u], arg[u])'
    <3>1. PICK n, k : n = prev[u] /\ k = arg[u]
      OBVIOUS
    <3>2. Passed(q, n, k)'
      BY <2>1, <3>1
    <3>. QED
      BY <1>1, <3>1, <3>2 DEF Passed
  <2>4. succ[u] \in ToSet(p) \cup {Null}
    BY DEF Local, Placing
  <2>. QED
    BY <2>2, <2>3, <2>4 DEF Local, Placing
<1>5. Answered(q, u)'
  <2>1. ASSUME Has(p, arg[u]) PROVE Has(q, arg[u])'
    <3>1. PICK k : k = arg[u]
      OBVIOUS
    <3>2. Has(q, k)'
      BY <2>1, <3>1
    <3>. QED
      BY <1>1, <3>1, <3>2 DEF Has
  <2>2. pc[u] = "idle" /\ result[u] \in {"inserted", "present"} => Has(q, arg[u])'
    BY <2>1 DEF Local, Answered
  <2>3. pc[u] = "idle" /\ result[u] = "missing" /\ arg[u] \in before[u] => q # <<>> /\ arg[u] = value'[q[1]]
    BY DEF Local, Answered
  <2>. QED
    BY <1>1, <2>2, <2>3 DEF Answered
<1>. QED
  BY <1>2, <1>3, <1>4, <1>5 DEF Local

\* A step of t that writes no node of the list
LEMMA FitsKept ==
  ASSUME ListTypeOK, NEW p \in Seq(Node), Fits(p), NEW t \in Thread, StepOf(t),
         \A n \in ToSet(p) \cup {Head0} : next'[n] = next[n],
         \A n \in ToSet(p) : value'[n] = value[n],
         Own(p)', Local(p, t)'
  PROVE  Fits(p)'
<1>1. /\ Linked(p)' /\ Doubled(p)'
      /\ \A k : Has(p, k)' <=> Has(p, k)
      /\ \A n, k : Passed(p, n, k)' <=> Passed(p, n, k)
      /\ p # <<>> => value'[p[1]] = value[p[1]]
  BY ListKept DEF Fits
<1>2. ASSUME NEW u \in Thread \ {t} PROVE Local(p, u)'
  <2>1. LocalsOf(u)' = LocalsOf(u)
    BY OthersStay
  <2>. QED
    BY <1>1, <2>1, OthersKeep DEF Fits
<1>. QED
  BY <1>1, <1>2 DEF Fits

\* Nothing changes in who has which node.
LEMMA OwnKept ==
  ASSUME NEW p, Own(p), NEW t \in Thread, \A u \in Thread \ {t} : LocalsOf(u)' = LocalsOf(u),
         value' = value, node'[t] = Null \/ (node'[t] = node[t] /\ arg'[t] = arg[t])
  PROVE  Own(p)'
<1>1. \A u \in Thread \ {t} : node'[u] = node[u] /\ arg'[u] = arg[u]
  BY DEF LocalsOf
<1>. QED
  BY <1>1 DEF Own

LEMMA CallsFit ==
  ASSUME ListTypeOK, NEW p \in Seq(Node), Fits(p), NEW t \in Thread, NEW k \in Key,
         InsertCall(t, k) \/ SearchCall(t, k)
  PROVE  Fits(p)'
<1>1. /\ pc[t] = "idle" /\ pc'[t] = "search" /\ call'[t] \in {"insert", "find"}
      /\ arg'[t] = k /\ cur'[t] = Head0 /\ UNCHANGED <<next, value, node>>
  BY DEF InsertCall, SearchCall, Begin, list, ListTypeOK
<1>2. node[t] = Null
  BY <1>1 DEF Fits, Local, Calls
<1>3. StepOf(t) /\ \A u \in Thread \ {t} : LocalsOf(u)' = LocalsOf(u)
  BY OthersStay DEF StepOf
<1>4. Own(p)'
  BY <1>1, <1>2, <1>3, OwnKept DEF Fits
<1>5. call'[t] = "find" /\ k \in before'[t] => Has(p, k)
  <2>1. CASE SearchCall(t, k)
    <3>1. before'[t] = KeysOf(p)
      <4>1. Nodes = p
        BY NodesAre DEF Fits
      <4>. QED
        BY <2>1, <4>1 DEF SearchCall, ListTypeOK
    <3>2. ToSet(p) = {p[i] : i \in 1 .. Len(p)}
      BY DEF ToSet
    <3>. QED
      BY <3>1, <3>2 DEF KeysOf, Has
  <2>2. CASE InsertCall(t, k)
    BY <2>2 DEF InsertCall, Begin, ListTypeOK
  <2>. QED
    BY <2>1, <2>2
<1>6. Local(p, t)'
  <2>1. Calls(t)'
    BY <1>1, <1>2 DEF Calls
  <2>2. Searching(p, t)'
    BY <1>1, <1>5 DEF Searching, Passed, Has
  <2>3. Placing(p, t)' /\ Answered(p, t)'
    BY <1>1 DEF Placing, Answered
  <2>. QED
    BY <2>1, <2>2, <2>3 DEF Local
<1>. QED
  BY <1>1, <1>3, <1>4, <1>6, FitsKept

LEMMA SearchStepFits ==
  ASSUME ListTypeOK, NEW p \in Seq(Node), Fits(p), NEW t \in Thread, SearchStep(t)
  PROVE  Fits(p)'
<1>1. /\ pc[t] = "search" /\ pc'[t] = "search" /\ next[cur[t]] # Null /\ value[next[cur[t]]] # arg[t]
      /\ cur'[t] = next[cur[t]] /\ equal'[t] = FALSE
      /\ UNCHANGED <<next, value, pc, call, arg, node, prev, succ, result, before>>
  BY DEF SearchStep, Holds, Advance, list, ListTypeOK
<1>2. StepOf(t) /\ \A u \in Thread \ {t} : LocalsOf(u)' = LocalsOf(u)
  BY OthersStay DEF StepOf, Step
<1>3. Own(p)'
  BY <1>1, <1>2, OwnKept DEF Fits
<1>4. Passed(p, cur'[t], arg[t])
  <2>1. Passed(p, cur[t], arg[t])
    BY <1>1 DEF Fits, Local, Searching
  <2>. QED
    BY <1>1, <2>1, Places DEF Fits
<1>5. Local(p, t)'
  <2>0. Local(p, t)
    BY DEF Fits
  <2>1. Calls(t)'
    BY <1>1, <2>0 DEF Local, Calls
  <2>2. Searching(p, t)'
    BY <1>1, <1>4, <2>0 DEF Local, Searching, Passed, Has
  <2>3. Placing(p, t)'
    BY <1>1, <2>0 DEF Local, Placing, Passed
  <2>4. Answered(p, t)'
    BY <1>1, <2>0 DEF Local, Answered, Has
  <2>. QED
    BY <2>1, <2>2, <2>3, <2>4 DEF Local
<1>. QED
  BY <1>1, <1>2, <1>3, <1>5, FitsKept

LEMMA ReturnsFit ==
  ASSUME ListTypeOK, NEW p \in Seq(Node), Fits(p), NEW t \in Thread, SearchReturn(t) \/ InsertPresent(t)
  PROVE  Fits(p)'
<1>1. /\ pc[t] = "search" /\ pc'[t] = "idle" /\ call'[t] = "find" /\ node'[t] = Null
      /\ next[cur[t]] = Null \/ (next[cur[t]] # Null /\ value[next[cur[t]]] = arg[t])
      /\ UNCHANGED <<next, value, arg, before>>
  BY DEF SearchReturn, InsertPresent, SearchEnds, Return, Holds, list, ListTypeOK
<1>2. StepOf(t) /\ \A u \in Thread \ {t} : LocalsOf(u)' = LocalsOf(u)
  BY OthersStay DEF StepOf, Step
<1>3. Own(p)'
  BY <1>1, <1>2, OwnKept DEF Fits
<1>4. Local(p, t) /\ Linked(p)
  BY DEF Fits
<1>5. Passed(p, cur[t], arg[t])
  BY <1>1, <1>4 DEF Local, Searching
<1>6. /\ next[cur[t]] # Null => Has(p, arg[t])
      /\ next[cur[t]] = Null => ~Has(p, arg[t])
      /\ cur[t] = Head0 /\ next[cur[t]] # Null => p # <<>> /\ next[cur[t]] = p[1]
  <2>1. next[cur[t]] # Null => next[cur[t]] \in ToSet(p)
    BY <1>4, <1>5, Places
  <2>2. ToSet(p) = {p[i] : i \in 1 .. Len(p)}
    BY DEF ToSet
  <2>. QED
    BY <1>1, <1>4, <1>5, <2>1, <2>2, Places DEF Has
<1>7. result'[t] = "missing" /\ arg[t] \in before[t] => p # <<>> /\ arg[t] = value[p[1]]
  <2>1. CASE SearchReturn(t)
    <3>1. /\ call[t] = "find"
          /\ result'[t] = "missing" => next[cur[t]] = Null \/ cur[t] = Head0
      BY <2>1 DEF SearchReturn, Return, AlreadyEqual, ListTypeOK
    <3>2. arg[t] \in before[t] => Has(p, arg[t])
      BY <1>1, <1>4, <3>1 DEF Local, Searching
    <3>. QED
      BY <1>1, <1>6, <3>1, <3>2
  <2>2. CASE InsertPresent(t)
    BY <2>2 DEF InsertPresent, Return, ListTypeOK
  <2>. QED
    BY <2>1, <2>2
<1>8. result'[t] \in {"inserted", "present"} => Has(p, arg[t])
  <2>1. CASE SearchReturn(t)
    BY <2>1 DEF SearchReturn, Return, ListTypeOK
  <2>2. CASE InsertPresent(t)
    <3>1. cur[t] # Head0 /\ (next[cur[t]] # Null \/ equal[t])
      BY <2>2 DEF InsertPresent, AlreadyEqual
    <3>. QED
      BY <1>1, <1>4, <1>6, <3>1 DEF Local, Searching
  <2>. QED
    BY <2>1, <2>2
<1>9. Local(p, t)'
  <2>1. Calls(t)'
    BY <1>1 DEF Calls
  <2>2. Searching(p, t)' /\ Placing(p, t)'
    BY <1>1 DEF Searching, Placing
  <2>3. Answered(p, t)'
    BY <1>1, <1>7, <1>8 DEF Answered, Has
  <2>. QED
    BY <2>1, <2>2, <2>3 DEF Local
<1>. QED
  BY <1>1, <1>2, <1>3, <1>9, FitsKept

LEMMA PositionFits ==
  ASSUME ListTypeOK, NEW p \in Seq(Node), Fits(p), NEW t \in Thread, InsertPosition(t)
  PROVE  Fits(p)'
<1>1. /\ pc[t] = "search" /\ call[t] # "find" /\ pc'[t] = "cas"
      /\ next[cur[t]] = Null \/ (value[next[cur[t]]] = arg[t] /\ cur[t] = Head0)
      /\ UNCHANGED <<next, call, arg, result, before>>
  BY DEF InsertPosition, SearchEnds, AlreadyEqual, Holds, ListTypeOK
<1>2. StepOf(t) /\ \A u \in Thread \ {t} : LocalsOf(u)' = LocalsOf(u)
  BY OthersStay DEF StepOf, Step
<1>3. Local(p, t) /\ Linked(p) /\ Own(p)
  BY DEF Fits
<1>4. \A u \in Thread \ {t} : node'[u] = node[u] /\ arg'[u] = arg[u]
  BY <1>2 DEF LocalsOf
<1>5. \A m \in ToSet(p) : value[m] # Null
  <2>1. ToSet(p) = {p[i] : i \in 1 .. Len(p)}
    BY DEF ToSet
  <2>. QED
    BY <1>3, <2>1, NullAssumption DEF Linked
<1>6. \A u \in Thread : node[u] # Null => arg[u] # Null
  BY NullAssumption DEF Fits, Local, Calls
<1>7. CASE call[t] = "insert"
  <2>1. node[t] = Null
    BY <1>1, <1>3, <1>7 DEF Local, Calls
  <2>2. PICK n \in Free : node'[t] = n /\ value' = [value EXCEPT ![n] = arg[t]]
    BY <2>1 DEF InsertPosition, ListTypeOK
  <2>3. n \in Node /\ value[n] = Null /\ n # Null /\ value'[n] = arg[t] /\ \A m \in Node \ {n} : value'[m] = value[m]
    BY <2>2, NullAssumption DEF Free, ListTypeOK
  <2>4. n \notin ToSet(p) /\ \A u \in Thread \ {t} : node[u] # n
    BY <1>3, <1>5, <1>6, <2>3 DEF Own
  <2>5. Own(p)'
    <3>. SUFFICES ASSUME NEW u \in Thread, node'[u] # Null
                  PROVE  /\ value'[node'[u]] = arg'[u] /\ node'[u] \notin ToSet(p)
                         /\ \A v \in Thread \ {u} : node'[v] # node'[u]
      BY DEF Own
    <3>1. CASE u = t
      BY <1>1, <1>4, <2>2, <2>3, <2>4, <3>1
    <3>2. CASE u # t
      <4>1. node'[u] = node[u] /\ arg'[u] = arg[u] /\ node[u] \in Node /\ node[u] # n
        BY <1>4, <2>4, <3>2 DEF ListTypeOK
      <4>. QED
        BY <1>3, <1>4, <2>2, <2>3, <2>4, <3>2, <4>1 DEF Own
    <3>. QED
      BY <3>1, <3>2
  <2>6. \A m \in ToSet(p) : value'[m] = value[m]
    <3>1. ToSet(p) \subseteq Node
      BY DEF ToSet
    <3>. QED
      BY <2>3, <2>4, <3>1
  <2>7. Passed(p, cur[t], arg[t])
    BY <1>1, <1>3 DEF Local, Searching
  <2>8. prev'[t] = cur[t] /\ succ'[t] = next[cur[t]]
    BY <1>7 DEF InsertPosition, SetsPosition, ListTypeOK
  <2>9. Placing(p, t)'
    <3>1. node'[t] # Null
      BY <2>2, <2>3
    <3>2. \A m, k : Passed(p, m, k)' <=> Passed(p, m, k)
      BY <1>1, <2>6, ListKept DEF Fits
    <3>3. Passed(p, prev[t], arg[t])'
      <4>1. PICK m, k : m = cur[t] /\ k = arg[t]
        OBVIOUS
      <4>2. Passed(p, m, k)'
        BY <2>7, <3>2, <4>1
      <4>. QED
        BY <1>1, <2>8, <4>1, <4>2 DEF Passed
    <3>4. succ'[t] = Null \/ (prev'[t] = Head0 /\ succ'[t] \in ToSet(p) /\ value'[succ'[t]] = arg[t])
      <4>1. next[cur[t]] # Null => next[cur[t]] \in ToSet(p)
        BY <1>3, <2>7, Places
      <4>. QED
        BY <1>1, <2>6, <2>8, <4>1
    <3>. QED
      BY <1>1, <1>7, <3>1, <3>3, <3>4 DEF Placing
  <2>10. Local(p, t)'
    <3>1. Calls(t)'
      BY <1>1, <1>3 DEF Local, Calls
    <3>2. Searching(p, t)' /\ Answered(p, t)'
      BY <1>1 DEF Searching, Answered
    <3>. QED
      BY <2>9, <3>1, <3>2 DEF Local
  <2>. QED
    BY <1>1, <1>2, <2>5, <2>6, <2>10, FitsKept
<1>8. CASE call[t] = "retry"
  <2>1. node[t] # Null
    BY <1>3, <1>8 DEF Local, Placing
  <2>2. UNCHANGED <<node, value, prev, succ>>
    BY <1>8, <2>1 DEF InsertPosition, SetsPosition
  <2>3. Own(p)'
    BY <1>1, <1>2, <1>3, <2>2, OwnKept
  <2>4. Placing(p, t)'
    BY <1>1, <1>3, <1>8, <2>2 DEF Local, Placing, Passed
  <2>5. Local(p, t)'
    <3>1. Calls(t)'
      BY <1>1, <1>3, <2>2 DEF Local, Calls
    <3>2. Searching(p, t)' /\ Answered(p, t)'
      BY <1>1 DEF Searching, Answered
    <3>. QED
      BY <2>4, <3>1, <3>2 DEF Local
  <2>. QED
    BY <1>1, <1>2, <2>2, <2>3, <2>5, FitsKept
<1>. QED
  BY <1>1, <1>7, <1>8 DEF ListTypeOK

LEMMA CasFailsFits ==
  ASSUME ListTypeOK, NEW p \in Seq(Node), Fits(p), NEW t \in Thread, InsertCasFails(t)
  PROVE  Fits(p)'
<1>1. /\ pc[t] = "cas" /\ next[prev[t]] # succ[t] /\ pc'[t] = "search" /\ call'[t] = "retry"
      /\ arg'[t] = arg[t] /\ cur'[t] = prev[t]
      /\ next' = [next EXCEPT ![node[t]] = succ[t]]
      /\ UNCHANGED <<value, node, prev, succ, result, before>>
  BY DEF InsertCasFails, CasMatches, NewNext, Begin, ListTypeOK
<1>2. StepOf(t) /\ \A u \in Thread \ {t} : LocalsOf(u)' = LocalsOf(u)
  BY OthersStay DEF StepOf, Step
<1>3. Local(p, t) /\ Linked(p) /\ Own(p)
  BY DEF Fits
<1>4. Own(p)'
  BY <1>1, <1>2, <1>3, OwnKept
<1>5. /\ node[t] # Null /\ Passed(p, prev[t], arg[t])
      /\ succ[t] = Null \/ (prev[t] = Head0 /\ succ[t] \in ToSet(p) /\ value[succ[t]] = arg[t])
  BY <1>1, <1>3 DEF Local, Placing
<1>6. \A m \in ToSet(p) \cup {Head0} : next'[m] = next[m]
  <2>1. node[t] \in Node /\ node[t] \notin ToSet(p) /\ node[t] # Head0 /\ ToSet(p) \subseteq Node
    BY <1>3, <1>5, NodeAssumption DEF Own, ListTypeOK, ToSet
  <2>. QED
    BY <1>1, <2>1 DEF ListTypeOK
<1>7. next'[prev[t]] = next[prev[t]]
  BY <1>3, <1>5, <1>6, Places
<1>8. Passed(p, prev[t], arg[t])'
  BY <1>1, <1>5 DEF Passed
<1>9. Local(p, t)'
  <2>1. Calls(t)'
    BY <1>1, <1>3 DEF Local, Calls
  <2>2. Searching(p, t)'
    BY <1>1, <1>5, <1>7, <1>8 DEF Searching, Passed
  <2>3. Placing(p, t)'
    BY <1>1, <1>5, <1>7, <1>8 DEF Placing
  <2>4. Answered(p, t)'
    BY <1>1 DEF Answered
  <2>. QED
    BY <2>1, <2>2, <2>3, <2>4 DEF Local
<1>. QED
  BY <1>1, <1>2, <1>4, <1>6, <1>9, FitsKept

\* What a step does to the order of the list
Grows(p, q) == \A i, j \in 1 .. Len(p) : i < j =>
                  \E x, y \in 1 .. Len(q) : x < y /\ q[x] = p[i] /\ q[y] = p[j]

LEMMA CasFits ==
  ASSUME ListTypeOK, NEW p \in Seq(Node), Fits(p), NEW t \in Thread, InsertCas(t)
  PROVE  \E q \in Seq(Node) : Fits(q)' /\ Grows(p, q) /\ call[t] = "insert" /\ ToSet(q) = ToSet(p) \cup {node[t]}
<1>1. /\ pc[t] = "cas" /\ next[prev[t]] = succ[t] /\ pc'[t] = "idle" /\ call'[t] = "find"
      /\ node'[t] = Null /\ result'[t] = "inserted"
      /\ next' = [next EXCEPT ![node[t]] = succ[t], ![prev[t]] = node[t]]
      /\ UNCHANGED <<value, arg, before>>
  BY DEF InsertCas, CasMatches, NewNext, Return, ListTypeOK
<1>2. StepOf(t) /\ \A u \in Thread \ {t} : LocalsOf(u)' = LocalsOf(u)
  BY OthersStay DEF StepOf, Step
<1>3. Local(p, t) /\ Linked(p) /\ Doubled(p) /\ Own(p)
  BY DEF Fits
<1>4. /\ node[t] # Null /\ Passed(p, prev[t], arg[t])
      /\ succ[t] = Null \/ (prev[t] = Head0 /\ succ[t] \in ToSet(p) /\ value[succ[t]] = arg[t])
      /\ call[t] = "insert"
  BY <1>1, <1>3 DEF Local, Placing, Calls, ListTypeOK
<1>0. PICK n, a : n = node[t] /\ a = prev[t]
  OBVIOUS
<1>5. /\ n \in Node /\ n \notin ToSet(p) /\ value[n] = arg[t] /\ arg[t] \in Key
      /\ \A u \in Thread \ {t} : node[u] # n
  BY <1>0, <1>1, <1>3, <1>4 DEF Own, Local, Calls, ListTypeOK
<1>6. /\ Passed(p, a, value[n])
      /\ a = Head0 /\ next[a] # Null => value[next[a]] = value[n]
      /\ a # Head0 => next[a] = Null
      /\ next' = [next EXCEPT ![n] = next[a], ![a] = n]
      /\ a \in ToSet(p) \cup {Head0}
  <2>1. Passed(p, a, value[n])
    BY <1>0, <1>4, <1>5
  <2>. QED
    BY <1>0, <1>1, <1>3, <1>4, <1>5, <2>1, Places
<1>7. PICK q \in Seq(Node) :
            /\ Linked(q)' /\ Doubled(q)'
            /\ ToSet(q) = ToSet(p) \cup {n}
            /\ \A k : Has(p, k) => Has(q, k)'
            /\ Has(q, value[n])'
            /\ \A m, k : Passed(p, m, k) => Passed(q, m, k)'
            /\ p # <<>> => q # <<>> /\ value'[q[1]] = value[p[1]]
            /\ Grows(p, q)
  <2>1. /\ n \in Node /\ n \notin ToSet(p) /\ value[n] \in Key /\ value' = value
        /\ Linked(p) /\ Doubled(p)
    BY <1>1, <1>3, <1>5
  <2>. QED
    BY <1>6, <2>1, ListGrows DEF Grows
<1>8. \A m \in ToSet(p) \cup {Head0} : next'[m] = next[m] \/ next'[m] \notin ToSet(p) \cup {Null}
  <2>1. ToSet(p) \subseteq Node /\ n # Head0 /\ n # Null
    BY <1>5, NodeAssumption, NullAssumption DEF ToSet
  <2>. QED
    BY <1>5, <1>6, <2>1 DEF ListTypeOK
<1>9. ASSUME NEW u \in Thread \ {t} PROVE Local(q, u)'
  <2>1. Local(p, u) /\ LocalsOf(u)' = LocalsOf(u)
    BY <1>2 DEF Fits
  <2>. QED
    BY <1>1, <1>3, <1>7, <1>8, <2>1, OthersKeep
<1>10. Local(q, t)'
  <2>1. Calls(t)'
    BY <1>1 DEF Calls
  <2>2. Searching(q, t)' /\ Placing(q, t)'
    BY <1>1 DEF Searching, Placing
  <2>3. Answered(q, t)'
    <3>1. Has(q, arg[t])' /\ result'[t] = "inserted"
      BY <1>1, <1>5, <1>7 DEF Has
    <3>. QED
      BY <3>1 DEF Answered
  <2>. QED
    BY <2>1, <2>2, <2>3 DEF Local
<1>11. Own(q)'
  <2>1. \A u \in Thread \ {t} : node'[u] = node[u] /\ arg'[u] = arg[u]
    BY <1>2 DEF LocalsOf
  <2>. QED
    BY <1>0, <1>1, <1>3, <1>5, <1>7, <2>1 DEF Own
<1>. QED
  BY <1>0, <1>4, <1>7, <1>9, <1>10, <1>11 DEF Fits

LEMMA NextFits ==
  ASSUME ListTypeOK, NEW p \in Seq(Node), Fits(p), NEW t \in Thread, StepOf(t)
  PROVE  \E q \in Seq(Node) : /\ Fits(q)' /\ Grows(p, q)
                              /\ \A u \in Thread : call[u] = "retry" => node[u] \notin ToSet(q)
<1>1. Grows(p, p)
  BY DEF Grows
<1>2. \A u \in Thread : call[u] = "retry" => node[u] \notin ToSet(p) /\ node[u] # Null
  BY DEF Fits, Local, Placing, Own
<1>3. CASE InsertCas(t)
  <2>1. PICK q \in Seq(Node) : Fits(q)' /\ Grows(p, q) /\ call[t] = "insert" /\ ToSet(q) = ToSet(p) \cup {node[t]}
    BY <1>3, CasFits
  <2>2. \A u \in Thread : call[u] = "retry" => node[u] # node[t]
    BY <1>2, <2>1 DEF Fits, Own
  <2>. QED
    BY <1>2, <2>1, <2>2
<1>4. CASE ~InsertCas(t)
  <2>1. Fits(p)'
    BY <1>4, CallsFit, SearchStepFits, ReturnsFit, PositionFits, CasFailsFits DEF StepOf, Step
  <2>. QED
    BY <1>1, <1>2, <2>1
<1>. QED
  BY <1>3, <1>4

LEMMA TypesKept ==
  ASSUME ListTypeOK, NEW p \in Seq(Node), Fits(p), NEW t \in Thread, StepOf(t)
  PROVE  ListTypeOK'
<1>. USE NullAssumption DEF ListTypeOK, Begin, Return, list
<1>1. CASE SearchStep(t)
  BY <1>1 DEF SearchStep, Advance
<1>2. CASE SearchReturn(t) \/ InsertPresent(t)
  <2>1. PICK r \in {"none", "inserted", "present", "found", "missing"} : Return(t, r)
    <3>. HIDE DEF Return
    <3>. QED
      BY <1>2 DEF SearchReturn, InsertPresent
  <2>2. UNCHANGED <<next, value, arg, before>>
    BY <1>2 DEF SearchReturn, InsertPresent
  <2>3. pc' \in [Thread -> {"idle", "search", "cas"}] /\ call' \in [Thread -> {"insert", "retry", "find"}]
    BY <2>1
  <2>4. node' \in [Thread -> Node \cup {Null}] /\ succ' \in [Thread -> Node \cup {Null}]
    BY <2>1
  <2>5. prev' \in [Thread -> Node \cup {Head0, Null}] /\ cur' \in [Thread -> Node \cup {Head0}]
    BY <2>1
  <2>6. equal' \in [Thread -> BOOLEAN] /\ result' \in [Thread -> {"none", "inserted", "present", "found", "missing"}]
    BY <2>1
  <2>. QED
    BY <2>2, <2>3, <2>4, <2>5, <2>6
<1>3. CASE InsertPosition(t)
  <2>1. /\ node' = node /\ value' = value
        \/ \E n \in Node : node' = [node EXCEPT ![t] = n] /\ value' = [value EXCEPT ![n] = arg[t]]
    BY <1>3 DEF InsertPosition, Free
  <2>2. node' \in [Thread -> Node \cup {Null}]
    BY <2>1
  <2>3. value' \in [Node -> Key \cup {Null}]
    BY <2>1
  <2>4. prev' \in [Thread -> Node \cup {Head0, Null}] /\ succ' \in [Thread -> Node \cup {Null}]
    BY <1>3 DEF InsertPosition
  <2>5. pc' \in [Thread -> {"idle", "search", "cas"}] /\ UNCHANGED <<next, call, arg, cur, equal, result, before>>
    BY <1>3 DEF InsertPosition
  <2>. QED
    BY <2>2, <2>3, <2>4, <2>5
<1>4. CASE InsertCas(t)
  BY <1>4 DEF InsertCas, NewNext
<1>5. CASE InsertCasFails(t)
  <2>1. prev[t] \in Node \cup {Head0}
    <3>1. Passed(p, prev[t], arg[t])
      BY <1>5 DEF InsertCasFails, Fits, Local, Placing
    <3>. QED
      BY <3>1, Places DEF Fits
  <2>. QED
    BY <1>5, <2>1 DEF InsertCasFails, NewNext
<1>6. ASSUME NEW k \in Key, InsertCall(t, k) PROVE ListTypeOK'
  BY <1>6 DEF InsertCall
<1>7. ASSUME NEW k \in Key, SearchCall(t, k) PROVE ListTypeOK'
  <2>1. KeysOf(Nodes) \subseteq Key
    <3>1. Nodes = p /\ ToSet(p) = {p[i] : i \in 1 .. Len(p)}
      BY NodesAre DEF Fits, ToSet
    <3>. QED
      BY <3>1 DEF KeysOf, Fits, Linked
  <2>. QED
    BY <1>7, <2>1 DEF SearchCall
<1>. QED
  BY <1>1, <1>2, <1>3, <1>4, <1>5, <1>6, <1>7 DEF StepOf, Step

LEMMA FInvInit == ListInit => FInv
<1>. SUFFICES ASSUME ListInit PROVE FInv
  OBVIOUS
<1>1. ListTypeOK
  BY DEF ListInit, ListTypeOK
<1>2. Linked(<<>>) /\ Doubled(<<>>) /\ Own(<<>>)
  BY DEF ListInit, Linked, Doubled, Own
<1>3. \A t \in Thread : Local(<<>>, t)
  BY DEF ListInit, Local, Calls, Searching, Placing, Answered
<1>4. <<>> \in Seq(Node)
  OBVIOUS
<1>. QED
  BY <1>1, <1>2, <1>3, <1>4 DEF FInv, Fits

LEMMA FInvNext == FInv /\ [ListNext]_listVars => FInv'
<1>. SUFFICES ASSUME FInv, [ListNext]_listVars PROVE FInv'
  OBVIOUS
<1>1. PICK p \in Seq(Node) : Fits(p)
  BY DEF FInv
<1>2. ASSUME NEW t \in Thread, StepOf(t) PROVE FInv'
  BY <1>1, <1>2, NextFits, TypesKept DEF FInv
<1>3. CASE UNCHANGED listVars
  <2>1. ListTypeOK'
    BY <1>3 DEF FInv, ListTypeOK, listVars, list, locals
  <2>2. Fits(p)'
    BY <1>1, <1>3 DEF Fits, Linked, Doubled, Own, Local, Calls, Searching, Placing, Answered, Passed, Has,
                      listVars, list, locals
  <2>. QED
    BY <2>1, <2>2 DEF FInv
<1>. QED
  BY <1>2, <1>3 DEF ListNext, StepOf

\* However many threads insert and search: no key but the first stands twice,
\* Insert reports no key that is not there, and Search misses only the first.
THEOREM AnswersFit == ListSpec => []AnswersFitList
<1>1. FInv => AnswersFitList
  <2>. SUFFICES ASSUME FInv PROVE AnswersFitList
    OBVIOUS
  <2>1. PICK p \in Seq(Node) : Fits(p)
    BY DEF FInv
  <2>2. Nodes = p /\ DOMAIN p = 1 .. Len(p) /\ Len(p) \in Nat
    BY <2>1, NodesAre DEF FInv, Fits
  <2>3. UniqueExceptFirst
    BY <2>1, <2>2 DEF UniqueExceptFirst, Fits, Doubled
  <2>4. InsertAnswers
    <3>1. \A k : Has(p, k) => k \in KeysOf(p)
      BY DEF Has, KeysOf, ToSet
    <3>. QED
      BY <2>1, <2>2, <3>1 DEF InsertAnswers, Fits, Local, Answered
  <2>5. MissesOnlyFirst
    BY <2>1, <2>2 DEF MissesOnlyFirst, Fits, Local, Answered
  <2>. QED
    BY <2>3, <2>4, <2>5 DEF AnswersFitList, FInv
<1>. QED
  BY FInvInit, FInvNext, <1>1, PTL DEF ListSpec

\* However many threads insert: what is linked stays linked, in its order, and
\* an Insert whose first CAS failed never links its node.
THEOREM NodesStay == ListSpec => LinksStay
<1>1. FInv /\ [ListNext]_listVars =>
        [/\ \A i, j \in DOMAIN Nodes : i < j =>
              \E x, y \in DOMAIN Nodes' : x < y /\ Nodes'[x] = Nodes[i] /\ Nodes'[y] = Nodes[j]
         /\ \A t \in Thread : call[t] = "retry" => node[t] \notin ToSet(Nodes')]_listVars
  <2>. SUFFICES ASSUME FInv, ListNext
                PROVE  /\ \A i, j \in DOMAIN Nodes : i < j =>
                            \E x, y \in DOMAIN Nodes' : x < y /\ Nodes'[x] = Nodes[i] /\ Nodes'[y] = Nodes[j]
                       /\ \A t \in Thread : call[t] = "retry" => node[t] \notin ToSet(Nodes')
    OBVIOUS
  <2>1. PICK p \in Seq(Node) : Fits(p)
    BY DEF FInv
  <2>2. PICK q \in Seq(Node) : /\ Fits(q)' /\ Grows(p, q)
                               /\ \A u \in Thread : call[u] = "retry" => node[u] \notin ToSet(q)
    BY <2>1, NextFits DEF FInv, ListNext, StepOf
  <2>3. Nodes = p
    BY <2>1, NodesAre DEF FInv, Fits
  <2>4. Nodes' = q
    <3>1. next' \in [Node \cup {Head0} -> Node \cup {Null}]
      BY <2>1, TypesKept DEF FInv, ListNext, StepOf, ListTypeOK
    <3>2. Linked(q)'
      BY <2>2 DEF Fits
    <3>3. Chain(next', Head0, Null) = q
      BY <3>1, <3>2, ChainIs DEF Linked
    <3>. QED
      BY <3>3 DEF Nodes
  <2>5. DOMAIN p = 1 .. Len(p) /\ DOMAIN q = 1 .. Len(q)
    OBVIOUS
  <2>6. \A i, j \in DOMAIN p : i < j =>
          \E x, y \in DOMAIN q : x < y /\ q[x] = p[i] /\ q[y] = p[j]
    <3>. SUFFICES ASSUME NEW i \in DOMAIN p, NEW j \in DOMAIN p, i < j
                  PROVE  \E x, y \in DOMAIN q : x < y /\ q[x] = p[i] /\ q[y] = p[j]
      OBVIOUS
    <3>1. PICK x, y \in 1 .. Len(q) : x < y /\ q[x] = p[i] /\ q[y] = p[j]
      <4>1. i \in 1 .. Len(p) /\ j \in 1 .. Len(p)
        BY <2>5
      <4>2. \A h, l \in 1 .. Len(p) : h < l =>
              \E x, y \in 1 .. Len(q) : x < y /\ q[x] = p[h] /\ q[y] = p[l]
        BY <2>2 DEF Grows
      <4>. QED
        BY <4>1, <4>2
    <3>2. x \in DOMAIN q /\ y \in DOMAIN q
      BY <2>5
    <3>. QED
      BY <3>1, <3>2
  <2>7. \A u \in Thread : call[u] = "retry" => node[u] \notin ToSet(q)
    BY <2>2
  <2>. QED
    BY <2>3, <2>4, <2>6, <2>7
<1>. QED
  BY FInvInit, FInvNext, <1>1, PTL DEF ListSpec, LinksStay
=============================================================================
