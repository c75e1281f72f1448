----------------------- MODULE ProcessAndDigestProofs ------------------------
(***************************************************************************)
(* The process pool for any number of callers, processes, tasks and closes:*)
(* how many processes it has, what a callback is given, and what is done   *)
(* when join returns.  The queue is in the order of the calls of run, so   *)
(* what a process holds or has done is earlier than all that is queued.    *)
(* Then the digest: however a message is cut, MD5 is fed it padded.        *)
(***************************************************************************)
EXTENDS ProcessPool, Digests, FiniteSetTheorems, SequenceTheorems, TLAPS

Counted  == {p \in Proc : pc[p] \notin {"unborn", "exited"}}
Creating == {c \in Caller : at[c] = "create"}
InRun    == {c \in Caller : at[c] # "out"}

\* A caller that has passed the test of run may still raise the count.
Counts == /\ created = Cardinality(Counted)
          /\ created + Cardinality(Creating) <= MaxNum + Cardinality(Caller) - 1
          /\ \A p \in Proc : pc[p] = "unborn" <=> p > started

\* Every task is in the queue, in the hands of one process, or done.
Order ==
    /\ Len(tasks) + Cardinality(InRun) <= MaxTasks
    /\ done \subseteq DOMAIN tasks
    /\ \A i \in DOMAIN q : q[i] <= Len(tasks)
    /\ \A i, j \in DOMAIN q : i < j /\ q[i] # StopEvent /\ q[j] # StopEvent => q[i] < q[j]
    /\ \A i \in DOMAIN q : q[i] # StopEvent => \A d \in done : d < q[i]
    /\ \A p \in Proc : pc[p] = "call" =>
          /\ event[p] \in DOMAIN tasks /\ event[p] \notin done
          /\ \A i \in DOMAIN q : q[i] # StopEvent => event[p] < q[i]
          /\ \A r \in Proc \ {p} : pc[r] = "call" => event[r] # event[p]
    /\ \A k \in DOMAIN tasks : \/ k \in done
                               \/ \E p \in Proc : pc[p] = "call" /\ event[p] = k
                               \/ \E i \in DOMAIN q : q[i] = k

\* What a process keeps in `result', and what callbacks were given
Results ==
    /\ \A p \in Proc : /\ requests[p] <= Cardinality(done)
                       /\ result[p] \in {Unbound, None} \cup done
                       /\ result[p] \in done => tasks[result[p]] # "Predict"
                       /\ pc[p] = "call" /\ result[p] \in done => result[p] < event[p]
    /\ \A a \in answers : a[1] \in done
    /\ StaleResultOnlyFromPredict

\* Before the first close there is no StopEvent; behind it, until the pool is
\* used again, there is nothing else.
Stopping ==
    /\ closes = 0 => /\ pool = "open"
                     /\ \A i \in DOMAIN q : q[i] # StopEvent
                     /\ \A p \in Proc : pc[p] \notin {"leave", "exited"}
    /\ closes = 1 /\ pool # "open" =>
          /\ \A i, j \in DOMAIN q : i < j /\ q[i] = StopEvent => q[j] = StopEvent
          /\ (\E p \in Proc : pc[p] \in {"leave", "exited"}) => \A i \in DOMAIN q : q[i] = StopEvent
    /\ pool # "open" => Idle
    /\ pool = "joined" => Joined

PInv == TypeOK /\ Counts /\ Order /\ Results /\ Stopping

-----------------------------------------------------------------------------
LEMMA OneMore ==
  ASSUME NEW S, IsFiniteSet(S), NEW A \in SUBSET S, NEW x \in S \ A
  PROVE  /\ Cardinality(A) \in Nat
         /\ Cardinality(A \cup {x}) = Cardinality(A) + 1
         /\ Cardinality(A \cup {x}) <= Cardinality(S)
BY FS_Subset, FS_AddElement, FS_CardinalityType

LEMMA OneLess ==
  ASSUME NEW S, IsFiniteSet(S), NEW A \in SUBSET S, NEW x \in A
  PROVE  /\ Cardinality(A) \in Nat
         /\ Cardinality(A \ {x}) = Cardinality(A) - 1
         /\ Cardinality(A) >= 1
<1>1. IsFiniteSet(A) /\ IsFiniteSet(A \ {x})
  BY FS_Subset
<1>. QED
  BY <1>1, FS_RemoveElement, FS_CardinalityType

LEMMA Finite ==
  /\ IsFiniteSet(Proc) /\ IsFiniteSet(Caller)
  /\ Cardinality(Counted) \in Nat /\ Cardinality(Creating) \in Nat /\ Cardinality(InRun) \in Nat
  /\ Cardinality(Caller) \in Nat \ {0}
<1>1. IsFiniteSet(Proc)
  BY FS_Interval, BoundsAssumption DEF Proc
<1>2. Counted \subseteq Proc /\ Creating \subseteq Caller /\ InRun \subseteq Caller
  BY DEF Counted, Creating, InRun
<1>. QED
  BY <1>1, <1>2, CallerAssumption, FS_Subset, FS_CardinalityType, FS_EmptySet

LEMMA QueueTyped ==
  ASSUME TypeOK, NEW i \in DOMAIN q
  PROVE  i \in Nat \ {0} /\ q[i] \in 0 .. MaxTasks /\ q[i] \in Nat
<1>. DEFINE S == 0 .. MaxTasks
<1>1. q \in Seq(S)
  BY DEF TypeOK
<1>2. i \in 1 .. Len(q) /\ q[i] \in S
  <2>. HIDE DEF S
  <2>. QED
    BY <1>1
<1>. QED
  BY <1>2, BoundsAssumption

LEMMA PInvInit == Init => PInv
<1>. SUFFICES ASSUME Init PROVE PInv
  OBVIOUS
<1>1. Counted = {} /\ Creating = {} /\ InRun = {}
  BY DEF Init, Counted, Creating, InRun
<1>2. TypeOK
  BY BoundsAssumption DEF Init, TypeOK, Proc, StopEvent, Unbound, None, EventType
<1>3. Counts
  BY <1>1, Finite, FS_EmptySet, BoundsAssumption DEF Init, Counts, Proc
<1>4. Order
  BY <1>1, FS_EmptySet, BoundsAssumption DEF Init, Order
<1>5. Results
  BY FS_EmptySet DEF Init, Results, StaleResultOnlyFromPredict
<1>6. Stopping
  BY DEF Init, Stopping
<1>. QED
  BY <1>2, <1>3, <1>4, <1>5, <1>6 DEF PInv

-----------------------------------------------------------------------------
LEMMA RunKeeps ==
  ASSUME PInv, NEW c \in Caller, Run(c)
  PROVE  PInv'
<1>. USE DEF PInv
<1>1. TypeOK'
  BY DEF TypeOK, Run, Moves, worker
<1>2. Counted' = Counted /\ InRun' = InRun \cup {c} /\ c \notin InRun
  BY DEF TypeOK, Run, Moves, worker, Counted, InRun
<1>3. Creating' = IF MayCreate THEN Creating \cup {c} ELSE Creating
  BY DEF TypeOK, Run, Moves, Creating
<1>4. c \notin Creating /\ Creating \subseteq Caller /\ InRun \subseteq Caller
  BY DEF Run, Moves, Creating, InRun
<1>5. /\ Cardinality(InRun \cup {c}) = Cardinality(InRun) + 1
      /\ Cardinality(Creating \cup {c}) = Cardinality(Creating) + 1
      /\ Cardinality(Creating \cup {c}) <= Cardinality(Caller)
  BY <1>2, <1>4, OneMore, CallerAssumption
<1>6. Counts'
  <2>1. created' = created /\ started' = started /\ pc' = pc
    BY DEF Run
  <2>2. created' = Cardinality(Counted') /\ \A p \in Proc : pc'[p] = "unborn" <=> p > started'
    BY <1>2, <2>1, Zenon DEF Counts
  <2>3. created + Cardinality(Creating) <= MaxNum + Cardinality(Caller) - 1
    BY Zenon DEF Counts
  <2>4. created \in Nat
    BY Zenon DEF TypeOK
  <2>5. created' + Cardinality(Creating') <= MaxNum + Cardinality(Caller) - 1
    <3>1. CASE MayCreate
      <4>1. Creating' = Creating \cup {c}
        BY <1>3, <3>1, Zenon
      <4>2. created < MaxNum /\ MaxNum \in Nat
        BY <3>1, BoundsAssumption DEF MayCreate
      <4>. QED
        BY <1>5, <2>1, <2>4, <4>1, <4>2, Finite
    <3>2. CASE ~ MayCreate
      BY <1>3, <2>1, <2>3, <3>2, Zenon
    <3>. QED
      BY <3>1, <3>2, Zenon
  <2>. QED
    BY <2>2, <2>5, Zenon DEF Counts
<1>7. Order'
  <2>1. Len(tasks) + Cardinality(InRun) < MaxTasks
    BY DEF Run, InRun
  <2>2. Len(tasks') + Cardinality(InRun') <= MaxTasks
    BY <1>2, <1>5, <2>1, Finite, BoundsAssumption DEF Run, TypeOK
  <2>. QED
    BY <2>2 DEF Order, Run, worker
<1>8. Results'
  BY DEF Results, StaleResultOnlyFromPredict, Run, worker
<1>9. Stopping'
  BY DEF Stopping, Run, worker, Joined, Ended
<1>. QED
  BY <1>1, <1>6, <1>7, <1>8, <1>9

LEMMA CreateKeeps ==
  ASSUME PInv, NEW c \in Caller, CreateThread(c)
  PROVE  PInv'
<1>. USE DEF PInv
<1>. DEFINE p == started + 1
<1>1. p \in Proc /\ pc[p] = "unborn" /\ pc' = [pc EXCEPT ![p] = "client"]
  BY BoundsAssumption DEF TypeOK, Counts, CreateThread, Proc
<1>2. TypeOK'
  BY <1>1 DEF TypeOK, CreateThread, Moves, worker, Proc
<1>3. Counted' = Counted \cup {p} /\ p \in Proc \ Counted /\ Counted \subseteq Proc
  BY <1>1 DEF TypeOK, Counted
<1>4. Creating' = Creating \ {c} /\ c \in Creating /\ InRun' = InRun /\ Creating \subseteq Caller
  BY DEF TypeOK, CreateThread, Moves, Creating, InRun
<1>5. Cardinality(Counted') = Cardinality(Counted) + 1
  BY <1>3, OneMore, Finite
<1>6. Cardinality(Creating') = Cardinality(Creating) - 1
  BY <1>4, OneLess, CallerAssumption
<1>7. Counts'
  <2>1. created' = Cardinality(Counted')
    BY <1>5 DEF Counts, CreateThread
  <2>2. created' + Cardinality(Creating') <= MaxNum + Cardinality(Caller) - 1
    BY <1>6, Finite, BoundsAssumption DEF Counts, CreateThread, TypeOK
  <2>3. \A r \in Proc : pc'[r] = "unborn" <=> r > started'
    BY <1>1 DEF Counts, CreateThread, TypeOK, Proc
  <2>. QED
    BY <2>1, <2>2, <2>3 DEF Counts
<1>8. Order'
  BY <1>1, <1>4 DEF Order, CreateThread, TypeOK, worker
<1>9. Results'
  BY <1>1 DEF Results, StaleResultOnlyFromPredict, CreateThread, TypeOK, worker
<1>10. Stopping'
  BY <1>1, <1>4 DEF Stopping, CreateThread, TypeOK, worker, Idle, Creating
<1>. QED
  BY <1>2, <1>7, <1>8, <1>9, <1>10

LEMMA PutTaskKeeps ==
  ASSUME PInv, NEW c \in Caller, PutTask(c)
  PROVE  PInv'
<1>. USE DEF PInv
<1>. DEFINE n == Len(tasks) + 1
<1>1. PICK type \in EventType : tasks' = Append(tasks, type)
  BY DEF PutTask
<1>2. /\ tasks \in Seq(EventType) /\ tasks' \in Seq(EventType) /\ Len(tasks) \in Nat
      /\ Len(tasks') = n /\ DOMAIN tasks' = DOMAIN tasks \cup {n}
      /\ n \notin DOMAIN tasks /\ DOMAIN tasks = 1 .. Len(tasks)
      /\ \A k \in DOMAIN tasks : tasks'[k] = tasks[k]
  BY <1>1 DEF TypeOK
<1>3. q' = Append(q, n) /\ q \in Seq(0 .. MaxTasks)
  BY <1>2 DEF PutTask, TypeOK
<1>4. InRun' = InRun \ {c} /\ c \in InRun /\ Creating' = Creating /\ Counted' = Counted /\ InRun \subseteq Caller
  BY DEF TypeOK, PutTask, Moves, worker, Creating, InRun, Counted
<1>5. Cardinality(InRun') = Cardinality(InRun) - 1 /\ Cardinality(InRun) >= 1
  BY <1>4, OneLess, CallerAssumption
<1>6. n \in 1 .. MaxTasks
  BY <1>2, <1>5, Finite, BoundsAssumption DEF Order
<1>7. TypeOK'
  <2>1. q' \in Seq(0 .. MaxTasks)
    BY <1>3, <1>6
  <2>. QED
    BY <1>2, <2>1 DEF TypeOK, PutTask, Moves, worker
<1>8. Counts'
  BY <1>4 DEF Counts, PutTask
<1>9. /\ DOMAIN q' = DOMAIN q \cup {Len(q) + 1} /\ q'[Len(q) + 1] = n
      /\ \A i \in DOMAIN q : q'[i] = q[i] /\ i < Len(q) + 1
  BY <1>2, <1>3
<1>10. Order'
  <2>1. Len(tasks') + Cardinality(InRun') <= MaxTasks
    BY <1>2, <1>5, Finite, BoundsAssumption DEF Order
  <2>2. done' \subseteq DOMAIN tasks' /\ \A i \in DOMAIN q' : q'[i] <= Len(tasks')
    <3>1. done' \subseteq DOMAIN tasks'
      BY <1>2 DEF Order, PutTask, worker
    <3>2. \A i \in DOMAIN q : q[i] \in Nat /\ q[i] <= Len(tasks) /\ q[i] < n
      BY <1>2, QueueTyped DEF Order
    <3>. QED
      BY <1>2, <1>9, <3>1, <3>2
  <2>3. \A i, j \in DOMAIN q' : i < j /\ q'[i] # StopEvent /\ q'[j] # StopEvent => q'[i] < q'[j]
    <3>1. \A i \in DOMAIN q : q[i] < n /\ i \in Nat
      BY <1>2, QueueTyped DEF Order
    <3>2. \A i, j \in DOMAIN q' : i < j => i \in DOMAIN q
      BY <1>3, <1>9
    <3>. QED
      BY <1>9, <3>1, <3>2 DEF Order
  <2>4. \A i \in DOMAIN q' : q'[i] # StopEvent => \A d \in done' : d < q'[i]
    BY <1>2, <1>3, <1>9 DEF Order, PutTask, worker
  <2>5. \A p \in Proc : pc'[p] = "call" =>
          /\ event'[p] \in DOMAIN tasks' /\ event'[p] \notin done'
          /\ \A i \in DOMAIN q' : q'[i] # StopEvent => event'[p] < q'[i]
          /\ \A r \in Proc \ {p} : pc'[r] = "call" => event'[r] # event'[p]
    BY <1>2, <1>3, <1>9 DEF Order, PutTask, worker
  <2>6. \A k \in DOMAIN tasks' : \/ k \in done'
                                 \/ \E p \in Proc : pc'[p] = "call" /\ event'[p] = k
                                 \/ \E i \in DOMAIN q' : q'[i] = k
    BY <1>2, <1>9 DEF Order, PutTask, worker
  <2>. QED
    BY <2>1, <2>2, <2>3, <2>4, <2>5, <2>6 DEF Order
<1>11. Results'
  BY <1>2 DEF Results, Order, StaleResultOnlyFromPredict, PutTask, worker
<1>12. Stopping'
  <2>1. pool = "open"
    BY DEF Stopping, PutTask, Moves, Idle
  <2>. QED
    BY <1>2, <1>9, <2>1 DEF Stopping, PutTask, worker, StopEvent
<1>. QED
  BY <1>7, <1>8, <1>10, <1>11, <1>12

\* The steps of close and join
LEMMA ParentKeeps ==
  ASSUME PInv, Close \/ PutStop \/ Closed \/ Reuse \/ Join \/ JoinReturns
  PROVE  PInv'
<1>. USE DEF PInv
<1>1. /\ UNCHANGED <<at, tasks, started, created, pc, worker>>
      /\ Counted' = Counted /\ Creating' = Creating /\ InRun' = InRun
  BY DEF Close, PutStop, Closed, Reuse, Join, JoinReturns, GoesOn, Counted, Creating, InRun
<1>2. Counts'
  BY <1>1 DEF Counts
<1>3. CASE PutStop
  <2>1. /\ q \in Seq(0 .. MaxTasks) /\ q' = Append(q, StopEvent)
        /\ DOMAIN q' = DOMAIN q \cup {Len(q) + 1} /\ q'[Len(q) + 1] = StopEvent
        /\ \A i \in DOMAIN q : q'[i] = q[i] /\ i < Len(q) + 1
    BY <1>3 DEF PutStop, TypeOK
  <2>2. TypeOK'
    BY <1>1, <1>3, <2>1, BoundsAssumption DEF TypeOK, PutStop, StopEvent, worker
  <2>3. Order'
    <3>1. \A i \in DOMAIN q' : q'[i] # StopEvent => i \in DOMAIN q /\ q'[i] = q[i]
      BY <2>1
    <3>2. \A i \in DOMAIN q' : q'[i] <= Len(tasks')
      BY <1>1, <2>1 DEF Order, StopEvent, TypeOK
    <3>3. \A k \in DOMAIN tasks' : \/ k \in done'
                                   \/ \E p \in Proc : pc'[p] = "call" /\ event'[p] = k
                                   \/ \E i \in DOMAIN q' : q'[i] = k
      BY <1>1, <2>1 DEF Order, worker
    <3>. QED
      BY <1>1, <3>1, <3>2, <3>3 DEF Order, worker
  <2>4. Results'
    BY <1>1 DEF Results, StaleResultOnlyFromPredict, worker
  <2>5. Stopping'
    BY <1>1, <1>3, <2>1 DEF Stopping, PutStop, Idle, Joined, Ended
  <2>. QED
    BY <1>2, <2>2, <2>3, <2>4, <2>5
<1>4. CASE Close \/ Closed \/ Reuse \/ Join \/ JoinReturns
  <2>1. q' = q
    BY <1>4 DEF Close, Closed, Reuse, Join, JoinReturns, GoesOn
  <2>2. TypeOK'
    BY <1>1, <1>4, <2>1, BoundsAssumption DEF TypeOK, Close, Closed, Reuse, Join, JoinReturns, GoesOn, Stops, worker
  <2>3. Order' /\ Results'
    BY <1>1, <2>1 DEF Order, Results, StaleResultOnlyFromPredict, worker
  <2>4. Stopping'
    <3>1. CASE Close
      BY <1>1, <2>1, <3>1 DEF Stopping, Close, TypeOK, Idle, Joined, Ended
    <3>2. CASE Closed \/ Reuse \/ Join \/ JoinReturns
      BY <1>1, <2>1, <3>2 DEF Stopping, Closed, Reuse, Join, JoinReturns, GoesOn, Idle, Joined, Ended
    <3>. QED
      BY <1>4, <3>1, <3>2
  <2>. QED
    BY <1>2, <2>2, <2>3, <2>4
<1>. QED
  BY <1>3, <1>4

LEMMA ClientKeeps ==
  ASSUME PInv, NEW p \in Proc, Client(p)
  PROVE  PInv'
<1>. USE DEF PInv
<1>1. /\ pc[p] = "client" /\ pc' \in [Proc -> {"unborn", "client", "get", "call", "leave", "exited", "dead"}]
      /\ pc'[p] \in {"get", "dead"} /\ \A r \in Proc \ {p} : pc'[r] = pc[r]
  BY DEF Client, Goto, TypeOK
<1>2. Counted' = Counted /\ Creating' = Creating /\ InRun' = InRun
  BY <1>1 DEF Counted, Creating, InRun, Client, parent
<1>3. TypeOK'
  BY <1>1 DEF TypeOK, Client, parent, worker
<1>4. Counts'
  BY <1>1, <1>2 DEF Counts, Client, parent
<1>5. Order'
  BY <1>1, <1>2 DEF Order, Client, parent, worker
<1>6. Results'
  BY <1>1 DEF Results, StaleResultOnlyFromPredict, Client, parent, worker
<1>7. Stopping'
  <2>1. p <= started
    BY <1>1 DEF Counts, TypeOK, Proc
  <2>2. pool # "joined"
    BY <1>1, <2>1 DEF Stopping, Joined, Ended, Proc
  <2>. QED
    BY <1>1, <2>2 DEF Stopping, Client, parent, worker, Idle
<1>. QED
  BY <1>3, <1>4, <1>5, <1>6, <1>7

LEMMA GetKeeps ==
  ASSUME PInv, NEW p \in Proc, Get(p)
  PROVE  PInv'
<1>. USE DEF PInv
<1>1. /\ q \in Seq(0 .. MaxTasks) /\ q # <<>> /\ q' = Tail(q) /\ Head(q) = q[1]
      /\ 1 \in DOMAIN q /\ Len(q) \in Nat
      /\ \A i \in DOMAIN q' : i + 1 \in DOMAIN q /\ q'[i] = q[i + 1] /\ 1 < i + 1 /\ i \in Nat
      /\ \A i \in DOMAIN q : i = 1 \/ (i - 1 \in DOMAIN q' /\ q'[i - 1] = q[i])
  BY DEF Get, TypeOK
<1>2. /\ pc[p] = "get" /\ pc' = [pc EXCEPT ![p] = IF q[1] = StopEvent THEN "leave" ELSE "call"]
      /\ event' = [event EXCEPT ![p] = q[1]]
      /\ UNCHANGED <<parent, created, result, requests, done, answers>>
  BY <1>1 DEF Get, Goto
<1>3. TypeOK'
  <2>1. q[1] \in 0 .. MaxTasks
    BY <1>1, QueueTyped
  <2>2. q' \in Seq(0 .. MaxTasks)
    BY <1>1
  <2>. QED
    BY <1>2, <2>1, <2>2 DEF TypeOK, parent
<1>4. Counted' = Counted /\ Creating' = Creating /\ InRun' = InRun
  BY <1>2 DEF TypeOK, Counted, Creating, InRun, parent
<1>5. Counts'
  BY <1>2, <1>4 DEF Counts, TypeOK, parent
<1>6. Order'
  <2>1. /\ Len(tasks') + Cardinality(InRun') <= MaxTasks
        /\ done' \subseteq DOMAIN tasks'
        /\ \A i \in DOMAIN q' : q'[i] <= Len(tasks')
        /\ \A i \in DOMAIN q' : q'[i] # StopEvent => \A d \in done' : d < q'[i]
    BY <1>1, <1>2, <1>4 DEF Order, parent
  <2>2. \A i, j \in DOMAIN q' : i < j /\ q'[i] # StopEvent /\ q'[j] # StopEvent => q'[i] < q'[j]
    BY <1>1 DEF Order
  <2>3. q[1] # StopEvent => /\ q[1] \in DOMAIN tasks /\ q[1] \notin done
                            /\ \A i \in DOMAIN q' : q'[i] # StopEvent => q[1] < q'[i]
                            /\ \A r \in Proc : pc[r] = "call" => event[r] # q[1]
    <3>. SUFFICES ASSUME q[1] # StopEvent
                  PROVE  /\ q[1] \in DOMAIN tasks /\ q[1] \notin done
                         /\ \A i \in DOMAIN q' : q'[i] # StopEvent => q[1] < q'[i]
                         /\ \A r \in Proc : pc[r] = "call" => event[r] # q[1]
      OBVIOUS
    <3>1. q[1] \in 1 .. Len(tasks) /\ DOMAIN tasks = 1 .. Len(tasks)
      <4>1. tasks \in Seq(EventType)
        BY DEF TypeOK
      <4>2. q[1] \in Nat /\ q[1] <= Len(tasks)
        BY <1>1, QueueTyped DEF Order
      <4>. QED
        BY <4>1, <4>2 DEF StopEvent
    <3>2. q[1] \notin done /\ \A r \in Proc : pc[r] = "call" => event[r] # q[1]
      BY <1>1, <3>1 DEF Order
    <3>3. \A i \in DOMAIN q' : q'[i] # StopEvent => q[1] < q'[i]
      BY <1>1 DEF Order
    <3>. QED
      BY <3>1, <3>2, <3>3
  <2>4. \A r \in Proc : pc'[r] = "call" =>
          /\ event'[r] \in DOMAIN tasks' /\ event'[r] \notin done'
          /\ \A i \in DOMAIN q' : q'[i] # StopEvent => event'[r] < q'[i]
          /\ \A s \in Proc \ {r} : pc'[s] = "call" => event'[s] # event'[r]
    BY <1>1, <1>2, <2>3 DEF Order, TypeOK, parent
  <2>5. ASSUME NEW k \in DOMAIN tasks'
        PROVE  \/ k \in done'
               \/ \E r \in Proc : pc'[r] = "call" /\ event'[r] = k
               \/ \E i \in DOMAIN q' : q'[i] = k
    <3>1. k \in DOMAIN tasks /\ k # StopEvent
      BY <1>2 DEF parent, TypeOK, StopEvent
    <3>2. CASE k \in done
      BY <1>2, <3>2
    <3>3. CASE \E r \in Proc : pc[r] = "call" /\ event[r] = k
      BY <1>2, <3>3 DEF TypeOK
    <3>4. CASE \E i \in DOMAIN q : q[i] = k
      <4>1. CASE q[1] = k
        BY <1>2, <3>1, <4>1 DEF TypeOK
      <4>2. CASE q[1] # k
        BY <1>1, <3>4, <4>2
      <4>. QED
        BY <4>1, <4>2
    <3>. QED
      BY <3>1, <3>2, <3>3, <3>4 DEF Order
  <2>. QED
    BY <2>1, <2>2, <2>4, <2>5 DEF Order
<1>7. Results'
  <2>1. \A d \in done : q[1] # StopEvent => d < q[1]
    BY <1>1 DEF Order
  <2>. QED
    BY <1>2, <2>1 DEF Results, StaleResultOnlyFromPredict, TypeOK, parent
<1>8. Stopping'
  <2>1. closes = 0 => q[1] # StopEvent
    BY <1>1 DEF Stopping
  <2>2. closes = 1 /\ pool # "open" /\ q[1] = StopEvent => \A i \in DOMAIN q' : q'[i] = StopEvent
    BY <1>1 DEF Stopping
  <2>3. closes = 1 /\ pool # "open" /\ q[1] # StopEvent => \A r \in Proc : pc[r] \notin {"leave", "exited"}
    BY <1>1 DEF Stopping
  <2>4. \A i, j \in DOMAIN q' : i < j => i + 1 < j + 1
    BY <1>1
  <2>5. closes = 1 /\ pool # "open" =>
          /\ \A i, j \in DOMAIN q' : i < j /\ q'[i] = StopEvent => q'[j] = StopEvent
          /\ (\E r \in Proc : pc'[r] \in {"leave", "exited"}) => \A i \in DOMAIN q' : q'[i] = StopEvent
    BY <1>1, <1>2, <2>2, <2>3, <2>4 DEF Stopping, TypeOK
  <2>6. pool # "joined"
    <3>1. p <= started
      BY <1>2 DEF Counts, TypeOK, Proc
    <3>. QED
      BY <1>2, <3>1 DEF Stopping, Joined, Ended, Proc
  <2>. QED
    BY <1>1, <1>2, <2>1, <2>5, <2>6 DEF Stopping, TypeOK, parent, Idle
<1>. QED
  BY <1>3, <1>5, <1>6, <1>7, <1>8

LEMMA CallKeeps ==
  ASSUME PInv, NEW p \in Proc, CallTask(p)
  PROVE  PInv'
<1>. USE DEF PInv
<1>. DEFINE k == event[p]
<1>1. /\ pc[p] = "call" /\ pc' = [pc EXCEPT ![p] = "get"]
      /\ done' = done \cup {k}
      /\ UNCHANGED <<parent, q, created, event>>
      /\ Succeeds(p, k, ResultOf(p, k)) \/ Raises(p, k)
  BY DEF CallTask, Goto
<1>2. k \in DOMAIN tasks /\ k \notin done /\ k \in 1 .. MaxTasks /\ Len(tasks) <= MaxTasks
  <2>1. tasks \in Seq(EventType) /\ Len(tasks) <= MaxTasks
    BY Finite, BoundsAssumption DEF Order, TypeOK
  <2>. QED
    BY <1>1, <2>1, BoundsAssumption DEF Order
<1>3. Counted' = Counted /\ Creating' = Creating /\ InRun' = InRun
  BY <1>1 DEF TypeOK, Counted, Creating, InRun, parent
<1>4. /\ Cardinality(done) \in Nat /\ Cardinality(done') = Cardinality(done) + 1
      /\ Cardinality(done') <= MaxTasks
  <2>1. IsFiniteSet(1 .. MaxTasks) /\ Cardinality(1 .. MaxTasks) = MaxTasks
    BY FS_Interval, BoundsAssumption
  <2>2. done \in SUBSET (1 .. MaxTasks) /\ k \in (1 .. MaxTasks) \ done
    BY <1>2 DEF TypeOK
  <2>3. /\ Cardinality(done) \in Nat
        /\ Cardinality(done \cup {k}) = Cardinality(done) + 1
        /\ Cardinality(done \cup {k}) <= Cardinality(1 .. MaxTasks)
    <3>. HIDE DEF k
    <3>. QED
      BY <2>1, <2>2, OneMore
  <2>. QED
    BY <1>1, <2>1, <2>3
<1>7. result[p] \in {Unbound, None} \cup done /\ (result[p] \in done => result[p] < k /\ tasks[result[p]] # "Predict")
  BY <1>1 DEF Results
\* What the task leaves in `result', and what a callback was given
<1>5. PICK r : /\ result' = [result EXCEPT ![p] = r]
               /\ r \in {Unbound, None, k} \cup {result[p]}
               /\ r = k => tasks[k] # "Predict"
               /\ answers' = answers \/ (answers' = answers \cup {<<k, r>>} /\ r # Unbound)
               /\ r \in {None, k} \/ (tasks[k] = "Predict" /\ r = result[p])
               /\ r = None => answers' = answers \/ tasks[k] = "Predict"
  <2>1. CASE Succeeds(p, k, ResultOf(p, k))
    <3>. WITNESS ResultOf(p, k)
    <3>1. k # None /\ k # Unbound
      BY <1>2, BoundsAssumption DEF None, Unbound
    <3>2. result[p] # k
      BY <1>2, <1>7, <3>1
    <3>. QED
      BY <2>1, <3>1, <3>2 DEF Succeeds, ResultOf
  <2>2. CASE Raises(p, k)
    <3>. WITNESS None
    <3>. QED
      BY <1>2, <2>2, BoundsAssumption DEF Raises, None
  <2>. QED
    BY <1>1, <2>1, <2>2
<1>6. requests' = requests \/ requests' = [requests EXCEPT ![p] = @ + 1]
  BY <1>1 DEF Succeeds, Raises
<1>8. TypeOK'
  <2>1. r \in 0 .. None /\ (r # Unbound => r \in 1 .. None)
    BY <1>2, <1>5, <1>7, BoundsAssumption DEF TypeOK, Unbound, None
  <2>2. result' \in [Proc -> 0 .. None] /\ answers' \subseteq (1 .. MaxTasks) \X (1 .. None)
    BY <1>2, <1>5, <2>1 DEF TypeOK
  <2>3. requests' \in [Proc -> 0 .. MaxTasks]
    <3>1. \A s \in Proc : requests[s] \in 0 .. MaxTasks /\ requests[s] \in Nat /\ requests[s] <= Cardinality(done)
      BY BoundsAssumption DEF TypeOK, Results
    <3>2. requests[p] + 1 \in 0 .. MaxTasks
      BY <1>4, <3>1, BoundsAssumption
    <3>. QED
      BY <1>6, <3>2 DEF TypeOK
  <2>. QED
    BY <1>1, <1>2, <2>2, <2>3 DEF TypeOK, parent
<1>9. Counts'
  BY <1>1, <1>3 DEF Counts, TypeOK, parent
<1>10. Order'
  <2>1. UNCHANGED <<tasks, q, event, InRun>>
    BY <1>1, <1>3 DEF parent
  <2>2. \A s \in Proc : pc'[s] = "call" => s # p /\ pc[s] = "call"
    BY <1>1 DEF TypeOK
  <2>3. \A i \in DOMAIN q : q[i] # StopEvent => \A d \in done' : d < q[i]
    BY <1>1 DEF Order
  <2>4. \A s \in Proc : pc'[s] = "call" =>
          /\ event[s] \in DOMAIN tasks /\ event[s] \notin done'
          /\ \A i \in DOMAIN q : q[i] # StopEvent => event[s] < q[i]
          /\ \A o \in Proc \ {s} : pc'[o] = "call" => event[o] # event[s]
    BY <1>1, <2>2 DEF Order
  <2>5. \A j \in DOMAIN tasks : \/ j \in done'
                                \/ \E s \in Proc : pc'[s] = "call" /\ event[s] = j
                                \/ \E i \in DOMAIN q : q[i] = j
    BY <1>1 DEF Order, TypeOK
  <2>6. done' \subseteq DOMAIN tasks
    BY <1>1, <1>2 DEF Order
  <2>. QED
    BY <2>1, <2>3, <2>4, <2>5, <2>6 DEF Order
<1>11. Results'
  <2>1. \A s \in Proc : requests'[s] <= Cardinality(done')
    <3>1. \A s \in Proc : requests[s] \in Nat /\ requests[s] <= Cardinality(done)
      BY BoundsAssumption DEF TypeOK, Results
    <3>2. \A s \in Proc : requests'[s] = requests[s] \/ requests'[s] = requests[s] + 1
      BY <1>6 DEF TypeOK
    <3>. QED
      BY <1>4, <3>1, <3>2
  <2>2. \A s \in Proc : result'[s] \in {Unbound, None} \cup done'
    BY <1>1, <1>5, <1>7 DEF TypeOK, Results
  <2>3. ASSUME NEW s \in Proc, result'[s] \in done'
        PROVE  tasks'[result'[s]] # "Predict"
    <3>1. tasks' = tasks
      BY <1>1 DEF parent
    <3>2. CASE s = p
      BY <1>1, <1>2, <1>5, <1>7, <2>3, <3>1, <3>2, BoundsAssumption DEF TypeOK, Unbound, None
    <3>3. CASE s # p
      BY <1>1, <1>2, <1>5, <2>3, <3>1, <3>3, BoundsAssumption DEF TypeOK, Results, Unbound, None
    <3>. QED
      BY <3>2, <3>3
  <2>4. ASSUME NEW s \in Proc, pc'[s] = "call", result'[s] \in done'
        PROVE  result'[s] < event'[s]
    <3>1. s # p /\ pc[s] = "call" /\ result'[s] = result[s] /\ event'[s] = event[s]
      BY <1>1, <1>5, <2>4 DEF TypeOK
    <3>2. result[s] \in done
      BY <1>1, <1>2, <2>4, <3>1, BoundsAssumption DEF Results, Unbound, None
    <3>. QED
      BY <3>1, <3>2 DEF Results
  <2>5. \A a \in answers' : a[1] \in done'
    BY <1>1, <1>5 DEF Results
  <2>6. StaleResultOnlyFromPredict'
    <3>1. \A a \in answers : \/ a[2] = a[1]
                             \/ /\ tasks'[a[1]] = "Predict"
                                /\ \/ a[2] = None
                                   \/ a[2] \in done' /\ a[2] < a[1] /\ tasks'[a[2]] # "Predict"
      BY <1>1 DEF Results, StaleResultOnlyFromPredict, parent
    <3>2. answers' # answers =>
             \/ r = k
             \/ /\ tasks'[k] = "Predict"
                /\ \/ r = None
                   \/ r \in done' /\ r < k /\ tasks'[r] # "Predict"
      BY <1>1, <1>5, <1>7 DEF parent
    <3>. QED
      BY <1>5, <3>1, <3>2 DEF StaleResultOnlyFromPredict
  <2>. QED
    BY <2>1, <2>2, <2>3, <2>4, <2>5, <2>6 DEF Results
<1>12. Stopping'
  <2>1. p <= started
    BY <1>1 DEF Counts, TypeOK, Proc
  <2>2. pool # "joined"
    BY <1>1, <2>1 DEF Stopping, Joined, Ended, Proc
  <2>. QED
    BY <1>1, <2>2 DEF Stopping, parent, Idle, TypeOK
<1>. QED
  BY <1>8, <1>9, <1>10, <1>11, <1>12

LEMMA LeaveKeeps ==
  ASSUME PInv, NEW p \in Proc, Leave(p)
  PROVE  PInv'
<1>. USE DEF PInv
<1>1. /\ pc[p] = "leave" /\ pc' = [pc EXCEPT ![p] = "exited"] /\ created' = created - 1
      /\ UNCHANGED <<parent, q, worker>>
  BY DEF Leave, Goto
<1>2. Counted' = Counted \ {p} /\ p \in Counted /\ Counted \subseteq Proc
  BY <1>1 DEF TypeOK, Counted
<1>3. Cardinality(Counted') = Cardinality(Counted) - 1 /\ Cardinality(Counted) >= 1
  BY <1>2, OneLess, Finite
<1>4. Creating' = Creating /\ InRun' = InRun
  BY <1>1 DEF Creating, InRun, parent
<1>5. TypeOK'
  <2>1. created' \in Nat
    BY <1>1, <1>3 DEF Counts, TypeOK
  <2>. QED
    BY <1>1, <2>1 DEF TypeOK, parent, worker
<1>6. Counts'
  <2>1. \A r \in Proc : pc'[r] = "unborn" <=> r > started'
    BY <1>1 DEF Counts, TypeOK, parent
  <2>2. created' = Cardinality(Counted')
    BY <1>1, <1>3 DEF Counts
  <2>3. created' + Cardinality(Creating) <= MaxNum + Cardinality(Caller) - 1
    <3>1. created + Cardinality(Creating) <= MaxNum + Cardinality(Caller) - 1 /\ created \in Nat
      BY DEF Counts, TypeOK
    <3>. QED
      BY <1>1, <3>1, Finite, BoundsAssumption
  <2>. QED
    BY <1>1, <1>3, <1>4, <2>1, <2>2, <2>3 DEF Counts
<1>7. Order'
  BY <1>1, <1>4 DEF Order, TypeOK, parent, worker
<1>8. Results'
  BY <1>1 DEF Results, StaleResultOnlyFromPredict, TypeOK, parent, worker
<1>9. Stopping'
  <2>1. p <= started
    BY <1>1 DEF Counts, TypeOK, Proc
  <2>2. pool # "joined"
    BY <1>1, <2>1 DEF Stopping, Joined, Ended, Proc
  <2>. QED
    BY <1>1, <2>2 DEF Stopping, parent, Idle, TypeOK
<1>. QED
  BY <1>5, <1>6, <1>7, <1>8, <1>9

LEMMA PInvNext == PInv /\ [Next]_vars => PInv'
<1>1. PInv /\ UNCHANGED vars => PInv'
  BY DEF vars, parent, worker, PInv, TypeOK, Counts, Order, Results, Stopping, Counted, Creating, InRun,
         StaleResultOnlyFromPredict, Idle, Joined, Ended
<1>. QED
  BY <1>1, RunKeeps, CreateKeeps, PutTaskKeeps, ParentKeeps, ClientKeeps, GetKeeps, CallKeeps, LeaveKeeps
     DEF Next, ProcessStep

LEMMA PInvHolds == Spec => []PInv
BY PInvInit, PInvNext, PTL DEF Spec

-----------------------------------------------------------------------------
\* However many callers run tasks at once, the test of run outside the lock
\* lets no more than one process too many per other caller start, and
\* created_threads counts exactly the processes that have not ended.
THEOREM FewTooManyProcesses == Spec => []FewTooMany
<1>1. PInv => FewTooMany
  <2>. SUFFICES ASSUME PInv PROVE FewTooMany
    OBVIOUS
  <2>1. created = Cardinality(Counted) /\ created + Cardinality(Creating) <= MaxNum + Cardinality(Caller) - 1
    BY DEF PInv, Counts
  <2>2. created <= MaxNum + Cardinality(Caller) - 1
    BY <2>1, Finite, BoundsAssumption
  <2>. QED
    BY <2>1, <2>2 DEF PInv, FewTooMany, Counted
<1>. QED
  BY <1>1, PInvHolds, PTL

\* Only the callback of a Predict task gets what an earlier task of its
\* process left in `result'.
THEOREM OwnResult == Spec => []StaleResultOnlyFromPredict
<1>1. PInv => StaleResultOnlyFromPredict
  BY DEF PInv, Results
<1>. QED
  BY <1>1, PInvHolds, PTL

\* When a pool that was closed once has been joined, every task it was given
\* is done, if any process has ended by a StopEvent.
THEOREM JoinWaitsForTasks == Spec => []JoinedMeansDone
<1>1. PInv => JoinedMeansDone
  <2>. SUFFICES ASSUME PInv, pool = "joined", closes = 1, \E p \in Proc : pc[p] = "exited"
                PROVE  done = DOMAIN tasks
    BY DEF JoinedMeansDone
  <2>1. \A i \in DOMAIN q : q[i] = StopEvent
    BY DEF PInv, Stopping
  <2>2. \A p \in Proc : pc[p] # "call"
    <3>1. \A p \in 1 .. started : Ended(p)
      BY DEF PInv, Stopping, Joined
    <3>2. \A p \in Proc : p > started => pc[p] = "unborn"
      BY DEF PInv, Counts
    <3>3. \A p \in Proc : p \in 1 .. started \/ p > started
      BY BoundsAssumption DEF PInv, TypeOK, Proc
    <3>. QED
      BY <3>1, <3>2, <3>3 DEF Ended
  <2>3. StopEvent \notin DOMAIN tasks
    BY DEF PInv, TypeOK, StopEvent
  <2>. QED
    BY <2>1, <2>2, <2>3 DEF PInv, Order
<1>. QED
  BY <1>1, PInvHolds, PTL

(* MD5.  A context has the blocks of what the object was given, the rest in  *)
(* its buffer and the number of bits, over two words.                        *)

LEMMA DivModIs ==
  ASSUME NEW d \in Nat, d > 0, NEW a \in Nat, NEW k \in Nat, NEW r \in 0 .. d - 1, a = k * d + r
  PROVE  a \div d = k /\ a % d = r
<1>1. PICK e \in Int : e = a \div d
  OBVIOUS
<1>2. PICK f \in Int : f = a % d
  OBVIOUS
<1>3. a = e * d + f /\ 0 <= f /\ f < d
  BY <1>1, <1>2
<1>4. (e - k) * d = r - f /\ r - f < d /\ f - r < d
  BY <1>3
<1>5. e <= k
  <2>. SUFFICES ASSUME e - k >= 1 PROVE FALSE
    BY <1>3
  <2>1. (e - k) * d >= d
    OBVIOUS
  <2>. QED
    BY <1>4, <2>1
<1>6. k <= e
  <2>. SUFFICES ASSUME k - e >= 1 PROVE FALSE
    BY <1>3
  <2>1. (k - e) * d >= d
    OBVIOUS
  <2>. QED
    BY <1>4, <2>1
<1>. QED
  BY <1>1, <1>2, <1>3, <1>5, <1>6

LEMMA Division ==
  ASSUME NEW d \in Nat, d > 0, NEW a \in Nat
  PROVE  \E k \in Nat, r \in 0 .. d - 1 : a = k * d + r /\ a \div d = k /\ a % d = r
<1>1. PICK e \in Int : e = a \div d
  OBVIOUS
<1>2. PICK f \in Int : f = a % d
  OBVIOUS
<1>3. a = e * d + f /\ 0 <= f /\ f < d
  BY <1>1, <1>2
<1>4. e >= 0
  <2>. SUFFICES ASSUME -e >= 1 PROVE FALSE
    BY <1>3
  <2>1. (-e) * d >= d /\ (-e) * d = -(e * d)
    OBVIOUS
  <2>. QED
    BY <1>3, <2>1
<1>5. e \in Nat /\ f \in 0 .. d - 1
  BY <1>1, <1>2, <1>3, <1>4
<1>. QED
  BY <1>1, <1>2, <1>3, <1>5, Zenon

\* A word counts bytes in units of eight bits, and whole blocks of them.
LEMMA WordFacts ==
  \E u \in Nat : /\ u > 0 /\ Word = 8 * (Block * u) /\ Word \div 8 = Block * u
                 /\ Block \in Nat /\ Block > 2 /\ Block * u \in Nat /\ Block * u > 0
<1>1. Block \in Nat /\ Block > 2
  BY BlockAssumption
<1>2. PICK u \in Int : u >= 1 /\ Word = 8 * (Block * u)
  BY WordAssumption
<1>3. PICK w \in Int : w = Block * u
  BY <1>1
<1>4. w >= 1
  BY <1>1, <1>2, <1>3
<1>5. (8 * w) \div 8 = w
  BY <1>4
<1>. QED
  BY <1>1, <1>2, <1>3, <1>4, <1>5

LEMMA BitsAre ==
  ASSUME NEW w \in Nat, w > 0, Word = 8 * w, NEW n \in Nat, NEW k \in Nat, NEW r \in 0 .. w - 1,
         n = k * w + r
  PROVE  (8 * n) \div Word = k /\ (8 * n) % Word = 8 * r
<1>1. PICK a \in Nat : a = 8 * n
  OBVIOUS
<1>2. PICK b \in Nat : b = 8 * r
  OBVIOUS
<1>3. PICK d \in Nat : d = Word /\ d > 0
  OBVIOUS
<1>4. a = k * d + b /\ b \in 0 .. d - 1
  BY <1>1, <1>2, <1>3
<1>5. a \div d = k /\ a % d = b
  BY <1>3, <1>4, DivModIs
<1>. QED
  BY <1>1, <1>2, <1>3, <1>5, Zenon

LEMMA IndexIs ==
  ASSUME NEW n \in Nat
  PROVE  (((8 * n) % Word) \div 8) % Block = n % Block
<1>1. PICK u \in Nat : /\ u > 0 /\ Word = 8 * (Block * u) /\ Block \in Nat /\ Block > 2
                       /\ Block * u \in Nat /\ Block * u > 0
  BY WordFacts
<1>2. PICK w \in Nat : w = Block * u /\ w > 0
  BY <1>1
<1>3. PICK k \in Nat, r \in 0 .. w - 1 : n = k * w + r
  <2>1. w > 0
    BY <1>2
  <2>. QED
    BY <2>1, Division
<1>4. (8 * n) % Word = 8 * r
  BY <1>1, <1>2, <1>3, BitsAre
<1>5. (8 * r) \div 8 = r
  OBVIOUS
<1>6. PICK j \in Nat, i \in 0 .. Block - 1 : r = j * Block + i /\ r \div Block = j /\ r % Block = i
  BY <1>1, Division
<1>7. n = (k * u + j) * Block + i
  <2>1. k * w = (k * u) * Block
    BY <1>1, <1>2
  <2>2. (k * u + j) * Block = (k * u) * Block + j * Block
    BY <1>1
  <2>. QED
    BY <1>1, <1>3, <1>6, <2>1, <2>2
<1>8. r % Block = i
  BY <1>1, <1>6, DivModIs
<1>9. n % Block = i
  <2>1. k * u + j \in Nat
    OBVIOUS
  <2>. QED
    BY <1>1, <1>7, <2>1, DivModIs
<1>. QED
  BY <1>4, <1>5, <1>8, <1>9

\* The two words count 8 * (n + l) when they counted 8 * n.
LEMMA WordsAdd ==
  ASSUME NEW n \in Nat, NEW l \in Nat
  PROVE  LET bits == (8 * l) % Word
             sum  == (((8 * n) % Word) + bits) % Word
         IN  /\ sum = (8 * (n + l)) % Word
             /\ (8 * n) \div Word + (IF sum < bits THEN 1 ELSE 0) + l \div (Word \div 8) = (8 * (n + l)) \div Word
<1>1. PICK w \in Nat : w > 0 /\ Word = 8 * w /\ Word \div 8 = w /\ Word \in Nat /\ Word > 0
  BY WordFacts
<1>2. PICK k \in Nat, r \in 0 .. w - 1 : n = k * w + r /\ n \div w = k /\ n % w = r
  BY <1>1, Division
<1>3. PICK j \in Nat, i \in 0 .. w - 1 : l = j * w + i /\ l \div w = j /\ l % w = i
  BY <1>1, Division
<1>4. (8 * n) \div Word = k /\ (8 * n) % Word = 8 * r
  BY <1>1, <1>2, BitsAre
<1>5. (8 * l) % Word = 8 * i
  BY <1>1, <1>3, BitsAre
<1>6. 8 * (n + l) = (k + j) * Word + (8 * r + 8 * i) /\ 8 * (n + l) \in Nat
  <2>1. (k + j) * w = k * w + j * w /\ (k + j) * (8 * w) = 8 * ((k + j) * w)
    OBVIOUS
  <2>. QED
    BY <1>1, <1>2, <1>3, <2>1
<1>7. CASE r + i < w
  <2>1. 8 * r + 8 * i \in 0 .. Word - 1
    BY <1>1, <1>7
  <2>2. (8 * r + 8 * i) % Word = 8 * r + 8 * i
    BY <1>1, <2>1
  <2>3. (8 * (n + l)) \div Word = k + j /\ (8 * (n + l)) % Word = 8 * r + 8 * i
    BY <1>1, <1>6, <2>1, DivModIs
  <2>. QED
    BY <1>1, <1>3, <1>4, <1>5, <2>1, <2>2, <2>3
<1>8. CASE r + i >= w
  <2>1. /\ 8 * r + 8 * i - Word \in 0 .. Word - 1 /\ 8 * r + 8 * i \in Nat
        /\ 8 * r + 8 * i - Word < 8 * i
    BY <1>1, <1>8
  <2>2. (8 * r + 8 * i) % Word = 8 * r + 8 * i - Word
    <3>1. 8 * r + 8 * i = 1 * Word + (8 * r + 8 * i - Word)
      BY <1>1
    <3>. QED
      BY <1>1, <2>1, <3>1, DivModIs
  <2>3. 8 * (n + l) = (k + j + 1) * Word + (8 * r + 8 * i - Word)
    <3>1. (k + j + 1) * Word = (k + j) * Word + Word
      BY <1>1
    <3>. QED
      BY <1>1, <1>6, <3>1
  <2>4. (8 * (n + l)) \div Word = k + j + 1 /\ (8 * (n + l)) % Word = 8 * r + 8 * i - Word
    BY <1>1, <1>6, <2>1, <2>3, DivModIs
  <2>. QED
    BY <1>1, <1>3, <1>4, <1>5, <2>1, <2>2, <2>4
<1>. QED
  BY <1>1, <1>7, <1>8

\* Units of k blocks: the products stay behind this name.
Bytes(k) == k * Block

LEMMA BytesAre ==
  ASSUME NEW a \in Nat, NEW b \in Nat
  PROVE  Bytes(a) \in Nat /\ Bytes(a + b) = Bytes(a) + Bytes(b) /\ Bytes(1) = Block /\ Bytes(0) = 0
BY BlockAssumption DEF Bytes

\* The b-th block ends inside d blocks.
LEMMA BlockInside ==
  ASSUME NEW d \in Nat, NEW b \in 1 .. d
  PROVE  Bytes(b - 1) \in Nat /\ Bytes(b) = Bytes(b - 1) + Block /\ Bytes(b) <= Bytes(d)
<1>1. Block \in Nat /\ b - 1 \in Nat /\ d - b \in Nat /\ b \in Nat
  BY BlockAssumption
<1>2. (b - 1) * Block \in Nat /\ b * Block = (b - 1) * Block + Block
  BY <1>1
<1>3. (d - b) * Block >= 0 /\ (d - b) * Block = d * Block - b * Block
  BY <1>1
<1>4. b * Block <= d * Block
  BY <1>1, <1>3
<1>. QED
  BY <1>2, <1>4, Zenon DEF Bytes

LEMMA PlaceOf ==
  ASSUME NEW n \in Nat
  PROVE  \E k \in Nat, r \in 0 .. Block - 1 : n = Bytes(k) + r /\ n \div Block = k /\ n % Block = r
BY BlockAssumption, Division DEF Bytes

LEMMA PlaceIs ==
  ASSUME NEW n \in Nat, NEW k \in Nat, NEW r \in 0 .. Block - 1, n = Bytes(k) + r
  PROVE  n \div Block = k /\ n % Block = r
BY BlockAssumption, DivModIs DEF Bytes

\* f begins with the l members of s that stand behind the first p.
At(f, s, p, l) == \A i \in 1 .. l : f[i] = s[p + i]

LEMMA AtAt ==
  ASSUME NEW f, NEW x, NEW s, NEW p \in Nat, NEW l \in Nat, NEW n \in Nat, NEW k \in Nat,
         At(f, x, p, l), At(x, s, n, k), p + l <= k
  PROVE  At(f, s, n + p, l)
<1>1. ASSUME NEW i \in 1 .. l PROVE f[i] = s[n + p + i]
  <2>1. p + i \in 1 .. k /\ n + p + i = n + (p + i)
    OBVIOUS
  <2>. QED
    BY <2>1 DEF At
<1>. QED
  BY <1>1 DEF At

LEMMA AtPrefix ==
  ASSUME NEW m \in Seq(Nat), NEW x \in Seq(Nat), NEW f, NEW p \in Nat, NEW l \in Nat,
         At(f, m, p, l), p + l <= Len(m)
  PROVE  At(f, m \o x, p, l)
<1>1. \A i \in 1 .. Len(m) : (m \o x)[i] = m[i]
  OBVIOUS
<1>2. \A i \in 1 .. l : p + i \in 1 .. Len(m)
  OBVIOUS
<1>. QED
  BY <1>1, <1>2, Zenon DEF At

LEMMA AtSuffix ==
  ASSUME NEW m \in Seq(Nat), NEW x \in Seq(Nat)
  PROVE  At(x, m \o x, Len(m), Len(x))
BY DEF At

\* A piece of b members that begins behind the first a of s
LEMMA PieceIs ==
  ASSUME NEW s \in Seq(Nat), NEW a \in Nat, NEW b \in Nat, a + b <= Len(s)
  PROVE  /\ SubSeq(s, a + 1, a + b) \in Seq(Nat) /\ Len(SubSeq(s, a + 1, a + b)) = b
         /\ At(SubSeq(s, a + 1, a + b), s, a, b)
<1>1. \A i \in a + 1 .. a + b : s[i] \in Nat
  OBVIOUS
<1>. QED
  BY <1>1, SubSeqProperties DEF At

\* What CopyTo leaves and writes
LEMMA CopyIs ==
  ASSUME NEW a \in [1 .. Block -> Nat], NEW p \in Nat, NEW s \in Seq(Nat)
  PROVE  /\ CopyTo(a, p, s) \in [1 .. Block -> Nat]
         /\ \A i \in 1 .. Block : CopyTo(a, p, s)[i] = IF p < i /\ i <= p + Len(s) THEN s[i - p] ELSE a[i]
<1>1. Block \in Nat
  BY BlockAssumption
<1>2. \A i \in 1 .. Block : i - p \in DOMAIN s <=> p < i /\ i <= p + Len(s)
  BY <1>1
<1>3. \A i \in 1 .. Block : CopyTo(a, p, s)[i] = IF p < i /\ i <= p + Len(s) THEN s[i - p] ELSE a[i]
  BY <1>2 DEF CopyTo
<1>4. \A i \in 1 .. Block : CopyTo(a, p, s)[i] \in Nat
  <2>1. \A i \in DOMAIN s : s[i] \in Nat
    OBVIOUS
  <2>. QED
    BY <1>2, <2>1 DEF CopyTo
<1>. QED
  BY <1>3, <1>4 DEF CopyTo

\* y is written behind the first r of the buffer.
LEMMA CopyFills ==
  ASSUME NEW s, NEW base \in Nat, NEW buf \in [1 .. Block -> Nat], NEW r \in Nat,
         NEW y \in Seq(Nat), NEW l \in Nat, l = r + Len(y), l <= Block,
         At(buf, s, base, r), At(y, s, base + r, Len(y))
  PROVE  CopyTo(buf, r, y) \in [1 .. Block -> Nat] /\ At(CopyTo(buf, r, y), s, base, l)
<1>1. Block \in Nat
  BY BlockAssumption
<1>2. PICK f : f = CopyTo(buf, r, y)
  OBVIOUS
<1>3. /\ f \in [1 .. Block -> Nat]
      /\ \A i \in 1 .. Block : f[i] = IF r < i /\ i <= r + Len(y) THEN y[i - r] ELSE buf[i]
  BY <1>2, CopyIs, Zenon
<1>4. ASSUME NEW i \in 1 .. l PROVE f[i] = s[base + i]
  <2>1. i \in 1 .. Block
    BY <1>1
  <2>2. CASE i <= r
    <3>1. i \in 1 .. r /\ f[i] = buf[i]
      BY <1>3, <2>1, <2>2
    <3>. QED
      BY <3>1, Zenon DEF At
  <2>3. CASE r < i
    <3>1. i - r \in 1 .. Len(y) /\ base + r + (i - r) = base + i
      BY <2>3
    <3>2. f[i] = y[i - r]
      BY <1>3, <2>1, <2>3
    <3>. QED
      BY <3>1, <3>2, Zenon DEF At
  <2>. QED
    BY <2>2, <2>3
<1>. QED
  BY <1>2, <1>3, <1>4, Zenon DEF At

\* bs are whole blocks of s, from the (a + 1)-st on.
Agree(bs, s, a) == \A b \in 1 .. Len(bs) : Len(bs[b]) = Block /\ At(bs[b], s, Bytes(a + b - 1), Block)

LEMMA AgreeJoin ==
  ASSUME NEW s, NEW bs \in Seq(Seq(Nat)), NEW cs \in Seq(Seq(Nat)), NEW a \in Nat, NEW d \in Nat,
         d = a + Len(bs), Agree(bs, s, a), Agree(cs, s, d)
  PROVE  Agree(bs \o cs, s, a)
<1>1. Len(bs \o cs) = Len(bs) + Len(cs)
  OBVIOUS
<1>2. ASSUME NEW b \in 1 .. Len(bs) + Len(cs)
      PROVE  Len((bs \o cs)[b]) = Block /\ At((bs \o cs)[b], s, Bytes(a + b - 1), Block)
  <2>1. CASE b \in 1 .. Len(bs)
    <3>1. (bs \o cs)[b] = bs[b]
      BY <2>1
    <3>. QED
      BY <2>1, <3>1 DEF Agree
  <2>2. CASE b \notin 1 .. Len(bs)
    <3>1. PICK e \in 1 .. Len(cs) : b = Len(bs) + e
      <4>1. b - Len(bs) \in 1 .. Len(cs) /\ b = Len(bs) + (b - Len(bs))
        BY <2>2
      <4>. QED
        BY <4>1
    <3>2. (bs \o cs)[b] = cs[e] /\ a + b - 1 = d + e - 1
      BY <3>1
    <3>. QED
      BY <3>2 DEF Agree
  <2>. QED
    BY <2>1, <2>2
<1>. QED
  BY <1>1, <1>2 DEF Agree

LEMMA AgreePrefix ==
  ASSUME NEW m \in Seq(Nat), NEW x \in Seq(Nat), NEW bs \in Seq(Seq(Nat)), Agree(bs, m, 0),
         Bytes(Len(bs)) <= Len(m)
  PROVE  Agree(bs, m \o x, 0)
<1>1. ASSUME NEW b \in 1 .. Len(bs)
      PROVE  Len(bs[b]) = Block /\ At(bs[b], m \o x, Bytes(0 + b - 1), Block)
  <2>1. 0 + b - 1 = b - 1 /\ Block \in Nat /\ Len(bs) \in Nat
    BY BlockAssumption
  <2>2. Bytes(b - 1) \in Nat /\ Bytes(b) = Bytes(b - 1) + Block /\ Bytes(b) <= Bytes(Len(bs))
    BY <2>1, BlockInside, Zenon
  <2>3. PICK p \in Nat : p = Bytes(b - 1)
    BY <2>2
  <2>4. p + Block <= Len(m)
    <3>1. Bytes(Len(bs)) \in Nat
      BY <2>1, BytesAre, Zenon
    <3>2. PICK e \in Nat : e = Bytes(Len(bs))
      BY <3>1
    <3>. QED
      BY <2>1, <2>2, <2>3, <3>2
  <2>5. Len(bs[b]) = Block /\ At(bs[b], m, p, Block)
    BY <2>1, <2>3, Zenon DEF Agree
  <2>6. At(bs[b], m \o x, p, Block)
    BY <2>1, <2>4, <2>5, AtPrefix, Zenon
  <2>. QED
    BY <2>1, <2>3, <2>5, <2>6, Zenon
<1>. QED
  BY <1>1, Zenon DEF Agree

LEMMA SeqOfSeqs ==
  ASSUME NEW j \in Nat, NEW f, f = [b \in 1 .. j |-> f[b]], \A b \in 1 .. j : f[b] \in Seq(Nat)
  PROVE  f \in Seq(Seq(Nat)) /\ Len(f) = j
OBVIOUS

\* Blocks of x behind its first f members, which complete the a-th block of s
Whole(x, f, j) == [b \in 1 .. j |-> SubSeq(x, f + (b - 1) * Block + 1, f + b * Block)]

LEMMA WholeAgrees ==
  ASSUME NEW s, NEW x \in Seq(Nat), NEW n \in Nat, NEW f \in Nat, NEW a \in Nat, NEW j \in Nat,
         n + f = Bytes(a), f + Bytes(j) <= Len(x), At(x, s, n, Len(x))
  PROVE  Whole(x, f, j) \in Seq(Seq(Nat)) /\ Len(Whole(x, f, j)) = j /\ Agree(Whole(x, f, j), s, a)
<1>0. PICK bs : bs = Whole(x, f, j)
  OBVIOUS
<1>1. Block \in Nat /\ Len(x) \in Nat
  BY BlockAssumption
<1>2. ASSUME NEW b \in 1 .. j
      PROVE  bs[b] \in Seq(Nat) /\ Len(bs[b]) = Block /\ At(bs[b], s, Bytes(a + b - 1), Block)
  <2>1. b - 1 \in Nat /\ j - b \in Nat /\ b \in Nat
    OBVIOUS
  <2>2. Bytes(b - 1) \in Nat /\ Bytes(b) = Bytes(b - 1) + Block /\ Bytes(b) <= Bytes(j) /\ Bytes(j) \in Nat
    BY BlockInside, BytesAre, Zenon
  <2>5. PICK p \in Nat : p = f + Bytes(b - 1)
    BY <2>2
  <2>6. f + Bytes(b) = p + Block /\ p + Block <= Len(x)
    BY <1>1, <2>2, <2>5
  <2>7. /\ SubSeq(x, p + 1, p + Block) \in Seq(Nat) /\ Len(SubSeq(x, p + 1, p + Block)) = Block
        /\ At(SubSeq(x, p + 1, p + Block), x, p, Block)
    BY <1>1, <2>6, PieceIs, Zenon
  <2>8. bs[b] = SubSeq(x, p + 1, p + Block)
    BY <1>0, <2>5, <2>6, Zenon DEF Bytes, Whole
  <2>9. n + p = Bytes(a + b - 1)
    <3>1. Bytes(a + (b - 1)) = Bytes(a) + Bytes(b - 1)
      BY <2>1, BytesAre
    <3>2. a + (b - 1) = a + b - 1
      OBVIOUS
    <3>. QED
      BY <2>2, <2>5, <3>1, <3>2
  <2>10. At(SubSeq(x, p + 1, p + Block), s, n + p, Block)
    BY <1>1, <2>6, <2>7, AtAt, Zenon
  <2>. QED
    BY <2>7, <2>8, <2>9, <2>10, Zenon
<1>3. bs = [b \in 1 .. j |-> bs[b]]
  BY <1>0, Zenon DEF Whole
<1>4. bs \in Seq(Seq(Nat)) /\ Len(bs) = j
  BY <1>2, <1>3, SeqOfSeqs, Zenon
<1>5. Agree(bs, s, a)
  BY <1>2, <1>4, Zenon DEF Agree
<1>. QED
  BY <1>0, <1>4, <1>5, Zenon

LEMMA BlocksAre ==
  ASSUME NEW s \in Seq(Nat), NEW bs \in Seq(Seq(Nat)), NEW r \in 0 .. Block - 1,
         Len(s) = Bytes(Len(bs)) + r, Agree(bs, s, 0)
  PROVE  bs = BlocksOf(s)
<1>1. Block \in Nat /\ Len(s) \in Nat /\ Len(bs) \in Nat /\ r \in Nat
  BY BlockAssumption
<1>2. PICK d \in Nat : d = Len(bs) /\ Len(s) \div Block = d
  BY <1>1, PlaceIs, Zenon
<1>3. ASSUME NEW b \in 1 .. d PROVE bs[b] = SubSeq(s, (b - 1) * Block + 1, b * Block)
  <2>1. b - 1 \in Nat /\ d - b \in Nat /\ b \in Nat
    OBVIOUS
  <2>2. Bytes(b - 1) \in Nat /\ Bytes(b) = Bytes(b - 1) + Block /\ Bytes(b) <= Bytes(d) /\ Bytes(d) \in Nat
    BY BlockInside, BytesAre, Zenon
  <2>4. 0 + b - 1 = b - 1
    OBVIOUS
  <2>5. PICK p \in Nat : p = Bytes(b - 1)
    BY <2>2
  <2>6. Bytes(b) = p + Block /\ p + Block <= Len(s)
    BY <1>1, <1>2, <2>2, <2>5
  <2>7. /\ SubSeq(s, p + 1, p + Block) \in Seq(Nat) /\ Len(SubSeq(s, p + 1, p + Block)) = Block
        /\ At(SubSeq(s, p + 1, p + Block), s, p, Block)
    BY <1>1, <2>6, PieceIs, Zenon
  <2>8. Len(bs[b]) = Block /\ At(bs[b], s, p, Block)
    BY <1>2, <2>4, <2>5, Zenon DEF Agree
  <2>9. bs[b] \in Seq(Nat)
    BY <1>2
  <2>10. bs[b] = SubSeq(s, p + 1, p + Block)
    <3>1. \A i \in 1 .. Block : bs[b][i] = SubSeq(s, p + 1, p + Block)[i]
      BY <2>7, <2>8, Zenon DEF At
    <3>. QED
      BY <2>7, <2>8, <2>9, <3>1, SeqEqual
  <2>. QED
    BY <2>5, <2>6, <2>10, Zenon DEF Bytes
<1>4. bs = [b \in 1 .. d |-> bs[b]]
  BY <1>2
<1>. QED
  BY <1>2, <1>3, <1>4, Zenon DEF BlocksOf

Context == [blocks : Seq(Seq(Nat)), buffer : [1 .. Block -> Nat], low : Nat, high : Nat]

\* The context was fed s, but for the r last members, which its buffer holds.
Holds(c, s, r) == Agree(c.blocks, s, 0) /\ At(c.buffer, s, Bytes(Len(c.blocks)), r)

\* c is the context of an object that was given m.
Follows(c, m) ==
    /\ c \in Context /\ c.low = LowWord(m) /\ c.high = HighWord(m)
    /\ \E r \in 0 .. Block - 1 : Len(m) = Bytes(Len(c.blocks)) + r /\ Holds(c, m, r)

LEMMA ModAdds ==
  ASSUME NEW d \in Nat, d > 0, NEW a \in Nat, NEW b \in Nat
  PROVE  ((a % d) + b) % d = (a + b) % d
<1>1. PICK k \in Nat, r \in 0 .. d - 1 : a = k * d + r /\ a % d = r
  BY Division, Zenon
<1>2. PICK c \in Nat : c = r + b
  OBVIOUS
<1>3. PICK j \in Nat, i \in 0 .. d - 1 : c = j * d + i /\ c % d = i
  BY Division, Zenon
<1>4. a + b = (k + j) * d + i /\ a + b \in Nat /\ k + j \in Nat
  BY <1>1, <1>2, <1>3
<1>5. (a + b) % d = i
  BY <1>4, DivModIs, Zenon
<1>. QED
  BY <1>1, <1>2, <1>3, <1>5, Zenon

LEMMA CountIs ==
  ASSUME NEW m \in Seq(Nat), NEW x \in Seq(Nat), NEW c, Follows(c, m)
  PROVE  Count(c, Len(x)) = [c EXCEPT !.low = LowWord(m \o x), !.high = HighWord(m \o x)]
<1>1. Len(m) \in Nat /\ Len(x) \in Nat /\ Len(m \o x) = Len(m) + Len(x)
  OBVIOUS
<1>2. c.low = (8 * Len(m)) % Word /\ c.high = ((8 * Len(m)) \div Word) % Word
  BY Zenon DEF Follows, LowWord, HighWord
<1>3. PICK bits : bits = (8 * Len(x)) % Word
  OBVIOUS
<1>4. PICK sum : sum = (((8 * Len(m)) % Word) + bits) % Word
  OBVIOUS
<1>5. PICK carry \in Nat : carry = IF sum < bits THEN 1 ELSE 0
  OBVIOUS
<1>6. PICK w \in Nat : w > 0 /\ Word \in Nat /\ Word > 0 /\ Word \div 8 = w
  BY WordFacts
<1>7. PICK l \in Nat : l = Len(x) \div (Word \div 8)
  <2>1. PICK e \in Nat, f \in 0 .. w - 1 : Len(x) \div w = e
    BY <1>1, <1>6, Division, Zenon
  <2>. QED
    BY <1>6, <2>1, Zenon
<1>8. PICK h \in Nat : h = (8 * Len(m)) \div Word
  <2>1. 8 * Len(m) \in Nat
    BY <1>1
  <2>2. PICK e \in Nat, f \in 0 .. Word - 1 : (8 * Len(m)) \div Word = e
    BY <1>6, <2>1, Division, Zenon
  <2>. QED
    BY <2>2, Zenon
<1>9. sum = LowWord(m \o x) /\ h + carry + l = (8 * Len(m \o x)) \div Word
  <2>1. sum = (8 * (Len(m) + Len(x))) % Word /\ h + carry + l = (8 * (Len(m) + Len(x))) \div Word
    BY <1>1, <1>3, <1>4, <1>5, <1>7, <1>8, WordsAdd, Zenon
  <2>. QED
    BY <1>1, <2>1, Zenon DEF LowWord
<1>10. (c.high + carry + l) % Word = HighWord(m \o x)
  <2>1. ((h % Word) + (carry + l)) % Word = (h + (carry + l)) % Word
    <3>1. carry + l \in Nat
      OBVIOUS
    <3>. QED
      BY <1>6, <3>1, ModAdds, Zenon
  <2>2. PICK g \in Int : g = h % Word
    BY <1>6
  <2>3. g + carry + l = g + (carry + l) /\ h + carry + l = h + (carry + l)
    OBVIOUS
  <2>. QED
    BY <1>2, <1>8, <1>9, <2>1, <2>2, <2>3, Zenon DEF HighWord
<1>. QED
  BY <1>2, <1>3, <1>4, <1>5, <1>7, <1>9, <1>10, Zenon DEF Count

LEMMA WordsTyped ==
  ASSUME NEW m \in Seq(Nat)
  PROVE  LowWord(m) \in Nat /\ HighWord(m) \in Nat
<1>1. PICK w \in Nat : w = Word /\ w > 0
  BY WordFacts
<1>2. PICK a \in Nat : a = 8 * Len(m)
  OBVIOUS
<1>3. PICK e \in Nat, f \in 0 .. w - 1 : a \div w = e /\ a % w = f
  BY <1>1, Division
<1>4. f \in Nat /\ e % w \in Nat
  BY <1>1
<1>. QED
  BY <1>1, <1>2, <1>3, <1>4, Zenon DEF LowWord, HighWord

\* What a context that follows m is, piece by piece
LEMMA FollowsIs ==
  ASSUME NEW m \in Seq(Nat), NEW c, Follows(c, m)
  PROVE  \E k \in Nat, r \in 0 .. Block - 1 :
            /\ k = Len(c.blocks) /\ Bytes(k) \in Nat /\ Len(m) = Bytes(k) + r
            /\ Index(c) = r /\ c \in Context /\ c.blocks \in Seq(Seq(Nat)) /\ c.buffer \in [1 .. Block -> Nat]
            /\ Agree(c.blocks, m, 0) /\ At(c.buffer, m, Bytes(k), r)
<1>1. PICK r \in 0 .. Block - 1 : Len(m) = Bytes(Len(c.blocks)) + r /\ Holds(c, m, r)
  BY Zenon DEF Follows
<1>2. c.blocks \in Seq(Seq(Nat)) /\ c.buffer \in [1 .. Block -> Nat] /\ c \in Context
  BY DEF Follows, Context
<1>3. Len(c.blocks) \in Nat /\ Len(m) \in Nat
  BY <1>2
<1>4. PICK k \in Nat : k = Len(c.blocks) /\ Bytes(k) \in Nat
  BY <1>3, BytesAre
<1>5. Len(m) % Block = r
  BY <1>1, <1>3, <1>4, PlaceIs, Zenon
<1>6. Index(c) = r
  <2>1. (((8 * Len(m)) % Word) \div 8) % Block = Len(m) % Block
    BY <1>3, IndexIs, Zenon
  <2>. QED
    BY <1>5, <2>1, Zenon DEF Follows, LowWord, Index
<1>7. Agree(c.blocks, m, 0) /\ At(c.buffer, m, Bytes(k), r)
  BY <1>1, <1>4, Zenon DEF Holds
<1>. QED
  BY <1>1, <1>2, <1>4, <1>6, <1>7, Zenon

\* The context is counted on, with new blocks and a new buffer.
LEMMA NowFollows ==
  ASSUME NEW s \in Seq(Nat), NEW c \in Context, NEW k \in Nat, NEW r \in 0 .. Block - 1,
         NEW bs \in Seq(Seq(Nat)), NEW buf \in [1 .. Block -> Nat],
         Len(s) = Bytes(k) + r, Len(bs) = k, Agree(bs, s, 0), At(buf, s, Bytes(k), r)
  PROVE  Follows([c EXCEPT !.low = LowWord(s), !.high = HighWord(s), !.blocks = bs, !.buffer = buf], s)
<1>1. PICK d : d = [c EXCEPT !.low = LowWord(s), !.high = HighWord(s), !.blocks = bs, !.buffer = buf]
  OBVIOUS
<1>2. PICK lo \in Nat : lo = LowWord(s)
  BY WordsTyped
<1>3. PICK hi \in Nat : hi = HighWord(s)
  BY WordsTyped
<1>4. /\ d \in [blocks : Seq(Seq(Nat)), buffer : [1 .. Block -> Nat], low : Nat, high : Nat]
      /\ d.low = lo /\ d.high = hi /\ d.blocks = bs /\ d.buffer = buf
  BY <1>1, <1>2, <1>3 DEF Context
<1>5. Holds(d, s, r) /\ Len(s) = Bytes(Len(d.blocks)) + r
  BY <1>4, Zenon DEF Holds
<1>. QED
  BY <1>1, <1>2, <1>3, <1>4, <1>5, Zenon DEF Follows, Context

\* The update stays inside the block the object is in.
LEMMA UpdateInside ==
  ASSUME NEW m \in Seq(Nat), NEW x \in Seq(Nat), NEW c, Follows(c, m), Len(x) < Block - Index(c)
  PROVE  Follows(Update(c, x), m \o x)
<1>1. Block \in Nat /\ Len(m) \in Nat /\ Len(x) \in Nat
  BY BlockAssumption
<1>2. PICK k \in Nat, r \in 0 .. Block - 1 :
            /\ k = Len(c.blocks) /\ Bytes(k) \in Nat /\ Len(m) = Bytes(k) + r
            /\ Index(c) = r /\ c \in Context /\ c.blocks \in Seq(Seq(Nat)) /\ c.buffer \in [1 .. Block -> Nat]
            /\ Agree(c.blocks, m, 0) /\ At(c.buffer, m, Bytes(k), r)
  BY FollowsIs, Zenon
<1>3. PICK base \in Nat : base = Bytes(k)
  BY <1>2
<1>4. PICK e \in Nat : e = r + Len(x)
  BY <1>1
<1>5. /\ m \o x \in Seq(Nat) /\ Len(m \o x) = Len(m) + Len(x) /\ r \in Nat /\ e <= Block /\ e \in 0 .. Block - 1
      /\ base + r <= Len(m) /\ base <= Len(m) /\ Len(m) = base + r
  BY <1>1, <1>2, <1>3, <1>4
<1>6. Agree(c.blocks, m \o x, 0)
  BY <1>2, <1>3, <1>5, AgreePrefix, Zenon
<1>7. At(c.buffer, m \o x, base, r)
  BY <1>2, <1>3, <1>5, AtPrefix, Zenon
<1>8. At(x, m \o x, base + r, Len(x))
  BY <1>5, AtSuffix, Zenon
<1>9. PICK buf : buf = CopyTo(c.buffer, r, x)
  OBVIOUS
<1>10. buf \in [1 .. Block -> Nat] /\ At(buf, m \o x, base, e)
  BY <1>2, <1>4, <1>5, <1>7, <1>8, <1>9, CopyFills, Zenon
<1>11. Len(m \o x) = Bytes(k) + e
  BY <1>1, <1>2, <1>4, <1>5
<1>12. Follows([c EXCEPT !.low = LowWord(m \o x), !.high = HighWord(m \o x), !.blocks = c.blocks, !.buffer = buf], m \o x)
  BY <1>2, <1>3, <1>5, <1>6, <1>10, <1>11, NowFollows, Zenon
<1>13. Update(c, x) = [[c EXCEPT !.low = LowWord(m \o x), !.high = HighWord(m \o x)] EXCEPT !.buffer = CopyTo(@, r, x)]
  <2>1. Count(c, Len(x)) = [c EXCEPT !.low = LowWord(m \o x), !.high = HighWord(m \o x)]
    BY CountIs, Zenon
  <2>2. Update(c, x) = [Count(c, Len(x)) EXCEPT !.buffer = CopyTo(@, r, x)]
    BY <1>2 DEF Update
  <2>. QED
    BY <2>1, <2>2, Zenon
<1>14. Update(c, x) = [c EXCEPT !.low = LowWord(m \o x), !.high = HighWord(m \o x), !.blocks = c.blocks, !.buffer = buf]
  <2>1. PICK lo : lo = LowWord(m \o x)
    OBVIOUS
  <2>2. PICK hi : hi = HighWord(m \o x)
    OBVIOUS
  <2>. QED
    BY <1>2, <1>9, <1>13, <2>1, <2>2 DEF Context
<1>. QED
  BY <1>12, <1>14, Zenon

\* The update completes the block the object is in.
LEMMA UpdateAcross ==
  ASSUME NEW m \in Seq(Nat), NEW x \in Seq(Nat), NEW c, Follows(c, m), ~ (Len(x) < Block - Index(c))
  PROVE  Follows(Update(c, x), m \o x)
<1>1. Block \in Nat /\ Len(m) \in Nat /\ Len(x) \in Nat
  BY BlockAssumption
<1>2. PICK k \in Nat, r \in 0 .. Block - 1 :
            /\ k = Len(c.blocks) /\ Bytes(k) \in Nat /\ Len(m) = Bytes(k) + r
            /\ Index(c) = r /\ c \in Context /\ c.blocks \in Seq(Seq(Nat)) /\ c.buffer \in [1 .. Block -> Nat]
            /\ Agree(c.blocks, m, 0) /\ At(c.buffer, m, Bytes(k), r)
  BY FollowsIs, Zenon
<1>3. PICK base \in Nat : base = Bytes(k)
  BY <1>2
<1>4. PICK first \in Nat : first = Block - r
  BY <1>1
<1>5. PICK more \in Nat, i \in 0 .. Block - 1 :
         Len(x) - first = Bytes(more) + i /\ (Len(x) - first) \div Block = more
  <2>1. Len(x) - first \in Nat
    BY <1>1, <1>2, <1>4
  <2>. QED
    BY <2>1, PlaceOf, Zenon
<1>6. PICK p \in Nat : p = first + Bytes(more) /\ Bytes(more) \in Nat
  <2>1. Bytes(more) \in Nat
    BY BytesAre, Zenon
  <2>. QED
    BY <2>1
<1>7. PICK e \in Nat : e = k + 1 + more
  OBVIOUS
<1>8. PICK s \in Seq(Nat) : s = m \o x
  <2>1. m \o x \in Seq(Nat)
    OBVIOUS
  <2>. QED
    BY <2>1, Zenon
\* The lengths, in the forms the lemmas ask for
<1>9. /\ Len(s) = Len(m) + Len(x) /\ r \in Nat /\ i \in Nat /\ Len(m) = base + r /\ base <= Len(m)
      /\ r + first = Block /\ first <= Len(x) /\ 0 + first = first /\ 0 + first <= Len(x) /\ 0 + 1 = 1
      /\ p + i = Len(x) /\ p + i <= Len(x) /\ first + Bytes(more) <= Len(x) /\ Block <= Block /\ i <= Block
      /\ base + r + 0 = base + r /\ 0 + i = i /\ Block = r + first /\ i = 0 + i
  <2>1. Len(s) = Len(m) + Len(x)
    BY <1>8
  <2>2. r \in Nat /\ i \in Nat /\ i <= Block /\ Block <= Block /\ r + first = Block /\ Block = r + first
    BY <1>1, <1>4
  <2>3. Len(m) = base + r /\ base <= Len(m)
    BY <1>1, <1>2, <1>3
  <2>4. ~ (Len(x) < Block - r)
    BY <1>2, Zenon
  <2>5. first <= Len(x)
    BY <1>1, <1>4, <2>4
  <2>6. 0 + first = first /\ 0 + first <= Len(x) /\ 0 + 1 = 1 /\ base + r + 0 = base + r /\ 0 + i = i /\ i = 0 + i
    BY <2>5
  <2>7. PICK b \in Nat : b = Bytes(more)
    BY <1>6
  <2>8. p + i = Len(x) /\ p + i <= Len(x) /\ first + Bytes(more) <= Len(x)
    <3>1. Len(x) - first = b + i /\ p = first + b
      BY <1>5, <1>6, <2>7, Zenon
    <3>2. Len(x) \in Nat /\ i \in Nat
      BY <1>1
    <3>3. p + i = Len(x) /\ p + i <= Len(x) /\ first + b <= Len(x)
      BY <3>1, <3>2
    <3>. QED
      BY <2>7, <3>3, Zenon
  <2>. QED
    BY <2>1, <2>2, <2>3, <2>5, <2>6, <2>8, Zenon
<1>10. Bytes(k + 1) = base + Block /\ Bytes(e) = base + Block + Bytes(more)
  <2>1. Bytes(k + 1) = Bytes(k) + Bytes(1) /\ Bytes(1) = Block
    BY BytesAre
  <2>2. k + 1 \in Nat
    OBVIOUS
  <2>3. Bytes(k + 1 + more) = Bytes(k + 1) + Bytes(more)
    BY <2>2, BytesAre, Zenon
  <2>. QED
    BY <1>3, <1>7, <2>1, <2>3, Zenon
<1>11. Agree(c.blocks, s, 0) /\ At(c.buffer, s, base, r) /\ At(x, s, base + r, Len(x))
  <2>1. Agree(c.blocks, s, 0)
    BY <1>2, <1>3, <1>8, <1>9, AgreePrefix, Zenon
  <2>2. base + r <= Len(m)
    BY <1>1, <1>9
  <2>3. At(c.buffer, s, base, r)
    BY <1>2, <1>3, <1>8, <1>9, <2>2, AtPrefix, Zenon
  <2>4. At(x, s, base + r, Len(x))
    BY <1>8, <1>9, AtSuffix, Zenon
  <2>. QED
    BY <2>1, <2>3, <2>4
\* The block that is completed
<1>12. PICK head : head = SubSeq(x, 1, first)
  OBVIOUS
<1>13. head \in Seq(Nat) /\ Len(head) = first /\ At(head, s, base + r, first)
  <2>1. 0 \in Nat /\ base + r \in Nat
    OBVIOUS
  <2>2. head \in Seq(Nat) /\ Len(head) = first /\ At(head, x, 0, first)
    <3>1. /\ SubSeq(x, 0 + 1, 0 + first) \in Seq(Nat) /\ Len(SubSeq(x, 0 + 1, 0 + first)) = first
          /\ At(SubSeq(x, 0 + 1, 0 + first), x, 0, first)
      BY <1>9, <2>1, PieceIs, Zenon
    <3>2. head = SubSeq(x, 0 + 1, 0 + first)
      BY <1>9, <1>12, Zenon
    <3>. QED
      BY <3>1, <3>2, Zenon
  <2>3. At(head, s, base + r + 0, first)
    BY <1>1, <1>9, <1>11, <2>1, <2>2, AtAt, Zenon
  <2>. QED
    BY <1>9, <2>2, <2>3, Zenon
<1>14. PICK full : full = CopyTo(c.buffer, r, head)
  OBVIOUS
<1>15. full \in [1 .. Block -> Nat] /\ At(full, s, base, Block)
  BY <1>1, <1>2, <1>9, <1>11, <1>13, <1>14, CopyFills, Zenon
<1>16. /\ <<full>> \in Seq(Seq(Nat)) /\ Len(<<full>>) = 1 /\ <<full>>[1] = full /\ Len(full) = Block
  BY <1>1, <1>15
<1>17. Agree(<<full>>, s, k)
  <2>1. ASSUME NEW b \in 1 .. Len(<<full>>)
        PROVE  Len(<<full>>[b]) = Block /\ At(<<full>>[b], s, Bytes(k + b - 1), Block)
    <3>1. b = 1 /\ k + b - 1 = k
      BY <1>16
    <3>. QED
      BY <1>3, <1>15, <1>16, <3>1, Zenon
  <2>. QED
    BY <2>1, Zenon DEF Agree
\* The blocks behind it
<1>18. PICK whole : whole = Whole(x, first, more)
  OBVIOUS
<1>19. whole \in Seq(Seq(Nat)) /\ Len(whole) = more /\ Agree(whole, s, k + 1)
  <2>1. base + r \in Nat /\ k + 1 \in Nat /\ base + r + first = Bytes(k + 1)
    BY <1>1, <1>9, <1>10
  <2>2. PICK n \in Nat : n = base + r
    BY <2>1
  <2>3. n + first = Bytes(k + 1) /\ first + Bytes(more) <= Len(x) /\ At(x, s, n, Len(x)) /\ k + 1 \in Nat
    BY <1>9, <1>11, <2>1, <2>2, Zenon
  <2>4. /\ Whole(x, first, more) \in Seq(Seq(Nat)) /\ Len(Whole(x, first, more)) = more
        /\ Agree(Whole(x, first, more), s, k + 1)
    BY <2>3, WholeAgrees
  <2>. QED
    BY <1>18, <2>4, Zenon
<1>20. PICK bs : bs = c.blocks \o <<full>> \o whole
  OBVIOUS
<1>21. bs \in Seq(Seq(Nat)) /\ Len(bs) = e /\ Agree(bs, s, 0)
  <2>1. /\ 0 \in Nat /\ k = 0 + Len(c.blocks) /\ c.blocks \o <<full>> \in Seq(Seq(Nat)) /\ k + 1 \in Nat
        /\ k + 1 = 0 + Len(c.blocks \o <<full>>)
    BY <1>2, <1>16
  <2>2. Agree(c.blocks \o <<full>>, s, 0)
    BY <1>2, <1>11, <1>16, <1>17, <2>1, AgreeJoin, Zenon
  <2>3. Agree(bs, s, 0)
    BY <1>19, <1>20, <2>1, <2>2, AgreeJoin, Zenon
  <2>4. bs \in Seq(Seq(Nat)) /\ Len(bs) = e
    <3>1. PICK u \in Seq(Seq(Nat)) : u = c.blocks \o <<full>>
      BY <2>1, Zenon
    <3>3. Len(u) = k + 1
      <4>1. k + 1 = 0 + Len(u)
        BY <2>1, <3>1, Zenon
      <4>2. Len(u) \in Nat
        BY <3>1
      <4>. QED
        BY <4>1, <4>2
    <3>4. u \o whole \in Seq(Seq(Nat)) /\ Len(u \o whole) = Len(u) + Len(whole)
      BY <1>19, ConcatProperties, Zenon
    <3>2. bs = u \o whole
      BY <1>20, <3>1, Zenon
    <3>. QED
      BY <1>7, <1>19, <3>2, <3>3, <3>4, Zenon
  <2>. QED
    BY <2>3, <2>4
\* The rest
<1>22. PICK rest : rest = SubSeq(x, p + 1, p + i)
  OBVIOUS
<1>23. rest \in Seq(Nat) /\ Len(rest) = i /\ At(rest, s, Bytes(e), i)
  <2>1. rest \in Seq(Nat) /\ Len(rest) = i /\ At(rest, x, p, i)
    BY <1>9, <1>22, PieceIs, Zenon
  <2>2. base + r \in Nat /\ base + r + p = Bytes(e)
    BY <1>1, <1>6, <1>9, <1>10
  <2>3. At(rest, s, base + r + p, i)
    BY <1>1, <1>9, <1>11, <2>1, <2>2, AtAt, Zenon
  <2>. QED
    BY <2>1, <2>2, <2>3, Zenon
<1>24. PICK last : last = CopyTo(full, 0, rest)
  OBVIOUS
<1>25. last \in [1 .. Block -> Nat] /\ At(last, s, Bytes(e), i)
  <2>1. PICK b \in Nat : b = Bytes(e)
    BY <1>1, <1>6, <1>10
  <2>2. At(full, s, b, 0) /\ b + 0 = b /\ 0 \in Nat
    BY DEF At
  <2>. QED
    BY <1>9, <1>15, <1>23, <1>24, <2>1, <2>2, CopyFills, Zenon
<1>26. Len(s) = Bytes(e) + i
  <2>1. PICK b \in Nat : b = Bytes(more)
    BY <1>6
  <2>2. Len(s) = Len(m) + Len(x) /\ Len(m) = base + r /\ p + i = Len(x) /\ r + first = Block
    BY <1>9, Zenon
  <2>. QED
    <3>1. Bytes(e) = base + Block + b /\ p = first + b
      BY <1>6, <1>10, <2>1, Zenon
    <3>2. PICK t : t = Bytes(e)
      OBVIOUS
    <3>3. r \in Nat /\ i \in Nat /\ Block \in Nat
      BY <1>1
    <3>4. Len(s) = t + i
      <4>1. (base + r) + ((first + b) + i) = (base + (r + first) + b) + i
        BY <3>3
      <4>. QED
        BY <2>2, <3>1, <3>2, <4>1, Zenon
    <3>. QED
      BY <3>2, <3>4, Zenon
<1>27. Follows([c EXCEPT !.low = LowWord(s), !.high = HighWord(s), !.blocks = bs, !.buffer = last], s)
  BY <1>2, <1>21, <1>25, <1>26, NowFollows, Zenon
<1>28. Update(c, x) = [[c EXCEPT !.low = LowWord(s), !.high = HighWord(s)] EXCEPT
                         !.blocks = @ \o <<full>> \o whole, !.buffer = last]
  <2>1. Count(c, Len(x)) = [c EXCEPT !.low = LowWord(s), !.high = HighWord(s)]
    BY <1>8, CountIs, Zenon
  <2>2. Update(c, x) = [Count(c, Len(x)) EXCEPT !.blocks = @ \o <<full>> \o whole,
                                                !.buffer = CopyTo(CopyTo(@, r, head), 0, rest)]
    BY <1>2, <1>4, <1>5, <1>6, <1>9, <1>12, <1>14, <1>18, <1>22, Zenon DEF Update, Whole, Bytes
  <2>3. Update(c, x) = [[c EXCEPT !.low = LowWord(s), !.high = HighWord(s)] EXCEPT
                          !.blocks = @ \o <<full>> \o whole,
                          !.buffer = CopyTo(CopyTo(@, r, head), 0, rest)]
    BY <2>1, <2>2, Zenon
  <2>4. [c EXCEPT !.low = LowWord(s), !.high = HighWord(s)].buffer = c.buffer
    BY <1>2 DEF Context
  <2>. QED
    BY <1>14, <1>24, <2>3, <2>4, Zenon
<1>29. Update(c, x) = [c EXCEPT !.low = LowWord(s), !.high = HighWord(s), !.blocks = bs, !.buffer = last]
  <2>1. PICK lo : lo = LowWord(s)
    OBVIOUS
  <2>2. PICK hi : hi = HighWord(s)
    OBVIOUS
  <2>. QED
    BY <1>2, <1>20, <1>28, <2>1, <2>2 DEF Context
<1>. QED
  BY <1>8, <1>27, <1>29, Zenon

LEMMA UpdateFollows ==
  ASSUME NEW m \in Seq(Nat), NEW x \in Seq(Nat), NEW c, Follows(c, m)
  PROVE  Follows(Update(c, x), m \o x)
BY UpdateInside, UpdateAcross, Zenon

\* Nothing was given yet.
LEMMA NewFollows == Follows(New, <<>>)
<1>1. Block \in Nat /\ Block > 2
  BY BlockAssumption
<1>2. New \in Context
  <2>1. Zeros(Block) \in [1 .. Block -> Nat]
    BY <1>1 DEF Zeros
  <2>. QED
    BY <2>1 DEF New, Context
<1>3. LowWord(<<>>) = 0 /\ HighWord(<<>>) = 0
  <2>1. PICK w \in Nat : w > 0 /\ Word = 8 * w
    BY WordFacts
  <2>2. 0 \in Nat /\ 0 \in 0 .. w - 1 /\ 0 = 0 * w + 0 /\ 8 * 0 = 0 /\ Len(<<>>) = 0
    BY <2>1
  <2>3. (8 * 0) \div Word = 0 /\ (8 * 0) % Word = 8 * 0
    BY <2>1, <2>2, BitsAre
  <2>4. 0 % Word = 0
    BY <2>2, <2>3, Zenon
  <2>. QED
    BY <2>2, <2>3, <2>4, Zenon DEF LowWord, HighWord
<1>4. New.blocks = <<>> /\ New.low = 0 /\ New.high = 0 /\ Len(<<>>) = 0
  BY DEF New
<1>5. 0 \in 0 .. Block - 1 /\ Len(<<>>) = Bytes(Len(New.blocks)) + 0
  <2>1. Bytes(0) = 0
    BY BytesAre
  <2>2. Bytes(Len(New.blocks)) = 0
    BY <1>4, <2>1, Zenon
  <2>. QED
    BY <1>1, <1>4, <2>2
<1>6. Holds(New, <<>>, 0)
  <2>1. Agree(New.blocks, <<>>, 0)
    BY <1>4 DEF Agree
  <2>2. At(New.buffer, <<>>, Bytes(Len(New.blocks)), 0)
    BY DEF At
  <2>. QED
    BY <2>1, <2>2 DEF Holds
<1>. QED
  BY <1>2, <1>3, <1>4, <1>5, <1>6, Zenon DEF Follows

\* What the object was given is in its context.
ContextFollows == message \in Seq(Nat) /\ Follows(context, message)

THEOREM ContextIs == Md5Spec => []ContextFollows
<1>1. Md5Init => ContextFollows
  <2>1. <<>> \in Seq(Nat)
    OBVIOUS
  <2>. QED
    BY <2>1, NewFollows, Zenon DEF Md5Init, ContextFollows
<1>2. ContextFollows /\ [\E input \in Seq(Nat) : Md5Update(input)]_md5Vars => ContextFollows'
  <2>. SUFFICES ASSUME ContextFollows, [\E input \in Seq(Nat) : Md5Update(input)]_md5Vars
                PROVE  ContextFollows'
    OBVIOUS
  <2>1. CASE UNCHANGED md5Vars
    BY <2>1 DEF md5Vars, ContextFollows
  <2>2. ASSUME NEW input \in Seq(Nat), Md5Update(input) PROVE ContextFollows'
    <3>1. context' = Update(context, input) /\ message' = message \o input
      BY <2>2 DEF Md5Update
    <3>2. message \in Seq(Nat) /\ Follows(context, message)
      BY DEF ContextFollows
    <3>3. message \o input \in Seq(Nat)
      BY <3>2
    <3>4. Follows(Update(context, input), message \o input)
      BY <3>2, UpdateFollows, Zenon
    <3>5. message' \in Seq(Nat) /\ Follows(context', message')
      BY <3>1, <3>3, <3>4, Zenon
    <3>. QED
      BY <3>5 DEF ContextFollows
  <2>. QED
    BY <2>1, <2>2
<1>. QED
  BY <1>1, <1>2, PTL DEF Md5Spec

\* Only one number of zeros fills a block up to the length.
LEMMA ZerosAre ==
  ASSUME NEW n \in Nat, NEW z \in 0 .. Block - 1, NEW e \in Nat, n + z = Bytes(e)
  PROVE  (CHOOSE y \in 0 .. Block - 1 : (n + y) % Block = 0) = z
<1>1. Block \in Nat /\ Block > 2
  BY BlockAssumption
<1>2. (n + z) % Block = 0
  <2>1. 0 \in 0 .. Block - 1 /\ n + z = Bytes(e) + 0 /\ n + z \in Nat
    BY <1>1
  <2>. QED
    BY <2>1, PlaceIs, Zenon
<1>3. ASSUME NEW y \in 0 .. Block - 1, (n + y) % Block = 0 PROVE y = z
  <2>1. n + y \in Nat
    BY <1>1
  <2>2. PICK k \in Nat, r \in 0 .. Block - 1 : n + y = Bytes(k) + r /\ (n + y) % Block = r
    BY <2>1, PlaceOf, Zenon
  <2>3. PICK b \in Nat : b = Bytes(k) /\ n + y = b
    <3>1. Bytes(k) \in Nat /\ r = 0
      BY <1>3, <2>2, BytesAre
    <3>. QED
      BY <2>2, <3>1
  <2>4. PICK a \in Nat : a = Bytes(e) /\ n + z = a
    OBVIOUS
  <2>5. CASE k = e
    BY <1>1, <2>3, <2>4, <2>5
  <2>6. CASE k < e
    <3>1. k + 1 \in 1 .. e
      BY <2>6
    <3>2. Bytes(k + 1) <= Bytes(e) /\ Bytes(k + 1) = Bytes(k + 1 - 1) + Block /\ k + 1 - 1 = k
      BY <3>1, BlockInside
    <3>3. b + Block <= a
      BY <2>3, <2>4, <3>2, Zenon
    <3>. QED
      BY <1>1, <2>3, <2>4, <3>3
  <2>7. CASE e < k
    <3>1. e + 1 \in 1 .. k
      BY <2>7
    <3>2. Bytes(e + 1) <= Bytes(k) /\ Bytes(e + 1) = Bytes(e + 1 - 1) + Block /\ e + 1 - 1 = e
      BY <3>1, BlockInside
    <3>3. a + Block <= b
      BY <2>3, <2>4, <3>2, Zenon
    <3>. QED
      BY <1>1, <2>3, <2>4, <3>3
  <2>. QED
    BY <2>5, <2>6, <2>7
<1>. QED
  BY <1>2, <1>3, Zenon

LEMMA PiecesJoin ==
  ASSUME NEW s \in Seq(Nat), NEW t \in Seq(Nat), NEW u \in Seq(Nat)
  PROVE  (s \o t) \o u = s \o (t \o u)
<1>1. \A v \in Seq(Nat) : v \o u \in Seq(Nat) /\ Len(v \o u) = Len(v) + Len(u)
  BY ConcatProperties
<1>2. /\ s \o t \in Seq(Nat) /\ Len(s \o t) = Len(s) + Len(t)
      /\ s \o (t \o u) \in Seq(Nat) /\ Len(s \o (t \o u)) = Len(s) + Len(t) + Len(u)
  BY <1>1
<1>3. (s \o t) \o u \in Seq(Nat) /\ Len((s \o t) \o u) = Len(s) + Len(t) + Len(u)
  BY <1>1, <1>2
<1>4. \A i \in 1 .. Len(s) + Len(t) + Len(u) : ((s \o t) \o u)[i] = (s \o (t \o u))[i]
  BY <1>1, <1>2
<1>. QED
  BY <1>2, <1>3, <1>4, SeqEqual, Zenon

LEMMA PadIs ==
  ASSUME NEW m \in Seq(Nat), NEW z \in Nat
  PROVE  /\ <<Mark>> \o Zeros(z) \in Seq(Nat) /\ Len(<<Mark>> \o Zeros(z)) = 1 + z
         /\ m \o (<<Mark>> \o Zeros(z)) = m \o <<Mark>> \o Zeros(z)
<1>1. PICK zeros \in Seq(Nat) : zeros = Zeros(z) /\ Len(zeros) = z
  <2>1. Zeros(z) \in Seq(Nat) /\ Len(Zeros(z)) = z
    BY DEF Zeros
  <2>. QED
    BY <2>1, Zenon
<1>2. PICK mark \in Seq(Nat) : mark = <<Mark>> /\ Len(mark) = 1
  <2>1. <<Mark>> \in Seq(Nat) /\ Len(<<Mark>>) = 1
    BY DEF Mark
  <2>. QED
    BY <2>1, Zenon
<1>3. (m \o mark) \o zeros = m \o (mark \o zeros)
  BY PiecesJoin
<1>4. mark \o zeros \in Seq(Nat) /\ Len(mark \o zeros) = 1 + z
  BY <1>1, <1>2
<1>. QED
  BY <1>1, <1>2, <1>3, <1>4, Zenon

LEMMA EncodeIs ==
  ASSUME NEW word \in Nat
  PROVE  Encode(word) \in Seq(Nat) /\ Len(Encode(word)) = WordBytes
<1>1. \A i \in 1 .. WordBytes : (word \div 256 ^ (i - 1)) % 256 \in Nat
  OBVIOUS
<1>. QED
  BY <1>1, LengthAssumption DEF Encode

LEMMA FinalizeIs ==
  ASSUME NEW m \in Seq(Nat), NEW c, Follows(c, m)
  PROVE  Finalize(c) = Padded(m, Encode(LowWord(m)) \o Encode(HighWord(m)))
<1>1. Block \in Nat /\ Block > 2 /\ Len(m) \in Nat
  BY BlockAssumption
<1>2. PICK k \in Nat, r \in 0 .. Block - 1 :
            /\ k = Len(c.blocks) /\ Bytes(k) \in Nat /\ Len(m) = Bytes(k) + r
            /\ Index(c) = r /\ c \in Context /\ c.blocks \in Seq(Seq(Nat)) /\ c.buffer \in [1 .. Block -> Nat]
            /\ Agree(c.blocks, m, 0) /\ At(c.buffer, m, Bytes(k), r)
  BY FollowsIs, Zenon
<1>3. PICK base \in Nat : base = Bytes(k)
  BY <1>2
<1>4. PICK l \in Nat : l = 2 * WordBytes /\ l < Block
  BY LengthAssumption
<1>5. PICK pads : pads = IF r < Block - l THEN Block - l - r ELSE Block - l + Block - r
  OBVIOUS
<1>6. PICK e \in Nat : Bytes(e) = base + r + pads + l
  <2>1. CASE r < Block - l
    <3>1. Bytes(k + 1) = Bytes(k) + Bytes(1) /\ Bytes(1) = Block
      BY BytesAre
    <3>2. base + Block = base + r + pads + l
      BY <1>1, <1>5, <1>4, <2>1
    <3>3. k + 1 \in Nat /\ Bytes(k + 1) = base + r + pads + l
      BY <1>3, <3>1, <3>2
    <3>. QED
      BY <3>3, Zenon
  <2>2. CASE ~ (r < Block - l)
    <3>1. Bytes(k + 2) = Bytes(k) + Bytes(2)
      BY BytesAre
    <3>2. Bytes(2) = 2 * Block
      BY DEF Bytes
    <3>3. base + 2 * Block = base + r + pads + l
      BY <1>1, <1>5, <1>4, <2>2
    <3>4. k + 2 \in Nat /\ Bytes(k + 2) = base + r + pads + l
      BY <1>3, <3>1, <3>2, <3>3
    <3>. QED
      BY <3>4, Zenon
  <2>. QED
    BY <2>1, <2>2, Zenon
<1>7. PICK z \in 0 .. Block - 1 : z = pads - 1 /\ pads = 1 + z
  <2>1. pads \in 1 .. Block
    BY <1>1, <1>5, <1>4
  <2>2. pads - 1 \in 0 .. Block - 1 /\ pads = 1 + (pads - 1)
    BY <1>1, <2>1
  <2>. QED
    BY <2>2, Zenon
<1>8. PICK lo \in Nat : lo = LowWord(m)
  BY WordsTyped
<1>9. PICK hi \in Nat : hi = HighWord(m)
  BY WordsTyped
<1>10. PICK pad \in Seq(Nat) : pad = <<Mark>> \o Zeros(z) /\ Len(pad) = pads
  <2>1. z \in Nat
    BY <1>1
  <2>2. <<Mark>> \o Zeros(z) \in Seq(Nat) /\ Len(<<Mark>> \o Zeros(z)) = 1 + z
    BY <2>1, PadIs, Zenon
  <2>. QED
    BY <1>7, <2>2, Zenon
<1>11. PICK words \in Seq(Nat) : words = Encode(lo) \o Encode(hi) /\ Len(words) = l
  <2>1. Encode(lo) \in Seq(Nat) /\ Len(Encode(lo)) = WordBytes
    BY EncodeIs, Zenon
  <2>2. Encode(hi) \in Seq(Nat) /\ Len(Encode(hi)) = WordBytes
    BY EncodeIs, Zenon
  <2>3. Encode(lo) \o Encode(hi) \in Seq(Nat) /\ Len(Encode(lo) \o Encode(hi)) = l
    <3>1. PICK a \in Seq(Nat) : a = Encode(lo) /\ Len(a) = WordBytes
      BY <2>1, Zenon
    <3>2. PICK b \in Seq(Nat) : b = Encode(hi) /\ Len(b) = WordBytes
      BY <2>2, Zenon
    <3>3. a \o b \in Seq(Nat) /\ Len(a \o b) = Len(a) + Len(b) /\ WordBytes + WordBytes = l
      BY <1>4, LengthAssumption
    <3>. QED
      BY <3>1, <3>2, <3>3, Zenon
  <2>. QED
    BY <2>3, Zenon
<1>12. PICK s \in Seq(Nat) : s = (m \o pad) \o words /\ Len(s) = Bytes(e)
  <2>1. m \o pad \in Seq(Nat) /\ Len(m \o pad) = Len(m) + Len(pad)
    OBVIOUS
  <2>2. (m \o pad) \o words \in Seq(Nat) /\ Len((m \o pad) \o words) = Len(m \o pad) + Len(words)
    BY <2>1
  <2>3. Len(m) + Len(pad) + Len(words) = Bytes(e)
    BY <1>2, <1>3, <1>6, <1>10, <1>11, Zenon
  <2>. QED
    BY <2>1, <2>2, <2>3, Zenon
<1>13. Finalize(c) = Update(Update(c, pad), words).blocks
  BY <1>2, <1>5, <1>7, <1>8, <1>9, <1>10, <1>11, <1>4, Zenon DEF Finalize, Follows
<1>14. Follows(Update(Update(c, pad), words), s)
  <2>1. Follows(Update(c, pad), m \o pad)
    BY UpdateFollows, Zenon
  <2>2. m \o pad \in Seq(Nat)
    OBVIOUS
  <2>3. Follows(Update(Update(c, pad), words), (m \o pad) \o words)
    BY <2>1, <2>2, UpdateFollows, Zenon
  <2>. QED
    BY <1>12, <2>3, Zenon
<1>15. Finalize(c) = BlocksOf(s)
  <2>1. PICK f : f = Update(Update(c, pad), words)
    OBVIOUS
  <2>2. Follows(f, s)
    BY <1>14, <2>1, Zenon
  <2>3. PICK r1 \in 0 .. Block - 1 : Len(s) = Bytes(Len(f.blocks)) + r1 /\ Holds(f, s, r1)
    BY <2>2, Zenon DEF Follows
  <2>4. f.blocks \in Seq(Seq(Nat))
    BY <2>2 DEF Follows, Context
  <2>5. f.blocks = BlocksOf(s)
    BY <2>3, <2>4, BlocksAre, Zenon DEF Holds
  <2>. QED
    BY <1>13, <2>1, <2>5, Zenon
<1>16. (CHOOSE y \in 0 .. Block - 1 : (Len(m) + 1 + Len(words) + y) % Block = 0) = z
  <2>1. Len(m) + 1 + Len(words) + z = Bytes(e)
    <3>1. base + r + 1 + l + z = base + r + pads + l
      BY <1>1, <1>7
    <3>. QED
      BY <1>2, <1>3, <1>6, <1>11, <3>1, Zenon
  <2>2. Len(m) + 1 + Len(words) \in Nat
    BY <1>1
  <2>. QED
    BY <2>1, <2>2, ZerosAre, Zenon
<1>17. s = m \o <<Mark>> \o Zeros(z) \o words
  <2>1. z \in Nat
    BY <1>1
  <2>2. m \o (<<Mark>> \o Zeros(z)) = m \o <<Mark>> \o Zeros(z)
    BY <2>1, PadIs, Zenon
  <2>. QED
    BY <1>10, <1>12, <2>2, Zenon
<1>. QED
  BY <1>8, <1>9, <1>11, <1>15, <1>16, <1>17, Zenon DEF Padded

THEOREM MessagesPadded == Md5Spec => []Md5Pads
<1>1. ContextFollows => Md5Pads
  BY FinalizeIs, Zenon DEF ContextFollows, Md5Pads
<1>. QED
  BY <1>1, ContextIs, PTL
==============================================================================
