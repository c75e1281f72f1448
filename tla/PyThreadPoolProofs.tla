------------------------- MODULE PyThreadPoolProofs -------------------------
(***************************************************************************)
(* For any number of threads and of tasks: close() of the Python thread    *)
(* pool loses no task, and every task is in one place at a time.  Tasks    *)
(* are numbered as they are put, so the queue is a run of consecutive      *)
(* numbers, then terminators: what has been taken is told by one number,   *)
(* and it is executed or in a thread's hands.                              *)
(***************************************************************************)
EXTENDS PyThreadPool, FiniteSetTheorems, SequenceTheorems, TLAPS

Closing == {"close", "join", "wait", "joined"}
Running == {"run", "append", "put"}
Leaving == {"remove", "ending", "exited"}

Types ==
    /\ main \in MainLabels
    /\ put \in 0 .. Tasks
    /\ n \in Nat
    /\ q \in Seq(0 .. Tasks)
    /\ pc \in [Thread -> {"unborn", "get", "call", "test", "remove", "ending", "exited"}]
    /\ event \in [Thread -> 0 .. Tasks]
    /\ executed \in Seq(0 .. Tasks)

InHand == {t \in Thread : pc[t] = "call"}

\* The first m tasks were taken.  The others are in the queue, in order, and
\* no thread leaves before they were taken too.
Taken(m) ==
    /\ Len(executed) + Cardinality(InHand) = m
    /\ \A i \in 1 .. put - m : i <= Len(q) /\ q[i] = m + i
    /\ \A i \in 1 .. Len(q) : i > put - m => q[i] = StopEvent
    /\ (\E t \in Thread : pc[t] \in Leaving) => m = put

\* While tasks are put every thread started is in created_list, none has met
\* a terminator, and there is none.
Started ==
    /\ \A t \in Thread : pc[t] = "unborn" <=> t > n
    /\ \A t \in Thread : pc[t] \notin Leaving
    /\ created \in Seq(Nat)
    /\ Len(created) = IF main = "append" THEN n - 1 ELSE n
    /\ main # "run" => n > 0 /\ put < Tasks
    /\ \A i \in 1 .. Len(q) : q[i] # StopEvent

Unterminated ==
    /\ terminal = FALSE
    /\ \E m \in 0 .. put : Taken(m)
    /\ put > 0 => pc[1] # "unborn"
    /\ main \in Running => Started
    /\ main \in Closing => put = Tasks

JInv == Types /\ (main \in Running \cup Closing => Unterminated)

LEMMA FiniteInHand == IsFiniteSet(InHand) /\ Cardinality(InHand) \in Nat
<1>1. IsFiniteSet(Thread)
  BY MaxNumAssumption, FS_Interval DEF Thread
<1>. QED
  BY <1>1, FS_Subset, FS_CardinalityType DEF InHand

LEMMA FirstElement ==
  ASSUME NEW S, NEW s \in Seq(S), s # <<>>
  PROVE  Head(s) \in S /\ Head(s) = s[1]
OBVIOUS

LEMMA NewElement ==
  ASSUME NEW S, NEW s \in Seq(S), NEW x \in S
  PROVE  Append(s, x) \in Seq(S) /\ <<>> \in Seq(S)
OBVIOUS

LEMMA FirstThread == 1 \in Thread
BY MaxNumAssumption DEF Thread

LEMMA Done == JInv => ClosedMeansDone
<1>. SUFFICES ASSUME JInv, main \in {"join", "wait", "joined"}, Stopped
              PROVE  Len(executed) = Tasks
  BY DEF ClosedMeansDone
<1>1. Unterminated /\ put = Tasks /\ put \in Nat
  BY TasksAssumption DEF JInv, Unterminated, Closing, Types
<1>2. PICK m \in 0 .. put : Taken(m)
  BY <1>1 DEF Unterminated
<1>3. InHand = {}
  BY DEF InHand, Stopped
<1>4. Len(executed) = m
  <2>1. Cardinality(InHand) = 0 /\ Len(executed) \in Nat
    BY <1>3, FS_EmptySet DEF JInv, Types
  <2>. QED
    BY <1>2, <2>1 DEF Taken
<1>5. m = put
  <2>1. CASE put = 0
    BY <1>1, <2>1
  <2>2. CASE put > 0
    <3>1. 1 \in Thread /\ pc[1] # "unborn"
      BY <1>1, <2>2, MaxNumAssumption DEF Unterminated, Thread
    <3>2. pc[1] \in Leaving
      BY <3>1 DEF Stopped, Leaving
    <3>. QED
      BY <1>2, <3>1, <3>2 DEF Taken
  <2>. QED
    BY <1>1, <2>1, <2>2
<1>. QED
  BY <1>1, <1>4, <1>5

LEMMA InitJInv == Init => JInv
<1>. SUFFICES ASSUME Init PROVE JInv
  OBVIOUS
<1>. USE DEF Init
<1>1. Types
  BY TasksAssumption DEF Types, MainLabels, StopEvent
<1>2. Taken(0)
  <2>1. InHand = {}
    BY DEF InHand
  <2>2. Cardinality(InHand) = 0
    BY <2>1, FS_EmptySet
  <2>. QED
    BY <2>2 DEF Taken, Leaving
<1>3. Started
  BY MaxNumAssumption DEF Started, Leaving, Thread
<1>. QED
  BY <1>1, <1>2, <1>3 DEF JInv, Unterminated, Running, Closing

-----------------------------------------------------------------------------
(* The main program *)

\* A step that leaves the tasks and the threads alone leaves what is taken.
LEMMA TakenSame ==
  ASSUME NEW m, Taken(m), UNCHANGED <<put, q, pc, executed>>
  PROVE  Taken(m)'
BY DEF Taken, InHand

\* run: a thread is started, and only the first can be the first.
LEMMA RunKeeps == JInv /\ Run => JInv'
<1>. SUFFICES ASSUME JInv, Run PROVE JInv'
  OBVIOUS
<1>1. /\ main = "run" /\ UNCHANGED <<put, q, created, terminal, event, executed>>
      /\ Types /\ Unterminated /\ Started /\ n \in Nat /\ MaxNum \in Nat /\ MaxNum # 0 /\ put < Tasks
  BY MaxNumAssumption DEF Run, JInv, Unterminated, Running, Types
<1>2. CASE MayStart
  <2>1. n' = n + 1 /\ main' = "append" /\ pc' = [pc EXCEPT ![n + 1] = "get"]
    BY <1>2 DEF Run
  <2>2. n + 1 \in Thread /\ pc[n + 1] = "unborn"
    BY <1>1, <1>2 DEF MayStart, Started, Thread
  <2>3. Types'
    BY <1>1, <2>1, <2>2 DEF Types, MainLabels
  <2>4. \E m \in 0 .. put' : Taken(m)'
    <3>1. InHand' = InHand
      BY <1>1, <2>1, <2>2 DEF InHand, Types
    <3>2. PICK m \in 0 .. put : Taken(m)
      BY <1>1 DEF Unterminated
    <3>3. \A t \in Thread : pc'[t] \notin Leaving
      BY <1>1, <2>1 DEF Started, Types, Leaving
    <3>4. Taken(m)'
      BY <1>1, <3>1, <3>2, <3>3 DEF Taken
    <3>. QED
      BY <1>1, <3>4
  <2>5. Started'
    <3>1. \A t \in Thread : t \in Nat /\ (pc'[t] = "unborn" <=> t > n + 1)
      BY <1>1, <2>1, <2>2 DEF Started, Types, Thread
    <3>2. \A t \in Thread : pc'[t] \notin Leaving
      BY <1>1, <2>1 DEF Started, Types, Leaving
    <3>. QED
      BY <1>1, <2>1, <3>1, <3>2 DEF Started
  <2>6. put' > 0 => pc'[1] # "unborn"
    BY <1>1, <2>1 DEF Unterminated, Types, Thread
  <2>. QED
    BY <1>1, <2>1, <2>3, <2>4, <2>5, <2>6 DEF JInv, Unterminated, Closing
<1>3. CASE ~MayStart
  <2>1. main' = "put" /\ UNCHANGED <<n, pc>>
    BY <1>3 DEF Run
  <2>2. n > 0
    BY <1>1, <1>3 DEF MayStart, Started
  <2>3. Types' /\ Started'
    BY <1>1, <2>1, <2>2 DEF Types, MainLabels, Started
  <2>4. \E m \in 0 .. put' : Taken(m)'
    BY <1>1, <2>1, TakenSame DEF Unterminated
  <2>. QED
    BY <1>1, <2>1, <2>3, <2>4 DEF JInv, Unterminated, Closing
<1>. QED
  BY <1>2, <1>3

LEMMA AppendKeeps == JInv /\ AppendThread => JInv'
<1>. SUFFICES ASSUME JInv, AppendThread PROVE JInv'
  OBVIOUS
<1>1. /\ main = "append" /\ main' = "put" /\ created' = Append(created, n)
      /\ UNCHANGED <<put, n, q, terminal, pc, event, executed>>
      /\ Types /\ Unterminated /\ Started /\ n \in Nat
  BY DEF AppendThread, Goes, threadVars, JInv, Unterminated, Running, Types
<1>2. Types' /\ Started'
  BY <1>1 DEF Types, MainLabels, Started
<1>3. \E m \in 0 .. put' : Taken(m)'
  BY <1>1, TakenSame DEF Unterminated
<1>. QED
  BY <1>1, <1>2, <1>3 DEF JInv, Unterminated, Closing

\* A task goes behind the others: there is no terminator yet.
LEMMA PutKeeps == JInv /\ PutTask => JInv'
<1>. SUFFICES ASSUME JInv, PutTask PROVE JInv'
  OBVIOUS
<1>1. /\ main = "put" /\ main' = "run" /\ put' = put + 1 /\ q' = Append(q, put + 1)
      /\ UNCHANGED <<n, created, terminal, pc, event, executed>>
      /\ Types /\ Unterminated /\ Started /\ n \in Nat /\ put \in Nat /\ Tasks \in Nat
  BY TasksAssumption DEF PutTask, Goes, threadVars, JInv, Unterminated, Running, Types
<1>2. Types'
  BY <1>1 DEF Types, MainLabels, Started
<1>3. /\ Len(q') = Len(q) + 1 /\ Len(q) \in Nat /\ q'[Len(q) + 1] = put + 1
      /\ \A i \in 1 .. Len(q) : q'[i] = q[i]
  BY <1>1 DEF Types
<1>4. Started'
  <2>1. \A i \in 1 .. Len(q') : q'[i] # StopEvent
    BY <1>1, <1>3 DEF Started, StopEvent
  <2>. QED
    BY <1>1, <2>1 DEF Started
<1>5. \E m \in 0 .. put' : Taken(m)'
  <2>1. PICK m \in 0 .. put : Taken(m)
    BY <1>1 DEF Unterminated
  <2>2. Len(q) = put - m
    <3>1. put - m \in Nat /\ put - m <= Len(q)
      BY <1>1, <1>3, <2>1 DEF Taken
    <3>2. Len(q) > put - m => q[Len(q)] = StopEvent /\ q[Len(q)] # StopEvent
      BY <1>1, <1>3, <2>1, <3>1 DEF Taken, Started
    <3>. QED
      BY <1>3, <3>1, <3>2
  <2>3. InHand' = InHand
    BY <1>1 DEF InHand
  <2>4. /\ \A i \in 1 .. put' - m : i <= Len(q') /\ q'[i] = m + i
        /\ \A i \in 1 .. Len(q') : i > put' - m => q'[i] = StopEvent
    <3>1. put' - m = Len(q') /\ Len(q') = Len(q) + 1 /\ Len(q) \in Nat
      BY <1>1, <1>3, <2>1, <2>2
    <3>2. ASSUME NEW i \in 1 .. Len(q) + 1 PROVE q'[i] = m + i
      <4>1. CASE i = Len(q) + 1
        BY <1>1, <1>3, <2>1, <2>2, <4>1
      <4>2. CASE i # Len(q) + 1
        <5>1. i \in 1 .. Len(q) /\ i \in 1 .. put - m
          BY <2>2, <3>1, <4>2
        <5>. QED
          BY <1>3, <2>1, <5>1 DEF Taken
      <4>. QED
        BY <4>1, <4>2
    <3>. QED
      BY <3>1, <3>2
  <2>5. Taken(m)'
    BY <1>1, <2>1, <2>3, <2>4 DEF Taken, Started
  <2>. QED
    BY <1>1, <2>5
<1>6. pc'[1] # "unborn"
  BY <1>1, MaxNumAssumption DEF Started, Thread
<1>. QED
  BY <1>1, <1>2, <1>4, <1>5, <1>6 DEF JInv, Unterminated, Closing

\* The steps of close, join and terminate that put nothing
LEMMA MainKeeps ==
  ASSUME JInv, \/ Close \/ StartJoin \/ JoinNext \/ JoinThread \/ JoinEnds
               \/ Terminate \/ Flood \/ Clear
  PROVE  JInv'
<1>. USE DEF Goes, threadVars
<1>0. n \in Nat /\ Types
  BY DEF JInv, Types
<1>1. CASE Close \/ StartJoin \/ JoinNext \/ JoinThread \/ JoinEnds
  <2>1. /\ main \in Running \cup Closing /\ main' \in Closing
        /\ UNCHANGED <<put, q, terminal, pc, event, executed>> /\ put = Tasks
    BY <1>1 DEF Close, StartJoin, JoinNext, JoinThread, JoinEnds, Running, Closing, JInv, Unterminated
  <2>2. n' \in Nat
    <3>1. CASE Close
      <4>1. Len(created) \in Nat
        BY <3>1 DEF Close, JInv, Unterminated, Running, Started
      <4>. QED
        BY <3>1, <4>1 DEF Close, Terminators
    <3>2. CASE StartJoin \/ JoinNext \/ JoinThread \/ JoinEnds
      BY <1>0, <3>2 DEF StartJoin, JoinNext, JoinThread, JoinEnds
    <3>. QED
      BY <1>1, <3>1, <3>2
  <2>3. Types'
    BY <1>0, <2>1, <2>2 DEF Types, MainLabels, Closing
  <2>4. \E m \in 0 .. put' : Taken(m)'
    BY <2>1, TakenSame DEF JInv, Unterminated
  <2>. QED
    BY <2>1, <2>3, <2>4 DEF JInv, Unterminated, Running, Closing
<1>2. CASE Terminate \/ Flood \/ Clear
  <2>1. main' \in {"terminate", "terminated"} /\ UNCHANGED <<put, n, pc, event, executed>>
    BY <1>2 DEF Terminate, Flood, Clear
  <2>2. q' \in Seq(0 .. Tasks)
    <3>1. q \in Seq(0 .. Tasks) /\ 0 \in 0 .. Tasks
      BY <1>0, TasksAssumption DEF Types
    <3>2. q' = q \/ q' = Append(q, 0) \/ q' = <<>>
      BY <1>2 DEF Terminate, Flood, Clear, Enqueue, StopEvent
    <3>. QED
      BY <3>1, <3>2, NewElement
  <2>. QED
    BY <1>0, <2>1, <2>2 DEF JInv, Types, MainLabels, Running, Closing
<1>. QED
  BY <1>1, <1>2

\* A terminator goes behind all tasks.
LEMMA PutTerminatorKeeps == JInv /\ PutTerminator => JInv'
<1>. SUFFICES ASSUME JInv, PutTerminator PROVE JInv'
  OBVIOUS
<1>1. /\ main = "close" /\ main' = "close" /\ n' = n - 1 /\ n > 0 /\ n \in Nat
      /\ q' = Append(q, StopEvent) /\ q \in Seq(0 .. Tasks) /\ StopEvent \in 0 .. Tasks
      /\ UNCHANGED <<put, terminal, pc, event, executed>>
      /\ Types /\ Unterminated /\ put \in Nat
  BY TasksAssumption DEF PutTerminator, Goes, threadVars, Enqueue, StopEvent, JInv, Closing, Types
<1>2. Types'
  BY <1>1 DEF Types, MainLabels
<1>3. /\ Len(q') = Len(q) + 1 /\ Len(q) \in Nat /\ q'[Len(q) + 1] = StopEvent
      /\ \A i \in 1 .. Len(q) : q'[i] = q[i]
  BY <1>1
<1>4. \E m \in 0 .. put' : Taken(m)'
  <2>1. PICK m \in 0 .. put : Taken(m)
    BY <1>1 DEF Unterminated
  <2>2. InHand' = InHand
    BY <1>1 DEF InHand
  <2>3. \A i \in 1 .. put - m : i <= Len(q') /\ q'[i] = m + i
    BY <1>1, <1>3, <2>1 DEF Taken
  <2>4. \A i \in 1 .. Len(q') : i > put - m => q'[i] = StopEvent
    BY <1>1, <1>3, <2>1 DEF Taken
  <2>5. Taken(m)'
    BY <1>1, <2>1, <2>2, <2>3, <2>4 DEF Taken
  <2>. QED
    BY <1>1, <2>5
<1>. QED
  BY <1>1, <1>2, <1>4 DEF JInv, Unterminated, Running, Closing

-----------------------------------------------------------------------------
(* The threads *)

\* What a thread takes is the next task, or all tasks were taken.
LEMMA GetKeeps ==
  ASSUME JInv, NEW t \in Thread, Get(t)
  PROVE  JInv'
<1>1. /\ q # <<>> /\ q' = Tail(q) /\ event' = [event EXCEPT ![t] = Head(q)]
      /\ pc[t] = "get" /\ pc' = [pc EXCEPT ![t] = IF Head(q) = StopEvent THEN "remove" ELSE "call"]
      /\ UNCHANGED <<main, put, n, terminal, created, executed>> /\ Types
  BY DEF Get, Step, mainVars, Rest, JInv
<1>2. /\ Head(q) = q[1] /\ Head(q) \in 0 .. Tasks /\ Len(q) \in Nat /\ Len(q) > 0
      /\ Tail(q) \in Seq(0 .. Tasks) /\ Len(Tail(q)) = Len(q) - 1
      /\ \A i \in 1 .. Len(q) - 1 : Tail(q)[i] = q[i + 1]
  <2>1. q \in Seq(0 .. Tasks)
    BY <1>1 DEF Types
  <2>2. Len(q) \in Nat /\ Len(q) > 0 /\ Head(q) = q[1]
    BY <1>1, <2>1
  <2>3. Head(q) \in 0 .. Tasks
    BY <1>1, <2>1, FirstElement
  <2>4. /\ Tail(q) \in Seq(0 .. Tasks) /\ Len(Tail(q)) = Len(q) - 1
        /\ \A i \in 1 .. Len(q) - 1 : Tail(q)[i] = q[i + 1]
    BY <1>1, <2>1
  <2>. QED
    BY <2>2, <2>3, <2>4
<1>3. Types'
  BY <1>1, <1>2 DEF Types
<1>4. ASSUME main \in Running \cup Closing PROVE Unterminated'
  <2>1. Unterminated /\ put \in Nat
    BY <1>1, <1>4, TasksAssumption DEF JInv, Types
  <2>2. PICK m \in 0 .. put : Taken(m)
    BY <2>1 DEF Unterminated
  <2>3. \A u \in Thread : u # t => pc'[u] = pc[u]
    BY <1>1 DEF Types
  <2>4. put > 0 => pc'[1] # "unborn"
    BY <1>1, <2>1, FirstThread DEF Unterminated, Types
  <2>5. CASE Head(q) = StopEvent
    <3>1. m = put
      BY <1>2, <2>1, <2>2, <2>5 DEF Taken, StopEvent
    <3>2. pc'[t] = "remove" /\ InHand' = InHand
      BY <1>1, <2>3, <2>5 DEF InHand, Types
    <3>3. Len(executed) + Cardinality(InHand) = m
      BY <2>2 DEF Taken
    <3>4. \A i \in 1 .. Len(q') : q'[i] = StopEvent
      BY <1>1, <1>2, <2>1, <2>2, <3>1 DEF Taken
    <3>5. Taken(put)'
      BY <1>1, <2>1, <3>1, <3>2, <3>3, <3>4 DEF Taken
    <3>6. ~(main \in Running)
      BY <1>2, <2>1, <2>5 DEF Unterminated, Started
    <3>. QED
      BY <1>1, <2>1, <2>4, <3>5, <3>6 DEF Unterminated
  <2>6. CASE Head(q) # StopEvent
    <3>1. m < put
      BY <1>2, <2>1, <2>2, <2>6 DEF Taken
    <3>2. pc'[t] = "call" /\ t \notin InHand /\ InHand' = InHand \cup {t}
      BY <1>1, <2>3, <2>6 DEF InHand, Types
    <3>3. Len(executed) + Cardinality(InHand') = m + 1
      <4>1. Cardinality(InHand') = Cardinality(InHand) + 1
        BY <3>2, FiniteInHand, FS_AddElement
      <4>2. Len(executed) \in Nat /\ Len(executed) + Cardinality(InHand) = m
        BY <1>1, <2>2 DEF Taken, Types
      <4>. QED
        BY <2>2, <4>1, <4>2, FiniteInHand
    <3>4. \A i \in 1 .. put - (m + 1) : i <= Len(q') /\ q'[i] = (m + 1) + i
      <4>1. ASSUME NEW i \in 1 .. put - (m + 1)
            PROVE  i <= Len(q') /\ q'[i] = (m + 1) + i
        <5>1. i + 1 \in 1 .. put - m /\ i \in Nat
          BY <2>1, <2>2
        <5>2. i + 1 <= Len(q) /\ q[i + 1] = m + (i + 1)
          BY <2>2, <5>1 DEF Taken
        <5>. QED
          BY <1>1, <1>2, <2>2, <5>1, <5>2
      <4>. QED
        BY <4>1
    <3>5. \A i \in 1 .. Len(q') : i > put - (m + 1) => q'[i] = StopEvent
      BY <1>1, <1>2, <2>1, <2>2 DEF Taken
    <3>6. \A u \in Thread : pc'[u] \notin Leaving
      BY <2>1, <2>2, <2>3, <3>1, <3>2 DEF Taken, Leaving
    <3>7. Taken(m + 1)'
      BY <1>1, <3>3, <3>4, <3>5, <3>6 DEF Taken
    <3>8. main \in Running => Started'
      <4>1. ASSUME main \in Running PROVE \A i \in 1 .. Len(q') : q'[i] # StopEvent
        BY <1>1, <1>2, <2>1, <4>1 DEF Unterminated, Started
      <4>2. \A u \in Thread : pc'[u] = "unborn" <=> pc[u] = "unborn"
        BY <1>1, <2>3, <3>2
      <4>. QED
        BY <1>1, <2>1, <3>6, <4>1, <4>2 DEF Unterminated, Started
    <3>9. m + 1 \in 0 .. put
      BY <2>1, <2>2, <3>1
    <3>. QED
      BY <1>1, <2>1, <2>4, <3>7, <3>8, <3>9 DEF Unterminated
  <2>. QED
    BY <2>5, <2>6
<1>. QED
  BY <1>1, <1>3, <1>4 DEF JInv

\* A task that is done moves from the thread's hands to those executed.
LEMMA CallKeeps ==
  ASSUME JInv, NEW t \in Thread, CallTask(t)
  PROVE  JInv'
<1>1. /\ pc[t] = "call" /\ pc' = [pc EXCEPT ![t] = "test"]
      /\ executed' = Append(executed, event[t]) /\ event' = [event EXCEPT ![t] = StopEvent]
      /\ UNCHANGED <<main, put, n, terminal, created, q>> /\ Types
  BY DEF CallTask, Step, mainVars, JInv
<1>2. Types' /\ Len(executed') = Len(executed) + 1 /\ Len(executed) \in Nat
  BY <1>1, TasksAssumption DEF Types, StopEvent
<1>3. ASSUME main \in Running \cup Closing PROVE Unterminated'
  <2>1. Unterminated /\ put \in Nat
    BY <1>1, <1>3, TasksAssumption DEF JInv, Types
  <2>2. PICK m \in 0 .. put : Taken(m)
    BY <2>1 DEF Unterminated
  <2>3. t \in InHand /\ InHand' = InHand \ {t}
    BY <1>1 DEF InHand, Types
  <2>4. Cardinality(InHand') = Cardinality(InHand) - 1
    BY <2>3, FiniteInHand, FS_RemoveElement
  <2>5. Len(executed') + Cardinality(InHand') = m
    BY <1>2, <2>2, <2>4, FiniteInHand DEF Taken
  <2>6. \A u \in Thread : (pc'[u] \in Leaving <=> pc[u] \in Leaving) /\ (pc'[u] = "unborn" <=> pc[u] = "unborn")
    BY <1>1 DEF Types, Leaving
  <2>7. Taken(m)'
    BY <1>1, <2>2, <2>5, <2>6 DEF Taken
  <2>8. main \in Running => Started'
    BY <1>1, <2>1, <2>6 DEF Unterminated, Started
  <2>9. put > 0 => pc'[1] # "unborn"
    BY <1>1, <2>1, FirstThread DEF Unterminated, Types
  <2>. QED
    BY <1>1, <2>1, <2>7, <2>8, <2>9 DEF Unterminated
<1>. QED
  BY <1>1, <1>2, <1>3 DEF JInv

\* A thread goes on to the next task, or out once it met a terminator.
LEMMA ThreadMoves ==
  ASSUME JInv, NEW t \in Thread, TestTerminal(t) \/ RemoveSelf(t) \/ Exit(t)
  PROVE  JInv'
<1>1. /\ UNCHANGED <<main, put, n, terminal, q, event, executed>> /\ Types
      /\ \/ /\ pc[t] = "test" /\ created' = created
            /\ pc' = [pc EXCEPT ![t] = IF terminal THEN "remove" ELSE "get"]
         \/ pc[t] = "remove" /\ pc' = [pc EXCEPT ![t] = "ending"]
         \/ pc[t] = "ending" /\ pc' = [pc EXCEPT ![t] = "exited"]
  BY DEF TestTerminal, Stops, RemoveSelf, Exit, Step, mainVars, JInv
<1>2. Types'
  BY <1>1 DEF Types
<1>3. ASSUME main \in Running \cup Closing PROVE Unterminated'
  <2>1. Unterminated /\ terminal = FALSE
    BY <1>3 DEF JInv, Unterminated
  <2>2. PICK m \in 0 .. put : Taken(m)
    BY <2>1 DEF Unterminated
  <2>3. \A u \in Thread : /\ pc'[u] \in Leaving <=> pc[u] \in Leaving
                          /\ pc'[u] = "unborn" <=> pc[u] = "unborn"
                          /\ pc'[u] = "call" <=> pc[u] = "call"
    BY <1>1, <2>1 DEF Types, Leaving
  <2>4. InHand' = InHand
    BY <2>3 DEF InHand
  <2>5. Taken(m)'
    BY <1>1, <2>2, <2>3, <2>4 DEF Taken
  <2>6. main \in Running => Started'
    <3>1. ASSUME main \in Running PROVE created' = created
      BY <1>1, <2>1, <3>1 DEF Unterminated, Started, Leaving
    <3>. QED
      BY <1>1, <2>1, <2>3, <3>1 DEF Unterminated, Started
  <2>7. put > 0 => pc'[1] # "unborn"
    BY <1>1, <2>1, FirstThread DEF Unterminated, Types
  <2>. QED
    BY <1>1, <2>1, <2>5, <2>6, <2>7 DEF Unterminated
<1>. QED
  BY <1>1, <1>2, <1>3 DEF JInv

LEMMA JKept == JInv /\ [Next]_vars => JInv'
<1>. SUFFICES ASSUME JInv, [Next]_vars PROVE JInv'
  OBVIOUS
<1>1. CASE UNCHANGED vars
  <2>1. \A m : Taken(m) => Taken(m)'
    BY <1>1, TakenSame DEF vars
  <2>. QED
    BY <1>1, <2>1 DEF vars, JInv, Types, Unterminated, Started
<1>2. CASE MainStep
  BY <1>2, RunKeeps, AppendKeeps, PutKeeps, PutTerminatorKeeps, MainKeeps DEF MainStep
<1>3. ASSUME NEW t \in Thread, ThreadStep(t) PROVE JInv'
  BY <1>3, GetKeeps, CallKeeps, ThreadMoves DEF ThreadStep
<1>. QED
  BY <1>1, <1>2, <1>3 DEF Next

\* After close() and however many threads were started, once they have all
\* stopped every task was executed: terminators are behind all tasks, and a
\* thread leaves only with one.
THEOREM CloseLosesNoTask == Spec => []ClosedMeansDone
BY InitJInv, JKept, Done, PTL DEF Spec

-----------------------------------------------------------------------------
(***************************************************************************)
(* Every task in one place, created_list the threads that live, and at     *)
(* most one more task after terminate(): this holds whatever the main      *)
(* program does, so it needs more than JInv, which ends with terminate().  *)
(***************************************************************************)
Distinct(s) == \A i, j \in DOMAIN s : s[i] = s[j] => i = j

Live == {t \in Thread : pc[t] \in {"get", "call", "test", "remove"}}

Listed ==
    /\ Len(created) <= MaxNum /\ Distinct(created)
    /\ main = "append" => n \in Live
    /\ ToSet(created) = Live \ (IF main = "append" THEN {n} ELSE {})

\* A thread has a task only while it calls it, and takes none in the round
\* after the one it took when the pool was terminated.
Busy ==
    \A t \in Thread : /\ event[t] # StopEvent <=> pc[t] = "call"
                      /\ late[t] <= 1
                      /\ late[t] > 0 => terminal /\ pc[t] \notin {"unborn", "get"}

Hands(i) == {t \in Thread : event[t] = i}
Ran(i)   == {k \in DOMAIN executed : executed[k] = i}

\* The first m tasks were taken and are each in one place; the others are in
\* the queue, in order.
OneEach(m) ==
    /\ \A i \in 1 .. Tasks :
          Cardinality(Hands(i)) + Cardinality(Ran(i)) = IF i <= m THEN 1 ELSE 0
    /\ \A i \in 1 .. put - m : i <= Len(q) /\ q[i] = m + i
    /\ \A i \in 1 .. Len(q) : i > put - m => q[i] = StopEvent

KInv == /\ TypeOK /\ Listed /\ Busy
        /\ main # "terminated" => \E m \in 0 .. put : OneEach(m)

\* list.remove takes out the one place of an element that is there once.
LEMMA RemoveDistinct ==
  ASSUME NEW S, NEW s \in Seq(S), NEW x \in ToSet(s), Distinct(s)
  PROVE  /\ RemoveFirst(s, x) \in Seq(S) /\ Len(RemoveFirst(s, x)) = Len(s) - 1
         /\ Distinct(RemoveFirst(s, x)) /\ ToSet(RemoveFirst(s, x)) = ToSet(s) \ {x}
<1>1. PICK k \in 1 .. Len(s) : s[k] = x
  BY DEF ToSet
<1>2. {i \in 1 .. Len(s) : s[i] = x} = {k}
  BY <1>1 DEF Distinct
<1>3. Min({k}) = k
  BY <1>1 DEF Min
<1>4. RemoveFirst(s, x) = SubSeq(s, 1, k - 1) \o SubSeq(s, k + 1, Len(s))
  BY <1>1, <1>2, <1>3 DEF RemoveFirst, SelectInSeq, RemoveAt
<1>. DEFINE r == SubSeq(s, 1, k - 1) \o SubSeq(s, k + 1, Len(s))
<1>5. /\ r \in Seq(S) /\ Len(r) = Len(s) - 1 /\ Len(s) \in Nat
      /\ \A i \in 1 .. Len(s) - 1 : r[i] = IF i < k THEN s[i] ELSE s[i + 1]
  <2>. DEFINE a == SubSeq(s, 1, k - 1)
              b == SubSeq(s, k + 1, Len(s))
  <2>1. /\ a \in Seq(S) /\ Len(a) = k - 1 /\ b \in Seq(S) /\ Len(b) = Len(s) - k
        /\ \A i \in 1 .. k - 1 : a[i] = s[i]
        /\ \A i \in 1 .. Len(s) - k : b[i] = s[k + i]
        /\ Len(s) \in Nat /\ k \in 1 .. Len(s)
    OBVIOUS
  <2>. HIDE DEF a, b
  <2>2. r = a \o b
    BY DEF a, b
  <2>3. /\ a \o b \in Seq(S) /\ Len(a \o b) = Len(s) - 1
        /\ \A i \in 1 .. Len(s) - 1 : (a \o b)[i] = IF i <= k - 1 THEN a[i] ELSE b[i - (k - 1)]
    <3>1. /\ a \o b \in Seq(S) /\ Len(a \o b) = Len(a) + Len(b)
          /\ \A i \in 1 .. Len(a) + Len(b) : (a \o b)[i] = IF i <= Len(a) THEN a[i] ELSE b[i - Len(a)]
      BY <2>1, ConcatProperties
    <3>2. Len(a) + Len(b) = Len(s) - 1
      BY <2>1
    <3>. QED
      BY <2>1, <3>1, <3>2
  <2>. HIDE DEF r
  <2>4. ASSUME NEW i \in 1 .. Len(s) - 1 PROVE r[i] = IF i < k THEN s[i] ELSE s[i + 1]
    <3>1. CASE i < k
      BY <2>1, <2>2, <2>3, <3>1
    <3>2. CASE ~(i < k)
      <4>1. i - (k - 1) \in 1 .. Len(s) - k /\ k + (i - (k - 1)) = i + 1 /\ ~(i <= k - 1)
        BY <2>1, <3>2
      <4>. QED
        BY <2>1, <2>2, <2>3, <3>2, <4>1
    <3>. QED
      BY <3>1, <3>2
  <2>. QED
    BY <2>1, <2>2, <2>3, <2>4
<1>. HIDE DEF r
<1>6. Distinct(r)
  <2>1. ASSUME NEW i \in DOMAIN r, NEW j \in DOMAIN r, r[i] = r[j] PROVE i = j
    <3>1. i \in 1 .. Len(s) - 1 /\ j \in 1 .. Len(s) - 1
      BY <1>5, <2>1
    <3>2. r[i] = (IF i < k THEN s[i] ELSE s[i + 1]) /\ r[j] = (IF j < k THEN s[j] ELSE s[j + 1])
      BY <1>5, <3>1
    <3>3. DOMAIN s = 1 .. Len(s) /\ Len(s) \in Nat
      OBVIOUS
    <3>4. /\ i \in DOMAIN s /\ i + 1 \in DOMAIN s /\ j \in DOMAIN s /\ j + 1 \in DOMAIN s
      BY <3>1, <3>3
    <3>5. (IF i < k THEN i ELSE i + 1) = (IF j < k THEN j ELSE j + 1)
      BY <2>1, <3>2, <3>4 DEF Distinct
    <3>. QED
      BY <1>1, <3>1, <3>3, <3>5
  <2>. QED
    BY <2>1 DEF Distinct
<1>7. ToSet(r) = ToSet(s) \ {x}
  <2>1. ASSUME NEW i \in 1 .. Len(s) - 1 PROVE r[i] \in ToSet(s) \ {x}
    <3>1. PICK j \in 1 .. Len(s) : j # k /\ r[i] = s[j]
      BY <1>1, <1>5
    <3>. QED
      BY <1>1, <3>1 DEF ToSet, Distinct
  <2>2. ASSUME NEW j \in 1 .. Len(s), j # k PROVE s[j] \in ToSet(r)
    <3>1. PICK i \in 1 .. Len(s) - 1 : r[i] = s[j]
      <4>1. CASE j < k
        BY <1>1, <1>5, <4>1
      <4>2. CASE j > k
        <5>1. j - 1 \in 1 .. Len(s) - 1 /\ ~(j - 1 < k) /\ (j - 1) + 1 = j
          BY <1>1, <1>5, <4>2
        <5>2. r[j - 1] = s[j]
          BY <1>5, <5>1
        <5>. QED
          BY <5>1, <5>2
      <4>. QED
        BY <2>2, <4>1, <4>2
    <3>. QED
      BY <1>5, <3>1 DEF ToSet
  <2>. QED
    BY <1>1, <1>5, <2>1, <2>2 DEF ToSet
<1>. QED
  BY <1>4, <1>5, <1>6, <1>7 DEF r

LEMMA InitKInv == Init => KInv
<1>. SUFFICES ASSUME Init PROVE KInv
  OBVIOUS
<1>. USE DEF Init
<1>1. TypeOK
  <2>1. /\ \A S : <<>> \in Seq(S)
        /\ 0 \in 0 .. Tasks /\ 0 \in 0 .. MaxNum /\ 0 \in Nat
    BY MaxNumAssumption, TasksAssumption
  <2>2. q \in Seq(0 .. Tasks) /\ created \in Seq(Thread) /\ executed \in Seq(1 .. Tasks)
    BY <2>1
  <2>. QED
    BY <2>1, <2>2 DEF TypeOK, MainLabels, StopEvent
<1>2. Listed
  <2>1. Live = {} /\ ToSet(created) = {} /\ Len(created) = 0
    BY DEF Live, ToSet
  <2>. QED
    BY <2>1, MaxNumAssumption DEF Listed, Distinct
<1>3. Busy
  BY DEF Busy, StopEvent
<1>4. OneEach(0)
  <2>1. ASSUME NEW i \in 1 .. Tasks PROVE Hands(i) = {} /\ Ran(i) = {}
    BY DEF Hands, Ran, StopEvent
  <2>2. Cardinality({}) = 0
    BY FS_EmptySet
  <2>3. put = 0 /\ Len(q) = 0
    OBVIOUS
  <2>4. ASSUME NEW i \in 1 .. Tasks
        PROVE  Cardinality(Hands(i)) + Cardinality(Ran(i)) = IF i <= 0 THEN 1 ELSE 0
    <3>1. i \in Nat /\ ~(i <= 0)
      BY TasksAssumption
    <3>2. Cardinality(Hands(i)) = 0 /\ Cardinality(Ran(i)) = 0
      BY <2>1, <2>2
    <3>. QED
      BY <3>1, <3>2
  <2>. QED
    BY <2>3, <2>4 DEF OneEach
<1>. QED
  BY <1>1, <1>2, <1>3, <1>4 DEF KInv

LEMMA FirstOfQueue ==
  ASSUME TypeOK, q # <<>>
  PROVE  /\ Head(q) = q[1] /\ Head(q) \in 0 .. Tasks /\ Len(q) \in Nat /\ Len(q) > 0
         /\ Tail(q) \in Seq(0 .. Tasks) /\ Len(Tail(q)) = Len(q) - 1
         /\ \A i \in 1 .. Len(q) - 1 : Tail(q)[i] = q[i + 1]
<1>1. q \in Seq(0 .. Tasks)
  BY DEF TypeOK
<1>2. Head(q) \in 0 .. Tasks
  BY <1>1, FirstElement
<1>. QED
  BY <1>1, <1>2

\* The types, and what a thread holds
LEMMA TypesKept ==
  ASSUME JInv, KInv, [Next]_vars
  PROVE  TypeOK' /\ Busy'
<1>. USE DEF Goes, threadVars, mainVars
<1>0. TypeOK /\ Busy /\ Listed
  BY DEF KInv
<1>1. CASE UNCHANGED vars
  BY <1>0, <1>1 DEF vars, TypeOK, Busy
<1>2. CASE Run
  <2>1. CASE MayStart
    <3>1. /\ n' = n + 1 /\ main' = "append" /\ pc' = [pc EXCEPT ![n + 1] = "get"]
          /\ UNCHANGED <<put, target, q, created, terminal, event, executed, late>> /\ main = "run"
      BY <1>2, <2>1 DEF Run
    <3>2. n + 1 \in Thread /\ pc[n + 1] = "unborn"
      BY <2>1, <3>1, MaxNumAssumption
         DEF MayStart, JInv, Types, Unterminated, Running, Started, Thread
    <3>3. TypeOK'
      BY <1>0, <3>1, <3>2 DEF TypeOK, MainLabels
    <3>. QED
      BY <1>0, <3>1, <3>2, <3>3 DEF TypeOK, Busy
  <2>2. CASE ~MayStart
    <3>1. main' = "put" /\ UNCHANGED <<put, n, pc, target, q, created, terminal, event, executed, late>>
      BY <1>2, <2>2 DEF Run
    <3>. QED
      BY <1>0, <3>1 DEF TypeOK, MainLabels, Busy
  <2>. QED
    BY <2>1, <2>2
<1>3. CASE AppendThread
  <2>1. n \in Thread
    BY <1>0, <1>3 DEF AppendThread, Listed, Live
  <2>2. created' = Append(created, n) /\ main' = "put"
        /\ UNCHANGED <<put, n, target, q, terminal, pc, event, executed, late>>
    BY <1>3 DEF AppendThread
  <2>. QED
    BY <1>0, <2>1, <2>2 DEF TypeOK, MainLabels, Busy
<1>4. CASE PutTask
  <2>1. main = "put" /\ main' = "run" /\ put' = put + 1 /\ q' = Append(q, put + 1)
        /\ UNCHANGED <<n, target, created, terminal, pc, event, executed, late>>
    BY <1>4 DEF PutTask
  <2>2. put < Tasks /\ put \in Nat
    BY <1>0, <2>1, TasksAssumption DEF JInv, Unterminated, Running, Started, TypeOK
  <2>3. q' \in Seq(0 .. Tasks) /\ put' \in 0 .. Tasks
    BY <1>0, <2>1, <2>2, TasksAssumption DEF TypeOK
  <2>. QED
    BY <1>0, <2>1, <2>3 DEF TypeOK, MainLabels, Busy
<1>5. CASE Close \/ StartJoin \/ JoinNext \/ JoinThread \/ JoinEnds \/ Terminate
  <2>1. /\ main' \in {"close", "join", "wait", "joined", "terminate"}
        /\ terminal' \in BOOLEAN /\ (terminal => terminal')
        /\ UNCHANGED <<put, q, created, pc, event, executed, late>>
    BY <1>0, <1>5 DEF Close, StartJoin, JoinNext, JoinThread, JoinEnds, Terminate, TypeOK
  <2>2. n' \in Nat
    BY <1>0, <1>5 DEF Close, StartJoin, JoinNext, JoinThread, JoinEnds, Terminate, Terminators, TypeOK
  <2>3. target' \in 0 .. MaxNum
    <3>1. CASE JoinNext
      <4>1. n + 1 \in 1 .. Len(created) /\ target' = created[n + 1]
        BY <1>0, <3>1 DEF JoinNext, TypeOK
      <4>2. created[n + 1] \in Thread
        BY <1>0, <4>1 DEF TypeOK
      <4>. QED
        BY <4>1, <4>2, MaxNumAssumption DEF Thread
    <3>2. CASE Close \/ StartJoin \/ JoinThread \/ JoinEnds \/ Terminate
      BY <1>0, <3>2, MaxNumAssumption
         DEF Close, StartJoin, JoinThread, JoinEnds, Terminate, TypeOK
    <3>. QED
      BY <1>5, <3>1, <3>2
  <2>. QED
    BY <1>0, <2>1, <2>2, <2>3 DEF TypeOK, MainLabels, Busy
<1>6. CASE PutTerminator \/ Flood \/ Clear
  <2>1. /\ main' \in MainLabels /\ n' \in Nat
        /\ UNCHANGED <<put, target, created, terminal, pc, event, executed, late>>
    BY <1>0, <1>6 DEF PutTerminator, Flood, Clear, TypeOK, MainLabels
  <2>2. q' = Append(q, 0) \/ q' = <<>>
    BY <1>6 DEF PutTerminator, Flood, Clear, Enqueue, StopEvent
  <2>3. q' \in Seq(0 .. Tasks)
    <3>1. q \in Seq(0 .. Tasks) /\ 0 \in 0 .. Tasks
      BY <1>0, TasksAssumption DEF TypeOK
    <3>. QED
      BY <2>2, <3>1, NewElement
  <2>. QED
    BY <1>0, <2>1, <2>3 DEF TypeOK, Busy
<1>7. ASSUME NEW t \in Thread, Get(t) PROVE TypeOK' /\ Busy'
  <2>1. /\ q # <<>> /\ q' = Tail(q) /\ event' = [event EXCEPT ![t] = Head(q)]
        /\ pc[t] = "get" /\ pc' = [pc EXCEPT ![t] = IF Head(q) = StopEvent THEN "remove" ELSE "call"]
        /\ late' = [late EXCEPT ![t] = IF terminal /\ Head(q) # StopEvent THEN @ + 1 ELSE @]
        /\ UNCHANGED <<main, put, n, target, terminal, created, executed>>
    BY <1>7 DEF Get, Step, Rest
  <2>2. late[t] = 0
    BY <1>0, <2>1 DEF Busy, TypeOK
  <2>3. late' = [late EXCEPT ![t] = IF terminal /\ Head(q) # StopEvent THEN 1 ELSE 0]
    BY <1>0, <2>1, <2>2 DEF TypeOK
  <2>4. TypeOK'
    BY <1>0, <2>1, <2>3, FirstOfQueue DEF TypeOK
  <2>. QED
    BY <1>0, <2>1, <2>3, <2>4 DEF TypeOK, Busy
<1>8. ASSUME NEW t \in Thread, CallTask(t) PROVE TypeOK' /\ Busy'
  <2>1. /\ pc[t] = "call" /\ pc' = [pc EXCEPT ![t] = "test"]
        /\ executed' = Append(executed, event[t]) /\ event' = [event EXCEPT ![t] = StopEvent]
        /\ UNCHANGED <<main, put, n, target, terminal, created, q, late>>
    BY <1>8 DEF CallTask, Step
  <2>2. event[t] \in 1 .. Tasks
    BY <1>0, <2>1, TasksAssumption DEF Busy, TypeOK, StopEvent
  <2>3. executed' \in Seq(1 .. Tasks)
    BY <1>0, <2>1, <2>2 DEF TypeOK
  <2>. QED
    BY <1>0, <2>1, <2>3, TasksAssumption DEF TypeOK, Busy, StopEvent
<1>9. ASSUME NEW t \in Thread, TestTerminal(t) \/ RemoveSelf(t) \/ Exit(t) PROVE TypeOK' /\ Busy'
  <2>1. /\ UNCHANGED <<main, put, n, target, terminal, q, event, executed, late>>
        /\ \/ pc[t] = "test" /\ pc' = [pc EXCEPT ![t] = IF terminal THEN "remove" ELSE "get"]
           \/ pc[t] = "remove" /\ pc' = [pc EXCEPT ![t] = "ending"]
           \/ pc[t] = "ending" /\ pc' = [pc EXCEPT ![t] = "exited"]
    BY <1>9 DEF TestTerminal, Stops, RemoveSelf, Exit, Step
  <2>2. created' \in Seq(Thread)
    <3>1. CASE RemoveSelf(t) /\ t \in ToSet(created)
      BY <1>0, <3>1, RemoveDistinct DEF RemoveSelf, Leaves, Listed, TypeOK
    <3>2. CASE RemoveSelf(t) /\ t \notin ToSet(created)
      <4>1. created' = created
        BY <1>0, <3>2 DEF RemoveSelf, Leaves, RemoveFirst, ToSet, TypeOK
      <4>. QED
        BY <1>0, <4>1 DEF TypeOK
    <3>. QED
      BY <1>0, <1>9, <3>1, <3>2 DEF TestTerminal, Exit, TypeOK
  <2>. QED
    BY <1>0, <2>1, <2>2 DEF TypeOK, Busy
<1>. QED
  BY <1>1, <1>2, <1>3, <1>4, <1>5, <1>6, <1>7, <1>8, <1>9 DEF Next, MainStep, ThreadStep

\* A step of the main program outside Run and AppendThread, or of a thread
\* that lives on or was gone, leaves created_list right.
LEMMA ListedSame ==
  ASSUME Listed, Live' = Live, created' = created, main # "append", main' # "append"
  PROVE  Listed'
BY DEF Listed, Distinct

LEMMA ListedKept ==
  ASSUME JInv, KInv, [Next]_vars
  PROVE  Listed'
<1>. USE DEF Goes, threadVars, mainVars
<1>0. TypeOK /\ Listed /\ DOMAIN created = 1 .. Len(created)
  BY DEF KInv, TypeOK
<1>1. CASE UNCHANGED vars
  BY <1>0, <1>1 DEF vars, Listed, Live, Distinct
<1>2. CASE Run
  <2>1. main = "run" /\ created' = created
    BY <1>2 DEF Run
  <2>2. CASE MayStart
    <3>1. n' = n + 1 /\ main' = "append" /\ pc' = [pc EXCEPT ![n + 1] = "get"]
      BY <1>2, <2>2 DEF Run
    <3>2. n + 1 \in Thread /\ pc[n + 1] = "unborn"
      BY <2>1, <2>2, MaxNumAssumption
         DEF MayStart, JInv, Types, Unterminated, Running, Started, Thread
    <3>3. Live' = Live \cup {n'} /\ n' \notin Live
      BY <1>0, <3>1, <3>2 DEF TypeOK, Live
    <3>. QED
      BY <1>0, <2>1, <3>1, <3>3 DEF Listed, Distinct
  <2>3. CASE ~MayStart
    <3>1. main' = "put" /\ Live' = Live
      BY <1>2, <2>3 DEF Run, Live
    <3>. QED
      BY <1>0, <2>1, <3>1, ListedSame
  <2>. QED
    BY <2>2, <2>3
<1>3. CASE AppendThread
  <2>1. /\ main = "append" /\ main' = "put" /\ created' = Append(created, n)
        /\ Live' = Live /\ n \in Live /\ n \in Thread /\ n \notin ToSet(created)
    BY <1>0, <1>3 DEF AppendThread, Listed, Live
  <2>2. Len(created) = n - 1 /\ n <= MaxNum
    BY <2>1 DEF JInv, Unterminated, Running, Started, Thread
  <2>3. /\ Len(created') = Len(created) + 1 /\ DOMAIN created' = 1 .. Len(created) + 1
        /\ created'[Len(created) + 1] = n
        /\ \A i \in 1 .. Len(created) : created'[i] = created[i]
        /\ Len(created) \in Nat
    BY <1>0, <2>1 DEF TypeOK
  <2>4. Distinct(created')
    <3>1. ASSUME NEW i \in DOMAIN created', NEW j \in DOMAIN created', created'[i] = created'[j]
          PROVE  i = j
      BY <1>0, <2>1, <2>3, <3>1 DEF Listed, Distinct, ToSet
    <3>. QED
      BY <3>1 DEF Distinct
  <2>5. ToSet(created') = ToSet(created) \cup {n}
    <3>1. \A i \in DOMAIN created' : created'[i] \in ToSet(created) \cup {n}
      BY <1>0, <2>3 DEF ToSet
    <3>2. n \in ToSet(created') /\ \A i \in DOMAIN created : created[i] \in ToSet(created')
      BY <1>0, <2>3 DEF ToSet
    <3>. QED
      BY <3>1, <3>2 DEF ToSet
  <2>6. Len(created') <= MaxNum
    BY <1>0, <2>1, <2>2, <2>3 DEF Thread, TypeOK
  <2>. QED
    BY <1>0, <2>1, <2>4, <2>5, <2>6 DEF Listed
<1>4. CASE \/ PutTask \/ Close \/ PutTerminator \/ StartJoin \/ JoinNext \/ JoinThread
          \/ JoinEnds \/ Terminate \/ Flood \/ Clear
  <2>1. main # "append" /\ main' # "append" /\ created' = created /\ pc' = pc
    BY <1>4 DEF PutTask, Close, PutTerminator, StartJoin, JoinNext, JoinThread, JoinEnds,
                Terminate, Flood, Clear
  <2>. QED
    BY <1>0, <2>1, ListedSame DEF Live
<1>5. ASSUME NEW t \in Thread, Get(t) \/ CallTask(t) \/ TestTerminal(t) \/ Exit(t) PROVE Listed'
  <2>1. main' = main /\ n' = n /\ created' = created
    BY <1>5 DEF Get, CallTask, TestTerminal, Exit, Step
  <2>2. Live' = Live
    BY <1>0, <1>5 DEF Get, CallTask, TestTerminal, Exit, Step, Live, TypeOK
  <2>. QED
    BY <1>0, <2>1, <2>2 DEF Listed, Distinct
<1>6. ASSUME NEW t \in Thread, RemoveSelf(t) PROVE Listed'
  <2>1. /\ pc[t] = "remove" /\ pc' = [pc EXCEPT ![t] = "ending"] /\ main' = main
        /\ created' = RemoveFirst(created, t)
    BY <1>6 DEF RemoveSelf, Step, Leaves
  <2>2. main # "append"
    BY <2>1 DEF JInv, Unterminated, Running, Started, Leaving
  <2>3. t \in Live /\ Live' = Live \ {t}
    BY <1>0, <2>1 DEF Live, TypeOK
  <2>4. t \in ToSet(created)
    BY <1>0, <2>2, <2>3 DEF Listed
  <2>5. /\ Len(created') = Len(created) - 1 /\ Distinct(created')
        /\ ToSet(created') = ToSet(created) \ {t}
    BY <1>0, <2>1, <2>4, RemoveDistinct DEF Listed, TypeOK
  <2>6. Len(created') <= MaxNum
    BY <1>0, <2>5, MaxNumAssumption DEF Listed, TypeOK
  <2>. QED
    BY <1>0, <2>1, <2>2, <2>3, <2>5, <2>6 DEF Listed
<1>. QED
  BY <1>1, <1>2, <1>3, <1>4, <1>5, <1>6 DEF Next, MainStep, ThreadStep

\* Thread and the positions of executed are finite, so are their parts.
LEMMA FinitePlaces ==
  ASSUME TypeOK, NEW i
  PROVE  /\ IsFiniteSet(Hands(i)) /\ Cardinality(Hands(i)) \in Nat
         /\ IsFiniteSet(Ran(i)) /\ Cardinality(Ran(i)) \in Nat
<1>1. IsFiniteSet(Thread)
  BY MaxNumAssumption, FS_Interval DEF Thread
<1>2. Len(executed) \in Nat /\ DOMAIN executed = 1 .. Len(executed)
  BY DEF TypeOK
<1>3. IsFiniteSet(DOMAIN executed)
  BY <1>2, FS_Interval
<1>. QED
  BY <1>1, <1>3, FS_Subset, FS_CardinalityType DEF Hands, Ran

\* What is in hand or done stays so when nothing is taken or done.
LEMMA OneEachSame ==
  ASSUME NEW m, OneEach(m), UNCHANGED <<put, q, event, executed>>
  PROVE  OneEach(m)'
BY DEF OneEach, Hands, Ran

\* While there are tasks to put there is no terminator, so the tasks not
\* taken are all of the queue.
LEMMA PutOneEach ==
  ASSUME JInv, KInv, PutTask
  PROVE  \E m \in 0 .. put' : OneEach(m)'
<1>1. /\ main = "put" /\ put' = put + 1 /\ q' = Append(q, put + 1)
      /\ UNCHANGED <<event, executed>> /\ TypeOK /\ put \in Nat /\ Tasks \in Nat
      /\ \A i \in 1 .. Len(q) : q[i] # StopEvent
  BY TasksAssumption
     DEF PutTask, Goes, threadVars, KInv, TypeOK, JInv, Unterminated, Running, Started
<1>2. PICK m \in 0 .. put : OneEach(m)
  BY <1>1 DEF KInv
<1>3. /\ Len(q') = Len(q) + 1 /\ Len(q) \in Nat /\ q'[Len(q) + 1] = put + 1
      /\ \A i \in 1 .. Len(q) : q'[i] = q[i]
  BY <1>1 DEF TypeOK
<1>4. Len(q) = put - m
  <2>1. put - m \in Nat /\ put - m <= Len(q)
    BY <1>1, <1>2, <1>3 DEF OneEach
  <2>2. Len(q) > put - m => q[Len(q)] = StopEvent /\ q[Len(q)] # StopEvent
    BY <1>1, <1>2, <1>3, <2>1 DEF OneEach
  <2>. QED
    BY <1>3, <2>1, <2>2
<1>5. put' - m = Len(q') /\ Len(q') = Len(q) + 1
  BY <1>1, <1>2, <1>3, <1>4
<1>6. ASSUME NEW i \in 1 .. Len(q) + 1 PROVE q'[i] = m + i
  <2>1. CASE i = Len(q) + 1
    BY <1>1, <1>2, <1>3, <1>4, <2>1
  <2>2. CASE i # Len(q) + 1
    <3>1. i \in 1 .. Len(q) /\ i \in 1 .. put - m
      BY <1>3, <1>4, <2>2
    <3>. QED
      BY <1>2, <1>3, <3>1 DEF OneEach
  <2>. QED
    BY <2>1, <2>2
<1>7. OneEach(m)'
  <2>1. /\ \A i \in 1 .. put' - m : i <= Len(q') /\ q'[i] = m + i
        /\ \A i \in 1 .. Len(q') : i > put' - m => q'[i] = StopEvent
    BY <1>3, <1>5, <1>6
  <2>. QED
    BY <1>1, <1>2, <2>1 DEF OneEach, Hands, Ran
<1>. QED
  BY <1>1, <1>2, <1>7

\* A terminator goes behind the tasks.
LEMMA TerminatorOneEach ==
  ASSUME KInv, main # "terminated", PutTerminator \/ Flood
  PROVE  \E m \in 0 .. put' : OneEach(m)'
<1>1. q' = Append(q, StopEvent) /\ UNCHANGED <<put, event, executed>> /\ TypeOK
  BY DEF PutTerminator, Flood, Goes, threadVars, Enqueue, KInv
<1>2. PICK m \in 0 .. put : OneEach(m)
  BY DEF KInv
<1>3. /\ Len(q') = Len(q) + 1 /\ Len(q) \in Nat /\ q'[Len(q) + 1] = StopEvent
      /\ \A i \in 1 .. Len(q) : q'[i] = q[i]
  BY <1>1, TasksAssumption DEF TypeOK, StopEvent
<1>4. put \in Nat /\ put - m \in Nat
  BY <1>1, <1>2, TasksAssumption DEF TypeOK
<1>5. \A i \in 1 .. put - m : i <= Len(q') /\ q'[i] = m + i
  BY <1>2, <1>3, <1>4 DEF OneEach
<1>6. \A i \in 1 .. Len(q') : i > put - m => q'[i] = StopEvent
  BY <1>2, <1>3, <1>4 DEF OneEach
<1>7. OneEach(m)'
  BY <1>1, <1>2, <1>5, <1>6 DEF OneEach, Hands, Ran
<1>. QED
  BY <1>1, <1>2, <1>7

\* get: the task leaves the queue for the thread's hands.
LEMMA GetOneEach ==
  ASSUME KInv, main # "terminated", NEW t \in Thread, Get(t)
  PROVE  \E m \in 0 .. put' : OneEach(m)'
<1>1. /\ q # <<>> /\ q' = Tail(q) /\ event' = [event EXCEPT ![t] = Head(q)]
      /\ pc[t] = "get" /\ UNCHANGED <<main, put, executed>> /\ TypeOK /\ Busy
  BY DEF Get, Step, mainVars, Rest, KInv
<1>2. PICK m \in 0 .. put : OneEach(m)
  BY DEF KInv
<1>3. event[t] = StopEvent /\ put \in Nat /\ put <= Tasks /\ Tasks \in Nat
  BY <1>1, TasksAssumption DEF Busy, TypeOK
<1>4. CASE Head(q) = StopEvent
  <2>1. m = put
    BY <1>1, <1>2, <1>3, <1>4, FirstOfQueue DEF OneEach, StopEvent
  <2>2. event' = event
    BY <1>1, <1>3, <1>4 DEF TypeOK
  <2>3. \A i \in 1 .. Len(q') : q'[i] = StopEvent
    BY <1>1, <1>2, <1>3, <2>1, FirstOfQueue DEF OneEach
  <2>4. OneEach(put)'
    BY <1>1, <1>2, <1>3, <2>1, <2>2, <2>3 DEF OneEach, Hands, Ran
  <2>. QED
    BY <1>1, <1>3, <2>4
<1>5. CASE Head(q) # StopEvent
  <2>1. m < put /\ Head(q) = m + 1
    BY <1>1, <1>2, <1>3, <1>5, FirstOfQueue DEF OneEach
  <2>2. m + 1 \in 1 .. Tasks /\ m \in Nat
    BY <1>2, <1>3, <2>1
  <2>3. ASSUME NEW i \in 1 .. Tasks
        PROVE  Cardinality(Hands(i)') + Cardinality(Ran(i)') = IF i <= m + 1 THEN 1 ELSE 0
    <3>1. /\ Cardinality(Hands(i)) + Cardinality(Ran(i)) = IF i <= m THEN 1 ELSE 0
          /\ Ran(i)' = Ran(i)
      BY <1>1, <1>2 DEF OneEach, Ran
    <3>2. CASE i = m + 1
      <4>1. Hands(i)' = Hands(i) \cup {t} /\ t \notin Hands(i)
        BY <1>1, <1>3, <2>1, <2>2, <3>2 DEF Hands, TypeOK, StopEvent
      <4>2. Cardinality(Hands(i)') = Cardinality(Hands(i)) + 1
        BY <1>1, <4>1, FinitePlaces, FS_AddElement
      <4>. QED
        BY <1>1, <2>2, <3>1, <3>2, <4>2, FinitePlaces
    <3>3. CASE i # m + 1
      <4>1. Hands(i)' = Hands(i)
        BY <1>1, <1>3, <2>1, <3>3 DEF Hands, TypeOK, StopEvent
      <4>2. i <= m <=> i <= m + 1
        BY <2>2, <3>3
      <4>. QED
        BY <3>1, <4>1, <4>2
    <3>. QED
      BY <3>2, <3>3
  <2>4. ASSUME NEW i \in 1 .. put - (m + 1) PROVE i <= Len(q') /\ q'[i] = (m + 1) + i
    <3>1. i + 1 \in 1 .. put - m /\ i \in Nat
      BY <1>2, <1>3
    <3>2. i + 1 <= Len(q) /\ q[i + 1] = m + (i + 1)
      BY <1>2, <3>1 DEF OneEach
    <3>. QED
      BY <1>1, <1>2, <3>1, <3>2, FirstOfQueue
  <2>5. ASSUME NEW i \in 1 .. Len(q'), i > put - (m + 1) PROVE q'[i] = StopEvent
    <3>1. /\ i + 1 \in 1 .. Len(q) /\ i + 1 > put - m /\ q'[i] = q[i + 1]
      BY <1>1, <1>2, <1>3, <2>5, FirstOfQueue
    <3>. QED
      BY <1>2, <3>1 DEF OneEach
  <2>6. OneEach(m + 1)'
    BY <1>1, <2>3, <2>4, <2>5 DEF OneEach
  <2>7. m + 1 \in 0 .. put'
    BY <1>1, <1>3, <2>1, <2>2
  <2>. QED
    BY <2>6, <2>7
<1>. QED
  BY <1>4, <1>5

\* The task that was called leaves the thread's hands.
LEMMA CallOneEach ==
  ASSUME KInv, main # "terminated", NEW t \in Thread, CallTask(t)
  PROVE  \E m \in 0 .. put' : OneEach(m)'
<1>1. /\ pc[t] = "call" /\ executed' = Append(executed, event[t])
      /\ event' = [event EXCEPT ![t] = StopEvent]
      /\ UNCHANGED <<put, q>> /\ TypeOK /\ Busy
  BY DEF CallTask, Step, mainVars, KInv
<1>2. PICK m \in 0 .. put : OneEach(m)
  BY DEF KInv
<1>3. event[t] \in 1 .. Tasks /\ Tasks \in Nat
  BY <1>1, TasksAssumption DEF Busy, TypeOK, StopEvent
<1>4. /\ DOMAIN executed = 1 .. Len(executed) /\ Len(executed) \in Nat
      /\ DOMAIN executed' = 1 .. Len(executed) + 1
      /\ executed'[Len(executed) + 1] = event[t]
      /\ \A k \in 1 .. Len(executed) : executed'[k] = executed[k]
  BY <1>1, <1>3 DEF TypeOK
<1>5. ASSUME NEW i \in 1 .. Tasks
      PROVE  Cardinality(Hands(i)') + Cardinality(Ran(i)')
               = Cardinality(Hands(i)) + Cardinality(Ran(i))
  <2>1. CASE i = event[t]
    <3>1. Hands(i)' = Hands(i) \ {t} /\ t \in Hands(i)
      BY <1>1, <1>3, <2>1 DEF Hands, TypeOK, StopEvent
    <3>2. Ran(i)' = Ran(i) \cup {Len(executed) + 1} /\ Len(executed) + 1 \notin Ran(i)
      BY <1>4, <2>1 DEF Ran
    <3>3. Cardinality(Hands(i)') = Cardinality(Hands(i)) - 1
      BY <1>1, <3>1, FinitePlaces, FS_RemoveElement
    <3>4. Cardinality(Ran(i)') = Cardinality(Ran(i)) + 1
      BY <1>1, <3>2, FinitePlaces, FS_AddElement
    <3>. QED
      BY <1>1, <3>3, <3>4, FinitePlaces
  <2>2. CASE i # event[t]
    <3>1. Hands(i)' = Hands(i)
      BY <1>1, <2>2, TasksAssumption DEF Hands, TypeOK, StopEvent
    <3>2. Ran(i)' = Ran(i)
      BY <1>4, <2>2 DEF Ran
    <3>. QED
      BY <3>1, <3>2
  <2>. QED
    BY <2>1, <2>2
<1>6. OneEach(m)'
  BY <1>1, <1>2, <1>5 DEF OneEach
<1>. QED
  BY <1>1, <1>2, <1>6

LEMMA OneEachKept ==
  ASSUME JInv, KInv, [Next]_vars, main' # "terminated"
  PROVE  \E m \in 0 .. put' : OneEach(m)'
<1>. USE DEF Goes, threadVars, mainVars
<1>1. ASSUME UNCHANGED <<put, q, event, executed>>, main # "terminated"
      PROVE  \E m \in 0 .. put' : OneEach(m)'
  <2>1. PICK m \in 0 .. put : OneEach(m)
    BY <1>1 DEF KInv
  <2>2. OneEach(m)'
    BY <1>1, <2>1, OneEachSame
  <2>. QED
    BY <1>1, <2>1, <2>2
<1>2. CASE UNCHANGED vars
  BY <1>1, <1>2 DEF vars
<1>3. CASE Run \/ AppendThread \/ Close \/ StartJoin \/ JoinNext \/ JoinThread \/ JoinEnds \/ Terminate
  BY <1>1, <1>3 DEF Run, AppendThread, Close, StartJoin, JoinNext, JoinThread, JoinEnds, Terminate
<1>4. CASE PutTask
  BY <1>4, PutOneEach
<1>5. CASE PutTerminator \/ Flood
  BY <1>5, TerminatorOneEach DEF PutTerminator, Flood
<1>6. CASE Clear
  BY <1>6 DEF Clear
<1>7. ASSUME NEW t \in Thread, ThreadStep(t) PROVE \E m \in 0 .. put' : OneEach(m)'
  <2>1. main' = main
    BY <1>7 DEF ThreadStep, Get, CallTask, TestTerminal, RemoveSelf, Exit, Step
  <2>2. CASE Get(t)
    BY <2>1, <2>2, GetOneEach
  <2>3. CASE CallTask(t)
    BY <2>1, <2>3, CallOneEach
  <2>4. CASE TestTerminal(t) \/ RemoveSelf(t) \/ Exit(t)
    BY <1>1, <2>1, <2>4 DEF TestTerminal, RemoveSelf, Exit, Step
  <2>. QED
    BY <1>7, <2>2, <2>3, <2>4 DEF ThreadStep
<1>. QED
  BY <1>2, <1>3, <1>4, <1>5, <1>6, <1>7 DEF Next, MainStep

LEMMA PlacesCounted == KInv => OnePlace
<1>. SUFFICES ASSUME KInv PROVE OnePlace
  OBVIOUS
<1>1. AtMostOneMore /\ CreatedAreLive
  BY DEF KInv, Busy, Listed, Live, AtMostOneMore, CreatedAreLive
<1>2. ASSUME main # "terminated", NEW i \in 1 .. put PROVE Places(i) = 1
  <2>1. PICK m \in 0 .. put : OneEach(m)
    BY <1>2 DEF KInv
  <2>2. /\ put \in Nat /\ i \in 1 .. Tasks /\ i \in Nat /\ m \in Nat
        /\ q \in Seq(0 .. Tasks) /\ TypeOK
    BY TasksAssumption DEF KInv, TypeOK
  <2>. DEFINE Queued == {k \in DOMAIN q : q[k] = i}
  <2>3. Cardinality(Queued) = IF i <= m THEN 0 ELSE 1
    <3>1. DOMAIN q = 1 .. Len(q) /\ Len(q) \in Nat
      BY <2>2
    <3>2. \A k \in 1 .. Len(q) : IF k <= put - m THEN q[k] = m + k ELSE q[k] = 0
      BY <2>1, <2>2, <3>1 DEF OneEach, StopEvent
    <3>3. CASE i <= m
      <4>1. Queued = {}
        BY <2>2, <3>1, <3>2, <3>3
      <4>. QED
        BY <3>3, <4>1, FS_EmptySet
    <3>4. CASE ~(i <= m)
      <4>1. i - m \in 1 .. put - m
        BY <2>2, <3>4
      <4>2. i - m <= Len(q) /\ q[i - m] = i
        BY <2>1, <2>2, <4>1 DEF OneEach
      <4>3. Queued = {i - m}
        <5>1. ASSUME NEW k \in 1 .. Len(q), q[k] = i PROVE k = i - m
          BY <2>2, <3>1, <3>2, <5>1
        <5>2. i - m \in 1 .. Len(q)
          BY <2>2, <3>1, <4>1, <4>2
        <5>. QED
          BY <3>1, <4>2, <5>1, <5>2
      <4>. QED
        BY <3>4, <4>3, FS_Singleton
    <3>. QED
      BY <3>3, <3>4
  <2>4. Cardinality(Hands(i)) + Cardinality(Ran(i)) = IF i <= m THEN 1 ELSE 0
    BY <2>1, <2>2 DEF OneEach
  <2>5. Places(i) = Cardinality(Queued) + Cardinality(Hands(i)) + Cardinality(Ran(i))
    BY DEF Places, Hands, Ran
  <2>. QED
    BY <2>2, <2>3, <2>4, <2>5, FinitePlaces
<1>. QED
  BY <1>1, <1>2 DEF KInv, OnePlace

\* However the main program ends, until it clears the queue every task put is
\* in the queue, in one thread's hands or executed, once and in one of them;
\* a thread takes at most one more task after terminate(), and created_list
\* holds exactly the threads that have not begun to stop.
THEOREM TasksInOnePlace == Spec => []OnePlace
<1>1. Init => JInv /\ KInv
  BY InitJInv, InitKInv
<1>2. JInv /\ KInv /\ [Next]_vars => JInv' /\ KInv'
  <2>. SUFFICES ASSUME JInv, KInv, [Next]_vars PROVE JInv' /\ KInv'
    OBVIOUS
  <2>1. JInv' /\ TypeOK' /\ Busy' /\ Listed'
    BY JKept, TypesKept, ListedKept
  <2>2. main' # "terminated" => \E m \in 0 .. put' : OneEach(m)'
    BY OneEachKept
  <2>. QED
    BY <2>1, <2>2 DEF KInv
<1>. QED
  BY <1>1, <1>2, PlacesCounted, PTL DEF Spec
=============================================================================
