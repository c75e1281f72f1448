----------------------------- MODULE WorkerPool -----------------------------
(***************************************************************************)
(* ThreadPool and ThreadSafeQueue of c++/utils/cache/thread_pool.h, used   *)
(* the way threadsafe_list_test.cc uses them: one owner constructs the     *)
(* pool, submitters submit, the owner joins them, polls Empty() until it   *)
(* is true, and destroys the pool.  That test always polls; an owner that  *)
(* does not is admitted too, since ~ThreadPool asks for nothing of it.     *)
(*                                                                         *)
(* Worker i is the only thread that waits on queue i.  It holds the mutex  *)
(* of its queue at labels "block" and "pop"; Push and Empty need it free.  *)
(* Close takes no mutex, so it may fall between the worker's test of the   *)
(* condition and the moment it blocks.                                     *)
(*                                                                         *)
(* Submit seeds a fresh default_random_engine on every call and therefore  *)
(* draws the same queue, Index, each time.  It draws from 0 to thread_count *)
(* inclusive (thread_pool.h:87), so that a library whose first draw is     *)
(* thread_count makes it push to no queue, which is undefined behaviour.   *)
(* That is left out by IndexAssumption: the first draw of libstdc++ is 0   *)
(* for any number of threads below 127,773.                                *)
(***************************************************************************)
EXTENDS Naturals, Sequences, SequencesExt

CONSTANTS
    N,          \* thread_count
    Index,      \* the queue every Submit draws
    Submitter,  \* the threads that submit
    Load        \* how many tasks each of them submits

ASSUME NAssumption     == N \in Nat \ {0}
ASSUME IndexAssumption == Index \in 0 .. N - 1
ASSUME LoadAssumption  == Load \in Nat

Worker == 0 .. N - 1
Task   == Submitter \X (1 .. Load)

VARIABLES
    owner,      \* where the owner is
    pos,        \* the index of the owner's current loop over threads or queues
    busy,       \* Empty()'s local `ret' is not 0
    drained,    \* Empty() returned true
    done,       \* done_
    queue,      \* queue[i]: data_queue_
    running,    \* running[i]: running_
    wpc,        \* wpc[i]: where worker i is
    task,       \* task[i]: the task worker i took, as a sequence of at most one
    sent,       \* sent[s]: how many tasks s has submitted
    pushed,     \* every task pushed so far, in order
    executed    \* every task run to its end so far, in order

vars == <<owner, pos, busy, drained, done, queue, running, wpc, task,
          sent, pushed, executed>>

Hand == {<<>>} \cup {<<t>> : t \in Task}

OwnerLabels  == {"create", "unwind", "threw", "open", "scan",
                 "setDone", "close", "notify", "join", "gone"}
WorkerLabels == {"unborn", "loop", "lock", "block", "waiting", "pop", "run", "exited"}

TypeOK ==
    /\ owner \in OwnerLabels
    /\ pos \in 0 .. N
    /\ busy \in BOOLEAN /\ drained \in BOOLEAN /\ done \in BOOLEAN
    /\ queue \in [Worker -> Seq(Task)]
    /\ running \in [Worker -> BOOLEAN]
    /\ wpc \in [Worker -> WorkerLabels]
    /\ task \in [Worker -> Hand]
    /\ sent \in [Submitter -> 0 .. Load]
    /\ pushed \in Seq(Task) /\ executed \in Seq(Task)

Init ==
    /\ owner = "create"
    /\ pos = 0
    /\ busy = FALSE /\ drained = FALSE /\ done = FALSE
    /\ queue = [i \in Worker |-> <<>>]
    /\ running = [i \in Worker |-> TRUE]
    /\ wpc = [i \in Worker |-> "unborn"]
    /\ task = [i \in Worker |-> <<>>]
    /\ sent = [s \in Submitter |-> 0]
    /\ pushed = <<>> /\ executed = <<>>

ownerVars  == <<owner, pos, busy, drained, done>>
clientVars == <<sent, pushed>>
poolVars   == <<queue, running, wpc, task, executed, sent, pushed>>

Locked(i) == wpc[i] \in {"block", "pop"}

\* notify_one and notify_all are the same for the one thread that may wait.
Notified_Nobody(i) == wpc
Notified(i) == IF wpc[i] = "waiting" THEN [wpc EXCEPT ![i] = "lock"] ELSE wpc

-----------------------------------------------------------------------------
\* The owner goes on from one place to the next and touches no worker.
OwnerGoes(from, to) == owner = from /\ owner' = to /\ UNCHANGED poolVars

(* The constructor starts the threads; when one cannot be started it sets   *)
(* done_ and throws, and the joiner joins the ones that were started.       *)
StartThread ==
    /\ owner = "create"
    /\ pos' = pos + 1
    /\ wpc' = [wpc EXCEPT ![pos] = "loop"]
    /\ owner' = IF pos' = N THEN "open" ELSE owner
    /\ UNCHANGED <<busy, drained, done, queue, running, task, executed, clientVars>>

StartFails == OwnerGoes("create", "unwind") /\ done' = TRUE /\ UNCHANGED <<pos, busy, drained>>

Joined == \A i \in Worker : wpc[i] \in {"unborn", "exited"}

Throw == OwnerGoes("unwind", "threw") /\ Joined /\ UNCHANGED <<pos, busy, drained, done>>

(* Submit, called by s in a loop over its tasks *)
HasMore(s) == sent[s] < Load

Submit(s) ==
    /\ owner = "open" /\ HasMore(s) /\ ~Locked(Index)
    /\ sent' = [sent EXCEPT ![s] = @ + 1]
    /\ queue' = [queue EXCEPT ![Index] = Append(@, <<s, sent'[s]>>)]
    /\ pushed' = Append(pushed, <<s, sent'[s]>>)
    /\ wpc' = Notified(Index)
    /\ UNCHANGED <<ownerVars, running, task, executed>>

Submitted == \A s \in Submitter : sent[s] = Load

(* The owner has joined the submitters: it polls Empty() or destroys the    *)
(* pool as it is.                                                           *)
StartScan == /\ OwnerGoes("open", "scan") /\ Submitted
             /\ pos' = 0 /\ busy' = FALSE /\ UNCHANGED <<drained, done>>

SkipScan == OwnerGoes("open", "setDone") /\ Submitted /\ UNCHANGED <<pos, busy, drained, done>>

\* One queue's Empty() in the loop of ThreadPool::Empty
IsBusy_Idle(i) == FALSE
IsBusy(i) == queue[i] # <<>>

Scan == /\ OwnerGoes("scan", "scan") /\ pos < N /\ ~Locked(pos)
        /\ busy' = (busy \/ IsBusy(pos))
        /\ pos' = pos + 1
        /\ UNCHANGED <<drained, done>>

\* Empty() returns busy's negation, and while(!pool.Empty()) goes on.
ScanAgain == /\ OwnerGoes("scan", "scan") /\ pos = N /\ busy
             /\ pos' = 0 /\ busy' = FALSE /\ UNCHANGED <<drained, done>>

ScanEnds == /\ OwnerGoes("scan", "setDone") /\ pos = N /\ ~busy
            /\ drained' = TRUE /\ UNCHANGED <<pos, busy, done>>

(* ~ThreadPool: done_, then Close of every queue, then the joiner *)
SetDone == /\ OwnerGoes("setDone", "close")
           /\ done' = TRUE /\ pos' = 0 /\ UNCHANGED <<busy, drained>>

Close == /\ owner = "close" /\ owner' = "notify"
         /\ running' = [running EXCEPT ![pos] = FALSE]
         /\ UNCHANGED <<pos, busy, drained, done, queue, wpc, task, executed, clientVars>>

CloseNotifies ==
    /\ owner = "notify"
    /\ wpc' = Notified(pos)
    /\ pos' = pos + 1
    /\ owner' = IF pos' = N THEN "join" ELSE "close"
    /\ UNCHANGED <<busy, drained, done, queue, running, task, executed, clientVars>>

Join == OwnerGoes("join", "gone") /\ Joined /\ UNCHANGED <<pos, busy, drained, done>>

-----------------------------------------------------------------------------
(* Run(i): one worker *)
Goto(i, from, to) == wpc[i] = from /\ wpc' = [wpc EXCEPT ![i] = to]

\* A step that only takes the worker on.
Goes(i, from, to) == /\ Goto(i, from, to)
                     /\ UNCHANGED <<ownerVars, queue, running, task, executed, clientVars>>

LoopEnds_Never == FALSE
LoopEnds == done

TestDone(i) == Goes(i, "loop", IF LoopEnds THEN "exited" ELSE "lock")

\* WaitAndPop: the mutex is taken and the condition tested.
Ready_Always(i) == TRUE
Ready(i) == ~running[i] \/ queue[i] # <<>>

TestCondition(i) == Goes(i, "lock", IF Ready(i) THEN "pop" ELSE "block")

\* The worker blocks and releases the mutex in one step; it may wake without
\* a notification.
Block(i) == Goes(i, "block", "waiting")
SpuriousWakeup(i) == Goes(i, "waiting", "lock")

\* What pop() leaves in the queue
Rest_All(s) == s
Rest(s) == Tail(s)

\* running_ is read again; a closed queue yields the empty task.
TakeTask(i) ==
    /\ Goto(i, "pop", "run")
    /\ IF running[i]
       THEN /\ task' = [task EXCEPT ![i] = <<Head(queue[i])>>]
            /\ queue' = [queue EXCEPT ![i] = Rest(@)]
       ELSE UNCHANGED <<task, queue>>
    /\ UNCHANGED <<ownerVars, running, executed, clientVars>>

RunTask(i) ==
    /\ Goto(i, "run", "loop")
    /\ executed' = executed \o task[i]
    /\ task' = [task EXCEPT ![i] = <<>>]
    /\ UNCHANGED <<ownerVars, queue, running, clientVars>>

WorkerStep(i) == \/ TestDone(i) \/ TestCondition(i) \/ Block(i)
                 \/ TakeTask(i) \/ RunTask(i)

OwnerStep == \/ StartThread \/ StartFails \/ Throw
             \/ StartScan \/ SkipScan \/ Scan \/ ScanAgain \/ ScanEnds
             \/ SetDone \/ Close \/ CloseNotifies \/ Join

Next == \/ OwnerStep
        \/ \E s \in Submitter : Submit(s)
        \/ \E i \in Worker : WorkerStep(i) \/ SpuriousWakeup(i)

Spec == Init /\ [][Next]_vars

\* Every thread is scheduled: the owner, the workers and the submitters.
Fairness == /\ WF_vars(OwnerStep)
            /\ \A i \in Worker : WF_vars(WorkerStep(i))
            /\ \A s \in Submitter : WF_vars(Submit(s))

FairSpec == Spec /\ Fairness

-----------------------------------------------------------------------------
(* Properties *)

\* No task is lost, duplicated or overtaken: the tasks executed, the one in
\* hand and those still queued are, in this order, the tasks pushed.  Tasks a
\* closed pool never runs stay in the queue.
Accounted == executed \o task[Index] \o queue[Index] = pushed

\* When Empty() has been seen true after the last Submit, the destructor
\* returns only after every submitted task was executed.
DrainedMeansExecuted ==
    drained /\ owner = "gone" => executed = pushed /\ Submitted

\* WaitAndPop pops only a queue that holds a task, although it reads running_
\* again after the test that let it through, and Close takes no mutex.
PopNeverEmpty ==
    \A i \in Worker : wpc[i] = "pop" /\ running[i] => queue[i] # <<>>

\* A task that was submitted is executed unless the pool is shut down: Push
\* never loses the wakeup of its worker.
EveryTaskRuns ==
    \A t \in Task : t \in ToSet(pushed) ~> t \in ToSet(executed) \/ done

\* The joiner, in the destructor or in a constructor that failed, can hang only
\* because some worker blocked on a queue that nobody will notify any more.
HangsOnlyOnLostWakeup ==
    owner \in {"join", "unwind"} ~> \/ owner \in {"gone", "threw"}
                                    \/ \E i \in Worker : wpc[i] = "waiting"

=============================================================================
