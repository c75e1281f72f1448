---------------------------- MODULE PyThreadPool ----------------------------
(***************************************************************************)
(* ThreadPool of scripts/python/threadpool.py: threads are started on      *)
(* demand, tasks and terminators share one queue, and a thread that takes  *)
(* a terminator removes itself from created_list.  The main program runs   *)
(* some tasks and then either closes and joins the pool, as the script     *)
(* does, or terminates it.                                                 *)
(*                                                                         *)
(* A task is its number; the terminator StopEvent is 0, as in the code.    *)
(* What a task does, whether it raises and its callback change nothing in  *)
(* the pool.                                                               *)
(***************************************************************************)
EXTENDS Naturals, Sequences, FiniteSets, SequencesExt

CONSTANTS
    MaxNum,     \* max_num
    Tasks,      \* how many tasks the main program runs
    MaxQueue    \* bound of the model on terminate's busy loop

ASSUME MaxNumAssumption == MaxNum \in Nat \ {0}
ASSUME TasksAssumption  == Tasks \in Nat
ASSUME MaxQueueAssumption == MaxQueue \in Nat \ {0}

Thread == 1 .. MaxNum
StopEvent == 0

VARIABLES
    main,       \* where the main program is
    put,        \* how many tasks it has put
    n,          \* its loop variable: threads started, terminators left, or
                \* the position of the iteration over created_list
    target,     \* the thread join waits for, 0 when none
    q,          \* self.q
    created,    \* self.created_list
    terminal,   \* self.terminal
    pc,         \* pc[t]: where thread t is
    event,      \* event[t]: its local `event'
    executed,   \* the tasks run to their end, in order
    late        \* late[t]: tasks t took after terminal was set

vars == <<main, put, n, target, q, created, terminal, pc, event, executed, late>>

MainLabels == {"run", "append", "put", "close", "join", "wait", "joined",
               "terminate", "terminated"}

TypeOK ==
    /\ main \in MainLabels
    /\ put \in 0 .. Tasks
    /\ n \in Nat
    /\ target \in 0 .. MaxNum
    /\ q \in Seq(0 .. Tasks)
    /\ created \in Seq(Thread)
    /\ terminal \in BOOLEAN
    /\ pc \in [Thread -> {"unborn", "get", "call", "test", "remove", "ending", "exited"}]
    /\ event \in [Thread -> 0 .. Tasks]
    /\ executed \in Seq(1 .. Tasks)
    /\ late \in [Thread -> Nat]

Init ==
    /\ main = "run"
    /\ put = 0
    /\ n = 0
    /\ target = 0
    /\ q = <<>>
    /\ created = <<>>
    /\ terminal = FALSE
    /\ pc = [t \in Thread |-> "unborn"]
    /\ event = [t \in Thread |-> StopEvent]
    /\ executed = <<>>
    /\ late = [t \in Thread |-> 0]

threadVars == <<pc, event, executed, late>>
mainVars   == <<main, put, n, target, terminal>>

\* The main program goes on from one place to another.
Goes(from, to) == main = from /\ main' = to /\ UNCHANGED threadVars

\* Thread t goes on from one place to another.
Step(t, from, to) == pc[t] = from /\ pc' = [pc EXCEPT ![t] = to] /\ UNCHANGED mainVars

-----------------------------------------------------------------------------
(* run: start a thread while there are fewer than max_num, put the task.    *)
(* The thread runs before it is in created_list.                            *)
MayStart == Len(created) < MaxNum

Run == /\ main = "run" /\ put < Tasks
       /\ IF MayStart
          THEN /\ n' = n + 1 /\ main' = "append"
               /\ pc' = [pc EXCEPT ![n + 1] = "get"]
          ELSE main' = "put" /\ UNCHANGED <<n, pc>>
       /\ UNCHANGED <<put, target, q, created, terminal, event, executed, late>>

AppendThread == /\ Goes("append", "put")
                /\ created' = Append(created, n)
                /\ UNCHANGED <<put, n, target, q, terminal>>

PutTask == /\ Goes("put", "run")
           /\ put' = put + 1 /\ q' = Append(q, put + 1)
           /\ UNCHANGED <<n, target, created, terminal>>

(* close: as many terminators as threads were created; then join. *)
Terminators_AllButOne == IF Len(created) = 0 THEN 0 ELSE Len(created) - 1
Terminators == Len(created)

\* Where a terminator goes
Enqueue_First(s) == <<StopEvent>> \o s
Enqueue(s) == Append(s, StopEvent)

Close == /\ Goes("run", "close") /\ put = Tasks
         /\ n' = Terminators
         /\ UNCHANGED <<put, target, q, created, terminal>>

PutTerminator == /\ Goes("close", "close") /\ n > 0
                 /\ n' = n - 1 /\ q' = Enqueue(q)
                 /\ UNCHANGED <<put, target, created, terminal>>

StartJoin == Goes("close", "join") /\ n = 0 /\ UNCHANGED <<put, n, target, q, created, terminal>>

\* join iterates over created_list by position, while threads leave it.
JoinNext == /\ Goes("join", "wait") /\ n < Len(created)
            /\ n' = n + 1 /\ target' = created[n + 1]
            /\ UNCHANGED <<put, q, created, terminal>>

JoinThread == /\ Goes("wait", "join") /\ pc[target] = "exited"
              /\ target' = 0
              /\ UNCHANGED <<put, n, q, created, terminal>>

JoinEnds == /\ Goes("join", "joined") /\ n >= Len(created)
            /\ UNCHANGED <<put, n, target, q, created, terminal>>

(* terminate: puts terminators as fast as it can until created_list is      *)
(* empty, then clears the queue.                                            *)
Terminate == /\ Goes("run", "terminate") /\ put = Tasks
             /\ terminal' = TRUE
             /\ UNCHANGED <<put, n, target, q, created>>

Flood == /\ Goes("terminate", "terminate") /\ created # <<>> /\ Len(q) < MaxQueue
         /\ q' = Enqueue(q)
         /\ UNCHANGED <<put, n, target, created, terminal>>

Clear == /\ Goes("terminate", "terminated") /\ created = <<>>
         /\ q' = <<>>
         /\ UNCHANGED <<put, n, target, created, terminal>>

-----------------------------------------------------------------------------
(* call: one thread *)

\* What get() leaves in the queue
Rest_All(s) == s
Rest(s) == Tail(s)

Get(t) == /\ q # <<>>
          /\ Step(t, "get", IF Head(q) = StopEvent THEN "remove" ELSE "call")
          /\ q' = Rest(q) /\ event' = [event EXCEPT ![t] = Head(q)]
          /\ late' = [late EXCEPT ![t] = IF terminal /\ Head(q) # StopEvent THEN @ + 1 ELSE @]
          /\ UNCHANGED <<created, executed>>

CallTask(t) == /\ Step(t, "call", "test")
               /\ executed' = Append(executed, event[t])
               /\ event' = [event EXCEPT ![t] = StopEvent]
               /\ UNCHANGED <<q, created, late>>

\* After a task the thread stops if the pool was terminated.
Stops == terminal

TestTerminal(t) == /\ Step(t, "test", IF Stops THEN "remove" ELSE "get")
                   /\ UNCHANGED <<q, created, event, executed, late>>

Leaves_Stays(t) == created
Leaves(t) == RemoveFirst(created, t)

RemoveSelf(t) == /\ Step(t, "remove", "ending")
                 /\ created' = Leaves(t)
                 /\ UNCHANGED <<q, event, executed, late>>

Exit(t) == Step(t, "ending", "exited") /\ UNCHANGED <<q, created, event, executed, late>>

ThreadStep(t) == Get(t) \/ CallTask(t) \/ TestTerminal(t) \/ RemoveSelf(t) \/ Exit(t)

MainStep == \/ Run \/ AppendThread \/ PutTask
            \/ Close \/ PutTerminator \/ StartJoin
            \/ JoinNext \/ JoinThread \/ JoinEnds
            \/ Terminate \/ Flood \/ Clear

Next == MainStep \/ \E t \in Thread : ThreadStep(t)

Spec == Init /\ [][Next]_vars

\* The interpreter schedules the main program and every thread.
FairSpec == Spec /\ WF_vars(MainStep) /\ \A t \in Thread : WF_vars(ThreadStep(t))

-----------------------------------------------------------------------------
(* Properties *)

Stopped == \A t \in Thread : pc[t] \in {"unborn", "exited"}

Places(i) == Cardinality({k \in DOMAIN q : q[k] = i})
               + Cardinality({t \in Thread : event[t] = i})
               + Cardinality({k \in DOMAIN executed : executed[k] = i})

\* After close() the threads leave no task behind: once they have all
\* stopped, every task was executed.
ClosedMeansDone ==
    main \in {"join", "wait", "joined"} /\ Stopped => Len(executed) = Tasks

\* terminate() stops a thread after at most one more task.
AtMostOneMore == \A t \in Thread : late[t] <= 1

\* created_list never grows past max_num, and between runs holds exactly the
\* threads that have not begun to stop.
CreatedAreLive ==
    /\ Len(created) <= MaxNum
    /\ main # "append" =>
         ToSet(created) = {t \in Thread : pc[t] \in {"get", "call", "test", "remove"}}

\* Until terminate() clears the queue, every task put is in exactly one
\* place: in the queue, in the hands of one thread, or executed.  The pool's
\* list of threads and what they do after terminate() is as said above.
OnePlace == /\ TypeOK /\ AtMostOneMore /\ CreatedAreLive
            /\ main # "terminated" => \A i \in 1 .. put : Places(i) = 1

\* close(): all threads stop.
CloseStops == main = "close" ~> Stopped

\* terminate() returns although it waits for every thread to stop.
TerminateReturns == main = "terminate" ~> main = "terminated"

\* join() returns only when every thread has stopped.
JoinWaits == main = "joined" => Stopped

=============================================================================
