----------------------------- MODULE ProcessPool -----------------------------
(***************************************************************************)
(* ThreadPool of scripts/python/processpool.py: processes that are started *)
(* on demand share one queue of tasks and StopEvents.  Threads of the      *)
(* parent call run; one of them closes the pool when no run is under way,  *)
(* and then joins it or uses it again.                                     *)
(*                                                                         *)
(* created_threads is written under self.lock only, by create_thread and   *)
(* by a process that stops, and `+= 1' and `-= 1' are one action each.     *)
(* self.terminal is False for ever.  A task is its place in `tasks';       *)
(* StopEvent is 0.                                                         *)
(***************************************************************************)
EXTENDS Naturals, Sequences, FiniteSets, SequencesExt

CONSTANTS
    Caller,     \* threads that call run
    MaxNum,     \* max_num
    MaxTasks,   \* bound of the model: calls of run
    MaxProc,    \* bound of the model: processes ever started
    MaxCloses   \* bound of the model: calls of close

ASSUME CallerAssumption == IsFiniteSet(Caller) /\ Caller # {}
ASSUME BoundsAssumption == {MaxNum, MaxTasks, MaxProc, MaxCloses} \subseteq Nat

Proc == 1 .. MaxProc
StopEvent == 0
Unbound == 0            \* no result yet
None == MaxTasks + 1    \* the result of a task that raised

\* event_type; DumpRequestEvent is a NormalEvent whose callback gets more.
EventType == {"GetRequest", "Predict", "Normal"}

VARIABLES
    pool,       \* "open", "closing", "closed", "joining" or "joined"
    closes,     \* how many times close has been called
    stops,      \* full_size of close
    at,         \* at[c]: where caller c is in run
    tasks,      \* the event_type of the tasks put, in order
    q,          \* self.q
    created,    \* self.created_threads
    started,    \* the length of self.created_process
    pc,         \* pc[p]: where process p is
    event,      \* event[p], result[p]: locals of call
    result,
    requests,   \* requests[p]: the length of its req_list
    done,       \* history: the tasks whose turn in a process is over
    answers     \* history: <<k, r>>: the callback of task k got r

parent == <<pool, closes, stops, at, tasks, started>>
worker == <<event, result, requests, done, answers>>
vars == <<parent, q, created, pc, worker>>

TypeOK ==
    /\ pool \in {"open", "closing", "closed", "joining", "joined"}
    /\ closes \in 0 .. MaxCloses /\ stops \in Nat /\ created \in Nat
    /\ at \in [Caller -> {"out", "create", "put"}]
    /\ tasks \in Seq(EventType) /\ q \in Seq(0 .. MaxTasks)
    /\ started \in 0 .. MaxProc
    /\ pc \in [Proc -> {"unborn", "client", "get", "call", "leave", "exited", "dead"}]
    /\ event \in [Proc -> 0 .. MaxTasks] /\ result \in [Proc -> 0 .. None]
    /\ requests \in [Proc -> 0 .. MaxTasks]
    /\ done \subseteq 1 .. MaxTasks
    /\ answers \subseteq (1 .. MaxTasks) \X (1 .. None)

Init == /\ pool = "open" /\ closes = 0 /\ stops = 0 /\ created = 0 /\ started = 0
        /\ at = [c \in Caller |-> "out"]
        /\ tasks = <<>> /\ q = <<>>
        /\ pc = [p \in Proc |-> "unborn"]
        /\ event = [p \in Proc |-> StopEvent] /\ result = [p \in Proc |-> Unbound]
        /\ requests = [p \in Proc |-> 0]
        /\ done = {} /\ answers = {}

-----------------------------------------------------------------------------
(* run: the test reads created_threads without the lock. *)
Idle == \A c \in Caller : at[c] = "out"

Moves(c, from, to) == at[c] = from /\ at' = [at EXCEPT ![c] = to]

MayCreate_OneTooMany == created <= MaxNum
MayCreate == created < MaxNum

Run(c) == /\ pool = "open" /\ Len(tasks) + Cardinality({d \in Caller : at[d] # "out"}) < MaxTasks
          /\ Moves(c, "out", IF MayCreate THEN "create" ELSE "put")
          /\ UNCHANGED <<pool, closes, stops, tasks, started, q, created, pc, worker>>

CreateThread(c) == /\ Moves(c, "create", "put") /\ started < MaxProc
                   /\ started' = started + 1 /\ created' = created + 1
                   /\ pc' = [pc EXCEPT ![started + 1] = "client"]
                   /\ UNCHANGED <<pool, closes, stops, tasks, q, worker>>

PutTask(c) == /\ Moves(c, "put", "out")
              /\ \E type \in EventType : tasks' = Append(tasks, type)
              /\ q' = Append(q, Len(tasks'))
              /\ UNCHANGED <<pool, closes, stops, started, created, pc, worker>>

(* close and join *)
Stops_AllButOne == IF created = 0 THEN 0 ELSE created - 1
Stops == created

Close == /\ pool = "open" /\ Idle /\ closes < MaxCloses
         /\ pool' = "closing" /\ closes' = closes + 1 /\ stops' = Stops
         /\ UNCHANGED <<at, tasks, started, q, created, pc, worker>>

PutStop == /\ pool = "closing" /\ stops > 0
           /\ stops' = stops - 1 /\ q' = Append(q, StopEvent)
           /\ UNCHANGED <<pool, closes, at, tasks, started, created, pc, worker>>

GoesOn(from, to) == /\ pool = from /\ pool' = to
                    /\ UNCHANGED <<closes, stops, at, tasks, started, q, created, pc, worker>>

Closed == stops = 0 /\ GoesOn("closing", "closed")
Reuse  == closes < MaxCloses /\ GoesOn("closed", "open")
Join   == GoesOn("closed", "joining")

Ended(p) == pc[p] \in {"exited", "dead"}
Joined_Any == started = 0 \/ \E p \in 1 .. started : Ended(p)
Joined == \A p \in 1 .. started : Ended(p)
JoinReturns == Joined /\ GoesOn("joining", "joined")

-----------------------------------------------------------------------------
(* call: one process *)
Goto(p, from, to) == pc[p] = from /\ pc' = [pc EXCEPT ![p] = to]

\* The constructor of NineNClient may raise, and the process ends.
Client(p) == /\ \E to \in {"get", "dead"} : Goto(p, "client", to)
             /\ UNCHANGED <<parent, q, created, worker>>

Get(p) == /\ q # <<>>
          /\ Goto(p, "get", IF Head(q) = StopEvent THEN "leave" ELSE "call")
          /\ q' = Tail(q) /\ event' = [event EXCEPT ![p] = Head(q)]
          /\ UNCHANGED <<parent, created, result, requests, done, answers>>

\* `result' after a task that did not raise: Predict does not assign it.
ResultOf_OtherBranch(p, k) == IF tasks[k] = "Predict" THEN k ELSE result[p]
ResultOf(p, k) == IF tasks[k] = "Predict" THEN result[p] ELSE k

\* The task and its callback, if it has one.  Predict calls nothing while
\* req_list is empty; the callback of GetRequest is what fills it.  A callback
\* that raises, or whose argument is unbound, is reported and forgotten.
Succeeds(p, k, r) ==
    /\ result' = [result EXCEPT ![p] = r]
    /\ \/ UNCHANGED <<answers, requests>>
       \/ /\ r # Unbound
          /\ answers' = answers \cup {<<k, r>>}
          /\ requests' = IF tasks[k] = "GetRequest" THEN [requests EXCEPT ![p] = @ + 1] ELSE requests

Raises(p, k) == /\ tasks[k] # "Predict" \/ requests[p] > 0
                /\ result' = [result EXCEPT ![p] = None]
                /\ UNCHANGED <<answers, requests>>

CallTask(p) == /\ Goto(p, "call", "get")
               /\ done' = done \cup {event[p]}
               /\ Succeeds(p, event[p], ResultOf(p, event[p])) \/ Raises(p, event[p])
               /\ UNCHANGED <<parent, q, created, event>>

Leave(p) == /\ Goto(p, "leave", "exited")
            /\ created' = created - 1
            /\ UNCHANGED <<parent, q, worker>>

ProcessStep(p) == Client(p) \/ Get(p) \/ CallTask(p) \/ Leave(p)

Next == \/ \E c \in Caller : Run(c) \/ CreateThread(c) \/ PutTask(c)
        \/ Close \/ PutStop \/ Closed \/ Reuse \/ Join \/ JoinReturns
        \/ \E p \in Proc : ProcessStep(p)

Spec == Init /\ [][Next]_vars
FairSpec == Spec /\ WF_vars(JoinReturns) /\ \A p \in Proc : WF_vars(ProcessStep(p))

-----------------------------------------------------------------------------
(* Properties *)

\* The unlocked test of run lets every other caller past a full pool, but no
\* more: the processes counted are at most max_num and one for each of them,
\* and the count is exact, also of those whose client could not be made.
FewTooMany == /\ TypeOK
              /\ created = Cardinality({p \in Proc : pc[p] \notin {"unborn", "exited"}})
              /\ created <= MaxNum + Cardinality(Caller) - 1

\* Everything that was run before the first close is done when join returns,
\* if any process got its client.  What is run after a close may be lost.
JoinedMeansDone ==
    pool = "joined" /\ closes = 1 /\ (\E p \in Proc : pc[p] = "exited")
        => done = DOMAIN tasks

\* A callback gets the result of its own task, except that of a Predict task,
\* which gets what an earlier task left in its process, even when nothing was
\* predicted.
StaleResultOnlyFromPredict ==
    \A a \in answers : \/ a[2] = a[1]
                       \/ /\ tasks[a[1]] = "Predict"
                          /\ \/ a[2] = None
                             \/ a[2] \in done /\ a[2] < a[1] /\ tasks[a[2]] # "Predict"

\* join returns: however often the pool was closed and used again, there is a
\* StopEvent for every process that still takes one.
JoinComesBack == pool = "joining" ~> pool = "joined"
=============================================================================
