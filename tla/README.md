# Funcodes: models, checks and proofs

Funcodes is a collection of small C++, Python and Java programs. Its core is a set of
headers for concurrent use under `c++/utils` (a readers-writer lock, queues, lists, hash
maps, caches, thread pools), an HTTP server with its client, and two worker pools in
Python. The rest are sequential algorithms: sorts, heaps, a search tree, graphs, text
searches, parsers, hashes. This directory holds TLA+ models of those components,
configurations with which TLC checks them on small instances, and proofs of the main
safety properties for instances of any size.

## 1. Inventory

Paths are under `src/`; `utils/` is `c++/utils/`, `algos/` is `c++/algos/`.

| component | files | state | operations | what is hard |
|---|---|---|---|---|
| readers-writer lock | `utils/cache/rwlock.h` | a 32-bit counter with a sign bit, a flag | lock, try_lock, unlock of either side | a few atomic accesses per operation that interleave; `TryWrite` can fail half-way |
| listed queue | `utils/cache/threadsafe_listed_queue.h` | `head_`, `tail_`, next pointers | `PushBack`, `PopHead` | two CASes per operation, retries that repeat finished work |
| queued LRU cache | `utils/lru_cache_lockfree_queued.h` | map, count per key, queue of uses | `Get`, `Put` | Gets run side by side under the read lock and extend the queue without one |
| timed LRU cache | `utils/cache/lru_cache.h` | map, doubly linked list, a lock per node, a counter | `Get`, `Put` | Gets relink nodes under locks taken one by one through pointers read before |
| lock-free linked list | `utils/cache/lock_free_linked_list.h` | next pointers | `Insert`, `Search` (`Delete` does not compile) | insertion retried with stale positions |
| hash list, node manager, hash map | `utils/cache/concurrent_hashlist.h`, `spinlock.h`, `concurrent_hashmap_element_lock.h` | lists with a lock per node, a pool of nodes | push, pop, find, insert (`erase` does not compile) | locks of cells that have moved on, searches without a lock, an empty pool |
| worker pool | `utils/cache/thread_pool.h` | a queue, a mutex and a condition per worker, `done_` | construct, `Submit`, `Empty`, destroy, `Run` | lost wakeups, shutdown, failure to start a thread |
| Python thread pool | `scripts/python/threadpool.py` | queue, `created_list`, `terminal` | `run`, `close`, `join`, `terminate` | threads change the list that the main program reads |
| Python process pool | `scripts/python/processpool.py` | queue, `created_threads`, locals of each process | `run`, `close`, `join` | a test outside the lock, results kept from task to task |
| HTTP server | `utils/web_server/httpserver` | handler table, websocket sessions | add and remove handlers, `Start`, events | a connection may end between any two events; two answers to one request |
| HTTP client | `utils/web_server/httpclient` | exit flag and callback, both static | `SendReq`, events | state that outlives a call, answers in pieces, no timeout |
| mongoose | `utils/web_server/common` | connections, buffers | connect, accept, poll, free | vendored; modelled as far as the two above use it |
| heaps | `utils/custom_heap.hpp`, `custom_max_heap.hpp`, `scripts/python/minheap.py` | an array | insert, build, fix, resize; the merge of sorted lists | which child is compared, the last element |
| sorts | `algos/sort` | none | 7 files, 11 sorts | boundaries of passes, equal elements |
| search tree, graphs, text search | `algos/*.cpp`, `algos/dumpKMP` | none between calls | BST, Dijkstra, Floyd, Kruskal, KMP, splitting of GBK bytes | pointers to freed nodes, unreachable vertices, borders |
| path flattening, JSON, URLs | `utils/file_path_flat`, `java/JsonParser.java`, `utils/convert_to_encoded.cpp` | none | pure functions on text | what ends a token |
| hashes | `utils/hash` | blocks, bit counter | `update`, `finalize`, `PadMessage` | padding at the end of a block, carry of the counter |

`PROJECT.json` lists these and the parts that are not modelled, which section 7 explains.

**How they interact.** Both caches protect themselves with the readers-writer lock: `Get`
under its read lock, `Put` under its write lock. `QueuedLRU` and `TimedLRU` therefore treat
a `Put` as one step that needs every `Get` to be outside, which is what
`RWLock!MutualExclusion` says and `LockAndCacheProofs!Exclusion` proves. The timed cache uses the
same lock, for writing only, in each of its nodes. The listed queue is exercised by tasks of
the worker pool (`utils/cache/threadsafe_list_test.cc`). Because `Submit` draws the same queue
on every call, those tasks in fact run one after the other, and the test has never met
the behaviours of section 5. Server and client exchange messages through connections of
mongoose, which calls back both; `HttpDemo` is their composition.

**What makes each component correct.**

- lock: a writer excludes everyone; the counter is exact; an announced writer is not
  overtaken; the flag has one owner and is given back.
- listed queue: FIFO; a popped node belongs to one caller; nothing is lost.
- caches: the key evicted is the least recently used; counts match; the list holds each
  entry once; locks are taken in an order.
- pools: a task is in one place; waiting for the pool means that tasks are done; a callback
  gets its own result; destruction, `close`, `join` and `terminate` return.
- lock-free list, hash map: a set; what is linked stays linked; answers match the list.
- HTTP: one answer per request, from the handler registered; a session exists while its
  connection does; a call returns.
- sequential code: it computes what its name says.

## 2. Modules

| module | models | notes |
|---|---|---|
| `RWLock`, `LockAndCacheProofs` | `LockFreeRWContention` | one action per atomic access; `Bit` stands for 2^31; its usual names are prefixed: `LockSpec`, `LockNext`... |
| `Fifo` | | what a queue promises |
| `ListedQueue`, `ListedQueueProofs` | `PushBack`, `PopHead` | refines `Fifo` until a pop empties the list unawares |
| `LRU` | | what an LRU cache promises: its keys and which were used before which |
| `QueuedLRU`, `QueuedLRUProofs` | `LRUCache` with a queue of uses | refines `LRU` |
| `TimedLRU`, `LockAndCacheProofs` | `LRUCache` with expiry times | a step per lock and per store in `Get` |
| `LockFreeList`, `PoolAndListProofs` | `Insert`, `Search`, `SearchFrom` | its usual names are prefixed: `ListSpec`, `ListNext`... |
| `KeySet` | | what a set promises to which threads add keys: when Find and Insert take effect |
| `HashMap`, `HttpAndMapProofs` | `ConcurrentHashMap`, `ConcurrentHashList`, `NodeManager::GetOne`, `SpinMutex` | refines `KeySet` until its pool runs empty; its usual names are prefixed: `MapSpec`, `MapNext`... |
| `Chains`, `ChainLemmas` | | reads a linked structure as a sequence; what the proofs share about it |
| `WorkerPool`, `PoolAndListProofs` | `ThreadPool`, `ThreadSafeQueue` | with the owner and submitters of the test program |
| `PyThreadPool`, `PyThreadPoolProofs` | `ThreadPool` of `threadpool.py` | |
| `ProcessPool`, `ProcessAndDigestProofs` | `ThreadPool` of `processpool.py` | |
| `HttpServer` | `HttpServer`, the server's side of mongoose | actions only, no specification of its own |
| `HttpDemo`, `HttpAndMapProofs` | `HttpClient`, browsers, both ends together | extends `HttpServer` |
| `Arrays` | | loops and swaps of the sequential code |
| `Sorts`, `Heaps`, `SearchTree`, `Routes` | sorts; heaps; `BST.cpp`; the graph algorithms | operators |
| `Texts`, `FlatPath`, `JsonParser` | text search, GBK, URLs; `flat_path`; the parser | operators |
| `Digests`, `ProcessAndDigestProofs` | blocks, bit counters and padding of MD5 and SHA1 | operators, and an MD5 object that is given its message in pieces |
| `Algorithms` | | picks an input, or gives an MD5 object its next piece, and states what the operators should return |

`MCx` instantiates module `x` for TLC. Two instances each hold two components that share nothing:
`MCPoolAndMap` has `WorkerPool` and `HashMap`, whose calls have to come back, and
`MCListAndAlgorithms` has `LockFreeList` and `Algorithms`, of which only safety is asked. Their
variable `part`, chosen at the start and never changed, says whose behaviour it is.

**Conventions.** `pc[t]` names the next atomic access of thread `t` (`at[p]` in `RWLock`). A thread that spins on a
condition is an action that is disabled until the condition holds. The locals that matter
are variables and are reset when the call returns, so that calls do not leave traces in the
state. A condition of the code that decides an action is an operator of its own
(`Drained`, `CasMatches`, `Stops`...). Next to it stands a variant named after a plausible
mistake (`Drained_OneLeft`); no specification uses it, it records which mistake the
properties detect.

**RWLock.** `l`, `w` are `l_`, `w_`; `cnt[p]` is the local of that name. `SetBit`, `Unsigned` and
`Drained` follow the code's mix of signed counter and unsigned constant. Weak CASes may fail
without reason; one that fails in `Read` goes back to the load, one that fails in `Write`
reloads `cnt`.

**ListedQueue.** `next`, `tail` are the pointers, `at` and `nx` the locals `tail` or `p` and `next`.
`pushed` and `out` record the nodes whose `PushBack` has moved `tail_` and the nodes popped. Nodes are
pushed at most once. A node is in the queue (`Queued`) when `tail_` has moved to it: before that a pop
of the node in front may cut it off, and `PushBack` links it again. `hazard` records the event after
which the queue may lose nodes (`EmptiesUnawares`): a pop that read nothing behind the first node, and
found it not to be the tail, empties the list although a push has come between or is about to move
`tail_` there.

**QueuedLRU.** `queue` is the linked list as the sequence of its nodes' keys and a pointer is a
position in it; `cnt` is the count of each `ValueWrapper`. `Put` is `emplace`, `PutTail` and perhaps
`PopHead` in one action. The values play no part.

**TimedLRU.** A node is a key, `head_` or `tail_`. `next`, `pred`, `expire` are the fields of
that name, `owner` says whose write lock each node holds. `Get` finds its entry and goes
through the two blocks of `PutTail`: a pointer is read (`aim`), then the lock behind it is
taken, so that the node may have moved between. Each store to a link is a step, because a lock
taken through a stale pointer does not cover the links it was taken for. A `Get` that finds nothing or an entry that
is not over answers null and changes nothing. `Put` is a whole call, with `PopHead` and the
second reading of the clock, and runs on whatever the links hold: `NextAfterTail` and `PredAfterTail`
are the links as `PutTail` leaves them, `Walk` is the way `PopHead` takes through them. On a list that
Gets have broken `head_` may lead to `tail_` while entries hang off `tail_`, and the Put erases
nothing; or the way may lead through entries that are erased while others still point to them. Such
a link is `Null` from then on, and a call that follows one, or a `PopHead` that goes round expired
entries for ever, is the last step (`PutLost`, `GetLost`): `lost` is set. `hazard` records two events
for the properties: two Gets inside for one key, and a Get that holds the lock of a node which is
no longer its neighbour.

**LockFreeList.** `prev`, `succ`, `cur`, `equal` are `prev_node`, `next_node`, `cur_node`, `equal`. No mark
or flag is ever set because the functions that would set one cannot be instantiated.

**HashMap.** A cell is a node or a dummy; `next` and `last` are `next` and `end_.pred`, `locked` the
cells whose spin lock is taken, `cur` the cursor of `Find` or the node that `LockWithTryLoop` has
loaded. Only `PopHead` touches the pool, under one lock, so a pop is one action between the
lock and the unlock of the first cell. In `KeySet` the keys are those of the linked nodes (`Keys`).
A find has its answer when its cursor comes to a node with the key, or past the last node, which may
be several steps before it returns; an insert adds its key when it links its node (`Answer`).

**WorkerPool.** `owner` runs through construction, the open phase, a loop on `Empty()` that it may
leave out, and destruction (the test program always polls; `~ThreadPool` does not ask for it): `done_`, then for each queue `running_` and the notification as two steps,
then the join. `wpc[i]` runs through the loop of `Run`. The mutex of a queue is held at "block"
and "pop"; `Push` and `Empty` wait for it and `Close` does not. Spurious wakeups are steps.
`StartFails` is the exception of `std::thread`. `Index` is the queue that every `Submit` draws; that it
is one of the queues is an assumption (section 6).

**PyThreadPool.** One action per statement that touches shared state, which is the granularity
of the interpreter. `n` is the main program's loop variable.

**ProcessPool.** Callers go through `run`: the test of `created_threads`, `create_thread` under the
lock, the `put`. Process `p` goes through `call`: its client (which may fail), the `get`, one task,
the end. `event`, `result` and `requests` are its locals. One caller closes the pool when no `run`
is under way and then joins it or uses it again. `done` and `answers` record what ran and what
callbacks were given.

**HttpServer, HttpDemo.** A connection is a pair of streams, `inbox` towards the server and
`outbox` back. An event of the server is one action, because one thread handles one event at
a time. A reply is two pieces, of which the first is what the client's parser needs to see a
message; the client reads any number of pieces per poll. `Exit` ends the server at any time
and ends every connection. `pc`, `exitFlag`, `buf`, `state` are the client's loop, `s_exit_flag`, the receive
buffer and the connection; `calls` records what the callback was given. A message is `Whole` when
mongoose has all of it in its buffer; what is there when the connection closes is a message if it
has `Begun`.

**The sequential modules.** Loops are folds (`For` over `Up` or `Down`) or recursive operators named
after the loop. Positions keep the code's numbering where the code's answer is a position.
Characters, bytes and tokens are model values for the classes the code tells apart; messages
are sequences of numbers, cut into blocks of `Block` bytes. In `Digests`, `context` is an `MD5` object, with the
blocks given to `transform` in place of its `state`, and `message` is what its `update` has been given.
`Word` is the number of values of a word of the bit counter and `WordBytes` the number of bytes it is
encoded in. `Finalize` and `Sha1Blocks` give the blocks a digest is made of.

## 3. Runs

| run | instance | shows |
|---|---|---|
| `rwlock` | 3 threads, sign bit 4, all four calls | exclusion, exact count, no overtaking of an announced writer, that only a failed `TryWrite` leaks the flag, that nothing else makes all threads spin, and that an announced writer completes |
| `listed_queue` | 3 threads, each pushes and pops, 3 nodes | `ListedQueue` implements `Fifo`, and between calls no node is lost and `tail_` is the last one, until a pop empties the list unawares |
| `queued_lru` | 3 threads, 3 keys, capacity 2, queue up to 7 | `QueuedLRU` implements `LRU`; counts and size are exact |
| `timed_lru` | 2 threads, 4 keys, capacity 6, timeout 0, clock up to 2, counter up to 7 before a `Put` | what breaks the list, what makes Gets wait for each other, and that until then the cache holds half its capacity and never fills up again |
| `list_and_algorithms` | list: 2 threads, 2 keys, 4 nodes; algorithms: every input of the sizes below | nodes stay, in order, and a loser never inserts; what is unique, what `Search` misses, what `Insert` answers; every sequential algorithm against a reference definition |
| `pool_and_map` | pool: 2 workers, 2 submitters of 2 tasks; map: 2 threads, 3 keys in 2 buckets, 3 nodes | tasks are accounted for, also through shutdown; no pop of an empty queue; `Push` loses no wakeup; a joiner hangs only on a blocked worker. A node has one owner and buckets keep their nodes; the map implements `KeySet`; no calls block each other |
| `py_pool` | 3 threads, 4 tasks, queue up to 4 | one place per task; `close` leaves nothing; `terminate` allows one more task per thread; both end |
| `py_pool_join` | 2 threads, 2 tasks | **violation**: `join` returns early |
| `process_pool` | 2 callers, `max_num` 1, 3 tasks, 3 processes, 2 closes | by how much the pool overshoots; `join` waits for every task and returns; only a `Predict` task gets another's result |
| `http_demo` | 1 client with 2 calls, 1 browser, 2 routes, 2 handlers | the session set; whose answer a callback gets; that every call returns |
| `http_second_call` | the same | **violation**: the second call returns without an answer |
| `sha1_padding` | the algorithms as above | **violation**: the second block that SHA1 pads holds bytes of the first |

**Bounds.** *RWLock*: with three threads there can be a writer, a second writer that spins on
the flag, and a reader inside or between its load and its CAS, or two readers and a writer;
the proofs cover any number. The sign bit 4 is the smallest power of two above the number of
threads. *ListedQueue*: three nodes give an empty queue, one with a single node (whose pop
moves `tail_`) and one where a middle node exists. *QueuedLRU*: with three keys and capacity 2
evictions happen, and `MaxQueue` 7 leaves room for several uses of one key between two
evictions; no call starts beyond it. *TimedLRU*: capacity 6 is reached at three entries, and a
fourth key is left to be put; two threads on three listed nodes can be neighbours, have one
node between them, or share a key. With timeout 0 an entry is over one tick after its stamp, so
two ticks let a `Get` renew it and a later one find it over again. *LockFreeList*: two keys in
four nodes give duplicates of the first key and nodes behind them; nodes not allocated yet
bound the Inserts begun. *HashMap*: two keys that share a bucket meet in its list, the third has
the other bucket, and three nodes let the pool run empty; no call begins after that.
*WorkerPool*: all tasks go to queue `Index`; the second worker is the one that waits for ever and
needs `Close` to end. *PyThreadPool*: more tasks than threads, so that threads are started and
reused; `MaxQueue` bounds only the busy loop of `terminate`. *ProcessPool*: two callers race for one
place; a third process is started after a close, and two closes let terminators of the first
meet processes of the second. *HttpDemo*: the second call is the first that meets the flag of
another; one route may have a handler and the other not; `MaxFrames` bounds what a browser has
on its way. *Algorithms*: arrays of up to 5 of the numbers 0, 3, 12, 21 (one and two digits, equal
ones); up to 3 sorted lists of up to 3 values; graphs of 3 vertices with weights 1, 2, 5, where
detours pay and do not, and missing edges; 4 roads between 4 places; texts of up to 6 and
patterns of up to 4 of two characters; paths of up to 5 components and JSON of up to three
levels; messages of up to 70 bytes, given in any pieces of up to two blocks and a byte, with blocks of 8
and words of 9 bits in two bytes, so that every place in a block, a second block for the length and
the carry occur.

`CHECK_DEADLOCK FALSE` stands where the program really may stop: the main program or the owner
ends, or a bound is reached (in `pool_and_map` the empty pool of nodes, in `timed_lru` the clock); in `rwlock` every thread may spin on a leaked flag, in `timed_lru` the
Gets may wait for each other. `StuckOnlyByLeak` and `StuckOnlyByHazard` state these exactly.

**Fairness.** *RWLock*: threads that wait with the sign bit set, read or write are scheduled and
leave their critical sections. Nothing is assumed of the CAS loops, which can starve.
*WorkerPool*, *PyThreadPool*, *ProcessPool*: every thread or process is scheduled (weak fairness of
its next step), tasks end, and `join` returns once the processes have ended. Spurious wakeups are
not assumed. *HashMap*: a thread inside a call is scheduled; nobody is obliged to begin a call.
`MCPoolAndMap` assumes of either part what that part assumes alone. *HttpDemo*: `Start` is called and both loops go on polling, so a request that has
arrived is handled and a client inside a call goes on; that a connection is made, or that the
server stays, is not assumed. The other modules, `LockFreeList` among them, assume no fairness, and
their runs check safety only.

## 4. Proofs

Checked by TLAPS, for all values of the constants. Five of the proof modules extend `ChainLemmas`:
a set of numbers has a least member, and a sequence of nodes each of which is linked to the next,
and the last to null, is what `Chain` returns (`PathIsChain`).

**LockAndCacheProofs** proves about the lock and about the timed cache, whose calls the lock
guards. For the lock it assumes a finite set of threads with fewer members than `Bit`. The inductive
invariant `IndInv` is the type invariant and

- `CountExact`: `l` is the number of readers, less `Bit` while a writer is marked;
- `FlagOwned`: at most one thread is between taking and clearing `w`;
- `CasReader`: a reader at its CAS expects a non-negative count;
- `ReadersOut`: nobody reads while somebody writes.

`MutualExclusion` alone is not inductive. A reader's CAS succeeds only on the value it expects.
Because that value is non-negative and the counter is exact, no writer is marked then. A
writer that leaves its wait sees a counter of exactly `-Bit`, so no reader is left. `FlagOwned`
gives each marked writer its turn alone. `NoCircle` (`StuckOnlyByLeak`) follows too: when all
threads spin nobody reads, so a marked writer would find the counter drained; hence there is
none, no reader waits at its load, all wait for the flag, and none owns it. `Spins` says in the
guards' terms who spins, since `ENABLED` cannot be used in a proof. From `IndInv` follow `TypeCorrect`, `Exclusion`, `Counting`,
`Ownership`, `WriterPreference` (no overtaking), `OneWayToLeak`, and from types alone `LeakPersists`.
`TypeCorrect` contains that the counter never overflows.

**PoolAndListProofs** proves about two components that share nothing. For the pool it assumes at
least one worker and an index in range. `WInv` is the type
invariant and

- `Work`: tasks are only in queue `Index` and in the hand of its worker at "run"; a worker
  about to pop an open queue finds a task there;
- `Owner`: what the owner's place says about its loop variable and the threads;
- `Scanned`: after the last `Submit` empty queues stay empty, so what a scan has found so far is
  still true.

`TasksAccounted` adds that each step moves tasks along the concatenation
`executed \o task \o queue`. `DrainedExecuted` combines both with the join, and `NoEmptyPop` is part of
`Work`: a worker that passed the test holds the mutex until it has popped, and nobody else
pops its queue.

For the list it assumes finitely many nodes; threads and keys may be infinitely many. `FInv` says
that the links from `head` go through some sequence `p` of nodes (`Linked`) such that `Fits(p)`:

- `Doubled`: a key that stands twice in `p` is its first key and stands from there on;
- `Own`: the node of an `Insert` carries its key, is nobody else's and is not in `p`;
- `Searching`: a search has come to a node of `p` without having met its key on the way, and a
  `Search` whose key was in the list when it began will find it there;
- `Placing`: an `Insert` before its CAS would link its node at the end of `p`, or directly behind
  `head` in front of its own key; one whose CAS failed once expects a link that is gone for good,
  because a link that was changed leads to a node that was not in the list before;
- `Answered`: what the last call returned is still true of `p`.

`UniqueExceptFirst` alone is not inductive: that nobody inserted the key between the end of the
search and the CAS follows from the CAS, which expects null or the node of that key. The one step
that changes `p` is a CAS that succeeds; `ListGrows` gives the sequence after it, and that everything
said about threads survives. `AnswersFit` and `NodesStay` follow.

For the cache *LockAndCacheProofs* assumes nothing but that the bounds are numbers; keys and threads may be
infinitely many. `HalfInv` says that the map is finite and that, while no hazard has occurred, twice
its size is at most the counter and at most the capacity. The second part alone is not inductive:
that a `Put` below capacity leaves room for its entry follows only from the counter. A `Put` at
capacity removes at least one node, because the list is then one (`ListInv` below) and `PopHead` comes
over its first node to one behind it (`PopsFirst`, `PutGrows`). `HalfFull` and `NoRefill` follow. Without
the condition on `hazard` both are false: after a chain of stale locks `head_` leads to `tail_` and
a `Put` at capacity erases nothing. TLC finds such a run when the condition is taken out.

`ListIntact` and `NoGetsStuck` rest on `ListInv` as well. While no hazard has occurred there is a sequence
of the entries that are on the list (`Listed`: those in the map less those that some `Get` has
taken out and not yet put back) with

- `Forward`, `Backward`: the links follow the sequence, except that a link back may still be due
  from the one thread that is about to store it (`Pending`);
- `Cuts`, `Ends`: what a thread between two of its stores still finds in the links it goes on to
  read;
- `Locking`: a node's lock is owned exactly by the thread whose place says so (`Holds`), and
  `Distinct`: no two Gets move one node;
- `Aimed`, `Ahead`: a pointer read under its node's lock is still true when the next lock is
  taken; one read without a lock leads to a node further on or to one off the list.

`Intact` says nothing while a `Get` is inside, so all of this is needed to carry it over one. The
steps use one fact about all other threads (`OthersRely`): every store is to a link of a node
whose lock the storing thread holds. It is false once a `Get` holds a stale lock, which is why
`hazard` is in the property. A `Put` meets an intact list with nobody inside: where its walk ends is the
first node behind the first that has not expired (`WalkEnds`, `WalksAre`), what is left is a list again
(`PutLinks`), and no link is followed to a freed node (`NoneLost`). `NoGetsStuck` numbers the nodes as the locks are taken, `tail_` first,
then the nodes off the list, then the list backwards: a thread waits for a node below all it holds
(`WaitsBelow`), so among Gets that all wait, the one that waits for the lowest node waits for a
`Get` that waits lower still.

**ListedQueueProofs** assumes finitely many nodes. `LInv` says, while no pop has emptied the list unawares
(`Core`), that

- `Path`: what was popped is a prefix of what was pushed, the links from `head_` go through the rest in
  order, and behind the last of them is nothing, or one node whose `PushBack` has not returned;
- `TailAt`: `tail_` is the last of them, or already `head_` while a pop is about to take the only
  node (`Emptying`);
- `PushFits`: a push holds a node that was the tail once, and before it moves `tail_` its own node
  is linked there;
- `PopFits`: a pop holds a node that was first once, and what was read behind it is still there unless
  it was nothing; if it was something, that node is not the tail; a pop that has put `tail_` on
  `head_` and still finds its node first is emptying the list;
- `Distinct`: no two pushes have the same node.

`TailIsLast` is about the moments between operations only and so not inductive. That a node linked
behind one popped before does no harm is in `PushFits`: its `PushBack` moves `tail_` only if `tail_` is
still there, and the tail is never a popped node (`PlacesDiffer`). `TailStaysLast` follows;
`ImplementsFifo` maps the CAS that moves `tail_` to a node to the push of `Fifo`, the one that moves
`head_->next` to the pop, everything else to a stutter.

**HttpAndMapProofs** holds the proofs of two modules. Of `HttpDemo` it assumes what the modules do: connections are those of the clients' calls and
of the browsers, and the built-in answer is no handler. `Inv` is `SessionsAreOpen` with typed
streams and `ClientInv`: a client that has left the loop of its first call has its exit flag set
for good, so that no step of a later loop is enabled but leaving it. `OpenSessions` follows.

`OwnAnswer` needs `Streams` on top of it, which follows the connection of a client's first call
from the request to the callback (`Stream`): the connection is not made yet, or its request waits
to be read, or the server ended before it was, or what was sent begins with the first answer to
it, of which the client has taken the head at most. The handler table is fixed by the time a
request can be read. It uses that a browser's connection is not that of a call (`PeerAssumption`).

Of `HashMap` it assumes finitely many buckets and nodes, that every key hashes to a bucket, and that
the null pointer, the nodes and the dummies of the buckets and the pool are distinct. `HInv` holds

- `Nodes1`: the pool names no node twice, a node has one owner, and no cell is linked to a node
  that is in the pool or that its owner has not linked yet (`Apart`);
- `Locals` and `Locks`: what the place of a thread tells of its key, node and cursor, and that
  two threads between the lock of `end_` and its unlock are in different buckets;
- until the pool runs empty, `Fits`: for each bucket the nodes with a key of it that are linked
  form one sequence `p` without repetition, the links go through it (`Lists`) and end at `end_`, or at
  null while a PushBack is between its two stores, and `last` is its end or about to be. A `Find`
  has ended, or stands at a node of `p` and has passed none with its key (`Finds`).

The sequence only grows, at its end, which is why a `Find` that takes no lock is safe.
`BucketsIntact` says nothing of a bucket in the middle of a PushBack, nor of cursors, and so is not
inductive. `BucketsStayIntact` follows with `PathIsChain`, which gives the value of `Chain` for links
that go through a known sequence, and with `ChainIn`, by which a chain holds only what some cell is
linked to: one owner is also kept after the pool has run empty, when no such sequence is known.

`ImplementsKeySet` adds that no `end_` has a value (`EndsEmpty`), so that a cursor takes none for its
key. The keys are those of the nodes that are not `Apart` (`KeysAre`), which only `Link` changes
(`KeysStay`, `LinkAdds`). A `Find` may rely on what it saw: the key of a linked node does not
change, which keeps "present" true, and "absent" is decided in the step in which the cursor leaves
the last node of `p` (`AbsentIs`), or finds the bucket empty (`FirstIs`), whichever store of a PushBack
comes next. A cursor that goes on from `end_` to null decides nothing.

**QueuedLRUProofs** assumes finitely many threads and a capacity of at least 1. `QInv` is
`CountExact` with two facts about a Get under way (`Links`): its key stays in the map, because no
`Put` runs meanwhile, and a Get that has linked its node finds `tail_` where it read it, so no
other Get is at that place and none links its node twice. The other half is sequential: when
the counts are exact, `PopHead` stops at the last node of some key (`PopHeadStops`), no other key
has lost its last node by then (`OneKeyGoes`), and the counts left are those of the nodes left
(`AfterPop`). `ExactCounts` follows. `ImplementsLRU` maps the map to the keys of `LRU`, and "used
before" to the order of the last nodes of two keys in the queue: the link of a node is the
abstract use, the eviction takes the key whose last node comes first.

**ProcessAndDigestProofs** holds the proofs of two modules. Of `ProcessPool` it assumes a finite,
non-empty set of callers. `PInv` is the type invariant and

- `Counts`: `created_threads` is the number of processes, and with the callers about to create one
  at most `max` and one more per other caller;
- `Order`: every task that was put is in the queue in order, with one process, or done;
- `Results`: what a process keeps in `result` is of an earlier task and not of a Predict;
- `Stopping`: before the first close there is no StopEvent, after it nothing but StopEvents
  behind the tasks, and joined means that all processes have ended.

`FewTooManyProcesses`, `OwnResult` and `JoinWaitsForTasks` follow.

Of `Digests` it assumes what the code's 64, 2^32 and 4 satisfy: a word counts whole blocks in bits, and
a block has room for the length and a byte more. `ContextFollows` is inductive: the context of an `MD5`
object has the whole blocks of what the object was given, the rest in its buffer, and the number of
bits over both words (`UpdateFollows`, from the arithmetic of `WordsAdd` and `PlaceIs`). `finalize` is two
more updates, and `ZerosAre` says that only one number of zeros fills the last block, so
`MessagesPadded` (`Md5Pads`, a part of `TextsAgree`) follows, for every message and every way to cut it.
What SHA1 does is only model-checked: its loop is a fold.

**PyThreadPoolProofs** assumes `max_num` of at least 1. Tasks are numbered as they are put, so the
queue is a run of consecutive numbers followed by terminators, and one number `m` tells what was
taken: `Taken(m)` says that `m` tasks are executed or in a thread's hands, the next in the queue
is `m + 1`, and a thread leaves only when all were taken. `Started` adds what holds while tasks are
put: no terminator is in the queue, no thread leaves, and the first task has started a thread.
`CloseLosesNoTask` (`ClosedMeansDone`) follows: that thread stopped, so everything was taken, and
nobody has anything in hand. `TasksInOnePlace` (`OnePlace`) needs `m` and the threads on
`created_list`, each of which leaves it once and by itself (`Leaves`).

**Only model-checked**: liveness, because fairness and `ENABLED` are out of the prover's reach
(`PendingWriterCompletes`, `EveryTaskRuns`, `HangsOnlyOnLostWakeup`, `CloseStops`, `TerminateReturns`,
`JoinWaits`, `CallsReturn`, `SendReqReturns`, `JoinComesBack`); and what folds and recursive operators
compute (all of `Algorithms` but `Md5Pads`).

## 5. Disagreements between the code and what it says of itself

Three runs expect a violation of what the code says of itself:

- `join` of the Python thread pool is documented to block until all threads have ended
  (`threadpool.py:97`). It iterates over a list that shrinks, skips threads and returns while they
  run (`py_pool_join`).
- `SendReq` of the HTTP client is said to send one request, handle it in the callback and close the
  connection, and the handler to reset the flag after each request (`http_client.cc:47`, `28`);
  `main.cc:17-19` makes a second call whose callback is to print. The flag is set and never reset, so
  the second call leaves its loop before it is connected (`http_second_call`).
- `PadMessage` of SHA1 is said to leave only zeros between the mark and the length, also in a
  second block (`sha1.cpp:230-233`, `251-252`). The second block holds the bytes of the first
  (`sha1_padding`).

Four more places say what the code does not do. No property asserts what the code does there
instead; the properties named are about the other inputs only.

- `BST.cpp:104-109`: a leaf is deleted, and a node with one subtree is replaced by it.
  `deleteHelper` changes its own copy of the pointer, so the parent still points to the freed node
  (`TreesKeep` claims the order of the tree for nodes with two children).
- `Kruskal.cpp:1`: a minimum spanning tree. The function looks at the first n - 1 roads only,
  relies on its caller to have sorted them, and on somebody to have made every place its own root
  in the global `v`, which is all zero at first and stale later. It has no caller. `GraphsAgree`
  claims the tree for a prepared `v` and sorted roads, the first n - 1 of which span.
- `charactor.cpp:26-30`: a GBK character has at most two bytes. Text that begins with one of two
  bytes is refused, and a later one is joined to the byte before it (`TextsAgree` claims the
  reading of ASCII).
- `file_path_flat/README.md`: `.` and `..` are erased from a path. A name with a dot in it throws,
  and a `.` before a `..` is cut in place of the parent (`TextsAgree` excludes both).

The code has other behaviours that its author can hardly have meant, and of which no line of the
repository says otherwise. They appear in properties that hold, as the exact condition for them.

- `TryWrite` leaks the flag when its CAS fails (`OnlyTryWriteLeaks`).
- `PushBack` of the listed queue repeats its whole loop when only the move of `tail_` failed,
  after its node is linked. That is harmless when a pop has cut the node off meanwhile. But a
  `PopHead` that finds the only node linked while its `PushBack` has yet to move `tail_`, or whose
  null read behind the first node is stale, empties the list: the node, or those behind it, are
  lost to readers or linked twice (`IsFifo`, `TailIsLast` up to that step).
- `Close` of a worker's queue notifies without the mutex. A worker between its test and its
  wait misses it, and the destructor joins for ever (`HangsOnlyOnLostWakeup`). The same
  property covers a constructor that cannot start a thread.
- `Insert` of the lock-free list ignores the result of its second search and spins after a
  failed CAS (`LinksStay`); `Search` never finds the first key and `Insert` doubles it
  (`AnswersFitList`).
- The timed cache serves an entry only after it has expired, counts each `Put` twice and never
  counts back (`AtMostHalf`, `NeverRefills`). Two Gets of one key break its list,
  and so does a lock taken through a stale pointer, which leaves the links of two Gets unprotected
  from each other (`IntactUnlessHazard`); it can also make Gets wait for each other
  (`StuckOnlyByHazard`). On a broken list a `Put` at capacity may erase nothing, so the two bounds
  end there too.
- An empty pool of nodes of the hash map hands out its own dummy cell (`BucketsIntact`); two
  overlapping inserts add one key twice (`IsKeySet` allows no more).
- The callback of a `Predict` task gets the result of an earlier task
  (`StaleResultOnlyFromPredict`); the process pool overshoots by a process per other caller
  (`FewTooMany`).
- A request with a handler is answered twice; the client sees the first answer only
  (`AnswersOwnRequest`).
- `CustomHeap` prints its root once more when a merged list has ended, and merges no three
  lists in order (`TreesKeep`).
- The JSON parser loses bare values that no space follows; `convertToEncode` cuts its result at
  white space (`TextsAgree`).

## 6. Abstractions

- Atomic accesses take effect in program order. The code uses release and relaxed orders; what
  a weakly ordered machine adds, such as the two stores of `DoneWrite` becoming visible in the
  other order, is not modelled.
- Freed nodes are not modelled in the concurrent structures, but for the timed cache: a node that
  was popped can still be read. `SearchTree` records which nodes are freed.
- Values, logging and what tasks do are left out.
- `HashMap` leaves out back pointers other than `end_.pred`, which nothing reads, and the
  reclaiming thread, whose list stays empty while `erase` does not compile.
- `QueuedLRU` assumes a capacity of at least 1. With 0, `Put` would pop the node it has just linked.
- `TimedLRU` runs `Put` and `Get` on whatever links the list has, broken or not. Links to an erased
  node become `Null`. A call that would follow such a link, or go round a circle of expired entries
  for ever, ends the behaviour in `lost`: freed memory is undefined, and a `Put` that does not
  return keeps the lock of the map.
- `WorkerPool` takes the queue that `Submit` draws as a constant. The code seeds a new engine on
  each call and therefore always draws the same one. It draws from 0 to the number of threads,
  inclusive (`thread_pool.h:87`); the last of these is no queue. `IndexAssumption` leaves that draw
  out: libstdc++ draws 0 for every number of threads below 127,773, another library may not.
- `ThreadSafeQueue::TryPop` and its copy constructor have no caller, nor have `BroadcastWebsocketMsg`
  and `Close` of the server.
- In `ProcessPool`, `created_threads += 1` and `-= 1` are one action each: the code makes both under
  the lock of the pool.
- `HttpDemo` lets the browser upgrade at most once and the client send one request per
  connection, which is what the code does.
- `iconv` is abstracted to accepting exactly one whole character that GBK has; what one block does to a digest
  is left out; a hash is its sequence of blocks.
- The global `v` of `Kruskal` is a parameter, since no code of the repository prepares it.

## 7. Not modelled

- Mongoose beyond what server and client use: MQTT, DNS, CoAP, SSL, CGI, uploads, file serving,
  string helpers, and the variants of its network interface for other platforms. It is a
  vendored library of 21000 lines, two thirds of the repository, and nothing in the repository
  relies on the rest.
- `c++/CCiA_SourceCode`: listings of a book, printed fragments most of which do not compile alone.
- `lru_cache_concurrent_hashmap.h`, `lockfree_list.h`, `concurrent_hashmap.h`: unfinished, do not
  compile.
- `quickSort.cpp` does not compile; `prim.cpp` does not either, and its inner loop would never end.
- The simple pool of `utils/thread_pool`: one queue under one mutex, polled. Its steps are among
  those of the worker pool.
- `list_path`, which prints a directory, and the compression functions of MD5 and SHA1.
- Samples of language features, link tests and notes.

## 8. Plan

Every safety property of the concurrent components is proved. What further work could add: further
facts about the operators of `Algorithms` that need no induction over data, and an abstract list
that `LockFreeList` implements.
