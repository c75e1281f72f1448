------------------------------- MODULE RWLock -------------------------------
(***************************************************************************)
(* LockFreeRWContention (c++/utils/cache/rwlock.h): a readers-writer lock  *)
(* made of one 32-bit counter `l' and one flag `w'.                        *)
(*                                                                         *)
(*   - Readers count themselves in l with a CAS and only while l is not    *)
(*     negative; they leave with fetch_sub.                                *)
(*   - A writer first takes w, then sets the sign bit of l, then waits     *)
(*     for the readers still counted below the sign bit to leave.          *)
(*                                                                         *)
(* Every atomic access of the code is one action.  A thread that spins is  *)
(* a disabled action.  The sign bit weighs Bit, which is 2^31 in the code. *)
(* Accesses take effect in program order.                                  *)
(*                                                                         *)
(* The usual names are prefixed with Lock: LockAndCacheProofs extends this *)
(* module and TimedLRU.                                                    *)
(***************************************************************************)
EXTENDS Integers, FiniteSets

CONSTANTS
    Proc,   \* the threads that use the lock
    Bit     \* the weight of the sign bit of l_

\* fewer threads than the counter can hold below its sign bit
ASSUME ProcAssumption == IsFiniteSet(Proc)
ASSUME BitAssumption  == Bit \in Nat /\ Cardinality(Proc) < Bit

VARIABLES
    at,     \* at[p]: the next atomic access of thread p
    l,      \* l_, the reader count and the sign bit
    w,      \* w_, TRUE when set
    cnt     \* cnt[p]: the local `cnt' of the call p is in, 0 outside a CAS

lockVars == <<at, l, w, cnt>>

Int32 == -Bit .. Bit - 1

\* Before its access a thread is at a label named for the call and the access.
Labels == {"idle", "rLoad", "rCas", "tryRLoad", "tryRCas", "reading",
           "wTas", "wLoad", "wCas", "tryWTas", "tryWLoad", "tryWCas",
           "wWait", "writing", "wClear"}

LockTypeOK == /\ at  \in [Proc -> Labels]
              /\ l   \in Int32
              /\ w   \in BOOLEAN
              /\ cnt \in [Proc -> Int32]

LockInit == /\ at  = [p \in Proc |-> "idle"]
            /\ l   = 0
            /\ w   = FALSE
            /\ cnt = [p \in Proc |-> 0]

-----------------------------------------------------------------------------
(* The conditions and values the accesses compute. *)

\* A reader tries its CAS only when it read a count without the sign bit.
ReaderMayEnter_Unguarded(v) == TRUE
ReaderMayEnter(v) == v >= 0

\* A compare_exchange succeeds only if l_ still holds what p read.
CasMatches_Always(p) == TRUE
CasMatches(p) == l = cnt[p]

\* test_and_set finds the flag clear.
TasWins(x) == ~x

\* cnt | 0x80000000, converted back to int32_t
SetBit(v) == IF v < 0 THEN v ELSE v - Bit

\* !(cnt > 0x80000000): the comparison is unsigned
Unsigned(v) == IF v < 0 THEN v + 2 * Bit ELSE v
Drained_OneLeft(v) == ~(Unsigned(v) > Bit + 1)
Drained_Strict(v) == ~(Unsigned(v) >= Bit)
Drained(v) == ~(Unsigned(v) > Bit)

\* fetch_sub(1) wraps in two's complement.
Decrement(v) == IF v = -Bit THEN Bit - 1 ELSE v - 1

-----------------------------------------------------------------------------
\* The access takes thread p from one label to another; p's local becomes v.
Step(p, from, to) == at[p] = from /\ at' = [at EXCEPT ![p] = to]
Local(p, v)       == cnt' = [cnt EXCEPT ![p] = v]

\* lock and try_lock of the read lock, lock and try_lock of the write lock
Calls == {"rLoad", "tryRLoad", "wTas", "tryWTas"}
Call(p) == (\E label \in Calls : Step(p, "idle", label)) /\ UNCHANGED <<l, w, cnt>>

(* Read: compare_exchange_weak may also fail when the values are equal.     *)
ReadLoad(p) == /\ Step(p, "rLoad", "rCas") /\ ReaderMayEnter(l)
               /\ Local(p, l) /\ UNCHANGED <<l, w>>

ReadCas(p) == /\ Step(p, "rCas", "reading") /\ CasMatches(p)
              /\ l' = cnt[p] + 1 /\ Local(p, 0) /\ UNCHANGED w

ReadCasFails(p) == Step(p, "rCas", "rLoad") /\ Local(p, 0) /\ UNCHANGED <<l, w>>

(* TryRead *)
TryReadLoad(p) == /\ IF ReaderMayEnter(l)
                     THEN Step(p, "tryRLoad", "tryRCas") /\ Local(p, l)
                     ELSE Step(p, "tryRLoad", "idle") /\ UNCHANGED cnt
                  /\ UNCHANGED <<l, w>>

TryReadCas(p) == /\ IF CasMatches(p)
                    THEN Step(p, "tryRCas", "reading") /\ l' = cnt[p] + 1
                    ELSE Step(p, "tryRCas", "idle") /\ UNCHANGED l
                 /\ Local(p, 0) /\ UNCHANGED w

DoneRead(p) == /\ Step(p, "reading", "idle")
               /\ l' = Decrement(l) /\ UNCHANGED <<w, cnt>>

(* Write: a failed CAS loads l_ into cnt and the loop tries again. *)
WriteTas(p) == /\ Step(p, "wTas", "wLoad") /\ TasWins(w)
               /\ w' = TRUE /\ UNCHANGED <<l, cnt>>

WriteLoad(p) == Step(p, "wLoad", "wCas") /\ Local(p, l) /\ UNCHANGED <<l, w>>

WriteCas(p) == /\ Step(p, "wCas", "wWait") /\ CasMatches(p)
               /\ l' = SetBit(cnt[p]) /\ Local(p, 0) /\ UNCHANGED w

WriteCasFails(p) == Step(p, "wCas", "wCas") /\ Local(p, l) /\ UNCHANGED <<l, w>>

\* the last loop of Write and of TryWrite
WriteWait(p) == Step(p, "wWait", "writing") /\ Drained(l) /\ UNCHANGED <<l, w, cnt>>

(* TryWrite: when the CAS fails the call returns false with w still set. *)
TryWriteTas(p) == /\ Step(p, "tryWTas", IF TasWins(w) THEN "tryWLoad" ELSE "idle")
                  /\ w' = TRUE /\ UNCHANGED <<l, cnt>>

TryWriteLoad(p) == Step(p, "tryWLoad", "tryWCas") /\ Local(p, l) /\ UNCHANGED <<l, w>>

TryWriteCas(p) == /\ IF CasMatches(p)
                     THEN Step(p, "tryWCas", "wWait") /\ l' = SetBit(cnt[p])
                     ELSE Step(p, "tryWCas", "idle") /\ UNCHANGED l
                  /\ Local(p, 0) /\ UNCHANGED w

(* DoneWrite: l_.store(0), then w_.clear() *)
DoneWriteStore_NoClear(p) == Step(p, "writing", "idle") /\ l' = 0 /\ UNCHANGED <<w, cnt>>
DoneWriteStore(p) == Step(p, "writing", "wClear") /\ l' = 0 /\ UNCHANGED <<w, cnt>>

DoneWriteClear(p) == Step(p, "wClear", "idle") /\ w' = FALSE /\ UNCHANGED <<l, cnt>>

ReaderStep(p) == \/ ReadLoad(p) \/ ReadCas(p) \/ ReadCasFails(p)
                 \/ TryReadLoad(p) \/ TryReadCas(p) \/ DoneRead(p)

WriterStep(p) == \/ WriteTas(p) \/ WriteLoad(p) \/ WriteCas(p)
                 \/ WriteCasFails(p) \/ WriteWait(p)
                 \/ TryWriteTas(p) \/ TryWriteLoad(p) \/ TryWriteCas(p)
                 \/ DoneWriteStore(p) \/ DoneWriteClear(p)

LockNext == \E p \in Proc : Call(p) \/ ReaderStep(p) \/ WriterStep(p)

LockSpec == LockInit /\ [][LockNext]_lockVars

\* Threads holding the lock or its sign bit are scheduled and leave their
\* critical sections; nothing is assumed of the retry loops.
Fairness == \A p \in Proc : /\ WF_lockVars(WriteWait(p))
                            /\ WF_lockVars(DoneRead(p))
                            /\ WF_lockVars(DoneWriteStore(p))
                            /\ WF_lockVars(DoneWriteClear(p))

LockFairSpec == LockSpec /\ Fairness

-----------------------------------------------------------------------------
(* Properties *)

Readers == {p \in Proc : at[p] = "reading"}
Writers == {p \in Proc : at[p] = "writing"}
\* threads whose sign bit is in l
Marked  == {p \in Proc : at[p] \in {"wWait", "writing"}}
\* threads that took w and still have to clear it
Holders == {p \in Proc : at[p] \in {"wLoad", "wCas", "tryWLoad", "tryWCas",
                                    "wWait", "writing", "wClear"}}

\* Read/Write (lines 41-67): a writer's critical section excludes every
\* reader and every other writer.
MutualExclusion ==
    \A p \in Writers : Readers = {} /\ Writers = {p}

\* l_ is at every moment the number of threads inside Read..DoneRead, less
\* 2^31 exactly while a writer has announced itself: no CAS, fetch_sub or
\* store(0) ever loses or invents a reader.
CountExact ==
    l = Cardinality(Readers) - (IF Marked = {} THEN 0 ELSE Bit)

\* At most one thread has w_ to clear, and w_ is set while one has.
FlagOwned ==
    /\ \A p, q \in Holders : p = q
    /\ Holders # {} => w

\* Once a writer has set the sign bit, no reader enters before it has been in
\* and out: it waits for the readers it found and for no other.
NoOvertaking ==
    [][Marked # {} /\ Marked' # {} => Readers' \subseteq Readers]_lockVars

\* TryWrite (line 73) may return false with w_ set and nobody left to clear
\* it.  From then on no thread ever becomes a writer again.
Leaked == w /\ Holders = {}
LeakIsForever == [][Leaked => Leaked' /\ Marked' = {}]_lockVars

\* Only a TryWrite whose CAS failed leaves w_ set with nobody to clear it:
\* lock and unlock of either lock never do.
OnlyTryWriteLeaks ==
    [][Leaked' /\ ~Leaked =>
         \E p \in Proc : at[p] = "tryWCas" /\ at'[p] = "idle" /\ l # cnt[p]]_lockVars

\* p is in a loop that leaves everything as it is.  These are the accesses
\* that are disabled; from every other place a thread has a step.
Spins(p) == \/ at[p] = "rLoad" /\ ~ReaderMayEnter(l)
            \/ at[p] = "wTas"  /\ ~TasWins(w)
            \/ at[p] = "wWait" /\ ~Drained(l)

\* The spinning threads never wait on one another in a circle: not all of them
\* spin unless the flag is leaked.
StuckOnlyByLeak == Proc # {} /\ (\A p \in Proc : Spins(p)) => Leaked

\* A writer that has set the sign bit gets the lock and gives it back.
PendingWriterCompletes ==
    \A p \in Proc : at[p] = "wWait" ~> at[p] = "idle"

=============================================================================
